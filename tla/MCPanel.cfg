CONSTANTS
  web = web
  r1 = r1
  s1 = s1
  Handler = Handler
  Ports <- OnePort
  Senders <- OneSender
  Polls <- OnePoll
  MaxActs = 2
  MaxDeaths = 1
SPECIFICATION PanelFairSpec
INVARIANTS
  CallsApart
PROPERTIES
  ControlsComeBack
  PanelSettles
CHECK_DEADLOCK FALSE
