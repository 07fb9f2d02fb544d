CONSTANTS
  f = f
  s = s
  NoPeer = NoPeer
  Peers <- Both
  Friends <- OnlyF
  Typed <- OnlyF
  Clicked <- OnlyF
  MaxJoins = 1
  MaxPosts = 2
  MaxAnswers = 1
SPECIFICATION DashFairSpec
INVARIANTS
  GateHolds
  UnderWayIsShown
  AnsweredIsNotPending
PROPERTY StrangerIsShown
