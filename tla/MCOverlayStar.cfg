CONSTANTS
  h = h
  a = a
  b = b
  NoPeer = NoPeer
  Broadcast = Broadcast
  Peers <- Three
  FirstHost = 2
  MaxHost = 3
  HostIP = 1
  Bootstrap <- StarBootstrap
  MayJoin <- NoJoins
  MayClick <- NoJoins
  Friends <- HostFriends
  MayDeny <- Nobody
  MayLeave <- OnlyA
  MayCrash <- Nobody
  SetIPOutcomes <- Sets
  VerifyMayFail = FALSE
  MaxJoins = 1
  MaxInFlight = 1
  MaxRestarts = 0
  Ports <- OnePort
  MayConfigure <- OnlyHost
  Reaches <- Talks
  MaxData = 2
SPECIFICATION OverlaySpec
INVARIANTS
  NoSharedAddress
  OneVoicePerAddress
  BoundByDelivery
  RoutesLeadToHolder
CHECK_DEADLOCK FALSE
