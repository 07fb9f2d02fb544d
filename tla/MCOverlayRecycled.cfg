CONSTANTS
  h = h
  a = a
  b = b
  NoPeer = NoPeer
  Broadcast = Broadcast
  Peers <- Three
  FirstHost = 2
  MaxHost = 2
  HostIP = 1
  Bootstrap <- StarBootstrap
  MayJoin <- NoJoins
  MayClick <- NoJoins
  Friends <- HostFriends
  MayDeny <- Nobody
  MayLeave <- OnlyA
  MayCrash <- Nobody
  SetIPOutcomes <- Sets
  VerifyMayFail = FALSE
  MaxJoins = 1
  MaxInFlight = 1
  MaxRestarts = 0
  Ports <- OnePort
  MayConfigure <- Nobody
  Reaches <- Announce
  MaxData = 1
SPECIFICATION OverlaySpec
INVARIANT LeaseholderIsHeard
CHECK_DEADLOCK FALSE
