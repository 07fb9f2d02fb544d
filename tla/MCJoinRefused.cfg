CONSTANTS
  h = h
  a = a
  b = b
  NoPeer = NoPeer
  Peers <- Pair
  FirstHost = 2
  MaxHost = 2
  HostIP = 1
  Bootstrap <- GuestBootstraps
  MayJoin <- GuestJoins
  MayClick <- NoJoins
  Friends <- AllFriends
  MayDeny <- Nobody
  MayLeave <- Nobody
  MayCrash <- Nobody
  SetIPOutcomes <- SetsOrHalf
  VerifyMayFail = FALSE
  MaxJoins = 2
  MaxInFlight = 1
  MaxRestarts = 0
SPECIFICATION Spec
PROPERTY RefusedIsUnused
CHECK_DEADLOCK FALSE
