CONSTANTS
  h = h
  a = a
  b = b
  NoPeer = NoPeer
  Peers <- Pair
  FirstHost = 2
  MaxHost = 2
  HostIP = 1
  Bootstrap <- GuestBootstraps
  MayJoin <- GuestJoins
  MayClick <- NoJoins
  Friends <- NoFriends
  MayDeny <- Nobody
  MayLeave <- Nobody
  MayCrash <- OnlyHost
  SetIPOutcomes <- SetsOrHalf
  VerifyMayFail = FALSE
  MaxJoins = 2
  MaxInFlight = 1
  MaxRestarts = 1
SPECIFICATION RetrySpec
INVARIANTS
  AddressKept
  PendingIsTimed
  NoSecondResult
PROPERTIES
  PendingResolves
CHECK_DEADLOCK FALSE
