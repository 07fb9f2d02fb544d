CONSTANTS
  h = h
  a = a
  b = b
  NoPeer = NoPeer
  Peers <- Pair
  FirstHost = 2
  MaxHost = 2
  HostIP = 1
  Bootstrap <- NoBootstrap
  MayJoin <- NoJoins
  MayClick <- GuestJoins
  Friends <- NoFriends
  MayDeny <- OnlyHost
  MayLeave <- Pair
  MayCrash <- Pair
  SetIPOutcomes <- Sets
  VerifyMayFail = FALSE
  MaxJoins = 1
  MaxInFlight = 1
  MaxRestarts = 1
SPECIFICATION Spec
INVARIANTS
  TypeOK
  AddressKept
  
  DepartureFrees
CHECK_DEADLOCK FALSE
