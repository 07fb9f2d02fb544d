CONSTANTS
  p1 = p1
  p2 = p2
  p3 = p3
  p4 = p4
  Peers <- MCPeers
  FirstHost = 2
  MaxHost = 4
SPECIFICATION Spec
INVARIANTS TypeOK NoDoubleLease BooksBalance RefusedOnlyWhenFull
PROPERTIES OldestFirst ImplementsService
