SPECIFICATION Spec
CONSTANTS
  own_router = own_router
  own_network = own_network
  other_router = other_router
  other_network = other_network
  a1 = a1
  a2 = a2
  a3 = a3
  a4 = a4
  a5 = a5
  LSAs = {own_router, own_network, other_router}
  RouterLSAs = {own_router, other_router}
  OwnRouter = own_router
  OwnNetwork = own_network
  IdIsAddress = TRUE
  Prior = {1}
  Arrivals = {0}
  Addrs = {a1, a2, a3, a4}
  MaxSeq = 2
  Null = Null
  Free = Free
SYMMETRY MCSymmetry
VIEW MCView
INVARIANTS
  TypeOK
  ListsSound
PROPERTIES
  OwnKept
  OwnNewestGrows
  ImplementsStore
CHECK_DEADLOCK FALSE
