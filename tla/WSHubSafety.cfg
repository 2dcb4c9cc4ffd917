SPECIFICATION Spec
CONSTANTS
  Clients = {k1, k2}
  Runs = {r1}
  RequestCap = 2
  SendCap = 2
  MaxRequests = 2
  MaxEvents = 3
CHECK_DEADLOCK FALSE
SYMMETRY Symmetry
INVARIANTS
  TypeOK
  MapsAgree
  RequestsHonoured
  NoGhostClients
PROPERTIES
  FeedSpec
