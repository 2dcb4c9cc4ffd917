SPECIFICATION Spec
CONSTANTS
  Clients = {k1}
  Runs = {r1}
  RequestCap = 1
  SendCap = 1
  MaxRequests = 1
  MaxEvents = 1
CHECK_DEADLOCK FALSE
INVARIANTS
  RemovedFromAll
