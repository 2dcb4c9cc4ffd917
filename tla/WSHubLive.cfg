SPECIFICATION FairSpec
CONSTANTS
  Clients = {k1, k2}
  Runs = {r1}
  RequestCap = 1
  SendCap = 1
  MaxRequests = 1
  MaxEvents = 2
CHECK_DEADLOCK FALSE
PROPERTIES
  ConnectionsEnd
  EventsHandled
