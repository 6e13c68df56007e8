SPECIFICATION MCSpec
CONSTANTS
  Clients = {c1, c2, c3}
  Server = Server
  NoClient = NoClient
  MaxInterrupts = 1
  MaxSessions = 2
  Servers = {m1, m2}
  NoServer = NoServer
  OldServer = OldServer
  MAXQ_SIZE = 1
CHECK_DEADLOCK FALSE
INVARIANTS ClientsGetOneSession
PROPERTIES ImplementsRendezvous ConnectedClientsServed FifosKeepAccepting WaiterGetsIn
