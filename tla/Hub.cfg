\* Two connections, of two structures or of one that is used again.
SPECIFICATION Spec
CONSTANTS
  MaxConns = 2
  Clients = {o1, o2}
  NoConn = NoConn
  NoClient = NoClient
  MaxMessages = 3
  BroadcastCap = 1
  RegisterCap = 1
  SendCap = 1
INVARIANTS TypeOK HubPanicsByReuse CountCovers StreamUnbroken
 
CHECK_DEADLOCK FALSE
