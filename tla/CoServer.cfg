CONSTANTS
  MaxCid = 3
  MaxDefer = 0
  Destructible = {}
  MaxSockets = 3
  MaxFd = 2
  HalfWord = 100
  Sleepers = {2}
  HandlerCalls = {"recv"}
SPECIFICATION ServerSpec
INVARIANTS
  ServerTypeOK
  ShutdownAcceptsOneMore
CHECK_DEADLOCK FALSE
