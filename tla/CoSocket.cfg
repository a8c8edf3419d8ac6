CONSTANTS
  MaxCid = 2
  MaxDefer = 0
  Destructible = {}
  MaxSockets = 2
  MaxFd = 2
  HalfWord = 100
SPECIFICATION SocketSpec
INVARIANTS
  DescriptorsOwned
  EventsIntact
  WaitersRegistered
PROPERTIES
  LoopKeepsWaiting
  ReadyIsServed
CHECK_DEADLOCK FALSE
