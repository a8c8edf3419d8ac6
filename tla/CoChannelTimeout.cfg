CONSTANTS
  MaxCid = 2
  MaxDefer = 0
  Destructible = {}
  MaxPush = 3
  MaxQueue = 2
  Timeouts = {FALSE, TRUE}
SPECIFICATION ChannelSpec
INVARIANTS
  EachValueOnce
  NobodyForgotten
CHECK_DEADLOCK FALSE
