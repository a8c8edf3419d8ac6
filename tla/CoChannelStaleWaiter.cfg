CONSTANTS
  MaxCid = 2
  MaxDefer = 0
  Destructible = {}
  MaxPush = 2
  MaxQueue = 2
  Timeouts = {FALSE, TRUE}
SPECIFICATION ChannelSpec
INVARIANTS
  NoStaleResume
CHECK_DEADLOCK FALSE
