CONSTANTS
  MaxCid = 3
  MaxDefer = 0
  Destructible = {}
  MaxPush = 3
  MaxQueue = 3
  Timeouts = {FALSE}
SPECIFICATION ChannelSpec
INVARIANTS
  ChannelTypeOK
  NoStaleResume
  WaitersQueued
  NobodyWaitsInVain
  WokenSucceeds
  DeliveredInOrder
CHECK_DEADLOCK FALSE
