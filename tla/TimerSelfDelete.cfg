CONSTANTS
  Second = 3
  HalfInt = 16
  TickDelays = {2}
  AfterDelays = {1, 4}
  SleepTimes = {}
  MaxTimers = 2
  MaxClock = 8
  MaxSkew = 0
SPECIFICATION FairSpec
INVARIANT NothingFreedInUse
CHECK_DEADLOCK FALSE
