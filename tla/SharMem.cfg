CONSTANTS
  MaxProcess = 3
  MaxObject = 2
  MAX_PROCESSES = 2
  MaxPair = 2
  MaxFd = 4
  Buffer = 1
  MaxMapping = 2
  MaxIncr = 3
SPECIFICATION SharSpec
INVARIANTS
  SharTypeOK
  NoCrossTalk
  EntriesArePairs
  AloneNothingLost
CHECK_DEADLOCK FALSE
