CONSTANTS
  MaxProcess = 2
  MaxObject = 2
  MAX_PROCESSES = 2
  MaxPair = 1
  MaxFd = 2
  Buffer = 1
SPECIFICATION PoolSpec
INVARIANT LiteralsWork
CHECK_DEADLOCK FALSE
