CONSTANTS
  hi = hi
  mid = mid
  lo = lo
  idle = idle
  RT_NULL = RT_NULL
  A = A
  B = B
  Thread <- ThreeThreads
  WaitList <- OneMutex
  Mutex <- OneMutex
  PRIORITY_MAX = 4
  InitPriority <- MCInitPriority
  InitTick <- MCInitTick
  StartTable <- ThreeStart
  FLAG = "PRIO"
  HOLD_MOD = 3
  MaxHold = 1
  Times <- Forever
  Delays = {1}

SPECIFICATION FairSpec

INVARIANTS
  Inherits
  PriorityReturned
  HighestRuns

PROPERTIES
  HighestIsServed
