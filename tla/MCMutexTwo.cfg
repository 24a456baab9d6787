CONSTANTS
  hi = hi
  mid = mid
  lo = lo
  idle = idle
  RT_NULL = RT_NULL
  A = A
  B = B
  Thread <- TwoThreads
  WaitList <- TwoMutexes
  Mutex <- TwoMutexes
  PRIORITY_MAX = 4
  InitPriority <- MCInitPriority
  InitTick <- MCInitTick
  StartTable <- TwoStart
  FLAG = "PRIO"
  HOLD_MOD = 3
  MaxHold = 2
  Times <- Timed
  Delays = {1}

SPECIFICATION Spec

INVARIANTS
  ListsConsistent
  OwnerHolds
  NoWaiterOnFree
