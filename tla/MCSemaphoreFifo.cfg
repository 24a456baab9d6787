CONSTANTS
  hi = hi
  lo = lo
  lo2 = lo2
  idle = idle
  semList = semList
  sem = semList
  Thread <- TwoThreads
  WaitList <- MCWaitList
  PRIORITY_MAX = 3
  InitPriority <- MCInitPriority
  InitTick <- MCInitTick
  StartTable <- TwoStart
  FLAG = "FIFO"
  InitValue = 1
  VALUE_MOD = 3
  MaxValue = 2
  Times <- MCTimes
  NewPriority = {0}

SPECIFICATION FairSpec

PROPERTIES
  ImplementsSpec
  TimedTakeEnds
