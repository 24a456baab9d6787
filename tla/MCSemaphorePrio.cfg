CONSTANTS
  hi = hi
  lo = lo
  lo2 = lo2
  idle = idle
  semList = semList
  sem = semList
  Thread <- MCThread
  WaitList <- MCWaitList
  PRIORITY_MAX = 3
  InitPriority <- MCInitPriority
  InitTick <- MCInitTick
  StartTable <- MCStartTable
  FLAG = "PRIO"
  InitValue = 1
  VALUE_MOD = 3
  MaxValue = 2
  Times <- MCTimes
  NewPriority = {}
SPECIFICATION Spec
INVARIANTS
  TypeOK
  KernelConsistent
  NoWaiterWithToken
  TokensConserved
  HighestRuns
PROPERTIES
  GrantsHighest
