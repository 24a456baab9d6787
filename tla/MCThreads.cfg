CONSTANTS
  boss = boss
  w1 = w1
  w2 = w2
  idle = idle
  Thread <- MCThread
  WaitList <- MCWaitList
  PRIORITY_MAX = 3
  InitPriority <- MCInitPriority
  InitTick <- MCInitTick
  StartTable <- MCStartTable
  Heap <- MCHeap
  Cleanup = {boss}
  Garbage <- MCGarbage
  Applications <- MCApplications
  Delays = {1}
  MaxLock = 2

SPECIFICATION Spec

INVARIANTS
  NoFault
  ListsConsistent
  NoLostThread
  HighestRuns
