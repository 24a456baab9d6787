CONSTANTS
  front = front
  back = back
  idle = idle
  mbRecv = mbRecv
  mbSend = mbSend
  mpList = mpList
  mqList = mqList
  evList = evList
  cpList = cpList
  dqPush = dqPush
  dqPop = dqPop
  piRead = piRead
  piWrite = piWrite
  b1 = b1
  b2 = b2
  m1 = m1
  m2 = m2
  d1 = d1
  e1 = e1
  i1 = i1
  i2 = i2
  i3 = i3
  w1 = w1
  w2 = w2
  s1 = s1
  s2 = s2
  NoItem = NoItem
  ISR = ISR
  NULL = NULL
  Thread <- MCThread
  WaitList <- MCWaitList
  PRIORITY_MAX = 3
  InitPriority <- MCInitPriority
  InitTick <- MCInitTick
  StartTable <- MCStartTable
  FLAG = "PRIO"
  Times <- Timed
  MpTimes <- Untimed
  Block = {b1, b2}
  Mail = {b1, b2}
  BlockList <- MCBlockList
  MB_SIZE = 1
  Msg = {m1, m2}
  MsgFree <- MCMsgFree
  Data = {d1}
  UrgentData = {}
  Ev = {e1}
  DQ_SIZE = 2
  LWM = 1
  INDEX_MOD = 65536
  MaxPush = 5
  Item = {i1, i2, i3}
  PopTimes <- MCPopTimes
  Char = {0, 1}
  BUFSZ = 3
  MaxWrite = 2
  Byte = {0, 1}
  RB_SIZE = 3
  Writes <- MCWrites
  Sizes = {1, 2}
  Work = {w1, w2}
  worker = front
  timer_thread = front
  SoftTimers = {s1, s2}
  NoTimer = NoTimer
  SoftTick <- MCSoftTick
  SoftPeriodic = {s2}
  MaxLate = 1
  HEADER = 3
  MIN_SIZE = 3
  MEM_SIZE = 18
  HpSizes = {1, 5}
  MH_HEADER = 2
  MINIALLOC = 1
  POOL_SIZE = 16
  MhSizes = {1, 5}
  MhCaller = {front, back}
  Applications <- MCApplications

SPECIFICATION DevFairSpec

INVARIANTS
  
  
  
  
  HeapConsistent

PROPERTIES
  DataQueueIsQueue
  RingsAreStreams
  CallsEnd
  
