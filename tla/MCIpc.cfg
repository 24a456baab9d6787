CONSTANTS
  hi = hi
  lo = lo
  idle = idle
  mbRecv = mbRecv
  mbSend = mbSend
  mpList = mpList
  mqList = mqList
  evList = evList
  b1 = b1
  b2 = b2
  m1 = m1
  m2 = m2
  d1 = d1
  d2 = d2
  e1 = e1
  e2 = e2
  ISR = ISR
  NULL = NULL
  Thread <- MCThread
  WaitList <- MCWaitList
  PRIORITY_MAX = 3
  InitPriority <- MCInitPriority
  InitTick <- MCInitTick
  StartTable <- MCStartTable
  FLAG = "PRIO"
  Times <- MCTimes
  MpTimes <- Untimed
  Block = {b1, b2}
  Mail = {b1, b2}
  BlockList <- MCBlockList
  MB_SIZE = 2
  Msg = {m1, m2}
  MsgFree <- MCMsgFree
  Data = {d1, d2}
  UrgentData = {d2}
  Ev = {e1, e2}
  Applications <- MCApplications

SPECIFICATION Spec

INVARIANTS
  ListsConsistent
  BlocksAccounted
  NoLostWakeup
  MqWellFormed

PROPERTIES
  QueuesAreQueues
  EvDelivers
