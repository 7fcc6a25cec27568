SPECIFICATION MCSpec
CONSTANTS
  t1 = t1
  t2 = t2
  t3 = t3
  t4 = t4
  isr0 = isr0
  b1 = b1
  b2 = b2
  m1 = m1
  m2 = m2
  s1 = s1
  e1 = e1
  mi = mi
  mj = mj
  mp = mp
  mn = mn
  Tasks = {t1, t2, t3}
  NumPri = 3
  InitPri <- MCInitPri
  Sems = {s1}
  CountLimit = 3
  InitCount <- MCInitCount
  Mode <- MCMode
  HwiLevels = {}
  Reader = t2
  Explicit = {e1}
  Masks <- MCMasks
  Clients = {t1, t2, t3}
  Isr = isr0
  Blocks = {b1, b2}
  Messages = {m1, m2}
  NoMessage = NoMessage
  NoBlock = NoBlock
  Header = Header
  Users = {t1, t2, t3}
  LockLimit = 4
  Cond = "cond"
  CondApps <- MCCondApps
  Rounders = {t1, t2, t3, t4}
  Count = 3
  Pthreads = {t1, t2, t3}
  Mutexes = {mi, mj, mp, mn}
  Protocol <- MCProtocol
  Type <- MCType
  InitCeiling <- MCInitCeiling
  PthreadPri <- MCPthreadPri
  PthreadLevels = 4
  MutexApps <- MCMutexApps
  LifeApps <- MCLifeApps
INVARIANTS BlocksOK TokensOK NoStandoff RwExclusion ReadersWoken NoMissedEvent NoUnseenToken EventResultOK PriorityOrder
INVARIANTS MutexExclusion MutexPriority NoLostWaiter BarrierTokens ThreadsFreed
PROPERTIES KeepsBuffer
