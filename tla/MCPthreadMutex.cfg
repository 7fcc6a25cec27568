SPECIFICATION Spec
CONSTANTS
  t1 = t1
  t2 = t2
  t3 = t3
  mi = mi
  mj = mj
  Threads = {t1, t2, t3}
  Mutexes = {mi, mj}
  Protocol <- MCProtocol
  Type <- MCType
  InitCeiling <- MCCeiling
  InitPri <- MCInitPri
  NumPri = 4
  Apps <- MCApps
INVARIANTS Inheritance
CHECK_DEADLOCK FALSE
