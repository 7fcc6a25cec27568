SPECIFICATION FairSpec
CONSTANTS
  a = a
  b = b
  c = c
  r = r
  Tasks = {a, b, c}
  Sems = {r}
  NumPri = 2
  InitPri <- MCInitPri
  InitCount <- MCInitCount
  CountLimit = 2
  Mode <- MCMode
  HwiLevels = {0}
INVARIANTS WaitersOK
PROPERTIES KeepsPromise TimedWaitEnds
