SPECIFICATION FairSpec
CONSTANTS
  low = low
  med = med
  high = high
  g1 = g1
  g2 = g2
  Tasks = {low, med, high}
  Gates = {g1, g2}
  NumPri = 3
  InitPri <- MCInitPri
  Apps <- MCApps
INVARIANTS MutualExclusion PriorityReturned GateQueueSorted SimpleInheritance
PROPERTIES TopGetsGate
