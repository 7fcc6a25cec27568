SPECIFICATION FairSpec
CONSTANTS
  x = x
  y = y
  Objects = {x, y}
  TickLimit = 9
  Timeouts = {2}
  Periods = {0, 1}
  MaxLag = 2
  Racing = FALSE
INVARIANTS NothingMissed
PROPERTIES KeepsPromise DueFires
