SPECIFICATION Spec
CONSTANTS
  x = x
  y = y
  Objects = {x, y}
  TickLimit = 9
  Timeouts = {2}
  Periods = {0, 1}
  MaxLag = 2
  Racing = TRUE
PROPERTIES StartKept
