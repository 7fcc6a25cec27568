SPECIFICATION Spec
CONSTANTS
  x = x
  y = y
  z = z
  Swis = {x, y, z}
  Task = Task
  Hwi = Hwi
  NoSwi = NoSwi
  NumPri = 2
  InitPri <- MCInitPri
  InitTrigger <- MCInitTrigger
  TriggerLimit = 2
  Uses <- MCUses
  Levels <- MCLevels
  Starts = {0}
  LateSetAttrs = TRUE
  MaxNest = 1
  MayHold <- MCMayHold
  MaxHeld <- MCMaxHeld
INVARIANTS ReadyListsOK
