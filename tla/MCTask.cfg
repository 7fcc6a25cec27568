SPECIFICATION FairSpec
CONSTANTS
  a = a
  b = b
  c = c
  Tasks = {a, b, c}
  NumPri = 3
  InitPri <- MCInitPri
  Levels <- OnlyOff
  DeleteTerminated = TRUE
  Calls <- MCCalls
  HwiLevels = {1}
INVARIANTS IInv RunningIsHighest LockBalance ReadyListsOK SleepClockOK TerminatedQOK
PROPERTIES FirstComeFirstServed LockExcludesTasks HighestRuns
