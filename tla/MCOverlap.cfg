\* Overlapping calls.  A thread may be stuck in get(); hence no deadlock check.
SPECIFICATION Spec
CONSTANTS
  main = main
  monitor = monitor
  timer = timer
  Callers = {main}
  Timers = {timer}
  Offered <- RoleEvents
  Overlap = TRUE
  MaxCalls = 3
CHECK_DEADLOCK FALSE
INVARIANTS
  TypeOK
  GuardIsFreed
  NothingStaysRaised
  RegionKeepsALeaf
