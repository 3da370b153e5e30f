\* Overlapping calls.  A thread may be stuck in get(); hence no deadlock check.
SPECIFICATION FairSpec
CONSTANTS
  main = main
  monitor = monitor
  timer = timer
  Callers = {main}
  Timers = {timer}
  Offered <- RoleEvents
  Overlap = TRUE
  MaxCalls = 2
CHECK_DEADLOCK FALSE
PROPERTY CallsEnd
