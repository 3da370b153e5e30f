\* One call at a time.  All calls made is an end; hence no deadlock check.
SPECIFICATION FairSpec
CONSTANTS
  main = main
  monitor = monitor
  timer = timer
  Callers = {main, monitor}
  Timers = {timer}
  Offered <- AllEvents
  Overlap = FALSE
  MaxCalls = 3
CHECK_DEADLOCK FALSE
PROPERTIES
  RunsToCompletion
  CallsEnd
