\* Everything may have been stopped; hence no deadlock check.
SPECIFICATION FairSpec
CONSTANTS
  Sources = {"s1"}
  QueueSize = 1
  FlushEvery = 2
  MaxEvents = 1
CHECK_DEADLOCK FALSE
INVARIANTS
  TypeOK
  QueuedIsWritten
  OnlyLateErrors
PROPERTY ShutdownCompletes
