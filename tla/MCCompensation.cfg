\* Events handled within the grace period, the monitor done before the next
\* slot.  Time ends at MaxTime; hence no deadlock check.
SPECIFICATION Spec
CONSTANTS
  Interval = 4
  Grace = 1
  MaxDelay = 1
  MaxLag = 1
  MaxTime = 20
CHECK_DEADLOCK FALSE
INVARIANTS
  TypeOK
  SilentSlotsAreReconstructed
  NoSlotTwice
  ScheduleKeepsPace
