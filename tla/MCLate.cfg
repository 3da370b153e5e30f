\* Events may be handled later than the grace period.  Time ends at MaxTime;
\* hence no deadlock check.
SPECIFICATION Spec
CONSTANTS
  Interval = 4
  Grace = 1
  MaxDelay = 3
  MaxLag = 1
  MaxTime = 20
CHECK_DEADLOCK FALSE
INVARIANT SilentSlotsAreReconstructed
