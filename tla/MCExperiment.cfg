\* The run is over after MaxTick ticks; hence no deadlock check.
SPECIFICATION Spec
CONSTANTS
  Interval = 1
  MaxTick = 10
CHECK_DEADLOCK FALSE
INVARIANTS
  TypeOK
  CallsSettle
  ParticipatesInTime
  SilentSlotsAreReconstructed
  NoSlotTwice
