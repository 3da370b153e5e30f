SPECIFICATION Spec
CONSTANTS
  MaxElapsed = 2
INVARIANTS
  TypeOK
  SignalsMatchLevel
  TimersFollowPending
  TriggerEvicts
PROPERTY ImplementsMembership
