\* One constituent: constituents share nothing but the main thread.
SPECIFICATION FairSpec
CONSTANTS
  Constituents = {c1}
  MaxElapsed = 2
INVARIANTS
  TypeOK
  SignalsMatchBelonging
  RestIsSettled
  HealthIsEnforced
  PendingHasTimer
PROPERTIES
  PendingEnds
  FailureEvicts
