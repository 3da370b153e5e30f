\* The step limits are the defaults of the code.
SPECIFICATION NavFairSpec
CONSTANTS
  Constituents = {c1}
  MaxElapsed = 1
  MaxSteps = 15
  MaxHealthSteps = 10
  Punctual = TRUE
INVARIANTS
  NavTypeOK
  HealthyReachTheirGoal
  HealthIsReached
PROPERTIES
  ImplementsLifecycle
  NavigationEnds
