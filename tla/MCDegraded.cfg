SPECIFICATION Spec
CONSTANTS
  Constituents = {c1}
  MaxElapsed = 2
INVARIANT DegradedNeverParticipates
