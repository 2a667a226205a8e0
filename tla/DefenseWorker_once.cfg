\* One sample whose quantum stage may run twice.
SPECIFICATION Spec
CONSTANTS
  Samples = {s1}
  Observations <- MCObservations
  QuantumAnswers = {20, 150, 190, 200}
  MaxRetries = 1
  MaxCopies = 2
  MaxCrashes = 0
INVARIANT DefendedOnce
CHECK_DEADLOCK FALSE
