\* One sample, delivered up to three times with any outcomes.
SPECIFICATION Spec
CONSTANTS
  Samples = {s1}
  Observations <- MCObservations
  QuantumAnswers = {20, 90, 200}
  MaxRetries = 1
  MaxCopies = 3
  MaxCrashes = 1
INVARIANTS
  TypeOK
  ContractsHold
  HealthyStaysProtected
  ActionsFollowEvidence
PROPERTIES
  ImplementsAllOrNothing
  EverySampleAnswered
CHECK_DEADLOCK FALSE
