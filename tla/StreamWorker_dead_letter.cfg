\* One process and one fault: did a dead-lettered event fail for good?
SPECIFICATION Spec
CONSTANTS
  Events = {e1}
  Consumers = {c1}
  MaxRetries = 1
  BatchSize = 1
  ClaimBatch = 1
  MaxFaults = 1
INVARIANTS
  DeadLetterIsFinal
