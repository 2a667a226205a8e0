\* Two processes of one group reclaim an event's entries from each other, in batches.
SPECIFICATION Spec
CONSTANTS
  Events = {e1}
  Consumers = {c1, c2}
  MaxRetries = 1
  BatchSize = 2
  ClaimBatch = 1
  MaxFaults = 1
INVARIANTS
  TypeOK
  NoEventLost
  DuplicatesAccounted
  DeadLetterAfterEveryRetry
PROPERTIES
  ImplementsAtLeastOnce
  PendingDrains
