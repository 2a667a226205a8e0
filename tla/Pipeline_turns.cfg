\* One session of two turns, and a repeated result, a dead letter, an exception or a crash.
SPECIFICATION Spec
CONSTANTS
  Last = 3
  Sessions = {k1}
  Turns = 2
  Threshold = 2
  MaxFaults = 1
INVARIANTS
  TypeOK
  ListenerTellsTheTruth
PROPERTIES
  ImplementsAtLeastOnce
CHECK_DEADLOCK FALSE
