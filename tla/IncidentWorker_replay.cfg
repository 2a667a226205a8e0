\* One worker records two incidents through crashes, failed appends and copies.
SPECIFICATION Spec
CONSTANTS
  Incidents = {i1, i2}
  Keys = {"k1", "k2"}
  Threshold = 2
  Messages <- MCMessages
  MaxCopies = 2
  MaxFaults = 1
INVARIANTS
  TypeOK
  SnapshotsMatchStore
  UpdatesTellTheOutcome
  RecurrenceEscalates
PROPERTIES
  ReplayedStateMovesLegally
  EveryIncidentSettles
CHECK_DEADLOCK FALSE
