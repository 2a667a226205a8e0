\* Does a redelivery leave the repeated-incident count alone?
SPECIFICATION Safety
CONSTANTS
  Incidents = {i1}
  Keys = {"k1"}
  Threshold = 3
  Messages <- MCQuiet
  MaxCopies = 1
  MaxFaults = 1
INVARIANTS
  CountsDistinctIncidents
CHECK_DEADLOCK FALSE
