SPECIFICATION Spec
CONSTANTS
    AllowList <- MCAllowList
    MaxSessions = 3
    MaxFaults = 2
    MaxExpiries = 2
INVARIANTS
    TypeOK
    ObservationTellsEffect
    ParentsAreOwn
    UnauthorizedHasACause
    BoundedTraffic
    TelemetryPattern
PROPERTIES
    SessionsEnd
CHECK_DEADLOCK FALSE
