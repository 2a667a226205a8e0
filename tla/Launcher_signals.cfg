\* One worker, two polls of a Redis, two signals (one in the middle of the
\* other's shutdown) and one child that dies by itself.
SPECIFICATION Spec
CONSTANTS
    WorkerModules <- MCWorkerModules
    Polls = 2
    MaxSignals = 2
    MaxDeaths = 1
INVARIANTS TypeOK SurvivorsHaveACause
PROPERTY ShutdownEnds
\* The launcher ends.
CHECK_DEADLOCK FALSE
