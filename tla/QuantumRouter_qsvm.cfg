\* The configuration with the QSVM backend, in half-second ticks: a job may
\* take longer (16 s) than its caller waits (10 s).
SPECIFICATION Spec
CONSTANTS
  Callers = {t1, t2}
  FailureThreshold = 3
  Cooldown = 60
  MaxRetries = 2
  Timeout = 10
  Backoff = 1
  WaitBudget = 20
INVARIANTS
  TypeOK
  OneTrial
PROPERTIES
  OnlyGivingUpLocksOut
  RecoversUnlessLockedOut
