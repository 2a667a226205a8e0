\* The configuration with the QSVM backend, in half-second ticks.
SPECIFICATION Spec
CONSTANTS
  Callers = {t1, t2}
  FailureThreshold = 3
  Cooldown = 60
  MaxRetries = 2
  Timeout = 10
  Backoff = 1
  WaitBudget = 20
PROPERTIES
  Recovers
