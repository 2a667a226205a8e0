\* Two processes, three threads, a store of either kind, faults.
SPECIFICATION Spec
CONSTANTS
  p1 = p1
  p2 = p2
  t1 = t1
  t2 = t2
  t3 = t3
  Procs <- MCProcs
  Threads <- MCThreads
  ProcOf <- MCProcOf
  Experimenters = {t1}
  MaxSamples = 2
  MaxSessions = 2
  MaxRepeats = 1
  MaxFaults = 1
INVARIANTS
  TypeOK
  SettledOnce
  AnswersSurvive
  RollbackIsRecorded
  HeldByItsCall
CHECK_DEADLOCK FALSE
