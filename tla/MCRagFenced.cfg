SPECIFICATION Spec
CONSTANTS
  Doc = {d1}
  Deletable = {d1}
  Gen = {g1}
  Chunk = {c1, c2}
  PgVector = TRUE
  Worker = {w1, w2}
  NoWorker = NoWorker
  NoJob = NoJob
  MaxAttempts = 2
  MaxRebuilds = 1
  MaxFaults = 1
  MaxOverruns = 1
  MaxMishaps = 2
SYMMETRY Symmetry
INVARIANTS
  TypeOK
  DeadLetterIffExhausted
PROPERTIES
  SuccessIsFinal
  PurgedIsFinal
CHECK_DEADLOCK FALSE
