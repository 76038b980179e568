SPECIFICATION FairSpec
CONSTANTS
  Doc = {d1}
  Deletable = {}
  Gen = {g1}
  Chunk = {c1, c2}
  PgVector = TRUE
  Worker = {w1}
  NoWorker = NoWorker
  NoJob = NoJob
  MaxAttempts = 2
  MaxRebuilds = 0
  MaxFaults = 1
  MaxOverruns = 0
  MaxMishaps = 1
PROPERTIES
  QueueDrains
CHECK_DEADLOCK FALSE
