SPECIFICATION FairSpec
CONSTANTS
  Doc = {d1}
  Deletable = {}
  Gen = {g1}
  Chunk = {c1, c2}
  PgVector = FALSE
  Worker = {w1, w2}
  NoWorker = NoWorker
  NoJob = NoJob
  MaxAttempts = 3
  MaxRebuilds = 0
  MaxFaults = 3
  MaxOverruns = 0
  MaxMishaps = 3
INVARIANTS
  IndexedIsServed
PROPERTIES
  JobEndsOrStrands
CHECK_DEADLOCK FALSE
