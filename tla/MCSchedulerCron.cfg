SPECIFICATION SchedulerSpec
CONSTANTS
  p1 = p1
  p2 = p2
  w1 = w1
  w2 = w2
  Job = {j1, j2}
  CronJob = {j2}
  Pass = {p1, p2}
  WorkerOf <- OwnProcess
  NoWorker = NoWorker
  NRuns = 2
  BatchSize = 2
  MaxAttempts = 2
  MaxRetries = 1
  MaxFaults = 2
PROPERTIES
  EveryDueJobRuns
