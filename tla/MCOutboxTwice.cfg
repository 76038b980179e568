SPECIFICATION Spec
CONSTANTS
  NEvents = 2
  Pass = {p1, p2}
  Token = {t1, t2, t3, t4}
  NoClaim = NoClaim
  BatchSize = 2
  MaxAttempts = 2
  MaxFaults = 2
SYMMETRY Symmetry
INVARIANTS
  NoConcurrentDelivery
CHECK_DEADLOCK FALSE
