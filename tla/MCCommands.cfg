SPECIFICATION Spec
CONSTANTS
  Action = {a1}
  Request = {r1}
  Call = {d1, d2}
  NoCommand = none
  NChanges = 2
  MaxAttempts = 2
  MaxFaults = 2
  MaxCrashes = 1
  MaxCloses = 1
INVARIANTS
  TypeOK
  OneExecutor
  AppliedAtMostOnce
  OutcomeIsTrue
  PullIsWhole
PROPERTIES
  ImplementsExecution
  ApprovedSettles
