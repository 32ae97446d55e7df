SPECIFICATION Spec
CONSTANTS
  Tx = {t1, t2}
  Exec = {e1, e2}
  NoExec = NoExec
  Version = "transfer"
  PaidType = 1
  BatchSize = 1
  MaxCount = 1
  PromptRedis = TRUE
  CommitMayFail = TRUE
  MaxCrashes = 1
  MaxFaults = 1
  MaxDeliveries = 1
  MaxPipe = 2
  MaxQueue = 2
SYMMETRY Symmetry
INVARIANTS
  TypeOK
  AtMostOnePayment
  OneExecutor
  UnbookedIsFenced
  Inductive
PROPERTIES
  PaidKeepsMark
  PaysOnce
