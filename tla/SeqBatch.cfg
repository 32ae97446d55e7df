SPECIFICATION Spec
CONSTANTS
  Tx = {t1, t2}
  Exec = {e1, e2}
  NoExec = NoExec
  Version = "inscription"
  PaidType = 2
  BatchSize = 2
  MaxCount = 2
  PromptRedis = TRUE
  CommitMayFail = TRUE
  MaxCrashes = 1
  MaxFaults = 1
  MaxDeliveries = 0
  MaxPipe = 2
  MaxQueue = 2
SYMMETRY Symmetry
INVARIANT AtMostOnePayment
PROPERTY PaysOnce
