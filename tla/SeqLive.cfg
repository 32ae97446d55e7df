SPECIFICATION FairSpec
CONSTANTS
  Tx = {t1, t2}
  Exec = {e1}
  NoExec = NoExec
  Version = "transfer"
  PaidType = 2
  BatchSize = 2
  MaxCount = 2
  PromptRedis = TRUE
  CommitMayFail = FALSE
  MaxCrashes = 0
  MaxFaults = 1
  MaxDeliveries = 0
  MaxPipe = 2
  MaxQueue = 2
INVARIANTS
  MemberIsQueued
PROPERTIES
  EveryOwedSettled
