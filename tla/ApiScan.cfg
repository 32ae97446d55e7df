SPECIFICATION FairSpec
CONSTANTS
  Kinds = {"loopring", "zkspace", "immutable"}
  Transfer <- Transfers
  Outgoing = {1, 2, 4, 5}
  PageSize <- Sizes
  Window = 1
  MaxTime = 4
  MaxFaults = 1
  MaxCrashes = 1
INVARIANTS
  TypeOK
  NothingMissed
PROPERTY EventuallySent
CHECK_DEADLOCK FALSE
