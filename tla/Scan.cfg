SPECIFICATION FairSpec
CONSTANTS
  FirstHead = 4
  BatchLimit = 2
  Confirm = 1
  Rewind = 2
  PromptLevel = TRUE
  MaxHead = 5
  MaxFaults = 1
  MaxCrashes = 1
INVARIANTS
  TypeOK
  StoredIsQueued
PROPERTIES
  Durable
  NothingSkipped
  EachBlockScanned
