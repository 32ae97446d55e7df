SPECIFICATION FairSpec
CONSTANTS
  Sender = {s1, s2}
  Free = Free
  Ctor = Ctor
  None = None
  Kinds = {"evm", "zksync"}
  Lag = 0
  TooFar = 2
  MaxFile = 2
  MaxPayments = 3
  MaxFaults = 1
  MaxCrashes = 1
INVARIANTS
  TypeOK
  NeverExpired
  NoGap
PROPERTIES
  EveryCallEnds
