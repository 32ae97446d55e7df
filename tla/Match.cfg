SPECIFICATION FairSpec
CONSTANTS
  s1 = s1
  s2 = s2
  s3 = s3
  p1 = p1
  p2 = p2
  None = None
  Sources = {s1, s2, s3}
  Payments = {p1, p2}
  Workers = {k1, k2}
  Version <- Versions
  Feature <- Features
  Pays <- Payer
  MaxDeliveries = 1
  MaxFaults = 1
  MaxOld = 1
INVARIANTS
  TypeOK
  
PROPERTIES
  
  EventuallyMatched
CONSTRAINT Scope
CHECK_DEADLOCK FALSE
