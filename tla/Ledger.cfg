SPECIFICATION Spec
CONSTANTS
  d1 = d1 d2 = d2 c1 = c1 c2 = c2 c3 = c3 m1 = m1 x1 = x1 o1 = o1 v1 = v1
  u1 = u1 u2 = u2 A = A B = B
  None = None
  Deploys = {d1, d2}
  Claims = {c1, c2, c3}
  Mints = {m1}
  Crosses = {x1}
  Overs = {o1}
  Moves = {v1}
  Users = {u1, u2}
  Workers = {k1, k2}
  ChainList <- AB
  Time <- Times
  Tx <- Txs
  Stored = {d1, d2, c1, c2, c3}
  Bad = {d2}
  Failed = {}
  Supply = 1
  ClaimLimit = 1
  MaxDeliveries = 1
  MaxFaults = 1
CONSTRAINT Apart
SYMMETRY Symmetry
INVARIANTS TypeOK NeverNegative Conserved MintBound
PROPERTY AppliedOnce
CHECK_DEADLOCK FALSE
