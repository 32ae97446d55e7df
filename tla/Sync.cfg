\* One deposit, one run of the first job and two of the second that overlap, a call of a route and a restart.
CONSTANTS
  None = None d1 = d1 p1 = p1 b1 = b1 m1 = m1 m2 = m2 c1 = c1
  Sources = {d1} PaymentOf <- Paid Bridgers = {b1} Matchers = {m1, m2} Callers = {c1}
  MaxCrashes = 1
SPECIFICATION FairSpec
INVARIANTS TypeOK Together
PROPERTY MatchCopied
CHECK_DEADLOCK FALSE
