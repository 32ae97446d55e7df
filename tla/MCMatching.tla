------------------------------ MODULE MCMatching ------------------------------
(* An instance of Matching for TLC: two V1 deposits that owe the same to    *)
(* one address, a V2 deposit, and the payments of the first two.             *)
EXTENDS Matching, TLC

CONSTANTS s1, s2, s3, p1, p2

Versions == s1 :> "1-0" @@ s2 :> "1-0" @@ s3 :> "2-0"
Features == s3 :> 2 @@ [h \in {s1, s2, p1, p2} |-> 1]
Payer    == p1 :> s1 @@ p2 :> s2

\* Kept apart, as they need not meet: alike deposits; one of them with a repeated
\* delivery; and it beside the V2 deposit, with failures, restarts and old transfers.
\* No action that Fairness names leads out of this.
Scope ==
  \/ op[s2] = "absent" /\ deliveries = 0 /\ faults + Cardinality(old) <= 1
  \/ op[s3] = "absent" /\ deliveries = 0 /\ faults = 0 /\ old = {}
  \/ op[s2] = "absent" /\ op[s3] = "absent" /\ faults = 0 /\ old = {}
=============================================================================
