------------------------------ MODULE MCLedger ------------------------------
EXTENDS LedgerProofs, TLC

CONSTANTS d1, d2, c1, c2, c3, m1, x1, o1, v1, u1, u2, A, B

Rec(at, dest, who, to, amt, for) ==
  [at |-> at, dest |-> dest, who |-> who, to |-> to, amt |-> amt, for |-> for]

\* u1 claims from chain A on chain B, crosses back to u2 on A, and pays u2 on B.
Txs == [h \in Hashes |->
  CASE h = c1 -> Rec(A, B, u1, u1, 1, None)
    [] h = m1 -> Rec(B, B, u1, u1, 1, c1)
    [] h = x1 -> Rec(B, A, u1, u2, 1, None)
    [] h = o1 -> Rec(A, A, u1, u2, 1, x1)
    [] h = v1 -> Rec(B, B, u1, u2, 1, None)
    [] OTHER  -> Rec(A, B, u1, u1, 1, None)]
Times == [h \in Booked |-> IF h = v1 THEN 1 ELSE IF h = x1 THEN 2 ELSE 3]
AB == <<A, B>>
Symmetry == Permutations(Workers) \cup Permutations({c2, c3})

\* Bounds: the bookkeeping is looked at with two claims and no mint; a mint with
\* one claim; three claims without either and without a fault.
Touched(h) == op[h] # "init" \/ \E k \in Workers : work[k].h = h
OtherClaims == {h \in {c2, c3} : Touched(h)}
Apart ==
  /\ (m1 \in sent \/ Cardinality(OtherClaims) = 2) => \A h \in Booked : op[h] = "absent"
  /\ m1 \in sent => OtherClaims = {}
  /\ Cardinality(OtherClaims) = 2 => faults = 0
=============================================================================
