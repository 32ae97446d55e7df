------------------------------- MODULE Pairing -------------------------------
(***************************************************************************)
(* What the matching of transfers promises: a source transfer is settled   *)
(* by a payment of the same address, amount, chain and symbol and then     *)
(* stays settled. Where no two source transfers and no two payments are    *)
(* alike this pairs them once and for all. Among alike ones a settled      *)
(* transfer may get another payment, and a payment a second transfer.      *)
(***************************************************************************)
CONSTANTS Sources, Payments, Feature
VARIABLE pairs

Others(s) == {x \in pairs : x[1] # s}

Match(s, p) ==
  /\ Feature[s] = Feature[p]
  /\ pairs' = Others(s) \cup {<<s, p>>}

PairInit == pairs = {}
PairNext == \E s \in Sources, p \in Payments : Match(s, p)
PairSpec == PairInit /\ [][PairNext]_pairs
=============================================================================
