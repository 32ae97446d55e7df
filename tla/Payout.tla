-------------------------------- MODULE Payout --------------------------------
(***************************************************************************)
(* What the maker promises for the transactions of one queue: each is paid *)
(* at most once, a payment is booked after it was made, and a transaction  *)
(* that was given up (PAID_CRASH with no payment out) is not paid later.   *)
(* Several transactions may be paid, booked or given up in one step: a     *)
(* batch is one chain transaction and one database transaction.            *)
(***************************************************************************)
CONSTANT Tx

VARIABLE stage   \* "owed", "paid" (broadcast), "booked" (recorded), "givenUp"

Move(S, from, to) ==
  /\ S # {}
  /\ \A t \in S : stage[t] = from
  /\ stage' = [t \in Tx |-> IF t \in S THEN to ELSE stage[t]]

Init == stage = [t \in Tx |-> "owed"]

Pay(S)    == Move(S, "owed", "paid")
Book(S)   == Move(S, "paid", "booked")
GiveUp(S) == Move(S, "owed", "givenUp")

Next == \E S \in SUBSET Tx : Pay(S) \/ Book(S) \/ GiveUp(S)

Spec == Init /\ [][Next]_stage

=============================================================================
