-------------------------------- MODULE Tokens --------------------------------
(***************************************************************************)
(* What the bookkeeping of an inscription promises: every operation is     *)
(* applied to the balances at most once and as a whole, none takes more    *)
(* from an account than it has, and what leaves a chain arrives on another *)
(* one only after it has left.                                             *)
(***************************************************************************)
EXTENDS Integers

CONSTANTS
  Accounts, Ops,
  Out, In,   \* [Ops -> SUBSET Accounts]: none or one account
  Amount,    \* [Ops -> Nat]
  After      \* [Ops -> SUBSET Ops]: what must have been applied before

VARIABLES bal, done

Flow(o, a) == (IF a \in In[o] THEN Amount[o] ELSE 0) - (IF a \in Out[o] THEN Amount[o] ELSE 0)

Apply(o) ==
  /\ o \notin done /\ After[o] \subseteq done
  /\ \A a \in Out[o] : Amount[o] <= bal[a]
  /\ bal' = [a \in Accounts |-> bal[a] + Flow(o, a)]
  /\ done' = done \cup {o}

TokensInit == bal = [a \in Accounts |-> 0] /\ done = {}
TokensNext == done' # done /\ \E o \in Ops : Apply(o)
TokensSpec == TokensInit /\ [][TokensNext]_<<bal, done>>
=============================================================================
