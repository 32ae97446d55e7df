---------------------------- MODULE NonceManager ----------------------------
(***************************************************************************)
(* The nonces of one maker wallet on one chain (blockchain-account): the   *)
(* NonceManager with its mutex and its store, the refreshes its constructor*)
(* and its timer run beside the mutex, and the accounts' sendTransaction   *)
(* that takes a nonce, broadcasts, and submits it or rolls it back.        *)
(*                                                                         *)
(* A step runs up to the next await on the node or on the store.           *)
(*                                                                         *)
(* Left out: `approve`, which an EVM account sends with the node's pending *)
(* nonce and without the mutex before it pays a batch whose router may     *)
(* spend too little. It takes no nonce from here; one sent between another *)
(* call's getNextNonce and its broadcast would take that call's nonce.     *)
(***************************************************************************)
EXTENDS Integers, FiniteSets

CONSTANTS
  Sender,        \* concurrent sendTransaction calls on this wallet
  Free, Ctor,    \* the mutex is free, or held by the constructor
  None,          \* a nonce that is undefined or NaN
  Kinds,         \* kinds of account: "evm", "zksync" (as Loopring and ZkSpace), "starknet"
  Lag,           \* how far a node's pending count may be behind the wallet's
  TooFar,        \* local and network nonce differ too much (20 in the code)
  MaxFile,       \* bound: nonce found in the store's file
  MaxPayments,   \* bound: sendTransaction calls
  MaxFaults,     \* bound: failing node calls and broadcasts
  MaxCrashes     \* bound: restarts of the process

ASSUME NonceAssumption ==
  /\ Free \notin Sender /\ Ctor \notin Sender /\ Free # Ctor
  /\ None \notin Int
  /\ Kinds \subseteq {"evm", "zksync", "starknet"}
  /\ TooFar \in Nat \ {0}
  /\ {Lag, MaxFile, MaxPayments, MaxFaults, MaxCrashes} \subseteq Nat

VARIABLES
  kind,      \* kind of the wallet's account
  local,     \* "nonce" in the store
  mutex,     \* holder of the mutex
  ctor,      \* the constructor's locked part
  force,     \* forceRefreshNonce
  auto,      \* autoUpdate and handleAutoUpdate
  call,      \* each sendTransaction call
  accepted,  \* nonces of the wallet's transactions the chain has taken
  pending,   \* the wallet's pending count: the least nonce not taken
  payments, faults, crashes

store    == <<local, mutex>>
refresh  == <<ctor, force, auto>>
chain    == <<kind, accepted, pending>>
counters == <<payments, faults, crashes>>
vars     == <<store, refresh, call, chain, counters>>

BeforeCommit == kind = "evm"       \* option.beforeCommit (createEVMNonceManager)
RollsBack    == kind # "starknet"  \* a failed broadcast calls rollback

Nonce  == Nat \cup {None}
NoCall == [pc |-> "idle", net |-> 0, nonce |-> None, diff |-> 0]
Asked  == [pc |-> "rpc", net |-> 0]
Done   == [pc |-> "done", net |-> 0]
Timer  == [pc |-> "timer", seen |-> None, net |-> 0]

\* What a node may answer to getNonce("pending").
Answers == {v \in 0 .. pending : pending - v <= Lag}

Fault == faults < MaxFaults /\ faults' = faults + 1

\* A new manager: its constructor takes the mutex and asks the node, as does
\* forceRefreshNonce, which it starts because no account passes an initNonce.
Fresh ==
  /\ mutex' = Ctor
  /\ ctor' = Asked /\ force' = Asked /\ auto' = Timer
  /\ call' = [s \in Sender |-> NoCall]

\* A wallet with no transaction yet, and an empty store or one with its count.
Init ==
  /\ kind \in Kinds
  /\ local \in {None, 0} /\ mutex = Ctor
  /\ ctor = Asked /\ force = Asked /\ auto = Timer
  /\ call = [s \in Sender |-> NoCall]
  /\ accepted = {} /\ pending = 0
  /\ payments = 0 /\ faults = 0 /\ crashes = 0

-----------------------------------------------------------------------------
(* The constructor, forceRefreshNonce and the timer.                        *)

CtorAnswer ==
  /\ ctor.pc = "rpc"
  /\ \E v \in Answers : ctor' = [pc |-> "local", net |-> v]
  /\ UNCHANGED <<store, force, auto, call, chain, counters>>

\* `store.get("nonce") || 0`, and a set only when the maximum differs from it:
\* a store without a nonce stays so for a wallet without transactions.
CtorDone ==
  /\ ctor.pc = "local"
  /\ local' = IF ctor.net > (IF local = None THEN 0 ELSE local) THEN ctor.net ELSE local
  /\ mutex' = Free
  /\ ctor' = Done
  /\ UNCHANGED <<force, auto, call, chain, counters>>

\* The node call fails: the `finally` releases, nothing is set.
CtorFails ==
  /\ ctor.pc = "rpc"
  /\ Fault
  /\ mutex' = Free
  /\ ctor' = Done
  /\ UNCHANGED <<local, force, auto, call, chain, payments, crashes>>

ForceAnswer ==
  /\ force.pc = "rpc"
  /\ \E v \in Answers : force' = [pc |-> "set", net |-> v]
  /\ UNCHANGED <<store, ctor, auto, call, chain, counters>>

\* The mutex is not taken.
ForceSet ==
  /\ force.pc = "set"
  /\ local' = force.net
  /\ force' = Done
  /\ UNCHANGED <<mutex, ctor, auto, call, chain, counters>>

ForceFails ==
  /\ force.pc = "rpc"
  /\ Fault
  /\ force' = Done
  /\ UNCHANGED <<store, ctor, auto, call, chain, payments, crashes>>

\* ZkSyncAccount, on a receipt that says "Nonce mismatch".
ForceAgain ==
  /\ kind = "zksync"
  /\ force = Done
  /\ Fault
  /\ force' = Asked
  /\ UNCHANGED <<store, ctor, auto, call, chain, payments, crashes>>

\* Once when constructed and every five minutes; the stored nonce is read before
\* the node is asked.
AutoStart ==
  /\ auto.pc = "timer"
  /\ auto' = [auto EXCEPT !.pc = "rpc", !.seen = local]
  /\ UNCHANGED <<store, ctor, force, call, chain, counters>>

AutoAnswer ==
  /\ auto.pc = "rpc"
  /\ \E v \in Answers : auto' = [auto EXCEPT !.pc = "set", !.net = v]
  /\ UNCHANGED <<store, ctor, force, call, chain, counters>>

\* Compared with the nonce seen before; the mutex is not taken.
AutoSet ==
  /\ auto.pc = "set"
  /\ local' = IF auto.seen # None /\ auto.net > auto.seen THEN auto.net ELSE local
  /\ auto' = Timer
  /\ UNCHANGED <<mutex, ctor, force, call, chain, counters>>

AutoFails ==
  /\ auto.pc = "rpc"
  /\ Fault
  /\ auto' = Timer
  /\ UNCHANGED <<store, ctor, force, call, chain, payments, crashes>>

-----------------------------------------------------------------------------
(* sendTransaction and getNextNonce.                                        *)

Pay(s) ==
  /\ call[s] = NoCall
  /\ payments < MaxPayments /\ payments' = payments + 1
  /\ call' = [call EXCEPT ![s].pc = "wait"]
  /\ UNCHANGED <<store, refresh, chain, faults, crashes>>

Acquire(s) ==
  /\ call[s].pc = "wait"
  /\ mutex = Free
  /\ mutex' = s
  /\ call' = [call EXCEPT ![s].pc = "rpc"]
  /\ UNCHANGED <<local, refresh, chain, counters>>

Answer(s) ==
  /\ call[s].pc = "rpc"
  /\ \E v \in Answers : call' = [call EXCEPT ![s].pc = "local", ![s].net = v]
  /\ UNCHANGED <<store, refresh, chain, counters>>

\* getNextNonce rejects: the mutex is released first.
AnswerFails(s) ==
  /\ call[s].pc = "rpc"
  /\ Fault
  /\ mutex' = Free
  /\ call' = [call EXCEPT ![s] = NoCall]
  /\ UNCHANGED <<local, refresh, chain, payments, crashes>>

\* Mutant of Choose: the stored nonce is used whatever the network says.
ChooseLocal(s) ==
  /\ call[s].pc = "local"
  /\ call' = [call EXCEPT ![s].pc = IF BeforeCommit THEN "reserve" ELSE "ready",
                          ![s].nonce = local,
                          ![s].diff = IF local = None THEN 0 ELSE local - call[s].net]
  /\ UNCHANGED <<store, refresh, chain, counters>>

\* The larger of the stored and the network nonce; NaN compares as not smaller.
\* A larger network nonce is stored at once.
Choose(s) ==
  LET net   == call[s].net
      above == local # None /\ net > local
  IN  /\ call[s].pc = "local"
      /\ local' = IF above THEN net ELSE local
      /\ call' = [call EXCEPT ![s].pc = IF BeforeCommit THEN "reserve" ELSE "ready",
                              ![s].nonce = IF above THEN net ELSE local,
                              ![s].diff = IF local = None THEN 0 ELSE local - net]
      /\ UNCHANGED <<mutex, refresh, chain, counters>>

\* Mutant of Kept: NaN stays NaN.
KeptNaN(n) == n

\* The store keeps NaN as null, which getLocalNonce reads as 0.
Kept(n) == IF n = None THEN 0 ELSE n
After(n) == IF n = None THEN 0 ELSE n + 1

\* beforeCommit: the next nonce is stored before this one is handed out.
Reserve(s) ==
  /\ call[s].pc = "reserve"
  /\ local' = After(call[s].nonce)
  /\ call' = [call EXCEPT ![s].pc = "ready"]
  /\ UNCHANGED <<mutex, refresh, chain, counters>>

\* Mutant of Rollback: the reserved nonce is not given back.
RollbackForgotten(s) ==
  /\ mutex' = Free /\ UNCHANGED local
  /\ call' = [call EXCEPT ![s] = NoCall]

\* rollback(): the nonce is stored again, then the mutex is released.
Rollback(s) ==
  /\ local' = Kept(call[s].nonce)
  /\ mutex' = Free
  /\ call' = [call EXCEPT ![s] = NoCall]

\* NonceISTooDifferent.
Refuse(s) ==
  /\ BeforeCommit
  /\ call[s].pc = "ready" /\ call[s].diff >= TooFar
  /\ Rollback(s)
  /\ UNCHANGED <<refresh, chain, counters>>

\* Gas price and populateTransaction; a nonce the latter reads from the node is taken
\* when it is larger. The store is not read again. Other accounts broadcast at once;
\* the nonce itself is what they send, so that NaN is refused (zkSpace then sends the
\* account's own nonce, and Loopring a storage id in every case).
Prepare(s) ==
  /\ call[s].pc = "ready"
  /\ BeforeCommit => call[s].diff < TooFar
  /\ \E v \in Answers :
       call' = [call EXCEPT ![s].pc = "send",
                            ![s].net = IF BeforeCommit /\ call[s].nonce # None /\ v > call[s].nonce
                                       THEN v ELSE Kept(call[s].nonce)]
  /\ UNCHANGED <<store, refresh, chain, counters>>

PrepareFails(s) ==
  /\ BeforeCommit
  /\ call[s].pc = "ready"
  /\ Fault
  /\ Rollback(s)
  /\ UNCHANGED <<refresh, chain, payments, crashes>>

\* The chain takes nonce n, as a new transaction or in place of a pending one.
Take(n) ==
  /\ accepted' = accepted \cup {n}
  /\ \E m \in pending .. MaxFile + MaxPayments + 1 :
       /\ m \notin accepted' /\ pending .. m - 1 \subseteq accepted'
       /\ pending' = m

BroadcastOk(s) ==
  /\ call[s].pc = "send" /\ call[s].nonce # None
  /\ Take(call[s].net)
  /\ call' = [call EXCEPT ![s].pc = "submit"]
  /\ UNCHANGED <<kind, store, refresh, counters>>

\* submit(): with beforeCommit it only releases the mutex.
Submit(s) ==
  /\ call[s].pc = "submit"
  /\ local' = IF BeforeCommit THEN local ELSE After(call[s].nonce)
  /\ mutex' = Free
  /\ call' = [call EXCEPT ![s] = NoCall]
  /\ UNCHANGED <<refresh, chain, counters>>

\* Mutant of GiveUp: no account rolls a failed broadcast back.
GiveUpSilently(s) == call' = [call EXCEPT ![s] = NoCall] /\ UNCHANGED store

\* The account's catch block. Starknet's calls neither submit nor rollback.
GiveUp(s) ==
  IF RollsBack THEN Rollback(s)
  ELSE call' = [call EXCEPT ![s] = NoCall] /\ UNCHANGED store

\* No number for a nonce, or one the chain has already: NONCE_EXPIRED and the like.
BroadcastRefused(s) ==
  /\ call[s].pc = "send"
  /\ call[s].nonce = None \/ call[s].net \in accepted
  /\ GiveUp(s)
  /\ UNCHANGED <<refresh, chain, counters>>

\* The answer is lost: the chain has taken the transaction or not.
BroadcastUnknown(s) ==
  /\ call[s].pc = "send" /\ call[s].nonce # None
  /\ Fault
  /\ Take(call[s].net) \/ UNCHANGED chain
  /\ GiveUp(s)
  /\ UNCHANGED <<kind, refresh, payments, crashes>>

-----------------------------------------------------------------------------
\* The process restarts. The file the store is read from need not be this
\* wallet's: the first connect passes the address before it is set, so the makers
\* of a chain share <chain>-undefined.json; and writes are delayed by 100 ms.
Crash ==
  /\ crashes < MaxCrashes /\ crashes' = crashes + 1
  /\ local' \in {None} \cup 0 .. MaxFile
  /\ Fresh
  /\ UNCHANGED <<chain, payments, faults>>

Refresh ==
  \/ CtorAnswer \/ CtorDone \/ CtorFails
  \/ ForceAnswer \/ ForceSet \/ ForceFails \/ ForceAgain
  \/ AutoStart \/ AutoAnswer \/ AutoSet \/ AutoFails

Step(s) ==
  \/ Answer(s) \/ AnswerFails(s) \/ Choose(s) \/ Reserve(s)
  \/ Refuse(s) \/ Prepare(s) \/ PrepareFails(s)
  \/ BroadcastOk(s) \/ BroadcastRefused(s) \/ BroadcastUnknown(s) \/ Submit(s)

Next ==
  \/ Refresh
  \/ \E s \in Sender : Pay(s) \/ Acquire(s) \/ Step(s)
  \/ Crash

Spec == Init /\ [][Next]_vars

-----------------------------------------------------------------------------
(* Properties.                                                              *)

RefreshPc == {"rpc", "local", "set", "done"}
CallPc    == {"idle", "wait", "rpc", "local", "reserve", "ready", "send", "submit"}

\* The types of the state.
TypeOK ==
  /\ kind \in Kinds
  /\ local \in Nonce /\ mutex \in Sender \cup {Free, Ctor}
  /\ ctor \in [pc : RefreshPc, net : Nat] /\ force \in [pc : RefreshPc, net : Nat]
  /\ auto \in [pc : {"timer", "rpc", "set"}, seen : Nonce, net : Nat]
  /\ call \in [Sender -> [pc : CallPc, net : Nat, nonce : Nonce, diff : Int]]
  /\ accepted \subseteq Nat /\ pending \in Nat
  /\ payments \in Nat /\ faults \in Nat /\ crashes \in Nat

Sends(s) == call[s].pc = "send" /\ call[s].nonce # None

\* When the node's answers are up to date, no transaction is broadcast with a
\* nonce the chain has used up, whatever the refreshes beside the mutex store,
\* whatever file is read at a restart and however broadcasts end.
NeverExpired == \A s \in Sender : Sends(s) => call[s].net >= pending

\* Nor, until a restart reads a file, with a nonce beyond the next one: no gap
\* that would keep this payment and the following ones from being mined.
NoGap == crashes = 0 => \A s \in Sender : Sends(s) => call[s].net <= pending

\* Every sendTransaction call that waits for the mutex ends: no path of the others
\* leaves the mutex taken.
EveryCallEnds == \A s \in Sender : call[s].pc = "wait" ~> call[s].pc = "idle"

\* The node answers or fails, the store answers, and the mutex is first come,
\* first served. The timer, failures and restarts need not happen.
FairSpec ==
  /\ Spec
  /\ WF_vars(CtorAnswer) /\ WF_vars(CtorDone)
  /\ \A s \in Sender : SF_vars(Acquire(s)) /\ WF_vars(Step(s))
=============================================================================
