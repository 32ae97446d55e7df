----------------------------- MODULE NonceProofs -----------------------------
(***************************************************************************)
(* Proofs about NonceManager, for every value of its constants: its types, *)
(* that no nonce beyond the wallet's next one is broadcast before a restart*)
(* and, when the nodes are up to date, none the chain has used up.         *)
(***************************************************************************)
EXTENDS NonceManager, TLAPS

\* A number of the store, or the 0 that undefined and NaN count for.
LEMMA KeptType == \A n \in Nonce : Kept(n) \in Nat /\ After(n) \in Nat
  BY NonceAssumption DEF Nonce, Kept, After

\* A node's answer is a number no greater than the pending count.
LEMMA AnswersType ==
  ASSUME pending \in Nat, NEW v \in Answers
  PROVE  v \in Nat /\ v <= pending /\ (Lag = 0 => v = pending)
  BY DEF Answers

\* Empty calls and timers have the types of TypeOK.
LEMMA RestTypes ==
  /\ NoCall \in [pc : CallPc, net : Nat, nonce : Nonce, diff : Int]
  /\ Asked \in [pc : RefreshPc, net : Nat] /\ Done \in [pc : RefreshPc, net : Nat]
  /\ Timer \in [pc : {"timer", "rpc", "set"}, seen : Nonce, net : Nat]
  BY DEF NoCall, Asked, Done, Timer, CallPc, RefreshPc, Nonce

\* The initial state is well typed.
LEMMA InitType == Init => TypeOK
  BY RestTypes DEF Init, TypeOK, Nonce

\* The refreshes beside the mutex and the constructor keep the types.
LEMMA RefreshType == TypeOK /\ Refresh => TypeOK'
  <1>. SUFFICES ASSUME TypeOK, Refresh PROVE TypeOK'
    OBVIOUS
  <1>. USE RestTypes DEF TypeOK, store, chain, counters, refresh
  <1>1. CASE CtorAnswer
    BY <1>1, AnswersType DEF CtorAnswer, RefreshPc
  <1>2. CASE CtorDone
    BY <1>2 DEF CtorDone, Nonce
  <1>3. CASE CtorFails
    BY <1>3 DEF CtorFails, Fault
  <1>4. CASE ForceAnswer
    BY <1>4, AnswersType DEF ForceAnswer, RefreshPc
  <1>5. CASE ForceSet
    BY <1>5 DEF ForceSet, Nonce
  <1>6. CASE ForceFails \/ ForceAgain
    <2>1. force' \in [pc : RefreshPc, net : Nat] /\ faults' \in Nat
      BY <1>6 DEF ForceFails, ForceAgain, Fault
    <2>. QED  BY <1>6, <2>1 DEF ForceFails, ForceAgain
  <1>7. CASE AutoStart
    BY <1>7 DEF AutoStart
  <1>8. CASE AutoAnswer
    BY <1>8, AnswersType DEF AutoAnswer
  <1>9. CASE AutoSet
    BY <1>9 DEF AutoSet, Nonce
  <1>10. CASE AutoFails
    BY <1>10 DEF AutoFails, Fault
  <1>. QED  BY <1>1, <1>2, <1>3, <1>4, <1>5, <1>6, <1>7, <1>8, <1>9, <1>10 DEF Refresh

\* Giving a nonce back and taking one on chain keep the types.
LEMMA EndType ==
  ASSUME TypeOK, NEW s \in Sender
  PROVE  /\ Rollback(s) \/ GiveUp(s) =>
              /\ local' \in Nonce /\ mutex' \in Sender \cup {Free, Ctor}
              /\ call' \in [Sender -> [pc : CallPc, net : Nat, nonce : Nonce, diff : Int]]
         /\ \A n \in Nat : Take(n) \/ UNCHANGED chain =>
              accepted' \subseteq Nat /\ pending' \in Nat
  <1>1. Rollback(s) \/ GiveUp(s) =>
          /\ local' \in Nonce /\ mutex' \in Sender \cup {Free, Ctor}
          /\ call' \in [Sender -> [pc : CallPc, net : Nat, nonce : Nonce, diff : Int]]
    <2>1. CASE Rollback(s)
      <3>1. local' = Kept(call[s].nonce) /\ mutex' = Free /\ call' = [call EXCEPT ![s] = NoCall]
        BY <2>1 DEF Rollback
      <3>2. call[s].nonce \in Nonce
        BY DEF TypeOK
      <3>3. local' \in Nonce
        BY <3>1, <3>2, KeptType DEF Nonce
      <3>4. call' \in [Sender -> [pc : CallPc, net : Nat, nonce : Nonce, diff : Int]]
        BY <3>1, RestTypes DEF TypeOK
      <3>. QED  BY <3>1, <3>3, <3>4
    <2>2. CASE GiveUp(s) /\ ~Rollback(s)
      <3>1. call' = [call EXCEPT ![s] = NoCall] /\ local' = local /\ mutex' = mutex
        BY <2>2 DEF GiveUp, store
      <3>. QED  BY <3>1, RestTypes DEF TypeOK
    <2>. QED  BY <2>1, <2>2
  <1>2. \A n \in Nat : Take(n) \/ UNCHANGED chain => accepted' \subseteq Nat /\ pending' \in Nat
    <2>1. MaxFile \in Nat /\ MaxPayments \in Nat /\ pending \in Nat /\ accepted \subseteq Nat
      BY NonceAssumption DEF TypeOK
    <2>2. \A m \in pending .. MaxFile + MaxPayments + 1 : m \in Nat
      BY <2>1
    <2>. QED  BY <2>1, <2>2 DEF Take, chain
  <1>. QED  BY <1>1, <1>2

\* The types of the calls.
Calls == [Sender -> [pc : CallPc, net : Nat, nonce : Nonce, diff : Int]]

\* Moving one call on keeps them.
LEMMA MoveType ==
  ASSUME NEW c \in Calls, NEW s \in Sender, NEW p \in CallPc
  PROVE  /\ [c EXCEPT ![s].pc = p] \in Calls
         /\ \A v \in Nat : [c EXCEPT ![s].pc = p, ![s].net = v] \in Calls
         /\ \A n \in Nonce, d \in Int :
              [c EXCEPT ![s].pc = p, ![s].nonce = n, ![s].diff = d] \in Calls
  <1>. DEFINE c1 == [c EXCEPT ![s].pc = p]
  <1>1. c1 \in Calls
    BY DEF Calls
  <1>2. \A v \in Nat : [c1 EXCEPT ![s].net = v] \in Calls
    <2>. HIDE DEF c1
    <2>. QED  BY <1>1 DEF Calls
  <1>3. ASSUME NEW n \in Nonce, NEW d \in Int
        PROVE  [[c1 EXCEPT ![s].nonce = n] EXCEPT ![s].diff = d] \in Calls
    <2>. DEFINE c2 == [c1 EXCEPT ![s].nonce = n]
    <2>1. c2 \in Calls
      <3>. HIDE DEF c1
      <3>. QED  BY <1>1 DEF Calls
    <2>2. [c2 EXCEPT ![s].diff = d] \in Calls
      <3>. HIDE DEF c2
      <3>. QED  BY <2>1 DEF Calls
    <2>. QED  BY <2>2
  <1>4. \A v : [c EXCEPT ![s].pc = p, ![s].net = v] = [c1 EXCEPT ![s].net = v]
    BY DEF Calls
  <1>5. \A n, d : [c EXCEPT ![s].pc = p, ![s].nonce = n, ![s].diff = d]
                   = [[c1 EXCEPT ![s].nonce = n] EXCEPT ![s].diff = d]
    BY DEF Calls
  <1>. QED  BY <1>1, <1>2, <1>3, <1>4, <1>5

\* The steps of a sendTransaction call keep the types.
LEMMA CallType ==
  ASSUME TypeOK, NEW s \in Sender, Pay(s) \/ Acquire(s) \/ Step(s)
  PROVE  TypeOK'
  <1>. USE DEF TypeOK, store, chain, counters, refresh
  <1>1. CASE Pay(s) \/ Acquire(s)
    BY <1>1 DEF Pay, Acquire, CallPc
  <1>2. CASE Answer(s)
    <2>1. PICK v \in Answers : call' = [call EXCEPT ![s].pc = "local", ![s].net = v]
      BY <1>2 DEF Answer
    <2>2. v \in Nat
      BY AnswersType
    <2>3. call \in Calls /\ "local" \in CallPc
      BY DEF Calls, CallPc
    <2>4. \A w \in Nat : [call EXCEPT ![s].pc = "local", ![s].net = w] \in Calls
      BY <2>3, MoveType
    <2>5. call' \in Calls
      BY <2>1, <2>2, <2>4
    <2>. QED  BY <1>2, <2>5 DEF Answer, Calls
  <1>3. CASE AnswerFails(s)
    BY <1>3, RestTypes DEF AnswerFails, Fault
  <1>4. CASE Choose(s)
    <2>. DEFINE net  == call[s].net
                n    == IF local # None /\ net > local THEN net ELSE local
                d    == IF local = None THEN 0 ELSE local - net
                pc   == IF BeforeCommit THEN "reserve" ELSE "ready"
    <2>1. net \in Nat
      OBVIOUS
    <2>2. n \in Nonce /\ d \in Int /\ pc \in CallPc
      BY <2>1 DEF Nonce, CallPc
    <2>3. local' = n /\ call' = [call EXCEPT ![s].pc = pc, ![s].nonce = n, ![s].diff = d]
      BY <1>4 DEF Choose
    <2>. HIDE DEF net, n, d, pc
    <2>4. call' \in Calls
      BY <2>2, <2>3, MoveType DEF Calls
    <2>. QED  BY <1>4, <2>2, <2>3, <2>4 DEF Choose, Calls
  <1>5. CASE Reserve(s)
    BY <1>5, KeptType DEF Reserve, CallPc, Nonce
  <1>6. CASE Refuse(s) \/ PrepareFails(s)
    BY <1>6, EndType DEF Refuse, PrepareFails, Fault
  <1>7. CASE Prepare(s)
    <2>1. PICK v \in Answers :
            call' = [call EXCEPT ![s].pc = "send",
                                 ![s].net = IF BeforeCommit /\ call[s].nonce # None /\ v > call[s].nonce
                                            THEN v ELSE Kept(call[s].nonce)]
      BY <1>7 DEF Prepare
    <2>2. v \in Nat /\ Kept(call[s].nonce) \in Nat
      BY AnswersType, KeptType
    <2>3. call \in Calls /\ "send" \in CallPc
      BY DEF Calls, CallPc
    <2>4. \A w \in Nat : [call EXCEPT ![s].pc = "send", ![s].net = w] \in Calls
      BY <2>3, MoveType
    <2>5. PICK w \in Nat : call' = [call EXCEPT ![s].pc = "send", ![s].net = w]
      BY <2>1, <2>2
    <2>6. call' \in Calls
      BY <2>4, <2>5
    <2>. QED  BY <1>7, <2>6 DEF Prepare, Calls
  <1>8. CASE BroadcastOk(s)
    BY <1>8, EndType DEF BroadcastOk, CallPc
  <1>9. CASE BroadcastRefused(s) \/ BroadcastUnknown(s)
    BY <1>9, EndType DEF BroadcastRefused, BroadcastUnknown, Fault
  <1>10. CASE Submit(s)
    BY <1>10, RestTypes, KeptType DEF Submit, Nonce
  <1>. QED  BY <1>1, <1>2, <1>3, <1>4, <1>5, <1>6, <1>7, <1>8, <1>9, <1>10 DEF Step

\* Every step keeps the types.
LEMMA TypeStep == TypeOK /\ [Next]_vars => TypeOK'
  <1>. SUFFICES ASSUME TypeOK, [Next]_vars PROVE TypeOK'
    OBVIOUS
  <1>1. CASE Crash
    BY <1>1, RestTypes, NonceAssumption DEF Crash, Fresh, TypeOK, chain, Nonce
  <1>2. CASE UNCHANGED vars
    BY <1>2 DEF TypeOK, vars, store, refresh, chain, counters
  <1>. QED  BY <1>1, <1>2, RefreshType, CallType DEF Next

\* The state keeps its types, whatever the bounds and the kinds of account.
THEOREM TypeCorrect == Spec => []TypeOK
  BY InitType, TypeStep, PTL DEF Spec

-----------------------------------------------------------------------------
(* The mutex.                                                               *)

Critical == {"rpc", "local", "reserve", "ready", "send", "submit"}

\* Whoever is between acquire and release holds the mutex.
Holding ==
  /\ ctor.pc \in {"rpc", "local"} => mutex = Ctor
  /\ \A s \in Sender : call[s].pc \in Critical => mutex = s

\* Initially only the constructor does.
LEMMA InitHolding == Init => Holding
  BY DEF Init, Holding, Asked, NoCall, Critical

\* No step lets go of a mutex that another holds.
LEMMA HoldingStep == TypeOK /\ Holding /\ [Next]_vars => Holding'
  <1>. SUFFICES ASSUME TypeOK, Holding, [Next]_vars PROVE Holding'
    OBVIOUS
  <1>. USE NonceAssumption DEF TypeOK, Holding, Critical, store, chain, counters, refresh
  <1>1. CASE CtorAnswer \/ CtorDone \/ CtorFails
    BY <1>1 DEF CtorAnswer, CtorDone, CtorFails, Done
  <1>2. CASE ForceAnswer \/ ForceSet \/ ForceFails \/ ForceAgain
    BY <1>2 DEF ForceAnswer, ForceSet, ForceFails, ForceAgain
  <1>3. CASE AutoStart \/ AutoAnswer \/ AutoSet \/ AutoFails
    BY <1>3 DEF AutoStart, AutoAnswer, AutoSet, AutoFails
  <1>4. ASSUME NEW s \in Sender, Pay(s) \/ Acquire(s) PROVE Holding'
    BY <1>4 DEF Pay, Acquire
  <1>5. ASSUME NEW s \in Sender, Answer(s) \/ Choose(s) \/ Reserve(s) \/ Prepare(s) \/ BroadcastOk(s)
        PROVE  Holding'
    <2>1. mutex = s /\ UNCHANGED <<mutex, ctor>>
      BY <1>5 DEF Answer, Choose, Reserve, Prepare, BroadcastOk
    <2>2. \A r \in Sender \ {s} : call'[r] = call[r]
      BY <1>5 DEF Answer, Choose, Reserve, Prepare, BroadcastOk
    <2>. QED  BY <2>1, <2>2
  <1>6. ASSUME NEW s \in Sender,
               \/ AnswerFails(s) \/ Refuse(s) \/ PrepareFails(s) \/ Submit(s)
               \/ BroadcastRefused(s) \/ BroadcastUnknown(s)
        PROVE  Holding'
    <2>1. mutex = s /\ UNCHANGED ctor
      BY <1>6 DEF AnswerFails, Refuse, PrepareFails, Submit, BroadcastRefused, BroadcastUnknown
    <2>2. call' = [call EXCEPT ![s] = NoCall]
      BY <1>6 DEF AnswerFails, Refuse, PrepareFails, Submit, BroadcastRefused, BroadcastUnknown,
                  Rollback, GiveUp
    <2>. QED  BY <2>1, <2>2 DEF NoCall
  <1>7. CASE Crash
    BY <1>7 DEF Crash, Fresh, Asked, NoCall
  <1>8. CASE UNCHANGED vars
    BY <1>8 DEF vars
  <1>. QED  BY <1>1, <1>2, <1>3, <1>4, <1>5, <1>6, <1>7, <1>8 DEF Next, Refresh, Step

\* The pending count grows only, and past a nonce it was at.
LEMMA TakeGrows ==
  ASSUME TypeOK, NEW n \in Nat, Take(n)
  PROVE  pending' \in Nat /\ pending' >= pending /\ (n = pending => pending' > pending)
  <1>1. MaxFile \in Nat /\ MaxPayments \in Nat /\ pending \in Nat
    BY NonceAssumption DEF TypeOK
  <1>2. PICK m \in pending .. MaxFile + MaxPayments + 1 : m \notin accepted' /\ pending' = m
    BY DEF Take
  <1>3. n \in accepted'
    BY DEF Take
  <1>. QED  BY <1>1, <1>2, <1>3

-----------------------------------------------------------------------------
(* Up-to-date nodes: no nonce the chain has used up.                        *)

\* What the holder of the mutex has read or chosen is not behind the chain.
UpToDate ==
  \A s \in Sender :
    /\ call[s].pc = "local" => call[s].net >= pending
    /\ call[s].pc \in {"reserve", "ready", "send"} /\ call[s].nonce # None => call[s].nonce >= pending
    /\ Sends(s) => call[s].net >= pending

\* The pending count moves under the mutex only, so it stays so.
LEMMA UpToDateStep ==
  Lag = 0 /\ TypeOK /\ Holding /\ UpToDate /\ [Next]_vars => UpToDate'
  <1>. SUFFICES ASSUME Lag = 0, TypeOK, Holding, UpToDate, [Next]_vars PROVE UpToDate'
    OBVIOUS
  <1>. USE NonceAssumption DEF TypeOK, UpToDate, Sends, store, chain, counters, refresh
  <1>1. CASE UNCHANGED <<call, pending>>
    BY <1>1
  <1>2. ASSUME NEW s \in Sender, call'[s].pc \in {"idle", "wait", "rpc"},
               \A r \in Sender \ {s} : call'[r] = call[r], pending' = pending
        PROVE  UpToDate'
    BY <1>2
  <1>3. ASSUME NEW s \in Sender, Answer(s) PROVE UpToDate'
    <2>1. PICK v \in Answers : call' = [call EXCEPT ![s].pc = "local", ![s].net = v]
      BY <1>3 DEF Answer
    <2>2. v = pending /\ pending' = pending
      BY <1>3, AnswersType DEF Answer
    <2>. QED  BY <2>1, <2>2
  <1>4. ASSUME NEW s \in Sender, Choose(s) PROVE UpToDate'
    <2>. DEFINE net == call[s].net
                n   == IF local # None /\ net > local THEN net ELSE local
    <2>1. net \in Nat /\ net >= pending /\ pending' = pending
      BY <1>4 DEF Choose
    <2>2. n # None => n >= pending
      BY <2>1 DEF Nonce
    <2>3. call'[s].pc \in {"reserve", "ready"} /\ call'[s].nonce = n
      BY <1>4 DEF Choose
    <2>4. \A r \in Sender \ {s} : call'[r] = call[r]
      BY <1>4 DEF Choose
    <2>. HIDE DEF n
    <2>. QED  BY <2>1, <2>2, <2>3, <2>4
  <1>5. ASSUME NEW s \in Sender, Reserve(s) PROVE UpToDate'
    BY <1>5 DEF Reserve
  <1>6. ASSUME NEW s \in Sender, Prepare(s) PROVE UpToDate'
    <2>1. PICK v \in Answers :
            call' = [call EXCEPT ![s].pc = "send",
                                 ![s].net = IF BeforeCommit /\ call[s].nonce # None /\ v > call[s].nonce
                                            THEN v ELSE Kept(call[s].nonce)]
      BY <1>6 DEF Prepare
    <2>2. call[s].nonce # None => call[s].nonce >= pending
      BY <1>6 DEF Prepare
    <2>3. call'[s].nonce = call[s].nonce /\ call'[s].pc = "send" /\ pending' = pending
      BY <1>6, <2>1 DEF Prepare
    <2>4. v = pending /\ pending \in Nat
      BY AnswersType
    <2>5. call[s].nonce # None => call'[s].net >= pending
      BY <2>1, <2>2, <2>4 DEF Kept
    <2>6. \A r \in Sender \ {s} : call'[r] = call[r]
      BY <1>6 DEF Prepare
    <2>. QED  BY <2>2, <2>3, <2>5, <2>6
  <1>7. ASSUME NEW s \in Sender, BroadcastOk(s) \/ BroadcastUnknown(s) PROVE UpToDate'
    <2>1. mutex = s
      BY <1>7 DEF BroadcastOk, BroadcastUnknown, Holding, Critical
    <2>2. \A r \in Sender \ {s} : call[r].pc \notin Critical /\ call'[r] = call[r]
      BY <1>7, <2>1 DEF BroadcastOk, BroadcastUnknown, GiveUp, Rollback, Holding
    <2>3. call'[s].pc \in {"submit", "idle"}
      BY <1>7 DEF BroadcastOk, BroadcastUnknown, GiveUp, Rollback, NoCall
    <2>. QED  BY <2>2, <2>3 DEF Critical
  <1>8. ASSUME NEW s \in Sender,
               \/ Pay(s) \/ Acquire(s) \/ AnswerFails(s) \/ Refuse(s) \/ PrepareFails(s)
               \/ BroadcastRefused(s) \/ Submit(s)
        PROVE  UpToDate'
    <2>1. call'[s].pc \in {"idle", "wait", "rpc"} /\ pending' = pending
      BY <1>8 DEF Pay, Acquire, AnswerFails, Refuse, PrepareFails, BroadcastRefused, Submit,
                  Rollback, GiveUp, NoCall
    <2>2. \A r \in Sender \ {s} : call'[r] = call[r]
      BY <1>8 DEF Pay, Acquire, AnswerFails, Refuse, PrepareFails, BroadcastRefused, Submit,
                  Rollback, GiveUp
    <2>. QED  BY <1>2, <2>1, <2>2
  <1>9. CASE Crash
    BY <1>9 DEF Crash, Fresh, NoCall
  <1>10. CASE Refresh
    BY <1>10, <1>1 DEF Refresh, CtorAnswer, CtorDone, CtorFails, ForceAnswer, ForceSet, ForceFails,
                ForceAgain, AutoStart, AutoAnswer, AutoSet, AutoFails
  <1>11. CASE UNCHANGED vars
    BY <1>11, <1>1 DEF vars
  <1>. QED  BY <1>3, <1>4, <1>5, <1>6, <1>7, <1>8, <1>9, <1>10, <1>11 DEF Next, Step

\* With nodes whose pending count is up to date, no transaction is broadcast with a
\* nonce the chain has used up.
THEOREM NotExpired == Lag = 0 => (Spec => []NeverExpired)
  <1>. SUFFICES ASSUME Lag = 0 PROVE Spec => []NeverExpired
    OBVIOUS
  <1>1. Init => UpToDate
    BY DEF Init, UpToDate, Sends, NoCall
  <1>2. TypeOK /\ Holding /\ UpToDate /\ [Next]_vars => (TypeOK /\ Holding /\ UpToDate)'
    BY TypeStep, HoldingStep, UpToDateStep
  <1>3. UpToDate => NeverExpired
    BY DEF UpToDate, NeverExpired
  <1>. QED  BY <1>1, <1>2, <1>3, InitType, InitHolding, PTL DEF Spec

-----------------------------------------------------------------------------
(* Before a restart: no nonce beyond the wallet's next one.                 *)

AtMost(n, p) == n = None \/ n <= p

\* The call whose nonce is the next one, stored already as used.
Reserved(s) ==
  /\ BeforeCommit /\ call[s].pc \in {"ready", "send"}
  /\ call[s].nonce = pending /\ local = pending + 1

\* No number in the manager is ahead of the chain, but for a reservation.
NotAhead ==
  /\ ctor.net <= pending /\ force.net <= pending /\ auto.net <= pending
  /\ \A s \in Sender :
       /\ call[s].net <= pending /\ AtMost(call[s].nonce, pending)
       /\ Sends(s) => call[s].nonce <= call[s].net
       /\ call[s].pc = "reserve" => BeforeCommit
       /\ call[s].pc = "submit" => call[s].nonce # None /\ call[s].nonce < pending
  /\ AtMost(local, pending) \/ \E s \in Sender : Reserved(s)

\* A nonce kept or followed by the next one.
LEMMA KeptAtMost ==
  \A n \in Nonce, p \in Nat : AtMost(n, p) => Kept(n) <= p /\ (After(n) <= p \/ (After(n) = p + 1 /\ n = p))
  <1>. SUFFICES ASSUME NEW n \in Nonce, NEW p \in Nat, AtMost(n, p)
                PROVE  Kept(n) <= p /\ (After(n) <= p \/ (After(n) = p + 1 /\ n = p))
    OBVIOUS
  <1>1. CASE n = None
    <2>1. Kept(n) = 0 /\ After(n) = 0
      BY <1>1 DEF Kept, After
    <2>. QED  BY <2>1
  <1>2. CASE n # None
    <2>1. n \in Nat /\ n <= p
      BY <1>2 DEF Nonce, AtMost
    <2>2. Kept(n) = n /\ After(n) = n + 1
      BY <1>2 DEF Kept, After
    <2>. QED  BY <2>1, <2>2
  <1>. QED  BY <1>1, <1>2

\* The refreshes keep it: what they store, a node has counted.
LEMMA NotAheadRefresh == TypeOK /\ NotAhead /\ Refresh => NotAhead'
  <1>. SUFFICES ASSUME TypeOK, NotAhead, Refresh PROVE NotAhead'
    OBVIOUS
  <1>. DEFINE Rest == UNCHANGED <<call, kind, accepted, pending>>
  <1>1. \A s \in Sender : Rest /\ UNCHANGED local /\ Reserved(s) => Reserved(s)'
    BY DEF Reserved, BeforeCommit
  <1>2. ASSUME Rest, UNCHANGED local \/ AtMost(local', pending),
               ctor'.net <= pending, force'.net <= pending, auto'.net <= pending
        PROVE  NotAhead'
    BY <1>1, <1>2 DEF NotAhead, AtMost, Sends, BeforeCommit
  <1>3. Rest
    BY DEF Refresh, CtorAnswer, CtorDone, CtorFails, ForceAnswer, ForceSet, ForceFails,
           ForceAgain, AutoStart, AutoAnswer, AutoSet, AutoFails, chain
  <1>4. UNCHANGED local \/ AtMost(local', pending)
    BY DEF Refresh, CtorAnswer, CtorDone, CtorFails, ForceAnswer, ForceSet, ForceFails,
           ForceAgain, AutoStart, AutoAnswer, AutoSet, AutoFails, store, NotAhead, AtMost
  <1>5. ctor'.net <= pending
    <2>1. CASE CtorAnswer
      <3>1. PICK v \in Answers : ctor'.net = v
        BY <2>1 DEF CtorAnswer, TypeOK
      <3>. QED  BY <3>1, AnswersType DEF TypeOK
    <2>2. CASE CtorDone \/ CtorFails
      BY <2>2 DEF CtorDone, CtorFails, Done, TypeOK
    <2>3. CASE \/ ForceAnswer \/ ForceSet \/ ForceFails \/ ForceAgain
               \/ AutoStart \/ AutoAnswer \/ AutoSet \/ AutoFails
      BY <2>3 DEF ForceAnswer, ForceSet, ForceFails, ForceAgain, AutoStart, AutoAnswer, AutoSet, AutoFails,
                  refresh, NotAhead, TypeOK
    <2>. QED  BY <2>1, <2>2, <2>3 DEF Refresh
  <1>6. force'.net <= pending
    <2>1. CASE ForceAnswer
      <3>1. PICK v \in Answers : force'.net = v
        BY <2>1 DEF ForceAnswer, TypeOK
      <3>. QED  BY <3>1, AnswersType DEF TypeOK
    <2>2. CASE ForceSet \/ ForceFails \/ ForceAgain
      BY <2>2 DEF ForceSet, ForceFails, ForceAgain, Done, Asked, TypeOK
    <2>3. CASE \/ CtorAnswer \/ CtorDone \/ CtorFails \/ AutoStart
               \/ AutoAnswer \/ AutoSet \/ AutoFails
      BY <2>3 DEF CtorAnswer, CtorDone, CtorFails, AutoStart, AutoAnswer, AutoSet, AutoFails,
                  refresh, NotAhead, TypeOK
    <2>. QED  BY <2>1, <2>2, <2>3 DEF Refresh
  <1>7. auto'.net <= pending
    <2>1. CASE AutoAnswer
      <3>1. PICK v \in Answers : auto'.net = v
        BY <2>1 DEF AutoAnswer, TypeOK
      <3>. QED  BY <3>1, AnswersType DEF TypeOK
    <2>2. CASE AutoSet \/ AutoFails
      BY <2>2 DEF AutoSet, AutoFails, Timer, TypeOK
    <2>3. CASE \/ CtorAnswer \/ CtorDone \/ CtorFails \/ ForceAnswer
               \/ ForceSet \/ ForceFails \/ ForceAgain \/ AutoStart
      BY <2>3 DEF CtorAnswer, CtorDone, CtorFails, ForceAnswer, ForceSet, ForceFails, ForceAgain, AutoStart,
                  refresh, NotAhead, TypeOK
    <2>. QED  BY <2>1, <2>2, <2>3 DEF Refresh
  <1>. QED  BY <1>2, <1>3, <1>4, <1>5, <1>6, <1>7

\* The steps of a call keep it, until the process restarts.
LEMMA NotAheadCall ==
  ASSUME TypeOK, Holding, NotAhead, NEW s \in Sender, Pay(s) \/ Acquire(s) \/ Step(s)
  PROVE  NotAhead'
  <1>. USE DEF TypeOK
  <1>. DEFINE c == call[s]
              Same == UNCHANGED <<ctor, force, auto, kind>>
              Others == \A r \in Sender \ {s} : call'[r] = call[r]
  <1>1. Same /\ Others
    BY DEF Pay, Acquire, Step, Answer, AnswerFails, Choose, Reserve, Refuse, Prepare, PrepareFails,
           BroadcastOk, BroadcastRefused, BroadcastUnknown, Submit, Rollback, GiveUp, refresh, chain
  <1>2. \A r \in Sender : Reserved(r) => call[r].pc \in Critical /\ r = mutex
    BY DEF Reserved, Critical, Holding
  \* A step that leaves the chain alone: what it must show of its own call.
  <1>3. ASSUME UNCHANGED <<accepted, pending>>, call'[s].net <= pending,
               AtMost(call'[s].nonce, pending),
               Sends(s)' => call'[s].nonce <= call'[s].net,
               call'[s].pc # "submit", call'[s].pc = "reserve" => BeforeCommit,
               \/ AtMost(local', pending)
               \/ Reserved(s)'
               \/ UNCHANGED local /\ ~Reserved(s)
        PROVE  NotAhead'
    <2>1. \A r \in Sender \ {s} : UNCHANGED local /\ Reserved(r) => Reserved(r)'
      BY <1>1, <1>3 DEF Reserved, BeforeCommit
    <2>2. AtMost(local, pending)' \/ \E r \in Sender : Reserved(r)'
      BY <1>3, <2>1 DEF NotAhead, AtMost
    <2>3. \A r \in Sender \ {s} : Sends(r)' <=> Sends(r)
      BY <1>1 DEF Sends
    <2>. QED  BY <1>1, <1>3, <2>2, <2>3 DEF NotAhead, BeforeCommit
  <1>4. CASE Pay(s) \/ Acquire(s)
    <2>1. /\ c.pc \in {"idle", "wait"} /\ call'[s].pc \in {"wait", "rpc"}
          /\ call'[s].net = c.net /\ call'[s].nonce = c.nonce
          /\ UNCHANGED <<accepted, pending, local>>
      BY <1>4 DEF Pay, Acquire, NoCall, chain, store
    <2>2. ~Reserved(s) /\ ~Sends(s)'
      BY <2>1 DEF Reserved, Sends
    <2>. QED  BY <1>3, <2>1, <2>2 DEF NotAhead
  <1>5. CASE Answer(s)
    <2>1. PICK v \in Answers : call' = [call EXCEPT ![s].pc = "local", ![s].net = v]
      BY <1>5 DEF Answer
    <2>2. /\ c.pc = "rpc" /\ call'[s].pc = "local"
          /\ call'[s].net = v /\ call'[s].nonce = c.nonce
          /\ UNCHANGED <<accepted, pending, local>>
      BY <1>5, <2>1 DEF Answer, chain, store
    <2>3. ~Reserved(s) /\ ~Sends(s)'
      BY <2>2 DEF Reserved, Sends
    <2>. QED  BY <1>3, <2>2, <2>3, AnswersType DEF NotAhead
  <1>6. ASSUME call'[s] = NoCall, UNCHANGED <<accepted, pending>>,
               AtMost(local', pending) \/ (UNCHANGED local /\ ~Reserved(s))
        PROVE  NotAhead'
    <2>1. ~Sends(s)'
      BY <1>6 DEF Sends, NoCall
    <2>. QED  BY <1>3, <1>6, <2>1 DEF NoCall, AtMost
  <1>7. CASE AnswerFails(s)
    BY <1>6, <1>7 DEF AnswerFails, chain, Reserved
  <1>8. AtMost(Kept(c.nonce), pending)
    BY KeptAtMost DEF NotAhead, AtMost
  <1>9. CASE Refuse(s) \/ PrepareFails(s)
    BY <1>6, <1>8, <1>9 DEF Refuse, PrepareFails, Rollback, chain
  <1>10. GiveUp(s) => /\ call'[s] = NoCall
                      /\ AtMost(local', pending) \/ (UNCHANGED local /\ ~Reserved(s))
    BY <1>8 DEF GiveUp, Rollback, RollsBack, Reserved, BeforeCommit, store
  <1>11. CASE BroadcastRefused(s)
    BY <1>6, <1>10, <1>11 DEF BroadcastRefused, chain
  <1>12. CASE Submit(s)
    <2>1. c.nonce < pending /\ c.pc = "submit" /\ c.nonce \in Nat
      BY <1>12 DEF Submit, NotAhead, Nonce
    <2>2. ~Reserved(s) /\ AtMost(After(c.nonce), pending)
      BY <2>1, NonceAssumption DEF Reserved, After, AtMost
    <2>. QED  BY <1>6, <1>12, <2>2 DEF Submit, chain
  <1>13. CASE Choose(s)
    <2>. DEFINE above == local # None /\ c.net > local
                n     == IF above THEN c.net ELSE local
    <2>1. /\ c.pc = "local"
          /\ call'[s].pc = IF BeforeCommit THEN "reserve" ELSE "ready"
          /\ call'[s].net = c.net /\ call'[s].nonce = n
          /\ local' = n /\ UNCHANGED <<accepted, pending>>
      BY <1>13 DEF Choose, chain
    <2>2. \A r \in Sender : ~Reserved(r)
      <3>1. mutex = s /\ ~Reserved(s)
        BY <2>1 DEF Holding, Critical, Reserved
      <3>. QED  BY <1>2, <3>1
    <2>3. AtMost(n, pending)
      BY <2>2 DEF NotAhead, AtMost
    <2>4. ~Sends(s)' /\ c.net <= pending
      BY <2>1 DEF Sends, NotAhead
    <2>. HIDE DEF n
    <2>. QED  BY <1>3, <2>1, <2>3, <2>4
  <1>14. CASE Reserve(s)
    <2>1. /\ BeforeCommit' = BeforeCommit /\ c.pc = "reserve" /\ call'[s].pc = "ready"
          /\ call'[s].net = c.net /\ call'[s].nonce = c.nonce
          /\ local' = After(c.nonce) /\ UNCHANGED <<accepted, pending>>
      BY <1>14 DEF Reserve, chain, BeforeCommit
    <2>2. c.net <= pending /\ AtMost(c.nonce, pending) /\ c.nonce \in Nonce /\ BeforeCommit
      BY <2>1 DEF NotAhead
    <2>3. AtMost(local', pending) \/ (local' = pending + 1 /\ c.nonce = pending)
      BY <2>1, <2>2, KeptAtMost DEF AtMost
    <2>4. ~Sends(s)'
      BY <2>1 DEF Sends
    <2>5. CASE AtMost(local', pending)
      BY <1>3, <2>1, <2>2, <2>4, <2>5
    <2>6. CASE BeforeCommit /\ local' = pending + 1 /\ c.nonce = pending
      <3>1. Reserved(s)'
        BY <2>1, <2>6 DEF Reserved
      <3>. QED  BY <1>3, <2>1, <2>2, <2>4, <3>1
    <2>. QED  BY <2>2, <2>3, <2>5, <2>6
  <1>15. CASE Prepare(s)
    <2>1. PICK v \in Answers :
            call' = [call EXCEPT ![s].pc = "send",
                                 ![s].net = IF BeforeCommit /\ c.nonce # None /\ v > c.nonce
                                            THEN v ELSE Kept(c.nonce)]
      BY <1>15 DEF Prepare
    <2>2. /\ c.pc = "ready" /\ call'[s].pc = "send" /\ call'[s].nonce = c.nonce
          /\ UNCHANGED <<accepted, pending, local, kind>>
      BY <1>15, <2>1 DEF Prepare, chain, store
    <2>3. /\ call'[s].net = IF BeforeCommit /\ c.nonce # None /\ v > c.nonce
                            THEN v ELSE Kept(c.nonce)
          /\ v \in Nat /\ v <= pending /\ c.nonce \in Nonce
      BY <2>1, AnswersType
    <2>4. call'[s].net <= pending
      BY <1>8, <2>3 DEF AtMost, Kept
    <2>5. Sends(s)' => call'[s].nonce <= call'[s].net
      BY <2>2, <2>3 DEF Sends, Kept, Nonce
    <2>6. Reserved(s) => Reserved(s)'
      BY <2>2 DEF Reserved, BeforeCommit
    <2>. QED  BY <1>3, <2>2, <2>4, <2>5, <2>6 DEF NotAhead
  \* A broadcast: the call's nonce is counted, if it was the next one.
  <1>16. ASSUME c.pc = "send", c.nonce # None, Take(c.net),
                \/ call'[s].pc = "submit" /\ call'[s].net = c.net /\ call'[s].nonce = c.nonce
                   /\ UNCHANGED local
                \/ call'[s] = NoCall
                   /\ (AtMost(local', pending) \/ (UNCHANGED local /\ ~Reserved(s)))
         PROVE  NotAhead'
    <2>1. /\ c.nonce \in Nat /\ c.net \in Nat /\ pending \in Nat
          /\ c.nonce <= c.net /\ c.net <= pending
      BY <1>16 DEF NotAhead, Sends, Nonce
    <2>2. pending' \in Nat /\ pending' >= pending /\ (c.net = pending => pending' > pending)
      BY <1>16, <2>1, TakeGrows
    <2>3. c.nonce < pending'
      BY <2>1, <2>2
    <2>4. \A r \in Sender \ {s} : ~Reserved(r) /\ call[r].pc \notin Critical
      BY <1>2, <1>16 DEF Holding, Critical
    <2>5. AtMost(local, pending) \/ Reserved(s)
      BY <2>4 DEF NotAhead
    <2>6. Reserved(s) => local = pending + 1 /\ pending' > pending
      BY <2>1, <2>2 DEF Reserved
    <2>7. AtMost(local', pending')
      <3>1. AtMost(local, pending')
        BY <2>1, <2>2, <2>5, <2>6 DEF AtMost, Nonce
      <3>2. AtMost(local', pending) => AtMost(local', pending')
        <4>1. local' \in Nonce
          BY <1>16, CallType
        <4>. QED  BY <2>1, <2>2, <4>1 DEF AtMost, Nonce
      <3>. QED  BY <1>16, <3>1, <3>2
    <2>8. /\ call'[s].net <= pending' /\ AtMost(call'[s].nonce, pending')
          /\ ~Sends(s)' /\ call'[s].pc # "reserve"
          /\ call'[s].pc = "submit" => call'[s].nonce # None /\ call'[s].nonce < pending'
      BY <1>16, <2>1, <2>2, <2>3 DEF NoCall, AtMost, Sends
    <2>9. \A r \in Sender \ {s} :
            /\ call'[r].net <= pending' /\ AtMost(call'[r].nonce, pending')
            /\ ~Sends(r)' /\ call'[r].pc \notin {"submit", "reserve"}
      BY <1>1, <2>2, <2>4 DEF NotAhead, AtMost, Sends, Critical, Nonce
    <2>10. ctor'.net <= pending' /\ force'.net <= pending' /\ auto'.net <= pending'
      BY <1>1, <2>2 DEF NotAhead
    <2>. QED  BY <2>7, <2>8, <2>9, <2>10 DEF NotAhead
  <1>17. CASE BroadcastOk(s)
    BY <1>16, <1>17 DEF BroadcastOk, store
  <1>18. CASE BroadcastUnknown(s)
    <2>1. CASE Take(c.net)
      BY <1>10, <1>16, <1>18, <2>1 DEF BroadcastUnknown
    <2>2. CASE UNCHANGED chain
      BY <1>6, <1>10, <1>18, <2>2 DEF BroadcastUnknown, chain
    <2>. QED  BY <1>18, <2>1, <2>2 DEF BroadcastUnknown
  <1>. QED  BY <1>4, <1>5, <1>7, <1>9, <1>11, <1>12, <1>13, <1>14, <1>15, <1>17, <1>18 DEF Step

\* Before a restart, no transaction is broadcast with a nonce beyond the wallet's
\* next one, however far the nodes' answers are behind.
THEOREM Gapless == Spec => []NoGap
  <1>. DEFINE Inv == TypeOK /\ Holding /\ (crashes = 0 => NotAhead)
  <1>1. Init => Inv
    <2>1. Init => NotAhead
      BY DEF Init, NotAhead, Asked, Timer, NoCall, AtMost, Sends
    <2>. QED  BY <2>1, InitType, InitHolding
  <1>2. Inv /\ [Next]_vars => Inv'
    <2>. SUFFICES ASSUME Inv, [Next]_vars PROVE crashes' = 0 => NotAhead'
      BY TypeStep, HoldingStep
    <2>1. CASE Crash
      BY <2>1 DEF Crash, TypeOK
    <2>2. CASE Refresh
      <3>1. crashes' = crashes
        BY <2>2 DEF Refresh, CtorAnswer, CtorDone, CtorFails, ForceAnswer, ForceSet, ForceFails,
                    ForceAgain, AutoStart, AutoAnswer, AutoSet, AutoFails, counters
      <3>. QED  BY <2>2, <3>1, NotAheadRefresh
    <2>3. ASSUME NEW s \in Sender, Pay(s) \/ Acquire(s) \/ Step(s) PROVE crashes' = 0 => NotAhead'
      <3>1. crashes' = crashes
        BY <2>3 DEF Pay, Acquire, Step, Answer, AnswerFails, Choose, Reserve, Refuse, Prepare,
                    PrepareFails, BroadcastOk, BroadcastRefused, BroadcastUnknown, Submit, counters
      <3>. QED  BY <2>3, <3>1, NotAheadCall
    <2>4. CASE UNCHANGED vars
      BY <2>4 DEF vars, store, refresh, chain, counters, NotAhead, AtMost, Sends, Reserved, BeforeCommit
    <2>. QED  BY <2>1, <2>2, <2>3, <2>4 DEF Next
  <1>3. Inv => NoGap
    BY DEF NotAhead, NoGap
  <1>. QED  BY <1>1, <1>2, <1>3, PTL DEF Spec

=============================================================================
