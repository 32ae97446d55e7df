----------------------------- MODULE LedgerProofs -----------------------------
(***************************************************************************)
(* Proofs about Ledger, for any number of transfers, chains, workers,      *)
(* deliveries and faults: its types, that no balance is ever negative, by  *)
(* how much a tick can be minted beyond its supply, that the service       *)
(* implements Tokens, and that its tables balance. The last rests on the   *)
(* refinement: a step applies no operation or one, which moves the         *)
(* balances, the claims with a row and the crosses under way by the same   *)
(* amount. Sums are those of FiniteSetsExt, which pick their elements in   *)
(* some order; they are shown to agree with the one sum that is additive.  *)
(***************************************************************************)
EXTENDS Ledger, TLAPS, FiniteSetTheorems, WellFoundedInduction

ListPc   == {"select", "next", "cross", "take", "move", "pay"}
WorkerPc == {"deploy", "create", "claim", "claimRow", "claimFull", "mint"}
SettlePc == {"memory", "byTarget", "byFeatures", "settle"}
Running(c) == work[c].pc \notin {"idle", "select", "next"}

\* What a handler relies on between two of its steps.
HandlerOK(k) ==
  /\ work[k].pc \in ListPc => k \in Chains
  /\ work[k].pc \in WorkerPc => k \in Workers
  /\ work[k].pc \in {"deploy", "create"} => work[k].h \in Deploys
  /\ work[k].pc \in {"claim", "claimRow", "claimFull", "mint"} => work[k].h \in Claims
  /\ work[k].pc \in {"claimRow", "mint"} => work[k].h \notin Bad
  /\ work[k].pc \in {"cross", "take"} => work[k].h \in Crosses
  /\ work[k].pc \in {"move", "pay"} => work[k].h \in Moves
  /\ work[k].pc \in SettlePc => work[k].h \in (IF k \in Chains THEN Overs ELSE Mints)
  /\ work[k].pc = "settle" => bt[Tx[work[k].h].for].status # "none"
  /\ work[k].pc = "settle" /\ ~work[k].named /\ k \in Chains =>
       op[Tx[work[k].h].for] = "valid"
  /\ work[k].pc \in {"take", "pay"} => Covers(work[k].h)
  /\ work[k].pc = "take" => work[k].h \notin Bad

\* The transfer a bookkeeping is at is its chain's, not done and not in its list.
BookOK(c) ==
  /\ \A h \in todo[c] : Tx[h].at = c /\ op[h] = "init"
  /\ Running(c) =>
       work[c].h \notin todo[c] /\ Tx[work[c].h].at = c /\ op[work[c].h] = "init"

\* A row's status says how far its cross is.
RowOK(r) ==
  /\ bt[r].status = "none" => bt[r].target = None
  /\ bt[r].status \in {"none", "pending"} => bt[r].target = None
  /\ bt[r].target # None => Tx[bt[r].target].for = r
  /\ maker[r] # None => Tx[maker[r]].for = r /\ bt[r].status = "pending"
  /\ r \in Crosses /\ bt[r].status # "none" => op[r] \in {"valid", "matched"}
  /\ r \in Crosses /\ bt[r].status = "none" => op[r] \notin {"valid", "matched"}
  /\ r \in Crosses /\ bt[r].status \in Open /\ bt[r].target = None => op[r] = "valid"

Minting == {k \in Workers : work[k].pc \in {"claimRow", "mint"}}
MintOK == minted + ClaimLimit * Cardinality(Minting) < Supply + ClaimLimit * Cardinality(Workers)

LedgerInv ==
  /\ TypeOK
  /\ \A k \in Procs : HandlerOK(k)
  /\ \A c \in Chains : BookOK(c)
  /\ \A r \in Rows : RowOK(r)
  /\ NeverNegative
  /\ MintOK

-----------------------------------------------------------------------------
LEMMA Counting == IsFiniteSet(Workers) /\ Cardinality(Workers) \in Nat
  BY LedgerAssumption, FS_CardinalityType

\* Room for the claims that are being minted is never taken by others.
LEMMA MintFrame ==
  ASSUME LedgerInv, TypeOK', minted' = minted, Minting' \subseteq Minting
  PROVE  MintOK'
  <1>. DEFINE m == Cardinality(Minting)
              n == Cardinality(Minting')
  <1>1. IsFiniteSet(Minting) /\ m \in Nat /\ n \in Nat /\ n <= m
    <2>1. Minting \subseteq Workers
      BY DEF Minting
    <2>2. IsFiniteSet(Minting)
      BY <2>1, Counting, FS_Subset
    <2>3. IsFiniteSet(Minting') /\ n <= m
      BY <2>2, FS_Subset
    <2>. QED  BY <2>2, <2>3, FS_CardinalityType
  <1>2. ClaimLimit \in Nat /\ minted \in Nat /\ Supply \in Nat /\ Cardinality(Workers) \in Nat
    BY LedgerAssumption, Counting DEF LedgerInv, TypeOK
  <1>3. minted + ClaimLimit * m < Supply + ClaimLimit * Cardinality(Workers)
    BY DEF LedgerInv, MintOK
  <1>. HIDE DEF m, n
  <1>4. ClaimLimit * n <= ClaimLimit * m
    <2>1. ClaimLimit * m = ClaimLimit * n + ClaimLimit * (m - n) /\ m - n \in Nat
      BY <1>1, <1>2
    <2>2. \A a, b \in Nat : a * b \in Nat
      OBVIOUS
    <2>. QED  BY <1>1, <1>2, <2>1, <2>2
  <1>5. minted + ClaimLimit * n < Supply + ClaimLimit * Cardinality(Workers)
    <2>1. \A a, b \in Nat : a * b \in Nat
      OBVIOUS
    <2>. QED  BY <1>1, <1>2, <1>3, <1>4, <2>1
  <1>. QED  BY <1>5 DEF MintOK, n

\* A step of k that marks its own transfer leaves the others' alone.
LEMMA Others ==
  ASSUME LedgerInv, NEW k \in Procs, NEW r, NEW h \in Hashes, NEW s,
         work' = [work EXCEPT ![k] = r], UNCHANGED <<bt, bal, maker>>,
         op' \in {op, [op EXCEPT ![h] = s]},
         \/ h \in Deploys \cup Claims \cup Mints
         \/ s = "refused" /\ k \in Chains /\ Running(k) /\ h = work[k].h,
         \A c \in Chains \ {k} : todo'[c] = todo[c]
  PROVE  /\ \A j \in Procs \ {k} : HandlerOK(j)'
         /\ \A c \in Chains \ {k} : BookOK(c)'
         /\ \A q \in Rows : RowOK(q)'
  <1>1. \A j \in Procs \ {k} : work'[j] = work[j]
    BY DEF LedgerInv, TypeOK
  <1>2. \A g \in Hashes : op'[g] = op[g] \/ (g = h /\ op'[g] = s)
    BY DEF LedgerInv, TypeOK
  <1>3. \A x \in Crosses : op'[x] = op[x] \/ (op[x] = "init" /\ op'[x] = "refused")
    <2>1. ASSUME NEW x \in Crosses, op'[x] # op[x]  PROVE op[x] = "init" /\ op'[x] = "refused"
      <3>1. x = h /\ op'[x] = s
        BY <1>2, <2>1 DEF Hashes, Booked
      <3>2. s = "refused" /\ k \in Chains /\ Running(k) /\ h = work[k].h
        BY <3>1, LedgerAssumption DEF Booked
      <3>. QED  BY <3>1, <3>2 DEF LedgerInv, BookOK
    <2>. QED  BY <2>1
  <1>4. ASSUME NEW q \in Rows  PROVE RowOK(q)'
    <2>1. RowOK(q)
      BY DEF LedgerInv
    <2>. QED  BY <1>3, <2>1 DEF RowOK
  <1>5. ASSUME NEW j \in Procs \ {k}  PROVE HandlerOK(j)'
    <2>1. HandlerOK(j) /\ work'[j] = work[j]
      BY <1>1 DEF LedgerInv
    <2>2. ASSUME work[j].pc = "settle", j \in Chains, op[Tx[work[j].h].for] = "valid"
          PROVE  op'[Tx[work[j].h].for] = "valid"
      <3>1. Tx[work[j].h].for \in Crosses
        BY <2>1, <2>2, LedgerAssumption DEF HandlerOK, SettlePc
      <3>. QED  BY <1>3, <2>2, <3>1
    <2>. QED  BY <2>1, <2>2 DEF HandlerOK, Covers
  <1>6. ASSUME NEW c \in Chains \ {k}  PROVE BookOK(c)'
    <2>1. BookOK(c) /\ work'[c] = work[c] /\ todo'[c] = todo[c]
      BY <1>1 DEF LedgerInv, Procs
    <2>2. ASSUME NEW g \in Booked, Tx[g].at = c, op[g] = "init"  PROVE op'[g] = "init"
      <3>1. g \in Hashes
        BY DEF Hashes
      <3>2. g # h
        BY <2>2, LedgerAssumption DEF LedgerInv, BookOK
      <3>. QED  BY <1>2, <2>2, <3>1, <3>2
    <2>3. todo[c] \subseteq Booked
      BY DEF LedgerInv, TypeOK
    <2>4. Running(c) => work[c].h \in Booked
      <3>1. HandlerOK(c) /\ work[c] \in HandlerState /\ c \notin Workers
        BY LedgerAssumption DEF LedgerInv, TypeOK, Procs
      <3>. QED  BY <3>1 DEF HandlerOK, Running, Booked, SettlePc, WorkerPc, HandlerState
    <2>5. Running(c)' <=> Running(c)
      BY <2>1 DEF Running
    <2>. QED  BY <2>1, <2>2, <2>3, <2>4, <2>5 DEF BookOK
  <1>. QED  BY <1>4, <1>5, <1>6

-----------------------------------------------------------------------------
(* Steps of one handler that leave the books alone.                         *)

\* A handler is done, with or without a mark on its transfer.
LEMMA Ends ==
  ASSUME LedgerInv, NEW k \in Procs, NEW r, NEW h \in Hashes, NEW s,
         work' = [work EXCEPT ![k] = r], UNCHANGED <<bt, bal, maker, minted>>,
         r.pc = "idle" \/ (k \in Chains /\ r.pc \in {"next", "select"}),
         op' \in {op, [op EXCEPT ![h] = s]},
         \/ h \in Deploys \cup Claims \cup Mints
         \/ s = "refused" /\ k \in Chains /\ Running(k) /\ h = work[k].h,
         \A c \in Chains : todo'[c] = todo[c] \/ (c = k /\ todo'[c] = {}),
         TypeOK'
  PROVE  LedgerInv'
  <1>1. /\ \A j \in Procs \ {k} : HandlerOK(j)'
        /\ \A c \in Chains \ {k} : BookOK(c)'
        /\ \A q \in Rows : RowOK(q)'
    BY Others
  <1>2. work'[k] = r /\ \A j \in Procs \ {k} : work'[j] = work[j]
    BY DEF LedgerInv, TypeOK
  <1>3. HandlerOK(k)'
    BY <1>2, LedgerAssumption DEF HandlerOK, ListPc, WorkerPc, SettlePc
  <1>4. k \in Chains => BookOK(k)'
    <2>1. SUFFICES ASSUME k \in Chains  PROVE BookOK(k)'
      OBVIOUS
    <2>2. BookOK(k) /\ todo[k] \subseteq Booked
      BY <2>1 DEF LedgerInv, TypeOK
    <2>3. \A g \in todo[k] : op'[g] = op[g]
      <3>1. ASSUME NEW g \in todo[k]  PROVE g \in Hashes /\ g # h
        <4>1. g \in Booked
          BY <2>2
        <4>. QED  BY <2>1, <2>2, <4>1, LedgerAssumption DEF BookOK, Hashes
      <3>. QED  BY <3>1 DEF LedgerInv, TypeOK
    <2>4. todo'[k] \subseteq todo[k] /\ ~Running(k)'
      BY <1>2, <2>1 DEF Running
    <2>. QED  BY <2>2, <2>3, <2>4 DEF BookOK
  <1>5. MintOK'
    <2>1. Minting' \subseteq Minting
      BY <1>2 DEF Minting, Procs
    <2>. QED  BY <2>1, MintFrame
  <1>6. NeverNegative'
    BY DEF LedgerInv, NeverNegative
  <1>. QED  BY <1>1, <1>3, <1>4, <1>5, <1>6 DEF LedgerInv, Procs

\* A handler goes on, or takes a transfer up.
LEMMA Continues ==
  ASSUME LedgerInv, NEW k \in Procs, NEW r,
         work' = [work EXCEPT ![k] = r], UNCHANGED <<op, bt, bal, maker, minted>>,
         \A c \in Chains \ {k} : todo'[c] = todo[c],
         TypeOK', HandlerOK(k)', k \in Chains => BookOK(k)',
         r.pc \notin {"claimRow", "mint"} \/ work[k].pc = "claimRow"
  PROVE  LedgerInv'
  <1>1. /\ \A j \in Procs \ {k} : HandlerOK(j)'
        /\ \A c \in Chains \ {k} : BookOK(c)'
        /\ \A q \in Rows : RowOK(q)'
    <2>1. CASE Deploys \cup Claims \cup Mints = {}
      <3>1. \A j \in Procs \ {k} : work'[j] = work[j]
        BY DEF LedgerInv, TypeOK
      <3>. QED  BY <3>1 DEF LedgerInv, HandlerOK, BookOK, RowOK, Running, Covers, Procs
    <2>2. CASE Deploys \cup Claims \cup Mints # {}
      <3>1. PICK h \in Hashes : h \in Deploys \cup Claims \cup Mints
        BY <2>2 DEF Hashes
      <3>. QED  BY <3>1, Others
    <2>. QED  BY <2>1, <2>2
  <1>2. work'[k] = r /\ \A j \in Procs \ {k} : work'[j] = work[j]
    BY DEF LedgerInv, TypeOK
  <1>3. MintOK'
    <2>1. Minting' \subseteq Minting
      BY <1>2 DEF Minting, Procs
    <2>. QED  BY <2>1, MintFrame
  <1>4. NeverNegative'
    BY DEF LedgerInv, NeverNegative
  <1>. QED  BY <1>1, <1>3, <1>4 DEF LedgerInv

\* What the handlers' own steps have in common.
LEMMA Handler ==
  ASSUME LedgerInv, NEW k \in Procs
  PROVE  /\ work[k] \in HandlerState /\ HandlerOK(k) /\ TypeOK
         /\ k \in Chains => BookOK(k) /\ k \notin Workers
         /\ k \notin Chains => k \in Workers
         /\ Idle \in HandlerState /\ [Idle EXCEPT !.pc = "next"] \in HandlerState
         /\ Fault => faults' \in 0..MaxFaults
  <1>1. Fault => faults' \in 0..MaxFaults
    BY LedgerAssumption DEF Fault, LedgerInv, TypeOK
  <1>. QED  BY <1>1, LedgerAssumption DEF LedgerInv, TypeOK, Idle, HandlerState, Procs

\* It returns, with or without a mark on its transfer, or throws.
LEMMA ReturnInv ==
  ASSUME LedgerInv, NEW k \in Procs, NEW h \in Hashes, NEW s \in {"refused", "valid", "matched"},
         \/ Return(k) /\ todo' = todo
         \/ Throw(k),
         op' \in {op, [op EXCEPT ![h] = s]},
         \/ h \in Deploys \cup Claims \cup Mints
         \/ s = "refused" /\ k \in Chains /\ Running(k) /\ h = work[k].h,
         UNCHANGED <<bt, bal, maker, minted, sent, old>>,
         deploy' \in Deploys \cup {None}, mem' \in [Rows -> {"no", "live", "ghost"}],
         cache' \subseteq Mints, deliveries' = deliveries, faults' \in 0..MaxFaults
  PROVE  LedgerInv'
  <1>. DEFINE next == [Idle EXCEPT !.pc = "next"]
  <1>0. TypeOK /\ Idle \in HandlerState /\ next \in HandlerState
    BY Handler
  <1>1. PICK r \in HandlerState :
          /\ work' = [work EXCEPT ![k] = r]
          /\ r.pc = "idle" \/ (k \in Chains /\ r.pc = "next")
    <2>1. Idle.pc = "idle" /\ next.pc = "next"
      BY DEF Idle
    <2>. HIDE DEF next
    <2>2. work' \in {[work EXCEPT ![k] = Idle]} \/ (k \in Chains /\ work' = [work EXCEPT ![k] = next])
      BY DEF Return, Throw, Goto, next
    <2>. QED  BY <1>0, <2>1, <2>2
  <1>2. \A c \in Chains : todo'[c] = todo[c] \/ (c = k /\ todo'[c] = {})
    BY DEF Return, Throw
  <1>3. todo' \in [Chains -> SUBSET Booked]
    BY <1>0, <1>2 DEF Throw, Return, TypeOK
  <1>4. op' \in [Hashes -> {"absent", "init", "valid", "refused", "matched"}]
    BY <1>0 DEF TypeOK
  <1>5. work' \in [Procs -> HandlerState]
    BY <1>0, <1>1 DEF TypeOK
  <1>6. TypeOK'
    BY <1>0, <1>3, <1>4, <1>5 DEF TypeOK
  <1>. QED  BY <1>1, <1>2, <1>6, Ends

\* It goes on with its transfer.
LEMMA GotoInv ==
  ASSUME LedgerInv, NEW k \in Procs, NEW pc, NEW b \in BOOLEAN,
         Goto(k, [work[k] EXCEPT !.pc = pc, !.named = b]),
         Running(k), work[k].h \in Hashes,
         pc \in {"create", "claimRow", "claimFull", "mint", "take", "byTarget", "byFeatures", "settle", "pay"},
         pc \in {"claimRow", "mint"} => work[k].pc = "claimRow",
         UNCHANGED <<op, deploy, minted, bt, bal, maker, sent, old, mem, todo, deliveries>>,
         cache' \subseteq Mints, faults' \in 0..MaxFaults,
         /\ work'[k].pc = pc /\ work'[k].h = work[k].h /\ work'[k].named = b
         => HandlerOK(k)'
  PROVE  LedgerInv'
  <1>. DEFINE r == [work[k] EXCEPT !.pc = pc, !.named = b]
  <1>1. TypeOK /\ work[k] \in HandlerState
    BY Handler
  <1>2. r \in HandlerState /\ r.pc = pc /\ r.h = work[k].h /\ r.named = b
    BY <1>1 DEF HandlerState
  <1>. HIDE DEF r
  <1>3. work' = [work EXCEPT ![k] = r] /\ work'[k] = r
    BY <1>1 DEF Goto, TypeOK, r
  <1>4. TypeOK'
    BY <1>1, <1>2, <1>3 DEF TypeOK
  <1>5. k \in Chains => BookOK(k)'
    BY <1>2, <1>3, Handler DEF BookOK, Running
  <1>6. HandlerOK(k)'
    BY <1>2, <1>3
  <1>. QED  BY <1>2, <1>3, <1>4, <1>5, <1>6, Continues

LEMMA GotoPc ==
  ASSUME LedgerInv, NEW k \in Procs, NEW pc,
         Goto(k, [work[k] EXCEPT !.pc = pc]),
         Running(k), work[k].h \in Hashes,
         pc \in {"create", "claimRow", "claimFull", "mint", "take", "byTarget", "byFeatures", "settle", "pay"},
         pc \in {"claimRow", "mint"} => work[k].pc = "claimRow",
         UNCHANGED <<op, deploy, minted, bt, bal, maker, sent, old, mem, todo, deliveries>>,
         cache' \subseteq Mints, faults' \in 0..MaxFaults,
         /\ work'[k].pc = pc /\ work'[k].h = work[k].h /\ work'[k].named = work[k].named
         => HandlerOK(k)'
  PROVE  LedgerInv'
  <1>1. work[k] \in HandlerState
    BY Handler
  <1>2. work[k].named \in BOOLEAN
    BY <1>1 DEF HandlerState
  <1>3. Goto(k, [work[k] EXCEPT !.pc = pc, !.named = work[k].named])
    BY <1>1 DEF Goto, HandlerState
  <1>. QED  BY <1>2, <1>3, GotoInv

LEMMA BeginInv == ASSUME LedgerInv, NEW k \in Workers, Begin(k)  PROVE LedgerInv'
  <1>1. PICK h \in Deploys \cup Claims \cup Mints, o \in {"init", "valid", "refused", "matched"} :
          /\ Start(k, h, o)
          /\ UNCHANGED <<op, books, memory, todo, outside, faults>>
          /\ deliveries' \in 0..MaxDeliveries
    <2>1. CASE \E h \in Deploys \cup Claims \cup Mints : Deliver(k, h)
      <3>1. PICK h \in Deploys \cup Claims \cup Mints : Deliver(k, h)
        BY <2>1
      <3>2. deliveries' \in 0..MaxDeliveries
        BY <3>1, LedgerAssumption DEF Deliver, LedgerInv, TypeOK
      <3>3. op[h] # "absent" => op[h] \in {"init", "valid", "refused", "matched"}
        BY DEF LedgerInv, TypeOK, Hashes
      <3>. QED  BY <3>1, <3>2, <3>3 DEF Deliver, Start
    <2>2. CASE \E h \in Claims \cup Mints : Poll(k, h)
      BY <2>2 DEF Poll, counters, LedgerInv, TypeOK
    <2>3. CASE \E p \in Mints : FromCache(k, p)
      BY <2>3 DEF FromCache, counters, LedgerInv, TypeOK
    <2>. QED  BY <2>1, <2>2, <2>3 DEF Begin
  <1>. DEFINE r == [Idle EXCEPT !.pc = First(h), !.h = h, !.op = o]
  <1>2. h \in Hashes /\ k \in Procs /\ k \notin Chains
    BY LedgerAssumption DEF Hashes, Procs
  <1>3. /\ r.h = h
        /\ \/ h \in Deploys /\ r.pc = "deploy"
           \/ h \in Claims /\ r.pc = "claim"
           \/ h \in Mints /\ r.pc = "memory"
    BY LedgerAssumption DEF Idle, First, Pays
  <1>4. r \in HandlerState
    BY <1>2 DEF Idle, HandlerState, First
  <1>5. work' = [work EXCEPT ![k] = r]
    BY <1>1 DEF Start, Goto
  <1>. HIDE DEF r
  <1>6. work'[k] = r
    BY <1>2, <1>5 DEF LedgerInv, TypeOK
  <1>7. TypeOK'
    BY <1>1, <1>4, <1>5 DEF LedgerInv, TypeOK, books, memory, outside
  <1>8. HandlerOK(k)'
    BY <1>2, <1>3, <1>6 DEF HandlerOK, ListPc, WorkerPc, SettlePc
  <1>. QED  BY <1>1, <1>2, <1>3, <1>5, <1>7, <1>8, Continues DEF books, outside

\* What is wrong is refused for good.
LEMMA RefuseInv == ASSUME LedgerInv, NEW k \in Procs, Refuse(k)  PROVE LedgerInv'
  <1>1. /\ work[k].h \in Hashes /\ Running(k)
        /\ k \notin Chains => work[k].h \in Deploys \cup Claims \cup Mints
    BY Handler DEF Refuse, HandlerOK, Running, ListPc, SettlePc, Hashes, Booked
  <1>. QED  BY <1>1, Handler, ReturnInv
            DEF Refuse, Mark, books, memory, outside, counters, TypeOK

LEMMA DeployInv == ASSUME LedgerInv, NEW k \in Workers, DeployCheck(k) \/ DeployCreate(k)
                   PROVE  LedgerInv'
  <1>0. k \in Procs /\ work[k].h \in Deploys /\ work[k].h \in Hashes /\ work[k] \in HandlerState
    BY Handler DEF Procs, DeployCheck, Enter, At, DeployCreate, HandlerOK, Hashes
  <1>1. CASE DeployCheck(k)
    <2>1. CASE deploy = None
      <3>1. work[k].pc = "deploy" /\ Running(k) /\ k \notin Chains
        BY <1>0, <1>1, Handler DEF DeployCheck, Enter, At, Running
      <3>2. work'[k].pc = "create" /\ work'[k].h = work[k].h => HandlerOK(k)'
        BY <1>0, <3>1 DEF HandlerOK, ListPc, WorkerPc, SettlePc
      <3>. QED  BY <1>0, <1>1, <2>1, <3>1, <3>2, Handler, GotoPc
                DEF DeployCheck, books, memory, outside, counters, TypeOK
    <2>2. CASE deploy # None
      BY <1>0, <1>1, <2>2, Handler, ReturnInv
      DEF DeployCheck, books, memory, outside, counters, TypeOK
    <2>. QED  BY <2>1, <2>2
  <1>2. CASE DeployCreate(k)
    BY <1>0, <1>2, Handler, ReturnInv
    DEF DeployCreate, Mark, memory, outside, counters, TypeOK
  <1>. QED  BY <1>1, <1>2

-----------------------------------------------------------------------------
(* A claim.                                                                 *)

\* The claims at work are counted in what may still be minted.
LEMMA ClaimCheckInv == ASSUME LedgerInv, NEW k \in Workers, ClaimCheck(k)  PROVE LedgerInv'
  <1>. DEFINE c == work[k].h
              r == [work[k] EXCEPT !.pc = "claimRow"]
  <1>0. /\ k \in Procs /\ k \notin Chains /\ work[k].pc = "claim" /\ c \in Claims \ Bad /\ c \in Hashes
        /\ work[k] \in HandlerState /\ TypeOK
    BY Handler DEF Procs, ClaimCheck, Enter, At, HandlerOK, Hashes
  <1>1. CASE deploy = None
    BY <1>0, <1>1, Handler, ReturnInv
    DEF ClaimCheck, Mark, books, memory, outside, counters, TypeOK
  <1>2. CASE deploy # None /\ Room
    <2>1. r \in HandlerState /\ r.pc = "claimRow" /\ r.h = c
      BY <1>0 DEF HandlerState
    <2>. HIDE DEF r
    <2>2. /\ work' = [work EXCEPT ![k] = r] /\ work'[k] = r
          /\ UNCHANGED <<op, books, memory, todo, outside, counters>>
          /\ \A j \in Procs \ {k} : work'[j] = work[j]
      BY <1>0, <1>2 DEF ClaimCheck, Goto, TypeOK, r
    <2>3. TypeOK'
      BY <1>0, <2>1, <2>2 DEF TypeOK, books, memory, outside, counters
    <2>4. /\ \A j \in Procs \ {k} : HandlerOK(j)'
          /\ \A d \in Chains \ {k} : BookOK(d)'
          /\ \A q \in Rows : RowOK(q)'
      BY <1>0, <2>2, Others DEF books, outside
    <2>5. HandlerOK(k)'
      BY <1>0, <2>1, <2>2 DEF HandlerOK, ListPc, WorkerPc, SettlePc
    <2>6. MintOK'
      <3>. DEFINE n == Cardinality(Minting')
                  w == Cardinality(Workers)
      <3>1. Minting' \subseteq Workers
        BY DEF Minting
      <3>2. n \in Nat /\ w \in Nat /\ n <= w
        BY <3>1, Counting, FS_Subset, FS_CardinalityType
      <3>3. minted' \in Nat /\ Supply \in Nat /\ minted' < Supply /\ ClaimLimit \in Nat
        BY <1>0, <1>2, <2>2, LedgerAssumption DEF Room, books, TypeOK
      <3>. HIDE DEF n, w
      <3>4. ClaimLimit * n <= ClaimLimit * w /\ ClaimLimit * n \in Nat /\ ClaimLimit * w \in Nat
        <4>1. ClaimLimit * w = ClaimLimit * n + ClaimLimit * (w - n) /\ w - n \in Nat
          BY <3>2, <3>3
        <4>2. \A a, b \in Nat : a * b \in Nat
          OBVIOUS
        <4>. QED  BY <3>2, <3>3, <4>1, <4>2
      <3>5. minted' + ClaimLimit * n < Supply + ClaimLimit * w
        BY <3>3, <3>4
      <3>. QED  BY <3>5 DEF MintOK, n, w
    <2>7. NeverNegative'
      BY <2>2 DEF LedgerInv, NeverNegative, books
    <2>. QED  BY <1>0, <2>3, <2>4, <2>5, <2>6, <2>7 DEF LedgerInv, Procs
  <1>3. CASE deploy # None /\ ~Room
    <2>1. work'[k].pc = "claimFull" /\ work'[k].h = c => HandlerOK(k)'
      BY <1>0 DEF HandlerOK, ListPc, WorkerPc, SettlePc
    <2>2. Goto(k, [work[k] EXCEPT !.pc = "claimFull"]) /\ Running(k)
      BY <1>0, <1>3 DEF ClaimCheck, Running
    <2>. QED  BY <1>0, <1>3, <2>1, <2>2, Handler, GotoPc
              DEF ClaimCheck, books, memory, outside, counters, TypeOK
  <1>. QED  BY <1>1, <1>2, <1>3

LEMMA ClaimFullInv == ASSUME LedgerInv, NEW k \in Workers, ClaimFull(k)  PROVE LedgerInv'
  <1>0. /\ k \in Procs /\ k \notin Chains /\ work[k].pc = "claimFull"
        /\ work[k].h \in Claims /\ work[k].h \in Hashes /\ TypeOK
    BY Handler DEF Procs, ClaimFull, At, HandlerOK, Hashes, WorkerPc
  <1>. QED  BY <1>0, Handler, ReturnInv
            DEF ClaimFull, Mark, books, memory, outside, counters, TypeOK

LEMMA ClaimRowInv == ASSUME LedgerInv, NEW k \in Workers, ClaimRow(k)  PROVE LedgerInv'
  <1>. DEFINE c == work[k].h
  <1>0. /\ k \in Procs /\ k \notin Chains /\ work[k].pc = "claimRow" /\ c \in Claims \ Bad /\ c \in Hashes
        /\ Running(k) /\ TypeOK
    BY Handler DEF Procs, ClaimRow, At, HandlerOK, Hashes, Running
  <1>1. CASE bt[c].status \in {"none", "pending"}
    <2>1. work'[k].pc = "mint" /\ work'[k].h = c => HandlerOK(k)'
      BY <1>0 DEF HandlerOK, ListPc, WorkerPc, SettlePc
    <2>2. (bt[c].status = "pending") \in BOOLEAN
      OBVIOUS
    <2>. QED  BY <1>0, <1>1, <2>1, <2>2, Handler, GotoInv
              DEF ClaimRow, books, memory, outside, counters, TypeOK
  <1>2. CASE bt[c].status \notin {"none", "pending"}
    BY <1>0, <1>2, Handler, ReturnInv DEF ClaimRow, books, memory, outside, counters, TypeOK
  <1>. QED  BY <1>1, <1>2

\* A credit takes nothing from anyone, and what was covered still is.
LEMMA Credited ==
  ASSUME TypeOK, NEW a \in Accounts, NEW n \in Nat, bal' = [bal EXCEPT ![a] = @ + n]
  PROVE  bal' \in [Accounts -> Int] /\ \A b \in Accounts : bal[b] <= bal'[b]
  <1>1. bal \in [Accounts -> Int] /\ bal' \in [Accounts -> Int]
    BY DEF TypeOK
  <1>2. ASSUME NEW b \in Accounts  PROVE bal[b] <= bal'[b]
    <2>1. bal'[b] = IF b = a THEN bal[a] + n ELSE bal[b]
      BY <1>1
    <2>. QED  BY <1>1, <2>1
  <1>. QED  BY <1>1, <1>2

LEMMA StaysCovered ==
  ASSUME TypeOK, TypeOK', NEW h \in Hashes, Covers(h), bal[Account(h)] <= bal'[Account(h)]
  PROVE  Covers(h)'
  <1>1. Account(h) \in Accounts /\ Tx[h].amt \in Nat
    BY LedgerAssumption DEF Account, Accounts, Fields
  <1>2. bal[Account(h)] \in Int /\ bal'[Account(h)] \in Int
    BY <1>1 DEF TypeOK
  <1>. QED  BY <1>1, <1>2 DEF Covers, Account

LEMMA ClaimMintInv == ASSUME LedgerInv, NEW k \in Workers, ClaimMint(k)  PROVE LedgerInv'
  <1>. DEFINE c == work[k].h
              a == <<Tx[c].who, Tx[c].dest>>
              amt == Tx[c].amt
  <1>0. /\ k \in Procs /\ k \notin Chains /\ work[k].pc = "mint" /\ c \in Claims \ Bad /\ c \in Hashes
        /\ TypeOK
    BY Handler DEF Procs, ClaimMint, At, HandlerOK, Hashes
  <1>1. CASE work[k].named
    <2>1. op' \in {op, [op EXCEPT ![c] = "valid"]}
      BY <1>1 DEF ClaimMint, Valid, Mark
    <2>2. work[k].named /\ Return(k) /\ todo' = todo /\ UNCHANGED <<books, mem>>
          /\ UNCHANGED <<cache, old, outside, counters>>
      BY <1>1 DEF ClaimMint
    <2>. QED  BY <1>0, <2>1, <2>2, Handler, ReturnInv DEF books, memory, outside, counters, TypeOK
  <1>2. CASE ~work[k].named /\ bt[c].status # "none"
    BY <1>0, <1>2, Handler, ReturnInv DEF ClaimMint, books, memory, outside, counters, TypeOK
  <1>3. CASE ~work[k].named /\ bt[c].status = "none"
    <2>1. /\ bt' = [bt EXCEPT ![c] = [status |-> "pending", target |-> None]]
          /\ minted' = minted + amt
          /\ bal' = [bal EXCEPT ![a] = @ + amt]
          /\ mem' = Remember(c, "live")
          /\ op' \in {op, [op EXCEPT ![c] = "valid"]}
          /\ work' = [work EXCEPT ![k] = Idle]
          /\ UNCHANGED <<todo, deploy, cache, old, outside, counters>>
      BY <1>0, <1>3 DEF ClaimMint, NewRow, Valid, Mark, Return, Goto, incUserBalance
    <2>2. a \in Accounts /\ amt \in Nat /\ amt <= ClaimLimit /\ c \in Rows /\ maker[c] = None
      BY <1>0, LedgerAssumption DEF Fields, Accounts, Rows, ClaimMint, RowFree
    <2>3. /\ Idle \in HandlerState /\ work'[k] = Idle /\ Idle.pc = "idle"
          /\ \A j \in Procs \ {k} : work'[j] = work[j]
      BY <1>0, <2>1, Handler DEF TypeOK, Idle
    <2>4. TypeOK'
      <3>1. bt' \in [Rows -> [status: Open \cup {"none", "success"}, target: Pays \cup {None}]]
        BY <1>0, <2>1 DEF TypeOK, Open
      <3>2. bal' \in [Accounts -> Int] /\ minted' \in Nat
        BY <1>0, <2>1, <2>2 DEF TypeOK
      <3>3. mem' \in [Rows -> {"no", "live", "ghost"}]
        BY <1>0, <2>1 DEF TypeOK, Remember
      <3>4. work' \in [Procs -> HandlerState] /\ op' \in [Hashes -> {"absent", "init", "valid", "refused", "matched"}]
        BY <1>0, <2>1, <2>3 DEF TypeOK
      <3>. QED  BY <1>0, <2>1, <3>1, <3>2, <3>3, <3>4 DEF TypeOK, outside, counters
    <2>5. \A b \in Accounts : bal[b] <= bal'[b]
      BY <1>0, <2>1, <2>2, Credited
    <2>6. \A q \in Rows \ {c} : bt'[q] = bt[q]
      BY <1>0, <2>1 DEF TypeOK
    <2>7. bt'[c] = [status |-> "pending", target |-> None]
      BY <1>0, <2>1, <2>2 DEF TypeOK
    <2>8. \A g \in Hashes \ {c} : op'[g] = op[g]
      BY <1>0, <2>1 DEF TypeOK
    <2>9. NeverNegative'
      BY <1>0, <2>4, <2>5 DEF LedgerInv, NeverNegative, TypeOK
    <2>10. ASSUME NEW q \in Rows  PROVE RowOK(q)'
      <3>1. CASE q = c
        <4>1. c \notin Crosses
          BY <1>0, LedgerAssumption DEF Booked
        <4>. QED  BY <2>1, <2>2, <2>7, <3>1, <4>1 DEF RowOK, outside
      <3>2. CASE q # c
        <4>1. bt'[q] = bt[q] /\ op'[q] = op[q] /\ maker' = maker /\ RowOK(q)
          BY <2>1, <2>6, <2>8, <3>2 DEF LedgerInv, outside, Rows, Hashes, Booked
        <4>. QED  BY <4>1 DEF RowOK
      <3>. QED  BY <3>1, <3>2
    <2>11. ASSUME NEW j \in Procs  PROVE HandlerOK(j)'
      <3>1. CASE j = k
        BY <2>3, <3>1 DEF HandlerOK, ListPc, WorkerPc, SettlePc
      <3>2. CASE j # k
        <4>1. HandlerOK(j) /\ work'[j] = work[j] /\ work[j] \in HandlerState
          BY <2>3, <3>2, Handler
        <4>2. ASSUME work[j].pc = "settle", bt[Tx[work[j].h].for].status # "none"
              PROVE  /\ bt'[Tx[work[j].h].for].status # "none"
                     /\ j \in Chains => op'[Tx[work[j].h].for] = op[Tx[work[j].h].for]
          <5>. DEFINE q == Tx[work[j].h].for
          <5>1. q \in Rows /\ q # c /\ q \in Hashes
            BY <1>3, <4>1, <4>2, LedgerAssumption DEF HandlerOK, SettlePc, Rows, Hashes, Booked
          <5>. QED  BY <2>6, <2>8, <4>2, <5>1
        <4>3. ASSUME work[j].pc \in {"take", "pay"}, Covers(work[j].h)  PROVE Covers(work[j].h)'
          <5>1. work[j].h \in Hashes
            BY <4>1, <4>3 DEF HandlerOK, Hashes, Booked
          <5>2. Account(work[j].h) \in Accounts
            BY <5>1, LedgerAssumption DEF Account, Accounts, Fields
          <5>3. Covers(work[j].h)' <=> Tx[work[j].h].amt <= bal'[Account(work[j].h)]
            BY <4>1 DEF Covers, Account
          <5>. QED  BY <1>0, <2>4, <2>5, <4>1, <4>3, <5>1, <5>2, StaysCovered DEF Covers, Account
        <4>. QED  BY <4>1, <4>2, <4>3 DEF HandlerOK
      <3>. QED  BY <3>1, <3>2
    <2>12. ASSUME NEW d \in Chains  PROVE BookOK(d)'
      <3>1. BookOK(d) /\ work'[d] = work[d] /\ todo[d] \subseteq Booked /\ todo' = todo
        BY <1>0, <2>1, <2>3 DEF LedgerInv, TypeOK, Procs
      <3>2. Running(d) => work[d].h \in Booked
        BY Handler, LedgerAssumption
        DEF HandlerOK, Running, Booked, SettlePc, WorkerPc, HandlerState, Procs
      <3>3. \A g \in Booked : op'[g] = op[g]
        BY <1>0, <2>8, LedgerAssumption DEF Hashes, Booked
      <3>. QED  BY <3>1, <3>2, <3>3 DEF BookOK, Running
    <2>13. MintOK'
      <3>1. Minting' = Minting \ {k} /\ k \in Minting /\ Minting \subseteq Workers
        BY <1>0, <2>3 DEF Minting, Procs
      <3>. DEFINE m == Cardinality(Minting)
                  w == Cardinality(Workers)
      <3>2. IsFiniteSet(Minting)
        BY <3>1, Counting, FS_Subset
      <3>3. m \in Nat /\ m - 1 \in Nat /\ Cardinality(Minting') = m - 1
        <4>1. Cardinality(Minting \ {k}) = m - 1 /\ IsFiniteSet(Minting \ {k})
          BY <3>1, <3>2, FS_RemoveElement
        <4>2. Cardinality(Minting \ {k}) \in Nat /\ m \in Nat
          BY <3>2, <4>1, FS_CardinalityType
        <4>. QED  BY <3>1, <4>1, <4>2
      <3>4. minted + ClaimLimit * m < Supply + ClaimLimit * w
        BY DEF LedgerInv, MintOK
      <3>5. minted \in Nat /\ ClaimLimit \in Nat /\ Supply \in Nat /\ w \in Nat
        BY <1>0, LedgerAssumption, Counting DEF TypeOK
      <3>. HIDE DEF m, w
      <3>6. minted + amt + ClaimLimit * (m - 1) < Supply + ClaimLimit * w
        <4>1. ClaimLimit * m = ClaimLimit * (m - 1) + ClaimLimit
          BY <3>3, <3>5
        <4>. DEFINE x == ClaimLimit * m
                    y == ClaimLimit * (m - 1)
                    z == ClaimLimit * w
        <4>2. x \in Nat /\ y \in Nat /\ z \in Nat
          <5>1. \A i, j \in Nat : i * j \in Nat
            OBVIOUS
          <5>. QED  BY <3>3, <3>5, <5>1
        <4>3. x = y + ClaimLimit /\ minted + x < Supply + z
          BY <3>4, <4>1
        <4>. HIDE DEF x, y, z, amt
        <4>4. minted + amt + y < Supply + z
          BY <2>2, <3>5, <4>2, <4>3
        <4>. QED  BY <4>4 DEF y, z
      <3>. QED  BY <2>1, <3>3, <3>6 DEF MintOK, w
    <2>. QED  BY <2>4, <2>9, <2>10, <2>11, <2>12, <2>13 DEF LedgerInv
  <1>. QED  BY <1>1, <1>2, <1>3

-----------------------------------------------------------------------------
(* Crosses, crossovers, mints and moves.                                    *)

\* A transaction of k that is done: what it may change under the others' feet.
LEMMA TableStep ==
  ASSUME LedgerInv, NEW k \in Procs, Return(k), TypeOK', todo' = todo, minted' = minted,
         \A q \in Rows : RowOK(q)',
         \A q \in Rows : bt[q].status # "none" => bt'[q].status # "none",
         \A g \in Booked : op'[g] = op[g] \/ op[g] # "init" \/ (k \in Chains /\ Running(k) /\ g = work[k].h),
         \A x \in Crosses : op[x] = "valid" /\ op'[x] # "valid" => k \in Chains /\ Tx[x].dest = k,
         NeverNegative',
         \A b \in Accounts : bal[b] <= bal'[b] \/ (k \in Chains /\ b[2] = k)
  PROVE  LedgerInv'
  <1>1. /\ TypeOK /\ work'[k].pc \in {"idle", "next"}
        /\ work'[k].pc = "next" => k \in Chains
        /\ \A j \in Procs \ {k} : work'[j] = work[j]
    BY DEF LedgerInv, TypeOK, Return, Goto, Idle
  <1>2. ASSUME NEW j \in Procs  PROVE HandlerOK(j)'
    <2>1. CASE j = k
      BY <1>1, <2>1 DEF HandlerOK, ListPc, WorkerPc, SettlePc
    <2>2. CASE j # k
      <3>1. HandlerOK(j) /\ work'[j] = work[j] /\ (j \in Chains => BookOK(j))
        BY <1>1, <2>2, Handler
      <3>2. ASSUME work[j].pc = "settle"
            PROVE  /\ bt'[Tx[work[j].h].for].status # "none"
                   /\ j \in Chains /\ op[Tx[work[j].h].for] = "valid"
                      => op'[Tx[work[j].h].for] = "valid"
        <4>. DEFINE p == work[j].h
                    x == Tx[p].for
        <4>1. x \in Rows /\ bt[x].status # "none"
          BY <3>1, <3>2, LedgerAssumption DEF HandlerOK, SettlePc, Rows
        <4>2. ASSUME j \in Chains, op[x] = "valid"  PROVE op'[x] = "valid"
          <5>1. p \in Overs /\ x \in Crosses /\ Tx[p].at = Tx[x].dest
            BY <3>1, <3>2, <4>2, LedgerAssumption DEF HandlerOK, SettlePc
          <5>2. Tx[p].at = j
            BY <3>1, <3>2, <4>2 DEF BookOK, Running
          <5>. QED  BY <2>2, <4>2, <5>1, <5>2
        <4>. QED  BY <4>1, <4>2
      <3>3. ASSUME work[j].pc \in {"take", "pay"}  PROVE Covers(work[j].h)'
        <4>1. j \in Chains /\ work[j].h \in Hashes /\ Covers(work[j].h)
          BY <3>1, <3>3 DEF HandlerOK, ListPc, Hashes, Booked
        <4>2. Account(work[j].h) \in Accounts
          BY <4>1, LedgerAssumption DEF Account, Accounts, Fields
        <4>3. Account(work[j].h)[2] # k
          BY <2>2, <3>1, <3>3, <4>1 DEF BookOK, Running, Account
        <4>. QED  BY <1>1, <3>1, <4>1, <4>2, <4>3, StaysCovered DEF Covers, Account
      <3>. QED  BY <3>1, <3>2, <3>3 DEF HandlerOK
    <2>. QED  BY <2>1, <2>2
  <1>3. ASSUME NEW c \in Chains  PROVE BookOK(c)'
    <2>1. BookOK(c) /\ todo'[c] = todo[c] /\ todo[c] \subseteq Booked /\ c \in Procs
      BY DEF LedgerInv, TypeOK, Procs
    <2>2. CASE c = k
      <3>1. k \in Chains /\ ~Running(k)'
        BY <1>1, <2>2 DEF Running
      <3>2. \A g \in todo[c] : op'[g] = op[g]
        \* The transfer at hand is not in the list: the bookkeeping is at it.
        <4>1. Running(c) => work[c].h \notin todo[c]
          BY <2>1 DEF BookOK
        <4>2. ~Running(c) => \A g \in todo[c] : op'[g] = op[g]
          <5>1. SUFFICES ASSUME ~Running(c), NEW g \in todo[c], op'[g] # op[g]  PROVE FALSE
            OBVIOUS
          <5>. QED  BY <2>1, <2>2, <5>1 DEF BookOK
        <4>. QED  BY <2>1, <2>2, <4>1, <4>2 DEF BookOK
      <3>. QED  BY <2>1, <2>2, <3>1, <3>2 DEF BookOK
    <2>3. CASE c # k
      <3>1. work'[c] = work[c] /\ (Running(c) => work[c].h \in Booked /\ op[work[c].h] = "init")
        <4>1. HandlerOK(c) /\ work[c] \in HandlerState /\ c \notin Workers
          BY <2>1, Handler
        <4>2. Running(c) => work[c].h \in Booked
          BY <4>1 DEF HandlerOK, Running, Booked, SettlePc, WorkerPc, HandlerState
        <4>. QED  BY <1>1, <2>1, <2>3, <4>2 DEF BookOK
      <3>2. \A g \in Booked : Tx[g].at = c /\ op[g] = "init" => op'[g] = "init"
        <4>1. SUFFICES ASSUME NEW g \in Booked, Tx[g].at = c, op[g] = "init", op'[g] # op[g]
                       PROVE  FALSE
          OBVIOUS
        <4>2. k \in Chains /\ g = work[k].h /\ Tx[g].at = k
          BY <4>1, Handler DEF BookOK
        <4>. QED  BY <2>3, <4>1, <4>2
      <3>. QED  BY <2>1, <3>1, <3>2 DEF BookOK, Running
    <2>. QED  BY <2>2, <2>3
  <1>4. MintOK'
    <2>1. Minting' \subseteq Minting
      BY <1>1 DEF Minting, Procs
    <2>. QED  BY <2>1, MintFrame
  <1>. QED  BY <1>2, <1>3, <1>4 DEF LedgerInv

\* A mint or a crossover settles its row, and a crossover credits the tokens.
LEMMA SettleInv ==
  ASSUME LedgerInv, NEW k \in Procs, NEW p, p = work[k].h, NEW r, r = Tx[p].for,
         work[k].pc \in {"memory", "settle"}, Settle(k, r), RowFree(r), bt[r].status # "none",
         k \in Chains => op[r] = "valid",
         UNCHANGED <<deploy, minted, mem, old, todo, outside, counters>>
  PROVE  LedgerInv'
  <1>0. /\ TypeOK /\ p \in Pays /\ p \in Hashes /\ r \in Rows /\ r \in Hashes /\ maker[r] = None
        /\ k \in Chains => Running(k) /\ p \in Overs /\ r \in Crosses /\ Tx[r].dest = k
        /\ k \notin Chains => p \in Mints /\ r \in Claims
    <2>1. /\ TypeOK /\ p \in (IF k \in Chains THEN Overs ELSE Mints)
          /\ k \in Chains => Tx[p].at = k /\ Running(k)
      BY Handler DEF HandlerOK, SettlePc, BookOK, Running
    <2>. QED  BY <2>1, LedgerAssumption DEF Pays, Hashes, Booked, Rows, RowFree
  <1>1. /\ bt'[r].target = p /\ bt'[r].status \in {"crash", "success"}
        /\ \A q \in Rows \ {r} : bt'[q] = bt[q]
        /\ bt' \in [Rows -> [status: Open \cup {"none", "success"}, target: Pays \cup {None}]]
    BY <1>0 DEF Settle, TypeOK, Open
  <1>2. /\ op' \in [Hashes -> {"absent", "init", "valid", "refused", "matched"}]
        /\ \A g \in Hashes \ {p, r} : op'[g] = op[g]
        /\ op'[r] = IF op[r] \in {"init", "valid"} THEN "matched" ELSE op[r]
    <2>1. op' = [h \in Hashes |-> IF h \in Unmatched(p, r) THEN "matched" ELSE op[h]]
      BY DEF Settle
    <2>2. \A g \in Hashes : g \in Unmatched(p, r) <=> g \in {p, r} /\ op[g] \in {"init", "valid"}
      BY <1>0 DEF Unmatched
    <2>. QED  BY <1>0, <2>1, <2>2 DEF TypeOK
  <1>3. /\ bal' \in [Accounts -> Int] /\ \A b \in Accounts : bal[b] <= bal'[b]
    <2>1. CASE p \notin Overs
      <3>1. \A i \in Int : i <= i
        OBVIOUS
      <3>. QED  BY <1>0, <2>1, <3>1 DEF Settle, Credit, TypeOK
    <2>2. CASE p \in Overs
      <3>1. <<Tx[r].to, Tx[r].dest>> \in Accounts /\ Tx[r].amt \in Nat
        BY <1>0, LedgerAssumption DEF Fields, Accounts
      <3>2. bal' = [bal EXCEPT ![<<Tx[r].to, Tx[r].dest>>] = @ + Tx[r].amt]
        BY <2>2 DEF Settle, Credit, incUserBalance
      <3>. QED  BY <1>0, <3>1, <3>2, Credited
    <2>. QED  BY <2>1, <2>2
  <1>4. Return(k) /\ cache' \subseteq cache
    BY DEF Settle
  <1>5. TypeOK'
    <2>1. work' \in [Procs -> HandlerState]
      BY <1>0, <1>4, Handler DEF Return, Goto, TypeOK
    <2>. QED  BY <1>0, <1>1, <1>2, <1>3, <1>4, <2>1 DEF TypeOK, outside, counters
  <1>6. ASSUME NEW q \in Rows  PROVE RowOK(q)' /\ (bt[q].status # "none" => bt'[q].status # "none")
    <2>1. RowOK(q) /\ maker' = maker
      BY DEF LedgerInv, outside
    <2>2. CASE q = r
      <3>1. q \in Crosses => op[r] \in {"valid", "matched"}
        BY <2>1, <2>2 DEF RowOK
      <3>. QED  BY <1>0, <1>1, <1>2, <2>1, <2>2, <3>1, LedgerAssumption DEF RowOK, Pays
    <2>3. CASE q # r
      <3>1. bt'[q] = bt[q]
        BY <1>1, <2>3
      <3>2. q \in Crosses => op'[q] = op[q]
        <4>1. q \in Crosses => q \in Hashes \ {p, r}
          BY <1>0, <2>3, LedgerAssumption DEF Hashes, Booked, Pays
        <4>. QED  BY <1>2, <4>1
      <3>. QED  BY <2>1, <3>1, <3>2 DEF RowOK
    <2>. QED  BY <2>2, <2>3
  <1>7. \A g \in Booked : op'[g] = op[g] \/ op[g] # "init" \/ (k \in Chains /\ Running(k) /\ g = p)
    <2>1. SUFFICES ASSUME NEW g \in Booked, op'[g] # op[g], op[g] = "init"
                   PROVE  k \in Chains /\ g = p
      BY <1>0
    <2>2. g \in {p, r}
      BY <1>2, <2>1 DEF Hashes
    <2>3. CASE k \notin Chains
      BY <1>0, <2>1, <2>2, <2>3, LedgerAssumption
    <2>4. CASE k \in Chains
      BY <2>1, <2>2, <2>4
    <2>. QED  BY <2>3, <2>4
  <1>8. \A x \in Crosses : op[x] = "valid" /\ op'[x] # "valid" => k \in Chains /\ Tx[x].dest = k
    <2>1. SUFFICES ASSUME NEW x \in Crosses, op'[x] # op[x]  PROVE k \in Chains /\ Tx[x].dest = k
      OBVIOUS
    <2>2. x \in {p, r} /\ x \notin Pays /\ x \notin Claims
      BY <1>2, <2>1, LedgerAssumption DEF Hashes, Booked, Pays
    <2>. QED  BY <1>0, <2>2
  <1>9. NeverNegative'
    BY <1>0, <1>3, <1>5 DEF LedgerInv, NeverNegative, TypeOK
  <1>. QED  BY <1>3, <1>4, <1>5, <1>6, <1>7, <1>8, <1>9, TableStep

LEMMA CrossTakeInv == ASSUME LedgerInv, NEW c \in Chains, CrossTake(c)  PROVE LedgerInv'
  <1>. DEFINE x == work[c].h
              a == Account(x)
              amt == Tx[x].amt
  <1>0. /\ c \in Procs /\ TypeOK /\ x \in Crosses \ Bad /\ x \in Hashes /\ x \in Rows
        /\ Running(c) /\ op[x] = "init" /\ a[2] = c /\ Covers(x)
    BY Handler DEF Procs, CrossTake, At, HandlerOK, BookOK, Running, Hashes, Booked, Rows, Account
  <1>1. /\ bt' = [bt EXCEPT ![x] = [status |-> "pending", target |-> None]]
        /\ bal' = [bal EXCEPT ![a] = @ + (-amt)]
        /\ mem' = Remember(x, "live")
        /\ op' = [op EXCEPT ![x] = "valid"]
        /\ Return(c)
        /\ UNCHANGED <<deploy, minted, cache, old, todo, outside, counters>>
    BY DEF CrossTake, NewRow, incUserBalance, Mark
  <1>2. a \in Accounts /\ amt \in Nat /\ amt <= bal[a] /\ bal[a] \in Int
    <2>1. a \in Accounts /\ amt \in Nat
      BY <1>0, LedgerAssumption DEF Account, Accounts, Fields
    <2>. QED  BY <1>0, <2>1 DEF Covers, TypeOK
  <1>. HIDE DEF a, amt
  <1>3. /\ bal' \in [Accounts -> Int] /\ bal'[a] = bal[a] - amt
        /\ \A b \in Accounts \ {a} : bal'[b] = bal[b]
    <2>1. bal[a] + (-amt) = bal[a] - amt /\ bal[a] - amt \in Int
      BY <1>2
    <2>. QED  BY <1>0, <1>1, <1>2, <2>1 DEF TypeOK
  <1>4. TypeOK'
    <2>1. work' \in [Procs -> HandlerState]
      BY <1>0, <1>1, Handler DEF Return, Goto, TypeOK
    <2>2. mem' \in [Rows -> {"no", "live", "ghost"}]
      BY <1>0, <1>1 DEF TypeOK, Remember
    <2>3. bt' \in [Rows -> [status: Open \cup {"none", "success"}, target: Pays \cup {None}]]
      BY <1>0, <1>1 DEF TypeOK, Open
    <2>4. op' \in [Hashes -> {"absent", "init", "valid", "refused", "matched"}]
      BY <1>0, <1>1 DEF TypeOK
    <2>. QED  BY <1>0, <1>1, <1>3, <2>1, <2>2, <2>3, <2>4 DEF TypeOK, outside, counters
  <1>5. /\ bt'[x] = [status |-> "pending", target |-> None]
        /\ \A q \in Rows \ {x} : bt'[q] = bt[q]
        /\ op'[x] = "valid" /\ \A g \in Hashes \ {x} : op'[g] = op[g]
    BY <1>0, <1>1 DEF TypeOK
  <1>6. ASSUME NEW q \in Rows  PROVE RowOK(q)' /\ (bt[q].status # "none" => bt'[q].status # "none")
    <2>1. RowOK(q) /\ maker' = maker
      BY <1>1 DEF LedgerInv, outside
    <2>2. CASE q = x
      <3>1. maker[q] = None
        BY <1>0, <2>1, <2>2 DEF RowOK
      <3>. QED  BY <1>5, <2>1, <2>2, <3>1 DEF RowOK
    <2>3. CASE q # x
      <3>1. bt'[q] = bt[q] /\ op'[q] = op[q]
        BY <1>5, <2>3 DEF Rows, Hashes, Booked
      <3>. QED  BY <2>1, <3>1 DEF RowOK
    <2>. QED  BY <2>2, <2>3
  <1>7. \A g \in Booked : op'[g] = op[g] \/ (c \in Chains /\ Running(c) /\ g = work[c].h)
    BY <1>0, <1>5 DEF Hashes
  <1>8. \A y \in Crosses : op[y] = "valid" => op'[y] = "valid"
    BY <1>5 DEF Hashes, Booked
  <1>9. NeverNegative'
    <2>1. bal[a] - amt >= 0
      BY <1>2
    <2>. QED  BY <1>3, <2>1 DEF LedgerInv, NeverNegative
  <1>10. \A b \in Accounts : bal[b] <= bal'[b] \/ (c \in Chains /\ b[2] = c)
    <2>1. \A b \in Accounts : bal[b] \in Int
      BY <1>0 DEF TypeOK
    <2>. QED  BY <1>0, <1>3, <2>1
  <1>. QED  BY <1>0, <1>1, <1>4, <1>6, <1>7, <1>8, <1>9, <1>10, TableStep

LEMMA MovePayInv == ASSUME LedgerInv, NEW c \in Chains, MovePay(c)  PROVE LedgerInv'
  <1>. DEFINE v == work[c].h
              a == Account(v)
              t == <<Tx[v].to, Tx[v].at>>
              amt == Tx[v].amt
              mid == [bal EXCEPT ![a] = @ + (-amt)]
  <1>0. /\ c \in Procs /\ TypeOK /\ v \in Moves /\ v \in Hashes /\ v \in Booked
        /\ Running(c) /\ op[v] = "init" /\ a[2] = c /\ t[2] = c /\ Covers(v)
    BY Handler DEF Procs, MovePay, At, HandlerOK, BookOK, Running, Hashes, Booked, Account
  <1>1. /\ bal' = [mid EXCEPT ![t] = @ + amt]
        /\ op' = [op EXCEPT ![v] = "matched"]
        /\ Return(c)
        /\ UNCHANGED <<deploy, minted, bt, memory, todo, outside, counters>>
    BY DEF MovePay, incUserBalance, Mark
  <1>2. a \in Accounts /\ t \in Accounts /\ amt \in Nat /\ amt <= bal[a] /\ bal[a] \in Int
    <2>1. a \in Accounts /\ t \in Accounts /\ amt \in Nat
      BY <1>0, LedgerAssumption DEF Account, Accounts, Fields
    <2>. QED  BY <1>0, <2>1 DEF Covers, TypeOK
  <1>. HIDE DEF a, amt, t
  <1>3. /\ mid \in [Accounts -> Int] /\ mid[a] = bal[a] - amt
        /\ \A b \in Accounts \ {a} : mid[b] = bal[b]
    <2>1. bal[a] + (-amt) = bal[a] - amt /\ bal[a] - amt \in Int
      BY <1>2
    <2>. QED  BY <1>0, <1>2, <2>1 DEF TypeOK
  <1>. HIDE DEF mid
  <1>4. /\ bal' \in [Accounts -> Int] /\ bal'[t] = mid[t] + amt
        /\ \A b \in Accounts \ {t} : bal'[b] = mid[b]
    <2>1. mid[t] + amt \in Int
      BY <1>2, <1>3
    <2>. QED  BY <1>1, <1>2, <1>3, <2>1
  <1>5. \A b \in Accounts : bal[b] >= 0 /\ bal[b] \in Int
    BY <1>0 DEF LedgerInv, NeverNegative, TypeOK
  <1>6. NeverNegative'
    <2>1. ASSUME NEW b \in Accounts  PROVE bal'[b] >= 0
      <3>1. mid[b] \in Int /\ mid[b] >= 0
        BY <1>2, <1>3, <1>5
      <3>. QED  BY <1>2, <1>4, <3>1
    <2>. QED  BY <2>1 DEF NeverNegative
  <1>7. TypeOK'
    <2>1. work' \in [Procs -> HandlerState]
      BY <1>0, <1>1, Handler DEF Return, Goto, TypeOK
    <2>2. op' \in [Hashes -> {"absent", "init", "valid", "refused", "matched"}]
      BY <1>0, <1>1 DEF TypeOK
    <2>. QED  BY <1>0, <1>1, <1>4, <2>1, <2>2 DEF TypeOK, memory, outside, counters
  <1>8. \A g \in Hashes \ {v} : op'[g] = op[g]
    BY <1>0, <1>1 DEF TypeOK
  <1>9. \A x \in Crosses : op'[x] = op[x]
    BY <1>0, <1>8, LedgerAssumption DEF Hashes, Booked
  <1>10. \A q \in Rows : RowOK(q)'
    BY <1>1, <1>9 DEF LedgerInv, RowOK, outside
  <1>11. \A b \in Accounts : bal[b] <= bal'[b] \/ (c \in Chains /\ b[2] = c)
    <2>1. ASSUME NEW b \in Accounts, b # a, b # t  PROVE bal[b] <= bal'[b]
      BY <1>3, <1>4, <1>5, <2>1
    <2>. QED  BY <1>0, <2>1
  <1>12. \A g \in Booked : op'[g] = op[g] \/ (c \in Chains /\ Running(c) /\ g = work[c].h)
    BY <1>0, <1>8 DEF Hashes
  <1>. QED  BY <1>0, <1>1, <1>6, <1>7, <1>9, <1>10, <1>11, <1>12, TableStep

LEMMA PaymentInv ==
  ASSUME LedgerInv, NEW k \in Procs, Match(k)
  PROVE  LedgerInv'
  <1>. DEFINE p == work[k].h
              r == Tx[p].for
  <1>0. /\ TypeOK /\ work[k].pc \in SettlePc /\ Running(k) /\ HandlerOK(k)
        /\ p \in (IF k \in Chains THEN Overs ELSE Mints)
        /\ p \in Hashes /\ p \in Pays /\ r \in Rows
        /\ k \notin Chains => p \in Deploys \cup Claims \cup Mints
    <2>1. work[k].pc \in SettlePc
      BY DEF Match, MemMatch, MemMiss, ByTarget, ByFeatures, DbSettle, Enter, At, SettlePc
    <2>. QED  BY <2>1, Handler, LedgerAssumption
              DEF HandlerOK, Running, SettlePc, Hashes, Booked, Pays, Rows
  <1>1. CASE MemMatch(k)
    <2>1. Settle(k, r) /\ RowFree(r) /\ bt[r].status \in Open /\ op[r] \in {"init", "valid"}
      BY <1>1 DEF MemMatch, Unmatched
    <2>2. k \in Chains => op[r] = "valid"
      BY <1>0, <2>1, LedgerAssumption DEF LedgerInv, RowOK, Open
    <2>. QED  BY <1>0, <1>1, <2>1, <2>2, SettleInv DEF MemMatch, Enter, At, Open
  <1>2. CASE MemMiss(k)
    <2>1. work'[k].pc = "byTarget" /\ work'[k].h = p => HandlerOK(k)'
      BY <1>0 DEF HandlerOK, ListPc, WorkerPc, SettlePc
    <2>. QED  BY <1>0, <1>2, <2>1, Handler, GotoPc
              DEF MemMiss, books, memory, outside, counters, TypeOK
  <1>3. CASE ByTarget(k)
    <2>. DEFINE named == \E q \in Rows : bt[q].target = p
    <2>1. UNCHANGED <<op, books, memory, todo, outside, counters>>
      BY <1>3 DEF ByTarget
    <2>2. CASE named
      \* The row that names a payment is the one it is for.
      <3>1. bt[r].status # "none"
        BY <1>0, <2>2, LedgerAssumption DEF LedgerInv, RowOK
      <3>2. bt' = bt /\ work'[k].pc = "settle" /\ work'[k].h = p /\ work'[k].named => HandlerOK(k)'
        BY <1>0, <3>1 DEF HandlerOK, ListPc, WorkerPc, SettlePc
      <3>3. Goto(k, [work[k] EXCEPT !.pc = "settle", !.named = TRUE])
        BY <1>3, <2>2 DEF ByTarget
      <3>. QED  BY <1>0, <2>1, <3>2, <3>3, Handler, GotoInv DEF books, memory, outside, counters, TypeOK
    <2>3. CASE ~named
      <3>1. work'[k].pc = "byFeatures" /\ work'[k].h = p => HandlerOK(k)'
        BY <1>0 DEF HandlerOK, ListPc, WorkerPc, SettlePc
      <3>2. Goto(k, [work[k] EXCEPT !.pc = "byFeatures", !.named = FALSE])
        BY <1>3, <2>3 DEF ByTarget
      <3>. QED  BY <1>0, <2>1, <3>1, <3>2, Handler, GotoInv DEF books, memory, outside, counters, TypeOK
    <2>. QED  BY <2>2, <2>3
  <1>4. CASE ByFeatures(k)
    <2>1. UNCHANGED <<op, books, mem, old, todo, outside, counters>>
      BY <1>4 DEF ByFeatures
    <2>2. CASE bt[r].status \in Open /\ bt[r].target = None
      <3>1. k \in Chains => op[r] = "valid"
        BY <1>0, <2>2, LedgerAssumption DEF LedgerInv, RowOK
      <3>2. op' = op /\ bt' = bt /\ work'[k].pc = "settle" /\ work'[k].h = p => HandlerOK(k)'
        BY <1>0, <2>2, <3>1 DEF HandlerOK, ListPc, WorkerPc, SettlePc, Open
      <3>3. Goto(k, [work[k] EXCEPT !.pc = "settle"]) /\ cache' = cache
        BY <1>4, <2>2 DEF ByFeatures
      <3>. QED  BY <1>0, <2>1, <3>2, <3>3, Handler, GotoPc DEF books, memory, outside, counters, TypeOK
    <2>3. CASE ~(bt[r].status \in Open /\ bt[r].target = None)
      <3>1. Return(k) /\ cache' \subseteq Mints
        BY <1>0, <1>4, <2>3 DEF ByFeatures, TypeOK
      <3>. QED  BY <1>0, <2>1, <3>1, Handler, ReturnInv DEF books, outside, counters, TypeOK
    <2>. QED  BY <2>2, <2>3
  <1>5. CASE DbSettle(k)
    <2>1. work[k].pc = "settle" /\ UNCHANGED <<deploy, minted, mem, old, outside, counters>>
      BY <1>5 DEF DbSettle, At
    <2>2. CASE work[k].named /\ p \in Overs
      <3>1. Throw(k) /\ UNCHANGED <<op, bt, bal, cache>>
        BY <1>5, <2>2 DEF DbSettle
      <3>. QED  BY <1>0, <2>1, <3>1, Handler, ReturnInv DEF outside, counters, TypeOK
    <2>3. CASE ~(work[k].named /\ p \in Overs)
      <3>1. Settle(k, r) /\ todo' = todo /\ RowFree(r)
        BY <1>5, <2>3 DEF DbSettle
      <3>2. bt[r].status # "none" /\ (k \in Chains => op[r] = "valid")
        BY <1>0, <2>1, <2>3 DEF HandlerOK
      <3>. QED  BY <1>0, <2>1, <3>1, <3>2, SettleInv
    <2>. QED  BY <2>2, <2>3
  <1>. QED  BY <1>1, <1>2, <1>3, <1>4, <1>5 DEF Match

\* The checks that come before the balance is written.
LEMMA CheckInv ==
  ASSUME LedgerInv, NEW c \in Chains, CrossCheck(c) \/ MoveCheck(c)
  PROVE  LedgerInv'
  <1>. DEFINE h == work[c].h
  <1>0. /\ c \in Procs /\ TypeOK /\ h \in Hashes /\ Running(c) /\ HandlerOK(c) /\ h \notin Bad
        /\ h \in (IF work[c].pc = "cross" THEN Crosses ELSE Moves)
        /\ work[c].pc \in {"cross", "move"}
        /\ UNCHANGED <<books, memory, todo, outside, counters>>
    BY Handler DEF Procs, CrossCheck, MoveCheck, Enter, At, HandlerOK, Running, Hashes, Booked
  <1>1. CASE Covers(h) /\ op' = op
             /\ \/ Goto(c, [work[c] EXCEPT !.pc = "take"]) /\ work[c].pc = "cross"
                \/ Goto(c, [work[c] EXCEPT !.pc = "pay"]) /\ work[c].pc = "move"
    <2>1. bal' = bal /\ work'[c].h = h => Covers(work[c].h)'
      BY <1>1 DEF Covers, Account
    <2>2. bal' = bal
      BY <1>0 DEF books
    <2>3. ASSUME work'[c].h = h, work'[c].pc = (IF work[c].pc = "cross" THEN "take" ELSE "pay")
          PROVE  HandlerOK(c)'
      BY <1>0, <2>1, <2>2, <2>3, Handler DEF HandlerOK, ListPc, WorkerPc, SettlePc
    <2>. QED  BY <1>0, <1>1, <2>3, Handler, GotoPc DEF books, memory, outside, counters, TypeOK
  <1>2. CASE Mark(h, "refused") /\ Return(c)
    BY <1>0, <1>2, Handler, ReturnInv DEF Mark, books, memory, outside, counters, TypeOK
  <1>3. CASE CrossCheck(c)
    <2>1. work[c].pc = "cross"
      BY <1>3 DEF CrossCheck, Enter, At
    <2>. QED  BY <1>1, <1>2, <1>3, <2>1 DEF CrossCheck
  <1>4. CASE MoveCheck(c)
    <2>1. work[c].pc = "move"
      BY <1>4 DEF MoveCheck, Enter, At
    <2>. QED  BY <1>1, <1>2, <1>4, <2>1 DEF MoveCheck
  <1>. QED  BY <1>3, <1>4

\* A transaction that is rolled back.
LEMMA FailsInv ==
  ASSUME LedgerInv, NEW k \in Procs, Fails(k) \/ SettleFails(k) \/ (k \in Chains /\ MoveFails(k))
  PROVE  LedgerInv'
  <1>. DEFINE h == work[k].h
  <1>0. TypeOK /\ HandlerOK(k) /\ faults' \in 0..MaxFaults
    BY Handler DEF Fails, SettleFails, MoveFails
  <1>1. CASE SettleFails(k) /\ ~Throw(k)
    <2>1. /\ Goto(k, [work[k] EXCEPT !.pc = "byTarget"]) /\ todo' = todo /\ work[k].pc = "memory"
          /\ UNCHANGED <<op, books, memory, outside, deliveries>>
      BY <1>1 DEF SettleFails, Enter, At
    <2>2. Running(k) /\ h \in Hashes
      BY <1>0, <2>1 DEF HandlerOK, Running, SettlePc, Hashes, Booked
    <2>3. work'[k].pc = "byTarget" /\ work'[k].h = h => HandlerOK(k)'
      BY <1>0, <2>1 DEF HandlerOK, ListPc, WorkerPc, SettlePc
    <2>. QED  BY <1>0, <2>1, <2>2, <2>3, GotoPc DEF books, memory, outside, TypeOK
  <1>2. CASE UNCHANGED <<op, books, cache, old, outside, deliveries>> /\ h \in Hashes
             /\ mem' \in [Rows -> {"no", "live", "ghost"}]
             /\ ((Return(k) /\ todo' = todo) \/ Throw(k))
    <2>1. CASE Deploys \cup Claims \cup Mints # {}
      <3>1. PICK g \in Hashes : g \in Deploys \cup Claims \cup Mints
        BY <2>1 DEF Hashes
      <3>. QED  BY <1>0, <1>2, <3>1, ReturnInv DEF books, outside, TypeOK
    <2>2. CASE Deploys \cup Claims \cup Mints = {}
      <3>1. k \in Chains /\ Running(k)
        BY <1>0, <2>2, Handler
        DEF Fails, SettleFails, MoveFails, HandlerOK, ListPc, WorkerPc, SettlePc, At, Running, Enter
      <3>. QED  BY <1>0, <1>2, <3>1, ReturnInv DEF books, outside, TypeOK
    <2>. QED  BY <2>1, <2>2
  <1>3. CASE Fails(k)
    <2>1. h \in Hashes /\ mem' \in [Rows -> {"no", "live", "ghost"}]
      BY <1>0, <1>3 DEF Fails, HandlerOK, Hashes, Booked, Remember, TypeOK
    <2>. QED  BY <1>2, <1>3, <2>1 DEF Fails
  <1>4. CASE SettleFails(k) /\ Throw(k)
    <2>1. h \in Hashes
      BY <1>0, <1>4 DEF SettleFails, HandlerOK, Enter, At, Hashes, Booked, SettlePc
    <2>. QED  BY <1>0, <1>2, <1>4, <2>1 DEF SettleFails, memory, TypeOK
  <1>5. CASE k \in Chains /\ MoveFails(k)
    <2>1. h \in Hashes
      BY <1>0, <1>5 DEF MoveFails, HandlerOK, At, Hashes, Booked
    <2>. QED  BY <1>0, <1>2, <1>5, <2>1 DEF MoveFails, memory, counters, TypeOK
  <1>. QED  BY <1>1, <1>3, <1>4, <1>5

-----------------------------------------------------------------------------
(* The bookkeeping's list.                                                  *)

LEMMA SelectInv == ASSUME LedgerInv, NEW c \in Chains, Select(c)  PROVE LedgerInv'
  <1>. DEFINE r == [Idle EXCEPT !.pc = "next"]
  <1>0. c \in Procs /\ TypeOK /\ r \in HandlerState /\ r.pc = "next"
    BY Handler DEF Procs, Idle
  <1>. HIDE DEF r
  <1>1. /\ work' = [work EXCEPT ![c] = r] /\ work'[c] = r
        /\ todo' = [todo EXCEPT ![c] = Pending(c)]
        /\ UNCHANGED <<op, books, memory, outside, counters>>
    BY <1>0 DEF Select, Goto, TypeOK, r
  <1>2. TypeOK'
    <2>1. Pending(c) \in SUBSET Booked
      BY DEF Pending
    <2>. QED  BY <1>0, <1>1, <2>1 DEF TypeOK, books, memory, outside, counters
  <1>3. HandlerOK(c)'
    BY <1>0, <1>1, Handler DEF HandlerOK, ListPc, WorkerPc, SettlePc
  <1>4. BookOK(c)'
    <2>1. todo'[c] = Pending(c)
      BY <1>0, <1>1 DEF TypeOK
    <2>. QED  BY <1>0, <1>1, <2>1 DEF BookOK, Running, Pending
  <1>5. \A d \in Chains \ {c} : todo'[d] = todo[d]
    BY <1>0, <1>1 DEF TypeOK
  <1>. QED  BY <1>0, <1>1, <1>2, <1>3, <1>4, <1>5, Continues DEF books, outside

LEMMA NextTransferInv == ASSUME LedgerInv, NEW c \in Chains, NextTransfer(c)  PROVE LedgerInv'
  <1>0. c \in Procs /\ TypeOK /\ UNCHANGED <<op, books, memory, outside, counters>>
        /\ c \notin Workers /\ BookOK(c) /\ todo[c] \subseteq Booked
    BY Handler DEF Procs, NextTransfer, TypeOK
  <1>1. CASE Goto(c, Idle) /\ todo' = todo
    <2>1. /\ Idle \in HandlerState /\ Idle.pc = "idle"
          /\ work' = [work EXCEPT ![c] = Idle] /\ work'[c] = Idle
      BY <1>0, <1>1, Handler DEF Goto, TypeOK, Idle
    <2>2. TypeOK' /\ HandlerOK(c)' /\ BookOK(c)'
      BY <1>0, <1>1, <2>1
      DEF TypeOK, books, memory, outside, counters, HandlerOK, ListPc, WorkerPc, SettlePc,
          BookOK, Running
    <2>. QED  BY <1>0, <1>1, <2>1, <2>2, Continues DEF books, outside
  <1>2. CASE \E h \in todo[c] : /\ Goto(c, [Idle EXCEPT !.pc = First(h), !.h = h])
                                /\ todo' = [todo EXCEPT ![c] = @ \ {h}]
    <2>1. PICK h \in todo[c] : /\ Goto(c, [Idle EXCEPT !.pc = First(h), !.h = h])
                               /\ todo' = [todo EXCEPT ![c] = @ \ {h}]
      BY <1>2
    <2>. DEFINE r == [Idle EXCEPT !.pc = First(h), !.h = h]
    <2>2. h \in Booked /\ h \in Hashes /\ Tx[h].at = c /\ op[h] = "init"
      BY <1>0 DEF BookOK, Hashes
    <2>3. /\ r.h = h
          /\ \/ h \in Crosses /\ r.pc = "cross"
             \/ h \in Moves /\ r.pc = "move"
             \/ h \in Overs /\ r.pc = "memory"
      BY <2>2, LedgerAssumption DEF First, Idle, Booked, Pays
    <2>4. r \in HandlerState
      BY <2>2 DEF Idle, HandlerState, First
    <2>. HIDE DEF r
    <2>5. work' = [work EXCEPT ![c] = r] /\ work'[c] = r
      BY <1>0, <2>1 DEF Goto, TypeOK, r
    <2>6. todo'[c] = todo[c] \ {h} /\ \A d \in Chains \ {c} : todo'[d] = todo[d]
      BY <1>0, <2>1 DEF TypeOK
    <2>7. TypeOK'
      BY <1>0, <2>1, <2>4, <2>5 DEF TypeOK, books, memory, outside, counters
    <2>8. HandlerOK(c)'
      BY <1>0, <2>3, <2>5 DEF HandlerOK, ListPc, WorkerPc, SettlePc
    <2>9. BookOK(c)'
      BY <1>0, <2>2, <2>3, <2>5, <2>6 DEF BookOK, Running
    <2>. QED  BY <1>0, <2>3, <2>5, <2>6, <2>7, <2>8, <2>9, Continues DEF books, outside
  <1>. QED  BY <1>1, <1>2 DEF NextTransfer

\* Handlers that begin, or are gone.
LEMMA BookKeepingInv == ASSUME LedgerInv, BookKeeping  PROVE LedgerInv'
  <1>. DEFINE r == [Idle EXCEPT !.pc = "select"]
  <1>1. /\ TypeOK /\ r \in HandlerState /\ r.pc = "select" /\ Free \subseteq Chains
        /\ UNCHANGED <<op, books, memory, todo, outside, counters>>
        /\ \A k \in Procs : work'[k] = IF k \in Free THEN r ELSE work[k]
        /\ work' \in [Procs -> HandlerState]
    BY DEF BookKeeping, LedgerInv, TypeOK, Free, Chains, Idle, HandlerState
  <1>. HIDE DEF r
  <1>2. TypeOK'
    BY <1>1 DEF TypeOK, books, memory, outside, counters
  <1>3. ASSUME NEW k \in Procs  PROVE HandlerOK(k)' /\ (k \in Chains => BookOK(k)')
    <2>1. HandlerOK(k) /\ (k \in Chains => BookOK(k))
      BY Handler
    <2>2. CASE k \in Free
      BY <1>1, <2>1, <2>2, Handler
      DEF HandlerOK, ListPc, WorkerPc, SettlePc, BookOK, Running
    <2>3. CASE k \notin Free
      BY <1>1, <2>1, <2>3 DEF HandlerOK, BookOK, Running, Covers, books
    <2>. QED  BY <2>2, <2>3
  <1>4. MintOK'
    <2>1. Minting' \subseteq Minting
      BY <1>1 DEF Minting, Procs
    <2>. QED  BY <1>1, <1>2, <2>1, MintFrame DEF books
  <1>5. NeverNegative' /\ \A q \in Rows : RowOK(q)'
    BY <1>1 DEF LedgerInv, NeverNegative, RowOK, books, outside
  <1>. QED  BY <1>2, <1>3, <1>4, <1>5 DEF LedgerInv, Procs

LEMMA CrashInv == ASSUME LedgerInv, Crash  PROVE LedgerInv'
  <1>1. /\ TypeOK /\ Idle \in HandlerState /\ Idle.pc = "idle" /\ faults' \in 0..MaxFaults
        /\ UNCHANGED <<op, books, old, outside, deliveries>>
        /\ work' = [k \in Procs |-> Idle] /\ todo' = [c \in Chains |-> {}]
        /\ mem' = [q \in Rows |-> "no"] /\ cache' = {}
    <2>1. faults' \in 0..MaxFaults
      BY LedgerAssumption DEF Crash, Fault, LedgerInv, TypeOK
    <2>. QED  BY <2>1 DEF Crash, LedgerInv, Idle, HandlerState
  <1>2. TypeOK'
    BY <1>1 DEF TypeOK, books, outside
  <1>3. (\A k \in Procs : HandlerOK(k)') /\ \A c \in Chains : BookOK(c)'
    BY <1>1 DEF HandlerOK, ListPc, WorkerPc, SettlePc, BookOK, Running, Procs
  <1>4. MintOK'
    <2>1. Minting' \subseteq Minting
      BY <1>1 DEF Minting, Procs
    <2>. QED  BY <1>1, <1>2, <2>1, MintFrame DEF books
  <1>5. NeverNegative' /\ \A q \in Rows : RowOK(q)'
    BY <1>1 DEF LedgerInv, NeverNegative, RowOK, books, outside
  <1>. QED  BY <1>2, <1>3, <1>4, <1>5 DEF LedgerInv

-----------------------------------------------------------------------------
(* The crawler, time and the maker.                                         *)

LEMMA InsertInv == ASSUME LedgerInv, NEW h \in Hashes, Insert(h)  PROVE LedgerInv'
  <1>1. /\ TypeOK /\ TypeOK' /\ UNCHANGED <<books, memory, work, todo, outside, counters>>
        /\ op[h] = "absent" /\ \A g \in Hashes : op'[g] = op[g] \/ (g = h /\ op'[g] = "init")
    BY DEF Insert, Mark, LedgerInv, TypeOK, books, memory, outside, counters
  <1>2. ASSUME NEW q \in Rows  PROVE RowOK(q)'
    <2>1. RowOK(q) /\ q \in Hashes
      BY DEF LedgerInv, Rows, Hashes, Booked
    <2>. QED  BY <1>1, <2>1 DEF RowOK, books, outside
  <1>3. ASSUME NEW k \in Procs  PROVE HandlerOK(k)' /\ (k \in Chains => BookOK(k)')
    <2>1. HandlerOK(k) /\ (k \in Chains => BookOK(k) /\ todo[k] \subseteq Booked)
      BY Handler DEF TypeOK
    <2>2. ASSUME work[k].pc = "settle", k \in Chains, op[Tx[work[k].h].for] = "valid"
          PROVE  op'[Tx[work[k].h].for] = "valid"
      <3>1. Tx[work[k].h].for \in Hashes
        BY <2>1, <2>2, LedgerAssumption DEF HandlerOK, SettlePc, Hashes, Booked
      <3>. QED  BY <1>1, <2>2, <3>1
    <2>3. \A g \in Booked : op[g] = "init" => op'[g] = "init"
      BY <1>1 DEF Hashes
    <2>4. k \in Chains /\ Running(k) => work[k].h \in Booked
      BY Handler DEF HandlerOK, Running, Booked, SettlePc, WorkerPc, HandlerState
    <2>. QED  BY <1>1, <2>1, <2>2, <2>3, <2>4 DEF HandlerOK, BookOK, Running, Covers, books
  <1>4. MintOK' /\ NeverNegative'
    <2>1. Minting' \subseteq Minting
      BY <1>1 DEF Minting
    <2>. QED  BY <1>1, <2>1, MintFrame DEF books, LedgerInv, NeverNegative
  <1>. QED  BY <1>1, <1>2, <1>3, <1>4 DEF LedgerInv, Procs

\* Nothing of this changes the books, the transfers or the handlers.
LEMMA ExpireInv == ASSUME LedgerInv, NEW h \in Rows \cup Mints, Expire(h)  PROVE LedgerInv'
  <1>1. TypeOK' /\ UNCHANGED <<op, books, work, todo, maker>>
    <2>1. faults' \in 0..MaxFaults
      BY LedgerAssumption DEF Expire, Fault, LedgerInv, TypeOK
    <2>. QED  BY <2>1 DEF Expire, LedgerInv, TypeOK, books, outside
  <1>2. Minting' \subseteq Minting
    BY <1>1 DEF Minting
  <1>3. MintOK'
    BY <1>1, <1>2, MintFrame DEF books
  <1>. QED  BY <1>1, <1>3 DEF LedgerInv, HandlerOK, BookOK, Running, Covers, RowOK, NeverNegative, books

\* The maker takes and leaves rows that are pending or were.
LEMMA MakerInv ==
  ASSUME LedgerInv,
         \/ \E p \in Pays : MakerPays(p)
         \/ \E r \in Rows : MakerEnds(r)
  PROVE  LedgerInv'
  <1>1. PICK r \in Rows :
          /\ UNCHANGED <<op, deploy, minted, bal, memory, work, todo, counters>>
          /\ bt[r].status = "pending" /\ bt'[r].status # "none"
          /\ \A q \in Rows \ {r} : bt'[q] = bt[q] /\ maker'[q] = maker[q]
          /\ TypeOK' /\ RowOK(r)'
    <2>1. CASE \E p \in Pays : MakerPays(p)
      <3>1. PICK p \in Pays : MakerPays(p)
        BY <2>1
      <3>. DEFINE r == Tx[p].for
      <3>2. r \in Rows /\ p # None /\ RowOK(r)
        BY LedgerAssumption DEF Pays, Rows, Hashes, Booked, LedgerInv
      <3>3. maker'[r] = p /\ \A q \in Rows \ {r} : maker'[q] = maker[q]
        BY <3>1, <3>2 DEF MakerPays, LedgerInv, TypeOK
      <3>4. TypeOK'
        BY <3>1, <3>2 DEF MakerPays, LedgerInv, TypeOK, books, memory, counters
      <3>. QED  BY <3>1, <3>2, <3>3, <3>4 DEF MakerPays, RowOK, books
    <2>2. CASE \E r \in Rows : MakerEnds(r)
      <3>1. PICK r \in Rows : MakerEnds(r)
        BY <2>2
      <3>2. /\ RowOK(r) /\ bt[r].status = "pending" /\ maker[r] \in Pays /\ Tx[maker[r]].for = r
            /\ bt[r] \in [status: Open \cup {"none", "success"}, target: Pays \cup {None}]
        BY <3>1 DEF MakerEnds, LedgerInv, TypeOK, RowOK
      <3>3. /\ bt' \in [Rows -> [status: Open \cup {"none", "success"}, target: Pays \cup {None}]]
            /\ bt'[r].status \in {"pending", "crash", "paid"} /\ maker'[r] = None
            /\ \/ bt'[r].status = "paid" /\ bt'[r].target = maker[r]
               \/ bt'[r].status # "paid" /\ bt'[r].target = bt[r].target
            /\ \A q \in Rows \ {r} : bt'[q] = bt[q] /\ maker'[q] = maker[q]
        <4>1. TypeOK /\ maker' = [maker EXCEPT ![r] = None]
          BY <3>1 DEF MakerEnds, LedgerInv
        <4>2. PICK row \in [status: Open \cup {"none", "success"}, target: Pays \cup {None}] :
                /\ bt' = [bt EXCEPT ![r] = row]
                /\ row.status \in {"pending", "crash", "paid"}
                /\ \/ row.status = "paid" /\ row.target = maker[r]
                   \/ row.status # "paid" /\ row.target = bt[r].target
          <5>1. CASE bt' = [bt EXCEPT ![r] = [status |-> "paid", target |-> maker[r]]]
            <6>. DEFINE row == [status |-> "paid", target |-> maker[r]]
            <6>1. /\ row \in [status: Open \cup {"none", "success"}, target: Pays \cup {None}]
                  /\ row.status = "paid" /\ row.target = maker[r]
              BY <3>2 DEF Open
            <6>2. bt' = [bt EXCEPT ![r] = row]
              BY <5>1
            <6>. HIDE DEF row
            <6>. QED  BY <6>1, <6>2
          <5>2. CASE bt' = [bt EXCEPT ![r].status = "crash"]
            <6>1. bt' = [bt EXCEPT ![r] = [bt[r] EXCEPT !.status = "crash"]]
              BY <5>2
            <6>2. [bt[r] EXCEPT !.status = "crash"] = [status |-> "crash", target |-> bt[r].target]
              BY <3>2
            <6>. QED  BY <3>2, <6>1, <6>2 DEF Open
          <5>3. CASE bt' = bt
            BY <3>2, <4>1, <5>3 DEF TypeOK
          <5>. QED  BY <3>1, <5>1, <5>2, <5>3 DEF MakerEnds
        <4>. QED  BY <4>1, <4>2 DEF TypeOK
      <3>4. TypeOK'
        BY <3>1, <3>3 DEF MakerEnds, LedgerInv, TypeOK, memory, counters
      <3>5. op' = op
        BY <3>1 DEF MakerEnds
      <3>6. RowOK(r)'
        BY <3>2, <3>3, <3>5, LedgerAssumption DEF RowOK, Open
      <3>. QED  BY <3>1, <3>2, <3>3, <3>4, <3>6 DEF MakerEnds
    <2>. QED  BY <2>1, <2>2
  <1>2. \A q \in Rows : RowOK(q)'
    BY <1>1 DEF LedgerInv, RowOK
  <1>3. \A q \in Rows : bt[q].status # "none" => bt'[q].status # "none"
    BY <1>1
  <1>4. ASSUME NEW k \in Procs  PROVE HandlerOK(k)' /\ (k \in Chains => BookOK(k)')
    <2>1. HandlerOK(k) /\ (k \in Chains => BookOK(k))
      BY Handler
    <2>2. work[k].pc = "settle" => Tx[work[k].h].for \in Rows
      BY <2>1, LedgerAssumption DEF HandlerOK, SettlePc, Rows
    <2>. QED  BY <1>1, <1>3, <2>1, <2>2 DEF HandlerOK, BookOK, Running, Covers
  <1>5. Minting' \subseteq Minting
    BY <1>1 DEF Minting
  <1>6. MintOK' /\ NeverNegative'
    BY <1>1, <1>5, MintFrame DEF LedgerInv, NeverNegative
  <1>. QED  BY <1>1, <1>2, <1>4, <1>6 DEF LedgerInv, Procs

-----------------------------------------------------------------------------
LEMMA InitInv == Init => LedgerInv
  <1>. SUFFICES ASSUME Init  PROVE LedgerInv
    OBVIOUS
  <1>1. TypeOK
    BY LedgerAssumption DEF Init, TypeOK, NoRow, Idle, HandlerState, Open, Hashes
  <1>2. /\ \A k \in Procs : HandlerOK(k)
        /\ \A c \in Chains : BookOK(c)
    BY DEF Init, HandlerOK, BookOK, Running, Idle, ListPc, WorkerPc, SettlePc, Procs
  <1>3. ASSUME NEW q \in Rows  PROVE RowOK(q)
    BY DEF Init, RowOK, NoRow, Rows, Hashes, Booked, Open
  <1>4. NeverNegative
    BY DEF Init, NeverNegative
  <1>5. MintOK
    <2>1. Minting = {}
      BY DEF Init, Minting, Idle, Procs
    <2>2. Cardinality(Minting) = 0
      BY <2>1, FS_EmptySet
    <2>3. \A i, j \in Nat : i * j \in Nat
      OBVIOUS
    <2>4. ClaimLimit * Cardinality(Workers) \in Nat /\ minted = 0
      BY <2>3, LedgerAssumption, Counting DEF Init
    <2>. QED  BY <2>2, <2>4, LedgerAssumption DEF MintOK
  <1>. QED  BY <1>1, <1>2, <1>3, <1>4, <1>5 DEF LedgerInv

LEMMA NextInv == ASSUME LedgerInv, [Next]_vars  PROVE LedgerInv'
  <1>1. CASE (\E h \in Hashes : Insert(h)) \/ (\E h \in Rows \cup Mints : Expire(h))
    BY <1>1, InsertInv, ExpireInv
  <1>2. ASSUME NEW k \in Workers, Begin(k) \/ Claim(k)  PROVE LedgerInv'
    BY <1>2, BeginInv, DeployInv, ClaimCheckInv, ClaimFullInv, ClaimRowInv, ClaimMintInv DEF Claim
  <1>3. ASSUME NEW k \in Procs, Match(k) \/ Refuse(k) \/ Fails(k) \/ SettleFails(k)
        PROVE  LedgerInv'
    BY <1>3, PaymentInv, RefuseInv, FailsInv
  <1>4. ASSUME NEW c \in Chains, Book(c) \/ MoveFails(c)  PROVE LedgerInv'
    <2>1. c \in Procs
      BY DEF Procs
    <2>. QED  BY <1>4, <2>1, SelectInv, NextTransferInv, CheckInv, CrossTakeInv, MovePayInv, FailsInv
              DEF Book
  <1>5. CASE (\E p \in Pays : MakerPays(p)) \/ (\E r \in Rows : MakerEnds(r))
    BY <1>5, MakerInv
  <1>6. CASE BookKeeping \/ Crash
    BY <1>6, BookKeepingInv, CrashInv
  <1>7. CASE UNCHANGED vars
    <2>1. UNCHANGED <<op, books, memory, work, todo, outside, counters>>
      BY <1>7 DEF vars
    <2>2. TypeOK'
      BY <2>1 DEF LedgerInv, TypeOK, books, memory, outside, counters
    <2>3. Minting' \subseteq Minting
      BY <2>1 DEF Minting
    <2>4. MintOK'
      BY <2>1, <2>2, <2>3, MintFrame DEF books
    <2>. QED  BY <2>1, <2>2, <2>4
              DEF LedgerInv, HandlerOK, BookOK, Running, Covers, RowOK, NeverNegative, books, outside
  <1>. QED  BY <1>1, <1>2, <1>3, <1>4, <1>5, <1>6, <1>7 DEF Next

\* The state stays well typed and the invariant holds.
THEOREM Invariant == Spec => []LedgerInv
  <1>1. LedgerInv /\ [Next]_vars => LedgerInv'
    BY NextInv
  <1>. QED  BY <1>1, InitInv, PTL DEF Spec

\* The types of the tables, of the memory services and of the handlers.
THEOREM TypeCorrect == Spec => []TypeOK
  <1>1. LedgerInv => TypeOK
    BY DEF LedgerInv
  <1>. QED  BY <1>1, Invariant, PTL

\* No balance is ever negative, though it is read before the transaction that
\* takes from it.
THEOREM NonNegative == Spec => []NeverNegative
  <1>1. LedgerInv => NeverNegative
    BY DEF LedgerInv
  <1>. QED  BY <1>1, Invariant, PTL

\* A tick is minted beyond its supply by less than one claim of every worker.
THEOREM Bounded == Spec => []MintBound
  <1>1. ASSUME LedgerInv  PROVE MintBound
    <2>1. Minting \subseteq Workers
      BY DEF Minting
    <2>2. Cardinality(Minting) \in Nat
      BY <2>1, Counting, FS_Subset, FS_CardinalityType
    <2>3. \A i, j \in Nat : i * j \in Nat
      OBVIOUS
    <2>4. ClaimLimit * Cardinality(Minting) \in Nat /\ ClaimLimit * Cardinality(Workers) \in Nat
      BY <2>2, <2>3, LedgerAssumption, Counting
    <2>5. minted \in Nat /\ Supply \in Nat
      BY <1>1, LedgerAssumption DEF LedgerInv, TypeOK
    <2>6. minted + ClaimLimit * Cardinality(Minting) < Supply + ClaimLimit * Cardinality(Workers)
      BY <1>1 DEF LedgerInv, MintOK
    <2>. QED  BY <2>4, <2>5, <2>6 DEF MintBound
  <1>. QED  BY <1>1, Invariant, PTL

-----------------------------------------------------------------------------
(* Refinement of Tokens.                                                    *)

Same == UNCHANGED <<bal, Applied>>

LEMMA SameApplied ==
  ASSUME \A q \in Rows : bt'[q].status = "none" <=> bt[q].status = "none",
         \A x \in Crosses \cup Moves : op'[x] = "matched" <=> op[x] = "matched"
  PROVE  Applied' = Applied
  BY DEF Applied, Taken, Rows

\* A mark on a transfer that is a handler's, and on no row of its own, applies nothing.
LEMMA MarkSame ==
  ASSUME LedgerInv, NEW k \in Procs, NEW h \in Hashes, NEW s, UNCHANGED <<bt, bal>>,
         op' \in {op, [op EXCEPT ![h] = s]},
         \/ h \in Deploys \cup Claims \cup Mints
         \/ s = "refused" /\ k \in Chains /\ Running(k) /\ h = work[k].h
  PROVE  Same
  <1>1. \A g \in Hashes : op'[g] = op[g] \/ (g = h /\ op'[g] = s)
    BY DEF LedgerInv, TypeOK
  <1>2. ASSUME NEW x \in Crosses \cup Moves  PROVE op'[x] = "matched" <=> op[x] = "matched"
    <2>1. CASE op'[x] = op[x]
      BY <2>1
    <2>2. CASE op'[x] # op[x]
      <3>1. x = h /\ op'[x] = s
        BY <1>1, <2>2 DEF Hashes, Booked
      <3>2. s = "refused" /\ k \in Chains /\ Running(k) /\ h = work[k].h
        BY <3>1, LedgerAssumption DEF Booked
      <3>. QED  BY <3>1, <3>2 DEF LedgerInv, BookOK
    <2>. QED  BY <2>1, <2>2
  <1>. QED  BY <1>2, SameApplied DEF Same

\* An operation that is applied: the balances move by its flow.
LEMMA Applies ==
  ASSUME NEW o \in Operations, o \notin Applied, AfterOf[o] \subseteq Applied,
         \A a \in OutOf[o] : AmountOf[o] <= bal[a],
         bal' = [a \in Accounts |-> bal[a] + T!Flow(o, a)], Applied' = Applied \cup {o}
  PROVE  T!TokensNext
  BY DEF T!TokensNext, T!Apply

\* The operations' accounts and amounts.
LEMMA Flows ==
  /\ \A c \in Claims : LET o == <<c, "source">> IN
       /\ o \in Operations /\ AfterOf[o] = {} /\ OutOf[o] = {}
       /\ \A a \in Accounts :
            T!Flow(o, a) = (IF a = <<Tx[c].who, Tx[c].dest>> THEN Tx[c].amt ELSE 0) - 0
  /\ \A x \in Crosses : LET o == <<x, "source">> IN
       /\ o \in Operations /\ AfterOf[o] = {} /\ OutOf[o] = {Account(x)} /\ AmountOf[o] = Tx[x].amt
       /\ \A a \in Accounts : T!Flow(o, a) = 0 - (IF a = Account(x) THEN Tx[x].amt ELSE 0)
  /\ \A x \in Crosses : LET o == <<x, "target">> IN
       /\ o \in Operations /\ AfterOf[o] = {<<x, "source">>} /\ OutOf[o] = {}
       /\ \A a \in Accounts :
            T!Flow(o, a) = (IF a = <<Tx[x].to, Tx[x].dest>> THEN Tx[x].amt ELSE 0) - 0
  /\ \A v \in Moves : LET o == <<v, "source">> IN
       /\ o \in Operations /\ AfterOf[o] = {} /\ OutOf[o] = {Account(v)} /\ AmountOf[o] = Tx[v].amt
       /\ \A a \in Accounts :
            T!Flow(o, a) = (IF a = <<Tx[v].to, Tx[v].at>> THEN Tx[v].amt ELSE 0)
                           - (IF a = Account(v) THEN Tx[v].amt ELSE 0)
  <1>1. \A h \in Claims \cup Crosses \cup Moves : <<h, "source">> \in Operations
    BY DEF Operations
  <1>2. \A x \in Crosses : <<x, "target">> \in Operations
    BY DEF Operations
  <1>3. ASSUME NEW o \in Operations, NEW a \in Accounts
        PROVE  T!Flow(o, a) = (IF a \in InOf[o] THEN AmountOf[o] ELSE 0)
                              - (IF a \in OutOf[o] THEN AmountOf[o] ELSE 0)
    BY DEF T!Flow
  <1>4. ASSUME NEW c \in Claims
        PROVE  LET o == <<c, "source">> IN
               /\ o \in Operations /\ AfterOf[o] = {} /\ OutOf[o] = {}
               /\ \A a \in Accounts :
                    T!Flow(o, a) = (IF a = <<Tx[c].who, Tx[c].dest>> THEN Tx[c].amt ELSE 0) - 0
    <2>. DEFINE o == <<c, "source">>
    <2>1. /\ AfterOf[o] = {} /\ OutOf[o] = {} /\ AmountOf[o] = Tx[c].amt
          /\ InOf[o] = {<<Tx[c].who, Tx[c].dest>>}
      BY <1>1, LedgerAssumption DEF AfterOf, OutOf, InOf, AmountOf, Source, Booked
    <2>. QED  BY <1>1, <1>3, <2>1
  <1>5. ASSUME NEW x \in Crosses
        PROVE  LET o == <<x, "source">> IN
               /\ o \in Operations /\ AfterOf[o] = {} /\ OutOf[o] = {Account(x)}
               /\ AmountOf[o] = Tx[x].amt
               /\ \A a \in Accounts : T!Flow(o, a) = 0 - (IF a = Account(x) THEN Tx[x].amt ELSE 0)
    <2>. DEFINE o == <<x, "source">>
    <2>1. /\ AfterOf[o] = {} /\ OutOf[o] = {Account(x)} /\ AmountOf[o] = Tx[x].amt
          /\ InOf[o] = {}
      BY <1>1, LedgerAssumption DEF AfterOf, OutOf, InOf, AmountOf, Source, Booked
    <2>. QED  BY <1>1, <1>3, <2>1
  <1>6. ASSUME NEW x \in Crosses
        PROVE  LET o == <<x, "target">> IN
               /\ o \in Operations /\ AfterOf[o] = {<<x, "source">>} /\ OutOf[o] = {}
               /\ \A a \in Accounts :
                    T!Flow(o, a) = (IF a = <<Tx[x].to, Tx[x].dest>> THEN Tx[x].amt ELSE 0) - 0
    <2>. DEFINE o == <<x, "target">>
    <2>1. /\ AfterOf[o] = {<<x, "source">>} /\ OutOf[o] = {} /\ AmountOf[o] = Tx[x].amt
          /\ InOf[o] = {<<Tx[x].to, Tx[x].dest>>}
      BY <1>2, LedgerAssumption DEF AfterOf, OutOf, InOf, AmountOf, Source, Booked
    <2>. QED  BY <1>2, <1>3, <2>1
  <1>7. ASSUME NEW v \in Moves
        PROVE  LET o == <<v, "source">> IN
               /\ o \in Operations /\ AfterOf[o] = {} /\ OutOf[o] = {Account(v)}
               /\ AmountOf[o] = Tx[v].amt
               /\ \A a \in Accounts :
                    T!Flow(o, a) = (IF a = <<Tx[v].to, Tx[v].at>> THEN Tx[v].amt ELSE 0)
                                   - (IF a = Account(v) THEN Tx[v].amt ELSE 0)
    <2>. DEFINE o == <<v, "source">>
    <2>1. /\ AfterOf[o] = {} /\ OutOf[o] = {Account(v)} /\ AmountOf[o] = Tx[v].amt
          /\ InOf[o] = {<<Tx[v].to, Tx[v].at>>}
      BY <1>1, LedgerAssumption DEF AfterOf, OutOf, InOf, AmountOf, Source, Booked
    <2>. QED  BY <1>1, <1>3, <2>1
  <1>. QED  BY <1>4, <1>5, <1>6, <1>7

LEMMA ClaimMintApplies ==
  ASSUME LedgerInv, NEW k \in Workers, ClaimMint(k)
  PROVE  Same \/ T!TokensNext
  <1>. DEFINE c == work[k].h
              o == <<c, "source">>
              a == <<Tx[c].who, Tx[c].dest>>
  <1>0. k \in Procs /\ c \in Claims \ Bad /\ c \in Rows /\ c \in Hashes /\ TypeOK
    BY Handler DEF Procs, ClaimMint, At, HandlerOK, Rows, Hashes
  <1>1. CASE bt' = bt /\ bal' = bal
    <2>1. op' \in {op, [op EXCEPT ![c] = "valid"]}
      BY <1>1, <1>0 DEF ClaimMint, Valid, Mark, NewRow
    <2>. QED  BY <1>0, <1>1, <2>1, MarkSame
  <1>2. CASE ~work[k].named /\ bt[c].status = "none"
    <2>1. /\ bt' = [bt EXCEPT ![c] = [status |-> "pending", target |-> None]]
          /\ bal' = [bal EXCEPT ![a] = @ + Tx[c].amt]
          /\ op' \in {op, [op EXCEPT ![c] = "valid"]}
      BY <1>2 DEF ClaimMint, NewRow, incUserBalance, Valid, Mark
    <2>2. a \in Accounts /\ Tx[c].amt \in Nat
      BY <1>0, LedgerAssumption DEF Fields, Accounts
    <2>3. bal' = [b \in Accounts |-> bal[b] + T!Flow(o, b)]
      <3>1. bal \in [Accounts -> Int] /\ bal' \in [Accounts -> Int]
        BY <1>0, <2>1, <2>2, Credited DEF TypeOK
      <3>2. ASSUME NEW b \in Accounts  PROVE bal'[b] = bal[b] + T!Flow(o, b)
        <4>1. T!Flow(o, b) = (IF b = a THEN Tx[c].amt ELSE 0) - 0
          BY <1>0, Flows
        <4>2. bal'[b] = IF b = a THEN bal[b] + Tx[c].amt ELSE bal[b]
          BY <2>1, <3>1
        <4>. QED  BY <2>2, <3>1, <4>1, <4>2
      <3>. QED  BY <3>1, <3>2
    <2>4. Applied' = Applied \cup {o}
      <3>1. /\ bt'[c].status = "pending" /\ \A q \in Rows \ {c} : bt'[q] = bt[q]
            /\ \A x \in Crosses \cup Moves : op'[x] = op[x] /\ x \notin Claims
        BY <1>0, <2>1, LedgerAssumption DEF TypeOK, Booked, Hashes
      <3>2. {d \in Claims : bt'[d].status # "none"} = {d \in Claims : bt[d].status # "none"} \cup {c}
        BY <1>0, <3>1 DEF Rows
      <3>3. /\ {x \in Crosses : bt'[x].status # "none"} = {x \in Crosses : bt[x].status # "none"}
            /\ {x \in Crosses : op'[x] = "matched"} = {x \in Crosses : op[x] = "matched"}
            /\ {x \in Moves : op'[x] = "matched"} = {x \in Moves : op[x] = "matched"}
        BY <1>0, <3>1 DEF Rows
      <3>4. {<<d, "source">> : d \in {d \in Claims : bt'[d].status # "none"}}
              = {<<d, "source">> : d \in {d \in Claims : bt[d].status # "none"}} \cup {o}
        BY <3>2
      <3>. QED  BY <3>3, <3>4 DEF Applied, Taken
    <2>5. o \notin Applied
      BY <1>0, <1>2, LedgerAssumption DEF Applied, Taken, Booked
    <2>. QED  BY <1>0, <2>3, <2>4, <2>5, Flows, Applies
  <1>. QED  BY <1>1, <1>2 DEF ClaimMint, books

LEMMA CrossTakeApplies ==
  ASSUME LedgerInv, NEW c \in Chains, CrossTake(c)
  PROVE  T!TokensNext
  <1>. DEFINE x == work[c].h
              o == <<x, "source">>
              a == Account(x)
              amt == Tx[x].amt
  <1>0. /\ c \in Procs /\ TypeOK /\ x \in Crosses /\ x \in Hashes /\ x \in Rows
        /\ op[x] = "init" /\ Covers(x) /\ RowOK(x)
    BY Handler DEF Procs, CrossTake, At, HandlerOK, BookOK, Running, Hashes, Booked, Rows, LedgerInv
  <1>1. /\ bt' = [bt EXCEPT ![x] = [status |-> "pending", target |-> None]]
        /\ bal' = [bal EXCEPT ![a] = @ + (-amt)]
        /\ op' = [op EXCEPT ![x] = "valid"]
    BY DEF CrossTake, NewRow, incUserBalance, Mark
  <1>2. bt[x].status = "none"
    BY <1>0 DEF RowOK
  <1>3. a \in Accounts /\ amt \in Nat
    BY <1>0, LedgerAssumption DEF Account, Accounts, Fields
  <1>4. bal' = [b \in Accounts |-> bal[b] + T!Flow(o, b)]
    <2>1. ASSUME NEW b \in Accounts
          PROVE  /\ T!Flow(o, b) = 0 - (IF b = a THEN amt ELSE 0)
                 /\ bal'[b] = IF b = a THEN bal[b] + (-amt) ELSE bal[b]
                 /\ bal[b] \in Int
      BY <1>0, <1>1, Flows DEF TypeOK
    <2>. HIDE DEF amt, a
    <2>2. ASSUME NEW b \in Accounts  PROVE bal'[b] = bal[b] + T!Flow(o, b)
      BY <1>3, <2>1
    <2>. QED  BY <1>0, <1>1, <2>2 DEF TypeOK
  <1>5. Applied' = Applied \cup {o}
    <2>1. /\ bt'[x].status = "pending" /\ \A q \in Rows \ {x} : bt'[q] = bt[q]
          /\ op'[x] = "valid" /\ \A g \in Crosses \cup Moves : g # x => op'[g] = op[g]
      BY <1>0, <1>1 DEF TypeOK, Booked, Hashes
    <2>2. x \notin Claims /\ x \notin Moves
      BY <1>0, LedgerAssumption DEF Booked
    <2>3. {d \in Claims : bt'[d].status # "none"} = {d \in Claims : bt[d].status # "none"}
      BY <2>1, <2>2 DEF Rows
    <2>4. {y \in Crosses : bt'[y].status # "none"} = {y \in Crosses : bt[y].status # "none"} \cup {x}
      BY <1>0, <2>1 DEF Rows
    <2>5. /\ {y \in Crosses : op'[y] = "matched"} = {y \in Crosses : op[y] = "matched"}
          /\ {v \in Moves : op'[v] = "matched"} = {v \in Moves : op[v] = "matched"}
      BY <1>0, <2>1, <2>2
    <2>6. {<<y, "source">> : y \in {y \in Crosses : bt'[y].status # "none"}}
            = {<<y, "source">> : y \in {y \in Crosses : bt[y].status # "none"}} \cup {o}
      BY <2>4
    <2>. QED  BY <2>3, <2>5, <2>6 DEF Applied, Taken
  <1>6. o \notin Applied
    BY <1>0, <1>2, LedgerAssumption DEF Applied, Taken, Booked
  <1>7. \A b \in OutOf[o] : AmountOf[o] <= bal[b]
    BY <1>0, Flows DEF Covers
  <1>. QED  BY <1>0, <1>4, <1>5, <1>6, <1>7, Flows, Applies

LEMMA MovePayApplies ==
  ASSUME LedgerInv, NEW c \in Chains, MovePay(c)
  PROVE  T!TokensNext
  <1>. DEFINE v == work[c].h
              o == <<v, "source">>
              a == Account(v)
              t == <<Tx[v].to, Tx[v].at>>
              amt == Tx[v].amt
              mid == [bal EXCEPT ![a] = @ + (-amt)]
  <1>0. c \in Procs /\ TypeOK /\ v \in Moves /\ v \in Hashes /\ op[v] = "init" /\ Covers(v)
    BY Handler DEF Procs, MovePay, At, HandlerOK, BookOK, Running, Hashes, Booked
  <1>1. /\ bal' = [mid EXCEPT ![t] = @ + amt] /\ bt' = bt
        /\ op' = [op EXCEPT ![v] = "matched"]
    BY DEF MovePay, incUserBalance, Mark
  <1>2. a \in Accounts /\ t \in Accounts /\ amt \in Nat
    BY <1>0, LedgerAssumption DEF Account, Accounts, Fields
  <1>3. bal' = [b \in Accounts |-> bal[b] + T!Flow(o, b)]
    <2>1. ASSUME NEW b \in Accounts
          PROVE  /\ T!Flow(o, b) = (IF b = t THEN amt ELSE 0) - (IF b = a THEN amt ELSE 0)
                 /\ mid[b] = IF b = a THEN bal[b] + (-amt) ELSE bal[b]
                 /\ bal[b] \in Int
      BY <1>0, Flows DEF TypeOK
    <2>2. \A b \in Accounts : bal'[b] = IF b = t THEN mid[b] + amt ELSE mid[b]
      BY <1>0, <1>1 DEF TypeOK
    <2>3. bal' = [b \in Accounts |-> bal'[b]]
      BY <1>0, <1>1 DEF TypeOK
    <2>. HIDE DEF amt, a, t, mid
    <2>4. ASSUME NEW b \in Accounts  PROVE bal'[b] = bal[b] + T!Flow(o, b)
      BY <1>2, <2>1, <2>2
    <2>. QED  BY <2>3, <2>4
  <1>4. Applied' = Applied \cup {o}
    <2>1. op'[v] = "matched" /\ \A g \in Crosses \cup Moves : g # v => op'[g] = op[g]
      BY <1>0, <1>1 DEF TypeOK, Booked, Hashes
    <2>2. v \notin Crosses
      BY <1>0, LedgerAssumption
    <2>3. {x \in Crosses : op'[x] = "matched"} = {x \in Crosses : op[x] = "matched"}
      BY <2>1, <2>2
    <2>4. {w \in Moves : op'[w] = "matched"} = {w \in Moves : op[w] = "matched"} \cup {v}
      BY <1>0, <2>1
    <2>5. {<<w, "source">> : w \in {w \in Moves : op'[w] = "matched"}}
            = {<<w, "source">> : w \in {w \in Moves : op[w] = "matched"}} \cup {o}
      BY <2>4
    <2>. QED  BY <1>1, <2>3, <2>5 DEF Applied, Taken
  <1>5. o \notin Applied
    BY <1>0, LedgerAssumption DEF Applied, Taken, Booked
  <1>6. \A b \in OutOf[o] : AmountOf[o] <= bal[b]
    BY <1>0, Flows DEF Covers
  <1>. QED  BY <1>0, <1>3, <1>4, <1>5, <1>6, Flows, Applies

\* A crossover applies the second half of its cross; a mint applies nothing.
LEMMA SettleApplies ==
  ASSUME LedgerInv, NEW k \in Procs, NEW p, p = work[k].h, NEW r, r = Tx[p].for,
         work[k].pc \in {"memory", "settle"}, Settle(k, r), bt[r].status # "none",
         k \in Chains => op[r] = "valid"
  PROVE  Same \/ T!TokensNext
  <1>. DEFINE o == <<r, "target">>
              a == <<Tx[r].to, Tx[r].dest>>
              amt == Tx[r].amt
  <1>0. /\ TypeOK /\ p \in Pays /\ p \in Hashes /\ r \in Rows /\ r \in Hashes
        /\ k \in Chains => p \in Overs /\ r \in Crosses /\ op[r] = "valid"
        /\ k \notin Chains => p \in Mints /\ r \in Claims
    <2>1. TypeOK /\ p \in (IF k \in Chains THEN Overs ELSE Mints)
      BY Handler DEF HandlerOK, SettlePc
    <2>. QED  BY <2>1, LedgerAssumption DEF Pays, Hashes, Booked, Rows
  <1>1. \A q \in Rows : bt'[q].status = "none" <=> bt[q].status = "none"
    <2>1. bt'[r].status # "none" /\ \A q \in Rows \ {r} : bt'[q] = bt[q]
      BY <1>0 DEF Settle, TypeOK
    <2>. QED  BY <2>1
  <1>2. \A g \in Hashes : op'[g] = IF g \in {p, r} /\ op[g] \in {"init", "valid"}
                                   THEN "matched" ELSE op[g]
    <2>1. op' = [h \in Hashes |-> IF h \in Unmatched(p, r) THEN "matched" ELSE op[h]]
      BY DEF Settle
    <2>2. \A g \in Hashes : g \in Unmatched(p, r) <=> g \in {p, r} /\ op[g] \in {"init", "valid"}
      BY <1>0 DEF Unmatched
    <2>. QED  BY <2>1, <2>2
  <1>3. p \notin Crosses \cup Moves
    BY <1>0, LedgerAssumption DEF Pays, Booked
  <1>4. \A x \in Crosses \cup Moves : x # r => op'[x] = op[x]
    BY <1>2, <1>3 DEF Hashes, Booked
  <1>5. CASE k \notin Chains
    <2>1. r \notin Crosses \cup Moves /\ p \notin Overs
      BY <1>0, <1>5, LedgerAssumption DEF Booked
    <2>2. bal' = bal
      BY <2>1 DEF Settle, Credit
    <2>. QED  BY <1>1, <1>4, <2>1, <2>2, SameApplied DEF Same
  <1>6. CASE k \in Chains
    <2>0. p \in Overs /\ r \in Crosses /\ op[r] = "valid" /\ r \notin Moves /\ r \notin Claims
      BY <1>0, <1>6, LedgerAssumption DEF Booked
    <2>1. op'[r] = "matched"
      BY <1>0, <1>2, <2>0
    <2>2. a \in Accounts /\ amt \in Nat
      BY <1>0, LedgerAssumption DEF Accounts, Fields
    <2>3. bal' = [b \in Accounts |-> bal[b] + T!Flow(o, b)]
      <3>1. bal' = [bal EXCEPT ![a] = @ + amt]
        BY <2>0 DEF Settle, Credit, incUserBalance
      <3>2. ASSUME NEW b \in Accounts
            PROVE  /\ T!Flow(o, b) = (IF b = a THEN amt ELSE 0) - 0
                   /\ bal'[b] = IF b = a THEN bal[b] + amt ELSE bal[b]
                   /\ bal[b] \in Int
        BY <1>0, <2>0, <3>1, Flows DEF TypeOK
      <3>3. bal' = [b \in Accounts |-> bal'[b]]
        BY <1>0, <3>1 DEF TypeOK
      <3>. HIDE DEF amt, a
      <3>4. ASSUME NEW b \in Accounts  PROVE bal'[b] = bal[b] + T!Flow(o, b)
        BY <2>2, <3>2
      <3>. QED  BY <3>3, <3>4
    <2>4. Applied' = Applied \cup {o}
      <3>1. /\ {d \in Claims : bt'[d].status # "none"} = {d \in Claims : bt[d].status # "none"}
            /\ {x \in Crosses : bt'[x].status # "none"} = {x \in Crosses : bt[x].status # "none"}
        BY <1>1 DEF Rows
      <3>2. {v \in Moves : op'[v] = "matched"} = {v \in Moves : op[v] = "matched"}
        BY <1>4, <2>0
      <3>3. {x \in Crosses : op'[x] = "matched"} = {x \in Crosses : op[x] = "matched"} \cup {r}
        BY <1>4, <2>0, <2>1
      <3>4. {<<x, "target">> : x \in {x \in Crosses : op'[x] = "matched"}}
              = {<<x, "target">> : x \in {x \in Crosses : op[x] = "matched"}} \cup {o}
        BY <3>3
      <3>. QED  BY <3>1, <3>2, <3>4 DEF Applied, Taken
    <2>5. o \notin Applied /\ <<r, "source">> \in Applied
      BY <2>0 DEF Applied, Taken
    <2>6. o \in Operations /\ AfterOf[o] = {<<r, "source">>} /\ OutOf[o] = {}
      BY <2>0, Flows
    <2>. HIDE DEF o
    <2>. QED  BY <2>3, <2>4, <2>5, <2>6, Applies
  <1>. QED  BY <1>5, <1>6

\* All other steps leave the balances and what is applied alone.
LEMMA NextApplies == ASSUME LedgerInv, [Next]_vars  PROVE Same \/ T!TokensNext
  <1>1. CASE UNCHANGED <<bt, bal, op>>
    BY <1>1 DEF Same, Applied, Taken
  <1>2. ASSUME NEW h \in Hashes, Insert(h)  PROVE Same
    <2>1. bt' = bt /\ bal' = bal /\ \A g \in Hashes : op'[g] = op[g] \/ (op[g] = "absent" /\ op'[g] = "init")
      BY <1>2 DEF Insert, Mark, books, LedgerInv, TypeOK
    <2>2. \A x \in Crosses \cup Moves : op'[x] = "matched" <=> op[x] = "matched"
      BY <2>1 DEF Hashes, Booked
    <2>. QED  BY <2>1, <2>2, SameApplied DEF Same
  <1>3. ASSUME NEW k \in Procs, NEW h \in Hashes, h = work[k].h, bt' = bt, bal' = bal,
               NEW s, op' = op \/ Mark(h, s), (s = "refused" /\ Running(k)) \/ k \in Workers,
               k \in Workers => h \in Deploys \cup Claims \cup Mints
        PROVE  Same
    <2>1. k \notin Workers => k \in Chains
      BY DEF Procs
    <2>. QED  BY <1>3, <2>1, MarkSame DEF Mark
  <1>4. ASSUME NEW k \in Procs, Refuse(k)  PROVE Same
    <2>1. /\ work[k].h \in Hashes /\ Running(k)
          /\ k \in Workers => work[k].h \in Deploys \cup Claims \cup Mints
      BY <1>4, Handler DEF Refuse, HandlerOK, Running, ListPc, SettlePc, Hashes, Booked
    <2>. QED  BY <1>3, <1>4, <2>1 DEF Refuse, books
  <1>5. ASSUME NEW k \in Workers, Claim(k)  PROVE Same \/ T!TokensNext
    <2>1. k \in Procs
      BY DEF Procs
    <2>2. CASE ClaimMint(k)
      BY <2>2, ClaimMintApplies
    <2>3. CASE DeployCheck(k) \/ ClaimRow(k)
      BY <1>1, <2>3 DEF DeployCheck, ClaimRow, books
    <2>4. CASE DeployCreate(k) \/ ClaimCheck(k) \/ ClaimFull(k)
      <3>1. work[k].h \in Deploys \cup Claims \cup Mints /\ work[k].h \in Hashes
        BY <2>1, <2>4, Handler DEF DeployCreate, ClaimCheck, ClaimFull, Enter, At, HandlerOK, Hashes
      <3>2. /\ bt' = bt /\ bal' = bal
            /\ op' = op \/ Mark(work[k].h, "matched") \/ Mark(work[k].h, "refused")
        BY <2>4 DEF DeployCreate, ClaimCheck, ClaimFull, books
      <3>. QED  BY <1>3, <2>1, <3>1, <3>2
    <2>. QED  BY <1>5, <2>2, <2>3, <2>4 DEF Claim
  <1>6. ASSUME NEW k \in Procs, Match(k)  PROVE Same \/ T!TokensNext
    <2>1. CASE MemMatch(k)
      <3>. DEFINE p == work[k].h
                  r == Tx[p].for
      <3>1. /\ work[k].pc = "memory" /\ Settle(k, r) /\ bt[r].status \in Open
            /\ op[r] \in {"init", "valid"}
        BY <2>1 DEF MemMatch, Enter, At, Unmatched
      <3>2. k \in Chains => r \in Crosses /\ RowOK(r)
        <4>1. k \in Chains => p \in Overs
          BY <3>1, Handler DEF HandlerOK, SettlePc
        <4>. QED  BY <4>1, LedgerAssumption DEF LedgerInv, Rows
      <3>3. bt[r].status # "none" /\ (k \in Chains => op[r] = "valid")
        BY <3>1, <3>2 DEF RowOK, Open
      <3>. QED  BY <3>1, <3>3, SettleApplies
    <2>2. CASE DbSettle(k) /\ ~(work[k].named /\ work[k].h \in Overs)
      <3>. DEFINE p == work[k].h
                  r == Tx[p].for
      <3>1. work[k].pc = "settle" /\ Settle(k, r)
        BY <2>2 DEF DbSettle, At
      <3>2. bt[r].status # "none" /\ (k \in Chains => op[r] = "valid")
        BY <2>2, <3>1, Handler DEF HandlerOK, SettlePc
      <3>. QED  BY <3>1, <3>2, SettleApplies
    <2>3. CASE DbSettle(k) /\ work[k].named /\ work[k].h \in Overs
      BY <1>1, <2>3 DEF DbSettle
    <2>4. CASE MemMiss(k) \/ ByTarget(k) \/ ByFeatures(k)
      BY <1>1, <2>4 DEF MemMiss, ByTarget, ByFeatures, books
    <2>. QED  BY <1>6, <2>1, <2>2, <2>3, <2>4 DEF Match
  <1>7. ASSUME NEW c \in Chains, Book(c)  PROVE Same \/ T!TokensNext
    <2>1. CASE CrossTake(c) \/ MovePay(c)
      BY <2>1, CrossTakeApplies, MovePayApplies
    <2>2. CASE Select(c) \/ NextTransfer(c)
      BY <1>1, <2>2 DEF Select, NextTransfer, books
    <2>3. CASE CrossCheck(c) \/ MoveCheck(c)
      <3>1. c \in Procs /\ c \notin Workers /\ work[c].h \in Hashes /\ Running(c)
        BY <2>3, Handler
        DEF Procs, CrossCheck, MoveCheck, Enter, At, HandlerOK, Running, Hashes, Booked
      <3>2. bt' = bt /\ bal' = bal /\ (op' = op \/ Mark(work[c].h, "refused"))
        BY <2>3 DEF CrossCheck, MoveCheck, books
      <3>. QED  BY <1>3, <3>1, <3>2
    <2>. QED  BY <1>7, <2>1, <2>2, <2>3 DEF Book
  <1>8. ASSUME NEW r \in Rows, MakerEnds(r)  PROVE Same
    <2>1. bt[r].status = "pending" /\ bal' = bal /\ op' = op
      BY <1>8 DEF MakerEnds, LedgerInv, RowOK
    <2>2. \A q \in Rows : bt'[q].status = "none" <=> bt[q].status = "none"
      <3>1. bt'[r].status # "none" /\ \A q \in Rows \ {r} : bt'[q] = bt[q]
        BY <1>8, <2>1 DEF MakerEnds, LedgerInv, TypeOK
      <3>. QED  BY <2>1, <3>1
    <2>. QED  BY <2>1, <2>2, SameApplied DEF Same
  <1>9. \/ UNCHANGED <<bt, bal, op>>
        \/ \E h \in Hashes : Insert(h)
        \/ \E k \in Workers : Claim(k)
        \/ \E k \in Procs : Match(k) \/ Refuse(k)
        \/ \E c \in Chains : Book(c)
        \/ \E r \in Rows : MakerEnds(r)
    <2>1. CASE UNCHANGED vars
      BY <2>1 DEF vars, books
    <2>2. CASE Next
      BY <2>2 DEF Next, Expire, Begin, Deliver, Poll, FromCache, Fails, SettleFails, MoveFails,
         MakerPays, BookKeeping, Crash, books
    <2>. QED  BY <2>1, <2>2
  <1>. QED  BY <1>1, <1>2, <1>4, <1>5, <1>6, <1>7, <1>8, <1>9

\* The service implements Tokens: every claim, cross, crossover and move is
\* applied to the balances once, as a whole and never beyond a balance, and a
\* crossover only after its cross.
THEOREM Implements == Spec => AppliedOnce
  <1>1. ASSUME Init  PROVE T!TokensInit
    <2>1. \A q \in Rows : bt[q].status = "none"
      BY <1>1 DEF Init, NoRow
    <2>2. \A x \in Crosses \cup Moves : op[x] # "matched"
      BY <1>1 DEF Init, Hashes, Booked
    <2>3. Applied = {}
      BY <2>1, <2>2 DEF Applied, Taken, Rows
    <2>. QED  BY <1>1, <2>3 DEF Init, T!TokensInit
  <1>2. LedgerInv /\ [Next]_vars => [T!TokensNext]_<<bal, Applied>>
    BY NextApplies DEF Same
  <1>. QED  BY <1>1, <1>2, Invariant, PTL DEF Spec, AppliedOnce, T!TokensSpec

-----------------------------------------------------------------------------
(* Sums over finite sets.                                                   *)

Some(s) == CHOOSE x \in s : TRUE

\* What a sum over S adds up, one of its elements after the other.
IsSum(g, f, S) == g = [s \in SUBSET S |-> IF s = {} THEN 0 ELSE f[Some(s)] + g[s \ {Some(s)}]]
Sum(f, S) == (CHOOSE g : IsSum(g, f, S))[S]

\* The sum over every subset of S, whatever the order.
Additive(a, f, S) ==
  /\ a \in [SUBSET S -> Int] /\ a[{}] = 0 /\ \A x \in S : f[x] \in Int
  /\ \A t \in SUBSET S, x \in S : x \notin t => a[t \cup {x}] = a[t] + f[x]

\* A set of subsets of a finite set has a smallest one.
LEMMA Smallest ==
  ASSUME NEW S, IsFiniteSet(S), NEW Q, Q \subseteq SUBSET S, Q # {}
  PROVE  \E D \in Q : \A E \in Q : E \subseteq D => E = D
  <1>. DEFINE R == StrictSubsetOrdering(S)
  <1>1. IsWellFoundedOn(R, SUBSET S)
    BY FS_StrictSubsetOrderingWellFounded, FS_FiniteSubsetsOfFinite
  <1>2. \A D, E \in SUBSET S : E \subseteq D /\ E # D => <<E, D>> \in R
    BY DEF StrictSubsetOrdering
  <1>. HIDE DEF R
  <1>3. PICK D \in Q : \A E \in Q : <<E, D>> \notin R
    BY <1>1, WFMin
  <1>. QED  BY <1>2, <1>3

\* The sums of integers over the subsets of a finite set exist.
LEMMA AdditiveExists ==
  ASSUME NEW S, IsFiniteSet(S), NEW f, \A x \in S : f[x] \in Int
  PROVE  \E a : Additive(a, f, S)
  <1>. DEFINE Q == {D \in SUBSET S : ~\E a : Additive(a, f, D)}
  <1>1. SUFFICES ASSUME Q # {} PROVE FALSE
    OBVIOUS
  <1>. HIDE DEF Q
  <1>2. PICK D \in Q : \A E \in Q : E \subseteq D => E = D
    <2>1. Q \subseteq SUBSET S
      BY DEF Q
    <2>. QED  BY <1>1, <2>1, Smallest
  <1>. USE DEF Q
  <1>3. D # {}
    <2>1. Additive([s \in {{}} |-> 0], f, {})
      BY DEF Additive
    <2>. QED  BY <1>2, <2>1
  <1>4. PICK x \in D : TRUE
    BY <1>3
  <1>. DEFINE E == D \ {x}
  <1>5. PICK a : Additive(a, f, E)
    BY <1>2, <1>4
  <1>. DEFINE b == [s \in SUBSET D |-> IF x \in s THEN a[s \ {x}] + f[x] ELSE a[s]]
  <1>6. /\ a \in [SUBSET E -> Int] /\ a[{}] = 0 /\ f[x] \in Int
        /\ \A t \in SUBSET E, y \in E : y \notin t => a[t \cup {y}] = a[t] + f[y]
    BY <1>5 DEF Additive
  <1>7. b \in [SUBSET D -> Int] /\ b[{}] = 0
    <2>1. \A s \in SUBSET D : s \ {x} \in SUBSET E /\ (x \notin s => s \in SUBSET E)
      OBVIOUS
    <2>. HIDE DEF E
    <2>. QED  BY <1>6, <2>1
  <1>8. ASSUME NEW t \in SUBSET D, NEW y \in D, y \notin t PROVE b[t \cup {y}] = b[t] + f[y]
    <2>1. f[y] \in Int /\ t \cup {y} \in SUBSET D
      BY <1>2
    <2>2. CASE y = x
      <3>1. (t \cup {x}) \ {x} = t /\ x \notin t
        BY <1>8, <2>2
      <3>. QED  BY <2>1, <2>2, <3>1
    <2>3. CASE y # x /\ x \in t
      <3>1. (t \cup {y}) \ {x} = (t \ {x}) \cup {y} /\ t \ {x} \in SUBSET E /\ y \in E /\ y \notin t \ {x}
        BY <1>8, <2>3
      <3>2. a[(t \ {x}) \cup {y}] = a[t \ {x}] + f[y] /\ a[t \ {x}] \in Int
        BY <1>6, <3>1
      <3>3. b[t \cup {y}] = a[(t \ {x}) \cup {y}] + f[x] /\ b[t] = a[t \ {x}] + f[x]
        BY <2>1, <2>3, <3>1
      <3>. QED  BY <1>6, <2>1, <3>2, <3>3
    <2>4. CASE y # x /\ x \notin t
      <3>1. t \in SUBSET E /\ y \in E /\ x \notin t \cup {y}
        BY <2>4
      <3>. QED  BY <1>6, <1>8, <2>1, <2>4, <3>1
    <2>. QED  BY <2>2, <2>3, <2>4
  <1>9. Additive(b, f, D)
    BY <1>2, <1>7, <1>8 DEF Additive
  <1>. QED  BY <1>2, <1>9

\* Whatever adds up one after the other gives these sums, ...
LEMMA SumsAgree ==
  ASSUME NEW S, IsFiniteSet(S), NEW f, NEW a, Additive(a, f, S), NEW g, IsSum(g, f, S)
  PROVE  g[S] = a[S]
  <1>0. \A s \in SUBSET S : g[s] = IF s = {} THEN 0 ELSE f[Some(s)] + g[s \ {Some(s)}]
    BY DEF IsSum
  <1>. DEFINE Q == {s \in SUBSET S : g[s] # a[s]}
  <1>1. SUFFICES ASSUME Q # {} PROVE FALSE
    OBVIOUS
  <1>. HIDE DEF Q
  <1>2. PICK s \in Q : \A t \in Q : t \subseteq s => t = s
    <2>1. Q \subseteq SUBSET S
      BY DEF Q
    <2>. QED  BY <1>1, <2>1, Smallest
  <1>. USE DEF Q
  <1>3. s # {}
    BY <1>2, <1>0 DEF Additive
  <1>4. Some(s) \in s
    BY <1>3 DEF Some
  <1>. DEFINE t == s \ {Some(s)}
  <1>5. t \in SUBSET S /\ Some(s) \in S /\ Some(s) \notin t /\ s = t \cup {Some(s)}
    BY <1>4
  <1>6. g[t] = a[t]
    BY <1>2, <1>4, <1>5
  <1>7. a[s] = a[t] + f[Some(s)] /\ g[s] = f[Some(s)] + g[t]
    BY <1>0, <1>3, <1>5 DEF Additive
  <1>8. a[t] \in Int /\ f[Some(s)] \in Int /\ g[s] # a[s]
    BY <1>2, <1>5 DEF Additive
  <1>. QED  BY <1>2, <1>6, <1>7, <1>8

\* ... and so do they themselves: ...
LEMMA SumRuns ==
  ASSUME NEW S, NEW f, NEW a, Additive(a, f, S)
  PROVE  IsSum(a, f, S)
  <1>1. \A s \in SUBSET S : s # {} => Some(s) \in s
    BY DEF Some
  <1>2. ASSUME NEW s \in SUBSET S PROVE a[s] = IF s = {} THEN 0 ELSE f[Some(s)] + a[s \ {Some(s)}]
    <2>1. CASE s = {}
      BY <2>1 DEF Additive
    <2>2. CASE s # {}
      <3>. DEFINE t == s \ {Some(s)}
      <3>1. t \in SUBSET S /\ Some(s) \in S /\ Some(s) \notin t /\ s = t \cup {Some(s)}
        BY <1>1, <2>2
      <3>2. a[s] = a[t] + f[Some(s)] /\ a[t] \in Int /\ f[Some(s)] \in Int
        BY <3>1 DEF Additive
      <3>. QED  BY <2>2, <3>2
    <2>. QED  BY <2>1, <2>2
  <1>. QED  BY <1>2 DEF IsSum, Additive

\* ... they are the sum.
LEMMA SumIs ==
  ASSUME NEW S, IsFiniteSet(S), NEW f, NEW a, Additive(a, f, S)
  PROVE  Sum(f, S) = a[S] /\ Sum(f, S) \in Int
  <1>1. IsSum(a, f, S)
    BY SumRuns
  <1>4. PICK g : IsSum(g, f, S) /\ Sum(f, S) = g[S]
    BY <1>1 DEF Sum
  <1>6. g[S] = a[S]
    BY <1>4, SumsAgree
  <1>7. a[S] \in Int
    BY DEF Additive
  <1>. QED  BY <1>4, <1>6, <1>7

\* The sum of nothing, ...
LEMMA SumEmpty == ASSUME NEW f PROVE Sum(f, {}) = 0
  <1>1. Additive([s \in {{}} |-> 0], f, {})
    BY DEF Additive
  <1>. QED  BY <1>1, SumIs, FS_EmptySet

LEMMA SumZero ==
  ASSUME NEW S, IsFiniteSet(S), NEW f, \A x \in S : f[x] = 0
  PROVE  Sum(f, S) = 0
  <1>1. Additive([s \in SUBSET S |-> 0], f, S)
    BY DEF Additive
  <1>. QED  BY <1>1, SumIs

\* Numbers that can be added up.
Summable(f, S) == IsFiniteSet(S) /\ \A x \in S : f[x] \in Int

\* ... of one more element, ...
LEMMA SumAdd ==
  ASSUME NEW f, NEW S, NEW x, x \notin S, Summable(f, S \cup {x})
  PROVE  Sum(f, S \cup {x}) = Sum(f, S) + f[x] /\ Sum(f, S) \in Int /\ f[x] \in Int
  <1>. DEFINE D == S \cup {x}
  <1>1. IsFiniteSet(D) /\ IsFiniteSet(S) /\ f[x] \in Int
    BY FS_Subset DEF Summable
  <1>2. PICK a : Additive(a, f, D)
    BY <1>1, AdditiveExists DEF Summable
  <1>3. Additive([s \in SUBSET S |-> a[s]], f, S)
    BY <1>2 DEF Additive
  <1>4. Sum(f, D) = a[D]
    BY <1>1, <1>2, SumIs
  <1>5. Sum(f, S) = a[S] /\ Sum(f, S) \in Int
    BY <1>1, <1>3, SumIs
  <1>6. a[D] = a[S] + f[x]
    BY <1>2 DEF Additive
  <1>. QED  BY <1>1, <1>4, <1>5, <1>6

\* ... and of the same numbers, whatever else the functions say.
LEMMA SumSame ==
  ASSUME NEW f, NEW g, NEW S, Summable(f, S), \A x \in S : g[x] = f[x]
  PROVE  Sum(g, S) = Sum(f, S)
  <1>1. PICK a : Additive(a, f, S)
    BY AdditiveExists DEF Summable
  <1>2. Additive(a, g, S)
    BY <1>1 DEF Additive
  <1>. QED  BY <1>1, <1>2, SumIs DEF Summable

\* One number of them changes.
LEMMA SumChange ==
  ASSUME NEW f, NEW g, NEW S, Summable(f, S), NEW x \in S, NEW n \in Int,
         \A y \in S : g[y] = f[y] + (IF y = x THEN n ELSE 0)
  PROVE  Sum(g, S) = Sum(f, S) + n /\ Summable(g, S) /\ Sum(f, S) \in Int
  <1>. DEFINE D == S \ {x}
  <1>1. x \notin D /\ D \cup {x} = S
    OBVIOUS
  <1>2. (\A y \in D : f[y] \in Int /\ g[y] = f[y]) /\ f[x] \in Int /\ g[x] = f[x] + n
    BY DEF Summable
  <1>3. Summable(g, S) /\ Summable(f, D)
    <2>1. \A y \in S : g[y] \in Int
      BY DEF Summable
    <2>. QED  BY <2>1, FS_RemoveElement DEF Summable
  <1>. HIDE DEF D
  <1>4. Sum(f, S) = Sum(f, D) + f[x] /\ Sum(f, D) \in Int
    BY <1>1, SumAdd
  <1>5. Sum(g, S) = Sum(g, D) + g[x]
    BY <1>1, <1>3, SumAdd
  <1>6. Sum(g, D) = Sum(f, D)
    BY <1>2, <1>3, SumSame
  <1>. QED  BY <1>2, <1>3, <1>4, <1>5, <1>6

-----------------------------------------------------------------------------
(* The books balance.                                                       *)

AmountsOf == [h \in Hashes |-> Tx[h].amt]
Minted    == {c \in Claims : bt[c].status # "none"}
InFlight  == {x \in Taken : op[x] # "matched"}

\* What the service adds up are these sums.
LEMMA TotalSum ==
  ASSUME NEW S, IsFiniteSet(S), NEW f, \A x \in S : f[x] \in Int, \A x \in S : f[x] = Tx[x].amt
  PROVE  Total(S) = Sum(f, S)
  <1>. DEFINE IsTotal(g) == g = [s \in SUBSET S |-> IF s = {} THEN 0 ELSE Tx[Some(s)].amt + g[s \ {Some(s)}]]
  <1>1. \A s \in SUBSET S : s # {} => Some(s) \in S
    BY DEF Some
  <1>2. PICK a : Additive(a, f, S)
    BY AdditiveExists
  <1>3. IsSum(a, f, S)
    BY <1>2, SumRuns
  <1>4. IsTotal(a)
    BY <1>1, <1>3 DEF IsSum
  <1>5. Total(S) = (CHOOSE g : IsTotal(g))[S]
    BY DEF Total, MapThenSumSet, MapThenFoldSet, Some
  <1>. HIDE DEF IsTotal
  <1>6. PICK g : IsTotal(g) /\ Total(S) = g[S]
    BY <1>4, <1>5
  <1>7. IsSum(g, f, S)
    BY <1>1, <1>6 DEF IsTotal, IsSum
  <1>8. g[S] = a[S]
    BY <1>2, <1>7, SumsAgree
  <1>. QED  BY <1>2, <1>6, <1>8, SumIs

LEMMA TotalIs ==
  ASSUME NEW S, IsFiniteSet(S), S \subseteq Hashes
  PROVE  Total(S) = Sum(AmountsOf, S)
  <1>1. \A h \in Hashes : Tx[h].amt \in Int
    BY LedgerAssumption DEF Fields
  <1>2. \A x \in S : AmountsOf[x] \in Int /\ AmountsOf[x] = Tx[x].amt
    BY <1>1 DEF AmountsOf
  <1>. QED  BY <1>2, TotalSum

\* A claim is minted when its row is opened, and the row stays.
LEMMA MintStep ==
  ASSUME LedgerInv, [Next]_vars
  PROVE  \/ minted' = minted /\ Minted' = Minted
         \/ \E c \in Claims \ Minted : Minted' = Minted \cup {c} /\ minted' = minted + Tx[c].amt
  <1>0. bt \in [Rows -> [status: Open \cup {"none", "success"}, target: Pays \cup {None}]]
    BY DEF LedgerInv, TypeOK
  <1>1. CASE minted' = minted /\ bt' = bt
    BY <1>1 DEF Minted
  <1>2. ASSUME NEW k \in Workers, ClaimMint(k), ~work[k].named, bt[work[k].h].status = "none"
        PROVE  \E c \in Claims \ Minted : Minted' = Minted \cup {c} /\ minted' = minted + Tx[c].amt
    <2>. DEFINE c == work[k].h
    <2>1. /\ bt' = [bt EXCEPT ![c] = [status |-> "pending", target |-> None]]
          /\ minted' = minted + Tx[c].amt
      BY <1>2 DEF ClaimMint, NewRow
    <2>2. c \in Claims /\ c \in Rows
      BY <1>2, Handler DEF Procs, ClaimMint, At, HandlerOK, Rows
    <2>3. bt'[c].status = "pending" /\ \A d \in Claims \ {c} : bt'[d] = bt[d]
      BY <1>0, <2>1, <2>2 DEF Rows
    <2>4. Minted' = Minted \cup {c} /\ c \notin Minted
      BY <1>2, <2>2, <2>3 DEF Minted
    <2>. QED  BY <2>1, <2>2, <2>4
  <1>3. ASSUME NEW r \in Rows, NEW w, bt' = [bt EXCEPT ![r] = w], minted' = minted,
               r \in Crosses \/ (bt[r].status # "none" /\ w.status # "none")
        PROVE  minted' = minted /\ Minted' = Minted
    <2>1. \A d \in Claims : bt'[d] = bt[d] \/ (bt'[d].status # "none" /\ bt[d].status # "none")
      BY <1>0, <1>3, LedgerAssumption DEF Rows, Booked
    <2>. QED  BY <1>3, <2>1 DEF Minted
  <1>4. ASSUME NEW c \in Chains, CrossTake(c) PROVE minted' = minted /\ Minted' = Minted
    <2>1. work[c].h \in Crosses /\ work[c].h \in Rows
      BY <1>4, Handler DEF Procs, CrossTake, At, HandlerOK, Rows
    <2>. QED  BY <1>3, <1>4, <2>1 DEF CrossTake, NewRow
  <1>5. ASSUME NEW k \in Procs, NEW r \in Rows, Settle(k, r), bt[r].status # "none", minted' = minted
        PROVE  minted' = minted /\ Minted' = Minted
    <2>. DEFINE w == [status |-> IF work[k].h \in Failed THEN "crash" ELSE "success", target |-> work[k].h]
    <2>1. bt' = [bt EXCEPT ![r] = w] /\ w.status # "none"
      BY <1>5 DEF Settle
    <2>. HIDE DEF w
    <2>. QED  BY <1>3, <1>5, <2>1
  <1>6. ASSUME NEW k \in Procs, MemMatch(k) \/ DbSettle(k) PROVE minted' = minted /\ Minted' = Minted
    <2>. DEFINE r == Tx[work[k].h].for
    <2>1. CASE minted' = minted /\ bt' = bt
      BY <1>1, <2>1 DEF Minted
    <2>2. CASE Settle(k, r)
      <3>1. /\ minted' = minted
            /\ (work[k].pc = "memory" /\ bt[r].status \in Open) \/ work[k].pc = "settle"
        BY <1>6 DEF MemMatch, DbSettle, Enter, At
      <3>2. work[k].pc = "settle" => bt[r].status # "none"
        BY Handler DEF HandlerOK, SettlePc
      <3>3. r \in Rows
        <4>1. work[k].h \in Pays
          BY <3>1, Handler DEF HandlerOK, SettlePc, Pays
        <4>. QED  BY <4>1, LedgerAssumption DEF Pays, Rows
      <3>. QED  BY <1>5, <2>2, <3>1, <3>2, <3>3 DEF Open
    <2>. QED  BY <1>6, <2>1, <2>2 DEF MemMatch, DbSettle
  <1>7. ASSUME NEW r \in Rows, MakerEnds(r) PROVE minted' = minted /\ Minted' = Minted
    <2>1. bt[r].status = "pending" /\ minted' = minted
      BY <1>7 DEF MakerEnds, LedgerInv, RowOK
    <2>2. CASE bt' = bt
      BY <2>1, <2>2 DEF Minted
    <2>3. CASE bt' = [bt EXCEPT ![r] = [status |-> "paid", target |-> maker[r]]]
      BY <1>3, <2>1, <2>3
    <2>4. CASE bt' = [bt EXCEPT ![r].status = "crash"]
      <3>1. bt' = [bt EXCEPT ![r] = [bt[r] EXCEPT !.status = "crash"]]
        BY <2>4
      <3>2. bt[r] \in [status: Open \cup {"none", "success"}, target: Pays \cup {None}]
        BY <1>0
      <3>3. [bt[r] EXCEPT !.status = "crash"].status = "crash"
        BY <3>2
      <3>. QED  BY <1>3, <2>1, <3>1, <3>3
    <2>. QED  BY <1>7, <2>2, <2>3, <2>4 DEF MakerEnds
  <1>8. \/ minted' = minted /\ bt' = bt
        \/ \E k \in Workers : ClaimMint(k) /\ ~work[k].named /\ bt[work[k].h].status = "none"
        \/ \E c \in Chains : CrossTake(c)
        \/ \E k \in Procs : MemMatch(k) \/ DbSettle(k)
        \/ \E r \in Rows : MakerEnds(r)
    <2>1. CASE UNCHANGED vars
      BY <2>1 DEF vars, books
    <2>2. ASSUME NEW k \in Workers, Claim(k)
          PROVE  \/ minted' = minted /\ bt' = bt
                 \/ ClaimMint(k) /\ ~work[k].named /\ bt[work[k].h].status = "none"
      BY <2>2 DEF Claim, DeployCheck, DeployCreate, ClaimCheck, ClaimFull, ClaimRow, ClaimMint, books
    <2>3. ASSUME NEW k \in Procs, Match(k) \/ Refuse(k)
          PROVE  (minted' = minted /\ bt' = bt) \/ MemMatch(k) \/ DbSettle(k)
      BY <2>3 DEF Match, Refuse, MemMiss, ByTarget, ByFeatures, books
    <2>4. ASSUME NEW c \in Chains, Book(c)
          PROVE  (minted' = minted /\ bt' = bt) \/ CrossTake(c)
      BY <2>4 DEF Book, Select, NextTransfer, CrossCheck, MoveCheck, MovePay, books
    <2>5. CASE Next
      BY <2>2, <2>3, <2>4, <2>5 DEF Next, Insert, Expire, Begin, Deliver, Poll, FromCache, Fails, SettleFails,
         MoveFails, MakerPays, BookKeeping, Crash, books
    <2>. QED  BY <2>1, <2>5
  <1>. QED  BY <1>1, <1>2, <1>4, <1>6, <1>7, <1>8

\* What Conserved says, in these sums.
Even ==
  /\ minted = Sum(AmountsOf, Minted)
  /\ minted = Sum(bal, Accounts) + Sum(AmountsOf, InFlight)

LEMMA Balance == Conserved <=> Even
  <1>1. Minted \subseteq Hashes /\ InFlight \subseteq Hashes
    BY DEF Minted, InFlight, Taken, Hashes, Booked
  <1>2. IsFiniteSet(Minted) /\ IsFiniteSet(InFlight)
    BY <1>1, FiniteAssumption, FS_Subset
  <1>3. Total(Minted) = Sum(AmountsOf, Minted) /\ Total(InFlight) = Sum(AmountsOf, InFlight)
    BY <1>1, <1>2, TotalIs
  <1>4. MapThenSumSet(LAMBDA a : bal[a], Accounts) = Sum(bal, Accounts)
    BY DEF MapThenSumSet, MapThenFoldSet, Sum, IsSum, Some
  <1>5. Conserved <=> minted = Total(Minted) /\ minted = MapThenSumSet(LAMBDA a : bal[a], Accounts) + Total(InFlight)
    BY DEF Conserved, Minted, InFlight
  <1>6. Conserved <=> minted = Total(Minted) /\ minted = Sum(bal, Accounts) + Total(InFlight)
    BY <1>4, <1>5
  <1>. QED  BY <1>3, <1>6 DEF Even

\* One more transfer is added up.
LEMMA SumJoins ==
  ASSUME NEW S, S \subseteq Hashes, NEW h \in Hashes \ S
  PROVE  /\ Sum(AmountsOf, S \cup {h}) = Sum(AmountsOf, S) + Tx[h].amt
         /\ Sum(AmountsOf, S) \in Int /\ Tx[h].amt \in Int
  <1>1. \A g \in Hashes : AmountsOf[g] \in Int /\ AmountsOf[g] = Tx[g].amt
    BY LedgerAssumption DEF AmountsOf, Fields
  <1>2. Summable(AmountsOf, S \cup {h})
    <2>1. S \cup {h} \subseteq Hashes
      OBVIOUS
    <2>2. IsFiniteSet(S \cup {h})
      BY <2>1, FiniteAssumption, FS_Subset
    <2>. QED  BY <1>1, <2>1, <2>2 DEF Summable
  <1>3. /\ Sum(AmountsOf, S \cup {h}) = Sum(AmountsOf, S) + AmountsOf[h]
        /\ Sum(AmountsOf, S) \in Int /\ AmountsOf[h] \in Int
    <2>1. h \notin S
      OBVIOUS
    <2>. QED  BY <1>2, <2>1, SumAdd
  <1>. QED  BY <1>1, <1>3

LEMMA SumInt ==
  ASSUME NEW S, S \subseteq Hashes
  PROVE  Sum(AmountsOf, S) \in Int
  <1>1. \A g \in Hashes : AmountsOf[g] \in Int
    BY LedgerAssumption DEF AmountsOf, Fields
  <1>2. IsFiniteSet(S) /\ \A x \in S : AmountsOf[x] \in Int
    BY <1>1, FiniteAssumption, FS_Subset
  <1>3. PICK a : Additive(a, AmountsOf, S)
    BY <1>2, AdditiveExists
  <1>. QED  BY <1>2, <1>3, SumIs

\* m flows into account a, and n out of b.
Flown(a, m, b, n) ==
  \A c \in Accounts : bal'[c] = bal[c] + ((IF c = a THEN m ELSE 0) - (IF c = b THEN n ELSE 0))

LEMMA HeldFlow ==
  ASSUME LedgerInv, NEW a \in Accounts, NEW b \in Accounts, NEW m \in Int, NEW n \in Int, Flown(a, m, b, n)
  PROVE  Sum(bal', Accounts) = Sum(bal, Accounts) + m - n /\ Sum(bal, Accounts) \in Int
  <1>1. \A c \in Accounts : bal[c] \in Int
    BY DEF LedgerInv, TypeOK
  <1>. DEFINE mid == [c \in Accounts |-> bal[c] + (IF c = a THEN m ELSE 0)]
  <1>2. \A c \in Accounts : mid[c] = bal[c] + (IF c = a THEN m ELSE 0)
    OBVIOUS
  <1>3. \A c \in Accounts : bal'[c] = mid[c] + (IF c = b THEN 0 - n ELSE 0)
    BY <1>1 DEF Flown
  <1>4. Summable(bal, Accounts) /\ 0 - n \in Int
    BY <1>1, FiniteAssumption DEF Summable
  <1>. HIDE DEF mid
  <1>5. Sum(mid, Accounts) = Sum(bal, Accounts) + m /\ Summable(mid, Accounts) /\ Sum(bal, Accounts) \in Int
    BY <1>2, <1>4, SumChange
  <1>6. Sum(bal', Accounts) = Sum(mid, Accounts) + (0 - n)
    BY <1>3, <1>4, <1>5, SumChange
  <1>. QED  BY <1>5, <1>6

\* In each step the three tables move together.
LEMMA EvenStep ==
  ASSUME LedgerInv, Even, [Next]_vars
  PROVE  Even'
  <1>. DEFINE claimed == Sum(AmountsOf, Minted)
              held    == Sum(bal, Accounts)
              flown   == Sum(AmountsOf, InFlight)
  <1>1. Minted \subseteq Hashes /\ InFlight \subseteq Hashes /\ Minted' \subseteq Hashes /\ InFlight' \subseteq Hashes
    BY DEF Minted, InFlight, Taken, Hashes, Booked
  <1>2. minted = claimed /\ minted = held + flown
    BY DEF Even
  <1>3. SUFFICES minted' = Sum(AmountsOf, Minted') /\ minted' = Sum(bal', Accounts) + Sum(AmountsOf, InFlight')
    <2>1. Sum(AmountsOf, Minted)' = Sum(AmountsOf, Minted') /\ Sum(AmountsOf, InFlight)' = Sum(AmountsOf, InFlight')
      BY DEF Sum, IsSum, AmountsOf, Some
    <2>2. Sum(bal, Accounts)' = Sum(bal', Accounts)
      BY DEF Sum, IsSum, Some
    <2>. QED  BY <2>1, <2>2 DEF Even
  <1>. HIDE DEF claimed, held, flown
  <1>4. \/ minted' = minted /\ Minted' = Minted
        \/ \E c \in Claims \ Minted : Minted' = Minted \cup {c} /\ minted' = minted + Tx[c].amt
    BY MintStep
  <1>5. /\ \A c \in Claims : c \in Minted <=> <<c, "source">> \in Applied
        /\ \A x \in Crosses : bt[x].status # "none" <=> <<x, "source">> \in Applied
        /\ \A x \in Crosses : op[x] = "matched" <=> <<x, "target">> \in Applied
        /\ \A c \in Claims : c \in Minted' <=> <<c, "source">> \in Applied'
        /\ \A x \in Crosses : bt'[x].status # "none" <=> <<x, "source">> \in Applied'
        /\ \A x \in Crosses : op'[x] = "matched" <=> <<x, "target">> \in Applied'
    BY LedgerAssumption DEF Minted, Applied, Taken, Booked
  <1>6. /\ \A x : x \in InFlight <=> x \in Crosses /\ <<x, "source">> \in Applied /\ <<x, "target">> \notin Applied
        /\ \A x : x \in InFlight' <=> x \in Crosses /\ <<x, "source">> \in Applied' /\ <<x, "target">> \notin Applied'
        /\ Minted \subseteq Claims /\ Minted' \subseteq Claims
    BY <1>5 DEF InFlight, Taken, Minted
  <1>7. CASE Same
    <2>1. bal' = bal /\ Applied' = Applied
      BY <1>7 DEF Same
    <2>2. Minted' = Minted /\ InFlight' = InFlight
      BY <1>5, <1>6, <2>1
    <2>. QED  BY <1>2, <1>4, <2>1, <2>2 DEF claimed, held, flown
  <1>8. CASE T!TokensNext
    <2>1. PICK o \in Operations :
            /\ o \notin Applied /\ AfterOf[o] \subseteq Applied /\ Applied' = Applied \cup {o}
            /\ bal' = [a \in Accounts |-> bal[a] + T!Flow(o, a)]
      BY <1>8 DEF T!TokensNext, T!Apply
    <2>2. Crosses \cap Claims = {} /\ Moves \cap Claims = {} /\ Crosses \cap Moves = {}
      BY LedgerAssumption DEF Booked
    <2>3. ASSUME NEW c \in Claims, o = <<c, "source">>
          PROVE  /\ minted' = Sum(AmountsOf, Minted')
                 /\ minted' = Sum(bal', Accounts) + Sum(AmountsOf, InFlight')
      <3>. DEFINE a == <<Tx[c].who, Tx[c].dest>>
      <3>1. c \notin Minted /\ Minted' = Minted \cup {c} /\ InFlight' = InFlight
        BY <1>5, <1>6, <2>1, <2>2, <2>3
      <3>2. minted' = minted + Tx[c].amt
        BY <1>4, <3>1
      <3>3. Sum(AmountsOf, Minted') = claimed + Tx[c].amt /\ claimed \in Int /\ Tx[c].amt \in Int
        BY <1>1, <3>1, SumJoins DEF Hashes, claimed
      <3>4. Sum(bal', Accounts) = held + Tx[c].amt - 0 /\ held \in Int
        <4>1. a \in Accounts
          BY LedgerAssumption DEF Fields, Accounts, Hashes
        <4>2. \A b \in Accounts : T!Flow(o, b) = (IF b = a THEN Tx[c].amt ELSE 0) - 0
          BY <2>3, Flows
        <4>3. Flown(a, Tx[c].amt, a, 0)
          BY <2>1, <4>2 DEF Flown
        <4>. QED  BY <3>3, <4>1, <4>3, HeldFlow DEF held
      <3>5. flown \in Int
        BY <1>1, <3>1, SumInt DEF flown
      <3>. QED  BY <1>2, <3>1, <3>2, <3>3, <3>4, <3>5 DEF flown
    <2>4. ASSUME NEW x \in Crosses, o = <<x, "source">>
          PROVE  /\ minted' = Sum(AmountsOf, Minted')
                 /\ minted' = Sum(bal', Accounts) + Sum(AmountsOf, InFlight')
      <3>1. x \notin InFlight /\ InFlight' = InFlight \cup {x} /\ Minted' = Minted
        <4>1. op[x] # "matched"
          BY <1>5, <2>1, <2>4 DEF LedgerInv, RowOK, Rows
        <4>. QED  BY <1>5, <1>6, <2>1, <2>2, <2>4, <4>1
      <3>2. minted' = minted
        BY <1>4, <3>1
      <3>3. Sum(AmountsOf, InFlight') = flown + Tx[x].amt /\ flown \in Int /\ Tx[x].amt \in Int
        BY <1>1, <3>1, SumJoins DEF Hashes, Booked, flown
      <3>4. Sum(bal', Accounts) = held + 0 - Tx[x].amt /\ held \in Int
        <4>1. Account(x) \in Accounts
          BY LedgerAssumption DEF Fields, Account, Accounts, Hashes, Booked
        <4>2. \A b \in Accounts : T!Flow(o, b) = 0 - (IF b = Account(x) THEN Tx[x].amt ELSE 0)
          BY <2>4, Flows
        <4>3. Flown(Account(x), 0, Account(x), Tx[x].amt)
          BY <2>1, <4>2 DEF Flown
        <4>. QED  BY <3>3, <4>1, <4>3, HeldFlow DEF held
      <3>5. minted' = Sum(AmountsOf, Minted')
        BY <1>2, <3>1, <3>2 DEF claimed
      <3>. QED  BY <1>2, <3>2, <3>3, <3>4, <3>5
    <2>5. ASSUME NEW x \in Crosses, o = <<x, "target">>
          PROVE  /\ minted' = Sum(AmountsOf, Minted')
                 /\ minted' = Sum(bal', Accounts) + Sum(AmountsOf, InFlight')
      <3>. DEFINE a == <<Tx[x].to, Tx[x].dest>>
      <3>1. x \notin InFlight' /\ InFlight = InFlight' \cup {x} /\ Minted' = Minted
        <4>1. <<x, "source">> \in Applied
          BY <2>1, <2>5, Flows
        <4>. QED  BY <1>5, <1>6, <2>1, <2>2, <2>5, <4>1
      <3>2. minted' = minted
        BY <1>4, <3>1
      <3>3. /\ flown = Sum(AmountsOf, InFlight') + Tx[x].amt
            /\ Sum(AmountsOf, InFlight') \in Int /\ Tx[x].amt \in Int
        BY <1>1, <3>1, SumJoins DEF Hashes, Booked, flown
      <3>4. Sum(bal', Accounts) = held + Tx[x].amt - 0 /\ held \in Int
        <4>1. a \in Accounts
          BY LedgerAssumption DEF Fields, Accounts, Hashes, Booked
        <4>2. \A b \in Accounts : T!Flow(o, b) = (IF b = a THEN Tx[x].amt ELSE 0) - 0
          BY <2>5, Flows
        <4>3. Flown(a, Tx[x].amt, a, 0)
          BY <2>1, <4>2 DEF Flown
        <4>. QED  BY <3>3, <4>1, <4>3, HeldFlow DEF held
      <3>5. minted' = Sum(AmountsOf, Minted')
        BY <1>2, <3>1, <3>2 DEF claimed
      <3>. QED  BY <1>2, <3>2, <3>3, <3>4, <3>5
    <2>6. ASSUME NEW v \in Moves, o = <<v, "source">>
          PROVE  /\ minted' = Sum(AmountsOf, Minted')
                 /\ minted' = Sum(bal', Accounts) + Sum(AmountsOf, InFlight')
      <3>. DEFINE a == <<Tx[v].to, Tx[v].at>>
      <3>1. InFlight' = InFlight /\ Minted' = Minted
        BY <1>5, <1>6, <2>1, <2>2, <2>6
      <3>2. minted' = minted
        BY <1>4, <3>1
      <3>3. Tx[v].amt \in Int /\ a \in Accounts /\ Account(v) \in Accounts
        BY LedgerAssumption DEF Fields, Account, Accounts, Hashes, Booked
      <3>4. Sum(bal', Accounts) = held + Tx[v].amt - Tx[v].amt /\ held \in Int
        <4>1. Flown(a, Tx[v].amt, Account(v), Tx[v].amt)
          BY <2>1, <2>6, Flows DEF Flown
        <4>. QED  BY <3>3, <4>1, HeldFlow DEF held
      <3>5. minted' = Sum(AmountsOf, Minted') /\ Sum(AmountsOf, InFlight') = flown /\ flown \in Int
        BY <1>1, <1>2, <3>1, <3>2, SumInt DEF claimed, flown
      <3>. QED  BY <1>2, <3>2, <3>3, <3>4, <3>5
    <2>7. \/ \E c \in Claims : o = <<c, "source">>
          \/ \E x \in Crosses : o = <<x, "source">> \/ o = <<x, "target">>
          \/ \E v \in Moves : o = <<v, "source">>
      BY <2>1 DEF Operations
    <2>. QED  BY <2>3, <2>4, <2>5, <2>6, <2>7
  <1>. QED  BY <1>7, <1>8, NextApplies

\* What was minted of a tick is what users hold and what is under way between chains,
\* and the sum of the claims with a row, for any amounts, crossings and moves.
THEOREM Balances == Spec => []Conserved
  <1>1. ASSUME Init PROVE Even
    <2>1. Minted = {} /\ InFlight = {} /\ minted = 0
      BY <1>1 DEF Init, NoRow, Minted, InFlight, Taken, Rows
    <2>2. Sum(bal, Accounts) = 0
      BY <1>1, FiniteAssumption, SumZero DEF Init
    <2>. QED  BY <2>1, <2>2, SumEmpty DEF Even
  <1>. QED  BY <1>1, EvenStep, Balance, Invariant, PTL DEF Spec
=============================================================================
