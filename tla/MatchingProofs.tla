--------------------------- MODULE MatchingProofs ---------------------------
(***************************************************************************)
(* Proofs about the refinery. About Matching, for any number of deposits,  *)
(* payments, handlers, deliveries and faults, deposits and payments that   *)
(* are alike included: its types, that the two tables agree, and that the  *)
(* matching implements Pairing. About Builder, for every amount, token,    *)
(* rule and chain: that the code of a deposit names the chain that is      *)
(* paid, that a payment carries the nonce of its deposit, and that it is   *)
(* not more than the deposit.                                              *)
(***************************************************************************)
EXTENDS Matching, Builder, WellFoundedInduction, TLAPS

SourcePc  == {"select", "build", "srcMark", "srcCommit"}
PaymentPc == {"lookup", "memUpdate", "memMark", "memCommit", "byTarget",
              "byFeatures", "save", "dbMark", "dbCommit"}
Creating(k) == work[k].pc \in {"srcMark", "srcCommit"} /\ ~work[k].known

\* A row names a payment of its features only, and only once it exists.
RowOK(s) ==
  /\ bt[s].status = "none" => bt[s].target = None
  /\ bt[s].target # None => Feature[bt[s].target] = Feature[s]
  /\ bt[s].status = "success" => bt[s].target # None /\ op[bt[s].target] = "matched"

\* A payment is booked only as matched, and then a row of its features is settled,
\* which names it when no other payment is alike.
SettledFor(p) ==
  \E s \in Sources : /\ bt[s].status = "success" /\ Feature[s] = Feature[p]
                     /\ Alone(p) => bt[s].target = p
PaymentOK(p) ==
  /\ op[p] \in {"absent", "init", "matched"}
  /\ op[p] = "matched" => SettledFor(p)

\* The maker's transaction holds a pending row.
MakerOK(s) == maker[s] # None => Pays[maker[s]] = s /\ bt[s].status = "pending"

\* What a handler relies on between two of its statements.
HandlerOK(k) ==
  /\ work[k].pc \in SourcePc => work[k].h \in Sources
  /\ work[k].pc \in PaymentPc => work[k].h \in Payments /\ op[work[k].h] # "absent"
  /\ work[k].upd # {} => work[k].pc \in {"srcCommit", "memCommit", "dbCommit"}
  /\ work[k].pc \in {"srcMark", "srcCommit"} => work[k].row = work[k].h
  /\ work[k].pc = "srcCommit" => work[k].upd \subseteq {work[k].h}
  /\ work[k].pc \in {"memUpdate", "memMark", "memCommit", "save", "dbMark", "dbCommit"} =>
       work[k].row \in Sources /\ Feature[work[k].row] = Feature[work[k].h]
  /\ work[k].pc \in {"memCommit", "dbCommit"} =>
       /\ work[k].upd \subseteq {work[k].h, work[k].row}
       /\ work[k].h \in work[k].upd \/ op[work[k].h] = "matched"
  /\ work[k].pc \in {"memMark", "memCommit", "save", "dbMark", "dbCommit"} =>
       bt[work[k].row].status # "none"
  /\ work[k].pc \in {"memMark", "memCommit", "dbMark", "dbCommit"} =>
       maker[work[k].row] = None
  /\ Creating(k) => bt[work[k].h].status = "none"

\* One handler at a time creates the row of a source.
OneCreator ==
  \A j, k \in Workers : Creating(j) /\ Creating(k) /\ work[j].h = work[k].h => j = k

MatchInv ==
  /\ TypeOK
  /\ \A s \in Sources : RowOK(s)
  /\ \A p \in Payments : PaymentOK(p)
  /\ \A s \in Sources : MakerOK(s)
  /\ \A k \in Workers : HandlerOK(k)
  /\ OneCreator

-----------------------------------------------------------------------------
LEMMA InitInv == Init => MatchInv
  BY MatchingAssumption DEF Init, MatchInv, TypeOK, RowOK, PaymentOK, MakerOK, HandlerOK,
     OneCreator, Creating, NoRow, Idle, HandlerState, Open, Writing, SourcePc, PaymentPc, Hashes

-----------------------------------------------------------------------------
(* Steps of one handler that write no table.                                *)

\* Such a step needs to be looked at for its handler only.
LEMMA HandlerStep ==
  ASSUME MatchInv, NEW k \in Workers, NEW r,
         work' = [work EXCEPT ![k] = r], UNCHANGED <<bt, op, maker>>,
         TypeOK', HandlerOK(k)',
         Creating(k)' => \A j \in Workers \ {k} : ~(Creating(j) /\ work[j].h = r.h)
  PROVE  MatchInv'
  <1>1. \A j \in Workers \ {k} : work'[j] = work[j]
    BY DEF MatchInv, TypeOK
  <1>2. work'[k] = r
    BY DEF MatchInv, TypeOK
  <1>3. \A s \in Sources : RowOK(s)' /\ MakerOK(s)'
    BY DEF MatchInv, RowOK, MakerOK
  <1>4. \A p \in Payments : PaymentOK(p)'
    BY DEF MatchInv, PaymentOK, SettledFor
  <1>5. \A j \in Workers : HandlerOK(j)'
    BY <1>1 DEF MatchInv, HandlerOK, Creating
  <1>6. OneCreator'
    BY <1>1, <1>2 DEF MatchInv, OneCreator, Creating
  <1>. QED  BY <1>3, <1>4, <1>5, <1>6 DEF MatchInv

\* A handler begins, with any transfer that is stored.
LEMMA BeginInv ==
  ASSUME MatchInv, NEW k \in Workers, Begin(k)
  PROVE  MatchInv'
  <1>1. PICK h \in Hashes, o \in {"init", "valid", "refused", "matched"} :
          Start(k, h, o) /\ UNCHANGED <<tables, memory, outside, faults>>
                         /\ deliveries' \in 0..MaxDeliveries
    <2>1. CASE \E h \in Hashes : Deliver(k, h)
      <3>1. deliveries' \in 0..MaxDeliveries
        BY <2>1, MatchingAssumption DEF Deliver, MatchInv, TypeOK
      <3>2. PICK h \in Hashes : Deliver(k, h)
        BY <2>1
      <3>3. op[h] \in {"init", "valid", "refused", "matched"}
        BY <3>2 DEF Deliver, Start, MatchInv, TypeOK
      <3>. QED  BY <3>1, <3>2, <3>3 DEF Deliver
    <2>2. CASE \E s \in Sources : PollSource(k, s)
      BY <2>2 DEF PollSource, counters, MatchInv, TypeOK, Hashes
    <2>3. CASE \E p \in Payments : PollPayment(k, p) \/ FromCache(k, p)
      BY <2>3 DEF PollPayment, FromCache, counters, MatchInv, TypeOK, Hashes
    <2>. QED  BY <2>1, <2>2, <2>3 DEF Begin
  <1>. DEFINE r == [Idle EXCEPT !.pc = IF h \in Sources THEN "select" ELSE "lookup",
                               !.h = h, !.op = o]
  <1>2. work' = [work EXCEPT ![k] = r] /\ op[h] # "absent"
    BY <1>1 DEF Start, Goto
  <1>3. r \in HandlerState
    BY <1>2, MatchingAssumption DEF MatchInv, TypeOK, HandlerState, Idle, Hashes
  <1>4. TypeOK'
    BY <1>1, <1>2, <1>3 DEF MatchInv, TypeOK, tables, memory, outside
  <1>5. work'[k] = r
    BY <1>2 DEF MatchInv, TypeOK
  <1>6. HandlerOK(k)' /\ ~Creating(k)'
    <2>1. /\ r.h = h /\ r.upd = {}
          /\ h \in Sources => r.pc = "select"
          /\ h \notin Sources => r.pc = "lookup" /\ h \in Payments
      BY DEF Idle, Hashes
    <2>2. op' = op
      BY <1>1 DEF tables
    <2>. HIDE DEF r
    <2>3. CASE h \in Sources
      BY <1>5, <2>1, <2>2, <2>3 DEF HandlerOK, Creating, SourcePc, PaymentPc
    <2>4. CASE h \notin Sources
      BY <1>2, <1>5, <2>1, <2>2, <2>4 DEF HandlerOK, Creating, SourcePc, PaymentPc
    <2>. QED  BY <2>3, <2>4
  <1>. QED  BY <1>1, <1>2, <1>4, <1>6, HandlerStep DEF tables, outside

\* The statements of the source handler before its COMMIT, and its ROLLBACK.
LEMMA SourceInv ==
  ASSUME MatchInv, NEW k \in Workers,
         SrcSelect(k) \/ SrcWrite(k) \/ SrcMark(k) \/ SrcFails(k)
  PROVE  MatchInv'
  <1>. DEFINE s == work[k].h
  <1>0. work[k] \in HandlerState /\ HandlerOK(k) /\ Idle \in HandlerState
    BY DEF MatchInv, TypeOK, HandlerState, Idle
  <1>i. CASE work' = [work EXCEPT ![k] = Idle] /\ UNCHANGED <<bt, op, maker>> /\ TypeOK'
    <2>1. HandlerOK(k)' /\ ~Creating(k)'
      BY <1>i DEF HandlerOK, Creating, SourcePc, PaymentPc, Idle, MatchInv, TypeOK
    <2>. QED  BY <1>i, <2>1, HandlerStep
  <1>1. CASE SrcSelect(k)
    <2>1. CASE work' = [work EXCEPT ![k] = Idle]
      BY <1>1, <2>1, <1>0, <1>i
      DEF SrcSelect, MatchInv, TypeOK, tables, memory, outside, counters
    <2>. DEFINE r == [work[k] EXCEPT !.pc = "build", !.known = bt[s].status = "pending"]
    <2>2. CASE work' = [work EXCEPT ![k] = r]
      <3>1. r \in HandlerState /\ work'[k] = r /\ work[k].pc = "select"
        BY <1>0, <1>1, <2>2 DEF HandlerState, MatchInv, TypeOK, SrcSelect
      <3>2. TypeOK'
        BY <1>1, <2>2, <3>1 DEF SrcSelect, MatchInv, TypeOK, tables, memory, outside, counters
      <3>3. HandlerOK(k)' /\ ~Creating(k)'
        BY <1>0, <1>1, <3>1 DEF HandlerOK, Creating, SourcePc, PaymentPc, SrcSelect
      <3>. QED  BY <1>1, <2>2, <3>2, <3>3, HandlerStep DEF SrcSelect, tables, outside
    <2>. QED  BY <1>1, <2>1, <2>2 DEF SrcSelect, Goto, Done
  <1>2. CASE SrcWrite(k)
    <2>0. s \in Sources /\ TypeOK
      BY <1>0, <1>2 DEF SrcWrite, HandlerOK, SourcePc, MatchInv
    <2>1. CASE work' = [work EXCEPT ![k] = Idle] /\ mem' = mem
      BY <1>2, <2>1, <1>0, <1>i
      DEF SrcWrite, MatchInv, TypeOK, tables, memory, outside, counters
    <2>2. CASE /\ work[k].known \/ bt[s].status = "none"
               /\ \E add \in BOOLEAN :
                    work' = [work EXCEPT ![k] = [work[k] EXCEPT !.pc = "srcMark",
                                                   !.row = s, !.added = add]]
               /\ mem' \in {mem, [mem EXCEPT ![s] = "live"]}
      <3>1. PICK add \in BOOLEAN :
              work' = [work EXCEPT ![k] = [work[k] EXCEPT !.pc = "srcMark",
                                             !.row = s, !.added = add]]
        BY <2>2
      <3>. DEFINE r == [work[k] EXCEPT !.pc = "srcMark", !.row = s, !.added = add]
      <3>2. r \in HandlerState /\ work'[k] = r /\ work[k].pc = "build" /\ work[k].upd = {}
        BY <1>0, <1>2, <2>0, <3>1
        DEF HandlerState, MatchInv, TypeOK, SrcWrite, HandlerOK, Writing
      <3>3. TypeOK'
        BY <1>2, <2>0, <2>2, <3>1, <3>2
        DEF SrcWrite, TypeOK, tables, memory, outside, counters
      <3>4. HandlerOK(k)'
        BY <1>0, <1>2, <2>0, <2>2, <3>2
        DEF HandlerOK, Creating, SourcePc, PaymentPc, SrcWrite, tables, outside
      <3>5. Creating(k)' => \A j \in Workers \ {k} : ~(Creating(j) /\ work[j].h = r.h)
        <4>1. RowFree(s)
          BY <1>2, <2>2 DEF SrcWrite
        <4>2. ASSUME NEW j \in Workers \ {k}, Creating(j), work[j].h = s  PROVE FALSE
          BY <2>0, <4>1, <4>2 DEF RowFree, HoldsRow, Writing, Creating, MatchInv, HandlerOK
        <4>. QED  BY <4>2
      <3>. HIDE DEF r
      <3>. QED  BY <1>2, <3>1, <3>3, <3>4, <3>5, HandlerStep DEF SrcWrite, tables, outside, r
    <2>. QED  BY <1>2, <2>1, <2>2 DEF SrcWrite, Goto, Done
  <1>3. CASE SrcMark(k)
    <2>. DEFINE rows == IF work[k].op = "valid" THEN {} ELSE {s}
                r == [work[k] EXCEPT !.pc = "srcCommit", !.upd = rows]
    <2>1. s \in Sources /\ TypeOK /\ work[k].pc = "srcMark" /\ rows \subseteq {s}
      BY <1>0, <1>3 DEF SrcMark, HandlerOK, SourcePc, MatchInv
    <2>. HIDE DEF rows
    <2>2. work' = [work EXCEPT ![k] = r] /\ work'[k] = r
      BY <1>3, <2>1 DEF SrcMark, Goto, TypeOK, rows
    <2>3. r \in HandlerState
      BY <1>0, <2>1 DEF HandlerState, Hashes, Writing
    <2>4. TypeOK'
      BY <1>3, <2>1, <2>2, <2>3 DEF SrcMark, TypeOK, tables, memory, outside, counters
    <2>5. HandlerOK(k)'
      BY <1>0, <1>3, <2>1, <2>2
      DEF HandlerOK, Creating, SourcePc, PaymentPc, SrcMark, tables, outside
    <2>6. Creating(k)' => \A j \in Workers \ {k} : ~(Creating(j) /\ work[j].h = r.h)
      BY <2>1, <2>2 DEF Creating, MatchInv, OneCreator
    <2>. HIDE DEF r
    <2>. QED  BY <1>3, <2>2, <2>4, <2>5, <2>6, HandlerStep DEF SrcMark, tables, outside
  <1>4. CASE SrcFails(k)
    <2>1. mem' \in [Sources -> {"no", "live", "ghost"}] /\ faults' \in 0..MaxFaults
      <3>1. s \in Sources
        BY <1>0, <1>4 DEF SrcFails, HandlerOK, SourcePc
      <3>2. faults' \in 0..MaxFaults
        BY <1>4, MatchingAssumption DEF SrcFails, Fault, MatchInv, TypeOK
      <3>. QED  BY <1>4, <3>1, <3>2 DEF SrcFails, MatchInv, TypeOK
    <2>2. TypeOK'
      BY <1>0, <1>4, <2>1 DEF SrcFails, Done, Goto, MatchInv, TypeOK, tables, outside
    <2>. QED  BY <1>4, <1>i, <2>2 DEF SrcFails, Done, Goto, tables, outside
  <1>. QED  BY <1>1, <1>2, <1>3, <1>4

-----------------------------------------------------------------------------
(* The statements of the payment handler before a COMMIT.                   *)

LEMMA PaymentStep ==
  ASSUME MatchInv, NEW k \in Workers, NEW r \in HandlerState,
         work' = [work EXCEPT ![k] = r],
         UNCHANGED <<bt, op, mem, old, maker, sent, past, deliveries>>,
         cache' \subseteq Payments, faults' \in 0..MaxFaults,
         r.pc \notin {"srcMark", "srcCommit"},
         work'[k] = r => HandlerOK(k)'
  PROVE  MatchInv'
  <1>1. work'[k] = r
    BY DEF MatchInv, TypeOK
  <1>2. TypeOK'
    BY DEF MatchInv, TypeOK
  <1>3. ~Creating(k)'
    BY <1>1 DEF Creating
  <1>. QED  BY <1>1, <1>2, <1>3, HandlerStep

\* A handler that ends.
LEMMA PaymentEnds ==
  ASSUME MatchInv, NEW k \in Workers, Done(k),
         UNCHANGED <<bt, op, mem, old, maker, sent, past, deliveries>>,
         cache' \subseteq Payments, faults' \in 0..MaxFaults
  PROVE  MatchInv'
  <1>1. Idle \in HandlerState /\ Idle.pc = "idle" /\ Idle.upd = {}
    BY DEF HandlerState, Idle
  <1>2. work'[k] = Idle => HandlerOK(k)'
    BY <1>1 DEF HandlerOK, Creating, SourcePc, PaymentPc
  <1>. QED  BY <1>1, <1>2, PaymentStep DEF Done, Goto

\* A rolled back match from memory goes on with the database.
LEMMA ToDatabaseInv ==
  ASSUME MatchInv, NEW k \in Workers, work[k].pc \in PaymentPc, ToDatabase(k),
         UNCHANGED <<bt, op, mem, old, maker, sent, past, deliveries, cache>>,
         faults' \in 0..MaxFaults
  PROVE  MatchInv'
  <1>. DEFINE r == [work[k] EXCEPT !.pc = "byTarget", !.row = None, !.known = FALSE, !.upd = {}]
  <1>1. work[k] \in HandlerState /\ HandlerOK(k) /\ cache \subseteq Payments
    BY DEF MatchInv, TypeOK
  <1>2. r \in HandlerState /\ r.pc = "byTarget" /\ r.upd = {} /\ r.h = work[k].h
    BY <1>1 DEF HandlerState
  <1>3. work'[k] = r => HandlerOK(k)'
    BY <1>1, <1>2 DEF HandlerOK, Creating, SourcePc, PaymentPc
  <1>. QED  BY <1>1, <1>2, <1>3, PaymentStep DEF ToDatabase, Goto

\* What MemMark and DbMark update.
LEMMA Marked ==
  ASSUME MatchInv, NEW k \in Workers, work[k].pc \in {"memMark", "dbMark"},
         NEW pc \in {"memCommit", "dbCommit"},
         Goto(k, [work[k] EXCEPT !.pc = pc, !.upd = Unmatched(work[k].h, work[k].row)]),
         UNCHANGED <<bt, op, mem, old, maker, sent, past, counters>>, cache' \subseteq Payments
  PROVE  MatchInv'
  <1>. DEFINE p == work[k].h
              rows == Unmatched(p, work[k].row)
              r == [work[k] EXCEPT !.pc = pc, !.upd = rows]
  <1>1. work[k] \in HandlerState /\ HandlerOK(k) /\ faults' \in 0..MaxFaults
    BY DEF MatchInv, TypeOK, counters
  <1>2. p \in Payments /\ op[p] # "absent" /\ work[k].row \in Sources /\ PaymentOK(p)
    BY <1>1 DEF HandlerOK, PaymentPc, MatchInv
  <1>3. rows \subseteq {p, work[k].row} /\ rows \subseteq Hashes
    BY <1>2 DEF Unmatched, Hashes
  <1>4. p \in rows \/ op[p] = "matched"
    BY <1>2 DEF Unmatched, PaymentOK
  <1>. HIDE DEF rows
  <1>5. r \in HandlerState /\ r.pc = pc
    BY <1>1, <1>3 DEF HandlerState, Writing
  <1>6. work'[k] = r => HandlerOK(k)'
    BY <1>1, <1>2, <1>3, <1>4 DEF HandlerOK, Creating, SourcePc, PaymentPc
  <1>. QED  BY <1>1, <1>5, <1>6, PaymentStep DEF Goto, rows, counters

LEMMA MemoryPathInv ==
  ASSUME MatchInv, NEW k \in Workers,
         Lookup(k) \/ MemUpdate(k) \/ MemMark(k) \/ MemFails(k)
  PROVE  MatchInv'
  <1>. DEFINE p == work[k].h
  <1>0. work[k] \in HandlerState /\ HandlerOK(k) /\ TypeOK
    BY DEF MatchInv, TypeOK
  <1>f. Fault => faults' \in 0..MaxFaults
    BY <1>0, MatchingAssumption DEF Fault, TypeOK
  <1>1. CASE Lookup(k)
    <2>1. p \in Payments /\ op[p] # "absent" /\ work[k].pc = "lookup" /\ work[k].upd = {}
      BY <1>0, <1>1 DEF Lookup, HandlerOK, PaymentPc
    <2>2. CASE Goto(k, [work[k] EXCEPT !.pc = "byTarget"])
      <3>. DEFINE r == [work[k] EXCEPT !.pc = "byTarget"]
      <3>1. r \in HandlerState /\ r.pc = "byTarget"
        BY <1>0 DEF HandlerState
      <3>2. work'[k] = r => HandlerOK(k)'
        <4>1. r.h = p /\ r.upd = {} /\ op' = op
          BY <1>0, <1>1, <2>1 DEF HandlerState, Lookup, tables
        <4>. HIDE DEF r, p
        <4>. QED  BY <2>1, <3>1, <4>1 DEF HandlerOK, Creating, SourcePc, PaymentPc, p
      <3>. QED  BY <1>0, <1>1, <2>2, <3>1, <3>2, PaymentStep
                DEF Lookup, Goto, TypeOK, tables, memory, outside, counters
    <2>3. ASSUME NEW s \in InMemory(p),
                 Goto(k, [work[k] EXCEPT !.pc = "memUpdate", !.row = s,
                                         !.known = mem[s] = "live"])
          PROVE  MatchInv'
      <3>. DEFINE r == [work[k] EXCEPT !.pc = "memUpdate", !.row = s,
                                       !.known = mem[s] = "live"]
      <3>1. s \in Sources /\ Feature[s] = Feature[p]
        BY <2>3 DEF InMemory
      <3>2. r \in HandlerState /\ r.pc = "memUpdate"
        BY <1>0, <3>1 DEF HandlerState
      <3>3. work'[k] = r => HandlerOK(k)'
        <4>1. r.h = p /\ r.upd = {} /\ r.row = s /\ op' = op
          BY <1>0, <1>1, <2>1 DEF HandlerState, Lookup, tables
        <4>. HIDE DEF r, p
        <4>. QED  BY <2>1, <3>1, <3>2, <4>1 DEF HandlerOK, Creating, SourcePc, PaymentPc, p
      <3>. QED  BY <1>0, <1>1, <2>3, <3>2, <3>3, PaymentStep
                DEF Lookup, Goto, TypeOK, tables, memory, outside, counters
    <2>. QED  BY <1>1, <2>2, <2>3 DEF Lookup
  <1>2. CASE MemUpdate(k)
    <2>0. UNCHANGED <<bt, op, mem, cache, old, maker, sent, past, deliveries, faults>>
      BY <1>2 DEF MemUpdate, tables, memory, outside, counters
    <2>. DEFINE r == [work[k] EXCEPT !.pc = "memMark"]
    <2>1. CASE /\ Goto(k, r) /\ bt[work[k].row].status \in Open
               /\ RowFree(work[k].row)
      <3>1. r \in HandlerState /\ r.pc = "memMark" /\ work[k].pc = "memUpdate"
        BY <1>0, <1>2 DEF HandlerState, Writing, MemUpdate
      <3>2. work'[k] = r => HandlerOK(k)'
        BY <1>0, <2>0, <2>1, <3>1
        DEF HandlerOK, Creating, SourcePc, PaymentPc, RowFree, Open
      <3>. QED  BY <1>0, <2>0, <2>1, <3>1, <3>2, PaymentStep DEF Goto, TypeOK
    <2>2. CASE ToDatabase(k)
      BY <1>0, <1>2, <2>0, <2>2, ToDatabaseInv DEF MemUpdate, PaymentPc, TypeOK
    <2>. QED  BY <1>2, <2>1, <2>2 DEF MemUpdate
  <1>3. CASE MemMark(k)
    <2>1. CASE Goto(k, [work[k] EXCEPT !.pc = "memCommit", !.upd = Unmatched(p, work[k].row)])
      BY <1>0, <1>3, <2>1, Marked DEF MemMark, TypeOK, tables, memory, outside, counters
    <2>2. CASE ToDatabase(k)
      BY <1>0, <1>3, <2>2, ToDatabaseInv
      DEF MemMark, PaymentPc, TypeOK, tables, memory, outside, counters
    <2>. QED  BY <1>3, <2>1, <2>2 DEF MemMark
  <1>4. CASE MemFails(k)
    <2>1. CASE work[k].pc \in {"memUpdate", "memMark"} /\ ToDatabase(k)
      BY <1>0, <1>f, <1>4, <2>1, ToDatabaseInv
      DEF MemFails, PaymentPc, TypeOK, tables, memory, outside
    <2>2. CASE Done(k)
      BY <1>0, <1>f, <1>4, <2>2, PaymentEnds DEF MemFails, TypeOK, tables, memory, outside
    <2>. QED  BY <1>4, <2>1, <2>2 DEF MemFails
  <1>. QED  BY <1>1, <1>2, <1>3, <1>4

LEMMA DatabasePathInv ==
  ASSUME MatchInv, NEW k \in Workers,
         ByTarget(k) \/ ByFeatures(k) \/ Save(k) \/ DbMark(k) \/ DbFails(k)
  PROVE  MatchInv'
  <1>. DEFINE p == work[k].h
  <1>0. work[k] \in HandlerState /\ HandlerOK(k) /\ TypeOK
    BY DEF MatchInv, TypeOK
  <1>f. Fault => faults' \in 0..MaxFaults
    BY <1>0, MatchingAssumption DEF Fault, TypeOK
  <1>s. ASSUME NEW s \in Sources, Feature[s] = Feature[p], bt[s].status # "none",
               work[k].pc \in {"byTarget", "byFeatures"},
               Goto(k, [work[k] EXCEPT !.pc = "save", !.row = s]),
               UNCHANGED <<tables, memory, outside, counters>>
        PROVE  MatchInv'
    <2>. DEFINE r == [work[k] EXCEPT !.pc = "save", !.row = s]
    <2>1. p \in Payments /\ op[p] # "absent" /\ work[k].upd = {}
      BY <1>0, <1>s DEF HandlerOK, PaymentPc
    <2>2. r \in HandlerState /\ r.pc = "save"
      BY <1>0 DEF HandlerState
    <2>3. work'[k] = r => HandlerOK(k)'
      BY <1>0, <1>s, <2>1
      DEF HandlerOK, Creating, SourcePc, PaymentPc, tables, outside
    <2>. QED  BY <1>0, <1>s, <2>2, <2>3, PaymentStep
              DEF Goto, TypeOK, tables, memory, outside, counters
  <1>1. CASE ByTarget(k)
    <2>1. CASE Goto(k, [work[k] EXCEPT !.pc = "byFeatures"])
      <3>. DEFINE r == [work[k] EXCEPT !.pc = "byFeatures"]
      <3>1. r \in HandlerState /\ r.pc = "byFeatures" /\ work[k].pc = "byTarget"
        BY <1>0, <1>1 DEF HandlerState, ByTarget
      <3>2. work'[k] = r => HandlerOK(k)'
        <4>1. /\ r.h = p /\ r.upd = {} /\ op' = op
              /\ p \in Payments /\ op[p] # "absent"
          BY <1>0, <1>1, <3>1 DEF HandlerState, HandlerOK, PaymentPc, ByTarget, tables
        <4>. HIDE DEF r, p
        <4>. QED  BY <3>1, <4>1 DEF HandlerOK, Creating, SourcePc, PaymentPc, p
      <3>. QED  BY <1>0, <1>1, <2>1, <3>1, <3>2, PaymentStep
                DEF ByTarget, Goto, TypeOK, tables, memory, outside, counters
    <2>2. ASSUME NEW s \in Named(p), Goto(k, [work[k] EXCEPT !.pc = "save", !.row = s])
          PROVE  MatchInv'
      <3>1. s \in Sources /\ bt[s].target = p /\ p \in Payments
        BY <1>0, <1>1, <2>2 DEF Named, ByTarget, HandlerOK, PaymentPc
      <3>2. Feature[s] = Feature[p] /\ bt[s].status # "none"
        BY <3>1, MatchingAssumption DEF MatchInv, RowOK, Hashes
      <3>. QED  BY <1>1, <1>s, <2>2, <3>1, <3>2 DEF ByTarget
    <2>. QED  BY <1>1, <2>1, <2>2 DEF ByTarget
  <1>2. CASE ByFeatures(k)
    <2>1. CASE /\ Done(k) /\ cache' \in {cache, cache \cup {p}}
      <3>1. p \in Payments
        BY <1>0, <1>2 DEF ByFeatures, HandlerOK, PaymentPc
      <3>. QED  BY <1>0, <1>2, <2>1, <3>1, PaymentEnds
                DEF ByFeatures, TypeOK, tables, outside, counters
    <2>2. ASSUME NEW s \in Waiting(p), Goto(k, [work[k] EXCEPT !.pc = "save", !.row = s]),
                 cache' = cache
          PROVE  MatchInv'
      <3>1. s \in Sources /\ Feature[s] = Feature[p] /\ bt[s].status # "none"
        BY <2>2 DEF Waiting, Open
      <3>. QED  BY <1>2, <1>s, <2>2, <3>1 DEF ByFeatures, memory
    <2>. QED  BY <1>2, <2>1, <2>2 DEF ByFeatures
  <1>3. CASE Save(k)
    <2>. DEFINE r == [work[k] EXCEPT !.pc = "dbMark"]
    <2>1. r \in HandlerState /\ r.pc = "dbMark" /\ work[k].pc = "save"
      BY <1>0, <1>3 DEF HandlerState, Writing, Save
    <2>2. work'[k] = r => HandlerOK(k)'
      BY <1>0, <1>3, <2>1
      DEF Save, HandlerOK, Creating, SourcePc, PaymentPc, RowFree, tables, outside
    <2>. QED  BY <1>0, <1>3, <2>1, <2>2, PaymentStep
              DEF Save, Goto, TypeOK, tables, memory, outside, counters
  <1>4. CASE DbMark(k)
    <2>1. cache' \subseteq Payments
      BY <1>0, <1>4 DEF DbMark, TypeOK
    <2>. QED  BY <1>4, <2>1, Marked DEF DbMark, tables, outside
  <1>5. CASE DbFails(k)
    BY <1>0, <1>f, <1>5, PaymentEnds DEF DbFails, TypeOK, tables, memory, outside
  <1>. QED  BY <1>1, <1>2, <1>3, <1>4, <1>5

-----------------------------------------------------------------------------
(* The steps that write the tables.                                         *)

\* A payment is not a source, and the other way round.
LEMMA Disjoint == ASSUME NEW p \in Payments  PROVE p \notin Sources /\ p # None
  BY MatchingAssumption DEF Hashes

\* The handler that ends, and the others, for steps that book no payment.
LEMMA SourceEnds ==
  ASSUME MatchInv, NEW k \in Workers, NEW s \in Sources, Done(k),
         UNCHANGED <<mem, cache, old, maker, sent, past, counters>>,
         op' = op \/ \E o \in {"valid", "refused"} : op' = [op EXCEPT ![s] = o],
         \/ bt' = bt
         \/ /\ Creating(k) /\ work[k].h = s
            /\ bt' = [bt EXCEPT ![s] = [status |-> "pending", target |-> None]]
  PROVE  MatchInv'
  <1>1. /\ \A j \in Workers \ {k} : work'[j] = work[j]
        /\ work'[k].pc = "idle" /\ work'[k].upd = {}
    BY DEF Done, Goto, Idle, MatchInv, TypeOK
  <1>2. TypeOK'
    <2>1. bt' \in [Sources -> [status: Open \cup {"none", "success"}, target: Payments \cup {None}]]
      BY DEF MatchInv, TypeOK, Open
    <2>2. op' \in [Hashes -> {"absent", "init", "valid", "refused", "matched"}]
      BY DEF MatchInv, TypeOK
    <2>3. work' \in [Workers -> HandlerState]
      <3>1. Idle \in HandlerState
        BY DEF Idle, HandlerState
      <3>2. work \in [Workers -> HandlerState] /\ work' = [work EXCEPT ![k] = Idle]
        BY DEF Done, Goto, MatchInv, TypeOK
      <3>. QED  BY <3>1, <3>2
    <2>. QED  BY <2>1, <2>2, <2>3 DEF MatchInv, TypeOK, counters
  <1>3. ASSUME NEW p \in Payments  PROVE op'[p] = op[p]
    <2>1. p \in Hashes /\ p # s /\ op \in [Hashes -> {"absent", "init", "valid", "refused", "matched"}]
      BY Disjoint DEF MatchInv, TypeOK, Hashes
    <2>. QED  BY <2>1
  <1>4. \A t \in Sources :
          \/ bt'[t] = bt[t]
          \/ /\ bt[t].status = "none"
             /\ bt'[t].status = "pending" /\ bt'[t].target = None
    <2>1. Creating(k) /\ work[k].h = s => bt[s].status = "none"
      BY DEF MatchInv, HandlerOK
    <2>2. bt \in [Sources -> [status: Open \cup {"none", "success"}, target: Payments \cup {None}]]
      BY DEF MatchInv, TypeOK
    <2>3. ASSUME NEW t \in Sources, t # s  PROVE bt'[t] = bt[t]
      BY <2>2, <2>3
    <2>4. bt' # bt => bt'[s] = [status |-> "pending", target |-> None]
      BY <2>2
    <2>. QED  BY <2>1, <2>3, <2>4
  <1>5. \A t \in Sources : bt[t].target # None => bt[t].target \in Payments
    BY DEF MatchInv, TypeOK
  <1>6. \A t \in Sources : RowOK(t)'
    BY <1>3, <1>4, <1>5 DEF MatchInv, RowOK
  <1>7. \A p \in Payments : PaymentOK(p)'
    BY <1>3, <1>4 DEF MatchInv, PaymentOK, SettledFor
  <1>8. \A t \in Sources : MakerOK(t)'
    BY <1>4 DEF MatchInv, MakerOK
  <1>9. HandlerOK(k)'
    BY <1>1 DEF HandlerOK, Creating, SourcePc, PaymentPc
  <1>10. ASSUME NEW j \in Workers \ {k}  PROVE HandlerOK(j)'
    <2>1. HandlerOK(j) /\ work'[j] = work[j] /\ work[j] \in HandlerState
      BY <1>1 DEF MatchInv, TypeOK
    <2>2. Creating(j) => bt'[work[j].h].status = "none"
      <3>1. SUFFICES ASSUME Creating(j)  PROVE bt'[work[j].h].status = "none"
        OBVIOUS
      <3>2. work[j].h \in Sources /\ bt[work[j].h].status = "none"
        BY <2>1, <3>1 DEF HandlerOK, Creating, SourcePc
      <3>3. bt' = bt \/ work[j].h # s
        BY <3>1 DEF MatchInv, OneCreator
      <3>. QED  BY <3>2, <3>3 DEF MatchInv, TypeOK
    <2>. QED  BY <1>3, <1>4, <2>1, <2>2 DEF HandlerOK, Creating, SourcePc, PaymentPc
  <1>11. OneCreator'
    BY <1>1 DEF MatchInv, OneCreator, Creating
  <1>. QED  BY <1>2, <1>6, <1>7, <1>8, <1>9, <1>10, <1>11 DEF MatchInv

LEMMA SourceCommitInv ==
  ASSUME MatchInv, NEW k \in Workers, SrcRefused(k) \/ SrcCommit(k)
  PROVE  MatchInv'
  <1>. DEFINE s == work[k].h
  <1>1. /\ s \in Sources /\ HandlerOK(k)
        /\ op \in [Hashes -> {"absent", "init", "valid", "refused", "matched"}]
    BY DEF SrcRefused, SrcCommit, MatchInv, HandlerOK, SourcePc, TypeOK
  <1>2. CASE SrcRefused(k)
    BY <1>1, <1>2, SourceEnds DEF SrcRefused, memory, outside
  <1>3. CASE SrcCommit(k)
    <2>1. work[k].upd \subseteq {s}
      BY <1>1, <1>3 DEF SrcCommit, HandlerOK
    <2>2. op' = op \/ op' = [op EXCEPT ![s] = "valid"]
      BY <1>1, <1>3, <2>1 DEF SrcCommit
    <2>3. bt' # bt => /\ Creating(k)
                      /\ bt' = [bt EXCEPT ![s] = [status |-> "pending", target |-> None]]
      BY <1>3 DEF SrcCommit, Creating
    <2>. QED  BY <1>1, <1>3, <2>2, <2>3, SourceEnds DEF SrcCommit, memory, outside
  <1>. QED  BY <1>2, <1>3

\* The COMMIT of a match, from memory or from the database.
LEMMA SettleInv ==
  ASSUME MatchInv, NEW k \in Workers, MemCommit(k) \/ DbCommit(k)
  PROVE  MatchInv'
  <1>. DEFINE p == work[k].h
              s == work[k].row
  <1>1. /\ p \in Payments /\ s \in Sources /\ Feature[s] = Feature[p]
        /\ work[k].upd \subseteq {p, s}
        /\ p \in work[k].upd \/ op[p] = "matched"
        /\ bt[s].status # "none" /\ maker[s] = None /\ op[p] # "absent"
    BY DEF MemCommit, DbCommit, MatchInv, HandlerOK, PaymentPc
  <1>2. /\ Settle(k) /\ Done(k) /\ cache' \subseteq cache
        /\ UNCHANGED <<mem, old, maker, sent, past, deliveries, faults>>
    BY DEF MemCommit, DbCommit, memory, outside, counters
  <1>3. /\ \A j \in Workers \ {k} : work'[j] = work[j]
        /\ work'[k].pc = "idle" /\ work'[k].upd = {}
    BY <1>2 DEF Done, Goto, Idle, MatchInv, TypeOK
  <1>4. bt'[s] = [status |-> "success", target |-> p] /\ \A t \in Sources \ {s} : bt'[t] = bt[t]
    BY <1>1, <1>2 DEF Settle, MatchInv, TypeOK
  <1>5. /\ op'[p] = "matched"
        /\ \A h \in Hashes : op'[h] = IF h \in work[k].upd THEN "matched" ELSE op[h]
    BY <1>1, <1>2 DEF Settle, Hashes
  <1>6. \A q \in Payments : q # p => op'[q] = op[q]
    <2>1. ASSUME NEW q \in Payments, q # p  PROVE q \in Hashes /\ q \notin work[k].upd
      <3>1. q \notin Sources
        BY <2>1, Disjoint
      <3>. QED  BY <1>1, <2>1, <3>1 DEF Hashes
    <2>. QED  BY <1>5, <2>1
  <1>7. TypeOK'
    BY <1>1, <1>2 DEF Settle, Done, Goto, Idle, HandlerState, MatchInv, TypeOK, Open
  <1>8. ASSUME NEW t \in Sources  PROVE RowOK(t)'
    <2>1. CASE t = s
      BY <1>1, <1>4, <1>5, <2>1, Disjoint DEF RowOK
    <2>2. CASE t # s
      <3>1. bt'[t] = bt[t] /\ RowOK(t) /\ bt[t].target \in Payments \cup {None}
        BY <1>4, <2>2 DEF MatchInv, TypeOK
      <3>. QED  BY <1>5, <1>6, <3>1 DEF RowOK
    <2>. QED  BY <2>1, <2>2
  <1>9. ASSUME NEW q \in Payments  PROVE PaymentOK(q)'
    <2>1. CASE q = p
      BY <1>1, <1>4, <1>5, <2>1 DEF PaymentOK, SettledFor
    <2>2. CASE q # p
      <3>1. PaymentOK(q) /\ op'[q] = op[q]
        BY <1>6, <2>2 DEF MatchInv
      <3>2. ASSUME op[q] = "matched"  PROVE SettledFor(q)'
        <4>1. PICK t \in Sources : /\ bt[t].status = "success" /\ Feature[t] = Feature[q]
                                   /\ Alone(q) => bt[t].target = q
          BY <3>1, <3>2 DEF PaymentOK, SettledFor
        <4>2. CASE t # s
          BY <1>4, <4>1, <4>2 DEF SettledFor
        \* The row gets another payment, which is alike.
        <4>3. CASE t = s
          <5>1. ~Alone(q)
            BY <1>1, <2>2, <4>1, <4>3 DEF Alone
          <5>. QED  BY <1>1, <1>4, <4>1, <4>3, <5>1 DEF SettledFor
        <4>. QED  BY <4>2, <4>3
      <3>. QED  BY <3>1, <3>2 DEF PaymentOK
    <2>. QED  BY <2>1, <2>2
  <1>10. \A t \in Sources : MakerOK(t)'
    BY <1>1, <1>2, <1>4 DEF MatchInv, MakerOK
  <1>11. HandlerOK(k)'
    BY <1>3 DEF HandlerOK, Creating, SourcePc, PaymentPc
  <1>12. ASSUME NEW j \in Workers \ {k}  PROVE HandlerOK(j)'
    <2>1. HandlerOK(j) /\ work'[j] = work[j] /\ work[j] \in HandlerState
      BY <1>3 DEF MatchInv, TypeOK
    <2>2. Creating(j) => bt'[work[j].h].status = "none"
      BY <1>1, <1>4, <2>1 DEF Creating, HandlerOK, SourcePc
    <2>3. \A t \in Sources : bt[t].status # "none" => bt'[t].status # "none"
      BY <1>4
    <2>4. \A q \in Payments :
            /\ op[q] # "absent" => op'[q] # "absent"
            /\ op[q] = "matched" => op'[q] = "matched"
      BY <1>5, <1>6
    <2>5. maker' = maker
      BY <1>2
    <2>6. Creating(j)' <=> Creating(j)
      BY <2>1 DEF Creating
    <2>7. work[j].pc \in PaymentPc => work[j].h \in Payments
      BY <2>1 DEF HandlerOK
    <2>8. /\ work[j].pc \in PaymentPc => op'[work[j].h] # "absent"
          /\ work[j].pc \in {"memCommit", "dbCommit"} =>
               work[j].h \in work[j].upd \/ op'[work[j].h] = "matched"
          /\ work[j].pc \in {"memMark", "memCommit", "save", "dbMark", "dbCommit"} =>
               bt'[work[j].row].status # "none"
      <3>1. work[j].pc \in {"memMark", "memCommit", "save", "dbMark", "dbCommit"} =>
              work[j].row \in Sources /\ bt[work[j].row].status # "none"
        BY <2>1 DEF HandlerOK
      <3>2. work[j].pc \in PaymentPc => op[work[j].h] # "absent"
        BY <2>1 DEF HandlerOK
      <3>3. work[j].pc \in {"memCommit", "dbCommit"} =>
              work[j].h \in work[j].upd \/ op[work[j].h] = "matched"
        BY <2>1 DEF HandlerOK
      <3>. HIDE DEF p, s
      <3>. QED  BY <2>3, <2>4, <2>7, <3>1, <3>2, <3>3 DEF PaymentPc
    <2>. HIDE DEF p, s
    <2>. QED  BY <2>1, <2>2, <2>5, <2>6, <2>8 DEF HandlerOK
  <1>13. OneCreator'
    BY <1>3 DEF MatchInv, OneCreator, Creating
  <1>. QED  BY <1>7, <1>8, <1>9, <1>10, <1>11, <1>12, <1>13 DEF MatchInv

-----------------------------------------------------------------------------
(* The crawler, time, a restart and the maker.                              *)

LEMMA InsertInv == ASSUME MatchInv, NEW h \in Hashes, Insert(h)  PROVE MatchInv'
  <1>1. TypeOK' /\ UNCHANGED <<bt, work, maker>>
    BY DEF Insert, MatchInv, TypeOK, memory, outside, counters
  <1>2. \A g \in Hashes : op'[g] = op[g] \/ (op[g] = "absent" /\ op'[g] = "init")
    BY DEF Insert, MatchInv, TypeOK
  <1>3. ASSUME NEW s \in Sources  PROVE RowOK(s)' /\ MakerOK(s)'
    <2>1. bt[s].target # None => bt[s].target \in Hashes
      BY DEF MatchInv, TypeOK, Hashes
    <2>. QED  BY <1>1, <1>2, <2>1 DEF MatchInv, RowOK, MakerOK
  <1>4. ASSUME NEW p \in Payments  PROVE PaymentOK(p)'
    <2>1. p \in Hashes
      BY DEF Hashes
    <2>. QED  BY <1>1, <1>2, <2>1 DEF MatchInv, PaymentOK, SettledFor
  <1>5. ASSUME NEW k \in Workers  PROVE HandlerOK(k)'
    <2>1. HandlerOK(k) /\ (work[k].pc \in PaymentPc => work[k].h \in Hashes)
      BY DEF MatchInv, HandlerOK, Hashes
    <2>2. /\ work[k].pc \in PaymentPc => op'[work[k].h] # "absent"
          /\ work[k].pc \in {"memCommit", "dbCommit"} =>
               work[k].h \in work[k].upd \/ op'[work[k].h] = "matched"
      BY <1>2, <2>1 DEF HandlerOK, PaymentPc
    <2>. QED  BY <1>1, <2>1, <2>2 DEF HandlerOK, Creating
  <1>6. OneCreator'
    BY <1>1 DEF MatchInv, OneCreator, Creating
  <1>. QED  BY <1>1, <1>3, <1>4, <1>5, <1>6 DEF MatchInv

LEMMA ExpireInv == ASSUME MatchInv, NEW h \in Hashes, Expire(h)  PROVE MatchInv'
  <1>1. TypeOK' /\ UNCHANGED <<bt, op, work, maker>>
    BY DEF Expire, MatchInv, TypeOK, tables, outside, counters
  <1>. QED  BY <1>1 DEF MatchInv, RowOK, PaymentOK, SettledFor, MakerOK, HandlerOK, OneCreator,
               Creating

LEMMA PassInv == ASSUME MatchInv, NEW h \in Hashes, Pass(h)  PROVE MatchInv'
  <1>1. TypeOK' /\ UNCHANGED <<bt, op, work, maker>>
    BY DEF Pass, MatchInv, TypeOK, tables, memory, counters
  <1>. QED  BY <1>1 DEF MatchInv, RowOK, PaymentOK, SettledFor, MakerOK, HandlerOK, OneCreator,
               Creating

LEMMA CrashInv == ASSUME MatchInv, Crash  PROVE MatchInv'
  <1>1. faults' \in 0..MaxFaults
    BY MatchingAssumption DEF Crash, Fault, MatchInv, TypeOK
  <1>2. Idle \in HandlerState
    BY DEF Idle, HandlerState
  <1>3. TypeOK' /\ UNCHANGED <<bt, op, maker>> /\ \A k \in Workers : work'[k] = Idle
    BY <1>1, <1>2 DEF Crash, MatchInv, TypeOK, tables, outside
  <1>4. (\A s \in Sources : RowOK(s)' /\ MakerOK(s)') /\ \A p \in Payments : PaymentOK(p)'
    BY <1>3 DEF MatchInv, RowOK, MakerOK, PaymentOK, SettledFor
  <1>5. (\A k \in Workers : HandlerOK(k)') /\ OneCreator'
    BY <1>3 DEF HandlerOK, OneCreator, Creating, SourcePc, PaymentPc, Idle
  <1>. QED  BY <1>3, <1>4, <1>5 DEF MatchInv

LEMMA MakerPaysInv == ASSUME MatchInv, NEW p \in Payments, MakerPays(p)  PROVE MatchInv'
  <1>. DEFINE s == Pays[p]
  <1>1. s \in Sources /\ TypeOK' /\ UNCHANGED <<bt, op, work>>
    BY MatchingAssumption DEF MakerPays, MatchInv, TypeOK, tables, memory, counters
  <1>2. maker'[s] = p /\ \A t \in Sources \ {s} : maker'[t] = maker[t]
    BY <1>1 DEF MakerPays, MatchInv, TypeOK
  <1>3. \A t \in Sources : RowOK(t)' /\ MakerOK(t)'
    BY <1>1, <1>2 DEF MakerPays, MatchInv, RowOK, MakerOK
  <1>4. \A q \in Payments : PaymentOK(q)'
    BY <1>1 DEF MatchInv, PaymentOK, SettledFor
  <1>5. ASSUME NEW k \in Workers  PROVE HandlerOK(k)'
    <2>1. HandlerOK(k)
      BY DEF MatchInv
    \* A handler that writes this row would hold it.
    <2>2. work[k].pc \in {"memMark", "memCommit", "dbMark", "dbCommit"} => work[k].row # s
      BY <1>1, <2>1, Disjoint
      DEF MakerPays, RowFree, HoldsRow, Writing, HandlerOK, PaymentPc
    <2>3. work[k].pc \in {"memMark", "memCommit", "dbMark", "dbCommit"} =>
            maker'[work[k].row] = None
      BY <1>2, <2>1, <2>2 DEF HandlerOK
    <2>. QED  BY <1>1, <2>1, <2>3 DEF HandlerOK, Creating
  <1>6. OneCreator'
    BY <1>1 DEF MatchInv, OneCreator, Creating
  <1>. QED  BY <1>1, <1>3, <1>4, <1>5, <1>6 DEF MatchInv

LEMMA MakerEndsInv == ASSUME MatchInv, NEW s \in Sources, MakerEnds(s)  PROVE MatchInv'
  <1>1. /\ maker[s] \in Payments /\ Pays[maker[s]] = s /\ bt[s].status = "pending"
        /\ UNCHANGED <<op, work>>
    BY DEF MakerEnds, MatchInv, TypeOK, MakerOK, memory, counters
  <1>2. TypeOK'
    <2>1. /\ bt[s] \in [status: Open \cup {"none", "success"}, target: Payments \cup {None}]
          /\ TypeOK
      BY DEF MatchInv, TypeOK
    <2>2. bt' \in [Sources -> [status: Open \cup {"none", "success"}, target: Payments \cup {None}]]
      BY <1>1, <2>1 DEF MakerEnds, TypeOK, Open
    <2>. QED  BY <1>1, <2>1, <2>2 DEF MakerEnds, TypeOK, memory, counters
  <1>3. /\ \A t \in Sources \ {s} : bt'[t] = bt[t] /\ maker'[t] = maker[t]
        /\ maker'[s] = None
        /\ bt'[s].status \in {"pending", "paid", "crash"}
        /\ bt'[s].target \in {bt[s].target, maker[s]}
    BY <1>1 DEF MakerEnds, MatchInv, TypeOK
  <1>4. RowOK(s)' /\ MakerOK(s)'
    BY <1>1, <1>3, MatchingAssumption DEF MatchInv, RowOK, MakerOK
  <1>5. \A t \in Sources : RowOK(t)' /\ MakerOK(t)'
    BY <1>1, <1>3, <1>4 DEF MatchInv, RowOK, MakerOK
  <1>6. \A q \in Payments : PaymentOK(q)'
    BY <1>1, <1>3 DEF MatchInv, PaymentOK, SettledFor
  <1>7. ASSUME NEW k \in Workers  PROVE HandlerOK(k)'
    <2>1. HandlerOK(k) /\ (Creating(k) => work[k].h \in Sources)
      BY DEF MatchInv, HandlerOK, Creating, SourcePc
    <2>2. Creating(k) => bt'[work[k].h].status = "none"
      BY <1>1, <1>3, <2>1 DEF HandlerOK
    <2>3. \A t \in Sources :
            /\ bt[t].status # "none" => bt'[t].status # "none"
            /\ maker[t] = None => maker'[t] = None
      BY <1>3
    <2>. QED  BY <1>1, <2>1, <2>2, <2>3 DEF HandlerOK, Creating
  <1>8. OneCreator'
    BY <1>1 DEF MatchInv, OneCreator, Creating
  <1>. QED  BY <1>2, <1>5, <1>6, <1>7, <1>8 DEF MatchInv

-----------------------------------------------------------------------------
LEMMA NextInv == ASSUME MatchInv, [Next]_vars  PROVE MatchInv'
  <1>1. CASE \E h \in Hashes : Insert(h) \/ Expire(h) \/ Pass(h)
    BY <1>1, InsertInv, ExpireInv, PassInv
  <1>2. ASSUME NEW k \in Workers, Begin(k) \/ Source(k) \/ Payment(k) \/ Broken(k)
        PROVE  MatchInv'
    BY <1>2, BeginInv, SourceInv, SourceCommitInv, MemoryPathInv, DatabasePathInv, SettleInv
    DEF Source, Payment, Broken
  <1>3. CASE \/ \E p \in Payments : MakerPays(p)
             \/ \E s \in Sources : MakerEnds(s)
    BY <1>3, MakerPaysInv, MakerEndsInv
  <1>4. CASE Crash
    BY <1>4, CrashInv
  <1>5. CASE UNCHANGED vars
    BY <1>5 DEF vars, tables, memory, outside, counters, MatchInv, TypeOK, RowOK,
       PaymentOK, SettledFor, MakerOK, HandlerOK, OneCreator, Creating
  <1>. QED  BY <1>1, <1>2, <1>3, <1>4, <1>5 DEF Next

\* The state stays well typed and the invariant holds, alike transfers included.
THEOREM Invariant == Spec => []MatchInv
  <1>1. MatchInv /\ [Next]_vars => MatchInv'
    BY NextInv
  <1>. QED  BY <1>1, InitInv, PTL DEF Spec

\* The types of the tables, the memory and the handlers.
THEOREM TypeCorrect == Spec => []TypeOK
  <1>1. MatchInv => TypeOK
    BY DEF MatchInv
  <1>. QED  BY <1>1, Invariant, PTL

\* A settled row's payment is booked as matched, and for a payment so booked a
\* row of its features is settled, which names it when no other is alike.
THEOREM Agree == Spec => []BooksAgree
  <1>1. MatchInv => BooksAgree
    BY DEF MatchInv, TypeOK, RowOK, PaymentOK, SettledFor, BooksAgree
  <1>. QED  BY <1>1, Invariant, PTL

-----------------------------------------------------------------------------
(* Refinement of Pairing.                                                   *)

\* A step that leaves the settled rows as they are pairs nothing.
LEMMA NoNewPair ==
  ASSUME \A s \in Sources :
           \/ bt'[s] = bt[s]
           \/ bt[s].status # "success" /\ bt'[s].status # "success"
  PROVE  Matched' = Matched
  BY DEF Matched

\* The COMMIT of a match pairs its row with its payment, and touches no other row.
LEMMA SettlePairs ==
  ASSUME MatchInv, NEW k \in Workers, MemCommit(k) \/ DbCommit(k)
  PROVE  P!PairNext
  <1>. DEFINE p == work[k].h
              s == work[k].row
  <1>1. p \in Payments /\ s \in Sources /\ Feature[s] = Feature[p]
    BY DEF MemCommit, DbCommit, MatchInv, HandlerOK, PaymentPc
  <1>2. bt'[s] = [status |-> "success", target |-> p] /\ \A t \in Sources \ {s} : bt'[t] = bt[t]
    BY <1>1 DEF MemCommit, DbCommit, Settle, MatchInv, TypeOK
  <1>. HIDE DEF p, s
  <1>3. Matched' = P!Others(s) \cup {<<s, p>>}
    BY <1>1, <1>2 DEF Matched, P!Others
  <1>. QED  BY <1>1, <1>3 DEF P!PairNext, P!Match

LEMMA NextPairs ==
  ASSUME MatchInv, [Next]_vars
  PROVE  [P!PairNext]_Matched
  <1>1. CASE bt' = bt
    BY <1>1, NoNewPair
  <1>2. CASE \E k \in Workers : MemCommit(k) \/ DbCommit(k)
    BY <1>2, SettlePairs
  <1>3. ASSUME NEW k \in Workers, SrcCommit(k)  PROVE Matched' = Matched
    <2>1. work[k].h \in Sources /\ (~work[k].known => bt[work[k].h].status = "none")
      BY <1>3 DEF SrcCommit, MatchInv, HandlerOK, SourcePc, Creating
    <2>. QED  BY <1>3, <2>1, NoNewPair DEF SrcCommit, MatchInv, TypeOK
  <1>4. ASSUME NEW s \in Sources, MakerEnds(s)  PROVE Matched' = Matched
    BY <1>4, NoNewPair DEF MakerEnds, MatchInv, MakerOK, TypeOK
  <1>5. \/ bt' = bt
        \/ \E k \in Workers : MemCommit(k) \/ DbCommit(k) \/ SrcCommit(k)
        \/ \E s \in Sources : MakerEnds(s)
    BY DEF Next, vars, tables, Insert, Expire, Pass, Crash, MakerPays, Begin, Deliver, PollSource, PollPayment,
       FromCache, Source, Payment, Broken, SrcSelect, SrcRefused, SrcWrite, SrcMark, SrcFails,
       Lookup, MemUpdate, MemMark, MemFails, ByTarget, ByFeatures, Save, DbMark, DbFails
  <1>. QED  BY <1>1, <1>2, <1>3, <1>4, <1>5

\* The matching implements Pairing: a row is settled by payments of its features
\* only and stays settled, by the one payment when no other is alike.
THEOREM Implements == Spec => PairsKept
  <1>1. Init => P!PairInit
    BY DEF Init, P!PairInit, Matched, NoRow
  <1>2. MatchInv /\ [Next]_vars => [P!PairNext]_Matched
    BY NextPairs
  <1>. QED  BY <1>1, <1>2, Invariant, PTL DEF Spec, PairsKept, P!PairSpec

-----------------------------------------------------------------------------
(* The building of rows (Builder). First the powers of ten and decimal     *)
(* digits; induction is by the least counterexample.                       *)

\* A set of numbers has a least one: what induction is replaced by below.
LEMMA LeastNat ==
  ASSUME NEW S, S \subseteq Nat, S # {}
  PROVE  \E m \in S : \A x \in S : m <= x
  <1>. DEFINE R == OpToRel(<, Nat)
  <1>1. IsWellFoundedOn(R, Nat)
    BY NatLessThanWellFounded
  <1>2. \A x, y \in Nat : x < y => <<x, y>> \in R
    BY DEF OpToRel
  <1>. HIDE DEF R
  <1>3. PICK m \in S : \A x \in Nat : <<x, m>> \in R => x \notin S
    BY <1>1, WFMin
  <1>4. ASSUME NEW x \in S  PROVE m <= x
    <2>1. x \in Nat /\ m \in Nat /\ ~(x < m)
      BY <1>2, <1>3
    <2>. QED  BY <2>1
  <1>. QED  BY <1>4

\* The powers of ten up to the k-th.
Powers(g, k) == g \in [0..k -> Nat] /\ g[0] = 1 /\ \A i \in 1..k : g[i] = 10 * g[i - 1]

\* There is one list of powers, however long.
LEMMA PowersAgree ==
  ASSUME NEW k \in Nat, NEW m \in Nat, NEW g, NEW h, Powers(g, k), Powers(h, m), k <= m
  PROVE  \A i \in 0..k : g[i] = h[i]
  <1>. DEFINE S == {i \in 0..k : g[i] # h[i]}
  <1>1. SUFFICES ASSUME S # {} PROVE FALSE
    OBVIOUS
  <1>. S \subseteq Nat
    OBVIOUS
  <1>2. PICK j \in S : \A x \in S : j <= x
    BY <1>1, LeastNat
  <1>3. j \in 1..k
    BY <1>2 DEF Powers
  <1>4. j - 1 \in 0..k /\ j - 1 \notin S
    BY <1>2, <1>3
  <1>5. g[j - 1] = h[j - 1] /\ j \in 1..m
    BY <1>3, <1>4
  <1>6. g[j] = h[j]
    BY <1>3, <1>5 DEF Powers
  <1>. QED  BY <1>2, <1>6

\* And there is one of every length.
LEMMA PowersExist ==
  ASSUME NEW k \in Nat
  PROVE  \E g : Powers(g, k)
  <1>. DEFINE S == {i \in Nat : ~\E g : Powers(g, i)}
  <1>1. SUFFICES ASSUME S # {} PROVE FALSE
    OBVIOUS
  <1>2. PICK j \in S : \A x \in S : j <= x
    BY <1>1, LeastNat
  <1>3. CASE j = 0
    <2>1. Powers([i \in 0..0 |-> 1], 0)
      BY DEF Powers
    <2>. QED  BY <1>2, <1>3, <2>1
  <1>4. CASE j # 0
    <2>1. j - 1 \in Nat /\ j - 1 \notin S
      BY <1>2, <1>4
    <2>2. PICK g : Powers(g, j - 1)
      BY <2>1
    <2>3. PICK h : h = [i \in 0..j |-> IF i = j THEN 10 * g[j - 1] ELSE g[i]]
      OBVIOUS
    <2>4. g \in [0..j - 1 -> Nat] /\ j \in Nat
      BY <1>2, <2>2 DEF Powers
    <2>5. \A i \in 0..j : h[i] = IF i = j THEN 10 * g[j - 1] ELSE g[i]
      BY <2>3
    <2>6. h \in [0..j -> Nat] /\ h[0] = 1
      BY <2>2, <2>3, <2>4, <1>4 DEF Powers
    <2>7. ASSUME NEW i \in 1..j  PROVE h[i] = 10 * h[i - 1]
      <3>1. i - 1 \in 0..j /\ i - 1 # j /\ i \in 0..j
        BY <2>4
      <3>2. h[i - 1] = g[i - 1] /\ h[i] = IF i = j THEN 10 * g[j - 1] ELSE g[i]
        BY <2>5, <3>1
      <3>3. CASE i = j
        BY <3>2, <3>3
      <3>4. CASE i # j
        <4>1. i \in 1..j - 1
          BY <2>4, <3>4
        <4>. QED  BY <2>2, <3>2, <3>4, <4>1 DEF Powers
      <3>. QED  BY <3>3, <3>4
    <2>. QED  BY <1>2, <2>6, <2>7 DEF Powers
  <1>. QED  BY <1>3, <1>4

\* Ten is the function its equation defines.
LEMMA TenDef ==
  /\ Ten[0] = 1
  /\ \A k \in Nat : Ten[k + 1] = 10 * Ten[k]
  /\ \A k \in Nat : Ten[k] \in Nat \ {0}
  <1>1. PICK f : f = [k \in Nat |-> (CHOOSE g : Powers(g, k))[k]]
    OBVIOUS
  <1>2. \A k \in Nat : Powers(CHOOSE g : Powers(g, k), k)
    BY PowersExist
  <1>3. ASSUME NEW k \in Nat, NEW g, Powers(g, k), NEW i \in 0..k  PROVE f[i] = g[i]
    <2>1. PICK h : h = (CHOOSE y : Powers(y, i)) /\ Powers(h, i)
      BY <1>2
    <2>2. h[i] = g[i]
      BY <2>1, <1>3, PowersAgree
    <2>. QED  BY <1>1, <2>1, <2>2
  <1>4. f[0] = 1
    <2>1. PICK g : Powers(g, 0)
      BY PowersExist
    <2>2. f[0] = g[0]
      BY <1>3, <2>1
    <2>. QED  BY <2>1, <2>2 DEF Powers
  <1>5. ASSUME NEW k \in Nat \ {0}  PROVE f[k] = 10 * f[k - 1] /\ f[k - 1] \in Nat
    <2>1. PICK g : Powers(g, k)
      BY PowersExist
    <2>2. f[k] = g[k] /\ f[k - 1] = g[k - 1]
      BY <1>3, <2>1
    <2>. QED  BY <2>1, <2>2 DEF Powers
  <1>6. f = [k \in Nat |-> IF k = 0 THEN 1 ELSE 10 * f[k - 1]]
    BY <1>1, <1>4, <1>5
  <1>7. Ten = [k \in Nat |-> IF k = 0 THEN 1 ELSE 10 * Ten[k - 1]]
    BY <1>6 DEF Ten
  <1>8. \A k \in Nat : Ten[k + 1] = 10 * Ten[k]
    BY <1>7
  <1>9. Ten[0] = 1
    BY <1>7
  <1>10. \A k \in Nat : Ten[k] \in Nat \ {0}
    <2>. DEFINE S == {k \in Nat : Ten[k] \notin Nat \ {0}}
    <2>1. SUFFICES ASSUME S # {} PROVE FALSE
      OBVIOUS
    <2>2. PICK j \in S : \A x \in S : j <= x
      BY <2>1, LeastNat
    <2>3. j # 0
      BY <1>9, <2>2
    <2>4. j - 1 \in Nat /\ Ten[j - 1] \in Nat \ {0}
      BY <2>2, <2>3
    <2>5. Ten[j] = 10 * Ten[j - 1]
      BY <1>8, <2>3, <2>4
    <2>. QED  BY <2>2, <2>4, <2>5
  <1>. QED  BY <1>8, <1>9, <1>10

\* Quotient and remainder, named.
LEMMA DivIs ==
  ASSUME NEW n \in Nat, NEW d \in Nat \ {0}
  PROVE  \E q, r \in Nat : q = n \div d /\ r = n % d /\ r < d /\ n = d * q + r
  <1>1. n \div d \in Nat /\ n % d \in 0..d - 1
    OBVIOUS
  <1>2. PICK q \in Nat : q = n \div d
    BY <1>1
  <1>3. PICK r \in Nat : r = n % d
    BY <1>1
  <1>4. r < d
    BY <1>1, <1>3
  <1>5. n = d * q + r
    BY <1>2, <1>3
  <1>. QED  BY <1>2, <1>3, <1>4, <1>5, Zenon

\* They are the only ones.
LEMMA DivOnly ==
  ASSUME NEW d \in Nat \ {0}, NEW q \in Nat, NEW r \in 0..d - 1
  PROVE  (d * q + r) \div d = q /\ (d * q + r) % d = r
  <1>. DEFINE n == d * q + r
           Q == n \div d
           R == n % d
  <1>1. n \in Nat
    OBVIOUS
  <1>2. Q \in Nat /\ R \in Nat /\ R < d /\ n = d * Q + R
    BY <1>1, DivIs
  <1>3. ASSUME NEW x \in Nat, NEW y \in Nat, x < y  PROVE d * x + d <= d * y
    <2>1. d * (y - x) >= d
      <3>1. PICK z \in Nat : z = y - x - 1
        BY <1>3
      <3>2. d * (z + 1) = d * z + d /\ d * z \in Nat
        OBVIOUS
      <3>. QED  BY <3>1, <3>2
    <2>. QED  BY <2>1
  <1>. HIDE DEF Q, R
  <1>4. Q = q
    <2>1. CASE Q < q
      <3>1. d * Q + d <= d * q
        BY <1>2, <1>3, <2>1
      <3>. QED  BY <1>2, <3>1
    <2>2. CASE q < Q
      <3>1. d * q + d <= d * Q
        BY <1>2, <1>3, <2>2
      <3>. QED  BY <1>2, <3>1
    <2>. QED  BY <1>2, <2>1, <2>2
  <1>. QED  BY <1>2, <1>4 DEF Q, R

\* The digits of a product.
LEMMA TenSum ==
  ASSUME NEW i \in Nat, NEW j \in Nat
  PROVE  Ten[i + j] = Ten[i] * Ten[j]
  <1>. DEFINE S == {k \in Nat : Ten[i + k] # Ten[i] * Ten[k]}
  <1>1. SUFFICES ASSUME S # {} PROVE FALSE
    OBVIOUS
  <1>2. PICK k \in S : \A x \in S : k <= x
    BY <1>1, LeastNat
  <1>3. k # 0
    BY <1>2, TenDef
  <1>4. k - 1 \in Nat /\ k - 1 \notin S
    BY <1>2, <1>3
  <1>5. Ten[k] = 10 * Ten[k - 1] /\ Ten[i + k] = 10 * Ten[i + k - 1]
    BY <1>4, TenDef
  <1>6. Ten[i + (k - 1)] = Ten[i] * Ten[k - 1]
    BY <1>4
  <1>7. PICK a, b \in Nat : a = Ten[i] /\ b = Ten[k - 1]
    BY <1>4, TenDef
  <1>8. a * (10 * b) = 10 * (a * b)
    OBVIOUS
  <1>. QED  BY <1>2, <1>4, <1>5, <1>6, <1>7, <1>8

\* A longer power is a multiple of a shorter one.
LEMMA TenGrows ==
  ASSUME NEW i \in Nat, NEW j \in Nat, i <= j
  PROVE  /\ Ten[i] <= Ten[j] /\ Ten[j] = Ten[i] * Ten[j - i]
         /\ i < j => 10 * Ten[i] <= Ten[j]
  <1>1. Ten[j] = Ten[i] * Ten[j - i]
    BY TenSum
  <1>2. PICK a \in Nat \ {0} : a = Ten[i]
    BY TenDef
  <1>5. PICK b \in Nat \ {0} : b = Ten[j - i]
    BY TenDef
  <1>3. a <= a * b
    OBVIOUS
  <1>4. ASSUME i < j  PROVE 10 * a <= Ten[j]
    <2>1. PICK c \in Nat \ {0} : c = Ten[j - i - 1]
      BY <1>4, TenDef
    <2>2. b = 10 * c
      BY <1>4, <1>5, <2>1, TenDef
    <2>3. a <= a * c /\ a * (10 * c) = 10 * (a * c)
      OBVIOUS
    <2>. QED  BY <1>1, <1>2, <1>5, <2>2, <2>3
  <1>. QED  BY <1>1, <1>2, <1>3, <1>4, <1>5

\* The number above the last k digits, and they.
Parts(n, k, q, r) ==
  /\ q \in Nat /\ q = Cut(n, k)
  /\ r \in Nat /\ r = n % Ten[k] /\ r < Ten[k]
  /\ n = Ten[k] * q + r

\* Every number has these parts.
LEMMA CutIs ==
  ASSUME NEW n \in Nat, NEW k \in Nat
  PROVE  \E q, r : Parts(n, k, q, r)
  <1>1. PICK d \in Nat \ {0} : d = Ten[k]
    BY TenDef
  <1>2. PICK q, r \in Nat : q = n \div d /\ r = n % d /\ r < d /\ n = d * q + r
    BY DivIs
  <1>3. Parts(n, k, q, r)
    BY <1>1, <1>2 DEF Parts, Cut
  <1>. QED  BY <1>3

\* And no others.
LEMMA CutOnly ==
  ASSUME NEW k \in Nat, NEW q \in Nat, NEW r \in 0..Ten[k] - 1
  PROVE  Cut(Ten[k] * q + r, k) = q /\ (Ten[k] * q + r) % Ten[k] = r
  BY DivOnly, TenDef DEF Cut

\* A smaller number does not become the larger one.
LEMMA CutMono ==
  ASSUME NEW m \in Nat, NEW n \in Nat, NEW k \in Nat, m <= n
  PROVE  Cut(m, k) <= Cut(n, k)
  <1>1. PICK d \in Nat \ {0} : d = Ten[k]
    BY TenDef
  <1>6. PICK a, r : Parts(m, k, a, r)
    BY CutIs
  <1>7. PICK b, s : Parts(n, k, b, s)
    BY CutIs
  <1>2. /\ a = Cut(m, k) /\ m = d * a + r
        /\ b = Cut(n, k) /\ n = d * b + s /\ r < d /\ s < d
        /\ {a, b, r, s} \subseteq Nat
    BY <1>1, <1>6, <1>7 DEF Parts
  <1>3. SUFFICES ASSUME b < a PROVE FALSE
    BY <1>2
  <1>4. PICK c \in Nat : a = b + 1 + c
    <2>1. a - b - 1 \in Nat
      BY <1>2, <1>3
    <2>. QED  BY <1>2, <2>1
  <1>5. d * a = d * b + d + d * c /\ d * c \in Nat
    BY <1>2, <1>4
  <1>. QED  BY <1>2, <1>5

\* Digits are cut at once or one after the other.
LEMMA CutCut ==
  ASSUME NEW n \in Nat, NEW i \in Nat, NEW j \in Nat
  PROVE  Cut(Cut(n, i), j) = Cut(n, i + j)
  <1>1. PICK a, b \in Nat \ {0} : a = Ten[i] /\ b = Ten[j] /\ Ten[i + j] = a * b
    BY TenDef, TenSum
  <1>8. PICK q, r : Parts(n, i, q, r)
    BY CutIs
  <1>2. q \in Nat /\ r \in Nat /\ q = Cut(n, i) /\ r < a /\ n = a * q + r
    BY <1>1, <1>8 DEF Parts
  <1>9. PICK p, s : Parts(q, j, p, s)
    BY <1>2, CutIs
  <1>3. p \in Nat /\ s \in Nat /\ p = Cut(q, j) /\ s < b /\ q = b * p + s
    BY <1>1, <1>9 DEF Parts
  <1>4. a * q = (a * b) * p + a * s
    BY <1>2, <1>3
  <1>5. a * s \in Nat /\ a * s + a <= a * b
    <2>1. PICK c \in Nat : b = s + 1 + c
      <3>1. b - s - 1 \in Nat
        BY <1>3
      <3>. QED  BY <1>3, <3>1
    <2>2. a * b = a * s + a + a * c /\ a * c \in Nat /\ a * s \in Nat
      BY <1>3, <2>1
    <2>. QED  BY <2>2
  <1>10. PICK k \in Nat : k = i + j
    OBVIOUS
  <1>11. PICK t \in Nat : t = a * s + r
    BY <1>2, <1>5
  <1>6. t \in 0..Ten[k] - 1 /\ n = Ten[k] * p + t
    BY <1>1, <1>2, <1>3, <1>4, <1>5, <1>10, <1>11
  <1>7. Cut(Ten[k] * p + t, k) = p
    BY <1>3, <1>6, CutOnly
  <1>12. Cut(n, k) = p
    BY <1>6, <1>7
  <1>. QED  BY <1>2, <1>3, <1>10, <1>12

\* A number that ends in k zeros.
LEMMA EndsIn ==
  ASSUME NEW n \in Nat, NEW k \in Nat
  PROVE  n % Ten[k] = 0 <=> n = Ten[k] * Cut(n, k)
  <1>1. PICK d \in Nat \ {0} : d = Ten[k]
    BY TenDef
  <1>2. PICK a, r : Parts(n, k, a, r)
    BY CutIs
  <1>3. /\ a \in Nat /\ a = Cut(n, k) /\ r \in Nat /\ r = n % Ten[k]
        /\ n = d * a + r
    BY <1>1, <1>2 DEF Parts
  <1>5. PICK m \in Nat : m = d * a
    BY <1>3
  <1>6. n = m + r
    BY <1>3, <1>5, Zenon
  <1>7. r \in Nat
    BY <1>3
  <1>4. r = 0 <=> n = m
    BY <1>6, <1>7
  <1>. QED  BY <1>1, <1>3, <1>4, <1>5

\* What is cut of a number that ends in k zeros.
LEMMA Multiple ==
  ASSUME NEW q \in Nat, NEW k \in Nat
  PROVE  Cut(Ten[k] * q, k) = q /\ (Ten[k] * q) % Ten[k] = 0
  <1>1. 0 \in 0..Ten[k] - 1 /\ Ten[k] * q + 0 = Ten[k] * q
    BY TenDef
  <1>. QED  BY <1>1, CutOnly

\* It ends in fewer zeros, too.
LEMMA EndsInFewer ==
  ASSUME NEW n \in Nat, NEW k \in Nat, NEW i \in 0..k, n % Ten[k] = 0
  PROVE  n % Ten[i] = 0
  <1>5. PICK a \in Nat \ {0} : a = Ten[i]
    BY TenDef
  <1>6. PICK b \in Nat \ {0} : b = Ten[k - i]
    BY TenDef
  <1>1. Ten[k] = a * b
    BY <1>5, <1>6, TenGrows
  <1>2. PICK q \in Nat : q = Cut(n, k)
    BY CutIs DEF Parts
  <1>7. n = Ten[k] * q
    BY <1>2, EndsIn
  <1>3. (a * b) * q = a * (b * q) /\ b * q \in Nat
    OBVIOUS
  <1>4. n = Ten[i] * (b * q)
    BY <1>1, <1>3, <1>5, <1>7
  <1>. QED  BY <1>3, <1>4, Multiple

\* The powers that the code names.
LEMMA SmallTens ==
  /\ Ten[0] = 1 /\ Ten[1] = 10 /\ Ten[2] = 100 /\ Ten[3] = 1000 /\ Ten[4] = 10000
  /\ Ten[5] = 100000
  <1>1. Ten[0] = 1 /\ Ten[0 + 1] = 10 * Ten[0] /\ Ten[1 + 1] = 10 * Ten[1]
        /\ Ten[2 + 1] = 10 * Ten[2] /\ Ten[3 + 1] = 10 * Ten[3] /\ Ten[4 + 1] = 10 * Ten[4]
    BY TenDef
  <1>. QED  BY <1>1

\* One zero more at the end.
LEMMA EndsInNext ==
  ASSUME NEW n \in Nat, NEW k \in Nat
  PROVE  n % Ten[k + 1] = 0 <=> n % Ten[k] = 0 /\ Cut(n, k) % 10 = 0
  <1>1. PICK q \in Nat : q = Cut(n, k)
    BY CutIs DEF Parts
  <1>2. Cut(q, 1) = Cut(n, k + 1) /\ Ten[k + 1] = 10 * Ten[k] /\ Ten[1] = 10
    BY <1>1, CutCut, TenDef, SmallTens
  <1>3. PICK p \in Nat : p = Cut(q, 1)
    BY CutIs DEF Parts
  <1>4. PICK d \in Nat \ {0} : d = Ten[k]
    BY TenDef
  <1>5. (10 * d) * p = d * (10 * p) /\ 10 * p \in Nat
    OBVIOUS
  <1>6. ASSUME n % Ten[k + 1] = 0  PROVE n % Ten[k] = 0 /\ q % 10 = 0
    <2>1. n = Ten[k + 1] * p
      BY <1>2, <1>3, <1>6, EndsIn
    <2>2. n = Ten[k] * (10 * p)
      BY <1>2, <1>4, <1>5, <2>1
    <2>3. n % Ten[k] = 0 /\ q = 10 * p
      BY <1>1, <1>5, <2>2, Multiple
    <2>. QED  BY <2>3
  <1>7. ASSUME n % Ten[k] = 0, q % 10 = 0  PROVE n % Ten[k + 1] = 0
    <2>1. n = d * q
      BY <1>1, <1>4, <1>7, EndsIn
    <2>2. q = 10 * p
      BY <1>2, <1>3, <1>7, EndsIn
    <2>3. n = Ten[k + 1] * p
      BY <1>2, <1>4, <1>5, <2>1, <2>2
    <2>. QED  BY <2>3, Multiple
  <1>. QED  BY <1>1, <1>6, <1>7

\* The zeros at the end are counted in one way only.
LEMMA ZerosIs ==
  ASSUME NEW n \in Nat, NEW z \in 0..MaxWidth, MaxWidth \in Nat, n % Ten[z] = 0, Cut(n, z) % 10 # 0
  PROVE  Zeros(n) = z
  <1>1. ASSUME NEW x \in Nat, NEW y \in Nat, x < y, n % Ten[y] = 0  PROVE Cut(n, x) % 10 = 0
    <2>1. n % Ten[x + 1] = 0
      BY <1>1, EndsInFewer
    <2>. QED  BY <2>1, EndsInNext
  <1>2. ASSUME NEW y \in 0..MaxWidth, n % Ten[y] = 0, Cut(n, y) % 10 # 0  PROVE y = z
    BY <1>1, <1>2
  <1>. QED  BY <1>2 DEF Zeros

\* A deposit's amount with the code at its end: a are the digits before the code.
Coded(n, id, a, m, r) ==
  /\ n = 10000 * a + 9000 + id
  /\ id = 10 * m + r /\ r < 10 /\ r = id % 10
  /\ r # 0 => Zeros(n) = 0 /\ TrimZeros(n) = n
  /\ r = 0 => Zeros(n) = 1 /\ TrimZeros(n) = 1000 * a + 900 + m

LEMMA CodeDigits ==
  ASSUME NEW n \in Nat, NEW id \in KnownIds, n % PNumber = 9000 + id, MaxWidth \in Nat \ {0}
  PROVE  \E a, m, r \in Nat : Coded(n, id, a, m, r)
  <1>. id \in Nat
    BY DEF KnownIds
  <1>1. PICK a \in Nat : n = 10000 * a + 9000 + id
    <2>1. n \div 10000 \in Nat /\ n = 10000 * (n \div 10000) + 9000 + id
      BY DEF PNumber
    <2>. QED  BY <2>1
  <1>2. PICK m, r \in Nat : m = id \div 10 /\ r = id % 10 /\ r < 10 /\ id = 10 * m + r
    BY DivIs
  <1>4. n # 0 /\ Ten[0] = 1 /\ Ten[1] = 10
    BY <1>1, SmallTens
  <1>5. CASE r # 0
    <2>1. n % 10 # 0
      BY <1>1, <1>2, <1>5
    <2>2. Cut(n, 0) = n /\ n % Ten[0] = 0
      BY <1>4 DEF Cut
    <2>3. Zeros(n) = 0
      BY <2>1, <2>2, ZerosIs
    <2>4. TrimZeros(n) = n
      BY <1>4, <2>2, <2>3 DEF TrimZeros
    <2>5. Coded(n, id, a, m, r)
      BY <1>1, <1>2, <1>5, <2>3, <2>4 DEF Coded
    <2>. QED  BY <2>5
  <1>6. CASE r = 0
    <2>6. PICK q \in Nat : q = 1000 * a + 900 + m
      OBVIOUS
    <2>1. n = 10 * q + 0
      BY <1>1, <1>2, <1>6, <2>6
    <2>2. n % Ten[1] = 0 /\ Cut(n, 1) = q
      BY <1>4, <2>1, DivOnly DEF Cut
    <2>3. m \in 1..9 \cup 51..59
      BY <1>2, <1>6 DEF KnownIds
    <2>4. q % 10 # 0
      BY <2>3, <2>6
    <2>5. Zeros(n) = 1
      BY <2>2, <2>4, ZerosIs
    <2>7. TrimZeros(n) = q
      BY <1>4, <2>2, <2>5 DEF TrimZeros
    <2>8. Coded(n, id, a, m, r)
      BY <1>1, <1>2, <1>6, <2>5, <2>6, <2>7 DEF Coded
    <2>. QED  BY <2>8
  <1>. QED  BY <1>5, <1>6

\* What is read of it is the id, or, of the ids above 99 that end in 0, no id.
LEMMA SecurityReads ==
  ASSUME NEW n \in Nat, NEW id \in KnownIds, n % PNumber = 9000 + id, MaxWidth \in Nat \ {0},
         NEW d \in Nat, d >= 5
  PROVE  /\ SecurityCode(n, d) = id \/ SecurityCode(n, d) \in {0} \cup 951..959
         /\ id % 10 # 0 \/ id < 100 => SecurityCode(n, d) = id
  <1>0. PICK a, m, r \in Nat : Coded(n, id, a, m, r)
    BY CodeDigits
  <1>1. /\ n = 10000 * a + 9000 + id
        /\ id = 10 * m + r /\ r < 10 /\ r = id % 10
        /\ r # 0 => Zeros(n) = 0 /\ TrimZeros(n) = n
        /\ r = 0 => Zeros(n) = 1 /\ TrimZeros(n) = 1000 * a + 900 + m
    BY <1>0 DEF Coded
  <1>. id \in Nat /\ id # 0 /\ id < 600
    BY DEF KnownIds
  <1>2. PICK t \in Nat : t = TrimZeros(n)
    BY <1>1
  <1>3. n # 0 /\ ~(DecimalsLeft(n, d) \in 1..3) /\ DecimalsLeft(n, d) # 0
    BY <1>1 DEF DecimalsLeft
  <1>4. PICK w \in Nat : w = t % PNumber
    BY <1>2 DEF PNumber
  <1>5. SecurityCode(n, d) =
          ChainCode(CASE w >= 1000 /\ (w \div 10) % 100 = 90 /\ w % 10 # 0 -> (w % 1000) * 10
                      [] w \in 100..999 -> w * 10
                      [] OTHER -> w)
    BY <1>2, <1>3, <1>4 DEF SecurityCode
  <1>6. CASE r # 0
    <2>1. w = 9000 + id
      BY <1>1, <1>2, <1>4, <1>6 DEF PNumber
    <2>2. (w \div 10) % 100 # 90 /\ w \notin 100..999
      BY <2>1
    <2>3. SecurityCode(n, d) = ChainCode(w)
      BY <1>5, <2>2
    <2>4. ChainCode(w) = id
      BY <2>1 DEF ChainCode
    <2>. QED  BY <2>3, <2>4
  <1>7. CASE r = 0
    <2>1. t = 1000 * a + 900 + m /\ m \in 1..9 \cup 51..59
      BY <1>1, <1>2, <1>7 DEF KnownIds
    <2>2. PICK b \in 0..9 : w = 1000 * b + 900 + m
      <3>1. PICK b \in Nat : b = a % 10
        OBVIOUS
      <3>2. PICK c \in Nat : a = 10 * c + b /\ b < 10
        <4>1. a \div 10 \in Nat /\ a = 10 * (a \div 10) + b /\ b < 10
          BY <3>1
        <4>. QED  BY <4>1
      <3>3. w = 1000 * b + 900 + m
        BY <1>4, <2>1, <3>2 DEF PNumber
      <3>. QED  BY <3>2, <3>3
    <2>3. CASE b = 0
      <3>1. w \in 100..999 /\ ~(w >= 1000) /\ w * 10 = 9000 + id
        BY <1>1, <1>7, <2>1, <2>2, <2>3
      <3>2. SecurityCode(n, d) = ChainCode(9000 + id)
        BY <1>5, <3>1
      <3>. QED  BY <3>2 DEF ChainCode
    <2>4. CASE b # 0 /\ m < 10
      <3>1. w >= 1000 /\ (w \div 10) % 100 = 90 /\ w % 10 # 0 /\ (w % 1000) * 10 = 9000 + id
        BY <1>1, <1>7, <2>1, <2>2, <2>4
      <3>2. SecurityCode(n, d) = ChainCode(9000 + id)
        BY <1>5, <3>1
      <3>. QED  BY <3>2 DEF ChainCode
    <2>5. CASE b # 0 /\ m \in 51..59
      <3>1. (w \div 10) % 100 # 90 /\ w \notin 100..999
        BY <2>2, <2>5
      <3>2. SecurityCode(n, d) = ChainCode(w)
        BY <1>5, <3>1
      <3>3. ChainCode(w) \in {0} \cup 951..959 /\ id > 99 /\ id % 10 = 0
        BY <1>1, <1>7, <2>2, <2>5 DEF ChainCode
      <3>. QED  BY <3>2, <3>3
    <2>. QED  BY <2>1, <2>3, <2>4, <2>5
  <1>. QED  BY <1>6, <1>7

\* The same on zkSync Lite, where all ids that end in 0 may be lost above 99.
LEMMA ZksyncLiteReads ==
  ASSUME NEW n \in Nat, NEW id \in KnownIds, n % PNumber = 9000 + id, MaxWidth \in Nat \ {0},
         NEW d \in Nat, d >= 5
  PROVE  /\ ZksyncLiteCode(n, d) = id \/ ZksyncLiteCode(n, d) \in {0} \cup 901..959
         /\ id % 10 # 0 => ZksyncLiteCode(n, d) = id
  <1>0. PICK a, m, r \in Nat : Coded(n, id, a, m, r)
    BY CodeDigits
  <1>1. /\ n = 10000 * a + 9000 + id
        /\ id = 10 * m + r /\ r < 10 /\ r = id % 10
        /\ r # 0 => Zeros(n) = 0 /\ TrimZeros(n) = n
        /\ r = 0 => Zeros(n) = 1 /\ TrimZeros(n) = 1000 * a + 900 + m
    BY <1>0 DEF Coded
  <1>. id \in Nat /\ id # 0 /\ id < 600
    BY DEF KnownIds
  <1>2. PICK t \in Nat : t = TrimZeros(n)
    BY <1>1
  <1>3. n # 0 /\ DecimalsLeft(n, d) \notin 0..3
    BY <1>1 DEF DecimalsLeft
  <1>4. PICK w \in Nat : w = t % PNumber
    BY <1>2 DEF PNumber
  <1>5. ZksyncLiteCode(n, d) =
          CASE w >= 9000 -> ChainCode(w)
            [] w < 9000 /\ w % 1000 >= 900 -> ChainCode((w % 1000) * 10)
            [] OTHER -> 0
    BY <1>2, <1>3, <1>4 DEF ZksyncLiteCode
  <1>6. CASE r # 0
    <2>1. w = 9000 + id
      BY <1>1, <1>2, <1>4, <1>6 DEF PNumber
    <2>3. ZksyncLiteCode(n, d) = ChainCode(w)
      BY <1>5, <2>1
    <2>4. ChainCode(w) = id
      BY <2>1 DEF ChainCode
    <2>. QED  BY <2>3, <2>4
  <1>7. CASE r = 0
    <2>1. t = 1000 * a + 900 + m /\ m \in 1..9 \cup 51..59
      BY <1>1, <1>2, <1>7 DEF KnownIds
    <2>2. PICK b \in 0..9 : w = 1000 * b + 900 + m
      <3>1. PICK b \in Nat : b = a % 10
        OBVIOUS
      <3>2. PICK c \in Nat : a = 10 * c + b /\ b < 10
        <4>1. a \div 10 \in Nat /\ a = 10 * (a \div 10) + b /\ b < 10
          BY <3>1
        <4>. QED  BY <4>1
      <3>3. w = 1000 * b + 900 + m
        BY <1>4, <2>1, <3>2 DEF PNumber
      <3>. QED  BY <3>2, <3>3
    <2>3. CASE b = 9
      <3>1. w >= 9000 /\ w % 1000 = 900 + m
        BY <2>1, <2>2, <2>3
      <3>2. ZksyncLiteCode(n, d) = ChainCode(w)
        BY <1>5, <3>1
      <3>3. ChainCode(w) \in 901..959
        BY <2>1, <2>2, <2>3 DEF ChainCode
      <3>. QED  BY <1>1, <1>7, <3>2, <3>3
    <2>4. CASE b # 9
      <3>1. w < 9000 /\ ~(w >= 9000) /\ w % 1000 = 900 + m /\ (w % 1000) * 10 = 9000 + id
        BY <1>1, <1>7, <2>1, <2>2, <2>4
      <3>2. ZksyncLiteCode(n, d) = ChainCode(9000 + id)
        BY <1>5, <3>1
      <3>. QED  BY <3>2 DEF ChainCode
    <2>. QED  BY <2>3, <2>4
  <1>. QED  BY <1>6, <1>7

\* What is built is the outcome of the deposit.
BuildInv == tx \in Deposits /\ (built = NotBuilt \/ built = Outcome(tx))

\* A row is built in one step and stays.
LEMMA BuiltOnce == BuildSpec => []BuildInv
  <1>1. BuildInit => BuildInv
    BY DEF BuildInit, BuildInv
  <1>2. BuildInv /\ [Build]_rowVars => BuildInv'
    <2>. SUFFICES ASSUME BuildInv, [Build]_rowVars  PROVE BuildInv'
      OBVIOUS
    <2>1. CASE Build
      <3>1. tx' = tx /\ built' = Outcome(tx)
        BY <2>1 DEF Build
      <3>. QED  BY <3>1 DEF BuildInv
    <2>2. CASE UNCHANGED rowVars
      BY <2>2 DEF BuildInv, rowVars
    <2>. QED  BY <2>1, <2>2
  <1>. QED  BY <1>1, <1>2, PTL DEF BuildSpec

\* A field of Object.assign.
LEMMA AssignKeeps ==
  ASSUME NEW a, NEW b, NEW f \in DOMAIN a
  PROVE  Assign(a, b)[f] = IF f \in DOMAIN b THEN b[f] ELSE a[f]
  BY DEF Assign

\* Filling in token and address leaves the chain alone.
LEMMA FilledKeeps ==
  ASSUME NEW t, "targetChain" \in DOMAIN BuilderData(t)
  PROVE  Filled(t).targetChain = BuilderData(t).targetChain
  BY AssignKeeps DEF Filled

\* The chain that a plain deposit is built for is the one in its code.
LEMMA PlainChain ==
  ASSUME NEW t \in Deposits, t.call = "plain", t.params = Nowhere, t.chain \notin Loopring
  PROVE  Filled(t).targetChain = IF t.chain = ZkSync
           THEN ChainOf(ZksyncLiteCode(t.value, Decimals[t.token])) ELSE CodeChain(t)
  <1>1. ~t.params.named /\ t.params.who = Undefined
    BY DEF Nowhere
  <1>2. StandardBuild(t).targetChain = CodeChain(t) /\ "targetChain" \in DOMAIN StandardBuild(t)
    BY <1>1 DEF StandardBuild
  <1>3. CASE t.chain \in Starknet
    <2>1. BuilderData(t) = Assign(StandardBuild(t), StarknetOBSourceBuild(t))
      BY <1>3, BuilderAssumption DEF BuilderData
    <2>2. "targetChain" \in DOMAIN StarknetOBSourceBuild(t) =>
            StarknetOBSourceBuild(t).targetChain = CodeChain(t)
      BY AssignKeeps DEF StarknetOBSourceBuild, Nothing, Assign, ChainAndToken
    <2>3. BuilderData(t).targetChain = CodeChain(t) /\ "targetChain" \in DOMAIN BuilderData(t)
      BY <1>2, <2>1, <2>2 DEF Assign
    <2>. QED  BY <1>3, <2>3, FilledKeeps, BuilderAssumption
  <1>4. CASE t.chain = ZkSync
    <2>1. BuilderData(t) = Assign(Blank, ZksyncLiteBuild(t))
      BY <1>4, BuilderAssumption DEF BuilderData
    <2>2. ZksyncLiteBuild(t).targetChain = ChainOf(ZksyncLiteCode(t.value, Decimals[t.token]))
          /\ "targetChain" \in DOMAIN ZksyncLiteBuild(t)
      BY DEF ZksyncLiteBuild, Assign, ChainAndToken
    <2>3. /\ BuilderData(t).targetChain = ChainOf(ZksyncLiteCode(t.value, Decimals[t.token]))
          /\ "targetChain" \in DOMAIN BuilderData(t)
      BY <2>1, <2>2 DEF Assign
    <2>. QED  BY <1>4, <2>3, FilledKeeps
  <1>5. CASE t.chain \notin Starknet /\ t.chain # ZkSync
    <2>1. BuilderData(t) = StandardBuild(t)
      BY <1>5 DEF BuilderData
    <2>. QED  BY <1>2, <1>5, <2>1, FilledKeeps
  <1>. QED  BY <1>3, <1>4, <1>5

\* A row has the chain that the builders found.
LEMMA RowChain ==
  ASSUME NEW t, Outcome(t).kind = "row"
  PROVE  Outcome(t).targetChain = Filled(t).targetChain /\ Filled(t).targetChain # Undefined
  BY DEF Outcome, Row, Error, Thrown

\* A plain deposit with the code of a chain is never built for another chain,
\* whatever the amount, the tokens and the chains: the code is read over the
\* zeros that the decimal string has lost. The ids that end in 0 are found up to
\* 99, on zkSync Lite the others only.
THEOREM CodeRead == ASSUME KnownCodes  PROVE BuildSpec => []CodeIsRead
  <1>1. BuildInv => CodeIsRead
    <2>. SUFFICES ASSUME BuildInv, built.kind # "waiting", tx.call = "plain", tx.params = Nowhere,
                         tx.token # Undefined, tx.chain \notin Loopring,
                         NEW c \in Chains, Code(tx) - 9000 = InternalId[c]
                  PROVE  /\ built.kind = "row" => built.targetChain = ChainOf(InternalId[c])
                         /\ (InternalId[c] % 10 # 0 \/ (InternalId[c] < 100 /\ tx.chain # ZkSync))
                              => Filled(tx).targetChain = ChainOf(InternalId[c])
      BY DEF CodeIsRead
    <2>1. tx \in Deposits /\ built = Outcome(tx)
      BY DEF BuildInv, NotBuilt
    <2>2. tx.value \in Nat /\ tx.token \in Tokens
      BY <2>1, BuilderAssumption DEF Deposit
    <2>3. PICK id \in KnownIds : id = InternalId[c]
      BY DEF KnownCodes
    <2>4. tx.value % PNumber = 9000 + id
      <3>1. tx.value % PNumber \in Nat /\ id \in Nat
        BY <2>2 DEF PNumber, KnownIds
      <3>. QED  BY <2>3, <3>1 DEF Code
    <2>5. PICK d \in Nat : d = Decimals[tx.token] /\ d >= 5
      BY <2>2, BuilderAssumption, AmountsAssumption DEF KnownCodes
    <2>6. MaxWidth \in Nat \ {0}
      BY AmountsAssumption DEF KnownCodes
    <2>7. \A k \in {0} \cup 901..959 : ChainOf(k) = Undefined
      BY DEF ChainOf, KnownCodes, KnownIds
    <2>8. tx.chain = ZkSync =>
            /\ Filled(tx).targetChain \in {ChainOf(id), Undefined}
            /\ id % 10 # 0 => Filled(tx).targetChain = ChainOf(id)
      BY <2>1, <2>2, <2>3, <2>4, <2>5, <2>6, <2>7, PlainChain, ZksyncLiteReads
    <2>9. tx.chain # ZkSync =>
            /\ Filled(tx).targetChain \in {ChainOf(id), Undefined}
            /\ id % 10 # 0 \/ id < 100 => Filled(tx).targetChain = ChainOf(id)
      BY <2>1, <2>2, <2>3, <2>4, <2>5, <2>6, <2>7, PlainChain, SecurityReads DEF CodeChain
    <2>. QED  BY <2>1, <2>3, <2>8, <2>9, RowChain
  <1>. QED  BY <1>1, BuiltOnce, PTL

\* w digits: the first is not 0, unless the number is 0.
HasWidth(n, w) == w \in 1..MaxWidth /\ n < Ten[w] /\ (w > 1 => n >= Ten[w - 1])

\* A number has one width.
LEMMA WidthIs ==
  ASSUME NEW n \in Nat, MaxWidth \in Nat, NEW w, HasWidth(n, w)
  PROVE  Width(n) = w
  <1>1. ASSUME NEW x, NEW y, HasWidth(n, x), HasWidth(n, y), x < y  PROVE FALSE
    <2>1. x \in Nat /\ y \in Nat /\ y > 1 /\ x <= y - 1 /\ y - 1 \in Nat
      BY <1>1 DEF HasWidth
    <2>2. Ten[x] <= Ten[y - 1] /\ Ten[x] \in Nat /\ Ten[y - 1] \in Nat
      BY <2>1, TenGrows, TenDef
    <2>3. n < Ten[x] /\ n >= Ten[y - 1]
      BY <1>1, <2>1 DEF HasWidth
    <2>. QED  BY <2>2, <2>3
  <1>2. ASSUME NEW x, HasWidth(n, x)  PROVE x = w
    <2>1. x \in Nat /\ w \in Nat
      BY <1>2 DEF HasWidth
    <2>. QED  BY <1>1, <1>2, <2>1
  <1>3. Width(n) = CHOOSE x \in 1..MaxWidth : HasWidth(n, x)
    BY DEF Width, HasWidth
  <1>4. HasWidth(n, w) /\ w \in 1..MaxWidth
    BY DEF HasWidth
  <1>. QED  BY <1>2, <1>3, <1>4

\* And it has one, if it fits in the bound.
LEMMA WidthHas ==
  ASSUME NEW n \in Nat, MaxWidth \in Nat \ {0}, n < Ten[MaxWidth]
  PROVE  HasWidth(n, Width(n))
  <1>. DEFINE S == {w \in Nat : w > 0 /\ n < Ten[w]}
  <1>1. S # {} /\ S \subseteq Nat
    OBVIOUS
  <1>2. PICK w \in S : \A x \in S : w <= x
    BY <1>1, LeastNat
  <1>3. MaxWidth \in S
    OBVIOUS
  <1>4. w \in 1..MaxWidth /\ n < Ten[w]
    BY <1>2, <1>3
  <1>5. ASSUME w > 1  PROVE n >= Ten[w - 1]
    <2>1. w - 1 \in Nat /\ w - 1 > 0 /\ w - 1 \notin S
      BY <1>2, <1>5
    <2>2. Ten[w - 1] \in Nat
      BY <2>1, TenDef
    <2>. QED  BY <2>1, <2>2
  <1>6. HasWidth(n, w)
    BY <1>4, <1>5 DEF HasWidth
  <1>. QED  BY <1>6, WidthIs

\* The type of a number without its last digits.
LEMMA CutNat ==
  ASSUME NEW n \in Nat, NEW k \in Nat
  PROVE  Cut(n, k) \in Nat
  <1>1. PICK q, r : Parts(n, k, q, r)
    BY CutIs
  <1>. QED  BY <1>1 DEF Parts

\* What is left when a number loses its last digits.
LEMMA CutBound ==
  ASSUME NEW n \in Nat, NEW i \in Nat, NEW j \in Nat, n < Ten[i + j]
  PROVE  Cut(n, i) < Ten[j]
  <1>1. PICK a \in Nat \ {0} : a = Ten[i]
    BY TenDef
  <1>2. PICK b \in Nat \ {0} : b = Ten[j]
    BY TenDef
  <1>3. Ten[i + j] = a * b
    BY <1>1, <1>2, TenSum
  <1>4. PICK q, r : Parts(n, i, q, r)
    BY CutIs
  <1>5. q \in Nat /\ r \in Nat /\ q = Cut(n, i) /\ n = a * q + r
    BY <1>1, <1>4 DEF Parts
  <1>6. SUFFICES ASSUME q >= b  PROVE FALSE
    BY <1>2, <1>5
  <1>7. PICK c \in Nat : q = b + c
    <2>1. q - b \in Nat /\ q = b + (q - b)
      BY <1>5, <1>6
    <2>. QED  BY <2>1, Zenon
  <1>8. a * q = a * b + a * c /\ a * c \in Nat /\ a * b \in Nat
    BY <1>7
  <1>. QED  BY <1>3, <1>5, <1>8

\* It has at least so many digits,
LEMMA CutReach ==
  ASSUME NEW n \in Nat, NEW i \in Nat, NEW j \in Nat, n >= Ten[i + j]
  PROVE  Cut(n, i) >= Ten[j]
  <1>1. PICK a \in Nat \ {0} : a = Ten[i]
    BY TenDef
  <1>2. PICK b \in Nat \ {0} : b = Ten[j]
    BY TenDef
  <1>3. Ten[i + j] = a * b
    BY <1>1, <1>2, TenSum
  <1>4. PICK q, r : Parts(n, i, q, r)
    BY CutIs
  <1>5. q \in Nat /\ r \in Nat /\ q = Cut(n, i) /\ r < a /\ n = a * q + r
    BY <1>1, <1>4 DEF Parts
  <1>6. SUFFICES ASSUME q < b  PROVE FALSE
    BY <1>2, <1>5
  <1>7. PICK c \in Nat : b = q + 1 + c
    <2>1. b - q - 1 \in Nat
      BY <1>5, <1>6
    <2>. QED  BY <1>5, <2>1
  <1>9. q \in Nat
    BY <1>5
  <1>8. a * b = a * q + a + a * c /\ a * c \in Nat /\ a * q \in Nat
    BY <1>7, <1>9
  <1>. QED  BY <1>3, <1>5, <1>8

\* none if it was shorter than that
LEMMA CutZero ==
  ASSUME NEW n \in Nat, NEW k \in Nat, n < Ten[k]
  PROVE  Cut(n, k) = 0
  <1>1. PICK d \in Nat \ {0} : d = Ten[k]
    BY TenDef
  <1>2. 0 \in Nat /\ n \in 0..d - 1 /\ d * 0 + n = n
    BY <1>1
  <1>. QED  BY <1>1, <1>2, CutOnly

\* and one at least if it was not.
LEMMA CutNotZero ==
  ASSUME NEW n \in Nat, NEW k \in Nat, n >= Ten[k]
  PROVE  Cut(n, k) > 0
  <1>1. k + 0 = k /\ Ten[0] = 1
    BY SmallTens
  <1>2. Cut(n, k) >= Ten[0]
    BY <1>1, CutReach
  <1>3. Cut(n, k) \in Nat
    BY CutNat
  <1>. QED  BY <1>1, <1>2, <1>3

\* Two numbers that agree above their last i digits have the same width.
LEMMA SameWidth ==
  ASSUME NEW n \in Nat, NEW p \in Nat, MaxWidth \in Nat \ {0}, n < Ten[MaxWidth],
         NEW i \in 0..Width(n) - 1, Cut(p, i) = Cut(n, i), i > 0
  PROVE  Width(p) = Width(n) /\ p < Ten[MaxWidth]
  <1>1. PICK w \in 1..MaxWidth : w = Width(n) /\ HasWidth(n, w)
    BY WidthHas DEF HasWidth
  <1>2. w - 1 \in Nat /\ w > 1 /\ w - i \in Nat /\ w - 1 - i \in Nat
    BY <1>1
  <1>3. Cut(p, w) = Cut(n, w) /\ Cut(p, w - 1) = Cut(n, w - 1)
    <2>1. i + (w - i) = w /\ i + (w - 1 - i) = w - 1 /\ i \in Nat
      BY <1>1
    <2>2. ASSUME NEW j \in Nat  PROVE Cut(p, i + j) = Cut(n, i + j)
      <3>1. Cut(Cut(p, i), j) = Cut(p, i + j)
        BY <2>1, CutCut
      <3>2. Cut(Cut(n, i), j) = Cut(n, i + j)
        BY <2>1, CutCut
      <3>. QED  BY <3>1, <3>2, Zenon
    <2>. QED  BY <1>2, <2>1, <2>2, Zenon
  <1>4. Cut(n, w) = 0 /\ Cut(n, w - 1) > 0
    BY <1>1, <1>2, CutZero, CutNotZero DEF HasWidth
  <1>5. p < Ten[w]
    <2>0. w \in Nat
      BY <1>1
    <2>1. Cut(p, w) \in Nat /\ Ten[w] \in Nat
      BY <2>0, CutNat, TenDef
    <2>. QED  BY <1>3, <1>4, <2>1, CutNotZero
  <1>6. p >= Ten[w - 1]
    <2>1. Ten[w - 1] \in Nat
      BY <1>2, TenDef
    <2>. QED  BY <1>2, <1>3, <1>4, <2>1, CutZero
  <1>7. HasWidth(p, w)
    BY <1>1, <1>5, <1>6 DEF HasWidth
  <1>8. Ten[w] <= Ten[MaxWidth] /\ Ten[w] \in Nat /\ Ten[MaxWidth] \in Nat
    <2>1. w \in Nat /\ w <= MaxWidth
      BY <1>1
    <2>. QED  BY <2>1, TenGrows, TenDef
  <1>. QED  BY <1>1, <1>5, <1>7, <1>8, WidthIs

\* Comparing the first digits compares the numbers, where the rest are zeros.
LEMMA Above ==
  ASSUME NEW r \in Nat, NEW e \in Nat, NEW m \in Nat
  PROVE  r > Cut(m, e) <=> Ten[e] * r > m
  <1>1. PICK a \in Nat \ {0} : a = Ten[e]
    BY TenDef
  <1>2. PICK q, s : Parts(m, e, q, s)
    BY CutIs
  <1>3. q \in Nat /\ s \in Nat /\ q = Cut(m, e) /\ s < a /\ m = a * q + s
    BY <1>1, <1>2 DEF Parts
  <1>. q \in Nat /\ s \in Nat
    BY <1>3
  <1>4. ASSUME r > q  PROVE a * r > m
    <2>1. r - q - 1 \in Nat /\ r = q + 1 + (r - q - 1)
      BY <1>4
    <2>2. PICK c \in Nat : r = q + 1 + c
      BY <2>1, Zenon
    <2>3. a * r = a * q + a + a * c /\ a * c \in Nat /\ a * q \in Nat
      BY <2>2
    <2>. QED  BY <1>3, <2>3
  <1>5. ASSUME r <= q  PROVE ~(a * r > m)
    <2>1. q - r \in Nat /\ q = r + (q - r)
      BY <1>5
    <2>2. PICK c \in Nat : q = r + c
      BY <2>1, Zenon
    <2>3. a * q = a * r + a * c /\ a * c \in Nat /\ a * r \in Nat
      BY <2>2
    <2>. QED  BY <1>3, <2>3
  <1>. QED  BY <1>1, <1>3, <1>4, <1>5

\* The zeros at the end can be counted in a number that fits in the bound.
LEMMA ZerosHas ==
  ASSUME NEW n \in Nat \ {0}, MaxWidth \in Nat \ {0}, n < Ten[MaxWidth]
  PROVE  Zeros(n) \in 0..MaxWidth /\ n % Ten[Zeros(n)] = 0 /\ Cut(n, Zeros(n)) % 10 # 0
  <1>. DEFINE S == {k \in Nat : n % Ten[k] # 0}
  <1>1. n % Ten[MaxWidth] # 0
    <2>1. Cut(n, MaxWidth) = 0 /\ Ten[MaxWidth] * 0 = 0
      BY CutZero, TenDef
    <2>. QED  BY <2>1, EndsIn
  <1>2. S # {} /\ S \subseteq Nat /\ MaxWidth \in S
    BY <1>1
  <1>3. PICK k \in S : \A x \in S : k <= x
    BY <1>2, LeastNat
  <1>4. k # 0 /\ k \in Nat /\ k <= MaxWidth
    <2>1. n % Ten[0] = 0
      BY SmallTens
    <2>. QED  BY <1>2, <1>3, <2>1
  <1>5. k - 1 \in 0..MaxWidth /\ k - 1 \notin S /\ k - 1 \in Nat /\ (k - 1) + 1 = k
    BY <1>3, <1>4
  <1>6. n % Ten[k - 1] = 0 /\ n % Ten[k] # 0
    BY <1>3, <1>5
  <1>7. Cut(n, k - 1) % 10 # 0
    BY <1>5, <1>6, EndsInNext
  <1>. QED  BY <1>5, <1>6, <1>7, ZerosIs

\* Without its zeros a number is so many digits shorter.
LEMMA TrimWidth ==
  ASSUME NEW n \in Nat \ {0}, MaxWidth \in Nat \ {0}, n < Ten[MaxWidth]
  PROVE  /\ Width(n) - Zeros(n) \in 1..MaxWidth
         /\ HasWidth(TrimZeros(n), Width(n) - Zeros(n))
         /\ Width(TrimZeros(n)) = Width(n) - Zeros(n)
  <1>1. PICK w \in 1..MaxWidth : w = Width(n) /\ HasWidth(n, w)
    BY WidthHas DEF HasWidth
  <1>2. PICK z \in 0..MaxWidth : z = Zeros(n) /\ n % Ten[z] = 0
    BY ZerosHas
  <1>. z \in Nat /\ w \in Nat
    BY <1>1, <1>2
  <1>3. PICK r \in Nat : r = Cut(n, z) /\ r = TrimZeros(n)
    BY <1>2, CutNat DEF TrimZeros
  <1>4. w - z >= 1
    <2>1. SUFFICES ASSUME w <= z  PROVE FALSE
      OBVIOUS
    <2>2. n % Ten[w] = 0
      BY <1>2, <2>1, EndsInFewer
    <2>3. Cut(n, w) = 0 /\ Ten[w] * 0 = 0
      BY <1>1, CutZero, TenDef DEF HasWidth
    <2>. QED  BY <2>2, <2>3, EndsIn
  <1>5. PICK x \in 1..MaxWidth : x = w - z
    BY <1>4
  <1>6. r < Ten[x]
    <2>1. w = z + x /\ x \in Nat
      BY <1>5
    <2>. QED  BY <1>1, <1>3, <2>1, CutBound DEF HasWidth
  <1>7. ASSUME x > 1  PROVE r >= Ten[x - 1]
    <2>1. w - 1 = z + (x - 1) /\ x - 1 \in Nat /\ w > 1
      BY <1>5, <1>7
    <2>2. n >= Ten[z + (x - 1)]
      BY <1>1, <2>1 DEF HasWidth
    <2>3. Cut(n, z) >= Ten[x - 1]
      BY <2>1, <2>2, CutReach
    <2>. QED  BY <1>3, <2>3
  <1>8. HasWidth(r, x)
    BY <1>6, <1>7 DEF HasWidth
  <1>9. Width(r) = x
    BY <1>8, WidthIs
  <1>. QED  BY <1>1, <1>2, <1>3, <1>5, <1>8, <1>9

\* Where the code stands: the chain stores as many digits as its limit has, one
\* less if they are above the limit.
LEMMA TailIs ==
  ASSUME NEW c \in Chains, NEW n \in Nat \ {0}, MaxWidth \in Nat \ {0}, n < Ten[MaxWidth],
         MaxAmount[c] \in Nat \ {0}, MaxAmount[c] < Ten[MaxWidth]
  PROVE  /\ Width(n) < Width(MaxAmount[c]) => Tail(c, n) = 0
         /\ Width(n) >= Width(MaxAmount[c]) /\ n % Ten[Width(n) - Width(MaxAmount[c])] = 0 =>
              Tail(c, n) = Width(n) - Width(MaxAmount[c]) +
                           (IF Cut(n, Width(n) - Width(MaxAmount[c])) > MaxAmount[c] THEN 1 ELSE 0)
  <1>1. PICK w \in 1..MaxWidth : w = Width(n) /\ HasWidth(n, w)
    BY WidthHas DEF HasWidth
  <1>2. PICK m \in Nat \ {0} : m = MaxAmount[c]
    OBVIOUS
  <1>3. PICK v \in 1..MaxWidth : v = Width(m) /\ HasWidth(m, v)
    BY <1>2, WidthHas DEF HasWidth
  <1>4. PICK z \in 0..MaxWidth : z = Zeros(n) /\ n % Ten[z] = 0 /\ Cut(n, z) % 10 # 0
    BY ZerosHas
  <1>. z \in Nat /\ w \in Nat /\ v \in Nat
    BY <1>1, <1>3, <1>4
  <1>5. PICK r \in Nat : r = Cut(n, z) /\ r = TrimZeros(n)
    BY <1>4, CutNat DEF TrimZeros
  <1>. DEFINE above == StringAbove(r, m)
  <1>6. Tail(c, n) = IF Width(r) <= v /\ w > v - (IF above THEN 1 ELSE 0)
                     THEN w - (v - (IF above THEN 1 ELSE 0)) ELSE 0
    BY <1>1, <1>2, <1>3, <1>5 DEF Tail, ValidDigits
  <1>. HIDE DEF above
  <1>7. ASSUME w < v  PROVE Tail(c, n) = 0
    BY <1>6, <1>7
  <1>8. ASSUME w >= v, n % Ten[w - v] = 0
        PROVE  Width(r) <= v /\ (above <=> Cut(n, w - v) > m)
    <2>1. PICK d \in Nat : d = w - v
      BY <1>8
    <2>2. d <= z
      <3>1. SUFFICES ASSUME z + 1 <= d  PROVE FALSE
        BY <2>1
      <3>2. n % Ten[z + 1] = 0
        BY <1>8, <2>1, <3>1, EndsInFewer
      <3>. QED  BY <1>4, <3>2, EndsInNext
    <2>3. PICK e \in Nat : e = z - d
      BY <2>2
    <2>4. PICK u \in Nat : u = Cut(n, d)
      BY CutNat
    <2>10. z = d + e
      BY <2>3
    <2>5. Cut(u, e) = r
      <3>1. Cut(Cut(n, d), e) = Cut(n, d + e)
        BY CutCut
      <3>. QED  BY <1>5, <2>4, <2>10, <3>1, Zenon
    <2>6. u = Ten[e] * r
      <3>1. u % Ten[e] = 0
        <4>1. n = Ten[d] * u
          BY <1>8, <2>1, <2>4, EndsIn
        <4>2. PICK a, b \in Nat \ {0} : a = Ten[d] /\ b = Ten[e] /\ Ten[z] = a * b
          <5>1. Ten[d + e] = Ten[d] * Ten[e] /\ Ten[d] \in Nat \ {0} /\ Ten[e] \in Nat \ {0}
            BY TenDef, TenSum
          <5>. QED  BY <2>10, <5>1, Zenon
        <4>3. n = Ten[z] * r
          <5>1. n = Ten[z] * Cut(n, z)
            BY <1>4, EndsIn
          <5>. QED  BY <1>5, <5>1, Zenon
        <4>4. (a * b) * r = a * (b * r) /\ b * r \in Nat
          BY <4>2
        <4>5. n = Ten[d] * (b * r)
          BY <4>2, <4>3, <4>4
        <4>6. u = b * r
          BY <2>4, <4>4, <4>5, Multiple
        <4>. QED  BY <4>2, <4>6, Multiple
      <3>. QED  BY <2>5, <3>1, EndsIn
    <2>7. Width(r) = w - z /\ w - z <= v /\ v - (w - z) = e
      BY <1>1, <1>4, <1>5, <1>8, <2>1, <2>2, <2>3, TrimWidth
    <2>8. above <=> r > Cut(m, e)
      BY <1>3, <2>7 DEF above, StringAbove
    <2>9. above <=> u > m
      BY <2>6, <2>8, Above
    <2>. QED  BY <2>1, <2>4, <2>7, <2>9
  <1>9. ASSUME w >= v, n % Ten[w - v] = 0
        PROVE  Tail(c, n) = w - v + (IF Cut(n, w - v) > m THEN 1 ELSE 0)
    BY <1>6, <1>8, <1>9
  <1>. QED  BY <1>1, <1>2, <1>3, <1>7, <1>9

\* An amount with a code in it.
LEMMA CodeIn ==
  ASSUME NEW n \in Nat, NEW k \in Nat, NEW code \in Nat, code <= 9999
  PROVE  /\ WithCode(n, k, code) \in Nat
         /\ Cut(WithCode(n, k, code), k) = 10000 * Cut(n, k + 4) + code
         /\ Cut(WithCode(n, k, code), k + 4) = Cut(n, k + 4)
         /\ WithCode(n, k, code) % Ten[k] = n % Ten[k]
  <1>1. PICK a \in Nat \ {0} : a = Ten[k]
    BY TenDef
  <1>2. Ten[k + 4] = 10000 * a
    <2>1. Ten[k + 4] = Ten[k] * Ten[4]
      BY TenSum
    <2>2. PICK e \in Nat : e = Ten[4]
      BY SmallTens
    <2>3. Ten[k + 4] = a * e
      BY <1>1, <2>1, <2>2
    <2>4. e = 10000
      BY <2>2, SmallTens
    <2>. QED  BY <2>3, <2>4
  <1>3. PICK q \in Nat : q = Cut(n, k + 4)
    BY CutNat
  <1>4. PICK r \in Nat : r = n % Ten[k] /\ r < a
    <2>1. PICK x, y : Parts(n, k, x, y)
      BY CutIs
    <2>. QED  BY <1>1, <2>1 DEF Parts
  <1>5. PICK p \in Nat : p = 10000 * q + code
    OBVIOUS
  <1>6. WithCode(n, k, code) = q * (10000 * a) + code * a + r
    BY <1>1, <1>2, <1>3, <1>4 DEF WithCode
  <1>7. q * (10000 * a) + code * a + r = a * (10000 * q + code) + r
    OBVIOUS
  <1>8. PICK t \in Nat : t = WithCode(n, k, code) /\ t = Ten[k] * p + r
    <2>1. a * p \in Nat /\ a * p + r \in Nat
      OBVIOUS
    <2>2. WithCode(n, k, code) = a * p + r
      BY <1>5, <1>6, <1>7
    <2>. QED  BY <1>1, <2>1, <2>2
  <1>9. r \in 0..Ten[k] - 1
    BY <1>1, <1>4
  <1>10. Cut(t, k) = p /\ t % Ten[k] = r
    BY <1>8, <1>9, CutOnly
  <1>11. Cut(p, 4) = q
    <2>1. code \in 0..Ten[4] - 1 /\ Ten[4] * q + code = p
      BY <1>5, SmallTens
    <2>. QED  BY <2>1, CutOnly
  <1>12. Cut(t, k + 4) = q
    <2>1. Cut(Cut(t, k), 4) = Cut(t, k + 4)
      BY CutCut
    <2>2. Cut(Cut(t, k), 4) = q
      BY <1>10, <1>11
    <2>. QED  BY <2>1, <2>2
  <1>. QED  BY <1>3, <1>4, <1>5, <1>8, <1>10, <1>12

\* Two numbers that agree above i digits agree above more.
LEMMA CutAbove ==
  ASSUME NEW n \in Nat, NEW p \in Nat, NEW i \in Nat, NEW k \in Nat, i <= k, Cut(p, i) = Cut(n, i)
  PROVE  Cut(p, k) = Cut(n, k)
  <1>1. PICK j \in Nat : k = i + j
    <2>1. k - i \in Nat /\ k = i + (k - i)
      OBVIOUS
    <2>. QED  BY <2>1, Zenon
  <1>2. Cut(Cut(p, i), j) = Cut(p, i + j)
    BY CutCut
  <1>3. Cut(Cut(n, i), j) = Cut(n, i + j)
    BY CutCut
  <1>. QED  BY <1>1, <1>2, <1>3, Zenon

\* Which side of the limit a number is on shows above its last k digits.
LEMMA SameSide ==
  ASSUME NEW a \in Nat, NEW b \in Nat, NEW m \in Nat, NEW k \in Nat,
         Cut(a, k) = Cut(b, k), Cut(a, k) # Cut(m, k), a > m
  PROVE  b > m
  <1>1. Cut(m, k) <= Cut(a, k) /\ Cut(m, k) \in Nat /\ Cut(a, k) \in Nat
    BY CutMono, CutNat
  <1>2. b <= m => Cut(b, k) <= Cut(m, k)
    BY CutMono
  <1>. QED  BY <1>1, <1>2

Limited(c) == MaxAmount[c] \in Nat /\ MaxAmount[c] >= Ten[5] /\ MaxAmount[c] < Ten[MaxWidth]

\* The limits in use have six digits or more.
LEMMA LimitWidth ==
  ASSUME MaxWidth \in Nat \ {0}, NEW c \in Chains, Limited(c)
  PROVE  HasWidth(MaxAmount[c], Width(MaxAmount[c])) /\ Width(MaxAmount[c]) \in 6..MaxWidth
  <1>1. HasWidth(MaxAmount[c], Width(MaxAmount[c]))
    BY WidthHas DEF Limited
  <1>2. PICK v \in 1..MaxWidth : v = Width(MaxAmount[c])
    BY <1>1 DEF HasWidth
  <1>3. v <= 5 => Ten[v] <= Ten[5] /\ Ten[v] \in Nat
    <2>1. v \in Nat
      BY <1>2
    <2>. QED  BY <2>1, TenGrows, TenDef
  <1>. QED  BY <1>1, <1>2, <1>3, SmallTens DEF HasWidth, Limited

\* Two amounts that agree above the digits that the chain drops and five more have
\* their codes at the same place.
LEMMA SameTail ==
  ASSUME MaxWidth \in Nat \ {0}, NEW c \in Chains, Limited(c), NEW d \in Nat,
         NEW n \in Nat \ {0}, n < Ten[MaxWidth], NEW p \in Nat,
         Width(n) = Width(MaxAmount[c]) + d, n % Ten[d] = 0, p % Ten[d] = 0,
         Cut(p, d + 5) = Cut(n, d + 5), Cut(n, d + 5) # Cut(MaxAmount[c], 5)
  PROVE  /\ Width(p) = Width(n)
         /\ Tail(c, n) = d + (IF Cut(n, d) > MaxAmount[c] THEN 1 ELSE 0)
         /\ Tail(c, p) = Tail(c, n)
  <1>1. PICK m \in Nat \ {0} : m = MaxAmount[c] /\ m < Ten[MaxWidth]
    BY SmallTens DEF Limited
  <1>2. PICK v \in 6..MaxWidth : v = Width(m)
    BY <1>1, LimitWidth
  <1>3. PICK w \in Nat : w = Width(n) /\ w = v + d
    BY <1>1, <1>2
  <1>4. Width(p) = w /\ p < Ten[MaxWidth]
    <2>1. d + 5 \in 0..Width(n) - 1 /\ d + 5 > 0
      BY <1>2, <1>3
    <2>. QED  BY <1>3, <2>1, SameWidth
  <1>5. p # 0
    <2>1. p = 0 => Cut(p, d + 5) = 0 /\ Cut(n, d + 5) > 0
      <3>1. HasWidth(n, w) /\ d + 5 \in Nat
        BY <1>3, WidthHas
      <3>2. n >= Ten[w - 1] /\ w - 1 \in Nat /\ d + 5 <= w - 1
        BY <1>2, <1>3, <3>1 DEF HasWidth
      <3>3. Ten[d + 5] <= Ten[w - 1] /\ Ten[d + 5] \in Nat /\ Ten[w - 1] \in Nat /\ Ten[d + 5] # 0
        BY <3>1, <3>2, TenGrows, TenDef
      <3>. QED  BY <3>1, <3>2, <3>3, CutZero, CutNotZero
    <2>2. Cut(p, d + 5) = Cut(n, d + 5)
      OBVIOUS
    <2>. QED  BY <2>1, <2>2
  <1>6. PICK a, b \in Nat : a = Cut(n, d) /\ b = Cut(p, d)
    BY CutNat
  <1>7. Cut(a, 5) = Cut(n, d + 5) /\ Cut(b, 5) = Cut(n, d + 5)
    <2>1. Cut(Cut(n, d), 5) = Cut(n, d + 5)
      BY CutCut
    <2>2. Cut(Cut(p, d), 5) = Cut(p, d + 5)
      BY CutCut
    <2>. QED  BY <1>6, <2>1, <2>2, Zenon
  <1>8. a > m <=> b > m
    BY <1>1, <1>7, SameSide
  <1>9. w >= v /\ w - v = d
    BY <1>3
  <1>10. Tail(c, n) = d + (IF a > m THEN 1 ELSE 0)
    BY <1>1, <1>2, <1>3, <1>6, <1>9, TailIs
  <1>11. Tail(c, p) = d + (IF b > m THEN 1 ELSE 0)
    BY <1>1, <1>2, <1>4, <1>5, <1>6, <1>9, TailIs
  <1>. QED  BY <1>1, <1>3, <1>4, <1>6, <1>8, <1>10, <1>11

Shortened(t, k) ==
  Cut(t, k) <= MaxAmount[ZkSync] /\ (k > 0 => Cut(t, k - 1) > MaxAmount[ZkSync])

\* What zkSync makes of an amount: it loses its last digits, as many as needed.
LEMMA Packed ==
  ASSUME NEW t \in Nat, MaxWidth \in Nat \ {0}, t < Ten[MaxWidth], MaxAmount[ZkSync] \in Nat
  PROVE  \E j \in Nat : /\ ClosestPackable(t) = Cut(t, j) * Ten[j]
                        /\ Cut(t, j) <= MaxAmount[ZkSync]
                        /\ j > 0 => Cut(t, j - 1) > MaxAmount[ZkSync]
  <1>. DEFINE S == {k \in Nat : Cut(t, k) <= MaxAmount[ZkSync]}
  <1>1. MaxWidth \in S /\ S \subseteq Nat
    BY CutZero
  <1>2. PICK k \in S : \A x \in S : k <= x
    BY <1>1, LeastNat
  <1>3. k \in 0..MaxWidth
    BY <1>1, <1>2
  <1>4. k > 0 => Cut(t, k - 1) > MaxAmount[ZkSync]
    <2>1. SUFFICES ASSUME k > 0  PROVE Cut(t, k - 1) > MaxAmount[ZkSync]
      OBVIOUS
    <2>2. k - 1 \in Nat /\ k - 1 \notin S
      BY <1>2, <2>1
    <2>3. Cut(t, k - 1) \in Nat
      BY <2>2, CutNat
    <2>. QED  BY <2>2, <2>3
  <1>5. Shortened(t, k)
    BY <1>2, <1>4 DEF Shortened
  <1>. DEFINE K == CHOOSE x \in 0..MaxWidth : Shortened(t, x)
  <1>6. K \in 0..MaxWidth /\ Shortened(t, K)
    BY <1>3, <1>5
  <1>7. ClosestPackable(t) = Cut(t, K) * Ten[K]
    BY DEF ClosestPackable, Shortened
  <1>. HIDE DEF K
  <1>. QED  BY <1>6, <1>7 DEF Shortened

\* It changes nothing above the last k digits, if the rest is not over the limit.
LEMMA PackedAbove ==
  ASSUME NEW t \in Nat, MaxWidth \in Nat \ {0}, t < Ten[MaxWidth], MaxAmount[ZkSync] \in Nat,
         NEW k \in Nat, Cut(t, k) <= MaxAmount[ZkSync]
  PROVE  /\ ClosestPackable(t) \in Nat
         /\ Cut(ClosestPackable(t), k) = Cut(t, k)
         /\ \A d \in Nat : d <= k /\ t % Ten[d] = 0 => ClosestPackable(t) % Ten[d] = 0
  <1>1. PICK j \in Nat : /\ ClosestPackable(t) = Cut(t, j) * Ten[j]
                         /\ Cut(t, j) <= MaxAmount[ZkSync]
                         /\ j > 0 => Cut(t, j - 1) > MaxAmount[ZkSync]
    BY Packed
  <1>2. j <= k
    <2>1. SUFFICES ASSUME k <= j - 1, j > 0  PROVE FALSE
      OBVIOUS
    <2>2. PICK i \in Nat : i = j - 1
      BY <2>1
    <2>3. PICK e \in Nat : i = k + e
      <3>1. i - k \in Nat /\ i = k + (i - k)
        BY <2>1, <2>2
      <3>. QED  BY <3>1, Zenon
    <2>4. Cut(Cut(t, k), e) = Cut(t, k + e)
      BY CutCut
    <2>5. PICK u \in Nat : u = Cut(t, k)
      BY CutNat
    <2>6. Cut(u, e) <= u
      <3>1. PICK a \in Nat \ {0} : a = Ten[e]
        BY TenDef
      <3>2. PICK q, r : Parts(u, e, q, r)
        BY CutIs
      <3>3. q \in Nat /\ r \in Nat /\ q = Cut(u, e) /\ u = a * q + r
        BY <3>1, <3>2 DEF Parts
      <3>5. q \in Nat
        BY <3>3
      <3>4. q <= a * q /\ a * q \in Nat
        BY <3>5
      <3>. QED  BY <3>3, <3>4
    <2>7. Cut(t, i) = Cut(u, e)
      BY <2>3, <2>4, <2>5, Zenon
    <2>8. Cut(t, i) \in Nat /\ Cut(u, e) \in Nat
      BY <2>5, CutNat
    <2>. QED  BY <1>1, <2>1, <2>2, <2>5, <2>6, <2>7, <2>8
  <1>3. PICK q \in Nat : q = Cut(t, j)
    BY CutNat
  <1>4. PICK b \in Nat \ {0} : b = Ten[j]
    BY TenDef
  <1>5. PICK p \in Nat : p = ClosestPackable(t) /\ p = Ten[j] * q
    <2>1. q * b = b * q /\ b * q \in Nat
      OBVIOUS
    <2>. QED  BY <1>1, <1>3, <1>4, <2>1
  <1>6. Cut(p, j) = q /\ p % Ten[j] = 0
    BY <1>5, Multiple
  <1>7. Cut(p, k) = Cut(t, k)
    BY <1>2, <1>3, <1>6, CutAbove
  <1>8. ASSUME NEW d \in Nat, d <= k, t % Ten[d] = 0  PROVE p % Ten[d] = 0
    <2>1. CASE d <= j
      BY <1>6, <2>1, EndsInFewer
    <2>2. CASE j <= d
      <3>1. t % Ten[j] = 0
        BY <1>8, <2>2, EndsInFewer
      <3>2. t = Ten[j] * Cut(t, j)
        BY <3>1, EndsIn
      <3>3. p = t
        BY <1>3, <1>5, <3>2, Zenon
      <3>. QED  BY <1>8, <3>3
    <2>. QED  BY <2>1, <2>2
  <1>. QED  BY <1>5, <1>7, <1>8

\* What is paid for an amount and a nonce: t, or t made packable.
Paid(c, n, code, p) ==
  \/ p = WithCode(n, Tail(c, n), code)
  \/ c = ZkSync /\ p = ClosestPackable(WithCode(n, Tail(c, n), code))

\* The powers grow.
LEMMA TenMono ==
  ASSUME NEW i \in Nat, NEW j \in Nat, i <= j
  PROVE  Ten[i] <= Ten[j] /\ Ten[i] \in Nat \ {0} /\ Ten[j] \in Nat \ {0}
  BY TenGrows, TenDef

\* Without a limit the code stands at the end.
LEMMA RoundTripPlain ==
  ASSUME NEW c, NEW n \in Nat, NEW code \in Nat, code <= 8999, MaxAmount[c] = 0
  PROVE  Cut(WithCode(n, Tail(c, n), code), Tail(c, WithCode(n, Tail(c, n), code))) % PNumber = code
  <1>. code <= 9999
    OBVIOUS
  <1>1. Tail(c, n) = 0 /\ Tail(c, WithCode(n, Tail(c, n), code)) = 0
    BY DEF Tail
  <1>2. PICK q \in Nat : q = Cut(n, 0 + 4)
    BY CutNat
  <1>3. Cut(WithCode(n, 0, code), 0) = 10000 * q + code
    BY <1>2, CodeIn
  <1>. QED  BY <1>1, <1>3 DEF PNumber

\* Fewer digits than the limit: the code stands at the end, and nothing is packed.
LEMMA RoundTripSmall ==
  ASSUME MaxWidth \in Nat \ {0}, NEW c \in Chains, Limited(c), NEW n \in Nat, NEW code \in Nat, code <= 8999,
         n < Ten[MaxWidth], n > 0, Width(n) < Width(MaxAmount[c]), NEW p, Paid(c, n, code, p), p # 0
  PROVE  Cut(p, Tail(c, p)) % PNumber = code
  <1>. code <= 9999
    OBVIOUS
  <1>1. PICK v \in 6..MaxWidth : v = Width(MaxAmount[c]) /\ HasWidth(MaxAmount[c], v)
    BY LimitWidth
  <1>2. PICK w \in 1..MaxWidth : w = Width(n) /\ HasWidth(n, w)
    BY WidthHas DEF HasWidth
  <1>3. PICK m \in Nat \ {0} : m = MaxAmount[c] /\ m >= Ten[v - 1] /\ m < Ten[MaxWidth]
    BY <1>1, SmallTens DEF HasWidth, Limited
  <1>4. Tail(c, n) = 0
    BY <1>3, TailIs
  <1>5. PICK t \in Nat : t = WithCode(n, 0, code)
    BY CodeIn
  <1>6. PICK q \in Nat : q = Cut(n, 4)
    BY CutNat
  <1>7. t = 10000 * q + code
    <2>1. Cut(WithCode(n, 0, code), 0) = 10000 * Cut(n, 0 + 4) + code
      BY CodeIn
    <2>2. Cut(t, 0) = t
      BY SmallTens DEF Cut
    <2>. QED  BY <1>5, <1>6, <2>1, <2>2
  <1>8. t < Ten[v - 1]
    <2>1. PICK x \in Nat : x = v - 5 /\ v - 1 = 4 + x /\ w <= 4 + x
      BY <1>1, <1>2
    <2>2. n < Ten[4 + x]
      <3>1. Ten[w] <= Ten[4 + x] /\ Ten[w] \in Nat /\ Ten[4 + x] \in Nat
        <4>1. w \in Nat
          BY <1>2
        <4>. QED  BY <2>1, <4>1, TenMono
      <3>. QED  BY <1>2, <3>1 DEF HasWidth
    <2>3. q < Ten[x]
      BY <1>6, <2>2, CutBound
    <2>4. PICK a \in Nat : a = Ten[x]
      BY TenDef
    <2>5. Ten[4 + x] = 10000 * a
      <3>1. Ten[4 + x] = Ten[4] * Ten[x]
        BY TenSum
      <3>2. PICK e \in Nat : e = Ten[4] /\ Ten[4 + x] = e * a
        BY <2>4, <3>1, SmallTens
      <3>3. e = 10000
        BY <3>2, SmallTens
      <3>. QED  BY <3>2, <3>3
    <2>. QED  BY <1>7, <2>1, <2>3, <2>4, <2>5
  <1>9. t < m
    <2>1. Ten[v - 1] \in Nat
      BY <1>1, TenDef
    <2>. QED  BY <1>3, <1>8, <2>1
  <1>10. c = ZkSync => ClosestPackable(t) = t
    <2>1. SUFFICES ASSUME c = ZkSync  PROVE ClosestPackable(t) = t
      OBVIOUS
    <2>2. t < Ten[MaxWidth] /\ MaxAmount[ZkSync] \in Nat
      <3>1. Ten[MaxWidth] \in Nat
        BY TenDef
      <3>. QED  BY <1>3, <1>9, <2>1, <3>1
    <2>3. PICK j \in Nat : /\ ClosestPackable(t) = Cut(t, j) * Ten[j]
                           /\ j > 0 => Cut(t, j - 1) > MaxAmount[ZkSync]
      BY <2>2, Packed
    <2>4. j = 0
      <3>1. SUFFICES ASSUME j > 0  PROVE FALSE
        BY <2>3
      <3>2. PICK i \in Nat : i = j - 1
        BY <3>1
      <3>3. PICK u \in Nat : u = Cut(t, i)
        BY CutNat
      <3>4. u <= t
        <4>1. PICK a \in Nat \ {0} : a = Ten[i]
          BY TenDef
        <4>2. PICK y, r : Parts(t, i, y, r)
          BY CutIs
        <4>3. y \in Nat /\ r \in Nat /\ y = u /\ t = a * u + r
          BY <3>3, <4>1, <4>2 DEF Parts
        <4>4. u <= a * u /\ a * u \in Nat
          OBVIOUS
        <4>. QED  BY <4>3, <4>4
      <3>. QED  BY <1>3, <1>9, <2>1, <2>3, <3>1, <3>2, <3>3, <3>4
    <2>5. Cut(t, 0) = t /\ Ten[0] = 1
      BY SmallTens DEF Cut
    <2>. QED  BY <2>3, <2>4, <2>5
  <1>11. p = t
    BY <1>4, <1>5, <1>10 DEF Paid
  <1>12. Tail(c, p) = 0
    <2>1. PICK x \in Nat : x = Width(p) /\ HasWidth(p, x) /\ p < Ten[MaxWidth]
      <3>1. p < Ten[MaxWidth] /\ p \in Nat
        <4>1. Ten[MaxWidth] \in Nat
          BY TenDef
        <4>. QED  BY <1>3, <1>9, <1>11, <4>1
      <3>. QED  BY <3>1, WidthHas DEF HasWidth
    <2>2. x < v
      <3>1. SUFFICES ASSUME v <= x  PROVE FALSE
        BY <1>1
      <3>2. x > 1 /\ x - 1 \in Nat /\ v - 1 \in Nat /\ v - 1 <= x - 1
        BY <1>1, <3>1
      <3>3. Ten[v - 1] <= Ten[x - 1] /\ Ten[v - 1] \in Nat /\ Ten[x - 1] \in Nat
        BY <3>2, TenMono
      <3>. QED  BY <1>8, <1>11, <2>1, <3>2, <3>3 DEF HasWidth
    <2>. QED  BY <1>1, <1>3, <1>11, <2>1, <2>2, TailIs
  <1>13. Cut(p, 0) = p
    BY <1>11, SmallTens DEF Cut
  <1>. QED  BY <1>7, <1>11, <1>12, <1>13 DEF PNumber

\* As many digits as the limit or more: the digits that the chain drops are zeros,
\* the code stands before them, and packing takes no digit of it.
LEMMA RoundTripLarge ==
  ASSUME MaxWidth \in Nat \ {0}, NEW c \in Chains, Limited(c), NEW n \in Nat, NEW code \in Nat, code <= 8999,
         n < Ten[MaxWidth], n > 0, NEW d \in Nat, Width(n) = Width(MaxAmount[c]) + d,
         n % Ten[d] = 0, NEW p, Paid(c, n, code, p), ~StartsAsLimit(c, p)
  PROVE  Cut(p, Tail(c, p)) % PNumber = code
  <1>. code <= 9999
    OBVIOUS
  <1>1. PICK v \in 6..MaxWidth : v = Width(MaxAmount[c]) /\ HasWidth(MaxAmount[c], v)
    BY LimitWidth
  <1>2. PICK w \in 1..MaxWidth : w = Width(n) /\ HasWidth(n, w) /\ w = v + d
    BY <1>1, WidthHas DEF HasWidth
  <1>3. PICK m \in Nat \ {0} : m = MaxAmount[c] /\ m >= Ten[v - 1] /\ m < Ten[MaxWidth]
    BY <1>1, SmallTens DEF HasWidth, Limited
  <1>4. PICK k \in Nat : k = Tail(c, n) /\ k = d + (IF Cut(n, d) > m THEN 1 ELSE 0)
    <2>1. w >= v /\ w - v = d
      BY <1>2
    <2>. QED  BY <1>1, <1>2, <1>3, <2>1, TailIs
  <1>5. PICK t \in Nat : t = WithCode(n, k, code)
    BY CodeIn
  <1>6. Cut(t, k + 4) = Cut(n, k + 4) /\ Cut(t, k) = 10000 * Cut(n, k + 4) + code
        /\ t % Ten[k] = n % Ten[k]
    BY <1>5, CodeIn
  <1>7. k + 4 <= d + 5 /\ k + 4 \in 0..w - 1 /\ k + 4 > 0 /\ k >= d
    BY <1>1, <1>2, <1>4
  <1>8. Width(t) = w /\ t < Ten[MaxWidth]
    BY <1>2, <1>6, <1>7, SameWidth
  <1>9. t % Ten[d] = 0
    <2>1. CASE k = d
      BY <1>6, <2>1
    <2>2. CASE k = d + 1
      <3>1. PICK a \in Nat \ {0} : a = Ten[d]
        BY TenDef
      <3>2. Ten[k] = 10 * a
        BY <2>2, <3>1, TenDef
      <3>3. PICK q, r : Parts(n, k, q, r)
        BY CutIs
      <3>4. PICK x, y : Parts(t, k, x, y)
        BY CutIs
      <3>5. /\ {q, r, x} \subseteq Nat /\ n = (10 * a) * q + r
            /\ t = (10 * a) * x + r
        BY <1>6, <3>2, <3>3, <3>4 DEF Parts
      <3>6. PICK z \in Nat : n = a * z
        <4>1. n = Ten[d] * Cut(n, d)
          BY EndsIn
        <4>2. PICK z \in Nat : z = Cut(n, d)
          BY CutNat
        <4>. QED  BY <3>1, <4>1, <4>2
      <3>. q \in Nat /\ r \in Nat /\ x \in Nat
        BY <3>5
      <3>7. (10 * a) * q = a * (10 * q) /\ (10 * a) * x = a * (10 * x) /\ a * (10 * q) \in Nat
        OBVIOUS
      <3>8. r = a * z - a * (10 * q)
        BY <3>5, <3>6, <3>7
      <3>9. a * z - a * (10 * q) = a * (z - 10 * q)
        OBVIOUS
      <3>10. z - 10 * q \in Nat
        <4>1. SUFFICES ASSUME z - 10 * q <= -1  PROVE FALSE
          OBVIOUS
        <4>2. PICK f \in Nat : f = 10 * q - z - 1
          BY <4>1
        <4>3. PICK s \in Nat : s = 10 * q /\ s = z + 1 + f
          BY <4>2
        <4>4. a * s = a * z + a + a * f /\ a * f \in Nat /\ a * z \in Nat
          BY <4>3
        <4>. QED  BY <3>8, <4>3, <4>4
      <3>11. PICK g \in Nat : g = z - 10 * q
        BY <3>10
      <3>12. t = a * (10 * x + g) /\ 10 * x + g \in Nat
        <4>1. r = a * g
          BY <3>8, <3>9, <3>11
        <4>2. a * (10 * x + g) = a * (10 * x) + a * g
          OBVIOUS
        <4>. QED  BY <3>5, <3>7, <4>1, <4>2
      <3>. QED  BY <3>1, <3>12, Multiple
    <2>. QED  BY <1>4, <2>1, <2>2
  <1>10. ASSUME NEW i \in Nat, i >= d, Cut(t, i) <= m
         PROVE  p \in Nat /\ Cut(p, i) = Cut(t, i) /\ p % Ten[d] = 0
    <2>1. CASE p = t
      BY <1>9, <2>1
    <2>2. CASE c = ZkSync /\ p = ClosestPackable(t)
      BY <1>3, <1>8, <1>9, <1>10, <2>2, PackedAbove
    <2>. QED  BY <1>4, <1>5, <2>1, <2>2 DEF Paid
  <1>11. Cut(t, d + 1) <= m
    <2>1. PICK x \in Nat : x = v - 1 /\ w = (d + 1) + x
      BY <1>1, <1>2
    <2>2. t < Ten[w]
      BY <1>2, <1>8, WidthHas DEF HasWidth
    <2>3. Cut(t, d + 1) < Ten[x]
      BY <2>1, <2>2, CutBound
    <2>4. Ten[x] \in Nat
      BY TenDef
    <2>5. PICK e \in Nat : e = d + 1
      OBVIOUS
    <2>6. PICK y \in Nat : y = Cut(t, e)
      BY CutNat
    <2>. QED  BY <1>3, <2>1, <2>3, <2>4, <2>5, <2>6
  <1>12. Cut(t, d + 5) = Cut(n, d + 5)
    BY <1>6, <1>7, CutAbove
  <1>13. p \in Nat /\ Cut(p, d + 5) = Cut(n, d + 5) /\ p % Ten[d] = 0
    <2>1. p \in Nat /\ Cut(p, d + 1) = Cut(t, d + 1) /\ p % Ten[d] = 0
      BY <1>10, <1>11
    <2>2. Cut(p, d + 5) = Cut(t, d + 5)
      BY <2>1, CutAbove
    <2>. QED  BY <1>12, <2>1, <2>2
  <1>14. Width(p) = w
    <2>1. d + 5 \in 0..Width(n) - 1 /\ d + 5 > 0
      BY <1>1, <1>2
    <2>. QED  BY <1>2, <1>13, <2>1, SameWidth
  <1>15. Cut(n, d + 5) # Cut(m, 5)
    <2>1. w + 5 >= v /\ w + 5 - v = d + 5
      BY <1>2
    <2>. QED  BY <1>1, <1>3, <1>13, <1>14, <2>1 DEF StartsAsLimit
  <1>16. Tail(c, p) = k
    BY <1>1, <1>2, <1>3, <1>4, <1>13, <1>15, SameTail
  <1>17. Cut(t, k) <= m
    <2>1. CASE k = d + 1
      BY <1>11, <2>1
    <2>2. CASE k = d /\ ~(Cut(n, d) > m)
      <3>1. PICK a \in Nat : a = Cut(n, d)
        BY CutNat
      <3>6. PICK b \in Nat : b = Cut(t, d)
        BY CutNat
      <3>2. Cut(Cut(n, d), 5) = Cut(n, d + 5)
        BY CutCut
      <3>3. Cut(Cut(t, d), 5) = Cut(t, d + 5)
        BY CutCut
      <3>4. Cut(a, 5) = Cut(b, 5) /\ Cut(b, 5) # Cut(m, 5)
        BY <1>12, <1>15, <3>1, <3>2, <3>3, <3>6
      <3>5. b > m => a > m
        BY <3>4, SameSide
      <3>. QED  BY <2>2, <3>1, <3>5, <3>6
    <2>. QED  BY <1>4, <2>1, <2>2
  <1>18. Cut(p, k) = Cut(t, k)
    BY <1>7, <1>10, <1>17
  <1>19. PICK q \in Nat : q = Cut(n, k + 4)
    BY CutNat
  <1>20. Cut(p, k) = 10000 * q + code
    BY <1>6, <1>18, <1>19
  <1>. QED  BY <1>16, <1>20 DEF PNumber

RuleOf(t) == CHOOSE r \in RulesFor(t, Filled(t)) : TRUE
Ready(t) == ReadyAmount(t.chain, Decimals[t.token], Filled(t).targetChain,
                        Decimals[Filled(t).targetToken], t.value, RuleOf(t).tradingFee, RuleOf(t).gasFee)

\* The code that is written into an amount is read from what arrives, on the
\* chains that store few digits and after packing as on the others.
THEOREM RoundTrip ==
  ASSUME KnownLimits, NEW c \in Chains, NEW n \in Nat, n > 0, n < Ten[MaxWidth],
         MaxAmount[c] > 0 => Width(TrimZeros(n)) <= Width(MaxAmount[c]),
         NEW code \in Nat, code <= 8999, NEW p, Paid(c, n, code, p), p # 0, ~StartsAsLimit(c, p)
  PROVE  Cut(p, Tail(c, p)) % PNumber = code
  <1>1. MaxWidth \in Nat \ {0} /\ MaxAmount[c] \in Nat
    BY AmountsAssumption DEF KnownLimits
  <1>2. CASE MaxAmount[c] = 0
    <2>1. c # ZkSync
      BY <1>2 DEF KnownLimits
    <2>. QED  BY <1>2, <2>1, RoundTripPlain DEF Paid
  <1>3. CASE MaxAmount[c] # 0
    <2>1. Limited(c)
      <3>1. Ten[5] \in Nat /\ Ten[MaxWidth] \in Nat
        BY <1>1, TenDef
      <3>. QED  BY <1>1, <1>3, <3>1 DEF KnownLimits, Limited
    <2>2. PICK v \in Nat : v = Width(MaxAmount[c])
      BY <1>1, <2>1, LimitWidth
    <2>3. PICK w \in Nat : w = Width(n)
      BY <1>1, WidthHas DEF HasWidth
    <2>4. CASE w < v
      BY <1>1, <2>1, <2>2, <2>3, <2>4, RoundTripSmall
    <2>5. CASE v <= w
      <3>1. PICK d \in Nat : d = w - v /\ w = v + d
        BY <2>5
      <3>2. PICK z \in Nat : z = Zeros(n) /\ n % Ten[z] = 0
        BY <1>1, ZerosHas
      <3>3. Width(TrimZeros(n)) = w - z
        BY <1>1, <2>3, <3>2, TrimWidth
      <3>4. d <= z
        BY <1>1, <1>3, <2>2, <3>1, <3>3
      <3>5. n % Ten[d] = 0
        BY <3>2, <3>4, EndsInFewer
      <3>6. Width(n) = Width(MaxAmount[c]) + d
        BY <2>2, <2>3, <3>1
      <3>. QED  BY <1>1, <2>1, <3>5, <3>6, RoundTripLarge
    <2>. QED  BY <2>4, <2>5
  <1>. QED  BY <1>2, <1>3

\* A computed row has the chain and token that were found, by a rule for them.
LEMMA ComputedRow ==
  ASSUME NEW t \in Deposits, Outcome(t).kind = "row", Filled(t).targetAmount = Undefined
  PROVE  /\ RuleOf(t) \in Rules /\ RuleOf(t).to = Filled(t).targetChain
         /\ Outcome(t).targetChain = Filled(t).targetChain
         /\ Outcome(t).targetToken = Filled(t).targetToken
         /\ Filled(t).targetToken # Undefined /\ t.token # Undefined
         /\ Outcome(t).targetAmount # Undefined
         /\ Outcome(t).targetAmount =
              AmountToSend(t.chain, Decimals[t.token], Filled(t).targetChain,
                           Decimals[Filled(t).targetToken], t.value, RuleOf(t).tradingFee,
                           RuleOf(t).gasFee, t.nonce).tAmount
  <1>. DEFINE F == Filled(t)
  <1>1. /\ t.token # Undefined /\ F.targetToken # Undefined /\ RulesFor(t, F) # {}
        /\ Outcome(t) = Row(t, F, RuleOf(t))
    BY DEF Outcome, Error, Thrown, RuleOf
  <1>2. RuleOf(t) \in RulesFor(t, F)
    BY <1>1 DEF RuleOf
  <1>3. RuleOf(t) \in Rules /\ RuleOf(t).to = F.targetChain
    BY <1>2 DEF RulesFor
  <1>. DEFINE A == AmountToSend(t.chain, Decimals[t.token], F.targetChain,
                           Decimals[F.targetToken], t.value, RuleOf(t).tradingFee,
                           RuleOf(t).gasFee, t.nonce)
  <1>4. Row(t, F, RuleOf(t)) =
          IF A.thrown THEN Thrown
          ELSE IF A.tAmount = Undefined \/ A.tAmount = 0 THEN Error("AMOUNT_TOO_SMALL")
          ELSE [kind |-> "row", targetChain |-> F.targetChain, targetToken |-> F.targetToken,
                targetAddress |-> F.targetAddress, targetAmount |-> A.tAmount,
                withholdingFee |-> RuleOf(t).tradingFee]
    BY DEF Row
  <1>. HIDE DEF A, F
  <1>5. Outcome(t).kind = "row"
    OBVIOUS
  <1>6. ~A.thrown /\ A.tAmount # Undefined /\ A.tAmount # 0
    BY <1>1, <1>4, <1>5 DEF Thrown, Error
  <1>7. Outcome(t).targetChain = F.targetChain /\ Outcome(t).targetToken = F.targetToken
        /\ Outcome(t).targetAmount = A.tAmount
    BY <1>1, <1>4, <1>6
  <1>. QED  BY <1>1, <1>3, <1>6, <1>7 DEF A, F

\* DivUp of a negative amount goes away from zero, by less than one.
LEMMA DivUpLow ==
  ASSUME NEW a \in Int, NEW b \in Nat \ {0}
  PROVE  DivUp(a, b) \in Int /\ (a >= 0 => DivUp(a, b) >= 0) /\ (a < 0 => b * DivUp(a, b) >= a - b + 1)
  <1>1. CASE a >= 0
    <2>1. a + b - 1 \in Nat
      BY <1>1
    <2>2. PICK q, r \in Nat : q = (a + b - 1) \div b
      BY <2>1, DivIs
    <2>. QED  BY <1>1, <2>2 DEF DivUp
  <1>2. CASE a < 0
    <2>1. PICK m \in Nat : m = b - 1 - a
      BY <1>2
    <2>2. PICK q, r \in Nat : q = m \div b /\ m = b * q + r
      BY DivIs
    <2>3. DivUp(a, b) = -q
      BY <1>2, <2>1, <2>2 DEF DivUp
    <2>4. b * (-q) = -(b * q) /\ b * q \in Nat
      OBVIOUS
    <2>. QED  BY <1>2, <2>1, <2>2, <2>3, <2>4
  <1>. QED  BY <1>1, <1>2

\* What is sent is at least so much less than the value, also where the fee is more
\* than the value and the rounding of the gas fee pays the user.
LEMMA SendBelow ==
  ASSUME NEW value \in Nat, NEW fee \in Nat, NEW ratio \in Nat, NEW td \in Nat, td <= Precision,
         NEW g \in Nat, ratio <= 1000,
         Precision - FeeDigits(td) \in Nat,
         fee * (1000 - ratio) >= 1000 * (Ten[Precision - FeeDigits(td)] + g)
  PROVE  /\ ToAmountFromUserAmount(value, td, fee, ratio) \in Int
         /\ ToAmountFromUserAmount(value, td, fee, ratio) + g <= value
  <1>1. PICK unit \in Nat \ {0} : unit = Ten[Precision - FeeDigits(td)]
    BY TenDef
  <1>2. PICK x \in Int : x = value - fee
    OBVIOUS
  <1>3. PICK a \in Int : a = x * ratio
    OBVIOUS
  <1>4. PICK b \in Nat \ {0} : b = 1000 * unit
    OBVIOUS
  <1>5. PICK y \in Int : y = DivUp(a, b) /\ (a >= 0 => y >= 0) /\ (a < 0 => b * y >= a - b + 1)
    <2>1. DivUp(a, b) \in Int /\ (a >= 0 => DivUp(a, b) >= 0) /\ (a < 0 => b * DivUp(a, b) >= a - b + 1)
      BY DivUpLow
    <2>. QED  BY <2>1, Zenon
  <1>6. PICK gas \in Int : gas = y * unit
    OBVIOUS
  <1>7. ToAmountFromUserAmount(value, td, fee, ratio) = x - gas
    BY <1>1, <1>2, <1>3, <1>4, <1>5, <1>6 DEF ToAmountFromUserAmount
  <1>8. PICK fr \in Nat : fr = fee * ratio
    OBVIOUS
  <1>9. a >= -fr
    <2>1. x >= -fee
      BY <1>2
    <2>2. PICK z \in Nat : z = x + fee
      BY <2>1
    <2>3. (x + fee) * ratio = x * ratio + fee * ratio
      OBVIOUS
    <2>4. z * ratio \in Nat
      OBVIOUS
    <2>. QED  BY <1>3, <1>8, <2>2, <2>3, <2>4
  <1>10. 1000 * gas >= -fr - 1000 * unit
    <2>1. CASE a >= 0
      <3>1. PICK z \in Nat : z = y
        BY <1>5, <2>1
      <3>2. z * unit \in Nat
        OBVIOUS
      <3>. QED  BY <1>6, <3>1, <3>2
    <2>2. CASE a < 0
      <3>1. b * y >= a - b + 1
        BY <1>5, <2>2
      <3>2. (1000 * unit) * y = 1000 * (y * unit)
        OBVIOUS
      <3>. QED  BY <1>4, <1>6, <1>9, <3>1, <3>2
    <2>. QED  BY <2>1, <2>2
  <1>11. fee * (1000 - ratio) = 1000 * fee - fr
    <2>1. fee * (1000 - ratio) = 1000 * fee - fee * ratio
      OBVIOUS
    <2>. QED  BY <1>8, <2>1
  <1>12. 1000 * fee - fr >= 1000 * (unit + g)
    BY <1>1, <1>11
  <1>. QED  BY <1>2, <1>7, <1>10, <1>12

\* Rounded to whole units of u.
LEMMA HalfUpHigh ==
  ASSUME NEW a \in Int, NEW u \in Nat \ {0}
  PROVE  /\ HalfUp(a, u) \in Int
         /\ HalfUp(a, u) > 0 => 2 * (HalfUp(a, u) * u) <= 2 * a + u
  <1>1. CASE a >= 0
    <2>1. PICK m \in Nat : m = 2 * a + u
      BY <1>1
    <2>2. PICK b \in Nat \ {0} : b = 2 * u
      OBVIOUS
    <2>3. PICK q, r \in Nat : q = m \div b /\ m = b * q + r
      BY DivIs
    <2>4. HalfUp(a, u) = q
      BY <1>1, <2>1, <2>2, <2>3 DEF HalfUp
    <2>5. (2 * u) * q = 2 * (q * u)
      OBVIOUS
    <2>. QED  BY <2>1, <2>2, <2>3, <2>4, <2>5
  <1>2. CASE a < 0
    <2>1. PICK m \in Nat : m = u - 2 * a
      BY <1>2
    <2>2. PICK b \in Nat \ {0} : b = 2 * u
      OBVIOUS
    <2>3. PICK q, r \in Nat : q = m \div b
      BY DivIs
    <2>4. HalfUp(a, u) = -q
      BY <1>2, <2>1, <2>2, <2>3 DEF HalfUp
    <2>. QED  BY <2>4
  <1>. QED  BY <1>1, <1>2

\* Putting a code into an amount adds no more than the code.
LEMMA CodeAdds ==
  ASSUME NEW n \in Nat, NEW k \in Nat, NEW code \in Nat, code <= 9999
  PROVE  WithCode(n, k, code) <= n + code * Ten[k]
  <1>1. PICK a \in Nat \ {0} : a = Ten[k]
    BY TenDef
  <1>2. PICK q \in Nat : q = Cut(n, k + 4)
    BY CutNat
  <1>3. PICK c \in Nat : c = Cut(n, k)
    BY CutNat
  <1>4. PICK r \in Nat : r = n % Ten[k] /\ n = a * c + r
    <2>1. PICK y, r : Parts(n, k, y, r)
      BY CutIs
    <2>. QED  BY <1>1, <1>3, <2>1 DEF Parts
  <1>5. PICK t \in Nat : t = WithCode(n, k, code)
    BY CodeIn
  <1>6. PICK x \in Nat : x = Cut(t, k)
    BY CutNat
  <1>7. t = a * x + r
    <2>1. PICK z, y : Parts(t, k, z, y)
      BY CutIs
    <2>2. t % Ten[k] = n % Ten[k]
      BY <1>5, CodeIn
    <2>. QED  BY <1>1, <1>4, <1>6, <2>1, <2>2 DEF Parts
  <1>11. x = 10000 * q + code
    <2>1. Cut(WithCode(n, k, code), k) = 10000 * Cut(n, k + 4) + code
      BY CodeIn
    <2>. QED  BY <1>2, <1>5, <1>6, <2>1
  <1>8. c >= 10000 * q
    <2>1. PICK e, s : Parts(c, 4, e, s)
      BY CutIs
    <2>2. Cut(Cut(n, k), 4) = Cut(n, k + 4)
      BY CutCut
    <2>3. e = Cut(c, 4)
      BY <2>1 DEF Parts
    <2>4. e = q
      BY <1>2, <1>3, <2>2, <2>3
    <2>5. s \in Nat /\ e \in Nat /\ c = Ten[4] * e + s
      BY <2>1 DEF Parts
    <2>6. c = 10000 * e + s
      BY <2>5, SmallTens
    <2>. QED  BY <2>4, <2>5, <2>6
  <1>9. PICK z \in Nat : z = c - 10000 * q
    BY <1>8
  <1>12. c = 10000 * q + z
    BY <1>9
  <1>10. a * (10000 * q + z) = a * (10000 * q) + a * z /\ a * z \in Nat
         /\ a * (10000 * q + code) = a * (10000 * q) + code * a /\ a * (10000 * q) \in Nat
    OBVIOUS
  <1>. QED  BY <1>1, <1>4, <1>5, <1>7, <1>11, <1>12, <1>10

\* The nonce is written over zeros or digits: its unit, and on Immutable a second one.
NonceUnits(c, n, d) ==
  Ten[Tail(c, n)] + (IF c = Immutable /\ d >= ImxDecimals + 4 THEN Ten[d - ImxDecimals - 4] ELSE 0)

\* The type of the place of the code, and that the code fits in the bound.
LEMMA TailNat ==
  ASSUME KnownLimits, NEW c \in Chains, NEW n \in Nat, n < Ten[MaxWidth]
  PROVE  Tail(c, n) \in Nat /\ (n >= 1000 => Tail(c, n) + 4 <= MaxWidth)
  <1>1. MaxWidth \in Nat \ {0} /\ MaxAmount[c] \in Nat
    BY AmountsAssumption DEF KnownLimits
  <1>2. PICK w \in 1..MaxWidth : w = Width(n)
    BY <1>1, WidthHas DEF HasWidth
  <1>3. n >= 1000 => MaxWidth >= 4
    <2>1. SUFFICES ASSUME n >= 1000, MaxWidth <= 3  PROVE FALSE
      BY <1>1
    <2>2. MaxWidth \in Nat /\ 3 \in Nat
      BY <1>1
    <2>3. Ten[MaxWidth] <= Ten[3] /\ Ten[MaxWidth] \in Nat
      BY <2>1, <2>2, TenMono
    <2>. QED  BY <2>1, <2>3, SmallTens
  <1>4. CASE MaxAmount[c] = 0
    BY <1>1, <1>3, <1>4 DEF Tail
  <1>5. CASE MaxAmount[c] # 0
    <2>1. Limited(c)
      <3>1. Ten[5] \in Nat /\ Ten[MaxWidth] \in Nat
        BY <1>1, TenDef
      <3>. QED  BY <1>1, <1>5, <3>1 DEF KnownLimits, Limited
    <2>2. PICK v \in 6..MaxWidth : v = Width(MaxAmount[c])
      BY <1>1, <2>1, LimitWidth
    <2>3. PICK y \in Nat : y = ValidDigits(c, n) /\ y >= 5
      BY <2>2 DEF ValidDigits
    <2>4. Tail(c, n) \in {0, w - y} /\ (Tail(c, n) = 0 \/ w > y)
      BY <1>2, <2>3 DEF Tail
    <2>. QED  BY <1>1, <1>2, <2>2, <2>3, <2>4
  <1>. QED  BY <1>4, <1>5

\* An amount with a code is no longer than the bound.
LEMMA CodeFits ==
  ASSUME KnownLimits, NEW c \in Chains, NEW n \in Nat, n >= 1000, n < Ten[MaxWidth],
         NEW code \in Nat, code <= 9999
  PROVE  WithCode(n, Tail(c, n), code) < Ten[MaxWidth]
  <1>1. PICK k \in Nat : k = Tail(c, n) /\ k + 4 <= MaxWidth
    BY TailNat
  <1>2. PICK t \in Nat : t = WithCode(n, k, code)
    BY CodeIn
  <1>3. PICK i \in Nat : i = k + 4
    OBVIOUS
  <1>4. Cut(t, i) = Cut(n, i)
    <2>1. Cut(WithCode(n, k, code), k + 4) = Cut(n, k + 4)
      BY CodeIn
    <2>. QED  BY <1>2, <1>3, <2>1
  <1>5. MaxWidth \in Nat /\ Ten[MaxWidth] \in Nat
    BY AmountsAssumption, TenDef
  <1>6. Cut(t, MaxWidth) = Cut(n, MaxWidth)
    BY <1>1, <1>3, <1>4, <1>5, CutAbove
  <1>7. Cut(n, MaxWidth) = 0
    BY <1>5, CutZero
  <1>8. t >= Ten[MaxWidth] => Cut(t, MaxWidth) > 0
    BY <1>5, CutNotZero
  <1>. QED  BY <1>1, <1>2, <1>5, <1>6, <1>7, <1>8

\* Cutting and filling up with zeros takes nothing away but the digits.
LEMMA CutDown ==
  ASSUME NEW n \in Nat, NEW k \in Nat
  PROVE  Cut(n, k) * Ten[k] \in Nat /\ Cut(n, k) * Ten[k] <= n
  <1>1. PICK a \in Nat \ {0} : a = Ten[k]
    BY TenDef
  <1>2. PICK q \in Nat : q = Cut(n, k)
    BY CutNat
  <1>3. PICK x, r : Parts(n, k, x, r)
    BY CutIs
  <1>4. r \in Nat /\ n = a * q + r
    BY <1>1, <1>2, <1>3 DEF Parts
  <1>5. q * a = a * q /\ a * q \in Nat
    OBVIOUS
  <1>. QED  BY <1>1, <1>2, <1>4, <1>5

\* What is counted of a deposit is not more than the deposit.
LEMMA RealBelow ==
  ASSUME KnownLimits, NEW c \in Chains, NEW to, NEW n \in Nat, n >= 1000, n < Ten[MaxWidth]
  PROVE  RealAmount(c, to, n) \in Nat /\ RealAmount(c, to, n) <= n
  <1>1. PICK k \in Nat : k = Tail(c, n)
    BY TailNat
  <1>2. PICK r \in Nat : r = WithCode(n, k, 0)
    BY CodeIn
  <1>3. r <= n
    <2>1. PICK a \in Nat : a = Ten[k]
      BY TenDef
    <2>2. WithCode(n, k, 0) <= n + 0 * Ten[k]
      BY CodeAdds
    <2>. QED  BY <1>2, <2>1, <2>2
  <1>4. RAmountFromTAmount(c, n) = r
    BY <1>1, <1>2 DEF RAmountFromTAmount, TooShort
  <1>5. PICK w \in Nat : w = Width(r)
    <2>1. MaxWidth \in Nat \ {0} /\ Ten[MaxWidth] \in Nat
      BY AmountsAssumption, TenDef DEF KnownLimits
    <2>2. r < Ten[MaxWidth]
      BY <1>3, <2>1
    <2>. QED  BY <2>1, <2>2, WidthHas DEF HasWidth
  <1>6. CASE to = ZkSync /\ w > PackDigits
    <2>1. PICK i \in Nat : i = w - PackDigits
      BY <1>6, AmountsAssumption
    <2>2. RealAmount(c, to, n) = Cut(r, i) * Ten[i]
      BY <1>4, <1>5, <1>6, <2>1 DEF RealAmount
    <2>3. Cut(r, i) * Ten[i] \in Nat /\ Cut(r, i) * Ten[i] <= r
      BY CutDown
    <2>. QED  BY <1>3, <2>2, <2>3
  <1>7. CASE ~(to = ZkSync /\ w > PackDigits)
    BY <1>3, <1>4, <1>5, <1>7 DEF RealAmount
  <1>. QED  BY <1>6, <1>7

\* What is paid is not more than what was ready and the nonce.
LEMMA PaidHigh ==
  ASSUME KnownLimits, NEW c \in Chains, NEW n \in Nat, n >= 1000, n < Ten[MaxWidth],
         NEW d \in Nat, NEW code \in Nat, code <= 8999, NEW t, t = TAmountFromRAmount(c, n, code),
         NEW p, p = (IF c = ZkSync THEN ClosestPackable(t)
                     ELSE IF c = Immutable THEN ImxAmount(t, d, code) ELSE t)
  PROVE  p \in Nat /\ p <= n + code * NonceUnits(c, n, d) /\ NonceUnits(c, n, d) \in Nat \ {0}
  <1>1. PICK k \in Nat : k = Tail(c, n)
    BY TailNat
  <1>2. PICK a \in Nat \ {0} : a = Ten[k]
    BY TenDef
  <1>3. PICK b \in Nat : b = IF c = Immutable /\ d >= ImxDecimals + 4
                             THEN Ten[d - ImxDecimals - 4] ELSE 0
    <2>1. CASE c = Immutable /\ d >= ImxDecimals + 4
      <3>1. PICK i \in Nat : i = d - ImxDecimals - 4
        BY <2>1, AmountsAssumption
      <3>. QED  BY <2>1, <3>1, TenDef
    <2>2. CASE ~(c = Immutable /\ d >= ImxDecimals + 4)
      BY <2>2
    <2>. QED  BY <2>1, <2>2
  <1>4. PICK y \in Nat \ {0} : y = NonceUnits(c, n, d) /\ y = a + b
    BY <1>1, <1>2, <1>3 DEF NonceUnits
  <1>5. code * (a + b) = code * a + code * b /\ code * a \in Nat /\ code * b \in Nat
    OBVIOUS
  <1>6. t \in Nat /\ t < Ten[MaxWidth] /\ t <= n + code * a
    <2>1. CASE t = n
      BY <1>5, <2>1
    <2>2. CASE t = WithCode(n, Tail(c, n), code)
      <3>1. PICK x \in Nat : x = WithCode(n, k, code)
        BY CodeIn
      <3>2. WithCode(n, k, code) <= n + code * Ten[k]
        BY CodeAdds
      <3>3. WithCode(n, Tail(c, n), code) < Ten[MaxWidth]
        BY CodeFits
      <3>. QED  BY <1>1, <1>2, <2>2, <3>1, <3>2, <3>3
    <2>. QED  BY <2>1, <2>2 DEF TAmountFromRAmount, TooShort
  <1>7. CASE c = ZkSync
    <2>1. MaxWidth \in Nat \ {0} /\ MaxAmount[ZkSync] \in Nat
      BY <1>7, AmountsAssumption DEF KnownLimits
    <2>2. PICK j \in Nat : ClosestPackable(t) = Cut(t, j) * Ten[j]
      BY <1>6, <2>1, Packed
    <2>3. Cut(t, j) * Ten[j] \in Nat /\ Cut(t, j) * Ten[j] <= t
      BY <1>6, CutDown
    <2>. QED  BY <1>4, <1>5, <1>6, <1>7, <2>2, <2>3
  <1>8. CASE c # ZkSync /\ c = Immutable
    <2>1. CASE p = t
      BY <1>4, <1>5, <1>6, <2>1
    <2>2. CASE p # t
      <3>1. t % Ten[d] # 0 /\ DecimalsLeft(t, d) > ImxDecimals + 4
            /\ p = Cut(t, d - ImxDecimals) * Ten[d - ImxDecimals] + code * Ten[d - ImxDecimals - 4]
        BY <1>8, <2>2 DEF ImxAmount
      <3>2. MaxWidth \in Nat \ {0} /\ ImxDecimals \in Nat
        BY AmountsAssumption DEF KnownLimits
      <3>3. t # 0
        <4>1. Ten[d] \in Nat \ {0}
          BY TenDef
        <4>. QED  BY <3>1, <4>1
      <3>4. PICK z \in Nat : z = Zeros(t)
        BY <1>6, <3>2, <3>3, ZerosHas
      <3>5. d >= ImxDecimals + 4
        BY <3>1, <3>2, <3>4 DEF DecimalsLeft
      <3>6. PICK i \in Nat : i = d - ImxDecimals
        BY <3>2, <3>5
      <3>7. b = Ten[d - ImxDecimals - 4]
        BY <1>3, <1>8, <3>5
      <3>8. Cut(t, i) * Ten[i] \in Nat /\ Cut(t, i) * Ten[i] <= t
        BY <1>6, CutDown
      <3>9. p = Cut(t, i) * Ten[i] + code * b
        BY <3>1, <3>6, <3>7
      <3>. QED  BY <1>4, <1>5, <1>6, <3>8, <3>9
    <2>. QED  BY <2>1, <2>2
  <1>9. CASE c # ZkSync /\ c # Immutable
    BY <1>4, <1>5, <1>6, <1>9
  <1>. QED  BY <1>7, <1>8, <1>9

\* Hypothesis: the fee of the rule is worth the rounding of the gas fee and the nonce.
FeeCovers(t) ==
  LET d == Decimals[Filled(t).targetToken]
      r == RuleOf(t)
  IN  /\ r.gasFee <= 1000
      /\ r.tradingFee * (1000 - r.gasFee) >=
           1000 * (Ten[Precision - FeeDigits(d)] +
                   9000 * NonceUnits(Filled(t).targetChain, Ready(t), d) * Ten[Precision - d])

TokenOrNone(b) == "targetToken" \in DOMAIN b => b.targetToken \in Tokens \cup {Undefined}

\* A token is looked up among those that are listed.
LEMMA BySymbol == ASSUME NEW c, NEW s  PROVE TokenBySymbol(c, s) \in Tokens \cup {Undefined}
  BY BuilderAssumption DEF TokenBySymbol

\* The type of the token, of two results laid over each other
LEMMA AssignToken ==
  ASSUME NEW a, NEW b, TokenOrNone(a), TokenOrNone(b)
  PROVE  TokenOrNone(Assign(a, b))
  BY DEF TokenOrNone, Assign

\* of what the builders return
LEMMA BuilderTokens ==
  ASSUME NEW t, t.call \in {"plain", "routerV3", "swapV3", "routerV1", "obSource", "erc20", "broken"}
  PROVE  TokenOrNone(BuilderData(t)) /\ "targetToken" \in DOMAIN BuilderData(t)
  <1>1. TokenOrNone(StandardBuild(t)) /\ TokenOrNone(Blank) /\ TokenOrNone(Nothing)
    BY BySymbol DEF TokenOrNone, StandardBuild, Blank, Nothing
  <1>2. \A c, s : TokenOrNone(ChainAndToken(c, s)) /\ TokenOrNone([targetChain |-> c])
    BY BySymbol DEF TokenOrNone, ChainAndToken
  <1>3. \A x : TokenOrNone([targetAddress |-> x])
    BY DEF TokenOrNone
  <1>4. \A c, a : TokenByAddress(c, a) \in Tokens \cup {Undefined}
    BY BuilderAssumption DEF TokenByAddress
  <1>5. TokenOrNone(ZksyncLiteBuild(t)) /\ TokenOrNone(LoopringBuild(t)) /\ TokenOrNone(EVMOBSourceBuild(t))
    BY <1>2, <1>3, AssignToken DEF ZksyncLiteBuild, LoopringBuild, EVMOBSourceBuild
  <1>6. TokenOrNone(StarknetOBSourceBuild(t))
    BY <1>1, <1>2, <1>3, AssignToken DEF StarknetOBSourceBuild
  <1>7. TokenOrNone(RouterV3Build(t))
    <2>1. TokenOrNone([targetChain |-> t.to, targetToken |-> TokenByAddress(t.to, t.wants),
                       targetAddress |-> IF t.who = Undefined THEN t.sender ELSE t.who,
                       targetAmount |-> IF t.quote = Undefined THEN NaN ELSE t.quote])
      BY <1>4 DEF TokenOrNone
    <2>. QED  BY <1>1, <1>2, <1>3, <2>1, AssignToken DEF RouterV3Build
  <1>8. TokenOrNone(RouterV1Build(t))
    <2>1. TokenOrNone([targetAmount |-> t.quote])
      BY DEF TokenOrNone
    <2>2. TokenOrNone([targetChain |-> t.to, targetToken |-> TokenByAddress(t.to, t.wants),
                       targetAddress |-> t.who])
      BY <1>4 DEF TokenOrNone
    <2>. QED  BY <1>1, <2>1, <2>2, AssignToken DEF RouterV1Build
  <1>9. "targetToken" \in DOMAIN StandardBuild(t) /\ "targetToken" \in DOMAIN Blank
    BY DEF StandardBuild, Blank
  <1>10. BuilderData(t) \in
           {Assign(StandardBuild(t), RouterV3Build(t)), Assign(StandardBuild(t), RouterV1Build(t)),
            StandardBuild(t), Assign(Blank, LoopringBuild(t)), Assign(Blank, EVMOBSourceBuild(t)),
            Assign(StandardBuild(t), StarknetOBSourceBuild(t)), Assign(Blank, ZksyncLiteBuild(t))}
    BY DEF BuilderData
  <1>11. \A a, b : "targetToken" \in DOMAIN a => "targetToken" \in DOMAIN Assign(a, b)
    BY DEF Assign
  <1>. QED  BY <1>1, <1>5, <1>6, <1>7, <1>8, <1>9, <1>10, <1>11, AssignToken

\* and of the row.
LEMMA FilledToken ==
  ASSUME NEW t \in Deposits, Filled(t).targetToken # Undefined
  PROVE  Filled(t).targetToken \in Tokens
  <1>1. t.call \in {"plain", "routerV3", "swapV3", "routerV1", "obSource", "erc20", "broken"}
    BY BuilderAssumption DEF Deposit
  <1>2. BuilderData(t).targetToken \in Tokens \cup {Undefined} /\ "targetToken" \in DOMAIN BuilderData(t)
    BY <1>1, BuilderTokens DEF TokenOrNone
  <1>. DEFINE f == IF BuilderData(t).targetToken = Undefined
                   THEN TokenBySymbol(BuilderData(t).targetChain, SymbolOf(t)) ELSE BuilderData(t).targetToken
  <1>3. Filled(t).targetToken = f
    BY <1>2 DEF Filled, Assign
  <1>4. f \in Tokens \cup {Undefined}
    BY <1>2, BySymbol
  <1>. QED  BY <1>3, <1>4

\* Hypothesis: what is left of a deposit fits in the bound on the digits.
InBound(t) == Ready(t) < Ten[MaxWidth]

\* The type of what is sent.
LEMMA SendInt ==
  ASSUME NEW value \in Nat, NEW fee \in Nat, NEW ratio \in Nat, NEW td,
         Precision - FeeDigits(td) \in Nat
  PROVE  ToAmountFromUserAmount(value, td, fee, ratio) \in Int
  <1>1. PICK unit \in Nat \ {0} : unit = Ten[Precision - FeeDigits(td)]
    BY TenDef
  <1>2. PICK a \in Int : a = (value - fee) * ratio
    OBVIOUS
  <1>3. PICK b \in Nat \ {0} : b = 1000 * unit
    OBVIOUS
  <1>4. PICK y \in Int : y = DivUp(a, b)
    BY DivUpLow
  <1>5. PICK gas \in Int : gas = y * unit
    OBVIOUS
  <1>. QED  BY <1>1, <1>2, <1>3, <1>4, <1>5 DEF ToAmountFromUserAmount

\* What a computed row is computed from.
ComputedBy(t, s, td, n, fee, ratio, code, c, k, value, send) ==
  /\ n = t.value /\ n >= 1000 /\ s = Precision - Decimals[t.token]
  /\ c = Filled(t).targetChain /\ k = Filled(t).targetToken /\ td = Decimals[k]
  /\ fee = RuleOf(t).tradingFee /\ ratio = RuleOf(t).gasFee
  /\ code = t.nonce /\ code <= 8999
  /\ td <= Precision /\ Precision - FeeDigits(td) \in Nat
  /\ value <= n * Ten[s] /\ send = ToAmountFromUserAmount(value, td, fee, ratio)
  /\ Ready(t) \in Int /\ Ready(t) >= 1000 /\ Ready(t) = HalfUp(send, Ten[Precision - td])
  /\ Outcome(t).targetAmount =
       LET a == TAmountFromRAmount(c, Ready(t), code)
       IN  IF c = ZkSync THEN ClosestPackable(a)
           ELSE IF c = Immutable THEN ImxAmount(a, td, code) ELSE a

\* A row that is computed comes from a deposit of 1000 or more, a rule and a listed token.
LEMMA ComputedFrom ==
  ASSUME KnownCodes, KnownLimits, NEW t \in Deposits, Outcome(t).kind = "row",
         Filled(t).targetAmount = Undefined
  PROVE  \E s, td, n, fee, ratio, code, value \in Nat, c \in Chains, k \in Tokens, send \in Int :
           ComputedBy(t, s, td, n, fee, ratio, code, c, k, value, send)
  <1>1. /\ RuleOf(t) \in Rules /\ RuleOf(t).to = Filled(t).targetChain
        /\ Filled(t).targetToken # Undefined /\ t.token # Undefined
        /\ Outcome(t).targetAmount # Undefined
        /\ Outcome(t).targetAmount =
              AmountToSend(t.chain, Decimals[t.token], Filled(t).targetChain,
                           Decimals[Filled(t).targetToken], t.value, RuleOf(t).tradingFee,
                           RuleOf(t).gasFee, t.nonce).tAmount
    BY ComputedRow
  <1>2. t.chain \in Chains /\ t.value \in Nat /\ t.nonce \in Nat /\ t.token \in Tokens /\ t.value < Ten[MaxWidth]
    BY <1>1, BuilderAssumption DEF Deposit
  <1>3. PICK k \in Tokens : k = Filled(t).targetToken
    BY <1>1, FilledToken
  <1>4. PICK c \in Chains : c = Filled(t).targetChain
    BY <1>1, BuilderAssumption
  <1>5. PICK fee, ratio \in Nat : fee = RuleOf(t).tradingFee /\ ratio = RuleOf(t).gasFee
    BY <1>1, BuilderAssumption
  <1>6. PICK n \in Nat : n = t.value
    BY <1>2
  <1>7. PICK code \in Nat : code = t.nonce
    BY <1>2
  <1>8. PICK sd \in Nat : sd = Decimals[t.token] /\ sd <= Precision
    BY <1>2, BuilderAssumption, AmountsAssumption
  <1>9. PICK td \in Nat : td = Decimals[k] /\ td <= Precision /\ td >= 5
    BY BuilderAssumption, AmountsAssumption DEF KnownCodes
  <1>10. Precision - FeeDigits(td) \in Nat /\ Precision - td \in Nat
    BY <1>9, AmountsAssumption DEF FeeDigits
  <1>11. PICK s \in Nat : s = Precision - sd
    BY <1>8, AmountsAssumption
  <1>12. n >= 1000 /\ code <= 8999
    BY <1>1, <1>2, <1>6, <1>7 DEF AmountToSend, RAmountFromTAmount, TooShort
  <1>13. PICK r \in Nat : r = RealAmount(t.chain, c, n) /\ r <= n
    BY <1>2, <1>6, <1>12, RealBelow
  <1>14. PICK u \in Nat \ {0} : u = Ten[s]
    BY TenDef
  <1>15. PICK value \in Nat : value = r * u
    OBVIOUS
  <1>16. value <= n * u
    <2>1. PICK z \in Nat : z = n - r
      BY <1>13
    <2>2. n = r + z
      BY <1>13, <2>1
    <2>3. (r + z) * u = r * u + z * u /\ z * u \in Nat
      OBVIOUS
    <2>. QED  BY <1>15, <2>2, <2>3
  <1>17. PICK send \in Int : send = ToAmountFromUserAmount(value, td, fee, ratio)
    BY <1>10, SendInt
  <1>18. PICK v \in Nat \ {0} : v = Ten[Precision - td]
    BY <1>10, TenDef
  <1>19. PICK ready \in Int : ready = HalfUp(send, v)
    BY HalfUpHigh
  <1>20. Ready(t) = ready
    BY <1>3, <1>4, <1>5, <1>6, <1>8, <1>9, <1>11, <1>13, <1>14, <1>15, <1>17, <1>18, <1>19
    DEF Ready, ReadyAmount
  <1>21. Outcome(t).targetAmount =
           LET a == TAmountFromRAmount(c, Ready(t), code)
           IN  IF a = Undefined THEN Undefined
               ELSE IF c = ZkSync THEN ClosestPackable(a)
               ELSE IF c = Immutable THEN ImxAmount(a, td, code) ELSE a
    BY <1>1, <1>3, <1>4, <1>7, <1>9 DEF AmountToSend, Ready
  <1>22. TAmountFromRAmount(c, Ready(t), code) # Undefined /\ ready >= 1000
    BY <1>1, <1>20, <1>21 DEF TAmountFromRAmount, TooShort
  <1>23. Outcome(t).targetAmount =
           LET a == TAmountFromRAmount(c, Ready(t), code)
           IN  IF c = ZkSync THEN ClosestPackable(a)
               ELSE IF c = Immutable THEN ImxAmount(a, td, code) ELSE a
    BY <1>21, <1>22
  <1>24. Ready(t) \in Int /\ Ready(t) >= 1000 /\ Ready(t) = HalfUp(send, Ten[Precision - td])
    BY <1>18, <1>19, <1>20, <1>22
  <1>25. value <= n * Ten[s] /\ s = Precision - Decimals[t.token]
    BY <1>8, <1>11, <1>14, <1>16
  <1>26. ComputedBy(t, s, td, n, fee, ratio, code, c, k, value, send)
    BY <1>3, <1>4, <1>5, <1>6, <1>7, <1>9, <1>10, <1>12, <1>17, <1>23, <1>24, <1>25 DEF ComputedBy
  <1>. QED  BY <1>26

\* The sum of it, in halves of the smallest unit.
LEMMA PaidUnits ==
  ASSUME NEW p \in Nat, NEW ready \in Nat, NEW code \in Nat, code <= 8999, NEW y \in Nat \ {0},
         p <= ready + code * y, NEW u \in Nat \ {0}, NEW send \in Int, NEW top \in Nat,
         2 * (ready * u) <= 2 * send + u, send + 9000 * y * u <= top
  PROVE  p * u <= top
  <1>1. PICK w \in Nat : w = y * u /\ w >= u
    <2>1. PICK z \in Nat : z = y - 1
      OBVIOUS
    <2>2. y = z + 1
      BY <2>1
    <2>3. (z + 1) * u = z * u + u /\ z * u \in Nat
      OBVIOUS
    <2>. QED  BY <2>2, <2>3
  <1>2. 9000 * y * u = 9000 * w
    <2>1. 9000 * y * u = 9000 * (y * u)
      OBVIOUS
    <2>. QED  BY <1>1, <2>1
  <1>3. PICK cy \in Nat : cy = code * y
    OBVIOUS
  <1>4. p * u <= ready * u + cy * u
    <2>1. PICK z \in Nat : z = ready + cy - p
      BY <1>3
    <2>2. ready + cy = p + z
      BY <2>1
    <2>3. (ready + cy) * u = ready * u + cy * u /\ (p + z) * u = p * u + z * u /\ z * u \in Nat
      OBVIOUS
    <2>. QED  BY <2>2, <2>3
  <1>5. cy * u <= 8999 * w
    <2>1. cy * u = code * w
      <3>1. (code * y) * u = code * (y * u)
        OBVIOUS
      <3>. QED  BY <1>1, <1>3, <3>1
    <2>2. PICK z \in Nat : z = 8999 - code
      OBVIOUS
    <2>3. (code + z) * w = code * w + z * w /\ z * w \in Nat /\ code + z = 8999
      BY <2>2
    <2>. QED  BY <2>1, <2>3
  <1>6. p * u \in Nat /\ ready * u \in Nat /\ cy * u \in Nat
    OBVIOUS
  <1>. QED  BY <1>1, <1>2, <1>4, <1>5, <1>6

\* What is paid is never refused as more than the deposit, where the fee is worth
\* the nonce and the rounding: the nonce may add to an amount what the fees took.
THEOREM NeverAbove ==
  ASSUME KnownCodes, KnownLimits
  PROVE  BuildSpec => [](InBound(tx) /\ FeeCovers(tx) => MakerAccepts)
  <1>1. ASSUME BuildInv, InBound(tx), FeeCovers(tx), Computed(tx)
        PROVE  ValidatingValueMatches(tx, built)
    <2>1. tx \in Deposits /\ built = Outcome(tx) /\ built.kind = "row" /\ Filled(tx).targetAmount = Undefined
      BY <1>1 DEF BuildInv, NotBuilt, Computed
    <2>2. PICK s, td, n, fee, ratio, code, value \in Nat, c \in Chains, k \in Tokens, send \in Int :
            ComputedBy(tx, s, td, n, fee, ratio, code, c, k, value, send)
      BY <2>1, ComputedFrom
    <2>3. PICK ready \in Nat : ready = Ready(tx) /\ ready >= 1000 /\ ready < Ten[MaxWidth]
      BY <1>1, <2>2 DEF ComputedBy, InBound
    <2>4. PICK u \in Nat \ {0} : u = Ten[Precision - td]
      <3>1. Precision - td \in Nat
        BY <2>2, AmountsAssumption DEF ComputedBy
      <3>. QED  BY <3>1, TenDef
    <2>5. PICK t1 : t1 = TAmountFromRAmount(c, ready, code)
      OBVIOUS
    <2>6. PICK p : p = built.targetAmount /\
                   p = (IF c = ZkSync THEN ClosestPackable(t1)
                        ELSE IF c = Immutable THEN ImxAmount(t1, td, code) ELSE t1)
      BY <2>1, <2>2, <2>3, <2>5 DEF ComputedBy
    <2>7. code <= 8999
      BY <2>2 DEF ComputedBy
    <2>8. p \in Nat /\ p <= ready + code * NonceUnits(c, ready, td) /\ NonceUnits(c, ready, td) \in Nat \ {0}
      BY <2>3, <2>5, <2>6, <2>7, PaidHigh
    <2>9. PICK y \in Nat \ {0} : y = NonceUnits(c, ready, td)
      BY <2>8
    <2>10. PICK g \in Nat : g = 9000 * y * u
      OBVIOUS
    <2>11. ratio <= 1000 /\ fee * (1000 - ratio) >= 1000 * (Ten[Precision - FeeDigits(td)] + g)
      BY <1>1, <2>2, <2>3, <2>4, <2>9, <2>10 DEF FeeCovers, ComputedBy
    <2>12. td <= Precision /\ Precision - FeeDigits(td) \in Nat
           /\ send = ToAmountFromUserAmount(value, td, fee, ratio) /\ value <= n * Ten[s]
           /\ ready = HalfUp(send, u) /\ n = tx.value /\ s = Precision - Decimals[tx.token]
           /\ k = Filled(tx).targetToken /\ td = Decimals[k]
      BY <2>2, <2>3, <2>4 DEF ComputedBy
    <2>13. send + g <= value
      <3>1. td <= Precision /\ Precision - FeeDigits(td) \in Nat
        BY <2>12
      <3>2. ToAmountFromUserAmount(value, td, fee, ratio) + g <= value
        BY <2>11, <3>1, SendBelow
      <3>. QED  BY <2>12, <3>2
    <2>14. 2 * (ready * u) <= 2 * send + u
      BY <2>3, <2>12, HalfUpHigh
    <2>15. p * u <= value
      BY <2>7, <2>8, <2>9, <2>10, <2>13, <2>14, PaidUnits
    <2>16. built.targetToken = k
      BY <2>1, <2>12, ComputedRow
    <2>17. PICK top \in Int : top = n * Ten[s]
      <3>1. s \in Nat /\ Ten[s] \in Nat
        BY TenDef
      <3>. QED  BY <3>1
    <2>18. p * u <= top
      <3>1. value <= n * Ten[s]
        BY <2>12
      <3>2. value <= top
        BY <2>17, <3>1
      <3>3. PICK q \in Nat : q = p * u
        BY <2>8
      <3>. QED  BY <2>15, <3>2, <3>3
    <2>. QED  BY <2>4, <2>6, <2>12, <2>16, <2>17, <2>18 DEF ValidatingValueMatches, Units
  <1>2. BuildInv => (InBound(tx) /\ FeeCovers(tx) => MakerAccepts)
    BY <1>1 DEF MakerAccepts
  <1>. QED  BY <1>2, BuiltOnce, PTL

\* Hypothesis: what is left of a deposit has no more digits than the chain stores;
\* the code calls it inValid otherwise and treats the chain as one without a limit.
Stored(t) ==
  /\ InBound(t)
  /\ MaxAmount[Filled(t).targetChain] > 0 =>
       Width(TrimZeros(Ready(t))) <= Width(MaxAmount[Filled(t).targetChain])

\* Every payment whose amount is computed carries the nonce of its deposit to the
\* chain and back, for every amount, fee and limit.
THEOREM NonceKept ==
  ASSUME KnownCodes, KnownLimits
  PROVE  BuildSpec => [](Stored(tx) => NonceReadBack)
  <1>1. ASSUME BuildInv, Stored(tx), Computed(tx),
               built.targetChain \notin Loopring \cup {Immutable},
               ~TooShort(built.targetAmount),
               ~StartsAsLimit(built.targetChain, built.targetAmount)
        PROVE  AmountFlag(built.targetChain, built.targetAmount) = tx.nonce
    <2>1. tx \in Deposits /\ built = Outcome(tx) /\ built.kind = "row" /\ Filled(tx).targetAmount = Undefined
      BY <1>1 DEF BuildInv, NotBuilt, Computed
    <2>2. PICK s, td, m, fee, ratio, code, value \in Nat, c \in Chains, k \in Tokens, send \in Int :
            ComputedBy(tx, s, td, m, fee, ratio, code, c, k, value, send)
      BY <2>1, ComputedFrom
    <2>3. PICK n \in Nat : n = Ready(tx) /\ n >= 1000 /\ n < Ten[MaxWidth]
      BY <1>1, <2>2 DEF ComputedBy, Stored, InBound
    <2>4. c = built.targetChain /\ c = Filled(tx).targetChain /\ code = tx.nonce /\ code <= 8999
      BY <2>1, <2>2, ComputedRow DEF ComputedBy
    <2>5. PICK p : p = built.targetAmount
      OBVIOUS
    <2>6. p = LET a == TAmountFromRAmount(c, n, code)
              IN  IF c = ZkSync THEN ClosestPackable(a)
                  ELSE IF c = Immutable THEN ImxAmount(a, td, code) ELSE a
      BY <2>1, <2>2, <2>3, <2>5 DEF ComputedBy
    <2>7. TAmountFromRAmount(c, n, code) = WithCode(n, Tail(c, n), code)
      BY <1>1, <2>3, <2>4 DEF TAmountFromRAmount, TooShort
    <2>8. Paid(c, n, code, p)
      BY <1>1, <2>4, <2>6, <2>7 DEF Paid
    <2>9. n > 0 /\ p # 0
      BY <1>1, <2>3, <2>5 DEF TooShort
    <2>10. Cut(p, Tail(c, p)) % PNumber = code
      <3>1. MaxAmount[c] > 0 => Width(TrimZeros(n)) <= Width(MaxAmount[c])
        BY <1>1, <2>3, <2>4 DEF Stored
      <3>2. ~StartsAsLimit(c, p)
        BY <1>1, <2>4, <2>5
      <3>. QED  BY <2>3, <2>4, <2>8, <2>9, <3>1, <3>2, RoundTrip
    <2>. QED  BY <1>1, <2>4, <2>5, <2>10 DEF AmountFlag, PTextFromTAmount
  <1>2. BuildInv => (Stored(tx) => NonceReadBack)
    BY <1>1 DEF NonceReadBack
  <1>. QED  BY <1>2, BuiltOnce, PTL
=============================================================================
