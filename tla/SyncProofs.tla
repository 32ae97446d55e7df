------------------------------ MODULE SyncProofs ------------------------------
(***************************************************************************)
(* Proofs about Sync, for any number of deposits, of overlapping runs, of  *)
(* calls and of restarts: the types, and that the match of a deposit and   *)
(* the statuses of its rows are copied together.                           *)
(***************************************************************************)
EXTENDS Sync, TLAPS

Makers == {None} \cup [out : {None} \cup Payments]

\* A worker is a record with these fields and, once it has begun, has a source.
WorkerOK(r) ==
  /\ {"pc", "src"} \subseteq DOMAIN r
  /\ r.pc \in Pcs
  /\ r.src \in Sources \cup {None}
  /\ r.pc # "free" => r.src \in Sources

\* The parts of the invariant: the tables, the workers and the property itself.
TablesOK  == v1 \in [Hashes -> Statuses] /\ maker \in [Sources -> Makers]
WorkersOK == w = [x \in Workers |-> w[x]] /\ \A x \in Workers : WorkerOK(w[x])
SyncInv == TablesOK /\ WorkersOK /\ Together

-----------------------------------------------------------------------------
LEMMA InitInv == Init => SyncInv
<1>1. SUFFICES ASSUME Init PROVE SyncInv
  OBVIOUS
<1>2. TablesOK
  BY <1>1 DEF Init, TablesOK, Statuses, Makers
<1>3. WorkersOK
  BY <1>1 DEF Init, WorkersOK, WorkerOK, Free, Pcs
<1>4. Together
  BY <1>1, SyncAssumption DEF Init, Together, Matched, Hashes, Payments
<1> QED
  BY <1>2, <1>3, <1>4 DEF SyncInv

\* A worker that is given a well formed record leaves the workers well formed.
LEMMA OneWorker ==
  ASSUME WorkersOK, NEW x \in Workers, NEW r, WorkerOK(r), w' = [w EXCEPT ![x] = r]
  PROVE  WorkersOK'
<1> DEFINE f == [y \in Workers |-> w[y]]
<1>1. w = f
  BY DEF WorkersOK
<1>2. w' = [y \in Workers |-> IF y = x THEN r ELSE w[y]]
  BY <1>1, Zenon
<1> HIDE DEF f
<1>3. ASSUME NEW y \in Workers PROVE WorkerOK(w[y])'
  <2>1. w'[y] = r \/ w'[y] = w[y]
    BY <1>2
  <2>2. WorkerOK(w[y])
    BY DEF WorkersOK
  <2> QED
    BY <2>1, <2>2 DEF WorkerOK
<1>4. w' = [y \in Workers |-> w'[y]]
  BY <1>2
<1> QED
  BY <1>3, <1>4 DEF WorkersOK

LEMMA FreeOK == WorkerOK(Free)
  BY DEF WorkerOK, Free, Pcs

LEMMA GoOK ==
  ASSUME WorkersOK, NEW x \in Workers, w[x].pc # "free", NEW pc \in Pcs, Go(x, pc)
  PROVE  WorkersOK'
<1> DEFINE r == w[x]
           q == [r EXCEPT !.pc = pc]
<1>1. WorkerOK(r)
  BY DEF WorkersOK
<1>2. WorkerOK(q)
  BY <1>1 DEF WorkerOK
<1>3. w' = [w EXCEPT ![x] = q]
  BY DEF Go
<1> QED
  BY <1>2, <1>3, OneWorker

LEMMA DoneOK == ASSUME WorkersOK, NEW x \in Workers, Done(x) PROVE WorkersOK'
  BY FreeOK, OneWorker DEF Done

LEMMA CopiedOK ==
  ASSUME WorkersOK, NEW x \in Workers, w[x].pc # "free", Copied(x)
  PROVE  WorkersOK'
<1> DEFINE r == w[x]
           q == Onward(x)
<1>1. WorkerOK(r)
  BY DEF WorkersOK
<1>2. WorkerOK(q)
  <2>1. CASE Len(r.todo) > 1
    <3> DEFINE n == [r EXCEPT !.todo = Tail(@), !.hash = r.todo[2], !.pc = "transfer"]
    <3>1. q = n
      BY <2>1 DEF Onward
    <3>2. WorkerOK(n)
      BY <1>1 DEF WorkerOK, Pcs
    <3> QED
      BY <3>1, <3>2
  <2>2. CASE Len(r.todo) <= 1 /\ ~(Len(r.todo) > 1) /\ x \in Bridgers
    <3> DEFINE n == [r EXCEPT !.todo = <<>>, !.pc = "bridge"]
    <3>1. q = n
      BY <2>2 DEF Onward
    <3>2. WorkerOK(n)
      BY <1>1 DEF WorkerOK, Pcs
    <3> QED
      BY <3>1, <3>2
  <2>3. CASE ~(Len(r.todo) > 1) /\ ~(Len(r.todo) <= 1 /\ x \in Bridgers)
    BY <2>3, FreeOK DEF Onward
  <2> QED
    BY <2>1, <2>2, <2>3
<1> QED
  BY <1>2, OneWorker DEF Copied

LEMMA CopyThenOK ==
  ASSUME WorkersOK, NEW x \in Workers, NEW s \in Sources, NEW hh, CopyThen(x, s, hh)
  PROVE  WorkersOK'
<1> DEFINE q == [Free EXCEPT !.pc = "transfer", !.src = s, !.hash = hh, !.todo = <<hh>>]
<1>1. WorkerOK(q)
  BY DEF Free, WorkerOK, Pcs
<1> QED
  BY <1>1, OneWorker DEF CopyThen

LEMMA SourceOfOK == ASSUME NEW hh \in Hashes PROVE SourceOf(hh) \in Sources
<1>1. \E s \in Sources : hh \in {s, PaymentOf[s]}
  BY DEF Hashes, Payments
<1> QED
  BY <1>1 DEF SourceOf

-----------------------------------------------------------------------------
(* Steps of a worker: the workers.                                          *)

LEMMA StepWorkers ==
  ASSUME SyncInv, NEW x \in Workers, Step(x)
  PROVE  WorkersOK'
<1> USE DEF SyncInv
<1>0. w[x].pc # "free" => w[x].src \in Sources
  BY DEF WorkersOK, WorkerOK
<1>1. CASE ReadTransfer(x)
  BY <1>1, DoneOK, CopiedOK, GoOK DEF ReadTransfer, At, Pcs
<1>2. CASE Create(x)
  BY <1>2, DoneOK, GoOK DEF Create, At, Pcs
<1>3. CASE Mark(x)
  BY <1>3, CopiedOK DEF Mark, At
<1>4. CASE ReadBridge(x)
  <2> DEFINE r == w[x]
             missing == SelectSeq(Side(r.src), LAMBDA hh : v1[hh] = None)
             q == [[[r EXCEPT !.todo = missing] EXCEPT !.hash = Head(missing)] EXCEPT !.pc = "transfer"]
  <2>1. At(x, "bridge") /\ (Done(x) \/ Go(x, "maker")
          \/ w' = [w EXCEPT ![x].todo = missing, ![x].hash = Head(missing), ![x].pc = "transfer"])
    BY <1>4 DEF ReadBridge
  <2>2. CASE Done(x)
    BY <2>2, DoneOK
  <2>3. CASE Go(x, "maker")
    BY <2>1, <2>3, GoOK DEF At, Pcs
  <2>4. CASE w' = [w EXCEPT ![x].todo = missing, ![x].hash = Head(missing), ![x].pc = "transfer"]
    <3>1. WorkerOK(r)
      BY DEF WorkersOK
    <3> HIDE DEF missing
    <3>3. WorkerOK(q)
      BY <2>1, <3>1 DEF WorkerOK, Pcs, At
    <3>4. w' = [w EXCEPT ![x] = q]
      <4> DEFINE f == [y \in Workers |-> w[y]]
      <4>1. w = f
        BY DEF WorkersOK
      <4> QED
        BY <2>4, <4>1
    <3> QED
      BY <3>3, <3>4, OneWorker
  <2> QED
    BY <2>1, <2>2, <2>3, <2>4
<1>5. CASE ReadMaker(x)
  BY <1>5, GoOK DEF ReadMaker, At, Pcs
<1>6. CASE Upsert(x)
  BY <1>6, GoOK DEF Upsert, At, Pcs
<1>7. CASE SaveStatus(x)
  BY <1>7, DoneOK DEF SaveStatus
<1>8. CASE ReadStatus(x)
  BY <1>8, GoOK, DoneOK DEF ReadStatus, At, Pcs
<1>9. CASE ReadRows(x)
  BY <1>0, <1>9, GoOK, DoneOK, CopyThenOK DEF ReadRows, At, Pcs
<1>10. CASE ReadKnown(x)
  <2> DEFINE r == w[x]
             k == maker[r.src] # None
             q == [[r EXCEPT !.known = k] EXCEPT !.pc = "commit"]
  <2>1. At(x, "known") /\ w' = [w EXCEPT ![x].known = k, ![x].pc = "commit"]
    BY <1>10 DEF ReadKnown
  <2>2. WorkerOK(r)
    BY DEF WorkersOK
  <2> HIDE DEF k
  <2>4. WorkerOK(q)
    BY <2>1, <2>2 DEF WorkerOK, Pcs, At
  <2>5. w' = [w EXCEPT ![x] = q]
    BY <2>1 DEF WorkersOK
  <2> QED
    BY <2>4, <2>5, OneWorker
<1>11. CASE Commit(x)
  BY <1>11, DoneOK DEF Commit
<1>12. CASE ReadPair(x)
  <2> DEFINE r == w[x]
             k == HasTarget(r.src)
             q == [[r EXCEPT !.known = k] EXCEPT !.pc = "source"]
  <2>1. At(x, "pair") /\ (Done(x) \/ w' = [w EXCEPT ![x].known = k, ![x].pc = "source"])
    BY <1>12 DEF ReadPair
  <2>2. CASE Done(x)
    BY <2>2, DoneOK
  <2>3. CASE w' = [w EXCEPT ![x].known = k, ![x].pc = "source"]
    <3>1. WorkerOK(r)
      BY DEF WorkersOK
    <3> HIDE DEF k
    <3>2. WorkerOK(q)
      BY <2>1, <3>1 DEF WorkerOK, Pcs, At
    <3>3. w' = [w EXCEPT ![x] = q]
      BY <2>3 DEF WorkersOK
    <3> QED
      BY <3>2, <3>3, OneWorker
  <2> QED
    BY <2>1, <2>2, <2>3
<1>13. CASE ReadSource(x)
  BY <1>0, <1>13, GoOK, CopyThenOK DEF ReadSource, At, Pcs
<1>14. CASE ReadTarget(x)
  BY <1>14, GoOK, DoneOK DEF ReadTarget, At, Pcs
<1> QED
  BY <1>1, <1>2, <1>3, <1>4, <1>5, <1>6, <1>7, <1>8, <1>9, <1>10, <1>11, <1>12, <1>13, <1>14
     DEF Step, Copy

-----------------------------------------------------------------------------
(* Steps of a worker: the tables and the property.                          *)

\* What the assumption gives about a source, its payment and the others.
LEMMA Apart ==
  ASSUME NEW r \in Sources, NEW s \in Sources
  PROVE  /\ r \in Hashes /\ PaymentOf[r] \in Hashes /\ PaymentOf[r] \in Payments
         /\ r # PaymentOf[s]
         /\ r # s => PaymentOf[r] # PaymentOf[s]
         /\ PaymentOf[r] # None
         /\ None # 1 /\ None # 3 /\ None # 99
         /\ None # [out |-> PaymentOf[r]] /\ None # [out |-> None]
<1>1. PaymentOf[r] \in Payments /\ PaymentOf[s] \in Payments
  BY DEF Payments
<1>2. r \in Hashes /\ PaymentOf[r] \in Hashes
  BY <1>1 DEF Hashes
<1>3. r # PaymentOf[s]
  BY <1>1, SyncAssumption
<1>4. None \notin Hashes /\ None \notin {1, 3, 99} /\ None \notin [out : Payments \cup {None}]
  BY SyncAssumption
<1>5. [out |-> PaymentOf[r]] \in [out : Payments \cup {None}] /\ [out |-> None] \in [out : Payments \cup {None}]
  BY <1>1
<1> QED
  BY <1>1, <1>2, <1>3, <1>4, <1>5, SyncAssumption

LEMMA CreateTogether ==
  ASSUME SyncInv, NEW x \in Workers, Create(x)
  PROVE  TablesOK' /\ Together'
<1> DEFINE hh == w[x].hash
<1> USE DEF SyncInv
<1>1. maker' = maker
  BY DEF Create
<1>2. v1' = v1 \/ (v1[hh] = None /\ v1' = [v1 EXCEPT ![hh] = StatusOf(hh)])
  BY DEF Create
<1>3. StatusOf(hh) \in {1, 3}
  BY DEF StatusOf
<1>4. CASE v1' = v1
  BY <1>1, <1>4 DEF TablesOK, Together, Matched
<1>5. CASE v1[hh] = None /\ v1' = [v1 EXCEPT ![hh] = StatusOf(hh)]
  <2>1. TablesOK'
    BY <1>1, <1>3, <1>5 DEF TablesOK, Statuses
  <2>2. \A h2 \in Hashes : v1'[h2] = 99 <=> v1[h2] = 99
    <3> SUFFICES ASSUME NEW h2 \in Hashes PROVE v1'[h2] = 99 <=> v1[h2] = 99
      OBVIOUS
    <3>1. v1'[h2] = IF h2 = hh THEN StatusOf(hh) ELSE v1[h2]
      BY <1>5 DEF TablesOK
    <3>2. None # 99
      BY SyncAssumption
    <3> QED
      BY <1>3, <1>5, <3>1, <3>2
  <2>3. Together'
    <3> SUFFICES ASSUME NEW s \in Sources
                 PROVE  /\ Matched(s)' => /\ maker'[s].out = PaymentOf[s]
                                          /\ v1'[s] = 99 /\ v1'[PaymentOf[s]] = 99
                        /\ v1'[s] = 99 \/ v1'[PaymentOf[s]] = 99 => Matched(s)'
      BY DEF Together
    <3>1. s \in Hashes /\ PaymentOf[s] \in Hashes
      BY Apart
    <3>2. Matched(s)' <=> Matched(s)
      BY <1>1 DEF Matched
    <3> QED
      BY <1>1, <2>2, <3>1, <3>2 DEF Together
  <2> QED
    BY <2>1, <2>3
<1> QED
  BY <1>2, <1>4, <1>5

\* A source whose maker_transaction is written without outId is not settled in V1.
LEMMA UpsertTogether ==
  ASSUME SyncInv, NEW x \in Workers, Upsert(x)
  PROVE  TablesOK' /\ Together'
<1> DEFINE r == w[x].src
<1> USE DEF SyncInv
<1>1. v1' = v1 /\ maker' = [maker EXCEPT ![r] = Upserted(maker[r])]
  BY DEF Upsert
<1>2. \A s \in Sources : maker'[s] = maker[s] \/ (maker[s] = None /\ maker'[s] = [out |-> None])
  BY <1>1 DEF Upserted, TablesOK
<1>3. TablesOK'
  BY <1>1 DEF TablesOK, Makers, Upserted
<1>4. \A s \in Sources : Matched(s)' <=> Matched(s)
  BY <1>2 DEF Matched
<1>5. \A s \in Sources : Matched(s) => maker'[s] = maker[s]
  BY <1>2 DEF Matched
<1> QED
  BY <1>1, <1>3, <1>4, <1>5 DEF Together

LEMMA CommitTogether ==
  ASSUME SyncInv, NEW x \in Workers, Commit(x)
  PROVE  TablesOK' /\ Together'
<1> DEFINE r == w[x].src
<1> USE DEF SyncInv
<1>1. w[x].pc = "commit"
  BY DEF Commit, At
<1>2. r \in Sources
  BY <1>1 DEF WorkersOK, WorkerOK
<1>3. \/ maker' = maker /\ v1' = v1
      \/ /\ maker' = [maker EXCEPT ![r] = [out |-> PaymentOf[r]]]
         /\ v1' = [v1 EXCEPT ![r] = 99, ![PaymentOf[r]] = 99]
  BY DEF Commit
<1> HIDE DEF r
<1>4. CASE maker' = maker /\ v1' = v1
  BY <1>4 DEF TablesOK, Together, Matched
<1>5. CASE /\ maker' = [maker EXCEPT ![r] = [out |-> PaymentOf[r]]]
           /\ v1' = [v1 EXCEPT ![r] = 99, ![PaymentOf[r]] = 99]
  <2>0. PaymentOf[r] \in Payments /\ PaymentOf[r] \in Hashes /\ r \in Hashes
    BY <1>2, Apart
  <2>1. TablesOK'
    <3>1. [out |-> PaymentOf[r]] \in Makers
      BY <2>0 DEF Makers
    <3> QED
      BY <1>5, <2>0, <3>1 DEF TablesOK, Statuses
  <2>2. \A h2 \in Hashes : v1'[h2] = IF h2 \in {r, PaymentOf[r]} THEN 99 ELSE v1[h2]
    BY <1>5, <2>0 DEF TablesOK
  <2>3. \A s \in Sources : maker'[s] = IF s = r THEN [out |-> PaymentOf[r]] ELSE maker[s]
    BY <1>2, <1>5 DEF TablesOK
  <2>4. ASSUME NEW s \in Sources
        PROVE  /\ Matched(s)' => /\ maker'[s].out = PaymentOf[s]
                                 /\ v1'[s] = 99 /\ v1'[PaymentOf[s]] = 99
               /\ v1'[s] = 99 \/ v1'[PaymentOf[s]] = 99 => Matched(s)'
    <3>1. s \in Hashes /\ PaymentOf[s] \in Hashes /\ s # PaymentOf[r] /\ r # PaymentOf[s]
      BY <1>2, Apart
    <3>2. CASE s = r
      <4>1. maker'[s] = [out |-> PaymentOf[r]] /\ v1'[s] = 99 /\ v1'[PaymentOf[s]] = 99
        BY <2>2, <2>3, <3>1, <3>2
      <4>2. PaymentOf[r] # None /\ [out |-> PaymentOf[r]] # None
        BY <1>2, Apart
      <4> QED
        BY <3>2, <4>1, <4>2 DEF Matched
    <3>3. CASE s # r
      <4>1. PaymentOf[s] # PaymentOf[r]
        BY <1>2, <3>3, Apart
      <4>2. maker'[s] = maker[s] /\ v1'[s] = v1[s] /\ v1'[PaymentOf[s]] = v1[PaymentOf[s]]
        BY <2>2, <2>3, <3>1, <3>3, <4>1
      <4> QED
        BY <4>2 DEF Together, Matched
    <3> QED
      BY <3>2, <3>3
  <2> QED
    BY <2>1, <2>4 DEF Together
<1> QED
  BY <1>3, <1>4, <1>5

LEMMA SameTables ==
  ASSUME SyncInv, v1' = v1, maker' = maker
  PROVE  TablesOK' /\ Together'
  BY DEF SyncInv, TablesOK, Together, Matched

LEMMA StepTables ==
  ASSUME SyncInv, NEW x \in Workers, Step(x)
  PROVE  TablesOK' /\ Together'
<1>1. CASE Create(x)
  BY <1>1, CreateTogether
<1>2. CASE Upsert(x)
  BY <1>2, UpsertTogether
<1>3. CASE Commit(x)
  BY <1>3, CommitTogether
<1>4. CASE \/ ReadTransfer(x) \/ Mark(x) \/ ReadBridge(x) \/ ReadMaker(x)
           \/ SaveStatus(x) \/ ReadStatus(x) \/ ReadRows(x) \/ ReadKnown(x)
           \/ ReadPair(x) \/ ReadSource(x) \/ ReadTarget(x)
  <2>1. v1' = v1 /\ maker' = maker
    BY <1>4 DEF ReadTransfer, Mark, ReadBridge, ReadMaker, SaveStatus, ReadStatus,
                ReadRows, ReadKnown, ReadPair, ReadSource, ReadTarget
  <2> QED
    BY <2>1, SameTables
<1> QED
  BY <1>1, <1>2, <1>3, <1>4 DEF Step, Copy

-----------------------------------------------------------------------------
LEMMA StepInv == SyncInv /\ [Next]_vars => SyncInv'
<1> SUFFICES ASSUME SyncInv, [Next]_vars PROVE SyncInv'
  OBVIOUS
<1>1. ASSUME NEW h \in Hashes, NEW status \in {"ok", "failed"}, Crawl(h, status)
      PROVE  v1' = v1 /\ maker' = maker /\ w' = w
  BY <1>1 DEF Crawl
<1>2. ASSUME NEW s \in Sources, Build(s) \/ Send(s) \/ Settle(s) \/ Pass(s)
      PROVE  v1' = v1 /\ maker' = maker /\ w' = w
  BY <1>2 DEF Build, Send, Settle, Pass
<1>3. ASSUME v1' = v1 /\ maker' = maker /\ w' = w PROVE SyncInv'
  BY <1>3, SameTables DEF SyncInv, WorkersOK
<1>4. ASSUME NEW x \in Workers, Step(x) PROVE SyncInv'
  BY <1>4, StepWorkers, StepTables DEF SyncInv
<1>5. ASSUME NEW x \in Bridgers, NEW s \in Sources, Select(x, s) PROVE SyncInv'
  <2>1. WorkerOK([Free EXCEPT !.pc = "bridge", !.src = s, !.was = synced[s]])
    BY DEF Free, WorkerOK, Pcs
  <2>2. WorkersOK'
    BY <1>5, <2>1, OneWorker DEF Select, Workers, SyncInv
  <2> QED
    BY <1>5, <2>2, SameTables DEF Select, SyncInv
<1>6. ASSUME NEW x \in Matchers, NEW s \in Sources, SelectUnmatched(x, s) PROVE SyncInv'
  <2>1. WorkerOK([Free EXCEPT !.pc = "status", !.src = s])
    BY DEF Free, WorkerOK, Pcs
  <2>2. WorkersOK'
    BY <1>6, <2>1, OneWorker DEF SelectUnmatched, Workers, SyncInv
  <2> QED
    BY <1>6, <2>2, SameTables DEF SelectUnmatched, SyncInv
<1>7. ASSUME NEW x \in Callers, NEW h \in Hashes, ManualSync(x, h) \/ ManualBridge(x, h)
      PROVE  SyncInv'
  <2>1. x \in Workers /\ WorkersOK /\ SourceOf(h) \in Sources
    BY SourceOfOK DEF Workers, SyncInv
  <2>2. v1' = v1 /\ maker' = maker
    BY <1>7 DEF ManualSync, ManualBridge
  <2>3. WorkersOK'
    <3>1. CASE ManualSync(x, h)
      BY <2>1, <3>1, CopyThenOK DEF ManualSync
    <3>2. CASE ManualBridge(x, h)
      <4> DEFINE s == SourceOf(h)
                 q == [Free EXCEPT !.pc = "pair", !.src = s, !.hash = h]
      <4>1. CopyThen(x, s, h) \/ w' = w \/ w' = [w EXCEPT ![x] = q]
        BY <3>2 DEF ManualBridge
      <4>2. WorkerOK(q)
        BY <2>1 DEF Free, WorkerOK, Pcs
      <4>3. CASE CopyThen(x, s, h)
        BY <2>1, <4>3, CopyThenOK
      <4>4. CASE w' = w
        BY <2>1, <4>4 DEF WorkersOK
      <4>5. CASE w' = [w EXCEPT ![x] = q]
        BY <2>1, <4>2, <4>5, OneWorker
      <4> QED
        BY <4>1, <4>3, <4>4, <4>5
    <3> QED
      BY <1>7, <3>1, <3>2
  <2> QED
    BY <2>2, <2>3, SameTables DEF SyncInv
<1>8. CASE Crash
  <2>1. WorkersOK'
    BY <1>8, FreeOK DEF Crash, WorkersOK
  <2> QED
    BY <1>8, <2>1, SameTables DEF Crash, SyncInv
<1>9. CASE UNCHANGED vars
  BY <1>3, <1>9 DEF vars
<1> QED
  BY <1>1, <1>2, <1>3, <1>4, <1>5, <1>6, <1>7, <1>8, <1>9 DEF Next

\* The inductive invariant: the tables, the workers and Together.
THEOREM Invariant == Spec => []SyncInv
  BY InitInv, StepInv, PTL DEF Spec

\* The types of the copied tables and of the workers' places.
THEOREM TypeCorrect == Spec => []TypeOK
<1>1. SyncInv => TypeOK
  BY DEF SyncInv, TablesOK, WorkersOK, WorkerOK, TypeOK, Makers
<1> QED
  BY <1>1, Invariant, PTL

\* The match of a deposit and the statuses of its rows are copied together.
THEOREM CopiedTogether == Spec => []Together
<1>1. SyncInv => Together
  BY DEF SyncInv
<1> QED
  BY <1>1, Invariant, PTL
=============================================================================
