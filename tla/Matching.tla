------------------------------- MODULE Matching -------------------------------
(***************************************************************************)
(* The refinery's matching of V1 and V2 transfers. A source transfer (a    *)
(* user's deposit, '1-0' or '2-0') becomes a row of bridge_transaction; a  *)
(* payment (a maker's transfer, '1-1' or '2-1') settles the row with its   *)
(* address, amount, chain and symbol, which it finds in the memory of the  *)
(* process or in the database. Transfers come from RabbitMQ and again from *)
(* the schedules, so one transfer may have several handlers at work, and   *)
(* the maker's own transaction writes the same rows.                       *)
(*                                                                         *)
(* A step of a handler is one statement of its database transaction. The   *)
(* statements follow PostgreSQL at READ COMMITTED: a SELECT sees what is   *)
(* committed, an UPDATE waits for the transaction that holds its row and   *)
(* then tests its WHERE again, and a transaction's writes are applied by   *)
(* its COMMIT. A UNIQUE index makes the second insert of a key fail.       *)
(***************************************************************************)
EXTENDS Naturals, FiniteSets

CONSTANTS
  Sources,       \* hashes of the users' transfers
  Payments,      \* hashes of the makers' transfers
  Workers,       \* handlers that run at the same time
  None,
  Version,       \* [Sources -> {"1-0", "2-0"}]
  Feature,       \* [Sources \cup Payments -> ...]: address, amount, chain, symbol, version
  Pays,          \* [Payments -> Sources]: the row the maker makes a payment for
  MaxDeliveries, \* bound: messages delivered, or delivered again
  MaxFaults,     \* bound: failing COMMITs and restarts
  MaxOld         \* bound: transfers that get more than 20 minutes old

Hashes == Sources \cup Payments

ASSUME MatchingAssumption ==
  /\ Sources \cap Payments = {} /\ None \notin Hashes
  /\ Version \in [Sources -> {"1-0", "2-0"}]
  /\ DOMAIN Feature = Hashes
  /\ Pays \in [Payments -> Sources]
  /\ \A p \in Payments : Feature[p] = Feature[Pays[p]]
  /\ {MaxDeliveries, MaxFaults, MaxOld} \subseteq Nat

VARIABLES
  bt,     \* [Sources -> row of bridge_transaction]: status and targetId
  op,     \* [Hashes -> opStatus of the row in transfers]
  mem,    \* MemoryMatchingService.bridgeTransactions: "live" or "ghost" entries
  cache,  \* MemoryMatchingService.transfers: payments without a row yet
  old,    \* hashes more than 20 minutes old
  work,   \* [Workers -> the state of a handler]
  maker,  \* [Sources -> the payment of the maker's open transaction]
  sent,   \* payments on the chain
  past,   \* hashes the schedules select no more: older than 48 (V2: 24) hours
  deliveries, faults

tables   == <<bt, op>>
memory   == <<mem, cache, old>>
outside  == <<maker, sent, past>>
counters == <<deliveries, faults>>
vars     == <<tables, memory, work, outside, counters>>

\* The statuses of a row that wait for a payment: 0, 96, 97 and 98.
Open == {"pending", "ready", "crash", "paid"}
NoRow == [status |-> "none", target |-> None]

\* known: the source's row, or the memory's entry, existed when it was read.
\* added: the handler put its row in memory. upd: rows of transfers it updated.
Idle == [pc |-> "idle", h |-> None, op |-> "init", row |-> None,
         known |-> FALSE, added |-> FALSE, upd |-> {}]

Init ==
  /\ bt = [s \in Sources |-> NoRow]
  /\ op = [h \in Hashes |-> "absent"]
  /\ mem = [s \in Sources |-> "no"] /\ cache = {} /\ old = {}
  /\ work = [k \in Workers |-> Idle]
  /\ maker = [s \in Sources |-> None] /\ sent = {} /\ past = {}
  /\ deliveries = 0 /\ faults = 0

-----------------------------------------------------------------------------
(* Row locks. An UPDATE of a V2 row that exists is given its transaction in *)
(* an argument that update does not have, and so runs outside it.           *)

Writing == {"srcMark", "srcCommit", "memMark", "memCommit", "dbMark", "dbCommit"}

HoldsRow(k, s) ==
  /\ work[k].pc \in Writing
  /\ work[k].row = s
  /\ ~(work[k].h = s /\ Version[s] = "2-0" /\ work[k].known)

RowFree(s)  == maker[s] = None /\ \A k \in Workers : ~HoldsRow(k, s)
MarkFree(h) == \A k \in Workers : h \notin work[k].upd

Fault == faults < MaxFaults /\ faults' = faults + 1

Goto(k, r) == work' = [work EXCEPT ![k] = r]
Done(k)    == Goto(k, Idle)

-----------------------------------------------------------------------------
(* Where handlers come from.                                                *)

\* The crawler's receipt is stored: a source transfer, or a payment made.
Insert(h) ==
  /\ op[h] = "absent"
  /\ h \in Sources \cup sent
  /\ op' = [op EXCEPT ![h] = "init"]
  /\ UNCHANGED <<bt, memory, work, outside, counters>>

Start(k, h, o) ==
  /\ work[k].pc = "idle"
  /\ op[h] # "absent"
  /\ Goto(k, [Idle EXCEPT !.pc = IF h \in Sources THEN "select" ELSE "lookup",
                          !.h = h, !.op = o])

\* A message carries the opStatus the transfer had when it was published.
Deliver(k, h) ==
  /\ deliveries < MaxDeliveries /\ deliveries' = deliveries + 1
  /\ \E o \in {"init", op[h]} : Start(k, h, o)
  /\ UNCHANGED <<tables, memory, outside, faults>>

\* matchScheduleTask: source transfers with opStatus 0, the newest 500 (V2: 1000).
\* One that is behind the limit for a while is polled later.
PollSource(k, s) ==
  /\ op[s] = "init" /\ s \notin past
  /\ Start(k, s, "init")
  /\ UNCHANGED <<tables, memory, outside, counters>>

\* matchSenderScheduleTask: payments with opStatus 0, the newest 1000.
PollPayment(k, p) ==
  /\ op[p] = "init" /\ p \notin past
  /\ Start(k, p, "init")
  /\ UNCHANGED <<tables, memory, outside, counters>>

\* The entries in memory with the features of a payment.
InMemory(p) == {s \in Sources : mem[s] # "no" /\ Feature[s] = Feature[p]}

\* fromCacheMatch.
FromCache(k, p) ==
  /\ p \in cache /\ InMemory(p) # {}
  /\ Start(k, p, "init")
  /\ UNCHANGED <<tables, memory, outside, counters>>

-----------------------------------------------------------------------------
(* handleTransferBySourceTx.                                                *)

SrcSelect(k) ==
  LET s == work[k].h IN
  /\ work[k].pc = "select"
  /\ IF bt[s].status \in {"none", "pending"}
     THEN Goto(k, [work[k] EXCEPT !.pc = "build", !.known = bt[s].status = "pending"])
     ELSE Done(k)
  /\ UNCHANGED <<tables, memory, outside, counters>>

\* No rule, token or amount fits. The reason is put on the transfer when it
\* is old enough, whatever its opStatus is by then.
SrcRefused(k) ==
  LET s == work[k].h IN
  /\ work[k].pc = "build"
  /\ \/ MarkFree(s) /\ op' = [op EXCEPT ![s] = "refused"]
     \/ op' = op
  /\ Done(k)
  /\ UNCHANGED <<bt, memory, outside, counters>>

\* The INSERT waits for another one of the same source and then fails.
SrcWrite(k) ==
  LET s == work[k].h
      add == /\ Version[s] = "1-0" /\ ~work[k].known
             /\ s \notin old /\ mem[s] = "no"
  IN
  /\ work[k].pc = "build"
  /\ (work[k].known \/ bt[s].status = "none") => RowFree(s)
  /\ IF work[k].known \/ bt[s].status = "none"
     THEN /\ Goto(k, [work[k] EXCEPT !.pc = "srcMark", !.row = s, !.added = add])
          /\ mem' = IF add THEN [mem EXCEPT ![s] = "live"] ELSE mem
     ELSE Done(k) /\ mem' = mem
  /\ UNCHANGED <<tables, cache, old, outside, counters>>

SrcMark(k) ==
  LET s == work[k].h
      rows == IF work[k].op = "valid" THEN {} ELSE {s} IN
  /\ work[k].pc = "srcMark"
  /\ \A h \in rows : MarkFree(h)
  /\ Goto(k, [work[k] EXCEPT !.pc = "srcCommit", !.upd = rows])
  /\ UNCHANGED <<tables, memory, outside, counters>>

\* Mutant: the row that was found is written with the status of a new one.
SrcCommitReopens(k) ==
  LET s == work[k].h IN
  /\ work[k].pc = "srcCommit"
  /\ bt' = [bt EXCEPT ![s] = [status |-> "pending", target |-> None]]
  /\ op' = [h \in Hashes |-> IF h \in work[k].upd THEN "valid" ELSE op[h]]
  /\ Done(k)
  /\ UNCHANGED <<memory, outside, counters>>

SrcCommit(k) ==
  LET s == work[k].h IN
  /\ work[k].pc = "srcCommit"
  /\ bt' = IF work[k].known THEN bt
           ELSE [bt EXCEPT ![s] = [status |-> "pending", target |-> None]]
  /\ op' = [h \in Hashes |-> IF h \in work[k].upd THEN "valid" ELSE op[h]]
  /\ Done(k)
  /\ UNCHANGED <<memory, outside, counters>>

\* The ROLLBACK takes the row away and leaves the entry in memory with its id.
SrcFails(k) ==
  LET s == work[k].h IN
  /\ work[k].pc \in {"srcMark", "srcCommit"}
  /\ Fault
  /\ mem' = IF work[k].added /\ mem[s] = "live" THEN [mem EXCEPT ![s] = "ghost"] ELSE mem
  /\ Done(k)
  /\ UNCHANGED <<tables, cache, old, outside, deliveries>>

-----------------------------------------------------------------------------
(* handleTransferByDestTx: the entry in memory, then the database.          *)

Lookup(k) ==
  LET p == work[k].h IN
  /\ work[k].pc = "lookup"
  /\ \/ /\ InMemory(p) = {}
        /\ Goto(k, [work[k] EXCEPT !.pc = "byTarget"])
     \/ \E s \in InMemory(p) :
          Goto(k, [work[k] EXCEPT !.pc = "memUpdate", !.row = s, !.known = mem[s] = "live"])
  /\ UNCHANGED <<tables, memory, outside, counters>>

ToDatabase(k) == Goto(k, [work[k] EXCEPT !.pc = "byTarget", !.row = None,
                                         !.known = FALSE, !.upd = {}])

\* Mutant: an entry whose row is gone, or not open, ends the handler.
MemUpdateEnds(k) ==
  LET s == work[k].row
      found == work[k].known /\ bt[s].status \in Open IN
  /\ work[k].pc = "memUpdate"
  /\ found => RowFree(s)
  /\ IF found THEN Goto(k, [work[k] EXCEPT !.pc = "memMark"]) ELSE Done(k)
  /\ UNCHANGED <<tables, memory, outside, counters>>

\* The UPDATE must find one row: this entry's, waiting for a payment. It also asks
\* for a sourceTime of the last 72 hours, which an entry of 20 minutes has.
MemUpdate(k) ==
  LET s == work[k].row
      found == work[k].known /\ bt[s].status \in Open IN
  /\ work[k].pc = "memUpdate"
  /\ found => RowFree(s)
  /\ IF found THEN Goto(k, [work[k] EXCEPT !.pc = "memMark"]) ELSE ToDatabase(k)
  /\ UNCHANGED <<tables, memory, outside, counters>>

\* Mutant: only the source transfer is booked.
UnmatchedSource(p, s) == {h \in {s} : op[h] \in {"init", "valid"}}

\* The transfers of a pair that are not matched or refused.
Unmatched(p, s) == {h \in {p, s} : op[h] \in {"init", "valid"}}

MemMark(k) ==
  LET rows == Unmatched(work[k].h, work[k].row) IN
  /\ work[k].pc = "memMark"
  /\ \A h \in rows : MarkFree(h)
  /\ IF Cardinality(rows) = 2
     THEN Goto(k, [work[k] EXCEPT !.pc = "memCommit", !.upd = rows])
     ELSE ToDatabase(k)
  /\ UNCHANGED <<tables, memory, outside, counters>>

\* Mutant: the source's hash is put in targetId.
SettleSource(k) ==
  /\ bt' = [bt EXCEPT ![work[k].row] = [status |-> "success", target |-> work[k].row]]
  /\ op' = [h \in Hashes |-> IF h \in work[k].upd THEN "matched" ELSE op[h]]

Settle(k) ==
  /\ bt' = [bt EXCEPT ![work[k].row] = [status |-> "success", target |-> work[k].h]]
  /\ op' = [h \in Hashes |-> IF h \in work[k].upd THEN "matched" ELSE op[h]]

MemCommit(k) ==
  /\ work[k].pc = "memCommit"
  /\ Settle(k)
  /\ cache' = cache \ {work[k].h}
  /\ Done(k)
  /\ UNCHANGED <<mem, old, outside, counters>>

\* A failing statement is rolled back. After a failing COMMIT the ROLLBACK throws
\* and ends the handler.
MemFails(k) ==
  /\ Fault
  /\ \/ work[k].pc \in {"memUpdate", "memMark"} /\ ToDatabase(k)
     \/ work[k].pc = "memCommit" /\ Done(k)
  /\ UNCHANGED <<tables, memory, outside, deliveries>>

\* The row that names this payment already: the maker's, or one matched before.
Named(p) == {s \in Sources : bt[s].target = p}

\* The rows that wait for a payment like this one.
Waiting(p) == {s \in Sources : bt[s].status \in Open /\ Feature[s] = Feature[p]}

ByTarget(k) ==
  LET p == work[k].h IN
  /\ work[k].pc = "byTarget"
  /\ \/ /\ Named(p) = {}
        /\ Goto(k, [work[k] EXCEPT !.pc = "byFeatures"])
     \/ \E s \in Named(p) : Goto(k, [work[k] EXCEPT !.pc = "save", !.row = s])
  /\ UNCHANGED <<tables, memory, outside, counters>>

ByFeatures(k) ==
  LET p == work[k].h IN
  /\ work[k].pc = "byFeatures"
  /\ \/ /\ Waiting(p) = {}
        /\ cache' = IF p \in old THEN cache ELSE cache \cup {p}
        /\ Done(k)
     \/ /\ \E s \in Waiting(p) : Goto(k, [work[k] EXCEPT !.pc = "save", !.row = s])
        /\ cache' = cache
  /\ UNCHANGED <<tables, mem, old, outside, counters>>

\* An UPDATE by the row's id, whatever its status is by then.
Save(k) ==
  /\ work[k].pc = "save"
  /\ RowFree(work[k].row)
  /\ Goto(k, [work[k] EXCEPT !.pc = "dbMark"])
  /\ UNCHANGED <<tables, memory, outside, counters>>

DbMark(k) ==
  LET rows == Unmatched(work[k].h, work[k].row) IN
  /\ work[k].pc = "dbMark"
  /\ \A h \in rows : MarkFree(h)
  /\ Goto(k, [work[k] EXCEPT !.pc = "dbCommit", !.upd = rows])
  /\ cache' = cache \ {work[k].h}
  /\ UNCHANGED <<tables, mem, old, outside, counters>>

DbCommit(k) ==
  /\ work[k].pc = "dbCommit"
  /\ Settle(k)
  /\ Done(k)
  /\ UNCHANGED <<memory, outside, counters>>

DbFails(k) ==
  /\ work[k].pc \in {"byTarget", "byFeatures", "save", "dbMark", "dbCommit"}
  /\ Fault
  /\ Done(k)
  /\ UNCHANGED <<tables, memory, outside, deliveries>>

-----------------------------------------------------------------------------
(* Time, restarts and the maker.                                            *)

\* The job that forgets entries older than 20 minutes.
Expire(h) ==
  /\ h \notin old /\ op[h] # "absent" /\ Cardinality(old) < MaxOld
  /\ old' = old \cup {h}
  /\ mem' = [s \in Sources |-> IF s = h THEN "no" ELSE mem[s]]
  /\ cache' = cache \ {h}
  /\ UNCHANGED <<tables, work, outside, counters>>

\* A transfer with opStatus 0 leaves the window of its schedule.
Pass(h) ==
  /\ h \in old /\ op[h] = "init"
  /\ past' = past \cup {h}
  /\ UNCHANGED <<tables, memory, work, maker, sent, counters>>

Crash ==
  /\ Fault
  /\ work' = [k \in Workers |-> Idle]
  /\ mem' = [s \in Sources |-> "no"] /\ cache' = {}
  /\ UNCHANGED <<tables, old, outside, deliveries>>

\* The maker claims a pending row, whose lock it keeps, and broadcasts.
MakerPays(p) ==
  LET s == Pays[p] IN
  /\ p \notin sent
  /\ bt[s].status = "pending" /\ RowFree(s)
  /\ maker' = [maker EXCEPT ![s] = p]
  /\ sent' = sent \cup {p}
  /\ UNCHANGED <<tables, memory, work, past, counters>>

\* Its COMMIT books the payment (98), books a doubt (97) or is lost.
MakerEnds(s) ==
  /\ maker[s] # None
  /\ \/ bt' = [bt EXCEPT ![s] = [status |-> "paid", target |-> maker[s]]]
     \/ bt' = [bt EXCEPT ![s].status = "crash"]
     \/ bt' = bt
  /\ maker' = [maker EXCEPT ![s] = None]
  /\ UNCHANGED <<op, memory, work, sent, past, counters>>

-----------------------------------------------------------------------------
Source(k) == SrcSelect(k) \/ SrcWrite(k) \/ SrcMark(k) \/ SrcCommit(k)
Payment(k) ==
  \/ Lookup(k) \/ MemUpdate(k) \/ MemMark(k) \/ MemCommit(k)
  \/ ByTarget(k) \/ ByFeatures(k) \/ Save(k) \/ DbMark(k) \/ DbCommit(k)
Broken(k) == SrcRefused(k) \/ SrcFails(k) \/ MemFails(k) \/ DbFails(k)
Begin(k)  == \/ \E h \in Hashes : Deliver(k, h)
             \/ \E s \in Sources : PollSource(k, s)
             \/ \E p \in Payments : PollPayment(k, p) \/ FromCache(k, p)

Next ==
  \/ \E h \in Hashes : Insert(h) \/ Expire(h) \/ Pass(h)
  \/ \E k \in Workers : Begin(k) \/ Source(k) \/ Payment(k) \/ Broken(k)
  \/ \E p \in Payments : MakerPays(p)
  \/ \E s \in Sources : MakerEnds(s)
  \/ Crash

Spec == Init /\ [][Next]_vars

\* A handler goes on, the maker's transaction ends, the crawler stores what is
\* on the chain, and the schedule comes back to a payment that has no match for as
\* long as its window holds it.
Fairness ==
  /\ \A k \in Workers : WF_vars(Source(k)) /\ WF_vars(Payment(k))
  /\ \A s \in Sources : WF_vars(MakerEnds(s))
  /\ \A p \in Payments : WF_vars(Insert(p)) /\ SF_vars(\E k \in Workers : PollPayment(k, p))
FairSpec == Spec /\ Fairness

-----------------------------------------------------------------------------
(* Properties.                                                              *)

HandlerState ==
  [pc: {"idle", "select", "build", "lookup", "memUpdate", "byTarget", "byFeatures",
        "save"} \cup Writing,
   h: Hashes \cup {None}, op: {"init", "valid", "refused", "matched"},
   row: Sources \cup {None}, known: BOOLEAN, added: BOOLEAN, upd: SUBSET Hashes]

\* The types of the tables, the memory and the handlers (seq-models, the
\* MemoryMatchingService and the locals of the two handlers).
TypeOK ==
  /\ bt \in [Sources -> [status: Open \cup {"none", "success"},
                         target: Payments \cup {None}]]
  /\ op \in [Hashes -> {"absent", "init", "valid", "refused", "matched"}]
  /\ mem \in [Sources -> {"no", "live", "ghost"}]
  /\ cache \subseteq Payments /\ old \subseteq Hashes
  /\ work \in [Workers -> HandlerState]
  /\ maker \in [Sources -> Payments \cup {None}] /\ sent \subseteq Payments /\ past \subseteq old
  /\ deliveries \in 0..MaxDeliveries /\ faults \in 0..MaxFaults

\* No other payment has the same address, amount, chain and symbol.
Alone(p) == \A q \in Payments : Feature[q] = Feature[p] => q = p

\* The two tables agree on what is matched: the payment of a settled row is
\* booked as matched, and for a payment so booked a row of its features is
\* settled, which names it if no other payment is alike, even while the
\* memory's and the database's path, two handlers of one transfer or the
\* maker's transaction are between two statements.
BooksAgree ==
  /\ \A s \in Sources : bt[s].status = "success" =>
       bt[s].target \in Payments /\ op[bt[s].target] = "matched"
  /\ \A p \in Payments : op[p] = "matched" =>
       \E s \in Sources : /\ bt[s].status = "success" /\ Feature[s] = Feature[p]
                          /\ Alone(p) => bt[s].target = p

\* A settled row stays settled, by a payment of its features, whatever is
\* booked, built or rolled back beside it. Handlers of payments that are alike
\* may overlap, as the UPDATE of the database's path names the row by its id
\* only: then a row may get the other payment, and a payment a second row.
Matched == {x \in Sources \X Payments : bt[x[1]].status = "success" /\ bt[x[1]].target = x[2]}
P == INSTANCE Pairing WITH pairs <- Matched
PairsKept == P!PairSpec

\* A payment and the row it is for find each other, whichever came first and
\* whatever was lost in a restart or left in memory by a rollback, unless the payment
\* leaves the window of its schedule before. If another payment is like it, that
\* one may get the row instead.
EventuallyMatched ==
  \A p \in Payments :
    LET row == bt[Pays[p]].status IN
    (row \in Open /\ op[p] = "init")
      ~> \/ op[p] = "matched" \/ p \in past
         \/ ~Alone(p) /\ row = "success"

=============================================================================
