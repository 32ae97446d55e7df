--------------------------------- MODULE Sync ---------------------------------
(***************************************************************************)
(* data-synchronization: copies the transfers and the bridge transactions  *)
(* of the V3 database into the V1 database. Two jobs read what is to be    *)
(* copied every minute, whether their last run has ended or not, and two   *)
(* routes of the controller do the same by hand. The V3 tables are written *)
(* by the crawler, the refinery and the maker client.                      *)
(***************************************************************************)
EXTENDS Integers, Sequences, FiniteSets

CONSTANTS
  Sources,    \* deposits
  PaymentOf,  \* [Sources -> payments]
  Bridgers,   \* runs of syncV3BridgeTraxToV1 that may overlap
  Matchers,   \* runs of readV1NotMatchTx and readV1NotMatchTx2
  Callers,    \* calls of the controller's routes
  MaxCrashes, \* bound: restarts of the service
  None

Payments == {PaymentOf[s] : s \in Sources}
Hashes   == Sources \cup Payments
Workers  == Bridgers \cup Matchers \cup Callers

ASSUME SyncAssumption ==
  /\ PaymentOf \in [Sources -> Payments]
  /\ \A r, s \in Sources : PaymentOf[r] = PaymentOf[s] => r = s
  /\ Sources \cap Payments = {} /\ MaxCrashes \in Nat
  /\ None \notin Hashes \cup {1, 3, 99} /\ None \notin [out : Payments \cup {None}]
  /\ Bridgers \cap Matchers = {} /\ (Bridgers \cup Matchers) \cap Callers = {}

VARIABLES
  seen,    \* transfers.status: "none" no row, "ok" (2) or "failed"
  op,      \* transfers.opStatus: 0, 1 built, 2 refused, 99 matched
  synced,  \* transfers.syncStatus: 0, 1, 9
  bridge,  \* bridge_transaction: "none", "built", "sent" with a targetId, "done"
  v1,      \* V1 transaction: status, or None without a row
  maker,   \* V1 maker_transaction of a source: None, or its outId in a record
  past,    \* sources whose maker_transaction readV1NotMatchTx and -Tx2 select no more
  w,       \* the workers
  crashes  \* counts up to MaxCrashes

v3 == <<seen, op, bridge, past, crashes>>
vars == <<seen, op, synced, bridge, v1, maker, past, w, crashes>>

Free == [pc |-> "free", src |-> None, hash |-> None, todo |-> <<>>, was |-> 0, known |-> FALSE]
Matched(s) == maker[s] # None /\ maker[s].out # None
HasTarget(s) == bridge[s] \in {"sent", "done"}
SourceOf(h) == CHOOSE s \in Sources : h \in {s, PaymentOf[s]}
Side(s) == IF HasTarget(s) THEN <<s, PaymentOf[s]>> ELSE <<s>>

Init ==
  /\ seen = [h \in Hashes |-> "none"] /\ op = [h \in Hashes |-> 0]
  /\ synced = [h \in Hashes |-> 0] /\ bridge = [s \in Sources |-> "none"]
  /\ v1 = [h \in Hashes |-> None] /\ maker = [s \in Sources |-> None]
  /\ past = {} /\ w = [x \in Workers |-> Free] /\ crashes = 0

-----------------------------------------------------------------------------
(* The V3 side.                                                             *)

Crawl(h, status) ==
  /\ seen[h] = "none"
  /\ h \in Payments => HasTarget(SourceOf(h))
  /\ seen' = [seen EXCEPT ![h] = status]
  /\ UNCHANGED <<op, synced, bridge, v1, maker, past, w, crashes>>

Build(s) ==
  /\ seen[s] = "ok" /\ op[s] = 0
  /\ \/ op' = [op EXCEPT ![s] = 1] /\ bridge' = [bridge EXCEPT ![s] = "built"]
     \/ op' = [op EXCEPT ![s] = 2] /\ UNCHANGED bridge
  /\ UNCHANGED <<seen, synced, v1, maker, past, w, crashes>>

\* The maker client stores the hash of the payment before the crawler reads it.
Send(s) ==
  /\ bridge[s] = "built"
  /\ bridge' = [bridge EXCEPT ![s] = "sent"]
  /\ UNCHANGED <<seen, op, synced, v1, maker, past, w, crashes>>

Settle(s) ==
  /\ bridge[s] = "sent" /\ seen[PaymentOf[s]] = "ok"
  /\ bridge' = [bridge EXCEPT ![s] = "done"]
  /\ op' = [op EXCEPT ![s] = 99, ![PaymentOf[s]] = 99]
  /\ UNCHANGED <<seen, synced, v1, maker, past, w, crashes>>

-----------------------------------------------------------------------------
(* The matchers select maker_transactions of the last 20 minutes, the       *)
(* oldest 500, and of the last 24 hours, the newest 1000. One that leaves   *)
(* both windows, or stays behind both limits until it does, is not selected *)
(* any more; a place behind a limit for a while is a poll that comes later. *)

Pass(s) ==
  /\ maker[s] # None
  /\ past' = past \cup {s}
  /\ UNCHANGED <<seen, op, synced, bridge, v1, maker, w, crashes>>

-----------------------------------------------------------------------------
(* syncTransferByHash: three database operations on the hash at hand. An    *)
(* error ends the work on the source.                                       *)

At(x, pc) == w[x].pc = pc
Go(x, pc) == w' = [w EXCEPT ![x].pc = pc]
Done(x) == w' = [w EXCEPT ![x] = Free]

\* What follows the copy of a hash: the next one or, when a bridger has copied all
\* that were missing, the bridge transaction read again; the others end.
Onward(x) ==
  CASE Len(w[x].todo) > 1 ->
         [w[x] EXCEPT !.todo = Tail(@), !.hash = w[x].todo[2], !.pc = "transfer"]
    [] Len(w[x].todo) <= 1 /\ x \in Bridgers -> [w[x] EXCEPT !.todo = <<>>, !.pc = "bridge"]
    [] OTHER -> Free
Copied(x) == w' = [w EXCEPT ![x] = Onward(x)]

\* A source without an operation is left, as are hashes that are in V1.
Leaves(h) == \/ seen[h] = "ok" /\ h \in Sources /\ op[h] = 0
             \/ seen[h] = "ok" /\ v1[h] # None
Failing(h) == seen[h] = "failed"

ReadTransfer(x) ==
  LET h == w[x].hash IN
  /\ At(x, "transfer")
  /\ \/ seen[h] = "none" /\ Done(x) /\ UNCHANGED synced
     \/ Failing(h) /\ synced' = [synced EXCEPT ![h] = 9] /\ Copied(x)
     \/ Leaves(h) /\ Copied(x) /\ UNCHANGED synced
     \/ seen[h] = "ok" /\ ~Leaves(h) /\ Go(x, "create") /\ UNCHANGED synced
  /\ UNCHANGED <<v3, v1, maker>>

\* The status of the V1 row, from the operation status of the V3 row.
\* Mutant of StatusOf: the operation status itself.
StatusRaw(h) == op[h]
StatusOf(h) == IF op[h] = 2 THEN 3 ELSE 1

\* The row is new, or another worker was faster and the key refuses it.
Create(x) ==
  LET h == w[x].hash IN
  /\ At(x, "create")
  /\ IF v1[h] = None
     THEN /\ v1' = [v1 EXCEPT ![h] = StatusOf(h)]
          /\ Go(x, "mark")
     ELSE Done(x) /\ UNCHANGED v1
  /\ UNCHANGED <<v3, synced, maker>>

Mark(x) ==
  /\ At(x, "mark")
  /\ synced' = [synced EXCEPT ![w[x].hash] = 9]
  /\ Copied(x)
  /\ UNCHANGED <<v3, v1, maker>>

-----------------------------------------------------------------------------
(* syncV3BridgeTraxToV1: one source of the list, which holds at most 500    *)
(* deposits of the last 120 minutes. Nothing here says that a source is     *)
(* ever selected: one that is not in time is as one that is never chosen.   *)

Select(x, s) ==
  /\ x \in Bridgers /\ At(x, "free")
  /\ seen[s] # "none" /\ op[s] # 0 /\ synced[s] # 9
  /\ w' = [w EXCEPT ![x] = [Free EXCEPT !.pc = "bridge", !.src = s, !.was = synced[s]]]
  /\ UNCHANGED <<v3, synced, v1, maker>>

ReadBridge(x) ==
  LET s == w[x].src
      missing == SelectSeq(Side(s), LAMBDA h : v1[h] = None)
  IN
  /\ At(x, "bridge")
  /\ CASE bridge[s] = "none" -> Done(x)
       [] bridge[s] # "none" /\ missing = <<>> -> Go(x, "maker")
       [] OTHER -> w' = [w EXCEPT ![x].todo = missing, ![x].hash = Head(missing), ![x].pc = "transfer"]
  /\ UNCHANGED <<v3, synced, v1, maker>>

ReadMaker(x) ==
  /\ At(x, "maker")
  /\ Go(x, IF Matched(w[x].src) THEN "status9" ELSE "upsert")
  /\ UNCHANGED <<v3, synced, v1, maker>>

\* The fields that are written do not include outId: a match that was stored since
\* ReadMaker stays.
\* Mutant of Upserted: with outId among the fields.
UpsertedAll(m) == [out |-> None]
Upserted(m) == IF m = None THEN [out |-> None] ELSE m
Upsert(x) ==
  /\ At(x, "upsert")
  /\ maker' = [maker EXCEPT ![w[x].src] = Upserted(@)]
  /\ Go(x, "status1")
  /\ UNCHANGED <<v3, synced, v1>>

\* row.save() writes the fields that differ from the row as it was read.
SaveStatus(x) ==
  /\ \/ At(x, "status9") /\ synced' = [synced EXCEPT ![w[x].src] = 9]
     \/ At(x, "status1") /\ synced' = IF w[x].was = 1 THEN synced
                                      ELSE [synced EXCEPT ![w[x].src] = 1]
  /\ Done(x)
  /\ UNCHANGED <<v3, v1, maker>>

-----------------------------------------------------------------------------
(* readV1NotMatchTx, readV1NotMatchTx2: one unmatched maker_transaction of  *)
(* the list, and syncBTTransfer of its source.                              *)

SelectUnmatched(x, s) ==
  /\ x \in Matchers /\ At(x, "free")
  /\ maker[s] # None /\ ~Matched(s) /\ s \notin past
  /\ w' = [w EXCEPT ![x] = [Free EXCEPT !.pc = "status", !.src = s]]
  /\ UNCHANGED <<v3, synced, v1, maker>>

ReadStatus(x) ==
  LET s == w[x].src IN
  /\ At(x, "status")
  /\ IF v1[s] # 99 /\ op[s] = 99 THEN Go(x, "rows") ELSE Done(x)
  /\ UNCHANGED <<v3, synced, v1, maker>>

\* The rows of both sides; the first that is missing is copied, and that is all.
CopyThen(x, s, h) ==
  w' = [w EXCEPT ![x] = [Free EXCEPT !.pc = "transfer", !.src = s, !.hash = h, !.todo = <<h>>]]

ReadRows(x) ==
  LET s == w[x].src IN
  /\ At(x, "rows")
  /\ CASE v1[s] = 99 -> Done(x)
       [] v1[s] = None -> CopyThen(x, s, s)
       [] v1[s] \notin {None, 99} /\ v1[PaymentOf[s]] = None -> CopyThen(x, s, PaymentOf[s])
       [] OTHER -> Go(x, "known")
  /\ UNCHANGED <<v3, synced, v1, maker>>

ReadKnown(x) ==
  /\ At(x, "known")
  /\ w' = [w EXCEPT ![x].known = maker[w[x].src] # None, ![x].pc = "commit"]
  /\ UNCHANGED <<v3, synced, v1, maker>>

\* One database transaction: the maker_transaction is updated, or created when none
\* was found, which its key refuses if there is one now; and both rows become 99
\* if neither is yet.
\* Mutant of Stores: a maker_transaction that exists is not updated.
StoresNew(x) == maker[w[x].src] = None
Stores(x) == w[x].known \/ maker[w[x].src] = None
BothOpen(s) == {v1[s], v1[PaymentOf[s]]} \cap {None, 99} = {}

Commit(x) ==
  LET s == w[x].src IN
  /\ At(x, "commit")
  /\ IF Stores(x) /\ BothOpen(s)
     THEN /\ maker' = [maker EXCEPT ![s] = [out |-> PaymentOf[s]]]
          /\ v1' = [v1 EXCEPT ![s] = 99, ![PaymentOf[s]] = 99]
     ELSE UNCHANGED <<maker, v1>>
  /\ Done(x)
  /\ UNCHANGED <<v3, synced>>

-----------------------------------------------------------------------------
(* The controller: manualSync of a hash, manualSyncBTT (syncBTTransfer2) of *)
(* one, which does not ask whether V3 has settled.                          *)

ManualSync(x, h) ==
  /\ x \in Callers /\ At(x, "free")
  /\ CopyThen(x, SourceOf(h), h)
  /\ UNCHANGED <<v3, synced, v1, maker>>

ManualBridge(x, h) ==
  LET s == SourceOf(h) IN
  /\ x \in Callers /\ At(x, "free")
  /\ CASE v1[h] = None -> CopyThen(x, s, h)
       [] v1[h] = 99 -> UNCHANGED w
       [] OTHER -> w' = [w EXCEPT ![x] = [Free EXCEPT !.pc = "pair", !.src = s, !.hash = h]]
  /\ UNCHANGED <<v3, synced, v1, maker>>

\* The bridge transaction that names the hash; "known" keeps whether it has a targetId.
ReadPair(x) ==
  LET s == w[x].src
      h == w[x].hash
      named == IF h = s THEN bridge[s] # "none" ELSE HasTarget(s)
  IN
  /\ At(x, "pair")
  /\ IF seen[h] # "none" /\ named
     THEN w' = [w EXCEPT ![x].known = HasTarget(s), ![x].pc = "source"]
     ELSE Done(x)
  /\ UNCHANGED <<v3, synced, v1, maker>>

ReadSource(x) ==
  LET s == w[x].src IN
  /\ At(x, "source")
  /\ IF v1[s] = None THEN CopyThen(x, s, s) ELSE Go(x, "target")
  /\ UNCHANGED <<v3, synced, v1, maker>>

\* Without the row of the payment the route throws at targetTx.id.
ReadTarget(x) ==
  LET s == w[x].src IN
  /\ At(x, "target")
  /\ IF w[x].known /\ v1[PaymentOf[s]] # None THEN Go(x, "known") ELSE Done(x)
  /\ UNCHANGED <<v3, synced, v1, maker>>

-----------------------------------------------------------------------------
\* A restart of the service.
Crash ==
  /\ crashes < MaxCrashes
  /\ crashes' = crashes + 1
  /\ w' = [x \in Workers |-> Free]
  /\ UNCHANGED <<seen, op, synced, bridge, v1, maker, past>>

Copy(x) == ReadTransfer(x) \/ Create(x) \/ Mark(x)
Step(x) ==
  \/ Copy(x)
  \/ ReadBridge(x) \/ ReadMaker(x) \/ Upsert(x) \/ SaveStatus(x)
  \/ ReadPair(x) \/ ReadSource(x) \/ ReadTarget(x)
  \/ ReadStatus(x) \/ ReadRows(x) \/ ReadKnown(x) \/ Commit(x)

Next ==
  \/ \E h \in Hashes, status \in {"ok", "failed"} : Crawl(h, status)
  \/ \E s \in Sources : Build(s) \/ Send(s) \/ Settle(s) \/ Pass(s)
  \/ \E x \in Workers : Step(x)
  \/ \E x \in Bridgers, s \in Sources : Select(x, s)
  \/ \E x \in Matchers, s \in Sources : SelectUnmatched(x, s)
  \/ \E x \in Callers, h \in Hashes : ManualSync(x, h) \/ ManualBridge(x, h)
  \/ Crash

Spec == Init /\ [][Next]_vars

\* A worker that has begun goes on, and the jobs that match are started again for a
\* source that comes back into their selection; the first job owes nothing.
FairSpec ==
  /\ Spec
  /\ \A x \in Workers : WF_vars(Step(x))
  /\ \A x \in Matchers, s \in Sources : SF_vars(SelectUnmatched(x, s))

-----------------------------------------------------------------------------
(* What the copy promises.                                                  *)

Statuses == {None, 1, 3, 99}
Pcs == {"free", "bridge", "transfer", "create", "mark", "maker", "upsert", "status1",
        "status9", "pair", "source", "target", "status", "rows", "known", "commit"}

\* Type invariant of the copied tables and of the workers' places.
TypeOK ==
  /\ v1 \in [Hashes -> Statuses]
  /\ maker \in [Sources -> {None} \cup [out : {None} \cup Payments]]
  /\ \A x \in Workers : w[x].pc \in Pcs /\ w[x].src \in Sources \cup {None}

\* However the runs of the jobs and the calls of the routes overlap, and whenever the
\* service stops, the match of a deposit and the statuses of its two rows are there
\* together or not at all (transaction.service.ts:322, :616).
Together ==
  \A s \in Sources :
    /\ Matched(s) => /\ maker[s].out = PaymentOf[s]
                     /\ v1[s] = 99 /\ v1[PaymentOf[s]] = 99
    /\ v1[s] = 99 \/ v1[PaymentOf[s]] = 99 => Matched(s)

\* An unmatched maker_transaction of a deposit that V3 has settled is matched, unless
\* it leaves the window of both jobs, or stays behind their limits, before
\* (transaction.service.ts:681, :725).
MatchCopied ==
  \A s \in Sources :
    (maker[s] # None /\ bridge[s] = "done") ~> (Matched(s) \/ s \in past)
=============================================================================
