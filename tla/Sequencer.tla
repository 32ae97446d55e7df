------------------------------ MODULE Sequencer ------------------------------
(***************************************************************************)
(* The payment sequencer of maker-client: one Redis queue of owed source   *)
(* transactions (queueKey = targetChain-maker), the executors that         *)
(* readCacheQueue starts every second on it, the Redis "Consume" set that  *)
(* fences a transaction once it is about to be paid, the bridge_transaction*)
(* rows of Postgres and the payments broadcast by the maker's wallet.      *)
(*                                                                         *)
(* All Redis commands of the process leave through one ioredis connection: *)
(* they run in the order in which they are issued, and the code after an   *)
(* `await redis.x()` runs when that reply arrives.  `pipe` is the sequence *)
(* of issued commands; the step that runs its head also runs the code up   *)
(* to the next await.  Steps that wait for Postgres or for the RPC node    *)
(* interleave freely.                                                      *)
(***************************************************************************)
EXTENDS Naturals, FiniteSets, SequencesExt

CONSTANTS
  Tx,             \* source transactions (sourceId) owed on this queueKey
  Exec,           \* slots for concurrent readQueueExecByKey calls
  NoExec,         \* "no executor holds this row"
  Version,        \* "transfer" ('1-0', '2-0') or "inscription" ('3-0', '3-3')
  PaidType,       \* <chain>.PaidType: 1 = on the interval, 2 = batch or interval
  BatchSize,      \* <chain>.PaidTransferCount
  MaxCount,       \* <chain>.PaidMaxTransferCount
  PromptRedis,    \* Redis answers within the one second between two ticks
  CommitMayFail,  \* Postgres may fail a COMMIT and discard the transaction
  MaxCrashes,     \* bound: process crashes
  MaxFaults,      \* bound: validation refusals, failed sends, failed commits
  MaxDeliveries,  \* bound: RabbitMQ deliveries, first and repeated
  MaxPipe,        \* bound: commands in flight when new work is started
  MaxQueue        \* bound: list length when new work is started

ASSUME ConfigAssumption ==
  /\ IsFiniteSet(Tx) /\ NoExec \notin Exec
  /\ Version \in {"transfer", "inscription"}
  /\ PaidType \in {1, 2}
  /\ BatchSize \in Nat \ {0} /\ MaxCount \in Nat
  /\ PromptRedis \in BOOLEAN /\ CommitMayFail \in BOOLEAN
  /\ {MaxCrashes, MaxFaults, MaxDeliveries, MaxPipe, MaxQueue} \subseteq Nat

VARIABLES
  pipe,      \* Redis commands issued and not yet executed, in order
  list,      \* Redis list <queueKey>: LPUSH at the head, consumed at the tail
  members,   \* Redis set <queueKey>:set
  stored,    \* transactions with a tx:<hash> record
  consumed,  \* Redis set Consume:<chain>
  locked,    \* Lock[queueKey].locked
  recent,    \* Date.now() - Lock[queueKey].prevTime < paidInterval
  ex,        \* local state of each readQueueExecByKey call
  polled,    \* rows of a readDBTransactionRecords SELECT not yet enqueued
  row,       \* committed status of each bridge_transaction row
  holder,    \* executor whose open database transaction has the row locked
  sent,      \* number of payments broadcast for each transaction
  mq,        \* deliveries RabbitMQ may still make
  faults, crashes

redis == <<pipe, list, members, stored, consumed>>
lock  == <<locked, recent>>
db    == <<row, holder>>
env   == <<polled, mq, faults, crashes>>
vars  == <<redis, lock, ex, db, sent, env>>

RedisPc == {"llen", "lrange", "lrem", "srem", "filter", "get", "del", "recheck", "mark"}
LocalPc == {"idle", "dispatch", "check", "group", "read", "save", "claim", "send", "paid", "crash"}

\* todo: transactions of the stage still to handle; out: those the stage has
\* kept; recs: the batch consumptionSendingQueue was given; count: LRANGE's count.
Idle == [pc |-> "idle", count |-> 0, todo |-> <<>>, out |-> <<>>, recs |-> <<>>]

EnqOps == {"sismember", "lpush", "sadd", "set"}
EnqCmd(op, t)   == [op |-> op, tx |-> t]
ExecCmd(e)      == [op |-> "exec", ex |-> e]
UnconsumeCmd(s) == [op |-> "unconsume", txs |-> s]
Enqueues(s)     == [i \in DOMAIN s |-> EnqCmd("sismember", s[i])]

Init ==
  /\ pipe = <<>> /\ list = <<>> /\ members = {} /\ stored = {} /\ consumed = {}
  /\ locked = FALSE /\ recent = TRUE
  /\ ex = [e \in Exec |-> Idle]
  /\ polled = {}
  /\ row = [t \in Tx |-> 0] /\ holder = [t \in Tx |-> NoExec]
  /\ sent = [t \in Tx |-> 0]
  /\ mq = MaxDeliveries
  /\ faults = 0 /\ crashes = 0

Fault == faults < MaxFaults /\ faults' = faults + 1

-----------------------------------------------------------------------------
(* Enqueueing: consumptionQueue, readDBTransactionRecords, enqueueMessage.  *)

\* The MQ handler consumptionQueue: its checks read only the message, whose
\* status snapshot is 0, so a late delivery is enqueued too.
Deliver(t) ==
  /\ mq > 0 /\ Len(pipe) < MaxPipe /\ Len(list) < MaxQueue
  /\ mq' = mq - 1
  /\ pipe' = Append(pipe, EnqCmd("sismember", t))
  /\ UNCHANGED <<list, members, stored, consumed, lock, ex, db, sent, polled, faults, crashes>>

\* The SELECT: rows still owed. targetId is set with status 97 to 99 only. Polls
\* are two minutes apart: with a prompt Redis one has enqueued its rows by then.
PollSelect ==
  /\ polled = {}
  /\ PromptRedis => \A i \in DOMAIN pipe : pipe[i].op \notin EnqOps
  /\ polled' = {t \in Tx : row[t] = 0}
  /\ polled' # {}
  /\ UNCHANGED <<redis, lock, ex, db, sent, mq, faults, crashes>>

\* The rows have arrived: enqueueMessage is started for each, un-awaited.
PollEnqueue ==
  /\ polled # {}
  /\ Len(pipe) < MaxPipe /\ Len(list) < MaxQueue
  /\ \E s \in SetToSeqs(polled) : pipe' = pipe \o Enqueues(s)
  /\ polled' = {}
  /\ UNCHANGED <<list, members, stored, consumed, lock, ex, db, sent, mq, faults, crashes>>

Front1(op) == pipe # <<>> /\ Head(pipe).op = op

Sismember ==
  /\ Front1("sismember")
  /\ LET t == Head(pipe).tx
     IN  pipe' = IF t \in members THEN Tail(pipe)
                                  ELSE Append(Tail(pipe), EnqCmd("lpush", t))
  /\ UNCHANGED <<list, members, stored, consumed, lock, ex, db, sent, env>>

Lpush ==
  /\ Front1("lpush")
  /\ list' = <<Head(pipe).tx>> \o list
  /\ pipe' = Append(Tail(pipe), EnqCmd("sadd", Head(pipe).tx))
  /\ UNCHANGED <<members, stored, consumed, lock, ex, db, sent, env>>

Sadd ==
  /\ Front1("sadd")
  /\ members' = members \cup {Head(pipe).tx}
  /\ pipe' = Append(Tail(pipe), EnqCmd("set", Head(pipe).tx))
  /\ UNCHANGED <<list, stored, consumed, lock, ex, db, sent, env>>

SetData ==
  /\ Front1("set")
  /\ stored' = stored \cup {Head(pipe).tx}
  /\ pipe' = Tail(pipe)
  /\ UNCHANGED <<list, members, consumed, lock, ex, db, sent, env>>

\* Mutant of Unconsume: enqueued again with the mark left on.
UnconsumeKeepsMarks ==
  /\ Front1("unconsume")
  /\ pipe' = Tail(pipe) \o Enqueues(Head(pipe).txs)
  /\ UNCHANGED <<list, members, stored, consumed, lock, ex, db, sent, env>>

\* handlePaidTransactionError, un-awaited: the marks are removed, then every
\* transaction of the batch is enqueued again.
Unconsume ==
  /\ Front1("unconsume")
  /\ consumed' = consumed \ ToSet(Head(pipe).txs)
  /\ pipe' = Tail(pipe) \o Enqueues(Head(pipe).txs)
  /\ UNCHANGED <<list, members, stored, lock, ex, db, sent, env>>

-----------------------------------------------------------------------------
(* readQueueExecByKey: from the tick to the batch in hand.                  *)

\* Mutant of Tick: the lock is not looked at.
TickUnlocked(e) ==
  /\ ex[e] = Idle
  /\ PromptRedis => \A x \in Exec : ex[x].pc # "llen"
  /\ Len(pipe) < MaxPipe
  /\ ex' = [ex EXCEPT ![e].pc = "llen"]
  /\ pipe' = Append(pipe, ExecCmd(e))
  /\ UNCHANGED <<list, members, stored, consumed, lock, db, sent, env>>

\* readCacheQueue's interval: a call starts unless the lock is seen taken.
Tick(e) ==
  /\ ex[e] = Idle
  /\ ~locked
  /\ PromptRedis => \A x \in Exec : ex[x].pc # "llen"
  /\ Len(pipe) < MaxPipe
  /\ ex' = [ex EXCEPT ![e].pc = "llen"]
  /\ pipe' = Append(pipe, ExecCmd(e))
  /\ UNCHANGED <<list, members, stored, consumed, lock, db, sent, env>>

Turn(e, pc) == Front1("exec") /\ Head(pipe).ex = e /\ ex[e].pc = pc

\* The call goes on in local state r; returning runs the `finally` that unlocks.
Continue(e, r) ==
  /\ ex' = [ex EXCEPT ![e] = r]
  /\ pipe' = IF r.pc \in RedisPc THEN Append(Tail(pipe), ExecCmd(e)) ELSE Tail(pipe)
  /\ locked' = (r.pc # "idle" /\ locked)

\* One pass of a `for` loop over todo: handle its head (kept or not), then go to
\* `again` for the next one; after the last, `then` works on what was kept, and
\* an empty result returns. Each pass reverses the order, as the code's own
\* backwards loop does; nothing depends on the order of a batch.
NextItem(e, again, then, keep) ==
  LET more == Tail(ex[e].todo)
      out  == IF keep THEN <<Head(ex[e].todo)>> \o ex[e].out ELSE ex[e].out
  IN  IF more # <<>> THEN [ex[e] EXCEPT !.pc = again, !.todo = more, !.out = out]
      ELSE IF out = <<>> THEN Idle
      ELSE [ex[e] EXCEPT !.pc = then, !.todo = out, !.out = <<>>]

\* Neither the batch size nor the interval is reached: return.
TooEarly == recent /\ (PaidType = 1 \/ Len(list) < BatchSize)

LlenReturn(e) ==
  /\ Turn(e, "llen")
  /\ TooEarly
  /\ ex' = [ex EXCEPT ![e] = Idle]
  /\ pipe' = Tail(pipe)
  /\ locked' = FALSE
  /\ UNCHANGED <<list, members, stored, consumed, recent, db, sent, env>>

LlenProceed(e) ==
  /\ Turn(e, "llen")
  /\ ~TooEarly
  /\ LET n == IF Len(list) >= BatchSize THEN MaxCount
              ELSE IF PaidType = 2 THEN Len(list) ELSE 1
     IN  ex' = [ex EXCEPT ![e].pc = "lrange", ![e].count = n]
  /\ pipe' = Append(Tail(pipe), ExecCmd(e))
  /\ locked' = TRUE
  /\ UNCHANGED <<list, members, stored, consumed, recent, db, sent, env>>

\* LRANGE key -n -1. A count of 0 asks for 0 .. -1, the whole list.
LastOf(s, n) == IF n = 0 \/ n >= Len(s) THEN s ELSE SubSeq(s, Len(s) - n + 1, Len(s))

Lrange(e) ==
  /\ Turn(e, "lrange")
  /\ LET s == LastOf(list, ex[e].count)
     IN  Continue(e, IF s = <<>> THEN Idle ELSE [ex[e] EXCEPT !.pc = "lrem", !.todo = s])
  /\ UNCHANGED <<list, members, stored, consumed, recent, db, sent, env>>

\* LREM key 1: the occurrence nearest the head, if the list still has one.
Lrem(e) ==
  LET t == Head(ex[e].todo)
  IN  /\ Turn(e, "lrem")
      /\ \/ t \notin ToSet(list) /\ UNCHANGED list
         \/ \E i \in DOMAIN list :
              /\ list[i] = t /\ \A j \in 1 .. i - 1 : list[j] # t
              /\ list' = RemoveAt(list, i)
      /\ Continue(e, [ex[e] EXCEPT !.pc = "srem"])
      /\ UNCHANGED <<members, stored, consumed, recent, db, sent, env>>

\* Mutant of Srem: dequeued from the list only.
SremForgotten(e) ==
  /\ Turn(e, "srem")
  /\ Continue(e, NextItem(e, "lrem", "filter", TRUE))
  /\ UNCHANGED <<list, members, stored, consumed, recent, db, sent, env>>

Srem(e) ==
  /\ Turn(e, "srem")
  /\ members' = members \ {Head(ex[e].todo)}
  /\ Continue(e, NextItem(e, "lrem", "filter", TRUE))
  /\ UNCHANGED <<list, stored, consumed, recent, db, sent, env>>

Filter(e) ==
  /\ Turn(e, "filter")
  /\ Continue(e, NextItem(e, "filter", "get", Head(ex[e].todo) \notin consumed))
  /\ UNCHANGED <<list, members, stored, consumed, recent, db, sent, env>>

\* dequeueMessageData: GET, and DEL when there was a record.
GetData(e) ==
  /\ Turn(e, "get")
  /\ Continue(e, IF Head(ex[e].todo) \in stored THEN [ex[e] EXCEPT !.pc = "del"]
                 ELSE NextItem(e, "get", "dispatch", FALSE))
  /\ UNCHANGED <<list, members, stored, consumed, recent, db, sent, env>>

DelData(e) ==
  /\ Turn(e, "del")
  /\ stored' = stored \ {Head(ex[e].todo)}
  /\ Continue(e, NextItem(e, "get", "dispatch", TRUE))
  /\ UNCHANGED <<list, members, consumed, recent, db, sent, env>>

-----------------------------------------------------------------------------
(* consumptionSendingQueue and the paid* functions.                         *)

\* The call leaves the payment: handlePaidTransactionError is started when the
\* error asks for a retry, prevTime is set, the `finally` unlocks. Errors are
\* swallowed by consumptionSendingQueue.
Finish(e, retry) ==
  /\ ex' = [ex EXCEPT ![e] = Idle]
  /\ pipe' = IF retry THEN Append(pipe, UnconsumeCmd(ex[e].recs)) ELSE pipe
  /\ locked' = FALSE
  /\ recent' = TRUE

Goto(e, pc) == ex' = [ex EXCEPT ![e].pc = pc]

\* Only a '1-0' or '2-0' batch of two or more skips the Consume fence.
Dispatch(e) ==
  /\ ex[e].pc = "dispatch"
  /\ recent' = TRUE
  /\ LET recs == ex[e].todo
         next == IF Version = "transfer" /\ Len(recs) > 1 THEN "group" ELSE "recheck"
     IN  /\ ex' = [ex EXCEPT ![e].pc = next, ![e].recs = recs]
         /\ pipe' = IF next = "recheck" THEN Append(pipe, ExecCmd(e)) ELSE pipe
  /\ UNCHANGED <<list, members, stored, consumed, locked, db, sent, env>>

\* The call, with no Redis command of its own in flight, goes on in state r.
Resume(e, r) ==
  /\ ex' = [ex EXCEPT ![e] = r]
  /\ pipe' = IF r.pc \in RedisPc THEN Append(pipe, ExecCmd(e)) ELSE pipe
  /\ locked' = (r.pc # "idle" /\ locked)
  /\ recent' = (recent \/ r.pc = "idle")

\* SISMEMBER Consume of the next transaction: a fenced one is dropped from the
\* batch, and an error ends the call when none is left.
Recheck(e) ==
  /\ Turn(e, "recheck")
  /\ Continue(e, IF Head(ex[e].todo) \in consumed THEN NextItem(e, "recheck", "mark", FALSE)
                 ELSE [ex[e] EXCEPT !.pc = "check"])
  /\ recent' = (recent \/ ex'[e] = Idle)
  /\ UNCHANGED <<list, members, stored, consumed, db, sent, env>>

\* Its other checks, which ask the chain and the config: passed ...
CheckPasses(e) ==
  /\ ex[e].pc = "check"
  /\ Resume(e, NextItem(e, "recheck", "mark", TRUE))
  /\ UNCHANGED <<list, members, stored, consumed, db, sent, env>>

\* ... or refused: disabled address, time limit, liquidity, no key, no account.
CheckRefuses(e) ==
  /\ ex[e].pc = "check"
  /\ Fault
  /\ Resume(e, NextItem(e, "recheck", "mark", FALSE))
  /\ UNCHANGED <<list, members, stored, consumed, db, sent, polled, mq, crashes>>

\* Mutant of Mark: paid without saveConsumeStatus.
MarkForgotten(e) ==
  /\ Turn(e, "mark")
  /\ Continue(e, [ex[e] EXCEPT !.pc = IF Len(ex[e].todo) = 1 THEN "read" ELSE "claim"])
  /\ UNCHANGED <<list, members, stored, consumed, recent, db, sent, env>>

\* saveConsumeStatus, then the transfer function: findOne or the batch UPDATE.
Mark(e) ==
  /\ Turn(e, "mark")
  /\ consumed' = consumed \cup ToSet(ex[e].todo)
  /\ Continue(e, [ex[e] EXCEPT !.pc = IF Len(ex[e].todo) = 1 THEN "read" ELSE "claim"])
  /\ UNCHANGED <<list, members, stored, recent, db, sent, env>>

\* paidManyBridgeTransaction: refused transactions and those of other tokens
\* than the chosen group are dropped; no fence is looked at or set.
Group(e) ==
  /\ ex[e].pc = "group"
  /\ \E n \in DOMAIN ex[e].todo : \E k \in [1 .. n -> DOMAIN ex[e].todo] :
       /\ \A i, j \in 1 .. n : i < j => k[i] < k[j]
       /\ ex' = [ex EXCEPT ![e].pc = IF n = 1 THEN "read" ELSE "claim",
                           ![e].todo = [i \in 1 .. n |-> @[k[i]]]]
  /\ UNCHANGED <<redis, lock, db, sent, env>>

\* Nothing legal is left or the maker lacks liquidity; or, once a batch UPDATE is
\* done, the config lacks the chain or its contract: rolled back, not retried.
Refused(e) ==
  /\ ex[e].pc \in {"group", "claim"}
  /\ Fault
  /\ Finish(e, FALSE)
  /\ UNCHANGED <<list, members, stored, consumed, db, sent, polled, mq, crashes>>

-----------------------------------------------------------------------------
(* TransferService: the database transaction around a payment.              *)

\* findOne takes no row lock; a status other than 0 is AlreadyPaid, not retried.
ReadRow(e) ==
  /\ ex[e].pc = "read"
  /\ IF row[Head(ex[e].todo)] = 0
     THEN Goto(e, "save") /\ UNCHANGED <<pipe, lock>>
     ELSE Finish(e, FALSE)
  /\ UNCHANGED <<list, members, stored, consumed, db, sent, env>>

\* PaidRollbackError: the config lacks the token, whatever the row says, or the
\* queued data and the row differ in chain, amount or symbol.
ReadMismatch(e) ==
  /\ ex[e].pc = "read"
  /\ Fault
  /\ Finish(e, TRUE)
  /\ UNCHANGED <<list, members, stored, consumed, db, sent, polled, mq, crashes>>

\* UPDATE ... SET status = 96 WHERE id = ..: waits for the row lock only.
SaveReady(e) ==
  /\ ex[e].pc = "save"
  /\ holder[Head(ex[e].todo)] = NoExec
  /\ holder' = [holder EXCEPT ![Head(ex[e].todo)] = e]
  /\ Goto(e, "send")
  /\ UNCHANGED <<redis, lock, row, sent, env>>

\* UPDATE ... SET status = 96 WHERE sourceId IN .. AND status = 0: the number of
\* rows it finds must be the batch's length.
Claim(e) ==
  LET batch == ex[e].todo
      owed  == {t \in ToSet(batch) : row[t] = 0}
  IN  /\ ex[e].pc = "claim"
      /\ \A t \in owed : holder[t] = NoExec
      /\ IF Cardinality(owed) = Len(batch)
         THEN /\ holder' = [t \in Tx |-> IF t \in owed THEN e ELSE holder[t]]
              /\ Goto(e, "send")
              /\ UNCHANGED <<pipe, lock>>
         ELSE Finish(e, FALSE) /\ UNCHANGED holder
      /\ UNCHANGED <<list, members, stored, consumed, row, sent, env>>

Batch(e) == ToSet(ex[e].todo)
Release(e) == [t \in Tx |-> IF holder[t] = e THEN NoExec ELSE holder[t]]
Broadcast(e) == [t \in Tx |-> IF t \in Batch(e) THEN sent[t] + 1 ELSE sent[t]]

\* The wallet answers with a hash: the row will say PAID_SUCCESS.
SendOk(e) ==
  /\ ex[e].pc = "send"
  /\ sent' = Broadcast(e)
  /\ Goto(e, "paid")
  /\ UNCHANGED <<redis, lock, db, env>>

\* An error before the broadcast (TransactionSendConfirmFail): rollback, retry.
SendConfirmFail(e) ==
  /\ ex[e].pc = "send"
  /\ Fault
  /\ holder' = Release(e)
  /\ Finish(e, TRUE)
  /\ UNCHANGED <<list, members, stored, consumed, row, sent, polled, mq, crashes>>

\* Mutant of SendUnknown: any error is taken for one before the broadcast.
SendUnknownRetried(e) ==
  /\ ex[e].pc = "send"
  /\ Fault
  /\ sent' \in {sent, Broadcast(e)}
  /\ holder' = Release(e)
  /\ Finish(e, TRUE)
  /\ UNCHANGED <<list, members, stored, consumed, row, polled, mq, crashes>>

\* Any other error: the payment may be out or not, the row will say PAID_CRASH.
SendUnknown(e) ==
  /\ ex[e].pc = "send"
  /\ Fault
  /\ sent' \in {sent, Broadcast(e)}
  /\ Goto(e, "crash")
  /\ UNCHANGED <<redis, lock, db, polled, mq, crashes>>

\* Mutant of Commit: the row is left READY_PAID.
CommitReady(e) ==
  /\ ex[e].pc \in {"paid", "crash"}
  /\ row' = [t \in Tx |-> IF t \in Batch(e) THEN 96 ELSE row[t]]
  /\ holder' = Release(e)
  /\ Finish(e, FALSE)
  /\ UNCHANGED <<list, members, stored, consumed, sent, env>>

\* COMMIT: statuses become visible and the row locks are released.
Commit(e) ==
  /\ ex[e].pc \in {"paid", "crash"}
  /\ row' = [t \in Tx |-> IF t \in Batch(e)
                          THEN IF ex[e].pc = "paid" THEN 98 ELSE 97
                          ELSE row[t]]
  /\ holder' = Release(e)
  /\ Finish(e, FALSE)
  /\ UNCHANGED <<list, members, stored, consumed, sent, env>>

\* The connection is lost: Postgres discards the transaction, the save of
\* PAID_CRASH fails as well, and the error is not one that is retried.
CommitFails(e) ==
  /\ CommitMayFail
  /\ ex[e].pc \in {"paid", "crash"}
  /\ Fault
  /\ holder' = Release(e)
  /\ Finish(e, FALSE)
  /\ UNCHANGED <<list, members, stored, consumed, row, sent, polled, mq, crashes>>

-----------------------------------------------------------------------------
(* The environment.                                                         *)

\* The data refinery sees the payment on chain and closes the row, whatever
\* open status it has (handleTransferByDestTx).
Settle(t) ==
  /\ sent[t] > 0 /\ row[t] # 99
  /\ holder[t] = NoExec
  /\ row' = [row EXCEPT ![t] = 99]
  /\ UNCHANGED <<redis, lock, ex, holder, sent, env>>

\* Date.now() passes prevTime + paidInterval.
IntervalElapses ==
  /\ recent
  /\ recent' = FALSE
  /\ UNCHANGED <<redis, locked, ex, db, sent, env>>

\* The process dies and restarts: Redis, Postgres and the chain keep their state,
\* open database transactions are rolled back. Commands Redis ran before the
\* crash are steps before this one; those it did not run are lost.
Crash ==
  /\ crashes < MaxCrashes
  /\ crashes' = crashes + 1
  /\ pipe' = <<>> /\ polled' = {}
  /\ ex' = [e \in Exec |-> Idle]
  /\ locked' = FALSE /\ recent' = TRUE
  /\ holder' = [t \in Tx |-> NoExec]
  /\ UNCHANGED <<list, members, stored, consumed, row, sent, mq, faults>>

RedisStep(e) ==
  \/ LlenReturn(e) \/ LlenProceed(e) \/ Lrange(e) \/ Lrem(e) \/ Srem(e)
  \/ Filter(e) \/ GetData(e) \/ DelData(e) \/ Recheck(e) \/ Mark(e)

PaidStep(e) ==
  \/ Dispatch(e) \/ CheckPasses(e) \/ CheckRefuses(e) \/ Group(e) \/ Refused(e)
  \/ ReadRow(e) \/ ReadMismatch(e) \/ SaveReady(e) \/ Claim(e)
  \/ SendOk(e) \/ SendConfirmFail(e) \/ SendUnknown(e)
  \/ Commit(e) \/ CommitFails(e)

EnqueueStep == Sismember \/ Lpush \/ Sadd \/ SetData \/ Unconsume

Next ==
  \/ EnqueueStep \/ PollSelect \/ PollEnqueue
  \/ IntervalElapses \/ Crash
  \/ \E t \in Tx : Deliver(t) \/ Settle(t)
  \/ \E e \in Exec : Tick(e) \/ RedisStep(e) \/ PaidStep(e)

Spec == Init /\ [][Next]_vars

-----------------------------------------------------------------------------
(* Properties.                                                              *)

Statuses == {0, 97, 98, 99}
Cmd == [op : EnqOps, tx : Tx] \cup [op : {"exec"}, ex : Exec]
         \cup [op : {"unconsume"}, txs : Seq(Tx)]
Call == [pc : RedisPc \cup LocalPc, count : Nat, todo : Seq(Tx), out : Seq(Tx), recs : Seq(Tx)]

\* The types of the state; read with the model's other definitions only.
TypeOK ==
  /\ pipe \in Seq(Cmd) /\ list \in Seq(Tx)
  /\ members \subseteq Tx /\ stored \subseteq Tx /\ consumed \subseteq Tx
  /\ locked \in BOOLEAN /\ recent \in BOOLEAN
  /\ ex \in [Exec -> Call]
  /\ polled \subseteq Tx
  /\ row \in [Tx -> Statuses] /\ holder \in [Tx -> Exec \cup {NoExec}]
  /\ sent \in [Tx -> Nat]
  /\ mq \in Nat /\ faults \in Nat /\ crashes \in Nat

\* A source transaction is paid at most once, whatever crashes, lost commits,
\* late deliveries and retries happen (RepeatConsumptionError and AlreadyPaid
\* are what the code has against it).
AtMostOnePayment == \A t \in Tx : sent[t] <= 1

\* One batch at a time per queueKey: past the tick only one call is running,
\* which is what Lock[queueKey] is for.
OneExecutor == \A e, f \in Exec : ex[e].pc # "idle" /\ ex[f].pc # "idle" => e = f

\* A payment that no row records and no open database transaction is about to
\* record stays fenced by its Consume mark, so no later batch can pay it again.
UnbookedIsFenced ==
  \A t \in Tx : sent[t] > 0 /\ row[t] = 0 /\ holder[t] = NoExec => t \in consumed

\* The retry of handlePaidTransactionError never takes the mark off a transaction
\* whose payment went out, though it unmarks the whole batch it was given.
PaidKeepsMark == [][\A t \in consumed : sent[t] > 0 => t \in consumed']_vars

\* "already exists in the queue" (enqueueMessage): a hash in the member set is in
\* the list, or the call that took it out is about to take it out of the set.
MemberIsQueued ==
  \A t \in members : \/ t \in ToSet(list)
                     \/ \E e \in Exec : ex[e].pc = "srem" /\ Head(ex[e].todo) = t

\* Every owed transaction is brought to an end: paid, or marked PAID_CRASH.
EveryOwedSettled == \A t \in Tx : <>(row[t] # 0)

\* The sequencer implements Payout: once, in order, and never after giving up.
Stage == [t \in Tx |-> IF sent[t] = 0 THEN IF row[t] = 0 THEN "owed" ELSE "givenUp"
                       ELSE IF sent[t] > 1 THEN "paidTwice"
                       ELSE IF row[t] = 0 THEN "paid" ELSE "booked"]
Abstract == INSTANCE Payout WITH stage <- Stage
PaysOnce == Abstract!Spec

\* Timers, replies and answers come: Redis and Postgres answer, the clock runs,
\* the intervals of poll and tick fire. In the code nothing but the lock can hold
\* a tick or a poll back; SF makes up for the bounds that also do here. Failures,
\* refinery updates and RabbitMQ deliveries need not happen.
FairSpec ==
  /\ Spec
  /\ WF_vars(EnqueueStep) /\ WF_vars(PollSelect) /\ SF_vars(PollEnqueue)
  /\ WF_vars(IntervalElapses)
  /\ SF_vars(\E e \in Exec : Tick(e))
  /\ \A e \in Exec : WF_vars(RedisStep(e)) /\ WF_vars(PaidStep(e))
=============================================================================
