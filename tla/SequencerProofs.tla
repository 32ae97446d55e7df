--------------------------- MODULE SequencerProofs ---------------------------
(***************************************************************************)
(* Why the sequencer pays a transaction at most once, for every number of  *)
(* transactions and executors, every batch size and every number of        *)
(* crashes, faults and deliveries: the inductive invariant, and the proofs.*)
(*                                                                         *)
(* The argument.  Redis answers promptly, so two ticks are never both      *)
(* waiting for LLEN and Lock[queueKey] admits one call (Mutex).  A retry's *)
(* SREM Consume was issued by the last call before it unlocked, so it is   *)
(* ahead of all commands of the next (PipeOrder): past LLEN nothing takes  *)
(* marks off.  What Filter lets through is unfenced, hence unpaid, and     *)
(* stays so until the call itself marks it (Batches), so it is paid once   *)
(* and the retry of a failed batch unmarks unpaid transactions only        *)
(* (Fenced).                                                               *)
(*                                                                         *)
(* That the member set is in the list (QueueInv) needs neither Mutex nor   *)
(* the prompt Redis: a call has one command under way, and the SREM of a   *)
(* hash is issued behind each SADD whose hash it took from the list.       *)
(***************************************************************************)
EXTENDS Sequencer, FiniteSetTheorems, TLAPS

\* The configurations the argument covers: a '1-0' or '2-0' batch of two or more
\* has no fence, so those versions must pay one by one.
SafeConfig == PromptRedis /\ (Version = "inscription" \/ (PaidType = 1 /\ MaxCount = 1))

Busy(e) == ex[e].pc \notin {"idle", "llen"}
NoUnconsume == \A i \in DOMAIN pipe : pipe[i].op # "unconsume"

Mutex == OneExecutor /\ \A e \in Exec : Busy(e) => locked

PipeOrder ==
  /\ \A i \in DOMAIN pipe : pipe[i].op = "exec" => ex[pipe[i].ex].pc \in RedisPc
  /\ \A i, j \in DOMAIN pipe : i < j /\ pipe[i].op = "exec" => pipe[j].op \in EnqOps
  /\ \A e \in Exec : Busy(e) => NoUnconsume

Fenced ==
  /\ \A t \in Tx : sent[t] > 0 => (sent[t] = 1 /\ t \in consumed)
  /\ \A i \in DOMAIN pipe : pipe[i].op = "unconsume" =>
       \A t \in ToSet(pipe[i].txs) : sent[t] = 0

\* What a call c holds, by where it is, given the marks and the payments made.
BatchOk(c, marks, paid) ==
  /\ c.pc = "filter" => \A i \in DOMAIN c.out : c.out[i] \notin marks
  /\ c.pc \in {"get", "del", "dispatch"} =>
       /\ \A i \in DOMAIN c.todo : c.todo[i] \notin marks
       /\ \A i \in DOMAIN c.out : c.out[i] \notin marks
  /\ c.pc \in {"recheck", "check", "mark"} =>
       /\ \A i \in DOMAIN c.todo : c.todo[i] \in ToSet(c.recs)
       /\ \A i \in DOMAIN c.out : c.out[i] \in ToSet(c.recs)
       /\ \A i \in DOMAIN c.recs : c.recs[i] \notin marks
  /\ c.pc \in {"read", "save", "claim", "send"} =>
       /\ \A i \in DOMAIN c.todo : c.todo[i] \in ToSet(c.recs) /\ c.todo[i] \in marks
       /\ \A i \in DOMAIN c.recs : paid[c.recs[i]] = 0

Batches == \A e \in Exec : BatchOk(ex[e], consumed, sent)

\* A call of a one-by-one configuration never holds two transactions.
OneOk(c) ==
  /\ c.pc # "group"
  /\ c.pc \in {"idle", "llen", "lrange", "dispatch"} => c.out = <<>>
  /\ Version = "transfer" =>
       /\ c.pc = "lrange" => c.count = 1
       /\ c.pc \in {"lrem", "srem", "filter", "get", "del", "dispatch"} =>
            Len(c.todo) + Len(c.out) <= 1

OneByOne == \A e \in Exec : OneOk(ex[e])

\* A call that works on its batch has one.
Loaded == \A e \in Exec : ex[e].pc \notin {"idle", "llen", "lrange"} => ex[e].todo # <<>>

\* The inductive invariant behind AtMostOnePayment, UnbookedIsFenced and
\* PaidKeepsMark; checked on the instances, proved below.
Typed == TypeOK /\ Loaded
Inductive == Typed /\ Mutex /\ PipeOrder /\ Fenced /\ Batches /\ OneByOne

-----------------------------------------------------------------------------
(* Type correctness, in every configuration.                                *)

Pc == RedisPc \cup LocalPc

\* The two ends of a nonempty sequence: its head and what is left of it.
LEMMA HeadTail ==
  ASSUME NEW S, NEW s \in Seq(S), s # <<>>
  PROVE  Head(s) \in S /\ Tail(s) \in Seq(S)
  OBVIOUS

\* A call that has returned is a call.
LEMMA IdleIsCall == Idle \in Call
  BY DEF Idle, Call, LocalPc

\* What a poll sends to Redis is a sequence of commands.
LEMMA EnqueuesType ==
  ASSUME NEW s \in Seq(Tx)
  PROVE  Enqueues(s) \in Seq(Cmd)
  BY DEF Enqueues, EnqCmd, EnqOps, Cmd

\* One pass of a loop yields a call, with a batch unless it has returned.
LEMMA NextItemType ==
  ASSUME NEW e \in Exec, ex[e] \in Call, ex[e].todo # <<>>,
         NEW again \in Pc, NEW then \in Pc, NEW keep
  PROVE  LET r == NextItem(e, again, then, keep)
         IN  r \in Call /\ (r = Idle \/ r.todo # <<>>)
  <1> DEFINE more == Tail(ex[e].todo)
             out  == IF keep THEN <<Head(ex[e].todo)>> \o ex[e].out ELSE ex[e].out
  <1>1. ex[e].todo \in Seq(Tx) /\ ex[e].out \in Seq(Tx)
    BY DEF Call
  <1>2. more \in Seq(Tx) /\ out \in Seq(Tx)
    BY <1>1, HeadTail
  <1>3. CASE more # <<>>
    BY <1>2, <1>3 DEF NextItem, Call, Pc
  <1>4. CASE more = <<>> /\ out = <<>>
    BY <1>4, IdleIsCall DEF NextItem
  <1>5. CASE more = <<>> /\ out # <<>>
    <2> HIDE DEF out
    <2>1. NextItem(e, again, then, keep) = [ex[e] EXCEPT !.pc = then, !.todo = out, !.out = <<>>]
      BY <1>5 DEF NextItem, out
    <2>. QED  BY <2>1, <1>2, <1>5 DEF Call, Pc
  <1>. QED  BY <1>3, <1>4, <1>5

\* A state in which a call may be left.
Good(r) == r \in Call /\ (r.pc \notin {"idle", "llen", "lrange"} => r.todo # <<>>)

\* A pass from a call that holds a batch yields such a call.
LEMMA GoodNextItem ==
  ASSUME Typed, NEW e \in Exec, ex[e].pc \notin {"idle", "llen", "lrange"},
         NEW again \in Pc, NEW then \in Pc, NEW keep
  PROVE  Good(NextItem(e, again, then, keep))
  <1>1. ex[e] \in Call /\ ex[e].todo # <<>>
    BY DEF Typed, TypeOK, Loaded
  <1>2. Idle.pc = "idle"
    BY DEF Idle
  <1>. QED  BY <1>1, <1>2, NextItemType DEF Good

\* Storing such a call keeps every call loaded.
LEMMA GoodEx ==
  ASSUME Typed, NEW e \in Exec, NEW r, Good(r), ex' = [ex EXCEPT ![e] = r]
  PROVE  ex' \in [Exec -> Call] /\ Loaded'
  BY DEF Typed, TypeOK, Loaded, Good

\* The command Redis runs and those behind it are commands.
LEMMA PipeTail ==
  ASSUME TypeOK, NEW op, Front1(op)
  PROVE  Head(pipe) \in Cmd /\ Tail(pipe) \in Seq(Cmd)
  BY HeadTail DEF TypeOK, Front1

\* The command a call waits for, ...
LEMMA ExecCmdType ==
  ASSUME NEW e \in Exec
  PROVE  ExecCmd(e) \in Cmd
  BY DEF ExecCmd, Cmd

\* ... the retry of handlePaidTransactionError, ...
LEMMA UnconsumeCmdType ==
  ASSUME NEW s \in Seq(Tx)
  PROVE  UnconsumeCmd(s) \in Cmd
  BY DEF UnconsumeCmd, Cmd

\* ... and an enqueueing command are commands.
LEMMA EnqCmdType ==
  ASSUME NEW op \in EnqOps, NEW t \in Tx
  PROVE  EnqCmd(op, t) \in Cmd
  BY DEF EnqCmd, Cmd

\* A call goes on, well typed, when Redis has answered it, ...
LEMMA ContinueTyped ==
  ASSUME Typed, NEW e \in Exec, NEW r, Good(r), Front1("exec"), Continue(e, r)
  PROVE  ex' \in [Exec -> Call] /\ Loaded' /\ pipe' \in Seq(Cmd) /\ locked' \in BOOLEAN
  <1>1. ex' \in [Exec -> Call] /\ Loaded'
    BY GoodEx DEF Continue
  <1>2. pipe' \in Seq(Cmd)
    BY PipeTail, ExecCmdType DEF Continue, Typed
  <1>3. locked' \in BOOLEAN
    BY DEF Continue
  <1>. QED  BY <1>1, <1>2, <1>3

\* ... when it goes back to Redis, ...
LEMMA ResumeTyped ==
  ASSUME Typed, NEW e \in Exec, NEW r, Good(r), Resume(e, r)
  PROVE  /\ ex' \in [Exec -> Call] /\ Loaded' /\ pipe' \in Seq(Cmd)
         /\ locked' \in BOOLEAN /\ recent' \in BOOLEAN
  <1>1. ex' \in [Exec -> Call] /\ Loaded'
    BY GoodEx DEF Resume
  <1>2. pipe' \in Seq(Cmd)
    BY ExecCmdType DEF Resume, Typed, TypeOK
  <1>3. locked' \in BOOLEAN /\ recent' \in BOOLEAN
    BY DEF Resume
  <1>. QED  BY <1>1, <1>2, <1>3

\* ... when it returns, releasing the lock, ...
LEMMA FinishTyped ==
  ASSUME Typed, NEW e \in Exec, NEW retry \in BOOLEAN, Finish(e, retry)
  PROVE  /\ ex' \in [Exec -> Call] /\ Loaded' /\ pipe' \in Seq(Cmd)
         /\ locked' \in BOOLEAN /\ recent' \in BOOLEAN
  <1>1. Good(Idle)
    BY IdleIsCall DEF Good, Idle
  <1>2. ex' \in [Exec -> Call] /\ Loaded'
    BY <1>1, GoodEx DEF Finish
  <1>3. ex[e].recs \in Seq(Tx)
    BY DEF Typed, TypeOK, Call
  <1>4. pipe' \in Seq(Cmd)
    BY <1>3, UnconsumeCmdType DEF Finish, Typed, TypeOK
  <1>. QED  BY <1>2, <1>4 DEF Finish

\* ... and when it goes on outside Redis.
LEMMA GotoTyped ==
  ASSUME Typed, NEW e \in Exec, NEW pc \in Pc,
         ex[e].pc \notin {"idle", "llen", "lrange"}, Goto(e, pc)
  PROVE  ex' \in [Exec -> Call] /\ Loaded'
  <1>1. Good([ex[e] EXCEPT !.pc = pc])
    BY DEF Good, Typed, TypeOK, Loaded, Call, Pc
  <1>. QED  BY <1>1, GoodEx DEF Goto

\* The service starts well typed.
LEMMA InitTyped == Init => Typed
  <1>1. ASSUME Init PROVE TypeOK
    <2>1. ex \in [Exec -> Call] /\ row \in [Tx -> Statuses] /\ sent \in [Tx -> Nat]
          /\ holder \in [Tx -> Exec \cup {NoExec}]
      BY <1>1, IdleIsCall DEF Init, Statuses
    <2>2. pipe \in Seq(Cmd) /\ list \in Seq(Tx)
      BY <1>1 DEF Init
    <2>3. mq \in Nat
      BY <1>1, ConfigAssumption DEF Init, ConfigAssumption
    <2>. QED  BY <1>1, <2>1, <2>2, <2>3 DEF Init, TypeOK
  <1>2. ASSUME Init PROVE Loaded
    BY <1>2 DEF Init, Loaded, Idle
  <1>. QED  BY <1>1, <1>2 DEF Typed

\* The order a poll takes its rows in is a sequence of them.
LEMMA PollType ==
  ASSUME polled \subseteq Tx, NEW s \in SetToSeqs(polled)
  PROVE  s \in Seq(Tx)
  <1>1. IsFiniteSet(polled)
    BY ConfigAssumption, FS_Subset DEF ConfigAssumption
  <1>2. Cardinality(polled) \in Nat
    BY <1>1, FS_CardinalityType
  <1>3. s \in [1 .. Cardinality(polled) -> polled]
    BY DEF SetToSeqs
  <1>. QED  BY <1>2, <1>3

\* The steps that enqueue, and those of the environment.
LEMMA EnqueueTyped ==
  ASSUME Typed,
         \/ EnqueueStep \/ PollSelect \/ PollEnqueue \/ IntervalElapses \/ Crash
         \/ \E t \in Tx : Deliver(t) \/ Settle(t)
  PROVE  Typed'
  <1>. USE DEF Typed, TypeOK
  <1>1. ASSUME NEW op \in EnqOps, Front1(op)
        PROVE  Head(pipe).tx \in Tx /\ Tail(pipe) \in Seq(Cmd)
    BY <1>1, PipeTail DEF Front1, Cmd, EnqOps
  <1>2. CASE Sismember
    <2>1. Head(pipe).tx \in Tx /\ Tail(pipe) \in Seq(Cmd)
      BY <1>1, <1>2 DEF Sismember, EnqOps
    <2>2. pipe' \in Seq(Cmd)
      BY <1>2, <2>1, EnqCmdType DEF Sismember, EnqOps
    <2>. QED  BY <1>2, <2>2 DEF Sismember, lock, db, env, Loaded
  <1>3. CASE Lpush
    <2>1. Head(pipe).tx \in Tx /\ Tail(pipe) \in Seq(Cmd)
      BY <1>1, <1>3 DEF Lpush, EnqOps
    <2>2. pipe' \in Seq(Cmd) /\ list' \in Seq(Tx)
      BY <1>3, <2>1, EnqCmdType DEF Lpush, EnqOps
    <2>. QED  BY <1>3, <2>2 DEF Lpush, lock, db, env, Loaded
  <1>4. CASE Sadd
    <2>1. Head(pipe).tx \in Tx /\ Tail(pipe) \in Seq(Cmd)
      BY <1>1, <1>4 DEF Sadd, EnqOps
    <2>2. pipe' \in Seq(Cmd) /\ members' \subseteq Tx
      BY <1>4, <2>1, EnqCmdType DEF Sadd, EnqOps
    <2>. QED  BY <1>4, <2>2 DEF Sadd, lock, db, env, Loaded
  <1>5. CASE SetData
    <2>1. Head(pipe).tx \in Tx /\ Tail(pipe) \in Seq(Cmd)
      BY <1>1, <1>5 DEF SetData, EnqOps
    <2>2. pipe' \in Seq(Cmd) /\ stored' \subseteq Tx
      BY <1>5, <2>1 DEF SetData
    <2>. QED  BY <1>5, <2>2 DEF SetData, lock, db, env, Loaded
  <1>6. CASE Unconsume
    <2>1. Head(pipe).txs \in Seq(Tx) /\ Tail(pipe) \in Seq(Cmd)
      BY <1>6, PipeTail DEF Unconsume, Front1, Cmd, EnqOps
    <2>2. pipe' \in Seq(Cmd)
      BY <1>6, <2>1, EnqueuesType DEF Unconsume
    <2>3. consumed' \subseteq Tx
      BY <1>6 DEF Unconsume
    <2>. QED  BY <1>6, <2>2, <2>3 DEF Unconsume, lock, db, env, Loaded
  <1>7. CASE PollSelect
    BY <1>7 DEF PollSelect, redis, lock, db, Loaded
  <1>8. CASE PollEnqueue
    <2>1. pipe' \in Seq(Cmd)
      BY <1>8, PollType, EnqueuesType DEF PollEnqueue
    <2>. QED  BY <1>8, <2>1 DEF PollEnqueue, lock, db, Loaded
  <1>9. CASE IntervalElapses
    BY <1>9 DEF IntervalElapses, redis, db, env, Loaded
  <1>10. CASE Crash
    <2>1. ex' \in [Exec -> Call] /\ Loaded'
      BY <1>10, IdleIsCall DEF Crash, Loaded, Idle
    <2>2. pipe' \in Seq(Cmd) /\ holder' \in [Tx -> Exec \cup {NoExec}]
      BY <1>10 DEF Crash
    <2>3. locked' \in BOOLEAN /\ recent' \in BOOLEAN /\ polled' \subseteq Tx
      BY <1>10 DEF Crash
    <2>4. crashes' \in Nat
      BY <1>10 DEF Crash
    <2>5. UNCHANGED <<list, members, stored, consumed, row, sent, mq, faults>>
      BY <1>10 DEF Crash
    <2>. QED  BY <2>1, <2>2, <2>3, <2>4, <2>5
  <1>11. ASSUME NEW t \in Tx, Deliver(t) PROVE Typed'
    <2>1. pipe' \in Seq(Cmd) /\ mq' \in Nat
      BY <1>11, EnqCmdType DEF Deliver, EnqOps
    <2>. QED  BY <1>11, <2>1 DEF Deliver, lock, db, Loaded
  <1>12. ASSUME NEW t \in Tx, Settle(t) PROVE Typed'
    <2>1. row' \in [Tx -> Statuses]
      BY <1>12 DEF Settle, Statuses
    <2>. QED  BY <1>12, <2>1 DEF Settle, redis, lock, env, Loaded
  <1>. QED  BY <1>2, <1>3, <1>4, <1>5, <1>6, <1>7, <1>8, <1>9, <1>10, <1>11, <1>12
            DEF EnqueueStep

\* LRANGE from the end returns a sequence of hashes, ...
LEMMA LastOfType ==
  ASSUME NEW s \in Seq(Tx), NEW n \in Nat
  PROVE  LastOf(s, n) \in Seq(Tx)
  <1>1. CASE n = 0 \/ n >= Len(s)
    BY <1>1 DEF LastOf
  <1>2. CASE ~(n = 0 \/ n >= Len(s))
    <2>1. Len(s) - n + 1 \in 1 .. Len(s)
      BY <1>2
    <2>. QED  BY <1>2, <2>1 DEF LastOf
  <1>. QED  BY <1>1, <1>2

\* ... and LREM leaves one.
LEMMA RemoveAtType ==
  ASSUME NEW s \in Seq(Tx), NEW i \in DOMAIN s
  PROVE  RemoveAt(s, i) \in Seq(Tx)
  <1>1. SubSeq(s, 1, i - 1) \in Seq(Tx) /\ SubSeq(s, i + 1, Len(s)) \in Seq(Tx)
    OBVIOUS
  <1>. QED  BY <1>1 DEF RemoveAt

\* The places the Redis steps lead to.
LEMMA PcNames ==
  /\ "lrem" \in Pc /\ "filter" \in Pc /\ "get" \in Pc
  /\ "dispatch" \in Pc /\ "recheck" \in Pc /\ "mark" \in Pc
  BY DEF Pc, RedisPc, LocalPc

\* The Redis steps of a call; those that go on by Continue share its typing.
LEMMA RedisTyped ==
  ASSUME Typed, NEW e \in Exec, RedisStep(e) \/ Tick(e)
  PROVE  Typed'
  <1>. USE DEF Typed, TypeOK
  <1>1. ASSUME NEW pc, Turn(e, pc) PROVE Front1("exec") /\ ex[e].pc = pc
    BY <1>1 DEF Turn
  <1>2. CASE Tick(e)
    <2>1. Good([ex[e] EXCEPT !.pc = "llen"])
      BY DEF Good, Call, RedisPc
    <2>2. ex' \in [Exec -> Call] /\ Loaded'
      BY <1>2, <2>1, GoodEx DEF Tick
    <2>3. pipe' \in Seq(Cmd)
      BY <1>2, ExecCmdType DEF Tick
    <2>. QED  BY <1>2, <2>2, <2>3 DEF Tick, lock, db, env
  <1>3. CASE LlenReturn(e)
    <2>1. Good(Idle)
      BY IdleIsCall DEF Good, Idle
    <2>2. ex' \in [Exec -> Call] /\ Loaded'
      BY <1>3, <2>1, GoodEx DEF LlenReturn
    <2>3. pipe' \in Seq(Cmd)
      BY <1>3, <1>1, PipeTail DEF LlenReturn
    <2>4. locked' \in BOOLEAN
      BY <1>3 DEF LlenReturn
    <2>. QED  BY <1>3, <2>2, <2>3, <2>4 DEF LlenReturn, db, env
  <1>4. CASE LlenProceed(e)
    <2>. DEFINE n == IF Len(list) >= BatchSize THEN MaxCount
                     ELSE IF PaidType = 2 THEN Len(list) ELSE 1
    <2>1. n \in Nat
      BY ConfigAssumption DEF ConfigAssumption
    <2>. HIDE DEF n
    <2>2. Good([ex[e] EXCEPT !.pc = "lrange", !.count = n])
      BY <2>1 DEF Good, Call, RedisPc
    <2>3. ex' = [ex EXCEPT ![e] = [ex[e] EXCEPT !.pc = "lrange", !.count = n]]
      BY <1>4 DEF LlenProceed, n
    <2>4. ex' \in [Exec -> Call] /\ Loaded'
      BY <2>2, <2>3, GoodEx
    <2>5. pipe' \in Seq(Cmd)
      BY <1>4, <1>1, PipeTail, ExecCmdType DEF LlenProceed
    <2>6. locked' \in BOOLEAN
      BY <1>4 DEF LlenProceed
    <2>. QED  BY <1>4, <2>4, <2>5, <2>6 DEF LlenProceed, db, env
  <1>5. CASE Lrange(e)
    <2>. DEFINE s == LastOf(list, ex[e].count)
                r == IF s = <<>> THEN Idle ELSE [ex[e] EXCEPT !.pc = "lrem", !.todo = s]
    <2>1. s \in Seq(Tx)
      BY LastOfType DEF Call
    <2>. HIDE DEF s
    <2>2. Good(r)
      BY <2>1, IdleIsCall DEF Good, Call, RedisPc, Idle
    <2>3. Continue(e, r)
      BY <1>5 DEF Lrange, s
    <2>. HIDE DEF r
    <2>. QED  BY <1>5, <2>2, <2>3, <1>1, ContinueTyped DEF Lrange, db, env
  <1>6. CASE Lrem(e)
    <2>1. Good([ex[e] EXCEPT !.pc = "srem"])
      BY <1>6 DEF Good, Call, RedisPc, Loaded, Lrem, Turn
    <2>2. list' \in Seq(Tx)
      BY <1>6, RemoveAtType DEF Lrem
    <2>. QED  BY <1>6, <2>1, <2>2, <1>1, ContinueTyped DEF Lrem, db, env
  <1>7. CASE Srem(e)
    <2>. ex[e].pc \notin {"idle", "llen", "lrange"}
      BY <1>7, <1>1 DEF Srem
    <2>1. Good(NextItem(e, "lrem", "filter", TRUE))
      BY PcNames, GoodNextItem
    <2>2. members' \subseteq Tx
      BY <1>7 DEF Srem
    <2>. QED  BY <1>7, <2>1, <2>2, <1>1, ContinueTyped DEF Srem, db, env
  <1>8. CASE Filter(e)
    <2>. ex[e].pc \notin {"idle", "llen", "lrange"}
      BY <1>8, <1>1 DEF Filter
    <2>1. Good(NextItem(e, "filter", "get", Head(ex[e].todo) \notin consumed))
      BY PcNames, GoodNextItem
    <2>. QED  BY <1>8, <2>1, <1>1, ContinueTyped DEF Filter, db, env
  <1>9. CASE GetData(e)
    <2>. ex[e].pc \notin {"idle", "llen", "lrange"}
      BY <1>9, <1>1 DEF GetData
    <2>1. Good([ex[e] EXCEPT !.pc = "del"])
      BY <1>9 DEF Good, Call, RedisPc, Loaded, GetData, Turn
    <2>2. Good(NextItem(e, "get", "dispatch", FALSE))
      BY PcNames, GoodNextItem
    <2>. QED  BY <1>9, <2>1, <2>2, <1>1, ContinueTyped DEF GetData, db, env
  <1>10. CASE DelData(e)
    <2>. ex[e].pc \notin {"idle", "llen", "lrange"}
      BY <1>10, <1>1 DEF DelData
    <2>1. Good(NextItem(e, "get", "dispatch", TRUE))
      BY PcNames, GoodNextItem
    <2>2. stored' \subseteq Tx
      BY <1>10 DEF DelData
    <2>. QED  BY <1>10, <2>1, <2>2, <1>1, ContinueTyped DEF DelData, db, env
  <1>11. CASE Recheck(e)
    <2>. ex[e].pc \notin {"idle", "llen", "lrange"}
      BY <1>11, <1>1 DEF Recheck
    <2>1. Good([ex[e] EXCEPT !.pc = "check"])
      BY <1>11 DEF Good, Call, LocalPc, Loaded, Recheck, Turn
    <2>2. Good(NextItem(e, "recheck", "mark", FALSE))
      BY PcNames, GoodNextItem
    <2>3. recent' \in BOOLEAN
      BY <1>11 DEF Recheck
    <2>. QED  BY <1>11, <2>1, <2>2, <2>3, <1>1, ContinueTyped DEF Recheck, db, env
  <1>12. CASE Mark(e)
    <2>. DEFINE pc == IF Len(ex[e].todo) = 1 THEN "read" ELSE "claim"
    <2>1. pc \in Pc
      BY DEF Pc, LocalPc
    <2>2. ex[e].todo # <<>> /\ ToSet(ex[e].todo) \subseteq Tx
      <3>1. ex[e].todo \in Seq(Tx)
        BY DEF Call
      <3>2. ex[e].todo # <<>>
        BY <1>12 DEF Mark, Turn, Loaded
      <3>. QED  BY <3>1, <3>2 DEF ToSet
    <2>3. Good([ex[e] EXCEPT !.pc = pc])
      <3>. HIDE DEF pc
      <3>. QED  BY <2>1, <2>2 DEF Good, Call, Pc
    <2>4. consumed' \subseteq Tx
      BY <1>12, <2>2 DEF Mark
    <2>. QED  BY <1>12, <2>3, <2>4, <1>1, ContinueTyped DEF Mark, db, env
  <1>. QED  BY <1>2, <1>3, <1>4, <1>5, <1>6, <1>7, <1>8, <1>9, <1>10, <1>11, <1>12
            DEF RedisStep

\* A failure counts up to its bound.
LEMMA FaultType ==
  ASSUME TypeOK, Fault
  PROVE  faults' \in Nat
  BY DEF Fault, TypeOK

\* Rolling back or committing frees the row locks a call holds.
LEMMA ReleaseType ==
  ASSUME TypeOK, NEW e \in Exec
  PROVE  Release(e) \in [Tx -> Exec \cup {NoExec}]
  BY DEF Release, TypeOK

\* A broadcast pays each transaction of the batch once more.
LEMMA BroadcastType ==
  ASSUME TypeOK, NEW e \in Exec
  PROVE  Broadcast(e) \in [Tx -> Nat]
  <1>1. \A t \in Tx : sent[t] \in Nat /\ sent[t] + 1 \in Nat
    BY DEF TypeOK
  <1>. QED  BY <1>1 DEF Broadcast

\* What paidManyBridgeTransaction keeps of its batch: a subsequence.
LEMMA GroupShape ==
  ASSUME NEW e \in Exec, Group(e)
  PROVE  \E n \in DOMAIN ex[e].todo : \E k \in [1 .. n -> DOMAIN ex[e].todo] :
           ex' = [ex EXCEPT ![e].pc = IF n = 1 THEN "read" ELSE "claim",
                            ![e].todo = [i \in 1 .. n |-> @[k[i]]]]
  BY Zenon DEF Group

\* The steps of a call that wait for the database, the chain or the wallet.
LEMMA PaidTyped ==
  ASSUME Typed, NEW e \in Exec, PaidStep(e)
  PROVE  Typed'
  <1>. USE DEF Typed, TypeOK
  <1>1. TypeOK
    OBVIOUS
  <1>2. CASE Dispatch(e)
    <2>. DEFINE recs == ex[e].todo
                next == IF Version = "transfer" /\ Len(recs) > 1 THEN "group" ELSE "recheck"
                r == [ex[e] EXCEPT !.pc = next, !.recs = recs]
    <2>1. ex' = [ex EXCEPT ![e] = r]
      BY <1>2 DEF Dispatch
    <2>2. recs \in Seq(Tx) /\ recs # <<>>
      BY <1>2 DEF Dispatch, Call, Loaded
    <2>3. next \in Pc
      BY DEF Pc, RedisPc, LocalPc
    <2>4. Good(r)
      <3>. HIDE DEF next
      <3>. QED  BY <2>2, <2>3 DEF Good, Call, Pc
    <2>5. ex' \in [Exec -> Call] /\ Loaded'
      <3>. HIDE DEF r
      <3>. QED  BY <2>1, <2>4, GoodEx
    <2>6. pipe' \in Seq(Cmd)
      BY <1>2, ExecCmdType DEF Dispatch
    <2>7. recent' \in BOOLEAN
      BY <1>2 DEF Dispatch
    <2>. QED  BY <1>2, <2>5, <2>6, <2>7 DEF Dispatch, db, env
  <1>3. CASE CheckPasses(e)
    <2>. ex[e].pc \notin {"idle", "llen", "lrange"}
      BY <1>3 DEF CheckPasses
    <2>1. Good(NextItem(e, "recheck", "mark", TRUE))
      BY PcNames, GoodNextItem
    <2>. QED  BY <1>3, <2>1, ResumeTyped DEF CheckPasses, db, env
  <1>4. CASE CheckRefuses(e)
    <2>. ex[e].pc \notin {"idle", "llen", "lrange"}
      BY <1>4 DEF CheckRefuses
    <2>1. Good(NextItem(e, "recheck", "mark", FALSE))
      BY PcNames, GoodNextItem
    <2>2. faults' \in Nat
      BY <1>4, FaultType DEF CheckRefuses
    <2>. QED  BY <1>4, <2>1, <2>2, ResumeTyped DEF CheckRefuses, db
  <1>5. CASE Group(e)
    <2>1. ex[e] \in Call /\ ex[e].todo \in Seq(Tx)
      BY DEF Call
    <2>0. PICK n \in DOMAIN ex[e].todo : \E k \in [1 .. n -> DOMAIN ex[e].todo] :
            ex' = [ex EXCEPT ![e].pc = IF n = 1 THEN "read" ELSE "claim",
                             ![e].todo = [i \in 1 .. n |-> @[k[i]]]]
      BY <1>5, GroupShape
    <2>2. PICK k \in [1 .. n -> DOMAIN ex[e].todo] :
            ex' = [ex EXCEPT ![e].pc = IF n = 1 THEN "read" ELSE "claim",
                             ![e].todo = [i \in 1 .. n |-> @[k[i]]]]
      BY <2>0
    <2>. DEFINE legal == [i \in 1 .. n |-> ex[e].todo[k[i]]]
                pc == IF n = 1 THEN "read" ELSE "claim"
                r == [ex[e] EXCEPT !.pc = pc, !.todo = legal]
    <2>3. n \in Nat /\ n >= 1
      BY <2>1
    <2>4. legal \in Seq(Tx) /\ legal # <<>>
      <3>1. legal \in [1 .. n -> Tx]
        BY <2>1, <2>3
      <3>2. legal \in Seq(Tx) /\ Len(legal) = n
        BY <2>3, <3>1
      <3>. HIDE DEF legal
      <3>. QED  BY <2>3, <3>2
    <2>5. pc \in Pc
      BY DEF Pc, LocalPc
    <2>6. Good(r)
      <3>. HIDE DEF legal, pc
      <3>. QED  BY <2>1, <2>4, <2>5 DEF Good, Call, Pc
    <2>7. ex' = [ex EXCEPT ![e] = r]
      BY <2>2
    <2>8. ex' \in [Exec -> Call] /\ Loaded'
      <3>. HIDE DEF r
      <3>. QED  BY <2>6, <2>7, GoodEx
    <2>. QED  BY <1>5, <2>8 DEF Group, redis, lock, db, env
  <1>6. CASE Refused(e)
    BY <1>6, FinishTyped, FaultType DEF Refused, db
  <1>7. CASE ReadRow(e)
    <2>1. CASE Goto(e, "save") /\ UNCHANGED <<pipe, lock>>
      <3>1. ex' \in [Exec -> Call] /\ Loaded'
        BY <1>7, <2>1, GotoTyped DEF ReadRow, Pc, LocalPc
      <3>. QED  BY <1>7, <2>1, <3>1 DEF ReadRow, lock, db, env
    <2>2. CASE Finish(e, FALSE)
      BY <1>7, <2>2, FinishTyped DEF ReadRow, db, env
    <2>. QED  BY <1>7, <2>1, <2>2 DEF ReadRow
  <1>8. CASE ReadMismatch(e)
    BY <1>8, FinishTyped, FaultType DEF ReadMismatch, db
  <1>9. CASE SaveReady(e)
    <2>1. ex' \in [Exec -> Call] /\ Loaded'
      BY <1>9, GotoTyped DEF SaveReady, Pc, LocalPc
    <2>2. holder' \in [Tx -> Exec \cup {NoExec}]
      BY <1>9 DEF SaveReady
    <2>. QED  BY <1>9, <2>1, <2>2 DEF SaveReady, redis, lock, env
  <1>10. CASE Claim(e)
    <2>1. CASE Goto(e, "send") /\ UNCHANGED <<pipe, lock>>
               /\ \E S \in SUBSET Tx : holder' = [t \in Tx |-> IF t \in S THEN e ELSE holder[t]]
      <3>1. ex' \in [Exec -> Call] /\ Loaded'
        BY <1>10, <2>1, GotoTyped DEF Claim, Pc, LocalPc
      <3>2. holder' \in [Tx -> Exec \cup {NoExec}]
        BY <2>1
      <3>. QED  BY <1>10, <2>1, <3>1, <3>2 DEF Claim, lock, env
    <2>2. CASE Finish(e, FALSE) /\ UNCHANGED holder
      BY <1>10, <2>2, FinishTyped DEF Claim, env
    <2>3. ToSet(ex[e].todo) \subseteq Tx
      BY DEF Call, ToSet
    <2>. QED  BY <1>10, <2>1, <2>2, <2>3 DEF Claim
  <1>11. CASE SendOk(e)
    <2>1. ex' \in [Exec -> Call] /\ Loaded'
      BY <1>11, GotoTyped DEF SendOk, Pc, LocalPc
    <2>. QED  BY <1>11, <2>1, BroadcastType DEF SendOk, redis, lock, db, env
  <1>12. CASE SendConfirmFail(e)
    BY <1>12, FinishTyped, FaultType, ReleaseType DEF SendConfirmFail
  <1>13. CASE SendUnknown(e)
    <2>1. ex' \in [Exec -> Call] /\ Loaded'
      BY <1>13, GotoTyped DEF SendUnknown, Pc, LocalPc
    <2>2. sent' \in [Tx -> Nat] /\ faults' \in Nat
      BY <1>13, BroadcastType, FaultType DEF SendUnknown
    <2>. QED  BY <1>13, <2>1, <2>2 DEF SendUnknown, redis, lock, db
  <1>14. CASE Commit(e)
    <2>1. row' \in [Tx -> Statuses]
      BY <1>14 DEF Commit, Statuses
    <2>. QED  BY <1>14, <2>1, FinishTyped, ReleaseType DEF Commit, env
  <1>15. CASE CommitFails(e)
    BY <1>15, FinishTyped, FaultType, ReleaseType DEF CommitFails
  <1>. QED  BY <1>2, <1>3, <1>4, <1>5, <1>6, <1>7, <1>8, <1>9, <1>10, <1>11, <1>12,
               <1>13, <1>14, <1>15 DEF PaidStep

\* A step that changes nothing keeps the state well typed.
LEMMA StutterTyped == Typed /\ UNCHANGED vars => Typed'
  BY DEF Typed, TypeOK, Loaded, vars, redis, lock, db, env

\* The state is well typed in every configuration, safe or not.
THEOREM TypeCorrect == Spec => []TypeOK
  <1>1. Typed /\ [Next]_vars => Typed'
    BY EnqueueTyped, RedisTyped, PaidTyped, StutterTyped DEF Next
  <1>2. Typed => TypeOK
    BY DEF Typed
  <1>. QED  BY InitTyped, <1>1, <1>2, PTL DEF Spec

-----------------------------------------------------------------------------
(* One call at a time.                                                      *)

\* Every step of a call but its first takes a running call to a new state r,
\* which holds the lock unless it has returned.
LEMMA CallStep ==
  ASSUME Typed, Mutex, NEW e \in Exec, RedisStep(e) \/ PaidStep(e)
  PROVE  /\ ex[e].pc # "idle"
         /\ \E r : ex' = [ex EXCEPT ![e] = r] /\ (r.pc # "idle" => locked' = TRUE)
  <1>. DEFINE P == \E r : ex' = [ex EXCEPT ![e] = r] /\ (r.pc # "idle" => locked' = TRUE)
  <1>1. Busy(e) => locked = TRUE
    BY DEF Mutex, Typed, TypeOK
  <1>2. ASSUME NEW r, Continue(e, r) \/ Resume(e, r), Busy(e) PROVE P
    BY <1>1, <1>2 DEF Continue, Resume
  <1>3. ASSUME NEW retry, Finish(e, retry) PROVE P
    <2>1. ex' = [ex EXCEPT ![e] = Idle] /\ Idle.pc = "idle"
      BY <1>3 DEF Finish, Idle
    <2>. QED  BY <2>1
  <1>4. ASSUME NEW pc, Goto(e, pc), UNCHANGED locked, Busy(e) PROVE P
    BY <1>1, <1>4 DEF Goto
  <1>5. CASE LlenReturn(e)
    <2>1. ex' = [ex EXCEPT ![e] = Idle] /\ Idle.pc = "idle"
      BY <1>5 DEF LlenReturn, Idle
    <2>2. ex[e].pc # "idle"
      BY <1>5 DEF LlenReturn, Turn
    <2>. QED  BY <2>1, <2>2
  <1>6. CASE LlenProceed(e)
    BY <1>6 DEF LlenProceed, Turn
  <1>7. CASE Lrange(e) \/ Lrem(e) \/ Srem(e) \/ Filter(e) \/ GetData(e) \/ DelData(e)
             \/ Recheck(e) \/ Mark(e)
    <2>1. Busy(e) /\ \E r : Continue(e, r)
      BY <1>7 DEF Lrange, Lrem, Srem, Filter, GetData, DelData, Recheck, Mark, Turn, Busy
    <2>. QED  BY <2>1, <1>2 DEF Busy
  <1>8. CASE Dispatch(e)
    BY <1>8, <1>1 DEF Dispatch, Busy
  <1>9. CASE CheckPasses(e) \/ CheckRefuses(e)
    <2>1. Busy(e) /\ \E r : Resume(e, r)
      BY <1>9 DEF CheckPasses, CheckRefuses, Busy
    <2>. QED  BY <2>1, <1>2 DEF Busy
  <1>10. CASE Group(e)
    BY <1>10, <1>1 DEF Group, Busy, lock
  <1>11. CASE Refused(e) \/ ReadMismatch(e) \/ SendConfirmFail(e) \/ Commit(e) \/ CommitFails(e)
    <2>1. ex[e].pc # "idle" /\ \E retry : Finish(e, retry)
      BY <1>11 DEF Refused, ReadMismatch, SendConfirmFail, Commit, CommitFails
    <2>. QED  BY <2>1, <1>3
  <1>12. CASE ReadRow(e) \/ Claim(e)
    <2>1. /\ Busy(e)
          /\ \/ \E pc : Goto(e, pc) /\ UNCHANGED locked
             \/ Finish(e, FALSE)
      BY <1>12 DEF ReadRow, Claim, Busy, lock
    <2>. QED  BY <2>1, <1>3, <1>4 DEF Busy
  <1>13. CASE SaveReady(e) \/ SendOk(e) \/ SendUnknown(e)
    <2>1. Busy(e) /\ UNCHANGED locked /\ \E pc : Goto(e, pc)
      BY <1>13 DEF SaveReady, SendOk, SendUnknown, Busy, lock
    <2>. QED  BY <2>1, <1>4 DEF Busy
  <1>. QED  BY <1>5, <1>6, <1>7, <1>8, <1>9, <1>10, <1>11, <1>12, <1>13 DEF RedisStep, PaidStep

\* While one call runs the others are idle.
LEMMA Solo ==
  ASSUME Mutex, NEW e \in Exec, ex[e].pc # "idle", NEW f \in Exec, f # e
  PROVE  ex[f].pc = "idle"
  BY DEF Mutex, OneExecutor

\* No call runs when the service starts.
LEMMA InitMutex == Init => Mutex
  BY DEF Init, Mutex, OneExecutor, Busy, Idle

\* A new call takes the lock only when no other runs, and only its return frees it.
LEMMA MutexStep ==
  ASSUME PromptRedis = TRUE, Typed, Mutex, [Next]_vars
  PROVE  Mutex'
  <1>1. ASSUME UNCHANGED <<ex, locked>> PROVE Mutex'
    BY <1>1 DEF Mutex, OneExecutor, Busy
  <1>2. CASE EnqueueStep \/ PollSelect \/ PollEnqueue \/ IntervalElapses
             \/ (\E t \in Tx : Deliver(t) \/ Settle(t)) \/ UNCHANGED vars
    BY <1>1, <1>2 DEF EnqueueStep, Sismember, Lpush, Sadd, SetData, Unconsume, PollSelect,
                      PollEnqueue, IntervalElapses, Deliver, Settle, vars, lock
  <1>3. CASE Crash
    BY <1>3 DEF Crash, Mutex, OneExecutor, Busy, Idle
  <1>4. ASSUME NEW e \in Exec, Tick(e) PROVE Mutex'
    <2>1. \A f \in Exec : ex[f].pc = "idle"
      BY <1>4 DEF Tick, Mutex, Busy
    <2>2. \A f \in Exec : f # e => ex'[f].pc = "idle"
      BY <1>4, <2>1 DEF Tick, Typed, TypeOK
    <2>3. ex'[e].pc = "llen"
      BY <1>4 DEF Tick, Typed, TypeOK, Call
    <2>. QED  BY <2>2, <2>3 DEF Mutex, OneExecutor, Busy
  <1>5. ASSUME NEW e \in Exec, RedisStep(e) \/ PaidStep(e) PROVE Mutex'
    <2>1. PICK r : ex' = [ex EXCEPT ![e] = r] /\ (r.pc # "idle" => locked' = TRUE)
      BY <1>5, CallStep
    <2>2. \A f \in Exec : f # e => ex'[f].pc = "idle"
      BY <1>5, <2>1, CallStep, Solo DEF Typed, TypeOK
    <2>3. ex'[e] = r
      BY <2>1 DEF Typed, TypeOK
    <2>. QED  BY <2>1, <2>2, <2>3 DEF Mutex, OneExecutor, Busy
  <1>. QED  BY <1>2, <1>3, <1>4, <1>5 DEF Next

\* A step of the proofs below. With a prompt Redis, Lock[queueKey] admits one
\* readQueueExecByKey call at a time; of two ticks that both wait for LLEN, the overlap
\* the lock leaves open, it says nothing.
LEMMA OneAtATime == ASSUME PromptRedis = TRUE PROVE Spec => []OneExecutor
  <1>1. Typed /\ [Next]_vars => Typed'
    BY EnqueueTyped, RedisTyped, PaidTyped, StutterTyped DEF Next
  <1>2. Typed /\ Mutex /\ [Next]_vars => Mutex'
    BY MutexStep
  <1>3. Mutex => OneExecutor
    BY DEF Mutex
  <1>. QED  BY InitTyped, InitMutex, <1>1, <1>2, <1>3, PTL DEF Spec

-----------------------------------------------------------------------------
(* The order of the commands in flight.                                     *)

AllEnq(s) == \A i \in DOMAIN s : s[i].op \in EnqOps

\* pipe' drops d commands of pipe and adds enqueueing ones only.
Shifted(d) == \A i \in DOMAIN pipe' :
  pipe'[i].op \in EnqOps \/ (i + d \in DOMAIN pipe /\ pipe'[i] = pipe[i + d])

\* When Redis runs a call's command, nothing but enqueueing is behind it.
LEMMA TurnPipe ==
  ASSUME Typed, PipeOrder, Front1("exec")
  PROVE  Tail(pipe) \in Seq(Cmd) /\ AllEnq(Tail(pipe)) /\ NoUnconsume
  <1>1. pipe \in Seq(Cmd) /\ pipe # <<>> /\ pipe[1].op = "exec" /\ 1 \in DOMAIN pipe
    BY DEF Front1, Typed, TypeOK
  <1>2. \A i \in DOMAIN pipe : i > 1 => pipe[i].op \in EnqOps
    BY <1>1 DEF PipeOrder
  <1>3. \A i \in DOMAIN Tail(pipe) : i + 1 \in DOMAIN pipe /\ i + 1 > 1 /\ Tail(pipe)[i] = pipe[i + 1]
    BY <1>1
  <1>4. NoUnconsume
    BY <1>1, <1>2 DEF NoUnconsume, EnqOps
  <1>. QED  BY <1>1, <1>2, <1>3, <1>4 DEF AllEnq

\* While a call runs outside Redis, nothing but enqueueing is under way.
LEMMA LocalPipe ==
  ASSUME Typed, Mutex, PipeOrder, NEW e \in Exec, Busy(e), ex[e].pc \notin RedisPc
  PROVE  pipe \in Seq(Cmd) /\ AllEnq(pipe) /\ NoUnconsume
  <1>1. ASSUME NEW i \in DOMAIN pipe PROVE pipe[i].op \in EnqOps
    <2>1. pipe[i] \in Cmd
      BY DEF Typed, TypeOK
    <2>2. pipe[i].op # "unconsume"
      BY DEF PipeOrder, NoUnconsume
    <2>3. ASSUME pipe[i].op = "exec" PROVE FALSE
      <3>1. pipe[i].ex \in Exec
        BY <2>1, <2>3 DEF Cmd, EnqOps
      <3>2. ex[pipe[i].ex].pc \in RedisPc
        BY <2>3 DEF PipeOrder
      <3>3. pipe[i].ex = e
        BY <3>1, <3>2, Solo DEF RedisPc, Busy
      <3>. QED  BY <3>2, <3>3
    <2>. QED  BY <2>1, <2>2, <2>3 DEF Cmd
  <1>. QED  BY <1>1 DEF AllEnq, PipeOrder, Typed, TypeOK

\* The pipe is in order when it holds only enqueueing commands q, ...
LEMMA OrderQuiet ==
  ASSUME NEW q \in Seq(Cmd), AllEnq(q), pipe' = q
  PROVE  PipeOrder' /\ NoUnconsume'
  BY DEF AllEnq, PipeOrder, NoUnconsume, EnqOps

\* ... with the next command of the call that runs behind them, ...
LEMMA OrderExec ==
  ASSUME NEW q \in Seq(Cmd), AllEnq(q), NEW e \in Exec, pipe' = Append(q, ExecCmd(e)),
         ex'[e].pc \in RedisPc
  PROVE  PipeOrder' /\ NoUnconsume'
  <1>1. \A i \in DOMAIN pipe' : (i \in DOMAIN q /\ pipe'[i] = q[i])
                                \/ (i = Len(q) + 1 /\ pipe'[i] = ExecCmd(e))
    OBVIOUS
  <1>2. \A i \in DOMAIN pipe' : pipe'[i].op = "exec" => i = Len(q) + 1 /\ pipe'[i].ex = e
    BY <1>1 DEF AllEnq, ExecCmd, EnqOps
  <1>3. DOMAIN pipe' = 1 .. Len(q) + 1
    OBVIOUS
  <1>4. NoUnconsume'
    BY <1>1 DEF AllEnq, ExecCmd, EnqOps, NoUnconsume
  <1>. QED  BY <1>2, <1>3, <1>4 DEF PipeOrder

\* ... or the retry of a call that has returned.
LEMMA OrderRetry ==
  ASSUME NEW q \in Seq(Cmd), AllEnq(q), NEW s, pipe' = Append(q, UnconsumeCmd(s)),
         \A e \in Exec : ex'[e].pc = "idle"
  PROVE  PipeOrder'
  <1>1. \A i \in DOMAIN pipe' : pipe'[i].op # "exec"
    BY DEF AllEnq, UnconsumeCmd, EnqOps
  <1>. QED  BY <1>1 DEF PipeOrder, Busy

\* Steps that enqueue keep the order.
LEMMA OrderShifted ==
  ASSUME Typed, PipeOrder, UNCHANGED ex, NEW d \in {0, 1}, Shifted(d),
         pipe' \in Seq(Cmd)
  PROVE  PipeOrder'
  <1>. DEFINE Old(i) == i + d \in DOMAIN pipe /\ pipe'[i] = pipe[i + d]
  <1>1. \A i \in DOMAIN pipe' : i \in Nat /\ (pipe'[i].op \notin EnqOps => Old(i))
    BY DEF Shifted
  <1>2. ASSUME NEW i \in DOMAIN pipe', pipe'[i].op = "exec" PROVE ex'[pipe'[i].ex].pc \in RedisPc
    BY <1>1, <1>2 DEF PipeOrder, EnqOps
  <1>3. ASSUME NEW i \in DOMAIN pipe', NEW j \in DOMAIN pipe', i < j, pipe'[i].op = "exec",
               pipe'[j].op \notin EnqOps
        PROVE FALSE
    <2>1. Old(i) /\ Old(j)
      BY <1>1, <1>3 DEF EnqOps
    <2>2. i + d < j + d
      BY <1>1, <1>3
    <2>. QED  BY <2>1, <2>2, <1>3 DEF PipeOrder
  <1>4. ASSUME NEW e \in Exec, Busy(e)' PROVE NoUnconsume'
    <2>1. NoUnconsume
      BY <1>4 DEF PipeOrder, Busy
    <2>. QED  BY <2>1, <1>1 DEF NoUnconsume, EnqOps
  <1>. QED  BY <1>2, <1>3, <1>4 DEF PipeOrder

\* The steps that leave the calls alone.
QuietStep ==
  \/ EnqueueStep \/ PollSelect \/ PollEnqueue \/ IntervalElapses
  \/ (\E t \in Tx : Deliver(t) \/ Settle(t)) \/ UNCHANGED vars

\* Appending such commands shifts nothing, ...
LEMMA ShiftAppend ==
  ASSUME NEW new \in Seq(Cmd), AllEnq(new), pipe \in Seq(Cmd), pipe' = pipe \o new
  PROVE  Shifted(0)
  <1>1. ASSUME NEW i \in DOMAIN pipe'
        PROVE  pipe'[i].op \in EnqOps \/ (i + 0 \in DOMAIN pipe /\ pipe'[i] = pipe[i + 0])
    <2>. DEFINE base == pipe
    <2>1. base \in Seq(Cmd)
      OBVIOUS
    <2>2. CASE i \in DOMAIN base
      BY <2>1, <2>2
    <2>3. CASE i \notin DOMAIN base
      <3>1. i - Len(base) \in DOMAIN new /\ pipe'[i] = new[i - Len(base)]
        BY <2>1, <2>3
      <3>. QED  BY <3>1 DEF AllEnq
    <2>. QED  BY <2>2, <2>3
  <1>. QED  BY <1>1 DEF Shifted

\* ... and taking the first one away shifts the others by one.
LEMMA ShiftTail ==
  ASSUME NEW new \in Seq(Cmd), AllEnq(new), pipe \in Seq(Cmd), pipe # <<>>, pipe' = Tail(pipe) \o new
  PROVE  Shifted(1)
  <1>1. ASSUME NEW i \in DOMAIN pipe'
        PROVE  pipe'[i].op \in EnqOps \/ (i + 1 \in DOMAIN pipe /\ pipe'[i] = pipe[i + 1])
    <2>. DEFINE base == Tail(pipe)
    <2>1. base \in Seq(Cmd)
      OBVIOUS
    <2>2. CASE i \in DOMAIN base
      BY <2>1, <2>2
    <2>3. CASE i \notin DOMAIN base
      <3>1. i - Len(base) \in DOMAIN new /\ pipe'[i] = new[i - Len(base)]
        BY <2>1, <2>3
      <3>. QED  BY <3>1 DEF AllEnq
    <2>. QED  BY <2>2, <2>3
  <1>. QED  BY <1>1 DEF Shifted

\* A poll only enqueues, ...
LEMMA EnqueuesEnq ==
  ASSUME NEW s \in Seq(Tx)
  PROVE  Enqueues(s) \in Seq(Cmd) /\ AllEnq(Enqueues(s))
  BY EnqueuesType DEF AllEnq, Enqueues, EnqCmd, EnqOps

\* ... and so does a single enqueueing command.
LEMMA OneEnq ==
  ASSUME NEW op \in EnqOps, NEW t \in Tx
  PROVE  <<EnqCmd(op, t)>> \in Seq(Cmd) /\ AllEnq(<<EnqCmd(op, t)>>)
  BY EnqCmdType DEF AllEnq, EnqCmd

\* A quiet step touches no call and no payment, and only enqueues.
LEMMA QuietShift ==
  ASSUME Typed, QuietStep
  PROVE  UNCHANGED <<ex, sent>> /\ \E d \in {0, 1} : Shifted(d)
  <1>1. pipe \in Seq(Cmd) /\ <<>> \in Seq(Cmd) /\ AllEnq(<<>>)
    BY DEF Typed, TypeOK, AllEnq
  <1>2. ASSUME UNCHANGED pipe PROVE Shifted(0)
    BY <1>1, <1>2 DEF Shifted
  <1>3. ASSUME NEW op \in EnqOps, Front1(op)
        PROVE  pipe # <<>> /\ Head(pipe).tx \in Tx /\ Tail(pipe) \in Seq(Cmd)
    BY <1>3, PipeTail DEF Front1, Cmd, EnqOps, Typed
  <1>4. ASSUME NEW op \in EnqOps, NEW t \in Tx, pipe # <<>>, Tail(pipe) \in Seq(Cmd),
               pipe' = Append(Tail(pipe), EnqCmd(op, t))
        PROVE  Shifted(1)
    <2>1. pipe' = Tail(pipe) \o <<EnqCmd(op, t)>>
      BY <1>4
    <2>. QED  BY <1>1, <1>4, <2>1, OneEnq, ShiftTail
  <1>5. ASSUME pipe # <<>>, Tail(pipe) \in Seq(Cmd), pipe' = Tail(pipe) PROVE Shifted(1)
    BY <1>1, <1>5 DEF Shifted
  <1>6. CASE Sismember
    <2>1. pipe # <<>> /\ Head(pipe).tx \in Tx /\ Tail(pipe) \in Seq(Cmd)
      BY <1>3, <1>6 DEF Sismember, EnqOps
    <2>. QED  BY <1>4, <1>5, <1>6, <2>1 DEF Sismember, EnqOps
  <1>7. CASE Lpush
    <2>1. pipe # <<>> /\ Head(pipe).tx \in Tx /\ Tail(pipe) \in Seq(Cmd)
      BY <1>3, <1>7 DEF Lpush, EnqOps
    <2>. QED  BY <1>4, <1>7, <2>1 DEF Lpush, EnqOps
  <1>8. CASE Sadd
    <2>1. pipe # <<>> /\ Head(pipe).tx \in Tx /\ Tail(pipe) \in Seq(Cmd)
      BY <1>3, <1>8 DEF Sadd, EnqOps
    <2>. QED  BY <1>4, <1>8, <2>1 DEF Sadd, EnqOps
  <1>9. CASE SetData
    <2>1. pipe # <<>> /\ Tail(pipe) \in Seq(Cmd)
      BY <1>3, <1>9 DEF SetData, EnqOps
    <2>. QED  BY <1>5, <1>9, <2>1 DEF SetData
  <1>10. CASE Unconsume
    <2>1. pipe # <<>> /\ Head(pipe).txs \in Seq(Tx) /\ Tail(pipe) \in Seq(Cmd)
      BY <1>10, PipeTail DEF Unconsume, Front1, Cmd, EnqOps, Typed
    <2>2. pipe' = Tail(pipe) \o Enqueues(Head(pipe).txs) /\ UNCHANGED <<ex, sent>>
      BY <1>10 DEF Unconsume
    <2>. QED  BY <1>1, <2>1, <2>2, EnqueuesEnq, ShiftTail
  <1>11. CASE PollEnqueue
    <2>1. PICK s \in SetToSeqs(polled) : pipe' = pipe \o Enqueues(s)
      BY <1>11 DEF PollEnqueue
    <2>2. s \in Seq(Tx)
      BY PollType DEF Typed, TypeOK
    <2>. QED  BY <1>1, <1>11, <2>1, <2>2, EnqueuesEnq, ShiftAppend DEF PollEnqueue
  <1>12. ASSUME NEW t \in Tx, Deliver(t) PROVE UNCHANGED <<ex, sent>> /\ \E d \in {0, 1} : Shifted(d)
    <2>1. pipe' = pipe \o <<EnqCmd("sismember", t)>>
      BY <1>1, <1>12 DEF Deliver
    <2>2. "sismember" \in EnqOps
      BY DEF EnqOps
    <2>. QED  BY <1>1, <1>12, <2>1, <2>2, OneEnq, ShiftAppend DEF Deliver
  <1>13. CASE PollSelect \/ IntervalElapses \/ (\E t \in Tx : Settle(t)) \/ UNCHANGED vars
    BY <1>2, <1>13 DEF PollSelect, IntervalElapses, Settle, vars, redis, db, env
  <1>. QED  BY <1>6, <1>7, <1>8, <1>9, <1>10, <1>11, <1>12, <1>13 DEF QuietStep, EnqueueStep

\* Without a new mark, a payment or a step of a call, nothing is disturbed.
LEMMA QuietSafe ==
  ASSUME Inductive, Typed', QuietStep
  PROVE  PipeOrder' /\ Fenced' /\ Batches' /\ OneByOne'
  <1>. USE DEF Inductive
  <1>1. PICK d \in {0, 1} : Shifted(d)
    BY QuietShift
  <1>2. UNCHANGED <<ex, sent>>
    BY QuietShift
  <1>3. PipeOrder'
    BY <1>1, <1>2, OrderShifted DEF Typed, TypeOK
  <1>4. OneByOne'
    BY <1>2 DEF OneByOne, OneOk
  <1>5. \A i \in DOMAIN pipe' : pipe'[i].op = "unconsume" => \A t \in ToSet(pipe'[i].txs) : sent[t] = 0
    BY <1>1 DEF Shifted, Fenced, EnqOps
  <1>6. CASE Unconsume
    <2>1. pipe # <<>> /\ 1 \in DOMAIN pipe /\ Head(pipe) = pipe[1] /\ pipe[1].op = "unconsume"
      BY <1>6 DEF Unconsume, Front1, Typed, TypeOK
    <2>2. consumed' = consumed \ ToSet(pipe[1].txs)
      BY <1>6, <2>1 DEF Unconsume
    <2>3. Fenced'
      BY <1>2, <1>5, <2>1, <2>2 DEF Fenced, Typed, TypeOK
    <2>4. \A e \in Exec : ~Busy(e)
      BY <2>1 DEF PipeOrder, NoUnconsume
    <2>5. Batches'
      BY <1>2, <2>4 DEF Batches, BatchOk, Busy
    <2>. QED  BY <1>3, <1>4, <2>3, <2>5
  <1>7. CASE ~Unconsume
    <2>1. UNCHANGED consumed
      BY <1>7 DEF QuietStep, EnqueueStep, Sismember, Lpush, Sadd, SetData, PollSelect, PollEnqueue,
                  IntervalElapses, Deliver, Settle, vars, redis
    <2>2. Batches'
      BY <1>2, <2>1 DEF Batches, BatchOk
    <2>3. Fenced'
      BY <1>2, <1>5, <2>1 DEF Fenced
    <2>. QED  BY <1>3, <1>4, <2>2, <2>3
  <1>. QED  BY <1>6, <1>7

-----------------------------------------------------------------------------
(* The steps of the running call.                                           *)

\* The invariant of the calls asks only for the call that moves: the others are idle.
LEMMA CallSafe ==
  ASSUME Inductive, NEW e \in Exec, ex[e].pc # "idle", NEW r, ex' = [ex EXCEPT ![e] = r],
         BatchOk(r, consumed', sent'), OneOk(r)
  PROVE  Batches' /\ OneByOne'
  <1>1. ex'[e] = r
    BY DEF Inductive, Typed, TypeOK
  <1>2. ASSUME NEW f \in Exec, f # e
        PROVE  ex'[f].pc = "idle" /\ BatchOk(ex'[f], consumed', sent') /\ OneOk(ex'[f])
    <2>1. ex'[f] = ex[f] /\ ex[f].pc = "idle"
      BY <1>2, Solo DEF Inductive, Typed, TypeOK
    <2>2. OneOk(ex[f])
      BY DEF Inductive, OneByOne
    <2>. QED  BY <2>1, <2>2 DEF BatchOk
  <1>3. OneOk(r) => OneOk(ex'[e])
    BY <1>1
  <1>4. \A f \in Exec : OneOk(ex'[f])
    BY <1>2, <1>3
  <1>5. \A f \in Exec : BatchOk(ex'[f], consumed', sent')
    BY <1>1, <1>2
  <1>6. OneByOne'
    BY <1>4 DEF OneByOne, OneOk
  <1>. QED  BY <1>5, <1>6 DEF Batches, BatchOk

\* A call that has returned asks for nothing.
LEMMA IdleSafe == ASSUME NEW marks, NEW paid PROVE BatchOk(Idle, marks, paid) /\ OneOk(Idle)
  BY DEF BatchOk, OneOk, Idle

\* What the pipe is after Continue, Resume and Finish.
LEMMA ContinuePipe ==
  ASSUME Inductive, NEW e \in Exec, NEW r, Front1("exec"), Continue(e, r)
  PROVE  PipeOrder' /\ NoUnconsume' /\ NoUnconsume
  <1>1. Tail(pipe) \in Seq(Cmd) /\ AllEnq(Tail(pipe)) /\ NoUnconsume
    BY TurnPipe DEF Inductive
  <1>2. CASE r.pc \in RedisPc
    <2>1. ex'[e].pc \in RedisPc /\ pipe' = Append(Tail(pipe), ExecCmd(e))
      BY <1>2 DEF Continue, Inductive, Typed, TypeOK
    <2>. QED  BY <1>1, <2>1, OrderExec
  <1>3. CASE r.pc \notin RedisPc
    BY <1>1, <1>3, OrderQuiet DEF Continue
  <1>. QED  BY <1>2, <1>3

\* The pipe is in order when a call outside Redis resumes ...
LEMMA ResumePipe ==
  ASSUME Inductive, NEW e \in Exec, NEW r, Busy(e), ex[e].pc \notin RedisPc, Resume(e, r)
  PROVE  PipeOrder' /\ NoUnconsume'
  <1>1. pipe \in Seq(Cmd) /\ AllEnq(pipe)
    BY LocalPipe DEF Inductive
  <1>2. CASE r.pc \in RedisPc
    <2>1. ex'[e].pc \in RedisPc /\ pipe' = Append(pipe, ExecCmd(e))
      BY <1>2 DEF Resume, Inductive, Typed, TypeOK
    <2>. QED  BY <1>1, <2>1, OrderExec
  <1>3. CASE r.pc \notin RedisPc
    BY <1>1, <1>3, OrderQuiet DEF Resume
  <1>. QED  BY <1>2, <1>3

\* ... and when it stays outside Redis.
LEMMA GotoPipe ==
  ASSUME Inductive, NEW e \in Exec, Busy(e), ex[e].pc \notin RedisPc, UNCHANGED pipe
  PROVE  PipeOrder' /\ NoUnconsume'
  BY LocalPipe, OrderQuiet DEF Inductive

\* A finished call leaves at most the retry of its batch, which was not paid.
LEMMA FinishSafe ==
  ASSUME Inductive, NEW e \in Exec, Busy(e), ex[e].pc \notin RedisPc,
         NEW retry \in BOOLEAN, Finish(e, retry), UNCHANGED <<consumed, sent>>,
         retry => ex[e].pc \in {"read", "send"}
  PROVE  PipeOrder' /\ Fenced' /\ Batches' /\ OneByOne'
  <1>1. pipe \in Seq(Cmd) /\ AllEnq(pipe) /\ NoUnconsume
    BY LocalPipe DEF Inductive
  <1>2. ex' = [ex EXCEPT ![e] = Idle] /\ ex[e].pc # "idle"
    BY DEF Finish, Busy
  <1>3. Batches' /\ OneByOne'
    BY <1>2, IdleSafe, CallSafe
  <1>4. \A f \in Exec : ex'[f].pc = "idle"
    BY <1>2, Solo DEF Inductive, Typed, TypeOK, Idle
  <1>5. \A t \in Tx : sent'[t] > 0 => (sent'[t] = 1 /\ t \in consumed')
    BY DEF Inductive, Fenced
  <1>6. CASE retry
    <2>1. pipe' = Append(pipe, UnconsumeCmd(ex[e].recs))
      BY <1>6 DEF Finish
    <2>2. PipeOrder'
      BY <1>1, <1>4, <2>1, OrderRetry
    <2>3. BatchOk(ex[e], consumed, sent)
      BY DEF Inductive, Batches
    <2>4. \A i \in DOMAIN ex[e].recs : sent[ex[e].recs[i]] = 0
      BY <1>6, <2>3 DEF BatchOk
    <2>5. ASSUME NEW i \in DOMAIN pipe', pipe'[i].op = "unconsume" PROVE pipe'[i].txs = ex[e].recs
      <3>1. i \notin DOMAIN pipe
        BY <1>1, <2>1, <2>5 DEF AllEnq, EnqOps
      <3>2. pipe'[i] = UnconsumeCmd(ex[e].recs)
        BY <1>1, <2>1, <3>1
      <3>. QED  BY <3>2 DEF UnconsumeCmd
    <2>. QED  BY <1>3, <1>5, <2>2, <2>4, <2>5 DEF Fenced, ToSet
  <1>7. CASE ~retry
    <2>1. pipe' = pipe
      BY <1>7 DEF Finish
    <2>. QED  BY <1>1, <1>3, <1>5, <2>1, OrderQuiet DEF Fenced, NoUnconsume
  <1>. QED  BY <1>6, <1>7

\* The two ways in which a pass of a loop leaves a call r: in the loop, or past it.
Again(e, pc, keep, r) ==
  /\ r.pc = pc /\ r.recs = ex[e].recs
  /\ \A i \in DOMAIN r.todo : \E j \in DOMAIN ex[e].todo : r.todo[i] = ex[e].todo[j]
  /\ \A i \in DOMAIN r.out : \/ \E j \in DOMAIN ex[e].out : r.out[i] = ex[e].out[j]
                             \/ keep /\ r.out[i] = ex[e].todo[1]
  /\ Len(r.todo) + Len(r.out) \in 0 .. Len(ex[e].todo) + Len(ex[e].out)

Past(e, pc, keep, r) ==
  /\ r.pc = pc /\ r.recs = ex[e].recs /\ r.out = <<>>
  /\ \A i \in DOMAIN r.todo : \/ \E j \in DOMAIN ex[e].out : r.todo[i] = ex[e].out[j]
                              \/ keep /\ r.todo[i] = ex[e].todo[1]
  /\ Len(r.todo) + Len(r.out) \in 0 .. Len(ex[e].todo) + Len(ex[e].out)

\* A pass returns, goes round again or leaves the loop.
LEMMA NextItemItems ==
  ASSUME NEW e \in Exec, ex[e] \in Call, ex[e].todo # <<>>, NEW again, NEW then, NEW keep,
         NEW r, r = NextItem(e, again, then, keep)
  PROVE  r = Idle \/ Again(e, again, keep, r) \/ Past(e, then, keep, r)
  <1>. DEFINE more == Tail(ex[e].todo)
              out  == IF keep THEN <<Head(ex[e].todo)>> \o ex[e].out ELSE ex[e].out
  <1>1. ex[e].todo \in Seq(Tx) /\ ex[e].out \in Seq(Tx) /\ ex[e].todo # <<>>
    BY DEF Call
  <1>2. more \in Seq(Tx) /\ Len(more) = Len(ex[e].todo) - 1
        /\ \A i \in DOMAIN more : i + 1 \in DOMAIN ex[e].todo /\ more[i] = ex[e].todo[i + 1]
    BY <1>1
  <1>3. out \in Seq(Tx) /\ Len(out) <= Len(ex[e].out) + 1
    BY <1>1
  <1>4. \A i \in DOMAIN out : \/ \E j \in DOMAIN ex[e].out : out[i] = ex[e].out[j]
                              \/ keep /\ out[i] = ex[e].todo[1]
    <2>1. CASE keep
      <3>1. \A i \in DOMAIN out : (i = 1 /\ out[i] = ex[e].todo[1])
                                  \/ (i - 1 \in DOMAIN ex[e].out /\ out[i] = ex[e].out[i - 1])
        BY <1>1, <2>1
      <3>. QED  BY <2>1, <3>1
    <2>2. CASE ~keep
      BY <2>2
    <2>. QED  BY <2>1, <2>2
  <1>5. r = IF more # <<>> THEN [ex[e] EXCEPT !.pc = again, !.todo = more, !.out = out]
            ELSE IF out = <<>> THEN Idle
            ELSE [ex[e] EXCEPT !.pc = then, !.todo = out, !.out = <<>>]
    BY DEF NextItem
  <1>6. Len(ex[e].todo) >= 1 /\ Len(ex[e].out) \in Nat /\ Len(ex[e].todo) \in Nat
    BY <1>1
  <1>10. \A a, b, c, d \in Nat : c <= b + 1 /\ d = a - 1 => d + c \in 0 .. a + b
    OBVIOUS
  <1>11. \A a, b, c \in Nat : c <= b + 1 /\ a >= 1 => c + 0 \in 0 .. a + b
    OBVIOUS
  <1>. HIDE DEF more, out
  <1>7. CASE more # <<>>
    <2>1. r = [ex[e] EXCEPT !.pc = again, !.todo = more, !.out = out]
      BY <1>5, <1>7
    <2>2. r.pc = again /\ r.todo = more /\ r.out = out /\ r.recs = ex[e].recs
      BY <2>1 DEF Call
    <2>3. Len(r.todo) + Len(r.out) \in 0 .. Len(ex[e].todo) + Len(ex[e].out)
      <3>1. Len(more) \in Nat /\ Len(out) \in Nat
        BY <1>2, <1>3
      <3>2. Len(more) + Len(out) \in 0 .. Len(ex[e].todo) + Len(ex[e].out)
        BY <1>2, <1>3, <1>6, <1>10, <3>1
      <3>. QED  BY <2>2, <3>2
    <2>4. \A i \in DOMAIN r.todo : \E j \in DOMAIN ex[e].todo : r.todo[i] = ex[e].todo[j]
      BY <1>2, <2>2
    <2>5. \A i \in DOMAIN r.out : \/ \E j \in DOMAIN ex[e].out : r.out[i] = ex[e].out[j]
                                  \/ keep /\ r.out[i] = ex[e].todo[1]
      BY <1>4, <2>2
    <2>. QED  BY <2>2, <2>3, <2>4, <2>5 DEF Again
  <1>8. CASE more = <<>> /\ out = <<>>
    BY <1>5, <1>8
  <1>9. CASE more = <<>> /\ out # <<>>
    <2>1. r = [ex[e] EXCEPT !.pc = then, !.todo = out, !.out = <<>>]
      BY <1>5, <1>9
    <2>2. r.pc = then /\ r.todo = out /\ r.out = <<>> /\ r.recs = ex[e].recs
      BY <2>1 DEF Call
    <2>3. Len(r.todo) + Len(r.out) \in 0 .. Len(ex[e].todo) + Len(ex[e].out)
      <3>1. Len(out) \in Nat
        BY <1>3
      <3>2. Len(out) + 0 \in 0 .. Len(ex[e].todo) + Len(ex[e].out)
        BY <1>3, <1>6, <1>11, <3>1
      <3>3. Len(r.out) = 0
        BY <2>2
      <3>. QED  BY <2>2, <3>2, <3>3
    <2>4. \A i \in DOMAIN r.todo : \/ \E j \in DOMAIN ex[e].out : r.todo[i] = ex[e].out[j]
                                   \/ keep /\ r.todo[i] = ex[e].todo[1]
      BY <1>4, <2>2
    <2>. QED  BY <2>2, <2>3, <2>4 DEF Past
  <1>. QED  BY <1>7, <1>8, <1>9

\* A call whose Redis command has run keeps the invariant if its new state is in order.
LEMMA TurnSafe ==
  ASSUME Inductive, NEW e \in Exec, ex[e].pc # "idle", NEW r, Front1("exec"), Continue(e, r),
         UNCHANGED sent, consumed \subseteq consumed',
         BatchOk(r, consumed', sent'), OneOk(r)
  PROVE  PipeOrder' /\ Fenced' /\ Batches' /\ OneByOne'
  <1>1. ex' = [ex EXCEPT ![e] = r]
    BY DEF Continue
  <1>2. Batches' /\ OneByOne'
    BY <1>1, CallSafe
  <1>3. PipeOrder' /\ NoUnconsume'
    BY ContinuePipe
  <1>4. Fenced'
    BY <1>3 DEF Inductive, Fenced, NoUnconsume
  <1>. QED  BY <1>2, <1>3, <1>4

\* A pass keeps a call in order: its length, ...
LEMMA PassOne ==
  ASSUME NEW e \in Exec, ex[e] \in Call, OneOk(ex[e]), NEW r,
         r.pc \notin {"idle", "llen", "lrange", "group"},
         r.pc = "dispatch" => r.out = <<>>,
         Len(r.todo) + Len(r.out) \in 0 .. Len(ex[e].todo) + Len(ex[e].out),
         ex[e].pc \in {"lrem", "srem", "filter", "get", "del"} \/ r.pc \in {"recheck", "mark"}
  PROVE  OneOk(r)
  <1>3. Len(ex[e].todo) \in Nat /\ Len(ex[e].out) \in Nat
    BY DEF Call
  <1>4. \A n \in Nat : \A m \in 0 .. n : n <= 1 => m <= 1
    OBVIOUS
  <1>6. \A a, b \in Nat : a + b \in Nat
    OBVIOUS
  <1>5. ASSUME Version = "transfer", ex[e].pc \in {"lrem", "srem", "filter", "get", "del"}
        PROVE  Len(r.todo) + Len(r.out) <= 1
    <2>1. Len(ex[e].todo) + Len(ex[e].out) <= 1
      BY <1>5 DEF OneOk
    <2>2. Len(ex[e].todo) + Len(ex[e].out) \in Nat
      BY <1>3, <1>6
    <2>. QED  BY <1>4, <2>1, <2>2
  <1>. QED  BY <1>5 DEF OneOk

\* ... and what it knows of its transactions.
LEMMA PassUnmarked ==
  ASSUME NEW e \in Exec, NEW r, NEW pc, NEW keep, NEW marks, NEW paid,
         \A j \in DOMAIN ex[e].out : ex[e].out[j] \notin marks,
         keep => ex[e].todo[1] \notin marks,
         \/ Again(e, pc, keep, r) /\ pc = "filter"
         \/ /\ Again(e, pc, keep, r) /\ pc = "get"
            /\ \A j \in DOMAIN ex[e].todo : ex[e].todo[j] \notin marks
         \/ Past(e, pc, keep, r) /\ pc \in {"get", "dispatch"}
  PROVE  BatchOk(r, marks, paid)
  <1>1. CASE Again(e, pc, keep, r) /\ pc = "filter"
    <2>1. r.pc = "filter" /\ \A i \in DOMAIN r.out : r.out[i] \notin marks
      BY <1>1 DEF Again
    <2>. QED  BY <2>1 DEF BatchOk
  <1>2. CASE /\ Again(e, pc, keep, r) /\ pc = "get"
             /\ \A j \in DOMAIN ex[e].todo : ex[e].todo[j] \notin marks
    <2>1. /\ r.pc = "get" /\ \A i \in DOMAIN r.out : r.out[i] \notin marks
          /\ \A i \in DOMAIN r.todo : r.todo[i] \notin marks
      BY <1>2 DEF Again
    <2>. QED  BY <2>1 DEF BatchOk
  <1>3. CASE Past(e, pc, keep, r) /\ pc \in {"get", "dispatch"}
    <2>1. r.pc \in {"get", "dispatch"} /\ r.out = <<>> /\ \A i \in DOMAIN r.todo : r.todo[i] \notin marks
      BY <1>3 DEF Past
    <2>2. \A i \in DOMAIN r.out : FALSE
      BY <2>1
    <2>. QED  BY <2>1, <2>2 DEF BatchOk
  <1>. QED  BY <1>1, <1>2, <1>3

\* While the hashes are removed from the list nothing is known of them yet.
LEMMA PassRemoved ==
  ASSUME NEW e \in Exec, NEW r, NEW keep, NEW marks, NEW paid,
         Again(e, "lrem", keep, r) \/ Past(e, "filter", keep, r)
  PROVE  BatchOk(r, marks, paid)
  <1>1. r.pc = "lrem" \/ (r.pc = "filter" /\ r.out = <<>>)
    BY DEF Again, Past
  <1>. QED  BY <1>1 DEF BatchOk

\* While the rows are checked the batch stays unmarked and unpaid.
LEMMA PassChecked ==
  ASSUME NEW e \in Exec, NEW r, NEW keep, NEW marks, NEW paid, BatchOk(ex[e], marks, paid),
         ex[e].pc \in {"recheck", "check"}, 1 \in DOMAIN ex[e].todo,
         Again(e, "recheck", keep, r) \/ Past(e, "mark", keep, r)
  PROVE  BatchOk(r, marks, paid)
  <1>1. /\ \A i \in DOMAIN ex[e].todo : ex[e].todo[i] \in ToSet(ex[e].recs)
        /\ \A i \in DOMAIN ex[e].out : ex[e].out[i] \in ToSet(ex[e].recs)
        /\ \A i \in DOMAIN ex[e].recs : ex[e].recs[i] \notin marks
    BY DEF BatchOk
  <1>2. CASE Again(e, "recheck", keep, r)
    <2>1. /\ r.pc = "recheck" /\ r.recs = ex[e].recs
          /\ \A i \in DOMAIN r.todo : r.todo[i] \in ToSet(ex[e].recs)
          /\ \A i \in DOMAIN r.out : r.out[i] \in ToSet(ex[e].recs)
      BY <1>1, <1>2 DEF Again
    <2>. QED  BY <1>1, <2>1 DEF BatchOk
  <1>3. CASE Past(e, "mark", keep, r)
    <2>1. /\ r.pc = "mark" /\ r.recs = ex[e].recs /\ r.out = <<>>
          /\ \A i \in DOMAIN r.todo : r.todo[i] \in ToSet(ex[e].recs)
      BY <1>1, <1>3 DEF Past
    <2>2. \A i \in DOMAIN r.out : FALSE
      BY <2>1
    <2>. QED  BY <1>1, <2>1, <2>2 DEF BatchOk
  <1>. QED  BY <1>2, <1>3

\* LRANGE of one hash returns at most one.
LEMMA LastOne ==
  ASSUME NEW s \in Seq(Tx)
  PROVE  LastOf(s, 1) \in Seq(Tx) /\ Len(LastOf(s, 1)) <= 1
  <1>1. CASE 1 >= Len(s)
    BY <1>1 DEF LastOf
  <1>2. CASE Len(s) > 1
    <2>. DEFINE n == Len(s)
    <2>1. n \in Nat /\ n > 1 /\ n - 1 + 1 = n
      BY <1>2
    <2>2. LastOf(s, 1) = SubSeq(s, n, n)
      BY <1>2, <2>1 DEF LastOf
    <2>3. SubSeq(s, n, n) \in Seq(Tx) /\ Len(SubSeq(s, n, n)) = 1
      BY <2>1
    <2>. HIDE DEF n
    <2>4. LastOf(s, 1) \in Seq(Tx) /\ Len(LastOf(s, 1)) = 1
      BY <2>2, <2>3, Zenon
    <2>5. 1 <= 1
      OBVIOUS
    <2>. QED  BY <2>4, <2>5, Zenon
  <1>. QED  BY <1>1, <1>2

\* The Redis steps of a call keep the invariant: only SADD of an unpaid batch marks.
LEMMA RedisSafe ==
  ASSUME SafeConfig, Inductive, NEW e \in Exec, RedisStep(e)
  PROVE  PipeOrder' /\ Fenced' /\ Batches' /\ OneByOne'
  <1>. DEFINE c == ex[e]
  <1>0. /\ Typed /\ c \in Call /\ BatchOk(c, consumed, sent) /\ OneOk(c)
        /\ c.pc \notin {"idle", "llen", "lrange"} => c.todo # <<>>
    BY DEF Inductive, Typed, TypeOK, Loaded, Batches, OneByOne
  <1>1. c.todo \in Seq(Tx) /\ c.out \in Seq(Tx) /\ Len(c.todo) \in Nat /\ Len(c.out) \in Nat
    BY <1>0 DEF Call
  <1>2. c.todo # <<>> => Head(c.todo) = c.todo[1] /\ 1 \in DOMAIN c.todo
    BY <1>1
  <1>3. \A marks, paid : BatchOk(Idle, marks, paid) /\ OneOk(Idle)
    BY IdleSafe
  <1>4. CASE LlenReturn(e)
    <2>1. Front1("exec") /\ c.pc # "idle" /\ ex' = [ex EXCEPT ![e] = Idle] /\ pipe' = Tail(pipe)
          /\ UNCHANGED <<consumed, sent>>
      BY <1>4 DEF LlenReturn, Turn
    <2>2. Batches' /\ OneByOne'
      BY <2>1, <1>3, CallSafe
    <2>3. PipeOrder' /\ NoUnconsume'
      BY <2>1, TurnPipe, OrderQuiet DEF Inductive
    <2>. QED  BY <2>1, <2>2, <2>3 DEF Inductive, Fenced, NoUnconsume
  <1>5. CASE LlenProceed(e)
    <2>. DEFINE n == IF Len(list) >= BatchSize THEN MaxCount
                     ELSE IF PaidType = 2 THEN Len(list) ELSE 1
                r == [c EXCEPT !.pc = "lrange", !.count = n]
    <2>1. Version = "transfer" => n = 1
      BY DEF SafeConfig
    <2>. HIDE DEF n
    <2>2. ex' = [ex EXCEPT ![e] = r] /\ Front1("exec") /\ c.pc = "llen"
          /\ pipe' = Append(Tail(pipe), ExecCmd(e)) /\ UNCHANGED <<consumed, sent>>
      BY <1>5 DEF LlenProceed, Turn, n
    <2>3. r.pc = "lrange" /\ r.count = n /\ r.out = <<>>
      BY <1>0, <2>2 DEF Call, OneOk
    <2>. HIDE DEF r
    <2>4. BatchOk(r, consumed', sent') /\ OneOk(r)
      BY <2>1, <2>3 DEF BatchOk, OneOk
    <2>5. Batches' /\ OneByOne'
      BY <2>2, <2>4, CallSafe
    <2>6. ex'[e].pc \in RedisPc
      BY <2>2, <2>3 DEF RedisPc, Inductive, Typed, TypeOK
    <2>7. PipeOrder' /\ NoUnconsume'
      BY <2>2, <2>6, TurnPipe, OrderExec DEF Inductive
    <2>. QED  BY <2>2, <2>5, <2>7 DEF Inductive, Fenced, NoUnconsume
  <1>6. CASE Lrange(e)
    <2>. DEFINE s == LastOf(list, c.count)
                r == IF s = <<>> THEN Idle ELSE [c EXCEPT !.pc = "lrem", !.todo = s]
    <2>1. c.pc = "lrange" /\ Front1("exec") /\ Continue(e, r) /\ UNCHANGED <<consumed, sent>>
      BY <1>6 DEF Lrange, Turn
    <2>2. c.out = <<>> /\ (Version = "transfer" => c.count = 1)
      BY <1>0, <2>1 DEF OneOk
    <2>3. Version = "transfer" => s \in Seq(Tx) /\ Len(s) <= 1
      BY <2>2, LastOne DEF Inductive, Typed, TypeOK
    <2>. HIDE DEF s
    <2>4. CASE s = <<>>
      BY <2>1, <2>4, <1>3, TurnSafe
    <2>5. CASE s # <<>>
      <3>1. r.pc = "lrem" /\ r.todo = s /\ r.out = <<>>
        BY <2>2, <2>5, <1>0 DEF Call
      <3>2. BatchOk(r, consumed', sent') /\ OneOk(r)
        <4>. HIDE DEF r
        <4>1. Len(r.out) = 0
          BY <3>1
        <4>. QED  BY <2>3, <3>1, <4>1 DEF BatchOk, OneOk
      <3>. HIDE DEF r
      <3>. QED  BY <2>1, <3>2, TurnSafe
    <2>. QED  BY <2>4, <2>5
  <1>7. CASE Lrem(e)
    <2>1. c.pc = "lrem" /\ Front1("exec") /\ Continue(e, [c EXCEPT !.pc = "srem"])
          /\ UNCHANGED <<consumed, sent>>
      BY <1>7 DEF Lrem, Turn
    <2>2. BatchOk([c EXCEPT !.pc = "srem"], consumed', sent') /\ OneOk([c EXCEPT !.pc = "srem"])
      BY <2>1, <1>0 DEF BatchOk, OneOk, Call
    <2>. QED  BY <2>1, <2>2, TurnSafe
  <1>8. CASE Srem(e)
    <2>1. c.pc = "srem" /\ Front1("exec") /\ UNCHANGED <<consumed, sent>>
      BY <1>8 DEF Srem, Turn
    <2>2. PICK r : r = NextItem(e, "lrem", "filter", TRUE) /\ Continue(e, r)
      BY <1>8 DEF Srem
    <2>3. BatchOk(r, consumed', sent') /\ OneOk(r)
      <3>1. r = Idle \/ Again(e, "lrem", TRUE, r) \/ Past(e, "filter", TRUE, r)
        BY <2>1, <2>2, <1>0, <1>1, <1>3, NextItemItems
      <3>2. r # Idle => OneOk(r)
        <4>1. c \in Call /\ OneOk(c)
          BY <1>0
        <4>2. r # Idle => /\ r.pc \in {"lrem", "filter"} /\ (r.pc = "dispatch" => r.out = <<>>)
                             /\ Len(r.todo) + Len(r.out) \in 0 .. Len(c.todo) + Len(c.out)
          BY <3>1 DEF Again, Past
        <4>. QED  BY <2>1, <4>1, <4>2, PassOne
      <3>3. r # Idle => BatchOk(r, consumed, sent)
        BY <3>1, PassRemoved
      <3>. QED  BY <1>3, <3>2, <3>3, <2>1
    <2>. QED  BY <2>1, <2>2, <2>3, TurnSafe
  <1>9. CASE Filter(e)
    <2>1. c.pc = "filter" /\ Front1("exec") /\ UNCHANGED <<consumed, sent>>
      BY <1>9 DEF Filter, Turn
    <2>2. PICK r : r = NextItem(e, "filter", "get", Head(c.todo) \notin consumed) /\ Continue(e, r)
      BY <1>9 DEF Filter
    <2>3. BatchOk(r, consumed', sent') /\ OneOk(r)
      <3>1. r = Idle \/ Again(e, "filter", Head(c.todo) \notin consumed, r) \/ Past(e, "get", Head(c.todo) \notin consumed, r)
        BY <2>1, <2>2, <1>0, <1>1, <1>2, <1>3, NextItemItems
      <3>2. r # Idle => OneOk(r)
        <4>1. c \in Call /\ OneOk(c)
          BY <1>0
        <4>2. r # Idle => /\ r.pc \in {"filter", "get"} /\ (r.pc = "dispatch" => r.out = <<>>)
                             /\ Len(r.todo) + Len(r.out) \in 0 .. Len(c.todo) + Len(c.out)
          BY <3>1 DEF Again, Past
        <4>. QED  BY <2>1, <4>1, <4>2, PassOne
      <3>3. r # Idle => BatchOk(r, consumed, sent)
        <4>1. \A j \in DOMAIN c.out : c.out[j] \notin consumed
          BY <1>0, <2>1 DEF BatchOk
        <4>2. Head(c.todo) \notin consumed => c.todo[1] \notin consumed
          BY <1>0, <1>2, <2>1
        <4>3. 1 \in DOMAIN c.todo
          BY <1>0, <1>2, <2>1
        <4>. QED  BY <3>1, <4>1, <4>2, <4>3, PassUnmarked
      <3>. QED  BY <1>3, <3>2, <3>3, <2>1
    <2>. QED  BY <2>1, <2>2, <2>3, TurnSafe
  <1>10. CASE GetData(e)
    <2>1. c.pc = "get" /\ Front1("exec") /\ UNCHANGED <<consumed, sent>>
      BY <1>10 DEF GetData, Turn
    <2>2. CASE Continue(e, [c EXCEPT !.pc = "del"])
      <3>1. BatchOk([c EXCEPT !.pc = "del"], consumed', sent') /\ OneOk([c EXCEPT !.pc = "del"])
        BY <2>1, <1>0 DEF BatchOk, OneOk, Call
      <3>. QED  BY <2>1, <2>2, <3>1, TurnSafe
    <2>3. CASE Continue(e, NextItem(e, "get", "dispatch", FALSE))
      <3>1. PICK r : r = NextItem(e, "get", "dispatch", FALSE) /\ Continue(e, r)
        BY <2>3
      <3>2. BatchOk(r, consumed', sent') /\ OneOk(r)
        <4>1. r = Idle \/ Again(e, "get", FALSE, r) \/ Past(e, "dispatch", FALSE, r)
          BY <2>1, <3>1, <1>0, <1>1, <1>2, <1>3, NextItemItems
        <4>2. r # Idle => OneOk(r)
          <5>1. c \in Call /\ OneOk(c)
            BY <1>0
          <5>2. r # Idle => /\ r.pc \in {"get", "dispatch"} /\ (r.pc = "dispatch" => r.out = <<>>)
                               /\ Len(r.todo) + Len(r.out) \in 0 .. Len(c.todo) + Len(c.out)
            BY <4>1 DEF Again, Past
          <5>. QED  BY <2>1, <5>1, <5>2, PassOne
        <4>3. r # Idle => BatchOk(r, consumed, sent)
          <5>1. \A j \in DOMAIN c.out : c.out[j] \notin consumed
            BY <1>0, <2>1 DEF BatchOk
          <5>2. \A j \in DOMAIN c.todo : c.todo[j] \notin consumed
            BY <1>0, <2>1 DEF BatchOk
          <5>3. 1 \in DOMAIN c.todo
            BY <1>0, <1>2, <2>1
          <5>. QED  BY <4>1, <5>1, <5>2, <5>3, PassUnmarked
        <4>. QED  BY <1>3, <4>2, <4>3, <2>1
      <3>. QED  BY <2>1, <3>1, <3>2, TurnSafe
    <2>. QED  BY <1>10, <2>2, <2>3 DEF GetData
  <1>11. CASE DelData(e)
    <2>1. c.pc = "del" /\ Front1("exec") /\ UNCHANGED <<consumed, sent>>
      BY <1>11 DEF DelData, Turn
    <2>2. PICK r : r = NextItem(e, "get", "dispatch", TRUE) /\ Continue(e, r)
      BY <1>11 DEF DelData
    <2>3. BatchOk(r, consumed', sent') /\ OneOk(r)
      <3>1. r = Idle \/ Again(e, "get", TRUE, r) \/ Past(e, "dispatch", TRUE, r)
        BY <2>1, <2>2, <1>0, <1>1, <1>2, <1>3, NextItemItems
      <3>2. r # Idle => OneOk(r)
        <4>1. c \in Call /\ OneOk(c)
          BY <1>0
        <4>2. r # Idle => /\ r.pc \in {"get", "dispatch"} /\ (r.pc = "dispatch" => r.out = <<>>)
                             /\ Len(r.todo) + Len(r.out) \in 0 .. Len(c.todo) + Len(c.out)
          BY <3>1 DEF Again, Past
        <4>. QED  BY <2>1, <4>1, <4>2, PassOne
      <3>3. r # Idle => BatchOk(r, consumed, sent)
        <4>1. \A j \in DOMAIN c.out : c.out[j] \notin consumed
          BY <1>0, <2>1 DEF BatchOk
        <4>2. \A j \in DOMAIN c.todo : c.todo[j] \notin consumed
          BY <1>0, <2>1 DEF BatchOk
        <4>3. 1 \in DOMAIN c.todo
          BY <1>0, <1>2, <2>1
        <4>. QED  BY <3>1, <4>1, <4>2, <4>3, PassUnmarked
      <3>. QED  BY <1>3, <3>2, <3>3, <2>1
    <2>. QED  BY <2>1, <2>2, <2>3, TurnSafe
  <1>12. CASE Recheck(e)
    <2>1. c.pc = "recheck" /\ Front1("exec") /\ UNCHANGED <<consumed, sent>>
      BY <1>12 DEF Recheck, Turn
    <2>2. CASE Continue(e, [c EXCEPT !.pc = "check"])
      <3>1. BatchOk([c EXCEPT !.pc = "check"], consumed', sent') /\ OneOk([c EXCEPT !.pc = "check"])
        BY <2>1, <1>0 DEF BatchOk, OneOk, Call
      <3>. QED  BY <2>1, <2>2, <3>1, TurnSafe
    <2>3. CASE Continue(e, NextItem(e, "recheck", "mark", FALSE))
      <3>1. PICK r : r = NextItem(e, "recheck", "mark", FALSE) /\ Continue(e, r)
        BY <2>3
      <3>2. BatchOk(r, consumed', sent') /\ OneOk(r)
        <4>1. r = Idle \/ Again(e, "recheck", FALSE, r) \/ Past(e, "mark", FALSE, r)
          BY <2>1, <3>1, <1>0, <1>1, <1>2, <1>3, NextItemItems
        <4>2. r # Idle => OneOk(r)
          <5>1. c \in Call /\ OneOk(c)
            BY <1>0
          <5>2. r # Idle => /\ r.pc \in {"recheck", "mark"} /\ (r.pc = "dispatch" => r.out = <<>>)
                               /\ Len(r.todo) + Len(r.out) \in 0 .. Len(c.todo) + Len(c.out)
            BY <4>1 DEF Again, Past
          <5>. QED  BY <2>1, <5>1, <5>2, PassOne
        <4>3. r # Idle => BatchOk(r, consumed, sent)
          BY <4>1, <1>0, <1>2, <2>1, PassChecked
        <4>. QED  BY <1>3, <4>2, <4>3, <2>1
      <3>. QED  BY <2>1, <3>1, <3>2, TurnSafe
    <2>. QED  BY <1>12, <2>2, <2>3 DEF Recheck
  <1>13. CASE Mark(e)
    <2>. DEFINE r == [c EXCEPT !.pc = IF Len(c.todo) = 1 THEN "read" ELSE "claim"]
    <2>1. c.pc = "mark" /\ Front1("exec") /\ UNCHANGED sent /\ Continue(e, r)
          /\ consumed' = consumed \cup ToSet(c.todo)
      BY <1>13 DEF Mark, Turn
    <2>2. \A i \in DOMAIN c.recs : sent[c.recs[i]] = 0
      <3>1. \A i \in DOMAIN c.recs : c.recs[i] \in Tx /\ c.recs[i] \notin consumed
        BY <1>0, <2>1 DEF BatchOk, Call
      <3>. QED  BY <3>1 DEF Inductive, Fenced, Typed, TypeOK
    <2>3. \A i \in DOMAIN c.todo : c.todo[i] \in ToSet(c.recs) /\ c.todo[i] \in consumed'
      BY <1>0, <2>1 DEF BatchOk, ToSet
    <2>4. r.pc \in {"read", "claim"} /\ r.todo = c.todo /\ r.recs = c.recs
      BY <1>0 DEF Call
    <2>. HIDE DEF r
    <2>5. BatchOk(r, consumed', sent') /\ OneOk(r)
      BY <2>1, <2>2, <2>3, <2>4 DEF BatchOk, OneOk
    <2>. QED  BY <2>1, <2>5, TurnSafe
  <1>. QED  BY <1>4, <1>5, <1>6, <1>7, <1>8, <1>9, <1>10, <1>11, <1>12, <1>13 DEF RedisStep

\* A call that waits for something else than Redis, likewise.
LEMMA GotoSafe ==
  ASSUME Inductive, NEW e \in Exec, Busy(e), ex[e].pc \notin RedisPc, NEW pc, Goto(e, pc),
         UNCHANGED <<pipe, consumed>>, BatchOk([ex[e] EXCEPT !.pc = pc], consumed', sent'),
         OneOk([ex[e] EXCEPT !.pc = pc]),
         \A t \in Tx : sent'[t] > 0 => (sent'[t] = 1 /\ t \in consumed)
  PROVE  PipeOrder' /\ Fenced' /\ Batches' /\ OneByOne'
  <1>1. PipeOrder' /\ NoUnconsume'
    BY GotoPipe
  <1>2. ex' = [ex EXCEPT ![e] = [ex[e] EXCEPT !.pc = pc]] /\ ex[e].pc # "idle"
    BY DEF Goto, Busy
  <1>3. Batches' /\ OneByOne'
    BY <1>2, CallSafe
  <1>. QED  BY <1>1, <1>3 DEF Fenced, NoUnconsume

\* A pass over the next row check keeps the invariant.
LEMMA ResumeSafe ==
  ASSUME Inductive, NEW e \in Exec, ex[e].pc = "check", NEW keep, NEW r,
         r = NextItem(e, "recheck", "mark", keep), Resume(e, r), UNCHANGED <<consumed, sent>>
  PROVE  PipeOrder' /\ Fenced' /\ Batches' /\ OneByOne'
  <1>1. /\ Busy(e) /\ ex[e].pc \notin RedisPc /\ ex[e].todo # <<>> /\ ex[e] \in Call
        /\ BatchOk(ex[e], consumed, sent) /\ OneOk(ex[e])
    BY DEF Inductive, Typed, TypeOK, Loaded, Batches, OneByOne, Busy, RedisPc
  <1>2. PipeOrder' /\ NoUnconsume'
    BY <1>1, ResumePipe
  <1>3. r = Idle \/ Again(e, "recheck", keep, r) \/ Past(e, "mark", keep, r)
    BY <1>1, NextItemItems
  <1>4. r # Idle => OneOk(r)
    <2>1. r # Idle => /\ r.pc \in {"recheck", "mark"}
                      /\ Len(r.todo) + Len(r.out) \in 0 .. Len(ex[e].todo) + Len(ex[e].out)
      BY <1>3 DEF Again, Past
    <2>. QED  BY <1>1, <2>1, PassOne
  <1>5. 1 \in DOMAIN ex[e].todo
    BY <1>1 DEF Call
  <1>6. r # Idle => BatchOk(r, consumed, sent)
    BY <1>1, <1>3, <1>5, PassChecked
  <1>7. BatchOk(r, consumed', sent') /\ OneOk(r)
    BY <1>4, <1>6, IdleSafe
  <1>8. ex' = [ex EXCEPT ![e] = r] /\ ex[e].pc # "idle"
    BY <1>1 DEF Resume, Busy
  <1>9. Batches' /\ OneByOne'
    BY <1>7, <1>8, CallSafe
  <1>. QED  BY <1>2, <1>9 DEF Inductive, Fenced, NoUnconsume

\* A payment goes out for unpaid, fenced transactions.
LEMMA BroadcastSafe ==
  ASSUME Inductive, NEW e \in Exec, ex[e].pc = "send", sent' = sent \/ sent' = Broadcast(e)
  PROVE  \A t \in Tx : sent'[t] > 0 => (sent'[t] = 1 /\ t \in consumed)
  <1>1. BatchOk(ex[e], consumed, sent)
    BY DEF Inductive, Batches
  <1>2. ASSUME NEW t \in Batch(e) PROVE t \in consumed /\ sent[t] = 0
    <2>1. PICK i \in DOMAIN ex[e].todo : t = ex[e].todo[i]
      BY <1>2 DEF Batch, ToSet
    <2>2. t \in consumed /\ t \in ToSet(ex[e].recs) /\ \A j \in DOMAIN ex[e].recs : sent[ex[e].recs[j]] = 0
      BY <1>1, <2>1 DEF BatchOk
    <2>. QED  BY <2>2 DEF ToSet
  <1>3. \A t \in Tx : sent[t] > 0 => (sent[t] = 1 /\ t \in consumed)
    BY DEF Inductive, Fenced
  <1>4. CASE sent' = Broadcast(e)
    <2>1. \A t \in Tx : sent'[t] = IF t \in Batch(e) THEN sent[t] + 1 ELSE sent[t]
      BY <1>4 DEF Broadcast
    <2>. QED  BY <1>2, <1>3, <2>1
  <1>. QED  BY <1>3, <1>4

\* The steps of a call outside Redis keep the invariant.
LEMMA PaidSafe ==
  ASSUME SafeConfig, Inductive, NEW e \in Exec, PaidStep(e)
  PROVE  PipeOrder' /\ Fenced' /\ Batches' /\ OneByOne'
  <1>. DEFINE c == ex[e]
  <1>0. /\ Typed /\ c \in Call /\ BatchOk(c, consumed, sent) /\ OneOk(c)
    BY DEF Inductive, Typed, TypeOK, Batches, OneByOne
  <1>1. \A t \in Tx : sent[t] > 0 => (sent[t] = 1 /\ t \in consumed)
    BY DEF Inductive, Fenced
  <1>2. CASE Dispatch(e)
    <2>. DEFINE r == [c EXCEPT !.pc = "recheck", !.recs = c.todo]
    <2>1. c.pc = "dispatch" /\ c.out = <<>> /\ UNCHANGED <<consumed, sent>>
      BY <1>2, <1>0 DEF Dispatch, OneOk
    <2>2. ~(Version = "transfer" /\ Len(c.todo) > 1)
      <3>1. Version = "transfer" => Len(c.todo) + Len(c.out) <= 1
        BY <1>0, <2>1 DEF OneOk
      <3>2. Len(c.todo) \in Nat /\ Len(c.out) = 0
        BY <1>0, <2>1 DEF Call
      <3>. QED  BY <3>1, <3>2
    <2>3. ex' = [ex EXCEPT ![e] = r] /\ pipe' = Append(pipe, ExecCmd(e))
      BY <1>2, <2>2 DEF Dispatch
    <2>4. Busy(e) /\ c.pc \notin RedisPc /\ c.pc # "idle"
      BY <2>1 DEF Busy, RedisPc
    <2>5. pipe \in Seq(Cmd) /\ AllEnq(pipe)
      BY <2>4, LocalPipe DEF Inductive
    <2>6. r.pc = "recheck" /\ r.todo = c.todo /\ r.out = <<>> /\ r.recs = c.todo
      BY <1>0, <2>1 DEF Call
    <2>7. \A i \in DOMAIN c.todo : c.todo[i] \notin consumed
      BY <1>0, <2>1 DEF BatchOk
    <2>. HIDE DEF r
    <2>8. BatchOk(r, consumed', sent') /\ OneOk(r)
      <3>1. \A i \in DOMAIN r.out : FALSE
        BY <2>6
      <3>2. \A i \in DOMAIN r.todo : r.todo[i] \in ToSet(r.recs)
        BY <2>6 DEF ToSet
      <3>. QED  BY <2>1, <2>6, <2>7, <3>1, <3>2 DEF BatchOk, OneOk
    <2>9. Batches' /\ OneByOne'
      BY <2>3, <2>4, <2>8, CallSafe
    <2>10. ex'[e].pc \in RedisPc
      BY <2>3, <2>6 DEF RedisPc, Inductive, Typed, TypeOK
    <2>11. PipeOrder' /\ NoUnconsume'
      BY <2>3, <2>5, <2>10, OrderExec
    <2>. QED  BY <2>1, <2>9, <2>11, <1>1 DEF Fenced, NoUnconsume
  <1>3. CASE CheckPasses(e)
    <2>1. PICK r : r = NextItem(e, "recheck", "mark", TRUE) /\ Resume(e, r)
      BY <1>3 DEF CheckPasses
    <2>. QED  BY <1>3, <2>1, ResumeSafe DEF CheckPasses
  <1>4. CASE CheckRefuses(e)
    <2>1. PICK r : r = NextItem(e, "recheck", "mark", FALSE) /\ Resume(e, r)
      BY <1>4 DEF CheckRefuses
    <2>. QED  BY <1>4, <2>1, ResumeSafe DEF CheckRefuses
  <1>5. CASE Group(e)
    BY <1>5, <1>0 DEF Group, OneOk
  <1>6. CASE ReadRow(e) /\ Goto(e, "save") /\ UNCHANGED <<pipe, lock>>
    <2>1. c.pc = "read" /\ Busy(e) /\ c.pc \notin RedisPc /\ UNCHANGED <<consumed, sent>>
      BY <1>6 DEF ReadRow, Busy, RedisPc
    <2>2. BatchOk([c EXCEPT !.pc = "save"], consumed', sent') /\ OneOk([c EXCEPT !.pc = "save"])
      BY <2>1, <1>0 DEF BatchOk, OneOk, Call
    <2>. QED  BY <1>1, <1>6, <2>1, <2>2, GotoSafe
  <1>7. CASE (ReadRow(e) \/ Claim(e) \/ Refused(e)) /\ Finish(e, FALSE)
    <2>1. Busy(e) /\ c.pc \notin RedisPc /\ UNCHANGED <<consumed, sent>>
      BY <1>7 DEF ReadRow, Claim, Refused, Busy, RedisPc
    <2>. QED  BY <1>7, <2>1, FinishSafe
  <1>8. CASE ReadMismatch(e)
    <2>1. c.pc = "read" /\ Busy(e) /\ c.pc \notin RedisPc /\ Finish(e, TRUE) /\ UNCHANGED <<consumed, sent>>
      BY <1>8 DEF ReadMismatch, Busy, RedisPc
    <2>. QED  BY <2>1, FinishSafe
  <1>9. CASE SaveReady(e) \/ (Claim(e) /\ Goto(e, "send") /\ UNCHANGED <<pipe, lock>>)
    <2>1. c.pc \in {"save", "claim"} /\ Busy(e) /\ c.pc \notin RedisPc
          /\ UNCHANGED <<pipe, consumed, sent>> /\ Goto(e, "send")
      BY <1>9 DEF SaveReady, Claim, Busy, RedisPc, redis
    <2>2. BatchOk([c EXCEPT !.pc = "send"], consumed', sent') /\ OneOk([c EXCEPT !.pc = "send"])
      BY <2>1, <1>0 DEF BatchOk, OneOk, Call
    <2>. QED  BY <1>1, <2>1, <2>2, GotoSafe
  <1>10. CASE SendOk(e) \/ SendUnknown(e)
    <2>1. c.pc = "send" /\ Busy(e) /\ c.pc \notin RedisPc /\ UNCHANGED <<pipe, consumed>>
          /\ (sent' = sent \/ sent' = Broadcast(e))
      BY <1>10 DEF SendOk, SendUnknown, Busy, RedisPc, redis
    <2>2. PICK pc \in {"paid", "crash"} : Goto(e, pc)
      BY <1>10 DEF SendOk, SendUnknown
    <2>3. BatchOk([c EXCEPT !.pc = pc], consumed', sent') /\ OneOk([c EXCEPT !.pc = pc])
      BY <2>1, <2>2, <1>0 DEF BatchOk, OneOk, Call
    <2>. QED  BY <2>1, <2>2, <2>3, BroadcastSafe, GotoSafe
  <1>11. CASE SendConfirmFail(e)
    <2>1. c.pc = "send" /\ Busy(e) /\ c.pc \notin RedisPc /\ Finish(e, TRUE) /\ UNCHANGED <<consumed, sent>>
      BY <1>11 DEF SendConfirmFail, Busy, RedisPc
    <2>. QED  BY <2>1, FinishSafe
  <1>12. CASE Commit(e) \/ CommitFails(e)
    <2>1. Busy(e) /\ c.pc \notin RedisPc /\ Finish(e, FALSE) /\ UNCHANGED <<consumed, sent>>
      BY <1>12 DEF Commit, CommitFails, Busy, RedisPc
    <2>. QED  BY <2>1, FinishSafe
  <1>13. /\ ReadRow(e) => (Goto(e, "save") /\ UNCHANGED <<pipe, lock>>) \/ Finish(e, FALSE)
         /\ Claim(e) => (Goto(e, "send") /\ UNCHANGED <<pipe, lock>>) \/ Finish(e, FALSE)
    BY DEF ReadRow, Claim
  <1>14. Refused(e) => Finish(e, FALSE)  BY DEF Refused
  <1>. QED  BY <1>2, <1>3, <1>4, <1>5, <1>6, <1>7, <1>8, <1>9, <1>10, <1>11, <1>12, <1>13, <1>14
            DEF PaidStep


\* A new call starts behind a retry, if there is one.
LEMMA TickSafe ==
  ASSUME SafeConfig, Inductive, NEW e \in Exec, Tick(e)
  PROVE  PipeOrder' /\ Fenced' /\ Batches' /\ OneByOne'
  <1>. USE DEF Inductive
  <1>1. /\ ex[e] = Idle /\ ~locked /\ ex' = [ex EXCEPT ![e].pc = "llen"]
        /\ pipe' = Append(pipe, ExecCmd(e)) /\ UNCHANGED <<consumed, sent>>
        /\ \A f \in Exec : ex[f].pc # "llen"
    BY DEF Tick, SafeConfig
  <1>2. \A f \in Exec : ex[f].pc = "idle"
    BY <1>1 DEF Mutex, Busy
  <1>3. \A f \in Exec : f # e => ex'[f] = ex[f]
    BY <1>1 DEF Typed, TypeOK
  <1>4. ex'[e].pc = "llen" /\ ex'[e].out = <<>>
    BY <1>1, IdleIsCall DEF Typed, TypeOK, Idle
  <1>5. \A f \in Exec : ex'[f].pc \in {"idle", "llen"}
    BY <1>2, <1>3, <1>4
  <1>6. Batches'
    BY <1>5 DEF Batches, BatchOk
  <1>7. OneByOne'
    <2>1. ASSUME NEW f \in Exec, f # e PROVE OneOk(ex'[f])
      BY <1>3, <2>1 DEF OneByOne, OneOk
    <2>2. OneOk(ex'[e])
      BY <1>4 DEF OneOk
    <2>3. \A f \in Exec : OneOk(ex'[f])
      BY <2>1, <2>2
    <2>. QED  BY <2>3 DEF OneByOne, OneOk
  <1>8. pipe \in Seq(Cmd)
    BY DEF Typed, TypeOK
  <1>9. \A i \in DOMAIN pipe : pipe[i].op # "exec"
    <2>1. ASSUME NEW i \in DOMAIN pipe, pipe[i].op = "exec" PROVE FALSE
      <3>1. pipe[i] \in Cmd
        BY <1>8
      <3>2. pipe[i].ex \in Exec
        BY <2>1, <3>1 DEF Cmd, EnqOps
      <3>3. ex[pipe[i].ex].pc \in RedisPc
        BY <2>1 DEF PipeOrder
      <3>. QED  BY <1>2, <3>2, <3>3 DEF RedisPc
    <2>. QED  BY <2>1
  <1>10. \A i \in DOMAIN pipe' : \/ i \in DOMAIN pipe /\ pipe'[i] = pipe[i]
                                 \/ i = Len(pipe) + 1 /\ pipe'[i] = ExecCmd(e)
    BY <1>1, <1>8
  <1>11. DOMAIN pipe' = 1 .. Len(pipe) + 1 /\ Len(pipe) \in Nat
    BY <1>1, <1>8
  <1>12. PipeOrder'
    <2>1. \A i \in DOMAIN pipe' : pipe'[i].op = "exec" => i = Len(pipe) + 1 /\ pipe'[i].ex = e
      BY <1>9, <1>10 DEF ExecCmd
    <2>2. \A f \in Exec : ~(ex'[f].pc \notin {"idle", "llen"})
      BY <1>5
    <2>. QED  BY <1>4, <1>11, <2>1, <2>2 DEF PipeOrder, Busy, RedisPc
  <1>13. Fenced'
    BY <1>1, <1>10 DEF Fenced, ExecCmd
  <1>. QED  BY <1>6, <1>7, <1>12, <1>13

\* A crash loses the calls and the commands under way, and no mark or payment.
LEMMA CrashSafe ==
  ASSUME Crash
  PROVE  PipeOrder' /\ Batches' /\ OneByOne'
  <1>1. pipe' = <<>> /\ ex' = [e \in Exec |-> Idle]
    BY DEF Crash
  <1>2. \A e \in Exec : ex'[e].pc = "idle" /\ ex'[e].out = <<>>
    BY <1>1 DEF Idle
  <1>3. PipeOrder'
    BY <1>1, <1>2 DEF PipeOrder, Busy
  <1>. QED  BY <1>2, <1>3 DEF Batches, BatchOk, OneByOne, OneOk

\* The service starts with the invariant, ...
LEMMA InitInductive == Init => Inductive
  <1>. SUFFICES ASSUME Init PROVE Inductive
    OBVIOUS
  <1>1. pipe = <<>> /\ sent = [t \in Tx |-> 0] /\ ex = [e \in Exec |-> Idle]
    BY DEF Init
  <1>2. \A e \in Exec : ex[e].pc = "idle" /\ ex[e].out = <<>>
    BY <1>1 DEF Idle
  <1>3. PipeOrder /\ Fenced
    BY <1>1, <1>2 DEF PipeOrder, Fenced, Busy
  <1>4. Batches /\ OneByOne
    BY <1>2 DEF Batches, BatchOk, OneByOne, OneOk
  <1>. QED  BY <1>3, <1>4, InitTyped, InitMutex DEF Inductive

\* ... and every step of a safe configuration keeps it.
LEMMA InductiveStep ==
  ASSUME SafeConfig, Inductive, [Next]_vars
  PROVE  Inductive'
  <1>1. Typed'
    BY EnqueueTyped, RedisTyped, PaidTyped, StutterTyped DEF Next, Inductive
  <1>2. Mutex'
    BY MutexStep DEF Inductive, SafeConfig
  <1>3. CASE QuietStep
    BY <1>1, <1>2, <1>3, QuietSafe DEF Inductive
  <1>4. CASE Crash
    <2>1. pipe' = <<>> /\ UNCHANGED <<consumed, sent>>
      BY <1>4 DEF Crash
    <2>2. Fenced'
      BY <2>1 DEF Inductive, Fenced
    <2>. QED  BY <1>1, <1>2, <1>4, <2>2, CrashSafe DEF Inductive
  <1>5. ASSUME NEW e \in Exec, Tick(e) PROVE Inductive'
    BY <1>1, <1>2, <1>5, TickSafe DEF Inductive
  <1>6. ASSUME NEW e \in Exec, RedisStep(e) PROVE Inductive'
    BY <1>1, <1>2, <1>6, RedisSafe DEF Inductive
  <1>7. ASSUME NEW e \in Exec, PaidStep(e) PROVE Inductive'
    BY <1>1, <1>2, <1>7, PaidSafe DEF Inductive
  <1>. QED  BY <1>3, <1>4, <1>5, <1>6, <1>7 DEF Next, QuietStep

-----------------------------------------------------------------------------
(* The theorems.                                                            *)

\* In the safe configurations the invariant the theorems below rest on holds.
THEOREM Invariant == ASSUME SafeConfig PROVE Spec => []Inductive
  <1>1. Inductive /\ [Next]_vars => Inductive'
    BY InductiveStep
  <1>. QED  BY InitInductive, <1>1, PTL DEF Spec

\* In the safe configurations no source transaction is paid twice, whatever
\* crashes, lost commits, repeated deliveries, failures and retries happen, ...
THEOREM PaidOnce == ASSUME SafeConfig PROVE Spec => []AtMostOnePayment
  <1>1. Inductive => AtMostOnePayment
    <2>1. Inductive => \A t \in Tx : sent[t] \in Nat /\ (sent[t] > 0 => sent[t] = 1)
      BY DEF Inductive, Typed, TypeOK, Fenced
    <2>2. \A n \in Nat : (n > 0 => n = 1) => n <= 1
      OBVIOUS
    <2>. QED  BY <2>1, <2>2 DEF AtMostOnePayment
  <1>2. Inductive /\ [Next]_vars => Inductive'
    BY InductiveStep
  <1>. QED  BY InitInductive, <1>1, <1>2, PTL DEF Spec

\* ... a payment that no row records keeps its transaction fenced, ...
THEOREM Fencing == ASSUME SafeConfig PROVE Spec => []UnbookedIsFenced
  <1>1. Inductive => UnbookedIsFenced
    BY DEF Inductive, Fenced, UnbookedIsFenced
  <1>2. Inductive /\ [Next]_vars => Inductive'
    BY InductiveStep
  <1>. QED  BY InitInductive, <1>1, <1>2, PTL DEF Spec

\* ... and no retry takes the mark off a transaction that was paid.
THEOREM MarksStay == ASSUME SafeConfig PROVE Spec => PaidKeepsMark
  <1>. DEFINE Stays == \A t \in consumed : sent[t] > 0 => t \in consumed'
  <1>1. ASSUME Inductive, [Next]_vars PROVE Stays
    <2>1. CASE Unconsume
      <3>1. pipe # <<>> /\ 1 \in DOMAIN pipe /\ Head(pipe) = pipe[1] /\ pipe[1].op = "unconsume"
        BY <1>1, <2>1 DEF Unconsume, Front1, Inductive, Typed, TypeOK
      <3>2. consumed' = consumed \ ToSet(pipe[1].txs)
        BY <2>1, <3>1 DEF Unconsume
      <3>3. \A t \in ToSet(pipe[1].txs) : sent[t] = 0
        BY <1>1, <3>1 DEF Inductive, Fenced
      <3>. QED  BY <3>2, <3>3
    <2>2. CASE ~Unconsume
      <3>1. consumed \subseteq consumed'
        BY <1>1, <2>2 DEF Next, EnqueueStep, Sismember, Lpush, Sadd, SetData, PollSelect, PollEnqueue,
           IntervalElapses, Crash, Deliver, Settle, Tick, RedisStep, PaidStep, LlenReturn, LlenProceed,
           Lrange, Lrem, Srem, Filter, GetData, DelData, Recheck, Mark, Dispatch, CheckPasses,
           CheckRefuses, Group, Refused, ReadRow, ReadMismatch, SaveReady, Claim, SendOk,
           SendConfirmFail, SendUnknown, Commit, CommitFails, vars, redis
      <3>. QED  BY <3>1
    <2>. QED  BY <2>1, <2>2
  <1>2. Inductive /\ [Next]_vars => Inductive'
    BY InductiveStep
  <1>3. Inductive /\ [Next]_vars => [Stays]_vars
    BY <1>1
  <1>. QED  BY InitInductive, <1>2, <1>3, PTL DEF Spec, PaidKeepsMark

-----------------------------------------------------------------------------
(* What is in the member set is in the list.                                *)

\* The call has taken t out of the list and will take it out of the set.
Dequeues(call, t) == call.pc = "srem" /\ Head(call.todo) = t

\* A call has at most one command under way, and none while it is outside Redis.
OneCommand ==
  \A i \in DOMAIN pipe : pipe[i].op = "exec" =>
    /\ ex[pipe[i].ex].pc \in RedisPc
    /\ \A j \in DOMAIN pipe : pipe[j].op = "exec" /\ pipe[j].ex = pipe[i].ex => j = i

\* A hash on its way into the set is in the list, or the SREM of the call that
\* took it out is behind its SADD.
AddedIsQueued ==
  \A i \in DOMAIN pipe : pipe[i].op = "sadd" =>
    \/ pipe[i].tx \in ToSet(list)
    \/ \E j \in DOMAIN pipe : i < j /\ pipe[j].op = "exec" /\ Dequeues(ex[pipe[j].ex], pipe[i].tx)

\* The inductive invariant behind MemberIsQueued, which a crash between the two
\* commands of a dequeue ends.
QueueInv == OneCommand /\ (crashes = 0 => AddedIsQueued /\ MemberIsQueued)

\* pipe' drops the first d commands of pipe and adds the commands new.
Shifts(d, new) ==
  /\ \A k \in DOMAIN pipe : k > d => k - d \in DOMAIN pipe' /\ pipe'[k - d] = pipe[k]
  /\ \A i \in DOMAIN pipe' : \/ i + d \in DOMAIN pipe /\ pipe'[i] = pipe[i + d]
                             \/ \E k \in DOMAIN new : i + d = Len(pipe) + k /\ pipe'[i] = new[k]
  /\ \A k \in DOMAIN new : Len(pipe) + k - d \in DOMAIN pipe' /\ pipe'[Len(pipe) + k - d] = new[k]

\* Commands are added behind those that stay, q, ...
LEMMA MoveBehind ==
  ASSUME NEW new \in Seq(Cmd), NEW q \in Seq(Cmd), NEW d \in {0, 1}, pipe \in Seq(Cmd), pipe' = q \o new,
         Len(q) = Len(pipe) - d, \A i \in DOMAIN q : q[i] = pipe[i + d]
  PROVE  Shifts(d, new)
  <1>1. /\ Len(pipe) \in Nat /\ DOMAIN pipe = 1 .. Len(pipe) /\ Len(q) \in Nat /\ Len(pipe) = Len(q) + d
        /\ DOMAIN q = 1 .. Len(q) /\ DOMAIN new = 1 .. Len(new) /\ Len(new) \in Nat
        /\ DOMAIN pipe' = 1 .. Len(q) + Len(new)
    OBVIOUS
  <1>2. \A i \in DOMAIN q : pipe'[i] = q[i]
    OBVIOUS
  <1>3. \A k \in DOMAIN new : pipe'[Len(q) + k] = new[k]
    OBVIOUS
  <1>4. ASSUME NEW k \in DOMAIN pipe, k > d PROVE k - d \in DOMAIN pipe' /\ pipe'[k - d] = pipe[k]
    <2>1. k - d \in DOMAIN q /\ (k - d) + d = k
      BY <1>1, <1>4
    <2>. QED  BY <1>1, <1>2, <2>1
  <1>5. ASSUME NEW i \in DOMAIN pipe'
        PROVE  \/ i + d \in DOMAIN pipe /\ pipe'[i] = pipe[i + d]
               \/ \E k \in DOMAIN new : i + d = Len(pipe) + k /\ pipe'[i] = new[k]
    <2>1. CASE i \in DOMAIN q
      BY <1>1, <1>2, <2>1
    <2>2. CASE i \notin DOMAIN q
      <3>1. i - Len(q) \in DOMAIN new /\ i + d = Len(pipe) + (i - Len(q)) /\ Len(q) + (i - Len(q)) = i
        BY <1>1, <2>2
      <3>. QED  BY <1>3, <3>1
    <2>. QED  BY <2>1, <2>2
  <1>6. ASSUME NEW k \in DOMAIN new
        PROVE  Len(pipe) + k - d \in DOMAIN pipe' /\ pipe'[Len(pipe) + k - d] = new[k]
    <2>1. Len(pipe) + k - d = Len(q) + k /\ Len(q) + k \in DOMAIN pipe'
      BY <1>1
    <2>. QED  BY <1>3, <2>1
  <1>. QED  BY <1>4, <1>5, <1>6 DEF Shifts

\* ... be it all that were under way, ...
LEMMA MoveAppend ==
  ASSUME NEW new \in Seq(Cmd), pipe \in Seq(Cmd), pipe' = pipe \o new
  PROVE  Shifts(0, new)
  <1>1. Len(pipe) = Len(pipe) - 0 /\ \A i \in DOMAIN pipe : pipe[i] = pipe[i + 0]
    OBVIOUS
  <1>. QED  BY <1>1, MoveBehind

\* ... or all but the one that Redis runs.
LEMMA MoveTail ==
  ASSUME NEW new \in Seq(Cmd), pipe \in Seq(Cmd), pipe # <<>>, pipe' = Tail(pipe) \o new
  PROVE  Shifts(1, new)
  <1>1. /\ Tail(pipe) \in Seq(Cmd) /\ Len(Tail(pipe)) = Len(pipe) - 1
        /\ \A i \in DOMAIN Tail(pipe) : Tail(pipe)[i] = pipe[i + 1]
    OBVIOUS
  <1>. QED  BY <1>1, MoveBehind

\* A step of call e, or of none (e = NoExec): the commands it may drop and add.
Sends(e, d, new) ==
  /\ d \in {0, 1} /\ new \in Seq(Cmd) /\ Shifts(d, new)
  /\ \A f \in Exec : f # e => ex'[f] = ex[f]
  /\ \A k \in DOMAIN pipe : k > d /\ pipe[k].op = "exec" => pipe[k].ex # e
  /\ \A k \in DOMAIN new : new[k].op = "exec" => new = <<ExecCmd(e)>> /\ ex'[e].pc \in RedisPc

\* Such a step gives no call a second command, ...
LEMMA CommandStep ==
  ASSUME Typed, OneCommand, NEW e \in Exec \cup {NoExec}, NEW d, NEW new, Sends(e, d, new),
         pipe' \in Seq(Cmd)
  PROVE  OneCommand'
  <1>. DEFINE Kept(i) == i + d \in DOMAIN pipe /\ pipe'[i] = pipe[i + d]
  <1>0. /\ d \in {0, 1} /\ pipe \in Seq(Cmd) /\ Shifts(d, new) /\ new \in Seq(Cmd)
        /\ \A i \in DOMAIN pipe : pipe[i] \in Cmd
        /\ \A i \in DOMAIN pipe' : i \in Nat /\ i > 0
    BY DEF Sends, Typed, TypeOK
  <1>1. ASSUME NEW i \in DOMAIN pipe', pipe'[i].op = "exec", ~Kept(i)
        PROVE  i = Len(pipe) + 1 - d /\ pipe'[i].ex = e /\ ex'[e].pc \in RedisPc
    <2>1. PICK k \in DOMAIN new : i + d = Len(pipe) + k /\ pipe'[i] = new[k]
      BY <1>0, <1>1 DEF Shifts
    <2>2. new = <<ExecCmd(e)>> /\ ex'[e].pc \in RedisPc
      BY <1>1, <2>1 DEF Sends
    <2>3. k = 1 /\ new[1].ex = e
      BY <2>1, <2>2 DEF ExecCmd
    <2>4. i \in Nat /\ Len(pipe) \in Nat
      BY <1>0
    <2>. QED  BY <1>0, <2>1, <2>2, <2>3, <2>4
  <1>2. ASSUME NEW i \in DOMAIN pipe', pipe'[i].op = "exec", Kept(i)
        PROVE  pipe'[i].ex # e /\ pipe'[i].ex \in Exec /\ ex'[pipe'[i].ex].pc \in RedisPc
    <2>1. i + d > d /\ i + d \in DOMAIN pipe /\ pipe[i + d].op = "exec" /\ pipe'[i] = pipe[i + d]
      BY <1>0, <1>2
    <2>2. pipe[i + d].ex \in Exec
      BY <1>0, <2>1 DEF Cmd, EnqOps
    <2>3. pipe[i + d].ex # e /\ ex'[pipe[i + d].ex] = ex[pipe[i + d].ex]
      BY <2>1, <2>2 DEF Sends
    <2>. QED  BY <2>1, <2>2, <2>3 DEF OneCommand
  <1>3. ASSUME NEW i \in DOMAIN pipe', pipe'[i].op = "exec",
               NEW j \in DOMAIN pipe', pipe'[j].op = "exec", pipe'[j].ex = pipe'[i].ex
        PROVE  j = i
    <2>1. CASE Kept(i) /\ Kept(j)
      <3>1. j + d = i + d
        BY <1>3, <2>1 DEF OneCommand
      <3>. QED  BY <1>0, <3>1
    <2>2. CASE ~Kept(i) /\ ~Kept(j)
      BY <1>1, <1>3, <2>2
    <2>3. CASE Kept(i) /\ ~Kept(j)
      BY <1>1, <1>2, <1>3, <2>3
    <2>4. CASE ~Kept(i) /\ Kept(j)
      BY <1>1, <1>2, <1>3, <2>4
    <2>. QED  BY <2>1, <2>2, <2>3, <2>4
  <1>. QED  BY <1>1, <1>2, <1>3 DEF OneCommand

\* ... and what it does to the list and the member set.
Queues(e, new) ==
  /\ \A k \in DOMAIN new : new[k].op = "sadd" => new[k].tx \in ToSet(list')
  /\ \A t \in ToSet(list) : t \in ToSet(list') \/ (e \in Exec /\ new = <<ExecCmd(e)>> /\ Dequeues(ex'[e], t))
  /\ \A t \in Tx : e \in Exec /\ Dequeues(ex[e], t) => t \notin members'
  /\ \A t \in members' : t \in members \/ (pipe # <<>> /\ pipe[1].op = "sadd" /\ pipe[1].tx = t)

\* Such a step keeps what is in the set, or on its way into it, in the list.
LEMMA QueuedStep ==
  ASSUME Typed, AddedIsQueued, MemberIsQueued, pipe' \in Seq(Cmd), members' \subseteq Tx,
         NEW e \in Exec \cup {NoExec}, NEW d, NEW new, Sends(e, d, new), Queues(e, new)
  PROVE  AddedIsQueued' /\ MemberIsQueued'
  <1>0. /\ d \in {0, 1} /\ pipe \in Seq(Cmd) /\ Shifts(d, new) /\ new \in Seq(Cmd)
        /\ \A i \in DOMAIN pipe : pipe[i] \in Cmd /\ i \in Nat /\ i > 0 /\ i <= Len(pipe)
        /\ \A i \in DOMAIN pipe' : i \in Nat /\ i > 0
        /\ Len(pipe) \in Nat /\ members \subseteq Tx
    BY DEF Sends, Typed, TypeOK
  <1>1. ASSUME NEW f \in Exec, f # e, NEW t, Dequeues(ex[f], t) PROVE Dequeues(ex'[f], t)
    BY <1>1 DEF Sends, Dequeues
  <1>2. ASSUME NEW t \in ToSet(list), t \notin ToSet(list')
        PROVE  /\ e \in Exec /\ Dequeues(ex'[e], t) /\ new = <<ExecCmd(e)>>
               /\ \E j \in DOMAIN pipe' : j = Len(pipe) + 1 - d /\ pipe'[j].op = "exec" /\ pipe'[j].ex = e
    <2>1. e \in Exec /\ new = <<ExecCmd(e)>> /\ Dequeues(ex'[e], t)
      BY <1>2 DEF Queues
    <2>2. 1 \in DOMAIN new /\ new[1].op = "exec" /\ new[1].ex = e
      BY <2>1 DEF ExecCmd
    <2>3. Len(pipe) + 1 - d \in DOMAIN pipe' /\ pipe'[Len(pipe) + 1 - d] = new[1]
      BY <1>0, <2>2 DEF Shifts
    <2>. QED  BY <2>1, <2>2, <2>3
  \* A command of another call behind the first keeps its place.
  <1>3. ASSUME NEW j \in DOMAIN pipe, j > d, pipe[j].op = "exec", NEW t, Dequeues(ex[pipe[j].ex], t)
        PROVE  /\ pipe[j].ex \in Exec /\ Dequeues(ex'[pipe[j].ex], t)
               /\ j - d \in DOMAIN pipe' /\ pipe'[j - d] = pipe[j]
    <2>1. pipe[j].ex \in Exec
      BY <1>0, <1>3 DEF Cmd, EnqOps
    <2>2. pipe[j].ex # e
      BY <1>3 DEF Sends
    <2>. QED  BY <1>0, <1>1, <1>3, <2>1, <2>2 DEF Shifts
  <1>4. AddedIsQueued'
    <2>. SUFFICES ASSUME NEW i \in DOMAIN pipe', pipe'[i].op = "sadd"
                  PROVE  \/ pipe'[i].tx \in ToSet(list')
                         \/ \E j \in DOMAIN pipe' : i < j /\ pipe'[j].op = "exec" /\ Dequeues(ex'[pipe'[j].ex], pipe'[i].tx)
      BY DEF AddedIsQueued, Dequeues
    <2>1. CASE i + d \in DOMAIN pipe /\ pipe'[i] = pipe[i + d]
      <3>. DEFINE t == pipe[i + d].tx
      <3>1. CASE t \in ToSet(list)
        <4>1. CASE t \notin ToSet(list')
          <5>1. PICK j \in DOMAIN pipe' : j = Len(pipe) + 1 - d /\ pipe'[j].op = "exec" /\ pipe'[j].ex = e
            BY <1>2, <3>1, <4>1
          <5>2. i < j
            <6>1. i + d <= Len(pipe) /\ i \in Nat
              BY <1>0, <2>1
            <6>. QED  BY <1>0, <5>1, <6>1
          <5>. QED  BY <1>2, <2>1, <3>1, <4>1, <5>1, <5>2
        <4>. QED  BY <2>1, <4>1
      <3>2. CASE t \notin ToSet(list)
        <4>1. PICK j \in DOMAIN pipe : i + d < j /\ pipe[j].op = "exec" /\ Dequeues(ex[pipe[j].ex], t)
          BY <2>1, <3>2 DEF AddedIsQueued
        <4>2. j > d /\ i < j - d
          BY <1>0, <4>1
        <4>3. Dequeues(ex'[pipe[j].ex], t) /\ j - d \in DOMAIN pipe' /\ pipe'[j - d] = pipe[j]
          BY <1>3, <4>1, <4>2
        <4>. QED  BY <2>1, <4>1, <4>2, <4>3
      <3>. QED  BY <3>1, <3>2
    <2>2. CASE \E k \in DOMAIN new : pipe'[i] = new[k]
      BY <2>2 DEF Queues
    <2>. QED  BY <1>0, <2>1, <2>2 DEF Shifts
  <1>5. MemberIsQueued'
    <2>. SUFFICES ASSUME NEW t \in members', t \notin ToSet(list')
                  PROVE  \E f \in Exec : Dequeues(ex'[f], t)
      BY DEF MemberIsQueued, Dequeues
    <2>1. CASE t \in ToSet(list)
      BY <1>2, <2>1
    <2>2. CASE t \notin ToSet(list) /\ t \in members
      <3>1. PICK f \in Exec : Dequeues(ex[f], t)
        BY <2>2 DEF MemberIsQueued, Dequeues
      <3>2. f # e
        BY <3>1, <1>0, <2>2 DEF Queues
      <3>. QED  BY <1>1, <3>1, <3>2
    <2>3. CASE t \notin ToSet(list) /\ t \notin members
      <3>1. pipe # <<>> /\ pipe[1].op = "sadd" /\ pipe[1].tx = t
        BY <2>3 DEF Queues
      <3>2. 1 \in DOMAIN pipe
        BY <1>0, <3>1
      <3>3. PICK j \in DOMAIN pipe : 1 < j /\ pipe[j].op = "exec" /\ Dequeues(ex[pipe[j].ex], t)
        BY <2>3, <3>1, <3>2 DEF AddedIsQueued
      <3>4. j > d
        BY <1>0, <3>3
      <3>. QED  BY <1>3, <3>3, <3>4
    <2>. QED  BY <2>1, <2>2, <2>3
  <1>. QED  BY <1>4, <1>5

\* Adding a command is adding a sequence of one.
LEMMA OneCmd ==
  ASSUME NEW c \in Cmd, NEW p \in Seq(Cmd)
  PROVE  <<c>> \in Seq(Cmd) /\ <<>> \in Seq(Cmd) /\ Append(p, c) = p \o <<c>> /\ p \o <<>> = p
  OBVIOUS

\* The step of a call whose command Redis runs, ...
LEMMA TurnSends ==
  ASSUME Typed, OneCommand, NEW e \in Exec, NEW r, Front1("exec"), Head(pipe).ex = e,
         ex' = [ex EXCEPT ![e] = r], NEW new,
         \/ new = <<>> /\ pipe' = Tail(pipe)
         \/ new = <<ExecCmd(e)>> /\ pipe' = Append(Tail(pipe), ExecCmd(e)) /\ r.pc \in RedisPc
  PROVE  Sends(e, 1, new)
  <1>1. /\ pipe \in Seq(Cmd) /\ pipe # <<>> /\ Tail(pipe) \in Seq(Cmd) /\ 1 \in DOMAIN pipe
        /\ pipe[1].op = "exec" /\ pipe[1].ex = e
    BY DEF Front1, Typed, TypeOK
  <1>2. pipe' = Tail(pipe) \o new /\ new \in Seq(Cmd)
    BY <1>1, ExecCmdType, OneCmd
  <1>3. Shifts(1, new)
    BY <1>1, <1>2, MoveTail
  <1>4. \A k \in DOMAIN pipe : k > 1 /\ pipe[k].op = "exec" => pipe[k].ex # e
    BY <1>1 DEF OneCommand
  <1>5. ex'[e] = r /\ \A f \in Exec : f # e => ex'[f] = ex[f]
    BY DEF Typed, TypeOK
  <1>6. \A k \in DOMAIN new : new[k].op = "exec" => new = <<ExecCmd(e)>> /\ ex'[e].pc \in RedisPc
    BY <1>5
  <1>. QED  BY <1>2, <1>3, <1>4, <1>5, <1>6 DEF Sends

\* ... and that of a call outside Redis.
LEMMA LocalSends ==
  ASSUME Typed, OneCommand, NEW e \in Exec, NEW r, ex[e].pc \notin RedisPc,
         ex' = [ex EXCEPT ![e] = r], NEW new,
         \/ new = <<>> /\ pipe' = pipe
         \/ new = <<UnconsumeCmd(ex[e].recs)>> /\ pipe' = Append(pipe, UnconsumeCmd(ex[e].recs))
         \/ new = <<ExecCmd(e)>> /\ pipe' = Append(pipe, ExecCmd(e)) /\ r.pc \in RedisPc
  PROVE  Sends(e, 0, new)
  <1>1. pipe \in Seq(Cmd) /\ ExecCmd(e) \in Cmd /\ UnconsumeCmd(ex[e].recs) \in Cmd
    BY ExecCmdType, UnconsumeCmdType DEF Typed, TypeOK, Call
  <1>2. pipe' = pipe \o new /\ new \in Seq(Cmd)
    BY <1>1, OneCmd
  <1>3. Shifts(0, new)
    BY <1>1, <1>2, MoveAppend
  <1>4. \A k \in DOMAIN pipe : pipe[k].op = "exec" => pipe[k].ex # e
    BY DEF OneCommand
  <1>5. ex'[e] = r /\ \A f \in Exec : f # e => ex'[f] = ex[f]
    BY DEF Typed, TypeOK
  <1>6. \A k \in DOMAIN new : new[k].op = "exec" => new = <<ExecCmd(e)>> /\ ex'[e].pc \in RedisPc
    BY <1>5 DEF UnconsumeCmd
  <1>. QED  BY <1>2, <1>3, <1>4, <1>5, <1>6 DEF Sends

\* A call that neither dequeues nor enqueues leaves the queue as it is.
LEMMA CallQueues ==
  ASSUME NEW e \in Exec, ex[e].pc # "srem", UNCHANGED <<list, members>>, NEW new,
         new = <<>> \/ new = <<ExecCmd(e)>> \/ new = <<UnconsumeCmd(ex[e].recs)>>
  PROVE  Queues(e, new)
  BY DEF Queues, Dequeues, ExecCmd, UnconsumeCmd

\* What a step may do to the commands, the list and the member set.
Tidy == \E e \in Exec \cup {NoExec} : \E d, new : Sends(e, d, new) /\ Queues(e, new)

\* A call that goes on in Redis is tidy unless it dequeues, ...
LEMMA ContinueTidy ==
  ASSUME Typed, OneCommand, NEW e \in Exec, NEW r, Front1("exec"), Head(pipe).ex = e,
         ex[e].pc # "srem", UNCHANGED <<list, members>>, Continue(e, r)
  PROVE  Tidy
  <1>1. CASE r.pc \in RedisPc
    BY <1>1, TurnSends, CallQueues DEF Continue, Tidy
  <1>2. CASE r.pc \notin RedisPc
    BY <1>2, TurnSends, CallQueues DEF Continue, Tidy
  <1>. QED  BY <1>1, <1>2

\* ... and so is one that goes on outside Redis, ...
LEMMA ResumeTidy ==
  ASSUME Typed, OneCommand, NEW e \in Exec, NEW r, ex[e].pc \notin RedisPc,
         UNCHANGED <<list, members>>, ex' = [ex EXCEPT ![e] = r],
         pipe' = pipe \/ (pipe' = Append(pipe, ExecCmd(e)) /\ r.pc \in RedisPc)
  PROVE  Tidy
  <1>1. ex[e].pc # "srem"
    BY DEF RedisPc
  <1>2. CASE pipe' = pipe
    BY <1>1, <1>2, LocalSends, CallQueues DEF Tidy
  <1>3. CASE pipe' = Append(pipe, ExecCmd(e)) /\ r.pc \in RedisPc
    BY <1>1, <1>3, LocalSends, CallQueues DEF Tidy
  <1>. QED  BY <1>2, <1>3

\* ... or that ends.
LEMMA FinishTidy ==
  ASSUME Typed, OneCommand, NEW e \in Exec, ex[e].pc \notin RedisPc,
         UNCHANGED <<list, members>>, NEW retry \in BOOLEAN, Finish(e, retry)
  PROVE  Tidy
  <1>1. ex[e].pc # "srem"
    BY DEF RedisPc
  <1>2. CASE ~retry
    BY <1>1, <1>2, LocalSends, CallQueues DEF Finish, Tidy
  <1>3. CASE retry
    BY <1>1, <1>3, LocalSends, CallQueues DEF Finish, Tidy
  <1>. QED  BY <1>2, <1>3

\* What is behind a removed place moves up by one.
LEMMA RemovedPlace ==
  ASSUME NEW s \in Seq(Tx), NEW i \in DOMAIN s, NEW k \in DOMAIN s, k > i
  PROVE  k - 1 \in DOMAIN RemoveAt(s, i) /\ RemoveAt(s, i)[k - 1] = s[k]
  <1>1. /\ i \in 1 .. Len(s) /\ k \in 1 .. Len(s) /\ Len(s) \in Nat
        /\ SubSeq(s, 1, i - 1) \in Seq(Tx) /\ Len(SubSeq(s, 1, i - 1)) = i - 1
    OBVIOUS
  <1>2. SubSeq(s, i + 1, Len(s)) \in Seq(Tx) /\ Len(SubSeq(s, i + 1, Len(s))) = Len(s) - i
    BY <1>1
  <1>3. k - i \in 1 .. Len(s) - i /\ SubSeq(s, i + 1, Len(s))[k - i] = s[k]
    BY <1>1
  <1>4. k - 1 = (i - 1) + (k - i)
    BY <1>1
  <1>5. ASSUME NEW p \in Seq(Tx), NEW q \in Seq(Tx), Len(p) = i - 1, Len(q) = Len(s) - i, q[k - i] = s[k]
        PROVE  k - 1 \in DOMAIN (p \o q) /\ (p \o q)[k - 1] = s[k]
    <2>1. DOMAIN (p \o q) = 1 .. Len(p) + Len(q) /\ \A j \in 1 .. Len(q) : (p \o q)[Len(p) + j] = q[j]
      OBVIOUS
    <2>2. i \in Nat /\ k \in Nat /\ Len(s) \in Nat /\ 1 <= i /\ i < k /\ k <= Len(s)
      BY <1>1
    <2>3. k - i \in 1 .. Len(s) - i /\ k - 1 = (i - 1) + (k - i) /\ k - 1 \in 1 .. (i - 1) + (Len(s) - i)
      BY <2>2
    <2>. QED  BY <1>5, <2>1, <2>3
  <1>. QED  BY <1>1, <1>2, <1>3, <1>5 DEF RemoveAt

\* LREM leaves the SREM of the same hash behind it, ...
LEMMA LremTidy ==
  ASSUME Typed, OneCommand, NEW e \in Exec, Lrem(e)
  PROVE  Tidy
  <1>. DEFINE t == Head(ex[e].todo)
              r == [ex[e] EXCEPT !.pc = "srem"]
  <1>1. /\ Front1("exec") /\ Head(pipe).ex = e /\ ex[e].pc = "lrem" /\ UNCHANGED members
        /\ Continue(e, r) /\ list \in Seq(Tx) /\ ex[e] \in Call
    BY DEF Lrem, Turn, Typed, TypeOK
  <1>2. r.pc = "srem" /\ r.pc \in RedisPc /\ r.todo = ex[e].todo
    BY <1>1 DEF Call, RedisPc
  <1>3. ex' = [ex EXCEPT ![e] = r] /\ pipe' = Append(Tail(pipe), ExecCmd(e)) /\ ex'[e] = r
    BY <1>1, <1>2 DEF Continue, Typed, TypeOK
  <1>4. Sends(e, 1, <<ExecCmd(e)>>)
    BY <1>1, <1>2, <1>3, TurnSends
  <1>5. Dequeues(ex'[e], t)
    BY <1>2, <1>3 DEF Dequeues
  <1>6. ASSUME NEW u \in ToSet(list), u # t PROVE u \in ToSet(list')
    <2>1. PICK k \in DOMAIN list : list[k] = u
      BY <1>6 DEF ToSet
    <2>2. CASE UNCHANGED list
      BY <1>6, <2>2
    <2>3. CASE ~UNCHANGED list
      <3>1. PICK i \in DOMAIN list : list[i] = t /\ list' = RemoveAt(list, i)
        BY <2>3 DEF Lrem
      <3>2. CASE k < i
        <4>1. k \in DOMAIN list' /\ list'[k] = u
          BY <1>1, <2>1, <3>1, <3>2 DEF RemoveAt
        <4>. QED  BY <4>1 DEF ToSet
      <3>3. CASE k > i
        <4>1. k - 1 \in DOMAIN list' /\ list'[k - 1] = u
          BY <1>1, <2>1, <3>1, <3>3, RemovedPlace
        <4>. QED  BY <4>1 DEF ToSet
      <3>4. k # i /\ k \in Nat /\ i \in Nat
        BY <1>1, <1>6, <2>1, <3>1
      <3>. QED  BY <3>2, <3>3, <3>4
    <2>. QED  BY <2>2, <2>3
  <1>7. Queues(e, <<ExecCmd(e)>>)
    <2>1. \A u \in ToSet(list) : u \in ToSet(list') \/ Dequeues(ex'[e], u)
      BY <1>5, <1>6
    <2>. QED  BY <1>1, <2>1 DEF Queues, ExecCmd, Dequeues
  <1>. QED  BY <1>4, <1>7 DEF Tidy

\* ... and SREM takes that hash out of the set.
LEMMA SremTidy ==
  ASSUME Typed, OneCommand, NEW e \in Exec, Srem(e)
  PROVE  Tidy
  <1>1. PICK r : Continue(e, r)
    BY DEF Srem
  <1>2. /\ Front1("exec") /\ Head(pipe).ex = e /\ UNCHANGED list
        /\ members' = members \ {Head(ex[e].todo)}
    BY DEF Srem, Turn
  <1>3. PICK new \in {<<>>, <<ExecCmd(e)>>} : Sends(e, 1, new)
    <2>1. CASE r.pc \in RedisPc
      BY <1>1, <1>2, <2>1, TurnSends DEF Continue
    <2>2. CASE r.pc \notin RedisPc
      BY <1>1, <1>2, <2>2, TurnSends DEF Continue
    <2>. QED  BY <2>1, <2>2
  <1>4. Queues(e, new)
    BY <1>2 DEF Queues, Dequeues, ExecCmd
  <1>. QED  BY <1>3, <1>4 DEF Tidy

\* A step that only adds the commands new, or runs the first and adds them.
LEMMA QuietTidy ==
  ASSUME Typed, UNCHANGED ex, NEW new \in Seq(Cmd), \A k \in DOMAIN new : new[k].op # "exec",
         pipe' = pipe \o new \/ (pipe # <<>> /\ pipe' = Tail(pipe) \o new),
         Queues(NoExec, new)
  PROVE  Tidy
  <1>1. pipe \in Seq(Cmd) /\ \A k \in DOMAIN pipe : pipe[k] \in Cmd
    BY DEF Typed, TypeOK
  <1>2. PICK d \in {0, 1} : Shifts(d, new)
    BY <1>1, MoveAppend, MoveTail
  <1>3. \A k \in DOMAIN pipe : pipe[k].op = "exec" => pipe[k].ex # NoExec
    <2>1. \A k \in DOMAIN pipe : pipe[k].op = "exec" => pipe[k].ex \in Exec
      BY <1>1 DEF Cmd, EnqOps
    <2>. QED  BY <2>1, ConfigAssumption
  <1>4. Sends(NoExec, d, new)
    BY <1>2, <1>3 DEF Sends
  <1>. QED  BY <1>4 DEF Tidy

\* Enqueueing is tidy: SADD follows the LPUSH of its hash.
LEMMA EnqueueTidy ==
  ASSUME Typed, QuietStep
  PROVE  Tidy
  <1>1. pipe \in Seq(Cmd) /\ <<>> \in Seq(Cmd) /\ list \in Seq(Tx) /\ NoExec \notin Exec
    BY ConfigAssumption DEF Typed, TypeOK
  <1>2. ASSUME NEW op \in EnqOps, Front1(op)
        PROVE  /\ pipe # <<>> /\ Head(pipe) = pipe[1] /\ Head(pipe).tx \in Tx
               /\ Tail(pipe) \in Seq(Cmd)
    BY <1>1, <1>2, PipeTail DEF Front1, Cmd, EnqOps, Typed
  <1>3. ASSUME UNCHANGED <<ex, list, members>>, NEW new \in Seq(Cmd),
               \A k \in DOMAIN new : new[k].op \notin {"exec", "sadd"},
               pipe' = pipe \o new \/ (pipe # <<>> /\ pipe' = Tail(pipe) \o new)
        PROVE  Tidy
    <2>1. Queues(NoExec, new)
      BY <1>1, <1>3 DEF Queues
    <2>. QED  BY <1>3, <2>1, QuietTidy
  <1>4. CASE Sismember
    <2>1. pipe # <<>> /\ Head(pipe).tx \in Tx /\ Tail(pipe) \in Seq(Cmd)
      BY <1>2, <1>4 DEF Sismember, EnqOps
    <2>2. EnqCmd("lpush", Head(pipe).tx) \in Cmd
      BY <2>1, EnqCmdType DEF EnqOps
    <2>3. PICK new \in {<<>>, <<EnqCmd("lpush", Head(pipe).tx)>>} : pipe' = Tail(pipe) \o new /\ new \in Seq(Cmd)
      BY <1>4, <2>1, <2>2, OneCmd DEF Sismember
    <2>4. \A k \in DOMAIN new : new[k].op \notin {"exec", "sadd"}
      BY <2>3 DEF EnqCmd
    <2>5. UNCHANGED <<ex, list, members>>
      BY <1>4 DEF Sismember
    <2>. QED  BY <1>3, <2>1, <2>3, <2>4, <2>5
  <1>5. CASE Lpush
    <2>. DEFINE t == Head(pipe).tx
                new == <<EnqCmd("sadd", t)>>
    <2>1. pipe # <<>> /\ t \in Tx /\ Tail(pipe) \in Seq(Cmd)
      BY <1>2, <1>5 DEF Lpush, EnqOps
    <2>2. EnqCmd("sadd", t) \in Cmd
      BY <2>1, EnqCmdType DEF EnqOps
    <2>3. new \in Seq(Cmd) /\ pipe' = Tail(pipe) \o new
      BY <1>5, <2>1, <2>2, OneCmd DEF Lpush
    <2>4. UNCHANGED <<ex, members>> /\ list' = <<t>> \o list
      BY <1>5 DEF Lpush
    <2>5. t \in ToSet(list') /\ ToSet(list) \subseteq ToSet(list')
      <3>1. /\ 1 \in DOMAIN list' /\ list'[1] = t
            /\ \A i \in DOMAIN list : i + 1 \in DOMAIN list' /\ list'[i + 1] = list[i]
        BY <1>1, <2>1, <2>4
      <3>. QED  BY <3>1 DEF ToSet
    <2>6. Queues(NoExec, new)
      BY <1>1, <2>4, <2>5 DEF Queues, EnqCmd
    <2>7. \A k \in DOMAIN new : new[k].op # "exec"
      BY DEF EnqCmd
    <2>. QED  BY <2>1, <2>3, <2>4, <2>6, <2>7, QuietTidy
  <1>6. CASE Sadd
    <2>. DEFINE t == Head(pipe).tx
                new == <<EnqCmd("set", t)>>
    <2>1. pipe # <<>> /\ t \in Tx /\ Tail(pipe) \in Seq(Cmd) /\ Head(pipe) = pipe[1] /\ pipe[1].op = "sadd"
      BY <1>2, <1>6 DEF Sadd, EnqOps, Front1
    <2>2. EnqCmd("set", t) \in Cmd
      BY <2>1, EnqCmdType DEF EnqOps
    <2>3. new \in Seq(Cmd) /\ pipe' = Tail(pipe) \o new
      BY <1>6, <2>1, <2>2, OneCmd DEF Sadd
    <2>4. UNCHANGED <<ex, list>> /\ members' = members \cup {t}
      BY <1>6 DEF Sadd
    <2>5. Queues(NoExec, new)
      BY <1>1, <2>1, <2>4 DEF Queues, EnqCmd
    <2>6. \A k \in DOMAIN new : new[k].op # "exec"
      BY DEF EnqCmd
    <2>. QED  BY <2>1, <2>3, <2>4, <2>5, <2>6, QuietTidy
  <1>7. CASE SetData
    <2>1. pipe # <<>> /\ Tail(pipe) \in Seq(Cmd) /\ UNCHANGED <<ex, list, members>> /\ pipe' = Tail(pipe)
      BY <1>2, <1>7 DEF SetData, EnqOps
    <2>2. PICK new \in {<<>>} : pipe' = Tail(pipe) \o new
      BY <2>1
    <2>3. new \in Seq(Cmd) /\ \A k \in DOMAIN new : new[k].op \notin {"exec", "sadd"}
      BY <1>1, <2>2
    <2>. QED  BY <1>3, <2>1, <2>2, <2>3
  <1>8. ASSUME NEW s \in Seq(Tx)
        PROVE  Enqueues(s) \in Seq(Cmd) /\ \A k \in DOMAIN Enqueues(s) : Enqueues(s)[k].op \notin {"exec", "sadd"}
    BY EnqueuesType DEF Enqueues, EnqCmd
  <1>9. CASE Unconsume
    <2>1. pipe # <<>> /\ Head(pipe).txs \in Seq(Tx)
      BY <1>9, PipeTail DEF Unconsume, Front1, Cmd, EnqOps, Typed
    <2>2. pipe' = Tail(pipe) \o Enqueues(Head(pipe).txs) /\ UNCHANGED <<ex, list, members>>
      BY <1>9 DEF Unconsume
    <2>. QED  BY <1>3, <1>8, <2>1, <2>2
  <1>10. CASE PollEnqueue
    <2>1. PICK s \in SetToSeqs(polled) : pipe' = pipe \o Enqueues(s)
      BY <1>10 DEF PollEnqueue
    <2>2. s \in Seq(Tx) /\ UNCHANGED <<ex, list, members>>
      BY <1>10, PollType DEF Typed, TypeOK, PollEnqueue
    <2>. QED  BY <1>3, <1>8, <2>1, <2>2
  <1>11. ASSUME NEW t \in Tx, Deliver(t) PROVE Tidy
    <2>1. EnqCmd("sismember", t) \in Cmd
      BY EnqCmdType DEF EnqOps
    <2>2. <<EnqCmd("sismember", t)>> \in Seq(Cmd) /\ pipe' = pipe \o <<EnqCmd("sismember", t)>>
      BY <1>1, <1>11, <2>1, OneCmd DEF Deliver
    <2>3. UNCHANGED <<ex, list, members>>
      BY <1>11 DEF Deliver
    <2>4. \A k \in DOMAIN <<EnqCmd("sismember", t)>> :
            <<EnqCmd("sismember", t)>>[k].op \notin {"exec", "sadd"}
      BY DEF EnqCmd
    <2>. QED  BY <1>3, <2>2, <2>3, <2>4
  <1>12. CASE PollSelect \/ IntervalElapses \/ (\E t \in Tx : Settle(t)) \/ UNCHANGED vars
    <2>1. UNCHANGED <<pipe, ex, list, members>>
      BY <1>12 DEF PollSelect, IntervalElapses, Settle, vars, redis, db, env
    <2>2. PICK new \in {<<>>} : pipe' = pipe \o new
      BY <1>1, <2>1
    <2>3. new \in Seq(Cmd) /\ \A k \in DOMAIN new : new[k].op \notin {"exec", "sadd"}
      BY <1>1, <2>2
    <2>. QED  BY <1>3, <2>1, <2>2, <2>3
  <1>. QED  BY <1>4, <1>5, <1>6, <1>7, <1>9, <1>10, <1>11, <1>12 DEF QuietStep, EnqueueStep

\* The steps of a call are tidy.
LEMMA CallTidy ==
  ASSUME Typed, OneCommand, NEW e \in Exec, Tick(e) \/ RedisStep(e) \/ PaidStep(e)
  PROVE  Tidy
  <1>0. ex[e] \in Call
    BY DEF Typed, TypeOK
  <1>1. CASE Tick(e)
    <2>1. /\ ex[e].pc \notin RedisPc /\ UNCHANGED <<list, members>>
          /\ ex' = [ex EXCEPT ![e] = [ex[e] EXCEPT !.pc = "llen"]]
          /\ pipe' = Append(pipe, ExecCmd(e))
      BY <1>1 DEF Tick, Idle, RedisPc
    <2>2. [ex[e] EXCEPT !.pc = "llen"].pc \in RedisPc
      BY <1>0 DEF Call, RedisPc
    <2>. QED  BY <2>1, <2>2, ResumeTidy
  <1>2. CASE LlenReturn(e)
    <2>1. /\ Front1("exec") /\ Head(pipe).ex = e /\ ex[e].pc # "srem" /\ UNCHANGED <<list, members>>
          /\ Continue(e, Idle)
      BY <1>2 DEF LlenReturn, Turn, Continue, Idle, RedisPc
    <2>. QED  BY <2>1, ContinueTidy
  <1>3. CASE LlenProceed(e)
    <2>1. PICK n : ex' = [ex EXCEPT ![e] = [ex[e] EXCEPT !.pc = "lrange", !.count = n]]
      BY <1>3 DEF LlenProceed
    <2>2. [ex[e] EXCEPT !.pc = "lrange", !.count = n].pc = "lrange"
      BY <1>0 DEF Call
    <2>3. /\ Front1("exec") /\ Head(pipe).ex = e /\ ex[e].pc # "srem" /\ UNCHANGED <<list, members>>
          /\ pipe' = Append(Tail(pipe), ExecCmd(e)) /\ locked' = TRUE
      BY <1>3 DEF LlenProceed, Turn
    <2>4. Sends(e, 1, <<ExecCmd(e)>>)
      BY <2>1, <2>2, <2>3, TurnSends DEF RedisPc
    <2>. QED  BY <2>3, <2>4, CallQueues DEF Tidy
  <1>4. CASE Lrange(e) \/ Filter(e) \/ GetData(e) \/ DelData(e) \/ Recheck(e) \/ Mark(e)
    <2>1. /\ Front1("exec") /\ Head(pipe).ex = e /\ ex[e].pc # "srem" /\ UNCHANGED <<list, members>>
          /\ \E r : Continue(e, r)
      BY <1>4 DEF Lrange, Filter, GetData, DelData, Recheck, Mark, Turn
    <2>. QED  BY <2>1, ContinueTidy
  <1>5. CASE Lrem(e) \/ Srem(e)
    BY <1>5, LremTidy, SremTidy
  <1>6. CASE Dispatch(e)
    <2>1. PICK next \in {"group", "recheck"} :
            /\ ex' = [ex EXCEPT ![e] = [ex[e] EXCEPT !.pc = next, !.recs = ex[e].todo]]
            /\ pipe' = IF next = "recheck" THEN Append(pipe, ExecCmd(e)) ELSE pipe
      BY <1>6 DEF Dispatch
    <2>2. [ex[e] EXCEPT !.pc = next, !.recs = ex[e].todo].pc = next
      BY <1>0 DEF Call
    <2>3. ex[e].pc \notin RedisPc /\ UNCHANGED <<list, members>>
      BY <1>6 DEF Dispatch, RedisPc
    <2>4. pipe' = pipe \/ (pipe' = Append(pipe, ExecCmd(e)) /\ next \in RedisPc)
      BY <2>1 DEF RedisPc
    <2>. QED  BY <2>1, <2>2, <2>3, <2>4, ResumeTidy
  <1>7. CASE CheckPasses(e) \/ CheckRefuses(e)
    <2>1. ex[e].pc \notin RedisPc /\ UNCHANGED <<list, members>> /\ \E r : Resume(e, r)
      BY <1>7 DEF CheckPasses, CheckRefuses, RedisPc
    <2>2. PICK r : Resume(e, r)
      BY <2>1
    <2>3. /\ ex' = [ex EXCEPT ![e] = r]
          /\ pipe' = pipe \/ (pipe' = Append(pipe, ExecCmd(e)) /\ r.pc \in RedisPc)
      BY <2>2 DEF Resume
    <2>. QED  BY <2>1, <2>3, ResumeTidy
  <1>8. CASE Group(e)
    <2>1. ex[e].pc \notin RedisPc /\ UNCHANGED <<pipe, list, members>>
      BY <1>8 DEF Group, RedisPc, redis
    <2>2. \E r : ex' = [ex EXCEPT ![e] = r]
      BY <1>8 DEF Group
    <2>. QED  BY <2>1, <2>2, ResumeTidy
  <1>9. ASSUME NEW pc, Goto(e, pc), UNCHANGED <<pipe, list, members>>, ex[e].pc \notin RedisPc PROVE Tidy
    BY <1>9, ResumeTidy DEF Goto
  <1>10. CASE SaveReady(e) \/ SendOk(e) \/ SendUnknown(e)
    <2>1. ex[e].pc \notin RedisPc /\ UNCHANGED <<pipe, list, members>> /\ \E pc : Goto(e, pc)
      BY <1>10 DEF SaveReady, SendOk, SendUnknown, RedisPc, redis
    <2>. QED  BY <2>1, <1>9
  <1>11. CASE ReadRow(e) \/ Claim(e)
    <2>1. /\ ex[e].pc \notin RedisPc /\ UNCHANGED <<list, members>>
          /\ (\E pc : Goto(e, pc) /\ UNCHANGED pipe) \/ Finish(e, FALSE)
      BY <1>11 DEF ReadRow, Claim, RedisPc
    <2>. QED  BY <2>1, <1>9, FinishTidy
  <1>12. CASE Refused(e) \/ Commit(e) \/ CommitFails(e) \/ ReadMismatch(e) \/ SendConfirmFail(e)
    <2>1. /\ ex[e].pc \notin RedisPc /\ UNCHANGED <<list, members>>
          /\ \E retry \in BOOLEAN : Finish(e, retry)
      BY <1>12 DEF Refused, Commit, CommitFails, ReadMismatch, SendConfirmFail, RedisPc
    <2>. QED  BY <2>1, FinishTidy
  <1>. QED  BY <1>1, <1>2, <1>3, <1>4, <1>5, <1>6, <1>7, <1>8, <1>10, <1>11, <1>12 DEF RedisStep, PaidStep

\* Every step keeps the invariant; a crash only its first half, with the commands.
LEMMA QueueStep ==
  ASSUME Typed, Typed', QueueInv, [Next]_vars
  PROVE  QueueInv'
  <1>1. pipe' \in Seq(Cmd) /\ members' \subseteq Tx /\ crashes \in Nat
    BY DEF Typed, TypeOK
  <1>2. ASSUME Tidy PROVE OneCommand' /\ (AddedIsQueued /\ MemberIsQueued => AddedIsQueued' /\ MemberIsQueued')
    <2>1. PICK e \in Exec \cup {NoExec} : \E d, new : Sends(e, d, new) /\ Queues(e, new)
      BY <1>2 DEF Tidy
    <2>. QED  BY <1>1, <2>1, CommandStep, QueuedStep DEF QueueInv
  <1>3. CASE Crash
    <2>1. pipe' = <<>> /\ crashes' = crashes + 1
      BY <1>3 DEF Crash
    <2>2. crashes' # 0
      BY <1>1, <2>1
    <2>. QED  BY <2>1, <2>2 DEF QueueInv, OneCommand
  <1>4. CASE QuietStep \/ \E e \in Exec : Tick(e) \/ RedisStep(e) \/ PaidStep(e)
    <2>1. UNCHANGED crashes
      <3>1. CASE QuietStep
        BY <3>1 DEF QuietStep, EnqueueStep, Sismember, Lpush, Sadd, SetData, Unconsume, PollSelect,
                    PollEnqueue, IntervalElapses, Deliver, Settle, vars, env
      <3>2. ASSUME NEW e \in Exec, Tick(e) \/ RedisStep(e) PROVE UNCHANGED crashes
        BY <3>2 DEF Tick, RedisStep, LlenReturn, LlenProceed, Lrange, Lrem, Srem, Filter, GetData,
                    DelData, Recheck, Mark, env
      <3>3. ASSUME NEW e \in Exec, PaidStep(e) PROVE UNCHANGED crashes
        BY <3>3 DEF PaidStep, Dispatch, CheckPasses, CheckRefuses, Group, Refused, ReadRow,
                    ReadMismatch, SaveReady, Claim, SendOk, SendConfirmFail, SendUnknown, Commit,
                    CommitFails, env
      <3>. QED  BY <1>4, <3>1, <3>2, <3>3
    <2>2. Tidy
      BY <1>4, EnqueueTidy, CallTidy DEF QueueInv
    <2>. QED  BY <1>2, <2>1, <2>2 DEF QueueInv
  <1>. QED  BY <1>3, <1>4 DEF Next, QuietStep

\* Until the process first crashes, and so for ever when it does not, a hash in
\* the member set is in the list or is being taken out of both: enqueueMessage's
\* "already exists in the queue" never turns away a hash that is in no list.
THEOREM QueuedOrLeaving == Spec => [](crashes = 0 => MemberIsQueued)
  <1>1. Init => Typed /\ QueueInv
    BY InitTyped DEF Init, QueueInv, OneCommand, AddedIsQueued, MemberIsQueued
  <1>2. Typed /\ QueueInv /\ [Next]_vars => Typed' /\ QueueInv'
    <2>1. Typed /\ [Next]_vars => Typed'
      BY EnqueueTyped, RedisTyped, PaidTyped, StutterTyped DEF Next
    <2>. QED  BY <2>1, QueueStep
  <1>3. QueueInv => (crashes = 0 => MemberIsQueued)
    BY DEF QueueInv
  <1>. QED  BY <1>1, <1>2, <1>3, PTL DEF Spec
-----------------------------------------------------------------------------
(* The sequencer implements Payout: a step of the service pays, books or    *)
(* gives up a batch that is wholly owed or wholly paid, or changes nothing  *)
(* that Payout sees.  Inductive says that a batch about to be sent is       *)
(* unpaid.  Claimed adds that its rows are open and locked by the call that *)
(* sends it, from the UPDATE to the COMMIT, so that nothing settles a part  *)
(* of the batch in between and the COMMIT moves all of it together.         *)

\* From findOne to COMMIT, given the rows, the row locks and the payments.
ClaimOk(e) ==
  /\ ex[e].pc \in {"read", "save"} => Len(ex[e].todo) = 1
  /\ ex[e].pc = "save" => \A t \in Batch(e) : row[t] = 0
  /\ ex[e].pc \in {"send", "paid", "crash"} =>
       \A t \in Batch(e) : row[t] = 0 /\ holder[t] = e
  /\ ex[e].pc = "paid" => \A t \in Batch(e) : sent[t] = 1
  /\ ex[e].pc = "crash" =>
       (\A t \in Batch(e) : sent[t] = 0) \/ (\A t \in Batch(e) : sent[t] = 1)

Claimed == \A e \in Exec : ClaimOk(e)

Late == {"read", "save", "send", "paid", "crash"}

-----------------------------------------------------------------------------
(* Batches.                                                                 *)

\* What a batch is made of.
LEMMA BatchType ==
  ASSUME TypeOK, NEW e \in Exec
  PROVE  /\ ex[e] \in Call /\ ex[e].todo \in Seq(Tx) /\ Batch(e) \subseteq Tx
         /\ \A t : t \in Batch(e) <=> \E i \in DOMAIN ex[e].todo : t = ex[e].todo[i]
  BY DEF TypeOK, Call, Batch, ToSet

\* A batch of one is its head.
LEMMA BatchOfOne ==
  ASSUME TypeOK, NEW e \in Exec, Len(ex[e].todo) = 1
  PROVE  Batch(e) = {Head(ex[e].todo)}
  <1>1. ex[e].todo \in Seq(Tx) /\ DOMAIN ex[e].todo = {1}
    BY BatchType
  <1>. QED  BY <1>1, BatchType

\* When the batch UPDATE finds as many open rows as the batch has, it found all.
LEMMA AllOwed ==
  ASSUME NEW s \in Seq(Tx), NEW O \in SUBSET ToSet(s), Cardinality(O) = Len(s)
  PROVE  O = ToSet(s)
  <1>. DEFINE n == Len(s)
  <1>1. n \in Nat /\ s \in [1 .. n -> ToSet(s)] /\ \A t \in ToSet(s) : \E i \in 1 .. n : s[i] = t
    BY DEF ToSet
  <1>2. s \in Surjection(1 .. n, ToSet(s))
    BY <1>1 DEF Surjection
  <1>3. IsFiniteSet(1 .. n) /\ Cardinality(1 .. n) = n
    BY <1>1, FS_Interval
  <1>4. IsFiniteSet(ToSet(s)) /\ Cardinality(ToSet(s)) <= n
    BY <1>2, <1>3, FS_Surjection
  <1>5. Cardinality(O) <= Cardinality(ToSet(s))
    BY <1>4, FS_Subset
  <1>6. Cardinality(ToSet(s)) \in Nat
    BY <1>4, FS_CardinalityType
  <1>7. Cardinality(O) = Cardinality(ToSet(s))
    BY <1>1, <1>4, <1>5, <1>6
  <1>. QED  BY <1>4, <1>7, FS_Subset

\* The batch in hand is unpaid from findOne or the batch UPDATE to the send.
LEMMA Unpaid ==
  ASSUME Inductive, NEW e \in Exec, ex[e].pc \in {"read", "save", "claim", "send"}
  PROVE  \A t \in Batch(e) : sent[t] = 0
  <1>1. BatchOk(ex[e], consumed, sent)
    BY DEF Inductive, Batches
  <1>2. TypeOK
    BY DEF Inductive, Typed
  <1>. QED  BY <1>1, <1>2, BatchType DEF BatchOk, ToSet

-----------------------------------------------------------------------------
(* Claimed is kept.                                                         *)

\* A call that is not between findOne and COMMIT claims nothing.
LEMMA NotLate ==
  ASSUME NEW e \in Exec, ex[e].pc \notin Late
  PROVE  ClaimOk(e)
  BY DEF ClaimOk, Late

\* A call whose state, rows, locks and payments stay keeps what it claims.
LEMMA SameClaim ==
  ASSUME Claimed, NEW e \in Exec, ex'[e] = ex[e], UNCHANGED <<row, holder, sent>>
  PROVE  ClaimOk(e)'
  BY DEF Claimed, ClaimOk, Batch

\* Where one pass of a loop leads.
LEMMA NextPc ==
  ASSUME NEW e \in Exec, ex[e] \in Call, NEW again, NEW then, NEW keep,
         {again, then} \cap Late = {}
  PROVE  NextItem(e, again, then, keep).pc \notin Late
  BY DEF NextItem, Idle, Call, Late

\* The Redis steps of a call lead to findOne with a batch of one, or not so far.
LEMMA RedisClaimed ==
  ASSUME Inductive, Claimed, NEW e \in Exec, RedisStep(e)
  PROVE  Claimed'
  <1>1. Typed /\ ex \in [Exec -> Call] /\ ex[e] \in Call
    BY DEF Inductive, Typed, TypeOK
  <1>2. \E r : ex' = [ex EXCEPT ![e] = r] /\ (r.pc \in Late => r.pc = "read" /\ Len(r.todo) = 1)
    <2>. DEFINE Leads == \E r : ex' = [ex EXCEPT ![e] = r]
                                /\ (r.pc \in Late => r.pc = "read" /\ Len(r.todo) = 1)
    <2>. SUFFICES Leads
      OBVIOUS
    <2>1. ASSUME NEW r, Continue(e, r), r.pc \in Late => r.pc = "read" /\ Len(r.todo) = 1
          PROVE  Leads
      BY <2>1 DEF Continue
    <2>2. CASE LlenReturn(e) \/ LlenProceed(e)
      BY <2>2, <1>1 DEF LlenReturn, LlenProceed, Late, Idle, Call
    <2>3. CASE Lrange(e) \/ Lrem(e)
      BY <2>3, <2>1, <1>1 DEF Lrange, Lrem, Late, Idle, Call
    <2>4. CASE Srem(e) \/ Filter(e) \/ GetData(e) \/ DelData(e) \/ Recheck(e)
      <3>. HIDE DEF Leads
      <3>1. ASSUME NEW r, Continue(e, r), r.pc \notin Late PROVE Leads
        BY <2>1, <3>1
      <3>2. /\ {"lrem", "filter"} \cap Late = {} /\ {"filter", "get"} \cap Late = {}
            /\ {"get", "dispatch"} \cap Late = {} /\ {"recheck", "mark"} \cap Late = {}
        BY DEF Late
      <3>3. [ex[e] EXCEPT !.pc = "del"].pc \notin Late /\ [ex[e] EXCEPT !.pc = "check"].pc \notin Late
        BY <1>1 DEF Call, Late
      <3>4. CASE Srem(e)
        <4>1. PICK r : Continue(e, r) /\ r = NextItem(e, "lrem", "filter", TRUE)
          BY <3>4 DEF Srem
        <4>2. NextItem(e, "lrem", "filter", TRUE).pc \notin Late
          BY <1>1, <3>2, NextPc
        <4>. QED  BY <3>1, <3>3, <4>1, <4>2
      <3>5. CASE Filter(e)
        <4>1. PICK r : Continue(e, r) /\ (r = NextItem(e, "filter", "get", Head(ex[e].todo) \notin consumed))
          BY <3>5 DEF Filter
        <4>2. NextItem(e, "filter", "get", Head(ex[e].todo) \notin consumed).pc \notin Late
          BY <1>1, <3>2, NextPc
        <4>. QED  BY <3>1, <3>3, <4>1, <4>2
      <3>6. CASE GetData(e)
        <4>1. PICK r : /\ Continue(e, r)
                       /\ r = NextItem(e, "get", "dispatch", FALSE) \/ r = [ex[e] EXCEPT !.pc = "del"]
          BY <3>6 DEF GetData
        <4>2. NextItem(e, "get", "dispatch", FALSE).pc \notin Late
          BY <1>1, <3>2, NextPc
        <4>. QED  BY <3>1, <3>3, <4>1, <4>2
      <3>7. CASE DelData(e)
        <4>1. PICK r : Continue(e, r) /\ (r = NextItem(e, "get", "dispatch", TRUE))
          BY <3>7 DEF DelData
        <4>2. NextItem(e, "get", "dispatch", TRUE).pc \notin Late
          BY <1>1, <3>2, NextPc
        <4>. QED  BY <3>1, <3>3, <4>1, <4>2
      <3>8. CASE Recheck(e)
        <4>1. PICK r : /\ Continue(e, r)
                       /\ r = NextItem(e, "recheck", "mark", FALSE) \/ r = [ex[e] EXCEPT !.pc = "check"]
          BY <3>8 DEF Recheck
        <4>2. NextItem(e, "recheck", "mark", FALSE).pc \notin Late
          BY <1>1, <3>2, NextPc
        <4>. QED  BY <3>1, <3>3, <4>1, <4>2
      <3>. QED  BY <2>4, <3>4, <3>5, <3>6, <3>7, <3>8
    <2>5. CASE Mark(e)
      BY <2>5, <2>1, <1>1 DEF Mark, Late, Call
    <2>. QED  BY <2>2, <2>3, <2>4, <2>5 DEF RedisStep
  <1>3. UNCHANGED <<row, holder, sent>>
    BY DEF RedisStep, LlenReturn, LlenProceed, Lrange, Lrem, Srem, Filter, GetData, DelData,
           Recheck, Mark, db
  <1>4. ClaimOk(e)'
    BY <1>1, <1>2 DEF ClaimOk, Late
  <1>5. ASSUME NEW f \in Exec, f # e PROVE ClaimOk(f)'
    <2>1. ex'[f] = ex[f]
      BY <1>1, <1>2, <1>5
    <2>. QED  BY <2>1, <1>3, SameClaim
  <1>. QED  BY <1>4, <1>5 DEF Claimed

\* A call that runs alone keeps the claims when it keeps its own.
LEMMA AloneClaimed ==
  ASSUME Inductive, NEW e \in Exec, ex[e].pc # "idle", NEW r, ex' = [ex EXCEPT ![e] = r],
         ClaimOk(e)'
  PROVE  Claimed'
  <1>1. ASSUME NEW f \in Exec, f # e PROVE ex'[f].pc = "idle"
    <2>1. ex'[f] = ex[f]
      BY <1>1 DEF Inductive, Typed, TypeOK
    <2>. QED  BY <1>1, <2>1, Solo DEF Inductive
  <1>2. ASSUME NEW f \in Exec, f # e PROVE ClaimOk(f)'
    BY <1>1, <1>2 DEF ClaimOk
  <1>. QED  BY <1>2 DEF Claimed

\* The steps of a call that wait for the database, the chain or the wallet.
LEMMA PaidClaimed ==
  ASSUME SafeConfig, Inductive, Claimed, NEW e \in Exec, PaidStep(e)
  PROVE  Claimed'
  <1>. DEFINE c == ex[e]
  <1>1. TypeOK /\ ex \in [Exec -> Call] /\ c \in Call /\ OneOk(c) /\ ClaimOk(e)
    BY DEF Inductive, Typed, TypeOK, OneByOne, Claimed
  <1>2. ASSUME NEW r, ex' = [ex EXCEPT ![e] = r], r.pc \notin Late, c.pc # "idle"
        PROVE  Claimed'
    <2>1. ex'[e] = r
      BY <1>1, <1>2
    <2>2. ClaimOk(e)'
      BY <1>2, <2>1 DEF ClaimOk, Late
    <2>. QED  BY <1>2, <2>2, AloneClaimed
  <1>3. ASSUME NEW retry, Finish(e, retry), c.pc # "idle" PROVE Claimed'
    <2>1. ex' = [ex EXCEPT ![e] = Idle] /\ Idle.pc \notin Late
      BY <1>3 DEF Finish, Idle, Late
    <2>. QED  BY <1>2, <1>3, <2>1
  <1>4. ASSUME NEW pc, Goto(e, pc), c.pc # "idle", ClaimOk(e)' PROVE Claimed'
    <2>1. ex' = [ex EXCEPT ![e] = [c EXCEPT !.pc = pc]]
      BY <1>4 DEF Goto
    <2>. QED  BY <1>4, <2>1, AloneClaimed
  <1>5. ASSUME NEW pc, Goto(e, pc) PROVE ex'[e].pc = pc /\ ex'[e].todo = c.todo /\ Batch(e)' = Batch(e)
    BY <1>1, <1>5 DEF Goto, Call, Batch
  <1>6. CASE Dispatch(e) \/ CheckPasses(e) \/ CheckRefuses(e)
    <2>1. c.pc \in {"dispatch", "check"}
      BY <1>6 DEF Dispatch, CheckPasses, CheckRefuses
    <2>2. CASE Dispatch(e)
      <3>1. PICK next \in {"group", "recheck"} :
              ex' = [ex EXCEPT ![e] = [c EXCEPT !.pc = next, !.recs = c.todo]]
        BY <2>2, <1>1 DEF Dispatch
      <3>2. [c EXCEPT !.pc = next, !.recs = c.todo].pc \notin Late
        BY <1>1 DEF Call, Late
      <3>. QED  BY <1>2, <2>1, <3>1, <3>2
    <2>3. ASSUME NEW keep, Resume(e, NextItem(e, "recheck", "mark", keep)) PROVE Claimed'
      <3>1. NextItem(e, "recheck", "mark", keep).pc \in {"recheck", "mark", "idle"}
        BY <1>1 DEF NextItem, Idle, Call
      <3>2. NextItem(e, "recheck", "mark", keep).pc \notin Late
        BY <3>1 DEF Late
      <3>3. ex' = [ex EXCEPT ![e] = NextItem(e, "recheck", "mark", keep)]
        BY <2>3 DEF Resume
      <3>. QED  BY <1>2, <2>1, <3>2, <3>3
    <2>. QED  BY <1>6, <2>2, <2>3 DEF CheckPasses, CheckRefuses
  <1>7. CASE Refused(e) \/ ReadMismatch(e) \/ SendConfirmFail(e) \/ Commit(e) \/ CommitFails(e)
    BY <1>3, <1>7 DEF Refused, ReadMismatch, SendConfirmFail, Commit, CommitFails
  <1>8. ~Group(e)
    BY <1>1 DEF Group, OneOk
  <1>9. CASE ReadRow(e)
    <2>1. c.pc = "read" /\ Len(c.todo) = 1
      BY <1>1, <1>9 DEF ReadRow, ClaimOk
    <2>2. CASE row[Head(c.todo)] = 0
      <3>1. Goto(e, "save") /\ UNCHANGED row
        BY <1>9, <2>2 DEF ReadRow, db
      <3>2. \A t \in Batch(e) : row[t] = 0
        BY <1>1, <2>1, <2>2, BatchOfOne
      <3>3. ClaimOk(e)'
        BY <1>5, <2>1, <3>1, <3>2 DEF ClaimOk
      <3>. QED  BY <1>4, <2>1, <3>1, <3>3
    <2>3. CASE row[Head(c.todo)] # 0
      BY <1>3, <1>9, <2>1, <2>3 DEF ReadRow
    <2>. QED  BY <2>2, <2>3
  <1>10. CASE SaveReady(e)
    <2>1. c.pc = "save" /\ Goto(e, "send") /\ UNCHANGED row
          /\ holder' = [holder EXCEPT ![Head(c.todo)] = e]
      BY <1>10 DEF SaveReady
    <2>2. Batch(e) = {Head(c.todo)} /\ Batch(e) \subseteq Tx /\ \A t \in Batch(e) : row[t] = 0
      BY <1>1, <2>1, BatchOfOne, BatchType DEF ClaimOk
    <2>3. \A t \in Batch(e) : holder'[t] = e
      BY <1>1, <2>1, <2>2 DEF TypeOK
    <2>4. ClaimOk(e)'
      BY <1>5, <2>1, <2>2, <2>3 DEF ClaimOk
    <2>. QED  BY <1>4, <2>1, <2>4
  <1>11. CASE Claim(e)
    <2>. DEFINE owed == {t \in ToSet(c.todo) : row[t] = 0}
    <2>1. c.pc = "claim" /\ UNCHANGED row
      BY <1>11 DEF Claim
    <2>2. CASE Cardinality(owed) = Len(c.todo)
      <3>1. Goto(e, "send") /\ holder' = [t \in Tx |-> IF t \in owed THEN e ELSE holder[t]]
        BY <1>11, <2>2 DEF Claim
      <3>2. c.todo \in Seq(Tx) /\ Batch(e) \subseteq Tx
        BY <1>1, BatchType
      <3>3. owed = ToSet(c.todo)
        BY <2>2, <3>2, AllOwed
      <3>4. \A t \in Batch(e) : row[t] = 0 /\ holder'[t] = e
        BY <3>1, <3>2, <3>3 DEF Batch
      <3>5. ClaimOk(e)'
        BY <1>5, <2>1, <3>1, <3>4 DEF ClaimOk
      <3>. QED  BY <1>4, <2>1, <3>1, <3>5
    <2>3. CASE Cardinality(owed) # Len(c.todo)
      BY <1>3, <1>11, <2>1, <2>3 DEF Claim
    <2>. QED  BY <2>2, <2>3
  <1>12. CASE SendOk(e) \/ SendUnknown(e)
    <2>1. c.pc = "send" /\ UNCHANGED <<row, holder>> /\ (sent' = sent \/ sent' = Broadcast(e))
      BY <1>12 DEF SendOk, SendUnknown, db
    <2>2. PICK pc \in {"paid", "crash"} : Goto(e, pc) /\ (pc = "paid" => sent' = Broadcast(e))
      BY <1>12 DEF SendOk, SendUnknown
    <2>3. Batch(e) \subseteq Tx /\ \A t \in Batch(e) : sent[t] = 0 /\ row[t] = 0 /\ holder[t] = e
      BY <1>1, <2>1, Unpaid, BatchType DEF ClaimOk
    <2>4. sent' = Broadcast(e) => \A t \in Batch(e) : sent'[t] = 1
      BY <2>3 DEF Broadcast
    <2>5. ClaimOk(e)'
      BY <1>5, <2>1, <2>2, <2>3, <2>4 DEF ClaimOk
    <2>. QED  BY <1>4, <2>1, <2>2, <2>5
  <1>. QED  BY <1>6, <1>7, <1>8, <1>9, <1>10, <1>11, <1>12 DEF PaidStep

\* Every step keeps the claims.
LEMMA ClaimedStep ==
  ASSUME SafeConfig, Inductive, Claimed, [Next]_vars
  PROVE  Claimed'
  <1>1. ASSUME UNCHANGED <<ex, row, holder, sent>> PROVE Claimed'
    BY <1>1 DEF Claimed, ClaimOk, Batch
  <1>2. CASE EnqueueStep \/ PollSelect \/ PollEnqueue \/ IntervalElapses
             \/ (\E t \in Tx : Deliver(t)) \/ UNCHANGED vars
    BY <1>1, <1>2 DEF EnqueueStep, Sismember, Lpush, Sadd, SetData, Unconsume, PollSelect,
                      PollEnqueue, IntervalElapses, Deliver, vars, db
  <1>3. ASSUME NEW t \in Tx, Settle(t) PROVE Claimed'
    <2>1. UNCHANGED <<ex, holder, sent>> /\ sent[t] > 0 /\ holder[t] = NoExec
          /\ row' = [row EXCEPT ![t] = 99]
      BY <1>3 DEF Settle
    <2>2. ASSUME NEW e \in Exec PROVE ClaimOk(e)'
      <3>1. ClaimOk(e) /\ Batch(e)' = Batch(e) /\ TypeOK /\ Batch(e) \subseteq Tx
        BY <2>1, BatchType DEF Claimed, Batch, Inductive, Typed
      <3>2. ex[e].pc \in {"save", "send", "paid", "crash"} => t \notin Batch(e)
        <4>1. ex[e].pc = "save" => \A u \in Batch(e) : sent[u] = 0
          BY Unpaid
        <4>2. ex[e].pc \in {"send", "paid", "crash"} => \A u \in Batch(e) : holder[u] \in Exec
          BY <3>1 DEF ClaimOk
        <4>3. NoExec \notin Exec
          BY ConfigAssumption
        <4>. QED  BY <2>1, <4>1, <4>2, <4>3
      <3>3. \A u \in Tx : u # t => row'[u] = row[u]
        BY <2>1, <3>1 DEF TypeOK
      <3>. QED  BY <2>1, <3>1, <3>2, <3>3 DEF ClaimOk
    <2>. QED  BY <2>2 DEF Claimed
  <1>4. CASE Crash
    <2>1. \A e \in Exec : ex'[e].pc = "idle"
      BY <1>4 DEF Crash, Idle
    <2>. QED  BY <2>1 DEF Claimed, ClaimOk
  <1>5. ASSUME NEW e \in Exec, Tick(e) PROVE Claimed'
    <2>1. ex' = [ex EXCEPT ![e].pc = "llen"] /\ UNCHANGED <<row, holder, sent>>
          /\ ex \in [Exec -> Call]
      BY <1>5 DEF Tick, db, Inductive, Typed, TypeOK
    <2>2. ASSUME NEW f \in Exec PROVE ClaimOk(f)'
      <3>1. CASE f = e
        BY <2>1, <3>1 DEF ClaimOk, Call
      <3>2. CASE f # e
        BY <2>1, <3>2, SameClaim
      <3>. QED  BY <3>1, <3>2
    <2>. QED  BY <2>2 DEF Claimed
  <1>. QED  BY <1>2, <1>3, <1>4, <1>5, RedisClaimed, PaidClaimed DEF Next

-----------------------------------------------------------------------------
(* Every step is a step of Payout, or none.                                 *)

\* What Payout sees of a transaction.
LEMMA StageOf ==
  ASSUME NEW t \in Tx
  PROVE  Stage[t] = IF sent[t] = 0 THEN IF row[t] = 0 THEN "owed" ELSE "givenUp"
                    ELSE IF sent[t] > 1 THEN "paidTwice"
                    ELSE IF row[t] = 0 THEN "paid" ELSE "booked"
  BY DEF Stage

\* A batch is moved as a whole.
LEMMA Moves ==
  ASSUME NEW S \in SUBSET Tx, S # {}, NEW from, NEW to,
         \A t \in S : Stage[t] = from /\ Stage'[t] = to,
         \A t \in Tx \ S : Stage'[t] = Stage[t]
  PROVE  Abstract!Move(S, from, to)
  <1>1. Stage' = [t \in Tx |-> Stage'[t]]
    BY DEF Stage
  <1>2. Stage' = [t \in Tx |-> IF t \in S THEN to ELSE Stage[t]]
    BY <1>1
  <1>. QED  BY <1>2 DEF Abstract!Move

\* The steps that neither broadcast nor change a row are not seen.
LEMMA Unseen == UNCHANGED <<row, sent>> => UNCHANGED Stage
  BY DEF Stage

\* A broadcast pays the batch, a COMMIT books it or gives it up.
LEMMA PaidSteps ==
  ASSUME Inductive, Claimed, NEW e \in Exec, SendOk(e) \/ SendUnknown(e) \/ Commit(e)
  PROVE  [Abstract!Next]_Stage
  <1>. DEFINE S == Batch(e)
  <1>1. TypeOK /\ ClaimOk(e) /\ S \in SUBSET Tx /\ S # {}
    <2>1. ex[e].pc \notin {"idle", "llen", "lrange"}
      BY DEF SendOk, SendUnknown, Commit
    <2>2. TypeOK /\ ex[e].todo # <<>> /\ ClaimOk(e)
      BY <2>1 DEF Inductive, Typed, Loaded, Claimed
    <2>3. 1 \in DOMAIN ex[e].todo
      BY <2>2, BatchType
    <2>. QED  BY <2>2, <2>3, BatchType
  <1>2. CASE SendOk(e) \/ SendUnknown(e)
    <2>1. ex[e].pc = "send" /\ UNCHANGED row /\ (sent' = sent \/ sent' = Broadcast(e))
      BY <1>2 DEF SendOk, SendUnknown, db
    <2>2. \A t \in S : sent[t] = 0 /\ row[t] = 0
      BY <1>1, <2>1, Unpaid DEF ClaimOk
    <2>3. CASE sent' = Broadcast(e)
      <3>1. \A t \in Tx : row'[t] = row[t] /\ sent'[t] = IF t \in S THEN sent[t] + 1 ELSE sent[t]
        BY <2>1, <2>3 DEF Broadcast
      <3>2. \A t \in S : Stage[t] = "owed" /\ Stage'[t] = "paid"
        BY <1>1, <2>2, <3>1 DEF Stage
      <3>3. \A t \in Tx \ S : Stage'[t] = Stage[t]
        BY <3>1 DEF Stage
      <3>4. Abstract!Pay(S)
        BY <1>1, <3>2, <3>3, Moves DEF Abstract!Pay
      <3>. QED  BY <1>1, <3>4 DEF Abstract!Next
    <2>. QED  BY <2>1, <2>3, Unseen
  <1>3. CASE Commit(e)
    <2>1. \A t \in Tx : /\ sent'[t] = sent[t]
                        /\ row'[t] = IF t \in S THEN IF ex[e].pc = "paid" THEN 98 ELSE 97 ELSE row[t]
      BY <1>3 DEF Commit
    <2>2. /\ \A t \in S : row[t] = 0
          /\ (\A t \in S : sent[t] = 0) \/ (\A t \in S : sent[t] = 1)
      BY <1>1, <1>3 DEF Commit, ClaimOk
    <2>3. \A t \in S : row'[t] # 0
      BY <1>1, <2>1
    <2>4. \A t \in Tx \ S : Stage'[t] = Stage[t]
      BY <2>1 DEF Stage
    <2>5. CASE \A t \in S : sent[t] = 0
      <3>1. \A t \in S : Stage[t] = "owed" /\ Stage'[t] = "givenUp"
        BY <1>1, <2>1, <2>2, <2>3, <2>5 DEF Stage
      <3>2. Abstract!GiveUp(S)
        BY <1>1, <2>4, <3>1, Moves DEF Abstract!GiveUp
      <3>. QED  BY <1>1, <3>2 DEF Abstract!Next
    <2>6. CASE \A t \in S : sent[t] = 1
      <3>1. \A t \in S : Stage[t] = "paid" /\ Stage'[t] = "booked"
        BY <1>1, <2>1, <2>2, <2>3, <2>6 DEF Stage
      <3>2. Abstract!Book(S)
        BY <1>1, <2>4, <3>1, Moves DEF Abstract!Book
      <3>. QED  BY <1>1, <3>2 DEF Abstract!Next
    <2>. QED  BY <2>2, <2>5, <2>6
  <1>. QED  BY <1>2, <1>3

\* The refinery books a payment the service did not book.
LEMMA SettleSteps ==
  ASSUME Inductive, NEW t \in Tx, Settle(t)
  PROVE  [Abstract!Next]_Stage
  <1>1. TypeOK /\ sent[t] = 1
    BY DEF Inductive, Typed, Fenced, Settle
  <1>2. UNCHANGED sent /\ row' = [row EXCEPT ![t] = 99]
    BY DEF Settle
  <1>3. row'[t] = 99 /\ \A u \in Tx \ {t} : row'[u] = row[u]
    BY <1>1, <1>2 DEF TypeOK
  <1>4. Stage'[t] = "booked" /\ \A u \in Tx \ {t} : Stage'[u] = Stage[u]
    BY <1>1, <1>2, <1>3 DEF Stage
  <1>5. CASE row[t] = 0
    <2>1. Stage[t] = "paid"
      BY <1>1, <1>5 DEF Stage
    <2>2. Abstract!Book({t})
      BY <1>4, <2>1, Moves DEF Abstract!Book
    <2>. QED  BY <2>2 DEF Abstract!Next
  <1>6. CASE row[t] # 0
    <2>1. Stage[t] = "booked"
      BY <1>1, <1>6 DEF Stage
    <2>2. Stage = [u \in Tx |-> Stage[u]] /\ Stage' = [u \in Tx |-> Stage'[u]]
      BY DEF Stage
    <2>3. \A u \in Tx : Stage'[u] = Stage[u]
      BY <1>4, <2>1
    <2>. QED  BY <2>2, <2>3
  <1>. QED  BY <1>5, <1>6

LEMMA NextSteps ==
  ASSUME Inductive, Claimed, [Next]_vars
  PROVE  [Abstract!Next]_Stage
  <1>1. \/ UNCHANGED <<row, sent>>
        \/ \E t \in Tx : Settle(t)
        \/ \E e \in Exec : SendOk(e) \/ SendUnknown(e) \/ Commit(e)
    BY DEF Next, EnqueueStep, Sismember, Lpush, Sadd, SetData, Unconsume, PollSelect, PollEnqueue,
       IntervalElapses, Crash, Deliver, Tick, RedisStep, PaidStep, LlenReturn, LlenProceed,
       Lrange, Lrem, Srem, Filter, GetData, DelData, Recheck, Mark, Dispatch, CheckPasses,
       CheckRefuses, Group, Refused, ReadRow, ReadMismatch, SaveReady, Claim,
       SendConfirmFail, CommitFails, vars, db
  <1>. QED  BY <1>1, PaidSteps, SettleSteps, Unseen

\* In the safe configurations the sequencer implements Payout: a transaction is
\* paid once, booked after it was paid, and never paid after it was given up,
\* whatever crashes, lost commits, repeated deliveries and retries happen.
THEOREM Implements == ASSUME SafeConfig PROVE Spec => PaysOnce
  <1>1. Init => Abstract!Init /\ Claimed
    BY DEF Init, Abstract!Init, Stage, Claimed, ClaimOk, Idle
  <1>2. Inductive /\ [Next]_vars => Inductive'
    BY InductiveStep
  <1>3. Inductive /\ Claimed /\ [Next]_vars => Claimed'
    BY ClaimedStep
  <1>4. Inductive /\ Claimed /\ [Next]_vars => [Abstract!Next]_Stage
    BY NextSteps
  <1>. QED  BY InitInductive, <1>1, <1>2, <1>3, <1>4, PTL DEF Spec, PaysOnce, Abstract!Spec
=============================================================================
