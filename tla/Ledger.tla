-------------------------------- MODULE Ledger --------------------------------
(***************************************************************************)
(* The refinery's inscription service (V3) for one tick. A deploy ('3-2')  *)
(* opens the tick. A claim ('3-0') mints tokens to its sender on the chain *)
(* it names and opens a row of bridge_transaction, which the maker's mint  *)
(* ('3-1') settles. A cross ('3-3') takes tokens from its sender on its    *)
(* own chain and opens a row; the maker's crossover ('3-4') settles it and *)
(* credits the tokens on the other chain. A move ('3-5') pays another user *)
(* of the same chain.                                                      *)
(*                                                                         *)
(* Deploys, claims and mints are handled by concurrent workers, from       *)
(* messages and from the schedules. Crosses, crossovers and moves are      *)
(* handled one after the other, by the bookkeeping of their chain, which a *)
(* mutex keeps to one run at a time. The writes of one database            *)
(* transaction read nothing and wait for the rows they touch, so each is   *)
(* one step, after the reads its handler made before it.                   *)
(***************************************************************************)
EXTENDS Integers, Sequences, FiniteSets, FiniteSetsExt

CONSTANTS
  Deploys, Claims, Mints, Crosses, Overs, Moves,  \* hashes of transfers
  Users, Workers, None,
  ChainList,     \* INSCRIPTION_SUPPORT_CHAINS, in its order
  Time,          \* [Crosses, Overs and Moves -> timestamp, block and index]
  Tx,            \* [hash -> what its transfer says]
  Bad,           \* transfers with a field, a chain, an amount or a fee that is refused
  Failed,        \* crossovers that failed on their chain (status 3)
  Stored,        \* users' transfers that are stored when the service starts
  Supply, ClaimLimit,  \* the max and limit of the deploy record's
  MaxDeliveries, MaxFaults   \* bounds: messages; failures, restarts, entries forgotten

Chains == {ChainList[i] : i \in DOMAIN ChainList}
Booked == Crosses \cup Overs \cup Moves
Rows   == Claims \cup Crosses          \* transfers that open a row
Pays   == Mints \cup Overs             \* transfers that settle one
Hashes == Deploys \cup Claims \cup Mints \cup Booked
Procs  == Workers \cup Chains
Accounts == Users \X Chains

\* at: its chain. who: its sender. to, dest, amt: where the tokens go, how many.
\* for: the row with the addresses, amount, chains and nonce of a mint or crossover.
Fields == [at: Chains, who: Users, to: Users, dest: Chains, amt: Nat, for: Rows \cup {None}]

ASSUME LedgerAssumption ==
  /\ Tx \in [Hashes -> Fields]
  /\ Time \in [Booked -> Nat] /\ Stored \subseteq Hashes \ Pays
  /\ \A p \in Mints : Tx[p].for \in Claims
  /\ \A p \in Overs : Tx[p].for \in Crosses /\ Tx[p].at = Tx[Tx[p].for].dest
  /\ \A c \in Claims \ Bad : Tx[c].amt \in 1..ClaimLimit
  /\ \A x \in Crosses \ Bad : Tx[x].amt >= 1 /\ Tx[x].dest # Tx[x].at
  /\ Supply \in Nat \ {0} /\ ClaimLimit \in Nat
  /\ {MaxDeliveries, MaxFaults} \subseteq Nat
  /\ None \notin Hashes /\ Workers \cap Chains = {} /\ IsFiniteSet(Workers)
  /\ Deploys \cap (Claims \cup Mints \cup Booked) = {}
  /\ Claims \cap (Mints \cup Booked) = {} /\ Mints \cap Booked = {}
  /\ Crosses \cap (Overs \cup Moves) = {} /\ Overs \cap Moves = {}

\* What has happened is finite, and so are the sums over it.
ASSUME FiniteAssumption == IsFiniteSet(Hashes) /\ IsFiniteSet(Accounts)

VARIABLES
  op,      \* [Hashes -> opStatus of the row in transfers]
  deploy,  \* the deploy whose record is stored, or None
  minted,  \* its currentMintedAmount
  bt,      \* [Rows -> row of bridge_transaction]: status and targetId
  bal,     \* [Accounts -> balance in user_balance]
  mem,     \* bridgeTransactions of the two memory services
  cache,   \* transfers of InscriptionMemoryMatchingService: mints without a row
  old,     \* rows and mints more than 20 minutes old
  work,    \* [Procs -> the state of a handler]
  todo,    \* [Chains -> transfers a run of the bookkeeping has still to do]
  maker,   \* [Rows -> the payment of the maker's open transaction]
  sent,    \* payments on a chain
  deliveries, faults

books    == <<deploy, minted, bt, bal>>
memory   == <<mem, cache, old>>
outside  == <<maker, sent>>
counters == <<deliveries, faults>>
vars     == <<op, books, memory, work, todo, outside, counters>>

Open == {"pending", "ready", "crash", "paid"}
NoRow == [status |-> "none", target |-> None]

\* named: the row holds the transfer's hash already, or existed when it was read.
HandlerState ==
  [pc: {"idle", "select", "next", "deploy", "create", "claim", "claimRow", "claimFull", "mint", "cross",
        "take", "memory", "byTarget", "byFeatures", "settle", "move", "pay"},
   h: Hashes \cup {None}, op: {"init", "valid", "refused", "matched"}, named: BOOLEAN]
Idle == [pc |-> "idle", h |-> None, op |-> "init", named |-> FALSE]

Init ==
  /\ op = [h \in Hashes |-> IF h \in Stored THEN "init" ELSE "absent"]
  /\ deploy = None /\ minted = 0
  /\ bt = [r \in Rows |-> NoRow] /\ bal = [a \in Accounts |-> 0]
  /\ mem = [r \in Rows |-> "no"] /\ cache = {} /\ old = {}
  /\ work = [k \in Procs |-> Idle] /\ todo = [c \in Chains |-> {}]
  /\ maker = [r \in Rows |-> None] /\ sent = {}
  /\ deliveries = 0 /\ faults = 0

Fault == faults < MaxFaults /\ faults' = faults + 1

At(k, pc) == work[k].pc = pc
Goto(k, r) == work' = [work EXCEPT ![k] = r]

\* A handler returns: a worker is free, the bookkeeping goes on with its list.
Return(k) == Goto(k, IF k \in Chains THEN [Idle EXCEPT !.pc = "next"] ELSE Idle)

\* It throws, and so ends the bookkeeping's loop over its list.
Throw(k) ==
  /\ Goto(k, Idle)
  /\ todo' = [c \in Chains |-> IF c = k THEN {} ELSE todo[c]]

Mark(h, s) == op' = [op EXCEPT ![h] = s]

\* incUserBalance: INSERT ... ON CONFLICT DO UPDATE "balance" + value.
incUserBalance(b, a, n) == [b EXCEPT ![a] = @ + n]

-----------------------------------------------------------------------------
(* Where handlers come from.                                                *)

\* A transfer is stored; those of the bookkeeping, and a minute old.
Insert(h) ==
  /\ op[h] = "absent"
  /\ h \in Pays => h \in sent
  /\ Mark(h, "init")
  /\ UNCHANGED <<books, memory, work, todo, outside, counters>>

First(h) == IF h \in Deploys THEN "deploy" ELSE IF h \in Claims THEN "claim"
            ELSE IF h \in Pays THEN "memory" ELSE IF h \in Crosses THEN "cross" ELSE "move"

Start(k, h, o) ==
  /\ At(k, "idle") /\ op[h] # "absent"
  /\ Goto(k, [Idle EXCEPT !.pc = First(h), !.h = h, !.op = o])

\* executeMatch: a message carries the opStatus of when it was published.
Deliver(k, h) ==
  /\ deliveries < MaxDeliveries /\ deliveries' = deliveries + 1
  /\ \E o \in {"init", op[h]} : Start(k, h, o)
  /\ UNCHANGED <<op, books, memory, todo, outside, faults>>

\* matchScheduleTask, matchALlVersion3_0 and matchSenderScheduleTask: opStatus 0.
Poll(k, h) ==
  /\ op[h] = "init"
  /\ Start(k, h, "init")
  /\ UNCHANGED <<op, books, memory, todo, outside, counters>>

\* fromCacheMatch.
FromCache(k, p) ==
  /\ p \in cache /\ mem[Tx[p].for] # "no"
  /\ Start(k, p, "init")
  /\ UNCHANGED <<op, books, memory, todo, outside, counters>>

Locked(c) == ~At(c, "idle")

\* bookKeeping, each minute: it returns at the first chain whose mutex is locked.
Free == {ChainList[i] : i \in {j \in DOMAIN ChainList :
                                 \A n \in 1..j : ~Locked(ChainList[n])}}
BookKeeping ==
  /\ Free # {}
  /\ work' = [k \in Procs |-> IF k \in Free THEN [Idle EXCEPT !.pc = "select"] ELSE work[k]]
  /\ UNCHANGED <<op, books, memory, todo, outside, counters>>

Pending(c) == {h \in Booked : Tx[h].at = c /\ op[h] = "init"}

Select(c) ==
  /\ At(c, "select")
  /\ todo' = [todo EXCEPT ![c] = Pending(c)]
  /\ Goto(c, [Idle EXCEPT !.pc = "next"])
  /\ UNCHANGED <<op, books, memory, outside, counters>>

\* In the order of their timestamps.
NextTransfer(c) ==
  /\ At(c, "next")
  /\ \/ todo[c] = {} /\ Goto(c, Idle) /\ todo' = todo
     \/ \E h \in todo[c] :
          /\ \A g \in todo[c] : Time[h] <= Time[g]
          /\ Goto(c, [Idle EXCEPT !.pc = First(h), !.h = h])
          /\ todo' = [todo EXCEPT ![c] = @ \ {h}]
  /\ UNCHANGED <<op, books, memory, outside, counters>>

\* What a transfer says is wrong: its opStatus tells why, for good.
Refuse(k) ==
  /\ work[k].pc \in {"deploy", "claim", "memory", "cross", "move"}
  /\ work[k].h \in Bad
  /\ Mark(work[k].h, "refused")
  /\ Return(k)
  /\ UNCHANGED <<books, memory, todo, outside, counters>>

Enter(k, pc) == At(k, pc) /\ work[k].h \notin Bad

-----------------------------------------------------------------------------
(* handleDeployTransfer. The unique index on protocol and tick refuses the  *)
(* record of a second deploy.                                               *)

DeployCheck(k) ==
  /\ Enter(k, "deploy")
  /\ IF deploy = None THEN Goto(k, [work[k] EXCEPT !.pc = "create"]) ELSE Return(k)
  /\ UNCHANGED <<op, books, memory, todo, outside, counters>>

DeployCreate(k) ==
  LET d == work[k].h IN
  /\ At(k, "create")
  /\ IF deploy = None
     THEN deploy' = d /\ Mark(d, "matched") /\ Return(k) /\ todo' = todo
     ELSE UNCHANGED <<deploy, op>> /\ Throw(k)
  /\ UNCHANGED <<minted, bt, bal, memory, outside, counters>>

-----------------------------------------------------------------------------
(* handleClaimTransfer.                                                     *)

\* Mutant: no test against the record's maximum.
RoomAlways == TRUE

Room == minted < Supply

\* The deploy record is read, and with it how much was minted.
ClaimCheck(k) ==
  LET c == work[k].h IN
  /\ Enter(k, "claim")
  /\ IF deploy = None
     THEN Mark(c, "refused") /\ Return(k)
     ELSE op' = op /\ Goto(k, [work[k] EXCEPT !.pc = IF Room THEN "claimRow" ELSE "claimFull"])
  /\ UNCHANGED <<books, memory, todo, outside, counters>>

\* The row is read next, and left alone when it is being paid or was. Only then does
\* build refuse a claim for which there was no room.
ClaimFull(k) ==
  LET c == work[k].h IN
  /\ At(k, "claimFull")
  /\ IF bt[c].status \in {"none", "pending"} THEN Mark(c, "refused") ELSE op' = op
  /\ Return(k)
  /\ UNCHANGED <<books, memory, todo, outside, counters>>

ClaimRow(k) ==
  LET c == work[k].h IN
  /\ At(k, "claimRow")
  /\ IF bt[c].status \in {"none", "pending"}
     THEN Goto(k, [work[k] EXCEPT !.pc = "mint", !.named = bt[c].status = "pending"])
     ELSE Return(k)
  /\ UNCHANGED <<op, books, memory, todo, outside, counters>>

RowFree(r) == maker[r] = None

Remember(r, as) == IF mem[r] = "no" /\ r \notin old THEN [mem EXCEPT ![r] = as] ELSE mem

NewRow(r) == bt' = [bt EXCEPT ![r] = [status |-> "pending", target |-> None]]
Valid(k, h) == IF work[k].op = "valid" THEN op' = op ELSE Mark(h, "valid")

\* Mutant: a row that was not there when it was read is minted, there or not.
ClaimMintTwice(k) ==
  LET c == work[k].h IN
  /\ At(k, "mint")
  /\ RowFree(c)
  /\ ~work[k].named
  /\ NewRow(c)
  /\ minted' = minted + Tx[c].amt
  /\ bal' = incUserBalance(bal, <<Tx[c].who, Tx[c].dest>>, Tx[c].amt)
  /\ mem' = Remember(c, "live")
  /\ Valid(k, c) /\ Return(k) /\ todo' = todo
  /\ UNCHANGED <<deploy, cache, old, outside, counters>>

\* One transaction: the row, the minted amount and the sender's balance. The
\* unique index on the source refuses a second row; a row that was there when
\* it was read is only written over.
ClaimMint(k) ==
  LET c == work[k].h IN
  /\ At(k, "mint")
  /\ RowFree(c)
  /\ IF work[k].named
     THEN UNCHANGED <<books, mem>> /\ Valid(k, c) /\ Return(k) /\ todo' = todo
     ELSE IF bt[c].status # "none"
     THEN UNCHANGED <<op, books, mem>> /\ Throw(k)
     ELSE /\ NewRow(c)
          /\ minted' = minted + Tx[c].amt
          /\ bal' = incUserBalance(bal, <<Tx[c].who, Tx[c].dest>>, Tx[c].amt)
          /\ mem' = Remember(c, "live")
          /\ Valid(k, c) /\ Return(k) /\ todo' = todo /\ deploy' = deploy
  /\ UNCHANGED <<cache, old, outside, counters>>

-----------------------------------------------------------------------------
(* handleCrossTransfer. The sender's balance is read before the transaction *)
(* that takes the tokens; no other handler takes any on this chain.         *)

Account(h) == <<Tx[h].who, Tx[h].at>>

\* Mutant: the balance is read without its address.
CoversSome(h) == \E u \in Users : Tx[h].amt <= bal[<<u, Tx[h].at>>]

Covers(h) == Tx[h].amt <= bal[Account(h)]

CrossCheck(c) ==
  LET x == work[c].h IN
  /\ Enter(c, "cross")
  /\ IF deploy = None \/ ~Covers(x)
     THEN Mark(x, "refused") /\ Return(c)
     ELSE op' = op /\ Goto(c, [work[c] EXCEPT !.pc = "take"])
  /\ UNCHANGED <<books, memory, todo, outside, counters>>

\* The row and the balance in one transaction.
CrossTake(c) ==
  LET x == work[c].h IN
  /\ At(c, "take")
  /\ NewRow(x)
  /\ bal' = incUserBalance(bal, Account(x), -Tx[x].amt)
  /\ mem' = Remember(x, "live")
  /\ Mark(x, "valid") /\ Return(c)
  /\ UNCHANGED <<deploy, minted, cache, old, todo, outside, counters>>

\* A transaction that fails leaves an entry in memory for a row that is not there.
Fails(k) ==
  /\ work[k].pc \in {"create", "mint", "take"}
  /\ Fault
  /\ mem' = IF work[k].h \in Rows /\ ~work[k].named
            THEN Remember(work[k].h, "ghost") ELSE mem
  /\ Throw(k)
  /\ UNCHANGED <<op, books, cache, old, outside, deliveries>>

-----------------------------------------------------------------------------
(* handleMintTransfer and handleCrossOverTransfer: the row in memory, then  *)
(* the database.                                                            *)

Unmatched(p, r) == {h \in {p, r} : op[h] \in {"init", "valid"}}

Credit(p, r) == IF p \in Overs
                THEN bal' = incUserBalance(bal, <<Tx[r].to, Tx[r].dest>>, Tx[r].amt)
                ELSE bal' = bal

\* Mutant: the row is given the hash of its source.
SettleSource(k, r) ==
  /\ bt' = [bt EXCEPT ![r] = [status |-> "success", target |-> r]]
  /\ op' = [h \in Hashes |-> IF h \in Unmatched(work[k].h, r) THEN "matched" ELSE op[h]]
  /\ Credit(work[k].h, r)
  /\ cache' = cache \ {work[k].h}
  /\ Return(k)

Settle(k, r) ==
  LET p == work[k].h IN
  /\ bt' = [bt EXCEPT ![r] = [status |-> IF p \in Failed THEN "crash" ELSE "success",
                              target |-> p]]
  /\ op' = [h \in Hashes |-> IF h \in Unmatched(p, r) THEN "matched" ELSE op[h]]
  /\ Credit(p, r)
  /\ cache' = cache \ {p}
  /\ Return(k)

\* The UPDATE finds the waiting row and both transfers are booked, or nothing is. Its
\* window of sourceTime (120 minutes to 5) always holds for what the memory gives:
\* rows of at most 20 minutes, and at most one minute younger than the payment.
MemMatch(k) ==
  LET p == work[k].h
      r == Tx[p].for IN
  /\ Enter(k, "memory")
  /\ mem[r] = "live" /\ bt[r].status \in Open /\ RowFree(r)
  /\ Unmatched(p, r) = {p, r}
  /\ Settle(k, r)
  /\ UNCHANGED <<deploy, minted, mem, old, todo, outside, counters>>

MemMiss(k) ==
  LET p == work[k].h
      r == Tx[p].for IN
  /\ Enter(k, "memory")
  /\ \/ mem[r] # "live" \/ bt[r].status \notin Open
     \/ RowFree(r) /\ Unmatched(p, r) # {p, r}
  /\ Goto(k, [work[k] EXCEPT !.pc = "byTarget"])
  /\ UNCHANGED <<op, books, memory, todo, outside, counters>>

\* The row that names the payment: the maker's, or one it was matched with.
ByTarget(k) ==
  LET named == \E r \in Rows : bt[r].target = work[k].h IN
  /\ At(k, "byTarget")
  /\ Goto(k, [work[k] EXCEPT !.pc = IF named THEN "settle" ELSE "byFeatures",
                             !.named = named])
  /\ UNCHANGED <<op, books, memory, todo, outside, counters>>

\* A row without a payment, in a status that waits for one.
ByFeatures(k) ==
  LET p == work[k].h
      r == Tx[p].for IN
  /\ At(k, "byFeatures")
  /\ IF bt[r].status \in Open /\ bt[r].target = None
     THEN Goto(k, [work[k] EXCEPT !.pc = "settle"]) /\ cache' = cache
     ELSE Return(k) /\ cache' = IF p \in Mints /\ p \notin old THEN cache \cup {p} ELSE cache
  /\ UNCHANGED <<op, books, mem, old, todo, outside, counters>>

\* The row is saved by its id. Of a row found by its payment only the id and the
\* source were selected: a crossover has no address to credit, and throws.
DbSettle(k) ==
  LET p == work[k].h
      r == Tx[p].for IN
  /\ At(k, "settle")
  /\ RowFree(r)
  /\ IF work[k].named /\ p \in Overs
     THEN UNCHANGED <<op, bt, bal, cache>> /\ Throw(k)
     ELSE Settle(k, r) /\ todo' = todo
  /\ UNCHANGED <<deploy, minted, mem, old, outside, counters>>

\* A transaction that fails in memory goes on in the database; there it throws.
SettleFails(k) ==
  /\ Fault
  /\ \/ /\ Enter(k, "memory") /\ mem[Tx[work[k].h].for] = "live"
        /\ Goto(k, [work[k] EXCEPT !.pc = "byTarget"]) /\ todo' = todo
     \/ work[k].pc \in {"byTarget", "byFeatures", "settle"} /\ Throw(k)
  /\ UNCHANGED <<op, books, memory, outside, deliveries>>

-----------------------------------------------------------------------------
(* handleTransferTransfer.                                                  *)

MoveCheck(c) ==
  LET v == work[c].h IN
  /\ Enter(c, "move")
  /\ IF deploy = None \/ ~Covers(v)
     THEN Mark(v, "refused") /\ Return(c)
     ELSE op' = op /\ Goto(c, [work[c] EXCEPT !.pc = "pay"])
  /\ UNCHANGED <<books, memory, todo, outside, counters>>

\* Mutant: the two balances are written with no transaction.
MovePayHalf(c) ==
  LET v == work[c].h IN
  /\ At(c, "pay")
  /\ \/ bal' = incUserBalance(bal, Account(v), -Tx[v].amt) /\ op' = op
     \/ /\ bal' = incUserBalance(incUserBalance(bal, Account(v), -Tx[v].amt),
                                 <<Tx[v].to, Tx[v].at>>, Tx[v].amt)
        /\ Mark(v, "matched")
  /\ Return(c)
  /\ UNCHANGED <<deploy, minted, bt, memory, todo, outside, counters>>

MovePay(c) ==
  LET v == work[c].h IN
  /\ At(c, "pay")
  /\ bal' = incUserBalance(incUserBalance(bal, Account(v), -Tx[v].amt),
                           <<Tx[v].to, Tx[v].at>>, Tx[v].amt)
  /\ Mark(v, "matched") /\ Return(c)
  /\ UNCHANGED <<deploy, minted, bt, memory, todo, outside, counters>>

\* A failure is rolled back and swallowed: the list goes on.
MoveFails(c) ==
  /\ At(c, "pay") /\ Fault
  /\ Return(c)
  /\ UNCHANGED <<op, books, memory, todo, outside, deliveries>>

-----------------------------------------------------------------------------
(* Time, restarts and the maker.                                            *)

\* The job of the memory services that forgets what is 20 minutes old.
Expire(h) ==
  /\ h \notin old /\ op[h] # "absent" /\ Fault
  /\ old' = old \cup {h}
  /\ mem' = [r \in Rows |-> IF r = h THEN "no" ELSE mem[r]]
  /\ cache' = cache \ {h}
  /\ UNCHANGED <<op, books, work, todo, outside, deliveries>>

Crash ==
  /\ Fault
  /\ work' = [k \in Procs |-> Idle] /\ todo' = [c \in Chains |-> {}]
  /\ mem' = [r \in Rows |-> "no"] /\ cache' = {}
  /\ UNCHANGED <<op, books, old, outside, deliveries>>

\* The maker claims a pending row, whose lock it keeps, and broadcasts.
MakerPays(p) ==
  LET r == Tx[p].for IN
  /\ p \notin sent
  /\ bt[r].status = "pending" /\ RowFree(r)
  /\ maker' = [maker EXCEPT ![r] = p]
  /\ sent' = sent \cup {p}
  /\ UNCHANGED <<op, books, memory, work, todo, counters>>

\* Its COMMIT books the payment (98), books a doubt (97) or is lost.
MakerEnds(r) ==
  /\ maker[r] # None
  /\ \/ bt' = [bt EXCEPT ![r] = [status |-> "paid", target |-> maker[r]]]
     \/ bt' = [bt EXCEPT ![r].status = "crash"]
     \/ bt' = bt
  /\ maker' = [maker EXCEPT ![r] = None]
  /\ UNCHANGED <<op, deploy, minted, bal, memory, work, todo, sent, counters>>

-----------------------------------------------------------------------------
Begin(k) ==
  \/ \E h \in Deploys \cup Claims \cup Mints : Deliver(k, h)
  \/ \E h \in Claims \cup Mints : Poll(k, h)
  \/ \E p \in Mints : FromCache(k, p)

Claim(k) == DeployCheck(k) \/ DeployCreate(k) \/ ClaimCheck(k) \/ ClaimFull(k) \/ ClaimRow(k) \/ ClaimMint(k)
Match(k) == MemMatch(k) \/ MemMiss(k) \/ ByTarget(k) \/ ByFeatures(k) \/ DbSettle(k)
Book(c)  == Select(c) \/ NextTransfer(c) \/ CrossCheck(c) \/ CrossTake(c) \/ MoveCheck(c) \/ MovePay(c)
Run(c)   == Book(c) \/ Match(c) \/ Refuse(c)

Next ==
  \/ \E h \in Hashes : Insert(h)
  \/ \E h \in Rows \cup Mints : Expire(h)
  \/ \E k \in Workers : Begin(k) \/ Claim(k)
  \/ \E k \in Procs : Match(k) \/ Refuse(k) \/ Fails(k) \/ SettleFails(k)
  \/ \E c \in Chains : Book(c) \/ MoveFails(c)
  \/ \E p \in Pays : MakerPays(p)
  \/ \E r \in Rows : MakerEnds(r)
  \/ BookKeeping \/ Crash

Spec == Init /\ [][Next]_vars

\* The bookkeeping runs, is started again and again, and the maker's transaction ends.
Fairness ==
  /\ \A c \in Chains : WF_vars(Run(c)) /\ SF_vars(BookKeeping /\ c \in Free)
  /\ \A r \in Rows : WF_vars(MakerEnds(r))
FairSpec == Spec /\ Fairness

-----------------------------------------------------------------------------
(* Properties.                                                              *)

\* The types of the tables, of the memory services and of the handlers.
TypeOK ==
  /\ op \in [Hashes -> {"absent", "init", "valid", "refused", "matched"}]
  /\ deploy \in Deploys \cup {None} /\ minted \in Nat
  /\ bt \in [Rows -> [status: Open \cup {"none", "success"}, target: Pays \cup {None}]]
  /\ bal \in [Accounts -> Int]
  /\ mem \in [Rows -> {"no", "live", "ghost"}]
  /\ cache \subseteq Mints /\ old \subseteq Rows \cup Mints
  /\ work \in [Procs -> HandlerState]
  /\ todo \in [Chains -> SUBSET Booked]
  /\ maker \in [Rows -> Pays \cup {None}] /\ sent \subseteq Pays
  /\ deliveries \in 0..MaxDeliveries /\ faults \in 0..MaxFaults

\* A user's balance is tested before the transaction that takes from it, and
\* nothing but the test keeps it from going below zero: the claims,
\* crossovers and moves that run meanwhile on this and on other chains never
\* make it negative.
NeverNegative == \A a \in Accounts : bal[a] >= 0

Taken == {x \in Crosses : bt[x].status # "none"}
Total(S) == MapThenSumSet(LAMBDA h : Tx[h].amt, S)

\* The three tables agree: what was minted is what users hold and what has
\* left a chain and is not credited on another, and it is the sum of the
\* claims that have a row.
Conserved ==
  /\ minted = Total({c \in Claims : bt[c].status # "none"})
  /\ minted = MapThenSumSet(LAMBDA a : bal[a], Accounts)
               + Total({x \in Taken : op[x] # "matched"})

\* CLAIM_EXCEED_MAXIMUM is decided on an amount that was read before the claim
\* is minted: the record may pass its maximum, by no more than one claim of
\* every handler that is at work.
MintBound == minted < Supply + ClaimLimit * Cardinality(Workers)

\* Every claim, cross, crossover and move changes the balances once and as a
\* whole, whatever is delivered again, retried, rolled back or lost.
Applied ==
  {<<c, "source">> : c \in {c \in Claims : bt[c].status # "none"}}
  \cup {<<x, "source">> : x \in Taken}
  \cup {<<x, "target">> : x \in {x \in Crosses : op[x] = "matched"}}
  \cup {<<v, "source">> : v \in {v \in Moves : op[v] = "matched"}}

Operations == (Claims \cup Crosses \cup Moves) \X {"source"} \cup Crosses \X {"target"}
Source(o) == o[2] = "source"
OutOf == [o \in Operations |-> IF Source(o) /\ o[1] \notin Claims THEN {Account(o[1])} ELSE {}]
InOf  == [o \in Operations |->
            IF Source(o) /\ o[1] \in Crosses THEN {}
            ELSE {<<IF o[1] \in Claims THEN Tx[o[1]].who ELSE Tx[o[1]].to,
                    IF o[1] \in Moves THEN Tx[o[1]].at ELSE Tx[o[1]].dest>>}]
AmountOf == [o \in Operations |-> Tx[o[1]].amt]
AfterOf  == [o \in Operations |-> IF Source(o) THEN {} ELSE {<<o[1], "source">>}]
T == INSTANCE Tokens WITH
       Ops <- Operations, done <- Applied,
       Out <- OutOf, In <- InOf, Amount <- AmountOf, After <- AfterOf
AppliedOnce == T!TokensSpec
=============================================================================
