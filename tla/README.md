# Verification of the Orbiter maker and explorer services

This directory holds TLA+ models of the services in `apps/` and `libs/`, the TLC
configurations that check them on small instances, and TLAPS proofs for every value of
the constants. Paths below are relative to the repository.

## 1. Inventory

Orbiter is a bridge run by makers. A user sends tokens to a maker on one chain; the maker
pays the same amount, less fees, on another. The services read the transfers of the chains, build the row that is to
be paid, pay it, match the payment with it, and copy the result to an older database.

| Part | State it keeps | Operations | Hard behaviour |
| --- | --- | --- | --- |
| `explore-DataCrawler`, chains with a node | set of blocks to scan (LevelDB and memory), highest scanned block (file) | find new blocks, scan, ack, scan again | blocks added while others are scanned, crash between two stores |
| `explore-DataCrawler`, reading of blocks | none | read the transfers of a transaction from its call and its logs | batches in one transaction, a call the chain did not make true |
| `explore-DataCrawler`, chains with an API | a position per address (file) | read pages, publish, store the position | transfers made or listed while pages are read |
| `rabbit-mq` | channel, unacknowledged deliveries | publish, consume, ack, nack | repeated and lost deliveries |
| `explore-DataRefinery`, rows and amounts | none | code, nonce, fees, amount to pay | rounding, digits used as a code |
| `explore-DataRefinery`, matching | `transfers` and `bridge_transaction` rows, an index in memory | insert, match by source, match by destination | two handlers for one pair, in any order |
| `explore-DataRefinery`, inscriptions | deploy records, balances, the same rows | deploy, claim, mint, cross, crossover, move | a balance tested before it is spent |
| `maker-client` sequencer | Redis list, member set, records, Consume set; lock per queue; `bridge_transaction` rows | enqueue, dequeue, check, fence, pay, commit, retry | paying twice, never paying |
| `blockchain-account` | nonce in a file store, mutex | get nonce, broadcast, submit, roll back, refresh | refreshes beside the mutex, ambiguous broadcasts |
| `data-synchronization` | version 1 database | copy transfers and matches, by jobs and routes | runs of a job that overlap |
| `arbitration-client` | JSON file of proofs | challenge | restart |
| `maker-openapi`, `explore-open-api`, `openapi`, `metrics` | none | HTTP queries | none |
| `config`, `nestjs-consul` | configuration | watch, read | reload |
| the other libraries | none | formatting, I/O | none |

The parts call each other through RabbitMQ (crawler to refinery, refinery to maker) and
through Postgres (refinery and maker both write `bridge_transaction`, synchronization reads
it). The sequencer and the wallets live in one process: a payment takes a nonce inside the
database transaction.

What makes each part correct:

- block scanning: every block is scanned at least once, whatever crash happens; no block is
  forgotten that was not acknowledged;
- reading of blocks: each payment of a batch is found, and nothing is confirmed that the
  chain did not do;
- API scanning: no transfer is passed that was not published;
- amounts: the code and the nonce survive cutting and rounding, and the maker accepts what
  the refinery computes;
- matching: a source transfer and its payment are matched in the end, the tables agree about it,
  and a settled row stays settled;
- inscriptions: no balance is spent twice and each operation is applied once;
- sequencer: a transaction is paid at most once, is paid in the end, and only one batch of
  a queue is handled at a time;
- nonces: none is used twice, none is skipped, and every caller gets one;
- synchronization: a match is copied as a whole.

`PROJECT.json` lists every part, modelled or not, and every hazard with its line.

## 2. Modules

| Module | Models | Instance | Proofs |
| --- | --- | --- | --- |
| `Payout` | the promise for the transactions of a queue: owed, paid, booked or given up | | |
| `Sequencer` | `sequencer.schedule.ts`, `transfer.service.ts`, and of the refinery the settlement of a row | `MCSequencer` | `SequencerProofs` |
| `NonceManager` | `nonceManager/index.ts` and `sendTransaction` of the accounts | `MCNonceManager` | `NonceProofs` |
| `BlockScan` | `rpc-scanning.service.ts`, `rpc-scanning.schedule.ts`, `dataProcessor.ts` | `MCBlockScan` | `BlockScanProofs` |
| `StarkInvokes`, `Receipts` | the services of the EVM chains, of zkSync Era and of Starknet, and the parsers of the contracts | `MCReceipts` | `ReceiptsProofs` |
| `ApiScan` | the scanning services of Loopring, zkSpace and Immutable | `MCApiScan` | `ApiScanProofs` |
| `Pairing` | the promise of the matching: a set of pairs that only grows | | |
| `Matching` | `transactionV1.service.ts`, `transactionV2.service.ts`, `memory-matching.service.ts`, their schedules and messages | `MCMatching` | `MatchingProofs` |
| `Amounts`, `Builder` | `oldUtils.ts`, `bridgeTransaction.builder.ts`, and of the maker the check of the amount | `MCBuilder` | `MatchingProofs` |
| `Tokens` | the promise of the inscriptions: each operation moves its amount once | | |
| `Ledger` | `transactionV3.service.ts`, `inscription.builder.ts`, `inscription-memory-matching.service.ts` | `MCLedger` | `LedgerProofs` |
| `Sync` | `data-synchronization/src/app` | `MCSync` | `SyncProofs` |

Each model takes what the others promise. `Receipts` says what a scan of `BlockScan` publishes;
`ApiScan` and `BlockScan` publish a transfer at least once, so `Matching` and `Ledger` take an inserted
transfer as given and its delivery as repeated. `Builder` is the content of `Matching`'s
step that builds a row. `Sequencer` takes from the refinery that a source row exists with
status 0, may be delivered several times and may be settled once its payment is on chain;
`Matching` and `Ledger` have the maker's database transaction as `MakerPays` and `MakerEnds`. `SendOk`, `SendConfirmFail` and
`SendUnknown` are the outcomes of one `sendTransaction` of `NonceManager`. `Sync` reads what
`Matching` writes.

### Sequencer

One queue (`<targetChain>-<maker>`) and its executors.

| Variable | Code |
| --- | --- |
| `pipe` | commands the process has given to its one ioredis connection and Redis has not run; they run in order |
| `list`, `members`, `stored` | list `<queueKey>`, set `<queueKey>:set`, records `tx:<hash>` |
| `consumed` | set `Consume:<chain>`, the fence |
| `locked`, `recent` | `Lock[queueKey].locked`; whether `prevTime` is less than `PaidInterval` ago |
| `ex` | where each `readQueueExecByKey` call is and the hashes it holds |
| `polled` | rows a `readDBTransactionRecords` SELECT returned and not yet enqueued |
| `row`, `holder` | committed `bridge_transaction.status`; the call whose open transaction has the row locked |
| `sent` | payments broadcast for a transaction |

An action is the code from one `await` to the next. A step that runs a Redis command also
runs the code after its reply, up to the next command. Steps on Postgres and on the RPC
node are actions of their own, because they interleave with everything. `Crash` may come
between any two actions.

`Deliver` is `consumptionQueue`; `PollSelect` and `PollEnqueue` are the poll; `Sismember`,
`Lpush`, `Sadd` and `SetData` are `enqueueMessage`; `Tick` is `readCacheQueue`; `LlenReturn`
to `DelData` are `readQueueExecByKey` with its two dequeue helpers; `Dispatch` is
`consumptionSendingQueue`; `Recheck`, `CheckPasses`, `CheckRefuses`, `Mark` and `Group` are
the five `paid*` functions, which differ in the loop over the batch only; `ReadRow` to
`CommitFails` are the five `exec*Transfer` functions; `Unconsume` is
`handlePaidTransactionError`; `Settle` is `handleTransferByDestTx` of the refinery.

Postgres at its default isolation: a SELECT sees committed rows only and takes no lock, an
UPDATE waits for the row's lock, and the new status is seen after COMMIT. `row` therefore
never holds 96 (`READY_PAID`): no other transaction ever sees it.

### NonceManager

One wallet on one chain. `local` and `mutex` are the store and the mutex; `ctor`, `force` and
`auto` are the constructor, `forceRefreshNonce` and the timer, the last two beside the mutex;
`call` is each `sendTransaction`; `accepted` and `pending` are the chain, which takes any
nonce not below the one it expects. A node may answer up to `Lag` below the
real count. Three kinds of accounts differ as the code does: EVM accounts reserve the nonce
before it is handed out (`beforeCommit`) and refuse one too far from the network's, zkSync-like
accounts store it on submit, Starknet accounts do neither submit nor rollback on an error.
`Prepare` is what an EVM account does between the nonce and the broadcast: it may take a larger nonce
from `populateTransaction`, and does not read the store again.

### BlockScan

One chain. `db` and `next` survive a restart: the keys in LevelDB and the file (which the
field `nextMaxScanBlockNumber` always equals). `queue` and `taken` are `dataSet` and `processingSet`; `load`
is `initStoreData` on its way; `height` and `scan` are the two loops, which run under two mutexes and so
interleave; `published` are the blocks whose transfers were all sent. `HeightStart` to `HeightFile`
are `checkLatestHeight` with `createRangeScanData`, `push` and `changeMaxScanBlockNumber`;
`ScanStart` to `AckForget` are `executeCrawlBlock` with `getProcessNextBatchData`, `scanByBlocks`,
`noAck` and `ack`. A batch is any choice of untaken blocks of its size; the code takes
the oldest of the set, and no property depends on it. The put and the delete of two loops may
reach LevelDB in either order.

### Receipts and StarkInvokes

A pure reading: `Scan` takes a `block` and sets `found` to the list of transfers the services
hand on, or to `Thrown`, for which the block is scanned again. A transaction is a record of
what the readers look at: the call (method, receiver, token, value, the call inside it), the
receipt's status, the number of its first log, and the logs (who pays whom how much of which
token). `HandleBlock` has the three pipelines: `TransfersV6`, `TransfersV5` and `EraAfter` for the services of the EVM chains,
`HandleInvoke` for Starknet's calls and events. Each parser of a contract (`OrbiterRouterV3`,
`XBridge`, `TransitFinanceRouterV5`, `Rubic`, `CrossInscriptions`, `OBSource`, `OrbiterRouterV1`) is
an operator that says which transfers the method gives and which log it asks for. What a parser does
with a method that is not its own is modelled as it is: `Interface2.parseTransaction` throws for a selector the ABI does not
have, so that the block is refused and scanned again with the same result; a function of the ABI that nobody handles, or
one whose arguments are cut short (method "unread"), gives no transfers.

### ApiScan

One address on one chain. `listed` is what the API shows, each transfer some time after it
was `made`; `pos` is the position in the file, `scan` the scan under way, `sent` what reached the
broker. `Start`, `Answer`, `Send` and `Store` are the steps of a scan between two awaits; a call or a publication
may fail in the middle (`AskFails`, `SendFails`) and the service may stop (`Crash`). `HTTPGet` does not look at the status
of a response, so an answer that is an error is no failing call for Loopring and zkSpace: it has no list of transfers and counts as an
empty page, after which the position moves (`AskRefused`). `unread` collects what a scan would pass that way and `hidden`
what a stored position has passed; both are ghosts that no step reads. The services differ in the page they ask
for (`ByTime`, `ByOffset`, `Forward`), when they ask for another (`More`), and the position they leave.
Three things are assumed of the APIs, since nothing in the repository says more: Loopring lists a
transfer within a second, the others list in the order of time, and of the transfers with one timestamp
there are fewer than a page holds (`Make`).

### Amounts and Builder

Amounts are naturals of a token's smallest unit, and a string operation on them is what it does
to their decimal digits. `Amounts` has the operators of `oldUtils.ts`: reading the code of a
deposit, writing the nonce into a payment, cutting to what a chain can store. `Builder` has one
operator for each row builder and step of `Outcome`: which chain, token and receiver the deposit names,
the rule that applies, the fees, the amount. The code's failures are outcomes of their own, in the code's order: a deposit is refused, or
building it throws (`Thrown`), as for a token that is not in the configuration (`Listed`) or whose decimals are not there; an amount may
be `NaN`, as after a swap without a quote. `Build` computes the row of one deposit `tx`. `Ten[k]` is
10^k, as a recursive function, so that the proofs can use its equation; `ReadyAmount` is the
code's `readyAmount`, what is left after the fees and before the nonce is put in; `Undefined` stands for
nothing returned. Digits are looked for up to `MaxWidth`.

### Matching

| Variable | Code |
| --- | --- |
| `bt`, `op` | committed `bridge_transaction` rows (status, target) and `transfers.opStatus` |
| `mem`, `cache` | the memory index of rows and of payments; a "ghost" is an entry whose transaction was rolled back |
| `work` | the handlers under way: where they are, what they have read, what their open transaction has written |
| `maker` | the maker's open transaction on a row |
| `old` | hashes more than 20 minutes old, which the memory does not take |
| `past` | hashes older than the 48 or 24 hours the schedules select from |

`SrcSelect` to `SrcCommit` are `handleTransferBySourceTx`; `Lookup`, the `Mem*` steps, `ByTarget`, `ByFeatures`,
`Save` and the `Db*` steps are `handleTransferByDestTx`, from memory and then from the
database; `SrcFails`, `MemFails` and `DbFails` roll back and leave in memory what was put there.
A step is one statement of the database transaction. At READ COMMITTED an UPDATE waits for the transaction that has the row and
tests its WHERE again; a unique index refuses the second insert.

Nothing keeps two deposits from owing the same to one address, nor two payments from being alike, as after the
double payment of `SeqUnfenced`. The database's path finds a row by its features and then updates it by its id, without a condition on its status
(`Save`), so handlers of two alike payments that overlap may both settle one row, and a payment may settle two. `Pairing` allows
both: what it promises is that a settled row stays settled, by a payment of its features.

### Ledger

One tick of inscriptions. `deploy` and `minted` are the deploy record, `bal` the balances,
`bt`, `op`, `mem`, `cache` and `maker` as in `Matching`. Claims and mints are handled by workers; crosses, crossovers and moves
by one run per chain (`Book`), which takes its transfers in the order of time. Balance and minted amount are read
in one step and written in a later one, as the code reads them before its transaction. A claim reads the deploy record
first, then its row (`ClaimRow`), and is refused for the supply only when the row is not paid yet (`ClaimFull`).

### Sync

`seen`, `op`, `synced` and `bridge` are the version 3 rows, `v1` and `maker` the version 1 rows, `w` the
workers: runs of `syncV3BridgeTraxToV1` (`Select` to `SaveStatus`), of `readV1NotMatchTx` (`SelectUnmatched` to
`Commit`) and calls of the two routes (`ManualSync`, and `ManualBridge` with the reads `ReadPair`, `ReadSource` and
`ReadTarget`). The mutexes of the jobs are tested and never taken, so runs overlap. A step is one database operation. `past` are the
deposits whose copies are older than `readV1NotMatchTx` selects.

## 3. Runs

| Run | Instance | Shows |
| --- | --- | --- |
| `SeqSingle` | '1-0' transfers, 2 transactions, 2 calls, 1 crash, failing COMMIT | one payment, one executor, fenced, `Payout` implemented, the invariant of the proofs |
| `SeqBatch` | '3-0' inscriptions in a batch of 2, 1 crash | one payment, `Payout` implemented |
| `SeqLive` | fair, no crash | every owed row is settled; the member set is right |
| `SeqUnfenced` | '1-0' batch of 2, one failing COMMIT, no crash | two payments of one transaction |
| `Nonce` | 2 calls, 3 payments, 1 failure, 1 restart, up-to-date node | no used nonce, no gap, each call ends |
| `Scan` | 5 blocks, batches of 2, 1 failure, 1 restart | no block lost or skipped, each is scanned |
| `Receipts` | 24,000 blocks of one or two transactions | batches are complete, what is confirmed was paid |
| `ApiScan` | 3 services, 5 transfers, two of them in one second, 1 failure or error answer, 1 restart | nothing missed, each transfer is sent, but for what an error answer hid |
| `Amount` | 13,000 deposits at the limits | code and nonce are read back, the maker accepts |
| `Match` | 3 deposits, two of them alike, 2 alike payments, 2 workers, 1 repeated delivery, 1 failure or restart or old transfer | tables agree, `Pairing` implemented, matched in the end or past the window |
| `Ledger` | 2 deploys, 3 claims, a mint, a cross, a crossover, a move, 2 workers | covered, conserved, bounded, `Tokens` implemented |
| `Sync` | 1 deposit, 1 run and 2 overlapping ones, 1 route, 1 restart | copied together, copied in the end or past the window |

Bounds. Two transactions are the least that make a batch, and two calls the least that
overlap; three payments are the least that make a gap and fill it. One crash and
one or two failures are enough because each counterexample met while modelling needs at most one of each, and
the theorems show that the invariants hold for any number. `MaxPipe` and `MaxQueue` bound
commands in flight and copies of a hash when new work is started; work under way is never
blocked. In `Scan` a batch of two lets one block fail and the other pass, `Rewind` 2 goes back into
blocks that are being scanned, and five blocks let the range be pushed three times. In `ApiScan` a page
of three holds two transfers of one second and one more, so that reading pages backwards goes
on, and the five transfers make two pages, of which four are sent and one is received. In `Ledger` a `CONSTRAINT` keeps apart what does not meet: bookkeeping with two claims,
a mint with one, and three claims alone, which is what passing the supply needs. In `Match` one (`Scope`) keeps apart
the alike deposits, the repeated delivery, and the failures beside a V2 deposit; no action that is taken to be fair leads out of it, so it
weakens no liveness.
`Receipts` and `Amount` are exhaustive over the deposits and blocks of their MC modules, whose
numbers stand at the limits of the rules (ids that end in zeros, nonces 0 and 8999, the largest amount a chain stores). Decimals are
scaled from 18 to 7, the digits of an amount to 9 (`MaxWidth`), and the limits 2^35 - 1 and 2^28 - 1 keep their first and last four digits. Symmetry is used in safety runs only. `CHECK_DEADLOCK FALSE` is
said where the system stops because the bounded work is done.

Fairness. `Sequencer!FairSpec` assumes that Redis, Postgres and the node answer (each call's
steps are weakly fair), that the clock runs, and that the poll and the tick fire. Ticks and
the poll's enqueueing are strongly fair, because the bounds of the model, and not the code,
disable them again and again. Deliveries, failures, crashes and the refinery need not
happen. `NonceManager!FairSpec` assumes that the node answers or fails, that the store answers,
and that `async-mutex` serves first come, first served, hence strong fairness of
`Acquire`. The timer need not fire. `BlockScan!FairSpec` assumes that both one-second intervals fire and that the
node, the broker and LevelDB answer; new blocks need not come. `ApiScan!FairSpec` assumes that scans are
started and answered, the clock runs, and a transfer that was made is listed. `Matching!FairSpec` assumes that a handler goes
on, the maker's transaction ends, the crawler stores what is on the chain, and the schedule comes back to an unmatched
payment (strongly fair, since it waits for a free worker). The schedules select the newest 500 or 1000 transfers of the last 48 hours (version
2: 24). A payment behind the limit is polled when the newer ones are gone, unless it gets too old before; `Pass` may take any payment
past the window at any time, from where no fairness brings it back, and `EventuallyMatched` excepts it. It also allows that the row goes to a payment like this one. `Sync!FairSpec` assumes that a worker goes on and that the second
job comes back to a copy that stays selected; its two calls select the oldest 500 of 20 minutes and the newest 1000 of 24 hours,
and `MatchCopied` excepts a deposit past that (`Pass`) likewise. Of the first job it assumes nothing.

Violation. `SeqUnfenced`: a batch of '1-0' transfers never gets its Consume mark, so after a COMMIT that fails
behind the broadcast (`CommitFails` in the trace) nothing keeps the poll from having its transactions paid again. It is quoted in `PROJECT.json` under "findings".

What does not hold and no comment of the code promises is written at its hazard in `PROJECT.json`. Among them: a row with status 97 is not
paid later; a crash after the Consume mark leaves a row unpaid, a crash between LREM and SREM
leaves a hash in the member set; a node that lags lets a used nonce be handed out; a Starknet
broadcast that fails keeps the mutex; a LevelDB slower than the node replaces a set that was added to; a crossover
whose row names it already throws at each attempt; a source copied before its payment is stored
is not selected again; a transfer that an API's error answer hid, or that shares its time with the position of zkSpace or Immutable, is not read later;
a call of a contract with an unknown selector keeps its block from being read; two alike payments may settle one row; a payment on zkSync Lite whose first six digits are those of the limit 2^35 - 1 is read
with another nonce than was put in, since whether the nonce stands behind ten or eleven digits is decided by comparing
digits that the nonce is among (`NonceReadBack` excepts it, `StartsAsLimit`).

## 4. Proofs

`SequencerProofs` proves for every set of transactions and any number of concurrent calls,
crashes, failures and deliveries:

- `TypeCorrect`: `TypeOK`, in every configuration;
- `Invariant`, and from it `PaidOnce`, `Fencing`, `MarksStay`: at most one payment, an unbooked payment is fenced, no
  mark is taken off a paid transaction, when also each batch is fenced: inscriptions, or
  transfers paid one by one (`SafeConfig`). `SeqUnfenced` shows that fencing cannot be dropped.

The properties are
not inductive by themselves. It is assumed that Redis answers between two ticks (`PromptRedis`), so that two ticks are never both waiting for LLEN and
the lock admits one call (`Mutex`, and with it `OneExecutor` as the lemma `OneAtATime`). This is a hypothesis on the environment and not shown of the code: the lock is tested before
`await llen` and set after it, and with a Redis slower than the second between two ticks two calls pass it. A retry was issued before its call unlocked, so it runs ahead of all commands of the
next call: past LLEN nothing takes marks off (`PipeOrder`). What `Filter` lets through is unfenced, hence unpaid, and stays so until the call
marks it (`Batches`); so a retry unmarks unpaid transactions only (`Fenced`). `Inductive`
is the conjunction; TLC checks it as an invariant of `SeqSingle`.

- `QueuedOrLeaving`: until a crash, what is in the member set is in the list or its SREM is under way
  (`MemberIsQueued`), in every configuration.

This needs neither the lock nor a prompt Redis, but the order of the pipe: a call has at most one command in flight
(`OneCommand`), and an SADD whose hash is no longer in the list has the SREM of the call that took it out
behind it (`AddedIsQueued`). Without the second part the property is not inductive, since `enqueueMessage` pushes to the
list before it adds to the set and a call may take the hash in between.

The module also proves that the sequencer implements `Payout` under `SafeConfig` (`Implements`). `Claimed` adds to `Inductive` that from the
UPDATE to the COMMIT the rows of a batch are open and locked by the call, so that the
refinery settles no part of it; the UPDATE of a batch claims all of it, since it finds as many
rows as the batch has hashes (`AllOwed`). A broadcast is then a `Pay` of the batch, a COMMIT a `Book` or a `GiveUp`, a settlement a `Book` of one,
and every other step changes nothing that `Payout` sees.

`NonceProofs` proves `TypeOK`; `NeverExpired` when nodes are up to date (`Lag = 0`); `NoGap` for
every `Lag`. The first needs that only the holder of the mutex is past the acquisition
(`Holding`) and that an answer read under the mutex stays up to date because only the holder
broadcasts (`UpToDate`); the second that no value stored, read or on its way exceeds the
count or the count plus the nonce reserved (`NotAhead`).

`BlockScanProofs` proves `TypeOK`, `Durable` and `NothingSkipped` for every configuration, and
`StoredIsQueued` when LevelDB lists its keys before the node answers (`PromptLevel`).
The invariants: the blocks on their way to LevelDB are a range that
starts at the file or before (`Ranged`); what is to be deleted is published, and what
the file is about to pass is stored or published (`Safe`); until the keys are listed nothing is stored
or scanned (`Findable`).

`ApiScanProofs` proves `TypeOK` and `NothingMissed` for any number of transfers, failures and restarts and every
size of a page above one. Why a scan may pass what it did not read differs per service: on Loopring all that
is newer than the last page was read (`Backwards`); on zkSpace what was not read has, counted from the newest, a number of
at least the next offset, which transfers listed meanwhile only raise (`ByNumber`); on Immutable a page holds all between the side's
position and the newest of the page (`Forwards`). What an error answer ends a page for is in `unread`, and in `hidden` once the position is stored,
so the theorem says that nothing else is passed unread; of zkSpace and Immutable it speaks of the transfers that share their time with no other (`Told`). They rest on how each API lists (`Clocked`, `InOrder`),
and on a stored position being in the past or right behind a listed transfer (`PosOk`).

`ReceiptsProofs` proves `BatchComplete` and `PaidFor` for all blocks and contracts. The transfers found are a selection of a
concatenation, and neither `FlattenSeq` nor a fold says where an element comes from, so `Laid` and `Chosen`
give each place of the result its place in the parts: none is lost and none doubled. `FlattenSeq`
is followed to its last element by the least place at which it would differ. Then a transfer carries the hash of one log of one call of one
transaction, which keeps the payments of a batch apart (`Owned`, `Apart`), and each reader is gone through for what it requires
before it says "confirmed". `BlocksAssumption` says of the blocks what a node promises: lists are lists, hashes are unique in a block,
and a Starknet transaction that was not executed has no events.

`MatchingProofs` proves `TypeOK` and `BooksAgree` for any number of transfers, workers, deliveries and
rollbacks, and that the matching implements `Pairing` (`Implements`), from `MatchInv`: what each row, payment, maker's transaction and handler relies on,
and that at most one handler creates a row (`OneCreator`). Nothing is assumed of the features: alike deposits and alike payments are
among the instances, and what the theorems say of them is what still holds then.

`LedgerProofs` proves `TypeOK`, `NeverNegative`, `MintBound`, `Conserved` (`Balances`) and that the service implements
`Tokens` (`Implements`). `LedgerInv` says that a chain's run is the only one that takes from the chain's
balances, so that a balance read before the transaction still covers it (`Covers`, `HandlerOK`, `BookOK`), that a row and its opStatus tell
whether an operation was applied (`RowOK`), and that the claims between the read and the write of
the minted amount are no more than the workers (`MintOK`). `Conserved` follows from the refinement: a step
applies no operation or one of `Tokens`, whose amount leaves one of the sums and enters another (`EvenStep`). The sums are the
library's folds, which choose an order; they are shown to be the one additive function on the subsets of a finite set (`SumsAgree`), and from
there a sum changes by what changes of its terms.

`MatchingProofs` also holds the proofs about the rows of `Builder`, for every set of deposits, chains,
tokens and rules. A row is built once (`BuildInv`), so each theorem is about the arithmetic of
one `Outcome`. The digits are reached through the powers of ten: `TenDef` shows that `Ten` satisfies its equation, and what would be
an induction is the choice of a least counterexample (`LeastNat`). From there come the laws of `Cut`, `Width` and `Zeros`.

- `CodeRead`: `CodeIsRead`. The zeros at the end of a code decide how much of it is left, and each
  case is gone through; five decimals keep the point of the decimal string out of the window that is read.
- `RoundTrip`: a code written into an amount is read back, for any limit. The digits
  that the code is put before are zeros, since the amount without them fits; so writing it changes neither the width of the amount nor,
  unless the amount starts as the limit does, the comparison with the limit, and the reader counts as many digits
  behind the code as the writer did. The packing of zkSync Lite cuts no digit of the code.
- `NonceKept`: `NonceReadBack`, from `RoundTrip`, when what is left after the fees fits (`Stored`): it has no more
  significant digits than the chain stores. The code calls an amount that does not "inValid" and puts the nonce at its end, where packing may cut it off.
- `NeverAbove`: `MakerAccepts`, when the fee is worth what the nonce and the roundings may add
  (`FeeCovers`). Without this it is false: the nonce replaces the last digits of what is left, and a fee of less than 9000
  units does not make up for it. The hypothesis speaks of the rule, the tokens and the
  place of the nonce, not of the result.

`KnownCodes` and `KnownLimits` are the hypotheses on the configuration: ids of `CHAIN_INDEX`
(1 to 99 and 510 to 599), tokens of five decimals or more, limits of six digits or more. `MCBuilder` has TLC evaluate
them in `Amount`. `InBound` keeps amounts within `MaxWidth` digits, which is any number.

`SyncProofs` proves `TypeOK` and `Together` for any number of deposits, runs, calls and restarts: the
only step that makes a row 99 stores the match in the same transaction, and the upsert does not write `outId`.

Assumptions on the constants. Each is named and evaluated by TLC in the runs of its module: sets that are summed or
counted are finite (`FiniteAssumption`), `BlocksAssumption` as above, and of the configuration that chains with formats of their own
are different chains (`AmountsAssumption`, `BuilderAssumption`).

Only model-checked: liveness (`EveryOwedSettled`, `EveryCallEnds`, `EachBlockScanned`, `EventuallySent`,
`EventuallyMatched`, `MatchCopied`), which is out of the prover's reach; and `MakerAccepts` for the deposits of
`Amount` whose fee does not satisfy `FeeCovers` (643 of 7,340), where it holds by the digits of the instance. In the states of `Amount` with a computed amount, `Stored` always holds.

## 5. Not modelled

- `Sequencer`: two ticks that both wait for LLEN (the runs and all theorems but the types and `QueuedOrLeaving` have `PromptRedis`); Redis errors and reconnections, the expiry of a record after 24 hours and of the poll's age
  limit (so `EveryOwedSettled` speaks of transactions young enough to be polled), a batch size
  of zero (payments switched off); the checks of the validator, which pass or refuse.
- `BlockScan`: a torn write of the crawler's file; `manualScanBlocks`; the creation of scanners.
- RabbitMQ: a message lost in an unconfirmed buffer, and channels that close or reject several
  deliveries at once. The handlers' models take any repetition or delay.
- Reading of blocks: decoding of calldata and units, the fees the services of the rollups add.
- API scanning: zkSync Lite, whose paging rests on what its API answers to `from=latest`, which
  nothing in the repository says; the statuses of transfers, so a zkSpace transfer read while it
  is pending is only listed as a hazard.
- Matching and `Sync`: which transfers are behind the limits of 500 and 1000, beyond their being polled late or never; the first job of
  `Sync` selects what is 1 to 120 minutes old, and nothing is said of a deposit it does not select.
- Matching: the fuzzy matching, which nothing calls; refunds; transfers that failed on chain.
- Rows: the addresses of cross-address transfers, prices, the version 2 builder; that a whole amount of Immutable is divided as a double.
- Inscriptions: parsing of the payload.
- Wallets: gas, calldata, receipts, and the Immutable X account, which has no nonce. Also `approve`, which an EVM account
  sends with the node's pending nonce, beside the mutex, before it pays a batch of tokens (`evmAccount.ts:373`): `NeverExpired` and `NoGap` speak of
  wallets that send none between another call's nonce and its broadcast. zkSpace's own nonce in place of 0 and NaN and Loopring's storage ids.
- `arbitration-client`: the contracts that decide on a challenge are not in the repository.
- HTTP services, metrics, configuration and I/O libraries have no protocol of their own.

## 6. What could come next

1. `MqConsumer`: acknowledgement of several deliveries at once with a prefetch of ten, and channels
   that close; then the crawler and the refinery composed through it.
2. Refunds and failed transfers in `Matching`.
3. An abstract specification of `BlockScan` and `ApiScan` (a set of published transfers behind a position)
   that both implement.
4. `arbitration-client`, as far as its file and its retries go.
