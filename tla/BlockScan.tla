------------------------------- MODULE BlockScan -------------------------------
(***************************************************************************)
(* The crawler's block scanning on one chain: the DataProcessor with its   *)
(* LevelDB store, its sets in memory and its file, and the two loops that  *)
(* run on it under different mutexes: checkLatestHeight adds the blocks    *)
(* that are confirmed, executeCrawlBlock scans a batch of them, publishes  *)
(* its transfers and acknowledges it.                                      *)
(*                                                                         *)
(* A step runs up to the next await on the node, the broker or LevelDB. A  *)
(* message given to RabbitMQ is taken to reach it.                         *)
(***************************************************************************)
EXTENDS Integers, FiniteSets, FiniteSetsExt

CONSTANTS
  FirstHead,    \* the chain's height when the crawler is first started
  BatchLimit,   \* blocks scanned at a time, and scanned back at the very start
  Confirm,      \* targetConfirmation
  Rewind,       \* blocks gone back after a restart (100 in the code)
  PromptLevel,  \* LevelDB lists its keys before the node first answers
  MaxHead,      \* bound: height of the chain
  MaxFaults,    \* bound: failing calls of the node, the broker and LevelDB
  MaxCrashes    \* bound: restarts

ASSUME ScanAssumption ==
  /\ BatchLimit \in Nat \ {0}
  /\ {FirstHead, Confirm, Rewind, MaxHead, MaxFaults, MaxCrashes} \subseteq Nat
  /\ FirstHead > BatchLimit + 1
  /\ PromptLevel \in BOOLEAN

VARIABLES
  head,       \* height of the chain
  db,         \* keys in LevelDB
  next,       \* nextMaxScanBlockNumber, equal to the file's content; 0: no file
  queue,      \* dataSet
  taken,      \* processingSet
  load,       \* initStoreData: the keys it has read, until it has stored them
  latest,     \* rpcLastBlockNumber
  height,     \* checkLatestHeight
  scan,       \* executeCrawlBlock
  published,  \* blocks whose transfers are all published
  faults, crashes

level    == <<db, next>>
memory   == <<queue, taken, load>>
counters == <<faults, crashes>>
vars     == <<head, level, memory, latest, height, scan, published, counters>>

NoHeight == [pc |-> "idle", new |-> {}]
\* todo: blocks without an outcome yet; acks and noAcks: the others.
NoScan   == [pc |-> "idle", todo |-> {}, acks |-> {}, noAcks |-> {}]
Loaded   == [done |-> TRUE, keys |-> {}]

Init ==
  /\ head = FirstHead
  /\ db = {} /\ next = 0
  /\ queue = {} /\ taken = {} /\ load = [done |-> FALSE, keys |-> {}]
  /\ latest = 0 /\ height = NoHeight /\ scan = NoScan
  /\ published = {} /\ faults = 0 /\ crashes = 0

Fault == faults < MaxFaults /\ faults' = faults + 1

NewBlock ==
  /\ head < MaxHead
  /\ head' = head + 1
  /\ UNCHANGED <<level, memory, latest, height, scan, published, counters>>

\* initStoreData, un-awaited by the constructor, replaces the set.
LoadDone ==
  /\ ~load.done
  /\ queue' = load.keys
  /\ load' = Loaded
  /\ UNCHANGED <<head, level, taken, latest, height, scan, published, counters>>

-----------------------------------------------------------------------------
(* checkLatestHeight, createRangeScanData and push.                         *)

HeightStart ==
  /\ height.pc = "idle"
  /\ height' = [NoHeight EXCEPT !.pc = "rpc"]
  /\ UNCHANGED <<head, level, memory, latest, scan, published, counters>>

\* Mutant of From: gone back whatever the block.
FromBelow(v) ==
  LET last == IF next = 0 THEN v - BatchLimit ELSE next
  IN  IF latest = 0 THEN last - Rewind ELSE last

\* The first block that counts as not scanned: BatchLimit back when there is no
\* file; Rewind earlier when rpcLastBlockNumber was empty.
From(v) ==
  LET last == IF next = 0 THEN v - BatchLimit ELSE next
  IN  IF latest = 0 /\ last > Rewind THEN last - Rewind ELSE last

\* The node answers v: the confirmed blocks enter the set at once (and leave the
\* processing set) and are on their way to LevelDB.
Found(v) ==
  LET new == From(v) .. v - Confirm
  IN  /\ height.pc = "rpc"
      /\ PromptLevel => load.done
      /\ latest' = v
      /\ next' = IF next = 0 THEN v - BatchLimit ELSE next
      /\ queue' = queue \cup new
      /\ taken' = taken \ new
      /\ height' = IF new = {} THEN NoHeight ELSE [pc |-> "put", new |-> new]
      /\ UNCHANGED <<head, db, load, scan, published>>

HeightAnswer == Found(head) /\ UNCHANGED counters

\* Another node, one block behind.
HeightLags == Fault /\ Found(head - 1) /\ UNCHANGED crashes

\* The call fails or times out, or a node that is syncing answers 0, which leaves
\* rpcLastBlockNumber empty.
HeightFails ==
  /\ height.pc = "rpc"
  /\ Fault
  /\ latest' \in {0, latest}
  /\ height' = NoHeight
  /\ UNCHANGED <<head, level, memory, scan, published, crashes>>

\* Mutant of HeightPut: a failing batch is taken for done.
HeightPutLost ==
  /\ height.pc = "put"
  /\ height' = [height EXCEPT !.pc = "file"]
  /\ UNCHANGED <<head, level, memory, latest, scan, published, counters>>

HeightPut ==
  /\ height.pc = "put"
  /\ db' = db \cup height.new
  /\ height' = [height EXCEPT !.pc = "file"]
  /\ UNCHANGED <<head, next, memory, latest, scan, published, counters>>

HeightPutFails ==
  /\ height.pc = "put"
  /\ Fault
  /\ height' = NoHeight
  /\ UNCHANGED <<head, level, memory, latest, scan, published, crashes>>

\* changeMaxScanBlockNumber: the file and the field.
HeightFile ==
  /\ height.pc = "file"
  /\ next' = Max(height.new) + 1
  /\ height' = NoHeight
  /\ UNCHANGED <<head, db, memory, latest, scan, published, counters>>

-----------------------------------------------------------------------------
(* executeCrawlBlock.                                                       *)

\* getProcessNextBatchData: up to BatchLimit of the blocks that are not taken.
ScanStart ==
  LET free == queue \ taken
      n    == IF Cardinality(free) < BatchLimit THEN Cardinality(free) ELSE BatchLimit
  IN  /\ scan.pc = "idle"
      /\ free # {}
      /\ \E batch \in kSubset(n, free) :
           /\ taken' = taken \cup batch
           /\ scan' = [NoScan EXCEPT !.pc = "blocks", !.todo = batch]
      /\ UNCHANGED <<head, level, queue, load, latest, height, published, counters>>

\* The block is fetched and parsed and the transfers of watched addresses are sent.
BlockScanned ==
  /\ scan.pc = "blocks"
  /\ \E b \in scan.todo :
       /\ published' = published \cup {b}
       /\ scan' = [scan EXCEPT !.todo = @ \ {b}, !.acks = @ \cup {b}]
  /\ UNCHANGED <<head, level, memory, latest, height, counters>>

\* Mutant of BlockFails: an error of the block is taken for a block without transfers.
BlockEmpty ==
  /\ scan.pc = "blocks"
  /\ Fault
  /\ \E b \in scan.todo : scan' = [scan EXCEPT !.todo = @ \ {b}, !.acks = @ \cup {b}]
  /\ UNCHANGED <<head, level, memory, latest, height, published, crashes>>

\* The block, a receipt or the publishing fails, twice where it is retried.
BlockFails ==
  /\ scan.pc = "blocks"
  /\ Fault
  /\ \E b \in scan.todo : scan' = [scan EXCEPT !.todo = @ \ {b}, !.noAcks = @ \cup {b}]
  /\ UNCHANGED <<head, level, memory, latest, height, published, crashes>>

\* Mutant of ScanDone: what is not acknowledged leaves the data set.
ScanDropped ==
  /\ scan.pc = "blocks" /\ scan.todo = {}
  /\ queue' = queue \ scan.noAcks
  /\ taken' = taken \ scan.noAcks
  /\ scan' = IF scan.acks = {} THEN NoScan ELSE [scan EXCEPT !.pc = "del"]
  /\ UNCHANGED <<head, level, load, latest, height, published, counters>>

\* Mutant of ScanDone: what is not acknowledged stays taken.
ScanKept ==
  /\ scan.pc = "blocks" /\ scan.todo = {}
  /\ scan' = IF scan.acks = {} THEN NoScan ELSE [scan EXCEPT !.pc = "del"]
  /\ UNCHANGED <<head, level, memory, latest, height, published, counters>>

\* noAck, and ack's batch of deletions when there is something to acknowledge.
ScanDone ==
  /\ scan.pc = "blocks" /\ scan.todo = {}
  /\ queue' = queue \cup scan.noAcks
  /\ taken' = taken \ scan.noAcks
  /\ scan' = IF scan.acks = {} THEN NoScan ELSE [scan EXCEPT !.pc = "del"]
  /\ UNCHANGED <<head, level, load, latest, height, published, counters>>

AckDelete ==
  /\ scan.pc = "del"
  /\ db' = db \ scan.acks
  /\ scan' = [scan EXCEPT !.pc = "forget"]
  /\ UNCHANGED <<head, next, memory, latest, height, published, counters>>

\* The blocks stay in both sets: they are not handed out again.
AckDeleteFails ==
  /\ scan.pc = "del"
  /\ Fault
  /\ scan' = NoScan
  /\ UNCHANGED <<head, level, memory, latest, height, published, crashes>>

AckForget ==
  /\ scan.pc = "forget"
  /\ queue' = queue \ scan.acks
  /\ taken' = taken \ scan.acks
  /\ scan' = NoScan
  /\ UNCHANGED <<head, level, load, latest, height, published, counters>>

\* LevelDB and the file survive; the constructor reads the keys again.
Crash ==
  /\ crashes < MaxCrashes /\ crashes' = crashes + 1
  /\ queue' = {} /\ taken' = {} /\ load' = [done |-> FALSE, keys |-> db]
  /\ latest' = 0 /\ height' = NoHeight /\ scan' = NoScan
  /\ UNCHANGED <<head, level, published, faults>>

HeightStep ==
  HeightAnswer \/ HeightLags \/ HeightFails \/ HeightPut \/ HeightPutFails \/ HeightFile

ScanStep ==
  BlockScanned \/ BlockFails \/ ScanDone \/ AckDelete \/ AckDeleteFails \/ AckForget

Next == NewBlock \/ LoadDone \/ HeightStart \/ HeightStep \/ ScanStart \/ ScanStep \/ Crash

Spec == Init /\ [][Next]_vars

-----------------------------------------------------------------------------
(* Properties.                                                              *)

Block == Nat \ {0}

HeightState == [pc : {"idle", "rpc", "put", "file"}, new : SUBSET Block]
ScanState   == [pc : {"idle", "blocks", "del", "forget"},
                todo : SUBSET Block, acks : SUBSET Block, noAcks : SUBSET Block]

\* The types of the state; going back never reaches block 0 or below.
TypeOK ==
  /\ head \in Nat /\ FirstHead <= head /\ next \in Nat /\ latest \in Nat
  /\ db \subseteq Block /\ queue \subseteq Block /\ taken \subseteq Block
  /\ published \subseteq Block
  /\ load \in [done : BOOLEAN, keys : SUBSET Block]
  /\ height \in HeightState /\ scan \in ScanState
  /\ faults \in Nat /\ crashes \in Nat

Kept == db \cup published

\* A block in LevelDB leaves it only when its transfers are published, whatever
\* is pushed again, fails or crashes while it is scanned.
Durable == [][Kept \subseteq Kept']_vars

\* The file moves past a block only when the block is stored or published, so
\* that no crash between the two stores skips one.
NothingSkipped == [][next # 0 => next .. next' - 1 \subseteq Kept']_vars

\* "Push data to the data set" (push): a block this process has stored is in its
\* data set, where executeCrawlBlock finds it, or it is published.
StoredIsQueued == load.done => db \subseteq queue \cup published

\* Every confirmed block the file is not past is scanned in the end.
EachBlockScanned ==
  \A b \in FirstHead .. MaxHead :
    (next # 0 /\ next <= b /\ b <= head - Confirm) ~> (b \in published)

\* The intervals fire, and the node, the broker and LevelDB answer. New blocks,
\* failures and crashes need not happen.
FairSpec ==
  /\ Spec
  /\ WF_vars(LoadDone) /\ WF_vars(HeightStart) /\ WF_vars(HeightStep)
  /\ WF_vars(ScanStart) /\ WF_vars(ScanStep)

=============================================================================
