--------------------------- MODULE BlockScanProofs ---------------------------
(***************************************************************************)
(* Proofs about BlockScan, for every value of its constants: its types,    *)
(* that a stored block is kept until it is published, that the file never  *)
(* moves past a block that is neither, and, when LevelDB lists its keys    *)
(* before the node answers, that a stored block is found by the scanner.   *)
(***************************************************************************)
EXTENDS BlockScan, TLAPS

\* The first block to scan and the confirmed ones are above 0.
LEMMA FromType ==
  ASSUME next \in Nat, NEW v \in Int, FirstHead - 1 <= v
  PROVE  /\ From(v) \in Block
         /\ v - BatchLimit \in Block
         /\ From(v) <= (IF next = 0 THEN v - BatchLimit ELSE next)
  BY ScanAssumption DEF From, Block

\* A range from a block on consists of blocks.
LEMMA RangeType == \A a \in Block, b \in Int : a .. b \subseteq Block
  BY DEF Block

\* The greatest number of a range is its end.
LEMMA MaxOfRange ==
  ASSUME NEW a \in Int, NEW b \in Int, a <= b
  PROVE  Max(a .. b) = b
  <1>1. b \in a .. b /\ \A y \in a .. b : b >= y
    OBVIOUS
  <1>2. \A x \in a .. b : (\A y \in a .. b : x >= y) => x = b
    OBVIOUS
  <1>. QED  BY <1>1, <1>2 DEF Max

\* What the node's answer does, exact or one behind.
LEMMA FoundStep ==
  ASSUME TypeOK, HeightAnswer \/ HeightLags
  PROVE  \E v \in Int :
           /\ FirstHead - 1 <= v /\ v \in Nat
           /\ Found(v)
           /\ faults' \in Nat /\ crashes' = crashes
  <1>1. CASE HeightAnswer
    BY <1>1, ScanAssumption DEF HeightAnswer, TypeOK, counters
  <1>2. CASE HeightLags
    BY <1>2, ScanAssumption DEF HeightLags, TypeOK, Fault
  <1>. QED  BY <1>1, <1>2

-----------------------------------------------------------------------------
(* Types.                                                                   *)

\* The initial state is well typed.
LEMMA InitType == Init => TypeOK
  BY ScanAssumption DEF Init, TypeOK, HeightState, ScanState, NoHeight, NoScan, Block

\* The node's answer keeps the types.
LEMMA FoundType ==
  ASSUME TypeOK, NEW v \in Nat, FirstHead - 1 <= v, Found(v),
         faults' \in Nat, crashes' = crashes
  PROVE  TypeOK'
  <1>. DEFINE new == From(v) .. v - Confirm
  <1>1. new \subseteq Block /\ v - BatchLimit \in Block
    BY FromType, RangeType, ScanAssumption DEF TypeOK
  <1>2. next' \in Nat
    BY <1>1 DEF Found, TypeOK, Block
  <1>3. height' \in HeightState
    BY <1>1 DEF Found, HeightState, NoHeight
  <1>4. queue' \subseteq Block /\ taken' \subseteq Block
    BY <1>1 DEF Found, TypeOK
  <1>. QED  BY <1>2, <1>3, <1>4 DEF Found, TypeOK

\* The blocks on their way to LevelDB are a range that starts where the file is or
\* before.
Ranged ==
  height.pc \in {"put", "file"} =>
    \E lo \in Block : \E hi \in Int : height.new = lo .. hi /\ lo <= hi /\ lo <= next

\* The node's answer makes such a range.
LEMMA FoundRange ==
  ASSUME TypeOK, NEW v \in Nat, FirstHead - 1 <= v, Found(v)
  PROVE  Ranged'
  <1>. DEFINE new == From(v) .. v - Confirm
  <1>1. CASE new = {}
    BY <1>1 DEF Found, Ranged, NoHeight
  <1>2. CASE new # {}
    <2>1. height'.new = new /\ next' = IF next = 0 THEN v - BatchLimit ELSE next
      BY <1>2 DEF Found
    <2>2. From(v) \in Block /\ From(v) <= next'
      BY <2>1, FromType DEF TypeOK
    <2>3. v - Confirm \in Int /\ From(v) <= v - Confirm
      BY <1>2, <2>2, ScanAssumption DEF Block
    <2>. QED  BY <2>1, <2>2, <2>3 DEF Ranged
  <1>. QED  BY <1>1, <1>2

\* The steps of checkLatestHeight keep the types and the range.
LEMMA HeightType ==
  TypeOK /\ Ranged /\ (HeightStart \/ HeightStep) => TypeOK' /\ Ranged'
  <1>. SUFFICES ASSUME TypeOK, Ranged, HeightStart \/ HeightStep PROVE TypeOK' /\ Ranged'
    OBVIOUS
  <1>1. CASE HeightStart
    BY <1>1 DEF HeightStart, TypeOK, HeightState, Ranged, NoHeight, level, memory, counters
  <1>2. CASE HeightAnswer \/ HeightLags
    BY <1>2, FoundStep, FoundType, FoundRange
  <1>3. CASE HeightFails
    BY <1>3 DEF HeightFails, TypeOK, HeightState, Ranged, NoHeight, level, memory, Fault
  <1>4. CASE HeightPut
    <2>1. height'.new = height.new /\ next' = next /\ height.pc = "put"
      BY <1>4 DEF HeightPut, TypeOK, HeightState
    <2>. QED  BY <1>4, <2>1 DEF HeightPut, TypeOK, HeightState, Ranged, memory, counters
  <1>5. CASE HeightPutFails
    BY <1>5 DEF HeightPutFails, TypeOK, HeightState, Ranged, NoHeight, level, memory, Fault
  <1>6. CASE HeightFile
    <2>1. PICK lo \in Block : \E hi \in Int : height.new = lo .. hi /\ lo <= hi /\ lo <= next
      BY <1>6 DEF HeightFile, Ranged
    <2>2. next' \in Nat
      BY <1>6, <2>1, MaxOfRange DEF HeightFile, Block
    <2>. QED  BY <1>6, <2>2
           DEF HeightFile, TypeOK, HeightState, Ranged, NoHeight, memory, counters
  <1>. QED  BY <1>1, <1>2, <1>3, <1>4, <1>5, <1>6 DEF HeightStep

\* The steps of executeCrawlBlock keep the types.
LEMMA ScanType == TypeOK /\ (ScanStart \/ ScanStep) => TypeOK'
  <1>. SUFFICES ASSUME TypeOK, ScanStart \/ ScanStep PROVE TypeOK'
    OBVIOUS
  <1>. USE DEF TypeOK, ScanState, NoScan
  <1>1. CASE ScanStart
    <2>1. PICK batch \in SUBSET queue :
            /\ taken' = taken \cup batch
            /\ scan' = [NoScan EXCEPT !.pc = "blocks", !.todo = batch]
      BY <1>1 DEF ScanStart, kSubset
    <2>. QED  BY <1>1, <2>1 DEF ScanStart, level, counters
  <1>2. CASE BlockScanned
    <2>1. PICK b \in scan.todo :
            /\ published' = published \cup {b}
            /\ scan' = [scan EXCEPT !.todo = @ \ {b}, !.acks = @ \cup {b}]
      BY <1>2 DEF BlockScanned
    <2>2. b \in Block
      OBVIOUS
    <2>3. scan' \in ScanState
      BY <2>1, <2>2
    <2>. QED  BY <1>2, <2>1, <2>2, <2>3 DEF BlockScanned, level, memory, counters
  <1>3. CASE BlockFails
    <2>1. PICK b \in scan.todo :
            scan' = [scan EXCEPT !.todo = @ \ {b}, !.noAcks = @ \cup {b}]
      BY <1>3 DEF BlockFails
    <2>2. scan' \in ScanState
      BY <2>1
    <2>. QED  BY <1>3, <2>2 DEF BlockFails, level, memory, Fault
  <1>4. CASE ScanDone
    BY <1>4 DEF ScanDone, level, counters
  <1>5. CASE AckDelete
    BY <1>5 DEF AckDelete, memory, counters
  <1>6. CASE AckDeleteFails
    BY <1>6 DEF AckDeleteFails, level, memory, Fault
  <1>7. CASE AckForget
    BY <1>7 DEF AckForget, level, counters
  <1>. QED  BY <1>1, <1>2, <1>3, <1>4, <1>5, <1>6, <1>7 DEF ScanStep

\* The scanner leaves the range as it is.
LEMMA ScanRange ==
  Ranged /\ (NewBlock \/ LoadDone \/ ScanStart \/ ScanStep \/ Crash \/ UNCHANGED vars) => Ranged'
  <1>1. NewBlock \/ LoadDone \/ ScanStart \/ ScanStep \/ UNCHANGED vars
          => height' = height /\ next' = next
    BY DEF NewBlock, LoadDone, ScanStart, ScanStep, BlockScanned, BlockFails,
           ScanDone, AckDelete, AckDeleteFails, AckForget, level, vars
  <1>2. height' = height /\ next' = next /\ Ranged => Ranged'
    BY DEF Ranged
  <1>3. Crash => Ranged'
    BY DEF Crash, Ranged, NoHeight
  <1>. QED  BY <1>1, <1>2, <1>3

\* Every step keeps the types and the range.
LEMMA NextType == TypeOK /\ Ranged /\ [Next]_vars => TypeOK' /\ Ranged'
  <1>. SUFFICES ASSUME TypeOK, Ranged, [Next]_vars PROVE TypeOK' /\ Ranged'
    OBVIOUS
  <1>1. CASE NewBlock
    BY <1>1, ScanRange, ScanAssumption DEF NewBlock, TypeOK, level, memory, counters
  <1>2. CASE LoadDone
    BY <1>2, ScanRange DEF LoadDone, TypeOK, Loaded, level, counters
  <1>3. CASE HeightStart \/ HeightStep
    BY <1>3, HeightType
  <1>4. CASE ScanStart \/ ScanStep
    BY <1>4, ScanType, ScanRange
  <1>5. CASE Crash
    BY <1>5, ScanRange
       DEF Crash, TypeOK, HeightState, ScanState, NoHeight, NoScan, level
  <1>6. CASE UNCHANGED vars
    BY <1>6, ScanRange DEF TypeOK, vars, level, memory, counters
  <1>. QED  BY <1>1, <1>2, <1>3, <1>4, <1>5, <1>6 DEF Next

\* TypeOK holds in every reachable state; the range is what bounds the file.
THEOREM TypeCorrect == Spec => []TypeOK
  <1>1. Init => TypeOK /\ Ranged
    BY InitType DEF Init, Ranged, NoHeight
  <1>2. TypeOK /\ Ranged /\ [Next]_vars => (TypeOK /\ Ranged)'
    BY NextType
  <1>. QED  BY <1>1, <1>2, PTL DEF Spec

-----------------------------------------------------------------------------
(* Nothing is lost between LevelDB, the file and the broker.                *)

\* What is to be deleted is published, and what the file is about to move past is
\* stored or published.
Safe ==
  /\ scan.acks \subseteq published
  /\ height.pc = "file" => height.new \subseteq Kept

\* A step that keeps what is stored or published, and the other parts of Safe.
LEMMA SafeStep == Safe /\ [Next]_vars => Kept \subseteq Kept' /\ Safe'
  <1>. SUFFICES ASSUME Safe, [Next]_vars PROVE Kept \subseteq Kept' /\ Safe'
    OBVIOUS
  <1>. USE DEF Safe, Kept
  <1>1. CASE NewBlock
    BY <1>1 DEF NewBlock, level
  <1>2. CASE LoadDone
    BY <1>2 DEF LoadDone, level
  <1>3. CASE HeightStart
    BY <1>3 DEF HeightStart, NoHeight, level
  <1>4. CASE HeightAnswer \/ HeightLags
    <2>1. PICK v \in {head, head - 1} : Found(v)
      BY <1>4 DEF HeightAnswer, HeightLags
    <2>2. db' = db /\ published' = published /\ scan' = scan
      BY <2>1 DEF Found
    <2>3. height'.pc # "file"
      BY <2>1 DEF Found, NoHeight
    <2>. QED  BY <2>2, <2>3
  <1>5. CASE HeightFails
    BY <1>5 DEF HeightFails, NoHeight, level
  <1>6. CASE HeightPut
    <2>1. db' = db \cup height.new /\ published' = published /\ scan' = scan
      BY <1>6 DEF HeightPut
    <2>2. height'.new = height.new
      BY <1>6 DEF HeightPut
    <2>. QED  BY <2>1, <2>2
  <1>7. CASE HeightPutFails
    BY <1>7 DEF HeightPutFails, NoHeight, level
  <1>8. CASE HeightFile
    BY <1>8 DEF HeightFile, NoHeight
  <1>9. CASE ScanStart
    BY <1>9 DEF ScanStart, NoScan, level
  <1>10. CASE BlockScanned
    <2>1. PICK b \in scan.todo :
            /\ published' = published \cup {b}
            /\ scan' = [scan EXCEPT !.todo = @ \ {b}, !.acks = @ \cup {b}]
      BY <1>10 DEF BlockScanned
    <2>2. scan'.acks \subseteq published'
      BY <2>1
    <2>. QED  BY <1>10, <2>1, <2>2 DEF BlockScanned, level
  <1>11. CASE BlockFails
    BY <1>11 DEF BlockFails, level
  <1>12. CASE ScanDone
    BY <1>12 DEF ScanDone, NoScan, level
  <1>13. CASE AckDelete
    BY <1>13 DEF AckDelete
  <1>14. CASE AckDeleteFails
    BY <1>14 DEF AckDeleteFails, NoScan, level
  <1>15. CASE AckForget
    BY <1>15 DEF AckForget, NoScan, level
  <1>16. CASE Crash
    BY <1>16 DEF Crash, NoHeight, NoScan, level
  <1>17. CASE UNCHANGED vars
    BY <1>17 DEF vars, level
  <1>. QED  BY <1>1, <1>2, <1>3, <1>4, <1>5, <1>6, <1>7, <1>8, <1>9, <1>10, <1>11, <1>12,
               <1>13, <1>14, <1>15, <1>16, <1>17 DEF Next, HeightStep, ScanStep

\* Nothing is stored or scanned at first.
LEMMA SafeInit == Init => TypeOK /\ Ranged /\ Safe
  BY InitType DEF Init, Safe, Ranged, NoHeight, NoScan

\* A block in LevelDB leaves it only when its transfers are published.
THEOREM StoredIsKept == Spec => Durable
  <1>1. Init => Safe
    BY SafeInit
  <1>2. Safe /\ [Next]_vars => Safe' /\ [Kept \subseteq Kept']_vars
    BY SafeStep
  <1>. QED  BY <1>1, <1>2, PTL DEF Spec, Durable

\* Only HeightFile moves an existing file.
LEMMA FileStep ==
  ASSUME TypeOK, Ranged, Safe, [Next]_vars, next # 0
  PROVE  next .. next' - 1 \subseteq Kept'
  <1>1. CASE HeightFile
    <2>1. PICK lo \in Block, hi \in Int : height.new = lo .. hi /\ lo <= hi /\ lo <= next
      BY <1>1 DEF HeightFile, Ranged
    <2>2. next' = hi + 1
      BY <1>1, <2>1, MaxOfRange DEF HeightFile, Block
    <2>3. next .. next' - 1 \subseteq height.new
      BY <2>1, <2>2 DEF Block, TypeOK
    <2>4. height.new \subseteq Kept
      BY <1>1 DEF HeightFile, Safe
    <2>. QED  BY <2>3, <2>4, SafeStep
  <1>2. CASE ~HeightFile
    <2>1. HeightAnswer \/ HeightLags => next' = next
      BY DEF HeightAnswer, HeightLags, Found
    <2>2. next' = next
      BY <1>2, <2>1
         DEF Next, HeightStep, ScanStep, NewBlock, LoadDone, HeightStart, HeightFails, HeightPut,
             HeightPutFails, ScanStart, BlockScanned, BlockFails, ScanDone, AckDelete,
             AckDeleteFails, AckForget, Crash, level, vars
    <2>3. next .. next' - 1 = {}
      BY <2>2 DEF TypeOK
    <2>. QED  BY <2>3
  <1>. QED  BY <1>1, <1>2

\* The file moves past a block only when the block is stored or published.
THEOREM NoneSkipped == Spec => NothingSkipped
  <1>. DEFINE IInv == TypeOK /\ Ranged /\ Safe
              Kind == next # 0 => next .. next' - 1 \subseteq Kept'
  <1>1. Init => IInv
    BY SafeInit
  <1>2. IInv /\ [Next]_vars => IInv' /\ [Kind]_vars
    BY SafeStep, NextType, FileStep
  <1>. QED  BY <1>1, <1>2, PTL DEF Spec, NothingSkipped

-----------------------------------------------------------------------------
(* What is stored is found by the scanner.                                  *)

\* Until the keys are listed they do not change and nothing is scanned; blocks on
\* their way to LevelDB are in the data set or published already.
Findable ==
  /\ ~load.done => /\ load.keys = db
                   /\ height.pc \in {"idle", "rpc"}
                   /\ queue = {} /\ scan.pc = "idle"
  /\ height.pc = "put" => height.new \subseteq queue \cup published
  /\ StoredIsQueued

\* Findable is inductive when LevelDB lists its keys before the node answers.
LEMMA QueuedStep ==
  ASSUME PromptLevel, TypeOK, Safe, Findable, [Next]_vars
  PROVE  Findable'
  <1>. USE DEF Safe, Findable, StoredIsQueued
  <1>1. CASE NewBlock
    BY <1>1 DEF NewBlock, level, memory
  <1>2. CASE LoadDone
    BY <1>2 DEF LoadDone, level, Loaded
  <1>3. CASE HeightStart
    BY <1>3 DEF HeightStart, NoHeight, level, memory
  <1>4. CASE HeightAnswer \/ HeightLags
    <2>1. PICK v \in {head, head - 1} : Found(v)
      BY <1>4 DEF HeightAnswer, HeightLags
    <2>2. /\ db' = db /\ published' = published /\ scan' = scan
          /\ load' = load /\ load.done
          /\ queue \subseteq queue'
      BY <2>1 DEF Found
    <2>3. height'.pc = "put" => height'.new \subseteq queue'
      BY <2>1 DEF Found, NoHeight
    <2>. QED  BY <2>2, <2>3
  <1>5. CASE HeightFails
    BY <1>5 DEF HeightFails, NoHeight, level, memory
  <1>6. CASE HeightPut
    <2>1. /\ db' = db \cup height.new /\ published' = published
          /\ queue' = queue /\ load' = load /\ load.done
      BY <1>6 DEF HeightPut, memory
    <2>2. height'.pc = "file"
      BY <1>6 DEF HeightPut, TypeOK, HeightState
    <2>3. height.new \subseteq queue \cup published
      BY <1>6 DEF HeightPut
    <2>. QED  BY <2>1, <2>2, <2>3
  <1>7. CASE HeightPutFails
    BY <1>7 DEF HeightPutFails, NoHeight, level, memory
  <1>8. CASE HeightFile
    BY <1>8 DEF HeightFile, NoHeight, memory
  <1>9. CASE ScanStart
    <2>1. load.done /\ load' = load /\ queue' = queue /\ db' = db
          /\ height' = height /\ published' = published
      BY <1>9 DEF ScanStart, level
    <2>. QED  BY <2>1
  <1>10. CASE BlockScanned
    <2>1. published \subseteq published'
      BY <1>10 DEF BlockScanned
    <2>. QED  BY <1>10, <2>1 DEF BlockScanned, level, memory
  <1>11. CASE BlockFails
    BY <1>11 DEF BlockFails, level, memory
  <1>12. CASE ScanDone
    BY <1>12 DEF ScanDone, level
  <1>13. CASE AckDelete
    BY <1>13 DEF AckDelete, memory
  <1>14. CASE AckDeleteFails
    BY <1>14 DEF AckDeleteFails, level, memory
  <1>15. CASE AckForget
    BY <1>15 DEF AckForget, level
  <1>16. CASE Crash
    BY <1>16 DEF Crash, NoHeight, NoScan, level
  <1>17. CASE UNCHANGED vars
    BY <1>17 DEF vars, level, memory
  <1>. QED  BY <1>1, <1>2, <1>3, <1>4, <1>5, <1>6, <1>7, <1>8, <1>9, <1>10, <1>11, <1>12,
               <1>13, <1>14, <1>15, <1>16, <1>17 DEF Next, HeightStep, ScanStep

\* When LevelDB is read before the node answers, a stored block is in the data set
\* of this process or published.
THEOREM Queued == PromptLevel => (Spec => []StoredIsQueued)
  <1>. DEFINE IInv == TypeOK /\ Ranged /\ Safe /\ Findable
  <1>. SUFFICES ASSUME PromptLevel PROVE Spec => []StoredIsQueued
    OBVIOUS
  <1>1. Init => IInv
    BY SafeInit DEF Init, Findable, StoredIsQueued, NoHeight, NoScan
  <1>2. IInv /\ [Next]_vars => IInv'
    BY SafeStep, NextType, QueuedStep
  <1>3. IInv => StoredIsQueued
    BY DEF Findable
  <1>. QED  BY <1>1, <1>2, <1>3, PTL DEF Spec

=============================================================================
