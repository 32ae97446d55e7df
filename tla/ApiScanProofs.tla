---------------------------- MODULE ApiScanProofs ----------------------------
(***************************************************************************)
(* Proofs about ApiScan, for any number of transfers, any page size above  *)
(* one, any window, and any number of faults and restarts: its types, and  *)
(* that the stored position passes no transfer of a time of its own that   *)
(* was not published, but those an error answer taken for a page hid.      *)
(* What a scan knows of the transfers it has left behind depends on how    *)
(* its service pages, and is the heart of the invariant:                   *)
(*   Backwards  loopring: all of the query that is newer than its last     *)
(*              page has been read, since no page is empty while a         *)
(*              transfer of the query is left;                             *)
(*   ByNumber   zkspace: what is listed below a transfer read, and was not *)
(*              read, has a number of at least the next offset: a          *)
(*              transfer that is listed while the scan goes on only adds   *)
(*              to the numbers, and the list has no gap in them;           *)
(*   Forwards   immutable: the page of a side holds all that lies between  *)
(*              the side's position and the newest of the page, but for    *)
(*              some of the time of the newest.                            *)
(***************************************************************************)
EXTENDS ApiScan, FiniteSetTheorems, WellFoundedInduction, TLAPS

\* The times of transfers are those of a clock and of the order they are made in.
Clocked ==
  /\ \A t \in Transfer : made[t] <= now /\ (t \in listed => made[t] # None)
  /\ \A t, u \in Transfer : u < t /\ made[t] # None =>
       made[u] # None /\ made[u] <= made[t]

\* loopring lists what was made before this second, the others in order.
InOrder ==
  /\ kind = "loopring" => \A t \in Transfer : made[t] # None /\ made[t] < now => t \in listed
  /\ kind # "loopring" => \A t \in listed, u \in Transfer : u < t => u \in listed

\* A position is in the past or right behind a transfer the API listed.
Anchored(p, origin) ==
  CASE kind = "loopring"  -> p <= now
    [] kind = "zkspace"   -> p <= now \/ \E u \in listed : p = made[u] + 1
    [] kind = "immutable" -> p <= now /\ (p = origin \/ \E u \in listed : p = made[u])

PosOk ==
  /\ pos["sender"] = None <=> pos["receiver"] = None
  /\ kind # "immutable" => pos["sender"] = pos["receiver"] /\ since["sender"] = since["receiver"]
  /\ \A s \in Sides : pos[s] # None => Anchored(pos[s], since[s])

\* A scan starts where the file says.
Started ==
  /\ scan.page # {} <=> scan.pc = "send"
  /\ scan.pc # "idle" =>
       /\ \A s \in Sides : IF pos[s] = None THEN scan.prev[s] <= now ELSE scan.prev[s] = pos[s]
       /\ kind # "immutable" => scan.side = "sender" /\ scan.prev["sender"] = scan.prev["receiver"]

\* The position that the scan would leave now passes t.
Passed(t) == Behind(t, Position("sender"))

\* loopring has read all that is newer than upto, or than its last page.
Backwards ==
  kind = "loopring" /\ scan.pc # "idle" =>
    /\ scan.end < now /\ scan.upto <= scan.end /\ scan.got \subseteq sent
    /\ \A t \in scan.got \cup scan.page : scan.prev["sender"] <= made[t] /\ made[t] <= scan.end
    /\ \A t \in Transfer :
         /\ scan.prev["sender"] <= made[t] /\ made[t] <= scan.end
         /\ scan.pc = "ask" => made[t] > scan.upto
         /\ scan.pc = "send" /\ scan.more => made[t] > Oldest(scan.page)
         /\ scan.pc = "store" => Passed(t)
         => t \in scan.got \cup scan.page \/ (scan.pc = "store" /\ t \in scan.unread)

\* Its number from the newest in the list, and whether S holds one above it, or a newer one.
Rank(t)       == Cardinality({u \in listed : u > t})
Reached(t, S) == \E u \in S : t < u
Older(t, S)   == \E u \in S : made[t] < made[u]

\* What zkspace has passed and not read is behind its offset, or older than the position.
ByNumber ==
  kind = "zkspace" /\ scan.pc # "idle" =>
    /\ \A t \in scan.got : scan.prev["sender"] <= made[t] => t \in sent
    /\ scan.pc = "ask" /\ scan.got = {} => scan.offset = 0
    /\ \A t \in listed \ (scan.got \cup scan.page) : Reached(t, scan.got \cup scan.page) =>
         /\ scan.pc = "ask" => Rank(t) >= scan.offset
         /\ scan.pc = "send" => Rank(t) >= scan.offset + Size
         /\ scan.pc = "send" /\ ~scan.more => made[t] < scan.prev["sender"] \/ ~Told(t)
         /\ scan.pc = "store" => made[t] < scan.prev["sender"] \/ ~Told(t) \/ t \in scan.unread

\* immutable has published what lies between a side's position and its new one.
Forwards ==
  kind = "immutable" /\ scan.pc # "idle" =>
    /\ \A s \in Sides :
         /\ scan.at[s] = scan.prev[s] \/ \E u \in listed : scan.at[s] = made[u]
         /\ \A t \in OfSide(s) : Told(t) /\ scan.prev[s] < made[t] /\ made[t] <= scan.at[s] => t \in sent
    /\ \A t \in listed \cap OfSide(scan.side) :
         scan.prev[scan.side] < made[t] /\ Older(t, scan.page) => t \in scan.page

\* The inductive invariant behind NothingMissed.
ApiInv ==
  /\ TypeOK /\ Clocked /\ InOrder /\ PosOk /\ Started /\ Backwards /\ ByNumber /\ Forwards
  /\ NothingMissed

-----------------------------------------------------------------------------
(* The newest and the oldest of a set of transfers.                         *)

\* A set of numbers has a least one, ...
LEMMA LeastNat ==
  ASSUME NEW S, S \subseteq Nat, S # {}
  PROVE  \E m \in S : \A x \in S : m <= x
  <1>. DEFINE R == OpToRel(<, Nat)
  <1>1. IsWellFoundedOn(R, Nat)
    BY NatLessThanWellFounded
  <1>2. \A x, y \in Nat : x < y => <<x, y>> \in R
    BY DEF OpToRel
  <1>. HIDE DEF R
  <1>3. PICK m \in S : \A y \in S : <<y, m>> \notin R
    BY <1>1, WFMin
  <1>4. ASSUME NEW x \in S PROVE m <= x
    <2>1. x \in Nat /\ m \in Nat /\ ~(x < m)
      BY <1>2, <1>3
    <2>. QED  BY <2>1
  <1>. QED  BY <1>4

\* ... so a set of integers has a greatest one if it has a bound, ...
LEMMA MaxOf ==
  ASSUME NEW S, S \subseteq Int, S # {}, NEW b \in Int, \A x \in S : x <= b
  PROVE  Max(S) \in S /\ \A x \in S : x <= Max(S)
  <1>. DEFINE T == {n \in Nat : b - n \in S}
  <1>1. T \subseteq Nat /\ \A x \in S : b - x \in T
    OBVIOUS
  <1>2. PICK m \in T : \A y \in T : m <= y
    BY <1>1, LeastNat
  <1>3. b - m \in S /\ \A y \in S : b - m >= y
    <2>1. ASSUME NEW y \in S PROVE b - m >= y
      <3>1. m <= b - y /\ m \in Nat /\ y \in Int
        BY <1>1, <1>2
      <3>. QED  BY <3>1
    <2>. QED  BY <2>1
  <1>. QED  BY <1>3 DEF Max

\* ... and a least one if it has a bound below.
LEMMA MinOf ==
  ASSUME NEW S, S \subseteq Int, S # {}, NEW a \in Int, \A x \in S : a <= x
  PROVE  Min(S) \in S /\ \A x \in S : Min(S) <= x
  <1>. DEFINE T == {n \in Nat : a + n \in S}
  <1>1. T \subseteq Nat /\ \A x \in S : x - a \in T
    <2>1. ASSUME NEW x \in S PROVE x - a \in T
      <3>1. x \in Int /\ x - a \in Nat /\ a + (x - a) = x
        OBVIOUS
      <3>. QED  BY <3>1
    <2>. QED  BY <2>1
  <1>2. PICK m \in T : \A y \in T : m <= y
    BY <1>1, LeastNat
  <1>3. a + m \in S /\ \A y \in S : a + m <= y
    <2>1. ASSUME NEW y \in S PROVE a + m <= y
      <3>1. m <= y - a /\ m \in Nat /\ y \in Int
        BY <1>1, <1>2
      <3>. QED  BY <3>1
    <2>. QED  BY <2>1
  <1>. QED  BY <1>3 DEF Min

\* What a position may be.
LEMMA TimeNat ==
  /\ MaxTime \in Nat /\ None = -1 /\ Window \in Nat /\ MaxTime > 0
  /\ \A n : n \in Times <=> (n \in Int /\ -1 <= n /\ n <= MaxTime + 1)
  BY ApiAssumption DEF Times, None

\* The newest time of S is that of a transfer of S, ...
LEMMA NewestTime ==
  ASSUME TypeOK, NEW S, S \subseteq Transfer
  PROVE  /\ Newest(S) \in Times /\ \A t \in S : made[t] <= Newest(S)
         /\ S # {} => \E t \in S : made[t] = Newest(S)
         /\ S = {} => Newest(S) = None
  <1>. DEFINE T == {made[t] : t \in S} \cup {None}
  <1>1. \A t \in Transfer : made[t] \in Int /\ None <= made[t] /\ made[t] <= MaxTime + 1
    BY TimeNat DEF TypeOK
  <1>2. T \subseteq Int /\ T # {} /\ MaxTime + 1 \in Int /\ \A x \in T : x <= MaxTime + 1
    BY <1>1, TimeNat
  <1>3. Newest(S) \in T /\ \A x \in T : x <= Newest(S)
    BY <1>2, MaxOf DEF Newest
  <1>4. \A t \in S : made[t] \in T /\ made[t] <= Newest(S)
    BY <1>3
  <1>5. S # {} => \E t \in S : made[t] = Newest(S)
    <2>1. ASSUME NEW u \in S, Newest(S) = None PROVE made[u] = Newest(S)
      BY <1>1, <1>4, <2>1, TimeNat
    <2>. QED  BY <1>3, <2>1
  <1>6. Newest(S) \in Times
    BY <1>1, <1>3, TimeNat
  <1>. QED  BY <1>3, <1>4, <1>5, <1>6

\* ... and the oldest too, once they are made.
LEMMA OldestTime ==
  ASSUME TypeOK, NEW S, S \subseteq Transfer, \A t \in S : made[t] # None /\ made[t] <= MaxTime
  PROVE  /\ Oldest(S) \in Nat /\ \A t \in S : Oldest(S) <= made[t]
         /\ S # {} => \E t \in S : made[t] = Oldest(S)
  <1>. DEFINE T == {made[t] : t \in S} \cup {MaxTime}
  <1>1. \A t \in S : made[t] \in Int /\ 0 <= made[t] /\ made[t] <= MaxTime
    BY TimeNat DEF TypeOK
  <1>2. T \subseteq Int /\ T # {} /\ 0 \in Int /\ \A x \in T : 0 <= x
    BY <1>1, TimeNat
  <1>3. Oldest(S) \in T /\ \A x \in T : Oldest(S) <= x
    BY <1>2, MinOf DEF Oldest
  <1>4. \A t \in S : made[t] \in T /\ Oldest(S) <= made[t]
    BY <1>3
  <1>5. S # {} => \E t \in S : made[t] = Oldest(S)
    <2>1. ASSUME NEW u \in S, Oldest(S) = MaxTime PROVE made[u] = Oldest(S)
      BY <1>1, <1>4, <2>1, TimeNat
    <2>. QED  BY <1>3, <2>1
  <1>. QED  BY <1>1, <1>2, <1>3, <1>4, <1>5

\* The numbers the clocks and the transfers show.
LEMMA Numbers ==
  ASSUME TypeOK, Clocked
  PROVE  /\ now \in Nat /\ 1 <= now /\ now <= MaxTime
         /\ \A t \in Transfer : made[t] \in Int /\ -1 <= made[t] /\ made[t] <= now
         /\ \A t \in listed : t \in Transfer /\ 0 <= made[t]
         /\ Transfer \subseteq Nat /\ IsFiniteSet(Transfer) /\ IsFiniteSet(listed)
  <1>1. now \in Nat /\ 1 <= now /\ now <= MaxTime
    BY TimeNat DEF TypeOK
  <1>2. \A t \in Transfer : made[t] \in Int /\ -1 <= made[t] /\ made[t] <= now
    BY TimeNat DEF TypeOK, Clocked
  <1>3. \A t \in listed : t \in Transfer /\ 0 <= made[t]
    BY <1>2, TimeNat DEF TypeOK, Clocked
  <1>4. listed \subseteq Transfer /\ Transfer \subseteq Nat /\ IsFiniteSet(Transfer)
    BY ApiAssumption DEF TypeOK
  <1>. QED  BY <1>1, <1>2, <1>3, <1>4, FS_Subset

-----------------------------------------------------------------------------
(* Type correctness.                                                        *)

\* The types of the local state of a scan.
ScanType == [pc : {"idle", "ask", "send", "store"}, side : Sides, prev : [Sides -> Times \ {None}],
             end : Nat, upto : Nat, offset : Nat, page : SUBSET listed, more : BOOLEAN,
             got : SUBSET listed, unread : SUBSET listed, at : [Sides -> Times \ {None}]]

\* A scan that has not started is one.
LEMMA NoScanType == NoScan \in ScanType /\ NoScan.pc = "idle" /\ NoScan.page = {}
  <1>1. 0 \in Times \ {None}
    BY TimeNat
  <1>. QED  BY <1>1 DEF NoScan, ScanType, Sides

\* Going on to the other side, or to the position, keeps the types, ...
LEMMA TurnType ==
  ASSUME NEW c \in ScanType
  PROVE  /\ Turn(c) \in ScanType /\ Turn(c).page = {} /\ Turn(c).pc \in {"ask", "store"}
         /\ Turn(c).prev = c.prev /\ Turn(c).at = c.at /\ Turn(c).got = c.got /\ Turn(c).end = c.end
         /\ Turn(c).upto = c.upto /\ Turn(c).offset = c.offset
         /\ kind # "immutable" => Turn(c).pc = "store" /\ Turn(c).side = c.side
  BY DEF Turn, ScanType, Sides

\* ... and so does giving up.
LEMMA DroppedType ==
  ASSUME NEW c \in ScanType
  PROVE  Dropped(c) \in ScanType
  BY TurnType, NoScanType DEF Dropped

\* What is published of a page is of the page.
LEMMA FreshSubset == ASSUME NEW P PROVE Fresh(P) \subseteq P
  BY DEF Fresh

\* The end of a query is in the past, and a scan starts in it.
LEMMA FirstType ==
  ASSUME TypeOK
  PROVE  End \in Nat /\ End < now /\ First \in Times \ {None} /\ First <= now
  <1>1. now \in Nat /\ 1 <= now /\ now <= MaxTime
    BY TimeNat DEF TypeOK
  <1>2. End \in Nat /\ End < now
    BY <1>1 DEF End
  <1>3. CASE kind = "immutable"
    BY <1>1, <1>2, <1>3, TimeNat DEF First
  <1>4. CASE kind # "immutable"
    <2>. DEFINE S == {now - Window, 0}
    <2>1. S \subseteq Int /\ S # {} /\ \A x \in S : x <= now
      BY <1>1, TimeNat
    <2>2. Max(S) \in S /\ \A x \in S : x <= Max(S)
      BY <1>1, <2>1, MaxOf
    <2>3. First = Max(S) /\ 0 <= Max(S) /\ Max(S) <= now
      BY <1>4, <2>1, <2>2 DEF First
    <2>. QED  BY <1>1, <1>2, <2>1, <2>2, <2>3, TimeNat
  <1>. QED  BY <1>3, <1>4

\* A page is a set of listed transfers.
LEMMA PagesType ==
  ASSUME NEW P \in Pages, kind \in Kinds
  PROVE  P \subseteq listed
  <1>1. kind \in {"loopring", "zkspace", "immutable"}
    BY ApiAssumption
  <1>2. CASE kind = "loopring"
    BY <1>2 DEF Pages, ByTime, NewestOf, PageOf, Later
  <1>3. CASE kind = "zkspace"
    BY <1>3 DEF Pages, ByOffset
  <1>4. CASE kind = "immutable"
    BY <1>4 DEF Pages, Forward, OldestOf, PageOf, Later
  <1>. QED  BY <1>1, <1>2, <1>3, <1>4

\* The first transfers listed are made, so a page has times.
LEMMA PublishedType ==
  ASSUME TypeOK, Clocked, scan.pc = "send", scan.page # {}
  PROVE  Published(scan) \in ScanType /\ Published(scan).page = {}
  <1>1. scan \in ScanType /\ scan.page \subseteq listed /\ scan.side \in Sides
    BY DEF TypeOK, ScanType
  <1>2. /\ scan.page \subseteq Transfer /\ \A t \in scan.page : made[t] # None /\ made[t] <= MaxTime
        /\ \A t \in scan.page : made[t] \in Int /\ 0 <= made[t]
    BY <1>1, Numbers, TimeNat DEF TypeOK, Clocked
  <1>3. Oldest(scan.page) \in Nat
    BY <1>2, OldestTime
  <1>4. Newest(scan.page) \in Times \ {None}
    <2>1. PICK t \in scan.page : made[t] = Newest(scan.page)
      BY <1>2, NewestTime
    <2>. QED  BY <1>2, <2>1, NewestTime, TimeNat
  <1>5. Size \in Nat
    BY ApiAssumption DEF Size, TypeOK
  <1>. DEFINE read == [scan EXCEPT !.got = @ \cup scan.page, !.offset = @ + Size, !.upto = Oldest(scan.page)]
  <1>6. read \in ScanType /\ read.side = scan.side
    <2>1. scan.got \cup scan.page \in SUBSET listed /\ scan.offset + Size \in Nat
      BY <1>1, <1>5 DEF ScanType
    <2>2. ASSUME NEW g \in SUBSET listed, NEW o \in Nat, NEW u \in Nat
          PROVE  /\ [scan EXCEPT !.got = g, !.offset = o, !.upto = u] \in ScanType
                 /\ [scan EXCEPT !.got = g, !.offset = o, !.upto = u].side = scan.side
      BY <1>1 DEF ScanType
    <2>3. read = [scan EXCEPT !.got = scan.got \cup scan.page, !.offset = scan.offset + Size, !.upto = Oldest(scan.page)]
      BY <1>1 DEF ScanType
    <2>. QED  BY <1>3, <2>1, <2>2, <2>3
  <1>7. [read EXCEPT !.at[scan.side] = Newest(scan.page)] \in ScanType
    BY <1>1, <1>4, <1>6 DEF ScanType
  <1>8. [read EXCEPT !.pc = "ask", !.page = {}] \in ScanType /\ [read EXCEPT !.pc = "ask", !.page = {}].page = {}
    BY <1>6 DEF ScanType
  <1>. HIDE DEF read
  <1>9. Published(scan) = IF kind = "immutable" THEN Turn([read EXCEPT !.at[scan.side] = Newest(scan.page)])
                          ELSE IF scan.more THEN [read EXCEPT !.pc = "ask", !.page = {}] ELSE Turn(read)
    BY DEF Published, read
  <1>. QED  BY <1>6, <1>7, <1>8, <1>9, TurnType

\* The position a scan leaves is one.
LEMMA PositionType ==
  ASSUME TypeOK, Clocked, scan.pc = "store", NEW s \in Sides,
         kind = "loopring" => scan.end < now
  PROVE  Position(s) \in Times \ {None}
  <1>1. kind \in {"loopring", "zkspace", "immutable"}
    BY ApiAssumption DEF TypeOK
  <1>2. /\ scan.end \in Nat /\ scan.prev["sender"] \in Times \ {None} /\ scan.at[s] \in Times \ {None}
        /\ scan.got \subseteq listed /\ scan.got \subseteq Transfer
    BY DEF TypeOK, Sides
  <1>3. ASSUME scan.got # {} PROVE Newest(scan.got) + 1 \in Times \ {None}
    <2>1. PICK t \in scan.got : made[t] = Newest(scan.got)
      BY <1>2, <1>3, NewestTime
    <2>. QED  BY <1>2, <2>1, Numbers, TimeNat
  <1>4. now \in Nat /\ now <= MaxTime
    BY Numbers
  <1>. QED  BY <1>1, <1>2, <1>3, <1>4, TimeNat DEF Position, AfterLoopring, AfterZkspace

\* Every step keeps the types.
LEMMA TypeStep ==
  ASSUME TypeOK, Clocked, Started, kind = "loopring" /\ scan.pc # "idle" => scan.end < now, [Next]_vars
  PROVE  TypeOK'
  <1>0. /\ scan \in ScanType /\ TypeOK
        /\ MaxFaults \in Nat /\ MaxCrashes \in Nat /\ now \in Nat
    BY ApiAssumption, TimeNat DEF TypeOK, ScanType
  <1>1. ASSUME UNCHANGED <<kind, now, made, listed, pos, since, hidden>>, scan' \in ScanType,
               sent' \subseteq listed, faults' \in 0 .. MaxFaults, crashes' \in 0 .. MaxCrashes
        PROVE  TypeOK'
    BY <1>0, <1>1 DEF TypeOK, ScanType
  <1>2. CASE Tick
    BY <1>0, <1>2, TimeNat DEF Tick, TypeOK, file, counters
  <1>3. ASSUME NEW t \in Transfer, Make(t) PROVE TypeOK'
    <2>1. now \in Times
      BY <1>0, TimeNat DEF TypeOK
    <2>. QED  BY <1>0, <1>3, <2>1 DEF Make, TypeOK, file, counters
  <1>4. ASSUME NEW t \in Transfer, List(t) PROVE TypeOK'
    <2>1. scan' \in [pc : {"idle", "ask", "send", "store"}, side : Sides, prev : [Sides -> Times \ {None}],
               end : Nat, upto : Nat, offset : Nat, page : SUBSET listed', more : BOOLEAN,
               got : SUBSET listed', unread : SUBSET listed', at : [Sides -> Times \ {None}]]
      BY <1>0, <1>4 DEF List, ScanType
    <2>. QED  BY <1>0, <1>4, <2>1 DEF List, TypeOK, file, counters
  <1>5. CASE Start
    <2>. DEFINE from == [s \in Sides |-> IF pos[s] = None THEN First ELSE pos[s]]
    <2>1. from \in [Sides -> Times \ {None}]
      BY FirstType DEF TypeOK
    <2>2. scan' = [NoScan EXCEPT !.pc = "ask", !.end = End, !.upto = End, !.prev = from, !.at = from]
      BY <1>5 DEF Start
    <2>3. scan' \in ScanType
      BY <2>1, <2>2, FirstType, NoScanType DEF ScanType
    <2>. QED  BY <1>0, <1>1, <1>5, <2>3 DEF Start, api, file, counters, TypeOK
  <1>6. CASE Answer
    <2>1. PICK P \in Pages :
            LET read == IF kind = "immutable" THEN Fresh(P) ELSE P
            IN  scan' = IF read = {} THEN Turn(scan)
                        ELSE [scan EXCEPT !.pc = "send", !.page = read, !.more = More(P)]
      BY <1>6 DEF Answer
    <2>. DEFINE read == IF kind = "immutable" THEN Fresh(P) ELSE P
    <2>2. read \subseteq listed
      BY PagesType, FreshSubset DEF TypeOK
    <2>3. More(P) \in BOOLEAN
      BY DEF More
    <2>. HIDE DEF read
    <2>4. scan' = IF read = {} THEN Turn(scan)
                  ELSE [scan EXCEPT !.pc = "send", !.page = read, !.more = More(P)]
      BY <2>1 DEF read
    <2>5. [scan EXCEPT !.pc = "send", !.page = read, !.more = More(P)] \in ScanType
      BY <1>0, <2>2, <2>3 DEF ScanType
    <2>6. scan' \in ScanType
      BY <1>0, <2>4, <2>5, TurnType
    <2>. QED  BY <1>0, <1>1, <1>6, <2>6 DEF Answer, api, file, counters, TypeOK
  <1>7. CASE Send
    <2>1. scan' = Published(scan) /\ scan.pc = "send" /\ sent' = sent \cup Fresh(scan.page)
      BY <1>7 DEF Send
    <2>2. scan' \in ScanType
      BY <2>1, PublishedType DEF Started
    <2>3. sent' \subseteq listed
      BY <1>0, <2>1, FreshSubset DEF TypeOK, ScanType
    <2>. QED  BY <1>0, <1>1, <1>7, <2>2, <2>3 DEF Send, api, file, counters, TypeOK
  <1>8. CASE Store
    <2>1. \A s \in Sides : Position(s) \in Times /\ scan.prev[s] \in Times
      BY <1>0, <1>8, PositionType DEF Store, ScanType
    <2>2. pos' \in [Sides -> Times] /\ since' \in [Sides -> Times]
      BY <1>8, <2>1 DEF Store, TypeOK
    <2>3. scan' \in ScanType
      BY <1>8, NoScanType DEF Store
    <2>4. hidden' \subseteq listed
      BY <1>0, <1>8 DEF Store, TypeOK, ScanType
    <2>. QED  BY <1>0, <1>8, <2>2, <2>3, <2>4 DEF Store, api, counters, TypeOK, ScanType
  <1>9. Fault => faults' \in 0 .. MaxFaults
    BY <1>0 DEF Fault, TypeOK
  <1>10. CASE AskFails
    <2>1. scan' \in ScanType
      BY <1>0, <1>10, DroppedType DEF AskFails
    <2>. QED  BY <1>0, <1>1, <1>9, <1>10, <2>1 DEF AskFails, api, file, TypeOK
  <1>10a. CASE AskRefused
    <2>. DEFINE U == {t \in Later \ scan.got : Behind(t, Position("sender"))}
    <2>1. U \subseteq listed
      BY DEF Later
    <2>2. scan' = [Turn(scan) EXCEPT !.unread = U] /\ Turn(scan) \in ScanType
      BY <1>0, <1>10a, TurnType DEF AskRefused
    <2>. HIDE DEF U
    <2>3. scan' \in ScanType
      BY <2>1, <2>2 DEF ScanType
    <2>. QED  BY <1>0, <1>1, <1>9, <1>10a, <2>3 DEF AskRefused, api, file, TypeOK
  <1>11. CASE SendFails
    <2>1. scan' \in ScanType
      BY <1>0, <1>11, DroppedType DEF SendFails
    <2>2. sent' \subseteq listed
      BY <1>0, <1>11, FreshSubset DEF SendFails, TypeOK, ScanType
    <2>. QED  BY <1>0, <1>1, <1>9, <1>11, <2>1, <2>2 DEF SendFails, api, file, TypeOK
  <1>12. CASE Crash
    <2>1. crashes' \in 0 .. MaxCrashes
      BY <1>0, <1>12 DEF Crash, TypeOK
    <2>. QED  BY <1>0, <1>1, <1>12, <2>1, NoScanType DEF Crash, api, file, TypeOK
  <1>13. CASE UNCHANGED vars
    BY <1>13 DEF vars, api, file, counters, TypeOK
  <1>. QED  BY <1>2, <1>3, <1>4, <1>5, <1>6, <1>7, <1>8, <1>10, <1>10a, <1>11, <1>12, <1>13
            DEF Next, Environment, Scanning

-----------------------------------------------------------------------------
(* The steps of the clock and of the service's own API.                     *)

\* The parts of the state the proofs below use.
LEMMA Parts ==
  ASSUME TypeOK
  PROVE  /\ kind \in {"loopring", "zkspace", "immutable"} /\ Sides = {"sender", "receiver"}
         /\ scan.side \in Sides /\ scan.pc \in {"idle", "ask", "send", "store"} /\ scan.more \in BOOLEAN
         /\ scan.page \subseteq listed /\ scan.got \subseteq listed
         /\ scan.page \subseteq Transfer /\ scan.got \subseteq Transfer
         /\ listed \subseteq Transfer /\ sent \subseteq listed
         /\ scan.end \in Nat /\ scan.upto \in Nat /\ scan.offset \in Nat
         /\ \A s \in Sides : /\ pos[s] \in Int /\ since[s] \in Int /\ -1 <= pos[s] /\ -1 <= since[s]
                             /\ scan.prev[s] \in Int /\ 0 <= scan.prev[s]
                             /\ scan.at[s] \in Int /\ 0 <= scan.at[s]
                             /\ OfSide(s) \subseteq Transfer
         /\ Size \in Nat /\ Size > 1
  <1>1. kind \in {"loopring", "zkspace", "immutable"} /\ Size \in Nat /\ Size > 1
    BY ApiAssumption DEF TypeOK, Size
  <1>2. \A s \in Sides : /\ pos[s] \in Times /\ since[s] \in Times
                         /\ scan.prev[s] \in Times \ {None} /\ scan.at[s] \in Times \ {None}
    BY DEF TypeOK
  <1>3. \A n \in Times \ {None} : n \in Int /\ 0 <= n
    BY TimeNat
  <1>4. \A s \in Sides : OfSide(s) \subseteq Transfer
    BY ApiAssumption DEF OfSide
  <1>. QED  BY <1>1, <1>2, <1>3, <1>4, TimeNat DEF TypeOK, Sides

\* Which transfers have a time of their own depends on the times only.
LEMMA SameTold == UNCHANGED <<kind, made>> => \A t : Told(t)' = Told(t)
  BY DEF Told

\* The rest of the invariant, when only the clock moves.
LEMMA TickSafe ==
  ASSUME ApiInv, Tick
  PROVE  ApiInv'
  <1>. USE DEF ApiInv
  <1>1. /\ now' = now + 1 /\ UNCHANGED <<kind, made, listed, pos, since, scan, sent, hidden>>
        /\ kind = "loopring" => \A t \in Transfer : made[t] # None => t \in listed
    BY DEF Tick, file
  <1>2. TypeOK'
    BY TypeStep DEF Next, Environment, Backwards
  <1>3. now \in Int /\ now' \in Int /\ now < now'
    BY <1>1, Numbers
  <1>4. Clocked'
    BY <1>1, <1>3, Numbers DEF Clocked
  <1>5. InOrder'
    BY <1>1 DEF InOrder
  <1>6. PosOk'
    <2>1. \A s \in Sides : pos[s] \in Int
      BY Parts
    <2>2. ASSUME NEW s \in Sides, Anchored(pos[s], since[s]) PROVE Anchored(pos[s], since[s])'
      <3>1. pos[s] <= now => pos[s] <= now'
        BY <1>1, <1>3, <2>1
      <3>. QED  BY <1>1, <2>2, <3>1, Parts DEF Anchored
    <2>. QED  BY <1>1, <2>2 DEF PosOk
  <1>7. Started'
    <2>1. \A s \in Sides : scan.prev[s] \in Int /\ (scan.prev[s] <= now => scan.prev[s] <= now')
      BY <1>3, Parts
    <2>. QED  BY <1>1, <2>1 DEF Started
  <1>8. Backwards'
    <2>1. Oldest(scan.page)' = Oldest(scan.page)
      BY <1>1 DEF Oldest
    <2>2. scan.end < now => scan.end < now'
      BY <1>3, Parts
    <2>3. \A t : Passed(t)' = Passed(t)
      BY <1>1 DEF Passed, Behind, Position, AfterLoopring, AfterZkspace, Newest
    <2>. QED  BY <1>1, <2>1, <2>2, <2>3 DEF Backwards
  <1>9. ByNumber'
    BY <1>1, SameTold DEF ByNumber, Rank, Reached, Size
  <1>10. Forwards' /\ NothingMissed'
    BY <1>1, SameTold DEF Forwards, Older, OfSide, NothingMissed, Due, Behind
  <1>. QED  BY <1>2, <1>4, <1>5, <1>6, <1>7, <1>8, <1>9, <1>10

\* A new transfer is newer than all that a scan has passed.
LEMMA MakeSafe ==
  ASSUME ApiInv, NEW t \in Transfer, Make(t)
  PROVE  ApiInv'
  <1>. USE DEF ApiInv
  <1>1. /\ made[t] = None /\ made' = [made EXCEPT ![t] = now]
        /\ UNCHANGED <<kind, now, listed, pos, since, scan, sent, hidden>>
        /\ \A u \in Transfer : u < t => made[u] # None
    BY DEF Make, file
  <1>2. TypeOK'
    BY TypeStep DEF Next, Environment, Backwards
  <1>3. /\ now \in Int /\ 1 <= now /\ Transfer \subseteq Nat
        /\ \A u \in Transfer : made[u] \in Int /\ -1 <= made[u] /\ made[u] <= now
    BY Numbers
  <1>4. made'[t] = now /\ (\A u \in Transfer : u # t => made'[u] = made[u]) /\ t \notin listed
    BY <1>1 DEF TypeOK, Clocked
  \* It takes the time of its own of a transfer made, and gives it to none.
  <1>5. ASSUME NEW v \in Transfer, v # t, made[v] # None, Told(v)' PROVE Told(v)
    <2>1. ASSUME NEW u \in Transfer \ {v}, kind # "loopring" PROVE made[u] # made[v]
      <3>1. made'[u] # made'[v]
        BY <1>1, <1>5, <2>1 DEF Told
      <3>. QED  BY <1>1, <1>4, <1>5, <3>1
    <2>. QED  BY <2>1 DEF Told
  <1>6. \A u \in listed : u \in Transfer /\ made'[u] = made[u] /\ 0 <= made[u]
    BY <1>4, Numbers
  <1>7. Clocked'
    <2>1. \A u \in Transfer : made'[u] <= now' /\ (u \in listed' => made'[u] # None)
      BY <1>1, <1>3, <1>4, <1>6 DEF Clocked, None
    <2>2. ASSUME NEW v \in Transfer, NEW u \in Transfer, u < v, made'[v] # None
          PROVE  made'[u] # None /\ made'[u] <= made'[v]
      <3>1. u # v
        BY <1>3, <2>2
      <3>2. CASE v = t
        <4>1. made'[u] = made[u] /\ made[u] # None /\ made[u] <= now
          BY <1>1, <1>3, <1>4, <2>2, <3>1, <3>2
        <4>. QED  BY <1>1, <1>3, <1>4, <3>2, <4>1
      <3>3. CASE v # t
        <4>1. made'[v] = made[v] /\ made[v] # None
          BY <1>4, <2>2, <3>3
        <4>2. made[u] # None /\ made[u] <= made[v]
          BY <2>2, <4>1 DEF Clocked
        <4>3. u # t
          BY <1>1, <4>2
        <4>. QED  BY <1>1, <1>4, <4>1, <4>2, <4>3
      <3>. QED  BY <3>2, <3>3
    <2>. QED  BY <2>1, <2>2 DEF Clocked
  <1>8. InOrder'
    BY <1>1, <1>3, <1>4 DEF InOrder
  <1>9. PosOk'
    <2>1. ASSUME NEW s \in Sides, Anchored(pos[s], since[s]) PROVE Anchored(pos[s], since[s])'
      BY <1>1, <1>6, <2>1 DEF Anchored
    <2>. QED  BY <1>1, <2>1 DEF PosOk
  <1>10. Started'
    BY <1>1 DEF Started
  <1>11. Backwards'
    <2>. SUFFICES ASSUME kind = "loopring", scan.pc # "idle" PROVE Backwards'
      BY <1>1 DEF Backwards
    <2>1. {made'[u] : u \in scan.page} = {made[u] : u \in scan.page}
      BY <1>6, Parts
    <2>2. Oldest(scan.page)' = Oldest(scan.page)
      BY <1>1, <2>1 DEF Oldest
    <2>3. scan.end < now /\ scan.end \in Int
      BY Parts DEF Backwards
    <2>4. ~(made'[t] <= scan.end)
      BY <1>3, <1>4, <2>3
    <2>5. \A u \in scan.got \cup scan.page : made'[u] = made[u]
      BY <1>6, Parts
    <2>6. {made'[u] : u \in scan.got} = {made[u] : u \in scan.got}
      BY <2>5
    <2>7. Position("sender")' = Position("sender")
      BY <1>1, <2>6 DEF Position, AfterLoopring, Newest
    <2>9. ASSUME NEW u \in Transfer, scan.prev["sender"] <= made'[u], made'[u] <= scan.end,
                 scan.pc = "ask" => made'[u] > scan.upto,
                 scan.pc = "send" /\ scan.more => made'[u] > Oldest(scan.page),
                 scan.pc = "store" => Passed(u)'
          PROVE  u \in scan.got \cup scan.page \/ (scan.pc = "store" /\ u \in scan.unread)
      <3>1. u # t /\ made'[u] = made[u]
        BY <1>4, <2>4, <2>9
      <3>2. scan.pc = "store" => Passed(u)
        BY <1>1, <2>7, <2>9, <3>1 DEF Passed, Behind
      <3>. QED  BY <2>9, <3>1, <3>2 DEF Backwards
    <2>. QED  BY <1>1, <2>2, <2>5, <2>9 DEF Backwards
  <1>12. ByNumber'
    <2>1. \A u \in listed : Rank(u)' = Rank(u)
      BY <1>1 DEF Rank
    <2>2. \A u \in listed : Reached(u, scan.got \cup scan.page)' = Reached(u, scan.got \cup scan.page)
      BY <1>1 DEF Reached
    <2>3. Size' = Size
      BY <1>1 DEF Size
    <2>4. scan.got \subseteq listed
      BY Parts
    <2>5. \A u \in listed : Told(u)' => Told(u)
      BY <1>4, <1>5, <1>6, TimeNat
    <2>. QED  BY <1>1, <1>6, <2>1, <2>2, <2>3, <2>4, <2>5 DEF ByNumber
  \* What is new at a position that moved shares the time of another.
  <1>13. ASSUME kind # "loopring", NEW u \in listed, made[u] >= now PROVE ~Told(t)'
    <2>1. u \in Transfer \ {t} /\ made'[u] = made[u] /\ made[u] = now
      <3>1. u \in Transfer /\ u # t /\ made'[u] = made[u]
        BY <1>4, <1>6
      <3>2. made[u] \in Int /\ made[u] <= now
        BY <1>3, <3>1
      <3>. QED  BY <1>3, <1>13, <3>1, <3>2
    <2>. QED  BY <1>1, <1>4, <1>13, <2>1 DEF Told
  <1>14. Forwards'
    <2>. SUFFICES ASSUME kind = "immutable", scan.pc # "idle" PROVE Forwards'
      BY <1>1 DEF Forwards
    <2>1. ASSUME NEW s \in Sides
          PROVE  scan.at[s] = scan.prev[s] \/ \E u \in listed : scan.at[s] = made'[u]
      BY <1>6 DEF Forwards
    <2>2. ASSUME NEW s \in Sides, NEW v \in OfSide(s), Told(v)', scan.prev[s] < made'[v],
                 made'[v] <= scan.at[s]
          PROVE  v \in sent
      <3>1. scan.prev[s] \in Int /\ 0 <= scan.prev[s] /\ scan.at[s] \in Int /\ v \in Transfer
        BY Parts
      <3>2. CASE v = t
        <4>1. scan.prev[s] < now /\ now <= scan.at[s]
          BY <1>4, <2>2, <3>2
        <4>2. scan.at[s] # scan.prev[s]
          BY <1>3, <3>1, <4>1
        <4>3. PICK u \in listed : scan.at[s] = made[u]
          BY <4>2 DEF Forwards
        <4>. QED  BY <1>13, <2>2, <3>2, <4>1, <4>3
      <3>3. CASE v # t
        <4>1. made'[v] = made[v] /\ made[v] # None
          BY <1>3, <1>4, <2>2, <3>1, <3>3, TimeNat
        <4>2. Told(v)
          BY <1>5, <2>2, <3>1, <3>3, <4>1
        <4>. QED  BY <2>2, <4>1, <4>2 DEF Forwards
      <3>. QED  BY <3>2, <3>3
    <2>3. ASSUME NEW v \in listed \cap OfSide(scan.side), scan.prev[scan.side] < made'[v],
                 Older(v, scan.page)'
          PROVE  v \in scan.page
      <3>1. Older(v, scan.page) /\ made'[v] = made[v]
        BY <1>1, <1>6, <2>3, Parts DEF Older
      <3>. QED  BY <2>3, <3>1 DEF Forwards
    <2>. QED  BY <1>1, <2>1, <2>2, <2>3 DEF Forwards, OfSide
  <1>15. NothingMissed'
    <2>. SUFFICES ASSUME NEW v \in Transfer, NEW s \in Sides, made'[v] # None, Told(v)', Due(v)',
                         v \in OfSide(s), Behind(v, pos[s])'
                  PROVE  v \in sent \cup hidden
      BY <1>1 DEF NothingMissed, OfSide
    <2>1. CASE v # t
      <3>1. made'[v] = made[v] /\ Told(v)
        BY <1>4, <1>5, <2>1
      <3>. QED  BY <1>1, <2>1, <3>1 DEF NothingMissed, Due, Behind, OfSide
    <2>2. CASE v = t
      <3>1. /\ pos[s] # None /\ Anchored(pos[s], since[s]) /\ pos[s] \in Int /\ since[s] \in Int
            /\ ~Behind(t, since[s])' /\ Behind(t, pos[s])'
        BY <1>1, <2>2, Parts DEF Due, PosOk, OfSide
      <3>2. CASE kind = "loopring"
        BY <1>1, <1>3, <1>4, <3>1, <3>2 DEF Anchored, Behind
      <3>3. CASE kind = "zkspace"
        <4>1. now < pos[s]
          BY <1>1, <1>4, <3>1, <3>3 DEF Behind
        <4>2. PICK u \in listed : pos[s] = made[u] + 1
          BY <1>3, <3>1, <3>3, <4>1 DEF Anchored
        <4>3. made[u] >= now
          BY <1>3, <1>6, <3>1, <4>1, <4>2
        <4>. QED  BY <1>13, <2>2, <3>3, <4>3
      <3>4. CASE kind = "immutable"
        <4>1. since[s] < now /\ now <= pos[s]
          BY <1>1, <1>3, <1>4, <3>1, <3>4 DEF Behind
        <4>2. pos[s] # since[s]
          BY <1>3, <3>1, <4>1
        <4>3. PICK u \in listed : pos[s] = made[u]
          BY <3>1, <3>4, <4>2 DEF Anchored
        <4>. QED  BY <1>13, <2>2, <3>4, <4>1, <4>3
      <3>. QED  BY <3>2, <3>3, <3>4, Parts
    <2>. QED  BY <2>1, <2>2
  <1>. QED  BY <1>2, <1>7, <1>8, <1>9, <1>10, <1>11, <1>12, <1>14, <1>15

\* A transfer that becomes listed has none above it in the list, nor an older one before it.
LEMMA ListSafe ==
  ASSUME ApiInv, NEW t \in Transfer, List(t)
  PROVE  ApiInv'
  <1>. USE DEF ApiInv
  <1>1. /\ made[t] # None /\ t \notin listed /\ listed' = listed \cup {t}
        /\ UNCHANGED <<kind, now, made, pos, since, scan, sent, hidden>>
        /\ kind # "loopring" => \A u \in Transfer : u < t => u \in listed
    BY DEF List, file
  <1>2. TypeOK'
    BY TypeStep DEF Next, Environment, Backwards
  <1>3. /\ Transfer \subseteq Nat /\ IsFiniteSet(listed) /\ listed \subseteq Transfer
        /\ \A u \in Transfer : made[u] \in Int
    BY Numbers
  <1>4. ASSUME kind # "loopring", NEW u \in listed PROVE u < t /\ made[u] <= made[t]
    <2>1. ~(t < u)
      BY <1>1, <1>4 DEF InOrder
    <2>2. u < t
      BY <1>1, <1>3, <2>1
    <2>. QED  BY <1>1, <1>3, <2>2 DEF Clocked
  <1>4a. ASSUME kind # "loopring", NEW G, G \subseteq listed PROVE ~Reached(t, G) /\ ~Older(t, G)
    <2>1. ASSUME NEW u \in G PROVE ~(t < u) /\ ~(made[t] < made[u])
      <3>1. u < t /\ made[u] <= made[t] /\ made[u] \in Int /\ made[t] \in Int /\ t \in Nat /\ u \in Nat
        BY <1>3, <1>4, <1>4a
      <3>. QED  BY <3>1
    <2>. QED  BY <2>1 DEF Reached, Older
  <1>5. Clocked'
    BY <1>1 DEF Clocked
  <1>6. InOrder'
    BY <1>1 DEF InOrder
  <1>7. PosOk'
    <2>1. ASSUME NEW s \in Sides, Anchored(pos[s], since[s]) PROVE Anchored(pos[s], since[s])'
      BY <1>1, <2>1, Parts DEF Anchored
    <2>. QED  BY <1>1, <2>1 DEF PosOk
  <1>8. Started'
    BY <1>1 DEF Started
  <1>9. Backwards'
    <2>1. \A u : Passed(u)' = Passed(u)
      BY <1>1 DEF Passed, Behind, Position, AfterLoopring, AfterZkspace, Newest
    <2>. QED  BY <1>1, <2>1 DEF Backwards, Oldest
  <1>10. ByNumber'
    <2>. SUFFICES ASSUME kind = "zkspace", scan.pc # "idle" PROVE ByNumber'
      BY <1>1 DEF ByNumber
    <2>. DEFINE G == scan.got \cup scan.page
    <2>1. G \subseteq listed
      BY Parts
    <2>2. ~Reached(t, G)
      BY <1>4a, <2>1
    <2>3. ASSUME NEW u \in listed PROVE Rank(u)' >= Rank(u) /\ Rank(u) \in Nat /\ Rank(u)' \in Nat
      <3>. DEFINE A == {v \in listed : v > u}
                  B == {v \in listed' : v > u}
      <3>1. A \subseteq B /\ B \subseteq listed' /\ IsFiniteSet(listed')
        BY <1>1, <1>3, FS_AddElement
      <3>2. IsFiniteSet(A) /\ IsFiniteSet(B) /\ Cardinality(A) <= Cardinality(B)
        BY <3>1, FS_Subset
      <3>3. Cardinality(A) \in Nat /\ Cardinality(B) \in Nat
        BY <3>2, FS_CardinalityType
      <3>4. Rank(u) = Cardinality(A) /\ Rank(u)' = Cardinality(B)
        BY <1>1 DEF Rank
      <3>. QED  BY <3>2, <3>3, <3>4
    <2>4. ASSUME NEW u \in listed' \ G, Reached(u, G)'
          PROVE  /\ scan.pc = "ask" => Rank(u)' >= scan.offset
                 /\ scan.pc = "send" => Rank(u)' >= scan.offset + Size
                 /\ scan.pc = "send" /\ ~scan.more => made[u] < scan.prev["sender"] \/ ~Told(u)
                 /\ scan.pc = "store" => made[u] < scan.prev["sender"] \/ ~Told(u) \/ u \in scan.unread
      <3>1. Reached(u, G) /\ u \in listed
        BY <1>1, <2>2, <2>4 DEF Reached
      <3>2. scan.pc = "ask" => Rank(u) >= scan.offset
        BY <2>4, <3>1 DEF ByNumber
      <3>3. scan.pc = "send" => Rank(u) >= scan.offset + Size
        BY <2>4, <3>1 DEF ByNumber
      <3>4. /\ scan.pc = "send" /\ ~scan.more => made[u] < scan.prev["sender"] \/ ~Told(u)
            /\ scan.pc = "store" => made[u] < scan.prev["sender"] \/ ~Told(u) \/ u \in scan.unread
        BY <2>4, <3>1 DEF ByNumber
      <3>5. Rank(u)' >= Rank(u) /\ Rank(u) \in Nat /\ Rank(u)' \in Nat /\ scan.offset \in Nat /\ Size \in Nat
        BY <2>3, <3>1, Parts
      <3>6. \A n \in Nat : Rank(u) >= n => Rank(u)' >= n
        BY <3>5
      <3>. QED  BY <3>2, <3>3, <3>4, <3>5, <3>6
    <2>5. Size' = Size
      BY <1>1 DEF Size
    <2>6. /\ \A u \in scan.got : scan.prev["sender"] <= made[u] => u \in sent
          /\ scan.pc = "ask" /\ scan.got = {} => scan.offset = 0
      BY DEF ByNumber
    <2>. QED  BY <1>1, <2>4, <2>5, <2>6, SameTold DEF ByNumber
  <1>11. Forwards'
    <2>. SUFFICES ASSUME kind = "immutable", scan.pc # "idle" PROVE Forwards'
      BY <1>1 DEF Forwards
    <2>1. ~Older(t, scan.page)
      BY <1>4a, Parts
    <2>. QED  BY <1>1, <2>1, SameTold DEF Forwards, Older, OfSide
  <1>12. NothingMissed'
    BY <1>1, SameTold DEF NothingMissed, Due, Behind, OfSide
  <1>. QED  BY <1>2, <1>5, <1>6, <1>7, <1>8, <1>9, <1>10, <1>11, <1>12

-----------------------------------------------------------------------------
(* The steps of a scan.                                                     *)

\* What the state of the scan says of it.
ScanOk == Started /\ Backwards /\ ByNumber /\ Forwards

\* Steps of the scan that leave the file alone disturb nothing else.
LEMMA ScanKeeps ==
  ASSUME ApiInv, UNCHANGED <<kind, now, made, listed, pos, since, hidden>>, sent \subseteq sent'
  PROVE  Clocked' /\ InOrder' /\ PosOk' /\ NothingMissed'
  <1>1. Clocked' /\ InOrder'
    BY DEF ApiInv, Clocked, InOrder
  <1>2. PosOk'
    BY DEF ApiInv, PosOk, Anchored
  <1>3. NothingMissed'
    BY SameTold DEF ApiInv, NothingMissed, Due, Behind, OfSide
  <1>. QED  BY <1>1, <1>2, <1>3

\* No scan is under way.
LEMMA NoScanSafe ==
  ASSUME scan' = NoScan
  PROVE  ScanOk'
  <1>1. scan'.pc = "idle" /\ scan'.page = {}
    BY NoScanType
  <1>. QED  BY <1>1 DEF ScanOk, Started, Backwards, ByNumber, Forwards

\* A scan that starts has read nothing and has nothing behind it.
LEMMA StartSafe ==
  ASSUME ApiInv, Start
  PROVE  ScanOk'
  <1>. USE DEF ApiInv
  <1>. DEFINE from == [s \in Sides |-> IF pos[s] = None THEN First ELSE pos[s]]
  <1>1. /\ UNCHANGED <<kind, now, made, listed, pos, since, sent>>
        /\ scan' = [NoScan EXCEPT !.pc = "ask", !.end = End, !.upto = End, !.prev = from, !.at = from]
    BY DEF Start, api, file
  <1>2. /\ scan'.pc = "ask" /\ scan'.side = "sender" /\ scan'.prev = from /\ scan'.at = from /\ scan'.end = End
        /\ scan'.upto = End /\ scan'.offset = 0 /\ scan'.page = {} /\ scan'.got = {}
    BY <1>1 DEF NoScan
  <1>3. End \in Nat /\ End < now /\ First <= now
    BY FirstType
  <1>4. Started'
    <2>1. \A s \in Sides : IF pos[s] = None THEN from[s] <= now ELSE from[s] = pos[s]
      BY <1>3
    <2>2. kind # "immutable" => from["sender"] = from["receiver"]
      BY DEF PosOk, Sides
    <2>. QED  BY <1>1, <1>2, <2>1, <2>2 DEF Started
  <1>5. Backwards'
    <2>1. \A n \in Int : n <= End => ~(n > End)
      BY <1>3
    <2>. QED  BY <1>1, <1>2, <1>3, <2>1, Numbers DEF Backwards
  <1>6. ByNumber'
    BY <1>1, <1>2 DEF ByNumber, Reached
  <1>7. Forwards'
    <2>1. \A s \in Sides : from[s] \in Int
      BY FirstType, TimeNat DEF TypeOK
    <2>2. ASSUME NEW s \in Sides, NEW t \in OfSide(s), from[s] < made[t], made[t] <= from[s] PROVE FALSE
      <3>1. made[t] \in Int /\ from[s] \in Int
        BY <2>1, <2>2, Parts, Numbers
      <3>. QED  BY <2>2, <3>1
    <2>. HIDE DEF from
    <2>3. \A t \in listed : ~Older(t, {})
      BY DEF Older
    <2>. QED  BY <1>1, <1>2, <2>2, <2>3 DEF Forwards, OfSide, Older
  <1>. QED  BY <1>4, <1>5, <1>6, <1>7 DEF ScanOk

\* The parts of a scan that has a page to publish.
Asked(read, m) == [scan EXCEPT !.pc = "send", !.page = read, !.more = m]

LEMMA AskedParts ==
  ASSUME TypeOK, NEW read, NEW m
  PROVE  /\ Asked(read, m).pc = "send" /\ Asked(read, m).page = read /\ Asked(read, m).more = m
         /\ Asked(read, m).side = scan.side /\ Asked(read, m).prev = scan.prev /\ Asked(read, m).end = scan.end
         /\ Asked(read, m).upto = scan.upto /\ Asked(read, m).offset = scan.offset
         /\ Asked(read, m).got = scan.got /\ Asked(read, m).at = scan.at
  BY DEF Asked, TypeOK

-----------------------------------------------------------------------------
(* An answer.                                                               *)

\* A page of the newest of S is empty only when S is.
LEMMA NewestPage ==
  ASSUME TypeOK, NEW S, IsFiniteSet(S), NEW P \in NewestOf(S)
  PROVE  /\ P \subseteq S /\ (P = {} => S = {})
         /\ \A t \in P, u \in S \ P : made[t] >= made[u]
  <1>1. /\ P \subseteq S /\ Cardinality(P) = Min({Size, Cardinality(S)})
        /\ \A t \in P, u \in S \ P : made[t] >= made[u]
    BY DEF NewestOf, PageOf
  <1>2. ASSUME P = {} PROVE S = {}
    <2>1. Cardinality(P) = 0
      BY <1>2, FS_EmptySet
    <2>2. Cardinality(S) \in Nat /\ Size \in Nat /\ Size > 1
      BY FS_CardinalityType, Parts
    <2>. DEFINE T == {Size, Cardinality(S)}
    <2>3. T \subseteq Int /\ T # {} /\ 0 \in Int /\ \A x \in T : 0 <= x
      BY <2>2
    <2>4. Min(T) \in T
      BY <2>3, MinOf
    <2>5. Cardinality(S) = 0
      BY <1>1, <2>1, <2>2, <2>4
    <2>. QED  BY <2>5, FS_EmptySet
  <1>. QED  BY <1>1, <1>2

\* The lower a transfer is in the list, the higher is its number.
LEMMA RankOrder ==
  ASSUME TypeOK, Clocked, NEW t \in listed, NEW u \in listed, t <= u
  PROVE  Rank(t) \in Nat /\ Rank(u) \in Nat /\ Rank(u) <= Rank(t)
  <1>. DEFINE A == {v \in listed : v > u}
              B == {v \in listed : v > t}
  <1>1. \A v \in listed : v \in Int
    BY Numbers
  <1>2. A \subseteq B /\ B \subseteq listed /\ IsFiniteSet(listed)
    BY <1>1, Numbers
  <1>3. IsFiniteSet(A) /\ IsFiniteSet(B) /\ Cardinality(A) <= Cardinality(B)
    BY <1>2, FS_Subset
  <1>4. Cardinality(A) \in Nat /\ Cardinality(B) \in Nat
    BY <1>3, FS_CardinalityType
  <1>. QED  BY <1>3, <1>4 DEF Rank

\* No number below that of a transfer is left out.
LEMMA Contiguous ==
  ASSUME TypeOK, Clocked, NEW k \in Nat, NEW t \in listed, Rank(t) >= k
  PROVE  \E w \in listed : Rank(w) = k
  <1>. DEFINE N == {n \in Nat : n >= k /\ \E u \in listed : Rank(u) = n}
  <1>1. \A u \in listed : Rank(u) \in Nat
    <2>1. ASSUME NEW u \in listed PROVE Rank(u) \in Nat
      <3>1. u <= u
        BY Numbers
      <3>. QED  BY <3>1, RankOrder
    <2>. QED  BY <2>1
  <1>2. PICK r \in N : \A n \in N : r <= n
    <2>1. N \subseteq Nat /\ N # {}
      BY <1>1
    <2>. QED  BY <2>1, LeastNat
  <1>3. r \in Nat /\ r >= k
    OBVIOUS
  <1>4. PICK w \in listed : Rank(w) = r
    OBVIOUS
  <1>5. ASSUME r # k PROVE FALSE
    <2>. DEFINE A == {v \in listed : v > w}
    <2>1. A \subseteq listed /\ IsFiniteSet(A) /\ Cardinality(A) = r
      BY <1>4, Numbers, FS_Subset DEF Rank
    <2>2. A # {}
      BY <1>3, <1>5, <2>1, FS_EmptySet
    <2>3. A \subseteq Nat /\ w \in Nat
      BY <2>1, Numbers
    <2>4. PICK v \in A : \A x \in A : v <= x
      BY <2>2, <2>3, LeastNat
    <2>6. {u \in listed : u > v} = A \ {v}
      <3>1. ASSUME NEW u \in listed, u > v PROVE u \in A \ {v}
        <4>1. u \in Nat /\ v \in Nat /\ v > w
          BY <2>3, Numbers
        <4>. QED  BY <2>3, <3>1, <4>1
      <3>2. ASSUME NEW u \in A, u # v PROVE u > v
        BY <2>3, <2>4, <3>2
      <3>. QED  BY <3>1, <3>2
    <2>7. Rank(v) = r - 1
      BY <2>1, <2>6, FS_RemoveElement DEF Rank
    <2>8. r - 1 \in Nat /\ r - 1 >= k
      BY <1>1, <1>3, <1>5, <2>1, <2>7
    <2>9. r - 1 \in N
      BY <2>1, <2>7, <2>8
    <2>. QED  BY <1>2, <1>3, <2>9
  <1>. QED  BY <1>4, <1>5

\* What of its answer a service looks at.
Read(P) == IF kind = "immutable" THEN Fresh(P) ELSE P

\* An answer is read, and its transfers wait to be published if it has any.
LEMMA AnswerParts ==
  ASSUME ApiInv, NEW P \in Pages, scan.pc = "ask",
         scan' = IF Read(P) = {} THEN Turn(scan) ELSE Asked(Read(P), More(P))
  PROVE  /\ scan.page = {} /\ scan'.page = Read(P) /\ Read(P) \subseteq P /\ P \subseteq listed
         /\ scan'.prev = scan.prev /\ scan'.end = scan.end /\ scan'.upto = scan.upto
         /\ scan'.offset = scan.offset /\ scan'.got = scan.got /\ scan'.at = scan.at
         /\ Read(P) # {} => scan'.pc = "send" /\ scan'.more = More(P) /\ scan'.side = scan.side
         /\ Read(P) = {} => scan'.pc \in {"ask", "store"}
         /\ Read(P) = {} /\ kind # "immutable" => scan'.pc = "store" /\ scan'.side = scan.side
  <1>1. scan \in ScanType /\ TypeOK /\ scan.page = {} /\ P \subseteq listed
    BY PagesType DEF ApiInv, TypeOK, ScanType, Started
  <1>2. Read(P) \subseteq P
    BY FreshSubset DEF Read
  <1>3. More(P) \in BOOLEAN
    BY DEF More
  <1>4. CASE Read(P) = {}
    BY <1>1, <1>2, <1>4, TurnType
  <1>5. CASE Read(P) # {}
    BY <1>1, <1>2, <1>3, <1>5, AskedParts
  <1>. QED  BY <1>4, <1>5

\* loopring: what the page leaves of the query is not newer than its oldest.
LEMMA LoopringAnswer ==
  ASSUME ApiInv, kind = "loopring", NEW P \in Pages, scan.pc = "ask",
         scan' = IF Read(P) = {} THEN Turn(scan) ELSE Asked(Read(P), More(P)),
         UNCHANGED <<kind, now, made, listed, pos, since, sent>>
  PROVE  Backwards'
  <1>. USE DEF ApiInv
  <1>. DEFINE S == {t \in Later : made[t] <= scan.upto}
              prev == scan.prev["sender"]
  <1>1. P \in NewestOf(S) /\ Read(P) = P
    BY DEF Pages, ByTime, Read
  <1>2. /\ scan.page = {} /\ scan'.page = P /\ P \subseteq listed /\ scan'.prev = scan.prev
        /\ scan'.end = scan.end /\ scan'.upto = scan.upto /\ scan'.got = scan.got
        /\ P # {} => scan'.pc = "send" /\ scan'.more = More(P)
        /\ P = {} => scan'.pc = "store"
    BY <1>1, AnswerParts
  <1>3. /\ prev \in Int /\ scan.end \in Int /\ scan.upto \in Int /\ now \in Int
        /\ \A t \in Transfer : made[t] \in Int
        /\ scan.end < now /\ scan.upto <= scan.end /\ 0 <= prev
    BY Parts, Numbers DEF Backwards
  <1>4. S = {t \in listed : prev <= made[t] /\ made[t] <= scan.upto}
    <2>1. Later = {t \in listed : made[t] >= prev}
      BY Parts DEF Later, OfSide, Started
    <2>2. \A t \in listed : made[t] \in Int
      BY <1>3, Parts
    <2>. QED  BY <1>3, <2>1, <2>2
  <1>5. /\ P \subseteq S /\ (P = {} => S = {})
        /\ \A t \in P, u \in S \ P : made[t] >= made[u]
    <2>1. IsFiniteSet(S)
      BY <1>4, Numbers, FS_Subset
    <2>. QED  BY <1>1, <2>1, NewestPage
  <1>6. ASSUME NEW t \in Transfer, prev <= made[t], made[t] <= scan.end
        PROVE  t \in scan.got \/ t \in S
    <2>1. CASE made[t] > scan.upto
      BY <1>2, <1>6, <2>1 DEF Backwards
    <2>2. CASE ~(made[t] > scan.upto)
      <3>1. made[t] # None /\ made[t] < now /\ made[t] <= scan.upto
        BY <1>3, <1>6, <2>2, TimeNat
      <3>2. t \in listed
        BY <3>1 DEF InOrder
      <3>. QED  BY <1>4, <1>6, <3>1, <3>2
    <2>. QED  BY <2>1, <2>2
  <1>7. /\ \A t \in P : made[t] # None /\ made[t] <= MaxTime
        /\ P \subseteq Transfer /\ \A t \in P : prev <= made[t] /\ made[t] <= scan.end
    <2>1. \A t \in P : t \in listed /\ t \in Transfer /\ prev <= made[t] /\ made[t] <= scan.upto
      BY <1>2, <1>4, <1>5, Parts
    <2>2. \A t \in P : made[t] \in Int /\ made[t] <= scan.end /\ made[t] <= MaxTime /\ made[t] # None
      BY <1>3, <2>1, Numbers, TimeNat
    <2>. QED  BY <2>1, <2>2
  \* The rest of the query is older than this page.
  <1>8. ASSUME NEW t \in S, t \notin P
        PROVE  /\ P # {} /\ More(P)
               /\ ~(made[t] > Oldest(P))
    <2>1. P # {}
      BY <1>5, <1>8
    <2>2. More(P)
      <3>1. t \in listed \ P /\ prev <= made[t] /\ made[t] <= scan.upto /\ made[t] \in Int
        BY <1>3, <1>4, <1>8, Parts
      <3>2. made[t] \in prev .. scan.upto
        BY <1>3, <3>1
      <3>. QED  BY <3>1, <3>2 DEF More
    <2>3. PICK w \in P : made[w] = Oldest(P)
      BY <1>7, <2>1, OldestTime
    <2>4. made[w] >= made[t] /\ made[w] \in Int /\ made[t] \in Int
      BY <1>3, <1>4, <1>5, <1>7, <1>8, Parts
    <2>. QED  BY <2>1, <2>2, <2>3, <2>4
  <1>9. Oldest(P)' = Oldest(P) /\ Oldest(scan.page)' = Oldest(P)
    BY <1>2 DEF Oldest
  <1>10. ASSUME NEW t \in Transfer, prev <= made[t], made[t] <= scan.end,
                scan'.pc = "ask" => made[t] > scan.upto,
                scan'.pc = "send" /\ scan'.more => made[t] > Oldest(P)
         PROVE  t \in scan.got \cup P
    BY <1>2, <1>6, <1>8, <1>10
  <1>. QED  BY <1>2, <1>3, <1>7, <1>9, <1>10 DEF Backwards

\* zkspace: what the page leaves is behind it, and older than the position after the last.
LEMMA ZkspaceAnswer ==
  ASSUME ApiInv, kind = "zkspace", NEW P \in Pages, scan.pc = "ask",
         scan' = IF Read(P) = {} THEN Turn(scan) ELSE Asked(Read(P), More(P)),
         UNCHANGED <<kind, now, made, listed, pos, since, sent>>
  PROVE  ByNumber'
  <1>. USE DEF ApiInv
  <1>. DEFINE prev == scan.prev["sender"]
  <1>1. P = {t \in listed : Rank(t) \in scan.offset .. scan.offset + Size - 1} /\ Read(P) = P
    BY DEF Pages, ByOffset, Rank, Read
  <1>2. /\ scan.page = {} /\ scan'.page = P /\ P \subseteq listed /\ scan'.prev = scan.prev
        /\ scan'.offset = scan.offset /\ scan'.got = scan.got
        /\ P # {} => scan'.pc = "send" /\ scan'.more = More(P)
        /\ P = {} => scan'.pc = "store"
    BY <1>1, AnswerParts
  <1>3. /\ prev \in Int /\ scan.offset \in Nat /\ Size \in Nat /\ Size > 1
        /\ \A t \in listed : made[t] \in Int /\ t \in Transfer
        /\ scan.got \subseteq listed
    BY Parts, Numbers
  <1>4. \A t \in listed : Rank(t) \in Nat
    <2>1. ASSUME NEW t \in listed PROVE Rank(t) \in Nat
      <3>1. t <= t
        BY Numbers
      <3>. QED  BY <3>1, RankOrder
    <2>. QED  BY <2>1
  <1>5. ASSUME NEW t \in listed \ (scan.got \cup P), Reached(t, scan.got \cup P)
        PROVE  Rank(t) >= scan.offset + Size
    <2>1. PICK u \in scan.got \cup P : t < u
      BY <1>5 DEF Reached
    <2>2. Rank(t) >= scan.offset
      <3>1. CASE u \in scan.got
        <4>1. Reached(t, scan.got \cup scan.page)
          BY <2>1, <3>1 DEF Reached
        <4>. QED  BY <1>2, <1>5, <4>1 DEF ByNumber
      <3>2. CASE u \in P
        <4>1. t <= u /\ t \in listed /\ u \in listed /\ Rank(u) >= scan.offset
          BY <1>1, <1>5, <2>1, <3>2, Numbers
        <4>2. Rank(u) <= Rank(t) /\ Rank(u) \in Nat /\ Rank(t) \in Nat
          BY <4>1, RankOrder
        <4>. QED  BY <1>3, <4>1, <4>2
      <3>. QED  BY <2>1, <3>1, <3>2
    <2>3. Rank(t) \in Nat /\ Rank(t) \notin scan.offset .. scan.offset + Size - 1
      BY <1>1, <1>4, <1>5
    <2>. QED  BY <1>3, <2>2, <2>3
  <1>6. ASSUME NEW t \in listed \ (scan.got \cup P), Reached(t, scan.got \cup P), P = {} \/ ~More(P), Told(t)
        PROVE  made[t] < prev
    <2>1. P # {}
      <3>1. Rank(t) >= scan.offset
        BY <1>3, <1>4, <1>5, <1>6
      <3>2. PICK w \in listed : Rank(w) = scan.offset
        BY <1>3, <3>1, Contiguous
      <3>. QED  BY <1>1, <1>3, <3>2
    <2>2. \A v \in P : v \in Transfer /\ made[v] # None /\ made[v] <= MaxTime
      BY <1>2, Parts, Numbers, TimeNat
    <2>3. PICK w \in P : made[w] = Oldest(P)
      BY <2>1, <2>2, OldestTime
    <2>4. ~(Oldest(P) > prev)
      BY <1>6, <2>1 DEF More
    <2>5. t < w
      <3>1. ASSUME w <= t PROVE FALSE
        <4>1. Rank(t) <= Rank(w) /\ Rank(t) \in Nat /\ Rank(w) \in Nat
          BY <1>2, <1>6, <3>1, RankOrder
        <4>2. Rank(w) < scan.offset + Size
          BY <1>1, <1>3, <4>1
        <4>3. Rank(t) >= scan.offset + Size
          BY <1>5, <1>6
        <4>. QED  BY <1>3, <4>1, <4>2, <4>3
      <3>. QED  BY <1>2, <1>6, <3>1, Numbers
    <2>6. /\ made[w] \in Int /\ made[t] \in Int /\ made[w] # None
          /\ t \in Transfer /\ w \in Transfer /\ t # w
      BY <1>2, <1>3, <1>6, <2>2, <2>5, Numbers
    <2>7. made[t] <= made[w] /\ made[t] # made[w]
      BY <1>6, <2>5, <2>6 DEF Clocked, Told
    <2>. QED  BY <1>3, <2>3, <2>4, <2>6, <2>7
  <1>7. \A t \in listed : Rank(t)' = Rank(t)
    BY DEF Rank
  <1>8. /\ Size' = Size /\ \A t : Told(t)' = Told(t)
        /\ \A t : Reached(t, scan.got \cup scan.page)' => Reached(t, scan.got \cup P)
    BY <1>2, SameTold DEF Size, Reached
  <1>9. /\ scan'.pc # "ask" /\ (scan'.pc = "send" => P # {} /\ scan'.more = More(P))
        /\ (scan'.pc = "store" => P = {})
    BY <1>2
  <1>. QED  BY <1>2, <1>5, <1>6, <1>7, <1>8, <1>9 DEF ByNumber

\* immutable: the page of a side is the oldest after its position.
LEMMA ImmutableAnswer ==
  ASSUME ApiInv, kind = "immutable", NEW P \in Pages, scan.pc = "ask",
         scan' = IF Read(P) = {} THEN Turn(scan) ELSE Asked(Read(P), More(P)),
         UNCHANGED <<kind, now, made, listed, pos, since, sent>>
  PROVE  Forwards'
  <1>. USE DEF ApiInv
  <1>. DEFINE from == scan.prev[scan.side]
  <1>1. /\ P \subseteq Later /\ Read(P) = Fresh(P)
        /\ \A t \in P, u \in Later \ P : made[t] <= made[u]
    BY DEF Pages, Forward, OldestOf, PageOf, Read
  <1>2. /\ scan'.page = Read(P) /\ scan'.prev = scan.prev /\ scan'.at = scan.at
        /\ Read(P) # {} => scan'.side = scan.side
        /\ Read(P) \subseteq P /\ P \subseteq listed
    BY AnswerParts
  <1>3. from \in Int /\ \A t \in listed : made[t] \in Int
    BY Parts, Numbers
  <1>4. ASSUME NEW t \in listed \cap OfSide(scan.side), from < made[t], Older(t, Read(P))
        PROVE  t \in Read(P)
    <2>1. PICK u \in Read(P) : made[t] < made[u]
      BY <1>4 DEF Older
    <2>2. u \in P /\ u \in listed
      BY <1>2
    <2>3. t \in Later
      BY <1>3, <1>4 DEF Later
    <2>4. t \in P
      BY <1>1, <1>3, <1>4, <2>1, <2>2, <2>3
    <2>5. made[t] >= from + 1
      BY <1>3, <1>4
    <2>. QED  BY <1>1, <2>4, <2>5 DEF Fresh
  <1>5. \A s \in Sides :
         /\ scan.at[s] = scan.prev[s] \/ \E u \in listed : scan.at[s] = made[u]
         /\ \A t \in OfSide(s) : Told(t) /\ scan.prev[s] < made[t] /\ made[t] <= scan.at[s] => t \in sent
    BY DEF Forwards
  <1>6. CASE Read(P) = {}
    <2>1. \A t : ~Older(t, scan.page)'
      BY <1>2, <1>6 DEF Older
    <2>. QED  BY <1>2, <1>5, <2>1, SameTold DEF Forwards, OfSide
  <1>7. CASE Read(P) # {}
    <2>1. \A t : Older(t, scan.page)' => Older(t, Read(P))
      BY <1>2 DEF Older
    <2>2. OfSide(scan.side)' = OfSide(scan.side) /\ \A s \in Sides : OfSide(s)' = OfSide(s)
      BY <1>2, <1>7 DEF OfSide
    <2>3. scan'.side = scan.side /\ scan'.prev = scan.prev /\ scan'.at = scan.at /\ scan'.page = Read(P)
      BY <1>2, <1>7
    <2>. QED  BY <1>4, <1>5, <2>1, <2>2, <2>3, SameTold DEF Forwards
  <1>. QED  BY <1>6, <1>7

\* An answer keeps what the scan knows.
LEMMA AnswerSafe ==
  ASSUME ApiInv, Answer
  PROVE  ScanOk'
  <1>. USE DEF ApiInv
  <1>1. scan.pc = "ask" /\ UNCHANGED <<kind, now, made, listed, pos, since, sent>>
    BY DEF Answer, api, file
  <1>2. PICK P \in Pages : scan' = IF Read(P) = {} THEN Turn(scan) ELSE Asked(Read(P), More(P))
    BY DEF Answer, Read, Asked
  <1>3. kind \in {"loopring", "zkspace", "immutable"}
    BY Parts
  <1>4. Started'
    <2>1. /\ scan.page = {} /\ scan'.page = Read(P) /\ scan'.prev = scan.prev
          /\ Read(P) # {} => scan'.pc = "send" /\ scan'.side = scan.side
          /\ Read(P) = {} => scan'.pc \in {"ask", "store"}
          /\ Read(P) = {} /\ kind # "immutable" => scan'.side = scan.side
      BY <1>1, <1>2, AnswerParts
    <2>. QED  BY <1>1, <2>1 DEF Started
  <1>5. Backwards'
    BY <1>1, <1>2, LoopringAnswer DEF Backwards
  <1>6. ByNumber'
    BY <1>1, <1>2, ZkspaceAnswer DEF ByNumber
  <1>7. Forwards'
    BY <1>1, <1>2, ImmutableAnswer DEF Forwards
  <1>. QED  BY <1>4, <1>5, <1>6, <1>7 DEF ScanOk

-----------------------------------------------------------------------------
(* The publication of a page, and what fails.                               *)

\* What a scan is once its page is published.
LEMMA PublishedParts ==
  ASSUME TypeOK
  PROVE  /\ Published(scan).page = {} /\ Published(scan).prev = scan.prev /\ Published(scan).end = scan.end
         /\ Published(scan).pc \in {"ask", "store"}
         /\ kind # "immutable" =>
              /\ Published(scan).side = scan.side /\ Published(scan).at = scan.at
              /\ Published(scan).got = scan.got \cup scan.page
              /\ Published(scan).offset = scan.offset + Size /\ Published(scan).upto = Oldest(scan.page)
              /\ Published(scan).pc = IF scan.more THEN "ask" ELSE "store"
         /\ kind = "immutable" => Published(scan).at = [scan.at EXCEPT ![scan.side] = Newest(scan.page)]
  <1>. DEFINE g == scan.got \cup scan.page
              o == scan.offset + Size
              u == Oldest(scan.page)
              n == Newest(scan.page)
              read == [scan EXCEPT !.got = g, !.offset = o, !.upto = u]
              next == [read EXCEPT !.pc = "ask", !.page = {}]
              moved == [read EXCEPT !.at[scan.side] = n]
  <1>1. scan \in ScanType
    BY DEF TypeOK, ScanType
  <1>2. Published(scan) = IF kind = "immutable" THEN Turn(moved) ELSE IF scan.more THEN next ELSE Turn(read)
    BY DEF Published
  <1>. HIDE DEF g, o, u, n
  <1>3. /\ next.page = {} /\ next.prev = scan.prev /\ next.end = scan.end /\ next.pc = "ask"
        /\ next.side = scan.side /\ next.at = scan.at /\ next.got = g /\ next.offset = o /\ next.upto = u
    BY <1>1 DEF ScanType
  <1>4. kind # "immutable" =>
          /\ Turn(read).page = {} /\ Turn(read).prev = scan.prev /\ Turn(read).end = scan.end
          /\ Turn(read).pc = "store" /\ Turn(read).side = scan.side /\ Turn(read).at = scan.at
          /\ Turn(read).got = g /\ Turn(read).offset = o /\ Turn(read).upto = u
    BY <1>1 DEF Turn, ScanType
  <1>5. /\ Turn(moved).page = {} /\ Turn(moved).prev = scan.prev /\ Turn(moved).end = scan.end
        /\ Turn(moved).pc \in {"ask", "store"}
        /\ Turn(moved).at = [scan.at EXCEPT ![scan.side] = n]
    BY <1>1 DEF Turn, ScanType
  <1>. HIDE DEF read, next, moved
  <1>. QED  BY <1>2, <1>3, <1>4, <1>5, Parts DEF g, o, u, n

\* A transfer as old as a listed one is listed too, if its time is its own.
LEMMA ListedBefore ==
  ASSUME TypeOK, Clocked, InOrder, kind # "loopring",
         NEW t \in Transfer, NEW u \in listed, made[t] # None, made[t] <= made[u], Told(t)
  PROVE  t \in listed
  <1>1. u \in Transfer /\ t \in Nat /\ u \in Nat /\ made[t] \in Int /\ made[u] \in Int
    BY Numbers
  <1>2. ~(u < t)
    BY <1>1 DEF Clocked, Told
  <1>3. t = u \/ t < u
    BY <1>1, <1>2
  <1>. QED  BY <1>3 DEF InOrder

\* What the page holds of the query is published with it.
LEMMA SendSafe ==
  ASSUME ApiInv, Send
  PROVE  ScanOk'
  <1>. USE DEF ApiInv
  <1>. DEFINE prev == scan.prev["sender"]
  <1>1. /\ scan.pc = "send" /\ scan.page # {} /\ UNCHANGED <<kind, now, made, listed, pos, since>>
        /\ sent' = sent \cup Fresh(scan.page) /\ scan' = Published(scan)
    BY DEF Send, api, file, Started
  <1>2. /\ scan'.page = {} /\ scan'.prev = scan.prev /\ scan'.end = scan.end
        /\ scan'.pc \in {"ask", "store"}
        /\ kind # "immutable" =>
              /\ scan'.side = scan.side /\ scan'.at = scan.at /\ scan'.got = scan.got \cup scan.page
              /\ scan'.offset = scan.offset + Size /\ scan'.upto = Oldest(scan.page)
              /\ scan'.pc = IF scan.more THEN "ask" ELSE "store"
        /\ kind = "immutable" => scan'.at = [scan.at EXCEPT ![scan.side] = Newest(scan.page)]
    BY <1>1, PublishedParts
  <1>3. /\ prev \in Int /\ scan.end \in Int /\ now \in Int /\ Size \in Nat
        /\ \A t \in Transfer : made[t] \in Int
        /\ scan.page \subseteq listed /\ scan.page \subseteq Transfer
        /\ \A t \in scan.page : made[t] # None /\ made[t] <= MaxTime
    BY Parts, Numbers, TimeNat
  <1>4. ASSUME kind # "immutable", NEW t \in scan.page, prev <= made[t] PROVE t \in sent'
    <2>1. scan.side = "sender" /\ made[t] \in Int /\ made[t] >= prev + 0
      BY <1>1, <1>3, <1>4 DEF Started
    <2>. QED  BY <1>1, <1>4, <2>1 DEF Fresh
  <1>5. Started'
    BY <1>1, <1>2 DEF Started
  <1>6. ASSUME kind = "loopring" PROVE Backwards'
    <2>1. /\ scan.end < now /\ scan.got \subseteq sent
          /\ \A t \in scan.got \cup scan.page : prev <= made[t] /\ made[t] <= scan.end
          /\ \A t \in Transfer : prev <= made[t] /\ made[t] <= scan.end /\ (scan.more => made[t] > Oldest(scan.page))
               => t \in scan.got \cup scan.page
      BY <1>1, <1>6 DEF Backwards
    <2>2. Oldest(scan.page) <= scan.end
      <3>1. PICK t \in scan.page : made[t] = Oldest(scan.page)
        BY <1>1, <1>3, OldestTime
      <3>. QED  BY <2>1, <3>1
    <2>3. scan.got \cup scan.page \subseteq sent'
      BY <1>1, <1>4, <1>6, <2>1
    <2>4. /\ scan'.got = scan.got \cup scan.page /\ scan'.upto = Oldest(scan.page)
          /\ scan'.pc = "ask" => scan.more
          /\ scan'.pc # "send"
      BY <1>2, <1>6
    <2>5. \A t \in Transfer : prev <= made[t] /\ made[t] <= scan.end /\ (scan'.pc = "ask" => made[t] > scan'.upto)
            => t \in scan'.got
      BY <1>2, <1>6, <2>1, <2>4
    <2>. QED  BY <1>1, <1>2, <2>1, <2>2, <2>3, <2>4, <2>5 DEF Backwards
  <1>7. ASSUME kind = "zkspace" PROVE ByNumber'
    <2>1. /\ \A t \in scan.got : prev <= made[t] => t \in sent
          /\ \A t \in listed \ (scan.got \cup scan.page) : Reached(t, scan.got \cup scan.page) =>
               Rank(t) >= scan.offset + Size /\ (~scan.more => made[t] < prev \/ ~Told(t))
      BY <1>1, <1>7 DEF ByNumber
    <2>2. /\ scan'.got = scan.got \cup scan.page /\ scan'.got # {} /\ scan'.offset = scan.offset + Size
          /\ scan'.pc = "store" => ~scan.more
          /\ scan'.pc # "send"
      BY <1>1, <1>2, <1>7
    <2>3. \A t \in scan'.got : prev <= made[t] => t \in sent'
      BY <1>1, <1>4, <1>7, <2>1, <2>2
    <2>4. \A t : Rank(t)' = Rank(t) /\ (Reached(t, scan.got \cup scan.page)' => Reached(t, scan.got \cup scan.page))
      BY <1>1, <1>2, <2>2 DEF Rank, Reached
    <2>5. scan'.got \cup scan'.page = scan.got \cup scan.page
      BY <1>2, <2>2
    <2>. QED  BY <1>1, <1>2, <2>1, <2>2, <2>3, <2>4, <2>5, SameTold DEF ByNumber
  <1>8. ASSUME kind = "immutable" PROVE Forwards'
    <2>. DEFINE side == scan.side
    <2>1. PICK u \in scan.page : made[u] = Newest(scan.page)
      BY <1>1, <1>3, NewestTime
    <2>2. /\ scan'.at[side] = made[u] /\ side \in Sides /\ u \in listed
          /\ \A s \in Sides : s # side => scan'.at[s] = scan.at[s]
      BY <1>2, <1>3, <1>8, <2>1 DEF TypeOK
    <2>3. ASSUME NEW t \in OfSide(side), Told(t), scan.prev[side] < made[t], made[t] <= made[u]
          PROVE  t \in sent'
      <3>1. t \in Transfer /\ made[t] \in Int /\ scan.prev[side] \in Int /\ 0 <= scan.prev[side]
        BY <1>3, Parts
      <3>2. made[t] # None
        BY <2>3, <3>1, TimeNat
      <3>3. t \in listed
        BY <1>8, <2>2, <2>3, <3>1, <3>2, ListedBefore
      <3>4. t \in scan.page
        <4>1. CASE t = u
          BY <2>1, <4>1
        <4>2. CASE t # u
          <5>1. u \in Transfer /\ made[u] \in Int
            BY <1>3
          <5>2. made[t] < made[u]
            BY <1>8, <2>3, <3>1, <4>2, <5>1 DEF Told
          <5>. QED  BY <1>1, <1>8, <2>1, <2>3, <3>3, <5>2 DEF Forwards, Older
        <4>. QED  BY <4>1, <4>2
      <3>5. made[t] >= scan.prev[side] + 1
        BY <2>3, <3>1
      <3>. QED  BY <1>1, <1>8, <3>4, <3>5 DEF Fresh
    <2>4. ASSUME NEW s \in Sides
          PROVE  /\ scan'.at[s] = scan.prev[s] \/ \E v \in listed : scan'.at[s] = made[v]
                 /\ \A t \in OfSide(s) :
                      Told(t) /\ scan.prev[s] < made[t] /\ made[t] <= scan'.at[s] => t \in sent'
      <3>1. CASE s = side
        BY <2>2, <2>3, <3>1
      <3>2. CASE s # side
        <4>1. scan'.at[s] = scan.at[s]
          BY <2>2, <3>2
        <4>2. /\ scan.at[s] = scan.prev[s] \/ \E v \in listed : scan.at[s] = made[v]
              /\ \A t \in OfSide(s) : Told(t) /\ scan.prev[s] < made[t] /\ made[t] <= scan.at[s] => t \in sent
          BY <1>1, <1>8 DEF Forwards
        <4>. QED  BY <1>1, <4>1, <4>2
      <3>. QED  BY <3>1, <3>2
    <2>5. \A t : ~Older(t, scan.page)'
      BY <1>2 DEF Older
    <2>6. (\A s \in Sides : OfSide(s)' = OfSide(s)) /\ \A t : Told(t)' = Told(t)
      BY <1>1, SameTold DEF OfSide
    <2>. HIDE DEF side
    <2>. QED  BY <1>1, <1>2, <2>4, <2>5, <2>6 DEF Forwards
  <1>9. kind \in {"loopring", "zkspace", "immutable"}
    BY Parts
  <1>. QED  BY <1>1, <1>5, <1>6, <1>7, <1>8, <1>9 DEF ScanOk, Backwards, ByNumber, Forwards

\* A failure costs a scan its page: immutable goes on with the other side.
LEMMA DroppedSafe ==
  ASSUME ApiInv, scan' = Dropped(scan), scan.pc # "idle", sent \subseteq sent',
         UNCHANGED <<kind, now, made, listed, pos, since>>
  PROVE  ScanOk'
  <1>. USE DEF ApiInv
  <1>1. CASE kind # "immutable"
    BY <1>1, NoScanSafe DEF Dropped
  <1>2. CASE kind = "immutable"
    <2>1. scan' = Turn(scan) /\ scan \in ScanType
      BY <1>2 DEF Dropped, TypeOK, ScanType
    <2>2. /\ scan'.page = {} /\ scan'.pc \in {"ask", "store"} /\ scan'.prev = scan.prev /\ scan'.at = scan.at
      BY <2>1, TurnType
    <2>3. Started' /\ Backwards' /\ ByNumber'
      BY <1>2, <2>2 DEF Started, Backwards, ByNumber
    <2>4. \A s \in Sides : OfSide(s)' = OfSide(s)
      BY DEF OfSide
    <2>5. \A t : ~Older(t, scan.page)' /\ Told(t)' = Told(t)
      BY <2>2, SameTold DEF Older
    <2>6. /\ \A s \in Sides :
               /\ scan.at[s] = scan.prev[s] \/ \E u \in listed : scan.at[s] = made[u]
               /\ \A t \in OfSide(s) : Told(t) /\ scan.prev[s] < made[t] /\ made[t] <= scan.at[s] => t \in sent
      BY <1>2 DEF Forwards
    <2>7. Forwards'
      BY <1>2, <2>2, <2>4, <2>5, <2>6 DEF Forwards
    <2>. QED  BY <2>3, <2>7 DEF ScanOk
  <1>. QED  BY <1>1, <1>2

\* What an error answer makes the position pass is unread.
LEMMA RefusedSafe ==
  ASSUME ApiInv, AskRefused
  PROVE  ScanOk'
  <1>. USE DEF ApiInv
  <1>. DEFINE U == {t \in Later \ scan.got : Behind(t, Position("sender"))}
              prev == scan.prev["sender"]
  <1>1. /\ scan.pc = "ask" /\ kind \in {"loopring", "zkspace"} /\ scan \in ScanType /\ scan.side = "sender"
        /\ UNCHANGED <<kind, now, made, listed, pos, since, sent>>
        /\ scan' = [Turn(scan) EXCEPT !.unread = U]
    BY Parts DEF AskRefused, api, file, TypeOK, ScanType, Started
  <1>2. /\ scan'.pc = "store" /\ scan'.side = scan.side /\ scan'.page = {} /\ scan'.prev = scan.prev
        /\ scan'.end = scan.end /\ scan'.upto = scan.upto /\ scan'.offset = scan.offset
        /\ scan'.got = scan.got /\ scan'.at = scan.at /\ scan'.unread = U
    <2>. HIDE DEF U
    <2>1. Turn(scan) \in ScanType
      BY <1>1, TurnType
    <2>. QED  BY <1>1, <2>1, TurnType DEF ScanType
  <1>3. /\ prev \in Int /\ scan.end \in Int /\ now \in Int /\ scan.page = {}
        /\ \A t \in Transfer : made[t] \in Int
        /\ scan.got \subseteq listed /\ scan.got \subseteq Transfer /\ listed \subseteq Transfer
    BY <1>1, Parts, Numbers DEF Started
  <1>4. \A t \in listed : prev <= made[t] => t \in Later
    BY <1>1, <1>3 DEF Later, OfSide
  <1>5. \A t : Passed(t)' = Passed(t)
    <2>. HIDE DEF U
    <2>1. /\ UNCHANGED <<kind, made>> /\ scan'.end = scan.end /\ scan'.got = scan.got
          /\ scan'.prev = scan.prev /\ scan'.at = scan.at
      BY <1>1, <1>2
    <2>. QED  BY <2>1 DEF Passed, Behind, Position, AfterLoopring, AfterZkspace, Newest
  <1>6. Started'
    BY <1>1, <1>2 DEF Started
  <1>7. ASSUME kind = "loopring" PROVE Backwards'
    <2>1. /\ scan.end < now /\ scan.upto <= scan.end /\ scan.got \subseteq sent
          /\ \A t \in scan.got : prev <= made[t] /\ made[t] <= scan.end
      BY <1>1, <1>7 DEF Backwards
    <2>2. ASSUME NEW t \in Transfer, prev <= made[t], made[t] <= scan.end, Passed(t)
          PROVE  t \in scan.got \/ t \in U
      <3>1. made[t] # None /\ made[t] < now
        BY <1>3, <2>1, <2>2, Parts, TimeNat
      <3>2. t \in listed
        BY <1>7, <3>1 DEF InOrder
      <3>. QED  BY <1>4, <2>2, <3>2 DEF Passed
    <2>. HIDE DEF U
    <2>. QED  BY <1>1, <1>2, <1>5, <2>1, <2>2 DEF Backwards
  <1>8. ASSUME kind = "zkspace" PROVE ByNumber'
    <2>1. \A t \in scan.got : prev <= made[t] => t \in sent
      BY <1>1, <1>8 DEF ByNumber
    <2>2. ASSUME NEW t \in listed \ scan.got, Reached(t, scan.got) PROVE made[t] < prev \/ t \in U
      <3>1. PICK u \in scan.got : t < u
        BY <2>2 DEF Reached
      <3>2. made[t] <= made[u] /\ made[u] <= Newest(scan.got) /\ Newest(scan.got) \in Int
        <4>1. made[u] # None
          BY <1>3, Numbers, TimeNat
        <4>. QED  BY <1>3, <3>1, <4>1, NewestTime, TimeNat DEF Clocked
      <3>3. Behind(t, Position("sender"))
        BY <1>3, <1>8, <3>2 DEF Behind, Position, AfterZkspace
      <3>. QED  BY <1>3, <1>4, <3>3
    <2>. HIDE DEF U
    <2>3. \A t : Reached(t, scan.got \cup scan.page)' => Reached(t, scan.got)
      BY <1>2 DEF Reached
    <2>. QED  BY <1>1, <1>2, <1>8, <2>1, <2>2, <2>3 DEF ByNumber
  <1>. QED  BY <1>1, <1>6, <1>7, <1>8 DEF ScanOk, Backwards, ByNumber, Forwards

-----------------------------------------------------------------------------
(* The position a scan leaves, and the theorems.                            *)

\* Where the scan of loopring or of zkspace ends.
LEMMA Ends ==
  ASSUME ApiInv, kind # "immutable", scan.pc = "store", NEW s \in Sides
  PROVE  /\ scan.got = {} => Position(s) = IF kind = "loopring" THEN scan.end ELSE scan.prev["sender"]
         /\ scan.got # {} => \E u \in scan.got : Position(s) = made[u] + 1
         /\ scan.prev[s] = scan.prev["sender"] /\ scan.page = {}
  <1>1. kind \in {"loopring", "zkspace"} /\ scan.got \subseteq Transfer
    BY Parts DEF ApiInv
  <1>2. Position(s) = IF kind = "loopring" THEN AfterLoopring ELSE AfterZkspace
    BY <1>1 DEF Position
  <1>3. ASSUME scan.got # {} PROVE \E u \in scan.got : Newest(scan.got) = made[u]
    BY <1>1, <1>3, NewestTime DEF ApiInv
  <1>4. scan.prev[s] = scan.prev["sender"] /\ scan.page = {}
    BY Parts DEF ApiInv, Started
  <1>. QED  BY <1>2, <1>3, <1>4 DEF AfterLoopring, AfterZkspace

\* What a scan passes it has published: the position of the file may move.
LEMMA StoreSafe ==
  ASSUME ApiInv, Store
  PROVE  PosOk' /\ NothingMissed'
  <1>. USE DEF ApiInv
  <1>1. /\ scan.pc = "store" /\ UNCHANGED <<kind, now, made, listed, sent>>
        /\ hidden' = hidden \cup scan.unread
        /\ \A s \in Sides : pos'[s] = Position(s) /\ since'[s] = IF pos[s] = None THEN scan.prev[s] ELSE since[s]
    BY DEF Store, api
  <1>2. /\ now \in Int /\ \A t \in Transfer : made[t] \in Int /\ made[t] <= now
        /\ listed \subseteq Transfer /\ scan.got \subseteq listed /\ scan.end \in Int
        /\ \A s \in Sides : scan.prev[s] \in Int /\ 0 <= scan.prev[s] /\ scan.at[s] \in Int
        /\ kind \in {"loopring", "zkspace", "immutable"} /\ Sides = {"sender", "receiver"}
    BY Parts, Numbers
  <1>3. \A s \in Sides : Position(s) \in Int /\ Position(s) # None
    <2>1. \A s \in Sides : Position(s) \in Times \ {None}
      BY <1>1, PositionType DEF Backwards
    <2>. QED  BY <2>1, TimeNat
  <1>4. \A s \in Sides : IF pos[s] = None THEN scan.prev[s] <= now ELSE scan.prev[s] = pos[s]
    BY <1>1 DEF Started
  <1>5. PosOk'
    <2>1. pos'["sender"] # None /\ pos'["receiver"] # None
      BY <1>1, <1>2, <1>3
    <2>2. ASSUME kind # "immutable"
          PROVE  pos'["sender"] = pos'["receiver"] /\ since'["sender"] = since'["receiver"]
      <3>1. Position("sender") = Position("receiver")
        BY <1>2, <2>2 DEF Position
      <3>2. /\ scan.prev["sender"] = scan.prev["receiver"] /\ since["sender"] = since["receiver"]
            /\ pos["sender"] = None <=> pos["receiver"] = None
        BY <1>1, <2>2 DEF Started, PosOk
      <3>. QED  BY <1>1, <1>2, <3>1, <3>2
    <2>3. ASSUME NEW s \in Sides PROVE Anchored(pos'[s], since'[s])
      <3>1. pos'[s] = Position(s) /\ (pos[s] # None => scan.prev[s] = pos[s] /\ Anchored(pos[s], since[s]))
        BY <1>1, <1>4 DEF PosOk
      <3>2. CASE kind = "loopring"
        <4>1. scan.end < now /\ \A u \in scan.got : made[u] <= scan.end
          BY <1>1, <3>2 DEF Backwards
        <4>2. \A u \in scan.got : made[u] + 1 <= now
          BY <1>2, <4>1
        <4>3. Position(s) <= now
          BY <1>1, <1>2, <3>2, <4>1, <4>2, Ends
        <4>. QED  BY <3>1, <3>2, <4>3 DEF Anchored
      <3>3. CASE kind = "zkspace"
        <4>1. CASE scan.got = {}
          <5>1. pos'[s] = scan.prev[s]
            BY <1>1, <3>1, <3>3, <4>1, Ends
          <5>. QED  BY <1>4, <3>1, <3>3, <5>1 DEF Anchored
        <4>2. CASE scan.got # {}
          BY <1>1, <1>2, <3>1, <3>3, <4>2, Ends DEF Anchored
        <4>. QED  BY <4>1, <4>2
      <3>4. CASE kind = "immutable"
        <4>1. pos'[s] = scan.at[s]
          BY <3>1, <3>4 DEF Position
        <4>2. scan.at[s] = scan.prev[s] \/ \E u \in listed : scan.at[s] = made[u]
          BY <1>1, <3>4 DEF Forwards
        <4>3. CASE \E u \in listed : scan.at[s] = made[u]
          BY <1>2, <3>4, <4>1, <4>3 DEF Anchored
        <4>4. CASE scan.at[s] = scan.prev[s]
          BY <1>1, <1>4, <3>1, <3>4, <4>1, <4>4 DEF Anchored
        <4>. QED  BY <4>2, <4>3, <4>4
      <3>. QED  BY <1>2, <3>2, <3>3, <3>4
    <2>4. \A s \in Sides : Anchored(pos[s], since[s])'
      BY <1>1, <2>3 DEF Anchored
    <2>. QED  BY <1>1, <2>1, <2>2, <2>4 DEF PosOk
  <1>6. ASSUME NEW t \in Transfer, NEW s \in Sides, made[t] # None, Told(t), t \in OfSide(s), Behind(t, pos'[s]),
               \A r \in Sides : t \in OfSide(r) => ~Behind(t, since'[r])
        PROVE  t \in sent \cup hidden'
    \* What this scan did not look for either, an earlier one did.
    <2>1. CASE Behind(t, scan.prev[s])
      <3>1. pos[s] # None /\ scan.prev[s] = pos[s]
        BY <1>1, <1>4, <1>6, <2>1
      <3>2. \A r \in Sides : pos[r] # None /\ since'[r] = since[r]
        BY <1>1, <1>2, <3>1 DEF PosOk
      <3>. QED  BY <1>1, <1>6, <2>1, <3>1, <3>2 DEF NothingMissed, Due
    <2>2. CASE ~Behind(t, scan.prev[s])
      <3>1. pos'[s] = Position(s) /\ made[t] \in Int /\ scan.prev[s] \in Int /\ Position(s) \in Int
        BY <1>1, <1>2, <1>3
      <3>2. ASSUME kind # "immutable"
            PROVE  /\ scan.prev["sender"] <= made[t] /\ made[t] < Position(s)
                   /\ scan.got # {} => \E u \in scan.got : made[t] <= made[u]
        <4>1. scan.prev[s] <= made[t] /\ made[t] < Position(s)
          BY <1>6, <2>2, <3>1, <3>2 DEF Behind
        <4>2. ASSUME NEW u \in scan.got, Position(s) = made[u] + 1 PROVE made[t] <= made[u]
          <5>1. made[u] \in Int
            BY <1>2
          <5>. QED  BY <3>1, <4>1, <4>2, <5>1
        <4>. QED  BY <1>1, <3>2, <4>1, <4>2, Ends
      <3>3. CASE kind = "loopring"
        <4>1. /\ scan.got \subseteq sent /\ \A u \in scan.got : made[u] <= scan.end
              /\ scan.prev["sender"] <= made[t] /\ made[t] <= scan.end /\ Passed(t)
                   => t \in scan.got \cup scan.page \cup scan.unread
          BY <1>1, <3>3 DEF Backwards
        <4>2. made[t] <= scan.end
          <5>1. CASE scan.got = {}
            <6>1. Position(s) = scan.end
              BY <1>1, <3>3, <5>1, Ends
            <6>. QED  BY <1>2, <3>1, <3>2, <3>3, <6>1
          <5>2. CASE scan.got # {}
            <6>1. PICK u \in scan.got : made[t] <= made[u]
              BY <3>2, <3>3, <5>2
            <6>2. made[u] \in Int /\ made[u] <= scan.end
              BY <1>2, <4>1
            <6>. QED  BY <1>2, <3>1, <6>1, <6>2
          <5>. QED  BY <5>1, <5>2
        <4>3. scan.page = {}
          BY <1>1, <3>3, Ends
        <4>4. Passed(t)
          BY <3>2, <3>3 DEF Passed, Behind, Position
        <4>. QED  BY <1>1, <3>2, <3>3, <4>1, <4>2, <4>3, <4>4
      <3>4. CASE kind = "zkspace"
        <4>1. scan.got # {}
          <5>1. ASSUME scan.got = {} PROVE FALSE
            <6>1. Position(s) = scan.prev["sender"]
              BY <1>1, <3>4, <5>1, Ends
            <6>. QED  BY <3>1, <3>2, <3>4, <6>1
          <5>. QED  BY <5>1
        <4>2. PICK u \in scan.got : made[t] <= made[u]
          BY <3>2, <3>4, <4>1
        <4>3. t \in listed
          BY <1>2, <1>6, <3>4, <4>2, ListedBefore
        <4>3a. t # u => t < u
          <5>1. u \in Transfer /\ t \in Nat /\ u \in Nat /\ made[u] \in Int /\ made[t] \in Int
            BY <1>2, Numbers
          <5>2. t # u => made[t] # made[u]
            BY <1>6, <3>4, <5>1 DEF Told
          <5>3. u < t => made[u] <= made[t]
            BY <1>6, <5>1 DEF Clocked
          <5>. QED  BY <4>2, <5>1, <5>2, <5>3
        <4>4. CASE t \in scan.got
          BY <1>1, <3>2, <3>4, <4>4 DEF ByNumber
        <4>5. CASE t \notin scan.got
          <5>1. scan.page = {}
            BY <1>1, <3>4, Ends
          <5>2. made[t] < scan.prev["sender"] \/ t \in scan.unread
            BY <1>1, <1>6, <3>4, <4>2, <4>3, <4>3a, <4>5, <5>1 DEF ByNumber, Reached
          <5>3. scan.prev["sender"] \in Int
            BY <1>2
          <5>. QED  BY <1>1, <3>1, <3>2, <3>4, <5>2, <5>3
        <4>. QED  BY <4>4, <4>5
      <3>5. CASE kind = "immutable"
        <4>1. scan.prev[s] < made[t] /\ made[t] <= scan.at[s]
          BY <1>6, <2>2, <3>1, <3>5 DEF Behind, Position
        <4>. QED  BY <1>1, <1>6, <3>5, <4>1 DEF Forwards
      <3>. QED  BY <1>2, <3>3, <3>4, <3>5
    <2>. QED  BY <2>1, <2>2
  <1>7. NothingMissed'
    BY <1>1, <1>6, SameTold DEF NothingMissed, Due, Behind, OfSide
  <1>. QED  BY <1>5, <1>7

\* The invariant holds before the first scan, ...
LEMMA InitSafe == Init => ApiInv
  <1>. SUFFICES ASSUME Init PROVE ApiInv
    OBVIOUS
  <1>. USE DEF Init
  <1>1. TypeOK
    <2>1. scan \in ScanType
      BY NoScanType
    <2>2. None \in Times /\ 1 \in 1 .. MaxTime /\ 0 \in 0 .. MaxFaults /\ 0 \in 0 .. MaxCrashes
      BY ApiAssumption, TimeNat
    <2>. QED  BY <2>1, <2>2 DEF TypeOK, ScanType
  <1>2. scan.pc = "idle" /\ scan.page = {}
    BY NoScanType
  <1>3. Clocked /\ InOrder
    BY TimeNat DEF Clocked, InOrder
  <1>4. PosOk /\ NothingMissed
    BY DEF PosOk, NothingMissed, Sides
  <1>. QED  BY <1>1, <1>2, <1>3, <1>4 DEF ApiInv, Started, Backwards, ByNumber, Forwards

\* ... and every step keeps it.
LEMMA StepSafe ==
  ASSUME ApiInv, [Next]_vars
  PROVE  ApiInv'
  <1>1. TypeOK'
    BY TypeStep DEF ApiInv, Backwards
  <1>2. CASE Environment
    BY <1>2, TickSafe, MakeSafe, ListSafe DEF Environment
  <1>3. ASSUME ScanOk', UNCHANGED <<kind, now, made, listed, pos, since, hidden>>, sent \subseteq sent' PROVE ApiInv'
    <2>1. Clocked' /\ InOrder' /\ PosOk' /\ NothingMissed'
      BY <1>3, ScanKeeps
    <2>. QED  BY <1>1, <1>3, <2>1 DEF ApiInv, ScanOk
  <1>4. CASE Start
    <2>1. ScanOk'
      BY <1>4, StartSafe
    <2>. QED  BY <1>3, <1>4, <2>1 DEF Start, api, file
  <1>5. CASE Answer
    <2>1. ScanOk'
      BY <1>5, AnswerSafe
    <2>. QED  BY <1>3, <1>5, <2>1 DEF Answer, api, file
  <1>6. CASE Send
    <2>1. ScanOk'
      BY <1>6, SendSafe
    <2>. QED  BY <1>3, <1>6, <2>1 DEF Send, api, file
  <1>7. CASE Store
    <2>1. ScanOk' /\ PosOk' /\ NothingMissed'
      BY <1>7, NoScanSafe, StoreSafe DEF Store
    <2>2. Clocked' /\ InOrder'
      BY <1>7 DEF Store, api, ApiInv, Clocked, InOrder
    <2>. QED  BY <1>1, <2>1, <2>2 DEF ApiInv, ScanOk
  <1>8. CASE AskFails
    <2>1. ScanOk'
      BY <1>8, DroppedSafe DEF AskFails, api, file
    <2>. QED  BY <1>3, <1>8, <2>1 DEF AskFails, api, file
  <1>8a. CASE AskRefused
    <2>1. ScanOk'
      BY <1>8a, RefusedSafe
    <2>. QED  BY <1>3, <1>8a, <2>1 DEF AskRefused, api, file
  <1>9. CASE SendFails
    <2>1. /\ scan' = Dropped(scan) /\ scan.pc # "idle" /\ sent \subseteq sent'
          /\ UNCHANGED <<kind, now, made, listed, pos, since, hidden>>
      BY <1>9 DEF SendFails, api, file
    <2>2. ScanOk'
      BY <2>1, DroppedSafe
    <2>. QED  BY <1>3, <2>1, <2>2
  <1>10. CASE Crash
    <2>1. ScanOk'
      BY <1>10, NoScanSafe DEF Crash
    <2>. QED  BY <1>3, <1>10, <2>1 DEF Crash, api, file
  <1>11. CASE UNCHANGED vars
    <2>. USE DEF ApiInv
    <2>0. UNCHANGED <<kind, now, made, listed, pos, scan, sent>>
      BY <1>11 DEF vars, api, file
    <2>1. Started' /\ ByNumber'
      BY <2>0, SameTold DEF Started, ByNumber, Rank, Reached, Size
    <2>2. Backwards'
      <3>1. \A t : Passed(t)' = Passed(t)
        BY <2>0 DEF Passed, Behind, Position, AfterLoopring, AfterZkspace, Newest
      <3>. QED  BY <2>0, <3>1 DEF Backwards, Oldest
    <2>3. Forwards'
      BY <2>0, SameTold DEF Forwards, Older, OfSide
    <2>. QED  BY <1>3, <1>11, <2>1, <2>2, <2>3 DEF vars, api, file, ScanOk
  <1>. QED  BY <1>2, <1>4, <1>5, <1>6, <1>7, <1>8, <1>8a, <1>9, <1>10, <1>11
            DEF Next, Scanning

\* All that the proof says of the scans of an address holds in every state.
THEOREM Invariant == Spec => []ApiInv
  BY InitSafe, StepSafe, PTL DEF Spec

\* Type correctness of the scanning through an API.
THEOREM TypeCorrect == Spec => []TypeOK
  <1>1. ApiInv => TypeOK
    BY DEF ApiInv
  <1>. QED  BY <1>1, Invariant, PTL

\* Whatever the service, its pages, the lag of its list, the failures and the restarts, no
\* transfer newer than the first scan's start and of a time of its own is behind the file's
\* position unpublished, but those that an error answer taken for a page hid.
THEOREM NoneMissed == Spec => []NothingMissed
  <1>1. ApiInv => NothingMissed
    BY DEF ApiInv
  <1>. QED  BY <1>1, Invariant, PTL
=============================================================================
