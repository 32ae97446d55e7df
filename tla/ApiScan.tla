------------------------------- MODULE ApiScan -------------------------------
(***************************************************************************)
(* The crawler's scanning of one address through the API of a chain that   *)
(* has no node: the position kept in a file, the pages of transfers newer  *)
(* than it, their publication, and the next position. Three services are   *)
(* modelled, each with its own paging and its own position:                *)
(*   loopring   pages backwards from a second ago by time;                 *)
(*   zkspace    pages backwards from the newest by offset;                 *)
(*   immutable  one page forwards, for the transfers sent and received.    *)
(* Every transfer of the list involves a watched address. A message given  *)
(* to RabbitMQ is taken to reach it. The scans of a chain run one after    *)
(* the other, under the mutex of the schedule.                             *)
(***************************************************************************)
EXTENDS Integers, FiniteSets, FiniteSetsExt

CONSTANTS
  Kinds,       \* services of the instance
  Transfer,    \* numbers, in the order in which they are made
  Outgoing,    \* the transfers the address sends; it receives the others
  PageSize,    \* transfers an answer of the API holds, for each service
  Window,      \* how far back the first scan of loopring and zkspace looks
  MaxTime,     \* bound: the clock, in seconds
  MaxFaults,   \* bound: failing calls of the API and the broker
  MaxCrashes   \* bound: restarts

ASSUME ApiAssumption ==
  /\ Kinds \subseteq {"loopring", "zkspace", "immutable"}
  /\ IsFiniteSet(Transfer) /\ Transfer \subseteq Nat /\ Outgoing \subseteq Transfer
  /\ PageSize \in [Kinds -> Nat \ {0, 1}]
  /\ MaxTime \in Nat \ {0}
  /\ {Window, MaxFaults, MaxCrashes} \subseteq Nat

None == -1
Sides == {"sender", "receiver"}

VARIABLES
  kind,    \* the service
  now,     \* the clock
  made,    \* the timestamp of each transfer; None: not made yet
  listed,  \* what the API lists
  pos,     \* the position in the file, for each side; the other services use one
  since,   \* ghost: where the scan that first wrote the position started
  scan,    \* the scan under way
  sent,    \* transfers published
  hidden,  \* ghost: what the position passed unread, for an error answer taken for a page
  faults, crashes

api      == <<now, made, listed>>
file     == <<pos, since>>
counters == <<faults, crashes>>
vars     == <<kind, api, file, scan, sent, hidden, counters>>

NoScan == [pc |-> "idle", side |-> "sender", prev |-> [s \in Sides |-> 0], end |-> 0,
           upto |-> 0, offset |-> 0, page |-> {}, more |-> FALSE, got |-> {},
           unread |-> {},               \* ghost: what it would pass unread
           at |-> [s \in Sides |-> 0]]  \* the positions of immutable

Init ==
  /\ kind \in Kinds
  /\ now = 1 /\ made = [t \in Transfer |-> None] /\ listed = {}
  /\ pos = [s \in Sides |-> None] /\ since = pos
  /\ scan = NoScan /\ sent = {} /\ hidden = {} /\ faults = 0 /\ crashes = 0

Fault == faults < MaxFaults /\ faults' = faults + 1

Size      == PageSize[kind]
Newest(S) == Max({made[t] : t \in S} \cup {None})
Oldest(S) == Min({made[t] : t \in S} \cup {MaxTime})
OfSide(s) == IF kind # "immutable" THEN Transfer
             ELSE IF s = "sender" THEN Outgoing ELSE Transfer \ Outgoing

-----------------------------------------------------------------------------
(* The API. loopring lists a transfer within the second it is made in; the  *)
(* others list them in the order they are made in, however late.            *)

\* Fewer transfers than a page holds have one timestamp.
Make(t) ==
  /\ made[t] = None
  /\ \A u \in Transfer : u < t => made[u] # None
  /\ now < MaxTime
  /\ Cardinality({u \in Transfer : made[u] = now}) < Size - 1
  /\ made' = [made EXCEPT ![t] = now]
  /\ UNCHANGED <<kind, now, listed, file, scan, sent, hidden, counters>>

List(t) ==
  /\ made[t] # None /\ t \notin listed
  /\ kind # "loopring" => \A u \in Transfer : u < t => u \in listed
  /\ listed' = listed \cup {t}
  /\ UNCHANGED <<kind, now, made, file, scan, sent, hidden, counters>>

Tick ==
  /\ now < MaxTime
  /\ kind = "loopring" => \A t \in Transfer : made[t] # None => t \in listed
  /\ now' = now + 1
  /\ UNCHANGED <<kind, made, listed, file, scan, sent, hidden, counters>>

-----------------------------------------------------------------------------
(* timedTetTransactions                                                     *)

\* Without a position: an hour ago, and for immutable the present second.
First == IF kind = "immutable" THEN now ELSE Max({now - Window, 0})

\* Mutant of End: the present, while its transfers are still being listed.
EndNow == now

\* loopring asks for nothing newer than a second ago.
End == now - 1

Start ==
  /\ scan.pc = "idle"
  /\ LET from == [s \in Sides |-> IF pos[s] = None THEN First ELSE pos[s]]
     IN  scan' = [NoScan EXCEPT !.pc = "ask", !.end = End, !.upto = End, !.prev = from, !.at = from]
  /\ UNCHANGED <<kind, api, file, sent, hidden, counters>>

\* A page of S, and of its newest or its oldest, with any choice among those of one time.
PageOf(S)   == {P \in SUBSET S : Cardinality(P) = Min({Size, Cardinality(S)})}
NewestOf(S) == {P \in PageOf(S) : \A t \in P, u \in S \ P : made[t] >= made[u]}
OldestOf(S) == {P \in PageOf(S) : \A t \in P, u \in S \ P : made[t] <= made[u]}

Later == {t \in listed \cap OfSide(scan.side) : made[t] >= scan.prev[scan.side]}

\* loopring: the newest up to the oldest of the page before, or to the end.
ByTime == NewestOf({t \in Later : made[t] <= scan.upto})

\* zkspace: by number from the newest, whatever has been listed since the last page.
ByOffset ==
  LET rank(t) == Cardinality({u \in listed : u > t})
  IN  {{t \in listed : rank(t) \in scan.offset .. scan.offset + Size - 1}}

\* immutable: the oldest that are not older than the position.
Forward == OldestOf(Later)

Pages == CASE kind = "loopring"  -> ByTime
           [] kind = "zkspace"   -> ByOffset
           [] kind = "immutable" -> Forward

\* Mutant of More: only zkspace reads a second page.
MoreByOffset(P) == kind = "zkspace" /\ P # {} /\ Oldest(P) > scan.prev["sender"]

\* Whether a page is asked for after P: loopring compares its length with the total
\* of the query, zkspace its last timestamp with the position.
More(P) ==
  \/ kind = "loopring" /\ \E t \in listed \ P : made[t] \in scan.prev["sender"] .. scan.upto
  \/ kind = "zkspace" /\ P # {} /\ Oldest(P) > scan.prev["sender"]

\* What is kept of a page and published.
Fresh(P) ==
  {t \in P : made[t] >= scan.prev[scan.side] + (IF kind = "immutable" THEN 1 ELSE 0)}

\* After the last page of a side: the other side, or the position.
Turn(s) == IF kind = "immutable" /\ s.side = "sender"
           THEN [s EXCEPT !.pc = "ask", !.side = "receiver", !.page = {}]
           ELSE [s EXCEPT !.pc = "store", !.page = {}]

Answer ==
  /\ scan.pc = "ask"
  /\ \E P \in Pages :
       LET read == IF kind = "immutable" THEN Fresh(P) ELSE P
       IN  scan' = IF read = {} THEN Turn(scan)
                   ELSE [scan EXCEPT !.pc = "send", !.page = read, !.more = More(P)]
  /\ UNCHANGED <<kind, api, file, sent, hidden, counters>>

\* Mutant of Dropped: the position of the side moves though its page failed.
DroppedMoved(s) ==
  IF kind = "immutable" THEN Turn([s EXCEPT !.at[s.side] = Newest(s.page)]) ELSE NoScan

\* immutable catches the error of a side and goes on; the others give up.
Dropped(s) == IF kind = "immutable" THEN Turn(s) ELSE NoScan

\* The position a scan leaves: after the newest transfer read, or without any where
\* the query ended (loopring) or where it began (zkspace).
AfterLoopring == IF scan.got = {} THEN scan.end ELSE Newest(scan.got) + 1
AfterZkspace  == IF scan.got = {} THEN scan.prev["sender"] ELSE Newest(scan.got) + 1

Position(s) == CASE kind = "loopring"  -> AfterLoopring
                 [] kind = "zkspace"   -> AfterZkspace
                 [] kind = "immutable" -> scan.at[s]

\* A scan from position p does not ask for t.
Behind(t, p) == IF kind = "immutable" THEN made[t] <= p ELSE made[t] < p

\* An unsuccessful answer with a body of its own is no error to loopring and zkspace: it
\* has no transfers and ends the scan, whose position may pass some it has not read.
AskRefused ==
  /\ scan.pc = "ask" /\ kind # "immutable"
  /\ Fault
  /\ scan' = [Turn(scan) EXCEPT !.unread = {t \in Later \ scan.got : Behind(t, Position("sender"))}]
  /\ UNCHANGED <<kind, api, file, sent, hidden, crashes>>

\* A call that throws, or an answer without the fields of one.
AskFails ==
  /\ scan.pc = "ask"
  /\ Fault
  /\ scan' = Dropped(scan)
  /\ UNCHANGED <<kind, api, file, sent, hidden, crashes>>

\* A side of immutable has its new position once its page is published.
Published(s) ==
  LET read == [s EXCEPT !.got = @ \cup s.page, !.offset = @ + Size, !.upto = Oldest(s.page)]
  IN  IF kind = "immutable" THEN Turn([read EXCEPT !.at[s.side] = Newest(s.page)])
      ELSE IF s.more THEN [read EXCEPT !.pc = "ask", !.page = {}]
      ELSE Turn(read)

Send ==
  /\ scan.pc = "send"
  /\ sent' = sent \cup Fresh(scan.page)
  /\ scan' = Published(scan)
  /\ UNCHANGED <<kind, api, file, hidden, counters>>

\* A chunk of the page fails after others went out.
SendFails ==
  /\ scan.pc = "send"
  /\ Fault
  /\ \E out \in SUBSET Fresh(scan.page) : sent' = sent \cup out
  /\ scan' = Dropped(scan)
  /\ UNCHANGED <<kind, api, file, hidden, crashes>>

Store ==
  /\ scan.pc = "store"
  /\ pos' = [s \in Sides |-> Position(s)]
  /\ since' = [s \in Sides |-> IF pos[s] = None THEN scan.prev[s] ELSE since[s]]
  /\ hidden' = hidden \cup scan.unread
  /\ scan' = NoScan
  /\ UNCHANGED <<kind, api, sent, counters>>

Crash ==
  /\ crashes < MaxCrashes
  /\ crashes' = crashes + 1
  /\ scan' = NoScan
  /\ UNCHANGED <<kind, api, file, sent, hidden, faults>>

Environment == Tick \/ \E t \in Transfer : Make(t) \/ List(t)
Scanning    == Start \/ Answer \/ Send \/ Store
Next        == Environment \/ Scanning \/ AskRefused \/ AskFails \/ SendFails \/ Crash

Spec     == Init /\ [][Next]_vars
FairSpec == Spec /\ WF_vars(Scanning) /\ WF_vars(Tick) /\ \A t \in Transfer : WF_vars(List(t))

-----------------------------------------------------------------------------
(* Properties                                                               *)

Times == {None} \cup 0 .. MaxTime + 1

TypeOK ==
  /\ kind \in Kinds /\ now \in 1 .. MaxTime
  /\ made \in [Transfer -> Times] /\ listed \subseteq Transfer
  /\ pos \in [Sides -> Times] /\ since \in [Sides -> Times]
  /\ scan \in [pc : {"idle", "ask", "send", "store"}, side : Sides, prev : [Sides -> Times \ {None}],
               end : Nat, upto : Nat, offset : Nat, page : SUBSET listed, more : BOOLEAN,
               got : SUBSET listed, unread : SUBSET listed, at : [Sides -> Times \ {None}]]
  /\ sent \subseteq listed /\ hidden \subseteq listed
  /\ faults \in 0 .. MaxFaults /\ crashes \in 0 .. MaxCrashes

\* t is newer than the very first scan looked for.
Due(t) == \A s \in Sides : pos[s] # None /\ (t \in OfSide(s) => ~Behind(t, since[s]))

\* No other transfer has the time of t, which only loopring's position can tell apart.
Told(t) == kind = "loopring" \/ \A u \in Transfer \ {t} : made[u] # made[t]

\* What the file's position has passed has been published, unless an error answer taken
\* for a page hid it: whatever pages, transfers that come in between two pages, failures
\* and restarts there were, no scan from the stored position on leaves out a transfer,
\* of a time of its own, that no earlier scan gave to the refinery.
NothingMissed ==
  \A t \in Transfer, s \in Sides :
    made[t] # None /\ Told(t) /\ Due(t) /\ t \in OfSide(s) /\ Behind(t, pos[s]) => t \in sent \cup hidden

\* Each transfer the API lists is published in the end, unless an error answer hid it or
\* it comes to share its time: a call that throws, a restart, a failing publication or a
\* page that ends among transfers of one timestamp delays it only.
EventuallySent ==
  \A t \in Transfer : (t \in listed /\ Due(t)) ~> (t \in sent \cup hidden \/ ~Told(t))
=============================================================================
