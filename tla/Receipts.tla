------------------------------- MODULE Receipts -------------------------------
(***************************************************************************)
(* How the crawler reads the transfers of a block: which transactions      *)
(* it looks at, which parser reads each, what the parser takes from the    *)
(* call and what from the logs of the receipt, and under which status and  *)
(* hash a transfer is handed on.                                           *)
(***************************************************************************)
EXTENDS StarkInvokes

CONSTANTS
  Contracts,     \* set of [address, name, registered, mapped, methods]
  Blocks         \* the blocks that may be read: [net, txs]

Parsers == {"OrbiterRouterV3", "XBridge", "TransitFinanceRouterV5", "Rubic"}

ASSUME ReceiptsAssumption ==
  /\ None \notin Tokens \cup Watched /\ Native \notin Tokens
  /\ \A c, d \in Contracts : c.address = d.address => c = d
  /\ \A c \in Contracts : c.address \notin Tokens

(***************************************************************************)
(* A transaction has its id, from, to, value and first, and               *)
(*   call    [method, to, token, value, via, inner, notes], method "none"  *)
(*           without data, "unread" for a function of the ABI that nobody  *)
(*           handles or whose arguments are cut short; via and inner: the  *)
(*           contract that a swap calls and how; notes: the data of the    *)
(*           payments of a batch;                                          *)
(*   note    the inscription in its data, code: there is code at `to`;     *)
(*   receipt "ok", "failed" or "missing"; first: the place of its first    *)
(*           log in the block;                                             *)
(*   logs    [kind, address, from, to, value], kind "paid" for the event   *)
(*           of the Orbiter contracts and "erc20" for that of a token.     *)
(***************************************************************************)
IsSequence(s) == s \in Seq(ToSet(s))

\* A block is read after it was made: the router has no event in an invoke that is
\* pending or was reverted.
ASSUME BlocksAssumption ==
  \A b \in Blocks :
    /\ IsSequence(b.txs)
    /\ \A i, j \in DOMAIN b.txs : b.txs[i].id = b.txs[j].id => i = j
    /\ \A t \in ToSet(b.txs) :
         /\ IsSequence(t.logs)
         /\ b.net # "starknet" => t.first \in Nat
         /\ b.net = "starknet" =>
              /\ IsSequence(t.calls)
              /\ t.router /\ t.receipt \notin {"ok", "missing"} =>
                   \A l \in ToSet(t.logs) : l.kind # "paid"

Executed(t) == t.receipt = "ok"
At(a) == {c \in Contracts : c.address = a}
NameOf(a) == (CHOOSE c \in At(a) : TRUE).name

\* `registered`: listed in chain.contracts, for which a parser class is kept when
\* there is one of that name; `mapped`: a key of chain.contract. `methods`: the
\* signatures that are let through.
Registered(a) == \E c \in At(a) : c.registered /\ c.name \in Parsers
Allowed(a, method) == \E c \in At(a) : c.registered /\ method \in c.methods
Mapped(a) == \E c \in At(a) : c.mapped

HasData(t) == t.call.method # "none"
PaysWatched(t) == t.to \in Tokens /\ t.call.method = "transfer" /\ t.call.to \in Watched
EOA(t) == t.from \in Watched \/ t.to \in Watched

\* The transactions of a block that are read; None stands for the zero address. The
\* services of ethers 5 read every transaction to a contract.
RelevantV6(t) ==
  /\ t.to # None
  /\ \/ EOA(t)
     \/ HasData(t) /\ PaysWatched(t)
     \/ /\ HasData(t) /\ At(t.to) # {}
        /\ Registered(t.to) => Allowed(t.to, t.call.method)
RelevantV5(t) ==
  /\ t.to # None
  /\ EOA(t) \/ At(t.to) # {} \/ (HasData(t) /\ PaysWatched(t))

\* `net` is the service of the chain: "v6", "v5", "era" or "starknet".
Relevant(net, t) == CASE net = "v6" -> RelevantV6(t)
                      [] net \in {"v5", "era"} -> RelevantV5(t)
                      [] OTHER -> TRUE

-----------------------------------------------------------------------------
(* The parsers. A result is a sequence of transfers or Thrown.              *)

BaseStatus(t) == IF Executed(t) THEN "confirmed" ELSE "failed"

Transfer(t, receiver, token, value) ==
  [hash |-> <<t.id, None>>, sender |-> t.from, receiver |-> receiver, token |-> token,
   value |-> value, contract |-> None, version |-> None, status |-> BaseStatus(t)]
Through(t, receiver, token, value) ==
  [Transfer(t, receiver, token, value) EXCEPT !.contract = t.to]

TokenTransfer(t) ==
  IF t.call.method = "transfer" THEN <<Transfer(t, t.call.to, t.to, t.call.value)>> ELSE <<>>

OBSource(t) ==
  CASE t.call.method = "obTransfer" -> <<Through(t, t.call.to, Native, t.value)>>
    [] t.call.method = "obTransferERC20" ->
         <<Through(t, t.call.to, t.call.token, t.call.value)>>
    [] OTHER -> <<>>

\* Interface2, which the routers and the inscriptions are read with, throws for a
\* function that its ABI does not have; OBSource is read with ethers' own, which finds none.
RouterV1(t) ==
  CASE t.call.method \in {"swap", "swapAnswer"} ->
         <<Through(t, t.call.to, t.call.token, t.call.value)>>
    [] t.call.method = "unread" -> <<>>
    [] OTHER -> Thrown

LogsOf(t, kind) == Select(t.logs, LAMBDA l : l.kind = kind)

\* Mutant of Inscriptions: the payments of a batch keep the hash of their transaction.
InscriptionsOneHash(t) ==
  LET hits == LogsOf(t, "paid")
      kept == Select([i \in 1..Len(hits) |-> i], LAMBDA i : t.call.notes[i] # None)
  IN CASE t.call.method = "crossTransfers" ->
            [n \in 1..Len(kept) |->
              [Through(t, hits[kept[n]].to, Native, hits[kept[n]].value) EXCEPT !.version = "3"]]
       [] t.call.method = "unread" -> <<>>
       [] OTHER -> Thrown

\* The n-th event is paired with the n-th note of the call; the hash counts the
\* transfers that are kept.
Inscriptions(t) ==
  LET hits == LogsOf(t, "paid")
      kept == Select([i \in 1..Len(hits) |-> i], LAMBDA i : t.call.notes[i] # None)
  IN CASE t.call.method = "crossTransfers" ->
            [n \in 1..Len(kept) |->
              [Through(t, hits[kept[n]].to, Native, hits[kept[n]].value)
                 EXCEPT !.hash = <<t.id, n - 1>>, !.version = "3"]]
       [] t.call.method = "unread" -> <<>>
       [] OTHER -> Thrown

\* What a log of each kind pays; the token is the one the call names.
Shown(t, l) ==
  IF l.kind = "paid" THEN Through(t, l.to, Native, l.value)
  ELSE [Through(t, l.to, t.call.token, l.value) EXCEPT !.sender = l.from]

\* The batch is refused when a payment is the first log of its block: index 0
\* counts as no index.
Batch(t, kind) ==
  LET hits == Select([i \in 1..Len(t.logs) |-> i], LAMBDA i : t.logs[i].kind = kind)
      Index(n) == t.first + hits[n] - 1
  IN IF \E n \in 1..Len(hits) : Index(n) = 0 THEN Thrown
     ELSE [n \in 1..Len(hits) |->
            [Shown(t, t.logs[hits[n]]) EXCEPT !.hash = <<t.id, Index(n)>>]]

\* A single payment is read from the first log whatever there is.
First(t, kind) ==
  IF t.logs = <<>> \/ Head(t.logs).kind # kind THEN Thrown ELSE <<Shown(t, Head(t.logs))>>

RouterV3(t) ==
  CASE t.call.method = "transfers"           -> Batch(t, "paid")
    [] t.call.method = "transferTokens"      -> Batch(t, "erc20")
    [] t.call.method = "routerTransfer"      -> First(t, "paid")
    [] t.call.method = "routerTransferToken" -> First(t, "erc20")
    [] t.call.method = "unread"              -> <<>>
    [] OTHER -> Thrown

\* The parsers that look for the event of the payment. They differ in what they
\* compare: the paying contract and the receiver, or the value too.
Paid(t, contract, receiver) ==
  Select(LogsOf(t, "paid"), LAMBDA l : l.address = contract /\ l.to = receiver)
\* Mutant of Moved: the event of any token will do.
MovedAny(t, token, receiver, value) ==
  Select(LogsOf(t, "erc20"), LAMBDA l : l.to = receiver /\ l.value = value)
Moved(t, token, receiver, value) ==
  Select(LogsOf(t, "erc20"),
            LAMBDA l : l.address = token /\ l.to = receiver /\ l.value = value)
Seen(t, events) == IF events # <<>> /\ Executed(t) THEN "confirmed" ELSE "failed"

V3Transfer(contract, t, call) ==
  LET status == Seen(t, Paid(t, contract, call.to)) IN
  [Through(t, call.to, IF t.value > 0 THEN Native ELSE None,
           IF status = "confirmed" THEN Head(Paid(t, contract, call.to)).value ELSE None)
     EXCEPT !.contract = contract, !.status = status]

V3TransferToken(contract, t, call) ==
  [Through(t, call.to, call.token, call.value)
     EXCEPT !.contract = contract,
            !.status = Seen(t, Moved(t, call.token, call.to, call.value))]

Routers == {c \in Contracts : c.registered /\ c.name = "OrbiterRouterV3"}

BridgeToV2(t) ==
  LET router == (CHOOSE c \in Routers : TRUE).address
      byRouter == Select(Paid(t, router, t.call.to), LAMBDA l : l.value = t.value)
      byToken == Moved(t, t.call.token, t.call.to, t.call.value)
  IN CASE t.value > 0 /\ Routers # {} ->
            <<[Through(t, t.call.to, Native, t.value) EXCEPT !.status = Seen(t, byRouter)]>>
       [] t.value = 0 /\ t.call.token \in Tokens ->
            <<[Through(t, t.call.to, t.call.token, t.call.value)
                 EXCEPT !.status = Seen(t, byToken)]>>
       [] OTHER -> <<>>

\* The swap hands the call of the router on, which is read like a direct one.
Cross(t) ==
  LET inner == t.call.inner IN
  IF ~Mapped(t.call.via) THEN <<>>
  ELSE CASE inner.method = "routerTransferToken" -> <<[V3TransferToken(t.call.via, t, inner)
                                                        EXCEPT !.contract = t.to]>>
         [] inner.method = "routerTransfer" -> <<[V3Transfer(t.call.via, t, inner)
                                                   EXCEPT !.contract = t.to]>>
         [] OTHER -> <<[Through(t, t.to, None, None) EXCEPT !.status = "pending"]>>

\* A method that is not let through, or that the class has no function for, gives
\* nothing.
Parse(t) ==
  LET name == NameOf(t.to) IN
  IF \E c \in At(t.to) : c.methods # {} /\ t.call.method \notin c.methods THEN <<>>
  ELSE CASE name = "OrbiterRouterV3" /\ t.call.method = "routerTransfer" ->
              <<V3Transfer(t.to, t, t.call)>>
         [] name = "OrbiterRouterV3" /\ t.call.method = "routerTransferToken" ->
              <<V3TransferToken(t.to, t, t.call)>>
         [] name = "XBridge" /\ t.call.method = "bridgeToV2" -> BridgeToV2(t)
         [] name = "TransitFinanceRouterV5" /\ t.call.method = "cross" -> Cross(t)
         [] OTHER -> <<>>

\* A transfer of the main token, with or without an inscription in its data.
Direct(t) ==
  CASE t.call.method = "inscription" ->
         IF t.note = None THEN <<>>
         ELSE <<[Transfer(t, t.to, Native, t.value) EXCEPT !.version = "3"]>>
    [] t.call.method = "none" \/ (t.call.method # "inscription" /\ ~t.code) ->
         <<Transfer(t, t.to, Native, t.value)>>
    [] OTHER -> <<>>

Read(t) ==
  LET name == NameOf(t.to) IN
  IF t.to \in Tokens THEN TokenTransfer(t)
  ELSE IF At(t.to) = {} THEN Direct(t)
  ELSE CASE name = "OBSource" -> OBSource(t)
         [] name = "OrbiterRouterV1" -> RouterV1(t)
         [] name = "OrbiterRouterV3" ->
              IF t.call.method \in {"routerTransfer", "routerTransferToken"} /\ Registered(t.to)
              THEN Parse(t) ELSE RouterV3(t)
         [] name = "CrossInscriptions" -> Inscriptions(t)
         [] OTHER -> IF Registered(t.to) THEN Parse(t) ELSE <<>>

-----------------------------------------------------------------------------
(* The transfers of a transaction, and of a block.                          *)

\* getTransferEvent: any token's event counts.
Event(t, from, to, value) ==
  \E l \in ToSet(LogsOf(t, "erc20")) : l.from = from /\ l.to = to /\ l.value = value

\* On zkSync Era the main token has events too. The other services look for an
\* event and leave the status as it is when there is none.
EraAfter(t, x) ==
  LET payer == IF x.token = Native /\ x.contract # None /\ Mapped(x.contract)
               THEN x.contract ELSE x.sender
  IN IF x.status = "confirmed" /\ ~Event(t, payer, x.receiver, x.value)
     THEN [x EXCEPT !.status = "failed"] ELSE x

Finish(t, x) == IF Executed(t) THEN x ELSE [x EXCEPT !.status = "failed"]

TransfersV6(t) ==
  IF t.receipt = "missing" \/ Read(t) = Thrown THEN Thrown
  ELSE [n \in DOMAIN Read(t) |-> Finish(t, Read(t)[n])]
TransfersV5(net, t) ==
  IF t.receipt = "missing" \/ Read(t) = Thrown THEN Thrown
  ELSE [n \in DOMAIN Read(t) |->
         IF net = "era" THEN EraAfter(t, Finish(t, Read(t)[n])) ELSE Finish(t, Read(t)[n])]
Transfers(net, t) == CASE net = "starknet" -> HandleInvoke(t)
                       [] net = "v6" -> TransfersV6(t)
                       [] OTHER -> TransfersV5(net, t)

ForMakers(found) == Select(found, LAMBDA x : x.sender \in Watched \/ x.receiver \in Watched)

\* A receipt that is missing, or a transaction that cannot be read, is an error of
\* the whole block, which is scanned again.
HandleBlock(b) ==
  LET txs == Select(b.txs, LAMBDA t : Relevant(b.net, t))
      read == [n \in DOMAIN txs |-> Transfers(b.net, txs[n])]
  IN IF Thrown \in Range(read) THEN Thrown ELSE ForMakers(FlattenSeq(read))

-----------------------------------------------------------------------------
VARIABLES block, found
vars == <<block, found>>

Init == block \in Blocks /\ found = None

Scan ==
  /\ found = None
  /\ found' = HandleBlock(block)
  /\ UNCHANGED block

Spec == Init /\ [][Scan]_vars

-----------------------------------------------------------------------------
(* What the readers promise.                                                *)

Scanned == found \notin {None, Thrown}
ReadFrom(t) == {x \in ToSet(found) : x.hash[1] = t.id}

\* The payments of an executed batch, as its logs tell them, each become a transfer
\* (v6.ts:157, :298), and no two transfers of a block have one hash, by which they
\* are kept apart later; the events of the Starknet router do (StarknetOrbiterRouter.ts:47).
BatchKind(t) == IF t.call.method = "transferTokens" THEN "erc20" ELSE "paid"
Payments(t) ==
  {n \in DOMAIN LogsOf(t, BatchKind(t)) :
     /\ LogsOf(t, BatchKind(t))[n].to \in Watched
     /\ t.call.method = "crossTransfers" => t.call.notes[n] # None}
Batched(t) == At(t.to) # {} /\ <<NameOf(t.to), t.call.method>> \in
  {<<"CrossInscriptions", "crossTransfers">>, <<"OrbiterRouterV3", "transfers">>,
   <<"OrbiterRouterV3", "transferTokens">>}
BatchComplete ==
  Scanned =>
    /\ block.net \in {"v6", "v5"} => \A t \in ToSet(block.txs) :
         Executed(t) /\ Relevant(block.net, t) /\ Batched(t) =>
           \A n \in Payments(t) : LET l == LogsOf(t, BatchKind(t))[n] IN
             \E x \in ReadFrom(t) : <<x.receiver, x.value, x.status>> = <<l.to, l.value, "confirmed">>
    /\ \A m, n \in DOMAIN found :
         m # n /\ found[m].hash = found[n].hash =>
           \E t \in ToSet(block.txs) : found[m] \in ReadFrom(t) /\ block.net = "starknet" /\ t.router

\* A transfer that a verifying reader confirms is one the chain made: the executed
\* transaction has an event that pays the receiver that much (OrbiterRouterV3.ts:34,
\* :70, XBridge.ts:45, zksyncEra.service.ts:21, starknet.service.ts:236).
Verifying(t) ==
  \/ block.net \in {"era", "starknet"}
  \/ /\ Registered(t.to)
     /\ t.call.method \in {"routerTransfer", "routerTransferToken", "bridgeToV2", "cross"}
PaidFor ==
  Scanned => \A t \in ToSet(block.txs) : Verifying(t) =>
    \A x \in ReadFrom(t) : x.status = "confirmed" =>
      /\ Executed(t)
      /\ \E l \in ToSet(t.logs) :
           /\ l.to = x.receiver /\ l.value = x.value
           /\ l.kind = "erc20" /\ block.net # "era" => l.address = x.token
=============================================================================
