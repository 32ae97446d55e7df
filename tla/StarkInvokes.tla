----------------------------- MODULE StarkInvokes -----------------------------
(***************************************************************************)
(* How the crawler reads the transfers of a Starknet transaction: the calls*)
(* that an invoke hands to the account, the events of the receipt, and the *)
(* events of the router contract.                                          *)
(***************************************************************************)
EXTENDS Integers, Sequences, SequencesExt

CONSTANTS
  None, Thrown,  \* no value; an error instead of a result
  Native,        \* the address of the main token
  Tokens,        \* the addresses of the listed tokens
  Watched,       \* the addresses of makers and their owners
  OBSources      \* the addresses configured as OBSource

(***************************************************************************)
(* An invoke is [id, from, encoding, calls, router, receipt, logs]:        *)
(*   encoding 0 or 1, the layout of the calldata; router: the calldata     *)
(*            names the router contract;                                   *)
(*   calls    [to, name, token, receiver, value, fits], name "other" for a *)
(*            selector that is not known, fits: the number of arguments is *)
(*            that of the name;                                            *)
(*   receipt  "ok", "reverted", "pending" or "missing";                    *)
(*   logs     [kind, address, from, to, value]: "erc20" the events of the  *)
(*            tokens, "paid" those of the router, for the token `address`. *)
(***************************************************************************)
KnownCall(c) == \/ c.name \in {"transfer", "sign_pending_multisig_transaction"}
                \/ c.name = "transferERC20" /\ c.to \in OBSources

\* SelectSeq, by a definition that can be reasoned about.
Select(s, Test(_)) == FlattenSeq([i \in DOMAIN s |-> IF Test(s[i]) THEN <<s[i]>> ELSE <<>>])

\* The layout of the second kind of account numbers the calls it knows, that of the
\* first the calls there are; only the first counts the arguments.
DecodeCairo0(t) ==
  IF t.encoding # 0 THEN <<>>
  ELSE Select([i \in DOMAIN t.calls |-> [call |-> t.calls[i], index |-> i - 1]],
                 LAMBDA c : KnownCall(c.call) /\ c.call.fits)
DecodeCairo1(t) ==
  IF t.encoding # 1 THEN <<>>
  ELSE LET known == Select(t.calls, KnownCall)
       IN [i \in DOMAIN known |-> [call |-> known[i], index |-> i - 1]]
Decoded(t) == IF DecodeCairo0(t) # <<>> THEN DecodeCairo0(t) ELSE DecodeCairo1(t)

TokenOf(c) == IF c.name = "transfer" THEN c.to ELSE c.token

InvokeStatus(t) == CASE t.receipt = "ok" -> "confirmed" [] t.receipt = "pending" -> "pending"
                     [] OTHER -> "failed"

TokenEvent(t, token, receiver, value) ==
  \E l \in ToSet(t.logs) : /\ l.kind = "erc20" /\ l.address = token
                           /\ l.from = t.from /\ l.to = receiver /\ l.value = value

\* The hash has the number of the call when there are several.
InvokeTransfer(t, d) ==
  LET c == d.call IN
  [hash |-> <<t.id, IF Len(Decoded(t)) > 1 THEN d.index ELSE None>>,
   sender |-> t.from, receiver |-> c.receiver, token |-> TokenOf(c), value |-> c.value,
   contract |-> IF c.name = "transferERC20" THEN c.to ELSE None, version |-> None,
   status |-> IF InvokeStatus(t) = "confirmed" /\ ~TokenEvent(t, TokenOf(c), c.receiver, c.value)
              THEN "failed" ELSE InvokeStatus(t)]

\* Every event of the router has the hash of its transaction.
RouterTransfers(t) ==
  LET events == Select(t.logs, LAMBDA l : l.kind = "paid" /\ l.address \in Tokens) IN
  [n \in DOMAIN events |->
     [hash |-> <<t.id, None>>, sender |-> t.from, receiver |-> events[n].to,
      token |-> events[n].address, value |-> events[n].value, contract |-> t.to,
      version |-> None, status |-> "confirmed"]]

HandleInvoke(t) ==
  LET mine == Select(Decoded(t), LAMBDA d : t.from \in Watched \/ d.call.receiver \in Watched)
  IN IF ~t.router /\ mine = <<>> THEN <<>>
     ELSE IF t.receipt = "missing" THEN Thrown
     ELSE IF t.router THEN RouterTransfers(t)
     ELSE [n \in DOMAIN mine |-> InvokeTransfer(t, mine[n])]
=============================================================================
