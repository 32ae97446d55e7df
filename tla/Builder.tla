-------------------------------- MODULE Builder --------------------------------
(***************************************************************************)
(* How the refinery turns a V1 deposit into a row of bridge_transaction:   *)
(* which chain, token and address are paid, by which rule, and how much.   *)
(* The build is one step for each of the deposits that may arrive: it      *)
(* writes nothing and depends on the deposit and the configuration only.   *)
(***************************************************************************)
EXTENDS Amounts

CONSTANTS
  Symbols, Accounts, Makers,
  Decimals,     \* [tokens -> Nat], a token being <<chain, symbol>>
  Listed,       \* the tokens of the configuration; Immutable names symbol and decimals itself
  Starknet,     \* the chains with addresses and contracts of their own
  Rules,        \* set of [from, to, symbol, toSymbol, maker, tradingFee, gasFee]
  Deposits,     \* the deposits that may arrive
  NaN

Tokens == DOMAIN Decimals
Nowhere == [named |-> FALSE, chain |-> Undefined, who |-> Undefined]

\* token is Undefined where the crawler knew no symbol and left the amount null.
\* call: the contract the deposit went through and what its data decode to: the
\* chain `to`, the address `who`, the token `wants` and the amount `quote`. params:
\* the query string of the new routers, which the crawler has decoded; `named` when
\* it has the id of a chain, which may be that of none.
Deposit == [chain : Chains, token : Tokens \cup {Undefined}, value : Nat, nonce : Nat,
            sender : Accounts, receiver : Makers,
            call : {"plain", "routerV3", "swapV3", "routerV1", "obSource", "erc20", "broken"},
            to : Chains \cup {Undefined}, who : Accounts \cup {Undefined},
            wants : (Chains \X Symbols) \cup {Undefined}, quote : Nat \cup {Undefined},
            params : [named : BOOLEAN, chain : Chains \cup {Undefined}, who : Accounts \cup {Undefined}]]

ASSUME BuilderAssumption ==
  /\ Tokens \subseteq Chains \X Symbols /\ Listed \subseteq Tokens
  /\ Decimals \in [Tokens -> 0..Precision]
  /\ Starknet \subseteq Chains
  /\ Starknet \cap Loopring = {} /\ ZkSync \notin Starknet \cup Loopring
  /\ Undefined \notin Chains \cup Symbols \cup Accounts \cup Makers
  /\ NaN # Undefined /\ NaN \notin Nat
  /\ \A r \in Rules : r.to \in Chains /\ r.tradingFee \in Nat /\ r.gasFee \in Nat
  /\ Deposits \subseteq Deposit
  /\ \A t \in Deposits : t.value < Ten[MaxWidth]

\* The configuration that the theorems are about: the ids of CHAIN_INDEX and
\* tokens of five decimals or more (those of the bridge have 6 or 18).
KnownIds == 1..99 \cup 510..599
KnownCodes ==
  /\ \A c \in Chains : InternalId[c] \in KnownIds
  /\ \A t \in Tokens : Decimals[t] >= 5
  /\ MaxWidth > 0

\* And no limit, or one of six digits or more (MAX_BITS has 28, 35 and 256 bits).
KnownLimits ==
  /\ MaxWidth > 0
  /\ \A c \in Chains : MaxAmount[c] = 0 \/ MaxAmount[c] \in Ten[5]..Ten[MaxWidth] - 1
  /\ MaxAmount[ZkSync] > 0

VARIABLES tx, built
rowVars == <<tx, built>>

-----------------------------------------------------------------------------
(* The builders. A result holds the fields that a builder has set.          *)

TokenBySymbol(c, s)  == IF c # Undefined /\ <<c, s>> \in Listed THEN <<c, s>> ELSE Undefined
TokenByAddress(c, a) == IF a \in Listed /\ a[1] = c THEN a ELSE Undefined

\* Object.assign(a, b).
Assign(a, b) == [f \in DOMAIN a \cup DOMAIN b |-> IF f \in DOMAIN b THEN b[f] ELSE a[f]]
Nothing == [f \in {} |-> Undefined]

SymbolOf(t) == IF t.token = Undefined THEN Undefined ELSE t.token[2]
CodeChain(t) == ChainOf(SecurityCode(t.value, Decimals[t.token]))

\* The token is the one of the chain in the code, also when the parameters name
\* another chain, or one that does not exist, and there is none.
StandardBuild(t) ==
  [targetChain   |-> IF t.params.named THEN t.params.chain ELSE CodeChain(t),
   targetToken   |-> TokenBySymbol(CodeChain(t), SymbolOf(t)),
   targetAddress |-> IF t.params.who # Undefined THEN t.params.who ELSE t.sender,
   targetAmount  |-> Undefined]

ChainAndToken(c, s) == [targetChain |-> c, targetToken |-> TokenBySymbol(c, s)]

ZksyncLiteBuild(t) ==
  LET c == ChainOf(ZksyncLiteCode(t.value, Decimals[t.token])) IN
  IF TokenBySymbol(c, SymbolOf(t)) = Undefined THEN [targetChain |-> c]
  ELSE Assign(ChainAndToken(c, SymbolOf(t)), [targetAddress |-> t.sender])

LoopringBuild(t) ==
  IF TokenBySymbol(t.to, SymbolOf(t)) = Undefined THEN [targetChain |-> t.to]
  ELSE Assign(ChainAndToken(t.to, SymbolOf(t)),
              [targetAddress |-> IF t.who = Undefined THEN t.sender ELSE t.who])

EVMOBSourceBuild(t) ==
  IF CodeChain(t) \notin Starknet \/ TokenBySymbol(CodeChain(t), SymbolOf(t)) = Undefined
  THEN [targetChain |-> CodeChain(t)]
  ELSE Assign(ChainAndToken(CodeChain(t), SymbolOf(t)), [targetAddress |-> t.who])

StarknetOBSourceBuild(t) ==
  IF CodeChain(t) = Undefined THEN Nothing
  ELSE IF TokenBySymbol(CodeChain(t), SymbolOf(t)) = Undefined THEN [targetChain |-> CodeChain(t)]
  ELSE Assign(ChainAndToken(CodeChain(t), SymbolOf(t)),
              IF t.call = "erc20" THEN [targetAddress |-> t.who] ELSE Nothing)

\* The amount of a swap without a quote is not a number.
RouterV3Build(t) ==
  IF t.to = Undefined THEN Nothing
  ELSE IF t.call = "routerV3" THEN Assign(ChainAndToken(t.to, SymbolOf(t)), [targetAddress |-> t.who])
  ELSE [targetChain   |-> t.to,
        targetToken   |-> TokenByAddress(t.to, t.wants),
        targetAddress |-> IF t.who = Undefined THEN t.sender ELSE t.who,
        targetAmount  |-> IF t.quote = Undefined THEN NaN ELSE t.quote]

RouterV1Build(t) ==
  Assign([targetAmount |-> t.quote],
         IF t.to = Undefined THEN Nothing
         ELSE [targetChain |-> t.to, targetToken |-> TokenByAddress(t.to, t.wants),
               targetAddress |-> t.who])

\* The first builder whose check holds. Those of loopring, OBSource and zkSync Lite
\* take the place of the standard result, the others are laid over it; an error in
\* one is logged and what was there stays.
Blank == [targetChain |-> Undefined, targetToken |-> Undefined, targetAddress |-> Undefined, targetAmount |-> Undefined]

BuilderData(t) ==
  CASE t.call \in {"routerV3", "swapV3"} -> Assign(StandardBuild(t), RouterV3Build(t))
    [] t.call = "routerV1" -> Assign(StandardBuild(t), RouterV1Build(t))
    [] t.call = "broken" -> StandardBuild(t)
    [] t.call \in {"plain", "obSource", "erc20"} /\ t.chain \in Loopring ->
         Assign(Blank, LoopringBuild(t))
    [] t.call = "obSource" /\ t.chain \notin Starknet \cup Loopring ->
         Assign(Blank, EVMOBSourceBuild(t))
    [] t.call \in {"plain", "obSource", "erc20"} /\ t.chain \in Starknet ->
         Assign(StandardBuild(t), StarknetOBSourceBuild(t))
    [] t.call \in {"plain", "erc20"} /\ t.chain = ZkSync -> Assign(Blank, ZksyncLiteBuild(t))
    [] OTHER -> StandardBuild(t)

\* The same, with the token looked up by its symbol and the sender as the address
\* where the builders found none.
Filled(t) ==
  LET d == BuilderData(t) IN
  Assign(d, [targetToken |-> IF d.targetToken = Undefined
                             THEN TokenBySymbol(d.targetChain, SymbolOf(t)) ELSE d.targetToken,
             targetAddress |-> IF d.targetAddress = Undefined THEN t.sender ELSE d.targetAddress])

RulesFor(t, d) ==
  {r \in Rules : /\ r.from = t.chain /\ r.to = d.targetChain
                 /\ r.symbol = SymbolOf(t) /\ r.toSymbol = d.targetToken[2]
                 /\ r.maker = t.receiver}

-----------------------------------------------------------------------------
(* BridgeTransactionBuilder.build: a row, a ValidSourceTxError with its     *)
(* opStatus, or another error, which leaves the transfer as it is.          *)

Error(status) == [kind |-> "error", opStatus |-> status]
Thrown == [kind |-> "thrown"]

Row(t, d, r) ==
  LET send == AmountToSend(t.chain, Decimals[t.token], d.targetChain, Decimals[d.targetToken],
                           t.value, r.tradingFee, r.gasFee, t.nonce)
      amount == IF d.targetAmount # Undefined THEN d.targetAmount ELSE send.tAmount
  IN  IF d.targetAmount = Undefined /\ send.thrown THEN Thrown
      ELSE IF amount = Undefined \/ amount = 0 THEN Error("AMOUNT_TOO_SMALL")
      ELSE [kind |-> "row", targetChain |-> d.targetChain, targetToken |-> d.targetToken,
            targetAddress |-> d.targetAddress, targetAmount |-> amount,
            withholdingFee |-> r.tradingFee]

\* An amount that is null is read before anything else, the symbol of a source token
\* that is not listed once the target is found.
Outcome(t) ==
  IF t.token = Undefined THEN Thrown
  ELSE IF t.nonce >= 999999 THEN Error("NONCE_EXCEED_MAXIMUM")
  ELSE LET d == Filled(t) IN
       IF d.targetChain = Undefined \/ d.targetToken = Undefined
       THEN Error("TARGET_CHAIN_OR_TOKEN_NOT_FOUND")
       ELSE IF t.token \notin Listed THEN Thrown
       ELSE IF RulesFor(t, d) = {} THEN Error("RULE_NOT_FOUND")
       ELSE Row(t, d, CHOOSE r \in RulesFor(t, d) : TRUE)

NotBuilt == [kind |-> "waiting"]

BuildInit == tx \in Deposits /\ built = NotBuilt

Build == built = NotBuilt /\ built' = Outcome(tx) /\ UNCHANGED tx

BuildSpec == BuildInit /\ [][Build]_rowVars

-----------------------------------------------------------------------------
(* The amount in units of 10^-Precision.                                    *)
Units(n, decimals) == n * Ten[Precision - decimals]

\* The maker's check before a payment: a payment of the same symbol may not be
\* more than the deposit (validator.service.ts). Prices are not modelled.
ValidatingValueMatches(t, row) ==
  t.token[2] = row.targetToken[2] =>
    Units(row.targetAmount, Decimals[row.targetToken]) <= Units(t.value, Decimals[t.token])

Computed(t) == built.kind = "row" /\ Filled(t).targetAmount = Undefined

\* Hazard: the code is written by one program into an amount that another has cut,
\* rounded and stripped of its zeros. A plain deposit with the code of a chain is
\* never built for another chain, and the chain is found, always for the ids that
\* do not end in 0 and elsewhere than on zkSync Lite for those up to 99.
Code(t) == t.value % PNumber
CodeIsRead ==
  built.kind # "waiting" /\ tx.call = "plain" /\ tx.params = Nowhere
    /\ tx.token # Undefined /\ tx.chain \notin Loopring /\ Code(tx) - 9000 \in {InternalId[c] : c \in Chains}
  => LET id == Code(tx) - 9000 IN
     /\ built.kind = "row" => built.targetChain = ChainOf(id)
     /\ (id % 10 # 0 \/ (id < 100 /\ tx.chain # ZkSync)) => Filled(tx).targetChain = ChainOf(id)

\* The digits before the nonce are those of the limit: whether the nonce stands
\* behind them or one digit further up depends on the nonce itself.
StartsAsLimit(c, n) ==
  /\ MaxAmount[c] > 0
  /\ Width(n) + 5 >= Width(MaxAmount[c])
  /\ Cut(n, Width(n) + 5 - Width(MaxAmount[c])) = Cut(MaxAmount[c], 5)

\* Hazard: the nonce is put into a payment before it is made packable and shortened,
\* and read from what arrives on the chain. Every payment whose amount is computed
\* carries the nonce of its deposit, except on loopring, on Immutable (where the
\* nonce stands at fixed decimals), where nothing but the nonce was left, and on a
\* chain that stores few digits where the amount starts as its limit does.
NonceReadBack ==
  Computed(tx) /\ built.targetChain \notin Loopring \cup {Immutable}
    /\ ~TooShort(built.targetAmount)
    /\ ~StartsAsLimit(built.targetChain, built.targetAmount)
    => AmountFlag(built.targetChain, built.targetAmount) = tx.nonce

\* Hazard: fees are rounded, the amount is rounded to the decimals of another token
\* and its last digits are replaced. What is computed here is never refused by the
\* maker as more than the deposit.
MakerAccepts == Computed(tx) => ValidatingValueMatches(tx, built)
=============================================================================
