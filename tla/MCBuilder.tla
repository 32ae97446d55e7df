------------------------------ MODULE MCBuilder ------------------------------
(* An instance of Builder for TLC: seven chains with the ids of the code that *)
(* need care, tokens of 6 and 7 decimals with 7 in the place of 18. The    *)
(* limits have the first and the last four digits of 2^35 - 1 and 2^28 - 1.   *)
EXTENDS Builder, TLC

CONSTANTS evm, metis, zk, sn, imx, lp, test, usdc, eth, dai, u1, u2, maker

Ids     == evm :> 1 @@ metis :> 10 @@ zk :> 3 @@ sn :> 4 @@ imx :> 8 @@ lp :> 9 @@ test :> 510
Limits  == [c \in Chains |-> CASE c = zk -> 34358367 [] c = imx -> 26845455 [] OTHER -> 0]
InConfig == (Chains \X {usdc}) \cup {<<evm, eth>>, <<lp, eth>>, <<evm, dai>>}
Digits   == [t \in InConfig \cup {<<imx, dai>>} |-> IF t[1] = metis THEN 6 ELSE 7]
AllRules == [from : Chains, to : Chains, symbol : {usdc}, toSymbol : {usdc, eth}, maker : {maker},
             tradingFee : {910000}, gasFee : {3}]

Plain(c, v, n, to) ==
  [chain |-> c, token |-> <<c, usdc>>, value |-> v, nonce |-> n, sender |-> u1, receiver |-> maker,
   call |-> "plain", to |-> to, who |-> Undefined, wants |-> Undefined, quote |-> Undefined, params |-> Nowhere]

Heads == {0, 9, 91, 92, 99, 100, 265, 950, 1009, 2000, 3430, 3537, 3538, 10590, 26891, 34403, 36000, 61000}
Coded == {h * 10000 + 9000 + Ids[c] : h \in Heads, c \in Chains}
Few   == {92 * 10000 + 9010, 1000 * 10000 + 9004, 1000 * 10000, 9001000, 26891 * 10000 + 9001}
Nonces == {0, 1, 4321, 8999, 9000, 999999}
Calls == {"routerV3", "swapV3", "routerV1", "obSource", "erc20", "broken"}

TestDeposits ==
  {Plain(c, v, n, lp) : c \in {evm, zk, imx}, v \in Coded, n \in Nonces}
  \cup {Plain(metis, v, n, lp) : v \in {x \in Coded : x < 5000 * 10000}, n \in Nonces}
  \cup {[Plain(lp, v, n, to) EXCEPT !.who = w] :
          v \in Coded, n \in {0, 8999}, to \in Chains \cup {Undefined}, w \in {Undefined, u2}}
  \cup {[Plain(c, v, 7, to) EXCEPT !.call = k, !.who = w, !.wants = <<a, s>>, !.quote = q] :
          c \in {evm, sn}, v \in Few, to \in {evm, zk, sn, Undefined}, k \in Calls, w \in {Undefined, u2},
          a \in {evm, zk}, s \in {usdc, eth}, q \in {Undefined, 0, 5000}}
  \cup {[Plain(c, v, 7, lp) EXCEPT !.call = "broken", !.params = [named |-> TRUE, chain |-> p, who |-> w]] :
          c \in {evm, imx}, v \in Few, p \in Chains \cup {Undefined}, w \in {Undefined, u2}}
  \cup {[Plain(evm, v, n, zk) EXCEPT !.token = k] : v \in Few, n \in {7, 999999}, k \in {Undefined, <<evm, eth>>}}
  \cup {[Plain(imx, v, n, zk) EXCEPT !.token = <<imx, dai>>] : v \in Coded, n \in {7, 999999}}
=============================================================================
