----------------------------- MODULE MCReceipts -----------------------------
(* Blocks for Receipts: every contract and method with logs that fit, that  *)
(* are of another token, receiver, value or contract, or that are missing.  *)
EXTENDS Receipts

CONSTANTS usdc, usdt, junk, ob, r1, r3, plain3, ci, xb, tf, rub, maker, user, other

Contract(a, name, registered, mapped, methods) ==
  [address |-> a, name |-> name, registered |-> registered, mapped |-> mapped, methods |-> methods]
AllContracts ==
  {Contract(ob, "OBSource", FALSE, TRUE, {}), Contract(r1, "OrbiterRouterV1", FALSE, TRUE, {}),
   Contract(r3, "OrbiterRouterV3", TRUE, TRUE, {"routerTransfer", "routerTransferToken", "transfers", "transferTokens"}),
   Contract(plain3, "OrbiterRouterV3", FALSE, TRUE, {}),
   Contract(ci, "CrossInscriptions", FALSE, TRUE, {}),
   Contract(xb, "XBridge", TRUE, FALSE, {"bridgeToV2"}),
   Contract(tf, "TransitFinanceRouterV5", TRUE, TRUE, {"cross"}), Contract(rub, "Rubic", TRUE, FALSE, {})}

Inner(m, k) == [method |-> m, to |-> maker, token |-> k, value |-> 5]
Call(m, k, via, i) == [method |-> m, to |-> maker, token |-> k, value |-> 5, via |-> via,
                       inner |-> Inner(i, k), notes |-> <<"a", None, "b">>]
Tx(id, from, to, call, value, r, f, logs) ==
  [id |-> id, from |-> from, to |-> to, call |-> call, value |-> value, note |-> None,
   code |-> to \in {ob, r1, r3, plain3, ci, xb, tf, rub, junk}, receipt |-> r, first |-> f, logs |-> logs]
Log(kind, a, from, to, v) == [kind |-> kind, address |-> a, from |-> from, to |-> to, value |-> v]

AnyLog == {Log("paid", a, user, to, v) : a \in {r3, plain3, ci}, to \in {maker, other}, v \in {5, 6}}
     \cup {Log("erc20", a, from, to, v) : a \in {usdc, junk, Native}, from \in {user, r3},
                                          to \in {maker, other}, v \in {5, 6}}
Few  == {Log("paid", r3, user, maker, 5), Log("erc20", usdc, user, maker, 5), Log("erc20", junk, user, maker, 5)}
Pays == {Log("paid", ci, user, maker, 5), Log("paid", ci, user, maker, 6), Log("paid", ci, user, other, 5)}
Logs == {<<>>} \cup {<<l>> : l \in AnyLog}
Outcomes == {"ok", "failed"}

On(net, t) == [net |-> net, txs |-> <<t>>]
One(to, m, k, v, r, f, logs) ==
  Tx(1, user, to, Call(m, k, IF logs = <<>> THEN r3 ELSE plain3, "routerTransferToken"), v, r, f, logs)

Singles == {<<r3, "routerTransfer">>, <<r3, "routerTransferToken">>, <<plain3, "routerTransfer">>,
            <<plain3, "routerTransferToken">>, <<xb, "bridgeToV2">>, <<tf, "cross">>,
            <<ob, "obTransfer">>, <<ob, "obTransferERC20">>, <<r1, "swap">>, <<r1, "swapAnswer">>,
            <<rub, "cross">>, <<xb, "unknown">>, <<ci, "unknown">>, <<ci, "unread">>, <<r1, "unknown">>, <<r1, "unread">>,
            <<plain3, "unknown">>, <<ob, "unknown">>, <<junk, "transfer">>,
            <<usdc, "transfer">>, <<usdc, "unknown">>, <<maker, "unknown">>}
BatchCalls == {<<r3, "transfers">>, <<plain3, "transferTokens">>, <<r3, "transferTokens">>}

Invoked(n, to, k, v, fits) == [to |-> to, name |-> n, token |-> k, receiver |-> maker, value |-> v, fits |-> fits]
AnyCall == {Invoked("transfer", k, None, v, f) : k \in {usdc, junk}, v \in {5, 6}, f \in BOOLEAN}
      \cup {Invoked("transferERC20", to, k, 5, TRUE) : to \in {ob, junk}, k \in {usdc, junk}}
      \cup {Invoked("other", junk, None, 0, TRUE)}
Multisig == Invoked("sign_pending_multisig_transaction", user, usdc, 5, TRUE)
Events == {Log(kind, k, from, maker, 5) : kind \in {"erc20", "paid"}, k \in {usdc, junk}, from \in {user, other}}
Invoke(id, e, calls, router, r, logs) ==
  [id |-> id, from |-> user, to |-> IF router THEN r3 ELSE user, encoding |-> e, calls |-> calls,
   router |-> router, receipt |-> r, logs |-> logs]
Invokes ==
  {Invoke(1, e, <<c1, c2>>, FALSE, r, <<l, Log("erc20", usdc, user, maker, 6)>>) :
     e \in {0, 1}, c1 \in AnyCall, c2 \in {c \in AnyCall : c.token = usdc \/ c.to = usdc}, l \in Events, r \in {"ok", "reverted", "pending"}}
  \cup {Invoke(1, 0, <<Multisig, c>>, FALSE, r, <<l>>) : c \in AnyCall, l \in Events, r \in {"ok", "missing"}}
  \cup {Invoke(1, e, <<>>, TRUE, r, <<k, l>>) : e \in {0, 1}, k \in Events, l \in Events, r \in {"ok", "missing"}}

TestBlocks ==
  {On("starknet", t) : t \in Invokes} \cup
  {On(net, One(c[1], c[2], k, v, r, 4, l)) :
     net \in {"v6", "era"}, c \in Singles, k \in {usdc, junk}, v \in {0, 5}, r \in Outcomes, l \in Logs}
  \cup {On("v5", One(c[1], c[2], usdc, v, "ok", 4, l)) : c \in Singles, v \in {0, 5}, l \in Logs}
  \cup {On(net, One(c[1], c[2], usdc, 0, r, f, <<l1, l2>>)) :
     net \in {"v6", "v5"}, c \in BatchCalls, r \in Outcomes, f \in {0, 4}, l1 \in AnyLog, l2 \in Few}
  \cup {On("v6", One(ci, "crossTransfers", usdc, 0, r, f, <<l1, l2, l3>>)) :
     r \in Outcomes, f \in {0, 4}, l1 \in Pays, l2 \in Pays, l3 \in Pays}
  \cup {On("v6", Tx(1, user, tf, Call("cross", k, via, i), v, "ok", 4, l)) :
     k \in {usdc, junk}, via \in {r3, xb}, i \in {"routerTransfer", "routerTransferToken", "other"},
     v \in {0, 5}, l \in Logs}
  \cup {On(net, [Tx(1, from, to, Call(m, None, None, "other"), 5, r, 4, <<>>) EXCEPT !.note = n]) :
     net \in {"v6", "v5", "era"}, from \in {maker, user}, to \in {maker, user, junk, None},
     m \in {"none", "inscription", "unknown"}, r \in Outcomes \cup {"missing"}, n \in {None, "a"}}
  \cup {[net |-> "v6", txs |-> <<One(r3, "transfers", usdc, 0, "ok", f, <<l1, l2>>),
                                 [One(c[1], c[2], usdc, 5, r, f + 2, <<l1>>) EXCEPT !.id = 2]>>] :
     c \in Singles, r \in Outcomes \cup {"missing"}, f \in {0, 1}, l1 \in Few, l2 \in Few}
=============================================================================
