\* Deposits of every kind of builder with the codes and amounts at the limits.
CONSTANTS
  evm = evm metis = metis zk = zk sn = sn imx = imx lp = lp test = test
  usdc = usdc eth = eth dai = dai NaN = NaN u1 = u1 u2 = u2 maker = maker Undefined = Undefined
  Chains = {evm, metis, zk, sn, imx, lp, test}
  Symbols = {usdc, eth, dai} Accounts = {u1, u2} Makers = {maker}
  InternalId <- Ids MaxAmount <- Limits Decimals <- Digits Listed <- InConfig
  Loopring = {lp} Starknet = {sn} ZkSync = zk Immutable = imx
  Precision = 7 WideDecimals = 7 PackDigits = 8 ImxDecimals = 1 MaxWidth = 9
  Rules <- AllRules Deposits <- TestDeposits
SPECIFICATION BuildSpec
INVARIANTS CodeIsRead NonceReadBack MakerAccepts
CHECK_DEADLOCK FALSE
