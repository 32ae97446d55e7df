\* Blocks of the three EVM services and of Starknet with one or two transactions.
CONSTANTS
  None = None Thrown = Thrown Native = Native
  usdc = usdc usdt = usdt junk = junk ob = ob r1 = r1 r3 = r3 plain3 = plain3 ci = ci xb = xb
  tf = tf rub = rub maker = maker user = user other = other
  Tokens = {usdc, usdt} Watched = {maker} OBSources = {ob}
  Contracts <- AllContracts Blocks <- TestBlocks
SPECIFICATION Spec
INVARIANTS BatchComplete PaidFor
CHECK_DEADLOCK FALSE
