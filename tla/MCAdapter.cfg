SPECIFICATION MCSpec
CONSTANTS
  BPS = 10
  SCALE = 4
  YEAR = 1
  MAX_MANAGEMENT_BPS = 2
  MAX_PERFORMANCE_BPS = 5
  Vault = vault
  alice = alice
  Self = adapter
  Holders = {alice, adapter}
  MAX_AMOUNT = 10
  SEED_ASSETS = 2
  SHARE_MULTIPLIER = 2
  PRICE_SCALE = 2
  InitialFees <- MCFees
  InitialTime = 1
  Portfolios <- MCPortfolios
  Amounts = {1}
  Donations = {}
  Limits = {1}
  Deadlines = {9}
  Operators = {}
  Delegations = {}
  Marks = {3}
  Steps = {3}
  ParentCash = 2
  Invested = {0, 1, 2}
  Recipients = {alice, adapter, vault}
  NoClaim = NoClaim
  MaxTime = 4
  MaxSupply = 8
  MaxHolding = 4
INVARIANT AdapterTypeOK
PROPERTIES KeepsStrategy OverdueCatchesUp
