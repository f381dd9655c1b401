SPECIFICATION Spec
CONSTANTS
  BPS = 10
  SCALE = 4
  YEAR = 2
  MAX_MANAGEMENT_BPS = 2
  MAX_PERFORMANCE_BPS = 5
  Vault = vault
  alice = alice
  treasury = treasury
  Holders = {treasury}
  MAX_AMOUNT = 8
  SEED_ASSETS = 2
  SHARE_MULTIPLIER = 2
  PRICE_SCALE = 2
  InitialFees <- MCFees
  InitialTime = 1
  Portfolios <- MCPortfolios
  Amounts = {1, 2}
  Donations = {1}
  Limits = {1, 8}
  Deadlines = {3, 4}
  Operators = {treasury}
  Delegations = {}
  Marks = {0, 3}
  Steps = {3}
  MaxTime = 4
  MaxSupply = 7
  MaxHolding = 3
  MaxAsset = 2
CONSTRAINT Bounds
VIEW View
INVARIANT MaxRedeemExecutable
