SPECIFICATION ExecutionSpec
CONSTANTS
  BPS = 10
  SCALE = 4
  YEAR = 10
  MAX_MANAGEMENT_BPS = 2
  MAX_PERFORMANCE_BPS = 5
  Vault = vault
  alice = alice
  treasury = treasury
  Holders = {alice}
  MAX_AMOUNT = 20
  SEED_ASSETS = 10
  SHARE_MULTIPLIER = 1
  PRICE_SCALE = 2
  InitialFees <- MCFees
  InitialTime = 1
  Portfolios = {}
  Amounts = {1}
  Donations = {}
  Limits = {1}
  Deadlines = {5}
  Operators = {alice}
  Delegations = {}
  Marks = {2}
  Steps = {1}
  ROLE_DELAY = 1
  Changes = {}
  Versions = {}
  InitialRoles <- MCRoles
  NoPending = NoPending
  LIQUID_BPS = 1
  YIELD_BASE_BPS = 8
  MAX_YIELD_BPS = 5
  DRIFT_BPS = 1
  MAX_EXPIRY = 4
  MAX_SLIPPAGE_BPS = 2
  MAX_LEG_BPS = 5
  MAX_TURNOVER_BPS = 6
  MAX_LOSS_BPS = 1
  COOLDOWN = 1
  WINDOW = 2
  Rounding = 1
  Bonus = 1
  Routes <- BudgetRoutes
  Epochs = {1}
  Expiries = {4}
  Yields = {5}
  Recoveries = {}
  Offsets = {0}
  MaxSigned = 1
  NoTarget = NoTarget
  MaxTime = 5
  MaxHolding = 11
  MaxNonce = 4
  MaxVersion = 2
CONSTRAINT BudgetBounds
VIEW BudgetView
INVARIANT SlidingBudget

