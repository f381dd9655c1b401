SPECIFICATION Spec
CONSTANTS
  BPS = 10
  SCALE = 4
  YEAR = 4
  MAX_MANAGEMENT_BPS = 2
  MAX_PERFORMANCE_BPS = 5
  Vault = vault
  alice = alice
  treasury = treasury
  Holders = {alice, treasury}
  MAX_AMOUNT = 8
  SEED_ASSETS = 2
  SHARE_MULTIPLIER = 2
  PRICE_SCALE = 2
  InitialFees <- MCFees
  InitialTime = 1
  Portfolios = {}
  Amounts = {0, 1, 2}
  Donations = {}
  Limits = {1, 8}
  Deadlines = {2, 3}
  Operators = {alice}
  Delegations <- MCDelegations
  Marks = {3}
  Steps = {1}
  MaxTime = 3
  MaxSupply = 8
  MaxHolding = 4
  MaxAsset = 2
CONSTRAINT Bounds
VIEW View
INVARIANTS ShareConservation SeedLocked
PROPERTY OnlyAuthorizedDebits
