SPECIFICATION GovernedSpec
CONSTANTS
  BPS = 10
  SCALE = 4
  YEAR = 4
  MAX_MANAGEMENT_BPS = 2
  MAX_PERFORMANCE_BPS = 5
  Vault = vault
  alice = alice
  treasury = treasury
  Holders = {treasury, alice}
  MAX_AMOUNT = 8
  SEED_ASSETS = 2
  SHARE_MULTIPLIER = 2
  PRICE_SCALE = 2
  InitialFees <- FreeFees
  InitialTime = 1
  Portfolios <- Gains
  Amounts = {}
  Donations = {}
  Limits = {8}
  Deadlines = {9}
  Operators = {alice}
  Delegations = {}
  Marks = {3}
  Steps = {1}
  ROLE_DELAY = 1
  Changes <- FeeHoliday
  Versions = {1, 2, 3}
  InitialRoles <- MCRoles
  NoPending = NoPending
  MaxTime = 4
  MaxSupply = 8
  MaxHolding = 8
  MaxVersion = 3
CONSTRAINT Bounds
VIEW View
PROPERTY FeeChangesAreProspective
