SPECIFICATION MCSpec
CONSTANTS
  RATE_SCALE = 5
  Usdc = usdc
  Other = other
  BPS = 20
  PRICE_SCALE = 2
  FACTOR_SCALE = 10
  C_FACTOR = 8
  L_FACTOR = 8
  MAX_DEBT_BPS = 10
  MIN_HEALTH_BPS = 25
  MAX_SLIPPAGE_BPS = 5
  REWARD_CONFIGURED = TRUE
  Spots <- MCSpots
  Rates <- MCRates
  Prices = {2, 4}
  OraclePrices = {0, 2, 4}
  Plans <- MCPlans
  Unwinds <- MCUnwinds
  Amounts = {1, 2, 3, 9}
  MaxSpot = 12
INVARIANTS RecoveryTypeOK ExpectationsExact FullRecoveryAccepted
PROPERTIES OnlyMarketsAddRisk UnwindBuysNothing RewardsUnblock
