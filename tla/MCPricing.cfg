SPECIFICATION Spec
CONSTANTS
  BPS = 10
  SCALE = 1
  MIN_SPACING = 2
  MAX_GAP = 3
  MAX_AGE = 6
  MAX_SKEW = 5
  MIN_ASSET_RESERVE = 1
  MIN_USDC_RESERVE = 1
  DIVERGENCE_BPS = 3
  FEED_MAX_AGE = 6
  Legs = {"numerator"}
  TTL = 4
  MAX_PRICE_AGE = 5
  MAX_DIVERGENCE_BPS = 2
  NoFeed = NoFeed
  InitialTime = 1
  Reserves <- MCReserves
  FeedPrices = {4}
  FeedTimes = {5}
  Durations = {1, 2}
  MaxLedger = 8
  MaxTime = 11
CONSTRAINT Bounds
INVARIANTS TypeOK WindowInOrder ReferenceWithinSamples
PROPERTY MarkFixedWithinLedger
