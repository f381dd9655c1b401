SPECIFICATION MCSpec
CONSTANTS
  BPS = 10
  SCALE = 1
  MIN_SPACING = 2
  MAX_GAP = 4
  MAX_AGE = 12
  MAX_SKEW = 12
  MIN_ASSET_RESERVE = 1
  MIN_USDC_RESERVE = 1
  DIVERGENCE_BPS = 3
  FEED_MAX_AGE = 6
  Legs = {"numerator"}
  TTL = 8
  MAX_PRICE_AGE = 5
  MAX_DIVERGENCE_BPS = 2
  NoFeed = NoFeed
  InitialTime = 2
  Reserves <- MCReserves
  FeedPrices = {4}
  FeedTimes = {17}
  Durations = {1}
  EARLIER = 1
  SPACING = 2
  PERIOD = 2
  PASS = 1
  MaxTime = 19
  LastAct = 5
  LastStop = 8
  LastReturn = 9
CHECK_DEADLOCK FALSE
PROPERTIES StaysUsable Recollects StoppedByOthers
