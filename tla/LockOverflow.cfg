SPECIFICATION AdminSpec
CONSTANTS
  MAX_INVESTORS = 1
  waln_scale = 2
  MIN_SELL_WALN = 1
  NUM_KEYS = 1
  U64_MAX = 30
  I64_MAX = 10
  MAX_TOTAL_AAT_VOLUME = 3
  USDC_SUPPLY = 8
  WALN_SUPPLY = 6
  SOL_SUPPLY = 0
  RENT_RECORD = 0
  RENT_LOCKED = 0
  RENT_ENTRY = 0
  MaxRounds = 2
  MaxTime = 1
  Prices = {3}
  Sizes = {3}
  LockPeriods = {10}
  WithdrawLocks = {}
  UnlockTimes = {}
  AatVolumes = {1}
  UsdcAmounts = {4}
  WalnAmounts = {1, 2, 3}
  LamportAmounts = {}
  Switches = {TRUE}
PROPERTIES
  ForceSettles
