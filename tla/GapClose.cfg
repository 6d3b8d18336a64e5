SPECIFICATION Spec
CONSTANTS
  MAX_INVESTORS = 3
  waln_scale = 4
  MIN_SELL_WALN = 4
  NUM_KEYS = 3
  U64_MAX = 30
  I64_MAX = 10
  MAX_TOTAL_AAT_VOLUME = 3
  USDC_SUPPLY = 6
  WALN_SUPPLY = 10
  SOL_SUPPLY = 0
  RENT_RECORD = 0
  RENT_LOCKED = 0
  RENT_ENTRY = 0
  MaxRounds = 2
  MaxTime = 0
  Prices = {2}
  Sizes = {10}
  LockPeriods = {1}
  WithdrawLocks = {}
  UnlockTimes = {}
  AatVolumes = {0, 1}
  UsdcAmounts = {2}
  WalnAmounts = {8}
  LamportAmounts = {}
  Switches = {}
INVARIANTS
  PaidWithinLocks
