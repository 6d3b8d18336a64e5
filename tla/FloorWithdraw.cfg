SPECIFICATION Spec
CONSTANTS
  MAX_INVESTORS = 2
  waln_scale = 2
  MIN_SELL_WALN = 2
  NUM_KEYS = 2
  U64_MAX = 9
  I64_MAX = 4
  MAX_TOTAL_AAT_VOLUME = 3
  USDC_SUPPLY = 3
  WALN_SUPPLY = 3
  SOL_SUPPLY = 0
  RENT_RECORD = 0
  RENT_LOCKED = 0
  RENT_ENTRY = 0
  MaxRounds = 1
  MaxTime = 2
  Prices = {2}
  Sizes = {3}
  LockPeriods = {0}
  WithdrawLocks = {1}
  UnlockTimes = {2}
  AatVolumes = {0, 1}
  UsdcAmounts = {1, 9}
  WalnAmounts = {3}
  LamportAmounts = {}
  Switches = {}
PROPERTIES
  WithdrawLockHolds
