SPECIFICATION PersistentSpec
CONSTANTS
  AdminTxs = {a1}
  a1 = a1
  MAX_INVESTORS = 1
  waln_scale = 2
  MIN_SELL_WALN = 1
  NUM_KEYS = 1
  U64_MAX = 30
  I64_MAX = 10
  MAX_TOTAL_AAT_VOLUME = 3
  USDC_SUPPLY = 8
  WALN_SUPPLY = 6
  SOL_SUPPLY = 2
  RENT_RECORD = 1
  RENT_LOCKED = 0
  RENT_ENTRY = 0
  MaxRounds = 2
  MaxTime = 0
  Prices = {3}
  Sizes = {3}
  LockPeriods = {0}
  WithdrawLocks = {}
  UnlockTimes = {}
  AatVolumes = {0, 1}
  UsdcAmounts = {4}
  WalnAmounts = {2, 3}
  LamportAmounts = {2}
  Switches = {TRUE}
PROPERTIES
  CloseSettlesSeenRound
  ClientsFill
