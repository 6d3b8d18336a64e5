SPECIFICATION AdminSpec
CONSTANTS
  MAX_INVESTORS = 2
  waln_scale = 2
  MIN_SELL_WALN = 2
  NUM_KEYS = 2
  U64_MAX = 30
  I64_MAX = 10
  MAX_TOTAL_AAT_VOLUME = 3
  USDC_SUPPLY = 4
  WALN_SUPPLY = 5
  SOL_SUPPLY = 4
  RENT_RECORD = 1
  RENT_LOCKED = 1
  RENT_ENTRY = 1
  MaxRounds = 1
  MaxTime = 0
  Prices = {2}
  Sizes = {4}
  LockPeriods = {0}
  WithdrawLocks = {}
  UnlockTimes = {}
  AatVolumes = {0, 1}
  UsdcAmounts = {2}
  WalnAmounts = {3}
  LamportAmounts = {2}
  Switches = {TRUE, FALSE}
INVARIANTS
  RentExempt
PROPERTIES
  LamportsConserved
  PausedRoundEnds
