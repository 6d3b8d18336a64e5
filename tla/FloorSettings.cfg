SPECIFICATION AdminSpec
CONSTANTS
  MAX_INVESTORS = 3
  waln_scale = 10
  MIN_SELL_WALN = 1
  NUM_KEYS = 3
  U64_MAX = 30
  I64_MAX = 10
  MAX_TOTAL_AAT_VOLUME = 3
  USDC_SUPPLY = 6
  WALN_SUPPLY = 5
  SOL_SUPPLY = 0
  RENT_RECORD = 0
  RENT_LOCKED = 0
  RENT_ENTRY = 0
  MaxRounds = 1
  MaxTime = 1
  Prices = {5, 11}
  Sizes = {1, 5}
  LockPeriods = {10}
  WithdrawLocks = {}
  UnlockTimes = {}
  AatVolumes = {1}
  UsdcAmounts = {2}
  WalnAmounts = {4, 5}
  LamportAmounts = {}
  Switches = {TRUE}
INVARIANTS
  SettingsViable
  RoundCanFill
PROPERTIES
  SnapshotFixed
  PausedRoundEnds
