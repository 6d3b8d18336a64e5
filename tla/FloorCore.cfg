SPECIFICATION Spec
CONSTANTS
  MAX_INVESTORS = 2
  waln_scale = 2
  MIN_SELL_WALN = 2
  NUM_KEYS = 3
  U64_MAX = 30
  I64_MAX = 10
  MAX_TOTAL_AAT_VOLUME = 3
  USDC_SUPPLY = 6
  WALN_SUPPLY = 6
  SOL_SUPPLY = 0
  RENT_RECORD = 0
  RENT_LOCKED = 0
  RENT_ENTRY = 0
  MaxRounds = 2
  MaxTime = 1
  Prices = {3}
  Sizes = {3}
  LockPeriods = {1}
  WithdrawLocks = {}
  UnlockTimes = {}
  AatVolumes = {1, 2}
  UsdcAmounts = {2, 4}
  WalnAmounts = {2, 3}
  LamportAmounts = {}
  Switches = {}
INVARIANTS
  TypeOK
  LobbyAccounting
  LocksMatchRound
  Solvent
  ProRata
  SettlementFits
  WalnConserved
  ClaimsCounted
  PurchasesBacked
PROPERTIES
  AllocationsFinal
