SPECIFICATION LoopSpec
CONSTANTS
  MAX_INVESTORS = 3
  waln_scale = 2
  MIN_SELL_WALN = 2
  DepositRange = {0, 2, 3, 4, 5, 8}
  VolumeRange = {0, 1, 2, 5}
  SizeRange = {3, 5, 6}
  PriceRange = {2, 3}
  Dusts = {0, 1}
  Times = {0, 1, 2}
INVARIANTS
  LoopsMatchRoundMath
  SelectionIsGreatest
  CloseBalances
