SPECIFICATION Spec
CONSTANTS
  HookPrograms = {h1}
  h1 = h1
  NoHook = NoHook
  Attesters = {a1, a2}
  a1 = a1
  a2 = a2
  Round = 0
PROPERTIES
  TransferUsesCurrentConfig
  ClientGetsThrough
