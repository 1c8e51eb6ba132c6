CONSTANTS
  tune = tune
  tone = tone
  dest = dest
  a = a
  b = b
  None = None
  Params = {tune, tone, dest}
  LfoDest = dest
  VMax = 2
  Dests <- MCDests
  LfoValues = {0, 1}
  Steps = {a, b}
  MaxLocks = 2
  Patches <- MCPatches
  BaseInputs <- MCBaseInputs
  LockInputs <- MCLockInputs
  Frames = 2
SPECIFICATION Spec
INVARIANTS
  TypeOK
  NoLeak
  FreshLocks
PROPERTY EffectiveValue
