CONSTANTS
  SectorPages = 2
  KitPages = 1
  PatternPages = 3
  KitSlots = 2
  PatternSlots = 2
  ChipPages = 14
  MaxSaves = 3
SPECIFICATION Spec
INVARIANTS
  TypeOK
  LoadsLastSave
CHECK_DEADLOCK FALSE
