CONSTANTS
  Slots = {a, b}
  NoSlot = none
  Capacity = 2
  Overlaps = {}
  MaxEdits = 2
  MaxRequests = 3
SPECIFICATION FairSpec
INVARIANTS
  SavedCoherent
PROPERTIES
  SavedIsCurrent
  LoadedExactly
  SaveLands
