CONSTANTS
  NumTracks = 2
  NumKeys = 2
  NumPages = 2
  NumBanks = 2
  VMax = 2
  Default = 1
  NoteParam = 2
  MaxLocks = 2
  HasField = TRUE
  MaxPending = 2
  MaxInputs = 6
  Stored <- MCStored
SPECIFICATION Spec
INVARIANTS
  EditsLand
  LocksKeepStep
CHECK_DEADLOCK FALSE
