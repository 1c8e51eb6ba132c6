CONSTANTS
  Transfers <- MCTransfers
  ChunkData = 7
  Cap = 15
  Size <- MCSize
  Version = 5
SPECIFICATION BulkSpec
INVARIANTS
  NoSplice
PROPERTY Restores
