CONSTANTS
  TicksPerStep = 4
  SwingRange = 25
  NumTracks = 2
  Patterns <- MCPatterns
  Rates = {4, 7}
  One = 4
  BlockSize = 3
  MaxEvents = 3
  TickPeriod = 16
SPECIFICATION Spec
INVARIANTS
  OncePerLoop
  NoDrift
  PlayheadOnGrid
