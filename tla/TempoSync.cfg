CONSTANTS
  Masters = {2, 5}
  Tempos = {4, 12}
  MinInterval = 1
  MaxInterval = 16
  Timeout = 11
  Troubles = {"early", "slip", "retune"}
SPECIFICATION FairSyncSpec
INVARIANTS
  HoldsTempo
PROPERTIES
  KeepsRate
  FallsBack
  Follows
