CONSTANTS
  N = 4
  Item = {c1, c2}
  NoItem = NoItem
SPECIFICATION FairSpec
INVARIANTS
  TypeOK
  NoDataRace
PROPERTIES
  ImplementsFifo
  DeliversEverything
  PushWaitFree
