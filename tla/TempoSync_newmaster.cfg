CONSTANTS
  Masters = {2, 5}
  Tempos = {4}
  MinInterval = 1
  MaxInterval = 16
  Timeout = 11
  Troubles = {}
SPECIFICATION FairSyncSpec
PROPERTIES
  SyncsToMaster
