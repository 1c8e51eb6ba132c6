CONSTANTS
  MaxStrikes = 3
  VMax = 4
  Open = 3
  Still = 1
  StripInputs <- MCStripInputs
  Cycle = 4
  FadeMax = 3
  StartPhases = {0, 1, 4}
  Incs = {1, 3, 6}
  FadeRates = {0, 2}
  Cap = 4
  Feedback = 50
  Loudest = 2
  Inputs <- MCInputs
  TimeAtInit = 1
  Times = {0, 2, 9}
  Percents = {0, 100}
SPECIFICATION Spec
INVARIANTS
  DerivedCurrent
  HitsWhole
  StripCurrent
  OneShotNeverLoops
  EchoOnTime
  Bounded
PROPERTIES
  ClosesOnSilence
  HitEnds
  OneShotSettles
CHECK_DEADLOCK FALSE
