CONSTANTS
  Detents <- MCDetents
  StepsSeen <- MCSteps
  HeadsSeen = {0, 5, 20}
  MutedSeen <- MCMuted
  TimesSeen = {0, 600}
  TicksPerStep = 24
  SwingRange = 25
  Lengths = {1, 2, 3, 4}
  Speeds <- MCSpeeds
  Micros <- MCMicros
  Swings = {0, 1, 10, 25}
SPECIFICATION Spec
INVARIANTS
  FiresOncePerLoop
  CycleCoversSteps
  ClicksAddUp
  LightsTell
PROPERTY TurnsTheRightWay
