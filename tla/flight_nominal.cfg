SPECIFICATION FairSpec
CONSTANTS
  Heights = {0, 3}
  GoalZMin = 1
  GoalZMax = 2
  OdomTimeout = 2
  TrajTimeout = 1
  LocalTimeout = 1
  GoalFallback = TRUE
  Signatures = {"match"}
  PoseCap = 9
  CmdTimeout = 3
  QueueDepth = 2
  MaxDelay = 1
  Faults = {}
INVARIANT FlightBand
PROPERTIES
  PlannerAuthority
  NoFalseCut
  NominalFlight
