SPECIFICATION FairSpec
CONSTANTS
  Heights = {}
  GoalZMin = 1
  GoalZMax = 2
  OdomTimeout = 3
  TrajTimeout = 1
  LocalTimeout = 1
  GoalFallback = FALSE
  Signatures = {"match", "mismatch"}
  PoseCap = 14
  CmdTimeout = 5
  QueueDepth = 2
  MaxDelay = 2
  Faults = {"loseOdom", "loseMotor", "ctrlCrash", "plantCrash", "nonFinite"}
INVARIANTS
  TypeOK
  FailSafe
  PoseInv
PROPERTIES
  DeadMan
  RecoversFromLoss
  DeadControllerStops
  MismatchGrounds
