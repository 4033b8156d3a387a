SPECIFICATION FairSpec
CONSTANTS
  Last = 3
  Goals = {1, 2}
  MoveMin = 1
  GoalTol = 1
  DisplacedTol = 3
  ReplanDist = 3
  SnapRadius = 2
  Clouds = {"a"}
  Voxels <- MCVoxels
  CloudEnd <- MCCloudEnd
  Blocked <- MCBlocked
  MinReplan = 2
  Recovery = 2
  Grace = 1
  Cooldown = 2
  ExecSafety = TRUE
  LocalMapping = TRUE
  Peers = TRUE
  Outcomes = {"path", "noRoute", "invalid"}
INVARIANTS
  EmergencyDropsPath
  EmergencyHolds
PROPERTIES
  GoalNotAbandoned
