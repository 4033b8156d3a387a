SPECIFICATION FairSpec
CONSTANTS
  Last = 4
  Goals = {1, 3, 4}
  MoveMin = 1
  GoalTol = 1
  DisplacedTol = 3
  ReplanDist = 3
  SnapRadius = 2
  Clouds = {"a"}
  Voxels <- MCVoxels
  CloudEnd <- MCCloudEnd
  Blocked <- MCWall
  MinReplan = 2
  Recovery = 1
  Grace = 0
  Cooldown = 1
  ExecSafety = FALSE
  LocalMapping = FALSE
  Peers = FALSE
  Outcomes = {"path"}
PROPERTY Arrives
