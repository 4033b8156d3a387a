SPECIFICATION FairSpec
CONSTANTS
  Last = 3
  Goals = {3}
  MoveMin = 1
  GoalTol = 1
  DisplacedTol = 3
  ReplanDist = 3
  SnapRadius = 2
  Clouds = {"a"}
  Voxels <- MCVoxels
  CloudEnd <- MCShortEnd
  Blocked <- MCOpen
  MinReplan = 2
  Recovery = 1
  Grace = 0
  Cooldown = 1
  ExecSafety = FALSE
  LocalMapping = FALSE
  Peers = FALSE
  Outcomes = {"path"}
PROPERTY Arrives
