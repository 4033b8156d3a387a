SPECIFICATION FairSpec
CONSTANTS
  Waypoints <- MCWaypoints
  Cycles = 2
  HoldSec = 2
  MaxHold = 12
  RepubPeriod = 2
  RepubBudget = 3
  Unset <- MCUnset
  Ahead <- MCAhead
  Near <- MCNear
  Astray <- MCAstray
  HoldTicks = 2
  Depot = 0
  At <- MCNear
  MaxLosses = 2
INVARIANTS
  MissionTypeOK
  NoWaypointGivenUp
  PlannersAgree
PROPERTIES
  MissionEnds
