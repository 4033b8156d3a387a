SPECIFICATION FairSpec
CONSTANTS
  Places <- MCPlaces
  NoPlace <- MCNone
  Dist <- MCDist
  InBox <- MCCells
  Clamp <- MCClamp
  ForwardSeeds <- MCSeeds
  Seedings = {TRUE}
  ArriveTol = 0
  MinTravel = 1
  MinSep = 2
  MinRange = 2
  ClampShift = 1
  Cooldown = 1
  MaxGoals = 4
  IdleEmpty = 2
  IdleStalled = 3
  Cells <- MCCells
  Unheard <- MCNone
  Sensed <- MCSensed
  Obstacles <- MCObstacles
  Halo <- MCHalo
  Neighbours <- MCNeighbours
  Small <- MCSmall
  None <- MCNone
  Apart <- MCDist
  Workspace <- MCWorkspace
  CmdBound = 4
  Home <- MCHome
  Route <- MCRoute
  Runaways <- MCRunaways
  LateCloud = FALSE
PROPERTY ExplorationEnds
