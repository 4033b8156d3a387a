SPECIFICATION SearchSpec
CONSTANTS
  Cells <- MCCells
  Ball <- MCBall
  Cube <- MCCube
  Boundary <- MCBoundary
  Ray <- MCRay
  Outside <- MCOutside
  LocalClouds <- MCClouds
  Voxels <- MCVoxels
  Neighbours <- MCNeighbours
  StepCost <- MCStep
  Heu <- MCHeu
  Band <- MCBand
  Rings <- MCRings
  Clamped <- MCClamped
  Aside <- MCAside
  Rank <- MCRank
  Queries <- MCQueries
  MaxIters = 24
INVARIANTS
  HaloKept
  WayBackIsSafe
  FailsRightly
PROPERTY RayFrees
