----------------------------- MODULE OccupancyGrid -----------------------------
(***************************************************************************)
(* The occupancy grid of the planner (occupancy_grid.cpp): a layer of raw  *)
(* obstacles and the layer inflated by the safety radius, which A* and the *)
(* collision checks read.  ingestMap builds it in bulk; the local cloud    *)
(* updates it hit by hit, clearing along each ray.                         *)
(*                                                                         *)
(* A layer is the set of its occupied cells.  The geometry comes in as     *)
(* constants: Ball is what a cell inflates to, Cube the neighbourhood      *)
(* integrateRayHit searches, Ray what RayCaster steps through.             *)
(***************************************************************************)
EXTENDS Integers, Sequences, Functions

CONSTANTS
  Cells,
  Ball,        \* cell -> the cells within inflate_cells_ of it
  Cube,        \* cell -> the cells within inflate_cells_ on every axis
  Boundary,    \* the cells sealBoundary fills, at least one layer
  Ray(_, _),   \* the cells from a sensor up to a hit, without the hit
  Outside,     \* a position that worldToIndex refuses
  LocalClouds, \* the clouds the sensor may report: [sensor, hits, clear]
  Voxels       \* the positions of the obstacle cloud

ASSUME BallAssumption ==
  /\ Ball \in [Cells -> SUBSET Cells] /\ Cube \in [Cells -> SUBSET Cells]
  /\ \A n \in Cells : n \in Ball[n] /\ \A c \in Ball[n] : n \in Cube[c]

ASSUME CellsAssumption ==
  /\ Boundary \subseteq Cells /\ Outside \notin Cells
  /\ \A s, h \in Cells : Ray(s, h) \in Seq(Cells)
  /\ Voxels \subseteq Cells \cup {Outside}
  /\ LocalClouds \subseteq [sensor : Cells \cup {Outside},
                            hits : Seq(Cells \cup {Outside}), clear : BOOLEAN]

VARIABLES
  raw,      \* occ_raw_
  inflate,  \* occ_inflate_
  cloud     \* the local cloud being integrated: sensor, hits left, clear

layers == <<raw, inflate>>
vars == <<layers, cloud>>

NoCloud == [sensor |-> Outside, hits |-> <<>>, clear |-> FALSE]
idle == cloud.hits = <<>>

\* inflateAround, for every cell of a set.
halo(cells) == UNION {Ball[n] : n \in cells}

Init == raw = {} /\ inflate = {} /\ cloud = NoCloud

\* setParams, with any parameters; clear.
setParams ==
  /\ idle
  /\ raw' = {} /\ inflate' = {}
  /\ UNCHANGED cloud

addPoint(p) ==
  /\ idle /\ p \in Cells
  /\ raw' = raw \cup {p}
  /\ inflate' = inflate \cup Ball[p]
  /\ UNCHANGED cloud

rebuildInflateLayer ==
  /\ idle
  /\ inflate' = halo(raw)
  /\ UNCHANGED <<raw, cloud>>

\* sealBoundary ends with a rebuild.
sealBoundary ==
  /\ idle
  /\ raw' = raw \cup Boundary
  /\ inflate' = halo(raw')
  /\ UNCHANGED cloud

\* integrateLocalCloud: its loop runs hit by hit below.
integrateLocalCloud(c) ==
  /\ idle
  /\ cloud' = c
  /\ UNCHANGED layers

Hit == Head(cloud.hits)
nextHit ==
  /\ cloud.hits # <<>>
  /\ cloud' = [cloud EXCEPT !.hits = Tail(@)]

swept == Range(Ray(cloud.sensor, Hit))

\* The raw cells found around the ray, each as long as it was not cleared itself.
rawNeighbors ==
  LET ray == Ray(cloud.sensor, Hit)
  IN  {n \in raw : \E k \in DOMAIN ray :
                      n \in Cube[ray[k]] /\ \A j \in 1 .. k : ray[j] # n}

\* Mutant: the halos of the obstacles along the ray are not restored.
integrateRayHit_NoRestore ==
  /\ nextHit
  /\ cloud.clear
  /\ cloud.sensor \in Cells /\ Hit \in Cells
  /\ raw' = (raw \ swept) \cup {Hit}
  /\ inflate' = (inflate \ swept) \cup Ball[Hit]

\* Mutant: only the raw layer is cleared.
integrateRayHit_RawOnly ==
  /\ nextHit
  /\ cloud.clear
  /\ cloud.sensor \in Cells /\ Hit \in Cells
  /\ raw' = (raw \ swept) \cup {Hit}
  /\ inflate' = inflate \cup halo(rawNeighbors) \cup Ball[Hit]

\* Clear both layers along the ray, restore the halos found on the way, mark the hit.
integrateRayHit ==
  /\ nextHit
  /\ cloud.clear
  /\ cloud.sensor \in Cells /\ Hit \in Cells
  /\ raw' = (raw \ swept) \cup {Hit}
  /\ inflate' = (inflate \ swept) \cup halo(rawNeighbors) \cup Ball[Hit]

\* Without clearing, a hit is only marked.
markHit ==
  /\ nextHit
  /\ ~cloud.clear
  /\ Hit \in Cells
  /\ raw' = raw \cup {Hit}
  /\ inflate' = inflate \cup Ball[Hit]

\* A hit outside the grid, or a ray from outside it.
skipHit ==
  /\ nextHit
  /\ Hit \notin Cells \/ (cloud.clear /\ cloud.sensor \notin Cells)
  /\ UNCHANGED layers

Next ==
  \/ setParams \/ rebuildInflateLayer \/ sealBoundary
  \/ \E p \in Voxels : addPoint(p)
  \/ \E c \in LocalClouds : integrateLocalCloud(c)
  \/ integrateRayHit \/ markHit \/ skipHit

Spec == Init /\ [][Next]_vars
-----------------------------------------------------------------------------
\* The safety margin is never eaten into: whatever sequence of maps, rays and hits came
\* in, every cell within the radius of a raw obstacle is occupied for A*.
HaloKept == \A n \in raw : Ball[n] \subseteq inflate

\* What is free is seen free: a ray that met no obstacle leaves no cell on its way
\* occupied except in the halo of an obstacle that is there.
RayFrees ==
  [][ integrateRayHit /\ raw \cap swept = {}
      => swept \cap inflate' \subseteq halo(raw') ]_vars
===============================================================================
