------------------------------ MODULE FogSensing ------------------------------
(***************************************************************************)
(* The fog of Path D: what the vehicle has seen of the map and where the   *)
(* seen borders on the unseen (occupancy.py, local_sensing.py).            *)
(*                                                                         *)
(* A cell is a column of voxels around cruise_z.  It is wider than the      *)
(* radius frontier voxels are clustered in, so that each frontier column   *)
(* is a cluster of its own; Small are the columns whose cluster is dropped *)
(* because it has fewer than frontier_min_size voxels.                     *)
(***************************************************************************)
EXTENDS Integers

CONSTANTS
  Cells,       \* the columns of the grid
  Unheard,     \* None: no odometry yet
  Sensed,      \* the cells within sensing_radius, by where the vehicle is
  Obstacles,   \* the cells with a point of the obstacle cloud
  Halo,        \* the cells within obstacle_inflate of a cell
  Neighbours,  \* the cells next to a cell
  Small        \* the cells dropped as frontiers

ASSUME FogAssumption ==
  /\ Unheard \notin DOMAIN Sensed
  /\ Sensed \in [DOMAIN Sensed -> SUBSET Cells]
  /\ Halo \in [Cells -> SUBSET Cells]
  /\ Neighbours \in [Cells -> SUBSET Cells]
  /\ Obstacles \subseteq Cells /\ Small \subseteq Cells

VARIABLES
  fog,        \* grid
  cloudSeen,  \* _cloud is not None
  sensedAt,   \* _odom of this node
  published   \* the frontiers last published

fogVars == <<fog, cloudSeen, sensedAt, published>>

FogInit ==
  /\ fog = [c \in Cells |-> "unk"]
  /\ cloudSeen = FALSE
  /\ sensedAt = Unheard
  /\ published = {}

\* _on_cloud, with a cloud that is not empty; an empty one is ignored.
onCloud ==
  /\ cloudSeen' = TRUE
  /\ UNCHANGED <<fog, sensedAt, published>>

onSensorOdom(p) ==
  /\ sensedAt' = p
  /\ UNCHANGED <<fog, cloudSeen, published>>

\* reveal: what is near is free, then the obstacles that are near are occupied,
\* and the free cells around them.
reveal ==
  LET near == Sensed[sensedAt]
      seen == IF cloudSeen THEN Obstacles \cap near ELSE {}
      around == UNION {Halo[o] : o \in seen}
  IN  [c \in Cells |-> IF c \in seen \/ (c \in around /\ (c \in near \/ fog[c] = "free"))
                       THEN "occ"
                       ELSE IF c \in near THEN "free" ELSE fog[c]]

\* frontier_clusters: free cells next to unknown ones.
frontiersOf(f) ==
  {c \in Cells \ Small : f[c] = "free" /\ \E n \in Neighbours[c] : f[n] = "unk"}

\* Mutant: the frontiers are those of the grid before the cells are revealed.
senseTick_Stale ==
  /\ sensedAt # Unheard
  /\ fog' = reveal
  /\ published' = frontiersOf(fog)
  /\ UNCHANGED <<cloudSeen, sensedAt>>

\* _tick; without odometry it returns at once.
senseTick ==
  /\ sensedAt # Unheard
  /\ fog' = reveal
  /\ published' = frontiersOf(fog')
  /\ UNCHANGED <<cloudSeen, sensedAt>>

FogTypeOK ==
  /\ fog \in [Cells -> {"unk", "free", "occ"}]
  /\ cloudSeen \in BOOLEAN
  /\ sensedAt \in DOMAIN Sensed \cup {Unheard}
  /\ published \subseteq Cells
===============================================================================
