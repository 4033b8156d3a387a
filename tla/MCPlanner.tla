------------------------------ MODULE MCPlanner ------------------------------
(***************************************************************************)
(* Small instances of PlannerFsm: a line of four or five points.           *)
(***************************************************************************)
EXTENDS PlannerFsm

\* One voxel, at point 2, in a box over the whole line.
MCVoxels == [c \in Clouds |-> 1]
MCCloudEnd == [c \in Clouds |-> Last]
MCBlocked == [c \in Clouds |-> {2}]

\* Nothing in the way.
MCOpen == [c \in Clouds |-> {}]

\* A cloud whose box ends before the goals do.
MCShortEnd == [c \in Clouds |-> 2]

\* An obstacle over the last two points: the nearest free one is close to a goal
\* at point 3, and displaced from one at point 4.
MCWall == [c \in Clouds |-> {3, 4}]
==============================================================================
