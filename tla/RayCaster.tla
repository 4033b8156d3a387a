------------------------------ MODULE RayCaster ------------------------------
(***************************************************************************)
(* The voxel traversal behind local mapping (raycast.cpp): setInput starts *)
(* a ray, each step emits the voxel the ray is in and crosses into the     *)
(* next, until it refuses.                                                 *)
(***************************************************************************)
EXTENDS Voxels

CONSTANT Inputs   \* the indices rays run between

ASSUME InputsAssumption == Inputs \subseteq Voxel

VARIABLES
  start,    \* start_
  end,      \* end_
  cell,     \* x_, y_, z_
  crossed,  \* how often each t_max_ has been moved on by its t_delta_
  running   \* setInput said yes and step has not said no

vars == <<start, end, cell, crossed, running>>

Init ==
  /\ start \in Inputs /\ end = start /\ cell = start
  /\ crossed = [a \in Axis |-> 0]
  /\ running = FALSE

setInput(s, e) ==
  /\ ~running
  /\ start' = s /\ end' = e /\ cell' = s
  /\ crossed' = [a \in Axis |-> 0]
  /\ running' = (s # e)

\* Squared length, from the start.
lengthSq(v) == LET sq(a) == (v[a] - start[a]) * (v[a] - start[a])
               IN  sq("x") + sq("y") + sq("z")
over == cell = end \/ lengthSq(cell) > lengthSq(end)

\* Mutant: step() always walks up the axis.
stepAcross_Up(a) ==
  /\ running /\ ~over
  /\ a \in nextAxes(start, end, crossed)
  /\ cell' = [cell EXCEPT ![a] = @ + 1]
  /\ crossed' = [crossed EXCEPT ![a] = @ + 1]
  /\ UNCHANGED <<start, end, running>>

\* Mutant: the crossing time of the axis is not moved on.
stepAcross_NoDelta(a) ==
  /\ running /\ ~over
  /\ a \in nextAxes(start, end, crossed)
  /\ cell' = [cell EXCEPT ![a] = @ + signum(span(start, end, a))]
  /\ UNCHANGED <<start, end, crossed, running>>

stepAcross(a) ==
  /\ running /\ ~over
  /\ a \in nextAxes(start, end, crossed)
  /\ cell' = [cell EXCEPT ![a] = @ + signum(span(start, end, a))]
  /\ crossed' = [crossed EXCEPT ![a] = @ + 1]
  /\ UNCHANGED <<start, end, running>>

\* step() refuses: at the end, or further away than the end.
stepOver ==
  /\ running /\ over
  /\ running' = FALSE
  /\ UNCHANGED <<start, end, cell, crossed>>

step == stepOver \/ \E a \in Axis : stepAcross(a)

Next == step \/ \E s, e \in Inputs : setInput(s, e)
Spec == Init /\ [][Next]_vars
-----------------------------------------------------------------------------
\* How far the ray has gone on an axis, in its own direction.
gone(a) == signum(span(start, end, a)) * (cell[a] - start[a])

\* The ray never leaves the box spanned by its ends: no voxel behind the hit and none
\* outside the grid is ever cleared, and a ray takes no more steps than the box has.
InBox == \A a \in Axis : gone(a) \in 0 .. Abs(span(start, end, a))

\* The ray stays within one voxel of the straight line, whatever the rounding.
HugsLine ==
  \A a, b \in Axis :
    LET da == Abs(span(start, end, a))
        db == Abs(span(start, end, b))
    IN  gone(a) * db - gone(b) * da <= IF da > db THEN da ELSE db

\* step() stops nowhere but at the hit: the distance test never cuts a ray short.
StopsAtEnd == [][ running /\ running' = FALSE => cell = end ]_vars
===============================================================================
