-------------------------------- MODULE Voxels --------------------------------
(***************************************************************************)
(* Voxel indices and the axis a ray crosses next (raycast.cpp).            *)
(*                                                                         *)
(* A ray runs from index to index, so that the time of its next crossing   *)
(* of an axis is (crossings so far + 1) / |distance|: the fractions are    *)
(* compared by cross-multiplication, and an axis without distance is never *)
(* crossed.  The floating-point sums of the code may round a tie either    *)
(* way, so every axis with the least time may be the next one.             *)
(***************************************************************************)
EXTENDS Integers

Axis == {"x", "y", "z"}
Voxel == [Axis -> Int]

Abs(n) == IF n < 0 THEN -n ELSE n
signum(n) == IF n = 0 THEN 0 ELSE IF n < 0 THEN -1 ELSE 1

\* The voxels from s to e on an axis.
span(s, e, a) == e[a] - s[a]

\* t_max of axis a is not after that of axis b.
sooner(s, e, crossed, a, b) ==
  /\ span(s, e, a) # 0
  /\ \/ span(s, e, b) = 0
     \/ (crossed[a] + 1) * Abs(span(s, e, b)) <= (crossed[b] + 1) * Abs(span(s, e, a))

\* The axes step() may cross next.
nextAxes(s, e, crossed) == {a \in Axis : \A b \in Axis : sooner(s, e, crossed, a, b)}
===============================================================================
