------------------------------- MODULE MCExplore -------------------------------
(***************************************************************************)
(* A box of 5 x 2 columns with an obstacle in it, at the low end of a      *)
(* workspace of 9 columns (cmd_bound is 4, around column 4), and two places *)
(* EGO may run away to: one just outside the workspace, next to some goals, *)
(* and one inside it, further than cmd_bound from every goal.              *)
(***************************************************************************)
EXTENDS Exploration, FiniteSets

Width == 5
Depth == 2
MCCells == (0 .. Width - 1) \X (0 .. Depth - 1)
MCOutside == <<-1, 0>>
MCFar == <<8, 0>>
MCRunaways == {MCOutside, MCFar}
MCPlaces == MCCells \cup MCRunaways
MCNone == <<>>
abs(n) == IF n < 0 THEN -n ELSE n
MCDist(p, q) == abs(p[1] - q[1]) + abs(p[2] - q[2])

\* _clamp_to_box pulls the last column in by one cell, which is far more than the
\* 0.3 m of the code, so that a clamped goal can be told from its frontier.
MCClamp == [p \in MCPlaces |->
              <<IF p[1] > Width - 2 THEN Width - 2 ELSE IF p[1] < 0 THEN 0 ELSE p[1], p[2]>>]
MCSeeds == [p \in MCPlaces |-> {MCClamp[<<x, p[2]>>] : x \in {p[1] + 2, p[1] + 3} \cap 0 .. Width - 1}
                                 \cup (IF p[1] + 2 >= Width THEN {MCClamp[p]} ELSE {})]

MCSensed == [p \in MCPlaces |-> {c \in MCCells : MCDist(p, c) <= 2}]
MCObstacles == {<<2, 1>>}
MCHalo == [c \in MCCells |-> {c}]
MCNeighbours == [c \in MCCells |-> {n \in MCCells : MCDist(c, n) = 1}]
MCSmall == {}
MCHome == <<0, 0>>
MCWorkspace == MCCells \cup {MCFar}

\* Along the free row, then sideways; never into the obstacle.
MCRoute ==
  [p \in MCWorkspace |-> [g \in MCPlaces |->
     LET step(d) == IF d > 0 THEN 1 ELSE IF d < 0 THEN -1 ELSE 0
         next == IF p[1] = g[1] THEN <<p[1], p[2] + step(g[2] - p[2])>>
                 ELSE IF p[2] # 0 THEN <<p[1], 0>>
                 ELSE <<p[1] + step(g[1] - p[1]), 0>>
     IN  IF next \in MCCells \ MCObstacles THEN next ELSE p]]
===============================================================================
