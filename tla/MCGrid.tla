-------------------------------- MODULE MCGrid --------------------------------
(***************************************************************************)
(* A grid of 7 x 4 cells in one layer, inflated by one cell, with the rays *)
(* RayCaster gives.                                                        *)
(***************************************************************************)
EXTENDS GridSearch, TLC

V == INSTANCE Voxels

MCCells == (0 .. 6) \X (0 .. 3)
MCOutside == <<7, 4>>

near(c, n) == <<V!Abs(c[1] - n[1]), V!Abs(c[2] - n[2])>>
MCCube == [n \in MCCells |-> {c \in MCCells : near(c, n)[1] <= 1 /\ near(c, n)[2] <= 1}]
MCBall == [n \in MCCells |-> {c \in MCCube[n] : near(c, n)[1] + near(c, n)[2] <= 1}]
MCBoundary == {<<6, 3>>}
MCVoxels == {<<2, 0>>, <<2, 1>>, <<5, 3>>, MCOutside}

\* The cells RayCaster emits, with the ties broken as the code does.
voxel(c) == "x" :> c[1] @@ "y" :> c[2] @@ "z" :> 0
RECURSIVE walk(_, _, _, _)
walk(s, e, cell, crossed) ==
  IF cell = e THEN <<>>
  ELSE LET axes == V!nextAxes(s, e, crossed)
           a == IF "z" \in axes THEN "z" ELSE IF "y" \in axes THEN "y" ELSE "x"
       IN  <<(<<cell["x"], cell["y"]>>)>> \o
           walk(s, e, [cell EXCEPT ![a] = @ + V!signum(V!span(s, e, a))],
                [crossed EXCEPT ![a] = @ + 1])
MCRay(s, h) == walk(voxel(s), voxel(h), voxel(s), [a \in V!Axis |-> 0])

\* Clouds of up to two hits, along and across the obstacles.
MCClouds ==
  [sensor : {<<0, 0>>}, hits : {<<h>> : h \in {<<6, 0>>, <<4, 2>>, <<2, 3>>}}, clear : BOOLEAN]
  \cup {[sensor |-> <<1, 1>>, hits |-> <<<<1, 3>>, <<2, 0>>>>, clear |-> TRUE],
        [sensor |-> MCOutside, hits |-> <<<<1, 1>>>>, clear |-> TRUE],
        [sensor |-> <<6, 2>>, hits |-> <<MCOutside, <<0, 2>>>>, clear |-> TRUE]}

MCNeighbours == [n \in MCCells |-> MCCube[n] \ {n}]

\* A step in tenths of a metre, and a heuristic in cells, which is four times as
\* long at a resolution of a quarter of a metre.
MCStep(c, n) == IF c[1] # n[1] /\ c[2] # n[2] THEN 7 ELSE 5
MCHeu(c, n) ==
  LET d == near(c, n)
      long == IF d[1] < d[2] THEN d[2] ELSE d[1]
      short == IF d[1] < d[2] THEN d[1] ELSE d[2]
  IN  20 * long + 8 * short
MCBand(s, g) == MCCells
MCRings ==
  [n \in MCCells |->
     [r \in 1 .. 2 |-> {c \in MCCells : near(c, n)[1] <= r /\ near(c, n)[2] <= r}]]
MCClamped(p) == <<6, 3>>
MCAside == [n \in MCCells |-> {c \in MCCells : c[1] = n[1] /\ c # n} \cup {MCOutside}]
MCRank == [n \in MCCells |-> 4 * n[1] + n[2]]
MCQueries ==
  {[from |-> <<0, 0>>, to |-> <<6, 1>>, peers |-> {}],
   [from |-> <<0, 2>>, to |-> MCOutside, peers |-> {}],
   [from |-> <<6, 0>>, to |-> <<0, 3>>, peers |-> {<<0, 3>>}]}
===============================================================================
