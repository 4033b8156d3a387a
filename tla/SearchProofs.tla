----------------------------- MODULE SearchProofs -----------------------------
(***************************************************************************)
(* Theorems about OccupancyGrid and GridSearch, for every grid, every      *)
(* radius, every sequence of maps and local clouds, every cost of a step   *)
(* and every heuristic, consistent or not.                                 *)
(***************************************************************************)
EXTENDS GridSearch, TLAPS

(***************************************************************************)
(* The grid.                                                               *)
(***************************************************************************)
\* The layers stay on the grid; HaloKept alone does not say that Ball is applied to
\* cells only.
GridInv ==
  /\ raw \subseteq Cells
  /\ HaloKept
  /\ cloud \in [sensor : Cells \cup {Outside},
                hits : Seq(Cells \cup {Outside}), clear : BOOLEAN]

LEMMA HaloOf ==
  ASSUME NEW cells, NEW n \in cells
  PROVE  Ball[n] \subseteq halo(cells)
BY DEF halo

\* One ray: what it wipes out of the halo of an obstacle that stays, the search around
\* the wiped cell finds and restores.
LEMMA RayKeepsHalo ==
  ASSUME GridInv, integrateRayHit
  PROVE  HaloKept'
<1> SUFFICES ASSUME NEW n \in raw', NEW c \in Ball[n]
             PROVE  c \in inflate'
  BY DEF HaloKept
<1> DEFINE ray == Ray(cloud.sensor, Hit)
<1>1. /\ cloud.sensor \in Cells /\ Hit \in Cells
      /\ raw' = (raw \ swept) \cup {Hit}
      /\ inflate' = (inflate \ swept) \cup halo(rawNeighbors) \cup Ball[Hit]
  BY DEF integrateRayHit
<1>2. CASE n = Hit
  BY <1>1, <1>2
<1>3. CASE n \in raw \ swept
  <2>1. c \in inflate  BY <1>3 DEF GridInv, HaloKept
  <2>2. CASE c \notin swept
    BY <1>1, <2>1, <2>2
  <2>3. CASE c \in swept
    <3>1. PICK k \in DOMAIN ray : c = ray[k]
      BY <2>3 DEF swept, Range
    <3>2. ray \in Seq(Cells)  BY <1>1, CellsAssumption
    <3>3. \A j \in 1 .. k : j \in DOMAIN ray
      BY <3>1, <3>2
    <3>4. \A j \in 1 .. k : ray[j] # n
      BY <1>3, <3>3 DEF swept, Range
    <3>5. n \in Cells  BY <1>3 DEF GridInv
    <3>6. n \in Cube[ray[k]]
      BY <3>1, <3>5, BallAssumption
    <3>7. n \in rawNeighbors
      BY <1>3, <3>1, <3>4, <3>6, Zenon DEF rawNeighbors
    <3> QED  BY <1>1, <3>7, HaloOf
  <2> QED  BY <2>2, <2>3
<1> QED  BY <1>1, <1>2, <1>3

LEMMA GridStep == GridInv /\ [Next]_vars => GridInv'
<1> SUFFICES ASSUME GridInv, [Next]_vars PROVE GridInv'
  OBVIOUS
<1>0. /\ raw \subseteq Cells /\ HaloKept
      /\ cloud \in [sensor : Cells \cup {Outside},
                    hits : Seq(Cells \cup {Outside}), clear : BOOLEAN]
  BY DEF GridInv
<1>1. CASE setParams
  BY <1>0, <1>1 DEF setParams, GridInv, HaloKept
<1>2. CASE rebuildInflateLayer
  BY <1>0, <1>2, HaloOf DEF rebuildInflateLayer, GridInv, HaloKept
<1>3. CASE sealBoundary
  <2>1. raw' \subseteq Cells  BY <1>0, <1>3, CellsAssumption DEF sealBoundary
  <2>2. HaloKept'  BY <1>3, HaloOf DEF sealBoundary, HaloKept
  <2> QED  BY <1>0, <1>3, <2>1, <2>2 DEF sealBoundary, GridInv
<1>4. ASSUME NEW p \in Voxels, addPoint(p) PROVE GridInv'
  BY <1>0, <1>4 DEF addPoint, GridInv, HaloKept
<1>5. ASSUME NEW c \in LocalClouds, integrateLocalCloud(c) PROVE GridInv'
  BY <1>0, <1>5, CellsAssumption DEF integrateLocalCloud, GridInv, HaloKept, layers
<1>6. nextHit => cloud' \in [sensor : Cells \cup {Outside},
                             hits : Seq(Cells \cup {Outside}), clear : BOOLEAN]
  BY <1>0 DEF nextHit
<1>7. CASE integrateRayHit
  <2>1. raw' \subseteq Cells  BY <1>0, <1>7 DEF integrateRayHit
  <2>2. HaloKept'  BY <1>7, RayKeepsHalo
  <2>3. nextHit  BY <1>7 DEF integrateRayHit
  <2> QED  BY <1>6, <2>1, <2>2, <2>3 DEF GridInv
<1>8. CASE markHit
  <2>1. raw' \subseteq Cells  BY <1>0, <1>8 DEF markHit
  <2>2. HaloKept'  BY <1>0, <1>8 DEF markHit, HaloKept
  <2>3. nextHit  BY <1>8 DEF markHit
  <2> QED  BY <1>6, <2>1, <2>2, <2>3 DEF GridInv
<1>9. CASE skipHit
  <2>1. nextHit /\ raw' = raw /\ inflate' = inflate
    BY <1>9 DEF skipHit, layers
  <2> QED  BY <1>0, <1>6, <2>1 DEF GridInv, HaloKept
<1>10. CASE UNCHANGED vars
  BY <1>0, <1>10 DEF vars, layers, GridInv, HaloKept
<1> QED
  BY <1>1, <1>2, <1>3, <1>4, <1>5, <1>7, <1>8, <1>9, <1>10 DEF Next

LEMMA GridInvHolds == Spec => []GridInv
<1>1. Init => GridInv
  BY DEF Init, GridInv, HaloKept, NoCloud
<1> QED  BY <1>1, GridStep, PTL DEF Spec

\* The safety margin survives any sequence of maps and sensor updates.
THEOREM HaloKeptHolds == Spec => []HaloKept
<1>1. GridInv => HaloKept  BY DEF GridInv
<1> QED  BY <1>1, GridInvHolds, PTL

\* A ray through free space leaves nothing occupied on its way but real halos.
THEOREM RayFreesHolds == Spec => RayFrees
<1>1. integrateRayHit /\ raw \cap swept = {}
        => swept \cap inflate' \subseteq halo(raw')
  <2> SUFFICES ASSUME integrateRayHit, raw \cap swept = {},
                      NEW c \in swept, c \in inflate'
               PROVE  c \in halo(raw')
    OBVIOUS
  <2>1. /\ raw' = (raw \ swept) \cup {Hit}
        /\ inflate' = (inflate \ swept) \cup halo(rawNeighbors) \cup Ball[Hit]
    BY DEF integrateRayHit
  <2>2. raw \cup {Hit} = raw'  BY <2>1
  <2>3. rawNeighbors \subseteq raw  BY Zenon DEF rawNeighbors
  <2>4. c \in halo(rawNeighbors) \/ c \in Ball[Hit]  BY <2>1
  <2> QED  BY <2>2, <2>3, <2>4 DEF halo
<1>2. [Next]_vars => [integrateRayHit /\ raw \cap swept = {}
                      => swept \cap inflate' \subseteq halo(raw')]_vars
  BY <1>1
<1> QED  BY <1>2, PTL DEF Spec, RayFrees

-----------------------------------------------------------------------------
(* The search.                                                             *)

\* The grid of a search is the grid of the maps and the clouds.
THEOREM SearchUsesGrid == SearchSpec => Spec
<1>1. SearchInit => Init
  BY DEF SearchInit
<1>2. [SearchNext]_<<vars, searchVars>> => [Next]_vars
  BY DEF SearchNext, beginSearch, popStale, popGoal, popExpand, giveUp, answered
<1> QED  BY <1>1, <1>2, PTL DEF SearchSpec, Spec

\* The safety margin survives maps, rays and searches.
THEOREM SearchKeepsHalo == SearchSpec => []HaloKept
BY SearchUsesGrid, HaloKeptHolds, PTL

\* A ray through free space frees its way, whatever was searched before.
THEOREM SearchRayFrees == SearchSpec => RayFrees
BY SearchUsesGrid, RayFreesHolds, PTL

(***************************************************************************)
(* The nodes.  The cost of a node only ever falls, so that the way back    *)
(* over its parent, once cheaper by a step, stays so.                      *)
(***************************************************************************)
Node == [g : Nat, f : Nat, parent : Cells \cup {Outside}]

NodesInv ==
  /\ phase \in {"idle", "searching", "found", "failed"}
  /\ peers \subseteq Cells
  /\ DOMAIN nodes \subseteq Cells /\ \A c \in DOMAIN nodes : nodes[c] \in Node
  /\ \A item \in open : item[2] \in DOMAIN nodes
  /\ phase = "idle" => nodes = << >> /\ open = {}
  /\ phase # "idle" => /\ start \in Cells /\ goal \in Cells
                       /\ start \in DOMAIN nodes /\ nodes[start].g = 0

WayBack(c) ==
  /\ nodes[c].parent \in DOMAIN nodes
  /\ c \in Neighbours[nodes[c].parent]
  /\ nodes[nodes[c].parent].g + StepCost(nodes[c].parent, c) <= nodes[c].g
  /\ ~isBlocked(c)

SearchInv == GridInv /\ NodesInv /\ \A c \in DOMAIN nodes \ {start} : WayBack(c)

LEMMA EndpointsAreCells ==
  ASSUME NEW p, NEW S
  PROVE  endpoints(p, S) \subseteq Cells
<1>1. \A q : freeNearby(q) \subseteq Cells
  BY DEF freeNearby
<1> QED  BY <1>1 DEF endpoints

LEMMA SearchBegins ==
  ASSUME SearchInv, NEW q \in Queries, beginSearch(q)
  PROVE  NodesInv' /\ (\A c \in DOMAIN nodes \ {start} : WayBack(c))'
<1>1. PICK s \in Cells, g \in Cells :
        /\ start' = s /\ goal' = g
        /\ nodes' = [c \in {s} |-> [g |-> 0, f |-> Heu(s, g), parent |-> Outside]]
        /\ open' = {<<Heu(s, g), s>>}
  BY EndpointsAreCells DEF beginSearch
<1>2. peers' = q.peers /\ phase' = "searching"
  BY DEF beginSearch
<1>3. q.peers \subseteq Cells /\ Heu(s, g) \in Nat
  BY SearchAssumption
<1>4. DOMAIN nodes' = {s} /\ nodes'[s] = [g |-> 0, f |-> Heu(s, g), parent |-> Outside]
  BY <1>1
<1>5. nodes'[s] \in Node /\ nodes'[s].g = 0
  BY <1>3, <1>4 DEF Node
<1>6. NodesInv'
  BY <1>1, <1>2, <1>3, <1>4, <1>5 DEF NodesInv
<1>7. DOMAIN nodes' \ {start'} = {}
  BY <1>1, <1>4
<1> QED  BY <1>6, <1>7

LEMMA ExpandKeeps ==
  ASSUME SearchInv, NEW item \in open, popExpand(item)
  PROVE  NodesInv' /\ (\A c \in DOMAIN nodes \ {start} : WayBack(c))'
<1> DEFINE c == item[2]
           cost(n) == nodes[c].g + StepCost(c, n)
           node(n) == [g |-> cost(n), f |-> cost(n) + Heu(n, goal), parent |-> c]
<1>0. /\ DOMAIN nodes \subseteq Cells /\ \A d \in DOMAIN nodes : nodes[d] \in Node
      /\ c \in DOMAIN nodes /\ c \in Cells /\ peers \subseteq Cells
      /\ phase = "searching" /\ start \in Cells /\ goal \in Cells
      /\ start \in DOMAIN nodes /\ nodes[start].g = 0
  BY DEF SearchInv, NodesInv, popExpand, running
<1>1. /\ DOMAIN nodes' = DOMAIN nodes \cup improved(c)
      /\ \A n \in improved(c) : nodes'[n] = node(n)
      /\ \A n \in DOMAIN nodes \ improved(c) : nodes'[n] = nodes[n]
      /\ open' = (open \ {item}) \cup {<<node(n).f, n>> : n \in improved(c)}
      /\ UNCHANGED <<vars, phase, start, goal, peers>>
  BY DEF popExpand
<1>2. \A n \in improved(c) :
        /\ n \in Cells /\ n \in Neighbours[c] /\ ~isBlocked(n)
        /\ n \notin DOMAIN nodes \/ cost(n) < nodes[n].g
  BY <1>0, SearchAssumption DEF improved, steps
<1>3. /\ nodes[c].g \in Nat
      /\ \A n \in improved(c) : StepCost(c, n) \in Nat \ {0} /\ Heu(n, goal) \in Nat
  BY <1>0, <1>2, SearchAssumption DEF Node
<1>4. \A n \in improved(c) : node(n) \in Node /\ cost(n) \in Nat /\ cost(n) > nodes[c].g
  BY <1>0, <1>3 DEF Node
<1>5. c \notin improved(c) /\ start \notin improved(c)
  BY <1>0, <1>2, <1>3, <1>4
<1>6. \A d \in DOMAIN nodes : nodes'[d].g <= nodes[d].g /\ nodes'[d] \in Node
  <2> TAKE d \in DOMAIN nodes
  <2>1. nodes[d].g \in Nat  BY <1>0 DEF Node
  <2>2. CASE d \in improved(c)
    <3>1. nodes'[d] = node(d) /\ node(d).g = cost(d)
      BY <1>1, <2>2
    <3> QED  BY <1>2, <1>4, <2>1, <2>2, <3>1
  <2>3. CASE d \notin improved(c)
    BY <1>0, <1>1, <2>1, <2>3
  <2> QED  BY <2>2, <2>3
<1>7. NodesInv'
  <2>1. DOMAIN nodes' \subseteq Cells /\ \A d \in DOMAIN nodes' : nodes'[d] \in Node
    BY <1>0, <1>1, <1>2, <1>4, <1>6
  <2>2. \A i \in open' : i[2] \in DOMAIN nodes'
    BY <1>1 DEF SearchInv, NodesInv
  <2>3. nodes'[start].g = 0 /\ start \in DOMAIN nodes'
    BY <1>0, <1>1, <1>5
  <2> QED  BY <1>0, <1>1, <2>1, <2>2, <2>3 DEF NodesInv
<1>8. ASSUME NEW n \in DOMAIN nodes' \ {start} PROVE WayBack(n)'
  <2>1. CASE n \in improved(c)
    <3>1. nodes'[n].parent = c /\ nodes'[n].g = nodes[c].g + StepCost(c, n)
      BY <1>1, <2>1
    <3>2. c \in DOMAIN nodes' /\ nodes'[c] = nodes[c]
      BY <1>0, <1>1, <1>5
    <3>3. ~isBlocked(n)'
      BY <1>1, <1>2, <2>1 DEF isBlocked, vars, layers
    <3>4. nodes'[c].g + StepCost(c, n) <= nodes'[n].g
      BY <1>3, <2>1, <3>1, <3>2
    <3> QED  BY <1>2, <2>1, <3>1, <3>2, <3>3, <3>4 DEF WayBack
  <2>2. CASE n \notin improved(c)
    <3>1. n \in DOMAIN nodes /\ nodes'[n] = nodes[n] /\ WayBack(n)
      BY <1>1, <2>2 DEF SearchInv
    <3> DEFINE p == nodes[n].parent
    <3>2. p \in DOMAIN nodes /\ n \in Neighbours[p] /\ ~isBlocked(n)
          /\ nodes[p].g + StepCost(p, n) <= nodes[n].g
      BY <3>1 DEF WayBack
    <3>3. nodes'[p].g <= nodes[p].g /\ nodes[p].g \in Nat /\ nodes'[p].g \in Nat
      BY <1>0, <1>6, <3>2 DEF Node
    <3>4. StepCost(p, n) \in Nat /\ nodes[n].g \in Nat
      BY <1>0, <3>1, <3>2, SearchAssumption DEF Node
    <3>5. nodes'[p].g + StepCost(p, n) <= nodes'[n].g
      BY <3>1, <3>2, <3>3, <3>4
    <3>6. ~isBlocked(n)' /\ p \in DOMAIN nodes' /\ nodes'[n].parent = p
      BY <1>1, <3>1, <3>2 DEF isBlocked, vars, layers
    <3> QED  BY <3>2, <3>5, <3>6 DEF WayBack
  <2> QED  BY <2>1, <2>2
<1> QED  BY <1>1, <1>7, <1>8

\* While it searches, the grid stays as it is; while it does not, there are no nodes.
LEMMA SearchStep == SearchInv /\ [SearchNext]_<<vars, searchVars>> => SearchInv'
<1> SUFFICES ASSUME SearchInv, [SearchNext]_<<vars, searchVars>> PROVE SearchInv'
  OBVIOUS
<1>0. GridInv'
  <2>1. [Next]_vars
    BY DEF SearchNext, beginSearch, popStale, popGoal, popExpand, giveUp, answered
  <2> QED  BY <2>1, GridStep DEF SearchInv
<1>1. CASE phase = "idle" /\ Next /\ UNCHANGED searchVars
  <2>1. nodes = << >> /\ UNCHANGED searchVars
    BY <1>1 DEF SearchInv, NodesInv
  <2>2. NodesInv'
    BY <2>1 DEF SearchInv, NodesInv, searchVars
  <2>3. DOMAIN nodes' = {}
    BY <2>1 DEF searchVars
  <2> QED  BY <1>0, <2>2, <2>3 DEF SearchInv
<1>2. ASSUME NEW q \in Queries, beginSearch(q) PROVE SearchInv'
  BY <1>0, <1>2, SearchBegins DEF SearchInv
<1>3. ASSUME NEW item \in open, popExpand(item) PROVE SearchInv'
  BY <1>0, <1>3, ExpandKeeps DEF SearchInv
<1>4. CASE (\E item \in open : popStale(item) \/ popGoal(item)) \/ giveUp
  <2>1. /\ UNCHANGED <<vars, start, goal, peers, nodes>> /\ open' \subseteq open
        /\ phase = "searching" /\ phase' \in {"searching", "found", "failed"}
    BY <1>4 DEF popStale, popGoal, giveUp, running
  <2>2. NodesInv'
    BY <2>1 DEF SearchInv, NodesInv
  <2>3. \A c \in DOMAIN nodes \ {start} : WayBack(c) => WayBack(c)'
    BY <2>1 DEF WayBack, isBlocked, vars, layers
  <2> QED  BY <1>0, <2>1, <2>2, <2>3 DEF SearchInv
<1>5. CASE answered
  <2>1. phase' = "idle" /\ nodes' = << >> /\ open' = {} /\ peers' = {}
    BY <1>5 DEF answered
  <2> QED  BY <1>0, <2>1 DEF SearchInv, NodesInv
<1>6. CASE UNCHANGED <<vars, searchVars>>
  <2>1. UNCHANGED searchVars /\ UNCHANGED layers
    BY <1>6 DEF vars
  <2>2. NodesInv'
    BY <2>1 DEF SearchInv, NodesInv, searchVars
  <2>3. \A c \in DOMAIN nodes \ {start} : WayBack(c) => WayBack(c)'
    BY <2>1 DEF WayBack, isBlocked, layers, searchVars
  <2>4. nodes' = nodes /\ start' = start
    BY <2>1 DEF searchVars
  <2> QED  BY <1>0, <2>2, <2>3, <2>4 DEF SearchInv
<1> QED  BY <1>1, <1>2, <1>3, <1>4, <1>5, <1>6 DEF SearchNext

LEMMA SearchInvHolds == SearchSpec => []SearchInv
<1>1. SearchInit => SearchInv
  <2> SUFFICES ASSUME SearchInit PROVE SearchInv
    OBVIOUS
  <2>1. GridInv
    BY DEF SearchInit, Init, GridInv, HaloKept, NoCloud
  <2>2. phase = "idle" /\ nodes = << >> /\ open = {} /\ peers = {}
    BY DEF SearchInit
  <2> QED  BY <2>1, <2>2 DEF SearchInv, NodesInv
<1> QED  BY <1>1, SearchStep, PTL DEF SearchSpec

\* However a cell was reached and improved, the way back from it goes over cells that
\* keep the margin of every obstacle the grid knows, and of every peer.
THEOREM WayBackIsSafeHolds == SearchSpec => []WayBackIsSafe
<1>1. SearchInv => WayBackIsSafe
  <2> SUFFICES ASSUME SearchInv, NEW c \in DOMAIN nodes \ {start}
               PROVE  /\ nodes[c].parent \in DOMAIN nodes
                      /\ c \in Neighbours[nodes[c].parent]
                      /\ nodes[nodes[c].parent].g + StepCost(nodes[c].parent, c)
                            <= nodes[c].g
                      /\ c \notin peers /\ c \notin halo(raw)
    BY DEF WayBackIsSafe
  <2>1. WayBack(c)  BY DEF SearchInv
  <2>2. halo(raw) \subseteq inflate
    BY DEF SearchInv, GridInv, HaloKept, halo
  <2> QED  BY <2>1, <2>2 DEF WayBack, isBlocked
<1> QED  BY <1>1, SearchInvHolds, PTL

(***************************************************************************)
(* Failing rightly.  Every cell discovered has an item in the queue with   *)
(* its present f, or has been expanded; an item that is thrown away as     *)
(* stale is never that one.                                                *)
(***************************************************************************)
Waits(c) == \E item \in open : item[1] = nodes[c].f /\ item[2] = c
Done(c) == c # goal /\ steps(c) \subseteq DOMAIN nodes

FrontInv ==
  /\ FailsRightly
  /\ phase = "searching" => \A c \in DOMAIN nodes : Waits(c) \/ Done(c)

LEMMA ExpandFront ==
  ASSUME SearchInv, FrontInv, NEW item \in open, popExpand(item)
  PROVE  FrontInv'
<1> DEFINE c == item[2]
           node(n) == [g |-> nodes[c].g + StepCost(c, n),
                       f |-> nodes[c].g + StepCost(c, n) + Heu(n, goal),
                       parent |-> c]
<1>0. phase = "searching" /\ phase' = "searching" /\ c # goal /\ c \in DOMAIN nodes
  BY DEF popExpand, running, SearchInv, NodesInv
<1>1. /\ DOMAIN nodes' = DOMAIN nodes \cup improved(c)
      /\ \A n \in improved(c) : nodes'[n] = node(n)
      /\ \A n \in DOMAIN nodes \ improved(c) : nodes'[n] = nodes[n]
      /\ open' = (open \ {item}) \cup {<<node(n).f, n>> : n \in improved(c)}
      /\ UNCHANGED <<vars, start, goal, peers>>
  BY DEF popExpand
<1>2. \A d : steps(d)' = steps(d)
  BY <1>1 DEF steps, isBlocked, vars, layers
<1>3. steps(c) \subseteq DOMAIN nodes'
  BY <1>1 DEF improved
<1>4. ASSUME NEW d \in DOMAIN nodes' PROVE Waits(d)' \/ Done(d)'
  <2>1. CASE d = c
    BY <1>0, <1>1, <1>2, <1>3, <2>1 DEF Done
  <2>2. CASE d \in improved(c)
    <3>1. <<node(d).f, d>> \in open' /\ nodes'[d].f = node(d).f
      BY <1>1, <2>2
    <3> HIDE DEF node
    <3> QED  BY <3>1 DEF Waits
  <2>3. CASE d # c /\ d \notin improved(c)
    <3>1. d \in DOMAIN nodes /\ nodes'[d] = nodes[d]
      BY <1>1, <2>3
    <3>2. CASE Waits(d)
      <4>1. PICK i \in open : i[1] = nodes[d].f /\ i[2] = d
        BY <3>2 DEF Waits
      <4>2. i \in open'
        BY <1>1, <2>3, <4>1
      <4> QED  BY <3>1, <4>1, <4>2 DEF Waits
    <3>3. CASE Done(d)
      BY <1>1, <1>2, <3>3 DEF Done
    <3> QED  BY <1>0, <3>1, <3>2, <3>3 DEF FrontInv
  <2> QED  BY <2>1, <2>2, <2>3
<1> QED  BY <1>0, <1>4 DEF FrontInv, FailsRightly

LEMMA StaleFront ==
  ASSUME SearchInv, FrontInv, NEW item \in open, popStale(item)
  PROVE  FrontInv'
<1>0. /\ phase = "searching" /\ phase' = "searching"
      /\ item[1] > nodes[item[2]].f /\ open' = open \ {item}
      /\ UNCHANGED <<vars, start, goal, peers, nodes>>
  BY DEF popStale, running
<1>1. nodes[item[2]].f \in Nat
  BY DEF SearchInv, NodesInv, Node
<1>2. ASSUME NEW d \in DOMAIN nodes PROVE Waits(d)' \/ Done(d)'
  <2>1. CASE Waits(d)
    <3>1. PICK i \in open : i[1] = nodes[d].f /\ i[2] = d
      BY <2>1 DEF Waits
    <3>2. i # item
      BY <1>0, <1>1, <3>1
    <3> QED  BY <1>0, <3>1, <3>2 DEF Waits
  <2>2. CASE Done(d)
    BY <1>0, <2>2 DEF Done, steps, isBlocked, vars, layers
  <2> QED  BY <1>0, <2>1, <2>2 DEF FrontInv
<1> QED  BY <1>0, <1>2 DEF FrontInv, FailsRightly

LEMMA GivesUpRightly ==
  ASSUME SearchInv, FrontInv, giveUp
  PROVE  FrontInv'
<1>1. phase' = "failed" /\ phase = "searching"
  BY DEF giveUp
<1>2. CASE open = {}
  <2>1. \A c \in DOMAIN nodes : Done(c)
    BY <1>1, <1>2 DEF FrontInv, Waits
  <2>2. start \in DOMAIN nodes
    BY <1>1 DEF SearchInv, NodesInv
  <2>3. goal \notin DOMAIN nodes
    BY <2>1 DEF Done
  <2>4. \A c : steps(c)' = steps(c)
    BY DEF giveUp, steps, isBlocked, vars, layers
  <2>5. UNCHANGED <<start, goal, nodes>>
    BY DEF giveUp
  <2>6. \A c \in DOMAIN nodes' : steps(c)' \subseteq DOMAIN nodes'
    BY <2>1, <2>4, <2>5 DEF Done
  <2> QED  BY <1>1, <2>2, <2>3, <2>5, <2>6 DEF FrontInv, FailsRightly
<1>3. CASE iters = MaxIters
  <2>1. iters' = MaxIters  BY <1>3 DEF giveUp
  <2> QED  BY <1>1, <2>1 DEF FrontInv, FailsRightly
<1> QED  BY <1>2, <1>3 DEF giveUp

\* A search that fails without being out of iterations has been everywhere it can go,
\* whatever the heuristic made it look at first and however often.
THEOREM FailsRightlyHolds == SearchSpec => []FailsRightly
<1>1. SearchInit => FrontInv
  BY DEF SearchInit, FrontInv, FailsRightly
<1>2. SearchInv /\ FrontInv /\ [SearchNext]_<<vars, searchVars>> => FrontInv'
  <2> SUFFICES ASSUME SearchInv, FrontInv, [SearchNext]_<<vars, searchVars>>
               PROVE  FrontInv'
    OBVIOUS
  <2>1. CASE phase = "idle" /\ UNCHANGED searchVars
    BY <2>1 DEF searchVars, FrontInv, FailsRightly
  <2>2. ASSUME NEW q \in Queries, beginSearch(q) PROVE FrontInv'
    <3>1. PICK s \in Cells, g \in Cells :
            /\ nodes' = [c \in {s} |-> [g |-> 0, f |-> Heu(s, g), parent |-> Outside]]
            /\ open' = {<<Heu(s, g), s>>}
      BY <2>2, EndpointsAreCells DEF beginSearch
    <3>2. phase' = "searching"  BY <2>2 DEF beginSearch
    <3>3. DOMAIN nodes' = {s} /\ nodes'[s].f = Heu(s, g)
      BY <3>1
    <3>4. Waits(s)'
      BY <3>1, <3>3 DEF Waits
    <3> QED  BY <3>2, <3>3, <3>4 DEF FrontInv, FailsRightly
  <2>3. ASSUME NEW item \in open, popExpand(item) PROVE FrontInv'
    BY <2>3, ExpandFront
  <2>4. ASSUME NEW item \in open, popStale(item) PROVE FrontInv'
    BY <2>4, StaleFront
  <2>5. ASSUME NEW item \in open, popGoal(item) PROVE FrontInv'
    <3>1. /\ phase' = (IF start = goal THEN "failed" ELSE "found")
          /\ start' = start /\ goal' = goal
      BY <2>5 DEF popGoal
    <3> QED  BY <3>1 DEF FrontInv, FailsRightly
  <2>6. CASE giveUp
    BY <2>6, GivesUpRightly
  <2>7. CASE answered
    BY <2>7 DEF answered, FrontInv, FailsRightly
  <2>8. CASE UNCHANGED <<vars, searchVars>>
    <3>1. UNCHANGED <<phase, start, goal, peers, nodes, open, iters, inflate>>
      BY <2>8 DEF vars, layers, searchVars
    <3>2. \A c : steps(c)' = steps(c)
      BY <3>1 DEF steps, isBlocked
    <3>3. \A c : (Waits(c) <=> Waits(c)') /\ (Done(c) <=> Done(c)')
      BY <3>1, <3>2 DEF Waits, Done
    <3> QED  BY <3>1, <3>2, <3>3 DEF FrontInv, FailsRightly
  <2> QED
    BY <2>1, <2>2, <2>3, <2>4, <2>5, <2>6, <2>7, <2>8 DEF SearchNext
<1>3. FrontInv => FailsRightly
  BY DEF FrontInv
<1> QED  BY <1>1, <1>2, <1>3, SearchInvHolds, PTL DEF SearchSpec
===============================================================================
