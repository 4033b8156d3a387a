------------------------------ MODULE GridSearch ------------------------------
(***************************************************************************)
(* The planner's A* (grid_astar.hpp) on the grid that maps and clouds have *)
(* built.  plan() runs under the lock of the node, so that no cloud and no *)
(* map changes the grid while it searches.                                 *)
(*                                                                         *)
(* One action takes one node from the queue.  Costs are integers; f uses a *)
(* heuristic in cells beside a cost in metres, so that nothing is assumed  *)
(* of it: cells may be taken, and expanded, more than once.  Two nodes of  *)
(* equal f are taken in either order.                                      *)
(***************************************************************************)
EXTENDS OccupancyGrid

CONSTANTS
  Neighbours,    \* the up to 26 cells around a cell
  StepCost(_, _),
  Heu(_, _),
  Band(_, _),    \* the cells within z_band of a start and a goal
  Rings,         \* cell -> the cubes around it, up to free_snap_radius
  Clamped(_),    \* a position of the grid, brought to the nearest cell
  Aside,         \* cell -> where a shift along y may bring a point of it
  Rank,          \* the order in which a cube is scanned
  Queries,       \* the searches asked for: [from, to, peers]
  MaxIters

ASSUME SearchAssumption ==
  /\ Neighbours \in [Cells -> SUBSET Cells]
  /\ \A c, n \in Cells : StepCost(c, n) \in Nat \ {0} /\ Heu(c, n) \in Nat
  /\ Rings \in [Cells -> Seq(SUBSET Cells)]
  /\ Aside \in [Cells -> SUBSET (Cells \cup {Outside})] /\ Rank \in [Cells -> Nat]
  /\ Queries \subseteq [from : Cells \cup {Outside}, to : Cells \cup {Outside},
                        peers : SUBSET Cells]
  /\ Clamped(Outside) \in Cells /\ MaxIters \in Nat

VARIABLES
  phase,   \* of the search: idle, searching, found, failed
  start,   \* sidx
  goal,    \* gidx
  peers,   \* the cells within peer_radius of a peer
  nodes,   \* nodes: [g, f, parent] of each cell discovered
  open,    \* the queue: pairs of an f and a cell
  iters

searchVars == <<phase, start, goal, peers, nodes, open, iters>>

\* findFreeNearby: the cell itself or the first free one of the smallest cube.
freeNearby(p) ==
  LET c == IF p \in Cells THEN p ELSE Clamped(p)
      free(r) == Rings[c][r] \ inflate
      hits == {r \in DOMAIN Rings[c] : free(r) # {}}
  IN  IF p \in Cells \ inflate THEN {p}
      ELSE {n \in Cells : \E r \in hits :
              /\ \A other \in hits : r <= other
              /\ n \in free(r) /\ \A m \in free(r) : Rank[n] <= Rank[m]}

\* A start or goal in reach of a peer is shifted to and fro, up to twelve times.
shifted(c, peerCells) == IF c \in peerCells THEN Aside[c] ELSE {c}

endpoints(p, peerCells) ==
  UNION {freeNearby(s) : s \in UNION {shifted(c, peerCells) : c \in freeNearby(p)}}

SearchInit ==
  /\ Init
  /\ phase = "idle"
  /\ start = Outside /\ goal = Outside /\ peers = {}
  /\ nodes = << >> /\ open = {} /\ iters = 0

\* search(), up to its loop.  The search starts from the cells of its end points; without
\* a free cell for either it fails at once and leaves nothing behind.
beginSearch(q) ==
  /\ phase = "idle" /\ idle
  /\ \E s \in endpoints(q.from, q.peers), g \in endpoints(q.to, q.peers) :
       /\ start' = s /\ goal' = g
       /\ nodes' = [c \in {s} |-> [g |-> 0, f |-> Heu(s, g), parent |-> Outside]]
       /\ open' = {<<Heu(s, g), s>>}
  /\ peers' = q.peers
  /\ iters' = 0
  /\ phase' = "searching"
  /\ UNCHANGED vars

isBlocked(c) == c \in inflate \/ c \in peers

\* Mutant: a cell of the inflated layer is an obstacle only if it is raw.
steps_Raw(c) ==
  {n \in Neighbours[c] : n \in Band(start, goal) /\ n \notin raw /\ n \notin peers}

steps(c) == {n \in Neighbours[c] : n \in Band(start, goal) /\ ~isBlocked(n)}

\* The neighbours the way over c is new or shorter for.
improved(c) ==
  {n \in steps(c) : n \notin DOMAIN nodes \/ nodes[c].g + StepCost(c, n) < nodes[n].g}

\* The top of the queue.
top(item) == item \in open /\ \A other \in open : item[1] <= other[1]
running == phase = "searching" /\ iters < MaxIters

\* Mutant: a stale item ends the loop.
popStale_Break(item) ==
  /\ running /\ top(item)
  /\ item[1] > nodes[item[2]].f
  /\ phase' = "failed"
  /\ UNCHANGED <<vars, start, goal, peers, nodes, open, iters>>

\* An item whose cell has got a better f since.
popStale(item) ==
  /\ running /\ top(item)
  /\ item[1] > nodes[item[2]].f
  /\ open' = open \ {item}
  /\ iters' = iters + 1
  /\ UNCHANGED <<vars, phase, start, goal, peers, nodes>>

popGoal(item) ==
  /\ running /\ top(item)
  /\ item[1] <= nodes[item[2]].f /\ item[2] = goal
  /\ open' = open \ {item}
  /\ iters' = iters + 1
  /\ phase' = IF start = goal THEN "failed" ELSE "found"
  /\ UNCHANGED <<vars, start, goal, peers, nodes>>

popExpand(item) ==
  LET c == item[2]
      node(n) == [g |-> nodes[c].g + StepCost(c, n),
                  f |-> nodes[c].g + StepCost(c, n) + Heu(n, goal),
                  parent |-> c]
  IN  /\ running /\ top(item)
      /\ item[1] <= nodes[c].f /\ c # goal
      /\ nodes' = [n \in DOMAIN nodes \cup improved(c) |->
                     IF n \in improved(c) THEN node(n) ELSE nodes[n]]
      /\ open' = (open \ {item}) \cup {<<node(n).f, n>> : n \in improved(c)}
      /\ iters' = iters + 1
      /\ UNCHANGED <<vars, phase, start, goal, peers>>

\* The loop ends without the goal.
giveUp ==
  /\ phase = "searching"
  /\ open = {} \/ iters = MaxIters
  /\ phase' = "failed"
  /\ UNCHANGED <<vars, start, goal, peers, nodes, open, iters>>

\* The caller takes the answer.
answered ==
  /\ phase \in {"found", "failed"}
  /\ phase' = "idle"
  /\ start' = Outside /\ goal' = Outside /\ peers' = {}
  /\ nodes' = << >> /\ open' = {} /\ iters' = 0
  /\ UNCHANGED vars

SearchNext ==
  \/ phase = "idle" /\ Next /\ UNCHANGED searchVars
  \/ \E q \in Queries : beginSearch(q)
  \/ \E item \in open : popStale(item) \/ popGoal(item) \/ popExpand(item)
  \/ giveUp \/ answered

SearchSpec == SearchInit /\ [][SearchNext]_<<vars, searchVars>>
-----------------------------------------------------------------------------
\* Every way back along the parents leads to the start, through cells outside the
\* margin of every obstacle and peer: the parent of a cell has a lower cost by a
\* step, however often either was improved, so the walk that builds the path ends.
WayBackIsSafe ==
  \A c \in DOMAIN nodes \ {start} :
     /\ nodes[c].parent \in DOMAIN nodes
     /\ c \in Neighbours[nodes[c].parent]
     /\ nodes[nodes[c].parent].g + StepCost(nodes[c].parent, c) <= nodes[c].g
     /\ c \notin peers /\ c \notin halo(raw)

\* The search fails only if there is no way: what it has discovered is closed under
\* steps and leaves the goal out; or it ran out of iterations, or there is nowhere to
\* go.  However badly the heuristic orders the queue, nothing is given up too early.
FailsRightly ==
  phase = "failed" =>
    \/ iters = MaxIters \/ start = goal
    \/ /\ start \in DOMAIN nodes /\ goal \notin DOMAIN nodes
       /\ \A c \in DOMAIN nodes : steps(c) \subseteq DOMAIN nodes
===============================================================================
