---------------------------- MODULE ExplorationFsm ----------------------------
(***************************************************************************)
(* The exploration state machine of Path D (exploration_fsm.py): started by *)
(* an operator's goal, it sends the vehicle from frontier to frontier until *)
(* it finds none that is worth the flight.                                 *)
(*                                                                         *)
(* The node is single threaded; each callback is one action.  Times are in *)
(* periods of its timer.  Which candidate scores best is left open.        *)
(***************************************************************************)
EXTENDS Integers

CONSTANTS
  Places,        \* where the vehicle, a frontier or a goal may be
  NoPlace,       \* None
  Dist(_, _),    \* the distance of two places
  InBox,         \* the places _in_box accepts
  Clamp,         \* _clamp_to_box, on a smaller box than that of _in_box
  ForwardSeeds,  \* _forward_seeds, by where the vehicle is
  Seedings,      \* the values seed_viewpoints may be given
  ArriveTol,     \* arrive_tol
  MinTravel,     \* min_travel_m
  MinSep,        \* min_goal_sep
  MinRange,      \* min_range, from the vehicle to a candidate
  ClampShift,    \* the furthest _clamp_to_box moves a place of InBox
  Cooldown,      \* goal_cooldown
  MaxGoals,      \* max_goals
  IdleEmpty,     \* idle ticks before it ends without frontiers (5)
  IdleStalled    \* idle ticks before it ends with some (15)

ASSUME PlacesAssumption ==
  /\ NoPlace \notin Places
  /\ \A p, q \in Places : Dist(p, q) \in Nat /\ Dist(p, q) = Dist(q, p)
  /\ \A p, q, r \in Places : Dist(p, r) <= Dist(p, q) + Dist(q, r)

ASSUME BoxAssumption ==
  /\ InBox \subseteq Places
  /\ Clamp \in [Places -> Places]
  /\ \A p \in InBox : Dist(p, Clamp[p]) <= ClampShift
  /\ ForwardSeeds \in [Places -> SUBSET InBox]

ASSUME ExploreAssumption ==
  /\ Seedings \subseteq BOOLEAN
  /\ {ArriveTol, MinTravel, MinSep, MinRange, ClampShift, Cooldown, MaxGoals} \subseteq Nat
  /\ {IdleEmpty, IdleStalled} \subseteq Nat \ {0}

VARIABLES
  seeding,    \* seed_viewpoints
  state,      \* state
  odom,       \* _odom
  frontiers,  \* _frontiers: the centroids
  current,    \* _current
  origin,     \* _goal_origin
  sentAge,    \* the timer periods since _goal_sent_at
  visited,    \* _visited
  goalCount,  \* _goal_count
  idleTicks,  \* _idle_ticks
  ended,      \* the reason in the last FINISHED status
  sent        \* history: the goals sent since _visited was last cleared

goalVars == <<current, origin, sentAge, goalCount, sent>>
fsmVars == <<seeding, state, odom, frontiers, goalVars, visited, idleTicks, ended>>

FsmInit ==
  /\ seeding \in Seedings
  /\ state = "IDLE" /\ ended = "not"
  /\ odom = NoPlace /\ frontiers = {}
  /\ current = NoPlace /\ origin = NoPlace /\ sentAge = Cooldown
  /\ visited = {} /\ goalCount = 0 /\ idleTicks = 0
  /\ sent = {}

-----------------------------------------------------------------------------
onOdom(p) ==
  /\ odom' = p
  /\ UNCHANGED <<seeding, state, frontiers, goalVars, visited, idleTicks, ended>>

onFrontiers(places) ==
  /\ frontiers' = places
  /\ UNCHANGED <<seeding, state, odom, goalVars, visited, idleTicks, ended>>

\* _candidates: the frontiers in the box or, if there is none, the seeds.
candidates ==
  IF frontiers \cap InBox = {} /\ seeding THEN ForwardSeeds[odom]
  ELSE frontiers \cap InBox

\* collect(), with no current goal, as in every call: neither near a goal visited
\* nor near the vehicle.  If that leaves nothing, the seeds, unfiltered.
choices(vis) ==
  LET collected == {c \in candidates : /\ Dist(c, odom) >= MinRange
                                       /\ \A v \in vis : Dist(c, v) >= MinSep}
  IN  IF collected = {} /\ seeding THEN ForwardSeeds[odom] ELSE collected

\* _pick_and_send, with the goals visited and sent so far: it fails without
\* odometry, ends the exploration at the limit, and fails without a choice.
mayPick(n) == odom # NoPlace /\ n < MaxGoals
sends(vis, n, before) ==
  /\ mayPick(n)
  /\ \E c \in choices(vis) :
       /\ current' = Clamp[c]
       /\ sent' = before \cup {Clamp[c]}
  /\ origin' = odom
  /\ sentAge' = 0
  /\ goalCount' = n + 1
fails(vis, n) == mayPick(n) => choices(vis) = {}
capped(n) == odom # NoPlace /\ n >= MaxGoals

\* _on_trigger; a trigger while exploring is ignored.
onTrigger ==
  LET again == state = "FINISHED"
      vis == IF again THEN {} ELSE visited
      before == IF again THEN {} ELSE sent
      n == IF again THEN 0 ELSE goalCount
  IN  /\ state # "EXPLORE"
      /\ visited' = vis
      /\ idleTicks' = 0
      /\ \/ sends(vis, n, before) /\ state' = "EXPLORE" /\ UNCHANGED ended
         \/ /\ fails(vis, n)
            /\ state' = IF capped(n) THEN "FINISHED" ELSE "EXPLORE"
            /\ ended' = IF capped(n) THEN "max_goals" ELSE ended
            /\ current' = NoPlace /\ origin' = NoPlace
            /\ goalCount' = n /\ sent' = before
            /\ UNCHANGED sentAge
      /\ UNCHANGED <<seeding, odom, frontiers>>

exploring == state = "EXPLORE" /\ odom # NoPlace

\* Mutant: the way flown is compared with the distance goals start at.
arrived_MinRange ==
  current # NoPlace =>
    /\ Dist(odom, current) <= ArriveTol
    /\ sentAge >= Cooldown
    /\ Dist(odom, origin) > MinRange

\* The goal is reached: the vehicle is near, has had its time and has moved.
arrived ==
  current # NoPlace =>
    /\ Dist(odom, current) <= ArriveTol
    /\ sentAge >= Cooldown
    /\ Dist(odom, origin) >= MinTravel

older == IF sentAge < Cooldown THEN sentAge + 1 ELSE sentAge

\* Mutant: a goal that is reached is not remembered.
reachedSet_Forget == visited

\* The goals visited once the current one is.
reachedSet == visited \cup ({current} \ {NoPlace})

\* _tick on the way to a goal.
tickWait ==
  /\ exploring /\ ~arrived
  /\ sentAge' = older
  /\ UNCHANGED <<seeding, state, odom, frontiers, current, origin, goalCount, sent,
                 visited, idleTicks, ended>>

\* _tick sends the next goal.
tickSend ==
  /\ exploring /\ arrived
  /\ visited' = reachedSet
  /\ sends(reachedSet, goalCount, sent)
  /\ idleTicks' = 0
  /\ UNCHANGED <<seeding, state, odom, frontiers, ended>>

\* Mutant: the exploration ends without frontiers or not at all.
tickIdle_NoStall ==
  /\ exploring /\ arrived
  /\ visited' = reachedSet
  /\ fails(reachedSet, goalCount)
  /\ idleTicks' = idleTicks + 1
  /\ IF idleTicks' >= IdleEmpty /\ frontiers = {}
     THEN ended' = "no frontiers" /\ state' = "FINISHED"
     ELSE UNCHANGED <<ended, state>>
  /\ current' = NoPlace
  /\ sentAge' = older
  /\ UNCHANGED <<seeding, odom, frontiers, origin, goalCount, sent>>

\* _tick finds nothing to send, and may end the exploration.
tickIdle ==
  /\ exploring /\ arrived
  /\ visited' = reachedSet
  /\ fails(reachedSet, goalCount)
  /\ idleTicks' = idleTicks + 1
  /\ CASE idleTicks' >= IdleEmpty /\ frontiers = {} -> ended' = "no frontiers"
       [] idleTicks' >= IdleStalled
            /\ ~(idleTicks' >= IdleEmpty /\ frontiers = {}) -> ended' = "stalled"
       [] idleTicks' < IdleStalled
            /\ ~(idleTicks' >= IdleEmpty /\ frontiers = {}) ->
            ended' = IF capped(goalCount) THEN "max_goals" ELSE ended
  /\ state' = IF \/ capped(goalCount)
                 \/ idleTicks' >= IdleEmpty /\ frontiers = {}
                 \/ idleTicks' >= IdleStalled
              THEN "FINISHED" ELSE "EXPLORE"
  /\ current' = NoPlace
  /\ sentAge' = older
  /\ UNCHANGED <<seeding, odom, frontiers, origin, goalCount, sent>>

tick == tickWait \/ tickSend \/ tickIdle
-----------------------------------------------------------------------------
FsmTypeOK ==
  /\ seeding \in BOOLEAN
  /\ state \in {"IDLE", "EXPLORE", "FINISHED"}
  /\ ended \in {"not", "max_goals", "no frontiers", "stalled"}
  /\ odom \in Places \cup {NoPlace}
  /\ frontiers \subseteq Places
  /\ current \in Places \cup {NoPlace} /\ origin \in Places \cup {NoPlace}
  /\ sentAge \in 0 .. Cooldown
  /\ visited \subseteq Places /\ sent \subseteq Places
  /\ goalCount \in 0 .. MaxGoals
  /\ idleTicks \in 0 .. IdleStalled
===============================================================================
