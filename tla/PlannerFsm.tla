------------------------------ MODULE PlannerFsm ------------------------------
(***************************************************************************)
(* The drone_planner node (planner_node.cpp): when it plans, on which map, *)
(* towards which goal, and what it lets the vehicle follow meanwhile.      *)
(*                                                                         *)
(* Two threads share the node under mtx_.  The control thread runs the     *)
(* odometry and goal callbacks and the timer, one at a time; the map thread *)
(* runs the two map callbacks.  Each stretch of code under the lock is one *)
(* action.  onTimer drops the lock before it plans and takes it again      *)
(* afterwards, and the map thread may get in at both places.               *)
(*                                                                         *)
(* Space is a line of points two units apart, so that odd tolerances never *)
(* tie; a path is where it ends, and it is flown one point at a time.       *)
(* Whether A* finds a route, an obstacle comes close or a peer crosses the  *)
(* path is left open.                                                      *)
(***************************************************************************)
EXTENDS Integers

CONSTANTS
  Last,           \* the points are 0 .. Last
  Goals,          \* the goals that may be sent
  MoveMin,        \* a goal that moves less (0.2 m) does not ask for a plan
  GoalTol,        \* goal_tolerance
  DisplacedTol,   \* a path ending further from its goal is displaced (2 cells)
  ReplanDist,     \* replan_dist
  SnapRadius,     \* free_snap_radius, in points
  Clouds,         \* the obstacle clouds that may be published
  Voxels,         \* the number of voxels of a cloud
  CloudEnd,       \* the last point its bounding box covers
  Blocked,        \* the points its obstacles inflate to
  MinReplan,      \* min_replan_interval_sec, in timer periods
  Recovery,       \* emergency_recovery_sec
  Grace,          \* safety_grace_sec
  Cooldown,       \* replan_cooldown_sec
  ExecSafety,     \* execution_safety_enable
  LocalMapping,   \* local_mapping_enable
  Peers,          \* peer vehicles are near
  Outcomes        \* how a planning attempt on a map may end

Points == 0 .. Last
NoPoint == -1

ASSUME SpaceAssumption ==
  /\ Last \in Nat
  /\ Goals \subseteq Points
  /\ {MoveMin, GoalTol, DisplacedTol, ReplanDist, SnapRadius} \subseteq Nat
  /\ GoalTol > 0

ASSUME CloudAssumption ==
  /\ Voxels \in [Clouds -> Nat]
  /\ CloudEnd \in [Clouds -> Points]
  /\ Blocked \in [Clouds -> SUBSET Points]

ASSUME PeriodAssumption == {MinReplan, Recovery, Grace, Cooldown} \subseteq Nat

ASSUME SwitchAssumption ==
  /\ {ExecSafety, LocalMapping, Peers} \subseteq BOOLEAN
  /\ Outcomes \subseteq {"path", "noRoute", "invalid"}

VARIABLES
  pos,        \* odom_
  haveOdom,   \* have_odom_
  goal,       \* goal_, or NoPoint while have_goal_ is false
  map,        \* the installed map, or NoMap while have_map_ is false
  hits,       \* points the local cloud marked in grid_
  ingest,     \* map thread: the map being built off the lock, or NoMap
  needReplan, \* need_replan_
  state,      \* state_
  traj,       \* traj_: where it ends, or NoPoint when it is empty
  displaced,  \* goal_displaced_
  out,        \* the last local goal published, or NoPoint
  pc,         \* control thread: "idle", "unlocked" before plan(), "planned" after
  planOk,     \* ok, the result of plan()
  timerDue,   \* the timer has not fired since the last tick
  planAge,    \* age of last_plan_time_, in periods
  trajAge,    \* age of traj_start_
  stopAge,    \* age of emergency_since_
  safetyAge,  \* age of last_safety_replan_
  plannedFor, \* history: the goal traj_ was planned for
  condemned   \* history: an emergency stop since the last good plan

envVars == <<pos, haveOdom, goal>>
mapVars == <<map, hits, ingest>>
pathVars == <<traj, displaced, plannedFor, condemned>>
ageVars == <<planAge, trajAge, stopAge, safetyAge>>
vars == <<envVars, mapVars, pathVars, ageVars,
          needReplan, state, out, pc, planOk, timerDue>>

NoMap == [cloud |-> "none", end |-> NoPoint]
Map == [cloud : Clouds, end : Points]
State == {"INIT", "WAIT_TARGET", "GEN_NEW_TRAJ", "EXEC_TRAJ", "REPLAN_TRAJ",
          "EMERGENCY_STOP", "FAIL"}

Dist(p, q) == 2 * (IF p < q THEN q - p ELSE p - q)
Later(p, q) == IF p < q THEN q ELSE p
Towards(p, q) == IF p < q THEN p + 1 ELSE IF p > q THEN p - 1 ELSE p
Older(age, cap) == IF age < cap THEN age + 1 ELSE cap

Init ==
  /\ pos = 0 /\ haveOdom = FALSE /\ goal = NoPoint
  /\ map = NoMap /\ hits = {} /\ ingest = NoMap
  /\ needReplan = FALSE /\ state = "INIT"
  /\ traj = NoPoint /\ displaced = FALSE
  /\ plannedFor = NoPoint /\ condemned = FALSE
  /\ out = NoPoint
  /\ pc = "idle" /\ planOk = FALSE /\ timerDue = TRUE
  /\ planAge = MinReplan /\ trajAge = Grace /\ stopAge = Recovery
  /\ safetyAge = Cooldown

-----------------------------------------------------------------------------
(* The subscriptions of the control thread.                                *)

\* The odometry subscription: the vehicle flies towards the last local goal,
\* or stays.
onOdom ==
  /\ pc = "idle"
  /\ haveOdom' = TRUE
  /\ pos' \in {pos, IF out = NoPoint THEN pos ELSE Towards(pos, out)}
  /\ UNCHANGED <<goal, mapVars, pathVars, ageVars,
                 needReplan, state, out, pc, planOk, timerDue>>

\* Mutant: a new goal does not ask for a plan.
onGoal_NoReplan(g) ==
  /\ pc = "idle"
  /\ goal' = g
  /\ UNCHANGED <<pos, haveOdom, mapVars, pathVars, ageVars, needReplan,
                 state, out, pc, planOk, timerDue>>

\* The goal subscription: compared with the goal before it.
onGoal(g) ==
  /\ pc = "idle"
  /\ goal' = g
  /\ needReplan' = (needReplan \/ goal = NoPoint \/ Dist(g, goal) >= MoveMin)
  /\ UNCHANGED <<pos, haveOdom, mapVars, pathVars, ageVars,
                 state, out, pc, planOk, timerDue>>

-----------------------------------------------------------------------------
(* The map thread.                                                         *)

\* ingestMap, first stretch: the box of the grid covers the cloud, and the
\* vehicle and the goal of this moment.
ingestMapFit(c) ==
  /\ ingest = NoMap
  /\ LET withPos == IF haveOdom THEN Later(CloudEnd[c], pos) ELSE CloudEnd[c]
     IN  ingest' = [cloud |-> c, end |-> IF goal = NoPoint THEN withPos
                                         ELSE Later(withPos, goal)]
  /\ UNCHANGED <<envVars, map, hits, pathVars, ageVars,
                 needReplan, state, out, pc, planOk, timerDue>>

\* The test ingestMap takes for "the same map": number of voxels and box.
identical(m) ==
  /\ map # NoMap
  /\ Voxels[m.cloud] = Voxels[map.cloud]
  /\ m.end = map.end

\* ingestMap, second stretch: install the grid, or skip an identical one.
ingestMapInstall ==
  /\ ingest # NoMap
  /\ IF identical(ingest)
     THEN UNCHANGED <<map, hits, needReplan>>
     ELSE /\ map' = ingest
          /\ hits' = {}
          /\ needReplan' = TRUE
  /\ ingest' = NoMap
  /\ UNCHANGED <<envVars, pathVars, ageVars, state, out, pc, planOk, timerDue>>

\* ingestLocalMap: the sensor marks a point (local_mapping_raycast_clear off).
ingestLocalMap(p) ==
  /\ LocalMapping
  /\ haveOdom /\ map # NoMap /\ ingest = NoMap
  /\ hits' = hits \cup {p}
  /\ needReplan' = (needReplan \/ planAge >= MinReplan)
  /\ UNCHANGED <<envVars, map, ingest, pathVars, ageVars,
                 state, out, pc, planOk, timerDue>>

-----------------------------------------------------------------------------
(* onTimer.                                                                *)

onTimerNoOdom ==
  /\ pc = "idle" /\ timerDue
  /\ ~haveOdom
  /\ state' = "INIT"
  /\ timerDue' = FALSE
  /\ UNCHANGED <<envVars, mapVars, pathVars, ageVars, needReplan, out, pc, planOk>>

onTimerNoGoal ==
  /\ pc = "idle" /\ timerDue
  /\ haveOdom /\ goal = NoPoint
  /\ state' = "WAIT_TARGET"
  /\ out' = pos
  /\ timerDue' = FALSE
  /\ UNCHANGED <<envVars, mapVars, pathVars, ageVars, needReplan, pc, planOk>>

onTimerHold ==
  /\ pc = "idle" /\ timerDue
  /\ haveOdom /\ goal # NoPoint
  /\ state = "EMERGENCY_STOP" /\ stopAge < Recovery
  /\ out' = pos
  /\ timerDue' = FALSE
  /\ UNCHANGED <<envVars, mapVars, pathVars, ageVars, needReplan, state, pc, planOk>>

\* Past the early returns.  An emergency that has been held long enough turns
\* into a request to plan; `status` and `wanted` are what follows sees of state_
\* and need_replan_.
active ==
  /\ pc = "idle" /\ timerDue
  /\ haveOdom /\ goal # NoPoint
  /\ state = "EMERGENCY_STOP" => stopAge >= Recovery
status == IF state = "EMERGENCY_STOP" THEN "REPLAN_TRAJ" ELSE state
wanted == needReplan \/ state = "EMERGENCY_STOP"
reached == goal # NoPoint /\ Dist(pos, goal) < GoalTol

onTimerReached ==
  /\ active
  /\ reached
  /\ state' = status /\ needReplan' = wanted
  /\ out' = goal
  /\ timerDue' = FALSE
  /\ UNCHANGED <<envVars, mapVars, pathVars, ageVars, pc, planOk>>

\* The execution safety checks look at the path only now.
checked ==
  ExecSafety /\ status = "EXEC_TRAJ" /\ map # NoMap /\ traj # NoPoint /\ trajAge >= Grace

\* Mutant: the path is kept through an emergency stop.
onTimerEmergency_KeepPath ==
  /\ active /\ ~reached /\ checked
  /\ state' = "EMERGENCY_STOP"
  /\ stopAge' = 0
  /\ condemned' = TRUE
  /\ out' = pos
  /\ timerDue' = FALSE
  /\ UNCHANGED <<envVars, mapVars, traj, displaced, plannedFor, planAge, trajAge,
                 safetyAge, needReplan, pc, planOk>>

\* An obstacle is within emergency_clearance: drop the path and hover.
onTimerEmergency ==
  /\ active /\ ~reached /\ checked
  /\ state' = "EMERGENCY_STOP"
  /\ stopAge' = 0
  /\ traj' = NoPoint
  /\ plannedFor' = NoPoint
  /\ condemned' = TRUE
  /\ out' = pos
  /\ timerDue' = FALSE
  /\ UNCHANGED <<envVars, mapVars, displaced, planAge, trajAge, safetyAge,
                 needReplan, pc, planOk>>

\* The path is nearly flown and does not end at the goal.
nearEnd ==
  /\ traj # NoPoint
  /\ ~displaced
  /\ Dist(pos, traj) < ReplanDist
  /\ Dist(traj, goal) > GoalTol

\* The rest of onTimer, with `blocked` the path found obstructed ahead and
\* `threat` a peer on it: does it ask for a plan, and does it get one now?
asks(blocked, threat) ==
  \/ wanted \/ blocked \/ threat
  \/ traj = NoPoint \/ nearEnd
  \/ status \in {"REPLAN_TRAJ", "GEN_NEW_TRAJ", "FAIL"}
forced(blocked) ==
  \/ blocked \/ status \in {"REPLAN_TRAJ", "GEN_NEW_TRAJ"}
  \/ traj = NoPoint /\ status # "FAIL"
granted(blocked, threat) ==
  asks(blocked, threat) /\ (forced(blocked) \/ planAge >= MinReplan)

mayBlock(blocked) == blocked => checked /\ safetyAge >= Cooldown
mayThreaten(threat) == threat => Peers /\ traj # NoPoint
restart(blocked) == safetyAge' = IF blocked THEN 0 ELSE safetyAge

\* Stay where the path is, drop the lock and go planning.
onTimerPlan(blocked, threat) ==
  /\ active /\ ~reached
  /\ mayBlock(blocked) /\ mayThreaten(threat)
  /\ granted(blocked, threat)
  /\ restart(blocked)
  /\ needReplan' = (wanted \/ blocked)
  /\ state' = "GEN_NEW_TRAJ"
  /\ out' = pos
  /\ pc' = "unlocked"
  /\ timerDue' = FALSE
  /\ UNCHANGED <<envVars, mapVars, pathVars, planAge, trajAge, stopAge,
                 planOk>>

\* The local goal that tracks the path, or holds without one.
tracked(end) == IF end = NoPoint THEN pos ELSE Towards(pos, end)

\* No plan needed, or not yet: follow the path.
onTimerTrack(blocked, threat) ==
  /\ active /\ ~reached
  /\ mayBlock(blocked) /\ mayThreaten(threat)
  /\ ~granted(blocked, threat)
  /\ restart(blocked)
  /\ needReplan' = (wanted \/ blocked)
  /\ state' = IF blocked THEN "REPLAN_TRAJ" ELSE status
  /\ out' = tracked(traj)
  /\ timerDue' = FALSE
  /\ UNCHANGED <<envVars, mapVars, pathVars, planAge, trajAge, stopAge,
                 pc, planOk>>

onTimer ==
  \/ onTimerNoOdom \/ onTimerNoGoal \/ onTimerHold
  \/ onTimerReached \/ onTimerEmergency
  \/ \E blocked, threat \in BOOLEAN :
       onTimerPlan(blocked, threat) \/ onTimerTrack(blocked, threat)

-----------------------------------------------------------------------------
(* plan(), and what onTimer does with its result.                          *)

freePoints ==
  IF map = NoMap THEN {}
  ELSE {p \in Points : p <= map.end /\ p \notin Blocked[map.cloud] \cup hits}

\* findFreeNearby: a free goal as it is; otherwise the goal is brought into the
\* box and the first ring around it that has a free point gives its lowest one.
snapped(g) ==
  LET inBox == IF g > map.end THEN map.end ELSE g
      ring(r) == {p \in freePoints : Dist(p, inBox) <= 2 * r}
      hit == {r \in 1 .. SnapRadius : ring(r) # {}}
  IN  IF g \in freePoints THEN {g}
      ELSE {p \in freePoints :
              \E r \in hit : /\ \A s \in hit : r <= s
                            /\ p \in ring(r)
                            /\ \A q \in ring(r) : p <= q}

\* Where a route may lead.  GridAStar moves a goal that a peer stands on, to any
\* free point nearby, and finds no route without a free start or from a start to
\* itself.
endpoints ==
  IF snapped(pos) = {} THEN {}
  ELSE (IF Peers THEN freePoints ELSE snapped(goal)) \ snapped(pos)

planStarts ==
  /\ pc = "unlocked"
  /\ pc' = "planned"
  /\ UNCHANGED <<envVars, mapVars, planAge, stopAge, safetyAge,
                 needReplan, state, out, timerDue>>

\* A path, complete or invalid (too long, too short).
planEnds ==
  /\ planStarts
  /\ \E end \in endpoints :
       /\ displaced' = (Dist(end, goal) > DisplacedTol)
       /\ trajAge' = 0
       /\ \/ /\ "path" \in Outcomes
             /\ traj' = end /\ plannedFor' = goal /\ planOk' = TRUE
             /\ condemned' = FALSE
          \/ /\ "invalid" \in Outcomes
             /\ traj' = NoPoint /\ plannedFor' = NoPoint /\ planOk' = FALSE
             /\ UNCHANGED condemned

\* No map, no free start or goal nearby, or no route.
planFails ==
  /\ planStarts
  /\ endpoints = {} \/ "noRoute" \in Outcomes
  /\ planOk' = FALSE
  /\ UNCHANGED <<pathVars, trajAge>>

plan == planEnds \/ planFails

\* Mutant: a failed plan leaves the planner executing what it had.
onTimerResume_Abandon ==
  /\ pc = "planned"
  /\ pc' = "idle"
  /\ needReplan' = FALSE
  /\ state' = "EXEC_TRAJ"
  /\ planAge' = 0
  /\ out' = tracked(traj)
  /\ UNCHANGED <<envVars, mapVars, pathVars, trajAge, stopAge, safetyAge,
                 planOk, timerDue>>

\* Mutant: a failed plan without an old path leads straight to the goal.
onTimerResume_Chase ==
  /\ pc = "planned"
  /\ pc' = "idle"
  /\ needReplan' = FALSE
  /\ IF planOk
     THEN state' = "EXEC_TRAJ" /\ planAge' = 0 /\ out' = tracked(traj)
     ELSE /\ state' = "FAIL" /\ UNCHANGED planAge
          /\ out' = IF traj = NoPoint THEN Towards(pos, goal) ELSE pos
  /\ UNCHANGED <<envVars, mapVars, pathVars, trajAge, stopAge, safetyAge,
                 planOk, timerDue>>

\* The lock is taken again; whatever asked for a plan meanwhile is forgotten.
onTimerResume ==
  /\ pc = "planned"
  /\ pc' = "idle"
  /\ needReplan' = FALSE
  /\ IF planOk
     THEN state' = "EXEC_TRAJ" /\ planAge' = 0 /\ out' = tracked(traj)
     ELSE state' = "FAIL" /\ out' = pos /\ UNCHANGED planAge
  /\ UNCHANGED <<envVars, mapVars, pathVars, trajAge, stopAge, safetyAge,
                 planOk, timerDue>>

\* One timer period passes, whatever the threads are at.
Tick ==
  /\ timerDue' = TRUE
  /\ planAge' = Older(planAge, MinReplan)
  /\ trajAge' = Older(trajAge, Grace)
  /\ stopAge' = Older(stopAge, Recovery)
  /\ safetyAge' = Older(safetyAge, Cooldown)
  /\ UNCHANGED <<envVars, mapVars, pathVars, needReplan, state, out, pc, planOk>>

Next ==
  \/ onOdom
  \/ \E g \in Goals : onGoal(g)
  \/ \E c \in Clouds : ingestMapFit(c)
  \/ ingestMapInstall
  \/ \E p \in Points : ingestLocalMap(p)
  \/ onTimer
  \/ plan
  \/ onTimerResume
  \/ Tick

Spec == Init /\ [][Next]_vars

\* The executor serves both threads, the clock runs, odometry and the latched
\* clouds keep coming and the vehicle flies to the local goal it is given.
Fairness ==
  /\ WF_vars(Tick)
  /\ WF_vars(onTimer) /\ WF_vars(plan) /\ WF_vars(onTimerResume)
  /\ SF_vars(onOdom /\ pos' = IF out = NoPoint THEN pos ELSE Towards(pos, out))
  /\ WF_vars(ingestMapInstall)
  /\ \A c \in Clouds : WF_vars(ingestMapFit(c))

FairSpec == Spec /\ Fairness
-----------------------------------------------------------------------------
EnvOK == pos \in Points /\ haveOdom \in BOOLEAN /\ goal \in Goals \cup {NoPoint}
MapsOK ==
  /\ map \in Map \cup {NoMap}
  /\ hits \subseteq Points
  /\ ingest \in Map \cup {NoMap}
PathOK ==
  /\ traj \in Points \cup {NoPoint}
  /\ displaced \in BOOLEAN
  /\ plannedFor \in Goals \cup {NoPoint}
  /\ condemned \in BOOLEAN
AgesOK ==
  /\ planAge \in 0 .. MinReplan
  /\ trajAge \in 0 .. Grace /\ stopAge \in 0 .. Recovery
  /\ safetyAge \in 0 .. Cooldown
ControlOK ==
  /\ needReplan \in BOOLEAN /\ state \in State
  /\ out \in Points \cup {NoPoint}
  /\ pc \in {"idle", "unlocked", "planned"}
  /\ planOk \in BOOLEAN /\ timerDue \in BOOLEAN

TypeOK == EnvOK /\ MapsOK /\ PathOK /\ AgesOK /\ ControlOK

\* The path that led into an emergency stop is never flown again: until a plan
\* succeeds there is no path at all, however often planning fails meanwhile.
EmergencyDropsPath == condemned => traj = NoPoint

\* An emergency stop holds the vehicle until a plan succeeds: it is led nowhere,
\* unless to a goal within goal_tolerance, while plans fail, the emergency is
\* resumed and stopped again, maps change and new goals come.
EmergencyHolds == condemned => Dist(pos, out) < GoalTol

\* A goal is never silently abandoned: while there is one that is not reached and
\* that the path was not planned for, planning is tried again and again, through
\* failures, throttling, emergency stops and map updates.
GoalNotAbandoned ==
  []<>( \/ ~haveOdom \/ goal = NoPoint
        \/ reached \/ plannedFor = goal
        \/ pc # "idle" )

\* A goal that stays is reached, or the vehicle parks for good at the nearest
\* achievable point, if planning succeeds whenever there is a free point.
Arrives ==
  \A g \in Goals : <>[](goal = g) => <>[](reached \/ pos \in snapped(g))
=============================================================================
