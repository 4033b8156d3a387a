------------------------------ MODULE Exploration ------------------------------
(***************************************************************************)
(* Path D as fuel_explore.launch.py starts it: fog sensing, the exploration *)
(* state machine, the EGO bridge, and around them the EGO planner and the  *)
(* vehicle, which fly to the goal cell by cell.                            *)
(*                                                                         *)
(* A cell takes about a second to fly, so that odometry, far more frequent, *)
(* is behind by at most one cell.  Sensing ticks every 0.25 s and the state *)
(* machine every 1.5 s: between two ticks of the latter, frontiers are     *)
(* sensed from the cell the vehicle is in, and then delivered, at least    *)
(* once.                                                                   *)
(***************************************************************************)
EXTENDS ExplorationFsm, FogSensing, EgoCmdBridge

CONSTANTS
  Home,       \* where the vehicle takes off
  Route,      \* EGO's next position, by where the vehicle is and its goal
  Runaways,   \* the commands EGO may stream when it runs away
  LateCloud   \* sensing may start before the obstacle cloud is there

ASSUME FlightAssumption ==
  /\ Cells \subseteq Places /\ Runaways \subseteq Places
  /\ Workspace \subseteq Places /\ Home \in Workspace
  /\ DOMAIN Sensed = Places
  /\ Route \in [Workspace -> [Places -> Places]]
  /\ LateCloud \in BOOLEAN

VARIABLES
  pos,     \* where the vehicle is
  navGoal, \* on /exploration/nav_goal and not yet at the bridge, or NoPlace
  phase    \* of sensing since the last tick of the state machine

flightVars == <<pos, navGoal, phase>>
vars == <<fsmVars, fogVars, bridgeVars, flightVars>>

Init ==
  /\ FsmInit /\ FogInit /\ BridgeInit
  /\ pos = Home /\ navGoal = NoPlace /\ phase = "ticked"

\* What the state machine publishes is on its way.
Publish == navGoal' = IF goalCount' # goalCount /\ current' # NoPlace THEN current' ELSE navGoal

Trigger ==
  /\ onTrigger
  /\ navGoal' = IF current' # NoPlace THEN current' ELSE navGoal
  /\ UNCHANGED <<fogVars, bridgeVars, pos, phase>>

FsmTick ==
  /\ phase = "delivered" \/ sensedAt = Unheard
  /\ tick
  /\ Publish
  /\ phase' = "ticked"
  /\ UNCHANGED <<fogVars, bridgeVars, pos>>

FsmOdom ==
  /\ onOdom(pos)
  /\ UNCHANGED <<fogVars, bridgeVars, flightVars>>

DeliverFrontiers ==
  /\ onFrontiers(published)
  /\ phase' = IF phase = "sensed" THEN "delivered" ELSE phase
  /\ UNCHANGED <<fogVars, bridgeVars, pos, navGoal>>

CloudArrives ==
  /\ onCloud
  /\ UNCHANGED <<fsmVars, bridgeVars, flightVars>>

SensorOdom ==
  /\ onSensorOdom(pos)
  /\ UNCHANGED <<fsmVars, bridgeVars, flightVars>>

Sense ==
  /\ LateCloud \/ cloudSeen
  /\ senseTick
  /\ phase' = IF phase = "ticked" /\ sensedAt = pos THEN "sensed" ELSE phase
  /\ UNCHANGED <<fsmVars, bridgeVars, pos, navGoal>>

DeliverGoal ==
  /\ navGoal # NoPlace
  /\ onGoal(navGoal)
  /\ navGoal' = NoPlace
  /\ UNCHANGED <<fsmVars, fogVars, pos, phase>>

EgoCommand ==
  /\ goalOut # None
  /\ onCmd(Route[pos][goalOut])
  /\ UNCHANGED <<fsmVars, fogVars, flightVars>>

EgoRunsAway ==
  /\ goalOut # None
  /\ \E p \in Runaways : onCmd(p)
  /\ UNCHANGED <<fsmVars, fogVars, flightVars>>

Fly ==
  /\ setpoint # None
  /\ odom \in {NoPlace, pos} /\ sensedAt \in {Unheard, pos}
  /\ pos' = setpoint
  /\ UNCHANGED <<fsmVars, fogVars, bridgeVars, navGoal, phase>>

Next ==
  \/ Trigger \/ FsmTick \/ FsmOdom \/ DeliverFrontiers
  \/ CloudArrives \/ SensorOdom \/ Sense
  \/ DeliverGoal \/ EgoCommand \/ EgoRunsAway \/ Fly

Spec == Init /\ [][Next]_vars

\* Every node is spun, the topics are reliable, the cloud is latched, and EGO
\* comes back to its goal however often it runs away; the operator owes nothing.
Fairness ==
  /\ WF_vars(FsmTick) /\ WF_vars(FsmOdom) /\ WF_vars(DeliverFrontiers)
  /\ WF_vars(CloudArrives) /\ WF_vars(SensorOdom) /\ WF_vars(Sense)
  /\ WF_vars(DeliverGoal) /\ WF_vars(EgoCommand) /\ WF_vars(Fly)

FairSpec == Spec /\ Fairness
-----------------------------------------------------------------------------
TypeOK ==
  /\ FsmTypeOK /\ FogTypeOK
  /\ goalXy \in Places \cup {None} /\ goalOut \in Places \cup {None}
  /\ setpoint \in Places \cup {None}
  /\ pos \in Places /\ navGoal \in Places \cup {NoPlace}
  /\ phase \in {"ticked", "sensed", "delivered"}

\* Without seeds the vehicle is never sent twice to the same area: each goal keeps
\* its distance from every goal before it in the exploration, also where clamping
\* to the box moved it after the distance was looked at.
GoalsApart ==
  [][ ~seeding /\ state = "EXPLORE" /\ goalCount' = goalCount + 1
        => \A g \in sent : Dist(current', g) >= MinSep - ClampShift ]_vars

\* An exploration that ends for want of frontiers has left none: the list the state
\* machine looks at is a copy, and the vehicle that senses may still be moving.
FinishMeansExplored ==
  [][ ended' = "no frontiers" /\ state = "EXPLORE" /\ state' = "FINISHED"
        => frontiersOf(fog) = {} ]_vars

\* The vehicle moves only to places in the workspace and within cmd_bound of the goal
\* EGO has at that moment.  A command is judged when it is received and flown later:
\* goals may change, and EGO may run away, in between.
MovesStayNearGoal ==
  [][ pos' # pos => pos' \in Workspace /\ Apart(pos', goalOut) <= CmdBound ]_vars

\* Without seeds every exploration ends.
EndsWithoutSeeds == (state = "EXPLORE" /\ ~seeding) ~> (state = "FINISHED")

\* What the plan of Path D says of the state machine (IDLE to FINISH), and the code
\* does not do with seeds on, as every launch has them: every exploration ends.
ExplorationEnds == (state = "EXPLORE") ~> (state = "FINISHED")
===============================================================================
