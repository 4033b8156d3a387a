---------------------------- MODULE PlannerProofs ----------------------------
(***************************************************************************)
(* Theorems about PlannerFsm, for every line of points, every set of goals *)
(* and clouds, every tolerance and period.                                 *)
(***************************************************************************)
EXTENDS PlannerFsm, TLAPS

-----------------------------------------------------------------------------
(* The operators.                                                          *)

LEMMA TowardsPoint ==
  ASSUME NEW p \in Points, NEW q \in Points
  PROVE  Towards(p, q) \in Points
BY SpaceAssumption DEF Towards, Points

LEMMA LaterPoint ==
  ASSUME NEW p \in Points, NEW q \in Points
  PROVE  Later(p, q) \in Points
BY DEF Later, Points

LEMMA OlderAge ==
  ASSUME NEW cap \in Nat, NEW age \in 0 .. cap
  PROVE  Older(age, cap) \in 0 .. cap
BY DEF Older

LEMMA GoalPoint == Goals \subseteq Points /\ Goals \cup {NoPoint} \subseteq Int
BY SpaceAssumption DEF Points, NoPoint

LEMMA EndpointPoint == endpoints \subseteq Points
<1>1. freePoints \subseteq Points  BY DEF freePoints
<1>2. snapped(goal) \subseteq freePoints  BY Zenon DEF snapped
<1> QED  BY <1>1, <1>2 DEF endpoints

-----------------------------------------------------------------------------
(* Types.                                                                  *)

\* A part of the state an action leaves alone keeps its type.
LEMMA PartsUntouched ==
  /\ EnvOK /\ UNCHANGED envVars => EnvOK'
  /\ MapsOK /\ UNCHANGED mapVars => MapsOK'
  /\ PathOK /\ UNCHANGED pathVars => PathOK'
  /\ AgesOK /\ UNCHANGED ageVars => AgesOK'
<1>1. EnvOK /\ UNCHANGED envVars => EnvOK'  BY DEF EnvOK, envVars
<1>2. MapsOK /\ UNCHANGED mapVars => MapsOK'  BY DEF MapsOK, mapVars
<1>3. PathOK /\ UNCHANGED pathVars => PathOK'  BY DEF PathOK, pathVars
<1>4. AgesOK /\ UNCHANGED ageVars => AgesOK'  BY DEF AgesOK, ageVars
<1> QED  BY <1>1, <1>2, <1>3, <1>4

\* Every variable keeps its type in every step: the fitted box and the local goals
\* stay on the line, the ages within their caps.
LEMMA TypeStep == TypeOK /\ [Next]_vars => TypeOK'
<1> SUFFICES ASSUME TypeOK, [Next]_vars PROVE TypeOK'
  OBVIOUS
<1> USE PartsUntouched DEF TypeOK
<1>0. /\ 0 \in 0 .. MinReplan /\ 0 \in 0 .. Recovery
      /\ 0 \in 0 .. Grace /\ 0 \in 0 .. Cooldown
  BY PeriodAssumption
<1>1. CASE onOdom
  <2>1. EnvOK'  BY <1>1, TowardsPoint DEF onOdom, NoPoint, EnvOK, ControlOK
  <2>2. ControlOK'  BY <1>1 DEF onOdom, ControlOK
  <2> QED  BY <1>1, <2>1, <2>2 DEF onOdom
<1>2. ASSUME NEW g \in Goals, onGoal(g) PROVE TypeOK'
  <2>1. EnvOK' /\ ControlOK'  BY <1>2 DEF onGoal, EnvOK, ControlOK
  <2> QED  BY <1>2, <2>1 DEF onGoal
<1>3. ASSUME NEW c \in Clouds, ingestMapFit(c) PROVE TypeOK'
  <2> DEFINE withPos == IF haveOdom THEN Later(CloudEnd[c], pos) ELSE CloudEnd[c]
             end == IF goal = NoPoint THEN withPos ELSE Later(withPos, goal)
  <2>1. CloudEnd[c] \in Points  BY CloudAssumption
  <2>2. withPos \in Points  BY <2>1, LaterPoint DEF EnvOK
  <2>3. end \in Points  BY <2>2, LaterPoint, GoalPoint DEF EnvOK
  <2>4. ingest' = [cloud |-> c, end |-> end]  BY <1>3 DEF ingestMapFit
  <2>5. ingest' \in Map  BY <2>3, <2>4 DEF Map
  <2>6. MapsOK' /\ ControlOK'  BY <1>3, <2>5 DEF ingestMapFit, MapsOK, ControlOK
  <2> QED  BY <1>3, <2>6 DEF ingestMapFit
<1>4. CASE ingestMapInstall
  <2>1. MapsOK' /\ ControlOK'  BY <1>4 DEF ingestMapInstall, MapsOK, ControlOK
  <2> QED  BY <1>4, <2>1 DEF ingestMapInstall
<1>5. ASSUME NEW p \in Points, ingestLocalMap(p) PROVE TypeOK'
  <2>1. MapsOK' /\ ControlOK'  BY <1>5 DEF ingestLocalMap, MapsOK, ControlOK
  <2> QED  BY <1>5, <2>1 DEF ingestLocalMap
<1>6. CASE onTimerNoOdom
  <2>1. ControlOK'  BY <1>6 DEF onTimerNoOdom, ControlOK, State
  <2> QED  BY <1>6, <2>1 DEF onTimerNoOdom
<1>7. CASE onTimerNoGoal
  <2>1. ControlOK'  BY <1>7 DEF onTimerNoGoal, ControlOK, State, EnvOK
  <2> QED  BY <1>7, <2>1 DEF onTimerNoGoal
<1>8. CASE onTimerHold
  <2>1. ControlOK'  BY <1>8 DEF onTimerHold, ControlOK, EnvOK
  <2> QED  BY <1>8, <2>1 DEF onTimerHold
<1>9. status \in State /\ wanted \in BOOLEAN
  BY DEF status, wanted, State, ControlOK
<1>10. CASE onTimerReached
  <2>1. out' \in Points  BY <1>10, GoalPoint DEF onTimerReached, reached, EnvOK
  <2>2. ControlOK'  BY <1>9, <1>10, <2>1 DEF onTimerReached, ControlOK
  <2> QED  BY <1>10, <2>2 DEF onTimerReached
<1>11. CASE onTimerEmergency
  <2>1. PathOK'  BY <1>11 DEF onTimerEmergency, PathOK
  <2>2. AgesOK'  BY <1>0, <1>11 DEF onTimerEmergency, AgesOK
  <2>3. ControlOK'  BY <1>11 DEF onTimerEmergency, ControlOK, EnvOK, State
  <2> QED  BY <1>11, <2>1, <2>2, <2>3 DEF onTimerEmergency
<1>12. ASSUME NEW blocked \in BOOLEAN, NEW threat \in BOOLEAN,
              onTimerPlan(blocked, threat)
       PROVE  TypeOK'
  <2>1. AgesOK'  BY <1>0, <1>12 DEF onTimerPlan, restart, AgesOK
  <2>2. ControlOK'  BY <1>9, <1>12 DEF onTimerPlan, ControlOK, EnvOK, State
  <2> QED  BY <1>12, <2>1, <2>2 DEF onTimerPlan
<1>13. ASSUME NEW blocked \in BOOLEAN, NEW threat \in BOOLEAN,
              onTimerTrack(blocked, threat)
       PROVE  TypeOK'
  <2>1. AgesOK'  BY <1>0, <1>13 DEF onTimerTrack, restart, AgesOK
  <2>2. out' \in Points
    BY <1>13, TowardsPoint DEF onTimerTrack, tracked, EnvOK, PathOK
  <2>3. ControlOK'  BY <1>9, <1>13, <2>2 DEF onTimerTrack, ControlOK, State
  <2> QED  BY <1>13, <2>1, <2>3 DEF onTimerTrack
<1>14. CASE planEnds
  <2>1. PICK end \in endpoints :
          /\ displaced' = (Dist(end, goal) > DisplacedTol)
          /\ trajAge' = 0
          /\ \/ traj' = end /\ plannedFor' = goal /\ planOk' = TRUE
                /\ condemned' = FALSE
             \/ traj' = NoPoint /\ plannedFor' = NoPoint /\ planOk' = FALSE
                /\ UNCHANGED condemned
    BY <1>14, Zenon DEF planEnds
  <2>2. end \in Points  BY EndpointPoint
  <2>3. PathOK'
    <3>1. displaced' \in BOOLEAN  BY <2>1
    <3>2. traj' \in Points \cup {NoPoint} /\ plannedFor' \in Goals \cup {NoPoint}
      BY <2>1, <2>2 DEF EnvOK
    <3>3. condemned \in BOOLEAN /\ FALSE \in BOOLEAN  BY DEF PathOK
    <3>4. condemned' \in BOOLEAN  BY <2>1, <3>3, Zenon
    <3> QED  BY <3>1, <3>2, <3>4 DEF PathOK
  <2>4. AgesOK'  BY <1>0, <1>14, <2>1 DEF planEnds, planStarts, AgesOK
  <2>5. planOk' \in BOOLEAN  BY <2>1
  <2>6. ControlOK'  BY <1>14, <2>5 DEF planEnds, planStarts, ControlOK
  <2> QED  BY <1>14, <2>3, <2>4, <2>6 DEF planEnds, planStarts
<1>15. CASE planFails
  <2>1. AgesOK'  BY <1>0, <1>15 DEF planFails, planStarts, AgesOK
  <2>2. ControlOK'  BY <1>15 DEF planFails, planStarts, ControlOK
  <2> QED  BY <1>15, <2>1, <2>2 DEF planFails, planStarts
<1>16. CASE onTimerResume
  <2>1. out' \in Points
    BY <1>16, TowardsPoint DEF onTimerResume, tracked, EnvOK, PathOK
  <2>2. AgesOK'  BY <1>0, <1>16 DEF onTimerResume, AgesOK
  <2>3. ControlOK'  BY <1>16, <2>1 DEF onTimerResume, ControlOK, State
  <2> QED  BY <1>16, <2>2, <2>3 DEF onTimerResume
<1>17. CASE Tick
  <2>1. AgesOK'  BY <1>17, OlderAge, PeriodAssumption DEF Tick, AgesOK
  <2>2. ControlOK'  BY <1>17 DEF Tick, ControlOK
  <2> QED  BY <1>17, <2>1, <2>2 DEF Tick
<1>18. CASE UNCHANGED vars
  <2>1. ControlOK'  BY <1>18 DEF vars, ControlOK
  <2> QED  BY <1>18, <2>1 DEF vars
<1> QED
  BY <1>1, <1>2, <1>3, <1>4, <1>5, <1>6, <1>7, <1>8, <1>10, <1>11, <1>12, <1>13,
     <1>14, <1>15, <1>16, <1>17, <1>18 DEF Next, onTimer, plan

\* Type correctness of the planner node.
THEOREM PlannerTypeCorrect == Spec => []TypeOK
<1>1. Init => TypeOK
  <2> SUFFICES ASSUME Init PROVE TypeOK
    OBVIOUS
  <2>1. pos \in Points /\ state \in State
    BY SpaceAssumption DEF Init, Points, State
  <2>2. /\ planAge \in 0 .. MinReplan
        /\ trajAge \in 0 .. Grace /\ stopAge \in 0 .. Recovery
        /\ safetyAge \in 0 .. Cooldown
    BY PeriodAssumption DEF Init
  <2>3. TRUE \in BOOLEAN /\ FALSE \in BOOLEAN  OBVIOUS
  <2> QED  BY <2>1, <2>2, <2>3
       DEF Init, TypeOK, EnvOK, MapsOK, PathOK, AgesOK, ControlOK
<1> QED  BY <1>1, TypeStep, PTL DEF Spec

-----------------------------------------------------------------------------
(* What an emergency stop leaves.                                          *)

\* Every step keeps EmergencyDropsPath; only an emergency stop and plan() touch
\* the path.
LEMMA PathStep == EmergencyDropsPath /\ [Next]_vars => EmergencyDropsPath'
<1> SUFFICES ASSUME EmergencyDropsPath, [Next]_vars PROVE EmergencyDropsPath'
  OBVIOUS
<1>1. CASE UNCHANGED pathVars
  BY <1>1 DEF EmergencyDropsPath, pathVars
<1>2. CASE onTimerEmergency
  BY <1>2 DEF onTimerEmergency, EmergencyDropsPath
<1>3. CASE planEnds
  <2>1. condemned' = FALSE \/ traj' = NoPoint
    BY <1>3, Zenon DEF planEnds
  <2> QED  BY <2>1 DEF EmergencyDropsPath
<1>4. [Next]_vars => UNCHANGED pathVars \/ onTimerEmergency \/ planEnds
  <2>1. (onTimer \/ plan) => UNCHANGED pathVars \/ onTimerEmergency \/ planEnds
    BY Zenon DEF onTimer, plan, onTimerNoOdom, onTimerNoGoal, onTimerHold,
       onTimerReached, onTimerPlan, onTimerTrack, planFails
  <2>2. onOdom \/ (\E g \in Goals : onGoal(g)) \/ (\E c \in Clouds : ingestMapFit(c))
          \/ ingestMapInstall \/ (\E p \in Points : ingestLocalMap(p))
          \/ onTimerResume \/ Tick \/ UNCHANGED vars => UNCHANGED pathVars
    BY Zenon DEF onOdom, onGoal, ingestMapFit, ingestMapInstall, ingestLocalMap,
       onTimerResume, Tick, vars
  <2> QED  BY <2>1, <2>2, Zenon DEF Next
<1> QED  BY <1>1, <1>2, <1>3, <1>4

\* No failure of planning, however often repeated, brings back the path that ended
\* in an emergency stop.
THEOREM EmergencyDropsPathHolds == Spec => []EmergencyDropsPath
<1>1. Init => EmergencyDropsPath  BY DEF Init, EmergencyDropsPath
<1> QED  BY <1>1, PathStep, PTL DEF Spec

\* A step towards a point never takes one further from it.
LEMMA TowardsNearer ==
  ASSUME NEW p \in Points, NEW q \in Points
  PROVE  Dist(Towards(p, q), q) <= Dist(p, q)
BY SpaceAssumption DEF Points, Towards, Dist

\* Standing still is within every tolerance.
LEMMA HereIsNear == ASSUME NEW p \in Points PROVE Dist(p, p) < GoalTol
BY SpaceAssumption DEF Points, Dist

\* Every step keeps EmergencyHolds: without a path each branch of the timer that
\* does not see the goal reached publishes the position, and the flight there only
\* brings the vehicle nearer.
LEMMA HoldStep ==
  TypeOK /\ EmergencyDropsPath /\ EmergencyHolds /\ [Next]_vars => EmergencyHolds'
<1> SUFFICES ASSUME TypeOK, EmergencyDropsPath, EmergencyHolds, [Next]_vars
             PROVE  EmergencyHolds'
  OBVIOUS
<1>0. pos \in Points /\ out \in Points \cup {NoPoint}
  BY DEF TypeOK, EnvOK, ControlOK
<1>1. CASE UNCHANGED <<pos, out, condemned>>
  BY <1>1 DEF EmergencyHolds, Dist
<1>2. CASE pos' = pos /\ out' = pos
  BY <1>0, <1>2, HereIsNear DEF EmergencyHolds
<1>3. CASE condemned' = FALSE
  BY <1>3 DEF EmergencyHolds
<1>4. CASE onOdom
  <2>1. UNCHANGED <<out, condemned>>  BY <1>4 DEF onOdom, pathVars
  <2>2. CASE pos' = pos  BY <1>1, <2>1, <2>2
  <2>3. CASE pos' = Towards(pos, out) /\ out # NoPoint
    <3>1. out \in Points  BY <1>0, <2>3
    <3>2. Dist(pos', out) <= Dist(pos, out)  BY <1>0, <2>3, <3>1, TowardsNearer
    <3>3. Dist(pos, out) \in Int /\ Dist(pos', out) \in Int
      <4>1. pos' \in Points  BY <1>0, <2>3, <3>1, TowardsPoint
      <4>2. Points \subseteq Int  BY SpaceAssumption DEF Points
      <4> QED  BY <1>0, <3>1, <4>1, <4>2 DEF Dist
    <3>4. GoalTol \in Int  BY SpaceAssumption
    <3>5. Dist(pos, out) < GoalTol => Dist(pos', out) < GoalTol
      BY <3>2, <3>3, <3>4
    <3> QED  BY <2>1, <3>5 DEF EmergencyHolds, Dist
  <2> QED  BY <1>4, <2>2, <2>3 DEF onOdom
<1>5. CASE onTimerReached
  BY <1>5 DEF onTimerReached, envVars, reached, EmergencyHolds, Dist
<1>6. CASE traj' = traj /\ condemned' = condemned /\ pos' = pos /\ out' = tracked(traj)
  <2>1. CASE condemned
    BY <1>2, <1>6, <2>1 DEF EmergencyDropsPath, tracked
  <2> QED  BY <1>6, <2>1 DEF EmergencyHolds
<1>7. CASE onTimer
  <2>1. CASE onTimerNoOdom
    BY <1>1, <2>1 DEF onTimerNoOdom, envVars, pathVars
  <2>2. CASE onTimerNoGoal \/ onTimerHold \/ onTimerEmergency
    BY <1>2, <2>2 DEF onTimerNoGoal, onTimerHold, onTimerEmergency, envVars
  <2>3. ASSUME NEW blocked \in BOOLEAN, NEW threat \in BOOLEAN,
               onTimerPlan(blocked, threat)
        PROVE  EmergencyHolds'
    BY <1>2, <2>3 DEF onTimerPlan, envVars
  <2>4. ASSUME NEW blocked \in BOOLEAN, NEW threat \in BOOLEAN,
               onTimerTrack(blocked, threat)
        PROVE  EmergencyHolds'
    BY <1>6, <2>4 DEF onTimerTrack, envVars, pathVars
  <2> QED  BY <1>5, <1>7, <2>1, <2>2, <2>3, <2>4 DEF onTimer
<1>8. CASE plan
  <2>1. CASE planFails
    BY <1>1, <2>1 DEF planFails, planStarts, envVars, pathVars
  <2>2. CASE planEnds
    <3>1. UNCHANGED <<pos, out>>  BY <2>2 DEF planEnds, planStarts, envVars
    <3>2. condemned' = FALSE \/ condemned' = condemned
      BY <2>2, Zenon DEF planEnds
    <3> QED  BY <1>1, <1>3, <3>1, <3>2
  <2> QED  BY <1>8, <2>1, <2>2 DEF plan
<1>9. CASE onTimerResume
  <2>1. UNCHANGED <<pos, traj, condemned>>
    BY <1>9 DEF onTimerResume, envVars, pathVars
  <2>2. out' = tracked(traj) \/ out' = pos  BY <1>9 DEF onTimerResume
  <2> QED  BY <1>2, <1>6, <2>1, <2>2
<1>10. CASE Tick
  BY <1>1, <1>10 DEF Tick, envVars, pathVars
<1>11. CASE \/ \E g \in Goals : onGoal(g)
            \/ \E c \in Clouds : ingestMapFit(c)
            \/ ingestMapInstall
            \/ \E p \in Points : ingestLocalMap(p)
            \/ UNCHANGED vars
  BY <1>1, <1>11
  DEF onGoal, ingestMapFit, ingestMapInstall, ingestLocalMap, vars, envVars, pathVars
<1> QED
  BY <1>4, <1>7, <1>8, <1>9, <1>10, <1>11 DEF Next

\* After an emergency stop the vehicle is led nowhere, unless to a goal within
\* goal_tolerance, until a plan succeeds: on every line, for every order of the
\* periods, whatever fails meanwhile.
THEOREM EmergencyHoldsHolds == Spec => []EmergencyHolds
<1>1. Init => EmergencyHolds  BY DEF Init, EmergencyHolds
<1> QED
  BY <1>1, HoldStep, EmergencyDropsPathHolds, PlannerTypeCorrect, PTL DEF Spec

=============================================================================
