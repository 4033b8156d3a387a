----------------------------- MODULE Controller -----------------------------
(***************************************************************************)
(* The drone_controller node (controller_node.cpp): which setpoint the     *)
(* cascade PID follows, and when the node lets the motors run at all.      *)
(*                                                                         *)
(* The node is single threaded: every ROS callback is one action.  A time  *)
(* stamp of the code (last_odom_time_ and so on) is kept as its age, the   *)
(* number of clock ticks since it was taken; an age is capped one above    *)
(* the timeout it is compared with, which no comparison can tell apart.    *)
(* A stamp of zero, as at start-up, is an age at the cap.                  *)
(***************************************************************************)
EXTENDS Integers

CONSTANTS
  Heights,       \* the z coordinates planners and operators may send
  GoalZMin,      \* goal_z_min, the floor of the flight band
  GoalZMax,      \* goal_z_max, its ceiling
  OdomTimeout,   \* odom_timeout_sec, in ticks
  TrajTimeout,   \* trajectory_cmd_timeout, in ticks
  LocalTimeout,  \* local_goal_timeout, in ticks
  GoalFallback,  \* use_drone_goal_fallback
  Signatures,    \* what may come first on /drone/plant_signature
  PoseCap        \* cap of poseAge, the history variable below

ASSUME BandAssumption ==
  /\ Heights \subseteq Int
  /\ GoalZMin \in Int
  /\ GoalZMax \in Int
  /\ GoalZMin <= GoalZMax

ASSUME TimeoutAssumption ==
  /\ OdomTimeout \in Nat
  /\ TrajTimeout \in Nat
  /\ LocalTimeout \in Nat
  /\ PoseCap \in Nat

ASSUME ParamAssumption ==
  /\ GoalFallback \in BOOLEAN
  /\ Signatures \subseteq {"match", "mismatch"}

VARIABLES
  ctrlUp,        \* the process is running (rclcpp::ok())
  plantSig,      \* plant_sig_checked_, and the verdict of the check
  stateValid,    \* state_.valid
  odomAge,       \* age of last_odom_time_, the ARRIVAL of the last good odometry
  poseAge,       \* history: age of the measurement in state_, from its sampling
  trajCmd,       \* traj_cmd_
  trajAge,       \* age of last_traj_cmd_time_
  localGoal,     \* local_goal_
  localAge,      \* age of last_local_goal_time_
  fallbackGoal,  \* fallback_goal_
  plannerGuided, \* planner_guided_
  motorOut       \* the last motor command published

goalVars == <<trajCmd, trajAge, localGoal, localAge, fallbackGoal, plannerGuided>>
poseVars == <<stateValid, odomAge, poseAge>>
ctrlVars == <<ctrlUp, plantSig, poseVars, goalVars, motorOut>>

Capped(age, cap) == IF age < cap THEN age + 1 ELSE cap

-----------------------------------------------------------------------------
(* Setpoints and motor commands.  A setpoint is its validity and its       *)
(* height; a motor command is whether the rotors run, and the source and   *)
(* height of the setpoint the PID was given when it computed the rpm.      *)

SetpointZ == Heights \cup (GoalZMin .. GoalZMax)
Setpoint == [valid : BOOLEAN, z : SetpointZ]
NoSetpoint == [valid |-> FALSE, z |-> GoalZMin]

Source == {"none", "traj", "local", "fallback", "hold"}
MotorCommand == [power : {"off", "run"}, src : Source, z : SetpointZ]
Cut == [power |-> "off", src |-> "none", z |-> GoalZMin]

\* Mutant: the floor of the flight band is forgotten.
clampGoalZ_NoFloor(z) == IF z > GoalZMax THEN GoalZMax ELSE z

\* clampGoalZ: std::clamp into the flight band.
clampGoalZ(z) == IF z < GoalZMin THEN GoalZMin
                 ELSE IF z > GoalZMax THEN GoalZMax ELSE z

trajFresh == trajCmd.valid /\ trajAge <= TrajTimeout
localFresh == localGoal.valid /\ localAge <= LocalTimeout

\* activeGoal(): a fresh trajectory command, else a fresh local goal, else the
\* last local goal however old, else the operator's goal, else no setpoint, for
\* which CascadePid::compute holds the present position.
activeGoal ==
  LET track(src, g) == [power |-> "run", src |-> src, z |-> g.z]
  IN  CASE trajFresh                                      -> track("traj", trajCmd)
        [] ~trajFresh /\ localFresh                       -> track("local", localGoal)
        [] ~trajFresh /\ ~localFresh
             /\ plannerGuided /\ localGoal.valid          -> track("local", localGoal)
        [] ~trajFresh /\ ~localFresh
             /\ ~(plannerGuided /\ localGoal.valid)
             /\ fallbackGoal.valid                        -> track("fallback", fallbackGoal)
        [] OTHER                                          -> track("hold", NoSetpoint)

-----------------------------------------------------------------------------
CtrlInit ==
  /\ ctrlUp = TRUE
  /\ plantSig = "unchecked"
  /\ stateValid = FALSE
  /\ odomAge = OdomTimeout + 1
  /\ poseAge = PoseCap
  /\ trajCmd = NoSetpoint
  /\ trajAge = TrajTimeout + 1
  /\ localGoal = NoSetpoint
  /\ localAge = LocalTimeout + 1
  /\ fallbackGoal = NoSetpoint
  /\ plannerGuided = FALSE
  /\ motorOut = Cut

\* Mutant: the stamp of the first good odometry is kept.
onOdom_NoRestamp(age) ==
  /\ ctrlUp
  /\ stateValid' = TRUE
  /\ odomAge' = IF stateValid THEN odomAge ELSE 0
  /\ poseAge' = age
  /\ UNCHANGED <<ctrlUp, plantSig, goalVars, motorOut>>

\* Mutant: only the first odometry validates the state, so a cut is final.
onOdom_StickyCut(age) ==
  /\ ctrlUp
  /\ stateValid' = (stateValid \/ motorOut # Cut \/ poseAge = PoseCap)
  /\ odomAge' = 0
  /\ poseAge' = age
  /\ UNCHANGED <<ctrlUp, plantSig, goalVars, motorOut>>

\* onOdom with a message sampled `age` ticks ago.
onOdom(age) ==
  /\ ctrlUp
  /\ stateValid' = TRUE
  /\ odomAge' = 0
  /\ poseAge' = age
  /\ UNCHANGED <<ctrlUp, plantSig, goalVars, motorOut>>

\* onOdom with a non-finite or denormalised pose: nothing is published here.
onBadOdom ==
  /\ ctrlUp
  /\ stateValid' = FALSE
  /\ UNCHANGED <<ctrlUp, plantSig, odomAge, poseAge, goalVars, motorOut>>

onLocalGoal(z) ==
  /\ ctrlUp
  /\ localGoal' = [valid |-> TRUE, z |-> clampGoalZ(z)]
  /\ localAge' = 0
  /\ plannerGuided' = TRUE
  /\ fallbackGoal' = [fallbackGoal EXCEPT !.valid = FALSE]
  /\ UNCHANGED <<ctrlUp, plantSig, poseVars, trajCmd, trajAge, motorOut>>

onTrajectoryCmd(z) ==
  /\ ctrlUp
  /\ trajCmd' = [valid |-> TRUE, z |-> clampGoalZ(z)]
  /\ trajAge' = 0
  /\ plannerGuided' = TRUE
  /\ fallbackGoal' = [fallbackGoal EXCEPT !.valid = FALSE]
  /\ UNCHANGED <<ctrlUp, plantSig, poseVars, localGoal, localAge, motorOut>>

\* onTrajectoryCmd with trajectory_ready = false: the clear signal.
onTrajectoryClear ==
  /\ ctrlUp
  /\ trajCmd' = [trajCmd EXCEPT !.valid = FALSE]
  /\ UNCHANGED <<ctrlUp, plantSig, poseVars, trajAge, localGoal, localAge,
                 fallbackGoal, plannerGuided, motorOut>>

\* Mutant: a new operator goal is tracked although a planner guides.
onGoal_AlwaysValid(z) ==
  /\ ctrlUp
  /\ GoalFallback
  /\ fallbackGoal' = [valid |-> TRUE, z |-> z]
  /\ UNCHANGED <<ctrlUp, plantSig, poseVars, trajCmd, trajAge, localGoal,
                 localAge, plannerGuided, motorOut>>

\* onGoal: subscribed only with use_drone_goal_fallback; z is not clamped.
onGoal(z) ==
  /\ ctrlUp
  /\ GoalFallback
  /\ fallbackGoal' = [valid |-> ~plannerGuided, z |-> z]
  /\ UNCHANGED <<ctrlUp, plantSig, poseVars, trajCmd, trajAge, localGoal,
                 localAge, plannerGuided, motorOut>>

\* Mutant: the mismatch is logged and the node runs on.
onSignature_LogOnly(sig) ==
  /\ ctrlUp
  /\ plantSig = "unchecked"
  /\ plantSig' = IF sig = "match" THEN "verified" ELSE "refused"
  /\ UNCHANGED <<ctrlUp, poseVars, goalVars, motorOut>>

\* The subscription to /drone/plant_signature: only the first message counts,
\* and a mismatch shuts the node down.
onSignature(sig) ==
  /\ ctrlUp
  /\ plantSig = "unchecked"
  /\ plantSig' = IF sig = "match" THEN "verified" ELSE "refused"
  /\ ctrlUp' = (sig = "match")
  /\ UNCHANGED <<poseVars, goalVars, motorOut>>

\* onControl with stale odometry: invalidate the state, publish one zero
\* command.  (With an invalid state onControl returns at once, a stutter.)
onControlCut ==
  /\ ctrlUp
  /\ stateValid
  /\ odomAge > OdomTimeout
  /\ stateValid' = FALSE
  /\ motorOut' = Cut
  /\ UNCHANGED <<ctrlUp, plantSig, odomAge, poseAge, goalVars>>

\* Mutant: the watchdog branch falls through to the PID.
onControlTrack_AnyAge ==
  /\ ctrlUp
  /\ stateValid
  /\ motorOut' = activeGoal
  /\ UNCHANGED <<ctrlUp, plantSig, poseVars, goalVars>>

\* onControl with fresh odometry: compute rpm towards the active goal.
onControlTrack ==
  /\ ctrlUp
  /\ stateValid
  /\ odomAge <= OdomTimeout
  /\ motorOut' = activeGoal
  /\ UNCHANGED <<ctrlUp, plantSig, poseVars, goalVars>>

\* The process ends; nothing is published on the way out.
CtrlCrash ==
  /\ ctrlUp
  /\ ctrlUp' = FALSE
  /\ UNCHANGED <<plantSig, poseVars, goalVars, motorOut>>

\* One tick of the clock, as the node's stamps see it.
CtrlAging ==
  /\ odomAge' = Capped(odomAge, OdomTimeout + 1)
  /\ poseAge' = Capped(poseAge, PoseCap)
  /\ trajAge' = Capped(trajAge, TrajTimeout + 1)
  /\ localAge' = Capped(localAge, LocalTimeout + 1)
  /\ UNCHANGED <<ctrlUp, plantSig, stateValid, trajCmd, localGoal,
                 fallbackGoal, plannerGuided, motorOut>>

\* What planners, bridges and the operator send, at any time.
PlannerInput ==
  \/ \E z \in Heights : onLocalGoal(z)
  \/ \E z \in Heights : onTrajectoryCmd(z)
  \/ onTrajectoryClear
  \/ \E z \in Heights : onGoal(z)

\* The node by itself, in an environment that sends anything at any time.
CtrlNext ==
  \/ \E age \in 0 .. PoseCap : onOdom(age)
  \/ onBadOdom
  \/ PlannerInput
  \/ \E sig \in Signatures : onSignature(sig)
  \/ onControlCut
  \/ onControlTrack
  \/ CtrlCrash
  \/ CtrlAging

CtrlSpec == CtrlInit /\ [][CtrlNext]_ctrlVars

-----------------------------------------------------------------------------
FlagsOK ==
  /\ ctrlUp \in BOOLEAN
  /\ stateValid \in BOOLEAN
  /\ plannerGuided \in BOOLEAN
  /\ plantSig \in {"unchecked", "verified", "refused"}

AgesOK ==
  /\ odomAge \in 0 .. OdomTimeout + 1
  /\ poseAge \in 0 .. PoseCap
  /\ trajAge \in 0 .. TrajTimeout + 1
  /\ localAge \in 0 .. LocalTimeout + 1

SetpointsOK ==
  /\ trajCmd \in Setpoint
  /\ localGoal \in Setpoint
  /\ fallbackGoal \in Setpoint
  /\ motorOut \in MotorCommand

CtrlTypeOK == FlagsOK /\ AgesOK /\ SetpointsOK

InBand(z) == GoalZMin <= z /\ z <= GoalZMax

\* The flight fence: whatever a planner sends, the next control period never
\* flies a planner setpoint outside the band, however old the setpoint is by
\* then and by whichever branch of activeGoal it is picked.
FlightBand == activeGoal.src \in {"traj", "local"} => InBand(activeGoal.z)

\* Once a planner has taken over, the controller never leaps to the operator's
\* goal again, and once it has given a local goal the vehicle never falls back
\* to holding wherever it drifts: through any order of goals, clears, time-outs
\* and odometry drop-outs.
PlannerAuthority ==
  [][ plannerGuided
        => /\ plannerGuided'
           /\ \/ activeGoal'.src \in {"traj", "local"}
              \/ activeGoal'.src = "hold" /\ ~localGoal.valid ]_ctrlVars
=============================================================================
