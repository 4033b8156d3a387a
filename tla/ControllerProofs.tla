--------------------------- MODULE ControllerProofs ---------------------------
(***************************************************************************)
(* Theorems about the controller node by itself, for every value of its    *)
(* constants: its types, the flight band and the planner's authority.      *)
(***************************************************************************)
EXTENDS Controller, TLAPS

-----------------------------------------------------------------------------
(* Lemmas about setpoints.                                                 *)

\* std::clamp into a non-empty band lands in the band.
LEMMA ClampInBand ==
  ASSUME NEW z \in Heights
  PROVE  clampGoalZ(z) \in SetpointZ /\ InBand(clampGoalZ(z))
  BY BandAssumption DEF clampGoalZ, SetpointZ, InBand

\* A setpoint is built from a validity and a height.
LEMMA SetpointIntro ==
  ASSUME NEW v \in BOOLEAN, NEW h \in SetpointZ
  PROVE  [valid |-> v, z |-> h] \in Setpoint
  BY DEF Setpoint

\* A setpoint that is invalidated keeps its height.
LEMMA SetpointClear ==
  ASSUME NEW g \in Setpoint
  PROVE  /\ [g EXCEPT !.valid = FALSE] \in Setpoint
         /\ [g EXCEPT !.valid = FALSE].valid = FALSE
  BY DEF Setpoint

\* The initial setpoint and the zero command are well typed.
LEMMA DefaultTypes == NoSetpoint \in Setpoint /\ Cut \in MotorCommand
  <1>1. GoalZMin \in SetpointZ
    BY BandAssumption DEF SetpointZ
  <1>2. QED
    BY <1>1, SetpointIntro DEF NoSetpoint, Cut, MotorCommand, Source

\* activeGoal is a running command for one of the stored setpoints, and which
\* one tells what was valid.
LEMMA ActiveGoalCases ==
  \/ /\ activeGoal = [power |-> "run", src |-> "traj", z |-> trajCmd.z]
     /\ trajCmd.valid
  \/ /\ activeGoal = [power |-> "run", src |-> "local", z |-> localGoal.z]
     /\ localGoal.valid
  \/ /\ activeGoal = [power |-> "run", src |-> "fallback", z |-> fallbackGoal.z]
     /\ fallbackGoal.valid
     /\ ~(plannerGuided /\ localGoal.valid)
  \/ /\ activeGoal = [power |-> "run", src |-> "hold", z |-> NoSetpoint.z]
     /\ ~fallbackGoal.valid
     /\ ~(plannerGuided /\ localGoal.valid)
  BY Zenon DEF activeGoal, trajFresh, localFresh

LEMMA ActiveGoalType == SetpointsOK => activeGoal \in MotorCommand
  <1>1. \A src \in Source, g \in Setpoint :
          [power |-> "run", src |-> src, z |-> g.z] \in MotorCommand
    BY DEF MotorCommand, Setpoint
  <1>2. QED
    BY <1>1, ActiveGoalCases, DefaultTypes DEF SetpointsOK, Source

-----------------------------------------------------------------------------
(* Types.                                                                  *)

LEMMA CtrlInitType == CtrlInit => CtrlTypeOK
  <1> SUFFICES ASSUME CtrlInit PROVE CtrlTypeOK
    OBVIOUS
  <1>1. FlagsOK
    BY DEF CtrlInit, FlagsOK
  <1>2. AgesOK
    BY TimeoutAssumption DEF CtrlInit, AgesOK
  <1>3. SetpointsOK
    BY DefaultTypes DEF CtrlInit, SetpointsOK
  <1>4. QED
    BY <1>1, <1>2, <1>3 DEF CtrlTypeOK

\* Every action of the node preserves its types.
LEMMA CtrlStepType == CtrlTypeOK /\ [CtrlNext]_ctrlVars => CtrlTypeOK'
  <1> SUFFICES ASSUME FlagsOK, AgesOK, SetpointsOK, [CtrlNext]_ctrlVars
               PROVE  FlagsOK' /\ AgesOK' /\ SetpointsOK'
    BY DEF CtrlTypeOK
  <1> USE DEF goalVars, poseVars, ctrlVars
  <1>1. ASSUME NEW age \in 0 .. PoseCap, onOdom(age)
        PROVE  FlagsOK' /\ AgesOK' /\ SetpointsOK'
    <2>1. FlagsOK'
      BY <1>1 DEF onOdom, FlagsOK
    <2>2. AgesOK'
      BY <1>1, TimeoutAssumption DEF onOdom, AgesOK
    <2>3. SetpointsOK'
      BY <1>1 DEF onOdom, SetpointsOK
    <2>4. QED
      BY <2>1, <2>2, <2>3
  <1>2. CASE onBadOdom
    <2>1. FlagsOK'
      BY <1>2 DEF onBadOdom, FlagsOK
    <2>2. AgesOK' /\ SetpointsOK'
      BY <1>2 DEF onBadOdom, AgesOK, SetpointsOK
    <2>3. QED
      BY <2>1, <2>2
  <1>3. ASSUME NEW z \in Heights, onLocalGoal(z)
        PROVE  FlagsOK' /\ AgesOK' /\ SetpointsOK'
    <2>1. FlagsOK'
      BY <1>3 DEF onLocalGoal, FlagsOK
    <2>2. AgesOK'
      BY <1>3, TimeoutAssumption DEF onLocalGoal, AgesOK
    <2>3. SetpointsOK'
      BY <1>3, ClampInBand, SetpointIntro, SetpointClear
      DEF onLocalGoal, SetpointsOK
    <2>4. QED
      BY <2>1, <2>2, <2>3
  <1>4. ASSUME NEW z \in Heights, onTrajectoryCmd(z)
        PROVE  FlagsOK' /\ AgesOK' /\ SetpointsOK'
    <2>1. FlagsOK'
      BY <1>4 DEF onTrajectoryCmd, FlagsOK
    <2>2. AgesOK'
      BY <1>4, TimeoutAssumption DEF onTrajectoryCmd, AgesOK
    <2>3. SetpointsOK'
      BY <1>4, ClampInBand, SetpointIntro, SetpointClear
      DEF onTrajectoryCmd, SetpointsOK
    <2>4. QED
      BY <2>1, <2>2, <2>3
  <1>5. CASE onTrajectoryClear
    <2>1. FlagsOK' /\ AgesOK'
      BY <1>5 DEF onTrajectoryClear, FlagsOK, AgesOK
    <2>2. SetpointsOK'
      BY <1>5, SetpointClear DEF onTrajectoryClear, SetpointsOK
    <2>3. QED
      BY <2>1, <2>2
  <1>6. ASSUME NEW z \in Heights, onGoal(z)
        PROVE  FlagsOK' /\ AgesOK' /\ SetpointsOK'
    <2>1. FlagsOK' /\ AgesOK'
      BY <1>6 DEF onGoal, FlagsOK, AgesOK
    <2>2. z \in SetpointZ /\ (~plannerGuided) \in BOOLEAN
      BY DEF SetpointZ
    <2>3. SetpointsOK'
      BY <1>6, <2>2, SetpointIntro DEF onGoal, SetpointsOK
    <2>4. QED
      BY <2>1, <2>3
  <1>7. ASSUME NEW sig \in Signatures, onSignature(sig)
        PROVE  FlagsOK' /\ AgesOK' /\ SetpointsOK'
    <2>1. FlagsOK'
      BY <1>7 DEF onSignature, FlagsOK
    <2>2. AgesOK' /\ SetpointsOK'
      BY <1>7 DEF onSignature, AgesOK, SetpointsOK
    <2>3. QED
      BY <2>1, <2>2
  <1>8. CASE onControlCut
    <2>1. FlagsOK' /\ AgesOK'
      BY <1>8 DEF onControlCut, FlagsOK, AgesOK
    <2>2. SetpointsOK'
      BY <1>8, DefaultTypes DEF onControlCut, SetpointsOK
    <2>3. QED
      BY <2>1, <2>2
  <1>9. CASE onControlTrack
    <2>1. FlagsOK' /\ AgesOK'
      BY <1>9 DEF onControlTrack, FlagsOK, AgesOK
    <2>2. SetpointsOK'
      BY <1>9, ActiveGoalType DEF onControlTrack, SetpointsOK
    <2>3. QED
      BY <2>1, <2>2
  <1>10. CASE CtrlCrash
    BY <1>10 DEF CtrlCrash, FlagsOK, AgesOK, SetpointsOK
  <1>11. CASE CtrlAging
    <2>1. FlagsOK' /\ SetpointsOK'
      BY <1>11 DEF CtrlAging, FlagsOK, SetpointsOK
    <2>2. AgesOK'
      BY <1>11, TimeoutAssumption DEF CtrlAging, Capped, AgesOK
    <2>3. QED
      BY <2>1, <2>2
  <1>12. CASE UNCHANGED ctrlVars
    BY <1>12 DEF FlagsOK, AgesOK, SetpointsOK
  <1>13. QED
    BY <1>1, <1>2, <1>3, <1>4, <1>5, <1>6, <1>7, <1>8, <1>9, <1>10, <1>11, <1>12
    DEF CtrlNext, PlannerInput

\* The node's variables keep their types whatever is sent to it, and whenever.
THEOREM CtrlTypeCorrect == CtrlSpec => []CtrlTypeOK
  BY CtrlInitType, CtrlStepType, PTL DEF CtrlSpec

-----------------------------------------------------------------------------
(* The flight band.  A stored planner setpoint was clamped when it came in. *)

BandInv ==
  /\ trajCmd.valid => InBand(trajCmd.z)
  /\ localGoal.valid => InBand(localGoal.z)

LEMMA BandInvStep == SetpointsOK /\ BandInv /\ [CtrlNext]_ctrlVars => BandInv'
  <1> SUFFICES ASSUME SetpointsOK, BandInv, [CtrlNext]_ctrlVars PROVE BandInv'
    OBVIOUS
  <1> USE DEF BandInv, goalVars, poseVars, ctrlVars
  <1>1. ASSUME NEW z \in Heights, onLocalGoal(z) PROVE BandInv'
    BY <1>1, ClampInBand DEF onLocalGoal, InBand
  <1>2. ASSUME NEW z \in Heights, onTrajectoryCmd(z) PROVE BandInv'
    BY <1>2, ClampInBand DEF onTrajectoryCmd, InBand
  <1>3. CASE onTrajectoryClear
    BY <1>3, SetpointClear DEF onTrajectoryClear, SetpointsOK, InBand
  <1>4. CASE UNCHANGED <<trajCmd, localGoal>>
    BY <1>4 DEF InBand
  <1>5. QED
    BY <1>1, <1>2, <1>3, <1>4
    DEF CtrlNext, PlannerInput, onOdom, onBadOdom, onGoal, onSignature,
        onControlCut, onControlTrack, CtrlCrash, CtrlAging

\* Whatever planners send and however late it is tracked, the next control
\* period flies no planner setpoint outside the flight band.
THEOREM FlightBandHolds == CtrlSpec => []FlightBand
  <1>1. CtrlInit => BandInv
    BY DEF CtrlInit, BandInv, NoSetpoint
  <1>2. BandInv => FlightBand
    BY ActiveGoalCases DEF BandInv, FlightBand, InBand
  <1>3. CtrlTypeOK => SetpointsOK
    BY DEF CtrlTypeOK
  <1>4. QED
    BY <1>1, <1>2, <1>3, BandInvStep, CtrlTypeCorrect, PTL DEF CtrlSpec

-----------------------------------------------------------------------------
(* The planner's authority.  Once it guides, the operator's goal is never   *)
(* valid again, and a local goal stays valid for good.                      *)

AuthorityInv == plannerGuided => ~fallbackGoal.valid

AuthorityStep ==
  /\ AuthorityInv'
  /\ plannerGuided => plannerGuided'
  /\ localGoal.valid => localGoal'.valid

LEMMA AuthorityInvStep ==
    SetpointsOK /\ AuthorityInv /\ [CtrlNext]_ctrlVars => AuthorityStep
  <1> SUFFICES ASSUME SetpointsOK, AuthorityInv, [CtrlNext]_ctrlVars
               PROVE  AuthorityStep
    OBVIOUS
  <1> USE DEF AuthorityInv, AuthorityStep, goalVars, poseVars, ctrlVars
  <1>1. ASSUME NEW z \in Heights, onLocalGoal(z) PROVE AuthorityStep
    BY <1>1, SetpointClear DEF onLocalGoal, SetpointsOK
  <1>2. ASSUME NEW z \in Heights, onTrajectoryCmd(z) PROVE AuthorityStep
    BY <1>2, SetpointClear DEF onTrajectoryCmd, SetpointsOK
  <1>3. ASSUME NEW z \in Heights, onGoal(z) PROVE AuthorityStep
    BY <1>3 DEF onGoal
  <1>4. CASE UNCHANGED <<localGoal, fallbackGoal, plannerGuided>>
    BY <1>4
  <1>5. QED
    BY <1>1, <1>2, <1>3, <1>4
    DEF CtrlNext, PlannerInput, onOdom, onBadOdom, onTrajectoryClear, onSignature,
        onControlCut, onControlTrack, CtrlCrash, CtrlAging

\* Once a planner has taken over the controller never leaps to the operator's
\* goal, nor lets go of a local goal, in any later step.
THEOREM PlannerAuthorityHolds == CtrlSpec => PlannerAuthority
  <1> DEFINE Guided ==
        plannerGuided
          => /\ plannerGuided'
             /\ \/ activeGoal'.src \in {"traj", "local"}
                \/ activeGoal'.src = "hold" /\ ~localGoal.valid
  <1>1. CtrlInit => AuthorityInv
    BY DEF CtrlInit, AuthorityInv
  <1>2. AuthorityStep => AuthorityInv'
    BY DEF AuthorityStep
  <1>3. AuthorityStep => Guided
    <2>1. ASSUME AuthorityStep, plannerGuided PROVE Guided
      <3>1. plannerGuided' /\ ~fallbackGoal'.valid
        BY <2>1 DEF AuthorityStep, AuthorityInv
      <3>2. localGoal.valid => localGoal'.valid
        BY <2>1 DEF AuthorityStep
      <3>3. \/ activeGoal'.src \in {"traj", "local"}
            \/ activeGoal'.src = "fallback" /\ fallbackGoal'.valid
            \/ activeGoal'.src = "hold" /\ ~(plannerGuided' /\ localGoal'.valid)
        BY Zenon DEF activeGoal, trajFresh, localFresh
      <3>4. QED
        BY <3>1, <3>2, <3>3
    <2>2. QED
      BY <2>1
  <1>4. CtrlTypeOK => SetpointsOK
    BY DEF CtrlTypeOK
  <1>5. QED
    BY <1>1, <1>2, <1>3, <1>4, AuthorityInvStep, CtrlTypeCorrect, PTL
    DEF CtrlSpec, PlannerAuthority
=============================================================================
