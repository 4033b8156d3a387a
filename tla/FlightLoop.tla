------------------------------ MODULE FlightLoop ------------------------------
(***************************************************************************)
(* The closed flight loop: drone_controller and drone_dynamics, joined by  *)
(* the topics /drone/odom, /drone/motor_rpm_cmd and /drone/plant_signature *)
(* and by the passing of time.                                             *)
(*                                                                         *)
(* Time is discrete, one tick a timer period (both timers run at 100 Hz).  *)
(* In every tick the timer of each live node fires once, early or late, and *)
(* each message is taken or lost before it is older than MaxDelay; beyond  *)
(* that, timers, deliveries and losses interleave freely.                  *)
(* Neither node is respawned by the launch files, so a crash is final.     *)
(***************************************************************************)
EXTENDS Controller, Plant, Sequences

CONSTANTS
  QueueDepth,  \* history depth of the two queues (10 in the code), keep last
  MaxDelay,    \* bound on the age of a message when it is handled, in ticks
  Faults       \* which of FaultKinds happen

FaultKinds == {"loseOdom", "loseMotor", "ctrlCrash", "plantCrash", "nonFinite"}

\* The longest the rotors may run on: a pose may be MaxDelay old when it
\* arrives, is used for OdomTimeout after that, the command takes MaxDelay, the
\* plant keeps it for CmdTimeout, and the last period lasts until the next one.
Grip == OdomTimeout + 2 * MaxDelay + CmdTimeout + 1

ASSUME LoopAssumption ==
  /\ QueueDepth \in Nat \ {0}
  /\ MaxDelay \in Nat
  /\ Faults \subseteq FaultKinds
  /\ PoseCap = Grip + 1

VARIABLES
  odomCh,   \* odometry on its way: the age of each sample, oldest first
  motorCh,  \* motor commands on their way: power, and age since publication
  ctrlDue   \* the control timer has not fired since the last tick

vars == <<ctrlVars, plantVars, odomCh, motorCh, ctrlDue>>

\* Mutant: a keep-all queue.
Enqueue_KeepAll(ch, m) == Append(ch, m)

\* A keep-last queue drops its oldest message when it is full.
Enqueue(ch, m) == IF Len(ch) < QueueDepth THEN Append(ch, m) ELSE Append(Tail(ch), m)

-----------------------------------------------------------------------------
Init ==
  /\ CtrlInit
  /\ PlantInit
  /\ odomCh = <<>>
  /\ motorCh = <<>>
  /\ ctrlDue = TRUE

\* The plant's timer; a live controller's queue gets the sample.
PlantStep ==
  /\ onTimer
  /\ odomCh' = IF ctrlUp THEN Enqueue(odomCh, 0) ELSE <<>>
  /\ UNCHANGED <<ctrlVars, motorCh, ctrlDue>>

\* publish() returns early when the integrated state is not finite.
PlantStepUnpublished ==
  /\ "nonFinite" \in Faults
  /\ onTimer
  /\ UNCHANGED <<ctrlVars, odomCh, motorCh, ctrlDue>>

ReceiveOdom ==
  /\ odomCh # <<>>
  /\ onOdom(Head(odomCh))
  /\ odomCh' = Tail(odomCh)
  /\ UNCHANGED <<plantVars, motorCh, ctrlDue>>

LoseOdom ==
  /\ "loseOdom" \in Faults
  /\ odomCh # <<>>
  /\ odomCh' = Tail(odomCh)
  /\ UNCHANGED <<ctrlVars, plantVars, motorCh, ctrlDue>>

SendMotor ==
  motorCh' = IF plantUp THEN Enqueue(motorCh, [power |-> motorOut'.power, age |-> 0])
                        ELSE <<>>

\* The control timer: track, cut, or return at once for an invalid state.
ControlStep ==
  /\ ctrlDue
  /\ \/ (onControlTrack \/ onControlCut) /\ SendMotor
     \/ ctrlUp /\ ~stateValid /\ UNCHANGED <<ctrlVars, motorCh>>
  /\ ctrlDue' = FALSE
  /\ UNCHANGED <<plantVars, odomCh>>

ReceiveMotor ==
  /\ motorCh # <<>>
  /\ onMotorCommand(Head(motorCh).power)
  /\ motorCh' = Tail(motorCh)
  /\ UNCHANGED <<ctrlVars, odomCh, ctrlDue>>

LoseMotor ==
  /\ "loseMotor" \in Faults
  /\ motorCh # <<>>
  /\ motorCh' = Tail(motorCh)
  /\ UNCHANGED <<ctrlVars, plantVars, odomCh, ctrlDue>>

\* The latched plant signature arrives; a refusal ends the controller.
ReceiveSignature ==
  /\ \E sig \in Signatures : onSignature(sig)
  /\ odomCh' = IF ctrlUp' THEN odomCh ELSE <<>>
  /\ ctrlDue' = (ctrlDue /\ ctrlUp')
  /\ UNCHANGED <<plantVars, motorCh>>

CtrlDies ==
  /\ "ctrlCrash" \in Faults
  /\ CtrlCrash
  /\ odomCh' = <<>>
  /\ ctrlDue' = FALSE
  /\ UNCHANGED <<plantVars, motorCh>>

PlantDies ==
  /\ "plantCrash" \in Faults
  /\ PlantCrash
  /\ motorCh' = <<>>
  /\ UNCHANGED <<ctrlVars, odomCh, ctrlDue>>

PlannerStep ==
  /\ PlannerInput
  /\ UNCHANGED <<plantVars, odomCh, motorCh, ctrlDue>>

\* Time passes only when every timer has fired and no message is overdue.
Tick ==
  /\ ~ctrlDue
  /\ ~plantDue
  /\ \A i \in 1 .. Len(odomCh) : odomCh[i] < MaxDelay
  /\ \A i \in 1 .. Len(motorCh) : motorCh[i].age < MaxDelay
  /\ CtrlAging
  /\ PlantAging
  /\ ctrlDue' = ctrlUp
  /\ odomCh' = [i \in 1 .. Len(odomCh) |-> odomCh[i] + 1]
  /\ motorCh' = [i \in 1 .. Len(motorCh) |->
                   [motorCh[i] EXCEPT !.age = motorCh[i].age + 1]]

Next ==
  \/ PlantStep \/ PlantStepUnpublished
  \/ ReceiveOdom \/ LoseOdom
  \/ ControlStep
  \/ ReceiveMotor \/ LoseMotor
  \/ ReceiveSignature
  \/ CtrlDies \/ PlantDies
  \/ PlannerStep
  \/ Tick

Spec == Init /\ [][Next]_vars

\* The clock, the executors and the middleware keep going; faults, planners and
\* the operator owe nothing.
Fairness ==
  /\ WF_vars(Tick)
  /\ WF_vars(PlantStep)
  /\ WF_vars(ControlStep)
  /\ WF_vars(ReceiveOdom)
  /\ WF_vars(ReceiveMotor)
  /\ WF_vars(ReceiveSignature)

FairSpec == Spec /\ Fairness

-----------------------------------------------------------------------------
MotorMessage == [power : {"off", "run"}, age : 0 .. MaxDelay]

TypeOK ==
  /\ CtrlTypeOK
  /\ PlantTypeOK
  /\ odomCh \in Seq(0 .. MaxDelay) /\ Len(odomCh) <= QueueDepth
  /\ motorCh \in Seq(MotorMessage) /\ Len(motorCh) <= QueueDepth
  /\ ctrlDue \in BOOLEAN

\* End to end, through two watchdogs, two lossy queues and two crashes: the
\* plant never integrates a running rotor when the newest pose the controller
\* has is older than Grip.  The controller sends ONE zero command; if that is
\* lost, the bound still holds by the plant's own time-out.
FailSafe == applied = "run" => poseAge <= Grip

\* The strengthening of FailSafe that every step preserves: how old the pose
\* can be that stands behind the state, each message, the held command and the
\* running rotors.
PoseBehindState == odomAge <= OdomTimeout => poseAge <= odomAge + MaxDelay
PoseBehindMessages ==
  \A i \in 1 .. Len(motorCh) :
    motorCh[i].power = "run" => poseAge <= OdomTimeout + MaxDelay + motorCh[i].age
PoseBehindCommand ==
  motorCmd = "run" /\ cmdAge <= CmdTimeout
    => poseAge <= OdomTimeout + 2 * MaxDelay + cmdAge
PoseBehindRotors ==
  applied = "run" => poseAge <= Grip - (IF plantDue THEN 0 ELSE 1)
DeadPlantIsStill == ~plantUp => applied = "off" /\ ~plantDue

PoseInv ==
  /\ PoseBehindState
  /\ PoseBehindMessages
  /\ PoseBehindCommand
  /\ PoseBehindRotors
  /\ DeadPlantIsStill

\* The loop implements the dead man's switch, step by step.
Switch == INSTANCE DeadManSwitch WITH Cap <- PoseCap, basis <- poseAge, power <- applied
DeadMan == Switch!Spec

\* With no faults, the two watchdogs never cut a healthy vehicle: timer jitter
\* and transport delays within MaxDelay stay inside both time-outs.
NoFalseCut ==
  [][ Faults = {} /\ ctrlUp /\ ctrlUp' =>
        /\ ~(stateValid /\ ~stateValid')
        /\ ~(applied = "run" /\ applied' = "off") ]_vars

\* With no faults the vehicle takes off and keeps its rotors running.
NominalFlight == Faults = {} => <>[](applied = "run")

\* A full queue gives up its oldest sample for a new one.
Overflow(ch, next) == Len(ch) = QueueDepth /\ Len(next) = QueueDepth /\ next # ch

\* A cut is not sticky: once nothing is lost any more, on the way or to a full
\* queue, a loop whose nodes live on flies again for good.
Losses ==
  \/ LoseOdom \/ LoseMotor \/ PlantStepUnpublished
  \/ Next /\ (Overflow(odomCh, odomCh') \/ Overflow(motorCh, motorCh'))
RecoversFromLoss ==
  []<><<Losses>>_vars \/ <>[](~ctrlUp \/ ~plantUp \/ applied = "run")

\* A controller that crashed or refused leaves the rotors stopped for good, with
\* nobody left to send the zero command.
DeadControllerStops == ~ctrlUp ~> [](applied = "off")

\* A plant with another signature ends up on the ground, though the message with
\* the zero command may be lost.
MismatchGrounds == plantSig = "refused" ~> [](applied = "off")
=============================================================================
