--------------------------- MODULE FlightLoopProofs ---------------------------
(***************************************************************************)
(* Theorems about the closed flight loop, for every value of its time-outs,*)
(* queue depth, delay bound and set of faults: the loop runs the           *)
(* controller of module Controller, and whatever is lost or crashes the    *)
(* rotors never run on a pose older than Grip.                             *)
(***************************************************************************)
EXTENDS FlightLoop, ControllerProofs

-----------------------------------------------------------------------------
(* Lemmas about the queues.                                                *)

LEMMA EnqueueType ==
  ASSUME NEW S, NEW ch \in Seq(S), NEW m \in S, Len(ch) <= QueueDepth
  PROVE  Enqueue(ch, m) \in Seq(S) /\ Len(Enqueue(ch, m)) <= QueueDepth
  BY LoopAssumption DEF Enqueue

\* A queued message was queued before, or is the new one.
LEMMA EnqueueMembers ==
  ASSUME NEW S, NEW ch \in Seq(S), NEW m \in S,
         NEW i \in 1 .. Len(Enqueue(ch, m))
  PROVE  \/ Enqueue(ch, m)[i] = m
         \/ \E j \in 1 .. Len(ch) : Enqueue(ch, m)[i] = ch[j]
  <1>1. CASE Len(ch) < QueueDepth
    BY <1>1 DEF Enqueue
  <1>2. CASE ~(Len(ch) < QueueDepth)
    <2>1. ch # <<>>
      BY <1>2, LoopAssumption
    <2>2. /\ Tail(ch) \in Seq(S)
          /\ Len(Tail(ch)) = Len(ch) - 1
          /\ \A k \in 1 .. Len(Tail(ch)) : Tail(ch)[k] = ch[k + 1]
      BY <2>1
    <2>3. Enqueue(ch, m) = Append(Tail(ch), m)
      BY <1>2 DEF Enqueue
    <2>4. CASE i = Len(Tail(ch)) + 1
      BY <2>2, <2>3, <2>4
    <2>5. CASE i \in 1 .. Len(Tail(ch))
      <3>1. Enqueue(ch, m)[i] = ch[i + 1] /\ i + 1 \in 1 .. Len(ch)
        BY <2>2, <2>3, <2>5
      <3>2. QED
        BY <3>1
    <2>6. i = Len(Tail(ch)) + 1 \/ i \in 1 .. Len(Tail(ch))
      <3>1. Len(Append(Tail(ch), m)) = Len(Tail(ch)) + 1
        BY <2>2
      <3>2. Len(Tail(ch)) \in Nat
        BY <2>2
      <3>3. i \in 1 .. Len(Append(Tail(ch), m))
        BY <2>3
      <3>4. QED
        BY <3>1, <3>2, <3>3
    <2>7. QED
      BY <2>4, <2>5, <2>6
  <1>3. QED
    BY <1>1, <1>2

LEMMA FunctionIsSeq ==
  ASSUME NEW S, NEW n \in Nat, NEW f \in [1 .. n -> S]
  PROVE  f \in Seq(S) /\ Len(f) = n
  OBVIOUS

\* What is left of a queue was in it before.
LEMMA TailMembers ==
  ASSUME NEW S, NEW ch \in Seq(S), ch # <<>>
  PROVE  /\ Head(ch) \in S /\ Head(ch) = ch[1] /\ 1 \in 1 .. Len(ch)
         /\ Tail(ch) \in Seq(S)
         /\ Len(Tail(ch)) <= Len(ch)
         /\ \A i \in 1 .. Len(Tail(ch)) :
              i + 1 \in 1 .. Len(ch) /\ Tail(ch)[i] = ch[i + 1]
  OBVIOUS

-----------------------------------------------------------------------------
(* The loop drives the controller only as CtrlSpec allows.                 *)

LEMMA GripFacts ==
  /\ Grip \in Nat
  /\ PoseCap = Grip + 1
  /\ MaxDelay \in Nat /\ MaxDelay <= Grip
  /\ OdomTimeout \in Nat /\ CmdTimeout \in Nat
  BY LoopAssumption, TimeoutAssumption, CmdTimeoutAssumption DEF Grip

LEMMA StepRefinesController == TypeOK /\ [Next]_vars => [CtrlNext]_ctrlVars
  <1> SUFFICES ASSUME TypeOK, [Next]_vars PROVE [CtrlNext]_ctrlVars
    OBVIOUS
  <1>1. CASE ReceiveOdom
    <2>1. Head(odomCh) \in 0 .. PoseCap
      BY <1>1, TailMembers, GripFacts DEF TypeOK, ReceiveOdom
    <2>2. QED
      BY <1>1, <2>1 DEF ReceiveOdom, CtrlNext
  <1>2. CASE ControlStep
    BY <1>2 DEF ControlStep, CtrlNext
  <1>3. CASE ReceiveSignature
    BY <1>3 DEF ReceiveSignature, CtrlNext
  <1>4. CASE CtrlDies
    BY <1>4 DEF CtrlDies, CtrlNext
  <1>5. CASE PlannerStep
    BY <1>5 DEF PlannerStep, CtrlNext
  <1>6. CASE Tick
    BY <1>6 DEF Tick, CtrlNext
  <1>7. CASE UNCHANGED ctrlVars
    BY <1>7
  <1>8. QED
    BY <1>1, <1>2, <1>3, <1>4, <1>5, <1>6, <1>7
    DEF Next, PlantStep, PlantStepUnpublished, LoseOdom, ReceiveMotor, LoseMotor,
        PlantDies, vars

-----------------------------------------------------------------------------
(* Types.                                                                  *)

LEMMA InitType == Init => TypeOK
  <1> SUFFICES ASSUME Init PROVE TypeOK
    OBVIOUS
  <1>1. CtrlTypeOK
    BY CtrlInitType DEF Init
  <1>2. PlantTypeOK
    <2>1. plantUp \in BOOLEAN /\ plantDue \in BOOLEAN
      BY DEF Init, PlantInit
    <2>2. motorCmd \in {"off", "run"} /\ applied \in {"off", "run"}
      BY DEF Init, PlantInit
    <2>3. cmdAge \in 0 .. CmdTimeout + 1
      BY CmdTimeoutAssumption DEF Init, PlantInit
    <2>4. QED
      BY <2>1, <2>2, <2>3 DEF PlantTypeOK
  <1>3. odomCh \in Seq(0 .. MaxDelay) /\ motorCh \in Seq(MotorMessage)
    BY DEF Init
  <1>4. Len(odomCh) <= QueueDepth /\ Len(motorCh) <= QueueDepth
    BY LoopAssumption DEF Init
  <1>5. ctrlDue \in BOOLEAN
    BY DEF Init
  <1>6. QED
    BY <1>1, <1>2, <1>3, <1>4, <1>5 DEF TypeOK

QueuesOK ==
  /\ odomCh \in Seq(0 .. MaxDelay) /\ Len(odomCh) <= QueueDepth
  /\ motorCh \in Seq(MotorMessage) /\ Len(motorCh) <= QueueDepth

\* A message that is not overdue may grow a tick older.
LEMMA OlderMessage ==
  ASSUME NEW m \in MotorMessage, m.age < MaxDelay
  PROVE  /\ [m EXCEPT !.age = m.age + 1] \in MotorMessage
         /\ [m EXCEPT !.age = m.age + 1].power = m.power
         /\ [m EXCEPT !.age = m.age + 1].age = m.age + 1
  BY LoopAssumption DEF MotorMessage

\* Every step keeps the queues typed and within their depth.
LEMMA QueuesStep == TypeOK /\ [Next]_vars => QueuesOK'
  <1> SUFFICES ASSUME TypeOK, [Next]_vars PROVE QueuesOK'
    OBVIOUS
  <1>1. QueuesOK
    BY DEF TypeOK, QueuesOK
  <1>2. /\ <<>> \in Seq(0 .. MaxDelay) /\ <<>> \in Seq(MotorMessage)
        /\ Len(<<>>) <= QueueDepth
    BY LoopAssumption
  <1>3. ASSUME UNCHANGED motorCh, odomCh' = <<>> PROVE QueuesOK'
    BY <1>1, <1>2, <1>3 DEF QueuesOK
  <1>4. ASSUME UNCHANGED motorCh, odomCh # <<>>, odomCh' = Tail(odomCh)
        PROVE  QueuesOK'
    <2>1. Tail(odomCh) \in Seq(0 .. MaxDelay) /\ Len(Tail(odomCh)) <= Len(odomCh)
      BY <1>1, <1>4, TailMembers DEF QueuesOK
    <2>2. QED
      BY <1>1, <1>4, <2>1, LoopAssumption DEF QueuesOK
  <1>5. ASSUME UNCHANGED odomCh, motorCh # <<>>, motorCh' = Tail(motorCh)
        PROVE  QueuesOK'
    <2>1. Tail(motorCh) \in Seq(MotorMessage) /\ Len(Tail(motorCh)) <= Len(motorCh)
      BY <1>1, <1>5, TailMembers DEF QueuesOK
    <2>2. QED
      BY <1>1, <1>5, <2>1, LoopAssumption DEF QueuesOK
  <1>6. CASE UNCHANGED <<odomCh, motorCh>>
    BY <1>1, <1>6 DEF QueuesOK
  <1>7. CASE PlantStep
    <2>1. CASE ~ctrlUp
      BY <1>3, <1>7, <2>1 DEF PlantStep
    <2>2. CASE ctrlUp
      <3>1. 0 \in 0 .. MaxDelay
        BY LoopAssumption
      <3>2. odomCh' = Enqueue(odomCh, 0) /\ motorCh' = motorCh
        BY <1>7, <2>2 DEF PlantStep
      <3>3. QED
        BY <1>1, <3>1, <3>2, EnqueueType DEF QueuesOK
    <2>3. QED
      BY <2>1, <2>2
  <1>8. CASE ControlStep
    <2>1. CASE UNCHANGED motorCh
      BY <1>6, <1>8, <2>1 DEF ControlStep
    <2>2. CASE (onControlTrack \/ onControlCut) /\ SendMotor
      <3> DEFINE m == [power |-> motorOut'.power, age |-> 0]
      <3>1. CtrlTypeOK'
        BY StepRefinesController, CtrlStepType DEF TypeOK
      <3>2. m \in MotorMessage
        BY <3>1, LoopAssumption
        DEF CtrlTypeOK, SetpointsOK, MotorCommand, MotorMessage
      <3>3. motorCh' = Enqueue(motorCh, m) \/ motorCh' = <<>>
        BY <2>2 DEF SendMotor
      <3>4. odomCh' = odomCh
        BY <1>8 DEF ControlStep
      <3>5. QED
        BY <1>1, <1>2, <3>2, <3>3, <3>4, EnqueueType DEF QueuesOK
    <2>3. QED
      BY <1>8, <2>1, <2>2 DEF ControlStep
  <1>9. CASE Tick
    <2>1. odomCh' \in Seq(0 .. MaxDelay) /\ Len(odomCh') = Len(odomCh)
      <3>1. \A i \in 1 .. Len(odomCh) : odomCh[i] + 1 \in 0 .. MaxDelay
        BY <1>1, <1>9, LoopAssumption DEF QueuesOK, Tick
      <3>2. QED
        BY <1>1, <1>9, <3>1 DEF QueuesOK, Tick
    <2>2. motorCh' \in Seq(MotorMessage) /\ Len(motorCh') = Len(motorCh)
      <3>1. \A i \in 1 .. Len(motorCh) :
              [motorCh[i] EXCEPT !.age = motorCh[i].age + 1] \in MotorMessage
        <4>1. \A i \in 1 .. Len(motorCh) :
                motorCh[i] \in MotorMessage /\ motorCh[i].age < MaxDelay
          BY <1>1, <1>9 DEF QueuesOK, Tick
        <4>2. QED
          BY <4>1, OlderMessage
      <3> DEFINE older == [i \in 1 .. Len(motorCh) |->
                             [motorCh[i] EXCEPT !.age = motorCh[i].age + 1]]
      <3>0. motorCh' = older
        BY <1>9 DEF Tick
      <3>1a. older \in [1 .. Len(motorCh) -> MotorMessage]
        BY <3>1, Zenon
      <3>2. motorCh' \in [1 .. Len(motorCh) -> MotorMessage]
        BY <3>0, <3>1a, Zenon
      <3>3. Len(motorCh) \in Nat
        BY <1>1 DEF QueuesOK
      <3>4. QED
        BY <3>2, <3>3, FunctionIsSeq
    <2>3. QED
      BY <1>1, <2>1, <2>2 DEF QueuesOK
  <1>10. QED
    <2>1. CASE ReceiveSignature
      BY <1>3, <1>6, <2>1 DEF ReceiveSignature
    <2>2. CASE CtrlDies
      BY <1>3, <2>2 DEF CtrlDies
    <2>3. CASE PlantDies
      BY <1>1, <1>2, <2>3 DEF PlantDies, QueuesOK
    <2>4. CASE ReceiveOdom \/ LoseOdom
      BY <1>4, <2>4 DEF ReceiveOdom, LoseOdom
    <2>5. CASE ReceiveMotor \/ LoseMotor
      BY <1>5, <2>5 DEF ReceiveMotor, LoseMotor
    <2>6. CASE PlantStepUnpublished \/ PlannerStep \/ UNCHANGED vars
      BY <1>6, <2>6 DEF PlantStepUnpublished, PlannerStep, vars
    <2>7. QED
      BY <1>7, <1>8, <1>9, <2>1, <2>2, <2>3, <2>4, <2>5, <2>6 DEF Next

LEMMA PlantStep_Type == TypeOK /\ [Next]_vars => PlantTypeOK'
  <1> SUFFICES ASSUME PlantTypeOK, TypeOK, [Next]_vars PROVE PlantTypeOK'
    BY DEF TypeOK
  <1> USE DEF plantVars
  <1>1. CASE UNCHANGED plantVars
    BY <1>1 DEF PlantTypeOK
  <1>2. CASE onTimer
    BY <1>2 DEF onTimer, PlantTypeOK
  <1>3. CASE ReceiveMotor
    <2>1. Head(motorCh) \in MotorMessage
      BY <1>3, TailMembers DEF ReceiveMotor, TypeOK
    <2>2. Head(motorCh).power \in {"off", "run"}
      BY <2>1 DEF MotorMessage
    <2>3. onMotorCommand(Head(motorCh).power)
      BY <1>3 DEF ReceiveMotor
    <2>4. cmdAge' \in 0 .. CmdTimeout + 1
      BY <2>3, CmdTimeoutAssumption DEF onMotorCommand
    <2>5. motorCmd' \in {"off", "run"}
      BY <2>2, <2>3 DEF onMotorCommand
    <2>6. QED
      BY <2>3, <2>4, <2>5 DEF onMotorCommand, PlantTypeOK
  <1>4. CASE PlantCrash
    BY <1>4 DEF PlantCrash, PlantTypeOK
  <1>5. CASE PlantAging
    <2>1. cmdAge' \in 0 .. CmdTimeout + 1
      BY <1>5, CmdTimeoutAssumption DEF PlantAging, PlantTypeOK
    <2>2. QED
      BY <1>5, <2>1 DEF PlantAging, PlantTypeOK
  <1>6. QED
    BY <1>1, <1>2, <1>3, <1>4, <1>5
    DEF Next, vars, PlantStep, PlantStepUnpublished, ReceiveOdom, LoseOdom,
        ControlStep, LoseMotor, ReceiveSignature, CtrlDies, PlantDies,
        PlannerStep, Tick

LEMMA CtrlDueType == TypeOK /\ [Next]_vars => ctrlDue' \in BOOLEAN
  <1> SUFFICES ASSUME TypeOK, [Next]_vars PROVE ctrlDue' \in BOOLEAN
    OBVIOUS
  <1>1. ctrlUp \in BOOLEAN /\ ctrlDue \in BOOLEAN
    BY DEF TypeOK, CtrlTypeOK, FlagsOK
  <1>2. CASE ctrlDue' = ctrlDue \/ ctrlDue' = FALSE \/ ctrlDue' = ctrlUp
    BY <1>1, <1>2
  <1>3. CASE ReceiveSignature
    BY <1>3 DEF ReceiveSignature
  <1>4. QED
    BY <1>2, <1>3
    DEF Next, vars, PlantStep, PlantStepUnpublished, ReceiveOdom, LoseOdom,
        ControlStep, ReceiveMotor, LoseMotor, CtrlDies, PlantDies, PlannerStep, Tick

\* The loop's variables keep their types, and no queue outgrows its depth.
THEOREM TypeCorrect == Spec => []TypeOK
  <1>1. TypeOK /\ [Next]_vars => TypeOK'
    <2>1. TypeOK => CtrlTypeOK
      BY DEF TypeOK
    <2>2. QED
      BY <2>1, StepRefinesController, CtrlStepType, PlantStep_Type, QueuesStep, CtrlDueType
      DEF TypeOK, QueuesOK
  <1>2. QED
    BY InitType, <1>1, PTL DEF Spec

\* Seen from the controller, the loop is a behaviour of CtrlSpec: what is proved
\* of the node in any environment holds of it in the loop.
THEOREM LoopRefinesController == Spec => CtrlSpec
  <1>1. Init => CtrlInit
    BY DEF Init
  <1>2. QED
    BY <1>1, StepRefinesController, TypeCorrect, PTL DEF Spec, CtrlSpec

-----------------------------------------------------------------------------
(* The dead man's switch.  PoseInv bounds the age of the pose behind the    *)
(* controller's state, each motor command in the queue, the command the     *)
(* plant holds and the rotors; each step hands one bound on to the next.    *)

LEMMA InitPoseInv == Init => PoseInv
  <1> SUFFICES ASSUME Init PROVE PoseInv
    OBVIOUS
  <1>1. PoseBehindState
    BY GripFacts DEF Init, CtrlInit, PoseBehindState
  <1>2. PoseBehindMessages
    BY DEF Init, PoseBehindMessages
  <1>3. PoseBehindCommand /\ PoseBehindRotors
    BY DEF Init, PlantInit, PoseBehindCommand, PoseBehindRotors
  <1>4. DeadPlantIsStill
    <2>1. plantUp
      BY DEF Init, PlantInit
    <2>2. QED
      BY <2>1 DEF DeadPlantIsStill
  <1>5. QED
    BY <1>1, <1>2, <1>3, <1>4 DEF PoseInv

\* The values the ages and the queued messages have.
LEMMA AgeFacts ==
  ASSUME TypeOK
  PROVE  /\ odomAge \in Nat /\ poseAge \in Nat /\ cmdAge \in Nat
         /\ poseAge <= Grip + 1
         /\ odomCh \in Seq(0 .. MaxDelay)
         /\ motorCh \in Seq(MotorMessage)
         /\ \A i \in 1 .. Len(motorCh) : motorCh[i].age \in 0 .. MaxDelay
  <1>1. odomAge \in Nat /\ poseAge \in Nat /\ poseAge <= Grip + 1
    BY GripFacts DEF TypeOK, CtrlTypeOK, AgesOK
  <1>2. cmdAge \in Nat
    BY GripFacts DEF TypeOK, PlantTypeOK
  <1>3. odomCh \in Seq(0 .. MaxDelay) /\ motorCh \in Seq(MotorMessage)
    BY DEF TypeOK
  <1>4. \A i \in 1 .. Len(motorCh) : motorCh[i].age \in 0 .. MaxDelay
    <2>1. \A i \in 1 .. Len(motorCh) : motorCh[i] \in MotorMessage
      BY <1>3
    <2>2. \A m \in MotorMessage : m.age \in 0 .. MaxDelay
      BY DEF MotorMessage
    <2>3. QED
      BY <2>1, <2>2, Zenon
  <1>5. QED
    BY <1>1, <1>2, <1>3, <1>4, Zenon

\* A new measurement rejuvenates every bound at once.
LEMMA PoseInvReceiveOdom == TypeOK /\ PoseInv /\ ReceiveOdom => PoseInv'
  <1> SUFFICES ASSUME TypeOK, PoseInv, ReceiveOdom PROVE PoseInv'
    OBVIOUS
  <1> USE DEF PoseInv, plantVars
  <1>1. /\ poseAge' \in 0 .. MaxDelay
        /\ odomAge' = 0
        /\ UNCHANGED <<plantVars, motorCh>>
    BY TailMembers DEF ReceiveOdom, onOdom, TypeOK
  <1>2. PoseBehindState'
    BY <1>1, GripFacts DEF PoseBehindState
  <1>3. PoseBehindMessages'
    BY <1>1, AgeFacts, GripFacts DEF PoseBehindMessages
  <1>4. PoseBehindCommand'
    BY <1>1, AgeFacts, GripFacts DEF PoseBehindCommand
  <1>5. PoseBehindRotors'
    BY <1>1, GripFacts DEF PoseBehindRotors, Grip
  <1>6. DeadPlantIsStill'
    BY <1>1 DEF DeadPlantIsStill
  <1>7. QED
    BY <1>2, <1>3, <1>4, <1>5, <1>6

\* The rotors run on the held command, and only while that is fresh.
LEMMA PoseInvTimer ==
    TypeOK /\ PoseInv /\ onTimer /\ UNCHANGED <<ctrlVars, motorCh>> => PoseInv'
  <1> SUFFICES ASSUME TypeOK, PoseInv, onTimer, UNCHANGED <<ctrlVars, motorCh>>
               PROVE  PoseInv'
    OBVIOUS
  <1> USE DEF PoseInv, onTimer, ctrlVars, poseVars
  <1>1. PoseBehindState'
    BY DEF PoseBehindState
  <1>2. PoseBehindMessages'
    BY DEF PoseBehindMessages
  <1>3. PoseBehindCommand'
    BY DEF PoseBehindCommand
  <1>4. PoseBehindRotors'
    BY AgeFacts, GripFacts DEF PoseBehindRotors, PoseBehindCommand, Grip
  <1>5. DeadPlantIsStill'
    BY DEF DeadPlantIsStill
  <1>6. QED
    BY <1>1, <1>2, <1>3, <1>4, <1>5

\* A running command is published only on a pose the watchdog lets through.
LEMMA PoseInvControl == TypeOK /\ PoseInv /\ ControlStep => PoseInv'
  <1> SUFFICES ASSUME TypeOK, PoseInv, ControlStep PROVE PoseInv'
    OBVIOUS
  <1> USE DEF PoseInv, plantVars
  <1>1. UNCHANGED <<odomAge, poseAge, plantVars>>
    BY DEF ControlStep, onControlTrack, onControlCut, ctrlVars, poseVars
  <1>2. PoseBehindMessages'
    <2>1. CASE UNCHANGED motorCh
      BY <1>1, <2>1 DEF PoseBehindMessages
    <2>2. CASE (onControlTrack \/ onControlCut) /\ SendMotor
      <3> DEFINE m == [power |-> motorOut'.power, age |-> 0]
      <3>1. m.power = "run" => poseAge <= OdomTimeout + MaxDelay
        <4>1. CASE onControlCut
          BY <4>1 DEF onControlCut, Cut
        <4>2. CASE onControlTrack
          BY <4>2, AgeFacts, GripFacts DEF onControlTrack, PoseBehindState
        <4>3. QED
          BY <2>2, <4>1, <4>2
      <3>2. m \in MotorMessage
        <4>1. motorOut' \in MotorCommand
          BY CtrlStepType, StepRefinesController
          DEF TypeOK, CtrlTypeOK, SetpointsOK, Next
        <4>2. QED
          BY <4>1, LoopAssumption DEF MotorCommand, MotorMessage
      <3>3. CASE motorCh' = <<>>
        BY <3>3 DEF PoseBehindMessages
      <3>4. CASE motorCh' = Enqueue(motorCh, m)
        <4> SUFFICES ASSUME NEW i \in 1 .. Len(Enqueue(motorCh, m)),
                            Enqueue(motorCh, m)[i].power = "run"
                     PROVE  poseAge <= OdomTimeout + MaxDelay
                                         + Enqueue(motorCh, m)[i].age
          BY <1>1, <3>4 DEF PoseBehindMessages
        <4>1. CASE Enqueue(motorCh, m)[i] = m
          BY <3>1, <4>1, AgeFacts, GripFacts
        <4>2. CASE \E j \in 1 .. Len(motorCh) : Enqueue(motorCh, m)[i] = motorCh[j]
          BY <4>2 DEF PoseBehindMessages
        <4>3. QED
          BY <3>2, <4>1, <4>2, AgeFacts, EnqueueMembers
      <3>5. QED
        BY <2>2, <3>3, <3>4 DEF SendMotor
    <2>3. QED
      BY <2>1, <2>2 DEF ControlStep
  <1>3. PoseBehindState' /\ PoseBehindCommand' /\ PoseBehindRotors'
    BY <1>1 DEF PoseBehindState, PoseBehindCommand, PoseBehindRotors
  <1>4. DeadPlantIsStill'
    BY <1>1 DEF DeadPlantIsStill
  <1>5. QED
    BY <1>2, <1>3, <1>4

\* The plant holds a command that took at most MaxDelay to arrive.
LEMMA PoseInvReceiveMotor == TypeOK /\ PoseInv /\ ReceiveMotor => PoseInv'
  <1> SUFFICES ASSUME TypeOK, PoseInv, ReceiveMotor PROVE PoseInv'
    OBVIOUS
  <1> USE DEF PoseInv
  <1>1. /\ UNCHANGED <<odomAge, poseAge, plantUp, applied, plantDue>>
        /\ motorCh # <<>>
        /\ motorCmd' = motorCh[1].power /\ cmdAge' = 0
        /\ motorCh' = Tail(motorCh)
    BY AgeFacts, TailMembers
    DEF ReceiveMotor, onMotorCommand, ctrlVars, poseVars
  <1>2. PoseBehindMessages'
    BY <1>1, AgeFacts, TailMembers DEF PoseBehindMessages
  <1>3. PoseBehindCommand'
    <2>1. 1 \in 1 .. Len(motorCh)
      BY <1>1, AgeFacts, TailMembers
    <2>2. motorCh[1].power = "run"
            => poseAge <= OdomTimeout + MaxDelay + motorCh[1].age
      BY <2>1 DEF PoseBehindMessages
    <2>3. QED
      BY <1>1, <2>1, <2>2, AgeFacts, GripFacts DEF PoseBehindCommand
  <1>4. PoseBehindState' /\ PoseBehindRotors'
    BY <1>1 DEF PoseBehindState, PoseBehindRotors
  <1>5. DeadPlantIsStill'
    BY <1>1 DEF DeadPlantIsStill
  <1>6. QED
    BY <1>2, <1>3, <1>4, <1>5

\* Time adds one to each side of every bound.
LEMMA PoseInvTick == TypeOK /\ PoseInv /\ Tick => PoseInv'
  <1> SUFFICES ASSUME TypeOK, PoseInv, Tick PROVE PoseInv'
    OBVIOUS
  <1> USE DEF PoseInv
  <1>1. /\ poseAge' \in Nat /\ poseAge' <= poseAge + 1
        /\ odomAge' = IF odomAge < OdomTimeout + 1 THEN odomAge + 1
                                                   ELSE OdomTimeout + 1
        /\ cmdAge' = IF cmdAge < CmdTimeout + 1 THEN cmdAge + 1
                                                ELSE CmdTimeout + 1
    BY AgeFacts, GripFacts DEF Tick, CtrlAging, PlantAging, Capped
  <1>2. motorCmd' = motorCmd /\ applied' = applied
    BY DEF Tick, PlantAging
  <1>3. ~plantDue /\ plantDue' = plantUp /\ plantUp' = plantUp
    BY DEF Tick, PlantAging
  <1>4. PoseBehindState'
    BY <1>1, AgeFacts, GripFacts DEF PoseBehindState
  <1>5. PoseBehindMessages'
    <2>1. /\ Len(motorCh') = Len(motorCh)
          /\ \A i \in 1 .. Len(motorCh) :
               /\ motorCh'[i].power = motorCh[i].power
               /\ motorCh'[i].age = motorCh[i].age + 1
      <3>1. motorCh' = [i \in 1 .. Len(motorCh) |->
                          [motorCh[i] EXCEPT !.age = motorCh[i].age + 1]]
        BY DEF Tick
      <3>2. \A i \in 1 .. Len(motorCh) :
              motorCh[i] \in MotorMessage /\ motorCh[i].age < MaxDelay
        BY AgeFacts DEF Tick
      <3>3. \A i \in 1 .. Len(motorCh) :
              motorCh'[i] = [motorCh[i] EXCEPT !.age = motorCh[i].age + 1]
        BY <3>1, Zenon
      <3>4. Len(motorCh') = Len(motorCh)
        BY <3>1, AgeFacts
      <3>5. QED
        BY <3>2, <3>3, <3>4, OlderMessage
    <2>2. ASSUME NEW i \in 1 .. Len(motorCh), motorCh[i].power = "run"
          PROVE  poseAge' <= OdomTimeout + MaxDelay + (motorCh[i].age + 1)
      <3>1. poseAge <= OdomTimeout + MaxDelay + motorCh[i].age
        BY <2>2 DEF PoseBehindMessages
      <3>2. motorCh[i].age \in Nat
        BY AgeFacts
      <3>3. QED
        BY <1>1, <3>1, <3>2, AgeFacts, GripFacts
    <2>3. QED
      BY <2>1, <2>2, Zenon DEF PoseBehindMessages
  <1>6. PoseBehindCommand'
    <2> SUFFICES ASSUME motorCmd = "run", cmdAge' <= CmdTimeout
                 PROVE  poseAge' <= OdomTimeout + 2 * MaxDelay + cmdAge'
      BY <1>2 DEF PoseBehindCommand
    <2>1. cmdAge \in Nat /\ CmdTimeout \in Nat
      BY AgeFacts, GripFacts
    <2>2. cmdAge' = cmdAge + 1 /\ cmdAge <= CmdTimeout
      BY <1>1, <2>1
    <2>3. poseAge <= OdomTimeout + 2 * MaxDelay + cmdAge
      BY <2>2 DEF PoseBehindCommand
    <2>4. QED
      BY <1>1, <2>1, <2>2, <2>3, AgeFacts, GripFacts
  <1>7. PoseBehindRotors'
    <2>1. CASE applied = "run"
      <3>1. plantDue'
        BY <1>3, <2>1 DEF DeadPlantIsStill
      <3>2. poseAge <= Grip - 1
        BY <1>3, <2>1, GripFacts DEF PoseBehindRotors
      <3>3. poseAge' <= Grip
        BY <1>1, <3>2, AgeFacts, GripFacts
      <3>4. QED
        BY <1>2, <3>1, <3>3, GripFacts DEF PoseBehindRotors
    <2>2. CASE applied # "run"
      BY <1>2, <2>2 DEF PoseBehindRotors
    <2>3. QED
      BY <2>1, <2>2
  <1>8. DeadPlantIsStill'
    BY <1>2, <1>3 DEF DeadPlantIsStill
  <1>9. QED
    BY <1>4, <1>5, <1>6, <1>7, <1>8

\* A step that leaves the ages and the plant alone, and adds no message.
LEMMA PoseInvUntouched ==
  ASSUME PoseInv, TypeOK,
         UNCHANGED <<odomAge, poseAge, plantVars>>,
         motorCh' = motorCh \/ (motorCh # <<>> /\ motorCh' = Tail(motorCh))
  PROVE  PoseInv'
  <1> USE DEF PoseInv, plantVars
  <1>1. PoseBehindMessages'
    <2>1. CASE motorCh' = motorCh
      BY <2>1 DEF PoseBehindMessages
    <2>2. CASE motorCh # <<>> /\ motorCh' = Tail(motorCh)
      BY <2>2, AgeFacts, TailMembers DEF PoseBehindMessages
    <2>3. QED
      BY <2>1, <2>2
  <1>2. PoseBehindState' /\ PoseBehindCommand' /\ PoseBehindRotors'
    BY DEF PoseBehindState, PoseBehindCommand, PoseBehindRotors
  <1>3. DeadPlantIsStill'
    BY DEF DeadPlantIsStill
  <1>4. QED
    BY <1>1, <1>2, <1>3

\* A plant that dies takes its queue and its rotors with it.
LEMMA PoseInvPlantDies == PoseInv /\ PlantDies => PoseInv'
  <1> SUFFICES ASSUME PoseInv, PlantDies PROVE PoseInv'
    OBVIOUS
  <1> USE DEF PoseInv
  <1>1. /\ UNCHANGED <<odomAge, poseAge, motorCmd, cmdAge>>
        /\ applied' = "off" /\ ~plantDue' /\ motorCh' = <<>>
    BY DEF PlantDies, PlantCrash, ctrlVars, poseVars
  <1>2. PoseBehindState' /\ PoseBehindCommand' /\ PoseBehindRotors'
    BY <1>1 DEF PoseBehindState, PoseBehindCommand, PoseBehindRotors
  <1>3. PoseBehindMessages'
    BY <1>1 DEF PoseBehindMessages
  <1>4. DeadPlantIsStill'
    BY <1>1, Zenon DEF DeadPlantIsStill
  <1>5. QED
    BY <1>2, <1>3, <1>4

LEMMA PoseInvStep == TypeOK /\ PoseInv /\ [Next]_vars => PoseInv'
  <1> SUFFICES ASSUME TypeOK, PoseInv, [Next]_vars PROVE PoseInv'
    OBVIOUS
  <1> USE DEF ctrlVars, poseVars
  <1>1. CASE PlantStep \/ PlantStepUnpublished
    BY <1>1, PoseInvTimer DEF PlantStep, PlantStepUnpublished
  <1>2. CASE ReceiveOdom
    BY <1>2, PoseInvReceiveOdom
  <1>3. CASE LoseOdom
    BY <1>3, PoseInvUntouched DEF LoseOdom
  <1>4. CASE ControlStep
    BY <1>4, PoseInvControl
  <1>5. CASE ReceiveMotor
    BY <1>5, PoseInvReceiveMotor
  <1>6. CASE LoseMotor
    BY <1>6, PoseInvUntouched DEF LoseMotor
  <1>7. CASE ReceiveSignature
    BY <1>7, PoseInvUntouched DEF ReceiveSignature, onSignature
  <1>8. CASE CtrlDies
    BY <1>8, PoseInvUntouched DEF CtrlDies, CtrlCrash
  <1>9. CASE PlantDies
    BY <1>9, PoseInvPlantDies
  <1>10. CASE PlannerStep
    BY <1>10, PoseInvUntouched
    DEF PlannerStep, PlannerInput, onLocalGoal, onTrajectoryCmd,
        onTrajectoryClear, onGoal
  <1>11. CASE Tick
    BY <1>11, PoseInvTick
  <1>12. CASE UNCHANGED vars
    BY <1>12, PoseInvUntouched DEF vars
  <1>13. QED
    BY <1>1, <1>2, <1>3, <1>4, <1>5, <1>6, <1>7, <1>8, <1>9, <1>10, <1>11, <1>12
    DEF Next

\* Every bound on the age of a pose, along the whole chain from the controller's
\* state to the rotors, holds in every reachable state.
THEOREM PoseInvHolds == Spec => []PoseInv
  BY TypeCorrect, InitPoseInv, PoseInvStep, PTL DEF Spec

\* The end-to-end fail-safe: the rotors never run on a pose older than Grip,
\* whatever is lost, late, dropped from a queue, refused or crashed.
THEOREM FailSafeHolds == Spec => []FailSafe
  <1>1. TypeOK /\ PoseInv => FailSafe
    BY AgeFacts, GripFacts DEF PoseInv, PoseBehindRotors, FailSafe
  <1>2. QED
    BY <1>1, TypeCorrect, PoseInvHolds, PTL

-----------------------------------------------------------------------------
(* The loop implements DeadManSwitch: poseAge is its basis, applied its     *)
(* power.                                                                   *)

LEMMA InitSwitch == Init => Switch!Init
  BY DEF Init, CtrlInit, PlantInit, Switch!Init

LEMMA StepSwitch ==
    TypeOK /\ PoseInv /\ [Next]_vars => [Switch!Next]_<<poseAge, applied>>
  <1> SUFFICES ASSUME TypeOK, PoseInv, [Next]_vars
               PROVE  [Switch!Next]_<<poseAge, applied>>
    OBVIOUS
  <1> USE DEF ctrlVars, poseVars, plantVars
  <1>1. CASE ReceiveOdom
    <2>1. Head(odomCh) \in 0 .. Grip
      BY <1>1, TailMembers, AgeFacts, GripFacts DEF ReceiveOdom
    <2>2. poseAge' \in 0 .. Grip /\ applied' = applied
      BY <1>1, <2>1 DEF ReceiveOdom, onOdom
    <2>3. QED
      BY <2>2 DEF Switch!Next, Switch!Measure
  <1>2. CASE onTimer /\ UNCHANGED ctrlVars
    <2>1. applied' \in {"off", "run"} /\ poseAge' = poseAge
      BY <1>2 DEF onTimer, TypeOK, PlantTypeOK
    <2>2. applied' = "run" => poseAge <= Grip
      <3>1. PoseInv'
        BY <1>2, PoseInvStep
      <3>2. poseAge' <= Grip - (IF plantDue' THEN 0 ELSE 1) \/ applied' # "run"
        BY <3>1, Zenon DEF PoseInv, PoseBehindRotors
      <3>3. QED
        BY <2>1, <3>2, AgeFacts, GripFacts
    <2>3. QED
      BY <2>1, <2>2 DEF Switch!Next, Switch!Switch
  <1>3. CASE PlantDies
    <2>1. applied' = "off" /\ poseAge' = poseAge
      BY <1>3 DEF PlantDies, PlantCrash
    <2>2. QED
      BY <2>1 DEF Switch!Next, Switch!Switch
  <1>4. CASE Tick
    <2>1. poseAge' = (IF poseAge < PoseCap THEN poseAge + 1 ELSE PoseCap)
      BY <1>4 DEF Tick, CtrlAging, Capped
    <2>2. applied' = applied /\ plantDue' = plantUp
      BY <1>4 DEF Tick, PlantAging
    <2>3. applied = "run" => poseAge' <= Grip
      <3>1. PoseInv'
        BY <1>4, PoseInvTick
      <3>2. poseAge' <= Grip - (IF plantDue' THEN 0 ELSE 1) \/ applied' # "run"
        BY <3>1, Zenon DEF PoseInv, PoseBehindRotors
      <3>3. poseAge' \in Nat
        BY <2>1, AgeFacts, GripFacts
      <3>4. QED
        BY <2>2, <3>2, <3>3, GripFacts
    <2>4. QED
      BY <2>1, <2>2, <2>3 DEF Switch!Next, Switch!Elapse
  <1>5. CASE UNCHANGED <<poseAge, applied>>
    BY <1>5
  <1>6. QED
    BY <1>1, <1>2, <1>3, <1>4, <1>5
    DEF Next, vars, PlantStep, PlantStepUnpublished, LoseOdom, ControlStep,
        onControlTrack, onControlCut, ReceiveMotor, onMotorCommand, LoseMotor,
        ReceiveSignature, onSignature, CtrlDies, CtrlCrash, PlannerStep,
        PlannerInput, onLocalGoal, onTrajectoryCmd, onTrajectoryClear, onGoal

\* The whole loop, network and faults included, is a dead man's switch held
\* down by pose measurements.
THEOREM LoopImplementsSwitch == Spec => DeadMan
  BY InitSwitch, StepSwitch, TypeCorrect, PoseInvHolds, PTL
  DEF Spec, DeadMan, Switch!Spec

\* The flight band holds of the controller in the closed loop.
THEOREM LoopFlightBand == Spec => []FlightBand
  BY LoopRefinesController, FlightBandHolds, PTL

-----------------------------------------------------------------------------
(* No false cut.  Without faults the samples and the commands in a queue   *)
(* are one tick apart, so that the age of the oldest, which MaxDelay        *)
(* bounds, tells how many there are; what was handled last is one tick      *)
(* older than the oldest that was not.                                      *)

\* What the delay bound has to be shorter than: both time-outs, and the queues.
Timely == MaxDelay < OdomTimeout /\ MaxDelay < CmdTimeout /\ MaxDelay < QueueDepth

\* A timer that has not fired in this tick owes a message.
Owed(due) == IF due THEN 1 ELSE 0

OdomInStep ==
  /\ \A i \in 1 .. Len(odomCh) : odomCh[i] = Len(odomCh) - i + Owed(plantDue)
  /\ stateValid => odomAge <= Len(odomCh) + Owed(plantDue)

MotorInStep ==
  /\ \A i \in 1 .. Len(motorCh) :
       motorCh[i].power = "run" /\ motorCh[i].age = Len(motorCh) - i + Owed(ctrlDue)
  /\ motorCmd = "run" => cmdAge <= Len(motorCh) + Owed(ctrlDue)

\* Commands flow only once the state is valid, and the rotors follow the last one.
PowerInStep ==
  /\ plantUp
  /\ ~stateValid => motorCh = <<>> /\ motorCmd = "off"
  /\ applied = "run" => motorCmd = "run"

StepInv == Faults = {} /\ ctrlUp => OdomInStep /\ MotorInStep /\ PowerInStep

LEMMA OwedNat == ASSUME NEW due \in BOOLEAN PROVE Owed(due) \in 0 .. 1
  BY DEF Owed

\* What the delay bound says of a queue whose ages are in step.
LEMMA OdomRoom ==
  ASSUME TypeOK, OdomInStep
  PROVE  /\ Len(odomCh) \in Nat /\ Owed(plantDue) \in 0 .. 1
         /\ Len(odomCh) + Owed(plantDue) <= MaxDelay + 1
  <1>1. /\ odomCh \in Seq(0 .. MaxDelay) /\ Len(odomCh) \in Nat
        /\ plantDue \in BOOLEAN /\ MaxDelay \in Nat
    BY LoopAssumption DEF TypeOK, PlantTypeOK
  <1>2. Owed(plantDue) \in 0 .. 1
    BY <1>1, OwedNat
  <1>3. CASE Len(odomCh) = 0
    BY <1>1, <1>2, <1>3
  <1>4. CASE Len(odomCh) # 0
    <2>1. 1 \in 1 .. Len(odomCh)
      BY <1>1, <1>4
    <2>2. odomCh[1] \in 0 .. MaxDelay /\ odomCh[1] = Len(odomCh) - 1 + Owed(plantDue)
      BY <1>1, <2>1 DEF OdomInStep
    <2>3. QED
      BY <1>1, <1>2, <2>2
  <1>5. QED
    BY <1>1, <1>2, <1>3, <1>4

LEMMA MotorRoom ==
  ASSUME TypeOK, MotorInStep
  PROVE  /\ Len(motorCh) \in Nat /\ Owed(ctrlDue) \in 0 .. 1
         /\ Len(motorCh) + Owed(ctrlDue) <= MaxDelay + 1
  <1>1. /\ motorCh \in Seq(MotorMessage) /\ Len(motorCh) \in Nat
        /\ ctrlDue \in BOOLEAN /\ MaxDelay \in Nat
    BY LoopAssumption DEF TypeOK
  <1>2. Owed(ctrlDue) \in 0 .. 1
    BY <1>1, OwedNat
  <1>3. CASE Len(motorCh) = 0
    BY <1>1, <1>2, <1>3
  <1>4. CASE Len(motorCh) # 0
    <2>1. 1 \in 1 .. Len(motorCh)
      BY <1>1, <1>4
    <2>2. motorCh[1].age \in 0 .. MaxDelay
      BY <2>1, AgeFacts
    <2>3. motorCh[1].age = Len(motorCh) - 1 + Owed(ctrlDue)
      BY <2>1 DEF MotorInStep
    <2>4. QED
      BY <1>1, <1>2, <2>2, <2>3
  <1>5. QED
    BY <1>1, <1>2, <1>3, <1>4

\* A controller that runs after a step ran before it.
LEMMA UpBefore == Next /\ ctrlUp' => ctrlUp
  BY DEF Next, PlantStep, PlantStepUnpublished, ReceiveOdom, LoseOdom, ControlStep,
         ReceiveMotor, LoseMotor, ReceiveSignature, CtrlDies, PlantDies, PlannerStep, Tick,
         onOdom, onControlTrack, onControlCut, onSignature, CtrlCrash, PlannerInput,
         onLocalGoal, onTrajectoryCmd, onTrajectoryClear, onGoal, CtrlAging, ctrlVars

\* Nothing loses or crashes, and the watchdog has nothing to cut.
LEMMA NothingCut ==
  ASSUME Timely, TypeOK, OdomInStep
  PROVE  ~onControlCut
  <1> SUFFICES ASSUME stateValid, odomAge > OdomTimeout PROVE FALSE
    BY DEF onControlCut
  <1>1. odomAge <= MaxDelay + 1
    BY OdomRoom, AgeFacts, GripFacts DEF OdomInStep
  <1>2. QED
    BY <1>1, AgeFacts, GripFacts DEF Timely

\* The plant's timer adds the sample it owed, to a queue that has room for it.
LEMMA StepInvTimer ==
  ASSUME Timely, TypeOK, ctrlUp, OdomInStep, MotorInStep, PowerInStep, PlantStep
  PROVE  OdomInStep' /\ MotorInStep' /\ PowerInStep'
  <1>1. /\ plantDue /\ plantDue' = FALSE
        /\ applied' = IF cmdAge > CmdTimeout THEN "off" ELSE motorCmd
        /\ odomCh' = Enqueue(odomCh, 0)
        /\ UNCHANGED <<plantUp, motorCmd, cmdAge, stateValid, odomAge, motorCh, ctrlDue>>
    BY DEF PlantStep, onTimer, ctrlVars, poseVars
  <1>2. Len(odomCh) \in Nat /\ odomCh \in Seq(0 .. MaxDelay) /\ Len(odomCh) <= MaxDelay
    BY <1>1, OdomRoom, GripFacts DEF Owed, TypeOK
  <1>3. odomCh' = Append(odomCh, 0)
    BY <1>1, <1>2, GripFacts, LoopAssumption DEF Timely, Enqueue
  <1>4. /\ Len(odomCh') = Len(odomCh) + 1 /\ odomCh'[Len(odomCh) + 1] = 0
        /\ \A i \in 1 .. Len(odomCh) : odomCh'[i] = odomCh[i]
    BY <1>2, <1>3, GripFacts
  <1>5. OdomInStep'
    <2>1. ASSUME NEW i \in 1 .. Len(odomCh) + 1
          PROVE  odomCh'[i] = (Len(odomCh) + 1) - i + 0
      <3>1. CASE i = Len(odomCh) + 1
        BY <1>2, <1>4, <3>1
      <3>2. CASE i \in 1 .. Len(odomCh)
        <4>1. odomCh[i] = Len(odomCh) - i + 1
          BY <1>1, <3>2 DEF OdomInStep, Owed
        <4>2. QED
          BY <1>2, <1>4, <3>2, <4>1
      <3>3. QED
        BY <1>2, <3>1, <3>2
    <2>2. stateValid => odomAge <= (Len(odomCh) + 1) + 0
      BY <1>1, <1>2, AgeFacts DEF OdomInStep, Owed
    <2>3. QED
      BY <1>1, <1>4, <2>1, <2>2 DEF OdomInStep, Owed
  <1>6. MotorInStep'
    BY <1>1 DEF MotorInStep
  <1>7. PowerInStep'
    BY <1>1 DEF PowerInStep
  <1>8. QED
    BY <1>5, <1>6, <1>7

\* The oldest sample is handled: the next one is a tick younger.
LEMMA StepInvReceiveOdom ==
  ASSUME TypeOK, OdomInStep, MotorInStep, PowerInStep, ReceiveOdom
  PROVE  OdomInStep' /\ MotorInStep' /\ PowerInStep'
  <1>1. /\ odomCh # <<>> /\ odomCh' = Tail(odomCh) /\ odomAge' = 0 /\ stateValid'
        /\ UNCHANGED <<plantUp, plantDue, motorCmd, cmdAge, applied, motorCh, ctrlDue>>
    BY DEF ReceiveOdom, onOdom, plantVars
  <1>2. /\ odomCh \in Seq(0 .. MaxDelay) /\ plantDue \in BOOLEAN
        /\ Len(odomCh) \in Nat
    BY DEF TypeOK, PlantTypeOK
  <1>3. Owed(plantDue) \in 0 .. 1
    BY <1>2, OwedNat
  <1>4. /\ Len(odomCh') = Len(odomCh) - 1 /\ Len(odomCh') \in Nat
        /\ \A i \in 1 .. Len(odomCh') : odomCh'[i] = odomCh[i + 1]
    BY <1>1, <1>2
  <1>5. OdomInStep'
    <2>1. ASSUME NEW i \in 1 .. Len(odomCh) - 1
          PROVE  odomCh'[i] = (Len(odomCh) - 1) - i + Owed(plantDue)
      <3>1. i + 1 \in 1 .. Len(odomCh)
        BY <1>2
      <3>2. odomCh[i + 1] = Len(odomCh) - (i + 1) + Owed(plantDue)
        BY <3>1 DEF OdomInStep
      <3>3. odomCh'[i] = odomCh[i + 1]
        BY <1>4
      <3>4. QED
        BY <1>2, <1>3, <3>2, <3>3
    <2>2. odomAge' <= Len(odomCh') + Owed(plantDue)
      BY <1>1, <1>3, <1>4
    <2>3. QED
      BY <1>1, <1>4, <2>1, <2>2 DEF OdomInStep
  <1>6. MotorInStep' /\ PowerInStep'
    BY <1>1 DEF MotorInStep, PowerInStep
  <1>7. QED
    BY <1>5, <1>6

\* The control timer adds the command it owed or, before the first pose, nothing.
LEMMA StepInvControl ==
  ASSUME Timely, TypeOK, OdomInStep, MotorInStep, PowerInStep, ControlStep
  PROVE  OdomInStep' /\ MotorInStep' /\ PowerInStep'
  <1>1. /\ ctrlDue /\ ctrlDue' = FALSE
        /\ UNCHANGED <<stateValid, odomAge, odomCh, plantUp, plantDue, motorCmd, cmdAge,
                       applied>>
    BY NothingCut DEF ControlStep, onControlTrack, plantVars, ctrlVars, poseVars
  <1>2. OdomInStep'
    BY <1>1 DEF OdomInStep
  <1>3. /\ Len(motorCh) \in Nat /\ motorCh \in Seq(MotorMessage)
        /\ Len(motorCh) <= MaxDelay
    BY <1>1, MotorRoom, GripFacts DEF Owed, TypeOK
  <1>4. CASE ctrlUp /\ ~stateValid /\ UNCHANGED <<ctrlVars, motorCh>>
    <2>1. motorCh = <<>> /\ motorCh' = <<>> /\ motorCmd = "off"
      BY <1>4 DEF PowerInStep
    <2>2. MotorInStep'
      BY <1>1, <2>1 DEF MotorInStep
    <2>3. PowerInStep'
      BY <1>1, <2>1 DEF PowerInStep
    <2>4. QED
      BY <1>2, <2>2, <2>3
  <1>5. CASE onControlTrack /\ SendMotor
    <2> DEFINE m == [power |-> "run", age |-> 0]
    <2>1. motorOut'.power = "run" /\ stateValid
      BY <1>5 DEF onControlTrack, activeGoal
    <2>2. motorCh' = Enqueue(motorCh, m)
      BY <1>5, <2>1 DEF SendMotor, PowerInStep
    <2>3. motorCh' = Append(motorCh, m)
      BY <1>3, <2>2, GripFacts, LoopAssumption DEF Timely, Enqueue
    <2>4. /\ Len(motorCh') = Len(motorCh) + 1 /\ motorCh'[Len(motorCh) + 1] = m
          /\ \A i \in 1 .. Len(motorCh) : motorCh'[i] = motorCh[i]
      BY <1>3, <2>3
    <2>5. m.power = "run" /\ m.age = 0
      OBVIOUS
    <2> HIDE DEF m
    <2>6. ASSUME NEW i \in 1 .. Len(motorCh) + 1
          PROVE  motorCh'[i].power = "run" /\ motorCh'[i].age = (Len(motorCh) + 1) - i + 0
      <3>1. CASE i = Len(motorCh) + 1
        BY <1>3, <2>4, <2>5, <3>1
      <3>2. CASE i \in 1 .. Len(motorCh)
        <4>1. motorCh[i].power = "run" /\ motorCh[i].age = Len(motorCh) - i + 1
          BY <1>1, <3>2 DEF MotorInStep, Owed
        <4>2. QED
          BY <1>3, <2>4, <3>2, <4>1
      <3>3. QED
        BY <1>3, <3>1, <3>2
    <2>7. motorCmd = "run" => cmdAge <= (Len(motorCh) + 1) + 0
      BY <1>1, <1>3, AgeFacts DEF MotorInStep, Owed
    <2>8. MotorInStep'
      BY <1>1, <2>4, <2>6, <2>7 DEF MotorInStep, Owed
    <2>9. PowerInStep'
      BY <1>1, <2>1 DEF PowerInStep
    <2>10. QED
      BY <1>2, <2>8, <2>9
  <1>6. QED
    BY <1>4, <1>5, NothingCut DEF ControlStep

\* The oldest command is taken over: it runs the rotors, like all the others.
LEMMA StepInvReceiveMotor ==
  ASSUME TypeOK, OdomInStep, MotorInStep, PowerInStep, ReceiveMotor
  PROVE  OdomInStep' /\ MotorInStep' /\ PowerInStep'
  <1>1. /\ motorCh # <<>> /\ motorCh' = Tail(motorCh)
        /\ motorCmd' = Head(motorCh).power /\ cmdAge' = 0
        /\ UNCHANGED <<stateValid, odomAge, odomCh, plantUp, plantDue, applied, ctrlDue>>
    BY DEF ReceiveMotor, onMotorCommand, ctrlVars, poseVars
  <1>2. /\ motorCh \in Seq(MotorMessage) /\ ctrlDue \in BOOLEAN
        /\ Len(motorCh) \in Nat
    BY DEF TypeOK
  <1>3. Owed(ctrlDue) \in 0 .. 1
    BY <1>2, OwedNat
  <1>4. /\ Len(motorCh') = Len(motorCh) - 1 /\ Len(motorCh') \in Nat
        /\ \A i \in 1 .. Len(motorCh') : motorCh'[i] = motorCh[i + 1]
        /\ 1 \in 1 .. Len(motorCh) /\ Head(motorCh) = motorCh[1]
    BY <1>1, <1>2
  <1>5. motorCmd' = "run"
    BY <1>1, <1>4 DEF MotorInStep
  <1>6. MotorInStep'
    <2>1. ASSUME NEW i \in 1 .. Len(motorCh) - 1
          PROVE  /\ motorCh'[i].power = "run"
                 /\ motorCh'[i].age = (Len(motorCh) - 1) - i + Owed(ctrlDue)
      <3>1. i + 1 \in 1 .. Len(motorCh)
        BY <1>2
      <3>2. /\ motorCh[i + 1].power = "run"
            /\ motorCh[i + 1].age = Len(motorCh) - (i + 1) + Owed(ctrlDue)
        BY <3>1 DEF MotorInStep
      <3>3. motorCh'[i] = motorCh[i + 1]
        BY <1>4
      <3>4. QED
        BY <1>2, <1>3, <3>2, <3>3
    <2>2. cmdAge' <= Len(motorCh') + Owed(ctrlDue)
      BY <1>1, <1>3, <1>4
    <2>3. QED
      BY <1>1, <1>4, <2>1, <2>2 DEF MotorInStep
  <1>7. stateValid
    BY <1>1 DEF PowerInStep
  <1>8. OdomInStep' /\ PowerInStep'
    BY <1>1, <1>5, <1>7 DEF OdomInStep, PowerInStep
  <1>9. QED
    BY <1>6, <1>8

\* Every age grows by the tick that both timers owe from now on.
LEMMA StepInvTick ==
  ASSUME TypeOK, ctrlUp, OdomInStep, MotorInStep, PowerInStep, Tick
  PROVE  OdomInStep' /\ MotorInStep' /\ PowerInStep'
  <1>1. /\ UNCHANGED <<stateValid, plantUp, motorCmd, applied>>
        /\ odomAge' <= odomAge + 1 /\ cmdAge' <= cmdAge + 1
        /\ odomAge' \in Nat /\ cmdAge' \in Nat
    <2>1. CtrlAging /\ PlantAging
      BY DEF Tick
    <2>2. UNCHANGED <<stateValid, plantUp, motorCmd, applied>>
      BY <2>1 DEF CtrlAging, PlantAging
    <2>3. odomAge' <= odomAge + 1 /\ odomAge' \in Nat
      BY <2>1, AgeFacts, GripFacts DEF CtrlAging, Capped
    <2>4. cmdAge' <= cmdAge + 1 /\ cmdAge' \in Nat
      BY <2>1, AgeFacts, GripFacts DEF PlantAging
    <2>5. QED
      BY <2>2, <2>3, <2>4
  <1>2. /\ Owed(ctrlDue) = 0 /\ Owed(plantDue) = 0
        /\ Owed(ctrlDue') = 1 /\ Owed(plantDue') = 1
    BY DEF Tick, PlantAging, PowerInStep, Owed
  <1>3. OdomInStep'
    <2>1. odomCh' = [i \in 1 .. Len(odomCh) |-> odomCh[i] + 1] /\ Len(odomCh) \in Nat
      BY DEF Tick, TypeOK
    <2>2. Len(odomCh') = Len(odomCh)
      BY <2>1
    <2>3. ASSUME NEW i \in 1 .. Len(odomCh)
          PROVE  odomCh'[i] = Len(odomCh) - i + 1
      <3>1. odomCh'[i] = odomCh[i] + 1 /\ odomCh[i] = Len(odomCh) - i + 0
        BY <1>2, <2>1 DEF OdomInStep
      <3>2. QED
        BY <2>1, <3>1
    <2>4. stateValid => odomAge' <= Len(odomCh) + 1
      BY <1>1, <1>2, <2>1, AgeFacts DEF OdomInStep
    <2>5. QED
      BY <1>1, <1>2, <2>2, <2>3, <2>4 DEF OdomInStep
  <1>4. MotorInStep'
    <2>1. /\ motorCh' = [i \in 1 .. Len(motorCh) |->
                           [motorCh[i] EXCEPT !.age = motorCh[i].age + 1]]
          /\ Len(motorCh) \in Nat
      BY DEF Tick, TypeOK
    <2>2. Len(motorCh') = Len(motorCh)
      BY <2>1
    <2>3. ASSUME NEW i \in 1 .. Len(motorCh)
          PROVE  motorCh'[i].power = "run" /\ motorCh'[i].age = Len(motorCh) - i + 1
      <3>1. motorCh'[i] = [motorCh[i] EXCEPT !.age = motorCh[i].age + 1]
        BY <2>1, Zenon
      <3>2. /\ motorCh[i] \in MotorMessage
            /\ motorCh[i].power = "run" /\ motorCh[i].age = Len(motorCh) - i + 0
        BY <1>2 DEF MotorInStep, TypeOK
      <3>3. motorCh[i].age < MaxDelay
        BY DEF Tick
      <3>4. motorCh'[i].power = "run" /\ motorCh'[i].age = motorCh[i].age + 1
        BY <3>1, <3>2, <3>3, OlderMessage
      <3>5. QED
        BY <2>1, <3>2, <3>4
    <2>4. motorCmd = "run" => cmdAge' <= Len(motorCh) + 1
      BY <1>1, <1>2, <2>1, AgeFacts DEF MotorInStep
    <2>5. QED
      BY <1>1, <1>2, <2>2, <2>3, <2>4 DEF MotorInStep
  <1>5. PowerInStep'
    <2>1. motorCh = <<>> => motorCh' = <<>>
      BY DEF Tick
    <2>2. QED
      BY <1>1, <2>1 DEF PowerInStep
  <1>6. QED
    BY <1>3, <1>4, <1>5

LEMMA StepInvStep ==
  ASSUME Timely
  PROVE  TypeOK /\ StepInv /\ [Next]_vars => StepInv'
  <1> SUFFICES ASSUME TypeOK, StepInv, [Next]_vars, Faults = {}, ctrlUp'
               PROVE  OdomInStep' /\ MotorInStep' /\ PowerInStep'
    BY DEF StepInv
  <1>1. ctrlUp
    BY UpBefore DEF vars, ctrlVars
  <1>2. OdomInStep /\ MotorInStep /\ PowerInStep
    BY <1>1 DEF StepInv
  <1>3. CASE PlantStep
    BY <1>1, <1>2, <1>3, StepInvTimer
  <1>4. CASE ReceiveOdom
    BY <1>2, <1>4, StepInvReceiveOdom
  <1>5. CASE ControlStep
    BY <1>2, <1>5, StepInvControl
  <1>6. CASE ReceiveMotor
    BY <1>2, <1>6, StepInvReceiveMotor
  <1>7. CASE Tick
    BY <1>1, <1>2, <1>7, StepInvTick
  <1>8. CASE ReceiveSignature \/ PlannerStep \/ UNCHANGED vars
    <2>1. UNCHANGED <<stateValid, odomAge, plantVars, odomCh, motorCh, ctrlDue>>
      <3>1. CASE ReceiveSignature
        <4>1. ctrlDue \in BOOLEAN
          BY DEF TypeOK
        <4>2. QED
          BY <3>1, <4>1 DEF ReceiveSignature, onSignature, poseVars
      <3>2. CASE PlannerStep
        BY <3>2 DEF PlannerStep, PlannerInput, onLocalGoal, onTrajectoryCmd,
                    onTrajectoryClear, onGoal, poseVars
      <3>3. CASE UNCHANGED vars
        BY <3>3 DEF vars, ctrlVars, poseVars
      <3>4. QED
        BY <1>8, <3>1, <3>2, <3>3
    <2>2. QED
      BY <1>2, <2>1 DEF OdomInStep, MotorInStep, PowerInStep, plantVars
  <1>9. ~LoseOdom /\ ~LoseMotor /\ ~PlantStepUnpublished /\ ~CtrlDies /\ ~PlantDies
    BY DEF LoseOdom, LoseMotor, PlantStepUnpublished, CtrlDies, PlantDies
  <1>10. QED
    BY <1>3, <1>4, <1>5, <1>6, <1>7, <1>8, <1>9 DEF Next

\* Timer jitter and transport delays never cut a healthy vehicle, as long as both
\* time-outs and the depth of the queues exceed the bound on the delays.
THEOREM NoFalseCutHolds ==
  ASSUME Timely
  PROVE  Spec => NoFalseCut
  <1>1. Init => StepInv
    <2> SUFFICES ASSUME Init PROVE OdomInStep /\ MotorInStep /\ PowerInStep
      BY DEF StepInv
    <2>1. OdomInStep
      BY DEF Init, CtrlInit, OdomInStep
    <2>2. MotorInStep
      BY DEF Init, PlantInit, MotorInStep
    <2>3. PowerInStep
      <3>1. plantUp /\ motorCh = <<>> /\ motorCmd = "off" /\ applied = "off"
        BY DEF Init, PlantInit
      <3>2. QED
        BY <3>1 DEF PowerInStep
    <2>4. QED
      BY <2>1, <2>2, <2>3
  <1>2. TypeOK /\ StepInv /\ StepInv' /\ [Next]_vars
          => [Faults = {} /\ ctrlUp /\ ctrlUp' =>
                /\ ~(stateValid /\ ~stateValid')
                /\ ~(applied = "run" /\ applied' = "off")]_vars
    <2> SUFFICES ASSUME TypeOK, StepInv, StepInv', Next, Faults = {}, ctrlUp, ctrlUp'
                 PROVE  /\ stateValid => stateValid'
                        /\ applied = "run" => applied' # "off"
      OBVIOUS
    <2>1. /\ OdomInStep /\ MotorInStep /\ PowerInStep /\ plantUp'
      BY DEF StepInv, PowerInStep
    <2>2. stateValid => stateValid'
      <3>1. ~onControlCut
        BY <2>1, NothingCut
      <3>2. QED
        BY <3>1 DEF Next, PlantStep, PlantStepUnpublished, ReceiveOdom, LoseOdom,
             ControlStep, ReceiveMotor, LoseMotor, ReceiveSignature, CtrlDies, PlantDies,
             PlannerStep, Tick, onOdom, onControlTrack, onSignature, CtrlCrash,
             PlannerInput, onLocalGoal, onTrajectoryCmd, onTrajectoryClear, onGoal,
             CtrlAging, ctrlVars, poseVars
    <2>3. applied = "run" => applied' # "off"
      <3> SUFFICES ASSUME applied = "run" PROVE applied' # "off"
        OBVIOUS
      <3>1. motorCmd = "run" /\ cmdAge <= MaxDelay + 1
        BY <2>1, MotorRoom, AgeFacts, GripFacts DEF MotorInStep, PowerInStep
      <3>2. ~(cmdAge > CmdTimeout)
        BY <3>1, AgeFacts, GripFacts DEF Timely
      <3>3. CASE onTimer
        BY <3>1, <3>2, <3>3 DEF onTimer
      <3>4. CASE ~onTimer
        BY <2>1, <3>4 DEF Next, PlantStep, PlantStepUnpublished, ReceiveOdom, LoseOdom,
             ControlStep, ReceiveMotor, LoseMotor, ReceiveSignature, CtrlDies, PlantDies,
             PlannerStep, Tick, onMotorCommand, PlantCrash, PlantAging, plantVars
      <3>5. QED
        BY <3>3, <3>4
    <2>4. QED
      BY <2>2, <2>3
  <1>3. QED
    BY <1>1, <1>2, StepInvStep, TypeCorrect, PTL DEF Spec, NoFalseCut

=============================================================================
