----------------------------- MODULE MissionProofs -----------------------------
(***************************************************************************)
(* Theorems about Mission, for every list of waypoints, every number of    *)
(* cycles, every budget and every hold.                                    *)
(***************************************************************************)
EXTENDS Mission, TLAPS

\* The field the vehicle flies in, for NoWaypointGivenUpHolds: Hops[g][p] is how many
\* steps it is to g from p, Diameter how many at most.
CONSTANTS Positions, Hops, Diameter

(***************************************************************************)
(* The publisher.                                                          *)
(***************************************************************************)
LEMMA AdvanceType ==
  ASSUME MissionTypeOK, advanceOrFinish
  PROVE  /\ {waitArrival, started, finished}' \subseteq BOOLEAN
         /\ idx' \in 1 .. Len(Waypoints)
         /\ cycle' \in Nat /\ (Cycles > 0 => cycle' < Cycles)
         /\ goalAge' \in 0 .. LongestAge
         /\ repubAge' \in 0 .. RepubPeriod
         /\ repubsLeft' \in 0 .. RepubBudget - 1
<1>1. LongestAge \in Nat  BY MissionAssumption DEF LongestAge
<1>2. CASE finish
  BY <1>1, <1>2 DEF finish, MissionTypeOK
<1>3. CASE advance
  <2>1. /\ {waitArrival, started, finished}' \subseteq BOOLEAN
        /\ goalAge' = 0 /\ repubAge' = 0 /\ repubsLeft' = RepubBudget - 1
    BY <1>3 DEF advance, publishCurrent, MissionTypeOK
  <2>2. idx' \in 1 .. Len(Waypoints)
    BY <1>3, MissionAssumption DEF advance, MissionTypeOK
  <2>3. cycle' \in Nat /\ (Cycles > 0 => cycle' < Cycles)
    BY <1>3, MissionAssumption DEF advance, completeAfterCurrent, MissionTypeOK
  <2> QED  BY <1>1, <2>1, <2>2, <2>3, MissionAssumption
<1> QED  BY <1>2, <1>3 DEF advanceOrFinish

LEMMA MissionTypeStep ==
  ASSUME MissionTypeOK,
         \/ start \/ holdTick \/ missionAging
         \/ \E a \in BOOLEAN : arrivalLeave(a) \/ arrivalStay(a)
         \/ UNCHANGED missionVars
  PROVE  MissionTypeOK'
<1>0. LongestAge \in Nat  BY MissionAssumption DEF LongestAge
<1>1. CASE start
  BY <1>0, <1>1, MissionAssumption DEF start, publishCurrent, MissionTypeOK, LongestAge
<1>2. CASE holdTick
  BY <1>2, AdvanceType DEF holdTick, MissionTypeOK, LongestAge
<1>3. CASE missionAging
  BY <1>0, <1>3, MissionAssumption DEF missionAging, MissionTypeOK, LongestAge
<1>4. ASSUME NEW a \in BOOLEAN, arrivalLeave(a) PROVE MissionTypeOK'
  <2>1. timeouts' \in Nat  BY <1>4 DEF arrivalLeave, MissionTypeOK
  <2>2. advanceOrFinish  BY <1>4 DEF arrivalLeave
  <2> QED  BY <2>1, <2>2, AdvanceType DEF MissionTypeOK, LongestAge
<1>5. ASSUME NEW a \in BOOLEAN, arrivalStay(a) PROVE MissionTypeOK'
  BY <1>0, <1>5, MissionAssumption DEF arrivalStay, republishes, MissionTypeOK, LongestAge
<1>6. CASE UNCHANGED missionVars
  BY <1>6 DEF missionVars, MissionTypeOK, LongestAge
<1> QED  BY <1>1, <1>2, <1>3, <1>4, <1>5, <1>6

\* At is only ever a condition; it need not be a Boolean for what follows.
LEMMA ArrivalIsBoolean ==
  ASSUME NEW STATE a
  PROVE  /\ arrivalLeave(a) => \E b \in BOOLEAN : arrivalLeave(b)
         /\ arrivalStay(a) => \E b \in BOOLEAN : arrivalStay(b)
<1>1. CASE a
  <2>1. arrivalLeave(a) => arrivalLeave(TRUE)
    BY <1>1 DEF arrivalLeave
  <2>2. arrivalStay(a) => FALSE
    BY <1>1 DEF arrivalStay
  <2> QED  BY <2>1, <2>2
<1>2. CASE ~a
  <2>1. arrivalLeave(a) => arrivalLeave(FALSE)
    BY <1>2 DEF arrivalLeave
  <2>2. arrivalStay(a) => arrivalStay(FALSE)
    BY <1>2 DEF arrivalStay, republishes
  <2> QED  BY <2>1, <2>2
<1> QED  BY <1>1, <1>2

\* What a step of the composition is to the publisher.
LEMMA PublisherStep ==
  ASSUME [Next]_vars
  PROVE  \/ start \/ holdTick \/ missionAging
         \/ arrivalLeave(At(pos, waypoint)) \/ arrivalStay(At(pos, waypoint))
         \/ UNCHANGED missionVars
BY DEF Next, PublisherRuns, StartMission, HoldTick, Leave, Stay, PublisherIdle, Deliver,
       Lose, SacRuns, SupervisorRuns, VehicleFlies, Poll, vars

LEMMA MissionTypeInit ==
  ASSUME MissionInit
  PROVE  MissionTypeOK
<1>1. LongestAge \in Nat /\ RepubPeriod \in Nat /\ RepubBudget \in Nat \ {0}
  BY MissionAssumption DEF LongestAge
<1>2. {waitArrival, started, finished} \subseteq BOOLEAN
  BY Zenon DEF MissionInit
<1>5. idx \in 1 .. Len(Waypoints)
  BY MissionAssumption DEF MissionInit
<1>3. cycle \in Nat /\ (Cycles > 0 => cycle < Cycles) /\ timeouts \in Nat
  BY DEF MissionInit
<1>4. /\ goalAge \in 0 .. LongestAge /\ repubAge \in 0 .. RepubPeriod
      /\ repubsLeft \in 0 .. RepubBudget - 1
  BY <1>1 DEF MissionInit
<1> QED  BY <1>2, <1>3, <1>4, <1>5 DEF MissionTypeOK

\* The index stays in the list, the cycles below their number, the budget in its range.
THEOREM MissionTypeHolds == Spec => []MissionTypeOK
<1>1. Init => MissionTypeOK
  BY MissionTypeInit DEF Init
<1>2. MissionTypeOK /\ [Next]_vars => MissionTypeOK'
  BY MissionTypeStep, PublisherStep, ArrivalIsBoolean
<1> QED  BY <1>1, <1>2, PTL DEF Spec

(***************************************************************************)
(* The burst.  Of the goals of a waypoint each receiver has lost some, has *)
(* some still before it, behind goals of waypoints before, and has taken   *)
(* the rest; if it has taken none, the others account for all that were    *)
(* sent.                                                                   *)
(***************************************************************************)
goalOf(r) == IF r = "sac" THEN sacGoal ELSE supGoal
Goals == {Waypoints[i] : i \in 1 .. Len(Waypoints)}

Burst(r) ==
  \E a \in 0 .. Len(pending[r]) :
     /\ \A i \in a + 1 .. Len(pending[r]) : pending[r][i] = waypoint
     /\ \/ Len(pending[r]) - a + lost[r] >= RepubBudget - repubsLeft
        \/ a = 0 /\ goalOf(r) = waypoint

BurstInv ==
  /\ MissionTypeOK
  /\ pending \in [Receivers -> Seq(Goals)]
  /\ lost \in [Receivers -> 0 .. MaxLosses]
  /\ flying => \A r \in Receivers : Burst(r)

LEMMA WaypointIsGoal == MissionTypeOK => waypoint \in Goals
BY DEF MissionTypeOK, waypoint, Goals

LEMMA LastOfQueue ==
  ASSUME NEW S, NEW q \in Seq(S), NEW before \in Seq(S), NEW g \in S
  PROVE  /\ Len(q \o (before \o <<g>>)) = Len(q) + Len(before) + 1
         /\ (q \o (before \o <<g>>))[Len(q) + Len(before) + 1] = g
<1> DEFINE tail == before \o <<g>>
<1>1. /\ tail \in Seq(S) /\ Len(tail) = Len(before) + 1
      /\ tail[Len(before) + 1] = g
  OBVIOUS
<1> HIDE DEF tail
<1>2. /\ Len(q \o tail) = Len(q) + Len(tail)
      /\ (q \o tail)[Len(q) + Len(tail)] = tail[Len(tail)]
  BY <1>1
<1>3. Len(q) \in Nat /\ Len(before) \in Nat
  OBVIOUS
<1>4. Len(q) + Len(tail) = Len(q) + Len(before) + 1
  BY <1>1, <1>3
<1> QED  BY <1>1, <1>2, <1>4 DEF tail

\* A new waypoint: its first goal is the last of the queue, and nothing of it is lost.
LEMMA NewBurst ==
  ASSUME BurstInv, MissionTypeOK', newWaypoint, publishCurrent,
         NEW before \in Seq(Goals), Publish(before \o <<waypoint'>>)
  PROVE  /\ pending' \in [Receivers -> Seq(Goals)]
         /\ lost' \in [Receivers -> 0 .. MaxLosses]
         /\ \A r \in Receivers : Burst(r)'
<1>1. waypoint' \in Goals
  BY DEF MissionTypeOK, waypoint, Goals
<1>2. before \o <<waypoint'>> \in Seq(Goals)
  BY <1>1
<1>3. \A r \in Receivers : pending'[r] = pending[r] \o (before \o <<waypoint'>>)
  BY DEF Publish
<1>4. pending' \in [Receivers -> Seq(Goals)]
  BY <1>2 DEF Publish, BurstInv
<1>5. lost' = [r \in Receivers |-> 0]
  BY DEF newWaypoint
<1>6. MaxLosses \in Nat  BY LossAssumption
<1>7. ASSUME NEW r \in Receivers PROVE Burst(r)'
  <2> DEFINE n == Len(pending[r]) + Len(before)
  <2>1. pending[r] \in Seq(Goals)  BY DEF BurstInv
  <2>2. n \in Nat  BY <2>1
  <2>3. pending'[r] = pending[r] \o (before \o <<waypoint'>>)  BY <1>3
  <2>4. Len(pending'[r]) = n + 1 /\ pending'[r][n + 1] = waypoint'
    <3>1. Len(pending[r] \o (before \o <<waypoint'>>)) = n + 1
      BY <1>1, <2>1, LastOfQueue
    <3>2. (pending[r] \o (before \o <<waypoint'>>))[n + 1] = waypoint'
      BY <1>1, <2>1, LastOfQueue
    <3> QED  BY <2>3, <3>1, <3>2
  <2>5. pending'[r][n + 1] = waypoint'
    BY <2>4
  <2>6. \A i \in n + 1 .. Len(pending'[r]) : pending'[r][i] = waypoint'
    BY <2>2, <2>4, <2>5
  <2>7. Len(pending'[r]) - n + lost'[r] >= RepubBudget - repubsLeft'
    BY <1>5, <2>2, <2>4, MissionAssumption DEF publishCurrent
  <2>8. n \in 0 .. Len(pending'[r])  BY <2>2, <2>4
  <2> QED  BY <2>6, <2>7, <2>8 DEF Burst
<1> QED  BY <1>4, <1>5, <1>6, <1>7

\* A waypoint that goes on: nothing the invariant speaks of has changed.
LEMMA SameBurst ==
  ASSUME BurstInv, MissionTypeOK',
         UNCHANGED <<pending, lost, idx, repubsLeft, sacGoal, supGoal>>,
         flying' => flying
  PROVE  BurstInv'
<1>1. waypoint' = waypoint /\ \A r : goalOf(r)' = goalOf(r)
  BY DEF waypoint, goalOf
<1>2. \A r \in Receivers : Burst(r) => Burst(r)'
  BY <1>1 DEF Burst
<1> QED  BY <1>2 DEF BurstInv

\* A goal of the waypoint is sent again.
LEMMA Republished ==
  ASSUME BurstInv, MissionTypeOK', flying,
         UNCHANGED <<lost, idx, sacGoal, supGoal>>,
         repubsLeft' = repubsLeft - 1, Publish(<<waypoint>>)
  PROVE  BurstInv'
<1>1. waypoint' = waypoint /\ waypoint \in Goals
  BY WaypointIsGoal DEF waypoint, BurstInv
<1>2. pending' \in [Receivers -> Seq(Goals)]
  BY <1>1 DEF Publish, BurstInv
<1>3. ASSUME NEW r \in Receivers PROVE Burst(r)'
  <2>1. /\ pending[r] \in Seq(Goals) /\ pending'[r] = Append(pending[r], waypoint)
        /\ lost[r] \in Nat /\ Burst(r)
    BY <1>1 DEF BurstInv, Publish
  <2>2. PICK a \in 0 .. Len(pending[r]) :
          /\ \A i \in a + 1 .. Len(pending[r]) : pending[r][i] = waypoint
          /\ \/ Len(pending[r]) - a + lost[r] >= RepubBudget - repubsLeft
             \/ a = 0 /\ goalOf(r) = waypoint
    BY <2>1 DEF Burst
  <2>3. Len(pending'[r]) = Len(pending[r]) + 1 /\ Len(pending[r]) \in Nat
    BY <2>1
  <2>4. \A i \in a + 1 .. Len(pending'[r]) : pending'[r][i] = waypoint'
    BY <1>1, <2>1, <2>2, <2>3
  <2>5. \/ Len(pending'[r]) - a + lost'[r] >= RepubBudget - repubsLeft'
        \/ a = 0 /\ goalOf(r)' = waypoint'
    <3>1. goalOf(r)' = goalOf(r)  BY DEF goalOf
    <3>2. repubsLeft \in Nat /\ RepubBudget \in Nat
      BY MissionAssumption DEF BurstInv, MissionTypeOK
    <3> QED  BY <1>1, <2>1, <2>2, <2>3, <3>1, <3>2
  <2> QED  BY <2>2, <2>3, <2>4, <2>5 DEF Burst
<1> QED  BY <1>2, <1>3 DEF BurstInv

\* The oldest goal of a queue is taken or lost.
LEMMA FirstOfQueueGone ==
  ASSUME BurstInv, MissionTypeOK', NEW r \in Receivers, pending[r] # <<>>,
         UNCHANGED <<idx, repubsLeft, started, finished, waitArrival>>,
         pending' = [pending EXCEPT ![r] = Tail(@)],
         \/ /\ goalOf(r)' = Head(pending[r]) /\ UNCHANGED lost
            /\ \A other \in Receivers \ {r} : goalOf(other)' = goalOf(other)
         \/ /\ lost[r] < MaxLosses
            /\ lost' = [lost EXCEPT ![r] = @ + 1]
            /\ UNCHANGED <<sacGoal, supGoal>>
  PROVE  BurstInv'
<1>0. /\ waypoint' = waypoint /\ flying' = flying
      /\ repubsLeft \in Nat /\ RepubBudget \in Nat /\ MaxLosses \in Nat
  BY MissionAssumption, LossAssumption DEF waypoint, flying, BurstInv, MissionTypeOK
<1>1. /\ pending[r] \in Seq(Goals) /\ Tail(pending[r]) \in Seq(Goals)
      /\ Len(pending[r]) \in Nat \ {0} /\ Len(Tail(pending[r])) = Len(pending[r]) - 1
      /\ \A i \in 1 .. Len(pending[r]) - 1 : Tail(pending[r])[i] = pending[r][i + 1]
  BY DEF BurstInv
<1>2. /\ pending'[r] = Tail(pending[r]) /\ pending' \in [Receivers -> Seq(Goals)]
      /\ \A other \in Receivers \ {r} : pending'[other] = pending[other]
  BY <1>1 DEF BurstInv
<1>3. /\ lost' \in [Receivers -> 0 .. MaxLosses]
      /\ \A other \in Receivers \ {r} : lost'[other] = lost[other]
      /\ lost'[r] >= lost[r]
  <2>1. lost \in [Receivers -> 0 .. MaxLosses]  BY DEF BurstInv
  <2>2. CASE lost' = lost
    BY <1>0, <2>1, <2>2
  <2>3. CASE lost[r] < MaxLosses /\ lost' = [lost EXCEPT ![r] = @ + 1]
    <3>1. lost[r] + 1 \in 0 .. MaxLosses /\ lost[r] + 1 >= lost[r]
      BY <1>0, <2>1, <2>3
    <3> QED  BY <2>1, <2>3, <3>1
  <2> QED  BY <2>2, <2>3
<1>4. ASSUME flying, NEW other \in Receivers \ {r} PROVE Burst(other)'
  <2>1. goalOf(other)' = goalOf(other)
    BY DEF goalOf
  <2> QED  BY <1>0, <1>2, <1>3, <1>4, <2>1 DEF Burst, BurstInv
<1>5. ASSUME flying PROVE Burst(r)'
  <2>1. PICK a \in 0 .. Len(pending[r]) :
          /\ \A i \in a + 1 .. Len(pending[r]) : pending[r][i] = waypoint
          /\ \/ Len(pending[r]) - a + lost[r] >= RepubBudget - repubsLeft
             \/ a = 0 /\ goalOf(r) = waypoint
    BY <1>5 DEF BurstInv, Burst
  <2>2. CASE a > 0
    <3>1. a - 1 \in 0 .. Len(pending'[r])  BY <1>1, <1>2, <2>2
    <3>2. \A i \in a .. Len(pending'[r]) : pending'[r][i] = waypoint'
      BY <1>0, <1>1, <1>2, <2>1, <2>2
    <3>3. lost'[r] >= lost[r] /\ lost[r] \in Nat /\ lost'[r] \in Nat
      <4>1. lost[r] \in 0 .. MaxLosses /\ lost'[r] \in 0 .. MaxLosses
        BY <1>3 DEF BurstInv
      <4> QED  BY <1>3, <4>1
    <3>4. Len(pending'[r]) - (a - 1) + lost'[r] >= RepubBudget - repubsLeft'
      BY <1>0, <1>1, <1>2, <2>1, <2>2, <3>3
    <3>5. (a - 1) + 1 = a  BY <2>2
    <3> QED  BY <3>1, <3>2, <3>4, <3>5 DEF Burst
  <2>3. CASE a = 0
    <3>1. 0 \in 0 .. Len(pending'[r])  BY <1>1, <1>2
    <3>2. \A i \in 0 + 1 .. Len(pending'[r]) : pending'[r][i] = waypoint'
      BY <1>0, <1>1, <1>2, <2>1, <2>3
    <3>3. Head(pending[r]) = waypoint
      BY <1>1, <2>1, <2>3
    <3>4. CASE goalOf(r)' = Head(pending[r])
      BY <1>0, <3>1, <3>2, <3>3, <3>4 DEF Burst
    <3>5. CASE /\ lost' = [lost EXCEPT ![r] = @ + 1]
               /\ UNCHANGED <<sacGoal, supGoal>>
      <4>1. lost'[r] = lost[r] + 1 /\ lost[r] \in Nat /\ goalOf(r)' = goalOf(r)
        BY <3>5 DEF BurstInv, goalOf
      <4>2. \/ Len(pending'[r]) - 0 + lost'[r] >= RepubBudget - repubsLeft'
            \/ 0 = 0 /\ goalOf(r)' = waypoint'
        BY <1>0, <1>1, <1>2, <2>1, <2>3, <4>1
      <4> QED  BY <3>1, <3>2, <4>2 DEF Burst
    <3> QED  BY <3>4, <3>5
  <2> QED  BY <2>2, <2>3
<1> QED  BY <1>0, <1>2, <1>3, <1>4, <1>5 DEF BurstInv

LEMMA BurstStep == BurstInv /\ calm /\ [Next]_vars => BurstInv' /\ calm'
<1> SUFFICES ASSUME BurstInv, calm, [Next]_vars PROVE BurstInv' /\ calm'
  OBVIOUS
<1>0. MissionTypeOK /\ MissionTypeOK'
  BY MissionTypeStep, PublisherStep, ArrivalIsBoolean DEF BurstInv
<1>1. calm'
  BY DEF Next, PublisherRuns, StartMission, HoldTick, Leave, Stay, PublisherIdle, Deliver,
         Lose, SacRuns, SupervisorRuns, VehicleFlies, Poll, vars, worldVars
<1>2. CASE StartMission
  <2>1. waypoint' = waypoint
    BY <1>2 DEF StartMission, start, waypoint
  <2>2. Publish(<<>> \o <<waypoint'>>)
    BY <1>2, <2>1, <1>0, WaypointIsGoal DEF StartMission
  <2>3. newWaypoint /\ publishCurrent /\ <<>> \in Seq(Goals)
    BY <1>2 DEF StartMission, start
  <2>4. /\ pending' \in [Receivers -> Seq(Goals)]
        /\ lost' \in [Receivers -> 0 .. MaxLosses]
        /\ \A r \in Receivers : Burst(r)'
    BY <1>0, <2>2, <2>3, NewBurst
  <2> QED  BY <1>0, <1>1, <2>4 DEF BurstInv
<1>3. CASE HoldTick
  <2>1. ~flying'
    BY <1>3 DEF HoldTick, holdTick, advanceOrFinish, finish, advance, flying
  <2>2. pending' \in [Receivers -> Seq(Goals)]
    <3>1. waypoint' \in Goals
      BY <1>0 DEF MissionTypeOK, waypoint, Goals
    <3> DEFINE sent == IF finished' THEN <<>> ELSE <<waypoint'>>
    <3>2. sent \in Seq(Goals)  BY <3>1
    <3>3. Publish(sent)  BY <1>3 DEF HoldTick
    <3> HIDE DEF sent
    <3> QED  BY <3>2, <3>3 DEF Publish, BurstInv
  <2>3. lost' \in [Receivers -> 0 .. MaxLosses]
    BY <1>3, LossAssumption DEF HoldTick, newWaypoint
  <2> QED  BY <1>0, <1>1, <2>1, <2>2, <2>3 DEF BurstInv
<1>4. CASE Leave
  <2> DEFINE before == IF republishes(At(pos, waypoint)) THEN <<waypoint>> ELSE <<>>
  <2>1. before \in Seq(Goals)
    BY <1>0, WaypointIsGoal
  <2>2. CASE finish
    <3>1. ~flying' /\ finished'
      BY <2>2 DEF finish, flying
    <3>2. Publish(before \o <<>>)
      BY <1>4, <3>1 DEF Leave
    <3>3. pending' \in [Receivers -> Seq(Goals)]
      BY <2>1, <3>2 DEF Publish, BurstInv
    <3>4. lost' \in [Receivers -> 0 .. MaxLosses]
      BY <1>4, LossAssumption DEF Leave, newWaypoint
    <3> QED  BY <1>0, <1>1, <3>1, <3>3, <3>4 DEF BurstInv
  <2>3. CASE advance
    <3>1. ~finished'
      BY <1>4, <2>3 DEF Leave, arrivalLeave, advance, flying
    <3>2. Publish(before \o <<waypoint'>>)
      BY <1>4, <3>1 DEF Leave
    <3>3. newWaypoint /\ publishCurrent
      BY <1>4, <2>3 DEF Leave, advance
    <3> QED  BY <1>0, <1>1, <2>1, <3>2, <3>3, NewBurst DEF BurstInv
  <2> QED  BY <1>4, <2>2, <2>3 DEF Leave, arrivalLeave, advanceOrFinish
<1>5. CASE Stay
  <2>1. UNCHANGED <<lost, idx, sacGoal, supGoal>> /\ flying
    BY <1>5 DEF Stay, arrivalStay, sacVars, supVars
  <2>2. CASE republishes(At(pos, waypoint))
    <3>1. Publish(<<waypoint>>)
      BY <1>5, <2>2 DEF Stay
    <3>2. ~At(pos, waypoint)
      BY <2>2 DEF republishes
    <3>3. repubsLeft' = repubsLeft - 1
      BY <1>5, <2>2 DEF Stay, arrivalStay
    <3> QED  BY <1>0, <1>1, <2>1, <3>1, <3>3, Republished
  <2>3. CASE ~republishes(At(pos, waypoint))
    <3>1. Publish(<<>>) /\ repubsLeft' = repubsLeft
      BY <1>5, <2>3 DEF Stay, arrivalStay
    <3>2. pending' = pending
      BY <3>1 DEF Publish, BurstInv
    <3> QED  BY <1>0, <1>1, <2>1, <3>1, <3>2, SameBurst
  <2> QED  BY <2>2, <2>3
<1>6. ASSUME NEW r \in Receivers, Deliver(r) PROVE BurstInv'
  <2>1. UNCHANGED <<idx, repubsLeft, started, finished, waitArrival, lost>>
    BY <1>6 DEF Deliver, missionVars
  <2>2. pending[r] # <<>> /\ pending' = [pending EXCEPT ![r] = Tail(@)]
    BY <1>6 DEF Deliver
  <2>3. /\ goalOf(r)' = Head(pending[r])
        /\ \A other \in Receivers \ {r} : goalOf(other)' = goalOf(other)
    BY <1>6 DEF Deliver, sacOnGoal, supOnGoal, goalOf, Receivers, supVars, sacVars
  <2> QED  BY <1>0, <2>1, <2>2, <2>3, FirstOfQueueGone
<1>7. ASSUME NEW r \in Receivers, Lose(r) PROVE BurstInv'
  <2>1. UNCHANGED <<idx, repubsLeft, started, finished, waitArrival, sacGoal, supGoal>>
    BY <1>7 DEF Lose, missionVars, sacVars, supVars
  <2>2. /\ pending[r] # <<>> /\ pending' = [pending EXCEPT ![r] = Tail(@)]
        /\ lost[r] < MaxLosses /\ lost' = [lost EXCEPT ![r] = @ + 1]
    BY <1>7 DEF Lose
  <2> QED  BY <1>0, <2>1, <2>2, FirstOfQueueGone
<1>8. CASE PublisherIdle \/ SacRuns \/ SupervisorRuns \/ VehicleFlies \/ Poll
           \/ UNCHANGED vars
  <2>1. UNCHANGED <<pending, lost, idx, repubsLeft, sacGoal, supGoal,
                    started, finished, waitArrival>>
    BY <1>8 DEF PublisherIdle, SacRuns, SupervisorRuns, VehicleFlies, Poll, vars,
                missionVars, sacVars, supVars, worldVars, missionAging, sacTick, supTick
  <2> QED  BY <1>0, <1>1, <2>1, SameBurst DEF flying
<1>9. CASE PublisherRuns
  BY <1>1, <1>2, <1>3, <1>4, <1>5, <1>8, <1>9 DEF PublisherRuns
<1>10. CASE UNCHANGED vars
  BY <1>1, <1>8, <1>10
<1>11. CASE Next
  <2>1. CASE \E r \in Receivers : Deliver(r) \/ Lose(r)
    BY <1>1, <1>6, <1>7, <2>1
  <2>2. CASE SacRuns \/ SupervisorRuns \/ VehicleFlies \/ Poll
    BY <1>1, <1>8, <2>2
  <2> QED  BY <1>1, <1>9, <1>11, <2>1, <2>2 DEF Next
<1> QED  BY <1>10, <1>11

\* Whatever the subscriptions lose of a burst, and however late the rest is taken, the
\* learned planner and its supervisor end up with the same goal.
THEOREM PlannersAgreeHolds == Spec => []PlannersAgree
<1> DEFINE Inv == calm => BurstInv
<1>1. Init => Inv
  <2> SUFFICES ASSUME Init PROVE BurstInv
    OBVIOUS
  <2>1. MissionTypeOK  BY MissionTypeInit DEF Init
  <2>2. pending \in [Receivers -> Seq(Goals)] /\ lost \in [Receivers -> 0 .. MaxLosses]
    BY LossAssumption DEF Init
  <2>3. ~flying
    BY DEF Init, MissionInit, flying
  <2> QED  BY <2>1, <2>2, <2>3 DEF BurstInv
<1>2. Inv /\ [Next]_vars => Inv'
  <2>1. [Next]_vars /\ ~calm => ~calm'
    BY DEF Next, PublisherRuns, StartMission, HoldTick, Leave, Stay, PublisherIdle, Deliver,
           Lose, SacRuns, SupervisorRuns, VehicleFlies, Poll, vars, worldVars
  <2> QED  BY <2>1, BurstStep
<1>3. Inv => PlannersAgree
  <2> SUFFICES ASSUME BurstInv, flying, repubsLeft = 0,
                      \A r \in Receivers : pending[r] = <<>>
               PROVE  \A r \in Receivers : goalOf(r) = waypoint
    BY DEF PlannersAgree, goalOf, Receivers
  <2> TAKE r \in Receivers
  <2>1. PICK a \in 0 .. Len(pending[r]) :
          \/ Len(pending[r]) - a + lost[r] >= RepubBudget - repubsLeft
          \/ a = 0 /\ goalOf(r) = waypoint
    BY DEF BurstInv, Burst
  <2>2. Len(pending[r]) = 0 /\ lost[r] \in 0 .. MaxLosses
    BY DEF BurstInv
  <2> QED  BY <2>1, <2>2, MissionAssumption, LossAssumption
<1> QED  BY <1>1, <1>2, <1>3, PTL DEF Spec

(***************************************************************************)
(* The way to a waypoint.  Once the burst is out and taken, every third     *)
(* poll brings the vehicle a step nearer: in one the learned planner, in    *)
(* the next the supervisor and in the third the vehicle has to do with     *)
(* nothing but positions that near.                                        *)
(***************************************************************************)

\* The field: a vehicle at most n + 1 steps from g that heads for a position at most n
\* steps from g is then at most n steps from it.
Field ==
  /\ Diameter \in Nat
  /\ Hops \in [Positions -> [Positions -> 0 .. Diameter]]
  /\ Unset \notin Positions /\ Depot \in Positions /\ Goals \subseteq Positions
  /\ \A p, q \in Positions : Ahead(p, q) \in Positions
  /\ \A p, g \in Positions : (Hops[g][p] = 0 => At(p, g)) /\ Hops[g][g] = 0
  /\ \A p, q, g \in Positions, n \in Nat :
        Hops[g][p] <= n + 1 /\ Hops[g][q] <= n => Hops[g][Ahead(p, q)] <= n

\* The age of a goal when the last of its burst is sent.
Sent == (RepubBudget - 1) * RepubPeriod

\* The time-out leaves room for the burst and the flight.
InTime == MaxHold >= Sent + 1 + 3 * Diameter

\* The age from which the learned planner deals with positions n steps away, at most;
\* the supervisor follows a poll later, and the vehicle one after that.
From(n) == Sent + 1 + 3 * (Diameter - 1 - n)

\* Node `who` has run in the poll of age a, or the poll is over.
Ran(who, a) == goalAge > a \/ (goalAge = a /\ who \notin due)

Places ==
  /\ pos \in Positions
  /\ primary \in Positions \cup {Unset} /\ localGoal \in Positions \cup {Unset}
  /\ sacGoal \in Goals \cup {Unset} /\ supGoal \in Goals \cup {Unset}

\* While the burst is not over, the age says how far it has got.
Schedule ==
  flying /\ repubsLeft > 0 =>
     /\ goalAge = (RepubBudget - 1 - repubsLeft) * RepubPeriod + repubAge
     /\ repubAge < RepubPeriod \/ "publisher" \in due

\* After the burst both planners know the waypoint, and nothing else is on its way.
Told ==
  flying /\ goalAge > Sent =>
     repubsLeft = 0 /\ \A r \in Receivers : pending[r] = <<>> /\ goalOf(r) = waypoint

Closer ==
  flying => \A n \in 0 .. Diameter - 1 :
     /\ Ran("sac", From(n)) => primary # Unset /\ Hops[waypoint][primary] <= n
     /\ Ran("supervisor", From(n) + 1) => localGoal # Unset /\ Hops[waypoint][localGoal] <= n
     /\ Ran("vehicle", From(n) + 2) => Hops[waypoint][pos] <= n

WayInv == BurstInv /\ Places /\ Schedule /\ Told /\ Closer /\ timeouts = 0

LEMMA SentNat == Sent \in Nat /\ RepubBudget - 1 \in Nat /\ RepubPeriod \in Nat \ {0}
<1>1. RepubBudget - 1 \in Nat /\ RepubPeriod \in Nat \ {0}  BY MissionAssumption
<1>2. \A a, b \in Nat : a * b \in Nat  OBVIOUS
<1> QED  BY <1>1, <1>2 DEF Sent

LEMMA FromWhen ==
  ASSUME Field, NEW n \in 0 .. Diameter - 1
  PROVE  /\ n \in Nat /\ Diameter \in Nat /\ From(n) \in Nat /\ From(n) > Sent
         /\ n + 1 = Diameter \/ (n + 1 \in 0 .. Diameter - 1 /\ From(n) = From(n + 1) + 3)
         /\ InTime => MaxHold > From(n) + 2
<1>1. Sent \in Nat /\ Diameter \in Nat  BY SentNat DEF Field
<1> QED  BY <1>1, MissionAssumption DEF From, InTime

LEMMA PlaceOfWaypoint ==
  ASSUME Field, MissionTypeOK
  PROVE  waypoint \in Positions /\ waypoint \in Goals /\ waypoint # Unset
BY WaypointIsGoal DEF Field

LEMMA HopsNat ==
  ASSUME Field, NEW p \in Positions, NEW g \in Positions
  PROVE  Hops[g][p] \in 0 .. Diameter /\ Hops[g][g] = 0 /\ Diameter \in Nat
BY DEF Field

\* From the age of From(n) on the vehicle is at most n + 1 steps away.
LEMMA VehicleWithin ==
  ASSUME Field, MissionTypeOK, Places, Closer, flying, NEW n \in 0 .. Diameter - 1,
         goalAge >= From(n)
  PROVE  Hops[waypoint][pos] <= n + 1
<1>1. /\ n \in Nat /\ From(n) \in Nat
      /\ n + 1 = Diameter \/ (n + 1 \in 0 .. Diameter - 1 /\ From(n) = From(n + 1) + 3)
  BY FromWhen
<1>2. CASE n + 1 = Diameter
  <2>1. Hops[waypoint][pos] \in 0 .. Diameter  BY PlaceOfWaypoint, HopsNat DEF Places
  <2> QED  BY <1>2, <2>1
<1>3. CASE n + 1 \in 0 .. Diameter - 1 /\ From(n) = From(n + 1) + 3
  <2>1. goalAge \in Int /\ From(n + 1) \in Nat  BY <1>3, FromWhen, MissionAssumption DEF MissionTypeOK, LongestAge
  <2>2. goalAge > From(n + 1) + 2  BY <1>3, <2>1
  <2>3. Ran("vehicle", From(n + 1) + 2)  BY <2>2 DEF Ran
  <2> QED  BY <1>3, <2>3 DEF Closer
<1> QED  BY <1>1, <1>2, <1>3

\* A step towards a position at most n steps away.
LEMMA StepNearer ==
  ASSUME Field, NEW n \in Nat, NEW p \in Positions, NEW q \in Positions, NEW g \in Positions,
         Hops[g][p] <= n + 1, Hops[g][q] <= n
  PROVE  Ahead(p, q) \in Positions /\ Hops[g][Ahead(p, q)] <= n
BY DEF Field

\* A waypoint is left on arrival only.
LEMMA LeavesOnArrival ==
  ASSUME Field, InTime, MissionTypeOK, Places, Closer, flying, goalAge >= MaxHold
  PROVE  At(pos, waypoint)
<1>1. waypoint \in Positions /\ pos \in Positions  BY PlaceOfWaypoint DEF Places
<1>2. Hops[waypoint][pos] \in 0 .. Diameter /\ Diameter \in Nat  BY <1>1, HopsNat
<1>3. Hops[waypoint][pos] <= 0
  <2>1. CASE Diameter = 0
    <3>1. 0 .. Diameter = {0}  BY <2>1
    <3> QED  BY <1>2, <3>1
  <2>2. CASE Diameter # 0
    <3>1. 0 \in 0 .. Diameter - 1  BY <1>2, <2>2
    <3>2. MaxHold > From(0) + 2 /\ From(0) \in Nat  BY <3>1, FromWhen
    <3>3. goalAge > From(0) + 2
      <4>1. goalAge \in Int /\ MaxHold \in Int  BY MissionAssumption DEF MissionTypeOK, LongestAge
      <4> QED  BY <3>2, <4>1
    <3>4. Ran("vehicle", From(0) + 2)  BY <3>3 DEF Ran
    <3> QED  BY <3>1, <3>4 DEF Closer
  <2> QED  BY <2>1, <2>2
<1>4. Hops[waypoint][pos] = 0  BY <1>2, <1>3
<1> QED  BY <1>1, <1>4 DEF Field

LEMMA PlacesStep ==
  ASSUME Field, BurstInv, Places, [Next]_vars
  PROVE  Places'
<1> USE DEF Places
<1>1. \A p, q \in Positions : Ahead(p, q) \in Positions  BY DEF Field
<1>2. Goals \subseteq Positions  BY DEF Field
<1>3. CASE PublisherRuns \/ Poll \/ UNCHANGED vars \/ \E r \in Receivers : Lose(r)
  <2>1. UNCHANGED <<pos, primary, localGoal, sacGoal, supGoal>>
    BY <1>3 DEF PublisherRuns, StartMission, HoldTick, Leave, Stay, PublisherIdle, Poll, Lose,
                vars, worldVars, sacVars, supVars
  <2> QED  BY <2>1
<1>4. ASSUME NEW r \in Receivers, Deliver(r) PROVE Places'
  <2>1. Head(pending[r]) \in Goals
    <3>1. pending[r] \in Seq(Goals) /\ pending[r] # <<>>  BY <1>4 DEF Deliver, BurstInv
    <3> QED  BY <3>1
  <2>2. /\ UNCHANGED <<pos, primary, localGoal>>
        /\ sacGoal' \in {sacGoal, Head(pending[r])} /\ supGoal' \in {supGoal, Head(pending[r])}
    BY <1>4 DEF Deliver, sacOnGoal, supOnGoal, sacVars, supVars
  <2> QED  BY <2>1, <2>2
<1>5. CASE SacRuns
  <2>1. /\ UNCHANGED <<pos, localGoal, sacGoal, supGoal>>
        /\ \/ primary' = primary
           \/ sacGoal # Unset /\ primary' \in {sacGoal, Ahead(pos, sacGoal)}
    BY <1>5 DEF SacRuns, sacTick, sacVars, supVars
  <2> QED  BY <1>1, <1>2, <2>1
<1>6. CASE SupervisorRuns
  <2>1. /\ UNCHANGED <<pos, primary, sacGoal, supGoal>>
        /\ \/ localGoal' = localGoal
           \/ supGoal # Unset /\ localGoal' \in {primary, Ahead(pos, supGoal)}
    BY <1>6 DEF SupervisorRuns, supTick, sacVars, supVars
  <2> QED  BY <1>1, <1>2, <2>1
<1>7. CASE VehicleFlies
  <2>1. /\ UNCHANGED <<primary, localGoal, sacGoal, supGoal>>
        /\ pos' = pos \/ (localGoal # Unset /\ pos' = Ahead(pos, localGoal))
    BY <1>7 DEF VehicleFlies, sacVars, supVars
  <2> QED  BY <1>1, <2>1
<1> QED  BY <1>3, <1>4, <1>5, <1>6, <1>7 DEF Next

\* The two ways to begin with a waypoint, and the two to be done with flying.
LEMMA NewOrDone ==
  ASSUME StartMission \/ HoldTick \/ Leave
  PROVE  ~flying' \/ publishCurrent
BY DEF StartMission, HoldTick, Leave, start, holdTick, arrivalLeave, advanceOrFinish, finish,
       advance, flying

\* The steps in which neither the publisher nor the time moves.
OthersRun ==
  \/ PublisherIdle \/ SacRuns \/ SupervisorRuns \/ VehicleFlies \/ UNCHANGED vars
  \/ \E r \in Receivers : Deliver(r) \/ Lose(r)

LEMMA OthersKeep ==
  ASSUME OthersRun
  PROVE  /\ UNCHANGED missionVars
         /\ flying /\ "publisher" \in due => "publisher" \in due'
BY DEF OthersRun, PublisherIdle, SacRuns, SupervisorRuns, VehicleFlies, vars, worldVars, Deliver,
       Lose, flying

LEMMA NextCases ==
  ASSUME [Next]_vars
  PROVE  StartMission \/ HoldTick \/ Leave \/ Stay \/ Poll \/ OthersRun
BY DEF Next, PublisherRuns, OthersRun

LEMMA Product ==
  ASSUME NEW i \in Nat, NEW j \in Nat, NEW b \in Nat, i + 1 <= b
  PROVE  i * j \in Nat /\ i * j + j <= b * j
<1>1. PICK c \in Nat : b = i + 1 + c
  <2>1. b - (i + 1) \in Nat /\ b = i + 1 + (b - (i + 1))  OBVIOUS
  <2> QED  BY <2>1
<1>2. b * j = i * j + j + c * j /\ c * j \in Nat /\ i * j \in Nat  BY <1>1
<1> QED  BY <1>2

LEMMA ScheduleStep ==
  ASSUME MissionTypeOK, MaxHold > Sent, Schedule, [Next]_vars
  PROVE  Schedule'
<1>1. /\ RepubBudget - 1 \in Nat /\ RepubBudget \in Nat /\ RepubPeriod \in Nat \ {0} /\ Sent \in Nat
      /\ goalAge \in Nat /\ repubAge \in 0 .. RepubPeriod /\ repubsLeft \in 0 .. RepubBudget - 1
      /\ MaxHold \in Nat
  BY SentNat, MissionAssumption DEF MissionTypeOK, LongestAge
<1>2. CASE StartMission \/ HoldTick \/ Leave
  <2>1. CASE ~flying'  BY <2>1 DEF Schedule
  <2>2. CASE publishCurrent
    <3>1. goalAge' = 0 /\ repubAge' = 0 /\ RepubBudget - 1 - repubsLeft' = 0
      BY <1>1, <2>2 DEF publishCurrent
    <3>2. 0 * RepubPeriod + 0 = 0  BY <1>1
    <3> QED  BY <1>1, <3>1, <3>2 DEF Schedule
  <2> QED  BY <1>2, <2>1, <2>2, NewOrDone
<1>3. CASE Stay
  <2>1. /\ flying /\ ~At(pos, waypoint) /\ goalAge' = goalAge
        /\ IF republishes(At(pos, waypoint))
           THEN repubAge' = 0 /\ repubsLeft' = repubsLeft - 1
           ELSE repubAge' = repubAge /\ repubsLeft' = repubsLeft
    BY <1>3 DEF Stay, arrivalStay
  <2>2. CASE republishes(At(pos, waypoint))
    <3>1. repubsLeft > 0 /\ repubAge = RepubPeriod  BY <1>1, <2>2 DEF republishes
    <3>2. goalAge = (RepubBudget - 1 - repubsLeft) * RepubPeriod + RepubPeriod
      BY <2>1, <3>1 DEF Schedule
    <3>3. repubsLeft' = repubsLeft - 1 /\ repubAge' = 0  BY <2>1, <2>2
    <3> DEFINE k == RepubBudget - 1 - repubsLeft
    <3>4. k \in Int /\ RepubBudget - 1 - repubsLeft' = k + 1  BY <1>1, <3>3
    <3>5. \A i \in Int, j \in Nat : (i + 1) * j + 0 = i * j + j  OBVIOUS
    <3>6. goalAge' = (k + 1) * RepubPeriod + 0  BY <1>1, <2>1, <3>2, <3>4, <3>5
    <3> QED  BY <1>1, <3>3, <3>4, <3>6 DEF Schedule
  <2>3. CASE ~republishes(At(pos, waypoint))
    <3>1. repubAge' = repubAge /\ repubsLeft' = repubsLeft  BY <2>1, <2>3
    <3>2. repubsLeft > 0 => repubAge < RepubPeriod  BY <1>1, <2>1, <2>3 DEF republishes
    <3> QED  BY <2>1, <3>1, <3>2 DEF Schedule
  <2> QED  BY <2>2, <2>3
<1>4. CASE Poll
  <2> SUFFICES ASSUME flying', repubsLeft' > 0
               PROVE  /\ goalAge' = (RepubBudget - 1 - repubsLeft') * RepubPeriod + repubAge'
                      /\ "publisher" \in due'
    BY DEF Schedule
  <2>1. /\ due = {} /\ due' = Everyone /\ missionAging
        /\ UNCHANGED <<started, finished, waitArrival, repubsLeft>>
    BY <1>4 DEF Poll, missionAging
  <2>2. flying /\ repubsLeft > 0 /\ "publisher" \in due'  BY <2>1 DEF flying, Everyone
  <2>3. /\ goalAge = (RepubBudget - 1 - repubsLeft) * RepubPeriod + repubAge
        /\ repubAge < RepubPeriod
    BY <2>1, <2>2 DEF Schedule
  <2>4. goalAge < LongestAge
    <3> DEFINE k == RepubBudget - 1 - repubsLeft
    <3>1. k \in Nat /\ k + 1 <= RepubBudget - 1  BY <1>1, <2>2
    <3>3. k * RepubPeriod + RepubPeriod <= Sent  BY <1>1, <3>1, Product DEF Sent
    <3>4. k * RepubPeriod \in Nat  BY <1>1, <3>1
    <3> HIDE DEF k
    <3>5. goalAge < Sent  BY <1>1, <2>3, <3>3, <3>4 DEF k
    <3> QED  BY <1>1, <3>5, MissionAssumption DEF LongestAge
  <2>5. goalAge' = goalAge + 1 /\ repubAge' = repubAge + 1 /\ repubsLeft' = repubsLeft
    BY <2>1, <2>3, <2>4 DEF missionAging
  <2> DEFINE c == (RepubBudget - 1 - repubsLeft) * RepubPeriod
  <2>6. c \in Int /\ goalAge = c + repubAge  BY <1>1, <2>3
  <2>7. c = (RepubBudget - 1 - repubsLeft') * RepubPeriod  BY <2>5
  <2> HIDE DEF c
  <2>8. goalAge' = c + repubAge'  BY <1>1, <2>5, <2>6
  <2> QED  BY <2>2, <2>7, <2>8
<1>5. CASE OthersRun
  <2>1. UNCHANGED <<started, finished, waitArrival, goalAge, repubAge, repubsLeft>>
    BY <1>5, OthersKeep DEF missionVars
  <2>2. flying' <=> flying  BY <2>1 DEF flying
  <2>3. flying /\ "publisher" \in due => "publisher" \in due'  BY <1>5, OthersKeep
  <2> QED  BY <2>1, <2>2, <2>3, Zenon DEF Schedule
<1> QED  BY <1>2, <1>3, <1>4, <1>5, NextCases

LEMMA ToldStep ==
  ASSUME MissionTypeOK, MissionTypeOK', BurstInv, Schedule, Told, [Next]_vars
  PROVE  Told'
<1>1. /\ RepubBudget - 1 \in Nat /\ RepubBudget \in Nat /\ RepubPeriod \in Nat \ {0} /\ Sent \in Nat
      /\ goalAge \in Nat /\ repubAge \in 0 .. RepubPeriod /\ repubsLeft \in 0 .. RepubBudget - 1
      /\ pending \in [Receivers -> Seq(Goals)]
  BY SentNat, MissionAssumption DEF MissionTypeOK, LongestAge, BurstInv
<1>2. CASE StartMission \/ HoldTick \/ Leave
  <2>1. CASE ~flying'  BY <2>1 DEF Told
  <2>2. CASE publishCurrent
    <3>1. ~(goalAge' > Sent)  BY <1>1, <2>2 DEF publishCurrent
    <3> QED  BY <3>1 DEF Told
  <2> QED  BY <1>2, <2>1, <2>2, NewOrDone
<1>3. CASE Stay
  <2> SUFFICES ASSUME flying', goalAge' > Sent
               PROVE  /\ repubsLeft' = 0
                      /\ \A r \in Receivers : pending'[r] = <<>> /\ goalOf(r)' = waypoint'
    BY DEF Told
  <2>1. flying /\ goalAge' = goalAge /\ UNCHANGED <<idx, sacGoal, supGoal>>
    BY <1>3 DEF Stay, arrivalStay, sacVars, supVars
  <2>2. repubsLeft = 0 /\ \A r \in Receivers : pending[r] = <<>> /\ goalOf(r) = waypoint
    BY <2>1 DEF Told
  <2>3. ~republishes(At(pos, waypoint))  BY <2>2 DEF republishes
  <2>4. repubsLeft' = 0 /\ Publish(<<>>)
    BY <1>3, <2>2, <2>3 DEF Stay, arrivalStay
  <2>5. \A r \in Receivers : pending'[r] = <<>>
    BY <1>1, <2>2, <2>4 DEF Publish
  <2>6. \A r \in Receivers : goalOf(r)' = waypoint'
    BY <2>1, <2>2 DEF goalOf, waypoint
  <2> QED  BY <2>4, <2>5, <2>6
<1>4. CASE Poll
  <2> SUFFICES ASSUME flying', goalAge' > Sent
               PROVE  /\ repubsLeft' = 0
                      /\ \A r \in Receivers : pending'[r] = <<>> /\ goalOf(r)' = waypoint'
    BY DEF Told
  <2>1. /\ due = {} /\ \A r \in Receivers : pending[r] = <<>>
        /\ goalAge' <= goalAge + 1
        /\ UNCHANGED <<started, finished, waitArrival, repubsLeft, idx, pending, sacGoal, supGoal>>
    BY <1>1, <1>4 DEF Poll, missionAging, sacVars, supVars
  <2>2. flying  BY <2>1 DEF flying
  <2>3. waypoint' = waypoint /\ \A r \in Receivers : goalOf(r)' = goalOf(r)
    BY <2>1 DEF waypoint, goalOf
  <2>4. CASE goalAge > Sent
    BY <2>1, <2>2, <2>3, <2>4 DEF Told
  <2>5. CASE goalAge <= Sent
    <3>1. goalAge = Sent
      <4>1. goalAge' \in Nat  BY MissionAssumption DEF MissionTypeOK, LongestAge
      <4> QED  BY <1>1, <2>1, <2>5, <4>1
    <3>2. repubsLeft = 0
      <4> SUFFICES ASSUME repubsLeft > 0 PROVE FALSE
        BY <1>1
      <4> DEFINE k == RepubBudget - 1 - repubsLeft
                 c == k * RepubPeriod
      <4>1. goalAge = c + repubAge /\ repubAge < RepubPeriod
        BY <2>1, <2>2 DEF Schedule
      <4>2. k \in Nat /\ k + 1 <= RepubBudget - 1  BY <1>1
      <4>3. c \in Nat /\ c + RepubPeriod <= Sent
        <5> HIDE DEF k
        <5> QED  BY <1>1, <4>2, Product DEF Sent
      <4> HIDE DEF c
      <4> QED  BY <1>1, <3>1, <4>1, <4>3
    <3>3. \A r \in Receivers : goalOf(r) = waypoint
      <4> TAKE r \in Receivers
      <4>1. PICK a \in 0 .. Len(pending[r]) :
              \/ Len(pending[r]) - a + lost[r] >= RepubBudget - repubsLeft
              \/ a = 0 /\ goalOf(r) = waypoint
        BY <2>2 DEF BurstInv, Burst
      <4>2. Len(pending[r]) = 0 /\ lost[r] \in 0 .. MaxLosses
        BY <2>1 DEF BurstInv
      <4> QED  BY <3>2, <4>1, <4>2, MissionAssumption, LossAssumption
    <3> QED  BY <2>1, <2>3, <3>2, <3>3
  <2> QED  BY <1>1, <2>4, <2>5
<1>5. CASE OthersRun
  <2> SUFFICES ASSUME flying', goalAge' > Sent
               PROVE  /\ repubsLeft' = 0
                      /\ \A r \in Receivers : pending'[r] = <<>> /\ goalOf(r)' = waypoint'
    BY DEF Told
  <2>1. UNCHANGED <<started, finished, waitArrival, goalAge, repubsLeft, idx>>
    BY <1>5, OthersKeep DEF missionVars
  <2>2. flying /\ waypoint' = waypoint  BY <2>1 DEF flying, waypoint
  <2>3. repubsLeft = 0 /\ \A r \in Receivers : pending[r] = <<>> /\ goalOf(r) = waypoint
    BY <2>1, <2>2 DEF Told
  <2>4. ~\E r \in Receivers : Deliver(r) \/ Lose(r)  BY <2>3 DEF Deliver, Lose
  <2>5. UNCHANGED <<pending, sacGoal, supGoal>>
    BY <1>5, <2>4 DEF OthersRun, PublisherIdle, SacRuns, SupervisorRuns, VehicleFlies, vars,
                      worldVars, sacVars, supVars, sacTick, supTick
  <2> QED  BY <2>1, <2>2, <2>3, <2>5 DEF goalOf
<1> QED  BY <1>2, <1>3, <1>4, <1>5, NextCases

\* A step that moves none of the positions, and takes no turn but the publisher's.
LEMMA SamePlaces ==
  ASSUME Closer, UNCHANGED <<pos, primary, localGoal, idx, goalAge>>, flying' => flying,
         \A who \in {"sac", "supervisor", "vehicle"} : who \in due' <=> who \in due
  PROVE  Closer'
<1> SUFFICES ASSUME flying', NEW n \in 0 .. Diameter - 1
             PROVE  /\ Ran("sac", From(n))' => primary' # Unset /\ Hops[waypoint'][primary'] <= n
                    /\ Ran("supervisor", From(n) + 1)'
                         => localGoal' # Unset /\ Hops[waypoint'][localGoal'] <= n
                    /\ Ran("vehicle", From(n) + 2)' => Hops[waypoint'][pos'] <= n
  BY DEF Closer
<1>1. waypoint' = waypoint  BY DEF waypoint
<1>2. \A who \in {"sac", "supervisor", "vehicle"} : \A a : Ran(who, a)' => Ran(who, a)
  BY DEF Ran
<1> QED  BY <1>1, <1>2 DEF Closer

LEMMA CloserStep ==
  ASSUME Field, MissionTypeOK, MissionTypeOK', calm, Places, Told, Closer, [Next]_vars
  PROVE  Closer'
<1>1. goalAge \in Nat /\ Sent \in Nat
  BY SentNat, MissionAssumption DEF MissionTypeOK, LongestAge
<1>2. CASE StartMission \/ HoldTick \/ Leave
  <2>1. CASE ~flying'  BY <2>1 DEF Closer
  <2>2. CASE publishCurrent
    <3>1. goalAge' = 0  BY <2>2 DEF publishCurrent
    <3>2. ASSUME NEW n \in 0 .. Diameter - 1
          PROVE  ~Ran("sac", From(n))' /\ ~Ran("supervisor", From(n) + 1)' /\ ~Ran("vehicle", From(n) + 2)'
      <4>1. From(n) \in Nat /\ From(n) > Sent  BY FromWhen
      <4> QED  BY <1>1, <3>1, <4>1 DEF Ran
    <3> QED  BY <3>2 DEF Closer
  <2> QED  BY <1>2, <2>1, <2>2, NewOrDone
<1>3. CASE Stay \/ PublisherIdle \/ (\E r \in Receivers : Deliver(r) \/ Lose(r)) \/ UNCHANGED vars
  <2>1. /\ UNCHANGED <<pos, primary, localGoal, idx, goalAge, started, finished, waitArrival>>
        /\ due' \in {due, due \ {"publisher"}}
    BY <1>3 DEF Stay, arrivalStay, PublisherIdle, Deliver, Lose, vars, worldVars, missionVars,
                sacVars, supVars, sacOnGoal, supOnGoal
  <2>2. \A who \in {"sac", "supervisor", "vehicle"} : who \in due' <=> who \in due
    BY <2>1
  <2> QED  BY <2>1, <2>2, SamePlaces DEF flying
<1>4. CASE Poll
  <2>1. /\ UNCHANGED <<pos, primary, localGoal, idx, started, finished, waitArrival>>
        /\ due = {} /\ due' = Everyone /\ goalAge' \in {goalAge, goalAge + 1}
    BY <1>4 DEF Poll, missionAging, sacVars, supVars
  <2>2. waypoint' = waypoint /\ (flying' => flying)  BY <2>1 DEF waypoint, flying
  <2>3. ASSUME NEW who \in {"sac", "supervisor", "vehicle"}, NEW a \in Nat, Ran(who, a)'
        PROVE  Ran(who, a)
    BY <1>1, <2>1, <2>3 DEF Ran, Everyone
  <2> SUFFICES ASSUME flying', NEW n \in 0 .. Diameter - 1
               PROVE  /\ Ran("sac", From(n))' => primary # Unset /\ Hops[waypoint][primary] <= n
                      /\ Ran("supervisor", From(n) + 1)'
                           => localGoal # Unset /\ Hops[waypoint][localGoal] <= n
                      /\ Ran("vehicle", From(n) + 2)' => Hops[waypoint][pos] <= n
    BY <2>1, <2>2 DEF Closer
  <2>4. From(n) \in Nat /\ From(n) + 1 \in Nat /\ From(n) + 2 \in Nat  BY FromWhen
  <2> QED  BY <2>2, <2>3, <2>4 DEF Closer
<1>5. CASE SacRuns \/ SupervisorRuns \/ VehicleFlies
  <2>1. /\ UNCHANGED <<idx, goalAge, started, finished, waitArrival>>
        /\ SacRuns => UNCHANGED <<pos, localGoal>> /\ due' = due \ {"sac"}
        /\ SupervisorRuns => UNCHANGED <<pos, primary>> /\ due' = due \ {"supervisor"}
        /\ VehicleFlies => UNCHANGED <<primary, localGoal>> /\ due' = due \ {"vehicle"}
    BY <1>5 DEF SacRuns, SupervisorRuns, VehicleFlies, sacTick, supTick, missionVars, sacVars, supVars
  <2>2. waypoint' = waypoint /\ (flying' => flying)  BY <2>1 DEF waypoint, flying
  <2> SUFFICES ASSUME flying', NEW n \in 0 .. Diameter - 1
               PROVE  /\ Ran("sac", From(n))' => primary' # Unset /\ Hops[waypoint][primary'] <= n
                      /\ Ran("supervisor", From(n) + 1)'
                           => localGoal' # Unset /\ Hops[waypoint][localGoal'] <= n
                      /\ Ran("vehicle", From(n) + 2)' => Hops[waypoint][pos'] <= n
    BY <2>2 DEF Closer
  <2>3. From(n) \in Nat /\ From(n) > Sent /\ n \in Nat  BY FromWhen
  <2>4. flying /\ waypoint \in Positions /\ waypoint # Unset /\ Hops[waypoint][waypoint] = 0
    BY <2>2, PlaceOfWaypoint, HopsNat
  <2>5. goalAge >= From(n) =>
           Hops[waypoint][pos] <= n + 1 /\ sacGoal = waypoint /\ supGoal = waypoint
    <3>1. goalAge >= From(n) => goalAge > Sent  BY <1>1, <2>3
    <3>2. goalAge > Sent => sacGoal = waypoint /\ supGoal = waypoint
      BY <2>4 DEF Told, Receivers, goalOf
    <3> QED  BY <2>4, <3>1, <3>2, VehicleWithin
  <2>6. /\ Ran("sac", From(n)) => primary # Unset /\ Hops[waypoint][primary] <= n
        /\ Ran("supervisor", From(n) + 1) => localGoal # Unset /\ Hops[waypoint][localGoal] <= n
        /\ Ran("vehicle", From(n) + 2) => Hops[waypoint][pos] <= n
    BY <2>4 DEF Closer
  <2>7. CASE SacRuns
    <3>1. Ran("sac", From(n))' => goalAge >= From(n)  BY <1>1, <2>1, <2>3 DEF Ran
    <3>2. ASSUME goalAge >= From(n)
          PROVE  primary' # Unset /\ Hops[waypoint][primary'] <= n
      <4>1. sacGoal = waypoint  BY <2>5, <3>2
      <4>2. primary' \in {waypoint, Ahead(pos, waypoint)}
        BY <2>4, <2>7, <4>1 DEF SacRuns, sacTick
      <4>3. Ahead(pos, waypoint) \in Positions /\ Hops[waypoint][Ahead(pos, waypoint)] <= n
        BY <2>3, <2>4, <2>5, <3>2, StepNearer DEF Places
      <4> QED  BY <2>3, <2>4, <4>2, <4>3 DEF Field
    <3>3. /\ Ran("supervisor", From(n) + 1)' => Ran("supervisor", From(n) + 1)
          /\ Ran("vehicle", From(n) + 2)' => Ran("vehicle", From(n) + 2)
      BY <2>1, <2>7 DEF Ran
    <3> QED  BY <2>1, <2>6, <2>7, <3>1, <3>2, <3>3
  <2>8. CASE SupervisorRuns
    <3>1. Ran("supervisor", From(n) + 1)' => goalAge >= From(n) /\ Ran("sac", From(n))
      BY <1>1, <2>1, <2>3 DEF Ran
    <3>2. ASSUME goalAge >= From(n), Ran("sac", From(n))
          PROVE  localGoal' # Unset /\ Hops[waypoint][localGoal'] <= n
      <4>1. supGoal = waypoint /\ primary # Unset /\ Hops[waypoint][primary] <= n
        BY <2>5, <2>6, <3>2
      <4>2. localGoal' \in {primary, Ahead(pos, waypoint)}
        BY <2>4, <2>8, <4>1 DEF SupervisorRuns, supTick
      <4>3. Ahead(pos, waypoint) \in Positions /\ Hops[waypoint][Ahead(pos, waypoint)] <= n
        BY <2>3, <2>4, <2>5, <3>2, StepNearer DEF Places
      <4> QED  BY <4>1, <4>2, <4>3 DEF Field
    <3>3. /\ Ran("sac", From(n))' => Ran("sac", From(n))
          /\ Ran("vehicle", From(n) + 2)' => Ran("vehicle", From(n) + 2)
      BY <2>1, <2>8 DEF Ran
    <3> QED  BY <2>1, <2>6, <2>8, <3>1, <3>2, <3>3
  <2>9. CASE VehicleFlies
    <3>1. Ran("vehicle", From(n) + 2)' => goalAge >= From(n) /\ Ran("supervisor", From(n) + 1)
      BY <1>1, <2>1, <2>3 DEF Ran
    <3>2. ASSUME goalAge >= From(n), Ran("supervisor", From(n) + 1)
          PROVE  Hops[waypoint][pos'] <= n
      <4>1. localGoal # Unset /\ Hops[waypoint][localGoal] <= n /\ Hops[waypoint][pos] <= n + 1
        BY <2>5, <2>6, <3>2
      <4>2. pos' = Ahead(pos, localGoal)  BY <2>9, <4>1 DEF VehicleFlies
      <4> QED  BY <2>3, <2>4, <4>1, <4>2, StepNearer DEF Places
    <3>3. /\ Ran("sac", From(n))' => Ran("sac", From(n))
          /\ Ran("supervisor", From(n) + 1)' => Ran("supervisor", From(n) + 1)
      BY <2>1, <2>9 DEF Ran
    <3> QED  BY <2>1, <2>6, <2>9, <3>1, <3>2, <3>3
  <2> QED  BY <1>5, <2>7, <2>8, <2>9
<1> QED  BY <1>2, <1>3, <1>4, <1>5, NextCases DEF OthersRun

\* In a field where heading for a place brings the vehicle nearer to what the place is
\* near to, no waypoint is given up if the time-out leaves room for the burst and for
\* three polls per step: whichever goals of a burst the two subscriptions lose, in
\* whatever order the nodes run in a poll, and wherever the planner that got the goal
\* late has led the vehicle meanwhile.
THEOREM NoWaypointGivenUpHolds ==
  ASSUME Field, InTime
  PROVE  Spec => []NoWaypointGivenUp
<1> DEFINE Inv == calm => WayInv
<1>0. MaxHold > Sent
  <2>1. Sent \in Nat /\ Diameter \in Nat /\ MaxHold \in Nat  BY SentNat, MissionAssumption DEF Field
  <2> QED  BY <2>1 DEF InTime
<1>1. Init => Inv
  <2> SUFFICES ASSUME Init PROVE WayInv
    OBVIOUS
  <2>1. MissionTypeOK  BY MissionTypeInit DEF Init
  <2>2. pending \in [Receivers -> Seq(Goals)] /\ lost \in [Receivers -> 0 .. MaxLosses]
    BY LossAssumption DEF Init
  <2>3. ~flying /\ timeouts = 0
    BY DEF Init, MissionInit, flying
  <2>4. Places  BY DEF Init, PlannersInit, Places, Field
  <2> QED  BY <2>1, <2>2, <2>3, <2>4 DEF WayInv, BurstInv, Schedule, Told, Closer
<1>2. Inv /\ [Next]_vars => Inv'
  <2>1. [Next]_vars /\ ~calm => ~calm'
    BY DEF Next, PublisherRuns, StartMission, HoldTick, Leave, Stay, PublisherIdle, Deliver,
           Lose, SacRuns, SupervisorRuns, VehicleFlies, Poll, vars, worldVars
  <2>2. ASSUME WayInv, calm, [Next]_vars PROVE WayInv'
    <3>1. MissionTypeOK  BY <2>2 DEF WayInv, BurstInv
    <3>2. BurstInv' /\ MissionTypeOK'  BY <2>2, BurstStep DEF WayInv, BurstInv
    <3>3. Places'  BY <2>2, PlacesStep DEF WayInv
    <3>4. Schedule'  BY <1>0, <2>2, <3>1, ScheduleStep DEF WayInv
    <3>5. Told'  BY <2>2, <3>1, <3>2, ToldStep DEF WayInv
    <3>6. Closer'  BY <2>2, <3>1, <3>2, CloserStep DEF WayInv
    <3>7. timeouts' = 0
      <4>1. CASE Leave
        <5>1. flying /\ (At(pos, waypoint) \/ goalAge >= MaxHold)
          BY <4>1 DEF Leave, arrivalLeave
        <5>2. At(pos, waypoint)  BY <2>2, <3>1, <5>1, LeavesOnArrival DEF WayInv
        <5> QED  BY <2>2, <4>1, <5>2 DEF Leave, arrivalLeave, WayInv
      <4>2. CASE StartMission \/ HoldTick \/ Stay \/ Poll
        BY <2>2, <4>2 DEF StartMission, start, HoldTick, holdTick, Stay, arrivalStay, Poll,
                          missionAging, WayInv
      <4>3. CASE OthersRun  BY <2>2, <4>3, OthersKeep DEF missionVars, WayInv
      <4> QED  BY <2>2, <4>1, <4>2, <4>3, NextCases
    <3> QED  BY <3>2, <3>3, <3>4, <3>5, <3>6, <3>7 DEF WayInv
  <2> QED  BY <2>1, <2>2
<1>3. Inv => NoWaypointGivenUp
  BY DEF WayInv, NoWaypointGivenUp
<1> QED  BY <1>1, <1>2, <1>3, PTL DEF Spec
===============================================================================
