-------------------------------- MODULE Mission --------------------------------
(***************************************************************************)
(* A waypoint mission on Path H (sac_avoidance.launch.py): the publisher,  *)
(* the learned planner and its supervisor, which get each goal by separate *)
(* subscriptions, and the vehicle that flies to the local goal.            *)
(*                                                                         *)
(* Time is in polls of the publisher.  The planners tick at 20 Hz, so each *)
(* ticks at least once a poll; odometry comes at 100 Hz, so every node sees *)
(* the position the vehicle is in.  A goal is delivered or lost within a   *)
(* poll.                                                                   *)
(***************************************************************************)
EXTENDS WaypointPublisher, SafetySupervisor

CONSTANTS
  Depot,      \* where the vehicle hovers at first
  At(_, _),   \* within arrival_tol
  MaxLosses   \* the goals a subscription loses of one waypoint in a calm mission

ASSUME LossAssumption == MaxLosses \in Nat /\ MaxLosses < RepubBudget

Receivers == {"sac", "supervisor"}

VARIABLES
  calm,     \* losses are bounded and the vehicle keeps flying
  pos,      \* where the vehicle is
  pending,  \* the goals on their way to each receiver, oldest first
  lost,     \* how many of this waypoint's goals each receiver has lost
  due       \* who has yet to run in this poll

worldVars == <<calm, pos, pending, lost, due>>
vars == <<missionVars, sacVars, supVars, worldVars>>

Everyone == {"publisher", "sac", "supervisor", "vehicle"}

Init ==
  /\ MissionInit /\ PlannersInit
  /\ calm \in BOOLEAN
  /\ pos = Depot
  /\ pending = [r \in Receivers |-> <<>>]
  /\ lost = [r \in Receivers |-> 0]
  /\ due = Everyone

\* The goals published in a step, for each receiver.
Publish(goals) == pending' = [r \in Receivers |-> pending[r] \o goals]
newWaypoint == lost' = [r \in Receivers |-> 0]

StartMission ==
  /\ "publisher" \in due
  /\ start
  /\ Publish(<<waypoint>>) /\ newWaypoint
  /\ due' = due \ {"publisher"}
  /\ UNCHANGED <<sacVars, supVars, calm, pos>>

HoldTick ==
  /\ "publisher" \in due
  /\ holdTick
  /\ Publish(IF finished' THEN <<>> ELSE <<waypoint'>>) /\ newWaypoint
  /\ due' = due \ {"publisher"}
  /\ UNCHANGED <<sacVars, supVars, calm, pos>>

Leave ==
  /\ "publisher" \in due
  /\ arrivalLeave(At(pos, waypoint))
  /\ Publish((IF republishes(At(pos, waypoint)) THEN <<waypoint>> ELSE <<>>)
             \o (IF finished' THEN <<>> ELSE <<waypoint'>>))
  /\ newWaypoint
  /\ due' = due \ {"publisher"}
  /\ UNCHANGED <<sacVars, supVars, calm, pos>>

Stay ==
  /\ "publisher" \in due
  /\ arrivalStay(At(pos, waypoint))
  /\ Publish(IF republishes(At(pos, waypoint)) THEN <<waypoint>> ELSE <<>>)
  /\ due' = due \ {"publisher"}
  /\ UNCHANGED <<sacVars, supVars, calm, pos, lost>>

\* The publisher's timer has nothing to do: over, or not yet time.
PublisherIdle ==
  /\ "publisher" \in due
  /\ finished \/ (~waitArrival /\ goalAge < HoldSec)
  /\ due' = due \ {"publisher"}
  /\ UNCHANGED <<missionVars, sacVars, supVars, calm, pos, pending, lost>>

Deliver(r) ==
  /\ pending[r] # <<>>
  /\ IF r = "sac" THEN sacOnGoal(Head(pending[r])) ELSE supOnGoal(Head(pending[r]))
  /\ pending' = [pending EXCEPT ![r] = Tail(@)]
  /\ UNCHANGED <<missionVars, calm, pos, lost, due>>

Lose(r) ==
  /\ pending[r] # <<>>
  /\ calm => lost[r] < MaxLosses
  /\ lost' = [lost EXCEPT ![r] = IF calm THEN @ + 1 ELSE @]
  /\ pending' = [pending EXCEPT ![r] = Tail(@)]
  /\ UNCHANGED <<missionVars, sacVars, supVars, calm, pos, due>>

SacRuns ==
  /\ "sac" \in due
  /\ \/ sacTick(pos)
     \/ sacGoal = Unset /\ UNCHANGED <<sacVars, supVars>>
  /\ due' = due \ {"sac"}
  /\ UNCHANGED <<missionVars, calm, pos, pending, lost>>

SupervisorRuns ==
  /\ "supervisor" \in due
  /\ \/ \E finding \in Finding : supTick(pos, finding)
     \/ (supGoal = Unset \/ primary = Unset) /\ UNCHANGED <<sacVars, supVars>>
  /\ due' = due \ {"supervisor"}
  /\ UNCHANGED <<missionVars, calm, pos, pending, lost>>

\* The vehicle reaches the local goal; in a mission that is not calm it may stay.
VehicleFlies ==
  /\ "vehicle" \in due
  /\ \/ pos' = IF localGoal = Unset THEN pos ELSE Ahead(pos, localGoal)
     \/ ~calm /\ pos' = pos
  /\ due' = due \ {"vehicle"}
  /\ UNCHANGED <<missionVars, sacVars, supVars, calm, pending, lost>>

Poll ==
  /\ due = {}
  /\ \A r \in Receivers : pending[r] = <<>>
  /\ missionAging
  /\ due' = Everyone
  /\ UNCHANGED <<sacVars, supVars, calm, pos, pending, lost>>

PublisherRuns == StartMission \/ HoldTick \/ Leave \/ Stay \/ PublisherIdle

Next ==
  \/ PublisherRuns
  \/ \E r \in Receivers : Deliver(r) \/ Lose(r)
  \/ SacRuns \/ SupervisorRuns
  \/ VehicleFlies
  \/ Poll

Spec == Init /\ [][Next]_vars

\* Every timer fires and every message is taken or lost.
Fairness ==
  /\ WF_vars(PublisherRuns)
  /\ \A r \in Receivers : WF_vars(Deliver(r) \/ Lose(r))
  /\ WF_vars(SacRuns) /\ WF_vars(SupervisorRuns) /\ WF_vars(VehicleFlies)
  /\ WF_vars(Poll)

FairSpec == Spec /\ Fairness
-----------------------------------------------------------------------------
\* No waypoint is given up for want of time as long as a subscription loses fewer of
\* its goals than the publisher sends: not even when one planner has the goal and the
\* other, still without it, flies the vehicle back to the waypoint before.
NoWaypointGivenUp == calm => timeouts = 0

\* When the last goal of the burst is out and what was not lost is taken, both
\* planners steer for the same waypoint: the two subscriptions lose different goals,
\* but never all of a burst, and a goal of the waypoint before never comes in last.
PlannersAgree ==
  calm /\ flying /\ repubsLeft = 0 /\ (\A r \in Receivers : pending[r] = <<>>)
    => sacGoal = waypoint /\ supGoal = waypoint

\* A mission with a number of cycles ends, whatever is lost and wherever the vehicle
\* is stuck.
MissionEnds == Cycles > 0 => <>finished
===============================================================================
