-------------------------- MODULE WaypointPublisher --------------------------
(***************************************************************************)
(* The mission of Scenario 3 and Path H (waypoint_publisher.py): a list of *)
(* waypoints, some cycles of it, and for each waypoint a goal that is      *)
(* published again a few times in case it was lost.                        *)
(*                                                                         *)
(* Times are in polls, the periods of the 0.2 s timer; an age is capped at *)
(* what it is compared with.                                               *)
(***************************************************************************)
EXTENDS Integers, Sequences

CONSTANTS
  Waypoints,    \* waypoints
  Cycles,       \* cycles; 0 is for ever
  HoldSec,      \* hold_sec, of the fixed-hold mode
  MaxHold,      \* max_hold, of the arrival mode
  RepubPeriod,  \* _repub_period
  RepubBudget   \* _repub_budget

ASSUME MissionAssumption ==
  /\ Len(Waypoints) \in Nat \ {0}
  /\ {Cycles, HoldSec, MaxHold, RepubPeriod, RepubBudget} \subseteq Nat
  /\ RepubPeriod > 0 /\ RepubBudget > 0

VARIABLES
  waitArrival,  \* wait_arrival
  started,      \* _started
  finished,     \* _finished
  idx,          \* idx, from 1
  cycle,        \* cycle_i
  goalAge,      \* age of _goal_t0; before the start, of the node
  repubAge,     \* age of _last_repub_t
  repubsLeft,   \* _repubs_left
  timeouts      \* history: the waypoints given up

missionVars == <<waitArrival, started, finished, idx, cycle,
                 goalAge, repubAge, repubsLeft, timeouts>>

LongestAge == IF MaxHold < HoldSec THEN HoldSec ELSE MaxHold
waypoint == Waypoints[idx]

MissionInit ==
  /\ waitArrival \in BOOLEAN
  /\ started = FALSE /\ finished = FALSE
  /\ idx = 1 /\ cycle = 0
  /\ goalAge = 0 /\ repubAge = RepubPeriod
  /\ repubsLeft = 0 /\ timeouts = 0

\* Mutant: the budget of the waypoint before is not renewed.
publishCurrent_NoBudget ==
  /\ goalAge' = 0
  /\ repubAge' = 0
  /\ repubsLeft' = IF started THEN repubsLeft ELSE RepubBudget - 1

\* _publish_current of a new waypoint.
publishCurrent ==
  /\ goalAge' = 0
  /\ repubAge' = 0
  /\ repubsLeft' = RepubBudget - 1

\* _start_once, and the first timer of the fixed-hold mode.
start ==
  /\ ~started
  /\ waitArrival \/ goalAge >= HoldSec
  /\ started' = TRUE
  /\ publishCurrent
  /\ UNCHANGED <<waitArrival, finished, idx, cycle, timeouts>>

\* Mutant: one cycle too many.
completeAfterCurrent_OneMore ==
  Cycles > 0 /\ idx >= Len(Waypoints) /\ cycle >= Cycles

\* _mission_complete_after_current
completeAfterCurrent ==
  Cycles > 0 /\ idx >= Len(Waypoints) /\ cycle >= Cycles - 1

\* _finish: the node shuts down, what it counts no longer matters.
finish ==
  /\ completeAfterCurrent
  /\ finished' = TRUE
  /\ UNCHANGED <<waitArrival, started, idx, cycle, goalAge, repubAge, repubsLeft>>

\* Mutant: the index does not wrap, so that the last waypoint is sent for ever.
advance_NoWrap ==
  /\ ~completeAfterCurrent
  /\ idx' = IF idx >= Len(Waypoints) THEN idx ELSE idx + 1
  /\ UNCHANGED cycle
  /\ publishCurrent
  /\ UNCHANGED <<waitArrival, started, finished>>

advance ==
  /\ ~completeAfterCurrent
  /\ idx' = IF idx >= Len(Waypoints) THEN 1 ELSE idx + 1
  /\ cycle' = IF idx >= Len(Waypoints) THEN cycle + 1 ELSE cycle
  /\ publishCurrent
  /\ UNCHANGED <<waitArrival, started, finished>>

advanceOrFinish == finish \/ advance

\* _tick of the fixed-hold mode.
holdTick ==
  /\ started /\ ~finished /\ ~waitArrival
  /\ goalAge >= HoldSec
  /\ advanceOrFinish
  /\ UNCHANGED timeouts

flying == started /\ ~finished /\ waitArrival

\* _tick of the arrival mode, first half: the goal is published again.
republishes(arrived) == ~arrived /\ repubsLeft > 0 /\ repubAge >= RepubPeriod

\* The waypoint is left, at the arrival or for want of it; if the goal is published
\* again in the same tick, the next one follows at once.
arrivalLeave(arrived) ==
  /\ flying
  /\ arrived \/ goalAge >= MaxHold
  /\ advanceOrFinish
  /\ timeouts' = IF arrived THEN timeouts ELSE timeouts + 1

arrivalStay(arrived) ==
  /\ flying
  /\ ~arrived /\ goalAge < MaxHold
  /\ IF republishes(arrived)
     THEN repubAge' = 0 /\ repubsLeft' = repubsLeft - 1
     ELSE UNCHANGED <<repubAge, repubsLeft>>
  /\ UNCHANGED <<waitArrival, started, finished, idx, cycle, goalAge, timeouts>>

\* One poll passes.
missionAging ==
  /\ goalAge' = IF goalAge < LongestAge THEN goalAge + 1 ELSE goalAge
  /\ repubAge' = IF repubAge < RepubPeriod THEN repubAge + 1 ELSE repubAge
  /\ UNCHANGED <<waitArrival, started, finished, idx, cycle, repubsLeft, timeouts>>

MissionTypeOK ==
  /\ {waitArrival, started, finished} \subseteq BOOLEAN
  /\ idx \in 1 .. Len(Waypoints)
  /\ cycle \in Nat /\ (Cycles > 0 => cycle < Cycles)
  /\ goalAge \in 0 .. LongestAge
  /\ repubAge \in 0 .. RepubPeriod
  /\ repubsLeft \in 0 .. RepubBudget - 1
  /\ timeouts \in Nat
==============================================================================
