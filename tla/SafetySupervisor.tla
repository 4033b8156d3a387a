--------------------------- MODULE SafetySupervisor ---------------------------
(***************************************************************************)
(* Path H: the learned planner and the supervisor that overrules it        *)
(* (sac_planner_node.py, safety_supervisor_node.py).                       *)
(*                                                                         *)
(* Both head for the goal they have got, the planner straight and the      *)
(* supervisor by VFH; what the policy and VFH make of the obstacles is left *)
(* open but for the clearance they find.                                   *)
(***************************************************************************)
EXTENDS Integers

CONSTANTS
  Unset,        \* no goal yet
  Ahead(_, _),  \* the position a planner sends the vehicle to on its way to a goal
  Near(_, _),   \* within goal_tol
  Astray(_, _), \* beyond hold_exit_m
  HoldTicks     \* fallback_hold_ticks

ASSUME SupervisorAssumption == HoldTicks \in Nat

\* What a tick finds: nothing near or the fallback off, the blend band without a
\* reason to take over, or a reason (clearance, emergency, prefer_vfh).
Finding == {"clear", "band", "reason"}

VARIABLES
  sacGoal,   \* SacPlannerNode._goal
  holding,   \* SacPlannerNode._holding
  primary,   \* SafetySupervisorNode._primary_goal
  supGoal,   \* SafetySupervisorNode._goal
  fbHold,    \* _fb_hold
  fallback,  \* fallback_active as last published
  localGoal  \* /planner/local_goal as last published

sacVars == <<sacGoal, holding, primary>>
supVars == <<supGoal, fbHold, fallback, localGoal>>

PlannersInit ==
  /\ sacGoal = Unset /\ holding = FALSE /\ primary = Unset
  /\ supGoal = Unset /\ fbHold = 0 /\ fallback = FALSE /\ localGoal = Unset

\* Mutant: a new goal does not release the latch.
sacOnGoal_Latched(g) ==
  /\ sacGoal' = IF holding THEN sacGoal ELSE g
  /\ UNCHANGED <<holding, primary, supVars>>

\* SacPlannerNode._on_goal: a goal that moved releases the latch.
sacOnGoal(g) ==
  /\ sacGoal' = g
  /\ holding' = (holding /\ g = sacGoal)
  /\ UNCHANGED <<primary, supVars>>

\* SacPlannerNode._tick: hold at the goal, until drifted away; else head for it.
sacTick(pos) ==
  /\ sacGoal # Unset
  /\ LET keeps == holding /\ ~Astray(pos, sacGoal)
     IN  /\ holding' = (keeps \/ Near(pos, sacGoal))
         /\ primary' = IF holding' THEN sacGoal ELSE Ahead(pos, sacGoal)
  /\ UNCHANGED <<sacGoal, supVars>>

\* SafetySupervisorNode._on_goal
supOnGoal(g) ==
  /\ supGoal' = g
  /\ UNCHANGED <<sacVars, fbHold, fallback, localGoal>>

\* Whether VFH takes over, with the sticky hold, which works and runs down only
\* while the clearance is low: in clear flight VFH lets go at once, and what is
\* left of the hold takes over again in the next blend band.
takesOver(finding) ==
  LET held == finding = "band" /\ fbHold > 0
  IN  /\ fallback' = (finding = "reason" \/ held)
      /\ fbHold' = IF finding = "reason" THEN HoldTicks
                   ELSE IF held THEN fbHold - 1 ELSE fbHold

\* SafetySupervisorNode._tick
supTick(pos, finding) ==
  /\ supGoal # Unset /\ primary # Unset
  /\ takesOver(finding)
  /\ localGoal' = IF fallback' THEN Ahead(pos, supGoal) ELSE primary
  /\ UNCHANGED <<sacVars, supGoal>>
===============================================================================
