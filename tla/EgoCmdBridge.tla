----------------------------- MODULE EgoCmdBridge -----------------------------
(***************************************************************************)
(* The bridge between a vendored planner and the plant (ego_cmd_bridge.py): *)
(* goals go through to the planner, its position commands come back and    *)
(* are forwarded to the controller unless they ran away.                   *)
(***************************************************************************)
EXTENDS Integers

CONSTANTS
  None,         \* no goal or command yet
  Apart(_, _),  \* the distance of two positions
  Workspace,    \* the positions with |x| and |y| up to cmd_bound
  CmdBound      \* cmd_bound, as a distance from the goal

VARIABLES
  goalXy,    \* _goal_xy
  goalOut,   \* the goal last published for the planner
  setpoint   \* the command last forwarded to the controller

bridgeVars == <<goalXy, goalOut, setpoint>>

BridgeInit == goalXy = None /\ goalOut = None /\ setpoint = None

\* on_goal
onGoal(g) ==
  /\ goalOut' = g
  /\ goalXy' = g
  /\ UNCHANGED setpoint

\* Mutant: commands are compared with the workspace only.
cmdIsSane_BoundOnly(p) == p \in Workspace

\* _cmd_is_sane
cmdIsSane(p) ==
  /\ p \in Workspace
  /\ goalXy # None => Apart(p, goalXy) <= CmdBound

\* on_cmd: a command that ran away is dropped.
onCmd(p) ==
  /\ setpoint' = IF cmdIsSane(p) THEN p ELSE setpoint
  /\ UNCHANGED <<goalXy, goalOut>>
===============================================================================
