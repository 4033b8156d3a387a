-------------------------------- MODULE Plant --------------------------------
(***************************************************************************)
(* The drone_dynamics node (dynamics_node.cpp): it holds the last motor    *)
(* command received, and every period integrates the vehicle with it, or   *)
(* with zero rpm once the command is older than cmd_timeout, and then      *)
(* publishes odometry.  Rigid-body state is left out; what remains is      *)
(* whether the rotors run.                                                 *)
(***************************************************************************)
EXTENDS Integers

CONSTANT CmdTimeout    \* cmd_timeout, in ticks

ASSUME CmdTimeoutAssumption == CmdTimeout \in Nat

VARIABLES
  plantUp,   \* the process is running
  motorCmd,  \* motor_cmd_: "off" (all zero) or "run"
  cmdAge,    \* age of last_cmd_time_, capped as in module Controller
  applied,   \* the command the last timer period integrated
  plantDue   \* the timer has not fired since the last tick

plantVars == <<plantUp, motorCmd, cmdAge, applied, plantDue>>

PlantInit ==
  /\ plantUp = TRUE
  /\ motorCmd = "off"
  /\ cmdAge = CmdTimeout + 1
  /\ applied = "off"
  /\ plantDue = TRUE

\* Mutant: the callback does not stamp the command.
onMotorCommand_NoStamp(power) ==
  /\ plantUp
  /\ motorCmd' = power
  /\ UNCHANGED <<plantUp, cmdAge, applied, plantDue>>

\* The motor_rpm_cmd subscription.
onMotorCommand(power) ==
  /\ plantUp
  /\ motorCmd' = power
  /\ cmdAge' = 0
  /\ UNCHANGED <<plantUp, applied, plantDue>>

\* Mutant: no fail-safe, the last command is held for ever.
onTimer_NoFailsafe ==
  /\ plantDue
  /\ applied' = motorCmd
  /\ plantDue' = FALSE
  /\ UNCHANGED <<plantUp, motorCmd, cmdAge>>

\* onTimer: motors off when no command came for cmd_timeout.
onTimer ==
  /\ plantDue
  /\ applied' = IF cmdAge > CmdTimeout THEN "off" ELSE motorCmd
  /\ plantDue' = FALSE
  /\ UNCHANGED <<plantUp, motorCmd, cmdAge>>

\* The process ends, and with it the simulated vehicle.
PlantCrash ==
  /\ plantUp
  /\ plantUp' = FALSE
  /\ applied' = "off"
  /\ plantDue' = FALSE
  /\ UNCHANGED <<motorCmd, cmdAge>>

\* One tick of the clock; the timer's next period begins.
PlantAging ==
  /\ cmdAge' = IF cmdAge < CmdTimeout + 1 THEN cmdAge + 1 ELSE CmdTimeout + 1
  /\ plantDue' = plantUp
  /\ UNCHANGED <<plantUp, motorCmd, applied>>

PlantTypeOK ==
  /\ plantUp \in BOOLEAN
  /\ motorCmd \in {"off", "run"}
  /\ cmdAge \in 0 .. CmdTimeout + 1
  /\ applied \in {"off", "run"}
  /\ plantDue \in BOOLEAN
=============================================================================
