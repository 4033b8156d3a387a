---------------------------- MODULE DeadManSwitch ----------------------------
(***************************************************************************)
(* What the flight loop promises about power, whatever the network and the *)
(* processes do: the rotors are a dead man's switch held down by pose      *)
(* measurements.  `basis` is the age of the newest measurement the         *)
(* controller has; the rotors may run only while it is at most Grip.       *)
(* `Cap` is the age beyond which ages are no longer told apart, above Grip. *)
(***************************************************************************)
EXTENDS Integers

CONSTANTS Grip, Cap

VARIABLES basis, power

Init == basis = Cap /\ power = "off"

\* A measurement arrives; it is already within the grip when it does.
Measure == basis' \in 0 .. Grip /\ UNCHANGED power

\* The rotors change: starting them takes a measurement within the grip.
Switch ==
  /\ power' \in {"off", "run"}
  /\ power' = "run" => basis <= Grip
  /\ UNCHANGED basis

\* Time passes, and may not pass the grip while the rotors run.
Elapse ==
  /\ basis' = IF basis < Cap THEN basis + 1 ELSE Cap
  /\ power = "run" => basis' <= Grip
  /\ UNCHANGED power

Next == Measure \/ Switch \/ Elapse

Spec == Init /\ [][Next]_<<basis, power>>
=============================================================================
