------------------------------- MODULE MCMission -------------------------------
(***************************************************************************)
(* Two waypoints, flown twice, on a line of three positions.               *)
(***************************************************************************)
EXTENDS Mission

MCWaypoints == <<2, 0>>
MCUnset == -1
MCAhead(p, q) == IF p < q THEN p + 1 ELSE IF p > q THEN p - 1 ELSE p
MCNear(p, q) == p = q
MCAstray(p, q) == p > q + 1 \/ p < q - 1
===============================================================================
