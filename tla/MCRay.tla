--------------------------------- MODULE MCRay ---------------------------------
(***************************************************************************)
(* Rays between any two of the voxels of a small box.                      *)
(***************************************************************************)
EXTENDS RayCaster

MCInputs == {v \in [Axis -> 0 .. 4] : v["z"] <= 1}
===============================================================================
