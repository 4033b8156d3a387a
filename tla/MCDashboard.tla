----------------------------- MODULE MCDashboard -----------------------------
(***************************************************************************)
(* Two request threads and two handles per manager.                        *)
(***************************************************************************)
EXTENDS Dashboard, TLC

CONSTANTS t1, t2
MCNone == <<"none", 0>>

\* Two clients that start and stop the same things, or one what the other's
\* request looks at.
MCRequests ==
  (t1 :> {"start", "stop", "rl/train"}) @@
  (t2 :> {"restart", "acceptance", "sac/train", "sac/stop"})

\* Only the train card of Path H is used.
MCTrainCard == (t1 :> {"sac/train", "sac/stop"}) @@ (t2 :> {"status"})
==============================================================================
