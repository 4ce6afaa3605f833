----------------------------- MODULE MCHeartbeat -----------------------------
(***************************************************************************)
(* Instances of Heartbeat for TLC.                                         *)
(***************************************************************************)
EXTENDS Heartbeat, TLC

CONSTANTS r1, r2, r3, main

\* Two interval wakes (cron) and a retry wake (failure alert), all for the session the daemon
\* wakes.
Priorities == r1 :> 2 @@ r2 :> 2 @@ r3 :> 3
OneSession == [r \in {r1, r2, r3} |-> main]
=============================================================================
