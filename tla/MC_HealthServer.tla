--------------------------- MODULE MC_HealthServer ---------------------------
(* One tick is ten seconds: 120 s of staleness, a probe every 30 s, three   *)
(* failures.  A clock correction of 13 ticks makes a fresh heartbeat stale. *)
EXTENDS HealthServer

=============================================================================
