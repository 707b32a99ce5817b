--------------------------- MODULE MC_PodSimulator ---------------------------
(* Two to four replicas; three reports of no load or of much: the load asks *)
(* for fewer than the minimum and for more than the maximum.                *)
EXTENDS PodSimulator

=============================================================================
