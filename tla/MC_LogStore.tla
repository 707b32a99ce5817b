---------------------------- MODULE MC_LogStore -----------------------------
(* Two callers, four lines one of which is telemetry and one is foreign, a  *)
(* queue of one: two lines can wait for each other and one be dropped.      *)
EXTENDS LogStoreRefinement

=============================================================================
