---------------------------- MODULE MC_Telemetry -----------------------------
(* Rings of two lines, two writers, three records: rings wrap round while a  *)
(* request is being answered.                                               *)
EXTENDS Telemetry

=============================================================================
