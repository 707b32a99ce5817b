------------------------------ MODULE MC_Runner ------------------------------
(* Two events in batches of one or two, each with a START and an END        *)
(* envelope.                                                                *)
EXTENDS Runner

MCEnvelope == (1 .. MaxEvents) \X {"start", "end"}

=============================================================================
