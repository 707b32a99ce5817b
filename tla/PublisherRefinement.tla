------------------------- MODULE PublisherRefinement -------------------------
(***************************************************************************)
(* EventHubPublisher implements EventOutbox: the outbox is the set of      *)
(* copies librdkafka ever accepted, everything else keeps its name.        *)
(***************************************************************************)
EXTENDS EventHubPublisher

Outbox == INSTANCE EventOutbox WITH
            strict <- cfg.strict,
            outbox <- accepted

(* The retry loop, the full queue and the delivery reports are invisible   *)
(* to the caller: every behaviour of the publisher is one of the outbox    *)
(* (_publish_envelope gives each envelope at most one copy and an answer   *)
(* that agrees with it).                                                   *)
ImplementsOutbox == Outbox!Spec

=============================================================================
