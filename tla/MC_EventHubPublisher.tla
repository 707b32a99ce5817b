------------------------ MODULE MC_EventHubPublisher ------------------------
(* Three envelopes against a queue of two: the third call finds the queue   *)
(* full unless the broker has answered and a poll has served the reports.   *)
EXTENDS PublisherRefinement

=============================================================================
