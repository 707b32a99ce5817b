------------------------- MODULE LogStoreRefinement -------------------------
(***************************************************************************)
(* LogStore implements LineLog: the line in the worker's hands is the head *)
(* of those that wait, and a line is seen once its put_nowait has been     *)
(* tried.                                                                  *)
(***************************************************************************)
EXTENDS LogStore

Seen    == {n \in Line : fate[n] \notin {"new", "calling", "unsaved"}}
Waiting == IF hand = Nothing THEN queue ELSE <<hand>> \o queue

Lines == INSTANCE LineLog WITH
           Cap    <- QueueSize,
           Cutoff <- -Retention .. MaxDay,
           seen   <- Seen,
           waiting <- Waiting,
           written <- lastId,
           log    <- rows

(* Threads, transactions, publishing and failures are invisible in the     *)
(* order of the log: lines are written in the order they were queued, none *)
(* twice, none refused while there is room, and only age or a failed write *)
(* keeps a queued line out (_enqueue, _worker).                            *)
ImplementsLineLog == Lines!Spec

=============================================================================
