------------------------------- MODULE Runner -------------------------------
(***************************************************************************)
(* generator/runner.py: main() and run_one_batch() around the publisher.   *)
(*                                                                         *)
(* One process at a time: its main thread generates a batch of events,     *)
(* publishes a START and an END envelope for each, counts what happened,   *)
(* flushes, reports a heartbeat and sleeps.  SIGTERM asks it to stop; the  *)
(* platform may kill and restart the container at any moment.  Event       *)
(* numbers stand for the uuid request ids: a restart never reuses one.     *)
(***************************************************************************)
EXTENDS EventHubPublisher

CONSTANTS
  MaxEvents,    (* bound: events generated over the whole behaviour          *)
  MaxBatch,     (* bound: the largest value _batch_size returns              *)
  MaxRestarts   (* bound: container restarts                                 *)

Event == 1 .. MaxEvents

ASSUME RunnerAssumption ==
  /\ MaxEvents \in Nat /\ MaxBatch \in Nat \ {0} /\ MaxRestarts \in Nat
  /\ Envelope = Event \X {"start", "end"}

VARIABLES
  rpc,             (* where the main thread is                               *)
  running,         (* _running, cleared by the signal handler                *)
  next,            (* the next event generate_event will produce             *)
  first,           (* the first event of the current batch                   *)
  size,            (* batch_size                                             *)
  successes,       (* run_one_batch's counters                               *)
  errors,
  publish_errors,
  metered,         (* METRIC_SELF_PUBLISH_ERRORS recorded by this batch      *)
  ready,           (* health_server: a batch has completed                   *)
  exit,            (* the process exit code, or "none"                       *)
  late,            (* batches begun after the signal, a history variable     *)
  lost,            (* copies dropped with a dead process, a history variable *)
  restarts

counters  == <<successes, errors, publish_errors, metered>>
batchVars == <<next, first, size>>
lifeVars  == <<ready, exit, late, lost, restarts>>
runVars   == <<rpc, running, batchVars, counters, lifeVars>>
vars      == <<pubVars, runVars>>

(* The events of the current batch that have gone through the loop body.   *)
Done == first .. next - 1
Complete(n) == answer[<<n, "start">>] = "yes" /\ answer[<<n, "end">>] = "yes"

InBatch == rpc \in {"generate", "started", "ended", "flushing"}

FlagTypeOK ==
  /\ rpc \in {"boot", "check", "setup", "generate", "started", "ended",
              "flushing", "resting", "sleeping", "exited"}
  /\ running \in BOOLEAN /\ ready \in BOOLEAN
  /\ exit \in {"none", "clean", "misconfigured"}

CountTypeOK ==
  /\ next \in 1 .. MaxEvents + 1 /\ first \in 1 .. MaxEvents + 1
  /\ size \in 0 .. MaxBatch
  /\ successes \in Nat /\ errors \in Nat
  /\ publish_errors \in Nat /\ metered \in Nat
  /\ late \in Nat /\ restarts \in Nat

TypeOK == PubTypeOK /\ FlagTypeOK /\ CountTypeOK /\ lost \subseteq accepted

Init ==
  /\ PubInit
  /\ rpc = "boot" /\ running = TRUE
  /\ next = 1 /\ first = 1 /\ size = 0
  /\ successes = 0 /\ errors = 0 /\ publish_errors = 0 /\ metered = 0
  /\ ready = FALSE /\ exit = "none" /\ late = 0 /\ lost = {} /\ restarts = 0

-----------------------------------------------------------------------------
(* The main thread.                                                        *)

(* main() up to the loop: a PublisherConfigError is exit code 2, before    *)
(* any server is started.                                                  *)
Boot ==
  /\ rpc = "boot"
  /\ Setup
  /\ IF mode' = "refused"
     THEN rpc' = "exited" /\ exit' = "misconfigured"
     ELSE rpc' = "check" /\ UNCHANGED exit
  /\ UNCHANGED <<running, batchVars, counters, ready, late, lost, restarts>>

(* a bug: "while True:" with the flag tested nowhere but before the sleep  *)
LoopEntersAnyway ==
  /\ rpc = "check"
  /\ next <= MaxEvents
  /\ rpc' = "setup"
  /\ UNCHANGED <<pubVars, running, batchVars, counters, lifeVars>>

(* "while _running:".  The bound on events stands in the guard here, so    *)
(* that a runner out of events can still be told to stop; a batch is no    *)
(* larger than what is left.                                               *)
LoopEnters ==
  /\ rpc = "check" /\ running
  /\ next <= MaxEvents
  /\ rpc' = "setup"
  /\ UNCHANGED <<pubVars, running, batchVars, counters, lifeVars>>

(* The process ends and librdkafka's thread with it: copies still owed to  *)
(* the broker are gone unless the broker already stored them.              *)
ProducerDies ==
  /\ lost' = lost \cup (queue \ stored)
  /\ queue' = {} /\ unserved' = {}

LoopExits ==
  /\ rpc = "check" /\ ~running
  /\ ProducerDies
  /\ rpc' = "exited" /\ exit' = "clean"
  /\ UNCHANGED <<cfg, mode, callVars, accepted, stored, failed, unflushed,
                 running, batchVars, counters, ready, late, restarts>>

(* _ensure_otel, _ensure_tracing, _ensure_pod_sim, _batch_size, ...        *)
BatchBegins ==
  /\ rpc = "setup"
  /\ size' \in 1 .. MaxBatch /\ next + size' <= MaxEvents + 1
  /\ first' = next
  /\ successes' = 0 /\ errors' = 0 /\ publish_errors' = 0 /\ metered' = 0
  /\ late' = IF running THEN late ELSE late + 1
  /\ rpc' = "generate"
  /\ UNCHANGED <<pubVars, running, next, ready, exit, lost, restarts>>

(* generate_event, then publish_start_event.                               *)
PublishStart ==
  /\ rpc = "generate" /\ next - first < size
  /\ Publish(<<next, "start">>)
  /\ rpc' = "started"
  /\ UNCHANGED <<running, batchVars, counters, lifeVars>>

(* END is published whatever START's answer was.                           *)
PublishEnd ==
  /\ rpc = "started"
  /\ Publish(<<next, "end">>)
  /\ rpc' = "ended"
  /\ UNCHANGED <<running, batchVars, counters, lifeVars>>

(* a bug: "start_ok or end_ok" in place of "start_ok and end_ok"           *)
EventCountedByEither ==
  /\ rpc = "ended" /\ pc = "idle"
  /\ publish_errors' = IF \E p \in {"start", "end"} : answer[<<next, p>>] = "yes"
                       THEN publish_errors ELSE publish_errors + 1
  /\ \/ successes' = successes + 1 /\ UNCHANGED errors
     \/ errors' = errors + 1 /\ UNCHANGED successes
  /\ next' = next + 1
  /\ rpc' = "generate"
  /\ UNCHANGED <<pubVars, running, first, size, metered, lifeVars>>

(* The rest of the loop body went well: metrics, logs, prompt audit and    *)
(* evaluation, then the counters by publish answers and event status.      *)
EventCounted ==
  /\ rpc = "ended" /\ pc = "idle"
  /\ publish_errors' = IF Complete(next) THEN publish_errors
                       ELSE publish_errors + 1
  /\ \/ successes' = successes + 1 /\ UNCHANGED errors
     \/ errors' = errors + 1 /\ UNCHANGED successes
  /\ next' = next + 1
  /\ rpc' = "generate"
  /\ UNCHANGED <<pubVars, running, first, size, metered, lifeVars>>

(* a bug: the handler forgets the events' own error counter                *)
EventRaisesUncounted ==
  /\ pc = "idle"
  /\ \/ rpc = "generate" /\ next - first < size
     \/ rpc \in {"started", "ended"}
  /\ publish_errors' = publish_errors + 1
  /\ metered' = metered + 1
  /\ next' = next + 1
  /\ rpc' = "generate"
  /\ UNCHANGED <<pubVars, running, first, size, successes, errors, lifeVars>>

(* "except Exception": any step of the loop body raised, before, between   *)
(* or after the two publishes.                                             *)
EventRaises ==
  /\ pc = "idle"
  /\ \/ rpc = "generate" /\ next - first < size
     \/ rpc \in {"started", "ended"}
  /\ errors' = errors + 1
  /\ publish_errors' = publish_errors + 1
  /\ metered' = metered + 1
  /\ next' = next + 1
  /\ rpc' = "generate"
  /\ UNCHANGED <<pubVars, running, first, size, successes, lifeVars>>

(* a bug: a runner told to stop skips the flush of its last batch          *)
FlushBatchIfRunning ==
  /\ rpc = "generate" /\ next - first = size
  /\ IF running THEN Flush ELSE UNCHANGED pubVars
  /\ rpc' = "flushing"
  /\ UNCHANGED <<running, batchVars, counters, lifeVars>>

(* The loop is over: publisher.flush().                                    *)
FlushBatch ==
  /\ rpc = "generate" /\ next - first = size
  /\ Flush
  /\ rpc' = "flushing"
  /\ UNCHANGED <<running, batchVars, counters, lifeVars>>

(* Self-metrics, then health_server.heartbeat, then the summary.  The      *)
(* publisher exists, so is_healthy holds, and flush never raises: the      *)
(* heartbeat always says that the publisher is healthy.                    *)
BatchCompletes ==
  /\ rpc = "flushing" /\ pc = "idle"
  /\ ready' = TRUE
  /\ rpc' = "resting"
  /\ UNCHANGED <<pubVars, running, batchVars, counters, exit, late, lost, restarts>>

(* main() catches what run_one_batch raises outside the loop body, during  *)
(* set-up or between the flush and the heartbeat: no heartbeat.            *)
BatchRaises ==
  /\ rpc \in {"setup", "flushing"} /\ pc = "idle"
  /\ rpc' = "resting"
  /\ UNCHANGED <<pubVars, running, batchVars, counters, lifeVars>>

(* "if sleep_for > 0 and _running": a slow batch or a signal skips it.     *)
Rest ==
  /\ rpc = "resting"
  /\ \/ rpc' = "check"
     \/ running /\ rpc' = "sleeping"
  /\ UNCHANGED <<pubVars, running, batchVars, counters, lifeVars>>

(* time.sleep(sleep_for) ends; a signal does not shorten it (PEP 475).     *)
SleepEnds ==
  /\ rpc = "sleeping"
  /\ rpc' = "check"
  /\ UNCHANGED <<pubVars, running, batchVars, counters, lifeVars>>

InPublisher == CallStep /\ UNCHANGED runVars

MainThread ==
  \/ Boot \/ LoopEnters \/ LoopExits \/ BatchBegins
  \/ PublishStart \/ PublishEnd \/ EventCounted \/ EventRaises
  \/ FlushBatch \/ BatchCompletes \/ BatchRaises \/ Rest \/ SleepEnds
  \/ InPublisher

-----------------------------------------------------------------------------
(* The environment.                                                        *)

(* _signal_handler, installed before the publisher is built.               *)
Signal ==
  /\ rpc \notin {"boot", "exited"} /\ running
  /\ running' = FALSE
  /\ UNCHANGED <<pubVars, rpc, batchVars, counters, lifeVars>>

(* The container is killed, or has exited, and is started again.  The      *)
(* event in the loop body is abandoned: its envelopes stay as they are.    *)
Restart ==
  /\ rpc # "boot" /\ restarts < MaxRestarts
  /\ restarts' = restarts + 1
  /\ ProducerDies
  /\ mode' = "new" /\ pc' = "idle" /\ arg' = NoEnvelope /\ attempt' = 0
  /\ unflushed' = FALSE
  /\ rpc' = "boot" /\ running' = TRUE
  /\ next' = IF rpc \in {"started", "ended"} THEN next + 1 ELSE next
  /\ first' = next' /\ size' = 0
  /\ successes' = 0 /\ errors' = 0 /\ publish_errors' = 0 /\ metered' = 0
  /\ ready' = FALSE /\ exit' = "none" /\ late' = 0
  /\ UNCHANGED <<cfg, answer, mocked, accepted, stored, failed>>

Broker == BrokerStep /\ UNCHANGED runVars

(* The last container has exited.                                          *)
Terminated == rpc = "exited" /\ UNCHANGED vars

Next == MainThread \/ Signal \/ Restart \/ Broker \/ Terminated

Spec == Init /\ [][Next]_vars

(* The main thread keeps running and its sleeps and poll timeouts end.     *)
(* Neither the broker nor the platform owes it anything.                   *)
FairSpec == Spec /\ WF_vars(MainThread)

-----------------------------------------------------------------------------
(* Every event of the batch is a success or an error, never both and never *)
(* neither, and no batch reports more publish errors than events (the      *)
(* counters of run_one_batch, on every path through its two handlers).     *)
BatchAccounting ==
  InBatch => /\ successes + errors = next - first
             /\ publish_errors <= next - first
             /\ next - first <= size

(* A batch that reports no publish error put START and END of each of its  *)
(* events into librdkafka's queue, or into the mock log: an event with a   *)
(* refused envelope is always counted.                                     *)
CleanBatchIsPublished ==
  InBatch /\ publish_errors = 0 =>
    \A n \in Done, p \in {"start", "end"} :
      CopiesOf(<<n, p>>) # {} \/ <<n, p>> \in mocked

(* After the signal at most one more batch begins, the one whose loop test *)
(* had already passed ("shutting down after current batch").               *)
AtMostOneLateBatch == late <= 1

(* A clean exit after a flush that drained the queue drops nothing: no     *)
(* batch, last or late, leaves messages behind that its flush has not      *)
(* waited for.                                                             *)
FlushedExitDropsNothing ==
  [][exit = "none" /\ exit' = "clean" /\ ~unflushed => lost' = lost]_vars

(* A signalled runner stops even if the broker is down and the queue full: *)
(* every publish gives up and the flush times out.                         *)
StopsWhenAsked == ~running ~> (exit # "none" \/ running)

(* Claimed by docs/semantic-conventions.md:175 (the counter has a reason   *)
(* produce_error): a batch's failed publishes all reach the self-metric.   *)
PublishErrorsAreMetered == rpc = "flushing" => metered = publish_errors

(* Claimed by docs/HOW_IT_WORKS.md:591 ("must not lose"): a runner that    *)
(* stops cleanly leaves no accepted envelope undelivered.                  *)
CleanExitLosesNothing == exit = "clean" => lost = {}
-----------------------------------------------------------------------------
(* What the properties above rest on.  The bounds are never overrun.       *)
BatchFits ==
  /\ rpc = "setup" => next <= MaxEvents
  /\ InBatch => /\ size \in 1 .. MaxBatch
                /\ first <= next /\ first + size <= MaxEvents + 1
  /\ rpc \in {"started", "ended"} => next - first < size

(* With no publish error counted, every event so far got two yeses.        *)
CleanIsComplete == InBatch /\ publish_errors = 0 => \A n \in Done : Complete(n)

(* A publisher call runs only where the main thread made one.              *)
CallHasCaller ==
  /\ pc \in {"produce", "poll", "drain", "sleep"} => rpc \in {"started", "ended"}
  /\ pc = "flush" => rpc = "flushing"
  /\ mode # "kafka" => pc = "idle" /\ queue = {}

(* Outside the event loop, only a flush that timed out leaves messages.    *)
FlushedOrWarned ==
  rpc \notin {"generate", "started", "ended"} /\ pc = "idle" /\ ~unflushed =>
    queue = {}

(* The batch begun after the signal was past its loop test.                *)
LateBatch == running \/ rpc = "setup" => late = 0

IInv ==
  /\ PubIInv /\ TypeOK
  /\ BatchAccounting /\ BatchFits /\ CleanIsComplete
  /\ CallHasCaller /\ FlushedOrWarned
  /\ AtMostOneLateBatch /\ LateBatch

=============================================================================
