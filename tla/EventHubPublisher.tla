-------------------------- MODULE EventHubPublisher --------------------------
(***************************************************************************)
(* observability/publisher.py: the publisher that hands telemetry          *)
(* envelopes to Azure Event Hubs through librdkafka, and its wrapper       *)
(* generator/kafka_publisher.py.                                           *)
(*                                                                         *)
(* Two threads act.  The caller's thread runs _setup, _publish_envelope    *)
(* (three attempts around produce) and flush.  The librdkafka thread,      *)
(* external to the repository, ships queued messages to the broker and     *)
(* leaves a delivery report for each, which only poll and flush serve.     *)
(*                                                                         *)
(* A message is a pair <<envelope, n>>: the copy of the envelope that was  *)
(* enqueued when there were n already, so that a duplicate is visible as a *)
(* second copy.                                                            *)
(***************************************************************************)
EXTENDS Naturals, FiniteSets

CONSTANTS
  Envelope,    (* the envelopes callers publish, each built once (uuid ids)    *)
  NoEnvelope,  (* "no publish call is running"                                 *)
  QueueCap     (* librdkafka's queue.buffering.max.messages                    *)

ASSUME PublisherAssumption ==
  /\ NoEnvelope \notin Envelope
  /\ QueueCap \in Nat \ {0}

VARIABLES
  cfg,        (* the environment: is Event Hubs configured, is it strict prod  *)
  mode,       (* "new", "mock", "kafka", or "refused" when _setup raised       *)
  pc,         (* where the caller's thread is inside the publisher             *)
  arg,        (* the envelope of the running _publish_envelope call            *)
  attempt,    (* its loop counter                                              *)
  answer,     (* per envelope: not published yet, in a call, or what it got    *)
  mocked,     (* envelopes that mock mode printed instead of sending           *)
  accepted,   (* every copy produce ever accepted                              *)
  queue,      (* copies librdkafka still owes to the broker                    *)
  unserved,   (* copies with a final report that no poll has served            *)
  stored,     (* copies the broker has persisted                               *)
  failed,     (* copies librdkafka gave up on (the report is only logged)      *)
  unflushed   (* the last flush returned with messages undelivered             *)

callVars   == <<pc, arg, attempt, answer, mocked>>
kafkaVars  == <<accepted, queue, unserved, stored, failed>>
pubVars    == <<cfg, mode, callVars, kafkaVars, unflushed>>

MaxAttempts == 3
Attempt == 0 .. MaxAttempts - 1
Copy == Envelope \X Attempt

CopiesOf(e) == {m \in accepted : m[1] = e}
NewCopy(e) == <<e, Cardinality(CopiesOf(e))>>

(* The variables' types.  Strict is environment = "prod" without           *)
(* ALLOW_MOCK_MODE; configured is "confluent-kafka is installed and the    *)
(* Event Hubs credentials are present".                                    *)
PubTypeOK ==
  /\ cfg \in [configured : BOOLEAN, strict : BOOLEAN]
  /\ mode \in {"new", "mock", "kafka", "refused"}
  /\ pc \in {"idle", "produce", "poll", "drain", "sleep", "flush"}
  /\ arg \in Envelope \cup {NoEnvelope}
  /\ attempt \in Attempt
  /\ answer \in [Envelope -> {"new", "open", "yes", "no"}]
  /\ mocked \subseteq Envelope
  /\ accepted \subseteq Copy
  /\ queue \subseteq accepted
  /\ unserved \subseteq accepted
  /\ stored \subseteq accepted
  /\ failed \subseteq accepted
  /\ unflushed \in BOOLEAN

PubInit ==
  /\ cfg \in [configured : BOOLEAN, strict : BOOLEAN]
  /\ mode = "new"
  /\ pc = "idle" /\ arg = NoEnvelope /\ attempt = 0
  /\ answer = [e \in Envelope |-> "new"]
  /\ mocked = {} /\ accepted = {} /\ queue = {} /\ unserved = {}
  /\ stored = {} /\ failed = {}
  /\ unflushed = FALSE

-----------------------------------------------------------------------------
(* The caller's thread.                                                    *)

(* _setup: a missing library or credential, or a Producer() that fails,    *)
(* is fatal in strict prod and mock mode elsewhere.                        *)
Setup ==
  /\ mode = "new"
  /\ \E producerUp \in BOOLEAN :
       mode' = IF cfg.configured /\ producerUp THEN "kafka"
               ELSE IF cfg.strict THEN "refused" ELSE "mock"
  /\ UNCHANGED <<cfg, callVars, kafkaVars, unflushed>>

(* Leave the publisher with the value _publish_envelope returns.           *)
Return(value) ==
  /\ answer' = [answer EXCEPT ![arg] = value]
  /\ pc' = "idle" /\ arg' = NoEnvelope /\ attempt' = 0
  /\ UNCHANGED mocked

Goto(place) ==
  /\ pc' = place
  /\ UNCHANGED <<arg, attempt, answer, mocked>>

(* publish_start_event, publish_end_event: enter _publish_envelope.  In    *)
(* mock mode the call prints the envelope and returns True at once.        *)
Publish(e) ==
  /\ pc = "idle"
  /\ answer[e] = "new"
  /\ \/ /\ mode = "mock"
        /\ answer' = [answer EXCEPT ![e] = "yes"]
        /\ mocked' = mocked \cup {e}
        /\ UNCHANGED <<pc, arg, attempt>>
     \/ /\ mode = "kafka"
        /\ answer' = [answer EXCEPT ![e] = "open"]
        /\ pc' = "produce" /\ arg' = e /\ attempt' = 0
        /\ UNCHANGED mocked
  /\ UNCHANGED <<cfg, mode, kafkaVars, unflushed>>

(* librdkafka counts a message against its limit until its report is       *)
(* served, so undrained reports keep the queue full.                       *)
Full == Cardinality(queue \cup unserved) >= QueueCap

(* produce() took the message: it is in librdkafka's queue.                *)
ProduceAccepts ==
  /\ pc = "produce" /\ ~Full
  /\ accepted' = accepted \cup {NewCopy(arg)}
  /\ queue' = queue \cup {NewCopy(arg)}
  /\ Goto("poll")
  /\ UNCHANGED <<cfg, mode, unserved, stored, failed, unflushed>>

(* produce() raised BufferError.                                           *)
ProduceFindsFull ==
  /\ pc = "produce" /\ Full
  /\ Goto("drain")
  /\ UNCHANGED <<cfg, mode, kafkaVars, unflushed>>

(* produce() raised KafkaException: back off, or give up on the last       *)
(* attempt without sleeping.                                               *)
ProduceRaises ==
  /\ pc = "produce"
  /\ IF attempt < MaxAttempts - 1 THEN Goto("sleep") ELSE Return("no")
  /\ UNCHANGED <<cfg, mode, kafkaVars, unflushed>>

(* poll(0) after a successful produce serves the waiting reports.          *)
PollAfterProduce ==
  /\ pc = "poll"
  /\ unserved' = {}
  /\ Return("yes")
  /\ UNCHANGED <<cfg, mode, accepted, queue, stored, failed, unflushed>>

(* poll(1.0) in the BufferError branch, guarded against exceptions.        *)
Drain ==
  /\ pc = "drain"
  /\ unserved' = {}
  /\ Goto("sleep")
  /\ UNCHANGED <<cfg, mode, accepted, queue, stored, failed, unflushed>>

(* a bug: the loop runs once more than "range(3)"                          *)
WakeUpOnceMore ==
  /\ pc = "sleep"
  /\ IF attempt < MaxAttempts
     THEN /\ attempt' = attempt + 1
          /\ pc' = "produce"
          /\ UNCHANGED <<arg, answer, mocked>>
     ELSE Return("no")
  /\ UNCHANGED <<cfg, mode, kafkaVars, unflushed>>

(* a bug: the loop is left with "break" and the call falls through to True *)
WakeUpSaysYes ==
  /\ pc = "sleep"
  /\ IF attempt < MaxAttempts - 1
     THEN /\ attempt' = attempt + 1
          /\ pc' = "produce"
          /\ UNCHANGED <<arg, answer, mocked>>
     ELSE Return("yes")
  /\ UNCHANGED <<cfg, mode, kafkaVars, unflushed>>

(* a bug: "while True" in place of the bounded loop                        *)
WakeUpForever ==
  /\ pc = "sleep"
  /\ pc' = "produce"
  /\ attempt' = IF attempt < MaxAttempts - 1 THEN attempt + 1 ELSE attempt
  /\ UNCHANGED <<arg, answer, mocked>>
  /\ UNCHANGED <<cfg, mode, kafkaVars, unflushed>>

(* The backoff sleep ends.  BufferError sleeps on the last attempt too,    *)
(* and then the loop is over: False, even if the queue has room by now.    *)
WakeUp ==
  /\ pc = "sleep"
  /\ IF attempt < MaxAttempts - 1
     THEN /\ attempt' = attempt + 1
          /\ pc' = "produce"
          /\ UNCHANGED <<arg, answer, mocked>>
     ELSE Return("no")
  /\ UNCHANGED <<cfg, mode, kafkaVars, unflushed>>

(* flush(): nothing to do in mock mode.                                    *)
Flush ==
  /\ pc = "idle"
  /\ \/ mode = "mock" /\ UNCHANGED pc
     \/ mode = "kafka" /\ pc' = "flush"
  /\ UNCHANGED <<cfg, mode, arg, attempt, answer, mocked, kafkaVars, unflushed>>

(* librdkafka's flush returns once nothing is owed...                      *)
FlushDrained ==
  /\ pc = "flush" /\ queue = {}
  /\ unserved' = {} /\ unflushed' = FALSE
  /\ Goto("idle")
  /\ UNCHANGED <<cfg, mode, accepted, queue, stored, failed>>

(* ...or after ten seconds with messages left, which flush only logs.      *)
FlushTimesOut ==
  /\ pc = "flush" /\ queue # {}
  /\ unserved' = {} /\ unflushed' = TRUE
  /\ Goto("idle")
  /\ UNCHANGED <<cfg, mode, accepted, queue, stored, failed>>

(* The steps of a call that is running; none of them waits for the broker. *)
CallStep ==
  \/ ProduceAccepts \/ ProduceFindsFull \/ ProduceRaises
  \/ PollAfterProduce \/ Drain \/ WakeUp
  \/ FlushDrained \/ FlushTimesOut

-----------------------------------------------------------------------------
(* librdkafka's thread and the broker (external).                          *)

(* The broker persists a message; idempotence makes a resend of the same   *)
(* copy the same element.                                                  *)
BrokerStores(m) ==
  /\ m \in queue \ stored
  /\ stored' = stored \cup {m}
  /\ UNCHANGED <<cfg, mode, callVars, accepted, queue, unserved, failed, unflushed>>

(* The acknowledgement arrives.                                            *)
BrokerAcks(m) ==
  /\ m \in queue \cap stored
  /\ queue' = queue \ {m}
  /\ unserved' = unserved \cup {m}
  /\ UNCHANGED <<cfg, mode, callVars, accepted, stored, failed, unflushed>>

(* delivery.timeout.ms or the retries run out.  The message may have been  *)
(* persisted all the same, with its acknowledgement lost.                  *)
DeliveryFails(m) ==
  /\ m \in queue
  /\ queue' = queue \ {m}
  /\ unserved' = unserved \cup {m}
  /\ failed' = failed \cup {m}
  /\ UNCHANGED <<cfg, mode, callVars, accepted, stored, unflushed>>

BrokerStep ==
  \E m \in queue : BrokerStores(m) \/ BrokerAcks(m) \/ DeliveryFails(m)

-----------------------------------------------------------------------------
PubNext ==
  \/ Setup
  \/ \E e \in Envelope : Publish(e)
  \/ Flush
  \/ CallStep
  \/ BrokerStep

PubSpec == PubInit /\ [][PubNext]_pubVars

(* The caller's thread keeps being scheduled and its sleeps end.  Nothing  *)
(* is assumed of the broker.                                               *)
PubFairSpec == PubSpec /\ WF_pubVars(CallStep)

-----------------------------------------------------------------------------
(* An envelope never gets a second copy, whatever the interleaving of      *)
(* retries, full queues and broker progress (_publish_envelope returns as  *)
(* soon as one produce succeeds).                                          *)
OneCopy == \A m1, m2 \in accepted : m1[1] = m2[1] => m1 = m2

(* What a finished _publish_envelope said is what happened: True means     *)
(* librdkafka took the envelope or mock mode printed it, False means that  *)
(* no copy of it can ever reach the broker.                                *)
AnswerIsHonest ==
  \A e \in Envelope :
    /\ answer[e] = "yes" => CopiesOf(e) # {} \/ e \in mocked
    /\ answer[e] = "no" => CopiesOf(e) = {}

(* Strict prod never drops an envelope into the mock log: the publisher    *)
(* that cannot reach Event Hubs refuses to exist.                          *)
StrictNeverMocks == cfg.strict => mode # "mock" /\ mocked = {}

(* Every publish and every flush returns, even if the broker never answers *)
(* and the queue stays full: the retry loop and the flush are bounded.     *)
CallsReturn == (pc # "idle") ~> (pc = "idle")

(* What the properties above rest on.  Inside a call its envelope is open  *)
(* and has a copy exactly from the successful produce on; ...              *)
CallIsOpen ==
  /\ pc \in {"idle", "flush"} <=> arg = NoEnvelope
  /\ arg # NoEnvelope => answer[arg] = "open"
  /\ pc \in {"produce", "drain", "sleep"} => CopiesOf(arg) = {}
  /\ pc = "poll" => CopiesOf(arg) # {}

(* ...an envelope nobody has published has no copy; ...                    *)
NewHasNoCopy == \A e \in Envelope : answer[e] = "new" => CopiesOf(e) = {}

(* ...and a copy librdkafka still owes has not been given up.              *)
OwedIsNotFailed == queue \cap failed = {}

PubIInv ==
  /\ PubTypeOK /\ OneCopy /\ AnswerIsHonest /\ StrictNeverMocks
  /\ CallIsOpen /\ NewHasNoCopy /\ OwedIsNotFailed

=============================================================================
