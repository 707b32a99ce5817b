---------------------------- MODULE Runner_proofs ----------------------------
(***************************************************************************)
(* Proofs about the publisher and about the runner that uses it.  First    *)
(* EventHubPublisher: its invariants, for every set of envelopes and every *)
(* queue size, and that it implements EventOutbox.  Then Runner: IInv is   *)
(* inductive for every number of events, batch size, queue size and number *)
(* of restarts; its publisher half comes from the lemmas of the first part.*)
(***************************************************************************)
EXTENDS Runner, PublisherRefinement, FiniteSetTheorems, TLAPS

LEMMA ZeroIsAttempt == 0 \in Attempt
BY SMT DEF Attempt, MaxAttempts

(* The first copy of an envelope is number 0.                              *)
LEMMA FirstCopy ==
  ASSUME NEW e \in Envelope, CopiesOf(e) = {}
  PROVE  NewCopy(e) = <<e, 0>> /\ NewCopy(e) \in Copy
<1>1. Cardinality(CopiesOf(e)) = 0
  BY FS_EmptySet
<1> QED
  BY <1>1, ZeroIsAttempt DEF NewCopy, Copy

(* A step that leaves accepted alone leaves every envelope's copies alone. *)
LEMMA SameCopies ==
  ASSUME accepted' = accepted, NEW e
  PROVE  CopiesOf(e)' = CopiesOf(e)
BY DEF CopiesOf

-----------------------------------------------------------------------------
(* PubIInv is inductive.  One lemma per action that changes a copy or an   *)
(* answer, so that the modules built on the publisher can cite them.       *)

LEMMA PubInitOK == PubInit => PubIInv
<1> SUFFICES ASSUME PubInit PROVE PubIInv
  OBVIOUS
<1>1. PubTypeOK
  BY ZeroIsAttempt DEF PubInit, PubTypeOK
<1>2. OneCopy /\ AnswerIsHonest /\ StrictNeverMocks /\ NewHasNoCopy
  BY DEF PubInit, OneCopy, AnswerIsHonest, StrictNeverMocks, NewHasNoCopy, CopiesOf
<1>3. CallIsOpen /\ OwedIsNotFailed
  BY DEF PubInit, CallIsOpen, OwedIsNotFailed
<1> QED
  BY <1>1, <1>2, <1>3 DEF PubIInv

LEMMA PubStutter == PubIInv /\ UNCHANGED pubVars => PubIInv'
BY DEF PubIInv, pubVars, callVars, kafkaVars, PubTypeOK, OneCopy, AnswerIsHonest,
       StrictNeverMocks, CallIsOpen, NewHasNoCopy, OwedIsNotFailed, CopiesOf

LEMMA SetupOK == PubIInv /\ Setup => PubIInv'
<1> SUFFICES ASSUME PubIInv, Setup PROVE PubIInv'
  OBVIOUS
<1> USE DEF PubIInv, Setup, callVars, kafkaVars
<1>1. PubTypeOK'
  BY DEF PubTypeOK
<1>2. StrictNeverMocks'
  BY DEF StrictNeverMocks
<1>3. (OneCopy /\ AnswerIsHonest /\ CallIsOpen /\ NewHasNoCopy /\ OwedIsNotFailed)'
  BY DEF OneCopy, AnswerIsHonest, CallIsOpen, NewHasNoCopy, OwedIsNotFailed, CopiesOf
<1> QED
  BY <1>1, <1>2, <1>3

LEMMA PublishOK ==
  ASSUME PubIInv, NEW e \in Envelope, Publish(e)
  PROVE  PubIInv'
<1> USE DEF PubIInv, callVars, kafkaVars
<1>0. /\ answer \in [Envelope -> {"new", "open", "yes", "no"}]
      /\ e # NoEnvelope /\ CopiesOf(e) = {}
  BY PublisherAssumption DEF PubTypeOK, Publish, NewHasNoCopy
<1>1. \A d : CopiesOf(d)' = CopiesOf(d)
  BY SameCopies DEF Publish
<1>2. PubTypeOK'
  BY ZeroIsAttempt DEF PubTypeOK, Publish
<1>3. OneCopy' /\ OwedIsNotFailed'
  BY DEF OneCopy, OwedIsNotFailed, Publish
<1>4. AnswerIsHonest' /\ NewHasNoCopy'
  BY <1>0, <1>1 DEF AnswerIsHonest, NewHasNoCopy, Publish
<1>5. StrictNeverMocks'
  BY DEF StrictNeverMocks, Publish
<1>6. CallIsOpen'
  BY <1>0, <1>1 DEF CallIsOpen, Publish
<1> QED
  BY <1>2, <1>3, <1>4, <1>5, <1>6

LEMMA FlushOK == PubIInv /\ Flush => PubIInv'
<1> SUFFICES ASSUME PubIInv, Flush PROVE PubIInv'
  OBVIOUS
<1> USE DEF PubIInv, Flush, kafkaVars
<1>1. PubTypeOK'
  BY DEF PubTypeOK
<1>2. CallIsOpen'
  BY DEF CallIsOpen, CopiesOf
<1>3. (OneCopy /\ AnswerIsHonest /\ StrictNeverMocks /\ NewHasNoCopy /\ OwedIsNotFailed)'
  BY DEF OneCopy, AnswerIsHonest, StrictNeverMocks, NewHasNoCopy, OwedIsNotFailed, CopiesOf
<1> QED
  BY <1>1, <1>2, <1>3

(* What the broker and librdkafka do never adds a copy or an answer.       *)
LEMMA BrokerStepOK == PubIInv /\ BrokerStep => PubIInv'
<1> SUFFICES ASSUME PubIInv, NEW m \in queue,
                    BrokerStores(m) \/ BrokerAcks(m) \/ DeliveryFails(m)
             PROVE  PubIInv'
  BY DEF BrokerStep
<1> USE DEF PubIInv, callVars, BrokerStores, BrokerAcks, DeliveryFails
<1>1. PubTypeOK'
  BY DEF PubTypeOK
<1>2. OwedIsNotFailed'
  BY DEF OwedIsNotFailed, PubTypeOK
<1>3. (OneCopy /\ AnswerIsHonest /\ StrictNeverMocks /\ CallIsOpen /\ NewHasNoCopy)'
  BY DEF OneCopy, AnswerIsHonest, StrictNeverMocks, CallIsOpen, NewHasNoCopy, CopiesOf
<1> QED
  BY <1>1, <1>2, <1>3

(* The one step that makes a copy makes the first one of its envelope.     *)
LEMMA ProduceAcceptsOK == PubIInv /\ ProduceAccepts => PubIInv'
<1> SUFFICES ASSUME PubIInv, ProduceAccepts PROVE PubIInv'
  OBVIOUS
<1> USE DEF PubIInv, ProduceAccepts, Goto
<1>1. /\ arg \in Envelope /\ arg # NoEnvelope
      /\ CopiesOf(arg) = {} /\ answer[arg] = "open"
  BY DEF CallIsOpen, PubTypeOK
<1>2. NewCopy(arg) = <<arg, 0>> /\ NewCopy(arg) \in Copy
  BY <1>1, FirstCopy
<1>3. \A e : e # arg => CopiesOf(e)' = CopiesOf(e)
  BY <1>2 DEF CopiesOf
<1>4. CopiesOf(arg)' # {}
  BY <1>2 DEF CopiesOf
<1>5. PubTypeOK'
  BY <1>2 DEF PubTypeOK
<1>6. OneCopy'
  BY <1>1, <1>2 DEF OneCopy, CopiesOf
<1>7. AnswerIsHonest' /\ NewHasNoCopy'
  BY <1>1, <1>3 DEF AnswerIsHonest, NewHasNoCopy
<1>8. StrictNeverMocks'
  BY DEF StrictNeverMocks
<1>9. CallIsOpen'
  BY <1>1, <1>4 DEF CallIsOpen
<1>10. OwedIsNotFailed'
  BY <1>1, <1>2 DEF OwedIsNotFailed, CopiesOf, PubTypeOK
<1> QED
  BY <1>5, <1>6, <1>7, <1>8, <1>9, <1>10

(* Returning "yes" needs a copy, returning "no" needs that there is none.  *)
LEMMA ReturnOK ==
  ASSUME PubIInv, NEW value \in {"yes", "no"}, Return(value),
         arg \in Envelope,
         value = "yes" => CopiesOf(arg) # {}, value = "no" => CopiesOf(arg) = {},
         accepted' = accepted, queue' = queue, stored' = stored, failed' = failed,
         cfg' = cfg, mode' = mode, unflushed' = unflushed,
         unserved' \subseteq unserved
  PROVE  PubIInv'
<1> USE DEF PubIInv, Return
<1>1. \A d : CopiesOf(d)' = CopiesOf(d)
  BY SameCopies
<1>2. PubTypeOK'
  BY ZeroIsAttempt DEF PubTypeOK
<1>3. AnswerIsHonest' /\ NewHasNoCopy'
  BY <1>1 DEF AnswerIsHonest, NewHasNoCopy, PubTypeOK
<1>4. CallIsOpen'
  BY DEF CallIsOpen
<1>5. (OneCopy /\ StrictNeverMocks /\ OwedIsNotFailed)'
  BY DEF OneCopy, StrictNeverMocks, OwedIsNotFailed
<1> QED
  BY <1>2, <1>3, <1>4, <1>5

(* Moving on inside a call changes no copy and no answer.                  *)
LEMMA MoveOK ==
  ASSUME PubIInv,
         pc \in {"produce", "drain", "sleep"}, pc' \in {"produce", "drain", "sleep"},
         attempt' \in Attempt,
         arg' = arg, answer' = answer, mocked' = mocked,
         accepted' = accepted, queue' = queue, stored' = stored, failed' = failed,
         cfg' = cfg, mode' = mode, unflushed' = unflushed,
         unserved' \subseteq unserved
  PROVE  PubIInv'
<1> USE DEF PubIInv
<1>1. PubTypeOK'
  BY DEF PubTypeOK
<1>2. CallIsOpen'
  BY DEF CallIsOpen, CopiesOf
<1>3. (OneCopy /\ AnswerIsHonest /\ StrictNeverMocks /\ NewHasNoCopy /\ OwedIsNotFailed)'
  BY DEF OneCopy, AnswerIsHonest, StrictNeverMocks, NewHasNoCopy, OwedIsNotFailed, CopiesOf
<1> QED
  BY <1>1, <1>2, <1>3

LEMMA CallStepOK == PubIInv /\ CallStep => PubIInv'
<1> SUFFICES ASSUME PubIInv, CallStep PROVE PubIInv'
  OBVIOUS
<1>1. CASE ProduceAccepts
  BY <1>1, ProduceAcceptsOK
<1>2. CASE ProduceFindsFull
  BY <1>2, MoveOK DEF ProduceFindsFull, Goto, kafkaVars, PubIInv, PubTypeOK
<1>3. CASE ProduceRaises
  <2>1. CASE attempt < MaxAttempts - 1
    BY <1>3, <2>1, MoveOK DEF ProduceRaises, Goto, kafkaVars, PubIInv, PubTypeOK
  <2>2. CASE ~(attempt < MaxAttempts - 1)
    <3>1. arg \in Envelope /\ CopiesOf(arg) = {}
      BY <1>3 DEF ProduceRaises, PubIInv, PubTypeOK, CallIsOpen
    <3> QED
      BY <1>3, <2>2, <3>1, ReturnOK DEF ProduceRaises, kafkaVars
  <2> QED
    BY <2>1, <2>2
<1>4. CASE PollAfterProduce
  <2>1. arg \in Envelope /\ CopiesOf(arg) # {}
    BY <1>4 DEF PollAfterProduce, PubIInv, PubTypeOK, CallIsOpen
  <2> QED
    BY <1>4, <2>1, ReturnOK DEF PollAfterProduce
<1>5. CASE Drain
  BY <1>5, MoveOK DEF Drain, Goto, PubIInv, PubTypeOK
<1>6. CASE WakeUp
  <2>1. CASE attempt < MaxAttempts - 1
    <3>1. attempt + 1 \in Attempt
      BY <2>1, SMT DEF PubIInv, PubTypeOK, Attempt, MaxAttempts
    <3> QED
      BY <1>6, <2>1, <3>1, MoveOK DEF WakeUp, kafkaVars
  <2>2. CASE ~(attempt < MaxAttempts - 1)
    <3>1. arg \in Envelope /\ CopiesOf(arg) = {}
      BY <1>6 DEF WakeUp, PubIInv, PubTypeOK, CallIsOpen
    <3> QED
      BY <1>6, <2>2, <3>1, ReturnOK DEF WakeUp, kafkaVars
  <2> QED
    BY <2>1, <2>2
<1>7. CASE FlushDrained \/ FlushTimesOut
  <2> USE <1>7 DEF FlushDrained, FlushTimesOut, Goto, PubIInv
  <2>1. PubTypeOK'
    BY DEF PubTypeOK
  <2>2. CallIsOpen'
    BY DEF CallIsOpen
  <2>3. (OneCopy /\ AnswerIsHonest /\ StrictNeverMocks /\ NewHasNoCopy /\ OwedIsNotFailed)'
    BY DEF OneCopy, AnswerIsHonest, StrictNeverMocks, NewHasNoCopy, OwedIsNotFailed, CopiesOf
  <2> QED
    BY <2>1, <2>2, <2>3
<1> QED
  BY <1>1, <1>2, <1>3, <1>4, <1>5, <1>6, <1>7 DEF CallStep

THEOREM PublisherInvariant == PubSpec => []PubIInv
<1>1. PubInit => PubIInv
  BY PubInitOK
<1>2. PubIInv /\ [PubNext]_pubVars => PubIInv'
  BY PubStutter, SetupOK, PublishOK, FlushOK, CallStepOK, BrokerStepOK DEF PubNext
<1> QED
  BY <1>1, <1>2, PTL DEF PubSpec

(* No envelope is enqueued twice and no answer is a lie, whatever the      *)
(* queue's size and the number of envelopes: _publish_envelope's loop      *)
(* returns at its first successful produce and only then says True.        *)
THEOREM PublisherAnswers ==
  PubSpec => [](OneCopy /\ AnswerIsHonest /\ StrictNeverMocks)
<1>1. PubIInv => OneCopy /\ AnswerIsHonest /\ StrictNeverMocks
  BY DEF PubIInv
<1> QED
  BY <1>1, PublisherInvariant, PTL

-----------------------------------------------------------------------------
(* The refinement: each action is one step of the outbox or none.          *)

LEMMA OutboxCopies == \A e : Outbox!HasCopy(e) <=> CopiesOf(e) # {}
BY DEF Outbox!HasCopy, CopiesOf

LEMMA OutboxStutter ==
  ASSUME cfg' = cfg, answer' = answer, mocked' = mocked, accepted' = accepted,
         stored' = stored, failed' = failed
  PROVE  [Outbox!Next]_(Outbox!outboxVars)
BY DEF Outbox!outboxVars

LEMMA CallStepRefines ==
  PubIInv /\ CallStep => [Outbox!Next]_(Outbox!outboxVars)
<1> SUFFICES ASSUME PubIInv, CallStep
             PROVE  [Outbox!Next]_(Outbox!outboxVars)
  OBVIOUS
<1>0. ASSUME pc \in {"produce", "poll", "drain", "sleep"}
      PROVE  arg \in Envelope /\ answer[arg] = "open"
  BY <1>0 DEF PubIInv, PubTypeOK, CallIsOpen
<1>1. CASE ProduceAccepts
  <2>1. arg \in Envelope /\ answer[arg] = "open" /\ CopiesOf(arg) = {}
    BY <1>0, <1>1 DEF ProduceAccepts, PubIInv, CallIsOpen
  <2>2. NewCopy(arg) = <<arg, 0>>
    BY <2>1, FirstCopy
  <2>3. Outbox!Accept(arg, 0)
    BY <1>1, <2>1, <2>2, OutboxCopies DEF ProduceAccepts, Goto, Outbox!Accept
  <2> QED
    BY <2>1, <2>3, ZeroIsAttempt DEF Outbox!Next
<1>2. CASE ProduceFindsFull
  BY <1>2, OutboxStutter DEF ProduceFindsFull, Goto, kafkaVars
<1>3. ASSUME Return("no"), pc \in {"produce", "sleep"},
             accepted' = accepted, stored' = stored, failed' = failed, cfg' = cfg
      PROVE  [Outbox!Next]_(Outbox!outboxVars)
  <2>1. CopiesOf(arg) = {}
    BY <1>3 DEF PubIInv, CallIsOpen
  <2>2. Outbox!Decline(arg)
    BY <1>0, <1>3, <2>1, OutboxCopies DEF Return, Outbox!Decline
  <2> QED
    BY <1>0, <1>3, <2>2 DEF Outbox!Next
<1>4. CASE ProduceRaises
  BY <1>3, <1>4, OutboxStutter DEF ProduceRaises, Goto, kafkaVars
<1>5. CASE PollAfterProduce
  <2>1. CopiesOf(arg) # {}
    BY <1>5 DEF PollAfterProduce, PubIInv, CallIsOpen
  <2>2. Outbox!Confirm(arg)
    BY <1>0, <1>5, <2>1, OutboxCopies DEF PollAfterProduce, Return, Outbox!Confirm
  <2> QED
    BY <1>0, <1>5, <2>2 DEF Outbox!Next, PollAfterProduce
<1>6. CASE Drain
  BY <1>6, OutboxStutter DEF Drain, Goto
<1>7. CASE WakeUp
  BY <1>3, <1>7, OutboxStutter DEF WakeUp, kafkaVars
<1>8. CASE FlushDrained \/ FlushTimesOut
  BY <1>8, OutboxStutter DEF FlushDrained, FlushTimesOut, Goto
<1> QED
  BY <1>1, <1>2, <1>4, <1>5, <1>6, <1>7, <1>8 DEF CallStep

LEMMA PublishRefines ==
  ASSUME PubIInv, NEW e \in Envelope, Publish(e)
  PROVE  [Outbox!Next]_(Outbox!outboxVars)
<1>1. CASE mode = "mock"
  <2>1. ~cfg.strict
    BY <1>1 DEF PubIInv, StrictNeverMocks
  <2>2. Outbox!PrintOnly(e)
    BY <1>1, <2>1 DEF Publish, kafkaVars, Outbox!PrintOnly
  <2> QED
    BY <2>2 DEF Outbox!Next
<1>2. CASE mode = "kafka"
  <2>1. Outbox!Begin(e)
    BY <1>2 DEF Publish, kafkaVars, Outbox!Begin
  <2> QED
    BY <2>1 DEF Outbox!Next
<1> QED
  BY <1>1, <1>2 DEF Publish

LEMMA BrokerStepRefines ==
  PubIInv /\ BrokerStep => [Outbox!Next]_(Outbox!outboxVars)
<1> SUFFICES ASSUME PubIInv, NEW m \in queue,
                    BrokerStores(m) \/ BrokerAcks(m) \/ DeliveryFails(m)
             PROVE  [Outbox!Next]_(Outbox!outboxVars)
  BY DEF BrokerStep
<1>0. m \in accepted /\ m \notin failed
  BY DEF PubIInv, PubTypeOK, OwedIsNotFailed
<1>1. CASE BrokerStores(m)
  <2>1. Outbox!Store(m)
    BY <1>0, <1>1 DEF BrokerStores, callVars, Outbox!Store
  <2> QED
    BY <1>0, <2>1 DEF Outbox!Next
<1>2. CASE BrokerAcks(m)
  BY <1>2, OutboxStutter DEF BrokerAcks, callVars
<1>3. CASE DeliveryFails(m)
  <2>1. Outbox!GiveUp(m)
    BY <1>0, <1>3 DEF DeliveryFails, callVars, Outbox!GiveUp
  <2> QED
    BY <1>0, <2>1 DEF Outbox!Next
<1> QED
  BY <1>1, <1>2, <1>3

(* Every behaviour of the publisher, with its retries, full queues and     *)
(* delivery reports, is a behaviour of the abstract outbox.                *)
THEOREM PublisherImplementsOutbox == PubSpec => ImplementsOutbox
<1>1. PubInit => Outbox!Init
  BY DEF PubInit, Outbox!Init
<1>2. PubIInv /\ [PubNext]_pubVars => [Outbox!Next]_(Outbox!outboxVars)
  <2> SUFFICES ASSUME PubIInv, [PubNext]_pubVars
               PROVE  [Outbox!Next]_(Outbox!outboxVars)
    OBVIOUS
  <2>1. CASE Setup \/ Flush \/ UNCHANGED pubVars
    BY <2>1, OutboxStutter DEF Setup, Flush, pubVars, callVars, kafkaVars
  <2> QED
    BY <2>1, PublishRefines, CallStepRefines, BrokerStepRefines DEF PubNext
<1> QED
  BY <1>1, <1>2, PublisherInvariant, PTL DEF PubSpec, ImplementsOutbox, Outbox!Spec

-----------------------------------------------------------------------------
(* The runner.                                                             *)

(* The runner's own half of IInv.                                          *)
RunIInv ==
  /\ TypeOK /\ BatchAccounting /\ BatchFits /\ CleanIsComplete
  /\ CallHasCaller /\ FlushedOrWarned /\ AtMostOneLateBatch /\ LateBatch

LEMMA Bounds == MaxEvents \in Nat /\ MaxBatch \in Nat \ {0} /\ MaxRestarts \in Nat
BY RunnerAssumption

LEMMA Halves == IInv <=> PubIInv /\ RunIInv
BY DEF IInv, RunIInv

(* The events of a batch are events.                                       *)
LEMMA BatchEvents ==
  ASSUME RunIInv, InBatch
  PROVE  /\ \A n \in Done : n \in Event
         /\ next - first < size => next \in Event
BY RunnerAssumption, SMT DEF RunIInv, TypeOK, CountTypeOK, BatchFits, Done, Event

(* A publish answer, once given, stays.                                    *)
LEMMA CompleteStays ==
  ASSUME PubIInv, NEW n \in Event, Complete(n),
         \/ UNCHANGED answer \/ CallStep \/ \E e \in Envelope : Publish(e)
  PROVE  Complete(n)'
<1>1. /\ <<n, "start">> \in Envelope /\ <<n, "end">> \in Envelope
      /\ answer[<<n, "start">>] = "yes" /\ answer[<<n, "end">>] = "yes"
      /\ answer \in [Envelope -> {"new", "open", "yes", "no"}]
  BY RunnerAssumption DEF Complete, PubIInv, PubTypeOK
<1>2. CASE UNCHANGED answer
  BY <1>2 DEF Complete
<1>3. CASE CallStep
  <2>1. \/ answer' = answer
        \/ /\ answer[arg] = "open"
           /\ \E v \in {"yes", "no"} : answer' = [answer EXCEPT ![arg] = v]
    BY <1>3 DEF CallStep, ProduceAccepts, ProduceFindsFull, ProduceRaises,
       PollAfterProduce, Drain, WakeUp, FlushDrained, FlushTimesOut, Goto, Return,
       PubIInv, CallIsOpen
  <2> QED
    BY <1>1, <2>1 DEF Complete
<1>4. CASE \E e \in Envelope : Publish(e)
  BY <1>1, <1>4 DEF Complete, Publish
<1> QED
  BY <1>2, <1>3, <1>4

(* The first state.                                                        *)
LEMMA RunInitOK == Init => IInv
<1> SUFFICES ASSUME Init PROVE IInv
  OBVIOUS
<1>0. PubIInv
  BY PubInitOK DEF Init
<1> USE Bounds DEF Init
<1>1. TypeOK
  <2>1. PubTypeOK /\ FlagTypeOK /\ lost \subseteq accepted
    BY <1>0 DEF PubIInv, FlagTypeOK
  <2>2. CountTypeOK
    BY SMT DEF CountTypeOK
  <2> QED
    BY <2>1, <2>2 DEF TypeOK
<1>2. BatchAccounting /\ BatchFits /\ CleanIsComplete
  BY DEF BatchAccounting, BatchFits, CleanIsComplete, InBatch
<1>3. CallHasCaller /\ FlushedOrWarned /\ AtMostOneLateBatch /\ LateBatch
  BY SMT DEF CallHasCaller, FlushedOrWarned, AtMostOneLateBatch, LateBatch, PubInit
<1> QED
  BY <1>0, <1>1, <1>2, <1>3 DEF IInv

(* Steps of the main thread that leave the publisher alone, outside the    *)
(* loop body.                                                              *)
LEMMA QuietStepOK ==
  ASSUME IInv, UNCHANGED pubVars,
         \/ LoopEnters \/ BatchBegins \/ BatchCompletes \/ BatchRaises
         \/ Rest \/ SleepEnds \/ Signal \/ Terminated
  PROVE  IInv'
<1>0. PubIInv'
  BY PubStutter DEF IInv
<1> USE Bounds DEF IInv, LoopEnters, BatchBegins, BatchCompletes,
        BatchRaises, Rest, SleepEnds, Signal, Terminated,
        batchVars, counters, lifeVars, runVars, vars
<1>1. TypeOK'
  <2>1. lost' \subseteq accepted' /\ PubTypeOK'
    BY <1>0 DEF TypeOK, pubVars, kafkaVars, PubIInv
  <2>2. FlagTypeOK'
    BY DEF TypeOK, FlagTypeOK
  <2>3. CountTypeOK'
    BY SMT DEF TypeOK, CountTypeOK
  <2> QED
    BY <2>1, <2>2, <2>3 DEF TypeOK
<1>2. BatchAccounting' /\ BatchFits'
  BY SMT DEF BatchAccounting, BatchFits, InBatch, TypeOK, CountTypeOK
<1>3. CleanIsComplete'
  <2>1. CASE BatchBegins
    BY <2>1, SMT DEF CleanIsComplete, Done, TypeOK, CountTypeOK
  <2>2. CASE ~BatchBegins
    <3>1. InBatch' => InBatch
      BY <2>2 DEF InBatch
    <3>2. UNCHANGED <<first, next, answer>> /\ (InBatch' => publish_errors' = publish_errors)
      BY <2>2 DEF pubVars, callVars
    <3> QED
      BY <3>1, <3>2 DEF CleanIsComplete, Done, Complete
  <2> QED
    BY <2>1, <2>2
<1>4. CallHasCaller' /\ FlushedOrWarned'
  BY DEF CallHasCaller, FlushedOrWarned, pubVars, callVars, kafkaVars
<1>5. AtMostOneLateBatch' /\ LateBatch'
  BY SMT DEF AtMostOneLateBatch, LateBatch, TypeOK, CountTypeOK
<1> QED
  BY <1>0, <1>1, <1>2, <1>3, <1>4, <1>5

(* The two publishes of the loop body.                                     *)
LEMMA PublishStepOK ==
  ASSUME IInv, PublishStart \/ PublishEnd
  PROVE  IInv'
<1> DEFINE e == IF rpc = "generate" THEN <<next, "start">> ELSE <<next, "end">>
<1>0. /\ Publish(e) /\ rpc \in {"generate", "started"}
      /\ rpc' \in {"started", "ended"}
      /\ UNCHANGED <<running, next, first, size, successes, errors,
                     publish_errors, metered, ready, exit, late, lost, restarts>>
  BY DEF PublishStart, PublishEnd, batchVars, counters, lifeVars
<1>1. next - first < size /\ InBatch /\ InBatch'
  BY DEF PublishStart, PublishEnd, IInv, BatchFits, InBatch
<1>2. e \in Envelope
  BY <1>1, BatchEvents, RunnerAssumption, Halves
<1> HIDE DEF e
<1>3. PubIInv'
  BY <1>0, <1>2, PublishOK DEF IInv
<1>4. TypeOK'
  <2>1. lost' \subseteq accepted' /\ PubTypeOK'
    BY <1>0, <1>3 DEF IInv, TypeOK, Publish, kafkaVars, PubIInv
  <2>2. FlagTypeOK' /\ CountTypeOK'
    BY <1>0 DEF IInv, TypeOK, FlagTypeOK, CountTypeOK
  <2> QED
    BY <2>1, <2>2 DEF TypeOK
<1>5. BatchAccounting' /\ BatchFits'
  BY <1>0, <1>1, SMT DEF IInv, BatchAccounting, BatchFits, InBatch
<1>6. CleanIsComplete'
  <2>1. \A n \in Done : Complete(n) => Complete(n)'
    BY <1>0, <1>1, <1>2, CompleteStays, BatchEvents, Halves DEF IInv
  <2> QED
    BY <1>0, <1>1, <2>1 DEF IInv, CleanIsComplete, Done
<1>7. CallHasCaller' /\ FlushedOrWarned'
  BY <1>0 DEF IInv, CallHasCaller, FlushedOrWarned, Publish, kafkaVars
<1>8. AtMostOneLateBatch' /\ LateBatch'
  BY <1>0 DEF IInv, AtMostOneLateBatch, LateBatch
<1> QED
  BY <1>3, <1>4, <1>5, <1>6, <1>7, <1>8 DEF IInv

(* The two ends of the loop body.                                          *)
LEMMA EventEndsOK ==
  ASSUME IInv, EventCounted \/ EventRaises
  PROVE  IInv'
<1> USE Bounds
<1>0. /\ UNCHANGED pubVars /\ pc = "idle"
      /\ rpc \in {"generate", "started", "ended"} /\ rpc' = "generate"
      /\ next' = next + 1 /\ UNCHANGED <<running, first, size, lifeVars>>
      /\ \/ successes' = successes + 1 /\ errors' = errors
         \/ successes' = successes /\ errors' = errors + 1
      /\ \/ publish_errors' = publish_errors + 1
         \/ publish_errors' = publish_errors /\ Complete(next)
      /\ metered' = metered \/ metered' = metered + 1
  BY DEF EventCounted, EventRaises
<1>1. next - first < size /\ InBatch /\ InBatch'
  BY DEF EventCounted, EventRaises, IInv, BatchFits, InBatch
<1>2. PubIInv'
  BY <1>0, PubStutter DEF IInv
<1>3. TypeOK'
  <2>1. lost' \subseteq accepted' /\ PubTypeOK'
    BY <1>0, <1>2 DEF IInv, TypeOK, pubVars, kafkaVars, lifeVars, PubIInv
  <2>2. FlagTypeOK'
    BY <1>0 DEF IInv, TypeOK, FlagTypeOK, lifeVars
  <2>3. CountTypeOK'
    BY <1>0, <1>1, SMT DEF IInv, TypeOK, CountTypeOK, BatchFits, lifeVars
  <2> QED
    BY <2>1, <2>2, <2>3 DEF TypeOK
<1>4. BatchAccounting' /\ BatchFits'
  BY <1>0, <1>1, SMT DEF IInv, TypeOK, CountTypeOK, BatchAccounting, BatchFits, InBatch
<1>5. CleanIsComplete'
  <2>1. ASSUME publish_errors' = 0
        PROVE  publish_errors = 0 /\ Complete(next)
    BY <1>0, <2>1, SMT DEF IInv, TypeOK, CountTypeOK
  <2>2. Done' = Done \cup {next}
    BY <1>0, <1>1, SMT DEF Done, IInv, TypeOK, CountTypeOK, BatchFits
  <2>3. \A n : Complete(n)' <=> Complete(n)
    BY <1>0 DEF Complete, pubVars, callVars
  <2> QED
    BY <1>1, <2>1, <2>2, <2>3 DEF IInv, CleanIsComplete
<1>6. CallHasCaller' /\ FlushedOrWarned'
  BY <1>0 DEF IInv, CallHasCaller, FlushedOrWarned, pubVars, callVars, kafkaVars
<1>7. AtMostOneLateBatch' /\ LateBatch'
  BY <1>0 DEF IInv, AtMostOneLateBatch, LateBatch, lifeVars
<1> QED
  BY <1>2, <1>3, <1>4, <1>5, <1>6, <1>7 DEF IInv

(* Steps inside the publisher, the flush call and the broker's steps keep  *)
(* the runner's numbers; what they owe is CallHasCaller and FlushedOrWarned.*)
LEMMA PublisherSideOK ==
  ASSUME IInv, PubIInv', InBatch' <=> InBatch, FlagTypeOK',
         rpc' = "setup" <=> rpc = "setup", rpc' = "started" \/ rpc' = "ended" => rpc' = rpc,
         UNCHANGED <<running, batchVars, counters, lifeVars>>,
         accepted \subseteq accepted',
         \A n \in Event : Complete(n) => Complete(n)',
         CallHasCaller', FlushedOrWarned'
  PROVE  IInv'
<1> USE DEF batchVars, counters, lifeVars
<1>1. TypeOK'
  <2>1. lost' \subseteq accepted' /\ PubTypeOK'
    BY DEF IInv, TypeOK, PubIInv
  <2>2. CountTypeOK'
    BY DEF IInv, TypeOK, CountTypeOK
  <2> QED
    BY <2>1, <2>2 DEF TypeOK
<1>2. BatchAccounting' /\ BatchFits'
  BY SMT DEF IInv, BatchAccounting, BatchFits
<1>3. CleanIsComplete'
  BY BatchEvents, Halves DEF IInv, CleanIsComplete, Done
<1>4. AtMostOneLateBatch' /\ LateBatch'
  BY DEF IInv, AtMostOneLateBatch, LateBatch
<1> QED
  BY <1>1, <1>2, <1>3, <1>4 DEF IInv

LEMMA FlushBatchOK ==
  ASSUME IInv, FlushBatch
  PROVE  IInv'
<1>1. PubIInv'
  BY FlushOK DEF FlushBatch, IInv
<1>2. (InBatch' <=> InBatch) /\ FlagTypeOK'
  BY DEF FlushBatch, InBatch, IInv, TypeOK, FlagTypeOK, lifeVars
<1>3. accepted \subseteq accepted' /\ \A n \in Event : Complete(n) => Complete(n)'
  BY DEF FlushBatch, Flush, kafkaVars, Complete
<1>4. CallHasCaller' /\ FlushedOrWarned'
  BY DEF FlushBatch, Flush, kafkaVars, IInv, CallHasCaller, FlushedOrWarned
<1> QED
  BY <1>1, <1>2, <1>3, <1>4, PublisherSideOK DEF FlushBatch

LEMMA InPublisherOK ==
  ASSUME IInv, InPublisher
  PROVE  IInv'
<1> USE DEF InPublisher, runVars
<1>1. PubIInv'
  BY CallStepOK DEF IInv
<1>2. (InBatch' <=> InBatch) /\ FlagTypeOK'
  BY DEF InBatch, IInv, TypeOK, FlagTypeOK, lifeVars
<1>3. /\ accepted \subseteq accepted' /\ pc # "idle" /\ mode' = mode
      /\ pc' = "flush" => pc = "flush"
      /\ pc' \in {"produce", "poll", "drain", "sleep"} =>
           pc \in {"produce", "poll", "drain", "sleep"}
      /\ pc = "flush" /\ ~unflushed' => queue' = {}
  BY DEF CallStep, ProduceAccepts, ProduceFindsFull, ProduceRaises, PollAfterProduce,
         Drain, WakeUp, FlushDrained, FlushTimesOut, Goto, Return, kafkaVars
<1>4. \A n \in Event : Complete(n) => Complete(n)'
  BY CompleteStays DEF IInv
<1>5. CallHasCaller'
  BY <1>3 DEF IInv, CallHasCaller
<1>6. pc \in {"produce", "poll", "drain", "sleep", "flush"}
  BY <1>3 DEF IInv, PubIInv, PubTypeOK
<1>7. FlushedOrWarned'
  BY <1>3, <1>6 DEF IInv, CallHasCaller, FlushedOrWarned
<1> QED
  BY <1>1, <1>2, <1>3, <1>4, <1>5, <1>7, PublisherSideOK

LEMMA BrokerOK ==
  ASSUME IInv, Broker
  PROVE  IInv'
<1> USE DEF Broker, runVars
<1>1. PubIInv'
  BY BrokerStepOK DEF IInv
<1>2. (InBatch' <=> InBatch) /\ FlagTypeOK'
  BY DEF InBatch, IInv, TypeOK, FlagTypeOK, lifeVars
<1>3. /\ queue # {} /\ queue' \subseteq queue
      /\ UNCHANGED <<accepted, mode, pc, answer, unflushed>>
  BY DEF BrokerStep, BrokerStores, BrokerAcks, DeliveryFails, callVars
<1>4. \A n \in Event : Complete(n) => Complete(n)'
  BY <1>3 DEF Complete
<1>5. CallHasCaller' /\ FlushedOrWarned'
  BY <1>3 DEF IInv, CallHasCaller, FlushedOrWarned
<1> QED
  BY <1>1, <1>2, <1>3, <1>4, <1>5, PublisherSideOK

(* The process starts, ends and is restarted.                              *)
LEMMA BootOK ==
  ASSUME IInv, Boot
  PROVE  IInv'
<1> USE Bounds DEF Boot, batchVars, counters
<1>1. PubIInv'
  BY SetupOK DEF IInv
<1>2. UNCHANGED <<callVars, kafkaVars, unflushed>> /\ mode = "new"
  BY DEF Setup
<1>3. TypeOK'
  <2>1. lost' \subseteq accepted' /\ PubTypeOK'
    BY <1>1, <1>2 DEF IInv, TypeOK, kafkaVars, PubIInv
  <2>2. FlagTypeOK' /\ CountTypeOK'
    BY DEF IInv, TypeOK, FlagTypeOK, CountTypeOK
  <2> QED
    BY <2>1, <2>2 DEF TypeOK
<1>4. (BatchAccounting /\ BatchFits /\ CleanIsComplete)'
  BY DEF BatchAccounting, BatchFits, CleanIsComplete, InBatch
<1>5. CallHasCaller' /\ FlushedOrWarned'
  BY <1>2 DEF IInv, CallHasCaller, FlushedOrWarned, callVars, kafkaVars
<1>6. AtMostOneLateBatch' /\ LateBatch'
  BY DEF IInv, AtMostOneLateBatch, LateBatch
<1> QED
  BY <1>1, <1>3, <1>4, <1>5, <1>6 DEF IInv

LEMMA LoopExitsOK ==
  ASSUME IInv, LoopExits
  PROVE  IInv'
<1> USE Bounds DEF LoopExits, ProducerDies, batchVars, counters
<1>1. PubIInv'
  BY DEF callVars, IInv, PubIInv, PubTypeOK, OneCopy, AnswerIsHonest, StrictNeverMocks,
         CallIsOpen, NewHasNoCopy, OwedIsNotFailed, CopiesOf
<1>2. TypeOK'
  <2>1. lost' \subseteq accepted' /\ PubTypeOK'
    BY <1>1 DEF IInv, TypeOK, PubTypeOK, PubIInv
  <2>2. FlagTypeOK' /\ CountTypeOK'
    BY DEF IInv, TypeOK, FlagTypeOK, CountTypeOK
  <2> QED
    BY <2>1, <2>2 DEF TypeOK
<1>3. (BatchAccounting /\ BatchFits /\ CleanIsComplete)'
  BY DEF BatchAccounting, BatchFits, CleanIsComplete, InBatch
<1>4. CallHasCaller' /\ FlushedOrWarned'
  BY DEF callVars, IInv, CallHasCaller, FlushedOrWarned
<1>5. AtMostOneLateBatch' /\ LateBatch'
  BY DEF IInv, AtMostOneLateBatch, LateBatch
<1> QED
  BY <1>1, <1>2, <1>3, <1>4, <1>5 DEF IInv

LEMMA RestartOK ==
  ASSUME IInv, Restart
  PROVE  IInv'
<1> USE Bounds DEF Restart, ProducerDies
<1>1. PubIInv'
  <2>1. PubTypeOK'
    BY ZeroIsAttempt DEF IInv, PubIInv, PubTypeOK
  <2>2. (OneCopy /\ AnswerIsHonest /\ StrictNeverMocks /\ NewHasNoCopy)'
    BY DEF IInv, PubIInv, OneCopy, AnswerIsHonest, StrictNeverMocks, NewHasNoCopy, CopiesOf
  <2>3. CallIsOpen' /\ OwedIsNotFailed'
    BY DEF CallIsOpen, OwedIsNotFailed
  <2> QED
    BY <2>1, <2>2, <2>3 DEF PubIInv
<1>2. TypeOK'
  <2>1. lost' \subseteq accepted' /\ PubTypeOK'
    BY <1>1 DEF IInv, TypeOK, PubTypeOK, PubIInv
  <2>2. FlagTypeOK'
    BY DEF FlagTypeOK
  <2>3. next' \in 1 .. MaxEvents + 1
    BY SMT DEF IInv, TypeOK, CountTypeOK, BatchFits, InBatch
  <2>4. CountTypeOK'
    BY <2>3, SMT DEF IInv, TypeOK, CountTypeOK
  <2> QED
    BY <2>1, <2>2, <2>4 DEF TypeOK
<1>3. (BatchAccounting /\ BatchFits /\ CleanIsComplete)'
  BY DEF BatchAccounting, BatchFits, CleanIsComplete, InBatch
<1>4. CallHasCaller' /\ FlushedOrWarned'
  BY DEF CallHasCaller, FlushedOrWarned
<1>5. AtMostOneLateBatch' /\ LateBatch'
  BY SMT DEF AtMostOneLateBatch, LateBatch
<1> QED
  BY <1>1, <1>2, <1>3, <1>4, <1>5 DEF IInv

-----------------------------------------------------------------------------
LEMMA UnchangedOK ==
  ASSUME IInv, UNCHANGED vars
  PROVE  IInv'
<1> USE DEF vars, runVars
<1>1. PubIInv'
  BY PubStutter DEF IInv
<1>2. (InBatch' <=> InBatch) /\ FlagTypeOK'
  BY DEF InBatch, IInv, TypeOK, FlagTypeOK, lifeVars
<1>3. accepted' = accepted /\ \A n \in Event : Complete(n) => Complete(n)'
  BY DEF pubVars, callVars, kafkaVars, Complete
<1>4. CallHasCaller' /\ FlushedOrWarned'
  BY DEF IInv, CallHasCaller, FlushedOrWarned, pubVars, callVars, kafkaVars
<1> QED
  BY <1>1, <1>2, <1>3, <1>4, PublisherSideOK

LEMMA StepOK == IInv /\ [Next]_vars => IInv'
<1> SUFFICES ASSUME IInv, [Next]_vars PROVE IInv'
  OBVIOUS
<1>1. CASE UNCHANGED vars
  BY <1>1, UnchangedOK
<1>2. CASE LoopEnters \/ BatchBegins \/ BatchCompletes \/ BatchRaises
           \/ Rest \/ SleepEnds \/ Signal \/ Terminated
  <2>1. UNCHANGED pubVars
    BY <1>2 DEF LoopEnters, BatchBegins, BatchCompletes, BatchRaises, Rest,
                SleepEnds, Signal, Terminated, vars
  <2> QED
    BY <1>2, <2>1, QuietStepOK
<1> QED
  BY <1>1, <1>2, PublishStepOK, EventEndsOK, FlushBatchOK, InPublisherOK, BrokerOK,
     BootOK, LoopExitsOK, RestartOK DEF Next, MainThread

(* IInv holds in every state, for every number of events, batch size,      *)
(* queue size and number of restarts.                                      *)
THEOREM RunnerInvariant == Spec => []IInv
BY RunInitOK, StepOK, PTL DEF Spec

(* The runner's batch report is exact and honest, and a stop takes at most *)
(* one more batch (run_one_batch's counters, main()'s loop).               *)
THEOREM RunnerReports ==
  Spec => [](TypeOK /\ BatchAccounting /\ CleanBatchIsPublished /\ AtMostOneLateBatch)
<1>1. IInv => CleanBatchIsPublished
  <2> SUFFICES ASSUME IInv, InBatch, publish_errors = 0, NEW n \in Done,
                      NEW p \in {"start", "end"}
               PROVE  CopiesOf(<<n, p>>) # {} \/ <<n, p>> \in mocked
    BY DEF CleanBatchIsPublished
  <2>1. n \in Event /\ Complete(n)
    BY BatchEvents, Halves DEF IInv, CleanIsComplete
  <2>2. <<n, p>> \in Envelope /\ answer[<<n, p>>] = "yes"
    BY <2>1, RunnerAssumption DEF Complete
  <2> QED
    BY <2>2 DEF IInv, PubIInv, AnswerIsHonest
<1>2. IInv => TypeOK /\ BatchAccounting /\ AtMostOneLateBatch
  BY DEF IInv
<1> QED
  BY <1>1, <1>2, RunnerInvariant, PTL

(* A clean exit whose last flush drained the queue drops no message, for   *)
(* every queue size and batch size (main() leaves its loop only between    *)
(* batches, and each batch ends in a flush).                               *)
THEOREM RunnerExitIsFlushed == Spec => FlushedExitDropsNothing
<1>1. IInv /\ [Next]_vars =>
        [exit = "none" /\ exit' = "clean" /\ ~unflushed => lost' = lost]_vars
  <2> SUFFICES ASSUME IInv, Next, exit = "none", exit' = "clean", ~unflushed
               PROVE  lost' = lost
    OBVIOUS
  <2>1. LoopExits
    BY DEF Next, MainThread, Boot, LoopEnters, BatchBegins, PublishStart, PublishEnd,
           EventCounted, EventRaises, FlushBatch, BatchCompletes, BatchRaises, Rest,
           SleepEnds, InPublisher, Signal, Restart, Broker, Terminated, lifeVars,
           runVars, vars
  <2>2. pc = "idle" /\ queue = {}
    BY <2>1 DEF LoopExits, IInv, CallHasCaller, FlushedOrWarned, PubIInv, PubTypeOK
  <2> QED
    BY <2>1, <2>2 DEF LoopExits, ProducerDies
<1> QED
  BY <1>1, RunnerInvariant, PTL DEF Spec, FlushedExitDropsNothing

=============================================================================
