---------------------------- MODULE EventAssembly ----------------------------
(***************************************************************************)
(* The arithmetic of generate_event (synthetic_generator.py) for requests  *)
(* of one client to one model: tokens, latency and its phases, the outcome *)
(* that reshapes both, the cost and the daily spend, and at last           *)
(* _enrich_mock_event, which rewrites some of it in mock mode.             *)
(*                                                                         *)
(* Random draws are nondeterministic choices over small sets.  Tokens,     *)
(* time and money are integers, with what the code rounds to two decimals  *)
(* rounded to the next of them.                                            *)
(***************************************************************************)
EXTENDS Integers

CONSTANTS
  Token,        (* token counts a draw may give                              *)
  Window,       (* the most prompt tokens a request may have                 *)
  Time,         (* durations a draw may give                                 *)
  FirstFloor, StreamFloor,          (* 20 ms and 1 ms                        *)
  RejectedFloor, ServerFloor,       (* 12 ms and 50 ms                       *)
  CostInput, CostOutput, CostCache, (* of a token                            *)
  DailyBudget,  (* daily_budget_usd                                          *)
  MaxAssembled  (* bound: events generated                                   *)

ASSUME EventAssumption ==
  /\ Token \subseteq Nat \ {0} /\ Time \subseteq Nat
  /\ {Window, FirstFloor, StreamFloor, RejectedFloor, ServerFloor} \subseteq Nat \ {0}
  /\ {DailyBudget, MaxAssembled} \subseteq Nat \ {0}
  /\ CostInput \in Nat /\ CostOutput \in Nat
  /\ CostCache \in 0 .. CostInput

VARIABLES
  mockMode,     (* MOCK_MODE                                                 *)
  at,           (* how far generate_event is                                 *)
  ev,           (* the event so far                                          *)
  ttft,         (* its time to first token, a local of generate_event        *)
  spent,        (* _daily_spend of the client                                *)
  told,         (* the costs published for events charged to this date       *)
  events

eventVars == <<mockMode, at, ev, ttft, spent, told, events>>

Most(a, b)  == IF a > b THEN a ELSE b
Fewest(a, b) == IF a < b THEN a ELSE b

(* Outcomes, the error types with one treatment taken together: rate_limit,*)
(* auth_failure, bad_request and context_length are rejected; internal and *)
(* unavailable models are server errors.                                   *)
Status == {"success", "timeout", "rejected", "server"}

Blank ==
  [prompt |-> 0, completion |-> 0, cache |-> 0, total |-> 0, latency |-> 0,
   status |-> "success", streaming |-> FALSE, queue |-> 0, first |-> 0,
   stream |-> 0, inference |-> 0, cost |-> 0, spend |-> 0, exhausted |-> FALSE]

EventInit ==
  /\ mockMode \in BOOLEAN
  /\ at = "draw" /\ ev = Blank /\ ttft = 0
  /\ spent = 0 /\ told = 0 /\ events = 0

CalculateCost(prompt, completion, cache) ==
  prompt * CostInput + completion * CostOutput + cache * CostCache

(* Tokens, and the latency they lead to: first token, decoding and network *)
(* jitter, tripled while the model is degraded.                            *)
Draw ==
  /\ at = "draw" /\ events < MaxAssembled
  /\ \E drawn, completion \in Token, factor \in {1, 3}, first, rest \in Time :
       LET prompt == Fewest(drawn, Window)
       IN  \E cache \in {0} \cup {Fewest(t, prompt) : t \in Token} :
             /\ ttft' = Most(FirstFloor, first)
             /\ ev' = [Blank EXCEPT !.prompt = prompt, !.completion = completion,
                                    !.cache = cache, !.latency = factor * (ttft' + rest)]
  /\ at' = "outcome"
  /\ UNCHANGED <<mockMode, spent, told, events>>

(* The error simulation decides first, since it reshapes latency and       *)
(* output; the total is taken afterwards.                                  *)
SimulateError ==
  /\ at = "outcome"
  /\ \E status \in Status, time \in Time :
       LET latency == CASE status = "success"  -> ev.latency
                        [] status = "timeout"  -> time
                        [] status = "rejected" -> Most(RejectedFloor, time)
                        [] status = "server"   -> Most(ServerFloor, Fewest(ev.latency, time))
           completion == CASE status = "success" -> ev.completion
                           [] status = "timeout" -> Most(1, ev.completion \div 4)
                           [] OTHER              -> 0
       IN  ev' = [ev EXCEPT !.status = status, !.latency = latency,
                            !.completion = completion,
                            !.total = ev.prompt + completion + ev.cache]
  /\ at' = "phases"
  /\ UNCHANGED <<mockMode, ttft, spent, told, events>>

(* a bug: the wait in the queue is counted in the first token's time too   *)
PhasesQueueTwice ==
  /\ at = "phases"
  /\ \E queue \in Time :
       LET first == Most(FirstFloor, ttft)
       IN  \/ /\ ev.status = "success"
              /\ ev' = [ev EXCEPT !.streaming = TRUE, !.queue = queue, !.first = first,
                                  !.stream = Most(StreamFloor, ev.latency - queue - first),
                                  !.inference = Most(StreamFloor, ev.latency - queue - first)]
           \/ ev' = [ev EXCEPT !.queue = queue, !.inference = Most(0, ev.latency - queue)]
  /\ at' = "charge"
  /\ UNCHANGED <<mockMode, ttft, spent, told, events>>

(* The phase breakdown.  Each phase is clamped from below on its own.      *)
Phases ==
  /\ at = "phases"
  /\ \E queue \in Time :
       LET first  == Most(FirstFloor, ttft - queue)
           stream == Most(StreamFloor, ev.latency - queue - first)
       IN  \/ /\ ev.status = "success"
              /\ ev' = [ev EXCEPT !.streaming = TRUE, !.queue = queue, !.first = first,
                                  !.stream = stream, !.inference = stream]
           \/ ev' = [ev EXCEPT !.queue = queue, !.inference = Most(0, ev.latency - queue)]
  /\ at' = "charge"
  /\ UNCHANGED <<mockMode, ttft, spent, told, events>>

(* Rejected requests are free.  The spend is reset when the date is new.   *)
ChargeEvent ==
  /\ at = "charge"
  /\ \E midnight \in BOOLEAN :
       LET cost  == IF ev.status = "rejected" THEN 0
                    ELSE CalculateCost(ev.prompt, ev.completion, ev.cache)
           spend == (IF midnight THEN 0 ELSE spent) + cost
       IN  /\ spent' = spend
           /\ told' = IF midnight THEN 0 ELSE told
           /\ ev' = [ev EXCEPT !.cost = cost, !.spend = spend, !.exhausted = spend >= DailyBudget]
  /\ at' = "enrich"
  /\ UNCHANGED <<mockMode, ttft, events>>

Percent(part, n) == (part * n + 50) \div 100

(* _enrich_mock_event, first part: a successful answer that did not stream *)
(* is turned into one that did.  4 % of the latency is queue, at most 95 % *)
(* stream, and the first token has the rest.                               *)
Streamed(e) ==
  {e} \cup
  IF e.streaming \/ e.status # "success" THEN {}
  ELSE {LET queue  == Percent(4, e.latency)
            stream == Fewest(time, Percent(95, e.latency))
        IN  [e EXCEPT !.streaming = TRUE, !.queue = queue, !.stream = stream,
                      !.inference = stream,
                      !.first = Most(FirstFloor, e.latency - stream - queue)] :
        time \in Time}

(* a bug: the total is not taken again                                     *)
WithCacheReadsOldTotal(e) ==
  {e} \cup
  IF e.cache # 0 THEN {}
  ELSE {[e EXCEPT !.cache = cache, !.cost = CalculateCost(e.prompt, e.completion, cache)] :
        cache \in Token}

(* Second part: cache reads for an event without any, with total and cost  *)
(* computed again, a rejected request's too.                               *)
WithCacheReads(e) ==
  {e} \cup
  IF e.cache # 0 THEN {}
  ELSE {[e EXCEPT !.cache = cache, !.total = e.prompt + e.completion + cache,
                  !.cost = CalculateCost(e.prompt, e.completion, cache)] :
        cache \in Token}

(* Third part: the budget panel's flag is raised now and then.             *)
WithFlag(e) == {e, [e EXCEPT !.exhausted = TRUE]}

EnrichMockEvent(e) ==
  IF ~mockMode THEN {e}
  ELSE UNION {WithCacheReads(flagged) :
              flagged \in UNION {WithFlag(streamed) : streamed \in Streamed(e)}}

Enrich ==
  /\ at = "enrich"
  /\ ev' \in EnrichMockEvent(ev)
  /\ told' = told + ev'.cost
  /\ at' = "publish" /\ events' = events + 1
  /\ UNCHANGED <<mockMode, ttft, spent>>

(* The runner takes the event and asks for the next one.                   *)
Publish ==
  /\ at = "publish"
  /\ at' = "draw" /\ ev' = Blank /\ ttft' = 0
  /\ UNCHANGED <<mockMode, spent, told, events>>

EventStep == Draw \/ SimulateError \/ Phases \/ ChargeEvent \/ Enrich \/ Publish

EventSpec == EventInit /\ [][EventStep]_eventVars

-----------------------------------------------------------------------------
(* Properties.                                                             *)

(* By how much the four phases of an event take longer than its latency.   *)
Excess(e) == e.queue + e.inference + e.first + e.stream - e.latency

CoversLatency(e) ==
  IF e.streaming
  THEN /\ Excess(e) - e.stream \in 0 .. Most(e.queue + StreamFloor, FirstFloor)
       /\ Excess(e) - e.stream <= StreamFloor \/ e.first = FirstFloor
  ELSE Excess(e) = Most(0, e.queue - e.latency)

(* The four phases of a published event always account for its latency,    *)
(* and by how much they exceed it is known.  A response that did not       *)
(* stream exceeds it only if it was shorter than its wait in the queue.    *)
(* One that streamed has its streaming time in the sum twice, as           *)
(* model_inference_ms too, and exceeds it by no more than the least        *)
(* streaming time beyond that unless the floor of the first token was      *)
(* used, be it split by generate_event or by the enrichment                *)
(* (synthetic_generator.py l.735, l.919).                                  *)
PhasesCoverLatency == at = "publish" => CoversLatency(ev)

(* Claimed by tests/test_tracing.py:114 ("The four latency phases must     *)
(* reconstruct the total latency") and docs/semantic-conventions.md:43     *)
(* ("MUST sum to within 5 ms"): the excess stays within the tolerance.     *)
Tolerance == 5

PhasesSumToLatency == at = "publish" => Excess(ev) \in -Tolerance .. Tolerance

(* Published tokens add up, the tracked spend never exceeds the published  *)
(* costs of its date and equals them outside mock mode, and an event that  *)
(* reports a spend over the budget says so (l.758, l.942).                 *)
BooksOfEventsBalance ==
  at = "publish" =>
    /\ ev.total = ev.prompt + ev.completion + ev.cache
    /\ spent <= told
    /\ mockMode \/ spent = told
    /\ ev.spend >= DailyBudget => ev.exhausted

-----------------------------------------------------------------------------
(* The inductive invariant.  Until a failure reshapes it the latency holds *)
(* the time to first token, which is no less than its floor; only          *)
(* successful events stream; from the time each is computed the phases,    *)
(* the total and the cost are right; and the spend runs ahead of the       *)
(* published costs by the event under way only.                            *)
EventTypeOK ==
  /\ mockMode \in BOOLEAN
  /\ at \in {"draw", "outcome", "phases", "charge", "enrich", "publish"}
  /\ ev \in [prompt : Nat, completion : Nat, cache : Nat, total : Nat, latency : Nat,
             status : Status, streaming : BOOLEAN, queue : Nat, first : Nat,
             stream : Nat, inference : Nat, cost : Nat, spend : Nat, exhausted : BOOLEAN]
  /\ {ttft, spent, told, events} \subseteq Nat

LatencyHoldsFirstToken ==
  /\ at \in {"outcome", "phases"} => ttft >= FirstFloor
  /\ at = "outcome" => ev.latency >= ttft
  /\ at = "phases" /\ ev.status = "success" => ev.latency >= ttft

StreamsOnSuccess ==
  ev.streaming => ev.status = "success" /\ at \in {"charge", "enrich", "publish"}

PhasesAreSplit ==
  /\ at \in {"outcome", "phases"} => ev.first = 0 /\ ev.stream = 0
  /\ at \in {"charge", "enrich", "publish"} => CoversLatency(ev)

TotalIsTaken ==
  at \in {"phases", "charge", "enrich", "publish"} =>
    ev.total = ev.prompt + ev.completion + ev.cache

CostIsCharged ==
  at = "enrich" =>
    ev.cost = IF ev.status = "rejected" THEN 0
              ELSE CalculateCost(ev.prompt, ev.completion, ev.cache)

SpendIsTold ==
  LET pending == IF at = "enrich" THEN ev.cost ELSE 0
  IN  /\ spent <= told + pending
      /\ mockMode \/ spent = told + pending

OverBudgetIsFlagged ==
  at \in {"enrich", "publish"} => (ev.spend >= DailyBudget => ev.exhausted)

EventIInv ==
  /\ EventTypeOK /\ LatencyHoldsFirstToken /\ StreamsOnSuccess /\ PhasesAreSplit
  /\ TotalIsTaken /\ CostIsCharged /\ SpendIsTold /\ OverBudgetIsFlagged

=============================================================================
