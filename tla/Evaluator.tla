------------------------------ MODULE Evaluator ------------------------------
(***************************************************************************)
(* generator/evaluator.py: the runner's main thread hands sampled events   *)
(* to a thread pool; each pool thread gets the shared client, charges the  *)
(* estimated tokens against _DailyBudgetTracker and calls the judge.       *)
(*                                                                         *)
(* Days are numbered, 0 standing for the tracker's initial "".  A thread   *)
(* reads the date before it takes the tracker's lock, so midnight may pass *)
(* in between.  Calls are told apart only by who runs them: submitted and  *)
(* answered count them.                                                    *)
(***************************************************************************)
EXTENDS Integers, FiniteSets

CONSTANTS
  Worker,      (* the pool's threads (max_workers)                           *)
  Budget,      (* EVAL_DAILY_TOKEN_BUDGET                                    *)
  Estimates,   (* the values est_tokens takes, 200 and more in the code      *)
  MaxDay,      (* bound: the last day                                        *)
  MaxJobs      (* bound: calls submitted                                     *)

ASSUME EvaluatorAssumption ==
  /\ IsFiniteSet(Worker) /\ Worker # {}
  /\ Budget \in Nat /\ Estimates \subseteq Nat \ {0}
  /\ MaxDay \in Nat \ {0} /\ MaxJobs \in Nat

Day == 1 .. MaxDay

VARIABLES
  mock,        (* _MOCK_MODE                                                 *)
  day,         (* the UTC date                                               *)
  enabled,     (* _enabled                                                   *)
  client,      (* _client exists                                             *)
  used,        (* the tracker's _used                                        *)
  date,        (* the tracker's _date                                        *)
  submitted,   (* calls handed to the executor                               *)
  answered,    (* calls that ended, recorded or not                          *)
  wpc,         (* where each thread is                                       *)
  today,       (* the date each thread read in its last consume              *)
  charged,     (* tokens charged to each date, a history variable            *)
  crossed      (* a consume met a tracker of a later date, a history variable *)

tracker == <<used, date, charged, crossed>>
pool    == <<wpc, today>>
vars    == <<mock, day, enabled, client, tracker, submitted, answered, pool>>

Idle == {w \in Worker : wpc[w] = "idle"}
Queued == submitted - answered - Cardinality(Worker \ Idle)

FlagTypeOK ==
  /\ mock \in BOOLEAN /\ enabled \in BOOLEAN /\ client \in BOOLEAN
  /\ crossed \in BOOLEAN
  /\ wpc \in [Worker -> {"idle", "client", "date", "lock", "call"}]

CountTypeOK ==
  /\ day \in Day /\ date \in 0 .. MaxDay
  /\ used \in Nat /\ submitted \in 0 .. MaxJobs /\ answered \in 0 .. MaxJobs
  /\ today \in [Worker -> 0 .. MaxDay]
  /\ charged \in [Day -> Nat]

TypeOK == FlagTypeOK /\ CountTypeOK

(* Evaluator() and _DailyBudgetTracker().                                  *)
Init ==
  /\ mock \in BOOLEAN /\ enabled \in BOOLEAN /\ (mock => enabled)
  /\ day = 1 /\ client = FALSE
  /\ used = 0 /\ date = 0 /\ charged = [d \in Day |-> 0] /\ crossed = FALSE
  /\ submitted = 0 /\ answered = 0
  /\ wpc = [w \in Worker |-> "idle"] /\ today = [w \in Worker |-> 0]

-----------------------------------------------------------------------------
(* The runner's main thread: maybe_evaluate, for an event that passes the  *)
(* sampling gate.                                                          *)
MaybeEvaluate ==
  /\ enabled /\ submitted < MaxJobs
  /\ submitted' = submitted + 1
  /\ UNCHANGED <<mock, day, enabled, client, tracker, answered, pool>>

Midnight ==
  /\ day < MaxDay
  /\ day' = day + 1
  /\ UNCHANGED <<mock, enabled, client, tracker, submitted, answered, pool>>

-----------------------------------------------------------------------------
(* A pool thread.                                                          *)

Move(w, place) == wpc' = [wpc EXCEPT ![w] = place]

(* The call ends, with or without an eval_result, and its thread is free.  *)
Answer(w) == Move(w, "idle") /\ answered' = answered + 1

(* The executor starts _mock_judge, which only records, or _call_judge.    *)
Start(w) ==
  /\ w \in Idle /\ Queued > 0
  /\ IF mock THEN answered' = answered + 1 /\ UNCHANGED wpc
     ELSE Move(w, "client") /\ UNCHANGED answered
  /\ UNCHANGED <<mock, day, enabled, client, tracker, submitted, today>>

(* a bug: a call whose client cannot be built is submitted again           *)
GetClientOrRetry(w) ==
  /\ wpc[w] = "client"
  /\ \/ client' = TRUE /\ Move(w, "date") /\ UNCHANGED <<enabled, answered>>
     \/ ~client /\ Move(w, "idle") /\ UNCHANGED <<client, enabled, answered>>
  /\ UNCHANGED <<mock, day, tracker, submitted, today>>

(* a bug: the call goes on without a client after it has been answered     *)
GetClientFallsThrough(w) ==
  /\ wpc[w] = "client"
  /\ Move(w, "date")
  /\ \/ client' = TRUE /\ UNCHANGED <<enabled, answered>>
     \/ /\ ~client
        /\ enabled' = FALSE
        /\ answered' = answered + 1
        /\ UNCHANGED client
  /\ UNCHANGED <<mock, day, tracker, submitted, today>>

(* _get_client, under _init_lock.  A failure disables the evaluator for    *)
(* good; calls already queued still try to build the client.               *)
GetClient(w) ==
  /\ wpc[w] = "client"
  /\ \/ client' = TRUE /\ Move(w, "date") /\ UNCHANGED <<enabled, answered>>
     \/ /\ ~client
        /\ enabled' = FALSE
        /\ Answer(w)
        /\ UNCHANGED client
  /\ UNCHANGED <<mock, day, tracker, submitted, today>>

(* consume: "today = ..." before the lock.                                 *)
ReadDate(w) ==
  /\ wpc[w] = "date"
  /\ today' = [today EXCEPT ![w] = day]
  /\ Move(w, "lock")
  /\ UNCHANGED <<mock, day, enabled, client, tracker, submitted, answered>>

(* What _used counts for the date d under the lock.                        *)
UsedOn(d) == IF d # date THEN 0 ELSE used

(* a bug: the check compares what was used, not what would be              *)
ConsumeChecksUsed(w) ==
  /\ wpc[w] = "lock"
  /\ date' = today[w]
  /\ crossed' = (crossed \/ today[w] < date)
  /\ \E tokens \in Estimates :
       IF UsedOn(today[w]) > Budget
       THEN used' = UsedOn(today[w]) /\ UNCHANGED charged /\ Answer(w)
       ELSE /\ used' = UsedOn(today[w]) + tokens
            /\ charged' = [charged EXCEPT ![today[w]] = @ + tokens]
            /\ Move(w, "call") /\ UNCHANGED answered
  /\ UNCHANGED <<mock, day, enabled, client, submitted, today>>

(* a bug: "self._date = today" is missing, so that every call resets       *)
ConsumeForgetsDate(w) ==
  /\ wpc[w] = "lock"
  /\ UNCHANGED date
  /\ crossed' = (crossed \/ today[w] < date)
  /\ \E tokens \in Estimates :
       IF UsedOn(today[w]) + tokens > Budget
       THEN used' = UsedOn(today[w]) /\ UNCHANGED charged /\ Answer(w)
       ELSE /\ used' = UsedOn(today[w]) + tokens
            /\ charged' = [charged EXCEPT ![today[w]] = @ + tokens]
            /\ Move(w, "call") /\ UNCHANGED answered
  /\ UNCHANGED <<mock, day, enabled, client, submitted, today>>

(* consume under _lock: a date other than the tracker's resets it; the     *)
(* tokens must fit what is left.  A refused call ends unrecorded.          *)
Consume(w) ==
  /\ wpc[w] = "lock"
  /\ date' = today[w]
  /\ crossed' = (crossed \/ today[w] < date)
  /\ \E tokens \in Estimates :
       IF UsedOn(today[w]) + tokens > Budget
       THEN used' = UsedOn(today[w]) /\ UNCHANGED charged /\ Answer(w)
       ELSE /\ used' = UsedOn(today[w]) + tokens
            /\ charged' = [charged EXCEPT ![today[w]] = @ + tokens]
            /\ Move(w, "call") /\ UNCHANGED answered
  /\ UNCHANGED <<mock, day, enabled, client, submitted, today>>

(* chat.completions.create answers, fails or times out, and _record logs   *)
(* the result in each case.  The charge stays what was estimated.          *)
CallReturns(w) ==
  /\ wpc[w] = "call"
  /\ Answer(w)
  /\ UNCHANGED <<mock, day, enabled, client, tracker, submitted, today>>

Thread(w) == Start(w) \/ GetClient(w) \/ ReadDate(w) \/ Consume(w) \/ CallReturns(w)

(* The runner may stop sending events at any time.                         *)
Quiet == Queued = 0 /\ Idle = Worker /\ UNCHANGED vars

Next == MaybeEvaluate \/ Midnight \/ (\E w \in Worker : Thread(w)) \/ Quiet

Spec == Init /\ [][Next]_vars

(* The pool's threads are scheduled and the judge's calls end: the client  *)
(* is built with timeout=_EVAL_TIMEOUT_S.                                  *)
FairSpec == Spec /\ \A w \in Worker : WF_vars(Thread(w))

-----------------------------------------------------------------------------
(* As long as no consume has met a tracker already moved to a later date,  *)
(* no date is charged more than the budget: threads that only race for the *)
(* lock, even across midnight, cannot overspend.                           *)
OverspendNeedsCrossing ==
  ~crossed => \A d \in Day : charged[d] <= Budget

(* How bad the race at midnight can get: all threads but one may carry an  *)
(* old date into a day and, past that day, all but one the day's own date  *)
(* back into the tracker (consume reads the date before it locks), and     *)
(* each such crossing frees one more budget.                               *)
OverspendIsBounded ==
  \A d \in Day : charged[d] <= (2 * Cardinality(Worker) - 1) * Budget

(* Every call handed to the pool ends, also when the client cannot be      *)
(* built or the budget is spent.                                           *)
EveryCallEnds == \A n \in 1 .. MaxJobs : submitted >= n ~> answered >= n

(* Claimed by evaluator.py:30 ("Max tokens/day to spend on evaluation")    *)
(* and by the docstring of consume: no date is charged more than the       *)
(* budget.                                                                 *)
DailyBudgetHolds == \A d \in Day : charged[d] <= Budget

(* What OverspendNeedsCrossing rests on: without a crossing the tracker's  *)
(* date is the newest that was charged, and _used is its charge.           *)
TrackerInStep ==
  /\ used <= Budget
  /\ date <= day
  /\ \A w \in Worker : /\ today[w] <= day
                       /\ wpc[w] = "lock" => today[w] \in Day
  /\ ~crossed => \A d \in Day : /\ d = date => charged[d] = used
                                /\ d > date => charged[d] = 0

(* No thread works on a call that was not submitted.                       *)
CallsBalance == answered + Cardinality(Worker \ Idle) <= submitted

(* What OverspendIsBounded rests on: how much of its worst case a date may *)
(* have used up, given the threads that can still cross into it (Older)    *)
(* while it lasts and carry it back (Holding) once it is over.             *)
Size == Cardinality(Worker)
Older(d) == {w \in Worker : wpc[w] = "lock" /\ today[w] < d}
Holding(d) == {w \in Worker : wpc[w] = "lock" /\ today[w] = d}

BeforeDate(d) == day < d => charged[d] = 0
OnDate(d) ==
  day = d => \/ charged[d] = 0
             \/ charged[d] <= (Size - 1 - Cardinality(Older(d))) * Budget + UsedOn(d)
AfterDate(d) ==
  day > d =>
    IF Holding(d) = Worker THEN charged[d] <= (Size - 1) * Budget + UsedOn(d)
    ELSE IF d = date
    THEN charged[d] <= (2 * Size - 2 - Cardinality(Holding(d))) * Budget + used
    ELSE charged[d] <= (2 * Size - 1 - Cardinality(Holding(d))) * Budget

OverspendPace == \A d \in Day : BeforeDate(d) /\ OnDate(d) /\ AfterDate(d)

IInv == /\ TypeOK /\ OverspendNeedsCrossing /\ TrackerInStep
        /\ CallsBalance /\ OverspendPace

=============================================================================
