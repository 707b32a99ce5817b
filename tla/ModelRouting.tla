---------------------------- MODULE ModelRouting ----------------------------
(***************************************************************************)
(* generator/synthetic_generator.py: which model serves a request, what    *)
(* goes wrong with it and what it costs.                                   *)
(*                                                                         *)
(* The runner's thread opens anomaly windows once per batch                *)
(* (_maybe_inject_anomaly) and generates events.  generate_event routes    *)
(* first and charges much later; the monotonic clock and the date may move *)
(* in between, so a request is two steps here.  The reasons for a model    *)
(* the client prefers are one reason, "preferred", and costs are small     *)
(* integers.                                                               *)
(***************************************************************************)
EXTENDS ClientProfiles, Naturals

CONSTANTS
  Model,       (* MODEL_CONFIG                                               *)
  Nobody,      (* Python's None                                              *)
  Preferred,   (* per client, preferred_models                               *)
  Fallback,    (* per client, fallback_model                                 *)
  Cheapest,    (* per client, the preferred model with the lowest price      *)
  Budget,      (* daily_budget_usd, the same for all clients here            *)
  MaxCost,     (* bound: the most one request costs                          *)
  Durations,   (* the lengths of anomaly windows                             *)
  MaxNow,      (* bound: the monotonic clock                                 *)
  MaxDay,      (* bound: the date                                            *)
  MaxEvents    (* bound: requests                                            *)

Day == 1 .. MaxDay
Reasons == {"cost_optimised", "fallback", "preferred"}
Outcomes == {"none", "success", "rejected", "outage"}

ASSUME RoutingAssumption ==
  /\ Nobody \notin Client \cup Model
  /\ Preferred \in [Client -> SUBSET Model]
  /\ Fallback \in [Client -> Model] /\ Cheapest \in [Client -> Model]
  /\ Budget \in Nat /\ MaxCost \in Nat /\ Durations \subseteq Nat
  /\ MaxNow \in Nat /\ MaxDay \in Nat \ {0} /\ MaxEvents \in Nat

VARIABLES
  mock,            (* ALLOW_MOCK_MODE: _enrich_mock_event is on              *)
  now, day,        (* the two clocks                                         *)
  degraded, degradedUntil,    (* _anomaly_state                              *)
  limited, limitedUntil,
  cascade, cascadeUntil,
  spend,           (* _daily_spend                                           *)
  spendDate,       (* _spend_date, 0 before the first reset                  *)
  request,         (* the request being generated, after its routing         *)
  event,           (* the last event: what became of it, why, at what cost   *)
  made,            (* events so far                                          *)
  charged,         (* cost per date and client, a history variable           *)
  premium          (* the part of it not routed "cost_optimised"             *)

anomaly == <<degraded, degradedUntil, limited, limitedUntil, cascade, cascadeUntil>>
clocks  == <<mock, now, day>>
money   == <<spend, spendDate, charged, premium>>
vars    == <<clocks, anomaly, money, request, event, made>>

NoRequest == [client |-> Nobody, model |-> Nobody, reason |-> "preferred"]
NoEvent == [outcome |-> "none", cause |-> "none", cost |-> 0]

TypeOK ==
  /\ mock \in BOOLEAN /\ now \in 0 .. MaxNow /\ day \in Day
  /\ degraded \in Model \cup {Nobody} /\ limited \in Client \cup {Nobody}
  /\ cascade \in BOOLEAN
  /\ degradedUntil \in Nat /\ limitedUntil \in Nat /\ cascadeUntil \in Nat
  /\ spend \in [Client -> Nat] /\ spendDate \in 0 .. day
  /\ request \in {NoRequest} \cup [client : Client, model : Model, reason : Reasons]
  /\ event \in [outcome : Outcomes, cause : {"none", "storm", "outage"}, cost : Nat]
  /\ made \in 0 .. MaxEvents
  /\ charged \in [Day -> [Client -> Nat]] /\ premium \in [Day -> [Client -> Nat]]

Nothing == [d \in Day |-> [c \in Client |-> 0]]

Init ==
  /\ mock \in BOOLEAN /\ now = 0 /\ day = 1
  /\ degraded = Nobody /\ degradedUntil = 0
  /\ limited = Nobody /\ limitedUntil = 0
  /\ cascade = FALSE /\ cascadeUntil = 0
  /\ spend = [c \in Client |-> 0] /\ spendDate = 0
  /\ request = NoRequest /\ event = NoEvent /\ made = 0
  /\ charged = Nothing /\ premium = Nothing

-----------------------------------------------------------------------------
Tick == /\ now < MaxNow /\ now' = now + 1
        /\ UNCHANGED <<mock, day, anomaly, money, request, event, made>>

Midnight == /\ day < MaxDay /\ day' = day + 1
            /\ UNCHANGED <<mock, now, anomaly, money, request, event, made>>

(* maybe_inject_anomaly, between requests: each of the three windows may   *)
(* open if it is not open already.                                         *)
Inject ==
  /\ request = NoRequest
  /\ \/ UNCHANGED <<degraded, degradedUntil>>
     \/ /\ degraded = Nobody \/ now >= degradedUntil
        /\ degraded' \in Model
        /\ \E length \in Durations : degradedUntil' = now + length
  /\ \/ UNCHANGED <<limited, limitedUntil>>
     \/ /\ limited = Nobody \/ now >= limitedUntil
        /\ limited' \in Client
        /\ \E length \in Durations : limitedUntil' = now + length
  /\ \/ UNCHANGED <<cascade, cascadeUntil>>
     \/ /\ ~cascade \/ now >= cascadeUntil
        /\ cascade' = TRUE
        /\ \E length \in Durations : cascadeUntil' = now + length
  /\ UNCHANGED <<clocks, money, request, event, made>>

-----------------------------------------------------------------------------
(* _reset_daily_spend_if_needed: what the spend is on the current date.    *)
SpendToday(c) == IF spendDate = day THEN spend[c] ELSE 0
Reset == /\ spend' = [c \in Client |-> SpendToday(c)]
         /\ spendDate' = day

NearBudget(c) == 20 * SpendToday(c) >= 19 * Budget

Routed(c, m, why) ==
  request' = [client |-> c, model |-> m, reason |-> why]

(* a bug: the anomaly is looked at before the budget                       *)
RouteAnomalyFirst(c) ==
  /\ request = NoRequest /\ made < MaxEvents
  /\ Reset
  /\ IF degraded \in Preferred[c] THEN Routed(c, Fallback[c], "fallback")
     ELSE IF NearBudget(c) THEN Routed(c, Cheapest[c], "cost_optimised")
     ELSE \E m \in Preferred[c] : Routed(c, m, "preferred")
  /\ UNCHANGED <<clocks, anomaly, charged, premium, event, made>>

(* _pick_model_for_client: a client near its budget gets the cheapest      *)
(* model; else one that prefers the degraded model gets its fallback; else *)
(* it gets any model it prefers.  degraded_until is not looked at.         *)
Route(c) ==
  /\ request = NoRequest /\ made < MaxEvents
  /\ Reset
  /\ \/ NearBudget(c) /\ Routed(c, Cheapest[c], "cost_optimised")
     \/ ~NearBudget(c) /\ degraded \in Preferred[c] /\ Routed(c, Fallback[c], "fallback")
     \/ /\ ~NearBudget(c) /\ degraded \notin Preferred[c]
        /\ \E m \in Preferred[c] : Routed(c, m, "preferred")
  /\ UNCHANGED <<clocks, anomaly, charged, premium, event, made>>

(* a bug: the flag of a cascade is never taken down                        *)
ApplyAnomalyLeavesFlag == UNCHANGED anomaly

(* a bug: the end of the cascade is set to None with its flag              *)
ApplyAnomalyForgetsEnd ==
  /\ cascade' = (cascade /\ now < cascadeUntil)
  /\ cascadeUntil' = IF cascade /\ ~cascade' THEN Nobody ELSE cascadeUntil
  /\ UNCHANGED <<degraded, degradedUntil, limited, limitedUntil>>

(* _apply_anomaly: a cascade that is over is taken down; latencies and     *)
(* error rates are data.                                                   *)
ApplyAnomaly ==
  /\ cascade' = (cascade /\ now < cascadeUntil)
  /\ UNCHANGED <<degraded, degradedUntil, limited, limitedUntil, cascadeUntil>>

(* The error simulation after it: a storm on the client makes any error a  *)
(* rejection, a cascade or a degraded model an outage.                     *)
Outcome(c, m) ==
  {[outcome |-> "success", cause |-> "none"]} \cup
  IF limited = c THEN {[outcome |-> "rejected", cause |-> "storm"]}
  ELSE IF cascade' \/ degraded = m THEN {[outcome |-> "outage", cause |-> "outage"]}
  ELSE {[outcome |-> o, cause |-> "none"] : o \in {"rejected", "outage"}}

(* _daily_spend[client] += cost, on the date of the charge.                *)
Add(table, c, cost) == [table EXCEPT ![day][c] = @ + cost]

(* a bug: the spend is not reset again before it is added to               *)
ChargeWithoutReset(c, cost) ==
  /\ spend' = [spend EXCEPT ![c] = @ + cost] /\ UNCHANGED spendDate
  /\ charged' = Add(charged, c, cost)
  /\ premium' = IF request.reason = "cost_optimised" THEN premium
                ELSE Add(premium, c, cost)

Charge(c, cost) ==
  /\ spend' = [d \in Client |-> IF d = c THEN SpendToday(c) + cost ELSE SpendToday(d)]
  /\ spendDate' = day
  /\ charged' = Add(charged, c, cost)
  /\ premium' = IF request.reason = "cost_optimised" THEN premium
                ELSE Add(premium, c, cost)

(* In mock mode _enrich_mock_event may add cached tokens to the event and  *)
(* compute its cost again from its tokens: more than was charged.          *)
PublishedCosts(cost) == {cost} \cup IF mock THEN cost + 1 .. MaxCost + 1 ELSE {}

(* The rest of generate_event.  Rejected requests cost nothing, the others *)
(* what they cost.                                                         *)
Complete ==
  /\ request # NoRequest
  /\ ApplyAnomaly
  /\ \E o \in Outcome(request.client, request.model), cost \in 0 .. MaxCost :
       /\ (o.outcome = "rejected") <=> (cost = 0)
       /\ Charge(request.client, cost)
       /\ \E published \in PublishedCosts(cost) :
            event' = [outcome |-> o.outcome, cause |-> o.cause, cost |-> published]
  /\ request' = NoRequest /\ made' = made + 1
  /\ UNCHANGED clocks

(* get_client_budget_status, after each batch.                             *)
BudgetStatus ==
  /\ request = NoRequest
  /\ Reset
  /\ UNCHANGED <<clocks, anomaly, charged, premium, request, event, made>>

Next ==
  \/ Tick \/ Midnight
  \/ Inject \/ (\E c \in Client : Route(c)) \/ Complete \/ BudgetStatus

Spec == Init /\ [][Next]_vars

-----------------------------------------------------------------------------
(* The tracked spend of a client is what its requests of the tracked date  *)
(* cost, whatever midnights fall between routing, charging and reporting.  *)
SpendIsOfItsDay ==
  spendDate > 0 => \A c \in Client : spend[c] = charged[spendDate][c]

(* "Budget exhausted -> force cheapest model": on no date does a client    *)
(* spend more outside that rule than 95 % of its budget and one request,   *)
(* even with a request routed on the day before.                           *)
PremiumStopsNearBudget ==
  \A d \in Day, c \in Client :
    premium[d][c] > MaxCost => 20 * (premium[d][c] - MaxCost) < 19 * Budget

(* An outage blamed on a cascade happens inside the cascade's window,      *)
(* although the window may have ended since the request was routed.        *)
CascadeEndsOnTime ==
  [][ event'.cause = "outage" /\ degraded # request.model
        => now < cascadeUntil ]_<<event, made>>

(* Claimed by PRODUCTION_GUIDE.md:399 (a degradation lasts 2-5 min) and by *)
(* the comment at synthetic_generator.py:623: clients are moved to their   *)
(* fallback model only while a model is degraded.                          *)
FallbackOnlyWhileDegraded ==
  [][ request' # request /\ request'.reason = "fallback" => now < degradedUntil ]_vars

-----------------------------------------------------------------------------
(* What the two budget properties rest on: dates after the tracked one are *)
(* not charged yet, premium charges are charges, and a request outside the *)
(* rule was routed on the tracked date with its client under the limit.    *)
LaterDaysUncharged == \A d \in Day, c \in Client : d > spendDate => charged[d][c] = 0

PremiumIsCharged == \A d \in Day, c \in Client : premium[d][c] <= charged[d][c]

RoutedUnderLimit ==
  request # NoRequest =>
    /\ spendDate > 0
    /\ request.reason # "cost_optimised" => 20 * spend[request.client] < 19 * Budget

RequestInBound == request # NoRequest => made < MaxEvents

IInv == /\ TypeOK /\ SpendIsOfItsDay /\ PremiumStopsNearBudget
        /\ LaterDaysUncharged /\ PremiumIsCharged
        /\ RoutedUnderLimit /\ RequestInBound

=============================================================================
