-------------------------- MODULE Generator_proofs --------------------------
(***************************************************************************)
(* Proofs about the synthetic generator, for any clients, models, users,   *)
(* budgets, caps and costs:                                                *)
(*   ModelRouting: the tracked spend is right on every date, and what a    *)
(*     client spends outside the budget rule is bounded, under any         *)
(*     interleaving with midnight;                                         *)
(*   Sessions: the four session tables agree, turns count up without a     *)
(*     gap, and a session's user changes only at its end or by eviction;   *)
(*   EventAssembly: the phases cover the latency, and tokens, costs and    *)
(*     spend add up, in every published event.                             *)
(***************************************************************************)
EXTENDS ModelRouting, Sessions, EventAssembly, SequenceTheorems, FiniteSetTheorems, TLAPS

-----------------------------------------------------------------------------
(* ModelRouting.                                                           *)

(* A request is never mistaken for "no request".                           *)
LEMMA RequestIsReal ==
  ASSUME NEW c \in Client, NEW m \in Model, NEW why \in Reasons
  PROVE  [client |-> c, model |-> m, reason |-> why] # NoRequest
<1>1. c # Nobody
  BY RoutingAssumption
<1> QED
  BY <1>1 DEF NoRequest

(* Spend on the current date, which every handler computes first.          *)
LEMMA SpendTodayOK ==
  ASSUME IInv, NEW c \in Client
  PROVE  SpendToday(c) \in Nat /\ SpendToday(c) = charged[day][c]
<1>1. day \in Day /\ spend[c] \in Nat /\ charged[day][c] \in Nat
  BY DEF IInv, TypeOK
<1>2. CASE spendDate = day
  BY <1>1, <1>2 DEF IInv, SpendIsOfItsDay, SpendToday, Day
<1>3. CASE spendDate # day
  <2>1. spendDate < day
    BY <1>3 DEF IInv, TypeOK, Day
  <2>2. charged[day][c] = 0
    BY <1>1, <2>1 DEF IInv, LaterDaysUncharged
  <2> QED
    BY <1>3, <2>2 DEF SpendToday
<1> QED
  BY <1>2, <1>3

LEMMA InitOK == Init => IInv
<1> SUFFICES ASSUME Init PROVE IInv
  OBVIOUS
<1>1. Nothing \in [Day -> [Client -> Nat]] /\ \A d \in Day, c \in Client : Nothing[d][c] = 0
  BY DEF Nothing
<1>2. TypeOK
  <2>1. event \in [outcome : Outcomes, cause : {"none", "storm", "outage"}, cost : Nat]
    BY DEF Init, NoEvent, Outcomes
  <2>2. spend \in [Client -> Nat] /\ spendDate \in 0 .. day /\ day \in Day
    BY RoutingAssumption DEF Init, Day
  <2>3. mock \in BOOLEAN /\ cascade \in BOOLEAN
    BY DEF Init
  <2> QED
    BY <1>1, <2>1, <2>2, <2>3, RoutingAssumption DEF Init, TypeOK
<1>3. PremiumStopsNearBudget
  BY <1>1, RoutingAssumption DEF Init, PremiumStopsNearBudget
<1>4. SpendIsOfItsDay /\ LaterDaysUncharged /\ PremiumIsCharged
      /\ RoutedUnderLimit /\ RequestInBound
  BY <1>1 DEF Init, SpendIsOfItsDay, LaterDaysUncharged, PremiumIsCharged,
              RoutedUnderLimit, RequestInBound
<1> QED
  BY <1>2, <1>3, <1>4 DEF IInv

(* The clocks and the anomaly windows leave the money and the request.     *)
LEMMA AsideOK ==
  ASSUME IInv, UNCHANGED <<money, request, made>>, TypeOK'
  PROVE  IInv'
<1> USE DEF money
<1>1. /\ SpendIsOfItsDay' /\ LaterDaysUncharged' /\ PremiumIsCharged'
      /\ RoutedUnderLimit' /\ RequestInBound'
  BY DEF IInv, SpendIsOfItsDay, LaterDaysUncharged, PremiumIsCharged,
         RoutedUnderLimit, RequestInBound
<1>2. PremiumStopsNearBudget'
  BY DEF IInv, PremiumStopsNearBudget
<1> QED
  BY <1>1, <1>2 DEF IInv

LEMMA TickOK == ASSUME IInv, Tick PROVE IInv'
<1>1. TypeOK'
  BY RoutingAssumption DEF IInv, TypeOK, Tick, anomaly, money, Day
<1> QED
  BY <1>1, AsideOK DEF Tick

LEMMA MidnightOK == ASSUME IInv, Midnight PROVE IInv'
<1>1. TypeOK'
  BY RoutingAssumption DEF IInv, TypeOK, Midnight, anomaly, money, Day
<1> QED
  BY <1>1, AsideOK DEF Midnight

LEMMA InjectOK == ASSUME IInv, Inject PROVE IInv'
<1>1. degraded' \in Model \cup {Nobody} /\ degradedUntil' \in Nat
  BY RoutingAssumption DEF IInv, TypeOK, Inject
<1>2. limited' \in Client \cup {Nobody} /\ limitedUntil' \in Nat
  BY RoutingAssumption DEF IInv, TypeOK, Inject
<1>3. cascade' \in BOOLEAN /\ cascadeUntil' \in Nat
  <2>1. cascade \in BOOLEAN /\ cascadeUntil \in Nat
    BY DEF IInv, TypeOK
  <2>2. CASE UNCHANGED <<cascade, cascadeUntil>>
    BY <2>1, <2>2
  <2>3. CASE cascade' = TRUE /\ \E length \in Durations : cascadeUntil' = now + length
    BY <2>3, RoutingAssumption DEF IInv, TypeOK
  <2> QED
    BY <2>2, <2>3 DEF Inject
<1>4. TypeOK'
  BY <1>1, <1>2, <1>3 DEF IInv, TypeOK, Inject, clocks, money
<1> QED
  BY <1>4, AsideOK DEF Inject

(* The reset makes the current date the tracked one and charges nothing.   *)
LEMMA ResetOK ==
  ASSUME IInv, Reset, UNCHANGED <<day, charged, premium>>
  PROVE  /\ spend' \in [Client -> Nat] /\ spendDate' \in 0 .. day'
         /\ SpendIsOfItsDay' /\ LaterDaysUncharged'
         /\ PremiumIsCharged' /\ PremiumStopsNearBudget'
         /\ spendDate' > 0
         /\ \A c \in Client : spend'[c] = SpendToday(c)
<1>1. \A c \in Client : SpendToday(c) \in Nat /\ SpendToday(c) = charged[day][c]
  BY SpendTodayOK
<1>2. day \in Nat \ {0} /\ spendDate \in Nat /\ spendDate <= day
  BY DEF IInv, TypeOK, Day
<1>3. spend' = [c \in Client |-> SpendToday(c)] /\ spendDate' = day
  BY DEF Reset
<1>4. SpendIsOfItsDay'
  BY <1>1, <1>3 DEF SpendIsOfItsDay
<1>5. LaterDaysUncharged'
  BY <1>2, <1>3 DEF IInv, LaterDaysUncharged, Day
<1>6. PremiumIsCharged' /\ PremiumStopsNearBudget'
  BY DEF IInv, PremiumIsCharged, PremiumStopsNearBudget
<1> QED
  BY <1>1, <1>2, <1>3, <1>4, <1>5, <1>6

LEMMA RouteOK == ASSUME IInv, NEW c \in Client, Route(c) PROVE IInv'
<1>1. Reset /\ UNCHANGED <<day, charged, premium>>
  BY DEF Route, clocks
<1>2. PICK m \in Model, why \in Reasons :
        /\ request' = [client |-> c, model |-> m, reason |-> why]
        /\ why # "cost_optimised" => ~NearBudget(c)
  <2>1. Cheapest[c] \in Model /\ Fallback[c] \in Model /\ Preferred[c] \subseteq Model
    BY RoutingAssumption
  <2> QED
    BY <2>1 DEF Route, Routed, Reasons
<1>3. TypeOK'
  BY <1>1, <1>2, ResetOK DEF IInv, TypeOK, Route, clocks, anomaly
<1>4. RoutedUnderLimit'
  <2>1. SpendToday(c) \in Nat /\ Budget \in Nat
    BY SpendTodayOK, RoutingAssumption
  <2>2. spend'[c] = SpendToday(c) /\ spendDate' > 0
    BY <1>1, ResetOK
  <2> QED
    BY <1>2, <2>1, <2>2 DEF RoutedUnderLimit, NearBudget
<1>5. RequestInBound'
  BY DEF Route, RequestInBound
<1> QED
  BY <1>1, <1>3, <1>4, <1>5, ResetOK DEF IInv

LEMMA BudgetStatusOK == ASSUME IInv, BudgetStatus PROVE IInv'
<1>1. Reset /\ UNCHANGED <<day, charged, premium>> /\ request' = NoRequest
  BY DEF BudgetStatus, clocks
<1>2. TypeOK'
  BY <1>1, ResetOK DEF IInv, TypeOK, BudgetStatus, clocks, anomaly
<1>3. RoutedUnderLimit' /\ RequestInBound'
  BY <1>1 DEF RoutedUnderLimit, RequestInBound, NoRequest
<1> QED
  BY <1>1, <1>2, <1>3, ResetOK DEF IInv

(* Charging request.client on the current date.                            *)
LEMMA ChargeOK ==
  ASSUME IInv, request # NoRequest, NEW cost \in 0 .. MaxCost,
         Charge(request.client, cost), UNCHANGED day
  PROVE  /\ spend' \in [Client -> Nat] /\ spendDate' \in 0 .. day'
         /\ charged' \in [Day -> [Client -> Nat]] /\ premium' \in [Day -> [Client -> Nat]]
         /\ SpendIsOfItsDay' /\ LaterDaysUncharged' /\ PremiumIsCharged'
         /\ PremiumStopsNearBudget'
<1> DEFINE c == request.client
<1>1. c \in Client /\ cost \in Nat /\ cost <= MaxCost /\ MaxCost \in Nat /\ Budget \in Nat
  BY RoutingAssumption DEF IInv, TypeOK
<1>2. day \in Day /\ day \in Nat \ {0} /\ spendDate \in Nat /\ spendDate <= day
  BY DEF IInv, TypeOK, Day
<1>3. /\ charged \in [Day -> [Client -> Nat]]
      /\ premium \in [Day -> [Client -> Nat]]
  BY DEF IInv, TypeOK
<1>4. \A d \in Client : SpendToday(d) \in Nat /\ SpendToday(d) = charged[day][d]
  BY SpendTodayOK
<1> HIDE DEF c
<1>5. /\ spend' = [d \in Client |-> IF d = c THEN SpendToday(c) + cost ELSE SpendToday(d)]
      /\ spendDate' = day
      /\ charged' = [charged EXCEPT ![day][c] = @ + cost]
      /\ \/ request.reason = "cost_optimised" /\ premium' = premium
         \/ /\ request.reason # "cost_optimised"
            /\ premium' = [premium EXCEPT ![day][c] = @ + cost]
  BY DEF Charge, Add, c
<1>6. spend' \in [Client -> Nat] /\ spendDate' \in 0 .. day'
  BY <1>1, <1>2, <1>4, <1>5
<1>7. charged' \in [Day -> [Client -> Nat]]
  BY <1>1, <1>2, <1>3, <1>5
<1>8. premium' \in [Day -> [Client -> Nat]]
  BY <1>1, <1>2, <1>3, <1>5
<1>9. \A d \in Day, x \in Client :
        charged'[d][x] = IF d = day /\ x = c THEN charged[d][x] + cost ELSE charged[d][x]
  BY <1>1, <1>2, <1>3, <1>5
<1>10. \A d \in Day, x \in Client :
         \/ premium'[d][x] = premium[d][x]
         \/ /\ d = day /\ x = c /\ request.reason # "cost_optimised"
            /\ premium'[d][x] = premium[d][x] + cost
  BY <1>1, <1>2, <1>3, <1>5
<1>11. SpendIsOfItsDay'
  BY <1>2, <1>4, <1>5, <1>9 DEF SpendIsOfItsDay
<1>12. LaterDaysUncharged'
  <2> SUFFICES ASSUME NEW d \in Day, NEW x \in Client, d > spendDate' PROVE charged'[d][x] = 0
    BY DEF LaterDaysUncharged
  <2>1. d \in Nat /\ d > spendDate /\ d # day
    BY <1>2, <1>5 DEF Day
  <2> QED
    BY <2>1, <1>9 DEF IInv, LaterDaysUncharged
<1>13. PremiumIsCharged'
  <2> SUFFICES ASSUME NEW d \in Day, NEW x \in Client
               PROVE  premium'[d][x] <= charged'[d][x]
    BY DEF PremiumIsCharged
  <2>1. premium[d][x] \in Nat /\ charged[d][x] \in Nat /\ premium[d][x] <= charged[d][x]
    BY <1>3 DEF IInv, PremiumIsCharged
  <2> QED
    BY <1>1, <1>9, <1>10, <2>1
<1>14. PremiumStopsNearBudget'
  <2> SUFFICES ASSUME NEW d \in Day, NEW x \in Client, premium'[d][x] > MaxCost
               PROVE  20 * (premium'[d][x] - MaxCost) < 19 * Budget
    BY DEF PremiumStopsNearBudget
  <2>1. premium[d][x] \in Nat /\ charged[d][x] \in Nat /\ premium[d][x] <= charged[d][x]
    BY <1>3 DEF IInv, PremiumIsCharged
  <2>2. CASE premium'[d][x] = premium[d][x]
    BY <2>2 DEF IInv, PremiumStopsNearBudget
  <2>3. CASE /\ d = day /\ x = c /\ request.reason # "cost_optimised"
             /\ premium'[d][x] = premium[d][x] + cost
    <3>1. 20 * spend[c] < 19 * Budget /\ spendDate > 0
      BY <2>3 DEF IInv, RoutedUnderLimit, c
    <3>2. spendDate = day
      <4>1. spendDate # day => charged[day][c] = 0
        BY <1>1, <1>2 DEF IInv, LaterDaysUncharged
      <4> QED
        BY <4>1, <1>1, <2>1, <2>3
    <3>3. spend[c] = charged[d][x] /\ spend[c] \in Nat
      BY <3>1, <3>2, <1>1, <1>2, <2>3 DEF IInv, TypeOK, SpendIsOfItsDay
    <3>4. premium'[d][x] - MaxCost <= spend[c]
      BY <2>1, <2>3, <3>3, <1>1
    <3> QED
      BY <3>1, <3>3, <3>4, <2>1, <2>3, <1>1
  <2> QED
    BY <1>10, <2>2, <2>3
<1> QED
  BY <1>6, <1>7, <1>8, <1>11, <1>12, <1>13, <1>14

LEMMA CompleteOK == ASSUME IInv, Complete PROVE IInv'
<1>1. PICK cost \in 0 .. MaxCost : Charge(request.client, cost)
  BY DEF Complete
<1>2. request # NoRequest /\ UNCHANGED <<mock, now, day>> /\ request' = NoRequest
  BY DEF Complete, clocks
<1>3. event' \in [outcome : Outcomes, cause : {"none", "storm", "outage"}, cost : Nat]
  <2>1. PICK o \in Outcome(request.client, request.model), paid \in 0 .. MaxCost,
             published \in Nat :
          event' = [outcome |-> o.outcome, cause |-> o.cause, cost |-> published]
    <3>1. PICK o \in Outcome(request.client, request.model), paid \in 0 .. MaxCost :
            \E published \in PublishedCosts(paid) :
              event' = [outcome |-> o.outcome, cause |-> o.cause, cost |-> published]
      BY DEF Complete
    <3>2. PublishedCosts(paid) \subseteq Nat
      BY RoutingAssumption DEF PublishedCosts
    <3> QED
      BY <3>1, <3>2
  <2>2. o.outcome \in Outcomes /\ o.cause \in {"none", "storm", "outage"}
    BY DEF Outcome, Outcomes
  <2> QED
    BY <2>1, <2>2
<1>4. UNCHANGED <<degraded, degradedUntil, limited, limitedUntil, cascadeUntil>>
      /\ cascade' \in BOOLEAN
  BY DEF Complete, ApplyAnomaly
<1>5. made' \in 0 .. MaxEvents
  <2>1. made < MaxEvents
    BY <1>2 DEF IInv, RequestInBound
  <2> QED
    BY <2>1, RoutingAssumption DEF IInv, TypeOK, Complete
<1>6. TypeOK'
  BY <1>1, <1>2, <1>3, <1>4, <1>5, ChargeOK DEF IInv, TypeOK
<1>7. RoutedUnderLimit' /\ RequestInBound'
  BY <1>2 DEF RoutedUnderLimit, RequestInBound, NoRequest
<1> QED
  BY <1>1, <1>2, <1>6, <1>7, ChargeOK DEF IInv

(* The inductive invariant holds in every state.                           *)
THEOREM RoutingInvariant == Spec => []IInv
<1>1. IInv /\ [Next]_vars => IInv'
  <2> SUFFICES ASSUME IInv, [Next]_vars PROVE IInv'
    OBVIOUS
  <2>1. CASE UNCHANGED vars
    <3>1. TypeOK'
      BY <2>1 DEF vars, clocks, anomaly, money, IInv, TypeOK
    <3> QED
      BY <2>1, <3>1, AsideOK DEF vars
  <2>2. CASE \E c \in Client : Route(c)
    BY <2>2, RouteOK
  <2> QED
    BY <2>1, <2>2, TickOK, MidnightOK, InjectOK, CompleteOK, BudgetStatusOK DEF Next
<1> QED
  BY InitOK, <1>1, PTL DEF Spec

(* The spend that routing and the budget status look at is what the        *)
(* tracked date's requests cost (_daily_spend), and what a client spends   *)
(* on a date outside the "force cheapest" rule of _pick_model_for_client   *)
(* stays under 95 % of its budget plus one request.                        *)
THEOREM SpendIsTracked == Spec => [](SpendIsOfItsDay /\ PremiumStopsNearBudget)
<1>1. IInv => SpendIsOfItsDay /\ PremiumStopsNearBudget
  BY DEF IInv
<1> QED
  BY <1>1, RoutingInvariant, PTL

(* Anomaly windows, routing and spend keep their ranges: an armed anomaly  *)
(* always has its end (_maybe_trigger_anomaly).                            *)
THEOREM RoutingTypes == Spec => []TypeOK
<1>1. IInv => TypeOK
  BY DEF IInv
<1> QED
  BY <1>1, RoutingInvariant, PTL

(* An outage is blamed on a cascade only inside the cascade's window, also *)
(* when the window ended while the request was under way: _apply_anomaly   *)
(* takes the flag down before the error simulation reads it.               *)
THEOREM CascadesEnd == Spec => CascadeEndsOnTime
<1>1. [Next]_vars => [ event'.cause = "outage" /\ degraded # request.model
                         => now < cascadeUntil ]_<<event, made>>
  <2>1. ASSUME Complete, event'.cause = "outage", degraded # request.model
        PROVE  now < cascadeUntil
    <3>1. PICK o \in Outcome(request.client, request.model) : o.cause = "outage"
      BY <2>1 DEF Complete
    <3>2. cascade'
      BY <2>1, <3>1 DEF Outcome
    <3> QED
      BY <2>1, <3>2 DEF Complete, ApplyAnomaly
  <2>2. Tick \/ Midnight \/ Inject \/ BudgetStatus => UNCHANGED <<event, made>>
    BY DEF Tick, Midnight, Inject, BudgetStatus
  <2>3. ASSUME NEW c \in Client, Route(c) PROVE UNCHANGED <<event, made>>
    BY <2>3 DEF Route
  <2>4. UNCHANGED vars => UNCHANGED <<event, made>>
    BY DEF vars
  <2> QED
    BY <2>1, <2>2, <2>3, <2>4 DEF Next
<1> QED
  BY <1>1, PTL DEF Spec, CascadeEndsOnTime

-----------------------------------------------------------------------------
(* Sessions: lemmas about sequences and dicts.                             *)

(* What RemoveAt leaves.                                                   *)
LEMMA RemoveAtProperties ==
  ASSUME NEW S, NEW s \in Seq(S), NEW i \in DOMAIN s
  PROVE  /\ RemoveAt(s, i) \in Seq(S)
         /\ Len(RemoveAt(s, i)) = Len(s) - 1
         /\ \A k \in 1 .. Len(s) - 1 :
              RemoveAt(s, i)[k] = IF k < i THEN s[k] ELSE s[k + 1]
<1> DEFINE a == SubSeq(s, 1, i - 1)
           b == SubSeq(s, i + 1, Len(s))
<1>1. Len(s) \in Nat /\ i \in 1 .. Len(s) /\ \A k \in 1 .. Len(s) : s[k] \in S
  BY LenProperties, ElementOfSeq
<1>2. a \in Seq(S) /\ Len(a) = i - 1 /\ \A k \in 1 .. i - 1 : a[k] = s[k]
  <2>1. \A k \in 1 .. i - 1 : s[k] \in S
    BY <1>1
  <2>2. 1 \in Int /\ i - 1 \in Int
    BY <1>1
  <2>3. /\ a \in Seq(S)
        /\ Len(a) = IF 1 <= i - 1 THEN i - 1 - 1 + 1 ELSE 0
        /\ \A k \in 1 .. i - 1 - 1 + 1 : a[k] = s[1 + k - 1]
    BY <2>1, <2>2, SubSeqProperties
  <2> HIDE DEF a
  <2> QED
    BY <2>3, <1>1
<1>3. b \in Seq(S) /\ Len(b) = Len(s) - i /\ \A k \in 1 .. Len(s) - i : b[k] = s[i + k]
  <2>1. \A k \in i + 1 .. Len(s) : s[k] \in S
    BY <1>1
  <2>2. i + 1 \in Int /\ Len(s) \in Int
    BY <1>1
  <2>3. /\ b \in Seq(S)
        /\ Len(b) = IF i + 1 <= Len(s) THEN Len(s) - (i + 1) + 1 ELSE 0
        /\ \A k \in 1 .. Len(s) - (i + 1) + 1 : b[k] = s[i + 1 + k - 1]
    BY <2>1, <2>2, SubSeqProperties
  <2> HIDE DEF b
  <2> QED
    BY <2>3, <1>1
<1> HIDE DEF a, b
<1>4. /\ a \o b \in Seq(S) /\ Len(a \o b) = Len(a) + Len(b)
      /\ \A k \in 1 .. Len(a) + Len(b) :
           (a \o b)[k] = IF k <= Len(a) THEN a[k] ELSE b[k - Len(a)]
  BY <1>2, <1>3, ConcatProperties
<1>5. RemoveAt(s, i) = a \o b
  BY DEF RemoveAt, a, b
<1>6. Len(a \o b) = Len(s) - 1
  BY <1>1, <1>2, <1>3, <1>4
<1>7. ASSUME NEW k \in 1 .. Len(s) - 1
      PROVE  (a \o b)[k] = IF k < i THEN s[k] ELSE s[k + 1]
  <2>1. (a \o b)[k] = IF k <= i - 1 THEN a[k] ELSE b[k - (i - 1)]
    BY <1>1, <1>2, <1>3, <1>4, <1>6
  <2>2. CASE k < i
    BY <2>1, <2>2, <1>1, <1>2
  <2>3. CASE ~(k < i)
    <3>1. k - (i - 1) \in 1 .. Len(s) - i /\ i + (k - (i - 1)) = k + 1
      BY <2>3, <1>1
    <3> QED
      BY <2>1, <2>3, <3>1, <1>1, <1>3
  <2> QED
    BY <2>2, <2>3
<1> QED
  BY <1>4, <1>5, <1>6, <1>7

(* list.remove on a list without repeats: the element goes, the others     *)
(* stay, and there is still no repeat.                                     *)
IsRemoved(r, s, e) ==
  /\ Len(r) = Len(s) - 1
  /\ Range(r) = Range(s) \ {e}
  /\ \A i, k \in DOMAIN r : i # k => r[i] # r[k]

LEMMA Removed ==
  ASSUME NEW S, NEW s \in Seq(S), \A i, k \in DOMAIN s : i # k => s[i] # s[k],
         NEW e \in Range(s)
  PROVE  LET r == RemoveAt(s, PlaceOf(s, e)) IN r \in Seq(S) /\ IsRemoved(r, s, e)
<1> DEFINE p == PlaceOf(s, e)
           r == RemoveAt(s, p)
<1>0. Len(s) \in Nat /\ DOMAIN s = 1 .. Len(s)
  BY LenProperties
<1>1. PICK i \in DOMAIN s : s[i] = e
  BY DEF Range
<1>2. \A k \in 1 .. i - 1 : s[k] # e
  BY <1>0, <1>1
<1>3. p \in DOMAIN s /\ s[p] = e
  BY <1>1, <1>2 DEF PlaceOf
<1> HIDE DEF p
<1>4. /\ r \in Seq(S) /\ Len(r) = Len(s) - 1
      /\ \A k \in 1 .. Len(s) - 1 : r[k] = IF k < p THEN s[k] ELSE s[k + 1]
  BY <1>3, RemoveAtProperties
<1> HIDE DEF r
<1>5. DOMAIN r = 1 .. Len(s) - 1
  BY <1>4, LenProperties
<1>6. \A k \in DOMAIN r : r[k] \in Range(s) \ {e}
  <2> TAKE k \in DOMAIN r
  <2>1. CASE k < p
    BY <2>1, <1>0, <1>3, <1>4, <1>5 DEF Range
  <2>2. CASE ~(k < p)
    <3>1. k + 1 \in DOMAIN s /\ k + 1 # p /\ r[k] = s[k + 1]
      BY <2>2, <1>0, <1>3, <1>4, <1>5
    <3> QED
      BY <3>1, <1>3 DEF Range
  <2> QED
    BY <2>1, <2>2
<1>7. \A j \in DOMAIN s : s[j] # e => s[j] \in Range(r)
  <2> SUFFICES ASSUME NEW j \in DOMAIN s, s[j] # e PROVE \E k \in DOMAIN r : r[k] = s[j]
    BY DEF Range
  <2>1. CASE j < p
    BY <2>1, <1>0, <1>3, <1>4, <1>5
  <2>2. CASE j > p
    <3>1. j - 1 \in DOMAIN r /\ r[j - 1] = s[j - 1 + 1] /\ j - 1 + 1 = j
      BY <2>2, <1>0, <1>3, <1>4, <1>5
    <3> QED
      BY <3>1
  <2> QED
    BY <2>1, <2>2, <1>0, <1>3
<1>8. Range(r) = Range(s) \ {e}
  BY <1>6, <1>7 DEF Range
<1>9. \A j, k \in DOMAIN r : j # k => r[j] # r[k]
  BY <1>0, <1>3, <1>4, <1>5
<1>10. r \in Seq(S) /\ IsRemoved(r, s, e)
  BY <1>4, <1>8, <1>9 DEF IsRemoved
<1> QED
  BY <1>10 DEF r, p

(* list.pop(0) and list.append on a list without repeats.                  *)
LEMMA HeadRemoved ==
  ASSUME NEW S, NEW s \in Seq(S), \A i, k \in DOMAIN s : i # k => s[i] # s[k],
         s # <<>>
  PROVE  /\ Tail(s) \in Seq(S) /\ IsRemoved(Tail(s), s, Head(s))
         /\ Head(s) \in Range(s)
<1> DEFINE r == Tail(s)
<1>0. Len(s) \in Nat \ {0} /\ DOMAIN s = 1 .. Len(s)
  BY LenProperties, EmptySeq
<1>1. Head(s) = s[1] /\ 1 \in DOMAIN s
  BY <1>0
<1>2. /\ r \in Seq(S) /\ Len(r) = Len(s) - 1
      /\ \A i \in 1 .. Len(r) : r[i] = s[i + 1]
  BY HeadTailProperties
<1> HIDE DEF r
<1>3. DOMAIN r = 1 .. Len(s) - 1
  BY <1>2, LenProperties
<1>4. \A i \in DOMAIN r : i + 1 \in DOMAIN s /\ i + 1 # 1 /\ r[i] = s[i + 1]
  BY <1>0, <1>2, <1>3
<1>5. \A j \in DOMAIN s : j # 1 => j - 1 \in DOMAIN r /\ r[j - 1] = s[j]
  BY <1>0, <1>2, <1>3
<1>6. Range(r) \subseteq Range(s) \ {s[1]}
  BY <1>1, <1>4 DEF Range
<1>7. Range(s) \ {s[1]} \subseteq Range(r)
  BY <1>5 DEF Range
<1>8. \A i, k \in DOMAIN r : i # k => r[i] # r[k]
  <2> SUFFICES ASSUME NEW i \in DOMAIN r, NEW k \in DOMAIN r, i # k PROVE r[i] # r[k]
    OBVIOUS
  <2>1. i + 1 # k + 1
    BY <1>3
  <2> QED
    BY <2>1, <1>4
<1>9. IsRemoved(r, s, Head(s))
  BY <1>1, <1>2, <1>6, <1>7, <1>8 DEF IsRemoved
<1>10. Head(s) \in Range(s)
  BY <1>1 DEF Range
<1> QED
  BY <1>2, <1>9, <1>10 DEF r

IsAppended(r, s, e) ==
  /\ Len(r) = Len(s) + 1
  /\ Range(r) = Range(s) \cup {e}
  /\ \A i, k \in DOMAIN r : i # k => r[i] # r[k]

LEMMA Appended ==
  ASSUME NEW S, NEW s \in Seq(S), \A i, k \in DOMAIN s : i # k => s[i] # s[k],
         NEW e \in S, e \notin Range(s)
  PROVE  Append(s, e) \in Seq(S) /\ IsAppended(Append(s, e), s, e)
<1> DEFINE r == Append(s, e)
<1>0. Len(s) \in Nat /\ DOMAIN s = 1 .. Len(s)
  BY LenProperties
<1>1. /\ r \in Seq(S) /\ Len(r) = Len(s) + 1
      /\ \A i \in 1 .. Len(s) : r[i] = s[i]
      /\ r[Len(s) + 1] = e
  BY AppendProperties
<1> HIDE DEF r
<1>2. DOMAIN r = 1 .. Len(s) + 1
  BY <1>1, LenProperties
<1>3. \A i \in DOMAIN r : (i = Len(s) + 1 /\ r[i] = e)
                         \/ (i \in DOMAIN s /\ r[i] = s[i] /\ r[i] \in Range(s))
  <2> SUFFICES ASSUME NEW i \in DOMAIN r
               PROVE  (i = Len(s) + 1 /\ r[i] = e)
                      \/ (i \in DOMAIN s /\ r[i] = s[i] /\ r[i] \in Range(s))
    OBVIOUS
  <2>1. CASE i = Len(s) + 1
    BY <2>1, <1>1
  <2>2. CASE i # Len(s) + 1
    <3>1. i \in DOMAIN s /\ r[i] = s[i]
      BY <2>2, <1>0, <1>1, <1>2
    <3> QED
      BY <3>1 DEF Range
  <2> QED
    BY <2>1, <2>2
<1>4. Range(r) \subseteq Range(s) \cup {e}
  BY <1>3 DEF Range
<1>5. \A i \in DOMAIN s : i \in DOMAIN r /\ r[i] = s[i]
  BY <1>0, <1>1, <1>2
<1>6. Len(s) + 1 \in DOMAIN r
  BY <1>0, <1>2
<1>7. Range(s) \cup {e} \subseteq Range(r)
  BY <1>1, <1>5, <1>6 DEF Range
<1>8. \A i, k \in DOMAIN r : i # k => r[i] # r[k]
  BY <1>3
<1>9. IsAppended(r, s, e)
  BY <1>1, <1>4, <1>7, <1>8 DEF IsAppended
<1> QED
  BY <1>1, <1>9 DEF r

(* The cardinality of a list without repeats.                              *)
LEMMA CountListed ==
  ASSUME NEW S, NEW s \in Seq(S), \A i, k \in DOMAIN s : i # k => s[i] # s[k]
  PROVE  Len(s) = Cardinality(Range(s))
<1>1. Len(s) \in Nat /\ DOMAIN s = 1 .. Len(s) /\ s \in [1 .. Len(s) -> S]
  BY LenProperties
<1>2. s \in Bijection(1 .. Len(s), Range(s))
  BY <1>1 DEF Bijection, Injection, IsInjective, Surjection, Range
<1>3. ExistsBijection(1 .. Len(s), Range(s))
  BY <1>2 DEF ExistsBijection
<1> QED
  BY <1>1, <1>3, FS_CountingElements

Entry == Session \X User

(* The entry of a session is the one at its place.                         *)
LEMMA EntryIs ==
  ASSUME NEW map, KeysDiffer(map), NEW i \in DOMAIN map
  PROVE  EntryOf(map, map[i][1]) = i /\ UserIn(map, map[i][1]) = map[i][2]
<1>1. EntryOf(map, map[i][1]) = i
  BY DEF EntryOf, KeysDiffer
<1> QED
  BY <1>1 DEF UserIn

(* dict.pop on the user map.                                               *)
IsForgotten(r, map, s) ==
  /\ Len(r) <= Len(map) /\ KeysDiffer(r)
  /\ \A i \in DOMAIN r : r[i] \in Range(map) /\ r[i][1] # s
  /\ \A t : t # s /\ HasUser(map, t) => HasUser(r, t)

LEMMA Forgotten ==
  ASSUME NEW map \in Seq(Entry), KeysDiffer(map), NEW s
  PROVE  Forget(map, s) \in Seq(Entry) /\ IsForgotten(Forget(map, s), map, s)
<1> DEFINE r == Forget(map, s)
<1>0. Len(map) \in Nat /\ DOMAIN map = 1 .. Len(map)
  BY LenProperties
<1>1. CASE ~HasUser(map, s)
  <2>1. r = map
    BY <1>1 DEF Forget
  <2>2. \A i \in DOMAIN map : map[i] \in Range(map) /\ map[i][1] # s
    BY <1>1 DEF HasUser, Range
  <2> QED
    BY <2>1, <2>2, <1>0 DEF IsForgotten
<1>2. CASE HasUser(map, s)
  <2> DEFINE p == EntryOf(map, s)
  <2>1. p \in DOMAIN map /\ map[p][1] = s
    BY <1>2 DEF HasUser, EntryOf
  <2>2. r = RemoveAt(map, p)
    BY <1>2 DEF Forget
  <2> HIDE DEF p, r
  <2>3. /\ r \in Seq(Entry) /\ Len(r) = Len(map) - 1
        /\ \A k \in 1 .. Len(map) - 1 : r[k] = IF k < p THEN map[k] ELSE map[k + 1]
    BY <2>1, <2>2, RemoveAtProperties
  <2>4. DOMAIN r = 1 .. Len(map) - 1
    BY <2>3, LenProperties
  <2>5. \A k \in DOMAIN r : \E j \in DOMAIN map : r[k] = map[j] /\ j # p
    <3> TAKE k \in DOMAIN r
    <3>1. CASE k < p
      BY <3>1, <1>0, <2>1, <2>3, <2>4
    <3>2. CASE ~(k < p)
      <4>1. k + 1 \in DOMAIN map /\ k + 1 # p /\ r[k] = map[k + 1]
        BY <3>2, <1>0, <2>1, <2>3, <2>4
      <4> QED
        BY <4>1
    <3> QED
      BY <3>1, <3>2
  <2>6. \A j \in DOMAIN map : j # p => \E k \in DOMAIN r : r[k] = map[j]
    <3> SUFFICES ASSUME NEW j \in DOMAIN map, j # p
                 PROVE  \E k \in DOMAIN r : r[k] = map[j]
      OBVIOUS
    <3>1. CASE j < p
      BY <3>1, <1>0, <2>1, <2>3, <2>4
    <3>2. CASE j > p
      <4>1. j - 1 \in DOMAIN r /\ r[j - 1] = map[j - 1 + 1] /\ j - 1 + 1 = j
        BY <3>2, <1>0, <2>1, <2>3, <2>4
      <4> QED
        BY <4>1
    <3> QED
      BY <3>1, <3>2, <1>0, <2>1
  <2>7. \A i, k \in DOMAIN r : i # k => r[i][1] # r[k][1]
    <3> SUFFICES ASSUME NEW i \in DOMAIN r, NEW k \in DOMAIN r, i # k
                 PROVE  r[i][1] # r[k][1]
      OBVIOUS
    <3> DEFINE place(x) == IF x < p THEN x ELSE x + 1
    <3>1. place(i) \in DOMAIN map /\ place(k) \in DOMAIN map /\ place(i) # place(k)
      BY <1>0, <2>1, <2>4
    <3>2. r[i] = map[place(i)] /\ r[k] = map[place(k)]
      BY <2>3, <2>4
    <3> HIDE DEF place
    <3> QED
      BY <3>1, <3>2 DEF KeysDiffer
  <2>8. Len(r) <= Len(map)
    BY <2>3, <1>0
  <2>9. \A i \in DOMAIN r : r[i] \in Range(map) /\ r[i][1] # s
    BY <2>5, <2>1 DEF Range, KeysDiffer
  <2>10. \A t : t # s /\ HasUser(map, t) => HasUser(r, t)
    BY <2>6, <2>1 DEF HasUser
  <2> QED
    BY <2>3, <2>7, <2>8, <2>9, <2>10 DEF KeysDiffer, IsForgotten, r
<1> QED
  BY <1>1, <1>2

(* What _user_for_session and the event that follows leave behind: the     *)
(* event's user is the stored one if there is one, every other entry is an *)
(* old one, and an entry that is gone was evicted.                         *)
LookedUp(c, s, turn, of, map) ==
  \E u \in User :
    /\ Emit(c, s, turn, of, u)
    /\ userOf' \in Seq(Entry) /\ Len(userOf') <= MaxUsers /\ KeysDiffer(userOf')
    /\ \A i \in DOMAIN userOf' :
         \/ userOf'[i] = <<s, u>>
         \/ userOf'[i][1] # s /\ userOf'[i] \in Range(map)
    /\ \A t : HasUser(map, t) \/ t = s => HasUser(userOf', t) \/ t \in evicted'
    /\ evicted \subseteq evicted' /\ evicted' \subseteq Session
    /\ \A i \in DOMAIN map : map[i][1] = s => u = map[i][2]

LEMMA UserFound ==
  ASSUME SessionTypeOK,
         NEW map \in Seq(Entry), KeysDiffer(map), Len(map) <= MaxUsers,
         NEW c, NEW s \in Session, NEW turn, NEW of,
         UserForSession(c, s, turn, of, map)
  PROVE  LookedUp(c, s, turn, of, map)
<1>0. /\ Len(map) \in Nat /\ DOMAIN map = 1 .. Len(map)
      /\ \A i \in DOMAIN map : map[i] \in Entry
  BY LenProperties, ElementOfSeq
<1>00. evicted \subseteq Session /\ MaxUsers \in Nat \ {0}
  BY SessionsAssumption DEF SessionTypeOK
<1>1. CASE /\ HasUser(map, s) /\ userOf' = map /\ UNCHANGED evicted
           /\ Emit(c, s, turn, of, UserIn(map, s))
  <2>1. PICK k \in DOMAIN map : map[k][1] = s
    BY <1>1 DEF HasUser
  <2>2. UserIn(map, s) = map[k][2] /\ map[k][2] \in User /\ map[k] = <<s, map[k][2]>>
    BY <2>1, <1>0, EntryIs DEF Entry
  <2>3. \A i \in DOMAIN map : map[i][1] = s => i = k
    BY <2>1 DEF KeysDiffer
  <2>4. \A i \in DOMAIN map : map[i] = <<s, map[k][2]>> \/ (map[i][1] # s /\ map[i] \in Range(map))
    BY <2>2, <2>3 DEF Range
  <2>5. HasUser(map, s)
    BY <1>1
  <2> DEFINE u == map[k][2]
  <2>6. u \in User /\ Emit(c, s, turn, of, u)
    BY <1>1, <2>2
  <2>7. /\ userOf' \in Seq(Entry) /\ Len(userOf') <= MaxUsers /\ KeysDiffer(userOf')
        /\ \A t : HasUser(map, t) \/ t = s => HasUser(userOf', t) \/ t \in evicted'
        /\ evicted \subseteq evicted' /\ evicted' \subseteq Session
    BY <1>1, <1>00
  <2>8. \A i \in DOMAIN userOf' :
          \/ userOf'[i] = <<s, u>>
          \/ userOf'[i][1] # s /\ userOf'[i] \in Range(map)
    BY <1>1, <2>4
  <2>9. \A i \in DOMAIN map : map[i][1] = s => u = map[i][2]
    BY <2>3
  <2> QED
    BY <2>6, <2>7, <2>8, <2>9 DEF LookedUp
<1>2. ASSUME ~HasUser(map, s), NEW u \in User,
             LET all == Append(map, <<s, u>>)
                 over == Len(all) > MaxUsers
             IN  /\ userOf' = IF over THEN Tail(all) ELSE all
                 /\ evicted' = IF over THEN evicted \cup {Head(all)[1]} ELSE evicted
                 /\ Emit(c, s, turn, of, u)
      PROVE  /\ userOf' \in Seq(Entry) /\ Len(userOf') <= MaxUsers /\ KeysDiffer(userOf')
             /\ \A i \in DOMAIN userOf' :
                  \/ userOf'[i] = <<s, u>>
                  \/ userOf'[i][1] # s /\ userOf'[i] \in Range(map)
             /\ \A t : HasUser(map, t) \/ t = s => HasUser(userOf', t) \/ t \in evicted'
             /\ evicted \subseteq evicted' /\ evicted' \subseteq Session
  <2> DEFINE all == Append(map, <<s, u>>)
             n == Len(map)
  <2>1. <<s, u>> \in Entry
    BY DEF Entry
  <2>2. /\ all \in Seq(Entry) /\ all # <<>> /\ Len(all) = n + 1
        /\ \A i \in 1 .. n : all[i] = map[i]
        /\ all[n + 1] = <<s, u>>
    BY <2>1, AppendProperties
  <2>3. /\ userOf' = IF Len(all) > MaxUsers THEN Tail(all) ELSE all
        /\ evicted' = IF Len(all) > MaxUsers THEN evicted \cup {Head(all)[1]} ELSE evicted
    BY <1>2
  <2> HIDE DEF all
  <2>4. DOMAIN all = 1 .. n + 1
    BY <2>2, LenProperties
  <2>5. \A i \in DOMAIN all :
          \/ i = n + 1 /\ all[i] = <<s, u>>
          \/ i \in 1 .. n /\ all[i] = map[i] /\ all[i][1] # s /\ all[i] \in Range(map)
    BY <1>0, <1>2, <2>2, <2>4 DEF HasUser, Range
  <2>6. \A i, k \in DOMAIN all : i # k => all[i][1] # all[k][1]
    <3> SUFFICES ASSUME NEW i \in DOMAIN all, NEW k \in DOMAIN all, i # k
                 PROVE  all[i][1] # all[k][1]
      OBVIOUS
    <3>1. CASE i \in 1 .. n /\ k \in 1 .. n
      BY <3>1, <1>0, <2>2 DEF KeysDiffer
    <3>2. CASE i = n + 1 /\ k \in 1 .. n
      BY <3>2, <2>5, <1>0
    <3>3. CASE k = n + 1 /\ i \in 1 .. n
      BY <3>3, <2>5, <1>0
    <3> QED
      BY <3>1, <3>2, <3>3, <2>4, <1>0
  <2>7. \A t : HasUser(map, t) \/ t = s => HasUser(all, t)
    <3> TAKE t
    <3>1. CASE t = s
      BY <3>1, <2>2, <2>4, <1>0 DEF HasUser
    <3>2. CASE HasUser(map, t)
      BY <3>2, <2>2, <2>4, <1>0 DEF HasUser
    <3> QED
      BY <3>1, <3>2
  <2>8. CASE ~(Len(all) > MaxUsers)
    <3>1. userOf' = all /\ evicted' = evicted /\ Len(all) <= MaxUsers
      BY <2>3, <2>8, <2>2, <1>0, <1>00
    <3> QED
      BY <3>1, <2>2, <2>5, <2>6, <2>7, <1>00 DEF KeysDiffer
  <2>9. CASE Len(all) > MaxUsers
    <3> DEFINE rest == Tail(all)
    <3>1. userOf' = rest /\ evicted' = evicted \cup {Head(all)[1]}
      BY <2>3, <2>9
    <3>2. /\ rest \in Seq(Entry) /\ Len(rest) = n
          /\ \A i \in 1 .. n : rest[i] = all[i + 1]
      BY <2>2, <1>0, HeadTailProperties
    <3>3. Head(all) = all[1] /\ all[1] \in Entry
      BY <2>2, <2>4, <1>0, HeadTailProperties
    <3> HIDE DEF rest
    <3>4. DOMAIN rest = 1 .. n
      BY <3>2, LenProperties
    <3>5. \A i, k \in DOMAIN rest : i # k => rest[i][1] # rest[k][1]
      <4> SUFFICES ASSUME NEW i \in DOMAIN rest, NEW k \in DOMAIN rest, i # k
                   PROVE  rest[i][1] # rest[k][1]
        OBVIOUS
      <4>1. i + 1 \in DOMAIN all /\ k + 1 \in DOMAIN all /\ i + 1 # k + 1
        BY <3>4, <2>4, <1>0
      <4> QED
        BY <4>1, <2>6, <3>2, <3>4
    <3>6. \A i \in DOMAIN rest :
            rest[i] = <<s, u>> \/ (rest[i][1] # s /\ rest[i] \in Range(map))
      <4> TAKE i \in DOMAIN rest
      <4>1. i + 1 \in DOMAIN all /\ rest[i] = all[i + 1]
        BY <3>2, <3>4, <2>4, <1>0
      <4> QED
        BY <4>1, <2>5
    <3>7. \A t : HasUser(all, t) => HasUser(rest, t) \/ t = Head(all)[1]
      <4> SUFFICES ASSUME NEW i \in DOMAIN all, i # 1
                   PROVE  \E k \in DOMAIN rest : rest[k] = all[i]
        BY <3>3 DEF HasUser
      <4>1. i - 1 \in DOMAIN rest /\ rest[i - 1] = all[i - 1 + 1] /\ i - 1 + 1 = i
        BY <2>4, <3>2, <3>4, <1>0
      <4> QED
        BY <4>1
    <3>8. Head(all)[1] \in Session
      BY <3>3 DEF Entry
    <3> QED
      BY <3>1, <3>2, <3>5, <3>6, <3>7, <3>8, <2>7, <1>00 DEF KeysDiffer
  <2> QED
    BY <2>8, <2>9
<1>3. \A i \in DOMAIN map : ~HasUser(map, s) => map[i][1] # s
  BY DEF HasUser
<1> QED
  BY <1>1, <1>2, <1>3 DEF UserForSession, LookedUp

(* The counts and limits of the tables.                                    *)
LEMMA TableEntries ==
  ASSUME SessionTypeOK
  PROVE  /\ MaxTurns \in Nat /\ MaxSessions \in Nat
         /\ \A s \in DOMAIN turns : s \in Session /\ turns[s] \in 1 .. MaxTurns
         /\ \A s \in DOMAIN meta : s \in Session /\ meta[s] \in 2 .. MaxTurns
BY SessionsAssumption DEF SessionTypeOK, Range

(* dict[s] = v, and dict.pop for the members of S.                         *)
IsWith(g, f, s, v) ==
  /\ DOMAIN g = DOMAIN f \cup {s} /\ g[s] = v
  /\ \A t \in DOMAIN f : t # s => g[t] = f[t]
  /\ Range(g) \subseteq Range(f) \cup {v}

IsWithout(g, f, S) ==
  /\ DOMAIN g = DOMAIN f \ S
  /\ \A t \in DOMAIN g : g[t] = f[t]
  /\ Range(g) \subseteq Range(f)

LEMMA WithProperties ==
  ASSUME NEW f, NEW s, NEW v
  PROVE  IsWith(With(f, s, v), f, s, v)
<1> DEFINE g == With(f, s, v)
<1>1. /\ DOMAIN g = DOMAIN f \cup {s}
      /\ \A t \in DOMAIN f \cup {s} : g[t] = IF t = s THEN v ELSE f[t]
  BY DEF With
<1> HIDE DEF g
<1>2. IsWith(g, f, s, v)
  BY <1>1 DEF IsWith, Range
<1> QED
  BY <1>2 DEF g

LEMMA WithoutProperties ==
  ASSUME NEW f, NEW S
  PROVE  IsWithout(Without(f, S), f, S)
<1> DEFINE g == Without(f, S)
<1>1. DOMAIN g = DOMAIN f \ S /\ \A t \in DOMAIN f \ S : g[t] = f[t]
  BY DEF Without, Restrict
<1> HIDE DEF g
<1>2. IsWithout(g, f, S)
  BY <1>1 DEF IsWithout, Range
<1> QED
  BY <1>2 DEF g

(* What an event leaves of the user map and the history.                   *)
EventRecorded(s, turn, of, map) ==
  /\ userOf' \in Seq(Entry) /\ Len(userOf') <= MaxUsers
  /\ KeysDiffer(userOf') /\ OnlyFinishedLinger'
  /\ evicted \subseteq evicted' /\ evicted' \subseteq Session
  /\ latest' \in [client : Client, session : 0 .. MaxSessions, turn : 0 .. MaxTurns,
                   of : 0 .. MaxTurns, user : User \cup {NoUser}]
  /\ history' \in [Session -> [turn : 0 .. MaxTurns, of : 0 .. MaxTurns,
                               user : User \cup {NoUser}]]
  /\ latest'.session = s /\ latest'.turn = turn /\ latest'.of = of
  /\ history'[s].turn = turn /\ history'[s].of = of
  /\ \A t \in Session : t # s => history'[t] = history[t]
  /\ \A i \in DOMAIN userOf' :
       userOf'[i][1] = s \/ \E k \in DOMAIN userOf : userOf[k][1] = userOf'[i][1]
  /\ \A t : HasUser(map, t) \/ t = s => HasUser(userOf', t) \/ t \in evicted'
  /\ \A i \in DOMAIN map : map[i][1] = s => latest'.user = map[i][2]

(* It does so when each entry of the map the user is looked up in is an    *)
(* old one, of an active or a finished session.                            *)
LEMMA AfterEvent ==
  ASSUME SessionIInv,
         NEW map \in Seq(Entry), KeysDiffer(map), Len(map) <= MaxUsers,
         NEW c \in Client, NEW s \in Session,
         NEW turn \in 1 .. MaxTurns, NEW of \in 2 .. MaxTurns,
         UserForSession(c, s, turn, of, map),
         \A i \in DOMAIN map : map[i] \in Range(userOf),
         \A i \in DOMAIN map :
           map[i][1] \in DOMAIN turns => map[i][1] \in DOMAIN turns' \/ map[i][1] = s,
         s \in DOMAIN turns' \/ turn = of
  PROVE  EventRecorded(s, turn, of, map)
<1>0. /\ SessionTypeOK /\ OnlyFinishedLinger /\ KeysDiffer(userOf)
      /\ history \in [Session -> [turn : 0 .. MaxTurns, of : 0 .. MaxTurns,
                                  user : User \cup {NoUser}]]
      /\ MaxTurns \in Nat /\ MaxSessions \in Nat
  BY SessionsAssumption DEF SessionIInv, SessionTypeOK
<1>1. PICK u \in User :
        /\ Emit(c, s, turn, of, u)
        /\ userOf' \in Seq(Entry) /\ Len(userOf') <= MaxUsers /\ KeysDiffer(userOf')
        /\ \A i \in DOMAIN userOf' :
             \/ userOf'[i] = <<s, u>>
             \/ userOf'[i][1] # s /\ userOf'[i] \in Range(map)
        /\ \A t : HasUser(map, t) \/ t = s => HasUser(userOf', t) \/ t \in evicted'
        /\ evicted \subseteq evicted' /\ evicted' \subseteq Session
        /\ \A i \in DOMAIN map : map[i][1] = s => u = map[i][2]
  <2>1. LookedUp(c, s, turn, of, map)
    BY <1>0, UserFound
  <2> QED
    BY <2>1 DEF LookedUp
<1>2. /\ latest' = [client |-> c, session |-> s, turn |-> turn, of |-> of, user |-> u]
      /\ history' = [history EXCEPT ![s] = [turn |-> turn, of |-> of, user |-> u]]
  BY <1>1 DEF Emit
<1>3. /\ history'[s] = [turn |-> turn, of |-> of, user |-> u]
      /\ \A t \in Session : t # s => history'[t] = history[t]
      /\ history' \in [Session -> [turn : 0 .. MaxTurns, of : 0 .. MaxTurns,
                                   user : User \cup {NoUser}]]
  BY <1>0, <1>2
<1>4. latest' \in [client : Client, session : 0 .. MaxSessions, turn : 0 .. MaxTurns,
                   of : 0 .. MaxTurns, user : User \cup {NoUser}]
  BY <1>0, <1>2 DEF Session
<1>5. ASSUME NEW i \in DOMAIN userOf', userOf'[i] # <<s, u>>
      PROVE  \E k \in DOMAIN map : map[k] = userOf'[i] /\ map[k] \in Range(userOf) /\ map[k][1] # s
  BY <1>1, <1>5 DEF Range
<1>6. \A i \in DOMAIN userOf' :
        userOf'[i][1] = s \/ \E k \in DOMAIN userOf : userOf[k][1] = userOf'[i][1]
  BY <1>5 DEF Range
<1>7. OnlyFinishedLinger'
  <2> SUFFICES ASSUME NEW i \in DOMAIN userOf'
               PROVE  LET t == userOf'[i][1]
                      IN  /\ t \in DOMAIN turns' \/ history'[t].turn = history'[t].of
                          /\ userOf'[i][2] = history'[t].user
    BY <1>1, EntryIs DEF OnlyFinishedLinger
  <2>1. CASE userOf'[i] = <<s, u>>
    BY <2>1, <1>3
  <2>2. CASE userOf'[i] # <<s, u>>
    <3>1. PICK k \in DOMAIN map : map[k] = userOf'[i] /\ map[k] \in Range(userOf) /\ map[k][1] # s
      BY <2>2, <1>5
    <3>2. PICK j \in DOMAIN userOf : userOf[j] = map[k]
      BY <3>1 DEF Range
    <3>3. /\ userOf[j][1] \in DOMAIN turns \/ history[userOf[j][1]].turn = history[userOf[j][1]].of
          /\ userOf[j][2] = history[userOf[j][1]].user
      BY <1>0, EntryIs DEF OnlyFinishedLinger
    <3>4. userOf[j][1] \in Session
      <4>1. userOf \in Seq(Entry)
        BY <1>0 DEF SessionTypeOK, Entry
      <4>2. userOf[j] \in Entry
        BY <4>1, LenProperties, ElementOfSeq
      <4> QED
        BY <4>2 DEF Entry
    <3>5. history'[userOf[j][1]] = history[userOf[j][1]]
      BY <1>3, <3>1, <3>2, <3>4
    <3>6. userOf'[i] = userOf[j]
      BY <3>1, <3>2
    <3> QED
      BY <3>1, <3>2, <3>3, <3>5, <3>6
  <2> QED
    BY <2>1, <2>2
<1> QED
  BY <1>1, <1>2, <1>3, <1>4, <1>6, <1>7 DEF EventRecorded

-----------------------------------------------------------------------------
(* SessionIInv is inductive.                                               *)

LEMMA SessionInitOK == SessionInit => SessionIInv
<1> SUFFICES ASSUME SessionInit PROVE SessionIInv
  OBVIOUS
<1> USE SessionsAssumption DEF SessionInit
<1>1. /\ DOMAIN turns = {} /\ DOMAIN meta = {} /\ DOMAIN userOf = {} /\ Len(userOf) = 0
      /\ Range(turns) = {} /\ Range(meta) = {}
  BY DEF Range
<1>2. \A c \in Client : /\ DOMAIN active[c] = {} /\ Len(active[c]) = 0 /\ InUse(c) = {}
  <2> TAKE c \in Client
  <2>1. active[c] = <<>>
    OBVIOUS
  <2>2. DOMAIN active[c] = {} /\ Len(active[c]) = 0
    BY <2>1
  <2> QED
    BY <2>2 DEF InUse, Range
<1>3. SessionTypeOK
  <2>1. active \in [Client -> Seq(Session)] /\ userOf \in Seq(Session \X User)
    OBVIOUS
  <2>2. NoEvents \in [turn : 0 .. MaxTurns, of : 0 .. MaxTurns, user : User \cup {NoUser}]
    BY DEF NoEvents
  <2>3. latest \in [client : Client, session : 0 .. MaxSessions,
                    turn : 0 .. MaxTurns, of : 0 .. MaxTurns, user : User \cup {NoUser}]
    OBVIOUS
  <2>4. history \in [Session -> [turn : 0 .. MaxTurns, of : 0 .. MaxTurns,
                                user : User \cup {NoUser}]]
    BY <2>2
  <2> QED
    BY <1>1, <2>1, <2>3, <2>4 DEF SessionTypeOK
<1>4. BooksAgree
  <2>1. Cardinality({}) = 0
    BY FS_EmptySet
  <2>2. UNION {InUse(c) : c \in Client} = {}
    BY <1>2, Zenon
  <2>3. \A c \in Client : Len(active[c]) = Cardinality(InUse(c)) /\ Len(active[c]) <= MaxActive
    <3> TAKE c \in Client
    <3>1. InUse(c) = {} /\ Len(active[c]) = 0 /\ 0 <= MaxActive
      BY <1>2
    <3> HIDE DEF SessionInit
    <3> QED
      BY <3>1, <2>1
  <2>4. \A c, d \in Client : c # d => InUse(c) \cap InUse(d) = {}
    BY <1>2
  <2> QED
    BY <1>1, <2>2, <2>3, <2>4 DEF BooksAgree
<1>5. OnlyFinishedLinger /\ KeysDiffer(userOf) /\ HistoryIsCurrent /\ ActiveHasUser
  BY <1>1 DEF OnlyFinishedLinger, KeysDiffer, HistoryIsCurrent, ActiveHasUser
<1>6. ListedOnce
  BY <1>2 DEF ListedOnce
<1>7. FutureIsBlank
  BY <1>1 DEF FutureIsBlank
<1> QED
  BY <1>3, <1>4, <1>5, <1>6, <1>7 DEF SessionIInv

(* A session in use has its entries in the tables.                         *)
LEMMA SessionInUse ==
  ASSUME SessionIInv, NEW c \in Client, NEW s \in InUse(c)
  PROVE  /\ s \in DOMAIN turns /\ s \in DOMAIN meta /\ s \in Session
         /\ turns[s] \in 1 .. MaxTurns /\ meta[s] \in 2 .. MaxTurns
         /\ turns[s] < meta[s] /\ turns[s] = history[s].turn /\ meta[s] = history[s].of
         /\ MaxTurns \in Nat
<1>1. s \in DOMAIN turns /\ s \in DOMAIN meta
  BY DEF SessionIInv, BooksAgree
<1> QED
  BY <1>1, TableEntries DEF SessionIInv, HistoryIsCurrent

LEMMA NextTurnRecorded ==
  ASSUME SessionIInv, NEW c \in Client, NEW s \in InUse(c),
         turns[s] + 1 < meta[s], NextTurn(c, s)
  PROVE  EventRecorded(s, turns[s] + 1, meta[s], userOf)
<1>1. /\ s \in Session /\ turns[s] + 1 \in 1 .. MaxTurns /\ meta[s] \in 2 .. MaxTurns
      /\ s \in DOMAIN turns
  BY SessionInUse
<1>2. DOMAIN turns' = DOMAIN turns
  <2>1. turns' = With(turns, s, turns[s] + 1)
    BY DEF NextTurn
  <2>2. IsWith(turns', turns, s, turns[s] + 1)
    BY <2>1, WithProperties
  <2> QED
    BY <1>1, <2>2 DEF IsWith
<1>3. userOf \in Seq(Entry) /\ KeysDiffer(userOf) /\ Len(userOf) <= MaxUsers
  BY DEF SessionIInv, SessionTypeOK, Entry
<1>4. UserForSession(c, s, turns[s] + 1, meta[s], userOf)
  BY DEF NextTurn
<1>5. \A i \in DOMAIN userOf : userOf[i] \in Range(userOf)
  BY DEF Range
<1> DEFINE turn == turns[s] + 1
           of == meta[s]
<1> HIDE DEF turn, of
<1>6. EventRecorded(s, turn, of, userOf)
  BY <1>1, <1>2, <1>3, <1>4, <1>5, AfterEvent DEF turn, of
<1> QED
  BY <1>6 DEF turn, of

LEMMA NextTurnOK ==
  ASSUME SessionIInv, NEW c \in Client, NEW s \in InUse(c),
         turns[s] + 1 < meta[s], NextTurn(c, s), UNCHANGED opened
  PROVE  SessionIInv'
<1>1. EventRecorded(s, turns[s] + 1, meta[s], userOf)
  BY NextTurnRecorded
<1>2. /\ s \in DOMAIN turns /\ s \in Session /\ turns[s] \in 1 .. MaxTurns
      /\ turns[s] + 1 \in 1 .. MaxTurns /\ MaxTurns \in Nat
  BY SessionInUse
<1>3. /\ DOMAIN turns' = DOMAIN turns /\ turns'[s] = turns[s] + 1
      /\ \A t \in DOMAIN turns : t # s => turns'[t] = turns[t]
      /\ Range(turns') \subseteq Range(turns) \cup {turns[s] + 1}
  <2>1. turns' = With(turns, s, turns[s] + 1)
    BY DEF NextTurn
  <2>2. IsWith(turns', turns, s, turns[s] + 1)
    BY <2>1, WithProperties
  <2> QED
    BY <1>2, <2>2 DEF IsWith
<1>4. UNCHANGED <<active, meta>>
  BY DEF NextTurn
<1>5. SessionTypeOK'
  BY <1>1, <1>2, <1>3, <1>4 DEF SessionIInv, SessionTypeOK, EventRecorded, Entry
<1>6. BooksAgree' /\ ListedOnce'
  <2>1. \A d : InUse(d)' = InUse(d)
    BY <1>4 DEF InUse
  <2>2. DOMAIN turns' = DOMAIN turns /\ DOMAIN meta' = DOMAIN meta /\ active' = active
    BY <1>3, <1>4
  <2>3. BooksAgree'
    BY <2>1, <2>2 DEF SessionIInv, BooksAgree
  <2>4. ListedOnce'
    BY <2>2 DEF SessionIInv, ListedOnce
  <2> QED
    BY <2>3, <2>4
<1>7. OnlyFinishedLinger' /\ KeysDiffer(userOf)'
  BY <1>1 DEF EventRecorded
<1>8. FutureIsBlank'
  <2>1. FutureIsBlank /\ s <= opened /\ opened' = opened
    BY <1>2 DEF SessionIInv, FutureIsBlank
  <2>2. \A t \in DOMAIN turns' : t <= opened'
    BY <1>3, <2>1 DEF FutureIsBlank
  <2>3. \A i \in DOMAIN userOf' : userOf'[i][1] <= opened'
    BY <1>1, <2>1 DEF FutureIsBlank, EventRecorded
  <2>4. \A t \in Session : t > opened' => history'[t] = NoEvents
    BY <1>1, <1>2, <2>1 DEF FutureIsBlank, EventRecorded, SessionIInv, SessionTypeOK, Session
  <2> QED
    BY <2>2, <2>3, <2>4 DEF FutureIsBlank
<1>9. HistoryIsCurrent'
  <2> SUFFICES ASSUME NEW t \in DOMAIN turns'
               PROVE  history'[t].turn = turns'[t] /\ history'[t].of = meta'[t] /\ turns'[t] < meta'[t]
    BY DEF HistoryIsCurrent
  <2>1. CASE t = s
    BY <2>1, <1>1, <1>3, <1>4 DEF EventRecorded
  <2>2. CASE t # s
    BY <2>2, <1>1, <1>3, <1>4, TableEntries DEF EventRecorded, SessionIInv, HistoryIsCurrent
  <2> QED
    BY <2>1, <2>2
<1>10. ActiveHasUser'
  BY <1>1, <1>3 DEF SessionIInv, ActiveHasUser, EventRecorded
<1> QED
  BY <1>5, <1>6, <1>7, <1>8, <1>9, <1>10 DEF SessionIInv

LEMMA LastTurnRecorded ==
  ASSUME SessionIInv, NEW c \in Client, NEW s \in InUse(c),
         turns[s] + 1 >= meta[s], LastTurn(c, s)
  PROVE  EventRecorded(s, turns[s] + 1, meta[s], Forget(userOf, s))
<1> DEFINE map == Forget(userOf, s)
           turn == turns[s] + 1
           of == meta[s]
<1>1. /\ s \in Session /\ turn \in 1 .. MaxTurns /\ of \in 2 .. MaxTurns /\ turn = of
  BY SessionInUse
<1>2. IsWithout(turns', turns, {s})
  BY WithoutProperties DEF LastTurn
<1>3. /\ userOf \in Seq(Entry) /\ KeysDiffer(userOf)
      /\ Len(userOf) <= MaxUsers /\ MaxUsers \in Nat
  BY SessionsAssumption DEF SessionIInv, SessionTypeOK, Entry
<1>4. map \in Seq(Entry) /\ IsForgotten(map, userOf, s)
  BY <1>3, Forgotten
<1>5. UserForSession(c, s, turn, of, map)
  BY DEF LastTurn
<1> HIDE DEF map, turn, of
<1>6. Len(map) <= MaxUsers
  BY <1>3, <1>4, LenProperties DEF IsForgotten
<1>7. KeysDiffer(map) /\ \A i \in DOMAIN map : map[i] \in Range(userOf)
  BY <1>4 DEF IsForgotten
<1>8. \A i \in DOMAIN map :
        map[i][1] \in DOMAIN turns => map[i][1] \in DOMAIN turns' \/ map[i][1] = s
  BY <1>2 DEF IsWithout
<1>9. EventRecorded(s, turn, of, map)
  BY <1>1, <1>4, <1>5, <1>6, <1>7, <1>8, AfterEvent
<1> QED
  BY <1>9 DEF map, turn, of

LEMMA LastTurnOK ==
  ASSUME SessionIInv, NEW c \in Client, NEW s \in InUse(c),
         turns[s] + 1 >= meta[s], LastTurn(c, s), UNCHANGED opened
  PROVE  SessionIInv'
<1>1. EventRecorded(s, turns[s] + 1, meta[s], Forget(userOf, s))
  BY LastTurnRecorded
<1>2. s \in DOMAIN turns /\ s \in DOMAIN meta /\ s \in Session
  BY SessionInUse
<1>3. IsWithout(turns', turns, {s}) /\ IsWithout(meta', meta, {s})
  BY WithoutProperties DEF LastTurn
<1>4. /\ DOMAIN turns' = DOMAIN turns \ {s} /\ DOMAIN meta' = DOMAIN meta \ {s}
      /\ \A t \in DOMAIN turns' : turns'[t] = turns[t]
      /\ \A t \in DOMAIN meta' : meta'[t] = meta[t]
  BY <1>3 DEF IsWithout
<1>5. active \in [Client -> Seq(Session)] /\ active[c] \in Seq(Session)
  BY DEF SessionIInv, SessionTypeOK
<1> DEFINE list == RemoveAt(active[c], PlaceOf(active[c], s))
<1>6. active' = [active EXCEPT ![c] = list]
  BY DEF LastTurn
<1>7. list \in Seq(Session) /\ IsRemoved(list, active[c], s)
  <2>1. \A i, k \in DOMAIN active[c] : i # k => active[c][i] # active[c][k]
    BY DEF SessionIInv, ListedOnce
  <2> QED
    BY <1>5, <2>1, Removed DEF InUse
<1> HIDE DEF list
<1>8. /\ active' \in [Client -> Seq(Session)] /\ active'[c] = list
      /\ \A d \in Client : d # c => active'[d] = active[d]
  BY <1>5, <1>6, <1>7
<1>9. /\ InUse(c)' = InUse(c) \ {s}
      /\ \A d \in Client : d # c => InUse(d)' = InUse(d)
  BY <1>7, <1>8 DEF InUse, IsRemoved
<1>10. SessionTypeOK'
  BY <1>1, <1>3, <1>8 DEF SessionIInv, SessionTypeOK, EventRecorded, Entry, IsWithout
<1>11. ListedOnce'
  BY <1>7, <1>8 DEF SessionIInv, ListedOnce, IsRemoved
<1>12. BooksAgree'
  <2>1. BooksAgree
    BY DEF SessionIInv
  <2>2. \A d \in Client : d # c => s \notin InUse(d)
    BY <2>1 DEF BooksAgree
  <2>3. DOMAIN turns' = UNION {InUse(d)' : d \in Client}
    <3>1. ASSUME NEW t PROVE t \in DOMAIN turns' <=> \E d \in Client : t \in InUse(d)'
      <4>1. t \in DOMAIN turns <=> \E d \in Client : t \in InUse(d)
        BY <2>1 DEF BooksAgree
      <4>2. \A d \in Client : t \in InUse(d)' <=> t \in InUse(d) /\ t # s
        BY <1>9, <2>2
      <4> QED
        BY <1>4, <4>1, <4>2
    <3> QED
      BY <3>1
  <2>4. \A d \in Client : Len(active'[d]) = Cardinality(InUse(d)')
    BY <1>8, <1>11, CountListed DEF InUse, ListedOnce
  <2>5. \A d \in Client : Len(active'[d]) <= MaxActive
    <3> TAKE d \in Client
    <3>1. Len(active[d]) <= MaxActive /\ Len(active[d]) \in Nat /\ MaxActive \in Nat
      BY <1>5, <2>1, LenProperties, SessionsAssumption DEF BooksAgree
    <3> QED
      BY <3>1, <1>7, <1>8 DEF IsRemoved
  <2>6. \A d, e \in Client : d # e => InUse(d)' \cap InUse(e)' = {}
    BY <1>9, <2>1 DEF BooksAgree
  <2>7. DOMAIN turns' = DOMAIN meta'
    BY <1>4, <2>1 DEF BooksAgree
  <2> QED
    BY <2>3, <2>4, <2>5, <2>6, <2>7 DEF BooksAgree
<1>13. OnlyFinishedLinger' /\ KeysDiffer(userOf)'
  BY <1>1 DEF EventRecorded
<1>14. FutureIsBlank'
  <2>1. FutureIsBlank /\ s <= opened /\ opened' = opened
    BY <1>2 DEF SessionIInv, FutureIsBlank
  <2>2. \A t \in DOMAIN turns' : t <= opened'
    BY <1>4, <2>1 DEF FutureIsBlank
  <2>3. \A i \in DOMAIN userOf' : userOf'[i][1] <= opened'
    BY <1>1, <2>1 DEF FutureIsBlank, EventRecorded
  <2>4. \A t \in Session : t > opened' => history'[t] = NoEvents
    BY <1>1, <1>2, <2>1 DEF FutureIsBlank, EventRecorded, SessionIInv, SessionTypeOK, Session
  <2> QED
    BY <2>2, <2>3, <2>4 DEF FutureIsBlank
<1>15. HistoryIsCurrent'
  <2>1. DOMAIN turns = DOMAIN meta /\ HistoryIsCurrent
    BY DEF SessionIInv, BooksAgree
  <2>2. \A t \in DOMAIN turns' : t \in Session /\ t # s
    BY <1>4, TableEntries DEF SessionIInv
  <2> QED
    BY <1>1, <1>4, <2>1, <2>2 DEF EventRecorded, HistoryIsCurrent
<1>16. ActiveHasUser'
  <2>1. userOf \in Seq(Entry) /\ KeysDiffer(userOf)
    BY DEF SessionIInv, SessionTypeOK, Entry
  <2>2. IsForgotten(Forget(userOf, s), userOf, s)
    BY <2>1, Forgotten
  <2>3. \A t \in DOMAIN turns' : t # s /\ (HasUser(userOf, t) \/ t \in evicted)
    BY <1>4 DEF SessionIInv, ActiveHasUser
  <2> QED
    BY <1>1, <2>2, <2>3 DEF ActiveHasUser, EventRecorded, IsForgotten
<1> QED
  BY <1>10, <1>11, <1>12, <1>13, <1>14, <1>15, <1>16 DEF SessionIInv

(* What the cap on the active sessions of a client takes away before a     *)
(* session is opened: nothing, or the oldest one with all its entries.     *)
RoomFor(c, list, closed, map) ==
  /\ list \in Seq(Session) /\ Len(list) < MaxActive
  /\ \A i, k \in DOMAIN list : i # k => list[i] # list[k]
  /\ Range(list) = InUse(c) \ closed /\ closed \subseteq InUse(c)
  /\ map \in Seq(Entry) /\ Len(map) <= MaxUsers /\ KeysDiffer(map)
  /\ \A i \in DOMAIN map : map[i] \in Range(userOf) /\ map[i][1] \notin closed
  /\ \A t : t \notin closed /\ HasUser(userOf, t) => HasUser(map, t)

LEMMA RoomMade ==
  ASSUME SessionIInv, NEW c \in Client
  PROVE  LET over == Len(active[c]) >= MaxActive
         IN  RoomFor(c, IF over THEN Tail(active[c]) ELSE active[c],
                     IF over THEN {Head(active[c])} ELSE {},
                     IF over THEN Forget(userOf, Head(active[c])) ELSE userOf)
<1> DEFINE s == active[c]
<1>1. /\ s \in Seq(Session) /\ Len(s) \in Nat /\ MaxActive \in Nat \ {0}
      /\ MaxUsers \in Nat
  BY LenProperties, SessionsAssumption DEF SessionIInv, SessionTypeOK
<1>2. \A i, k \in DOMAIN s : i # k => s[i] # s[k]
  BY DEF SessionIInv, ListedOnce
<1>3. Len(s) <= MaxActive
  BY DEF SessionIInv, BooksAgree
<1>4. userOf \in Seq(Entry) /\ KeysDiffer(userOf) /\ Len(userOf) <= MaxUsers
  BY DEF SessionIInv, SessionTypeOK, Entry
<1>5. InUse(c) = Range(s)
  BY DEF InUse
<1>6. CASE Len(s) >= MaxActive
  <2> DEFINE h == Head(s)
             map == Forget(userOf, h)
  <2>1. s # <<>>
    BY <1>1, <1>6, EmptySeq
  <2>2. Tail(s) \in Seq(Session) /\ IsRemoved(Tail(s), s, h) /\ h \in Range(s)
    BY <1>1, <1>2, <2>1, HeadRemoved
  <2>3. map \in Seq(Entry) /\ IsForgotten(map, userOf, h)
    BY <1>4, Forgotten
  <2> HIDE DEF h, map, s
  <2>4. Len(map) <= MaxUsers
    BY <1>1, <1>4, <2>3, LenProperties DEF IsForgotten
  <2>5. Len(Tail(s)) < MaxActive
    BY <1>1, <1>3, <2>2 DEF IsRemoved
  <2>6. RoomFor(c, Tail(s), {h}, map)
    BY <1>5, <2>2, <2>3, <2>4, <2>5 DEF RoomFor, IsRemoved, IsForgotten
  <2> QED
    BY <1>6, <2>6 DEF h, map, s
<1>7. CASE ~(Len(s) >= MaxActive)
  <2> HIDE DEF s
  <2>1. \A i \in DOMAIN userOf : userOf[i] \in Range(userOf)
    BY DEF Range
  <2>2. Len(s) < MaxActive
    BY <1>1, <1>7
  <2>3. RoomFor(c, s, {}, userOf)
    BY <1>1, <1>2, <1>4, <1>5, <2>1, <2>2 DEF RoomFor
  <2> QED
    BY <1>7, <2>3 DEF s
<1> QED
  BY <1>6, <1>7

(* What opening a session does once there is room.                         *)
OpenWith(c, limit, list, closed, map) ==
  /\ opened < MaxSessions /\ opened' = opened + 1
  /\ active' = [active EXCEPT ![c] = Append(list, opened')]
  /\ meta' = With(Without(meta, closed), opened', limit)
  /\ turns' = With(Without(turns, closed), opened', 1)
  /\ UserForSession(c, opened', 1, limit, map)

LEMMA OpenMakesRoom ==
  ASSUME SessionIInv, NEW c \in Client, Open(c)
  PROVE  \E limit \in 2 .. MaxTurns : \E list, closed, map :
           RoomFor(c, list, closed, map) /\ OpenWith(c, limit, list, closed, map)
<1> DEFINE over == Len(active[c]) >= MaxActive
           list == IF over THEN Tail(active[c]) ELSE active[c]
           closed == IF over THEN {Head(active[c])} ELSE {}
           map == IF over THEN Forget(userOf, Head(active[c])) ELSE userOf
<1>1. RoomFor(c, list, closed, map)
  BY RoomMade
<1>2. PICK limit \in 2 .. MaxTurns :
        /\ meta' = With(Without(meta, closed), opened', limit)
        /\ turns' = With(Without(turns, closed), opened', 1)
        /\ UserForSession(c, opened', 1, limit, map)
  BY DEF Open
<1>3. /\ opened < MaxSessions /\ opened' = opened + 1
      /\ active' = [active EXCEPT ![c] = Append(list, opened')]
  BY DEF Open
<1> HIDE DEF over, list, closed, map
<1>4. OpenWith(c, limit, list, closed, map)
  BY <1>2, <1>3 DEF OpenWith
<1> QED
  BY <1>1, <1>4

(* A new session's number is in no table yet.                              *)
LEMMA NewSession ==
  ASSUME SessionIInv, opened < MaxSessions
  PROVE  /\ opened + 1 \in Session /\ opened \in Nat
         /\ opened + 1 \notin DOMAIN turns /\ opened + 1 \notin DOMAIN meta
         /\ \A c \in Client : opened + 1 \notin InUse(c)
         /\ \A i \in DOMAIN userOf : userOf[i][1] # opened + 1
         /\ history[opened + 1] = NoEvents
<1>1. opened \in Nat /\ opened + 1 \in Session /\ opened + 1 > opened
  BY SessionsAssumption DEF SessionIInv, SessionTypeOK, Session
<1>2. \A s \in DOMAIN turns : s # opened + 1
  BY <1>1 DEF SessionIInv, FutureIsBlank
<1>3. \A i \in DOMAIN userOf : userOf[i][1] # opened + 1
  BY <1>1 DEF SessionIInv, FutureIsBlank
<1>4. history[opened + 1] = NoEvents
  BY <1>1 DEF SessionIInv, FutureIsBlank
<1> QED
  BY <1>1, <1>2, <1>3, <1>4 DEF SessionIInv, BooksAgree

(* The tables after a session was opened.                                  *)
IsOpened(g, f, s, closed, v) ==
  /\ DOMAIN g = (DOMAIN f \ closed) \cup {s} /\ g[s] = v
  /\ \A t \in DOMAIN f \ closed : t # s => g[t] = f[t]
  /\ Range(g) \subseteq Range(f) \cup {v}

LEMMA OpenedTable ==
  ASSUME NEW f, NEW s, NEW closed, NEW v
  PROVE  IsOpened(With(Without(f, closed), s, v), f, s, closed, v)
<1> DEFINE h == Without(f, closed)
           g == With(h, s, v)
<1>1. IsWithout(h, f, closed)
  BY WithoutProperties
<1>2. IsWith(g, h, s, v)
  BY WithProperties
<1> HIDE DEF h, g
<1>3. IsOpened(g, f, s, closed, v)
  BY <1>1, <1>2 DEF IsWith, IsWithout, IsOpened
<1> QED
  BY <1>3 DEF g, h

LEMMA OpenRecorded ==
  ASSUME SessionIInv, NEW c \in Client, NEW limit \in 2 .. MaxTurns,
         NEW list, NEW closed, NEW map,
         RoomFor(c, list, closed, map), OpenWith(c, limit, list, closed, map)
  PROVE  EventRecorded(opened + 1, 1, limit, map)
<1> DEFINE s == opened + 1
<1>1. s \in Session
  BY NewSession DEF OpenWith
<1>2. MaxTurns \in Nat /\ MaxTurns >= 2
  BY SessionsAssumption
<1>3. 1 \in 1 .. MaxTurns
  BY <1>2
<1>4. UserForSession(c, s, 1, limit, map) /\ turns' = With(Without(turns, closed), s, 1)
  BY DEF OpenWith
<1> HIDE DEF s
<1>5. IsOpened(turns', turns, s, closed, 1)
  BY <1>4, OpenedTable
<1>6. s \in DOMAIN turns' /\ DOMAIN turns \ closed \subseteq DOMAIN turns'
  BY <1>5 DEF IsOpened
<1>7. /\ map \in Seq(Entry) /\ KeysDiffer(map) /\ Len(map) <= MaxUsers
      /\ \A i \in DOMAIN map : map[i] \in Range(userOf) /\ map[i][1] \notin closed
  BY DEF RoomFor
<1>8. \A i \in DOMAIN map :
        map[i][1] \in DOMAIN turns => map[i][1] \in DOMAIN turns' \/ map[i][1] = s
  BY <1>6, <1>7
<1>9. EventRecorded(s, 1, limit, map)
  BY <1>1, <1>3, <1>4, <1>6, <1>7, <1>8, AfterEvent
<1> QED
  BY <1>9 DEF s

LEMMA OpenOK ==
  ASSUME SessionIInv, NEW c \in Client, NEW limit \in 2 .. MaxTurns,
         NEW list, NEW closed, NEW map,
         RoomFor(c, list, closed, map), OpenWith(c, limit, list, closed, map)
  PROVE  SessionIInv'
<1> DEFINE s == opened + 1
           list2 == Append(list, s)
<1>1. EventRecorded(s, 1, limit, map)
  BY OpenRecorded
<1>2. /\ s \in Session /\ opened \in Nat /\ opened' = s
      /\ s \notin DOMAIN turns /\ s \notin DOMAIN meta
      /\ \A d \in Client : s \notin InUse(d)
  BY NewSession DEF OpenWith
<1>3. /\ IsOpened(turns', turns, s, closed, 1)
      /\ IsOpened(meta', meta, s, closed, limit)
  BY OpenedTable DEF OpenWith
<1>4. active' = [active EXCEPT ![c] = list2]
  BY DEF OpenWith
<1>5. active \in [Client -> Seq(Session)]
  BY DEF SessionIInv, SessionTypeOK
<1>6. /\ list \in Seq(Session) /\ \A i, k \in DOMAIN list : i # k => list[i] # list[k]
      /\ Range(list) = InUse(c) \ closed /\ closed \subseteq InUse(c)
      /\ Len(list) < MaxActive
  BY DEF RoomFor
<1>7. list2 \in Seq(Session) /\ IsAppended(list2, list, s)
  <2>1. s \notin Range(list)
    BY <1>2, <1>6
  <2> HIDE DEF s
  <2> QED
    BY <1>2, <1>6, <2>1, Appended
<1>8. s > opened /\ s \in Nat /\ 1 \in 1 .. MaxTurns /\ 1 < limit /\ s \in 0 .. MaxSessions
  BY <1>2, SessionsAssumption DEF Session
<1>9. \A t \in Nat : t > s => t > opened
  BY <1>2
<1>10. \A t \in Nat : t <= opened => t <= s
  BY <1>2
<1> HIDE DEF s, list2
<1>11. /\ active' \in [Client -> Seq(Session)] /\ active'[c] = list2
       /\ \A d \in Client : d # c => active'[d] = active[d]
  BY <1>4, <1>5, <1>7
<1>12. /\ InUse(c)' = (InUse(c) \ closed) \cup {s}
       /\ \A d \in Client : d # c => InUse(d)' = InUse(d)
  BY <1>6, <1>7, <1>11 DEF InUse, IsAppended
<1>13. /\ DOMAIN turns' = (DOMAIN turns \ closed) \cup {s}
       /\ DOMAIN meta' = (DOMAIN meta \ closed) \cup {s}
       /\ turns'[s] = 1 /\ meta'[s] = limit
       /\ \A t \in DOMAIN turns \ closed : t # s => turns'[t] = turns[t]
       /\ \A t \in DOMAIN meta \ closed : t # s => meta'[t] = meta[t]
  BY <1>3 DEF IsOpened
<1>14. SessionTypeOK'
  BY <1>1, <1>2, <1>3, <1>8, <1>11 DEF SessionIInv, SessionTypeOK, EventRecorded, Entry, IsOpened
<1>15. ListedOnce'
  BY <1>7, <1>11 DEF SessionIInv, ListedOnce, IsAppended
<1>16. BooksAgree'
  <2>1. BooksAgree
    BY DEF SessionIInv
  <2>2. \A d \in Client : d # c => InUse(d) \cap closed = {}
    BY <1>6, <2>1 DEF BooksAgree
  <2>3. DOMAIN turns' = UNION {InUse(d)' : d \in Client}
    <3>1. ASSUME NEW t PROVE t \in DOMAIN turns' <=> \E d \in Client : t \in InUse(d)'
      <4>1. t \in DOMAIN turns <=> \E d \in Client : t \in InUse(d)
        BY <2>1 DEF BooksAgree
      <4>2. \A d \in Client :
              t \in InUse(d)' <=> (t \in InUse(d) /\ t \notin closed) \/ (d = c /\ t = s)
        BY <1>12, <2>2
      <4>3. t \in DOMAIN turns' <=> (t \in DOMAIN turns /\ t \notin closed) \/ t = s
        BY <1>13
      <4> QED
        BY <4>1, <4>2, <4>3
    <3> QED
      BY <3>1
  <2>4. \A d \in Client : Len(active'[d]) = Cardinality(InUse(d)')
    BY <1>11, <1>15, CountListed DEF InUse, ListedOnce
  <2>5. \A d \in Client : Len(active'[d]) <= MaxActive
    <3> TAKE d \in Client
    <3>1. Len(active[d]) <= MaxActive
      BY <2>1 DEF BooksAgree
    <3>2. Len(list) + 1 <= MaxActive
      BY <1>6, LenProperties, SessionsAssumption
    <3> QED
      BY <3>1, <3>2, <1>7, <1>11 DEF IsAppended
  <2>6. \A d, e \in Client : d # e => InUse(d)' \cap InUse(e)' = {}
    BY <1>2, <1>12, <2>1 DEF BooksAgree
  <2>7. DOMAIN turns' = DOMAIN meta'
    BY <1>13, <2>1 DEF BooksAgree
  <2> QED
    BY <2>3, <2>4, <2>5, <2>6, <2>7 DEF BooksAgree
<1>17. OnlyFinishedLinger' /\ KeysDiffer(userOf)'
  BY <1>1 DEF EventRecorded
<1>18. FutureIsBlank'
  <2>1. FutureIsBlank
    BY DEF SessionIInv
  <2>2. \A t \in DOMAIN turns' : t <= opened'
    BY <1>2, <1>8, <1>10, <1>13, <2>1, TableEntries DEF FutureIsBlank, SessionIInv, Session
  <2>3. \A i \in DOMAIN userOf' : userOf'[i][1] <= opened'
    <3> TAKE i \in DOMAIN userOf'
    <3>1. CASE userOf'[i][1] = s
      BY <3>1, <1>2, <1>8
    <3>2. CASE \E k \in DOMAIN userOf : userOf[k][1] = userOf'[i][1]
      <4>1. PICK k \in DOMAIN userOf : userOf[k][1] = userOf'[i][1]
        BY <3>2
      <4>2. userOf \in Seq(Entry)
        BY DEF SessionIInv, SessionTypeOK, Entry
      <4>3. userOf[k] \in Entry
        BY <4>2, LenProperties, ElementOfSeq
      <4>4. userOf[k][1] \in Nat /\ userOf[k][1] <= opened
        BY <2>1, <4>3 DEF FutureIsBlank, Entry, Session
      <4> QED
        BY <4>1, <4>4, <1>2, <1>10
    <3> QED
      BY <3>1, <3>2, <1>1 DEF EventRecorded
  <2>4. \A t \in Session : t > opened' => history'[t] = NoEvents
    BY <1>1, <1>2, <1>8, <1>9, <2>1 DEF FutureIsBlank, EventRecorded, Session
  <2> QED
    BY <2>2, <2>3, <2>4 DEF FutureIsBlank
<1>19. HistoryIsCurrent'
  <2> SUFFICES ASSUME NEW t \in DOMAIN turns'
               PROVE  history'[t].turn = turns'[t] /\ history'[t].of = meta'[t] /\ turns'[t] < meta'[t]
    BY DEF HistoryIsCurrent
  <2>1. CASE t = s
    BY <2>1, <1>1, <1>8, <1>13 DEF EventRecorded
  <2>2. CASE t # s
    <3>1. t \in DOMAIN turns \ closed /\ t \in DOMAIN meta \ closed /\ t \in Session
      BY <2>2, <1>13, TableEntries DEF SessionIInv, BooksAgree
    <3>2. turns'[t] = turns[t] /\ meta'[t] = meta[t] /\ history'[t] = history[t]
      BY <2>2, <3>1, <1>1, <1>13 DEF EventRecorded
    <3> QED
      BY <3>1, <3>2 DEF SessionIInv, HistoryIsCurrent
  <2> QED
    BY <2>1, <2>2
<1>20. ActiveHasUser'
  <2>1. \A t \in DOMAIN turns \ closed : HasUser(map, t) \/ t \in evicted
    BY DEF SessionIInv, ActiveHasUser, RoomFor
  <2> QED
    BY <1>1, <1>13, <2>1 DEF ActiveHasUser, EventRecorded
<1> QED
  BY <1>14, <1>15, <1>16, <1>17, <1>18, <1>19, <1>20 DEF SessionIInv

LEMMA SessionStutterOK ==
  ASSUME SessionIInv, UNCHANGED sessionVars
  PROVE  SessionIInv'
<1>1. UNCHANGED <<opened, active, turns, meta, userOf, latest, history, evicted>>
  BY DEF sessionVars, books
<1>2. \A c : InUse(c)' = InUse(c)
  BY <1>1 DEF InUse
<1>3. SessionTypeOK' /\ BooksAgree'
  BY <1>1, <1>2 DEF SessionIInv, SessionTypeOK, BooksAgree
<1>4. OnlyFinishedLinger' /\ ListedOnce' /\ KeysDiffer(userOf)'
  BY <1>1 DEF SessionIInv, OnlyFinishedLinger, ListedOnce, KeysDiffer
<1>5. FutureIsBlank' /\ HistoryIsCurrent' /\ ActiveHasUser'
  BY <1>1 DEF SessionIInv, FutureIsBlank, HistoryIsCurrent, ActiveHasUser, NoEvents
<1> QED
  BY <1>3, <1>4, <1>5 DEF SessionIInv

(* The turn count, the limit, the list and the user of every session agree *)
(* in all states, whatever the clients, the caps and the draws             *)
(* (_get_or_create_session, _close_session, _user_for_session).            *)
THEOREM SessionInvariant == SessionSpec => []SessionIInv
<1>1. SessionIInv /\ [SessionNext]_sessionVars => SessionIInv'
  <2> SUFFICES ASSUME SessionIInv, [SessionNext]_sessionVars PROVE SessionIInv'
    OBVIOUS
  <2>1. ASSUME NEW c \in Client, Continue(c) PROVE SessionIInv'
    <3>1. PICK s \in InUse(c) :
            IF turns[s] + 1 >= meta[s] THEN LastTurn(c, s) ELSE NextTurn(c, s)
      BY <2>1 DEF Continue
    <3>2. UNCHANGED opened
      BY <2>1 DEF Continue
    <3>3. CASE turns[s] + 1 >= meta[s]
      BY <3>1, <3>2, <3>3, LastTurnOK
    <3>4. CASE ~(turns[s] + 1 >= meta[s])
      <4>1. turns[s] + 1 < meta[s]
        BY <3>4, SessionInUse
      <4> QED
        BY <3>1, <3>2, <3>4, <4>1, NextTurnOK
    <3> QED
      BY <3>3, <3>4
  <2>2. ASSUME NEW c \in Client, Open(c) PROVE SessionIInv'
    <3>1. PICK limit \in 2 .. MaxTurns : \E list, closed, map :
            RoomFor(c, list, closed, map) /\ OpenWith(c, limit, list, closed, map)
      BY <2>2, OpenMakesRoom
    <3> QED
      BY <3>1, OpenOK
  <2>3. CASE UNCHANGED sessionVars
    BY <2>3, SessionStutterOK
  <2> QED
    BY <2>1, <2>2, <2>3 DEF SessionNext
<1> QED
  BY SessionInitOK, <1>1, PTL DEF SessionSpec

(* The tables' contents stay in their ranges.                              *)
THEOREM SessionTypes == SessionSpec => []SessionTypeOK
BY SessionInvariant, PTL DEF SessionIInv

(* The four tables of _close_session never disagree.                       *)
THEOREM TablesAgree == SessionSpec => []BooksAgree
BY SessionInvariant, PTL DEF SessionIInv

(* What is left in the user map of sessions no longer active is what their *)
(* last turn wrote: the cap on active sessions leaks no entry.             *)
THEOREM NothingLeaks == SessionSpec => []OnlyFinishedLinger
BY SessionInvariant, PTL DEF SessionIInv

(* What a step makes of the last event.                                    *)
EventOfStep(s) ==
  /\ latest'.session = s /\ latest'.turn = history[s].turn + 1
  /\ latest'.turn <= latest'.of
  /\ history[s].turn > 0 /\ latest'.user # history[s].user
       => latest'.turn = latest'.of \/ s \in evicted

LEMMA StepEvent ==
  ASSUME SessionIInv, SessionNext
  PROVE  \E s \in Session : EventOfStep(s)
<1>1. ASSUME NEW c \in Client, NEW s \in InUse(c), turns[s] + 1 >= meta[s], LastTurn(c, s)
      PROVE  EventOfStep(s)
  <2>1. EventRecorded(s, turns[s] + 1, meta[s], Forget(userOf, s))
    BY <1>1, LastTurnRecorded
  <2> QED
    BY <2>1, <1>1, SessionInUse DEF EventRecorded, EventOfStep
<1>2. ASSUME NEW c \in Client, NEW s \in InUse(c), turns[s] + 1 < meta[s], NextTurn(c, s)
      PROVE  EventOfStep(s)
  <2>1. EventRecorded(s, turns[s] + 1, meta[s], userOf)
    BY <1>2, NextTurnRecorded
  <2>2. /\ latest'.session = s /\ latest'.turn = history[s].turn + 1
        /\ latest'.turn <= latest'.of
    BY <2>1, <1>2, SessionInUse DEF EventRecorded
  <2>3. ASSUME s \notin evicted PROVE latest'.user = history[s].user
    <3>1. HasUser(userOf, s)
      BY <2>3, SessionInUse DEF SessionIInv, ActiveHasUser
    <3>2. PICK i \in DOMAIN userOf : userOf[i][1] = s
      BY <3>1 DEF HasUser
    <3>3. latest'.user = userOf[i][2]
      BY <2>1, <3>2 DEF EventRecorded
    <3>4. KeysDiffer(userOf)
      BY DEF SessionIInv
    <3>5. UserIn(userOf, s) = userOf[i][2]
      BY <3>2, <3>4, EntryIs
    <3>6. UserIn(userOf, s) = history[s].user
      BY <3>2 DEF SessionIInv, OnlyFinishedLinger
    <3> QED
      BY <3>3, <3>5, <3>6
  <2> QED
    BY <2>2, <2>3 DEF EventOfStep
<1>3. ASSUME NEW c \in Client, Open(c) PROVE EventOfStep(opened + 1)
  <2>1. PICK limit \in 2 .. MaxTurns : \E list, closed, map :
          RoomFor(c, list, closed, map) /\ OpenWith(c, limit, list, closed, map)
    BY <1>3, OpenMakesRoom
  <2>2. PICK map : EventRecorded(opened + 1, 1, limit, map)
    BY <2>1, OpenRecorded
  <2>3. history[opened + 1].turn = 0
    BY <1>3, NewSession DEF Open, NoEvents
  <2> HIDE DEF EventOfStep
  <2>4. /\ latest'.session = opened + 1 /\ latest'.turn = 1 /\ latest'.of = limit
    BY <2>2 DEF EventRecorded
  <2> QED
    BY <2>3, <2>4, SessionsAssumption DEF EventOfStep
<1>4. ASSUME NEW c \in Client, Continue(c) PROVE \E s \in Session : EventOfStep(s)
  <2>1. PICK s \in InUse(c) :
          IF turns[s] + 1 >= meta[s] THEN LastTurn(c, s) ELSE NextTurn(c, s)
    BY <1>4 DEF Continue
  <2>2. s \in Session /\ (turns[s] + 1 >= meta[s] \/ turns[s] + 1 < meta[s])
    BY SessionInUse
  <2>3. EventOfStep(s)
    BY <2>1, <2>2, <1>1, <1>2, SessionInUse
  <2> QED
    BY <2>2, <2>3
<1>5. ASSUME NEW c \in Client, Open(c) PROVE \E s \in Session : EventOfStep(s)
  BY <1>3, <1>5, NewSession DEF Open
<1> QED
  BY <1>4, <1>5 DEF SessionNext

(* A session's events count 1, 2, 3, ... up to its limit.                  *)
THEOREM TurnsCount == SessionSpec => TurnsAreConsecutive
<1>1. SessionIInv /\ [SessionNext]_sessionVars =>
        [ /\ latest'.turn = history[latest'.session].turn + 1
          /\ latest'.turn <= latest'.of ]_<<latest, history>>
  <2>1. SessionIInv /\ SessionNext => /\ latest'.turn = history[latest'.session].turn + 1
                                      /\ latest'.turn <= latest'.of
    BY StepEvent DEF EventOfStep
  <2>2. UNCHANGED sessionVars => UNCHANGED <<latest, history>>
    BY DEF sessionVars
  <2> QED
    BY <2>1, <2>2
<1> QED
  BY <1>1, SessionInvariant, PTL DEF SessionSpec, TurnsAreConsecutive

(* The user of a session changes on its last turn, or because the cap on   *)
(* the user map took its entry; never otherwise.                           *)
THEOREM UserKept == SessionSpec => UserChangesOnlyAtTheEnd
<1>1. SessionIInv /\ [SessionNext]_sessionVars =>
        [ history[latest'.session].turn > 0 /\ latest'.user # history[latest'.session].user
            => latest'.turn = latest'.of \/ latest'.session \in evicted ]_<<latest, history>>
  <2>1. SessionIInv /\ SessionNext =>
          (history[latest'.session].turn > 0 /\ latest'.user # history[latest'.session].user
            => latest'.turn = latest'.of \/ latest'.session \in evicted)
    BY StepEvent DEF EventOfStep
  <2>2. UNCHANGED sessionVars => UNCHANGED <<latest, history>>
    BY DEF sessionVars
  <2> QED
    BY <2>1, <2>2
<1> QED
  BY <1>1, SessionInvariant, PTL DEF SessionSpec, UserChangesOnlyAtTheEnd

-----------------------------------------------------------------------------
(* EventAssembly.                                                          *)

EventRecord ==
  [prompt : Nat, completion : Nat, cache : Nat, total : Nat, latency : Nat,
   status : Status, streaming : BOOLEAN, queue : Nat, first : Nat,
   stream : Nat, inference : Nat, cost : Nat, spend : Nat, exhausted : BOOLEAN]

(* The operators on numbers stay among the natural numbers.                *)
LEMMA MostFewest ==
  ASSUME NEW a \in Nat, NEW b \in Int
  PROVE  /\ Most(a, b) \in Nat /\ Most(a, b) >= a /\ Most(a, b) >= b
         /\ Most(a, b) = a \/ Most(a, b) = b
         /\ b \in Nat => Fewest(a, b) \in Nat
BY DEF Most, Fewest

LEMMA ProductNat ==
  ASSUME NEW a \in Nat, NEW b \in Nat
  PROVE  a * b \in Nat
OBVIOUS

(* Degradation can only add to a latency.                                  *)
LEMMA Slowed ==
  ASSUME NEW a \in Nat, NEW b \in Nat, NEW factor \in {1, 3}
  PROVE  factor * (a + b) \in Nat /\ factor * (a + b) >= a
<1>1. CASE factor = 1
  BY <1>1
<1>2. CASE factor = 3
  BY <1>2
<1> QED
  BY <1>1, <1>2

(* Cached tokens can only add to a cost.                                   *)
LEMMA CostProperties ==
  ASSUME NEW p \in Nat, NEW o \in Nat, NEW k \in Nat
  PROVE  /\ CalculateCost(p, o, k) \in Nat
         /\ CalculateCost(p, o, k) >= CalculateCost(p, o, 0)
<1>1. CostInput \in Nat /\ CostOutput \in Nat /\ CostCache \in Nat
  BY EventAssumption
<1> DEFINE a == p * CostInput
           b == o * CostOutput
           d == k * CostCache
<1>2. a \in Nat /\ b \in Nat /\ d \in Nat
  BY <1>1, ProductNat
<1>3. 0 * CostCache = 0
  BY <1>1
<1> HIDE DEF a, b, d
<1>4. a + b + d \in Nat /\ a + b + d >= a + b + 0
  BY <1>2
<1> QED
  BY <1>3, <1>4 DEF CalculateCost, a, b, d

LEMMA EventInitOK == EventInit => EventIInv
<1> SUFFICES ASSUME EventInit PROVE EventIInv
  OBVIOUS
<1> USE DEF EventInit, Blank
<1>1. EventTypeOK
  BY DEF EventTypeOK, Status
<1>2. LatencyHoldsFirstToken /\ StreamsOnSuccess /\ PhasesAreSplit
  BY DEF LatencyHoldsFirstToken, StreamsOnSuccess, PhasesAreSplit
<1>3. TotalIsTaken /\ CostIsCharged /\ SpendIsTold /\ OverBudgetIsFlagged
  BY DEF TotalIsTaken, CostIsCharged, SpendIsTold, OverBudgetIsFlagged
<1> QED
  BY <1>1, <1>2, <1>3 DEF EventIInv

LEMMA DrawOK ==
  ASSUME EventIInv, Draw
  PROVE  EventIInv'
<1>0. Token \subseteq Nat /\ Time \subseteq Nat /\ Window \in Nat /\ FirstFloor \in Nat
  BY EventAssumption
<1>01. PICK drawn \in Token, completion \in Token, factor \in {1, 3}, first \in Time,
            rest \in Time :
         \E cache \in {0} \cup {Fewest(t, Fewest(drawn, Window)) : t \in Token} :
           /\ ttft' = Most(FirstFloor, first)
           /\ ev' = [Blank EXCEPT !.prompt = Fewest(drawn, Window), !.completion = completion,
                                  !.cache = cache, !.latency = factor * (ttft' + rest)]
  BY DEF Draw
<1>1. PICK cache \in {0} \cup {Fewest(t, Fewest(drawn, Window)) : t \in Token} :
        /\ ttft' = Most(FirstFloor, first)
        /\ ev' = [Blank EXCEPT !.prompt = Fewest(drawn, Window), !.completion = completion,
                               !.cache = cache, !.latency = factor * (ttft' + rest)]
  BY <1>01
<1>2. ttft' \in Nat
  BY <1>0, <1>1, MostFewest
<1>3. Fewest(drawn, Window) \in Nat /\ cache \in Nat /\ completion \in Nat
  BY <1>0, <1>1, MostFewest
<1> DEFINE latency == factor * (ttft' + rest)
<1>4. latency \in Nat /\ latency >= ttft' /\ ttft' >= FirstFloor
  <2>1. rest \in Nat
    BY <1>0
  <2>2. ttft' >= FirstFloor
    BY <1>0, <1>1, MostFewest
  <2> QED
    BY <1>2, <2>1, <2>2, Slowed
<1>5. ev' = [Blank EXCEPT !.prompt = Fewest(drawn, Window), !.completion = completion,
                          !.cache = cache, !.latency = latency]
  BY <1>1
<1> HIDE DEF latency
<1>6. /\ ev' \in EventRecord /\ ev'.latency = latency /\ ev'.streaming = FALSE
      /\ ev'.first = 0 /\ ev'.stream = 0
  BY <1>3, <1>4, <1>5 DEF Blank, EventRecord, Status
<1>7. at' = "outcome" /\ at = "draw" /\ UNCHANGED <<mockMode, spent, told, events>>
  BY DEF Draw
<1>8. EventTypeOK'
  BY <1>2, <1>6, <1>7 DEF EventIInv, EventTypeOK, EventRecord
<1>9. LatencyHoldsFirstToken' /\ StreamsOnSuccess' /\ PhasesAreSplit'
  BY <1>4, <1>6, <1>7 DEF LatencyHoldsFirstToken, StreamsOnSuccess, PhasesAreSplit
<1>10. TotalIsTaken' /\ CostIsCharged' /\ OverBudgetIsFlagged'
  BY <1>7 DEF TotalIsTaken, CostIsCharged, OverBudgetIsFlagged
<1>11. SpendIsTold'
  BY <1>7 DEF EventIInv, SpendIsTold
<1> QED
  BY <1>8, <1>9, <1>10, <1>11 DEF EventIInv

LEMMA SimulateErrorOK ==
  ASSUME EventIInv, SimulateError
  PROVE  EventIInv'
<1>0. Time \subseteq Nat /\ RejectedFloor \in Nat /\ ServerFloor \in Nat
  BY EventAssumption
<1> DEFINE lat(status, time) == CASE status = "success"  -> ev.latency
                                  [] status = "timeout"  -> time
                                  [] status = "rejected" -> Most(RejectedFloor, time)
                                  [] status = "server"   ->
                                       Most(ServerFloor, Fewest(ev.latency, time))
           com(status) == CASE status = "success" -> ev.completion
                            [] status = "timeout" -> Most(1, ev.completion \div 4)
                            [] OTHER              -> 0
<1>1. PICK status \in Status, time \in Time :
        ev' = [ev EXCEPT !.status = status, !.latency = lat(status, time),
                         !.completion = com(status),
                         !.total = ev.prompt + com(status) + ev.cache]
  BY DEF SimulateError
<1> DEFINE latency == lat(status, time)
           completion == com(status)
<1>2. /\ at = "outcome" /\ at' = "phases"
      /\ UNCHANGED <<mockMode, ttft, spent, told, events>>
  BY DEF SimulateError
<1>3. ev \in EventRecord
  BY DEF EventIInv, EventTypeOK, EventRecord
<1>4. ev.latency \in Nat /\ ev.completion \in Nat /\ ev.prompt \in Nat /\ ev.cache \in Nat
  BY <1>3 DEF EventRecord
<1>5. latency \in Nat
  <2>1. time \in Nat
    BY <1>0
  <2>2. Fewest(ev.latency, time) \in Nat
    BY <1>4, <2>1 DEF Fewest
  <2>3. Most(ServerFloor, Fewest(ev.latency, time)) \in Nat /\ Most(RejectedFloor, time) \in Nat
    BY <1>0, <2>1, <2>2 DEF Most
  <2> QED
    BY <1>1, <1>4, <2>1, <2>3 DEF Status
<1>6. completion \in Nat
  <2>1. ev.completion \div 4 \in Nat
    BY <1>4
  <2>2. Most(1, ev.completion \div 4) \in Nat
    BY <2>1 DEF Most
  <2> QED
    BY <1>4, <2>2
<1>7. status = "success" => latency = ev.latency
  OBVIOUS
<1>71. ev' = [ev EXCEPT !.status = status, !.latency = latency, !.completion = completion,
                        !.total = ev.prompt + completion + ev.cache]
  BY <1>1
<1>72. ev.prompt + completion + ev.cache \in Nat
  BY <1>4, <1>6
<1> HIDE DEF lat, com, latency, completion
<1>8. /\ ev' \in EventRecord /\ ev'.latency = latency /\ ev'.status = status
      /\ ev'.streaming = ev.streaming /\ ev'.first = ev.first /\ ev'.stream = ev.stream
      /\ ev'.prompt = ev.prompt /\ ev'.completion = completion /\ ev'.cache = ev.cache
      /\ ev'.total = ev.prompt + completion + ev.cache
  BY <1>71, <1>72, <1>3, <1>4, <1>5, <1>6 DEF EventRecord
<1>9. /\ ev.streaming = FALSE /\ ev.latency >= ttft /\ ttft >= FirstFloor
      /\ ev.first = 0 /\ ev.stream = 0
  BY <1>2, <1>3 DEF EventIInv, StreamsOnSuccess, LatencyHoldsFirstToken, PhasesAreSplit,
                    EventRecord
<1>10. EventTypeOK'
  BY <1>2, <1>8 DEF EventIInv, EventTypeOK, EventRecord
<1>11. LatencyHoldsFirstToken' /\ StreamsOnSuccess' /\ PhasesAreSplit'
  BY <1>2, <1>7, <1>8, <1>9 DEF LatencyHoldsFirstToken, StreamsOnSuccess, PhasesAreSplit
<1>12. TotalIsTaken' /\ CostIsCharged' /\ OverBudgetIsFlagged'
  BY <1>2, <1>8 DEF TotalIsTaken, CostIsCharged, OverBudgetIsFlagged
<1>13. SpendIsTold'
  BY <1>2 DEF EventIInv, SpendIsTold
<1> QED
  BY <1>10, <1>11, <1>12, <1>13 DEF EventIInv

(* Each phase is clamped from below on its own; together they cover the    *)
(* latency because it holds the time to the first token.                   *)
LEMMA PhasesOK ==
  ASSUME EventIInv, Phases
  PROVE  EventIInv'
<1>0. Time \subseteq Nat /\ FirstFloor \in Nat /\ StreamFloor \in Nat
  BY EventAssumption
<1>01. PICK queue \in Time : \E first, stream :
        /\ first  = Most(FirstFloor, ttft - queue)
        /\ stream = Most(StreamFloor, ev.latency - queue - first)
        /\ \/ /\ ev.status = "success"
              /\ ev' = [ev EXCEPT !.streaming = TRUE, !.queue = queue, !.first = first,
                                  !.stream = stream, !.inference = stream]
           \/ ev' = [ev EXCEPT !.queue = queue, !.inference = Most(0, ev.latency - queue)]
  BY DEF Phases
<1>1. PICK first, stream :
        /\ first  = Most(FirstFloor, ttft - queue)
        /\ stream = Most(StreamFloor, ev.latency - queue - first)
        /\ \/ /\ ev.status = "success"
              /\ ev' = [ev EXCEPT !.streaming = TRUE, !.queue = queue, !.first = first,
                                  !.stream = stream, !.inference = stream]
           \/ ev' = [ev EXCEPT !.queue = queue, !.inference = Most(0, ev.latency - queue)]
  BY <1>01
<1>2. /\ at = "phases" /\ at' = "charge"
      /\ UNCHANGED <<mockMode, ttft, spent, told, events>>
  BY DEF Phases
<1>3. ev \in EventRecord /\ ttft \in Nat
  BY DEF EventIInv, EventTypeOK, EventRecord
<1>4. /\ ev.latency \in Nat /\ ev.streaming = FALSE /\ queue \in Nat
      /\ ev.first = 0 /\ ev.stream = 0
  BY <1>0, <1>2, <1>3 DEF EventRecord, EventIInv, StreamsOnSuccess, PhasesAreSplit
<1>5. /\ first \in Nat /\ first >= ttft - queue
      /\ first = FirstFloor \/ first = ttft - queue
  BY <1>0, <1>1, <1>3, <1>4, MostFewest
<1>6. /\ stream \in Nat /\ stream >= ev.latency - queue - first
      /\ stream = StreamFloor \/ stream = ev.latency - queue - first
  BY <1>0, <1>1, <1>4, <1>5, MostFewest
<1> DEFINE rest == Most(0, ev.latency - queue)
<1>7. rest \in Nat /\ queue + rest - ev.latency = Most(0, queue - ev.latency)
  BY <1>4 DEF Most
<1> HIDE DEF rest
<1> DEFINE split == /\ ev' \in EventRecord /\ CoversLatency(ev')
                    /\ ev'.streaming => ev'.status = "success"
                    /\ ev'.total = ev.total /\ ev'.prompt = ev.prompt
                    /\ ev'.completion = ev.completion /\ ev'.cache = ev.cache
<1>8. ASSUME ev.status = "success",
             ev' = [ev EXCEPT !.streaming = TRUE, !.queue = queue, !.first = first,
                              !.stream = stream, !.inference = stream]
      PROVE  split
  <2>1. /\ ev' \in EventRecord /\ ev'.status = "success"
        /\ ev'.queue = queue /\ ev'.first = first /\ ev'.stream = stream
        /\ ev'.inference = stream
        /\ ev'.latency = ev.latency /\ ev'.total = ev.total
        /\ ev'.prompt = ev.prompt /\ ev'.completion = ev.completion /\ ev'.cache = ev.cache
    BY <1>3, <1>4, <1>5, <1>6, <1>8 DEF EventRecord
  <2>2. ev.latency >= ttft /\ ttft >= FirstFloor
    BY <1>2, <1>8 DEF EventIInv, LatencyHoldsFirstToken
  <2> DEFINE excess == queue + first + stream - ev.latency
  <2>3. excess \in Nat /\ excess <= queue + StreamFloor
    BY <1>0, <1>3, <1>4, <1>5, <1>6, <2>2
  <2>4. excess <= StreamFloor \/ first = FirstFloor
    BY <1>0, <1>3, <1>4, <1>5, <1>6, <2>2
  <2>5. ev'.streaming
    BY <1>3, <1>8 DEF EventRecord
  <2>6. Excess(ev') - ev'.stream = excess
    BY <1>4, <1>5, <1>6, <2>1 DEF Excess
  <2>7. CoversLatency(ev')
    <3>1. queue + StreamFloor \in Nat
      BY <1>0, <1>4
    <3>2. Most(queue + StreamFloor, FirstFloor) >= queue + StreamFloor
      BY <1>0, <3>1, MostFewest
    <3>3. Most(queue + StreamFloor, FirstFloor) \in Nat
      BY <1>0, <3>1 DEF Most
    <3> HIDE DEF excess
    <3>4. excess \in 0 .. Most(queue + StreamFloor, FirstFloor)
      BY <2>3, <3>1, <3>2, <3>3
    <3> QED
      BY <2>1, <2>4, <2>5, <2>6, <3>4 DEF CoversLatency
  <2> QED
    BY <2>1, <2>7
<1>9. ASSUME ev' = [ev EXCEPT !.queue = queue, !.inference = rest]
      PROVE  split
  <2>1. /\ ev' \in EventRecord /\ ev'.status = ev.status /\ ev'.streaming = FALSE
        /\ ev'.queue = queue /\ ev'.inference = rest /\ ev'.first = 0 /\ ev'.stream = 0
        /\ ev'.latency = ev.latency /\ ev'.total = ev.total
        /\ ev'.prompt = ev.prompt /\ ev'.completion = ev.completion /\ ev'.cache = ev.cache
    BY <1>3, <1>4, <1>7, <1>9 DEF EventRecord
  <2>2. Excess(ev') = queue + rest - ev.latency
    BY <1>4, <1>7, <2>1 DEF Excess
  <2>3. CoversLatency(ev')
    BY <1>7, <2>1, <2>2 DEF CoversLatency
  <2> QED
    BY <2>1, <2>3
<1>10. split
  BY <1>1, <1>8, <1>9 DEF rest
<1>11. EventTypeOK'
  BY <1>2, <1>10 DEF EventIInv, EventTypeOK, EventRecord
<1>12. LatencyHoldsFirstToken' /\ StreamsOnSuccess' /\ PhasesAreSplit'
  BY <1>2, <1>10 DEF LatencyHoldsFirstToken, StreamsOnSuccess, PhasesAreSplit
<1>13. TotalIsTaken' /\ CostIsCharged' /\ OverBudgetIsFlagged'
  BY <1>2, <1>10 DEF EventIInv, TotalIsTaken, CostIsCharged, OverBudgetIsFlagged
<1>14. SpendIsTold'
  BY <1>2 DEF EventIInv, SpendIsTold
<1> QED
  BY <1>11, <1>12, <1>13, <1>14 DEF EventIInv

LEMMA ChargeEventOK ==
  ASSUME EventIInv, ChargeEvent
  PROVE  EventIInv'
<1>01. PICK midnight \in BOOLEAN : \E cost, sum :
        /\ cost = IF ev.status = "rejected" THEN 0
                  ELSE CalculateCost(ev.prompt, ev.completion, ev.cache)
        /\ sum = (IF midnight THEN 0 ELSE spent) + cost
        /\ spent' = sum
        /\ told' = IF midnight THEN 0 ELSE told
        /\ ev' = [ev EXCEPT !.cost = cost, !.spend = sum, !.exhausted = sum >= DailyBudget]
  BY DEF ChargeEvent
<1>1. PICK cost, sum :
        /\ cost = IF ev.status = "rejected" THEN 0
                  ELSE CalculateCost(ev.prompt, ev.completion, ev.cache)
        /\ sum = (IF midnight THEN 0 ELSE spent) + cost
        /\ spent' = sum
        /\ told' = IF midnight THEN 0 ELSE told
        /\ ev' = [ev EXCEPT !.cost = cost, !.spend = sum, !.exhausted = sum >= DailyBudget]
  BY <1>01
<1>2. /\ at = "charge" /\ at' = "enrich"
      /\ UNCHANGED <<mockMode, ttft, events>>
  BY DEF ChargeEvent
<1>3. ev \in EventRecord /\ spent \in Nat /\ told \in Nat /\ mockMode \in BOOLEAN
  BY DEF EventIInv, EventTypeOK, EventRecord
<1>4. cost \in Nat
  <2>1. CalculateCost(ev.prompt, ev.completion, ev.cache) \in Nat
    BY <1>3, CostProperties DEF EventRecord
  <2> QED
    BY <1>1, <2>1
<1>5. sum \in Nat
  BY <1>1, <1>3, <1>4
<1> DEFINE over == sum >= DailyBudget
<1>6. over \in BOOLEAN /\ ev' = [ev EXCEPT !.cost = cost, !.spend = sum, !.exhausted = over]
  BY <1>1
<1> HIDE DEF over
<1>7. /\ ev' \in EventRecord /\ ev'.cost = cost /\ ev'.spend = sum
      /\ ev'.status = ev.status /\ ev'.prompt = ev.prompt
      /\ ev'.completion = ev.completion /\ ev'.cache = ev.cache /\ ev'.total = ev.total
  BY <1>3, <1>4, <1>5, <1>6 DEF EventRecord
<1>8. ev'.exhausted = over
  BY <1>3, <1>6 DEF EventRecord
<1>9. ev'.streaming = ev.streaming
  BY <1>3, <1>6 DEF EventRecord
<1>10. CoversLatency(ev')
  <2>1. /\ ev'.queue = ev.queue /\ ev'.first = ev.first /\ ev'.stream = ev.stream
        /\ ev'.inference = ev.inference /\ ev'.latency = ev.latency
    BY <1>3, <1>6 DEF EventRecord
  <2>2. CoversLatency(ev)
    BY <1>2 DEF EventIInv, PhasesAreSplit
  <2> QED
    BY <2>1, <2>2, <1>9 DEF CoversLatency, Excess
<1>11. EventTypeOK'
  BY <1>1, <1>2, <1>3, <1>5, <1>7 DEF EventIInv, EventTypeOK, EventRecord
<1>12. LatencyHoldsFirstToken' /\ PhasesAreSplit'
  BY <1>2, <1>10 DEF LatencyHoldsFirstToken, PhasesAreSplit
<1>13. StreamsOnSuccess'
  BY <1>2, <1>7, <1>9 DEF EventIInv, StreamsOnSuccess
<1>14. TotalIsTaken'
  BY <1>2, <1>7 DEF EventIInv, TotalIsTaken
<1>15. CostIsCharged'
  BY <1>1, <1>7 DEF CostIsCharged
<1>16. OverBudgetIsFlagged'
  BY <1>7, <1>8 DEF OverBudgetIsFlagged, over
<1>17. SpendIsTold'
  <2>1. spent <= told
    BY <1>2, <1>3 DEF EventIInv, SpendIsTold
  <2>2. spent' <= told' + cost
    BY <2>1, <1>1, <1>3, <1>4
  <2>3. spent = told => spent' = told' + cost
    BY <1>1, <1>3, <1>4
  <2>4. mockMode \/ spent = told
    <3>1. at # "enrich" /\ told + 0 = told
      BY <1>2, <1>3
    <3> QED
      BY <3>1 DEF EventIInv, SpendIsTold
  <2>5. mockMode' \/ spent' = told' + cost
    BY <2>3, <2>4, <1>2
  <2> QED
    BY <2>2, <2>5, <1>2, <1>7 DEF SpendIsTold
<1> QED
  BY <1>11, <1>12, <1>13, <1>14, <1>15, <1>16, <1>17 DEF EventIInv

(* What an event may become in the enrichment.                             *)
MayBecome(e, f) ==
  /\ f \in EventRecord /\ CoversLatency(f) /\ (f.streaming => f.status = "success")
  /\ f.total = f.prompt + f.completion + f.cache
  /\ f.cost >= e.cost
  /\ f.spend = e.spend /\ (e.exhausted => f.exhausted)

Enrichable(e) ==
  /\ e \in EventRecord /\ CoversLatency(e) /\ (e.streaming => e.status = "success")
  /\ e.total = e.prompt + e.completion + e.cache
  /\ e.cost = IF e.status = "rejected" THEN 0 ELSE CalculateCost(e.prompt, e.completion, e.cache)

(* The shares the enrichment cuts out of a latency leave some of it.        *)
LEMMA Percents ==
  ASSUME NEW n \in Nat
  PROVE  /\ Percent(4, n) \in Nat /\ Percent(95, n) \in Nat
         /\ Percent(4, n) + Percent(95, n) <= n
BY DEF Percent

LEMMA StreamedOK ==
  ASSUME NEW e, Enrichable(e), NEW f \in Streamed(e)
  PROVE  Enrichable(f) /\ f.cost = e.cost /\ f.spend = e.spend /\ f.exhausted = e.exhausted
<1>0. /\ FirstFloor \in Nat /\ StreamFloor \in Nat /\ Time \subseteq Nat
      /\ e \in EventRecord /\ e.latency \in Nat
  BY EventAssumption DEF Enrichable, EventRecord
<1>1. CASE f = e
  BY <1>1
<1>2. CASE f # e
  <2>1. ~e.streaming /\ e.status = "success"
    BY <1>2 DEF Streamed
  <2>2. PICK time \in Time :
          f = [e EXCEPT !.streaming = TRUE, !.queue = Percent(4, e.latency),
                        !.stream = Fewest(time, Percent(95, e.latency)),
                        !.inference = Fewest(time, Percent(95, e.latency)),
                        !.first = Most(FirstFloor, e.latency
                                         - Fewest(time, Percent(95, e.latency))
                                         - Percent(4, e.latency))]
    BY <1>2, <2>1 DEF Streamed
  <2> DEFINE q == Percent(4, e.latency)
             s == Fewest(time, Percent(95, e.latency))
             first == Most(FirstFloor, e.latency - s - q)
  <2>3. q \in Nat /\ s \in Nat /\ q + s <= e.latency
    <3>1. /\ q \in Nat /\ Percent(95, e.latency) \in Nat
          /\ q + Percent(95, e.latency) <= e.latency
      BY <1>0, Percents
    <3>2. time \in Nat
      BY <1>0
    <3>3. s \in Nat /\ s <= Percent(95, e.latency)
      BY <3>1, <3>2 DEF Fewest
    <3> HIDE DEF q, s
    <3> QED
      BY <1>0, <3>1, <3>3
  <2>4. /\ first \in Nat /\ first >= e.latency - s - q
        /\ first = FirstFloor \/ first = e.latency - s - q
    BY <1>0, <2>3 DEF Most
  <2>5. f = [e EXCEPT !.streaming = TRUE, !.queue = q, !.stream = s,
                      !.inference = s, !.first = first]
    BY <2>2
  <2> HIDE DEF q, s, first
  <2>6. /\ f \in EventRecord /\ f.queue = q /\ f.stream = s /\ f.first = first
        /\ f.inference = s
        /\ f.latency = e.latency /\ f.status = e.status /\ f.total = e.total
        /\ f.prompt = e.prompt /\ f.completion = e.completion /\ f.cache = e.cache
        /\ f.cost = e.cost /\ f.spend = e.spend
    BY <1>0, <2>3, <2>4, <2>5 DEF EventRecord
  <2>7. f.exhausted = e.exhausted /\ f.streaming = TRUE
    BY <1>0, <2>5 DEF EventRecord
  <2> DEFINE excess == q + first + s - e.latency
  <2>8. /\ excess \in Nat /\ excess <= FirstFloor
        /\ excess <= StreamFloor \/ first = FirstFloor
    BY <1>0, <2>3, <2>4
  <2>81. Excess(f) - f.stream = excess
    BY <1>0, <2>3, <2>4, <2>6 DEF Excess
  <2>9. CoversLatency(f)
    <3>1. q + StreamFloor \in Nat
      BY <1>0, <2>3
    <3>2. Most(q + StreamFloor, FirstFloor) >= FirstFloor
      BY <1>0, <3>1, MostFewest
    <3>3. Most(q + StreamFloor, FirstFloor) \in Nat
      BY <1>0, <3>1 DEF Most
    <3> HIDE DEF excess
    <3>4. excess \in 0 .. Most(q + StreamFloor, FirstFloor)
      BY <1>0, <2>8, <3>2, <3>3
    <3> QED
      BY <2>6, <2>7, <2>8, <2>81, <3>4 DEF CoversLatency
  <2>10. Enrichable(f)
    BY <2>1, <2>6, <2>9 DEF Enrichable
  <2> QED
    BY <2>6, <2>7, <2>10
<1> QED
  BY <1>1, <1>2

LEMMA CacheReadsOK ==
  ASSUME NEW e, Enrichable(e), NEW f \in WithCacheReads(e)
  PROVE  MayBecome(e, f)
<1>0. /\ e \in EventRecord /\ e.cost \in Nat
      /\ e.prompt \in Nat /\ e.completion \in Nat /\ Token \subseteq Nat
  BY EventAssumption DEF Enrichable, EventRecord
<1>1. CASE f = e
  BY <1>0, <1>1 DEF MayBecome, Enrichable
<1>2. CASE f # e
  <2>1. e.cache = 0
    BY <1>2 DEF WithCacheReads
  <2>2. PICK cache \in Token :
          f = [e EXCEPT !.cache = cache, !.total = e.prompt + e.completion + cache,
                        !.cost = CalculateCost(e.prompt, e.completion, cache)]
    BY <1>2 DEF WithCacheReads
  <2> DEFINE cost == CalculateCost(e.prompt, e.completion, cache)
             free == CalculateCost(e.prompt, e.completion, 0)
  <2>3. cost \in Nat /\ cost >= free
    BY <1>0, CostProperties
  <2>4. e.cost = 0 \/ e.cost = free
    BY <2>1 DEF Enrichable
  <2>5. f = [e EXCEPT !.cache = cache, !.total = e.prompt + e.completion + cache, !.cost = cost]
    BY <2>2
  <2> HIDE DEF cost, free
  <2>6. cost >= e.cost /\ cache \in Nat /\ e.prompt + e.completion + cache \in Nat
    BY <1>0, <2>3, <2>4
  <2>7. /\ f \in EventRecord /\ f.cost = cost /\ f.cache = cache
        /\ f.total = e.prompt + e.completion + cache
        /\ f.prompt = e.prompt /\ f.completion = e.completion
        /\ f.latency = e.latency /\ f.status = e.status /\ f.queue = e.queue
        /\ f.first = e.first /\ f.stream = e.stream /\ f.inference = e.inference
        /\ f.spend = e.spend
    BY <1>0, <2>3, <2>5, <2>6 DEF EventRecord
  <2>8. f.exhausted = e.exhausted /\ f.streaming = e.streaming
    BY <1>0, <2>5 DEF EventRecord
  <2>9. CoversLatency(f)
    BY <2>7, <2>8 DEF CoversLatency, Excess, Enrichable
  <2> QED
    BY <2>6, <2>7, <2>8, <2>9 DEF MayBecome, Enrichable
<1> QED
  BY <1>1, <1>2

LEMMA FlagOK ==
  ASSUME NEW e, Enrichable(e), NEW f \in WithFlag(e)
  PROVE  /\ Enrichable(f) /\ f.cost = e.cost /\ f.spend = e.spend
         /\ e.exhausted => f.exhausted
<1>1. CASE f = e
  BY <1>1
<1>2. CASE f = [e EXCEPT !.exhausted = TRUE]
  <2>1. e \in EventRecord
    BY DEF Enrichable
  <2>2. /\ f \in EventRecord /\ f.cost = e.cost /\ f.cache = e.cache
        /\ f.total = e.total /\ f.prompt = e.prompt /\ f.completion = e.completion
        /\ f.latency = e.latency /\ f.status = e.status /\ f.queue = e.queue
        /\ f.first = e.first /\ f.stream = e.stream /\ f.inference = e.inference
        /\ f.spend = e.spend
    BY <1>2, <2>1 DEF EventRecord
  <2>3. f.exhausted /\ f.streaming = e.streaming
    BY <1>2, <2>1 DEF EventRecord
  <2>4. CoversLatency(f)
    BY <2>2, <2>3 DEF CoversLatency, Excess, Enrichable
  <2> QED
    BY <2>2, <2>3, <2>4 DEF Enrichable
<1> QED
  BY <1>1, <1>2 DEF WithFlag

LEMMA EnrichedOK ==
  ASSUME NEW e, Enrichable(e), NEW f \in EnrichMockEvent(e)
  PROVE  MayBecome(e, f) /\ (mockMode \/ f = e)
<1>1. CASE ~mockMode
  <2>1. f = e
    BY <1>1 DEF EnrichMockEvent
  <2>2. e.cost >= e.cost
    BY DEF Enrichable, EventRecord
  <2> QED
    BY <2>1, <2>2 DEF MayBecome, Enrichable
<1>2. CASE mockMode
  <2>01. PICK streamed \in Streamed(e) :
           \E flagged \in WithFlag(streamed) : f \in WithCacheReads(flagged)
    BY <1>2 DEF EnrichMockEvent
  <2>1. PICK flagged \in WithFlag(streamed) : f \in WithCacheReads(flagged)
    BY <2>01
  <2>2. /\ Enrichable(streamed) /\ streamed.cost = e.cost /\ streamed.spend = e.spend
        /\ streamed.exhausted = e.exhausted
    BY StreamedOK
  <2>3. /\ Enrichable(flagged) /\ flagged.cost = streamed.cost
        /\ flagged.spend = streamed.spend /\ (streamed.exhausted => flagged.exhausted)
    BY <2>2, FlagOK
  <2>4. MayBecome(flagged, f)
    BY <2>1, <2>3, CacheReadsOK
  <2> QED
    BY <1>2, <2>2, <2>3, <2>4 DEF MayBecome
<1> QED
  BY <1>1, <1>2

LEMMA EnrichOK ==
  ASSUME EventIInv, Enrich
  PROVE  EventIInv'
<1>1. /\ ev' \in EnrichMockEvent(ev) /\ told' = told + ev'.cost
      /\ at = "enrich" /\ at' = "publish" /\ events' = events + 1
      /\ UNCHANGED <<mockMode, ttft, spent>>
  BY DEF Enrich
<1>2. ev \in EventRecord /\ mockMode \in BOOLEAN /\ {ttft, spent, told, events} \subseteq Nat
  BY DEF EventIInv, EventTypeOK, EventRecord
<1>3. Enrichable(ev)
  BY <1>1, <1>2 DEF EventIInv, Enrichable, PhasesAreSplit, StreamsOnSuccess, TotalIsTaken,
                    CostIsCharged
<1>4. MayBecome(ev, ev') /\ (mockMode \/ ev' = ev)
  BY <1>1, <1>3, EnrichedOK
<1>5. /\ ev' \in EventRecord /\ CoversLatency(ev') /\ (ev'.streaming => ev'.status = "success")
      /\ ev'.total = ev'.prompt + ev'.completion + ev'.cache
      /\ ev'.cost >= ev.cost
      /\ ev'.spend = ev.spend /\ (ev.exhausted => ev'.exhausted)
  BY <1>4 DEF MayBecome
<1>6. ev'.cost \in Nat /\ ev.cost \in Nat
  BY <1>2, <1>5 DEF EventRecord
<1>7. EventTypeOK'
  <2>1. told' \in Nat /\ events' \in Nat
    BY <1>1, <1>2, <1>6
  <2> QED
    BY <2>1, <1>1, <1>2, <1>5 DEF EventTypeOK, EventRecord
<1>8. LatencyHoldsFirstToken' /\ StreamsOnSuccess' /\ PhasesAreSplit'
  BY <1>1, <1>5 DEF LatencyHoldsFirstToken, StreamsOnSuccess, PhasesAreSplit
<1>9. TotalIsTaken' /\ CostIsCharged'
  BY <1>1, <1>5 DEF TotalIsTaken, CostIsCharged
<1>10. OverBudgetIsFlagged'
  BY <1>1, <1>5 DEF EventIInv, OverBudgetIsFlagged
<1>11. SpendIsTold'
  <2>1. spent <= told + ev.cost
    BY <1>1 DEF EventIInv, SpendIsTold
  <2>2. spent' <= told' + 0
    BY <2>1, <1>1, <1>2, <1>5, <1>6
  <2>3. mockMode \/ spent = told + ev.cost
    BY <1>1 DEF EventIInv, SpendIsTold
  <2>4. ev' = ev /\ spent = told + ev.cost => spent' = told' + 0
    BY <1>1, <1>2, <1>6
  <2>5. mockMode' \/ spent' = told' + 0
    BY <2>3, <2>4, <1>1, <1>4
  <2> QED
    BY <2>2, <2>5, <1>1 DEF SpendIsTold
<1> QED
  BY <1>7, <1>8, <1>9, <1>10, <1>11 DEF EventIInv

LEMMA PublishOK ==
  ASSUME EventIInv, Publish
  PROVE  EventIInv'
<1>1. /\ at = "publish" /\ at' = "draw" /\ ev' = Blank /\ ttft' = 0
      /\ UNCHANGED <<mockMode, spent, told, events>>
  BY DEF Publish
<1>2. Blank \in EventRecord /\ Blank.streaming = FALSE
  BY DEF Blank, EventRecord, Status
<1>3. EventTypeOK'
  BY <1>1, <1>2 DEF EventIInv, EventTypeOK, EventRecord
<1>4. LatencyHoldsFirstToken' /\ StreamsOnSuccess' /\ PhasesAreSplit'
  BY <1>1, <1>2 DEF LatencyHoldsFirstToken, StreamsOnSuccess, PhasesAreSplit
<1>5. TotalIsTaken' /\ CostIsCharged' /\ OverBudgetIsFlagged'
  BY <1>1 DEF TotalIsTaken, CostIsCharged, OverBudgetIsFlagged
<1>6. SpendIsTold'
  BY <1>1 DEF EventIInv, SpendIsTold
<1> QED
  BY <1>3, <1>4, <1>5, <1>6 DEF EventIInv

LEMMA EventStutterOK ==
  ASSUME EventIInv, UNCHANGED eventVars
  PROVE  EventIInv'
<1> USE DEF eventVars
<1>1. EventTypeOK' /\ LatencyHoldsFirstToken' /\ StreamsOnSuccess' /\ PhasesAreSplit'
  BY DEF EventIInv, EventTypeOK, LatencyHoldsFirstToken, StreamsOnSuccess, PhasesAreSplit
<1>2. TotalIsTaken' /\ CostIsCharged' /\ SpendIsTold' /\ OverBudgetIsFlagged'
  BY DEF EventIInv, TotalIsTaken, CostIsCharged, SpendIsTold, OverBudgetIsFlagged
<1> QED
  BY <1>1, <1>2 DEF EventIInv

(* Stage by stage an event keeps what the later stages rely on, for all    *)
(* draws, prices and budgets.                                              *)
THEOREM EventInvariant == EventSpec => []EventIInv
<1>1. EventIInv /\ [EventStep]_eventVars => EventIInv'
  BY DrawOK, SimulateErrorOK, PhasesOK, ChargeEventOK, EnrichOK, PublishOK, EventStutterOK
     DEF EventStep
<1> QED
  BY EventInitOK, <1>1, PTL DEF EventSpec

(* All four phases of a published event account for its latency, whether   *)
(* they come from generate_event or from the enrichment, and exceed it by  *)
(* a second streaming time and by what the floors and the queue allow.     *)
THEOREM LatencyCovered == EventSpec => []PhasesCoverLatency
<1>1. EventIInv => PhasesCoverLatency
  BY DEF EventIInv, PhasesAreSplit, PhasesCoverLatency
<1> QED
  BY <1>1, EventInvariant, PTL

(* Published tokens, costs, spend and budget flag agree, with and without  *)
(* the enrichment and across midnight.                                     *)
THEOREM EventBooksBalance == EventSpec => []BooksOfEventsBalance
<1>1. ASSUME EventIInv, at = "publish" PROVE spent <= told /\ (mockMode \/ spent = told)
  <2>1. spent \in Nat /\ told \in Nat /\ told + 0 = told /\ at # "enrich"
    BY <1>1 DEF EventIInv, EventTypeOK
  <2> QED
    BY <2>1, <1>1 DEF EventIInv, SpendIsTold
<1>2. EventIInv => BooksOfEventsBalance
  BY <1>1 DEF EventIInv, TotalIsTaken, OverBudgetIsFlagged, BooksOfEventsBalance
<1> QED
  BY <1>2, EventInvariant, PTL

=============================================================================
