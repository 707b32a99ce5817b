-------------------------- MODULE Evaluator_proofs --------------------------
(***************************************************************************)
(* Proofs about Evaluator: the daily budget, for every number of threads,  *)
(* every budget and every set of estimates.                                *)
(***************************************************************************)
EXTENDS Evaluator, FiniteSetTheorems, TLAPS

LEMMA EvaluatorBounds ==
  /\ Budget \in Nat /\ MaxDay \in Nat \ {0} /\ MaxJobs \in Nat
  /\ \A t \in Estimates : t \in Nat \ {0}
BY EvaluatorAssumption

(* Sets of threads are finite and no larger than the pool.                 *)
LEMMA Threads ==
  ASSUME NEW S \in SUBSET Worker
  PROVE  /\ IsFiniteSet(S) /\ Cardinality(S) \in Nat
         /\ Size \in Nat \ {0} /\ Cardinality(S) <= Size
         /\ S # Worker => Cardinality(S) <= Size - 1
<1>1. IsFiniteSet(S) /\ Cardinality(S) <= Size
  BY EvaluatorAssumption, FS_Subset DEF Size
<1>2. Cardinality(S) \in Nat /\ Size \in Nat /\ Size # 0
  BY <1>1, EvaluatorAssumption, FS_CardinalityType, FS_EmptySet DEF Size
<1>3. ASSUME S # Worker PROVE Cardinality(S) <= Size - 1
  <2>1. PICK w \in Worker : w \notin S
    BY <1>3
  <2>2. Cardinality(Worker \ {w}) = Size - 1 /\ IsFiniteSet(Worker \ {w})
    BY EvaluatorAssumption, FS_RemoveElement DEF Size
  <2> QED
    BY <2>1, <2>2, FS_Subset
<1> QED
  BY <1>1, <1>2, <1>3

LEMMA OneLess ==
  ASSUME NEW S \in SUBSET Worker, NEW w \in S
  PROVE  Cardinality(S \ {w}) = Cardinality(S) - 1
BY Threads, FS_RemoveElement

LEMMA OneMore ==
  ASSUME NEW S \in SUBSET Worker, NEW w \in Worker \ S
  PROVE  Cardinality(S \cup {w}) = Cardinality(S) + 1
BY Threads, FS_AddElement

(* Multiples of the budget.                                                *)
LEMMA Times ==
  ASSUME NEW a \in Int
  PROVE  /\ a * Budget \in Int
         /\ (a + 1) * Budget = a * Budget + Budget
         /\ \A b \in Int : a <= b => a * Budget <= b * Budget
BY EvaluatorBounds, SMT

LEMMA EvalInitOK == Init => IInv
<1> SUFFICES ASSUME Init PROVE IInv
  OBVIOUS
<1> USE EvaluatorBounds DEF Init
<1>1. FlagTypeOK
  BY DEF FlagTypeOK
<1>2. CountTypeOK
  BY SMT DEF CountTypeOK, Day
<1>3. OverspendNeedsCrossing /\ TrackerInStep
  BY SMT DEF OverspendNeedsCrossing, TrackerInStep, Day
<1>4. CallsBalance
  <2>1. Worker \ Idle = {}
    BY DEF Idle
  <2>2. Cardinality(Worker \ Idle) = 0
    BY <2>1, FS_EmptySet
  <2> QED
    BY <2>2, SMT DEF CallsBalance
<1>5. OverspendPace
  BY SMT DEF OverspendPace, BeforeDate, OnDate, AfterDate, Day
<1> QED
  BY <1>1, <1>2, <1>3, <1>4, <1>5 DEF IInv, TypeOK

-----------------------------------------------------------------------------
(* Steps outside the tracker.                                              *)

LEMMA TrackerApart ==
  ASSUME IInv, UNCHANGED <<day, tracker, today>>,
         \A w \in Worker : wpc'[w] = "lock" <=> wpc[w] = "lock"
  PROVE  OverspendNeedsCrossing' /\ TrackerInStep' /\ OverspendPace'
<1> USE DEF IInv, tracker
<1>1. OverspendNeedsCrossing' /\ TrackerInStep'
  BY DEF OverspendNeedsCrossing, TrackerInStep
<1>2. \A d : Older(d)' = Older(d) /\ Holding(d)' = Holding(d)
  BY DEF Older, Holding
<1>3. OverspendPace'
  BY <1>2 DEF OverspendPace, BeforeDate, OnDate, AfterDate, UsedOn
<1> QED
  BY <1>1, <1>3

(* The pool's balance after a thread moves.                                *)
LEMMA MoveBalance ==
  ASSUME TypeOK, CallsBalance, NEW w \in Worker, NEW place, Move(w, place),
         submitted' = submitted,
         \/ wpc[w] # "idle" /\ place # "idle" /\ answered' = answered
         \/ wpc[w] # "idle" /\ place = "idle" /\ answered' = answered + 1
         \/ wpc[w] = "idle" /\ Queued > 0 /\ place # "idle" /\ answered' = answered
  PROVE  CallsBalance' /\ answered' \in 0 .. MaxJobs
<1> DEFINE Busy == Worker \ Idle
<1>0. /\ Busy \in SUBSET Worker /\ Cardinality(Busy) \in Nat
      /\ answered \in Nat /\ submitted \in Nat /\ submitted <= MaxJobs
      /\ wpc \in [Worker -> {"idle", "client", "date", "lock", "call"}]
  BY Threads, EvaluatorBounds DEF TypeOK, CountTypeOK, FlagTypeOK
<1>1. CASE wpc[w] # "idle" /\ place # "idle" /\ answered' = answered
  <2>1. Busy' = Busy
    BY <1>0, <1>1 DEF Move, Idle
  <2> QED
    BY <1>1, <2>1 DEF CallsBalance, TypeOK, CountTypeOK
<1>2. CASE wpc[w] # "idle" /\ place = "idle" /\ answered' = answered + 1
  <2>1. w \in Busy /\ Busy' = Busy \ {w}
    BY <1>0, <1>2 DEF Move, Idle
  <2>2. Cardinality(Busy') = Cardinality(Busy) - 1
    BY <1>0, <2>1, OneLess
  <2>3. Cardinality(Busy') \in Nat
    BY <1>0, <2>1, Threads
  <2> QED
    BY <1>0, <1>2, <2>2, <2>3, EvaluatorBounds, SMT DEF CallsBalance
<1>3. CASE wpc[w] = "idle" /\ Queued > 0 /\ place # "idle" /\ answered' = answered
  <2>1. w \in Worker \ Busy /\ Busy' = Busy \cup {w}
    BY <1>0, <1>3 DEF Move, Idle
  <2>2. Cardinality(Busy') = Cardinality(Busy) + 1
    BY <1>0, <2>1, OneMore
  <2> QED
    BY <1>0, <1>3, <2>2, EvaluatorBounds, SMT DEF CallsBalance, Queued
<1> QED
  BY <1>1, <1>2, <1>3

LEMMA MaybeEvaluateOK ==
  ASSUME IInv, MaybeEvaluate
  PROVE  IInv'
<1> USE DEF MaybeEvaluate, pool
<1>1. OverspendNeedsCrossing' /\ TrackerInStep' /\ OverspendPace'
  BY TrackerApart
<1>2. FlagTypeOK'
  BY DEF IInv, TypeOK, FlagTypeOK, tracker
<1>3. CountTypeOK'
  BY EvaluatorBounds, SMT DEF IInv, TypeOK, CountTypeOK, tracker
<1>4. CallsBalance'
  <2>1. Idle' = Idle
    BY DEF Idle
  <2>2. Cardinality(Worker \ Idle) \in Nat
    BY Threads
  <2> QED
    BY <2>1, <2>2, SMT DEF IInv, CallsBalance, TypeOK, CountTypeOK
<1> QED
  BY <1>1, <1>2, <1>3, <1>4 DEF IInv, TypeOK

LEMMA MidnightOK ==
  ASSUME IInv, Midnight
  PROVE  IInv'
<1> USE EvaluatorBounds DEF Midnight, pool, tracker
<1>1. FlagTypeOK' /\ CallsBalance'
  BY DEF IInv, TypeOK, FlagTypeOK, CallsBalance, Idle
<1>2. CountTypeOK'
  BY SMT DEF IInv, TypeOK, CountTypeOK, Day
<1>3. OverspendNeedsCrossing'
  BY DEF IInv, OverspendNeedsCrossing
<1>4. TrackerInStep'
  BY SMT DEF IInv, TypeOK, CountTypeOK, TrackerInStep, Day
<1>5. ASSUME NEW d \in Day
      PROVE  (BeforeDate(d) /\ OnDate(d) /\ AfterDate(d))'
  <2>0. /\ d \in Nat /\ day \in Nat /\ used \in Nat /\ date \in Nat /\ charged[d] \in Nat
        /\ BeforeDate(d) /\ OnDate(d) /\ AfterDate(d)
    BY SMT DEF IInv, TypeOK, CountTypeOK, Day, OverspendPace
  <2>1. Older(d)' = Older(d) /\ Holding(d)' = Holding(d) /\ UsedOn(d)' = UsedOn(d)
    BY DEF Older, Holding, UsedOn
  <2>2. BeforeDate(d)'
    BY <2>0, SMT DEF BeforeDate
  <2>3. OnDate(d)'
    BY <2>0, SMT DEF OnDate, BeforeDate
  <2>4. AfterDate(d)'
    <3>1. CASE day # d
      BY <2>0, <2>1, <3>1, SMT DEF AfterDate
    <3>2. CASE day = d
      <4> DEFINE H == Cardinality(Holding(d))
                 O == Cardinality(Older(d))
      <4>1. /\ Holding(d) \in SUBSET Worker /\ Older(d) \in SUBSET Worker
            /\ H \in Nat /\ O \in Nat /\ Size \in Nat \ {0} /\ H <= Size
            /\ Holding(d) # Worker => H <= Size - 1
        BY Threads DEF Holding, Older
      <4> DEFINE x == (Size - 1 - O) * Budget
                 full == (Size - 1) * Budget
                 here == (2 * Size - 2 - H) * Budget
                 away == (2 * Size - 1 - H) * Budget
      <4>2. /\ x \in Int /\ full \in Int /\ here \in Int /\ away \in Int
            /\ x <= full /\ 0 <= full /\ here <= away
            /\ Holding(d) # Worker => x <= here /\ 0 <= here
        <5>1. /\ Size - 1 - O \in Int /\ Size - 1 \in Int /\ 0 <= Size - 1
              /\ 2 * Size - 2 - H \in Int /\ 2 * Size - 1 - H \in Int
              /\ Size - 1 - O <= Size - 1 /\ 2 * Size - 2 - H <= 2 * Size - 1 - H
              /\ Holding(d) # Worker => /\ Size - 1 - O <= 2 * Size - 2 - H
                                        /\ 0 <= 2 * Size - 2 - H
          BY <4>1, SMT
        <5>2. 0 * Budget = 0
          BY SMT
        <5> HIDE DEF H, O
        <5> QED
          BY <5>1, <5>2, Times
      <4>3. charged[d] = 0 \/ charged[d] <= x + UsedOn(d)
        BY <2>0, <3>2 DEF OnDate
      <4>4. UsedOn(d) \in Nat /\ (d = date => UsedOn(d) = used) /\ (d # date => UsedOn(d) = 0)
        BY <2>0 DEF UsedOn
      <4> HIDE DEF x, full, here, away
      <4>5. /\ Holding(d) = Worker => charged[d] <= full + UsedOn(d)
            /\ Holding(d) # Worker /\ d = date => charged[d] <= here + used
            /\ Holding(d) # Worker /\ d # date => charged[d] <= away
        BY <2>0, <4>2, <4>3, <4>4, SMT
      <4> QED
        BY <2>1, <4>5 DEF AfterDate, full, here, away
    <3> QED
      BY <3>1, <3>2
  <2> QED
    BY <2>2, <2>3, <2>4
<1>6. OverspendPace'
  BY <1>5 DEF OverspendPace
<1> QED
  BY <1>1, <1>2, <1>3, <1>4, <1>6 DEF IInv, TypeOK

(* A thread's steps before and after the tracker.                          *)
LEMMA OutsideTrackerOK ==
  ASSUME IInv, NEW w \in Worker, Start(w) \/ GetClient(w) \/ CallReturns(w)
  PROVE  IInv'
<1>0. /\ UNCHANGED <<mock, day, tracker, submitted, today>>
      /\ wpc[w] \in {"idle", "client", "call"}
      /\ \/ /\ wpc' = wpc /\ answered' = answered + 1 /\ Queued > 0
         \/ /\ wpc[w] = "idle" /\ Queued > 0 /\ Move(w, "client") /\ answered' = answered
         \/ /\ wpc[w] # "idle" /\ Move(w, "date") /\ answered' = answered
         \/ /\ wpc[w] # "idle" /\ Move(w, "idle") /\ answered' = answered + 1
  BY DEF Start, GetClient, CallReturns, Answer, Idle
<1>1. OverspendNeedsCrossing' /\ TrackerInStep' /\ OverspendPace'
  <2>1. \A v \in Worker : wpc'[v] = "lock" <=> wpc[v] = "lock"
    BY <1>0 DEF Move, IInv, TypeOK, FlagTypeOK
  <2> QED
    BY <1>0, <2>1, TrackerApart
<1>2. CallsBalance' /\ answered' \in 0 .. MaxJobs
  <2>1. CASE wpc' = wpc /\ answered' = answered + 1 /\ Queued > 0
    <3>1. Idle' = Idle /\ Cardinality(Worker \ Idle) \in Nat
      BY <2>1, Threads DEF Idle
    <3> QED
      BY <1>0, <2>1, <3>1, EvaluatorBounds, SMT
         DEF IInv, TypeOK, CountTypeOK, CallsBalance, Queued
  <2> QED
    BY <1>0, <2>1, MoveBalance DEF IInv
<1>3. FlagTypeOK'
  <2>1. mock' \in BOOLEAN /\ enabled' \in BOOLEAN /\ client' \in BOOLEAN /\ crossed' \in BOOLEAN
    BY DEF IInv, TypeOK, FlagTypeOK, Start, GetClient, CallReturns, tracker
  <2>2. wpc' \in [Worker -> {"idle", "client", "date", "lock", "call"}]
    BY <1>0 DEF IInv, TypeOK, FlagTypeOK, Move
  <2> QED
    BY <2>1, <2>2 DEF FlagTypeOK
<1>4. CountTypeOK'
  BY <1>0, <1>2 DEF IInv, TypeOK, CountTypeOK, tracker
<1> QED
  BY <1>1, <1>2, <1>3, <1>4 DEF IInv, TypeOK

LEMMA ReadDateOK ==
  ASSUME IInv, NEW w \in Worker, ReadDate(w)
  PROVE  IInv'
<1> USE DEF ReadDate, tracker
<1>0. /\ wpc \in [Worker -> {"idle", "client", "date", "lock", "call"}]
      /\ today \in [Worker -> 0 .. MaxDay]
      /\ wpc' = [wpc EXCEPT ![w] = "lock"] /\ day \in Day /\ MaxDay \in Nat
  BY EvaluatorBounds DEF IInv, TypeOK, FlagTypeOK, CountTypeOK, Move
<1>1. FlagTypeOK'
  BY <1>0 DEF IInv, TypeOK, FlagTypeOK
<1>2. CallsBalance'
  BY MoveBalance DEF IInv
<1>3. CountTypeOK'
  <2>1. day \in 0 .. MaxDay
    BY <1>0, SMT DEF Day
  <2>2. today' \in [Worker -> 0 .. MaxDay]
    BY <1>0, <2>1
  <2> QED
    BY <2>2 DEF IInv, TypeOK, CountTypeOK
<1>4. OverspendNeedsCrossing'
  BY DEF IInv, OverspendNeedsCrossing
<1>5. TrackerInStep'
  <2>1. ASSUME NEW v \in Worker
        PROVE  today'[v] <= day' /\ (wpc'[v] = "lock" => today'[v] \in Day)
    BY <1>0, SMT DEF IInv, TrackerInStep, Day
  <2> QED
    BY <2>1 DEF IInv, TrackerInStep
<1>6. ASSUME NEW d \in Day
      PROVE  (BeforeDate(d) /\ OnDate(d) /\ AfterDate(d))'
  <2>1. d <= day => Older(d)' = Older(d)
    BY <1>0, SMT DEF Older, Day
  <2>2. d < day => Holding(d)' = Holding(d)
    BY <1>0, SMT DEF Holding, Day
  <2>3. BeforeDate(d) /\ OnDate(d) /\ AfterDate(d) /\ d \in Nat /\ day \in Nat
    BY <1>0 DEF IInv, OverspendPace, Day
  <2>4. (day = d => d <= day) /\ (day > d => d < day)
    BY <2>3, SMT
  <2> QED
    BY <2>1, <2>2, <2>3, <2>4 DEF BeforeDate, OnDate, AfterDate, UsedOn
<1>7. OverspendPace'
  BY <1>6 DEF OverspendPace
<1> QED
  BY <1>1, <1>2, <1>3, <1>4, <1>5, <1>7 DEF IInv, TypeOK

(* The step that charges: T is the thread's date and g what it is granted. *)
LEMMA ConsumeOK ==
  ASSUME IInv, NEW w \in Worker, Consume(w)
  PROVE  IInv'
<1> DEFINE T == today[w]
<1>0. /\ wpc \in [Worker -> {"idle", "client", "date", "lock", "call"}]
      /\ today \in [Worker -> 0 .. MaxDay] /\ charged \in [Day -> Nat]
      /\ T \in Day /\ T <= day /\ wpc[w] = "lock" /\ today' = today /\ day' = day
      /\ used \in Nat /\ used <= Budget /\ date \in Nat /\ day \in Nat /\ Budget \in Nat
      /\ MaxDay \in Nat /\ date' = T /\ (crossed' = (crossed \/ T < date))
  BY EvaluatorBounds, SMT
     DEF IInv, TypeOK, FlagTypeOK, CountTypeOK, TrackerInStep, Consume, Day
<1>1. PICK tokens \in Estimates :
        IF UsedOn(T) + tokens > Budget
        THEN used' = UsedOn(T) /\ UNCHANGED charged /\ Answer(w)
        ELSE /\ used' = UsedOn(T) + tokens
             /\ charged' = [charged EXCEPT ![T] = @ + tokens]
             /\ Move(w, "call") /\ UNCHANGED answered
  BY DEF Consume
<1>2. PICK g \in Nat : /\ used' = UsedOn(T) + g /\ used' <= Budget
                      /\ charged' = [charged EXCEPT ![T] = @ + g]
  <2>2. tokens \in Nat /\ UsedOn(T) \in Nat /\ UsedOn(T) <= Budget
    BY <1>0, EvaluatorBounds, SMT DEF UsedOn
  <2>3. CASE UsedOn(T) + tokens > Budget
    <3>1. charged' = [charged EXCEPT ![T] = @ + 0] /\ used' = UsedOn(T) + 0
      BY <1>0, <1>1, <2>2, <2>3, SMT
    <3>2. used' <= Budget /\ 0 \in Nat
      BY <1>1, <2>2, <2>3, SMT
    <3> QED
      BY <3>1, <3>2
  <2>4. CASE ~(UsedOn(T) + tokens > Budget)
    <3>1. UsedOn(T) + tokens <= Budget
      BY <1>0, <2>2, <2>4, SMT
    <3>2. /\ used' = UsedOn(T) + tokens /\ used' <= Budget
          /\ charged' = [charged EXCEPT ![T] = @ + tokens]
      BY <1>1, <2>4, <3>1
    <3> QED
      BY <2>2, <3>2
  <2> QED
    BY <2>3, <2>4
<1>3. CallsBalance' /\ answered' \in 0 .. MaxJobs
  <2>1. submitted' = submitted /\ wpc[w] # "idle"
    BY <1>0 DEF Consume
  <2>2. CASE Answer(w)
    BY <2>1, <2>2, MoveBalance DEF IInv, Answer
  <2>3. CASE Move(w, "call") /\ UNCHANGED answered
    BY <2>1, <2>3, MoveBalance DEF IInv
  <2> QED
    BY <1>1, <2>2, <2>3
<1>4. wpc' = [wpc EXCEPT ![w] = "idle"] \/ wpc' = [wpc EXCEPT ![w] = "call"]
  BY <1>1 DEF Answer, Move
<1>5. FlagTypeOK'
  <2>1. wpc' \in [Worker -> {"idle", "client", "date", "lock", "call"}]
    BY <1>0, <1>4
  <2>2. crossed' \in BOOLEAN
    BY <1>0
  <2> QED
    BY <2>1, <2>2 DEF IInv, TypeOK, FlagTypeOK, Consume
<1>6. CountTypeOK'
  <2>1. UsedOn(T) \in Nat
    BY <1>0 DEF UsedOn
  <2>2. used' \in Nat /\ date' \in 0 .. MaxDay
    BY <1>0, <1>2, <2>1, SMT DEF Day
  <2>3. charged' \in [Day -> Nat]
    BY <1>0, <1>2, SMT
  <2> QED
    BY <1>0, <1>3, <2>2, <2>3 DEF IInv, TypeOK, CountTypeOK, Consume
<1>7. /\ charged'[T] = charged[T] + g
      /\ \A d \in Day : d # T => charged'[d] = charged[d]
  BY <1>0, <1>2
<1>8. ~crossed' => charged[T] = UsedOn(T) /\ ~crossed /\ T >= date
  <2>1. ~crossed' => ~crossed /\ ~(T < date)
    BY <1>0
  <2>2. T \in Nat
    BY <1>0 DEF Day
  <2>3. ~crossed' => T >= date /\ (T # date => T > date)
    BY <1>0, <2>1, <2>2, SMT
  <2> QED
    BY <1>0, <2>1, <2>3 DEF IInv, TrackerInStep, UsedOn
<1>9. ~crossed' => charged'[T] = used'
  BY <1>2, <1>7, <1>8
<1>10. OverspendNeedsCrossing'
  BY <1>2, <1>7, <1>8, <1>9 DEF IInv, OverspendNeedsCrossing
<1>11. TrackerInStep'
  <2>1. ASSUME ~crossed', NEW d \in Day, d > T
        PROVE  charged'[d] = 0
    <3>1. d > date /\ d # T
      BY <1>0, <1>8, <2>1, SMT DEF Day
    <3> QED
      BY <1>7, <1>8, <2>1, <3>1 DEF IInv, TrackerInStep
  <2>2. \A v \in Worker : wpc'[v] = "lock" => wpc[v] = "lock"
    BY <1>0, <1>4
  <2> QED
    BY <1>0, <1>2, <1>9, <2>1, <2>2 DEF IInv, TrackerInStep
<1>12. ASSUME NEW d \in Day
       PROVE  (BeforeDate(d) /\ OnDate(d) /\ AfterDate(d))'
  <2> DEFINE H == Cardinality(Holding(d))
             O == Cardinality(Older(d))
  <2>0. /\ Holding(d) \in SUBSET Worker /\ Older(d) \in SUBSET Worker
        /\ Size \in Nat \ {0} /\ H \in Nat /\ H <= Size /\ O \in Nat /\ O <= Size
        /\ Holding(d) # Worker => H <= Size - 1
        /\ Older(d) # Worker => O <= Size - 1
    BY Threads DEF Holding, Older
  <2>1. /\ d \in Nat /\ T \in Nat /\ charged[d] \in Nat /\ charged'[d] \in Nat
        /\ used' \in Nat /\ UsedOn(T) \in Nat /\ UsedOn(d) \in Nat /\ UsedOn(d) <= Budget
        /\ UsedOn(d)' = IF d = T THEN used' ELSE 0
    BY <1>0, <1>6 DEF UsedOn, Day, CountTypeOK
  <2>2. Holding(d)' = IF T = d THEN Holding(d) \ {w} ELSE Holding(d)
    BY <1>0, <1>4 DEF Holding
  <2>3. Older(d)' = IF T < d THEN Older(d) \ {w} ELSE Older(d)
    BY <1>0, <1>4 DEF Older
  <2>4. BeforeDate(d) /\ OnDate(d) /\ AfterDate(d)
    BY DEF IInv, OverspendPace
  <2>5. BeforeDate(d)'
    <3>1. day < d => d # T
      BY <1>0, <2>1, SMT
    <3> QED
      BY <1>0, <1>7, <2>4, <3>1 DEF BeforeDate
  <2>6. OnDate(d)'
    <3> SUFFICES ASSUME day = d PROVE OnDate(d)'
      BY <1>0 DEF OnDate
    <3> DEFINE x == (Size - 1 - O) * Budget
    <3>1. Size - 1 - O \in Int /\ x \in Int
      BY <2>0, Times, SMT
    <3>2. charged[d] = 0 \/ charged[d] <= x + UsedOn(d)
      BY <2>4 DEF OnDate
    <3>3. CASE T = d
      <4>1. w \notin Older(d) /\ O <= Size - 1 /\ Older(d)' = Older(d)
        BY <1>0, <2>0, <2>1, <2>3, <3>3, SMT DEF Older
      <4>2. 0 <= x
        <5>1. 0 <= Size - 1 - O /\ 0 * Budget = 0
          BY <1>0, <2>0, <4>1, SMT
        <5> HIDE DEF O
        <5> QED
          BY <3>1, <5>1, Times
      <4> HIDE DEF x, O
      <4>3. charged'[d] <= x + UsedOn(d)'
        BY <1>2, <1>7, <2>1, <3>1, <3>2, <3>3, <4>2, SMT
      <4> QED
        BY <1>0, <4>1, <4>3 DEF OnDate, x, O
    <3>4. CASE T < d
      <4>1. w \in Older(d) /\ Older(d)' = Older(d) \ {w}
        BY <1>0, <2>3, <3>4 DEF Older
      <4>2. Cardinality(Older(d)') = O - 1
        BY <2>0, <4>1, OneLess
      <4>3. (Size - 1 - (O - 1)) * Budget = x + Budget
        <5>1. Size - 1 - (O - 1) = (Size - 1 - O) + 1
          BY <2>0, SMT
        <5> HIDE DEF O
        <5> QED
          BY <3>1, <5>1, Times
      <4>4. charged'[d] = charged[d] /\ UsedOn(d)' = 0
        BY <1>7, <2>1, <3>4, SMT
      <4> HIDE DEF x
      <4>5. charged'[d] = 0 \/ charged'[d] <= (x + Budget) + UsedOn(d)'
        BY <1>0, <2>1, <3>1, <3>2, <4>4, SMT
      <4> QED
        BY <1>0, <4>2, <4>3, <4>5 DEF OnDate
    <3> QED
      BY <1>0, <2>1, <3>3, <3>4, SMT
  <2>7. AfterDate(d)'
    <3> SUFFICES ASSUME day > d PROVE AfterDate(d)'
      BY <1>0 DEF AfterDate
    <3> DEFINE full == (Size - 1) * Budget
               here == (2 * Size - 2 - H) * Budget
               away == (2 * Size - 1 - H) * Budget
    <3>1. /\ full \in Int /\ here \in Int /\ away \in Int /\ away = here + Budget
      <4>1. /\ Size - 1 \in Int /\ 2 * Size - 2 - H \in Int /\ 2 * Size - 1 - H \in Int
            /\ 2 * Size - 1 - H = (2 * Size - 2 - H) + 1
        BY <2>0, SMT
      <4> HIDE DEF H
      <4> QED
        BY <4>1, Times
    <3>2. /\ Holding(d) = Worker => charged[d] <= full + UsedOn(d)
          /\ Holding(d) # Worker /\ d = date => charged[d] <= here + UsedOn(d)
          /\ Holding(d) # Worker /\ d # date => charged[d] <= away
      BY <1>0, <2>4 DEF AfterDate, UsedOn
    <3>3. CASE T = d
      <4>1. /\ w \in Holding(d) /\ Holding(d)' = Holding(d) \ {w} /\ Holding(d)' # Worker
            /\ date' = d
        BY <1>0, <2>2, <3>3 DEF Holding
      <4>2. Cardinality(Holding(d)') = H - 1
        BY <2>0, <4>1, OneLess
      <4>3. (2 * Size - 2 - (H - 1)) * Budget = away
        <5>1. 2 * Size - 2 - (H - 1) = 2 * Size - 1 - H
          BY <2>0, SMT
        <5> QED
          BY <5>1
      <4>4. Holding(d) = Worker => full = away
        <5>1. Holding(d) = Worker => Size - 1 = 2 * Size - 1 - H
          BY <2>0, SMT DEF Size
        <5> QED
          BY <5>1
      <4>5. d # date => UsedOn(d) = 0
        BY DEF UsedOn
      <4> HIDE DEF full, here, away
      <4>6. charged'[d] <= away + used'
        BY <1>0, <1>2, <1>7, <2>1, <3>1, <3>2, <3>3, <4>4, <4>5, SMT
      <4> QED
        BY <4>1, <4>2, <4>3, <4>6 DEF AfterDate
    <3>4. CASE T # d
      <4>1. w \notin Holding(d) /\ Holding(d) # Worker /\ Holding(d)' = Holding(d)
        BY <1>0, <2>2, <3>4 DEF Holding
      <4>2. charged'[d] = charged[d] /\ date' # d
        BY <1>0, <1>7, <3>4
      <4> HIDE DEF full, here, away
      <4>3. charged'[d] <= away
        BY <1>0, <2>1, <3>1, <3>2, <4>1, <4>2, SMT
      <4> QED
        BY <4>1, <4>2, <4>3 DEF AfterDate, away
    <3> QED
      BY <3>3, <3>4
  <2> QED
    BY <2>5, <2>6, <2>7
<1>13. OverspendPace'
  BY <1>12 DEF OverspendPace
<1> QED
  BY <1>3, <1>5, <1>6, <1>10, <1>11, <1>13 DEF IInv, TypeOK

LEMMA QuietOK == IInv /\ UNCHANGED vars => IInv'
<1> SUFFICES ASSUME IInv, UNCHANGED vars PROVE IInv'
  OBVIOUS
<1> USE DEF vars, pool
<1>1. OverspendNeedsCrossing' /\ TrackerInStep' /\ OverspendPace'
  BY TrackerApart
<1>2. TypeOK' /\ CallsBalance'
  BY DEF IInv, TypeOK, FlagTypeOK, CountTypeOK, CallsBalance, Idle, tracker
<1> QED
  BY <1>1, <1>2 DEF IInv

-----------------------------------------------------------------------------
THEOREM EvaluatorInvariant == Spec => []IInv
<1>1. IInv /\ [Next]_vars => IInv'
  <2> SUFFICES ASSUME IInv, [Next]_vars PROVE IInv'
    OBVIOUS
  <2>1. CASE UNCHANGED vars
    BY <2>1, QuietOK
  <2>2. ASSUME NEW w \in Worker, Thread(w) PROVE IInv'
    BY <2>2, OutsideTrackerOK, ReadDateOK, ConsumeOK DEF Thread
  <2> QED
    BY <2>1, <2>2, MaybeEvaluateOK, MidnightOK DEF Next, Quiet
<1> QED
  BY <1>1, EvalInitOK, PTL DEF Spec

(* Without a crossing at midnight no date is charged more than the budget, *)
(* however many threads race for the tracker (consume's check and charge   *)
(* share one critical section).                                            *)
THEOREM BudgetHoldsWithoutCrossing == Spec => []OverspendNeedsCrossing
<1>1. IInv => OverspendNeedsCrossing
  BY DEF IInv
<1> QED
  BY <1>1, EvaluatorInvariant, PTL

(* With crossings, a date is charged at most 2 * threads - 1 budgets, for  *)
(* every number of threads and of midnights.                               *)
THEOREM WorstCaseAtMidnight == Spec => []OverspendIsBounded
<1>1. IInv => OverspendIsBounded
  <2> SUFFICES ASSUME IInv, NEW d \in Day
               PROVE  charged[d] <= (2 * Cardinality(Worker) - 1) * Budget
    BY DEF OverspendIsBounded
  <2> DEFINE H == Cardinality(Holding(d))
             O == Cardinality(Older(d))
             bound == (2 * Size - 1) * Budget
  <2>1. /\ Size \in Nat \ {0} /\ H \in Nat /\ O \in Nat
    BY Threads DEF Holding, Older
  <2>2. /\ charged[d] \in Nat /\ used <= Budget /\ used \in Nat /\ Budget \in Nat
        /\ d \in Nat /\ day \in Nat
        /\ BeforeDate(d) /\ OnDate(d) /\ AfterDate(d)
    BY EvaluatorBounds DEF IInv, TypeOK, CountTypeOK, TrackerInStep, OverspendPace, Day
  <2>3. UsedOn(d) \in Nat /\ UsedOn(d) <= Budget
    BY <2>2, SMT DEF UsedOn
  <2>4. ASSUME NEW a \in Int, a + 1 <= 2 * Size - 1
        PROVE  a * Budget \in Int /\ a * Budget + Budget <= bound
    <3>1. a + 1 \in Int /\ 2 * Size - 1 \in Int
      BY <2>1, SMT
    <3>2. (a + 1) * Budget = a * Budget + Budget /\ (a + 1) * Budget <= (2 * Size - 1) * Budget
      BY <2>4, <3>1, Times
    <3> QED
      BY <3>1, <3>2, Times
  <2>5. /\ 0 * Budget = 0 /\ -1 * Budget + Budget = 0 /\ bound \in Int
        /\ (2 * Size - 1 - H) * Budget <= bound /\ (2 * Size - 1 - H) * Budget \in Int
        /\ Size - 1 - O \in Int /\ Size - 1 \in Int /\ 2 * Size - 2 - H \in Int
        /\ Size - 1 - O + 1 <= 2 * Size - 1 /\ Size - 1 + 1 <= 2 * Size - 1
        /\ 2 * Size - 2 - H + 1 <= 2 * Size - 1 /\ -1 + 1 <= 2 * Size - 1
    <3>1. 2 * Size - 1 - H \in Int /\ 2 * Size - 1 \in Int /\ 2 * Size - 1 - H <= 2 * Size - 1
      BY <2>1, SMT
    <3>2. bound \in Int /\ (2 * Size - 1 - H) * Budget <= bound
          /\ (2 * Size - 1 - H) * Budget \in Int
      BY <3>1, Times
    <3>3. 0 * Budget = 0 /\ -1 * Budget + Budget = 0
      BY <2>2, SMT
    <3> HIDE DEF bound
    <3> QED
      BY <2>1, <3>2, <3>3, SMT
  <2> HIDE DEF bound, H, O
  <2>6. 0 <= bound
    BY <2>2, <2>4, <2>5, SMT
  <2>7. ASSUME day < d PROVE charged[d] <= bound
    BY <2>2, <2>6, <2>7 DEF BeforeDate
  <2>8. ASSUME day = d PROVE charged[d] <= bound
    <3> DEFINE x == (Size - 1 - O) * Budget
    <3>1. x \in Int /\ x + Budget <= bound
      BY <2>4, <2>5
    <3>2. charged[d] = 0 \/ charged[d] <= x + UsedOn(d)
      BY <2>2, <2>8 DEF OnDate, O
    <3> HIDE DEF x
    <3> QED
      BY <2>2, <2>3, <2>5, <2>6, <3>1, <3>2, SMT
  <2>9. ASSUME day > d PROVE charged[d] <= bound
    <3> DEFINE full == (Size - 1) * Budget
               here == (2 * Size - 2 - H) * Budget
               away == (2 * Size - 1 - H) * Budget
    <3>1. /\ full \in Int /\ here \in Int /\ away \in Int
          /\ full + Budget <= bound /\ here + Budget <= bound /\ away <= bound
      BY <2>4, <2>5
    <3>2. charged[d] <= full + UsedOn(d) \/ charged[d] <= here + used \/ charged[d] <= away
      BY <2>2, <2>9 DEF AfterDate, H
    <3> HIDE DEF full, here, away
    <3> QED
      BY <2>2, <2>3, <2>5, <3>1, <3>2, SMT
  <2>10. charged[d] <= bound
    BY <2>2, <2>7, <2>8, <2>9, SMT
  <2> QED
    BY <2>10 DEF bound, Size
<1> QED
  BY <1>1, EvaluatorInvariant, PTL

(* No pool thread leaves its places in _call_judge, and the tracker's dates *)
(* and counts keep their ranges, whatever the judge and the client do.      *)
THEOREM EvaluatorTypes == Spec => []TypeOK
<1>1. IInv => TypeOK
  BY DEF IInv
<1> QED
  BY <1>1, EvaluatorInvariant, PTL

=============================================================================
