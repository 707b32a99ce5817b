--------------------------- MODULE LogStore_proofs --------------------------
(***************************************************************************)
(* Proofs about LogStore: one worker per process, the agreement of table   *)
(* and stream, and the implementation of LineLog, for any callers, lines,  *)
(* queue size and retention.                                               *)
(***************************************************************************)
EXTENDS LogStoreRefinement, SequenceTheorems, TLAPS

Places  == {"idle", "start", "lock", "recheck", "mark", "put"}
Fates   == {"new", "calling", "unsaved", "queued", "dropped", "stored", "failed", "killed"}
Settled == {"stored", "failed", "killed"}

LEMMA StoreBounds ==
  /\ NoCaller \notin Caller /\ PlainLine \subseteq Line /\ Nothing \notin Item
  /\ QueueSize \in Nat \ {0} /\ Retention \in Nat /\ MaxDay \in Nat /\ MaxRestarts \in Nat
BY LogStoreAssumption, NothingAssumption

(* What is carried, queued, held or stored is an item.                     *)
LEMMA Items ==
  ASSUME TypeOK
  PROVE  /\ \A c \in Caller : carried[c] # Nothing =>
              carried[c] \in Item /\ carried[c].line \in Line
         /\ \A i \in DOMAIN queue : queue[i] \in Item /\ queue[i].line \in Line
         /\ hand # Nothing => hand \in Item /\ hand.line \in Line
         /\ \A k \in DOMAIN rows : rows[k] \in Item /\ rows[k].line \in Line
<1>1. \A i \in Item : i.line \in Line
  BY DEF Item
<1>2. \A i \in DOMAIN queue : queue[i] \in Item
  BY DEF TypeOK
<1> QED
  BY <1>1, <1>2 DEF TypeOK

-----------------------------------------------------------------------------
(* The parts of the invariant that an action leaves alone.                 *)

LEMMA CallersApart ==
  ASSUME IInv, UNCHANGED callerVars, worker' = "none" <=> worker = "none",
         \A n \in Line : fate[n] = "calling" => fate'[n] = "calling"
  PROVE  LockIsHeld' /\ CarriedIsCalling'
<1> USE DEF callerVars
<1>1. LockIsHeld'
  BY DEF IInv, LockIsHeld
<1>2. CarriedIsCalling'
  BY Items DEF IInv, CarriedIsCalling
<1> QED
  BY <1>1, <1>2

LEMMA QueueApart ==
  ASSUME IInv, UNCHANGED <<queue, hand>>,
         \A n \in Line : fate[n] = "queued" => fate'[n] = "queued"
  PROVE  QueueIsQueued' /\ (Len(queue) <= QueueSize)'
BY Items DEF IInv, QueueIsQueued, InHand

LEMMA RowsApart ==
  ASSUME IInv, UNCHANGED rows,
         \A n \in Line : fate[n] = "stored" => fate'[n] = "stored"
  PROVE  RowsAreStored'
BY Items DEF IInv, RowsAreStored

LEMMA StreamApart ==
  ASSUME IInv, RowsAreStored', UNCHANGED <<published, passed>>,
         \A n \in Line : fate'[n] = "stored" => fate[n] = "stored",
         \A n \in Line : fate[n] \in Settled => fate'[n] \in Settled,
         \A n \in Line : InHand(n) => InHand(n)' \/ fate'[n] \in Settled
  PROVE  TableAndStreamAgree'
<1> SUFFICES ASSUME NEW n \in PlainLine
             PROVE  /\ fate'[n] = "stored" => n \in published \cup passed
                    /\ n \in published /\ ~InHand(n)' => fate'[n] \in Settled
                    /\ \A k \in DOMAIN rows' : rows'[k].line = n => fate'[n] = "stored"
  BY DEF TableAndStreamAgree, Settled
<1>1. n \in Line
  BY StoreBounds
<1>2. fate[n] = "stored" => n \in published \cup passed
  BY DEF IInv, TableAndStreamAgree
<1>3. n \in published /\ ~InHand(n) => fate[n] \in Settled
  BY DEF IInv, TableAndStreamAgree, Settled
<1> QED
  BY <1>1, <1>2, <1>3 DEF RowsAreStored

(* One line's fate is decided.                                             *)
LEMMA SettleOne ==
  ASSUME TypeOK, NEW n \in Line, NEW how \in Fates, Settle(n, how)
  PROVE  /\ fate' \in [Line -> Fates]
         /\ \A m \in Line : fate'[m] = IF m = n THEN how ELSE fate[m]
BY DEF TypeOK, Settle, Fates

LEMMA StoreInitOK == Init => IInv
<1> SUFFICES ASSUME Init PROVE IInv
  OBVIOUS
<1> USE StoreBounds DEF Init
<1>1. TypeOK
  <2>1. today \in Day /\ restarts \in Nat /\ lastId \in Nat /\ threads \in Nat /\ OneWorker
    BY SMT DEF Day, OneWorker
  <2>2. queue \in Seq(Item)
    BY EmptySeq
  <2>3. DOMAIN rows \subseteq 1 .. lastId /\ rows \in [DOMAIN rows -> Item]
    <3>1. DOMAIN rows = {}
      BY SMT
    <3> QED
      BY <3>1, SMT
  <2> QED
    BY <2>1, <2>2, <2>3 DEF TypeOK
<1>2. Len(queue) <= QueueSize
  BY SMT
<1>3. DOMAIN queue = {} /\ DOMAIN rows = {}
  BY SMT
<1>4. LockIsHeld /\ HandIsFull /\ CarriedIsCalling /\ QueueIsQueued
  BY <1>3 DEF LockIsHeld, HandIsFull, CarriedIsCalling, QueueIsQueued
<1>5. WrittenIsOffered /\ RowsAreStored /\ TableAndStreamAgree
  BY <1>3 DEF WrittenIsOffered, RowsAreStored, TableAndStreamAgree
<1> QED
  BY <1>1, <1>2, <1>4, <1>5 DEF IInv

-----------------------------------------------------------------------------
(* The callers.                                                            *)

LEMMA SaveOK ==
  ASSUME IInv, NEW c \in Caller, NEW n \in Line, Save(c, n)
  PROVE  IInv'
<1> USE DEF Save, workerVars, sinkVars, envVars
<1> DEFINE item == [line |-> n, day |-> today]
<1>1. PICK how \in {"calling", "unsaved"} : Settle(n, how)
  BY DEF Save
<1>2. /\ fate' \in [Line -> Fates] /\ fate[n] = "new"
      /\ \A m \in Line : fate'[m] = IF m = n THEN how ELSE fate[m]
  BY <1>1, SettleOne DEF IInv, Fates
<1>3. item \in Item /\ item.line = n
  BY DEF IInv, TypeOK, Item
<1>4. \/ pc' = pc /\ carried' = carried
      \/ /\ pc' = [pc EXCEPT ![c] = "start"] /\ carried' = [carried EXCEPT ![c] = item]
         /\ fate'[n] = "calling"
  BY <1>2 DEF Goto, Settle, IInv, TypeOK
<1> HIDE DEF item
<1>5. TypeOK'
  <2>1. pc' \in [Caller -> Places] /\ carried' \in [Caller -> Item \cup {Nothing}]
    BY <1>3, <1>4 DEF IInv, TypeOK, Places
  <2> QED
    BY <1>2, <2>1 DEF IInv, TypeOK, Places, Fates, OneWorker, Item, Day
<1>6. LockIsHeld'
  BY <1>4 DEF IInv, TypeOK, LockIsHeld
<1>7. CarriedIsCalling'
  <2>1. CASE pc' = pc /\ carried' = carried
    BY <1>2, <2>1, Items DEF IInv, CarriedIsCalling
  <2>2. CASE /\ pc' = [pc EXCEPT ![c] = "start"] /\ carried' = [carried EXCEPT ![c] = item]
             /\ fate'[n] = "calling"
    <3>1. \A d \in Caller \ {c} : /\ pc'[d] = pc[d] /\ carried'[d] = carried[d]
      BY <2>2 DEF IInv, TypeOK
    <3>2. pc'[c] = "start" /\ carried'[c] = item
      BY <2>2 DEF IInv, TypeOK
    <3>3. \A d \in Caller : pc[d] # "idle" =>
            /\ carried[d] # Nothing /\ carried[d].line \in Line
            /\ carried[d].line # n /\ fate'[carried[d].line] = "calling"
      BY <1>2, Items DEF IInv, CarriedIsCalling
    <3>4. item # Nothing
      BY <1>3, StoreBounds
    <3> QED
      BY <1>3, <2>2, <3>1, <3>2, <3>3, <3>4 DEF IInv, CarriedIsCalling
  <2> QED
    BY <1>4, <2>1, <2>2
<1>8. QueueIsQueued' /\ (Len(queue) <= QueueSize)' /\ RowsAreStored'
  BY <1>2, QueueApart, RowsApart
<1>9. TableAndStreamAgree'
  BY <1>2, <1>8, StreamApart DEF Settled, InHand
<1>10. HandIsFull' /\ WrittenIsOffered'
  BY DEF IInv, HandIsFull, WrittenIsOffered
<1> QED
  BY <1>5, <1>6, <1>7, <1>8, <1>9, <1>10 DEF IInv

(* The steps of start() move one caller and decide no line's fate.         *)
LEMMA StartStep ==
  ASSUME IInv, NEW c \in Caller, NEW place \in Places \ {"idle"}, Goto(c, place),
         pc[c] \in Places \ {"idle"}, LockIsHeld', OneWorker',
         holder' \in Caller \cup {NoCaller}, started' \in BOOLEAN, threads' \in Nat,
         \/ worker' = worker
         \/ worker = "none" /\ worker' = "waiting",
         UNCHANGED <<envVars, carried, queue, hand, purged, sinkVars, fate>>
  PROVE  IInv'
<1> USE DEF envVars, sinkVars
<1>1. /\ pc' \in [Caller -> Places]
      /\ \A d \in Caller : pc'[d] # "idle" <=> pc[d] # "idle"
  BY DEF Goto, IInv, TypeOK, Places
<1>2. TypeOK'
  BY <1>1 DEF IInv, TypeOK, Places, Item, Day
<1>3. CarriedIsCalling'
  BY <1>1 DEF IInv, CarriedIsCalling
<1>4. QueueIsQueued' /\ (Len(queue) <= QueueSize)' /\ RowsAreStored'
  BY QueueApart, RowsApart
<1>5. TableAndStreamAgree'
  BY <1>4, StreamApart DEF InHand
<1>6. HandIsFull' /\ WrittenIsOffered'
  BY DEF IInv, HandIsFull, WrittenIsOffered
<1> QED
  BY <1>2, <1>3, <1>4, <1>5, <1>6 DEF IInv

LEMMA StartLooksOK ==
  ASSUME IInv, NEW c \in Caller, StartLooks(c)
  PROVE  IInv'
<1>1. PICK place \in {"put", "lock"} : Goto(c, place)
  BY DEF StartLooks
<1>2. LockIsHeld'
  BY <1>1 DEF StartLooks, workerVars, Goto, IInv, TypeOK, LockIsHeld
<1> QED
  BY <1>1, <1>2, StartStep DEF StartLooks, workerVars, IInv, TypeOK, OneWorker, Places

LEMMA StartLocksOK ==
  ASSUME IInv, NEW c \in Caller, StartLocks(c)
  PROVE  IInv'
<1>1. LockIsHeld'
  <2>1. \A d \in Caller : pc'[d] = IF d = c THEN "recheck" ELSE pc[d]
    BY DEF StartLocks, Goto, IInv, TypeOK
  <2> QED
    BY <2>1, StoreBounds DEF StartLocks, workerVars, IInv, LockIsHeld
<1> QED
  BY <1>1, StartStep DEF StartLocks, workerVars, IInv, TypeOK, OneWorker, Places

LEMMA StartRechecksOK ==
  ASSUME IInv, NEW c \in Caller, StartRechecks(c)
  PROVE  IInv'
<1>1. holder = c /\ \A d \in Caller \ {c} : pc[d] \notin {"recheck", "mark"}
  BY DEF StartRechecks, IInv, LockIsHeld
<1>2. CASE started
  <2>1. \A d \in Caller : pc'[d] = IF d = c THEN "put" ELSE pc[d]
    BY <1>2 DEF StartRechecks, Goto, IInv, TypeOK
  <2>2. LockIsHeld'
    BY <1>1, <1>2, <2>1, StoreBounds DEF StartRechecks, IInv, LockIsHeld
  <2> QED
    BY <1>2, <2>2, StartStep DEF StartRechecks, IInv, TypeOK, OneWorker, Places
<1>3. CASE ~started
  <2>1. \A d \in Caller : pc'[d] = IF d = c THEN "mark" ELSE pc[d]
    BY <1>3 DEF StartRechecks, Goto, IInv, TypeOK
  <2>2. /\ threads = 0 /\ threads' = 1 /\ threads' <= 1 /\ worker = "none"
        /\ worker' = "waiting" /\ holder' = holder /\ started' = started
    <3>1. threads = 0
      BY <1>1, <1>3 DEF StartRechecks, IInv, LockIsHeld
    <3> QED
      BY <1>3, <3>1, SMT DEF StartRechecks, Spawn, IInv, LockIsHeld
  <2>3. LockIsHeld'
    BY <1>1, <1>3, <2>1, <2>2 DEF IInv, LockIsHeld
  <2> QED
    BY <1>1, <1>3, <2>2, <2>3, StartStep DEF StartRechecks, IInv, TypeOK, OneWorker, Places
<1> QED
  BY <1>2, <1>3

LEMMA StartRaisesOK ==
  ASSUME IInv, NEW c \in Caller, StartRaises(c)
  PROVE  IInv'
<1> USE DEF workerVars, sinkVars, envVars
<1>1. PICK i \in Item : i = carried[c] /\ i.line \in Line /\ fate[i.line] = "calling"
  BY Items DEF StartRaises, IInv, CarriedIsCalling
<1>2. /\ fate' \in [Line -> Fates]
      /\ \A m \in Line : fate'[m] = IF m = i.line THEN "unsaved" ELSE fate[m]
  BY <1>1, SettleOne DEF StartRaises, IInv, Fates
<1>3. /\ \A d \in Caller : /\ pc'[d] = IF d = c THEN "idle" ELSE pc[d]
                           /\ carried'[d] = IF d = c THEN Nothing ELSE carried[d]
      /\ pc' \in [Caller -> Places] /\ carried' \in [Caller -> Item \cup {Nothing}]
      /\ pc[c] = "recheck"
  BY DEF StartRaises, Goto, IInv, TypeOK, Places
<1>4. TypeOK'
  BY <1>2, <1>3 DEF StartRaises, IInv, TypeOK, Places, Fates, OneWorker, Item, Day
<1>5. LockIsHeld'
  <2>1. \A d \in Caller \ {c} : pc[d] \notin {"recheck", "mark"}
    BY <1>3 DEF IInv, LockIsHeld
  <2> QED
    BY <1>3, <2>1, StoreBounds DEF StartRaises, IInv, LockIsHeld
<1>6. CarriedIsCalling'
  <2>1. \A d \in Caller \ {c} : pc[d] # "idle" =>
          /\ carried[d] # Nothing /\ carried[d].line \in Line
          /\ carried[d].line # i.line /\ fate[carried[d].line] = "calling"
    BY <1>1, <1>3, Items DEF IInv, CarriedIsCalling
  <2> QED
    BY <1>2, <1>3, <2>1 DEF IInv, CarriedIsCalling
<1>7. QueueIsQueued' /\ (Len(queue) <= QueueSize)' /\ RowsAreStored'
  BY <1>1, <1>2, QueueApart, RowsApart DEF StartRaises
<1>8. TableAndStreamAgree'
  BY <1>1, <1>2, <1>7, StreamApart DEF StartRaises, InHand, Settled
<1>9. HandIsFull' /\ WrittenIsOffered'
  BY DEF StartRaises, IInv, HandIsFull, WrittenIsOffered
<1> QED
  BY <1>4, <1>5, <1>6, <1>7, <1>8, <1>9 DEF IInv

LEMMA StartMarksOK ==
  ASSUME IInv, NEW c \in Caller, StartMarks(c)
  PROVE  IInv'
<1>1. /\ holder = c /\ \A d \in Caller \ {c} : pc[d] \notin {"recheck", "mark"}
      /\ threads # 0
  BY DEF StartMarks, IInv, LockIsHeld
<1>2. \A d \in Caller : pc'[d] = IF d = c THEN "put" ELSE pc[d]
  BY DEF StartMarks, Goto, IInv, TypeOK
<1>3. LockIsHeld'
  BY <1>1, <1>2, StoreBounds DEF StartMarks, workerVars, IInv, LockIsHeld
<1> QED
  BY <1>3, StartStep DEF StartMarks, workerVars, IInv, TypeOK, OneWorker, Places

LEMMA PutOK ==
  ASSUME IInv, NEW c \in Caller, Put(c)
  PROVE  IInv'
<1> USE DEF workerVars, sinkVars, envVars
<1>1. PICK i \in Item : i = carried[c] /\ i.line \in Line /\ fate[i.line] = "calling"
  BY Items DEF Put, IInv, CarriedIsCalling
<1>2. PICK how \in {"queued", "dropped"} :
        /\ Settle(i.line, how)
        /\ \/ how = "queued" /\ Len(queue) < QueueSize /\ queue' = Append(queue, i)
           \/ how = "dropped" /\ queue' = queue
  BY <1>1 DEF Put
<1>3. /\ fate' \in [Line -> Fates]
      /\ \A m \in Line : fate'[m] = IF m = i.line THEN how ELSE fate[m]
  BY <1>1, <1>2, SettleOne DEF IInv, Fates
<1>4. /\ \A d \in Caller : /\ pc'[d] = IF d = c THEN "idle" ELSE pc[d]
                           /\ carried'[d] = IF d = c THEN Nothing ELSE carried[d]
      /\ pc' \in [Caller -> Places] /\ carried' \in [Caller -> Item \cup {Nothing}]
      /\ pc[c] = "put"
  BY DEF Put, Goto, IInv, TypeOK, Places
<1>5. TypeOK'
  <2>1. queue' \in Seq(Item)
    <3>1. queue \in Seq(Item)
      BY DEF IInv, TypeOK
    <3> QED
      BY <1>2, <3>1, AppendProperties
  <2> QED
    BY <1>3, <1>4, <2>1 DEF Put, IInv, TypeOK, Places, Fates, OneWorker, Item, Day
<1>6. LockIsHeld'
  BY <1>4 DEF Put, IInv, LockIsHeld
<1>7. CarriedIsCalling'
  <2>1. \A d \in Caller \ {c} : pc[d] # "idle" =>
          /\ carried[d] # Nothing /\ carried[d].line \in Line
          /\ carried[d].line # i.line /\ fate[carried[d].line] = "calling"
    BY <1>1, <1>4, Items DEF IInv, CarriedIsCalling
  <2> QED
    BY <1>3, <1>4, <2>1 DEF IInv, CarriedIsCalling
<1>8. QueueIsQueued' /\ (Len(queue) <= QueueSize)'
  <2>1. CASE queue' = queue
    BY <1>1, <1>3, <2>1, QueueApart DEF Put
  <2>2. CASE how = "queued" /\ Len(queue) < QueueSize /\ queue' = Append(queue, i)
    <3>1. /\ Len(queue) \in Nat /\ Len(queue') = Len(queue) + 1
          /\ DOMAIN queue = 1 .. Len(queue) /\ DOMAIN queue' = 1 .. Len(queue) + 1
          /\ \A j \in 1 .. Len(queue) : queue'[j] = queue[j]
          /\ queue'[Len(queue) + 1] = i
      BY <1>5, <2>2, AppendProperties, LenProperties DEF IInv, TypeOK
    <3>2. \A j \in 1 .. Len(queue) :
            /\ queue[j].line \in Line /\ fate[queue[j].line] = "queued"
            /\ ~InHand(queue[j].line)
            /\ \A k \in (1 .. Len(queue)) \ {j} : queue[j].line # queue[k].line
      BY <3>1, Items DEF IInv, QueueIsQueued
    <3>3. hand # Nothing => hand.line \in Line /\ fate[hand.line] = "queued"
      BY Items DEF IInv, QueueIsQueued
    <3>4. Len(queue') <= QueueSize
      BY <2>2, <3>1, StoreBounds, SMT
    <3>5. \A j \in 1 .. Len(queue) + 1 : j \in 1 .. Len(queue) \/ j = Len(queue) + 1
      BY <3>1, SMT
    <3>6. /\ \A j \in DOMAIN queue' :
               /\ fate'[queue'[j].line] = "queued" /\ ~InHand(queue'[j].line)
               /\ \A k \in DOMAIN queue' \ {j} : queue'[j].line # queue'[k].line
          /\ hand # Nothing => fate'[hand.line] = "queued"
      BY <1>1, <1>3, <2>2, <3>1, <3>2, <3>3, <3>5 DEF InHand
    <3> QED
      BY <3>4, <3>6 DEF Put, QueueIsQueued, InHand
  <2> QED
    BY <1>2, <2>1, <2>2
<1>9. RowsAreStored' /\ TableAndStreamAgree'
  <2>1. RowsAreStored'
    BY <1>1, <1>3, RowsApart DEF Put
  <2> QED
    BY <1>1, <1>3, <2>1, StreamApart DEF Put, InHand, Settled
<1>10. HandIsFull' /\ WrittenIsOffered'
  BY DEF Put, IInv, HandIsFull, WrittenIsOffered
<1> QED
  BY <1>5, <1>6, <1>7, <1>8, <1>9, <1>10 DEF IInv

LEMMA CallerStepOK ==
  ASSUME IInv, NEW c \in Caller, CallerStep(c)
  PROVE  IInv'
BY SaveOK, StartLooksOK, StartLocksOK, StartRechecksOK, StartRaisesOK, StartMarksOK, PutOK
   DEF CallerStep

-----------------------------------------------------------------------------
(* The worker.                                                             *)

LEMMA GetOK ==
  ASSUME IInv, Get
  PROVE  IInv'
<1> USE DEF callerVars, sinkVars, envVars
<1>1. /\ hand = Nothing /\ queue # <<>> /\ hand' = Head(queue) /\ queue' = Tail(queue)
      /\ queue \in Seq(Item) /\ fate' = fate /\ worker' = "holding" /\ worker = "waiting"
  BY DEF Get, IInv, HandIsFull, TypeOK
<1>2. /\ Len(queue) \in Nat \ {0} /\ DOMAIN queue = 1 .. Len(queue)
      /\ hand' = queue[1] /\ hand' \in Item
      /\ queue' \in Seq(Item) /\ Len(queue') = Len(queue) - 1
      /\ DOMAIN queue' = 1 .. Len(queue) - 1
      /\ \A i \in 1 .. Len(queue) - 1 : queue'[i] = queue[i + 1]
  BY <1>1, HeadTailProperties, LenProperties, EmptySeq, SMT
<1>3. TypeOK'
  BY <1>1, <1>2 DEF Get, IInv, TypeOK, OneWorker, Item, Day
<1>4. LockIsHeld' /\ CarriedIsCalling'
  BY <1>1, CallersApart DEF Get
<1>5. QueueIsQueued' /\ (Len(queue) <= QueueSize)'
  <2>1. \A i \in 1 .. Len(queue) :
          /\ fate[queue[i].line] = "queued"
          /\ \A j \in (1 .. Len(queue)) \ {i} : queue[i].line # queue[j].line
    BY <1>2 DEF IInv, QueueIsQueued
  <2>2. /\ 1 \in 1 .. Len(queue)
        /\ \A i \in 1 .. Len(queue) - 1 : i + 1 \in (1 .. Len(queue)) \ {1}
        /\ \A i, j \in 1 .. Len(queue) - 1 : i # j => i + 1 # j + 1
    BY <1>2, SMT
  <2>3. Len(queue') <= QueueSize
    BY <1>2, StoreBounds, SMT DEF IInv
  <2>4. \A i \in DOMAIN queue' :
          /\ fate[queue'[i].line] = "queued" /\ queue'[i].line # hand'.line
          /\ \A j \in DOMAIN queue' \ {i} : queue'[i].line # queue'[j].line
    <3> SUFFICES ASSUME NEW i \in 1 .. Len(queue) - 1
                 PROVE  /\ fate[queue'[i].line] = "queued" /\ queue'[i].line # hand'.line
                        /\ \A j \in (1 .. Len(queue) - 1) \ {i} : queue'[i].line # queue'[j].line
      BY <1>2
    <3>1. queue'[i] = queue[i + 1] /\ i + 1 \in 1 .. Len(queue) /\ i + 1 # 1
      BY <1>2, <2>2
    <3> HIDE DEF callerVars
    <3>2. \A j \in (1 .. Len(queue) - 1) \ {i} :
            queue'[j] = queue[j + 1] /\ j + 1 \in (1 .. Len(queue)) \ {i + 1}
      BY <1>2, <2>2
    <3> QED
      BY <1>2, <2>1, <2>2, <3>1, <3>2
  <2>5. fate[hand'.line] = "queued"
    BY <1>2, <2>1, <2>2
  <2> QED
    BY <1>1, <2>3, <2>4, <2>5 DEF QueueIsQueued, InHand
<1>6. RowsAreStored' /\ TableAndStreamAgree'
  <2>1. RowsAreStored'
    BY <1>1, RowsApart DEF Get
  <2> QED
    BY <1>1, <2>1, StreamApart DEF Get, InHand
<1>7. HandIsFull' /\ WrittenIsOffered'
  BY <1>1, <1>2, StoreBounds DEF HandIsFull, WrittenIsOffered
<1> QED
  BY <1>3, <1>4, <1>5, <1>6, <1>7 DEF IInv

(* The worker goes on with the line in its hands.                          *)
LEMMA WorkerGoesOn ==
  ASSUME IInv, hand # Nothing,
         worker' \in {"connected", "ready", "inserted", "written"},
         UNCHANGED <<envVars, callerVars, queue, hand, lastId, fate>>, purged' \in BOOLEAN,
         rows' \in [DOMAIN rows' -> Item], DOMAIN rows' \subseteq DOMAIN rows, RowsAreStored',
         published' \subseteq PlainLine, passed' \subseteq PlainLine,
         WrittenIsOffered', TableAndStreamAgree'
  PROVE  IInv'
<1> USE DEF callerVars, envVars
<1>1. TypeOK'
  BY DEF IInv, TypeOK, OneWorker, Item, Day
<1>2. worker # "none"
  BY DEF IInv, HandIsFull
<1>3. LockIsHeld' /\ CarriedIsCalling'
  BY <1>2, CallersApart
<1>4. QueueIsQueued' /\ (Len(queue) <= QueueSize)'
  BY QueueApart
<1>5. HandIsFull'
  BY DEF HandIsFull
<1> QED
  BY <1>1, <1>3, <1>4, <1>5 DEF IInv

LEMMA ConnectOK ==
  ASSUME IInv, Connect
  PROVE  IInv'
<1> USE DEF sinkVars
<1>1. hand # Nothing /\ RowsAreStored' /\ TableAndStreamAgree'
  <2>1. RowsAreStored'
    BY RowsApart DEF Connect
  <2> QED
    BY <2>1, StreamApart DEF Connect, InHand, IInv, HandIsFull
<1> QED
  BY <1>1, WorkerGoesOn DEF Connect, IInv, TypeOK, WrittenIsOffered

LEMMA PrepareOK ==
  ASSUME IInv, Prepare
  PROVE  IInv'
<1>1. /\ rows' \in [DOMAIN rows' -> Item] /\ DOMAIN rows' \subseteq DOMAIN rows
      /\ \A k \in DOMAIN rows' : rows'[k] = rows[k]
  BY DEF Prepare, Recent, IInv, TypeOK
<1>2. RowsAreStored'
  BY <1>1 DEF Prepare, IInv, RowsAreStored
<1>3. hand # Nothing /\ TableAndStreamAgree'
  BY <1>2, StreamApart DEF Prepare, InHand, IInv, HandIsFull
<1> QED
  BY <1>1, <1>2, <1>3, WorkerGoesOn DEF Prepare, IInv, TypeOK, WrittenIsOffered

LEMMA InsertOK ==
  ASSUME IInv, Insert
  PROVE  IInv'
<1> USE DEF sinkVars
<1>1. hand # Nothing /\ RowsAreStored' /\ TableAndStreamAgree'
  <2>1. RowsAreStored'
    BY RowsApart DEF Insert
  <2> QED
    BY <2>1, StreamApart DEF Insert, InHand, IInv, HandIsFull
<1> QED
  BY <1>1, WorkerGoesOn DEF Insert, IInv, TypeOK, WrittenIsOffered

LEMMA PublishOK ==
  ASSUME IInv, Publish
  PROVE  IInv'
<1>1. hand # Nothing /\ hand \in Item /\ hand.line \in Line /\ hand' = hand
  BY Items DEF Publish, IInv, HandIsFull
<1>2. hand.line \in PlainLine
  BY DEF Publish, IInv, WrittenIsOffered
<1>3. /\ published \subseteq published' /\ passed \subseteq passed'
      /\ published' \subseteq published \cup {hand.line}
      /\ hand.line \in published' \cup passed'
      /\ published' \subseteq PlainLine /\ passed' \subseteq PlainLine
  BY <1>2 DEF Publish, IInv, TypeOK
<1>4. RowsAreStored'
  BY RowsApart DEF Publish
<1>5. TableAndStreamAgree'
  <2> SUFFICES ASSUME NEW n \in PlainLine
               PROVE  /\ fate[n] = "stored" => n \in published' \cup passed'
                      /\ n \in published' /\ ~InHand(n) => fate[n] \in Settled
                      /\ \A k \in DOMAIN rows : rows[k].line = n => fate[n] = "stored"
    BY DEF Publish, TableAndStreamAgree, InHand, Settled
  <2>1. /\ fate[n] = "stored" => n \in published \cup passed
        /\ n \in published /\ ~InHand(n) => fate[n] \in Settled
        /\ \A k \in DOMAIN rows : rows[k].line = n => fate[n] = "stored"
    BY DEF IInv, TableAndStreamAgree, Settled
  <2> QED
    BY <1>1, <1>3, <2>1 DEF InHand
<1>6. WrittenIsOffered'
  BY <1>1, <1>3 DEF WrittenIsOffered
<1> QED
  BY <1>1, <1>3, <1>4, <1>5, <1>6, WorkerGoesOn DEF Publish, IInv, TypeOK

(* The line in the worker's hands is settled.                              *)
LEMMA WorkerLetsGo ==
  ASSUME IInv, hand # Nothing, hand' = Nothing, worker' \in {"waiting", "dead"},
         NEW n \in Line, n = hand.line,
         NEW how \in {"stored", "failed"}, Settle(n, how),
         UNCHANGED <<envVars, callerVars, queue, purged, published, passed>>,
         lastId' \in Nat, DOMAIN rows' \subseteq 1 .. lastId',
         rows' \in [DOMAIN rows' -> Item],
         \A k \in DOMAIN rows' : \/ rows'[k].line = n /\ how = "stored"
                                 \/ k \in DOMAIN rows /\ rows'[k] = rows[k],
         how = "stored" /\ n \in PlainLine => n \in published \cup passed
  PROVE  IInv'
<1> USE DEF callerVars, envVars
<1>1. /\ fate' \in [Line -> Fates] /\ fate[n] = "queued"
      /\ \A m \in Line : fate'[m] = IF m = n THEN how ELSE fate[m]
  BY SettleOne DEF IInv, QueueIsQueued, Fates
<1>2. TypeOK'
  BY <1>1 DEF IInv, TypeOK, Fates, OneWorker, Item, Day
<1>3. LockIsHeld' /\ CarriedIsCalling'
  <2>1. worker # "none"
    BY DEF IInv, HandIsFull
  <2> QED
    BY <1>1, <2>1, CallersApart
<1>4. QueueIsQueued' /\ (Len(queue) <= QueueSize)'
  <2>1. \A i \in DOMAIN queue : queue[i].line \in Line /\ queue[i].line # n
    BY Items DEF IInv, QueueIsQueued, InHand
  <2> QED
    BY <1>1, <2>1 DEF IInv, QueueIsQueued, InHand
<1>5. RowsAreStored'
  <2> SUFFICES ASSUME NEW k \in DOMAIN rows' PROVE fate'[rows'[k].line] = "stored"
    BY DEF RowsAreStored
  <2>1. CASE rows'[k].line = n /\ how = "stored"
    BY <1>1, <2>1
  <2>2. CASE k \in DOMAIN rows /\ rows'[k] = rows[k]
    BY <1>1, <2>2, Items DEF IInv, RowsAreStored
  <2> QED
    BY <2>1, <2>2
<1>6. TableAndStreamAgree'
  <2> SUFFICES ASSUME NEW m \in PlainLine
               PROVE  /\ fate'[m] = "stored" => m \in published \cup passed
                      /\ m \in published => fate'[m] \in Settled
                      /\ \A k \in DOMAIN rows' : rows'[k].line = m => fate'[m] = "stored"
    BY DEF TableAndStreamAgree, InHand, Settled
  <2>1. /\ fate[m] = "stored" => m \in published \cup passed
        /\ m \in published /\ m # n => fate[m] \in Settled
        /\ m \in Line
    BY StoreBounds DEF IInv, TableAndStreamAgree, InHand, Settled
  <2> QED
    BY <1>1, <1>5, <2>1 DEF Settled, RowsAreStored
<1>7. HandIsFull' /\ WrittenIsOffered'
  BY DEF HandIsFull, WrittenIsOffered
<1> QED
  BY <1>2, <1>3, <1>4, <1>5, <1>6, <1>7 DEF IInv

LEMMA RaisesOK ==
  ASSUME IInv, ConnectRaises \/ WriteRaises
  PROVE  IInv'
<1> USE DEF sinkVars
<1>1. hand # Nothing /\ hand' = Nothing /\ worker' \in {"waiting", "dead"}
  BY DEF ConnectRaises, WriteRaises, IInv, HandIsFull
<1>2. PICK n \in Line : n = hand.line
  BY <1>1, Items DEF IInv
<1>3. /\ Settle(n, "failed") /\ UNCHANGED <<envVars, callerVars, queue, purged, published, passed>>
      /\ lastId' \in Nat /\ rows' = rows /\ DOMAIN rows' \subseteq 1 .. lastId'
      /\ rows' \in [DOMAIN rows' -> Item]
  BY <1>2 DEF ConnectRaises, WriteRaises, IInv, TypeOK
<1> QED
  BY <1>1, <1>2, <1>3, WorkerLetsGo

LEMMA CommitOK ==
  ASSUME IInv, Commit
  PROVE  IInv'
<1>1. hand # Nothing /\ hand \in Item /\ hand' = Nothing /\ worker' = "waiting"
  BY Items DEF Commit, IInv, HandIsFull
<1>2. PICK n \in Line : n = hand.line
  BY <1>1, Items DEF IInv
<1>3. /\ Settle(n, "stored") /\ UNCHANGED <<envVars, callerVars, queue, purged, published, passed>>
      /\ n \in PlainLine => n \in published \cup passed
  BY <1>2 DEF Commit, IInv, WrittenIsOffered
<1>4. /\ lastId' \in Nat /\ DOMAIN rows' = DOMAIN rows \cup {lastId'}
      /\ \A k \in DOMAIN rows' : rows'[k] = IF k = lastId' THEN hand ELSE rows[k]
      /\ rows' = [k \in DOMAIN rows' |-> rows'[k]]
      /\ DOMAIN rows' \subseteq 1 .. lastId'
  <2>1. /\ lastId \in Nat /\ DOMAIN rows \subseteq 1 .. lastId /\ lastId' = lastId + 1
        /\ rows' = [k \in DOMAIN rows \cup {lastId'} |-> IF k = lastId' THEN hand ELSE rows[k]]
    BY DEF Commit, IInv, TypeOK
  <2>2. lastId' \in Nat /\ 1 .. lastId \subseteq 1 .. lastId' /\ lastId' \in 1 .. lastId'
    BY <2>1, SMT
  <2> QED
    BY <2>1, <2>2
<1>5. /\ rows' \in [DOMAIN rows' -> Item]
      /\ \A k \in DOMAIN rows' : \/ rows'[k].line = n
                                 \/ k \in DOMAIN rows /\ rows'[k] = rows[k]
  <2>1. \A k \in DOMAIN rows : rows[k] \in Item
    BY Items DEF IInv
  <2>2. \A k \in DOMAIN rows' : \/ rows'[k] = hand
                                \/ k \in DOMAIN rows /\ rows'[k] = rows[k]
    BY <1>4
  <2>3. \A k \in DOMAIN rows' : rows'[k] \in Item
    BY <1>1, <2>1, <2>2
  <2>4. rows' \in [DOMAIN rows' -> Item]
    BY <1>4, <2>3
  <2> QED
    BY <1>2, <2>2, <2>4
<1> QED
  BY <1>1, <1>2, <1>3, <1>4, <1>5, WorkerLetsGo

LEMMA WorkerStepOK ==
  ASSUME IInv, WorkerStep
  PROVE  IInv'
BY GetOK, ConnectOK, PrepareOK, InsertOK, PublishOK, CommitOK, RaisesOK DEF WorkerStep

-----------------------------------------------------------------------------
(* Time and the process.                                                   *)

LEMMA QuietOK ==
  ASSUME IInv, today' \in Day,
         UNCHANGED <<enabled, hub, restarts, callerVars, queue, workerVars, sinkVars, fate>>
  PROVE  IInv'
<1> USE DEF callerVars, workerVars, sinkVars
<1>1. TypeOK'
  BY DEF IInv, TypeOK, OneWorker, Item, Day
<1>2. LockIsHeld' /\ CarriedIsCalling'
  BY CallersApart
<1>3. QueueIsQueued' /\ (Len(queue) <= QueueSize)' /\ RowsAreStored'
  BY QueueApart, RowsApart
<1>4. TableAndStreamAgree'
  BY <1>3, StreamApart DEF InHand
<1>5. HandIsFull' /\ WrittenIsOffered'
  BY DEF IInv, HandIsFull, WrittenIsOffered
<1> QED
  BY <1>1, <1>2, <1>3, <1>4, <1>5 DEF IInv

LEMMA MidnightOK ==
  ASSUME IInv, Midnight
  PROVE  IInv'
<1>1. today' \in Day
  BY StoreBounds, SMT DEF Midnight, IInv, TypeOK, Day
<1> QED
  BY <1>1, QuietOK DEF Midnight

LEMMA RestartOK ==
  ASSUME IInv, Restart
  PROVE  IInv'
<1> USE DEF Restart, sinkVars
<1>1. /\ fate' \in [Line -> Fates]
      /\ \A n \in Line : fate'[n] = CASE fate[n] = "calling" -> "unsaved"
                                       [] fate[n] = "queued" -> "killed"
                                       [] OTHER -> fate[n]
  <2>1. fate \in [Line -> Fates]
    BY DEF IInv, TypeOK, Fates
  <2>2. \A n \in Line : fate'[n] = CASE fate[n] = "calling" -> "unsaved"
                                       [] fate[n] = "queued" -> "killed"
                                       [] OTHER -> fate[n]
    OBVIOUS
  <2>3. \A n \in Line : fate'[n] \in Fates
    BY <2>1, <2>2 DEF Fates
  <2> QED
    BY <2>2, <2>3
<1>2. TypeOK'
  <2>1. restarts' \in Nat /\ OneWorker' /\ threads' \in Nat
    BY SMT DEF IInv, TypeOK, OneWorker
  <2>2. queue' \in Seq(Item)
    BY EmptySeq
  <2> QED
    BY <1>1, <2>1, <2>2 DEF IInv, TypeOK, Fates, Item, Day
<1>3. (Len(queue) <= QueueSize)' /\ DOMAIN queue' = {}
  BY StoreBounds, SMT
<1>4. LockIsHeld' /\ CarriedIsCalling' /\ HandIsFull' /\ QueueIsQueued' /\ WrittenIsOffered'
  BY <1>3, StoreBounds
     DEF LockIsHeld, CarriedIsCalling, HandIsFull, QueueIsQueued, WrittenIsOffered
<1>5. RowsAreStored'
  BY <1>1, RowsApart
<1>6. TableAndStreamAgree'
  <2>1. \A n \in Line : fate'[n] = "stored" => fate[n] = "stored"
    BY <1>1
  <2>2. \A n \in Line : fate[n] \in Settled => fate'[n] \in Settled
    BY <1>1 DEF Settled
  <2>3. \A n \in Line : InHand(n) => fate'[n] \in Settled
    <3>1. \A n : InHand(n) => fate[n] = "queued"
      BY DEF InHand, IInv, QueueIsQueued
    <3> QED
      BY <1>1, <3>1 DEF Settled
  <2> QED
    BY <1>5, <2>1, <2>2, <2>3, StreamApart
<1> QED
  BY <1>2, <1>3, <1>4, <1>5, <1>6 DEF IInv

-----------------------------------------------------------------------------
(* The theorems.                                                           *)

LEMMA StoreStepOK == IInv /\ [Next]_vars => IInv'
<1> SUFFICES ASSUME IInv, [Next]_vars PROVE IInv'
  OBVIOUS
<1>1. CASE UNCHANGED vars
  BY <1>1, QuietOK DEF vars, envVars, IInv, TypeOK
<1> QED
  BY <1>1, CallerStepOK, WorkerStepOK, MidnightOK, RestartOK DEF Next

THEOREM StoreInvariant == Spec => []IInv
BY StoreInitOK, StoreStepOK, PTL DEF Spec

(* However many threads save their first lines at once, a process has one  *)
(* worker (start's look at _started under the lock).                       *)
THEOREM StoreHasOneWorker == Spec => []TypeOK
<1>1. IInv => TypeOK
  BY DEF IInv
<1> QED
  BY <1>1, StoreInvariant, PTL

(* A stored plain line was offered to Event Hubs, and a published line is  *)
(* stored unless its commit failed or the process died (_worker).          *)
THEOREM TableFollowsStream == Spec => []TableAndStreamAgree
<1>1. IInv => TableAndStreamAgree
  BY DEF IInv
<1> QED
  BY <1>1, StoreInvariant, PTL

-----------------------------------------------------------------------------
(* The implementation of LineLog.                                          *)

(* The queue behind the line in hand, as one sequence.                     *)
LEMMA HandAndQueue ==
  ASSUME NEW h \in Item, NEW q \in Seq(Item)
  PROVE  /\ <<h>> \o q \in Seq(Item) /\ <<h>> \o q # <<>>
         /\ Len(<<h>> \o q) = Len(q) + 1
         /\ Head(<<h>> \o q) = h /\ Tail(<<h>> \o q) = q
         /\ \A i \in Item : Append(<<h>> \o q, i) = <<h>> \o Append(q, i)
         /\ q # <<>> => <<Head(q)>> \o Tail(q) = q
<1>1. <<h>> \in Seq(Item) /\ Len(<<h>>) = 1 /\ <<h>>[1] = h
  BY SMT
<1>2. /\ <<h>> \o q \in Seq(Item) /\ Len(<<h>> \o q) = 1 + Len(q) /\ Len(q) \in Nat
      /\ \A i \in 1 .. 1 + Len(q) : (<<h>> \o q)[i] = IF i <= 1 THEN h ELSE q[i - 1]
  BY <1>1, ConcatProperties, LenProperties
<1>3. <<h>> \o q # <<>>
  BY <1>2, EmptySeq, SMT
<1>4. Head(<<h>> \o q) = h
  BY <1>2, <1>3, SMT
<1>5. Tail(<<h>> \o q) = q
  <2> DEFINE t == Tail(<<h>> \o q)
  <2>1. t \in Seq(Item) /\ Len(t) = Len(q) /\ \A i \in 1 .. Len(t) : t[i] = (<<h>> \o q)[i + 1]
    BY <1>2, <1>3, HeadTailProperties, SMT
  <2> HIDE DEF t
  <2>2. \A i \in 1 .. Len(q) : i + 1 \in 1 .. 1 + Len(q) /\ ~(i + 1 <= 1) /\ i + 1 - 1 = i
    BY <1>2, SMT
  <2>3. \A i \in 1 .. Len(t) : t[i] = q[i]
    BY <1>2, <2>1, <2>2
  <2> QED
    BY <2>1, <2>3, SeqEqual DEF t
<1>6. ASSUME NEW i \in Item PROVE Append(<<h>> \o q, i) = <<h>> \o Append(q, i)
  <2>1. <<i>> \in Seq(Item)
    BY SMT
  <2> QED
    BY <1>1, <1>2, <2>1, AppendIsConcat, ConcatAssociative
<1>7. ASSUME q # <<>> PROVE <<Head(q)>> \o Tail(q) = q
  <2> DEFINE a == Head(q)
             t == Tail(q)
             s == <<a>> \o t
  <2>1. /\ a \in Item /\ t \in Seq(Item) /\ Len(t) = Len(q) - 1 /\ Len(q) \in Nat
        /\ a = q[1] /\ \A i \in 1 .. Len(t) : t[i] = q[i + 1]
    BY <1>7, HeadTailProperties, LenProperties, SMT
  <2> HIDE DEF a, t
  <2>2. <<a>> \in Seq(Item) /\ Len(<<a>>) = 1 /\ <<a>>[1] = a
    BY <2>1, SMT
  <2>3. /\ s \in Seq(Item) /\ Len(s) = 1 + Len(t)
        /\ \A i \in 1 .. 1 + Len(t) : s[i] = IF i <= 1 THEN a ELSE t[i - 1]
    BY <2>1, <2>2, ConcatProperties
  <2> HIDE DEF s
  <2>4. \A i \in 1 .. Len(s) : s[i] = q[i]
    BY <2>1, <2>3, SMT
  <2>5. s = q
    BY <2>1, <2>3, <2>4, SeqEqual, SMT
  <2> QED
    BY <2>5 DEF s, a, t
<1> QED
  BY <1>2, <1>3, <1>4, <1>5, <1>6, <1>7

LEMMA WaitingLines ==
  ASSUME IInv
  PROVE  /\ queue \in Seq(Item) /\ Len(queue) \in Nat /\ Len(queue) <= QueueSize
         /\ hand = Nothing => Waiting = queue
         /\ hand # Nothing => /\ hand \in Item /\ Waiting = <<hand>> \o queue
                              /\ Waiting # <<>> /\ Head(Waiting) = hand
                              /\ Tail(Waiting) = queue /\ Len(Waiting) = Len(queue) + 1
<1>1. queue \in Seq(Item) /\ Len(queue) <= QueueSize
  BY DEF IInv, TypeOK
<1>2. Len(queue) \in Nat
  BY <1>1, LenProperties
<1>3. hand # Nothing => hand \in Item
  BY Items DEF IInv
<1> QED
  BY <1>1, <1>2, <1>3, HandAndQueue DEF Waiting

(* Fates that all count as seen, or all as not seen.                       *)
LEMMA SeenStays ==
  ASSUME fate' = fate \/ \A n \in Line :
           fate'[n] \in {"new", "calling", "unsaved"} <=> fate[n] \in {"new", "calling", "unsaved"}
  PROVE  Seen' = Seen
BY DEF Seen

LEMMA Stutters ==
  ASSUME Seen' = Seen, Waiting' = Waiting, lastId' = lastId, rows' = rows
  PROVE  [Lines!Next]_(Lines!lineVars)
BY DEF Lines!lineVars

LEMMA CallerRefines ==
  ASSUME IInv, NEW c \in Caller, CallerStep(c)
  PROVE  [Lines!Next]_(Lines!lineVars)
<1>1. ASSUME NEW n \in Line, Save(c, n) PROVE [Lines!Next]_(Lines!lineVars)
  <2>1. \A m \in Line : fate'[m] \in {"new", "calling", "unsaved"} <=>
                        fate[m] \in {"new", "calling", "unsaved"}
    BY <1>1 DEF Save, Settle, IInv, TypeOK
  <2>2. Seen' = Seen
    BY <2>1, SeenStays
  <2> QED
    BY <1>1, <2>2, Stutters DEF Save, Waiting, workerVars, sinkVars
<1>2. ASSUME StartLooks(c) \/ StartLocks(c) \/ StartRechecks(c) \/ StartMarks(c)
      PROVE  [Lines!Next]_(Lines!lineVars)
  <2>1. fate' = fate /\ UNCHANGED <<hand, queue, lastId, rows>>
    BY <1>2 DEF StartLooks, StartLocks, StartRechecks, StartMarks, workerVars, sinkVars
  <2> QED
    BY <2>1, SeenStays, Stutters DEF Waiting
<1>3. ASSUME Put(c) PROVE [Lines!Next]_(Lines!lineVars)
  <2>1. PICK i \in Item : i = carried[c] /\ i.line \in Line /\ fate[i.line] = "calling"
    BY <1>3, Items DEF Put, IInv, CarriedIsCalling
  <2>2. PICK how \in {"queued", "dropped"} :
          /\ Settle(i.line, how)
          /\ \/ how = "queued" /\ Len(queue) < QueueSize /\ queue' = Append(queue, i)
             \/ how = "dropped" /\ ~(Len(queue) < QueueSize) /\ queue' = queue
    BY <1>3, <2>1 DEF Put
  <2>3. hand' = hand /\ lastId' = lastId /\ rows' = rows
    BY <1>3 DEF Put, workerVars, sinkVars
  <2>4. i.line \notin Seen /\ Seen' = Seen \cup {i.line}
    <3>1. \A m \in Line : fate'[m] = IF m = i.line THEN how ELSE fate[m]
      BY <2>1, <2>2 DEF Settle, IInv, TypeOK
    <3> QED
      BY <2>1, <3>1 DEF Seen
  <2>5. CASE how = "queued" /\ Len(queue) < QueueSize /\ queue' = Append(queue, i)
    <3>1. Len(Waiting) <= QueueSize
      BY <2>5, WaitingLines, StoreBounds, SMT
    <3>2. Waiting' = Append(Waiting, i)
      <4>1. CASE hand = Nothing
        BY <2>3, <2>5, <4>1 DEF Waiting
      <4>2. CASE hand # Nothing
        BY <2>1, <2>3, <2>5, <4>2, WaitingLines, HandAndQueue DEF Waiting
      <4> QED
        BY <4>1, <4>2
    <3>3. Lines!Take(i)
      BY <2>3, <2>4, <3>1, <3>2 DEF Lines!Take
    <3> QED
      BY <2>1, <3>3 DEF Lines!Next
  <2>6. CASE how = "dropped" /\ ~(Len(queue) < QueueSize) /\ queue' = queue
    <3>1. Len(Waiting) >= QueueSize
      BY <2>6, WaitingLines, StoreBounds, SMT
    <3>2. Waiting' = Waiting
      BY <2>3, <2>6 DEF Waiting
    <3>3. Lines!Refuse(i)
      BY <2>3, <2>4, <3>1, <3>2 DEF Lines!Refuse
    <3> QED
      BY <2>1, <3>3 DEF Lines!Next
  <2> QED
    BY <2>2, <2>5, <2>6
<1>4. ASSUME StartRaises(c) PROVE [Lines!Next]_(Lines!lineVars)
  <2>1. \A m \in Line : fate'[m] \in {"new", "calling", "unsaved"} <=>
                        fate[m] \in {"new", "calling", "unsaved"}
    <3>1. carried[c].line \in Line /\ fate[carried[c].line] = "calling"
      BY <1>4, Items DEF StartRaises, IInv, CarriedIsCalling
    <3> QED
      BY <1>4, <3>1 DEF StartRaises, Settle, IInv, TypeOK
  <2>2. Seen' = Seen
    BY <2>1, SeenStays
  <2> QED
    BY <1>4, <2>2, Stutters DEF StartRaises, Waiting, workerVars, sinkVars
<1> QED
  BY <1>1, <1>2, <1>3, <1>4 DEF CallerStep

(* A line that leaves the worker's hands unwritten.                        *)
LEMMA LoseRefines ==
  ASSUME IInv, hand # Nothing, hand' = Nothing, Settle(hand.line, "failed"),
         UNCHANGED <<queue, lastId, rows>>
  PROVE  [Lines!Next]_(Lines!lineVars)
<1>1. fate[hand.line] = "queued" /\ hand.line \in Line /\ fate \in [Line -> Fates]
  BY Items DEF IInv, QueueIsQueued, TypeOK, Fates
<1>2. \A m \in Line : fate'[m] = IF m = hand.line THEN "failed" ELSE fate[m]
  BY <1>1 DEF Settle
<1>3. Seen' = Seen
  BY <1>1, <1>2, SeenStays
<1>4. Waiting # <<>> /\ Waiting' = Tail(Waiting)
  <2>1. Waiting' = queue
    BY DEF Waiting
  <2> QED
    BY <2>1, WaitingLines
<1>5. Lines!Lose
  BY <1>3, <1>4 DEF Lines!Lose
<1> QED
  BY <1>5 DEF Lines!Next

LEMMA WorkerRefines ==
  ASSUME IInv, WorkerStep
  PROVE  [Lines!Next]_(Lines!lineVars)
<1> USE DEF sinkVars
<1>1. ASSUME Get PROVE [Lines!Next]_(Lines!lineVars)
  <2>1. /\ hand = Nothing /\ queue # <<>> /\ hand' = Head(queue) /\ queue' = Tail(queue)
        /\ fate' = fate /\ lastId' = lastId /\ rows' = rows /\ queue \in Seq(Item)
    BY <1>1 DEF Get, IInv, HandIsFull, TypeOK
  <2>2. Head(queue) \in Item /\ Head(queue) # Nothing
    BY <2>1, HeadTailProperties, StoreBounds
  <2>3. Waiting' = <<Head(queue)>> \o Tail(queue) /\ Waiting = queue
    BY <2>1, <2>2 DEF Waiting
  <2>4. Waiting' = Waiting
    BY <2>1, <2>2, <2>3, HandAndQueue
  <2> QED
    BY <2>1, <2>4, SeenStays, Stutters
<1>2. ASSUME Connect \/ Insert \/ Publish PROVE [Lines!Next]_(Lines!lineVars)
  <2>1. fate' = fate /\ UNCHANGED <<hand, queue, lastId, rows>>
    BY <1>2 DEF Connect, Insert, Publish
  <2> QED
    BY <2>1, SeenStays, Stutters DEF Waiting
<1>3. ASSUME ConnectRaises \/ WriteRaises PROVE [Lines!Next]_(Lines!lineVars)
  <2>1. hand # Nothing
    BY <1>3 DEF ConnectRaises, WriteRaises, IInv, HandIsFull
  <2> QED
    BY <1>3, <2>1, LoseRefines DEF ConnectRaises, WriteRaises
<1>4. ASSUME Prepare PROVE [Lines!Next]_(Lines!lineVars)
  <2>1. Seen' = Seen /\ Waiting' = Waiting /\ lastId' = lastId
    BY <1>4, SeenStays DEF Prepare, Waiting
  <2>2. CASE purged
    BY <1>4, <2>1, <2>2, Stutters DEF Prepare
  <2>3. CASE ~purged
    <3> DEFINE d == today - Retention
    <3>1. d \in -Retention .. MaxDay
      BY StoreBounds, SMT DEF IInv, TypeOK, Day
    <3>2. rows' = [k \in {n \in DOMAIN rows : rows[n].day >= d} |-> rows[k]]
      BY <1>4, <2>3 DEF Prepare, Recent
    <3> HIDE DEF d
    <3>3. Lines!Age(d)
      BY <2>1, <3>2 DEF Lines!Age
    <3> QED
      BY <3>1, <3>3 DEF Lines!Next
  <2> QED
    BY <2>2, <2>3
<1>5. ASSUME Commit PROVE [Lines!Next]_(Lines!lineVars)
  <2>1. /\ hand # Nothing /\ hand' = Nothing /\ queue' = queue
        /\ Settle(hand.line, "stored") /\ lastId' = lastId + 1
        /\ rows' = [k \in DOMAIN rows \cup {lastId'} |-> IF k = lastId' THEN hand ELSE rows[k]]
    BY <1>5 DEF Commit, IInv, HandIsFull, callerVars
  <2>2. fate[hand.line] = "queued" /\ hand.line \in Line /\ fate \in [Line -> Fates]
    BY <2>1, Items DEF IInv, QueueIsQueued, TypeOK, Fates
  <2>3. \A m \in Line : fate'[m] = IF m = hand.line THEN "stored" ELSE fate[m]
    BY <2>1, <2>2 DEF Settle
  <2>4. Seen' = Seen
    BY <2>2, <2>3, SeenStays
  <2>5. Waiting # <<>> /\ Head(Waiting) = hand /\ Waiting' = Tail(Waiting)
    <3>1. Waiting' = queue
      BY <2>1 DEF Waiting
    <3> QED
      BY <2>1, <3>1, WaitingLines
  <2>6. Lines!Write
    BY <2>1, <2>4, <2>5 DEF Lines!Write
  <2> QED
    BY <2>6 DEF Lines!Next
<1> QED
  BY <1>1, <1>2, <1>3, <1>4, <1>5 DEF WorkerStep

LEMMA RestartRefines ==
  ASSUME IInv, Restart
  PROVE  [Lines!Next]_(Lines!lineVars)
<1>1. \A n \in Line : fate'[n] = CASE fate[n] = "calling" -> "unsaved"
                                   [] fate[n] = "queued" -> "killed"
                                   [] OTHER -> fate[n]
  BY DEF Restart
<1>2. Seen' = Seen
  BY <1>1, SeenStays
<1>3. Waiting' = <<>> /\ lastId' = lastId /\ rows' = rows
  BY DEF Restart, Waiting, sinkVars
<1>4. Lines!Crash
  BY <1>2, <1>3 DEF Lines!Crash
<1> QED
  BY <1>4 DEF Lines!Next

(* The store with its threads, transactions and failures is the simple     *)
(* bounded line log (_enqueue, _worker, _purge_old).                       *)
THEOREM StoreImplementsLineLog == Spec => ImplementsLineLog
<1>1. Init => Lines!Init
  BY DEF Init, Lines!Init, Seen, Waiting
<1>2. IInv /\ [Next]_vars => [Lines!Next]_(Lines!lineVars)
  <2> SUFFICES ASSUME IInv, [Next]_vars PROVE [Lines!Next]_(Lines!lineVars)
    OBVIOUS
  <2>1. CASE UNCHANGED vars
    BY <2>1, SeenStays, Stutters DEF vars, workerVars, sinkVars, Waiting
  <2>2. CASE Midnight
    BY <2>2, SeenStays, Stutters DEF Midnight, workerVars, sinkVars, Waiting
  <2> QED
    BY <2>1, <2>2, CallerRefines, WorkerRefines, RestartRefines DEF Next
<1> QED
  BY <1>1, <1>2, StoreInvariant, PTL DEF Spec, ImplementsLineLog, Lines!Spec

=============================================================================
