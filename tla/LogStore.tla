------------------------------ MODULE LogStore ------------------------------
(***************************************************************************)
(* generator/log_store.py: callers hand log lines to a bounded queue, the  *)
(* first of them starts a daemon thread, and that thread writes each line  *)
(* to SQLite in a transaction of its own, offering plain lines to Event    *)
(* Hubs before it commits.  The process may die at any moment; the         *)
(* database file stays for the next one.                                   *)
(*                                                                         *)
(* The two tables are one: a line's kind names its table, and a row's id   *)
(* is never given again, not even after a purge (AUTOINCREMENT).           *)
(* The queue's None item, which would end the worker, is put by nobody.    *)
(***************************************************************************)
EXTENDS Integers, Sequences

CONSTANTS
  Caller,       (* threads that call save_plain or save_telemetry_event      *)
  NoCaller,
  Line,         (* what they save, each line once                            *)
  PlainLine,    (* lines of save_plain                                       *)
  ForeignLine,  (* documents whose event_type is not telemetry_event         *)
  Nothing,      (* no item                                                   *)
  QueueSize,    (* LOG_DB_QUEUE_SIZE                                         *)
  Retention,    (* LOG_DB_RETENTION_DAYS                                     *)
  MaxDay,       (* bound: midnights                                          *)
  MaxRestarts   (* bound: process restarts                                   *)

ASSUME LogStoreAssumption ==
  /\ NoCaller \notin Caller
  /\ PlainLine \subseteq Line /\ ForeignLine \subseteq Line \ PlainLine
  /\ QueueSize \in Nat \ {0} /\ Retention \in Nat
  /\ MaxDay \in Nat /\ MaxRestarts \in Nat

Day  == 0 .. MaxDay
Item == [line : Line, day : Day]

ASSUME NothingAssumption == Nothing \notin Item

VARIABLES
  today,
  enabled,       (* LOG_DB_ENABLED                                           *)
  hub,           (* what _get_publisher can give: "off", "mock" or "live"    *)
  pc, carried,   (* per caller: its place in _enqueue, the item it carries   *)
  holder,        (* who is inside "with _lock", or NoCaller                  *)
  started,       (* _started                                                 *)
  threads,       (* workers ever started by this process                     *)
  queue,         (* _queue                                                   *)
  worker, hand,  (* the worker's place in its loop and its item              *)
  purged,        (* ~pending_purge                                           *)
  rows,          (* committed rows, by id                                    *)
  lastId,        (* sqlite_sequence                                          *)
  published,     (* lines handed to Event Hubs                               *)
  passed,        (* lines _publish_app_log returned from without handing on  *)
  fate,          (* what became of each line, a history variable             *)
  restarts

envVars    == <<today, enabled, hub, restarts>>
callerVars == <<pc, carried, holder, started, threads>>
workerVars == <<worker, hand, purged>>
sinkVars   == <<rows, lastId, published, passed>>
vars       == <<envVars, callerVars, queue, workerVars, sinkVars, fate>>

(* However many threads save their first line at once, one worker is       *)
(* started per process: two would take lines off the queue in turn and     *)
(* write them out of order (start's second look under the lock).           *)
OneWorker == threads <= 1

TypeOK ==
  /\ OneWorker
  /\ today \in Day /\ enabled \in BOOLEAN /\ hub \in {"off", "mock", "live"}
  /\ pc \in [Caller -> {"idle", "start", "lock", "recheck", "mark", "put"}]
  /\ carried \in [Caller -> Item \cup {Nothing}]
  /\ holder \in Caller \cup {NoCaller}
  /\ started \in BOOLEAN /\ threads \in Nat
  /\ queue \in Seq(Item)
  /\ worker \in {"none", "waiting", "holding", "connected", "ready",
                 "inserted", "written", "dead"}
  /\ hand \in Item \cup {Nothing}
  /\ purged \in BOOLEAN
  /\ lastId \in Nat
  /\ DOMAIN rows \subseteq 1 .. lastId /\ rows \in [DOMAIN rows -> Item]
  /\ published \subseteq PlainLine /\ passed \subseteq PlainLine
  /\ fate \in [Line -> {"new", "calling", "unsaved", "queued", "dropped",
                        "stored", "failed", "killed"}]
  /\ restarts \in Nat

Init ==
  /\ today = 0 /\ enabled \in BOOLEAN /\ hub \in {"off", "mock", "live"}
  /\ restarts = 0
  /\ pc = [c \in Caller |-> "idle"] /\ carried = [c \in Caller |-> Nothing]
  /\ holder = NoCaller /\ started = FALSE /\ threads = 0
  /\ queue = <<>>
  /\ worker = "none" /\ hand = Nothing /\ purged = FALSE
  /\ rows = <<>> /\ lastId = 0 /\ published = {} /\ passed = {}
  /\ fate = [n \in Line |-> "new"]

-----------------------------------------------------------------------------
(* The callers: _enqueue() and start().                                    *)

Goto(c, place) == pc' = [pc EXCEPT ![c] = place]
Settle(n, how) == fate' = [fate EXCEPT ![n] = how]

(* save_plain / save_telemetry_event up to _enqueue's first test: foreign  *)
(* documents and everything while the store is disabled are passed over.   *)
Save(c, n) ==
  /\ pc[c] = "idle" /\ fate[n] = "new"
  /\ IF enabled /\ n \notin ForeignLine
     THEN /\ Goto(c, "start")
          /\ carried' = [carried EXCEPT ![c] = [line |-> n, day |-> today]]
          /\ Settle(n, "calling")
     ELSE Settle(n, "unsaved") /\ UNCHANGED <<pc, carried>>
  /\ UNCHANGED <<envVars, holder, started, threads, queue, workerVars, sinkVars>>

(* start()'s first, unlocked look at _started.                             *)
StartLooks(c) ==
  /\ pc[c] = "start"
  /\ Goto(c, IF started THEN "put" ELSE "lock")
  /\ UNCHANGED <<envVars, carried, holder, started, threads, queue,
                 workerVars, sinkVars, fate>>

StartLocks(c) ==
  /\ pc[c] = "lock" /\ holder = NoCaller
  /\ holder' = c
  /\ Goto(c, "recheck")
  /\ UNCHANGED <<envVars, carried, started, threads, queue, workerVars,
                 sinkVars, fate>>

(* a bug: the Thread object is made and never started                      *)
SpawnIdle ==
  /\ threads' = threads + 1
  /\ UNCHANGED worker

Spawn ==
  /\ threads' = threads + 1
  /\ worker' = "waiting"

(* a bug: start() without the second look at _started under the lock       *)
StartAlwaysSpawns(c) ==
  /\ pc[c] = "recheck"
  /\ Spawn /\ Goto(c, "mark")
  /\ UNCHANGED <<envVars, carried, holder, started, queue, hand, purged,
                 sinkVars, fate>>

(* The second look, under the lock; the thread runs before _started is set.*)
StartRechecks(c) ==
  /\ pc[c] = "recheck"
  /\ IF started
     THEN holder' = NoCaller /\ Goto(c, "put") /\ UNCHANGED <<threads, worker>>
     ELSE Spawn /\ Goto(c, "mark") /\ UNCHANGED holder
  /\ UNCHANGED <<envVars, carried, started, queue, hand, purged,
                 sinkVars, fate>>

(* The thread cannot be started: the exception leaves start() and _enqueue *)
(* with the lock released, _started as it was and the line not queued.     *)
StartRaises(c) ==
  /\ pc[c] = "recheck" /\ ~started
  /\ holder' = NoCaller
  /\ Goto(c, "idle")
  /\ carried' = [carried EXCEPT ![c] = Nothing]
  /\ Settle(carried[c].line, "unsaved")
  /\ UNCHANGED <<envVars, started, threads, queue, workerVars, sinkVars>>

StartMarks(c) ==
  /\ pc[c] = "mark"
  /\ started' = TRUE /\ holder' = NoCaller
  /\ Goto(c, "put")
  /\ UNCHANGED <<envVars, carried, threads, queue, workerVars, sinkVars, fate>>

(* a bug: a full queue makes room by dropping its oldest line              *)
PutDropsOldest(c) ==
  /\ pc[c] = "put"
  /\ queue' = Append(IF Len(queue) < QueueSize THEN queue ELSE Tail(queue), carried[c])
  /\ Settle(carried[c].line, "queued")
  /\ Goto(c, "idle")
  /\ carried' = [carried EXCEPT ![c] = Nothing]
  /\ UNCHANGED <<envVars, holder, started, threads, workerVars, sinkVars>>

(* put_nowait; queue.Full is a warning and the newest line is dropped.     *)
Put(c) ==
  /\ pc[c] = "put"
  /\ IF Len(queue) < QueueSize
     THEN queue' = Append(queue, carried[c]) /\ Settle(carried[c].line, "queued")
     ELSE Settle(carried[c].line, "dropped") /\ UNCHANGED queue
  /\ Goto(c, "idle")
  /\ carried' = [carried EXCEPT ![c] = Nothing]
  /\ UNCHANGED <<envVars, holder, started, threads, workerVars, sinkVars>>

CallerStep(c) ==
  \/ \E n \in Line : Save(c, n)
  \/ StartLooks(c) \/ StartLocks(c) \/ StartRechecks(c) \/ StartRaises(c)
  \/ StartMarks(c) \/ Put(c)

-----------------------------------------------------------------------------
(* The worker thread.                                                      *)

Get ==
  /\ worker = "waiting" /\ queue # <<>>
  /\ hand' = Head(queue) /\ queue' = Tail(queue)
  /\ worker' = "holding"
  /\ UNCHANGED <<envVars, callerVars, purged, sinkVars, fate>>

Connect ==
  /\ worker = "holding"
  /\ worker' = "connected"
  /\ UNCHANGED <<envVars, callerVars, queue, hand, purged, sinkVars, fate>>

(* _connect() stands before the try: its exception ends the thread, and    *)
(* _started stays True.                                                    *)
ConnectRaises ==
  /\ worker = "holding"
  /\ worker' = "dead" /\ hand' = Nothing
  /\ Settle(hand.line, "failed")
  /\ UNCHANGED <<envVars, callerVars, queue, purged, sinkVars>>

Recent == {k \in DOMAIN rows : rows[k].day >= today - Retention}

(* _init_schema, and the first time _purge_old, which commits.             *)
Prepare ==
  /\ worker = "connected"
  /\ worker' = "ready" /\ purged' = TRUE
  /\ IF purged
     THEN UNCHANGED rows
     ELSE rows' = [k \in Recent |-> rows[k]]
  /\ UNCHANGED <<envVars, callerVars, queue, hand, lastId, published, passed, fate>>

(* a bug: the line is offered to Event Hubs after the commit               *)
InsertWithoutOffer ==
  /\ worker = "ready"
  /\ worker' = "written"
  /\ UNCHANGED <<envVars, callerVars, queue, hand, purged, sinkVars, fate>>

(* INSERT; telemetry rows are not published.                               *)
Insert ==
  /\ worker = "ready"
  /\ worker' = IF hand.line \in PlainLine THEN "inserted" ELSE "written"
  /\ UNCHANGED <<envVars, callerVars, queue, hand, purged, sinkVars, fate>>

(* _publish_app_log: no publisher, a mock one, or an exception on the way  *)
(* (swallowed) leave the line unpublished.                                 *)
Publish ==
  /\ worker = "inserted"
  /\ worker' = "written"
  /\ \/ hub = "live" /\ published' = published \cup {hand.line} /\ UNCHANGED passed
     \/ passed' = passed \cup {hand.line} /\ UNCHANGED published
  /\ UNCHANGED <<envVars, callerVars, queue, hand, purged, rows, lastId, fate>>

Commit ==
  /\ worker = "written"
  /\ lastId' = lastId + 1
  /\ rows' = [k \in DOMAIN rows \cup {lastId'} |-> IF k = lastId' THEN hand ELSE rows[k]]
  /\ Settle(hand.line, "stored")
  /\ worker' = "waiting" /\ hand' = Nothing
  /\ UNCHANGED <<envVars, callerVars, queue, purged, published, passed>>

(* Any statement of the try raises ("database is locked", disk full): the  *)
(* connection is closed without commit and the loop goes on.               *)
WriteRaises ==
  /\ worker \in {"connected", "ready", "written"}
  /\ Settle(hand.line, "failed")
  /\ worker' = "waiting" /\ hand' = Nothing
  /\ UNCHANGED <<envVars, callerVars, queue, purged, sinkVars>>

WorkerStep ==
  \/ Get \/ Connect \/ ConnectRaises \/ Prepare \/ Insert \/ Publish
  \/ Commit \/ WriteRaises

-----------------------------------------------------------------------------
(* Time and the process.                                                   *)

Midnight ==
  /\ today < MaxDay
  /\ today' = today + 1
  /\ UNCHANGED <<enabled, hub, restarts, callerVars, queue, workerVars,
                 sinkVars, fate>>

(* The daemon thread, the queue and the open transaction die with the      *)
(* process; the file does not.                                             *)
Restart ==
  /\ restarts < MaxRestarts
  /\ restarts' = restarts + 1
  /\ pc' = [c \in Caller |-> "idle"] /\ carried' = [c \in Caller |-> Nothing]
  /\ holder' = NoCaller /\ started' = FALSE /\ threads' = 0
  /\ queue' = <<>>
  /\ worker' = "none" /\ hand' = Nothing /\ purged' = FALSE
  /\ fate' = [n \in Line |-> CASE fate[n] = "calling" -> "unsaved"
                               [] fate[n] = "queued" -> "killed"
                               [] OTHER -> fate[n]]
  /\ UNCHANGED <<today, enabled, hub, sinkVars>>

Next ==
  \/ \E c \in Caller : CallerStep(c)
  \/ WorkerStep \/ Midnight \/ Restart

Spec == Init /\ [][Next]_vars

(* The interpreter gives the worker thread its turn, and SQLite returns.   *)
FairSpec ==
  /\ Spec
  /\ WF_vars(WorkerStep)

-----------------------------------------------------------------------------
(* Properties.                                                             *)

(* A committed plain row was offered to Event Hubs first, and a published  *)
(* line without a row is one whose commit failed, or that the process took *)
(* with it: the two sinks differ in no other way (_worker l.187).          *)
InHand(n) == hand # Nothing /\ hand.line = n

TableAndStreamAgree ==
  \A n \in PlainLine :
    /\ fate[n] = "stored" => n \in published \cup passed
    /\ n \in published /\ ~InHand(n) => fate[n] \in {"stored", "failed", "killed"}
    /\ \A k \in DOMAIN rows : rows[k].line = n => fate[n] = "stored"

(* A queued line is written, fails, or dies with the process, unless the   *)
(* worker itself has died, after which the queue only fills up.            *)
AcceptedIsSettled ==
  \A n \in Line : fate[n] = "queued" ~> (fate[n] # "queued" \/ worker = "dead")

-----------------------------------------------------------------------------
(* The parts of the inductive invariant.                                   *)

(* Between the second look and the mark a caller holds the lock, and only  *)
(* there is a worker running that _started does not know of.               *)
LockIsHeld ==
  /\ \A c \in Caller : pc[c] \in {"recheck", "mark"} <=> holder = c
  /\ threads = 0 <=> ~started /\ \A c \in Caller : pc[c] # "mark"
  /\ \A c \in Caller : pc[c] = "mark" => ~started
  /\ worker = "none" <=> threads = 0

HandIsFull ==
  hand # Nothing <=> worker \in {"holding", "connected", "ready", "inserted", "written"}

(* Every line is in one place, and its fate says which.                    *)
CarriedIsCalling ==
  \A c \in Caller :
    /\ pc[c] # "idle" => carried[c] # Nothing /\ fate[carried[c].line] = "calling"
    /\ \A d \in Caller \ {c} :
         pc[c] # "idle" /\ pc[d] # "idle" => carried[c].line # carried[d].line

QueueIsQueued ==
  /\ \A i \in DOMAIN queue :
       /\ fate[queue[i].line] = "queued"
       /\ \A j \in DOMAIN queue \ {i} : queue[i].line # queue[j].line
       /\ ~InHand(queue[i].line)
  /\ hand # Nothing => fate[hand.line] = "queued"

WrittenIsOffered ==
  /\ worker = "inserted" => hand.line \in PlainLine
  /\ worker = "written" /\ hand.line \in PlainLine => hand.line \in published \cup passed

RowsAreStored == \A k \in DOMAIN rows : fate[rows[k].line] = "stored"

IInv ==
  /\ TypeOK /\ Len(queue) <= QueueSize
  /\ LockIsHeld /\ HandIsFull /\ CarriedIsCalling /\ QueueIsQueued
  /\ WrittenIsOffered /\ RowsAreStored /\ TableAndStreamAgree

=============================================================================
