---------------------------- MODULE TelemetryLogs ----------------------------
(***************************************************************************)
(* How a log record reaches its readers: the root logger's handlers        *)
(* (azure_logger.py, otel_logging.py, telemetry_log_handler.py), the ring  *)
(* buffers behind one of them (telemetry_log_buffer.py), and the HTTP      *)
(* threads that read the buffers while records arrive (runner_http.py).    *)
(*                                                                         *)
(* A record is [n, kind]; its text is left out, except that a JSON line    *)
(* starts with a brace and a plain one does not.                           *)
(***************************************************************************)
EXTENDS Integers, Sequences

CONSTANTS
  Writer,       (* threads that log                                          *)
  Kind,         (* "telemetry" for telemetry_event, prompt_log_event and     *)
                (* startup_config records, any other name for the rest       *)
  Capacity,     (* TELEMETRY_LOG_BUFFER_SIZE                                 *)
  Limit,        (* limits asked for                                          *)
  MaxRecords,   (* bound: records logged                                     *)
  MaxRequests   (* bound: HTTP requests                                      *)

ASSUME LogsAssumption ==
  /\ "telemetry" \in Kind
  /\ Capacity \in Nat \ {0} /\ Limit \subseteq Nat
  /\ MaxRecords \in Nat /\ MaxRequests \in Nat

LogRecord == [n : 1 .. MaxRecords, kind : Kind]

VARIABLES
  fmt,          (* stdout_format(): "plain" or "json"                        *)
  handlers,     (* root.handlers                                             *)
  exported,     (* otel_logging._INITIALISED                                 *)
  logged,       (* how many records have been made                           *)
  emitting,     (* per writer the records it is inside of: [rec, left]       *)
  raw, parsed, plain,   (* the three deques                                  *)
  told,         (* telemetry records in the order buffered, a history        *)
  http,         (* [at, limit, count, entries, stats]: the request served    *)
  requests

logVars    == <<fmt, handlers, exported, logged, emitting>>
bufferVars == <<raw, parsed, plain, told>>
httpVars   == <<http, requests>>
logsVars   == <<logVars, bufferVars, httpVars>>

Last(s, k) == IF Len(s) <= k THEN s ELSE SubSeq(s, Len(s) - k + 1, Len(s))
Least(a, b) == IF a < b THEN a ELSE b

IdleRequest == [at |-> "idle", limit |-> 0, count |-> 0, entries |-> <<>>, stats |-> 0]

LogsInit ==
  /\ fmt \in {"plain", "json"}
  /\ handlers = <<>> /\ exported = FALSE
  /\ logged = 0 /\ emitting = [w \in Writer |-> <<>>]
  /\ raw = <<>> /\ parsed = <<>> /\ plain = <<>> /\ told = <<>>
  /\ http = IdleRequest /\ requests = 0

-----------------------------------------------------------------------------
(* Writers.                                                                *)

(* setup_structured_logging: the root's handlers are replaced by stdout    *)
(* and the capture handler; setup_otel_logging adds the OTLP one the first *)
(* time, if there is an endpoint and the exporter can be built.            *)
SetupLogging ==
  /\ exported' = TRUE
  /\ \/ handlers' = <<"stdout", "capture">>
     \/ ~exported /\ handlers' = <<"stdout", "capture", "otlp">>
  /\ UNCHANGED <<fmt, logged, emitting, bufferVars, httpVars>>

(* A logging call: callHandlers goes through the handlers one by one.      *)
Log(w, kind) ==
  /\ emitting[w] = <<>> /\ logged < MaxRecords
  /\ logged' = logged + 1
  /\ emitting' = [emitting EXCEPT
                    ![w] = <<[rec |-> [n |-> logged + 1, kind |-> kind],
                              left |-> handlers]>>]
  /\ UNCHANGED <<fmt, handlers, exported, bufferVars, httpVars>>

(* a bug: the raw lines go to a smaller ring than the parsed records       *)
AppendStdoutShort(rec) ==
  /\ raw' = Last(Append(raw, rec), Capacity - 1)
  /\ IF rec.kind = "telemetry"
     THEN parsed' = Last(Append(parsed, rec), Capacity) /\ told' = Append(told, rec)
     ELSE UNCHANGED <<parsed, told>>
  /\ plain' = IF fmt = "plain" THEN Last(Append(plain, rec), Capacity) ELSE plain

(* append_stdout: the three rings under one lock.                          *)
AppendStdout(rec) ==
  /\ raw' = Last(Append(raw, rec), Capacity)
  /\ IF rec.kind = "telemetry"
     THEN parsed' = Last(Append(parsed, rec), Capacity) /\ told' = Append(told, rec)
     ELSE UNCHANGED <<parsed, told>>
  /\ plain' = IF fmt = "plain" THEN Last(Append(plain, rec), Capacity) ELSE plain

(* One handler's emit, under that handler's own lock.  An exception in it  *)
(* is reported on stderr and the next handler has its turn.                *)
Emit(w) ==
  /\ emitting[w] # <<>>
  /\ LET call == emitting[w][1]
     IN  /\ IF call.left = <<>>
            THEN emitting' = [emitting EXCEPT ![w] = <<>>] /\ UNCHANGED bufferVars
            ELSE /\ emitting' = [emitting EXCEPT ![w][1].left = Tail(@)]
                 /\ \/ Head(call.left) = "capture" /\ AppendStdout(call.rec)
                    \/ UNCHANGED bufferVars
  /\ UNCHANGED <<fmt, handlers, exported, logged, httpVars>>

-----------------------------------------------------------------------------
(* Readers: GET /telemetry/logs, as JSON and as HTML.                      *)

Clamped(limit) == Least(IF limit < 1 THEN 1 ELSE limit, Capacity)

(* formatted(limit): the newest records, oldest first.                     *)
Formatted(limit) == Last(parsed, Clamped(limit))

Request(limit) ==
  /\ http.at = "idle" /\ requests < MaxRequests
  /\ requests' = requests + 1
  /\ \E at \in {"count", "entries"} :
       http' = [IdleRequest EXCEPT !.at = at, !.limit = limit]
  /\ UNCHANGED <<logVars, bufferVars>>

(* The JSON answer is a dict built in this order: its count is a read of   *)
(* its own.  The HTML page starts with the entries.                        *)
ReadCount ==
  /\ http.at = "count"
  /\ http' = [http EXCEPT !.at = "entries", !.count = Len(Formatted(http.limit))]
  /\ UNCHANGED <<logVars, bufferVars, requests>>

ReadEntries ==
  /\ http.at = "entries"
  /\ http' = [http EXCEPT !.at = "stats", !.entries = Formatted(http.limit)]
  /\ UNCHANGED <<logVars, bufferVars, requests>>

ReadStats ==
  /\ http.at = "stats"
  /\ http' = [http EXCEPT !.at = "answer", !.stats = Len(raw)]
  /\ UNCHANGED <<logVars, bufferVars, requests>>

Respond ==
  /\ http.at = "answer"
  /\ http' = IdleRequest
  /\ UNCHANGED <<logVars, bufferVars, requests>>

LogsStep ==
  \/ \E w \in Writer : Emit(w)
  \/ \E limit \in Limit : Request(limit)
  \/ ReadCount \/ ReadEntries \/ ReadStats \/ Respond

-----------------------------------------------------------------------------
(* Properties.                                                             *)

(* An answer is put together from up to three reads with records arriving  *)
(* in between, and still makes sense: its entries are a gapless run of the *)
(* telemetry records, its count is no larger than their number, and the    *)
(* lines it says are buffered are at least as many (runner_http l.166).    *)
AnswerIsConsistent ==
  http.at = "answer" =>
    /\ http.count <= Len(http.entries)
    /\ Len(http.entries) <= Least(Clamped(http.limit), http.stats)
    /\ \E i \in 0 .. Len(told) :
         http.entries = SubSeq(told, i + 1, i + Len(http.entries))

-----------------------------------------------------------------------------
(* The inductive invariant: the types,                                     *)
HandlerName == {"stdout", "capture", "otlp"}

LogsTypeOK ==
  /\ handlers \in Seq(HandlerName) /\ logged \in 0 .. MaxRecords
  /\ emitting \in [Writer -> Seq([rec : LogRecord, left : Seq(HandlerName)])]
  /\ \A w \in Writer : Len(emitting[w]) <= 1
  /\ raw \in Seq(LogRecord) /\ parsed \in Seq(LogRecord) /\ plain \in Seq(LogRecord)
  /\ told \in Seq(LogRecord)
  /\ http \in [at : {"idle", "count", "entries", "stats", "answer"}, limit : Limit \cup {0},
               count : Nat, entries : Seq(LogRecord), stats : Nat]

(* the rings: the parsed one holds the last telemetry records, and none is *)
(* longer than the raw one;                                                *)
EndOf(ring, s) ==
  Len(ring) <= Len(s) /\ ring = SubSeq(s, Len(s) - Len(ring) + 1, Len(s))

RingsInStep ==
  /\ Len(raw) <= Capacity /\ Len(parsed) <= Len(raw) /\ Len(plain) <= Len(raw)
  /\ EndOf(parsed, told)

(* and what a request has read so far: rings never shrink, so that later   *)
(* reads are no smaller than earlier ones.                                 *)
RunOf(entries, s) ==
  \E i \in 0 .. Len(s) :
    i + Len(entries) <= Len(s) /\ entries = SubSeq(s, i + 1, i + Len(entries))

RequestInStep ==
  /\ http.at = "entries" => http.count <= Least(Clamped(http.limit), Len(parsed))
  /\ http.at \in {"stats", "answer"} =>
       /\ http.count <= Len(http.entries) /\ Len(http.entries) <= Clamped(http.limit)
       /\ RunOf(http.entries, told)
  /\ http.at = "stats" => Len(http.entries) <= Len(raw)
  /\ http.at = "answer" => Len(http.entries) <= http.stats

LogsIInv == LogsTypeOK /\ RingsInStep /\ RequestInStep

=============================================================================
