------------------------------ MODULE Telemetry ------------------------------
(***************************************************************************)
(* The runner's own telemetry around TelemetryLogs: main() sets up         *)
(* logging, traces and the HTTP server, each batch makes sure the metrics  *)
(* are set up, and each event is recorded in the instruments and logged    *)
(* (runner.py, otel_metrics.py, otel_tracing.py).                          *)
(***************************************************************************)
EXTENDS TelemetryLogs

CONSTANTS
  Main,         (* the writer that is the runner's main thread               *)
  Depth,        (* producer queue depths a batch may end with                *)
  MaxEvents     (* bound: events recorded                                    *)

ASSUME TelemetryAssumption ==
  /\ Main \in Writer /\ {"access", "other"} \subseteq Kind
  /\ Depth \subseteq Nat /\ MaxEvents \in Nat

VARIABLES
  at,           (* where the main thread is                                  *)
  server,       (* runner_http._server                                       *)
  otel,         (* "noop" stubs or "ready" instruments                       *)
  tracer,       (* otel_tracing._TRACER is set                               *)
  events,
  series,       (* per instrument how often it was recorded                  *)
  depthSum,     (* the up-down counter kafka_queue_depth                     *)
  depthLast     (* _queue_depth_last                                         *)

metricVars == <<otel, tracer, events, series, depthSum, depthLast>>
vars       == <<logsVars, at, server, metricVars>>

(* The instruments of record_metrics, in the order it uses them, the last  *)
(* one for an error only.                                                  *)
Instruments ==
  <<"request_count", "request_duration", "request_token", "request_cost", "exception_count">>

Names == {Instruments[k] : k \in DOMAIN Instruments}

TypeOK ==
  /\ at \in {"logging", "startup", "tracing", "http", "setup", "record", "login", "log",
            "access", "prompt", "depth"}
  /\ server \in BOOLEAN /\ otel \in {"noop", "ready"} /\ tracer \in BOOLEAN
  /\ events \in 0 .. MaxEvents
  /\ series \in [Names -> 0 .. events]
  /\ depthSum \in Int /\ depthLast \in Depth \cup {0}

Init ==
  /\ LogsInit
  /\ at = "logging" /\ server = FALSE /\ otel = "noop" /\ tracer = FALSE
  /\ events = 0
  /\ series = [i \in Names |-> 0]
  /\ depthSum = 0 /\ depthLast = 0

Goto(place) == at' = place

-----------------------------------------------------------------------------
(* main() before the loop.                                                 *)

MainSetsUpLogging ==
  /\ at = "logging"
  /\ SetupLogging
  /\ Goto("startup")
  /\ UNCHANGED <<server, metricVars>>

(* log_startup_config.                                                     *)
MainLogsStartup ==
  /\ at = "startup"
  /\ Log(Main, "telemetry")
  /\ Goto("tracing")
  /\ UNCHANGED <<server, metricVars>>

(* setup_tracing: an exporter that cannot be built leaves a tracer whose   *)
(* spans go nowhere; without the SDK there is no tracer.                   *)
MainSetsUpTracing ==
  /\ at = "tracing"
  /\ tracer' \in BOOLEAN
  /\ Goto("http")
  /\ UNCHANGED <<logsVars, server, otel, events, series, depthSum, depthLast>>

(* runner_http.start: without a port, or when it is taken, no server.      *)
MainStartsHttp ==
  /\ at = "http"
  /\ server' \in BOOLEAN
  /\ Goto("setup")
  /\ UNCHANGED <<logsVars, metricVars>>

-----------------------------------------------------------------------------
(* A batch.                                                                *)

(* _ensure_otel, the first time or again after it raised: the flags of     *)
(* runner and otel_metrics are set last, so the next batch tries again.    *)
EnsureOtel ==
  /\ at = "setup"
  /\ \/ otel' = "ready" /\ Goto("record")
     \/ otel = "noop" /\ UNCHANGED otel /\ Goto("setup")
  /\ UNCHANGED <<logsVars, server, tracer, events, series, depthSum, depthLast>>

(* record_metrics: one try around all instruments; an exception after      *)
(* `done` of them leaves the others of this event unrecorded, and so does  *)
(* the end of an event without error after all but the last.               *)
RecordMetrics ==
  /\ at = "record" /\ events < MaxEvents
  /\ events' = events + 1
  /\ \E done \in 0 .. Len(Instruments) :
       series' = [i \in DOMAIN series |->
                    IF \E k \in 1 .. done : Instruments[k] = i
                    THEN series[i] + 1 ELSE series[i]]
  /\ Goto("login")
  /\ UNCHANGED <<logsVars, server, otel, tracer, depthSum, depthLast>>

(* log_login_event on a session's first turn.                              *)
LogLogin ==
  /\ at = "login"
  /\ Log(Main, "other") \/ UNCHANGED logsVars
  /\ Goto("log")
  /\ UNCHANGED <<server, metricVars>>

(* log_event: the structured record, and in plain mode an access line.     *)
LogEvent ==
  /\ at = "log"
  /\ Log(Main, "telemetry")
  /\ Goto(IF fmt = "plain" THEN "access" ELSE "prompt")
  /\ UNCHANGED <<server, metricVars>>

LogAccess ==
  /\ at = "access"
  /\ Log(Main, "access")
  /\ Goto("prompt")
  /\ UNCHANGED <<server, metricVars>>

(* log_prompt's record, when the event has texts.                          *)
LogPrompt ==
  /\ at = "prompt"
  /\ Log(Main, "telemetry") \/ UNCHANGED logsVars
  /\ Goto("depth")
  /\ UNCHANGED <<server, metricVars>>

(* More events of the batch.                                               *)
NextEvent ==
  /\ at = "depth" /\ emitting[Main] = <<>>
  /\ Goto("record")
  /\ UNCHANGED <<logsVars, server, metricVars>>

(* a bug: the last depth is noted before the counter is moved              *)
RecordDepthNotesFirst ==
  /\ at = "depth" /\ emitting[Main] = <<>>
  /\ \E depth \in Depth :
       /\ depthLast' = depth
       /\ depthSum' \in {depthSum, depthSum + (depth - depthLast)}
  /\ Goto("setup")
  /\ UNCHANGED <<logsVars, server, otel, tracer, events, series>>

(* record_self_metric(kafka_queue_depth): a counter is made to follow a    *)
(* level by adding differences; an add that raises changes neither side.   *)
RecordDepth ==
  /\ at = "depth" /\ emitting[Main] = <<>>
  /\ \/ \E depth \in Depth :
          depthSum' = depthSum + (depth - depthLast) /\ depthLast' = depth
     \/ UNCHANGED <<depthSum, depthLast>>
  /\ Goto("setup")
  /\ UNCHANGED <<logsVars, server, otel, tracer, events, series>>

MainStep ==
  \/ MainSetsUpLogging \/ MainLogsStartup \/ MainSetsUpTracing \/ MainStartsHttp
  \/ EnsureOtel \/ RecordMetrics \/ LogLogin \/ LogEvent \/ LogAccess \/ LogPrompt
  \/ NextEvent \/ RecordDepth

(* Other threads (probes, evaluator, pod simulator) log lines of their own *)
(* once the handlers are there; requests need a server.                    *)
OtherLogs ==
  /\ \E w \in Writer \ {Main} : Log(w, "other")
  /\ at # "logging"
  /\ UNCHANGED <<at, server, metricVars>>

Serving ==
  /\ LogsStep
  /\ http' # http => server
  /\ UNCHANGED <<at, server, metricVars>>

Next == MainStep \/ OtherLogs \/ Serving

Spec == Init /\ [][Next]_vars

-----------------------------------------------------------------------------
(* Properties.                                                             *)

(* The exported queue depth is the last one recorded, whatever additions   *)
(* failed; and of two instruments of record_metrics the earlier has seen   *)
(* at least the events the later has, so that rates computed from them     *)
(* (cost or tokens per request, errors per request) never exceed what was  *)
(* (otel_metrics l.262).                                                   *)
MetricsAddUp ==
  /\ depthSum = depthLast
  /\ \A i, k \in DOMAIN Instruments :
       i < k => series[Instruments[i]] >= series[Instruments[k]]

(* The inductive invariant.                                                *)
IInv == TypeOK /\ LogsIInv /\ MetricsAddUp

=============================================================================
