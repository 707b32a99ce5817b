----------------------------- MODULE PromptAudit -----------------------------
(***************************************************************************)
(* generator/prompt_logger.py on top of the scanner: for each event the    *)
(* main thread scans prompt and response, emits a log line to Loki and     *)
(* leaves the full record to a daemon thread that uploads it to a blob, or *)
(* to a local file when there is no blob client or the upload fails.       *)
(*                                                                         *)
(* A record stands for its event's request id; Trace is the trace id of    *)
(* the span it was logged in, which events of one batch share.             *)
(***************************************************************************)
EXTENDS PiiScan

CONSTANTS
  Record,
  NoRecord,
  Trace,        (* _current_trace_id(), or "" without tracing                *)
  Prompt, Response,   (* the texts of each record                            *)
  Backends,     (* PII_BACKEND after "auto" is decided                       *)
  MaxDay        (* bound: midnights                                          *)

(* _build_blob_name: the day, and the trace id or the request id.          *)
Key(r) == IF Trace[r] = "" THEN <<"request", r>> ELSE <<"trace", Trace[r]>>

BlobName == (0 .. MaxDay) \X {Key(r) : r \in Record}

ASSUME AuditAssumption ==
  /\ NoRecord \notin Record /\ MaxDay \in Nat
  /\ Prompt \in [Record -> Seq(STRING)] /\ Response \in [Record -> Seq(STRING)]
  /\ Backends \subseteq {"regex", "presidio"}

VARIABLES
  cfg,          (* [connected, sampling, backend]: the environment           *)
  today,
  alive,
  engines,      (* the presidio singletons                                   *)
  scanned,      (* the record between its Loki line and its storing          *)
  loki,         (* per record its log line, or NoRecord                      *)
  client,       (* _blob_service_client is set                               *)
  thread,       (* per record its upload thread                              *)
  name,         (* per record the blob name its thread was given             *)
  blobs,        (* per blob name the record it holds                         *)
  local,        (* [rec, originals]: lines of the local file                 *)
  unwritten     (* records whose local write raised or whose upload thread   *)
                (* could not be started, a history variable                  *)

scanVars  == <<engines, scanned, loki>>
storeVars == <<client, thread, name, blobs, local, unwritten>>
vars      == <<cfg, today, alive, scanVars, storeVars>>

Configs == [connected : BOOLEAN, sampling : BOOLEAN, backend : Backends]

Logged(r) == loki[r] # NoRecord

TypeOK ==
  /\ cfg \in Configs /\ today \in 0 .. MaxDay /\ alive \in BOOLEAN
  /\ engines \in {"none", "half", "ready"}
  /\ scanned \in Record \cup {NoRecord}
  /\ DOMAIN loki = Record
  /\ client \in BOOLEAN
  /\ thread \in [Record -> {"none", "new", "failed", "done"}]
  /\ name \in [Record -> BlobName \cup {NoRecord}]
  /\ blobs \in [BlobName -> Record \cup {NoRecord}]
  /\ local \subseteq [rec : Record, originals : BOOLEAN]
  /\ unwritten \subseteq Record
  (* _write_to_blob always finds the client its caller found               *)
  /\ \A r \in Record : thread[r] # "none" => client /\ name[r] \in BlobName

Init ==
  /\ cfg \in Configs /\ today = 0 /\ alive = TRUE
  /\ engines = "none" /\ scanned = NoRecord
  /\ loki = [r \in Record |-> NoRecord]
  /\ client = FALSE
  /\ thread = [r \in Record |-> "none"] /\ name = [r \in Record |-> NoRecord]
  /\ blobs = [b \in BlobName |-> NoRecord]
  /\ local = {} /\ unwritten = {}

-----------------------------------------------------------------------------
(* The main thread.                                                        *)

(* pii_entity_counts: one dict spread over the other, so that the          *)
(* response's count of an entity hides the prompt's.                       *)
Merged(p, s) ==
  [e \in Entity |-> IF s.counts[e] > 0 THEN s.counts[e] ELSE p.counts[e]]

(* a bug: the line carries the prompt as it came in                        *)
LokiLineOfOriginals(r, p, s) ==
  [prompt |-> Prompt[r], response |-> s.text, counts |-> Merged(p, s),
   detected |-> Detected(p) \/ Detected(s), skipped |-> "none" \in {p.backend, s.backend}]

(* What goes to Loki; "skipped" says that a text was left unscanned.       *)
LokiLine(r, p, s) ==
  [prompt |-> p.text, response |-> s.text, counts |-> Merged(p, s),
   detected |-> Detected(p) \/ Detected(s), skipped |-> "none" \in {p.backend, s.backend}]

(* scan_event_fields, then log_prompt up to the Loki line.                 *)
ScanAndLog(r) ==
  /\ alive /\ scanned = NoRecord /\ ~Logged(r)
  /\ \E p \in ScanOutcomes(Prompt[r], cfg.backend, cfg.sampling, engines) :
       \E s \in ScanOutcomes(Response[r], cfg.backend, cfg.sampling, p[2]) :
         /\ engines' = s[2]
         /\ loki' = [loki EXCEPT ![r] = LokiLine(r, p[1], s[1])]
  /\ scanned' = r
  /\ UNCHANGED <<cfg, today, alive, storeVars>>

(* _write_to_local; an error is logged and the record is in neither sink.  *)
WriteToLocal(r, originals) ==
  \/ local' = local \cup {[rec |-> r, originals |-> originals]} /\ UNCHANGED unwritten
  \/ unwritten' = unwritten \cup {r} /\ UNCHANGED local

(* _get_blob_service_client returns a client: the one built before, or a   *)
(* new one.  Originals go into the record, which a thread uploads under    *)
(* the name of this day.                                                   *)
StartUpload ==
  /\ alive /\ scanned # NoRecord
  /\ cfg.connected
  /\ client' = TRUE
  /\ name' = [name EXCEPT ![scanned] = <<today, Key(scanned)>>]
  /\ thread' = [thread EXCEPT ![scanned] = "new"]
  /\ scanned' = NoRecord
  /\ UNCHANGED <<cfg, today, alive, engines, loki, blobs, local, unwritten>>

(* Thread.start raises: the exception leaves log_prompt for the runner's   *)
(* handling of the event, and nobody writes the record anywhere.           *)
UploadRefused ==
  /\ alive /\ scanned # NoRecord
  /\ cfg.connected
  /\ client' = TRUE
  /\ unwritten' = unwritten \cup {scanned}
  /\ scanned' = NoRecord
  /\ UNCHANGED <<cfg, today, alive, engines, loki, thread, name, blobs, local>>

(* No connection string, no library, or an error while building: None, and *)
(* the next call tries again.  An error after the global was set leaves it *)
(* set all the same.                                                       *)
StoreLocally ==
  /\ alive /\ scanned # NoRecord
  /\ ~client
  /\ client' \in IF cfg.connected THEN BOOLEAN ELSE {FALSE}
  /\ WriteToLocal(scanned, FALSE)
  /\ scanned' = NoRecord
  /\ UNCHANGED <<cfg, today, alive, engines, loki, thread, name, blobs>>

-----------------------------------------------------------------------------
(* The daemon threads: _write_to_blob.                                     *)

(* a bug: overwrite=True                                                   *)
UploadOverwrites(r) ==
  /\ alive /\ thread[r] = "new"
  /\ blobs' = [blobs EXCEPT ![name[r]] = r]
  /\ thread' = [thread EXCEPT ![r] = "done"]
  /\ UNCHANGED <<cfg, today, alive, scanVars, client, name, local, unwritten>>

Upload(r) ==
  /\ alive /\ thread[r] = "new"
  /\ blobs[name[r]] = NoRecord
  /\ blobs' = [blobs EXCEPT ![name[r]] = r]
  /\ thread' = [thread EXCEPT ![r] = "done"]
  /\ UNCHANGED <<cfg, today, alive, scanVars, client, name, local, unwritten>>

(* overwrite=False on a name that is taken.                                *)
UploadCollides(r) ==
  /\ alive /\ thread[r] = "new"
  /\ blobs[name[r]] # NoRecord
  /\ thread' = [thread EXCEPT ![r] = "failed"]
  /\ UNCHANGED <<cfg, today, alive, scanVars, client, name, blobs, local, unwritten>>

(* The service or the network fails, before the blob is stored or after.   *)
UploadRaises(r) ==
  /\ alive /\ thread[r] = "new"
  /\ blobs' \in {blobs} \cup (IF blobs[name[r]] = NoRecord
                              THEN {[blobs EXCEPT ![name[r]] = r]} ELSE {})
  /\ thread' = [thread EXCEPT ![r] = "failed"]
  /\ UNCHANGED <<cfg, today, alive, scanVars, client, name, local, unwritten>>

(* a bug: the exception is logged and nothing is written                   *)
FallBackToNothing(r) ==
  /\ alive /\ thread[r] = "failed"
  /\ thread' = [thread EXCEPT ![r] = "done"]
  /\ UNCHANGED <<cfg, today, alive, scanVars, client, name, blobs, local, unwritten>>

(* The record it was given, originals included, goes to the local file.    *)
FallBack(r) ==
  /\ alive /\ thread[r] = "failed"
  /\ WriteToLocal(r, TRUE)
  /\ thread' = [thread EXCEPT ![r] = "done"]
  /\ UNCHANGED <<cfg, today, alive, scanVars, client, name, blobs>>

ThreadStep(r) ==
  \/ Upload(r) \/ UploadCollides(r) \/ UploadRaises(r) \/ FallBack(r)

Midnight ==
  /\ alive /\ today < MaxDay
  /\ today' = today + 1
  /\ UNCHANGED <<cfg, alive, scanVars, storeVars>>

(* The process ends: nobody joins the daemon threads.                      *)
Exit ==
  /\ alive
  /\ alive' = FALSE
  /\ UNCHANGED <<cfg, today, scanVars, storeVars>>

Next ==
  \/ \E r \in Record : ScanAndLog(r) \/ ThreadStep(r)
  \/ StartUpload \/ UploadRefused \/ StoreLocally \/ Midnight \/ Exit

Spec == Init /\ [][Next]_vars

-----------------------------------------------------------------------------
(* Properties.                                                             *)

InBlob(r)  == \E b \in BlobName : blobs[b] = r
InLocal(r) == \E l \in local : l.rec = r

(* A record that has left log_prompt and whose thread is through is in a   *)
(* blob or in the local file, unless the disk refused it or its thread     *)
(* could not be started: name collisions, failed uploads and a client      *)
(* built half-way lose nothing (prompt_logger l.144-173).                  *)
AuditIsFiled ==
  \A r \in Record :
    Logged(r) /\ scanned # r /\ thread[r] \in {"none", "done"} =>
      InBlob(r) \/ InLocal(r) \/ r \in unwritten

(* The inductive invariant.                                                *)
IInv == TypeOK /\ AuditIsFiled

(* An audit record in a blob stays there as it was written, although the   *)
(* records of a batch fight for one name (overwrite=False).                *)
KeepsBlobs == \A b \in BlobName : blobs[b] # NoRecord => blobs'[b] = blobs[b]

WormHolds == [][KeepsBlobs]_vars

(* No token both back ends know leaves the process unredacted in a log     *)
(* line whose texts were scanned, however often an engine fails half-way   *)
(* and the other takes over; and a line says that something was detected   *)
(* exactly when its texts are not the event's own (pii_scanner l.152-240). *)
Known == (UNION {Hits[e] : e \in DOMAIN Hits})
         \cap (UNION {Recognizers[e] : e \in DOMAIN Recognizers})

LokiIsRedacted ==
  \A r \in Record : Logged(r) =>
    /\ ~loki[r].skipped =>
         Found(loki[r].prompt, Known) = {} /\ Found(loki[r].response, Known) = {}
    /\ loki[r].detected <=> loki[r].prompt # Prompt[r] \/ loki[r].response # Response[r]

(* "Each trace_id gets its own blob so concurrent writers don't collide"   *)
(* (generator/prompt_logger.py:145), for events of one day.                *)
WritersDoNotCollide ==
  \A r \in Record : thread[r] = "failed" => blobs[name[r]] \in {r, NoRecord}

(* "Full originals go to WORM Blob only - never to stdout/Loki or local    *)
(* fallback" (generator/prompt_logger.py:265).                             *)
OriginalsOnlyInBlobs == \A l \in local : ~l.originals

=============================================================================
