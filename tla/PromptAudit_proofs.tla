------------------------- MODULE PromptAudit_proofs -------------------------
(***************************************************************************)
(* Proofs about PromptAudit: no finished record is lost, no filed blob     *)
(* changes and no log line shows what a scan should have redacted, for any *)
(* records, trace ids, texts and number of midnights.                      *)
(***************************************************************************)
EXTENDS PromptAudit, SequenceTheorems, FiniteSetTheorems, TLAPS

(* A scan leaves the engines in one of their three states.                 *)
LEMMA EnginesAfterScan ==
  ASSUME NEW text, NEW backend, NEW sampling,
         NEW e \in {"none", "half", "ready"},
         NEW o \in ScanOutcomes(text, backend, sampling, e)
  PROVE  o[2] \in {"none", "half", "ready"}
<1> DEFINE untouched == Untouched(text)
           byRegex == ScanRegex(text)
           byPresidio == ScanPresidio(text)
<1>1. \A p \in PresidioOutcomes(text, e) : p[2] \in {"none", "half", "ready"}
  <2>1. CASE e = "none"
    <3>1. PresidioOutcomes(text, e) =
            {<<byRegex, "none">>, <<byRegex, "half">>, <<byRegex, "ready">>,
             <<byPresidio, "ready">>}
      BY <2>1 DEF PresidioOutcomes
    <3> HIDE DEF byRegex, byPresidio
    <3> QED
      BY <3>1
  <2>2. CASE e = "half"
    <3>1. PresidioOutcomes(text, e) = {<<byRegex, "half">>}
      BY <2>2 DEF PresidioOutcomes
    <3> HIDE DEF byRegex, byPresidio
    <3> QED
      BY <3>1
  <2>3. CASE e = "ready"
    <3>1. PresidioOutcomes(text, e) = {<<byRegex, "ready">>, <<byPresidio, "ready">>}
      BY <2>3 DEF PresidioOutcomes
    <3> HIDE DEF byRegex, byPresidio
    <3> QED
      BY <3>1
  <2> QED
    BY <2>1, <2>2, <2>3
<1>2. \/ o \in {<<untouched, e>>, <<byRegex, e>>}
      \/ o \in PresidioOutcomes(text, e)
  BY DEF ScanOutcomes
<1> HIDE DEF untouched, byRegex, byPresidio
<1> QED
  BY <1>1, <1>2

LEMMA BlobNames ==
  ASSUME today \in 0 .. MaxDay, NEW r \in Record
  PROVE  <<today, Key(r)>> \in BlobName
BY DEF BlobName

LEMMA AuditInitOK == Init => IInv
<1> SUFFICES ASSUME Init PROVE IInv
  OBVIOUS
<1>1. TypeOK
  <2>1. /\ today \in 0 .. MaxDay
        /\ name \in [Record -> BlobName \cup {NoRecord}]
        /\ blobs \in [BlobName -> Record \cup {NoRecord}]
        /\ \A r \in Record : thread[r] = "none"
    BY AuditAssumption DEF Init
  <2> QED
    BY <2>1 DEF Init, TypeOK
<1>2. AuditIsFiled
  BY DEF Init, AuditIsFiled, Logged
<1> QED
  BY <1>1, <1>2 DEF IInv

-----------------------------------------------------------------------------
(* Records stay filed while blobs and local lines only grow.               *)

LEMMA StaysFiled ==
  ASSUME NEW r \in Record, InBlob(r) \/ InLocal(r) \/ r \in unwritten,
         KeepsBlobs,
         local \subseteq local', unwritten \subseteq unwritten'
  PROVE  (InBlob(r) \/ InLocal(r) \/ r \in unwritten)'
<1>1. ASSUME InBlob(r) PROVE InBlob(r)'
  <2>1. PICK b \in BlobName : blobs[b] = r
    BY <1>1 DEF InBlob
  <2>2. blobs'[b] = r
    BY <2>1, AuditAssumption DEF KeepsBlobs
  <2> QED
    BY <2>2 DEF InBlob, BlobName, Key
<1>2. ASSUME InLocal(r) PROVE InLocal(r)'
  BY <1>2 DEF InLocal
<1> QED
  BY <1>1, <1>2

(* A write of the local file files its record either way.                  *)
LEMMA WriteFiles ==
  ASSUME TypeOK, NEW r \in Record, NEW originals \in BOOLEAN,
         WriteToLocal(r, originals)
  PROVE  /\ local' \subseteq [rec : Record, originals : BOOLEAN]
         /\ unwritten' \subseteq Record
         /\ local \subseteq local' /\ unwritten \subseteq unwritten'
         /\ (InLocal(r) \/ r \in unwritten)'
<1>1. CASE local' = local \cup {[rec |-> r, originals |-> originals]} /\ UNCHANGED unwritten
  <2> DEFINE l == [rec |-> r, originals |-> originals]
  <2>1. l \in local' /\ l \in [rec : Record, originals : BOOLEAN] /\ l.rec = r
    BY <1>1
  <2> HIDE DEF l
  <2>2. InLocal(r)'
    BY <2>1 DEF InLocal
  <2>3. local' = local \cup {l} /\ unwritten' = unwritten
    BY <1>1 DEF l
  <2> QED
    BY <2>1, <2>2, <2>3 DEF TypeOK
<1>2. CASE unwritten' = unwritten \cup {r} /\ UNCHANGED local
  BY <1>2 DEF TypeOK
<1> QED
  BY <1>1, <1>2 DEF WriteToLocal

(* An action that changes neither sink nor threads.                        *)
LEMMA StoresApart ==
  ASSUME AuditIsFiled, UNCHANGED <<scanned, loki, storeVars>>
  PROVE  AuditIsFiled'
BY DEF AuditIsFiled, storeVars, Logged, InBlob, InLocal, BlobName, Key

LEMMA ScanAndLogOK ==
  ASSUME IInv, NEW r \in Record, ScanAndLog(r)
  PROVE  IInv'
<1> USE DEF ScanAndLog, storeVars
<1>1. PICK p \in ScanOutcomes(Prompt[r], cfg.backend, cfg.sampling, engines) :
        \E s \in ScanOutcomes(Response[r], cfg.backend, cfg.sampling, p[2]) :
          /\ engines' = s[2]
          /\ loki' = [loki EXCEPT ![r] = LokiLine(r, p[1], s[1])]
  OBVIOUS
<1>2. PICK s \in ScanOutcomes(Response[r], cfg.backend, cfg.sampling, p[2]) :
        /\ engines' = s[2]
        /\ loki' = [loki EXCEPT ![r] = LokiLine(r, p[1], s[1])]
  BY <1>1
<1>3. engines' \in {"none", "half", "ready"}
  <2>1. p[2] \in {"none", "half", "ready"}
    BY EnginesAfterScan DEF IInv, TypeOK
  <2> QED
    BY <1>2, <2>1, EnginesAfterScan
<1>4. DOMAIN loki' = Record /\ \A q \in Record \ {r} : Logged(q)' <=> Logged(q)
  <2> DEFINE line == LokiLine(r, p[1], s[1])
  <2>1. loki' = [loki EXCEPT ![r] = line] /\ DOMAIN loki = Record
    BY <1>2 DEF IInv, TypeOK
  <2> HIDE DEF line
  <2> QED
    BY <2>1 DEF Logged
<1>5. TypeOK'
  BY <1>3, <1>4 DEF IInv, TypeOK, Configs, BlobName, Key
<1>6. AuditIsFiled'
  <2> SUFFICES ASSUME NEW q \in Record, Logged(q)', scanned' # q, thread[q] \in {"none", "done"}
               PROVE  InBlob(q) \/ InLocal(q) \/ q \in unwritten
    BY DEF AuditIsFiled, InBlob, InLocal, BlobName, Key
  <2>1. q # r /\ Logged(q) /\ scanned # q
    BY <1>4, AuditAssumption
  <2> QED
    BY <2>1 DEF IInv, AuditIsFiled
<1> QED
  BY <1>5, <1>6 DEF IInv

LEMMA StartUploadOK ==
  ASSUME IInv, StartUpload
  PROVE  IInv'
<1> USE DEF StartUpload
<1>1. scanned \in Record /\ scanned \notin {NoRecord} /\ <<today, Key(scanned)>> \in BlobName
  BY BlobNames DEF IInv, TypeOK
<1>2. TypeOK'
  <2> DEFINE n == <<today, Key(scanned)>>
  <2>1. name' = [name EXCEPT ![scanned] = n] /\ n \in BlobName
    BY <1>1
  <2> HIDE DEF n
  <2>2. /\ name' \in [Record -> BlobName \cup {NoRecord}]
        /\ thread' \in [Record -> {"none", "new", "failed", "done"}]
        /\ \A r \in Record : thread'[r] # "none" => client' /\ name'[r] \in BlobName
    BY <1>1, <2>1 DEF IInv, TypeOK
  <2> QED
    BY <2>2 DEF IInv, TypeOK, Configs, BlobName, Key
<1>3. AuditIsFiled'
  <2> SUFFICES ASSUME NEW q \in Record, Logged(q), thread'[q] \in {"none", "done"}
               PROVE  InBlob(q) \/ InLocal(q) \/ q \in unwritten
    BY DEF AuditIsFiled, InBlob, InLocal, BlobName, Key, Logged
  <2>1. q # scanned /\ thread[q] \in {"none", "done"}
    BY <1>1 DEF IInv, TypeOK
  <2> QED
    BY <2>1 DEF IInv, AuditIsFiled
<1> QED
  BY <1>2, <1>3 DEF IInv

LEMMA UploadRefusedOK ==
  ASSUME IInv, UploadRefused
  PROVE  IInv'
<1> USE DEF UploadRefused
<1>1. TypeOK'
  BY DEF IInv, TypeOK, Configs, BlobName, Key
<1>2. AuditIsFiled'
  <2> SUFFICES ASSUME NEW q \in Record, Logged(q), thread[q] \in {"none", "done"}
               PROVE  InBlob(q) \/ InLocal(q) \/ q \in unwritten \cup {scanned}
    BY DEF AuditIsFiled, InBlob, InLocal, BlobName, Key, Logged
  <2> QED
    BY DEF IInv, AuditIsFiled
<1> QED
  BY <1>1, <1>2 DEF IInv

LEMMA StoreLocallyOK ==
  ASSUME IInv, StoreLocally
  PROVE  IInv'
<1>1. /\ WriteToLocal(scanned, FALSE) /\ TypeOK /\ client' \in BOOLEAN
      /\ ~client /\ scanned' = NoRecord
      /\ UNCHANGED <<cfg, today, alive, engines, loki, thread, name, blobs>>
  BY DEF StoreLocally, IInv, TypeOK
<1>2. PICK r \in Record : r = scanned
  BY DEF StoreLocally, IInv, TypeOK
<1>3. /\ local' \subseteq [rec : Record, originals : BOOLEAN]
      /\ unwritten' \subseteq Record
      /\ local \subseteq local' /\ unwritten \subseteq unwritten'
      /\ (InLocal(r) \/ r \in unwritten)'
  <2>1. WriteToLocal(r, FALSE)
    BY <1>1, <1>2
  <2> QED
    BY <1>1, <2>1, WriteFiles
<1>4. TypeOK'
  BY <1>1, <1>3 DEF TypeOK, Configs, BlobName, Key
<1>5. AuditIsFiled'
  <2> SUFFICES ASSUME NEW q \in Record, Logged(q), thread[q] \in {"none", "done"}
               PROVE  (InBlob(q) \/ InLocal(q) \/ q \in unwritten)'
    BY <1>1 DEF AuditIsFiled, Logged
  <2>1. CASE q = r
    BY <1>3, <2>1
  <2>2. CASE q # r
    <3>1. InBlob(q) \/ InLocal(q) \/ q \in unwritten
      BY <1>2, <2>2 DEF IInv, AuditIsFiled
    <3>2. KeepsBlobs
      BY <1>1 DEF KeepsBlobs
    <3> QED
      BY <1>3, <3>1, <3>2, StaysFiled
  <2> QED
    BY <2>1, <2>2
<1> QED
  BY <1>4, <1>5 DEF IInv

-----------------------------------------------------------------------------
(* The threads: what each of them does to the sinks, and then the rest.    *)

LEMMA ThreadFiles ==
  ASSUME IInv, NEW r \in Record, NEW to \in {"failed", "done"},
         thread[r] \in {"new", "failed"}, thread' = [thread EXCEPT ![r] = to],
         UNCHANGED <<cfg, today, alive, scanVars, client, name>>,
         blobs' \in [BlobName -> Record \cup {NoRecord}],
         KeepsBlobs,
         local' \subseteq [rec : Record, originals : BOOLEAN], unwritten' \subseteq Record,
         local \subseteq local', unwritten \subseteq unwritten',
         to = "done" => (InBlob(r) \/ InLocal(r) \/ r \in unwritten)'
  PROVE  IInv'
<1> USE DEF scanVars
<1>1. TypeOK'
  <2>1. /\ thread' \in [Record -> {"none", "new", "failed", "done"}]
        /\ \A q \in Record : thread'[q] # "none" => thread[q] # "none"
    BY DEF IInv, TypeOK
  <2> QED
    BY <2>1 DEF IInv, TypeOK, Configs, BlobName, Key
<1>2. AuditIsFiled'
  <2> SUFFICES ASSUME NEW q \in Record, Logged(q), scanned # q, thread'[q] \in {"none", "done"}
               PROVE  (InBlob(q) \/ InLocal(q) \/ q \in unwritten)'
    BY DEF AuditIsFiled, Logged
  <2>1. CASE q = r
    BY <2>1 DEF IInv, TypeOK
  <2>2. CASE q # r
    <3>1. thread[q] \in {"none", "done"}
      BY <2>2 DEF IInv, TypeOK
    <3>2. InBlob(q) \/ InLocal(q) \/ q \in unwritten
      BY <3>1 DEF IInv, AuditIsFiled
    <3> QED
      BY <3>2, StaysFiled
  <2> QED
    BY <2>1, <2>2
<1> QED
  BY <1>1, <1>2 DEF IInv

(* A record put into its free blob.                                        *)
LEMMA FreeBlob ==
  ASSUME TypeOK, NEW r \in Record, thread[r] # "none", blobs[name[r]] = NoRecord,
         blobs' = [blobs EXCEPT ![name[r]] = r]
  PROVE  /\ blobs' \in [BlobName -> Record \cup {NoRecord}]
         /\ KeepsBlobs
         /\ InBlob(r)'
<1>1. name[r] \in BlobName
  BY DEF TypeOK
<1>2. blobs'[name[r]] = r
  BY <1>1 DEF TypeOK
<1> QED
  BY <1>1, <1>2 DEF TypeOK, InBlob, BlobName, Key, KeepsBlobs

LEMMA UploadOK ==
  ASSUME IInv, NEW r \in Record, Upload(r)
  PROVE  IInv'
<1>1. /\ blobs' \in [BlobName -> Record \cup {NoRecord}]
      /\ KeepsBlobs
      /\ InBlob(r)'
  BY FreeBlob DEF Upload, IInv
<1>2. /\ local' \subseteq [rec : Record, originals : BOOLEAN] /\ unwritten' \subseteq Record
      /\ local \subseteq local' /\ unwritten \subseteq unwritten'
  BY DEF Upload, IInv, TypeOK
<1> QED
  BY <1>1, <1>2, ThreadFiles DEF Upload

LEMMA UploadCollidesOK ==
  ASSUME IInv, NEW r \in Record, UploadCollides(r)
  PROVE  IInv'
<1>1. /\ blobs' \in [BlobName -> Record \cup {NoRecord}]
      /\ KeepsBlobs
      /\ local' \subseteq [rec : Record, originals : BOOLEAN] /\ unwritten' \subseteq Record
      /\ local \subseteq local' /\ unwritten \subseteq unwritten'
  BY DEF UploadCollides, IInv, TypeOK, KeepsBlobs
<1> QED
  BY <1>1, ThreadFiles DEF UploadCollides

LEMMA UploadRaisesOK ==
  ASSUME IInv, NEW r \in Record, UploadRaises(r)
  PROVE  IInv'
<1>1. /\ blobs' \in [BlobName -> Record \cup {NoRecord}]
      /\ KeepsBlobs
  <2>1. CASE blobs' = blobs
    BY <2>1 DEF IInv, TypeOK, KeepsBlobs
  <2>2. CASE blobs[name[r]] = NoRecord /\ blobs' = [blobs EXCEPT ![name[r]] = r]
    BY <2>2, FreeBlob DEF UploadRaises, IInv
  <2> QED
    BY <2>1, <2>2 DEF UploadRaises
<1>2. /\ local' \subseteq [rec : Record, originals : BOOLEAN] /\ unwritten' \subseteq Record
      /\ local \subseteq local' /\ unwritten \subseteq unwritten'
  BY DEF UploadRaises, IInv, TypeOK
<1> QED
  BY <1>1, <1>2, ThreadFiles DEF UploadRaises

LEMMA FallBackOK ==
  ASSUME IInv, NEW r \in Record, FallBack(r)
  PROVE  IInv'
<1>1. /\ blobs' \in [BlobName -> Record \cup {NoRecord}]
      /\ KeepsBlobs
  BY DEF FallBack, IInv, TypeOK, KeepsBlobs
<1>2. /\ local' \subseteq [rec : Record, originals : BOOLEAN] /\ unwritten' \subseteq Record
      /\ local \subseteq local' /\ unwritten \subseteq unwritten'
      /\ (InLocal(r) \/ r \in unwritten)'
  BY WriteFiles DEF FallBack, IInv
<1> QED
  BY <1>1, <1>2, ThreadFiles DEF FallBack

LEMMA MidnightOK ==
  ASSUME IInv, Midnight
  PROVE  IInv'
<1>1. today' \in 0 .. MaxDay
  BY AuditAssumption DEF Midnight, IInv, TypeOK
<1>2. TypeOK'
  BY <1>1 DEF Midnight, IInv, TypeOK, scanVars, storeVars, Configs, BlobName, Key
<1> QED
  BY <1>2, StoresApart DEF Midnight, scanVars, IInv

LEMMA ExitOK ==
  ASSUME IInv, Exit
  PROVE  IInv'
<1>1. TypeOK'
  BY DEF Exit, IInv, TypeOK, scanVars, storeVars, Configs, BlobName, Key
<1> QED
  BY <1>1, StoresApart DEF Exit, scanVars, IInv

-----------------------------------------------------------------------------
(* What the scans do to a text, whatever its tokens are.  The regex scan   *)
(* is a function of the number of passes made: it is unfolded once, and    *)
(* what the passes did so far is carried through all nine.                 *)

Unscanned(text) == [text |-> text, counts |-> NoCounts, backend |-> "regex"]

LEMMA NinePatterns ==
  /\ Len(Patterns) = 9
  /\ \A k \in 1 .. 9 : Patterns[k] \in DOMAIN Hits
  /\ \A e \in DOMAIN Hits : \E k \in 1 .. 9 : Patterns[k] = e
  /\ \A j, k \in 1 .. 9 : j # k => Patterns[j] # Patterns[k]
<1>1. Len(Patterns) = 9
  BY DEF Patterns
<1>2. \A k \in 1 .. 9 : Patterns[k] \in DOMAIN Hits
  BY DEF Patterns, Hits
<1>3. \A e \in DOMAIN Hits : \E k \in 1 .. 9 : Patterns[k] = e
  BY DEF Patterns, Hits
<1>4. \A j, k \in 1 .. 9 : j # k => Patterns[j] # Patterns[k]
  BY DEF Patterns
<1> QED
  BY <1>1, <1>2, <1>3, <1>4

(* The passes exist: nine of them can be written down one after the other. *)
LEMMA PassesUnfold ==
  ASSUME NEW text
  PROVE  Passes(text) = [k \in 0 .. 9 |-> IF k = 0 THEN Unscanned(text)
                                          ELSE Pass(Passes(text)[k - 1], Patterns[k])]
<1> DEFINE P(f) == f = [k \in 0 .. 9 |-> IF k = 0 THEN Unscanned(text)
                                         ELSE Pass(f[k - 1], Patterns[k])]
<1>1. \E f : P(f)
  <2> DEFINE s0 == Unscanned(text)
             s1 == Pass(s0, Patterns[1])
             s2 == Pass(s1, Patterns[2])
             s3 == Pass(s2, Patterns[3])
             s4 == Pass(s3, Patterns[4])
             s5 == Pass(s4, Patterns[5])
             s6 == Pass(s5, Patterns[6])
             s7 == Pass(s6, Patterns[7])
             s8 == Pass(s7, Patterns[8])
             s9 == Pass(s8, Patterns[9])
             list == <<s1, s2, s3, s4, s5, s6, s7, s8, s9>>
             g == [k \in 0 .. 9 |-> IF k = 0 THEN s0 ELSE list[k]]
  <2>1. g = [k \in 0 .. 9 |-> IF k = 0 THEN Unscanned(text) ELSE Pass(g[k - 1], Patterns[k])]
    <3>1. /\ s1 = Pass(s0, Patterns[1]) /\ s2 = Pass(s1, Patterns[2])
          /\ s3 = Pass(s2, Patterns[3]) /\ s4 = Pass(s3, Patterns[4])
          /\ s5 = Pass(s4, Patterns[5]) /\ s6 = Pass(s5, Patterns[6])
          /\ s7 = Pass(s6, Patterns[7]) /\ s8 = Pass(s7, Patterns[8])
          /\ s9 = Pass(s8, Patterns[9]) /\ s0 = Unscanned(text)
      OBVIOUS
    <3> HIDE DEF s0, s1, s2, s3, s4, s5, s6, s7, s8, s9
    <3>2. /\ list[1] = s1 /\ list[2] = s2 /\ list[3] = s3 /\ list[4] = s4 /\ list[5] = s5
          /\ list[6] = s6 /\ list[7] = s7 /\ list[8] = s8 /\ list[9] = s9
      OBVIOUS
    <3> HIDE DEF list
    <3>3. g[0] = s0 /\ \A k \in 1 .. 9 : g[k] = list[k]
      OBVIOUS
    <3>4. \A k \in 1 .. 9 : g[k] = Pass(g[k - 1], Patterns[k])
      <4> HIDE DEF g
      <4> SUFFICES ASSUME NEW k \in 1 .. 9 PROVE g[k] = Pass(g[k - 1], Patterns[k])
        OBVIOUS
      <4>1. CASE k = 1
        BY <4>1, <3>1, <3>2, <3>3
      <4>2. CASE k = 2
        BY <4>2, <3>1, <3>2, <3>3
      <4>3. CASE k = 3
        BY <4>3, <3>1, <3>2, <3>3
      <4>4. CASE k = 4
        BY <4>4, <3>1, <3>2, <3>3
      <4>5. CASE k = 5
        BY <4>5, <3>1, <3>2, <3>3
      <4>6. CASE k = 6
        BY <4>6, <3>1, <3>2, <3>3
      <4>7. CASE k = 7
        BY <4>7, <3>1, <3>2, <3>3
      <4>8. CASE k = 8
        BY <4>8, <3>1, <3>2, <3>3
      <4>9. CASE k = 9
        BY <4>9, <3>1, <3>2, <3>3
      <4> QED
        BY <4>1, <4>2, <4>3, <4>4, <4>5, <4>6, <4>7, <4>8, <4>9
    <3>5. DOMAIN g = 0 .. 9 /\ g = [k \in 0 .. 9 |-> g[k]]
      OBVIOUS
    <3> HIDE DEF g
    <3>6. \A k \in 0 .. 9 : g[k] = IF k = 0 THEN Unscanned(text) ELSE Pass(g[k - 1], Patterns[k])
      BY <3>1, <3>3, <3>4
    <3> QED
      BY <3>5, <3>6
  <2> HIDE DEF g
  <2> QED
    BY <2>1
<1>2. Passes(text) = CHOOSE f : P(f)
  BY NinePatterns DEF Passes, Unscanned
<1> HIDE DEF P
<1>3. P(Passes(text))
  BY <1>1, <1>2
<1> QED
  BY <1>3 DEF P

LEMMA PlaceholderIsClean ==
  /\ \A e \in DOMAIN Hits : Placeholder \notin Hits[e]
  /\ \A e \in DOMAIN Recognizers : Placeholder \notin Recognizers[e]
<1>1. \A e \in DOMAIN Hits : Placeholder \notin Hits[e]
  BY DEF Hits, Placeholder
<1>2. \A e \in DOMAIN Recognizers : Placeholder \notin Recognizers[e]
  BY DEF Recognizers, Placeholder
<1> QED
  BY <1>1, <1>2

(* What a redacted text is made of.                                        *)
Token == STRING \cup {Placeholder}

LEMMA TextsAreTokens ==
  ASSUME NEW text \in Seq(STRING)
  PROVE  text \in Seq(Token)
<1>1. /\ Len(text) \in Nat /\ text \in [1 .. Len(text) -> STRING]
  BY LenProperties
<1>2. text \in [1 .. Len(text) -> Token]
  BY <1>1 DEF Token
<1> QED
  BY <1>1, <1>2, SeqDef

(* A count is positive exactly when something was found.                   *)
LEMMA CountFound ==
  ASSUME NEW S, NEW text \in Seq(S), NEW kinds
  PROVE  /\ Cardinality(Found(text, kinds)) \in Nat
         /\ Cardinality(Found(text, kinds)) > 0 <=> \E i \in DOMAIN text : text[i] \in kinds
<1> DEFINE F == Found(text, kinds)
<1>1. F \subseteq 1 .. Len(text) /\ Len(text) \in Nat
  BY LenProperties DEF Found
<1>2. IsFiniteSet(1 .. Len(text))
  BY <1>1, FS_Interval
<1>3. IsFiniteSet(F)
  BY <1>1, <1>2, FS_Subset
<1>4. Cardinality(F) \in Nat
  BY <1>3, FS_CardinalityType
<1>5. Cardinality(F) = 0 <=> F = {}
  BY <1>3, FS_EmptySet
<1>6. F # {} <=> \E i \in DOMAIN text : text[i] \in kinds
  BY DEF Found
<1> HIDE DEF F
<1>7. Cardinality(F) > 0 <=> F # {}
  BY <1>4, <1>5
<1> QED
  BY <1>4, <1>6, <1>7 DEF F

(* After k passes the tokens of the first k patterns are gone, the others  *)
(* are where they were, and something was counted if anything is gone.     *)
HitsOf(k) == UNION {Hits[Patterns[j]] : j \in 1 .. k}

PassedBy(text, r, k) ==
  /\ r \in [text : Seq(Token), counts : [Entity -> Nat], backend : {"regex"}]
  /\ DOMAIN r.text = DOMAIN text
  /\ \A i \in DOMAIN text :
       r.text[i] = IF text[i] \in HitsOf(k) THEN Placeholder ELSE text[i]
  /\ \A j \in 1 .. 9 : j > k => r.counts[Patterns[j]] = 0
  /\ Detected(r) <=> \E i \in DOMAIN text : text[i] \in HitsOf(k)

LEMMA NotPassed ==
  ASSUME NEW text \in Seq(Token)
  PROVE  PassedBy(text, Unscanned(text), 0)
<1> DEFINE r == Unscanned(text)
<1>1. HitsOf(0) = {}
  BY DEF HitsOf
<1>2. /\ r \in [text : Seq(Token), counts : [Entity -> Nat], backend : {"regex"}]
      /\ r.text = text /\ \A e \in Entity : r.counts[e] = 0
  BY DEF Unscanned, NoCounts
<1>3. \A j \in 1 .. 9 : r.counts[Patterns[j]] = 0
  BY <1>2, NinePatterns DEF Entity
<1>4. ~Detected(r)
  BY <1>2 DEF Detected
<1> HIDE DEF r
<1>5. PassedBy(text, r, 0)
  BY <1>1, <1>2, <1>3, <1>4 DEF PassedBy
<1> QED
  BY <1>5 DEF r

LEMMA OnePass ==
  ASSUME NEW text \in Seq(Token), NEW k \in 1 .. 9, NEW r, PassedBy(text, r, k - 1)
  PROVE  PassedBy(text, Pass(r, Patterns[k]), k)
<1> DEFINE e == Patterns[k]
           n == Cardinality(Found(r.text, Hits[e]))
           t == [i \in DOMAIN r.text |-> IF r.text[i] \in Hits[e] THEN Placeholder ELSE r.text[i]]
           s == Pass(r, e)
<1>1. /\ r \in [text : Seq(Token), counts : [Entity -> Nat], backend : {"regex"}]
      /\ DOMAIN r.text = DOMAIN text
      /\ \A i \in DOMAIN text :
           r.text[i] = IF text[i] \in HitsOf(k - 1) THEN Placeholder ELSE text[i]
      /\ \A j \in 1 .. 9 : j > k - 1 => r.counts[Patterns[j]] = 0
      /\ Detected(r) <=> \E i \in DOMAIN text : text[i] \in HitsOf(k - 1)
  BY DEF PassedBy
<1>2. e \in DOMAIN Hits /\ e \in Entity
  BY NinePatterns DEF Entity
<1>3. \A x : x \in HitsOf(k) <=> x \in HitsOf(k - 1) \/ x \in Hits[e]
  <2> TAKE x
  <2>1. x \in HitsOf(k) <=> \E j \in 1 .. k : x \in Hits[Patterns[j]]
    BY DEF HitsOf
  <2>2. x \in HitsOf(k - 1) <=> \E j \in 1 .. k - 1 : x \in Hits[Patterns[j]]
    BY DEF HitsOf
  <2>3. \A j : j \in 1 .. k <=> j \in 1 .. k - 1 \/ j = k
    OBVIOUS
  <2> QED
    BY <2>1, <2>2, <2>3
<1>4. Placeholder \notin Hits[e] /\ Placeholder \in Token
  <2>1. Placeholder \notin Hits[e]
    BY <1>2, PlaceholderIsClean
  <2>2. Placeholder \in Token
    BY DEF Token
  <2> QED
    BY <2>1, <2>2
<1>5. r.text \in Seq(Token) /\ r.counts \in [Entity -> Nat] /\ r.backend = "regex"
  BY <1>1
<1>6. n \in Nat /\ (n > 0 <=> \E i \in DOMAIN r.text : r.text[i] \in Hits[e])
  BY <1>5, CountFound
<1>7. t \in Seq(Token) /\ DOMAIN t = DOMAIN text
  <2>1. Len(r.text) \in Nat /\ DOMAIN r.text = 1 .. Len(r.text)
        /\ \A i \in 1 .. Len(r.text) : r.text[i] \in Token
    BY <1>5, LenProperties, ElementOfSeq
  <2>2. t \in [1 .. Len(r.text) -> Token]
    BY <1>4, <2>1
  <2>3. t \in Seq(Token)
    BY <2>1, <2>2, SeqDef
  <2> QED
    BY <1>1, <2>3
<1>8. s = [r EXCEPT !.counts = [r.counts EXCEPT ![e] = n], !.text = t]
  BY DEF Pass
<1>9. \A i \in DOMAIN text :
        t[i] = IF r.text[i] \in Hits[e] THEN Placeholder ELSE r.text[i]
  BY <1>1
<1> HIDE DEF n, t
<1>10. /\ s \in [text : Seq(Token), counts : [Entity -> Nat], backend : {"regex"}]
       /\ s.text = t /\ s.counts = [r.counts EXCEPT ![e] = n]
  <2> DEFINE c == [r.counts EXCEPT ![e] = n]
  <2>1. c \in [Entity -> Nat]
    BY <1>2, <1>5, <1>6
  <2>2. s = [r EXCEPT !.counts = c, !.text = t]
    BY <1>8
  <2> HIDE DEF c
  <2>3. /\ s \in [text : Seq(Token), counts : [Entity -> Nat], backend : {"regex"}]
        /\ s.text = t /\ s.counts = c
    BY <1>1, <1>7, <2>1, <2>2
  <2> QED
    BY <2>3 DEF c
<1> HIDE DEF s
<1>11. \A i \in DOMAIN text :
         s.text[i] = IF text[i] \in HitsOf(k) THEN Placeholder ELSE text[i]
  <2> SUFFICES ASSUME NEW i \in DOMAIN text
               PROVE  t[i] = IF text[i] \in HitsOf(k) THEN Placeholder ELSE text[i]
    BY <1>10
  <2>1. CASE text[i] \in HitsOf(k - 1)
    BY <2>1, <1>1, <1>3, <1>9
  <2>2. CASE text[i] \notin HitsOf(k - 1)
    <3>1. r.text[i] = text[i]
      BY <2>2, <1>1
    <3> QED
      BY <3>1, <2>2, <1>3, <1>9
  <2> QED
    BY <2>1, <2>2
<1>12. /\ s.counts[e] = n /\ r.counts[e] = 0
       /\ \A x \in Entity : x # e => s.counts[x] = r.counts[x]
  <2>1. s.counts = [r.counts EXCEPT ![e] = n]
    BY <1>10
  <2>2. s.counts[e] = n
    BY <1>2, <1>5, <2>1
  <2>3. ASSUME NEW x \in Entity, x # e PROVE s.counts[x] = r.counts[x]
    BY <1>5, <2>1, <2>3
  <2>4. r.counts[e] = 0
    BY <1>1
  <2> QED
    BY <2>2, <2>3, <2>4
<1>13. \A j \in 1 .. 9 : j > k => s.counts[Patterns[j]] = 0
  <2> SUFFICES ASSUME NEW j \in 1 .. 9, j > k PROVE s.counts[Patterns[j]] = 0
    OBVIOUS
  <2>1. Patterns[j] # e /\ Patterns[j] \in Entity
    BY NinePatterns DEF Entity
  <2>2. r.counts[Patterns[j]] = 0
    BY <1>1
  <2> QED
    BY <1>12, <2>1, <2>2
<1>14. Detected(s) <=> \E i \in DOMAIN text : text[i] \in HitsOf(k)
  <2>1. Detected(s) <=> n > 0 \/ Detected(r)
    BY <1>2, <1>12 DEF Detected
  <2>2. n > 0 <=> \E i \in DOMAIN text : text[i] \notin HitsOf(k - 1) /\ text[i] \in Hits[e]
    BY <1>1, <1>4, <1>6
  <2> QED
    BY <1>1, <1>3, <2>1, <2>2
<1>15. PassedBy(text, s, k)
  BY <1>7, <1>10, <1>11, <1>13, <1>14 DEF PassedBy
<1> QED
  BY <1>15 DEF s

LEMMA AllPasses ==
  ASSUME NEW text \in Seq(Token)
  PROVE  PassedBy(text, ScanRegex(text), 9)
<1> DEFINE P(k) == PassedBy(text, Passes(text)[k], k)
<1>1. \A k \in 0 .. 9 : Passes(text)[k] = IF k = 0 THEN Unscanned(text)
                                         ELSE Pass(Passes(text)[k - 1], Patterns[k])
  BY PassesUnfold, Zenon
<1>2. P(0)
  BY <1>1, NotPassed
<1>3. ASSUME NEW k \in 1 .. 9, P(k - 1) PROVE P(k)
  <2>1. Passes(text)[k] = Pass(Passes(text)[k - 1], Patterns[k])
    BY <1>1
  <2> QED
    BY <1>3, <2>1, OnePass
<1> HIDE DEF P
<1>4. P(1)
  BY <1>2, <1>3
<1>5. P(2)
  BY <1>4, <1>3
<1>6. P(3)
  BY <1>5, <1>3
<1>7. P(4)
  BY <1>6, <1>3
<1>8. P(5)
  BY <1>7, <1>3
<1>9. P(6)
  BY <1>8, <1>3
<1>10. P(7)
  BY <1>9, <1>3
<1>11. P(8)
  BY <1>10, <1>3
<1>12. P(9)
  BY <1>11, <1>3
<1> QED
  BY <1>12, NinePatterns DEF P, ScanRegex

(* A scan's result: nothing known is left unless the text was skipped, and *)
(* it says that something was detected exactly when it changed the text.   *)
Redacted(text, r) ==
  /\ r.backend # "none" => Found(r.text, Known) = {}
  /\ Detected(r) <=> r.text # text

LEMMA RegexRedacts ==
  ASSUME NEW text \in Seq(Token)
  PROVE  Redacted(text, ScanRegex(text))
<1> DEFINE r == ScanRegex(text)
<1>1. PassedBy(text, r, 9)
  BY AllPasses
<1> HIDE DEF r
<1>2. \A x : x \in HitsOf(9) <=> \E e \in DOMAIN Hits : x \in Hits[e]
  BY NinePatterns DEF HitsOf
<1>3. Placeholder \notin HitsOf(9) /\ Known \subseteq HitsOf(9)
  BY <1>2, PlaceholderIsClean DEF Known
<1>4. /\ r.text \in Seq(Token) /\ DOMAIN r.text = DOMAIN text
      /\ \A i \in DOMAIN text :
           r.text[i] = IF text[i] \in HitsOf(9) THEN Placeholder ELSE text[i]
      /\ Detected(r) <=> \E i \in DOMAIN text : text[i] \in HitsOf(9)
  BY <1>1 DEF PassedBy
<1>5. Found(r.text, Known) = {}
  BY <1>3, <1>4 DEF Found
<1>6. ASSUME NEW i \in DOMAIN text, text[i] \in HitsOf(9) PROVE r.text # text
  BY <1>3, <1>4, <1>6
<1>7. ASSUME \A i \in DOMAIN text : text[i] \notin HitsOf(9) PROVE r.text = text
  <2>1. Len(r.text) = Len(text) /\ \A i \in 1 .. Len(text) : r.text[i] = text[i]
    BY <1>4, <1>7, LenProperties
  <2> QED
    BY <1>4, <2>1, SeqEqual
<1>8. Redacted(text, r)
  BY <1>4, <1>5, <1>6, <1>7 DEF Redacted
<1> QED
  BY <1>8 DEF r

LEMMA PresidioRedacts ==
  ASSUME NEW text \in Seq(Token)
  PROVE  Redacted(text, ScanPresidio(text))
<1> DEFINE kinds == UNION {Recognizers[e] : e \in DOMAIN Recognizers}
           t == [i \in DOMAIN text |-> IF text[i] \in kinds THEN Placeholder ELSE text[i]]
           c == [e \in Entity |-> IF e \in DOMAIN Recognizers
                                  THEN Cardinality(Found(text, Recognizers[e])) ELSE 0]
           r == ScanPresidio(text)
<1>1. r = [text |-> t, counts |-> c, backend |-> "presidio"]
  BY DEF ScanPresidio
<1>2. \A x : x \in kinds <=> \E e \in DOMAIN Recognizers : x \in Recognizers[e]
  OBVIOUS
<1>3. Placeholder \notin kinds /\ Known \subseteq kinds
  <2>1. Placeholder \notin kinds
    BY <1>2, PlaceholderIsClean
  <2>2. Known \subseteq kinds
    BY DEF Known
  <2> QED
    BY <2>1, <2>2
<1>4. DOMAIN t = DOMAIN text
      /\ \A i \in DOMAIN text : t[i] = IF text[i] \in kinds THEN Placeholder ELSE text[i]
  OBVIOUS
<1>5. \A e \in Entity :
        c[e] = IF e \in DOMAIN Recognizers THEN Cardinality(Found(text, Recognizers[e])) ELSE 0
  OBVIOUS
<1> HIDE DEF kinds, t, c
<1>6. r.text = t /\ r.counts = c /\ r.backend = "presidio"
  BY <1>1
<1> HIDE DEF r
<1>7. Found(r.text, Known) = {}
  BY <1>3, <1>4, <1>6 DEF Found
<1>8. Detected(r) <=> \E i \in DOMAIN text : text[i] \in kinds
  <2>1. ASSUME NEW e \in DOMAIN Recognizers
        PROVE  c[e] > 0 <=> \E i \in DOMAIN text : text[i] \in Recognizers[e]
    BY <1>5, CountFound DEF Entity
  <2>2. \A e \in Entity : e \notin DOMAIN Recognizers => ~(c[e] > 0)
    BY <1>5
  <2>3. \A e \in DOMAIN Recognizers : e \in Entity
    BY DEF Entity
  <2>4. Detected(r) <=> \E e \in DOMAIN Recognizers : c[e] > 0
    BY <1>6, <2>2, <2>3 DEF Detected
  <2> QED
    BY <1>2, <2>1, <2>4
<1>9. text \in [DOMAIN text -> Token]
  BY LenProperties
<1>10. r.text = text <=> \A i \in DOMAIN text : text[i] \notin kinds
  <2>1. ASSUME NEW i \in DOMAIN text, text[i] \in kinds PROVE t # text
    BY <1>3, <1>4, <2>1
  <2>2. ASSUME \A i \in DOMAIN text : text[i] \notin kinds PROVE t = text
    <3>1. t = [i \in DOMAIN text |-> text[i]]
      BY <2>2 DEF t
    <3> QED
      BY <1>9, <3>1
  <2> QED
    BY <1>6, <2>1, <2>2
<1>11. Redacted(text, r)
  BY <1>7, <1>8, <1>10 DEF Redacted
<1> QED
  BY <1>11 DEF r

LEMMA SkippedIsSame ==
  ASSUME NEW text
  PROVE  Redacted(text, Untouched(text))
<1> DEFINE r == Untouched(text)
<1>1. r.text = text /\ r.backend = "none" /\ \A e \in Entity : r.counts[e] = 0
  BY DEF Untouched, NoCounts
<1> HIDE DEF r
<1>2. Redacted(text, r)
  BY <1>1 DEF Redacted, Detected
<1> QED
  BY <1>2 DEF r

LEMMA ScansRedact ==
  ASSUME NEW text \in Seq(Token), NEW backend, NEW sampling,
         NEW e \in {"none", "half", "ready"},
         NEW o \in ScanOutcomes(text, backend, sampling, e)
  PROVE  Redacted(text, o[1])
<1> DEFINE untouched == Untouched(text)
           byRegex == ScanRegex(text)
           byPresidio == ScanPresidio(text)
<1>1. /\ Redacted(text, untouched) /\ Redacted(text, byRegex) /\ Redacted(text, byPresidio)
  BY SkippedIsSame, RegexRedacts, PresidioRedacts
<1>2. \A p \in PresidioOutcomes(text, e) : p[1] \in {byRegex, byPresidio}
  <2>1. CASE e = "none"
    <3>1. PresidioOutcomes(text, e) =
            {<<byRegex, "none">>, <<byRegex, "half">>, <<byRegex, "ready">>,
             <<byPresidio, "ready">>}
      BY <2>1 DEF PresidioOutcomes
    <3> HIDE DEF byRegex, byPresidio
    <3> QED
      BY <3>1
  <2>2. CASE e = "half"
    <3>1. PresidioOutcomes(text, e) = {<<byRegex, "half">>}
      BY <2>2 DEF PresidioOutcomes
    <3> HIDE DEF byRegex, byPresidio
    <3> QED
      BY <3>1
  <2>3. CASE e = "ready"
    <3>1. PresidioOutcomes(text, e) = {<<byRegex, "ready">>, <<byPresidio, "ready">>}
      BY <2>3 DEF PresidioOutcomes
    <3> HIDE DEF byRegex, byPresidio
    <3> QED
      BY <3>1
  <2> QED
    BY <2>1, <2>2, <2>3
<1>3. \/ o \in {<<untouched, e>>, <<byRegex, e>>}
      \/ o \in PresidioOutcomes(text, e)
  BY DEF ScanOutcomes
<1> HIDE DEF untouched, byRegex, byPresidio
<1>4. o[1] \in {untouched, byRegex, byPresidio}
  BY <1>2, <1>3
<1> QED
  BY <1>1, <1>4

(* The line of a record whose two texts were scanned.                      *)
LineIsRedacted(r, line) ==
  /\ ~line.skipped => Found(line.prompt, Known) = {} /\ Found(line.response, Known) = {}
  /\ line.detected <=> line.prompt # Prompt[r] \/ line.response # Response[r]

LEMMA LinesAreRedacted ==
  ASSUME NEW r \in Record, NEW p, NEW s, Redacted(Prompt[r], p), Redacted(Response[r], s)
  PROVE  LineIsRedacted(r, LokiLine(r, p, s))
<1> DEFINE line == LokiLine(r, p, s)
<1>1. /\ line.prompt = p.text /\ line.response = s.text
      /\ line.detected <=> Detected(p) \/ Detected(s)
      /\ line.skipped <=> p.backend = "none" \/ s.backend = "none"
  BY DEF LokiLine
<1> HIDE DEF line
<1>2. LineIsRedacted(r, line)
  BY <1>1 DEF LineIsRedacted, Redacted
<1> QED
  BY <1>2 DEF line

LEMMA ScanAndLogRedacts ==
  ASSUME IInv, LokiIsRedacted, NEW r \in Record, ScanAndLog(r)
  PROVE  LokiIsRedacted'
<1>1. PICK p \in ScanOutcomes(Prompt[r], cfg.backend, cfg.sampling, engines) :
        \E s \in ScanOutcomes(Response[r], cfg.backend, cfg.sampling, p[2]) :
          loki' = [loki EXCEPT ![r] = LokiLine(r, p[1], s[1])]
  BY DEF ScanAndLog
<1>2. PICK s \in ScanOutcomes(Response[r], cfg.backend, cfg.sampling, p[2]) :
        loki' = [loki EXCEPT ![r] = LokiLine(r, p[1], s[1])]
  BY <1>1
<1>3. engines \in {"none", "half", "ready"}
  BY DEF IInv, TypeOK
<1>4. p[2] \in {"none", "half", "ready"}
  BY <1>3, EnginesAfterScan
<1>5. Redacted(Prompt[r], p[1])
  <2>1. Prompt[r] \in Seq(Token)
    BY AuditAssumption, TextsAreTokens
  <2> QED
    BY <1>3, <2>1, ScansRedact
<1>6. Redacted(Response[r], s[1])
  <2>1. Response[r] \in Seq(Token)
    BY AuditAssumption, TextsAreTokens
  <2> QED
    BY <1>4, <2>1, ScansRedact
<1> DEFINE line == LokiLine(r, p[1], s[1])
<1>7. LineIsRedacted(r, line)
  BY <1>5, <1>6, LinesAreRedacted
<1>8. loki' = [loki EXCEPT ![r] = line] /\ DOMAIN loki = Record
  BY <1>2 DEF IInv, TypeOK
<1> HIDE DEF line
<1>9. loki'[r] = line /\ \A q \in Record \ {r} : loki'[q] = loki[q]
  BY <1>8
<1> SUFFICES ASSUME NEW q \in Record, loki'[q] # NoRecord PROVE LineIsRedacted(q, loki'[q])
  BY DEF LokiIsRedacted, LineIsRedacted, Logged
<1>10. CASE q = r
  BY <1>7, <1>9, <1>10
<1>11. CASE q # r
  BY <1>9, <1>11 DEF LokiIsRedacted, LineIsRedacted, Logged
<1> QED
  BY <1>10, <1>11

-----------------------------------------------------------------------------
(* The theorems.                                                           *)

(* A record that has left log_prompt and whose thread is through is in a   *)
(* blob, in the local file, or was refused by the disk, however its upload *)
(* collided or failed (log_prompt, _write_to_blob, _write_to_local).       *)
THEOREM AuditInvariant == Spec => []IInv
<1>1. IInv /\ [Next]_vars => IInv'
  <2> SUFFICES ASSUME IInv, [Next]_vars PROVE IInv'
    OBVIOUS
  <2>1. CASE UNCHANGED vars
    <3>1. TypeOK'
      BY <2>1 DEF vars, scanVars, storeVars, IInv, TypeOK, Configs, BlobName, Key
    <3> QED
      BY <2>1, <3>1, StoresApart DEF vars, scanVars, IInv
  <2>2. ASSUME NEW r \in Record, ThreadStep(r) PROVE IInv'
    BY <2>2, UploadOK, UploadCollidesOK, UploadRaisesOK, FallBackOK DEF ThreadStep
  <2> QED
    BY <2>1, <2>2, ScanAndLogOK, StartUploadOK, UploadRefusedOK, StoreLocallyOK,
       MidnightOK, ExitOK
    DEF Next
<1> QED
  BY <1>1, AuditInitOK, PTL DEF Spec

(* The same for the property alone.                                        *)
THEOREM NothingFinishedIsLost == Spec => []AuditIsFiled
<1>1. IInv => AuditIsFiled
  BY DEF IInv
<1> QED
  BY <1>1, AuditInvariant, PTL

(* No step of any thread rewrites a blob that holds a record, although     *)
(* records of one trace and day share a name (overwrite=False).            *)
THEOREM BlobsAreWrittenOnce == Spec => WormHolds
<1>1. IInv /\ [Next]_vars => [KeepsBlobs]_vars
  <2> SUFFICES ASSUME IInv, Next, NEW b \in BlobName, blobs[b] # NoRecord
               PROVE  blobs'[b] = blobs[b]
    BY DEF KeepsBlobs
  <2>1. ASSUME NEW r \in Record, Upload(r) \/ UploadRaises(r) PROVE blobs'[b] = blobs[b]
    <3>1. thread[r] = "new"
      BY <2>1 DEF Upload, UploadRaises
    <3>2. CASE blobs' = blobs
      BY <3>2
    <3>3. CASE blobs[name[r]] = NoRecord /\ blobs' = [blobs EXCEPT ![name[r]] = r]
      BY <3>1, <3>3, FreeBlob DEF IInv, KeepsBlobs
    <3> QED
      BY <2>1, <3>2, <3>3 DEF Upload, UploadRaises
  <2>2. ASSUME NEW r \in Record, ScanAndLog(r) \/ UploadCollides(r) \/ FallBack(r)
        PROVE  blobs' = blobs
    BY <2>2 DEF ScanAndLog, UploadCollides, FallBack, storeVars
  <2>3. ASSUME StartUpload \/ UploadRefused \/ StoreLocally \/ Midnight \/ Exit PROVE blobs' = blobs
    BY <2>3 DEF StartUpload, UploadRefused, StoreLocally, Midnight, Exit, storeVars
  <2> QED
    BY <2>1, <2>2, <2>3 DEF Next, ThreadStep
<1> QED
  BY <1>1, AuditInvariant, PTL DEF Spec, WormHolds

(* No token that both back ends know leaves the process unredacted in a    *)
(* log line whose texts were scanned, and a line says that something was   *)
(* detected exactly when it changed a text: for every text, through nine   *)
(* substitutions in a row and through every failover between the engines   *)
(* (scan, _scan_regex, _scan_presidio, scan_event_fields, log_prompt).     *)
THEOREM NothingKnownIsLogged == Spec => []LokiIsRedacted
<1>1. Init => LokiIsRedacted
  BY DEF Init, LokiIsRedacted, Logged
<1>2. IInv /\ LokiIsRedacted /\ [Next]_vars => LokiIsRedacted'
  <2> SUFFICES ASSUME IInv, LokiIsRedacted, [Next]_vars PROVE LokiIsRedacted'
    OBVIOUS
  <2>1. ASSUME UNCHANGED loki PROVE LokiIsRedacted'
    BY <2>1 DEF LokiIsRedacted, Logged
  <2>2. ASSUME NEW r \in Record, ThreadStep(r) PROVE UNCHANGED loki
    BY <2>2 DEF ThreadStep, Upload, UploadCollides, UploadRaises, FallBack, scanVars
  <2>3. CASE StartUpload \/ UploadRefused \/ StoreLocally \/ Midnight \/ Exit \/ UNCHANGED vars
    BY <2>1, <2>3 DEF StartUpload, UploadRefused, StoreLocally, Midnight, Exit, vars, scanVars
  <2> QED
    BY <2>1, <2>2, <2>3, ScanAndLogRedacts DEF Next
<1> QED
  BY <1>1, <1>2, AuditInvariant, PTL DEF Spec

=============================================================================
