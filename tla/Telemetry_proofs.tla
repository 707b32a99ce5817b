--------------------------- MODULE Telemetry_proofs ---------------------------
(***************************************************************************)
(* Proofs about Telemetry: an HTTP answer put together from several reads  *)
(* is consistent, and the instruments keep in step, for rings of any size  *)
(* and any number of writers.                                              *)
(***************************************************************************)
EXTENDS Telemetry, SequenceTheorems, TLAPS

-----------------------------------------------------------------------------
(* Runs of a sequence, told by their elements.                             *)

LEMMA RunFromPoints ==
  ASSUME NEW S, NEW e \in Seq(S), NEW s \in Seq(S), NEW i \in Nat,
         i + Len(e) <= Len(s), \A k \in 1 .. Len(e) : e[k] = s[i + k]
  PROVE  e = SubSeq(s, i + 1, i + Len(e))
<1> DEFINE r == SubSeq(s, i + 1, i + Len(e))
<1>1. Len(e) \in Nat /\ Len(s) \in Nat /\ \A k \in 1 .. Len(s) : s[k] \in S
  BY ElementOfSeq, LenProperties
<1>2. \A k \in i + 1 .. i + Len(e) : s[k] \in S
  BY <1>1
<1>3. /\ r \in Seq(S) /\ Len(r) = Len(e)
      /\ \A k \in 1 .. Len(e) : r[k] = s[i + k]
  <2>1. /\ r \in Seq(S)
        /\ Len(r) = IF i + 1 <= i + Len(e) THEN i + Len(e) - (i + 1) + 1 ELSE 0
        /\ \A k \in 1 .. i + Len(e) - (i + 1) + 1 : r[k] = s[i + 1 + k - 1]
    BY <1>1, <1>2, SubSeqProperties
  <2> QED
    BY <1>1, <2>1
<1> HIDE DEF r
<1>4. e = r
  BY <1>3, SeqEqual
<1> QED
  BY <1>4 DEF r

LEMMA PointsOfRun ==
  ASSUME NEW S, NEW s \in Seq(S), NEW i \in Nat, NEW n \in Nat, i + n <= Len(s)
  PROVE  /\ SubSeq(s, i + 1, i + n) \in Seq(S)
         /\ Len(SubSeq(s, i + 1, i + n)) = n
         /\ \A k \in 1 .. n : SubSeq(s, i + 1, i + n)[k] = s[i + k]
<1>1. Len(s) \in Nat /\ \A k \in 1 .. Len(s) : s[k] \in S
  BY ElementOfSeq, LenProperties
<1>2. \A k \in i + 1 .. i + n : s[k] \in S
  BY <1>1
<1>3. /\ SubSeq(s, i + 1, i + n) \in Seq(S)
      /\ Len(SubSeq(s, i + 1, i + n)) = IF i + 1 <= i + n THEN i + n - (i + 1) + 1 ELSE 0
      /\ \A k \in 1 .. i + n - (i + 1) + 1 :
           SubSeq(s, i + 1, i + n)[k] = s[i + 1 + k - 1]
  BY <1>1, <1>2, SubSeqProperties
<1> QED
  BY <1>1, <1>3

(* The newest k elements.                                                  *)
LEMMA LastOfSeq ==
  ASSUME NEW S, NEW s \in Seq(S), NEW k \in Nat
  PROVE  /\ Last(s, k) \in Seq(S) /\ Len(Last(s, k)) = Least(Len(s), k)
         /\ \A j \in 1 .. Len(Last(s, k)) : Last(s, k)[j] = s[Len(s) - Len(Last(s, k)) + j]
<1>1. Len(s) \in Nat
  BY LenProperties
<1>2. CASE Len(s) <= k
  BY <1>1, <1>2 DEF Last, Least
<1>3. CASE Len(s) > k
  <2>1. Last(s, k) = SubSeq(s, Len(s) - k + 1, Len(s) - k + k)
    BY <1>1, <1>3 DEF Last
  <2>2. Len(s) - k \in Nat /\ (Len(s) - k) + k <= Len(s)
    BY <1>1, <1>3
  <2>3. /\ Last(s, k) \in Seq(S) /\ Len(Last(s, k)) = k
        /\ \A j \in 1 .. k : Last(s, k)[j] = s[Len(s) - k + j]
    BY <2>1, <2>2, PointsOfRun
  <2> QED
    BY <1>1, <1>3, <2>3 DEF Least
<1> QED
  BY <1>1, <1>2, <1>3

(* A run stays one when the sequence grows at its end.                     *)
LEMMA RunStays ==
  ASSUME NEW S, NEW e \in Seq(S), NEW s \in Seq(S), NEW r \in S, RunOf(e, s)
  PROVE  RunOf(e, Append(s, r))
<1>1. Len(s) \in Nat /\ Len(e) \in Nat
  BY LenProperties
<1>2. /\ Append(s, r) \in Seq(S) /\ Len(Append(s, r)) = Len(s) + 1
      /\ \A j \in 1 .. Len(s) : Append(s, r)[j] = s[j]
  BY AppendProperties
<1>3. PICK i \in 0 .. Len(s) :
        i + Len(e) <= Len(s) /\ e = SubSeq(s, i + 1, i + Len(e))
  BY DEF RunOf
<1>4. \A k \in 1 .. Len(e) : e[k] = s[i + k]
  BY <1>1, <1>3, PointsOfRun
<1>5. \A k \in 1 .. Len(e) : e[k] = Append(s, r)[i + k]
  BY <1>1, <1>2, <1>3, <1>4
<1>6. e = SubSeq(Append(s, r), i + 1, i + Len(e))
  BY <1>1, <1>2, <1>3, <1>5, RunFromPoints
<1> QED
  BY <1>1, <1>2, <1>3, <1>6 DEF RunOf

(* A ring that holds the end of a sequence goes on holding it when both    *)
(* get the same element.                                                   *)
LEMMA RingGoesOn ==
  ASSUME NEW S, NEW s \in Seq(S), NEW t \in Seq(S), NEW r \in S, NEW k \in Nat \ {0},
         EndOf(s, t)
  PROVE  EndOf(Last(Append(s, r), k), Append(t, r))
<1> DEFINE sr == Append(s, r)
           tr == Append(t, r)
           p  == Last(sr, k)
<1>1. Len(s) \in Nat /\ Len(t) \in Nat
  BY LenProperties
<1>2. /\ sr \in Seq(S) /\ Len(sr) = Len(s) + 1 /\ sr[Len(s) + 1] = r
      /\ \A j \in 1 .. Len(s) : sr[j] = s[j]
  BY AppendProperties
<1>3. /\ tr \in Seq(S) /\ Len(tr) = Len(t) + 1 /\ tr[Len(t) + 1] = r
      /\ \A j \in 1 .. Len(t) : tr[j] = t[j]
  BY AppendProperties
<1>4. \A j \in 1 .. Len(s) : s[j] = t[Len(t) - Len(s) + j]
  <2>1. Len(t) - Len(s) \in Nat /\ (Len(t) - Len(s)) + Len(s) = Len(t)
    BY <1>1 DEF EndOf
  <2>2. s = SubSeq(t, (Len(t) - Len(s)) + 1, (Len(t) - Len(s)) + Len(s))
    BY <2>1 DEF EndOf
  <2> QED
    BY <1>1, <2>1, <2>2, PointsOfRun
<1>6. /\ p \in Seq(S) /\ Len(p) = Least(Len(sr), k)
      /\ \A j \in 1 .. Len(p) : p[j] = sr[Len(sr) - Len(p) + j]
  BY <1>2, LastOfSeq
<1> HIDE DEF sr, tr, p
<1>5. ASSUME NEW j \in 1 .. Len(s) + 1 PROVE sr[j] = tr[Len(t) - Len(s) + j]
  <2>1. CASE j = Len(s) + 1
    <3>1. Len(t) - Len(s) + j = Len(t) + 1
      BY <1>1, <2>1
    <3> QED
      BY <1>2, <1>3, <2>1, <3>1
  <2>2. CASE j # Len(s) + 1
    <3>1. j \in 1 .. Len(s) /\ Len(t) - Len(s) + j \in 1 .. Len(t)
      BY <1>1, <2>2 DEF EndOf
    <3> QED
      BY <1>2, <1>3, <1>4, <3>1
  <2> QED
    BY <2>1, <2>2
<1>7. Len(p) \in Nat /\ Len(p) <= Len(s) + 1
  BY <1>1, <1>2, <1>6 DEF Least
<1>8. ASSUME NEW j \in 1 .. Len(p) PROVE p[j] = tr[(Len(t) + 1 - Len(p)) + j]
  <2>1. /\ Len(sr) - Len(p) + j \in 1 .. Len(s) + 1
        /\ Len(t) - Len(s) + (Len(sr) - Len(p) + j) = (Len(t) + 1 - Len(p)) + j
    BY <1>1, <1>2, <1>7 DEF EndOf
  <2> QED
    BY <1>5, <1>6, <2>1
<1> DEFINE i == Len(t) + 1 - Len(p)
<1>9. i \in Nat /\ i + Len(p) = Len(t) + 1
  BY <1>1, <1>7 DEF EndOf
<1>10. \A j \in 1 .. Len(p) : p[j] = tr[i + j]
  BY <1>8
<1> HIDE DEF i
<1>11. p = SubSeq(tr, i + 1, i + Len(p))
  BY <1>3, <1>6, <1>9, <1>10, RunFromPoints
<1>12. p = SubSeq(tr, Len(t) + 1 - Len(p) + 1, Len(t) + 1)
  BY <1>9, <1>11 DEF i
<1>13. Len(tr) = Len(t) + 1 /\ Len(p) <= Len(t) + 1
  BY <1>1, <1>2, <1>3, <1>7 DEF EndOf
<1>14. EndOf(p, tr)
  BY <1>12, <1>13 DEF EndOf
<1> QED
  BY <1>14 DEF p, sr, tr

(* The newest of a ring are a run of what the ring holds the end of.       *)
LEMMA NewestAreRun ==
  ASSUME NEW S, NEW s \in Seq(S), NEW t \in Seq(S), NEW k \in Nat,
         EndOf(s, t)
  PROVE  RunOf(Last(s, k), t)
<1> DEFINE p == Last(s, k)
<1>1. Len(s) \in Nat /\ Len(t) \in Nat
  BY LenProperties
<1>2. \A j \in 1 .. Len(s) : s[j] = t[Len(t) - Len(s) + j]
  <2>1. Len(t) - Len(s) \in Nat /\ (Len(t) - Len(s)) + Len(s) = Len(t)
    BY <1>1 DEF EndOf
  <2>2. s = SubSeq(t, (Len(t) - Len(s)) + 1, (Len(t) - Len(s)) + Len(s))
    BY <2>1 DEF EndOf
  <2> QED
    BY <1>1, <2>1, <2>2, PointsOfRun
<1>3. /\ p \in Seq(S) /\ Len(p) = Least(Len(s), k)
      /\ \A j \in 1 .. Len(p) : p[j] = s[Len(s) - Len(p) + j]
  BY LastOfSeq
<1>4. Len(p) \in Nat /\ Len(p) <= Len(s)
  BY <1>1, <1>3 DEF Least
<1> HIDE DEF p
<1>5. ASSUME NEW j \in 1 .. Len(p) PROVE p[j] = t[(Len(t) - Len(p)) + j]
  <2>1. /\ Len(s) - Len(p) + j \in 1 .. Len(s)
        /\ Len(t) - Len(s) + (Len(s) - Len(p) + j) = (Len(t) - Len(p)) + j
    BY <1>1, <1>4
  <2> QED
    BY <1>2, <1>3, <2>1
<1> DEFINE i == Len(t) - Len(p)
<1>6. i \in Nat /\ i \in 0 .. Len(t) /\ i + Len(p) <= Len(t)
  BY <1>1, <1>4 DEF EndOf
<1>7. \A j \in 1 .. Len(p) : p[j] = t[i + j]
  BY <1>5
<1> HIDE DEF i
<1>8. p = SubSeq(t, i + 1, i + Len(p))
  BY <1>3, <1>6, <1>7, RunFromPoints
<1> QED
  BY <1>6, <1>8 DEF RunOf, p

-----------------------------------------------------------------------------
(* The logs: TelemetryLogs' part of the invariant.                         *)

LEMMA LogBounds ==
  /\ Capacity \in Nat \ {0} /\ Limit \subseteq Nat /\ MaxRecords \in Nat
  /\ \A limit \in Limit \cup {0} : Clamped(limit) \in Nat \ {0} /\ Clamped(limit) <= Capacity
BY LogsAssumption DEF Clamped, Least

LEMMA Lengths ==
  ASSUME LogsTypeOK
  PROVE  /\ Len(raw) \in Nat /\ Len(parsed) \in Nat /\ Len(plain) \in Nat
         /\ Len(told) \in Nat /\ Len(http.entries) \in Nat /\ http.count \in Nat
         /\ http.limit \in Limit \cup {0}
BY LenProperties DEF LogsTypeOK

LEMMA LogsInitOK == LogsInit => LogsIInv
<1> SUFFICES ASSUME LogsInit PROVE LogsIInv
  OBVIOUS
<1>1. LogsTypeOK
  BY LogBounds, EmptySeq DEF LogsInit, LogsTypeOK, IdleRequest
<1>2. RingsInStep
  <2>1. told = <<>> /\ Len(told) = 0 /\ parsed = <<>> /\ raw = <<>> /\ plain = <<>>
    BY DEF LogsInit
  <2>2. SubSeq(told, 1, 0) = <<>>
    BY SubSeqEmpty
  <2>3. EndOf(parsed, told)
    BY <2>1, <2>2 DEF EndOf
  <2> QED
    BY <2>1, <2>3, LogBounds DEF RingsInStep
<1>3. RequestInStep
  BY DEF LogsInit, IdleRequest, RequestInStep
<1> QED
  BY <1>1, <1>2, <1>3 DEF LogsIInv

Call == [rec : LogRecord, left : Seq(HandlerName)]

LEMMA Literals ==
  ASSUME NEW S, NEW x \in S, NEW y \in S, NEW z \in S
  PROVE  <<x>> \in Seq(S) /\ <<x, y>> \in Seq(S) /\ <<x, y, z>> \in Seq(S)
OBVIOUS

(* Steps that neither fill a ring nor read one.                            *)
LEMMA LogsApart ==
  ASSUME LogsIInv, UNCHANGED <<bufferVars, http>>,
         handlers' \in Seq(HandlerName), logged' \in 0 .. MaxRecords,
         emitting' \in [Writer -> Seq(Call)],
         \A w \in Writer : Len(emitting'[w]) <= 1
  PROVE  LogsIInv'
BY DEF LogsIInv, LogsTypeOK, RingsInStep, RequestInStep, RunOf, bufferVars, Call

LEMMA SetupLoggingOK == ASSUME LogsIInv, SetupLogging PROVE LogsIInv'
<1>1. handlers' \in Seq(HandlerName)
  <2>1. "stdout" \in HandlerName /\ "capture" \in HandlerName /\ "otlp" \in HandlerName
    BY DEF HandlerName
  <2>2. <<"stdout", "capture">> \in Seq(HandlerName)
    BY <2>1, Literals
  <2>3. <<"stdout", "capture", "otlp">> \in Seq(HandlerName)
    BY <2>1, Literals
  <2> QED
    BY <2>2, <2>3 DEF SetupLogging
<1> QED
  BY <1>1, LogsApart DEF SetupLogging, LogsIInv, LogsTypeOK, httpVars, Call

LEMMA LogOK ==
  ASSUME LogsIInv, NEW w \in Writer, NEW kind \in Kind, Log(w, kind)
  PROVE  LogsIInv'
<1> DEFINE call == [rec |-> [n |-> logged + 1, kind |-> kind], left |-> handlers]
<1>1. logged + 1 \in 1 .. MaxRecords
  BY LogBounds DEF Log, LogsIInv, LogsTypeOK
<1>2. call \in Call
  BY <1>1 DEF LogRecord, LogsIInv, LogsTypeOK, Call
<1>3. emitting' = [emitting EXCEPT ![w] = <<call>>]
  BY DEF Log
<1> HIDE DEF call
<1>4. <<call>> \in Seq(Call) /\ Len(<<call>>) = 1
  BY <1>2, Literals
<1>5. emitting \in [Writer -> Seq(Call)] /\ \A v \in Writer : Len(emitting[v]) <= 1
  BY DEF LogsIInv, LogsTypeOK, Call
<1>6. emitting' \in [Writer -> Seq(Call)] /\ \A v \in Writer : Len(emitting'[v]) <= 1
  BY <1>3, <1>4, <1>5
<1>7. /\ handlers' = handlers /\ logged' = logged + 1 /\ UNCHANGED <<bufferVars, http>>
      /\ handlers \in Seq(HandlerName) /\ logged' \in 0 .. MaxRecords
  BY <1>1 DEF Log, LogsIInv, LogsTypeOK, httpVars
<1> QED
  BY <1>6, <1>7, LogsApart

(* A record is appended to the rings.                                      *)
LEMMA AppendOK ==
  ASSUME LogsIInv, NEW rec \in LogRecord, AppendStdout(rec)
  PROVE  /\ raw' \in Seq(LogRecord) /\ parsed' \in Seq(LogRecord)
         /\ plain' \in Seq(LogRecord) /\ told' \in Seq(LogRecord)
         /\ RingsInStep' /\ Len(raw) <= Len(raw') /\ Len(parsed) <= Len(parsed')
         /\ \A e \in Seq(LogRecord) : RunOf(e, told) => RunOf(e, told')
<1> USE DEF LogsIInv
<1>1. /\ Len(raw) \in Nat /\ Len(parsed) \in Nat /\ Len(plain) \in Nat
      /\ Len(told) \in Nat /\ Capacity \in Nat \ {0}
  BY Lengths, LogBounds
<1>2. ASSUME NEW s \in Seq(LogRecord)
      PROVE  /\ Last(Append(s, rec), Capacity) \in Seq(LogRecord)
             /\ Len(Last(Append(s, rec), Capacity)) = Least(Len(s) + 1, Capacity)
  <2>1. Append(s, rec) \in Seq(LogRecord) /\ Len(Append(s, rec)) = Len(s) + 1
    BY AppendProperties
  <2> QED
    BY <1>1, <2>1, LastOfSeq
<1>3. raw' \in Seq(LogRecord) /\ Len(raw') = Least(Len(raw) + 1, Capacity)
  BY <1>2 DEF LogsTypeOK, AppendStdout
<1>4. plain' \in Seq(LogRecord) /\ Len(plain') \in {Len(plain), Least(Len(plain) + 1, Capacity)}
  BY <1>2 DEF LogsTypeOK, AppendStdout
<1>5. CASE rec.kind = "telemetry"
  <2>1. /\ parsed' = Last(Append(parsed, rec), Capacity)
        /\ told' = Append(told, rec)
    BY <1>5 DEF AppendStdout
  <2>2. told' \in Seq(LogRecord) /\ Len(told') = Len(told) + 1
    BY <2>1, AppendProperties DEF LogsTypeOK
  <2>3. /\ parsed' \in Seq(LogRecord) /\ Len(parsed') = Least(Len(parsed) + 1, Capacity)
        /\ EndOf(parsed', told')
    <3>1. parsed' \in Seq(LogRecord) /\ Len(parsed') = Least(Len(parsed) + 1, Capacity)
      BY <1>2, <2>1 DEF LogsTypeOK
    <3>2. EndOf(parsed', told')
      BY <1>1, <2>1, RingGoesOn DEF LogsTypeOK, RingsInStep
    <3> QED
      BY <3>1, <3>2
  <2>4. \A e \in Seq(LogRecord) : RunOf(e, told) => RunOf(e, told')
    BY <2>1, RunStays DEF LogsTypeOK
  <2>5. /\ Len(raw') <= Capacity /\ Len(parsed') <= Len(raw') /\ Len(plain') <= Len(raw')
        /\ Len(raw) <= Len(raw') /\ Len(parsed) <= Len(parsed')
    BY <1>1, <1>3, <1>4, <2>3 DEF RingsInStep, Least
  <2> QED
    BY <1>3, <1>4, <2>2, <2>3, <2>4, <2>5 DEF RingsInStep
<1>6. CASE rec.kind # "telemetry"
  <2>1. parsed' = parsed /\ told' = told
    BY <1>6 DEF AppendStdout
  <2>2. /\ Len(raw') <= Capacity /\ Len(parsed) <= Len(raw') /\ Len(plain') <= Len(raw')
        /\ Len(raw) <= Len(raw')
    BY <1>1, <1>3, <1>4 DEF RingsInStep, Least
  <2> QED
    BY <1>1, <1>3, <1>4, <2>1, <2>2 DEF RingsInStep, LogsTypeOK
<1> QED
  BY <1>5, <1>6

LEMMA EmitOK == ASSUME LogsIInv, NEW w \in Writer, Emit(w) PROVE LogsIInv'
<1> DEFINE call == emitting[w][1]
<1>1. emitting \in [Writer -> Seq(Call)] /\ \A v \in Writer : Len(emitting[v]) <= 1
  BY DEF LogsIInv, LogsTypeOK, Call
<1>2. emitting[w] \in Seq(Call) /\ Len(emitting[w]) = 1 /\ call \in Call
  <2>1. emitting[w] \in Seq(Call) /\ emitting[w] # <<>> /\ Len(emitting[w]) <= 1
    BY <1>1 DEF Emit
  <2>2. Len(emitting[w]) \in Nat /\ Len(emitting[w]) # 0
    BY <2>1, LenProperties, EmptySeq
  <2> DEFINE n == Len(emitting[w])
  <2>3. n = 1
    <3>1. n \in Nat /\ n # 0 /\ n <= 1
      BY <2>1, <2>2
    <3> HIDE DEF n
    <3> QED
      BY <3>1
  <2> QED
    BY <2>1, <2>3, ElementOfSeq
<1>3. UNCHANGED <<fmt, handlers, exported, logged, httpVars>>
  BY DEF Emit
<1>4. CASE call.left = <<>>
  <2>1. emitting' = [emitting EXCEPT ![w] = <<>>] /\ UNCHANGED bufferVars
    BY <1>4 DEF Emit
  <2>2. <<>> \in Seq(Call) /\ Len(<<>>) = 0
    OBVIOUS
  <2>3. emitting' \in [Writer -> Seq(Call)] /\ \A v \in Writer : Len(emitting'[v]) <= 1
    BY <1>1, <2>1, <2>2
  <2> QED
    BY <1>3, <2>1, <2>3, LogsApart DEF LogsIInv, LogsTypeOK, httpVars
<1>5. CASE call.left # <<>>
  <2> DEFINE next == [call EXCEPT !.left = Tail(@)]
  <2>1. next \in Call
    <3>1. Tail(call.left) \in Seq(HandlerName)
      BY <1>2, <1>5, HeadTailProperties DEF Call
    <3> QED
      BY <1>2, <3>1 DEF Call
  <2>2. emitting' = [emitting EXCEPT ![w] = [emitting[w] EXCEPT ![1] = next]]
    BY <1>5 DEF Emit
  <2> HIDE DEF next
  <2>3. [emitting[w] EXCEPT ![1] = next] \in Seq(Call)
        /\ Len([emitting[w] EXCEPT ![1] = next]) = 1
    BY <1>2, <2>1, ExceptSeq
  <2>4. emitting' \in [Writer -> Seq(Call)] /\ \A v \in Writer : Len(emitting'[v]) <= 1
    BY <1>1, <2>2, <2>3
  <2>5. CASE UNCHANGED bufferVars
    BY <1>3, <2>4, <2>5, LogsApart DEF LogsIInv, LogsTypeOK, httpVars
  <2>6. CASE AppendStdout(call.rec)
    <3>1. call.rec \in LogRecord
      BY <1>2 DEF Call
    <3>2. /\ raw' \in Seq(LogRecord) /\ parsed' \in Seq(LogRecord)
          /\ plain' \in Seq(LogRecord) /\ told' \in Seq(LogRecord)
          /\ RingsInStep' /\ Len(raw) <= Len(raw') /\ Len(parsed) <= Len(parsed')
          /\ \A e \in Seq(LogRecord) : RunOf(e, told) => RunOf(e, told')
      BY <2>6, <3>1, AppendOK
    <3>3. http' = http
      BY <1>3 DEF httpVars
    <3>4. LogsTypeOK'
      BY <1>3, <2>4, <3>2, <3>3 DEF LogsIInv, LogsTypeOK, Call
    <3>5. RequestInStep'
      <4>1. /\ http.entries \in Seq(LogRecord) /\ http.count \in Nat
            /\ Len(http.entries) \in Nat /\ Clamped(http.limit) \in Nat
        BY Lengths, LogBounds DEF LogsIInv, LogsTypeOK
      <4>2. Len(raw) \in Nat /\ Len(parsed) \in Nat /\ Len(raw') \in Nat /\ Len(parsed') \in Nat
        BY <3>2, Lengths, LenProperties DEF LogsIInv
      <4>3. http.at = "entries" => http.count <= Least(Clamped(http.limit), Len(parsed'))
        BY <3>2, <4>1, <4>2 DEF LogsIInv, RequestInStep, Least
      <4>4. http.at \in {"stats", "answer"} =>
              /\ http.count <= Len(http.entries) /\ Len(http.entries) <= Clamped(http.limit)
              /\ RunOf(http.entries, told')
        BY <3>2, <4>1 DEF LogsIInv, RequestInStep
      <4>5. http.at = "stats" => Len(http.entries) <= Len(raw')
        BY <3>2, <4>1, <4>2 DEF LogsIInv, RequestInStep
      <4>6. http.at = "answer" => Len(http.entries) <= http.stats
        BY DEF LogsIInv, RequestInStep
      <4> QED
        BY <3>3, <4>3, <4>4, <4>5, <4>6 DEF RequestInStep
    <3> QED
      BY <3>2, <3>4, <3>5 DEF LogsIInv
  <2> QED
    BY <1>5, <2>5, <2>6 DEF Emit
<1> QED
  BY <1>4, <1>5

(* Reads change the request alone.                                         *)
LEMMA ReadsApart ==
  ASSUME LogsIInv, UNCHANGED <<logVars, bufferVars>>,
         http' \in [at : {"idle", "count", "entries", "stats", "answer"},
                    limit : Limit \cup {0}, count : Nat, entries : Seq(LogRecord),
                    stats : Nat],
         RequestInStep'
  PROVE  LogsIInv'
BY DEF LogsIInv, LogsTypeOK, RingsInStep, logVars, bufferVars

LEMMA RequestOK ==
  ASSUME LogsIInv, NEW limit \in Limit, Request(limit)
  PROVE  LogsIInv'
<1>1. PICK first \in {"count", "entries"} :
        http' = [IdleRequest EXCEPT !.at = first, !.limit = limit]
  BY DEF Request
<1>2. /\ http'.at = first /\ http'.limit = limit /\ http'.count = 0
      /\ http' \in [at : {"idle", "count", "entries", "stats", "answer"},
                    limit : Limit \cup {0}, count : Nat, entries : Seq(LogRecord),
                    stats : Nat]
  <2>1. <<>> \in Seq(LogRecord)
    OBVIOUS
  <2> QED
    BY <1>1, <2>1 DEF IdleRequest
<1>3. UNCHANGED <<logVars, bufferVars>>
  BY DEF Request
<1>4. 0 <= Least(Clamped(limit), Len(parsed'))
  <2>1. Len(parsed') \in Nat /\ Clamped(limit) \in Nat
    BY <1>3, Lengths, LogBounds DEF LogsIInv, bufferVars
  <2> QED
    BY <2>1 DEF Least
<1>5. RequestInStep'
  BY <1>2, <1>4 DEF RequestInStep
<1> QED
  BY <1>2, <1>3, <1>5, ReadsApart

(* What Formatted returns.                                                 *)
LEMMA FormattedIs ==
  ASSUME LogsIInv, NEW limit \in Limit \cup {0}
  PROVE  /\ Formatted(limit) \in Seq(LogRecord)
         /\ Len(Formatted(limit)) \in Nat
         /\ Len(Formatted(limit)) = Least(Clamped(limit), Len(parsed))
         /\ RunOf(Formatted(limit), told)
<1>1. Clamped(limit) \in Nat /\ Len(parsed) \in Nat
  BY Lengths, LogBounds DEF LogsIInv
<1>2. parsed \in Seq(LogRecord) /\ told \in Seq(LogRecord) /\ EndOf(parsed, told)
  BY DEF LogsIInv, LogsTypeOK, RingsInStep
<1>3. /\ Last(parsed, Clamped(limit)) \in Seq(LogRecord)
      /\ Len(Last(parsed, Clamped(limit))) = Least(Len(parsed), Clamped(limit))
  BY <1>1, <1>2, LastOfSeq
<1>4. RunOf(Last(parsed, Clamped(limit)), told)
  BY <1>1, <1>2, NewestAreRun
<1> QED
  BY <1>1, <1>3, <1>4 DEF Formatted, Least

LEMMA ReadCountOK == ASSUME LogsIInv, ReadCount PROVE LogsIInv'
<1> DEFINE n == Len(Formatted(http.limit))
<1>1. http.limit \in Limit \cup {0}
  BY DEF LogsIInv, LogsTypeOK
<1>2. n \in Nat /\ n = Least(Clamped(http.limit), Len(parsed))
  BY <1>1, FormattedIs
<1>3. /\ http' = [http EXCEPT !.at = "entries", !.count = n]
      /\ UNCHANGED <<logVars, bufferVars>>
  BY DEF ReadCount
<1> HIDE DEF n
<1>4. /\ http'.at = "entries" /\ http'.count = n /\ http'.limit = http.limit
      /\ http' \in [at : {"idle", "count", "entries", "stats", "answer"},
                    limit : Limit \cup {0}, count : Nat, entries : Seq(LogRecord),
                    stats : Nat]
  BY <1>2, <1>3 DEF LogsIInv, LogsTypeOK
<1>5. n <= n /\ parsed' = parsed
  BY <1>2, <1>3 DEF bufferVars
<1>6. RequestInStep'
  BY <1>2, <1>4, <1>5 DEF RequestInStep
<1> QED
  BY <1>3, <1>4, <1>6, ReadsApart

LEMMA ReadEntriesOK == ASSUME LogsIInv, ReadEntries PROVE LogsIInv'
<1> DEFINE e == Formatted(http.limit)
<1>1. http.limit \in Limit \cup {0} /\ http.count \in Nat
  BY DEF LogsIInv, LogsTypeOK
<1>2. /\ e \in Seq(LogRecord) /\ Len(e) \in Nat
      /\ Len(e) = Least(Clamped(http.limit), Len(parsed)) /\ RunOf(e, told)
  BY <1>1, FormattedIs
<1>3. /\ http.at = "entries" /\ http' = [http EXCEPT !.at = "stats", !.entries = e]
      /\ UNCHANGED <<logVars, bufferVars>>
  BY DEF ReadEntries
<1> HIDE DEF e
<1>4. /\ http'.at = "stats" /\ http'.count = http.count /\ http'.limit = http.limit
      /\ http'.entries = e
      /\ http' \in [at : {"idle", "count", "entries", "stats", "answer"},
                    limit : Limit \cup {0}, count : Nat, entries : Seq(LogRecord),
                    stats : Nat]
  BY <1>2, <1>3 DEF LogsIInv, LogsTypeOK
<1>5. http.count <= Len(e)
  BY <1>2, <1>3 DEF LogsIInv, RequestInStep
<1>6. Len(e) <= Clamped(http.limit) /\ Len(e) <= Len(parsed) /\ Len(parsed) <= Len(raw)
  <2>1. Len(parsed) \in Nat /\ Clamped(http.limit) \in Nat
    BY <1>1, Lengths, LogBounds DEF LogsIInv
  <2> QED
    BY <1>2, <2>1 DEF Least, LogsIInv, RingsInStep
<1>7. Len(e) <= Len(raw)
  BY <1>2, <1>6, Lengths DEF LogsIInv
<1>8. raw' = raw /\ told' = told
  BY <1>3 DEF bufferVars
<1>9. RequestInStep'
  BY <1>2, <1>4, <1>5, <1>6, <1>7, <1>8 DEF RequestInStep
<1> QED
  BY <1>3, <1>4, <1>9, ReadsApart

LEMMA ReadStatsOK == ASSUME LogsIInv, ReadStats PROVE LogsIInv'
<1>1. /\ http.at = "stats" /\ http' = [http EXCEPT !.at = "answer", !.stats = Len(raw)]
      /\ UNCHANGED <<logVars, bufferVars>>
  BY DEF ReadStats
<1>2. Len(raw) \in Nat
  BY Lengths DEF LogsIInv
<1>3. /\ http'.at = "answer" /\ http'.count = http.count /\ http'.limit = http.limit
      /\ http'.entries = http.entries /\ http'.stats = Len(raw)
      /\ http' \in [at : {"idle", "count", "entries", "stats", "answer"},
                    limit : Limit \cup {0}, count : Nat, entries : Seq(LogRecord),
                    stats : Nat]
  BY <1>1, <1>2 DEF LogsIInv, LogsTypeOK
<1>4. told' = told
  BY <1>1 DEF bufferVars
<1>5. RequestInStep'
  BY <1>1, <1>3, <1>4 DEF LogsIInv, RequestInStep
<1> QED
  BY <1>1, <1>3, <1>5, ReadsApart

LEMMA RespondOK == ASSUME LogsIInv, Respond PROVE LogsIInv'
<1>1. http' = IdleRequest /\ UNCHANGED <<logVars, bufferVars>>
  BY DEF Respond
<1>2. /\ IdleRequest.at = "idle"
      /\ IdleRequest \in [at : {"idle", "count", "entries", "stats", "answer"},
                          limit : Limit \cup {0}, count : Nat, entries : Seq(LogRecord),
                          stats : Nat]
  BY DEF IdleRequest
<1>3. RequestInStep'
  BY <1>1, <1>2 DEF RequestInStep
<1> QED
  BY <1>1, <1>2, <1>3, ReadsApart

LEMMA LogsStutterOK == ASSUME LogsIInv, UNCHANGED logsVars PROVE LogsIInv'
BY DEF LogsIInv, LogsTypeOK, RingsInStep, RequestInStep, RunOf, logsVars, logVars,
       bufferVars, httpVars

LEMMA LogsStepOK == ASSUME LogsIInv, LogsStep PROVE LogsIInv'
BY EmitOK, RequestOK, ReadCountOK, ReadEntriesOK, ReadStatsOK, RespondOK DEF LogsStep

-----------------------------------------------------------------------------
(* The runner's part.                                                      *)

(* Instruments are recorded in order: what the first `done` of them gain   *)
(* keeps the earlier ahead of the later.                                   *)
LEMMA RecordMetricsOK ==
  ASSUME TypeOK, MetricsAddUp, RecordMetrics
  PROVE  TypeOK' /\ MetricsAddUp'
<1>1. PICK done \in 0 .. Len(Instruments) :
        series' = [i \in DOMAIN series |->
                     IF \E k \in 1 .. done : Instruments[k] = i
                     THEN series[i] + 1 ELSE series[i]]
  BY DEF RecordMetrics
<1>2. /\ series \in [Names -> 0 .. events] /\ events \in 0 .. MaxEvents
      /\ events' = events + 1 /\ events < MaxEvents /\ MaxEvents \in Nat
      /\ UNCHANGED <<server, otel, tracer, depthSum, depthLast>> /\ at' = "login"
  BY TelemetryAssumption DEF TypeOK, RecordMetrics, Goto
<1>3. DOMAIN Instruments = 1 .. 5 /\ Len(Instruments) = 5
  BY DEF Instruments
<1>4. \A i \in Names : series[i] \in 0 .. events /\ series'[i] \in {series[i], series[i] + 1}
  BY <1>1, <1>2
<1>5. series' \in [Names -> 0 .. events']
  <2>1. DOMAIN series' = Names
    BY <1>1, <1>2
  <2>2. \A i \in Names : series'[i] \in 0 .. events'
    BY <1>2, <1>4
  <2> QED
    BY <1>1, <2>1, <2>2
<1>6. TypeOK'
  BY <1>2, <1>5 DEF TypeOK
<1>7. ASSUME NEW i \in 1 .. 5, NEW k \in 1 .. 5, i < k
      PROVE  series'[Instruments[i]] >= series'[Instruments[k]]
  <2>1. Instruments[i] \in Names /\ Instruments[k] \in Names
    BY <1>3 DEF Names
  <2>2. series[Instruments[i]] >= series[Instruments[k]]
    BY <1>3, <1>7 DEF MetricsAddUp
  <2>3. \A j \in 1 .. 5 : Instruments[j] = Instruments[k] => j = k
    BY DEF Instruments
  <2>4. CASE k <= done
    <3>1. series'[Instruments[i]] = series[Instruments[i]] + 1
      BY <1>1, <1>2, <1>7, <2>1, <2>4
    <3> QED
      BY <1>4, <2>1, <2>2, <3>1
  <2>5. CASE k > done
    <3>1. \A j \in 1 .. done : Instruments[j] # Instruments[k]
      BY <1>3, <2>3, <2>5
    <3>2. series'[Instruments[k]] = series[Instruments[k]]
      BY <1>1, <1>2, <2>1, <3>1
    <3> QED
      BY <1>4, <2>1, <2>2, <3>2
  <2> QED
    BY <1>3, <2>4, <2>5
<1>8. depthSum' = depthLast'
  BY <1>2 DEF MetricsAddUp
<1> QED
  BY <1>3, <1>6, <1>7, <1>8 DEF MetricsAddUp

LEMMA RecordDepthOK ==
  ASSUME TypeOK, MetricsAddUp, RecordDepth
  PROVE  TypeOK' /\ MetricsAddUp'
<1>1. Depth \subseteq Nat
  BY TelemetryAssumption
<1>2. /\ UNCHANGED <<server, otel, tracer, events, series>> /\ at' = "setup"
      /\ depthSum \in Int /\ depthLast \in Depth \cup {0} /\ depthSum = depthLast
  BY DEF TypeOK, MetricsAddUp, RecordDepth, Goto
<1>3. depthSum' \in Int /\ depthLast' \in Depth \cup {0} /\ depthSum' = depthLast'
  <2>1. CASE UNCHANGED <<depthSum, depthLast>>
    BY <1>2, <2>1
  <2>2. ASSUME NEW depth \in Depth, depthSum' = depthSum + (depth - depthLast),
               depthLast' = depth
        PROVE  depthSum' \in Int /\ depthLast' \in Depth \cup {0} /\ depthSum' = depthLast'
    BY <1>1, <1>2, <2>2
  <2> QED
    BY <2>1, <2>2 DEF RecordDepth
<1> QED
  BY <1>2, <1>3 DEF TypeOK, MetricsAddUp

(* Steps that leave the instruments alone.                                 *)
LEMMA MetricsApart ==
  ASSUME TypeOK, MetricsAddUp, UNCHANGED <<events, series, depthSum, depthLast>>,
         at' \in {"logging", "startup", "tracing", "http", "setup", "record", "login",
                 "log", "access", "prompt", "depth"},
         server' \in BOOLEAN, otel' \in {"noop", "ready"}, tracer' \in BOOLEAN
  PROVE  TypeOK' /\ MetricsAddUp'
BY DEF TypeOK, MetricsAddUp

LEMMA InitOK == Init => IInv
<1> SUFFICES ASSUME Init PROVE IInv
  OBVIOUS
<1>1. LogsIInv
  BY LogsInitOK DEF Init
<1>2. TypeOK
  <2>1. events = 0 /\ 0 \in 0 .. MaxEvents /\ 0 \in 0 .. 0
    BY TelemetryAssumption DEF Init
  <2>2. series \in [Names -> 0 .. events]
    BY <2>1 DEF Init
  <2>3. server \in BOOLEAN /\ tracer \in BOOLEAN
    BY DEF Init
  <2>4. /\ at = "logging" /\ otel = "noop" /\ events \in 0 .. MaxEvents
        /\ depthSum \in Int /\ depthLast \in Depth \cup {0}
    BY <2>1 DEF Init
  <2> QED
    BY <2>2, <2>3, <2>4 DEF TypeOK
<1>3. MetricsAddUp
  <2>1. \A i \in DOMAIN Instruments : Instruments[i] \in Names
    BY DEF Names
  <2> QED
    BY <2>1 DEF Init, MetricsAddUp
<1> QED
  BY <1>1, <1>2, <1>3 DEF IInv

(* Steps of the main thread that log, or touch neither logs nor metrics.   *)
LEMMA LoggedOK ==
  ASSUME IInv, UNCHANGED <<server, metricVars>>,
         at' \in {"logging", "startup", "tracing", "http", "setup", "record", "login",
                 "log", "access", "prompt", "depth"},
         \/ \E w \in Writer, kind \in Kind : Log(w, kind)
         \/ SetupLogging
         \/ LogsStep
         \/ UNCHANGED logsVars
  PROVE  IInv'
<1>1. LogsIInv'
  BY LogOK, SetupLoggingOK, LogsStepOK, LogsStutterOK DEF IInv
<1>2. TypeOK' /\ MetricsAddUp'
  <2>1. /\ TypeOK /\ MetricsAddUp
        /\ UNCHANGED <<server, otel, tracer, events, series, depthSum, depthLast>>
    BY DEF IInv, metricVars
  <2>2. server' \in BOOLEAN /\ otel' \in {"noop", "ready"} /\ tracer' \in BOOLEAN
    BY <2>1 DEF TypeOK
  <2> QED
    BY <2>1, <2>2, MetricsApart
<1> QED
  BY <1>1, <1>2 DEF IInv

LEMMA MainStepOK == ASSUME IInv, MainStep PROVE IInv'
<1>0. /\ LogsIInv /\ TypeOK /\ MetricsAddUp
      /\ Main \in Writer /\ {"telemetry", "access", "other"} \subseteq Kind
  BY TelemetryAssumption, LogsAssumption DEF IInv
<1>1. CASE MainSetsUpLogging
  BY <1>1, LoggedOK DEF MainSetsUpLogging, Goto
<1>2. CASE MainLogsStartup
  BY <1>0, <1>2, LoggedOK DEF MainLogsStartup, Goto
<1>3. CASE LogLogin
  BY <1>0, <1>3, LoggedOK DEF LogLogin, Goto
<1>4. CASE LogEvent
  BY <1>0, <1>4, LoggedOK DEF LogEvent, Goto
<1>5. CASE LogAccess
  BY <1>0, <1>5, LoggedOK DEF LogAccess, Goto
<1>6. CASE LogPrompt
  BY <1>0, <1>6, LoggedOK DEF LogPrompt, Goto
<1>7. CASE NextEvent
  BY <1>7, LoggedOK DEF NextEvent, Goto
<1>8. ASSUME UNCHANGED <<logsVars, events, series, depthSum, depthLast>>,
             at' \in {"logging", "startup", "tracing", "http", "setup", "record", "login",
                     "log", "access", "prompt", "depth"},
             server' \in BOOLEAN, otel' \in {"noop", "ready"}, tracer' \in BOOLEAN
      PROVE  IInv'
  <2>1. LogsIInv'
    BY <1>0, <1>8, LogsStutterOK
  <2>2. TypeOK' /\ MetricsAddUp'
    BY <1>0, <1>8, MetricsApart
  <2> QED
    BY <2>1, <2>2 DEF IInv
<1>9. CASE MainSetsUpTracing
  BY <1>0, <1>8, <1>9 DEF MainSetsUpTracing, Goto, TypeOK
<1>10. CASE MainStartsHttp
  BY <1>0, <1>8, <1>10 DEF MainStartsHttp, Goto, TypeOK, metricVars
<1>11. CASE EnsureOtel
  BY <1>0, <1>8, <1>11 DEF EnsureOtel, Goto, TypeOK
<1>12. CASE RecordMetrics
  <2>1. LogsIInv'
    BY <1>0, <1>12, LogsStutterOK DEF RecordMetrics
  <2>2. TypeOK' /\ MetricsAddUp'
    BY <1>0, <1>12, RecordMetricsOK
  <2> QED
    BY <2>1, <2>2 DEF IInv
<1>13. CASE RecordDepth
  <2>1. LogsIInv'
    BY <1>0, <1>13, LogsStutterOK DEF RecordDepth
  <2>2. TypeOK' /\ MetricsAddUp'
    BY <1>0, <1>13, RecordDepthOK
  <2> QED
    BY <2>1, <2>2 DEF IInv
<1> QED
  BY <1>1, <1>2, <1>3, <1>4, <1>5, <1>6, <1>7, <1>9, <1>10, <1>11, <1>12, <1>13
     DEF MainStep

(* The rings, the request being served and the instruments keep in step    *)
(* under any interleaving of writers, readers and the main thread.         *)
THEOREM TelemetryInvariant == Spec => []IInv
<1>1. IInv /\ [Next]_vars => IInv'
  <2> SUFFICES ASSUME IInv, [Next]_vars PROVE IInv'
    OBVIOUS
  <2>0. /\ at \in {"logging", "startup", "tracing", "http", "setup", "record", "login",
                  "log", "access", "prompt", "depth"}
        /\ {"other"} \subseteq Kind
    BY TelemetryAssumption DEF IInv, TypeOK
  <2>1. CASE MainStep
    BY <2>1, MainStepOK
  <2>2. CASE OtherLogs
    BY <2>0, <2>2, LoggedOK DEF OtherLogs
  <2>3. CASE Serving
    BY <2>0, <2>3, LoggedOK DEF Serving
  <2>4. CASE UNCHANGED vars
    BY <2>0, <2>4, LoggedOK DEF vars
  <2> QED
    BY <2>1, <2>2, <2>3, <2>4 DEF Next
<1> QED
  BY InitOK, <1>1, PTL DEF Spec

(* Whatever arrives between the reads an answer is put together from, its  *)
(* entries are consecutive telemetry records, its count is not above their *)
(* number and the buffered lines are not below it.                         *)
THEOREM AnswersAreConsistent == Spec => []AnswerIsConsistent
<1>1. ASSUME IInv, http.at = "answer"
      PROVE  /\ http.count <= Len(http.entries)
             /\ Len(http.entries) <= Least(Clamped(http.limit), http.stats)
             /\ \E i \in 0 .. Len(told) :
                  http.entries = SubSeq(told, i + 1, i + Len(http.entries))
  <2>1. LogsIInv
    BY <1>1 DEF IInv
  <2>2. /\ http.count <= Len(http.entries) /\ Len(http.entries) <= Clamped(http.limit)
        /\ RunOf(http.entries, told) /\ Len(http.entries) <= http.stats
    BY <1>1, <2>1 DEF LogsIInv, RequestInStep
  <2> QED
    BY <2>2 DEF RunOf, Least
<1>2. IInv => AnswerIsConsistent
  BY <1>1 DEF AnswerIsConsistent
<1> QED
  BY <1>2, TelemetryInvariant, PTL

(* The exported queue depth is the last recorded one, and an instrument    *)
(* never overtakes those recorded before it, whatever calls fail.          *)
THEOREM MetricsKeepInStep == Spec => []MetricsAddUp
BY TelemetryInvariant, PTL DEF IInv

=============================================================================
