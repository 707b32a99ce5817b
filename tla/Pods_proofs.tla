----------------------------- MODULE Pods_proofs -----------------------------
(***************************************************************************)
(* Theorems about what is said of pods: the health server's answers, for   *)
(* every staleness threshold, probe period and failure threshold, and the  *)
(* simulated pods' gauges, for any replica bounds, load and number of      *)
(* restarted pods.                                                         *)
(***************************************************************************)
EXTENDS HealthServer, PodSimulator, TLAPS

-----------------------------------------------------------------------------
(* The health server: no restart without silence.                          *)

(* Products of the constants, which stay symbols to the provers.            *)
LEMMA Products ==
  ASSUME NEW a \in Nat, NEW b \in Nat, NEW p \in Nat, a < b
  PROVE  a * p + p <= b * p
<1> DEFINE d == b - a - 1
<1>1. d \in Nat  OBVIOUS
<1>2. d * p \in Nat  BY <1>1
<1>3. b = a + 1 + d  OBVIOUS
<1>4. (a + 1 + d) * p = a * p + p + d * p  BY <1>1
<1>. QED  BY <1>2, <1>3, <1>4

(* The failures' window fits under the cap on silences.                     *)
LEMMA Windows ==
  ASSUME NEW n \in Nat, n < FailureThreshold
  PROVE  /\ n * ProbePeriod \in Nat
         /\ n * ProbePeriod + ProbePeriod <= FailureThreshold * ProbePeriod
         /\ LongSilence \in Nat /\ OldAge \in Nat
         /\ LongSilence >= StaleAfter + n * ProbePeriod + ProbePeriod
         /\ LongSilence >= OldAge
<1>1. StaleAfter \in Nat /\ ProbePeriod \in Nat \ {0} /\ FailureThreshold \in Nat
  BY HealthAssumption
<1>2. n * ProbePeriod \in Nat /\ FailureThreshold * ProbePeriod \in Nat  BY <1>1
<1>3. n * ProbePeriod + ProbePeriod <= FailureThreshold * ProbePeriod  BY <1>1, Products
<1>. QED  BY <1>1, <1>2, <1>3 DEF LongSilence, OldAge

LEMMA Steps ==
  ASSUME NEW n \in Nat, n < MaxClockSteps
  PROVE  /\ ClockStep * n \in Nat
         /\ ClockStep * (n + 1) = ClockStep * n + ClockStep
         /\ ClockStep * (n + 1) <= ClockStep * MaxClockSteps
<1>1. ClockStep \in Nat /\ MaxClockSteps \in Nat  BY HealthAssumption
<1>2. n * ClockStep + ClockStep <= MaxClockSteps * ClockStep  BY <1>1, Products
<1>. QED  BY <1>1, <1>2

(* Types of the derived constants.                                          *)
LEMMA Caps ==
  /\ StaleAfter \in Nat \ {0} /\ ProbePeriod \in Nat \ {0}
  /\ FailureThreshold \in Nat \ {0} /\ ClockStep \in Nat /\ MaxClockSteps \in Nat
  /\ ClockStep * MaxClockSteps \in Nat /\ ClockStep * 0 = 0
  /\ LongSilence \in Nat /\ OldAge \in Nat /\ OldAge <= LongSilence
  /\ 0 * ProbePeriod = 0
<1>1. 0 \in Nat /\ 0 < FailureThreshold  BY HealthAssumption
<1>2. LongSilence \in Nat /\ OldAge \in Nat /\ OldAge <= LongSilence  BY <1>1, Windows
<1>. QED  BY <1>2, HealthAssumption

LEMMA NoSnapOK == 0 \in Ages /\ NoSnap \in [ready : BOOLEAN, age : Ages, silence : 0 .. LongSilence]
<1>1. 0 \in Ages  BY Caps DEF Ages
<1>. QED  BY <1>1, Caps DEF NoSnap

LEMMA InitIInv == HealthInit => HealthIInv
<1>. SUFFICES ASSUME HealthInit PROVE HealthIInv  OBVIOUS
<1>1. HealthTypeOK
  <2>1. snap \in [ready : BOOLEAN, age : Ages, silence : 0 .. LongSilence] /\ age \in Ages
    BY NoSnapOK DEF HealthInit
  <2>2. 0 \in 0 .. LongSilence /\ 0 \in 0 .. FailureThreshold /\ 0 \in 0 .. MaxClockSteps
    BY Caps
  <2>. QED  BY <2>1, <2>2 DEF HealthInit, HealthTypeOK
<1>2. AgeAboveSteps /\ ProbeIsDue  BY Caps DEF HealthInit, AgeAboveSteps, ProbeIsDue
<1>3. AgeIsSilence /\ SnapCovers /\ FailsCover
  BY Caps DEF HealthInit, AgeIsSilence, SnapCovers, FailsCover
<1>. QED  BY <1>1, <1>2, <1>3 DEF HealthIInv

(* Types, the lower end of the age, and the probe's turn.                   *)
TypesAndTurns == HealthTypeOK /\ AgeAboveSteps /\ ProbeIsDue

LEMMA NextTypes == TypesAndTurns /\ [HealthNext]_healthVars => TypesAndTurns'
<1>. SUFFICES ASSUME TypesAndTurns, [HealthNext]_healthVars PROVE TypesAndTurns'
  OBVIOUS
<1>. USE DEF TypesAndTurns, HealthTypeOK, AgeAboveSteps, ProbeIsDue
<1>0. clockSteps \in Nat /\ ClockStep * clockSteps \in Nat
  BY Caps
<1>1. CASE BatchCompletes
  BY <1>0, <1>1, Caps, NoSnapOK DEF BatchCompletes, Heartbeat, platform
<1>2. CASE BatchRaises \/ NextBatch \/ Wedge
  BY <1>2 DEF BatchRaises, NextBatch, Wedge, state, platform
<1>3. CASE Tick
  BY <1>0, <1>3, Caps DEF Tick, AtMost, Ages
<1>4. CASE StepClock
  <2>1. PICK d \in {-ClockStep, ClockStep} : age' = AtMost(age + d, OldAge)
    BY <1>4 DEF StepClock
  <2>2. clockSteps < MaxClockSteps /\ clockSteps' = clockSteps + 1
    BY <1>4 DEF StepClock
  <2>3. /\ ClockStep * clockSteps' = ClockStep * clockSteps + ClockStep
        /\ ClockStep * clockSteps' <= ClockStep * MaxClockSteps
    BY <1>0, <2>2, Steps
  <2>4. age' \in Ages /\ age' >= -(ClockStep * clockSteps')
    BY <1>0, <2>1, <2>3, Caps DEF AtMost, Ages
  <2>5. UNCHANGED <<ready, silence, mainPhase, platform>>
    BY <1>4 DEF StepClock
  <2>. QED  BY <1>0, <2>2, <2>4, <2>5, Caps DEF platform
<1>5. CASE ProbeSnapshots
  BY <1>5 DEF ProbeSnapshots, state
<1>6. CASE ProbeResponds
  BY <1>6, Caps DEF ProbeResponds, state
<1>7. CASE ProbeRefused
  BY <1>7, Caps DEF ProbeRefused, state
<1>8. CASE RestartContainer
  <2>1. /\ snap' \in [ready : BOOLEAN, age : Ages, silence : 0 .. LongSilence]
        /\ age' = 0 /\ age' \in Ages
    BY <1>8, NoSnapOK DEF RestartContainer
  <2>2. 0 \in 0 .. LongSilence /\ 0 \in 0 .. FailureThreshold
    BY Caps
  <2>3. age' >= -(ClockStep * clockSteps)
    BY <1>0, <2>1
  <2>. QED  BY <1>8, <2>1, <2>2, <2>3 DEF RestartContainer
<1>9. CASE UNCHANGED healthVars
  BY <1>9 DEF healthVars, state, platform
<1>. QED
  BY <1>1, <1>2, <1>3, <1>4, <1>5, <1>6, <1>7, <1>8, <1>9 DEF HealthNext, Probe

(* A failing probe saw more than StaleAfter; failures before it add up.     *)
LEMMA SnapshotCovers ==
  ASSUME HealthIInv, ProbeSnapshots
  PROVE  SnapCovers'
<1>. USE DEF ProbeSnapshots, state, Trusted
<1>. SUFFICES ASSUME listening, clockSteps = 0
              PROVE  /\ Wedged(snap)' => Covers(snap'.silence, fails')
                     /\ silence' >= snap'.silence
  BY DEF SnapCovers
<1>1. /\ silence \in Nat /\ age \in Int /\ fails \in Nat /\ fails < FailureThreshold
      /\ probe = "waiting" /\ timer = 0 /\ fails' = fails
      /\ snap' = [ready |-> ready, age |-> age, silence |-> silence]
  BY Caps DEF HealthIInv, HealthTypeOK, Ages
<1>2. silence' >= snap'.silence
  BY <1>1
<1>3. ASSUME Wedged(snap)' PROVE Covers(snap'.silence, fails')
  <2>1. ready /\ age > StaleAfter
    BY <1>1, <1>3 DEF Wedged, Stale
  <2>2. silence >= StaleAfter + 1
    BY <1>1, <2>1, Caps DEF HealthIInv, AgeIsSilence, AtMost, OldAge
  <2>3. CASE fails = 0
    BY <1>1, <2>2, <2>3, Caps DEF Covers
  <2>4. CASE fails > 0
    <3>1. \/ silence >= StaleAfter + 1 + (fails - 1) * ProbePeriod + ProbePeriod
          \/ silence <= ProbePeriod
      BY <1>1, <2>4, Caps DEF HealthIInv, FailsCover
    <3>2. ProbePeriod <= StaleAfter
      BY <1>1, <2>4, HealthAssumption
    <3>3. (fails - 1) * ProbePeriod + ProbePeriod = fails * ProbePeriod
      BY <1>1, Caps
    <3>4. fails * ProbePeriod \in Nat /\ (fails - 1) * ProbePeriod \in Nat
      BY <1>1, <2>4, Caps
    <3>. QED  BY <1>1, <2>2, <3>1, <3>2, <3>3, <3>4, Caps DEF Covers
  <2>. QED  BY <1>1, <2>3, <2>4
<1>. QED  BY <1>2, <1>3

(* Counting the failure: the next one is a period away.                     *)
LEMMA ResponseCovers ==
  ASSUME HealthIInv, ProbeResponds
  PROVE  FailsCover'
<1>. SUFFICES ASSUME listening, clockSteps = 0, fails' > 0
              PROVE  /\ Covers(snap'.silence, fails' - 1)
                     /\ \/ silence' >= StaleAfter + 1 + (fails' - 1) * ProbePeriod
                                         + (ProbePeriod - timer')
                        \/ silence' <= ProbePeriod - timer'
  BY DEF FailsCover, Trusted, ProbeResponds, state
<1>1. /\ probe = "snapped" /\ Wedged(snap) /\ fails' = fails + 1
      /\ timer' = ProbePeriod /\ silence' = silence /\ snap' = snap
      /\ fails \in Nat /\ silence \in Nat /\ snap.silence \in Nat
  BY Caps DEF ProbeResponds, state, HealthIInv, HealthTypeOK
<1>2. Covers(snap.silence, fails) /\ (silence >= snap.silence \/ silence = 0)
  BY <1>1 DEF HealthIInv, SnapCovers, Trusted
<1>3. fails' - 1 = fails /\ fails * ProbePeriod \in Nat /\ ProbePeriod - timer' = 0
  BY <1>1, Caps
<1>. QED  BY <1>1, <1>2, <1>3, Caps DEF Covers

(* A tick makes the silence one longer and the wait one shorter.            *)
LEMMA TickCovers ==
  ASSUME HealthIInv, Tick
  PROVE  AgeIsSilence' /\ SnapCovers' /\ FailsCover'
<1>. USE DEF Tick, Trusted
<1>0. /\ silence \in Nat /\ age \in Int /\ fails \in Nat
      /\ timer \in Nat /\ timer <= ProbePeriod /\ timer > 0 /\ timer' = timer - 1
      /\ probe = "waiting" /\ probe' = "waiting"
      /\ silence' = AtMost(silence + 1, LongSilence)
      /\ age' = IF ready THEN AtMost(age + 1, OldAge) ELSE age
      /\ UNCHANGED <<ready, listening, snap, fails, clockSteps>>
  BY Caps DEF HealthIInv, HealthTypeOK, Ages
<1>1. AgeIsSilence'
  BY <1>0, Caps DEF HealthIInv, AgeIsSilence, AtMost
<1>2. SnapCovers'
  BY <1>0 DEF SnapCovers
<1>3. FailsCover'
  <2>. SUFFICES ASSUME listening, clockSteps = 0, fails > 0, fails < FailureThreshold
                PROVE  \/ silence' >= StaleAfter + 1 + (fails - 1) * ProbePeriod
                                        + (ProbePeriod - timer')
                       \/ silence' <= ProbePeriod - timer'
    BY <1>0 DEF HealthIInv, FailsCover
  <2>1. \/ silence >= StaleAfter + 1 + (fails - 1) * ProbePeriod + (ProbePeriod - timer)
        \/ silence <= ProbePeriod - timer
    BY <1>0 DEF HealthIInv, FailsCover
  <2>2. LongSilence >= StaleAfter + fails * ProbePeriod + ProbePeriod
    BY <1>0, Windows
  <2>3. /\ (fails - 1) * ProbePeriod + ProbePeriod = fails * ProbePeriod
        /\ fails * ProbePeriod \in Nat /\ (fails - 1) * ProbePeriod \in Nat
    BY <1>0, Caps
  <2>. QED  BY <1>0, <2>1, <2>2, <2>3, Caps DEF AtMost
<1>. QED  BY <1>1, <1>2, <1>3

LEMMA NextIInv == HealthIInv /\ [HealthNext]_healthVars => HealthIInv'
<1>. SUFFICES ASSUME HealthIInv, [HealthNext]_healthVars PROVE HealthIInv'  OBVIOUS
<1>0. TypesAndTurns'
  BY NextTypes DEF HealthIInv, TypesAndTurns
<1>. SUFFICES AgeIsSilence' /\ SnapCovers' /\ FailsCover'
  BY <1>0 DEF HealthIInv, TypesAndTurns
<1>t. /\ silence \in Nat /\ timer \in Nat /\ timer <= ProbePeriod
      /\ clockSteps \in Nat
  BY Caps DEF HealthIInv, HealthTypeOK
<1>1. CASE BatchCompletes
  <2>1. /\ UNCHANGED <<listening, probe, timer, snap, fails, clockSteps>>
        /\ age' = 0 /\ silence' = 0
    BY <1>1 DEF BatchCompletes, Heartbeat, platform
  <2>2. AgeIsSilence'
    BY <2>1, Caps DEF AgeIsSilence, AtMost, OldAge
  <2>3. SnapCovers'
    BY <2>1 DEF HealthIInv, SnapCovers, Trusted, Wedged, Stale, Covers
  <2>4. FailsCover'
    BY <2>1, <1>t, Caps DEF HealthIInv, FailsCover, Trusted, Covers
  <2>. QED  BY <2>2, <2>3, <2>4
<1>2. CASE BatchRaises \/ NextBatch \/ Wedge \/ UNCHANGED healthVars
  <2>1. UNCHANGED <<state, platform, clockSteps>>
    BY <1>2 DEF BatchRaises, NextBatch, Wedge, healthVars
  <2>. QED
    BY <2>1 DEF HealthIInv, AgeIsSilence, SnapCovers, FailsCover, Trusted, Wedged, Stale,
                Covers, state, platform
<1>3. CASE Tick
  BY <1>3, TickCovers
<1>4. CASE StepClock
  <2>1. ~Trusted'
    BY <1>4, <1>t DEF StepClock, Trusted
  <2>. QED  BY <2>1 DEF AgeIsSilence, SnapCovers, FailsCover
<1>5. CASE ProbeSnapshots
  <2>1. SnapCovers'
    BY <1>5, SnapshotCovers
  <2>2. AgeIsSilence' /\ FailsCover'
    BY <1>5 DEF ProbeSnapshots, state, HealthIInv, AgeIsSilence, FailsCover, Trusted
  <2>. QED  BY <2>1, <2>2
<1>6. CASE ProbeResponds
  <2>1. FailsCover'
    BY <1>6, ResponseCovers
  <2>2. AgeIsSilence' /\ SnapCovers'
    BY <1>6 DEF ProbeResponds, state, HealthIInv, AgeIsSilence, SnapCovers, Trusted
  <2>. QED  BY <2>1, <2>2
<1>7. CASE ProbeRefused
  <2>1. ~Trusted'
    BY <1>7 DEF ProbeRefused, Trusted
  <2>. QED  BY <2>1 DEF AgeIsSilence, SnapCovers, FailsCover
<1>8. CASE RestartContainer
  BY <1>8 DEF RestartContainer, AgeIsSilence, SnapCovers, FailsCover
<1>. QED
  BY <1>1, <1>2, <1>3, <1>4, <1>5, <1>6, <1>7, <1>8 DEF HealthNext, Probe

(* The inductive invariant of the probed server: types, and what is known   *)
(* of a trusted clock's ages and of the failures counted so far             *)
(* (health_server.py do_GET against the liveness probe's schedule).         *)
THEOREM HealthInvariant == HealthSpec => []HealthIInv
<1>1. HealthIInv /\ [HealthNext]_healthVars => HealthIInv'
  BY NextIInv
<1>. QED  BY InitIInv, <1>1, PTL DEF HealthSpec

(* With an uncorrected clock, a listening container is restarted only after *)
(* a silence longer than HEALTH_STALE_AFTER_S and the probes' window, for   *)
(* any thresholds (health_server.py do_GET, containerapp.template.yaml).    *)
THEOREM NoRestartWithoutSilence == HealthSpec => RestartNeedsSilence
<1>1. ASSUME HealthIInv, RestartContainer, listening, clockSteps = 0
      PROVE  snap.silence > StaleAfter + (FailureThreshold - 1) * ProbePeriod
  <2>1. fails = FailureThreshold /\ fails > 0 /\ snap.silence \in Nat
    BY <1>1, Caps DEF RestartContainer, HealthIInv, HealthTypeOK
  <2>2. probe = "waiting"
    BY <1>1, <2>1, Caps DEF HealthIInv, HealthTypeOK, ProbeIsDue
  <2>3. Covers(snap.silence, FailureThreshold - 1)
    BY <1>1, <2>1, <2>2 DEF HealthIInv, FailsCover, Trusted
  <2>4. (FailureThreshold - 1) * ProbePeriod \in Nat
    BY Caps
  <2>. QED  BY <2>1, <2>3, <2>4, Caps DEF Covers
<1>2. HealthIInv => [RestartContainer /\ listening /\ clockSteps = 0 =>
                 snap.silence > StaleAfter + (FailureThreshold - 1) * ProbePeriod]_healthVars
  BY <1>1
<1>. QED  BY <1>2, HealthInvariant, PTL DEF RestartNeedsSilence

-----------------------------------------------------------------------------
(* The pod simulator: the gauges agree between ticks.                      *)

LEMMA PodBounds ==
  /\ MinReplicas \in Nat \ {0} /\ MaxReplicas \in Nat /\ MinReplicas <= MaxReplicas
  /\ StartReplicas \in Replicas /\ PerReplica \in Nat \ {0} /\ StartLoad \in Nat
  /\ Signal \subseteq Nat
BY PodAssumption, SMT DEF Replicas

LEMMA ClampedInRange == \A n \in Int : Clamp(n) \in Replicas
BY PodBounds, SMT DEF Clamp, Replicas

(* What the autoscaler asks for is within its bounds whatever the load.    *)
LEMMA WantedInRange == load \in Nat => Wanted \in Replicas
<1> SUFFICES ASSUME load \in Nat PROVE Wanted \in Replicas
  OBVIOUS
<1>1. Round(load, PerReplica) \in Int
  <2> DEFINE d == 2 * PerReplica
             q == (2 * load + PerReplica) \div d
  <2>1. d \in Nat \ {0} /\ 2 * load + PerReplica \in Nat
    BY PodBounds, SMT
  <2> HIDE DEF d
  <2>2. q \in Int
    BY <2>1, SMT
  <2>3. Round(load, PerReplica) \in {q - 1, q}
    BY DEF Round, d
  <2> HIDE DEF q
  <2> QED
    BY <2>2, <2>3, SMT
<1> QED
  BY <1>1, ClampedInRange DEF Wanted

LEMMA PodInitOK == Init => IInv
<1> SUFFICES ASSUME Init PROVE IInv
  OBVIOUS
<1> QED
  BY PodBounds, SMT DEF Init, IInv, TypeOK, TimersNear, PhasesClose, AvailableClose,
                        PodsInStep, AvailableInStep, Replicas, Timer

-----------------------------------------------------------------------------
(* Actions that leave the gauges alone, or make no promise about them.     *)

(* The gauges' parts of the invariant outlast a step that leaves the       *)
(* gauges, the timers and the replica count alone and starts no later      *)
(* stretch of the tick.                                                    *)
LEMMA QuietOK ==
  ASSUME IInv, UNCHANGED <<current, gauges, timers, written>>,
         sim' = sim \/ (sim = "pods" /\ sim' = "asleep")
  PROVE  PhasesClose' /\ AvailableClose' /\ PodsInStep' /\ AvailableInStep'
<1>1. PhasesClose' /\ AvailableClose'
  BY DEF IInv, PhasesClose, AvailableClose, gauges, Pod
<1>2. PodsInStep' /\ AvailableInStep'
  BY DEF IInv, PodsInStep, AvailableInStep, gauges, In, Pod
<1> QED
  BY <1>1, <1>2

(* So do the timers when the simulation goes no further than to sleep.     *)
LEMMA TimersKept ==
  ASSUME IInv, current' = current, timers' \subseteq timers,
         \/ sim' = sim
         \/ sim' = "asleep"
         \/ sim' \in {"rebuilt", "pods"} /\ sim \in {"scaled", "rebuilt"}
  PROVE  TimersNear'
BY DEF IInv, TimersNear

LEMMA UpdateLoadSignalOK ==
  ASSUME IInv, NEW rps \in Signal, UpdateLoadSignal(rps)
  PROVE  IInv'
<1>1. load' \in Nat /\ updates' \in Nat
  <2>1. 8 * load + 2 * rps \in Nat /\ updates \in Nat
    BY PodBounds, SMT DEF IInv, TypeOK
  <2>2. \A n \in Nat : n \div 10 \in Nat
    BY SMT
  <2> QED
    BY <2>1, <2>2 DEF UpdateLoadSignal
<1>2. TypeOK'
  BY <1>1 DEF UpdateLoadSignal, IInv, TypeOK, hpaVars, gauges, Pod, Replicas, Timer
<1>3. /\ UNCHANGED <<current, gauges, timers, written>> /\ sim' = sim
  BY DEF UpdateLoadSignal, hpaVars
<1> QED
  BY <1>2, <1>3, QuietOK, TimersKept DEF IInv

LEMMA RebuiltPods ==
  ASSUME NEW n
  PROVE  RunningOnly(n) \in [Pod -> {"none", "running", "pending"}]
BY DEF RunningOnly

LEMMA InitLoopOK ==
  ASSUME IInv, InitLoop
  PROVE  IInv'
<1>1. StartReplicas \in 0 .. MaxReplicas
  BY PodBounds, SMT DEF Replicas
<1>2. TypeOK'
  BY <1>1, PodBounds, RebuiltPods
     DEF InitLoop, RebuildPods, IInv, TypeOK, loadVars, Pod, Replicas, Timer
<1>3. timers' = {} /\ sim' = "tick"
  BY DEF InitLoop, IInv, TimersNear
<1> QED
  BY <1>2, <1>3
     DEF IInv, TimersNear, PhasesClose, AvailableClose, PodsInStep, AvailableInStep

(* The replica count moves by at most one.                                 *)
LEMMA ScaleOK ==
  ASSUME IInv, Scale
  PROVE  IInv'
<1>1. PICK jitter \in {-1, 0, 1} : desired' = Clamp(Wanted + jitter)
  BY DEF Scale
<1>2. desired' \in Replicas
  <2>1. Wanted + jitter \in Int
    BY WantedInRange, PodBounds, SMT DEF IInv, TypeOK, Replicas
  <2> QED
    BY <1>1, <2>1, ClampedInRange
<1>3. current' \in Replicas /\ current \in current' - 1 .. current' + 1
  BY <1>2, PodBounds, SMT DEF Scale, IInv, TypeOK, Replicas
<1>4. TypeOK'
  BY <1>2, <1>3 DEF Scale, IInv, TypeOK, loadVars, gauges, Pod, Replicas, Timer
<1>5. \A t \in timers : t.pod <= t.cur /\ t.cur = current /\ ~t.fresh
  BY DEF Scale, IInv, TimersNear
<1>6. TimersNear'
  BY <1>3, <1>5 DEF Scale, TimersNear
<1> QED
  BY <1>4, <1>6 DEF Scale, IInv, PhasesClose, AvailableClose, PodsInStep, AvailableInStep

LEMMA RebuildOK ==
  ASSUME IInv, Rebuild
  PROVE  IInv'
<1>1. \A t \in timers : ~t.fresh
  BY DEF Rebuild, IInv, TimersNear
<1>2. current \in 1 .. MaxReplicas /\ current \in 0 .. MaxReplicas
  BY PodBounds, SMT DEF IInv, TypeOK, Replicas
<1>3. TypeOK'
  <2>1. phase' \in [Pod -> {"none", "running", "pending"}]
    BY RebuiltPods DEF Rebuild, RebuildPods
  <2>2. 0 \in 0 .. MaxReplicas
    BY PodBounds, SMT
  <2> QED
    BY <2>1, <2>2 DEF Rebuild, IInv, TypeOK, loadVars, hpaVars, Pod, Replicas, Timer
<1>4. /\ \A p \in Pod : phase'[p] = IF p <= current THEN "running" ELSE "none"
      /\ sim' = "rebuilt" /\ written' = "yes"
      /\ current' = current /\ timers' = timers
  BY DEF Rebuild, RebuildPods, RunningOnly, hpaVars
<1>5. (In("running") \cup In("pending"))' = 1 .. current
  <2>1. (In("running") \cup In("pending"))' = {p \in Pod : p <= current}
    BY <1>4 DEF In, Pod
  <2> QED
    BY <1>2, <2>1, PodBounds, SMT DEF Pod
<1>6. PodsInStep' /\ AvailableInStep' /\ AvailableClose'
  BY <1>1, <1>4, <1>5 DEF PodsInStep, AvailableInStep, AvailableClose, Pod
<1>7. PhasesClose'
  <2>1. \A p \in Pod : p > current + 1 => ~(p <= current)
    BY <1>2, PodBounds, SMT DEF Pod
  <2> QED
    BY <1>4, <2>1 DEF PhasesClose, Pod
<1>8. TimersNear'
  BY <1>4, TimersKept DEF Rebuild
<1> QED
  BY <1>3, <1>6, <1>7, <1>8 DEF IInv

LEMMA SetAvailableOK ==
  ASSUME IInv, SetAvailable
  PROVE  IInv'
<1>1. current \in Int /\ current \in 0 .. MaxReplicas /\ current \in current - 1 .. current + 1
  BY PodBounds, SMT DEF IInv, TypeOK, Replicas
<1>2. TypeOK'
  BY <1>1 DEF SetAvailable, IInv, TypeOK, loadVars, hpaVars, Pod, Replicas, Timer
<1>3. /\ available' = current /\ current' = current /\ phase' = phase
      /\ timers' = timers /\ written' = written /\ sim = "rebuilt" /\ sim' = "pods"
  BY DEF SetAvailable, hpaVars
<1>4. AvailableClose' /\ AvailableInStep'
  BY <1>1, <1>3 DEF AvailableClose, AvailableInStep
<1>5. PhasesClose' /\ PodsInStep'
  BY <1>3 DEF IInv, PhasesClose, PodsInStep, In, Pod
<1>6. TimersNear'
  BY <1>3, TimersKept
<1> QED
  BY <1>2, <1>4, <1>5, <1>6 DEF IInv

LEMMA SteadyOK ==
  ASSUME IInv, Steady
  PROVE  IInv'
<1>1. visited \in Nat /\ visited' = visited + 1 /\ visited' \in 0 .. MaxReplicas
  BY PodBounds, SMT DEF Steady, IInv, TypeOK, Replicas
<1>2. TypeOK'
  BY <1>1 DEF Steady, IInv, TypeOK, loadVars, hpaVars, gauges, Pod, Replicas, Timer
<1>3. UNCHANGED <<current, gauges, timers, written>> /\ sim' = sim
  BY DEF Steady, hpaVars
<1> QED
  BY <1>2, <1>3, QuietOK, TimersKept DEF IInv

(* The pod that is restarted.                                              *)
LEMMA PodGoesPending ==
  ASSUME TypeOK, sim = "pods", visited < current
  PROVE  /\ visited \in Nat /\ visited + 1 \in 1 .. current /\ visited + 1 \in Pod
         /\ visited + 1 \in 0 .. MaxReplicas
         /\ current \in Nat /\ current <= MaxReplicas /\ current >= 1
BY PodBounds, SMT DEF TypeOK, Replicas, Pod

(* What a restart writes keeps the gauges within one.                      *)
LEMMA RestartClose ==
  ASSUME IInv, sim = "pods", NEW n \in 1 .. current, n \in Pod,
         current \in Nat, current >= 1,
         current' = current, phase' = [phase EXCEPT ![n] = "pending"],
         available' = (IF current > 1 THEN current - 1 ELSE 1),
         sim' \in {"pods", "asleep"}, written' # "no"
  PROVE  PhasesClose' /\ AvailableClose'
<1>1. written # "no"
  BY DEF IInv, PhasesClose
<1>2. \A p \in Pod : phase'[p] = IF p = n THEN "pending" ELSE phase[p]
  BY DEF IInv, TypeOK
<1>3. n <= current /\ ~(n > current + 1)
  BY SMT
<1>4. PhasesClose'
  BY <1>1, <1>2, <1>3 DEF IInv, PhasesClose, Pod
<1>5. available' \in current - 1 .. current + 1
  BY SMT
<1> QED
  BY <1>4, <1>5 DEF AvailableClose

LEMMA RestartPodOK ==
  ASSUME IInv, RestartPod
  PROVE  IInv'
<1> DEFINE n == visited + 1
           new == [pod |-> n, cur |-> current, fresh |-> TRUE]
<1>1. /\ visited \in Nat /\ n \in 1 .. current /\ n \in Pod /\ n \in 0 .. MaxReplicas
      /\ current \in Nat /\ current <= MaxReplicas /\ current >= 1
  BY PodGoesPending DEF RestartPod, IInv
<1>2. /\ visited' = n /\ current' = current /\ written' = written /\ sim' = sim
      /\ sim = "pods"
      /\ phase' = [phase EXCEPT ![n] = "pending"]
      /\ timers' = timers \cup {new}
      /\ available' = IF current > 1 THEN current - 1 ELSE 1
  BY DEF RestartPod, hpaVars
<1>3. new \in Timer /\ new.pod = n /\ new.cur = current /\ new.fresh
  BY <1>1 DEF IInv, TypeOK, Timer
<1>4. available' \in 0 .. MaxReplicas /\ (available' = current \/ available' = current - 1)
  BY <1>1, <1>2, PodBounds, SMT
<1>5. TypeOK'
  BY <1>1, <1>2, <1>3, <1>4 DEF RestartPod, IInv, TypeOK, loadVars, hpaVars, Pod, Replicas
<1> HIDE DEF new, n
<1>6. PhasesClose' /\ AvailableClose'
  <2>1. written # "no"
    BY <1>2 DEF IInv, PhasesClose
  <2> QED
    BY <1>1, <1>2, <2>1, RestartClose
<1>7. PodsInStep'
  <2> SUFFICES ASSUME written = "yes"
               PROVE  /\ (In("running") \cup In("pending"))' = 1 .. current
                      /\ \A p \in Pod : phase'[p] = "pending" <=>
                                          \E t \in timers' : t.fresh /\ t.pod = p
    BY <1>2 DEF PodsInStep, Pod
  <2>1. /\ In("running") \cup In("pending") = 1 .. current
        /\ \A p \in Pod : phase[p] = "pending" <=> \E t \in timers : t.fresh /\ t.pod = p
    BY <1>2 DEF IInv, PodsInStep
  <2>2. \A p \in Pod : phase'[p] = IF p = n THEN "pending" ELSE phase[p]
    BY <1>1, <1>2 DEF IInv, TypeOK
  <2>3. (In("running") \cup In("pending"))' = In("running") \cup In("pending") \cup {n}
    BY <1>1, <2>2 DEF In, Pod
  <2>4. (In("running") \cup In("pending"))' = 1 .. current
    BY <1>1, <2>1, <2>3
  <2> QED
    BY <1>2, <1>3, <2>1, <2>2, <2>4
<1>8. AvailableInStep'
  BY <1>2, <1>3, <1>4 DEF AvailableInStep
<1>9. TimersNear'
  <2>1. n <= current /\ current \in current - 1 .. current + 1
    BY <1>1, SMT
  <2>2. \A t \in timers' : t \in timers \/ t = new
    BY <1>2
  <2> QED
    BY <1>2, <1>3, <2>1, <2>2 DEF IInv, TimersNear
<1> QED
  BY <1>5, <1>6, <1>7, <1>8, <1>9 DEF IInv

LEMMA RestartRaisesOK ==
  ASSUME IInv, RestartRaises
  PROVE  IInv'
<1>1. /\ visited + 1 \in 1 .. current /\ visited + 1 \in Pod
      /\ current \in Nat /\ current <= MaxReplicas /\ current >= 1
  BY PodGoesPending DEF RestartRaises, IInv
<1>2. /\ phase' = [phase EXCEPT ![visited + 1] = "pending"]
      /\ available' = IF current > 1 THEN current - 1 ELSE 1
      /\ current' = current /\ timers' = timers
      /\ sim = "pods" /\ sim' = "asleep" /\ written' = "over"
  BY DEF RestartRaises, hpaVars
<1>3. available' \in 0 .. MaxReplicas
  BY <1>1, <1>2, PodBounds, SMT
<1>4. TypeOK'
  BY <1>1, <1>3 DEF RestartRaises, IInv, TypeOK, loadVars, hpaVars, Pod, Replicas, Timer
<1>5. PhasesClose' /\ AvailableClose'
  BY <1>1, <1>2, RestartClose
<1>6. TimersNear'
  BY <1>2, TimersKept
<1> QED
  BY <1>2, <1>4, <1>5, <1>6 DEF IInv, PodsInStep, AvailableInStep

LEMMA TickRaisesOK ==
  ASSUME IInv, TickRaises
  PROVE  IInv'
<1>1. TypeOK'
  BY DEF TickRaises, IInv, TypeOK, loadVars, hpaVars, gauges, Pod, Replicas, Timer
<1>2. TimersNear'
  BY TimersKept DEF TickRaises, hpaVars
<1>3. CASE sim # "pods"
  BY <1>1, <1>2, <1>3
     DEF TickRaises, IInv, PhasesClose, AvailableClose, PodsInStep, AvailableInStep
<1>4. CASE sim = "pods"
  <2>1. written' = written
    BY <1>4 DEF TickRaises
  <2> QED
    BY <1>1, <1>2, <1>4, <2>1, QuietOK DEF TickRaises, hpaVars, IInv
<1> QED
  BY <1>3, <1>4

(* The timers of the tick that has ended are late from here on.            *)
LEMMA WakeUpOK ==
  ASSUME IInv, WakeUp
  PROVE  IInv'
<1>1. \A t \in timers : /\ t \in Timer /\ t.fresh /\ t.pod <= t.cur /\ t.cur = current
                        /\ t.cur \in current - 1 .. current + 1
  BY DEF WakeUp, IInv, TypeOK, TimersNear
<1>2. timers' = {[t EXCEPT !.fresh = FALSE] : t \in timers}
  BY DEF WakeUp
<1>3. \A u \in timers' : \E t \in timers : /\ u.pod = t.pod /\ u.cur = t.cur /\ ~u.fresh
                                           /\ u \in Timer
  BY <1>1, <1>2 DEF Timer
<1>4. sim' = "tick" /\ current' = current
  BY DEF WakeUp, hpaVars
<1>5. TimersNear'
  BY <1>1, <1>3, <1>4 DEF TimersNear
<1>6. TypeOK'
  BY <1>3 DEF WakeUp, IInv, TypeOK, loadVars, hpaVars, gauges, Pod, Replicas, Timer
<1> QED
  BY <1>4, <1>5, <1>6
     DEF IInv, PhasesClose, AvailableClose, PodsInStep, AvailableInStep

-----------------------------------------------------------------------------
(* The recovery timers.                                                    *)

(* A timer of any tick writes a pod and a count within one.                *)
LEMMA RestoreClose ==
  ASSUME IInv, NEW t \in Timer, Restore(t)
  PROVE  PhasesClose' /\ AvailableClose'
<1>1. /\ t.pod \in Pod /\ t.pod <= t.cur /\ t.cur \in current - 1 .. current + 1
      /\ t.cur \in Replicas
  BY DEF Restore, IInv, TimersNear, Timer
<1>2. /\ phase' = [phase EXCEPT ![t.pod] = "running"] /\ available' = t.cur
      /\ current' = current /\ sim' = sim
      /\ written' = "no" <=> written = "no"
  BY DEF Restore, hpaVars
<1>3. \A p \in Pod : phase'[p] = IF p = t.pod THEN "running" ELSE phase[p]
  BY <1>1, <1>2 DEF IInv, TypeOK
<1>4. ~(t.pod > current + 1)
  <2>1. t.pod \in Int /\ t.cur \in Int /\ current \in Int
    BY <1>1, PodBounds, SMT DEF IInv, TypeOK, Pod, Replicas
  <2> QED
    BY <1>1, <2>1, SMT
<1>5. PhasesClose'
  BY <1>2, <1>3, <1>4 DEF IInv, PhasesClose, Pod
<1> QED
  BY <1>1, <1>2, <1>5 DEF AvailableClose

LEMMA RestoreOK ==
  ASSUME IInv, NEW t \in Timer, Restore(t)
  PROVE  IInv'
<1>1. /\ t.pod \in Pod /\ t.cur \in Replicas /\ t.fresh \in BOOLEAN
      /\ t.cur \in 0 .. MaxReplicas
  <2>1. t.pod \in Pod /\ t.cur \in Replicas /\ t.fresh \in BOOLEAN
    BY DEF Timer
  <2> QED
    BY <2>1, PodBounds, SMT DEF Replicas
<1>2. TypeOK'
  <2>1. written' \in {"no", "yes", "over"}
    BY DEF Restore, IInv, TypeOK
  <2> QED
    BY <1>1, <2>1 DEF Restore, IInv, TypeOK, loadVars, hpaVars, Pod, Replicas, Timer
<1>3. TimersNear' /\ PhasesClose' /\ AvailableClose'
  BY RestoreClose, TimersKept DEF Restore, hpaVars
<1>4. CASE written' = "yes" /\ sim \in {"rebuilt", "pods", "asleep"}
  <2>1. /\ In("running") \cup In("pending") = 1 .. current
        /\ \A p \in Pod : phase[p] = "pending" <=> \E u \in timers : u.fresh /\ u.pod = p
        /\ \A u \in timers : u.fresh => u.cur = current
        /\ t.fresh
    BY <1>4 DEF Restore, IInv, PodsInStep, TimersNear
  <2>2. /\ t \in timers /\ t.cur = current
        /\ phase' = [phase EXCEPT ![t.pod] = "running"]
        /\ available' = current /\ timers' = timers \ {t}
        /\ current' = current /\ sim' = sim
    BY <2>1 DEF Restore, hpaVars
  <2>3. \A p \in Pod : phase'[p] = IF p = t.pod THEN "running" ELSE phase[p]
    BY <1>1, <2>2 DEF IInv, TypeOK
  <2>4. \A u \in timers' : u.fresh => u.pod # t.pod
    <3> SUFFICES ASSUME NEW u \in timers, u # t, u.fresh, u.pod = t.pod PROVE FALSE
      BY <2>2
    <3>1. u \in Timer /\ u.cur = t.cur /\ u.fresh = t.fresh
      BY <2>1, <2>2 DEF IInv, TypeOK, Timer
    <3> QED
      BY <3>1 DEF Timer
  <2>5. (In("running") \cup In("pending"))' = In("running") \cup In("pending")
    <3>1. phase[t.pod] = "pending"
      BY <1>1, <2>1, <2>2
    <3> QED
      BY <1>1, <2>3, <3>1 DEF In, Pod
  <2>6. \A p \in Pod : phase'[p] = "pending" <=> \E u \in timers' : u.fresh /\ u.pod = p
    BY <2>1, <2>2, <2>3, <2>4
  <2> QED
    BY <1>2, <1>3, <2>1, <2>2, <2>5, <2>6 DEF IInv, PodsInStep, AvailableInStep, Pod
<1>5. CASE ~(written' = "yes" /\ sim \in {"rebuilt", "pods", "asleep"})
  <2>1. sim' = sim
    BY DEF Restore
  <2> QED
    BY <1>2, <1>3, <1>5, <2>1 DEF IInv, PodsInStep, AvailableInStep
<1> QED
  BY <1>4, <1>5

-----------------------------------------------------------------------------
(* The theorems.                                                           *)

(* Types, and what timers, phases and available count have to do with the  *)
(* replica count at each step of a tick (_tick_body, _restore).            *)
THEOREM PodInvariant == Spec => []IInv
<1>1. IInv /\ [Next]_vars => IInv'
  <2> SUFFICES ASSUME IInv, [Next]_vars PROVE IInv'
    OBVIOUS
  <2> USE DEF loadVars, hpaVars
  <2>1. CASE UNCHANGED vars
    <3>1. TypeOK'
      BY <2>1 DEF vars, gauges, IInv, TypeOK, Pod, Replicas, Timer
    <3> QED
      BY <2>1, <3>1, QuietOK, TimersKept DEF vars, IInv
  <2>2. CASE StartSimulation \/ InitRaises
    <3>1. TypeOK'
      BY <2>2 DEF StartSimulation, InitRaises, gauges, IInv, TypeOK, Pod, Replicas, Timer
    <3>2. timers' = {} /\ sim' \in {"init", "dead"}
      BY <2>2 DEF StartSimulation, InitRaises, IInv, TimersNear
    <3> QED
      BY <3>1, <3>2
         DEF IInv, TimersNear, PhasesClose, AvailableClose, PodsInStep, AvailableInStep
  <2>3. CASE TickEnds
    <3>1. TypeOK'
      BY <2>3 DEF TickEnds, gauges, IInv, TypeOK, Pod, Replicas, Timer
    <3>2. UNCHANGED <<current, gauges, timers, written>> /\ sim = "pods" /\ sim' = "asleep"
      BY <2>3 DEF TickEnds
    <3> QED
      BY <3>1, <3>2, QuietOK, TimersKept DEF IInv
  <2> QED
    BY <2>1, <2>2, <2>3, UpdateLoadSignalOK, InitLoopOK, ScaleOK, RebuildOK,
       SetAvailableOK, SteadyOK, RestartPodOK, RestartRaisesOK, TickRaisesOK, WakeUpOK,
       RestoreOK DEF Next, SimStep
<1> QED
  BY <1>1, PodInitOK, PTL DEF Spec

(* Replica counts and gauges keep their ranges, whatever the load, the     *)
(* jitter and the timers (_tick_body's clamps, _schedule_pod_recovery).    *)
THEOREM PodTypes == Spec => []TypeOK
<1>1. IInv => TypeOK
  BY DEF IInv
<1> QED
  BY <1>1, PodInvariant, PTL

(* Between ticks whose gauges were all written the pod phases, the timers  *)
(* and the available count tell one story (_rebuild_pods, _tick_body,      *)
(* _restore).                                                              *)
THEOREM GaugesAgreeBetweenTicks == Spec => []GaugesAgree
<1>1. IInv => GaugesAgree
  <2> SUFFICES ASSUME IInv, sim = "asleep", written = "yes"
               PROVE  /\ In("running") \cup In("pending") = 1 .. current
                      /\ In("pending") = {t.pod : t \in {u \in timers : u.fresh}}
                      /\ available \in {current - 1, current}
                      /\ timers = {} => available = current
    BY DEF GaugesAgree
  <2>1. /\ In("running") \cup In("pending") = 1 .. current
        /\ \A p \in Pod : phase[p] = "pending" <=> \E t \in timers : t.fresh /\ t.pod = p
    BY DEF IInv, PodsInStep
  <2>2. \A t \in timers : t.pod \in Pod
    BY DEF IInv, TypeOK, Timer
  <2>3. In("pending") = {t.pod : t \in {u \in timers : u.fresh}}
    BY <2>1, <2>2 DEF In
  <2> QED
    BY <2>1, <2>3 DEF IInv, AvailableInStep
<1> QED
  BY <1>1, PodInvariant, PTL

(* A timer that fires after the next tick has begun, or never starts, puts *)
(* the gauges off by one pod at most (_schedule_pod_recovery's remembered  *)
(* pod and count, _tick_body's single steps).                              *)
THEOREM LateTimersDisturbByOne == Spec => []LateTimersAreOffByOne
<1>1. IInv => LateTimersAreOffByOne
  <2> SUFFICES ASSUME IInv, sim = "asleep", written # "no"
               PROVE  /\ In("running") \cup In("pending")
                           \in {1 .. current, 1 .. current + 1}
                      /\ available \in current - 1 .. current + 1
    BY DEF LateTimersAreOffByOne
  <2> DEFINE shown == In("running") \cup In("pending")
  <2>1. \A p \in Pod : p \in shown <=> phase[p] # "none"
    BY DEF IInv, TypeOK, In
  <2>2. /\ shown \subseteq Pod
        /\ \A p \in Pod : p <= current => p \in shown
        /\ \A p \in shown : ~(p > current + 1)
    BY <2>1 DEF IInv, PhasesClose, In
  <2>3. current \in 1 .. MaxReplicas
    BY PodBounds, SMT DEF IInv, TypeOK, Replicas
  <2> HIDE DEF shown
  <2>4. CASE current + 1 \in shown
    <3>1. \A p \in Int : p \in shown => p \in 1 .. current + 1
      BY <2>2, <2>3, <2>4, PodBounds, SMT DEF Pod
    <3>2. \A p \in Int : p \in 1 .. current + 1 => p \in shown
      BY <2>2, <2>3, <2>4, PodBounds, SMT DEF Pod
    <3>3. shown \subseteq Int /\ 1 .. current + 1 \subseteq Int
      BY <2>2 DEF Pod
    <3>4. shown = 1 .. current + 1
      BY <3>1, <3>2, <3>3
    <3> QED
      BY <3>4 DEF shown, IInv, AvailableClose
  <2>5. CASE current + 1 \notin shown
    <3>1. \A p \in Int : p \in shown => p \in 1 .. current
      BY <2>2, <2>3, <2>5, PodBounds, SMT DEF Pod
    <3>2. \A p \in Int : p \in 1 .. current => p \in shown
      BY <2>2, <2>3, <2>5, PodBounds, SMT DEF Pod
    <3>3. shown \subseteq Int /\ 1 .. current \subseteq Int
      BY <2>2 DEF Pod
    <3>4. shown = 1 .. current
      BY <3>1, <3>2, <3>3
    <3> QED
      BY <3>4 DEF shown, IInv, AvailableClose
  <2> QED
    BY <2>4, <2>5
<1> QED
  BY <1>1, PodInvariant, PTL

=============================================================================
