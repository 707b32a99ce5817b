---------------------------- MODULE HealthServer ----------------------------
(***************************************************************************)
(* generator/health_server.py under the probes of                          *)
(* infra/containerapp.template.yaml: the runner's main thread reports a    *)
(* heartbeat after each completed batch, the HTTP thread answers /healthz  *)
(* from a snapshot of the shared state, and the platform restarts the      *)
(* container after FailureThreshold failed probes in a row.                *)
(*                                                                         *)
(* Time is counted in ticks.  The server computes the age of the last      *)
(* heartbeat from the wall clock, which may be stepped; silence is the     *)
(* true time without a heartbeat, a history variable.                      *)
(***************************************************************************)
EXTENDS Integers

CONSTANTS
  StaleAfter,        (* HEALTH_STALE_AFTER_S, in ticks                        *)
  ProbePeriod,       (* periodSeconds of the liveness probe                   *)
  FailureThreshold,  (* its failureThreshold                                  *)
  ClockStep,         (* how far one wall-clock correction moves               *)
  MaxClockSteps      (* bound: clock corrections                              *)

ASSUME HealthAssumption ==
  /\ StaleAfter \in Nat \ {0} /\ ProbePeriod \in Nat \ {0}
  /\ FailureThreshold \in Nat \ {0}
  /\ ClockStep \in Nat /\ MaxClockSteps \in Nat
  /\ FailureThreshold > 1 => ProbePeriod <= StaleAfter

(* Ages and silences beyond these are not told apart.                      *)
OldAge == StaleAfter + 1
LongSilence == StaleAfter + FailureThreshold * ProbePeriod
AtMost(n, limit) == IF n < limit THEN n ELSE limit

VARIABLES
  listening,   (* start() bound its port                                     *)
  ready,       (* _state["ready"]; false exactly while last_batch_at is 0.0  *)
  age,         (* time.time() - _state["last_batch_at"], once ready          *)
  silence,     (* true time since the last heartbeat or the container start  *)
  mainPhase,       (* the main thread: "batch", "rest", or "wedged" for good     *)
  probe,       (* the liveness probe: "waiting", or "snapped" half-way       *)
  timer,       (* ticks until the next probe                                 *)
  snap,        (* what the handler's snapshot saw                            *)
  fails,       (* failed probes in a row                                     *)
  clockSteps

state      == <<ready, age, silence>>
platform   == <<listening, probe, timer, snap, fails>>
healthVars == <<state, mainPhase, platform, clockSteps>>

Ages == -(ClockStep * MaxClockSteps) .. OldAge

HealthTypeOK ==
  /\ listening \in BOOLEAN /\ ready \in BOOLEAN
  /\ age \in Ages /\ silence \in 0 .. LongSilence
  /\ mainPhase \in {"batch", "rest", "wedged"}
  /\ probe \in {"waiting", "snapped"}
  /\ timer \in 0 .. ProbePeriod
  /\ snap \in [ready : BOOLEAN, age : Ages, silence : 0 .. LongSilence]
  /\ fails \in 0 .. FailureThreshold
  /\ clockSteps \in 0 .. MaxClockSteps

NoSnap == [ready |-> FALSE, age |-> 0, silence |-> 0]

(* A container starts: start() binds its port or returns None, the first   *)
(* batch begins, and the start-up probe and the initial delay put off the  *)
(* first liveness probe by some time.                                      *)
HealthInit ==
  /\ listening \in BOOLEAN /\ timer \in 0 .. ProbePeriod
  /\ ready = FALSE /\ age = 0 /\ silence = 0
  /\ mainPhase = "batch"
  /\ probe = "waiting" /\ snap = NoSnap /\ fails = 0
  /\ clockSteps = 0

-----------------------------------------------------------------------------
(* The main thread.                                                        *)

(* a bug: only the first heartbeat stores the time                         *)
HeartbeatOnce ==
  /\ ready' = TRUE /\ silence' = 0
  /\ age' = IF ready THEN age ELSE 0

(* heartbeat(), the three assignments under _state_lock.                   *)
Heartbeat ==
  /\ ready' = TRUE /\ silence' = 0
  /\ age' = 0

BatchCompletes ==
  /\ mainPhase = "batch"
  /\ Heartbeat
  /\ mainPhase' = "rest"
  /\ UNCHANGED <<platform, clockSteps>>

(* run_one_batch raised before its heartbeat.                              *)
BatchRaises ==
  /\ mainPhase = "batch"
  /\ mainPhase' = "rest"
  /\ UNCHANGED <<state, platform, clockSteps>>

NextBatch ==
  /\ mainPhase = "rest"
  /\ mainPhase' = "batch"
  /\ UNCHANGED <<state, platform, clockSteps>>

(* A call inside the batch never returns.                                  *)
Wedge ==
  /\ mainPhase = "batch"
  /\ mainPhase' = "wedged"
  /\ UNCHANGED <<state, platform, clockSteps>>

-----------------------------------------------------------------------------
(* The clocks.                                                             *)

Tick ==
  /\ probe = "waiting" /\ timer > 0
  /\ timer' = timer - 1
  /\ silence' = AtMost(silence + 1, LongSilence)
  /\ age' = IF ready THEN AtMost(age + 1, OldAge) ELSE age
  /\ UNCHANGED <<ready, mainPhase, listening, probe, snap, fails, clockSteps>>

(* The wall clock is corrected; only a stored time can be misread.         *)
StepClock ==
  /\ clockSteps < MaxClockSteps /\ ready
  /\ \E d \in {-ClockStep, ClockStep} : age' = AtMost(age + d, OldAge)
  /\ clockSteps' = clockSteps + 1
  /\ UNCHANGED <<ready, silence, mainPhase, platform>>

-----------------------------------------------------------------------------
(* The probe of /healthz.                                                  *)

(* _snapshot() under the lock, and "now" right after it.                   *)
ProbeSnapshots ==
  /\ listening /\ probe = "waiting" /\ timer = 0
  /\ fails < FailureThreshold
  /\ snap' = [ready |-> ready, age |-> age, silence |-> silence]
  /\ probe' = "snapped"
  /\ UNCHANGED <<state, mainPhase, listening, timer, fails, clockSteps>>

(* stale: never a heartbeat, or the last one too long ago.                 *)
Stale(s) == ~s.ready \/ s.age > StaleAfter

(* a bug: the comment of the handler taken at its word                     *)
WedgedNeverReady(s) == Stale(s) /\ ~s.ready

(* 503 "wedged": stale, and a batch has completed before.                  *)
Wedged(s) == Stale(s) /\ s.ready

(* The handler responds, whatever has happened since its snapshot; the     *)
(* platform counts consecutive failures and schedules the next probe.      *)
ProbeResponds ==
  /\ probe = "snapped"
  /\ fails' = IF Wedged(snap) THEN fails + 1 ELSE 0
  /\ probe' = "waiting" /\ timer' = ProbePeriod
  /\ UNCHANGED <<state, mainPhase, listening, snap, clockSteps>>

(* Nothing listens: the connection is refused.                             *)
ProbeRefused ==
  /\ ~listening /\ probe = "waiting" /\ timer = 0
  /\ fails < FailureThreshold
  /\ fails' = fails + 1 /\ timer' = ProbePeriod
  /\ UNCHANGED <<state, mainPhase, listening, probe, snap, clockSteps>>

Probe == ProbeSnapshots \/ ProbeResponds \/ ProbeRefused

RestartContainer ==
  /\ fails = FailureThreshold
  /\ listening' \in BOOLEAN /\ timer' \in 0 .. ProbePeriod
  /\ ready' = FALSE /\ age' = 0 /\ silence' = 0
  /\ mainPhase' = "batch"
  /\ probe' = "waiting" /\ snap' = NoSnap /\ fails' = 0
  /\ UNCHANGED clockSteps

-----------------------------------------------------------------------------
HealthNext ==
  \/ BatchCompletes \/ BatchRaises \/ NextBatch \/ Wedge
  \/ Tick \/ StepClock
  \/ Probe \/ RestartContainer

HealthSpec == HealthInit /\ [][HealthNext]_healthVars

(* Time passes, the HTTP thread (a daemon thread of its own) answers, and  *)
(* the platform probes and restarts.  The main thread owes nothing.        *)
HealthFairSpec ==
  HealthSpec /\ WF_healthVars(Tick) /\ WF_healthVars(Probe) /\ WF_healthVars(RestartContainer)

-----------------------------------------------------------------------------
(* While the wall clock is not corrected, a container whose server listens *)
(* is restarted only if, at the last of the failed probes, its runner had  *)
(* been silent for longer than HEALTH_STALE_AFTER_S plus the probes'       *)
(* window: a slow batch, a failed batch or a heartbeat racing a probe      *)
(* never costs more than a failed probe or two.                            *)
RestartNeedsSilence ==
  [][RestartContainer /\ listening /\ clockSteps = 0 =>
       snap.silence > StaleAfter + (FailureThreshold - 1) * ProbePeriod]_healthVars

(* Once a batch has completed, the container cannot stay silent: another   *)
(* batch completes or the container is restarted, however the runner hangs *)
(* and wherever the clock was moved ("Without this, a wedged process       *)
(* ... would keep running forever", docs/HOW_IT_WORKS.md:641).             *)
SilenceEnds == ready ~> silence = 0

(* Claimed by the comment at health_server.py:61 ("Restart only if ... has *)
(* never become ready (likely deadlock)"): a runner that hangs before its  *)
(* first heartbeat is restarted.                                           *)
HungStartIsRestarted == (~ready /\ mainPhase = "wedged") ~> silence = 0

-----------------------------------------------------------------------------
(* The age falls below zero by corrections of the clock only.              *)
AgeAboveSteps == age >= -(ClockStep * clockSteps)

(* A probe that is half-way was due, and not one too many.                 *)
ProbeIsDue == probe = "snapped" => timer = 0 /\ fails < FailureThreshold

(* What RestartNeedsSilence rests on, while the server listens and the     *)
(* clock has not been corrected: the handler's age is the true silence;    *)
(* a probe half-way that is about to fail saw a silence that covers the    *)
(* failures before it; and since the last failure either there was no      *)
(* heartbeat, or too little time has passed to be stale again.             *)
Trusted == listening /\ clockSteps = 0
Covers(s, n) == s >= StaleAfter + 1 + n * ProbePeriod

AgeIsSilence == Trusted /\ ready => age = AtMost(silence, OldAge)

SnapCovers ==
  Trusted /\ probe = "snapped" =>
    /\ Wedged(snap) => Covers(snap.silence, fails)
    /\ silence >= snap.silence \/ silence = 0

FailsCover ==
  Trusted /\ probe = "waiting" /\ fails > 0 =>
    /\ Covers(snap.silence, fails - 1)
    /\ fails < FailureThreshold =>
         \/ silence >= StaleAfter + 1 + (fails - 1) * ProbePeriod + (ProbePeriod - timer)
         \/ silence <= ProbePeriod - timer

HealthIInv == /\ HealthTypeOK /\ AgeAboveSteps /\ ProbeIsDue
        /\ AgeIsSilence /\ SnapCovers /\ FailsCover

=============================================================================
