---------------------------- MODULE PodSimulator ----------------------------
(***************************************************************************)
(* generator/pod_metrics_simulator.py: a daemon thread plays a horizontal  *)
(* pod autoscaler in Prometheus gauges.  The runner feeds it the load; a   *)
(* tick moves the replica count by at most one, rewrites every gauge and   *)
(* may restart pods, whose return is left to one timer each.               *)
(*                                                                         *)
(* A pod stands for its place in _POD_SUFFIXES, its phase for the gauges   *)
(* "Running" and "Pending".  Memory, CPU, OOM and node gauges are numbers  *)
(* nothing reads back, and are left out.                                   *)
(***************************************************************************)
EXTENDS Integers, FiniteSets

CONSTANTS
  MinReplicas, MaxReplicas,   (* HPA_MIN, HPA_MAX                            *)
  StartReplicas,              (* 3                                           *)
  PerReplica,                 (* RPS_PER_REPLICA, in units of 0.1 rps        *)
  StartLoad,                  (* _current_rps, 2.0 rps                       *)
  Signal,                     (* loads the runner reports                    *)
  MaxUpdates                  (* bound: calls of update_load_signal          *)

ASSUME PodAssumption ==
  /\ MinReplicas \in Nat \ {0} /\ MaxReplicas \in Nat
  /\ StartReplicas \in MinReplicas .. MaxReplicas
  /\ PerReplica \in Nat \ {0} /\ StartLoad \in Nat
  /\ Signal \subseteq Nat /\ MaxUpdates \in Nat

Pod      == 1 .. MaxReplicas
Replicas == MinReplicas .. MaxReplicas

VARIABLES
  sim,         (* where the thread is: "off" ... "asleep", or "dead"         *)
  load,        (* _current_rps                                               *)
  updates,
  current,     (* _current_replicas                                          *)
  desired,     (* _desired_replicas                                          *)
  visited,     (* pods the tick's loop is through with                       *)
  phase,       (* kube_pod_status_phase                                      *)
  available,   (* kube_deployment_status_replicas_available                  *)
  timers,      (* armed recovery timers                                      *)
  written      (* history: did this tick write its gauges?  "no": it raised  *)
               (* before; "over": it did, but a timer of the tick before     *)
               (* wrote over them, or a pod's own timer never started        *)

loadVars == <<load, updates>>
hpaVars  == <<current, desired>>
gauges   == <<phase, available>>
vars     == <<sim, loadVars, hpaVars, visited, gauges, timers, written>>

(* A recovery timer remembers its pod and the replica count of the tick    *)
(* that armed it; it is fresh until the next tick begins.                  *)
Timer == [pod : Pod, cur : Replicas, fresh : BOOLEAN]

In(ph) == {p \in Pod : phase[p] = ph}

TypeOK ==
  /\ sim \in {"off", "init", "tick", "scaled", "rebuilt", "pods", "asleep", "dead"}
  /\ load \in Nat /\ updates \in Nat
  /\ current \in Replicas /\ desired \in Replicas
  /\ visited \in 0 .. MaxReplicas
  /\ phase \in [Pod -> {"none", "running", "pending"}]
  /\ available \in 0 .. MaxReplicas
  /\ timers \subseteq Timer
  /\ written \in {"no", "yes", "over"}

Init ==
  /\ sim = "off"
  /\ load = StartLoad /\ updates = 0
  /\ current = StartReplicas /\ desired = StartReplicas
  /\ visited = 0
  /\ phase = [p \in Pod |-> "none"] /\ available = 0
  /\ timers = {} /\ written = "no"

-----------------------------------------------------------------------------
(* The runner's thread.                                                    *)

(* start_simulation: _started makes every later call return at once.       *)
StartSimulation ==
  /\ sim = "off"
  /\ sim' = "init"
  /\ UNCHANGED <<loadVars, hpaVars, visited, gauges, timers, written>>

(* update_load_signal: 0.8 of the old load and 0.2 of the new.             *)
UpdateLoadSignal(rps) ==
  /\ updates < MaxUpdates
  /\ load' = (8 * load + 2 * rps) \div 10
  /\ updates' = updates + 1
  /\ UNCHANGED <<sim, hpaVars, visited, gauges, timers, written>>

-----------------------------------------------------------------------------
(* The simulation thread.                                                  *)

RunningOnly(n) == [p \in Pod |-> IF p <= n THEN "running" ELSE "none"]

(* a bug: phases of pods beyond the first n are left as they are           *)
RebuildOnlyFirst(n) ==
  phase' = [p \in Pod |-> IF p <= n THEN "running" ELSE phase[p]]

(* _rebuild_pods: the first n pods run, all others have no phase.          *)
RebuildPods(n) == phase' = RunningOnly(n)

InitLoop ==
  /\ sim = "init"
  /\ current' = StartReplicas /\ desired' = StartReplicas
  /\ RebuildPods(StartReplicas)
  /\ available' = StartReplicas
  /\ sim' = "tick"
  /\ UNCHANGED <<loadVars, visited, timers, written>>

(* An exception while initialising ends the thread for good.               *)
InitRaises ==
  /\ sim = "init"
  /\ sim' = "dead"
  /\ UNCHANGED <<loadVars, hpaVars, visited, gauges, timers, written>>

Clamp(n) == IF n < MinReplicas THEN MinReplicas
            ELSE IF n > MaxReplicas THEN MaxReplicas ELSE n

(* Python's round(): halves go to the even neighbour.                      *)
Round(a, b) ==
  LET q == (2 * a + b) \div (2 * b)
  IN  IF (2 * a + b) % (2 * b) = 0 /\ q % 2 = 1 THEN q - 1 ELSE q

Wanted == Clamp(Round(load, PerReplica))

(* a bug: the jitter is added after the clamp                              *)
ScaleUnclamped ==
  /\ sim = "tick"
  /\ \E jitter \in {-1, 0, 1} : desired' = Wanted + jitter
  /\ current' = CASE current < desired' -> current + 1
                  [] current > desired' -> current - 1
                  [] OTHER -> current
  /\ sim' = "scaled"
  /\ UNCHANGED <<loadVars, visited, gauges, timers, written>>

(* a bug: the branch that scales down is missing                           *)
ScaleUpOnly ==
  /\ sim = "tick"
  /\ \E jitter \in {-1, 0, 1} : desired' = Clamp(Wanted + jitter)
  /\ current' = IF current < desired' THEN current + 1 ELSE current
  /\ sim' = "scaled"
  /\ UNCHANGED <<loadVars, visited, gauges, timers, written>>

(* a bug: the replica count jumps to the target                            *)
ScaleAtOnce ==
  /\ sim = "tick"
  /\ \E jitter \in {-1, 0, 1} : desired' = Clamp(Wanted + jitter)
  /\ current' = desired'
  /\ sim' = "scaled"
  /\ UNCHANGED <<loadVars, visited, gauges, timers, written>>

(* _tick_body up to the second lock's end.                                 *)
Scale ==
  /\ sim = "tick"
  /\ \E jitter \in {-1, 0, 1} : desired' = Clamp(Wanted + jitter)
  /\ current' = CASE current < desired' -> current + 1
                  [] current > desired' -> current - 1
                  [] OTHER -> current
  /\ sim' = "scaled"
  /\ UNCHANGED <<loadVars, visited, gauges, timers, written>>

(* The phases are rewritten first and the available count after them: a    *)
(* late timer may fall between the two.                                    *)
Rebuild ==
  /\ sim = "scaled"
  /\ RebuildPods(current)
  /\ written' = "yes"
  /\ visited' = 0 /\ sim' = "rebuilt"
  /\ UNCHANGED <<loadVars, hpaVars, available, timers>>

SetAvailable ==
  /\ sim = "rebuilt"
  /\ available' = current
  /\ sim' = "pods"
  /\ UNCHANGED <<loadVars, hpaVars, visited, phase, timers, written>>

Steady ==
  /\ sim = "pods" /\ visited < current
  /\ visited' = visited + 1
  /\ UNCHANGED <<sim, loadVars, hpaVars, gauges, timers, written>>

(* The pod goes to Pending and its timer is armed with this tick's count.  *)
RestartPod ==
  /\ sim = "pods" /\ visited < current
  /\ visited' = visited + 1
  /\ phase' = [phase EXCEPT ![visited'] = "pending"]
  /\ available' = IF current > 1 THEN current - 1 ELSE 1
  /\ timers' = timers \cup {[pod |-> visited', cur |-> current, fresh |-> TRUE]}
  /\ UNCHANGED <<sim, loadVars, hpaVars, written>>

TickEnds ==
  /\ sim = "pods" /\ visited = current
  /\ sim' = "asleep"
  /\ UNCHANGED <<loadVars, hpaVars, visited, gauges, timers, written>>

(* An exception in the tick is logged by _simulate_loop, which sleeps and  *)
(* ticks again; the replica count has already moved.                       *)
TickRaises ==
  /\ sim \in {"scaled", "rebuilt", "pods"}
  /\ sim' = "asleep"
  /\ written' = IF sim = "pods" THEN written ELSE "no"
  /\ UNCHANGED <<loadVars, hpaVars, visited, gauges, timers>>

(* The timer's thread cannot be started: the pod stays Pending until the   *)
(* next tick rebuilds the phases.                                          *)
RestartRaises ==
  /\ sim = "pods" /\ visited < current
  /\ phase' = [phase EXCEPT ![visited + 1] = "pending"]
  /\ available' = IF current > 1 THEN current - 1 ELSE 1
  /\ sim' = "asleep" /\ written' = "over"
  /\ UNCHANGED <<loadVars, hpaVars, visited, timers>>

(* time.sleep(TICK_S) ends.  Timers take 2 s and the sleep 10: a timer is  *)
(* late only when the process was stopped meanwhile, and by no more than   *)
(* one tick.                                                               *)
WakeUp ==
  /\ sim = "asleep"
  /\ \A t \in timers : t.fresh
  /\ timers' = {[t EXCEPT !.fresh = FALSE] : t \in timers}
  /\ sim' = "tick"
  /\ UNCHANGED <<loadVars, hpaVars, visited, gauges, written>>

SimStep ==
  \/ InitLoop \/ InitRaises \/ Scale \/ Rebuild \/ SetAvailable \/ Steady
  \/ RestartPod \/ RestartRaises \/ TickEnds \/ TickRaises \/ WakeUp

-----------------------------------------------------------------------------
(* _schedule_pod_recovery's timers.                                        *)

(* _restore writes what it remembers, whatever the gauges say by now.      *)
Restore(t) ==
  /\ t \in timers
  /\ phase' = [phase EXCEPT ![t.pod] = "running"]
  /\ available' = t.cur
  /\ timers' = timers \ {t}
  /\ written' = IF t.fresh \/ written = "no" THEN written ELSE "over"
  /\ UNCHANGED <<sim, loadVars, hpaVars, visited>>

Next ==
  \/ StartSimulation
  \/ \E rps \in Signal : UpdateLoadSignal(rps)
  \/ SimStep
  \/ \E t \in Timer : Restore(t)

Spec == Init /\ [][Next]_vars

(* The thread is scheduled, its sleeps end, and timers fire.               *)
FairSpec ==
  /\ Spec
  /\ WF_vars(SimStep)
  /\ WF_vars(\E t \in Timer : Restore(t))

-----------------------------------------------------------------------------
(* Properties.                                                             *)

(* Whatever happened before, each tick that writes its gauges makes them   *)
(* agree again: between ticks the running pods are among the first         *)
(* `current`, the pending ones are those whose timer is out, and once the  *)
(* timers are in, all of `current` run and are counted available.  A timer *)
(* that outlives its tick spoils this until the next one, no longer.       *)
GaugesAgree ==
  sim = "asleep" /\ written = "yes" =>
    /\ In("running") \cup In("pending") = 1 .. current
    /\ In("pending") = {t.pod : t \in {u \in timers : u.fresh}}
    /\ available \in {current - 1, current}
    /\ timers = {} => available = current

(* A timer that fires after the next tick has begun writes a pod and a     *)
(* count of the tick before over the new ones (_restore's `pod` and        *)
(* `cur`), and a timer that cannot be started leaves its pod pending.  As  *)
(* a tick moves the replica count by one, neither does more harm than one  *)
(* pod shown beyond `current` and a count one off, until the next tick.    *)
LateTimersAreOffByOne ==
  sim = "asleep" /\ written # "no" =>
    /\ In("running") \cup In("pending") \in {1 .. current, 1 .. current + 1}
    /\ available \in current - 1 .. current + 1

(* Under a load that no longer changes the replica count comes within one  *)
(* of what the load asks for and stays there, although every tick aims at  *)
(* a target moved by chance (raw_desired's jitter, one step per tick).     *)
ReplicasFollowLoad ==
  <>[](sim \in {"tick", "scaled", "rebuilt", "pods", "asleep"} =>
         current \in Wanted - 1 .. Wanted + 1)

-----------------------------------------------------------------------------
(* The inductive invariant: a timer is of the current count or, once late, *)
(* of one next to it; the gauges of a tick are right from the moment they  *)
(* are written on, and no more than one off whatever the timers do.        *)

TimersNear ==
  /\ sim \in {"off", "init", "dead"} => timers = {}
  /\ \A t \in timers :
       /\ t.pod <= t.cur
       /\ t.cur \in current - 1 .. current + 1
       /\ sim = "tick" \/ t.fresh => t.cur = current
       /\ t.fresh => sim \in {"pods", "asleep"}

PhasesClose ==
  /\ sim \in {"rebuilt", "pods"} => written # "no"
  /\ sim \in {"rebuilt", "pods", "asleep"} /\ written # "no" =>
       \A p \in Pod : /\ p <= current => phase[p] # "none"
                      /\ p > current + 1 => phase[p] = "none"

AvailableClose ==
  sim \in {"pods", "asleep"} /\ written # "no" => available \in current - 1 .. current + 1

PodsInStep ==
  sim \in {"rebuilt", "pods", "asleep"} /\ written = "yes" =>
    /\ In("running") \cup In("pending") = 1 .. current
    /\ \A p \in Pod : phase[p] = "pending" <=> \E t \in timers : t.fresh /\ t.pod = p

AvailableInStep ==
  sim \in {"pods", "asleep"} /\ written = "yes" =>
    \/ available = current
    \/ available = current - 1 /\ \E t \in timers : t.fresh

IInv ==
  /\ TypeOK /\ TimersNear
  /\ PhasesClose /\ AvailableClose
  /\ PodsInStep /\ AvailableInStep

=============================================================================
