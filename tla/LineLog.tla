------------------------------- MODULE LineLog -------------------------------
(***************************************************************************)
(* What the log store promises a caller, without its threads, transactions *)
(* and publisher: a line is taken into a bounded line of waiting ones or   *)
(* refused, once; waiting lines are settled first come first served, each  *)
(* written or lost; the log grows at its end and shrinks only by age.      *)
(***************************************************************************)
EXTENDS Integers, Sequences

CONSTANTS
  Item,       (* [line, day]: what a caller hands over                       *)
  Cap,        (* how many may wait behind the one being written              *)
  Cutoff      (* days before which lines may be aged out                     *)

VARIABLES
  seen,       (* lines taken or refused                                      *)
  waiting,    (* taken and not yet settled, oldest first                     *)
  written,    (* how many have been written                                  *)
  log         (* those not yet aged out, by their number                     *)

lineVars == <<seen, waiting, written, log>>

Init == seen = {} /\ waiting = <<>> /\ written = 0 /\ log = <<>>

Take(i) ==
  /\ i.line \notin seen /\ Len(waiting) <= Cap
  /\ seen' = seen \cup {i.line}
  /\ waiting' = Append(waiting, i)
  /\ UNCHANGED <<written, log>>

(* Only when the waiting room is full.                                     *)
Refuse(i) ==
  /\ i.line \notin seen /\ Len(waiting) >= Cap
  /\ seen' = seen \cup {i.line}
  /\ UNCHANGED <<waiting, written, log>>

Write ==
  /\ waiting # <<>>
  /\ written' = written + 1
  /\ log' = [k \in DOMAIN log \cup {written'} |->
               IF k = written' THEN Head(waiting) ELSE log[k]]
  /\ waiting' = Tail(waiting)
  /\ UNCHANGED seen

Lose ==
  /\ waiting # <<>>
  /\ waiting' = Tail(waiting)
  /\ UNCHANGED <<seen, written, log>>

Age(d) ==
  /\ log' = [k \in {n \in DOMAIN log : log[n].day >= d} |-> log[k]]
  /\ UNCHANGED <<seen, waiting, written>>

(* The process ends: what waits is gone, what is written stays.            *)
Crash ==
  /\ waiting' = <<>>
  /\ UNCHANGED <<seen, written, log>>

Next ==
  \/ \E i \in Item : Take(i) \/ Refuse(i)
  \/ \E d \in Cutoff : Age(d)
  \/ Write \/ Lose \/ Crash

Spec == Init /\ [][Next]_lineVars

=============================================================================
