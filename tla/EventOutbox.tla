----------------------------- MODULE EventOutbox -----------------------------
(***************************************************************************)
(* What EventHubPublisher promises its callers, without the retry loop,    *)
(* the backoff, the polls and the delivery reports: a publish call puts    *)
(* one copy of its envelope into the outbox and says yes, or puts none and *)
(* says no; from the outbox a copy reaches the broker or is given up.      *)
(***************************************************************************)
EXTENDS Naturals

CONSTANTS
  Envelope,   (* the envelopes callers publish                              *)
  Attempt     (* labels that would tell copies of one envelope apart        *)

VARIABLES
  strict,     (* mock mode is forbidden                                     *)
  answer,     (* per envelope: "new", "open" during the call, "yes", "no"   *)
  mocked,     (* envelopes printed instead of sent                          *)
  outbox,     (* copies taken over for delivery                             *)
  stored,     (* copies that reached the broker                             *)
  failed      (* copies reported as undeliverable                           *)

outboxVars == <<strict, answer, mocked, outbox, stored, failed>>

HasCopy(e) == \E m \in outbox : m[1] = e

Init ==
  /\ strict \in BOOLEAN
  /\ answer = [e \in Envelope |-> "new"]
  /\ mocked = {} /\ outbox = {} /\ stored = {} /\ failed = {}

Begin(e) ==
  /\ answer[e] = "new"
  /\ answer' = [answer EXCEPT ![e] = "open"]
  /\ UNCHANGED <<strict, mocked, outbox, stored, failed>>

(* At most once per envelope, and only while its call is open.             *)
Accept(e, a) ==
  /\ answer[e] = "open" /\ ~HasCopy(e)
  /\ outbox' = outbox \cup {<<e, a>>}
  /\ UNCHANGED <<strict, answer, mocked, stored, failed>>

Confirm(e) ==
  /\ answer[e] = "open" /\ HasCopy(e)
  /\ answer' = [answer EXCEPT ![e] = "yes"]
  /\ UNCHANGED <<strict, mocked, outbox, stored, failed>>

Decline(e) ==
  /\ answer[e] = "open" /\ ~HasCopy(e)
  /\ answer' = [answer EXCEPT ![e] = "no"]
  /\ UNCHANGED <<strict, mocked, outbox, stored, failed>>

PrintOnly(e) ==
  /\ ~strict
  /\ answer[e] = "new"
  /\ answer' = [answer EXCEPT ![e] = "yes"]
  /\ mocked' = mocked \cup {e}
  /\ UNCHANGED <<strict, outbox, stored, failed>>

Store(m) ==
  /\ m \in outbox \ failed
  /\ stored' = stored \cup {m}
  /\ UNCHANGED <<strict, answer, mocked, outbox, failed>>

GiveUp(m) ==
  /\ m \in outbox
  /\ failed' = failed \cup {m}
  /\ UNCHANGED <<strict, answer, mocked, outbox, stored>>

Next ==
  \/ \E e \in Envelope :
       \/ Begin(e) \/ Confirm(e) \/ Decline(e) \/ PrintOnly(e)
       \/ \E a \in Attempt : Accept(e, a)
  \/ \E m \in outbox : Store(m) \/ GiveUp(m)

Spec == Init /\ [][Next]_outboxVars

=============================================================================
