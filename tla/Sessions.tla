------------------------------ MODULE Sessions ------------------------------
(***************************************************************************)
(* generator/synthetic_generator.py: the sessions and users behind the     *)
(* events.  generate_event continues one of the client's active sessions   *)
(* or opens a new one (_get_or_create_session), and later asks for the     *)
(* user of that session (_user_for_session).  One thread does all of it.   *)
(*                                                                         *)
(* Sessions are numbered in the order of their creation and stand for      *)
(* uuids.  The user map is a sequence of <<session, user>> pairs, oldest   *)
(* first, as a Python dict iterates.                                       *)
(***************************************************************************)
EXTENDS ClientProfiles, Naturals, SequencesExt

CONSTANTS
  User,         (* the user pool of a department                             *)
  NoUser,       (* "no event of this session yet"                            *)
  MaxActive,    (* active sessions a client may have: 50 in the code         *)
  MaxUsers,     (* entries of the user map: 20 000 in the code               *)
  MaxTurns,     (* bound: the largest max_turns drawn                        *)
  MaxSessions   (* bound: sessions opened over the whole behaviour           *)

ASSUME SessionsAssumption ==
  /\ Client # {} /\ User # {} /\ NoUser \notin User
  /\ MaxActive \in Nat \ {0} /\ MaxUsers \in Nat \ {0}
  /\ MaxTurns \in Nat /\ MaxTurns >= 2 /\ MaxSessions \in Nat

VARIABLES
  opened,      (* how many sessions there have been                          *)
  active,      (* _active_sessions: per client, oldest first                 *)
  turns,       (* _session_turn_counts                                       *)
  meta,        (* max_turns of _session_meta                                 *)
  userOf,      (* _session_user                                              *)
  latest,      (* the last event: its client, session, turn, user            *)
  history,     (* per session, turn, limit and user of its last event        *)
  evicted      (* sessions whose entry the cap on the user map removed       *)

books       == <<active, turns, meta, userOf>>
sessionVars == <<opened, books, latest, history, evicted>>

Session == 1 .. MaxSessions
InUse(c) == Range(active[c])
HasUser(map, s) == \E i \in DOMAIN map : map[i][1] = s
EntryOf(map, s) == CHOOSE i \in DOMAIN map : map[i][1] = s
UserIn(map, s) == map[EntryOf(map, s)][2]

SessionTypeOK ==
  /\ opened \in 0 .. MaxSessions
  /\ active \in [Client -> Seq(Session)]
  /\ DOMAIN turns \subseteq Session /\ Range(turns) \subseteq 1 .. MaxTurns
  /\ DOMAIN meta \subseteq Session /\ Range(meta) \subseteq 2 .. MaxTurns
  /\ userOf \in Seq(Session \X User) /\ Len(userOf) <= MaxUsers
  /\ latest \in [client : Client, session : 0 .. MaxSessions,
                 turn : 0 .. MaxTurns, of : 0 .. MaxTurns, user : User \cup {NoUser}]
  /\ history \in [Session -> [turn : 0 .. MaxTurns, of : 0 .. MaxTurns,
                              user : User \cup {NoUser}]]
  /\ evicted \subseteq Session

NoEvents == [turn |-> 0, of |-> 0, user |-> NoUser]

SessionInit ==
  /\ opened = 0
  /\ active = [c \in Client |-> <<>>]
  /\ turns = <<>> /\ meta = <<>> /\ userOf = <<>>
  /\ \E c \in Client :
       latest = [client |-> c, session |-> 0, turn |-> 0, of |-> 0, user |-> NoUser]
  /\ history = [s \in Session |-> NoEvents]
  /\ evicted = {}

-----------------------------------------------------------------------------
(* dict[s] = v, dict.pop(s, None) for s in S, the latter for the map that  *)
(* keeps its order, and list.remove(s).                                    *)
With(f, s, v) == [t \in DOMAIN f \cup {s} |-> IF t = s THEN v ELSE f[t]]
Without(f, S) == Restrict(f, DOMAIN f \ S)
Forget(map, s) == IF HasUser(map, s) THEN RemoveAt(map, EntryOf(map, s)) ELSE map
PlaceOf(list, s) ==
  CHOOSE i \in DOMAIN list : list[i] = s /\ \A k \in 1 .. i - 1 : list[k] # s

Emit(c, s, turn, of, u) ==
  /\ latest' = [client |-> c, session |-> s, turn |-> turn, of |-> of, user |-> u]
  /\ history' = [history EXCEPT ![s] = [turn |-> turn, of |-> of, user |-> u]]

(* a bug: a user is drawn for every event and overwrites the stored one    *)
UserDrawnAnew(c, s, turn, of, map) ==
  \E u \in User :
    /\ userOf' = IF HasUser(map, s) \/ Len(map) = MaxUsers THEN map
                 ELSE Append(map, <<s, u>>)
    /\ UNCHANGED evicted
    /\ Emit(c, s, turn, of, u)

(* _user_for_session on the map as it then is: the stored user, or a draw  *)
(* from the pool that is stored, at the price of the oldest entry once the *)
(* map is over its cap.  The event is built right after.                   *)
UserForSession(c, s, turn, of, map) ==
  \/ /\ HasUser(map, s)
     /\ userOf' = map
     /\ UNCHANGED evicted
     /\ Emit(c, s, turn, of, UserIn(map, s))
  \/ /\ ~HasUser(map, s)
     /\ \E u \in User :
          LET all == Append(map, <<s, u>>)
              over == Len(all) > MaxUsers
          IN  /\ userOf' = IF over THEN Tail(all) ELSE all
              /\ evicted' = IF over THEN evicted \cup {Head(all)[1]} ELSE evicted
              /\ Emit(c, s, turn, of, u)

(* A turn that leaves the session active, and a turn that closes it        *)
(* (_close_session) before its user is looked up.                          *)
NextTurn(c, s) ==
  /\ turns' = With(turns, s, turns[s] + 1)
  /\ UserForSession(c, s, turns[s] + 1, meta[s], userOf)
  /\ UNCHANGED <<active, meta>>

LastTurn(c, s) ==
  /\ active' = [active EXCEPT ![c] = RemoveAt(@, PlaceOf(@, s))]
  /\ turns' = Without(turns, {s})
  /\ meta' = Without(meta, {s})
  /\ UserForSession(c, s, turns[s] + 1, meta[s], Forget(userOf, s))

(* a bug: ">" for ">=", so that a session lives one turn too long          *)
ContinueOnceMore(c) ==
  /\ \E s \in InUse(c) : IF turns[s] + 1 > meta[s] THEN LastTurn(c, s) ELSE NextTurn(c, s)
  /\ UNCHANGED opened

(* Continue an active session.                                             *)
Continue(c) ==
  /\ \E s \in InUse(c) : IF turns[s] + 1 >= meta[s] THEN LastTurn(c, s) ELSE NextTurn(c, s)
  /\ UNCHANGED opened

(* a bug: the oldest session leaves the list and nothing else              *)
OpenDropsOldest(c) ==
  /\ opened < MaxSessions
  /\ opened' = opened + 1
  /\ active' = [active EXCEPT ![c] =
                  IF Len(@) = MaxActive THEN Append(Tail(@), opened') ELSE Append(@, opened')]
  /\ \E limit \in 2 .. MaxTurns :
       /\ meta' = With(meta, opened', limit)
       /\ turns' = With(turns, opened', 1)
       /\ UserForSession(c, opened', 1, limit, userOf)

(* a bug: the user of a session closed by the cap is kept                  *)
OpenKeepsUser(c) ==
  /\ opened < MaxSessions
  /\ opened' = opened + 1
  /\ LET over == Len(active[c]) >= MaxActive
         closed == IF over THEN {Head(active[c])} ELSE {}
     IN  /\ active' = [active EXCEPT ![c] =
                         Append(IF over THEN Tail(@) ELSE @, opened')]
         /\ \E limit \in 2 .. MaxTurns :
              /\ meta' = With(Without(meta, closed), opened', limit)
              /\ turns' = With(Without(turns, closed), opened', 1)
              /\ UserForSession(c, opened', 1, limit, userOf)

(* Open a session.  Over the client's cap the oldest one is closed.        *)
Open(c) ==
  /\ opened < MaxSessions
  /\ opened' = opened + 1
  /\ LET over == Len(active[c]) >= MaxActive
         closed == IF over THEN {Head(active[c])} ELSE {}
     IN  /\ active' = [active EXCEPT ![c] =
                         Append(IF over THEN Tail(@) ELSE @, opened')]
         /\ \E limit \in 2 .. MaxTurns :
              /\ meta' = With(Without(meta, closed), opened', limit)
              /\ turns' = With(Without(turns, closed), opened', 1)
              /\ UserForSession(c, opened', 1, limit,
                               IF over THEN Forget(userOf, Head(active[c])) ELSE userOf)

SessionNext == \E c \in Client : Continue(c) \/ Open(c)

SessionSpec == SessionInit /\ [][SessionNext]_sessionVars

-----------------------------------------------------------------------------
(* The four tables agree: what has a turn count or a limit is active with  *)
(* exactly one client, and no client has more sessions than the cap        *)
(* (_close_session clears all four, on the last turn and on eviction).     *)
BooksAgree ==
  /\ DOMAIN turns = DOMAIN meta
  /\ DOMAIN turns = UNION {InUse(c) : c \in Client}
  /\ \A c \in Client : Len(active[c]) = Cardinality(InUse(c))
                       /\ Len(active[c]) <= MaxActive
  /\ \A c, d \in Client : c # d => InUse(c) \cap InUse(d) = {}

(* Events of a session carry turns 1, 2, 3, ... without a gap or a repeat  *)
(* up to its limit, across any interleaving of sessions and evictions: a   *)
(* closed session never speaks again (docs/semantic-conventions.md:71).    *)
TurnsAreConsecutive ==
  [][ /\ latest'.turn = history[latest'.session].turn + 1
      /\ latest'.turn <= latest'.of ]_<<latest, history>>

(* A session's events change their user only on its last turn, or after    *)
(* the cap on the user map took its entry away (_user_for_session).        *)
UserChangesOnlyAtTheEnd ==
  [][ history[latest'.session].turn > 0 /\ latest'.user # history[latest'.session].user
        => latest'.turn = latest'.of \/ latest'.session \in evicted ]_<<latest, history>>

(* An entry of the user map is of an active session or was written by the  *)
(* last turn of a session that had just been closed, with the user of the  *)
(* session's last event: sessions closed by the cap leave nothing behind   *)
(* (_close_session, _user_for_session).                                    *)
OnlyFinishedLinger ==
  \A i \in DOMAIN userOf :
    LET s == userOf[i][1]
    IN  /\ s \in DOMAIN turns \/ history[s].turn = history[s].of
        /\ UserIn(userOf, s) = history[s].user

(* Claimed by the comment at synthetic_generator.py:397 ("stable for the   *)
(* session"): all events of a session have one user.                       *)
UserIsStable ==
  [][ history[latest'.session].turn > 0
        => latest'.user = history[latest'.session].user ]_<<latest, history>>

-----------------------------------------------------------------------------
(* The inductive invariant.  A session is in its client's list once and    *)
(* has one entry in the user map at most; session numbers not yet handed   *)
(* out are nowhere; what the last event said of an active session is what  *)
(* the tables hold, and there is a turn left; and an active session has a  *)
(* user unless the cap on the user map took it.                            *)
KeysDiffer(map) == \A i, k \in DOMAIN map : i # k => map[i][1] # map[k][1]

ListedOnce == \A c \in Client : \A i, k \in DOMAIN active[c] :
                i # k => active[c][i] # active[c][k]

FutureIsBlank ==
  /\ \A s \in DOMAIN turns : s <= opened
  /\ \A i \in DOMAIN userOf : userOf[i][1] <= opened
  /\ \A s \in Session : s > opened => history[s] = NoEvents

HistoryIsCurrent ==
  \A s \in DOMAIN turns :
    history[s].turn = turns[s] /\ history[s].of = meta[s] /\ turns[s] < meta[s]

ActiveHasUser == \A s \in DOMAIN turns : HasUser(userOf, s) \/ s \in evicted

SessionIInv ==
  /\ SessionTypeOK /\ BooksAgree /\ OnlyFinishedLinger
  /\ ListedOnce /\ KeysDiffer(userOf) /\ FutureIsBlank
  /\ HistoryIsCurrent /\ ActiveHasUser

=============================================================================
