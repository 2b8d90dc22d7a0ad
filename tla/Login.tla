------------------------------- MODULE Login --------------------------------
(***************************************************************************)
(* server/main.py: the login form, its rate limiter, the session table and *)
(* the gate in front of every page.                                        *)
(*                                                                         *)
(* All of it lives in the memory of one process.  A handler runs to its    *)
(* next await without interruption; login_submit() awaits the body of the  *)
(* request, and api_enroll() the registry, between asking the limiter and  *)
(* noting a failure with it, and other requests run in between.            *)
(*                                                                         *)
(* A failure counts for a while and then no longer, a session is valid     *)
(* for a while and then overdue; neither time is spelled out, and neither  *)
(* the password nor a path is: a body is right or wrong, a path public or  *)
(* private, open or guarded.  http.password is set (without one every page *)
(* is served and no login succeeds); a script that sends it with every     *)
(* request needs no session, and is left out.                              *)
(***************************************************************************)
EXTENDS Integers, FiniteSets

CONSTANTS
  Keys,          \* what client_key() tells apart
  Requests,      \* requests in flight at a time (model bound)
  Sids,          \* session ids of a behaviour, each drawn once (model bound)
  MaxAttempts,   \* http.max_attempts
  TwoListeners   \* http.private_port is set

Idle == <<"idle">>
None == <<>>     \* no session

ASSUME LoginAssumption ==
  /\ IsFiniteSet(Requests)
  /\ MaxAttempts \in Nat \ {0}
  /\ TwoListeners \in BOOLEAN
  /\ None \notin Sids

VARIABLES
  request,    \* [Requests -> {Idle} \cup Working]: past the limiter, awaiting
  attempts,   \* [Keys -> Nat]: failures in ATTEMPTS younger than the window
  sessions,   \* [Sids -> {"absent", "valid", "overdue"}]: SESSIONS
  issued,     \* SUBSET Sids: ids that new_session() has drawn
  ended,      \* SUBSET Sids: logged out, overdue, or lost in a restart (history)
  served      \* the session a guarded page was just served to (history)

table == <<sessions, issued, ended>>
vars  == <<request, attempts, table, served>>

Working == {"login", "enroll"} \X Keys

-----------------------------------------------------------------------------
(* The limiter *)

\* Mutant of Limited: one failure more is let through.
LimitedLate(k) == attempts[k] > MaxAttempts

\* rate_limited().
Limited(k) == attempts[k] >= MaxAttempts

\* Mutant of Refused: an attempt that is refused counts as a failure.
RefusedCounts(k) == attempts' = [attempts EXCEPT ![k] = @ + 1]

\* An attempt that is refused leaves no trace.
Refused(k) == UNCHANGED attempts

\* login_submit() and api_enroll() ask first.  The form is public, api_enroll()
\* answers on the private listener alone, and neither asks for a session.
Arrives(r, kind, k) ==
  /\ request[r] = Idle
  /\ IF Limited(k)
       THEN Refused(k) /\ UNCHANGED request
       ELSE request' = [request EXCEPT ![r] = <<kind, k>>] /\ UNCHANGED attempts
  /\ served' = None
  /\ UNCHANGED table

\* note_failure(): a password, or the token of an enrollment, is wrong.
Fails(r) ==
  /\ request[r] # Idle
  /\ request' = [request EXCEPT ![r] = Idle]
  /\ attempts' = [attempts EXCEPT ![request[r][2]] = @ + 1]
  /\ served' = None
  /\ UNCHANGED table

\* The client goes before its body is complete; an enrollment succeeds, which
\* forgives nothing, or its statement fails.
Leaves(r) ==
  /\ request[r] # Idle
  /\ request' = [request EXCEPT ![r] = Idle]
  /\ served' = None
  /\ UNCHANGED <<attempts, table>>

\* The oldest failure of k is as old as the window.
Forgets(k) ==
  /\ attempts[k] > 0
  /\ attempts' = [attempts EXCEPT ![k] = @ - 1]
  /\ served' = None
  /\ UNCHANGED <<request, table>>

-----------------------------------------------------------------------------
(* Sessions *)

\* new_session(): the new one is entered and the overdue ones go.
Sweep(s) ==
  [t \in Sids |-> IF t = s THEN "valid"
                  ELSE IF sessions[t] = "overdue" THEN "absent" ELSE sessions[t]]

\* login_submit() with the right password: the failures of the key are forgiven.
Succeeds(r) ==
  /\ request[r] # Idle /\ request[r][1] = "login"
  /\ request' = [request EXCEPT ![r] = Idle]
  /\ attempts' = [attempts EXCEPT ![request[r][2]] = 0]
  /\ \E s \in Sids \ issued :
       /\ sessions' = Sweep(s)
       /\ issued' = issued \cup {s}
  /\ served' = None
  /\ UNCHANGED ended

\* What session_ok() leaves: an overdue session is removed when it is presented.
Checked(s) ==
  IF sessions[s] = "overdue" THEN [sessions EXCEPT ![s] = "absent"] ELSE sessions

\* Mutant of Honoured: the expiry is not looked at.
HonouredPresent(s) == sessions[s] # "absent"

\* session_ok().
Honoured(s) == sessions[s] = "valid"

\* gate_and_meter() and ws_authed(): a private path is not there for the public
\* listener, and a guarded one asks for a session.
Asks(private, publicly, s) ==
  /\ IF private /\ publicly /\ TwoListeners
       THEN served' = None /\ UNCHANGED sessions
       ELSE /\ sessions' = Checked(s)
            /\ served' = IF Honoured(s) THEN s ELSE None
  /\ UNCHANGED <<request, attempts, issued, ended>>

Logout(s) ==
  /\ sessions[s] # "absent"
  /\ sessions' = [sessions EXCEPT ![s] = "absent"]
  /\ ended' = ended \cup {s}
  /\ served' = None
  /\ UNCHANGED <<request, attempts, issued>>

\* session_days are over.
Expires(s) ==
  /\ sessions[s] = "valid"
  /\ sessions' = [sessions EXCEPT ![s] = "overdue"]
  /\ ended' = ended \cup {s}
  /\ served' = None
  /\ UNCHANGED <<request, attempts, issued>>

\* A new process has no failures and no sessions.
Restart ==
  /\ request' = [r \in Requests |-> Idle]
  /\ attempts' = [k \in Keys |-> 0]
  /\ sessions' = [s \in Sids |-> "absent"]
  /\ ended' = issued
  /\ served' = None
  /\ UNCHANGED issued

Init ==
  /\ request = [r \in Requests |-> Idle]
  /\ attempts = [k \in Keys |-> 0]
  /\ sessions = [s \in Sids |-> "absent"]
  /\ issued = {} /\ ended = {}
  /\ served = None

Next ==
  \/ \E r \in Requests :
       \/ \E kind \in {"login", "enroll"}, k \in Keys : Arrives(r, kind, k)
       \/ Fails(r) \/ Leaves(r) \/ Succeeds(r)
  \/ \E s \in Sids :
       \/ \E private, publicly \in BOOLEAN : Asks(private, publicly, s)
       \/ Logout(s) \/ Expires(s)
  \/ \E k \in Keys : Forgets(k)
  \/ Restart

\* Time goes on.
Fairness == \A k \in Keys : WF_vars(Forgets(k))

Spec     == Init /\ [][Next]_vars
FairSpec == Spec /\ Fairness

-----------------------------------------------------------------------------
(* Properties *)

\* The types, and only an id that was drawn is in the table.
TypeOK ==
  /\ request \in [Requests -> {Idle} \cup Working]
  /\ attempts \in [Keys -> Nat]
  /\ sessions \in [Sids -> {"absent", "valid", "overdue"}]
  /\ issued \subseteq Sids /\ ended \subseteq issued
  /\ served \in Sids \cup {None}
  /\ \A s \in Sids : sessions[s] # "absent" => s \in issued

\* However the requests of a key overlap, the failures noted against it within a
\* window stay below max_attempts plus the requests that were let in together
\* (rate_limited and note_failure are an await apart; README.md:382).
LimiterHolds ==
  \A k \in Keys : attempts[k] < MaxAttempts + Cardinality(Requests)

\* A page is never served to a session that was logged out, is overdue or was lost
\* in a restart, and never to one that no login began.
EndedStaysOut == served # None => served \in issued \ ended

\* A key that is locked out is let in again, however often it was refused: refusals
\* do not count.
LockoutEnds == \A k \in Keys : Limited(k) ~> ~Limited(k)

\* The reason LimiterHolds holds: an attempt that was let in is counted from then on
\* as if it had failed.
LetIn(k) == {r \in Requests : request[r] # Idle /\ request[r][2] = k}
LimiterInv ==
  \A k \in Keys :
    attempts[k] + Cardinality(LetIn(k)) < MaxAttempts + Cardinality(Requests)

\* The reason EndedStaysOut holds: what session_ok() finds valid has not ended.
ValidInv == \A s \in Sids : sessions[s] = "valid" => s \in issued \ ended

IInv == TypeOK /\ LimiterInv /\ ValidInv /\ EndedStaysOut
=============================================================================
