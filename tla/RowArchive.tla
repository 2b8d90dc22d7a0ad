----------------------------- MODULE RowArchive -----------------------------
(***************************************************************************)
(* What the archival layer promises for one stream of rows, whatever       *)
(* deques, batches and retries are behind it (server/history.py:1-8).      *)
(* Rows are numbered in the order they were accepted.  A row is archived   *)
(* or given up, for good; rows are archived in the order they arrived; and *)
(* no row waits forever.  Shutdown may leave one statement to itself: its  *)
(* rows, the oldest then waiting, are archived late or never, and only     *)
(* they can be overtaken.                                                  *)
(***************************************************************************)
EXTENDS Naturals

CONSTANT Row            \* the rows this stream may accept

VARIABLES
  accepted,             \* rows accepted so far: 1..accepted
  waiting,              \* accepted rows not yet archived or given up
  archived,             \* rows PostgreSQL has
  adrift,               \* rows of the statement that shutdown left to itself
  closing               \* shutdown has begun

vars == <<accepted, waiting, archived, adrift, closing>>

Init ==
  /\ accepted \in Nat
  /\ waiting = 1..accepted
  /\ archived = {}
  /\ adrift = {}
  /\ closing = FALSE

\* Rows may be accepted, archived and given up in one step: a synchronous
\* stretch of the server does all three.
Next ==
  LET arrived == (accepted + 1)..accepted'
      newly   == archived' \ archived
  IN /\ accepted <= accepted'
     /\ archived \subseteq archived'
     /\ newly \subseteq waiting \cup arrived \cup adrift
     /\ waiting' \subseteq (waiting \cup arrived) \ archived'
     /\ \A n \in newly \cup adrift', w \in waiting' : n < w
     /\ closing => closing'
     /\ adrift' \subseteq (IF closing' = closing THEN adrift ELSE waiting) \ archived'

\* No accepted row waits forever.
Progress == \A n \in Row : n \in waiting ~> n \notin waiting

\* What a step may never do, and what must happen in the end.
Safety == Init /\ [][Next]_vars
Spec   == Safety /\ Progress

=============================================================================
