------------------------------- MODULE Roster -------------------------------
(***************************************************************************)
(* What the dashboard promises its pages, whatever maps of revisions,      *)
(* pushes and failed sends are behind it (server/main.py:246-251): a page  *)
(* shows of every robot some revision it has had, never an older one after *)
(* a newer one; while the page is open every change is due to it from the  *)
(* moment it happens until the page shows it; and nothing stays due.       *)
(***************************************************************************)
EXTENDS Naturals

CONSTANTS
  Robots,
  Pages,
  Revisions    \* of a robot, as far as they are looked at

VARIABLES
  rev,         \* [Robots -> Nat]: the present revision; zero: not yet known
  open,        \* SUBSET Pages
  shown,       \* [Pages -> [Robots -> Nat]]
  due          \* [Pages -> SUBSET (Robots \X Revisions)]

vars == <<rev, open, shown, due>>

Init ==
  /\ rev \in [Robots -> Revisions \cup {0}]
  /\ open = {}
  /\ shown = [p \in Pages |-> [r \in Robots |-> 0]]
  /\ due = [p \in Pages |-> {}]

\* Pages open and close, robots change and pages are updated, in any order or at once.
\* A page that opens may owe something at once; one that closes is owed nothing.
Next ==
  /\ \A r \in Robots : rev[r] <= rev'[r]
  /\ \A p \in Pages, r \in Robots :
       shown[p][r] <= shown'[p][r] /\ shown'[p][r] <= rev'[r]
  /\ \A p \in open \cap open', r \in Robots, n \in Revisions :
       /\ <<r, n>> \in due[p] \ due'[p] => shown'[p][r] >= n
       /\ rev[r] < n /\ n <= rev'[r] => <<r, n>> \in due'[p] \/ shown'[p][r] >= n
  /\ \A p \in Pages \ open' : due'[p] = {}

\* What is due is shown in the end, or the page closes.
Progress == \A p \in Pages, r \in Robots, n \in Revisions :
              <<r, n>> \in due[p] ~> <<r, n>> \notin due[p]

\* What a step may never do, and what must happen in the end.
Safety == Init /\ [][Next]_vars
Spec   == Safety /\ Progress

=============================================================================
