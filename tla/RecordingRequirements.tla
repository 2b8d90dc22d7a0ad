------------------------ MODULE RecordingRequirements ------------------------
(***************************************************************************)
(* What a vehicle promises about its recordings and subscriptions,         *)
(* whatever its threads, errors and restarts.  Recording is the mechanism; *)
(* this is its state and what may be said of it.                           *)
(***************************************************************************)
EXTENDS Naturals, Sequences, FiniteSets

CONSTANTS
  Topics,
  Wanted,      \* topics that include, exclude and SKIP_TYPES let through
  Offered,     \* QoS that publishers offer
  RotateAt,    \* rotate_mb, in lines
  MaxSize,     \* max_gb, in lines
  MaxFiles     \* model bound

None     == <<>>    \* no topic
Threads  == {"start", "spin"}

Profiles == [reliable : BOOLEAN, lasting : BOOLEAN]

\* What _discover() has in hand: a topic, the QoS it takes, and what the publishers
\* that it saw offer (the last is history).
Looked == Topics \X Profiles \X SUBSET Offered

ASSUME RecordingAssumption ==
  /\ Wanted \subseteq Topics /\ Offered \subseteq Profiles
  /\ RotateAt \in Nat \ {0} /\ MaxSize \in Nat /\ MaxFiles \in Nat

VARIABLES
  phase,      \* where the agent is: "up", "joining", "stopped", "off"
  spinning,   \* the thread of _spin() runs
  listed,     \* SUBSET Topics: names on the ROS graph
  pubs,       \* [Topics -> SUBSET Offered]: what the publishers there offer
  scan,       \* [Threads -> SUBSET Topics]: names a _discover() has yet to look at
  at,         \* [Threads -> Looked \cup {None}]: looked at, not yet subscribed to
  subs,       \* [Topics -> Seq(Profiles)]: subscriptions the node holds
  seen,       \* [Topics -> SUBSET SUBSET Offered]: what the publishers offered that were
              \* seen for the subscriptions of subs (history)
  files,      \* Seq(Nat): sizes of the recordings, the oldest first
  writing,    \* the last file is open
  disabled,   \* Recorder._disabled
  found       \* what the agent found in the directory when it was started, 0 when it
              \* has pruned it since (history)

\* ROS 2 connects a publisher with a subscription that asks for no more.
Connects(p, q) == (q.reliable => p.reliable) /\ (q.lasting => p.lasting)

\* p offers no less than o.
Offers(p, o) == (o.reliable => p.reliable) /\ (o.lasting => p.lasting)

Larger(a, b) == IF a < b THEN b ELSE a

\* Some subscription of t hears the publisher p.
Hears(t, p) == \E i \in DOMAIN subs[t] : Connects(p, subs[t][i])

\* The lines of the recordings s, one by one, and how many there are.
Lines(s) == UNION {{i} \X (1..s[i]) : i \in 1..Len(s)}
Total(s) == Cardinality(Lines(s))

\* The types; a topic is subscribed to at most twice, by the two threads that looked
\* before either had subscribed, however often the agent scans.
TypeOK ==
  /\ phase \in {"up", "joining", "stopped", "off"}
  /\ spinning \in BOOLEAN
  /\ listed \subseteq Topics
  /\ scan \in [Threads -> SUBSET Topics]
  /\ pubs \in [Topics -> SUBSET Offered]
  /\ seen \in [Topics -> SUBSET SUBSET Offered]
  /\ at \in [Threads -> Looked \cup {None}]
  /\ subs \in [Topics -> Seq(Profiles)] /\ \A t \in Topics : Len(subs[t]) <= 2
  /\ files \in Seq(0..RotateAt) /\ Len(files) <= MaxFiles
  /\ writing \in BOOLEAN /\ disabled \in BOOLEAN /\ found \in Nat

\* A publisher is heard, whenever it joined and whoever left, if it offers no less
\* than one that _match_qos() saw for a subscription, and those that it saw there
\* agreed on durability (ros2.py:7-9).  Nothing is said of a topic for which it saw
\* none: one that was found through a listener alone, or whose query failed.
PublishersHeard ==
  \A t \in Topics : \A offers \in seen[t] :
    (\A o, q \in offers : o.lasting = q.lasting)
    => \A p \in pubs[t] : (\E o \in offers : Offers(p, o)) => Hears(t, p)

\* The recordings of one run of the agent, whatever its errors and its end, take the
\* directory past max_gb, or past what the run found there if that was more and it
\* has not pruned it yet, by one file that is not full; and by a second one when a
\* sample comes after Recorder.stop() (write(), _prune()).
DiskBounded ==
  Total(files) <= Larger(MaxSize, found)
                    + (IF phase \in {"up", "joining"} THEN 1 ELSE 2) * (RotateAt - 1)
=============================================================================
