---------------------------- MODULE ReliableRelay ----------------------------
(***************************************************************************)
(* What the way from a vehicle to the archival layer promises, whatever    *)
(* batches, numbers, copies, queues and connections are behind it          *)
(* (agent/itri_agent/bridge.py:20-28, agent/README.md:313): a sample is    *)
(* the vehicle's until it is stored; a full buffer discards one and counts *)
(* it; samples of a run of the agent are stored in order, each once; and   *)
(* the server alone can lose what it stored, when it dies, before it is in *)
(* PostgreSQL.  Four excuses are kept: samples no message could be made    *)
(* of, a publish that was refused, a server that forgot too early what it  *)
(* has had, and one that does not know what an earlier one stored.         *)
(***************************************************************************)
EXTENDS Naturals, Sequences, FiniteSets

VARIABLES
  offered,     \* samples so far, named 1..offered
  run,         \* of the agent
  held,        \* samples this run has to deliver
  dropped,     \* samples it discarded
  unsent,      \* samples it could make no message of
  refused,
  stored,      \* Seq(<<run, sample>>)
  safe,        \* how many of them are in PostgreSQL
  crashed,     \* samples the server lost
  forgot,
  restarted

vehicle == <<offered, run, held, dropped, unsent, refused>>
server  == <<stored, safe, crashed, forgot, restarted>>
vars    == <<vehicle, server>>

Init ==
  /\ offered = 0 /\ run = 1 /\ held = {} /\ dropped = 0 /\ unsent = 0 /\ ~refused
  /\ stored = <<>> /\ safe = 0 /\ crashed = 0 /\ ~forgot /\ ~restarted

\* A sample is offered, and held; at most one is discarded for it, which is counted.
Accept ==
  /\ offered' = offered + 1
  /\ held' \subseteq held \cup {offered'} /\ offered' \in held'
  /\ dropped' \in {dropped, dropped + 1}
  /\ dropped' = dropped => held \subseteq held'
  /\ \A x, y \in held \ held' : x = y
  /\ UNCHANGED <<run, unsent, refused, server>>

\* Samples of which no message can be made.
Discard ==
  /\ held' \subseteq held
  /\ Cardinality(held \ held') + unsent <= unsent'
  /\ UNCHANGED <<offered, run, dropped, refused, server>>

\* From now on a sample may be let go that was taken for another.
Refuse ==
  /\ refused'
  /\ UNCHANGED <<offered, run, held, dropped, unsent, server>>

\* What is stored need not be held.
LetGo ==
  /\ held' \subseteq held
  /\ refused \/ \A x \in held \ held' : \E i \in 1..Len(stored) : stored[i][2] = x
  /\ UNCHANGED <<offered, run, dropped, unsent, refused, server>>

\* Everything the agent holds is in memory.
VehicleRestarts ==
  /\ run' = run + 1 /\ held' = {} /\ dropped' = 0 /\ unsent' = 0
  /\ UNCHANGED <<offered, refused, server>>

\* Some samples are stored: of this run those it holds, of an earlier one what was on
\* its way; each after all that are stored of its run.  A server that forgot what it has
\* had stores it again.
Store ==
  /\ Len(stored) <= Len(stored') /\ SubSeq(stored', 1, Len(stored)) = stored
  /\ \A i \in (Len(stored) + 1)..Len(stored') :
       /\ stored'[i][1] <= run
       /\ \/ forgot /\ (refused \/ \E j \in 1..(i - 1) : stored'[j] = stored'[i])
          \/ /\ stored'[i][1] = run => stored'[i][2] \in held
             /\ restarted \/ \A j \in 1..(i - 1) :
                  stored'[j][1] = stored'[i][1] => stored'[j][2] < stored'[i][2]
  /\ forgot => forgot'
  /\ UNCHANGED <<vehicle, safe, crashed, restarted>>

Secure ==
  /\ safe' = Len(stored)
  /\ UNCHANGED <<vehicle, stored, crashed, forgot, restarted>>

ServerDies ==
  /\ restarted' /\ stored' = SubSeq(stored, 1, safe)
  /\ crashed' = crashed + Len(stored) - safe
  /\ UNCHANGED <<vehicle, safe, forgot>>

Next ==
  \/ Accept \/ Discard \/ Refuse \/ LetGo \/ VehicleRestarts
  \/ Store \/ Secure \/ ServerDies

\* Nothing is held for ever: again and again the vehicle has nothing left to deliver.
Progress == []<>(held = {})

\* What a step may never do, and what must happen in the end.
Safety == Init /\ [][Next]_vars
Spec   == Safety /\ Progress

=============================================================================
