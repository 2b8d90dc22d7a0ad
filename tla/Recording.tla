------------------------------ MODULE Recording ------------------------------
(***************************************************************************)
(* The vehicle's side of a sample: ros2.py, which finds topics and         *)
(* subscribes to them, recorder.py, which writes what they deliver to      *)
(* files, and the order in which bridge.py starts and stops the two.       *)
(*                                                                         *)
(* Two threads run _discover(): the one in start(), once, and the one that *)
(* spins the executor, again and again; neither takes a lock.  Callbacks,  *)
(* and with them the recorder, run in the thread that spins.               *)
(*                                                                         *)
(* The size of a file is the lines written to it: what is on the disk is   *)
(* compressed, and after a power cut less.  Files are named by the time    *)
(* they are opened, and the clock of the vehicle is taken never to go      *)
(* back, so the order of their names is the order in which they were       *)
(* opened.                                                                 *)
(***************************************************************************)
EXTENDS RecordingRequirements

graph    == <<listed, pubs>>
ros      == <<spinning, graph, scan, at, subs, seen>>
recorder == <<files, writing, disabled, found>>
vars     == <<phase, ros, recorder>>

-----------------------------------------------------------------------------
(* The QoS of a subscription *)

\* Mutant of MatchQos: the first publisher decides.
MatchQosFirst(offers) ==
  IF offers = {} THEN {[reliable |-> TRUE, lasting |-> FALSE]} ELSE offers

\* _match_qos(): reliable and volatile without a publisher; otherwise reliable if
\* all of them are, and as lasting as the one that happens to be listed first.
MatchQos(offers) ==
  {[reliable |-> \A p \in offers : p.reliable, lasting |-> lasting] :
     lasting \in IF offers = {} THEN {FALSE} ELSE {p.lasting : p \in offers}}

-----------------------------------------------------------------------------
(* Discovery *)

Idle(th) == scan[th] = {} /\ at[th] = None
Runs(th) == IF th = "spin" THEN spinning ELSE phase = "up"

\* Whether _discover() has looked at the publishers of t.
Looking(th, t) == at[th] # None /\ at[th][1] = t

\* The rest of the graph: a topic that someone publishes or listens to is listed.
GraphChanges(t) ==
  /\ \E offers \in SUBSET Offered :
       /\ pubs' = [pubs EXCEPT ![t] = offers]
       /\ listed' \in {listed \cup {t}} \cup
            IF offers = {} THEN {listed \ {t}} ELSE {}
  /\ UNCHANGED <<phase, spinning, scan, at, subs, seen, recorder>>

\* Mutant of ScanStarts: only start() looks.
ScanStartsNever == FALSE /\ UNCHANGED vars

\* The thread that spins has found that rediscover_s is over.
ScanStarts ==
  /\ spinning /\ Idle("spin")
  /\ scan' = [scan EXCEPT !["spin"] = listed]
  /\ UNCHANGED <<phase, spinning, graph, at, subs, seen, recorder>>

\* Mutant of Due: a topic is not looked up among the subscriptions.
DueAgain(t) == t \in Wanted

\* What _discover() does not pass over.
Due(t) == t \in Wanted /\ subs[t] = <<>>

\* A query of the graph that fails is taken for one that saw no publisher.
Looks(th, t) ==
  /\ Runs(th) /\ at[th] = None /\ t \in scan[th]
  /\ scan' = [scan EXCEPT ![th] = @ \ {t}]
  /\ \/ ~Due(t) /\ UNCHANGED at
     \/ Due(t) /\ \E offers \in {pubs[t], {}} : \E q \in MatchQos(offers) :
                     at' = [at EXCEPT ![th] = <<t, q, offers>>]
  /\ UNCHANGED <<phase, spinning, graph, subs, seen, recorder>>

\* The node keeps every subscription, _subs only the last.
Subscribes(th) ==
  /\ Runs(th) /\ at[th] # None
  /\ subs' = [subs EXCEPT ![at[th][1]] = Append(@, at[th][2])]
  /\ seen' = [seen EXCEPT ![at[th][1]] = @ \cup {at[th][3]}]
  /\ at' = [at EXCEPT ![th] = None]
  /\ UNCHANGED <<phase, spinning, graph, scan, recorder>>

\* The type cannot be loaded, or the subscription cannot be created.
SubscribeFails(th) ==
  /\ Runs(th) /\ at[th] # None
  /\ at' = [at EXCEPT ![th] = None]
  /\ UNCHANGED <<phase, spinning, graph, scan, subs, seen, recorder>>

-----------------------------------------------------------------------------
(* The recorder *)

\* Mutant of Pruned: the loop ends one file early.
PrunedLess(s) ==
  LET i == CHOOSE i \in 1..Len(s) :
             /\ i = Len(s) \/ Total(SubSeq(s, i + 1, Len(s))) <= MaxSize
             /\ \A j \in 1..(i - 1) : Total(SubSeq(s, j + 1, Len(s))) > MaxSize
  IN SubSeq(s, i, Len(s))

\* _prune(): the oldest go until what is left is no more than max_gb.
Pruned(s) ==
  LET i == CHOOSE i \in 1..(Len(s) + 1) :
             /\ Total(SubSeq(s, i, Len(s))) <= MaxSize
             /\ \A j \in 1..(i - 1) : Total(SubSeq(s, j, Len(s))) > MaxSize
  IN SubSeq(s, i, Len(s))

\* A callback of the executor: there is a message from a publisher that is heard.
Delivers ==
  spinning /\ Idle("spin") /\ \E t \in Topics : \E p \in pubs[t] : Hears(t, p)

\* _open(), unless a file is open.
MayOpen == writing \/ Len(files) < MaxFiles
Opened == IF writing THEN files ELSE Append(files, 0)
Longer == [Opened EXCEPT ![Len(Opened)] = @ + 1]

\* write(): a line, and a rotation, which prunes, when the file is full.
Writes ==
  /\ Delivers /\ ~disabled
  /\ MayOpen /\ Longer[Len(Longer)] < RotateAt
  /\ files' = Longer /\ writing' = TRUE
  /\ UNCHANGED <<phase, ros, disabled, found>>
Rotates ==
  /\ Delivers /\ ~disabled
  /\ MayOpen /\ Longer[Len(Longer)] >= RotateAt
  /\ files' = Pruned(Longer) /\ writing' = FALSE /\ found' = 0
  /\ UNCHANGED <<phase, ros, disabled>>

\* An OSError from the directory, the open or the write: recording is over for
\* this run of the agent.
WriteFails ==
  /\ Delivers /\ ~disabled
  /\ \/ UNCHANGED files
     \/ MayOpen /\ files' = Opened
  /\ writing' = FALSE /\ disabled' = TRUE
  /\ UNCHANGED <<phase, ros, found>>

-----------------------------------------------------------------------------
(* The agent *)

\* Bridge.__init__() makes the recorder; Ros2Source.start() starts the thread
\* that spins and begins its own scan.
Starts ==
  /\ phase = "off" /\ phase' = "up"
  /\ spinning' = TRUE
  /\ scan' = [scan EXCEPT !["start"] = listed]
  /\ found' = Total(files)
  /\ UNCHANGED <<graph, at, subs, seen, files, writing, disabled>>

\* The loop of run() is interrupted; Ros2Source.stop() waits for the thread.
Quits ==
  /\ phase = "up" /\ Idle("start")
  /\ phase' = "joining"
  /\ UNCHANGED <<ros, recorder>>

\* The thread ends when it gets back to its loop.
SpinEnds ==
  /\ spinning /\ phase # "up" /\ Idle("spin")
  /\ spinning' = FALSE
  /\ UNCHANGED <<phase, graph, scan, at, subs, seen, recorder>>

\* It has ended or three seconds are over; run() goes on to Recorder.stop(), which
\* closes the file.  A sample of a thread that has not ended opens the next one.
Joined ==
  /\ phase = "joining" /\ phase' = "stopped"
  /\ writing' = FALSE
  /\ UNCHANGED <<ros, files, disabled, found>>

\* The process ends, at the end of run() or in any other way, and its threads, its
\* node and an open file with it.
Dies ==
  /\ phase # "off" /\ phase' = "off"
  /\ spinning' = FALSE
  /\ scan' = [th \in Threads |-> {}] /\ at' = [th \in Threads |-> None]
  /\ subs' = [t \in Topics |-> <<>>] /\ seen' = [t \in Topics |-> {}]
  /\ writing' = FALSE /\ disabled' = FALSE
  /\ UNCHANGED <<graph, files, found>>

Init ==
  /\ phase = "off" /\ spinning = FALSE
  /\ listed = {} /\ pubs = [t \in Topics |-> {}]
  /\ scan = [th \in Threads |-> {}] /\ at = [th \in Threads |-> None]
  /\ subs = [t \in Topics |-> <<>>] /\ seen = [t \in Topics |-> {}]
  /\ files = <<>> /\ writing = FALSE /\ disabled = FALSE /\ found = 0

Next ==
  \/ \E t \in Topics : GraphChanges(t)
  \/ ScanStarts
  \/ \E th \in Threads :
       (\E t \in Topics : Looks(th, t)) \/ Subscribes(th) \/ SubscribeFails(th)
  \/ Writes \/ Rotates \/ WriteFails
  \/ Starts \/ Quits \/ SpinEnds \/ Joined \/ Dies

\* The thread that spins goes on, and a subscription that is tried again and again
\* succeeds.
Fairness ==
  /\ WF_vars(ScanStarts) /\ WF_vars(\E t \in Topics : Looks("spin", t))
  /\ SF_vars(Subscribes("spin"))

Spec     == Init /\ [][Next]_vars
FairSpec == Spec /\ Fairness

-----------------------------------------------------------------------------
(* Properties *)

\* A wanted topic that stays on the graph is subscribed to, whenever it appeared
\* and however often that failed (_spin rediscovers).
Discovered ==
  \A t \in Wanted :
    <>[](t \in listed /\ phase = "up") => <>[](subs[t] # <<>>)
-----------------------------------------------------------------------------
(* The inductive invariant behind the theorems of Uplink_proofs *)

\* Two threads may have one topic in hand only while it has no subscription, one as
\* long as it has no second.
SubsInv ==
  \A t \in Topics :
    /\ Len(subs[t]) = 1 => \E th \in Threads : ~Looking(th, t)
    /\ Len(subs[t]) = 2 => \A th \in Threads : ~Looking(th, t)

\* What is subscribed to, and what is about to be, fits the publishers that were
\* seen for it.
QosInv ==
  /\ \A t \in Topics : \A offers \in seen[t] :
       \E i \in DOMAIN subs[t] : subs[t][i] \in MatchQos(offers)
  /\ \A th \in Threads : at[th] # None => at[th][2] \in MatchQos(at[th][3])

\* What this run may have added to what it found, in files that it has closed: the one
\* closed by Recorder.stop(), and the one closed by an error or the process's end.
Closed ==
  (IF phase \in {"up", "joining"} THEN 0 ELSE RotateAt - 1)
    + (IF disabled \/ phase = "off" THEN RotateAt - 1 ELSE 0)

\* The open file is the one that may still grow to a full one.
FilesInv ==
  /\ writing => Len(files) > 0 /\ files[Len(files)] < RotateAt
  /\ writing => ~disabled
  /\ writing \/ spinning => phase # "off"
  /\ Total(files) <= Larger(MaxSize, found) + Closed
                       + (IF writing THEN files[Len(files)] ELSE 0)

IInv == TypeOK /\ SubsInv /\ QosInv /\ FilesInv
=============================================================================
