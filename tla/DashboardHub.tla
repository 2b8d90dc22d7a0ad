---------------------------- MODULE DashboardHub ----------------------------
(***************************************************************************)
(* server/main.py: Hub, the /ws endpoint and the push of the ticker, with  *)
(* the part of web/app.js that applies what arrives.                       *)
(*                                                                         *)
(* The hub keeps, per socket, a map from robot to the revision it believes *)
(* the browser has, and pushes only robots whose revision differs.  join() *)
(* and push() suspend in every send, and robots change meanwhile.  join()  *)
(* replaces the map of its socket after the snapshot is sent; a push that  *)
(* is under way may still hold the map it replaced.                        *)
(*                                                                         *)
(* state.robots only grows, so the "removed" half of an update is empty.   *)
(* A browser that reconnects is a new socket.                              *)
(***************************************************************************)
EXTENDS Naturals, Sequences, FiniteSets

CONSTANTS
  Robots,
  Sockets,     \* connections of a behaviour (model bound)
  MaxRev       \* changes per robot          (model bound)

ASSUME HubAssumption == MaxRev \in Nat

Maps == {"joining", "joined"}    \* the two dicts join() assigns

VARIABLES
  rev,       \* [Robots -> Nat]: Robot.rev; zero is not yet in state.robots
  handler,   \* [Sockets -> ...]: where ws_endpoint is
  clients,   \* [Sockets -> Maps \cup {"none"}]: the dict hub.clients holds
  seen,      \* [Sockets -> [Maps -> [Robots -> Nat]]]: contents of the dicts
  push,      \* the ticker in push(): [todo, socket, message]
  wire,      \* [Sockets -> Seq(message)]: sent, not yet applied
  view,      \* [Sockets -> [Robots -> Nat]]: what the browser shows
  broken,    \* sockets whose connection is lost
  missed     \* SUBSET (Sockets \X Robots): changed after the snapshot was
             \* composed and before join() was over (history)

vars == <<rev, handler, clients, seen, push, wire, view, broken, missed>>

Nothing  == [r \in Robots |-> 0]
NoSocket == "none"

\* A message carries the revisions of some robots; zero is not mentioned.
Apply(shown, msg) == [r \in Robots |-> IF msg[r] > 0 THEN msg[r] ELSE shown[r]]

\* list(self.clients.items()): sockets with the dict each had at that moment.
Listed == {<<s, clients[s]>> : s \in {t \in Sockets : clients[t] # "none"}}

Idle == [todo |-> {}, socket |-> NoSocket, map |-> "none", message |-> Nothing]

-----------------------------------------------------------------------------
(* The fleet *)

\* Robot.update() or set_presence(): a callback between two awaits.
Change(r) ==
  /\ rev[r] < MaxRev
  /\ rev' = [rev EXCEPT ![r] = @ + 1]
  /\ missed' = missed \cup {<<s, r>> : s \in {t \in Sockets : handler[t] = "join"}}
  /\ UNCHANGED <<handler, clients, seen, push, wire, view, broken>>

-----------------------------------------------------------------------------
(* One socket *)

\* ws.accept(), then join() up to its await: an empty dict, a snapshot on its
\* way.
Join(s) ==
  /\ handler[s] = "new"
  /\ handler' = [handler EXCEPT ![s] = "join"]
  /\ clients' = [clients EXCEPT ![s] = "joining"]
  /\ wire' = [wire EXCEPT ![s] = Append(@, rev)]
  /\ UNCHANGED <<rev, seen, push, view, broken, missed>>

\* send() returned, and its result is ignored: the dict is replaced by one with
\* the revisions of this moment.
Joined(s) ==
  /\ handler[s] = "join"
  /\ handler' = [handler EXCEPT ![s] = "serve"]
  /\ clients' = [clients EXCEPT ![s] = "joined"]
  /\ seen' = [seen EXCEPT ![s]["joined"] = rev]
  /\ UNCHANGED <<rev, push, wire, view, broken, missed>>

\* The connection is lost: what was not applied never will be.
Break(s) ==
  /\ handler[s] \in {"join", "serve"}
  /\ s \notin broken
  /\ broken' = broken \cup {s}
  /\ wire' = [wire EXCEPT ![s] = <<>>]
  /\ UNCHANGED <<rev, handler, clients, seen, push, view, missed>>

\* receive_text() raises: leave().
Leave(s) ==
  /\ handler[s] = "serve"
  /\ s \in broken
  /\ handler' = [handler EXCEPT ![s] = "over"]
  /\ clients' = [clients EXCEPT ![s] = "none"]
  /\ UNCHANGED <<rev, seen, push, wire, view, broken, missed>>

\* The browser applies the next message.
Deliver(s) ==
  /\ wire[s] # <<>>
  /\ view' = [view EXCEPT ![s] = Apply(@, Head(wire[s]))]
  /\ wire' = [wire EXCEPT ![s] = Tail(@)]
  /\ UNCHANGED <<rev, handler, clients, seen, push, broken, missed>>

-----------------------------------------------------------------------------
(* The ticker *)

Changed(map) == [r \in Robots |-> IF map[r] # rev[r] THEN rev[r] ELSE 0]

PushStarts ==
  /\ push = Idle
  /\ Listed # {}
  /\ push' = [push EXCEPT !.todo = Listed]
  /\ UNCHANGED <<rev, handler, clients, seen, wire, view, broken, missed>>

\* The next socket of the list: nothing to tell it, or send() begins.
PushNext(s) ==
  /\ push.socket = NoSocket
  /\ \E m \in Maps :
       /\ <<s, m>> \in push.todo
       /\ LET msg  == Changed(seen[s][m])
              rest == push.todo \ {<<s, m>>}
          IN IF msg = Nothing
               THEN /\ push' = [push EXCEPT !.todo = rest]
                    /\ UNCHANGED wire
               ELSE /\ push' = [todo |-> rest, socket |-> s, map |-> m,
                                message |-> msg]
                    /\ wire' = IF s \in broken THEN wire
                               ELSE [wire EXCEPT ![s] = Append(@, msg)]
  /\ UNCHANGED <<rev, handler, clients, seen, view, broken, missed>>

\* Mutant of PushSent: the map gets the revisions of now, not the ones sent.
PushSentNow ==
  /\ push.socket # NoSocket
  /\ push.socket \notin broken
  /\ seen' = [seen EXCEPT ![push.socket][push.map] =
                [r \in Robots |-> IF push.message[r] > 0 THEN rev[r] ELSE @[r]]]
  /\ push' = [Idle EXCEPT !.todo = push.todo]
  /\ UNCHANGED <<rev, handler, clients, wire, view, broken, missed>>

\* send() returned True: the dict the push holds learns what was sent.
PushSent ==
  /\ push.socket # NoSocket
  /\ push.socket \notin broken
  /\ seen' = [seen EXCEPT ![push.socket][push.map] = Apply(@, push.message)]
  /\ push' = [Idle EXCEPT !.todo = push.todo]
  /\ UNCHANGED <<rev, handler, clients, wire, view, broken, missed>>

\* Mutant of PushFails: the push tries the same socket again, for ever.
PushFailsStuck ==
  /\ push.socket # NoSocket
  /\ push.socket \in broken
  /\ clients' = [clients EXCEPT ![push.socket] = "none"]
  /\ UNCHANGED <<rev, handler, seen, push, wire, view, broken, missed>>

\* send() returned False: leave().
PushFails ==
  /\ push.socket # NoSocket
  /\ push.socket \in broken
  /\ clients' = [clients EXCEPT ![push.socket] = "none"]
  /\ push' = [Idle EXCEPT !.todo = push.todo]
  /\ UNCHANGED <<rev, handler, seen, wire, view, broken, missed>>

\* broadcast_metrics(), between two pushes, drops a socket it cannot reach.
MetricsFail(s) ==
  /\ push = Idle
  /\ s \in broken
  /\ clients[s] # "none"
  /\ clients' = [clients EXCEPT ![s] = "none"]
  /\ UNCHANGED <<rev, handler, seen, push, wire, view, broken, missed>>

-----------------------------------------------------------------------------
Init ==
  /\ rev \in [Robots -> 0..MaxRev]
  /\ handler = [s \in Sockets |-> "new"]
  /\ clients = [s \in Sockets |-> "none"]
  /\ seen = [s \in Sockets |-> [m \in Maps |-> Nothing]]
  /\ push = Idle
  /\ wire = [s \in Sockets |-> <<>>]
  /\ view = [s \in Sockets |-> Nothing]
  /\ broken = {}
  /\ missed = {}

Ticker == PushStarts \/ (\E s \in Sockets : PushNext(s)) \/ PushSent \/ PushFails

Next ==
  \/ \E r \in Robots : Change(r)
  \/ \E s \in Sockets :
       Join(s) \/ Joined(s) \/ Break(s) \/ Leave(s) \/ Deliver(s) \/ MetricsFail(s)
  \/ Ticker

Safety == Init /\ [][Next]_vars

\* The ticker keeps ticking, and every send and every receive comes to an end:
\* a peer that does not answer pings is disconnected.
Fairness ==
  /\ WF_vars(Ticker)
  /\ \A s \in Sockets : WF_vars(Joined(s)) /\ WF_vars(Deliver(s)) /\ WF_vars(Leave(s))

Spec == Safety /\ Fairness

-----------------------------------------------------------------------------
(* Properties *)

Revs == [Robots -> 0..MaxRev]

\* Type correctness.
TypeOK ==
  /\ rev \in Revs
  /\ handler \in [Sockets -> {"new", "join", "serve", "over"}]
  /\ clients \in [Sockets -> Maps \cup {"none"}]
  /\ seen \in [Sockets -> [Maps -> Revs]]
  /\ push \in [todo : SUBSET (Sockets \X Maps), socket : Sockets \cup {NoSocket},
               map : Maps \cup {"none"}, message : Revs]
  /\ wire \in [Sockets -> Seq(Revs)]
  /\ view \in [Sockets -> Revs]
  /\ broken \subseteq Sockets
  /\ missed \subseteq Sockets \X Robots

\* Some message on its way to s brings r to revision n or later.
Coming(s, r, n) == \E i \in 1..Len(wire[s]) : wire[s][i][r] >= n

Has(s, r, n) == view[s][r] >= n \/ Coming(s, r, n)

Live(s) == handler[s] = "serve" /\ s \notin broken

\* What the hub believes a browser has, it was sent: except for robots that
\* changed while its snapshot was being sent.
BelievedWasSent ==
  \A s \in Sockets, r \in Robots :
    Live(s) /\ <<s, r>> \notin missed => Has(s, r, seen[s]["joined"][r])

\* What is on its way to a browser never takes a robot back.
InOrder ==
  \A s \in Sockets, r \in Robots :
    /\ view[s][r] <= rev[r]
    /\ \A i \in 1..Len(wire[s]) :
         wire[s][i][r] > 0 =>
           /\ view[s][r] <= wire[s][i][r]
           /\ wire[s][i][r] <= rev[r]
           /\ \A j \in 1..i : wire[s][j][r] <= wire[s][i][r]

\* The snapshot of a socket that joins brings it to the present.
SnapshotSent ==
  \A s \in Sockets, r \in Robots :
    handler[s] = "join" /\ s \notin broken /\ <<s, r>> \notin missed => Has(s, r, rev[r])

\* The push whose send() has not returned is on its way.
PushIsSent ==
  push.socket \in Sockets \ (broken \cup {NoSocket}) =>
    \A r \in Robots : Has(push.socket, r, push.message[r])

IInv == TypeOK /\ InOrder /\ SnapshotSent /\ PushIsSent /\ BelievedWasSent

-----------------------------------------------------------------------------
(* The hub implements Roster.  A page is open between join() and the loss of *)
(* its connection; a revision is due to it while the map of its socket lacks *)
(* it or a message on its way brings it.                                     *)

Revisions == 1..MaxRev

IsDue(s, r, n) ==
  /\ Live(s) /\ n <= rev[r] /\ view[s][r] < n
  /\ seen[s]["joined"][r] < n \/ Coming(s, r, n)

Due == [s \in Sockets |-> {d \in Robots \X Revisions : IsDue(s, d[1], d[2])}]

Dashboard == INSTANCE Roster WITH
  Pages <- Sockets, open <- {s \in Sockets : Live(s)}, shown <- view, due <- Due

\* No page goes back; what changes while it is open is due to it at once; and what
\* is due is shown in the end, or the connection is lost: no later push, join or
\* failure of another socket makes the hub forget it.
ImplementsRoster == Dashboard!Spec
=============================================================================
