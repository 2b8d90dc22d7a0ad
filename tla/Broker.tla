------------------------------- MODULE Broker -------------------------------
(***************************************************************************)
(* server/broker.py: sessions, subscriptions, retained messages, wills,    *)
(* kick() and stop().                                                      *)
(*                                                                         *)
(* A session is one coroutine.  It awaits nothing but its next packet, so  *)
(* what it does with a packet is atomic; but between the moment a packet   *)
(* has been read, or the read has failed, and the moment the coroutine     *)
(* goes on, other sessions, kick() and stop() run.                         *)
(*                                                                         *)
(* A topic and a filter are sequences of levels.  Messages are numbered in *)
(* the order they are published.  Nothing is ever sent again and no packet *)
(* id is remembered, so the QoS of a message is left out.                  *)
(***************************************************************************)
EXTENDS Naturals, Sequences

CONSTANTS
  Connections,   \* TCP connections of a behaviour, each used once (model bound)
  UserOf,        \* who authenticates on a connection
  Topics, Filters,
  Levels,        \* level names for MatchesConform (model bound)
  MaxMessages,   \* model bound
  CloseWaits     \* wait_closed() waits for open connections (Python 3.12 on)

Users == {UserOf[c] : c \in Connections}
None  == <<>>    \* no topic

ASSUME BrokerAssumption ==
  /\ None \notin Topics
  /\ MaxMessages \in Nat
  /\ CloseWaits \in BOOLEAN

\* A topic that is published names no wildcard (MQTT 3.1.1, 3.3.2): the broker does not
\* look, and the topics of its clients never do.  Only MatchesConform depends on it.
ASSUME LevelsAssumption == "#" \notin Levels

VARIABLES
  phase,      \* [Connections -> Phases]: where the coroutine is
  alive,      \* SUBSET Connections: Session.alive
  listed,     \* SUBSET Connections: MqttBroker.sessions
  will,       \* [Connections -> Topics \cup {None}]: topic of Session.will
  subs,       \* [Connections -> SUBSET Filters]: Session.subs
  retained,   \* [Topics -> Messages]: 0 is nothing retained
  count,      \* messages published
  server,     \* "up", "closing" (stop() waits), "stopped"
  requireAuth,  \* mqtt.require_auth of the configuration
  told,       \* [Connections -> [Topics -> Messages]]: last one written (history)
  fate,       \* [Connections -> Fates]: what ended the session (history)
  late        \* [Connections -> 0..2]: messages taken after the kick (history)

session == <<alive, listed, will, subs>>
store   == <<retained, count, told>>
setup   == <<server, requireAuth>>
history == <<fate, late>>
vars    == <<phase, session, store, setup, history>>

Phases   == {"new", "greeting", "serving", "reading", "ending", "closed"}
Fates    == {"up", "goodbye", "kicked", "broken", "stopped"}
Messages == 0..MaxMessages

-----------------------------------------------------------------------------
(* Topic filters *)

\* Mutant of TopicMatches: "#" needs a level to stand for.
TopicMatchesBelow(filt, topic) ==
  LET fails(i) == \/ i > Len(topic)
                  \/ filt[i] \notin {"+", "#", topic[i]}
                  \/ filt[i] \in {"+", "#"} /\ i = 1 /\ topic[1] = "$SYS"
      stops == {i \in 1..Len(filt) : fails(i) \/ filt[i] = "#"}
  IN IF stops = {} THEN Len(filt) = Len(topic)
     ELSE LET i == CHOOSE i \in stops : \A j \in stops : i <= j
          IN ~fails(i) /\ i = Len(filt)

\* topic_matches(): the loop stops at the first level that fails or is "#".
TopicMatches(filt, topic) ==
  LET fails(i) == IF filt[i] = "#" THEN i = 1 /\ topic[1] = "$SYS"
                  ELSE \/ i > Len(topic)
                       \/ filt[i] \notin {"+", topic[i]}
                       \/ filt[i] = "+" /\ i = 1 /\ topic[1] = "$SYS"
      stops == {i \in 1..Len(filt) : fails(i) \/ filt[i] = "#"}
  IN IF stops = {} THEN Len(filt) = Len(topic)
     ELSE LET i == CHOOSE i \in stops : \A j \in stops : i <= j
          IN ~fails(i) /\ i = Len(filt)

\* Registry.topic_allowed(): a robot publishes on its own branch and reads nothing.
PublishLeaves == {"status", "lwt", "samples", "raw"}
TopicAllowed(u, topic, action) ==
  /\ action = "publish" /\ Len(topic) = 3
  /\ topic[1] = "fleet" /\ topic[2] = u /\ topic[3] \in PublishLeaves

\* authorize: topic_allowed() where credentials are required, else nothing is asked.
Authorized(u, topic, action) == requireAuth => TopicAllowed(u, topic, action)

\* Session.wants().
Wants(c, t) == \E f \in subs[c] : TopicMatches(f, t)

-----------------------------------------------------------------------------
(* Connections *)

GoesTo(c, p) == phase' = [phase EXCEPT ![c] = p]

\* start_server() accepts; the broker waits for a CONNECT, without a timeout.
Accepts(c) ==
  /\ phase[c] = "new" /\ server = "up"
  /\ GoesTo(c, "greeting")
  /\ UNCHANGED <<session, store, setup, history>>

\* _do_connect() accepts the protocol and the credentials; a will is taken as it
\* comes.  Writing the CONNACK does not suspend.
Connects(c) ==
  /\ phase[c] = "greeting"
  /\ GoesTo(c, "serving")
  /\ alive' = alive \cup {c} /\ listed' = listed \cup {c}
  /\ \E t \in Topics \cup {None} : will' = [will EXCEPT ![c] = t]
  /\ UNCHANGED <<subs, store, setup, history>>

\* No CONNECT, a malformed one, a protocol or credentials it does not accept.
Refuses(c) ==
  /\ phase[c] = "greeting"
  /\ GoesTo(c, "closed")
  /\ UNCHANGED <<session, store, setup, history>>

\* The broker has closed the writer of c, and with it what the reader can get.
Shut(c) == fate[c] \in {"kicked", "stopped"}

\* A whole packet is there; the coroutine of c is scheduled.
PacketRead(c) ==
  /\ phase[c] = "serving" /\ ~Shut(c)
  /\ GoesTo(c, "reading")
  /\ UNCHANGED <<session, store, setup, history>>

\* End of file, a reset, a malformed packet, or 1.5 times the keepalive is over.
ReadFails(c) ==
  /\ phase[c] \in {"serving", "reading"}
  /\ GoesTo(c, "ending")
  /\ UNCHANGED <<session, store, setup, history>>

-----------------------------------------------------------------------------
(* Packets *)

\* Ended(S, f): f is what ended the sessions S, unless something had already.
Ended(S, f) == [c \in Connections |-> IF c \in S /\ fate[c] = "up" THEN f ELSE fate[c]]

\* Back to the loop of _serve(), which ends if the session is no longer alive;
\* else it waits, or finds that the next packet is there already.
Resumes(c) == IF c \in alive' THEN GoesTo(c, "serving") \/ GoesTo(c, "reading")
                              ELSE GoesTo(c, "ending")

\* _write(): the data is handed to the transport of every session in S, or, for
\* those in bad, that raises and marks the session dead.
Writes(S, bad) ==
  /\ bad \subseteq S
  /\ alive' = alive \ bad
  /\ fate' = Ended(bad, "broken")

\* What is retained after a message; an empty one clears.
Retain(t, retain, empty) ==
  IF retain THEN [retained EXCEPT ![t] = IF empty THEN 0 ELSE count + 1] ELSE retained

\* publish(): retain or clear, then write to every listed session that wants it.
Wanting(sessions, t) == {d \in sessions : Wants(d, t)}
Publish(sessions, t, retain, empty) ==
  /\ count' = count + 1
  /\ retained' = Retain(t, retain, empty)
  /\ told' = [d \in Connections |->
                IF d \in Wanting(sessions, t) THEN [told[d] EXCEPT ![t] = count + 1]
                ELSE told[d]]

\* PUBLISH: acknowledged first, then dropped unless the topic is the user's own.
HandlesPublish(c) ==
  /\ phase[c] = "reading" /\ count < MaxMessages
  /\ \E t \in {t \in Topics : Authorized(UserOf[c], t, "publish")},
        retain, empty \in BOOLEAN, bad \in SUBSET Connections :
       /\ Writes({c} \cup Wanting(listed, t), bad)
       /\ Publish(listed, t, retain, empty)
  /\ late' = [late EXCEPT ![c] = IF Shut(c) /\ @ < 2 THEN @ + 1 ELSE @]
  /\ Resumes(c)
  /\ UNCHANGED <<listed, will, subs, setup>>

\* Mutant of Replayed: only a filter that names a topic is sent what is retained.
ReplayedExact(fs) == {t \in Topics : retained[t] # 0 /\ t \in fs}

\* The topics whose retained message _on_subscribe() sends.
Replayed(fs) ==
  {t \in Topics : retained[t] # 0 /\ \E f \in fs : TopicMatches(f, t)}

\* SUBSCRIBE: the filters are added and what is retained for them is sent.
HandlesSubscribe(c) ==
  /\ phase[c] = "reading"
  /\ \E bad \in SUBSET {c} : Writes({c}, bad)
  /\ \E fs \in SUBSET {f \in Filters : Authorized(UserOf[c], f, "subscribe")} \ {{}} :
       /\ subs' = [subs EXCEPT ![c] = @ \cup fs]
       /\ told' = [told EXCEPT ![c] = [t \in Topics |->
                     IF t \in Replayed(fs) THEN retained[t] ELSE @[t]]]
  /\ Resumes(c)
  /\ UNCHANGED <<listed, will, retained, count, setup, late>>

HandlesUnsubscribe(c) ==
  /\ phase[c] = "reading"
  /\ \E bad \in SUBSET {c} : Writes({c}, bad)
  /\ \E f \in subs[c] : subs' = [subs EXCEPT ![c] = @ \ {f}]
  /\ Resumes(c)
  /\ UNCHANGED <<listed, will, store, setup, late>>

\* A PUBLISH or SUBSCRIBE that authorize() denies, PINGREQ, PUBREL, PUBACK and the
\* types that are ignored: an answer at most.
HandlesOther(c) ==
  /\ phase[c] = "reading"
  /\ \E bad \in SUBSET {c} : Writes({c}, bad)
  /\ Resumes(c)
  /\ UNCHANGED <<listed, will, subs, store, setup, late>>

\* DISCONNECT discards the will.
HandlesDisconnect(c) ==
  /\ phase[c] = "reading"
  /\ GoesTo(c, "ending")
  /\ alive' = alive \ {c} /\ will' = [will EXCEPT ![c] = None]
  /\ fate' = Ended({c}, "goodbye")
  /\ UNCHANGED <<listed, subs, store, setup, late>>

Forgotten(c, f) == [f EXCEPT ![c] = "up"]

\* The finally of _handle(): off the list, and the will if the end was ungraceful;
\* authorize() is not asked.  Nothing refers to the session any more, its history
\* included.
Ends(c) ==
  /\ phase[c] = "ending"
  /\ GoesTo(c, "closed")
  /\ listed' = listed \ {c}
  /\ will' = [will EXCEPT ![c] = None] /\ subs' = [subs EXCEPT ![c] = {}]
  /\ IF c \in alive /\ will[c] # None
       THEN /\ count < MaxMessages
            /\ \E retain \in BOOLEAN, bad \in SUBSET Connections :
                 /\ bad \subseteq Wanting(listed', will[c])
                 /\ alive' = alive \ ({c} \cup bad)
                 /\ fate' = Forgotten(c, Ended(bad, "broken"))
                 /\ Publish(listed', will[c], retain, FALSE)
       ELSE alive' = alive \ {c} /\ fate' = Forgotten(c, fate) /\ UNCHANGED store
  /\ late' = [late EXCEPT ![c] = 0]
  /\ UNCHANGED setup

-----------------------------------------------------------------------------
(* From outside *)

\* Mutant of Kick: the session is dropped but not told that it is dead.
KickOnlyDrops(u) ==
  LET gone == {c \in listed : UserOf[c] = u}
  IN /\ gone # {}
     /\ listed' = listed \ gone
     /\ fate' = [c \in Connections |-> IF c \in gone THEN "kicked" ELSE fate[c]]
     /\ UNCHANGED <<phase, alive, will, subs, store, setup, late>>

\* kick(): every session of the user is dropped, without its will.
Kick(u) ==
  LET gone == {c \in listed : UserOf[c] = u}
  IN /\ gone # {}
     /\ listed' = listed \ gone /\ alive' = alive \ gone
     /\ will' = [c \in Connections |-> IF c \in gone THEN None ELSE will[c]]
     /\ fate' = [c \in Connections |-> IF c \in gone THEN "kicked" ELSE fate[c]]
     /\ UNCHANGED <<phase, subs, store, setup, late>>

\* stop(): no more connections are accepted, and wait_closed() is awaited.
Stop ==
  /\ server = "up"
  /\ server' = "closing"
  /\ UNCHANGED <<phase, session, store, requireAuth, history>>

Open == {c \in Connections : phase[c] \notin {"new", "closed"}}

\* Then every session is dropped, and stop() returns.
StopReturns ==
  /\ server = "closing"
  /\ CloseWaits => Open = {}
  /\ server' = "stopped"
  /\ alive' = alive \ listed
  /\ fate' = [c \in Connections |-> IF c \in listed THEN "stopped" ELSE fate[c]]
  /\ UNCHANGED <<phase, listed, will, subs, store, requireAuth, late>>

Init ==
  /\ phase = [c \in Connections |-> "new"]
  /\ alive = {} /\ listed = {}
  /\ will = [c \in Connections |-> None]
  /\ subs = [c \in Connections |-> {}]
  /\ retained = [t \in Topics |-> 0]
  /\ count = 0
  /\ server = "up" /\ requireAuth \in BOOLEAN
  /\ told = [c \in Connections |-> [t \in Topics |-> 0]]
  /\ fate = [c \in Connections |-> "up"]
  /\ late = [c \in Connections |-> 0]

Handles(c) ==
  \/ HandlesPublish(c) \/ HandlesSubscribe(c) \/ HandlesUnsubscribe(c)
  \/ HandlesOther(c) \/ HandlesDisconnect(c)

Next ==
  \/ \E c \in Connections :
       \/ Accepts(c) \/ Connects(c) \/ Refuses(c) \/ PacketRead(c) \/ ReadFails(c)
       \/ Handles(c) \/ Ends(c)
  \/ \E u \in Users : Kick(u)
  \/ Stop \/ StopReturns

Spec == Init /\ [][Next]_vars

-----------------------------------------------------------------------------
(* Properties *)

\* The types, and no session is listed whose coroutine has ended.
TypeOK ==
  /\ \A c \in listed : phase[c] \in {"serving", "reading", "ending"}
  /\ phase \in [Connections -> Phases]
  /\ alive \subseteq Connections /\ listed \subseteq Connections
  /\ will \in [Connections -> Topics \cup {None}]
  /\ subs \in [Connections -> SUBSET Filters]
  /\ retained \in [Topics -> Messages]
  /\ count \in Messages
  /\ server \in {"up", "closing", "stopped"} /\ requireAuth \in BOOLEAN
  /\ told \in [Connections -> [Topics -> Messages]]
  /\ fate \in [Connections -> Fates]
  /\ late \in [Connections -> 0..2]

\* What MQTT 3.1.1 says a filter stands for: "+" for one level, a last "#" for the
\* level above it and everything below, and neither for a first level with a "$".
Conforms(filt, topic) ==
  LET tree == filt[Len(filt)] = "#"
      base == IF tree THEN Len(filt) - 1 ELSE Len(filt)
  IN /\ IF tree THEN Len(topic) >= base ELSE Len(topic) = base
     /\ \A i \in 1..base : filt[i] = topic[i] \/ filt[i] = "+"
     /\ ~(topic[1] = "$SYS" /\ filt[1] \in {"+", "#"})
Sequences3(S) == UNION {[1..n -> S] : n \in 1..3}

\* topic_matches() is the matching of MQTT 3.1.1.  It depends on its arguments only:
\* to ask once, before anyone connects, is enough.
MatchesConform == phase = [c \in Connections |-> "new"] =>
  \A f \in Sequences3(Levels \cup {"+", "#"}), t \in Sequences3(Levels) :
    TopicMatches(f, t) <=> Conforms(f, t)

\* A session that is subscribed has been sent what is retained for a topic, or
\* something newer, whatever it did before and whoever published (_on_subscribe,
\* publish).
RetainedReaches ==
  \A c \in listed, t \in Topics :
    c \in alive /\ Wants(c, t) => told[c][t] >= retained[t]

\* When a session ends its will is published if, and only if, it ends without a
\* DISCONNECT, a kick or a stop and no write to it had failed, whichever of them
\* came between the end of its connection and the moment it is noticed.
WillMeansLost ==
  [][\A c \in Connections : phase[c] # "closed" /\ phase'[c] = "closed" =>
       (count' > count <=> fate[c] = "up" /\ will[c] # None)]_vars

\* Of a session that was kicked one message at most is taken: the one that had been
\* read when kick() ran (broker.py kick, "revocation has to take effect now").
KickSilences == \A c \in Connections : late[c] <= 1

\* What a session is and where its coroutine is: alive as long as nothing has ended
\* it, and nothing of it is left, or there yet, while it is not served.
Served == {"serving", "reading", "ending"}
SessionInv ==
  \A c \in Connections :
    IF phase[c] \in Served
      THEN c \in alive <=> fate[c] = "up"
      ELSE /\ c \notin alive \cup listed
           /\ will[c] = None /\ subs[c] = {}
           /\ fate[c] = "up" /\ late[c] = 0

\* Who was heard after a kick is on its way out.
KickInv ==
  \A c \in Connections : late[c] # 0 => late[c] = 1 /\ Shut(c) /\ phase[c] = "ending"

\* Messages are numbered as they are published.
RetainedInv == \A t \in Topics : retained[t] <= count

IInv == TypeOK /\ SessionInv /\ KickInv /\ RetainedInv /\ RetainedReaches
=============================================================================
