---------------------------- MODULE Broker_proofs ----------------------------
(***************************************************************************)
(* Wills, kicks and retained messages of Broker, for any number of         *)
(* connections, users, topics, filters and messages: nothing is assumed    *)
(* there of the matching of topics.  Last, the matching itself, for        *)
(* filters and topics of any length.                                       *)
(***************************************************************************)
EXTENDS Broker, WellFoundedInduction, TLAPS

\* The numbers of messages are numbers.
LEMMA MessagesAreNumbers ==
  ASSUME TypeOK
  PROVE  /\ count \in Nat /\ MaxMessages \in Nat
         /\ \A t \in Topics : retained[t] \in Nat
         /\ \A c \in Connections, t \in Topics : told[c][t] \in Nat
         /\ \A c \in Connections : late[c] \in 0..2
<1>1. \A c \in Connections : told[c] \in [Topics -> Messages]
  BY DEF TypeOK
<1>2. QED BY <1>1, BrokerAssumption DEF TypeOK, Messages

\* A message that is published reaches everybody in S who wants it, and is retained,
\* or clears what is, or neither.
LEMMA PublishReaches ==
  ASSUME TypeOK, RetainedInv, NEW S \in SUBSET Connections, NEW t \in Topics,
         NEW retain \in BOOLEAN, NEW empty \in BOOLEAN,
         Publish(S, t, retain, empty), count < MaxMessages
  PROVE  /\ count' = count + 1 /\ count' \in Messages
         /\ retained' \in [Topics -> Messages]
         /\ told' \in [Connections -> [Topics -> Messages]]
         /\ RetainedInv'
         /\ \A d \in S, u \in Topics :
              Wants(d, u) /\ told[d][u] >= retained[u] => told'[d][u] >= retained'[u]
<1>1. /\ count \in Nat /\ MaxMessages \in Nat
      /\ \A u \in Topics : retained[u] \in Nat
      /\ \A d \in Connections, u \in Topics : told[d][u] \in Nat
  BY MessagesAreNumbers
<1>2. count' = count + 1 /\ count' \in Messages /\ count + 1 \in Messages /\ 0 \in Messages
  BY <1>1 DEF Publish, Messages
<1>3. retained' = Retain(t, retain, empty) /\ retained \in [Topics -> Messages]
  BY DEF Publish, TypeOK
<1>4. retained' \in [Topics -> Messages]
  BY <1>2, <1>3 DEF Retain
<1>5. /\ retained'[t] \in {0, count + 1, retained[t]}
      /\ \A u \in Topics \ {t} : retained'[u] = retained[u]
  BY <1>3 DEF Retain
<1>6. \A u \in Topics : retained[u] <= count
  BY DEF RetainedInv
<1>7. RetainedInv'
  <2>1. \A u \in Topics : retained'[u] <= count + 1
    BY <1>1, <1>5, <1>6
  <2>2. QED BY <1>2, <2>1 DEF RetainedInv
<1>8. told' = [d \in Connections |->
                 IF d \in Wanting(S, t) THEN [told[d] EXCEPT ![t] = count + 1] ELSE told[d]]
  BY DEF Publish
<1>9. \A d \in Connections : told[d] \in [Topics -> Messages]
  BY DEF TypeOK
<1>10. told' \in [Connections -> [Topics -> Messages]]
  BY <1>2, <1>8, <1>9
<1>11. ASSUME NEW d \in S, NEW u \in Topics, Wants(d, u), told[d][u] >= retained[u]
       PROVE  told'[d][u] >= retained'[u]
  <2>1. CASE u = t
    <3>1. d \in Wanting(S, t)
      BY <1>11, <2>1 DEF Wanting
    <3>2. told'[d][u] = count + 1
      BY <1>8, <1>9, <2>1, <3>1
    <3>3. QED BY <1>1, <1>5, <1>6, <2>1, <3>2
  <2>2. CASE u # t
    <3>1. told'[d][u] = told[d][u]
      BY <1>8, <1>9, <2>2
    <3>2. QED BY <1>5, <1>11, <2>2, <3>1
  <2>3. QED BY <2>1, <2>2
<1>12. QED BY <1>2, <1>4, <1>7, <1>10, <1>11

\* A packet that was handled leaves a session as alive as its writes were received,
\* and one that was shut hears no more than this packet.
LEMMA HandledSession ==
  ASSUME IInv, NEW c \in Connections, phase[c] = "reading",
         NEW S \in SUBSET (listed \cup {c}), NEW bad, Writes(S, bad), Resumes(c),
         listed' = listed, will' = will,
         \A d \in Connections \ {c} : subs'[d] = subs[d],
         \/ late' = late
         \/ late' = [late EXCEPT ![c] = IF Shut(c) /\ @ < 2 THEN @ + 1 ELSE @]
  PROVE  /\ SessionInv' /\ KickInv'
         /\ phase' \in [Connections -> Phases]
         /\ alive' \subseteq alive
         /\ fate' \in [Connections -> Fates]
         /\ late' \in [Connections -> 0..2]
         /\ \A d \in listed' : phase'[d] \in Served
<1>1. /\ TypeOK /\ SessionInv /\ KickInv
      /\ \A d \in listed : phase[d] \in Served
  BY DEF IInv, TypeOK, Served
<1>2. /\ alive' = alive \ bad /\ bad \subseteq S
      /\ fate' = Ended(bad, "broken")
      /\ S \subseteq Connections /\ \A d \in S : phase[d] \in Served
  BY <1>1 DEF Writes, TypeOK, Served
<1>3. \/ c \in alive' /\ phase' = [phase EXCEPT ![c] = "serving"]
      \/ c \in alive' /\ phase' = [phase EXCEPT ![c] = "reading"]
      \/ c \notin alive' /\ phase' = [phase EXCEPT ![c] = "ending"]
  BY DEF Resumes, GoesTo
<1>4. /\ phase \in [Connections -> Phases]
      /\ \A d \in Connections \ {c} : phase'[d] = phase[d]
      /\ phase'[c] \in Served
      /\ c \notin alive' => phase'[c] = "ending"
  BY <1>1, <1>3 DEF TypeOK, Served
<1>5. phase' \in [Connections -> Phases]
  BY <1>3, <1>4 DEF Phases
<1>6. \A d \in Connections :
        fate'[d] = IF d \in bad /\ fate[d] = "up" THEN "broken" ELSE fate[d]
  BY <1>2 DEF Ended
<1>7. fate' \in [Connections -> Fates]
  BY <1>1, <1>2 DEF Ended, TypeOK, Fates
<1>8. /\ \A d \in Connections \ {c} : late'[d] = late[d]
      /\ late'[c] = late[c] \/ (Shut(c) /\ late[c] < 2 /\ late'[c] = late[c] + 1)
      /\ late' \in [Connections -> 0..2]
  <2>1. late \in [Connections -> 0..2]
    BY <1>1 DEF TypeOK
  <2>2. QED BY <2>1
<1>9. late[c] = 0
  BY <1>1 DEF KickInv
<1>10. SessionInv'
  <2> SUFFICES ASSUME NEW d \in Connections
               PROVE  IF phase'[d] \in Served
                        THEN d \in alive' <=> fate'[d] = "up"
                        ELSE /\ d \notin alive' \cup listed'
                             /\ will'[d] = None /\ subs'[d] = {}
                             /\ fate'[d] = "up" /\ late'[d] = 0
    BY DEF SessionInv
  <2>1. CASE phase[d] \in Served
    <3>1. phase'[d] \in Served
      BY <1>4, <2>1
    <3>2. d \in alive <=> fate[d] = "up"
      BY <1>1, <2>1 DEF SessionInv
    <3>3. QED BY <1>2, <1>6, <3>1, <3>2
  <2>2. CASE phase[d] \notin Served
    <3>1. d # c /\ d \notin bad /\ phase'[d] \notin Served
      BY <1>2, <1>4, <2>2 DEF Served
    <3>2. QED BY <1>1, <1>2, <1>6, <1>8, <2>2, <3>1 DEF SessionInv
  <2>3. QED BY <2>1, <2>2
<1>11. KickInv'
  <2> SUFFICES ASSUME NEW d \in Connections, late'[d] # 0
               PROVE  /\ late'[d] = 1 /\ phase'[d] = "ending"
                      /\ fate'[d] \in {"kicked", "stopped"}
    BY DEF KickInv, Shut
  <2>1. CASE d # c
    BY <1>1, <1>4, <1>6, <1>8, <2>1 DEF KickInv, Shut
  <2>2. CASE d = c
    <3>1. Shut(c) /\ late'[c] = 1
      BY <1>8, <1>9, <2>2
    <3>2. c \notin alive
      BY <1>1, <3>1 DEF SessionInv, Shut, Served
    <3>3. QED BY <1>2, <1>4, <1>6, <2>2, <3>1, <3>2 DEF Shut
  <2>3. QED BY <2>1, <2>2
<1>12. \A d \in listed' : phase'[d] \in Served
  <2>1. listed \subseteq Connections
    BY <1>1 DEF TypeOK
  <2>2. QED BY <1>1, <1>4, <2>1
<1>13. alive' \subseteq alive
  BY <1>2
<1>14. QED BY <1>5, <1>7, <1>8, <1>10, <1>11, <1>12, <1>13

-----------------------------------------------------------------------------
LEMMA InitIInv == Init => IInv
<1> SUFFICES ASSUME Init PROVE IInv
  OBVIOUS
<1>1. 0 \in Messages
  BY BrokerAssumption DEF Messages
<1>2. TypeOK
  BY <1>1 DEF Init, TypeOK, Phases, Fates
<1>3. SessionInv /\ KickInv
  BY DEF Init, SessionInv, KickInv, Served
<1>4. RetainedInv /\ RetainedReaches
  BY DEF Init, RetainedInv, RetainedReaches
<1>5. QED BY <1>2, <1>3, <1>4 DEF IInv

\* Connections that come and go before or without a CONNECT, and packets that arrive.
LEMMA ConnectionKeeps ==
  ASSUME IInv, NEW c \in Connections,
         Accepts(c) \/ Connects(c) \/ Refuses(c) \/ PacketRead(c) \/ ReadFails(c)
  PROVE  IInv'
<1>1. TypeOK /\ SessionInv /\ KickInv /\ RetainedInv /\ RetainedReaches
  BY DEF IInv
<1>2. /\ UNCHANGED <<subs, retained, count, told, setup, fate, late>>
      /\ \E p \in Phases : phase' = [phase EXCEPT ![c] = p]
      /\ alive \subseteq alive'
      /\ alive' \subseteq alive \cup {c} /\ listed' \subseteq listed \cup {c}
      /\ will' \in [Connections -> Topics \cup {None}]
  BY <1>1 DEF Accepts, Connects, Refuses, PacketRead, ReadFails, GoesTo, session, store,
              history, TypeOK, Phases
<1>3. RetainedInv'
  BY <1>1, <1>2 DEF RetainedInv
<1>4. CASE Connects(c)
  <2>1. /\ phase[c] = "greeting"
        /\ phase' = [phase EXCEPT ![c] = "serving"]
        /\ alive' = alive \cup {c} /\ listed' = listed \cup {c}
        /\ \A d \in Connections \ {c} : will'[d] = will[d]
    BY <1>1, <1>4 DEF Connects, GoesTo, TypeOK
  <2>2. TypeOK'
    <3>1. \A d \in listed' : phase'[d] \in {"serving", "reading", "ending"}
      BY <1>1, <2>1 DEF TypeOK
    <3>2. phase' \in [Connections -> Phases]
      BY <1>1, <1>2 DEF TypeOK
    <3>3. QED BY <1>1, <1>2, <2>1, <3>1, <3>2 DEF TypeOK, setup
  <2>3. SessionInv' /\ KickInv'
    <3>1. /\ \A d \in Connections \ {c} : phase'[d] = phase[d]
          /\ phase'[c] = "serving" /\ phase[c] = "greeting"
      BY <1>1, <2>1 DEF TypeOK
    <3>2. fate[c] = "up" /\ late[c] = 0
      BY <1>1, <3>1 DEF SessionInv, Served
    <3>3. SessionInv'
      BY <1>1, <1>2, <2>1, <3>1, <3>2 DEF SessionInv, Served
    <3>4. KickInv'
      BY <1>1, <1>2, <3>1, <3>2 DEF KickInv, Shut
    <3>5. QED BY <3>3, <3>4
  <2>4. RetainedReaches'
    <3>1. subs[c] = {}
      BY <1>1, <2>1 DEF SessionInv, Served
    <3>2. QED BY <1>1, <1>2, <2>1, <3>1 DEF RetainedReaches, Wants
  <2>5. QED BY <1>3, <2>2, <2>3, <2>4 DEF IInv
<1>5. CASE Accepts(c) \/ Refuses(c)
  <2>1. /\ UNCHANGED <<alive, listed, will>>
        /\ phase[c] \notin Served
        /\ \/ phase' = [phase EXCEPT ![c] = "greeting"]
           \/ phase' = [phase EXCEPT ![c] = "closed"]
    BY <1>5 DEF Accepts, Refuses, GoesTo, session, Served
  <2>2. TypeOK'
    BY <1>1, <1>2, <2>1 DEF TypeOK, setup, Served
  <2>3. SessionInv' /\ KickInv'
    BY <1>1, <1>2, <2>1 DEF TypeOK, SessionInv, KickInv, Served, Shut
  <2>4. RetainedReaches'
    BY <1>1, <1>2, <2>1 DEF RetainedReaches, Wants
  <2>5. QED BY <1>3, <2>2, <2>3, <2>4 DEF IInv
<1>6. CASE PacketRead(c) \/ ReadFails(c)
  <2>1. /\ UNCHANGED <<alive, listed, will>>
        /\ phase[c] \in Served
        /\ \/ phase[c] = "serving" /\ ~Shut(c) /\ phase' = [phase EXCEPT ![c] = "reading"]
           \/ phase' = [phase EXCEPT ![c] = "ending"]
    BY <1>6 DEF PacketRead, ReadFails, GoesTo, session, Served
  <2>2. TypeOK'
    BY <1>1, <1>2, <2>1 DEF TypeOK, setup, Served
  <2>3. SessionInv' /\ KickInv'
    BY <1>1, <1>2, <2>1 DEF TypeOK, SessionInv, KickInv, Served, Shut
  <2>4. RetainedReaches'
    BY <1>1, <1>2, <2>1 DEF RetainedReaches, Wants
  <2>5. QED BY <1>3, <2>2, <2>3, <2>4 DEF IInv
<1>7. QED BY <1>4, <1>5, <1>6

-----------------------------------------------------------------------------
\* The packets.
LEMMA PublishKeeps ==
  ASSUME IInv, NEW c \in Connections, HandlesPublish(c)
  PROVE  IInv'
<1>1. TypeOK /\ SessionInv /\ KickInv /\ RetainedInv /\ RetainedReaches
  BY DEF IInv
<1>2. /\ phase[c] = "reading" /\ count < MaxMessages
      /\ late' = [late EXCEPT ![c] = IF Shut(c) /\ @ < 2 THEN @ + 1 ELSE @]
      /\ Resumes(c)
      /\ listed' = listed /\ will' = will /\ subs' = subs /\ setup' = setup
  BY DEF HandlesPublish
<1>3. PICK t \in Topics, retain \in BOOLEAN, empty \in BOOLEAN,
           bad \in SUBSET Connections :
        /\ Writes({c} \cup Wanting(listed, t), bad)
        /\ Publish(listed, t, retain, empty)
  BY DEF HandlesPublish
<1>4. t \in Topics
  BY <1>3
<1>5. listed \in SUBSET Connections
  BY <1>1 DEF TypeOK
<1>6. {c} \cup Wanting(listed, t) \in SUBSET (listed \cup {c})
  BY DEF Wanting
<1>7. /\ SessionInv' /\ KickInv'
      /\ phase' \in [Connections -> Phases]
      /\ alive' \subseteq alive
      /\ fate' \in [Connections -> Fates]
      /\ late' \in [Connections -> 0..2]
      /\ \A d \in listed' : phase'[d] \in Served
  BY <1>2, <1>3, <1>6, HandledSession
<1>8. /\ count' = count + 1 /\ count' \in Messages
      /\ retained' \in [Topics -> Messages]
      /\ told' \in [Connections -> [Topics -> Messages]]
      /\ RetainedInv'
      /\ \A d \in listed, u \in Topics :
           Wants(d, u) /\ told[d][u] >= retained[u] => told'[d][u] >= retained'[u]
  BY <1>1, <1>2, <1>3, <1>4, <1>5, PublishReaches
<1>9. TypeOK'
  BY <1>1, <1>2, <1>7, <1>8 DEF TypeOK, setup, Served
<1>10. RetainedReaches'
  BY <1>1, <1>2, <1>7, <1>8 DEF RetainedReaches, Wants
<1>11. QED BY <1>7, <1>8, <1>9, <1>10 DEF IInv

LEMMA SubscribeKeeps ==
  ASSUME IInv, NEW c \in Connections, HandlesSubscribe(c)
  PROVE  IInv'
<1>1. TypeOK /\ SessionInv /\ KickInv /\ RetainedInv /\ RetainedReaches
  BY DEF IInv
<1>2. /\ phase[c] = "reading" /\ Resumes(c)
      /\ UNCHANGED <<listed, will, retained, count, setup, late>>
  BY DEF HandlesSubscribe
<1>3. PICK bad \in SUBSET {c} : Writes({c}, bad)
  BY DEF HandlesSubscribe
<1>4. PICK fs \in SUBSET Filters \ {{}} :
        /\ subs' = [subs EXCEPT ![c] = @ \cup fs]
        /\ told' = [told EXCEPT ![c] = [t \in Topics |->
                      IF t \in Replayed(fs) THEN retained[t] ELSE @[t]]]
  BY DEF HandlesSubscribe
<1>5. /\ subs \in [Connections -> SUBSET Filters]
      /\ told \in [Connections -> [Topics -> Messages]]
      /\ retained \in [Topics -> Messages]
      /\ listed \subseteq Connections
  BY <1>1 DEF TypeOK
<1>6. /\ subs' \in [Connections -> SUBSET Filters]
      /\ subs'[c] = subs[c] \cup fs
      /\ \A d \in Connections \ {c} : subs'[d] = subs[d]
  BY <1>4, <1>5
<1>7. /\ told' \in [Connections -> [Topics -> Messages]]
      /\ \A d \in Connections \ {c} : told'[d] = told[d]
      /\ \A t \in Topics :
           told'[c][t] = IF t \in Replayed(fs) THEN retained[t] ELSE told[c][t]
  BY <1>4, <1>5
<1>8. /\ SessionInv' /\ KickInv'
      /\ phase' \in [Connections -> Phases]
      /\ alive' \subseteq alive
      /\ fate' \in [Connections -> Fates]
      /\ \A d \in listed' : phase'[d] \in Served
  <2>1. {c} \in SUBSET (listed \cup {c})
    OBVIOUS
  <2>2. QED BY <1>2, <1>3, <1>6, <2>1, HandledSession
<1>9. TypeOK'
  BY <1>1, <1>2, <1>6, <1>7, <1>8 DEF TypeOK, setup, Served
<1>10. RetainedReaches'
  <2> SUFFICES ASSUME NEW d \in listed, NEW t \in Topics, d \in alive', Wants(d, t)'
               PROVE  told'[d][t] >= retained[t]
    BY <1>2 DEF RetainedReaches
  <2>1. d \in alive /\ d \in Connections
    BY <1>5, <1>8
  <2>2. CASE Wants(d, t)
    <3>1. told[d][t] >= retained[t]
      BY <1>1, <2>1, <2>2 DEF RetainedReaches
    <3>2. told'[d][t] = told[d][t] \/ told'[d][t] = retained[t]
      BY <1>7, <2>1
    <3>3. retained[t] \in Nat
      BY <1>1, MessagesAreNumbers
    <3>4. QED BY <3>1, <3>2, <3>3
  <2>3. CASE ~Wants(d, t)
    <3>1. d = c /\ \E f \in fs : TopicMatches(f, t)
      BY <1>6, <2>1, <2>3 DEF Wants
    <3>2. /\ retained[t] \in Nat /\ told[c][t] \in Nat
      BY <1>1, MessagesAreNumbers
    <3>3. retained[t] # 0 => told'[c][t] = retained[t]
      BY <1>7, <3>1 DEF Replayed
    <3>4. retained[t] = 0 => told'[c][t] = retained[t] \/ told'[c][t] = told[c][t]
      BY <1>7
    <3>5. QED BY <3>1, <3>2, <3>3, <3>4
  <2>4. QED BY <2>2, <2>3
<1>11. RetainedInv'
  BY <1>1, <1>2 DEF RetainedInv
<1>12. QED BY <1>8, <1>9, <1>10, <1>11 DEF IInv

\* UNSUBSCRIBE, and what changes nothing but the session that sent it.
LEMMA OthersKeep ==
  ASSUME IInv, NEW c \in Connections, HandlesUnsubscribe(c) \/ HandlesOther(c)
  PROVE  IInv'
<1>1. TypeOK /\ SessionInv /\ KickInv /\ RetainedInv /\ RetainedReaches
  BY DEF IInv
<1>2. /\ phase[c] = "reading" /\ Resumes(c)
      /\ UNCHANGED <<listed, will, retained, count, told, setup, late>>
      /\ \E bad \in SUBSET {c} : Writes({c}, bad)
  BY DEF HandlesUnsubscribe, HandlesOther, store
<1>3. /\ subs' \in [Connections -> SUBSET Filters]
      /\ \A d \in Connections : subs'[d] \subseteq subs[d]
      /\ \A d \in Connections \ {c} : subs'[d] = subs[d]
  BY <1>1 DEF HandlesUnsubscribe, HandlesOther, TypeOK
<1>4. /\ SessionInv' /\ KickInv'
      /\ phase' \in [Connections -> Phases]
      /\ alive' \subseteq alive
      /\ fate' \in [Connections -> Fates]
      /\ \A d \in listed' : phase'[d] \in Served
  <2>1. {c} \in SUBSET (listed \cup {c})
    OBVIOUS
  <2>2. QED BY <1>2, <1>3, <2>1, HandledSession
<1>5. TypeOK'
  BY <1>1, <1>2, <1>3, <1>4 DEF TypeOK, setup, Served
<1>6. RetainedReaches' /\ RetainedInv'
  BY <1>1, <1>2, <1>3, <1>4 DEF RetainedReaches, RetainedInv, Wants, TypeOK
<1>7. QED BY <1>4, <1>5, <1>6 DEF IInv

LEMMA DisconnectKeeps ==
  ASSUME IInv, NEW c \in Connections, HandlesDisconnect(c)
  PROVE  IInv'
<1>1. TypeOK /\ SessionInv /\ KickInv /\ RetainedInv /\ RetainedReaches
  BY DEF IInv
<1>2. /\ phase[c] = "reading"
      /\ phase' = [phase EXCEPT ![c] = "ending"]
      /\ alive' = alive \ {c} /\ will' = [will EXCEPT ![c] = None]
      /\ fate' = Ended({c}, "goodbye")
      /\ UNCHANGED <<listed, subs, retained, count, told, setup, late>>
  BY DEF HandlesDisconnect, GoesTo, store
<1>3. \A d \in Connections :
        fate'[d] = IF d = c /\ fate[d] = "up" THEN "goodbye" ELSE fate[d]
  BY <1>2 DEF Ended
<1>4. TypeOK'
  <2>1. fate' \in [Connections -> Fates]
    BY <1>1, <1>2 DEF Ended, TypeOK, Fates
  <2>2. phase' \in [Connections -> Phases]
    BY <1>1, <1>2 DEF TypeOK, Phases
  <2>3. \A d \in listed' : phase'[d] \in {"serving", "reading", "ending"}
    BY <1>1, <1>2 DEF TypeOK
  <2>4. QED BY <1>1, <1>2, <2>1, <2>2, <2>3 DEF TypeOK, setup
<1>5. SessionInv'
  BY <1>1, <1>2, <1>3 DEF TypeOK, SessionInv, Served
<1>6. KickInv'
  BY <1>1, <1>2, <1>3 DEF TypeOK, KickInv, Shut
<1>7. RetainedReaches' /\ RetainedInv'
  BY <1>1, <1>2 DEF RetainedReaches, RetainedInv, Wants
<1>8. QED BY <1>4, <1>5, <1>6, <1>7 DEF IInv

-----------------------------------------------------------------------------
\* What follows a session's end: it is gone, and those who read its will and could
\* not be written to are on their way out.
LEMMA EndsKeeps ==
  ASSUME IInv, NEW c \in Connections, Ends(c)
  PROVE  /\ IInv'
         /\ count' > count <=> fate[c] = "up" /\ will[c] # None
         /\ \A d \in Connections \ {c} : phase'[d] = phase[d]
<1>1. TypeOK /\ SessionInv /\ KickInv /\ RetainedInv /\ RetainedReaches
  BY DEF IInv
<1>2. /\ phase[c] = "ending"
      /\ phase' = [phase EXCEPT ![c] = "closed"]
      /\ listed' = listed \ {c}
      /\ will' = [will EXCEPT ![c] = None] /\ subs' = [subs EXCEPT ![c] = {}]
      /\ late' = [late EXCEPT ![c] = 0]
      /\ setup' = setup
  BY DEF Ends, GoesTo
<1>3. c \in alive <=> fate[c] = "up"
  BY <1>1, <1>2 DEF SessionInv, Served
<1>4. listed \subseteq Connections /\ listed' \subseteq Connections /\ count \in Nat
  BY <1>1, <1>2, MessagesAreNumbers DEF TypeOK
<1>5. /\ \A d \in Connections \ {c} :
           phase'[d] = phase[d] /\ will'[d] = will[d] /\ subs'[d] = subs[d]
             /\ late'[d] = late[d]
      /\ phase'[c] = "closed" /\ will'[c] = None /\ subs'[c] = {} /\ late'[c] = 0
  BY <1>1, <1>2 DEF TypeOK
<1>6. /\ phase' \in [Connections -> Phases]
      /\ will' \in [Connections -> Topics \cup {None}]
      /\ subs' \in [Connections -> SUBSET Filters]
      /\ late' \in [Connections -> 0..2]
      /\ \A d \in listed' : phase'[d] \in {"serving", "reading", "ending"}
  BY <1>1, <1>2, <1>4, <1>5 DEF TypeOK, Phases
<1>7. PICK bad \in SUBSET listed' :
        /\ alive' = alive \ ({c} \cup bad)
        /\ fate' = Forgotten(c, Ended(bad, "broken"))
  <2>1. CASE c \in alive /\ will[c] # None
    <3>1. PICK bad \in SUBSET Connections :
            /\ bad \subseteq Wanting(listed', will[c])
            /\ alive' = alive \ ({c} \cup bad)
            /\ fate' = Forgotten(c, Ended(bad, "broken"))
      BY <2>1 DEF Ends
    <3>2. bad \in SUBSET listed'
      BY <3>1 DEF Wanting
    <3>3. QED BY <3>1, <3>2
  <2>2. CASE ~(c \in alive /\ will[c] # None)
    <3>1. alive' = alive \ {c} /\ fate' = Forgotten(c, fate)
      BY <2>2 DEF Ends
    <3>2. Ended({}, "broken") = fate
      BY <1>1 DEF Ended, TypeOK
    <3>3. {} \in SUBSET listed'
      OBVIOUS
    <3>4. alive' = alive \ ({c} \cup {}) /\ fate' = Forgotten(c, Ended({}, "broken"))
      BY <3>1, <3>2
    <3>5. QED BY <3>3, <3>4
  <2>3. QED BY <2>1, <2>2
<1>8. /\ fate' \in [Connections -> Fates]
      /\ fate'[c] = "up"
      /\ \A d \in Connections \ {c} :
           fate'[d] = IF d \in bad /\ fate[d] = "up" THEN "broken" ELSE fate[d]
  <2>1. Ended(bad, "broken") \in [Connections -> Fates]
    BY <1>1 DEF Ended, TypeOK, Fates
  <2>2. /\ fate' = [Ended(bad, "broken") EXCEPT ![c] = "up"]
        /\ "up" \in Fates
    BY <1>7 DEF Forgotten, Fates
  <2>3. \A d \in Connections :
          Ended(bad, "broken")[d] = IF d \in bad /\ fate[d] = "up" THEN "broken" ELSE fate[d]
    BY DEF Ended
  <2>4. QED BY <2>1, <2>2, <2>3
<1>9. /\ count' \in Messages
      /\ retained' \in [Topics -> Messages]
      /\ told' \in [Connections -> [Topics -> Messages]]
      /\ RetainedInv'
      /\ \A d \in listed', u \in Topics :
           Wants(d, u) /\ told[d][u] >= retained[u] => told'[d][u] >= retained'[u]
      /\ count' > count <=> c \in alive /\ will[c] # None
  <2>1. CASE c \in alive /\ will[c] # None
    <3>1. PICK retain \in BOOLEAN : Publish(listed', will[c], retain, FALSE)
      BY <2>1 DEF Ends
    <3>2. count < MaxMessages /\ will[c] \in Topics
      BY <1>1, <2>1 DEF Ends, TypeOK
    <3>3. listed' \in SUBSET Connections
      BY <1>4
    <3>4. /\ count' = count + 1 /\ count' \in Messages
          /\ retained' \in [Topics -> Messages]
          /\ told' \in [Connections -> [Topics -> Messages]]
          /\ RetainedInv'
          /\ \A d \in listed', u \in Topics :
               Wants(d, u) /\ told[d][u] >= retained[u] => told'[d][u] >= retained'[u]
      BY <1>1, <3>1, <3>2, <3>3, PublishReaches
    <3>5. QED BY <1>4, <2>1, <3>4
  <2>2. CASE ~(c \in alive /\ will[c] # None)
    <3>1. UNCHANGED <<retained, count, told>>
      BY <2>2 DEF Ends, store
    <3>2. QED BY <1>1, <1>4, <2>2, <3>1 DEF TypeOK, RetainedInv
  <2>3. QED BY <2>1, <2>2
<1>10. TypeOK'
  BY <1>1, <1>2, <1>4, <1>6, <1>7, <1>8, <1>9 DEF TypeOK, setup
<1>11. SessionInv'
  <2> SUFFICES ASSUME NEW d \in Connections
               PROVE  IF phase'[d] \in Served
                        THEN d \in alive' <=> fate'[d] = "up"
                        ELSE /\ d \notin alive' \cup listed'
                             /\ will'[d] = None /\ subs'[d] = {}
                             /\ fate'[d] = "up" /\ late'[d] = 0
    BY DEF SessionInv
  <2>1. CASE d = c
    BY <1>2, <1>5, <1>7, <1>8, <2>1 DEF Served
  <2>2. CASE d # c /\ phase[d] \in Served
    <3>1. d \in alive <=> fate[d] = "up"
      BY <1>1, <2>2 DEF SessionInv
    <3>2. QED BY <1>5, <1>7, <1>8, <2>2, <3>1
  <2>3. CASE d # c /\ phase[d] \notin Served
    <3>1. d \notin alive \cup listed /\ fate[d] = "up"
      BY <1>1, <2>3 DEF SessionInv
    <3>2. d \notin bad
      BY <1>2, <1>7, <3>1
    <3>3. QED BY <1>1, <1>2, <1>5, <1>7, <1>8, <2>3, <3>1, <3>2 DEF SessionInv
  <2>4. QED BY <2>1, <2>2, <2>3
<1>12. KickInv'
  BY <1>1, <1>5, <1>8 DEF KickInv, Shut
<1>13. RetainedReaches'
  <2> SUFFICES ASSUME NEW d \in listed', NEW t \in Topics, d \in alive', Wants(d, t)'
               PROVE  told'[d][t] >= retained'[t]
    BY DEF RetainedReaches
  <2>1. d \in listed /\ d \in alive /\ d \in Connections \ {c}
    BY <1>2, <1>4, <1>7
  <2>2. Wants(d, t)
    BY <1>5, <2>1 DEF Wants
  <2>3. QED BY <1>1, <1>9, <2>1, <2>2 DEF RetainedReaches
<1>14. IInv'
  BY <1>9, <1>10, <1>11, <1>12, <1>13 DEF IInv
<1>15. QED BY <1>3, <1>5, <1>9, <1>14

-----------------------------------------------------------------------------
\* The sessions a kick or a stop drops are no longer alive, and had heard nothing
\* since an earlier one unless they are on their way out.
LEMMA DroppedKeep ==
  ASSUME IInv, NEW S \in SUBSET listed, NEW f \in {"kicked", "stopped"},
         alive' = alive \ S,
         fate' = [c \in Connections |-> IF c \in S THEN f ELSE fate[c]],
         phase' = phase, listed' \subseteq listed,
         \A c \in Connections : will'[c] \in {will[c], None},
         UNCHANGED <<subs, retained, count, told, late>>
  PROVE  /\ fate' \in [Connections -> Fates]
         /\ SessionInv' /\ KickInv' /\ RetainedInv' /\ RetainedReaches'
<1>1. TypeOK /\ SessionInv /\ KickInv /\ RetainedInv /\ RetainedReaches
  BY DEF IInv
<1>2. S \subseteq Connections /\ \A c \in S : phase[c] \in Served
  BY <1>1 DEF TypeOK, Served
<1>3. fate' \in [Connections -> Fates]
  BY <1>1 DEF TypeOK, Fates
<1>4. SessionInv'
  BY <1>1, <1>2 DEF SessionInv
<1>5. KickInv'
  BY <1>1 DEF KickInv, Shut
<1>6. RetainedInv' /\ RetainedReaches'
  BY <1>1 DEF RetainedInv, RetainedReaches, Wants
<1>7. QED BY <1>3, <1>4, <1>5, <1>6

LEMMA KickKeeps ==
  ASSUME IInv, NEW u \in Users, Kick(u)
  PROVE  IInv' /\ phase' = phase
<1> DEFINE gone == {c \in listed : UserOf[c] = u}
<1>1. /\ listed' = listed \ gone /\ alive' = alive \ gone
      /\ will' = [c \in Connections |-> IF c \in gone THEN None ELSE will[c]]
      /\ fate' = [c \in Connections |-> IF c \in gone THEN "kicked" ELSE fate[c]]
      /\ UNCHANGED <<phase, subs, retained, count, told, setup, late>>
  BY DEF Kick, store
<1>2. /\ gone \in SUBSET listed /\ listed' \subseteq listed
      /\ "kicked" \in {"kicked", "stopped"}
      /\ \A c \in Connections : will'[c] \in {will[c], None}
  BY <1>1
<1> HIDE DEF gone
<1>3. /\ fate' \in [Connections -> Fates]
      /\ SessionInv' /\ KickInv' /\ RetainedInv' /\ RetainedReaches'
  BY <1>1, <1>2, DroppedKeep
<1>4. will' \in [Connections -> Topics \cup {None}]
  BY <1>1 DEF IInv, TypeOK
<1>5. TypeOK'
  BY <1>1, <1>2, <1>3, <1>4 DEF IInv, TypeOK, setup
<1>6. QED BY <1>1, <1>3, <1>5 DEF IInv

LEMMA StopKeeps ==
  ASSUME IInv, Stop \/ StopReturns
  PROVE  IInv' /\ phase' = phase
<1>1. CASE Stop
  <2>1. /\ UNCHANGED <<phase, alive, listed, will, subs, retained, count, told, fate, late>>
        /\ server' = "closing" /\ requireAuth' = requireAuth
    BY <1>1 DEF Stop, session, store, history
  <2>2. QED BY <2>1 DEF IInv, TypeOK, SessionInv, KickInv, RetainedInv, RetainedReaches,
                        Shut, Wants
<1>2. CASE StopReturns
  <2>1. /\ alive' = alive \ listed
        /\ fate' = [c \in Connections |-> IF c \in listed THEN "stopped" ELSE fate[c]]
        /\ UNCHANGED <<phase, listed, will, subs, retained, count, told, late>>
        /\ server' = "stopped" /\ requireAuth' = requireAuth
    BY <1>2 DEF StopReturns, store
  <2>2. listed \in SUBSET listed /\ "stopped" \in {"kicked", "stopped"}
    OBVIOUS
  <2>3. /\ fate' \in [Connections -> Fates]
        /\ SessionInv' /\ KickInv' /\ RetainedInv' /\ RetainedReaches'
    BY <2>1, <2>2, DroppedKeep
  <2>4. TypeOK'
    BY <2>1, <2>3 DEF IInv, TypeOK, setup
  <2>5. QED BY <2>1, <2>3, <2>4 DEF IInv
<1>3. QED BY <1>1, <1>2

-----------------------------------------------------------------------------
\* A handler that goes on after its packet leaves its session open.
LEMMA HandlesKeeps ==
  ASSUME IInv, NEW c \in Connections, Handles(c)
  PROVE  /\ IInv'
         /\ \A d \in Connections : phase'[d] = "closed" => phase[d] = "closed"
<1>1. IInv'
  BY PublishKeeps, SubscribeKeeps, OthersKeep, DisconnectKeeps DEF Handles
<1>2. \/ phase' = [phase EXCEPT ![c] = "serving"]
      \/ phase' = [phase EXCEPT ![c] = "reading"]
      \/ phase' = [phase EXCEPT ![c] = "ending"]
  BY DEF Handles, HandlesPublish, HandlesSubscribe, HandlesUnsubscribe, HandlesOther,
         HandlesDisconnect, Resumes, GoesTo
<1>3. phase \in [Connections -> Phases]
  BY DEF IInv, TypeOK
<1>4. QED BY <1>1, <1>2, <1>3

\* Packets, ends, kicks and stops in any order: a session is alive until something
\* ends it, and what is retained has reached whoever asked for it.
THEOREM InductiveInvariant == Spec => []IInv
<1>1. Init => IInv
  BY InitIInv
<1>2. IInv /\ [Next]_vars => IInv'
  <2> SUFFICES ASSUME IInv, [Next]_vars PROVE IInv'
    OBVIOUS
  <2>1. ASSUME NEW c \in Connections,
               \/ Accepts(c) \/ Connects(c) \/ Refuses(c) \/ PacketRead(c) \/ ReadFails(c)
               \/ Handles(c) \/ Ends(c)
        PROVE  IInv'
    BY <2>1, ConnectionKeeps, HandlesKeeps, EndsKeeps
  <2>2. ASSUME NEW u \in Users, Kick(u)
        PROVE  IInv'
    BY <2>2, KickKeeps
  <2>3. CASE Stop \/ StopReturns
    BY <2>3, StopKeeps
  <2>4. CASE UNCHANGED vars
    <3>1. UNCHANGED <<phase, alive, listed, will, subs, retained, count, told, setup,
                      fate, late>>
      BY <2>4 DEF vars, session, store, history
    <3>2. QED BY <3>1 DEF IInv, TypeOK, setup, SessionInv, KickInv, RetainedInv,
                          RetainedReaches, Shut, Wants
  <2>5. QED BY <2>1, <2>2, <2>3, <2>4 DEF Next
<1>3. QED BY <1>1, <1>2, PTL DEF Spec

\* Sessions, the list, wills, subscriptions and what is retained keep their types.
THEOREM TypeCorrect == Spec => []TypeOK
<1>1. IInv => TypeOK
  BY DEF IInv
<1>2. QED BY <1>1, InductiveInvariant, PTL

\* However subscriptions, publications and losses interleave, a session that wants a
\* topic has been sent what is retained for it (_on_subscribe, publish).
THEOREM RetainedReachesAll == Spec => []RetainedReaches
<1>1. IInv => RetainedReaches
  BY DEF IInv
<1>2. QED BY <1>1, InductiveInvariant, PTL

\* kick() is heard at once: at most the packet that had been read is still handled.
THEOREM KickedAreSilent == Spec => []KickSilences
<1>1. IInv => KickSilences
  <2> SUFFICES ASSUME IInv, NEW c \in Connections PROVE late[c] <= 1
    BY DEF KickSilences
  <2>1. late[c] = 0 \/ late[c] = 1
    BY DEF IInv, KickInv
  <2>2. QED BY <2>1
<1>2. QED BY <1>1, InductiveInvariant, PTL

\* The last will is published exactly when a connection was lost (_handle, kick,
\* _write, _serve).
THEOREM WillsMeanLoss == Spec => WillMeansLost
<1>1. IInv /\ [Next]_vars =>
        [\A c \in Connections : phase[c] # "closed" /\ phase'[c] = "closed" =>
           (count' > count <=> fate[c] = "up" /\ will[c] # None)]_vars
  <2> DEFINE A == \A c \in Connections : phase[c] # "closed" /\ phase'[c] = "closed" =>
                    (count' > count <=> fate[c] = "up" /\ will[c] # None)
  <2> SUFFICES ASSUME IInv, Next PROVE A
    OBVIOUS
  <2>1. phase \in [Connections -> Phases] /\ SessionInv /\ count \in Nat
    BY MessagesAreNumbers DEF IInv, TypeOK
  <2>2. ASSUME NEW c \in Connections, Refuses(c)
        PROVE  A
    <3>1. /\ phase[c] = "greeting" /\ phase' = [phase EXCEPT ![c] = "closed"]
          /\ count' = count
      BY <2>2 DEF Refuses, GoesTo, store
    <3>2. will[c] = None
      BY <2>1, <3>1 DEF SessionInv, Served
    <3>3. QED BY <2>1, <3>1, <3>2
  <2>3. ASSUME NEW c \in Connections, Ends(c)
        PROVE  A
    <3>1. /\ count' > count <=> fate[c] = "up" /\ will[c] # None
          /\ \A d \in Connections \ {c} : phase'[d] = phase[d]
      BY <2>3, EndsKeeps
    <3>2. QED BY <3>1
  <2>4. ASSUME NEW c \in Connections,
               Accepts(c) \/ Connects(c) \/ PacketRead(c) \/ ReadFails(c)
        PROVE  A
    BY <2>1, <2>4 DEF Accepts, Connects, PacketRead, ReadFails, GoesTo
  <2>5. ASSUME NEW c \in Connections, Handles(c)
        PROVE  A
    BY <2>5, HandlesKeeps
  <2>6. ASSUME NEW u \in Users, Kick(u)
        PROVE  A
    BY <2>6, KickKeeps
  <2>7. CASE Stop \/ StopReturns
    BY <2>7, StopKeeps
  <2>8. QED BY <2>2, <2>3, <2>4, <2>5, <2>6, <2>7 DEF Next
<1>2. QED BY <1>1, InductiveInvariant, PTL DEF Spec, WillMeansLost

-----------------------------------------------------------------------------
(* topic_matches() *)

LEMMA NaturalsWellFounded == IsWellFoundedOn({ss \in Nat \X Nat : ss[1] < ss[2]}, Nat)
BY NatLessThanWellFounded DEF OpToRel

LEMMA Smallest ==
  ASSUME NEW S, S \subseteq Nat, S # {}
  PROVE  \E m \in S : \A n \in S : m <= n
<1> DEFINE R == {ss \in Nat \X Nat : ss[1] < ss[2]}
<1>1. IsWellFoundedOn(R, Nat)
  BY NaturalsWellFounded
<1> HIDE DEF R
<1>2. PICK m \in S : \A n \in S : <<n, m>> \notin R
  BY <1>1, WFMin
<1>3. \A n \in S : ~(n < m)
  BY <1>2 DEF R
<1>4. QED BY <1>3

\* The loop of topic_matches() decides as MQTT 3.1.1 says, for filters and topics of
\* any length and any level names but "#".
THEOREM MatchesAsSpecified ==
  ASSUME NEW Names, "#" \notin Names,
         NEW filt \in Seq(Names \cup {"+", "#"}), filt # <<>>,
         NEW topic \in Seq(Names), topic # <<>>
  PROVE  TopicMatches(filt, topic) <=> Conforms(filt, topic)
<1> DEFINE n == Len(filt)
           m == Len(topic)
           dollar == topic[1] = "$SYS"
           fails(i) == IF filt[i] = "#" THEN i = 1 /\ topic[1] = "$SYS"
                       ELSE \/ i > Len(topic)
                            \/ filt[i] \notin {"+", topic[i]}
                            \/ filt[i] = "+" /\ i = 1 /\ topic[1] = "$SYS"
           stops == {i \in 1..Len(filt) : fails(i) \/ filt[i] = "#"}
           first == CHOOSE i \in stops : \A j \in stops : i <= j
<1>1. n \in Nat /\ m \in Nat /\ n >= 1 /\ m >= 1
  OBVIOUS
<1>2. \A i \in 1..m : topic[i] # "#"
  OBVIOUS
<1>3. TopicMatches(filt, topic) <=>
        IF stops = {} THEN n = m ELSE ~fails(first) /\ first = n
  BY DEF TopicMatches
<1>4. Conforms(filt, topic) <=>
        /\ IF filt[n] = "#" THEN m >= n - 1 ELSE m = n
        /\ \A i \in 1..(IF filt[n] = "#" THEN n - 1 ELSE n) :
             filt[i] = topic[i] \/ filt[i] = "+"
        /\ ~(dollar /\ filt[1] \in {"+", "#"})
  BY <1>1 DEF Conforms
<1>5. CASE stops = {}
  <2>1. \A i \in 1..n : filt[i] # "#" /\ i <= m /\ (filt[i] = topic[i] \/ filt[i] = "+")
                        /\ ~(filt[i] = "+" /\ i = 1 /\ dollar)
    BY <1>1, <1>5
  <2>2. 1 \in 1..n /\ n \in 1..n
    BY <1>1
  <2>3. QED BY <1>3, <1>4, <1>5, <2>1, <2>2
<1>6. CASE stops # {}
  <2>1. first \in stops /\ \A j \in stops : first <= j
    <3>1. stops \subseteq Nat
      BY <1>1
    <3>2. \E i \in stops : \A j \in stops : i <= j
      BY <1>6, <3>1, Smallest
    <3>3. QED BY <3>2
  <2> HIDE DEF first
  <2>2. first \in 1..n /\ (fails(first) \/ filt[first] = "#")
    BY <2>1
  <2>3. \A j \in 1..n : j < first => ~fails(j) /\ filt[j] # "#"
    <3> SUFFICES ASSUME NEW j \in 1..n, j < first PROVE j \notin stops
      OBVIOUS
    <3>1. ~(first <= j)
      BY <1>1, <2>2
    <3>2. QED BY <2>1, <3>1
  <2>4. ASSUME ~fails(first), first = n PROVE Conforms(filt, topic)
    <3>1. filt[n] = "#"
      BY <2>2, <2>4
    <3>2. \A j \in 1..(n - 1) : j \in 1..n /\ j < first
      BY <1>1, <2>4
    <3>3. \A j \in 1..(n - 1) : /\ j <= m /\ (filt[j] = topic[j] \/ filt[j] = "+")
                                /\ ~(filt[j] = "+" /\ j = 1 /\ dollar) /\ filt[j] # "#"
      BY <1>1, <2>3, <3>2
    <3>4. m >= n - 1
      <4>1. CASE n = 1
        BY <1>1, <4>1
      <4>2. CASE n # 1
        <5> HIDE DEF n, m
        <5>1. n - 1 \in 1..(n - 1)
          BY <1>1, <4>2
        <5>2. n - 1 <= m
          BY <3>3, <5>1
        <5>3. QED BY <5>2
      <4>3. QED BY <4>1, <4>2
    <3>5. ~(dollar /\ filt[1] \in {"+", "#"})
      <4>1. CASE n = 1
        BY <2>4, <3>1, <4>1
      <4>2. CASE n # 1
        <5>1. 1 \in 1..(n - 1)
          <6> HIDE DEF n, m
          <6>1. QED BY <1>1, <4>2
        <5>2. QED BY <3>3, <5>1
      <4>3. QED BY <4>1, <4>2
    <3>6. QED BY <1>4, <3>1, <3>3, <3>4, <3>5
  <2>5. ASSUME Conforms(filt, topic) PROVE ~fails(first) /\ first = n
    <3> DEFINE base == IF filt[n] = "#" THEN n - 1 ELSE n
    <3>1. /\ m >= base /\ \A i \in 1..base : filt[i] = topic[i] \/ filt[i] = "+"
          /\ ~(dollar /\ filt[1] \in {"+", "#"})
      BY <1>1, <1>4, <2>5
    <3>2. first \notin 1..base
      <4> SUFFICES ASSUME first \in 1..base PROVE FALSE
        OBVIOUS
      <4>1. filt[first] = topic[first] \/ filt[first] = "+"
        BY <3>1
      <4>2. first \in 1..m
        BY <1>1, <2>2, <3>1
      <4>3. filt[first] # "#"
        BY <1>2, <4>1, <4>2
      <4>4. ~fails(first)
        BY <1>1, <3>1, <4>1, <4>2, <4>3
      <4>5. QED BY <2>2, <4>3, <4>4
    <3>3. filt[n] = "#" /\ first = n
      BY <1>1, <2>2, <3>2
    <3>4. ~fails(first)
      BY <3>1, <3>3
    <3>5. QED BY <3>3, <3>4
  <2>6. QED BY <1>3, <1>6, <2>4, <2>5
<1>7. QED BY <1>5, <1>6

\* So it does for the levels of a run.
THEOREM MatchingConforms == Spec => []MatchesConform
<1>1. MatchesConform
  <2> SUFFICES ASSUME NEW f \in Sequences3(Levels \cup {"+", "#"}),
                      NEW t \in Sequences3(Levels)
               PROVE  TopicMatches(f, t) <=> Conforms(f, t)
    BY DEF MatchesConform
  <2>1. ASSUME NEW S, NEW q \in Sequences3(S)
        PROVE  q \in Seq(S) /\ q # <<>>
    <3>1. PICK k \in 1..3 : q \in [1..k -> S]
      BY DEF Sequences3
    <3>2. q \in Seq(S) /\ Len(q) = k
      BY <3>1
    <3>3. QED BY <3>2
  <2>2. QED BY <2>1, MatchesAsSpecified, LevelsAssumption
<1>2. QED BY <1>1, PTL
=============================================================================
