------------------------- MODULE DashboardHub_proofs -------------------------
(***************************************************************************)
(* What the hub believes a browser has, it was sent: for any number of     *)
(* robots, sockets and changes.                                            *)
(***************************************************************************)
EXTENDS DashboardHub, TLAPS

\* Revisions are numbers; so are those of what is shown and of what is on its way.
LEMMA RevisionsAreNumbers ==
  ASSUME TypeOK, NEW s \in Sockets, NEW r \in Robots
  PROVE  /\ rev[r] \in 0..MaxRev /\ view[s][r] \in 0..MaxRev
         /\ \A m \in Maps : seen[s][m][r] \in 0..MaxRev
         /\ push.message[r] \in 0..MaxRev
         /\ Len(wire[s]) \in Nat
         /\ \A i \in 1..Len(wire[s]) : wire[s][i] \in Revs /\ wire[s][i][r] \in 0..MaxRev
         /\ MaxRev \in Nat
<1>1. /\ wire[s] \in Seq(Revs) /\ view[s] \in Revs
      /\ seen[s] \in [Maps -> Revs] /\ rev \in Revs
  BY DEF TypeOK
<1>2. push.message \in Revs
  BY DEF TypeOK
<1>3. QED BY <1>1, <1>2, HubAssumption DEF Revs

\* Sending a message that shows robots as they are: nothing is lost, the order is
\* kept, and what the message shows is on its way.
LEMMA SendKeeps ==
  ASSUME TypeOK, InOrder, NEW s \in Sockets, NEW msg \in Revs,
         \A r \in Robots : msg[r] = 0 \/ msg[r] = rev[r],
         wire' = [wire EXCEPT ![s] = Append(@, msg)], rev' = rev, view' = view
  PROVE  /\ wire' \in [Sockets -> Seq(Revs)]
         /\ InOrder'
         /\ \A q \in Sockets, r \in Robots, n \in Nat : Has(q, r, n) => Has(q, r, n)'
         /\ \A r \in Robots : Has(s, r, msg[r])'
<1>1. wire \in [Sockets -> Seq(Revs)] /\ wire[s] \in Seq(Revs)
  BY DEF TypeOK
<1>2. /\ wire'[s] = Append(wire[s], msg)
      /\ \A q \in Sockets \ {s} : wire'[q] = wire[q]
  BY <1>1
<1>3. wire' \in [Sockets -> Seq(Revs)]
  BY <1>1
<1>4. /\ Len(wire[s]) \in Nat
      /\ Len(wire'[s]) = Len(wire[s]) + 1
      /\ \A i \in 1..Len(wire[s]) : wire'[s][i] = wire[s][i]
      /\ wire'[s][Len(wire[s]) + 1] = msg
  BY <1>1, <1>2
<1>5. ASSUME NEW q \in Sockets, NEW r \in Robots, NEW n \in Nat, Has(q, r, n)
      PROVE  Has(q, r, n)'
  <2>1. CASE q # s
    BY <1>2, <1>5, <2>1 DEF Has, Coming
  <2>2. CASE q = s /\ view[s][r] >= n
    BY <2>2 DEF Has
  <2>3. CASE q = s /\ Coming(s, r, n)
    <3>1. PICK i \in 1..Len(wire[s]) : wire[s][i][r] >= n
      BY <2>3 DEF Coming
    <3>2. i \in 1..Len(wire'[s]) /\ wire'[s][i][r] >= n
      BY <1>4, <3>1
    <3>3. QED BY <2>3, <3>2 DEF Has, Coming
  <2>4. QED BY <1>5, <2>1, <2>2, <2>3 DEF Has
<1>6. ASSUME NEW r \in Robots
      PROVE  Has(s, r, msg[r])'
  <2>1. msg[r] \in Nat
    BY HubAssumption DEF Revs
  <2>2. Len(wire[s]) + 1 \in 1..Len(wire'[s])
    BY <1>4
  <2>3. wire'[s][Len(wire[s]) + 1][r] >= msg[r]
    BY <1>4, <2>1
  <2>4. QED BY <2>2, <2>3 DEF Has, Coming
<1>7. InOrder'
  <2> SUFFICES ASSUME NEW q \in Sockets, NEW r \in Robots
               PROVE  /\ view'[q][r] <= rev'[r]
                      /\ \A i \in 1..Len(wire'[q]) :
                           wire'[q][i][r] > 0 =>
                             /\ view'[q][r] <= wire'[q][i][r]
                             /\ wire'[q][i][r] <= rev'[r]
                             /\ \A j \in 1..i : wire'[q][j][r] <= wire'[q][i][r]
    BY DEF InOrder
  <2>1. CASE q # s
    BY <1>2, <2>1 DEF InOrder
  <2>2. CASE q = s
    <3> SUFFICES ASSUME NEW i \in 1..Len(wire'[s]), wire'[s][i][r] > 0
                 PROVE  /\ view[s][r] <= wire'[s][i][r]
                        /\ wire'[s][i][r] <= rev[r]
                        /\ \A j \in 1..i : wire'[s][j][r] <= wire'[s][i][r]
      BY <2>2 DEF InOrder
    <3>1. CASE i \in 1..Len(wire[s])
      <4>1. /\ wire'[s][i] = wire[s][i]
            /\ \A j \in 1..i : wire'[s][j] = wire[s][j]
        BY <1>4, <3>1
      <4>2. QED BY <3>1, <4>1 DEF InOrder
    <3>2. CASE i = Len(wire[s]) + 1
      <4>1. wire'[s][i][r] = rev[r] /\ rev[r] \in Nat
        BY <1>4, <3>2, RevisionsAreNumbers
      <4>2. view[s][r] <= rev[r]
        BY DEF InOrder
      <4>3. ASSUME NEW j \in 1..i PROVE wire'[s][j][r] <= rev[r]
        <5>1. CASE j = i
          BY <4>1, <5>1
        <5>2. CASE j \in 1..Len(wire[s])
          <6>1. wire'[s][j][r] = wire[s][j][r] /\ wire[s][j][r] \in Nat
            BY <1>4, <5>2, RevisionsAreNumbers
          <6>2. wire[s][j][r] > 0 => wire[s][j][r] <= rev[r]
            BY <5>2 DEF InOrder
          <6>3. QED BY <4>1, <6>1, <6>2
        <5>3. QED BY <1>4, <3>2, <5>1, <5>2
      <4>4. QED BY <4>1, <4>2, <4>3
    <3>3. QED BY <1>4, <3>1, <3>2
  <2>3. QED BY <2>1, <2>2
<1>8. QED BY <1>3, <1>5, <1>6, <1>7

-----------------------------------------------------------------------------
\* Applying a message shows it and keeps the rest on its way.
LEMMA DeliverKeeps ==
  ASSUME TypeOK, InOrder, NEW s \in Sockets, Deliver(s)
  PROVE  /\ wire' \in [Sockets -> Seq(Revs)]
         /\ view' \in [Sockets -> Revs]
         /\ InOrder'
         /\ \A q \in Sockets, r \in Robots, n \in Nat : Has(q, r, n) => Has(q, r, n)'
<1> DEFINE msg == wire[s][1]
           last == Len(wire[s])
<1>1. /\ wire \in [Sockets -> Seq(Revs)] /\ wire[s] \in Seq(Revs) /\ wire[s] # <<>>
      /\ view \in [Sockets -> Revs]
  BY DEF TypeOK, Deliver
<1>2. last \in Nat /\ last >= 1 /\ msg \in Revs /\ Head(wire[s]) = msg
  BY <1>1
<1>3. /\ wire'[s] = Tail(wire[s])
      /\ \A q \in Sockets \ {s} : wire'[q] = wire[q] /\ view'[q] = view[q]
      /\ view'[s] = Apply(view[s], msg)
      /\ rev' = rev
  BY <1>1, <1>2 DEF Deliver
<1>4. wire' \in [Sockets -> Seq(Revs)]
  <2>1. Tail(wire[s]) \in Seq(Revs)
    BY <1>1
  <2>2. QED BY <1>1, <2>1 DEF Deliver
<1>5. /\ Len(wire'[s]) = last - 1
      /\ \A i \in 1..(last - 1) : wire'[s][i] = wire[s][i + 1]
  BY <1>1, <1>2, <1>3
<1>6. \A r \in Robots : view'[s][r] = IF msg[r] > 0 THEN msg[r] ELSE view[s][r]
  BY <1>3 DEF Apply
<1>7. view' \in [Sockets -> Revs]
  <2>1. Apply(view[s], msg) \in Revs
    BY <1>1, <1>2 DEF Apply, Revs
  <2>2. QED BY <1>1, <1>2, <2>1 DEF Deliver
<1>8. \A r \in Robots :
        /\ view[s][r] \in Nat /\ rev[r] \in Nat /\ msg[r] \in Nat
        /\ \A i \in 1..last : wire[s][i][r] \in Nat
  BY <1>2, RevisionsAreNumbers
<1>9. \A r \in Robots :
        /\ view[s][r] <= rev[r]
        /\ \A i \in 1..last :
             wire[s][i][r] > 0 =>
               /\ view[s][r] <= wire[s][i][r]
               /\ wire[s][i][r] <= rev[r]
               /\ \A j \in 1..i : wire[s][j][r] <= wire[s][i][r]
  BY DEF InOrder
<1>10. \A r \in Robots : msg[r] > 0 => view[s][r] <= msg[r] /\ msg[r] <= rev[r]
  BY <1>2, <1>9
<1>11. ASSUME NEW q \in Sockets, NEW r \in Robots, NEW n \in Nat, Has(q, r, n)
       PROVE  Has(q, r, n)'
  <2>1. CASE q # s
    BY <1>3, <1>11, <2>1 DEF Has, Coming
  <2>2. CASE q = s /\ view[s][r] >= n
    <3>1. view'[s][r] >= n
      BY <1>6, <1>8, <1>10, <2>2
    <3>2. QED BY <2>2, <3>1 DEF Has
  <2>3. CASE q = s /\ Coming(s, r, n)
    <3>1. PICK i \in 1..last : wire[s][i][r] >= n
      BY <2>3 DEF Coming
    <3>2. CASE i = 1
      <4>1. view'[s][r] >= n
        BY <1>6, <1>8, <3>1, <3>2
      <4>2. QED BY <2>3, <4>1 DEF Has
    <3>3. CASE i # 1
      <4>1. i - 1 \in 1..(last - 1) /\ i - 1 \in 1..Len(wire'[s])
        BY <1>2, <1>5, <3>3
      <4>2. wire'[s][i - 1] = wire[s][i]
        BY <1>5, <4>1
      <4>3. QED BY <2>3, <3>1, <4>1, <4>2 DEF Has, Coming
    <3>4. QED BY <3>2, <3>3
  <2>4. QED BY <1>11, <2>1, <2>2, <2>3 DEF Has
<1>12. InOrder'
  <2> SUFFICES ASSUME NEW q \in Sockets, NEW r \in Robots
               PROVE  /\ view'[q][r] <= rev'[r]
                      /\ \A i \in 1..Len(wire'[q]) :
                           wire'[q][i][r] > 0 =>
                             /\ view'[q][r] <= wire'[q][i][r]
                             /\ wire'[q][i][r] <= rev'[r]
                             /\ \A j \in 1..i : wire'[q][j][r] <= wire'[q][i][r]
    BY DEF InOrder
  <2>1. CASE q # s
    BY <1>3, <2>1 DEF InOrder
  <2>2. CASE q = s
    <3>1. view'[s][r] <= rev[r]
      BY <1>6, <1>8, <1>9, <1>10
    <3>2. ASSUME NEW i \in 1..(last - 1), wire[s][i + 1][r] > 0
          PROVE  /\ view'[s][r] <= wire[s][i + 1][r]
                 /\ wire[s][i + 1][r] <= rev[r]
                 /\ \A j \in 1..i : wire[s][j + 1][r] <= wire[s][i + 1][r]
      <4>1. wire[s][i + 1][r] > 0 /\ i + 1 \in 1..last /\ 1 \in 1..(i + 1)
        BY <1>2, <3>2
      <4>2. /\ view[s][r] <= wire[s][i + 1][r]
            /\ wire[s][i + 1][r] <= rev[r]
            /\ \A j \in 1..(i + 1) : wire[s][j][r] <= wire[s][i + 1][r]
        BY <1>9, <4>1
      <4>3. msg[r] <= wire[s][i + 1][r]
        BY <4>1, <4>2
      <4>4. view'[s][r] <= wire[s][i + 1][r]
        BY <1>6, <4>2, <4>3
      <4>5. \A j \in 1..i : j + 1 \in 1..(i + 1)
        OBVIOUS
      <4>6. QED BY <4>2, <4>4, <4>5
    <3>3. ASSUME NEW i \in 1..Len(wire'[s]), wire'[s][i][r] > 0
          PROVE  /\ view'[s][r] <= wire'[s][i][r]
                 /\ wire'[s][i][r] <= rev[r]
                 /\ \A j \in 1..i : wire'[s][j][r] <= wire'[s][i][r]
      <4>1. i \in 1..(last - 1) /\ wire'[s][i] = wire[s][i + 1]
        BY <1>5
      <4>2. \A j \in 1..i : wire'[s][j] = wire[s][j + 1]
        BY <1>2, <1>5, <4>1
      <4>3. QED BY <3>2, <3>3, <4>1, <4>2
    <3>4. QED BY <1>3, <2>2, <3>1, <3>3
  <2>3. QED BY <2>1, <2>2
<1>13. QED BY <1>4, <1>7, <1>11, <1>12

-----------------------------------------------------------------------------
\* The revisions a push has to send are those of the robots that changed.
LEMMA ChangedShowsNow ==
  ASSUME TypeOK, NEW s \in Sockets, NEW m \in Maps
  PROVE  /\ Changed(seen[s][m]) \in Revs
         /\ \A r \in Robots : \/ Changed(seen[s][m])[r] = 0
                              \/ Changed(seen[s][m])[r] = rev[r]
<1>1. rev \in Revs
  BY DEF TypeOK
<1>2. QED BY <1>1, HubAssumption DEF Changed, Revs

\* A message applied to a map of revisions gives one.
LEMMA ApplyIsRevs ==
  ASSUME NEW shown \in Revs, NEW msg \in Revs
  PROVE  /\ Apply(shown, msg) \in Revs
         /\ \A r \in Robots : Apply(shown, msg)[r] \in {msg[r], shown[r]}
         /\ \A r \in Robots :
              Apply(shown, msg)[r] # shown[r] => msg[r] = Apply(shown, msg)[r]
BY DEF Apply, Revs

\* Nothing but wire, view and rev counts for what a browser has.
LEMMA HasFollows ==
  ASSUME view' = view, wire' = wire
  PROVE  /\ \A q \in Sockets, r \in Robots : \A n : Has(q, r, n) <=> Has(q, r, n)'
         /\ rev' = rev => (InOrder => InOrder')
BY DEF Has, Coming, InOrder

LEMMA InitIInv == Init => IInv
<1> SUFFICES ASSUME Init PROVE IInv
  OBVIOUS
<1>1. Nothing \in Revs
  BY HubAssumption DEF Nothing, Revs
<1>2. TypeOK
  BY <1>1 DEF Init, TypeOK, Revs, Idle, Maps
<1>3. InOrder
  <2>1. \A s \in Sockets, r \in Robots :
          view[s][r] = 0 /\ Len(wire[s]) = 0 /\ rev[r] \in Nat
    BY HubAssumption DEF Init, Nothing
  <2>2. QED BY <2>1 DEF InOrder
<1>4. SnapshotSent /\ PushIsSent /\ BelievedWasSent
  BY DEF Init, SnapshotSent, PushIsSent, BelievedWasSent, Live, Idle
<1>5. QED BY <1>2, <1>3, <1>4 DEF IInv

-----------------------------------------------------------------------------
\* The steps of the fleet and of one socket.
LEMMA ChangeKeeps ==
  ASSUME IInv, NEW r \in Robots, Change(r)
  PROVE  IInv'
<1>1. /\ view' = view /\ wire' = wire
      /\ UNCHANGED <<handler, clients, seen, push, broken>>
  BY DEF Change
<1>2. \A q \in Robots : rev'[q] = IF q = r THEN rev[q] + 1 ELSE rev[q]
  BY DEF Change, IInv, TypeOK, Revs
<1>3. TypeOK'
  <2>1. rev' \in Revs
    BY HubAssumption DEF Change, IInv, TypeOK, Revs
  <2>2. missed' \subseteq Sockets \X Robots
    BY DEF Change, IInv, TypeOK
  <2>3. QED BY <1>1, <2>1, <2>2 DEF IInv, TypeOK
<1>4. \A q \in Robots : rev[q] \in Nat /\ rev'[q] \in Nat /\ rev[q] <= rev'[q]
  <2>1. \A q \in Robots : rev[q] \in Nat
    <3>1. rev \in [Robots -> 0..MaxRev]
      BY DEF IInv, TypeOK, Revs
    <3>2. QED BY <3>1, HubAssumption
  <2>2. QED BY <1>2, <2>1
<1>5. InOrder'
  <2> SUFFICES ASSUME NEW s \in Sockets, NEW q \in Robots
               PROVE  /\ view[s][q] <= rev'[q]
                      /\ \A i \in 1..Len(wire[s]) :
                           wire[s][i][q] > 0 => wire[s][i][q] <= rev'[q]
    BY <1>1 DEF IInv, InOrder
  <2>1. /\ view[s][q] \in Nat
        /\ \A i \in 1..Len(wire[s]) : wire[s][i][q] \in Nat
    BY RevisionsAreNumbers DEF IInv
  <2>2. QED BY <1>4, <2>1 DEF IInv, InOrder
<1>6. \A s \in Sockets, q \in Robots : \A n : Has(s, q, n) <=> Has(s, q, n)'
  BY <1>1, HasFollows
<1>7. SnapshotSent'
  <2> SUFFICES ASSUME NEW s \in Sockets, NEW q \in Robots,
                      handler[s] = "join", s \notin broken, <<s, q>> \notin missed'
               PROVE  Has(s, q, rev'[q])
    BY <1>1, <1>6 DEF SnapshotSent, Has, Coming
  <2>1. q # r /\ <<s, q>> \notin missed
    BY DEF Change
  <2>2. rev'[q] = rev[q]
    BY <1>2, <2>1
  <2>3. QED BY <2>1, <2>2 DEF IInv, SnapshotSent
<1>8. PushIsSent'
  BY <1>1, <1>6 DEF IInv, PushIsSent, Has, Coming
<1>9. BelievedWasSent'
  <2>1. missed \subseteq missed'
    BY DEF Change
  <2>2. QED BY <1>1, <1>6, <2>1 DEF IInv, BelievedWasSent, Live, Has, Coming
<1>10. QED BY <1>3, <1>5, <1>7, <1>8, <1>9 DEF IInv

LEMMA JoinKeeps ==
  ASSUME IInv, NEW s \in Sockets, Join(s)
  PROVE  IInv'
<1>1. /\ rev' = rev /\ view' = view
      /\ UNCHANGED <<seen, push, broken, missed>>
      /\ wire' = [wire EXCEPT ![s] = Append(@, rev)]
      /\ handler' = [handler EXCEPT ![s] = "join"]
  BY DEF Join
<1>2. rev \in Revs /\ TypeOK /\ InOrder
  BY DEF IInv, TypeOK
<1>3. /\ wire' \in [Sockets -> Seq(Revs)]
      /\ InOrder'
      /\ \A q \in Sockets, r \in Robots, n \in Nat : Has(q, r, n) => Has(q, r, n)'
      /\ \A r \in Robots : Has(s, r, rev[r])'
  BY <1>1, <1>2, SendKeeps
<1>4. TypeOK'
  BY <1>1, <1>2, <1>3 DEF Join, TypeOK, Maps
<1>5. SnapshotSent'
  <2> SUFFICES ASSUME NEW q \in Sockets, NEW r \in Robots,
                      handler'[q] = "join", q \notin broken, <<q, r>> \notin missed
               PROVE  Has(q, r, rev[r])'
    BY <1>1 DEF SnapshotSent, Has, Coming
  <2>1. CASE q = s
    BY <1>3, <2>1
  <2>2. CASE q # s
    <3>1. handler[q] = "join"
      BY <1>1, <2>2 DEF IInv, TypeOK
    <3>2. Has(q, r, rev[r]) /\ rev[r] \in Nat
      BY <1>2, <3>1, RevisionsAreNumbers DEF IInv, SnapshotSent
    <3>3. QED BY <1>1, <1>3, <3>2 DEF Has, Coming
  <2>3. QED BY <2>1, <2>2
<1>6. PushIsSent'
  <2> SUFFICES ASSUME push.socket \in Sockets \ (broken \cup {NoSocket}), NEW r \in Robots
               PROVE  Has(push.socket, r, push.message[r])'
    BY <1>1 DEF PushIsSent, Has, Coming
  <2>1. Has(push.socket, r, push.message[r]) /\ push.message[r] \in Nat
    BY <1>2, RevisionsAreNumbers DEF IInv, PushIsSent
  <2>2. QED BY <1>1, <1>3, <2>1 DEF Has, Coming
<1>7. BelievedWasSent'
  <2> SUFFICES ASSUME NEW q \in Sockets, NEW r \in Robots, Live(q)', <<q, r>> \notin missed
               PROVE  Has(q, r, seen[q]["joined"][r])'
    BY <1>1 DEF BelievedWasSent, Has, Coming
  <2>1. Live(q)
    BY <1>1 DEF Live, IInv, TypeOK
  <2>2. Has(q, r, seen[q]["joined"][r]) /\ seen[q]["joined"][r] \in Nat
    BY <1>2, <2>1, RevisionsAreNumbers DEF IInv, BelievedWasSent, Maps
  <2>3. QED BY <1>1, <1>3, <2>2 DEF Has, Coming
<1>8. QED BY <1>3, <1>4, <1>5, <1>6, <1>7 DEF IInv

\* join() is over: what the map now says is what the snapshot brought, but for the
\* robots that changed meanwhile.
LEMMA JoinedKeeps ==
  ASSUME IInv, NEW s \in Sockets, Joined(s)
  PROVE  IInv'
<1>1. /\ rev' = rev /\ view' = view /\ wire' = wire
      /\ UNCHANGED <<push, broken, missed>>
      /\ handler[s] = "join"
      /\ handler' = [handler EXCEPT ![s] = "serve"]
      /\ seen' = [seen EXCEPT ![s]["joined"] = rev]
  BY DEF Joined
<1>2. rev \in Revs /\ seen \in [Sockets -> [Maps -> Revs]]
      /\ handler \in [Sockets -> {"new", "join", "serve", "over"}]
  BY DEF IInv, TypeOK
<1>3. TypeOK'
  BY <1>1, <1>2 DEF Joined, IInv, TypeOK, Maps
<1>4. /\ InOrder'
      /\ \A q \in Sockets, r \in Robots : \A n : Has(q, r, n) <=> Has(q, r, n)'
  BY <1>1, HasFollows DEF IInv
<1>5. SnapshotSent'
  BY <1>1, <1>2 DEF IInv, SnapshotSent, Has, Coming
<1>6. PushIsSent'
  BY <1>1 DEF IInv, PushIsSent, Has, Coming
<1>7. BelievedWasSent'
  <2> SUFFICES ASSUME NEW q \in Sockets, NEW r \in Robots, Live(q)', <<q, r>> \notin missed
               PROVE  Has(q, r, seen'[q]["joined"][r])
    BY <1>1 DEF BelievedWasSent, Has, Coming
  <2>1. q \notin broken
    BY <1>1 DEF Live
  <2>2. CASE q = s
    <3>1. seen'[s]["joined"] = rev
      BY <1>1, <1>2 DEF Maps
    <3>2. QED BY <1>1, <2>1, <2>2, <3>1 DEF IInv, SnapshotSent
  <2>3. CASE q # s
    <3>1. seen'[q] = seen[q] /\ Live(q)
      BY <1>1, <1>2, <2>3 DEF Live
    <3>2. QED BY <3>1 DEF IInv, BelievedWasSent
  <2>4. QED BY <2>2, <2>3
<1>8. QED BY <1>3, <1>4, <1>5, <1>6, <1>7 DEF IInv

\* A lost connection: nothing is promised of it any more.
LEMMA BreakKeeps ==
  ASSUME IInv, NEW s \in Sockets, Break(s)
  PROVE  IInv'
<1>1. /\ rev' = rev /\ view' = view
      /\ UNCHANGED <<handler, clients, seen, push, missed>>
      /\ broken' = broken \cup {s}
      /\ wire' = [wire EXCEPT ![s] = <<>>]
  BY DEF Break
<1>2. wire \in [Sockets -> Seq(Revs)]
  BY DEF IInv, TypeOK
<1>3. wire'[s] = <<>> /\ \A q \in Sockets \ {s} : wire'[q] = wire[q]
  BY <1>1, <1>2
<1>4. TypeOK'
  <2>1. wire' \in [Sockets -> Seq(Revs)]
    BY <1>1, <1>2
  <2>2. QED BY <1>1, <2>1 DEF IInv, TypeOK
<1>5. InOrder'
  <2> SUFFICES ASSUME NEW q \in Sockets, NEW r \in Robots
               PROVE  /\ view'[q][r] <= rev'[r]
                      /\ \A i \in 1..Len(wire'[q]) :
                           wire'[q][i][r] > 0 =>
                             /\ view'[q][r] <= wire'[q][i][r]
                             /\ wire'[q][i][r] <= rev'[r]
                             /\ \A j \in 1..i : wire'[q][j][r] <= wire'[q][i][r]
    BY DEF InOrder
  <2>1. CASE q = s
    <3>1. Len(wire'[q]) = 0
      BY <1>3, <2>1
    <3>2. QED BY <1>1, <3>1 DEF IInv, InOrder
  <2>2. CASE q # s
    BY <1>1, <1>3, <2>2 DEF IInv, InOrder
  <2>3. QED BY <2>1, <2>2
<1>6. \A q \in Sockets \ {s}, r \in Robots : \A n : Has(q, r, n) => Has(q, r, n)'
  BY <1>1, <1>3 DEF Has, Coming
<1>7. SnapshotSent'
  BY <1>1, <1>3 DEF IInv, SnapshotSent, Has, Coming
<1>8. PushIsSent'
  BY <1>1, <1>3 DEF IInv, PushIsSent, Has, Coming
<1>9. BelievedWasSent'
  BY <1>1, <1>3 DEF IInv, BelievedWasSent, Live, Has, Coming
<1>10. QED BY <1>4, <1>5, <1>7, <1>8, <1>9 DEF IInv

LEMMA LeaveKeeps ==
  ASSUME IInv, NEW s \in Sockets, Leave(s)
  PROVE  IInv'
<1>1. /\ rev' = rev /\ view' = view /\ wire' = wire
      /\ UNCHANGED <<seen, push, broken, missed>>
      /\ handler' = [handler EXCEPT ![s] = "over"]
      /\ clients' = [clients EXCEPT ![s] = "none"]
  BY DEF Leave
<1>2. TypeOK'
  BY <1>1 DEF IInv, TypeOK
<1>3. InOrder'
  BY <1>1, HasFollows DEF IInv
<1>4. SnapshotSent'
  BY <1>1 DEF IInv, TypeOK, SnapshotSent, Has, Coming
<1>5. PushIsSent'
  BY <1>1 DEF IInv, PushIsSent, Has, Coming
<1>6. BelievedWasSent'
  BY <1>1 DEF IInv, TypeOK, BelievedWasSent, Live, Has, Coming
<1>7. QED BY <1>2, <1>3, <1>4, <1>5, <1>6 DEF IInv

LEMMA DeliverStep ==
  ASSUME IInv, NEW s \in Sockets, Deliver(s)
  PROVE  IInv'
<1>1. UNCHANGED <<rev, handler, clients, seen, push, broken, missed>>
  BY DEF Deliver
<1>2. TypeOK /\ InOrder
  BY DEF IInv
<1>3. /\ wire' \in [Sockets -> Seq(Revs)]
      /\ view' \in [Sockets -> Revs]
      /\ InOrder'
      /\ \A q \in Sockets, r \in Robots, n \in Nat : Has(q, r, n) => Has(q, r, n)'
  BY <1>2, DeliverKeeps
<1>4. TypeOK'
  BY <1>1, <1>2, <1>3 DEF TypeOK
<1>5. \A q \in Sockets, r \in Robots :
        rev[r] \in Nat /\ push.message[r] \in Nat /\ seen[q]["joined"][r] \in Nat
  BY <1>2, RevisionsAreNumbers DEF Maps
<1>6. SnapshotSent'
  BY <1>1, <1>3, <1>5 DEF IInv, SnapshotSent, Has, Coming
<1>7. PushIsSent'
  BY <1>1, <1>3, <1>5 DEF IInv, PushIsSent, Has, Coming
<1>8. BelievedWasSent'
  BY <1>1, <1>3, <1>5 DEF IInv, BelievedWasSent, Live, Has, Coming
<1>9. QED BY <1>3, <1>4, <1>6, <1>7, <1>8 DEF IInv

\* broadcast_metrics() drops a socket, and no map.
LEMMA MetricsKeep ==
  ASSUME IInv, NEW s \in Sockets, MetricsFail(s)
  PROVE  IInv'
<1>1. /\ UNCHANGED <<rev, handler, seen, push, wire, view, broken, missed>>
      /\ clients' = [clients EXCEPT ![s] = "none"]
  BY DEF MetricsFail
<1>2. QED
  BY <1>1 DEF IInv, TypeOK, InOrder, SnapshotSent, PushIsSent, BelievedWasSent, Live,
              Has, Coming

-----------------------------------------------------------------------------
\* The steps of the ticker.
LEMMA PushStartsKeeps ==
  ASSUME IInv, PushStarts
  PROVE  IInv'
<1>1. /\ push' = [push EXCEPT !.todo = Listed]
      /\ push.socket = NoSocket
      /\ UNCHANGED <<rev, handler, clients, seen, wire, view, broken, missed>>
  BY DEF PushStarts, Idle
<1>2. Listed \subseteq Sockets \X Maps
  BY DEF Listed, IInv, TypeOK
<1>3. TypeOK'
  BY <1>1, <1>2 DEF IInv, TypeOK
<1>4. push'.socket = NoSocket
  BY <1>1 DEF IInv, TypeOK
<1>5. PushIsSent'
  BY <1>4 DEF PushIsSent
<1>6. InOrder' /\ SnapshotSent' /\ BelievedWasSent'
  BY <1>1 DEF IInv, InOrder, SnapshotSent, BelievedWasSent, Live, Has, Coming
<1>7. QED BY <1>3, <1>5, <1>6 DEF IInv

\* One socket of the list: it is told what changed, if anything did.
LEMMA PushNextKeeps ==
  ASSUME IInv, NEW s \in Sockets, PushNext(s)
  PROVE  IInv'
<1>1. /\ UNCHANGED <<rev, handler, clients, seen, view, broken, missed>>
      /\ push.socket = NoSocket
  BY DEF PushNext
<1>2. PICK m \in Maps :
        /\ <<s, m>> \in push.todo
        /\ LET msg  == Changed(seen[s][m])
               rest == push.todo \ {<<s, m>>}
           IN IF msg = Nothing
                THEN /\ push' = [push EXCEPT !.todo = rest]
                     /\ UNCHANGED wire
                ELSE /\ push' = [todo |-> rest, socket |-> s, map |-> m,
                                 message |-> msg]
                     /\ wire' = IF s \in broken THEN wire
                                ELSE [wire EXCEPT ![s] = Append(@, msg)]
  BY DEF PushNext
<1> DEFINE msg  == Changed(seen[s][m])
           rest == push.todo \ {<<s, m>>}
<1>3. TypeOK /\ InOrder
  BY DEF IInv
<1>4. msg \in Revs /\ \A r \in Robots : msg[r] = 0 \/ msg[r] = rev[r]
  BY <1>3, ChangedShowsNow
<1>5. \A q \in Sockets, r \in Robots :
        rev[r] \in Nat /\ msg[r] \in Nat /\ seen[q]["joined"][r] \in Nat
  <2>1. \A r \in Robots : msg[r] \in Nat
    BY <1>4, HubAssumption DEF Revs
  <2>2. QED BY <1>3, <2>1, RevisionsAreNumbers DEF Maps
<1>6. \/ push' = [push EXCEPT !.todo = rest] /\ wire' = wire
      \/ /\ push' = [todo |-> rest, socket |-> s, map |-> m, message |-> msg]
         /\ s \in broken
         /\ wire' = wire
      \/ /\ push' = [todo |-> rest, socket |-> s, map |-> m, message |-> msg]
         /\ wire' = [wire EXCEPT ![s] = Append(@, msg)]
  BY <1>2
<1> HIDE DEF msg
<1>7. push' \in [todo : SUBSET (Sockets \X Maps), socket : Sockets \cup {NoSocket},
                 map : Maps \cup {"none"}, message : Revs]
  <2>1. rest \in SUBSET (Sockets \X Maps)
    BY <1>3 DEF TypeOK
  <2>2. CASE push' = [push EXCEPT !.todo = rest]
    BY <1>3, <2>1, <2>2 DEF TypeOK
  <2>3. CASE push' = [todo |-> rest, socket |-> s, map |-> m, message |-> msg]
    BY <1>4, <2>1, <2>3
  <2>4. QED BY <1>6, <2>2, <2>3
<1>8. CASE wire' = wire
  <2>1. TypeOK'
    BY <1>1, <1>3, <1>7, <1>8 DEF TypeOK
  <2>2. InOrder' /\ SnapshotSent' /\ BelievedWasSent'
    BY <1>1, <1>8 DEF IInv, InOrder, SnapshotSent, BelievedWasSent, Live, Has, Coming
  <2>3. PushIsSent'
    <3>1. CASE push' = [push EXCEPT !.todo = rest]
      <4>1. push'.socket = NoSocket
        BY <1>1, <1>3, <3>1 DEF TypeOK
      <4>2. QED BY <4>1 DEF PushIsSent
    <3>2. CASE /\ push' = [todo |-> rest, socket |-> s, map |-> m, message |-> msg]
               /\ s \in broken
      BY <1>1, <3>2 DEF PushIsSent
    <3>3. CASE wire' = [wire EXCEPT ![s] = Append(@, msg)]
      <4>1. wire[s] \in Seq(Revs) /\ wire \in [Sockets -> Seq(Revs)]
        BY <1>3 DEF TypeOK
      <4>2. Len(wire'[s]) = Len(wire[s]) + 1 /\ Len(wire[s]) \in Nat
        BY <3>3, <4>1
      <4>3. QED BY <1>8, <4>2
    <3>4. QED BY <1>6, <3>1, <3>2, <3>3
  <2>4. QED BY <2>1, <2>2, <2>3 DEF IInv
<1>9. CASE /\ push' = [todo |-> rest, socket |-> s, map |-> m, message |-> msg]
           /\ wire' = [wire EXCEPT ![s] = Append(@, msg)]
  <2>1. /\ wire' \in [Sockets -> Seq(Revs)]
        /\ InOrder'
        /\ \A q \in Sockets, r \in Robots, n \in Nat : Has(q, r, n) => Has(q, r, n)'
    BY <1>1, <1>3, <1>4, <1>9, SendKeeps
  <2>2. TypeOK'
    BY <1>1, <1>3, <1>7, <2>1 DEF TypeOK
  <2>3. SnapshotSent'
    BY <1>1, <1>5, <2>1 DEF IInv, SnapshotSent, Has, Coming
  <2>4. BelievedWasSent'
    BY <1>1, <1>5, <2>1 DEF IInv, BelievedWasSent, Live, Has, Coming
  <2>5. PushIsSent'
    <3>1. push'.socket = s /\ push'.message = msg
      BY <1>9
    <3>2. /\ Len(wire'[s]) \in 1..Len(wire'[s])
          /\ wire'[s][Len(wire'[s])] = msg
      <4>1. wire[s] \in Seq(Revs) /\ wire'[s] = Append(wire[s], msg)
        BY <1>3, <1>9 DEF TypeOK
      <4>2. QED BY <1>4, <4>1
    <3>3. QED BY <1>5, <3>1, <3>2 DEF PushIsSent, Has, Coming
  <2>6. QED BY <2>1, <2>2, <2>3, <2>4, <2>5 DEF IInv
<1>10. QED BY <1>6, <1>8, <1>9

\* What the push writes into the map it holds is what it sent.
LEMMA PushSentKeeps ==
  ASSUME IInv, PushSent
  PROVE  IInv'
<1> DEFINE s == push.socket
           m == push.map
<1>1. /\ UNCHANGED <<rev, handler, clients, wire, view, broken, missed>>
      /\ s # NoSocket /\ s \notin broken
      /\ seen' = [seen EXCEPT ![s][m] = Apply(@, push.message)]
      /\ push' = [Idle EXCEPT !.todo = push.todo]
  BY DEF PushSent
<1>2. /\ s \in Sockets
      /\ push.message \in Revs
      /\ push.todo \in SUBSET (Sockets \X Maps)
      /\ seen \in [Sockets -> [Maps -> Revs]]
  BY <1>1 DEF IInv, TypeOK
<1>3. /\ seen' \in [Sockets -> [Maps -> Revs]]
      /\ \A q \in Sockets, r \in Robots :
           seen'[q]["joined"][r] # seen[q]["joined"][r] =>
             q = s /\ seen'[q]["joined"][r] = push.message[r]
  <2>1. CASE m \in Maps
    <3>1. seen[s][m] \in Revs
      BY <1>2, <2>1
    <3>2. /\ Apply(seen[s][m], push.message) \in Revs
          /\ \A r \in Robots :
               Apply(seen[s][m], push.message)[r] # seen[s][m][r] =>
                 push.message[r] = Apply(seen[s][m], push.message)[r]
      BY <1>2, <3>1, ApplyIsRevs
    <3>3. /\ \A q \in Sockets : q # s => seen'[q] = seen[q]
          /\ \A k \in Maps : k # m => seen'[s][k] = seen[s][k]
          /\ seen'[s][m] = Apply(seen[s][m], push.message)
      BY <1>1, <1>2, <2>1
    <3>4. seen' \in [Sockets -> [Maps -> Revs]]
      BY <1>1, <1>2, <2>1, <3>2
    <3>5. QED BY <1>2, <3>2, <3>3, <3>4 DEF Maps
  <2>2. CASE m \notin Maps
    <3>1. seen' = seen
      BY <1>1, <1>2, <2>2
    <3>2. QED BY <1>2, <3>1
  <2>3. QED BY <2>1, <2>2
<1>4. TypeOK'
  <2>1. Nothing \in Revs
    BY HubAssumption DEF Nothing, Revs
  <2>2. push' \in [todo : SUBSET (Sockets \X Maps), socket : Sockets \cup {NoSocket},
                   map : Maps \cup {"none"}, message : Revs]
    BY <1>1, <1>2, <2>1 DEF Idle
  <2>3. QED BY <1>1, <1>3, <2>2 DEF IInv, TypeOK
<1>5. InOrder' /\ SnapshotSent'
  BY <1>1 DEF IInv, InOrder, SnapshotSent, Has, Coming
<1>6. PushIsSent'
  <2>1. push'.socket = NoSocket
    BY <1>1 DEF Idle
  <2>2. QED BY <2>1 DEF PushIsSent
<1>7. BelievedWasSent'
  <2> SUFFICES ASSUME NEW q \in Sockets, NEW r \in Robots, Live(q), <<q, r>> \notin missed
               PROVE  Has(q, r, seen'[q]["joined"][r])
    BY <1>1 DEF BelievedWasSent, Live, Has, Coming
  <2>1. CASE seen'[q]["joined"][r] = seen[q]["joined"][r]
    BY <2>1 DEF IInv, BelievedWasSent
  <2>2. CASE seen'[q]["joined"][r] # seen[q]["joined"][r]
    <3>1. q = s /\ seen'[q]["joined"][r] = push.message[r]
      BY <1>3, <2>2
    <3>2. QED BY <1>1, <1>2, <3>1 DEF IInv, PushIsSent
  <2>3. QED BY <2>1, <2>2
<1>8. QED BY <1>4, <1>5, <1>6, <1>7 DEF IInv

LEMMA PushFailsKeeps ==
  ASSUME IInv, PushFails
  PROVE  IInv'
<1>1. /\ UNCHANGED <<rev, handler, seen, wire, view, broken, missed>>
      /\ clients' = [clients EXCEPT ![push.socket] = "none"]
      /\ push' = [Idle EXCEPT !.todo = push.todo]
  BY DEF PushFails
<1>2. TypeOK'
  <2>1. Nothing \in Revs
    BY HubAssumption DEF Nothing, Revs
  <2>2. push' \in [todo : SUBSET (Sockets \X Maps), socket : Sockets \cup {NoSocket},
                   map : Maps \cup {"none"}, message : Revs]
    BY <1>1, <2>1 DEF Idle, IInv, TypeOK
  <2>3. QED BY <1>1, <2>2 DEF IInv, TypeOK
<1>3. push'.socket = NoSocket
  BY <1>1 DEF Idle
<1>4. PushIsSent'
  BY <1>3 DEF PushIsSent
<1>5. InOrder' /\ SnapshotSent' /\ BelievedWasSent'
  BY <1>1 DEF IInv, InOrder, SnapshotSent, BelievedWasSent, Live, Has, Coming
<1>6. QED BY <1>2, <1>4, <1>5 DEF IInv

-----------------------------------------------------------------------------
\* No step, of whichever actor, disturbs it.
LEMMA NextKeeps ==
  ASSUME IInv, [Next]_vars
  PROVE  IInv'
<1>1. CASE \E r \in Robots : Change(r)
  BY <1>1, ChangeKeeps
<1>2. CASE \E s \in Sockets :
             Join(s) \/ Joined(s) \/ Break(s) \/ Leave(s) \/ Deliver(s) \/ MetricsFail(s)
  BY <1>2, JoinKeeps, JoinedKeeps, BreakKeeps, LeaveKeeps, DeliverStep, MetricsKeep
<1>3. CASE Ticker
  BY <1>3, PushStartsKeeps, PushNextKeeps, PushSentKeeps, PushFailsKeeps DEF Ticker
<1>4. CASE UNCHANGED vars
  <2>1. UNCHANGED <<rev, handler, clients, seen, push, wire, view, broken, missed>>
    BY <1>4 DEF vars
  <2>2. TypeOK' /\ InOrder'
    BY <2>1 DEF IInv, TypeOK, InOrder
  <2>3. SnapshotSent' /\ PushIsSent'
    BY <2>1 DEF IInv, SnapshotSent, PushIsSent, Has, Coming
  <2>4. BelievedWasSent'
    BY <2>1 DEF IInv, BelievedWasSent, Live, Has, Coming
  <2>5. QED BY <2>2, <2>3, <2>4 DEF IInv
<1>5. QED BY <1>1, <1>2, <1>3, <1>4 DEF Next

\* However joins, pushes, changes, losses and deliveries interleave: what is on its
\* way is in order, and a snapshot, a push and a map say what was sent.
THEOREM InductiveInvariant == Safety => []IInv
<1>1. Init => IInv
  BY InitIInv
<1>2. IInv /\ [Next]_vars => IInv'
  BY NextKeeps
<1>3. QED BY <1>1, <1>2, PTL DEF Safety

\* Robots, sockets, maps and messages keep their types.
THEOREM TypeCorrect == Safety => []TypeOK
<1>1. IInv => TypeOK
  BY DEF IInv
<1>2. QED BY <1>1, InductiveInvariant, PTL

\* No interleaving of join() and push() makes the hub believe a browser has a
\* revision it was not sent, except for what changed while it joined.
THEOREM BeliefIsJustified == Safety => []BelievedWasSent
<1>1. IInv => BelievedWasSent
  BY DEF IInv
<1>2. QED BY <1>1, InductiveInvariant, PTL

\* What a page shows of a robot never goes back: messages are applied in the order
\* they were sent, and each brings what it mentions forward.
LEMMA ViewGrows ==
  ASSUME IInv, Next, NEW s \in Sockets, NEW r \in Robots
  PROVE  view[s][r] <= view'[s][r]
<1>1. view[s][r] \in Nat /\ view \in [Sockets -> Revs]
  BY RevisionsAreNumbers DEF IInv, TypeOK
<1>2. CASE view' = view
  BY <1>1, <1>2
<1>3. CASE Deliver(s)
  <2>1. wire[s] \in Seq(Revs) /\ wire[s] # <<>>
    BY <1>3 DEF IInv, TypeOK, Deliver
  <2>2. Head(wire[s]) = wire[s][1] /\ 1 \in 1..Len(wire[s])
    BY <2>1
  <2>3. view'[s][r] = IF wire[s][1][r] > 0 THEN wire[s][1][r] ELSE view[s][r]
    BY <1>1, <1>3, <2>2 DEF Deliver, Apply
  <2>4. wire[s][1][r] > 0 => view[s][r] <= wire[s][1][r]
    BY <2>2 DEF IInv, InOrder
  <2>5. QED BY <1>1, <2>3, <2>4
<1>4. ASSUME NEW q \in Sockets, q # s, Deliver(q)
      PROVE  view[s][r] <= view'[s][r]
  <2>1. view'[s] = view[s]
    BY <1>1, <1>4 DEF Deliver
  <2>2. QED BY <1>1, <2>1
<1>5. QED
  BY <1>2, <1>3, <1>4
     DEF Next, Ticker, Change, Join, Joined, Break, Leave, MetricsFail, PushStarts,
         PushNext, PushSent, PushFails

\* What a page shows of a robot never goes back to an older revision.
THEOREM PagesGoForward ==
  Safety => [][\A s \in Sockets, r \in Robots : view[s][r] <= view'[s][r]]_vars
<1>1. IInv /\ [Next]_vars
        => [\A s \in Sockets, r \in Robots : view[s][r] <= view'[s][r]]_vars
  BY ViewGrows
<1>2. QED BY <1>1, InductiveInvariant, PTL DEF Safety

-----------------------------------------------------------------------------
(* The hub implements Roster *)

\* No map and no message knows of a revision a robot has not had.
Known ==
  \A r \in Robots :
    /\ push.message[r] <= rev[r]
    /\ \A s \in Sockets, m \in Maps : seen[s][m][r] <= rev[r]

LEMMA InitKnown == Init => Known
<1> SUFFICES ASSUME Init, NEW r \in Robots
             PROVE  /\ push.message[r] <= rev[r]
                    /\ \A s \in Sockets, m \in Maps : seen[s][m][r] <= rev[r]
  BY DEF Known
<1>1. rev[r] \in Nat
  BY HubAssumption DEF Init
<1>2. push.message[r] = 0 /\ \A s \in Sockets, m \in Maps : seen[s][m][r] = 0
  BY DEF Init, Idle, Nothing
<1>3. QED BY <1>1, <1>2

\* Only robots change revisions, and they go up.
LEMMA RevGrows ==
  ASSUME TypeOK, [Next]_vars
  PROVE  \A r \in Robots : rev[r] <= rev'[r]
<1>1. \A r \in Robots : rev[r] \in Nat
  BY HubAssumption DEF TypeOK, Revs
<1>2. CASE \E q \in Robots : Change(q)
  BY <1>1, <1>2 DEF Change, TypeOK, Revs
<1>3. CASE rev' = rev
  BY <1>1, <1>3
<1>4. QED
  BY <1>2, <1>3
     DEF Next, Ticker, Join, Joined, Break, Leave, Deliver, MetricsFail, PushStarts,
         PushNext, PushSent, PushFails, vars

\* What the next message may tell a robot's revision to be: what the push holds
\* already, the present revision, or nothing.
LEMMA MessageFollows ==
  ASSUME TypeOK, [Next]_vars, NEW r \in Robots
  PROVE  push'.message[r] \in {push.message[r], rev[r], 0}
<1>1. CASE push' = push
  BY <1>1
<1>2. CASE PushStarts
  BY <1>2 DEF PushStarts, TypeOK
<1>3. ASSUME NEW s \in Sockets, PushNext(s)
      PROVE  push'.message[r] \in {push.message[r], rev[r], 0}
  <2>1. PICK m \in Maps :
          \/ push' = [push EXCEPT !.todo = push.todo \ {<<s, m>>}]
          \/ push' = [todo |-> push.todo \ {<<s, m>>}, socket |-> s, map |-> m,
                      message |-> Changed(seen[s][m])]
    BY <1>3 DEF PushNext
  <2>2. CASE push' = [push EXCEPT !.todo = push.todo \ {<<s, m>>}]
    BY <2>2 DEF TypeOK
  <2>3. CASE push'.message = Changed(seen[s][m])
    BY <2>3, ChangedShowsNow
  <2>4. QED BY <2>1, <2>2, <2>3
<1>4. CASE push' = [Idle EXCEPT !.todo = push.todo]
  BY <1>4 DEF Idle, Nothing
<1>5. QED
  BY <1>1, <1>2, <1>3, <1>4
     DEF Next, Ticker, Change, Join, Joined, Break, Leave, Deliver, MetricsFail,
         PushSent, PushFails, vars

\* A map learns the present revisions, from join(), or those of the push.
LEMMA MapFollows ==
  ASSUME TypeOK, [Next]_vars, NEW s \in Sockets, NEW m \in Maps, NEW r \in Robots
  PROVE  seen'[s][m][r] \in {seen[s][m][r], push.message[r], rev[r]}
<1>1. CASE seen' = seen
  BY <1>1
<1>2. ASSUME NEW q \in Sockets, Joined(q)
      PROVE  seen'[s][m][r] \in {seen[s][m][r], rev[r]}
  BY <1>2 DEF Joined, TypeOK
<1>3. CASE PushSent
  <2>1. /\ seen' = [seen EXCEPT ![push.socket][push.map] = Apply(@, push.message)]
        /\ seen \in [Sockets -> [Maps -> Revs]]
    BY <1>3 DEF PushSent, TypeOK
  <2>2. CASE s = push.socket /\ m = push.map
    <3>1. seen'[s][m] = Apply(seen[s][m], push.message)
      BY <2>1, <2>2
    <3>2. QED BY <3>1 DEF Apply
  <2>3. CASE ~(s = push.socket /\ m = push.map)
    <3>1. seen'[s][m] = seen[s][m]
      BY <2>1, <2>3
    <3>2. QED BY <3>1
  <2>4. QED BY <2>2, <2>3
<1>4. QED
  BY <1>1, <1>2, <1>3
     DEF Next, Ticker, Change, Join, Break, Leave, Deliver, MetricsFail, PushStarts,
         PushNext, PushFails, vars

LEMMA NextKnown ==
  ASSUME IInv, Known, [Next]_vars
  PROVE  Known'
<1> SUFFICES ASSUME NEW r \in Robots
             PROVE  /\ push'.message[r] <= rev'[r]
                    /\ \A s \in Sockets, m \in Maps : seen'[s][m][r] <= rev'[r]
  BY DEF Known
<1>1. TypeOK /\ IInv'
  BY NextKeeps DEF IInv
<1>2. rev[r] <= rev'[r] /\ rev[r] \in Nat /\ rev'[r] \in Nat /\ push.message[r] \in Nat
  <2>1. rev' \in Revs /\ rev \in Revs /\ push.message \in Revs
    BY <1>1 DEF IInv, TypeOK
  <2>2. QED BY <1>1, <2>1, RevGrows, HubAssumption DEF Revs
<1>3. push'.message[r] <= rev'[r]
  BY <1>1, <1>2, MessageFollows DEF Known
<1>4. ASSUME NEW s \in Sockets, NEW m \in Maps
      PROVE  seen'[s][m][r] <= rev'[r]
  <2>1. seen[s][m][r] \in Nat
    BY <1>1, RevisionsAreNumbers
  <2>2. QED BY <1>1, <1>2, <2>1, MapFollows DEF Known
<1>5. QED BY <1>3, <1>4

\* What a page has been sent it has or is about to have, as long as its connection
\* lasts.
LEMMA SentStaysSent ==
  ASSUME IInv, [Next]_vars, NEW s \in Sockets, s \notin broken',
         NEW r \in Robots, NEW n \in Nat, Has(s, r, n)
  PROVE  Has(s, r, n)'
<1>1. TypeOK /\ InOrder
  BY DEF IInv
<1>2. CASE view' = view /\ wire' = wire
  BY <1>2 DEF Has, Coming
<1>3. ASSUME NEW q \in Sockets, Join(q)
      PROVE  Has(s, r, n)'
  <2>1. rev \in Revs
    BY <1>1 DEF TypeOK
  <2>2. QED BY <1>1, <1>3, <2>1, SendKeeps DEF Join
<1>4. ASSUME NEW q \in Sockets, Deliver(q)
      PROVE  Has(s, r, n)'
  BY <1>1, <1>4, DeliverKeeps
<1>5. ASSUME NEW q \in Sockets, Break(q)
      PROVE  Has(s, r, n)'
  <2>1. q # s
    BY <1>5 DEF Break
  <2>2. view' = view /\ wire'[s] = wire[s]
    BY <1>1, <1>5, <2>1 DEF Break, TypeOK
  <2>3. QED BY <2>2 DEF Has, Coming
<1>6. ASSUME NEW q \in Sockets, PushNext(q)
      PROVE  Has(s, r, n)'
  <2>1. rev' = rev /\ view' = view
    BY <1>6 DEF PushNext
  <2>2. PICK m \in Maps :
          \/ wire' = wire
          \/ wire' = [wire EXCEPT ![q] = Append(@, Changed(seen[q][m]))]
    BY <1>6 DEF PushNext
  <2>3. CASE wire' = [wire EXCEPT ![q] = Append(@, Changed(seen[q][m]))]
    BY <1>1, <2>1, <2>3, ChangedShowsNow, SendKeeps
  <2>4. QED BY <1>2, <2>1, <2>2, <2>3
<1>7. QED
  BY <1>2, <1>3, <1>4, <1>5, <1>6
     DEF Next, Ticker, Change, Joined, Leave, MetricsFail, PushStarts, PushSent,
         PushFails, vars

\* What the map of an open page learns, the page was sent.
LEMMA LearntWasSent ==
  ASSUME IInv, [Next]_vars, NEW s \in Sockets, Live(s), NEW r \in Robots,
         seen'[s]["joined"][r] # seen[s]["joined"][r]
  PROVE  Has(s, r, seen'[s]["joined"][r])
<1>1. TypeOK /\ seen \in [Sockets -> [Maps -> Revs]] /\ "joined" \in Maps
  BY DEF IInv, TypeOK, Maps
<1>2. ASSUME NEW q \in Sockets, Joined(q)
      PROVE  FALSE
  <2>1. q # s
    BY <1>2 DEF Joined, Live
  <2>2. seen'[s] = seen[s]
    BY <1>1, <1>2, <2>1 DEF Joined
  <2>3. QED BY <2>2
<1>3. CASE PushSent
  <2>1. /\ seen' = [seen EXCEPT ![push.socket][push.map] = Apply(@, push.message)]
        /\ push.socket \in Sockets \ (broken \cup {NoSocket})
    BY <1>1, <1>3 DEF PushSent, TypeOK
  <2>2. s = push.socket /\ push.map = "joined"
    BY <1>1, <2>1
  <2>3. seen'[s]["joined"] = Apply(seen[s]["joined"], push.message)
    BY <1>1, <2>1, <2>2
  <2>4. seen'[s]["joined"][r] = push.message[r]
    BY <2>3 DEF Apply
  <2>5. QED BY <2>1, <2>2, <2>4 DEF IInv, PushIsSent
<1>4. CASE seen' = seen
  BY <1>4
<1>5. QED
  BY <1>2, <1>3, <1>4
     DEF Next, Ticker, Change, Join, Break, Leave, Deliver, MetricsFail, PushStarts,
         PushNext, PushFails, vars

\* A revision that is due to an open page stays due until the page shows it: a map
\* that has learnt it was sent it, and what was sent is on its way.
LEMMA DueStaysDue ==
  ASSUME IInv, [Next]_vars, NEW s \in Sockets, Live(s), Live(s)',
         NEW r \in Robots, NEW n \in Revisions, <<r, n>> \in Due[s]
  PROVE  <<r, n>> \in Due'[s] \/ view'[s][r] >= n
<1>1. TypeOK /\ TypeOK'
  BY NextKeeps DEF IInv
<1>2. /\ rev[r] \in Nat /\ rev'[r] \in Nat /\ view'[s][r] \in Nat
      /\ seen[s]["joined"][r] \in Nat /\ seen'[s]["joined"][r] \in Nat
      /\ n \in Nat
  <2>1. "joined" \in Maps
    BY DEF Maps
  <2>2. /\ rev \in Revs /\ rev' \in Revs /\ view' \in [Sockets -> Revs]
        /\ seen \in [Sockets -> [Maps -> Revs]] /\ seen' \in [Sockets -> [Maps -> Revs]]
    BY <1>1 DEF TypeOK
  <2>3. QED BY <2>1, <2>2, HubAssumption DEF Revs, Revisions
<1>3. n <= rev[r] /\ (seen[s]["joined"][r] < n \/ Coming(s, r, n))
  BY DEF Due, IsDue
<1>4. n <= rev'[r]
  BY <1>1, <1>2, <1>3, RevGrows
<1>5. s \notin broken'
  BY DEF Live
<1>6. seen'[s]["joined"][r] < n \/ Has(s, r, n)'
  <2>1. CASE Coming(s, r, n)
    BY <1>2, <1>5, <2>1, SentStaysSent DEF Has
  <2>2. CASE seen[s]["joined"][r] < n /\ n <= seen'[s]["joined"][r]
    <3>1. PICK k \in Nat : k = seen'[s]["joined"][r]
      BY <1>2
    <3>2. Has(s, r, k)
      BY <1>2, <2>2, <3>1, LearntWasSent
    <3>3. Has(s, r, k)'
      BY <1>5, <3>2, SentStaysSent
    <3>4. \A i \in 1..Len(wire'[s]) : wire'[s][i][r] \in Nat
      <4>1. wire'[s] \in Seq(Revs)
        BY <1>1 DEF TypeOK
      <4>2. \A i \in 1..Len(wire'[s]) : wire'[s][i] \in Revs
        BY <4>1
      <4>3. QED BY <4>2, HubAssumption DEF Revs
    <3>5. n <= k
      BY <2>2, <3>1
    <3>6. CASE view'[s][r] >= k
      <4>1. view'[s][r] >= n
        BY <1>2, <3>5, <3>6
      <4>2. QED BY <4>1 DEF Has
    <3>7. CASE Coming(s, r, k)'
      <4>1. PICK i \in 1..Len(wire'[s]) : wire'[s][i][r] >= k
        BY <3>7 DEF Coming
      <4>2. wire'[s][i][r] \in Nat
        BY <3>4
      <4>3. wire'[s][i][r] >= n
        BY <1>2, <3>5, <4>1, <4>2
      <4>4. QED BY <4>3 DEF Has, Coming
    <3>8. QED BY <3>3, <3>6, <3>7 DEF Has
  <2>3. QED BY <1>2, <1>3, <2>1, <2>2
<1>7. CASE view'[s][r] < n
  <2>1. seen'[s]["joined"][r] < n \/ Coming(s, r, n)'
    BY <1>2, <1>6, <1>7 DEF Has
  <2>2. QED BY <1>4, <1>7, <2>1 DEF Due, IsDue
<1>8. QED BY <1>2, <1>7

\* What a robot becomes while a page is open is due to it at once, or it shows it:
\* no map has it yet.
LEMMA ChangeIsDue ==
  ASSUME IInv, Known, [Next]_vars, NEW s \in Sockets, Live(s), Live(s)',
         NEW r \in Robots, NEW n \in Revisions, rev[r] < n, n <= rev'[r]
  PROVE  <<r, n>> \in Due'[s]
<1>1. /\ rev[r] \in Nat /\ view[s][r] \in Nat /\ seen[s]["joined"][r] \in Nat
      /\ n \in Nat
  <2>1. "joined" \in Maps
    BY DEF Maps
  <2>2. QED BY <2>1, RevisionsAreNumbers DEF IInv, Revisions
<1>2. view[s][r] < n /\ seen[s]["joined"][r] < n
  <2>1. view[s][r] <= rev[r] /\ seen[s]["joined"][r] <= rev[r]
    BY DEF IInv, InOrder, Known, Maps
  <2>2. QED BY <1>1, <2>1
<1>3. \E q \in Robots : Change(q)
  <2>1. rev' # rev
    BY <1>1
  <2>2. QED
    BY <2>1 DEF Next, Ticker, Join, Joined, Break, Leave, Deliver, MetricsFail,
                PushStarts, PushNext, PushSent, PushFails, vars
<1>4. view' = view /\ seen' = seen
  BY <1>3 DEF Change
<1>5. QED BY <1>2, <1>4 DEF Due, IsDue

LEMMA InitRoster == Init => Dashboard!Init
<1> SUFFICES ASSUME Init PROVE Dashboard!Init
  OBVIOUS
<1>1. rev \in [Robots -> Revisions \cup {0}]
  BY HubAssumption DEF Init, Revisions
<1>2. \A s \in Sockets : ~Live(s)
  BY DEF Init, Live
<1>3. {s \in Sockets : Live(s)} = {}
  BY <1>2
<1>4. view = [s \in Sockets |-> [r \in Robots |-> 0]]
  BY DEF Init, Nothing
<1>5. Due = [s \in Sockets |-> {}]
  BY <1>2 DEF Due, IsDue
<1>6. QED BY <1>1, <1>3, <1>4, <1>5 DEF Dashboard!Init

LEMMA NextRoster ==
  ASSUME IInv, Known, Next
  PROVE  Dashboard!Next
<1>1. [Next]_vars /\ IInv'
  BY NextKeeps
<1>2. \A r \in Robots : rev[r] <= rev'[r]
  BY <1>1, RevGrows DEF IInv
<1>3. \A s \in Sockets, r \in Robots :
        view[s][r] <= view'[s][r] /\ view'[s][r] <= rev'[r]
  BY <1>1, ViewGrows DEF IInv, InOrder
<1>4. ASSUME NEW s \in Sockets, Live(s), Live(s)', NEW r \in Robots, NEW n \in Revisions
      PROVE  /\ <<r, n>> \in Due[s] \ Due'[s] => view'[s][r] >= n
             /\ rev[r] < n /\ n <= rev'[r] => <<r, n>> \in Due'[s] \/ view'[s][r] >= n
  BY <1>1, <1>4, DueStaysDue, ChangeIsDue
<1>5. ASSUME NEW s \in Sockets, ~Live(s)'
      PROVE  Due'[s] = {}
  BY <1>5 DEF Due, IsDue
<1>6. QED BY <1>2, <1>3, <1>4, <1>5 DEF Dashboard!Next

\* The hub keeps what it promises its pages, whatever joins, pushes, changes, losses
\* and deliveries do: no page goes back, none shows what never was, and what changes
\* while a page is open is due to it from that moment until it shows it.  (That it is
\* shown in the end is the other half of ImplementsRoster.)
THEOREM PagesAreKept == Safety => Dashboard!Safety
<1>1. Init => IInv /\ Known /\ Dashboard!Init
  BY InitIInv, InitKnown, InitRoster
<1>2. IInv /\ Known /\ [Next]_vars => IInv' /\ Known'
  BY NextKeeps, NextKnown
<1>3. IInv /\ Known /\ [Next]_vars => [Dashboard!Next]_Dashboard!vars
  <2>1. CASE Next
    BY <2>1, NextRoster
  <2>2. CASE UNCHANGED vars
    <3>1. UNCHANGED <<rev, handler, broken, seen, wire, view>>
      BY <2>2 DEF vars
    <3>2. Due' = Due /\ {s \in Sockets : Live(s)}' = {s \in Sockets : Live(s)}
      BY <3>1 DEF Due, IsDue, Live, Coming
    <3>3. QED BY <3>1, <3>2 DEF Dashboard!vars
  <2>3. QED BY <2>1, <2>2
<1>4. QED BY <1>1, <1>2, <1>3, PTL DEF Safety, Dashboard!Safety
-----------------------------------------------------------------------------
(* Why what is due is shown, as far as steps go *)

\* A page whose connection is up is in hub.clients, with the later of its two maps.
Listening == \A s \in Sockets : Live(s) => clients[s] = "joined"

\* A revision that is due is on its way, or the next push finds that the page lacks it.
WillBeSent ==
  \A s \in Sockets, r \in Robots, n \in Revisions :
    <<r, n>> \in Due[s] => Coming(s, r, n) \/ Changed(seen[s][clients[s]])[r] >= n

LEMMA ListeningStays ==
  ASSUME TypeOK, Listening, [Next]_vars, NEW s \in Sockets, Live(s)'
  PROVE  clients'[s] = "joined"
<1>1. clients \in [Sockets -> Maps \cup {"none"}]
  BY DEF TypeOK
<1>2. CASE Live(s) /\ clients'[s] = clients[s]
  BY <1>2 DEF Listening
<1>3. ASSUME NEW q \in Sockets, Join(q)
      PROVE  clients'[s] = "joined"
  <2>1. handler'[q] = "join"
    BY <1>3 DEF Join, TypeOK
  <2>2. q # s /\ Live(s)
    BY <1>3, <2>1 DEF Join, Live, TypeOK
  <2>3. QED BY <1>1, <1>2, <1>3, <2>2 DEF Join
<1>4. ASSUME NEW q \in Sockets, Joined(q)
      PROVE  clients'[s] = "joined"
  <2>1. CASE q = s
    BY <1>1, <1>4, <2>1 DEF Joined
  <2>2. CASE q # s
    <3>1. Live(s)
      BY <1>4, <2>2 DEF Joined, Live, TypeOK
    <3>2. QED BY <1>1, <1>2, <1>4, <2>2, <3>1 DEF Joined
  <2>3. QED BY <2>1, <2>2
<1>5. ASSUME NEW q \in Sockets, Leave(q)
      PROVE  clients'[s] = "joined"
  <2>1. q # s /\ Live(s)
    BY <1>5 DEF Leave, Live, TypeOK
  <2>2. QED BY <1>1, <1>2, <1>5, <2>1 DEF Leave
\* Only a broken connection costs a page its place.
<1>6. ASSUME NEW q \in broken, clients' = [clients EXCEPT ![q] = "none"],
             handler' = handler, broken' = broken
      PROVE  clients'[s] = "joined"
  <2>1. q # s /\ Live(s)
    BY <1>6 DEF Live
  <2>2. QED BY <1>1, <1>2, <1>6, <2>1
<1>7. ASSUME clients' = clients, handler' = handler, broken \subseteq broken'
      PROVE  clients'[s] = "joined"
  <2>1. Live(s)
    BY <1>7 DEF Live
  <2>2. QED BY <1>2, <1>7, <2>1
<1>8. QED
  <2>1. CASE \/ \E r \in Robots : Change(r)
             \/ \E q \in Sockets : Break(q) \/ Deliver(q) \/ PushNext(q)
             \/ PushStarts \/ PushSent \/ UNCHANGED vars
    BY <1>7, <2>1 DEF Change, Break, Deliver, PushNext, PushStarts, PushSent, vars
  <2>2. CASE PushFails \/ \E q \in Sockets : MetricsFail(q)
    BY <1>6, <2>2 DEF PushFails, MetricsFail
  <2>3. QED BY <1>3, <1>4, <1>5, <2>1, <2>2 DEF Next, Ticker

\* The hub never loses sight of a page that is connected, and what it owes it is in a
\* message or in the difference the next push computes: neither a failed send to
\* another socket nor the map that join() replaced under a push takes it away.
THEOREM NothingIsForgotten == Safety => [](Listening /\ WillBeSent)
<1>1. Init => Listening
  BY DEF Init, Listening, Live
<1>2. IInv /\ Listening /\ [Next]_vars => Listening'
  BY ListeningStays DEF IInv, Listening
<1>3. IInv /\ Listening => WillBeSent
  <2> SUFFICES ASSUME IInv, Listening, NEW s \in Sockets, NEW r \in Robots,
                      NEW n \in Revisions, <<r, n>> \in Due[s], ~Coming(s, r, n)
               PROVE  Changed(seen[s][clients[s]])[r] >= n
    BY DEF WillBeSent
  <2>1. Live(s) /\ n <= rev[r] /\ seen[s]["joined"][r] < n
    BY DEF Due, IsDue
  <2>2. clients[s] = "joined"
    BY <2>1 DEF Listening
  <2>3. rev[r] \in Nat /\ seen[s]["joined"][r] \in Nat /\ n \in Nat
    BY RevisionsAreNumbers DEF IInv, Maps, Revisions
  <2>4. seen[s]["joined"][r] # rev[r]
    BY <2>1, <2>3
  <2>5. Changed(seen[s]["joined"])[r] = rev[r]
    BY <2>4 DEF Changed
  <2>6. QED BY <2>1, <2>2, <2>3, <2>5
<1>4. QED BY <1>1, <1>2, <1>3, InductiveInvariant, PTL DEF Safety
=============================================================================
