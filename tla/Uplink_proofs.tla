---------------------------- MODULE Uplink_proofs ----------------------------
(***************************************************************************)
(* For any buffer, batch, window and number of copies, samples and faults: *)
(* a sample is recorded once and in order while the server lives, and what *)
(* is lost is counted while no publish is refused.                         *)
(*                                                                         *)
(* Numbers order the batches of a run of the agent, and the invariant says *)
(* what follows a number and what follows its samples: of two batches on   *)
(* the way the one with the lower number has the older samples, what has   *)
(* not been taken is behind every batch that is published, and a batch the *)
(* router has not let through is behind everything recorded.  A refused    *)
(* batch weakens the second: its number may already be known when its      *)
(* samples are back in the deque, but they are then among the first        *)
(* MaxBatch and leave under that number again.  The window is smaller than *)
(* what was let through; until it loses a key that may still arrive, that  *)
(* makes no difference.  From the same invariant every step of the uplink  *)
(* is one that ReliableRelay allows.                                       *)
(*                                                                         *)
(* Then, what the same vehicle records: the two threads that discover its  *)
(* topics, and the files of its recorder.  Last, which samples it relays.  *)
(***************************************************************************)
EXTENDS Uplink, RecordingRequirements, FiniteSetTheorems, SequenceTheorems,
        WellFoundedInduction, TLAPS

Envelopes == [boot : Nat, seq : Nat, rows : Seq(Nat)]
Pairs     == Nat \X Nat

TypeInv ==
  /\ offered \in Nat /\ origin \in Nat /\ boot \in Nat /\ seq \in Nat
  /\ dropped \in Nat /\ crashed \in Nat /\ unsent \in Nat
  /\ buffer \in Seq(Nat) /\ Len(buffer) <= BufferMax
  /\ flight \in [rows : Seq(Nat), left : 0..Copies, ok : BOOLEAN]
  /\ Len(flight.rows) <= MaxBatch
  /\ flight # Idle => seq > 0 /\ flight.rows # <<>>
  /\ client \in Seq(Envelopes) /\ stray \in Seq(Envelopes)
  /\ handled \in 0..Len(client)
  /\ recent \in Seq(Pairs) /\ recorded \in Seq(Pairs) /\ forgot \in BOOLEAN
  /\ routed \subseteq Pairs /\ Image(recent) \subseteq routed
  /\ archived \in 0..Len(recorded)

Increasing(q) == \A i, j \in 1..Len(q) : i < j => q[i] < q[j]
Below(S, T)   == \A x \in S, y \in T : x < y

\* What may still reach the router, and the batch that is being published.
Messages == Image(client) \cup Image(stray)
Known    == Messages \cup IF flight = Idle THEN {} ELSE {Envelope}

\* What the next batch will leave in the deque.
Rest == {buffer[i] : i \in (MaxBatch + 1)..Len(buffer)}

\* The agent takes samples in the order in which it was offered them.
SamplesInv ==
  /\ Increasing(buffer) /\ Increasing(flight.rows)
  /\ Below(Image(flight.rows), Image(buffer))
  /\ Image(buffer) \cup Image(flight.rows) \subseteq 1..offered

\* Messages are of this run of the agent or of an earlier one.
KeysInv ==
  /\ \A m \in Messages : Increasing(m.rows) /\ m.boot <= boot
  /\ \A m \in Image(client) : m.boot = boot
  /\ \A m \in Messages : m.boot = boot => m.seq <= Latest /\ Image(m.rows) \subseteq 1..offered

\* Numbers order the samples on the way and those still to come.
OrderInv ==
  /\ \A m, n \in Known : m.boot = n.boot /\ m.seq < n.seq
       => Below(Image(m.rows), Image(n.rows))
  /\ \A m \in Messages : m.boot = boot =>
       /\ m.seq <= seq => Below(Image(m.rows), Image(buffer))
       /\ Below(Image(m.rows), Rest)

\* Queues hold messages in the order of their numbers.
QueueInv ==
  /\ \A i, j \in 1..Len(client) : i < j => client[i].seq <= client[j].seq
  /\ \A i, j \in 1..Len(stray) : i < j => stray[i].boot = stray[j].boot

\* So does the server, in what it has let through.
PastInv ==
  /\ \A k \in routed : k[1] <= boot /\ (k[1] = boot => k[2] <= Latest)
  /\ \A i \in 1..Len(recorded) :
       recorded[i][1] <= boot /\ (recorded[i][1] = boot => recorded[i][2] <= offered)

\* Of two messages the one with the lower number is handed over first, whichever
\* socket each of them takes.
HandedInv ==
  /\ \A i \in 1..handled : Key(client[i]) \in routed
  /\ \A m \in Image(stray) : m.boot = boot => m \in Image(client) \/ Key(m) \in routed
  /\ \A m \in Messages, j \in 1..Len(stray) :
       m.boot = stray[j].boot /\ m.seq < stray[j].seq =>
         \/ Key(m) \in routed
         \/ \E i \in 1..(j - 1) : Key(m) = Key(stray[i])

\* Samples of a run of the agent in what is recorded.
Had(r, b) == {r[i][2] : i \in {j \in 1..Len(r) : r[j][1] = b}}

\* What was not let through is behind everything recorded; and what comes out of order
\* was let through before, and forgotten.
FreshInv ==
  /\ \A i, j \in 1..Len(recorded) :
       i < j /\ recorded[i][1] = recorded[j][1] =>
         \/ recorded[i][2] < recorded[j][2]
         \/ forgot /\ (refused \/ \E k \in 1..(j - 1) : recorded[k] = recorded[j])
  /\ \A m \in Known :
       Key(m) \notin routed => Below(Had(recorded, m.boot), Image(m.rows))
  /\ Below(Had(recorded, boot), Rest)
  /\ <<boot, Latest>> \notin routed \/ flight # Idle =>
       Below(Had(recorded, boot), Image(buffer))

\* The window knows what was let through and may still arrive.
WindowInv == ~forgot => \A k \in Outstanding : k \in routed => k \in Image(recent)

\* As long as no publish is refused a number stands for one batch, and a number
\* that was let through for a batch that is recorded.
SameKeyInv ==
  /\ flight.ok
  /\ \A m \in Messages : m.boot = boot => m.seq <= seq
  /\ \A k \in routed : k[1] = boot => k[2] <= seq
  /\ \A m, n \in Known : Key(m) = Key(n) => m.rows = n.rows
  /\ \A m \in Known : Key(m) \in routed => Image(m.rows) \subseteq Had(recorded, m.boot)

\* Lost, and what would be if the batch in flight were forgotten: once published
\* it is the client's.
Gone == (origin + 1 .. offered) \
          (Image(buffer) \cup (IF flight.left = Copies THEN Image(flight.rows) ELSE {})
             \cup RowsOf(client) \cup Recorded)
LossInv == Cardinality(Gone) <= dropped + crashed + unsent

OnceInv  == ~restarted => FreshInv
CountInv == ~refused => SameKeyInv /\ LossInv

IInv == /\ TypeInv /\ SamplesInv /\ KeysInv /\ OrderInv /\ QueueInv /\ PastInv
        /\ HandedInv /\ WindowInv /\ OnceInv /\ CountInv

-----------------------------------------------------------------------------
(* Sequences *)

\* A deque with a bound keeps a suffix: the newest, if there is room for any.
LEMMA KeepLastFacts ==
  ASSUME NEW S, NEW q \in Seq(S), NEW n \in Nat
  PROVE  /\ KeepLast(q, n) \in Seq(S)
         /\ Len(KeepLast(q, n)) <= n /\ Len(KeepLast(q, n)) <= Len(q)
         /\ \A i \in 1..Len(KeepLast(q, n)) :
              /\ i + (Len(q) - Len(KeepLast(q, n))) \in 1..Len(q)
              /\ KeepLast(q, n)[i] = q[i + (Len(q) - Len(KeepLast(q, n)))]
         /\ Len(q) <= n => KeepLast(q, n) = q
         /\ Len(q) > n => Len(KeepLast(q, n)) = n
<1>1. CASE Len(q) <= n
  BY <1>1 DEF KeepLast
<1>2. CASE Len(q) > n
  <2> DEFINE a == Len(q) - n + 1
             r == SubSeq(q, a, Len(q))
  <2>1. KeepLast(q, n) = r
    BY <1>2 DEF KeepLast
  <2>2. a \in 1..(Len(q) + 1) /\ Len(q) \in Nat
    BY <1>2
  <2>3. r \in Seq(S) /\ Len(r) = n /\ \A i \in 1..n : r[i] = q[i + (Len(q) - n)]
    <3>1. \A i \in a..Len(q) : q[i] \in S
      BY <2>2
    <3>2. Len(r) = n
      BY <2>2, <1>2
    <3>3. r = [i \in 1..n |-> q[a + i - 1]]
      BY <2>2, <1>2
    <3>4. \A i \in 1..n : a + i - 1 = i + (Len(q) - n) /\ a + i - 1 \in a..Len(q)
      BY <2>2, <1>2
    <3> QED BY <3>1, <3>2, <3>3, <3>4
  <2> HIDE DEF r
  <2>4. \A i \in 1..n : i + (Len(q) - n) \in 1..Len(q)
    BY <1>2
  <2>5. QED BY <1>2, <2>1, <2>3, <2>4
<1>3. QED BY <1>1, <1>2

\* The other end keeps a prefix.
LEMMA KeepFirstFacts ==
  ASSUME NEW S, NEW q \in Seq(S), NEW n \in Nat
  PROVE  /\ KeepFirst(q, n) \in Seq(S)
         /\ Len(KeepFirst(q, n)) <= n /\ Len(KeepFirst(q, n)) <= Len(q)
         /\ \A i \in 1..Len(KeepFirst(q, n)) : KeepFirst(q, n)[i] = q[i]
         /\ Len(q) <= n => KeepFirst(q, n) = q
         /\ Len(q) > n => Len(KeepFirst(q, n)) = n
<1>1. CASE Len(q) <= n
  BY <1>1 DEF KeepFirst
<1>2. CASE Len(q) > n
  <2>1. KeepFirst(q, n) = SubSeq(q, 1, n)
    BY <1>2 DEF KeepFirst
  <2>2. /\ SubSeq(q, 1, n) \in Seq(S) /\ Len(SubSeq(q, 1, n)) = n
        /\ \A i \in 1..n : SubSeq(q, 1, n)[i] = q[i]
    BY <1>2
  <2>3. QED BY <1>2, <2>1, <2>2
<1>3. QED BY <1>1, <1>2

\* What is left when the first n are gone.
LEMMA DropFirstFacts ==
  ASSUME NEW S, NEW q \in Seq(S), NEW n \in Nat
  PROVE  LET r == SubSeq(q, n + 1, Len(q)) IN
         /\ r \in Seq(S)
         /\ Len(r) = IF n < Len(q) THEN Len(q) - n ELSE 0
         /\ \A i \in 1..Len(r) : r[i] = q[i + n]
<1> DEFINE r == SubSeq(q, n + 1, Len(q))
<1>1. Len(q) \in Nat
  OBVIOUS
<1>2. CASE n < Len(q)
  <2>1. r = [i \in 1..(Len(q) - n) |-> q[(n + 1) + i - 1]]
    BY <1>1, <1>2
  <2>2. \A i \in 1..(Len(q) - n) : (n + 1) + i - 1 = i + n /\ i + n \in 1..Len(q)
    BY <1>1, <1>2
  <2>3. Len(r) = Len(q) - n
    BY <1>1, <1>2
  <2>4. QED BY <1>2, <2>1, <2>2, <2>3
<1>3. CASE n >= Len(q)
  <2>1. r = <<>>
    BY <1>1, <1>3
  <2>2. QED BY <1>1, <1>3, <2>1
<1>4. QED BY <1>1, <1>2, <1>3

LEMMA ImageAppend ==
  ASSUME NEW S, NEW q \in Seq(S), NEW x \in S
  PROVE  Image(Append(q, x)) = Image(q) \cup {x}
<1>1. /\ Len(Append(q, x)) = Len(q) + 1 /\ Len(q) \in Nat
      /\ \A i \in 1..Len(q) : Append(q, x)[i] = q[i]
      /\ Append(q, x)[Len(q) + 1] = x
  OBVIOUS
<1>2. 1..(Len(q) + 1) = 1..Len(q) \cup {Len(q) + 1}
  BY <1>1
<1>3. QED BY <1>1, <1>2 DEF Image

LEMMA ImageConcat ==
  ASSUME NEW S, NEW q \in Seq(S), NEW r \in Seq(S)
  PROVE  Image(q \o r) = Image(q) \cup Image(r)
<1>1. /\ Len(q \o r) = Len(q) + Len(r) /\ Len(q) \in Nat /\ Len(r) \in Nat
      /\ \A i \in 1..Len(q) : (q \o r)[i] = q[i]
      /\ \A i \in (Len(q) + 1)..(Len(q) + Len(r)) : (q \o r)[i] = r[i - Len(q)]
  OBVIOUS
<1>2. Image(q \o r) \subseteq Image(q) \cup Image(r)
  <2> SUFFICES ASSUME NEW i \in 1..(Len(q) + Len(r))
               PROVE  (q \o r)[i] \in Image(q) \cup Image(r)
    BY <1>1 DEF Image
  <2>1. CASE i \in 1..Len(q)
    BY <1>1, <2>1 DEF Image
  <2>2. CASE i \in (Len(q) + 1)..(Len(q) + Len(r))
    <3>1. i - Len(q) \in 1..Len(r)
      BY <1>1, <2>2
    <3>2. QED BY <1>1, <2>2, <3>1 DEF Image
  <2>3. QED BY <1>1, <2>1, <2>2
<1>3. Image(q) \subseteq Image(q \o r)
  <2>1. 1..Len(q) \subseteq 1..Len(q \o r)
    BY <1>1
  <2>2. QED BY <1>1, <2>1 DEF Image
<1>4. Image(r) \subseteq Image(q \o r)
  <2> SUFFICES ASSUME NEW i \in 1..Len(r) PROVE r[i] \in Image(q \o r)
    BY DEF Image
  <2>1. i + Len(q) \in (Len(q) + 1)..(Len(q) + Len(r)) /\ i + Len(q) \in 1..Len(q \o r)
    BY <1>1
  <2>2. (q \o r)[i + Len(q)] = r[i]
    BY <1>1, <2>1
  <2>3. QED BY <2>1, <2>2 DEF Image
<1>5. QED BY <1>2, <1>3, <1>4

\* The members of a sequence, and its head and tail.
LEMMA ImageTail ==
  ASSUME NEW S, NEW q \in Seq(S), q # <<>>
  PROVE  /\ Tail(q) \in Seq(S) /\ Len(Tail(q)) = Len(q) - 1 /\ Len(q) > 0
         /\ \A i \in 1..Len(Tail(q)) : Tail(q)[i] = q[i + 1]
         /\ Head(q) = q[1] /\ Head(q) \in Image(q)
         /\ Image(Tail(q)) \subseteq Image(q)
         /\ \A x \in Image(q) : x = Head(q) \/ x \in Image(Tail(q))
<1>1. /\ Tail(q) \in Seq(S) /\ Len(Tail(q)) = Len(q) - 1 /\ Len(q) \in Nat /\ Len(q) > 0
      /\ \A i \in 1..Len(Tail(q)) : Tail(q)[i] = q[i + 1]
      /\ Head(q) = q[1]
  OBVIOUS
<1>2. Head(q) \in Image(q)
  BY <1>1 DEF Image
<1>3. \A i \in 1..Len(Tail(q)) : i + 1 \in 1..Len(q)
  BY <1>1
<1>4. Image(Tail(q)) \subseteq Image(q)
  BY <1>1, <1>3 DEF Image
<1>5. ASSUME NEW x \in Image(q) PROVE x = Head(q) \/ x \in Image(Tail(q))
  <2>1. PICK i \in 1..Len(q) : x = q[i]
    BY DEF Image
  <2>2. CASE i = 1
    BY <1>1, <2>1, <2>2
  <2>3. CASE i # 1
    <3>1. i - 1 \in 1..Len(Tail(q)) /\ (i - 1) + 1 = i
      BY <1>1, <2>3
    <3>2. Tail(q)[i - 1] = q[i]
      BY <1>1, <3>1
    <3>3. QED BY <2>1, <3>1, <3>2 DEF Image
  <2>4. QED BY <2>2, <2>3
<1>6. QED BY <1>1, <1>2, <1>4, <1>5

\* A part of a queue.
LEMMA PartFacts ==
  ASSUME NEW S, NEW q \in Seq(S), NEW a \in 0..Len(q), NEW b \in a..Len(q)
  PROVE  LET r == SubSeq(q, a + 1, b) IN
         /\ r \in Seq(S) /\ Len(r) = b - a
         /\ \A i \in 1..Len(r) : a + i \in 1..Len(q) /\ r[i] = q[a + i]
         /\ Image(r) \subseteq Image(q)
<1> DEFINE r == SubSeq(q, a + 1, b)
<1>1. Len(q) \in Nat /\ a \in Nat /\ b \in Nat /\ a <= b /\ b <= Len(q)
  OBVIOUS
<1>2. r \in Seq(S) /\ Len(r) = b - a /\ \A i \in 1..(b - a) : r[i] = q[a + i]
  <2>1. \A i \in (a + 1)..b : q[i] \in S
    BY <1>1
  <2>2. /\ r \in Seq(S) /\ Len(r) = IF a + 1 <= b THEN b - (a + 1) + 1 ELSE 0
        /\ \A i \in 1..(b - (a + 1) + 1) : r[i] = q[(a + 1) + i - 1]
    BY <1>1, <2>1, SubSeqProperties
  <2> HIDE DEF r
  <2>3. b - (a + 1) + 1 = b - a /\ \A i \in 1..(b - a) : (a + 1) + i - 1 = a + i
    BY <1>1
  <2>4. Len(r) = b - a
    BY <1>1, <2>2
  <2>5. QED BY <2>2, <2>3, <2>4
<1>3. \A i \in 1..(b - a) : a + i \in 1..Len(q)
  BY <1>1
<1>4. QED BY <1>2, <1>3 DEF Image

LEMMA ImageRange ==
  ASSUME NEW S, NEW q \in Seq(S)
  PROVE  /\ Image(q) \subseteq S /\ Len(q) \in Nat
         /\ \A i \in 1..Len(q) : q[i] \in Image(q) /\ q[i] \in S
         /\ \A x \in Image(q) : \E i \in 1..Len(q) : x = q[i]
BY DEF Image

-----------------------------------------------------------------------------
(* Types *)

LEMMA EnvelopeType == TypeInv => Envelope \in Envelopes
BY DEF TypeInv, Envelope, Envelopes

LEMMA KeyType == ASSUME NEW m \in Envelopes PROVE Key(m) \in Pairs
BY DEF Envelopes, Key, Pairs

\* The window keeps the number it was given last.
LEMMA RememberFacts ==
  ASSUME TypeInv, NEW key \in Pairs
  PROVE  /\ Remember(key) \in Seq(Pairs) /\ key \in Image(Remember(key))
         /\ Image(Remember(key)) \subseteq Image(recent) \cup {key}
<1> DEFINE q == Append(recent, key)
           r == KeepLast(q, DedupWindow)
           d == Len(q) - Len(r)
<1>1. /\ q \in Seq(Pairs) /\ DedupWindow \in Nat /\ DedupWindow > 0
      /\ Image(q) = Image(recent) \cup {key}
      /\ Len(q) = Len(recent) + 1 /\ q[Len(q)] = key /\ Len(recent) \in Nat
  <2>1. recent \in Seq(Pairs)
    BY DEF TypeInv
  <2>2. QED BY <2>1, ImageAppend, UplinkAssumption
<1> HIDE DEF q
<1>2. /\ r \in Seq(Pairs) /\ Len(r) <= Len(q)
      /\ \A i \in 1..Len(r) : i + d \in 1..Len(q) /\ r[i] = q[i + d]
      /\ Len(q) <= DedupWindow => r = q
      /\ Len(q) > DedupWindow => Len(r) = DedupWindow
  BY <1>1, KeepLastFacts
<1>3. Remember(key) = r
  BY DEF Remember, q
<1> HIDE DEF r
<1>4. Image(r) \subseteq Image(q)
  BY <1>2 DEF Image
<1>5. Len(r) \in Nat /\ Len(r) > 0
  BY <1>1, <1>2
<1>6. Len(r) \in 1..Len(r) /\ Len(r) + d = Len(q)
  BY <1>1, <1>5
<1>7. r[Len(r)] = q[Len(q)]
  BY <1>2, <1>6
<1>8. q[Len(q)] \in Image(r)
  BY <1>6, <1>7 DEF Image
<1>9. QED BY <1>1, <1>2, <1>3, <1>4, <1>8

\* Routing a message adds its samples and its number, or nothing.
LEMMA RouteType ==
  ASSUME TypeInv, NEW m \in Envelopes, Route(m)
  PROVE  /\ recent' \in Seq(Pairs) /\ recorded' \in Seq(Pairs) /\ forgot' \in BOOLEAN
         /\ routed' \subseteq Pairs /\ Image(recent') \subseteq routed'
         /\ archived' \in 0..Len(recorded') /\ crashed' = crashed
<1>1. CASE Key(m) \in Image(recent)
  BY <1>1 DEF Route, server, TypeInv
<1>2. CASE Key(m) \notin Image(recent)
  <2> DEFINE new == [i \in 1..Len(m.rows) |-> <<m.boot, m.rows[i]>>]
  <2>1. /\ recent' = Remember(Key(m)) /\ routed' = routed \cup {Key(m)} /\ Evicts
        /\ recorded' = recorded \o new /\ archived' = archived /\ crashed' = crashed
    BY <1>2 DEF Route
  <2>2. Key(m) \in Pairs /\ routed \subseteq Pairs /\ Image(recent) \subseteq routed
    BY KeyType DEF TypeInv
  <2>3. /\ recent' \in Seq(Pairs) /\ routed' \subseteq Pairs
        /\ Image(recent') \subseteq routed'
    BY <2>1, <2>2, RememberFacts
  <2>4. new \in Seq(Pairs)
    <3>1. m.rows \in Seq(Nat) /\ m.boot \in Nat /\ Len(m.rows) \in Nat
      BY DEF Envelopes
    <3>2. \A i \in 1..Len(m.rows) : <<m.boot, m.rows[i]>> \in Pairs
      BY <3>1 DEF Pairs
    <3>3. QED BY <3>1, <3>2
  <2> HIDE DEF new
  <2>5. recorded' \in Seq(Pairs) /\ Len(recorded') = Len(recorded) + Len(new)
    BY <2>1, <2>4 DEF TypeInv
  <2>6. Len(recorded) \in Nat /\ Len(new) \in Nat /\ archived \in 0..Len(recorded)
    BY <2>4 DEF TypeInv
  <2>7. forgot' \in BOOLEAN
    BY <2>1 DEF Evicts, TypeInv
  <2>8. archived' \in 0..Len(recorded')
    BY <2>1, <2>5, <2>6
  <2>9. QED BY <2>1, <2>3, <2>5, <2>7, <2>8
<1>3. QED BY <1>1, <1>2

LEMMA TypeInit == Init => TypeInv
<1> SUFFICES ASSUME Init PROVE TypeInv
  OBVIOUS
<1>1. Image(recent) = {} /\ Image(recent) \subseteq routed /\ routed \subseteq Pairs
  BY DEF Init, Image
<1>2. flight = Idle /\ flight \in [rows : Seq(Nat), left : 0..Copies, ok : BOOLEAN]
      /\ Len(flight.rows) <= MaxBatch
  BY UplinkAssumption DEF Init, Idle
<1>3. /\ recent \in Seq(Pairs) /\ recorded \in Seq(Pairs)
      /\ client \in Seq(Envelopes) /\ stray \in Seq(Envelopes)
      /\ handled \in 0..Len(client) /\ archived \in 0..Len(recorded)
  BY DEF Init
<1>4. buffer \in Seq(Nat) /\ Len(buffer) <= BufferMax
  BY UplinkAssumption DEF Init
<1>5. QED BY <1>1, <1>2, <1>3, <1>4 DEF Init, TypeInv

\* The types are kept by every thread of the agent, the network and the server.
LEMMA TypeStep == TypeInv /\ [Next]_vars => TypeInv'
<1> SUFFICES ASSUME TypeInv, [Next]_vars PROVE TypeInv'
  OBVIOUS
<1> USE DEF agent, net, server, past, Fault
<1>a. /\ BufferMax \in Nat /\ BufferMax > 0 /\ MaxBatch \in Nat /\ MaxBatch > 0
      /\ Copies \in Nat /\ Copies > 0
  BY UplinkAssumption
<1>1. CASE Offer
  <2>1. Append(buffer, offered + 1) \in Seq(Nat)
    BY DEF TypeInv
  <2>2. buffer' \in Seq(Nat) /\ Len(buffer') <= BufferMax
    BY <1>1, <1>a, <2>1, KeepLastFacts DEF Offer
  <2>3. QED BY <1>1, <2>2 DEF Offer, TypeInv
<1>2. /\ Batch \in Seq(Nat) /\ Len(Batch) \in Nat /\ Len(Batch) <= MaxBatch
      /\ buffer # <<>> => Batch # <<>>
      /\ Remaining \in Seq(Nat) /\ Len(Remaining) <= BufferMax
  <2>1. buffer \in Seq(Nat) /\ Len(buffer) \in Nat /\ Len(buffer) <= BufferMax
    BY DEF TypeInv
  <2>2. /\ Batch \in Seq(Nat) /\ Len(Batch) <= MaxBatch
        /\ Len(buffer) <= MaxBatch => Batch = buffer
        /\ Len(buffer) > MaxBatch => Len(Batch) = MaxBatch
    BY <2>1, <1>a, KeepFirstFacts DEF Batch
  <2>3. buffer # <<>> => Batch # <<>>
    BY <2>1, <2>2, <1>a
  <2>4. Remaining \in Seq(Nat)
        /\ Len(Remaining) = IF MaxBatch < Len(buffer) THEN Len(buffer) - MaxBatch ELSE 0
    BY <2>1, <1>a, DropFirstFacts DEF Remaining
  <2>5. Len(Remaining) <= BufferMax
    BY <1>a, <2>1, <2>4
  <2>6. Len(Batch) \in Nat
    BY <2>2
  <2>7. QED BY <2>2, <2>3, <2>4, <2>5, <2>6
<1>b. CASE FlushTakes
  <2>1. flight' \in [rows : Seq(Nat), left : 0..Copies, ok : BOOLEAN]
        /\ Len(flight'.rows) <= MaxBatch /\ flight'.rows # <<>>
    BY <1>b, <1>a, <1>2 DEF FlushTakes
  <2>2. buffer' \in Seq(Nat) /\ Len(buffer') <= BufferMax
    BY <1>b, <1>2 DEF FlushTakes
  <2>3. QED BY <1>b, <2>1, <2>2 DEF FlushTakes, TypeInv
<1>c. CASE EncodeFails
  <2>1. unsent' \in Nat /\ seq' \in Nat
    BY <1>c, <1>2 DEF EncodeFails, TypeInv
  <2>2. buffer' \in Seq(Nat) /\ Len(buffer') <= BufferMax
    BY <1>c, <1>2 DEF EncodeFails
  <2>3. flight = Idle /\ flight' = flight
    BY <1>c DEF EncodeFails
  <2>4. QED BY <1>c, <2>1, <2>2, <2>3 DEF EncodeFails, TypeInv
<1>3. CASE PublishAccepted \/ PublishRefused
  <2>1. client' \in {client, Append(client, Envelope)}
    BY <1>3 DEF PublishAccepted, PublishRefused
  <2>2. client' \in Seq(Envelopes) /\ Len(client) <= Len(client')
    <3>1. Envelope \in Envelopes
      BY EnvelopeType
    <3>2. client \in Seq(Envelopes)
      BY DEF TypeInv
    <3>3. /\ Append(client, Envelope) \in Seq(Envelopes)
          /\ Len(Append(client, Envelope)) = Len(client) + 1 /\ Len(client) \in Nat
      BY <3>1, <3>2
    <3>4. QED BY <2>1, <3>2, <3>3
  <2>3. flight # Idle
    BY <1>3 DEF PublishAccepted, PublishRefused, Idle
  <2>4. /\ flight' \in [rows : Seq(Nat), left : 0..Copies, ok : BOOLEAN]
        /\ flight'.rows = flight.rows
    <3>1. flight.left > 0 /\ flight.left \in 0..Copies
      BY <1>3 DEF PublishAccepted, PublishRefused, TypeInv
    <3>2. flight.left - 1 \in 0..Copies
      BY <3>1, <1>a
    <3>3. QED BY <1>3, <3>2 DEF PublishAccepted, PublishRefused, TypeInv
  <2>5. UNCHANGED <<offered, origin, buffer, dropped, unsent, boot, seq, handled, stray,
                    server>>
    BY <1>3 DEF PublishAccepted, PublishRefused
  <2>6. handled' \in 0..Len(client')
    BY <2>2, <2>5 DEF TypeInv
  <2>7. QED BY <2>2, <2>3, <2>4, <2>5, <2>6 DEF TypeInv
<1>4. CASE FlushEnds
  <2>1. /\ flight' = Idle /\ flight # Idle
        /\ UNCHANGED <<offered, origin, dropped, unsent, boot, net, server>>
    BY <1>4 DEF FlushEnds
  <2>2. flight' \in [rows : Seq(Nat), left : 0..Copies, ok : BOOLEAN]
        /\ Len(flight'.rows) <= MaxBatch
    BY <1>a, <2>1 DEF Idle
  <2>3. seq' \in Nat /\ buffer' \in Seq(Nat) /\ Len(buffer') <= BufferMax
    <3>1. CASE flight.ok
      BY <1>4, <3>1 DEF FlushEnds, TypeInv
    <3>2. CASE ~flight.ok
      <4>1. flight.rows \o buffer \in Seq(Nat)
        BY DEF TypeInv
      <4>2. buffer' = KeepFirst(flight.rows \o buffer, BufferMax) /\ seq' = seq - 1
        BY <1>4, <3>2 DEF FlushEnds
      <4>3. buffer' \in Seq(Nat) /\ Len(buffer') <= BufferMax
        BY <1>a, <4>1, <4>2, KeepFirstFacts
      <4>4. QED BY <4>2, <4>3, <2>1 DEF TypeInv
    <3>3. QED BY <3>1, <3>2
  <2>4. QED BY <2>1, <2>2, <2>3 DEF TypeInv
<1>5. ASSUME handled \in 0..Len(client) PROVE Written \subseteq Seq(Envelopes)
  <2> SUFFICES ASSUME NEW j \in handled..Len(client)
               PROVE  SubSeq(client, handled + 1, j) \in Seq(Envelopes)
    BY DEF Written
  <2>1. client \in Seq(Envelopes)
    BY DEF TypeInv
  <2>2. QED BY <1>5, <2>1, PartFacts
<1>6. CASE AgentRestarts
  <2>1. stray' \in Seq(Envelopes)
    BY <1>5, <1>6 DEF AgentRestarts, TypeInv
  <2>2. flight' \in [rows : Seq(Nat), left : 0..Copies, ok : BOOLEAN]
        /\ flight' = Idle /\ Len(flight'.rows) <= MaxBatch
    BY <1>6, <1>a DEF Idle, AgentRestarts
  <2>3. /\ boot' = boot + 1 /\ seq' = 0 /\ dropped' = 0 /\ unsent' = 0 /\ origin' = offered
        /\ buffer' = <<>> /\ client' = <<>> /\ handled' = 0
        /\ UNCHANGED <<offered, recent, routed, forgot, recorded, archived, crashed>>
    BY <1>6 DEF AgentRestarts, server
  <2>4. /\ offered' \in Nat /\ origin' \in Nat /\ boot' \in Nat /\ seq' \in Nat
        /\ dropped' \in Nat /\ crashed' \in Nat /\ unsent' \in Nat
    BY <2>3 DEF TypeInv
  <2>5. /\ buffer' \in Seq(Nat) /\ Len(buffer') <= BufferMax
        /\ client' \in Seq(Envelopes) /\ handled' \in 0..Len(client')
    BY <1>a, <2>3
  <2>6. /\ recent' \in Seq(Pairs) /\ recorded' \in Seq(Pairs) /\ forgot' \in BOOLEAN
        /\ routed' \subseteq Pairs /\ Image(recent') \subseteq routed'
        /\ archived' \in 0..Len(recorded')
    BY <2>3 DEF TypeInv
  <2>7. QED BY <2>1, <2>2, <2>4, <2>5, <2>6 DEF TypeInv
<1>7. CASE Break
  <2>1. stray' \in Seq(Envelopes) /\ handled' = 0
    BY <1>5, <1>7 DEF Break, TypeInv
  <2>2. QED BY <1>7, <2>1 DEF Break, TypeInv
<1>8. CASE BreakNoticed \/ Connect \/ StrayLost
  <2>1. UNCHANGED <<agent, client, handled, server>> /\ stray' \in {stray, <<>>}
    BY <1>8 DEF BreakNoticed, Connect, StrayLost
  <2>2. stray' \in Seq(Envelopes)
    <3>1. stray \in Seq(Envelopes) /\ <<>> \in Seq(Envelopes)
      BY DEF TypeInv
    <3>2. QED BY <2>1, <3>1
  <2>3. QED BY <2>1, <2>2 DEF TypeInv
<1>9. CASE Acknowledged
  <2>1. client # <<>> /\ client' = Tail(client) /\ handled' = handled - 1
    BY <1>9 DEF Acknowledged, TypeInv
  <2>2. client' \in Seq(Envelopes) /\ Len(client') = Len(client) - 1
    BY <2>1, ImageTail DEF TypeInv
  <2>3. handled' \in 0..Len(client')
    BY <1>9, <2>1, <2>2 DEF Acknowledged, TypeInv
  <2>4. QED BY <1>9, <2>2, <2>3 DEF Acknowledged, TypeInv
<1>10. CASE Deliver
  <2>1. client[handled + 1] \in Envelopes /\ handled' \in 0..Len(client)
    BY <1>10 DEF Deliver, TypeInv
  <2>2. QED BY <1>10, <2>1, RouteType DEF Deliver, TypeInv
<1>11. CASE DeliverStray
  <2>1. Head(stray) \in Envelopes /\ stray' \in Seq(Envelopes)
    BY <1>11, ImageTail, ImageRange DEF DeliverStray, TypeInv
  <2>2. QED BY <1>11, <2>1, RouteType DEF DeliverStray, TypeInv
<1>12. CASE Archive
  BY <1>12 DEF Archive, TypeInv
<1>d. CASE OthersRoute
  <2>1. recent' = Tail(recent) /\ recent # <<>> /\ forgot' \in BOOLEAN
    BY <1>d DEF OthersRoute, Evicts, TypeInv
  <2>2. recent' \in Seq(Pairs) /\ Image(recent') \subseteq Image(recent)
    BY <2>1, ImageTail DEF TypeInv
  <2>3. UNCHANGED <<agent, net, routed, recorded, archived, crashed>>
    BY <1>d DEF OthersRoute
  <2>4. QED BY <2>1, <2>2, <2>3 DEF TypeInv
<1>13. CASE ServerRestarts
  <2>1. /\ recorded' \in Seq(Pairs) /\ Len(recorded') = archived
    <3>1. archived \in Nat /\ archived <= Len(recorded) /\ recorded \in Seq(Pairs)
          /\ Len(recorded) \in Nat
      BY DEF TypeInv
    <3>2. recorded' = KeepFirst(recorded, archived)
      BY <1>13 DEF ServerRestarts
    <3>3. /\ recorded' \in Seq(Pairs)
          /\ Len(recorded) <= archived => recorded' = recorded
          /\ Len(recorded) > archived => Len(recorded') = archived
      BY <3>1, <3>2, KeepFirstFacts
    <3>4. QED BY <3>1, <3>3
  <2>2. crashed' \in Nat
    BY <1>13 DEF ServerRestarts, TypeInv
  <2>3. /\ handled' \in 0..Len(client') /\ recent' \in Seq(Pairs) /\ stray' \in Seq(Envelopes)
        /\ routed' \subseteq Pairs /\ Image(recent') \subseteq routed'
    BY <1>13 DEF ServerRestarts, TypeInv, Image
  <2>4. archived' \in 0..Len(recorded')
    BY <1>13, <2>1 DEF ServerRestarts, TypeInv
  <2>5. QED BY <1>13, <2>1, <2>2, <2>3, <2>4 DEF ServerRestarts, TypeInv
<1>14. CASE UNCHANGED vars
  BY <1>14 DEF vars, TypeInv
<1>15. QED
  BY <1>1, <1>3, <1>4, <1>6, <1>7, <1>8, <1>9, <1>10, <1>11, <1>12, <1>13, <1>14,
     <1>b, <1>c, <1>d DEF Next

-----------------------------------------------------------------------------
(* The deque *)

LEMMA DequeTypes ==
  ASSUME TypeInv
  PROVE  /\ buffer \in Seq(Nat) /\ Len(buffer) \in Nat /\ Len(buffer) <= BufferMax
         /\ flight.rows \in Seq(Nat) /\ Len(flight.rows) \in Nat
         /\ Len(flight.rows) <= MaxBatch /\ offered \in Nat
         /\ BufferMax \in Nat /\ BufferMax > 0 /\ MaxBatch \in Nat /\ MaxBatch > 0
         /\ Copies \in Nat /\ Copies > 0
<1>1. BufferMax \in Nat /\ BufferMax > 0 /\ MaxBatch \in Nat /\ MaxBatch > 0
      /\ Copies \in Nat /\ Copies > 0
  BY UplinkAssumption
<1>2. /\ buffer \in Seq(Nat) /\ Len(buffer) <= BufferMax /\ offered \in Nat
      /\ flight.rows \in Seq(Nat) /\ Len(flight.rows) <= MaxBatch
  BY DEF TypeInv
<1>3. Len(buffer) \in Nat /\ Len(flight.rows) \in Nat
  BY <1>2
<1>4. QED BY <1>1, <1>2, <1>3

\* A sample is put at the right end; a full deque loses its first.
LEMMA OfferFacts ==
  ASSUME TypeInv, SamplesInv, Offer
  PROVE  /\ Increasing(buffer') /\ Image(buffer') \subseteq Image(buffer) \cup {offered + 1}
         /\ Rest' \subseteq Rest \cup {offered + 1}
         /\ offered + 1 \in Image(buffer')
         /\ \A x \in Image(buffer) :
              x \in Image(buffer') \/ (Len(buffer) = BufferMax /\ x = buffer[1])
<1> DEFINE n == Len(buffer)
           q == Append(buffer, offered + 1)
           r == KeepLast(q, BufferMax)
           d == Len(q) - Len(r)
<1>1. /\ n \in Nat /\ n <= BufferMax /\ BufferMax \in Nat /\ BufferMax > 0
      /\ MaxBatch \in Nat /\ offered \in Nat /\ buffer \in Seq(Nat)
  BY DequeTypes
<1>2. /\ q \in Seq(Nat) /\ Len(q) = n + 1 /\ q[n + 1] = offered + 1
      /\ \A i \in 1..n : q[i] = buffer[i]
  BY <1>1
<1>3. \A i \in 1..n : buffer[i] \in 1..offered
  BY DEF SamplesInv, Image
<1>4. Increasing(q)
  <2> SUFFICES ASSUME NEW i \in 1..(n + 1), NEW j \in 1..(n + 1), i < j
               PROVE  q[i] < q[j]
    BY <1>2 DEF Increasing
  <2>1. i \in 1..n
    BY <1>1
  <2>2. CASE j = n + 1
    BY <1>1, <1>2, <1>3, <2>1, <2>2
  <2>3. CASE j # n + 1
    <3>1. j \in 1..n
      BY <1>1, <2>3
    <3>2. QED BY <1>2, <2>1, <3>1 DEF SamplesInv, Increasing
  <2>4. QED BY <2>2, <2>3
<1> HIDE DEF q
<1>5. /\ r \in Seq(Nat) /\ Len(r) <= BufferMax /\ Len(r) <= n + 1
      /\ \A i \in 1..Len(r) : i + d \in 1..(n + 1) /\ r[i] = q[i + d]
      /\ n + 1 <= BufferMax => r = q
      /\ n + 1 > BufferMax => Len(r) = BufferMax
  <2>1. /\ r \in Seq(Nat) /\ Len(r) <= BufferMax /\ Len(r) <= Len(q)
        /\ \A i \in 1..Len(r) : i + d \in 1..Len(q) /\ r[i] = q[i + d]
        /\ Len(q) <= BufferMax => r = q
        /\ Len(q) > BufferMax => Len(r) = BufferMax
    <3>1. q \in Seq(Nat) /\ BufferMax \in Nat
      BY <1>1, <1>2
    <3>2. QED BY <3>1, KeepLastFacts
  <2>2. QED BY <1>2, <2>1
<1> HIDE DEF r
<1>6. Len(r) \in Nat /\ Len(r) > 0 /\ d \in {0, 1} /\ (d = 1 => n = BufferMax)
  <2> DEFINE k == Len(r)
  <2>1. k \in Nat /\ k <= BufferMax /\ k <= n + 1
    BY <1>5
  <2>2. (n + 1 <= BufferMax => k = n + 1) /\ (n + 1 > BufferMax => k = BufferMax)
    BY <1>2, <1>5
  <2>3. d = n + 1 - k
    BY <1>2
  <2> HIDE DEF k, d, n
  <2>4. QED BY <1>1, <2>1, <2>2, <2>3 DEF k
<1>7. buffer' = r /\ offered' = offered + 1
  BY DEF Offer, r, q
<1>8. Increasing(r)
  <2> SUFFICES ASSUME NEW i \in 1..Len(r), NEW j \in 1..Len(r), i < j
               PROVE  r[i] < r[j]
    BY DEF Increasing
  <2>1. /\ i + d \in 1..Len(q) /\ j + d \in 1..Len(q) /\ i + d < j + d
    BY <1>2, <1>5, <1>6
  <2>2. q[i + d] < q[j + d]
    BY <1>4, <2>1 DEF Increasing
  <2>3. QED BY <1>5, <2>2
<1>9. ASSUME NEW i \in 1..Len(r)
      PROVE  \/ r[i] = offered + 1
             \/ i + d \in 1..n /\ r[i] = buffer[i + d]
  <2>1. i + d \in 1..(n + 1) /\ r[i] = q[i + d]
    BY <1>5
  <2>2. CASE i + d = n + 1
    BY <1>2, <2>1, <2>2
  <2>3. CASE i + d # n + 1
    <3>1. i + d \in 1..n
      <4>1. n \in Nat /\ i + d \in 1..(n + 1) /\ i + d # n + 1
        BY <1>1, <2>1, <2>3
      <4> HIDE DEF n, d
      <4>2. QED BY <4>1
    <3>2. QED BY <1>2, <2>1, <3>1
  <2>4. QED BY <2>2, <2>3
<1>10. Image(r) \subseteq Image(buffer) \cup {offered + 1}
  BY <1>9 DEF Image
<1>11. Rest' \subseteq Rest \cup {offered + 1}
  <2> SUFFICES ASSUME NEW i \in (MaxBatch + 1)..Len(r)
               PROVE  r[i] \in Rest \cup {offered + 1}
    BY <1>7 DEF Rest
  <2>1. i \in 1..Len(r)
    BY <1>1, <1>6
  <2>2. CASE r[i] # offered + 1
    <3>1. i + d \in 1..n /\ r[i] = buffer[i + d]
      BY <1>9, <2>1, <2>2
    <3>2. i + d \in (MaxBatch + 1)..n
      <4>1. /\ n \in Nat /\ MaxBatch \in Nat /\ d \in {0, 1} /\ i + d \in 1..n
            /\ i \in Nat /\ i >= MaxBatch + 1
        BY <1>1, <1>6, <3>1
      <4> HIDE DEF n, d
      <4>2. QED BY <4>1
    <3>3. QED BY <3>1, <3>2 DEF Rest
  <2>3. QED BY <2>2
<1>12. offered + 1 \in Image(r)
  <2>1. Len(r) + d = n + 1 /\ Len(r) \in 1..Len(r)
    BY <1>1, <1>2, <1>5, <1>6
  <2>2. r[Len(r)] = offered + 1
    BY <1>2, <1>5, <2>1
  <2>3. QED BY <2>1, <2>2 DEF Image
<1>13. ASSUME NEW x \in Image(buffer)
       PROVE  x \in Image(r) \/ (n = BufferMax /\ x = buffer[1])
  <2>1. PICK i \in 1..n : x = buffer[i]
    BY DEF Image
  <2>2. CASE i - d \in 1..Len(r)
    <3>1. r[i - d] = q[(i - d) + d] /\ (i - d) + d = i
      BY <1>5, <1>6, <2>2
    <3>2. r[i - d] = x
      BY <1>2, <2>1, <3>1
    <3>3. QED BY <2>2, <3>2 DEF Image
  <2>3. CASE i - d \notin 1..Len(r)
    <3>1. d = 1 /\ i = 1
      <4>1. Len(r) = n + 1 - d
        BY <1>2, <1>6
      <4> HIDE DEF n, d
      <4>2. QED BY <1>1, <1>6, <2>3, <4>1
    <3>2. QED BY <1>6, <2>1, <3>1
  <2>4. QED BY <2>2, <2>3
<1> HIDE DEF d
<1>14. QED BY <1>7, <1>8, <1>10, <1>11, <1>12, <1>13

\* A batch is the left end of the deque, up to MaxBatch samples.
LEMMA TakeFacts ==
  ASSUME TypeInv, SamplesInv
  PROVE  /\ Batch \in Seq(Nat) /\ Increasing(Remaining) /\ Increasing(Batch)
         /\ Below(Image(Batch), Image(Remaining))
         /\ Image(buffer) = Image(Batch) \cup Image(Remaining)
         /\ Image(Remaining) = Rest
         /\ {Remaining[i] : i \in (MaxBatch + 1)..Len(Remaining)} \subseteq Rest
<1> DEFINE n == Len(buffer)
           f == KeepFirst(buffer, MaxBatch)
           r == SubSeq(buffer, MaxBatch + 1, n)
<1>1. n \in Nat /\ MaxBatch \in Nat /\ MaxBatch > 0 /\ buffer \in Seq(Nat)
  BY DequeTypes
<1>2. Batch = f /\ Remaining = r
  BY DEF Batch, Remaining
<1>4. /\ f \in Seq(Nat) /\ \A i \in 1..Len(f) : f[i] = buffer[i]
      /\ n <= MaxBatch => f = buffer
      /\ n > MaxBatch => Len(f) = MaxBatch
  BY <1>1, KeepFirstFacts
<1>5. /\ r \in Seq(Nat) /\ Len(r) = IF MaxBatch < n THEN n - MaxBatch ELSE 0
      /\ \A i \in 1..Len(r) : r[i] = buffer[i + MaxBatch]
  BY <1>1, DropFirstFacts
<1> HIDE DEF f, r
<1>6. Len(f) \in Nat /\ Len(r) \in Nat /\ Len(f) + Len(r) = n
      /\ (Len(r) > 0 => Len(f) = MaxBatch) /\ Len(f) <= MaxBatch
  <2>1. CASE n <= MaxBatch
    <3>1. Len(f) = n /\ Len(r) = 0
      BY <1>1, <1>4, <1>5, <2>1
    <3>2. QED BY <1>1, <2>1, <3>1
  <2>2. CASE n > MaxBatch
    <3>1. Len(f) = MaxBatch /\ Len(r) = n - MaxBatch
      BY <1>1, <1>4, <1>5, <2>2
    <3>2. QED BY <1>1, <2>2, <3>1
  <2>3. QED BY <1>1, <2>1, <2>2
<1>7. \A i, j \in 1..n : i < j => buffer[i] < buffer[j]
  BY DEF SamplesInv, Increasing
<1>8. Increasing(f)
  <2>1. \A i \in 1..Len(f) : i \in 1..n
    BY <1>6
  <2>2. QED BY <1>4, <1>7, <2>1 DEF Increasing
<1>9. \A i \in 1..Len(r) : i + MaxBatch \in 1..n
  <2> DEFINE x == Len(f)
             y == Len(r)
  <2>1. /\ x \in Nat /\ y \in Nat /\ x + y = n /\ (y > 0 => x = MaxBatch)
        /\ MaxBatch \in Nat
    BY <1>1, <1>6
  <2> HIDE DEF x, y
  <2>2. \A i \in 1..y : i + MaxBatch \in 1..n
    BY <2>1
  <2>3. QED BY <2>2 DEF y
<1>10. Increasing(r)
  <2> SUFFICES ASSUME NEW i \in 1..Len(r), NEW j \in 1..Len(r), i < j
               PROVE  r[i] < r[j]
    BY DEF Increasing
  <2>1. i + MaxBatch < j + MaxBatch /\ i + MaxBatch \in 1..n /\ j + MaxBatch \in 1..n
    BY <1>1, <1>9
  <2>2. QED BY <1>5, <1>7, <2>1
<1>11. Below(Image(f), Image(r))
  <2> SUFFICES ASSUME NEW i \in 1..Len(f), NEW j \in 1..Len(r) PROVE f[i] < r[j]
    BY DEF Below, Image
  <2>1. i \in 1..n /\ j + MaxBatch \in 1..n /\ i < j + MaxBatch
    <3> DEFINE x == Len(f)
               y == Len(r)
    <3>1. /\ x \in Nat /\ y \in Nat /\ x <= MaxBatch /\ x + y = n
          /\ i \in 1..x /\ j \in 1..y /\ MaxBatch \in Nat
      BY <1>1, <1>6
    <3>2. j + MaxBatch \in 1..n
      BY <1>9
    <3> HIDE DEF x, y
    <3>3. QED BY <3>1, <3>2
  <2>2. QED BY <1>4, <1>5, <1>7, <2>1
<1>12. Image(r) = Rest
  <2>1. ASSUME NEW i \in 1..Len(r) PROVE r[i] \in Rest
    <3>1. i + MaxBatch \in (MaxBatch + 1)..n
      BY <1>1, <1>6, <1>9
    <3>2. QED BY <1>5, <3>1 DEF Rest
  <2>2. ASSUME NEW i \in (MaxBatch + 1)..n PROVE buffer[i] \in Image(r)
    <3>1. i - MaxBatch \in 1..Len(r) /\ (i - MaxBatch) + MaxBatch = i
      <4> DEFINE y == Len(r)
      <4>1. n \in Nat /\ MaxBatch \in Nat /\ y = IF MaxBatch < n THEN n - MaxBatch ELSE 0
        BY <1>1, <1>5
      <4> HIDE DEF y
      <4>2. i - MaxBatch \in 1..y /\ (i - MaxBatch) + MaxBatch = i
        BY <4>1
      <4>3. QED BY <4>2 DEF y
    <3>2. r[i - MaxBatch] = buffer[i]
      BY <1>5, <3>1
    <3>3. QED BY <3>1, <3>2 DEF Image
  <2>3. QED BY <2>1, <2>2 DEF Rest, Image
<1>13. Image(buffer) = Image(f) \cup Image(r)
  <2>1. Image(f) \subseteq Image(buffer)
    <3>1. \A i \in 1..Len(f) : i \in 1..n
      BY <1>6
    <3>2. QED BY <1>4, <3>1 DEF Image
  <2>2. Image(r) \subseteq Image(buffer)
    BY <1>5, <1>9 DEF Image
  <2>3. ASSUME NEW i \in 1..n PROVE buffer[i] \in Image(f) \cup Image(r)
    <3>1. CASE i \in 1..Len(f)
      BY <1>4, <3>1 DEF Image
    <3>2. CASE i \notin 1..Len(f)
      <4>1. i \in (MaxBatch + 1)..n
        <5> DEFINE x == Len(f)
                   y == Len(r)
        <5>1. /\ x \in Nat /\ y \in Nat /\ x + y = n /\ (y > 0 => x = MaxBatch)
              /\ MaxBatch \in Nat /\ i \in 1..n /\ i \notin 1..x
          BY <1>1, <1>6, <3>2
        <5> HIDE DEF x, y
        <5>2. QED BY <5>1
      <4>2. QED BY <1>12, <4>1 DEF Rest
    <3>3. QED BY <3>1, <3>2
  <2>4. QED BY <2>1, <2>2, <2>3 DEF Image
<1>14. {r[i] : i \in (MaxBatch + 1)..Len(r)} \subseteq Rest
  <2>1. \A i \in (MaxBatch + 1)..Len(r) : i \in 1..Len(r)
    BY <1>1
  <2>2. {r[i] : i \in (MaxBatch + 1)..Len(r)} \subseteq Image(r)
    BY <2>1 DEF Image
  <2>3. QED BY <1>12, <2>2
<1>15. QED BY <1>2, <1>4, <1>8, <1>10, <1>11, <1>12, <1>13, <1>14

LEMMA FlushFacts ==
  ASSUME TypeInv, SamplesInv, FlushTakes
  PROVE  /\ Increasing(buffer') /\ Increasing(flight'.rows)
         /\ Below(Image(flight'.rows), Image(buffer'))
         /\ Image(buffer) = Image(flight'.rows) \cup Image(buffer')
         /\ Image(buffer') = Rest /\ Rest' \subseteq Rest
         /\ flight' # Idle
<1>1. /\ flight' = [rows |-> Batch, left |-> Copies, ok |-> TRUE] /\ buffer' = Remaining
  BY DEF FlushTakes
<1>2. flight' # Idle
  BY <1>1, DequeTypes DEF Idle
<1>3. Rest' \subseteq Rest
  BY <1>1, TakeFacts DEF Rest
<1>4. QED BY <1>1, <1>2, <1>3, TakeFacts

\* A refused batch is put back; what does not fit is lost at the other end.
LEMMA PutBackFacts ==
  ASSUME TypeInv, SamplesInv, FlushEnds, ~flight.ok
  PROVE  /\ Increasing(buffer')
         /\ Image(buffer') \subseteq Image(flight.rows) \cup Image(buffer)
         /\ Rest' \subseteq Image(buffer)
<1> DEFINE f == flight.rows
           q == f \o buffer
           r == KeepFirst(q, BufferMax)
<1>1. /\ f \in Seq(Nat) /\ buffer \in Seq(Nat) /\ BufferMax \in Nat /\ MaxBatch \in Nat
      /\ Len(f) \in Nat /\ Len(buffer) \in Nat /\ Len(f) <= MaxBatch
  BY DequeTypes
<1>2. /\ q \in Seq(Nat) /\ Len(q) = Len(f) + Len(buffer)
      /\ \A i \in 1..Len(f) : q[i] = f[i]
      /\ \A i \in (Len(f) + 1)..Len(q) : q[i] = buffer[i - Len(f)]
  BY <1>1
<1>3. buffer' = r
  BY DEF FlushEnds
<1>4. /\ Increasing(f) /\ Increasing(buffer) /\ Below(Image(f), Image(buffer))
  BY DEF SamplesInv
<1> HIDE DEF f, q
<1>5. \A i \in (Len(f) + 1)..Len(q) : i - Len(f) \in 1..Len(buffer)
  BY <1>1, <1>2
<1>6. Increasing(q)
  <2> SUFFICES ASSUME NEW i \in 1..Len(q), NEW j \in 1..Len(q), i < j
               PROVE  q[i] < q[j]
    BY DEF Increasing
  <2>1. CASE j <= Len(f)
    <3>1. i \in 1..Len(f) /\ j \in 1..Len(f)
      BY <1>1, <2>1
    <3>2. QED BY <1>2, <1>4, <3>1 DEF Increasing
  <2>2. CASE i > Len(f)
    <3>1. /\ i \in (Len(f) + 1)..Len(q) /\ j \in (Len(f) + 1)..Len(q)
          /\ i - Len(f) < j - Len(f)
      <4> DEFINE x == Len(f)
                 y == Len(q)
      <4>1. x \in Nat /\ i \in 1..y /\ j \in 1..y /\ i < j /\ i > x /\ y \in Nat
        BY <1>1, <1>2, <2>2
      <4> HIDE DEF x, y
      <4>2. i \in (x + 1)..y /\ j \in (x + 1)..y /\ i - x < j - x
        BY <4>1
      <4>3. QED BY <4>2 DEF x, y
    <3>2. QED BY <1>2, <1>4, <1>5, <3>1 DEF Increasing
  <2>3. CASE i <= Len(f) /\ j > Len(f)
    <3>1. i \in 1..Len(f) /\ j \in (Len(f) + 1)..Len(q)
      BY <1>1, <1>2, <2>3
    <3>2. q[i] \in Image(f) /\ q[j] \in Image(buffer)
      BY <1>2, <1>5, <3>1 DEF Image
    <3>3. QED BY <1>4, <3>2 DEF Below
  <2>4. \/ j <= Len(f) \/ i > Len(f) \/ (i <= Len(f) /\ j > Len(f))
    BY <1>1
  <2>5. QED BY <2>1, <2>2, <2>3, <2>4
<1>7. /\ r \in Seq(Nat) /\ Len(r) <= Len(q) /\ \A i \in 1..Len(r) : r[i] = q[i]
  BY <1>1, <1>2, KeepFirstFacts
<1> HIDE DEF r
<1>8. \A i \in 1..Len(r) : i \in 1..Len(q)
  BY <1>1, <1>2, <1>7
<1>9. Increasing(r)
  BY <1>6, <1>7, <1>8 DEF Increasing
<1>10. \A i \in 1..Len(q) : i > Len(f) => q[i] \in Image(buffer)
  <2> SUFFICES ASSUME NEW i \in 1..Len(q), i > Len(f) PROVE q[i] \in Image(buffer)
    OBVIOUS
  <2>1. i \in (Len(f) + 1)..Len(q)
    BY <1>1, <1>2
  <2>2. QED BY <1>2, <1>5, <2>1 DEF Image
<1>11. Image(r) \subseteq Image(f) \cup Image(buffer)
  <2> SUFFICES ASSUME NEW i \in 1..Len(r) PROVE r[i] \in Image(f) \cup Image(buffer)
    BY DEF Image
  <2>1. CASE i \in 1..Len(f)
    BY <1>2, <1>7, <2>1 DEF Image
  <2>2. CASE i \notin 1..Len(f)
    <3>1. i > Len(f)
      BY <1>1, <2>2
    <3>2. QED BY <1>7, <1>8, <1>10, <3>1
  <2>3. QED BY <2>1, <2>2
<1>12. Rest' \subseteq Image(buffer)
  <2> SUFFICES ASSUME NEW i \in (MaxBatch + 1)..Len(r) PROVE r[i] \in Image(buffer)
    BY <1>3 DEF Rest
  <2>1. i \in 1..Len(r) /\ i > Len(f)
    BY <1>1
  <2>2. QED BY <1>7, <1>8, <1>10, <2>1
<1>13. QED BY <1>3, <1>9, <1>11, <1>12 DEF f

-----------------------------------------------------------------------------
(* Numbers and samples on the way *)

LEMMA MessagesType ==
  TypeInv => Messages \subseteq Envelopes /\ Known \subseteq Envelopes
<1> SUFFICES ASSUME TypeInv PROVE Messages \subseteq Envelopes /\ Known \subseteq Envelopes
  OBVIOUS
<1>1. Image(client) \subseteq Envelopes /\ Image(stray) \subseteq Envelopes
  BY ImageRange DEF TypeInv
<1>2. Envelope \in Envelopes
  BY EnvelopeType
<1>3. QED BY <1>1, <1>2 DEF Messages, Known

\* What a socket still holds is a part of the client's queue.
LEMMA WrittenFacts ==
  ASSUME TypeInv, NEW q \in Written
  PROVE  /\ q \in Seq(Envelopes) /\ Image(q) \subseteq Image(client)
         /\ \A i \in 1..Len(q) : handled + i \in 1..Len(client) /\ q[i] = client[handled + i]
<1>1. PICK j \in handled..Len(client) : q = SubSeq(client, handled + 1, j)
  BY DEF Written
<1>2. client \in Seq(Envelopes) /\ handled \in 0..Len(client)
  BY DEF TypeInv
<1>3. QED BY <1>1, <1>2, PartFacts

\* A message is handed to the client, or refused; the batch stays in flight.
LEMMA PublishFacts ==
  ASSUME TypeInv, PublishAccepted \/ PublishRefused
  PROVE  /\ flight # Idle /\ flight' # Idle /\ Envelope' = Envelope /\ Latest' = Latest
         /\ Latest = seq /\ flight'.rows = flight.rows
         /\ client' \in {client, Append(client, Envelope)}
         /\ Image(client) \subseteq Image(client')
         /\ Image(client') \subseteq Image(client) \cup {Envelope}
         /\ Messages \subseteq Messages' /\ Messages' \subseteq Messages \cup {Envelope}
         /\ Known' = Known
         /\ UNCHANGED <<offered, origin, buffer, dropped, boot, seq, link, handled, stray,
                        server, restarted>>
<1>1. flight # Idle
  BY DEF PublishAccepted, PublishRefused, Idle
<1>2. /\ client' \in {client, Append(client, Envelope)}
      /\ UNCHANGED <<offered, origin, buffer, dropped, boot, seq, link, handled, stray,
                     server, restarted>>
  BY DEF PublishAccepted, PublishRefused, past
<1>3. flight'.rows = flight.rows
  BY DEF PublishAccepted, PublishRefused, TypeInv
<1>4. flight' # Idle
  BY <1>1, <1>3 DEF TypeInv, Idle
<1>5. Envelope' = Envelope
  BY <1>2, <1>3 DEF Envelope
<1>6. Latest' = Latest /\ Latest = seq
  BY <1>1, <1>2, <1>4 DEF Latest
<1>7. client \in Seq(Envelopes) /\ Envelope \in Envelopes
  BY EnvelopeType DEF TypeInv
<1>8. Image(Append(client, Envelope)) = Image(client) \cup {Envelope}
  BY <1>7, ImageAppend
<1>9. /\ Image(client) \subseteq Image(client')
      /\ Image(client') \subseteq Image(client) \cup {Envelope}
  BY <1>2, <1>8
<1>10. Messages \subseteq Messages' /\ Messages' \subseteq Messages \cup {Envelope}
  BY <1>2, <1>9 DEF Messages
<1>11. Known' = Known
  BY <1>1, <1>4, <1>5, <1>10 DEF Known
<1>12. QED BY <1>1, <1>2, <1>3, <1>4, <1>5, <1>6, <1>9, <1>10, <1>11

\* Nothing that only takes messages away can put them out of order.
LEMMA FewerMessages ==
  ASSUME SamplesInv, KeysInv, OrderInv, UNCHANGED agent,
         Image(client') \subseteq Image(client), Image(stray') \subseteq Messages
  PROVE  SamplesInv' /\ KeysInv' /\ OrderInv' /\ Messages' \subseteq Messages
         /\ Known' \subseteq Known /\ Latest' = Latest /\ Rest' = Rest
<1>1. /\ offered' = offered /\ buffer' = buffer /\ boot' = boot /\ seq' = seq
      /\ flight' = flight
  BY DEF agent
<1>2. Messages' \subseteq Messages
  BY DEF Messages
<1>3. Envelope' = Envelope /\ Latest' = Latest /\ Rest' = Rest
  BY <1>1 DEF Envelope, Latest, Rest
<1>4. Known' \subseteq Known
  BY <1>1, <1>2, <1>3 DEF Known
<1>5. SamplesInv'
  BY <1>1 DEF SamplesInv
<1>6. KeysInv'
  BY <1>1, <1>2, <1>3 DEF KeysInv
<1>7. OrderInv'
  BY <1>1, <1>2, <1>3, <1>4 DEF OrderInv
<1>8. QED BY <1>2, <1>3, <1>4, <1>5, <1>6, <1>7

\* Another sample.
LEMMA OfferOrder ==
  ASSUME TypeInv, SamplesInv, KeysInv, OrderInv, Offer
  PROVE  SamplesInv' /\ KeysInv' /\ OrderInv'
         /\ Messages' = Messages /\ Known' = Known /\ Latest' = Latest
<1>1. /\ offered' = offered + 1 /\ offered \in Nat
      /\ UNCHANGED <<boot, seq, flight, client, stray>>
  BY DEF Offer, net, TypeInv
<1>2. Messages' = Messages /\ Envelope' = Envelope /\ Latest' = Latest
  BY <1>1 DEF Messages, Envelope, Latest
<1>3. Known' = Known
  BY <1>1, <1>2 DEF Known
<1>4. /\ Increasing(buffer') /\ Image(buffer') \subseteq Image(buffer) \cup {offered + 1}
      /\ Rest' \subseteq Rest \cup {offered + 1}
  BY OfferFacts
<1>5. ASSUME NEW S, S \subseteq 1..offered
      PROVE  Below(S, {offered + 1}) /\ S \subseteq 1..offered'
  BY <1>1, <1>5 DEF Below
<1>6. SamplesInv'
  <2>1. Image(flight'.rows) = Image(flight.rows) /\ Increasing(flight'.rows)
    BY <1>1 DEF SamplesInv
  <2>2. Image(flight.rows) \subseteq 1..offered /\ Image(buffer) \subseteq 1..offered
    BY DEF SamplesInv
  <2>3. Below(Image(flight.rows), Image(buffer'))
    BY <1>4, <1>5, <2>2 DEF SamplesInv, Below
  <2>4. Image(buffer') \cup Image(flight.rows) \subseteq 1..offered'
    BY <1>1, <1>4, <2>2
  <2>5. QED BY <1>4, <2>1, <2>3, <2>4 DEF SamplesInv
<1>7. KeysInv'
  <2>1. \A m \in Messages : m.boot = boot => Image(m.rows) \subseteq 1..offered'
    BY <1>5 DEF KeysInv
  <2>2. QED BY <1>1, <1>2, <2>1 DEF KeysInv
<1>8. OrderInv'
  <2>1. ASSUME NEW m \in Messages, m.boot = boot
        PROVE  /\ m.seq <= seq => Below(Image(m.rows), Image(buffer'))
               /\ Below(Image(m.rows), Rest')
    <3>1. Below(Image(m.rows), {offered + 1})
      BY <1>5, <2>1 DEF KeysInv
    <3>2. m.seq <= seq => Below(Image(m.rows), Image(buffer))
      BY <2>1 DEF OrderInv
    <3>3. Below(Image(m.rows), Rest)
      BY <2>1 DEF OrderInv
    <3>4. QED BY <1>4, <3>1, <3>2, <3>3 DEF Below
  <2>2. QED BY <1>1, <1>2, <1>3, <2>1 DEF OrderInv
<1>9. QED BY <1>2, <1>3, <1>6, <1>7, <1>8

\* A batch has the next number, and what leaves the deque is before what stays.
LEMMA FlushOrder ==
  ASSUME TypeInv, SamplesInv, KeysInv, OrderInv, FlushTakes
  PROVE  SamplesInv' /\ KeysInv' /\ OrderInv'
         /\ Messages' = Messages /\ Known = Messages /\ Known' = Messages \cup {Envelope'}
         /\ Latest = seq + 1 /\ Latest' = seq + 1
<1>1. /\ seq' = seq + 1 /\ seq \in Nat /\ flight = Idle
      /\ UNCHANGED <<offered, boot, client, stray>>
  BY DEF FlushTakes, net, TypeInv
<1>2. /\ Increasing(buffer') /\ Increasing(flight'.rows)
      /\ Below(Image(flight'.rows), Image(buffer'))
      /\ Image(buffer) = Image(flight'.rows) \cup Image(buffer')
      /\ Image(buffer') = Rest /\ Rest' \subseteq Rest
      /\ flight' # Idle
  BY FlushFacts
<1>3. Messages' = Messages /\ Latest = seq + 1 /\ Latest' = seq + 1
  BY <1>1, <1>2 DEF Messages, Latest
<1>4. Known = Messages /\ Known' = Messages \cup {Envelope'}
  BY <1>1, <1>2, <1>3 DEF Known
<1>5. Envelope'.boot = boot /\ Envelope'.seq = seq + 1 /\ Envelope'.rows = flight'.rows
  BY <1>1 DEF Envelope
<1>6. SamplesInv'
  BY <1>1, <1>2 DEF SamplesInv
<1>7. KeysInv'
  BY <1>1, <1>3 DEF KeysInv
<1>8. \A m \in Messages : m.seq \in Nat
  BY MessagesType DEF Envelopes
<1>9. ASSUME NEW m \in Known', NEW n \in Known', m.boot = n.boot, m.seq < n.seq
      PROVE  Below(Image(m.rows), Image(n.rows))
  <2>1. CASE m \in Messages /\ n \in Messages
    BY <1>4, <1>9, <2>1 DEF OrderInv
  <2>2. CASE m \in Messages /\ n = Envelope'
    <3>1. m.boot = boot /\ m.seq <= seq
      BY <1>1, <1>5, <1>8, <1>9, <2>2
    <3>2. Below(Image(m.rows), Image(buffer))
      BY <2>2, <3>1 DEF OrderInv
    <3>3. QED BY <1>2, <1>5, <2>2, <3>2 DEF Below
  <2>3. CASE m = Envelope' /\ n \in Messages
    <3>1. n.seq <= seq + 1 /\ ~(seq + 1 < n.seq)
      BY <1>1, <1>3, <1>5, <1>8, <1>9, <2>3 DEF KeysInv
    <3>2. QED BY <1>5, <1>9, <2>3, <3>1
  <2>4. CASE m = Envelope' /\ n = Envelope'
    BY <1>1, <1>5, <1>9, <2>4
  <2>5. QED BY <1>4, <2>1, <2>2, <2>3, <2>4
<1>10. OrderInv'
  <2>1. \A m \in Messages : m.boot = boot =>
          Below(Image(m.rows), Image(buffer')) /\ Below(Image(m.rows), Rest')
    BY <1>2 DEF OrderInv, Below
  <2>2. QED BY <1>1, <1>3, <1>9, <2>1 DEF OrderInv
<1>11. QED BY <1>3, <1>4, <1>6, <1>7, <1>10

\* A batch that has no encoding has had a number all the same.
LEMMA EncodeOrder ==
  ASSUME TypeInv, SamplesInv, KeysInv, OrderInv, EncodeFails
  PROVE  SamplesInv' /\ KeysInv' /\ OrderInv'
         /\ Messages' = Messages /\ Known' = Known /\ Latest = seq + 1 /\ Latest' = seq + 2
         /\ Image(buffer') = Rest /\ Rest' \subseteq Rest
<1>1. /\ seq' = seq + 1 /\ seq \in Nat /\ flight = Idle /\ flight' = Idle
      /\ buffer' = Remaining /\ UNCHANGED <<offered, boot, client, stray>>
  BY DEF EncodeFails, net, TypeInv
<1>2. /\ Increasing(Remaining) /\ Image(Remaining) = Rest
      /\ Image(Remaining) \subseteq Image(buffer)
      /\ {Remaining[i] : i \in (MaxBatch + 1)..Len(Remaining)} \subseteq Rest
  BY TakeFacts
<1>3. Messages' = Messages /\ Latest = seq + 1 /\ Latest' = seq + 2
  BY <1>1 DEF Messages, Latest
<1>4. Known' = Known
  BY <1>1, <1>3 DEF Known
<1>5. Image(buffer') = Rest /\ Rest' \subseteq Rest
  BY <1>1, <1>2 DEF Rest
<1>6. SamplesInv'
  BY <1>1, <1>2 DEF SamplesInv, Below
<1>7. \A m \in Messages : m.seq \in Nat
  BY MessagesType DEF Envelopes
<1>8. KeysInv'
  BY <1>1, <1>3, <1>7 DEF KeysInv
<1>9. OrderInv'
  <2>1. \A m \in Messages : m.boot = boot =>
          Below(Image(m.rows), Image(buffer')) /\ Below(Image(m.rows), Rest')
    BY <1>5 DEF OrderInv, Below
  <2>2. QED BY <1>1, <1>3, <1>4, <2>1 DEF OrderInv
<1>10. QED BY <1>3, <1>4, <1>5, <1>6, <1>8, <1>9

\* A batch may be on the way, or have been recorded, when it is taken back.
LEMMA EndOrder ==
  ASSUME TypeInv, SamplesInv, KeysInv, OrderInv, FlushEnds
  PROVE  SamplesInv' /\ KeysInv' /\ OrderInv'
         /\ Messages' = Messages /\ Known' = Messages /\ Known = Messages \cup {Envelope}
         /\ Latest = seq /\ Latest' = IF flight.ok THEN seq + 1 ELSE seq
<1>1. /\ flight' = Idle /\ flight # Idle /\ seq \in Nat
      /\ UNCHANGED <<offered, boot, client, stray>>
  BY DEF FlushEnds, net, TypeInv
<1>2. Messages' = Messages /\ Known' = Messages /\ Known = Messages \cup {Envelope}
  BY <1>1 DEF Messages, Known
<1>3. Envelope.boot = boot /\ Envelope.seq = seq /\ Envelope.rows = flight.rows
  BY DEF Envelope
<1>4. \A m \in Messages : m.seq \in Nat
  BY MessagesType DEF Envelopes
<1>5. Image(Idle.rows) = {} /\ Increasing(Idle.rows)
  BY DEF Idle, Image, Increasing
<1>6. CASE flight.ok
  <2>1. seq' = seq /\ buffer' = buffer
    BY <1>6 DEF FlushEnds
  <2>2. Latest = seq /\ Latest' = seq + 1 /\ Rest' = Rest
    BY <1>1, <2>1 DEF Latest, Rest
  <2>3. SamplesInv'
    BY <1>1, <1>5, <2>1 DEF SamplesInv, Below
  <2>4. KeysInv'
    BY <1>1, <1>2, <1>4, <2>2 DEF KeysInv
  <2>5. OrderInv'
    BY <1>1, <1>2, <2>1, <2>2 DEF OrderInv
  <2>6. QED BY <1>2, <1>6, <2>2, <2>3, <2>4, <2>5
<1>7. CASE ~flight.ok
  <2>1. seq' = seq - 1
    BY <1>7 DEF FlushEnds
  <2>2. Latest = seq /\ Latest' = seq
    BY <1>1, <2>1 DEF Latest
  <2>3. /\ Increasing(buffer')
        /\ Image(buffer') \subseteq Image(flight.rows) \cup Image(buffer)
        /\ Rest' \subseteq Image(buffer)
    BY <1>7, PutBackFacts
  <2>4. SamplesInv'
    BY <1>1, <1>5, <2>3 DEF SamplesInv, Below
  <2>5. KeysInv'
    BY <1>1, <1>2, <2>2 DEF KeysInv
  <2>6. ASSUME NEW m \in Messages, m.boot = boot
        PROVE  /\ m.seq <= seq' => Below(Image(m.rows), Image(buffer'))
               /\ Below(Image(m.rows), Rest')
    <3>1. m.seq <= seq
      BY <2>2, <2>6 DEF KeysInv
    <3>2. Below(Image(m.rows), Image(buffer))
      BY <2>6, <3>1 DEF OrderInv
    <3>3. ASSUME m.seq <= seq' PROVE Below(Image(m.rows), Image(flight.rows))
      <4>1. m.seq < Envelope.seq
        BY <1>1, <1>3, <1>4, <2>1, <3>3
      <4>2. QED BY <1>2, <1>3, <2>6, <4>1 DEF OrderInv
    <3>4. QED BY <2>3, <3>2, <3>3 DEF Below
  <2>7. OrderInv'
    BY <1>1, <1>2, <2>6 DEF OrderInv
  <2>8. QED BY <1>2, <1>7, <2>2, <2>4, <2>5, <2>7
<1>8. QED BY <1>6, <1>7

\* A message is given to the client under the number of the batch in flight.
LEMMA PublishOrder ==
  ASSUME TypeInv, SamplesInv, KeysInv, OrderInv, PublishAccepted \/ PublishRefused
  PROVE  SamplesInv' /\ KeysInv' /\ OrderInv'
<1>1. /\ flight # Idle /\ flight' # Idle /\ Envelope' = Envelope /\ Latest' = Latest
      /\ Latest = seq /\ flight'.rows = flight.rows
      /\ Image(client') \subseteq Image(client) \cup {Envelope}
      /\ Messages' \subseteq Messages \cup {Envelope}
      /\ Known' = Known
      /\ UNCHANGED <<offered, buffer, boot, seq>>
  BY PublishFacts
<1>2. /\ Envelope.boot = boot /\ Envelope.seq = seq /\ Envelope.rows = flight.rows
      /\ boot \in Nat /\ seq \in Nat
  BY DEF Envelope, TypeInv
<1>3. SamplesInv'
  BY <1>1 DEF SamplesInv
<1>4. KeysInv'
  BY <1>1, <1>2 DEF KeysInv, SamplesInv
<1>5. Rest' = Rest
  BY <1>1 DEF Rest
<1>6. Below(Image(flight.rows), Image(buffer)) /\ Rest \subseteq Image(buffer)
  <2>1. \A i \in (MaxBatch + 1)..Len(buffer) : i \in 1..Len(buffer)
    BY DequeTypes
  <2>2. QED BY <2>1 DEF SamplesInv, Rest, Image
<1>7. \A m \in Messages \cup {Envelope} : m.boot = boot =>
        /\ m.seq <= seq => Below(Image(m.rows), Image(buffer))
        /\ Below(Image(m.rows), Rest)
  BY <1>2, <1>6 DEF OrderInv, Below
<1>8. OrderInv'
  BY <1>1, <1>5, <1>7 DEF OrderInv
<1>9. QED BY <1>3, <1>4, <1>8

\* A new run of the agent: everything on the way is of an earlier one.
LEMMA RestartOrder ==
  ASSUME TypeInv, SamplesInv, KeysInv, OrderInv, AgentRestarts
  PROVE  SamplesInv' /\ KeysInv' /\ OrderInv'
         /\ Messages' \subseteq Messages /\ Known' = Messages' /\ Image(client') = {}
         /\ \A m \in Messages' : m.boot < boot'
<1>1. /\ boot' = boot + 1 /\ boot \in Nat /\ buffer' = <<>> /\ flight' = Idle
      /\ client' = <<>> /\ stray' \in Written \cup {stray}
  BY DEF AgentRestarts, TypeInv
<1>2. Image(client') = {} /\ Image(stray') \subseteq Messages
  <2>1. \A q \in Written : Image(q) \subseteq Image(client)
    BY WrittenFacts
  <2>2. Image(client') = {}
    BY <1>1 DEF Image
  <2>3. QED BY <1>1, <2>1, <2>2 DEF Messages
<1>3. Messages' \subseteq Messages /\ Known' = Messages'
  BY <1>1, <1>2 DEF Messages, Known
<1>4. \A m \in Messages : m.boot \in Nat
  BY MessagesType DEF Envelopes
<1>5. \A m \in Messages' : m.boot < boot' /\ m.boot <= boot' /\ m.boot # boot'
  BY <1>1, <1>3, <1>4 DEF KeysInv
<1>6. SamplesInv'
  BY <1>1 DEF SamplesInv, Idle, Image, Increasing, Below
<1>7. KeysInv'
  BY <1>2, <1>3, <1>5 DEF KeysInv
<1>8. OrderInv'
  <2>1. Known' \subseteq Known
    BY <1>3 DEF Known
  <2>2. QED BY <1>3, <1>5, <2>1 DEF OrderInv
<1>9. QED BY <1>2, <1>3, <1>5, <1>6, <1>7, <1>8

-----------------------------------------------------------------------------
(* The window and what is recorded *)

\* A message leaves its number in the window; one that leaves it and may still arrive is
\* noticed.  Samples are added at the end, or nothing changes.
LEMMA RouteFacts ==
  ASSUME TypeInv, NEW m \in Envelopes, Route(m)
  PROVE  /\ Key(m) \in routed' /\ Key(m) \in Image(recent')
         /\ routed \subseteq routed' /\ routed' \subseteq routed \cup {Key(m)}
         /\ ~forgot' => \A k \in Outstanding : k \in Image(recent) => k \in Image(recent')
         /\ Key(m) \in Image(recent) => UNCHANGED server
         /\ Key(m) \notin Image(recent) =>
              /\ Len(recorded') = Len(recorded) + Len(m.rows)
              /\ \A i \in 1..Len(recorded) : recorded'[i] = recorded[i]
              /\ \A i \in 1..Len(m.rows) :
                   recorded'[Len(recorded) + i] = <<m.boot, m.rows[i]>>
<1>1. CASE Key(m) \in Image(recent)
  BY <1>1 DEF Route, server, TypeInv
<1>2. CASE Key(m) \notin Image(recent)
  <2> DEFINE new == [i \in 1..Len(m.rows) |-> <<m.boot, m.rows[i]>>]
  <2>1. /\ recent' = Remember(Key(m)) /\ routed' = routed \cup {Key(m)} /\ Evicts
        /\ recorded' = recorded \o new
    BY <1>2 DEF Route
  <2>2. Key(m) \in Image(recent')
    BY <2>1, KeyType, RememberFacts
  <2>3. ~forgot' => \A k \in Outstanding : k \in Image(recent) => k \in Image(recent')
    BY <2>1 DEF Evicts
  <2>4. new \in Seq(Pairs) /\ Len(new) = Len(m.rows)
    <3>1. m.rows \in Seq(Nat) /\ m.boot \in Nat /\ Len(m.rows) \in Nat
      BY DEF Envelopes
    <3>2. \A i \in 1..Len(m.rows) : <<m.boot, m.rows[i]>> \in Pairs
      BY <3>1 DEF Pairs
    <3>3. QED BY <3>1, <3>2
  <2>5. \A i \in 1..Len(m.rows) : new[i] = <<m.boot, m.rows[i]>>
    OBVIOUS
  <2> HIDE DEF new
  <2>6. /\ Len(recorded') = Len(recorded) + Len(m.rows)
        /\ \A i \in 1..Len(recorded) : recorded'[i] = recorded[i]
        /\ \A i \in 1..Len(new) : recorded'[Len(recorded) + i] = new[i]
    <3>1. recorded \in Seq(Pairs) /\ recorded' = recorded \o new
      BY <2>1 DEF TypeInv
    <3>2. /\ Len(recorded \o new) = Len(recorded) + Len(new)
          /\ \A i \in 1..(Len(recorded) + Len(new)) : (recorded \o new)[i] =
               IF i <= Len(recorded) THEN recorded[i] ELSE new[i - Len(recorded)]
          /\ Len(recorded) \in Nat /\ Len(new) \in Nat
      BY <2>4, <3>1
    <3>3. ASSUME NEW i \in 1..Len(recorded) PROVE recorded'[i] = recorded[i]
      BY <3>1, <3>2
    <3>4. ASSUME NEW i \in 1..Len(new) PROVE recorded'[Len(recorded) + i] = new[i]
      <4>1. /\ Len(recorded) + i \in 1..(Len(recorded) + Len(new))
            /\ ~(Len(recorded) + i <= Len(recorded))
            /\ (Len(recorded) + i) - Len(recorded) = i
        BY <3>2
      <4>2. QED BY <3>1, <3>2, <4>1
    <3>5. QED BY <2>4, <3>1, <3>2, <3>3, <3>4
  <2>7. QED BY <1>2, <2>1, <2>2, <2>3, <2>4, <2>5, <2>6
<1>3. QED BY <1>1, <1>2

\* What has been forgotten or refused stays so.
LEMMA HistoryGrows ==
  ASSUME TypeInv, [Next]_vars
  PROVE  (forgot => forgot') /\ (refused => refused')
<1>1. refused' = refused \/ refused' = TRUE
  BY DEF Next, vars, past, Offer, FlushTakes, EncodeFails, PublishAccepted, PublishRefused,
         FlushEnds, AgentRestarts, Break, BreakNoticed, Connect, Acknowledged, StrayLost,
         Deliver, DeliverStray, OthersRoute, Archive, ServerRestarts
<1>2. ASSUME NEW m, Route(m) PROVE forgot => forgot'
  <2>1. CASE Key(m) \in Image(recent)
    BY <1>2, <2>1 DEF Route, server
  <2>2. CASE Key(m) \notin Image(recent)
    <3>1. Evicts
      BY <1>2, <2>2 DEF Route
    <3>2. QED BY <3>1 DEF Evicts
  <2>3. QED BY <2>1, <2>2
<1>3. CASE OthersRoute
  <2>1. Evicts
    BY <1>3 DEF OthersRoute
  <2>2. forgot => forgot'
    BY <2>1 DEF Evicts
  <2>3. QED BY <1>1, <2>2
<1>4. CASE Deliver \/ DeliverStray
  <2>1. \E m : Route(m)
    BY <1>4 DEF Deliver, DeliverStray
  <2>2. forgot => forgot'
    BY <1>2, <2>1
  <2>3. QED BY <1>1, <2>2
<1>5. CASE ~(Deliver \/ DeliverStray \/ OthersRoute)
  <2>1. forgot' = forgot
    BY <1>5 DEF Next, vars, server, Offer, FlushTakes, EncodeFails, PublishAccepted,
                PublishRefused, FlushEnds, AgentRestarts, Break, BreakNoticed, Connect,
                Acknowledged, StrayLost, Archive, ServerRestarts
  <2>2. QED BY <1>1, <2>1
<1>6. QED BY <1>3, <1>4, <1>5

\* In terms of sets: the samples of a message join those of its run.
LEMMA RecordFacts ==
  ASSUME TypeInv, NEW m \in Envelopes, Route(m), Key(m) \notin Image(recent)
  PROVE  /\ \A b \in Nat : Had(recorded', b) =
              Had(recorded, b) \cup IF b = m.boot THEN Image(m.rows) ELSE {}
         /\ Recorded' = Recorded \cup Image(m.rows)
         /\ \A i \in 1..Len(recorded') :
              \/ i \in 1..Len(recorded) /\ recorded'[i] = recorded[i]
              \/ /\ i - Len(recorded) \in 1..Len(m.rows)
                 /\ recorded'[i] = <<m.boot, m.rows[i - Len(recorded)]>>
<1> DEFINE n == Len(recorded)
           k == Len(m.rows)
<1>1. /\ Len(recorded') = n + k /\ n \in Nat /\ k \in Nat
      /\ \A i \in 1..n : recorded'[i] = recorded[i]
      /\ \A i \in 1..k : recorded'[n + i] = <<m.boot, m.rows[i]>>
  <2>1. /\ Len(recorded') = Len(recorded) + Len(m.rows)
        /\ \A i \in 1..Len(recorded) : recorded'[i] = recorded[i]
        /\ \A i \in 1..Len(m.rows) :
             recorded'[Len(recorded) + i] = <<m.boot, m.rows[i]>>
    BY RouteFacts
  <2>2. recorded \in Seq(Pairs) /\ m.rows \in Seq(Nat)
    BY DEF TypeInv, Envelopes
  <2>3. n \in Nat /\ k \in Nat
    BY <2>2
  <2>4. QED BY <2>1, <2>3
<1>2. ASSUME NEW i \in 1..(n + k), i \notin 1..n
      PROVE  i - n \in 1..k /\ recorded'[i] = <<m.boot, m.rows[i - n]>>
  <2>1. i - n \in 1..k /\ n + (i - n) = i
    BY <1>1, <1>2
  <2>2. QED BY <1>1, <2>1
<1>3. \A i \in 1..n : i \in 1..(n + k)
  BY <1>1
<1>4. \A i \in 1..k : n + i \in 1..(n + k)
  BY <1>1
<1> HIDE DEF n, k
<1>5. Recorded' = Recorded \cup Image(m.rows)
  <2>1. Recorded' \subseteq Recorded \cup Image(m.rows)
    <3> SUFFICES ASSUME NEW i \in 1..(n + k)
                 PROVE  recorded'[i][2] \in Recorded \cup Image(m.rows)
      BY <1>1 DEF Recorded
    <3>1. CASE i \in 1..n
      BY <1>1, <3>1 DEF Recorded, n
    <3>2. CASE i \notin 1..n
      BY <1>2, <3>2 DEF Image, k
    <3>3. QED BY <3>1, <3>2
  <2>2. Recorded \subseteq Recorded'
    BY <1>1, <1>3 DEF Recorded, n
  <2>3. Image(m.rows) \subseteq Recorded'
    <3> SUFFICES ASSUME NEW i \in 1..k PROVE m.rows[i] \in Recorded'
      BY DEF Image, k
    <3>1. recorded'[n + i][2] = m.rows[i] /\ n + i \in 1..Len(recorded')
      BY <1>1, <1>4
    <3>2. QED BY <3>1 DEF Recorded
  <2>4. QED BY <2>1, <2>2, <2>3
<1>6. ASSUME NEW b \in Nat
      PROVE  Had(recorded', b) =
               Had(recorded, b) \cup IF b = m.boot THEN Image(m.rows) ELSE {}
  <2>1. ASSUME NEW i \in 1..(n + k), recorded'[i][1] = b
        PROVE  recorded'[i][2] \in
                 Had(recorded, b) \cup IF b = m.boot THEN Image(m.rows) ELSE {}
    <3>1. CASE i \in 1..n
      <4>1. recorded[i] = recorded'[i]
        BY <1>1, <3>1
      <4>2. recorded[i][2] \in Had(recorded, b)
        BY <2>1, <3>1, <4>1 DEF Had, n
      <4>3. QED BY <4>1, <4>2
    <3>2. CASE i \notin 1..n
      <4>1. i - n \in 1..k /\ recorded'[i][1] = m.boot /\ recorded'[i][2] = m.rows[i - n]
        BY <1>2, <3>2
      <4>2. QED BY <2>1, <4>1 DEF Image, k
    <3>3. QED BY <3>1, <3>2
  <2>2. Had(recorded, b) \subseteq Had(recorded', b)
    BY <1>1, <1>3 DEF Had, n
  <2>3. b = m.boot => Image(m.rows) \subseteq Had(recorded', b)
    <3> SUFFICES ASSUME b = m.boot, NEW i \in 1..k PROVE m.rows[i] \in Had(recorded', b)
      BY DEF Image, k
    <3>1. /\ recorded'[n + i][2] = m.rows[i] /\ recorded'[n + i][1] = b
          /\ n + i \in 1..Len(recorded')
      BY <1>1, <1>4
    <3>2. QED BY <3>1 DEF Had
  <2>4. Had(recorded', b) \subseteq
          Had(recorded, b) \cup IF b = m.boot THEN Image(m.rows) ELSE {}
    BY <1>1, <2>1 DEF Had
  <2>5. QED BY <2>2, <2>3, <2>4
<1>7. \A i \in 1..Len(recorded') :
        \/ i \in 1..n /\ recorded'[i] = recorded[i]
        \/ i - n \in 1..k /\ recorded'[i] = <<m.boot, m.rows[i - n]>>
  BY <1>1, <1>2
<1>8. QED BY <1>5, <1>6, <1>7 DEF n, k

\* Numbers are outstanding for a message, or for the batch in flight or to come.
LEMMA OutstandingKeys ==
  /\ \A m \in Messages : Key(m) \in Outstanding
  /\ \A k \in Outstanding : k = <<boot, Latest>> \/ \E m \in Messages : k = Key(m)
  /\ \A m \in Known : Key(m) \in Outstanding
<1>1. \A m \in Messages : Key(m) \in Outstanding
  BY DEF Messages, Image, Outstanding, Keys
<1>2. \A k \in Outstanding : k = <<boot, Latest>> \/ \E m \in Messages : k = Key(m)
  BY DEF Messages, Image, Outstanding, Keys
<1>3. flight # Idle => Key(Envelope) = <<boot, Latest>>
  BY DEF Key, Envelope, Latest
<1>4. <<boot, Latest>> \in Outstanding
  BY DEF Outstanding
<1>5. QED BY <1>1, <1>2, <1>3, <1>4 DEF Known

\* The next message of the client's queue, and the next one from an abandoned
\* socket, come after all that have lower numbers.
LEMMA DeliverLower ==
  ASSUME TypeInv, KeysInv, QueueInv, HandedInv, Deliver,
         NEW n \in Messages, n.boot = client[handled + 1].boot,
         n.seq < client[handled + 1].seq
  PROVE  Key(n) \in routed
<1>1. /\ handled \in Nat /\ handled + 1 \in 1..Len(client) /\ client \in Seq(Envelopes)
      /\ client[handled + 1] \in Image(client) /\ Len(client) \in Nat
  <2>1. client \in Seq(Envelopes) /\ handled \in 0..Len(client) /\ handled < Len(client)
    BY DEF Deliver, TypeInv
  <2>2. Len(client) \in Nat
    BY <2>1
  <2>3. handled \in Nat /\ handled + 1 \in 1..Len(client)
    BY <2>1, <2>2
  <2>4. QED BY <2>1, <2>2, <2>3 DEF Image
<1>2. n.boot = boot
  BY <1>1 DEF KeysInv
<1>3. ASSUME n \in Image(client) PROVE Key(n) \in routed
  <2>1. PICK i \in 1..Len(client) : n = client[i]
    BY <1>3 DEF Image
  <2>2. n.seq \in Nat /\ client[handled + 1].seq \in Nat
    <3>1. n \in Envelopes /\ client[handled + 1] \in Envelopes
      BY <1>1, <2>1, ImageRange
    <3>2. QED BY <3>1 DEF Envelopes
  <2>3. ~(handled + 1 <= i)
    <3> SUFFICES ASSUME handled + 1 <= i PROVE FALSE
      OBVIOUS
    <3>1. client[handled + 1].seq <= client[i].seq
      <4>1. CASE handled + 1 = i
        BY <2>1, <2>2, <4>1
      <4>2. CASE handled + 1 < i
        BY <1>1, <4>2 DEF QueueInv
      <4>3. QED BY <1>1, <4>1, <4>2
    <3>2. QED BY <2>1, <2>2, <3>1
  <2>4. i \in 1..handled
    BY <1>1, <2>3
  <2>5. QED BY <2>1, <2>4 DEF HandedInv
<1>4. QED BY <1>2, <1>3 DEF HandedInv, Messages

LEMMA StrayLower ==
  ASSUME TypeInv, HandedInv, DeliverStray,
         NEW n \in Messages, n.boot = Head(stray).boot, n.seq < Head(stray).seq
  PROVE  Key(n) \in routed
<1>1. 1 \in 1..Len(stray) /\ Head(stray) = stray[1]
  <2>1. stray \in Seq(Envelopes) /\ stray # <<>>
    BY DEF TypeInv, DeliverStray
  <2>2. Len(stray) > 0 /\ Head(stray) = stray[1] /\ Len(stray) \in Nat
    BY <2>1, ImageTail
  <2>3. QED BY <2>2
<1>2. ~\E i \in 1..(1 - 1) : Key(n) = Key(stray[i])
  OBVIOUS
<1>3. QED BY <1>1, <1>2 DEF HandedInv

-----------------------------------------------------------------------------
(* The agent's order, action by action *)

\* What the actions do to what is on the way, when they take nothing new.
LEMMA QuietFacts ==
  ASSUME TypeInv,
         \/ Break \/ BreakNoticed \/ Connect \/ Acknowledged \/ StrayLost
         \/ Deliver \/ DeliverStray \/ OthersRoute \/ Archive \/ ServerRestarts
         \/ UNCHANGED vars
  PROVE  /\ UNCHANGED agent /\ Image(client') \subseteq Image(client)
         /\ Image(stray') \subseteq Messages
         /\ client' = client \/ (Acknowledged /\ client' = Tail(client))
         /\ stray' \in {stray, <<>>} \cup Written
              \/ (DeliverStray /\ stray' = Tail(stray))
<1>1. \A q \in Written : Image(q) \subseteq Messages
  BY WrittenFacts DEF Messages
<1>2. Image(stray) \subseteq Messages /\ Image(<<>>) = {}
  BY DEF Messages, Image
<1>3. CASE Acknowledged
  <2>1. client \in Seq(Envelopes) /\ client # <<>> /\ client' = Tail(client)
    BY <1>3 DEF Acknowledged, TypeInv
  <2>2. Image(client') \subseteq Image(client)
    BY <2>1, ImageTail
  <2>3. QED BY <1>2, <1>3, <2>1, <2>2 DEF Acknowledged
<1>4. CASE DeliverStray
  <2>1. stray \in Seq(Envelopes) /\ stray # <<>> /\ stray' = Tail(stray)
    BY <1>4 DEF DeliverStray, TypeInv
  <2>2. Image(stray') \subseteq Image(stray)
    BY <2>1, ImageTail
  <2>3. QED BY <1>2, <1>4, <2>1, <2>2 DEF DeliverStray
<1>5. CASE \/ Break \/ BreakNoticed \/ Connect \/ StrayLost
           \/ Deliver \/ OthersRoute \/ Archive \/ ServerRestarts \/ UNCHANGED vars
  <2>1. UNCHANGED agent /\ client' = client /\ stray' \in {stray, <<>>} \cup Written
    BY <1>5 DEF Break, BreakNoticed, Connect, StrayLost, Deliver, OthersRoute, Archive,
                ServerRestarts, net, vars
  <2>2. QED BY <1>1, <1>2, <2>1
<1>6. QED BY <1>3, <1>4, <1>5

Quiet == \/ Break \/ BreakNoticed \/ Connect \/ Acknowledged \/ StrayLost
         \/ Deliver \/ DeliverStray \/ OthersRoute \/ Archive \/ ServerRestarts
         \/ UNCHANGED vars

LEMMA OrderInit ==
  Init => SamplesInv /\ KeysInv /\ OrderInv /\ QueueInv /\ PastInv /\ HandedInv
<1> SUFFICES ASSUME Init
             PROVE  SamplesInv /\ KeysInv /\ OrderInv /\ QueueInv /\ PastInv /\ HandedInv
  OBVIOUS
<1>1. Image(<<>>) = {}
  BY DEF Image
<1>2. Messages = {} /\ Known = {} /\ flight = Idle /\ Image(Idle.rows) = {}
  BY <1>1 DEF Init, Messages, Known, Idle
<1>3. SamplesInv
  BY <1>1, <1>2 DEF Init, SamplesInv, Increasing, Below, Idle
<1>4. KeysInv /\ OrderInv /\ QueueInv /\ PastInv /\ HandedInv
  BY <1>1, <1>2 DEF Init, KeysInv, OrderInv, QueueInv, PastInv, HandedInv
<1>5. QED BY <1>3, <1>4

LEMMA OrderStep ==
  TypeInv /\ SamplesInv /\ KeysInv /\ OrderInv /\ [Next]_vars
    => SamplesInv' /\ KeysInv' /\ OrderInv'
<1> SUFFICES ASSUME TypeInv, SamplesInv, KeysInv, OrderInv, [Next]_vars
             PROVE  SamplesInv' /\ KeysInv' /\ OrderInv'
  OBVIOUS
<1>1. CASE Quiet
  BY <1>1, QuietFacts, FewerMessages DEF Quiet
<1>2. QED
  BY <1>1, OfferOrder, FlushOrder, EncodeOrder, PublishOrder, EndOrder, RestartOrder
     DEF Next, Quiet

\* Copies of a batch are next to each other, later batches behind them; and what is
\* left in a socket is a part of that.
LEMMA QueueStep ==
  TypeInv /\ KeysInv /\ QueueInv /\ [Next]_vars => QueueInv'
<1> SUFFICES ASSUME TypeInv, KeysInv, QueueInv, [Next]_vars PROVE QueueInv'
  OBVIOUS
<1> DEFINE Sorted(q) == \A i, j \in 1..Len(q) : i < j => q[i].seq <= q[j].seq
           OneBoot(q) == \A i, j \in 1..Len(q) : i < j => q[i].boot = q[j].boot
<1>a. Sorted(client) /\ OneBoot(stray) /\ client \in Seq(Envelopes) /\ stray \in Seq(Envelopes)
  BY DEF QueueInv, TypeInv
<1>b. Sorted(<<>>) /\ OneBoot(<<>>)
  OBVIOUS
<1>c. \A q \in Written : OneBoot(q)
  <2> SUFFICES ASSUME NEW q \in Written, NEW i \in 1..Len(q), NEW j \in 1..Len(q)
               PROVE  q[i].boot = q[j].boot
    OBVIOUS
  <2>1. q[i] \in Image(client) /\ q[j] \in Image(client)
    BY WrittenFacts DEF Image
  <2>2. QED BY <2>1 DEF KeysInv
<1>1. CASE Quiet
  <2>1. Sorted(client')
    <3>1. CASE client' = Tail(client) /\ Acknowledged
      <4>1. client # <<>>
        BY <3>1 DEF Acknowledged, TypeInv
      <4>2. /\ Len(client') = Len(client) - 1 /\ Len(client) \in Nat
            /\ \A i \in 1..Len(client') : client'[i] = client[i + 1]
        BY <1>a, <3>1, <4>1, ImageTail
      <4>3. \A i \in 1..Len(client') : i + 1 \in 1..Len(client)
        BY <4>2
      <4>4. \A i, j \in 1..Len(client') : i < j => i + 1 < j + 1
        BY <4>2
      <4>5. QED BY <1>a, <4>2, <4>3, <4>4
    <3>2. QED BY <1>1, <1>a, <3>1, QuietFacts DEF Quiet
  <2>2. OneBoot(stray')
    <3>1. CASE stray' = Tail(stray) /\ DeliverStray
      <4>1. stray # <<>>
        BY <3>1 DEF DeliverStray
      <4>2. /\ Len(stray') = Len(stray) - 1 /\ Len(stray) \in Nat
            /\ \A i \in 1..Len(stray') : stray'[i] = stray[i + 1]
        BY <1>a, <3>1, <4>1, ImageTail
      <4>3. \A i \in 1..Len(stray') : i + 1 \in 1..Len(stray)
        BY <4>2
      <4>4. \A i, j \in 1..Len(stray') : i < j => i + 1 < j + 1
        BY <4>2
      <4>5. \A i, j \in 1..Len(stray) : i < j => stray[i].boot = stray[j].boot
        BY <1>a
      <4>6. SUFFICES ASSUME NEW i \in 1..Len(stray'), NEW j \in 1..Len(stray'), i < j
                     PROVE  stray'[i].boot = stray'[j].boot
        OBVIOUS
      <4>7. stray'[i] = stray[i + 1] /\ stray'[j] = stray[j + 1]
        BY <4>2
      <4>8. stray[i + 1].boot = stray[j + 1].boot
        BY <4>3, <4>4, <4>5, <4>6
      <4>9. QED BY <4>7, <4>8
    <3>2. QED BY <1>1, <1>a, <1>b, <1>c, <3>1, QuietFacts DEF Quiet
  <2>3. QED BY <2>1, <2>2 DEF QueueInv
<1>2. CASE PublishAccepted \/ PublishRefused
  <2>1. /\ client' \in {client, Append(client, Envelope)} /\ stray' = stray
        /\ Latest = seq
    BY <1>2, PublishFacts
  <2>2. Sorted(Append(client, Envelope))
    <3> DEFINE q == Append(client, Envelope)
               n == Len(client)
    <3>0. n \in Nat
      BY <1>a
    <3>1. /\ Len(q) = n + 1 /\ q[n + 1] = Envelope
          /\ \A i \in 1..n : q[i] = client[i]
      BY <1>a
    <3> HIDE DEF q
    <3>2. ASSUME NEW i \in 1..n PROVE client[i].seq <= Envelope.seq
      <4>1. client[i] \in Messages /\ client[i].boot = boot
        BY DEF Messages, Image, KeysInv
      <4>2. QED BY <2>1, <4>1 DEF KeysInv, Envelope
    <3> SUFFICES ASSUME NEW i \in 1..(n + 1), NEW j \in 1..(n + 1), i < j
                 PROVE  q[i].seq <= q[j].seq
      BY <3>1
    <3> HIDE DEF n
    <3>3. i \in 1..n
      BY <3>0
    <3>4. CASE j = n + 1
      BY <3>1, <3>2, <3>3, <3>4
    <3>5. CASE j # n + 1
      <4>1. j \in 1..n
        BY <3>0, <3>5
      <4>2. QED BY <1>a, <3>1, <3>3, <4>1 DEF n
    <3>6. QED BY <3>4, <3>5
  <2>3. QED BY <1>a, <2>1, <2>2 DEF QueueInv
<1>3. CASE AgentRestarts
  <2>1. client' = <<>> /\ stray' \in Written \cup {stray}
    BY <1>3 DEF AgentRestarts
  <2>2. QED BY <1>a, <1>b, <1>c, <2>1 DEF QueueInv
<1>4. CASE Offer \/ FlushTakes \/ EncodeFails \/ FlushEnds
  BY <1>4 DEF Offer, FlushTakes, EncodeFails, FlushEnds, net, QueueInv
<1>5. QED BY <1>1, <1>2, <1>3, <1>4 DEF Next, Quiet


\* While the agent lives its numbers and its samples only grow.
LEMMA LatestGrows ==
  ASSUME TypeInv, SamplesInv, KeysInv, OrderInv, [Next]_vars, ~AgentRestarts
  PROVE  /\ boot' = boot /\ boot \in Nat
         /\ Latest \in Nat /\ Latest' \in Nat /\ Latest <= Latest'
         /\ offered \in Nat /\ offered' \in Nat /\ offered <= offered'
<1>1. boot \in Nat /\ seq \in Nat /\ offered \in Nat /\ Latest \in Nat
  BY DEF TypeInv, Latest
<1>2. CASE Quiet
  <2>1. UNCHANGED <<offered, boot, seq, flight>>
    BY <1>2, QuietFacts DEF Quiet, agent
  <2>2. QED BY <1>1, <2>1 DEF Latest
<1>3. CASE Offer
  <2>1. UNCHANGED <<boot, seq, flight>> /\ offered' = offered + 1
    BY <1>3 DEF Offer
  <2>2. QED BY <1>1, <2>1 DEF Latest
<1>4. CASE FlushTakes
  <2>1. Latest = seq + 1 /\ Latest' = seq + 1
    BY <1>4, FlushOrder
  <2>2. QED BY <1>1, <1>4, <2>1 DEF FlushTakes
<1>e. CASE EncodeFails
  <2>1. Latest = seq + 1 /\ Latest' = seq + 2
    BY <1>e, EncodeOrder
  <2>2. QED BY <1>1, <1>e, <2>1 DEF EncodeFails
<1>5. CASE PublishAccepted \/ PublishRefused
  <2>1. Latest' = Latest /\ UNCHANGED <<offered, boot>>
    BY <1>5, PublishFacts
  <2>2. QED BY <1>1, <2>1
<1>6. CASE FlushEnds
  <2>1. Latest = seq /\ Latest' = IF flight.ok THEN seq + 1 ELSE seq
    BY <1>6, EndOrder
  <2>2. QED BY <1>1, <1>6, <2>1 DEF FlushEnds
<1>7. QED BY <1>2, <1>3, <1>4, <1>e, <1>5, <1>6 DEF Next, Quiet

\* What the router is handed: a message of the queue or of an abandoned socket, and
\* every message with a lower number before it.
LEMMA HandedOver ==
  ASSUME TypeInv, KeysInv, QueueInv, HandedInv, Deliver \/ DeliverStray
  PROVE  \E m \in Messages :
           /\ m \in Envelopes /\ Route(m)
           /\ UNCHANGED <<agent, client, past>>
           /\ \/ /\ Deliver /\ handled + 1 \in 1..Len(client) /\ m = client[handled + 1]
                 /\ handled' = handled + 1 /\ stray' = stray
              \/ /\ DeliverStray /\ stray # <<>> /\ m = Head(stray)
                 /\ handled' = handled /\ stray' = Tail(stray)
           /\ \A n \in Messages : n.boot = m.boot /\ n.seq < m.seq => Key(n) \in routed
<1>1. CASE Deliver
  <2> DEFINE m == client[handled + 1]
  <2>1. handled + 1 \in 1..Len(client)
    BY <1>1 DEF Deliver, TypeInv
  <2>2. m \in Messages /\ m \in Envelopes
    BY <2>1, ImageRange DEF Messages, TypeInv
  <2>3. Route(m) /\ UNCHANGED <<agent, client, past>> /\ handled' = handled + 1
        /\ stray' = stray
    BY <1>1 DEF Deliver
  <2>4. \A n \in Messages : n.boot = m.boot /\ n.seq < m.seq => Key(n) \in routed
    BY <1>1, DeliverLower
  <2>5. QED BY <1>1, <2>1, <2>2, <2>3, <2>4
<1>2. CASE DeliverStray
  <2> DEFINE m == Head(stray)
  <2>1. stray \in Seq(Envelopes) /\ stray # <<>>
    BY <1>2 DEF DeliverStray, TypeInv
  <2>2. m \in Messages /\ m \in Envelopes
    BY <2>1, ImageRange, ImageTail DEF Messages
  <2>3. Route(m) /\ UNCHANGED <<agent, client, past>> /\ handled' = handled
        /\ stray' = Tail(stray)
    BY <1>2 DEF DeliverStray
  <2>4. \A n \in Messages : n.boot = m.boot /\ n.seq < m.seq => Key(n) \in routed
    BY <1>2, StrayLower
  <2>5. QED BY <1>2, <2>1, <2>2, <2>3, <2>4
<1>3. QED BY <1>1, <1>2

\* The router learns of no number and no sample the agent has not used.
LEMMA PastStep ==
  TypeInv /\ SamplesInv /\ KeysInv /\ OrderInv /\ QueueInv /\ PastInv /\ HandedInv
    /\ [Next]_vars => PastInv'
<1> SUFFICES ASSUME TypeInv, SamplesInv, KeysInv, OrderInv, QueueInv, PastInv, HandedInv,
                    [Next]_vars
             PROVE  PastInv'
  OBVIOUS
<1>1. /\ routed \subseteq Pairs /\ recorded \in Seq(Pairs) /\ Len(recorded) \in Nat
      /\ boot \in Nat /\ archived \in 0..Len(recorded)
  BY DEF TypeInv
<1>2. \A k \in routed : k \in Nat \X Nat
  BY <1>1 DEF Pairs
<1>3. \A i \in 1..Len(recorded) : recorded[i] \in Nat \X Nat
  BY <1>1 DEF Pairs
<1>4. CASE AgentRestarts
  <2>1. boot' = boot + 1 /\ UNCHANGED <<routed, recorded>>
    BY <1>4 DEF AgentRestarts, server
  <2>2. \A k \in routed : k[1] <= boot' /\ k[1] # boot'
    BY <1>1, <1>2, <2>1 DEF PastInv
  <2>3. \A i \in 1..Len(recorded) : recorded[i][1] <= boot' /\ recorded[i][1] # boot'
    BY <1>1, <1>3, <2>1 DEF PastInv
  <2>4. QED BY <2>1, <2>2, <2>3 DEF PastInv
<1>5. CASE ~AgentRestarts
  <2>1. /\ boot' = boot
        /\ Latest \in Nat /\ Latest' \in Nat /\ Latest <= Latest'
        /\ offered \in Nat /\ offered' \in Nat /\ offered <= offered'
    BY <1>5, LatestGrows
  <2>2. \A k \in routed : k[1] <= boot' /\ (k[1] = boot' => k[2] <= Latest')
    BY <1>2, <2>1 DEF PastInv
  <2>3. \A i \in 1..Len(recorded) : /\ recorded[i][1] <= boot'
                                    /\ recorded[i][1] = boot' => recorded[i][2] <= offered'
    BY <1>3, <2>1 DEF PastInv
  <2>4. CASE Deliver \/ DeliverStray
    <3>1. PICK m \in Messages : m \in Envelopes /\ Route(m) /\ UNCHANGED agent
      BY <2>4, HandedOver
    <3>2. /\ offered' = offered /\ Latest' = Latest
      BY <3>1 DEF agent, Latest
    <3>3. m.boot \in Nat /\ m.seq \in Nat /\ m.rows \in Seq(Nat) /\ Len(m.rows) \in Nat
      BY <3>1 DEF Envelopes
    <3>4. /\ m.boot <= boot
          /\ m.boot = boot => m.seq <= Latest /\ Image(m.rows) \subseteq 1..offered
      BY DEF KeysInv
    <3>5. Key(m) = <<m.boot, m.seq>>
      BY DEF Key
    <3>6. \A k \in routed' : k[1] <= boot' /\ (k[1] = boot' => k[2] <= Latest')
      <4>1. routed' \subseteq routed \cup {Key(m)}
        BY <3>1, RouteFacts
      <4>2. Key(m)[1] <= boot' /\ (Key(m)[1] = boot' => Key(m)[2] <= Latest')
        BY <2>1, <3>2, <3>4, <3>5
      <4>3. QED BY <2>2, <4>1, <4>2
    <3>7. ASSUME NEW i \in 1..Len(recorded')
          PROVE  /\ recorded'[i][1] <= boot'
                 /\ recorded'[i][1] = boot' => recorded'[i][2] <= offered'
      <4>1. CASE Key(m) \in Image(recent)
        <5>1. recorded' = recorded
          BY <3>1, <4>1, RouteFacts DEF server
        <5>2. QED BY <2>3, <5>1
      <4>2. CASE Key(m) \notin Image(recent)
        <5>1. \/ i \in 1..Len(recorded) /\ recorded'[i] = recorded[i]
              \/ /\ i - Len(recorded) \in 1..Len(m.rows)
                 /\ recorded'[i] = <<m.boot, m.rows[i - Len(recorded)]>>
          BY <3>1, <4>2, RecordFacts
        <5>2. \A j \in 1..Len(m.rows) : m.rows[j] \in Image(m.rows)
          BY DEF Image
        <5>3. m.boot = boot => \A x \in Image(m.rows) : x <= offered
          BY <3>4
        <5>4. QED BY <2>1, <2>3, <3>2, <3>4, <5>1, <5>2, <5>3
      <4>3. QED BY <4>1, <4>2
    <3>8. QED BY <3>6, <3>7 DEF PastInv
  <2>5. CASE ServerRestarts
    <3>1. recorded' = KeepFirst(recorded, archived)
      BY <2>5 DEF ServerRestarts
    <3>2. routed' = {}
      BY <2>5 DEF ServerRestarts
    <3>3. archived \in Nat
      BY <1>1
    <3>4. /\ recorded' \in Seq(Pairs) /\ Len(recorded') <= Len(recorded)
          /\ \A i \in 1..Len(recorded') : recorded'[i] = recorded[i]
      <4> DEFINE r == KeepFirst(recorded, archived)
      <4>1. /\ r \in Seq(Pairs) /\ Len(r) <= Len(recorded)
            /\ \A i \in 1..Len(r) : r[i] = recorded[i]
        BY <1>1, <3>3, KeepFirstFacts
      <4>2. QED BY <3>1, <4>1
    <3>5. \A i \in 1..Len(recorded') : i \in 1..Len(recorded)
      BY <1>1, <3>4
    <3>6. QED BY <2>3, <3>2, <3>4, <3>5 DEF PastInv
  <2>6. CASE UNCHANGED <<routed, recorded>>
    BY <2>2, <2>3, <2>6 DEF PastInv
  <2>7. \/ Deliver \/ DeliverStray \/ ServerRestarts \/ UNCHANGED <<routed, recorded>>
    BY <1>5 DEF Next, vars, server, Offer, FlushTakes, EncodeFails, PublishAccepted,
                PublishRefused, FlushEnds, Break, BreakNoticed, Connect, Acknowledged,
                StrayLost, OthersRoute, Archive
  <2>8. QED BY <2>4, <2>5, <2>6, <2>7
<1>6. QED BY <1>4, <1>5

-----------------------------------------------------------------------------
(* The order in which the router has messages *)

\* What is left in a socket has before it what was handed over on it.
LEMMA WrittenLower ==
  ASSUME TypeInv, KeysInv, QueueInv, HandedInv, NEW q \in Written,
         NEW m \in Messages, NEW j \in 1..Len(q), m.boot = q[j].boot, m.seq < q[j].seq
  PROVE  Key(m) \in routed \/ \E i \in 1..(j - 1) : Key(m) = Key(q[i])
<1>1. /\ q \in Seq(Envelopes) /\ Image(q) \subseteq Image(client)
      /\ \A i \in 1..Len(q) : handled + i \in 1..Len(client) /\ q[i] = client[handled + i]
  BY WrittenFacts
<1>2. handled \in Nat /\ Len(client) \in Nat /\ client \in Seq(Envelopes) /\ Len(q) \in Nat
  BY <1>1 DEF TypeInv
<1>3. q[j] \in Image(client) /\ m.boot = boot
  <2>1. q[j] \in Image(client)
    BY <1>1 DEF Image
  <2>2. QED BY <2>1 DEF KeysInv
<1>4. CASE m \in Image(client)
  <2>1. PICK k \in 1..Len(client) : m = client[k]
    BY <1>4 DEF Image
  <2>2. m.seq \in Nat /\ q[j].seq \in Nat
    BY <1>3, MessagesType DEF Messages, Envelopes
  <2>3. ~(handled + j <= k)
    <3> SUFFICES ASSUME handled + j <= k PROVE FALSE
      OBVIOUS
    <3>1. q[j] = client[handled + j] /\ handled + j \in 1..Len(client)
      BY <1>1
    <3>2. CASE handled + j = k
      BY <2>1, <2>2, <3>1, <3>2
    <3>3. CASE handled + j < k
      <4>1. client[handled + j].seq <= client[k].seq
        BY <3>1, <3>3 DEF QueueInv
      <4>2. QED BY <2>1, <2>2, <3>1, <4>1
    <3>4. QED BY <1>2, <3>1, <3>2, <3>3
  <2>4. CASE k <= handled
    <3>1. k \in 1..handled
      BY <1>2, <2>4
    <3>2. QED BY <2>1, <3>1 DEF HandedInv
  <2>5. CASE k > handled
    <3>1. k - handled \in 1..(j - 1) /\ k - handled \in 1..Len(q)
          /\ handled + (k - handled) = k
      BY <1>2, <2>3, <2>5
    <3>2. q[k - handled] = m
      BY <1>1, <2>1, <3>1
    <3>3. QED BY <3>1, <3>2
  <2>6. QED BY <1>2, <2>4, <2>5
<1>5. CASE m \in Image(stray)
  BY <1>3, <1>4, <1>5 DEF HandedInv
<1>6. QED BY <1>4, <1>5 DEF Messages

LEMMA HandedStep ==
  TypeInv /\ SamplesInv /\ KeysInv /\ OrderInv /\ QueueInv /\ HandedInv /\ [Next]_vars
    => HandedInv'
<1> SUFFICES ASSUME TypeInv, SamplesInv, KeysInv, OrderInv, QueueInv, HandedInv, [Next]_vars
             PROVE  HandedInv'
  OBVIOUS
<1>1. /\ client \in Seq(Envelopes) /\ stray \in Seq(Envelopes) /\ handled \in 0..Len(client)
      /\ handled \in Nat /\ Len(client) \in Nat /\ Len(stray) \in Nat
  BY DEF TypeInv
<1>2. /\ \A i \in 1..handled : Key(client[i]) \in routed
      /\ \A m \in Image(stray) :
           m.boot = boot => m \in Image(client) \/ Key(m) \in routed
      /\ \A m \in Messages, j \in 1..Len(stray) :
           m.boot = stray[j].boot /\ m.seq < stray[j].seq =>
             \/ Key(m) \in routed
             \/ \E i \in 1..(j - 1) : Key(m) = Key(stray[i])
  BY DEF HandedInv
<1>3. Image(<<>>) = {} /\ 1..Len(<<>>) = {}
  BY DEF Image
<1>4. CASE \/ Offer \/ FlushTakes \/ EncodeFails \/ FlushEnds \/ BreakNoticed
           \/ Connect \/ OthersRoute \/ Archive \/ UNCHANGED vars
  <2>1. UNCHANGED <<client, stray, handled, routed, boot>>
    BY <1>4 DEF Offer, FlushTakes, EncodeFails, FlushEnds, BreakNoticed, Connect,
                OthersRoute, Archive, vars, net, server, agent
  <2>2. Messages' = Messages
    BY <2>1 DEF Messages
  <2>3. /\ \A i \in 1..handled' : Key(client'[i]) \in routed'
        /\ \A m \in Image(stray') :
             m.boot = boot' => m \in Image(client') \/ Key(m) \in routed'
    BY <1>2, <2>1
  <2>4. QED BY <1>2, <2>1, <2>2, <2>3 DEF HandedInv
<1>5. CASE PublishAccepted \/ PublishRefused
  <2>1. /\ client' \in {client, Append(client, Envelope)} /\ Latest = seq
        /\ Image(client) \subseteq Image(client')
        /\ Messages' \subseteq Messages \cup {Envelope}
        /\ UNCHANGED <<boot, handled, stray>>
    BY <1>5, PublishFacts
  <2>2. routed' = routed
    BY <1>5 DEF PublishAccepted, PublishRefused, server
  <2>3. \A i \in 1..handled : client'[i] = client[i]
    BY <1>1, <2>1
  <2>4. ASSUME NEW j \in 1..Len(stray), Envelope.boot = stray[j].boot,
               Envelope.seq < stray[j].seq
        PROVE  FALSE
    <3>1. stray[j] \in Messages /\ stray[j] \in Envelopes
      BY <1>1, ImageRange DEF Messages
    <3>2. Envelope.boot = boot /\ Envelope.seq = seq /\ seq \in Nat
      BY DEF Envelope, TypeInv
    <3>3. stray[j].seq <= seq /\ stray[j].seq \in Nat
      BY <2>1, <2>4, <3>1, <3>2 DEF KeysInv, Envelopes
    <3>4. QED BY <2>4, <3>2, <3>3
  <2>5. QED BY <1>2, <2>1, <2>2, <2>3, <2>4 DEF HandedInv
<1>6. CASE Break
  <2>1. /\ stray' \in Written /\ handled' = 0 /\ UNCHANGED <<client, routed, boot>>
    BY <1>6 DEF Break, server, agent
  <2>2. Image(stray') \subseteq Image(client)
    BY <2>1, WrittenFacts
  <2>3. Messages' \subseteq Messages
    BY <2>1, <2>2 DEF Messages
  <2>4. QED BY <2>1, <2>2, <2>3, WrittenLower DEF HandedInv
<1>7. CASE AgentRestarts
  <2>1. /\ stray' \in Written \cup {stray} /\ handled' = 0 /\ routed' = routed
    BY <1>7 DEF AgentRestarts, server
  <2>2. /\ Messages' \subseteq Messages /\ \A m \in Messages' : m.boot < boot'
    BY <1>7, RestartOrder
  <2>3. \A m \in Image(stray') : m.boot # boot'
    <3>1. \A m \in Messages' : m.boot \in Nat
      BY <2>2, MessagesType DEF Envelopes
    <3>2. boot' \in Nat
      BY <1>7 DEF AgentRestarts, TypeInv
    <3>3. QED BY <2>2, <3>1, <3>2 DEF Messages
  <2>4. \A m \in Messages', j \in 1..Len(stray') :
          m.boot = stray'[j].boot /\ m.seq < stray'[j].seq =>
             \/ Key(m) \in routed
             \/ \E i \in 1..(j - 1) : Key(m) = Key(stray'[i])
    BY <1>2, <2>1, <2>2, WrittenLower
  <2>5. QED BY <2>1, <2>3, <2>4 DEF HandedInv
<1>8. CASE Acknowledged
  <2>1. /\ handled > 0 /\ handled' = handled - 1 /\ client' = Tail(client)
        /\ UNCHANGED <<stray, routed, boot>>
    BY <1>8 DEF Acknowledged, server, agent
  <2>2. client # <<>>
    BY <1>1, <2>1
  <2>3. /\ \A i \in 1..Len(client') : client'[i] = client[i + 1]
        /\ Len(client') = Len(client) - 1 /\ Head(client) = client[1]
        /\ Image(client') \subseteq Image(client)
        /\ \A x \in Image(client) : x = Head(client) \/ x \in Image(client')
    BY <1>1, <2>1, <2>2, ImageTail
  <2>4. Key(Head(client)) \in routed
    <3>1. 1 \in 1..handled
      BY <1>1, <2>1
    <3>2. QED BY <1>2, <2>3, <3>1
  <2>5. \A i \in 1..handled' : Key(client'[i]) \in routed
    <3>1. \A i \in 1..handled' : i + 1 \in 1..handled /\ i \in 1..Len(client')
      BY <1>1, <2>1, <2>3
    <3>2. QED BY <1>2, <2>3, <3>1
  <2>6. Messages' \subseteq Messages
    BY <2>1, <2>3 DEF Messages
  <2>7. QED BY <1>2, <2>1, <2>3, <2>4, <2>5, <2>6 DEF HandedInv
<1>9. CASE Deliver \/ DeliverStray
  <2>1. PICK m \in Messages :
           /\ m \in Envelopes /\ Route(m)
           /\ UNCHANGED <<agent, client>>
           /\ \/ /\ handled + 1 \in 1..Len(client) /\ m = client[handled + 1]
                 /\ handled' = handled + 1 /\ stray' = stray
              \/ /\ stray # <<>> /\ m = Head(stray)
                 /\ handled' = handled /\ stray' = Tail(stray)
    BY <1>9, HandedOver
  <2>2. /\ Key(m) \in routed'
        /\ \A n \in Messages : Key(n) \in routed => Key(n) \in routed'
    BY <2>1, RouteFacts
  <2>3. boot' = boot /\ client' = client
    BY <2>1 DEF agent
  <2>4. \A i \in 1..Len(client) : client[i] \in Messages
    BY DEF Messages, Image
  <2>5. \A i \in 1..handled : i \in 1..Len(client)
    BY <1>1
  <2>6. \A i \in 1..handled : Key(client[i]) \in routed'
    BY <1>2, <2>2, <2>4, <2>5
  <2>7. CASE handled' = handled + 1 /\ stray' = stray /\ m = client[handled + 1]
    <3>1. \A i \in 1..handled' : i \in 1..handled \/ i = handled + 1
      BY <1>1, <2>7
    <3>2. \A i \in 1..handled' : Key(client'[i]) \in routed'
      BY <2>2, <2>3, <2>6, <2>7, <3>1
    <3>3. Messages' = Messages /\ Image(stray) \subseteq Messages
      BY <2>3, <2>7 DEF Messages
    <3>4. QED BY <1>2, <2>2, <2>3, <2>7, <3>2, <3>3 DEF HandedInv
  <2>8. CASE stray # <<>> /\ m = Head(stray) /\ handled' = handled /\ stray' = Tail(stray)
    <3>1. /\ \A i \in 1..Len(stray') : stray'[i] = stray[i + 1]
          /\ Len(stray') = Len(stray) - 1 /\ Head(stray) = stray[1]
          /\ Image(stray') \subseteq Image(stray)
      BY <1>1, <2>8, ImageTail
    <3>2. Messages' \subseteq Messages /\ Image(stray) \subseteq Messages
      BY <2>3, <3>1 DEF Messages
    <3>3. ASSUME NEW n \in Messages', NEW j \in 1..Len(stray'),
                 n.boot = stray'[j].boot, n.seq < stray'[j].seq
          PROVE  \/ Key(n) \in routed'
                 \/ \E i \in 1..(j - 1) : Key(n) = Key(stray'[i])
      <4>1. j + 1 \in 1..Len(stray) /\ stray'[j] = stray[j + 1] /\ n \in Messages
        BY <1>1, <3>1, <3>2
      <4>2. \/ Key(n) \in routed
            \/ \E i \in 1..((j + 1) - 1) : Key(n) = Key(stray[i])
        BY <1>2, <3>3, <4>1
      <4>3. CASE Key(n) \in routed
        BY <2>2, <4>1, <4>3
      <4>4. ASSUME NEW i \in 1..((j + 1) - 1), Key(n) = Key(stray[i])
            PROVE  \/ Key(n) \in routed'
                   \/ \E k \in 1..(j - 1) : Key(n) = Key(stray'[k])
        <5>1. CASE i = 1
          BY <2>2, <2>8, <3>1, <4>4, <5>1
        <5>2. CASE i # 1
          <6>1. i - 1 \in 1..(j - 1) /\ i - 1 \in 1..Len(stray') /\ (i - 1) + 1 = i
            BY <1>1, <3>1, <5>2
          <6>2. stray'[i - 1] = stray[i]
            BY <3>1, <6>1
          <6>3. QED BY <4>4, <6>1, <6>2
        <5>3. QED BY <5>1, <5>2
      <4>5. QED BY <4>2, <4>3, <4>4
    <3>4. \A n \in Image(stray') :
            n.boot = boot' => n \in Image(client') \/ Key(n) \in routed'
      BY <1>2, <2>2, <2>3, <3>1, <3>2
    <3>5. QED BY <2>3, <2>6, <2>8, <3>3, <3>4 DEF HandedInv
  <2>9. QED BY <2>1, <2>7, <2>8
<1>10. CASE StrayLost \/ ServerRestarts
  <2>1. /\ stray' = <<>> /\ client' = client
        /\ handled' = 0 \/ (handled' = handled /\ routed' = routed)
    BY <1>10 DEF StrayLost, ServerRestarts, server
  <2>2. \A i \in 1..handled' : Key(client'[i]) \in routed'
    BY <1>2, <2>1
  <2>3. QED BY <1>3, <2>1, <2>2 DEF HandedInv
<1>11. QED BY <1>4, <1>5, <1>6, <1>7, <1>8, <1>9, <1>10 DEF Next

-----------------------------------------------------------------------------
(* The window *)

\* No number the server knows becomes one that may still arrive.
LEMMA OutstandingStep ==
  ASSUME TypeInv, SamplesInv, KeysInv, OrderInv, PastInv, [Next]_vars,
         NEW k \in Outstanding'
  PROVE  k \in Outstanding \/ k \notin routed
<1>1. /\ seq \in Nat /\ boot \in Nat /\ Latest \in Nat
      /\ \A l \in routed : l \in Nat \X Nat
  BY DEF TypeInv, Latest, Pairs
<1>2. k = <<boot', Latest'>> \/ \E m \in Messages' : k = Key(m)
  <2>1. /\ Outstanding' = Keys(client') \cup Keys(stray') \cup {<<boot', Latest'>>}
        /\ Messages' = Image(client') \cup Image(stray')
    BY DEF Outstanding, Messages
  <2>2. /\ \A x \in Keys(client') : \E m \in Image(client') : x = Key(m)
        /\ \A x \in Keys(stray') : \E m \in Image(stray') : x = Key(m)
    BY DEF Keys, Image
  <2>3. QED BY <2>1, <2>2
<1>3. /\ \A m \in Known : Key(m) \in Outstanding
      /\ <<boot, Latest>> \in Outstanding
  BY OutstandingKeys DEF Outstanding
<1>4. \A m \in Messages : Key(m) \in Outstanding
  BY OutstandingKeys
<1>5. ASSUME boot' = boot, Latest' \in Nat, Latest < Latest'
      PROVE  <<boot', Latest'>> \notin routed
  <2> SUFFICES ASSUME <<boot', Latest'>> \in routed PROVE FALSE
    OBVIOUS
  <2>1. <<boot', Latest'>>[2] <= Latest
    BY <1>5 DEF PastInv
  <2>2. QED BY <1>1, <1>5, <2>1
<1>6. CASE Quiet
  <2>1. Messages' \subseteq Messages /\ Latest' = Latest /\ boot' = boot
    BY <1>6, QuietFacts, FewerMessages DEF Quiet, agent
  <2>2. QED BY <1>2, <1>3, <1>4, <2>1
<1>7. CASE Offer
  <2>1. Messages' = Messages /\ Latest' = Latest /\ boot' = boot
    BY <1>7, OfferOrder DEF Offer
  <2>2. QED BY <1>2, <1>3, <1>4, <2>1
<1>8. CASE FlushTakes
  <2>1. Messages' = Messages /\ Latest' = Latest /\ boot' = boot
    BY <1>8, FlushOrder DEF FlushTakes
  <2>2. QED BY <1>2, <1>3, <1>4, <2>1
<1>9. CASE EncodeFails
  <2>1. /\ Messages' = Messages /\ Latest = seq + 1 /\ Latest' = seq + 2
        /\ boot' = boot
    BY <1>9, EncodeOrder DEF EncodeFails
  <2>2. Latest' \in Nat /\ Latest < Latest'
    BY <1>1, <2>1
  <2>3. QED BY <1>2, <1>4, <1>5, <2>1, <2>2
<1>10. CASE PublishAccepted \/ PublishRefused
  <2>1. /\ Messages' \subseteq Messages \cup {Envelope} /\ Latest' = Latest
        /\ boot' = boot /\ flight # Idle
    BY <1>10, PublishFacts
  <2>2. Envelope \in Known
    BY <2>1 DEF Known
  <2>3. QED BY <1>2, <1>3, <1>4, <2>1, <2>2
<1>11. CASE FlushEnds
  <2>1. /\ Messages' = Messages /\ Latest = seq
        /\ Latest' = IF flight.ok THEN seq + 1 ELSE seq
    BY <1>11, EndOrder
  <2>2. boot' = boot
    BY <1>11 DEF FlushEnds
  <2>3. Latest' = Latest \/ (Latest' \in Nat /\ Latest < Latest')
    BY <1>1, <2>1
  <2>4. QED BY <1>2, <1>3, <1>4, <1>5, <2>1, <2>2, <2>3
<1>12. CASE AgentRestarts
  <2>1. Messages' \subseteq Messages /\ boot' = boot + 1
    BY <1>12, RestartOrder DEF AgentRestarts
  <2>2. <<boot', Latest'>> \notin routed
    <3> SUFFICES ASSUME <<boot', Latest'>> \in routed PROVE FALSE
      OBVIOUS
    <3>1. <<boot', Latest'>>[1] <= boot
      BY DEF PastInv
    <3>2. QED BY <1>1, <2>1, <3>1
  <2>3. QED BY <1>2, <1>4, <2>1, <2>2
<1>13. QED
  BY <1>6, <1>7, <1>8, <1>9, <1>10, <1>11, <1>12 DEF Next, Quiet

\* What the window loses and what may still arrive is noticed.
LEMMA WindowStep ==
  TypeInv /\ SamplesInv /\ KeysInv /\ OrderInv /\ QueueInv /\ PastInv /\ HandedInv
    /\ WindowInv /\ [Next]_vars => WindowInv'
<1> SUFFICES ASSUME TypeInv, SamplesInv, KeysInv, OrderInv, QueueInv, PastInv, HandedInv,
                    WindowInv, [Next]_vars, ~forgot', NEW k \in Outstanding',
                    k \in routed'
             PROVE  k \in Image(recent')
  BY DEF WindowInv
<1>1. ~forgot
  BY HistoryGrows
<1>2. \A l \in Outstanding : l \in routed => l \in Image(recent)
  BY <1>1 DEF WindowInv
<1>3. k \in Outstanding \/ k \notin routed
  BY OutstandingStep
<1>4. CASE Deliver \/ DeliverStray
  <2>1. PICK m \in Messages : m \in Envelopes /\ Route(m)
    BY <1>4, HandedOver
  <2>2. /\ Key(m) \in Image(recent') /\ routed' \subseteq routed \cup {Key(m)}
        /\ \A l \in Outstanding : l \in Image(recent) => l \in Image(recent')
    BY <2>1, RouteFacts
  <2>3. QED BY <1>2, <1>3, <2>2
<1>5. CASE OthersRoute
  <2>1. routed' = routed /\ Evicts
    BY <1>5 DEF OthersRoute
  <2>2. \A l \in Image(recent) \cap Outstanding : l \in Image(recent')
    BY <2>1 DEF Evicts
  <2>3. QED BY <1>2, <1>3, <2>1, <2>2
<1>6. CASE ServerRestarts
  BY <1>6 DEF ServerRestarts
<1>7. CASE ~(Deliver \/ DeliverStray \/ OthersRoute \/ ServerRestarts)
  <2>1. UNCHANGED <<recent, routed>>
    BY <1>7 DEF Next, vars, server, Offer, FlushTakes, EncodeFails, PublishAccepted,
                PublishRefused, FlushEnds, AgentRestarts, Break, BreakNoticed, Connect,
                Acknowledged, StrayLost, Archive
  <2>2. QED BY <1>2, <1>3, <2>1
<1>8. QED BY <1>4, <1>5, <1>6, <1>7

-----------------------------------------------------------------------------
(* Once and in order *)

\* The samples of a message whose number is new come after everything recorded.
LEMMA NewInOrder ==
  ASSUME TypeInv, KeysInv, FreshInv, NEW m \in Messages, m \in Envelopes, Route(m),
         Key(m) \notin routed,
         NEW j \in (Len(recorded) + 1)..Len(recorded'), NEW i \in 1..(j - 1),
         recorded'[i][1] = recorded'[j][1]
  PROVE  recorded'[i][2] < recorded'[j][2]
<1> DEFINE l == Len(recorded)
<1>1. Key(m) \notin Image(recent)
  BY DEF TypeInv
<1>2. \A h \in 1..Len(recorded') :
        \/ h \in 1..l /\ recorded'[h] = recorded[h]
        \/ h - l \in 1..Len(m.rows) /\ recorded'[h] = <<m.boot, m.rows[h - l]>>
  BY <1>1, RecordFacts
<1>3. l \in Nat /\ Len(m.rows) \in Nat /\ Len(recorded') \in Nat
  <2>1. m.rows \in Seq(Nat) /\ recorded \in Seq(Pairs)
    BY DEF Envelopes, TypeInv
  <2>2. recorded' \in Seq(Pairs)
    BY RouteType
  <2>3. QED BY <2>1, <2>2
<1>4. Increasing(m.rows) /\ Below(Had(recorded, m.boot), Image(m.rows))
  <2>1. m \in Known
    BY DEF Known
  <2>2. QED BY <2>1 DEF KeysInv, FreshInv
<1>5. /\ j \in 1..Len(recorded') /\ j \notin 1..l /\ i \in 1..Len(recorded') /\ i < j
      /\ i \in Int /\ j \in Int
  BY <1>3
<1>6. j - l \in 1..Len(m.rows) /\ recorded'[j] = <<m.boot, m.rows[j - l]>>
  BY <1>2, <1>5
<1>7. CASE i \in 1..l /\ recorded'[i] = recorded[i]
  <2>1. recorded'[i][2] \in Had(recorded, m.boot)
    BY <1>6, <1>7 DEF Had
  <2>2. recorded'[j][2] \in Image(m.rows)
    BY <1>6 DEF Image
  <2>3. QED BY <1>4, <2>1, <2>2 DEF Below
<1>8. CASE i - l \in 1..Len(m.rows) /\ recorded'[i] = <<m.boot, m.rows[i - l]>>
  <2>1. i - l < j - l
    BY <1>3, <1>5
  <2>2. m.rows[i - l] < m.rows[j - l]
    BY <1>4, <1>6, <1>8, <2>1 DEF Increasing
  <2>3. QED BY <1>6, <1>8, <2>2
<1>9. QED BY <1>2, <1>5, <1>7, <1>8

\* Those of a message whose number the window has lost are recorded already, unless a
\* refused batch had that number.
LEMMA AgainRecorded ==
  ASSUME TypeInv, WindowInv, CountInv, NEW m \in Messages, m \in Envelopes, Route(m),
         Key(m) \in routed, Key(m) \notin Image(recent),
         NEW j \in (Len(recorded) + 1)..Len(recorded')
  PROVE  forgot /\ (refused \/ \E k \in 1..(j - 1) : recorded'[k] = recorded'[j])
<1> DEFINE l == Len(recorded)
<1>1. Key(m) \in Outstanding
  BY OutstandingKeys
<1>2. forgot
  BY <1>1 DEF WindowInv
<1>3. CASE ~refused
  <2>1. Image(m.rows) \subseteq Had(recorded, m.boot)
    BY <1>3 DEF CountInv, SameKeyInv, Known
  <2>2. /\ \A h \in 1..l : recorded'[h] = recorded[h]
        /\ \A h \in 1..Len(recorded') :
             \/ h \in 1..l /\ recorded'[h] = recorded[h]
             \/ h - l \in 1..Len(m.rows) /\ recorded'[h] = <<m.boot, m.rows[h - l]>>
    BY RouteFacts, RecordFacts
  <2>3. recorded \in Seq(Pairs) /\ l \in Nat
    BY DEF TypeInv
  <2>4. j \in 1..Len(recorded') /\ j \notin 1..l
    BY <2>3
  <2>5. j - l \in 1..Len(m.rows) /\ recorded'[j] = <<m.boot, m.rows[j - l]>>
    BY <2>2, <2>4
  <2>6. m.rows[j - l] \in Had(recorded, m.boot)
    BY <2>1, <2>5 DEF Image
  <2>7. PICK k \in 1..l : recorded[k][1] = m.boot /\ recorded[k][2] = m.rows[j - l]
    BY <2>6 DEF Had
  <2>8. recorded[k] = <<m.boot, m.rows[j - l]>>
    <3>1. recorded[k] \in Nat \X Nat
      BY <2>3 DEF Pairs
    <3>2. QED BY <2>7, <3>1
  <2>9. k \in 1..(j - 1)
    BY <2>3
  <2>10. QED BY <1>2, <2>2, <2>5, <2>8, <2>9
<1>4. QED BY <1>2, <1>3

\* What remains is behind the samples of a message that is let through.
LEMMA RouteFresh ==
  ASSUME TypeInv, SamplesInv, KeysInv, OrderInv, QueueInv, HandedInv, WindowInv, CountInv,
         FreshInv, Deliver \/ DeliverStray
  PROVE  FreshInv'
<1>1. PICK m \in Messages :
         /\ m \in Envelopes /\ Route(m) /\ UNCHANGED <<agent, past>>
         /\ \A n \in Messages : n.boot = m.boot /\ n.seq < m.seq => Key(n) \in routed
  BY HandedOver
<1>2. /\ Known' \subseteq Known /\ Latest' = Latest /\ Rest' = Rest
      /\ UNCHANGED <<boot, seq, flight, buffer>>
  <2>1. UNCHANGED agent /\ Image(client') \subseteq Image(client)
        /\ Image(stray') \subseteq Messages
    BY QuietFacts
  <2>2. QED BY <2>1, FewerMessages DEF agent
<1>3. Key(m) \in routed' /\ routed \subseteq routed'
  BY <1>1, RouteFacts
<1>h. (forgot => forgot') /\ refused' = refused
  BY <1>1, HistoryGrows DEF Next, past
<1>4. CASE Key(m) \in Image(recent)
  <2>1. UNCHANGED <<routed, recorded, forgot>>
    BY <1>1, <1>4, RouteFacts DEF server
  <2>2. QED BY <1>2, <1>h, <2>1 DEF FreshInv
<1>5. CASE Key(m) \notin Image(recent)
  <2>1. /\ \A b \in Nat : Had(recorded', b) =
             Had(recorded, b) \cup IF b = m.boot THEN Image(m.rows) ELSE {}
        /\ \A i \in 1..Len(recorded') : i \in 1..Len(recorded) => recorded'[i] = recorded[i]
    BY <1>1, <1>5, RecordFacts, RouteFacts
  <2>2. /\ m.boot \in Nat /\ m.seq \in Nat /\ boot \in Nat /\ seq \in Nat
        /\ Len(recorded) \in Nat /\ Len(recorded') \in Nat
    <3>1. m.boot \in Nat /\ m.seq \in Nat
      BY <1>1 DEF Envelopes
    <3>2. recorded' \in Seq(Pairs)
      BY <1>1, RouteType
    <3>3. recorded \in Seq(Pairs) /\ boot \in Nat /\ seq \in Nat
      BY DEF TypeInv
    <3>4. QED BY <3>1, <3>2, <3>3
  <2>4. ASSUME NEW i \in 1..Len(recorded'), NEW j \in 1..Len(recorded'), i < j,
               recorded'[i][1] = recorded'[j][1]
        PROVE  \/ recorded'[i][2] < recorded'[j][2]
               \/ forgot' /\ (refused' \/ \E k \in 1..(j - 1) : recorded'[k] = recorded'[j])
    <3>1. CASE j \in 1..Len(recorded)
      <4>1. i \in 1..Len(recorded) /\ \A k \in 1..(j - 1) : k \in 1..Len(recorded)
                                       /\ k \in 1..Len(recorded')
        BY <2>2, <2>4, <3>1
      <4>2. \/ recorded[i][2] < recorded[j][2]
            \/ forgot /\ (refused \/ \E k \in 1..(j - 1) : recorded[k] = recorded[j])
        BY <2>1, <2>4, <3>1, <4>1 DEF FreshInv
      <4>3. QED BY <1>h, <2>1, <3>1, <4>1, <4>2
    <3>2. CASE j \notin 1..Len(recorded)
      <4>1. j \in (Len(recorded) + 1)..Len(recorded') /\ i \in 1..(j - 1)
        BY <2>2, <2>4, <3>2
      <4>2. CASE Key(m) \notin routed
        BY <1>1, <2>4, <4>1, <4>2, NewInOrder
      <4>3. CASE Key(m) \in routed
        <5>1. forgot /\ (refused \/ \E k \in 1..(j - 1) : recorded'[k] = recorded'[j])
          BY <1>1, <1>5, <4>1, <4>3, AgainRecorded
        <5>2. QED BY <1>h, <5>1
      <4>4. QED BY <4>2, <4>3
    <3>3. QED BY <3>1, <3>2
  <2>5. ASSUME NEW n \in Known', Key(n) \notin routed'
        PROVE  Below(Had(recorded', n.boot), Image(n.rows))
    <3>1. n \in Known /\ Key(n) \notin routed /\ n \in Envelopes
      BY <1>2, <1>3, <2>5, MessagesType
    <3>2. Below(Had(recorded, n.boot), Image(n.rows)) /\ n.boot \in Nat /\ n.seq \in Nat
      BY <3>1 DEF FreshInv, Envelopes
    <3>3. CASE n.boot # m.boot
      <4>1. Had(recorded', n.boot) = Had(recorded, n.boot)
        BY <2>1, <3>2, <3>3
      <4>2. QED BY <3>2, <4>1
    <3>4. CASE n.boot = m.boot
      <4>1. n.seq # m.seq
        BY <1>3, <2>5, <3>4 DEF Key
      <4>2. ~(n.seq < m.seq)
        <5>1. CASE n \in Messages
          BY <1>1, <3>1, <3>4, <5>1
        <5>2. CASE n \notin Messages
          <6>1. n.boot = boot /\ n.seq = seq /\ Latest = seq
            BY <3>1, <5>2 DEF Known, Envelope, Latest
          <6>2. m.seq <= seq
            BY <3>4, <6>1 DEF KeysInv
          <6>3. QED BY <2>2, <6>1, <6>2
        <5>3. QED BY <5>1, <5>2
      <4>3. m.seq < n.seq /\ m \in Known
        BY <2>2, <3>2, <4>1, <4>2 DEF Known
      <4>4. Below(Image(m.rows), Image(n.rows))
        BY <3>1, <3>4, <4>3 DEF OrderInv
      <4>5. Had(recorded', n.boot) = Had(recorded, n.boot) \cup Image(m.rows)
        BY <2>1, <3>2, <3>4
      <4>6. QED BY <3>2, <4>4, <4>5 DEF Below
    <3>5. QED BY <3>3, <3>4
  <2>6. Had(recorded', boot) =
          Had(recorded, boot) \cup IF boot = m.boot THEN Image(m.rows) ELSE {}
    BY <2>1, <2>2
  <2>7. Below(Had(recorded', boot), Rest)
    <3>1. m.boot = boot => Below(Image(m.rows), Rest)
      BY DEF OrderInv
    <3>2. Below(Had(recorded, boot), Rest)
      BY DEF FreshInv
    <3>3. QED BY <2>6, <3>1, <3>2 DEF Below
  <2>8. ASSUME <<boot, Latest>> \notin routed' \/ flight # Idle
        PROVE  Below(Had(recorded', boot), Image(buffer))
    <3>1. Below(Had(recorded, boot), Image(buffer))
      BY <1>3, <2>8 DEF FreshInv
    <3>2. ASSUME m.boot = boot PROVE m.seq <= seq
      <4>1. m.seq <= Latest
        BY <3>2 DEF KeysInv
      <4>2. CASE flight # Idle
        BY <4>1, <4>2 DEF Latest
      <4>3. CASE flight = Idle
        <5>1. Latest = seq + 1 /\ m.seq # seq + 1
          BY <1>3, <2>8, <3>2, <4>3 DEF Latest, Key
        <5>2. QED BY <2>2, <4>1, <5>1
      <4>4. QED BY <4>2, <4>3
    <3>3. m.boot = boot => Below(Image(m.rows), Image(buffer))
      BY <3>2 DEF OrderInv
    <3>4. QED BY <2>6, <3>1, <3>3 DEF Below
  <2>9. QED BY <1>2, <2>4, <2>5, <2>7, <2>8 DEF FreshInv
<1>6. QED BY <1>4, <1>5

\* Until the server is restarted.
LEMMA OnceStep ==
  TypeInv /\ SamplesInv /\ KeysInv /\ OrderInv /\ QueueInv /\ PastInv /\ HandedInv
    /\ WindowInv /\ OnceInv /\ CountInv /\ [Next]_vars => OnceInv'
<1> SUFFICES ASSUME TypeInv, SamplesInv, KeysInv, OrderInv, QueueInv, PastInv, HandedInv,
                    WindowInv, OnceInv, CountInv, [Next]_vars, ~restarted'
             PROVE  FreshInv'
  BY DEF OnceInv
<1>1. ~ServerRestarts
  BY DEF ServerRestarts
<1>2. restarted' = restarted
  BY <1>1 DEF Next, vars, past, Offer, FlushTakes, EncodeFails, PublishAccepted,
              PublishRefused, FlushEnds, AgentRestarts, Break, BreakNoticed, Connect,
              Acknowledged, StrayLost, Deliver, DeliverStray, OthersRoute, Archive
<1>3. FreshInv
  BY <1>2 DEF OnceInv
<1>4. /\ \A m \in Known :
           Key(m) \notin routed => Below(Had(recorded, m.boot), Image(m.rows))
      /\ Below(Had(recorded, boot), Rest)
      /\ <<boot, Latest>> \notin routed \/ flight # Idle =>
           Below(Had(recorded, boot), Image(buffer))
  BY <1>3 DEF FreshInv
<1>o. ASSUME recorded' = recorded
      PROVE  \A i, j \in 1..Len(recorded') :
               i < j /\ recorded'[i][1] = recorded'[j][1] =>
                 \/ recorded'[i][2] < recorded'[j][2]
                 \/ /\ forgot'
                    /\ refused' \/ \E k \in 1..(j - 1) : recorded'[k] = recorded'[j]
  <2>1. (forgot => forgot') /\ (refused => refused')
    BY HistoryGrows
  <2>2. \A i, j \in 1..Len(recorded) :
           i < j /\ recorded[i][1] = recorded[j][1] =>
             \/ recorded[i][2] < recorded[j][2]
             \/ forgot /\ (refused \/ \E k \in 1..(j - 1) : recorded[k] = recorded[j])
    BY <1>3 DEF FreshInv
  <2>3. QED BY <1>o, <2>1, <2>2
<1>5. CASE \/ Break \/ BreakNoticed \/ Connect \/ Acknowledged \/ StrayLost
           \/ OthersRoute \/ Archive \/ UNCHANGED vars
  <2>1. UNCHANGED agent /\ Image(client') \subseteq Image(client)
        /\ Image(stray') \subseteq Messages
    BY <1>5, QuietFacts
  <2>2. Known' \subseteq Known /\ Latest' = Latest /\ Rest' = Rest
    BY <2>1, FewerMessages
  <2>3. UNCHANGED <<routed, recorded>>
    BY <1>5 DEF Break, BreakNoticed, Connect, Acknowledged, StrayLost, OthersRoute, Archive,
                vars, server
  <2>4. QED BY <1>4, <1>o, <2>1, <2>2, <2>3 DEF FreshInv, agent
<1>6. CASE Offer
  <2>1. Known' = Known /\ Latest' = Latest
    BY <1>6, OfferOrder
  <2>2. UNCHANGED <<boot, flight, routed, recorded>>
    BY <1>6 DEF Offer, server
  <2>3. /\ Image(buffer') \subseteq Image(buffer) \cup {offered + 1}
        /\ Rest' \subseteq Rest \cup {offered + 1}
    BY <1>6, OfferFacts
  <2>4. Below(Had(recorded, boot), {offered + 1})
    <3> SUFFICES ASSUME NEW i \in 1..Len(recorded), recorded[i][1] = boot
                 PROVE  recorded[i][2] < offered + 1
      BY DEF Below, Had
    <3>1. recorded[i][2] <= offered
      BY DEF PastInv
    <3>2. recorded[i] \in Pairs /\ offered \in Nat
      BY DEF TypeInv
    <3>3. QED BY <3>1, <3>2 DEF Pairs
  <2>5. QED BY <1>4, <1>o, <2>1, <2>2, <2>3, <2>4 DEF FreshInv, Below
<1>7. CASE FlushTakes
  <2>1. /\ Known = Messages /\ Known' = Messages \cup {Envelope'}
        /\ Latest = seq + 1 /\ Latest' = seq + 1
    BY <1>7, FlushOrder
  <2>2. /\ seq' = seq + 1 /\ flight = Idle /\ UNCHANGED <<boot, routed, recorded>>
    BY <1>7 DEF FlushTakes, server
  <2>3. /\ Image(buffer) = Image(flight'.rows) \cup Image(buffer')
        /\ Image(buffer') = Rest /\ Rest' \subseteq Rest
    BY <1>7, FlushFacts
  <2>4. Envelope'.boot = boot /\ Envelope'.rows = flight'.rows
        /\ Key(Envelope') = <<boot, Latest>>
    BY <2>1, <2>2 DEF Envelope, Key
  <2>5. Key(Envelope') \notin routed =>
          Below(Had(recorded, Envelope'.boot), Image(Envelope'.rows))
    BY <1>4, <2>3, <2>4 DEF Below
  <2>6. QED BY <1>4, <1>o, <2>1, <2>2, <2>3, <2>5 DEF FreshInv, Below
<1>e. CASE EncodeFails
  <2>1. /\ Known' = Known /\ Latest = seq + 1 /\ Latest' = seq + 2
        /\ Image(buffer') = Rest /\ Rest' \subseteq Rest
    BY <1>e, EncodeOrder
  <2>2. UNCHANGED <<boot, flight, routed, recorded>>
    BY <1>e DEF EncodeFails, server
  <2>3. QED BY <1>4, <1>o, <2>1, <2>2 DEF FreshInv, Below
<1>8. CASE PublishAccepted \/ PublishRefused
  <2>1. /\ flight # Idle /\ flight' # Idle /\ Latest' = Latest /\ Known' = Known
        /\ UNCHANGED <<boot, buffer>>
    BY <1>8, PublishFacts
  <2>2. UNCHANGED <<routed, recorded>>
    BY <1>8 DEF PublishAccepted, PublishRefused, server
  <2>3. Rest' = Rest
    BY <2>1 DEF Rest
  <2>4. QED BY <1>4, <1>o, <2>1, <2>2, <2>3 DEF FreshInv
<1>9. CASE FlushEnds
  <2>1. /\ Known' = Messages /\ Known = Messages \cup {Envelope}
        /\ Latest = seq /\ Latest' = IF flight.ok THEN seq + 1 ELSE seq
    BY <1>9, EndOrder
  <2>2. flight # Idle /\ UNCHANGED <<boot, routed, recorded>>
    BY <1>9 DEF FlushEnds, server
  <2>3. Below(Had(recorded, boot), Image(buffer))
    BY <1>4, <2>2
  <2>4. CASE flight.ok
    <3>1. buffer' = buffer
      BY <1>9, <2>4 DEF FlushEnds
    <3>2. Rest' = Rest
      BY <3>1 DEF Rest
    <3>3. QED BY <1>4, <1>o, <2>1, <2>2, <2>3, <3>1, <3>2 DEF FreshInv
  <2>5. CASE ~flight.ok
    <3>1. /\ Image(buffer') \subseteq Image(flight.rows) \cup Image(buffer)
          /\ Rest' \subseteq Image(buffer)
      BY <1>9, <2>5, PutBackFacts
    <3>2. /\ Key(Envelope) = <<boot, Latest'>> /\ Envelope.boot = boot
          /\ Envelope.rows = flight.rows
      BY <2>1, <2>5 DEF Key, Envelope
    <3>3. <<boot, Latest'>> \notin routed =>
            Below(Had(recorded, boot), Image(flight.rows))
      BY <1>4, <2>1, <3>2
    <3>4. flight' = Idle
      BY <1>9 DEF FlushEnds
    <3>5. QED BY <1>4, <1>o, <2>1, <2>2, <2>3, <3>1, <3>3, <3>4 DEF FreshInv, Below
  <2>6. QED BY <2>4, <2>5
<1>10. CASE AgentRestarts
  <2>1. Known' \subseteq Known
    BY <1>10, RestartOrder DEF Known
  <2>2. boot' = boot + 1 /\ boot \in Nat /\ UNCHANGED <<routed, recorded>>
    BY <1>10 DEF AgentRestarts, server, TypeInv
  <2>3. Had(recorded, boot') = {}
    <3> SUFFICES ASSUME NEW i \in 1..Len(recorded) PROVE recorded[i][1] # boot'
      BY DEF Had
    <3>1. recorded[i][1] <= boot
      BY DEF PastInv
    <3>2. recorded[i] \in Pairs
      BY DEF TypeInv
    <3>3. QED BY <2>2, <3>1, <3>2 DEF Pairs
  <2>4. QED BY <1>4, <1>o, <2>1, <2>2, <2>3 DEF FreshInv, Below
<1>11. CASE Deliver \/ DeliverStray
  BY <1>3, <1>11, RouteFresh
<1>12. QED BY <1>1, <1>5, <1>6, <1>7, <1>e, <1>8, <1>9, <1>10, <1>11 DEF Next

-----------------------------------------------------------------------------
(* Losses are counted *)

LEMMA RefusedKept == ASSUME [Next]_vars, ~refused' PROVE ~refused /\ ~PublishRefused
<1>1. ~PublishRefused
  BY DEF PublishRefused
<1>2. refused' = refused
  BY <1>1 DEF Next, vars, past, Offer, FlushTakes, EncodeFails, PublishAccepted, FlushEnds,
              AgentRestarts, Break, BreakNoticed, Connect, Acknowledged, StrayLost, Deliver,
              DeliverStray, OthersRoute, Archive, ServerRestarts
<1>3. QED BY <1>1, <1>2

\* While no publish is refused no number is used twice, and what was let through under one
\* is recorded.
LEMMA SameKeyStep ==
  ASSUME TypeInv, SamplesInv, KeysInv, OrderInv, QueueInv, PastInv, HandedInv, SameKeyInv,
         [Next]_vars, ~PublishRefused
  PROVE  SameKeyInv'
<1>1. /\ flight.ok
      /\ \A m \in Messages : m.boot = boot => m.seq <= seq
      /\ \A k \in routed : k[1] = boot => k[2] <= seq
      /\ \A m, n \in Known : Key(m) = Key(n) => m.rows = n.rows
      /\ \A m \in Known : Key(m) \in routed => Image(m.rows) \subseteq Had(recorded, m.boot)
  BY DEF SameKeyInv
<1>2. seq \in Nat /\ boot \in Nat /\ \A k \in routed : k \in Nat \X Nat
  BY DEF TypeInv, Pairs
<1>3. \A m \in Messages : m.boot \in Nat /\ m.seq \in Nat
  BY MessagesType DEF Envelopes
<1>4. Messages \subseteq Known
  BY DEF Known
<1>5. Idle.ok
  BY DEF Idle
<1>6. CASE \/ Break \/ BreakNoticed \/ Connect \/ Acknowledged \/ StrayLost
           \/ OthersRoute \/ Archive \/ ServerRestarts \/ UNCHANGED vars
  <2>1. UNCHANGED agent /\ Image(client') \subseteq Image(client)
        /\ Image(stray') \subseteq Messages
    BY <1>6, QuietFacts
  <2>2. Known' \subseteq Known /\ Messages' \subseteq Messages
    BY <2>1, FewerMessages
  <2>3. UNCHANGED <<boot, seq, flight>>
    BY <2>1 DEF agent
  <2>4. CASE UNCHANGED <<routed, recorded>>
    BY <1>1, <2>2, <2>3, <2>4 DEF SameKeyInv
  <2>5. CASE ServerRestarts
    <3>1. routed' = {}
      BY <2>5 DEF ServerRestarts
    <3>2. QED BY <1>1, <2>2, <2>3, <3>1 DEF SameKeyInv
  <2>6. QED
    BY <1>6, <2>4, <2>5 DEF Break, BreakNoticed, Connect, Acknowledged, StrayLost,
                            OthersRoute, Archive, vars, server
<1>7. CASE Offer
  <2>1. Known' = Known /\ Messages' = Messages
    BY <1>7, OfferOrder
  <2>2. UNCHANGED <<boot, seq, flight, routed, recorded>>
    BY <1>7 DEF Offer, server
  <2>3. QED BY <1>1, <2>1, <2>2 DEF SameKeyInv
<1>8. CASE FlushTakes
  <2>1. Messages' = Messages /\ Known' = Messages \cup {Envelope'}
    BY <1>8, FlushOrder
  <2>2. seq' = seq + 1 /\ flight'.ok /\ UNCHANGED <<boot, routed, recorded>>
    BY <1>8 DEF FlushTakes, server
  <2>3. Key(Envelope') = <<boot, seq + 1>>
    BY <2>2 DEF Envelope, Key
  <2>4. \A m \in Messages : Key(m) # Key(Envelope')
    <3> SUFFICES ASSUME NEW m \in Messages, Key(m) = <<boot, seq + 1>> PROVE FALSE
      BY <2>3
    <3>1. m.boot = boot /\ m.seq = seq + 1
      BY DEF Key
    <3>2. QED BY <1>1, <1>2, <3>1
  <2>5. Key(Envelope') \notin routed
    <3> SUFFICES ASSUME <<boot, seq + 1>> \in routed PROVE FALSE
      BY <2>3
    <3>1. <<boot, seq + 1>>[2] <= seq
      BY <1>1
    <3>2. QED BY <1>2, <3>1
  <2>7. \A m \in Messages' : m.boot = boot' => m.seq <= seq'
    BY <1>1, <1>2, <1>3, <2>1, <2>2
  <2>8. \A k \in routed' : k[1] = boot' => k[2] <= seq'
    BY <1>1, <1>2, <2>2
  <2>9. QED BY <1>1, <1>4, <2>1, <2>2, <2>4, <2>5, <2>7, <2>8 DEF SameKeyInv
<1>e. CASE EncodeFails
  <2>1. Messages' = Messages /\ Known' = Known
    BY <1>e, EncodeOrder
  <2>2. seq' = seq + 1 /\ UNCHANGED <<boot, flight, routed, recorded>>
    BY <1>e DEF EncodeFails, server
  <2>3. \A m \in Messages' : m.boot = boot' => m.seq <= seq'
    BY <1>1, <1>2, <1>3, <2>1, <2>2
  <2>4. \A k \in routed' : k[1] = boot' => k[2] <= seq'
    BY <1>1, <1>2, <2>2
  <2>5. QED BY <1>1, <2>1, <2>2, <2>3, <2>4 DEF SameKeyInv
<1>9. CASE PublishAccepted
  <2>1. /\ Known' = Known /\ Messages' \subseteq Messages \cup {Envelope}
        /\ UNCHANGED <<boot, seq>>
    BY <1>9, PublishFacts
  <2>2. flight'.ok = flight.ok /\ UNCHANGED <<routed, recorded>>
    BY <1>9 DEF PublishAccepted, server, TypeInv
  <2>3. Envelope.seq <= seq
    BY <1>2 DEF Envelope
  <2>4. QED BY <1>1, <2>1, <2>2, <2>3 DEF SameKeyInv
<1>10. CASE FlushEnds
  <2>1. Messages' = Messages /\ Known' = Messages
    BY <1>10, EndOrder
  <2>2. flight' = Idle /\ UNCHANGED <<boot, seq, routed, recorded>>
    BY <1>1, <1>10 DEF FlushEnds, server
  <2>3. QED BY <1>1, <1>4, <1>5, <2>1, <2>2 DEF SameKeyInv
<1>11. CASE AgentRestarts
  <2>1. /\ Messages' \subseteq Messages /\ Known' = Messages'
        /\ \A m \in Messages' : m.boot < boot'
    BY <1>11, RestartOrder
  <2>2. /\ boot' = boot + 1 /\ flight' = Idle /\ UNCHANGED <<routed, recorded>>
    BY <1>11 DEF AgentRestarts, server
  <2>3. \A m \in Messages' : m.boot # boot'
    BY <1>2, <1>3, <2>1, <2>2
  <2>4. \A k \in routed : k[1] # boot'
    BY <1>2, <2>2 DEF PastInv
  <2>5. QED BY <1>1, <1>4, <1>5, <2>1, <2>2, <2>3, <2>4 DEF SameKeyInv
<1>12. CASE Deliver \/ DeliverStray
  <2>1. PICK m \in Messages : m \in Envelopes /\ Route(m) /\ UNCHANGED agent
    BY <1>12, HandedOver
  <2>2. UNCHANGED <<boot, seq, flight>>
    BY <2>1 DEF agent
  <2>3. Known' \subseteq Known /\ Messages' \subseteq Messages
    <3>1. Image(client') \subseteq Image(client) /\ Image(stray') \subseteq Messages
      BY <1>12, QuietFacts
    <3>2. QED BY <2>1, <3>1, FewerMessages
  <2>4. CASE Key(m) \in Image(recent)
    <3>1. UNCHANGED <<routed, recorded>>
      BY <2>1, <2>4, RouteFacts DEF server
    <3>2. QED BY <1>1, <2>2, <2>3, <3>1 DEF SameKeyInv
  <2>5. CASE Key(m) \notin Image(recent)
    <3>1. \A b \in Nat : Had(recorded', b) =
            Had(recorded, b) \cup IF b = m.boot THEN Image(m.rows) ELSE {}
      BY <2>1, <2>5, RecordFacts
    <3>2. routed' \subseteq routed \cup {Key(m)}
      BY <2>1, RouteFacts
    <3>3. Key(m)[1] = boot => Key(m)[2] <= seq
      BY <1>1 DEF Key
    <3>4. \A n \in Known : Key(n) = Key(m) => n.rows = m.rows /\ n.boot = m.boot
      BY <1>1, <1>4 DEF Key
    <3>5. ASSUME NEW n \in Known, Key(n) \in routed'
          PROVE  Image(n.rows) \subseteq Had(recorded', n.boot)
      <4>1. n.boot \in Nat
        BY MessagesType DEF Envelopes
      <4>2. CASE Key(n) \in routed
        BY <1>1, <3>1, <4>1, <4>2
      <4>3. CASE Key(n) = Key(m)
        BY <3>1, <3>4, <4>1, <4>3
      <4>4. QED BY <3>2, <3>5, <4>2, <4>3
    <3>6. QED BY <1>1, <2>2, <2>3, <3>2, <3>3, <3>5 DEF SameKeyInv
  <2>6. QED BY <2>4, <2>5
<1>13. QED BY <1>6, <1>7, <1>8, <1>e, <1>9, <1>10, <1>11, <1>12 DEF Next

\* As many samples as are forgotten may be lost, and no more.
LEMMA LossBound ==
  ASSUME TypeInv, LossInv, NEW X, IsFiniteSet(X), NEW n \in Nat, Cardinality(X) <= n,
         NEW G, G \subseteq Gone \cup X
  PROVE  Cardinality(G) <= dropped + crashed + unsent + n
<1>1. IsFiniteSet(Gone)
  <2>1. IsFiniteSet(origin + 1 .. offered)
    BY FS_Interval DEF TypeInv
  <2>2. Gone \subseteq origin + 1 .. offered
    BY DEF Gone
  <2>3. QED BY <2>1, <2>2, FS_Subset
<1>2. /\ IsFiniteSet(Gone \cup X)
      /\ Cardinality(Gone \cup X) =
           Cardinality(Gone) + Cardinality(X) - Cardinality(Gone \cap X)
  BY <1>1, FS_Union
<1>3. IsFiniteSet(Gone \cap X) /\ IsFiniteSet(G)
  <2>1. Gone \cap X \subseteq Gone
    OBVIOUS
  <2>2. QED BY <1>1, <1>2, <2>1, FS_Subset
<1>4. Cardinality(G) <= Cardinality(Gone \cup X)
  BY <1>2, FS_Subset
<1>5. /\ Cardinality(Gone) \in Nat /\ Cardinality(X) \in Nat
      /\ Cardinality(Gone \cap X) \in Nat /\ Cardinality(G) \in Nat
  BY <1>1, <1>3, FS_CardinalityType
<1>6. /\ Cardinality(Gone) <= dropped + crashed + unsent
      /\ dropped \in Nat /\ crashed \in Nat /\ unsent \in Nat
  BY DEF LossInv, TypeInv
<1>7. QED BY <1>2, <1>4, <1>5, <1>6

\* A sequence has no more samples than places, and what a run of the agent has had
\* recorded is recorded.
LEMMA ImageSize ==
  ASSUME NEW q \in Seq(Nat)
  PROVE  IsFiniteSet(Image(q)) /\ Cardinality(Image(q)) <= Len(q)
<1> DEFINE S == 1..Len(q)
           f == [i \in S |-> q[i]]
           X == {q[i] : i \in S}
<1>1. IsFiniteSet(S) /\ Cardinality(S) = Len(q)
  <2>1. Len(q) \in Nat /\ 1 \in Int /\ Len(q) \in Int
    OBVIOUS
  <2>2. /\ IsFiniteSet(S)
        /\ Cardinality(S) = IF 1 > Len(q) THEN 0 ELSE Len(q) - 1 + 1
    BY <2>1, FS_Interval
  <2>3. QED BY <2>1, <2>2
<1>2. f \in Surjection(S, X)
  BY DEF Surjection
<1>3. IsFiniteSet(X) /\ Cardinality(X) <= Len(q)
  BY <1>1, <1>2, FS_Surjection
<1>4. QED BY <1>3 DEF Image

LEMMA HadRecorded == \A b : Had(recorded, b) \subseteq Recorded
BY DEF Had, Recorded

\* Samples of a queue, when it grows at one end and shrinks at the other.
LEMMA RowsOfFacts ==
  ASSUME NEW q \in Seq(Envelopes)
  PROVE  /\ \A m \in Envelopes :
              RowsOf(Append(q, m)) = RowsOf(q) \cup Image(m.rows)
         /\ q # <<>> => RowsOf(q) \subseteq Image(Head(q).rows) \cup RowsOf(Tail(q))
<1>1. ASSUME NEW r \in Seq(Envelopes), NEW x
      PROVE  x \in RowsOf(r) <=> \E m \in Image(r) : x \in Image(m.rows)
  BY DEF RowsOf, Image
<1>2. ASSUME NEW m \in Envelopes
      PROVE  RowsOf(Append(q, m)) = RowsOf(q) \cup Image(m.rows)
  <2>1. Append(q, m) \in Seq(Envelopes) /\ Image(Append(q, m)) = Image(q) \cup {m}
    BY ImageAppend
  <2>2. ASSUME NEW x
        PROVE  x \in RowsOf(Append(q, m)) <=> x \in RowsOf(q) \cup Image(m.rows)
    <3>1. x \in RowsOf(Append(q, m)) <=> \E k \in Image(q) \cup {m} : x \in Image(k.rows)
      BY <1>1, <2>1
    <3>2. x \in RowsOf(q) <=> \E k \in Image(q) : x \in Image(k.rows)
      BY <1>1
    <3>3. QED BY <3>1, <3>2
  <2>3. QED BY <2>2
<1>3. ASSUME q # <<>>, NEW x \in RowsOf(q)
      PROVE  x \in Image(Head(q).rows) \cup RowsOf(Tail(q))
  <2>1. Tail(q) \in Seq(Envelopes)
        /\ \A m \in Image(q) : m = Head(q) \/ m \in Image(Tail(q))
    BY <1>3, ImageTail
  <2>2. PICK m \in Image(q) : x \in Image(m.rows)
    BY <1>1, <1>3
  <2>3. CASE m \in Image(Tail(q))
    BY <1>1, <2>1, <2>2, <2>3
  <2>4. QED BY <2>1, <2>2, <2>3
<1>4. QED BY <1>2, <1>3

\* What a server that dies takes with it is what it had not archived.
LEMMA CrashFacts ==
  ASSUME TypeInv, ServerRestarts
  PROVE  \E X : /\ IsFiniteSet(X) /\ Cardinality(X) <= Len(recorded) - archived
                /\ Recorded \subseteq Recorded' \cup X
<1> DEFINE n == Len(recorded)
           S == archived + 1 .. n
           f == [i \in S |-> recorded[i][2]]
           X == {recorded[i][2] : i \in S}
<1>1. recorded \in Seq(Pairs) /\ n \in Nat /\ archived \in Nat /\ archived <= n
  BY DEF TypeInv
<1>2. IsFiniteSet(S) /\ Cardinality(S) = n - archived
  <2>1. /\ IsFiniteSet(S)
        /\ Cardinality(S) = IF archived + 1 > n THEN 0 ELSE n - (archived + 1) + 1
    <3>1. archived + 1 \in Int /\ n \in Int
      BY <1>1
    <3>2. QED BY <3>1, FS_Interval
  <2>2. QED BY <1>1, <2>1
<1>3. f \in Surjection(S, X)
  BY DEF Surjection
<1>4. IsFiniteSet(X) /\ Cardinality(X) <= n - archived
  BY <1>2, <1>3, FS_Surjection
<1>5. /\ \A i \in 1..Len(recorded') : recorded'[i] = recorded[i]
      /\ Len(recorded') = archived
  <2> DEFINE r == KeepFirst(recorded, archived)
  <2>1. /\ \A i \in 1..Len(r) : r[i] = recorded[i]
        /\ n <= archived => r = recorded
        /\ n > archived => Len(r) = archived
    BY <1>1, KeepFirstFacts
  <2>2. Len(r) = archived
    BY <1>1, <2>1
  <2>3. recorded' = r
    BY DEF ServerRestarts
  <2>4. QED BY <2>1, <2>2, <2>3
<1>6. ASSUME NEW i \in 1..n PROVE recorded[i][2] \in Recorded' \cup X
  <2>1. CASE i <= archived
    <3>1. i \in 1..Len(recorded')
      BY <1>1, <1>5, <2>1
    <3>2. recorded'[i] = recorded[i]
      BY <1>5, <3>1
    <3>3. recorded'[i][2] \in Recorded'
      BY <3>1 DEF Recorded
    <3>4. QED BY <3>2, <3>3
  <2>2. CASE i > archived
    <3>1. i \in S
      BY <1>1, <2>2
    <3>2. QED BY <3>1
  <2>3. QED BY <1>1, <2>1, <2>2
<1>7. Recorded \subseteq Recorded' \cup X
  BY <1>6 DEF Recorded
<1>8. QED BY <1>4, <1>7

LEMMA LossStep ==
  ASSUME TypeInv, SamplesInv, KeysInv, OrderInv, QueueInv, HandedInv, SameKeyInv, LossInv,
         [Next]_vars, ~PublishRefused
  PROVE  LossInv'
<1>1. /\ dropped \in Nat /\ crashed \in Nat /\ unsent \in Nat
      /\ origin \in Nat /\ offered \in Nat
      /\ client \in Seq(Envelopes) /\ handled \in 0..Len(client) /\ Len(client) \in Nat
      /\ buffer \in Seq(Nat) /\ Len(buffer) \in Nat
  BY DEF TypeInv
<1>2. IsFiniteSet({}) /\ Cardinality({}) = 0
  BY FS_EmptySet
<1>3. ASSUME Gone' \subseteq Gone, UNCHANGED <<dropped, unsent, crashed>> PROVE LossInv'
  <2>1. Gone' \subseteq Gone \cup {}
    BY <1>3
  <2>2. Cardinality(Gone') <= dropped + crashed + unsent + 0
    BY <1>2, <2>1, LossBound
  <2>3. QED BY <1>1, <1>3, <2>2 DEF LossInv
<1>4. ASSUME UNCHANGED <<offered, origin, buffer, flight, client, recorded>>,
             UNCHANGED <<dropped, unsent, crashed>>
      PROVE  LossInv'
  BY <1>4 DEF LossInv, Gone, Recorded
<1>5. CASE \/ Break \/ BreakNoticed \/ Connect \/ StrayLost \/ OthersRoute \/ Archive
           \/ UNCHANGED vars
  BY <1>4, <1>5 DEF Break, BreakNoticed, Connect, StrayLost, OthersRoute, Archive, vars,
                    agent, server, net
<1>6. CASE Acknowledged
  <2>1. /\ handled > 0 /\ client' = Tail(client)
        /\ UNCHANGED <<offered, origin, buffer, flight, recorded, dropped, unsent, crashed>>
    BY <1>6 DEF Acknowledged, agent, server
  <2>2. client # <<>>
    BY <1>1, <2>1
  <2>3. RowsOf(client) \subseteq Image(Head(client).rows) \cup RowsOf(client')
    BY <1>1, <2>1, <2>2, RowsOfFacts
  <2>4. Image(Head(client).rows) \subseteq Recorded
    <3>1. Head(client) \in Known /\ Head(client) = client[1]
      BY <1>1, <2>2, ImageTail DEF Known, Messages
    <3>2. 1 \in 1..handled
      BY <1>1, <2>1
    <3>3. Key(Head(client)) \in routed
      BY <3>1, <3>2 DEF HandedInv
    <3>4. QED BY <3>1, <3>3, HadRecorded DEF SameKeyInv
  <2>5. Recorded' = Recorded
    BY <2>1 DEF Recorded
  <2>6. Gone' \subseteq Gone
    BY <2>1, <2>3, <2>4, <2>5 DEF Gone
  <2>7. QED BY <1>3, <2>1, <2>6
<1>7. CASE Deliver \/ DeliverStray
  <2>1. PICK m \in Messages : m \in Envelopes /\ Route(m) /\ UNCHANGED <<agent, client>>
    BY <1>7, HandedOver
  <2>2. UNCHANGED <<offered, origin, buffer, flight, client, dropped, unsent>>
        /\ crashed' = crashed
    BY <2>1, RouteType DEF agent
  <2>3. Recorded \subseteq Recorded'
    <3>1. CASE Key(m) \in Image(recent)
      BY <2>1, <3>1, RouteFacts DEF server, Recorded
    <3>2. CASE Key(m) \notin Image(recent)
      BY <2>1, <3>2, RecordFacts
    <3>3. QED BY <3>1, <3>2
  <2>4. Gone' \subseteq Gone
    BY <2>2, <2>3 DEF Gone
  <2>5. QED BY <1>3, <2>2, <2>4
<1>8. CASE Offer
  <2>1. /\ offered' = offered + 1
        /\ dropped' = IF Len(buffer) = BufferMax THEN dropped + 1 ELSE dropped
        /\ UNCHANGED <<origin, unsent, flight, client, recorded, crashed>>
    BY <1>8 DEF Offer, net, server
  <2>2. /\ offered + 1 \in Image(buffer')
        /\ \A x \in Image(buffer) :
              x \in Image(buffer') \/ (Len(buffer) = BufferMax /\ x = buffer[1])
    BY <1>8, OfferFacts
  <2>3. Recorded' = Recorded
    BY <2>1 DEF Recorded
  <2>4. \A x \in origin + 1 .. offered' : x \in origin + 1 .. offered \/ x = offered + 1
    BY <1>1, <2>1
  <2>5. ASSUME NEW x \in Gone'
        PROVE  x \in Gone \/ (Len(buffer) = BufferMax /\ x = buffer[1])
    BY <2>1, <2>2, <2>3, <2>4 DEF Gone
  <2>6. CASE Len(buffer) = BufferMax
    <3>1. IsFiniteSet({buffer[1]}) /\ Cardinality({buffer[1]}) = 1
      BY FS_Singleton
    <3>2. Gone' \subseteq Gone \cup {buffer[1]}
      BY <2>5
    <3>3. Cardinality(Gone') <= dropped + crashed + unsent + 1
      BY <3>1, <3>2, LossBound
    <3>4. dropped' + crashed' + unsent' = dropped + crashed + unsent + 1
      BY <1>1, <2>1, <2>6
    <3>5. QED BY <3>3, <3>4 DEF LossInv
  <2>7. CASE Len(buffer) # BufferMax
    BY <1>3, <2>1, <2>5, <2>7
  <2>8. QED BY <2>6, <2>7
<1>9. CASE FlushTakes
  <2>1. /\ flight = Idle /\ flight'.left = Copies
        /\ UNCHANGED <<offered, origin, client, recorded, dropped, unsent, crashed>>
    BY <1>9 DEF FlushTakes, net, server
  <2>2. Image(buffer) = Image(flight'.rows) \cup Image(buffer')
    BY <1>9, FlushFacts
  <2>3. Image(flight.rows) = {} /\ Recorded' = Recorded
    BY <2>1 DEF Idle, Image, Recorded
  <2>4. Gone' \subseteq Gone
    BY <2>1, <2>2, <2>3 DEF Gone
  <2>5. QED BY <1>3, <2>1, <2>4
<1>e. CASE EncodeFails
  <2>1. /\ buffer' = Remaining /\ unsent' = unsent + Len(Batch)
        /\ UNCHANGED <<offered, origin, flight, client, recorded, dropped, crashed>>
    BY <1>e DEF EncodeFails, net, server
  <2>2. Image(buffer) = Image(Batch) \cup Image(Remaining) /\ Batch \in Seq(Nat)
    BY <1>e, TakeFacts
  <2>3. IsFiniteSet(Image(Batch)) /\ Cardinality(Image(Batch)) <= Len(Batch)
    BY <2>2, ImageSize
  <2>4. Recorded' = Recorded
    BY <2>1 DEF Recorded
  <2>5. Gone' \subseteq Gone \cup Image(Batch)
    BY <2>1, <2>2, <2>4 DEF Gone
  <2>6. Len(Batch) \in Nat
    BY <2>2
  <2>7. Cardinality(Gone') <= dropped + crashed + unsent + Len(Batch)
    BY <2>3, <2>5, <2>6, LossBound
  <2>8. dropped' + crashed' + unsent' = dropped + crashed + unsent + Len(Batch)
    BY <1>1, <2>1, <2>6
  <2>9. QED BY <2>7, <2>8 DEF LossInv
<1>10. CASE PublishAccepted
  <2>1. /\ client' = Append(client, Envelope) /\ flight'.rows = flight.rows
        /\ UNCHANGED <<offered, origin, buffer, recorded, dropped, unsent, crashed>>
    BY <1>10 DEF PublishAccepted, server, TypeInv
  <2>2. Envelope \in Envelopes /\ Envelope.rows = flight.rows
    BY EnvelopeType DEF Envelope
  <2>3. RowsOf(client') = RowsOf(client) \cup Image(flight.rows) /\ Recorded' = Recorded
    BY <1>1, <2>1, <2>2, RowsOfFacts DEF Recorded
  <2>4. Gone' \subseteq Gone
    BY <2>1, <2>3 DEF Gone
  <2>5. QED BY <1>3, <2>1, <2>4
<1>11. CASE FlushEnds
  <2>1. /\ flight.left # Copies
        /\ UNCHANGED <<offered, origin, buffer, client, recorded, dropped, unsent, crashed>>
    BY <1>11, UplinkAssumption DEF FlushEnds, SameKeyInv, net, server
  <2>2. Recorded' = Recorded
    BY <2>1 DEF Recorded
  <2>3. Gone' \subseteq Gone
    BY <2>1, <2>2 DEF Gone
  <2>4. QED BY <1>3, <2>1, <2>3
<1>12. CASE AgentRestarts
  <2>1. origin' = offered /\ offered' = offered /\ dropped' = 0 /\ unsent' = 0
        /\ crashed' = crashed
    BY <1>12 DEF AgentRestarts, server
  <2>2. origin' + 1 .. offered' = {}
    BY <1>1, <2>1
  <2>3. Gone' = {}
    BY <2>2 DEF Gone
  <2>4. QED BY <1>1, <1>2, <2>1, <2>3 DEF LossInv
<1>13. CASE ServerRestarts
  <2>1. /\ crashed' = crashed + Len(recorded) - archived
        /\ UNCHANGED <<offered, origin, buffer, flight, client, dropped, unsent>>
    BY <1>13 DEF ServerRestarts, agent
  <2>2. PICK X : /\ IsFiniteSet(X) /\ Cardinality(X) <= Len(recorded) - archived
                 /\ Recorded \subseteq Recorded' \cup X
    BY <1>13, CrashFacts
  <2>3. Gone' \subseteq Gone \cup X
    BY <2>1, <2>2 DEF Gone
  <2>4. Len(recorded) \in Nat /\ archived \in Nat /\ Len(recorded) - archived \in Nat
    BY DEF TypeInv
  <2>5. Cardinality(Gone') <= dropped + crashed + unsent + (Len(recorded) - archived)
    BY <2>2, <2>3, <2>4, LossBound
  <2>6. dropped' + crashed' + unsent' = dropped + crashed + unsent + (Len(recorded) - archived)
    BY <1>1, <2>1, <2>4
  <2>7. QED BY <2>5, <2>6 DEF LossInv
<1>14. QED BY <1>5, <1>6, <1>7, <1>8, <1>9, <1>e, <1>10, <1>11, <1>12, <1>13 DEF Next

LEMMA CountStep ==
  TypeInv /\ SamplesInv /\ KeysInv /\ OrderInv /\ QueueInv /\ PastInv /\ HandedInv
    /\ CountInv /\ [Next]_vars => CountInv'
<1> SUFFICES ASSUME TypeInv, SamplesInv, KeysInv, OrderInv, QueueInv, PastInv, HandedInv,
                    CountInv, [Next]_vars, ~refused'
             PROVE  SameKeyInv' /\ LossInv'
  BY DEF CountInv
<1>1. ~PublishRefused /\ SameKeyInv /\ LossInv
  BY RefusedKept DEF CountInv
<1>2. QED BY <1>1, SameKeyStep, LossStep

-----------------------------------------------------------------------------
(* Results *)

LEMMA InitIInv == Init => IInv
<1> SUFFICES ASSUME Init PROVE IInv
  OBVIOUS
<1>1. /\ TypeInv /\ SamplesInv /\ KeysInv /\ OrderInv /\ QueueInv /\ PastInv /\ HandedInv
  BY TypeInit, OrderInit
<1>2. Image(<<>>) = {} /\ 1..Len(<<>>) = {}
  BY DEF Image
<1>3. /\ buffer = <<>> /\ recorded = <<>> /\ recent = <<>> /\ flight = Idle
      /\ client = <<>> /\ stray = <<>> /\ origin = 0 /\ offered = 0 /\ Idle.ok
  BY DEF Init, Idle
<1>4. Messages = {} /\ Known = {} /\ routed = {} /\ Image(buffer) = {}
  BY <1>2, <1>3 DEF Messages, Known, Init
<1>5. \A b : Had(recorded, b) = {}
  BY <1>2, <1>3 DEF Had
<1>6. FreshInv
  BY <1>2, <1>3, <1>4, <1>5 DEF FreshInv, Below
<1>7. SameKeyInv
  BY <1>3, <1>4 DEF SameKeyInv
<1>8. LossInv
  <2>1. origin + 1 .. offered = {}
    BY <1>3
  <2>2. Gone = {}
    BY <2>1 DEF Gone
  <2>3. dropped = 0 /\ crashed = 0 /\ unsent = 0
    BY DEF Init
  <2>4. QED BY <2>2, <2>3, FS_EmptySet DEF LossInv
<1>9. WindowInv
  BY <1>4 DEF WindowInv
<1>10. QED BY <1>1, <1>6, <1>7, <1>8, <1>9 DEF IInv, OnceInv, CountInv

\* Every action of the agent, the network and the server keeps what the header
\* describes.
THEOREM InductiveInvariant == Safety => []IInv
<1>1. Init => IInv
  BY InitIInv
<1>2. IInv /\ [Next]_vars => IInv'
  <2> SUFFICES ASSUME IInv, [Next]_vars PROVE IInv'
    OBVIOUS
  <2>1. /\ TypeInv /\ SamplesInv /\ KeysInv /\ OrderInv /\ QueueInv /\ PastInv /\ HandedInv
        /\ WindowInv /\ OnceInv /\ CountInv
    BY DEF IInv
  <2>2. TypeInv'
    BY <2>1, TypeStep
  <2>3. SamplesInv' /\ KeysInv' /\ OrderInv'
    BY <2>1, OrderStep
  <2>4. QueueInv' /\ PastInv' /\ HandedInv'
    BY <2>1, QueueStep, PastStep, HandedStep
  <2>5. WindowInv' /\ OnceInv' /\ CountInv'
    BY <2>1, WindowStep, OnceStep, CountStep
  <2>6. QED BY <2>2, <2>3, <2>4, <2>5 DEF IInv
<1>3. QED BY <1>1, <1>2, PTL DEF Safety

\* Whatever is published twice, sent again after a break, read from an abandoned
\* socket or taken back when a publish is refused, _apply_samples() hands a sample
\* to on_raw once, and a run's samples in order, until the server is restarted; as soon as
\* its window has lost a number that may still arrive, what it hands over out of order it
\* has handed over before, unless a publish was refused as well.
THEOREM RecordedOnce == Spec => []RecordedOnceInOrder
<1>1. IInv => RecordedOnceInOrder
  BY DEF IInv, OnceInv, FreshInv, RecordedOnceInOrder
<1>2. QED BY <1>1, InductiveInvariant, PTL DEF Spec

\* Until a publish is refused, what is neither held nor recorded is covered by
\* dropped_buffer, by the batches that could not be encoded and by what a dying server
\* held in memory.
THEOREM LossIsCounted == Spec => []LossCounted
<1>1. ASSUME IInv PROVE LossCounted
  <2> SUFFICES ASSUME ~refused PROVE Cardinality(Lost) <= dropped + crashed + unsent
    BY DEF LossCounted
  <2>1. TypeInv /\ LossInv
    BY <1>1 DEF IInv, CountInv
  <2>2. Lost \subseteq Gone \cup {}
    BY DEF Lost, Pending, Gone
  <2>3. IsFiniteSet({}) /\ Cardinality({}) = 0
    BY FS_EmptySet
  <2>4. Cardinality(Lost) <= dropped + crashed + unsent + 0
    BY <2>1, <2>2, <2>3, LossBound
  <2>5. QED BY <2>1, <2>4 DEF TypeInv
<1>2. QED BY <1>1, InductiveInvariant, PTL DEF Spec

-----------------------------------------------------------------------------
(* What the vehicle has to deliver *)

LEMMA NoSamples == Image(<<>>) = {} /\ RowsOf(<<>>) = {}
BY DEF Image, RowsOf

LEMMA DeliveryInit == Init => Delivery!Init
<1> SUFFICES ASSUME Init PROVE Delivery!Init
  OBVIOUS
<1>1. /\ buffer = <<>> /\ client = <<>> /\ flight = Idle
      /\ offered = 0 /\ boot = 1 /\ dropped = 0 /\ unsent = 0
      /\ refused = FALSE /\ forgot = FALSE /\ recorded = <<>> /\ archived = 0 /\ crashed = 0 /\ restarted = FALSE
  BY DEF Init
<1>2. Held = {}
  BY <1>1, NoSamples DEF Held, Idle
<1>3. QED BY <1>1, <1>2 DEF Delivery!Init

\* A sample is offered, and held; a full buffer discards its oldest.
LEMMA OfferAccepts == ASSUME TypeInv, SamplesInv, Offer PROVE Delivery!Accept
<1>1. /\ offered' = offered + 1
      /\ dropped' = IF Len(buffer) = BufferMax THEN dropped + 1 ELSE dropped
      /\ UNCHANGED <<boot, unsent, flight, client, refused>>
      /\ UNCHANGED <<recorded, archived, crashed, forgot, restarted>>
  BY DEF Offer, net, server, past
<1>2. /\ Image(buffer') \subseteq Image(buffer) \cup {offered + 1}
      /\ offered + 1 \in Image(buffer')
      /\ \A x \in Image(buffer) :
           x \in Image(buffer') \/ (Len(buffer) = BufferMax /\ x = buffer[1])
  BY OfferFacts
<1>3. Held' \subseteq Held \cup {offered'} /\ offered' \in Held'
  BY <1>1, <1>2 DEF Held
<1>4. \A x \in Held \ Held' : Len(buffer) = BufferMax /\ x = buffer[1]
  BY <1>1, <1>2 DEF Held
<1>5. /\ dropped' \in {dropped, dropped + 1}
      /\ dropped' = dropped => Held \subseteq Held'
  <2>1. CASE Len(buffer) = BufferMax
    <3>1. dropped' = dropped + 1 /\ dropped \in Nat
      BY <1>1, <2>1 DEF TypeInv
    <3>2. dropped' # dropped
      BY <3>1
    <3>3. QED BY <3>1, <3>2
  <2>2. CASE Len(buffer) # BufferMax
    <3>1. Held \subseteq Held'
      BY <1>4, <2>2
    <3>2. QED BY <1>1, <2>2, <3>1
  <2>3. QED BY <2>1, <2>2
<1>6. \A x, y \in Held \ Held' : x = y
  BY <1>4
<1>7. QED BY <1>1, <1>3, <1>5, <1>6 DEF Delivery!Accept, Delivery!server

\* A batch taken from the buffer is the agent's until its copies are published, and the
\* client's from the first copy on.
LEMMA HeldInFlight ==
  ASSUME TypeInv, SamplesInv, FlushTakes \/ PublishAccepted \/ PublishRefused
  PROVE  Held' = Held
<1>1. CASE FlushTakes
  <2>1. /\ flight = Idle /\ flight'.left = Copies /\ UNCHANGED client
    BY <1>1 DEF FlushTakes, net
  <2>2. Image(buffer) = Image(flight'.rows) \cup Image(buffer')
    BY <1>1, FlushFacts
  <2>3. flight.left = 0 /\ flight.ok /\ flight'.left > 0
    BY <2>1, UplinkAssumption DEF Idle
  <2>4. QED BY <2>1, <2>2, <2>3 DEF Held
<1>2. CASE PublishAccepted \/ PublishRefused
  <2>1. /\ flight.left > 0 /\ flight'.rows = flight.rows /\ UNCHANGED buffer
        /\ client' \in {client, Append(client, Envelope)}
        /\ client' = Append(client, Envelope) \/ ~flight'.ok
    BY <1>2 DEF PublishAccepted, PublishRefused, TypeInv
  <2>2. Envelope \in Envelopes /\ Envelope.rows = flight.rows /\ client \in Seq(Envelopes)
    BY EnvelopeType DEF Envelope, TypeInv
  <2>3. RowsOf(Append(client, Envelope)) = RowsOf(client) \cup Image(flight.rows)
    BY <2>2, RowsOfFacts
  <2>4. Held = Image(buffer) \cup RowsOf(client) \cup Image(flight.rows)
    BY <2>1 DEF Held
  <2>5. Held' = Image(buffer) \cup RowsOf(client) \cup Image(flight.rows)
    BY <2>1, <2>3 DEF Held
  <2>6. QED BY <2>4, <2>5
<1>3. QED BY <1>1, <1>2

\* A batch is let go when every copy was taken, and is in the client then; a refused one
\* is put back, and what the buffer has no room for is let go.
LEMMA EndLetsGo ==
  ASSUME TypeInv, SamplesInv, CountInv, FlushEnds
  PROVE  Delivery!LetGo
<1>1. /\ flight.left = 0 /\ flight' = Idle /\ client' = client
      /\ UNCHANGED <<offered, boot, dropped, unsent, refused>>
      /\ UNCHANGED <<recorded, archived, crashed, forgot, restarted>>
  BY DEF FlushEnds, net, server, past
<1>2. Held' = Image(buffer') \cup RowsOf(client)
  BY <1>1 DEF Held, Idle
<1>3. CASE flight.ok
  <2>1. Held' = Held
    BY <1>1, <1>2, <1>3 DEF FlushEnds, Held
  <2>2. QED BY <1>1, <2>1 DEF Delivery!LetGo, Delivery!server
<1>4. CASE ~flight.ok
  <2>1. refused
    BY <1>4 DEF CountInv, SameKeyInv
  <2>2. Image(buffer') \subseteq Image(flight.rows) \cup Image(buffer)
    BY <1>4, PutBackFacts
  <2>3. Held' \subseteq Held
    BY <1>2, <1>4, <2>2 DEF Held
  <2>4. QED BY <1>1, <2>1, <2>3 DEF Delivery!LetGo, Delivery!server
<1>5. QED BY <1>3, <1>4

\* What is acknowledged has been handed over, and is recorded under its number unless a
\* refused batch had that number before.
LEMMA AcknowledgedLetsGo ==
  ASSUME TypeInv, HandedInv, CountInv, Acknowledged
  PROVE  Delivery!LetGo
<1>1. /\ handled > 0 /\ client' = Tail(client)
      /\ UNCHANGED <<offered, boot, dropped, unsent, buffer, flight, refused>>
      /\ UNCHANGED <<recorded, archived, crashed, forgot, restarted>>
  BY DEF Acknowledged, agent, server, past
<1>2. client \in Seq(Envelopes) /\ handled \in 0..Len(client) /\ Len(client) \in Nat
  BY DEF TypeInv
<1>3. client # <<>>
  BY <1>1, <1>2
<1>4. /\ RowsOf(client) \subseteq Image(Head(client).rows) \cup RowsOf(client')
      /\ RowsOf(client') \subseteq RowsOf(client)
  <2>1. RowsOf(client) \subseteq Image(Head(client).rows) \cup RowsOf(client')
    BY <1>1, <1>2, <1>3, RowsOfFacts
  <2>2. Image(client') \subseteq Image(client)
    BY <1>1, <1>2, <1>3, ImageTail
  <2>3. RowsOf(client) = UNION {Image(m.rows) : m \in Image(client)}
    BY DEF RowsOf, Image
  <2>4. RowsOf(client') = UNION {Image(m.rows) : m \in Image(client')}
    BY DEF RowsOf, Image
  <2>5. QED BY <2>1, <2>2, <2>3, <2>4
<1>5. Held' \subseteq Held /\ \A x \in Held \ Held' : x \in Image(Head(client).rows)
  BY <1>1, <1>4 DEF Held
<1>6. ASSUME ~refused PROVE Image(Head(client).rows) \subseteq Recorded
  <2>1. Head(client) \in Known /\ Head(client) = client[1]
    BY <1>2, <1>3, ImageTail DEF Known, Messages
  <2>2. 1 \in 1..handled
    BY <1>1, <1>2
  <2>3. Key(Head(client)) \in routed
    BY <2>1, <2>2 DEF HandedInv
  <2>4. QED BY <1>6, <2>1, <2>3, HadRecorded DEF CountInv, SameKeyInv
<1>7. refused \/ \A x \in Held \ Held' : \E i \in 1..Len(recorded) : recorded[i][2] = x
  BY <1>5, <1>6 DEF Recorded
<1>8. QED BY <1>1, <1>5, <1>7 DEF Delivery!LetGo, Delivery!server

\* Samples of which no message can be made are counted.
LEMMA EncodeDiscards ==
  ASSUME TypeInv, SamplesInv, EncodeFails
  PROVE  Delivery!Discard
<1>1. /\ buffer' = Remaining /\ unsent' = unsent + Len(Batch) /\ unsent \in Nat
      /\ UNCHANGED <<offered, boot, dropped, flight, client, refused>>
      /\ UNCHANGED <<recorded, archived, crashed, forgot, restarted>>
  BY DEF EncodeFails, net, server, TypeInv
<1>2. Image(buffer) = Image(Batch) \cup Image(Remaining) /\ Batch \in Seq(Nat)
  BY TakeFacts
<1>3. Held' \subseteq Held /\ Held \ Held' \subseteq Image(Batch)
  BY <1>1, <1>2 DEF Held
<1>4. IsFiniteSet(Image(Batch)) /\ Cardinality(Image(Batch)) <= Len(Batch)
  BY <1>2, ImageSize
<1>5. /\ Cardinality(Held \ Held') <= Cardinality(Image(Batch))
      /\ Cardinality(Held \ Held') \in Nat /\ Cardinality(Image(Batch)) \in Nat
  BY <1>3, <1>4, FS_Subset, FS_CardinalityType
<1>6. Cardinality(Held \ Held') + unsent <= unsent'
  <2>1. Len(Batch) \in Nat
    BY <1>2
  <2>2. QED BY <1>1, <1>4, <1>5, <2>1
<1>7. Delivery!Cardinality(Held \ Held') = Cardinality(Held \ Held')
  BY DEF Delivery!Cardinality, Cardinality
<1>8. QED BY <1>1, <1>3, <1>6, <1>7 DEF Delivery!Discard, Delivery!server

\* A window that loses a number stores nothing.
LEMMA OthersStore ==
  ASSUME TypeInv, OthersRoute
  PROVE  Delivery!Store
<1>1. /\ UNCHANGED <<offered, boot, dropped, unsent, buffer, flight, client, refused>>
      /\ UNCHANGED <<recorded, archived, crashed, restarted>> /\ Evicts
  BY DEF OthersRoute, agent, net
<1>2. Held' = Held
  BY <1>1 DEF Held
<1>3. forgot => forgot'
  BY <1>1 DEF Evicts
<1>4. recorded \in Seq(Pairs) /\ Len(recorded) \in Nat
  BY DEF TypeInv
<1>5. SubSeq(recorded', 1, Len(recorded)) = recorded /\ Len(recorded) <= Len(recorded')
  <2>1. SubSeq(recorded, 1, Len(recorded)) = recorded
    BY <1>4, SubSeqFull
  <2>2. QED BY <1>1, <1>4, <2>1
<1>6. (Len(recorded) + 1)..Len(recorded') = {}
  BY <1>1, <1>4
<1>7. QED BY <1>1, <1>2, <1>3, <1>5, <1>6 DEF Delivery!Store, Delivery!vehicle

\* The router stores the samples of a message whose number is not in its window: of this
\* run of the agent only what the agent still holds, unless it has forgotten the number.
LEMMA RouterStores ==
  ASSUME TypeInv, SamplesInv, KeysInv, OrderInv, QueueInv, HandedInv, WindowInv, OnceInv,
         CountInv, Deliver \/ DeliverStray
  PROVE  Delivery!Store \/ UNCHANGED Delivery!vars
<1>1. PICK m \in Messages :
        m \in Envelopes /\ Route(m) /\ UNCHANGED <<agent, client, past>>
  BY HandedOver
<1>2. UNCHANGED <<offered, boot, dropped, unsent, buffer, flight, client, refused, restarted>>
  BY <1>1 DEF agent, past
<1>3. Held' = Held
  BY <1>2 DEF Held
<1>4. CASE Key(m) \in Image(recent)
  <2>1. UNCHANGED <<recorded, archived, crashed, forgot>>
    BY <1>1, <1>4, RouteFacts DEF server
  <2>2. QED BY <1>2, <1>3, <2>1 DEF Delivery!vars, Delivery!vehicle, Delivery!server
<1>5. CASE Key(m) \notin Image(recent)
  <2> DEFINE n == Len(recorded)
             k == Len(m.rows)
  <2>1. /\ Len(recorded') = n + k
        /\ \A i \in 1..n : recorded'[i] = recorded[i]
        /\ \A i \in 1..k : recorded'[n + i] = <<m.boot, m.rows[i]>>
    BY <1>1, <1>5, RouteFacts
  <2>2. UNCHANGED <<archived, crashed>>
    BY <1>1, <1>5 DEF Route
  <2>3. /\ recorded \in Seq(Pairs) /\ n \in Nat /\ m.rows \in Seq(Nat) /\ k \in Nat
        /\ m.boot \in Nat /\ boot \in Nat
    BY <1>1 DEF TypeInv, Envelopes
  <2>4. recorded' \in Seq(Pairs)
    BY <1>1, RouteType
  <2> HIDE DEF k
  <2>5. n <= Len(recorded') /\ SubSeq(recorded', 1, n) = recorded
    <3>1. n <= Len(recorded')
      BY <2>1, <2>3
    <3>2. /\ SubSeq(recorded', 1, n) \in Seq(Pairs) /\ Len(SubSeq(recorded', 1, n)) = n
          /\ \A i \in 1..n : SubSeq(recorded', 1, n)[i] = recorded'[i]
      <4>1. n \in 0..Len(recorded') /\ 0 \in 0..Len(recorded') /\ 0 + 1 = 1 /\ n - 0 = n
        BY <2>3, <2>4, <3>1
      <4>2. /\ SubSeq(recorded', 1, n) \in Seq(Pairs) /\ Len(SubSeq(recorded', 1, n)) = n
            /\ \A i \in 1..n : SubSeq(recorded', 1, n)[i] = recorded'[0 + i]
        BY <2>4, <4>1, PartFacts
      <4>3. \A i \in 1..n : 0 + i = i
        BY <2>3
      <4>4. QED BY <4>2, <4>3
    <3> DEFINE r == SubSeq(recorded', 1, n)
    <3>3. r \in Seq(Pairs) /\ Len(r) = Len(recorded)
          /\ \A i \in 1..Len(recorded) : r[i] = recorded[i]
      BY <2>1, <3>2
    <3> HIDE DEF r
    <3>4. r = recorded
      BY <2>3, <3>3, SeqEqual
    <3>5. QED BY <3>1, <3>4 DEF r
  <2>6. ASSUME NEW i \in (n + 1)..Len(recorded')
        PROVE  /\ recorded'[i][1] <= boot
               /\ \/ /\ forgot
                     /\ refused \/ \E j \in 1..(i - 1) : recorded'[j] = recorded'[i]
                  \/ /\ recorded'[i][1] = boot => recorded'[i][2] \in Held
                     /\ restarted \/ \A j \in 1..(i - 1) :
                          recorded'[j][1] = recorded'[i][1]
                            => recorded'[j][2] < recorded'[i][2]
    <3>1. i - n \in 1..k /\ n + (i - n) = i
      BY <2>1, <2>3
    <3>2. recorded'[i] = <<m.boot, m.rows[i - n]>> /\ m.rows[i - n] \in Image(m.rows)
      BY <2>1, <3>1 DEF k, Image
    <3>3. m.boot <= boot
      BY DEF KeysInv
    <3>4. CASE Key(m) \in routed
      <4>1. forgot /\ (refused \/ \E j \in 1..(i - 1) : recorded'[j] = recorded'[i])
        BY <1>1, <1>5, <3>4, AgainRecorded
      <4>2. QED BY <3>2, <3>3, <4>1
    <3>5. CASE Key(m) \notin routed
      <4>1. ASSUME m.boot = boot PROVE m.rows[i - n] \in Held
        <5>1. m \in Image(client)
          BY <3>5, <4>1 DEF HandedInv, Messages
        <5>2. PICK j \in 1..Len(client) : m = client[j]
          BY <5>1 DEF Image
        <5>3. Image(m.rows) \subseteq RowsOf(client)
          BY <5>2 DEF RowsOf
        <5>4. QED BY <3>2, <5>3 DEF Held
      <4>2. ASSUME ~restarted, NEW j \in 1..(i - 1), recorded'[j][1] = recorded'[i][1]
            PROVE  recorded'[j][2] < recorded'[i][2]
        <5>1. FreshInv
          BY <4>2 DEF OnceInv
        <5>2. QED BY <1>1, <3>5, <4>2, <5>1, NewInOrder
      <4>3. QED BY <3>2, <3>3, <4>1, <4>2
    <3>6. QED BY <3>4, <3>5
  <2>7. forgot => forgot'
    <3>1. Evicts
      BY <1>1, <1>5 DEF Route
    <3>2. QED BY <3>1 DEF Evicts
  <2>8. QED BY <1>2, <1>3, <2>2, <2>5, <2>6, <2>7 DEF Delivery!Store, Delivery!vehicle
<1>6. QED BY <1>4, <1>5

\* A server that dies forgets what it has not archived.
LEMMA RestartForgets == ASSUME TypeInv, ServerRestarts PROVE Delivery!ServerDies
<1>1. /\ recorded' = KeepFirst(recorded, archived) /\ restarted'
      /\ crashed' = crashed + Len(recorded) - archived
      /\ UNCHANGED <<offered, boot, dropped, unsent, buffer, flight, client, refused>>
      /\ UNCHANGED <<archived, forgot>>
  BY DEF ServerRestarts, agent
<1>2. Held' = Held
  BY <1>1 DEF Held
<1>3. recorded \in Seq(Pairs) /\ archived \in 0..Len(recorded) /\ Len(recorded) \in Nat
  BY DEF TypeInv
<1>4. recorded' = SubSeq(recorded, 1, archived)
  <2>1. CASE Len(recorded) <= archived
    <3>1. archived = Len(recorded)
      BY <1>3, <2>1
    <3>2. SubSeq(recorded, 1, Len(recorded)) = recorded
      BY <1>3, SubSeqFull
    <3>3. QED BY <1>1, <2>1, <3>1, <3>2 DEF KeepFirst
  <2>2. CASE ~(Len(recorded) <= archived)
    BY <1>1, <2>2 DEF KeepFirst
  <2>3. QED BY <2>1, <2>2
<1>5. QED BY <1>1, <1>2, <1>4 DEF Delivery!ServerDies, Delivery!vehicle

LEMMA DeliveryStep ==
  ASSUME IInv, [Next]_vars
  PROVE  [Delivery!Next]_Delivery!vars
<1> USE DEF Delivery!Next
<1>1. /\ TypeInv /\ SamplesInv /\ KeysInv /\ OrderInv /\ QueueInv /\ HandedInv
      /\ WindowInv /\ OnceInv /\ CountInv
  BY DEF IInv
<1>2. CASE Offer
  BY <1>1, <1>2, OfferAccepts
<1>3. CASE FlushTakes \/ PublishAccepted
  <2>1. /\ UNCHANGED <<offered, boot, dropped, unsent, refused>>
        /\ UNCHANGED <<recorded, archived, crashed, forgot, restarted>>
    BY <1>3 DEF FlushTakes, PublishAccepted, server, past
  <2>2. Held' = Held
    BY <1>1, <1>3, HeldInFlight
  <2>3. QED BY <2>1, <2>2 DEF Delivery!vars, Delivery!vehicle, Delivery!server
<1>4. CASE PublishRefused
  <2>1. /\ refused' /\ UNCHANGED <<offered, boot, dropped, unsent>>
        /\ UNCHANGED <<recorded, archived, crashed, forgot, restarted>>
    BY <1>4 DEF PublishRefused, server
  <2>2. Held' = Held
    BY <1>1, <1>4, HeldInFlight
  <2>3. Delivery!Refuse
    BY <2>1, <2>2 DEF Delivery!Refuse, Delivery!server
  <2>4. QED BY <2>3
<1>5. CASE FlushEnds
  BY <1>1, <1>5, EndLetsGo
<1>6. CASE AgentRestarts
  <2>1. /\ boot' = boot + 1 /\ dropped' = 0 /\ unsent' = 0
        /\ buffer' = <<>> /\ client' = <<>> /\ flight' = Idle
        /\ UNCHANGED <<offered, refused, recorded, archived, crashed, forgot, restarted>>
    BY <1>6 DEF AgentRestarts, server
  <2>2. Held' = {}
    BY <2>1, NoSamples DEF Held, Idle
  <2>3. Delivery!VehicleRestarts
    BY <2>1, <2>2 DEF Delivery!VehicleRestarts, Delivery!server
  <2>4. QED BY <2>3
<1>7. CASE Break \/ BreakNoticed \/ Connect \/ StrayLost \/ UNCHANGED vars
  <2>1. /\ UNCHANGED <<offered, boot, dropped, unsent, buffer, flight, client, refused>>
        /\ UNCHANGED <<recorded, archived, crashed, forgot, restarted>>
    BY <1>7 DEF Break, BreakNoticed, Connect, StrayLost, vars, agent, net, server, past
  <2>2. Held' = Held
    BY <2>1 DEF Held
  <2>3. QED BY <2>1, <2>2 DEF Delivery!vars, Delivery!vehicle, Delivery!server
<1>8. CASE Acknowledged
  BY <1>1, <1>8, AcknowledgedLetsGo
<1>9. CASE Deliver \/ DeliverStray
  BY <1>1, <1>9, RouterStores
<1>10. CASE Archive
  <2>1. /\ archived' = Len(recorded)
        /\ UNCHANGED <<offered, boot, dropped, unsent, buffer, flight, client, refused>>
        /\ UNCHANGED <<recorded, crashed, forgot, restarted>>
    BY <1>10 DEF Archive, agent, net, past
  <2>2. Held' = Held
    BY <2>1 DEF Held
  <2>3. Delivery!Secure
    BY <2>1, <2>2 DEF Delivery!Secure, Delivery!vehicle
  <2>4. QED BY <2>3
<1>11. CASE ServerRestarts
  BY <1>1, <1>11, RestartForgets
<1>12. CASE EncodeFails
  BY <1>1, <1>12, EncodeDiscards
<1>13. CASE OthersRoute
  BY <1>1, <1>13, OthersStore
<1>14. QED
  BY <1>2, <1>3, <1>4, <1>5, <1>6, <1>7, <1>8, <1>9, <1>10, <1>11, <1>12, <1>13 DEF Next

\* Every step of the agent, the network and the server is one that ReliableRelay allows:
\* what the agent lets go of is recorded, or was refused, or is counted; the server
\* records of this run nothing the agent does not hold, unless its window has lost a number
\* that may still arrive, and loses what it recorded only by dying.
THEOREM UplinkRelaysReliably == Safety => Delivery!Safety
<1>1. Init => Delivery!Init
  BY DeliveryInit
<1>2. IInv /\ [Next]_vars => [Delivery!Next]_Delivery!vars
  BY DeliveryStep
<1>3. QED BY <1>1, <1>2, InductiveInvariant, PTL DEF Safety, Delivery!Safety

-----------------------------------------------------------------------------
(* The recordings of a vehicle *)

Rec == INSTANCE Recording

LEMMA NaturalsWellFounded == IsWellFoundedOn({ss \in Nat \X Nat : ss[1] < ss[2]}, Nat)
BY NatLessThanWellFounded DEF OpToRel

LEMMA Smallest ==
  ASSUME NEW S, S \subseteq Nat, S # {}
  PROVE  \E m \in S : \A n \in S : m <= n
<1> DEFINE R == {ss \in Nat \X Nat : ss[1] < ss[2]}
<1>1. IsWellFoundedOn(R, Nat)
  BY NaturalsWellFounded
<1> HIDE DEF R
<1>2. PICK m \in S : \A n \in S : <<n, m>> \notin R
  BY <1>1, WFMin
<1>3. \A n \in S : ~(n < m)
  BY <1>2 DEF R
<1>4. QED BY <1>3

Sizes == Seq(0..RotateAt)

\* The sizes Recording speaks of.
LEMMA TotalAlike == ASSUME NEW s PROVE Rec!Total(s) = Total(s)
<1>1. Rec!Lines(s) = Lines(s)
  BY DEF Rec!Lines, Lines
<1>2. Rec!Cardinality(Lines(s)) = Cardinality(Lines(s))
  BY DEF Rec!Cardinality, Cardinality
<1>3. QED BY <1>1, <1>2 DEF Rec!Total, Total

LEMMA SizesType ==
  ASSUME NEW s \in Sizes
  PROVE  /\ Len(s) \in Nat /\ s \in [1..Len(s) -> 0..RotateAt]
         /\ \A i \in 1..Len(s) : s[i] \in 0..RotateAt
<1>1. s \in Seq(0..RotateAt)
  BY DEF Sizes
<1> DEFINE S == 0..RotateAt
<1> HIDE DEF S
<1>2. ASSUME s \in Seq(S)
      PROVE  /\ Len(s) \in Nat /\ s \in [1..Len(s) -> S]
             /\ \A i \in 1..Len(s) : s[i] \in S
  BY <1>2
<1>3. QED BY <1>1, <1>2 DEF S

LEMMA InLines ==
  ASSUME NEW s \in Sizes
  PROVE  /\ \A i \in 1..Len(s) : s[i] \in Nat /\ s[i] <= RotateAt
         /\ \A i \in 1..Len(s) : \A k \in 1..s[i] : <<i, k>> \in Lines(s)
         /\ \A u \in Lines(s) :
              u[1] \in 1..Len(s) /\ u[2] \in 1..s[u[1]] /\ u = <<u[1], u[2]>>
<1>1. \A i \in 1..Len(s) : s[i] \in 0..RotateAt
  BY SizesType
<1>2. QED BY <1>1, RecordingAssumption DEF Lines

LEMMA LinesFinite ==
  ASSUME NEW s \in Sizes
  PROVE  IsFiniteSet(Lines(s)) /\ Total(s) \in Nat
<1>1. Len(s) \in Nat
  BY SizesType
<1>2. Lines(s) \subseteq (1..Len(s)) \X (1..RotateAt)
  <2>1. SUFFICES ASSUME NEW u \in Lines(s) PROVE u \in (1..Len(s)) \X (1..RotateAt)
    OBVIOUS
  <2>2. u[1] \in 1..Len(s) /\ u[2] \in 1..s[u[1]] /\ u = <<u[1], u[2]>>
    BY InLines
  <2>3. s[u[1]] \in Nat /\ s[u[1]] <= RotateAt
    BY <2>2, InLines
  <2>4. u[2] \in 1..RotateAt
    BY <2>2, <2>3, RecordingAssumption
  <2>5. QED BY <2>2, <2>4
<1>3. IsFiniteSet(1..Len(s)) /\ IsFiniteSet(1..RotateAt)
  BY <1>1, FS_Interval, RecordingAssumption
<1>4. IsFiniteSet((1..Len(s)) \X (1..RotateAt))
  BY <1>3, FS_Product
<1>5. IsFiniteSet(Lines(s))
  BY <1>2, <1>4, FS_Subset
<1>6. QED BY <1>5, FS_CardinalityType DEF Total

\* A new file has no lines.
LEMMA FileAdded ==
  ASSUME NEW s \in Sizes
  PROVE  /\ Append(s, 0) \in Sizes /\ Len(Append(s, 0)) = Len(s) + 1
         /\ Append(s, 0)[Len(s) + 1] = 0
         /\ Total(Append(s, 0)) = Total(s)
<1> DEFINE n == Append(s, 0)
<1>1. Len(s) \in Nat
  BY SizesType
<1>2. n \in Sizes
  BY RecordingAssumption DEF Sizes
<1>3. /\ Len(n) = Len(s) + 1 /\ n[Len(s) + 1] = 0
      /\ \A i \in 1..Len(s) : n[i] = s[i]
  BY DEF Sizes
<1> HIDE DEF n
<1>4. ASSUME NEW u \in Lines(n) PROVE u \in Lines(s)
  <2>1. u[1] \in 1..Len(n) /\ u[2] \in 1..n[u[1]] /\ u = <<u[1], u[2]>>
    BY <1>2, InLines
  <2>2. u[1] # Len(s) + 1
    BY <1>3, <2>1
  <2>3. u[1] \in 1..Len(s)
    BY <1>1, <1>3, <2>1, <2>2
  <2>4. QED BY <1>3, <2>1, <2>3, InLines
<1>5. ASSUME NEW u \in Lines(s) PROVE u \in Lines(n)
  <2>1. u[1] \in 1..Len(s) /\ u[2] \in 1..s[u[1]] /\ u = <<u[1], u[2]>>
    BY InLines
  <2>2. u[1] \in 1..Len(n) /\ u[2] \in 1..n[u[1]]
    BY <1>1, <1>3, <2>1
  <2>3. QED BY <1>2, <2>1, <2>2, InLines
<1>6. Lines(n) = Lines(s)
  BY <1>4, <1>5
<1>7. Total(n) = Total(s)
  BY <1>6 DEF Total
<1>8. QED BY <1>2, <1>3, <1>7 DEF n

\* A line more in the last file.
LEMMA LineAdded ==
  ASSUME NEW s \in Sizes, Len(s) > 0, s[Len(s)] < RotateAt
  PROVE  LET l == [s EXCEPT ![Len(s)] = @ + 1]
         IN  /\ l \in Sizes /\ Len(l) = Len(s) /\ l[Len(s)] = s[Len(s)] + 1
             /\ Total(l) = Total(s) + 1
<1> DEFINE n == Len(s)
           l == [s EXCEPT ![n] = @ + 1]
           last == <<n, s[n] + 1>>
<1>1. n \in Nat \ {0} /\ n \in 1..n /\ s \in [1..n -> 0..RotateAt]
  BY SizesType
<1>2. s[n] \in Nat /\ s[n] < RotateAt /\ s[n] + 1 \in 0..RotateAt /\ s[n] + 1 \in 1..(s[n] + 1)
  BY <1>1, InLines, RecordingAssumption
<1>3. l \in [1..n -> 0..RotateAt]
  BY <1>1, <1>2
<1>4. l[n] = s[n] + 1 /\ \A i \in 1..n : i # n => l[i] = s[i]
  BY <1>1
<1> HIDE DEF l
<1>5. l \in Sizes /\ Len(l) = n
  <2> DEFINE S == 0..RotateAt
  <2> HIDE DEF S
  <2>1. ASSUME l \in [1..n -> S] PROVE l \in Seq(S) /\ Len(l) = n
    BY <1>1, <2>1
  <2>2. QED BY <1>3, <2>1 DEF S, Sizes
<1>6. last \notin Lines(s)
  <2>1. SUFFICES ASSUME last \in Lines(s) PROVE FALSE
    OBVIOUS
  <2>2. last[1] = n /\ last[2] = s[n] + 1
    OBVIOUS
  <2>3. s[n] + 1 \in 1..s[n]
    BY <2>1, <2>2, InLines
  <2>4. QED BY <1>2, <2>3
<1>7. ASSUME NEW u \in Lines(l) PROVE u \in Lines(s) \cup {last}
  <2>1. u[1] \in 1..n /\ u[2] \in 1..l[u[1]] /\ u = <<u[1], u[2]>>
    BY <1>5, InLines
  <2>2. CASE u[1] = n /\ u[2] = s[n] + 1
    BY <2>1, <2>2
  <2>3. CASE ~(u[1] = n /\ u[2] = s[n] + 1)
    <3>1. u[2] \in 1..s[u[1]]
      BY <1>2, <1>4, <2>1, <2>3
    <3>2. QED BY <2>1, <3>1, InLines
  <2>4. QED BY <2>2, <2>3
<1>8. ASSUME NEW u \in Lines(s) PROVE u \in Lines(l)
  <2>1. u[1] \in 1..n /\ u[2] \in 1..s[u[1]] /\ u = <<u[1], u[2]>>
    BY InLines
  <2>2. u[2] \in 1..l[u[1]]
    BY <1>2, <1>4, <2>1
  <2>3. QED BY <1>5, <2>1, <2>2, InLines
<1>9. last \in Lines(l)
  <2>1. s[n] + 1 \in 1..l[n]
    BY <1>2, <1>4
  <2>2. QED BY <1>1, <1>5, <2>1, InLines
<1>10. Lines(l) = Lines(s) \cup {last}
  BY <1>7, <1>8, <1>9
<1>11. Cardinality(Lines(l)) = Cardinality(Lines(s)) + 1
  <2>1. IsFiniteSet(Lines(s))
    BY LinesFinite
  <2> HIDE DEF last
  <2>2. QED BY <1>6, <1>10, <2>1, FS_AddElement
<1>12. QED BY <1>4, <1>5, <1>11 DEF Total, l

\* The loop of _prune() ends, at the latest with an empty directory.
LEMMA PrunedFits ==
  ASSUME NEW s \in Sizes
  PROVE  /\ Rec!Pruned(s) \in Sizes /\ Len(Rec!Pruned(s)) <= Len(s)
         /\ Total(Rec!Pruned(s)) <= MaxSize
<1> DEFINE tail(i) == SubSeq(s, i, Len(s))
           Fit == {i \in 1..(Len(s) + 1) : Total(tail(i)) <= MaxSize}
           P(i) == /\ Total(tail(i)) <= MaxSize
                   /\ \A j \in 1..(i - 1) : Total(tail(j)) > MaxSize
<1>1. Len(s) \in Nat
  BY SizesType
<1>2. ASSUME NEW i \in 1..(Len(s) + 1)
      PROVE  tail(i) \in Sizes /\ Len(tail(i)) <= Len(s) /\ Total(tail(i)) \in Nat
  <2>1. \A k \in i..Len(s) : s[k] \in 0..RotateAt
    BY <1>1, SizesType
  <2>2. /\ tail(i) \in Seq(0..RotateAt)
        /\ Len(tail(i)) = IF i <= Len(s) THEN Len(s) - i + 1 ELSE 0
    BY <1>1, <2>1, SubSeqProperties
  <2>3. tail(i) \in Sizes
    BY <2>2 DEF Sizes
  <2>4. Len(tail(i)) <= Len(s)
    <3> HIDE DEF tail
    <3>1. QED BY <1>1, <2>2
  <2>5. Total(tail(i)) \in Nat
    BY <2>3, LinesFinite
  <2>6. QED BY <2>3, <2>4, <2>5
<1>3. Len(s) + 1 \in Fit
  <2>1. tail(Len(s) + 1) = << >>
    BY <1>1, SubSeqEmpty
  <2>2. Lines(<< >>) = {}
    BY DEF Lines
  <2>3. Total(tail(Len(s) + 1)) = 0
    BY <2>1, <2>2, FS_EmptySet DEF Total
  <2>4. QED BY <1>1, <2>3, RecordingAssumption
<1>4. PICK m \in Fit : \A n \in Fit : m <= n
  <2>1. Fit \subseteq Nat
    BY <1>1
  <2> HIDE DEF Fit
  <2>2. QED BY <1>3, <2>1, Smallest
<1>5. m \in 1..(Len(s) + 1) /\ P(m)
  <2>1. ASSUME NEW j \in 1..(m - 1) PROVE Total(tail(j)) > MaxSize
    <3>1. j \in 1..(Len(s) + 1) /\ ~(m <= j)
      BY <1>1, <1>4
    <3>2. j \notin Fit
      BY <1>4, <3>1
    <3>3. Total(tail(j)) \in Nat
      BY <1>2, <3>1
    <3>4. ~(Total(tail(j)) <= MaxSize)
      BY <3>1, <3>2
    <3> HIDE DEF tail
    <3>5. QED BY <3>3, <3>4, RecordingAssumption
  <2>2. m \in 1..(Len(s) + 1) /\ Total(tail(m)) <= MaxSize
    BY <1>4
  <2>3. QED BY <2>1, <2>2
<1> DEFINE Q(i) == /\ Rec!Total(tail(i)) <= MaxSize
                   /\ \A j \in 1..(i - 1) : Rec!Total(tail(j)) > MaxSize
           c == CHOOSE i \in 1..(Len(s) + 1) : Q(i)
<1>6. c \in 1..(Len(s) + 1) /\ Total(tail(c)) <= MaxSize
  <2>1. Q(m)
    BY <1>5, TotalAlike
  <2> HIDE DEF Q, P
  <2>2. c \in 1..(Len(s) + 1) /\ Q(c)
    BY <1>5, <2>1
  <2>3. QED BY <2>2, TotalAlike DEF Q
<1>7. Rec!Pruned(s) = tail(c)
  BY DEF Rec!Pruned
<1> HIDE DEF c, tail
<1>8. QED BY <1>2, <1>6, <1>7

RosTypes ==
  /\ phase \in {"up", "joining", "stopped", "off"}
  /\ spinning \in BOOLEAN /\ listed \subseteq Topics
  /\ scan \in [Threads -> SUBSET Topics]
  /\ pubs \in [Topics -> SUBSET Offered]
  /\ seen \in [Topics -> SUBSET SUBSET Offered]
  /\ at \in [Threads -> Looked \cup {None}]
  /\ subs \in [Topics -> Seq(Profiles)] /\ \A t \in Topics : Len(subs[t]) <= 2

RosInv == RosTypes /\ Rec!SubsInv /\ Rec!QosInv

FileTypes ==
  /\ files \in Sizes /\ Len(files) <= MaxFiles
  /\ writing \in BOOLEAN /\ disabled \in BOOLEAN /\ found \in Nat

FileInv == FileTypes /\ Rec!FilesInv

LEMMA RecInv == Rec!IInv <=> RosInv /\ FileInv
BY DEF Rec!IInv, RosInv, FileInv, Rec!TypeOK, RosTypes, FileTypes, Sizes, Rec!Threads,
       Threads, Rec!Looked, Looked, Rec!None, None, Rec!Profiles, Profiles

LEMMA MatchType ==
  ASSUME NEW offers \in SUBSET Profiles, NEW q \in Rec!MatchQos(offers)
  PROVE  q \in Profiles
<1>1. \A p \in offers : p.lasting \in BOOLEAN
  BY DEF Profiles
<1>2. PICK l \in IF offers = {} THEN {FALSE} ELSE {p.lasting : p \in offers} :
        q = [reliable |-> \A p \in offers : p.reliable, lasting |-> l]
  BY DEF Rec!MatchQos
<1>3. l \in BOOLEAN
  BY <1>1
<1>4. (\A p \in offers : p.reliable) \in BOOLEAN
  OBVIOUS
<1>5. QED BY <1>2, <1>3, <1>4 DEF Profiles

\* What a thread has in hand is a topic, a QoS and what was seen for it.
LEMMA InHand ==
  ASSUME RosTypes, NEW th \in Threads, at[th] # None
  PROVE  at[th][1] \in Topics /\ at[th][2] \in Profiles /\ at[th][3] \in SUBSET Offered
BY DEF RosTypes, Looked

\* The graph changes under a topic.
LEMMA GraphStep ==
  ASSUME RosInv, NEW t \in Topics, Rec!GraphChanges(t)
  PROVE  RosInv'
<1>1. PICK offers \in SUBSET Offered :
        /\ pubs' = [pubs EXCEPT ![t] = offers]
        /\ listed' \in {listed \cup {t}} \cup IF offers = {} THEN {listed \ {t}} ELSE {}
  BY DEF Rec!GraphChanges
<1>2. /\ phase' = phase /\ spinning' = spinning /\ scan' = scan /\ at' = at
      /\ subs' = subs /\ seen' = seen
  BY DEF Rec!GraphChanges
<1>3. RosTypes
  BY DEF RosInv
<1>4. pubs' \in [Topics -> SUBSET Offered] /\ listed' \subseteq Topics
  BY <1>1, <1>3 DEF RosTypes
<1>5. RosTypes'
  BY <1>2, <1>3, <1>4 DEF RosTypes
<1>6. Rec!SubsInv' /\ Rec!QosInv'
  BY <1>2 DEF RosInv, Rec!SubsInv, Rec!QosInv, Rec!Looking
<1>7. QED BY <1>5, <1>6 DEF RosInv

\* A thread looks at a topic that is due: it has no subscription.
LEMMA LookStep ==
  ASSUME RosInv, NEW th \in Threads, NEW t \in Topics, Rec!Looks(th, t)
  PROVE  RosInv'
<1>1. /\ RosTypes /\ at[th] = None /\ t \in scan[th]
      /\ scan' = [scan EXCEPT ![th] = @ \ {t}]
      /\ phase' = phase /\ spinning' = spinning /\ listed' = listed /\ pubs' = pubs
      /\ seen' = seen /\ subs' = subs
  BY DEF RosInv, Rec!Looks, Rec!graph, Rec!None, None
<1>2. scan' \in [Threads -> SUBSET Topics]
  BY <1>1 DEF RosTypes
<1>3. CASE at' = at
  <2>1. RosTypes'
    BY <1>1, <1>2, <1>3 DEF RosTypes
  <2>2. Rec!SubsInv' /\ Rec!QosInv'
    BY <1>1, <1>3 DEF RosInv, Rec!SubsInv, Rec!QosInv, Rec!Looking
  <2>3. QED BY <2>1, <2>2 DEF RosInv
<1>4. CASE at' # at
  <2>1. PICK offers \in {pubs[t], {}} : \E q \in Rec!MatchQos(offers) :
          at' = [at EXCEPT ![th] = <<t, q, offers>>]
    BY <1>4 DEF Rec!Looks
  <2>10. PICK q \in Rec!MatchQos(offers) : at' = [at EXCEPT ![th] = <<t, q, offers>>]
    BY <2>1
  <2>11. offers \in SUBSET Offered
    BY <1>1, <2>1 DEF RosTypes
  <2>2. subs[t] = <<>>
    BY <1>4 DEF Rec!Looks, Rec!Due
  <2>3. q \in Profiles
    <3>1. offers \in SUBSET Profiles
      BY <2>11, RecordingAssumption
    <3>2. QED BY <2>10, <3>1, MatchType
  <2>4. at' \in [Threads -> Looked \cup {None}]
    BY <1>1, <2>10, <2>3, <2>11 DEF RosTypes, Looked
  <2>5. RosTypes'
    BY <1>1, <1>2, <2>4 DEF RosTypes
  <2>6. ASSUME NEW o \in Threads, NEW x \in Topics, Rec!Looking(o, x)'
        PROVE  \/ Rec!Looking(o, x) /\ at'[o] = at[o]
               \/ o = th /\ x = t
    <3>1. at'[o] # None /\ at'[o][1] = x
      BY <2>6 DEF Rec!Looking, Rec!None, None
    <3>2. CASE o = th
      <4>1. at'[o] = <<t, q, offers>>
        BY <1>1, <2>10, <3>2 DEF RosTypes
      <4>2. QED BY <3>1, <3>2, <4>1
    <3>3. CASE o # th
      <4>1. at'[o] = at[o]
        BY <1>1, <2>10, <3>3 DEF RosTypes
      <4>2. QED BY <3>1, <4>1 DEF Rec!Looking, Rec!None, None
    <3>4. QED BY <3>2, <3>3
  <2>7. Rec!SubsInv'
    <3>1. SUFFICES ASSUME NEW x \in Topics
                   PROVE  /\ Len(subs[x]) = 1 => \E o \in Threads : ~Rec!Looking(o, x)'
                          /\ Len(subs[x]) = 2 => \A o \in Threads : ~Rec!Looking(o, x)'
      BY <1>1 DEF Rec!SubsInv, Rec!Looking, Rec!Threads, Threads
    <3>2. /\ Len(subs[x]) = 1 => \E o \in Threads : ~Rec!Looking(o, x)
          /\ Len(subs[x]) = 2 => \A o \in Threads : ~Rec!Looking(o, x)
      BY DEF RosInv, Rec!SubsInv, Rec!Threads, Threads
    <3>3. x = t => Len(subs[x]) = 0
      BY <2>2
    <3>4. QED BY <2>6, <3>2, <3>3
  <2>8. Rec!QosInv'
    <3>1. ASSUME NEW o \in Threads, at'[o] # None
          PROVE  at'[o][2] \in Rec!MatchQos(at'[o][3])
      <4>1. CASE o = th
        <5>1. at'[o] = <<t, q, offers>>
          BY <1>1, <2>10, <4>1 DEF RosTypes
        <5>2. QED BY <2>10, <5>1
      <4>2. CASE o # th
        <5>1. at'[o] = at[o]
          BY <1>1, <2>10, <4>2 DEF RosTypes
        <5>2. QED
          BY <3>1, <5>1 DEF RosInv, Rec!QosInv, Rec!Threads, Threads, Rec!None, None
      <4>3. QED BY <4>1, <4>2
    <3>2. QED
      BY <1>1, <3>1 DEF RosInv, Rec!QosInv, Rec!Threads, Threads, Rec!None, None
  <2>9. QED BY <2>5, <2>7, <2>8 DEF RosInv
<1>5. QED BY <1>3, <1>4

\* A thread lets go of what it had in hand.
LEMMA LetGo ==
  ASSUME RosTypes, NEW th \in Threads, at' = [at EXCEPT ![th] = Rec!None]
  PROVE  /\ at' \in [Threads -> Looked \cup {None}]
         /\ \A o \in Threads : \A x \in Topics :
              Rec!Looking(o, x)' <=> o # th /\ Rec!Looking(o, x)
         /\ \A o \in Threads \ {th} : at'[o] = at[o]
<1>1. at'[th] = None /\ \A o \in Threads \ {th} : at'[o] = at[o]
  BY DEF RosTypes, Rec!None, None
<1>2. at' \in [Threads -> Looked \cup {None}]
  BY DEF RosTypes, Rec!None, None
<1>3. ASSUME NEW o \in Threads, NEW x \in Topics
      PROVE  Rec!Looking(o, x)' <=> o # th /\ Rec!Looking(o, x)
  BY <1>1 DEF Rec!Looking, Rec!None, None
<1>4. QED BY <1>1, <1>2, <1>3

LEMMA SubscribeStep ==
  ASSUME RosInv, NEW th \in Threads, Rec!Subscribes(th)
  PROVE  RosInv'
<1> DEFINE t == at[th][1]
           q == at[th][2]
           offers == at[th][3]
<1>1. /\ RosTypes /\ at[th] # None
      /\ subs' = [subs EXCEPT ![t] = Append(@, q)]
      /\ seen' = [seen EXCEPT ![t] = @ \cup {offers}]
      /\ at' = [at EXCEPT ![th] = Rec!None]
      /\ phase' = phase /\ spinning' = spinning /\ listed' = listed /\ pubs' = pubs
      /\ scan' = scan
  BY DEF RosInv, Rec!Subscribes, Rec!graph, Rec!None, None
<1>2. t \in Topics /\ q \in Profiles /\ offers \in SUBSET Offered
  BY <1>1, InHand
<1>12. q \in Rec!MatchQos(offers)
  BY <1>1 DEF RosInv, Rec!QosInv, Rec!Threads, Threads, Rec!None, None
<1>3. Rec!Looking(th, t)
  BY <1>1 DEF Rec!Looking, Rec!None, None
<1> HIDE DEF t, q, offers
<1>4. /\ at' \in [Threads -> Looked \cup {None}]
      /\ \A o \in Threads : \A x \in Topics :
           Rec!Looking(o, x)' <=> o # th /\ Rec!Looking(o, x)
      /\ \A o \in Threads \ {th} : at'[o] = at[o]
  BY <1>1, LetGo
<1>5. /\ subs[t] \in Seq(Profiles) /\ Len(subs[t]) \in Nat /\ Len(subs[t]) <= 2
      /\ subs'[t] = Append(subs[t], q)
      /\ \A x \in Topics : x # t => subs'[x] = subs[x]
  BY <1>1, <1>2 DEF RosTypes
<1>6. /\ subs'[t] \in Seq(Profiles) /\ Len(subs'[t]) = Len(subs[t]) + 1
      /\ DOMAIN subs'[t] = 1..(Len(subs[t]) + 1) /\ DOMAIN subs[t] = 1..Len(subs[t])
      /\ subs'[t][Len(subs[t]) + 1] = q
      /\ \A i \in 1..Len(subs[t]) : subs'[t][i] = subs[t][i]
  BY <1>2, <1>5
<1>7. /\ Len(subs[t]) = 1 => \E o \in Threads : ~Rec!Looking(o, t)
      /\ Len(subs[t]) # 2
  BY <1>2, <1>3 DEF RosInv, Rec!SubsInv, Rec!Threads, Threads
<1>8. RosTypes'
  <2>1. subs' \in [Topics -> Seq(Profiles)] /\ \A x \in Topics : Len(subs'[x]) <= 2
    <3>1. \A x \in Topics : subs'[x] \in Seq(Profiles) /\ Len(subs'[x]) <= 2
      <4>1. \A x \in Topics : x # t => subs'[x] \in Seq(Profiles) /\ Len(subs'[x]) <= 2
        BY <1>1, <1>5 DEF RosTypes
      <4>2. Len(subs[t]) \in Nat /\ Len(subs[t]) <= 2 /\ Len(subs[t]) # 2
        BY <1>5, <1>7
      <4>3. Len(subs[t]) + 1 <= 2
        <5> DEFINE n == Len(subs[t])
        <5> HIDE DEF n
        <5>1. n \in Nat /\ n <= 2 /\ n # 2 => n + 1 <= 2
          OBVIOUS
        <5>2. QED BY <4>2, <5>1 DEF n
      <4>4. subs'[t] \in Seq(Profiles) /\ Len(subs'[t]) <= 2
        BY <1>6, <4>3
      <4>5. QED BY <4>1, <4>4
    <3>2. QED BY <1>1, <3>1 DEF RosTypes
  <2>2. seen' \in [Topics -> SUBSET SUBSET Offered]
    BY <1>1, <1>2 DEF RosTypes
  <2>3. QED BY <1>1, <1>4, <2>1, <2>2 DEF RosTypes
<1>9. Rec!SubsInv'
  <2>1. SUFFICES ASSUME NEW x \in Topics
                 PROVE  /\ Len(subs'[x]) = 1 => \E o \in Threads : ~Rec!Looking(o, x)'
                        /\ Len(subs'[x]) = 2 => \A o \in Threads : ~Rec!Looking(o, x)'
    BY DEF Rec!SubsInv, Rec!Threads, Threads
  <2>2. CASE x # t
    <3>1. /\ Len(subs[x]) = 1 => \E o \in Threads : ~Rec!Looking(o, x)
          /\ Len(subs[x]) = 2 => \A o \in Threads : ~Rec!Looking(o, x)
      BY DEF RosInv, Rec!SubsInv, Rec!Threads, Threads
    <3>2. QED BY <1>4, <1>5, <2>2, <3>1
  <2>3. CASE x = t
    <3>1. ~Rec!Looking(th, x)'
      BY <1>4
    <3>2. Len(subs'[x]) = 2 => Len(subs[t]) = 1
      <4>1. Len(subs'[x]) = Len(subs[t]) + 1
        BY <1>6, <2>3
      <4>2. Len(subs[t]) \in Nat
        BY <1>5
      <4> DEFINE n == Len(subs[t])
                 m == Len(subs'[x])
      <4> HIDE DEF n, m
      <4>3. m = n + 1 /\ n \in Nat => (m = 2 => n = 1)
        OBVIOUS
      <4>4. QED BY <4>1, <4>2, <4>3 DEF n, m
    <3>3. ASSUME Len(subs[t]) = 1, NEW o \in Threads PROVE ~Rec!Looking(o, x)'
      <4>1. PICK n \in Threads : ~Rec!Looking(n, t)
        BY <1>7, <3>3
      <4>2. n # th /\ (o = th \/ o = n)
        BY <1>3, <4>1 DEF Threads
      <4>3. QED BY <1>4, <2>3, <4>1, <4>2
    <3>4. QED BY <3>1, <3>2, <3>3
  <2>4. QED BY <2>2, <2>3
<1>10. Rec!QosInv'
  <2>1. ASSUME NEW x \in Topics, NEW look \in seen'[x]
        PROVE  \E i \in DOMAIN subs'[x] : subs'[x][i] \in Rec!MatchQos(look)
    <3>1. CASE look \in seen[x]
      <4>1. PICK i \in DOMAIN subs[x] : subs[x][i] \in Rec!MatchQos(look)
        BY <3>1 DEF RosInv, Rec!QosInv
      <4>2. CASE x # t
        BY <1>5, <4>1, <4>2
      <4>3. CASE x = t
        <5>1. i \in 1..Len(subs[t]) /\ Len(subs[t]) \in Nat
          BY <1>5, <1>6, <4>1, <4>3
        <5>2. i \in DOMAIN subs'[t] /\ subs'[t][i] = subs[t][i]
          BY <1>6, <5>1
        <5>3. QED BY <4>1, <4>3, <5>2
      <4>4. QED BY <4>2, <4>3
    <3>2. CASE look \notin seen[x]
      <4>1. x = t /\ look = offers
        BY <1>1, <1>2, <2>1, <3>2 DEF RosTypes
      <4>2. Len(subs[t]) + 1 \in DOMAIN subs'[t]
        BY <1>5, <1>6
      <4>3. QED BY <1>6, <1>12, <4>1, <4>2
    <3>3. QED BY <3>1, <3>2
  <2>2. ASSUME NEW o \in Threads, at'[o] # None
        PROVE  at'[o][2] \in Rec!MatchQos(at'[o][3])
    <3>1. o # th
      BY <1>1, <2>2 DEF RosTypes, Rec!None, None
    <3>2. at'[o] = at[o]
      BY <1>4, <3>1
    <3>3. QED BY <2>2, <3>2 DEF RosInv, Rec!QosInv, Rec!Threads, Threads, Rec!None, None
  <2>3. QED BY <2>1, <2>2 DEF Rec!QosInv, Rec!Threads, Threads, Rec!None, None
<1>11. QED BY <1>8, <1>9, <1>10 DEF RosInv

LEMMA FailStep ==
  ASSUME RosInv, NEW th \in Threads, Rec!SubscribeFails(th)
  PROVE  RosInv'
<1>1. /\ RosTypes
      /\ at' = [at EXCEPT ![th] = Rec!None]
      /\ phase' = phase /\ spinning' = spinning /\ listed' = listed /\ pubs' = pubs
      /\ subs' = subs /\ seen' = seen /\ scan' = scan
  BY DEF RosInv, Rec!SubscribeFails, Rec!graph
<1>2. /\ at' \in [Threads -> Looked \cup {None}]
      /\ \A o \in Threads : \A x \in Topics :
           Rec!Looking(o, x)' <=> o # th /\ Rec!Looking(o, x)
      /\ \A o \in Threads \ {th} : at'[o] = at[o]
  BY <1>1, LetGo
<1>3. RosTypes'
  BY <1>1, <1>2 DEF RosTypes
<1>4. Rec!SubsInv'
  <2>1. SUFFICES ASSUME NEW x \in Topics
                 PROVE  /\ Len(subs[x]) = 1 => \E o \in Threads : ~Rec!Looking(o, x)'
                        /\ Len(subs[x]) = 2 => \A o \in Threads : ~Rec!Looking(o, x)'
    BY <1>1 DEF Rec!SubsInv, Rec!Threads, Threads
  <2>2. /\ Len(subs[x]) = 1 => \E o \in Threads : ~Rec!Looking(o, x)
        /\ Len(subs[x]) = 2 => \A o \in Threads : ~Rec!Looking(o, x)
    BY DEF RosInv, Rec!SubsInv, Rec!Threads, Threads
  <2>3. QED BY <1>2, <2>2
<1>5. Rec!QosInv'
  <2>1. ASSUME NEW o \in Threads, at'[o] # None
        PROVE  at'[o][2] \in Rec!MatchQos(at'[o][3])
    <3>1. o # th
      BY <1>1, <2>1 DEF RosTypes, Rec!None, None
    <3>2. at'[o] = at[o]
      BY <1>2, <3>1
    <3>3. QED BY <2>1, <3>2 DEF RosInv, Rec!QosInv, Rec!Threads, Threads, Rec!None, None
  <2>2. QED BY <1>1, <2>1 DEF RosInv, Rec!QosInv, Rec!Threads, Threads, Rec!None, None
<1>6. QED BY <1>3, <1>4, <1>5 DEF RosInv

\* Nothing subscribed to, nothing in hand.
LEMMA Blank ==
  ASSUME RosTypes, at = [th \in Threads |-> None], subs = [t \in Topics |-> <<>>],
         seen = [t \in Topics |-> {}]
  PROVE  RosInv
<1>1. \A th \in Threads : \A t \in Topics : ~Rec!Looking(th, t)
  BY DEF Rec!Looking, Rec!None, None
<1>2. Rec!SubsInv /\ Rec!QosInv
  BY <1>1 DEF Rec!SubsInv, Rec!QosInv, Rec!Threads, Threads, Rec!None, None
<1>3. QED BY <1>2 DEF RosInv

\* Nothing that is looked at or subscribed to changes.
LEMMA SameRos ==
  ASSUME RosInv, RosTypes', at' = at, subs' = subs, seen' = seen
  PROVE  RosInv'
BY DEF RosInv, Rec!SubsInv, Rec!QosInv, Rec!Looking

LEMMA RosInit == Rec!Init => RosInv
<1> SUFFICES ASSUME Rec!Init PROVE RosInv
  OBVIOUS
<1>1. /\ phase = "off" /\ spinning = FALSE /\ listed = {} /\ pubs = [t \in Topics |-> {}]
      /\ scan = [th \in Threads |-> {}] /\ at = [th \in Threads |-> None]
      /\ subs = [t \in Topics |-> <<>>] /\ seen = [t \in Topics |-> {}]
  BY DEF Rec!Init, Rec!Threads, Threads, Rec!None, None
<1>2. subs \in [Topics -> Seq(Profiles)] /\ \A t \in Topics : Len(subs[t]) <= 2
  BY <1>1
<1>3. RosTypes
  BY <1>1, <1>2 DEF RosTypes
<1>4. QED BY <1>1, <1>3, Blank

LEMMA RosStep == ASSUME RosInv, [Rec!Next]_Rec!vars PROVE RosInv'
<1>1. CASE \E t \in Topics : Rec!GraphChanges(t)
  BY <1>1, GraphStep
<1>2. CASE \E th \in Threads, t \in Topics : Rec!Looks(th, t)
  BY <1>2, LookStep
<1>3. CASE \E th \in Threads : Rec!Subscribes(th)
  BY <1>3, SubscribeStep
<1>4. CASE \E th \in Threads : Rec!SubscribeFails(th)
  BY <1>4, FailStep
<1>5. CASE Rec!ScanStarts \/ Rec!Starts
  <2>1. /\ at' = at /\ subs' = subs /\ pubs' = pubs /\ seen' = seen
        /\ listed' = listed /\ RosTypes
    BY <1>5 DEF Rec!ScanStarts, Rec!Starts, Rec!graph, RosInv
  <2>2. phase' \in {"up", "joining", "stopped", "off"} /\ spinning' \in BOOLEAN
    BY <1>5, <2>1 DEF Rec!ScanStarts, Rec!Starts, RosTypes
  <2>3. PICK th \in Threads : scan' = [scan EXCEPT ![th] = listed]
    BY <1>5 DEF Rec!ScanStarts, Rec!Starts, Threads
  <2>4. scan' \in [Threads -> SUBSET Topics]
    BY <2>1, <2>3 DEF RosTypes
  <2>5. RosTypes'
    BY <2>1, <2>2, <2>4 DEF RosTypes
  <2>6. QED BY <2>1, <2>5, SameRos
<1>6. CASE \/ Rec!Quits \/ Rec!SpinEnds \/ Rec!Joined \/ Rec!Writes \/ Rec!Rotates
           \/ Rec!WriteFails \/ UNCHANGED Rec!vars
  <2>1. /\ at' = at /\ subs' = subs /\ pubs' = pubs /\ seen' = seen
        /\ listed' = listed /\ scan' = scan /\ RosTypes
    BY <1>6 DEF Rec!Quits, Rec!SpinEnds, Rec!Joined, Rec!Writes, Rec!Rotates,
                Rec!WriteFails, Rec!vars, Rec!ros, Rec!graph, RosInv
  <2>2. phase' \in {"up", "joining", "stopped", "off"} /\ spinning' \in BOOLEAN
    BY <1>6, <2>1 DEF Rec!Quits, Rec!SpinEnds, Rec!Joined, Rec!Writes, Rec!Rotates,
                Rec!WriteFails, Rec!vars, Rec!ros, RosTypes
  <2>3. RosTypes'
    BY <2>1, <2>2 DEF RosTypes
  <2>4. QED BY <2>1, <2>3, SameRos
<1>7. CASE Rec!Dies
  <2>1. /\ phase' = "off" /\ spinning' = FALSE /\ seen' = [t \in Topics |-> {}]
        /\ scan' = [th \in Threads |-> {}] /\ at' = [th \in Threads |-> None]
        /\ subs' = [t \in Topics |-> <<>>] /\ listed' = listed /\ pubs' = pubs /\ RosTypes
    BY <1>7 DEF Rec!Dies, Rec!graph, Rec!Threads, Threads, Rec!None, None, RosInv
  <2>2. subs' \in [Topics -> Seq(Profiles)] /\ \A t \in Topics : Len(subs'[t]) <= 2
    BY <2>1
  <2>3. RosTypes'
    BY <2>1, <2>2 DEF RosTypes
  <2>4. \A th \in Threads : \A t \in Topics : ~Rec!Looking(th, t)'
    BY <2>1 DEF Rec!Looking, Rec!None, None
  <2>5. Rec!SubsInv' /\ Rec!QosInv'
    BY <2>1, <2>4 DEF Rec!SubsInv, Rec!QosInv, Rec!Threads, Threads, Rec!None, None
  <2>6. QED BY <2>3, <2>5 DEF RosInv
<1>8. QED
  BY <1>1, <1>2, <1>3, <1>4, <1>5, <1>6, <1>7 DEF Rec!Next, Rec!Threads, Threads

\* What this run found or may keep, and what it may have added in closed files.
LEMMA FileFacts ==
  ASSUME FileInv
  PROVE  /\ files \in Sizes /\ Len(files) \in Nat /\ Total(files) \in Nat
         /\ RotateAt \in Nat \ {0} /\ MaxSize \in Nat /\ MaxFiles \in Nat
         /\ Rec!Larger(MaxSize, found) \in Nat /\ Rec!Closed \in Nat
         /\ writing => /\ files[Len(files)] \in Nat /\ files[Len(files)] < RotateAt
                       /\ Len(files) > 0
         /\ Total(files) <= Rec!Larger(MaxSize, found) + Rec!Closed
                              + (IF writing THEN files[Len(files)] ELSE 0)
<1>1. files \in Sizes /\ found \in Nat
  BY DEF FileInv, FileTypes
<1>2. Len(files) \in Nat /\ Total(files) \in Nat
  BY <1>1, SizesType, LinesFinite
<1>3. RotateAt \in Nat \ {0} /\ MaxSize \in Nat /\ MaxFiles \in Nat
  BY RecordingAssumption
<1>4. Rec!Larger(MaxSize, found) \in Nat /\ Rec!Closed \in Nat
  BY <1>1, <1>3 DEF Rec!Larger, Rec!Closed
<1>5. ASSUME writing PROVE files[Len(files)] \in Nat /\ Len(files) > 0
  <2>1. Len(files) > 0
    BY <1>5 DEF FileInv, Rec!FilesInv
  <2>2. Len(files) \in 1..Len(files)
    <3> DEFINE n == Len(files)
    <3>1. n \in Nat /\ n > 0
      BY <1>2, <2>1
    <3> HIDE DEF n
    <3>2. n \in 1..n
      BY <3>1
    <3>3. QED BY <3>2 DEF n
  <2>3. QED BY <1>1, <2>1, <2>2, InLines
<1>6. writing => files[Len(files)] < RotateAt
  BY DEF FileInv, Rec!FilesInv
<1>7. Total(files) <= Rec!Larger(MaxSize, found) + Rec!Closed
                        + (IF writing THEN files[Len(files)] ELSE 0)
  BY TotalAlike DEF FileInv, Rec!FilesInv
<1>8. QED BY <1>1, <1>2, <1>3, <1>4, <1>5, <1>6, <1>7

\* How far the directory may be past max_gb.
LEMMA Within == ASSUME FileInv PROVE DiskBounded
<1> DEFINE b == Rec!Larger(MaxSize, found)
           c == Rec!Closed
           k == Total(files)
           last == files[Len(files)]
           r == RotateAt - 1
<1>1. /\ b \in Nat /\ c \in Nat /\ k \in Nat /\ r \in Nat
      /\ writing => last \in Nat /\ last <= r
      /\ k <= b + c + (IF writing THEN last ELSE 0)
  <2>1. writing => last \in Nat /\ last < RotateAt
    BY FileFacts
  <2>2. RotateAt \in Nat \ {0}
    BY FileFacts
  <2> HIDE DEF last
  <2>3. r \in Nat /\ (writing => last \in Nat /\ last <= r)
    BY <2>1, <2>2
  <2>4. b \in Nat /\ c \in Nat /\ k \in Nat /\ k <= b + c + (IF writing THEN last ELSE 0)
    BY FileFacts DEF last
  <2>5. QED BY <2>3, <2>4
<1>2. c = (IF phase \in {"up", "joining"} THEN 0 ELSE r)
            + (IF disabled \/ phase = "off" THEN r ELSE 0)
  BY DEF Rec!Closed
<1>3. writing => ~disabled
  BY DEF FileInv, Rec!FilesInv
<1>4. writing => phase # "off"
  BY DEF FileInv, Rec!FilesInv
<1>5. Larger(MaxSize, found) = b
  BY DEF Larger, Rec!Larger
<1> HIDE DEF b, c, k, last, r
<1>6. k <= b + (IF phase \in {"up", "joining"} THEN r ELSE r + r)
  BY <1>1, <1>2, <1>3, <1>4
<1>7. 1 * r = r /\ 2 * r = r + r
  BY <1>1
<1>8. k <= b + (IF phase \in {"up", "joining"} THEN 1 ELSE 2) * r
  BY <1>6, <1>7
<1>9. QED BY <1>5, <1>8 DEF DiskBounded, k, r

\* The file write() writes to.
LEMMA OpenedFacts ==
  ASSUME FileInv, Rec!MayOpen
  PROVE  /\ Rec!Opened \in Sizes /\ Len(Rec!Opened) <= MaxFiles
         /\ Len(Rec!Opened) \in Nat /\ Len(Rec!Opened) > 0
         /\ Rec!Opened[Len(Rec!Opened)] \in Nat
         /\ Rec!Opened[Len(Rec!Opened)] < RotateAt
         /\ Total(Rec!Opened) <= Rec!Larger(MaxSize, found) + Rec!Closed
                                   + Rec!Opened[Len(Rec!Opened)]
<1>1. CASE writing
  <2>1. Rec!Opened = files
    BY <1>1 DEF Rec!Opened
  <2>2. Len(files) <= MaxFiles
    BY DEF FileInv, FileTypes
  <2>3. QED BY <1>1, <2>1, <2>2, FileFacts
<1>2. CASE ~writing
  <2>1. Rec!Opened = Append(files, 0) /\ Len(files) < MaxFiles
    BY <1>2 DEF Rec!Opened, Rec!MayOpen
  <2>2. /\ Append(files, 0) \in Sizes /\ Len(Append(files, 0)) = Len(files) + 1
        /\ Append(files, 0)[Len(files) + 1] = 0
        /\ Total(Append(files, 0)) = Total(files)
    BY FileFacts, FileAdded
  <2> DEFINE n == Len(files)
             k == Total(files)
             b == Rec!Larger(MaxSize, found)
             c == Rec!Closed
  <2>3. /\ n \in Nat /\ MaxFiles \in Nat /\ n < MaxFiles /\ RotateAt \in Nat \ {0}
        /\ b \in Nat /\ c \in Nat /\ k <= b + c + 0
    BY <1>2, <2>1, FileFacts
  <2> HIDE DEF n, k, b, c
  <2>4. n + 1 \in Nat /\ n + 1 > 0 /\ n + 1 <= MaxFiles /\ 0 < RotateAt
    BY <2>3
  <2>5. Len(Rec!Opened) = n + 1 /\ Rec!Opened[n + 1] = 0 /\ Total(Rec!Opened) = k
    BY <2>1, <2>2 DEF n, k
  <2>6. QED BY <2>1, <2>2, <2>3, <2>4, <2>5 DEF b, c
<1>3. QED BY <1>1, <1>2

\* ... and the same with a line more.
LEMMA LongerFacts ==
  ASSUME FileInv, Rec!MayOpen
  PROVE  /\ Rec!Longer \in Sizes /\ Len(Rec!Longer) <= MaxFiles
         /\ Len(Rec!Longer) > 0
         /\ Total(Rec!Longer) <= Rec!Larger(MaxSize, found) + Rec!Closed
                                   + Rec!Longer[Len(Rec!Longer)]
<1> DEFINE o == Rec!Opened
           n == Len(o)
           l == [o EXCEPT ![n] = @ + 1]
           b == Rec!Larger(MaxSize, found)
           c == Rec!Closed
           x == o[n]
           k == Total(o)
<1>1. /\ o \in Sizes /\ n <= MaxFiles /\ n \in Nat /\ n > 0 /\ x \in Nat /\ x < RotateAt
      /\ k <= b + c + x /\ b \in Nat /\ c \in Nat
  BY OpenedFacts, FileFacts
<1>2. Rec!Longer = l
  BY DEF Rec!Longer
<1> HIDE DEF o
<1>3. k \in Nat
  BY <1>1, LinesFinite
<1>4. l \in Sizes /\ Len(l) = n /\ l[n] = x + 1 /\ Total(l) = k + 1
  BY <1>1, LineAdded
<1> HIDE DEF l, n, b, c, x, k
<1>5. k + 1 <= b + c + (x + 1)
  BY <1>1, <1>3
<1>6. QED BY <1>1, <1>2, <1>4, <1>5 DEF b, c

LEMMA FileInit == Rec!Init => FileInv
<1> SUFFICES ASSUME Rec!Init PROVE FileInv
  OBVIOUS
<1>1. /\ phase = "off" /\ files = <<>> /\ writing = FALSE /\ disabled = FALSE
      /\ found = 0 /\ spinning = FALSE
  BY DEF Rec!Init
<1>2. FileTypes
  <2>1. files \in Sizes /\ Len(files) = 0
    BY <1>1, EmptySeq DEF Sizes
  <2>2. Len(files) <= MaxFiles /\ found \in Nat
    BY <1>1, <2>1, RecordingAssumption
  <2>3. QED BY <1>1, <2>1, <2>2, Zenon DEF FileTypes
<1>3. Total(files) = 0
  <2>1. Lines(files) = {}
    BY <1>1 DEF Lines
  <2>2. QED BY <2>1, FS_EmptySet DEF Total
<1>4. Rec!FilesInv
  <2>1. Rec!Larger(MaxSize, found) \in Nat /\ Rec!Closed \in Nat
    BY <1>1, RecordingAssumption DEF Rec!Larger, Rec!Closed
  <2>2. Rec!Total(files) = 0
    BY <1>3, TotalAlike
  <2>3. QED BY <1>1, <2>1, <2>2 DEF Rec!FilesInv
<1>5. QED BY <1>2, <1>4 DEF FileInv

\* The file is closed, if one is open, and counts as one more.
LEMMA CloseStep ==
  ASSUME FileInv, files' = files, found' = found, writing' = FALSE,
         disabled' \in BOOLEAN, spinning' => phase' # "off",
         Rec!Closed' = Rec!Closed + (RotateAt - 1) \/ (~writing /\ Rec!Closed' = Rec!Closed)
  PROVE  FileInv'
<1> DEFINE b == Rec!Larger(MaxSize, found)
           c == Rec!Closed
           d == Rec!Closed'
           k == Rec!Total(files)
           last == files[Len(files)]
<1>1. FileTypes'
  BY DEF FileInv, FileTypes
<1>2. /\ b \in Nat /\ c \in Nat /\ k \in Nat /\ RotateAt \in Nat \ {0}
      /\ writing => last \in Nat /\ last < RotateAt
      /\ k <= b + c + (IF writing THEN last ELSE 0)
  BY FileFacts, TotalAlike
<1>3. k <= b + d + 0
  <2>1. d = c + (RotateAt - 1) \/ (~writing /\ d = c)
    OBVIOUS
  <2> HIDE DEF b, c, d, k, last
  <2>2. QED BY <1>2, <2>1
<1>4. Rec!Larger(MaxSize, found)' = b /\ Rec!Total(files)' = k
  BY DEF Rec!Larger, Rec!Total, Rec!Lines, Rec!Cardinality
<1>5. Rec!FilesInv'
  BY <1>3, <1>4 DEF Rec!FilesInv
<1>6. QED BY <1>1, <1>5 DEF FileInv

LEMMA FileStep == ASSUME FileInv, [Rec!Next]_Rec!vars PROVE FileInv'
<1>1. CASE /\ UNCHANGED Rec!recorder
           /\ \/ phase' = phase
              \/ phase = "up" /\ phase' = "joining"
           /\ spinning' => spinning
  <2>1. /\ files' = files /\ writing' = writing /\ disabled' = disabled /\ found' = found
    BY <1>1 DEF Rec!recorder
  <2>2. FileTypes'
    BY <2>1 DEF FileInv, FileTypes
  <2>3. Rec!Closed' = Rec!Closed
    BY <1>1, <2>1 DEF Rec!Closed
  <2>4. writing' \/ spinning' => phase' # "off"
    BY <1>1, <2>1 DEF FileInv, Rec!FilesInv
  <2>5. Rec!FilesInv'
    BY <2>1, <2>3, <2>4 DEF FileInv, Rec!FilesInv, Rec!Larger
  <2>6. QED BY <2>2, <2>5 DEF FileInv
<1>2. CASE Rec!Writes
  <2>1. /\ Rec!Longer[Len(Rec!Longer)] < RotateAt /\ Rec!MayOpen /\ ~disabled
        /\ files' = Rec!Longer /\ writing' = TRUE /\ disabled' = disabled
        /\ found' = found /\ phase' = phase /\ spinning' = spinning /\ spinning
    BY <1>2 DEF Rec!Writes, Rec!Delivers, Rec!ros
  <2>2. /\ files' \in Sizes /\ Len(files') <= MaxFiles /\ Len(files') > 0
        /\ Total(files') <= Rec!Larger(MaxSize, found) + Rec!Closed + files'[Len(files')]
    BY <2>1, LongerFacts
  <2>3. FileTypes'
    BY <2>1, <2>2 DEF FileInv, FileTypes
  <2>4. Rec!Closed' = Rec!Closed /\ Rec!Larger(MaxSize, found)' = Rec!Larger(MaxSize, found)
    BY <2>1 DEF Rec!Closed, Rec!Larger
  <2>5. Rec!Total(files') = Total(files')
    BY TotalAlike
  <2>6. files'[Len(files')] < RotateAt
    BY <2>1, Zenon
  <2>7. Rec!Total(files') <= Rec!Larger(MaxSize, found)' + Rec!Closed' + files'[Len(files')]
    BY <2>2, <2>4, <2>5, Zenon
  <2>8. phase' # "off"
    BY <2>1 DEF FileInv, Rec!FilesInv
  <2>9. Rec!FilesInv'
    BY <2>1, <2>2, <2>6, <2>7, <2>8, Zenon DEF Rec!FilesInv
  <2>10. QED BY <2>3, <2>9 DEF FileInv
<1>3. CASE Rec!Rotates
  <2>1. /\ Rec!MayOpen /\ files' = Rec!Pruned(Rec!Longer) /\ writing' = FALSE
        /\ disabled' = disabled /\ found' = 0 /\ phase' = phase /\ spinning' = spinning
    BY <1>3 DEF Rec!Rotates, Rec!ros
  <2>2. Rec!Longer \in Sizes /\ Len(Rec!Longer) <= MaxFiles
    BY <2>1, LongerFacts
  <2>3. files' \in Sizes /\ Len(files') <= Len(Rec!Longer) /\ Total(files') <= MaxSize
    BY <2>1, <2>2, PrunedFits
  <2>4. Len(files') \in Nat /\ Len(Rec!Longer) \in Nat /\ Total(files') \in Nat
    BY <2>2, <2>3, SizesType, LinesFinite
  <2>5. Len(files') <= MaxFiles
    <3> DEFINE m == Len(files')
               n == Len(Rec!Longer)
    <3>1. m <= n /\ n <= MaxFiles /\ m \in Nat /\ n \in Nat
      BY <2>2, <2>3, <2>4
    <3> HIDE DEF m, n
    <3>2. m <= MaxFiles
      BY <3>1, RecordingAssumption
    <3>3. QED BY <3>2 DEF m
  <2>6. FileTypes'
    BY <2>1, <2>3, <2>5 DEF FileInv, FileTypes
  <2>7. Rec!Closed' \in Nat
    BY <2>1, RecordingAssumption DEF Rec!Closed
  <2>8. Rec!Larger(MaxSize, found)' = MaxSize
    BY <2>1, RecordingAssumption DEF Rec!Larger
  <2>9. Rec!Total(files') = Total(files')
    BY TotalAlike
  <2>10. Rec!Total(files') <= MaxSize + Rec!Closed' + 0
    <3> DEFINE k == Total(files')
               c == Rec!Closed'
    <3>1. k <= MaxSize /\ k \in Nat /\ c \in Nat /\ MaxSize \in Nat
      BY <2>3, <2>4, <2>7, RecordingAssumption
    <3> HIDE DEF k, c
    <3>2. k <= MaxSize + c + 0
      BY <3>1
    <3>3. QED BY <2>9, <3>2 DEF k, c
  <2>11. spinning' => phase' # "off"
    BY <2>1 DEF FileInv, Rec!FilesInv
  <2>12. Rec!FilesInv'
    BY <2>1, <2>8, <2>10, <2>11 DEF Rec!FilesInv
  <2>13. QED BY <2>6, <2>12 DEF FileInv
<1>4. CASE Rec!WriteFails
  <2>1. /\ writing' = FALSE /\ disabled' = TRUE /\ ~disabled /\ spinning /\ found' = found
        /\ phase' = phase /\ spinning' = spinning
    BY <1>4 DEF Rec!WriteFails, Rec!Delivers, Rec!ros
  <2>2. phase # "off"
    BY <2>1 DEF FileInv, Rec!FilesInv
  <2>3. Rec!Closed' = Rec!Closed + (RotateAt - 1)
    BY <2>1, <2>2, RecordingAssumption DEF Rec!Closed
  <2>4. CASE UNCHANGED files
    BY <2>1, <2>2, <2>3, <2>4, CloseStep
  <2>5. CASE Rec!MayOpen /\ files' = Rec!Opened
    <3> DEFINE n == Len(files')
               last == files'[n]
               b == Rec!Larger(MaxSize, found)
               c == Rec!Closed
               k == Total(files')
    <3>1. /\ files' \in Sizes /\ n <= MaxFiles
          /\ last \in Nat /\ last < RotateAt /\ k <= b + c + last
      BY <2>5, OpenedFacts
    <3>2. k \in Nat /\ b \in Nat /\ c \in Nat
      BY <3>1, LinesFinite, FileFacts
    <3>3. k <= b + (c + (RotateAt - 1)) + 0
      <4> HIDE DEF b, c, k, last
      <4>1. QED BY <3>1, <3>2, RecordingAssumption
    <3>4. FileTypes'
      BY <2>1, <3>1 DEF FileInv, FileTypes
    <3>5. Rec!FilesInv'
      <4>1. Rec!Total(files') = Total(files')
        BY TotalAlike
      <4>2. Rec!Larger(MaxSize, found)' = b
        BY <2>1 DEF Rec!Larger
      <4>3. Rec!Total(files') <= Rec!Larger(MaxSize, found)' + Rec!Closed' + 0
        BY <2>3, <3>3, <4>1, <4>2
      <4>4. QED BY <2>1, <2>2, <4>3 DEF Rec!FilesInv
    <3>6. QED BY <3>4, <3>5 DEF FileInv
  <2>6. QED BY <1>4, <2>4, <2>5 DEF Rec!WriteFails
<1>5. CASE Rec!Joined
  <2>1. /\ files' = files /\ found' = found /\ writing' = FALSE /\ disabled' = disabled
        /\ phase = "joining" /\ phase' = "stopped"
    BY <1>5 DEF Rec!Joined
  <2>2. Rec!Closed' = Rec!Closed + (RotateAt - 1)
    BY <2>1, RecordingAssumption DEF Rec!Closed
  <2>3. disabled' \in BOOLEAN
    BY <2>1 DEF FileInv, FileTypes
  <2>4. QED BY <2>1, <2>2, <2>3, CloseStep
<1>6. CASE Rec!Dies
  <2>1. /\ files' = files /\ found' = found /\ writing' = FALSE /\ disabled' = FALSE
        /\ phase # "off" /\ phase' = "off" /\ spinning' = FALSE
    BY <1>6 DEF Rec!Dies
  <2>2. disabled => ~writing
    BY DEF FileInv, Rec!FilesInv
  <2>3. CASE \/ Rec!Closed' = Rec!Closed + (RotateAt - 1)
             \/ ~writing /\ Rec!Closed' = Rec!Closed
    BY <2>1, <2>3, CloseStep
  <2>4. CASE ~disabled /\ phase \in {"up", "joining"}
    <3>1. Rec!Closed = 0 /\ Rec!Closed' = (RotateAt - 1) + (RotateAt - 1)
      BY <2>1, <2>4, RecordingAssumption DEF Rec!Closed
    <3> DEFINE b == Rec!Larger(MaxSize, found)
               k == Rec!Total(files)
               last == files[Len(files)]
               r == RotateAt - 1
    <3>2. /\ b \in Nat /\ k \in Nat /\ RotateAt \in Nat \ {0}
          /\ writing => last \in Nat /\ last < RotateAt
          /\ k <= b + 0 + (IF writing THEN last ELSE 0)
      BY <3>1, FileFacts, TotalAlike
    <3>3. k <= b + (r + r) + 0
      <4> HIDE DEF b, k, last
      <4>1. QED BY <3>2
    <3>4. Rec!Larger(MaxSize, found)' = b /\ Rec!Total(files)' = k
      BY <2>1 DEF Rec!Larger, Rec!Total, Rec!Lines, Rec!Cardinality
    <3>5. Rec!FilesInv'
      BY <2>1, <3>1, <3>3, <3>4 DEF Rec!FilesInv
    <3>6. FileTypes'
      BY <2>1 DEF FileInv, FileTypes
    <3>7. QED BY <3>5, <3>6 DEF FileInv
  <2>5. CASE disabled \/ phase \notin {"up", "joining"}
    <3>1. CASE disabled /\ phase \in {"up", "joining"}
      BY <2>1, <2>3, <3>1, RecordingAssumption DEF Rec!Closed
    <3>2. CASE disabled /\ phase \notin {"up", "joining"}
      BY <2>1, <2>2, <2>3, <3>2, RecordingAssumption DEF Rec!Closed
    <3>3. CASE ~disabled /\ phase \notin {"up", "joining"}
      BY <2>1, <2>3, <3>3, RecordingAssumption DEF Rec!Closed
    <3>4. QED BY <2>5, <3>1, <3>2, <3>3
  <2>6. QED BY <2>4, <2>5
<1>7. CASE Rec!Starts
  <2>1. /\ files' = files /\ writing' = writing /\ disabled' = disabled
        /\ found' = Rec!Total(files) /\ phase' = "up"
    BY <1>7 DEF Rec!Starts
  <2> DEFINE k == Rec!Total(files)
             last == files[Len(files)]
             g == Rec!Larger(MaxSize, k)
             d == Rec!Closed'
  <2>2. /\ k \in Nat /\ MaxSize \in Nat /\ RotateAt \in Nat \ {0}
        /\ writing => last \in Nat
    BY FileFacts, TotalAlike
  <2>3. d \in Nat
    BY <2>2 DEF Rec!Closed
  <2>4. g \in Nat /\ k <= g
    <3> HIDE DEF k
    <3>1. QED BY <2>2 DEF Rec!Larger
  <2>5. k <= g + d + (IF writing THEN last ELSE 0)
    <3> HIDE DEF k, last, g, d
    <3>1. QED BY <2>2, <2>3, <2>4
  <2>6. Rec!Larger(MaxSize, found)' = g /\ Rec!Total(files)' = k
    BY <2>1 DEF Rec!Larger, Rec!Total, Rec!Lines, Rec!Cardinality
  <2>7. Rec!FilesInv'
    <3>1. writing => Len(files) > 0 /\ files[Len(files)] < RotateAt /\ ~disabled
      BY DEF FileInv, Rec!FilesInv
    <3>2. QED BY <2>1, <2>5, <2>6, <3>1 DEF Rec!FilesInv
  <2>8. FileTypes'
    BY <2>1, <2>2 DEF FileInv, FileTypes
  <2>9. QED BY <2>7, <2>8 DEF FileInv
<1>8. CASE \/ \E t \in Topics : Rec!GraphChanges(t)
           \/ \E th \in Threads : \/ \E t \in Topics : Rec!Looks(th, t)
                                  \/ Rec!Subscribes(th) \/ Rec!SubscribeFails(th)
           \/ Rec!ScanStarts \/ Rec!Quits \/ Rec!SpinEnds
           \/ UNCHANGED Rec!vars
  <2>1. /\ UNCHANGED Rec!recorder
        /\ \/ phase' = phase
           \/ phase = "up" /\ phase' = "joining"
        /\ spinning' => spinning
    BY <1>8 DEF Rec!GraphChanges, Rec!Looks, Rec!Subscribes, Rec!SubscribeFails,
                Rec!ScanStarts, Rec!Quits, Rec!SpinEnds, Rec!vars, Rec!recorder, Rec!ros
  <2>2. QED BY <1>1, <2>1
<1>9. QED
  BY <1>2, <1>3, <1>4, <1>5, <1>6, <1>7, <1>8 DEF Rec!Next, Rec!Threads, Threads

\* The invariant of the recordings and subscriptions of a vehicle.
THEOREM RecordingInductive == Rec!Spec => []Rec!IInv
<1>1. Rec!Init => Rec!IInv
  BY RosInit, FileInit, RecInv
<1>2. Rec!IInv /\ [Rec!Next]_Rec!vars => Rec!IInv'
  <2> SUFFICES ASSUME Rec!IInv, [Rec!Next]_Rec!vars PROVE Rec!IInv'
    OBVIOUS
  <2>1. RosInv /\ FileInv
    BY RecInv
  <2>2. RosInv' /\ FileInv'
    BY <2>1, RosStep, FileStep
  <2>3. QED BY <2>2 DEF Rec!IInv, RosInv, FileInv, Rec!TypeOK, RosTypes, FileTypes, Sizes,
               Rec!Threads, Threads, Rec!Looked, Looked, Rec!None, None, Rec!Profiles,
               Profiles
<1>3. QED BY <1>1, <1>2, PTL DEF Rec!Spec

\* However often the agent scans, and however its two discovering threads interleave, a
\* topic is subscribed to at most twice.
THEOREM TwoSubscriptions == Rec!Spec => []TypeOK
<1>1. Rec!IInv => TypeOK
  BY DEF Rec!IInv, Rec!TypeOK, TypeOK, Rec!Threads, Threads, Rec!Looked, Looked, Rec!None,
         None, Rec!Profiles, Profiles
<1>2. QED BY <1>1, RecordingInductive, PTL

\* For any topics and publishers: one that offers no less than a publisher that was seen
\* for a subscription is heard, whenever it joined, if those that were seen agree on
\* durability.
THEOREM EveryPublisherHeard == Rec!Spec => []PublishersHeard
<1>1. Rec!IInv => PublishersHeard
  <2> SUFFICES ASSUME Rec!IInv, NEW t \in Topics, NEW offers \in seen[t],
                      \A o, q \in offers : o.lasting = q.lasting,
                      NEW p \in pubs[t], NEW o \in offers, Offers(p, o)
               PROVE  Hears(t, p)
    BY DEF PublishersHeard
  <2>1. RosInv
    BY RecInv
  <2>2. PICK i \in DOMAIN subs[t] : subs[t][i] \in Rec!MatchQos(offers)
    BY <2>1 DEF RosInv, Rec!QosInv
  <2> DEFINE q == subs[t][i]
  <2>3. q \in Rec!MatchQos(offers)
    BY <2>2
  <2> HIDE DEF q
  <2>4. PICK x \in offers :
          q = [reliable |-> \A y \in offers : y.reliable, lasting |-> x.lasting]
    BY <2>3 DEF Rec!MatchQos
  <2>5. (q.reliable => o.reliable) /\ q.lasting = o.lasting
    BY <2>4
  <2>6. (q.reliable => p.reliable) /\ (q.lasting => p.lasting)
    BY <2>5 DEF Offers
  <2>7. QED BY <2>2, <2>6 DEF Hears, Connects, q
<1>2. QED BY <1>1, RecordingInductive, PTL

\* For any limits: a run of the agent takes the directory past max_gb, or past what it
\* found there, by one file that is not full, and by a second one after its end.
THEOREM DiskStaysBounded == Rec!Spec => []DiskBounded
<1>1. Rec!IInv => DiskBounded
  BY RecInv, Within
<1>2. QED BY <1>1, RecordingInductive, PTL

-----------------------------------------------------------------------------
(* Which samples the bridge relays *)

Samples == [at : Nat, value : Int]

\* f is what is kept after each of the first n samples of h.
Kept(cfg, h, n, f) ==
  f = [i \in 0..n |-> IF i = 0 THEN Unsent
                      ELSE OfferTo(cfg, f[i - 1], h[i].at, h[i].value)]

\* The recursion of Trace is well founded: the shortest history without a trace is
\* not the empty one, and the one before it has a trace that can be extended.
LEMMA TraceExists ==
  ASSUME NEW cfg, NEW h, NEW n \in Nat
  PROVE  \E f : Kept(cfg, h, n, f)
<1> DEFINE S == {k \in Nat : ~ \E f : Kept(cfg, h, k, f)}
<1>1. SUFFICES ASSUME S # {} PROVE FALSE
  OBVIOUS
<1>2. PICK m \in S : \A k \in S : m <= k
  BY <1>1, Smallest
<1>3. Kept(cfg, h, 0, [i \in 0..0 |-> Unsent])
  BY DEF Kept
<1>4. m \in Nat /\ m # 0
  BY <1>3
<1>5. m - 1 \in Nat /\ m - 1 \notin S
  BY <1>2, <1>4
<1>6. PICK f : Kept(cfg, h, m - 1, f)
  BY <1>5
<1> DEFINE body(g, i) == IF i = 0 THEN Unsent
                         ELSE OfferTo(cfg, g[i - 1], h[i].at, h[i].value)
           g == [i \in 0..m |-> IF i = m THEN body(f, m) ELSE f[i]]
<1>7. \A i \in 0..(m - 1) : f[i] = body(f, i)
  BY <1>6 DEF Kept
<1>8. \A i \in 0..(m - 1) : g[i] = f[i]
  BY <1>4
<1>9. ASSUME NEW i \in 0..m PROVE g[i] = body(g, i)
  <2>1. CASE i = 0
    BY <1>4, <1>7, <2>1
  <2>2. CASE i # 0
    <3>1. i - 1 \in 0..(m - 1)
      BY <1>4, <2>2
    <3>2. g[i - 1] = f[i - 1]
      BY <1>8, <3>1
    <3>3. body(g, i) = body(f, i)
      BY <3>2
    <3>4. g[i] = body(f, i)
      BY <1>4, <1>7
    <3>5. QED BY <3>3, <3>4
  <2>3. QED BY <2>1, <2>2
<1>10. g = [i \in 0..m |-> body(g, i)]
  <2>1. g = [i \in 0..m |-> g[i]]
    OBVIOUS
  <2> HIDE DEF g
  <2>2. QED BY <1>9, <2>1
<1> HIDE DEF g
<1>11. Kept(cfg, h, m, g)
  BY <1>10 DEF Kept
<1>12. QED BY <1>2, <1>11

\* So Trace is what its recursion says.
LEMMA TraceSteps ==
  ASSUME NEW cfg, NEW h \in Seq(Samples)
  PROVE  /\ Trace(cfg, h)[0] = Unsent
         /\ \A i \in 1..Len(h) :
              Trace(cfg, h)[i] = OfferTo(cfg, Trace(cfg, h)[i - 1], h[i].at, h[i].value)
<1> DEFINE n == Len(h)
           t == Trace(cfg, h)
<1>1. n \in Nat
  OBVIOUS
<1>2. t = CHOOSE f : Kept(cfg, h, n, f)
  BY DEF Trace, Kept
<1>3. Kept(cfg, h, n, t)
  BY <1>1, <1>2, TraceExists
<1> HIDE DEF t, n
<1>4. \A i \in 0..n : t[i] = IF i = 0 THEN Unsent
                             ELSE OfferTo(cfg, t[i - 1], h[i].at, h[i].value)
  BY <1>3 DEF Kept
<1>5. t[0] = Unsent
  BY <1>1, <1>4
<1>6. \A i \in 1..n : t[i] = OfferTo(cfg, t[i - 1], h[i].at, h[i].value)
  BY <1>1, <1>4
<1>7. QED BY <1>5, <1>6 DEF t, n

Filters == [gap : Nat \ {0}, heartbeat : Nat, deadband : Nat, changeOnly : BOOLEAN]
Relayed == [at : Nat, value : Int, flag : {"change", "heartbeat"}]
Memory  == [last : SUBSET Int, sentAt : Nat, rows : Seq(Relayed)]

FlagsOf(cfg, rows) ==
  cfg.changeOnly =>
    \A i \in 2..Len(rows) :
      rows[i].flag = "change" <=> ~Same(cfg, rows[i - 1].value, rows[i].value)

\* Once a sample has been relayed, what is remembered is the last one relayed.
Remembers(cfg, kept) ==
  /\ kept \in Memory
  /\ kept.rows # <<>>
  /\ kept.last = {Last(kept.rows).value}
  /\ kept.sentAt = Last(kept.rows).at
  /\ FlagsOf(cfg, kept.rows)

\* The archive agrees with the sample s.
Agrees(cfg, kept, s) ==
  LET row == Last(kept.rows)
      age == s.at - row.at
  IN /\ Same(cfg, row.value, s.value) \/ age < cfg.gap
     /\ \/ age < cfg.gap
        \/ cfg.changeOnly /\ (cfg.heartbeat = 0 \/ age < cfg.heartbeat)

\* A row appended is the last, and the others stay.
LEMMA RowAppended ==
  ASSUME NEW rows \in Seq(Relayed), NEW row \in Relayed
  PROVE  /\ Append(rows, row) \in Seq(Relayed) /\ Append(rows, row) # <<>>
         /\ Len(Append(rows, row)) = Len(rows) + 1 /\ Len(rows) \in Nat
         /\ Last(Append(rows, row)) = row
         /\ \A i \in 1..Len(rows) : Append(rows, row)[i] = rows[i]
<1>1. /\ Append(rows, row) \in Seq(Relayed)
      /\ Len(Append(rows, row)) = Len(rows) + 1 /\ Len(rows) \in Nat
      /\ \A i \in 1..Len(rows) : Append(rows, row)[i] = rows[i]
      /\ Append(rows, row)[Len(rows) + 1] = row
  BY AppendProperties
<1>2. Append(rows, row) # <<>>
  BY <1>1, EmptySeq
<1>3. QED BY <1>1, <1>2 DEF Last

\* A sample that is relayed is remembered and agrees with itself.
LEMMA RelayRemembers ==
  ASSUME NEW cfg \in Filters, NEW kept \in Memory, NEW s \in Samples,
         kept.rows = <<>> \/ Remembers(cfg, kept)
  PROVE  LET new == Relay(cfg, kept, s.at, s.value)
         IN  Remembers(cfg, new) /\ Agrees(cfg, new, s)
<1> DEFINE row == [at |-> s.at, value |-> s.value, flag |-> Flag(cfg, kept, s.value)]
           rows == Append(kept.rows, row)
           new == Relay(cfg, kept, s.at, s.value)
<1>1. s.at \in Nat /\ s.value \in Int /\ kept.rows \in Seq(Relayed)
  BY DEF Samples, Memory
<1>2. row \in Relayed /\ row.at = s.at /\ row.value = s.value
  BY <1>1 DEF Relayed, Flag
<1>f. row.flag = "change" <=> ~(cfg.changeOnly /\ Unchanged(cfg, kept, s.value))
  BY DEF Flag
<1>3. new = [last |-> {s.value}, sentAt |-> s.at, rows |-> rows]
  BY DEF Relay
<1> HIDE DEF row, new
<1>4. /\ rows \in Seq(Relayed) /\ rows # <<>>
      /\ Len(rows) = Len(kept.rows) + 1 /\ Len(kept.rows) \in Nat
      /\ Last(rows) = row
      /\ \A i \in 1..Len(kept.rows) : rows[i] = kept.rows[i]
  BY <1>1, <1>2, RowAppended
<1> HIDE DEF rows
<1>5. new.last = {s.value} /\ new.sentAt = s.at /\ new.rows = rows
  BY <1>3
<1>6. new \in Memory
  BY <1>1, <1>3, <1>4 DEF Memory
<1>7. FlagsOf(cfg, rows)
  <2>1. SUFFICES ASSUME cfg.changeOnly, NEW i \in 2..Len(rows)
                 PROVE  rows[i].flag = "change"
                          <=> ~Same(cfg, rows[i - 1].value, rows[i].value)
    BY DEF FlagsOf
  <2> DEFINE k == Len(kept.rows)
  <2>2. k \in Nat /\ Len(rows) = k + 1 /\ k >= 1
    BY <1>4
  <2>3. kept.rows # <<>>
    <3> SUFFICES ASSUME kept.rows = <<>> PROVE FALSE
      OBVIOUS
    <3>1. Len(kept.rows) = 0
      BY EmptySeq
    <3>2. QED BY <2>2, <3>1
  <2>4. Remembers(cfg, kept)
    BY <2>3
  <2> HIDE DEF k
  <2>5. CASE i = k + 1
    <3>1. rows[i] = row
      BY <1>4, <2>2, <2>5 DEF Last
    <3>2. i - 1 = k /\ k \in 1..k
      BY <2>2, <2>5
    <3>3. rows[i - 1] = Last(kept.rows)
      BY <1>4, <3>2 DEF k, Last
    <3>4. Unchanged(cfg, kept, s.value) <=> Same(cfg, rows[i - 1].value, s.value)
      BY <2>4, <3>3 DEF Remembers, Unchanged
    <3>5. QED BY <1>2, <1>f, <2>1, <3>1, <3>4
  <2>6. CASE i # k + 1
    <3>1. i \in 2..k /\ i \in 1..k /\ i - 1 \in 1..k
      BY <2>2, <2>6
    <3>2. rows[i] = kept.rows[i] /\ rows[i - 1] = kept.rows[i - 1]
      BY <1>4, <3>1 DEF k
    <3>3. FlagsOf(cfg, kept.rows)
      BY <2>4 DEF Remembers
    <3>4. QED BY <2>1, <3>1, <3>2, <3>3 DEF FlagsOf, k
  <2>7. QED BY <2>5, <2>6
<1>8. Remembers(cfg, new)
  BY <1>2, <1>4, <1>5, <1>6, <1>7 DEF Remembers
<1>9. Agrees(cfg, new, s)
  <2>1. cfg.gap \in Nat /\ cfg.gap > 0
    BY DEF Filters
  <2>2. Last(new.rows) = row
    BY <1>4, <1>5
  <2>3. s.at - row.at < cfg.gap
    BY <1>1, <1>2, <2>1
  <2>4. QED BY <2>2, <2>3 DEF Agrees
<1>10. QED BY <1>8, <1>9 DEF new

\* Either a sample is relayed, or what is remembered stays and agrees with it.
LEMMA OfferRemembers ==
  ASSUME NEW cfg \in Filters, NEW kept, NEW s \in Samples,
         \/ kept = Unsent /\ cfg.gap <= s.at
         \/ Remembers(cfg, kept)
  PROVE  LET new == OfferTo(cfg, kept, s.at, s.value)
         IN  Remembers(cfg, new) /\ Agrees(cfg, new, s)
<1>1. s.at \in Nat /\ s.value \in Int
  BY DEF Samples
<1>2. /\ cfg.gap \in Nat /\ cfg.gap > 0 /\ cfg.heartbeat \in Nat
      /\ cfg.changeOnly \in BOOLEAN
  BY DEF Filters
<1>3. kept \in Memory /\ (kept.rows = <<>> \/ Remembers(cfg, kept))
  <2>1. Unsent \in Memory /\ Unsent.rows = <<>>
    BY DEF Unsent, Memory
  <2>2. QED BY <2>1 DEF Remembers
<1>4. CASE Relays(cfg, kept, s.at, s.value)
  <2>1. OfferTo(cfg, kept, s.at, s.value) = Relay(cfg, kept, s.at, s.value)
    BY <1>4 DEF OfferTo
  <2>2. QED BY <1>3, <2>1, RelayRemembers
<1>5. CASE ~Relays(cfg, kept, s.at, s.value)
  <2>1. OfferTo(cfg, kept, s.at, s.value) = kept
    BY <1>5 DEF OfferTo
  <2>2. Remembers(cfg, kept)
    <3>1. SUFFICES ASSUME kept = Unsent, cfg.gap <= s.at PROVE FALSE
      OBVIOUS
    <3>2. s.at - kept.sentAt >= cfg.gap
      BY <1>1, <1>2, <3>1 DEF Unsent
    <3>3. ~Unchanged(cfg, kept, s.value)
      BY <3>1 DEF Unchanged, Unsent
    <3>4. QED BY <1>5, <3>2, <3>3 DEF Relays
  <2> DEFINE row == Last(kept.rows)
             age == s.at - row.at
  <2>3. kept.last = {row.value} /\ kept.sentAt = row.at /\ row.at \in Nat
    BY <2>2 DEF Remembers, Memory
  <2>4. Unchanged(cfg, kept, s.value) <=> Same(cfg, row.value, s.value)
    BY <2>3 DEF Unchanged
  <2>5. Beats(cfg, kept, s.at) <=> cfg.heartbeat > 0 /\ age >= cfg.heartbeat
    BY <2>3 DEF Beats
  <2>6. \/ ~(age >= cfg.gap)
        \/ /\ cfg.changeOnly /\ Same(cfg, row.value, s.value)
           /\ ~(cfg.heartbeat > 0 /\ age >= cfg.heartbeat)
    BY <1>5, <2>3, <2>4, <2>5 DEF Relays
  <2>7. age \in Int
    BY <1>1, <2>3
  <2> HIDE DEF age, row
  <2>8. \/ age < cfg.gap
        \/ /\ cfg.changeOnly /\ Same(cfg, row.value, s.value)
           /\ cfg.heartbeat = 0 \/ age < cfg.heartbeat
    BY <1>2, <2>6, <2>7
  <2>9. Agrees(cfg, kept, s)
    BY <2>8 DEF Agrees, age, row
  <2>10. QED BY <2>1, <2>2, <2>9
<1>6. QED BY <1>4, <1>5

\* After every sample of a history the archive agrees with it: by the least sample
\* after which it does not.
LEMMA TraceAgrees ==
  ASSUME NEW cfg \in Filters, NEW h \in Seq(Samples), h # <<>>, cfg.gap <= h[1].at
  PROVE  \A i \in 1..Len(h) :
           /\ Remembers(cfg, Trace(cfg, h)[i])
           /\ Agrees(cfg, Trace(cfg, h)[i], h[i])
<1> DEFINE t == Trace(cfg, h)
           n == Len(h)
           S == {i \in 1..n : ~(Remembers(cfg, t[i]) /\ Agrees(cfg, t[i], h[i]))}
<1>1. /\ n \in Nat /\ t[0] = Unsent
      /\ \A i \in 1..n : t[i] = OfferTo(cfg, t[i - 1], h[i].at, h[i].value)
      /\ \A i \in 1..n : h[i] \in Samples
  BY TraceSteps
<1> HIDE DEF t, n
<1>2. SUFFICES ASSUME S # {} PROVE FALSE
  BY DEF t, n
<1>3. S \subseteq Nat
  OBVIOUS
<1>4. PICK m \in S : \A i \in S : m <= i
  BY <1>2, <1>3, Smallest
<1>5. m \in 1..n /\ h[m] \in Samples
  BY <1>1
<1>6. \/ t[m - 1] = Unsent /\ cfg.gap <= h[m].at
      \/ Remembers(cfg, t[m - 1])
  <2>1. CASE m = 1
    BY <1>1, <2>1
  <2>2. CASE m # 1
    <3>1. m - 1 \in 1..n /\ ~(m <= m - 1)
      BY <1>1, <1>5, <2>2
    <3>2. m - 1 \notin S
      BY <1>4, <3>1
    <3>3. QED BY <3>1, <3>2
  <2>3. QED BY <2>1, <2>2
<1>7. t[m] = OfferTo(cfg, t[m - 1], h[m].at, h[m].value)
  BY <1>1, <1>5
<1>8. Remembers(cfg, t[m]) /\ Agrees(cfg, t[m], h[m])
  BY <1>5, <1>6, <1>7, OfferRemembers
<1>9. QED BY <1>8

\* Whatever the configuration and whatever the source says, offer() relays enough:
\* the archive is never further from the vehicle than deadband and gap allow, hears
\* it once a heartbeat, and a row flagged as a change is one.
THEOREM FilterIsSound == KeepsUp
<1>1. SUFFICES ASSUME NEW cfg \in Configs, NEW h \in Histories
               PROVE  KeepsClose(cfg, h) /\ KeepsBeating(cfg, h) /\ FlagsTrue(cfg, h)
  BY DEF KeepsUp
<1>2. cfg \in Filters /\ h \in Seq(Samples) /\ h # <<>> /\ cfg.gap <= h[1].at
  BY FilterAssumption DEF Filters, Samples
<1> DEFINE n == Len(h)
           k == Trace(cfg, h)[n]
<1>3. n \in 1..n
  BY <1>2, EmptySeq
<1>4. Remembers(cfg, k) /\ Agrees(cfg, k, h[n])
  BY <1>2, <1>3, TraceAgrees
<1>5. After(cfg, h) = k /\ Last(h) = h[n]
  BY DEF After, Last
<1> HIDE DEF n, k
<1>6. KeepsClose(cfg, h) /\ KeepsBeating(cfg, h)
  BY <1>4, <1>5 DEF Agrees, KeepsClose, KeepsBeating
<1>7. FlagsTrue(cfg, h)
  BY <1>4, <1>5 DEF Remembers, FlagsOf, FlagsTrue
<1>8. QED BY <1>6, <1>7

\* The same, as the runs state it.
THEOREM RelaysKeepUp == Spec => []FilterKeepsUp
<1>1. FilterKeepsUp
  BY FilterIsSound DEF FilterKeepsUp
<1>2. QED BY <1>1, PTL

=============================================================================
