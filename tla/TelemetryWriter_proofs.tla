----------------------- MODULE TelemetryWriter_proofs -----------------------
(***************************************************************************)
(* Theorems about TelemetryWriter, for every value of its constants.       *)
(***************************************************************************)
EXTENDS TelemetryWriter, FiniteSetTheorems, SequenceTheorems, TLAPS

-----------------------------------------------------------------------------
(* Deques *)

\* Appending to a bounded deque keeps the right end of the sequence.
LEMMA KeepLastProperties ==
  ASSUME NEW q \in Seq(Nat), NEW n \in Nat
  PROVE  /\ KeepLast(q, n) \in Seq(Nat)
         /\ Len(KeepLast(q, n)) <= n
         /\ Len(KeepLast(q, n)) <= Len(q)
         /\ n > 0 /\ q # <<>> => KeepLast(q, n) # <<>>
         /\ \A i \in 1..Len(KeepLast(q, n)) :
              /\ i + (Len(q) - Len(KeepLast(q, n))) \in 1..Len(q)
              /\ KeepLast(q, n)[i] = q[i + (Len(q) - Len(KeepLast(q, n)))]
<1>1. CASE Len(q) <= n
  BY <1>1 DEF KeepLast
<1>2. CASE ~(Len(q) <= n)
  <2> DEFINE kept == SubSeq(q, Len(q) - n + 1, Len(q))
  <2>1. Len(q) \in Nat /\ Len(q) > n
    BY <1>2
  <2>2. KeepLast(q, n) = kept
    BY <1>2 DEF KeepLast
  <2>3. kept \in Seq(Nat) /\ Len(kept) = n
    BY <2>1
  <2>4. \A i \in 1..n : i + (Len(q) - n) \in 1..Len(q) /\ kept[i] = q[i + (Len(q) - n)]
    BY <2>1
  <2> HIDE DEF kept
  <2>5. QED BY <2>1, <2>2, <2>3, <2>4
<1>3. QED BY <1>1, <1>2

\* Putting a batch back keeps the left end.
LEMMA KeepFirstProperties ==
  ASSUME NEW q \in Seq(Nat), NEW n \in Nat
  PROVE  /\ KeepFirst(q, n) \in Seq(Nat)
         /\ Len(KeepFirst(q, n)) <= n
         /\ Len(KeepFirst(q, n)) <= Len(q)
         /\ n > 0 /\ q # <<>> => KeepFirst(q, n) # <<>>
         /\ \A i \in 1..Len(KeepFirst(q, n)) : KeepFirst(q, n)[i] = q[i]
<1>1. CASE Len(q) <= n
  BY <1>1 DEF KeepFirst
<1>2. CASE ~(Len(q) <= n)
  BY <1>2 DEF KeepFirst
<1>3. QED BY <1>1, <1>2

\* Joining two queues of rows.
LEMMA JoinProperties ==
  ASSUME NEW q \in Seq(Nat), NEW r \in Seq(Nat)
  PROVE  /\ q \o r \in Seq(Nat)
         /\ Len(q \o r) = Len(q) + Len(r)
         /\ Len(q) \in Nat /\ Len(r) \in Nat
         /\ q # <<>> \/ r # <<>> => q \o r # <<>>
         /\ \A i \in 1..Len(q) + Len(r) :
              (q \o r)[i] = IF i <= Len(q) THEN q[i] ELSE r[i - Len(q)]
<1>1. Len(q) \in Nat /\ Len(r) \in Nat
  OBVIOUS
<1>2. q # <<>> => Len(q) > 0
  OBVIOUS
<1>3. r # <<>> => Len(r) > 0
  OBVIOUS
<1>4. Len(<<>>) = 0
  OBVIOUS
<1>5. /\ q \o r \in Seq(Nat)
      /\ Len(q \o r) = Len(q) + Len(r)
      /\ \A i \in 1..Len(q) + Len(r) :
           (q \o r)[i] = IF i <= Len(q) THEN q[i] ELSE r[i - Len(q)]
  BY ConcatProperties
<1>6. q # <<>> \/ r # <<>> => q \o r # <<>>
  BY <1>1, <1>2, <1>3, <1>4, <1>5
<1>7. QED BY <1>1, <1>5, <1>6

\* The rows an operation accepts are consecutive numbers above accepted[s].
LEMMA FreshProperties ==
  ASSUME accepted \in [Streams -> Nat], NEW s \in Streams, NEW k \in Nat
  PROVE  /\ Fresh(s, k) \in Seq(Nat)
         /\ Len(Fresh(s, k)) = k
         /\ \A i \in 1..k : Fresh(s, k)[i] = accepted[s] + i
BY DEF Fresh

\* What an operation adds is a number per stream.
LEMMA AddingType ==
  ASSUME NEW tel \in Nat, NEW top \in Nat, NEW ev \in Nat
  PROVE  /\ Adding(tel, top, ev) \in [Streams -> Nat]
         /\ Adding(tel, top, ev)["telemetry"] = tel
         /\ Adding(tel, top, ev)["topics"] = top
         /\ Adding(tel, top, ev)["events"] = ev
BY DEF Adding, Streams

\* Counting the items of a batch.
LEMMA ItemCounts ==
  ASSUME NEW items \in Batches
  PROVE  /\ WellFormed(items) \in Nat
         /\ \A t : Occurrences(items, t) \in Nat
         /\ \A t \in Topics : Occurrences(items, t) > 0 => WellFormed(items) > 0
<1>1. PICK k \in 1..MaxBatch : items \in [1..k -> Topics \cup {Malformed}]
  BY DEF Batches
<1>k. k \in Nat /\ Len(items) = k
  BY <1>1, ConstantsAssumption
<1>2. IsFiniteSet(1..Len(items))
  BY <1>k, FS_Interval
<1>3. ASSUME NEW P \in SUBSET (1..Len(items))
      PROVE  IsFiniteSet(P) /\ Cardinality(P) \in Nat
  BY <1>2, <1>3, FS_Subset, FS_CardinalityType
<1>4. {i \in 1..Len(items) : items[i] # Malformed} \in SUBSET (1..Len(items))
  OBVIOUS
<1>5. WellFormed(items) \in Nat
  BY <1>3, <1>4 DEF WellFormed
<1>6. \A t : {i \in 1..Len(items) : items[i] = t} \in SUBSET (1..Len(items))
  OBVIOUS
<1>7. \A t : Occurrences(items, t) \in Nat
  BY <1>3, <1>6 DEF Occurrences
<1>8. ASSUME NEW t \in Topics, Occurrences(items, t) > 0
      PROVE  WellFormed(items) > 0
  <2>1. {i \in 1..Len(items) : items[i] = t} # {}
    <3>1. SUFFICES ASSUME {i \in 1..Len(items) : items[i] = t} = {} PROVE FALSE
      OBVIOUS
    <3>2. Occurrences(items, t) = 0
      BY <3>1, FS_EmptySet DEF Occurrences
    <3>3. QED BY <1>8, <3>2
  <2>2. {i \in 1..Len(items) : items[i] # Malformed} # {}
    BY <2>1, ConstantsAssumption
  <2>3. Cardinality({i \in 1..Len(items) : items[i] # Malformed}) # 0
    BY <1>3, <1>4, <2>2, FS_EmptySet
  <2>4. QED BY <1>5, <2>3 DEF WellFormed
<1>9. QED BY <1>5, <1>7, <1>8

-----------------------------------------------------------------------------
(* Type correctness *)

\* What appending does to the deques, for whatever number of rows.
LEMMA AppendRowsType ==
  ASSUME TypeOK, NEW add \in [Streams -> Nat], NEW malformed \in Nat,
         AppendRows(add, malformed)
  PROVE  /\ accepted' \in [Streams -> Nat]
         /\ \A s \in Streams : accepted'[s] = accepted[s] + add[s]
         /\ \A s \in Streams : accepted'[s] <= MaxRows[s]
         /\ buffer' \in [Streams -> Seq(Nat)]
         /\ \A s \in Streams : Len(buffer'[s]) <= BufferMax[s]
         /\ \A s \in Streams :
              buffer[s] # <<>> \/ add[s] > 0 => buffer'[s] # <<>>
         /\ dropped' \in Nat
<1> USE ConstantsAssumption
<1>1. accepted \in [Streams -> Nat] /\ buffer \in [Streams -> Seq(Nat)]
  BY DEF TypeOK
<1>2. accepted' = [s \in Streams |-> accepted[s] + add[s]]
  BY DEF AppendRows
<1>3. ASSUME NEW s \in Streams
      PROVE  /\ buffer'[s] = KeepLast(buffer[s] \o Fresh(s, add[s]), BufferMax[s])
             /\ buffer'[s] \in Seq(Nat)
             /\ Len(buffer'[s]) <= BufferMax[s]
             /\ buffer[s] # <<>> \/ add[s] > 0 => buffer'[s] # <<>>
  <2>1. buffer'[s] = KeepLast(buffer[s] \o Fresh(s, add[s]), BufferMax[s])
    BY DEF AppendRows
  <2> DEFINE fresh == Fresh(s, add[s])
             all == buffer[s] \o fresh
  <2>2. add[s] \in Nat
    OBVIOUS
  <2>3. fresh \in Seq(Nat) /\ Len(fresh) = add[s]
    BY <1>1, <2>2, FreshProperties
  <2>4. BufferMax[s] \in Nat /\ BufferMax[s] > 0
    OBVIOUS
  <2>5. buffer[s] \in Seq(Nat)
    BY <1>1
  <2> HIDE DEF fresh
  <2>6. add[s] > 0 => fresh # <<>>
    BY <2>3, LenProperties
  <2>7. all \in Seq(Nat) /\ (buffer[s] # <<>> \/ fresh # <<>> => all # <<>>)
    BY <2>3, <2>5, JoinProperties
  <2>8. buffer'[s] = KeepLast(all, BufferMax[s])
    BY <2>1 DEF fresh
  <2> HIDE DEF all
  <2>9. /\ KeepLast(all, BufferMax[s]) \in Seq(Nat)
        /\ Len(KeepLast(all, BufferMax[s])) <= BufferMax[s]
        /\ all # <<>> => KeepLast(all, BufferMax[s]) # <<>>
    BY <2>4, <2>7, KeepLastProperties
  <2>10. QED BY <2>1, <2>6, <2>7, <2>8, <2>9
<1>4. buffer' = [s \in Streams |-> buffer'[s]]
  BY DEF AppendRows
<1>5. buffer' \in [Streams -> Seq(Nat)]
  BY <1>3, <1>4
<1>6. ASSUME NEW s \in Streams
      PROVE  Evicted(s, add[s]) \in Nat
  BY <1>1 DEF Evicted
<1>7. dropped' \in Nat
  <2>1. dropped \in Nat
    BY DEF TypeOK
  <2>2. dropped' = dropped + malformed + Evicted("telemetry", add["telemetry"])
                                       + Evicted("topics", add["topics"])
    BY DEF AppendRows
  <2>3. Evicted("telemetry", add["telemetry"]) \in Nat
    BY <1>6 DEF Streams
  <2>4. Evicted("topics", add["topics"]) \in Nat
    BY <1>6 DEF Streams
  <2>5. QED BY <2>1, <2>2, <2>3, <2>4
<1>8. accepted' \in [Streams -> Nat] /\ \A s \in Streams : accepted'[s] = accepted[s] + add[s]
  BY <1>1, <1>2
<1>9. \A s \in Streams : accepted'[s] <= MaxRows[s]
  BY <1>2 DEF AppendRows
<1>10. QED BY <1>3, <1>5, <1>7, <1>8, <1>9

\* Putting the batches back keeps the deques within their maxlen.
LEMMA RequeueType ==
  ASSUME TypeOK, Requeue
  PROVE  /\ buffer' \in [Streams -> Seq(Nat)]
         /\ \A s \in Streams : Len(buffer'[s]) <= BufferMax[s]
         /\ \A s \in Streams :
              buffer[s] # <<>> \/ batch[s] # <<>> => buffer'[s] # <<>>
         /\ batch' = NoRows /\ counts' = NoCounts
         /\ catalog' \in [Topics -> Nat]
<1> USE ConstantsAssumption
<1>1. ASSUME NEW s \in Streams
      PROVE  /\ buffer'[s] \in Seq(Nat)
             /\ Len(buffer'[s]) <= BufferMax[s]
             /\ buffer[s] # <<>> \/ batch[s] # <<>> => buffer'[s] # <<>>
  <2>1. buffer'[s] = KeepFirst(batch[s] \o buffer[s], BufferMax[s])
    BY DEF Requeue
  <2>2. batch[s] \in Seq(Nat) /\ buffer[s] \in Seq(Nat)
    BY DEF TypeOK
  <2>3. batch[s] \o buffer[s] \in Seq(Nat)
    BY <2>2
  <2>4. buffer[s] # <<>> \/ batch[s] # <<>> => batch[s] \o buffer[s] # <<>>
    BY <2>2
  <2>5. BufferMax[s] \in Nat /\ BufferMax[s] > 0
    OBVIOUS
  <2>6. /\ KeepFirst(batch[s] \o buffer[s], BufferMax[s]) \in Seq(Nat)
        /\ Len(KeepFirst(batch[s] \o buffer[s], BufferMax[s])) <= BufferMax[s]
        /\ batch[s] \o buffer[s] # <<>> =>
             KeepFirst(batch[s] \o buffer[s], BufferMax[s]) # <<>>
    BY <2>3, <2>5, KeepFirstProperties
  <2>7. QED BY <2>1, <2>4, <2>6
<1>2. buffer' = [s \in Streams |-> buffer'[s]]
  BY DEF Requeue
<1>3. buffer' \in [Streams -> Seq(Nat)]
  BY <1>1, <1>2
<1>4. catalog' \in [Topics -> Nat]
  BY DEF Requeue, TypeOK
<1>5. batch' = NoRows /\ counts' = NoCounts
  BY DEF Requeue
<1>6. QED BY <1>1, <1>3, <1>4, <1>5

\* Empty batches are batches.
LEMMA EmptyBatches ==
  /\ NoRows \in [Streams -> Seq(Nat)]
  /\ \A s \in Streams : NoRows[s] = <<>> /\ Len(NoRows[s]) <= BufferMax[s]
  /\ NoCounts \in [Topics -> Nat]
BY ConstantsAssumption DEF NoRows, NoCounts

\* A commit adds copies and nothing else.
LEMMA CommitsType ==
  ASSUME TypeOK, Commits
  PROVE  stored' \in [RowIds -> Nat] /\ tallied' \in [Topics -> Nat]
BY DEF TypeOK, Commits

\* The next suspension point is one of the program's.
LEMMA NextPC ==
  ASSUME NEW b, NEW c
  PROVE  /\ Rest \in {"sleep", "stopped"}
         /\ FirstCall(b, c) \in PCs
         /\ pc \in Calls => NextCall \in PCs
BY DEF Rest, FirstCall, AfterTelemetry, AfterTopics, AfterCatalog, AfterEvents,
       NextCall, PCs, Calls

\* What a thread stores is of the type of the orphan.
LEMMA ThreadType ==
  ASSUME TypeOK
  PROVE  InThread \in [rows : [Streams -> SUBSET Nat], counts : [Topics -> Nat]]
<1>1. ASSUME NEW s \in Streams PROVE Image(batch[s]) \subseteq Nat
  <2>1. batch[s] \in Seq(Nat)
    BY DEF TypeOK
  <2>2. QED BY <2>1 DEF Image
<1>2. counts \in [Topics -> Nat] /\ NoCounts \in [Topics -> Nat]
  BY EmptyBatches DEF TypeOK
<1>3. [s \in Streams |-> IF pc = s THEN Image(batch[s]) ELSE {}]
        \in [Streams -> SUBSET Nat]
  BY <1>1
<1>4. QED BY <1>2, <1>3 DEF InThread

\* So is what the orphan leaves when it has ended.
LEMMA NothingType ==
  Nothing \in [rows : [Streams -> SUBSET Nat], counts : [Topics -> Nat]]
BY EmptyBatches DEF Nothing

LEMMA InitType == Init => TypeOK
<1> SUFFICES ASSUME Init PROVE TypeOK
  OBVIOUS
<1> USE ConstantsAssumption DEF Init
<1>1. accepted \in [Streams -> Nat] /\ \A s \in Streams : accepted[s] <= MaxRows[s]
  BY DEF Adding, Streams
<1>2. /\ buffer \in [Streams -> Seq(Nat)]
      /\ \A s \in Streams : Len(buffer[s]) <= BufferMax[s]
  <2>1. buffer = [s \in Streams |-> IF s = "events" THEN <<1>> ELSE <<>>]
    BY DEF NoRows
  <2>2. <<1>> \in Seq(Nat) /\ Len(<<1>>) = 1 /\ <<>> \in Seq(Nat) /\ Len(<<>>) = 0
    OBVIOUS
  <2>3. \A s \in Streams : BufferMax[s] \in Nat /\ BufferMax[s] > 0
    OBVIOUS
  <2>4. ASSUME NEW s \in Streams
        PROVE  buffer[s] \in Seq(Nat) /\ Len(buffer[s]) <= BufferMax[s]
    <3>1. CASE s = "events"
      BY <2>1, <2>2, <2>3, <3>1
    <3>2. CASE s # "events"
      <4>1. buffer[s] = <<>>
        BY <2>1, <3>2
      <4>2. 0 <= BufferMax[s]
        BY <2>3
      <4>3. QED BY <4>1, <4>2, <2>2
    <3>3. QED BY <3>1, <3>2
  <2>5. QED BY <2>1, <2>4
<1>3. audit \in [Robots -> [state : States \cup {NoState}, errors : SUBSET Faults]]
  OBVIOUS
<1>4. stored \in [RowIds -> Nat]
  OBVIOUS
<1>5. QED BY <1>1, <1>2, <1>3, <1>4, EmptyBatches, NothingType DEF TypeOK, PCs

LEMMA StepType == TypeOK /\ [Next]_vars => TypeOK'
<1> SUFFICES ASSUME TypeOK, [Next]_vars PROVE TypeOK'
  OBVIOUS
<1> USE ConstantsAssumption
<1>1. ASSUME NEW r \in Robots, NEW st \in States, NEW errs \in SUBSET Faults,
             Record(r, st, errs)
      PROVE  TypeOK'
  <2> DEFINE ev == StateEvents(r, st) + FaultEvents(r, errs)
  <2>1. ev \in Nat
    BY DEF StateEvents, FaultEvents
  <2> HIDE DEF ev
  <2>2. AppendRows(Adding(1, 0, ev), 0)
    BY <1>1 DEF Record, ev
  <2>3. Adding(1, 0, ev) \in [Streams -> Nat]
    BY <2>1, AddingType
  <2>4. /\ accepted' \in [Streams -> Nat]
        /\ \A s \in Streams : accepted'[s] <= MaxRows[s]
        /\ buffer' \in [Streams -> Seq(Nat)]
        /\ \A s \in Streams : Len(buffer'[s]) <= BufferMax[s]
        /\ dropped' \in Nat
    BY <2>2, <2>3, AppendRowsType
  <2>5. audit' \in [Robots -> [state : States \cup {NoState}, errors : SUBSET Faults]]
    BY <1>1 DEF Record, TypeOK
  <2>6. QED BY <1>1, <2>4, <2>5 DEF Record, TypeOK, flight, tables
<1>2. ASSUME NEW r \in Robots, NEW items \in Batches, NEW skewed \in BOOLEAN,
             RecordTopics(r, items, skewed)
      PROVE  TypeOK'
  <2> DEFINE add == Adding(0, WellFormed(items), SkewEvents(r, skewed))
             bad == Occurrences(items, Malformed)
  <2>1. /\ WellFormed(items) \in Nat
        /\ bad \in Nat
        /\ \A t \in Topics : Occurrences(items, t) \in Nat
    BY ItemCounts
  <2>2. SkewEvents(r, skewed) \in Nat
    BY DEF SkewEvents
  <2>3. add \in [Streams -> Nat]
    BY <2>1, <2>2, AddingType
  <2> HIDE DEF add, bad
  <2>4. AppendRows(add, bad)
    BY <1>2 DEF RecordTopics, add, bad
  <2>5. /\ accepted' \in [Streams -> Nat]
        /\ \A s \in Streams : accepted'[s] <= MaxRows[s]
        /\ buffer' \in [Streams -> Seq(Nat)]
        /\ \A s \in Streams : Len(buffer'[s]) <= BufferMax[s]
        /\ dropped' \in Nat
    BY <2>1, <2>3, <2>4, AppendRowsType
  <2>6. catalog' \in [Topics -> Nat]
    BY <1>2, <2>1 DEF RecordTopics, TypeOK
  <2>7. skewWarned' \subseteq Robots
    BY <1>2 DEF RecordTopics, TypeOK
  <2>8. QED BY <1>2, <2>5, <2>6, <2>7 DEF RecordTopics, TypeOK, flight, tables
<1>3. CASE NoteEvent
  <2>1. Adding(0, 0, 1) \in [Streams -> Nat]
    BY AddingType
  <2>2. AppendRows(Adding(0, 0, 1), 0)
    BY <1>3 DEF NoteEvent
  <2>3. QED BY <1>3, <2>1, <2>2, AppendRowsType DEF NoteEvent, TypeOK, flight, tables
<1>4. ASSUME TakeBatch, stored' = stored, tallied' = tallied
      PROVE  /\ buffer' \in [Streams -> Seq(Nat)]
             /\ batch' \in [Streams -> Seq(Nat)]
             /\ \A s \in Streams : Len(buffer'[s]) <= BufferMax[s]
                                /\ Len(batch'[s]) <= BufferMax[s]
             /\ catalog' \in [Topics -> Nat]
             /\ counts' \in [Topics -> Nat]
             /\ pc' \in PCs
  BY <1>4, EmptyBatches, NextPC DEF TakeBatch, TypeOK
<1>5. CASE FlushStarts
  BY <1>4, <1>5 DEF FlushStarts, TypeOK, tables
<1>6. CASE ReconnectStarts
  BY <1>6 DEF ReconnectStarts, TypeOK, memory, flight, tables, PCs
<1>7. CASE FinalFlushReturns
  BY <1>7 DEF FinalFlushReturns, TypeOK, memory, flight, tables, PCs
<1>8. CASE ReconnectSucceeds
  BY <1>4, <1>8 DEF ReconnectSucceeds, TypeOK, tables
<1>9. CASE ReconnectFails
  <2>1. pc' \in PCs
    BY <1>9, NextPC DEF ReconnectFails, PCs
  <2>2. QED BY <1>9, <2>1 DEF ReconnectFails, TypeOK, memory, flight, tables
<1>10. CASE BackoffElapses
  BY <1>10 DEF BackoffElapses, TypeOK, memory, flight, tables
<1>11. CASE CallReturns
  <2>1. stored' \in [RowIds -> Nat] /\ tallied' \in [Topics -> Nat]
    BY <1>11, CommitsType DEF CallReturns
  <2>2. pc' \in PCs
    BY <1>11, NextPC DEF CallReturns
  <2>3. seen' \subseteq Robots
    BY <1>11 DEF CallReturns, TypeOK
  <2>4. /\ batch' \in [Streams -> Seq(Nat)]
        /\ \A s \in Streams : Len(batch'[s]) <= BufferMax[s]
        /\ counts' \in [Topics -> Nat]
    <3>1. CASE NextCall \in Calls
      BY <1>11, <3>1 DEF CallReturns, TypeOK, flight
    <3>2. CASE NextCall \notin Calls
      BY <1>11, <3>2, EmptyBatches DEF CallReturns
    <3>3. QED BY <3>1, <3>2
  <2>5. QED BY <1>11, <2>1, <2>2, <2>3, <2>4 DEF CallReturns, TypeOK
<1>12. CASE CallRaises
  <2>1. stored' \in [RowIds -> Nat] /\ tallied' \in [Topics -> Nat]
    BY <1>12, CommitsType DEF CallRaises, TypeOK, tables
  <2>2. pc' \in PCs
    BY <1>12, NextPC DEF CallRaises, PCs
  <2>3. Requeue
    BY <1>12 DEF CallRaises
  <2>4. failures' \in Nat
    BY <1>12 DEF CallRaises, TypeOK
  <2>5. QED BY <1>12, <2>1, <2>2, <2>3, <2>4, RequeueType, EmptyBatches
             DEF CallRaises, TypeOK
<1>13. CASE Stop
  <2>1. Adding(0, 0, 1) \in [Streams -> Nat]
    BY AddingType
  <2>2. AppendRows(Adding(0, 0, 1), 0)
    BY <1>13 DEF Stop
  <2>3. orphan' \in [rows : [Streams -> SUBSET Nat], counts : [Topics -> Nat]]
    BY <1>13, ThreadType DEF Stop
  <2>4. QED BY <1>13, <2>1, <2>2, <2>3, AppendRowsType, EmptyBatches
             DEF Stop, TypeOK, PCs, tables
<1>14. CASE CloseDatabase
  BY <1>14 DEF CloseDatabase, TypeOK, memory, flight, tables
<1>15. CASE OrphanCommits
  <2>1. /\ orphan.rows \in [Streams -> SUBSET Nat] /\ orphan.counts \in [Topics -> Nat]
        /\ stored \in [RowIds -> Nat] /\ tallied \in [Topics -> Nat]
    BY DEF TypeOK
  <2>2. stored' \in [RowIds -> Nat]
    BY <1>15, <2>1 DEF OrphanCommits
  <2>3. tallied' \in [Topics -> Nat]
    BY <1>15, <2>1 DEF OrphanCommits
  <2>4. QED BY <1>15, <2>2, <2>3, NothingType DEF OrphanCommits, TypeOK, memory, flight
<1>16. CASE OrphanFails
  BY <1>16, NothingType DEF OrphanFails, TypeOK, memory, flight, tables
<1>17. CASE UNCHANGED vars
  BY <1>17 DEF vars, TypeOK, memory, flight, tables
<1>18. QED
  BY <1>1, <1>2, <1>3, <1>5, <1>6, <1>7, <1>8, <1>9, <1>10, <1>11, <1>12, <1>13,
     <1>14, <1>15, <1>16, <1>17 DEF Next

\* Every counter, deque and table keeps its type, and the deques their maxlen.
THEOREM TypeCorrect == Safety => []TypeOK
<1>1. Init => TypeOK
  BY InitType
<1>2. TypeOK /\ [Next]_vars => TypeOK'
  BY StepType
<1>3. QED BY <1>1, <1>2, PTL DEF Safety

-----------------------------------------------------------------------------
(* Order of arrival *)

Within(q, n) == \A i \in 1..Len(q) : q[i] \in 1..n
Before(q, r) == \A i \in 1..Len(q), j \in 1..Len(r) : q[i] < r[j]

\* Two queues joined are in order exactly when each is and the first comes
\* before the second.
LEMMA JoinOrder ==
  ASSUME NEW q \in Seq(Nat), NEW r \in Seq(Nat), NEW n \in Nat
  PROVE  /\ Increasing(q \o r) <=> Increasing(q) /\ Increasing(r) /\ Before(q, r)
         /\ Within(q \o r, n) <=> Within(q, n) /\ Within(r, n)
<1> DEFINE x == q \o r
<1>1. /\ x \in Seq(Nat)
      /\ Len(x) = Len(q) + Len(r)
      /\ Len(q) \in Nat /\ Len(r) \in Nat
      /\ \A i \in 1..Len(q) + Len(r) : x[i] = IF i <= Len(q) THEN q[i] ELSE r[i - Len(q)]
  BY JoinProperties
<1> HIDE DEF x
<1>2. \A i \in 1..Len(q) : i \in 1..Len(x) /\ x[i] = q[i]
  BY <1>1
<1>3. \A j \in 1..Len(r) : Len(q) + j \in 1..Len(x) /\ x[Len(q) + j] = r[j]
  <2>1. ASSUME NEW j \in 1..Len(r)
        PROVE  Len(q) + j \in 1..Len(x) /\ x[Len(q) + j] = r[j]
    <3>1. /\ Len(q) + j \in 1..Len(q) + Len(r)
          /\ ~(Len(q) + j <= Len(q))
          /\ (Len(q) + j) - Len(q) = j
      BY <1>1
    <3>2. x[Len(q) + j] = r[(Len(q) + j) - Len(q)]
      BY <1>1, <3>1
    <3>3. QED BY <1>1, <3>1, <3>2
  <2>2. QED BY <2>1
<1>4. \A i \in 1..Len(x) :
        i \in 1..Len(q) \/ (i - Len(q) \in 1..Len(r) /\ x[i] = r[i - Len(q)])
  BY <1>1
<1>5. ASSUME Increasing(x) PROVE Increasing(q) /\ Increasing(r) /\ Before(q, r)
  <2>1. Increasing(q)
    BY <1>2, <1>5 DEF Increasing
  <2>2. Increasing(r)
    <3>1. ASSUME NEW i \in 1..Len(r), NEW j \in 1..Len(r), i < j PROVE r[i] < r[j]
      <4>1. Len(q) + i < Len(q) + j
        BY <1>1, <3>1
      <4>2. QED BY <1>3, <1>5, <4>1 DEF Increasing
    <3>2. QED BY <3>1 DEF Increasing
  <2>3. Before(q, r)
    <3>1. ASSUME NEW i \in 1..Len(q), NEW j \in 1..Len(r) PROVE q[i] < r[j]
      <4>1. i < Len(q) + j
        BY <1>1
      <4>2. QED BY <1>2, <1>3, <1>5, <4>1 DEF Increasing
    <3>2. QED BY <3>1 DEF Before
  <2>4. QED BY <2>1, <2>2, <2>3
<1>6. ASSUME Increasing(q), Increasing(r), Before(q, r) PROVE Increasing(x)
  <2>1. ASSUME NEW i \in 1..Len(x), NEW j \in 1..Len(x), i < j PROVE x[i] < x[j]
    <3>1. CASE i \in 1..Len(q) /\ j \in 1..Len(q)
      BY <1>2, <1>6, <2>1, <3>1 DEF Increasing
    <3>2. CASE i \in 1..Len(q) /\ j \notin 1..Len(q)
      BY <1>2, <1>4, <1>6, <3>2 DEF Before
    <3>3. CASE i \notin 1..Len(q)
      <4>1. j \notin 1..Len(q)
        BY <1>1, <2>1, <3>3
      <4>2. /\ i - Len(q) \in 1..Len(r) /\ x[i] = r[i - Len(q)]
            /\ j - Len(q) \in 1..Len(r) /\ x[j] = r[j - Len(q)]
        BY <1>4, <3>3, <4>1
      <4>3. i - Len(q) < j - Len(q)
        BY <1>1, <2>1
      <4>4. QED BY <1>6, <4>2, <4>3 DEF Increasing
    <3>4. QED BY <3>1, <3>2, <3>3
  <2>2. QED BY <2>1 DEF Increasing
<1>7. Within(x, n) <=> Within(q, n) /\ Within(r, n)
  BY <1>2, <1>3, <1>4 DEF Within
<1>8. QED BY <1>5, <1>6, <1>7 DEF x

\* A deque that discards rows stays in order and in range.
LEMMA KeptOrder ==
  ASSUME NEW q \in Seq(Nat), NEW n \in Nat, NEW k, NEW b \in Seq(Nat), NEW m \in Nat,
         k = KeepLast(q, n) \/ k = KeepFirst(q, n)
  PROVE  /\ Increasing(q) => Increasing(k)
         /\ Within(q, m) => Within(k, m)
         /\ Before(b, q) => Before(b, k)
         /\ Image(k) \subseteq Image(q)
<1>1. PICK d \in Nat : \A i \in 1..Len(k) : i + d \in 1..Len(q) /\ k[i] = q[i + d]
  <2>1. CASE k = KeepLast(q, n)
    <3>1. /\ KeepLast(q, n) \in Seq(Nat)
          /\ Len(KeepLast(q, n)) <= Len(q)
          /\ \A i \in 1..Len(KeepLast(q, n)) :
               /\ i + (Len(q) - Len(KeepLast(q, n))) \in 1..Len(q)
               /\ KeepLast(q, n)[i] = q[i + (Len(q) - Len(KeepLast(q, n)))]
      BY KeepLastProperties
    <3>2. Len(q) - Len(k) \in Nat
      BY <2>1, <3>1
    <3>3. QED BY <2>1, <3>1, <3>2
  <2>2. CASE k = KeepFirst(q, n)
    <3>1. /\ KeepFirst(q, n) \in Seq(Nat)
          /\ Len(KeepFirst(q, n)) <= Len(q)
          /\ \A i \in 1..Len(KeepFirst(q, n)) : KeepFirst(q, n)[i] = q[i]
      BY KeepFirstProperties
    <3>2. \A i \in 1..Len(k) : i + 0 \in 1..Len(q) /\ k[i] = q[i + 0]
      BY <2>2, <3>1
    <3>3. QED BY <3>2
  <2>3. QED BY <2>1, <2>2
<1>2. Increasing(q) => Increasing(k)
  BY <1>1 DEF Increasing
<1>3. Within(q, m) => Within(k, m)
  BY <1>1 DEF Within
<1>4. Before(b, q) => Before(b, k)
  BY <1>1 DEF Before
<1>5. Image(k) \subseteq Image(q)
  BY <1>1 DEF Image
<1>6. QED BY <1>2, <1>3, <1>4, <1>5

\* Fresh rows come after everything accepted before them.
LEMMA FreshOrder ==
  ASSUME accepted \in [Streams -> Nat], NEW s \in Streams, NEW k \in Nat,
         NEW q \in Seq(Nat), Within(q, accepted[s])
  PROVE  /\ Fresh(s, k) \in Seq(Nat)
         /\ Increasing(Fresh(s, k))
         /\ Within(Fresh(s, k), accepted[s] + k)
         /\ Before(q, Fresh(s, k))
         /\ Within(q, accepted[s] + k)
         /\ \A n \in Image(Fresh(s, k)) : n > accepted[s]
<1>1. /\ Fresh(s, k) \in Seq(Nat)
      /\ Len(Fresh(s, k)) = k
      /\ \A i \in 1..k : Fresh(s, k)[i] = accepted[s] + i
  BY FreshProperties
<1>2. accepted[s] \in Nat
  OBVIOUS
<1> DEFINE f == Fresh(s, k)
<1> HIDE DEF f
<1>3. f \in Seq(Nat) /\ Len(f) = k /\ \A i \in 1..k : f[i] = accepted[s] + i
  BY <1>1 DEF f
<1>4. Increasing(f)
  BY <1>2, <1>3 DEF Increasing
<1>5. Within(f, accepted[s] + k) /\ Within(q, accepted[s] + k)
  BY <1>2, <1>3 DEF Within
<1>6. Before(q, f)
  BY <1>2, <1>3 DEF Within, Before
<1>7. \A n \in Image(f) : n > accepted[s]
  BY <1>2, <1>3 DEF Image
<1>8. QED BY <1>3, <1>4, <1>5, <1>6, <1>7 DEF f

Ordered(q, r, n) ==
  Increasing(q) /\ Increasing(r) /\ Before(q, r) /\ Within(q, n) /\ Within(r, n)

\* The three recording callbacks, seen from the flush task.
Callback ==
  \/ \E r \in Robots, st \in States, errs \in SUBSET Faults : Record(r, st, errs)
  \/ \E r \in Robots, items \in Batches, skewed \in BOOLEAN :
       RecordTopics(r, items, skewed)
  \/ NoteEvent

LEMMA CallbackAppends ==
  ASSUME TypeOK, Callback
  PROVE  \E add \in [Streams -> Nat], malformed \in Nat :
           /\ AppendRows(add, malformed)
           /\ UNCHANGED <<failures, pc, stopping, orphan, flight, ready, cooling,
                         tables>>
<1>1. ASSUME NEW r \in Robots, NEW st \in States, NEW errs \in SUBSET Faults,
             Record(r, st, errs)
      PROVE  \E add \in [Streams -> Nat], malformed \in Nat :
               /\ AppendRows(add, malformed)
               /\ UNCHANGED <<failures, pc, stopping, orphan, flight, ready, cooling,
                         tables>>
  <2> DEFINE ev == StateEvents(r, st) + FaultEvents(r, errs)
  <2>1. ev \in Nat
    BY DEF StateEvents, FaultEvents
  <2>2. Adding(1, 0, ev) \in [Streams -> Nat]
    BY <2>1, AddingType
  <2>3. QED BY <1>1, <2>2 DEF Record
<1>2. ASSUME NEW r \in Robots, NEW items \in Batches, NEW skewed \in BOOLEAN,
             RecordTopics(r, items, skewed)
      PROVE  \E add \in [Streams -> Nat], malformed \in Nat :
               /\ AppendRows(add, malformed)
               /\ UNCHANGED <<failures, pc, stopping, orphan, flight, ready, cooling,
                         tables>>
  <2>1. WellFormed(items) \in Nat /\ Occurrences(items, Malformed) \in Nat
    BY ItemCounts
  <2>2. SkewEvents(r, skewed) \in Nat
    BY DEF SkewEvents
  <2>3. Adding(0, WellFormed(items), SkewEvents(r, skewed)) \in [Streams -> Nat]
    BY <2>1, <2>2, AddingType
  <2>4. QED BY <1>2, <2>1, <2>3 DEF RecordTopics
<1>3. ASSUME NoteEvent
      PROVE  \E add \in [Streams -> Nat], malformed \in Nat :
               /\ AppendRows(add, malformed)
               /\ UNCHANGED <<failures, pc, stopping, orphan, flight, ready, cooling,
                         tables>>
  <2>1. Adding(0, 0, 1) \in [Streams -> Nat]
    BY AddingType
  <2>2. QED BY <1>3, <2>1 DEF NoteEvent
<1>4. QED BY <1>1, <1>2, <1>3 DEF Callback

\* Appending keeps the order behind any batch taken earlier.
LEMMA AppendRowsOrder ==
  ASSUME TypeOK, NEW add \in [Streams -> Nat], NEW malformed \in Nat,
         AppendRows(add, malformed), NEW s \in Streams, NEW b \in Seq(Nat),
         Ordered(b, buffer[s], accepted[s])
  PROVE  /\ Ordered(b, buffer'[s], accepted'[s])
         /\ \A n \in Image(buffer'[s]) : n \in Image(buffer[s]) \/ n > accepted[s]
<1> DEFINE f == Fresh(s, add[s])
           all == buffer[s] \o f
<1>1. /\ accepted \in [Streams -> Nat] /\ accepted[s] \in Nat
      /\ buffer[s] \in Seq(Nat) /\ add[s] \in Nat /\ BufferMax[s] \in Nat
  BY ConstantsAssumption DEF TypeOK
<1>2. /\ f \in Seq(Nat) /\ Increasing(f) /\ Within(f, accepted[s] + add[s])
      /\ Before(buffer[s], f) /\ Within(buffer[s], accepted[s] + add[s])
      /\ \A n \in Image(f) : n > accepted[s]
  BY <1>1, FreshOrder DEF Ordered
<1>3. Before(b, f) /\ Within(b, accepted[s] + add[s])
  BY <1>1, FreshOrder DEF Ordered
<1>4. buffer'[s] = KeepLast(all, BufferMax[s]) /\ accepted'[s] = accepted[s] + add[s]
  BY DEF AppendRows
<1> HIDE DEF f
<1>5. /\ all \in Seq(Nat)
      /\ Len(all) = Len(buffer[s]) + Len(f)
      /\ Len(buffer[s]) \in Nat /\ Len(f) \in Nat
      /\ \A i \in 1..Len(buffer[s]) + Len(f) :
           all[i] = IF i <= Len(buffer[s]) THEN buffer[s][i] ELSE f[i - Len(buffer[s])]
  BY <1>1, <1>2, JoinProperties
<1>6. Increasing(all) /\ Within(all, accepted[s] + add[s])
  BY <1>1, <1>2, JoinOrder DEF Ordered
<1> HIDE DEF all
<1>7. ASSUME NEW i \in 1..Len(all)
      PROVE  \/ i \in 1..Len(buffer[s]) /\ all[i] = buffer[s][i]
             \/ i - Len(buffer[s]) \in 1..Len(f) /\ all[i] = f[i - Len(buffer[s])]
  <2> DEFINE n == Len(buffer[s])
             k == Len(f)
  <2>1. n \in Nat /\ k \in Nat /\ i \in 1..(n + k)
    BY <1>5
  <2>2. all[i] = IF i <= n THEN buffer[s][i] ELSE f[i - n]
    BY <1>5, <2>1
  <2> HIDE DEF n, k
  <2>3. i \in 1..n \/ (~(i <= n) /\ i - n \in 1..k)
    BY <2>1
  <2>4. QED BY <2>2, <2>3 DEF n, k
<1>8. Before(b, all)
  BY <1>3, <1>7 DEF Before, Ordered
<1>9. \A n \in Image(all) : n \in Image(buffer[s]) \/ n > accepted[s]
  BY <1>2, <1>7 DEF Image
<1>10. /\ Increasing(buffer'[s]) /\ Within(buffer'[s], accepted[s] + add[s])
       /\ Before(b, buffer'[s]) /\ Image(buffer'[s]) \subseteq Image(all)
  <2> DEFINE k == KeepLast(all, BufferMax[s])
             m == accepted[s] + add[s]
  <2>1. m \in Nat /\ BufferMax[s] \in Nat /\ all \in Seq(Nat)
    BY <1>1, <1>5
  <2>2. Increasing(all) /\ Within(all, m) /\ Before(b, all)
    BY <1>6, <1>8
  <2>3. k = KeepLast(all, BufferMax[s])
    OBVIOUS
  <2> HIDE DEF k, m
  <2>4. Increasing(k) /\ Within(k, m) /\ Before(b, k) /\ Image(k) \subseteq Image(all)
    BY <2>1, <2>2, <2>3, KeptOrder
  <2>5. QED BY <1>4, <2>4 DEF k, m
<1>11. QED BY <1>3, <1>4, <1>9, <1>10 DEF Ordered

\* An empty batch or deque is in order with any other.
LEMMA OrderedEmpty ==
  ASSUME NEW q \in Seq(Nat), NEW r \in Seq(Nat), NEW n \in Nat, Ordered(q, r, n)
  PROVE  Ordered(<<>>, r, n) /\ Ordered(q, <<>>, n)
BY DEF Ordered, Increasing, Before, Within

LEMMA QueueSplit ==
  ASSUME TypeOK, QueueInv, NEW s \in Streams
  PROVE  Ordered(batch[s], buffer[s], accepted[s])
<1>1. batch[s] \in Seq(Nat) /\ buffer[s] \in Seq(Nat) /\ accepted[s] \in Nat
  BY DEF TypeOK
<1>2. QED BY <1>1, JoinOrder DEF QueueInv, Queue, Ordered, Within

LEMMA StepQueue ==
  ASSUME TypeOK, TypeOK', FlightInv, QueueInv, [Next]_vars
  PROVE  QueueInv'
<1>1. SUFFICES ASSUME NEW s \in Streams
               PROVE  Ordered(batch'[s], buffer'[s], accepted'[s])
  <2>1. \A t \in Streams :
          batch'[t] \in Seq(Nat) /\ buffer'[t] \in Seq(Nat) /\ accepted'[t] \in Nat
    BY DEF TypeOK
  <2>2. QED BY <2>1, JoinOrder DEF QueueInv, Queue, Ordered, Within
<1>2. /\ batch[s] \in Seq(Nat) /\ buffer[s] \in Seq(Nat) /\ accepted[s] \in Nat
      /\ BufferMax[s] \in Nat
      /\ Ordered(batch[s], buffer[s], accepted[s])
  BY QueueSplit, ConstantsAssumption DEF TypeOK
<1>3. CASE Callback
  <2>1. PICK add \in [Streams -> Nat], malformed \in Nat :
          AppendRows(add, malformed) /\ UNCHANGED flight
    BY <1>3, CallbackAppends
  <2>2. QED BY <1>2, <2>1, AppendRowsOrder DEF flight
<1>4. ASSUME TakeBatch, pc \notin Calls, accepted' = accepted
      PROVE  Ordered(batch'[s], buffer'[s], accepted'[s])
  <2>1. batch'[s] = buffer[s] /\ buffer'[s] = <<>>
    BY <1>4 DEF TakeBatch, NoRows
  <2>2. QED BY <1>2, <1>4, <2>1 DEF Ordered, Increasing, Before, Within
<1>5. CASE FlushStarts
  BY <1>4, <1>5 DEF FlushStarts, Calls
<1>6. CASE ReconnectSucceeds
  BY <1>4, <1>6 DEF ReconnectSucceeds, Calls
<1>7. CASE CallReturns
  <2>1. buffer' = buffer /\ accepted' = accepted
    BY <1>7 DEF CallReturns
  <2>2. batch'[s] = batch[s] \/ batch'[s] = <<>>
    BY <1>7 DEF CallReturns, flight, NoRows
  <2>3. QED BY <1>2, <2>1, <2>2, OrderedEmpty
<1>8. CASE CallRaises
  <2>1. /\ buffer'[s] = KeepFirst(batch[s] \o buffer[s], BufferMax[s])
        /\ batch'[s] = <<>>
        /\ accepted'[s] = accepted[s]
    BY <1>8 DEF CallRaises, Requeue, NoRows
  <2>2. /\ batch[s] \o buffer[s] \in Seq(Nat)
        /\ Increasing(batch[s] \o buffer[s])
        /\ Within(batch[s] \o buffer[s], accepted[s])
    BY <1>2, JoinOrder, JoinProperties DEF Ordered
  <2>3. Increasing(buffer'[s]) /\ Within(buffer'[s], accepted[s])
    BY <1>2, <2>1, <2>2, KeptOrder
  <2>4. QED BY <2>1, <2>3 DEF Ordered, Increasing, Before, Within
<1>9. CASE Stop
  <2>1. Adding(0, 0, 1) \in [Streams -> Nat]
    BY AddingType
  <2>2. AppendRows(Adding(0, 0, 1), 0) /\ batch'[s] = <<>>
    BY <1>9 DEF Stop, NoRows
  <2>3. Ordered(<<>>, buffer[s], accepted[s]) /\ <<>> \in Seq(Nat)
    BY <1>2, OrderedEmpty
  <2>4. QED BY <2>1, <2>2, <2>3, AppendRowsOrder
<1>10. ASSUME UNCHANGED <<memory, flight>>
       PROVE  Ordered(batch'[s], buffer'[s], accepted'[s])
  BY <1>2, <1>10 DEF memory, flight
<1>11. CASE ReconnectStarts \/ FinalFlushReturns \/ ReconnectFails \/ BackoffElapses
            \/ CloseDatabase \/ OrphanCommits \/ OrphanFails
  BY <1>10, <1>11 DEF ReconnectStarts, FinalFlushReturns, ReconnectFails,
                      BackoffElapses, CloseDatabase, OrphanCommits, OrphanFails
<1>12. CASE UNCHANGED vars
  BY <1>10, <1>12 DEF vars
<1>13. QED
  BY <1>3, <1>5, <1>6, <1>7, <1>8, <1>9, <1>11, <1>12 DEF Next, Callback

-----------------------------------------------------------------------------
(* What is in flight *)

\* A flush that starts with work issues a call.
LEMMA TakeBatchFlight ==
  ASSUME TypeOK, HasWork, TakeBatch
  PROVE  pc' \in Calls /\ \E s \in Streams : batch'[s] # <<>>
<1>1. PICK s \in Streams : buffer[s] # <<>>
  BY DEF HasWork
<1>2. batch' = buffer
  BY DEF TakeBatch
<1>3. FirstCall(buffer, catalog) \in Calls
  BY <1>1 DEF FirstCall, AfterTelemetry, AfterTopics, AfterCatalog, AfterEvents,
              Rest, Calls, Streams
<1>4. QED BY <1>1, <1>2, <1>3 DEF TakeBatch

LEMMA StepFlight ==
  ASSUME TypeOK, FlightInv, WorkInv, [Next]_vars
  PROVE  FlightInv'
<1>1. CASE Callback
  BY <1>1, CallbackAppends DEF FlightInv, flight
<1>2. CASE FlushStarts
  BY <1>2, TakeBatchFlight DEF FlushStarts, FlightInv
<1>3. CASE ReconnectSucceeds
  BY <1>3, TakeBatchFlight DEF ReconnectSucceeds, FlightInv, WorkInv
<1>4. CASE CallReturns
  BY <1>4 DEF CallReturns, FlightInv, flight
<1>5. CASE CallRaises
  <2>1. pc' \notin Calls
    BY <1>5 DEF CallRaises, Rest, Calls
  <2>2. QED BY <1>5, <2>1 DEF CallRaises, Requeue, FlightInv
<1>6. CASE Stop
  BY <1>6 DEF Stop, FlightInv, Calls
<1>7. CASE ReconnectStarts
  BY <1>7 DEF ReconnectStarts, FlightInv, Calls, flight
<1>8. CASE FinalFlushReturns
  BY <1>8 DEF FinalFlushReturns, FlightInv, Calls, flight
<1>9. CASE ReconnectFails
  BY <1>9 DEF ReconnectFails, FlightInv, Calls, Rest, flight
<1>10. CASE BackoffElapses
  BY <1>10 DEF BackoffElapses, FlightInv, flight
<1>11. CASE CloseDatabase
  BY <1>11 DEF CloseDatabase, FlightInv, Calls, flight
<1>12. CASE OrphanCommits \/ OrphanFails
  BY <1>12 DEF OrphanCommits, OrphanFails, FlightInv, flight
<1>13. CASE UNCHANGED vars
  BY <1>13 DEF vars, FlightInv, flight
<1>14. QED
  BY <1>1, <1>2, <1>3, <1>4, <1>5, <1>6, <1>7, <1>8, <1>9, <1>10, <1>11, <1>12, <1>13
     DEF Next, Callback

-----------------------------------------------------------------------------
(* Work left to do *)

\* Counting occurrences of a topic implies a row of the topic stream.
LEMMA StepCatalog ==
  ASSUME TypeOK, FlightInv, CatalogInv, [Next]_vars
  PROVE  CatalogInv'
<1>1. ASSUME NEW r \in Robots, NEW st \in States, NEW errs \in SUBSET Faults,
             Record(r, st, errs)
      PROVE  CatalogInv'
  <2>1. Callback
    BY <1>1 DEF Callback
  <2>2. PICK add \in [Streams -> Nat], malformed \in Nat : AppendRows(add, malformed)
    BY <2>1, CallbackAppends
  <2>3. buffer["topics"] # <<>> => buffer'["topics"] # <<>>
    BY <2>2, AppendRowsType DEF Streams
  <2>4. QED BY <1>1, <2>3 DEF Record, CatalogInv, flight
<1>2. ASSUME NEW r \in Robots, NEW items \in Batches, NEW skewed \in BOOLEAN,
             RecordTopics(r, items, skewed)
      PROVE  CatalogInv'
  <2> DEFINE add == Adding(0, WellFormed(items), SkewEvents(r, skewed))
  <2>1. /\ WellFormed(items) \in Nat /\ Occurrences(items, Malformed) \in Nat
        /\ \A t \in Topics : /\ Occurrences(items, t) \in Nat
                             /\ Occurrences(items, t) > 0 => WellFormed(items) > 0
    BY ItemCounts
  <2>2. SkewEvents(r, skewed) \in Nat
    BY DEF SkewEvents
  <2>3. add \in [Streams -> Nat] /\ add["topics"] = WellFormed(items)
    BY <2>1, <2>2, AddingType
  <2>4. AppendRows(add, Occurrences(items, Malformed))
    BY <1>2 DEF RecordTopics
  <2> HIDE DEF add
  <2>5. buffer["topics"] # <<>> \/ add["topics"] > 0 => buffer'["topics"] # <<>>
    BY <2>1, <2>3, <2>4, AppendRowsType DEF Streams
  <2>6. ASSUME NEW t \in Topics, catalog'[t] > 0
        PROVE  buffer'["topics"] # <<>>
    <3>1. catalog'[t] = catalog[t] + Occurrences(items, t) /\ catalog[t] \in Nat
      BY <1>2 DEF RecordTopics, TypeOK
    <3>2. catalog[t] > 0 \/ Occurrences(items, t) > 0
      BY <2>1, <2>6, <3>1
    <3>3. QED BY <2>1, <2>3, <2>5, <3>2 DEF CatalogInv
  <2>7. QED BY <1>2, <2>6 DEF RecordTopics, CatalogInv, flight
<1>3. CASE NoteEvent
  <2>1. Adding(0, 0, 1) \in [Streams -> Nat]
    BY AddingType
  <2>2. buffer["topics"] # <<>> => buffer'["topics"] # <<>>
    BY <1>3, <2>1, AppendRowsType DEF NoteEvent, Streams
  <2>3. QED BY <1>3, <2>2 DEF NoteEvent, CatalogInv, flight
<1>4. ASSUME TakeBatch PROVE CatalogInv'
  <2>1. batch' = buffer /\ counts' = catalog /\ \A t \in Topics : ~(catalog'[t] > 0)
    BY <1>4 DEF TakeBatch, NoCounts
  <2>2. QED BY <2>1 DEF CatalogInv
<1>5. CASE FlushStarts \/ ReconnectSucceeds
  BY <1>4, <1>5 DEF FlushStarts, ReconnectSucceeds
<1>6. CASE CallReturns
  <2>1. catalog' = catalog /\ buffer' = buffer
    BY <1>6 DEF CallReturns
  <2>2. \/ batch' = batch /\ counts' = counts
        \/ \A t \in Topics : ~(counts'[t] > 0)
    BY <1>6 DEF CallReturns, flight, NoCounts
  <2>3. QED BY <2>1, <2>2 DEF CatalogInv
<1>7. CASE CallRaises
  <2>1. Requeue
    BY <1>7 DEF CallRaises
  <2>2. buffer["topics"] # <<>> \/ batch["topics"] # <<>> => buffer'["topics"] # <<>>
    BY <2>1, RequeueType DEF Streams
  <2>3. \A t \in Topics : catalog'[t] = IF counts[t] > 0 THEN counts[t] ELSE catalog[t]
    BY <2>1 DEF Requeue
  <2>4. \A t \in Topics : ~(counts'[t] > 0)
    BY <2>1 DEF Requeue, NoCounts
  <2>5. QED BY <2>2, <2>3, <2>4 DEF CatalogInv
<1>8. CASE Stop
  <2>1. Adding(0, 0, 1) \in [Streams -> Nat]
    BY AddingType
  <2>2. buffer["topics"] # <<>> => buffer'["topics"] # <<>>
    BY <1>8, <2>1, AppendRowsType DEF Stop, Streams
  <2>3. catalog' = catalog /\ \A t \in Topics : ~(counts'[t] > 0)
    BY <1>8 DEF Stop, NoCounts
  <2>4. QED BY <2>2, <2>3 DEF CatalogInv
<1>9. ASSUME UNCHANGED <<memory, flight>> PROVE CatalogInv'
  BY <1>9 DEF memory, flight, CatalogInv
<1>10. CASE ReconnectStarts \/ FinalFlushReturns \/ ReconnectFails \/ BackoffElapses
            \/ CloseDatabase \/ OrphanCommits \/ OrphanFails
  BY <1>9, <1>10 DEF ReconnectStarts, FinalFlushReturns, ReconnectFails,
                     BackoffElapses, CloseDatabase, OrphanCommits, OrphanFails
<1>11. CASE UNCHANGED vars
  BY <1>9, <1>11 DEF vars
<1>12. QED
  BY <1>1, <1>2, <1>3, <1>5, <1>6, <1>7, <1>8, <1>10, <1>11 DEF Next

\* A callback empties no deque, and one that marks a robot seen adds a row.
LEMMA CallbackWork ==
  ASSUME TypeOK, Callback
  PROVE  /\ HasWork => HasWork'
         /\ seen' # seen => HasWork'
<1>1. HasWork => HasWork'
  <2>1. PICK add \in [Streams -> Nat], malformed \in Nat : AppendRows(add, malformed)
    BY CallbackAppends
  <2>2. \A s \in Streams : buffer[s] # <<>> => buffer'[s] # <<>>
    BY <2>1, AppendRowsType
  <2>3. QED BY <2>2 DEF HasWork
<1>2. ASSUME NEW r \in Robots, NEW st \in States, NEW errs \in SUBSET Faults,
             Record(r, st, errs)
      PROVE  HasWork'
  <2> DEFINE ev == StateEvents(r, st) + FaultEvents(r, errs)
             add == Adding(1, 0, ev)
  <2>1. ev \in Nat
    BY DEF StateEvents, FaultEvents
  <2> HIDE DEF ev
  <2>2. add \in [Streams -> Nat] /\ add["telemetry"] = 1
    <3>1. 0 \in Nat /\ 1 \in Nat
      OBVIOUS
    <3>2. QED BY <2>1, <3>1, AddingType
  <2>3. AppendRows(add, 0)
    BY <1>2 DEF Record, ev
  <2> HIDE DEF add
  <2>4. add["telemetry"] > 0
    BY <2>2
  <2>5. buffer'["telemetry"] # <<>>
    BY <2>2, <2>3, <2>4, AppendRowsType DEF Streams
  <2>6. QED BY <2>5 DEF HasWork, Streams
<1>3. CASE \E r \in Robots, items \in Batches, skewed \in BOOLEAN :
             RecordTopics(r, items, skewed)
  BY <1>1, <1>3 DEF RecordTopics
<1>4. CASE NoteEvent
  BY <1>1, <1>4 DEF NoteEvent
<1>5. QED BY <1>1, <1>2, <1>3, <1>4 DEF Callback

LEMMA StepWork ==
  ASSUME TypeOK, FlightInv, CatalogInv', WorkInv, [Next]_vars
  PROVE  WorkInv'
<1>1. (\E t \in Topics : catalog'[t] > 0) => HasWork'
  BY DEF CatalogInv, HasWork, Streams
<1>2. SUFFICES /\ pc' = "sleep" /\ ~ready' => HasWork'
               /\ pc' = "sleep" /\ seen' # {} => HasWork'
               /\ pc' = "connect" => HasWork'
  BY <1>1 DEF WorkInv, KeepsReconnecting, NothingStranded
<1> USE DEF WorkInv, KeepsReconnecting, NothingStranded
<1>3. CASE Callback
  <2>1. pc' = pc /\ ready' = ready
    BY <1>3, CallbackAppends
  <2>2. (HasWork => HasWork') /\ (seen' # seen => HasWork')
    BY <1>3, CallbackWork
  <2>3. QED BY <2>1, <2>2
<1>4. CASE FlushStarts \/ ReconnectSucceeds
  <2>1. pc' \in Calls
    BY <1>4, TakeBatchFlight DEF FlushStarts, ReconnectSucceeds
  <2>2. QED BY <2>1 DEF Calls
<1>5. CASE ReconnectStarts
  <2>1. HasWork' <=> HasWork
    BY <1>5 DEF ReconnectStarts, memory, HasWork
  <2>2. QED BY <1>5, <2>1 DEF ReconnectStarts
<1>6. CASE ReconnectFails
  <2>1. HasWork' <=> HasWork
    BY <1>6 DEF ReconnectFails, memory, HasWork
  <2>2. QED BY <1>6, <2>1 DEF ReconnectFails, Rest
<1>7. CASE CallReturns
  <2>1. ready' = TRUE
    BY <1>7 DEF CallReturns, FlightInv
  <2>2. pc' = "sleep" => seen' = {}
    BY <1>7 DEF CallReturns, NextCall, AfterTelemetry, AfterTopics, AfterCatalog,
                AfterEvents, Rest, Calls
  <2>3. pc' # "connect"
    BY <1>7 DEF CallReturns, NextCall, AfterTelemetry, AfterTopics, AfterCatalog,
                AfterEvents, Rest, Calls
  <2>4. QED BY <2>1, <2>2, <2>3
<1>8. CASE CallRaises
  <2>1. PICK s \in Streams : batch[s] # <<>>
    BY <1>8 DEF CallRaises, FlightInv
  <2>2. buffer'[s] # <<>>
    BY <1>8, <2>1, RequeueType DEF CallRaises
  <2>3. QED BY <2>2 DEF HasWork
<1>9. CASE Stop
  BY <1>9 DEF Stop
<1>10. CASE FinalFlushReturns \/ CloseDatabase
  BY <1>10 DEF FinalFlushReturns, CloseDatabase
<1>11. CASE BackoffElapses \/ OrphanCommits \/ OrphanFails \/ UNCHANGED vars
  <2>1. HasWork' <=> HasWork
    BY <1>11 DEF BackoffElapses, OrphanCommits, OrphanFails, vars, memory, HasWork
  <2>2. QED BY <1>11, <2>1 DEF BackoffElapses, OrphanCommits, OrphanFails, vars, memory
<1>12. QED
  BY <1>3, <1>4, <1>5, <1>6, <1>7, <1>8, <1>9, <1>10, <1>11 DEF Next, Callback

-----------------------------------------------------------------------------
(* Copies *)

\* In a queue in order no row is both taken and still waiting.
LEMMA TakenOrWaiting ==
  ASSUME TypeOK, QueueInv, NEW s \in Streams, NEW n \in Image(buffer[s])
  PROVE  n \notin Image(batch[s]) /\ n \in Nat
<1>1. Before(batch[s], buffer[s])
  BY QueueSplit DEF Ordered
<1>2. batch[s] \in Seq(Nat) /\ buffer[s] \in Seq(Nat)
  BY DEF TypeOK
<1>3. PICK j \in 1..Len(buffer[s]) : n = buffer[s][j]
  BY DEF Image
<1>4. ASSUME NEW i \in 1..Len(batch[s]) PROVE batch[s][i] # n
  <2>1. batch[s][i] < n
    BY <1>1, <1>3 DEF Before
  <2>2. batch[s][i] \in Nat /\ n \in Nat
    BY <1>2, <1>3
  <2>3. QED BY <2>1, <2>2
<1>5. n \notin Image(batch[s])
  BY <1>4 DEF Image
<1>6. n \in Nat
  BY <1>2, <1>3
<1>7. QED BY <1>5, <1>6

\* Rows in flight have been accepted.
LEMMA TakenAccepted ==
  ASSUME TypeOK, QueueInv, NEW s \in Streams, NEW n \in Image(batch[s])
  PROVE  n \in 1..accepted[s]
<1>1. Within(batch[s], accepted[s])
  BY QueueSplit DEF Ordered
<1>2. PICK i \in 1..Len(batch[s]) : n = batch[s][i]
  BY DEF Image
<1>3. QED BY <1>1, <1>2 DEF Within

\* One commit adds at most the copy the call was issued for.
LEMMA CommitCopies ==
  ASSUME TypeOK, Commits, NEW s \in Streams, NEW n \in Rows(s)
  PROVE  /\ <<s, n>> \in RowIds
         /\ Copies(s, n) \in Nat
         /\ Copies(s, n)' = IF pc = s /\ n \in Image(batch[s])
                            THEN Copies(s, n) + 1 ELSE Copies(s, n)
<1>1. <<s, n>> \in RowIds
  BY DEF RowIds
<1>2. Copies(s, n) \in Nat
  BY <1>1 DEF TypeOK, Copies
<1>3. <<s, n>>[1] = s /\ <<s, n>>[2] = n
  OBVIOUS
<1>4. stored'[<<s, n>>] = IF pc = s /\ n \in Image(batch[pc])
                          THEN stored[<<s, n>>] + 1 ELSE stored[<<s, n>>]
  BY <1>1, <1>3 DEF Commits
<1>5. QED BY <1>1, <1>2, <1>4 DEF Copies

\* So does the statement that shutdown left to itself.
LEMMA OrphanCopies ==
  ASSUME OrphanCommits, NEW s \in Streams, NEW n \in Rows(s)
  PROVE  Copies(s, n)' = IF n \in orphan.rows[s] THEN Copies(s, n) + 1 ELSE Copies(s, n)
<1>1. <<s, n>> \in RowIds
  BY DEF RowIds
<1>2. <<s, n>>[1] = s /\ <<s, n>>[2] = n
  OBVIOUS
<1>3. stored'[<<s, n>>] = IF n \in orphan.rows[s]
                          THEN stored[<<s, n>>] + 1 ELSE stored[<<s, n>>]
  BY <1>1, <1>2 DEF OrphanCommits
<1>4. QED BY <1>3 DEF Copies

LEMMA StepCopies ==
  ASSUME TypeOK, TypeOK', FlightInv, QueueInv, CopiesInv, OrphanInv, WorkInv, [Next]_vars
  PROVE  CopiesInv'
<1>1. SUFFICES ASSUME NEW s \in Streams, NEW n \in Rows(s)
               PROVE  /\ Copies(s, n)' <= failures' + 1
                      /\ n > accepted'[s] => Copies(s, n)' = 0
                      /\ n \in Image(buffer'[s]) => Copies(s, n)' <= failures'
                      /\ n \in Image(batch'[s]) =>
                           IF Passed(s)' THEN Copies(s, n)' > 0
                                         ELSE Copies(s, n)' <= failures'
  BY DEF CopiesInv, Image
<1>2. /\ Copies(s, n) \in Nat /\ failures \in Nat /\ n \in Nat /\ accepted[s] \in Nat
      /\ Copies(s, n) <= failures + 1
      /\ n > accepted[s] => Copies(s, n) = 0
      /\ n \in Image(buffer[s]) => Copies(s, n) <= failures
      /\ n \in Image(batch[s]) =>
           IF Passed(s) THEN Copies(s, n) > 0 ELSE Copies(s, n) <= failures
  <2>1. <<s, n>> \in RowIds
    BY DEF RowIds
  <2>2. Copies(s, n) \in Nat
    BY <2>1 DEF TypeOK, Copies
  <2>3. failures \in Nat /\ n \in Nat /\ accepted[s] \in Nat
    BY ConstantsAssumption DEF TypeOK, Rows
  <2>4. QED BY <2>2, <2>3 DEF CopiesInv
<1>3. Image(<<>>) = {}
  BY DEF Image
<1>4. ASSUME NEW add \in [Streams -> Nat], NEW malformed \in Nat,
             AppendRows(add, malformed)
      PROVE  /\ accepted'[s] \in Nat /\ accepted[s] <= accepted'[s]
             /\ \A m \in Image(buffer'[s]) : m \in Image(buffer[s]) \/ m > accepted[s]
  <2>1. Ordered(<<>>, buffer[s], accepted[s]) /\ <<>> \in Seq(Nat)
    BY QueueSplit DEF Ordered, Increasing, Before, Within
  <2>2. \A m \in Image(buffer'[s]) : m \in Image(buffer[s]) \/ m > accepted[s]
    BY <1>4, <2>1, AppendRowsOrder
  <2>3. accepted'[s] = accepted[s] + add[s] /\ add[s] \in Nat
    BY <1>4, AppendRowsType
  <2>4. QED BY <1>2, <2>2, <2>3
<1>5. CASE Callback
  <2>1. PICK add \in [Streams -> Nat], malformed \in Nat :
          /\ AppendRows(add, malformed)
          /\ UNCHANGED <<failures, pc, flight>>
          /\ Copies(s, n)' = Copies(s, n)
    BY <1>5, CallbackAppends DEF tables, Copies
  <2>2. Passed(s)' = Passed(s)
    BY <2>1 DEF Passed
  <2>3. QED BY <1>2, <1>4, <2>1, <2>2 DEF flight
<1>6. CASE FlushStarts \/ ReconnectSucceeds
  <2>1. TakeBatch /\ UNCHANGED <<accepted, failures>> /\ Copies(s, n)' = Copies(s, n)
    BY <1>6 DEF FlushStarts, ReconnectSucceeds, tables, Copies
  <2>2. batch'[s] = buffer[s] /\ Image(buffer'[s]) = {}
    BY <2>1, <1>3 DEF TakeBatch, NoRows
  <2>3. Image(batch'[s]) # {} => ~Passed(s)'
    <3>1. CASE buffer[s] = <<>>
      BY <1>3, <2>2, <3>1
    <3>2. CASE buffer[s] # <<>>
      <4>1. pc' = FirstCall(buffer, catalog)
        BY <2>1 DEF TakeBatch
      <4>2. CASE s = "telemetry"
        BY <3>2, <4>1, <4>2 DEF Passed, FirstCall
      <4>3. CASE s = "topics"
        BY <3>2, <4>1, <4>3 DEF Passed, FirstCall, AfterTelemetry
      <4>4. CASE s = "events"
        BY <3>2, <4>1, <4>4
           DEF Passed, FirstCall, AfterTelemetry, AfterTopics, AfterCatalog
      <4>5. QED BY <4>2, <4>3, <4>4 DEF Streams
    <3>3. QED BY <3>1, <3>2
  <2>4. QED BY <1>2, <2>1, <2>2, <2>3
<1>7. CASE CallReturns
  <2>1. Commits /\ UNCHANGED <<accepted, buffer, failures>>
    BY <1>7 DEF CallReturns
  <2>2. Copies(s, n)' = IF pc = s /\ n \in Image(batch[s])
                        THEN Copies(s, n) + 1 ELSE Copies(s, n)
    BY <2>1, CommitCopies
  <2>3. pc = s => ~Passed(s)
    BY DEF Passed, Streams
  <2>4. n \in Image(batch[s]) => n \in 1..accepted[s]
    BY TakenAccepted
  <2>5. n \in Image(buffer[s]) => n \notin Image(batch[s])
    BY TakenOrWaiting
  <2>6. ASSUME n \in Image(batch'[s])
        PROVE  IF Passed(s)' THEN Copies(s, n)' > 0 ELSE Copies(s, n)' <= failures'
    <3>1. batch' = batch /\ pc' = NextCall /\ pc' \in Calls /\ pc \in Calls
      BY <1>3, <1>7, <2>6 DEF CallReturns, flight, NoRows
    <3>2. Passed(s)' => Passed(s) \/ pc = s
      <4>1. CASE batch[s] = <<>>
        BY <1>3, <2>6, <3>1, <4>1
      <4>2. CASE batch[s] # <<>>
        <5>1. CASE s = "telemetry"
          BY <3>1, <5>1 DEF Passed, Calls
        <5>2. CASE s = "topics"
          BY <3>1, <4>2, <5>2 DEF Passed, Calls, NextCall, AfterTelemetry
        <5>3. CASE s = "events"
          BY <3>1, <4>2, <5>3
             DEF Passed, Calls, NextCall, AfterTelemetry, AfterTopics, AfterCatalog
        <5>4. QED BY <5>1, <5>2, <5>3 DEF Streams
      <4>3. QED BY <4>1, <4>2
    <3>3. Passed(s) \/ pc = s => Passed(s)'
      BY <3>1 DEF Passed, NextCall, AfterTelemetry, AfterTopics, AfterCatalog,
                  AfterEvents, Rest, Streams, Calls
    <3>4. QED BY <1>2, <2>1, <2>2, <2>3, <2>6, <3>1, <3>2, <3>3
  <2>7. Copies(s, n)' <= failures' + 1
    BY <1>2, <2>1, <2>2, <2>3
  <2>8. n > accepted'[s] => Copies(s, n)' = 0
    BY <1>2, <2>1, <2>2, <2>4
  <2>9. n \in Image(buffer'[s]) => Copies(s, n)' <= failures'
    BY <1>2, <2>1, <2>2, <2>5
  <2>10. QED BY <2>6, <2>7, <2>8, <2>9
<1>8. ASSUME Commits \/ UNCHANGED tables
      PROVE  /\ Copies(s, n)' \in Nat
             /\ Copies(s, n)' <= failures + 1
             /\ Copies(s, n) <= Copies(s, n)'
             /\ n > accepted[s] => Copies(s, n)' = 0
             /\ n \in Image(buffer[s]) => Copies(s, n)' <= failures
  <2>1. CASE UNCHANGED tables
    BY <1>2, <2>1 DEF tables, Copies
  <2>2. CASE Commits
    <3>1. Copies(s, n)' = IF pc = s /\ n \in Image(batch[s])
                          THEN Copies(s, n) + 1 ELSE Copies(s, n)
      BY <2>2, CommitCopies
    <3>2. pc = s => ~Passed(s)
      BY DEF Passed, Streams
    <3>3. n \in Image(batch[s]) => n \in 1..accepted[s]
      BY TakenAccepted
    <3>4. n \in Image(buffer[s]) => n \notin Image(batch[s])
      BY TakenOrWaiting
    <3>5. QED BY <1>2, <3>1, <3>2, <3>3, <3>4
  <2>3. QED BY <1>8, <2>1, <2>2
<1>9. CASE CallRaises
  <2>1. /\ Commits \/ UNCHANGED tables
        /\ failures' = failures + 1 /\ accepted' = accepted
        /\ batch'[s] = <<>>
    BY <1>9 DEF CallRaises, Requeue, NoRows
  <2>2. QED BY <1>2, <1>3, <1>8, <2>1
<1>10. CASE Stop
  <2>1. Adding(0, 0, 1) \in [Streams -> Nat]
    BY AddingType
  <2>2. /\ AppendRows(Adding(0, 0, 1), 0)
        /\ UNCHANGED tables
        /\ failures' = failures /\ batch'[s] = <<>>
    BY <1>10 DEF Stop, NoRows
  <2>3. QED BY <1>2, <1>3, <1>4, <1>8, <2>1, <2>2
<1>11. ASSUME UNCHANGED <<memory, flight, failures, tables>>,
              pc' = pc \/ (pc \notin Calls /\ pc' \notin Calls)
       PROVE  /\ Copies(s, n)' <= failures' + 1
              /\ n > accepted'[s] => Copies(s, n)' = 0
              /\ n \in Image(buffer'[s]) => Copies(s, n)' <= failures'
              /\ n \in Image(batch'[s]) =>
                   IF Passed(s)' THEN Copies(s, n)' > 0
                                 ELSE Copies(s, n)' <= failures'
  <2>1. Passed(s)' = Passed(s)
    BY <1>11 DEF Passed, Calls, Streams
  <2>2. QED BY <1>2, <1>11, <2>1 DEF memory, flight, tables, Copies
<1>12. CASE ReconnectStarts \/ FinalFlushReturns \/ ReconnectFails \/ BackoffElapses
            \/ CloseDatabase \/ OrphanFails
  BY <1>11, <1>12 DEF ReconnectStarts, FinalFlushReturns, ReconnectFails,
                      BackoffElapses, CloseDatabase, OrphanFails, Rest, Calls
<1>13. CASE OrphanCommits
  <2>1. UNCHANGED <<memory, flight, failures, pc>>
    BY <1>13 DEF OrphanCommits
  <2>2. Copies(s, n)' = IF n \in orphan.rows[s] THEN Copies(s, n) + 1 ELSE Copies(s, n)
    BY <1>13, OrphanCopies
  <2>3. Passed(s)' = Passed(s)
    BY <2>1 DEF Passed
  <2>4. CASE n \in orphan.rows[s]
    <3>1. n \in 1..accepted[s] /\ Copies(s, n) <= failures /\ \A m \in Held(s) : n < m
      BY <2>4 DEF OrphanInv
    <3>2. n \notin Held(s)
      BY <1>2, <3>1
    <3>3. n \notin Image(buffer'[s]) /\ n \notin Image(batch'[s])
      BY <2>1, <3>2 DEF Held, memory, flight
    <3>4. accepted'[s] = accepted[s] /\ failures' = failures
      BY <2>1 DEF memory
    <3>5. QED BY <1>2, <2>2, <2>4, <3>1, <3>3, <3>4
  <2>5. CASE n \notin orphan.rows[s]
    BY <1>2, <2>1, <2>2, <2>3, <2>5 DEF memory, flight
  <2>6. QED BY <2>4, <2>5
<1>14. CASE UNCHANGED vars
  BY <1>11, <1>14 DEF vars
<1>15. QED
  BY <1>5, <1>6, <1>7, <1>9, <1>10, <1>12, <1>13, <1>14 DEF Next, Callback

-----------------------------------------------------------------------------
(* The statement left to itself *)

\* Everything in the parts is in the whole.
LEMMA JoinImage ==
  ASSUME NEW q \in Seq(Nat), NEW r \in Seq(Nat)
  PROVE  Image(q) \subseteq Image(q \o r) /\ Image(r) \subseteq Image(q \o r)
<1> DEFINE x == q \o r
<1>1. /\ Len(x) = Len(q) + Len(r)
      /\ Len(q) \in Nat /\ Len(r) \in Nat
      /\ \A i \in 1..Len(q) + Len(r) : x[i] = IF i <= Len(q) THEN q[i] ELSE r[i - Len(q)]
  BY JoinProperties
<1> HIDE DEF x
<1>2. ASSUME NEW i \in 1..Len(q) PROVE q[i] \in Image(x)
  <2>1. i \in 1..Len(x) /\ x[i] = q[i]
    BY <1>1
  <2>2. QED BY <2>1 DEF Image
<1>3. ASSUME NEW j \in 1..Len(r) PROVE r[j] \in Image(x)
  <2>1. /\ Len(q) + j \in 1..Len(q) + Len(r)
        /\ ~(Len(q) + j <= Len(q))
        /\ (Len(q) + j) - Len(q) = j
    BY <1>1
  <2>2. Len(q) + j \in 1..Len(x) /\ x[Len(q) + j] = r[(Len(q) + j) - Len(q)]
    BY <1>1, <2>1
  <2>3. x[Len(q) + j] = r[j]
    BY <2>1, <2>2
  <2>4. QED BY <2>2, <2>3 DEF Image
<1>4. Image(q) \subseteq Image(x)
  BY <1>2 DEF Image
<1>5. Image(r) \subseteq Image(x)
  BY <1>3 DEF Image
<1>6. QED BY <1>4, <1>5 DEF x

\* A queue joined from two holds their rows and no others.
LEMMA JoinHolds ==
  ASSUME NEW q \in Seq(Nat), NEW r \in Seq(Nat)
  PROVE  Image(q \o r) \subseteq Image(q) \cup Image(r)
<1> DEFINE x == q \o r
           a == Len(q)
           b == Len(r)
<1>1. /\ Len(x) = a + b /\ a \in Nat /\ b \in Nat
      /\ \A i \in 1..a + b : x[i] = IF i <= a THEN q[i] ELSE r[i - a]
  BY JoinProperties
<1>2. SUFFICES ASSUME NEW i \in 1..Len(x) PROVE x[i] \in Image(q) \cup Image(r)
  BY DEF Image
<1> HIDE DEF x
<1>3. CASE i <= a
  <2>1. i \in 1..a /\ x[i] = q[i]
    BY <1>1, <1>3
  <2>2. QED BY <2>1 DEF Image
<1>4. CASE ~(i <= a)
  <2>1. i \in 1..a + b /\ x[i] = r[i - a]
    BY <1>1, <1>4
  <2> HIDE DEF a, b
  <2>2. i - a \in 1..b
    BY <1>1, <1>4, <2>1
  <2>3. QED BY <2>1, <2>2 DEF Image, b
<1>5. QED BY <1>3, <1>4

\* While the server runs no statement is left to itself; afterwards there is at
\* most one, and nothing is accepted any more.
LEMMA OrphanStays ==
  ASSUME TypeOK, OrphanInv, [Next]_vars, ~Stop
  PROVE  /\ orphan' = orphan \/ orphan' = Nothing
         /\ stopping' = stopping
         /\ orphan # Nothing => UNCHANGED accepted
<1>1. CASE Callback
  BY <1>1, CallbackAppends DEF OrphanInv, Callback, Record, RecordTopics, NoteEvent, Running
<1>2. CASE UNCHANGED vars
  BY <1>2 DEF vars, memory
<1>3. CASE ~Callback /\ Next
  BY <1>3 DEF Next, Callback, FlushStarts, ReconnectStarts, FinalFlushReturns,
     ReconnectSucceeds, ReconnectFails, BackoffElapses, CallReturns, CallRaises,
     OrphanCommits, OrphanFails, CloseDatabase, memory
<1>4. QED BY <1>1, <1>2, <1>3

\* A step that is not a callback holds nothing new.
LEMMA NothingNewHeld ==
  ASSUME TypeOK, FlightInv, [Next]_vars, ~Stop, ~Callback, NEW s \in Streams
  PROVE  Held(s)' \subseteq Held(s)
<1>1. /\ batch[s] \in Seq(Nat) /\ buffer[s] \in Seq(Nat) /\ BufferMax[s] \in Nat
  BY ConstantsAssumption DEF TypeOK
<1>2. /\ Held(s) = Image(buffer[s]) \cup Image(batch[s])
      /\ Held(s)' = Image(buffer'[s]) \cup Image(batch'[s])
  BY DEF Held, Image
<1>3. Image(NoRows[s]) = {}
  BY DEF NoRows, Image
<1>4. CASE FlushStarts \/ ReconnectSucceeds
  <2>1. batch' = buffer /\ buffer' = NoRows
    BY <1>4 DEF FlushStarts, ReconnectSucceeds, TakeBatch
  <2>2. QED BY <1>2, <1>3, <2>1
<1>5. CASE CallReturns
  <2>1. buffer' = buffer /\ (batch' = batch \/ batch' = NoRows)
    BY <1>5 DEF CallReturns, flight
  <2>2. QED BY <1>2, <1>3, <2>1
<1>6. CASE CallRaises
  <2> DEFINE all == batch[s] \o buffer[s]
             k == KeepFirst(all, BufferMax[s])
  <2>1. batch' = NoRows /\ buffer'[s] = k
    BY <1>6 DEF CallRaises, Requeue
  <2>2. all \in Seq(Nat) /\ Image(all) \subseteq Held(s)
    BY <1>1, <1>2, JoinProperties, JoinHolds
  <2> HIDE DEF all
  <2>3. k = KeepFirst(all, BufferMax[s])
    OBVIOUS
  <2> HIDE DEF k
  <2>4. Image(k) \subseteq Image(all)
    BY <1>1, <2>2, <2>3, KeptOrder
  <2>5. QED BY <1>2, <1>3, <2>1, <2>2, <2>4
<1>7. CASE \/ ReconnectStarts \/ FinalFlushReturns \/ ReconnectFails \/ BackoffElapses
           \/ CloseDatabase \/ OrphanCommits \/ OrphanFails \/ UNCHANGED vars
  <2>1. buffer' = buffer /\ batch' = batch
    BY <1>7 DEF ReconnectStarts, FinalFlushReturns, ReconnectFails, BackoffElapses,
                CloseDatabase, OrphanCommits, OrphanFails, vars, memory, flight
  <2>2. QED BY <1>2, <2>1
<1>8. QED BY <1>4, <1>5, <1>6, <1>7 DEF Next, Callback

\* A row that is accepted and neither held nor of the orphan gets no copy.
LEMMA OnlyHeldCopied ==
  ASSUME TypeOK, [Next]_vars, ~OrphanCommits, NEW s \in Streams, NEW n \in Rows(s),
         n \notin Held(s)
  PROVE  Copies(s, n)' = Copies(s, n)
<1>1. n \notin Image(batch[s])
  BY DEF Held
<1>2. ASSUME Commits PROVE Copies(s, n)' = Copies(s, n)
  BY <1>1, <1>2, CommitCopies
<1>3. ASSUME UNCHANGED tables PROVE Copies(s, n)' = Copies(s, n)
  BY <1>3 DEF tables, Copies
<1>4. Commits \/ UNCHANGED tables
  BY DEF Next, Record, RecordTopics, NoteEvent, FlushStarts, ReconnectStarts,
         FinalFlushReturns, ReconnectSucceeds, ReconnectFails, BackoffElapses, CallReturns,
         CallRaises, Stop, OrphanFails, CloseDatabase, vars
<1>5. QED BY <1>2, <1>3, <1>4

\* Every accepted row has a place in the table.
LEMMA AcceptedRows ==
  ASSUME TypeOK, NEW s \in Streams
  PROVE  1..accepted[s] \subseteq Rows(s)
<1>1. accepted[s] <= MaxRows[s] /\ accepted[s] \in Nat /\ MaxRows[s] \in Nat
  BY ConstantsAssumption DEF TypeOK
<1>2. QED BY <1>1 DEF Rows

LEMMA StepOrphan ==
  ASSUME TypeOK, TypeOK', FlightInv, QueueInv, CopiesInv, OrphanInv, [Next]_vars
  PROVE  OrphanInv'
<1>1. failures \in Nat /\ failures' \in Nat /\ failures <= failures'
  <2>1. failures' = failures \/ failures' = failures + 1
    BY DEF Next, Record, RecordTopics, NoteEvent, FlushStarts, ReconnectStarts,
           FinalFlushReturns, ReconnectSucceeds, ReconnectFails, BackoffElapses,
           CallReturns, CallRaises, Stop, OrphanCommits, OrphanFails, CloseDatabase, vars
  <2>2. QED BY <2>1 DEF TypeOK
<1>2. \A s \in Streams : Nothing.rows[s] = {}
  BY DEF Nothing
<1>3. CASE Stop
  <2>1. orphan' = InThread /\ stopping' = TRUE /\ batch' = NoRows /\ UNCHANGED tables
    BY <1>3 DEF Stop
  <2>2. SUFFICES ASSUME NEW s \in Streams, NEW n \in orphan'.rows[s]
                 PROVE  /\ n \in 1..accepted'[s]
                        /\ Copies(s, n)' <= failures'
                        /\ \A m \in Held(s)' : n < m
    BY <2>1 DEF OrphanInv
  <2>3. pc = s /\ n \in Image(batch[s])
    BY <2>1 DEF InThread
  <2>4. n \in 1..accepted[s] /\ n \in Rows(s)
    BY <2>3, TakenAccepted, AcceptedRows
  <2>5. Copies(s, n)' <= failures'
    <3>1. Copies(s, n)' = Copies(s, n)
      BY <2>1 DEF tables, Copies
    <3>2. ~Passed(s)
      BY <2>3 DEF Passed, Streams
    <3>3. Copies(s, n) <= failures
      BY <2>3, <2>4, <3>2 DEF CopiesInv
    <3>4. failures' = failures
      BY <1>3 DEF Stop
    <3>5. QED BY <3>1, <3>3, <3>4
  <2>6. AppendRows(Adding(0, 0, 1), 0) /\ Adding(0, 0, 1) \in [Streams -> Nat]
    BY <1>3, AddingType DEF Stop
  <2>7. Ordered(batch[s], buffer[s], accepted[s]) /\ batch[s] \in Seq(Nat)
        /\ buffer[s] \in Seq(Nat) /\ accepted[s] \in Nat /\ accepted'[s] \in Nat
    BY QueueSplit DEF TypeOK
  <2>8. \A m \in Image(buffer'[s]) : m \in Image(buffer[s]) \/ m > accepted[s]
    BY <2>6, <2>7, AppendRowsOrder
  <2>9. accepted[s] <= accepted'[s]
    <3>1. accepted'[s] = accepted[s] + Adding(0, 0, 1)[s] /\ Adding(0, 0, 1)[s] \in Nat
      BY <2>6, AppendRowsType
    <3>2. QED BY <2>7, <3>1
  <2>10. ASSUME NEW m \in Held(s)' PROVE n < m
    <3>1. Held(s)' = Image(buffer'[s])
      BY <2>1 DEF Held, NoRows, Image
    <3>2. CASE m > accepted[s]
      <4>1. m \in Nat
        <5>1. buffer'[s] \in Seq(Nat)
          BY DEF TypeOK
        <5>2. QED BY <2>10, <3>1, <5>1 DEF Image
      <4>2. QED BY <2>4, <2>7, <3>2, <4>1
    <3>3. CASE m \in Image(buffer[s])
      <4>1. PICK i \in 1..Len(batch[s]) : n = batch[s][i]
        BY <2>3 DEF Image
      <4>2. PICK j \in 1..Len(buffer[s]) : m = buffer[s][j]
        BY <3>3 DEF Image
      <4>3. QED BY <2>7, <4>1, <4>2 DEF Ordered, Before
    <3>4. QED BY <2>8, <2>10, <3>1, <3>2, <3>3
  <2>11. n \in 1..accepted'[s]
    BY <2>4, <2>7, <2>9
  <2>12. QED BY <2>5, <2>10, <2>11
<1>4. CASE ~Stop
  <2>1. /\ orphan' = orphan \/ orphan' = Nothing
        /\ stopping' = stopping
        /\ orphan # Nothing => UNCHANGED accepted
    BY <1>4, OrphanStays
  <2>2. CASE orphan' = Nothing
    BY <1>2, <2>2 DEF OrphanInv
  <2>3. CASE orphan' # Nothing
    <3>1. orphan' = orphan /\ orphan # Nothing /\ accepted' = accepted /\ stopping
      BY <2>1, <2>3 DEF OrphanInv
    <3>2. ~Callback
      BY <3>1 DEF Callback, Record, RecordTopics, NoteEvent, Running
    <3>3. ~OrphanCommits
      BY <2>3 DEF OrphanCommits
    <3>4. SUFFICES ASSUME NEW s \in Streams, NEW n \in orphan.rows[s]
                   PROVE  Copies(s, n)' <= failures' /\ \A m \in Held(s)' : n < m
      BY <2>1, <3>1 DEF OrphanInv
    <3>5. n \in 1..accepted[s] /\ Copies(s, n) <= failures /\ \A m \in Held(s) : n < m
      BY <3>4 DEF OrphanInv
    <3>6. n \in Rows(s)
      BY <3>5, AcceptedRows
    <3>7. n \notin Held(s)
      <4>1. n \in Nat
        BY <3>5 DEF TypeOK
      <4>2. QED BY <3>5, <4>1
    <3>8. Copies(s, n)' = Copies(s, n) /\ Copies(s, n) \in Nat
      <4>1. <<s, n>> \in RowIds
        BY <3>6 DEF RowIds
      <4>2. Copies(s, n) \in Nat
        BY <4>1 DEF TypeOK, Copies
      <4>3. QED BY <3>3, <3>6, <3>7, <4>2, OnlyHeldCopied
    <3>9. Held(s)' \subseteq Held(s)
      BY <1>4, <3>2, NothingNewHeld
    <3>10. QED BY <1>1, <3>5, <3>8, <3>9
  <2>4. QED BY <2>2, <2>3
<1>5. QED BY <1>3, <1>4

-----------------------------------------------------------------------------
(* The inductive invariant *)

LEMMA InitInv == Init => IInv
<1> SUFFICES ASSUME Init PROVE IInv
  OBVIOUS
<1>1. TypeOK
  BY InitType
<1>2. /\ batch = NoRows /\ counts = NoCounts /\ pc = "sleep"
      /\ catalog = NoCounts /\ seen = {}
      /\ buffer["events"] = <<1>>
      /\ \A s \in Streams : s # "events" => buffer[s] = <<>>
      /\ accepted["events"] = 1
  BY DEF Init, NoRows, Adding, Streams
<1>3. FlightInv
  BY <1>2 DEF FlightInv, Calls
<1>4. QueueInv
  <2>1. SUFFICES ASSUME NEW s \in Streams
                 PROVE  Ordered(batch[s], buffer[s], accepted[s])
    <3>1. \A t \in Streams : batch[t] \in Seq(Nat) /\ buffer[t] \in Seq(Nat)
                             /\ accepted[t] \in Nat
      BY <1>1 DEF TypeOK
    <3>2. QED BY <3>1, JoinOrder DEF QueueInv, Queue, Ordered, Within
  <2>2. batch[s] = <<>>
    BY <1>2 DEF NoRows
  <2>3. CASE s = "events"
    <3>1. buffer[s] = <<1>> /\ accepted[s] = 1
      BY <1>2, <2>3
    <3>2. QED BY <2>2, <3>1 DEF Ordered, Increasing, Before, Within
  <2>4. CASE s # "events"
    <3>1. buffer[s] = <<>>
      BY <1>2, <2>4
    <3>2. QED BY <2>2, <3>1 DEF Ordered, Increasing, Before, Within
  <2>5. QED BY <2>3, <2>4
<1>5. CopiesInv
  <2>1. ASSUME NEW s \in Streams, NEW n \in Rows(s) PROVE Copies(s, n) = 0
    <3>1. <<s, n>> \in RowIds
      BY DEF RowIds
    <3>2. QED BY <3>1 DEF Init, Copies
  <2>2. \A s \in Streams : Image(batch[s]) = {}
    BY <1>2 DEF NoRows, Image
  <2>3. failures = 0
    BY DEF Init
  <2>4. QED BY <2>1, <2>2, <2>3 DEF CopiesInv
<1>6. CatalogInv
  BY <1>2 DEF CatalogInv, NoCounts
<1>7. WorkInv
  <2>1. buffer["events"] # <<>>
    BY <1>2
  <2>2. HasWork
    BY <2>1 DEF HasWork, Streams
  <2>3. QED BY <2>2 DEF WorkInv, KeepsReconnecting, NothingStranded
<1>8. OrphanInv
  <2>1. orphan = Nothing
    BY DEF Init
  <2>2. QED BY <2>1 DEF OrphanInv, Nothing
<1>9. QED BY <1>1, <1>3, <1>4, <1>5, <1>6, <1>7, <1>8 DEF IInv

LEMMA StepInv == IInv /\ [Next]_vars => IInv'
<1> SUFFICES ASSUME IInv, [Next]_vars PROVE IInv'
  OBVIOUS
<1>1. TypeOK /\ FlightInv /\ QueueInv /\ CopiesInv /\ OrphanInv /\ CatalogInv /\ WorkInv
  BY DEF IInv
<1>2. TypeOK'
  BY <1>1, StepType
<1>3. FlightInv'
  BY <1>1, StepFlight
<1>4. QueueInv'
  BY <1>1, <1>2, StepQueue
<1>5. CopiesInv'
  BY <1>1, <1>2, StepCopies
<1>6. CatalogInv'
  BY <1>1, StepCatalog
<1>7. WorkInv'
  BY <1>1, <1>6, StepWork
<1>8. OrphanInv'
  BY <1>1, <1>2, StepOrphan
<1>9. QED BY <1>2, <1>3, <1>4, <1>5, <1>6, <1>7, <1>8 DEF IInv

\* The inductive invariant holds in every behaviour.
THEOREM InductiveInvariant == Safety => []IInv
<1>1. Init => IInv
  BY InitInv
<1>2. IInv /\ [Next]_vars => IInv'
  BY StepInv
<1>3. QED BY <1>1, <1>2, PTL DEF Safety

\* Rows are flushed in the order they arrived, across every retry.
THEOREM RetryKeepsOrder == Safety => []ArrivalOrder
<1>1. IInv => ArrivalOrder
  BY DEF IInv, QueueInv, ArrivalOrder
<1>2. QED BY <1>1, InductiveInvariant, PTL

\* Every copy of a row beyond the first is the work of a failed flush.
THEOREM CopiesBounded == Safety => []CopiesExplained
<1>1. IInv => CopiesExplained
  <2>1. SUFFICES ASSUME IInv, NEW id \in RowIds PROVE stored[id] <= failures + 1
    BY DEF CopiesExplained
  <2>2. PICK s \in Streams : id \in {s} \X Rows(s)
    BY DEF RowIds
  <2>3. PICK n \in Rows(s) : id = <<s, n>>
    BY <2>2
  <2>4. Copies(s, n) <= failures + 1
    BY <2>1 DEF IInv, CopiesInv
  <2>5. Copies(s, n) = stored[id]
    BY <2>3 DEF Copies
  <2>6. QED BY <2>4, <2>5
<1>2. QED BY <1>1, InductiveInvariant, PTL

\* A server that lost PostgreSQL, or started without it, always has a reason
\* to look for it again.
THEOREM NeverStopsReconnecting == Safety => []KeepsReconnecting
<1>1. IInv => KeepsReconnecting
  BY DEF IInv, WorkInv
<1>2. QED BY <1>1, InductiveInvariant, PTL

\* Nothing waits in memory that the early return of _flush_once would skip.
THEOREM NothingLeftBehind == Safety => []NothingStranded
<1>1. IInv => NothingStranded
  BY DEF IInv, WorkInv
<1>2. QED BY <1>1, InductiveInvariant, PTL

-----------------------------------------------------------------------------
(* What leaves memory *)

\* A deque that has room keeps everything; one that has not is full afterwards.
LEMMA KeptOrFull ==
  ASSUME NEW q \in Seq(Nat), NEW n \in Nat, NEW k,
         k = KeepLast(q, n) \/ k = KeepFirst(q, n)
  PROVE  k = q \/ Len(k) = n
<1>1. CASE Len(q) <= n
  BY <1>1 DEF KeepLast, KeepFirst
<1>2. CASE ~(Len(q) <= n)
  <2>1. Len(q) \in Nat /\ Len(q) > n
    BY <1>2
  <2>2. Len(SubSeq(q, Len(q) - n + 1, Len(q))) = n
    BY <2>1
  <2>3. Len(SubSeq(q, 1, n)) = n
    BY <2>1
  <2>4. QED BY <1>2, <2>2, <2>3 DEF KeepLast, KeepFirst
<1>3. QED BY <1>1, <1>2

\* When the last call of a flush has returned, every batch has been sent.
LEMMA LastCallPassed ==
  ASSUME pc \in Calls, NextCall \notin Calls, NEW s \in Streams, batch[s] # <<>>
  PROVE  Passed(s) \/ pc = s
<1>1. CASE s = "telemetry"
  BY <1>1 DEF Passed, Calls
<1>2. CASE s = "topics"
  BY <1>2 DEF Passed, Calls, NextCall, AfterTelemetry
<1>3. CASE s = "events"
  BY <1>3 DEF Passed, Calls, NextCall, AfterTelemetry, AfterTopics, AfterCatalog
<1>4. QED BY <1>1, <1>2, <1>3 DEF Streams

LeavesStored ==
  \A s \in Streams : \A n \in Held(s) \ Held(s)' :
    Copies(s, n)' > 0 \/ Len(buffer'[s]) = BufferMax[s] \/ stopping'

\* No step makes memory forget a row PostgreSQL does not have, unless a deque
\* is full or the server is stopping.
THEOREM ForgetsOnlyStored == Safety => LeavesOnlyStored
<1>1. ASSUME IInv, IInv', [Next]_vars PROVE LeavesStored
  <2>1. SUFFICES ASSUME NEW s \in Streams, NEW n, n \in Held(s), n \notin Held(s)'
                 PROVE  Copies(s, n)' > 0 \/ Len(buffer'[s]) = BufferMax[s] \/ stopping'
    BY DEF LeavesStored
  <2>2. /\ batch[s] \in Seq(Nat) /\ buffer[s] \in Seq(Nat) /\ BufferMax[s] \in Nat
        /\ accepted \in [Streams -> Nat]
    BY <1>1, ConstantsAssumption DEF IInv, TypeOK
  <2>3. /\ n \in Image(buffer[s]) \/ n \in Image(batch[s])
        /\ n \notin Image(buffer'[s]) /\ n \notin Image(batch'[s])
    BY <2>1 DEF Held
  <2>4. CASE Callback
    <3>1. PICK add \in [Streams -> Nat], malformed \in Nat :
            AppendRows(add, malformed) /\ UNCHANGED flight
      BY <1>1, <2>4, CallbackAppends DEF IInv
    <3> DEFINE all == buffer[s] \o Fresh(s, add[s])
    <3>2. Fresh(s, add[s]) \in Seq(Nat)
      BY <2>2, FreshProperties
    <3>3. all \in Seq(Nat) /\ Image(buffer[s]) \subseteq Image(all)
      BY <2>2, <3>2, JoinProperties, JoinImage
    <3>4. buffer'[s] = KeepLast(all, BufferMax[s])
      BY <3>1 DEF AppendRows
    <3> HIDE DEF all
    <3>5. buffer'[s] = all \/ Len(buffer'[s]) = BufferMax[s]
      BY <2>2, <3>3, <3>4, KeptOrFull
    <3>6. n \in Image(buffer[s])
      BY <2>3, <3>1 DEF flight
    <3>7. QED BY <2>3, <3>3, <3>5, <3>6
  <2>5. CASE FlushStarts \/ ReconnectSucceeds
    <3>1. batch' = buffer /\ batch = NoRows
      BY <1>1, <2>5 DEF FlushStarts, ReconnectSucceeds, TakeBatch, IInv, FlightInv, Calls
    <3>2. Image(batch[s]) = {}
      BY <3>1 DEF NoRows, Image
    <3>3. QED BY <2>3, <3>1, <3>2
  <2>6. CASE CallReturns
    <3>1. n \in Image(batch[s]) /\ NextCall \notin Calls /\ pc \in Calls /\ Commits
      BY <2>3, <2>6 DEF CallReturns, flight
    <3>2. n \in Rows(s)
      <4>1. n \in 1..accepted[s]
        BY <1>1, <3>1, TakenAccepted DEF IInv
      <4>2. accepted[s] <= MaxRows[s] /\ accepted[s] \in Nat /\ MaxRows[s] \in Nat
        BY <1>1, ConstantsAssumption DEF IInv, TypeOK
      <4>3. QED BY <4>1, <4>2 DEF Rows
    <3>3. /\ Copies(s, n) \in Nat
          /\ Copies(s, n)' = IF pc = s /\ n \in Image(batch[s])
                             THEN Copies(s, n) + 1 ELSE Copies(s, n)
      BY <1>1, <3>1, <3>2, CommitCopies DEF IInv
    <3>4. Passed(s) => Copies(s, n) > 0
      BY <1>1, <3>1, <3>2 DEF IInv, CopiesInv
    <3>5. Passed(s) \/ pc = s
      <4>1. batch[s] # <<>>
        BY <3>1 DEF Image
      <4>2. QED BY <3>1, <4>1, LastCallPassed
    <3>6. QED BY <3>1, <3>3, <3>4, <3>5
  <2>7. CASE CallRaises
    <3> DEFINE all == batch[s] \o buffer[s]
    <3>1. buffer'[s] = KeepFirst(all, BufferMax[s])
      BY <2>7 DEF CallRaises, Requeue
    <3>2. /\ all \in Seq(Nat)
          /\ Image(batch[s]) \subseteq Image(all) /\ Image(buffer[s]) \subseteq Image(all)
      BY <2>2, JoinProperties, JoinImage
    <3> HIDE DEF all
    <3>3. buffer'[s] = all \/ Len(buffer'[s]) = BufferMax[s]
      BY <2>2, <3>1, <3>2, KeptOrFull
    <3>4. QED BY <2>3, <3>2, <3>3
  <2>8. CASE Stop
    BY <2>8 DEF Stop
  <2>9. CASE UNCHANGED <<memory, flight>>
    BY <2>3, <2>9 DEF memory, flight
  <2>10. CASE ReconnectStarts \/ FinalFlushReturns \/ ReconnectFails \/ BackoffElapses
              \/ CloseDatabase \/ OrphanCommits \/ OrphanFails
    BY <2>9, <2>10 DEF ReconnectStarts, FinalFlushReturns, ReconnectFails,
                       BackoffElapses, CloseDatabase, OrphanCommits, OrphanFails
  <2>11. CASE UNCHANGED vars
    BY <2>9, <2>11 DEF vars
  <2>12. QED
    BY <1>1, <2>4, <2>5, <2>6, <2>7, <2>8, <2>10, <2>11 DEF Next, Callback
<1>2. IInv /\ IInv' /\ [Next]_vars => [LeavesStored]_vars
  BY <1>1
<1>3. LeavesOnlyStored <=> [][LeavesStored]_vars
  BY DEF LeavesOnlyStored, LeavesStored
<1>4. QED BY <1>2, <1>3, InductiveInvariant, PTL DEF Safety

-----------------------------------------------------------------------------
(* What is lost *)

\* A set of at most as many elements as there are numbers to name them.
LEMMA FewNamed ==
  ASSUME NEW q \in Seq(Nat), NEW k \in Nat, k <= Len(q)
  PROVE  LET X == {q[i] : i \in 1..k} IN IsFiniteSet(X) /\ Cardinality(X) <= k
<1> DEFINE X == {q[i] : i \in 1..k}
           f == [i \in 1..k |-> q[i]]
<1>1. f \in Surjection(1..k, X)
  BY DEF Surjection
<1>2. IsFiniteSet(1..k) /\ Cardinality(1..k) = k
  <2>1. 1 \in Int /\ k \in Int
    OBVIOUS
  <2>2. IsFiniteSet(1..k) /\ Cardinality(1..k) = IF 1 > k THEN 0 ELSE k - 1 + 1
    BY <2>1, FS_Interval
  <2>3. QED BY <2>2
<1>3. QED BY <1>1, <1>2, FS_Surjection

\* A finite set that gains at most k elements.
LEMMA FewMore ==
  ASSUME NEW A, IsFiniteSet(A), NEW X, IsFiniteSet(X), NEW k \in Nat, Cardinality(X) <= k,
         NEW B, B \subseteq A \cup X
  PROVE  /\ IsFiniteSet(B) /\ Cardinality(A) \in Nat /\ Cardinality(B) \in Nat
         /\ Cardinality(B) <= Cardinality(A) + k
<1>1. /\ IsFiniteSet(A \cup X)
      /\ Cardinality(A \cup X) = Cardinality(A) + Cardinality(X) - Cardinality(A \cap X)
  BY FS_Union
<1>2. IsFiniteSet(A \cap X)
  BY FS_Subset
<1>3. IsFiniteSet(B) /\ Cardinality(B) <= Cardinality(A \cup X)
  BY <1>1, FS_Subset
<1>4. /\ Cardinality(A) \in Nat /\ Cardinality(X) \in Nat /\ Cardinality(A \cap X) \in Nat
      /\ Cardinality(B) \in Nat
  BY <1>2, <1>3, FS_CardinalityType
<1>5. QED BY <1>1, <1>3, <1>4

\* Rows of a stream are finitely many.
LEMMA LostFinite ==
  ASSUME TypeOK, NEW s \in Streams
  PROVE  IsFiniteSet(Lost(s)) /\ Cardinality(Lost(s)) \in Nat
<1>1. accepted[s] \in Int /\ 1 \in Int
  BY DEF TypeOK
<1>2. IsFiniteSet(1..accepted[s])
  BY <1>1, FS_Interval
<1>3. Lost(s) \in SUBSET (1..accepted[s])
  BY DEF Lost
<1>4. IsFiniteSet(Lost(s))
  BY <1>2, <1>3, FS_Subset
<1>5. QED BY <1>4, FS_CardinalityType

\* A flush that failed and a server that stopped stay so.
LEMMA EarlierRuns ==
  ASSUME IInv, [Next]_vars, failures' = 0, Running'
  PROVE  failures = 0 /\ Running
<1>1. failures \in Nat
  BY DEF IInv, TypeOK
<1>2. QED BY <1>1 DEF Next, Record, RecordTopics, NoteEvent, FlushStarts, ReconnectStarts,
         FinalFlushReturns, ReconnectSucceeds, ReconnectFails, BackoffElapses, CallReturns,
         CallRaises, Stop, OrphanCommits, OrphanFails, CloseDatabase, Running, vars

\* What an append loses is what the full deque discards at its left end.
LEMMA AppendLoses ==
  ASSUME TypeOK, NEW add \in [Streams -> Nat], NEW malformed \in Nat,
         AppendRows(add, malformed), batch' = batch, stored' = stored, NEW s \in Streams
  PROVE  /\ Evicted(s, add[s]) \in Nat /\ Cardinality(Lost(s)') \in Nat
         /\ Cardinality(Lost(s)') <= Cardinality(Lost(s)) + Evicted(s, add[s])
<1> DEFINE f == Fresh(s, add[s])
           all == buffer[s] \o f
           e == Evicted(s, add[s])
<1>1. /\ accepted \in [Streams -> Nat] /\ accepted[s] \in Nat
      /\ buffer[s] \in Seq(Nat) /\ Len(buffer[s]) \in Nat
      /\ add[s] \in Nat /\ BufferMax[s] \in Nat
  BY ConstantsAssumption DEF TypeOK
<1>2. f \in Seq(Nat) /\ Len(f) = add[s] /\ \A i \in 1..add[s] : f[i] = accepted[s] + i
  BY <1>1, FreshProperties
<1>3. /\ buffer'[s] = KeepLast(all, BufferMax[s]) /\ accepted'[s] = accepted[s] + add[s]
  BY DEF AppendRows
<1> HIDE DEF f
<1>4. /\ all \in Seq(Nat)
      /\ Len(all) = Len(buffer[s]) + add[s]
      /\ \A i \in 1..Len(buffer[s]) + add[s] :
           all[i] = IF i <= Len(buffer[s]) THEN buffer[s][i] ELSE f[i - Len(buffer[s])]
  <2>1. f \in Seq(Nat) /\ buffer[s] \in Seq(Nat)
    BY <1>1, <1>2
  <2>2. /\ all \in Seq(Nat)
        /\ Len(all) = Len(buffer[s]) + Len(f)
        /\ \A i \in 1..Len(buffer[s]) + Len(f) :
             all[i] = IF i <= Len(buffer[s]) THEN buffer[s][i] ELSE f[i - Len(buffer[s])]
    BY <2>1, JoinProperties
  <2> HIDE DEF all
  <2>3. QED BY <1>2, <2>2
<1>5. Image(buffer[s]) \subseteq Image(all) /\ Image(f) \subseteq Image(all)
  BY <1>1, <1>2, JoinImage
<1> HIDE DEF all
<1>6. /\ e \in Nat /\ e <= Len(all)
      /\ Len(all) <= BufferMax[s] => e = 0
      /\ Len(all) > BufferMax[s] => e = Len(all) - BufferMax[s]
  <2>1. e = IF Len(buffer[s]) + add[s] > BufferMax[s]
            THEN Len(buffer[s]) + add[s] - BufferMax[s] ELSE 0
    BY DEF Evicted
  <2> DEFINE n == Len(all)
             b == BufferMax[s]
  <2>2. n = Len(buffer[s]) + add[s] /\ n \in Nat /\ b \in Nat
    BY <1>1, <1>4
  <2>3. e = IF n > b THEN n - b ELSE 0
    BY <2>1, <2>2
  <2> HIDE DEF e, n, b
  <2>4. QED BY <2>2, <2>3 DEF n, b
<1> HIDE DEF e
<1>7. \A i \in 1..Len(all) : i > e => all[i] \in Image(buffer'[s])
  <2> DEFINE r == KeepLast(all, BufferMax[s])
             n == Len(all)
             k == Len(r)
             b == BufferMax[s]
  <2>1. /\ r \in Seq(Nat) /\ k <= b /\ k <= n
        /\ \A i \in 1..k : i + (n - k) \in 1..n /\ r[i] = all[i + (n - k)]
    BY <1>1, <1>4, KeepLastProperties
  <2>2. r = all \/ k = b
    BY <1>1, <1>4, KeptOrFull
  <2>3. n \in Nat /\ k \in Nat /\ b \in Nat
    BY <1>1, <1>4, <2>1
  <2> HIDE DEF r
  <2>4. k = n \/ k = b
    BY <2>2
  <2>5. (n <= b => e = 0) /\ (n > b => e = n - b)
    BY <1>6
  <2> HIDE DEF n, k, b
  <2>6. e = n - k
    <3>1. CASE n <= b
      BY <2>1, <2>3, <2>4, <2>5, <3>1
    <3>2. CASE n > b
      BY <2>1, <2>3, <2>4, <2>5, <3>2
    <3>3. QED BY <2>3, <3>1, <3>2
  <2>7. ASSUME NEW i \in 1..n, i > e PROVE all[i] \in Image(r)
    <3>1. i - e \in 1..k /\ i - e + (n - k) = i
      BY <2>3, <2>6, <2>7
    <3>2. all[i] = r[i - e]
      BY <2>1, <3>1
    <3>3. QED BY <3>1, <3>2 DEF Image, k
  <2>8. QED BY <1>3, <2>7 DEF n, r
<1> DEFINE X == {all[i] : i \in 1..e}
<1>8. ASSUME NEW n \in Lost(s)', n \notin X
      PROVE  n \in Lost(s)
  <2>1. /\ n \in 1..accepted'[s] /\ n \notin Image(buffer'[s]) /\ n \notin Image(batch[s])
        /\ Copies(s, n) = 0
    BY <1>8 DEF Lost, Held, Copies
  <2>2. n \notin Image(all)
    <3> SUFFICES ASSUME NEW i \in 1..Len(all), n = all[i] PROVE FALSE
      BY DEF Image
    <3>1. ~(i > e)
      BY <1>7, <2>1
    <3>2. i \in 1..e
      BY <1>4, <1>6, <3>1
    <3>3. QED BY <1>8, <3>2
  <2>3. n \notin Image(buffer[s]) /\ n \notin Image(f)
    BY <1>5, <2>2
  <2>4. n <= accepted[s]
    <3> SUFFICES ASSUME n > accepted[s] PROVE n \in Image(f)
      BY <1>1, <1>3, <2>1, <2>3
    <3>1. n - accepted[s] \in 1..add[s] /\ accepted[s] + (n - accepted[s]) = n
      BY <1>1, <1>3, <2>1
    <3>2. n = f[n - accepted[s]] /\ n - accepted[s] \in 1..Len(f)
      BY <1>2, <3>1
    <3>3. QED BY <3>2 DEF Image
  <2>5. n \in 1..accepted[s]
    BY <1>1, <1>3, <2>1, <2>4
  <2>6. QED BY <2>1, <2>3, <2>5 DEF Lost, Held
<1>9. IsFiniteSet(X) /\ Cardinality(X) <= e
  BY <1>4, <1>6, FewNamed
<1> HIDE DEF X
<1>10. IsFiniteSet(Lost(s))
  BY LostFinite
<1> DEFINE B == Lost(s)'
<1>11. B \subseteq Lost(s) \cup X
  BY <1>8
<1> HIDE DEF B
<1>12. Cardinality(B) \in Nat /\ Cardinality(B) <= Cardinality(Lost(s)) + e
  BY <1>6, <1>9, <1>10, <1>11, FewMore
<1>13. QED BY <1>6, <1>12 DEF B, e

\* Every other step of a server that lives and whose flushes succeed loses nothing.
LEMMA StepLoses ==
  ASSUME IInv, IInv', Next, ~Callback, failures' = 0, Running', NEW s \in Streams
  PROVE  Lost(s)' \subseteq Lost(s)
<1>1. ASSUME accepted'[s] = accepted[s], Held(s) \subseteq Held(s)', stored' = stored
      PROVE  Lost(s)' \subseteq Lost(s)
  BY <1>1 DEF Lost, Copies
<1>2. CASE FlushStarts \/ ReconnectSucceeds
  <2>1. batch' = buffer /\ batch = NoRows /\ accepted' = accepted /\ stored' = stored
    BY <1>2 DEF FlushStarts, ReconnectSucceeds, TakeBatch, IInv, FlightInv, Calls, tables
  <2>2. Image(batch[s]) = {}
    BY <2>1 DEF NoRows, Image
  <2>3. QED BY <1>1, <2>1, <2>2 DEF Held
<1>3. CASE CallReturns
  <2>1. /\ accepted' = accepted /\ buffer' = buffer /\ Commits /\ pc \in Calls
        /\ batch' = batch \/ NextCall \notin Calls
    BY <1>3 DEF CallReturns, flight
  <2> SUFFICES ASSUME NEW n \in Lost(s)' PROVE n \in Lost(s)
    OBVIOUS
  <2>2. /\ n \in 1..accepted[s] /\ n \notin Image(buffer[s]) /\ n \notin Image(batch'[s])
        /\ Copies(s, n)' = 0
    BY <2>1 DEF Lost, Held
  <2>3. n \in Rows(s)
    <3>1. accepted[s] <= MaxRows[s] /\ accepted[s] \in Nat /\ MaxRows[s] \in Nat
      BY ConstantsAssumption DEF IInv, TypeOK
    <3>2. QED BY <2>2, <3>1 DEF Rows
  <2>4. /\ Copies(s, n) \in Nat
        /\ Copies(s, n)' = IF pc = s /\ n \in Image(batch[s])
                           THEN Copies(s, n) + 1 ELSE Copies(s, n)
    BY <2>1, <2>3, CommitCopies DEF IInv
  <2>5. n \notin Image(batch[s])
    <3> SUFFICES ASSUME n \in Image(batch[s]) PROVE FALSE
      OBVIOUS
    <3>1. NextCall \notin Calls
      BY <2>1, <2>2
    <3>2. Passed(s) => Copies(s, n) > 0
      BY <2>3 DEF IInv, CopiesInv
    <3>3. Passed(s) \/ pc = s
      <4>1. batch[s] # <<>>
        BY DEF Image
      <4>2. QED BY <2>1, <3>1, <4>1, LastCallPassed
    <3>4. QED BY <2>2, <2>4, <3>2, <3>3
  <2>6. QED BY <2>2, <2>4, <2>5 DEF Lost, Held
<1>4. ~CallRaises /\ ~Stop /\ ~OrphanCommits
  BY DEF CallRaises, Stop, OrphanCommits, OrphanInv, Running, IInv, TypeOK
<1>5. CASE ReconnectStarts \/ FinalFlushReturns \/ ReconnectFails \/ BackoffElapses
           \/ CloseDatabase \/ OrphanFails
  <2>1. UNCHANGED <<memory, flight, tables>>
    BY <1>5 DEF ReconnectStarts, FinalFlushReturns, ReconnectFails, BackoffElapses,
                CloseDatabase, OrphanFails
  <2>2. accepted' = accepted /\ stored' = stored /\ Held(s)' = Held(s)
    BY <2>1 DEF memory, flight, tables, Held
  <2>3. QED BY <1>1, <2>2
<1>6. QED BY <1>2, <1>3, <1>4, <1>5 DEF Next, Callback

DropsInv == IInv /\ DropsCounted

\* As long as no flush fails, and up to shutdown, a sample is missing only if
\* self.dropped counts it, whatever the sizes of the deques and however callbacks and
\* flushes interleave.
THEOREM LossIsCounted == Spec => []DropsCounted
<1>1. Init => DropsCounted
  <2> SUFFICES ASSUME Init PROVE DropsCounted
    OBVIOUS
  <2>1. accepted["telemetry"] = 0 /\ accepted["topics"] = 0 /\ dropped = 0
    BY DEF Init, Adding, Streams
  <2>2. Lost("telemetry") = {} /\ Lost("topics") = {}
    BY <2>1 DEF Lost
  <2>3. QED BY <2>1, <2>2, FS_EmptySet DEF DropsCounted
<1>2. DropsInv /\ IInv' /\ [Next]_vars => DropsCounted'
  <2> SUFFICES ASSUME DropsInv, IInv', [Next]_vars PROVE DropsCounted'
    OBVIOUS
  <2>1. IInv /\ TypeOK /\ DropsCounted
    BY DEF DropsInv, IInv
  <2>2. CASE UNCHANGED vars
    BY <2>1, <2>2 DEF vars, memory, flight, tables, DropsCounted, Running, Lost, Held, Copies
  <2>3. CASE Next
    <3> SUFFICES ASSUME failures' = 0, Running'
                 PROVE  Cardinality(Lost("telemetry")') + Cardinality(Lost("topics")')
                          <= dropped'
      BY DEF DropsCounted
    <3>1. failures = 0 /\ Running
      BY <2>1, EarlierRuns
    <3>2. Cardinality(Lost("telemetry")) + Cardinality(Lost("topics")) <= dropped
      BY <2>1, <3>1 DEF DropsCounted
    <3>3. "telemetry" \in Streams /\ "topics" \in Streams
      BY DEF Streams
    <3>4. /\ Cardinality(Lost("telemetry")) \in Nat /\ Cardinality(Lost("topics")) \in Nat
          /\ IsFiniteSet(Lost("telemetry")) /\ IsFiniteSet(Lost("topics")) /\ dropped \in Nat
      BY <2>1, <3>3, LostFinite DEF TypeOK
    <3>7. CASE Callback
      <4>1. PICK add \in [Streams -> Nat], malformed \in Nat :
              /\ AppendRows(add, malformed)
              /\ UNCHANGED <<flight, tables>>
        BY <2>1, <3>7, CallbackAppends
      <4>2. batch' = batch /\ stored' = stored
        BY <4>1 DEF flight, tables
      <4>3. \A s \in Streams :
              /\ Evicted(s, add[s]) \in Nat /\ Cardinality(Lost(s)') \in Nat
              /\ Cardinality(Lost(s)') <= Cardinality(Lost(s)) + Evicted(s, add[s])
        BY <2>1, <4>1, <4>2, AppendLoses
      <4>4. dropped' = dropped + malformed + Evicted("telemetry", add["telemetry"])
                                           + Evicted("topics", add["topics"])
        BY <4>1 DEF AppendRows
      <4>5. QED BY <3>2, <3>3, <3>4, <4>3, <4>4
    <3>8. CASE ~Callback
      <4>1. Lost("telemetry")' \subseteq Lost("telemetry")
            /\ Lost("topics")' \subseteq Lost("topics")
        BY <2>1, <2>3, <3>3, <3>8, StepLoses
      <4>2. /\ Cardinality(Lost("telemetry")') <= Cardinality(Lost("telemetry"))
            /\ Cardinality(Lost("topics")') <= Cardinality(Lost("topics"))
            /\ Cardinality(Lost("telemetry")') \in Nat /\ Cardinality(Lost("topics")') \in Nat
        BY <3>4, <4>1, FS_Subset, FS_CardinalityType
      <4>3. dropped' = dropped
        BY <2>3, <3>8 DEF Next, Callback, FlushStarts, ReconnectStarts, FinalFlushReturns,
           ReconnectSucceeds, ReconnectFails, BackoffElapses, CallReturns, CallRaises, Stop,
           OrphanCommits, OrphanFails, CloseDatabase, memory, Running
      <4>4. QED BY <3>2, <3>4, <4>2, <4>3
    <3>9. QED BY <3>7, <3>8
  <2>4. QED BY <2>2, <2>3
<1>3. QED BY <1>1, <1>2, InductiveInvariant, PTL DEF DropsInv, Spec, Safety

-----------------------------------------------------------------------------
(* The catalogue *)

\* Samples of a catalogue, one by one.
LEMMA InUnits ==
  ASSUME NEW f \in [Topics -> Nat]
  PROVE  /\ \A t \in Topics : \A i \in 1..f[t] : <<t, i>> \in Units(f)
         /\ \A u \in Units(f) : u[1] \in Topics /\ u[2] \in 1..f[u[1]] /\ u = <<u[1], u[2]>>
BY DEF Units

LEMMA NoUnits ==
  ASSUME NEW f, \A t \in Topics : f[t] = 0
  PROVE  IsFiniteSet(Units(f)) /\ Total(f) = 0
<1>1. Units(f) = {}
  BY DEF Units
<1>2. QED BY <1>1, FS_EmptySet DEF Total

\* Catalogues add up topic by topic.
LEMMA TotalAdds ==
  ASSUME NEW f \in [Topics -> Nat], NEW g \in [Topics -> Nat], NEW h \in [Topics -> Nat],
         \A t \in Topics : h[t] = f[t] + g[t],
         IsFiniteSet(Units(f)), IsFiniteSet(Units(g))
  PROVE  /\ IsFiniteSet(Units(h)) /\ Total(h) = Total(f) + Total(g)
         /\ Total(f) \in Nat /\ Total(g) \in Nat /\ Total(h) \in Nat
<1> DEFINE B == Units(h) \ Units(f)
           F == [u \in Units(g) |-> <<u[1], f[u[1]] + u[2]>>]
<1>1. \A t \in Topics : f[t] \in Nat /\ g[t] \in Nat /\ h[t] = f[t] + g[t]
  OBVIOUS
<1>2. ASSUME NEW u \in Units(g) PROVE F[u] \in B
  <2>1. u[1] \in Topics /\ u[2] \in 1..g[u[1]]
    BY InUnits
  <2>2. f[u[1]] + u[2] \in 1..h[u[1]] /\ f[u[1]] + u[2] \notin 1..f[u[1]]
    BY <1>1, <2>1
  <2>3. F[u] = <<u[1], f[u[1]] + u[2]>>
    OBVIOUS
  <2> HIDE DEF F
  <2>4. F[u] \in Units(h)
    BY <2>1, <2>2, <2>3, InUnits
  <2>5. F[u] \notin Units(f)
    <3>1. F[u][1] = u[1] /\ F[u][2] = f[u[1]] + u[2]
      BY <2>3
    <3>2. QED BY <2>2, <3>1, InUnits
  <2>6. QED BY <2>4, <2>5
<1>3. ASSUME NEW v \in B PROVE \E u \in Units(g) : F[u] = v
  <2>1. v[1] \in Topics /\ v[2] \in 1..h[v[1]] /\ v = <<v[1], v[2]>>
    BY InUnits
  <2>2. v[2] \notin 1..f[v[1]]
    BY <2>1, InUnits
  <2>3. v[2] - f[v[1]] \in 1..g[v[1]] /\ f[v[1]] + (v[2] - f[v[1]]) = v[2]
    BY <1>1, <2>1, <2>2
  <2> DEFINE u == <<v[1], v[2] - f[v[1]]>>
  <2>4. u \in Units(g)
    BY <2>1, <2>3, InUnits
  <2>5. u[1] = v[1] /\ u[2] = v[2] - f[v[1]]
    OBVIOUS
  <2> HIDE DEF u
  <2>6. F[u] = <<u[1], f[u[1]] + u[2]>>
    BY <2>4
  <2>7. QED BY <2>1, <2>3, <2>4, <2>5, <2>6
<1>4. ASSUME NEW u \in Units(g), NEW v \in Units(g), F[u] = F[v] PROVE u = v
  <2>1. /\ u[1] \in Topics /\ u[2] \in 1..g[u[1]] /\ u = <<u[1], u[2]>>
        /\ v[1] \in Topics /\ v[2] \in 1..g[v[1]] /\ v = <<v[1], v[2]>>
    BY InUnits
  <2>2. u[1] = v[1] /\ f[u[1]] + u[2] = f[v[1]] + v[2]
    BY <1>4
  <2>3. u[2] = v[2]
    BY <1>1, <2>1, <2>2
  <2>4. QED BY <2>1, <2>2, <2>3
<1>5. F \in [Units(g) -> B]
  BY <1>2
<1>6. F \in Surjection(Units(g), B) /\ F \in Injection(Units(g), B)
  <2> HIDE DEF F, B
  <2>1. \A v \in B : \E u \in Units(g) : F[u] = v
    BY <1>3
  <2>2. \A u, v \in Units(g) : F[u] = F[v] => u = v
    BY <1>4
  <2>3. F \in Surjection(Units(g), B)
    BY <1>5, <2>1 DEF Surjection
  <2>4. F \in Injection(Units(g), B)
    BY <1>5, <2>2 DEF Injection, IsInjective
  <2>5. QED BY <2>3, <2>4
<1> HIDE DEF F
<1>7. IsFiniteSet(B) /\ Cardinality(B) = Cardinality(Units(g))
  BY <1>6, FS_Surjection
<1>8. Units(f) \subseteq Units(h)
  <2> SUFFICES ASSUME NEW u \in Units(f) PROVE u \in Units(h)
    OBVIOUS
  <2>1. u[1] \in Topics /\ u[2] \in 1..f[u[1]] /\ u = <<u[1], u[2]>>
    BY InUnits
  <2>2. u[2] \in 1..h[u[1]]
    BY <1>1, <2>1
  <2>3. QED BY <2>1, <2>2, InUnits
<1>9. Units(h) = Units(f) \cup B /\ Units(f) \cap B = {}
  BY <1>8
<1> HIDE DEF B
<1>10. /\ IsFiniteSet(Units(h))
       /\ Cardinality(Units(h)) = Cardinality(Units(f)) + Cardinality(B)
                                  - Cardinality(Units(f) \cap B)
  BY <1>7, <1>9, FS_Union
<1>11. Cardinality(Units(f) \cap B) = 0
  BY <1>9, FS_EmptySet
<1>12. /\ Cardinality(Units(f)) \in Nat /\ Cardinality(B) \in Nat
       /\ Cardinality(Units(g)) \in Nat /\ Cardinality(Units(h)) \in Nat
  BY <1>7, <1>10, FS_CardinalityType
<1>13. QED BY <1>7, <1>10, <1>11, <1>12 DEF Total

\* A batch has as many well-formed items as there are occurrences of topics in it.
LEMMA BatchCounted ==
  ASSUME NEW items \in Batches
  PROVE  LET occ == [t \in Topics |-> Occurrences(items, t)]
         IN  occ \in [Topics -> Nat] /\ IsFiniteSet(Units(occ))
             /\ Total(occ) = WellFormed(items)
<1> DEFINE occ == [t \in Topics |-> Occurrences(items, t)]
           at(t) == {i \in 1..Len(items) : items[i] = t}
           W == {i \in 1..Len(items) : items[i] # Malformed}
           b == [t \in Topics |-> CHOOSE f : f \in Bijection(1..occ[t], at(t))]
           F == [u \in Units(occ) |-> b[u[1]][u[2]]]
<1>1. PICK k \in 1..MaxBatch : items \in [1..k -> Topics \cup {Malformed}]
  BY DEF Batches
<1>2. k \in Nat /\ Len(items) = k /\ \A i \in 1..k : items[i] \in Topics \cup {Malformed}
  BY <1>1, ConstantsAssumption
<1>3. IsFiniteSet(1..Len(items))
  BY <1>2, FS_Interval
<1>4. IsFiniteSet(W)
  BY <1>3, FS_Subset
<1>5. ASSUME NEW t \in Topics
      PROVE  occ[t] \in Nat /\ b[t] \in Bijection(1..occ[t], at(t))
  <2>1. IsFiniteSet(at(t))
    BY <1>3, FS_Subset
  <2>2. occ[t] = Cardinality(at(t))
    BY DEF Occurrences
  <2>3. occ[t] \in Nat /\ ExistsBijection(1..occ[t], at(t))
    BY <2>1, <2>2, FS_CardinalityType
  <2>4. \E f : f \in Bijection(1..occ[t], at(t))
    BY <2>3 DEF ExistsBijection
  <2>5. QED BY <2>3, <2>4
<1>6. occ \in [Topics -> Nat]
  BY <1>5
<1> HIDE DEF occ, b
<1>7. ASSUME NEW t \in Topics, NEW i \in 1..occ[t]
      PROVE  b[t][i] \in 1..Len(items) /\ items[b[t][i]] = t
  <2>1. b[t] \in [1..occ[t] -> at(t)]
    BY <1>5 DEF Bijection, Injection
  <2>2. QED BY <2>1
<1>8. ASSUME NEW u \in Units(occ)
      PROVE  /\ u[1] \in Topics /\ u[2] \in 1..occ[u[1]] /\ u = <<u[1], u[2]>>
             /\ F[u] = b[u[1]][u[2]] /\ F[u] \in W /\ items[F[u]] = u[1]
  <2>1. u[1] \in Topics /\ u[2] \in 1..occ[u[1]] /\ u = <<u[1], u[2]>>
    BY <1>6, InUnits
  <2>2. F[u] = b[u[1]][u[2]]
    OBVIOUS
  <2> HIDE DEF F
  <2>3. F[u] \in 1..Len(items) /\ items[F[u]] = u[1]
    BY <1>7, <2>1, <2>2
  <2>4. QED BY <2>1, <2>2, <2>3, ConstantsAssumption
<1>9. F \in [Units(occ) -> W]
  BY <1>8
<1> HIDE DEF F
<1>10. ASSUME NEW u \in Units(occ), NEW v \in Units(occ), F[u] = F[v] PROVE u = v
  <2>1. u[1] = v[1]
    BY <1>8, <1>10
  <2>2. b[u[1]][u[2]] = b[u[1]][v[2]] /\ u[2] \in 1..occ[u[1]] /\ v[2] \in 1..occ[u[1]]
    BY <1>8, <1>10, <2>1
  <2>3. \A i, j \in 1..occ[u[1]] : b[u[1]][i] = b[u[1]][j] => i = j
    <3> DEFINE t == u[1]
    <3>1. t \in Topics
      BY <1>8
    <3>2. b[t] \in [1..occ[t] -> at(t)] /\ IsInjective(b[t])
      BY <1>5, <3>1 DEF Bijection, Injection
    <3>3. DOMAIN b[t] = 1..occ[t]
      BY <3>2
    <3>4. QED BY <3>2, <3>3 DEF IsInjective
  <2>4. u[2] = v[2]
    BY <2>2, <2>3
  <2>5. u = <<u[1], u[2]>> /\ v = <<v[1], v[2]>>
    BY <1>8
  <2>6. QED BY <2>1, <2>4, <2>5
<1>11. ASSUME NEW i \in W PROVE \E u \in Units(occ) : F[u] = i
  <2>1. items[i] \in Topics /\ i \in at(items[i])
    BY <1>2
  <2> DEFINE t == items[i]
  <2>2. \A x \in at(t) : \E j \in 1..occ[t] : b[t][j] = x
    BY <1>5, <2>1 DEF Bijection, Surjection
  <2>3. PICK j \in 1..occ[t] : b[t][j] = i
    BY <2>1, <2>2
  <2>4. <<t, j>> \in Units(occ)
    BY <1>6, <2>1, InUnits
  <2>5. F[<<t, j>>] = b[t][j]
    BY <1>8, <2>4
  <2>6. QED BY <2>3, <2>4, <2>5
<1>12. F \in Injection(Units(occ), W) /\ F \in Surjection(Units(occ), W)
  <2> HIDE DEF W
  <2>1. \A i \in W : \E u \in Units(occ) : F[u] = i
    BY <1>11
  <2>2. \A u, v \in Units(occ) : F[u] = F[v] => u = v
    BY <1>10
  <2>3. F \in Surjection(Units(occ), W)
    BY <1>9, <2>1 DEF Surjection
  <2>4. F \in Injection(Units(occ), W)
    BY <1>9, <2>2 DEF Injection, IsInjective
  <2>5. QED BY <2>3, <2>4
<1>13. IsFiniteSet(Units(occ)) /\ Cardinality(Units(occ)) = Cardinality(W)
  BY <1>4, <1>12, FS_Injection
<1>14. QED BY <1>6, <1>13 DEF Total, WellFormed, occ

\* Counts that have not reached the table yet.
Unsent == IF pc \in {"telemetry", "topics", "catalog"} THEN Total(counts) ELSE 0

\* Catalogues count finitely many samples, every one that was accepted once.
SumInv ==
  failures = 0 /\ Running =>
    /\ IsFiniteSet(Units(catalog)) /\ IsFiniteSet(Units(tallied))
    /\ IsFiniteSet(Units(counts))
    /\ Total(catalog) + Total(tallied) + Unsent = accepted["topics"]

\* A batch that is taken is sent before anything of it can get lost.
LEMMA TakeBatchSums ==
  ASSUME IInv, IInv', SumInv, failures = 0, Running, pc \notin Calls, TakeBatch,
         tallied' = tallied, accepted' = accepted
  PROVE  /\ IsFiniteSet(Units(catalog')) /\ IsFiniteSet(Units(tallied'))
         /\ IsFiniteSet(Units(counts'))
         /\ Total(catalog') + Total(tallied') + Unsent' = accepted'["topics"]
<1>1. /\ IsFiniteSet(Units(catalog)) /\ IsFiniteSet(Units(tallied))
      /\ Total(catalog) + Total(tallied) + 0 = accepted["topics"]
  BY DEF SumInv, Unsent, Calls
<1>2. counts' = catalog /\ catalog' = NoCounts /\ pc' = FirstCall(buffer, catalog)
  BY DEF TakeBatch
<1>3. IsFiniteSet(Units(catalog')) /\ Total(catalog') = 0
  <2>1. \A t \in Topics : catalog'[t] = 0
    BY <1>2 DEF NoCounts
  <2>2. QED BY <2>1, NoUnits
<1>4. Unsent' = Total(catalog)
  <2>1. CASE pc' \in {"telemetry", "topics", "catalog"}
    BY <1>2, <2>1 DEF Unsent
  <2>2. CASE pc' \notin {"telemetry", "topics", "catalog"}
    <3>1. \A t \in Topics : ~(catalog[t] > 0)
      BY <1>2, <2>2 DEF FirstCall, AfterTelemetry, AfterTopics
    <3>2. \A t \in Topics : catalog[t] = 0
      BY <3>1 DEF IInv, TypeOK
    <3>3. Total(catalog) = 0
      BY <3>2, NoUnits
    <3>4. QED BY <2>2, <3>3 DEF Unsent
  <2>3. QED BY <2>1, <2>2
<1>5. Total(catalog) \in Nat /\ Total(tallied) \in Nat
  BY <1>1, FS_CardinalityType DEF Total
<1>6. QED BY <1>1, <1>2, <1>3, <1>4, <1>5

LEMMA StepSums ==
  ASSUME IInv, IInv', SumInv, [Next]_vars
  PROVE  SumInv'
<1> SUFFICES ASSUME failures' = 0, Running'
             PROVE  /\ IsFiniteSet(Units(catalog')) /\ IsFiniteSet(Units(tallied'))
                    /\ IsFiniteSet(Units(counts'))
                    /\ Total(catalog') + Total(tallied') + Unsent' = accepted'["topics"]
  BY DEF SumInv
<1>1. failures = 0 /\ Running
  BY EarlierRuns
<1>2. /\ IsFiniteSet(Units(catalog)) /\ IsFiniteSet(Units(tallied))
      /\ IsFiniteSet(Units(counts))
      /\ Total(catalog) + Total(tallied) + Unsent = accepted["topics"]
  BY <1>1 DEF SumInv
<1>3. /\ catalog \in [Topics -> Nat] /\ tallied \in [Topics -> Nat]
      /\ counts \in [Topics -> Nat] /\ accepted["topics"] \in Nat
      /\ catalog' \in [Topics -> Nat] /\ tallied' \in [Topics -> Nat]
      /\ TypeOK
  BY DEF IInv, TypeOK, Streams
<1>4. /\ Total(catalog) \in Nat /\ Total(tallied) \in Nat /\ Total(counts) \in Nat
      /\ Unsent \in Nat
  BY <1>2, FS_CardinalityType DEF Total, Unsent
<1>5. ASSUME catalog' = catalog, tallied' = tallied, counts' = counts, Unsent' = Unsent,
             accepted'["topics"] = accepted["topics"]
      PROVE  /\ IsFiniteSet(Units(catalog')) /\ IsFiniteSet(Units(tallied'))
             /\ IsFiniteSet(Units(counts'))
             /\ Total(catalog') + Total(tallied') + Unsent' = accepted'["topics"]
  BY <1>2, <1>5
<1>6. ASSUME NEW add \in [Streams -> Nat], NEW malformed \in Nat, add["topics"] = 0,
             AppendRows(add, malformed), UNCHANGED <<catalog, pc, flight, tables>>
      PROVE  /\ IsFiniteSet(Units(catalog')) /\ IsFiniteSet(Units(tallied'))
             /\ IsFiniteSet(Units(counts'))
             /\ Total(catalog') + Total(tallied') + Unsent' = accepted'["topics"]
  <2>1. accepted'["topics"] = accepted["topics"] + 0
    BY <1>3, <1>6, AppendRowsType DEF Streams
  <2>2. Unsent' = Unsent /\ catalog' = catalog /\ tallied' = tallied /\ counts' = counts
    BY <1>6 DEF Unsent, flight, tables
  <2>3. QED BY <1>3, <1>5, <2>1, <2>2
<1>7. ASSUME NEW r \in Robots, NEW st \in States, NEW errs \in SUBSET Faults,
             Record(r, st, errs)
      PROVE  /\ IsFiniteSet(Units(catalog')) /\ IsFiniteSet(Units(tallied'))
             /\ IsFiniteSet(Units(counts'))
             /\ Total(catalog') + Total(tallied') + Unsent' = accepted'["topics"]
  <2> DEFINE ev == StateEvents(r, st) + FaultEvents(r, errs)
  <2>1. ev \in Nat
    BY DEF StateEvents, FaultEvents
  <2> HIDE DEF ev
  <2>2. Adding(1, 0, ev) \in [Streams -> Nat] /\ Adding(1, 0, ev)["topics"] = 0
    <3>1. 1 \in Nat /\ 0 \in Nat
      OBVIOUS
    <3>2. QED BY <2>1, <3>1, AddingType
  <2>3. AppendRows(Adding(1, 0, ev), 0) /\ UNCHANGED <<catalog, pc, flight, tables>>
    BY <1>7 DEF Record, ev
  <2>4. QED BY <1>6, <2>2, <2>3
<1>8. ASSUME NEW r \in Robots, NEW items \in Batches, NEW skewed \in BOOLEAN,
             RecordTopics(r, items, skewed)
      PROVE  /\ IsFiniteSet(Units(catalog')) /\ IsFiniteSet(Units(tallied'))
             /\ IsFiniteSet(Units(counts'))
             /\ Total(catalog') + Total(tallied') + Unsent' = accepted'["topics"]
  <2> DEFINE occ == [t \in Topics |-> Occurrences(items, t)]
             add == Adding(0, WellFormed(items), SkewEvents(r, skewed))
  <2>1. /\ WellFormed(items) \in Nat /\ Occurrences(items, Malformed) \in Nat
        /\ SkewEvents(r, skewed) \in Nat
    BY ItemCounts DEF SkewEvents
  <2>2. add \in [Streams -> Nat] /\ add["topics"] = WellFormed(items)
    BY <2>1, AddingType
  <2> HIDE DEF add
  <2>3. AppendRows(add, Occurrences(items, Malformed))
        /\ catalog' = [t \in Topics |-> catalog[t] + Occurrences(items, t)]
        /\ UNCHANGED <<pc, flight, tables>>
    BY <1>8 DEF RecordTopics, add
  <2>4. accepted'["topics"] = accepted["topics"] + WellFormed(items)
    BY <1>3, <2>1, <2>2, <2>3, AppendRowsType DEF Streams
  <2>5. occ \in [Topics -> Nat] /\ IsFiniteSet(Units(occ)) /\ Total(occ) = WellFormed(items)
    BY BatchCounted
  <2>6. \A t \in Topics : catalog'[t] = catalog[t] + occ[t]
    BY <2>3
  <2> HIDE DEF occ
  <2>7. IsFiniteSet(Units(catalog')) /\ Total(catalog') = Total(catalog) + Total(occ)
    BY <1>2, <1>3, <2>5, <2>6, TotalAdds
  <2>8. Unsent' = Unsent /\ tallied' = tallied /\ counts' = counts
    BY <2>3 DEF Unsent, flight, tables
  <2>9. QED BY <1>2, <1>4, <2>1, <2>4, <2>5, <2>7, <2>8
<1>9. CASE NoteEvent
  <2>1. Adding(0, 0, 1) \in [Streams -> Nat] /\ Adding(0, 0, 1)["topics"] = 0
    BY AddingType
  <2>2. AppendRows(Adding(0, 0, 1), 0) /\ UNCHANGED <<catalog, pc, flight, tables>>
    BY <1>9 DEF NoteEvent
  <2>3. QED BY <1>6, <2>1, <2>2
<1>10. CASE FlushStarts \/ ReconnectSucceeds
  <2>1. TakeBatch /\ pc \notin Calls /\ tallied' = tallied /\ accepted' = accepted
    BY <1>10 DEF FlushStarts, ReconnectSucceeds, Calls, tables
  <2>2. QED BY <1>1, <2>1, TakeBatchSums
<1>11. CASE CallReturns
  <2>1. /\ pc \in Calls /\ pc' = NextCall /\ Commits
        /\ catalog' = catalog /\ accepted' = accepted
        /\ IF NextCall \in Calls THEN counts' = counts ELSE counts' = NoCounts
    BY <1>11 DEF CallReturns, flight
  <2>2. IsFiniteSet(Units(counts'))
    <3>1. \A t \in Topics : NoCounts[t] = 0
      BY DEF NoCounts
    <3>2. IsFiniteSet(Units(NoCounts))
      BY <3>1, NoUnits
    <3>3. QED BY <1>2, <2>1, <3>2
  <2>3. CASE pc = "catalog"
    <3>1. \A t \in Topics : tallied'[t] = tallied[t] + counts[t]
      BY <2>1, <2>3 DEF Commits
    <3>2. IsFiniteSet(Units(tallied')) /\ Total(tallied') = Total(tallied) + Total(counts)
      <4>1. /\ tallied \in [Topics -> Nat] /\ counts \in [Topics -> Nat]
            /\ tallied' \in [Topics -> Nat]
        BY <1>3
      <4>2. IsFiniteSet(Units(tallied)) /\ IsFiniteSet(Units(counts))
        BY <1>2
      <4>3. QED BY <3>1, <4>1, <4>2, TotalAdds
    <3>3. Unsent = Total(counts)
      BY <2>3 DEF Unsent
    <3>4. Unsent' = 0
      BY <2>1, <2>3 DEF Unsent, NextCall, AfterCatalog, AfterEvents, Rest
    <3>5. QED BY <1>2, <1>4, <2>1, <2>2, <3>2, <3>3, <3>4
  <2>4. CASE pc # "catalog"
    <3>1. tallied' = tallied
      <4>1. \A t \in Topics : tallied'[t] = tallied[t]
        BY <2>1, <2>4 DEF Commits
      <4>2. QED BY <1>3, <4>1
    <3>2. Unsent' = Unsent
      <4>1. CASE pc \in {"telemetry", "topics"} /\ pc' \in {"topics", "catalog"}
        <5>1. counts' = counts
          BY <2>1, <4>1 DEF Calls
        <5>2. QED BY <4>1, <5>1 DEF Unsent
      <4>2. CASE pc \in {"telemetry", "topics"} /\ pc' \notin {"topics", "catalog"}
        <5>1. /\ \A t \in Topics : ~(counts[t] > 0)
              /\ pc' \notin {"telemetry", "topics", "catalog"}
          BY <2>1, <4>2 DEF NextCall, AfterTelemetry, AfterTopics, AfterCatalog, AfterEvents,
                            Rest
        <5>2. \A t \in Topics : counts[t] = 0
          BY <1>3, <5>1
        <5>3. Total(counts) = 0
          BY <5>2, NoUnits
        <5>4. QED BY <5>1, <5>3 DEF Unsent
      <4>3. CASE pc \notin {"telemetry", "topics"}
        <5>1. pc' \notin {"telemetry", "topics", "catalog"}
          BY <2>1, <2>4, <4>3 DEF NextCall, AfterEvents, Rest, Calls
        <5>2. QED BY <2>4, <4>3, <5>1 DEF Unsent
      <4>4. QED BY <4>1, <4>2, <4>3
    <3>3. QED BY <1>2, <2>1, <2>2, <3>1, <3>2
  <2>5. QED BY <2>3, <2>4
<1>12. ~CallRaises /\ ~Stop /\ ~OrphanCommits
  BY <1>1 DEF CallRaises, Stop, OrphanCommits, OrphanInv, Running, IInv, TypeOK
<1>13. CASE ReconnectStarts \/ FinalFlushReturns \/ ReconnectFails \/ BackoffElapses
            \/ CloseDatabase \/ OrphanFails \/ UNCHANGED vars
  <2>1. /\ UNCHANGED <<memory, flight, tables>>
        /\ pc' = pc \/ (pc \notin Calls /\ pc' \notin Calls)
    BY <1>13 DEF ReconnectStarts, FinalFlushReturns, ReconnectFails, BackoffElapses,
                 CloseDatabase, OrphanFails, vars, Calls, Rest
  <2>2. /\ catalog' = catalog /\ tallied' = tallied /\ counts' = counts
        /\ accepted' = accepted
    BY <2>1 DEF memory, flight, tables
  <2>3. Unsent' = Unsent
    BY <2>1, <2>2 DEF Unsent, Calls
  <2>4. QED BY <1>5, <2>2, <2>3
<1>14. QED
  BY <1>7, <1>8, <1>9, <1>10, <1>11, <1>12, <1>13 DEF Next

\* As long as no flush fails, and up to shutdown, the catalogue in memory, the one in
\* flight and topic_catalog add up to the items accepted, whatever arrives between the
\* calls of a flush.
THEOREM CatalogAddsUp == Spec => []CatalogComplete
<1>1. Init => SumInv
  <2> SUFFICES ASSUME Init PROVE SumInv
    OBVIOUS
  <2>1. /\ catalog = NoCounts /\ tallied = NoCounts /\ counts = NoCounts
        /\ pc = "sleep" /\ accepted["topics"] = 0
    BY DEF Init, Adding, Streams
  <2>2. IsFiniteSet(Units(NoCounts)) /\ Total(NoCounts) = 0
    <3>1. \A t \in Topics : NoCounts[t] = 0
      BY DEF NoCounts
    <3>2. QED BY <3>1, NoUnits
  <2>3. QED BY <2>1, <2>2 DEF SumInv, Unsent
<1>2. IInv /\ IInv' /\ SumInv /\ [Next]_vars => SumInv'
  BY StepSums
<1>3. SumInv => CatalogComplete
  BY DEF SumInv, CatalogComplete, Unsent
<1>4. QED BY <1>1, <1>2, <1>3, InductiveInvariant, PTL DEF Spec, Safety

-----------------------------------------------------------------------------
(* The writer implements RowArchive, as far as steps go *)

\* The flush task winds up only once stop() has been called.
WindsUp == pc \in {"final", "stopped"} => stopping

LEMMA StepWindsUp ==
  ASSUME WindsUp, [Next]_vars
  PROVE  WindsUp'
<1>1. Rest \in {"final", "stopped"} => stopping
  BY DEF Rest
<1>2. ASSUME NEW b, NEW c
      PROVE  FirstCall(b, c) \in {"final", "stopped"} => stopping
  BY <1>1 DEF FirstCall, AfterTelemetry, AfterTopics, AfterCatalog, AfterEvents
<1>3. pc \in Calls /\ NextCall \in {"final", "stopped"} => stopping
  BY <1>1 DEF NextCall, Calls, AfterTelemetry, AfterTopics, AfterCatalog, AfterEvents
<1>4. CASE UNCHANGED <<pc, stopping>>
  BY <1>4 DEF WindsUp
<1>5. CASE Callback
  BY <1>4, <1>5 DEF Callback, Record, RecordTopics, NoteEvent
<1>6. CASE FlushStarts \/ ReconnectSucceeds
  BY <1>2, <1>6 DEF FlushStarts, ReconnectSucceeds, TakeBatch, WindsUp
<1>7. CASE ReconnectStarts
  BY <1>7 DEF ReconnectStarts, WindsUp
<1>8. CASE FinalFlushReturns
  BY <1>8 DEF FinalFlushReturns, WindsUp
<1>9. CASE ReconnectFails
  BY <1>1, <1>9 DEF ReconnectFails, WindsUp
<1>10. CASE CallReturns
  BY <1>3, <1>10 DEF CallReturns, WindsUp
<1>11. CASE CallRaises
  BY <1>1, <1>11 DEF CallRaises, WindsUp
<1>12. CASE Stop
  BY <1>12 DEF Stop, WindsUp
<1>13. CASE BackoffElapses \/ CloseDatabase \/ OrphanCommits \/ OrphanFails
            \/ UNCHANGED vars
  BY <1>4, <1>13 DEF BackoffElapses, CloseDatabase, OrphanCommits, OrphanFails, vars
<1>14. QED
  BY <1>5, <1>6, <1>7, <1>8, <1>9, <1>10, <1>11, <1>12, <1>13 DEF Next, Callback

\* RowArchive's next-state relation, for the stream s: what memory and the
\* table do, and what the statement left to itself does.
FlushStep(s) ==
  LET arrived == (accepted[s] + 1)..accepted[s]'
      newly   == Archived(s)' \ Archived(s)
  IN /\ accepted[s] <= accepted[s]'
     /\ Archived(s) \subseteq Archived(s)'
     /\ newly \subseteq Waiting(s) \cup arrived \cup Adrift(s)
     /\ Waiting(s)' \subseteq (Waiting(s) \cup arrived) \ Archived(s)'
     /\ \A n \in newly, w \in Waiting(s)' : n < w

AdriftStep(s) ==
  /\ \A n \in Adrift(s)', w \in Waiting(s)' : n < w
  /\ stopping => stopping'
  /\ Adrift(s)' \subseteq
       (IF stopping' = stopping THEN Adrift(s) ELSE Waiting(s)) \ Archived(s)'

ArchiveStep(s) == FlushStep(s) /\ AdriftStep(s)

\* A step that stores a whole batch or nothing, and holds no row but those held
\* before and those it accepts, is a step of the archive.
LEMMA ArchiveRule ==
  ASSUME IInv, NEW s \in Streams, pc # "stopped",
         accepted[s]' \in Nat, accepted[s] <= accepted[s]',
         \A n \in Held(s)' : n \in Held(s) \/ n \in (accepted[s] + 1)..accepted[s]',
         \/ Archived(s)' = Archived(s)
         \/ Archived(s)' = Archived(s) \cup Image(batch[s])
  PROVE  FlushStep(s)
<1> DEFINE A == Archived(s)
           B == Archived(s)'
           W == Waiting(s)
           V == Waiting(s)'
           H == Held(s)
           G == Held(s)'
           arrived == (accepted[s] + 1)..accepted[s]'
<1>1. /\ batch[s] \in Seq(Nat) /\ buffer[s] \in Seq(Nat) /\ accepted[s] \in Nat
      /\ Ordered(batch[s], buffer[s], accepted[s])
  BY QueueSplit DEF IInv, TypeOK
<1>2. W = H \ A
  BY DEF Waiting
<1>3. V \subseteq G \ B
  BY DEF Waiting
<1>4. H = Image(buffer[s]) \cup Image(batch[s])
  BY DEF Held
<1>5. \A n \in G : n \in H \/ n \in arrived
  OBVIOUS
<1>6. B = A \/ B = A \cup Image(batch[s])
  OBVIOUS
<1>7. ASSUME NEW n \in Image(batch[s]), NEW w \in Image(buffer[s]) PROVE n < w
  <2>1. PICK i \in 1..Len(batch[s]) : n = batch[s][i]
    BY DEF Image
  <2>2. PICK j \in 1..Len(buffer[s]) : w = buffer[s][j]
    BY DEF Image
  <2>3. QED BY <1>1, <2>1, <2>2 DEF Ordered, Before
<1>8. ASSUME NEW n \in Image(batch[s]), NEW w \in arrived PROVE n < w
  <2>1. n \in 1..accepted[s]
    BY TakenAccepted DEF IInv
  <2>2. QED BY <1>1, <2>1
<1> HIDE DEF A, B, W, V, H, G, arrived
<1>9. A \subseteq B
  BY <1>6
<1>10. B \ A \subseteq W \cup arrived
  BY <1>2, <1>4, <1>6
<1>11. V \subseteq (W \cup arrived) \ B
  BY <1>2, <1>3, <1>5, <1>9
<1>12. ASSUME NEW n \in B \ A, NEW w \in V PROVE n < w
  <2>1. n \in Image(batch[s]) /\ B = A \cup Image(batch[s])
    BY <1>6
  <2>2. w \in Image(buffer[s]) \/ w \in arrived
    BY <1>3, <1>4, <1>5, <2>1
  <2>3. QED BY <1>7, <1>8, <2>1, <2>2
<1>13. QED
  BY <1>9, <1>10, <1>11, <1>12 DEF FlushStep, A, B, W, V, arrived

\* A commit stores the whole batch the call was issued for.
LEMMA CommitArchives ==
  ASSUME IInv, Commits, NEW s \in Streams
  PROVE  \/ Archived(s)' = Archived(s)
         \/ Archived(s)' = Archived(s) \cup Image(batch[s])
<1>1. ASSUME NEW n \in Rows(s)
      PROVE  /\ Copies(s, n) \in Nat
             /\ Copies(s, n)' = IF pc = s /\ n \in Image(batch[s])
                                THEN Copies(s, n) + 1 ELSE Copies(s, n)
  BY CommitCopies DEF IInv
<1>2. Image(batch[s]) \subseteq Rows(s)
  <2> SUFFICES ASSUME NEW n \in Image(batch[s]) PROVE n \in Rows(s)
    OBVIOUS
  <2>1. n \in 1..accepted[s]
    BY TakenAccepted DEF IInv
  <2>2. accepted[s] <= MaxRows[s] /\ accepted[s] \in Nat /\ MaxRows[s] \in Nat
    BY ConstantsAssumption DEF IInv, TypeOK
  <2>3. QED BY <2>1, <2>2 DEF Rows
<1>3. \A n : n \in Archived(s) <=> n \in Rows(s) /\ Copies(s, n) > 0
  BY DEF Archived
<1>4. \A n : n \in Archived(s)' <=> n \in Rows(s) /\ Copies(s, n)' > 0
  BY DEF Archived, Rows
<1>5. CASE pc = s
  <2>1. \A n \in Rows(s) : Copies(s, n)' > 0 <=> Copies(s, n) > 0 \/ n \in Image(batch[s])
    BY <1>1, <1>5
  <2>2. \A n : n \in Archived(s)' <=> n \in Archived(s) \cup Image(batch[s])
    BY <1>2, <1>3, <1>4, <2>1
  <2>3. QED BY <2>2
<1>6. CASE pc # s
  <2>1. \A n \in Rows(s) : Copies(s, n)' = Copies(s, n)
    BY <1>1, <1>6
  <2>2. \A n : n \in Archived(s)' <=> n \in Archived(s)
    BY <1>3, <1>4, <2>1
  <2>3. QED BY <2>2
<1>7. QED BY <1>5, <1>6

\* Without a commit the archive stays as it is.
LEMMA SameTables ==
  ASSUME UNCHANGED tables, NEW s \in Streams
  PROVE  Archived(s)' = Archived(s)
BY DEF tables, Archived, Copies, Rows

\* Appending holds what was held and what it accepts.
LEMMA AppendHolds ==
  ASSUME IInv, NEW add \in [Streams -> Nat], NEW malformed \in Nat,
         AppendRows(add, malformed), NEW s \in Streams
  PROVE  /\ accepted[s]' \in Nat /\ accepted[s] <= accepted[s]'
         /\ \A n \in Image(buffer'[s]) :
              n \in Image(buffer[s]) \/ n \in (accepted[s] + 1)..accepted[s]'
<1>1. /\ TypeOK /\ accepted \in [Streams -> Nat] /\ accepted[s] \in Nat
      /\ batch[s] \in Seq(Nat) /\ add[s] \in Nat
  BY DEF IInv, TypeOK
<1>2. Ordered(batch[s], buffer[s], accepted[s])
  BY QueueSplit DEF IInv
<1>3. accepted'[s] = accepted[s] + add[s]
  BY <1>1, AppendRowsType
<1>4. /\ Ordered(batch[s], buffer'[s], accepted'[s])
      /\ \A n \in Image(buffer'[s]) : n \in Image(buffer[s]) \/ n > accepted[s]
  BY <1>1, <1>2, AppendRowsOrder
<1>5. ASSUME NEW n \in Image(buffer'[s]) PROVE n \in 1..accepted'[s]
  <2>1. PICK i \in 1..Len(buffer'[s]) : n = buffer'[s][i]
    BY DEF Image
  <2>2. QED BY <1>4, <2>1 DEF Ordered, Within
<1>6. accepted[s]' = accepted'[s]
  OBVIOUS
<1>7. QED BY <1>1, <1>3, <1>4, <1>5, <1>6

\* The statement left to itself stores its rows, which are older than all that
\* wait.
LEMMA OrphanArchives ==
  ASSUME IInv, OrphanCommits, NEW s \in Streams
  PROVE  FlushStep(s)
<1>1. UNCHANGED <<memory, pc, flight>>
  BY DEF OrphanCommits
<1>2. orphan.rows[s] \subseteq Rows(s)
  BY AcceptedRows DEF IInv, OrphanInv
<1>3. Archived(s)' = Archived(s) \cup orphan.rows[s]
  <2>1. \A n : n \in Archived(s) <=> n \in Rows(s) /\ Copies(s, n) > 0
    BY DEF Archived
  <2>2. \A n : n \in Archived(s)' <=> n \in Rows(s) /\ Copies(s, n)' > 0
    BY DEF Archived, Rows
  <2>3. ASSUME NEW n \in Rows(s)
        PROVE  Copies(s, n)' > 0 <=> Copies(s, n) > 0 \/ n \in orphan.rows[s]
    <3>1. <<s, n>> \in RowIds
      BY DEF RowIds
    <3>2. Copies(s, n) \in Nat
      BY <3>1 DEF Copies, IInv, TypeOK
    <3>3. Copies(s, n)' = IF n \in orphan.rows[s] THEN Copies(s, n) + 1 ELSE Copies(s, n)
      BY OrphanCopies
    <3>4. QED BY <3>2, <3>3
  <2>4. \A n : n \in Archived(s)' <=> n \in Archived(s) \cup orphan.rows[s]
    BY <1>2, <2>1, <2>2, <2>3
  <2>5. QED BY <2>4
<1>4. accepted[s] \in Nat /\ accepted[s]' = accepted[s]
  BY <1>1 DEF memory, IInv, TypeOK
<1>5. Held(s)' = Held(s)
  BY <1>1 DEF memory, flight, Held, Image
<1>6. \A n \in orphan.rows[s], w \in Held(s) : n < w /\ n \in Nat
  BY <1>4 DEF IInv, OrphanInv
<1>7. orphan.rows[s] \cap Held(s) = {}
  BY <1>6
<1>8. Waiting(s) \subseteq Held(s) \ Archived(s)
  BY DEF Waiting
<1>9. Waiting(s)' \subseteq Waiting(s)
  BY <1>1, <1>3, <1>5 DEF Waiting
<1>10. Waiting(s)' \subseteq Waiting(s) \ Archived(s)'
  BY <1>3, <1>7, <1>8, <1>9
<1>11. Archived(s)' \ Archived(s) \subseteq Adrift(s)
  BY <1>3 DEF Adrift
<1>12. \A n \in Archived(s)' \ Archived(s), w \in Waiting(s)' : n < w
  BY <1>3, <1>6, <1>8, <1>9
<1>13. QED BY <1>3, <1>4, <1>10, <1>11, <1>12 DEF FlushStep

\* Every step of the writer is, for each stream, a flush step of its archive.
LEMMA StepFlushes ==
  ASSUME IInv, WindsUp, [Next]_vars, NEW s \in Streams
  PROVE  FlushStep(s)
<1>1. /\ batch[s] \in Seq(Nat) /\ buffer[s] \in Seq(Nat) /\ accepted[s] \in Nat
      /\ BufferMax[s] \in Nat
  BY ConstantsAssumption DEF IInv, TypeOK
<1>2. Held(s) = Image(buffer[s]) \cup Image(batch[s])
  BY DEF Held
<1>3. Held(s)' = Image(buffer'[s]) \cup Image(batch'[s])
  BY DEF Held, Image
<1>4. Image(NoRows[s]) = {}
  BY DEF NoRows, Image
<1>5. CASE pc = "stopped" /\ ~OrphanCommits
  <2>1. ~Running
    BY <1>5 DEF WindsUp, Running
  <2>2. UNCHANGED <<accepted, pc, tables, flight, buffer>>
    BY <1>5, <2>1
       DEF Next, Record, RecordTopics, NoteEvent, FlushStarts, ReconnectStarts,
           FinalFlushReturns, ReconnectSucceeds, ReconnectFails, BackoffElapses,
           CallReturns, CallRaises, Stop, OrphanFails, CloseDatabase, vars, memory,
           flight, tables, Calls
  <2>3. Archived(s)' = Archived(s)
    BY <2>2, SameTables
  <2>4. Waiting(s)' = {}
    BY <1>5, <2>2 DEF Waiting
  <2>5. accepted[s]' = accepted[s]
    BY <2>2
  <2>6. QED BY <1>1, <2>3, <2>4, <2>5 DEF FlushStep
<1>6. ASSUME pc # "stopped", UNCHANGED <<accepted, tables>>,
             Held(s)' \subseteq Held(s)
      PROVE  FlushStep(s)
  <2>1. Archived(s)' = Archived(s)
    BY <1>6, SameTables
  <2>2. accepted[s]' \in Nat /\ accepted[s] <= accepted[s]'
    BY <1>1, <1>6
  <2>3. QED BY <1>6, <2>1, <2>2, ArchiveRule
<1>7. CASE pc # "stopped" /\ Callback
  <2>1. PICK add \in [Streams -> Nat], malformed \in Nat :
          AppendRows(add, malformed) /\ UNCHANGED <<flight, tables>>
    BY <1>7, CallbackAppends DEF IInv
  <2>2. Archived(s)' = Archived(s)
    BY <2>1, SameTables
  <2>3. /\ accepted[s]' \in Nat /\ accepted[s] <= accepted[s]'
        /\ \A n \in Image(buffer'[s]) :
             n \in Image(buffer[s]) \/ n \in (accepted[s] + 1)..accepted[s]'
    BY <2>1, AppendHolds
  <2>4. batch'[s] = batch[s]
    BY <2>1 DEF flight
  <2>5. \A n \in Held(s)' : n \in Held(s) \/ n \in (accepted[s] + 1)..accepted[s]'
    BY <1>2, <1>3, <2>3, <2>4
  <2>6. QED BY <1>7, <2>2, <2>3, <2>5, ArchiveRule
<1>8. CASE pc # "stopped" /\ Stop
  <2>1. /\ AppendRows(Adding(0, 0, 1), 0)
        /\ UNCHANGED tables
        /\ batch' = NoRows
    BY <1>8 DEF Stop
  <2>2. Adding(0, 0, 1) \in [Streams -> Nat]
    BY AddingType
  <2>3. /\ accepted[s]' \in Nat /\ accepted[s] <= accepted[s]'
        /\ \A n \in Image(buffer'[s]) :
             n \in Image(buffer[s]) \/ n \in (accepted[s] + 1)..accepted[s]'
    BY <2>1, <2>2, AppendHolds
  <2>4. \A n \in Held(s)' : n \in Held(s) \/ n \in (accepted[s] + 1)..accepted[s]'
    BY <1>2, <1>3, <1>4, <2>1, <2>3
  <2>5. Archived(s)' = Archived(s)
    BY <2>1, SameTables
  <2>6. QED BY <1>8, <2>3, <2>4, <2>5, ArchiveRule
<1>9. CASE pc # "stopped" /\ ~Callback /\ ~Stop /\ UNCHANGED <<accepted, tables>>
  <2>1. Held(s)' \subseteq Held(s)
    BY <1>9, NothingNewHeld DEF IInv
  <2>2. QED BY <1>6, <1>9, <2>1
<1>10. CASE pc # "stopped" /\ (CallReturns \/ CallRaises)
  <2>1. (Commits \/ UNCHANGED tables) /\ UNCHANGED accepted
    BY <1>10 DEF CallReturns, CallRaises
  <2>2. CASE ~Callback /\ ~Stop
    <3>1. Held(s)' \subseteq Held(s)
      BY <2>2, NothingNewHeld DEF IInv
    <3>2. accepted[s]' \in Nat /\ accepted[s] <= accepted[s]'
      BY <1>1, <2>1
    <3>3. \/ Archived(s)' = Archived(s)
          \/ Archived(s)' = Archived(s) \cup Image(batch[s])
      BY <2>1, CommitArchives, SameTables
    <3>4. QED BY <1>10, <3>1, <3>2, <3>3, ArchiveRule
  <2>3. CASE Stop
    BY <1>10, <1>8, <2>3
  <2>4. QED BY <1>7, <1>10, <2>2, <2>3
<1>11. CASE OrphanCommits
  BY <1>11, OrphanArchives
<1>12. CASE \/ FlushStarts \/ ReconnectSucceeds \/ ReconnectStarts \/ FinalFlushReturns
            \/ ReconnectFails \/ BackoffElapses \/ OrphanFails \/ CloseDatabase
            \/ UNCHANGED vars
  <2>1. UNCHANGED <<accepted, tables>>
    BY <1>12 DEF FlushStarts, ReconnectSucceeds, ReconnectStarts, FinalFlushReturns,
       ReconnectFails, BackoffElapses, OrphanFails, CloseDatabase, vars, memory
  <2>2. QED BY <1>5, <1>7, <1>9, <1>8, <1>11, <2>1
<1>13. QED
  BY <1>5, <1>7, <1>10, <1>8, <1>11, <1>12 DEF Next, Callback

\* Only shutdown sets rows adrift, and those come before all that still wait.
LEMMA StepAdrift ==
  ASSUME IInv, IInv', WindsUp, [Next]_vars, NEW s \in Streams, FlushStep(s)
  PROVE  AdriftStep(s)
<1>1. ASSUME NEW n \in Adrift(s)', NEW w \in Waiting(s)' PROVE n < w
  <2>1. n \in orphan'.rows[s] /\ w \in Held(s)'
    BY <1>1 DEF Adrift, Waiting
  <2>2. QED BY <2>1 DEF IInv, OrphanInv
<1>2. Archived(s) \subseteq Archived(s)'
  BY DEF FlushStep
<1>3. CASE Stop
  <2>1. pc # "stopped"
    BY <1>3 DEF Stop, WindsUp, Running
  <2>2. stopping' # stopping /\ ~stopping /\ orphan' = InThread
    BY <1>3 DEF Stop, Running
  <2>3. orphan'.rows[s] \subseteq Held(s)
    BY <2>2 DEF InThread, Held
  <2>4. Waiting(s) = Held(s) \ Archived(s)
    BY <2>1 DEF Waiting
  <2>5. Adrift(s)' = orphan'.rows[s] \ Archived(s)'
    BY DEF Adrift
  <2>6. Adrift(s)' \subseteq Waiting(s) \ Archived(s)'
    BY <1>2, <2>3, <2>4, <2>5
  <2>7. QED BY <1>1, <2>2, <2>6 DEF AdriftStep
<1>4. CASE ~Stop
  <2>1. (orphan' = orphan \/ orphan' = Nothing) /\ stopping' = stopping
    BY <1>4, OrphanStays DEF IInv
  <2>2. orphan'.rows[s] \subseteq orphan.rows[s]
    BY <2>1 DEF Nothing
  <2>3. Adrift(s) = orphan.rows[s] \ Archived(s)
        /\ Adrift(s)' = orphan'.rows[s] \ Archived(s)'
    BY DEF Adrift
  <2>4. Adrift(s)' \subseteq Adrift(s) \ Archived(s)'
    BY <1>2, <2>2, <2>3
  <2>5. QED BY <1>1, <2>1, <2>4 DEF AdriftStep
<1>5. QED BY <1>3, <1>4

\* The archive of a stream starts with what the server has noted of itself.
LEMMA InitArchive ==
  ASSUME Init, NEW s \in Streams
  PROVE  /\ accepted[s] \in Nat
         /\ Waiting(s) = 1..accepted[s]
         /\ Archived(s) = {}
         /\ Adrift(s) = {}
<1>1. accepted[s] = IF s = "events" THEN 1 ELSE 0
  BY DEF Init, Adding, Streams
<1>2. buffer[s] = (IF s = "events" THEN <<1>> ELSE <<>>) /\ batch[s] = <<>>
  BY DEF Init, NoRows
<1>3. \A n \in Rows(s) : <<s, n>> \in RowIds /\ Copies(s, n) = 0
  BY DEF Init, RowIds, Copies
<1>4. Archived(s) = {}
  <2>1. ASSUME NEW n \in Rows(s) PROVE ~(Copies(s, n) > 0)
    <3>1. Copies(s, n) = 0
      BY <1>3
    <3>2. ~(0 > 0)
      OBVIOUS
    <3>3. QED BY <3>1, <3>2
  <2>2. QED BY <2>1, Zenon DEF Archived
<1>5. Image(<<>>) = {}
  BY DEF Image
<1>6. Image(<<1>>) = {1}
  BY DEF Image
<1>7. Held(s) = IF s = "events" THEN {1} ELSE {}
  BY <1>2, <1>5, <1>6 DEF Held
<1>8. Waiting(s) = Held(s)
  BY <1>4 DEF Waiting, Init
<1>9. 1..1 = {1} /\ 1..0 = {} /\ 1 \in Nat /\ 0 \in Nat
  OBVIOUS
<1>10. ASSUME s = "events"
       PROVE  accepted[s] \in Nat /\ Waiting(s) = 1..accepted[s]
  <2>1. accepted[s] = 1 /\ Waiting(s) = {1}
    BY <1>1, <1>7, <1>8, <1>10
  <2>2. QED BY <1>9, <2>1, Zenon
<1>11. ASSUME s # "events"
       PROVE  accepted[s] \in Nat /\ Waiting(s) = 1..accepted[s]
  <2>1. accepted[s] = 0 /\ Waiting(s) = {}
    BY <1>1, <1>7, <1>8, <1>11
  <2>2. QED BY <1>9, <2>1, Zenon
<1>12. Adrift(s) = {}
  BY DEF Init, Adrift, Nothing
<1>13. QED BY <1>4, <1>10, <1>11, <1>12

\* What each deque, its batches and the table together do is a behaviour of
\* RowArchive: a row is archived after all that arrived before it, and one
\* given up never comes back, through every retry and through shutdown.  The
\* one exception is the statement whose task stop() cancels: its thread commits
\* or fails at any later time, before, during or after the last flush.
THEOREM ArchivesInOrder ==
  Safety => StatusArchive!Safety /\ RelayArchive!Safety /\ EventArchive!Safety
<1>1. Init => StatusArchive!Init /\ RelayArchive!Init /\ EventArchive!Init
  <2> SUFFICES ASSUME Init PROVE StatusArchive!Init /\ RelayArchive!Init /\ EventArchive!Init
    OBVIOUS
  <2>1. stopping = FALSE
    BY DEF Init
  <2>2. QED BY <2>1, InitArchive
            DEF StatusArchive!Init, RelayArchive!Init, EventArchive!Init, Streams
<1>2. Init => WindsUp
  BY DEF Init, WindsUp
<1>3. WindsUp /\ [Next]_vars => WindsUp'
  BY StepWindsUp
<1>4. ASSUME IInv, IInv', WindsUp, [Next]_vars
      PROVE  StatusArchive!Next /\ RelayArchive!Next /\ EventArchive!Next
  <2>1. \A s \in Streams : ArchiveStep(s)
    BY <1>4, StepFlushes, StepAdrift DEF ArchiveStep
  <2>2. \A s \in Streams : FlushStep(s) /\ AdriftStep(s)
    BY <2>1 DEF ArchiveStep
  <2>3. "telemetry" \in Streams /\ "topics" \in Streams /\ "events" \in Streams
    BY DEF Streams
  <2>4. FlushStep("telemetry") /\ AdriftStep("telemetry")
    BY <2>2, <2>3
  <2>5. FlushStep("topics") /\ AdriftStep("topics")
    BY <2>2, <2>3
  <2>6. FlushStep("events") /\ AdriftStep("events")
    BY <2>2, <2>3
  <2>7. StatusArchive!Next
    BY <2>4 DEF FlushStep, AdriftStep, StatusArchive!Next
  <2>8. RelayArchive!Next
    BY <2>5 DEF FlushStep, AdriftStep, RelayArchive!Next
  <2>9. EventArchive!Next
    BY <2>6 DEF FlushStep, AdriftStep, EventArchive!Next
  <2>10. QED BY <2>7, <2>8, <2>9
<1>5. QED
  BY <1>1, <1>2, <1>3, <1>4, InductiveInvariant, PTL
     DEF Safety, StatusArchive!Safety, RelayArchive!Safety, EventArchive!Safety

=============================================================================
