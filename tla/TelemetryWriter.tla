--------------------------- MODULE TelemetryWriter ---------------------------
(***************************************************************************)
(* server/history.py: TelemetryWriter, with the part of server/db.py it    *)
(* drives.  Samples, relayed topic samples and audit events are appended   *)
(* to three bounded deques by synchronous callbacks; one asyncio task      *)
(* empties the deques into PostgreSQL with a chain of awaited calls.  The  *)
(* callbacks run between any two awaits of that chain, any call may fail,  *)
(* and a failed chain puts everything it took back at the front.           *)
(*                                                                         *)
(* A row is named by its rank in its stream: the n-th accepted row of      *)
(* stream s is n.  What a row contains does not matter here.               *)
(***************************************************************************)
EXTENDS Naturals, Sequences, FiniteSets

CONSTANTS
  Robots,       \* robots that report
  States,       \* the values robot.state takes
  Faults,       \* the entries robot.errors may hold
  Topics,       \* names a relayed item may carry
  BufferMax,    \* [Streams -> maxlen of that deque]
  MaxRows,      \* [Streams -> rows accepted in a behaviour]   (model bound)
  MaxBatch,     \* items in one relayed batch                  (model bound)
  MaxMalformed, \* malformed items arrive while dropped is less (model bound)
  MaxFailures   \* failed flushes in a behaviour               (model bound)

Streams == {"telemetry", "topics", "events"}

NoState   == "unreported"    \* robot absent from _last_state
Malformed == "malformed"     \* an item that is not [topic, ts, value(, flag)]

ASSUME ConstantsAssumption ==
  /\ Malformed \notin Topics
  /\ BufferMax \in [Streams -> Nat \ {0}]
  /\ MaxRows \in [Streams -> Nat \ {0}]
  /\ MaxBatch \in Nat
  /\ MaxMalformed \in Nat
  /\ MaxFailures \in Nat

\* The awaited database calls of one flush, in the order of the code.
Calls == {"telemetry", "topics", "catalog", "events", "touch"}
PCs   == Calls \cup {"sleep", "connect", "final", "stopped"}

VARIABLES
  accepted,   \* [Streams -> Nat]: rows appended so far
  buffer,     \* [Streams -> Seq(Nat)]: the deques buffer, topics, events
  catalog,    \* [Topics -> Nat]: _catalog, samples per topic not yet flushed
  seen,       \* SUBSET Robots: _seen_ids
  audit,      \* [Robots -> [state, errors]]: _last_state, _last_errors
  skewWarned, \* SUBSET Robots: _skew_warned
  dropped,    \* the counter shown to the operator
  failures,   \* flush_failures
  pc,         \* where the flush task is suspended
  stopping,   \* TRUE once stop() has been called
  orphan,     \* what the statement sends whose task stop() has cancelled
  batch,      \* [Streams -> Seq(Nat)]: batch, topic_batch, ev_batch
  counts,     \* [Topics -> Nat]: the local list catalog of _flush_once
  ready,      \* db.ready
  cooling,    \* db._retry_at lies in the future
  stored,     \* [RowIds -> Nat]: copies of each row in PostgreSQL
  tallied     \* [Topics -> Nat]: topic_catalog.samples

memory == <<accepted, buffer, catalog, seen, audit, skewWarned, dropped>>
flight == <<batch, counts>>
tables == <<stored, tallied>>
vars   == <<memory, failures, pc, stopping, orphan, flight, ready, cooling, tables>>

Rows(s)   == 1..MaxRows[s]
RowIds    == UNION {{s} \X Rows(s) : s \in Streams}
NoRows    == [s \in Streams |-> <<>>]
NoCounts  == [t \in Topics |-> 0]
Nothing   == [rows |-> [s \in Streams |-> {}], counts |-> NoCounts]
Image(q)  == {q[i] : i \in 1..Len(q)}

-----------------------------------------------------------------------------
(* Bounded deques *)

\* append(): a full deque discards from the left.
KeepLast(q, n) == IF Len(q) <= n THEN q ELSE SubSeq(q, Len(q) - n + 1, Len(q))

\* extendleft(): a full deque discards from the right.
KeepFirst(q, n) == IF Len(q) <= n THEN q ELSE SubSeq(q, 1, n)

Fresh(s, k) == [i \in 1..k |-> accepted[s] + i]

\* Mutant of Evicted: off by one, the row that fills the deque is not counted.
EvictedLate(s, k) ==
  IF Len(buffer[s]) + k > BufferMax[s] + 1
  THEN Len(buffer[s]) + k - BufferMax[s] - 1 ELSE 0

\* Rows a deque discards when k rows are appended.
Evicted(s, k) ==
  IF Len(buffer[s]) + k > BufferMax[s] THEN Len(buffer[s]) + k - BufferMax[s] ELSE 0

\* Append add[s] new rows to every stream.  Evicted samples and the items that
\* were malformed are counted as dropped; evicted events are not.
AppendRows(add, malformed) ==
  /\ \A s \in Streams : accepted[s] + add[s] <= MaxRows[s]
  /\ accepted' = [s \in Streams |-> accepted[s] + add[s]]
  /\ buffer' = [s \in Streams |->
                  KeepLast(buffer[s] \o Fresh(s, add[s]), BufferMax[s])]
  /\ dropped' = dropped + malformed
                        + Evicted("telemetry", add["telemetry"])
                        + Evicted("topics", add["topics"])

Adding(tel, top, ev) ==
  [s \in Streams |-> CASE s = "telemetry" -> tel
                       [] s = "topics"    -> top
                       [] s = "events"    -> ev]

\* How often PostgreSQL holds row n of stream s.
Copies(s, n) == stored[<<s, n>>]

\* Mutant of HasWork: the early return forgets the relayed topics.
HasWorkBeforeRelay == buffer["telemetry"] # <<>> \/ buffer["events"] # <<>>

\* The early return of _flush_once: any deque holds a row.
HasWork == \E s \in Streams : buffer[s] # <<>>

-----------------------------------------------------------------------------
(* Recording: synchronous callbacks on the loop thread *)

Running == ~stopping

\* record(): one row, the robot is marked seen, and a changed state or a
\* changed fault list leaves an audit event.
StateEvents(r, st) ==
  IF audit[r].state \notin {NoState, st} THEN 1 ELSE 0

FaultEvents(r, errs) ==
  IF errs # audit[r].errors /\ (errs # {} \/ audit[r].state # NoState)
  THEN 1 ELSE 0

Record(r, st, errs) ==
  /\ Running
  /\ AppendRows(Adding(1, 0, StateEvents(r, st) + FaultEvents(r, errs)), 0)
  /\ seen' = seen \cup {r}
  /\ audit' = [audit EXCEPT ![r] = [state |-> st, errors |-> errs]]
  /\ UNCHANGED <<catalog, skewWarned, failures, pc, stopping, orphan, flight,
                 ready, cooling, tables>>

\* record_topics(): a batch of relayed items.  A malformed item is counted as
\* dropped and skipped; every other item is a row and one more sample of its
\* topic.  A batch whose clock is off leaves one event per robot, ever.
Occurrences(items, t) == Cardinality({i \in 1..Len(items) : items[i] = t})
WellFormed(items) == Cardinality({i \in 1..Len(items) : items[i] # Malformed})

SkewEvents(r, skewed) == IF skewed /\ r \notin skewWarned THEN 1 ELSE 0

RecordTopics(r, items, skewed) ==
  /\ Running
  /\ Occurrences(items, Malformed) > 0 => dropped < MaxMalformed
  /\ AppendRows(Adding(0, WellFormed(items), SkewEvents(r, skewed)),
                Occurrences(items, Malformed))
  /\ catalog' = [t \in Topics |-> catalog[t] + Occurrences(items, t)]
  /\ skewWarned' = IF skewed THEN skewWarned \cup {r} ELSE skewWarned
  /\ UNCHANGED <<seen, audit, failures, pc, stopping, orphan, flight, ready,
                 cooling, tables>>

\* note_event() and note_presence(), called by every other part of the server.
NoteEvent ==
  /\ Running
  /\ AppendRows(Adding(0, 0, 1), 0)
  /\ UNCHANGED <<catalog, seen, audit, skewWarned, failures, pc, stopping,
                 orphan, flight, ready, cooling, tables>>

-----------------------------------------------------------------------------
(* One flush *)

\* Where the task goes when _flush_once returns.
Rest == IF stopping THEN "stopped" ELSE "sleep"

\* The next call with something to send, given what the flush took.
AfterEvents        == IF seen # {} THEN "touch" ELSE Rest
AfterCatalog(b)    == IF b["events"] # <<>> THEN "events" ELSE AfterEvents
AfterTopics(b, c)  == IF \E t \in Topics : c[t] > 0 THEN "catalog"
                                                    ELSE AfterCatalog(b)
AfterTelemetry(b, c) == IF b["topics"] # <<>> THEN "topics" ELSE AfterTopics(b, c)
FirstCall(b, c)    == IF b["telemetry"] # <<>> THEN "telemetry"
                                               ELSE AfterTelemetry(b, c)

\* Mutant of TakeBatch: the deque of relayed topics is copied, not cleared.
TakeBatchKeepsTopics ==
  /\ batch' = buffer
  /\ counts' = catalog
  /\ buffer' = [NoRows EXCEPT !["topics"] = buffer["topics"]]
  /\ catalog' = NoCounts
  /\ pc' = FirstCall(buffer, catalog)

\* Mutant of TakeBatch: the catalogue is copied, not cleared.
TakeBatchKeepsCatalog ==
  /\ batch' = buffer
  /\ counts' = catalog
  /\ buffer' = NoRows
  /\ UNCHANGED catalog
  /\ pc' = FirstCall(buffer, catalog)

\* Copy and clear the deques and the catalog, then issue the first call: no
\* await in between.
TakeBatch ==
  /\ batch' = buffer
  /\ counts' = catalog
  /\ buffer' = NoRows
  /\ catalog' = NoCounts
  /\ pc' = FirstCall(buffer, catalog)

\* A tick of _flush_loop (or the last flush of stop()) that finds the
\* database usable.
FlushStarts ==
  /\ pc \in {"sleep", "final"}
  /\ HasWork
  /\ ready
  /\ TakeBatch
  /\ UNCHANGED <<accepted, seen, audit, skewWarned, dropped, failures,
                 stopping, orphan, ready, cooling, tables>>

\* A tick that finds it unusable and may try again.
ReconnectStarts ==
  /\ pc \in {"sleep", "final"}
  /\ HasWork
  /\ ~ready
  /\ ~cooling
  /\ pc' = "connect"
  /\ UNCHANGED <<memory, failures, stopping, orphan, flight, ready, cooling,
                 tables>>

\* The last flush gives up: nothing to send, or the backoff has not elapsed.
FinalFlushReturns ==
  /\ pc = "final"
  /\ ~HasWork \/ (~ready /\ cooling)
  /\ pc' = "stopped"
  /\ UNCHANGED <<memory, failures, stopping, orphan, flight, ready, cooling,
                 tables>>

ReconnectSucceeds ==
  /\ pc = "connect"
  /\ ready' = TRUE
  /\ cooling' = FALSE
  /\ TakeBatch
  /\ UNCHANGED <<accepted, seen, audit, skewWarned, dropped, failures,
                 stopping, orphan, tables>>

ReconnectFails ==
  /\ pc = "connect"
  /\ ready' = FALSE
  /\ cooling' = TRUE
  /\ pc' = Rest
  /\ UNCHANGED <<memory, failures, stopping, orphan, flight, tables>>

BackoffElapses ==
  /\ cooling
  /\ cooling' = FALSE
  /\ UNCHANGED <<memory, failures, pc, stopping, orphan, flight, ready,
                 tables>>

\* What the call the task is waiting for does to PostgreSQL when it commits.
Commits ==
  /\ stored' = [id \in RowIds |->
                  IF pc = id[1] /\ id[2] \in Image(batch[pc])
                  THEN stored[id] + 1 ELSE stored[id]]
  /\ tallied' = [t \in Topics |-> IF pc = "catalog" THEN tallied[t] + counts[t]
                                                    ELSE tallied[t]]

\* The call returns: the flush goes on to its next call or is over.
NextCall ==
  CASE pc = "telemetry" -> AfterTelemetry(batch, counts)
    [] pc = "topics"    -> AfterTopics(batch, counts)
    [] pc = "catalog"   -> AfterCatalog(batch)
    [] pc = "events"    -> AfterEvents
    [] pc = "touch"     -> Rest

CallReturns ==
  /\ pc \in Calls
  /\ Commits
  /\ pc' = NextCall
  /\ seen' = IF pc = "touch" THEN {} ELSE seen
  /\ IF NextCall \in Calls
       THEN UNCHANGED flight
       ELSE /\ batch' = NoRows
            /\ counts' = NoCounts
  /\ UNCHANGED <<accepted, buffer, catalog, audit, skewWarned, dropped,
                 failures, stopping, orphan, ready, cooling>>

\* Mutant of Requeue: extend() where the code says extendleft().
RequeueAtEnd ==
  /\ buffer' = [s \in Streams |-> KeepLast(buffer[s] \o batch[s], BufferMax[s])]
  /\ catalog' = [t \in Topics |-> IF counts[t] > 0 THEN counts[t] ELSE catalog[t]]
  /\ batch' = NoRows
  /\ counts' = NoCounts

\* Mutant of Requeue: the audit events of the failed flush are not put back.
RequeueSamplesOnly ==
  /\ buffer' = [s \in Streams |->
                  IF s = "events" THEN buffer[s]
                  ELSE KeepFirst(batch[s] \o buffer[s], BufferMax[s])]
  /\ catalog' = [t \in Topics |-> IF counts[t] > 0 THEN counts[t] ELSE catalog[t]]
  /\ batch' = NoRows
  /\ counts' = NoCounts

\* The deques get the batches back at their left end; a full deque loses its
\* right end, uncounted.  The catalog entries are assigned, not added.
Requeue ==
  /\ buffer' = [s \in Streams |-> KeepFirst(batch[s] \o buffer[s], BufferMax[s])]
  /\ catalog' = [t \in Topics |-> IF counts[t] > 0 THEN counts[t] ELSE catalog[t]]
  /\ batch' = NoRows
  /\ counts' = NoCounts

\* The call raises: before it commits, or after (the connection is lost before
\* the answer arrives).
CallRaises ==
  /\ pc \in Calls
  /\ failures < MaxFailures
  /\ Commits \/ UNCHANGED tables
  /\ failures' = failures + 1
  /\ ready' = FALSE
  /\ Requeue
  /\ pc' = Rest
  /\ UNCHANGED <<accepted, seen, audit, skewWarned, dropped, stopping,
                 orphan, cooling>>

-----------------------------------------------------------------------------
(* Shutdown *)

\* What the call the task is waiting for would store.
InThread ==
  [rows   |-> [s \in Streams |-> IF pc = s THEN Image(batch[s]) ELSE {}],
   counts |-> IF pc = "catalog" THEN counts ELSE NoCounts]

\* lifespan's finally: "server stopping" is noted and stop() cancels the task
\* where it is suspended.  CancelledError is not an Exception: what the flush
\* took is not put back.  The statement runs in a thread of its own, which no
\* cancellation reaches.
Stop ==
  /\ Running
  /\ AppendRows(Adding(0, 0, 1), 0)
  /\ stopping' = TRUE
  /\ pc' = "final"
  /\ orphan' = InThread
  /\ batch' = NoRows
  /\ counts' = NoCounts
  /\ UNCHANGED <<catalog, seen, audit, skewWarned, failures, ready, cooling,
                 tables>>

\* That thread's transaction ends when it does: before, during or after the
\* last flush, even while the pool is being closed.
OrphanCommits ==
  /\ orphan # Nothing
  /\ stored' = [id \in RowIds |-> IF id[2] \in orphan.rows[id[1]]
                                  THEN stored[id] + 1 ELSE stored[id]]
  /\ tallied' = [t \in Topics |-> tallied[t] + orphan.counts[t]]
  /\ orphan' = Nothing
  /\ UNCHANGED <<memory, failures, pc, stopping, flight, ready, cooling>>

OrphanFails ==
  /\ orphan # Nothing
  /\ orphan' = Nothing
  /\ UNCHANGED <<memory, failures, pc, stopping, flight, ready, cooling, tables>>

\* db.stop(), after writer.stop() returned.
CloseDatabase ==
  /\ pc = "stopped"
  /\ ready
  /\ ready' = FALSE
  /\ UNCHANGED <<memory, failures, pc, stopping, orphan, flight, cooling,
                 tables>>

-----------------------------------------------------------------------------
Batches == UNION {[1..k -> Topics \cup {Malformed}] : k \in 1..MaxBatch}

\* lifespan(): db.start() may have failed, and "server started" is noted
\* before the flush task first runs.
Init ==
  /\ ready \in BOOLEAN
  /\ accepted = Adding(0, 0, 1)
  /\ buffer = [NoRows EXCEPT !["events"] = <<1>>]
  /\ catalog = NoCounts
  /\ seen = {}
  /\ audit = [r \in Robots |-> [state |-> NoState, errors |-> {}]]
  /\ skewWarned = {}
  /\ dropped = 0
  /\ failures = 0
  /\ pc = "sleep"
  /\ stopping = FALSE
  /\ orphan = Nothing
  /\ batch = NoRows
  /\ counts = NoCounts
  /\ cooling = FALSE
  /\ stored = [id \in RowIds |-> 0]
  /\ tallied = NoCounts

Next ==
  \/ \E r \in Robots, st \in States, errs \in SUBSET Faults : Record(r, st, errs)
  \/ \E r \in Robots, items \in Batches, skewed \in BOOLEAN :
       RecordTopics(r, items, skewed)
  \/ NoteEvent
  \/ FlushStarts
  \/ ReconnectStarts
  \/ FinalFlushReturns
  \/ ReconnectSucceeds
  \/ ReconnectFails
  \/ BackoffElapses
  \/ CallReturns
  \/ CallRaises
  \/ Stop
  \/ OrphanCommits
  \/ OrphanFails
  \/ CloseDatabase

Safety == Init /\ [][Next]_vars

\* The flush loop keeps ticking and a backoff ends; an outage ends too, so a
\* reconnect tried again and again succeeds, and a call issued again and again
\* returns.
Fairness ==
  /\ WF_vars(FlushStarts)
  /\ WF_vars(ReconnectStarts)
  /\ WF_vars(FinalFlushReturns)
  /\ WF_vars(BackoffElapses)
  /\ SF_vars(ReconnectSucceeds)
  /\ SF_vars(CallReturns)

Spec == Safety /\ Fairness

-----------------------------------------------------------------------------
(* Properties *)

Held(s) == Image(buffer[s]) \cup Image(batch[s])

\* Type correctness: ranges of the counters and deques; the deques respect
\* their maxlen.
TypeOK ==
  /\ accepted \in [Streams -> Nat]
  /\ \A s \in Streams : accepted[s] <= MaxRows[s]
  /\ buffer \in [Streams -> Seq(Nat)]
  /\ batch \in [Streams -> Seq(Nat)]
  /\ \A s \in Streams : Len(buffer[s]) <= BufferMax[s] /\ Len(batch[s]) <= BufferMax[s]
  /\ catalog \in [Topics -> Nat]
  /\ counts \in [Topics -> Nat]
  /\ seen \subseteq Robots
  /\ audit \in [Robots -> [state : States \cup {NoState}, errors : SUBSET Faults]]
  /\ skewWarned \subseteq Robots
  /\ dropped \in Nat
  /\ failures \in Nat
  /\ pc \in PCs
  /\ stopping \in BOOLEAN
  /\ orphan \in [rows : [Streams -> SUBSET Nat], counts : [Topics -> Nat]]
  /\ ready \in BOOLEAN
  /\ cooling \in BOOLEAN
  /\ stored \in [RowIds -> Nat]
  /\ tallied \in [Topics -> Nat]

Increasing(q) == \A i, j \in 1..Len(q) : i < j => q[i] < q[j]

\* What the flush holds, followed by what the deque holds.
Queue(s) == batch[s] \o buffer[s]

\* "put the batches back at the front so ordering survives the retry"
\* (history.py:289): what the flush holds followed by what the deque holds is
\* in the order of arrival, whatever failed, was evicted or arrived meanwhile.
ArrivalOrder == \A s \in Streams : Increasing(Queue(s))

\* One flush sends a row at most once: a row is in PostgreSQL more than once
\* only because flushes failed, and never more often than that explains.
CopiesExplained == \A id \in RowIds : stored[id] <= failures + 1

\* A row leaves memory only once PostgreSQL has it.  The exceptions are a deque
\* that is full, and shutdown.
LeavesOnlyStored ==
  [][\A s \in Streams : \A n \in Held(s) \ Held(s)' :
        Copies(s, n)' > 0 \/ Len(buffer'[s]) = BufferMax[s] \/ stopping']_vars

\* While the database is marked unusable the sleeping task has something to
\* flush.  _flush_once returns before reconnect() when every deque is empty,
\* so without this a server that lost PostgreSQL would never look for it.
KeepsReconnecting == pc = "sleep" /\ ~ready => HasWork

\* Catalog counts and seen robots are not part of that early return: they must
\* never be left alone in memory.
NothingStranded ==
  pc = "sleep" /\ (seen # {} \/ \E t \in Topics : catalog[t] > 0) => HasWork

\* The samples of a catalogue, one by one, and how many there are.
Units(f) == UNION {{t} \X (1..f[t]) : t \in Topics}
Total(f) == Cardinality(Units(f))

\* As long as no flush failed, and up to shutdown, the catalogue in memory, in
\* flight and in the table adds up to the rows accepted on all topics together.
CatalogComplete ==
  failures = 0 /\ Running =>
    Total(catalog) + Total(tallied)
      + (IF pc \in {"telemetry", "topics", "catalog"} THEN Total(counts) ELSE 0)
    = accepted["topics"]

\* Accepted rows that are neither in memory nor in PostgreSQL.
Lost(s) == {n \in 1..accepted[s] : n \notin Held(s) /\ Copies(s, n) = 0}

\* "dropped and counted, never silently lost" (history.py:6-7), the part that
\* holds: until a flush fails or the server stops, the dropped counter covers
\* every sample that is neither in memory nor in PostgreSQL.
DropsCounted ==
  failures = 0 /\ Running =>
    Cardinality(Lost("telemetry")) + Cardinality(Lost("topics")) <= dropped

-----------------------------------------------------------------------------
(* The inductive invariant behind the theorems of TelemetryWriter_proofs.    *)

\* The call for stream s has returned in the flush under way.
Passed(s) ==
  CASE s = "telemetry" -> pc \in {"topics", "catalog", "events", "touch"}
    [] s = "topics"    -> pc \in {"catalog", "events", "touch"}
    [] s = "events"    -> pc = "touch"

\* Outside a flush nothing is in flight; inside, something is and the database
\* is marked usable.
FlightInv ==
  IF pc \in Calls THEN ready /\ \E s \in Streams : batch[s] # <<>>
                  ELSE batch = NoRows /\ counts = NoCounts

QueueInv ==
  \A s \in Streams :
    /\ Increasing(Queue(s))
    /\ \A i \in 1..Len(Queue(s)) : Queue(s)[i] \in 1..accepted[s]

\* A row still to be sent has been stored at most once per failed flush; a row
\* sent by the flush under way, at most once more; a row not yet accepted,
\* never.
CopiesInv ==
  \A s \in Streams : \A n \in Rows(s) :
    /\ Copies(s, n) <= failures + 1
    /\ n > accepted[s] => Copies(s, n) = 0
    /\ n \in Image(buffer[s]) => Copies(s, n) <= failures
    /\ n \in Image(batch[s]) =>
         IF Passed(s) THEN Copies(s, n) > 0 ELSE Copies(s, n) <= failures

\* Only shutdown leaves a statement to itself.  Its rows are older than all that
\* wait, so that no flush sends them again.
OrphanInv ==
  /\ orphan # Nothing => stopping
  /\ \A s \in Streams : \A n \in orphan.rows[s] :
       /\ n \in 1..accepted[s]
       /\ Copies(s, n) <= failures
       /\ \A m \in Held(s) : n < m

\* Counts and rows of a topic travel together.
CatalogInv ==
  /\ (\E t \in Topics : catalog[t] > 0) => buffer["topics"] # <<>>
  /\ (\E t \in Topics : counts[t] > 0) => batch["topics"] # <<>>

WorkInv ==
  /\ KeepsReconnecting
  /\ NothingStranded
  /\ pc = "connect" => HasWork

IInv ==
  TypeOK /\ FlightInv /\ QueueInv /\ CopiesInv /\ OrphanInv /\ CatalogInv /\ WorkInv

-----------------------------------------------------------------------------
(* The writer implements RowArchive, stream by stream.  A row waits while    *)
(* memory holds it and PostgreSQL does not; once the process is about to     *)
(* exit nothing waits any more.  The rows of the statement shutdown left to  *)
(* its thread are adrift until it ends.                                      *)

Archived(s) == {n \in Rows(s) : Copies(s, n) > 0}

Waiting(s) == IF pc = "stopped" THEN {} ELSE Held(s) \ Archived(s)

Adrift(s) == orphan.rows[s] \ Archived(s)

StatusArchive == INSTANCE RowArchive WITH
  Row <- Rows("telemetry"), accepted <- accepted["telemetry"],
  waiting <- Waiting("telemetry"), archived <- Archived("telemetry"),
  adrift <- Adrift("telemetry"), closing <- stopping

RelayArchive == INSTANCE RowArchive WITH
  Row <- Rows("topics"), accepted <- accepted["topics"],
  waiting <- Waiting("topics"), archived <- Archived("topics"),
  adrift <- Adrift("topics"), closing <- stopping

EventArchive == INSTANCE RowArchive WITH
  Row <- Rows("events"), accepted <- accepted["events"],
  waiting <- Waiting("events"), archived <- Archived("events"),
  adrift <- Adrift("events"), closing <- stopping

\* Each stream is archived in order of arrival but for one statement that
\* shutdown interrupts, a row given up never comes back, and no row is held
\* forever.
ImplementsArchive == StatusArchive!Spec /\ RelayArchive!Spec /\ EventArchive!Spec

=============================================================================
