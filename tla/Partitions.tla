----------------------------- MODULE Partitions -----------------------------
(***************************************************************************)
(* server/db.py: daily partitions, retention and the disk guard, with the  *)
(* two tasks of server/history.py that drive them: the maintenance loop    *)
(* and the flush loop, which copies rows and reconnects.                   *)
(*                                                                         *)
(* Every call is awaited and is one transaction in a thread, so the other  *)
(* task, and midnight, may come between any two of them; every call may    *)
(* raise.  Days are counted from today: 0 is today in UTC, 1 tomorrow, and *)
(* at midnight every day becomes one older.                                *)
(*                                                                         *)
(* A row goes to the partition of its day or, when there is none, to the   *)
(* DEFAULT partition.  PostgreSQL refuses to create the partition of a day *)
(* that has rows in DEFAULT, so a day never has rows in both and the rows  *)
(* in DEFAULT are those of the days without a partition.                   *)
(***************************************************************************)
EXTENDS Integers

CONSTANTS
  Retention,   \* retention_days
  Ahead,       \* partition_days_ahead
  Backfill,    \* days a row may be old when it is copied (max_backfill_s, queues)
  Future,      \* days a clock that is ahead reaches over midnight (max_future_s)
  Horizon      \* days older than this are not told apart (model bound)

ASSUME PartitionsAssumption ==
  /\ Retention \in Nat \ {0}
  /\ Ahead \in Nat
  /\ Backfill \in Nat
  /\ Future \in Nat
  /\ Horizon \in Nat
  /\ Horizon > Retention /\ Horizon >= Backfill

Parents == {"telemetry", "topic_samples"}
Latest  == IF Ahead > Future THEN Ahead ELSE Future
Days    == (-Horizon)..Latest
NoDay   == Latest + 1

VARIABLES
  daily,    \* [Parents -> SUBSET Days]: days that have a partition
  held,     \* [Parents -> SUBSET Days]: days that have rows
  ready,    \* Database.ready
  writer,   \* where the flush task is suspended
  keeper,   \* where the maintenance task is suspended
  victim,   \* the day emergency_drop_oldest_day() is about to drop
  warned,   \* TelemetryWriter._disk_warned
  lapse,    \* midnights since partitions were last created (history)
  shed      \* days whose partition an emergency drop took (history)

stored  == <<daily, held>>
history == <<lapse, shed>>
vars    == <<stored, ready, writer, keeper, victim, warned, history>>

WriterPCs == {"idle", "reconnect", "telemetry", "topic_samples"}
KeeperPCs == {"asleep", "ensure", "expire", "measure", "oldest", "drop"}

-----------------------------------------------------------------------------
(* Statements *)

\* Mutant of Wanted: the range stops one day early.
WantedShort == 0..(Ahead - 1)

\* The days ensure_partitions() creates: today and Ahead more.
Wanted == 0..Ahead

InDefault(p) == held[p] \ daily[p]

\* Mutant of CanCreate: rows of any day in DEFAULT are in the way.
CanCreateEmptyOnly == \A p \in Parents : InDefault(p) = {}

\* CREATE TABLE IF NOT EXISTS ... PARTITION OF succeeds for every wanted day.
CanCreate == \A p \in Parents : InDefault(p) \cap Wanted = {}

\* One transaction for all days of all parents: all are created or none is.
Create ==
  /\ daily' = [p \in Parents |-> daily[p] \cup Wanted]
  /\ lapse' = 0
  /\ shed'  = shed \ Wanted

\* Older than the cutoff of _drop_expired_sync().
Expired(d) == d < -Retention

AllDaily == UNION {daily[p] : p \in Parents}

\* Mutant of IsOldest: the newest name is taken.
IsNewest(d) == \A e \in AllDaily : e <= d

\* _oldest_partition_sync() takes the smallest day over both parents.
IsOldest(d) == \A e \in AllDaily : d <= e

\* Ages a row may have when it is copied: telemetry carries the server's own time.
Ages(p) == IF p = "telemetry" THEN (-Backfill)..0 ELSE (-Backfill)..Future

-----------------------------------------------------------------------------
(* The flush task *)

WriterUnmoved == UNCHANGED <<ready, writer>>
KeeperUnmoved == UNCHANGED <<keeper, victim, warned>>

\* _flush_once() finds rows: it copies them, or reconnects first.
FlushStarts ==
  /\ writer = "idle"
  /\ writer' = IF ready THEN "telemetry" ELSE "reconnect"
  /\ UNCHANGED <<stored, ready, history>> /\ KeeperUnmoved

\* reconnect(): a probe or a rebuilt pool, the schema, which only adds what is
\* missing, and the partitions.
Reconnected ==
  /\ writer = "reconnect" /\ CanCreate
  /\ Create
  /\ ready' = TRUE /\ writer' = "telemetry"
  /\ UNCHANGED held /\ KeeperUnmoved

\* One of them raises: wait for the backoff.
ReconnectFails ==
  /\ writer = "reconnect"
  /\ ready' = FALSE /\ writer' = "idle"
  /\ UNCHANGED <<stored, history>> /\ KeeperUnmoved

\* A copy adds rows of some day, or there was nothing for this parent.
Copies(p) ==
  /\ writer = p
  /\ \/ UNCHANGED held
     \/ \E d \in Ages(p) : held' = [held EXCEPT ![p] = @ \cup {d}]
  /\ UNCHANGED <<daily, history>> /\ KeeperUnmoved

CopyReturns(p) ==
  /\ Copies(p)
  /\ writer' = IF p = "telemetry" THEN "topic_samples" ELSE "idle"
  /\ UNCHANGED ready

\* It may raise before PostgreSQL has the rows, or after.
CopyRaises(p) ==
  /\ Copies(p)
  /\ writer' = "idle" /\ ready' = FALSE

-----------------------------------------------------------------------------
(* The maintenance task *)

\* Mutant of FirstCall: the disk is looked at before the partitions are created.
FirstCallMeasure == "measure"

FirstCall == "ensure"

\* A cycle begins; without a database it is over at once.
Wakes ==
  /\ keeper = "asleep" /\ ready
  /\ keeper' = FirstCall
  /\ UNCHANGED <<stored, victim, warned, history>> /\ WriterUnmoved

EnsureReturns ==
  /\ keeper = "ensure" /\ CanCreate
  /\ Create
  /\ keeper' = "expire"
  /\ UNCHANGED <<held, victim, warned>> /\ WriterUnmoved

\* Mutant of Sweep: the DEFAULT partition is exempt from retention.
SweepDailyOnly(p) == InDefault(p)

\* Rows left by retention: expired partitions go, and expired rows of DEFAULT.
Sweep(p) == {d \in InDefault(p) : ~Expired(d)}

ExpireReturns ==
  /\ keeper = "expire"
  /\ daily' = [p \in Parents |-> {d \in daily[p] : ~Expired(d)}]
  /\ held'  = [p \in Parents |->
                 Sweep(p) \cup {d \in held[p] \cap daily[p] : ~Expired(d)}]
  /\ keeper' = "measure"
  /\ UNCHANGED <<victim, warned, history>> /\ WriterUnmoved

\* disk() finds free space above both limits, below the first, or below both;
\* without a database it has no answer and the cycle is over.
Measures ==
  /\ keeper = "measure"
  /\ \E free \in (IF ready THEN {"ok", "low", "critical"} ELSE {"unknown"}) :
       /\ keeper' = IF free = "critical" THEN "oldest" ELSE "asleep"
       /\ warned' = CASE free = "ok"  -> FALSE
                      [] free = "low" -> TRUE
                      [] OTHER        -> warned
  /\ UNCHANGED <<stored, victim, history>> /\ WriterUnmoved

FindsOldest ==
  /\ keeper = "oldest"
  /\ \E d \in AllDaily : IsOldest(d) /\ victim' = d
  /\ keeper' = "drop"
  /\ UNCHANGED <<stored, warned, history>> /\ WriterUnmoved

FindsNothing ==
  /\ keeper = "oldest" /\ AllDaily = {}
  /\ keeper' = "asleep"
  /\ UNCHANGED <<stored, victim, warned, history>> /\ WriterUnmoved

\* DROP TABLE for both parents; the event follows with no await between.
Drops ==
  /\ keeper = "drop"
  /\ daily' = [p \in Parents |-> daily[p] \ {victim}]
  /\ held'  = [p \in Parents |-> held[p] \ ({victim} \cap daily[p])]
  /\ shed'  = shed \cup {victim}
  /\ keeper' = "asleep" /\ victim' = NoDay
  /\ UNCHANGED <<warned, lapse>> /\ WriterUnmoved

\* A call raises before it commits: the cycle ends, and the rest of it is skipped.
\* (One that raises after it committed is the call followed by this.)
KeeperRaises ==
  /\ keeper # "asleep"
  /\ keeper' = "asleep" /\ victim' = NoDay
  /\ UNCHANGED <<stored, warned, history>> /\ WriterUnmoved

-----------------------------------------------------------------------------
(* Time and the process *)

Older(d)    == IF d = -Horizon THEN d ELSE d - 1
Aged(S)     == {Older(d) : d \in S}
MoreLapsed  == IF lapse > Ahead THEN lapse ELSE lapse + 1

Midnight ==
  /\ daily' = [p \in Parents |-> Aged(daily[p])]
  /\ held'  = [p \in Parents |-> Aged(held[p])]
  /\ victim' = IF victim = NoDay THEN NoDay ELSE Older(victim)
  /\ lapse' = MoreLapsed
  /\ shed'  = Aged(shed)
  /\ UNCHANGED <<keeper, warned>> /\ WriterUnmoved

\* The process dies and starts again.  start() tries once what reconnect() tries.
Restarts ==
  /\ ready' = FALSE /\ writer' = "reconnect"
  /\ keeper' = "asleep" /\ victim' = NoDay /\ warned' = FALSE
  /\ UNCHANGED <<stored, history>>

\* A new database; the first start creates the partitions of its day.
Init ==
  /\ daily = [p \in Parents |-> {}]
  /\ held  = [p \in Parents |-> {}]
  /\ ready = FALSE /\ writer = "reconnect"
  /\ keeper = "asleep" /\ victim = NoDay
  /\ warned = FALSE
  /\ lapse = Ahead + 1 /\ shed = {}

Next ==
  \/ FlushStarts \/ Reconnected \/ ReconnectFails
  \/ \E p \in Parents : CopyReturns(p) \/ CopyRaises(p)
  \/ Wakes \/ EnsureReturns \/ ExpireReturns \/ Measures
  \/ FindsOldest \/ FindsNothing \/ Drops \/ KeeperRaises
  \/ Midnight \/ Restarts

\* Both loops go on, every call ends, days pass, and what is tried again and
\* again and can succeed does.
Fairness ==
  /\ WF_vars(FlushStarts) /\ SF_vars(Reconnected)
  /\ SF_vars(Wakes) /\ SF_vars(EnsureReturns) /\ SF_vars(ExpireReturns)
  /\ WF_vars(Measures \/ FindsOldest \/ FindsNothing \/ Drops)
  /\ WF_vars(Midnight)

Spec     == Init /\ [][Next]_vars
FairSpec == Spec /\ Fairness

-----------------------------------------------------------------------------
(* Properties *)

TypeOK ==
  /\ daily \in [Parents -> SUBSET ((-Horizon)..Ahead)]
  /\ held \in [Parents -> SUBSET Days]
  /\ ready \in BOOLEAN
  /\ writer \in WriterPCs
  /\ keeper \in KeeperPCs
  /\ victim \in Days \cup {NoDay}
  /\ warned \in BOOLEAN
  /\ lapse \in 0..(Ahead + 1)
  /\ shed \subseteq Days

\* Rows of today or later are in DEFAULT, where they keep the partition of their
\* day from being created, only if no partitions were created for more days than
\* they are created ahead, or if an emergency drop took the partition of that day
\* (ensure_partitions, emergency_drop_oldest_day).
DefaultHasCause ==
  \A p \in Parents : \A d \in InDefault(p) :
    d >= 0 => d > Ahead - lapse \/ d \in shed

\* Whatever comes between the awaits of a maintenance cycle, the partition of a
\* day to come is never dropped (_check_disk runs after ensure_partitions).
FutureKept ==
  \A p \in Parents : \A d \in daily[p] : d > 0 => d \in daily'[p]
AheadStays == [][Midnight \/ FutureKept]_vars

\* Rows are forgotten only when they are older than the retention, or by an
\* emergency drop while no day has an older partition: what the drop deletes is
\* still the oldest day, although it was looked up in an earlier transaction.
RowsKept ==
  \A p \in Parents : \A d \in held[p] \ held'[p] :
    \/ d < -Retention
    \/ keeper = "drop" /\ \A q \in Parents : \A e \in daily[q] : d <= e
KeptUntilExpiry == [][Midnight \/ RowsKept]_vars

\* After an outage the archive is found again: rows of today in DEFAULT keep
\* reconnect() from succeeding, but no longer than until the day is over.
ComesBack == []<>ready

\* If partitions are never neglected for longer than they are created ahead, then
\* again and again nothing is stored beyond the retention, the DEFAULT partition
\* included (drop_expired_partitions, db.py:286-291, although schema.sql:79-82 and
\* history.py:210-216 say that retention passes it over).
NothingExpired == \A p \in Parents : \A d \in held[p] : d >= -Retention
Swept == <>[](lapse <= Ahead) => []<>NothingExpired
=============================================================================
