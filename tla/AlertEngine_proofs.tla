-------------------------- MODULE AlertEngine_proofs --------------------------
(***************************************************************************)
(* The table of alerts and the engine agree, for any number of rules,      *)
(* requests and faults.  Every step of a tick touches the rule it stands   *)
(* at and no other, so what remains is to follow that rule.                *)
(***************************************************************************)
EXTENDS AlertEngine, PresenceRequirements, TLAPS

CONSTANT Connections
VARIABLES conns, source, mapped

Pres == INSTANCE Presence

\* A tick stands at one rule.
LEMMA OneRule ==
  ASSUME TypeOK, NEW pc1, NEW pc2, NEW r \in Rules, NEW x \in Rules,
         At(pc1, r), At(pc2, x)
  PROVE  r = x /\ pc1 = pc2
<1>1. r <= x /\ x <= r
  BY DEF At
<1> QED
  BY <1>1, AlertAssumption DEF At

LEMMA ViewType ==
  ASSUME TypeOK
  PROVE  View(table) \in Lists /\ Off \in Lists
BY DEF View, Off, Lists, Enabled, TypeOK

LEMMA AsleepType ==
  ASSUME TypeOK
  PROVE  /\ Asleep.pc = "asleep" /\ Asleep.list = Off
         /\ Asleep \in Ticks
BY ViewType DEF Asleep, Ticks

\* Leaving a rule: no rule is left waiting for PostgreSQL.
LEMMA DoneType ==
  ASSUME TypeOK, NEW r \in Rules, Done(r)
  PROVE  /\ tick' \in Ticks
         /\ tick'.pc \in {"asleep", "rule"}
<1>1. Asleep \in Ticks /\ Asleep.pc = "asleep"
  BY AsleepType DEF Ticks
<1>2. tick \in Ticks
  BY DEF TypeOK, Ticks
<1>3. [tick EXCEPT !.pc = "rule", !.list[r] = "off"] \in Ticks
  BY <1>2 DEF Ticks, Lists
<1> QED
  BY <1>1, <1>2, <1>3 DEF Done, Ticks

LEMMA SuspendType ==
  ASSUME TypeOK, NEW pc \in {"fire", "insert", "resolve", "tell"}, Suspend(pc)
  PROVE  tick' \in Ticks /\ tick'.pc = pc /\ tick'.list = tick.list
<1>1. tick \in Ticks
  BY DEF TypeOK, Ticks
<1> QED
  BY <1>1 DEF Suspend, Ticks

LEMMA RecoveredType ==
  ASSUME TypeOK, NEW r \in Rules, Recovered(r)
  PROVE  tick' \in Ticks /\ tick'.pc \in {"asleep", "rule", "tell"}
BY DoneType, SuspendType DEF Recovered

LEMMA LoopType ==
  ASSUME TypeOK, NEW list \in Lists, Loop(list)
  PROVE  /\ tick' \in Ticks
         /\ tick'.pc \in {"asleep", "rule"}
<1>1. Asleep \in Ticks /\ Asleep.pc = "asleep"
  BY AsleepType DEF Ticks
<1>2. [pc |-> "rule", rows |-> Off, list |-> list] \in Ticks
  BY ViewType DEF Ticks
<1> QED
  BY <1>1, <1>2 DEF Loop

-----------------------------------------------------------------------------
(* Type correctness *)

LEMMA InitType == Init => TypeOK
<1> SUFFICES ASSUME Init PROVE TypeOK
  OBVIOUS
<1>1. Off \in Lists
  BY DEF Off, Lists, Enabled
<1>2. View(table) \in Lists
  BY DEF View, Lists, Enabled, Init
<1>3. Asleep \in Ticks
  BY <1>1 DEF Asleep, Ticks
<1>4. Blank \in RuleStates
  BY DEF Blank, RuleStates
<1>5. [e \in Edits |-> [phase |-> "new", rows |-> Off]]
        \in [Edits -> [phase : Phases, rows : Lists]]
  BY <1>1 DEF Phases
<1>6. table \in [Rules -> Statuses]
  BY DEF Init, Statuses, Stored, Enabled
<1>7. reading \in [Rules -> Readings]
  BY DEF Init, Readings
<1>8. faults \in 0..MaxFaults
  BY AlertAssumption DEF Init
<1>9. ready \in BOOLEAN /\ due \in BOOLEAN
  BY DEF Init
<1> QED
  BY <1>2, <1>3, <1>4, <1>5, <1>6, <1>7, <1>8, <1>9 DEF Init, TypeOK

LEMMA TickType ==
  ASSUME TypeOK, TickStarts \/ RefreshReturns \/ RefreshFails
  PROVE  TypeOK'
<1>1. CASE TickStarts
  <2>1. tick' \in Ticks
    <3>1. CASE ready /\ due
      <4>1. [Asleep EXCEPT !.pc = "refresh", !.rows = View(table)] \in Ticks
        BY ViewType DEF Asleep, Ticks
      <4> QED
        BY <1>1, <3>1, <4>1 DEF TickStarts, TypeOK
    <3>2. CASE ~(ready /\ due)
      BY <1>1, <3>2, LoopType DEF TickStarts, TypeOK
    <3> QED
      BY <3>1, <3>2
  <2> QED
    BY <1>1, <2>1 DEF TickStarts, TypeOK, database, past
<1>2. CASE RefreshReturns
  <2>1. tick.rows \in Lists
    BY DEF TypeOK, Ticks
  <2>2. Loop(tick.rows)
    BY <1>2 DEF RefreshReturns
  <2>3. tick' \in Ticks
    BY <2>1, <2>2, LoopType
  <2> QED
    BY <1>2, <2>1, <2>3 DEF RefreshReturns, TypeOK, database, past
<1>3. CASE RefreshFails
  <2>1. tick' \in Ticks
    BY <1>3, LoopType DEF RefreshFails, TypeOK
  <2>2. faults' \in 0..MaxFaults
    BY <1>3, AlertAssumption DEF RefreshFails, Fault, TypeOK
  <2> QED
    BY <1>3, <2>1, <2>2 DEF RefreshFails, TypeOK, database, past
<1> QED
  BY <1>1, <1>2, <1>3

LEMMA RuleType ==
  ASSUME TypeOK, NEW r \in Rules,
         Aborts(r) \/ Rises(r) \/ MessageRaises(r) \/ Continues(r) \/ Falls(r)
  PROVE  TypeOK'
<1>1. CASE Aborts(r)
  <2> QED
    BY <1>1, AsleepType DEF Aborts, TypeOK, database, past
<1>2. CASE Rises(r)
  <2>1. st[r] \in RuleStates
    BY DEF TypeOK
  <2>2. st' \in [Rules -> RuleStates]
    <3>1. [st[r] EXCEPT !.pending = "waiting"] \in RuleStates
      BY <2>1 DEF RuleStates
    <3>2. [st[r] EXCEPT !.pending = "no", !.firing = TRUE] \in RuleStates
      BY <2>1 DEF RuleStates
    <3>3. st[r].pending \in {"no", "waiting", "over"}
      BY <2>1 DEF RuleStates
    <3> QED
      BY <1>2, <3>1, <3>2, <3>3 DEF Rises, TypeOK
  <2>3. tick' \in Ticks
    <3>1. st[r].pending \in {"no", "waiting", "over"}
      BY <2>1 DEF RuleStates
    <3>2. Done(r) \/ Suspend("fire")
      BY <1>2, <3>1 DEF Rises
    <3> QED
      BY <3>2, DoneType, SuspendType
  <2> QED
    BY <1>2, <2>2, <2>3 DEF Rises, TypeOK, database, past
<1>3. CASE Continues(r)
  <2>1. tick' \in Ticks
    BY <1>3, DoneType, SuspendType DEF Continues
  <2> QED
    BY <1>3, <2>1 DEF Continues, TypeOK, database, past
<1>4. CASE Falls(r)
  <2>1. st[r] \in RuleStates
    BY DEF TypeOK
  <2>2. /\ [st[r] EXCEPT !.pending = "no"] \in RuleStates
        /\ [st[r] EXCEPT !.pending = "no", !.firing = FALSE] \in RuleStates
        /\ Blank \in RuleStates
    BY <2>1 DEF RuleStates, Blank
  <2>3. st' \in [Rules -> RuleStates]
    BY <1>4, <2>2 DEF Falls, TypeOK
  <2>4. tick' \in Ticks
    BY <1>4, DoneType, SuspendType, RecoveredType DEF Falls
  <2>5. excused' \subseteq Rules \X Ids
    BY <1>4, <2>1 DEF Falls, TypeOK, RuleStates
  <2>6. unrecorded' \subseteq Rules /\ silenced' \subseteq Rules
    BY <1>4 DEF Falls, TypeOK
  <2> QED
    BY <1>4, <2>3, <2>4, <2>5, <2>6 DEF Falls, TypeOK, database
<1>5. CASE MessageRaises(r)
  <2>1. [st[r] EXCEPT !.pending = "no", !.firing = TRUE] \in RuleStates
    BY DEF TypeOK, RuleStates
  <2>2. st' \in [Rules -> RuleStates]
    BY <1>5, <2>1 DEF MessageRaises, TypeOK
  <2>3. silenced' \subseteq Rules
    BY <1>5 DEF MessageRaises, TypeOK
  <2> QED
    BY <1>5, <2>2, <2>3, AsleepType DEF MessageRaises, TypeOK, database
<1> QED
  BY <1>1, <1>2, <1>3, <1>4, <1>5

LEMMA AnswerType ==
  ASSUME TypeOK, AwaitInv, NEW r \in Rules,
         \/ Told(r) \/ InsertReturns(r) \/ InsertFails(r)
         \/ ResolveReturns(r) \/ ResolveFails(r)
  PROVE  TypeOK'
<1>1. st[r] \in RuleStates
  BY DEF TypeOK
<1>2. \A n \in Ids \cup {NoRow} : [st[r] EXCEPT !.id = n] \in RuleStates
  BY <1>1 DEF RuleStates
<1>3. st[r].id \in Ids \cup {NoRow}
  BY <1>1 DEF RuleStates
<1>4. CASE Told(r)
  <2>1. tick' \in Ticks
    BY <1>4, DoneType, SuspendType DEF Told
  <2> QED
    BY <1>4, <2>1 DEF Told, TypeOK, database
<1>5. CASE InsertReturns(r)
  <2>1. PICK n \in Ids : alerts' = alerts \cup {<<r, n>>} /\ st' = [st EXCEPT ![r].id = n]
    BY <1>5 DEF InsertReturns
  <2>2. st' \in [Rules -> RuleStates]
    BY <2>1, <1>2 DEF TypeOK
  <2>3. tick' \in Ticks
    BY <1>5, DoneType DEF InsertReturns
  <2> QED
    BY <1>5, <2>1, <2>2, <2>3 DEF InsertReturns, TypeOK, past
<1>6. CASE InsertFails(r)
  <2>1. tick' \in Ticks
    BY <1>6, DoneType DEF InsertFails
  <2>2. faults' \in 0..MaxFaults
    BY <1>6, AlertAssumption DEF InsertFails, Fault, TypeOK
  <2>3. alerts' \subseteq Rules \X Ids /\ excused' \subseteq Rules \X Ids
    BY <1>6 DEF InsertFails, TypeOK
  <2> QED
    BY <1>6, <2>1, <2>2, <2>3 DEF InsertFails, TypeOK
<1>7. CASE ResolveReturns(r)
  <2>1. st' \in [Rules -> RuleStates]
    BY <1>7, <1>2 DEF ResolveReturns, TypeOK
  <2>2. tick' \in Ticks
    BY <1>7, RecoveredType DEF ResolveReturns
  <2> QED
    BY <1>7, <2>1, <2>2 DEF ResolveReturns, TypeOK, past
<1>8. CASE ResolveFails(r)
  <2>1. st' \in [Rules -> RuleStates]
    BY <1>8, <1>2 DEF ResolveFails, TypeOK
  <2>2. tick' \in Ticks
    BY <1>8, RecoveredType DEF ResolveFails
  <2>3. faults' \in 0..MaxFaults
    BY <1>8, AlertAssumption DEF ResolveFails, Fault, TypeOK
  <2>4. st[r].id \in Ids
    BY <1>3, <1>8 DEF ResolveFails, AwaitInv
  <2>5. excused' \subseteq Rules \X Ids /\ alerts' \subseteq Rules \X Ids
    BY <1>8, <2>4 DEF ResolveFails, TypeOK
  <2> QED
    BY <1>8, <2>1, <2>2, <2>3, <2>5 DEF ResolveFails, TypeOK
<1> QED
  BY <1>4, <1>5, <1>6, <1>7, <1>8

LEMMA EditType ==
  ASSUME TypeOK, NEW e \in Edits,
         Save(e) \/ EditReads(e) \/ EditRefreshes(e) \/ EditFails(e)
  PROVE  TypeOK'
<1> DEFINE Requests == [phase : Phases, rows : Lists]
<1>1. edit[e] \in Requests
  BY DEF TypeOK
<1>2. [phase |-> "over", rows |-> Off] \in Requests
  BY ViewType DEF Phases
<1>3. CASE Save(e)
  <2>1. table' \in [Rules -> Statuses]
    BY <1>3 DEF Save, TypeOK, Statuses, Stored, Enabled
  <2>2. /\ [edit[e] EXCEPT !.phase = "saved"] \in Requests
        /\ [edit[e] EXCEPT !.phase = "over"] \in Requests
    BY <1>1 DEF Phases
  <2>3. edit' \in [Edits -> Requests]
    BY <1>3, <2>2 DEF Save, TypeOK
  <2>4. faults' \in 0..MaxFaults
    BY <1>3, AlertAssumption DEF Save, Fault, TypeOK
  <2> QED
    BY <1>3, <2>1, <2>3, <2>4 DEF Save, TypeOK, engine, past
<1>4. CASE EditReads(e)
  <2>1. [phase |-> "read", rows |-> View(table)] \in Requests
    BY ViewType DEF Phases
  <2>2. edit' \in [Edits -> Requests]
    BY <1>4, <1>2, <2>1 DEF EditReads, TypeOK
  <2> QED
    BY <1>4, <2>2 DEF EditReads, TypeOK, database, engine, past
<1>5. CASE EditRefreshes(e)
  <2>1. edit' \in [Edits -> Requests]
    BY <1>5, <1>2 DEF EditRefreshes, TypeOK
  <2> QED
    BY <1>5, <1>1, <2>1 DEF EditRefreshes, TypeOK, database, past
<1>6. CASE EditFails(e)
  <2>1. edit' \in [Edits -> Requests]
    BY <1>6, <1>2 DEF EditFails, TypeOK
  <2>2. faults' \in 0..MaxFaults
    BY <1>6, AlertAssumption DEF EditFails, Fault, TypeOK
  <2> QED
    BY <1>6, <2>1, <2>2 DEF EditFails, TypeOK, database, engine, past
<1> QED
  BY <1>3, <1>4, <1>5, <1>6

LEMMA SurroundingsType ==
  ASSUME TypeOK,
         \/ \E r \in Rules : Reports(r) \/ HoldElapses(r)
         \/ RulesAge \/ GoesDown \/ ComesBack \/ Restart
  PROVE  TypeOK'
<1>1. ASSUME NEW r \in Rules, Reports(r) PROVE TypeOK'
  BY <1>1 DEF Reports, TypeOK, database, engine, past
<1>2. ASSUME NEW r \in Rules, HoldElapses(r) PROVE TypeOK'
  <2>1. [st[r] EXCEPT !.pending = "over"] \in RuleStates
    BY DEF TypeOK, RuleStates
  <2>2. st' \in [Rules -> RuleStates]
    BY <1>2, <2>1 DEF HoldElapses, TypeOK
  <2> QED
    BY <1>2, <2>2 DEF HoldElapses, TypeOK, database, past
<1>3. CASE RulesAge
  BY <1>3 DEF RulesAge, TypeOK, database, past
<1>4. CASE GoesDown
  <2>1. faults' \in 0..MaxFaults
    BY <1>4, AlertAssumption DEF GoesDown, Fault, TypeOK
  <2> QED
    BY <1>4, <2>1 DEF GoesDown, TypeOK, engine, past
<1>5. CASE ComesBack
  BY <1>5 DEF ComesBack, TypeOK, engine, past
<1>6. CASE Restart
  <2>1. faults' \in 0..MaxFaults
    BY <1>6, AlertAssumption DEF Restart, Fault, TypeOK
  <2>2. rules' \in Lists
    BY <1>6, ViewType DEF Restart
  <2>3. st' \in [Rules -> RuleStates]
    BY <1>6 DEF Restart, Blank, RuleStates
  <2>4. tick' \in Ticks
    BY <1>6, AsleepType DEF Restart
  <2>5. edit' \in [Edits -> [phase : Phases, rows : Lists]]
    BY <1>6, ViewType DEF Restart, TypeOK, Phases
  <2>6. reading' \in [Rules -> Readings]
    BY <1>6 DEF Restart, Readings
  <2> QED
    BY <1>6, <2>1, <2>2, <2>3, <2>4, <2>5, <2>6 DEF Restart, TypeOK, database
<1> QED
  BY <1>1, <1>2, <1>3, <1>4, <1>5, <1>6

LEMMA StepType == TypeOK /\ AwaitInv /\ [Next]_vars => TypeOK'
<1> SUFFICES ASSUME TypeOK, AwaitInv, [Next]_vars PROVE TypeOK'
  OBVIOUS
<1>1. CASE UNCHANGED vars
  BY <1>1 DEF vars, database, engine, past, TypeOK
<1>2. CASE Next
  BY <1>2, TickType, RuleType, AnswerType, EditType, SurroundingsType
  DEF Next, Evaluates, Answers
<1> QED
  BY <1>1, <1>2

-----------------------------------------------------------------------------
(* The engine and the table *)

Agree == HistoryAgrees /\ AwaitInv

\* Where a tick stands matters only at the three awaits about an alert.
Quiet == {"asleep", "refresh", "rule", "tell"}

\* A step that leaves the alerts and the firing rules alone.
LEMMA QuietKeeps ==
  ASSUME IInv, tick.pc \in Quiet, tick'.pc \in Quiet,
         UNCHANGED <<alerts, excused>>, Unwritten \subseteq Unwritten',
         \A x \in Rules : st'[x].id = st[x].id /\ st'[x].firing = st[x].firing
  PROVE  Agree'
BY DEF IInv, HistoryAgrees, AwaitInv, Agree, At, Quiet, TypeOK

LEMMA SameKeeps ==
  ASSUME IInv, UNCHANGED <<alerts, excused, Unwritten, st, tick>>
  PROVE  Agree'
BY DEF IInv, HistoryAgrees, AwaitInv, Agree, At, In

LEMMA TickKeeps ==
  ASSUME IInv, TickStarts \/ RefreshReturns \/ RefreshFails
  PROVE  Agree'
<1>1. TypeOK /\ rules \in Lists /\ tick.rows \in Lists
  BY DEF IInv, TypeOK, Ticks
<1>2. tick.pc \in Quiet
  BY DEF TickStarts, RefreshReturns, RefreshFails, Asleep, Quiet
<1>3. tick'.pc \in Quiet
  <2>1. CASE TickStarts
    <3>1. CASE ready /\ due
      BY <2>1, <3>1 DEF TickStarts, Asleep, Quiet
    <3>2. CASE ~(ready /\ due)
      BY <1>1, <2>1, <3>2, LoopType DEF TickStarts, Quiet
    <3> QED
      BY <3>1, <3>2
  <2>2. CASE RefreshReturns
    <3>1. Loop(tick.rows)
      BY <2>2 DEF RefreshReturns
    <3> QED
      BY <1>1, <3>1, LoopType DEF Quiet
  <2>3. CASE RefreshFails
    BY <1>1, <2>3, LoopType DEF RefreshFails, Quiet
  <2> QED
    BY <2>1, <2>2, <2>3
<1>4. UNCHANGED <<alerts, excused, Unwritten, st>>
  BY DEF TickStarts, RefreshReturns, RefreshFails, database, past, Unwritten
<1> QED
  BY <1>2, <1>3, <1>4, QuietKeeps

\* A rule before its evaluation: nobody is waiting for a row of it.
LEMMA BeforeRule ==
  ASSUME IInv, NEW r \in Rules, At("rule", r)
  PROVE  /\ tick.pc \in Quiet
         /\ st[r].id # NoRow => st[r].firing
BY DEF IInv, HistoryAgrees, At, Quiet

\* What the engine and the table say about one rule.
Holds(r) ==
  /\ st[r].id # NoRow =>
       <<r, st[r].id>> \in alerts /\ (st[r].firing \/ At("resolve", r))
  /\ \A n \in Ids : <<r, n>> \in alerts => <<r, n>> \in excused \/ st[r].id = n
  /\ st[r].firing /\ st[r].id = NoRow =>
       r \in Unwritten \/ At("fire", r) \/ At("insert", r)
  /\ At("fire", r) \/ At("insert", r) => st[r].firing /\ st[r].id = NoRow
  /\ At("resolve", r) => ~st[r].firing /\ st[r].id # NoRow

LEMMA RowNumbers == \A n \in Ids : n # NoRow
BY AlertAssumption DEF Ids, NoRow

LEMMA HoldsNow ==
  ASSUME IInv, NEW r \in Rules
  PROVE  Holds(r)
<1>1. TypeOK /\ HistoryAgrees /\ AwaitInv
  BY DEF IInv
<1>2. \A n \in Ids : <<r, n>> \in alerts => <<r, n>> \in excused \/ st[r].id = n
  BY <1>1 DEF HistoryAgrees
<1> QED
  BY <1>1, <1>2 DEF HistoryAgrees, AwaitInv, Holds

LEMMA Together ==
  ASSUME TypeOK', \A r \in Rules : Holds(r)'
  PROVE  Agree'
<1>1. ASSUME NEW x \in alerts'
      PROVE  x \in excused' \/ st'[x[1]].id = x[2]
  <2>1. PICK r \in Rules, n \in Ids : x = <<r, n>>
    BY <1>1 DEF TypeOK
  <2>2. <<r, n>> \in excused' \/ st'[r].id = n
    BY <1>1, <2>1 DEF Holds
  <2> QED
    BY <2>1, <2>2
<1> QED
  BY <1>1 DEF Agree, HistoryAgrees, AwaitInv, Holds

\* A step of the tick at r leaves every other rule as it was.
LEMMA OtherRule ==
  ASSUME IInv, NEW r \in Rules, NEW x \in Rules, x # r, NEW pc, At(pc, r),
         tick'.pc \in Quiet \/ tick'.list = tick.list,
         st'[x] = st[x],
         \A n \in Ids : <<x, n>> \in alerts' <=> <<x, n>> \in alerts,
         excused \subseteq excused',
         x \in Unwritten => x \in Unwritten'
  PROVE  Holds(x)'
<1>1. TypeOK /\ Holds(x)
  BY HoldsNow DEF IInv
<1>2. \A other \in {"fire", "insert", "resolve"} : ~At(other, x) /\ ~At(other, x)'
  <2>1. ~(x \in In(tick.list) /\ \A y \in In(tick.list) : x <= y)
    BY AlertAssumption DEF At
  <2> QED
    BY <2>1 DEF At, Quiet, In
<1>3. st[x].id \in Ids \cup {NoRow}
  BY <1>1 DEF TypeOK, RuleStates
<1>4. st[x].id # NoRow => <<x, st[x].id>> \in alerts'
  BY <1>1, <1>3 DEF Holds
<1>5. \A n \in Ids : <<x, n>> \in alerts' => <<x, n>> \in excused' \/ st'[x].id = n
  BY <1>1 DEF Holds
<1> QED
  BY <1>1, <1>2, <1>4, <1>5 DEF Holds

\* So only the rule the tick stands at has to be looked at.
LEMMA OnlyHere ==
  ASSUME IInv, TypeOK', NEW r \in Rules, NEW pc, At(pc, r),
         tick'.pc \in Quiet \/ tick'.list = tick.list,
         \A x \in Rules \ {r} : st'[x] = st[x],
         \A x \in Rules \ {r}, n \in Ids : <<x, n>> \in alerts' <=> <<x, n>> \in alerts,
         excused \subseteq excused',
         Unwritten \ {r} \subseteq Unwritten',
         Holds(r)'
  PROVE  Agree'
<1>1. ASSUME NEW x \in Rules PROVE Holds(x)'
  BY <1>1, OtherRule
<1> QED
  BY <1>1, Together

\* What a suspension leaves: the tick stands at r and at the new place.
LEMMA Stands ==
  ASSUME TypeOK, NEW r \in Rules, NEW pc0, At(pc0, r),
         NEW pc \in {"fire", "insert", "resolve", "tell"}, Suspend(pc)
  PROVE  At(pc, r)' /\ \A other : other # pc => ~At(other, r)'
<1>1. tick'.pc = pc /\ tick'.list = tick.list
  BY SuspendType
<1> QED
  BY <1>1 DEF At, In

LEMMA QuietRule ==
  ASSUME tick'.pc \in Quiet, NEW r \in Rules
  PROVE  ~At("fire", r)' /\ ~At("insert", r)' /\ ~At("resolve", r)'
BY DEF At, Quiet

LEMMA AbortKeeps ==
  ASSUME IInv, NEW r \in Rules, Aborts(r) \/ Continues(r)
  PROVE  Agree'
<1>1. TypeOK /\ tick.pc \in Quiet
  BY BeforeRule DEF IInv, Aborts, Continues
<1>2. tick'.pc \in Quiet
  BY <1>1, AsleepType, DoneType, SuspendType DEF Aborts, Continues, Quiet
<1>3. UNCHANGED <<alerts, excused, Unwritten, st>>
  BY DEF Aborts, Continues, database, past, Unwritten
<1> QED
  BY <1>1, <1>2, <1>3, QuietKeeps

LEMMA RiseKeeps ==
  ASSUME IInv, TypeOK', NEW r \in Rules, Rises(r)
  PROVE  Agree'
<1>1. TypeOK /\ At("rule", r) /\ ~st[r].firing /\ st[r].id = NoRow
  BY BeforeRule DEF IInv, Rises
<1>2. UNCHANGED <<alerts, excused, Unwritten>>
  BY DEF Rises, database, past, Unwritten
<1>3. st[r].pending \in {"no", "waiting", "over"} /\ st \in [Rules -> RuleStates]
  BY <1>1 DEF TypeOK, RuleStates
<1>4. CASE st[r].pending # "over"
  <2>1. Done(r) /\ tick'.pc \in Quiet
    BY <1>1, <1>3, <1>4, DoneType DEF Rises, Quiet
  <2>2. \A x \in Rules : st'[x].id = st[x].id /\ st'[x].firing = st[x].firing
    <3>1. st' = st \/ st' = [st EXCEPT ![r].pending = "waiting"]
      BY <1>3, <1>4 DEF Rises
    <3>2. \A x \in Rules : st'[x] = st[x] \/ st'[x] = [st[x] EXCEPT !.pending = "waiting"]
      BY <1>3, <3>1
    <3>3. \A x \in Rules : st[x] \in RuleStates
      BY <1>3
    <3> QED
      BY <3>2, <3>3 DEF RuleStates
  <2> QED
    BY <1>1, <1>2, <2>1, <2>2, BeforeRule, QuietKeeps
<1>5. CASE st[r].pending = "over"
  <2>1. Suspend("fire") /\ tick'.list = tick.list
    BY <1>1, <1>5, SuspendType DEF Rises
  <2>2. At("fire", r)' /\ ~At("resolve", r)'
    BY <1>1, <2>1, Stands
  <2>3. st' = [st EXCEPT ![r].pending = "no", ![r].firing = TRUE]
    BY <1>5 DEF Rises
  <2>4. st'[r].firing /\ st'[r].id = NoRow /\ \A x \in Rules \ {r} : st'[x] = st[x]
    <3>1. st'[r] = [st[r] EXCEPT !.pending = "no", !.firing = TRUE]
      BY <1>3, <2>3
    <3>2. st'[r].firing /\ st'[r].id = st[r].id
      BY <1>3, <3>1 DEF RuleStates
    <3>3. \A x \in Rules \ {r} : st'[x] = st[x]
      BY <1>3, <2>3
    <3> QED
      BY <1>1, <3>2, <3>3
  <2>5. \A n \in Ids : <<r, n>> \in alerts' => <<r, n>> \in excused'
    BY <1>1, <1>2, HoldsNow, RowNumbers DEF Holds
  <2>6. Holds(r)'
    BY <2>2, <2>4, <2>5 DEF Holds
  <2> QED
    BY <1>1, <1>2, <2>1, <2>4, <2>6, OnlyHere
<1> QED
  BY <1>4, <1>5

LEMMA SilencedKeeps ==
  ASSUME IInv, TypeOK', NEW r \in Rules, MessageRaises(r)
  PROVE  Agree'
<1>1. TypeOK /\ At("rule", r) /\ tick.pc \in Quiet /\ tick' = Asleep
  BY BeforeRule DEF IInv, MessageRaises
<1>2. alerts' = alerts /\ excused' = excused /\ Unwritten \subseteq Unwritten'
  BY DEF MessageRaises, database, Unwritten
<1>3. tick'.pc \in Quiet
  BY <1>1, AsleepType DEF Quiet
<1>4. CASE st' = st
  BY <1>1, <1>2, <1>3, <1>4, QuietKeeps
<1>5. CASE ~st[r].firing
  <2>1. st[r].id = NoRow /\ st \in [Rules -> RuleStates]
    BY <1>1, <1>5, BeforeRule DEF TypeOK
  <2>2. st' = [st EXCEPT ![r].pending = "no", ![r].firing = TRUE]
    BY <1>5 DEF MessageRaises
  <2>3. r \in Unwritten'
    BY <1>5 DEF MessageRaises, Unwritten
  <2>4. st'[r] = [st[r] EXCEPT !.pending = "no", !.firing = TRUE]
    BY <2>1, <2>2
  <2>5. st'[r].id = NoRow /\ st'[r].firing /\ \A x \in Rules \ {r} : st'[x] = st[x]
    BY <2>1, <2>2, <2>4 DEF RuleStates
  <2>6. \A n \in Ids : <<r, n>> \in alerts' => <<r, n>> \in excused'
    BY <1>2, <2>1, HoldsNow, RowNumbers DEF Holds
  <2>7. Holds(r)'
    BY <1>3, <2>3, <2>5, <2>6, QuietRule DEF Holds
  <2> QED
    BY <1>1, <1>2, <1>3, <2>5, <2>7, OnlyHere
<1> QED
  BY <1>4, <1>5 DEF MessageRaises

LEMMA FallKeeps ==
  ASSUME IInv, TypeOK', NEW r \in Rules, Falls(r)
  PROVE  Agree'
<1>1. TypeOK /\ At("rule", r) /\ (st[r].id # NoRow => st[r].firing) /\ Holds(r)
  BY BeforeRule, HoldsNow DEF IInv, Falls
<1>2. /\ alerts' = alerts /\ excused \subseteq excused'
      /\ Unwritten \ {r} \subseteq Unwritten'
  BY DEF Falls, database, Unwritten
<1>3. st \in [Rules -> RuleStates] /\ st[r] \in RuleStates
  BY <1>1 DEF TypeOK
<1>4. \A x \in Rules \ {r} : st'[x] = st[x]
  BY <1>3 DEF Falls
<1>5. CASE ~st[r].firing
  <2>1. tick'.pc \in Quiet
    BY <1>1, <1>5, DoneType DEF Falls, Quiet
  <2>2. st'[r] = [st[r] EXCEPT !.pending = "no"]
    BY <1>3, <1>5 DEF Falls
  <2>3. st'[r].id = st[r].id /\ st'[r].firing = st[r].firing
    BY <1>3, <2>2 DEF RuleStates
  <2>4. Holds(r)'
    BY <1>1, <1>2, <1>5, <2>1, <2>3, QuietRule DEF Holds
  <2> QED
    BY <1>1, <1>2, <1>4, <2>1, <2>4, OnlyHere
<1>6. CASE st[r].firing /\ st[r].id # NoRow /\ ready
  <2>1. Suspend("resolve") /\ tick'.list = tick.list
    BY <1>1, <1>6, SuspendType DEF Falls
  <2>2. At("resolve", r)' /\ ~At("fire", r)' /\ ~At("insert", r)'
    BY <1>1, <2>1, Stands
  <2>3. st'[r] = [st[r] EXCEPT !.pending = "no", !.firing = FALSE]
    BY <1>3, <1>6 DEF Falls
  <2>4. st'[r].id = st[r].id /\ ~st'[r].firing
    BY <1>3, <2>3 DEF RuleStates
  <2>5. Holds(r)'
    BY <1>1, <1>2, <1>6, <2>2, <2>4 DEF Holds
  <2> QED
    BY <1>1, <1>2, <1>4, <2>1, <2>5, OnlyHere
<1>7. CASE st[r].firing /\ (st[r].id = NoRow \/ ~ready)
  <2>1. tick'.pc \in Quiet
    BY <1>1, <1>7, RecoveredType DEF Falls, Quiet
  <2>2. st'[r] = Blank
    BY <1>3, <1>7 DEF Falls
  <2>3. st'[r].id = NoRow /\ ~st'[r].firing
    BY <2>2 DEF Blank
  <2>4. \A n \in Ids : <<r, n>> \in alerts' => <<r, n>> \in excused'
    BY <1>1, <1>2, <1>7, RowNumbers DEF Falls, Holds
  <2>5. Holds(r)'
    BY <2>1, <2>3, <2>4, QuietRule DEF Holds
  <2> QED
    BY <1>1, <1>2, <1>4, <2>1, <2>5, OnlyHere
<1> QED
  BY <1>5, <1>6, <1>7

LEMMA ToldKeeps ==
  ASSUME IInv, TypeOK', NEW r \in Rules, Told(r)
  PROVE  Agree'
<1>1. TypeOK /\ Holds(r)
  BY HoldsNow DEF IInv
<1>2. UNCHANGED <<alerts, excused, st>> /\ Unwritten \subseteq Unwritten'
  BY DEF Told, database, Unwritten
<1>3. CASE At("tell", r) /\ Done(r)
  <2>1. tick.pc \in Quiet /\ tick'.pc \in Quiet
    BY <1>1, <1>3, DoneType DEF Quiet, At
  <2> QED
    BY <1>2, <2>1, QuietKeeps
<1>4. CASE At("fire", r) /\ Suspend("insert")
  <2>1. tick'.list = tick.list
    BY <1>1, <1>4, SuspendType
  <2>2. At("insert", r)' /\ ~At("resolve", r)'
    BY <1>1, <1>4, Stands
  <2>3. Holds(r)'
    BY <1>1, <1>2, <1>4, <2>2, RowNumbers DEF Holds
  <2> QED
    BY <1>1, <1>2, <1>4, <2>1, <2>3, OnlyHere
<1>5. CASE At("fire", r) /\ Done(r) /\ Unwritten' = Unwritten \cup {r}
  <2>1. tick'.pc \in Quiet
    BY <1>1, <1>5, DoneType DEF Quiet
  <2>2. Holds(r)'
    BY <1>1, <1>2, <1>5, <2>1, QuietRule DEF Holds
  <2> QED
    BY <1>1, <1>2, <1>5, <2>1, <2>2, OnlyHere
<1> QED
  BY <1>3, <1>4, <1>5 DEF Told, Unwritten

LEMMA InsertKeeps ==
  ASSUME IInv, TypeOK', NEW r \in Rules, InsertReturns(r) \/ InsertFails(r)
  PROVE  Agree'
<1>1. TypeOK /\ Holds(r) /\ At("insert", r) /\ st[r].firing /\ st[r].id = NoRow
  BY HoldsNow DEF IInv, Holds, InsertReturns, InsertFails
<1>2. tick'.pc \in Quiet
  BY <1>1, DoneType DEF InsertReturns, InsertFails, Quiet
<1>3. st \in [Rules -> RuleStates] /\ st[r] \in RuleStates
  BY <1>1 DEF TypeOK
<1>4. CASE InsertReturns(r)
  <2>1. PICK n \in Ids : alerts' = alerts \cup {<<r, n>>} /\ st' = [st EXCEPT ![r].id = n]
    BY <1>4 DEF InsertReturns
  <2>2. UNCHANGED <<excused, Unwritten>>
    BY <1>4 DEF InsertReturns, past, Unwritten
  <2>3. st'[r] = [st[r] EXCEPT !.id = n] /\ \A x \in Rules \ {r} : st'[x] = st[x]
    BY <1>3, <2>1
  <2>4. st'[r].id = n /\ st'[r].firing
    BY <1>1, <1>3, <2>3 DEF RuleStates
  <2>5. \A m \in Ids : <<r, m>> \in alerts' => <<r, m>> \in excused' \/ m = n
    BY <1>1, <2>1, <2>2, RowNumbers DEF Holds
  <2>6. Holds(r)'
    BY <1>2, <2>1, <2>4, <2>5, QuietRule, RowNumbers DEF Holds
  <2>7. \A x \in Rules \ {r}, m \in Ids : <<x, m>> \in alerts' <=> <<x, m>> \in alerts
    BY <2>1
  <2> QED
    BY <1>1, <1>2, <2>2, <2>3, <2>6, <2>7, OnlyHere
<1>5. CASE InsertFails(r)
  <2>1. UNCHANGED st /\ Unwritten' = Unwritten \cup {r} /\ excused \subseteq excused'
    BY <1>5 DEF InsertFails, Unwritten
  <2>2. \A x \in Rules \ {r}, m \in Ids : <<x, m>> \in alerts' <=> <<x, m>> \in alerts
    BY <1>5 DEF InsertFails
  <2>3. \A m \in Ids : <<r, m>> \in alerts' => <<r, m>> \in excused'
    BY <1>1, <1>5, RowNumbers DEF InsertFails, Holds
  <2>4. Holds(r)'
    BY <1>1, <1>2, <2>1, <2>3, QuietRule DEF Holds
  <2> QED
    BY <1>1, <1>2, <2>1, <2>2, <2>4, OnlyHere
<1> QED
  BY <1>4, <1>5

LEMMA ResolveKeeps ==
  ASSUME IInv, TypeOK', NEW r \in Rules, ResolveReturns(r) \/ ResolveFails(r)
  PROVE  Agree'
<1>1. TypeOK /\ Holds(r) /\ At("resolve", r) /\ ~st[r].firing
  BY HoldsNow DEF IInv, Holds, ResolveReturns, ResolveFails
<1>2. tick'.pc \in Quiet
  BY <1>1, RecoveredType DEF ResolveReturns, ResolveFails, Quiet
<1>3. st \in [Rules -> RuleStates] /\ st[r] \in RuleStates
  BY <1>1 DEF TypeOK
<1>4. st' = [st EXCEPT ![r].id = NoRow]
  BY DEF ResolveReturns, ResolveFails
<1>5. st'[r] = [st[r] EXCEPT !.id = NoRow] /\ \A x \in Rules \ {r} : st'[x] = st[x]
  BY <1>3, <1>4
<1>6. st'[r].id = NoRow /\ ~st'[r].firing
  BY <1>1, <1>3, <1>5 DEF RuleStates
<1>7. UNCHANGED Unwritten /\ excused \subseteq excused'
  BY DEF ResolveReturns, ResolveFails, past, Unwritten
<1>8. \A x \in Rules \ {r}, m \in Ids : <<x, m>> \in alerts' <=> <<x, m>> \in alerts
  BY DEF ResolveReturns, ResolveFails
<1>9. \A m \in Ids : <<r, m>> \in alerts' => <<r, m>> \in excused'
  BY <1>1, <1>7 DEF ResolveReturns, ResolveFails, Holds
<1>10. Holds(r)'
  BY <1>2, <1>6, <1>9, QuietRule DEF Holds
<1> QED
  BY <1>1, <1>2, <1>5, <1>7, <1>8, <1>10, OnlyHere

LEMMA SurroundingsKeep ==
  ASSUME IInv,
         \/ \E e \in Edits : Save(e) \/ EditReads(e) \/ EditRefreshes(e) \/ EditFails(e)
         \/ \E r \in Rules : Reports(r) \/ HoldElapses(r)
         \/ RulesAge \/ GoesDown \/ ComesBack \/ Restart
  PROVE  Agree'
<1>1. ASSUME NEW e \in Edits, Save(e) \/ EditReads(e) \/ EditRefreshes(e) \/ EditFails(e)
      PROVE  Agree'
  BY <1>1, SameKeeps DEF Save, EditReads, EditRefreshes, EditFails, database, engine, past, Unwritten
<1>2. ASSUME NEW r \in Rules, Reports(r) PROVE Agree'
  BY <1>2, SameKeeps DEF Reports, database, engine, past, Unwritten
<1>3. ASSUME NEW r \in Rules, HoldElapses(r) PROVE Agree'
  <2>1. tick.pc \in Quiet /\ UNCHANGED <<tick, alerts, excused, Unwritten>>
    BY <1>3 DEF HoldElapses, Quiet, database, past, Unwritten
  <2>2. \A x \in Rules : st[x] \in RuleStates
    BY DEF IInv, TypeOK
  <2>3. \A x \in Rules : st'[x] = st[x] \/ st'[x] = [st[x] EXCEPT !.pending = "over"]
    <3>1. st \in [Rules -> RuleStates]
      BY DEF IInv, TypeOK
    <3>2. QED BY <1>3, <3>1 DEF HoldElapses
  <2>4. \A x \in Rules : st'[x].id = st[x].id /\ st'[x].firing = st[x].firing
    <3> SUFFICES ASSUME NEW x \in Rules
                 PROVE  st'[x].id = st[x].id /\ st'[x].firing = st[x].firing
      OBVIOUS
    <3>1. CASE st'[x] = st[x]
      BY <3>1
    <3>2. CASE st'[x] = [st[x] EXCEPT !.pending = "over"]
      <4>1. st[x] \in RuleStates
        BY <2>2
      <4>2. QED BY <3>2, <4>1 DEF RuleStates
    <3>3. QED BY <2>3, <3>1, <3>2
  <2> QED
    BY <2>1, <2>4, QuietKeeps
<1>4. CASE RulesAge \/ GoesDown \/ ComesBack
  BY <1>4, SameKeeps DEF RulesAge, GoesDown, ComesBack, database, engine, past,
                           Unwritten
<1>5. CASE Restart
  <2>1. tick'.pc \in Quiet /\ excused' = alerts'
    BY <1>5, AsleepType DEF Restart, Quiet, database, IInv
  <2>2. \A r \in Rules : st'[r].id = NoRow /\ ~st'[r].firing
    BY <1>5 DEF Restart, Blank
  <2>3. \A r \in Rules : Holds(r)'
    BY <2>1, <2>2, QuietRule DEF Holds
  <2>4. TypeOK'
    BY <1>5, SurroundingsType DEF IInv
  <2> QED
    BY <2>3, <2>4, Together
<1> QED
  BY <1>1, <1>2, <1>3, <1>4, <1>5

-----------------------------------------------------------------------------
(* Results *)

LEMMA InitInv == Init => IInv
<1> SUFFICES ASSUME Init PROVE IInv
  OBVIOUS
<1>1. TypeOK
  BY InitType
<1>2. HistoryAgrees /\ AwaitInv
  BY DEF Init, Blank, Asleep, At, HistoryAgrees, AwaitInv
<1> QED
  BY <1>1, <1>2 DEF IInv

LEMMA StepInv == IInv /\ [Next]_vars => IInv'
<1> SUFFICES ASSUME IInv, [Next]_vars PROVE IInv'
  OBVIOUS
<1>1. TypeOK'
  BY StepType DEF IInv
<1>2. CASE UNCHANGED vars
  BY <1>1, <1>2, SameKeeps DEF vars, database, engine, past, IInv, Agree, Unwritten
<1>3. CASE Next
  <2>1. CASE TickStarts \/ RefreshReturns \/ RefreshFails
    BY <1>1, <2>1, TickKeeps DEF IInv, Agree
  <2>2. CASE Evaluates
    BY <1>1, <2>2, AbortKeeps, RiseKeeps, SilencedKeeps, FallKeeps DEF Evaluates, IInv, Agree
  <2>3. CASE Answers
    BY <1>1, <2>3, ToldKeeps, InsertKeeps, ResolveKeeps DEF Answers, IInv, Agree
  <2>4. CASE ~(TickStarts \/ RefreshReturns \/ RefreshFails) /\ ~Evaluates /\ ~Answers
    BY <1>1, <1>3, <2>4, SurroundingsKeep DEF Next, IInv, Agree
  <2> QED
    BY <2>1, <2>2, <2>3, <2>4
<1> QED
  BY <1>2, <1>3

\* The invariant that follows an alert from the tick that fires it to the one
\* that resolves it: it holds whatever awaits, edits and faults come between.
THEOREM InductiveInvariant == Safety => []IInv
<1>1. Init => IInv
  BY InitInv
<1>2. IInv /\ [Next]_vars => IInv'
  BY StepInv
<1> QED
  BY <1>1, <1>2, PTL DEF Safety

\* Type correctness: the engine's memory and the tables keep their types, for
\* any number of rules and requests.
THEOREM TypeCorrect == Safety => []TypeOK
<1>1. IInv => TypeOK
  BY DEF IInv
<1> QED
  BY <1>1, InductiveInvariant, PTL

\* The table of alerts and the engine agree at every await of tick(), except
\* for the rows a fault explains.
THEOREM HistoryMatches == Safety => []HistoryAgrees
<1>1. IInv => HistoryAgrees
  BY DEF IInv
<1> QED
  BY <1>1, InductiveInvariant, PTL

-----------------------------------------------------------------------------
(* What the rules about presence look at: the level is justified by the    *)
(* signals, and agrees with the audit trail, for any number of             *)
(* connections and any two thresholds.                                     *)

\* What a last will does to the record, whichever part of the system sent it.
LEMMA SetLinkKeeps ==
  ASSUME Pres!IInv, NEW up \in BOOLEAN, Pres!SetLink(up),
         conns' \in [Connections -> Pres!Phases], source' = source, mapped' \in BOOLEAN
  PROVE  Pres!IInv'
<1> DEFINE rb    == [robot EXCEPT !.known = TRUE, !.gone = ~up, !.tie = ~up]
           level == Pres!Evaluate(rb)
<1>1. robot' = [rb EXCEPT !.presence = level]
  BY DEF Pres!SetLink
<1>2. rb \in Pres!Records
  BY DEF Pres!IInv, Pres!TypeOK, Pres!Records
<1>3. /\ rb.heard = robot.heard
      /\ rb.age = robot.age
      /\ rb.gone = ~up
      /\ rb.known = TRUE
  BY DEF Pres!IInv, Pres!TypeOK
<1>4. level \in Pres!Levels
  BY DEF Pres!Evaluate, Pres!Levels, Pres!OK
<1>5. robot' \in Pres!Records
  BY <1>1, <1>2, <1>4 DEF Pres!Records
<1>6. /\ robot'.presence = level
      /\ robot'.heard = rb.heard
      /\ robot'.age = rb.age
      /\ robot'.gone = rb.gone
      /\ robot'.known = TRUE
  BY <1>1, <1>2, <1>3
<1>7. level = Pres!Evaluate(rb)
  OBVIOUS
<1>8. \/ noted' = IF level = Pres!OK THEN "online" ELSE "offline"
      \/ noted' = noted /\ robot.presence = level
  BY Zenon DEF Pres!SetLink, Pres!Note
<1> HIDE DEF rb, level
<1>9. Pres!TypeOK'
  BY <1>5, <1>8 DEF Pres!IInv, Pres!TypeOK
<1>10. Pres!PresenceJustified'
  <2>1. rb.age \in Nat
    BY <1>2, PresenceAssumption DEF Pres!Records
  <2>2. QED
    BY <1>2, <1>6, <1>7, <2>1, PresenceAssumption
      DEF Pres!Evaluate, Pres!OK, Pres!PresenceJustified
<1>11. Pres!TrailAgrees'
  <2>1. CASE noted' = IF level = Pres!OK THEN "online" ELSE "offline"
    BY <1>6, <2>1 DEF Pres!TrailAgrees, Pres!OK
  <2>2. CASE noted' = noted /\ robot.presence = level
    BY <1>6, <2>2 DEF Pres!IInv, Pres!TrailAgrees
  <2>3. QED BY <1>8, <2>1, <2>2
<1>12. Pres!OKIsPrompt'
  <2>1. Pres!Evaluate(robot') = Pres!Evaluate(rb)
    BY <1>6 DEF Pres!Evaluate
  <2>2. QED BY <1>6, <1>7, <2>1 DEF Pres!OKIsPrompt
<1>13. Pres!UnknownIsBlank'
  BY <1>6 DEF Pres!UnknownIsBlank
<1>14. QED BY <1>9, <1>10, <1>11, <1>12, <1>13 DEF Pres!IInv

\* A record that does not change keeps everything said about it.
LEMMA SameRecordKeeps ==
  ASSUME Pres!IInv, UNCHANGED <<robot, noted>>,
         conns' \in [Connections -> Pres!Phases], source' \in {"alive", "dead"},
         mapped' \in BOOLEAN
  PROVE  Pres!IInv'
BY DEF Pres!IInv, Pres!TypeOK, Pres!PresenceJustified, Pres!TrailAgrees, Pres!OKIsPrompt,
       Pres!UnknownIsBlank, Pres!Evaluate

LEMMA PresenceInit ==
  Pres!Init => Pres!IInv
<1> SUFFICES ASSUME Pres!Init PROVE Pres!IInv
  OBVIOUS
<1>1. Pres!Blank \in Pres!Records
  BY PresenceAssumption DEF Pres!Records, Pres!Blank, Pres!Levels
<1>2. Pres!TypeOK
  BY <1>1 DEF Pres!Init, Pres!TypeOK, Pres!Phases
<1>3. Pres!PresenceJustified /\ Pres!TrailAgrees
  BY DEF Pres!Init, Pres!Blank, Pres!PresenceJustified, Pres!TrailAgrees, Pres!OK
<1>4. Pres!OKIsPrompt /\ Pres!UnknownIsBlank
  BY DEF Pres!Init, Pres!Blank, Pres!OKIsPrompt, Pres!UnknownIsBlank, Pres!Evaluate, Pres!OK
<1>5. QED BY <1>2, <1>3, <1>4 DEF Pres!IInv

LEMMA StatusKeeps ==
  ASSUME Pres!IInv, NEW c \in Connections, Pres!SendStatus(c)
  PROVE  Pres!IInv'
<1>1. robot' = [robot EXCEPT !.known = TRUE, !.presence = Pres!OK, !.heard = TRUE,
                             !.age = 0, !.gone = robot.gone /\ robot.tie]
  BY DEF Pres!SendStatus, Pres!IngestStatus
<1> DEFINE gone == robot.gone /\ robot.tie
<1>a. gone \in BOOLEAN
  OBVIOUS
<1>b. robot' = [robot EXCEPT !.known = TRUE, !.presence = Pres!OK, !.heard = TRUE,
                             !.age = 0, !.gone = gone]
  BY <1>1
<1> HIDE DEF gone
<1>2. /\ robot'.presence = Pres!OK
      /\ robot'.heard = TRUE
      /\ robot'.known = TRUE
      /\ robot' \in Pres!Records
  <2>1. Pres!OK \in Pres!Levels /\ 0 \in 0..(StaleAfter + 1) /\ robot \in Pres!Records
    BY PresenceAssumption DEF Pres!Levels, Pres!IInv, Pres!TypeOK
  <2>2. QED BY <1>a, <1>b, <2>1 DEF Pres!Records
<1>3. noted' = "online"
  BY DEF Pres!SendStatus, Pres!IngestStatus, Pres!Note, Pres!IInv, Pres!TrailAgrees
<1>4. Pres!TypeOK'
  BY <1>2, <1>3 DEF Pres!SendStatus, Pres!IInv, Pres!TypeOK
<1>5. Pres!PresenceJustified' /\ Pres!TrailAgrees'
  BY <1>2, <1>3 DEF Pres!PresenceJustified, Pres!TrailAgrees, Pres!OK
<1>6. Pres!OKIsPrompt' /\ Pres!UnknownIsBlank'
  BY <1>2 DEF Pres!OKIsPrompt, Pres!UnknownIsBlank
<1>7. QED BY <1>4, <1>5, <1>6 DEF Pres!IInv

LEMMA ReapKeeps ==
  ASSUME Pres!IInv, Pres!Reap
  PROVE  Pres!IInv'
<1> DEFINE level == Pres!Evaluate(robot)
<1>1. robot' = [robot EXCEPT !.presence = level]
  BY DEF Pres!Reap
<1>2. level \in Pres!Levels
  BY DEF Pres!Evaluate, Pres!Levels, Pres!OK
<1>3. level # Pres!OK
  BY DEF Pres!Reap, Pres!IInv, Pres!OKIsPrompt
<1>4. /\ robot'.presence = level
      /\ robot'.heard = robot.heard
      /\ robot'.age = robot.age
      /\ robot'.gone = robot.gone
      /\ robot'.known = TRUE
      /\ robot' \in Pres!Records
  BY <1>1, <1>2 DEF Pres!Records, Pres!IInv, Pres!TypeOK, Pres!Reap
<1>5. Pres!TypeOK'
  BY <1>4 DEF Pres!Reap, Pres!IInv, Pres!TypeOK
<1>6. Pres!PresenceJustified'
  BY <1>4, PresenceAssumption
    DEF Pres!Records, Pres!Evaluate, Pres!OK, Pres!PresenceJustified, Pres!IInv, Pres!TypeOK
<1>7. Pres!TrailAgrees'
  BY <1>3, <1>4 DEF Pres!Reap, Pres!TrailAgrees
<1>8. Pres!Evaluate(robot') = level
  BY <1>4 DEF Pres!Evaluate
<1>9. Pres!OKIsPrompt' /\ Pres!UnknownIsBlank'
  BY <1>3, <1>4, <1>8 DEF Pres!OKIsPrompt, Pres!UnknownIsBlank
<1>10. QED BY <1>5, <1>6, <1>7, <1>9 DEF Pres!IInv

LEMMA ClockKeeps ==
  ASSUME Pres!IInv, Pres!ClockAdvances
  PROVE  Pres!IInv'
<1> DEFINE older == IF robot.age <= StaleAfter THEN robot.age + 1 ELSE robot.age
<1>a. robot \in Pres!Records /\ robot.age \in 0..(StaleAfter + 1)
  BY DEF Pres!IInv, Pres!TypeOK, Pres!Records
<1>b. older \in 0..(StaleAfter + 1) /\ older >= robot.age
  BY <1>a, PresenceAssumption
<1>c. robot' = [robot EXCEPT !.tie = FALSE, !.age = older]
  BY DEF Pres!ClockAdvances
<1> HIDE DEF older
<1>1. /\ robot'.presence = robot.presence
      /\ robot'.heard = robot.heard
      /\ robot'.gone = robot.gone
      /\ robot'.known = robot.known
      /\ robot'.age = older
      /\ robot'.tie = FALSE
      /\ robot' \in Pres!Records
  BY <1>a, <1>b, <1>c DEF Pres!Records
<1>2. robot.age \in Nat /\ robot'.age \in Nat /\ robot'.age >= robot.age
  BY <1>1, <1>a, <1>b, PresenceAssumption
<1>3. Pres!TypeOK'
  BY <1>1 DEF Pres!ClockAdvances, Pres!IInv, Pres!TypeOK
<1>4. Pres!PresenceJustified'
  <2>1. robot'.age \in Nat
    BY <1>1, <1>b, PresenceAssumption
  <2>2. QED BY <1>1, <1>2, <2>1, PresenceAssumption DEF Pres!IInv, Pres!PresenceJustified
<1>5. Pres!TrailAgrees'
  BY <1>1 DEF Pres!ClockAdvances, Pres!IInv, Pres!TrailAgrees
<1>6. Pres!OKIsPrompt'
  <2>1. SUFFICES ASSUME Pres!Evaluate(robot') = Pres!OK PROVE Pres!Evaluate(robot) = Pres!OK
    BY <1>1 DEF Pres!OKIsPrompt, Pres!IInv
  <2>2. ~robot'.gone /\ robot'.heard /\ robot'.age <= OfflineAfter
    BY <2>1 DEF Pres!Evaluate, Pres!OK
  <2>3. robot.age <= OfflineAfter
    BY <1>1, <1>2, <2>2, PresenceAssumption
  <2>4. QED BY <1>1, <2>2, <2>3 DEF Pres!Evaluate
<1>7. Pres!UnknownIsBlank'
  <2>1. SUFFICES ASSUME ~robot.known PROVE FALSE
    BY <1>1 DEF Pres!UnknownIsBlank
  <2>2. robot = Pres!Blank
    BY <2>1 DEF Pres!IInv, Pres!UnknownIsBlank
  <2>3. ~(robot.age <= StaleAfter) /\ ~robot.tie
    BY <2>2, PresenceAssumption DEF Pres!Blank
  <2>4. QED BY <2>3 DEF Pres!ClockAdvances
<1>8. QED BY <1>3, <1>4, <1>5, <1>6, <1>7 DEF Pres!IInv

LEMMA PresenceStep ==
  Pres!IInv /\ [Pres!Next]_Pres!vars => Pres!IInv'
<1> SUFFICES ASSUME Pres!IInv, [Pres!Next]_Pres!vars PROVE Pres!IInv'
  OBVIOUS
<1> USE DEF Pres!Usable, Pres!Phases
<1>1. CASE Pres!Reap
  BY <1>1, ReapKeeps
<1>2. CASE Pres!ClockAdvances
  BY <1>2, ClockKeeps
<1>3. CASE Pres!Produce \/ Pres!SourceDies \/ Pres!AgentDies
  BY <1>3, SameRecordKeeps
      DEF Pres!Produce, Pres!SourceDies, Pres!AgentDies, Pres!IInv, Pres!TypeOK
<1>4. CASE Pres!StatusArrives
  BY <1>4, StatusKeeps DEF Pres!StatusArrives
<1>5. ASSUME NEW c \in Connections, Pres!Connect(c) \/ Pres!Lose(c) \/ Pres!Kick(c)
      PROVE  Pres!IInv'
  BY <1>5, SameRecordKeeps DEF Pres!Connect, Pres!Lose, Pres!Kick, Pres!IInv, Pres!TypeOK
<1>6. ASSUME NEW c \in Connections, Pres!Announce(c)
      PROVE  Pres!IInv'
  BY <1>6, SetLinkKeeps DEF Pres!Announce, Pres!IInv, Pres!TypeOK
<1>7. ASSUME NEW c \in Connections, Pres!Quit(c) \/ Pres!Crash(c) \/ Pres!Expire(c)
      PROVE  Pres!IInv'
  BY <1>7, SetLinkKeeps DEF Pres!Quit, Pres!Crash, Pres!Expire, Pres!IInv, Pres!TypeOK
<1>8. CASE Pres!Restart
  <2>1. Pres!Blank \in Pres!Records
    BY PresenceAssumption DEF Pres!Records, Pres!Blank, Pres!Levels
  <2>2. Pres!TypeOK'
    BY <1>8, <2>1 DEF Pres!Restart, Pres!IInv, Pres!TypeOK
  <2>3. Pres!PresenceJustified' /\ Pres!TrailAgrees'
    BY <1>8 DEF Pres!Restart, Pres!Blank, Pres!PresenceJustified, Pres!TrailAgrees, Pres!OK
  <2>4. Pres!OKIsPrompt' /\ Pres!UnknownIsBlank'
    BY <1>8 DEF Pres!Restart, Pres!Blank, Pres!OKIsPrompt, Pres!UnknownIsBlank,
                    Pres!Evaluate, Pres!OK
  <2>5. QED BY <2>2, <2>3, <2>4 DEF Pres!IInv
<1>9. CASE UNCHANGED Pres!vars
  BY <1>9, SameRecordKeeps DEF Pres!vars, Pres!IInv, Pres!TypeOK
<1>10. QED
  BY <1>1, <1>2, <1>3, <1>4, <1>5, <1>6, <1>7, <1>8, <1>9 DEF Pres!Next

\* The inductive invariant holds in every behaviour.
THEOREM PresenceInductive == Pres!Safety => []Pres!IInv
<1>1. Pres!Init => Pres!IInv
  BY PresenceInit
<1>2. Pres!IInv /\ [Pres!Next]_Pres!vars => Pres!IInv'
  BY PresenceStep
<1>3. QED BY <1>1, <1>2, PTL DEF Pres!Safety

\* Type correctness.
THEOREM PresenceTypes == Pres!Safety => []Pres!TypeOK
<1>1. Pres!IInv => Pres!TypeOK
  BY DEF Pres!IInv
<1>2. Pres!Safety => []Pres!IInv
  BY PresenceInductive
<1>3. QED BY <1>1, <1>2, PTL

\* Whatever wills, statuses, ticks, half-open sessions and restarts come in
\* whatever order, the level shown is justified by the signals (state.py:27-33).
THEOREM LevelsJustified == Pres!Safety => []PresenceJustified
<1>1. Pres!IInv => PresenceJustified
  BY DEF Pres!IInv, Pres!PresenceJustified, PresenceJustified, Pres!OK, OK
<1>2. Pres!Safety => []Pres!IInv
  BY PresenceInductive
<1>3. QED BY <1>1, <1>2, PTL

\* When the signals say OK, presence already is: no tick of reap() is what
\* brings a robot online, so reap() never notes "offline" for one coming back.
THEOREM OnlineIsPrompt == Pres!Safety => []Pres!OKIsPrompt
<1>1. Pres!IInv => Pres!OKIsPrompt
  BY DEF Pres!IInv
<1>2. Pres!Safety => []Pres!IInv
  BY PresenceInductive
<1>3. QED BY <1>1, <1>2, PTL

\* The last presence event of the audit trail says "online" exactly when the
\* dashboard counts the robot as online.
THEOREM TrailMatchesDashboard == Pres!Safety => []TrailAgrees
<1>1. Pres!IInv => TrailAgrees
  BY DEF Pres!IInv, Pres!TrailAgrees, TrailAgrees, Pres!OK, OK
<1>2. Pres!Safety => []Pres!IInv
  BY PresenceInductive
<1>3. QED BY <1>1, <1>2, PTL
=============================================================================
