----------------------------- MODULE AlertEngine -----------------------------
(***************************************************************************)
(* server/alerts.py: AlertEngine, the handlers of server/main.py that edit *)
(* its rules, and the table of alerts it keeps.                            *)
(*                                                                         *)
(* tick() is awaited by the ticker, one at a time.  It suspends in the     *)
(* refresh of the rules, in every notification and in every statement      *)
(* about an alert; meanwhile robots report, administrators edit rules and  *)
(* replace the list the next tick will use, and PostgreSQL comes and goes. *)
(*                                                                         *)
(* One robot: a rule that applies to several has one RuleState for each,   *)
(* and they share nothing.  How long is long enough is left open: a hold   *)
(* time, a cooldown and the age of the rules may be over at any moment.    *)
(***************************************************************************)
EXTENDS Naturals

CONSTANTS
  Rules,      \* ids of alert_rules, in the order of their creation
  Critical,   \* those of severity "critical"
  Edits,      \* requests that edit a rule, each served once (model bound)
  MaxFaults   \* outages, statements that fail and restarts  (model bound)

ASSUME AlertAssumption ==
  /\ Rules \subseteq Nat
  /\ Critical \subseteq Rules
  /\ MaxFaults \in Nat

\* A row of alert_rules.  A broken rule has thresholds that are NULL, with which no
\* number can be compared, or a template with which no message can be made of some
\* values; create_rule() and update_rule() accept both.  Which of them it is, and
\* what the template makes of a value, is left open.
Enabled == {"on", "broken"}
Stored  == Enabled \cup {"off"}
Statuses == Stored \cup {"future", "deleted"}

\* What a rule's subject shows: beyond the threshold, between threshold and
\* clear_value, on the good side of both, or nothing that is a number.
Readings == {"bad", "band", "good", "absent"}

VARIABLES
  table,      \* [Rules -> Statuses]: alert_rules
  alerts,     \* rows of alerts with resolved_at NULL: <<rule, number>>
  ready,      \* db.ready
  rules,      \* [Rules -> Enabled \cup {"off"}]: engine.rules, off if not in it
  due,        \* _rules_at is 10 s old
  reading,    \* [Rules -> Readings]: the live state, as each rule sees it
  st,         \* [Rules -> RuleState]: pending, firing, id
  tick,       \* where tick() is suspended, see Asleep
  edit,       \* [Edits -> [phase, rows]]
  excused,    \* open rows left behind by a fault (history)
  unrecorded, \* rules that fired without leaving a row (history)
  silenced,   \* rules that fired without a message to record (history)
  faults

database == <<table, alerts, ready>>
engine   == <<rules, due, st, tick>>
past     == <<excused, unrecorded, silenced>>
vars     == <<database, engine, reading, edit, past, faults>>

NoRow == 0
Ids   == 1..(MaxFaults + 1)

\* pending: "no", or how long for_seconds has run; id: the open row in alerts.
Blank == [pending |-> "no", firing |-> FALSE, id |-> NoRow]

\* rows: what the SELECT returned; list: the rules this tick has still to deal
\* with, the first of them at pc.
Off    == [r \in Rules |-> "off"]
Asleep == [pc |-> "asleep", rows |-> Off, list |-> Off]

View(t)  == [r \in Rules |-> IF t[r] \in Enabled THEN t[r] ELSE "off"]
In(list) == {r \in Rules : list[r] # "off"}

Fault == faults < MaxFaults /\ faults' = faults + 1

-----------------------------------------------------------------------------
(* Evaluation *)

\* _triggered(): a firing rule is compared with clear_value.
Hit(r) == reading[r] = "bad" \/ (reading[r] = "band" /\ st[r].firing)

Broken(r) == tick.list[r] = "broken"

At(pc, r) == tick.pc = pc /\ r \in In(tick.list) /\ \A x \in In(tick.list) : r <= x

\* Between two rules there is no await, and nothing else happens.
Suspended == tick.pc # "rule"

Suspend(pc) == tick' = [tick EXCEPT !.pc = pc]

\* On to the next rule, without a pause in between.
Done(r) ==
  tick' = IF In(tick.list) = {r} THEN Asleep
          ELSE [tick EXCEPT !.pc = "rule", !.list[r] = "off"]

\* "if not self.rules: return", or the loop over the list of this moment.
Loop(list) ==
  tick' = IF In(list) = {} THEN Asleep
          ELSE [pc |-> "rule", rows |-> Off, list |-> list]

\* Mutant of TickStarts: the rules are read when the server starts, and when
\* they are edited.
TickStartsUnread ==
  /\ tick = Asleep
  /\ Loop(rules)
  /\ UNCHANGED <<database, rules, due, st, reading, edit, past, faults>>

TickStarts ==
  /\ tick = Asleep
  /\ IF ready /\ due
       THEN tick' = [Asleep EXCEPT !.pc = "refresh", !.rows = View(table)]
       ELSE Loop(rules)
  /\ UNCHANGED <<database, rules, due, st, reading, edit, past, faults>>

RefreshReturns ==
  /\ tick.pc = "refresh"
  /\ rules' = tick.rows
  /\ due' = FALSE
  /\ Loop(rules')
  /\ UNCHANGED <<database, st, reading, edit, past, faults>>

RefreshFails ==
  /\ tick.pc = "refresh"
  /\ Fault
  /\ Loop(rules)
  /\ UNCHANGED <<database, rules, due, st, reading, edit, past>>

\* float(None): the exception ends the tick, and with it the ticker's turn.
Aborts(r) ==
  /\ At("rule", r)
  /\ Broken(r) /\ reading[r] # "absent"
  /\ tick' = Asleep
  /\ UNCHANGED <<database, rules, due, st, reading, edit, past, faults>>

\* hit and not firing: pending, and firing once for_seconds are over.
Rises(r) ==
  /\ At("rule", r)
  /\ Hit(r)
  /\ ~st[r].firing
  /\ CASE st[r].pending = "no" ->
            /\ st' = [st EXCEPT ![r].pending = "waiting"]
            /\ Done(r)
       [] st[r].pending = "waiting" -> Done(r) /\ UNCHANGED st
       [] st[r].pending = "over" ->
            /\ st' = [st EXCEPT ![r].pending = "no", ![r].firing = TRUE]
            /\ Suspend("fire")
  /\ UNCHANGED <<database, rules, due, reading, edit, past, faults>>

\* The message of a rule that begins to fire, or is to be told again, raises a
\* TypeError or an AttributeError, which ends the tick: firing_since is set, and
\* there is no row, no event and no notification.
MessageRaises(r) ==
  /\ At("rule", r)
  /\ Broken(r)
  /\ Hit(r)
  /\ \/ /\ st[r].pending = "over" /\ ~st[r].firing
        /\ st' = [st EXCEPT ![r].pending = "no", ![r].firing = TRUE]
        /\ silenced' = silenced \cup {r}
     \/ st[r].firing /\ UNCHANGED <<st, silenced>>
  /\ tick' = Asleep
  /\ UNCHANGED <<database, rules, due, reading, edit, excused, unrecorded, faults>>

\* hit and firing: told again if the cooldown is over.
Continues(r) ==
  /\ At("rule", r)
  /\ Hit(r)
  /\ st[r].firing
  /\ Done(r) \/ Suspend("tell")
  /\ UNCHANGED <<database, rules, due, st, reading, edit, past, faults>>

\* The end of _resolve().
Recovered(r) == IF r \in Critical THEN Suspend("tell") ELSE Done(r)

\* Mutant of Falls: the state is reset whole when the alert is over.
FallsWhole(r) ==
  /\ At("rule", r)
  /\ ~Hit(r)
  /\ st' = [st EXCEPT ![r] = Blank]
  /\ unrecorded' = unrecorded \ {r} /\ silenced' = silenced \ {r}
  /\ IF st[r].firing THEN Recovered(r) ELSE Done(r)
  /\ UNCHANGED <<database, rules, due, reading, edit, excused, faults>>

\* Mutant of Falls: a condition that was met once stays pending.
FallsPending(r) ==
  /\ At("rule", r)
  /\ ~Hit(r)
  /\ unrecorded' = unrecorded \ {r} /\ silenced' = silenced \ {r}
  /\ CASE ~st[r].firing ->
            Done(r) /\ UNCHANGED st
       [] st[r].firing /\ st[r].id # NoRow /\ ready ->
            st' = [st EXCEPT ![r].firing = FALSE] /\ Suspend("resolve")
       [] st[r].firing /\ (st[r].id = NoRow \/ ~ready) ->
            st' = [st EXCEPT ![r] = Blank] /\ Recovered(r)
  /\ excused' = IF st[r].firing /\ st[r].id # NoRow /\ ~ready
                THEN excused \cup {<<r, st[r].id>>} ELSE excused
  /\ UNCHANGED <<database, rules, due, reading, edit, faults>>

\* not hit: no longer pending, and a firing rule is resolved.
Falls(r) ==
  /\ At("rule", r)
  /\ ~Hit(r)
  /\ unrecorded' = unrecorded \ {r} /\ silenced' = silenced \ {r}
  /\ CASE ~st[r].firing ->
            st' = [st EXCEPT ![r].pending = "no"] /\ Done(r)
       [] st[r].firing /\ st[r].id # NoRow /\ ready ->
            st' = [st EXCEPT ![r].pending = "no", ![r].firing = FALSE] /\ Suspend("resolve")
       [] st[r].firing /\ (st[r].id = NoRow \/ ~ready) ->
            st' = [st EXCEPT ![r] = Blank] /\ Recovered(r)
  /\ excused' = IF st[r].firing /\ st[r].id # NoRow /\ ~ready
                THEN excused \cup {<<r, st[r].id>>} ELSE excused
  /\ UNCHANGED <<database, rules, due, reading, edit, faults>>

-----------------------------------------------------------------------------
(* What tick() awaits about one rule *)

\* _notify() is over, whatever the channels answered; _fire() goes on.
Told(r) ==
  /\ \/ /\ At("tell", r)
        /\ Done(r)
        /\ UNCHANGED unrecorded
     \/ /\ At("fire", r)
        /\ IF ready THEN Suspend("insert") /\ UNCHANGED unrecorded
                    ELSE Done(r) /\ unrecorded' = unrecorded \cup {r}
  /\ UNCHANGED <<database, rules, due, st, reading, edit, excused, silenced, faults>>

\* A new row; its number is the first that no open row of the rule has.
IsNew(r, n) == <<r, n>> \notin alerts /\ \A m \in 1..(n - 1) : <<r, m>> \in alerts

InsertReturns(r) ==
  /\ At("insert", r)
  /\ \E n \in Ids :
       /\ IsNew(r, n)
       /\ alerts' = alerts \cup {<<r, n>>}
       /\ st' = [st EXCEPT ![r].id = n]
  /\ Done(r)
  /\ UNCHANGED <<table, ready, rules, due, reading, edit, past, faults>>

\* The statement fails, before or after PostgreSQL has executed it.
InsertFails(r) ==
  /\ At("insert", r)
  /\ Fault
  /\ \/ UNCHANGED <<alerts, excused>>
     \/ \E n \in Ids :
          /\ IsNew(r, n)
          /\ alerts' = alerts \cup {<<r, n>>}
          /\ excused' = excused \cup {<<r, n>>}
  /\ unrecorded' = unrecorded \cup {r}
  /\ Done(r)
  /\ UNCHANGED <<table, ready, rules, due, st, reading, edit, silenced>>

ResolveReturns(r) ==
  /\ At("resolve", r)
  /\ alerts' = alerts \ {<<r, st[r].id>>}
  /\ st' = [st EXCEPT ![r].id = NoRow]
  /\ Recovered(r)
  /\ UNCHANGED <<table, ready, rules, due, reading, edit, past, faults>>

\* "except Exception: pass": the row stays open and is forgotten.
ResolveFails(r) ==
  /\ At("resolve", r)
  /\ Fault
  /\ \/ /\ excused' = excused \cup {<<r, st[r].id>>}
        /\ UNCHANGED alerts
     \/ /\ alerts' = alerts \ {<<r, st[r].id>>}
        /\ UNCHANGED excused
  /\ st' = [st EXCEPT ![r].id = NoRow]
  /\ Recovered(r)
  /\ UNCHANGED <<table, ready, rules, due, reading, edit, unrecorded, silenced>>

-----------------------------------------------------------------------------
(* Administrators: create_rule(), update_rule(), delete_rule() *)

\* The statement is executed; if it fails all the same there is no refresh.
Save(e) ==
  /\ Suspended
  /\ edit[e].phase = "new"
  /\ ready
  /\ \E r \in Rules :
       \/ /\ table[r] = "future"
          /\ \A x \in Rules : x < r => table[x] # "future"
          /\ \E s \in Stored : table' = [table EXCEPT ![r] = s]
       \/ /\ table[r] \in Stored
          /\ \E s \in Stored \cup {"deleted"} : table' = [table EXCEPT ![r] = s]
  /\ \/ edit' = [edit EXCEPT ![e].phase = "saved"] /\ UNCHANGED faults
     \/ edit' = [edit EXCEPT ![e].phase = "over"] /\ Fault
  /\ UNCHANGED <<alerts, ready, engine, reading, past>>

\* refresh_rules(force=True)
EditReads(e) ==
  /\ Suspended
  /\ edit[e].phase = "saved"
  /\ edit' = [edit EXCEPT ![e] = IF ready THEN [phase |-> "read", rows |-> View(table)]
                                 ELSE [phase |-> "over", rows |-> Off]]
  /\ UNCHANGED <<database, engine, reading, past, faults>>

EditRefreshes(e) ==
  /\ Suspended
  /\ edit[e].phase = "read"
  /\ edit' = [edit EXCEPT ![e] = [phase |-> "over", rows |-> Off]]
  /\ rules' = edit[e].rows
  /\ due' = FALSE
  /\ UNCHANGED <<database, st, tick, reading, past, faults>>

EditFails(e) ==
  /\ Suspended
  /\ edit[e].phase = "read"
  /\ Fault
  /\ edit' = [edit EXCEPT ![e] = [phase |-> "over", rows |-> Off]]
  /\ UNCHANGED <<database, engine, reading, past>>

-----------------------------------------------------------------------------
(* The surroundings *)

\* Robot.update() or observe_topics()
Reports(r) ==
  /\ Suspended
  /\ \E v \in Readings \ {reading[r]} : reading' = [reading EXCEPT ![r] = v]
  /\ UNCHANGED <<database, engine, edit, past, faults>>

\* A tick compares with the clock as it was when its loop began.
HoldElapses(r) ==
  /\ tick.pc \in {"asleep", "refresh"}
  /\ st[r].pending = "waiting"
  /\ st' = [st EXCEPT ![r].pending = "over"]
  /\ UNCHANGED <<database, rules, due, tick, reading, edit, past, faults>>

\* It matters only when a tick starts.
RulesAge ==
  /\ tick.pc = "asleep"
  /\ ~due
  /\ due' = TRUE
  /\ UNCHANGED <<database, rules, st, tick, reading, edit, past, faults>>

GoesDown ==
  /\ Suspended
  /\ ready
  /\ Fault
  /\ ready' = FALSE
  /\ UNCHANGED <<table, alerts, engine, reading, edit, past>>

ComesBack ==
  /\ Suspended
  /\ ~ready
  /\ ready' = TRUE
  /\ UNCHANGED <<table, alerts, engine, reading, edit, past, faults>>

\* The server is restarted: everything but the tables is in memory.  The rules
\* are read at once, if PostgreSQL answers.
Restart ==
  /\ Suspended
  /\ Fault
  /\ \/ ready /\ rules' = View(table) /\ due' = FALSE
     \/ rules' = Off /\ due' = TRUE
  /\ st' = [r \in Rules |-> Blank]
  /\ tick' = Asleep
  /\ reading' = [r \in Rules |-> "absent"]
  /\ edit' = [e \in Edits |-> IF edit[e].phase = "new" THEN edit[e]
                              ELSE [phase |-> "over", rows |-> Off]]
  /\ excused' = alerts
  /\ unrecorded' = {} /\ silenced' = {}
  /\ UNCHANGED database

-----------------------------------------------------------------------------
Init ==
  /\ table \in [Rules -> {"future", "on"}]
  /\ \A r, x \in Rules : x < r /\ table[x] = "future" => table[r] = "future"
  /\ alerts = {}
  /\ ready = TRUE
  /\ rules = View(table)
  /\ due = FALSE
  /\ reading = [r \in Rules |-> "absent"]
  /\ st = [r \in Rules |-> Blank]
  /\ tick = Asleep
  /\ edit = [e \in Edits |-> [phase |-> "new", rows |-> Off]]
  /\ excused = {}
  /\ unrecorded = {} /\ silenced = {}
  /\ faults = 0

Evaluates ==
  \E r \in Rules :
    Aborts(r) \/ Rises(r) \/ MessageRaises(r) \/ Continues(r) \/ Falls(r)

Answers ==
  \E r \in Rules :
    Told(r) \/ InsertReturns(r) \/ InsertFails(r) \/ ResolveReturns(r) \/ ResolveFails(r)

Next ==
  \/ TickStarts
  \/ RefreshReturns
  \/ RefreshFails
  \/ Evaluates
  \/ Answers
  \/ \E e \in Edits : Save(e) \/ EditReads(e) \/ EditRefreshes(e) \/ EditFails(e)
  \/ \E r \in Rules : Reports(r) \/ HoldElapses(r)
  \/ RulesAge
  \/ GoesDown
  \/ ComesBack
  \/ Restart

Safety == Init /\ [][Next]_vars

\* The ticker ticks, what it awaits comes to an end, time passes, and an outage
\* ends.
Fairness ==
  /\ WF_vars(TickStarts)
  /\ WF_vars(RefreshReturns)
  /\ WF_vars(Evaluates)
  /\ WF_vars(Answers)
  /\ SF_vars(RulesAge)
  /\ SF_vars(ComesBack)
  /\ \A r \in Rules : SF_vars(HoldElapses(r))

Spec == Safety /\ Fairness

-----------------------------------------------------------------------------
(* Properties *)

Phases == {"new", "saved", "read", "over"}
Lists  == [Rules -> Enabled \cup {"off"}]
Ticks  == [pc : {"asleep", "refresh", "rule", "fire", "insert", "resolve", "tell"},
           rows : Lists, list : Lists]
RuleStates == [pending : {"no", "waiting", "over"}, firing : BOOLEAN,
               id : Ids \cup {NoRow}]

\* Type correctness.
TypeOK ==
  /\ table \in [Rules -> Statuses]
  /\ alerts \subseteq Rules \X Ids
  /\ ready \in BOOLEAN
  /\ rules \in Lists
  /\ due \in BOOLEAN
  /\ reading \in [Rules -> Readings]
  /\ st \in [Rules -> RuleStates]
  /\ tick \in Ticks
  /\ edit \in [Edits -> [phase : Phases, rows : Lists]]
  /\ excused \subseteq Rules \X Ids
  /\ unrecorded \subseteq Rules /\ silenced \subseteq Rules
  /\ faults \in 0..MaxFaults

\* Rules that fire without a row, for one reason or the other.
Unwritten == unrecorded \cup silenced

\* The history page (main.py:924) and the engine tell the same story, at every
\* await of a tick: an alert that is open in the table is one that is firing,
\* unless a fault left it behind; a rule that fires has exactly one open row,
\* unless the row could not be written, or its message could not be made.
HistoryAgrees ==
  /\ \A r \in Rules :
       st[r].id # NoRow =>
         /\ <<r, st[r].id>> \in alerts
         /\ st[r].firing \/ At("resolve", r)
  /\ \A x \in alerts : x \in excused \/ st[x[1]].id = x[2]
  /\ \A r \in Rules :
       st[r].firing /\ st[r].id = NoRow =>
         r \in Unwritten \/ At("fire", r) \/ At("insert", r)

\* What tick() awaits tells what it has done: a rule about to be recorded is
\* firing without a row, one about to be resolved has a row and is not firing.
AwaitInv ==
  \A r \in Rules :
    /\ At("fire", r) \/ At("insert", r) => st[r].firing /\ st[r].id = NoRow
    /\ At("resolve", r) => ~st[r].firing /\ st[r].id # NoRow

IInv == TypeOK /\ HistoryAgrees /\ AwaitInv

Sound == \A r \in Rules : table[r] # "broken"

\* "changing a threshold does not need a restart" (alerts.py:6), and no edit,
\* outage, failed statement or restart keeps a rule from firing: a rule that
\* stays enabled on a reading that stays bad fires in the end, as long as no
\* rule is broken.
BadFires ==
  \A r \in Rules :
    <>[](Sound /\ table[r] = "on" /\ reading[r] = "bad") => <>[](st[r].firing)

\* Nor from recovering: on a reading that stays good nothing is pending or
\* firing in the end, and only rows that a fault left behind are still open.
GoodResolves ==
  \A r \in Rules :
    <>[](Sound /\ table[r] = "on" /\ reading[r] = "good") =>
      <>[](st[r] = Blank /\ \A x \in alerts : x[1] = r => x \in excused)

=============================================================================
