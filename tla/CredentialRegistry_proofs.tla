---------------------- MODULE CredentialRegistry_proofs ----------------------
(***************************************************************************)
(* What an answered revoke and an answered enrollment promise, for any     *)
(* number of robots and of overlapping requests.  The argument is          *)
(* freshness: a secret enters the robots table in one statement of one     *)
(* request, so a secret that has left the table never comes back.          *)
(***************************************************************************)
EXTENDS CredentialRegistry, TLAPS

-----------------------------------------------------------------------------
(* Scripts *)

\* Where each statement stands, and in which handlers.
LEMMA ScriptFacts ==
  ASSUME NEW op \in Ops, NEW i \in 1..Len(Script(op))
  PROVE  /\ Len(Script(op)) \in 3..5
         /\ i \in 1..5
         /\ Script(op)[i] = "finish" <=> i = Len(Script(op))
         /\ Script(op)[i] = "kill"   => op = "revoke" /\ i = 2
         /\ Script(op)[i] = "check"  => op = "enroll" /\ i = 1
         /\ Script(op)[i] = "store"  => op = "enroll" /\ i = 2
         /\ Script(op)[i] = "use"    => op = "enroll" /\ i = 3
         /\ Script(op)[i] = "fetch"  => op \in {"revoke", "enroll"} /\ i = 4
         /\ Script(op)[i] \in {"lookup", "insert", "retire", "mint", "droptokens", "droprow"}
              => op # "enroll"
         /\ op \in {"revoke", "enroll"} => Len(Script(op)) = 5
         /\ op = "enroll" /\ i = 2 => Script(op)[i] = "store"
         /\ op = "revoke" /\ i = 2 => Script(op)[i] = "kill"
         /\ op \in {"revoke", "enroll"} /\ i = 4 => Script(op)[i] = "fetch"
<1>1. CASE op = "create"
  BY <1>1 DEF Script
<1>2. CASE op = "reissue"
  BY <1>2 DEF Script
<1>3. CASE op = "revoke"
  BY <1>3 DEF Script
<1>4. CASE op = "enroll"
  BY <1>4 DEF Script
<1>5. CASE op = "delete"
  BY <1>5 DEF Script
<1>6. QED BY <1>1, <1>2, <1>3, <1>4, <1>5 DEF Ops

LEMMA ScriptLengths ==
  ASSUME NEW op \in Ops
  PROVE  Len(Script(op)) \in 3..5
<1>1. CASE op = "create"
  BY <1>1 DEF Script
<1>2. CASE op = "reissue"
  BY <1>2 DEF Script
<1>3. CASE op = "revoke"
  BY <1>3 DEF Script
<1>4. CASE op = "enroll"
  BY <1>4 DEF Script
<1>5. CASE op = "delete"
  BY <1>5 DEF Script
<1>6. QED BY <1>1, <1>2, <1>3, <1>4, <1>5 DEF Ops

-----------------------------------------------------------------------------
(* What a step does to the table and to the tasks *)

\* Spent(s) after the step.
SpentAfter(s) ==
  \/ task'[s].phase \in {"returned", "raised"}
  \/ task'[s].phase = "running" /\ task'[s].op = "enroll" /\ task'[s].at > 2

SpentStays == \A s \in Requests : Spent(s) => SpentAfter(s)

\* A row keeps its value, loses its secret, or gets a secret in the one
\* statement that may write it.
TableStep ==
  \A r \in Robots :
    \/ robots'[r] = robots[r]
    \/ robots'[r] \in NoSecret
    \/ \E s \in Requests : robots'[r] = s /\ ~Spent(s) /\ SpentAfter(s)

\* What changes in a task that is past the second statement of a revoke or of
\* an enrollment.
TaskStep(q) ==
  \/ task'[q] = task[q]
  \/ task'[q].phase # "running"
  \/ task'[q].op \notin {"revoke", "enroll"}
  \/ task'[q].at <= 2
  \/ task'[q].at = 3 /\ task'[q].op = "enroll"
  \/ /\ task'[q].at = 3
     /\ task'[q].killed = robots[task'[q].robot]
     /\ robots'[task'[q].robot] \in NoSecret
  \/ /\ task[q].phase = "running"
     /\ task'[q].op = task[q].op
     /\ task'[q].robot = task[q].robot
     /\ task'[q].killed = task[q].killed
     /\ \/ task[q].at = 3 /\ task'[q].at = 4
        \/ task[q].at = 4 /\ task'[q].at = 5 /\ task'[q].rows = robots /\ robots' = robots

\* A secret that is not in a row, and is spent, does not return to it.
LEMMA NeverAgain ==
  ASSUME IInv, TableStep, NEW r \in Robots, NEW k \in Issuers,
         robots[r] # k, k \in Requests => Spent(k)
  PROVE  robots'[r] # k
BY RegistryAssumption DEF TableStep

\* Freshness and what it gives revokes and enrollments survive such a step.
LEMMA Core ==
  ASSUME IInv, TypeOK', InScript', SpentStays, TableStep,
         \A q \in Requests : TaskStep(q)
  PROVE  FreshInv' /\ KilledInv' /\ EnrollInv'
<1>1. FreshInv'
  <2>1. SUFFICES ASSUME NEW r \in Robots, robots'[r] \in Requests
                 PROVE  SpentAfter(robots'[r])
    BY DEF FreshInv, Spent, SpentAfter
  <2>2. robots'[r] \notin NoSecret
    BY <2>1, RegistryAssumption DEF Issuers
  <2>3. CASE robots'[r] = robots[r]
    BY <2>1, <2>3 DEF IInv, FreshInv, SpentStays
  <2>4. CASE \E s \in Requests : robots'[r] = s /\ ~Spent(s) /\ SpentAfter(s)
    BY <2>4
  <2>5. QED BY <2>2, <2>3, <2>4 DEF TableStep
<1>2. KilledInv'
  <2> SUFFICES ASSUME NEW q \in Requests,
                      task'[q].phase = "running", task'[q].op = "revoke",
                      task'[q].at > 2, task'[q].killed \in Issuers
               PROVE  /\ task'[q].killed \in Requests => SpentAfter(task'[q].killed)
                      /\ robots'[task'[q].robot] # task'[q].killed
                      /\ task'[q].at = 5 => task'[q].rows[task'[q].robot] # task'[q].killed
    BY DEF KilledInv, Spent, SpentAfter
  <2>1. task'[q].robot \in Robots /\ task'[q].at \in 0..5
    BY DEF InScript, TypeOK, Tasks
  <2>2. CASE task'[q] = task[q]
    <3>1. /\ task[q].killed \in Requests => Spent(task[q].killed)
          /\ robots[task[q].robot] # task[q].killed
          /\ task[q].at = 5 => task[q].rows[task[q].robot] # task[q].killed
      BY <2>2 DEF IInv, KilledInv
    <3>2. robots'[task[q].robot] # task[q].killed
      BY <2>1, <2>2, <3>1, NeverAgain
    <3>3. QED BY <2>2, <3>1, <3>2 DEF SpentStays
  <2>3. CASE /\ task'[q].at = 3
             /\ task'[q].killed = robots[task'[q].robot]
             /\ robots'[task'[q].robot] \in NoSecret
    <3>1. robots'[task'[q].robot] # task'[q].killed
      BY <2>3, RegistryAssumption
    <3>2. task'[q].killed \in Requests => Spent(task'[q].killed)
      BY <2>1, <2>3 DEF IInv, FreshInv
    <3>3. QED BY <2>3, <3>1, <3>2 DEF SpentStays
  <2>4. CASE /\ task[q].phase = "running"
             /\ task'[q].op = task[q].op
             /\ task'[q].robot = task[q].robot
             /\ task'[q].killed = task[q].killed
             /\ \/ task[q].at = 3 /\ task'[q].at = 4
                \/ task[q].at = 4 /\ task'[q].at = 5 /\ task'[q].rows = robots /\ robots' = robots
    <3>1. /\ task[q].killed \in Requests => Spent(task[q].killed)
          /\ robots[task[q].robot] # task[q].killed
      BY <2>4 DEF IInv, KilledInv
    <3>2. robots'[task[q].robot] # task[q].killed
      BY <2>1, <2>4, <3>1, NeverAgain
    <3>3. QED BY <2>4, <3>1, <3>2 DEF SpentStays
  <2>5. QED BY <2>1, <2>2, <2>3, <2>4 DEF TaskStep
<1>3. EnrollInv'
  <2> SUFFICES ASSUME NEW q \in Requests,
                      task'[q].phase = "running", task'[q].op = "enroll", task'[q].at = 5
               PROVE  task'[q].rows[task'[q].robot] = q \/ robots'[task'[q].robot] # q
    BY DEF EnrollInv
  <2>1. task'[q].robot \in Robots
    BY DEF InScript
  <2>2. CASE task'[q] = task[q]
    <3>1. task[q].rows[task[q].robot] = q \/ robots[task[q].robot] # q
      BY <2>2 DEF IInv, EnrollInv
    <3>2. Spent(q) /\ q \in Issuers
      BY <2>2 DEF Spent, Issuers
    <3>3. robots[task[q].robot] # q => robots'[task[q].robot] # q
      BY <2>1, <2>2, <3>2, NeverAgain
    <3>4. QED BY <2>2, <3>1, <3>3
  <2>3. CASE task[q].at = 4 /\ task'[q].at = 5 /\ task'[q].rows = robots /\ robots' = robots
    BY <2>3
  <2>4. QED BY <2>2, <2>3 DEF TaskStep
<1>4. QED BY <1>1, <1>2, <1>3

-----------------------------------------------------------------------------
(* Shapes of steps *)

\* Request q is given the task x, every other request keeps its own.
LEMMA OneTask ==
  ASSUME IInv, NEW q \in Requests, NEW x \in Tasks, task' = [task EXCEPT ![q] = x],
         \/ x.phase # "running"
         \/ /\ x.phase = "running"
            /\ x.op \in Ops
            /\ x.at \in 1..Len(Script(x.op))
            /\ IF x.op = "enroll" THEN x.token \in Issuers ELSE x.robot \in Robots
            /\ x.at > 1 => x.robot \in Robots,
         Spent(q) => SpentAfter(q)
  PROVE  /\ task' \in [Requests -> Tasks]
         /\ task'[q] = x
         /\ \A p \in Requests \ {q} : task'[p] = task[p] /\ TaskStep(p)
         /\ InScript'
         /\ SpentStays
<1>1. task \in [Requests -> Tasks]
  BY DEF IInv, TypeOK
<1>2. /\ task' \in [Requests -> Tasks]
      /\ task'[q] = x
      /\ \A p \in Requests \ {q} : task'[p] = task[p]
  BY <1>1
<1>3. \A p \in Requests \ {q} : TaskStep(p)
  BY <1>2 DEF TaskStep
<1>4. InScript'
  BY <1>2 DEF IInv, InScript
<1>5. SpentStays
  BY <1>2 DEF SpentStays, SpentAfter, Spent
<1>6. QED BY <1>2, <1>3, <1>4, <1>5

\* What is known of a request that stands at some statement.
LEMMA Standing ==
  ASSUME IInv, NEW q \in Requests, NEW statement, At(q, statement)
  PROVE  /\ task[q] \in Tasks
         /\ task[q].phase = "running"
         /\ task[q].op \in Ops
         /\ task[q].at \in 1..Len(Script(task[q].op))
         /\ Script(task[q].op)[task[q].at] = statement
         /\ IF task[q].op = "enroll" THEN task[q].token \in Issuers
                                     ELSE task[q].robot \in Robots
         /\ task[q].at > 1 => task[q].robot \in Robots
BY DEF At, IInv, InScript, TypeOK

\* Advancing past any statement but the last.
LEMMA Advancing ==
  ASSUME IInv, NEW q \in Requests, NEW statement, At(q, statement), statement # "finish"
  PROVE  /\ Advanced(q) \in Tasks
         /\ Advanced(q).phase = "running"
         /\ Advanced(q).op = task[q].op
         /\ Advanced(q).at = task[q].at + 1
         /\ Advanced(q).at \in 2..Len(Script(task[q].op))
         /\ Advanced(q).robot = task[q].robot
         /\ Advanced(q).token = task[q].token
         /\ Advanced(q).killed = task[q].killed
         /\ Advanced(q).rows = task[q].rows
<1> DEFINE n == Len(Script(task[q].op))
<1>1. task[q] \in Tasks /\ task[q].op \in Ops /\ task[q].at \in 1..n
  BY Standing
<1>2. n \in 3..5 /\ task[q].at # n
  BY <1>1, Standing, ScriptFacts
<1> HIDE DEF n
<1>3. task[q].at + 1 \in 0..5 /\ task[q].at + 1 \in 2..n
  BY <1>1, <1>2
<1>4. Advanced(q) = [task[q] EXCEPT !.at = task[q].at + 1]
  BY DEF Advanced
<1>5. QED BY <1>1, <1>3, <1>4, Standing DEF Tasks, n

\* A handler that advances past a statement that writes no secret.
LEMMA AdvanceKeeps ==
  ASSUME IInv, NEW q \in Requests, NEW statement, At(q, statement),
         statement \notin {"finish", "fetch", "kill", "store", "check"}, Advance(q),
         \A r \in Robots : robots'[r] = robots[r] \/ robots'[r] \in NoSecret
  PROVE  /\ task' \in [Requests -> Tasks] /\ InScript' /\ SpentStays /\ TableStep
         /\ \A p \in Requests : TaskStep(p)
<1> DEFINE x == Advanced(q)
<1>1. /\ x \in Tasks
      /\ x.phase = "running"
      /\ x.op = task[q].op
      /\ x.at = task[q].at + 1
      /\ x.at \in 2..Len(Script(task[q].op))
      /\ x.robot = task[q].robot
      /\ x.token = task[q].token
      /\ x.killed = task[q].killed
  BY Advancing
<1>2. /\ task[q].op \in Ops
      /\ task[q].at \in 1..Len(Script(task[q].op))
      /\ IF task[q].op = "enroll" THEN task[q].token \in Issuers
                                  ELSE task[q].robot \in Robots
      /\ task[q].at > 1 => task[q].robot \in Robots
      /\ task[q].phase = "running"
      /\ Script(task[q].op)[task[q].at] = statement
  BY Standing
<1>3. Len(Script(task[q].op)) \in 3..5
  BY <1>2, ScriptLengths
<1>4. task' = [task EXCEPT ![q] = x]
  BY DEF Advance
<1> HIDE DEF x
<1>5. task[q].op = "enroll" => task[q].at # 1
  <2>1. Script("enroll")[1] = "check"
    BY DEF Script
  <2>2. QED BY <1>2, <2>1
<1>6. x.robot \in Robots
  BY <1>1, <1>2, <1>3, <1>5
<1>7. /\ task' \in [Requests -> Tasks]
      /\ task'[q] = x
  BY <1>1, <1>4 DEF IInv, TypeOK
<1>8. Spent(q) => SpentAfter(q)
  BY <1>1, <1>2, <1>3, <1>7 DEF Spent, SpentAfter
<1>9. /\ InScript'
      /\ SpentStays
      /\ \A p \in Requests \ {q} : TaskStep(p)
  <2>1. x.at \in 1..Len(Script(x.op)) /\ x.op \in Ops
    BY <1>1, <1>2, <1>3
  <2>2. IF x.op = "enroll" THEN x.token \in Issuers ELSE x.robot \in Robots
    BY <1>1, <1>2
  <2>3. QED BY <1>1, <1>4, <1>6, <1>8, <2>1, <2>2, OneTask
<1>10. TaskStep(q)
  <2>1. CASE task[q].op \notin {"revoke", "enroll"}
    BY <1>1, <1>7, <2>1 DEF TaskStep
  <2>2. CASE task[q].op \in {"revoke", "enroll"}
    <3>1. task[q].at \in 1..5 /\ task[q].at \notin {2, 4, 5}
      BY <1>2, <1>3, <2>2, ScriptFacts
    <3>2. QED BY <1>1, <1>2, <1>7, <3>1 DEF TaskStep
  <2>3. QED BY <2>1, <2>2
<1>11. TableStep
  BY DEF TableStep
<1>12. QED BY <1>7, <1>9, <1>10, <1>11

\* A handler that raises.
LEMMA RefuseKeeps ==
  ASSUME IInv, NEW q \in Requests, task[q].phase = "running", Refuse(q), UNCHANGED robots
  PROVE  /\ task' \in [Requests -> Tasks] /\ InScript' /\ SpentStays /\ TableStep
         /\ \A p \in Requests : TaskStep(p)
<1> DEFINE x == Raised
<1>1. x \in Tasks /\ x.phase = "raised"
  BY DEF Raised, Waiting, Tasks, Phases, NoRows, Rows, NoSecret
<1>2. task' = [task EXCEPT ![q] = x]
  BY DEF Refuse
<1> HIDE DEF x
<1>3. /\ task' \in [Requests -> Tasks]
      /\ task'[q] = x
  BY <1>1, <1>2 DEF IInv, TypeOK
<1>4. Spent(q) => SpentAfter(q)
  BY <1>1, <1>3 DEF SpentAfter
<1>5. /\ InScript'
      /\ SpentStays
      /\ \A p \in Requests \ {q} : TaskStep(p)
  BY <1>1, <1>2, <1>4, OneTask
<1>6. TaskStep(q)
  BY <1>1, <1>3 DEF TaskStep
<1>7. TableStep
  BY DEF TableStep
<1>8. QED BY <1>3, <1>5, <1>6, <1>7

\* What has to be shown of a step.
Sound ==
  /\ TypeOK' /\ InScript' /\ SpentStays /\ TableStep
  /\ \A q \in Requests : TaskStep(q)

-----------------------------------------------------------------------------
(* The steps, one lemma each *)

LEMMA WellFormedAdmin ==
  ASSUME NEW t \in Tasks, NEW op \in Ops, NEW robot \in Robots
  PROVE  [t EXCEPT !.op = op, !.robot = robot, !.at = 1, !.phase = "running"] \in Tasks
<1>1. op \in Ops \cup {"none"} /\ robot \in Robots \cup {"none"} /\ 1 \in 0..5
  OBVIOUS
<1>2. QED BY <1>1 DEF Tasks, Phases

LEMMA WellFormedEnroll ==
  ASSUME NEW t \in Tasks, NEW token \in Issuers
  PROVE  [t EXCEPT !.op = "enroll", !.token = token, !.at = 1, !.phase = "running"] \in Tasks
<1>1. "enroll" \in Ops \cup {"none"} /\ token \in Issuers \cup {"none"} /\ 1 \in 0..5
  BY DEF Ops
<1>2. QED BY <1>1 DEF Tasks, Phases

LEMMA BeginSound == ASSUME IInv, NEW q \in Requests, Begin(q) PROVE Sound
<1>1. PICK x \in Tasks :
        /\ x.op \in Ops /\ x.at = 1 /\ x.phase = "running"
        /\ IF x.op = "enroll" THEN x.token \in Issuers ELSE x.robot \in Robots
        /\ task' = [task EXCEPT ![q] = x]
  <2>1. task \in [Requests -> Tasks] /\ task[q] \in Tasks
    BY DEF IInv, TypeOK
  <2>2. CASE \E op \in Ops \ {"enroll"}, r \in Robots :
               task' = [task EXCEPT ![q].op = op, ![q].robot = r,
                                    ![q].at = 1, ![q].phase = "running"]
    <3>1. PICK op \in Ops \ {"enroll"}, r \in Robots :
            task' = [task EXCEPT ![q].op = op, ![q].robot = r,
                                 ![q].at = 1, ![q].phase = "running"]
      BY <2>2
    <3> DEFINE x == [task[q] EXCEPT !.op = op, !.robot = r, !.at = 1, !.phase = "running"]
    <3>2. x \in Tasks
      <4>1. op \in Ops
        OBVIOUS
      <4>2. QED BY <2>1, <4>1, WellFormedAdmin
    <3>3. x.op = op /\ x.robot = r /\ x.at = 1 /\ x.phase = "running"
      BY <2>1 DEF Tasks
    <3>4. task' = [task EXCEPT ![q] = x]
      BY <2>1, <3>1
    <3>5. QED BY <3>2, <3>3, <3>4
  <2>3. CASE \E t \in Issuers :
               task' = [task EXCEPT ![q].op = "enroll", ![q].token = t,
                                    ![q].at = 1, ![q].phase = "running"]
    <3>1. PICK t \in Issuers :
            task' = [task EXCEPT ![q].op = "enroll", ![q].token = t,
                                 ![q].at = 1, ![q].phase = "running"]
      BY <2>3
    <3> DEFINE x == [task[q] EXCEPT !.op = "enroll", !.token = t, !.at = 1, !.phase = "running"]
    <3>2. x \in Tasks
      BY <2>1, WellFormedEnroll
    <3>3. x.op = "enroll" /\ x.token = t /\ x.at = 1 /\ x.phase = "running"
      BY <2>1 DEF Tasks
    <3>4. task' = [task EXCEPT ![q] = x]
      BY <2>1, <3>1
    <3>5. QED BY <3>2, <3>3, <3>4 DEF Ops
  <2>4. QED BY <2>2, <2>3 DEF Begin
<1>2. Len(Script(x.op)) \in 3..5
  BY <1>1, ScriptLengths
<1>3. task'[q] = x /\ task' \in [Requests -> Tasks]
  BY <1>1 DEF IInv, TypeOK
<1>4. Spent(q) => SpentAfter(q)
  BY DEF Begin, Spent
<1>5. /\ InScript'
      /\ SpentStays
      /\ \A p \in Requests \ {q} : TaskStep(p)
  <2>1. x.at \in 1..Len(Script(x.op)) /\ ~(x.at > 1)
    BY <1>1, <1>2
  <2>2. QED BY <1>1, <1>4, <2>1, OneTask
<1>6. TaskStep(q)
  BY <1>1, <1>3 DEF TaskStep
<1>7. QED BY <1>3, <1>5, <1>6 DEF Sound, Begin, TableStep, IInv, TypeOK, tables, memory

LEMMA LookupSound == ASSUME IInv, NEW q \in Requests, Lookup(q) PROVE Sound
<1>1. At(q, "lookup") /\ UNCHANGED robots /\ (Advance(q) \/ Refuse(q))
  BY DEF Lookup, tables
<1>2. /\ task' \in [Requests -> Tasks] /\ InScript' /\ SpentStays /\ TableStep
      /\ \A p \in Requests : TaskStep(p)
  <2>1. CASE Advance(q)
    BY <1>1, <2>1, AdvanceKeeps
  <2>2. CASE Refuse(q)
    BY <1>1, <2>2, RefuseKeeps DEF At
  <2>3. QED BY <1>1, <2>1, <2>2
<1>3. QED BY <1>2 DEF Sound, Lookup, IInv, TypeOK, tables, memory

LEMMA InsertSound == ASSUME IInv, NEW q \in Requests, Insert(q) PROVE Sound
<1>1. At(q, "insert")
  BY DEF Insert
<1>2. CASE robots' = [robots EXCEPT ![task[q].robot] = Pending] /\ Advance(q)
  <2>1. robots' \in [Robots -> Rows]
    BY <1>2 DEF IInv, TypeOK, Rows, NoSecret
  <2>2. \A r \in Robots : robots'[r] = robots[r] \/ robots'[r] \in NoSecret
    BY <1>2 DEF IInv, TypeOK, NoSecret
  <2>3. /\ task' \in [Requests -> Tasks] /\ InScript' /\ SpentStays /\ TableStep
        /\ \A p \in Requests : TaskStep(p)
    BY <1>1, <1>2, <2>2, AdvanceKeeps
  <2>4. QED BY <2>1, <2>3 DEF Sound, Insert, IInv, TypeOK, memory
<1>3. CASE UNCHANGED robots /\ Refuse(q)
  <2>1. /\ task' \in [Requests -> Tasks] /\ InScript' /\ SpentStays /\ TableStep
        /\ \A p \in Requests : TaskStep(p)
    BY <1>1, <1>3, RefuseKeeps DEF At
  <2>2. QED BY <1>3, <2>1 DEF Sound, Insert, IInv, TypeOK, memory
<1>4. QED BY <1>2, <1>3 DEF Insert

LEMMA RetireSound == ASSUME IInv, NEW q \in Requests, Retire(q) PROVE Sound
<1>1. /\ task' \in [Requests -> Tasks] /\ InScript' /\ SpentStays /\ TableStep
      /\ \A p \in Requests : TaskStep(p)
  BY AdvanceKeeps DEF Retire
<1>2. tokens' \in [Issuers -> Tokens]
  <2>1. \A t \in Issuers : [tokens[t] EXCEPT !.status = "used"] \in Tokens /\ tokens[t] \in Tokens
    BY DEF IInv, TypeOK, Tokens, TokenStates
  <2>2. QED BY <2>1 DEF Retire
<1>3. QED BY <1>1, <1>2 DEF Sound, Retire, IInv, TypeOK, memory

LEMMA DropTokensSound == ASSUME IInv, NEW q \in Requests, DropTokens(q) PROVE Sound
<1>1. /\ task' \in [Requests -> Tasks] /\ InScript' /\ SpentStays /\ TableStep
      /\ \A p \in Requests : TaskStep(p)
  BY AdvanceKeeps DEF DropTokens
<1>2. tokens' \in [Issuers -> Tokens]
  <2>1. \A t \in Issuers : [tokens[t] EXCEPT !.status = "none"] \in Tokens /\ tokens[t] \in Tokens
    BY DEF IInv, TypeOK, Tokens, TokenStates
  <2>2. QED BY <2>1 DEF DropTokens
<1>3. QED BY <1>1, <1>2 DEF Sound, DropTokens, IInv, TypeOK, memory

LEMMA MintSound == ASSUME IInv, NEW q \in Requests, Mint(q) PROVE Sound
<1>1. /\ task' \in [Requests -> Tasks] /\ InScript' /\ SpentStays /\ TableStep
      /\ \A p \in Requests : TaskStep(p)
  BY AdvanceKeeps DEF Mint
<1>2. task[q].robot \in Robots
  <2>1. /\ task[q].op \in Ops /\ task[q].at \in 1..Len(Script(task[q].op))
        /\ Script(task[q].op)[task[q].at] = "mint"
        /\ IF task[q].op = "enroll" THEN task[q].token \in Issuers
                                    ELSE task[q].robot \in Robots
    BY Standing DEF Mint
  <2>2. task[q].op # "enroll"
    BY <2>1, ScriptFacts
  <2>3. QED BY <2>1, <2>2
<1>3. tokens' \in [Issuers -> Tokens]
  <2>1. tokens \in [Issuers -> Tokens]
    BY DEF IInv, TypeOK
  <2>2. QED BY <1>2, <2>1 DEF Mint, Tokens, TokenStates, Issuers
<1>4. QED BY <1>1, <1>3 DEF Sound, Mint, IInv, TypeOK, memory

LEMMA UseSound == ASSUME IInv, NEW q \in Requests, Use(q) PROVE Sound
<1>1. /\ task' \in [Requests -> Tasks] /\ InScript' /\ SpentStays /\ TableStep
      /\ \A p \in Requests : TaskStep(p)
  BY AdvanceKeeps DEF Use
<1>2. tokens' \in [Issuers -> Tokens]
  <2> DEFINE t == task[q].token
             s == IF tokens[t].status = "none" THEN tokens[t].status ELSE "used"
  <2>1. tokens \in [Issuers -> Tokens]
    BY DEF IInv, TypeOK
  <2>2. tokens' = [tokens EXCEPT ![t].status = s]
    BY DEF Use
  <2>3. s \in TokenStates
    BY DEF TokenStates
  <2> HIDE DEF t, s
  <2>4. QED BY <2>1, <2>2, <2>3 DEF Tokens
<1>3. QED BY <1>1, <1>2 DEF Sound, Use, IInv, TypeOK, memory

LEMMA DropRowSound == ASSUME IInv, NEW q \in Requests, DropRow(q) PROVE Sound
<1>1. robots' \in [Robots -> Rows]
  BY DEF DropRow, IInv, TypeOK, Rows, NoSecret
<1>2. \A r \in Robots : robots'[r] = robots[r] \/ robots'[r] \in NoSecret
  BY DEF DropRow, IInv, TypeOK, NoSecret
<1>3. /\ task' \in [Requests -> Tasks] /\ InScript' /\ SpentStays /\ TableStep
      /\ \A p \in Requests : TaskStep(p)
  BY <1>2, AdvanceKeeps DEF DropRow
<1>4. QED BY <1>1, <1>3 DEF Sound, DropRow, IInv, TypeOK, memory

LEMMA AbandonSound == ASSUME IInv, NEW q \in Requests, Abandon(q) PROVE Sound
<1>1. /\ task' \in [Requests -> Tasks] /\ InScript' /\ SpentStays /\ TableStep
      /\ \A p \in Requests : TaskStep(p)
  BY RefuseKeeps DEF Abandon, tables
<1>2. QED BY <1>1 DEF Sound, Abandon, IInv, TypeOK, tables, memory

\* A request q that advances to the task x, for the statements AdvanceKeeps
\* leaves out.
LEMMA AdvanceTo ==
  ASSUME IInv, NEW q \in Requests, NEW statement, At(q, statement), statement # "finish",
         NEW x \in Tasks, task' = [task EXCEPT ![q] = x],
         x.phase = "running", x.op = task[q].op, x.at = task[q].at + 1,
         x.token = task[q].token, x.robot \in Robots
  PROVE  /\ task' \in [Requests -> Tasks]
         /\ task'[q] = x
         /\ \A p \in Requests \ {q} : TaskStep(p)
         /\ InScript'
         /\ SpentStays
<1>1. /\ task[q].op \in Ops
      /\ task[q].at \in 1..Len(Script(task[q].op))
      /\ IF task[q].op = "enroll" THEN task[q].token \in Issuers
                                  ELSE task[q].robot \in Robots
      /\ task[q].phase = "running"
  BY Standing
<1>2. Len(Script(task[q].op)) \in 3..5
  BY <1>1, ScriptLengths
<1>3. task[q].at + 1 \in 2..Len(Script(task[q].op))
  <2> DEFINE n == Len(Script(task[q].op))
  <2>1. Advanced(q).at = task[q].at + 1 /\ Advanced(q).at \in 2..n
    BY Advancing
  <2> HIDE DEF n
  <2>2. task[q].at + 1 \in 2..n
    BY <2>1
  <2>3. QED BY <2>2 DEF n
<1>4. task'[q] = x
  BY DEF IInv, TypeOK
<1>5. Spent(q) => SpentAfter(q)
  BY <1>1, <1>2, <1>4 DEF Spent, SpentAfter
<1>6. x.at \in 1..Len(Script(x.op)) /\ x.op \in Ops
  BY <1>1, <1>2, <1>3
<1>7. IF x.op = "enroll" THEN x.token \in Issuers ELSE x.robot \in Robots
  BY <1>1
<1>8. QED BY <1>5, <1>6, <1>7, OneTask

LEMMA CheckSound == ASSUME IInv, NEW q \in Requests, Check(q) PROVE Sound
<1>1. At(q, "check") /\ UNCHANGED robots
  BY DEF Check, tables
<1>2. task[q].op = "enroll" /\ task[q].at = 1 /\ task[q].token \in Issuers /\ task[q].phase = "running"
  <2>1. /\ task[q].op \in Ops /\ task[q].at \in 1..Len(Script(task[q].op))
        /\ Script(task[q].op)[task[q].at] = "check"
    BY <1>1, Standing
  <2>2. QED BY <1>1, <2>1, Standing, ScriptFacts
<1>3. CASE tokens[task[q].token].status = "open"
  <2> DEFINE x == [Advanced(q) EXCEPT !.robot = tokens[task[q].token].robot]
  <2>1. tokens[task[q].token].robot \in Robots
    BY <1>2 DEF IInv, TypeOK, Tokens
  <2>2. /\ Advanced(q) \in Tasks
        /\ Advanced(q).phase = "running"
        /\ Advanced(q).op = task[q].op
        /\ Advanced(q).at = task[q].at + 1
        /\ Advanced(q).token = task[q].token
    BY <1>1, Advancing
  <2>3. /\ x \in Tasks /\ x.phase = "running" /\ x.op = task[q].op /\ x.at = task[q].at + 1
        /\ x.token = task[q].token /\ x.robot \in Robots
    BY <2>1, <2>2 DEF Tasks
  <2>4. task' = [task EXCEPT ![q] = x]
    BY <1>3 DEF Check
  <2> HIDE DEF x
  <2>5. /\ task' \in [Requests -> Tasks] /\ task'[q] = x
        /\ \A p \in Requests \ {q} : TaskStep(p)
        /\ InScript' /\ SpentStays
    BY <1>1, <2>3, <2>4, AdvanceTo
  <2>6. TaskStep(q)
    BY <1>2, <2>3, <2>5 DEF TaskStep
  <2>7. QED BY <2>5, <2>6 DEF Sound, Check, TableStep, IInv, TypeOK, tables, memory
<1>4. CASE Refuse(q)
  <2>1. /\ task' \in [Requests -> Tasks] /\ InScript' /\ SpentStays /\ TableStep
        /\ \A p \in Requests : TaskStep(p)
    BY <1>1, <1>4, RefuseKeeps DEF At
  <2>2. QED BY <2>1 DEF Sound, Check, IInv, TypeOK, tables, memory
<1>5. QED BY <1>3, <1>4 DEF Check

\* The one statement that writes a secret: its own, and for the only time.
LEMMA StoreSound == ASSUME IInv, NEW q \in Requests, Store(q) PROVE Sound
<1> DEFINE x == Advanced(q)
<1>1. At(q, "store") /\ task' = [task EXCEPT ![q] = x]
  BY DEF Store, Advance
<1>2. task[q].op = "enroll" /\ task[q].at = 2 /\ task[q].robot \in Robots /\ task[q].phase = "running"
  <2>1. /\ task[q].op \in Ops /\ task[q].at \in 1..Len(Script(task[q].op))
        /\ Script(task[q].op)[task[q].at] = "store"
        /\ task[q].at > 1 => task[q].robot \in Robots
        /\ task[q].phase = "running"
    BY <1>1, Standing
  <2>2. task[q].op = "enroll" /\ task[q].at = 2
    BY <2>1, ScriptFacts
  <2>3. QED BY <2>1, <2>2
<1>3. /\ x \in Tasks
      /\ x.phase = "running"
      /\ x.op = task[q].op
      /\ x.at = task[q].at + 1
      /\ x.token = task[q].token
      /\ x.robot = task[q].robot
  BY <1>1, Advancing
<1> HIDE DEF x
<1>4. /\ task' \in [Requests -> Tasks] /\ task'[q] = x
      /\ \A p \in Requests \ {q} : TaskStep(p)
      /\ InScript' /\ SpentStays
  BY <1>1, <1>2, <1>3, AdvanceTo
<1>5. TaskStep(q)
  BY <1>2, <1>3, <1>4 DEF TaskStep
<1>6. q \in Issuers /\ ~Spent(q) /\ SpentAfter(q)
  BY <1>2, <1>3, <1>4 DEF Issuers, Spent, SpentAfter
<1>7. robots' \in [Robots -> Rows] /\ TableStep
  BY <1>2, <1>6 DEF Store, TableStep, IInv, TypeOK, Rows
<1>8. QED BY <1>4, <1>5, <1>7 DEF Sound, Store, IInv, TypeOK, memory

LEMMA KillSound == ASSUME IInv, NEW q \in Requests, Kill(q) PROVE Sound
<1> DEFINE x == [Advanced(q) EXCEPT !.killed = robots[task[q].robot]]
<1>1. At(q, "kill") /\ task' = [task EXCEPT ![q] = x]
  BY DEF Kill
<1>2. task[q].op = "revoke" /\ task[q].at = 2 /\ task[q].robot \in Robots
  <2>1. /\ task[q].op \in Ops /\ task[q].at \in 1..Len(Script(task[q].op))
        /\ Script(task[q].op)[task[q].at] = "kill"
        /\ task[q].at > 1 => task[q].robot \in Robots
    BY <1>1, Standing
  <2>2. task[q].op = "revoke" /\ task[q].at = 2
    BY <2>1, ScriptFacts
  <2>3. QED BY <2>1, <2>2
<1>3. /\ Advanced(q) \in Tasks
      /\ Advanced(q).phase = "running"
      /\ Advanced(q).op = task[q].op
      /\ Advanced(q).at = task[q].at + 1
      /\ Advanced(q).token = task[q].token
      /\ Advanced(q).robot = task[q].robot
  BY <1>1, Advancing
<1>4. robots[task[q].robot] \in Rows
  BY <1>2 DEF IInv, TypeOK
<1>5. /\ x \in Tasks
      /\ x.phase = "running"
      /\ x.op = task[q].op
      /\ x.at = task[q].at + 1
      /\ x.token = task[q].token
      /\ x.robot = task[q].robot
      /\ x.killed = robots[task[q].robot]
  BY <1>3, <1>4 DEF Tasks
<1> HIDE DEF x
<1>6. /\ task' \in [Requests -> Tasks] /\ task'[q] = x
      /\ \A p \in Requests \ {q} : TaskStep(p)
      /\ InScript' /\ SpentStays
  BY <1>1, <1>2, <1>5, AdvanceTo
<1>7. robots' \in [Robots -> Rows] /\ TableStep /\ robots'[task[q].robot] \in NoSecret
  BY <1>2 DEF Kill, TableStep, IInv, TypeOK, Rows, NoSecret
<1>8. TaskStep(q)
  BY <1>2, <1>5, <1>6, <1>7 DEF TaskStep
<1>9. QED BY <1>6, <1>7, <1>8 DEF Sound, Kill, IInv, TypeOK, memory

LEMMA FetchSound == ASSUME IInv, NEW q \in Requests, Fetch(q) PROVE Sound
<1> DEFINE x == [Advanced(q) EXCEPT !.rows = robots]
<1>1. At(q, "fetch") /\ task' = [task EXCEPT ![q] = x] /\ UNCHANGED robots
  BY DEF Fetch, tables
<1>2. task[q].op \in {"revoke", "enroll"} /\ task[q].at = 4 /\ task[q].robot \in Robots
  <2>1. /\ task[q].op \in Ops /\ task[q].at \in 1..Len(Script(task[q].op))
        /\ Script(task[q].op)[task[q].at] = "fetch"
        /\ task[q].at > 1 => task[q].robot \in Robots
    BY <1>1, Standing
  <2>2. task[q].op \in {"revoke", "enroll"} /\ task[q].at = 4
    BY <2>1, ScriptFacts
  <2>3. QED BY <2>1, <2>2
<1>3. /\ Advanced(q) \in Tasks
      /\ Advanced(q).phase = "running"
      /\ Advanced(q).op = task[q].op
      /\ Advanced(q).at = task[q].at + 1
      /\ Advanced(q).token = task[q].token
      /\ Advanced(q).robot = task[q].robot
      /\ Advanced(q).killed = task[q].killed
  BY <1>1, Advancing
<1>4. robots \in [Robots -> Rows] /\ task[q].phase = "running"
  BY <1>1 DEF IInv, TypeOK, At
<1>5. /\ x \in Tasks
      /\ x.phase = "running"
      /\ x.op = task[q].op
      /\ x.at = task[q].at + 1
      /\ x.token = task[q].token
      /\ x.robot = task[q].robot
      /\ x.killed = task[q].killed
      /\ x.rows = robots
  BY <1>3, <1>4 DEF Tasks
<1> HIDE DEF x
<1>6. /\ task' \in [Requests -> Tasks] /\ task'[q] = x
      /\ \A p \in Requests \ {q} : TaskStep(p)
      /\ InScript' /\ SpentStays
  BY <1>1, <1>2, <1>5, AdvanceTo
<1>7. TaskStep(q)
  BY <1>1, <1>2, <1>4, <1>5, <1>6 DEF TaskStep
<1>8. TableStep
  BY <1>1 DEF TableStep
<1>9. QED BY <1>6, <1>7, <1>8 DEF Sound, Fetch, IInv, TypeOK, tables

LEMMA FinishSound == ASSUME IInv, NEW q \in Requests, Finish(q) PROVE Sound
<1> DEFINE x == [task[q] EXCEPT !.phase = "returned", !.rows = NoRows]
<1>1. At(q, "finish") /\ UNCHANGED <<robots, ticker>>
  BY DEF Finish, tables
<1>2. task[q] \in Tasks /\ task \in [Requests -> Tasks]
  BY DEF IInv, TypeOK
<1>3. NoRows \in [Robots -> Rows]
  BY DEF NoRows, Rows, NoSecret
<1>4. x \in Tasks /\ x.phase = "returned"
  BY <1>2, <1>3 DEF Tasks, Phases
<1>5. task' = [task EXCEPT ![q] = x]
  BY <1>2 DEF Finish
<1> HIDE DEF x
<1>6. task' \in [Requests -> Tasks] /\ task'[q] = x
  BY <1>2, <1>4, <1>5
<1>7. Spent(q) => SpentAfter(q)
  BY <1>4, <1>6 DEF SpentAfter
<1>8. /\ InScript'
      /\ SpentStays
      /\ \A p \in Requests \ {q} : TaskStep(p)
  BY <1>4, <1>5, <1>7, OneTask
<1>9. TaskStep(q) /\ TableStep
  BY <1>1, <1>4, <1>6 DEF TaskStep, TableStep
<1>10. TypeOK'
  <2>1. /\ task[q].op \in Ops /\ task[q].at \in 1..Len(Script(task[q].op))
        /\ IF task[q].op = "enroll" THEN task[q].token \in Issuers
                                    ELSE task[q].robot \in Robots
    BY <1>1, Standing
  <2>2. cache' \in [Robots -> Rows]
    BY <1>2 DEF Finish, IInv, TypeOK, Tasks
  <2>3. fresh' \in BOOLEAN
    <3>1. fresh \in BOOLEAN
      BY DEF IInv, TypeOK
    <3>2. CASE task[q].op \in {"revoke", "enroll"}
      BY <3>2 DEF Finish
    <3>3. CASE task[q].op \in {"create", "delete"}
      BY <3>3 DEF Finish
    <3>4. CASE task[q].op = "reissue"
      <4>1. fresh' = fresh
        BY <3>4 DEF Finish
      <4>2. QED BY <3>1, <4>1
    <3>5. QED BY <2>1, <3>2, <3>3, <3>4 DEF Ops
  <2>4. sessions' \subseteq Robots \X Issuers
    BY DEF Finish, IInv, TypeOK
  <2>5. tokens' \in [Issuers -> Tokens]
    <3>1. tokens \in [Issuers -> Tokens]
      BY DEF IInv, TypeOK
    <3>2. tokens' = tokens
      BY DEF Finish, tables
    <3>3. QED BY <3>1, <3>2
  <2>6. QED BY <1>1, <1>6, <2>2, <2>3, <2>4, <2>5 DEF IInv, TypeOK
<1>11. QED BY <1>8, <1>9, <1>10 DEF Sound

\* What is outside a handler leaves the tasks alone, or ends all of them.
LEMMA OthersSound ==
  ASSUME IInv,
         \/ TickerFetches \/ TickerAssigns \/ TickerFails \/ CacheExpires
         \/ \E t \in Issuers : TokenExpires(t)
         \/ \E r \in Robots, s \in Issuers : Connect(r, s)
         \/ \E x \in sessions : Disconnect(x)
         \/ UNCHANGED vars
  PROVE  Sound
<1>1. TypeOK /\ NoRows \in [Robots -> Rows]
  BY DEF IInv, NoRows, Rows, NoSecret
<1>2. UNCHANGED <<robots, task>>
  BY DEF TickerFetches, TickerAssigns, TickerFails, CacheExpires, TokenExpires, Connect,
         Disconnect, vars, tables, memory
<1>3. InScript' /\ SpentStays /\ TableStep /\ \A q \in Requests : TaskStep(q)
  BY <1>2 DEF IInv, InScript, SpentStays, Spent, SpentAfter, TableStep, TaskStep
<1>4. TypeOK'
  <2>1. CASE TickerFetches
    BY <1>1, <2>1 DEF TypeOK, TickerFetches, tables, memory
  <2>2. CASE TickerAssigns
    BY <1>1, <2>2 DEF TypeOK, TickerAssigns, tables
  <2>3. CASE TickerFails
    BY <1>1, <2>3 DEF TypeOK, TickerFails, tables, memory
  <2>4. CASE CacheExpires
    BY <1>1, <2>4 DEF TypeOK, CacheExpires, tables
  <2>5. CASE \E t \in Issuers : TokenExpires(t)
    BY <1>1, <2>5 DEF TypeOK, TokenExpires, memory, Tokens, TokenStates
  <2>6. CASE \E r \in Robots, s \in Issuers : Connect(r, s)
    BY <1>1, <2>6 DEF TypeOK, Connect, tables, memory
  <2>7. CASE \E x \in sessions : Disconnect(x)
    BY <1>1, <2>7 DEF TypeOK, Disconnect, tables, memory
  <2>8. CASE UNCHANGED vars
    BY <1>1, <2>8 DEF TypeOK, vars, tables, memory
  <2>9. QED BY <2>1, <2>2, <2>3, <2>4, <2>5, <2>6, <2>7, <2>8
<1>5. QED BY <1>3, <1>4 DEF Sound

LEMMA RestartSound == ASSUME IInv, Restart PROVE Sound
<1>1. TypeOK /\ NoRows \in [Robots -> Rows]
  BY DEF IInv, NoRows, Rows, NoSecret
<1>2. Raised \in Tasks /\ Raised.phase = "raised"
  BY DEF Raised, Waiting, Tasks, Phases, NoRows, Rows, NoSecret
<1>3. \A q \in Requests : task'[q] = IF task[q].phase = "running" THEN Raised ELSE task[q]
  BY DEF Restart
<1>4. task' \in [Requests -> Tasks]
  <2>1. \A q \in Requests : (IF task[q].phase = "running" THEN Raised ELSE task[q]) \in Tasks
    BY <1>1, <1>2 DEF TypeOK
  <2>2. QED BY <2>1 DEF Restart
<1>5. InScript'
  BY <1>2, <1>3 DEF InScript
<1>6. SpentStays
  BY <1>2, <1>3 DEF SpentStays, Spent, SpentAfter
<1>7. TableStep /\ \A q \in Requests : TaskStep(q)
  BY <1>2, <1>3 DEF Restart, tables, TableStep, TaskStep
<1>8. TypeOK'
  BY <1>1, <1>4 DEF Restart, tables, TypeOK
<1>9. QED BY <1>5, <1>6, <1>7, <1>8 DEF Sound

LEMMA StepSound == ASSUME IInv, [Next]_vars PROVE Sound
<1>1. CASE \E q \in Requests : Serve(q)
  BY <1>1, BeginSound, LookupSound, InsertSound, RetireSound, MintSound, KillSound,
     CheckSound, StoreSound, UseSound, DropTokensSound, DropRowSound, FetchSound,
     FinishSound, AbandonSound DEF Serve
<1>2. CASE Restart
  BY <1>2, RestartSound
<1>3. QED BY <1>1, <1>2, OthersSound DEF Next

-----------------------------------------------------------------------------
(* Theorems *)

LEMMA StepInv == ASSUME IInv, [Next]_vars PROVE IInv'
BY StepSound, Core DEF Sound, IInv

LEMMA InitInv == ASSUME Init PROVE IInv
<1>1. \A q \in Requests : task[q] = Waiting
  BY DEF Init
<1>2. Waiting \in Tasks /\ Waiting.phase = "new"
  BY DEF Waiting, Tasks, Phases, NoRows, Rows, NoSecret
<1>3. InScript /\ KilledInv /\ EnrollInv
  BY <1>1, <1>2 DEF InScript, KilledInv, EnrollInv
<1>4. FreshInv
  BY RegistryAssumption DEF Init, FreshInv, Issuers, NoSecret
<1>5. TypeOK
  <2>1. robots \in [Robots -> Rows] /\ NoRows \in [Robots -> Rows]
    BY DEF Init, NoRows, Rows, NoSecret, Issuers
  <2>2. tokens \in [Issuers -> Tokens]
    <3>1. PICK r \in Robots, status \in {"none", "open"} :
            tokens = [t \in Issuers |->
                        [robot |-> r,
                         status |-> IF t = Earlier /\ robots[r] # Absent
                                    THEN status ELSE "none"]]
      BY DEF Init
    <3>2. \A t \in Issuers :
            [robot |-> r,
             status |-> IF t = Earlier /\ robots[r] # Absent THEN status ELSE "none"] \in Tokens
      BY DEF Tokens, TokenStates
    <3>3. QED BY <3>1, <3>2
  <2>3. task \in [Requests -> Tasks]
    BY <1>2 DEF Init
  <2>4. QED BY <2>1, <2>2, <2>3 DEF Init, TypeOK
<1>6. QED BY <1>3, <1>4, <1>5 DEF IInv

\* Whatever requests overlap and wherever they are abandoned, no secret that
\* left the table returns to it.
THEOREM InductiveInvariant == Safety => []IInv
<1>1. Init => IInv
  BY InitInv
<1>2. IInv /\ [Next]_vars => IInv'
  BY StepInv
<1>3. QED BY <1>1, <1>2, PTL DEF Safety

\* The table, the cache, the handlers and the connections keep their shapes.
THEOREM TypeCorrect == Safety => []TypeOK
<1>1. IInv => TypeOK
  BY DEF IInv
<1>2. QED BY <1>1, InductiveInvariant, PTL

\* Beginning gives a task to the one request that begins.
LEMMA BeginOne ==
  ASSUME task \in [Requests -> Tasks], NEW q \in Requests, Begin(q)
  PROVE  \E x : task' = [task EXCEPT ![q] = x]
<1>1. CASE \E op \in Ops \ {"enroll"}, r \in Robots :
             task' = [task EXCEPT ![q].op = op, ![q].robot = r,
                                  ![q].at = 1, ![q].phase = "running"]
  <2>1. PICK op \in Ops \ {"enroll"}, r \in Robots :
          task' = [task EXCEPT ![q].op = op, ![q].robot = r,
                               ![q].at = 1, ![q].phase = "running"]
    BY <1>1
  <2>2. task' = [task EXCEPT ![q] = [task[q] EXCEPT !.op = op, !.robot = r, !.at = 1,
                                                    !.phase = "running"]]
    BY <2>1
  <2>3. QED BY <2>2
<1>2. CASE \E t \in Issuers :
             task' = [task EXCEPT ![q].op = "enroll", ![q].token = t,
                                  ![q].at = 1, ![q].phase = "running"]
  <2>1. PICK t \in Issuers :
          task' = [task EXCEPT ![q].op = "enroll", ![q].token = t,
                               ![q].at = 1, ![q].phase = "running"]
    BY <1>2
  <2>2. task' = [task EXCEPT ![q] = [task[q] EXCEPT !.op = "enroll", !.token = t, !.at = 1,
                                                    !.phase = "running"]]
    BY <2>1
  <2>3. QED BY <2>2
<1>3. QED BY <1>1, <1>2 DEF Begin

\* Only a handler's last statement answers, and only its own request.
LEMMA AnswerIsFinish ==
  ASSUME IInv, [Next]_vars, NEW q \in Requests, Answers(q)
  PROVE  Finish(q)
<1>1. task[q] \in Tasks /\ task[q].phase = "running" /\ task'[q].phase = "returned"
  BY DEF IInv, TypeOK, Answers
<1>2. Advanced(q).phase = "running"
  BY <1>1 DEF Advanced, Tasks
<1>3. Raised.phase = "raised"
  BY DEF Raised, Waiting
<1>4. task \in [Requests -> Tasks]
  BY DEF IInv, TypeOK
<1>5. PICK p \in Requests : Serve(p)
  <2>1. task' # task
    BY <1>1
  <2>2. ~Restart
    BY <1>1, <1>3 DEF Restart
  <2>3. QED BY <2>1, <2>2 DEF Next, TickerFetches, TickerAssigns, TickerFails, CacheExpires,
       TokenExpires, Connect, Disconnect, vars
<1>6. p = q
  <2>1. \E x : task' = [task EXCEPT ![p] = x]
    <3>1. CASE Begin(p)
      BY <1>4, <3>1, BeginOne
    <3>2. CASE Finish(p)
      <4>1. task' = [task EXCEPT ![p] = [task[p] EXCEPT !.phase = "returned", !.rows = NoRows]]
        BY <1>4, <3>2 DEF Finish
      <4>2. QED BY <4>1
    <3>3. CASE ~(Begin(p) \/ Finish(p))
      BY <1>5, <3>3 DEF Serve, Lookup, Insert, Retire, Mint, Kill, Check, Store, Use,
         DropTokens, DropRow, Fetch, Abandon, Advance, Refuse
    <3>4. QED BY <3>1, <3>2, <3>3
  <2>2. QED BY <1>1, <1>4, <2>1
<1>7. CASE Begin(q)
  BY <1>1, <1>7 DEF Begin
<1>8. CASE Lookup(q) \/ Insert(q) \/ Retire(q) \/ Mint(q) \/ Store(q) \/ Use(q)
           \/ DropTokens(q) \/ DropRow(q) \/ Abandon(q)
  <2>1. task'[q] = Advanced(q) \/ task'[q] = Raised
    BY <1>4, <1>8 DEF Lookup, Insert, Retire, Mint, Store, Use, DropTokens, DropRow, Abandon,
       Advance, Refuse
  <2>2. QED BY <1>1, <1>2, <1>3, <2>1
<1>9. CASE Kill(q)
  <2>1. task'[q] = [Advanced(q) EXCEPT !.killed = robots[task[q].robot]]
    BY <1>4, <1>9 DEF Kill
  <2>2. task'[q].phase = task[q].phase
    BY <1>1, <2>1 DEF Advanced, Tasks
  <2>3. QED BY <1>1, <2>2
<1>10. CASE Fetch(q)
  <2>1. task'[q] = [Advanced(q) EXCEPT !.rows = robots]
    BY <1>4, <1>10 DEF Fetch
  <2>2. task'[q].phase = task[q].phase
    BY <1>1, <2>1 DEF Advanced, Tasks
  <2>3. QED BY <1>1, <2>2
<1>11. CASE Check(q)
  <2>1. CASE Refuse(q)
    BY <1>1, <1>3, <1>4, <2>1 DEF Refuse
  <2>2. CASE ~Refuse(q)
    <3>1. task'[q] = [Advanced(q) EXCEPT !.robot = tokens[task[q].token].robot]
      BY <1>4, <1>11, <2>2 DEF Check
    <3>2. task'[q].phase = task[q].phase
      BY <1>1, <3>1 DEF Advanced, Tasks
    <3>3. QED BY <1>1, <3>2
  <2>3. QED BY <2>1, <2>2
<1>12. QED BY <1>5, <1>6, <1>7, <1>8, <1>9, <1>10, <1>11 DEF Serve

\* A revoke or an enrollment answers from its fifth statement, with the rows it
\* read in the cache.
LEMMA Answering ==
  ASSUME IInv, NEW q \in Requests, Finish(q), task[q].op \in {"revoke", "enroll"}
  PROVE  /\ task[q].phase = "running"
         /\ task[q].at = 5
         /\ cache' = task[q].rows
<1>1. At(q, "finish") /\ cache' = task[q].rows
  BY DEF Finish
<1>2. /\ task[q].op \in Ops /\ task[q].at \in 1..Len(Script(task[q].op))
      /\ Script(task[q].op)[task[q].at] = "finish" /\ task[q].phase = "running"
  BY <1>1, Standing
<1>3. task[q].at = 5
  BY <1>2, ScriptFacts, SMTT(30)
<1>4. QED BY <1>1, <1>2, <1>3

\* A revoke that is answered has taken its credential out of the cache and
\* every session of its robot off the broker, whatever ran beside it.
THEOREM AnsweredRevokes == Safety => RevokeTakesEffect
<1>1. ASSUME IInv, [Next]_vars, NEW q \in Requests, Answers(q), task[q].op = "revoke"
      PROVE  /\ task[q].killed \in Issuers => cache'[task[q].robot] # task[q].killed
             /\ \A s \in Issuers : <<task[q].robot, s>> \notin sessions'
  <2>1. Finish(q)
    BY <1>1, AnswerIsFinish
  <2>2. task[q].phase = "running" /\ task[q].at = 5 /\ cache' = task[q].rows
    BY <1>1, <2>1, Answering
  <2>3. task[q].killed \in Issuers => task[q].rows[task[q].robot] # task[q].killed
    BY <1>1, <2>2 DEF IInv, KilledInv
  <2>4. sessions' = {x \in sessions : x[1] # task[q].robot}
    BY <1>1, <2>1 DEF Finish
  <2>5. QED BY <2>2, <2>3, <2>4
<1>2. IInv /\ [Next]_vars =>
        [\A q \in Requests :
           Answers(q) /\ task[q].op = "revoke" =>
             /\ task[q].killed \in Issuers => cache'[task[q].robot] # task[q].killed
             /\ \A s \in Issuers : <<task[q].robot, s>> \notin sessions']_vars
  BY <1>1
<1>3. QED BY <1>2, InductiveInvariant, PTL DEF Safety, RevokeTakesEffect

\* An enrollment that is answered has its credential in the cache, unless the
\* table holds another one, or none, by then.
THEOREM AnsweredEnrollments == Safety => EnrolledCanConnect
<1>1. ASSUME IInv, [Next]_vars, NEW q \in Requests, Answers(q), task[q].op = "enroll"
      PROVE  cache'[task[q].robot] = q \/ robots[task[q].robot] # q
  <2>1. Finish(q)
    BY <1>1, AnswerIsFinish
  <2>2. task[q].phase = "running" /\ task[q].at = 5 /\ cache' = task[q].rows
    BY <1>1, <2>1, Answering
  <2>3. QED BY <1>1, <2>2 DEF IInv, EnrollInv
<1>2. IInv /\ [Next]_vars =>
        [\A q \in Requests :
           Answers(q) /\ task[q].op = "enroll" =>
             cache'[task[q].robot] = q \/ robots[task[q].robot] # q]_vars
  BY <1>1
<1>3. QED BY <1>2, InductiveInvariant, PTL DEF Safety, EnrolledCanConnect

=============================================================================
