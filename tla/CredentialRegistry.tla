------------------------- MODULE CredentialRegistry -------------------------
(***************************************************************************)
(* server/registry.py: Registry, the admin and enrollment handlers of      *)
(* server/main.py that drive it, and the two places where the broker uses  *)
(* the credential cache: CONNECT and kick().                               *)
(*                                                                         *)
(* Every handler is a coroutine: a script of awaited SQL statements, each  *)
(* one atomic in PostgreSQL, with other handlers and the ticker's          *)
(* ensure_cache() running between any two of them.  A statement may raise, *)
(* which abandons the rest of the script.  Reading the robots table and    *)
(* assigning the cache are two steps: the rows travel back from a thread.  *)
(*                                                                         *)
(* Secrets and tokens are random and fresh, so each is named by the        *)
(* request that made it; Earlier names what a previous run of the server   *)
(* left behind.                                                            *)
(***************************************************************************)
EXTENDS Naturals, Sequences

CONSTANTS
  Robots,
  Requests,    \* HTTP requests of a behaviour, each served once (model bound)
  Earlier

Issuers == Requests \cup {Earlier}

\* A row of the robots table.  secret_hash and revoked_at are always written
\* together, so one value stands for both: the secret, or why there is none.
Absent  == "absent"
Pending == "pending"    \* secret_hash NULL, revoked_at NULL
Revoked == "revoked"    \* secret_hash NULL, revoked_at set
NoSecret == {Absent, Pending, Revoked}
Rows     == NoSecret \cup Issuers

ASSUME RegistryAssumption == Earlier \notin Requests /\ Issuers \cap NoSecret = {}

\* A row of enroll_tokens.  An expired token still has used_at NULL.
TokenStates == {"none", "open", "expired", "used"}

\* Mutant of Script: revoke refreshes the cache before it kills the row.
ScriptRefreshFirst(op) ==
  CASE op = "create"  -> <<"lookup", "insert", "retire", "mint", "finish">>
    [] op = "reissue" -> <<"lookup", "retire", "mint", "finish">>
    [] op = "revoke"  -> <<"lookup", "fetch", "kill", "retire", "finish">>
    [] op = "enroll"  -> <<"check", "store", "use", "fetch", "finish">>
    [] op = "delete"  -> <<"droptokens", "droprow", "finish">>

\* Mutant of Script: enrolling reads the table before it stores the secret.
ScriptFetchEarly(op) ==
  CASE op = "create"  -> <<"lookup", "insert", "retire", "mint", "finish">>
    [] op = "reissue" -> <<"lookup", "retire", "mint", "finish">>
    [] op = "revoke"  -> <<"lookup", "kill", "retire", "fetch", "finish">>
    [] op = "enroll"  -> <<"check", "fetch", "store", "use", "finish">>
    [] op = "delete"  -> <<"droptokens", "droprow", "finish">>

\* The awaited statements of each handler, in order.
Script(op) ==
  CASE op = "create"  -> <<"lookup", "insert", "retire", "mint", "finish">>
    [] op = "reissue" -> <<"lookup", "retire", "mint", "finish">>
    [] op = "revoke"  -> <<"lookup", "kill", "retire", "fetch", "finish">>
    [] op = "enroll"  -> <<"check", "store", "use", "fetch", "finish">>
    [] op = "delete"  -> <<"droptokens", "droprow", "finish">>

Ops == {"create", "reissue", "revoke", "enroll", "delete"}

VARIABLES
  robots,    \* [Robots -> Rows]: the table
  tokens,    \* [Issuers -> [robot, status]]: enroll_tokens
  cache,     \* [Robots -> Rows]: Registry._cache
  fresh,     \* FALSE: _cache_at is zero or older than the time to live
  task,      \* [Requests -> ...]: the handler serving each request
  ticker,    \* the ticker inside ensure_cache(): [busy, rows]
  sessions   \* SUBSET (Robots \X Issuers): live connections

tables == <<robots, tokens>>
memory == <<cache, fresh>>
vars   == <<tables, memory, task, ticker, sessions>>

NoRows == [r \in Robots |-> Absent]

\* killed is the credential a revoke found in the row (history).
Waiting == [op |-> "none", at |-> 0, phase |-> "new", robot |-> "none",
            token |-> "none", killed |-> Absent, rows |-> NoRows]
Raised  == [Waiting EXCEPT !.phase = "raised"]

-----------------------------------------------------------------------------
(* Serving a request *)

Begin(q) ==
  /\ task[q].phase = "new"
  /\ \/ \E op \in Ops \ {"enroll"}, r \in Robots :
          task' = [task EXCEPT ![q].op = op, ![q].robot = r,
                               ![q].at = 1, ![q].phase = "running"]
     \/ \E t \in Issuers :
          task' = [task EXCEPT ![q].op = "enroll", ![q].token = t,
                               ![q].at = 1, ![q].phase = "running"]
  /\ UNCHANGED <<tables, memory, ticker, sessions>>

\* q is about to run this statement.
At(q, statement) ==
  /\ task[q].phase = "running"
  /\ Script(task[q].op)[task[q].at] = statement

\* The task after the statement, suspended before the next one.
Advanced(q) == [task[q] EXCEPT !.at = @ + 1]
Advance(q)  == task' = [task EXCEPT ![q] = Advanced(q)]
Refuse(q)   == task' = [task EXCEPT ![q] = Raised]

\* get(): a create wants no row, the others want one.
Lookup(q) ==
  /\ At(q, "lookup")
  /\ IF (robots[task[q].robot] = Absent) = (task[q].op = "create")
       THEN Advance(q) ELSE Refuse(q)
  /\ UNCHANGED <<tables, memory, ticker, sessions>>

\* INSERT INTO robots: the primary key refuses a second row.
Insert(q) ==
  /\ At(q, "insert")
  /\ IF robots[task[q].robot] = Absent
       THEN robots' = [robots EXCEPT ![task[q].robot] = Pending] /\ Advance(q)
       ELSE UNCHANGED robots /\ Refuse(q)
  /\ UNCHANGED <<tokens, memory, ticker, sessions>>

\* UPDATE enroll_tokens SET used_at WHERE robot_id AND used_at IS NULL.
Retire(q) ==
  /\ At(q, "retire")
  /\ tokens' = [t \in Issuers |->
                  IF tokens[t].robot = task[q].robot
                     /\ tokens[t].status \in {"open", "expired"}
                  THEN [tokens[t] EXCEPT !.status = "used"] ELSE tokens[t]]
  /\ Advance(q)
  /\ UNCHANGED <<robots, memory, ticker, sessions>>

Mint(q) ==
  /\ At(q, "mint")
  /\ tokens' = [tokens EXCEPT ![q].robot = task[q].robot, ![q].status = "open"]
  /\ Advance(q)
  /\ UNCHANGED <<robots, memory, ticker, sessions>>

\* UPDATE robots SET revoked_at = now(), secret_hash = NULL.
Kill(q) ==
  /\ At(q, "kill")
  /\ IF robots[task[q].robot] = Absent
       THEN UNCHANGED robots
       ELSE robots' = [robots EXCEPT ![task[q].robot] = Revoked]
  /\ task' = [task EXCEPT ![q] = [Advanced(q) EXCEPT !.killed = robots[task[q].robot]]]
  /\ UNCHANGED <<tokens, memory, ticker, sessions>>

\* enroll() reads the token and decides on what it read.
Check(q) ==
  /\ At(q, "check")
  /\ LET t == task[q].token
     IN IF tokens[t].status = "open"
          THEN task' = [task EXCEPT ![q] =
                          [Advanced(q) EXCEPT !.robot = tokens[t].robot]]
          ELSE Refuse(q)
  /\ UNCHANGED <<tables, memory, ticker, sessions>>

\* UPDATE robots SET secret_hash = <new>, revoked_at = NULL.
Store(q) ==
  /\ At(q, "store")
  /\ IF robots[task[q].robot] = Absent
       THEN UNCHANGED robots
       ELSE robots' = [robots EXCEPT ![task[q].robot] = q]
  /\ Advance(q)
  /\ UNCHANGED <<tokens, memory, ticker, sessions>>

\* UPDATE enroll_tokens SET used_at WHERE token, whatever used_at was.
Use(q) ==
  /\ At(q, "use")
  /\ tokens' = [tokens EXCEPT ![task[q].token].status =
                  IF @ = "none" THEN @ ELSE "used"]
  /\ Advance(q)
  /\ UNCHANGED <<robots, memory, ticker, sessions>>

\* DELETE FROM enroll_tokens WHERE robot_id.
DropTokens(q) ==
  /\ At(q, "droptokens")
  /\ tokens' = [t \in Issuers |->
                  IF tokens[t].robot = task[q].robot
                  THEN [tokens[t] EXCEPT !.status = "none"] ELSE tokens[t]]
  /\ Advance(q)
  /\ UNCHANGED <<robots, memory, ticker, sessions>>

DropRow(q) ==
  /\ At(q, "droprow")
  /\ robots' = [robots EXCEPT ![task[q].robot] = Absent]
  /\ Advance(q)
  /\ UNCHANGED <<tokens, memory, ticker, sessions>>

\* _invalidate(), then refresh_cache() reads the table.
Fetch(q) ==
  /\ At(q, "fetch")
  /\ fresh' = FALSE
  /\ task' = [task EXCEPT ![q] = [Advanced(q) EXCEPT !.rows = robots]]
  /\ UNCHANGED <<tables, cache, ticker, sessions>>

\* The handler resumes for the last time and answers: create and delete only
\* invalidate; revoke and enroll assign the cache from the rows they read;
\* revoke kicks, with no await in between.
Finish(q) ==
  LET op == task[q].op
      r  == task[q].robot
  IN /\ At(q, "finish")
     /\ task' = [task EXCEPT ![q].phase = "returned", ![q].rows = NoRows]
     /\ cache' = IF op \in {"revoke", "enroll"} THEN task[q].rows ELSE cache
     /\ fresh' = CASE op \in {"revoke", "enroll"} -> TRUE
                   [] op \in {"create", "delete"} -> FALSE
                   [] op = "reissue" -> fresh
     /\ sessions' = IF op = "revoke" THEN {x \in sessions : x[1] # r} ELSE sessions
     /\ UNCHANGED <<tables, ticker>>

\* The statement q waits for raises: nothing after it happens.
Abandon(q) ==
  /\ task[q].phase = "running"
  /\ Refuse(q)
  /\ UNCHANGED <<tables, memory, ticker, sessions>>

Serve(q) ==
  \/ Begin(q)
  \/ Lookup(q)
  \/ Insert(q)
  \/ Retire(q)
  \/ Mint(q)
  \/ Kill(q)
  \/ Check(q)
  \/ Store(q)
  \/ Use(q)
  \/ DropTokens(q)
  \/ DropRow(q)
  \/ Fetch(q)
  \/ Finish(q)
  \/ Abandon(q)

-----------------------------------------------------------------------------
(* The ticker, the broker and time *)

\* Mutant of TickerFetches: only an empty cache is refreshed.
TickerFetchesOnce ==
  /\ ~ticker.busy
  /\ ~fresh
  /\ cache = NoRows
  /\ ticker' = [busy |-> TRUE, rows |-> robots]
  /\ UNCHANGED <<tables, memory, task, sessions>>

\* ensure_cache() on a cache that is too old.
TickerFetches ==
  /\ ~ticker.busy
  /\ ~fresh
  /\ ticker' = [busy |-> TRUE, rows |-> robots]
  /\ UNCHANGED <<tables, memory, task, sessions>>

TickerAssigns ==
  /\ ticker.busy
  /\ cache' = ticker.rows
  /\ fresh' = TRUE
  /\ ticker' = [busy |-> FALSE, rows |-> NoRows]
  /\ UNCHANGED <<tables, task, sessions>>

\* The refresh raises: the old cache stays in use.
TickerFails ==
  /\ ticker.busy
  /\ ticker' = [busy |-> FALSE, rows |-> NoRows]
  /\ UNCHANGED <<tables, memory, task, sessions>>

CacheExpires ==
  /\ fresh
  /\ fresh' = FALSE
  /\ UNCHANGED <<tables, cache, task, ticker, sessions>>

TokenExpires(t) ==
  /\ tokens[t].status = "open"
  /\ tokens' = [tokens EXCEPT ![t].status = "expired"]
  /\ UNCHANGED <<robots, memory, task, ticker, sessions>>

\* A vehicle holds a credential once its enrollment was answered.
Known == {Earlier} \cup
         {q \in Requests : task[q].phase = "returned" /\ task[q].op = "enroll"}

\* CONNECT: verify_cached() answers from the cache alone.  The session is
\* registered in the same step: drain() does not suspend on an empty buffer.
Connect(r, s) ==
  /\ s \in Known
  /\ cache[r] = s
  /\ sessions' = sessions \cup {<<r, s>>}
  /\ UNCHANGED <<tables, memory, task, ticker>>

Disconnect(x) ==
  /\ x \in sessions
  /\ sessions' = sessions \ {x}
  /\ UNCHANGED <<tables, memory, task, ticker>>

\* The server is restarted: handlers, connections and cache are gone; the cache
\* is filled at once if PostgreSQL answers.
Restart ==
  /\ task' = [q \in Requests |->
                IF task[q].phase = "running" THEN Raised ELSE task[q]]
  /\ ticker' = [busy |-> FALSE, rows |-> NoRows]
  /\ sessions' = {}
  /\ \/ cache' = robots /\ fresh' = TRUE
     \/ cache' = NoRows /\ fresh' = FALSE
  /\ UNCHANGED <<tables>>

-----------------------------------------------------------------------------
\* A server that just started on the tables an earlier one left.
Init ==
  /\ robots \in [Robots -> {Absent, Pending, Earlier}]
  /\ \E r \in Robots, status \in {"none", "open"} :
       tokens = [t \in Issuers |->
                   [robot |-> r,
                    status |-> IF t = Earlier /\ robots[r] # Absent
                               THEN status ELSE "none"]]
  /\ \/ cache = robots /\ fresh = TRUE
     \/ cache = NoRows /\ fresh = FALSE
  /\ task = [q \in Requests |-> Waiting]
  /\ ticker = [busy |-> FALSE, rows |-> NoRows]
  /\ sessions = {}

Next ==
  \/ \E q \in Requests : Serve(q)
  \/ TickerFetches
  \/ TickerAssigns
  \/ TickerFails
  \/ CacheExpires
  \/ \E t \in Issuers : TokenExpires(t)
  \/ \E r \in Robots, s \in Issuers : Connect(r, s)
  \/ \E x \in sessions : Disconnect(x)
  \/ Restart

Safety == Init /\ [][Next]_vars

\* The ticker ticks, the time to live runs out, and an outage of PostgreSQL
\* ends: a refresh tried again and again succeeds.
Fairness ==
  /\ WF_vars(TickerFetches)
  /\ SF_vars(TickerAssigns)
  /\ WF_vars(CacheExpires)

Spec == Safety /\ Fairness

-----------------------------------------------------------------------------
(* Properties *)

Phases == {"new", "running", "returned", "raised"}

Tasks  == [op : Ops \cup {"none"}, at : 0..5, phase : Phases,
           robot : Robots \cup {"none"}, token : Issuers \cup {"none"},
           killed : Rows, rows : [Robots -> Rows]]
Tokens == [robot : Robots, status : TokenStates]

\* Type correctness.
TypeOK ==
  /\ robots \in [Robots -> Rows]
  /\ tokens \in [Issuers -> Tokens]
  /\ cache \in [Robots -> Rows]
  /\ fresh \in BOOLEAN
  /\ task \in [Requests -> Tasks]
  /\ ticker \in [busy : BOOLEAN, rows : [Robots -> Rows]]
  /\ sessions \subseteq Robots \X Issuers

Answers(q) == task[q].phase = "running" /\ task[q].phase' = "returned"

\* "refresh before kicking" (main.py:1163): at the moment a revoke is answered,
\* the cache does not admit the credential it killed and no session lives on,
\* whatever enrollments, refreshes and reissues overlapped it.
RevokeTakesEffect ==
  [][\A q \in Requests :
       Answers(q) /\ task[q].op = "revoke" =>
         /\ task[q].killed \in Issuers => cache'[task[q].robot] # task[q].killed
         /\ \A s \in Issuers : <<task[q].robot, s>> \notin sessions']_vars

\* "the agent connects to MQTT immediately after enrolling, and being rejected
\* on the first try looks like a broken install" (main.py:1210-1212): at the
\* moment an enrollment is answered the cache admits the new credential, unless
\* the table itself no longer holds it.
EnrolledCanConnect ==
  [][\A q \in Requests :
       Answers(q) /\ task[q].op = "enroll" =>
         cache'[task[q].robot] = q \/ robots[task[q].robot] # q]_vars

\* A stale cache is not stale forever: once the requests are over and the
\* server is no longer restarted, the cache comes to agree with the table,
\* whichever refresh was assigned last.
CacheCatchesUp == <>[][~Restart]_vars => <>[](cache = robots)

-----------------------------------------------------------------------------
(* The inductive invariant behind the theorems of CredentialRegistry_proofs. *)

\* A running handler stands at a statement of its script and knows its robot.
InScript ==
  \A q \in Requests :
    task[q].phase = "running" =>
      /\ task[q].op \in Ops
      /\ task[q].at \in 1..Len(Script(task[q].op))
      /\ IF task[q].op = "enroll" THEN task[q].token \in Issuers
                                  ELSE task[q].robot \in Robots
      /\ task[q].at > 1 => task[q].robot \in Robots

\* No statement to come will write the secret of s into the table.
Spent(s) ==
  \/ task[s].phase \in {"returned", "raised"}
  \/ task[s].phase = "running" /\ task[s].op = "enroll" /\ task[s].at > 2

\* A secret in the table was written by a statement that will not run again.
FreshInv == \A r \in Robots : robots[r] \in Requests => Spent(robots[r])

\* A credential a revoke has killed is out of the table for good, and out of
\* the rows the revoke read afterwards.
KilledInv ==
  \A q \in Requests :
    LET t == task[q]
    IN t.phase = "running" /\ t.op = "revoke" /\ t.at > 2 /\ t.killed \in Issuers =>
         /\ t.killed \in Requests => Spent(t.killed)
         /\ robots[t.robot] # t.killed
         /\ t.at = 5 => t.rows[t.robot] # t.killed

\* What an enrollment read after its UPDATE shows its own secret, or one that
\* replaced it for good.
EnrollInv ==
  \A q \in Requests :
    LET t == task[q]
    IN t.phase = "running" /\ t.op = "enroll" /\ t.at = 5 =>
         t.rows[t.robot] = q \/ robots[t.robot] # q

IInv == TypeOK /\ InScript /\ FreshInv /\ KilledInv /\ EnrollInv

=============================================================================
