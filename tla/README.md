# A verification project for the ITRI fleet server

TLA+ specifications of the fleet telemetry server (`src/server`), of the agent that
runs beside each vehicle (`src/agent`) and of the dashboard page (`src/web/app.js`),
checked with TLC, with theorems checked by TLAPS. `src/...:n` below is a line of the
repository.

Contents: [the system](#1-the-system), [the plan](#2-the-plan), [the
modules](#3-the-modules-and-the-code), [the runs](#4-the-runs), [fairness](#5-fairness),
[the proofs](#6-the-proofs), [what the code does not
keep to](#7-what-the-checks-found), [what is not modelled](#8-what-is-not-modelled).

## 1. The system

Vehicles run an *agent* that reads topics of the vehicle (ROS 2 or a local MQTT broker),
filters and batches the samples, and publishes them over one MQTT connection. The
*server* is one asyncio process: an MQTT broker written for this system, a router that
turns messages into live state and archive rows, a writer that archives to PostgreSQL, a
WebSocket hub for browsers, an alert engine, and HTTP handlers for administration and
enrollment. One background task, the *ticker* (`pusher_task`, main.py:320), drives
presence timeouts, pushes, alerts and the credential cache. Everything but the database
driver runs on the one event loop, so code between two awaits is atomic, and every await
is a point where any other callback, handler or tick may run. That is the grain of
atomicity in the modules.

```
 source --> Bridge.offer --> deque --> _flush --> MQTT client ~~~~~> MqttBroker
                                                                        |
             robot registry <--- credential cache --- CONNECT, kick ----+
                   |                                                    v
   admin, enroll --+                                         TelemetryRouter.handle
                                                  status, lwt |             | samples
                                                              v             v
   browsers <-- Hub.push <-- ticker <---------------- FleetState      TelemetryWriter
                               |-- reap, alerts, ensure_cache               |
                               +------------------------------------> PostgreSQL
```

### Components

| Component | State | Operations | What makes it correct | Hard because |
|---|---|---|---|---|
| Telemetry archive, `history.py` | three bounded deques, catalogue counts, seen robots, the batch being flushed, counters | `record`, `record_topics`, `note_event`, `_flush_once`, `_flush_loop`, `stop` | order of arrival survives retries; a row leaves memory only into PostgreSQL or counted; never stops looking for PostgreSQL; nothing waits for ever | callbacks run between the awaits of a flush, each call may fail half-way, deques overflow, shutdown cancels anywhere |
| Database access, `db.py` | `ready`, backoff deadline, connection pool | `reconnect`, `copy_*`, `upsert_catalog`, `insert_events`, `touch_last_seen` | the writer finds it again after an outage | partial failure, one pool for everybody |
| Partitions, `db.py`, `history.py` | daily partitions, the DEFAULT partition, the maintenance task | `ensure_partitions`, `drop_expired_partitions`, `_check_disk`, `emergency_drop_oldest_day` | rows go only by retention or by an emergency that takes the oldest day; DEFAULT does not keep partitions from being created for long | two tasks, several transactions per decision, midnight between any two, a row in DEFAULT blocks the partition of its day |
| Credential registry, `registry.py` and handlers in `main.py` | tables `robots`, `enroll_tokens`; `_cache`, `_cache_at` | create, reissue, enroll, revoke, delete, `refresh_cache`, `ensure_cache` | an answered revocation keeps the robot out; an answered enrollment lets it in; the cache catches up with the table | several awaited statements per handler, refreshes overlap, statements fail |
| MQTT broker, `broker.py` | sessions, subscriptions, retained messages, wills | CONNECT, PUBLISH, SUBSCRIBE, keepalive, `kick`, `stop` | subscribers have what is retained; a will fires exactly when a connection is lost; a kicked session is silent | packets already read when a session is kicked, half-open connections, no session takeover, acknowledged before stored |
| Router, `ingest.py` | window of batch keys | `handle`, `_apply_samples` | a redelivered batch is recorded once | duplicates from retries, boots and abandoned sockets; a bounded window that all robots share |
| Presence, `state.py` | one record per robot: level, last status, last will | `update`, `set_link`, `evaluate`, `reap` | the level is what the two signals justify; the audit trail agrees | signals arrive in any order, late wills, the clock |
| Dashboard hub, `main.py`, `app.js` | per socket a map from robot to revision | `join`, `leave`, `push`, `broadcast_metrics` | a browser gets every change or loses its connection | joins, pushes and changes interleave at every send |
| Agent bridge, `bridge.py` | deque, filter state, sequence number, boot id, links | `ingest`, `offer`, `_flush`, `run`, connection callbacks | what passed the filter is delivered once, in order, or counted | refused publishes, breaks, restarts, three threads |
| Alert engine, `alerts.py` | per rule and robot: since when, firing, open alert row | `tick`, fire, resolve, notify | fires after the hold time, resolves, survives rule edits | awaits between reading rules and using them |
| ROS 2 source, `ros2.py` | subscriptions, two threads | `start`, `_spin`, `_discover`, `_match_qos`, `stop` | wanted topics are found, with a QoS their publishers can serve | no lock, a graph that changes while it is read, queries of it that fail |
| Recorder, `recorder.py` | current file, directory | `write`, `_rotate`, `_prune`, `stop` | bounded disk use in one run | rotation alone drives pruning; restarts and errors leave short files |
| Login, rate limiter, `main.py:482-680` | failures per address, session table | login, enrollment, pages, logout, expiry | lockout that holds and ends, expiry | an await between asking the limiter and telling it |
| Startup and shutdown, `main.py` lifespan | -- | connect, start, stop | what was accepted is archived | stop order |
| Egress meter, `metrics.py` | rolling byte counts | add, read | -- | -- |

`PROJECT.json` lists every component with its status, the interactive and rendering ones
too, and under `hazards` each place where the code is hard to test.

### Hazards, by component

* **Writer.** Arrivals between awaits; up to five transactions per flush of which any may
  fail; `extendleft` into a full deque discards the *newest* rows uncounted; the early
  return of `_flush_once` precedes `reconnect()`; `stop()` cancels a flush that holds rows,
  while its statement goes on in a thread; catalogue entries of a failed flush overwrite
  later counts; `_seen_ids` is cleared after an await; evicted audit events are not counted;
  a row PostgreSQL refuses blocks the rest.
* **Registry.** The cache is assigned from rows read before an await by three different
  callers; enroll marks its token last; issue_token retires and inserts in two statements;
  a refresh that raises skips the kick (revoke) or burns the code (enroll); delete neither
  refreshes nor kicks.
* **Presence.** A will of an abandoned connection fires after the vehicle is back; will and
  status may carry the same clock reading; `reap` notes "offline" for whatever change it
  finds, STALE to OFFLINE included; a source that died leaves a status that keeps coming.
* **Hub.** `join` replaces the map after an await; `push` may hold the map it replaced; a
  failing send changes the clients during the loop; one slow client holds up the ticker.
* **Uplink.** A batch goes out on two topics, and one copy may be accepted and the other
  refused; its number is then used again for other samples; the requeue drops the newest
  samples uncounted; a batch that cannot be encoded is gone, uncounted; acknowledgement
  precedes storage; the dedup window, shared by all robots, forgets.
* **Alerts.** The list of rules is replaced, and rules are deleted, while a tick is
  suspended in a notification; a hold outlives the time a rule is disabled; an alert is
  recorded and resolved by statements that fail, in a database that is away; a restart
  forgets what was firing; a `NULL` threshold raises out of the tick, every second, and so
  may a template, after the rule has begun to fire.
* **Partitions.** The emergency drop may take today's partition, after which the partition
  of the day cannot be created and maintenance and `reconnect()` raise until midnight; the
  day to drop is looked up in an earlier transaction than the drop; DEFAULT needs a
  retention of its own; a failing call skips the rest of a maintenance cycle.
* **Broker.** `kick()` finds a session whose next packet has been read already; a session's
  end may be noticed after a kick or a failed write; `stop()` awaits connections it has not
  closed yet.
* **Login.** Attempts that arrive together pass the limiter together; sweeps happen at
  logins only; an open `/ws` is never asked again.
* **ROS 2 source and recorder.** Two threads subscribe without a lock; QoS is chosen once,
  and by default if the graph cannot be asked; pruning happens at rotations only; a callback
  may come after `Recorder.stop()`.

## 2. The plan

In order of importance to the system's purpose (telemetry must not be lost, presence must
not lie, credentials must be revocable):

1. `TelemetryWriter`, implementing `RowArchive`. *Modelled, checked, proved.*
2. `CredentialRegistry`. *Modelled, checked, proved.*
3. `Presence`. *Modelled, checked, proved.*
4. `DashboardHub`, implementing `Roster`. *Modelled, checked, proved.*
5. `Uplink`: agent, connection, broker and router composed, implementing `ReliableRelay`.
   *Modelled, checked, proved.* Not done: `Uplink` over the writer's abstract `RowArchive`
   instead of its own `Archive` action.
6. `AlertEngine`: rules edited across the awaits of a tick, hold times, fire and resolve
   against a database that fails. *Modelled, checked, proved.* `Partitions`: ahead,
   retention, disk guard and the DEFAULT partition. *Modelled, checked, proved.*
7. `Broker` (subscriptions, retained messages, wills, kick, stop) and `Login` (limiter,
   sessions, gate). *Modelled, checked, proved.* `Recording` (ROS 2 discovery and the
   recorder). *Modelled, checked, proved.* `AgentFilter` (`offer`: deadband, rate limit,
   heartbeat), a function of the samples so far. *Modelled, checked, proved.*
8. Further theorems: the safety halves of `ImplementsArchive`, of `ImplementsRoster` and
   of `ImplementsRelay`. *Proved.*

Three abstract specifications are stated and implemented: `RowArchive` (one stream of rows:
archived once and for all, in order, none waiting for ever), `Roster` (a page shows some past
state of every robot, never goes back and catches up) and `ReliableRelay` (a sample is the
vehicle's until it is stored or counted; what is stored is in order; nothing is held for
ever).

The modules are written to be proved about: parameters are CONSTANTS with a named
assumption, one action stands for one stretch of code between awaits, invariants are
conjunctions of named parts, and no module with a theorem reaches a RECURSIVE operator.

## 3. The modules and the code

Each `X.tla` is the component, `MCX.tla` its small instances, `X_proofs.tla` its theorems.
An operator whose comment begins "Mutant of" is not part of the specification: it is a
plausible mistake in the operator that follows it, kept to show that a property would
notice. `PROJECT.json` maps every definition to the lines it stands for.

### TelemetryWriter, RowArchive

A row is its rank in its stream. `Record`, `RecordTopics` and `NoteEvent` are the
synchronous callbacks; a relayed batch is a sequence of topics, malformed items among them.
The flush task's `pc` is where it is suspended: asleep, reconnecting, in one of the five
awaited calls, in the last flush of `stop()`. `TakeBatch` is the stretch that empties the
deques; `CallReturns` commits the current call and goes to the next one that has anything to
send; `CallRaises` is the `except Exception`, with `Commits` deciding whether PostgreSQL has
the rows of a call that failed late; `Requeue` is the `extendleft`. `ready` and `cooling`
are the database's flag and backoff. `Stop` cancels the task wherever it is. Cancelling does
not reach the thread in which a statement runs (`asyncio.to_thread`): what that statement
sends is the `orphan`, which commits or fails at any later time (`OrphanCommits`,
`OrphanFails`): before, during or after the last flush, and beside the closing of the pool.
`RowArchive` knows such rows as `adrift`: shutdown may set the oldest waiting rows adrift,
once, and they alone may be archived late. Timestamps, skew arithmetic and the disk check
are left out: skew appears as the audit event it leaves.

### CredentialRegistry

A request is a script of awaited SQL statements (`Script`), each one atomic in
PostgreSQL; `Begin` accepts a request, one action per statement advances it, `Abandon` is
a statement that raises, `Finish` is what follows the last await (assign the cache, kick,
answer). Reading the table (`Fetch`, `TickerFetches`) and assigning the cache
(`Finish`, `TickerAssigns`) are separate steps, as the rows come back from a thread.
Secrets and tokens are named by the request that made them: they are random and fresh in
the code. `Connect` and `Disconnect` are what the broker does with the cache.

### Presence

One robot's record with the *age* of its last status (capped one past `StaleAfter`) and
whether its last will is newer (`gone`, with `tie` for equal clock readings), because
`evaluate()` only compares times. `SetLink`, `IngestStatus`, `Reap` are the server's three
writers; `Connect` to `Lose` are the agent and its network; `Expire` and `Kick` are the
broker's ends of a session. A session the vehicle gave up lives on in the broker until its
keepalive expires, and the broker has no takeover: both can exist at once.
`PresenceRequirements` keeps what is promised about the record and the trail apart from the
mechanism: it is all that the module about the alerts sees of it.

### DashboardHub, Roster

`clients[s]` is which of the two dicts that `join()` creates is in `hub.clients`, `seen`
their contents: `push()` works on the list of dicts it took when it started (`Listed`).
Messages are maps from robots to revisions, `wire` is the socket, `view` the browser.
`Roster` is what this is for, without maps, pushes and sockets: pages that open and close,
the revision each shows of a robot, and the revisions that are *due* to it. Under the
mapping a page is open between `join()` and the loss of its connection, and a revision is
due to it while it does not show it and the dict of its socket lacks it or a message on its
way brings it (`IsDue`). So a change has to be due at once to every open page, whatever the
hub is doing, and stays due until it is shown; what changed during `join()`, before the
page was open, need not be, and is what `missed` records.

### Uplink, ReliableRelay

The way of a sample: `Offer` (the end of `Bridge.offer`), `FlushTakes`, one
`PublishAccepted` or `PublishRefused` per topic the batch goes to, `FlushEnds` (which takes
the number back after a refusal), the MQTT client's queue of unacknowledged messages,
`Deliver` (the broker's PUBACK and the router, with no await between them), `Archive` (the
writer, abstracted to "everything recorded so far is in PostgreSQL"). `Break`,
`AgentRestarts` and `ServerRestarts` happen at any point; what was written to a socket the
agent has given up may still be read (`DeliverStray`).

The MQTT client (paho) is not in the repository. The model assumes what `bridge.py` uses:
accepted messages are kept until acknowledged and sent again, in order, on every
connection; a publish may be refused while the socket is gone, and the client may or may
not have queued what it refused.

`Route` forgets the oldest key of the window unconditionally, as ingest.py:147-149 does. The
window is one for all robots; what other robots do to it is `OthersRoute`, which takes the
oldest key out. `forgot` is history: a key has left the window under which a message may
still arrive (`Outstanding`). `EncodeFails` is the batch that leaves the deque and cannot be
encoded (bridge.py:259): it is gone, and `unsent`, which is history too, counts its samples,
as the code does not.

`ReliableRelay` is what this is for, without batches, numbers, copies and sockets: the set
of samples the vehicle holds, what it dropped, what the server stored and how much of it is
in PostgreSQL. A sample is held (`Held`) while it is in the deque, in the batch `_flush()`
is publishing, or in the MQTT client's queue; a batch stops being the agent's when its last
copy is accepted. So a sample may leave what is held only when the buffer is full, which is
counted, when the agent restarts, or when it is stored already; and the server may store of
the current run only what is held. Four excuses are part of it, and all are events of the
abstract specification too. Samples no message can be made of (`Discard`) are gone. A server
that has forgotten too early what it had (`forgot`) may store again what it stored before.
After a refused publish (`Refuse`) a number may stand for two batches, and a sample may be
let go that was taken for another: see `uplink_loss`. After a restart of the server
(`ServerDies`) the order of what is stored is no longer promised.

Which samples `Offer` gets is decided by `AgentFilter`: per topic, what `offer()` keeps
(`_last`, `_sent_at`) and the rows it relays, as a recursive function of the samples so far
(`Trace`). It has one caller and no await, so what is promised of it (`KeepsUp`) is a
formula about configurations and histories, and not about states; `Uplink` extends it and
states it as `FilterKeepsUp`. Both sets are constants: the runs take every history up to a
bound, the theorem any. `FilterAssumption` has the gap positive (`max_rate_hz` cannot make it
zero) and the first sample later than any gap, as Unix times are; after that the clock may
do what it likes.

### AlertEngine

One robot, any number of rules. `tick` is where `tick()` is suspended: in the refresh of the
rules, or at a rule in a notification (`fire`, `tell`) or a statement about its alert
(`insert`, `resolve`). `Aborts`, `Rises`, `MessageRaises`, `Continues` and `Falls` are the
branches of the loop for the rule it stands at (`pc = "rule"`); between two awaits nothing
else happens (`Suspended`). A broken rule has a `NULL` threshold (`Aborts`) or a template
that raises for some values (`MessageRaises`: `_message()` catches three exceptions, and a
`TypeError` or an `AttributeError` leaves `_fire()` after `firing_since` is set). What a
rule's subject shows is one of four readings, `band` being the stretch between threshold and
`clear_value`, so that hysteresis is in the model and arithmetic is not. Hold time, cooldown
and the age of the rules may be over at any moment. An administrator's request saves, reads
the rules and replaces the list, each of them with anything in between. Open rows of
`alerts` are numbered per rule. `excused`, `unrecorded` and `silenced` are history
variables: rows a fault left open, rules that fired without a row because it could not be
written, and those whose message raised.

### Partitions

Days are counted from today, and `Midnight` makes every one of them older. `daily` is which
days have a partition, `held` which days have rows; PostgreSQL refuses to create the
partition of a day that has rows in DEFAULT, so a day is never in both and `InDefault` is a
difference. Two tasks share the database: the flush task (reconnect, two copies) and the
maintenance task (create, expire, measure, look up the oldest day, drop it), each standing
at one awaited transaction; every transaction may raise before or after it commits. Days
older than `Horizon` are not told apart. Dates far in the past or future are clamped by the
writer (`_correct`), which is `Ages`. What `ensure_partitions` creates it creates in one
transaction (`Create`). `lapse` and `shed` are history: midnights since partitions were last
created, and days an emergency drop took.

### Broker

A session is a coroutine and `phase` where it is: `reading` is the stretch from a packet
being complete to its handler running, `ending` from the end of `_serve()` to the `finally`.
Handlers do not suspend, as no buffer is awaited, so each is one action; `kick()`, `stop()`
and the other sessions run in between. Topics and filters are sequences of levels, so
`TopicMatches` is the loop of `topic_matches()`. A message is its number. `Writes` lets any
recipient's transport raise. `told`, `fate` and `late` are history: the last message of a
topic written to a session, what ended it, and messages taken after its kick. With
`requireAuth` `TopicAllowed` confines a robot to its own branch and denies every subscription;
without it nothing is asked (`Authorized`), and who is behind a user name does not matter:
`CredentialRegistry` has the CONNECT against the cache.
`CloseWaits` is Python's `wait_closed()` from 3.12 on: with it `stop()` does not return while
a vehicle stays connected; without it, a connection still in its CONNECT is served after
`stop()`.

### Login

`attempts` counts the failures of a key that are younger than the window (`Forgets` is one
of them growing too old), a session is valid, overdue (`Expires`) or absent. `Arrives` is a
request up to its await, `Fails`, `Succeeds` and `Leaves` what comes after it, for logins
and enrollments, which share the limiter. `Asks` is the gate: a private path is not there
for the public listener, a guarded one asks `session_ok()`, which removes what is overdue.
The password is right or wrong; without a configured password, and for scripts that send it
with every request, no session is involved, and both are left out.

### Recording

`scan` and `at` are where each of the two threads is in `_discover()`: the names it has yet
to look at, and the topic whose QoS it has chosen and which it has not entered in `_subs`
yet. `GraphChanges` is the rest of the ROS graph. A query of the graph that raises is
answered with the default profile (`MatchQos` of no publisher, in `Looks`). `seen` is
history: what the publishers offered that were seen for each subscription. `Writes` and
`Rotates` are a sample in the thread that spins, pruning included; `WriteFails` is the
`OSError` after which recording is over. `Quits`, `SpinEnds` and `Joined` are the order of
`run()`'s end, the three seconds of the join included; `Dies` is any end of the process.
File sizes are lines, names are in the order in which files are opened, which takes the
vehicle's clock never to go back; the optional thinning (`rate_hz`) is a sample that does
not come. `found` is history: what the agent found in the directory when it was started.
`Connects` is ROS 2's rule of which publisher a subscription hears. `RecordingRequirements`
keeps the state and what is promised of it apart from the steps, so that the theorems can
speak of it.

## 4. The runs

TLC, two workers; the model bounds are named in each module. Deadlock is checked in
`login_sessions` and `recording`, where something can always happen. In the others
`CHECK_DEADLOCK FALSE`: the bounds stop every behaviour, and so do the writer's shutdown and
a registry with no requests left.

| Run | Bounds | Shows |
|---|---|---|
| `writer_relay` | 1 robot, 2 states, 2 topics, deques of 2, up to 3 relayed rows in batches of 2 with a malformed item, 1 failed flush | `ArrivalOrder`: what the flush holds followed by what the deque holds is in order of arrival; `CatalogComplete`: the catalogue in memory, in flight and in the table adds up; `LeavesOnlyStored`: a row leaves memory only into PostgreSQL, from a full deque, or at shutdown |
| `writer_archive` | 3 status rows, 2 events, faults, 2 failed flushes, deques of 2, with fairness | `CopiesExplained`: a row is stored at most once per failed flush, plus one; `DropsCounted`; `KeepsReconnecting`; `ImplementsArchive`: the writer refines `RowArchive` on all three streams, liveness and the statement that shutdown leaves to its thread included |
| `registry_handlers` | 1 robot, 2 overlapping requests of any kind, tokens and credentials of an earlier run | `RevokeTakesEffect`, `EnrolledCanConnect` at the moment of the answer; `CacheCatchesUp` |
| `presence_levels` | 3 connections, one half-open while another is up; thresholds 1 and 3 | `PresenceJustified`, `TrailAgrees`; `SilenceShows`, `ReportingRecovers` |
| `hub_changes` | 1 robot with 2 changes, 2 sockets | `BelievedWasSent`; `ImplementsRoster`: the hub refines `Roster`, liveness included: no page goes back, a change is due to every open page at once, and what is due is shown or the connection is lost |
| `uplink_delivery` | 3 samples, deque and batch of 2, 2 copies, a window of 2 keys, 2 faults of any kind; histories of up to 4 samples, the clock set back in some, under 16 configurations | `FilterKeepsUp`: what was skipped never adds up to a drift beyond the deadband or to silence beyond the heartbeat; `RecordedOnceInOrder`: nothing is recorded twice or out of order, but for copies once the window has lost a key too early; `LossCounted`; `ImplementsRelay`: the uplink refines `ReliableRelay`, liveness included: what leaves the vehicle is stored or counted, and nothing is held for ever |
| `alert_rules` | 1 rule, 2 edits, 2 outages, failed statements or restarts | `HistoryAgrees`: an alert is open in the table exactly while its rule fires, at every await, except for rows a fault explains and rules whose message raised; `BadFires`, `GoodResolves` |
| `partitions` | retention 1 day, 2 days ahead, rows up to 1 day old or 1 day ahead, 2 days told apart beyond | `DefaultHasCause`: rows of today or later are in DEFAULT only after a neglect longer than `Ahead` or an emergency drop; `AheadStays`; `KeptUntilExpiry`: rows go expired, or as the oldest day under a full disk; `ComesBack`: the database is found again and again; `Swept`: nothing stays beyond its retention, DEFAULT included |
| `broker_sessions` | 3 connections of a robot (symmetric), with the ACL and without, 1 topic, 1 filter with a wildcard, 2 messages | `MatchesConform`: `topic_matches()` is MQTT's matching, on every filter and topic of up to three levels; `RetainedReaches`; `WillMeansLost`: a will is published exactly when a connection was lost; `KickSilences` |
| `login_sessions` | 2 clients, 3 overlapping requests, 2 sessions, limit 2 | `LimiterHolds`: overlapping attempts exceed the limit by no more than there are of them; `EndedStaysOut`; `LockoutEnds`: refused attempts do not prolong a lockout |
| `recording` | 1 topic, publishers of 3 kinds, 3 files of 2 lines, room for 2 | `TypeOK` with its bound of two subscriptions per topic, which does not exclude the second; `PublishersHeard`: a publisher that offers no less than one that was seen is heard, a later one included; `DiskBounded`: one run of the agent takes the directory past the cap, or past what it found, by one file that is not full, and by two after `stop()`; `Discovered` |
| `uplink_loss` | deque and batch of 3, 2 faults | see [section 7](#7-what-the-checks-found) |

A module's `TypeOK` and `IInv` are not repeated in its run where they are theorems;
they were checked with TLC on these instances before they were proved.

Why the bounds are enough. *Writer:* three rows against a deque of two is the smallest
outage that overflows; two failures let a row be requeued, flushed again and requeued again;
two topics and batches of two let two batches meet in the catalogue. For the properties that
are proved the bound does not matter. *Registry:* every stated hazard is a race of two
handlers, or of one and the ticker, which is always there; the theorems hold for any number
of requests and robots. *Presence:* three connections let a late will of the first and of
the second meet the third; the theorems hold for any number. *Hub:* sockets interact only
through the ticker's loop, so two show whatever one can do to another; robots interact only
by sharing a message, and two revisions are enough for a change before, during and after a
join. *Uplink:* two faults combine a refusal with a break or a restart, three samples
overflow the deque and give the second batch other contents than the first. A window of two
loses a key that may still arrive by this robot's own batches and by others'. For the safety
properties the theorems hold for any. *Alerts:* rules meet only in
the loop of a tick; two edits let one read the rules before and assign them after the other,
two faults let a row be left open and another one not be written. All properties also hold
with two rules and one edit (96 thousand states), `HistoryAgrees` with a fault as well (1.2
million), and as a theorem for any number. *Partitions:* a day is within its retention,
expired, today, ahead or beyond what is created, and the bounds give each kind a day; the
theorems hold for any. *Broker:* sessions meet through the list, the retained messages and
the user they are kicked by; of three, one may be kicked, one reading a will and one
connecting again, and two messages let a will replace a message. Sessions of other users
only lack the kick. *Login:* keys meet in nothing, requests of one key only in its count.
For both the theorems hold for any number. *Recording:* topics meet in nothing but the scan,
which looks at them one by one; two lines per file and room for two make a rotation delete
none, one or two files; three leave room for what two earlier runs of the agent left.

## 5. Fairness

Only what the event loop, the ticker and the network give:

* *Writer.* The loop sleeps one second and flushes again (weak fairness of starting and of
  the backoff ending). An outage ends: a reconnect or call tried again and again succeeds
  (strong fairness). Nothing is assumed about arrivals, failures or `stop()`.
* *Registry.* The ticker refreshes when the cache is older than its time to live; a
  refresh tried again and again succeeds. No handler is assumed to finish.
* *Presence.* Clock, ticker, keepalive timeout; a connected agent with mapped fields
  publishes a status at `publish_hz`. No connection is assumed to be made or to last.
* *Hub.* The ticker continues, every send ends (uvicorn closes a peer that does not
  answer pings), the browser applies what it receives.
* *Uplink.* `run()` ticks; the client reconnects; connections last, again and again,
  long enough for a message to get through and be acknowledged (strong fairness); an
  abandoned socket is closed in the end. Faults are finitely many in the model, so
  "again and again" is about what happens after the last.

* *Alerts.* The ticker ticks and what it awaits comes to an end (a notification by its
  timeout); rules age, a hold is over in the end, and an outage ends (strong fairness,
  since edits, resolutions and outages may come in between). Nothing is assumed about
  reports, edits, failures or restarts. `BadFires` and `GoodResolves` leave out the times
  when a broken rule is stored (`Sound`): it ends every tick before the rules after it.
* *Partitions.* Both loops go on and days pass (weak); a reconnect, a cycle's start, the
  creation and the retention succeed if they are possible again and again (strong: every
  one of them may raise, and a restart may interrupt it). Nothing is assumed about rows,
  the disk or restarts.
* *Broker.* None: its properties are about safety.
* *Login.* The window passes. *Recording.* The spinning thread scans and looks; a subscription
  tried again and again succeeds (strong: failing is an action of its own).

## 6. The proofs

`tlapm` checks every proof to the last leaf, from the constants' named assumptions only.

*TelemetryWriter_proofs.* Bounds of deques, numbers of rows, batches and failures are
arbitrary. `ArrivalOrder` is not inductive alone: a requeue is in order only because the
batch holds exactly the rows before the deque's, and copies are bounded only because a row
still in memory has not been sent by the flush under way. `IInv` therefore ties together
where the flush stands (`FlightInv`), what it and the deque hold (`QueueInv`), copies in
PostgreSQL (`CopiesInv`), the statement of a cancelled task (`OrphanInv`), the catalogue
(`CatalogInv`) and whether there is work (`WorkInv`). One lemma per part shows that a step
keeps it; lemmas on `KeepLast`, `KeepFirst` and concatenation carry the data. From it follow
`TypeCorrect`, `RetryKeepsOrder`, `CopiesBounded`, `NeverStopsReconnecting`,
`NothingLeftBehind` and the action property `ForgetsOnlyStored`. For `LossIsCounted`
(`DropsCounted`) an append adds to the lost rows at most the left end the deque discards,
which is what `Evicted` counts, and a flush that ends has sent every batch it took
(`LastCallPassed`). For `CatalogAddsUp` (`CatalogComplete`) the samples of a catalogue are a
set of pairs of a topic and a number, `Units`, so that sums are cardinalities: a catalogue
that grows by another is in one-to-one correspondence with the two (`TotalAdds`), and the
well-formed items of a batch with the units it adds (`BatchCounted`). `ArchivesInOrder` is
the safety half of `ImplementsArchive`, step by step: a step stores the whole batch of a
stream or nothing of it and holds no row but those held before and those it accepts, which
`ArchiveRule` shows to be a step of `RowArchive`; what is stored comes before what waits
because the batch comes before the deque. The statement a cancelled task leaves to its
thread is `OrphanInv`: its rows are older than all that wait and are in no batch again, so
that whenever it commits, the last flush under way or done, only they are late. After the
last flush the mapping empties `waiting`, so the proof needs that nothing is accepted from
then on (`WindsUp`).

*CredentialRegistry_proofs.* For any number of robots and requests. The argument is that a
secret that has left the `robots` table never returns: only the enrollment that made it
writes it, once (`FreshInv`). So what a revoke reads after its UPDATE cannot contain the
credential it killed (`KilledInv`), whatever enrollments and refreshes ran in between, and
what an enrollment reads after its UPDATE shows its own secret or one that replaced it
(`EnrollInv`). `Sound` is proved per action. `AnsweredRevokes` and `AnsweredEnrollments`
follow at the answering step.

*AlertEngine_proofs.* For any number of rules, requests and faults. `HistoryAgrees` is
inductive only with `AwaitInv`: what a tick awaits tells what it has done, so a rule about
to be recorded is firing without a row and one about to be resolved has a row. A rule whose
message raised fires without a row too, and is in `silenced` until it resolves or the server
restarts; no other rule is. A step of the tick touches the rule it stands at and no other
(`OnlyHere`), so each branch of the loop and each answer is followed for that rule alone
(`Holds`). `TypeCorrect` follows from the same invariant: without it a resolution that fails
could leave a row without a number.

*AlertEngine_proofs* has the theorems about `Presence` as well, for any thresholds and
connections. `TrailAgrees` holds only because the ticker is never what brings a robot
online (`OKIsPrompt`): the signals turn OK only in `set_link` and `update`, which evaluate
at once; with it, `reap`'s unconditional "offline" is right.

*Partitions_proofs.* For any retention, number of days ahead, age of rows and horizon. What
stands in DEFAULT is explained by the days that have a partition (`Covered`): from today up
to `Ahead - lapse` every one of them, unless a drop took it. That a drop still takes the
oldest day, in a later transaction than the one that found it, holds because nothing older
can appear meanwhile: creation starts at today, and midnight makes the victim older together
with all others (`VictimOldest`). `FutureSafe` rests on the order of the cycle: after its
first call there is no gap between today and a later partition (`Gapless`), so the oldest
partition is never one that is ahead.

*DashboardHub_proofs.* For any number of robots, sockets and changes. `BelievedWasSent`
needs the two moments before a map is written: the snapshot of a socket that joins brings
every robot that did not change meanwhile to the present (`SnapshotSent`), and the push
whose `send()` has not returned is on its way (`PushIsSent`). Both survive a delivery only
because nothing on a socket ever takes a robot back (`InOrder`); from that
`PagesGoForward` follows as well. `PagesAreKept` is the safety half of `ImplementsRoster`,
step by step. It needs one more invariant, that no dict and no message knows of a revision
the robot has not had (`Known`): otherwise a change could be in a dict before it happens and
would never be due. That a due revision is not forgotten is `DueStaysDue`: a dict that
learns of a revision was sent it (`LearntWasSent`), and what was sent stays on its way until
it is shown (`SentStaysSent`), whichever of the two dicts, sockets or tasks made the step.
Why it is shown in the end is proved as far as steps go (`NothingIsForgotten`): a page that is
connected stays in `hub.clients`, and what is due to it is on its way or in the difference
that the next `push()` computes. What remains for TLC is that pushes and deliveries happen.

*Broker_proofs.* For any number of connections, users, topics and messages, and in these
theorems whatever `topic_matches()` answers. `SessionInv` ties what a session is to where
its coroutine is: alive exactly as long as nothing has ended it, and without will or
subscription while it is not served. With it a will is published exactly when a connection
was lost (`WillsMeanLoss`), a kicked session is heard once more at most, since its handler
finds it dead (`KickInv`), and a session begins with no subscription that could want what is
retained already (`RetainedReachesAll`). `MatchesAsSpecified` is about the matching itself:
for a filter and a topic of any length the loop of `topic_matches()`, which stops at the
first level that decides, answers as MQTT 3.1.1 does, provided that no topic has a level
called `#`. The broker does not refuse such a topic; MQTT forbids it to clients.

*Login_proofs.* For any number of keys, requests and sessions, and any limit. An attempt
that was let in counts from then on as if it had failed (`LimiterInv`); what `session_ok()`
finds valid has not ended (`ValidInv`).

*Uplink_proofs.* For any bound of deque, queue, batch and window, and any number of copies,
samples and faults. Neither property is inductive: what arrives at the router was sent by
some earlier state of the agent. The argument is that the numbers of a run of the agent
order its batches (`OrderInv`): of two on the way the one with the lower number has the
older samples, and they are handed to the router in that order whichever socket each of them
takes (`HandedInv`). So a batch that was never let through is behind everything that is
recorded (`FreshInv`). As long as `forgot` is false the window knows every number that was
let through and may still arrive (`WindowInv`), so what passes it is new; once it is true,
what passes again is recorded already (`AgainRecorded`), unless its number had stood for a
refused batch: those are the excuses of `RecordedOnceInOrder`, and of the abstract relay. A
refused batch is special: the window may know its number while its samples are back in the
deque. They are then among the first `MaxBatch`, so that they leave under that number again
and are taken for a redelivery, which loses them and records nothing twice. Without a
refusal a number stands for one batch, and one that was let through for a batch that was
recorded (`SameKeyInv`); then what is lost is what was counted, or was in a batch that could
not be encoded (`LossInv`). From the same invariant every step is one of `ReliableRelay` or
a stutter (`UplinkRelaysReliably`, the safety half of `ImplementsRelay`). Two steps need it:
an acknowledgement lets go of a batch because what is acknowledged was handed over under a
number that stands for it (`AcknowledgedLetsGo`), and a message from an abandoned socket
stores nothing the agent has let go of, because either the client still has it or the window
knows it (`RouterStores`).

*Uplink_proofs* has the theorems about `Recording` as well, for any topics, publishers and
limits. Two threads may have the same topic in hand only while it has no subscription, so
there are never more than two (`SubsInv`); every set of publishers that was seen for a
subscription has one with a QoS that fits it, the default after a query that failed included
(`QosInv`). A publisher that offers no less than one of those is heard by it, whenever it came.
For the disk the invariant counts the open file apart: what is in the directory without it is
within `MaxSize`, or what was found, and the short files this run has closed, one when it
stopped and one by an error (`FilesInv`). Lines are pairs of a file
and a number, as the units above, and the loop of `_prune()` stops because an empty
directory fits (`PrunedFits`).

*Uplink_proofs* proves `FilterKeepsUp` too, for any configurations and any histories. That
the recursive function is what its equation says is itself proved: functions that obey it
on an initial stretch exist, since the shortest stretch without one could be extended
(`TraceExists`), so `Trace` obeys it (`TraceSteps`). After every sample, by the first after
which it is not so (`TraceAgrees`), what `offer()` remembers of the topic is the last row it
relayed (`RelayRemembers`, `OfferRemembers`): the sample at hand is compared with that row
and never with something skipped. From that `FilterIsSound` follows.

Only model-checked: all liveness, which is out of the prover's reach, with the liveness
halves of `ImplementsArchive`, `ImplementsRoster` and `ImplementsRelay`. Every other
property of the passing runs is a theorem. The induction theorems of the library take
operators as parameters, which the provers cannot instantiate; where a proof needs an
induction it takes the least counterexample instead (`Smallest`).

## 7. What the checks found

`uplink_loss` states what a document in the repository says, and ends with a counterexample
to it: `src/agent/README.md:313` says that a full buffer drops the oldest, counts it, and
never loses data silently. When the first copy of a batch is accepted and the second
refused, the number is used again (bridge.py:267) for a batch that also holds newer
samples; the router takes it for a redelivery. The counterexample needs no restart of the
server and no batch that could not be encoded, which the property excuses.


Modelled, with no run of its own:

* "the oldest samples are dropped and counted, never silently lost" (history.py:6-7):
  putting a failed batch back with `extendleft` into a deque that filled meanwhile discards
  the newest rows and counts none (history.py:290-292); `DropsCounted` holds until a flush
  fails.
* "refresh before kicking, so a racing reconnect cannot slip back in on the stale cache
  entry" (main.py:1163-1164): a refresh the ticker began before the revocation is assigned
  after it, and the revoked robot reconnects until the next refresh (`CacheCatchesUp`).
* "the broker watched the connection die" (state.py:161-163): the keepalive of an abandoned
  connection expires after the vehicle is back and turns the live robot offline; the next
  status corrects it (`ReportingRecovers`).
* "the condition must hold this long before firing" (schema.sql:144-145): nothing clears
  `pending_since` while a rule is disabled: enabled again later, it fires on its first bad
  sample, because the hold counts from before the pause (alerts.py:200-202).
* An emergency drop that takes today's partition, followed by a flush that fails: the rows
  of the day are in DEFAULT, `reconnect()` creates partitions (db.py:112-114) and cannot
  succeed before midnight UTC, and nothing is archived until then; `ComesBack` says that it
  ends. An emergency drop whose DROP commits and whose call raises leaves no event, although
  db.py:251-252 says that "the loss is never silent".
* `stop()` of the broker awaits `wait_closed()` before it closes the sessions
  (broker.py:150-158). From Python 3.12 on that waits for them, and the rest of the
  shutdown, the writer's last flush included, waits with it.
* Retention never drops what falls into the DEFAULT partition, which lives for ever,
  according to README.md:252-254, schema.sql:79-82 and history.py:210-216.
  `drop_expired_partitions()` does sweep it, with the cut-off of the daily partitions
  (db.py:284-291). `Swept` states what the code does: rows in DEFAULT go once they are older
  than the retention. What the three texts are afraid of remains only for rows dated ahead,
  and then until that date is past.
* The window of batch keys is "far more than enough" (ingest.py:52-55) at 4096 keys. It is one
  window for all robots: fifty of them at 1 Hz fill it in 82 seconds, and a batch that was
  handled but not acknowledged before a longer outage is recorded again after it (`forgot`).
* "keeping data buffered" (bridge.py:305-308): a batch that cannot be encoded (bridge.py:259,
  half a surrogate in a string) has left the deque by then; its samples are gone and are
  counted nowhere (`EncodeFails`, `unsent`).
* "A bad placeholder must not silence the alert" (alerts.py:160): a template that raises a
  `TypeError` or an `AttributeError`, such as `{value:.1f}` of a value that is none, is not
  caught (alerts.py:158). The rule fires, with no row, no event and no notification, and the
  rest of the turn of the ticker is skipped, as in every later turn in which the rule is to be
  told again (`MessageRaises`, `silenced`).
* "Disk is bounded two ways", one of them `max_gb` (recorder.py:23-26,
  src/agent/README.md:124 and 141-142). Files are pruned at a rotation only, and every start
  of the agent opens a new one: an agent that is restarted before its file is full, again
  and again, fills the disk without a limit. `DiskBounded` is therefore about one run of the
  agent and what it found.
* A robot that is kicked may have one more message taken, the one that had been read
  (`KickSilences`).
* A topic that a listener alone made visible is subscribed to as RELIABLE, and a
  BEST_EFFORT publisher that joins later is not heard, the very failure that ros2.py:7-9
  is about. So is a topic whose publishers could not be listed (ros2.py:262-265), although
  they are there, and it is never subscribed to again. `PublishersHeard` is about publishers
  that offer no less than one that was seen. Durability is
  the first publisher's alone (ros2.py:268-275), so a subscription that asks for it does not
  hear a volatile one.
* A topic the two discovering threads see at once is subscribed to twice, and each of its
  samples is recorded and offered twice.
* A heartbeat is to resend "the identical value" (bridge.py:198); it sends the new one,
  which may differ by the deadband, and the next is compared with it: a value that drifts
  slowly enough is archived in full, with no row that is flagged as a change.
* Further: `stop()` cancels a flush where it is suspended (history.py:377), `except
  Exception` does not catch the cancellation, and what the flush had taken is gone,
  although history.py:383 says "do not throw away a final second"; a robot that changes
  while `join()` sends the snapshot is taken for known, although main.py:323-324 says that
  "a client's rev map can only drift if a send fails" (`BelievedWasSent` shows that this is
  the only gap); two enrollments may use one token; two reissues may leave two open tokens
  (registry.py:103 says otherwise); an enrollment under way when its robot is revoked
  stores its credential afterwards; a call that fails after committing is repeated, so rows
  may be stored twice (bounded by `CopiesExplained`); a rule with a `NULL` threshold, which
  the handlers accept, stops alerts, pushes and the credential refresh (`Aborts`); an alert
  that is resolved while PostgreSQL is away stays open in the history for ever (`excused`);
  a robot whose source died goes on reading as OK; README.md:278 says a server restart
  loses nothing, and the samples acknowledged but not yet flushed are lost (the term
  `crashed` in `LossCounted`).

## 8. What is not modelled

* The include and exclude lists of the agent and its limit on a payload; values that are no
  numbers (`_same()` compares them for equality).
* Time as such: clocks that step backwards, skew correction, NaN timestamps; hold and expiry
  times are "may elapse" actions.
* The external-broker mode (`MqttIngest`): it subscribes to status and last will only
  (ingest.py:221), so the relay path of `Uplink` is the embedded broker's.
* Rows PostgreSQL refuses for ever, and sends that never end: outside the fairness assumed.
* A vehicle's clock that goes back, after which the recorder prunes its newest files first,
  and files that cannot be deleted; `flatten()`; samples `bridge.py:150` skips before the
  recorder sees them, although recorder.py:11-12 calls it everything the source produced.
* The fail-closed start of the server, the egress meter, the channels of a notification.
* Interactive tools, simulators, page rendering, web push, backup: no state the rest depends
  on, or glue to third parties.
