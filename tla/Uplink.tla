-------------------------------- MODULE Uplink --------------------------------
(***************************************************************************)
(* The way of a relayed sample from the vehicle to the archival layer:     *)
(* agent/itri_agent/bridge.py buffers, batches and publishes, the broker   *)
(* (server/broker.py) acknowledges and hands over, and the router          *)
(* (server/ingest.py) drops what it has had before.  Connections break,    *)
(* QoS 1 sends again what was not acknowledged, and either end may be      *)
(* restarted.                                                              *)
(*                                                                         *)
(* One robot: another robot's batches have other keys, and all they do to  *)
(* this one's is push them out of the window, which all share.  A sample   *)
(* is named by its rank among those that passed AgentFilter.  Three threads*)
(* of the agent interleave: the source, the tick of run(), and the MQTT    *)
(* client, which is external and modelled as the code uses it: it keeps a  *)
(* message it accepted until the broker acknowledged it, sends it again on *)
(* every connection, in order; it may refuse a message while the socket is *)
(* gone, and may have queued that message all the same.                    *)
(***************************************************************************)
EXTENDS Naturals, Sequences, FiniteSets, AgentFilter

CONSTANTS
  BufferMax,     \* buffer_max
  MaxBatch,      \* max_batch
  Copies,        \* topics a batch is published to: 2 with legacy_raw_topic
  DedupWindow,   \* dedup_window
  MaxOffered,    \* samples of a behaviour                          (model bound)
  MaxFaults      \* connections lost, publishes refused, batches that cannot be encoded,
                 \* keys pushed out by other robots' batches, restarts of the agent or
                 \* the server, together                            (model bound)

ASSUME UplinkAssumption ==
  /\ {BufferMax, MaxBatch, Copies, DedupWindow} \subseteq Nat \ {0}
  /\ {MaxOffered, MaxFaults} \subseteq Nat

VARIABLES
  offered,    \* samples that passed the filter so far
  origin,     \* those an earlier run of the agent was offered
  buffer,     \* the agent's deque
  dropped,    \* dropped_buffer, of this run
  unsent,     \* samples of batches that could not be encoded, of this run (history)
  boot,       \* boot_id
  seq,        \* the agent's counter of batches
  flight,     \* _flush(): [rows, left, ok], see Idle
  link,       \* "up"; "broken": uplink_up still says so; "down"
  client,     \* Seq(envelope): the MQTT client's unacknowledged messages
  handled,    \* how many of them the broker has had on this connection
  stray,      \* Seq(envelope): written to a socket the agent has given up
  recent,     \* Seq(key): TelemetryRouter._recent
  routed,     \* keys the server has let through since it started (history)
  forgot,     \* one has left the window that may still arrive (history)
  recorded,   \* Seq(<<boot, sample>>): handed to on_raw and not lost since
  archived,   \* how many of them are in PostgreSQL, not only in memory
  crashed,    \* samples the server held in memory when it died (history)
  refused,    \* a publish has been refused (history)
  restarted,  \* the server has been restarted (history)
  faults

agent  == <<offered, origin, buffer, dropped, unsent, boot, seq, flight>>
net    == <<link, client, handled, stray>>
server == <<recent, routed, forgot, recorded, archived, crashed>>
past   == <<refused, restarted, faults>>
vars   == <<agent, net, server, past>>

\* rows left the buffer; left copies are still to be published; ok: none refused.
Idle == [rows |-> <<>>, left |-> 0, ok |-> TRUE]

\* Something goes wrong that may go wrong only so often.
Fault == faults < MaxFaults /\ faults' = faults + 1

Image(q)  == {q[i] : i \in 1..Len(q)}
Key(m)    == <<m.boot, m.seq>>
Keys(q)   == {Key(q[i]) : i \in 1..Len(q)}
RowsOf(q) == UNION {Image(q[i].rows) : i \in 1..Len(q)}

KeepFirst(q, n) == IF Len(q) <= n THEN q ELSE SubSeq(q, 1, n)
KeepLast(q, n)  == IF Len(q) <= n THEN q ELSE SubSeq(q, Len(q) - n + 1, Len(q))

-----------------------------------------------------------------------------
(* The agent *)

\* The end of offer(): a full deque discards its oldest sample, counted.
Offer ==
  /\ offered < MaxOffered
  /\ offered' = offered + 1
  /\ dropped' = IF Len(buffer) = BufferMax THEN dropped + 1 ELSE dropped
  /\ buffer' = KeepLast(Append(buffer, offered + 1), BufferMax)
  /\ UNCHANGED <<origin, unsent, boot, seq, flight, net, server, past>>

\* What _flush() pops, and what it leaves.
Batch     == KeepFirst(buffer, MaxBatch)
Remaining == SubSeq(buffer, MaxBatch + 1, Len(buffer))

\* Mutant of FlushTakes: the tick waits for a full batch.
FlushTakesFull ==
  /\ flight = Idle
  /\ link # "down"
  /\ Len(buffer) >= MaxBatch
  /\ flight' = [rows |-> Batch, left |-> Copies, ok |-> TRUE]
  /\ buffer' = Remaining
  /\ seq' = seq + 1
  /\ UNCHANGED <<offered, origin, dropped, unsent, boot, net, server, past>>

\* _flush() up to its first publish().
FlushTakes ==
  /\ flight = Idle
  /\ link # "down"
  /\ buffer # <<>>
  /\ flight' = [rows |-> Batch, left |-> Copies, ok |-> TRUE]
  /\ buffer' = Remaining
  /\ seq' = seq + 1
  /\ UNCHANGED <<offered, origin, dropped, unsent, boot, net, server, past>>

\* A batch that has no encoding, as with half a surrogate in a value: the exception
\* leaves _flush(), and run() logs "keeping data buffered" of samples that are gone.
EncodeFails ==
  /\ flight = Idle
  /\ link # "down"
  /\ buffer # <<>>
  /\ Fault
  /\ buffer' = Remaining
  /\ unsent' = unsent + Len(Batch)
  /\ seq' = seq + 1
  /\ UNCHANGED <<offered, origin, dropped, boot, flight, net, server, refused, restarted>>

Envelope == [boot |-> boot, seq |-> seq, rows |-> flight.rows]

PublishAccepted ==
  /\ flight.left > 0
  /\ client' = Append(client, Envelope)
  /\ flight' = [flight EXCEPT !.left = @ - 1]
  /\ UNCHANGED <<offered, origin, buffer, dropped, unsent, boot, seq, link, handled,
                 stray, server, past>>

PublishRefused ==
  /\ flight.left > 0
  /\ link # "up"
  /\ Fault
  /\ client' \in {client, Append(client, Envelope)}
  /\ flight' = [flight EXCEPT !.left = @ - 1, !.ok = FALSE]
  /\ refused' = TRUE
  /\ UNCHANGED <<offered, origin, buffer, dropped, unsent, boot, seq, link, handled,
                 stray, server, restarted>>

\* Mutant of FlushEnds: the next batch gets a number of its own.
FlushEndsNextSeq ==
  /\ flight # Idle
  /\ flight.left = 0
  /\ flight' = Idle
  /\ buffer' = IF flight.ok THEN buffer ELSE KeepFirst(flight.rows \o buffer, BufferMax)
  /\ UNCHANGED <<offered, origin, dropped, unsent, boot, seq, net, server, past>>

\* The rest of _flush(): if any copy was refused the number is used again and
\* the samples go back to the left end of the deque.
FlushEnds ==
  /\ flight # Idle
  /\ flight.left = 0
  /\ flight' = Idle
  /\ IF flight.ok
       THEN UNCHANGED <<buffer, seq>>
       ELSE /\ seq' = seq - 1
            /\ buffer' = KeepFirst(flight.rows \o buffer, BufferMax)
  /\ UNCHANGED <<offered, origin, dropped, unsent, boot, net, server, past>>

\* What the agent has written and the broker has not read may still be in the
\* socket.
Written == {SubSeq(client, handled + 1, j) : j \in handled..Len(client)}

\* Mutant of AgentRestarts: the numbers begin again under the same boot id.
AgentRestartsSameBoot ==
  /\ Fault
  /\ UNCHANGED boot
  /\ seq' = 0
  /\ origin' = offered
  /\ buffer' = <<>>
  /\ dropped' = 0
  /\ unsent' = 0
  /\ flight' = Idle
  /\ stray' \in IF link = "up" THEN Written ELSE {stray}
  /\ link' = "down"
  /\ client' = <<>>
  /\ handled' = 0
  /\ UNCHANGED <<offered, server, refused, restarted>>

\* The agent dies or is stopped, and is started again: everything it holds is
\* in memory.
AgentRestarts ==
  /\ Fault
  /\ boot' = boot + 1
  /\ seq' = 0
  /\ origin' = offered
  /\ buffer' = <<>>
  /\ dropped' = 0
  /\ unsent' = 0
  /\ flight' = Idle
  /\ stray' \in IF link = "up" THEN Written ELSE {stray}
  /\ link' = "down"
  /\ client' = <<>>
  /\ handled' = 0
  /\ UNCHANGED <<offered, server, refused, restarted>>

-----------------------------------------------------------------------------
(* The connection *)

Break ==
  /\ link = "up"
  /\ Fault
  /\ link' = "broken"
  /\ stray' \in Written
  /\ handled' = 0
  /\ UNCHANGED <<agent, client, server, refused, restarted>>

\* _on_up_disconnect()
BreakNoticed ==
  /\ link = "broken"
  /\ link' = "down"
  /\ UNCHANGED <<agent, client, handled, stray, server, past>>

\* _on_up_connect(): the client sends everything unacknowledged again.
Connect ==
  /\ link = "down"
  /\ link' = "up"
  /\ UNCHANGED <<agent, client, handled, stray, server, past>>

Acknowledged ==
  /\ link = "up"
  /\ handled > 0
  /\ client' = Tail(client)
  /\ handled' = handled - 1
  /\ UNCHANGED <<agent, link, stray, server, past>>

StrayLost ==
  /\ stray # <<>>
  /\ stray' = <<>>
  /\ UNCHANGED <<agent, link, client, handled, server, past>>

-----------------------------------------------------------------------------
(* The server *)

Remember(key) == KeepLast(Append(recent, key), DedupWindow)

\* The number the batch in flight has, or the next batch will have.
Latest == IF flight = Idle THEN seq + 1 ELSE seq

\* Keys a message may still arrive under.
Outstanding == Keys(client) \cup Keys(stray) \cup {<<boot, Latest>>}

\* The window loses keys from its left end.
Evicts ==
  forgot' = (forgot \/ \E k \in Image(recent) \cap Outstanding : k \notin Image(recent'))

\* _apply_samples(): a key is remembered, and the oldest forgotten, before the samples
\* are handed on.
Route(m) ==
  IF Key(m) \in Image(recent)
  THEN UNCHANGED server
  ELSE /\ recent' = Remember(Key(m))
       /\ routed' = routed \cup {Key(m)}
       /\ Evicts
       /\ recorded' = recorded \o [i \in 1..Len(m.rows) |-> <<m.boot, m.rows[i]>>]
       /\ UNCHANGED <<archived, crashed>>

\* The same for a batch of another robot: with enough of them in the window the oldest
\* key is one of this robot's.
OthersRoute ==
  /\ recent # <<>>
  /\ Fault
  /\ recent' = Tail(recent)
  /\ Evicts
  /\ UNCHANGED <<agent, net, routed, recorded, archived, crashed, refused, restarted>>

\* _on_publish(): the acknowledgement is on its way before the router runs; no
\* await separates them.
Deliver ==
  /\ link = "up"
  /\ handled < Len(client)
  /\ handled' = handled + 1
  /\ Route(client[handled + 1])
  /\ UNCHANGED <<agent, link, client, stray, past>>

\* The broker reads on from a socket whose other end has moved on.
DeliverStray ==
  /\ stray # <<>>
  /\ Route(Head(stray))
  /\ stray' = Tail(stray)
  /\ UNCHANGED <<agent, link, client, handled, past>>

\* The writer flushes what it holds: TelemetryWriter has the details.
Archive ==
  /\ archived < Len(recorded)
  /\ archived' = Len(recorded)
  /\ UNCHANGED <<agent, net, recent, routed, forgot, recorded, crashed, past>>

\* The server dies and is started again: the window is in memory, and so is what
\* has been acknowledged but not archived.
ServerRestarts ==
  /\ Fault
  /\ restarted' = TRUE
  /\ recent' = <<>>
  /\ routed' = {}
  /\ recorded' = KeepFirst(recorded, archived)
  /\ crashed' = crashed + Len(recorded) - archived
  /\ link' = IF link = "up" THEN "broken" ELSE link
  /\ handled' = 0
  /\ stray' = <<>>
  /\ UNCHANGED <<agent, client, forgot, archived, refused>>

-----------------------------------------------------------------------------
Init ==
  /\ offered = 0
  /\ origin = 0
  /\ buffer = <<>>
  /\ dropped = 0
  /\ unsent = 0
  /\ boot = 1
  /\ seq = 0
  /\ flight = Idle
  /\ link = "down"
  /\ client = <<>>
  /\ handled = 0
  /\ stray = <<>>
  /\ recent = <<>>
  /\ routed = {}
  /\ forgot = FALSE
  /\ recorded = <<>>
  /\ archived = 0
  /\ crashed = 0
  /\ refused = FALSE
  /\ restarted = FALSE
  /\ faults = 0

Next ==
  \/ Offer
  \/ FlushTakes
  \/ EncodeFails
  \/ PublishAccepted
  \/ PublishRefused
  \/ FlushEnds
  \/ AgentRestarts
  \/ Break
  \/ BreakNoticed
  \/ Connect
  \/ Acknowledged
  \/ StrayLost
  \/ Deliver
  \/ DeliverStray
  \/ OthersRoute
  \/ Archive
  \/ ServerRestarts

Safety == Init /\ [][Next]_vars

\* run() keeps ticking and a flush comes to its end; the client reconnects, and
\* connections last long enough, again and again, for a message to get through;
\* an abandoned socket is closed in the end.
Fairness ==
  /\ WF_vars(FlushTakes)
  /\ WF_vars(FlushEnds)
  /\ SF_vars(PublishAccepted)
  /\ WF_vars(BreakNoticed)
  /\ WF_vars(Connect)
  /\ SF_vars(Deliver)
  /\ SF_vars(Acknowledged)
  /\ WF_vars(StrayLost)

Spec == Safety /\ Fairness

-----------------------------------------------------------------------------
(* Properties *)

\* Bridge.offer(): whatever samples of a topic came before, the archive is as close to
\* the vehicle as the deadband and the gap allow, hears a live source at least once a
\* heartbeat, and takes for a change what is one.  (This is about histories and not
\* about states: it is evaluated in the first one.)
FilterKeepsUp == Init => KeepsUp

\* "Without this the same samples land in the archive twice" (ingest.py:139): as long
\* as the server is not restarted, no sample is recorded twice and a vehicle's samples
\* are recorded in order, although every batch is published twice, redelivered after
\* every break, read from abandoned sockets, and taken back when a publish is refused.
\* Once the window has lost a key that may still arrive (it is no "far more than enough",
\* ingest.py:55, for a fleet that shares it), what comes out of order is a copy of what
\* is recorded, unless a publish was refused as well.
RecordedOnceInOrder ==
  ~restarted =>
    \A i, j \in 1..Len(recorded) :
      i < j /\ recorded[i][1] = recorded[j][1] =>
        \/ recorded[i][2] < recorded[j][2]
        \/ forgot /\ (refused \/ \E k \in 1..(j - 1) : recorded[k] = recorded[j])

\* Samples of this run of the agent that are nowhere any more.
Recorded == {recorded[i][2] : i \in 1..Len(recorded)}
Pending  == Image(buffer) \cup Image(flight.rows) \cup RowsOf(client)
Lost     == (origin + 1 .. offered) \ (Pending \cup Recorded)

\* As long as no publish is refused, dropped_buffer, the batches that could not be
\* encoded and what the server held in memory when it died cover every sample that is
\* lost: what is unacknowledged then is delivered later, and no batch is taken for
\* another, of this run of the agent or of an earlier one.
LossCounted == ~refused => Cardinality(Lost) <= dropped + crashed + unsent

\* What the vehicle has to deliver: a batch is its own until all copies are published,
\* and after that if one was refused; what is published, until it is acknowledged.
Held == Image(buffer) \cup RowsOf(client)
          \cup IF flight.left > 0 \/ ~flight.ok THEN Image(flight.rows) ELSE {}

Delivery == INSTANCE ReliableRelay WITH
  run <- boot, held <- Held, stored <- recorded, safe <- archived

\* The uplink implements ReliableRelay: a sample leaves the vehicle stored or counted,
\* is stored in order, again only if its key was forgotten too early, and lost only by a
\* server that dies; and nothing is held for ever, whatever broke, was refused or was
\* restarted before.  (The model offers finitely many samples, so this says that all of
\* them get through.)
ImplementsRelay == Delivery!Spec

-----------------------------------------------------------------------------
\* "a full buffer drops the oldest and counts it; data is never lost silently"
\* (agent/README.md:313), and "this seq was never delivered" (bridge.py:267):
\* the same while the server lives, refused publishes included, but for batches
\* that cannot be encoded.
NeverLostSilently == ~restarted => Cardinality(Lost) <= dropped + unsent

=============================================================================
