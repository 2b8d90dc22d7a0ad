----------------------------- MODULE AgentFilter -----------------------------
(***************************************************************************)
(* Bridge.offer() (agent/itri_agent/bridge.py): which samples of a topic   *)
(* are relayed, and how they are flagged.  The source calls it from one    *)
(* thread, and topics share nothing, so it is a function of the samples of *)
(* one topic that include and exclude let through.                         *)
(*                                                                         *)
(* A configuration: at most one sample per gap (max_rate_hz), deadband,    *)
(* on_change_only and heartbeat_s (0: none).                               *)
(***************************************************************************)
EXTENDS Integers, Sequences

CONSTANTS
  Configs,     \* the configurations a bridge may be started with
  Histories    \* what a source may say: sequences of samples

\* Times are Unix times, and the clock may be set back: only the first is later than
\* any gap (at most 1000 s), so that a topic not sent yet is overdue.
ASSUME FilterAssumption ==
  /\ Configs \subseteq [gap : Nat \ {0}, heartbeat : Nat, deadband : Nat,
                       changeOnly : BOOLEAN]
  /\ \A h \in Histories :
       /\ h \in Seq([at : Nat, value : Int]) /\ h # <<>>
       /\ \A cfg \in Configs : cfg.gap <= h[1].at

\* What is kept of a topic: _last, if any, _sent_at, and the rows put in the deque.
Unsent == [last |-> {}, sentAt |-> 0, rows |-> <<>>]

\* _same() for numbers: no further apart than the deadband.
Same(cfg, v, w) == v - w \in -cfg.deadband..cfg.deadband

Unchanged(cfg, kept, value) == \E v \in kept.last : Same(cfg, v, value)
Beats(cfg, kept, now) == cfg.heartbeat > 0 /\ now - kept.sentAt >= cfg.heartbeat

Relays(cfg, kept, now, value) ==
  /\ now - kept.sentAt >= cfg.gap
  /\ cfg.changeOnly => ~Unchanged(cfg, kept, value) \/ Beats(cfg, kept, now)

Flag(cfg, kept, value) ==
  IF cfg.changeOnly /\ Unchanged(cfg, kept, value) THEN "heartbeat" ELSE "change"

Relay(cfg, kept, now, value) ==
  [last |-> {value}, sentAt |-> now,
   rows |-> Append(kept.rows,
                   [at |-> now, value |-> value, flag |-> Flag(cfg, kept, value)])]

\* Mutant of OfferTo: what was skipped is remembered as if it had been sent.
OfferToForgetful(cfg, kept, now, value) ==
  IF Relays(cfg, kept, now, value) THEN Relay(cfg, kept, now, value)
  ELSE [kept EXCEPT !.last = {value}]

\* offer(): relay, or skip and remember nothing.
OfferTo(cfg, kept, now, value) ==
  IF Relays(cfg, kept, now, value) THEN Relay(cfg, kept, now, value) ELSE kept

\* What is kept after each of the samples of a history, each [at, value].
Trace(cfg, history) ==
  LET kept[i \in 0..Len(history)] ==
        IF i = 0 THEN Unsent
        ELSE OfferTo(cfg, kept[i - 1], history[i].at, history[i].value)
  IN kept

After(cfg, history) == Trace(cfg, history)[Len(history)]

Last(q) == q[Len(q)]

-----------------------------------------------------------------------------
\* Whatever was skipped, the last row relayed is within the deadband of what the
\* source says now, unless it is younger than the gap: changes too small to be
\* relayed do not add up.
KeepsClose(cfg, history) ==
  LET row == Last(After(cfg, history).rows)
      now == Last(history)
  IN Same(cfg, row.value, now.value) \/ now.at - row.at < cfg.gap

\* With a heartbeat, or without on_change_only, a source that speaks is heard: what
\* was relayed last is younger than the gap or the heartbeat.
KeepsBeating(cfg, history) ==
  LET age == Last(history).at - Last(After(cfg, history).rows).at
  IN \/ age < cfg.gap
     \/ cfg.changeOnly /\ (cfg.heartbeat = 0 \/ age < cfg.heartbeat)

\* A row flagged as a change is one: it differs from the row before it.
FlagsTrue(cfg, history) ==
  LET rows == After(cfg, history).rows
  IN cfg.changeOnly =>
       \A i \in 2..Len(rows) :
         rows[i].flag = "change" <=> ~Same(cfg, rows[i - 1].value, rows[i].value)

\* Whatever a source says and however the bridge is configured.
KeepsUp ==
  \A cfg \in Configs, h \in Histories :
    KeepsClose(cfg, h) /\ KeepsBeating(cfg, h) /\ FlagsTrue(cfg, h)
=============================================================================
