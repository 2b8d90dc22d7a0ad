------------------------------ MODULE Presence ------------------------------
(***************************************************************************)
(* Is a robot there?  server/state.py decides from two signals: how long   *)
(* ago its last status arrived, and what its last-will topic last said.    *)
(* server/broker.py fires last wills, server/ingest.py hands both signals  *)
(* over and notes transitions, and agent/itri_agent/bridge.py sends them.  *)
(*                                                                         *)
(* One robot: robots share nothing here.  Times are only ever compared, so *)
(* the model keeps the age of the last status, capped where it stops to    *)
(* matter, and whether the last will is newer than that status.            *)
(***************************************************************************)
EXTENDS PresenceRequirements

CONSTANTS
  Connections     \* uplink connections of a behaviour (model bound)

VARIABLES
  conns,     \* [Connections -> phase], see Phases
  source,    \* "alive" or "dead": what the agent relays from
  mapped     \* FleetAgent._mapped holds a dashboard field

vars == <<robot, noted, conns, source, mapped>>

\* open: connected, "online" not yet published.  lost: the vehicle gave the
\* connection up, the broker has not noticed.  over: the session is gone.
Phases == {"new", "open", "live", "lost", "over"}
Usable == {"open", "live"}

\* known: in FleetState.robots.  heard: last_seen is not zero; age: since then.
\* gone: link is False and link_at >= last_seen.  tie: the clock shows what it
\* showed at link_at.
Blank == [known |-> FALSE, presence |-> "unknown", heard |-> FALSE,
          age |-> StaleAfter + 1, gone |-> FALSE, tie |-> FALSE]

-----------------------------------------------------------------------------
(* server/state.py *)

\* Mutant of Evaluate: silence never turns a robot stale.
EvaluateWillOnly(rb) ==
  IF rb.gone THEN "offline" ELSE IF ~rb.heard THEN "unknown" ELSE OK

\* Robot.evaluate(), in the order of the code.
Evaluate(rb) ==
  IF rb.gone THEN "offline"
  ELSE IF ~rb.heard THEN "unknown"
  ELSE IF rb.age <= OfflineAfter THEN OK
  ELSE IF rb.age <= StaleAfter THEN "stale"
  ELSE "offline"

\* note_presence(): an event says online or offline, nothing finer.
Note(presence) == noted' = IF presence = OK THEN "online" ELSE "offline"

\* Mutant of SetLink: the will is stored and left for the next reap().
SetLinkLater(up) ==
  /\ robot' = [robot EXCEPT !.known = TRUE, !.gone = ~up, !.tie = ~up]
  /\ UNCHANGED noted

\* set_link() from TelemetryRouter.handle(): an event unless presence is what
\* it was; a robot heard of for the first time was nothing.
SetLink(up) ==
  LET rb    == [robot EXCEPT !.known = TRUE, !.gone = ~up, !.tie = ~up]
      level == Evaluate(rb)
  IN /\ robot' = [rb EXCEPT !.presence = level]
     /\ IF robot.known /\ robot.presence = level THEN UNCHANGED noted ELSE Note(level)

\* Mutant of IngestStatus: a status is newer than any last will, but the link
\* is not weighed against it.
IngestStatusKeepsWill ==
  /\ robot' = [robot EXCEPT !.known = TRUE, !.presence = OK, !.heard = TRUE, !.age = 0]
  /\ IF robot.presence = OK THEN UNCHANGED noted ELSE Note(OK)

\* FleetState.ingest() and Robot.update() from TelemetryRouter.handle().  A last
\* will of the same clock reading still counts as newer.
IngestStatus ==
  /\ robot' = [robot EXCEPT !.known = TRUE, !.presence = OK, !.heard = TRUE,
                            !.age = 0, !.gone = robot.gone /\ robot.tie]
  /\ IF robot.presence = OK THEN UNCHANGED noted ELSE Note(OK)

\* Mutant of Reap: the ticker notes nothing.
ReapSilently ==
  /\ robot.known
  /\ robot.presence # Evaluate(robot)
  /\ robot' = [robot EXCEPT !.presence = Evaluate(robot)]
  /\ UNCHANGED <<noted, conns, source, mapped>>

\* reap() in the ticker, which notes "offline" whatever the change was.
Reap ==
  /\ robot.known
  /\ robot.presence # Evaluate(robot)
  /\ robot' = [robot EXCEPT !.presence = Evaluate(robot)]
  /\ noted' = "offline"
  /\ UNCHANGED <<conns, source, mapped>>

ClockAdvances ==
  /\ robot.age <= StaleAfter \/ robot.tie
  /\ robot' = [robot EXCEPT !.tie = FALSE,
                            !.age = IF @ <= StaleAfter THEN @ + 1 ELSE @]
  /\ UNCHANGED <<noted, conns, source, mapped>>

-----------------------------------------------------------------------------
(* The vehicle *)

\* offer(): the source produced a value of a mapped topic.
Produce ==
  /\ source = "alive"
  /\ mapped' = TRUE
  /\ UNCHANGED <<robot, noted, conns, source>>

SourceDies ==
  /\ source = "alive"
  /\ source' = "dead"
  /\ UNCHANGED <<robot, noted, conns, mapped>>

\* The agent has one connection at a time; what it gave up it forgets.
Connect(c) ==
  /\ conns[c] = "new"
  /\ \A d \in Connections : conns[d] \notin Usable
  /\ conns' = [conns EXCEPT ![c] = "open"]
  /\ UNCHANGED <<robot, noted, source, mapped>>

\* _on_up_connect() publishes "online".
Announce(c) ==
  /\ conns[c] = "open"
  /\ conns' = [conns EXCEPT ![c] = "live"]
  /\ SetLink(TRUE)
  /\ UNCHANGED <<source, mapped>>

\* The last half of _flush(): a status as soon as any field was ever mapped.
SendStatus(c) ==
  /\ conns[c] \in Usable
  /\ mapped
  /\ IngestStatus
  /\ UNCHANGED <<conns, source, mapped>>

\* run()'s finally: "offline" is published, then the session ends gracefully.
Quit(c) ==
  /\ conns[c] \in Usable
  /\ conns' = [conns EXCEPT ![c] = "over"]
  /\ SetLink(FALSE)
  /\ mapped' = FALSE
  /\ UNCHANGED source

\* The agent process dies: the broker sees the reset.
Crash(c) ==
  /\ conns[c] \in Usable
  /\ conns' = [conns EXCEPT ![c] = "over"]
  /\ SetLink(FALSE)
  /\ mapped' = FALSE
  /\ UNCHANGED source

\* The agent process ends while it is not connected: nobody is told.
AgentDies ==
  /\ \A d \in Connections : conns[d] \notin Usable
  /\ mapped
  /\ mapped' = FALSE
  /\ UNCHANGED <<robot, noted, conns, source>>

\* The network swallows the connection without a trace.
Lose(c) ==
  /\ conns[c] \in Usable
  /\ conns' = [conns EXCEPT ![c] = "lost"]
  /\ UNCHANGED <<robot, noted, source, mapped>>

-----------------------------------------------------------------------------
(* server/broker.py *)

\* _serve() times out 1.5 keepalives after the last packet; the will is fired,
\* whatever other session the same client has opened since.
Expire(c) ==
  /\ conns[c] = "lost"
  /\ conns' = [conns EXCEPT ![c] = "over"]
  /\ SetLink(FALSE)
  /\ UNCHANGED <<source, mapped>>

\* kick(): the will is cleared first.
Kick(c) ==
  /\ conns[c] \in Usable \cup {"lost"}
  /\ conns' = [conns EXCEPT ![c] = "over"]
  /\ UNCHANGED <<robot, noted, source, mapped>>

\* The server is restarted: its state is in RAM, and no will is fired.
Restart ==
  /\ robot' = Blank
  /\ noted' = "none"
  /\ conns' = [c \in Connections |-> IF conns[c] = "new" THEN "new" ELSE "over"]
  /\ UNCHANGED <<source, mapped>>

-----------------------------------------------------------------------------
Init ==
  /\ robot = Blank
  /\ noted = "none"
  /\ conns = [c \in Connections |-> "new"]
  /\ source \in {"alive", "dead"}
  /\ mapped = FALSE

StatusArrives == \E c \in Connections : SendStatus(c)

Next ==
  \/ Reap
  \/ ClockAdvances
  \/ Produce
  \/ SourceDies
  \/ StatusArrives
  \/ AgentDies
  \/ \E c \in Connections :
       \/ Connect(c)
       \/ Announce(c)
       \/ Quit(c)
       \/ Crash(c)
       \/ Lose(c)
       \/ Expire(c)
       \/ Kick(c)
  \/ Restart

Safety == Init /\ [][Next]_vars

\* The clock and the ticker go on, a half-open session expires, and a connected
\* agent flushes at publish_hz.
Fairness ==
  /\ WF_vars(Reap)
  /\ WF_vars(ClockAdvances)
  /\ WF_vars(StatusArrives)
  /\ \A c \in Connections : WF_vars(Announce(c)) /\ WF_vars(Expire(c))

Spec == Safety /\ Fairness

-----------------------------------------------------------------------------
(* Properties: those of PresenceRequirements, and these *)

Records == [known : BOOLEAN, presence : Levels, heard : BOOLEAN,
            age : 0..(StaleAfter + 1), gone : BOOLEAN, tie : BOOLEAN]

\* Type correctness.
TypeOK ==
  /\ robot \in Records
  /\ noted \in {"none", "online", "offline"}
  /\ conns \in [Connections -> Phases]
  /\ source \in {"alive", "dead"}
  /\ mapped \in BOOLEAN

\* A robot that stops reporting does not read as fine for ever, whether or not
\* its connection died and its will was fired.
SilenceShows == <>[][~StatusArrives]_vars => <>[](robot.presence # OK)

\* A robot that goes on reporting is online in the end: no will of an earlier
\* session, however late, keeps it offline.
ReportingRecovers ==
  <>[](robot.heard /\ robot.age <= OfflineAfter) => <>[](robot.presence = OK)

\* The reason the trail stays right although reap() notes "offline" for every
\* change: when the signals say OK, presence already is.
OKIsPrompt == Evaluate(robot) = OK => robot.presence = OK

\* A robot the server has not heard of has a blank record.
UnknownIsBlank == ~robot.known => robot = Blank

IInv == TypeOK /\ PresenceJustified /\ TrailAgrees /\ OKIsPrompt /\ UnknownIsBlank

=============================================================================
