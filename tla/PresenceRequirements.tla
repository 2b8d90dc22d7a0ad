------------------------- MODULE PresenceRequirements -------------------------
(***************************************************************************)
(* What the rest of the system takes for granted about the presence of a   *)
(* robot: the dashboard that shows it, the alert rules that watch it and   *)
(* the audit trail.  Presence is the mechanism; this is what it promises   *)
(* about the record of a robot and the trail, and nothing else of it.      *)
(***************************************************************************)
EXTENDS Naturals

CONSTANTS
  OfflineAfter,   \* a status is recent up to this age
  StaleAfter      \* and merely stale up to this one

ASSUME PresenceAssumption ==
  /\ OfflineAfter \in Nat
  /\ StaleAfter \in Nat
  /\ OfflineAfter < StaleAfter

VARIABLES
  robot,     \* the Robot record: presence, heard, age, gone, ...
  noted      \* the last presence event in the audit trail

OK == "ok"
Levels == {"unknown", OK, "stale", "offline"}

\* state.py:27-33, and what it takes between two evaluations for it to hold:
\* unknown means no status and no will; stale means a status that is too old
\* and no will; offline means a will newer than the last status, or silence
\* beyond credibility.  No order of wills, statuses, ticks and restarts leaves
\* a level that the signals do not justify.
PresenceJustified ==
  /\ robot.presence = "unknown" => ~robot.heard /\ ~robot.gone
  /\ robot.presence = OK        => robot.heard
  /\ robot.presence = "stale"   => robot.heard /\ ~robot.gone /\ robot.age > OfflineAfter
  /\ robot.presence = "offline" => robot.gone \/ (robot.heard /\ robot.age > StaleAfter)

\* The audit trail and the live view agree: the last presence event of a robot
\* is "online" exactly when it counts as online.
TrailAgrees == noted = "online" <=> robot.presence = OK
=============================================================================
