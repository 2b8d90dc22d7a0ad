----------------------------- MODULE MCPresence -----------------------------
(***************************************************************************)
(* Instances of Presence: connections are model values, ages numbers.      *)
(***************************************************************************)
EXTENDS Presence
=============================================================================
