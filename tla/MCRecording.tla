----------------------------- MODULE MCRecording -----------------------------
(***************************************************************************)
(* Instances of Recording: what the publishers of a vehicle offer.         *)
(***************************************************************************)
EXTENDS Recording

McOffered ==
  {[reliable |-> TRUE, lasting |-> FALSE], [reliable |-> FALSE, lasting |-> FALSE],
   [reliable |-> TRUE, lasting |-> TRUE]}
=============================================================================
