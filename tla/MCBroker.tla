------------------------------ MODULE MCBroker ------------------------------
(***************************************************************************)
(* Instances of Broker: a robot with three connections, as after breaks it *)
(* noticed before the broker did.  Where no credentials are required each  *)
(* of them reads as well, as a page does.                                  *)
(***************************************************************************)
EXTENDS Broker, TLC

McUserOf  == [c \in Connections |-> "robot"]
McTopics  == {<<"fleet", "robot", "lwt">>}
McFilters == {<<"fleet", "+", "lwt">>}
McSymmetry == Permutations(Connections)
=============================================================================
