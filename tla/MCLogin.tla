------------------------------ MODULE MCLogin -------------------------------
(***************************************************************************)
(* Instances of Login: keys, requests and session ids are model values.    *)
(***************************************************************************)
EXTENDS Login
=============================================================================
