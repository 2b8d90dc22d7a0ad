--------------------------- MODULE MCAlertEngine ----------------------------
(***************************************************************************)
(* Instances of AlertEngine: rules are numbers, requests model values.     *)
(***************************************************************************)
EXTENDS AlertEngine
=============================================================================
