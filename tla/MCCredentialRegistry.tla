------------------------ MODULE MCCredentialRegistry ------------------------
(***************************************************************************)
(* Instances of CredentialRegistry: sets of model values.                  *)
(***************************************************************************)
EXTENDS CredentialRegistry
=============================================================================
