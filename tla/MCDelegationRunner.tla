------------------------- MODULE MCDelegationRunner -------------------------
(***************************************************************************)
(* The instance of DelegationRunner for TLC.                               *)
(***************************************************************************)
EXTENDS DelegationRunner

AnyRequest == [fallback : BOOLEAN, timeout : BOOLEAN]
=============================================================================
