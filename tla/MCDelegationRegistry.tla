------------------------ MODULE MCDelegationRegistry ------------------------
(***************************************************************************)
(* Instances of DelegationRegistry for TLC.                                *)
(***************************************************************************)
EXTENDS DelegationRegistry

\* Callers wait for one delegation or for two.
OnesAndTwos == {ids \in SUBSET Delegations : Cardinality(ids) \in 1 .. 2}
=============================================================================
