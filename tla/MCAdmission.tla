---------------------------- MODULE MCAdmission ----------------------------
(***************************************************************************)
(* The instance of Admission for TLC.                                      *)
(***************************************************************************)
EXTENDS Admission, TLC

\* Nothing in Admission tells one delegation from another; only for runs
\* without liveness properties.
Symmetry == Permutations(Delegations)
=============================================================================
