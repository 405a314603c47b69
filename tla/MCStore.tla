------------------------------- MODULE MCStore -------------------------------
(* StoreMigration for TLC: processes, keys and values are interchangeable. *)
EXTENDS StoreMigration, TLC

StoreSymmetry == Permutations(Procs) \union Permutations(Keys) \union Permutations(Values)
=============================================================================
