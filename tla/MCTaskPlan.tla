----------------------------- MODULE MCTaskPlan ------------------------------
(* Plans for TLC: a join of two steps that share a file; the same steps    *)
(* as a chain without criteria; and one with a cycle.                      *)
EXTENDS TaskPlan

Draft(depends, files, criteria) ==
  [depends |-> depends, files |-> files, resources |-> {}, criteria |-> criteria]

SomeContents ==
  { << Draft({}, {"f"}, {"ac"}), Draft({}, {"f"}, {}), Draft({1, 2}, {}, {"ac"}) >>,
    << Draft({2}, {}, {}), Draft({}, {}, {}) >>,
    << Draft({2}, {}, {}), Draft({1}, {}, {}) >> }

RecordSymmetry == Permutations(Records)
=============================================================================
