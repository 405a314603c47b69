------------------------------ MODULE TaskGraph ------------------------------
(***************************************************************************)
(* The pure functions of the task-decomposition skill over a plan's steps  *)
(* (task_graph.py, and the validators of task_plan_model.py).              *)
(*                                                                         *)
(* `steps` is a function from step ids to records.  Ids are numbers, in    *)
(* the order in which the code sorts them as strings; depends_on, files    *)
(* and resources are lists of which the code only asks what they contain,  *)
(* so they are sets.                                                       *)
(***************************************************************************)
EXTENDS Integers, Sequences, FiniteSets, SequencesExt

SatisfiedDeps == {"complete", "skipped"}
RemainingStatuses == {"pending", "in_progress", "failed"}
StepStatuses == {"pending", "in_progress", "complete", "failed", "skipped"}
CriterionStatuses == {"unchecked", "passed", "failed"}

-----------------------------------------------------------------------------
(***************************************************************************)
(* Traversal.                                                              *)
(***************************************************************************)

\* V4: a dependency is another step of the plan.
DependenciesResolve(steps) ==
  \A s \in DOMAIN steps : steps[s].depends \subseteq DOMAIN steps \ {s}

\* V5: some set of steps each of which depends on another of the set would
\* be, or contain, a cycle.
Acyclic(steps) ==
  \A knot \in (SUBSET DOMAIN steps) \ {{}} :
    \E s \in knot : steps[s].depends \intersect knot = {}

\* The steps that the heap holds once `placed` were taken out of it.
Free(steps, placed) == {s \in DOMAIN steps \ placed : steps[s].depends \subseteq placed}

Smallest(ids) == CHOOSE s \in ids : \A t \in ids : s <= t

\* Kahn's algorithm with a heap: the smallest step whose dependencies are
\* all placed comes next.
TopologicalOrder(steps) ==
  LET order[k \in 0 .. Cardinality(DOMAIN steps)] ==
        IF k = 0 THEN << >> ELSE Append(order[k - 1], Smallest(Free(steps, ToSet(order[k - 1]))))
  IN  order[Cardinality(DOMAIN steps)]

WaitingOn(steps, s) == {d \in steps[s].depends : steps[d].status \notin SatisfiedDeps}

Ready(steps) ==
  {s \in DOMAIN steps : steps[s].status \in {"pending", "failed"} /\ WaitingOn(steps, s) = {}}

-----------------------------------------------------------------------------
(***************************************************************************)
(* Deferral waves.                                                         *)
(***************************************************************************)

Conflicts(left, right) ==
  \/ left.files \intersect right.files # {}
  \/ left.resources \intersect right.resources # {}

WaveOf(packed, s) == CHOOSE i \in DOMAIN packed : s \in packed[i]

\* The first wave after those of the step's dependencies.
Earliest(steps, packed, s) ==
  LET behind == {d \in steps[s].depends : \E i \in DOMAIN packed : d \in packed[i]}
      waves == {WaveOf(packed, d) : d \in behind}
  IN  IF waves = {} THEN 1 ELSE 1 + CHOOSE w \in waves : \A v \in waves : v <= w

\* Mutant: the step goes to the first wave without a conflict, before the
\* dependencies have been looked at.
Slot_AnyWave(steps, packed, s) ==
  LET room == {i \in 1 .. Len(packed) + 1 :
                 i \in DOMAIN packed => ~ \E t \in packed[i] : Conflicts(steps[s], steps[t])}
  IN  CHOOSE i \in room : \A j \in room : i <= j

Slot(steps, packed, s) ==
  LET room == {i \in Earliest(steps, packed, s) .. Len(packed) + 1 :
                 i \in DOMAIN packed => ~ \E t \in packed[i] : Conflicts(steps[s], steps[t])}
  IN  CHOOSE i \in room : \A j \in room : i <= j

Pack(steps, packed, s) ==
  LET slot == Slot(steps, packed, s)
  IN  IF slot \in DOMAIN packed
      THEN [packed EXCEPT ![slot] = @ \union {s}]
      ELSE Append(packed, {s})

\* The waves of the steps that remain: each step, in topological order, in
\* the earliest wave after its dependencies that has no conflict with it.
Waves(steps) ==
  LET order == TopologicalOrder(steps)
      packed[k \in 0 .. Len(order)] ==
        IF k = 0 THEN << >>
        ELSE IF steps[order[k]].status \in RemainingStatuses
             THEN Pack(steps, packed[k - 1], order[k])
             ELSE packed[k - 1]
  IN  packed[Len(order)]
=============================================================================
