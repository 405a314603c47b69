------------------------- MODULE DelegationContract -------------------------
(***************************************************************************)
(* What the delegation registry promises to the rest of the extension,     *)
(* with no admission policy, no records and no call stack: a delegation is *)
(* asked for once, waits, runs at most once and is over for good; its end  *)
(* is told at most once and only after it is over; at most Cap run at the  *)
(* same time; after Close nothing starts and nothing is told.              *)
(* DelegationRegistry is checked to implement this specification.          *)
(***************************************************************************)
EXTENDS Integers, FiniteSets

CONSTANTS Delegations, Cap

VARIABLES
  phase,   \* of each delegation: where it is in its life
  told,    \* the delegations whose completion note was sent
  closed   \* the session has ended

vars == <<phase, told, closed>>

In(p) == {id \in Delegations : phase[id] = p}

Move(ids, p) == phase' = [id \in Delegations |-> IF id \in ids THEN p ELSE phase[id]]

Init ==
  /\ phase = [id \in Delegations |-> "none"]
  /\ told = {}
  /\ closed = FALSE

Ask(ids) ==
  /\ ~closed
  /\ ids \subseteq In("none")
  /\ Move(ids, "waiting")
  /\ UNCHANGED <<told, closed>>

Begin(id) ==
  /\ ~closed
  /\ id \in In("waiting")
  /\ Cardinality(In("running")) < Cap
  /\ Move({id}, "running")
  /\ UNCHANGED <<told, closed>>

\* A run exits or is aborted, or its child never starts.
End(id) ==
  /\ id \in In("running") \union In("waiting")
  /\ Move({id}, "over")
  /\ UNCHANGED <<told, closed>>

\* Waiting delegations are cancelled, and their ends told, in one step.
Cancel(ids) ==
  /\ ~closed
  /\ ids \subseteq In("waiting")
  /\ Move(ids, "over")
  /\ told' = told \union ids
  /\ UNCHANGED closed

Tell(id) ==
  /\ ~closed
  /\ id \in In("over") \ told
  /\ told' = told \union {id}
  /\ UNCHANGED <<phase, closed>>

\* What still waits is cancelled and told to nobody; what runs ends later.
Close ==
  /\ ~closed
  /\ closed' = TRUE
  /\ Move(In("waiting"), "over")
  /\ UNCHANGED told

Next ==
  \/ \E ids \in SUBSET Delegations : Ask(ids) \/ Cancel(ids)
  \/ \E id \in Delegations : Begin(id) \/ End(id) \/ Tell(id)
  \/ Close

Spec == Init /\ [][Next]_vars
=============================================================================
