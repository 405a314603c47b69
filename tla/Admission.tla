----------------------------- MODULE Admission -----------------------------
(***************************************************************************)
(* The admission state of one session as its own state machine: requests,  *)
(* groups, settling runs and cancellations arrive in any order, each one a *)
(* single call of a function of AdmissionOps.  Node runs every such call   *)
(* to completion, so a call is one step.                                   *)
(*                                                                         *)
(* The registry allocates a new id for every delegation.  An id that has   *)
(* left the admission state leaves no trace in it, so the model lets such  *)
(* an id come back and stand for a new delegation: Delegations bounds how  *)
(* many are live at once, not how many there ever are.                     *)
(***************************************************************************)
EXTENDS AdmissionOps

CONSTANT GroupSize  \* the longest group a caller enqueues

ASSUME GroupSizeAssumption == GroupSize \in Nat

VARIABLE adm

vars == <<adm>>

Init == adm = EmptyAdmission

Fresh == Delegations \ Live(adm)

\* The member lists of a group call: the registry allocates distinct ids.
MemberLists ==
  {ids \in UNION {[1 .. n -> Fresh] : n \in 0 .. GroupSize} :
     \A i, j \in DOMAIN ids : ids[i] = ids[j] => i = j}

\* DelegationRegistry.start
Submit(id) ==
  /\ id \in Fresh
  /\ adm' = AdmitRequest(adm, id).state

\* DelegationRegistry.enqueueGroup
SubmitGroup(mode, ids) == adm' = EnqueueGroup(adm, mode, ids).state

\* DelegationRegistry.onSettle: a run finishes, fails or is aborted.
Settle(id) ==
  /\ id \in adm.running
  /\ adm' = ReleaseRun(adm, id).state

\* DelegationRegistry.abort of one queued delegation (a set of one), and
\* abortMany of a selection with queued delegations in it.
Cancel(ids) ==
  /\ ids \subseteq Elements(adm.queue)
  /\ adm' = RemovePending(adm, ids).state

Next ==
  \/ \E id \in Delegations : Submit(id)
  \/ \E mode \in Modes, ids \in MemberLists : SubmitGroup(mode, ids)
  \/ \E id \in Delegations : Settle(id)
  \/ \E ids \in SUBSET Elements(adm.queue) : Cancel(ids)

\* Every admitted run settles: the child exits, or the runner's timeout or
\* liveness watchdog aborts it.  (Only Settle(id) takes id out of running,
\* and it is enabled until it does, so this is WF_vars(Settle(id)).)
Fairness == \A id \in Delegations : []<>(id \notin adm.running)

Spec == Init /\ [][Next]_vars /\ Fairness

-----------------------------------------------------------------------------
(***************************************************************************)
(* Safety.                                                                 *)
(***************************************************************************)

\* The shape of the state; finitely many delegations run.
TypeOK == adm \in AdmissionState /\ IsFiniteSet(adm.running)

\* R7's running cap holds through every interleaving: no batch admission or
\* promotion overruns the slots.
SlotsRespected == Cardinality(adm.running) <= Cap

\* Every live delegation is in one place: it is a member of exactly one
\* group, waits at most once, and holds a slot exactly if some group counts
\* it as a member.  A delegation in two places would be spawned twice or
\* leak the slot when it settles once.  The flat queue, which gives every
\* waiting delegation its position, stays in step with the groups, although
\* each operation edits the two separately (GroupAdmissionState).
OnePlace ==
  /\ adm.queue = FlatPending(adm.groups) /\ Len(adm.queue) <= QueueCap
  /\ adm.running = UNION {adm.groups[i].members : i \in DOMAIN adm.groups}
  /\ \A i, j \in DOMAIN adm.groups :
       LET g == adm.groups[i]  h == adm.groups[j]
       IN  /\ g.members \intersect Elements(h.pending) = {}
           /\ i # j => /\ g.members \intersect h.members = {}
                       /\ Elements(g.pending) \intersect Elements(h.pending) = {}
  /\ Cardinality(Elements(adm.queue)) = Len(adm.queue)

\* The group disciplines of plan v2 R2: a serial group runs one member at a
\* time, a parallel group is admitted entirely or not at all.
GroupDiscipline ==
  \A i \in DOMAIN adm.groups :
    LET g == adm.groups[i]
    IN  /\ g.members # {} \/ g.pending # << >>
        /\ g.mode = "serial" => Cardinality(g.members) <= 1
        /\ g.mode = "parallel" => g.members = {} \/ g.pending = << >>

\* Admission never wedges: the only event that admits a waiting delegation
\* is another one leaving, so a line with nobody running would wait forever.
\* It takes a parallel group that fits the cap, a drain after every
\* cancellation and no phantom member to keep this true.
NoWedge == adm.queue # << >> => adm.running # {}

-----------------------------------------------------------------------------
(***************************************************************************)
(* Steps and progress.                                                     *)
(***************************************************************************)

\* The waiting line is first come, first served: when a step admits a
\* delegation that was waiting, nothing that was ahead of it in the line
\* still waits.
NoOvertaking ==
  [][\A i, j \in DOMAIN adm.queue :
       i < j /\ adm.queue[j] \in adm'.running => adm.queue[i] \notin Elements(adm'.queue)]_adm

\* A waiting delegation is eventually admitted or cancelled, whatever
\* run-now requests and groups keep arriving behind it or into free slots.
EventuallyServed ==
  \A id \in Delegations : id \in Elements(adm.queue) ~> id \notin Elements(adm.queue)
=============================================================================
