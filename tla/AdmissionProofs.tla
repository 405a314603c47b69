-------------------------- MODULE AdmissionProofs --------------------------
(***************************************************************************)
(* The safety properties of Admission, for any set of delegations, any     *)
(* caps and any group size.                                                *)
(*                                                                         *)
(* The inductive invariant has two parts.  Sound says, besides the types   *)
(* and the slot cap, that the slots are exactly the members of the groups, *)
(* that what is queued waits in some group, and that every group in the    *)
(* FIFO obeys the discipline of its mode and fits the cap.  None of it can *)
(* be dropped: NoWedge fails for a line whose head is a parallel group     *)
(* wider than the cap, and for a slot that belongs to no group.  Orderly   *)
(* says that the flat queue is the line of the groups and that nobody is   *)
(* in two places; the order of the line, and so NoOvertaking, needs both.  *)
(***************************************************************************)
EXTENDS Admission, AdmissionLemmas

IInv == Sound(adm) /\ LineMoves(adm) /\ Orderly(adm) /\ Len(adm.queue) <= QueueCap

-----------------------------------------------------------------------------
(***************************************************************************)
(* The theorems.                                                           *)
(***************************************************************************)

LEMMA MemberListsType ==
  ASSUME Sound(adm), NEW ids \in MemberLists
  PROVE  ids \in Seq(Delegations) /\ Distinct(ids) /\ Elements(ids) \intersect Live(adm) = {}
<1>1. PICK n \in 0 .. GroupSize : ids \in [1 .. n -> Fresh]
  BY DEF MemberLists
<1>2. n \in Nat /\ ids \in [1 .. n -> Delegations]
  BY <1>1, GroupSizeAssumption DEF Fresh
<1>3. ids \in Seq(Delegations)
  BY <1>2, FunctionIsSequence
<1>4. Distinct(ids)
  BY DEF MemberLists, Distinct
<1>5. Elements(ids) \subseteq Fresh
  BY <1>1 DEF Elements
<1> QED
  BY <1>3, <1>4, <1>5 DEF Fresh

LEMMA PromotesKeeps ==
  ASSUME IInv, NEW r, NEW gone, NEW left, Promotes(adm, r, gone, left), adm' = r.state
  PROVE  IInv'
<1>1. Sound(adm') /\ LineMoves(adm') /\ Orderly(adm') /\ Len(adm'.queue) <= Len(adm.queue)
  BY DEF Promotes
<1>2. Len(adm'.queue) \in Nat /\ Len(adm.queue) \in Nat
  BY <1>1, LenProperties DEF IInv, Sound, AdmissionState
<1>3. Len(adm'.queue) <= QueueCap
  BY <1>1, <1>2, CapsAssumption DEF IInv
<1> QED
  BY <1>1, <1>3 DEF IInv

LEMMA Invariant == Spec => []IInv
<1>1. Init => IInv
  <2>1. /\ Elements(<< >>) = {} /\ IsFiniteSet({}) /\ Cardinality({}) = 0
        /\ << >> \in Seq(Delegations) /\ << >> \in Seq(Group)
    BY FS_EmptySet DEF Elements
  <2>2. WaitingGroups(<< >>) = {} /\ Distinct(<< >>) /\ Len(<< >>) = 0
    BY DEF WaitingGroups, Distinct
  <2> SUFFICES ASSUME Init PROVE IInv
    OBVIOUS
  <2>3. adm.running = {} /\ adm.queue = << >> /\ adm.groups = << >> /\ adm \in AdmissionState
    BY <2>1 DEF Init, EmptyAdmission, AdmissionState
  <2>4. Sound(adm) /\ LineMoves(adm)
    BY <2>1, <2>2, <2>3, CapsAssumption DEF Sound, LineMoves, Busy, Pending
  <2>5. Orderly(adm)
    BY <2>1, <2>2, <2>3, FlatNone DEF Orderly
  <2> QED
    BY <2>2, <2>3, <2>4, <2>5, CapsAssumption DEF IInv
<1>2. IInv /\ [Next]_vars => IInv'
  <2> SUFFICES ASSUME IInv, [Next]_vars
               PROVE  IInv'
    OBVIOUS
  <2>1. /\ Sound(adm) /\ LineMoves(adm) /\ Orderly(adm) /\ Len(adm.queue) <= QueueCap
    BY DEF IInv
  <2>2. ASSUME NEW id \in Delegations, Submit(id)
        PROVE  IInv'
    BY <2>1, <2>2, RequestSound, RequestOrderly DEF Submit, IInv, Fresh
  <2>3. ASSUME NEW mode \in Modes, NEW ids \in MemberLists, SubmitGroup(mode, ids)
        PROVE  IInv'
    <3>1. /\ ids \in Seq(Delegations) /\ Distinct(ids) /\ Elements(ids) \intersect Live(adm) = {}
          /\ adm' = EnqueueGroup(adm, mode, ids).state
      BY <2>1, <2>3, MemberListsType DEF SubmitGroup
    <3>2. Sound(adm') /\ LineMoves(adm')
      BY <2>1, <3>1, EnqueueSound
    <3>3. Orderly(adm') /\ (adm' = adm \/ ~(Len(adm'.queue) > QueueCap))
      BY <2>1, <3>1, EnqueueOrderly
    <3>4. Len(adm'.queue) <= QueueCap
      <4>1. Len(adm'.queue) \in Nat
        BY <3>2, LenProperties DEF Sound, AdmissionState
      <4> QED
        BY <2>1, <3>3, <4>1, CapsAssumption
    <3> QED
      BY <3>2, <3>3, <3>4 DEF IInv
  <2>4. ASSUME NEW id \in Delegations, Settle(id)
        PROVE  IInv'
    <3>1. adm' = ReleaseRun(adm, id).state /\ Promotes(adm, ReleaseRun(adm, id), {id}, {id})
      BY <2>1, <2>4, ReleasePromotes DEF Settle
    <3> QED
      BY <2>1, <3>1, PromotesKeeps
  <2>5. ASSUME NEW ids \in SUBSET Elements(adm.queue), Cancel(ids)
        PROVE  IInv'
    <3>1. adm' = RemovePending(adm, ids).state /\ Promotes(adm, RemovePending(adm, ids), {}, ids)
      BY <2>1, <2>5, RemovePromotes DEF Cancel
    <3> QED
      BY <2>1, <3>1, PromotesKeeps
  <2>6. CASE UNCHANGED vars
    BY <2>1, <2>6 DEF vars, IInv
  <2> QED
    BY <2>2, <2>3, <2>4, <2>5, <2>6 DEF Next
<1> QED
  BY <1>1, <1>2, PTL DEF Spec

\* Every value an admission state reaches has its type.
THEOREM TypeCorrect == Spec => []TypeOK
<1>1. IInv => TypeOK
  BY DEF IInv, Sound, TypeOK
<1> QED
  BY <1>1, Invariant, PTL

\* The running cap of R7, for any cap: drainAdmission and admitRequest never
\* hand out a slot too many.
THEOREM SlotsAreRespected == Spec => []SlotsRespected
<1>1. IInv => SlotsRespected
  BY DEF IInv, Sound, SlotsRespected
<1> QED
  BY <1>1, Invariant, PTL

\* The group disciplines of plan v2 R2, for groups of any size.
THEOREM GroupsAreDisciplined == Spec => []GroupDiscipline
<1>1. IInv => GroupDiscipline
  <2> SUFFICES ASSUME IInv, NEW i \in DOMAIN adm.groups
               PROVE  LET g == adm.groups[i]
                      IN  /\ g.members # {} \/ g.pending # << >>
                          /\ g.mode = "serial" => Cardinality(g.members) <= 1
                          /\ g.mode = "parallel" => g.members = {} \/ g.pending = << >>
    BY DEF GroupDiscipline
  <2>1. adm.groups[i] \in Elements(adm.groups)
    BY DEF Elements
  <2> QED
    BY <2>1 DEF IInv, Sound, Disciplined, InUse
<1> QED
  BY <1>1, Invariant, PTL

\* Admission cannot wedge: whoever waits, somebody runs whose settling will
\* drain the line.
THEOREM AdmissionNeverWedges == Spec => []NoWedge
<1>1. IInv => NoWedge
  <2> SUFFICES ASSUME IInv, adm.queue # << >>
               PROVE  adm.running # {}
    BY DEF NoWedge
  <2> DEFINE q == adm.queue
  <2>1. q \in Seq(Delegations) /\ q # << >>
    BY DEF IInv, Sound, AdmissionState
  <2> HIDE DEF q
  <2>2. Elements(q) # {}
    BY <2>1, ElementsOf
  <2>3. Pending(adm.groups) # {}
    BY <2>2 DEF IInv, Sound, q
  <2>4. PICK g \in Elements(adm.groups) : Elements(g.pending) # {}
    BY <2>3 DEF Pending
  <2>5. g.pending # << >>
    BY <2>4 DEF Elements
  <2>6. WaitingGroups(adm.groups) # {}
    BY <2>5 DEF WaitingGroups, Elements
  <2> QED
    BY <2>6 DEF IInv, LineMoves
<1> QED
  BY <1>1, Invariant, PTL

\* Every live delegation is in one place, and the flat queue is the line of
\* the groups, although releaseRun and removePending compute it differently.
THEOREM LiveInOnePlace == Spec => []OnePlace
<1>1. IInv => OnePlace
  <2> SUFFICES ASSUME IInv PROVE OnePlace
    OBVIOUS
  <2> DEFINE gs == adm.groups  q == adm.queue
  <2>1. gs \in Seq(Group) /\ q \in Seq(Delegations) /\ adm.running = Busy(gs)
    BY DEF IInv, Sound, AdmissionState
  <2>2. /\ q = FlatPending(gs) /\ Len(q) <= QueueCap /\ Distinct(q)
        /\ adm.running \intersect Elements(q) = {}
        /\ \A i, j \in DOMAIN gs : i # j => gs[i].members \intersect gs[j].members = {}
    BY DEF IInv, Orderly
  <2> HIDE DEF gs, q
  <2>3. DOMAIN gs = 1 .. Len(gs)
    BY <2>1, LenProperties
  <2>4. adm.running = UNION {gs[i].members : i \in DOMAIN gs}
    BY <2>1 DEF Busy, Elements
  <2>5. \A i, j \in DOMAIN gs :
           /\ Elements(gs[i].pending) \subseteq Elements(q)
           /\ i # j => Elements(gs[i].pending) \intersect Elements(gs[j].pending) = {}
    <3>1. Elements(q) = UNION {Elements(gs[i].pending) : i \in DOMAIN gs}
      BY <2>1, <2>2, FlatPendingProperties
    <3>2. \A i, j \in 1 .. Len(gs) :
             /\ Distinct(gs[i].pending)
             /\ i # j => Elements(gs[i].pending) \intersect Elements(gs[j].pending) = {}
      BY <2>1, <2>2, FlatDistinct
    <3> QED
      BY <2>3, <3>1, <3>2
  <2>6. \A i, j \in DOMAIN gs : gs[i].members \intersect Elements(gs[j].pending) = {}
    BY <2>2, <2>4, <2>5
  <2>7. Cardinality(Elements(q)) = Len(q)
    BY <2>1, <2>2, DistinctCardinality
  <2> QED
    BY <2>2, <2>4, <2>5, <2>6, <2>7 DEF OnePlace, gs, q
<1> QED
  BY <1>1, Invariant, PTL

\* The waiting line is first come, first served: a step that admits a
\* waiting delegation leaves nobody waiting that was ahead of it.  A request
\* and a group promote nobody; a release and a cancellation take a prefix of
\* the line (drainAdmission).
THEOREM NobodyOvertakes == Spec => NoOvertaking
<1>1. IInv /\ [Next]_vars => [\A i, j \in DOMAIN adm.queue :
         i < j /\ adm.queue[j] \in adm'.running => adm.queue[i] \notin Elements(adm'.queue)]_adm
  <2> SUFFICES ASSUME IInv, Next, NEW i \in DOMAIN adm.queue, NEW j \in DOMAIN adm.queue,
                      i < j, adm.queue[j] \in adm'.running
               PROVE  adm.queue[i] \notin Elements(adm'.queue)
    BY DEF vars
  <2> DEFINE x == adm.queue[i]  y == adm.queue[j]
  <2>1. Sound(adm) /\ LineMoves(adm) /\ Orderly(adm)
    BY DEF IInv
  <2>2. Before(adm.queue, x, y) /\ y \in Elements(adm.queue) /\ y \notin adm.running
    BY <2>1 DEF Before, Elements, Orderly
  <2>3. y \in adm'.running
    OBVIOUS
  <2> HIDE DEF x, y
  <2>4. ASSUME NEW id \in Delegations, Submit(id)
        PROVE  FALSE
    <3>1. adm'.running \subseteq adm.running \union {id} /\ id \notin Live(adm)
      BY <2>1, <2>4, RequestOrderly DEF Submit, Fresh
    <3> QED
      BY <2>2, <2>3, <3>1 DEF Live
  <2>5. ASSUME NEW mode \in Modes, NEW ids \in MemberLists, SubmitGroup(mode, ids)
        PROVE  FALSE
    <3>1. /\ ids \in Seq(Delegations) /\ Distinct(ids) /\ Elements(ids) \intersect Live(adm) = {}
          /\ adm' = EnqueueGroup(adm, mode, ids).state
      BY <2>1, <2>5, MemberListsType DEF SubmitGroup
    <3>2. adm.queue = << >> \/ adm'.running = adm.running
      BY <2>1, <3>1, EnqueueOrderly
    <3> QED
      BY <2>2, <2>3, <3>2 DEF Elements
  <2>6. ASSUME NEW r, NEW gone, NEW left, Promotes(adm, r, gone, left), adm' = r.state
        PROVE  x \notin Elements(adm'.queue)
    BY <2>2, <2>3, <2>6 DEF Promotes
  <2>7. ASSUME NEW id \in Delegations, Settle(id)
        PROVE  x \notin Elements(adm'.queue)
    BY <2>1, <2>6, <2>7, ReleasePromotes DEF Settle
  <2>8. ASSUME NEW ids \in SUBSET Elements(adm.queue), Cancel(ids)
        PROVE  x \notin Elements(adm'.queue)
    BY <2>1, <2>6, <2>8, RemovePromotes DEF Cancel
  <2> QED
    BY <2>4, <2>5, <2>7, <2>8 DEF Next, x
<1> QED
  BY <1>1, Invariant, PTL DEF Spec, NoOvertaking
=============================================================================
