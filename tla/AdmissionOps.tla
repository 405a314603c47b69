---------------------------- MODULE AdmissionOps ----------------------------
(***************************************************************************)
(* The admission policy of extensions/subagent/delegation-core.ts: the     *)
(* pure functions that decide which delegations run and which wait.  Each  *)
(* one maps an admission state to the next one, as in the source; the      *)
(* state machines of Admission and DelegationRegistry are built from them. *)
(*                                                                         *)
(* An admission state is a record                                          *)
(*    running  the admitted delegations.  The source keeps a list, whose   *)
(*             order nothing reads, so it is a set here;                   *)
(*    queue    the waiting delegations, in order;                          *)
(*    groups   the FIFO of groups, each with its admitted `members` and    *)
(*             its waiting `pending` members, in order.                    *)
(* A groupId only serves to find the group that was just appended; it is   *)
(* left out.                                                               *)
(***************************************************************************)
EXTENDS Integers, Sequences, FiniteSets

CONSTANTS Delegations,  \* the run ids ("d-1", "d-2", ...)
          Cap,          \* DEFAULT_ADMISSION_CAP: runs at a time
          QueueCap      \* DEFAULT_QUEUE_CAP: delegations that may wait

\* index.ts accepts only a positive PI_BADGER_SUBAGENT_MAX_CONCURRENT.
ASSUME CapsAssumption == Cap \in Nat \ {0} /\ QueueCap \in Nat

Modes == {"serial", "parallel"}

Group == [mode : Modes, members : SUBSET Delegations, pending : Seq(Delegations)]

AdmissionState ==
  [running : SUBSET Delegations, queue : Seq(Delegations), groups : Seq(Group)]

EmptyAdmission == [running |-> {}, queue |-> << >>, groups |-> << >>]

-----------------------------------------------------------------------------
(***************************************************************************)
(* Arrays.  filter() and flatMap() are recursive functions rather than     *)
(* SelectSeq and FlattenSeq because the proofs of AdmissionProofs have to  *)
(* reason about them.                                                      *)
(***************************************************************************)

Elements(s) == {s[i] : i \in DOMAIN s}

\* s.filter(x => x is in S)
Filter(s, S) ==
  LET kept[n \in 0 .. Len(s)] ==
        IF n = 0 THEN << >>
        ELSE IF s[n] \in S THEN Append(kept[n - 1], s[n]) ELSE kept[n - 1]
  IN  kept[Len(s)]

\* groups.flatMap(g => g.pending)
FlatPending(gs) ==
  LET flat[n \in 0 .. Len(gs)] ==
        IF n = 0 THEN << >> ELSE flat[n - 1] \o gs[n].pending
  IN  flat[Len(gs)]

-----------------------------------------------------------------------------
(***************************************************************************)
(* The waiting line.                                                       *)
(***************************************************************************)

WaitingGroups(gs) == {i \in DOMAIN gs : gs[i].pending # << >>}

\* Mutant: the newest waiting group is the head.
HeadIndex_Newest(gs) == CHOOSE i \in WaitingGroups(gs) : \A j \in WaitingGroups(gs) : i >= j

\* queueHeadIndex, for a line that is not empty
HeadIndex(gs) == CHOOSE i \in WaitingGroups(gs) : \A j \in WaitingGroups(gs) : i <= j

\* Mutant: a serial head does not wait for its own running member.
Stuck_SlotsOnly(g, running) ==
  \/ g.mode = "serial" /\ Cardinality(running) >= Cap
  \/ g.mode = "parallel" /\ Cardinality(running) + Len(g.pending) > Cap

\* The head of the line cannot proceed: the test of waitingHeadBlocked and,
\* written a second time, of drainAdmission.
Stuck(g, running) ==
  \/ /\ g.mode = "serial"
     /\ g.members # {} \/ Cardinality(running) >= Cap
  \/ /\ g.mode = "parallel"
     /\ Cardinality(running) + Len(g.pending) > Cap

WaitingHeadBlocked(s) ==
  /\ WaitingGroups(s.groups) # {}
  /\ Stuck(s.groups[HeadIndex(s.groups)], s.running)

\* Mutant: singles get a mode of their own.
Single_OwnMode(members, pending) == [mode |-> "single", members |-> members, pending |-> pending]

\* A single delegation is a serial group of one.
Single(members, pending) == [mode |-> "serial", members |-> members, pending |-> pending]

\* Mutant: run-now requests take a free slot past the blocked head.
AdmitRequest_PastTheHead(s, id) ==
  IF Cardinality(s.running) < Cap
  THEN [action |-> "admit",
        state  |-> [running |-> s.running \union {id},
                    queue   |-> s.queue,
                    groups  |-> Append(s.groups, Single({id}, << >>))]]
  ELSE IF Len(s.queue) < QueueCap
  THEN [action |-> "queue",
        state  |-> [running |-> s.running,
                    queue   |-> Append(s.queue, id),
                    groups  |-> Append(s.groups, Single({}, <<id>>))]]
  ELSE [action |-> "reject", state |-> s]

\* Mutant: an off-by-one in the running cap.
AdmitRequest_OneTooMany(s, id) ==
  IF Cardinality(s.running) <= Cap /\ ~WaitingHeadBlocked(s)
  THEN [action |-> "admit",
        state  |-> [running |-> s.running \union {id},
                    queue   |-> s.queue,
                    groups  |-> Append(s.groups, Single({id}, << >>))]]
  ELSE [action |-> "reject", state |-> s]

AdmitRequest(s, id) ==
  IF Cardinality(s.running) < Cap /\ ~WaitingHeadBlocked(s)
  THEN [action |-> "admit",
        state  |-> [running |-> s.running \union {id},
                    queue   |-> s.queue,
                    groups  |-> Append(s.groups, Single({id}, << >>))]]
  ELSE IF Len(s.queue) < QueueCap
  THEN [action |-> "queue",
        state  |-> [running |-> s.running,
                    queue   |-> Append(s.queue, id),
                    groups  |-> Append(s.groups, Single({}, <<id>>))]]
  ELSE [action |-> "reject", state |-> s]

-----------------------------------------------------------------------------
(***************************************************************************)
(* Draining.  One call admits at most one batch: the next member of a      *)
(* serial head, or the whole of a parallel head.  The loop that pops       *)
(* settled groups off the head is part of Occupied below: every caller     *)
(* has already filtered the settled groups out, wherever they stand.       *)
(***************************************************************************)

\* .filter(g => g.members.length > 0 || g.pending.length > 0)
Occupied(gs) == Filter(gs, {g \in Elements(gs) : g.members # {} \/ g.pending # << >>})

\* What a head that can proceed admits
Batch(g) == IF g.mode = "serial" THEN <<Head(g.pending)>> ELSE g.pending

\* Mutant: the members of a parallel batch stay pending.
Admitted_StillPending(g) ==
  [mode    |-> g.mode,
   members |-> g.members \union Elements(Batch(g)),
   pending |-> IF g.mode = "serial" THEN Tail(g.pending) ELSE g.pending]

\* The head group once its batch is admitted
Admitted(g) ==
  [mode    |-> g.mode,
   members |-> g.members \union Elements(Batch(g)),
   pending |-> IF g.mode = "serial" THEN Tail(g.pending) ELSE << >>]

AdmitHead(s, k) ==
  LET batch == Batch(s.groups[k])
  IN  [admitted |-> batch,
       state    |-> [running |-> s.running \union Elements(batch),
                     queue   |-> Filter(s.queue, Delegations \ Elements(batch)),
                     groups  |-> [s.groups EXCEPT ![k] = Admitted(s.groups[k])]]]

DrainAdmission(s) ==
  IF WaitingGroups(s.groups) = {} \/ WaitingHeadBlocked(s)
  THEN [admitted |-> << >>, state |-> s]
  ELSE AdmitHead(s, HeadIndex(s.groups))

Released(g, id) ==
  [mode    |-> g.mode,
   members |-> g.members \ {id},
   pending |-> Filter(g.pending, Delegations \ {id})]

ReleaseRun(s, id) ==
  LET groups == Occupied([i \in 1 .. Len(s.groups) |-> Released(s.groups[i], id)])
  IN  DrainAdmission([running |-> s.running \ {id},
                      queue   |-> FlatPending(groups),
                      groups  |-> groups])

Removed(g, ids) ==
  [mode    |-> g.mode,
   members |-> g.members,
   pending |-> Filter(g.pending, Delegations \ ids)]

\* removePending, for one id, and the same edit of the whole selection that
\* DelegationRegistry.abortMany makes before its single drain.
RemovePending(s, ids) ==
  LET groups == Occupied([i \in 1 .. Len(s.groups) |-> Removed(s.groups[i], ids)])
  IN  DrainAdmission([running |-> s.running,
                      queue   |-> Filter(s.queue, Delegations \ ids),
                      groups  |-> groups])

-----------------------------------------------------------------------------
(***************************************************************************)
(* Enqueueing a whole group, all or nothing.  Only an idle system drains.  *)
(***************************************************************************)

\* An enqueue that rejects nothing, for the two mutants that reject too little
EnqueueUnchecked(s, mode, ids) ==
  LET appended == [running |-> s.running,
                   queue   |-> s.queue \o ids,
                   groups  |-> Append(s.groups, [mode |-> mode, members |-> {},
                                                 pending |-> ids])]
      final    == IF s.groups = << >> THEN DrainAdmission(appended).state ELSE appended
  IN  [action |-> "accepted", state |-> final,
       admittedNow |-> Filter(ids, final.running)]

\* Mutant: a parallel group larger than the cap is accepted.
EnqueueGroup_TooLarge(s, mode, ids) ==
  IF ids = << >> \/ Len(s.queue) + Len(ids) > QueueCap
  THEN [action |-> "reject", state |-> s, admittedNow |-> << >>]
  ELSE EnqueueUnchecked(s, mode, ids)

EnqueueGroup(s, mode, ids) ==
  LET idle     == s.groups = << >>
      appended == [running |-> s.running,
                   queue   |-> s.queue \o ids,
                   groups  |-> Append(s.groups, [mode |-> mode, members |-> {},
                                                 pending |-> ids])]
      final    == IF idle THEN DrainAdmission(appended).state ELSE appended
      group    == final.groups[Len(final.groups)]
      reject   == \/ ids = << >>
                  \/ Cardinality(Elements(ids)) # Len(ids)
                  \/ mode = "parallel" /\ Len(ids) > Cap
                  \/ Len(final.queue) > QueueCap
  IN  IF reject
      THEN [action |-> "reject", state |-> s, admittedNow |-> << >>]
      ELSE [action |-> "accepted", state |-> final,
            admittedNow |-> Filter(ids, Delegations \ Elements(group.pending))]

\* The admitted and the waiting delegations
Live(s) == s.running \union Elements(s.queue)
=============================================================================
