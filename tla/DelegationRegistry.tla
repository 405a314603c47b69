------------------------- MODULE DelegationRegistry -------------------------
(***************************************************************************)
(* extensions/subagent/delegation-registry.ts: one session's registry.  It *)
(* applies the admission policy of AdmissionOps, spawns children through   *)
(* the runner, publishes every transition, resolves receipts and waits,    *)
(* and sends one completion note per delegation.                           *)
(*                                                                         *)
(* Node runs one callback at a time, but a callback of the registry        *)
(* reenters it: a spawn may settle synchronously (a caller's signal that   *)
(* is already aborted, a spawn that throws), onSettle then promotes and    *)
(* spawns the next delegation inside the frame that is still spawning the  *)
(* first.  `calls` is that call stack, next call first.  A public method,  *)
(* a child's exit and a wait's timer are entries, taken when the stack is  *)
(* empty; every other step runs the call on top of the stack.              *)
(*                                                                         *)
(* Not in this module: the runner's own life of a child (a child is        *)
(* unborn, running or over), ids and GUIDs, the payload of records and     *)
(* notes, and killAllImmediate, which changes no state of the registry.    *)
(***************************************************************************)
EXTENDS AdmissionOps

CONSTANTS GroupSize,  \* the longest group a caller enqueues
          WaitSets,   \* the id sets callers wait for
          MaxWaits    \* waits pending at a time

ASSUME BoundsAssumption ==
  /\ GroupSize \in Nat
  /\ WaitSets \subseteq SUBSET Delegations
  /\ MaxWaits \in Nat

VARIABLES
  admission,  \* the admission state
  records,    \* where an id stands in the records map: "handle" is the
              \* live record of the runner's handle, whose state is `child`
  requests,   \* the ids in queuedRequests
  child,      \* the runner's view of the delegation
  done,       \* the receipt's promise
  wire,       \* the states emitted for the id, in order
  notes,      \* completion notes sent for the id
  waits,      \* the pending waits
  stopped,
  calls       \* the call stack

vars == <<admission, records, requests, child, done, wire, notes, waits, stopped, calls>>

Call(op, id) == [op |-> op, id |-> id]

\* The calls that are about no delegation: the checkWaiters at the end of
\* abortMany and the rest of shutdown
Check == [op |-> "check"]
Wipe == [op |-> "wipe"]

\* One call per id, in the ids' order
Calls(op, ids) == [i \in 1 .. Len(ids) |-> Call(op, ids[i])]

Init ==
  /\ admission = EmptyAdmission
  /\ records = [id \in Delegations |-> "absent"]
  /\ requests = {}
  /\ child = [id \in Delegations |-> "unborn"]
  /\ done = [id \in Delegations |-> "none"]
  /\ wire = [id \in Delegations |-> << >>]
  /\ notes = [id \in Delegations |-> 0]
  /\ waits = {}
  /\ stopped = FALSE
  /\ calls = << >>

\* Ids are allocated once, so a delegation's history stays with its id.
Unused == {id \in Delegations : done[id] = "none"}

WithRecord(state) == {id \in Delegations : records[id] = state}

Running == {id \in WithRecord("handle") : child[id] = "running"}

Updated(f, ids, value) == [id \in Delegations |-> IF id \in ids THEN value ELSE f[id]]

\* emitTransition, for ids that all move to the same state.  shutdown sets
\* `stopped` before everything else it does, hence stopped'.
Emitted(ids, state) ==
  [id \in Delegations |->
     IF id \in ids /\ ~stopped' THEN Append(wire[id], state) ELSE wire[id]]

\* Mutant: notify does not look at `stopped`.
Notified_Always(ids) ==
  [id \in Delegations |-> IF id \in ids THEN notes[id] + 1 ELSE notes[id]]

\* notify
Notified(ids) ==
  [id \in Delegations |-> IF id \in ids /\ ~stopped' THEN notes[id] + 1 ELSE notes[id]]

\* isSettled: an id without a record counts as lost.
Settled(id, recs, kids) ==
  \/ recs[id] \in {"absent", "aborted"}
  \/ recs[id] = "handle" /\ kids[id] = "over"

\* checkWaiters: the waits that remain
StillWaiting(recs, kids) == {w \in waits : \E id \in w.ids : ~Settled(id, recs, kids)}

\* Mutant: a queued abort sends no note.
SettleQueuedAborts_NoNote(ids) ==
  /\ records' = Updated(records, ids, "aborted")
  /\ requests' = requests \ ids
  /\ wire' = Emitted(ids, "over")
  /\ done' = Updated(done, ids, "resolved")
  /\ notes' = notes
  /\ waits' = StillWaiting(records', child)

\* Mutant: a state the rest of the registry does not know.
SettleQueuedAborts_Cancelled(ids) ==
  /\ records' = Updated(records, ids, "cancelled")
  /\ requests' = requests \ ids
  /\ wire' = Emitted(ids, "over")
  /\ done' = Updated(done, ids, "resolved")
  /\ notes' = Notified(ids)
  /\ waits' = StillWaiting(records', child)

\* settleQueuedAbort, for a set of queued delegations, one after the other
\* with nothing else in between
SettleQueuedAborts(ids) ==
  /\ records' = Updated(records, ids, "aborted")
  /\ requests' = requests \ ids
  /\ wire' = Emitted(ids, "over")
  /\ done' = Updated(done, ids, "resolved")
  /\ notes' = Notified(ids)
  /\ waits' = StillWaiting(records', child)

-----------------------------------------------------------------------------
(***************************************************************************)
(* Entries.                                                                *)
(***************************************************************************)

Entry == calls = << >> /\ ~stopped

Start(id) ==
  LET step == AdmitRequest(admission, id)
  IN  /\ Entry
      /\ id \in Unused
      /\ step.action # "reject"
      /\ UNCHANGED <<child, notes, waits, stopped>>
      /\ admission' = step.state
      /\ done' = [done EXCEPT ![id] = "pending"]
      /\ \/ /\ step.action = "queue"
            /\ records' = [records EXCEPT ![id] = "queued"]
            /\ requests' = requests \union {id}
            /\ wire' = Emitted({id}, "queued")
            /\ UNCHANGED calls
         \/ /\ step.action = "admit"
            /\ calls' = Calls("spawn", <<id>>)
            /\ UNCHANGED <<records, requests, wire>>

\* The registry allocates distinct ids for the members.
MemberLists ==
  {ids \in UNION {[1 .. n -> Unused] : n \in 1 .. GroupSize} :
     \A i, j \in DOMAIN ids : ids[i] = ids[j] => i = j}

\* Phase 1 registers every member before phase 2 spawns the admitted ones.
StartGroup(mode, ids) ==
  LET step   == EnqueueGroup(admission, mode, ids)
      queued == Elements(ids) \ Elements(step.admittedNow)
  IN  /\ Entry
      /\ step.action # "reject"
      /\ UNCHANGED <<child, notes, waits, stopped>>
      /\ admission' = step.state
      /\ done' = Updated(done, Elements(ids), "pending")
      /\ records' = Updated(records, queued, "queued")
      /\ requests' = requests \union queued
      /\ wire' = Emitted(queued, "queued")
      /\ calls' = Calls("spawn", step.admittedNow)

\* A child ends: it exits, its timeout or liveness watchdog fires, or the
\* caller's signal aborts it.  The runner's finishSettle calls onSettle and
\* then notifyComplete.
ChildEnds(id) ==
  /\ calls = << >>
  /\ child[id] = "running"
  /\ child' = [child EXCEPT ![id] = "over"]
  /\ calls' = <<Call("settle", id), Call("note", id)>>
  /\ UNCHANGED <<admission, records, requests, done, wire, notes, waits, stopped>>

\* abort and clearQueue; clearQueue aborts, one by one, what was queued when
\* it was called.
AbortEach(op, ids) ==
  /\ Entry
  /\ ids # << >>
  /\ calls' = Calls(op, ids)
  /\ UNCHANGED <<admission, records, requests, child, done, wire, notes, waits, stopped>>

Abort(id) == ~Settled(id, records, child) /\ AbortEach("abort", <<id>>)

ClearQueue == AbortEach("clear", admission.queue)

Orders(ids) ==
  {s \in [1 .. Cardinality(ids) -> ids] : \A i, j \in DOMAIN s : s[i] = s[j] => i = j}

\* Mutant: the queue drains before all of the selection is removed.
AbortMany_DrainsEarly(ids, next) ==
  LET queued == ids \intersect WithRecord("queued")
  IN  /\ SettleQueuedAborts(queued)
      /\ \E first \in SUBSET queued, order \in Orders(ids \intersect Running) :
           LET drain == RemovePending(admission, first)
           IN  /\ admission' = RemovePending(drain.state, queued).state
               /\ calls' = (IF stopped' THEN << >> ELSE Calls("dequeue", drain.admitted))
                           \o Calls("kill", order) \o <<Check>> \o next
      /\ UNCHANGED child

\* abortMany removes all of the selected queued delegations before its
\* single drain, and only then kills the selected running ones.  The source
\* kills in the records' order; here any order may be taken.
AbortMany(ids, next) ==
  LET queued == ids \intersect WithRecord("queued")
      drain  == RemovePending(admission, queued)
  IN  /\ admission' = drain.state
      /\ SettleQueuedAborts(queued)
      /\ \E order \in Orders(ids \intersect Running) :
           calls' = (IF stopped' THEN << >> ELSE Calls("dequeue", drain.admitted))
                    \o Calls("kill", order) \o <<Check>> \o next
      /\ UNCHANGED child

AbortSelected(ids) ==
  /\ Entry
  /\ \A id \in ids : ~Settled(id, records, child)
  /\ UNCHANGED stopped
  /\ AbortMany(ids, << >>)

Shutdown ==
  /\ Entry
  /\ stopped' = TRUE
  /\ AbortMany(Delegations, <<Wipe>>)

Wait(ids, timed) ==
  /\ Entry
  /\ Cardinality(waits) < MaxWaits
  /\ \E id \in ids : ~Settled(id, records, child)
  /\ waits' = waits \union {[ids |-> ids, timed |-> timed]}
  /\ UNCHANGED <<admission, records, requests, child, done, wire, notes, stopped, calls>>

WaitTimesOut(w) ==
  /\ calls = << >>
  /\ w.timed
  /\ waits' = waits \ {w}
  /\ UNCHANGED <<admission, records, requests, child, done, wire, notes, stopped, calls>>

-----------------------------------------------------------------------------
(***************************************************************************)
(* Calls.  Each one runs the top of the stack and replaces it by the calls *)
(* it makes.                                                               *)
(***************************************************************************)

Run(op, id) == calls # << >> /\ Head(calls) = Call(op, id)

Return(made) == calls' = made \o Tail(calls)

\* spawnNow: runner.run either returns a live child or settles it before it
\* returns; then the record is replaced by the handle's.
SpawnNow(id) ==
  \/ /\ child' = [child EXCEPT ![id] = "running"]
     /\ Return(<<Call("attach", id)>>)
  \/ /\ child' = [child EXCEPT ![id] = "over"]
     /\ Return(<<Call("settle", id), Call("note", id), Call("attach", id)>>)

Spawn(id) ==
  /\ Run("spawn", id)
  /\ SpawnNow(id)
  /\ UNCHANGED <<admission, records, requests, done, wire, notes, waits, stopped>>

\* spawnQueued
SpawnQueued(id) ==
  /\ Run("dequeue", id)
  /\ \/ /\ records[id] = "queued" /\ id \in requests
        /\ requests' = requests \ {id}
        /\ SpawnNow(id)
     \/ /\ records[id] # "queued" \/ id \notin requests
        /\ Return(<< >>)
        /\ UNCHANGED <<requests, child>>
  /\ UNCHANGED <<admission, records, done, wire, notes, waits, stopped>>

\* Mutant: "running" is emitted even if the run settled inside its spawn.
Attach_AlwaysEmits(id) ==
  /\ Run("attach", id)
  /\ UNCHANGED <<admission, requests, child, done, notes, waits, stopped>>
  /\ records' = [records EXCEPT ![id] = "handle"]
  /\ wire' = Emitted({id}, "running")
  /\ Return(<< >>)

\* spawnNow, once runner.run has returned
Attach(id) ==
  /\ Run("attach", id)
  /\ UNCHANGED <<admission, requests, child, done, notes, waits, stopped>>
  /\ records' = [records EXCEPT ![id] = "handle"]
  /\ wire' = IF child[id] = "running" THEN Emitted({id}, "running") ELSE wire
  /\ Return(<< >>)

\* onSettle of a registry that is not stopped, for the mutants
Settling(id, resolved, waiting, made) ==
  /\ Run("settle", id)
  /\ UNCHANGED <<records, requests, child, notes, stopped>>
  /\ wire' = Emitted({id}, "over")
  /\ admission' = ReleaseRun(admission, id).state
  /\ done' = [done EXCEPT ![id] = resolved]
  /\ waits' = waiting
  /\ Return(made)

\* Mutant: pending waits are not looked at.
OnSettle_NoCheck(id) ==
  Settling(id, "resolved", waits, Calls("dequeue", ReleaseRun(admission, id).admitted))

\* Mutant: what the release admits is not spawned.
OnSettle_NoDispatch(id) == Settling(id, "resolved", StillWaiting(records, child), << >>)

OnSettle(id) ==
  LET release == ReleaseRun(admission, id)
  IN  /\ Run("settle", id)
      /\ UNCHANGED <<records, requests, child, notes, stopped>>
      /\ \/ /\ stopped
            /\ Return(<< >>)
            /\ UNCHANGED <<admission, done, wire, waits>>
         \/ /\ ~stopped
            /\ wire' = Emitted({id}, "over")
            /\ admission' = release.state
            /\ done' = [done EXCEPT ![id] = "resolved"]
            /\ waits' = StillWaiting(records, child)
            /\ Return(Calls("dequeue", release.admitted))

Notify(id) ==
  /\ Run("note", id)
  /\ UNCHANGED <<admission, records, requests, child, done, wire, waits, stopped>>
  /\ notes' = Notified({id})
  /\ Return(<< >>)

\* The three ways to abort one delegation: abort itself, a step of
\* clearQueue's loop, which spares what is no longer queued, and the last
\* loop of abortMany, which is left with the running ones.
AbortQueued(id) ==
  LET removed == RemovePending(admission, {id})
  IN  /\ Run("abort", id) \/ Run("clear", id)
      /\ records[id] = "queued"
      /\ UNCHANGED <<child, stopped>>
      /\ admission' = removed.state
      /\ SettleQueuedAborts({id})
      /\ Return(IF stopped THEN << >> ELSE Calls("dequeue", removed.admitted))

AbortRunning(id) ==
  /\ Run("abort", id) \/ Run("kill", id)
  /\ id \in Running
  /\ child' = [child EXCEPT ![id] = "over"]
  /\ Return(<<Call("settle", id), Call("note", id)>>)
  /\ UNCHANGED <<admission, records, requests, done, wire, notes, waits, stopped>>

Spare(id) ==
  /\ Run("clear", id)
  /\ records[id] # "queued"
  /\ Return(<< >>)
  /\ UNCHANGED <<admission, records, requests, child, done, wire, notes, waits, stopped>>

CheckWaiters ==
  /\ calls # << >> /\ Head(calls) = Check
  /\ waits' = StillWaiting(records, child)
  /\ Return(<< >>)
  /\ UNCHANGED <<admission, records, requests, child, done, wire, notes, stopped>>

\* The end of shutdown: the maps are cleared, so every id counts as settled.
Clear ==
  /\ calls # << >> /\ Head(calls) = Wipe
  /\ records' = [id \in Delegations |-> "absent"]
  /\ requests' = {}
  /\ waits' = StillWaiting(records', child)
  /\ Return(<< >>)
  /\ UNCHANGED <<admission, child, done, wire, notes, stopped>>

Step ==
  \/ \E id \in Delegations :
       Spawn(id) \/ SpawnQueued(id) \/ Attach(id) \/ OnSettle(id) \/ Notify(id)
         \/ AbortQueued(id) \/ AbortRunning(id) \/ Spare(id)
  \/ CheckWaiters
  \/ Clear

Next ==
  \/ \E id \in Delegations : Start(id) \/ ChildEnds(id) \/ Abort(id)
  \/ \E mode \in Modes, ids \in MemberLists : StartGroup(mode, ids)
  \/ ClearQueue
  \/ \E ids \in SUBSET Delegations : AbortSelected(ids)
  \/ Shutdown
  \/ \E ids \in WaitSets, timed \in BOOLEAN : Wait(ids, timed)
  \/ \E w \in waits : WaitTimesOut(w)
  \/ Step

\* Node runs every callback to its end, and every child ends: it exits, or
\* the runner's timeout or liveness watchdog aborts it.  Only Step leaves a
\* state with calls, and by CallsFindTheirTarget it always can; only the end
\* of a child takes it out of "running".  So the conjuncts are the weak
\* fairness of Step and of those ends.
Fairness ==
  /\ []<>(calls = << >>)
  /\ \A id \in Delegations : []<>(child[id] # "running")

Spec == Init /\ [][Next]_vars /\ Fairness

-----------------------------------------------------------------------------
(***************************************************************************)
(* Safety.  Most of what the registry keeps in step is out of step while   *)
(* a callback runs; it must be in step again when the callback returns.    *)
(***************************************************************************)

Idle == calls = << >>

Ops == {"spawn", "dequeue", "attach", "settle", "note", "abort", "clear", "kill"}

\* The shape of the state.
TypeOK ==
  /\ admission \in AdmissionState
  /\ records \in [Delegations -> {"absent", "queued", "aborted", "handle"}]
  /\ requests \subseteq Delegations
  /\ child \in [Delegations -> {"unborn", "running", "over"}]
  /\ done \in [Delegations -> {"none", "pending", "resolved"}]
  /\ wire \in [Delegations -> Seq({"queued", "running", "over"})]
  /\ notes \in [Delegations -> Nat]
  /\ waits \subseteq [ids : WaitSets, timed : BOOLEAN]
  /\ stopped \in BOOLEAN
  /\ calls \in Seq([op : Ops, id : Delegations] \union {Check, Wipe})

\* A slot is never lost and never used without a delegation: between
\* callbacks the admitted ids are exactly the live children and the waiting
\* ids exactly the queued records with a request to spawn them from, however
\* spawns, synchronous settles, aborts and promotions were nested.  A
\* promotion that spawnQueued drops would leave a phantom in a slot (review
\* M1 in enqueueGroup).  And a live child holds a slot at every moment, also
\* in the middle of a callback: no more than Cap run at any instant.
SlotsMatchChildren ==
  /\ Idle /\ ~stopped =>
       /\ admission.running = Running
       /\ Elements(admission.queue) = WithRecord("queued")
       /\ requests = WithRecord("queued")
  /\ {id \in Delegations : child[id] = "running"} \subseteq admission.running
  /\ Cardinality(admission.running) <= Cap

Over(id) == records[id] = "aborted" \/ child[id] = "over"

\* R5: exactly one completion note for each delegation that is over, from
\* whichever of the runner and the registry settles it, and none before; and
\* its receipt is resolved just then, for those who block on it, also if it
\* settles before start returns.
EndIsTold ==
  Idle /\ ~stopped => \A id \in Delegations :
    /\ notes[id] = IF Over(id) THEN 1 ELSE 0
    /\ done[id] = "resolved" <=> Over(id)

\* Subscribers of the delegation events see every life in order: no state
\* twice, none after the end, and between callbacks the last one they saw
\* is the delegation's state.
WireInOrder ==
  \A id \in Delegations :
    /\ wire[id] \in {<< >>, <<"queued">>, <<"running">>, <<"over">>, <<"queued", "running">>,
                     <<"queued", "over">>, <<"running", "over">>,
                     <<"queued", "running", "over">>}
    /\ Idle /\ ~stopped /\ done[id] # "none" =>
         wire[id][Len(wire[id])] = IF Over(id) THEN "over"
                                   ELSE IF id \in Running THEN "running" ELSE "queued"

\* The run was promoted from the queue and settled inside its own spawn.
SettledInPromotion(id) == records[id] = "handle" /\ wire[id] = <<"queued", "over">>

\* A pending wait has something left to wait for, except for runs that
\* settle inside their own promotion (see WaitsAreServed).
OtherWaitsAreServed ==
  Idle => \A w \in waits :
            \E id \in w.ids : ~Settled(id, records, child) \/ SettledInPromotion(id)

-----------------------------------------------------------------------------
(***************************************************************************)
(* Steps, progress and the contract.                                       *)
(***************************************************************************)

\* Every queued delegation is eventually started or cancelled, through
\* promotions, synchronous settles and aborts in any order.
QueuedIsServed == \A id \in Delegations : records[id] = "queued" ~> records[id] # "queued"

Phase(id) ==
  CASE child[id] = "running"                       -> "running"
    [] child[id] = "over"                          -> "over"
    [] child[id] = "unborn" /\ done[id] = "none"     -> "none"
    [] child[id] = "unborn" /\ done[id] = "pending"  -> "waiting"
    [] child[id] = "unborn" /\ done[id] = "resolved" -> "over"

Contract == INSTANCE DelegationContract WITH
  phase  <- [id \in Delegations |-> Phase(id)],
  told   <- {id \in Delegations : notes[id] > 0},
  closed <- stopped

\* The registry implements DelegationContract at every step of every
\* callback: one start, one end and one note each, never more than Cap runs.
KeepsContract == Contract!Spec

(***************************************************************************)
(* A sentence of the source that the code does not keep (see README).      *)
(***************************************************************************)

\* wait: resolves "with per-id state snapshots" once its ids are terminal.
WaitsAreServed ==
  Idle => \A w \in waits : \E id \in w.ids : ~Settled(id, records, child)
=============================================================================
