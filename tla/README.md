# A TLA+ model of pi-badger-integration

The repository holds two bodies of program logic. The TypeScript under
`extensions/` and `features/pi/adjustments/adapter/` extends the pi coding
agent; its most intricate part is the *subagent* extension, which runs other pi
processes as delegations of a session. The Python under `.ai-badger/` is the
runtime of the badger engine: a SQLite store shared by many short-lived
processes (hooks, scripts, servers), and the services built on it. The same
`badger_store.py` lies in fourteen directories, byte for byte; it is modelled
once, from `.ai-badger/engine/`.

Paths below are relative to the repository's root.

## 1. Inventory

### The delegation engine (`extensions/subagent/`)

| Component | State | Operations | Talks to | What makes it correct |
|---|---|---|---|---|
| Admission policy (`delegation-core.ts`, 553-831) | `running`, `queue`, `groups`; plain values, pure functions | `admitRequest`, `enqueueGroup`, `drainAdmission`, `releaseRun`, `removePending` | called by the registry | caps hold, each delegation is in one place, groups keep their discipline, first come first served, nothing waits for ever |
| Registry (`delegation-registry.ts`) | admission, records, handles, receipts, queued requests, waiters, `stopped` | `start`, `enqueueGroup`, `clearQueue`, `abort`, `abortMany`, `shutdown`, `wait`; callbacks `onSettle`, `notify` | calls the runner, which calls back synchronously | slots match children, one note and one receipt each, events in order, silence after shutdown |
| Runner (`delegation-runner.ts`) | one `RunState` per run: child, timers, `settled`, parsed events, log sink | `run`, `abort`; handlers for output, close, error, timers | child process, log sink, registry | settles once, no orphan timer or child, respawns at most once, the log reconstructs the outcome |
| Note delivery (`index.ts` 851-930, 1041; `result-cache.ts`) | `heldNotes`, window timer, ring of results | `deliverNote`, `flushHeldNotes`, window timer, `session_shutdown` | pi's message API | every note once, in order, with its result |

Concurrency in this engine is Node's: a handler runs to its end. What makes it
hard is that handlers *reenter*: `runner.run` may settle before it returns (a
signal that is already aborted, a spawn that throws), the settle calls
`onSettle`, which promotes and spawns further runs, whose spawns may settle
again, all inside the frame that is still spawning the first. The other
sources of trouble are child processes that hang, ignore SIGTERM, write after
they were given up, or end twice (error and close), and timers that race them.

### The Python runtime (`.ai-badger/`)

| Component | State | Operations | Talks to | What makes it correct |
|---|---|---|---|---|
| Task plan and graph (`task_graph.py`, `task_plan_model.py`, `task_plan_store.py`, `task_graph_server.py`) | one row per plan: revision and document | the tools `step_start`, `step_complete`, `step_fail`, `step_skip`, `ac_check`, plan submission; ready set, waves | the tracking store; several agents, each with its own server | no lost update, valid documents, steps finish in order, dispatchable waves, calls that may be repeated |
| Message store and delivery hook (`badger_store.py`, `message_delivery_hook.py`) | `messages`, `cursors`, two prune stamps | `send_message`, `deliver_for_session`, prunes | the hooks of all sessions | each message once and in order, none skipped, no flood of old mail |
| Store migration (`badger_store.py`) | key-value tables, stamps, legacy files, `.write.lock` | `kv_get`, `kv_set`, `kv_update`, `kv_delete`, lazy import | processes that crash anywhere; an older version that still writes the files | no key lost, no write undone, no resurrected file swallowed |
| Memory broker (`memory_broker.py`, `memory_context.py`) | one shared proxy session, waiters by request id, two locks | request, reader thread, retire, reopen, close | client threads; the proxy process | answers go to their askers, one living proxy |

Here the concurrency is that of processes and threads. A SQLite transaction is
atomic; what is not atomic is what lies between two of them, or between a
transaction and a file: a document read and written back with its revision, an
import that commits and then renames a file, a read that looks at the table and
then at the file, a request that registers its waiter and then writes.

### The rest of the repository

| Component | State and hard behaviour |
|---|---|
| Identity and index (`extensions/subagent/index.ts` 978-1005, `global-index.ts`) | a log directory and an index file shared by sessions; ids allocated by listing, entries appended and compacted through one temporary file |
| Monitors and waits (`extensions/monitor`) | armed monitors; predicates evaluated asynchronously and guarded by epochs; one-shot fire; a wait tool that resolves once |
| Message bus in pi (`extensions/message-bus`, adapter `bus-*.ts`) | further readers of the cursors, outside of a transaction; a startup gate; acknowledgement |
| Router fallback (`extensions/router-fallback`) | episodes, latched provider failures, at most one switch per episode, awaited switches that outlive the episode |
| Task tracker and resume (`.ai-badger`) | entries of blocked and resumed sessions, bounded resume attempts from a cron job |
| Memory-first gate, raw text search (`.ai-badger`) | markers and claims over the key-value store |
| Decision router, query pipeline, memory retrieval, MCP index | clients of external services, with budgets and fallbacks; mostly data |
| Hook adapter and hook runtime, guards, reminders | one process and one decision per event |
| Queue tool, status surface, skip guard, pi-cron, rtk, session signals, console capture, update check, task rename, shift-enter newline, scaffold, `publish.ts` | front ends, generators and small or pure I/O |

`PROJECT.json` lists each with its files and says why a part is not modelled.
Its `hazards` name the places where the code can go wrong in a way a unit test
would hardly reach, and the properties that look there.

## 2. The modules

| Module | Models | State |
|---|---|---|
| `AdmissionOps` | the pure functions of the admission policy | none |
| `Admission` | those functions called in any order | `adm` is the `GroupAdmissionState` |
| `DelegationContract` | what a session is promised of a delegation: asked for once, started at most once, ended once, told once, no more than `Cap` at a time | `phase`, `told`, `closed` |
| `DelegationRegistry` | the registry on top of `AdmissionOps`; implements `DelegationContract` | the registry's fields and its call stack |
| `DelegationRunner` | one run, from spawn to settle and beyond | the `RunState`, Node's timers, the children, the log |
| `NoteDelivery` | batching of completion notes and the result ring | `heldNotes`, the window, the ring |
| `TaskGraph` | order, readiness and waves of a plan's steps | none |
| `TaskPlan` | one stored plan under the tools of several agents | the row, and a document some agent has read |
| `MessageBus` | the mailbox of the user database | its two tables, the clock |
| `StoreMigration` | the lazy import of a legacy file under concurrent use | table, stamp, file, lock, each process's place in its operation |
| `MemoryBroker` | the broker's multiplexer | sessions, waiters, locks, each client thread's place |
| `AdmissionLemmas` | what the operations of `AdmissionOps` keep | none |
| `AdmissionProofs`, `RegistryProofs`, `RunnerProofs`, `DeliveryProofs`, `PlanProofs`, `BrokerProofs` | proofs about the module each is named for (section 5) | |
| `StoreProofs` | proofs about the two models of `badger_store.py`, `StoreMigration` and `MessageBus` | |
| `MC...` | instances for TLC | |

The delegation modules compose along the calls of the code.
`DelegationRegistry` uses the operators of `AdmissionOps` for every change of
its admission state and sees of a child only "unborn", "running" or "over";
`DelegationRunner` refines that life and promises exactly one settle
(`SettledOnce`, `RunSettles`), which is what `ChildEnds`, `SpawnNow` and
`AbortRunning` of the registry assume; `NoteDelivery` takes the registry's
notes, one per delegation (`EndIsTold`). `TaskPlan` is built on `TaskGraph` in
the same way as `Admission` on `AdmissionOps`. `TaskPlan` and `MessageBus` take
from the store what the code takes: transactions that are atomic.

**AdmissionOps and Admission.** `AdmitRequest`, `EnqueueGroup`, `ReleaseRun`,
`RemovePending` and `DrainAdmission` are the source's functions; each returns
the next state and the decision. The drain admits at most one head batch, as
in the code. Filters and `flatMap` are recursive functions (`Filter`,
`FlatPending`), so that they can be proved about. Group ids and queue
positions are left out: the first are names, the second are indices of
`queue`. An id that left the state may come back as a new delegation.

**DelegationRegistry.** The call stack is explicit: `calls` holds the calls
still to be made by the frames of the current callback, next call first.
Entries (public methods, a child's exit, a wait's timer) are taken when it is
empty; every other action executes its head. `records[id]` says where an id
stands in the `records` map (absent, queued, aborted, or replaced by the
handle's record, whose state is `child[id]`). `SpawnNow` chooses whether
`runner.run` returns a live child or settles first; `attach` is what
`spawnNow` does after it. `onSettle` then `notifyComplete`, the order of
the runner's `finishSettle`, are `<<settle, note>>`. Left out: payloads,
exceptions thrown by collaborators, `killAllImmediate` (no caller, and it
changes nothing of the registry).

**DelegationRunner.** `process`, `signals`: the two possible children.
`timers` are the timers pending in Node, `handle` the fields of `RunState`
through which the code clears them; keeping both shows lost handles. Events
are the kinds a decision depends on. `usage` says whether the record shows the
"sum" of the turns or a "floor". `log` is the sequence of markers in the log
file; any write may fail, which turns the sink off for good. A handler is one
action; a child's exit, its `close` and its `error` are separate steps.

**NoteDelivery.** A note is the number of its arrival. `ring` is the result
cache; each sent card records whether its result was still cached. `taken` says
whether `pi.sendMessage` returned or threw; a throw skips what follows it in
the handler (the window is not opened, the registry is not shut down).

**TaskGraph and TaskPlan.** A plan is a function from step numbers, in the
order the code sorts ids, to records; lists of which only the members matter
are sets. Each tool runs in one `BEGIN IMMEDIATE` transaction and is one
action: a function of the stored document that gives the next document, a
replay, or a refusal, and a write that is accepted under the revision the
caller names. What interleaves is between tools: `seen` is a document some
agent read and acts on while others write. `last` is the call behind the
current revision, so that its repetition can be looked at. Timestamps, texts
and rendering are left out; a record stands for a note with its evidence.
The sort and the packing of waves are recursive functions of the number of
steps done.

**MessageBus.** `SendMessage`, `DeliverForSession`, `PruneMessages` and
`PruneCursors` are transactions; `ReplaceDatabase` is what the code guards
against with its cursor check (a user database that was restored or removed).
A hook resolves its session's project or none. Mail counts as handed over when
the cursor passes it, because the hook prints after the commit. `BusInit`,
`BusNext`, `BusSpec` and `BusTypeOK` bear the prefix because `StoreProofs`
extends this module beside `StoreMigration`.

**StoreMigration.** One family of kind `map`. An operation is a small program
(`proc[p].pc`): open, look for the file, check its age against the stamp, take
the lock, import and commit, rename, write; a read looks at the table, then at
the file. A process may crash between any two steps, which frees its lock.
`LegacyWrite` is the older version writing the file under the lock. Times are
reduced to the one comparison the code makes, `newer`. The faults of the model
are crashes and races: a read that answers "missing" because SQL or the file
system failed (the fail-open of D31, `badger_store.py:989`, 1077) is outside
of it, so `MissedOnlyInMigration` says nothing of such a miss. A file that
cannot be parsed, or does not have the family's shape (1660, 1668-1671), is the
empty file of the model; a file that cannot be read for the moment, which the
code takes for an empty one too, is not modelled. `raced` marks
every read that overlapped an import, also of a file without its key.

**MemoryBroker.** A client thread serves one connection; a section under the
state lock is one action, with what the thread does by itself until it next
looks at shared state. `_retire` is one step. A deadline may pass whenever a
thread waits. The thread that warms the broker up is a client that gives up as
soon as it has its session. Each reader thread ends in two steps, as in the
code: it leaves its loop and wakes its waiters, then it closes its session.
Replies are looked up by the ids the broker gave out: a request that the proxy
starts by itself, whose id of its own may collide with one of these, is not
modelled, nor is the reuse of a descriptor number when `stdin` is closed under
a writer.

## 3. Checks

Every run is a `.cfg` next to the modules.

| Run | Bounds | Shows |
|---|---|---|
| `admission` | 5 concurrent ids, Cap 2, QueueCap 3, groups up to 3 | caps, `OnePlace`, `GroupDiscipline`, `NoWedge`, `NoOvertaking`, `EventuallyServed` |
| `registry` | 3 delegations, Cap 2, QueueCap 2, groups up to 3, waits on one or two ids | slots against children, one end and one note each, events in order, at every depth of reentrancy; `KeepsContract`, the refinement of `DelegationContract`; `QueuedIsServed`, `OtherWaitsAreServed` |
| `runner` | all four kinds of request, watchdog on, 3 events | one settle, held timers, a log that tells the outcome (`LogTellsTheOutcome`), `RunSettles`, `UnretriedChildDies` |
| `delivery` | 7 notes, batches of 3, ring of 3 | once and in order, with results, `HeldIsSent` |
| `plan` | three plans of 2 or 3 steps (a join with a shared file, a chain, a cycle), 4 revisions, 2 pieces of evidence per criterion, symmetry of records | valid documents, `RevisionNamesTheDocument`, `FinishedInOrder`, `WavesAreSafe`, `RepeatedCallIsNoOp` |
| `bus` | 2 sessions, 1 reader, 3 messages, clock 0-3 with window 1 and retention 2, start cap 1 | `OnceInOrder`, `NothingIsSkipped`, `BacklogStaysGated` |
| `store` | 2 processes, 2 keys, 2 values, the older version, crashes; symmetry | `StoreWritesStand`, `MissedOnlyInMigration`, `KeysSurvive` |
| `broker` | 3 clients, 2 sessions, 4 ids; symmetry | `AnswersReachTheirCaller`, `OneProxy` |
| `registry_forgotten`, `runner_kill_retry`, `runner_killed`, `store_stale` | as the runs they belong to | section 4 |

Why these bounds are enough. With Cap 2 and groups of 3 there are parallel
groups that fit, that must wait for one slot or for two, and that can never
fit; in `admission`, QueueCap 3 is reached by single requests and overrun by
groups. In the registry three delegations are a running one, one that its
settle promotes, and one more that the settle of the promoted one, inside its
own spawn, promotes from within; more only lengthen the cascade, and the proofs
cover every length. The runner
decides on kinds of event and on the last turn, so that three events reach
every combination of progress, last turn and trailing line. A batch of 3 in a
ring of 3 is the tight case of `BATCH_MAX_CARDS <= RESULT_CACHE_LIMIT` (6 and
8 in the code); 7 notes are a lead, two full batches, and more than the ring
holds. Three steps make a join, a chain, and a conflict inside one wave and
across two; four revisions let a stale agent be overtaken, refused and
overtaken again. In the bus, a window of 1 below a retention of 2 separates
"too old for a first read", "pruned" and "cursor pruned" on a clock of 3; a
start cap of 1 is exceeded by two messages and the third arrives late.
Sessions are independent but for what they send, so one reader stands for all.
In the store two processes are the race; a third only repeats one of them. Two
keys tell a write of the key in question from a write beside it. The broker
needs a client under each lock and one that waits, and a second session for
each way to retire the first. The proofs of section 5 lift these bounds for
every safety property.

Deadlock checking is off where the system really stops: ids and revisions are
used up, the registry is shut down, the child is gone, all notes are sent, the
clock stands at its bound, the broker's process has ended. `store` is left
idle by a file that every store refuses to open on. It stays on for `admission`.

Fairness. Node runs every callback it started to its end, and every admitted
run settles: its child exits or one of the runner's timers aborts it. The
watchdog is on by default (10 minutes of silence) and renewed by each event,
so a child that never stops writing and has no timeout is beyond this
assumption; `RunSettles` is checked for children that write finitely often
(`MaxEvents`). In `Admission` and `DelegationRegistry` these two facts are
written as `[]<>` (slot released, stack empty), which are equivalent to the
weak fairness of the only actions that can bring them about. In the runner,
weak fairness of the timers, of the death after a SIGKILL, and of Node's close
event; none of the child's own exit or output. In the delivery, the window's
timer. Nobody is assumed to submit, abort, cancel or wait. The four modules of
the Python runtime state no fairness and only safety: its processes are started
by their hosts and may be killed at any time.

## 4. Where the code and its words differ

Four differences are runs that are expected to be violated; the trace is the
evidence.

1. `registry_forgotten`: a wait on a queued run whose promotion settles
   synchronously (aborted signal, throwing spawn) is not resolved. `onSettle`
   checks the waiters while the record is still the queued one and nobody
   checks after `spawnNow` has replaced it. `OtherWaitsAreServed` shows that
   this is the only such case.
2. `runner_kill_retry`: after a fallback retry `sawClose` is still set from
   the first child, so that an abort never escalates to SIGKILL.
   `UnretriedChildDies` holds.
3. `runner_killed`: a child killed by a signal that the runner did not send
   (the kernel's, a user's) settles its run as aborted, but `settleExit` writes
   an exit line for it, and `classifyFromLogDir` calls every log with an exit
   line completed. `LogTellsTheOutcome` shows that this is the only case in
   which the log claims another outcome than the run's.
4. `store_stale`: `_migrate_family` compares the file's age with the stamp
   before it takes the lock; a write of the older version in between is
   imported with `INSERT OR IGNORE`, which drops its newer values, and the file
   is renamed as migrated. `_migrate_file_set` makes the check under the lock.

Others were met while the modules were written, and are part of them as the
code has them:

- `QueueGroup`'s comment (`delegation-core.ts:581`) says that a group waits
  until the previous one is done; the drain (679) admits it while members of
  the previous one still run.
- After `shutdown` the registry (`delegation-registry.ts:495`) drops the receipts of running delegations
  unresolved, although a receipt "resolves" (95).
- Clearing the queue can start queued tasks (`delegation-registry.ts:327`,
  "clear" in `delegation-queue.ts:175`): it aborts them one by one and each
  abort drains. `abortMany`, written for this reason, does not.
- Output that arrives after an abort overwrites the settled usage with the
  display floor (`delegation-runner.ts:445`, 658).
- The log of a run that the runner aborted (on demand, on a timeout, on
  silence) has no terminal line (`delegation-runner.ts:753`, 918), and a restart
  reports the run as lost or stale; only of completed and failed runs does
  `LogTellsTheOutcome` say that the log tells how they ended.
- `ac_check`'s doc (`task_graph_server.py:1094`) calls a repetition a no-op. A
  repetition for a criterion that already had other evidence appends its
  evidence again; `RepeatedCallIsNoOp` leaves that case out (`fresh`).
- After the user database was replaced, new mail with ids up to a surviving
  cursor is skipped once `MAX(id)` has reached the cursor: the check is a
  strict comparison with the highest id, which cannot tell the two databases
  apart. `NothingIsSkipped` counts mail as due from the last time the cursor
  became usable, and so says nothing of it.
- A hook that dies between its commit and its output loses the batch: delivery
  is at most once.
- `kv_get` looks at the table and then at the file. A key that is there all the
  time is missed if the file is imported in between (`MissedOnlyInMigration`
  says only then).
- `memory_broker.py:8` says that a client which gives up costs the others
  nothing; a request whose deadline passes while it writes poisons the shared
  session (`memory_context.py:474`, `memory_broker.py:325`) and the others in
  flight fail with it.
- `memory_broker.py:206` calls two racing starts harmless. The lock file is
  unlinked while its descriptor is held (495), and `open_socket` may remove
  another broker's socket between its bind and its listen (102-120, 459-474).
  These files are not modelled.
- A session opened by a client while `close()` runs (`memory_broker.py:286-299`
  against 398-403) is never retired; it ends with the process. `OneProxy` holds
  through it because such a session is the current one.

## 5. Proofs

Every module's theorems follow one argument: an inductive invariant, `IInv`
(`BusInv` in the bus), which `Init` implies and every action keeps (one lemma per action or per kind
of change), implies the property; the last step is temporal.

### Admission

`AdmissionProofs` proves, for every set of delegations, every `Cap` of at
least 1 (`index.ts` accepts no other) and every `QueueCap` and `GroupSize`:

- `TypeCorrect`: `Spec => []TypeOK`, with a finite set of running delegations;
- `SlotsAreRespected`: never more than `Cap` run;
- `GroupsAreDisciplined`: serial groups run one member at a time, parallel
  groups all or none;
- `AdmissionNeverWedges`: whenever something waits, something runs;
- `LiveInOnePlace`: `OnePlace`;
- `NobodyOvertakes`: the action property `NoOvertaking`.

None of these is inductive by itself. `IInv` has three parts, each a lemma per
operation in `AdmissionLemmas`, which knows no variables, so that the registry's
proofs cite it too. `Sound`: the running delegations are exactly the members of
the groups, what is queued is pending in some group, each group in the FIFO has
something in it and obeys its mode's discipline, and the pending members of a
parallel group fit into `Cap`. `LineMoves`: if a group waits, something runs;
it needs all of `Sound`, because when the last running delegation leaves, the
drain that follows must find a head it can admit, which a serial group is
because an empty `running` leaves no member to block it, and a parallel one
because it fits (`BlockedMeansBusy`). `Orderly`: the groups share no delegation
and the queue is their pending members in order. From `Orderly` alone follows
that a drain, which takes from the first waiting group, overtakes nobody. The
core lemmas are `DrainSound` and `DrainKeepsGroups`. The assumptions used are
`CapsAssumption` and `GroupSizeAssumption`.

### Delegation registry

`RegistryProofs` proves all the safety properties of the run `registry`, for
every set of delegations, all caps, every group size and all wait sets: `TypeIsCorrect`, `SlotsMatchChildrenAlways`,
`EndIsToldAlways`, `WireInOrderAlways`, `OtherWaitsAreServedAlways`, and
`RegistryKeepsItsContract`, the refinement of `DelegationContract`. The
assumptions are `CapsAssumption` and `BoundsAssumption` (the bounds are numbers,
and waits are for sets of delegations).

Most of these properties only speak of the registry at rest, between callbacks.
What makes them true at rest is what holds in the middle of a cascade, at any
depth, and that is what `IInv` says. It gives each delegation a stage of its
life (`Life`): `New`, `Waiting`, `Promoted`, `Accepted`, `Born`, `Runs`, `Ends`
or `Cancelled`. A stage says where the delegation stands in the admission state,
records, requests, child, receipt, events and notes, and exactly which calls
about it are still on the stack: a `Promoted` delegation has its slot and one
`dequeue` to come, a `Born` one its `attach`, one that `Ends` owes a `settle` or
only a `note`. At rest the stack is empty, so only the stages remain in which
nothing is owed, and the properties can be read off them. An action takes its
delegation from one stage to another; to leave every other one in its stage it
must not touch calls about it, which is the stack discipline (`Stacked`): no
call is on the stack twice, and what an entry still has to do itself lies below
what its callbacks have to do. `AdmissionInv` is the invariant of the admission
proofs for the registry's own copy. `Closing` says what is left of this once the
registry is stopped. `Watched` is a second invariant, relative to the first:
each pending wait has a target that is queued, alive, over with an `onSettle`
to come, or settled in its own promotion.

For the refinement, each action of the registry is shown to be a step of the
contract (`AskStep`, `CancelStep`, `EndStep`, `TellStep` and the
like) or to leave the contract's variables alone. That a step is allowed there
(a start only for a delegation asked for, a note only once and after the end, at
most `Cap` running) again follows from the stage.

### Delegation runner

`RunnerProofs` proves all the safety properties of the run `runner`, for every
set of request kinds, with the watchdog on or off, and any number of events:
`Typed`, `SettledOnceAlways`, `TimersAreHeldAlways`, `LogTellsTheOutcomeAlways`.

`SettledOnce` needs two facts about what lies behind the status: a completed
run's child is closed (`CompletedIsClosed`), or a late line would replace the
sum of its usage by the floor of a live view; and the second child is born only
when the first is closed (`Processes`). `LogTellsTheOutcome` is proved by
relating the log and the state both ways. Every line has a cause
(`LinesHaveCauses`: an exit line with a signal is that of an aborted run, one
without that of a completed run), so that the log claims no outcome but the
run's own, also if a failing sink cut it off anywhere, and the reading of an
exit line with a signal as completed is the one exception; and as long as the sink works
every cause has its line (`CausesHaveLines`), so that none is missing. `LogGrows`
is what one write leaves, whichever part of it fails.

### Note delivery

`DeliveryProofs` proves, for any number of notes and every batch size of at least 1
that is no larger than the ring (`DeliveryAssumption`; 6 and 8 in the code):
`DeliveryTyped`, `EachNoteGoesOutOnce` and `EveryCardHasItsResult`.

`IInv` sees three runs of consecutive arrivals: what went out, what is held
(`HeldAreNewest`), and what the ring keeps (`Newest`); the last two end with
the newest note. A card finds its result because the held notes are never more
than the ring keeps. `SentNotes` is a recursive function over the messages;
`CollectedAppend` says what one more message adds to it.

### Task plan

`PlanProofs` proves, for any plans that are submitted, any records and evidence,
and all bounds: `PlansAreValid` (every document that is stored or read satisfies
the validators), `RevisionsNameDocuments`, `StepsFinishInOrder`,
`RepeatedCallsAreNoOps` and `WavesAreAlwaysSafe`. `PlanAssumption` says that the
bounds are numbers, and that a submitted plan has finitely many steps, which are
numbers as everywhere in `TaskGraph`.

The tools are functions of a document, so the argument is about documents:
`ToolChanges` says, for any tool and any valid document, that the result is
valid, that it changes one step in a way that keeps what is satisfied satisfied
(`Changes`), and that the same call on the result is a replay. `OrderKept` is why
steps stay in order through such a change: a step that others rely on never
ceases to be complete or skipped, and one only becomes complete when it waits
on nothing, which force does not override. `NothingYet` is the one addition that
induction needs. Acyclicity is carried along, not proved: the tools that change a
step do not touch dependencies (`SameGraph`), and `plan_replace` and
`plan_create` check the plan they are given.

`WavesAreAlwaysSafe` is about two algorithms, Kahn's sort and the greedy packing
of waves, and holds of every valid document. Each is a recursive function over
the number of steps done. `Recursion` shows that such a function exists, and
`SolutionStays` that it keeps what each of its steps keeps; both come from
`Least`, that a nonempty set of naturals has a least member, which follows from
the library's theorem that `<` is well-founded. The sort keeps `Placed`: the
steps so far are different and each comes after its dependencies. It does not
stop early, because the missing steps would otherwise be a cycle
(`SomeStepIsFree`), so at the end it has all of them (`OrderIsSound`). The
packing keeps `Packed`: each step so far is in one wave, after those it depends
on and apart from those it conflicts with, and one that waits on nothing misses
the first wave only by a conflict (`SlotIsRoom`, `PackAdds`, `PackKeeps`). That
needs the order: the next step may only be put into an earlier wave because no
packed step depends on it.

### Store migration

`StoreProofs` proves, for every set of processes, keys and values, every
property that the run `store` checks: `StoreTypeCorrect`, `WritesStand`,
`MissesAreRaces` and `KeysAreKept`. The assumption, `StoreAssumption`, only
says that the marks for "no row", "no file" and "no holder" are none of the
things they stand beside.

`StoreWritesStand` is not inductive: a deletion would not stand if the key were
still in a file that an import is yet to read. `IInv` therefore says of each
process in the middle of an operation what makes its next step harmless. The
key of a write that is about to happen is not in the file, unless the older
version put it there meanwhile (`Clean`). Whatever is in a file that is about
to be renamed is in the table, or was deleted from it (`Safe`). A read that
goes on to the file finds its key there as long as nobody has imported the file
(`ReadSafe`). The steps are proved one lemma each (`ImportStep`, `RenameStep`,
`WriteStep`, `LegacyStep`); `Quiet` covers those that leave table and file
alone. `KeysAreKept` is an action property from the same invariant (`KeysStep`).

### Message bus

`StoreProofs` proves all that the run `bus` checks, for any sessions, readers and
projects, any start cap, every window below the retention, and all bounds:
`MailIsTyped`, `MailGoesOutOnce`, `NoMailIsSkipped` and `BacklogIsGated`.
`BusAssumption` says that much, and that the mark of a missing value is no
session, project or cursor. The code's window of 30 minutes and retention of 4
days satisfy it; the proof uses it in one place: when a cursor has expired, all
that a first read may hand over is younger than the last look at it.

`BusInv` has two parts besides the properties. `Rows` ties the tables together:
ids are in order of time and of sending, so that the prune removes the lowest
ids and a usable cursor can only be lost with every row; and unless the database
was replaced no cursor is ahead of the ids. `Ahead` says, in each state that a
cursor can be in, which rows were surely sent after all that the session was
handed (`Unseen`): those above a usable cursor, all of them under a cursor that
is out of range, the recent ones without a cursor, and always those younger than
the cursor's last use. That is what a read needs to hand over its batch in order
(`HandedGrows`), and what it has to leave behind (`HandKeeps`, the common part of
`FirstReadKeeps` and `LaterReadKeeps`; the other operations have a lemma each).
The query's `ORDER BY id` is `InOrder`: its i-th row is the one with rank i, and
`OrderedRows` shows that this lists the rows, each once and by increasing id.
`NothingIsSkipped` is inductive with these: where a first read passes a broadcast
that is due, a direct message above it made it do so.

### Memory broker

`BrokerProofs` proves all that the run `broker` checks, for any clients and any
bounds on sessions and ids: `BrokerTypeCorrect`, `AnswersAreRouted` and
`OneProxyLives`. `BrokerAssumption` says that the bounds are numbers, that
there is an id for the first request, and that no client is the mark of a free lock.

A client that gets a reply got it from the table of waiters, so
`AnswersReachTheirCaller` depends on what is still under way: `IInv` adds that
every request in a proxy, and every reply in a pipe, bears an id that was given
out, and that whoever waits under that id made the request (`Mail`), and that a
client in flight has an id of its own and any other has none and no reply
(`Ids`). Late replies are harmless because ids are never given out twice, over
all sessions. `OneProxy` needs that there is no current session while one is
being opened, and that clients only use sessions that were opened (`Proxies`).
The lemmas follow what a step can disturb: `RoutingStays` and `RoutingLeft` the
table of waiters, `ProxiesStay` and `ProxiesRetire` the sessions; then there is
one lemma per action.

### What is only model-checked

- Liveness under fairness (`EventuallyServed`, `QueuedIsServed`, `RunSettles`,
  `UnretriedChildDies`, `HeldIsSent`), which is beyond the proof system.
- What the runs `registry_forgotten`, `runner_kill_retry`, `runner_killed` and
  `store_stale` refute is of course proved nowhere; `OtherWaitsAreServed` and
  `LogTellsTheOutcome` are proved, and say how far the first and the third go.

## 6. Plan

1. `Monitor` and `WaitTool`: arm, fire, expire, disarm, asynchronous
   predicates with epochs and redrain; one-shot and no-missed-transition
   properties; an abstract one-shot alarm that `Monitor` implements.
2. The pi reader of `MessageBus`: a cursor that is advanced outside of a
   transaction, the startup gate and its acknowledgement.
3. `RouterFallback`: episodes, latch, at most one switch, late switches.
4. `BrokerLifecycle`: lock and socket files of racing brokers; `ResumeCron`:
   bounded resume attempts of blocked tasks; `IdAllocation`: ids and the index
   over a directory shared by sessions.
5. The registry with notes that throw (`notifyComplete` is not guarded in
   `finishSettle`), next to `DelegationRegistry`.
6. Proofs of what items 1 to 5 add.

Not modelled and not planned: the text of answers, notes and cards, usage
arithmetic, rendering, personas and validation of arguments; retrieval,
pipeline, router and index clients, whose behaviour is that of external
services; scaffolds, guards and reminders, which are one sequential decision or
one pass over files each; the store's schema upgrades and its doctor; the small
I/O extensions.
