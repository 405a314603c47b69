-------------------------- MODULE DelegationRunner --------------------------
(***************************************************************************)
(* extensions/subagent/delegation-runner.ts: the life of one run, from its *)
(* spawn to its single settle.  The runner watches a child process that    *)
(* may hang, ignore SIGTERM, die of a signal or never start; it aborts on  *)
(* a timeout, on silence and on demand, and respawns the child once on a   *)
(* fallback model.                                                         *)
(*                                                                         *)
(* Every handler (a timer, a line of output, a close or error event, an    *)
(* abort) runs to its end, so each is one step.  The child's steps are its *)
(* own: it exits when it likes and its close event comes later.            *)
(***************************************************************************)
EXTENDS Integers, Sequences

CONSTANTS Requests,   \* the [fallback, timeout] requests: whether there is
                      \* another argv to fall back to and a per-run timeout
          Watchdog,   \* whether the liveness watchdog is on
          MaxEvents   \* bound: events the children of one run emit

ASSUME RunnerAssumption ==
  /\ Requests \subseteq [fallback : BOOLEAN, timeout : BOOLEAN]
  /\ Watchdog \in BOOLEAN
  /\ MaxEvents \in Nat

Attempts == 1 .. 2
Kinds == {"grace", "timeout", "watchdog"}

\* The parsed events a decision depends on: the session header, a streaming
\* update, a tool call, and an assistant turn that ended well or failed.
Events == {"session", "update", "tool", "answer", "billing", "unavailable"}
Turns == {"answer", "billing", "unavailable"}

VARIABLES
  request,
  attempt,    \* the current child: 0 before the run, 2 after the retry
  process,    \* of each attempt: "unborn", "alive", "exited" or "closed"
  signals,    \* of each attempt: the strongest signal it was sent
  timers,     \* the pending timers, as [kind, of]: `of` names the attempt
              \* that armed it
  handle,     \* the timer fields of RunState: the attempt, 0 for undefined
  sawClose,
  settled,
  status,     \* record.state
  reason,     \* record.abortReason
  usage,      \* what record.usage shows: the "sum" of the finished turns, or
              \* the "floor" of a streaming update's own report
  seen,       \* the kinds of event parsed so far
  lastTurn,   \* how the last assistant turn ended
  count,      \* events so far
  notes,      \* how often onSettle and notifyComplete were called
  log,        \* the run's log: its markers, in order
  sink        \* the log sink still works

process_vars == <<process, signals>>
record_vars  == <<settled, status, reason, notes>>
stream_vars  == <<usage, seen, lastTurn, count>>
log_vars     == <<log, sink>>
timer_vars   == <<timers, handle>>
vars == <<request, attempt, sawClose, process_vars, record_vars, stream_vars, log_vars, timer_vars>>

Init ==
  /\ request \in Requests
  /\ attempt = 0
  /\ process = [a \in Attempts |-> "unborn"]
  /\ signals = [a \in Attempts |-> "none"]
  /\ timers = {}
  /\ handle = [k \in Kinds |-> 0]
  /\ sawClose = FALSE
  /\ settled = FALSE
  /\ status = "running"
  /\ reason = "none"
  /\ usage = "sum"
  /\ seen = {}
  /\ lastTurn = "none"
  /\ count = 0
  /\ notes = 0
  /\ log = << >>
  /\ sink = TRUE

-----------------------------------------------------------------------------
(***************************************************************************)
(* Pieces of the handlers.                                                 *)
(***************************************************************************)

\* teeAppend of some lines: the first failure turns the sink off.
Log(lines) ==
  \E n \in 0 .. Len(lines) :
    /\ log' = IF sink THEN log \o SubSeq(lines, 1, n) ELSE log
    /\ sink' = (sink /\ n = Len(lines))

Timer(kind, a) == [kind |-> kind, of |-> a]

\* Mutant: the fields are reset but the timers keep running.
Cleared_Not(kinds) == timers

\* clearTimeout through the fields of RunState
Cleared(kinds) == timers \ {Timer(k, handle[k]) : k \in kinds}
Undefined(kinds) == [k \in Kinds |-> IF k \in kinds THEN 0 ELSE handle[k]]

\* armTimers
ToArm == (IF request.timeout THEN {"timeout"} ELSE {})
           \union (IF Watchdog THEN {"watchdog"} ELSE {})

\* finishSettle, with the state, the reason and the log lines of its callers
\* settleExit, settleSpawnError and settleAborted
Settle(state, why) ==
  /\ settled' = TRUE
  /\ status' = state
  /\ reason' = why
  /\ usage' = "sum"
  /\ notes' = notes + 1

\* handleLine, of no line or one; resetWatchdog renews a pending deadline,
\* which changes nothing here.
Parsed(tail) ==
  /\ count + Len(tail) <= MaxEvents
  /\ count' = count + Len(tail)
  /\ seen' = seen \union {tail[i] : i \in DOMAIN tail}
  /\ lastTurn' = IF \E i \in DOMAIN tail : tail[i] \in Turns THEN tail[1] ELSE lastTurn

\* handleLine's live view of the record's usage, settled or not
LiveUsage(tail) ==
  usage' = IF tail = << >> THEN usage ELSE IF tail[1] = "update" THEN "floor" ELSE "sum"

-----------------------------------------------------------------------------
(***************************************************************************)
(* run                                                                     *)
(***************************************************************************)

\* The caller's signal is aborted already, or spawn throws.
RunWithoutChild ==
  /\ attempt = 0 /\ ~settled
  /\ \/ Settle("aborted", "none") /\ Log(<<"header">>)
     \/ Settle("failed", "none") /\ Log(<<"header", "spawnError">>)
  /\ UNCHANGED <<request, attempt, sawClose, process_vars, timer_vars, seen, lastTurn, count>>

RunChild ==
  /\ attempt = 0 /\ ~settled
  /\ attempt' = 1
  /\ process' = [process EXCEPT ![1] = "alive"]
  /\ timers' = timers \union {Timer(k, 1) : k \in ToArm}
  /\ handle' = [k \in Kinds |-> IF k \in ToArm THEN 1 ELSE handle[k]]
  /\ Log(<<"header">>)
  /\ UNCHANGED <<request, sawClose, signals, record_vars, stream_vars>>

-----------------------------------------------------------------------------
(***************************************************************************)
(* Aborting.                                                               *)
(***************************************************************************)

\* sendSignal: a child that is gone already is tolerated.
SendSignal(signal) ==
  signals' = [a \in Attempts |-> IF a = attempt /\ process[a] = "alive" THEN signal ELSE signals[a]]

\* abortRun, with the timers that are pending when it is called
AbortRun(why) ==
  /\ ~settled
  /\ SendSignal("SIGTERM")
  /\ Settle("aborted", why)
  /\ timers' = (Cleared({"timeout", "watchdog"}) \union {Timer("grace", attempt)})
  /\ handle' = [Undefined({"timeout", "watchdog"}) EXCEPT !["grace"] = attempt]
  /\ UNCHANGED <<request, attempt, sawClose, process, seen, lastTurn, count, log_vars>>

\* The handle's abort or the caller's signal.  abortRun of a settled run
\* returns at once.
Abort == attempt > 0 /\ AbortRun("none")

TimeoutFires ==
  /\ Timer("timeout", handle["timeout"]) \in timers
  /\ AbortRun("timeout")

WatchdogFires ==
  /\ Timer("watchdog", handle["watchdog"]) \in timers
  /\ AbortRun("lost")

\* Mutant: a settled run is not escalated.
GraceFires_SettledIsDead ==
  /\ Timer("grace", handle["grace"]) \in timers
  /\ timers' = Cleared({"grace"})
  /\ handle' = Undefined({"grace"})
  /\ IF sawClose \/ settled THEN UNCHANGED signals ELSE SendSignal("SIGKILL")
  /\ UNCHANGED <<request, attempt, sawClose, process, record_vars, stream_vars, log_vars>>

\* The SIGKILL escalation trusts sawClose.
GraceFires ==
  /\ Timer("grace", handle["grace"]) \in timers
  /\ timers' = Cleared({"grace"})
  /\ handle' = Undefined({"grace"})
  /\ IF sawClose THEN UNCHANGED signals ELSE SendSignal("SIGKILL")
  /\ UNCHANGED <<request, attempt, sawClose, process, record_vars, stream_vars, log_vars>>

-----------------------------------------------------------------------------
(***************************************************************************)
(* The child's output and its end.                                         *)
(***************************************************************************)

\* feedStdout: one parsed line
ReadLine(event) ==
  /\ attempt > 0 /\ process[attempt] \in {"alive", "exited"}
  /\ Parsed(<<event>>)
  /\ LiveUsage(<<event>>)
  /\ UNCHANGED <<request, attempt, sawClose, process_vars, record_vars, log_vars, timer_vars>>

\* The child's own step: it may exit at any time and must after a SIGKILL.
ChildExits ==
  /\ attempt > 0 /\ process[attempt] = "alive"
  /\ process' = [process EXCEPT ![attempt] = "exited"]
  /\ UNCHANGED <<request, attempt, sawClose, signals, record_vars, stream_vars, log_vars, timer_vars>>

\* Mutant: a late error settles a settled run.
ChildError_Unguarded ==
  /\ attempt > 0 /\ process[attempt] = "alive"
  /\ process' = [process EXCEPT ![attempt] = "exited"]
  /\ Settle("failed", "none")
  /\ Log(<<"spawnError">>)
  /\ timers' = Cleared({"timeout", "watchdog"})
  /\ handle' = Undefined({"timeout", "watchdog"})
  /\ UNCHANGED <<request, attempt, sawClose, signals, seen, lastTurn, count>>

\* Mutant: the failure is not written to the log.
ChildError_NoLine ==
  /\ attempt > 0 /\ process[attempt] = "alive" /\ ~settled
  /\ process' = [process EXCEPT ![attempt] = "exited"]
  /\ Settle("failed", "none")
  /\ timers' = Cleared({"timeout", "watchdog"})
  /\ handle' = Undefined({"timeout", "watchdog"})
  /\ UNCHANGED <<request, attempt, sawClose, signals, seen, lastTurn, count, log_vars>>

\* onChildError: the spawn fails after the fact.  Node still sends close.
ChildError ==
  /\ attempt > 0 /\ process[attempt] = "alive"
  /\ process' = [process EXCEPT ![attempt] = "exited"]
  /\ \/ /\ ~settled
        /\ Settle("failed", "none")
        /\ Log(<<"spawnError">>)
        /\ timers' = Cleared({"timeout", "watchdog"})
        /\ handle' = Undefined({"timeout", "watchdog"})
     \/ /\ settled
        /\ UNCHANGED <<record_vars, usage, log_vars, timer_vars>>
  /\ UNCHANGED <<request, attempt, sawClose, signals, seen, lastTurn, count>>

\* retryFailure, of the events parsed so far: a startup failure before any
\* progress, a last turn that ended on a 402, or a model the provider
\* rejected before any work.  `retried` is attempt = 2.
RetryFailure(code, startupFailure) ==
  /\ request.fallback /\ attempt = 1
  /\ \/ code = 1 /\ startupFailure /\ seen' \subseteq {"session"}
     \/ lastTurn' = "billing"
     \/ lastTurn' = "unavailable" /\ seen' \intersect {"tool", "answer"} = {}

Output(a) == IF a = 1 THEN "output 1" ELSE "output 2"

\* armTimers only arms; onClose has cleared the timers of the first child.
Respawn(tail) ==
  /\ attempt' = 2
  /\ process' = [process EXCEPT ![1] = "closed", ![2] = "alive"]
  /\ timers' = (Cleared(Kinds) \union {Timer(k, 2) : k \in ToArm})
  /\ handle' = [k \in Kinds |-> IF k \in ToArm THEN 2 ELSE 0]
  /\ Log(<<Output(1), "retry">>)
  /\ LiveUsage(tail)
  /\ UNCHANGED record_vars

\* Mutant: a respawn that throws is swallowed.
BeginFallbackRetry_Swallowed(tail) ==
  \/ Respawn(tail)
  \/ /\ process' = [process EXCEPT ![1] = "closed"]
     /\ timers' = Cleared(Kinds)
     /\ handle' = Undefined(Kinds)
     /\ Log(<<Output(1), "retry">>)
     /\ LiveUsage(tail)
     /\ UNCHANGED <<attempt, record_vars>>

\* beginFallbackRetry: the second child is spawned, or spawning it throws.
BeginFallbackRetry(tail) ==
  \/ Respawn(tail)
  \/ /\ process' = [process EXCEPT ![1] = "closed"]
     /\ timers' = Cleared(Kinds)
     /\ handle' = Undefined(Kinds)
     /\ Settle("failed", "none")
     /\ Log(<<Output(1), "retry", "spawnError">>)
     /\ UNCHANGED attempt

\* The line of settleExit: the close of a killed child names its signal.
ExitLines == {"exit", "exit signal"}
ExitLine(killed) == IF killed THEN "exit signal" ELSE "exit"

\* Mutant: a state that is not one of DelegationState.
Finish_Killed(killed, tail) ==
  /\ ~settled
  /\ process' = [process EXCEPT ![attempt] = "closed"]
  /\ timers' = Cleared(Kinds)
  /\ handle' = Undefined(Kinds)
  /\ Settle(IF killed THEN "killed" ELSE "completed", "none")
  /\ Log(<<Output(attempt), ExitLine(killed)>>)
  /\ UNCHANGED attempt

\* The rest of onClose: the run exits, or it was settled before.
Finish(killed, tail) ==
  /\ process' = [process EXCEPT ![attempt] = "closed"]
  /\ timers' = Cleared(Kinds)
  /\ handle' = Undefined(Kinds)
  /\ \/ /\ ~settled
        /\ Settle(IF killed THEN "aborted" ELSE "completed", "none")
        /\ Log(<<Output(attempt), ExitLine(killed)>>)
     \/ /\ settled
        /\ LiveUsage(tail)
        /\ Log(<<Output(attempt)>>)
        /\ UNCHANGED record_vars
  /\ UNCHANGED attempt

\* onClose, with the trailing line it may flush first
OnClose(code, killed, startupFailure, tail) ==
  LET retry == ~settled /\ ~killed /\ RetryFailure(code, startupFailure)
  IN  /\ attempt > 0 /\ process[attempt] = "exited"
      /\ sawClose' = TRUE
      /\ Parsed(tail)
      /\ \/ retry /\ BeginFallbackRetry(tail)
         \/ ~retry /\ Finish(killed, tail)
      /\ UNCHANGED <<request, signals>>

Close ==
  \E code \in {0, 1}, killed, startupFailure \in BOOLEAN,
     tail \in {<< >>} \union {<<e>> : e \in Events} : OnClose(code, killed, startupFailure, tail)

Next ==
  \/ RunWithoutChild \/ RunChild
  \/ Abort \/ TimeoutFires \/ WatchdogFires \/ GraceFires
  \/ \E event \in Events : ReadLine(event)
  \/ ChildExits \/ ChildError
  \/ Close

\* Timers fire, a SIGKILL is deadly and Node reports the end of a process.
\* Nothing else is fair: a child may hang, write nothing and shrug off
\* SIGTERM.
Fairness ==
  /\ WF_vars(TimeoutFires) /\ WF_vars(WatchdogFires) /\ WF_vars(GraceFires)
  /\ WF_vars(attempt > 0 /\ signals[attempt] = "SIGKILL" /\ ChildExits)
  /\ WF_vars(Close)

Spec == Init /\ [][Next]_vars /\ Fairness

-----------------------------------------------------------------------------
(***************************************************************************)
(* Safety.                                                                 *)
(***************************************************************************)

Terminal == {"completed", "failed", "aborted"}
Lines == {"header", "output 1", "retry", "output 2", "spawnError"} \union ExitLines

\* The shape of the state.
TypeOK ==
  /\ request \in Requests
  /\ attempt \in 0 .. 2
  /\ process \in [Attempts -> {"unborn", "alive", "exited", "closed"}]
  /\ signals \in [Attempts -> {"none", "SIGTERM", "SIGKILL"}]
  /\ timers \subseteq [kind : Kinds, of : Attempts]
  /\ handle \in [Kinds -> 0 .. 2]
  /\ sawClose \in BOOLEAN /\ settled \in BOOLEAN /\ sink \in BOOLEAN
  /\ status \in Terminal \union {"running"}
  /\ reason \in {"none", "timeout", "lost"}
  /\ usage \in {"floor", "sum"}
  /\ seen \subseteq Events
  /\ lastTurn \in Turns \union {"none"}
  /\ count \in 0 .. MaxEvents
  /\ notes \in Nat
  /\ log \in Seq(Lines)

\* However exit, error, abort, timeout, silence and close race, the run is
\* settled once, with one note, and its record is terminal exactly then; a
\* completed record carries the sum of its turns, not the display floor.
SettledOnce ==
  /\ status = "completed" => usage = "sum"
  /\ notes = IF settled THEN 1 ELSE 0
  /\ settled <=> status \in Terminal
  /\ reason # "none" => status = "aborted"

\* No timer escapes its field (a lost handle could not be cleared and would
\* abort a later attempt), and none but the grace timer outlives the settle.
TimersAreHeld ==
  /\ \A t \in timers : handle[t.kind] = t.of
  /\ settled => \A t \in timers : t.kind = "grace"
  /\ handle["grace"] # 0 => settled

\* What classifyFromLogDir makes of the log of a child that is gone; it does
\* not look at the signal of an exit line.
Classified ==
  IF \E i \in DOMAIN log : log[i] = "spawnError" THEN "failed"
  ELSE IF \E i \in DOMAIN log : log[i] \in ExitLines THEN "completed"
  ELSE "lost"

\* The log holds the exit line of a killed child.
SignalIsLogged == \E i \in DOMAIN log : log[i] = "exit signal"

\* A restart reconstructs what the session knew: completed and failed runs
\* come back as such as long as the log sink works, and what is read off the
\* log is what the run settled as, also if its log was cut off, but for the
\* child that something other than the runner killed: it was settled aborted
\* and comes back completed (RestartAgrees).  The log has its header first,
\* each attempt's output once, one terminal line at most and nothing after
\* an exit line (R4).
LogTellsTheOutcome ==
  /\ log # << >> => log[1] = "header"
  /\ \A i, j \in DOMAIN log : i < j =>
       /\ log[i] # log[j]
       /\ log[i] \notin ExitLines
       /\ log[i] = "spawnError" => log[j] \notin ExitLines
  /\ sink /\ status \in {"completed", "failed"} => Classified = status
  /\ Classified = "failed" => status = "failed"
  /\ Classified = "completed" => status = IF SignalIsLogged THEN "aborted" ELSE "completed"

-----------------------------------------------------------------------------
(***************************************************************************)
(* Steps and progress.                                                     *)
(***************************************************************************)

\* With the liveness watchdog on, a run always settles: through silence,
\* hangs and retries.
RunSettles == attempt > 0 ~> settled

\* R8's kill path for a run without a retry: its child is eventually gone
\* once it was aborted, also if it ignores SIGTERM.
UnretriedChildDies == attempt = 1 /\ status = "aborted" ~> attempt = 1 /\ process[1] = "closed"

(***************************************************************************)
(* Sentences of the source that its code does not keep (see README).       *)
(***************************************************************************)

\* The kill path of index.ts, "SIGTERM, then SIGKILL if the child ignores
\* it", for every run: the child of an aborted run is eventually gone.
AbortedChildDies ==
  attempt > 0 /\ status = "aborted" ~> attempt > 0 /\ process[attempt] = "closed"

\* The log directory is "the single source of truth for restart
\* reconstruction" (index.ts): an outcome that classifyFromLogDir reads off
\* a log is the one the run was settled with.
RestartAgrees == Classified \in {"completed", "failed"} => status = Classified
=============================================================================
