---------------------------- MODULE RunnerProofs ----------------------------
(***************************************************************************)
(* What is proved of DelegationRunner, for every set of requests, with and *)
(* without the watchdog and for any number of events: the run is settled   *)
(* once, its timers are never lost and its log tells its outcome.          *)
(***************************************************************************)
EXTENDS DelegationRunner, SequenceTheorems, TLAPS

-----------------------------------------------------------------------------
(***************************************************************************)
(* The inductive invariant.                                                *)
(***************************************************************************)

\* The second child is born when the first is closed, and a run that has
\* not begun has armed nothing.
Processes ==
  /\ attempt = 0 => process = [a \in Attempts |-> "unborn"] /\ timers = {}
  /\ attempt = 1 => process[1] # "unborn" /\ process[2] = "unborn"
  /\ attempt = 2 => process[1] = "closed" /\ process[2] # "unborn"

\* No line of output follows the completion of a run, so that the floor of
\* a live view cannot replace its sum.
CompletedIsClosed == status = "completed" => attempt > 0 /\ process[attempt] = "closed"

\* The lines in the log
Written == {log[i] : i \in DOMAIN log}

\* A line in the log has a cause in the state ...
LinesHaveCauses ==
  /\ \A a \in Attempts : Output(a) \in Written => process[a] = "closed"
  /\ "retry" \in Written => attempt = 2 \/ status = "failed"
  /\ \A line \in ExitLines : line \in Written =>
       /\ status = IF line = "exit" THEN "completed" ELSE "aborted"
       /\ settled /\ attempt > 0 /\ process[attempt] = "closed"
  /\ "spawnError" \in Written => status = "failed"
  /\ log # << >> => attempt > 0 \/ settled

\* ... and while the sink works every cause has its line.
CausesHaveLines ==
  sink => /\ attempt > 0 \/ settled => log # << >>
          /\ status = "failed" => "spawnError" \in Written
          /\ status = "completed" => "exit" \in Written

\* The order of the lines, of LogTellsTheOutcome
LogOrder ==
  /\ log # << >> => log[1] = "header"
  /\ \A i, j \in DOMAIN log : i < j =>
       /\ log[i] # log[j]
       /\ log[i] \notin ExitLines
       /\ log[i] = "spawnError" => log[j] \notin ExitLines

LogInv == LinesHaveCauses /\ CausesHaveLines /\ LogOrder

SettleInv == SettledOnce /\ CompletedIsClosed

IInv == TypeOK /\ Processes /\ SettleInv /\ TimersAreHeld /\ LogInv

-----------------------------------------------------------------------------
(***************************************************************************)
(* Writing to the log.                                                     *)
(***************************************************************************)

\* What teeAppend leaves: the old log and then some of the lines, all of
\* them if the sink still works.
LEMMA LogGrows ==
  ASSUME log \in Seq(Lines), sink \in BOOLEAN, NEW lines \in Seq(Lines), Log(lines)
  PROVE  /\ log' \in Seq(Lines) /\ sink' \in BOOLEAN
         /\ \E k \in 0 .. Len(lines) :
              /\ Len(log') = Len(log) + k
              /\ \A i \in 1 .. Len(log) : log'[i] = log[i]
              /\ \A i \in 1 .. k : log'[Len(log) + i] = lines[i]
              /\ sink' => sink /\ k = Len(lines)
              /\ ~sink => k = 0
<1>1. PICK n \in 0 .. Len(lines) :
        /\ log' = IF sink THEN log \o SubSeq(lines, 1, n) ELSE log
        /\ sink' = (sink /\ n = Len(lines))
  BY DEF Log
<1>2. CASE sink
  <2>1. /\ SubSeq(lines, 1, n) \in Seq(Lines)
        /\ Len(SubSeq(lines, 1, n)) = n
        /\ \A i \in 1 .. n : SubSeq(lines, 1, n)[i] = lines[i]
    <3>1. Len(lines) \in Nat
      BY LenProperties
    <3>2. \A i \in 1 .. n : i \in 1 .. Len(lines)
      BY <3>1
    <3>3. \A i \in 1 .. n : lines[i] \in Lines
      BY <3>2, LenProperties
    <3> QED
      BY <3>1, <3>3, SubSeqProperties
  <2>2. log' = log \o SubSeq(lines, 1, n)
    BY <1>1, <1>2
  <2>3. /\ log' \in Seq(Lines)
        /\ Len(log') = Len(log) + n
        /\ \A i \in 1 .. Len(log) : log'[i] = log[i]
        /\ \A i \in 1 .. n : log'[Len(log) + i] = lines[i]
    BY <2>1, <2>2, LenProperties, ConcatProperties
  <2> QED
    BY <1>1, <1>2, <2>3
<1>3. CASE ~sink
  <2>1. log' = log /\ sink' = FALSE
    BY <1>1, <1>3
  <2>2. Len(lines) \in Nat /\ Len(log) \in Nat
    BY LenProperties
  <2>3. /\ Len(log') = Len(log) + 0
        /\ \A i \in 1 .. Len(log) : log'[i] = log[i]
        /\ \A i \in 1 .. 0 : log'[Len(log) + i] = lines[i]
        /\ ~sink'
    BY <2>1, <2>2
  <2>4. 0 \in 0 .. Len(lines)
    BY <2>2
  <2> QED
    BY <2>1, <2>3, <2>4
<1> QED
  BY <1>2, <1>3

\* What is written afterwards: what was written, and lines of the ones
\* appended, all of them if the sink still works.
LEMMA WhatIsWritten ==
  ASSUME log \in Seq(Lines), sink \in BOOLEAN, NEW lines \in Seq(Lines), Log(lines)
  PROVE  /\ Written \subseteq Written'
         /\ \A line \in Written' : line \in Written \/ \E i \in DOMAIN lines : lines[i] = line
         /\ sink' => sink /\ \A i \in DOMAIN lines : lines[i] \in Written'
         /\ Written' \subseteq Lines
<1>1. PICK k \in 0 .. Len(lines) :
        /\ Len(log') = Len(log) + k
        /\ \A i \in 1 .. Len(log) : log'[i] = log[i]
        /\ \A i \in 1 .. k : log'[Len(log) + i] = lines[i]
        /\ sink' => sink /\ k = Len(lines)
  BY LogGrows
<1>2. /\ log' \in Seq(Lines) /\ Len(log) \in Nat /\ Len(lines) \in Nat
      /\ DOMAIN log = 1 .. Len(log) /\ DOMAIN log' = 1 .. Len(log') /\ DOMAIN lines = 1 .. Len(lines)
  BY LogGrows, LenProperties
<1>3. ASSUME NEW line \in Written
      PROVE  line \in Written'
  <2>1. PICK i \in 1 .. Len(log) : log[i] = line
    BY <1>2, <1>3 DEF Written
  <2>2. log'[i] = log[i]
    BY <1>1, <2>1
  <2>3. i \in 1 .. Len(log) + k
    BY <1>2, <2>1
  <2>4. i \in DOMAIN log'
    BY <1>1, <1>2, <2>3
  <2> QED
    BY <2>1, <2>2, <2>4 DEF Written
<1>4. ASSUME NEW line \in Written'
      PROVE  line \in Written \/ \E i \in DOMAIN lines : lines[i] = line
  <2>1. PICK i \in 1 .. Len(log) + k : log'[i] = line
    BY <1>1, <1>2, <1>4 DEF Written
  <2>2. CASE i \in 1 .. Len(log)
    BY <1>1, <1>2, <2>1, <2>2 DEF Written
  <2>3. CASE i \notin 1 .. Len(log)
    <3>1. /\ i - Len(log) \in 1 .. k
          /\ i = Len(log) + (i - Len(log))
      BY <1>2, <2>3
    <3>2. log'[i] = lines[i - Len(log)]
      BY <1>1, <3>1
    <3>3. lines[i - Len(log)] = line /\ i - Len(log) \in DOMAIN lines
      <4>1. 1 .. k \subseteq DOMAIN lines
        BY <1>2
      <4> QED
        BY <2>1, <3>1, <3>2, <4>1
    <3> QED
      BY <3>3, Zenon
  <2> QED
    BY <2>2, <2>3
<1>5. ASSUME sink', NEW i \in DOMAIN lines
      PROVE  lines[i] \in Written'
  <2>1. Len(log) + i \in DOMAIN log' /\ log'[Len(log) + i] = lines[i]
    BY <1>1, <1>2, <1>5
  <2> QED
    BY <2>1 DEF Written
<1>6. Written' \subseteq Lines
  BY <1>2 DEF Written
<1> QED
  BY <1>1, <1>3, <1>4, <1>5, <1>6

\* The order of the log survives new lines that are in order themselves.
LEMMA OrderKept ==
  ASSUME log \in Seq(Lines), sink \in BOOLEAN, NEW lines \in Seq(Lines), Log(lines), LogOrder,
         log = << >> /\ sink => lines[1] = "header",
         \A i \in DOMAIN lines : lines[i] \notin Written,
         \A i, j \in DOMAIN lines : i < j =>
           lines[i] # lines[j] /\ lines[i] \notin ExitLines /\ (lines[i] = "spawnError" => lines[j] \notin ExitLines),
         Written \intersect ExitLines = {},
         "spawnError" \in Written => \A i \in DOMAIN lines : lines[i] \notin ExitLines
  PROVE  LogOrder'
<1>1. PICK k \in 0 .. Len(lines) :
        /\ Len(log') = Len(log) + k
        /\ \A i \in 1 .. Len(log) : log'[i] = log[i]
        /\ \A i \in 1 .. k : log'[Len(log) + i] = lines[i]
        /\ ~sink => k = 0
  BY LogGrows
<1>2. /\ log' \in Seq(Lines) /\ Len(log) \in Nat /\ Len(lines) \in Nat
      /\ DOMAIN log = 1 .. Len(log) /\ DOMAIN log' = 1 .. Len(log') /\ DOMAIN lines = 1 .. Len(lines)
  BY LogGrows, LenProperties
<1>3. ASSUME NEW i \in DOMAIN log', i \notin DOMAIN log
      PROVE  /\ i - Len(log) \in DOMAIN lines
             /\ log'[i] = lines[i - Len(log)]
  <2>1. /\ i - Len(log) \in 1 .. k
        /\ i = Len(log) + (i - Len(log))
    BY <1>1, <1>2, <1>3
  <2> QED
    BY <1>1, <1>2, <2>1
<1>4. ASSUME log' # << >>
      PROVE  log'[1] = "header"
  <2>1. CASE log # << >>
    <3>1. 1 \in 1 .. Len(log)
      BY <1>2, <2>1, EmptySeq
    <3> QED
      BY <1>1, <2>1, <3>1 DEF LogOrder
  <2>2. CASE log = << >>
    <3>1. Len(log) = 0
      BY <2>2
    <3>2. k # 0
      BY <1>1, <1>2, <1>4, <3>1, EmptySeq
    <3>3. 1 \in DOMAIN log' /\ 1 \notin DOMAIN log /\ 1 - Len(log) = 1
      BY <1>1, <1>2, <3>1, <3>2
    <3> QED
      BY <1>1, <1>3, <2>2, <3>2, <3>3
  <2> QED
    BY <2>1, <2>2
<1>5. ASSUME NEW i \in DOMAIN log', NEW j \in DOMAIN log', i < j
      PROVE  /\ log'[i] # log'[j]
             /\ log'[i] \notin ExitLines
             /\ log'[i] = "spawnError" => log'[j] \notin ExitLines
  <2>1. CASE j \in DOMAIN log
    <3>1. i \in DOMAIN log
      BY <1>2, <1>5, <2>1
    <3> QED
      BY <1>1, <1>2, <1>5, <2>1, <3>1 DEF LogOrder
  <2>2. CASE i \in DOMAIN log /\ j \notin DOMAIN log
    <3>1. log[i] \in Written /\ log'[i] = log[i]
      BY <1>1, <1>2, <2>2 DEF Written
    <3> QED
      BY <1>3, <2>2, <3>1
  <2>3. CASE i \notin DOMAIN log /\ j \notin DOMAIN log
    <3>1. i - Len(log) < j - Len(log)
      BY <1>2, <1>5
    <3> QED
      BY <1>3, <2>3, <3>1
  <2> QED
    BY <1>2, <1>5, <2>1, <2>2, <2>3
<1> QED
  BY <1>4, <1>5 DEF LogOrder

-----------------------------------------------------------------------------
(***************************************************************************)
(* The type invariant.                                                     *)
(***************************************************************************)

LEMMA LinesAreTyped ==
  /\ \A a \in Lines : << a >> \in Seq(Lines) /\ DOMAIN << a >> = {1}
  /\ \A a, b \in Lines : << a, b >> \in Seq(Lines) /\ DOMAIN << a, b >> = {1, 2}
  /\ \A a, b, c \in Lines : << a, b, c >> \in Seq(Lines) /\ DOMAIN << a, b, c >> = {1, 2, 3}
  /\ \A a : Output(a) \in Lines
BY DEF Lines, ExitLines, Output

\* The calls of Log in the handlers write lines.
LEMMA LogTyped ==
  ASSUME TypeOK, NEW lines \in Seq(Lines), Log(lines)
  PROVE  log' \in Seq(Lines) /\ sink' \in BOOLEAN
BY LogGrows DEF TypeOK

LEMMA ParsedTyped ==
  ASSUME TypeOK, NEW tail \in {<< >>} \union {<<e>> : e \in Events}, Parsed(tail)
  PROVE  count' \in 0 .. MaxEvents /\ seen' \subseteq Events /\ lastTurn' \in Turns \union {"none"}
<1>1. CASE tail = << >>
  <2>1. Len(tail) = 0 /\ DOMAIN tail = {}
    BY <1>1
  <2>2. count' = count /\ seen' = seen \union {} /\ lastTurn' = lastTurn
    BY <2>1 DEF Parsed, TypeOK
  <2> QED
    BY <2>2 DEF TypeOK
<1>2. ASSUME NEW e \in Events, tail = <<e>>
      PROVE  count' \in 0 .. MaxEvents /\ seen' \subseteq Events /\ lastTurn' \in Turns \union {"none"}
  <2>1. Len(tail) = 1 /\ DOMAIN tail = {1} /\ tail[1] = e
    BY <1>2
  <2>2. count' = count + 1 /\ count + 1 <= MaxEvents /\ seen' = seen \union {e}
    BY <2>1 DEF Parsed
  <2>3. (lastTurn' = e /\ e \in Turns) \/ lastTurn' = lastTurn
    BY <2>1 DEF Parsed
  <2> QED
    BY <1>2, <2>2, <2>3, RunnerAssumption DEF TypeOK
<1> QED
  BY <1>1, <1>2

\* What a settle leaves in the record.
LEMMA SettleTyped ==
  ASSUME TypeOK, NEW state \in Terminal, NEW why \in {"none", "timeout", "lost"}, Settle(state, why)
  PROVE  /\ settled' \in BOOLEAN /\ status' \in Terminal \union {"running"}
         /\ reason' \in {"none", "timeout", "lost"} /\ usage' \in {"floor", "sum"} /\ notes' \in Nat
BY DEF Settle, TypeOK

LEMMA TimersTyped ==
  ASSUME TypeOK, NEW kinds \in SUBSET Kinds
  PROVE  /\ Cleared(kinds) \subseteq [kind : Kinds, of : Attempts]
         /\ Undefined(kinds) \in [Kinds -> 0 .. 2]
         /\ ToArm \subseteq Kinds
         /\ \A k \in Kinds, a \in Attempts : Timer(k, a) \in [kind : Kinds, of : Attempts]
         /\ \A a \in Attempts : {Timer(k, a) : k \in ToArm} \subseteq [kind : Kinds, of : Attempts]
<1>1. /\ Cleared(kinds) \subseteq [kind : Kinds, of : Attempts]
      /\ Undefined(kinds) \in [Kinds -> 0 .. 2]
      /\ ToArm \subseteq Kinds
      /\ \A k \in Kinds, a \in Attempts : Timer(k, a) \in [kind : Kinds, of : Attempts]
  BY DEF TypeOK, Cleared, Undefined, ToArm, Kinds, Timer
<1>2. ASSUME NEW a \in Attempts, NEW t \in {Timer(k, a) : k \in ToArm}
      PROVE  t \in [kind : Kinds, of : Attempts]
  <2>1. PICK k \in ToArm : t = Timer(k, a)
    BY <1>2
  <2>2. k \in Kinds
    BY <1>1
  <2> QED
    BY <1>1, <2>1, <2>2
<1> QED
  BY <1>1, <1>2

LEMMA SignalTyped ==
  ASSUME TypeOK, NEW signal \in {"SIGTERM", "SIGKILL"}, SendSignal(signal)
  PROVE  signals' \in [Attempts -> {"none", "SIGTERM", "SIGKILL"}]
BY DEF TypeOK, SendSignal

LEMMA InitInv == Init => IInv
<1> SUFFICES ASSUME Init PROVE IInv
  OBVIOUS
<1>1. TypeOK
  <2>1. log \in Seq(Lines)
    BY EmptySeq DEF Init
  <2>2. /\ process \in [Attempts -> {"unborn", "alive", "exited", "closed"}]
        /\ signals \in [Attempts -> {"none", "SIGTERM", "SIGKILL"}]
        /\ handle \in [Kinds -> 0 .. 2]
    BY DEF Init
  <2>3. attempt \in 0 .. 2 /\ count \in 0 .. MaxEvents /\ notes \in Nat
    BY RunnerAssumption DEF Init
  <2> QED
    BY <2>1, <2>2, <2>3 DEF Init, TypeOK
<1>2. Processes /\ SettleInv /\ TimersAreHeld
  BY DEF Init, Processes, SettleInv, SettledOnce, CompletedIsClosed, TimersAreHeld, Terminal, Kinds
<1>3. DOMAIN log = {} /\ log = << >>
  BY DEF Init
<1>4. Written = {}
  BY <1>3 DEF Written
<1>5. LinesHaveCauses /\ CausesHaveLines
  <2>1. attempt = 0 /\ settled = FALSE /\ status = "running"
    BY DEF Init
  <2> QED
    BY <1>3, <1>4, <2>1 DEF LinesHaveCauses, CausesHaveLines
<1>6. LogOrder
  BY <1>3 DEF LogOrder
<1> QED
  BY <1>1, <1>2, <1>5, <1>6 DEF IInv, LogInv

LEMMA TypeStep == TypeOK /\ Processes /\ Next => TypeOK'
<1> SUFFICES ASSUME TypeOK, Processes, Next PROVE TypeOK'
  OBVIOUS
<1> USE DEF process_vars, record_vars, stream_vars, log_vars, timer_vars
<1>1. /\ request \in Requests /\ attempt \in 0 .. 2
      /\ process \in [Attempts -> {"unborn", "alive", "exited", "closed"}]
      /\ signals \in [Attempts -> {"none", "SIGTERM", "SIGKILL"}]
      /\ timers \subseteq [kind : Kinds, of : Attempts]
      /\ handle \in [Kinds -> 0 .. 2]
  BY DEF TypeOK
<1>a. /\ Attempts = {1, 2} /\ Kinds = {"grace", "timeout", "watchdog"}
      /\ {"timeout", "watchdog"} \in SUBSET Kinds /\ {"grace"} \in SUBSET Kinds /\ Kinds \in SUBSET Kinds
      /\ {"aborted", "failed", "completed"} \subseteq Terminal
      /\ {"header", "retry", "spawnError"} \union ExitLines \subseteq Lines
  BY DEF Attempts, Kinds, Terminal, Lines, ExitLines
<1>2. CASE RunWithoutChild
  <2>1. Log(<<"header">>) \/ Log(<<"header", "spawnError">>)
    BY <1>2 DEF RunWithoutChild
  <2>2. log' \in Seq(Lines) /\ sink' \in BOOLEAN
    BY <1>1, <1>a, <2>1, LogTyped, LinesAreTyped
  <2>3. Settle("aborted", "none") \/ Settle("failed", "none")
    BY <1>2 DEF RunWithoutChild
  <2> QED
    BY <1>1, <1>a, <1>2, <2>2, <2>3, SettleTyped DEF RunWithoutChild, TypeOK
<1>3. CASE RunChild
  <2>1. log' \in Seq(Lines) /\ sink' \in BOOLEAN
    BY <1>1, <1>a, <1>3, LogTyped, LinesAreTyped DEF RunChild
  <2>2. timers' \subseteq [kind : Kinds, of : Attempts]
    <3>1. timers \subseteq [kind : Kinds, of : Attempts] /\ 1 \in Attempts
      BY <1>1, <1>a DEF TypeOK
    <3>2. {Timer(k, 1) : k \in ToArm} \subseteq [kind : Kinds, of : Attempts]
      BY <1>1, <1>a, <3>1, TimersTyped
    <3>3. timers' = timers \union {Timer(k, 1) : k \in ToArm}
      BY <1>3 DEF RunChild
    <3> QED
      BY <3>1, <3>2, <3>3
  <2>3. handle' \in [Kinds -> 0 .. 2]
    <3>1. handle \in [Kinds -> 0 .. 2]
      BY <1>1 DEF TypeOK
    <3>2. handle' = [k \in Kinds |-> IF k \in ToArm THEN 1 ELSE handle[k]]
      BY <1>3 DEF RunChild
    <3> QED
      BY <3>1, <3>2
  <2> QED
    BY <1>1, <1>a, <1>3, <2>1, <2>2, <2>3 DEF RunChild, TypeOK
<1>4. ASSUME NEW why \in {"none", "timeout", "lost"}, attempt \in Attempts, AbortRun(why)
      PROVE  TypeOK'
  <2>1. signals' \in [Attempts -> {"none", "SIGTERM", "SIGKILL"}]
    BY <1>4, SignalTyped DEF AbortRun
  <2>2. /\ timers' \subseteq [kind : Kinds, of : Attempts]
        /\ handle' \in [Kinds -> 0 .. 2]
    <3>1. timers' = Cleared({"timeout", "watchdog"}) \union {Timer("grace", attempt)}
      BY <1>4 DEF AbortRun
    <3>2. handle' = [Undefined({"timeout", "watchdog"}) EXCEPT !["grace"] = attempt]
      BY <1>4 DEF AbortRun
    <3> QED
      BY <1>1, <1>a, <1>4, <3>1, <3>2, TimersTyped
  <2>3. Settle("aborted", why)
    BY <1>4 DEF AbortRun
  <2> QED
    BY <1>1, <1>a, <1>4, <2>1, <2>2, <2>3, SettleTyped DEF AbortRun, TypeOK
<1>5. CASE Abort
  BY <1>1, <1>a, <1>4, <1>5 DEF Abort
<1>6. CASE TimeoutFires \/ WatchdogFires
  <2>1. attempt \in Attempts
    BY <1>1, <1>a, <1>6 DEF TimeoutFires, WatchdogFires, Processes
  <2> QED
    BY <1>4, <1>6, <2>1 DEF TimeoutFires, WatchdogFires
<1>7. CASE GraceFires
  <2>1. signals' \in [Attempts -> {"none", "SIGTERM", "SIGKILL"}]
    BY <1>1, <1>a, <1>7, SignalTyped DEF GraceFires
  <2> QED
    BY <1>1, <1>a, <1>7, <2>1, TimersTyped DEF GraceFires, TypeOK
<1>8. ASSUME NEW event \in Events, ReadLine(event)
      PROVE  TypeOK'
  <2>1. count' \in 0 .. MaxEvents /\ seen' \subseteq Events /\ lastTurn' \in Turns \union {"none"}
    BY <1>8, ParsedTyped DEF ReadLine
  <2>2. usage' \in {"floor", "sum"}
    BY <1>8 DEF ReadLine, LiveUsage, TypeOK
  <2> QED
    BY <1>1, <1>a, <1>8, <2>1, <2>2 DEF ReadLine, TypeOK
<1>9. CASE ChildExits
  BY <1>1, <1>a, <1>9 DEF ChildExits, TypeOK
<1>10. CASE ChildError
  <2>1. CASE Log(<<"spawnError">>) /\ Settle("failed", "none")
             /\ timers' = Cleared({"timeout", "watchdog"})
             /\ handle' = Undefined({"timeout", "watchdog"})
    <3>1. log' \in Seq(Lines) /\ sink' \in BOOLEAN
      BY <1>1, <1>a, <2>1, LogTyped, LinesAreTyped
    <3> QED
      BY <1>1, <1>a, <1>10, <2>1, <3>1, SettleTyped, TimersTyped DEF ChildError, TypeOK
  <2>2. CASE UNCHANGED <<record_vars, usage, log_vars, timer_vars>>
    BY <1>1, <1>a, <1>10, <2>2 DEF ChildError, TypeOK
  <2> QED
    BY <1>10, <2>1, <2>2 DEF ChildError
<1>11. ASSUME NEW code \in {0, 1}, NEW killed \in BOOLEAN, NEW startupFailure \in BOOLEAN,
              NEW tail \in {<< >>} \union {<<e>> : e \in Events},
              OnClose(code, killed, startupFailure, tail)
       PROVE  TypeOK'
  <2>1. count' \in 0 .. MaxEvents /\ seen' \subseteq Events /\ lastTurn' \in Turns \union {"none"}
    BY <1>11, ParsedTyped DEF OnClose
  <2>2. /\ attempt \in Attempts /\ sawClose' = TRUE /\ UNCHANGED <<request, signals>>
    BY <1>1, <1>a, <1>11 DEF OnClose
  <2>3. ASSUME LiveUsage(tail) PROVE usage' \in {"floor", "sum"}
    BY <2>3 DEF LiveUsage, TypeOK
  <2>4. CASE Respawn(tail)
    <3>1. log' \in Seq(Lines) /\ sink' \in BOOLEAN
      BY <1>1, <1>a, <2>4, LogTyped, LinesAreTyped DEF Respawn
    <3>2. timers' \subseteq [kind : Kinds, of : Attempts]
      <4>1. Cleared(Kinds) \subseteq [kind : Kinds, of : Attempts]
        BY <1>1, <1>a, TimersTyped
      <4>2. {Timer(k, 2) : k \in ToArm} \subseteq [kind : Kinds, of : Attempts]
        BY <1>1, <1>a, TimersTyped
      <4>3. timers' = (Cleared(Kinds) \union {Timer(k, 2) : k \in ToArm})
        BY <2>4 DEF Respawn
      <4> QED
        BY <4>1, <4>2, <4>3
    <3>3. handle' \in [Kinds -> 0 .. 2]
      <4>1. handle' = [k \in Kinds |-> IF k \in ToArm THEN 2 ELSE 0]
        BY <2>4 DEF Respawn
      <4> QED
        BY <4>1
    <3> QED
      BY <1>1, <1>a, <2>1, <2>2, <2>3, <2>4, <3>1, <3>2, <3>3 DEF Respawn, TypeOK
  <2>5. CASE BeginFallbackRetry(tail) /\ ~ Respawn(tail)
    <3>1. log' \in Seq(Lines) /\ sink' \in BOOLEAN
      BY <1>1, <1>a, <2>5, LogTyped, LinesAreTyped DEF BeginFallbackRetry
    <3>2. timers' \subseteq [kind : Kinds, of : Attempts] /\ handle' \in [Kinds -> 0 .. 2]
      BY <1>1, <1>a, <2>5, TimersTyped DEF BeginFallbackRetry
    <3> QED
      BY <1>1, <1>a, <2>1, <2>2, <2>5, <3>1, <3>2, SettleTyped DEF BeginFallbackRetry, TypeOK
  <2>6. CASE Finish(killed, tail)
    <3>1. log' \in Seq(Lines) /\ sink' \in BOOLEAN
      <4>1. ExitLine(killed) \in Lines
        BY <1>a DEF ExitLine, ExitLines
      <4> QED
        BY <1>1, <1>a, <2>6, <4>1, LogTyped, LinesAreTyped DEF Finish
    <3>2. timers' \subseteq [kind : Kinds, of : Attempts] /\ handle' \in [Kinds -> 0 .. 2]
      BY <1>1, <1>a, <2>6, TimersTyped DEF Finish
    <3>3. CASE Settle(IF killed THEN "aborted" ELSE "completed", "none")
      BY <1>1, <1>a, <2>1, <2>2, <2>6, <3>1, <3>2, <3>3, SettleTyped DEF Finish, TypeOK
    <3>4. CASE LiveUsage(tail) /\ UNCHANGED record_vars
      BY <1>1, <1>a, <2>1, <2>2, <2>3, <2>6, <3>1, <3>2, <3>4 DEF Finish, TypeOK
    <3> QED
      BY <2>6, <3>3, <3>4 DEF Finish
  <2> QED
    BY <1>11, <2>4, <2>5, <2>6 DEF OnClose
<1> QED
  BY <1>2, <1>3, <1>5, <1>6, <1>7, <1>8, <1>9, <1>10, <1>11 DEF Next, Close

-----------------------------------------------------------------------------
(***************************************************************************)
(* The processes and the timers.                                           *)
(***************************************************************************)

\* No step but RunChild and Respawn changes the attempt, and a process only
\* moves forward.
LEMMA ProcessesStep == TypeOK /\ Processes /\ TimersAreHeld /\ SettledOnce /\ Next => Processes'
<1> SUFFICES ASSUME TypeOK, Processes, TimersAreHeld, SettledOnce, Next PROVE Processes'
  OBVIOUS
<1> USE DEF process_vars, record_vars, stream_vars, log_vars, timer_vars
<1>1. /\ attempt \in 0 .. 2 /\ Attempts = {1, 2}
      /\ process \in [{1, 2} -> {"unborn", "alive", "exited", "closed"}]
      /\ attempt = 0 => process[1] = "unborn" /\ process[2] = "unborn" /\ timers = {}
  BY DEF TypeOK, Attempts, Processes
<1>2. CASE RunWithoutChild
  BY <1>2 DEF RunWithoutChild, Processes
<1>3. CASE RunChild
  BY <1>1, <1>3 DEF RunChild, Processes
<1>4. CASE Abort \/ TimeoutFires \/ WatchdogFires
  BY <1>1, <1>4 DEF Abort, TimeoutFires, WatchdogFires, AbortRun, Processes
<1>5. CASE GraceFires
  BY <1>1, <1>5 DEF GraceFires, Processes
<1>6. CASE \E event \in Events : ReadLine(event)
  BY <1>6 DEF ReadLine, Processes
<1>7. CASE ChildExits \/ ChildError
  BY <1>1, <1>7 DEF ChildExits, ChildError, Processes
<1>8. ASSUME NEW code \in {0, 1}, NEW killed \in BOOLEAN, NEW startupFailure \in BOOLEAN,
             NEW tail \in {<< >>} \union {<<e>> : e \in Events},
             OnClose(code, killed, startupFailure, tail)
      PROVE  Processes'
  <2>1. CASE Respawn(tail) /\ attempt = 1
    BY <1>1, <2>1 DEF Respawn, Processes
  <2>2. CASE BeginFallbackRetry(tail) /\ attempt = 1 /\ ~ Respawn(tail)
    BY <1>1, <2>2 DEF BeginFallbackRetry, Processes
  <2>3. CASE Finish(killed, tail)
    BY <1>1, <1>8, <2>3 DEF Finish, OnClose, Processes
  <2> QED
    BY <1>8, <2>1, <2>2, <2>3 DEF OnClose, RetryFailure
<1> QED
  BY <1>2, <1>3, <1>4, <1>5, <1>6, <1>7, <1>8 DEF Next, Close

\* Clearing all fields leaves no timer, clearing the two deadlines leaves
\* the grace timer at most.
LEMMA ClearedTimers ==
  ASSUME TypeOK, TimersAreHeld
  PROVE  /\ Cleared(Kinds) = {}
         /\ \A kinds \in SUBSET Kinds : \A t \in Cleared(kinds) :
              t \in timers /\ t.kind \in Kinds \ kinds /\ handle[t.kind] = t.of /\ t.of # 0
<1>1. ASSUME NEW kinds \in SUBSET Kinds, NEW t \in Cleared(kinds)
      PROVE  t \in timers /\ t.kind \in Kinds \ kinds /\ handle[t.kind] = t.of /\ t.of # 0
  <2>1. /\ t \in timers /\ t \in [kind : Kinds, of : Attempts] /\ handle[t.kind] = t.of
        /\ t \notin {Timer(k, handle[k]) : k \in kinds}
    BY <1>1 DEF Cleared, TypeOK, TimersAreHeld
  <2>2. t = Timer(t.kind, handle[t.kind])
    BY <2>1 DEF Timer
  <2> QED
    BY <2>1, <2>2 DEF Attempts
<1> QED
  BY <1>1

LEMMA TimersStep ==
  TypeOK /\ Processes /\ TimersAreHeld /\ SettledOnce /\ Next => TimersAreHeld'
<1> SUFFICES ASSUME TypeOK, Processes, TimersAreHeld, SettledOnce, Next PROVE TimersAreHeld'
  OBVIOUS
<1> USE DEF process_vars, record_vars, stream_vars, log_vars, timer_vars
<1>1. /\ handle \in [Kinds -> 0 .. 2] /\ timers \subseteq [kind : Kinds, of : Attempts]
      /\ Kinds = {"grace", "timeout", "watchdog"} /\ settled \in BOOLEAN
      /\ attempt = 0 => timers = {}
  BY DEF TypeOK, Kinds, Processes
<1>2. CASE RunWithoutChild
  BY <1>1, <1>2 DEF RunWithoutChild, TimersAreHeld, Settle
<1>3. CASE RunChild
  <2>1. timers = {} /\ ~settled /\ settled' = settled
    BY <1>1, <1>3 DEF RunChild
  <2>2. ASSUME NEW t \in timers'
        PROVE  handle'[t.kind] = t.of
    <3>1. PICK k \in ToArm : t = Timer(k, 1)
      BY <1>3, <2>1, <2>2 DEF RunChild
    <3> QED
      BY <1>1, <1>3, <3>1 DEF RunChild, Timer, ToArm
  <2>3. handle'["grace"] = handle["grace"]
    BY <1>1, <1>3 DEF RunChild, ToArm
  <2> QED
    BY <2>1, <2>2, <2>3 DEF TimersAreHeld
<1>4. ASSUME NEW why, AbortRun(why)
      PROVE  TimersAreHeld'
  <2>1. /\ timers' = Cleared({"timeout", "watchdog"}) \union {Timer("grace", attempt)}
        /\ handle' = [Undefined({"timeout", "watchdog"}) EXCEPT !["grace"] = attempt]
        /\ settled' /\ ~settled
    BY <1>4 DEF AbortRun, Settle
  <2>2. Cleared({"timeout", "watchdog"}) = {}
    <3>1. ASSUME NEW t \in Cleared({"timeout", "watchdog"}) PROVE FALSE
      <4>1. t \in timers /\ t.kind = "grace" /\ handle["grace"] = t.of /\ t.of # 0
        BY <1>1, ClearedTimers
      <4> QED
        BY <1>1, <2>1, <4>1 DEF TimersAreHeld
    <3> QED
      BY <3>1
  <2>3. handle'["grace"] = attempt
    BY <1>1, <2>1 DEF Undefined
  <2>4. timers' = {Timer("grace", attempt)}
    BY <2>1, <2>2
  <2> QED
    BY <2>1, <2>3, <2>4 DEF TimersAreHeld, Timer
<1>5. CASE Abort \/ TimeoutFires \/ WatchdogFires
  BY <1>4, <1>5 DEF Abort, TimeoutFires, WatchdogFires
<1>6. CASE GraceFires
  <2>1. /\ timers' = Cleared({"grace"}) /\ settled' = settled
        /\ \A k \in Kinds \ {"grace"} : handle'[k] = handle[k]
        /\ handle'["grace"] = 0
    BY <1>1, <1>6 DEF GraceFires, Undefined
  <2>2. \A t \in timers' : t \in timers /\ handle'[t.kind] = t.of
    BY <1>1, <2>1, ClearedTimers
  <2> QED
    BY <2>1, <2>2 DEF TimersAreHeld
<1>7. CASE \E event \in Events : ReadLine(event)
  BY <1>7 DEF ReadLine, TimersAreHeld
<1>8. CASE ChildExits
  BY <1>8 DEF ChildExits, TimersAreHeld
<1>9. CASE ChildError
  <2>1. CASE /\ ~settled /\ settled'
             /\ timers' = Cleared({"timeout", "watchdog"})
             /\ handle' = Undefined({"timeout", "watchdog"})
    <3>1. \A t \in timers' : t \in timers /\ t.kind = "grace" /\ handle["grace"] = t.of /\ t.of # 0
      BY <1>1, <2>1, ClearedTimers
    <3>2. timers' = {}
      BY <2>1, <3>1 DEF TimersAreHeld
    <3> QED
      BY <2>1, <3>2 DEF TimersAreHeld
  <2>2. CASE UNCHANGED <<record_vars, usage, log_vars, timer_vars>>
    BY <2>2 DEF TimersAreHeld
  <2> QED
    BY <1>9, <2>1, <2>2 DEF ChildError, Settle
<1>10. ASSUME NEW code \in {0, 1}, NEW killed \in BOOLEAN, NEW startupFailure \in BOOLEAN,
              NEW tail \in {<< >>} \union {<<e>> : e \in Events},
              OnClose(code, killed, startupFailure, tail)
       PROVE  TimersAreHeld'
  <2>1. CASE Respawn(tail) /\ ~settled
    <3>1. timers' = {Timer(k, 2) : k \in ToArm} /\ settled' = FALSE
      BY <1>1, <2>1, ClearedTimers DEF Respawn
    <3>2. handle' = [k \in Kinds |-> IF k \in ToArm THEN 2 ELSE 0]
      BY <2>1 DEF Respawn
    <3>3. ASSUME NEW t \in timers'
          PROVE  handle'[t.kind] = t.of
      <4>1. PICK k \in ToArm : t = Timer(k, 2)
        BY <3>1, <3>3
      <4> QED
        BY <1>1, <3>2, <4>1 DEF Timer, ToArm
    <3>4. handle'["grace"] = 0
      BY <1>1, <3>2 DEF ToArm
    <3> QED
      BY <3>1, <3>3, <3>4 DEF TimersAreHeld
  <2>2. CASE timers' = Cleared(Kinds) /\ handle' = Undefined(Kinds)
    <3>1. timers' = {} /\ handle'["grace"] = 0
      BY <1>1, <2>2, ClearedTimers DEF Undefined
    <3> QED
      BY <3>1 DEF TimersAreHeld
  <2> QED
    BY <1>10, <2>1, <2>2 DEF OnClose, BeginFallbackRetry, Finish
<1> QED
  BY <1>2, <1>3, <1>5, <1>6, <1>7, <1>8, <1>9, <1>10 DEF Next, Close

-----------------------------------------------------------------------------
(***************************************************************************)
(* The record.                                                             *)
(***************************************************************************)

LEMMA SettleStep ==
  TypeOK /\ Processes /\ SettleInv /\ Next => SettleInv'
<1> SUFFICES ASSUME TypeOK, Processes, SettleInv, Next PROVE SettleInv'
  OBVIOUS
<1> USE DEF process_vars, record_vars, stream_vars, log_vars, timer_vars
<1>1. /\ attempt \in 0 .. 2 /\ settled \in BOOLEAN /\ notes \in Nat /\ Attempts = {1, 2}
      /\ process \in [{1, 2} -> {"unborn", "alive", "exited", "closed"}]
      /\ attempt = 0 => timers = {}
      /\ Terminal = {"completed", "failed", "aborted"}
  BY DEF TypeOK, Attempts, Processes, Terminal
<1>2. ASSUME NEW state \in {"aborted", "failed"}, NEW why, Settle(state, why), ~settled,
             why # "none" => state = "aborted"
      PROVE  SettleInv'
  BY <1>1, <1>2 DEF Settle, SettleInv, SettledOnce, CompletedIsClosed
<1>3. ASSUME UNCHANGED record_vars, usage' = usage \/ status # "completed",
             status = "completed" => attempt' = attempt /\ process' = process
      PROVE  SettleInv'
  BY <1>1, <1>3 DEF SettleInv, SettledOnce, CompletedIsClosed
<1>4. status = "completed" => settled /\ attempt > 0 /\ process[attempt] = "closed"
  BY <1>1 DEF SettleInv, SettledOnce, CompletedIsClosed
<1>5. CASE RunWithoutChild
  BY <1>2, <1>5 DEF RunWithoutChild
<1>6. CASE RunChild
  BY <1>1, <1>3, <1>4, <1>6 DEF RunChild
<1>7. CASE Abort \/ TimeoutFires \/ WatchdogFires
  BY <1>2, <1>7 DEF Abort, TimeoutFires, WatchdogFires, AbortRun
<1>8. CASE GraceFires
  BY <1>3, <1>8 DEF GraceFires
<1>9. CASE \E event \in Events : ReadLine(event)
  BY <1>3, <1>4, <1>9 DEF ReadLine
<1>10. CASE ChildExits
  BY <1>3, <1>4, <1>10 DEF ChildExits
<1>11. CASE ChildError
  BY <1>2, <1>3, <1>4, <1>11 DEF ChildError
<1>12. ASSUME NEW code \in {0, 1}, NEW killed \in BOOLEAN, NEW startupFailure \in BOOLEAN,
              NEW tail \in {<< >>} \union {<<e>> : e \in Events},
              OnClose(code, killed, startupFailure, tail)
       PROVE  SettleInv'
  <2>1. attempt > 0 /\ process[attempt] = "exited" /\ status # "completed"
    BY <1>4, <1>12 DEF OnClose
  <2>2. CASE Respawn(tail)
    BY <1>3, <2>1, <2>2 DEF Respawn
  <2>3. CASE BeginFallbackRetry(tail) /\ ~ Respawn(tail) /\ ~settled
    BY <1>2, <2>3 DEF BeginFallbackRetry
  <2>4. CASE Finish(killed, tail) /\ ~settled
    <3>1. Settle(IF killed THEN "aborted" ELSE "completed", "none")
      BY <2>4 DEF Finish
    <3>2. process'[attempt'] = "closed" /\ attempt' = attempt
      BY <1>1, <2>1, <2>4 DEF Finish
    <3> QED
      BY <1>1, <2>1, <2>4, <3>1, <3>2 DEF Settle, SettleInv, SettledOnce, CompletedIsClosed
  <2>5. CASE Finish(killed, tail) /\ settled
    BY <1>3, <2>1, <2>5 DEF Finish
  <2> QED
    BY <1>1, <1>12, <2>2, <2>3, <2>4, <2>5 DEF OnClose
<1> QED
  BY <1>5, <1>6, <1>7, <1>8, <1>9, <1>10, <1>11, <1>12 DEF Next, Close

-----------------------------------------------------------------------------
(***************************************************************************)
(* The log.                                                                *)
(***************************************************************************)

\* The log's invariant does not change under a step that writes nothing,
\* settles nothing as completed or failed and closes no process.
LEMMA LogStays ==
  ASSUME LogInv, SettledOnce, attempt \in Attempts, settled \in BOOLEAN,
         log' = log, sink' = sink, attempt' = attempt,
         \A a \in Attempts : process[a] = "closed" => process'[a] = "closed",
         (settled' = settled /\ status' = status) \/ (~settled /\ settled' /\ status' = "aborted")
  PROVE  LogInv'
<1>1. Written' = Written
  BY DEF Written
<1>2. LogOrder'
  BY DEF LogInv, LogOrder
<1>4. /\ \A line \in ExitLines : line \in Written => settled' /\ status' = status
      /\ status = "failed" => status' = "failed"
      /\ attempt > 0 \/ settled => attempt' > 0 \/ settled'
  BY DEF LogInv, LinesHaveCauses, SettledOnce, Terminal
<1>5. LinesHaveCauses'
  <2>1. \A a \in Attempts : Output(a) \in Written' => process'[a] = "closed"
    BY <1>1 DEF LogInv, LinesHaveCauses
  <2>2. "retry" \in Written' => attempt' = 2 \/ status' = "failed"
    BY <1>1, <1>4 DEF LogInv, LinesHaveCauses
  <2>3. \A line \in ExitLines : line \in Written' =>
          /\ status' = IF line = "exit" THEN "completed" ELSE "aborted"
          /\ settled' /\ attempt' > 0 /\ process'[attempt'] = "closed"
    BY <1>1, <1>4 DEF LogInv, LinesHaveCauses, Attempts
  <2>4. "spawnError" \in Written' => status' = "failed"
    BY <1>1, <1>4 DEF LogInv, LinesHaveCauses
  <2>5. log' # << >> => attempt' > 0 \/ settled'
    BY <1>4 DEF LogInv, LinesHaveCauses
  <2> QED
    BY <2>1, <2>2, <2>3, <2>4, <2>5 DEF LinesHaveCauses
<1>6. CausesHaveLines'
  BY <1>1 DEF LogInv, CausesHaveLines, SettledOnce, Terminal, Attempts
<1> QED
  BY <1>2, <1>5, <1>6 DEF LogInv

\* What has to be shown of a step that writes some lines.
LEMMA LogWritten ==
  ASSUME LogInv, log \in Seq(Lines), sink \in BOOLEAN, NEW lines \in Seq(Lines), Log(lines), 1 \in DOMAIN lines,
         \A a \in Attempts : process[a] = "closed" => process'[a] = "closed",
         attempt' > 0 \/ settled',
         log = << >> /\ sink => lines[1] = "header",
         \A i, j \in DOMAIN lines : i < j =>
           lines[i] # lines[j] /\ lines[i] \notin ExitLines /\ (lines[i] = "spawnError" => lines[j] \notin ExitLines),
         Written \intersect ExitLines = {},
         "retry" \in Written => attempt' = 2 \/ status' = "failed",
         "spawnError" \in Written => status' = "failed",
         \A i \in DOMAIN lines :
           /\ lines[i] \notin Written
           /\ \A a \in Attempts : lines[i] = Output(a) => process'[a] = "closed"
           /\ lines[i] = "retry" => attempt' = 2 \/ status' = "failed"
           /\ lines[i] = "spawnError" => status' = "failed"
           /\ lines[i] \in ExitLines =>
                /\ status' = IF lines[i] = "exit" THEN "completed" ELSE "aborted"
                /\ "spawnError" \notin Written /\ settled' /\ attempt' > 0 /\ process'[attempt'] = "closed",
         sink /\ status' = "failed" => "spawnError" \in Written \/ \E i \in DOMAIN lines : lines[i] = "spawnError",
         status' = "completed" => \E i \in DOMAIN lines : lines[i] = "exit"
  PROVE  LogInv'
<1>1. LogOrder'
  BY OrderKept DEF LogInv
<1>2. /\ Written \subseteq Written'
      /\ \A line \in Written' : line \in Written \/ \E i \in DOMAIN lines : lines[i] = line
      /\ sink' => sink /\ \A i \in DOMAIN lines : lines[i] \in Written'
  BY WhatIsWritten
<1>3. LinesHaveCauses'
  <2>1. \A a \in Attempts : Output(a) \in Written' => process'[a] = "closed"
    BY <1>2 DEF LogInv, LinesHaveCauses
  <2>2. "retry" \in Written' => attempt' = 2 \/ status' = "failed"
    BY <1>2
  <2>3. \A line \in ExitLines : line \in Written' =>
          /\ status' = IF line = "exit" THEN "completed" ELSE "aborted"
          /\ settled' /\ attempt' > 0 /\ process'[attempt'] = "closed"
    BY <1>2
  <2>4. "spawnError" \in Written' => status' = "failed"
    BY <1>2
  <2> QED
    BY <2>1, <2>2, <2>3, <2>4 DEF LinesHaveCauses
<1>4. CausesHaveLines'
  <2>1. lines[1] \in Written' => log' # << >>
    BY DEF Written
  <2>2. sink' => log' # << >>
    BY <1>2, <2>1
  <2>3. sink' /\ status' = "failed" => "spawnError" \in Written'
    BY <1>2
  <2>4. sink' /\ status' = "completed" => "exit" \in Written'
    BY <1>2
  <2> QED
    BY <2>2, <2>3, <2>4 DEF CausesHaveLines
<1> QED
  BY <1>1, <1>3, <1>4 DEF LogInv

LEMMA LogStep ==
  TypeOK /\ Processes /\ SettleInv /\ TimersAreHeld /\ LogInv /\ Next => LogInv'
<1> SUFFICES ASSUME TypeOK, Processes, SettleInv, TimersAreHeld, LogInv, Next PROVE LogInv'
  OBVIOUS
<1> USE DEF process_vars, record_vars, stream_vars, log_vars, timer_vars
<1>1. /\ attempt \in 0 .. 2 /\ settled \in BOOLEAN
      /\ process \in [Attempts -> {"unborn", "alive", "exited", "closed"}]
      /\ log \in Seq(Lines) /\ sink \in BOOLEAN /\ LogInv
      /\ SettledOnce
  BY DEF TypeOK, SettleInv
<1>2. /\ {"header", "retry", "spawnError"} \union ExitLines \subseteq Lines
      /\ attempt = 0 => timers = {} /\ \A a \in Attempts : process[a] = "unborn"
      /\ 1 \in Attempts /\ 2 \in Attempts /\ (attempt > 0 => attempt \in Attempts)
      /\ \A a \in Attempts : a = 1 \/ a = 2
  <2>1. {"header", "retry", "spawnError"} \union ExitLines \subseteq Lines
    BY DEF Lines, ExitLines
  <2>2. attempt = 0 => timers = {} /\ \A a \in Attempts : process[a] = "unborn"
    BY DEF Processes
  <2>3. /\ 1 \in Attempts /\ 2 \in Attempts /\ (attempt > 0 => attempt \in Attempts)
        /\ \A a \in Attempts : a = 1 \/ a = 2
    BY <1>1 DEF Attempts
  <2> QED
    BY <2>1, <2>2, <2>3
<1>3. /\ ~settled => Written \intersect ExitLines = {} /\ "spawnError" \notin Written
      /\ ~settled => status = "running"
      /\ attempt = 1 /\ ~settled => "retry" \notin Written
      /\ attempt > 0 /\ sink => log # << >>
      /\ attempt = 0 /\ ~settled => log = << >>
  <2>1. ~settled => status \notin {"failed", "completed", "aborted"} /\ status = "running"
    BY <1>1 DEF SettledOnce, Terminal, TypeOK
  <2> QED
    BY <1>1, <2>1 DEF LogInv, LinesHaveCauses, CausesHaveLines
<1>o. /\ \A a \in Attempts : Output(a) \in Lines /\ Output(a) \notin {"header", "retry", "spawnError"} \union ExitLines
      /\ "header" \notin ExitLines /\ "retry" \notin ExitLines /\ "spawnError" \notin ExitLines
      /\ \A a, b \in Attempts : Output(a) = Output(b) => a = b
  BY DEF Attempts, Output, Lines, ExitLines
<1>4. CASE RunWithoutChild \/ RunChild
  <2>1. /\ log = << >> /\ attempt = 0 /\ ~settled
        /\ \A a \in Attempts : process[a] = "unborn"
    BY <1>2, <1>3, <1>4 DEF RunWithoutChild, RunChild
  <2>2. Written = {}
    <3>1. DOMAIN log = {}
      BY <2>1
    <3> QED
      BY <3>1 DEF Written
  <2>3. CASE Log(<<"header">>) /\ (attempt' = 1 \/ settled') /\ status' \in {"running", "aborted"}
    <3> DEFINE lines == <<"header">>
    <3>1. /\ lines \in Seq(Lines) /\ DOMAIN lines = {1} /\ lines[1] = "header"
      BY <1>2, LinesAreTyped
    <3>2. Log(lines)
      BY <2>3
    <3> HIDE DEF lines
    <3> QED
      BY <1>1, <1>o, <2>1, <2>2, <2>3, <3>1, <3>2, LogWritten
  <2>4. CASE Log(<<"header", "spawnError">>) /\ settled' /\ status' = "failed"
    <3> DEFINE lines == <<"header", "spawnError">>
    <3>1. lines \in Seq(Lines) /\ DOMAIN lines = {1, 2} /\ lines[1] = "header" /\ lines[2] = "spawnError"
      BY <1>2, LinesAreTyped
    <3>2. Log(lines)
      BY <2>4
    <3> HIDE DEF lines
    <3> QED
      BY <1>1, <1>o, <2>1, <2>2, <2>4, <3>1, <3>2, LogWritten
  <2>5. CASE RunChild
    BY <1>3, <2>1, <2>3, <2>5 DEF RunChild
  <2>6. CASE RunWithoutChild
    BY <2>1, <2>3, <2>4, <2>6 DEF RunWithoutChild, Settle
  <2> QED
    BY <1>4, <2>5, <2>6
<1>5. CASE Abort \/ TimeoutFires \/ WatchdogFires \/ GraceFires
  <2>1. timers # {} \/ attempt > 0
    BY <1>5 DEF Abort, TimeoutFires, WatchdogFires, GraceFires
  <2>2. log' = log /\ sink' = sink /\ attempt' = attempt /\ process' = process
    BY <1>5 DEF Abort, TimeoutFires, WatchdogFires, AbortRun, GraceFires
  <2>3. (settled' = settled /\ status' = status) \/ (~settled /\ settled' /\ status' = "aborted")
    BY <1>5 DEF Abort, TimeoutFires, WatchdogFires, AbortRun, GraceFires, Settle
  <2>4. attempt \in Attempts
    BY <1>1, <1>2, <2>1
  <2> QED
    BY <1>1, <2>2, <2>3, <2>4, LogStays
<1>6. CASE ChildExits \/ \E event \in Events : ReadLine(event)
  <2>1. /\ attempt \in Attempts /\ attempt' = attempt
        /\ log' = log /\ sink' = sink /\ settled' = settled /\ status' = status
    BY <1>2, <1>6 DEF ChildExits, ReadLine
  <2>2. \A a \in Attempts : process[a] = "closed" => process'[a] = "closed"
    BY <1>1, <1>6 DEF ChildExits, ReadLine
  <2> QED
    BY <1>1, <2>1, <2>2, LogStays
<1>7. CASE ChildError
  <2>1. /\ attempt > 0 /\ attempt \in Attempts /\ attempt' = attempt
        /\ \A a \in Attempts : process[a] = "closed" => process'[a] = "closed"
    BY <1>1, <1>2, <1>7 DEF ChildError
  <2>2. CASE ~settled /\ Settle("failed", "none") /\ Log(<<"spawnError">>)
    <3> DEFINE lines == <<"spawnError">>
    <3>1. lines \in Seq(Lines) /\ DOMAIN lines = {1} /\ lines[1] = "spawnError"
      BY <1>2, LinesAreTyped
    <3>2. Log(lines)
      BY <2>2
    <3>3. settled' /\ status' = "failed"
      BY <2>2 DEF Settle
    <3> HIDE DEF lines
    <3> QED
      BY <1>1, <1>3, <1>o, <2>1, <2>2, <3>1, <3>2, <3>3, LogWritten
  <2>3. CASE settled /\ UNCHANGED <<record_vars, usage, log_vars, timer_vars>>
    <3>1. log' = log /\ sink' = sink /\ settled' = settled /\ status' = status
      BY <2>3
    <3> QED
      BY <1>1, <2>1, <3>1, LogStays
  <2> QED
    BY <1>7, <2>2, <2>3 DEF ChildError
<1>8. ASSUME NEW code \in {0, 1}, NEW killed \in BOOLEAN, NEW startupFailure \in BOOLEAN,
             NEW tail \in {<< >>} \union {<<e>> : e \in Events},
             OnClose(code, killed, startupFailure, tail)
      PROVE  LogInv'
  <2>1. attempt > 0 /\ process[attempt] = "exited"
    BY <1>1, <1>8 DEF OnClose
  <2>2. /\ Output(attempt) \notin Written /\ Written \intersect ExitLines = {}
        /\ "retry" \in Written => attempt = 2 \/ status = "failed"
        /\ "spawnError" \in Written => status = "failed"
        /\ sink /\ status = "failed" => "spawnError" \in Written
        /\ status # "completed"
        /\ log = << >> => ~sink
    <3>1. process[attempt] # "closed" /\ attempt \in Attempts
      BY <1>2, <2>1
    <3>2. Output(attempt) \notin Written /\ Written \intersect ExitLines = {}
      BY <1>1, <3>1 DEF LogInv, LinesHaveCauses
    <3>3. status # "completed"
      BY <3>1 DEF SettleInv, CompletedIsClosed
    <3> QED
      BY <1>1, <1>3, <2>1, <3>2, <3>3 DEF LogInv, LinesHaveCauses, CausesHaveLines
  <2>3. CASE Respawn(tail) /\ ~settled /\ attempt = 1
    <3> DEFINE lines == <<Output(1), "retry">>
    <3>1. lines \in Seq(Lines) /\ DOMAIN lines = {1, 2} /\ lines[1] = Output(1) /\ lines[2] = "retry"
      BY <1>2, LinesAreTyped
    <3>2. Log(lines)
      BY <2>3 DEF Respawn
    <3>3. /\ ~settled' /\ status' = "running" /\ attempt' = 2
          /\ process'[1] = "closed"
          /\ \A a \in Attempts : process[a] = "closed" => process'[a] = "closed" \/ a = 2
      BY <1>1, <1>2, <1>3, <2>3 DEF Respawn
    <3>4. process[2] = "unborn"
      BY <2>3 DEF Processes
    <3> HIDE DEF lines
    <3>5. \A i, j \in DOMAIN lines : i < j =>
            lines[i] # lines[j] /\ lines[i] \notin ExitLines /\ (lines[i] = "spawnError" => lines[j] \notin ExitLines)
      BY <1>2, <1>o, <3>1
    <3> QED
      BY <1>1, <1>2, <1>3, <1>o, <2>2, <2>3, <3>1, <3>2, <3>3, <3>4, <3>5, SMTT(30), LogWritten
  <2>4. CASE BeginFallbackRetry(tail) /\ ~ Respawn(tail) /\ ~settled /\ attempt = 1
    <3> DEFINE lines == <<Output(1), "retry", "spawnError">>
    <3>1. /\ lines \in Seq(Lines) /\ DOMAIN lines = {1, 2, 3}
          /\ lines[1] = Output(1) /\ lines[2] = "retry" /\ lines[3] = "spawnError"
      BY <1>2, LinesAreTyped
    <3>2. Log(lines)
      BY <2>4 DEF BeginFallbackRetry
    <3>3. /\ settled' /\ status' = "failed" /\ attempt' = 1
          /\ process'[1] = "closed"
          /\ \A a \in Attempts : process[a] = "closed" => process'[a] = "closed"
      BY <1>1, <1>2, <2>4 DEF BeginFallbackRetry, Settle
    <3> HIDE DEF lines
    <3>4. \A i, j \in DOMAIN lines : i < j =>
            lines[i] # lines[j] /\ lines[i] \notin ExitLines /\ (lines[i] = "spawnError" => lines[j] \notin ExitLines)
      <4>1. \A i, j \in {1, 2, 3} : i < j => (i = 1 /\ j = 2) \/ (i = 1 /\ j = 3) \/ (i = 2 /\ j = 3)
        OBVIOUS
      <4>2. Output(1) # "retry" /\ Output(1) # "spawnError" /\ "retry" # "spawnError" /\ Output(1) \notin ExitLines
             /\ "retry" \notin ExitLines /\ "spawnError" \notin ExitLines
        BY DEF Output, ExitLines
      <4> QED
        BY <3>1, <4>1, <4>2
    <3> QED
      BY <1>1, <1>2, <1>3, <1>o, <2>2, <2>4, <3>1, <3>2, <3>3, <3>4, SMTT(30), LogWritten
  <2>5. CASE Finish(killed, tail)
    <3>1. /\ attempt' = attempt /\ process'[attempt] = "closed" /\ attempt \in Attempts
          /\ \A a \in Attempts : process[a] = "closed" => process'[a] = "closed"
      BY <1>1, <1>2, <2>1, <2>5 DEF Finish
    <3>2. CASE ~settled /\ Settle(IF killed THEN "aborted" ELSE "completed", "none")
               /\ Log(<<Output(attempt), ExitLine(killed)>>)
      <4> DEFINE lines == <<Output(attempt), ExitLine(killed)>>
      <4>0. ExitLine(killed) \in ExitLines /\ "spawnError" \notin ExitLines /\ "retry" \notin ExitLines
        BY DEF ExitLine, ExitLines
      <4>1. lines \in Seq(Lines) /\ DOMAIN lines = {1, 2} /\ lines[1] = Output(attempt) /\ lines[2] = ExitLine(killed)
        BY <1>2, <4>0, LinesAreTyped
      <4>2. Log(lines)
        BY <3>2
      <4>3. settled' /\ status' = IF ExitLine(killed) = "exit" THEN "completed" ELSE "aborted"
        BY <3>2 DEF Settle, ExitLine
      <4> HIDE DEF lines
      <4>4. /\ \A i, j \in DOMAIN lines : i < j =>
                 lines[i] # lines[j] /\ lines[i] \notin ExitLines /\ (lines[i] = "spawnError" => lines[j] \notin ExitLines)
            /\ \A i \in DOMAIN lines : lines[i] \notin Written
            /\ \A i \in DOMAIN lines : lines[i] # "retry" /\ lines[i] # "spawnError"
        BY <1>o, <2>2, <3>1, <4>0, <4>1
      <4>5. \A i \in DOMAIN lines : \A a \in Attempts : lines[i] = Output(a) => process'[a] = "closed"
        BY <1>o, <3>1, <4>0, <4>1
      <4>6. \A i \in DOMAIN lines : lines[i] \in ExitLines => lines[i] = ExitLine(killed)
        BY <1>o, <3>1, <4>1
      <4>7. status' = "completed" => lines[2] = "exit"
        BY <4>1, <4>3
      <4>8. status' # "failed"
        BY <4>3
      <4> QED
        BY <1>1, <1>3, <2>1, <2>2, <3>1, <3>2, <4>1, <4>2, <4>3, <4>4, <4>5, <4>6, <4>7, <4>8, SMTT(30), LogWritten
    <3>3. CASE settled /\ Log(<<Output(attempt)>>) /\ UNCHANGED record_vars
      <4> DEFINE lines == <<Output(attempt)>>
      <4>1. lines \in Seq(Lines) /\ DOMAIN lines = {1} /\ lines[1] = Output(attempt)
        BY LinesAreTyped
      <4>2. Log(lines)
        BY <3>3
      <4> HIDE DEF lines
      <4> QED
        BY <1>1, <1>3, <1>o, <2>1, <2>2, <3>1, <3>3, <4>1, <4>2, LogWritten
    <3> QED
      BY <2>5, <3>2, <3>3 DEF Finish
  <2> QED
    BY <1>8, <2>3, <2>4, <2>5 DEF OnClose, RetryFailure
<1> QED
  BY <1>4, <1>5, <1>6, <1>7, <1>8 DEF Next, Close

-----------------------------------------------------------------------------
(***************************************************************************)
(* The theorems.                                                           *)
(***************************************************************************)

LEMMA IInvStep == IInv /\ [Next]_vars => IInv'
<1> SUFFICES ASSUME IInv, [Next]_vars PROVE IInv'
  OBVIOUS
<1>1. CASE Next
  BY <1>1, TypeStep, ProcessesStep, SettleStep, TimersStep, LogStep DEF IInv, SettleInv
<1>2. CASE UNCHANGED vars
  <2> USE <1>2 DEF vars, process_vars, record_vars, stream_vars, log_vars, timer_vars
  <2>1. TypeOK'
    BY DEF IInv, TypeOK
  <2>2. Processes' /\ SettleInv' /\ TimersAreHeld'
    BY DEF IInv, Processes, SettleInv, SettledOnce, CompletedIsClosed, TimersAreHeld
  <2>3. Written' = Written
    BY DEF Written
  <2>4. LogInv'
    BY <2>3 DEF IInv, LogInv, LinesHaveCauses, CausesHaveLines, LogOrder
  <2> QED
    BY <2>1, <2>2, <2>4 DEF IInv
<1> QED
  BY <1>1, <1>2

\* The inductive invariant holds in every reachable state of a run.
THEOREM Invariant == Spec => []IInv
BY InitInv, IInvStep, PTL DEF Spec

\* Every reachable state of a run has the shape TypeOK gives it.
THEOREM Typed == Spec => []TypeOK
<1>1. IInv => TypeOK
  BY DEF IInv
<1> QED
  BY <1>1, Invariant, PTL

\* However exit, error, abort, timeout, silence and close race, a run is
\* settled once, with one note, and a completed record shows the sum of its
\* turns: finishSettle is reached once per run, under the guards of its
\* callers.
THEOREM SettledOnceAlways == Spec => []SettledOnce
<1>1. IInv => SettledOnce
  BY DEF IInv, SettleInv
<1> QED
  BY <1>1, Invariant, PTL

\* A pending timer is always the one its field of RunState names, and only
\* the grace timer outlives the settle: clearTimers loses none, not even
\* across the respawn.
THEOREM TimersAreHeldAlways == Spec => []TimersAreHeld
<1>1. IInv => TimersAreHeld
  BY DEF IInv
<1> QED
  BY <1>1, Invariant, PTL

\* The log of a run, also one cut off by a failing sink, claims no outcome but
\* the run's own, with one exception: of a child that something other than
\* the runner killed, settleExit writes an exit line and settles it aborted,
\* and classifyFromLogDir calls it completed.  As long as the sink works a
\* restart reads the completed or failed outcome out of the log.
THEOREM LogTellsTheOutcomeAlways == Spec => []LogTellsTheOutcome
<1>1. ASSUME IInv PROVE LogTellsTheOutcome
  <2>1. /\ "spawnError" \in Written <=> \E i \in DOMAIN log : log[i] = "spawnError"
        /\ (\E line \in ExitLines : line \in Written) <=> \E i \in DOMAIN log : log[i] \in ExitLines
        /\ "exit signal" \in Written <=> SignalIsLogged
    BY DEF Written, SignalIsLogged
  <2>2. /\ LinesHaveCauses /\ CausesHaveLines
        /\ "exit" \in ExitLines /\ \A line \in ExitLines : line = "exit" \/ line = "exit signal"
    BY <1>1 DEF IInv, LogInv, ExitLines
  <2>3. Classified = "failed" => status = "failed"
    BY <2>1, <2>2 DEF LinesHaveCauses, Classified
  <2>4. Classified = "completed" => status = IF SignalIsLogged THEN "aborted" ELSE "completed"
    <3>1. SUFFICES ASSUME Classified = "completed"
                   PROVE  status = IF SignalIsLogged THEN "aborted" ELSE "completed"
      OBVIOUS
    <3>2. PICK line \in ExitLines : line \in Written
      BY <2>1, <3>1 DEF Classified
    <3>3. SignalIsLogged => status = "aborted"
      BY <2>1, <2>2 DEF LinesHaveCauses, ExitLines
    <3>4. line = "exit" => status = "completed"
      BY <2>2, <3>2 DEF LinesHaveCauses
    <3> QED
      BY <2>1, <2>2, <3>2, <3>3, <3>4
  <2>5. ASSUME sink, status \in {"completed", "failed"} PROVE Classified = status
    BY <2>1, <2>2, <2>5 DEF LinesHaveCauses, CausesHaveLines, Classified
  <2> QED
    BY <1>1, <2>3, <2>4, <2>5 DEF IInv, LogInv, LogOrder, LogTellsTheOutcome
<1> QED
  BY <1>1, Invariant, PTL
=============================================================================
