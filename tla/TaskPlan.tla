------------------------------ MODULE TaskPlan -------------------------------
(***************************************************************************)
(* One task plan in the tracking store and the tools that several agents'  *)
(* servers run on it (task_graph_server.py over task_plan_store.py and     *)
(* Store.plan_row and plan_upsert).                                        *)
(*                                                                         *)
(* Each tool opens its own store and does its work in one BEGIN IMMEDIATE  *)
(* transaction, so it is one action here; what interleaves are the tools   *)
(* of different agents, who act on the document they read earlier and name *)
(* its revision.  `seen` is the document some agent last read; any other   *)
(* agent may call any tool in the meantime.                                *)
(*                                                                         *)
(* Left out: timestamps, texts, the order of lists, and everything of an   *)
(* answer that the next call does not depend on.  A Record stands for the  *)
(* note and the evidence of a completion.                                  *)
(***************************************************************************)
EXTENDS TaskGraph

CONSTANTS
  Contents,     \* what authors may submit as a plan
  Records,      \* notes with their evidence
  Evidence,     \* evidence for a criterion
  MaxRevision,  \* bound: the last revision that is written
  MaxEvidence   \* bound: pieces of evidence per criterion

\* A plan is a finite document; its ids are numbers (see TaskGraph).
ASSUME PlanAssumption ==
  /\ MaxRevision \in Nat /\ MaxEvidence \in Nat
  /\ \A content \in Contents : DOMAIN content \subseteq Nat /\ IsFiniteSet(DOMAIN content)

NoPlan == [none |-> TRUE]
Refused == [refused |-> TRUE]
Replayed == [replayed |-> TRUE]
NoCompletion == [none |-> TRUE]

VARIABLES
  row,   \* the row of the plans table: its revision and its document, or NoPlan
  seen,  \* the document an agent read, or NoPlan
  last   \* the call that made the current revision, and whether its criterion had no evidence yet

vars == << row, seen, last >>

Init == row = NoPlan /\ seen = NoPlan /\ last = NoPlan

-----------------------------------------------------------------------------
(***************************************************************************)
(* The document.                                                           *)
(***************************************************************************)

\* A new step: pending, its criteria unchecked.
Drafted(draft) ==
  [depends |-> draft.depends, files |-> draft.files, resources |-> draft.resources,
   status |-> "pending", completion |-> NoCompletion,
   verdict |-> [ac \in draft.criteria |-> "unchecked"],
   evidence |-> [ac \in draft.criteria |-> << >>]]

\* Mutant: the graph is not validated.
BuildPlan_Unchecked(content) ==
  [revision |-> 0, steps |-> [s \in DOMAIN content |-> Drafted(content[s])]]

\* The plan an author submits, or a refusal by the validators.
BuildPlan(content) ==
  IF DependenciesResolve(content) /\ Acyclic(content)
  THEN [revision |-> 0, steps |-> [s \in DOMAIN content |-> Drafted(content[s])]]
  ELSE Refused

\* The author's part of a document, the only part its hash covers.
AuthoredContent(doc) ==
  [s \in DOMAIN doc.steps |->
     [depends |-> doc.steps[s].depends, files |-> doc.steps[s].files,
      resources |-> doc.steps[s].resources, criteria |-> DOMAIN doc.steps[s].verdict]]

Unpassed(step) == {ac \in DOMAIN step.verdict : step.verdict[ac] # "passed"}

Forced(step) == step.completion # NoCompletion /\ step.completion.forced

\* V11: a step is complete with its criteria passed, or by force.
CompletionConsistent(doc) ==
  \A s \in DOMAIN doc.steps :
    doc.steps[s].status = "complete" => Unpassed(doc.steps[s]) = {} \/ Forced(doc.steps[s])

WithStep(doc, s, step) == [doc EXCEPT !.steps = [@ EXCEPT ![s] = step]]

Ended(step, status, record) ==
  [step EXCEPT !.status = status, !.completion = [forced |-> FALSE, record |-> record]]

-----------------------------------------------------------------------------
(***************************************************************************)
(* The tools, as functions of the stored document: the document to store,  *)
(* Replayed for a repetition that writes nothing, or Refused.              *)
(***************************************************************************)

\* A replay is a no-op; a dependency may be overridden by force, which is
\* recorded as a completion.
StepStart(doc, call) ==
  LET step == doc.steps[call.step]
      started == [step EXCEPT !.status = "in_progress", !.completion = NoCompletion]
  IN  CASE step.status = "in_progress" -> Replayed
        [] step.status \in {"pending", "failed"} /\ WaitingOn(doc.steps, call.step) = {} ->
             WithStep(doc, call.step, started)
        [] step.status \in {"pending", "failed"} /\ WaitingOn(doc.steps, call.step) # {} /\ call.force ->
             WithStep(doc, call.step,
                      [started EXCEPT !.completion = [forced |-> TRUE, record |-> call.record]])
        [] OTHER -> Refused

\* The verdicts after the results of a completion.
Judged(step, results) ==
  [ac \in DOMAIN step.verdict |-> IF ac \in DOMAIN results THEN results[ac] ELSE step.verdict[ac]]

\* Mutant: force overrides the dependencies as well.
StepComplete_ForcedPast(doc, call) ==
  LET step == doc.steps[call.step]
      updated == [step EXCEPT !.verdict = Judged(step, call.results)]
  IN  IF /\ step.status = "in_progress"
         /\ (WaitingOn(doc.steps, call.step) = {} /\ Unpassed(updated) = {}) \/ call.force
      THEN WithStep(doc, call.step,
                    [updated EXCEPT !.status = "complete",
                                    !.completion = [forced |-> call.force, record |-> call.record]])
      ELSE Refused

\* Force overrides the criteria, never the dependencies.
StepComplete(doc, call) ==
  LET step == doc.steps[call.step]
      updated == [step EXCEPT !.verdict = Judged(step, call.results)]
      replays == /\ \A ac \in DOMAIN call.results : step.verdict[ac] = call.results[ac]
                 /\ step.completion.record = call.record
  IN  CASE step.status = "complete" -> IF replays THEN Replayed ELSE Refused
        [] /\ step.status = "in_progress"
           /\ WaitingOn(doc.steps, call.step) = {}
           /\ (Unpassed(updated) = {} \/ call.force) ->
             WithStep(doc, call.step,
                      [updated EXCEPT !.status = "complete",
                                      !.completion = [forced |-> call.force, record |-> call.record]])
        [] OTHER -> Refused

\* Mutant: a repetition of the call is refused by the status guard.
Terminal_Guarded(doc, call, from, to) ==
  IF doc.steps[call.step].status \in from
  THEN WithStep(doc, call.step, Ended(doc.steps[call.step], to, call.record))
  ELSE Refused

\* A replay of a failure or a skip names the same record.
Terminal(doc, call, from, to) ==
  LET step == doc.steps[call.step]
      replays == step.completion # NoCompletion /\ step.completion.record = call.record
  IN  CASE step.status = to -> IF replays THEN Replayed ELSE Refused
        [] step.status \in from -> WithStep(doc, call.step, Ended(step, to, call.record))
        [] OTHER -> Refused

StepFail(doc, call) == Terminal(doc, call, {"in_progress"}, "failed")

StepSkip(doc, call) == Terminal(doc, call, {"pending", "in_progress", "failed"}, "skipped")

\* A verdict appends its evidence; the same verdict with evidence equal to
\* all that is stored is a replay.
AcCheck(doc, call) ==
  LET step == doc.steps[call.step]
      stored == step.evidence[call.ac]
  IN  IF step.status = "complete" \/ call.ac \notin DOMAIN step.verdict THEN Refused
      ELSE IF step.verdict[call.ac] = call.status /\ stored = call.evidence THEN Replayed
      ELSE WithStep(doc, call.step,
                    [step EXCEPT !.verdict = [@ EXCEPT ![call.ac] = call.status],
                                 !.evidence = [@ EXCEPT ![call.ac] = stored \o call.evidence]])

\* Only a plan whose steps are all pending or skipped can be authored anew,
\* and then all of it starts again.
PlanReplace(doc, call) ==
  LET incoming == BuildPlan(call.content)
  IN  IF incoming = Refused THEN Refused
      ELSE IF AuthoredContent(incoming) = AuthoredContent(doc) THEN Replayed
      ELSE IF \E s \in DOMAIN doc.steps : doc.steps[s].status \notin {"pending", "skipped"} THEN Refused
      ELSE incoming

Apply(doc, call) ==
  CASE call.tool = "plan_replace" -> PlanReplace(doc, call)
    [] call.tool # "plan_replace" /\ call.step \notin DOMAIN doc.steps -> Refused
    [] OTHER -> CASE call.tool = "step_start" -> StepStart(doc, call)
                  [] call.tool = "step_complete" -> StepComplete(doc, call)
                  [] call.tool = "step_fail" -> StepFail(doc, call)
                  [] call.tool = "step_skip" -> StepSkip(doc, call)
                  [] call.tool = "ac_check" -> AcCheck(doc, call)

-----------------------------------------------------------------------------
(***************************************************************************)
(* What agents may call.                                                   *)
(***************************************************************************)

Steps == UNION {DOMAIN content : content \in Contents}
Criteria == UNION {UNION {content[s].criteria : s \in DOMAIN content} : content \in Contents}

\* Every tool with arguments its schema accepts.
Calls ==
  [tool : {"plan_replace"}, content : Contents]
  \union [tool : {"step_start"}, step : Steps, force : BOOLEAN, record : Records]
  \union [tool : {"step_complete"}, step : Steps, force : BOOLEAN, record : Records,
          results : UNION {[acs -> {"passed", "failed"}] : acs \in SUBSET Criteria}]
  \union [tool : {"step_fail", "step_skip"}, step : Steps, record : Records]
  \union [tool : {"ac_check"}, step : Steps, ac : Criteria, status : {"passed", "failed"},
          evidence : {<< >>} \union {<< e >> : e \in Evidence}]

\* Criterion results for criteria the step does not have are refused.
Accepted(doc, call) ==
  (call.tool = "step_complete" /\ call.step \in DOMAIN doc.steps)
    => DOMAIN call.results \subseteq DOMAIN doc.steps[call.step].verdict

\* The evidence a call adds to.
Evident(doc, call) ==
  /\ call.tool = "ac_check"
  /\ call.step \in DOMAIN doc.steps
  /\ call.ac \in DOMAIN doc.steps[call.step].evidence

EvidenceFor(doc, call) == doc.steps[call.step].evidence[call.ac]

-----------------------------------------------------------------------------
(***************************************************************************)
(* The store.                                                              *)
(***************************************************************************)

\* Mutant: a re-authored plan starts at revision 0 again.
Stamp_Restarts(doc, revision) ==
  [doc EXCEPT !.revision = IF \A s \in DOMAIN doc.steps : doc.steps[s].status = "pending"
                           THEN 0 ELSE revision]

Stamp(doc, revision) == [doc EXCEPT !.revision = revision]

\* The compare-and-swap: a present row is updated only at the revision the
\* caller read.
PlanUpsert(doc, expected) ==
  \/ /\ row = NoPlan
     /\ row' = [revision |-> 0, doc |-> doc]
  \/ /\ row # NoPlan
     /\ row.revision = expected
     /\ row' = [revision |-> row.revision + 1, doc |-> doc]

\* The document is validated as it is stamped.
SavePlan(doc, expected) ==
  LET stamped == Stamp(doc, IF row = NoPlan THEN 0 ELSE expected + 1)
  IN  CompletionConsistent(stamped) /\ PlanUpsert(stamped, expected)

PlanAtRevision(expected) == row # NoPlan /\ row.revision = expected

\* plan_create: an existing plan answers a replay, and refuses anything else.
PlanCreate ==
  \E content \in Contents :
    /\ row = NoPlan
    /\ BuildPlan(content) # Refused
    /\ SavePlan(BuildPlan(content), 0)
    /\ last' = [call |-> [tool |-> "plan_replace", content |-> content], fresh |-> TRUE]
    /\ UNCHANGED seen

\* The other tools, called with the revision some agent read; a refusal, a
\* conflict and a replay change nothing.
Invoke ==
  \E call \in Calls, expected \in 0 .. MaxRevision - 1 :
    /\ PlanAtRevision(expected)
    /\ Accepted(row.doc, call)
    /\ Evident(row.doc, call) => Len(EvidenceFor(row.doc, call) \o call.evidence) <= MaxEvidence
    /\ LET doc == Apply(row.doc, call)
       IN  doc \notin {Refused, Replayed} /\ SavePlan(doc, expected)
    /\ last' = [call |-> call,
                fresh |-> Evident(row.doc, call) => EvidenceFor(row.doc, call) = << >>]
    /\ UNCHANGED seen

\* plan_get, or the answer of a tool.
Read ==
  /\ row # NoPlan
  /\ seen' = row.doc
  /\ UNCHANGED << row, last >>

Next == PlanCreate \/ Invoke \/ Read

Spec == Init /\ [][Next]_vars

-----------------------------------------------------------------------------
(***************************************************************************)
(* Properties.                                                             *)
(***************************************************************************)

Names == UNION {UNION {content[s].files \union content[s].resources : s \in DOMAIN content} : content \in Contents}

IsStep(step) ==
  /\ step \in [depends : SUBSET Steps, files : SUBSET Names, resources : SUBSET Names, status : StepStatuses,
               completion : {NoCompletion} \union [forced : BOOLEAN, record : Records],
               verdict : {step.verdict}, evidence : {step.evidence}]
  /\ DOMAIN step.verdict \subseteq Criteria
  /\ step.verdict \in [DOMAIN step.verdict -> CriterionStatuses]
  /\ step.evidence \in [DOMAIN step.verdict -> Seq(Evidence)]

IsDocument(doc) ==
  /\ doc \in [revision : 0 .. MaxRevision, steps : {doc.steps}]
  /\ DOMAIN doc.steps \subseteq Steps /\ IsFiniteSet(DOMAIN doc.steps)
  /\ doc.steps = [s \in DOMAIN doc.steps |-> doc.steps[s]]
  /\ \A s \in DOMAIN doc.steps : IsStep(doc.steps[s])
  /\ DependenciesResolve(doc.steps) /\ Acyclic(doc.steps) /\ CompletionConsistent(doc)

\* The shape of the state; what is stored is a valid document.
TypeOK ==
  /\ row # NoPlan =>
       row \in [revision : 0 .. MaxRevision, doc : {row.doc}] /\ IsDocument(row.doc)
  /\ seen # NoPlan => IsDocument(seen)
  /\ last # NoPlan => last \in [call : Calls, fresh : BOOLEAN]

\* A revision names one document: an agent whose revision is still current
\* has read what is stored, so a change it makes is a change to what it saw
\* and no other agent's change is lost (the compare-and-swap of save_plan
\* and plan_upsert, whatever tools ran since).
RevisionNamesTheDocument ==
  row # NoPlan =>
    /\ row.doc.revision = row.revision
    /\ seen # NoPlan =>
         /\ seen.revision <= row.revision
         /\ seen.revision = row.revision => seen = row.doc

\* What a completed step stands on stays true, through forced starts,
\* retries, skips and re-planning: its dependencies are complete or skipped;
\* a step that runs without force has its dependencies too.
FinishedInOrder ==
  row # NoPlan =>
    \A s \in DOMAIN row.doc.steps :
      LET step == row.doc.steps[s]
      IN  step.status = "complete" \/ (step.status = "in_progress" /\ ~ Forced(step))
            => WaitingOn(row.doc.steps, s) = {}

SafeWaves(steps, waves) ==
  LET first == IF waves = << >> THEN {} ELSE waves[1]
  IN  /\ UNION ToSet(waves) = {s \in DOMAIN steps : steps[s].status \in RemainingStatuses}
      /\ \A i \in DOMAIN waves : \A s \in waves[i] :
           /\ \A t \in waves[i] \ {s} : ~ Conflicts(steps[s], steps[t])
           /\ \A j \in DOMAIN waves : \A t \in waves[j] :
                (j = i => t = s \/ t \notin steps[s].depends) /\ (j > i => t # s /\ t \notin steps[s].depends)
      /\ \A s \in first : WaitingOn(steps, s) = {}
      /\ \A s \in Ready(steps) \ first : \E t \in first : Conflicts(steps[s], steps[t])

\* The waves handed to a dispatcher: each remaining step is in one wave,
\* after the remaining steps it depends on, and shares no file or resource
\* with its wave; the first wave can be started, and a ready step is kept
\* out of it only by a conflict.
WavesAreSafe == row # NoPlan => SafeWaves(row.doc.steps, Waves(row.doc.steps))

\* An agent that lost the answer to its call reads the plan and, if nobody
\* has changed it, repeats the call: that changes nothing.  The exception is
\* ac_check for a criterion that already had evidence (see README).
RepeatedCallIsNoOp ==
  (last # NoPlan /\ last.fresh) => Apply(row.doc, last.call) = Replayed
=============================================================================
