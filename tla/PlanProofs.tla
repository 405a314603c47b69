----------------------------- MODULE PlanProofs -----------------------------
(***************************************************************************)
(* What is proved of TaskPlan, for every set of plans that authors submit  *)
(* and any number of revisions: the stored document is a valid plan, a     *)
(* revision names one document, steps finish in the order of their         *)
(* dependencies, a call that is repeated changes nothing, and the waves of *)
(* the remaining steps can be dispatched one after another.                *)
(***************************************************************************)
EXTENDS TaskPlan, FiniteSetTheorems, SequenceTheorems, WellFoundedInduction, TLAPS

-----------------------------------------------------------------------------
(***************************************************************************)
(* Graphs and documents.                                                   *)
(***************************************************************************)

\* The validators look at the dependencies only.
LEMMA SameGraph ==
  ASSUME NEW a, NEW b, DOMAIN a = DOMAIN b, \A s \in DOMAIN a : a[s].depends = b[s].depends
  PROVE  /\ DependenciesResolve(a) => DependenciesResolve(b)
         /\ Acyclic(a) => Acyclic(b)
<1>1. DependenciesResolve(a) => DependenciesResolve(b)
  BY DEF DependenciesResolve
<1>2. ASSUME Acyclic(a), NEW knot \in (SUBSET DOMAIN b) \ {{}}
      PROVE  \E s \in knot : b[s].depends \intersect knot = {}
  <2>1. PICK s \in knot : a[s].depends \intersect knot = {}
    BY <1>2 DEF Acyclic
  <2> QED
    BY <1>2, <2>1
<1> QED
  BY <1>1, <1>2 DEF Acyclic

\* No answer of a tool is mistaken for a row or a document.
LEMMA Distinct ==
  /\ \A x, y : [revision |-> x, doc |-> y] # NoPlan
  /\ \A x, y : [call |-> x, fresh |-> y] # NoPlan
  /\ \A x, y : [forced |-> x, record |-> y] # NoCompletion
<1>1. /\ DOMAIN NoPlan = {"none"} /\ DOMAIN NoCompletion = {"none"}
      /\ \A x, y : DOMAIN [revision |-> x, doc |-> y] = {"revision", "doc"}
      /\ \A x, y : DOMAIN [call |-> x, fresh |-> y] = {"call", "fresh"}
      /\ \A x, y : DOMAIN [forced |-> x, record |-> y] = {"forced", "record"}
  BY DEF NoPlan, NoCompletion
<1>2. "revision" # "none" /\ "call" # "none" /\ "forced" # "none"
  OBVIOUS
<1> QED
  BY <1>1, <1>2

\* The document of a plan that the validators accept, all its steps pending.
LEMMA BuiltPlan ==
  ASSUME NEW content \in Contents, BuildPlan(content) # Refused
  PROVE  /\ IsDocument(BuildPlan(content))
         /\ \A s \in DOMAIN BuildPlan(content).steps : BuildPlan(content).steps[s].status = "pending"
<1> DEFINE doc == BuildPlan(content)
<1>1. /\ doc = [revision |-> 0, steps |-> [s \in DOMAIN content |-> Drafted(content[s])]]
      /\ DependenciesResolve(content) /\ Acyclic(content)
  BY DEF BuildPlan
<1>2. /\ doc.revision = 0 /\ doc.steps = [s \in DOMAIN content |-> Drafted(content[s])]
      /\ DOMAIN doc.steps = DOMAIN content
      /\ \A s \in DOMAIN content : doc.steps[s] = Drafted(content[s])
  BY <1>1
<1>3. DOMAIN content \subseteq Steps /\ IsFiniteSet(DOMAIN content)
  BY PlanAssumption DEF Steps
<1>4. ASSUME NEW s \in DOMAIN content
      PROVE  /\ IsStep(Drafted(content[s]))
             /\ Drafted(content[s]).depends = content[s].depends
             /\ Drafted(content[s]).status = "pending"
  <2> DEFINE step == Drafted(content[s])
  <2>1. content[s].depends \subseteq Steps
    BY <1>1, <1>3 DEF DependenciesResolve
  <2>2. content[s].files \subseteq Names /\ content[s].resources \subseteq Names
    BY DEF Names
  <2>3. content[s].criteria \subseteq Criteria
    BY DEF Criteria
  <2>4. /\ step.depends = content[s].depends /\ step.files = content[s].files
        /\ step.resources = content[s].resources /\ step.status = "pending"
        /\ step.completion = NoCompletion
        /\ step.verdict = [ac \in content[s].criteria |-> "unchecked"]
        /\ step.evidence = [ac \in content[s].criteria |-> << >>]
    BY DEF Drafted
  <2>5. /\ step.verdict \in [DOMAIN step.verdict -> CriterionStatuses]
        /\ step.evidence \in [DOMAIN step.verdict -> Seq(Evidence)]
        /\ DOMAIN step.verdict \subseteq Criteria
    BY <2>3, <2>4, EmptySeq DEF CriterionStatuses
  <2>6. step \in [depends : SUBSET Steps, files : SUBSET Names, resources : SUBSET Names,
                  status : StepStatuses,
                  completion : {NoCompletion} \union [forced : BOOLEAN, record : Records],
                  verdict : {step.verdict}, evidence : {step.evidence}]
    BY <2>1, <2>2, <2>4 DEF Drafted, StepStatuses
  <2> QED
    BY <2>4, <2>5, <2>6 DEF IsStep
<1>5. DependenciesResolve(doc.steps) /\ Acyclic(doc.steps)
  BY <1>1, <1>2, <1>4, SameGraph
<1>6. CompletionConsistent(doc)
  BY <1>2, <1>4 DEF CompletionConsistent
<1>7. doc \in [revision : 0 .. MaxRevision, steps : {doc.steps}]
  BY <1>1, PlanAssumption
<1> QED
  BY <1>2, <1>3, <1>4, <1>5, <1>6, <1>7 DEF IsDocument

\* What WithStep changes.
LEMMA StepIsReplaced ==
  ASSUME NEW doc, IsDocument(doc), NEW s \in DOMAIN doc.steps, NEW step
  PROVE  /\ WithStep(doc, s, step).revision = doc.revision
         /\ DOMAIN WithStep(doc, s, step).steps = DOMAIN doc.steps
         /\ WithStep(doc, s, step).steps[s] = step
         /\ \A t \in DOMAIN doc.steps \ {s} : WithStep(doc, s, step).steps[t] = doc.steps[t]
<1>1. doc \in [revision : 0 .. MaxRevision, steps : {doc.steps}]
  BY DEF IsDocument
<1>2. /\ WithStep(doc, s, step).revision = doc.revision
      /\ WithStep(doc, s, step).steps = [doc.steps EXCEPT ![s] = step]
  BY <1>1 DEF WithStep
<1> QED
  BY <1>2

LEMMA ReplacedIsRecord ==
  ASSUME NEW doc, IsDocument(doc), NEW s \in DOMAIN doc.steps, NEW step
  PROVE  LET new == WithStep(doc, s, step)
         IN  /\ new \in [revision : 0 .. MaxRevision, steps : {new.steps}]
             /\ new.steps = [t \in DOMAIN new.steps |-> new.steps[t]]
<1>1. doc \in [revision : 0 .. MaxRevision, steps : {doc.steps}]
  BY DEF IsDocument
<1>2. /\ WithStep(doc, s, step).steps = [doc.steps EXCEPT ![s] = step]
      /\ WithStep(doc, s, step) \in [revision : 0 .. MaxRevision, steps : {WithStep(doc, s, step).steps}]
  BY <1>1 DEF WithStep
<1> QED
  BY <1>2

\* The document a tool leaves when it changes one step of a valid one.
LEMMA ChangedDocument ==
  ASSUME NEW doc, IsDocument(doc), NEW s \in DOMAIN doc.steps, NEW step, IsStep(step),
         step.depends = doc.steps[s].depends, CompletionConsistent(WithStep(doc, s, step))
  PROVE  IsDocument(WithStep(doc, s, step))
<1> DEFINE new == WithStep(doc, s, step)
<1>1. /\ DOMAIN new.steps = DOMAIN doc.steps
      /\ new.steps[s] = step
      /\ \A t \in DOMAIN doc.steps \ {s} : new.steps[t] = doc.steps[t]
  BY StepIsReplaced
<1>r. /\ new \in [revision : 0 .. MaxRevision, steps : {new.steps}]
      /\ new.steps = [t \in DOMAIN new.steps |-> new.steps[t]]
  BY ReplacedIsRecord
<1> HIDE DEF new
<1>2. \A t \in DOMAIN doc.steps : doc.steps[t].depends = new.steps[t].depends
  BY <1>1
<1>3. DependenciesResolve(new.steps) /\ Acyclic(new.steps)
  BY <1>1, <1>2, SameGraph DEF IsDocument
<1>4. \A t \in DOMAIN new.steps : IsStep(new.steps[t])
  BY <1>1 DEF IsDocument
<1>5. DOMAIN new.steps \subseteq Steps /\ IsFiniteSet(DOMAIN new.steps)
  BY <1>1 DEF IsDocument
<1>6. CompletionConsistent(new)
  BY DEF new
<1>7. IsDocument(new)
  BY <1>r, <1>3, <1>4, <1>5, <1>6 DEF IsDocument
<1> QED
  BY <1>7 DEF new

-----------------------------------------------------------------------------
(***************************************************************************)
(* The tools.                                                              *)
(***************************************************************************)

LEMMA CallsTyped ==
  ASSUME NEW call \in Calls
  PROVE  /\ call.tool \in {"plan_replace", "step_start", "step_complete", "step_fail", "step_skip", "ac_check"}
         /\ call.tool = "plan_replace" => call.content \in Contents
         /\ call.tool \in {"step_start", "step_complete"} => call.force \in BOOLEAN
         /\ call.tool \in {"step_start", "step_complete", "step_fail", "step_skip"} => call.record \in Records
         /\ call.tool = "step_complete" =>
              call.results \in [DOMAIN call.results -> {"passed", "failed"}]
         /\ call.tool = "ac_check" =>
              call.status \in {"passed", "failed"} /\ call.evidence \in Seq(Evidence)
<1>1. CASE call \in [tool : {"plan_replace"}, content : Contents]
  BY <1>1
<1>2. CASE call \in [tool : {"step_start"}, step : Steps, force : BOOLEAN, record : Records]
  BY <1>2
<1>3. CASE call \in [tool : {"step_complete"}, step : Steps, force : BOOLEAN, record : Records,
                     results : UNION {[acs -> {"passed", "failed"}] : acs \in SUBSET Criteria}]
  <2>1. PICK acs \in SUBSET Criteria : call.results \in [acs -> {"passed", "failed"}]
    BY <1>3
  <2>2. call.results \in [DOMAIN call.results -> {"passed", "failed"}]
    BY <2>1
  <2> QED
    BY <1>3, <2>2
<1>4. CASE call \in [tool : {"step_fail", "step_skip"}, step : Steps, record : Records]
  BY <1>4
<1>5. CASE call \in [tool : {"ac_check"}, step : Steps, ac : Criteria, status : {"passed", "failed"},
                     evidence : {<< >>} \union {<< e >> : e \in Evidence}]
  <2>1. call.evidence \in Seq(Evidence)
    <3>1. call.evidence \in {<< >>} \union {<< e >> : e \in Evidence}
      BY <1>5
    <3>2. CASE call.evidence = << >>
      BY <3>2, EmptySeq
    <3>3. CASE \E e \in Evidence : call.evidence = << e >>
      BY <3>3
    <3> QED
      BY <3>1, <3>2, <3>3
  <2> QED
    BY <1>5, <2>1
<1> QED
  BY <1>1, <1>2, <1>3, <1>4, <1>5 DEF Calls

\* What the tools keep to when they change a step of a document: it stays a
\* step, what is satisfied stays so, and a step only becomes complete, or
\* runs without force, when it waits on nothing.
Changes(doc, s, step) ==
  /\ IsStep(step) /\ step.depends = doc.steps[s].depends
  /\ doc.steps[s].status \in SatisfiedDeps => step.status = doc.steps[s].status
  /\ step.status = "complete" \/ (step.status = "in_progress" /\ ~ Forced(step)) =>
       \/ WaitingOn(doc.steps, s) = {}
       \/ /\ step.status = doc.steps[s].status
          /\ step.completion = doc.steps[s].completion

\* The fields of a step, for the provers.
LEMMA StepFields ==
  ASSUME NEW step, IsStep(step)
  PROVE  /\ step.depends \subseteq Steps /\ step.files \subseteq Names /\ step.resources \subseteq Names
         /\ step.status \in StepStatuses
         /\ step.completion \in {NoCompletion} \union [forced : BOOLEAN, record : Records]
         /\ DOMAIN step.verdict \subseteq Criteria
         /\ step.verdict \in [DOMAIN step.verdict -> CriterionStatuses]
         /\ step.evidence \in [DOMAIN step.verdict -> Seq(Evidence)]
BY DEF IsStep

LEMMA StartChanges ==
  ASSUME NEW doc, IsDocument(doc), NEW call \in Calls, call.tool = "step_start",
         call.step \in DOMAIN doc.steps, StepStart(doc, call) \notin {Refused, Replayed}
  PROVE  \E step : /\ StepStart(doc, call) = WithStep(doc, call.step, step)
                   /\ Changes(doc, call.step, step)
                   /\ \A new : new.steps[call.step] = step => StepStart(new, call) = Replayed
<1> DEFINE step == doc.steps[call.step]
           started == [step EXCEPT !.status = "in_progress", !.completion = NoCompletion]
           forced == [started EXCEPT !.completion = [forced |-> TRUE, record |-> call.record]]
<1>1. IsStep(step) /\ call.record \in Records /\ "in_progress" \in StepStatuses
  BY CallsTyped DEF IsDocument, StepStatuses
<1>2. /\ IsStep(started) /\ started.depends = step.depends
      /\ started.status = "in_progress" /\ started.completion = NoCompletion
  BY <1>1 DEF IsStep
<1>3. /\ IsStep(forced) /\ forced.depends = step.depends
      /\ forced.status = "in_progress" /\ forced.completion = [forced |-> TRUE, record |-> call.record]
  BY <1>1, <1>2 DEF IsStep
<1>4. \/ /\ StepStart(doc, call) = WithStep(doc, call.step, started)
         /\ WaitingOn(doc.steps, call.step) = {}
         /\ step.status \in {"pending", "failed"}
      \/ /\ StepStart(doc, call) = WithStep(doc, call.step, forced)
         /\ step.status \in {"pending", "failed"}
  BY DEF StepStart
<1>5. Forced(forced)
  BY <1>3, Distinct DEF Forced
<1>6. \A new : new.steps[call.step] = started \/ new.steps[call.step] = forced => StepStart(new, call) = Replayed
  BY <1>2, <1>3 DEF StepStart
<1> HIDE DEF started, forced
<1>7. WaitingOn(doc.steps, call.step) = {} /\ step.status \in {"pending", "failed"} => Changes(doc, call.step, started)
  BY <1>2 DEF Changes, SatisfiedDeps
<1>8. step.status \in {"pending", "failed"} => Changes(doc, call.step, forced)
  BY <1>3, <1>5 DEF Changes, SatisfiedDeps
<1> QED
  BY <1>4, <1>6, <1>7, <1>8

LEMMA CompleteChanges ==
  ASSUME NEW doc, IsDocument(doc), NEW call \in Calls, call.tool = "step_complete", Accepted(doc, call),
         call.step \in DOMAIN doc.steps, StepComplete(doc, call) \notin {Refused, Replayed}
  PROVE  \E step : /\ StepComplete(doc, call) = WithStep(doc, call.step, step)
                   /\ Changes(doc, call.step, step)
                   /\ \A new : new.steps[call.step] = step => StepComplete(new, call) = Replayed
<1> DEFINE step == doc.steps[call.step]
           verdict == Judged(step, call.results)
           updated == [step EXCEPT !.verdict = verdict]
           ended == [updated EXCEPT !.status = "complete",
                                    !.completion = [forced |-> call.force, record |-> call.record]]
<1>1. /\ IsStep(step) /\ call.record \in Records /\ call.force \in BOOLEAN
      /\ call.results \in [DOMAIN call.results -> {"passed", "failed"}]
      /\ DOMAIN call.results \subseteq DOMAIN step.verdict
      /\ "complete" \in StepStatuses
  BY CallsTyped DEF IsDocument, StepStatuses, Accepted
<1>2. /\ DOMAIN verdict = DOMAIN step.verdict
      /\ verdict \in [DOMAIN step.verdict -> CriterionStatuses]
      /\ \A ac \in DOMAIN call.results : verdict[ac] = call.results[ac]
  <2>1. verdict = [ac \in DOMAIN step.verdict |->
                     IF ac \in DOMAIN call.results THEN call.results[ac] ELSE step.verdict[ac]]
    BY DEF Judged
  <2>3. \A ac \in DOMAIN call.results : call.results[ac] \in CriterionStatuses
    BY <1>1 DEF CriterionStatuses
  <2>4. \A ac \in DOMAIN step.verdict : step.verdict[ac] \in CriterionStatuses
    BY <1>1, StepFields
  <2> HIDE DEF verdict
  <2> QED
    BY <1>1, <2>1, <2>3, <2>4
<1> HIDE DEF verdict
<1>3. /\ IsStep(updated) /\ updated.depends = step.depends /\ updated.verdict = verdict
  BY <1>1, <1>2 DEF IsStep
<1>4. /\ IsStep(ended) /\ ended.depends = step.depends /\ ended.verdict = verdict
      /\ ended.status = "complete" /\ ended.completion = [forced |-> call.force, record |-> call.record]
  <2>1. [forced |-> call.force, record |-> call.record] \in [forced : BOOLEAN, record : Records]
    BY <1>1
  <2> HIDE DEF updated
  <2> QED
    BY <1>1, <1>3, <2>1 DEF IsStep
<1>5. /\ StepComplete(doc, call) = WithStep(doc, call.step, ended)
      /\ WaitingOn(doc.steps, call.step) = {}
      /\ step.status = "in_progress"
  BY DEF StepComplete, verdict
<1> HIDE DEF ended
<1>6. \A new : new.steps[call.step] = ended => StepComplete(new, call) = Replayed
  <2>1. /\ ended.status = "complete" /\ ended.completion.record = call.record
        /\ \A ac \in DOMAIN call.results : ended.verdict[ac] = call.results[ac]
    BY <1>2, <1>4
  <2> QED
    BY <2>1 DEF StepComplete
<1>7. Changes(doc, call.step, ended)
  BY <1>4, <1>5 DEF Changes, SatisfiedDeps
<1> QED
  BY <1>5, <1>6, <1>7

\* step_fail and step_skip.
LEMMA TerminalChanges ==
  ASSUME NEW doc, IsDocument(doc), NEW call \in Calls, call.tool \in {"step_fail", "step_skip"},
         call.step \in DOMAIN doc.steps, NEW to \in {"failed", "skipped"},
         NEW from \in SUBSET {"pending", "in_progress", "failed"}, to \notin from,
         Terminal(doc, call, from, to) \notin {Refused, Replayed}
  PROVE  \E step : /\ Terminal(doc, call, from, to) = WithStep(doc, call.step, step)
                   /\ Changes(doc, call.step, step)
                   /\ \A new : new.steps[call.step] = step => Terminal(new, call, from, to) = Replayed
<1> DEFINE step == doc.steps[call.step]
           completion == [forced |-> FALSE, record |-> call.record]
           ended == [step EXCEPT !.status = to, !.completion = completion]
<1>1. IsStep(step) /\ completion \in [forced : BOOLEAN, record : Records] /\ to \in StepStatuses
  BY CallsTyped DEF IsDocument, StepStatuses
<1>2. /\ IsStep(ended) /\ ended.depends = step.depends
      /\ ended.status = to /\ ended.completion = completion
  <2> HIDE DEF completion
  <2> QED
    BY <1>1 DEF IsStep
<1>3. /\ Terminal(doc, call, from, to) = WithStep(doc, call.step, ended)
      /\ step.status \in from
  BY DEF Terminal, Ended
<1>4. completion # NoCompletion /\ completion.record = call.record
  BY Distinct
<1> HIDE DEF ended, completion
<1>5. \A new : new.steps[call.step] = ended => Terminal(new, call, from, to) = Replayed
  BY <1>2, <1>4 DEF Terminal
<1>6. Changes(doc, call.step, ended)
  BY <1>2, <1>3 DEF Changes, SatisfiedDeps
<1> QED
  BY <1>3, <1>5, <1>6

LEMMA CheckChanges ==
  ASSUME NEW doc, IsDocument(doc), NEW call \in Calls, call.tool = "ac_check",
         call.step \in DOMAIN doc.steps, AcCheck(doc, call) \notin {Refused, Replayed}
  PROVE  \E step : /\ AcCheck(doc, call) = WithStep(doc, call.step, step)
                   /\ Changes(doc, call.step, step)
                   /\ \A new : new.steps[call.step] = step /\ EvidenceFor(doc, call) = << >> =>
                        AcCheck(new, call) = Replayed
<1> DEFINE step == doc.steps[call.step]
           verdict == [step.verdict EXCEPT ![call.ac] = call.status]
           evidence == [step.evidence EXCEPT ![call.ac] = step.evidence[call.ac] \o call.evidence]
           checked == [step EXCEPT !.verdict = verdict, !.evidence = evidence]
<1>1. /\ IsStep(step)
      /\ call.status \in CriterionStatuses /\ call.evidence \in Seq(Evidence)
  BY CallsTyped DEF IsDocument, CriterionStatuses
<1>2. /\ AcCheck(doc, call) = WithStep(doc, call.step, checked)
      /\ step.status # "complete" /\ call.ac \in DOMAIN step.verdict
  BY DEF AcCheck
<1>3. /\ DOMAIN verdict = DOMAIN step.verdict /\ verdict[call.ac] = call.status
      /\ verdict \in [DOMAIN step.verdict -> CriterionStatuses]
  BY <1>1, <1>2, StepFields
<1>4. /\ evidence \in [DOMAIN step.verdict -> Seq(Evidence)]
      /\ evidence[call.ac] = step.evidence[call.ac] \o call.evidence
  <2>1. step.evidence \in [DOMAIN step.verdict -> Seq(Evidence)]
    BY <1>1, StepFields
  <2>2. step.evidence[call.ac] \in Seq(Evidence)
    BY <1>2, <2>1
  <2>3. step.evidence[call.ac] \o call.evidence \in Seq(Evidence)
    BY <1>1, <2>2, ConcatProperties
  <2> QED
    BY <1>2, <2>1, <2>3
<1> HIDE DEF verdict, evidence
<1>5. /\ IsStep(checked) /\ checked.depends = step.depends
      /\ checked.status = step.status /\ checked.completion = step.completion
      /\ checked.verdict = verdict /\ checked.evidence = evidence
  BY <1>1, <1>3, <1>4 DEF IsStep
<1> HIDE DEF checked
<1>6. ASSUME NEW new, new.steps[call.step] = checked, EvidenceFor(doc, call) = << >>
      PROVE  AcCheck(new, call) = Replayed
  <2>1. evidence[call.ac] = call.evidence
    BY <1>1, <1>4, <1>6, ConcatEmptySeq DEF EvidenceFor
  <2> QED
    BY <1>2, <1>3, <1>5, <1>6, <2>1 DEF AcCheck
<1>7. Changes(doc, call.step, checked)
  BY <1>5 DEF Changes, SatisfiedDeps
<1> QED
  BY <1>2, <1>6, <1>7

LEMMA ReplaceChanges ==
  ASSUME NEW doc, NEW call \in Calls, call.tool = "plan_replace",
         PlanReplace(doc, call) \notin {Refused, Replayed}
  PROVE  /\ call.content \in Contents /\ BuildPlan(call.content) # Refused
         /\ PlanReplace(doc, call) = BuildPlan(call.content)
         /\ \A new : new.steps = PlanReplace(doc, call).steps => PlanReplace(new, call) = Replayed
<1>1. /\ call.content \in Contents /\ BuildPlan(call.content) # Refused
      /\ PlanReplace(doc, call) = BuildPlan(call.content)
  BY CallsTyped DEF PlanReplace
<1>2. ASSUME NEW new, new.steps = BuildPlan(call.content).steps
      PROVE  PlanReplace(new, call) = Replayed
  <2>1. AuthoredContent(BuildPlan(call.content)) = AuthoredContent(new)
    BY <1>2 DEF AuthoredContent
  <2> QED
    BY <1>1, <2>1 DEF PlanReplace
<1> QED
  BY <1>1, <1>2

\* What any tool does with a valid document, and that a repetition of the
\* call on what it left is a replay.
LEMMA ToolChanges ==
  ASSUME NEW doc, IsDocument(doc), NEW call \in Calls, Accepted(doc, call),
         Apply(doc, call) \notin {Refused, Replayed}
  PROVE  /\ \/ /\ call.tool = "plan_replace" /\ call.content \in Contents
               /\ BuildPlan(call.content) # Refused
               /\ Apply(doc, call) = BuildPlan(call.content)
            \/ /\ call.tool # "plan_replace" /\ call.step \in DOMAIN doc.steps
               /\ \E step : /\ Apply(doc, call) = WithStep(doc, call.step, step)
                            /\ Changes(doc, call.step, step)
         /\ \A new : /\ new.steps = Apply(doc, call).steps
                     /\ Evident(doc, call) => EvidenceFor(doc, call) = << >>
                     => Apply(new, call) = Replayed
<1>1. CASE call.tool = "plan_replace"
  <2>1. \A d : Apply(d, call) = PlanReplace(d, call)
    BY <1>1 DEF Apply
  <2> QED
    BY <1>1, <2>1, ReplaceChanges
<1>2. ASSUME call.tool # "plan_replace", call.step \in DOMAIN doc.steps,
             NEW step, Apply(doc, call) = WithStep(doc, call.step, step),
             \A new : /\ new.steps[call.step] = step
                      /\ call.step \in DOMAIN new.steps
                      /\ Evident(doc, call) => EvidenceFor(doc, call) = << >>
                      => Apply(new, call) = Replayed
      PROVE  \A new : /\ new.steps = Apply(doc, call).steps
                      /\ Evident(doc, call) => EvidenceFor(doc, call) = << >>
                      => Apply(new, call) = Replayed
  <2>1. /\ WithStep(doc, call.step, step).steps[call.step] = step
        /\ DOMAIN WithStep(doc, call.step, step).steps = DOMAIN doc.steps
    <3>1. call.step \in DOMAIN doc.steps
      BY <1>2
    <3> QED
      BY <3>1, StepIsReplaced
  <2> QED
    BY <1>2, <2>1
<1>3. CASE call.tool # "plan_replace"
  <2>1. call.step \in DOMAIN doc.steps
    BY <1>3 DEF Apply
  <2>2. \E step : /\ Apply(doc, call) = WithStep(doc, call.step, step)
                  /\ Changes(doc, call.step, step)
                  /\ \A new : /\ new.steps[call.step] = step
                              /\ call.step \in DOMAIN new.steps
                              /\ Evident(doc, call) => EvidenceFor(doc, call) = << >>
                              => Apply(new, call) = Replayed
    <3>1. CASE call.tool = "step_start"
      <4>1. \A d : call.step \in DOMAIN d.steps => Apply(d, call) = StepStart(d, call)
        BY <3>1 DEF Apply
      <4> QED
        BY <2>1, <3>1, <4>1, StartChanges
    <3>2. CASE call.tool = "step_complete"
      <4>1. \A d : call.step \in DOMAIN d.steps => Apply(d, call) = StepComplete(d, call)
        BY <3>2 DEF Apply
      <4> QED
        BY <2>1, <3>2, <4>1, CompleteChanges
    <3>3. CASE call.tool = "step_fail"
      <4>1. \A d : call.step \in DOMAIN d.steps =>
              Apply(d, call) = Terminal(d, call, {"in_progress"}, "failed")
        BY <3>3 DEF Apply, StepFail
      <4> QED
        BY <2>1, <3>3, <4>1, TerminalChanges
    <3>4. CASE call.tool = "step_skip"
      <4>1. \A d : call.step \in DOMAIN d.steps =>
              Apply(d, call) = Terminal(d, call, {"pending", "in_progress", "failed"}, "skipped")
        BY <3>4 DEF Apply, StepSkip
      <4> QED
        BY <2>1, <3>4, <4>1, TerminalChanges
    <3>5. CASE call.tool = "ac_check"
      <4>1. \A d : call.step \in DOMAIN d.steps => Apply(d, call) = AcCheck(d, call)
        BY <3>5 DEF Apply
      <4>2. PICK step : /\ AcCheck(doc, call) = WithStep(doc, call.step, step)
                        /\ Changes(doc, call.step, step)
                        /\ \A new : new.steps[call.step] = step /\ EvidenceFor(doc, call) = << >> =>
                             AcCheck(new, call) = Replayed
        BY <2>1, <3>5, <4>1, CheckChanges
      <4>3. Evident(doc, call)
        <5>1. call.ac \in DOMAIN doc.steps[call.step].verdict
          BY <2>1, <4>1 DEF AcCheck
        <5>2. IsStep(doc.steps[call.step])
          BY <2>1 DEF IsDocument
        <5> QED
          BY <2>1, <3>5, <5>1, <5>2, StepFields DEF Evident
      <4> QED
        BY <2>1, <4>1, <4>2, <4>3
    <3> QED
      BY <1>3, <3>1, <3>2, <3>3, <3>4, <3>5, CallsTyped
  <2> QED
    BY <1>2, <1>3, <2>1, <2>2
<1> QED
  BY <1>1, <1>3

-----------------------------------------------------------------------------
(***************************************************************************)
(* The order in which steps finish.                                        *)
(***************************************************************************)

InOrder(doc) ==
  \A s \in DOMAIN doc.steps :
    doc.steps[s].status = "complete" \/ (doc.steps[s].status = "in_progress" /\ ~ Forced(doc.steps[s]))
      => WaitingOn(doc.steps, s) = {}

LEMMA OrderKept ==
  ASSUME NEW doc, IsDocument(doc), InOrder(doc), NEW s \in DOMAIN doc.steps, NEW step,
         Changes(doc, s, step)
  PROVE  InOrder(WithStep(doc, s, step))
<1> DEFINE new == WithStep(doc, s, step)
<1>1. /\ DOMAIN new.steps = DOMAIN doc.steps
      /\ new.steps[s] = step
      /\ \A t \in DOMAIN doc.steps \ {s} : new.steps[t] = doc.steps[t]
  BY StepIsReplaced
<1> HIDE DEF new
<1>2. \A t \in DOMAIN doc.steps : new.steps[t].depends = doc.steps[t].depends
  BY <1>1 DEF Changes
<1>3. \A t \in DOMAIN doc.steps : doc.steps[t].depends \subseteq DOMAIN doc.steps
  BY DEF IsDocument, DependenciesResolve
<1>4. \A t \in DOMAIN doc.steps :
        doc.steps[t].status \in SatisfiedDeps => new.steps[t].status \in SatisfiedDeps
  BY <1>1 DEF Changes
<1>5. \A t \in DOMAIN doc.steps : WaitingOn(new.steps, t) \subseteq WaitingOn(doc.steps, t)
  BY <1>2, <1>3, <1>4 DEF WaitingOn
<1>6. ASSUME NEW t \in DOMAIN new.steps,
             new.steps[t].status = "complete" \/ (new.steps[t].status = "in_progress" /\ ~ Forced(new.steps[t]))
      PROVE  WaitingOn(new.steps, t) = {}
  <2>1. WaitingOn(doc.steps, t) = {}
    <3>1. CASE t # s
      BY <1>1, <1>6, <3>1 DEF InOrder
    <3>2. CASE t = s
      BY <1>1, <1>6, <3>2 DEF InOrder, Changes, Forced
    <3> QED
      BY <3>1, <3>2
  <2> QED
    BY <1>1, <1>5, <2>1
<1>7. InOrder(new)
  BY <1>6 DEF InOrder
<1> QED
  BY <1>7 DEF new

-----------------------------------------------------------------------------
(***************************************************************************)
(* The store.                                                              *)
(***************************************************************************)

\* The revision a document is stamped with changes nothing else of it.
LEMMA Stamped ==
  ASSUME NEW doc, IsDocument(doc), NEW revision \in 0 .. MaxRevision
  PROVE  /\ IsDocument(Stamp(doc, revision))
         /\ Stamp(doc, revision).steps = doc.steps
         /\ Stamp(doc, revision).revision = revision
         /\ InOrder(doc) => InOrder(Stamp(doc, revision))
<1>1. /\ Stamp(doc, revision).steps = doc.steps
      /\ Stamp(doc, revision).revision = revision
      /\ Stamp(doc, revision) \in [revision : 0 .. MaxRevision, steps : {doc.steps}]
  BY DEF Stamp, IsDocument
<1> QED
  BY <1>1 DEF IsDocument, CompletionConsistent, InOrder

\* Without a row no document was read and no call has made a revision.
NothingYet == row = NoPlan => seen = NoPlan /\ last = NoPlan

IInv == TypeOK /\ NothingYet /\ RevisionNamesTheDocument /\ FinishedInOrder /\ RepeatedCallIsNoOp

LEMMA InitInv == Init => IInv
BY DEF Init, IInv, TypeOK, NothingYet, RevisionNamesTheDocument, FinishedInOrder, RepeatedCallIsNoOp

\* What has to be shown of a step that writes a document.
LEMMA Saved ==
  ASSUME IInv, seen' = seen, NEW doc, IsDocument(doc), InOrder(doc), NEW revision \in 0 .. MaxRevision,
         row' = [revision |-> revision, doc |-> Stamp(doc, revision)],
         row # NoPlan => revision = row.revision + 1,
         NEW call \in Calls, NEW fresh \in BOOLEAN, last' = [call |-> call, fresh |-> fresh],
         \A new : fresh /\ new.steps = doc.steps => Apply(new, call) = Replayed
  PROVE  IInv'
<1> DEFINE new == Stamp(doc, revision)
<1>1. /\ IsDocument(new) /\ new.steps = doc.steps /\ new.revision = revision /\ InOrder(new)
  BY Stamped
<1> HIDE DEF new
<1>2. /\ row'.revision = revision /\ row'.doc = new
      /\ last'.call = call /\ last'.fresh = fresh
      /\ row' \in [revision : 0 .. MaxRevision, doc : {row'.doc}]
      /\ last' \in [call : Calls, fresh : BOOLEAN]
  BY DEF new
<1>3. row' # NoPlan
  BY Distinct
<1>4. TypeOK'
  BY <1>1, <1>2 DEF IInv, TypeOK
<1>5. NothingYet'
  BY <1>3 DEF NothingYet
<1>6. RevisionNamesTheDocument'
  <2>1. CASE row = NoPlan
    <3>1. seen' = NoPlan
      BY <2>1 DEF IInv, NothingYet
    <3> QED
      BY <1>1, <1>2, <3>1 DEF RevisionNamesTheDocument
  <2>2. CASE row # NoPlan
    <3>1. row.revision \in Nat /\ revision = row.revision + 1
      BY <2>2 DEF IInv, TypeOK
    <3>2. seen # NoPlan => seen.revision <= row.revision /\ seen.revision \in Nat
      BY <2>2 DEF IInv, RevisionNamesTheDocument, TypeOK, IsDocument
    <3> QED
      BY <1>1, <1>2, <3>1, <3>2 DEF RevisionNamesTheDocument
  <2> QED
    BY <2>1, <2>2
<1>7. FinishedInOrder'
  BY <1>1, <1>2 DEF FinishedInOrder, InOrder
<1>8. RepeatedCallIsNoOp'
  BY <1>1, <1>2 DEF RepeatedCallIsNoOp
<1> QED
  BY <1>4, <1>5, <1>6, <1>7, <1>8 DEF IInv

LEMMA CreateInv == IInv /\ PlanCreate => IInv'
<1> SUFFICES ASSUME IInv, PlanCreate PROVE IInv'
  OBVIOUS
<1>1. PICK content \in Contents :
        /\ row = NoPlan
        /\ BuildPlan(content) # Refused
        /\ SavePlan(BuildPlan(content), 0)
        /\ last' = [call |-> [tool |-> "plan_replace", content |-> content], fresh |-> TRUE]
        /\ seen' = seen
  BY DEF PlanCreate
<1> DEFINE doc == BuildPlan(content)
           call == [tool |-> "plan_replace", content |-> content]
<1>2. IsDocument(doc) /\ InOrder(doc)
  BY <1>1, BuiltPlan DEF InOrder
<1>3. row' = [revision |-> 0, doc |-> Stamp(doc, 0)]
  BY <1>1 DEF SavePlan, PlanUpsert
<1>4. call \in Calls /\ call.tool = "plan_replace" /\ call.content = content
  BY DEF Calls
<1>5. last' = [call |-> call, fresh |-> TRUE]
  BY <1>1
<1> HIDE DEF doc, call
<1>6. ASSUME NEW new, new.steps = doc.steps
      PROVE  Apply(new, call) = Replayed
  <2>1. AuthoredContent(doc) = AuthoredContent(new)
    BY <1>6 DEF AuthoredContent
  <2> QED
    BY <1>1, <1>4, <2>1 DEF Apply, PlanReplace, doc
<1>7. 0 \in 0 .. MaxRevision
  BY PlanAssumption
<1>8. \A new : TRUE /\ new.steps = doc.steps => Apply(new, call) = Replayed
  BY <1>6
<1>9. row # NoPlan => 0 = row.revision + 1
  BY <1>1
<1>10. seen' = seen /\ call \in Calls /\ TRUE \in BOOLEAN
  BY <1>1, <1>4
<1> QED
  BY <1>2, <1>3, <1>5, <1>7, <1>8, <1>9, <1>10, Saved

LEMMA InvokeInv == IInv /\ Invoke => IInv'
<1> SUFFICES ASSUME IInv, Invoke PROVE IInv'
  OBVIOUS
<1>1. PICK call \in Calls, expected \in 0 .. MaxRevision - 1 :
        /\ PlanAtRevision(expected)
        /\ Accepted(row.doc, call)
        /\ Apply(row.doc, call) \notin {Refused, Replayed}
        /\ SavePlan(Apply(row.doc, call), expected)
        /\ last' = [call |-> call,
                    fresh |-> Evident(row.doc, call) => EvidenceFor(row.doc, call) = << >>]
        /\ seen' = seen
  BY DEF Invoke
<1> DEFINE doc == Apply(row.doc, call)
           fresh == Evident(row.doc, call) => EvidenceFor(row.doc, call) = << >>
           revision == expected + 1
<1>2. /\ row # NoPlan /\ row.revision = expected /\ revision \in 0 .. MaxRevision
      /\ IsDocument(row.doc) /\ InOrder(row.doc)
  BY <1>1, PlanAssumption DEF IInv, TypeOK, FinishedInOrder, InOrder, PlanAtRevision
<1>3. /\ row' = [revision |-> revision, doc |-> Stamp(doc, revision)]
      /\ CompletionConsistent(Stamp(doc, revision))
  BY <1>1, <1>2 DEF SavePlan, PlanUpsert
<1>4. /\ \/ /\ call.tool = "plan_replace" /\ call.content \in Contents
            /\ BuildPlan(call.content) # Refused
            /\ doc = BuildPlan(call.content)
         \/ /\ call.tool # "plan_replace" /\ call.step \in DOMAIN row.doc.steps
            /\ \E step : /\ doc = WithStep(row.doc, call.step, step)
                         /\ Changes(row.doc, call.step, step)
      /\ \A new : new.steps = doc.steps /\ fresh => Apply(new, call) = Replayed
  BY <1>1, <1>2, ToolChanges
<1>5. fresh \in BOOLEAN /\ last' = [call |-> call, fresh |-> fresh]
  BY <1>1
<1> HIDE DEF doc, fresh
<1>6. IsDocument(doc) /\ InOrder(doc)
  <2>1. CASE /\ call.content \in Contents
             /\ BuildPlan(call.content) # Refused
             /\ doc = BuildPlan(call.content)
    BY <2>1, BuiltPlan DEF InOrder
  <2>2. ASSUME call.step \in DOMAIN row.doc.steps, NEW step,
               doc = WithStep(row.doc, call.step, step),
               Changes(row.doc, call.step, step)
        PROVE  IsDocument(doc) /\ InOrder(doc)
    <3>1. InOrder(doc)
      BY <1>2, <2>2, OrderKept
    <3>2. Stamp(doc, revision).steps = doc.steps
      BY <1>2, <2>2, ReplacedIsRecord DEF Stamp
    <3>3. CompletionConsistent(doc)
      BY <1>3, <3>2 DEF CompletionConsistent
    <3>4. IsStep(step) /\ step.depends = row.doc.steps[call.step].depends
      BY <2>2 DEF Changes
    <3>5. IsDocument(doc)
      BY <1>2, <2>2, <3>3, <3>4, ChangedDocument
    <3> QED
      BY <3>1, <3>5
  <2> QED
    BY <1>4, <2>1, <2>2
<1>7. row # NoPlan => revision = row.revision + 1
  BY <1>2
<1>8. revision \in 0 .. MaxRevision /\ row' = [revision |-> revision, doc |-> Stamp(doc, revision)]
  BY <1>2, <1>3
<1>9. \A new : fresh /\ new.steps = doc.steps => Apply(new, call) = Replayed
  BY <1>4
<1>10. seen' = seen /\ call \in Calls
  BY <1>1
<1> HIDE DEF revision
<1> QED
  BY <1>5, <1>6, <1>7, <1>8, <1>9, <1>10, Saved

LEMMA ReadInv == IInv /\ Read => IInv'
<1> SUFFICES ASSUME IInv, Read PROVE IInv'
  OBVIOUS
<1>1. row # NoPlan /\ seen' = row.doc /\ row' = row /\ last' = last
  BY DEF Read
<1>2. IsDocument(row.doc) /\ row.revision \in Nat /\ row.doc.revision = row.revision
  BY <1>1 DEF IInv, TypeOK, RevisionNamesTheDocument
<1>3. TypeOK' /\ NothingYet'
  BY <1>1, <1>2 DEF IInv, TypeOK, NothingYet
<1>4. RevisionNamesTheDocument'
  BY <1>1, <1>2 DEF RevisionNamesTheDocument
<1>5. FinishedInOrder' /\ RepeatedCallIsNoOp'
  BY <1>1 DEF IInv, FinishedInOrder, RepeatedCallIsNoOp
<1> QED
  BY <1>3, <1>4, <1>5 DEF IInv

LEMMA InvariantStep == IInv /\ [Next]_vars => IInv'
<1> SUFFICES ASSUME IInv, [Next]_vars PROVE IInv'
  OBVIOUS
<1>1. CASE UNCHANGED vars
  BY <1>1 DEF vars, IInv, TypeOK, NothingYet, RevisionNamesTheDocument, FinishedInOrder, RepeatedCallIsNoOp
<1> QED
  BY <1>1, CreateInv, InvokeInv, ReadInv DEF Next

-----------------------------------------------------------------------------
(***************************************************************************)
(* Recursion over the naturals.  The order and the waves are functions     *)
(* that are defined by recursion; that such a function exists, and that    *)
(* its values keep what each step keeps, follows from the least number of  *)
(* a set.                                                                  *)
(***************************************************************************)

\* What well-foundedness says of a set.
LEMMA LeastOfRelation ==
  ASSUME NEW R, NEW N, IsWellFoundedOn(R, N)
  PROVE  \A S : S \subseteq N /\ S # {} => \E x \in S : \A y \in S : ~ (<<y, x>> \in R)
BY WFMin

\* The order of the naturals, as a relation, is well-founded.
LEMMA NatOrder ==
  \E R, N : /\ \A n : n \in N <=> n \in Nat
            /\ \A x, y \in Nat : x < y => <<x, y>> \in R
            /\ \A S : S \subseteq N /\ S # {} => \E x \in S : \A y \in S : ~ (<<y, x>> \in R)
<1>1. \A x, y \in Nat : x < y => <<x, y>> \in OpToRel(<, Nat)
  BY DEF OpToRel
<1>2. IsWellFoundedOn(OpToRel(<, Nat), Nat)
  BY NatLessThanWellFounded, Zenon
<1>3. \A S : S \subseteq Nat /\ S # {} => \E x \in S : \A y \in S : ~ (<<y, x>> \in OpToRel(<, Nat))
  BY <1>2, LeastOfRelation, Zenon
<1> QED
  BY <1>1, <1>3, Zenon

\* A nonempty set of naturals has a least element.
LEMMA Least ==
  ASSUME NEW S \in SUBSET Nat, S # {}
  PROVE  \E m \in S : \A n \in S : m <= n
<1>1. PICK R, N : /\ \A n : n \in N <=> n \in Nat
                  /\ \A x, y \in Nat : x < y => <<x, y>> \in R
                  /\ \A U : U \subseteq N /\ U # {} => \E x \in U : \A y \in U : ~ (<<y, x>> \in R)
  BY NatOrder, Zenon
<1>2. S \subseteq N /\ S # {}
  BY <1>1
<1>3. \E x \in S : \A y \in S : ~ (<<y, x>> \in R)
  BY <1>1, <1>2, Zenon
<1>4. PICK m \in S : \A y \in S : ~ (<<y, m>> \in R)
  BY <1>3
<1>5. \A n \in S : ~ (n < m)
  BY <1>1, <1>4
<1>6. \A n \in S : m <= n
  BY <1>5
<1> QED
  BY <1>6

\* Induction up to a bound, for a set of naturals.
LEMMA Reached ==
  ASSUME NEW N \in Nat, NEW S, 0 \in S, \A k \in 1 .. N : k - 1 \in S => k \in S
  PROVE  0 .. N \subseteq S
<1> SUFFICES ASSUME (0 .. N) \ S # {} PROVE FALSE
  OBVIOUS
<1>1. (0 .. N) \ S \in SUBSET Nat
  OBVIOUS
<1>2. PICK m \in (0 .. N) \ S : \A n \in (0 .. N) \ S : m <= n
  BY <1>1, Least
<1>3. m # 0 /\ m \in 1 .. N /\ m - 1 \in 0 .. N /\ ~ (m <= m - 1)
  BY <1>2
<1>4. m - 1 \in S
  BY <1>2, <1>3
<1> QED
  BY <1>2, <1>3, <1>4

\* A finite set of naturals has a greatest element.
LEMMA Greatest ==
  ASSUME NEW N \in Nat, NEW S \in SUBSET (0 .. N), S # {}
  PROVE  \E m \in S : \A n \in S : n <= m
<1> DEFINE D == {d \in 0 .. N : N - d \in S}
<1>1. D \in SUBSET Nat /\ D # {}
  <2>1. PICK s \in S : TRUE
    OBVIOUS
  <2>2. s \in 0 .. N /\ N - s \in 0 .. N /\ N - (N - s) = s
    BY <2>1
  <2> QED
    BY <2>1, <2>2
<1>2. PICK d \in D : \A e \in D : d <= e
  BY <1>1, Least
<1>3. \A n \in S : N - n \in D
  <2> TAKE n \in S
  <2>1. N - n \in 0 .. N /\ N - (N - n) = n
    OBVIOUS
  <2> QED
    BY <2>1
<1>4. N - d \in S /\ \A n \in S : n <= N - d
  BY <1>2, <1>3
<1> QED
  BY <1>4

\* A function that is defined by recursion over 0 .. n.
Solves(f, n, base, step) ==
  /\ f = [k \in 0 .. n |-> f[k]] /\ f[0] = base
  /\ \A k \in 1 .. n : f[k] = step[k][f[k - 1]]

\* A recursion over 0 .. N, the step of which leads from each set of values
\* to the next, has a solution.
LEMMA Recursion ==
  ASSUME NEW N \in Nat, NEW T, NEW base, base \in T[0],
         NEW step, \A k \in 1 .. N : \A x \in T[k - 1] : step[k][x] \in T[k]
  PROVE  \E f : Solves(f, N, base, step)
<1> DEFINE S == {n \in 0 .. N : \E f : Solves(f, n, base, step)}
<1>1. 0 \in S
  <2> DEFINE g == [k \in 0 .. 0 |-> base]
  <2>1. Solves(g, 0, base, step)
    BY DEF Solves
  <2>2. 0 \in 0 .. N
    OBVIOUS
  <2> QED
    BY <2>1, <2>2
<1>2. ASSUME NEW n \in 1 .. N, n - 1 \in S PROVE n \in S
  <2>1. PICK f : Solves(f, n - 1, base, step)
    BY <1>2
  <2> DEFINE g == [k \in 0 .. n |-> IF k = n THEN step[n][f[n - 1]] ELSE f[k]]
  <2>2. g = [k \in 0 .. n |-> g[k]]
    OBVIOUS
  <2>3. g[0] = base
    <3>1. g[0] = f[0]
      OBVIOUS
    <3> QED
      BY <2>1, <3>1 DEF Solves
  <2>4. ASSUME NEW k \in 1 .. n PROVE g[k] = step[k][g[k - 1]]
    <3>1. g[k - 1] = f[k - 1]
      OBVIOUS
    <3>2. CASE k = n
      BY <3>1, <3>2
    <3>3. CASE k # n
      <4>1. k \in 1 .. n - 1 /\ g[k] = f[k]
        BY <3>3
      <4>2. f[k] = step[k][f[k - 1]]
        BY <2>1, <4>1 DEF Solves
      <4> QED
        BY <3>1, <4>1, <4>2
    <3> QED
      BY <3>2, <3>3
  <2>5. Solves(g, n, base, step)
    <3> HIDE DEF g
    <3> QED
      BY <2>2, <2>3, <2>4 DEF Solves
  <2>6. n \in 0 .. N
    OBVIOUS
  <2> QED
    BY <2>5, <2>6
<1>3. \A k \in 1 .. N : k - 1 \in S => k \in S
  BY <1>2
<1>4. \E f : Solves(f, N, base, step)
  <2>1. 0 \in S
    BY <1>1
  <2> HIDE DEF S
  <2>2. 0 .. N \subseteq S
    BY <1>3, <2>1, Reached
  <2>3. N \in S
    BY <2>2
  <2> QED
    BY <2>3 DEF S
<1> QED
  BY <1>4

\* And every solution takes its values from these sets.
LEMMA SolutionStays ==
  ASSUME NEW N \in Nat, NEW T, NEW f, f[0] \in T[0],
         \A k \in 1 .. N : f[k - 1] \in T[k - 1] => f[k] \in T[k]
  PROVE  \A k \in 0 .. N : f[k] \in T[k]
<1> DEFINE S == {k \in 0 .. N : f[k] \in T[k]}
<1>1. 0 \in S
  OBVIOUS
<1>2. ASSUME NEW k \in 1 .. N, k - 1 \in S PROVE k \in S
  BY <1>2
<1>3. 0 .. N \subseteq S
  <2> HIDE DEF S
  <2> QED
    BY <1>1, <1>2, Reached
<1> QED
  BY <1>3

-----------------------------------------------------------------------------
(***************************************************************************)
(* The topological order.                                                  *)
(***************************************************************************)

\* What the validators see to, of a finite plan.
Sortable(steps) ==
  IsFiniteSet(DOMAIN steps) /\ DOMAIN steps \subseteq Nat /\ DependenciesResolve(steps) /\ Acyclic(steps)

\* Different steps, each after the steps it depends on.
Placed(steps, q) ==
  /\ q \in Seq(DOMAIN steps)
  /\ \A i, j \in 1 .. Len(q) : q[i] = q[j] => i = j
  /\ \A i \in 1 .. Len(q) : steps[q[i]].depends \subseteq {q[j] : j \in 1 .. i - 1}

\* A sequence without repetition has as many elements as places.
LEMMA SetOfSequence ==
  ASSUME NEW D, NEW q \in Seq(D), \A i, j \in 1 .. Len(q) : q[i] = q[j] => i = j
  PROVE  /\ IsFiniteSet(ToSet(q)) /\ Cardinality(ToSet(q)) = Len(q) /\ ToSet(q) \subseteq D
         /\ Len(q) \in Nat /\ DOMAIN q = 1 .. Len(q)
         /\ ToSet(q) = {q[i] : i \in 1 .. Len(q)}
<1>1. Len(q) \in Nat /\ DOMAIN q = 1 .. Len(q) /\ \A i \in 1 .. Len(q) : q[i] \in D
  BY LenProperties, ElementOfSeq
<1>2. ToSet(q) = {q[i] : i \in 1 .. Len(q)}
  BY <1>1 DEF ToSet
<1>3. IsFiniteSet(1 .. Len(q)) /\ Cardinality(1 .. Len(q)) = Len(q)
  <2>1. \A n \in Nat : IsFiniteSet(1 .. n) /\ Cardinality(1 .. n) = n
    BY FS_Interval
  <2> QED
    BY <1>1, <2>1
<1>4. IsFiniteSet(ToSet(q)) /\ Cardinality(ToSet(q)) = Cardinality(1 .. Len(q))
  <2> DEFINE f == [i \in 1 .. Len(q) |-> q[i]]
  <2>1. f \in Surjection(1 .. Len(q), ToSet(q)) /\ f \in Injection(1 .. Len(q), ToSet(q))
    BY <1>2 DEF Surjection, Injection, IsInjective
  <2> HIDE DEF f
  <2> QED
    BY <1>3, <2>1, FS_Surjection
<1> QED
  BY <1>1, <1>2, <1>3, <1>4

\* While a step is missing, some missing step has its dependencies placed:
\* the missing steps would be a cycle.
LEMMA SomeStepIsFree ==
  ASSUME NEW steps, Sortable(steps), NEW q, Placed(steps, q), Len(q) < Cardinality(DOMAIN steps)
  PROVE  Smallest(Free(steps, ToSet(q))) \in Free(steps, ToSet(q))
<1> DEFINE D == DOMAIN steps  missing == D \ ToSet(q)  free == Free(steps, ToSet(q))
<1>1. /\ IsFiniteSet(ToSet(q)) /\ Cardinality(ToSet(q)) = Len(q) /\ ToSet(q) \subseteq D
  BY SetOfSequence DEF Placed
<1>2. ToSet(q) # D /\ Len(q) \in Nat
  <2>1. Cardinality(D) \in Nat /\ Len(q) \in Nat
    BY FS_CardinalityType, LenProperties DEF Sortable, Placed
  <2>2. Cardinality(D) # Len(q)
    BY <2>1
  <2> QED
    BY <1>1, <2>1, <2>2
<1>3. missing # {} /\ missing \in (SUBSET D) \ {{}}
  BY <1>1, <1>2
<1>4. PICK s \in missing : steps[s].depends \intersect missing = {}
  BY <1>3 DEF Sortable, Acyclic
<1>5. s \in free
  BY <1>4 DEF Sortable, DependenciesResolve, Free
<1>6. free \in SUBSET Nat /\ free # {}
  BY <1>5 DEF Free, Sortable
<1> HIDE DEF free
<1>7. \E m \in free : \A t \in free : m <= t
  BY <1>6, Least
<1>8. Smallest(free) \in free
  BY <1>7 DEF Smallest
<1> QED
  BY <1>8 DEF free

\* The next step keeps the order.
LEMMA OrderGrows ==
  ASSUME NEW steps, Sortable(steps), NEW q, Placed(steps, q), Len(q) < Cardinality(DOMAIN steps)
  PROVE  LET longer == Append(q, Smallest(Free(steps, ToSet(q))))
         IN  Placed(steps, longer) /\ Len(longer) = Len(q) + 1
<1> DEFINE s == Smallest(Free(steps, ToSet(q)))  longer == Append(q, s)
<1>1. s \in DOMAIN steps \ ToSet(q) /\ steps[s].depends \subseteq ToSet(q)
  BY SomeStepIsFree DEF Free
<1>2. /\ Len(q) \in Nat /\ ToSet(q) = {q[i] : i \in 1 .. Len(q)}
      /\ q \in Seq(DOMAIN steps)
  BY SetOfSequence DEF Placed
<1> HIDE DEF s
<1>3. /\ longer \in Seq(DOMAIN steps) /\ Len(longer) = Len(q) + 1
      /\ \A i \in 1 .. Len(q) : longer[i] = q[i]
      /\ longer[Len(q) + 1] = s
  BY <1>1, <1>2, AppendProperties
<1> HIDE DEF longer
<1>4. \A i \in 1 .. Len(longer) : i \in 1 .. Len(q) \/ i = Len(q) + 1
  BY <1>2, <1>3
<1>5. \A i \in 1 .. Len(q) : longer[i] # s
  BY <1>1, <1>2, <1>3
<1>6. ASSUME NEW i \in 1 .. Len(longer), NEW j \in 1 .. Len(longer), longer[i] = longer[j] PROVE i = j
  BY <1>3, <1>4, <1>5, <1>6 DEF Placed
<1>7. ASSUME NEW i \in 1 .. Len(longer)
      PROVE  steps[longer[i]].depends \subseteq {longer[j] : j \in 1 .. i - 1}
  <2>1. CASE i \in 1 .. Len(q)
    <3>1. steps[q[i]].depends \subseteq {q[j] : j \in 1 .. i - 1} /\ longer[i] = q[i]
      BY <1>3, <2>1 DEF Placed
    <3>2. \A j \in 1 .. i - 1 : j \in 1 .. Len(q)
      BY <1>2, <2>1
    <3>3. \A j \in 1 .. i - 1 : q[j] = longer[j]
      BY <1>3, <3>2
    <3> QED
      BY <3>1, <3>3
  <2>2. CASE i = Len(q) + 1
    <3>1. longer[i] = s /\ 1 .. i - 1 = 1 .. Len(q)
      BY <1>2, <1>3, <2>2
    <3> QED
      BY <1>1, <1>2, <1>3, <3>1
  <2> QED
    BY <1>4, <2>1, <2>2
<1>8. Placed(steps, longer) /\ Len(longer) = Len(q) + 1
  BY <1>3, <1>6, <1>7 DEF Placed
<1> QED
  BY <1>8 DEF longer, s

\* The order has every step once, after its dependencies.
LEMMA OrderIsSound ==
  ASSUME NEW steps, Sortable(steps)
  PROVE  /\ Placed(steps, TopologicalOrder(steps))
         /\ ToSet(TopologicalOrder(steps)) = DOMAIN steps
<1> DEFINE N == Cardinality(DOMAIN steps)
           Next1(q) == Append(q, Smallest(Free(steps, ToSet(q))))
           T == [k \in 0 .. N |-> {q \in Seq(DOMAIN steps) : Placed(steps, q) /\ Len(q) = k}]
           step == [k \in 1 .. N |-> [q \in T[k - 1] |-> Next1(q)]]
           order == CHOOSE f : f = [k \in 0 .. N |-> IF k = 0 THEN << >> ELSE Next1(f[k - 1])]
<1>1. N \in Nat
  BY FS_CardinalityType DEF Sortable
<1>2. << >> \in T[0]
  <2>1. << >> \in Seq(DOMAIN steps) /\ Len(<< >>) = 0
    BY EmptySeq
  <2>2. Placed(steps, << >>)
    BY <2>1 DEF Placed
  <2> QED
    BY <1>1, <2>1, <2>2
<1>3. ASSUME NEW k \in 1 .. N, NEW q \in T[k - 1] PROVE Next1(q) \in T[k]
  <2>1. k - 1 \in 0 .. N /\ k \in 0 .. N /\ k - 1 < N /\ k - 1 + 1 = k
    BY <1>1
  <2>2. Placed(steps, q) /\ Len(q) = k - 1
    BY <1>3, <2>1
  <2>3. Placed(steps, Next1(q)) /\ Len(Next1(q)) = k
    BY <2>1, <2>2, OrderGrows
  <2> QED
    BY <2>1, <2>3 DEF Placed
<1>4. \A k \in 1 .. N : \A q \in T[k - 1] : step[k][q] = Next1(q)
  OBVIOUS
<1> HIDE DEF T, step, Next1
<1>5. \E f : Solves(f, N, << >>, step)
  <2>1. \A k \in 1 .. N : \A q \in T[k - 1] : step[k][q] \in T[k]
    BY <1>3, <1>4
  <2> HIDE DEF N
  <2> QED
    BY <1>1, <1>2, <2>1, Recursion
<1>6. PICK f : /\ f = [k \in 0 .. N |-> f[k]] /\ f[0] = << >>
               /\ \A k \in 1 .. N : f[k] = step[k][f[k - 1]]
  BY <1>5 DEF Solves
<1>7. \A k \in 0 .. N : f[k] \in T[k]
  <2>1. \A k \in 1 .. N : f[k - 1] \in T[k - 1] => f[k] \in T[k]
    BY <1>3, <1>4, <1>6
  <2> HIDE DEF N
  <2> QED
    BY <1>1, <1>2, <1>6, <2>1, SolutionStays
<1>8. f = [k \in 0 .. N |-> IF k = 0 THEN << >> ELSE Next1(f[k - 1])]
  <2>1. \A k \in 0 .. N : f[k] = IF k = 0 THEN << >> ELSE Next1(f[k - 1])
    <3> TAKE k \in 0 .. N
    <3>1. CASE k = 0
      BY <1>6, <3>1
    <3>2. CASE k # 0
      <4>1. k \in 1 .. N /\ k - 1 \in 0 .. N
        BY <1>1, <3>2
      <4> QED
        BY <1>4, <1>6, <1>7, <3>2, <4>1
    <3> QED
      BY <3>1, <3>2
  <2> QED
    BY <1>6, <2>1
<1>9. order = [k \in 0 .. N |-> IF k = 0 THEN << >> ELSE Next1(order[k - 1])]
  BY <1>8
<1> HIDE DEF order
<1>10. \A k \in 0 .. N : order[k] \in T[k]
  <2>1. order[0] = << >>
    BY <1>1, <1>9
  <2>2. \A k \in 1 .. N : order[k - 1] \in T[k - 1] => order[k] \in T[k]
    <3> SUFFICES ASSUME NEW k \in 1 .. N, order[k - 1] \in T[k - 1] PROVE order[k] \in T[k]
      OBVIOUS
    <3>1. k \in 0 .. N /\ k # 0
      BY <1>1
    <3>2. order[k] = IF k = 0 THEN << >> ELSE Next1(order[k - 1])
      BY <1>9, <3>1
    <3> QED
      BY <1>3, <3>1, <3>2
  <2> HIDE DEF N
  <2> QED
    BY <1>1, <1>2, <2>1, <2>2, SolutionStays
<1>11. TopologicalOrder(steps) = order[N]
  BY DEF TopologicalOrder, order, Next1
<1>12. Placed(steps, order[N]) /\ Len(order[N]) = N
  <2>1. order[N] \in T[N] /\ N \in 0 .. N
    BY <1>1, <1>10
  <2> QED
    BY <2>1 DEF T
<1>13. ToSet(order[N]) = DOMAIN steps
  <2>1. IsFiniteSet(ToSet(order[N])) /\ Cardinality(ToSet(order[N])) = N /\ ToSet(order[N]) \subseteq DOMAIN steps
    BY <1>12, SetOfSequence DEF Placed
  <2> QED
    BY <2>1, FS_Subset DEF Sortable
<1> QED
  BY <1>11, <1>12, <1>13

-----------------------------------------------------------------------------
(***************************************************************************)
(* The waves.                                                              *)
(***************************************************************************)

\* The remaining steps among the first k of an order.
Before(steps, order, k) == {s \in {order[i] : i \in 1 .. k} : steps[s].status \in RemainingStatuses}

\* What is packed of a set of steps: each step in one wave, away from those it
\* conflicts with, after those it depends on; and a step that waits on nothing
\* is kept out of the first wave by a conflict.
Packed(steps, some, packed) ==
  /\ packed \in Seq(SUBSET some)
  /\ \A s \in some : \E i \in 1 .. Len(packed) : s \in packed[i]
  /\ \A i, j \in 1 .. Len(packed) : i # j => packed[i] \intersect packed[j] = {}
  /\ \A i \in 1 .. Len(packed) : \A s, t \in packed[i] : s # t => ~ Conflicts(steps[s], steps[t])
  /\ \A i, j \in 1 .. Len(packed) : \A s \in packed[i], t \in packed[j] : t \in steps[s].depends => j < i
  /\ \A i \in 1 .. Len(packed) : \A s \in packed[i] :
       i # 1 /\ WaitingOn(steps, s) = {} => \E t \in packed[1] : Conflicts(steps[s], steps[t])

\* The slot of the next step: behind its dependencies, free of conflicts, and
\* the first wave only denied by a conflict if it depends on nothing packed.
LEMMA SlotIsRoom ==
  ASSUME NEW steps, NEW some, NEW packed, Packed(steps, some, packed), NEW s
  PROVE  LET slot == Slot(steps, packed, s)
         IN  /\ slot \in 1 .. Len(packed) + 1
             /\ slot <= Len(packed) => ~ \E t \in packed[slot] : Conflicts(steps[s], steps[t])
             /\ \A j \in 1 .. Len(packed) : \A t \in packed[j] : t \in steps[s].depends => j < slot
             /\ slot # 1 /\ steps[s].depends \intersect some = {} =>
                  Len(packed) >= 1 /\ \E t \in packed[1] : Conflicts(steps[s], steps[t])
<1> DEFINE L == Len(packed)
           behind == {d \in steps[s].depends : \E i \in DOMAIN packed : d \in packed[i]}
           waves == {WaveOf(packed, d) : d \in behind}
           e == Earliest(steps, packed, s)
           room == {i \in e .. L + 1 : i \in DOMAIN packed => ~ \E t \in packed[i] : Conflicts(steps[s], steps[t])}
           slot == Slot(steps, packed, s)
<1>1. L \in Nat /\ DOMAIN packed = 1 .. L /\ \A i \in 1 .. L : packed[i] \subseteq some
  BY LenProperties, ElementOfSeq DEF Packed
<1>2. \A i \in 1 .. L : \A t \in packed[i] : WaveOf(packed, t) = i
  <2> SUFFICES ASSUME NEW i \in 1 .. L, NEW t \in packed[i] PROVE WaveOf(packed, t) = i
    OBVIOUS
  <2>1. \A j \in 1 .. L : t \in packed[j] => j = i
    BY DEF Packed
  <2> QED
    BY <1>1, <2>1 DEF WaveOf
<1>3. waves \in SUBSET (0 .. L) /\ \A w \in waves : w \in 1 .. L
  BY <1>1, <1>2
<1>4. e = IF waves = {} THEN 1 ELSE 1 + CHOOSE w \in waves : \A v \in waves : v <= w
  BY DEF Earliest
<1>5. \A j \in 1 .. L : \A t \in packed[j] : t \in steps[s].depends => j \in waves
  <2> SUFFICES ASSUME NEW j \in 1 .. L, NEW t \in packed[j], t \in steps[s].depends PROVE j \in waves
    OBVIOUS
  <2>1. t \in behind /\ WaveOf(packed, t) = j
    BY <1>1, <1>2
  <2> QED
    BY <2>1
<1>6. steps[s].depends \intersect some = {} => waves = {}
  BY <1>1
<1> HIDE DEF waves, e
<1>7. e \in 1 .. L + 1 /\ (\A w \in waves : w < e) /\ (waves = {} => e = 1)
  <2>1. CASE waves = {}
    BY <1>1, <1>4, <2>1
  <2>2. CASE waves # {}
    <3>1. \E w \in waves : \A v \in waves : v <= w
      BY <1>1, <1>3, <2>2, Greatest
    <3>2. PICK w \in waves : e = 1 + w /\ \A v \in waves : v <= w
      BY <1>4, <2>2, <3>1
    <3> QED
      BY <1>1, <1>3, <2>2, <3>2
  <2> QED
    BY <2>1, <2>2
<1>8. slot = CHOOSE i \in room : \A j \in room : i <= j
  BY DEF Slot, e
<1>9. room \in SUBSET Nat /\ L + 1 \in room
  BY <1>1, <1>7
<1> HIDE DEF room, slot
<1>10. slot \in room /\ \A j \in room : slot <= j
  <2>1. \E i \in room : \A j \in room : i <= j
    BY <1>9, Least
  <2> QED
    BY <1>8, <2>1
<1>11. slot \in e .. L + 1 /\ (slot \in 1 .. L => ~ \E t \in packed[slot] : Conflicts(steps[s], steps[t]))
  BY <1>1, <1>10 DEF room
<1>12. slot \in 1 .. L + 1
  BY <1>1, <1>7, <1>11
<1>13. \A j \in 1 .. L : \A t \in packed[j] : t \in steps[s].depends => j < slot
  BY <1>1, <1>5, <1>7, <1>11
<1>14. ASSUME slot # 1, steps[s].depends \intersect some = {}
       PROVE  L >= 1 /\ \E t \in packed[1] : Conflicts(steps[s], steps[t])
  <2>1. e = 1 /\ ~ (slot <= 1)
    BY <1>1, <1>6, <1>7, <1>12, <1>14
  <2>2. 1 \notin room
    BY <1>10, <2>1
  <2>3. 1 \in e .. L + 1
    BY <1>1, <2>1
  <2> QED
    BY <1>1, <2>2, <2>3 DEF room
<1>15. slot <= L => ~ \E t \in packed[slot] : Conflicts(steps[s], steps[t])
  BY <1>1, <1>11, <1>12
<1> QED
  BY <1>12, <1>13, <1>14, <1>15 DEF slot

\* What packing one more step in a slot makes of the waves.
Adds(some, packed, s, slot, more) ==
  /\ more \in Seq(SUBSET (some \union {s}))
  /\ Len(more) = IF slot <= Len(packed) THEN Len(packed) ELSE Len(packed) + 1
  /\ \A i \in 1 .. Len(packed) : more[i] = IF i = slot THEN packed[i] \union {s} ELSE packed[i]
  /\ slot = Len(packed) + 1 => more[slot] = {s}

LEMMA PackAdds ==
  ASSUME NEW steps, NEW some, NEW packed, Packed(steps, some, packed), NEW s
  PROVE  Adds(some, packed, s, Slot(steps, packed, s), Pack(steps, packed, s))
<1> DEFINE slot == Slot(steps, packed, s)  more == Pack(steps, packed, s)  L == Len(packed)
<1>1. /\ packed \in Seq(SUBSET some) /\ L \in Nat /\ DOMAIN packed = 1 .. L
      /\ \A i \in 1 .. L : packed[i] \in SUBSET some
      /\ packed = [i \in 1 .. L |-> packed[i]]
  BY LenProperties, ElementOfSeq DEF Packed
<1>2. slot \in 1 .. L + 1
  BY SlotIsRoom
<1>3. more = IF slot \in DOMAIN packed THEN [packed EXCEPT ![slot] = @ \union {s}] ELSE Append(packed, {s})
  BY DEF Pack
<1> HIDE DEF slot, more
<1>4. packed \in Seq(SUBSET (some \union {s}))
  <2>1. packed = [i \in 1 .. L |-> packed[i]] /\ \A i \in 1 .. L : packed[i] \in SUBSET (some \union {s})
    BY <1>1
  <2> DEFINE S == SUBSET (some \union {s})
  <2> HIDE DEF S
  <2>2. [i \in 1 .. L |-> packed[i]] \in Seq(S)
    BY <1>1, <2>1, IsASeq DEF S
  <2> QED
    BY <2>1, <2>2 DEF S
<1>5. CASE slot \in 1 .. L
  <2>1. more = [i \in 1 .. L |-> IF i = slot THEN packed[i] \union {s} ELSE packed[i]]
    BY <1>1, <1>3, <1>5
  <2>2. \A i \in 1 .. L : more[i] \in SUBSET (some \union {s})
    BY <1>1, <2>1
  <2>3. more = [i \in 1 .. L |-> more[i]]
    BY <2>1
  <2>4. [i \in 1 .. L |-> more[i]] \in Seq(SUBSET (some \union {s})) /\ Len(more) = L
    <3> DEFINE S == SUBSET (some \union {s})
    <3>1. \A i \in 1 .. L : more[i] \in S
      BY <2>2
    <3> HIDE DEF S
    <3>2. [i \in 1 .. L |-> more[i]] \in Seq(S) /\ Len([i \in 1 .. L |-> more[i]]) = L
      BY <1>1, <3>1, IsASeq
    <3> QED
      BY <2>3, <3>2 DEF S
  <2> QED
    BY <1>1, <1>5, <2>1, <2>3, <2>4 DEF Adds, slot, more
<1>6. CASE slot = L + 1
  <2>1. slot \notin DOMAIN packed /\ ~ (slot <= L) /\ \A i \in 1 .. L : i # slot
    BY <1>1, <1>6
  <2>2. more = Append(packed, {s})
    BY <1>3, <2>1
  <2>3. /\ more \in Seq(SUBSET (some \union {s})) /\ Len(more) = L + 1
        /\ \A i \in 1 .. L : more[i] = packed[i]
        /\ more[L + 1] = {s}
    <3> DEFINE S == SUBSET (some \union {s})
    <3>1. packed \in Seq(S) /\ {s} \in S
      BY <1>4
    <3> HIDE DEF S
    <3>2. /\ Append(packed, {s}) \in Seq(S) /\ Len(Append(packed, {s})) = L + 1
          /\ \A i \in 1 .. L : Append(packed, {s})[i] = packed[i]
          /\ Append(packed, {s})[L + 1] = {s}
      BY <3>1, AppendProperties
    <3> QED
      BY <2>2, <3>2 DEF S
  <2> QED
    BY <1>6, <2>1, <2>3 DEF Adds, slot, more
<1>7. slot \in 1 .. L \/ slot = L + 1
  BY <1>1, <1>2
<1> QED
  BY <1>5, <1>6, <1>7 DEF slot, more

\* One more step, on which no packed step depends, leaves what is packed in order.
LEMMA PackKeeps ==
  ASSUME NEW steps, NEW some, NEW packed, Packed(steps, some, packed),
         NEW s, s \notin some, s \notin steps[s].depends,
         \A t \in some : s \notin steps[t].depends /\ steps[t].status \in RemainingStatuses
  PROVE  Packed(steps, some \union {s}, Pack(steps, packed, s))
<1> DEFINE slot == Slot(steps, packed, s)  more == Pack(steps, packed, s)  L == Len(packed)  M == Len(more)
<1>1. L \in Nat /\ \A i \in 1 .. L : packed[i] \subseteq some
  BY LenProperties, ElementOfSeq DEF Packed
<1>2. /\ slot \in 1 .. L + 1
      /\ slot <= L => ~ \E t \in packed[slot] : Conflicts(steps[s], steps[t])
      /\ \A j \in 1 .. L : \A t \in packed[j] : t \in steps[s].depends => j < slot
      /\ slot # 1 /\ steps[s].depends \intersect some = {} =>
           L >= 1 /\ \E t \in packed[1] : Conflicts(steps[s], steps[t])
  BY SlotIsRoom
<1>3. /\ more \in Seq(SUBSET (some \union {s}))
      /\ M = IF slot <= L THEN L ELSE L + 1
      /\ \A i \in 1 .. L : more[i] = IF i = slot THEN packed[i] \union {s} ELSE packed[i]
      /\ slot = L + 1 => more[slot] = {s}
  <2>1. Adds(some, packed, s, slot, more)
    BY PackAdds
  <2> HIDE DEF slot, more
  <2> QED
    BY <2>1 DEF Adds
<1> HIDE DEF slot, more
<1>4. /\ M \in Nat /\ slot \in 1 .. M /\ s \in more[slot]
      /\ \A i \in 1 .. L : i \in 1 .. M /\ packed[i] \subseteq more[i]
  <2>1. CASE slot <= L
    <3>1. M = L /\ slot \in 1 .. L
      BY <1>1, <1>2, <1>3, <2>1
    <3>2. s \in more[slot] /\ \A i \in 1 .. L : packed[i] \subseteq more[i]
      BY <1>3, <3>1
    <3> QED
      BY <1>1, <3>1, <3>2
  <2>2. CASE slot = L + 1
    <3>1. M = L + 1 /\ more[slot] = {s}
      BY <1>1, <1>3, <2>2
    <3>2. \A i \in 1 .. L : i # slot
      BY <1>1, <2>2
    <3>3. \A i \in 1 .. L : more[i] = packed[i]
      BY <1>3, <3>2
    <3> QED
      BY <1>1, <2>2, <3>1, <3>3
  <2> QED
    BY <1>1, <1>2, <2>1, <2>2
<1>5. \A i \in 1 .. M : \A t \in more[i] : (t = s /\ i = slot) \/ (i \in 1 .. L /\ t \in packed[i] /\ t \in some /\ t # s)
  <2> TAKE i \in 1 .. M
  <2> TAKE t \in more[i]
  <2>1. CASE i \in 1 .. L
    <3>1. more[i] = IF i = slot THEN packed[i] \union {s} ELSE packed[i]
      BY <1>3, <2>1
    <3>2. t \in packed[i] \/ (t = s /\ i = slot)
      BY <3>1
    <3> QED
      BY <1>1, <2>1, <3>2
  <2>2. CASE i = L + 1
    <3>1. slot = L + 1
      BY <1>1, <1>2, <1>3, <2>2
    <3> QED
      BY <1>3, <2>2, <3>1
  <2> QED
    BY <1>1, <1>2, <1>3, <2>1, <2>2
<1>6. \A t \in some \union {s} : \E i \in 1 .. M : t \in more[i]
  BY <1>4 DEF Packed
<1>7. ASSUME NEW i \in 1 .. M, NEW j \in 1 .. M, i # j PROVE more[i] \intersect more[j] = {}
  <2> SUFFICES ASSUME NEW t \in more[i], t \in more[j] PROVE FALSE
    OBVIOUS
  <2>1. t # s /\ i \in 1 .. L /\ j \in 1 .. L /\ t \in packed[i] /\ t \in packed[j]
    BY <1>5, <1>7
  <2> QED
    BY <1>7, <2>1 DEF Packed
<1>8. ASSUME NEW i \in 1 .. M, NEW t \in more[i], NEW u \in more[i], t # u
      PROVE  ~ Conflicts(steps[t], steps[u])
  <2>1. \A v \in more[i] : i = slot /\ v # s => v \in packed[slot] /\ slot <= L
    BY <1>1, <1>5
  <2>2. CASE t = s \/ u = s
    <3>1. i = slot
      BY <1>5, <2>2
    <3>2. PICK v \in packed[slot] : slot <= L /\ ((t = s /\ u = v) \/ (u = s /\ t = v))
      BY <1>8, <2>1, <2>2, <3>1
    <3>3. ~ Conflicts(steps[s], steps[v])
      BY <1>2, <3>2
    <3> QED
      BY <3>2, <3>3 DEF Conflicts
  <2>3. CASE t # s /\ u # s
    <3>1. i \in 1 .. L /\ t \in packed[i] /\ u \in packed[i]
      BY <1>5, <2>3
    <3> QED
      BY <1>8, <3>1 DEF Packed
  <2> QED
    BY <2>2, <2>3
<1>9. ASSUME NEW i \in 1 .. M, NEW j \in 1 .. M, NEW t \in more[i], NEW u \in more[j], u \in steps[t].depends
      PROVE  j < i
  <2>1. u # s
    BY <1>5, <1>9
  <2>2. j \in 1 .. L /\ u \in packed[j]
    BY <1>5, <2>1
  <2>3. CASE t = s
    <3>1. i = slot
      BY <1>5, <2>3
    <3> QED
      BY <1>2, <1>9, <2>2, <2>3, <3>1
  <2>4. CASE t # s
    <3>1. i \in 1 .. L /\ t \in packed[i]
      BY <1>5, <2>4
    <3> QED
      BY <1>9, <2>2, <3>1 DEF Packed
  <2> QED
    BY <2>3, <2>4
<1>10. ASSUME NEW i \in 1 .. M, NEW t \in more[i], i # 1, WaitingOn(steps, t) = {}
       PROVE  \E u \in more[1] : Conflicts(steps[t], steps[u])
  <2>1. L >= 1 /\ \E u \in packed[1] : Conflicts(steps[t], steps[u])
    <3>1. CASE t = s
      <4>1. slot # 1
        BY <1>5, <1>10, <3>1
      <4>2. \A d \in steps[s].depends : steps[d].status \in SatisfiedDeps
        BY <1>10, <3>1 DEF WaitingOn
      <4>3. SatisfiedDeps \intersect RemainingStatuses = {}
        BY DEF SatisfiedDeps, RemainingStatuses
      <4>4. steps[s].depends \intersect some = {}
        BY <4>2, <4>3
      <4> QED
        BY <1>2, <3>1, <4>1, <4>4
    <3>2. CASE t # s
      <4>1. i \in 1 .. L /\ t \in packed[i]
        BY <1>5, <3>2
      <4>2. L >= 1
        BY <1>1, <4>1
      <4>3. \E u \in packed[1] : Conflicts(steps[t], steps[u])
        BY <1>10, <4>1 DEF Packed
      <4> QED
        BY <4>2, <4>3
    <3> QED
      BY <3>1, <3>2
  <2>2. packed[1] \subseteq more[1]
    BY <1>1, <1>4, <2>1
  <2> QED
    BY <2>1, <2>2
<1>11. Packed(steps, some \union {s}, more)
  BY <1>3, <1>6, <1>7, <1>8, <1>9, <1>10 DEF Packed
<1> QED
  BY <1>11 DEF more

\* The waves after k steps of the order, from those after k - 1 of them.
PackNext(steps, s, packed) ==
  IF steps[s].status \in RemainingStatuses THEN Pack(steps, packed, s) ELSE packed

LEMMA NextStepKeeps ==
  ASSUME NEW steps, NEW order, Placed(steps, order), NEW k \in 1 .. Len(order),
         NEW packed, Packed(steps, Before(steps, order, k - 1), packed)
  PROVE  Packed(steps, Before(steps, order, k), PackNext(steps, order[k], packed))
<1> DEFINE s == order[k]  some == Before(steps, order, k - 1)
<1>1. Len(order) \in Nat /\ k \in Nat /\ \A i \in 1 .. k : i \in 1 .. Len(order) /\ (i = k \/ i \in 1 .. k - 1)
  <2>1. Len(order) \in Nat
    BY LenProperties DEF Placed
  <2> QED
    BY <2>1
<1>2. \A i \in 1 .. k - 1 : i \in 1 .. k /\ i # k
  BY <1>1
<1>3. \A i, j \in 1 .. k : order[i] = order[j] => i = j
  BY <1>1 DEF Placed
<1>4. \A i \in 1 .. k : s \notin steps[order[i]].depends
  <2> SUFFICES ASSUME NEW i \in 1 .. k, s \in steps[order[i]].depends PROVE FALSE
    OBVIOUS
  <2>1. PICK j \in 1 .. i - 1 : s = order[j]
    BY <1>1 DEF Placed
  <2>2. j \in 1 .. k /\ j # k /\ k \in 1 .. k
    BY <1>1, <2>1
  <2> QED
    BY <1>3, <2>1, <2>2
<1>5. {order[i] : i \in 1 .. k} = {order[i] : i \in 1 .. k - 1} \union {s}
  <2>1. k \in 1 .. k
    BY <1>1
  <2> QED
    BY <1>1, <1>2, <2>1
<1>6. s \notin some
  <2>1. k \in 1 .. k
    BY <1>1
  <2> QED
    BY <1>2, <1>3, <2>1 DEF Before
<1>7. \A t \in some : s \notin steps[t].depends /\ steps[t].status \in RemainingStatuses
  BY <1>2, <1>4 DEF Before
<1>8. s \notin steps[s].depends
  BY <1>1, <1>4
<1>9. CASE steps[s].status \in RemainingStatuses
  <2>1. Before(steps, order, k) = some \union {s}
    BY <1>5, <1>9 DEF Before
  <2>2. Packed(steps, some \union {s}, Pack(steps, packed, s))
    <3> HIDE DEF some, s
    <3>1. Packed(steps, some, packed)
      BY DEF some
    <3> QED
      BY <1>6, <1>7, <1>8, <3>1, PackKeeps
  <2>3. PackNext(steps, s, packed) = Pack(steps, packed, s)
    BY <1>9 DEF PackNext
  <2> QED
    BY <2>1, <2>2, <2>3
<1>10. CASE steps[s].status \notin RemainingStatuses
  <2>1. Before(steps, order, k) = some
    BY <1>5, <1>10 DEF Before
  <2>2. PackNext(steps, s, packed) = packed
    BY <1>10 DEF PackNext
  <2> QED
    BY <2>1, <2>2
<1> QED
  BY <1>9, <1>10

LEMMA NothingIsPacked ==
  ASSUME NEW steps, NEW order
  PROVE  Packed(steps, Before(steps, order, 0), << >>)
<1>1. Before(steps, order, 0) = {}
  BY DEF Before
<1>2. << >> \in Seq(SUBSET {}) /\ Len(<< >>) = 0
  BY EmptySeq
<1> QED
  BY <1>1, <1>2 DEF Packed

\* The waves have every remaining step, in the order of Packed.
LEMMA WavesArePacked ==
  ASSUME NEW steps, Sortable(steps)
  PROVE  Packed(steps, {s \in DOMAIN steps : steps[s].status \in RemainingStatuses}, Waves(steps))
<1> DEFINE order == TopologicalOrder(steps)
           N == Len(order)
           T == [k \in 0 .. N |-> {p \in Seq(SUBSET DOMAIN steps) : Packed(steps, Before(steps, order, k), p)}]
           step == [k \in 1 .. N |-> [p \in T[k - 1] |-> PackNext(steps, order[k], p)]]
           packed == CHOOSE f : f = [k \in 0 .. N |->
                                       IF k = 0 THEN << >>
                                       ELSE IF steps[order[k]].status \in RemainingStatuses
                                            THEN Pack(steps, f[k - 1], order[k]) ELSE f[k - 1]]
<1>1. Placed(steps, order) /\ ToSet(order) = DOMAIN steps
  BY OrderIsSound
<1>2. N \in Nat /\ ToSet(order) = {order[i] : i \in 1 .. N}
  BY <1>1, SetOfSequence DEF Placed
<1>3. Waves(steps) = packed[N]
  BY DEF Waves
<1> HIDE DEF order
<1>4. packed = CHOOSE f : f = [k \in 0 .. N |-> IF k = 0 THEN << >> ELSE PackNext(steps, order[k], f[k - 1])]
  BY DEF PackNext
<1> HIDE DEF packed
<1>5. \A k \in 0 .. N : \A p : Packed(steps, Before(steps, order, k), p) => p \in Seq(SUBSET DOMAIN steps)
  <2> TAKE k \in 0 .. N
  <2>1. Before(steps, order, k) \subseteq DOMAIN steps
    <3>1. \A i \in 1 .. k : i \in 1 .. N
      BY <1>2
    <3>2. \A i \in 1 .. N : order[i] \in DOMAIN steps
      BY <1>1, <1>2
    <3> QED
      BY <3>1, <3>2 DEF Before
  <2> TAKE p
  <2>2. Packed(steps, Before(steps, order, k), p) => p \in Seq(SUBSET Before(steps, order, k))
    BY DEF Packed
  <2>3. SUBSET Before(steps, order, k) \subseteq SUBSET DOMAIN steps
    BY <2>1
  <2> DEFINE A == SUBSET Before(steps, order, k)  B == SUBSET DOMAIN steps
  <2>4. A \subseteq B
    BY <2>3
  <2> HIDE DEF A, B
  <2>5. p \in Seq(A) => p \in Seq(B)
    BY <2>4
  <2> QED
    BY <2>2, <2>5 DEF A, B
<1>6. << >> \in T[0]
  <2>1. 0 \in 0 .. N /\ Packed(steps, Before(steps, order, 0), << >>)
    BY <1>2, NothingIsPacked
  <2> QED
    BY <1>5, <2>1
<1>7. ASSUME NEW k \in 1 .. N, NEW p \in T[k - 1] PROVE PackNext(steps, order[k], p) \in T[k]
  <2>1. k - 1 \in 0 .. N /\ k \in 0 .. N
    BY <1>2
  <2>2. Packed(steps, Before(steps, order, k - 1), p)
    BY <1>7, <2>1
  <2>3. Packed(steps, Before(steps, order, k), PackNext(steps, order[k], p))
    BY <1>1, <2>2, NextStepKeeps
  <2> QED
    BY <1>5, <2>1, <2>3
<1>8. \A k \in 1 .. N : \A p \in T[k - 1] : step[k][p] = PackNext(steps, order[k], p)
  OBVIOUS
<1> HIDE DEF T, step, N
<1>9. \E f : Solves(f, N, << >>, step)
  <2>1. \A k \in 1 .. N : \A p \in T[k - 1] : step[k][p] \in T[k]
    BY <1>7, <1>8
  <2> QED
    BY <1>2, <1>6, <2>1, Recursion
<1>10. PICK f : /\ f = [k \in 0 .. N |-> f[k]] /\ f[0] = << >>
                /\ \A k \in 1 .. N : f[k] = step[k][f[k - 1]]
  BY <1>9 DEF Solves
<1>11. \A k \in 0 .. N : f[k] \in T[k]
  <2>1. \A k \in 1 .. N : f[k - 1] \in T[k - 1] => f[k] \in T[k]
    BY <1>7, <1>8, <1>10
  <2> QED
    BY <1>2, <1>6, <1>10, <2>1, SolutionStays
<1>12. f = [k \in 0 .. N |-> IF k = 0 THEN << >> ELSE PackNext(steps, order[k], f[k - 1])]
  <2>1. \A k \in 0 .. N : f[k] = IF k = 0 THEN << >> ELSE PackNext(steps, order[k], f[k - 1])
    <3> TAKE k \in 0 .. N
    <3>1. CASE k = 0
      BY <1>10, <3>1
    <3>2. CASE k # 0
      <4>1. k \in 1 .. N /\ k - 1 \in 0 .. N
        BY <1>2, <3>2
      <4> QED
        BY <1>8, <1>10, <1>11, <3>2, <4>1
    <3> QED
      BY <3>1, <3>2
  <2> QED
    BY <1>10, <2>1
<1>13. packed = [k \in 0 .. N |-> IF k = 0 THEN << >> ELSE PackNext(steps, order[k], packed[k - 1])]
  BY <1>4, <1>12
<1>14. \A k \in 0 .. N : packed[k] \in T[k]
  <2>1. packed[0] = << >>
    BY <1>2, <1>13
  <2>2. \A k \in 1 .. N : packed[k - 1] \in T[k - 1] => packed[k] \in T[k]
    <3> SUFFICES ASSUME NEW k \in 1 .. N, packed[k - 1] \in T[k - 1] PROVE packed[k] \in T[k]
      OBVIOUS
    <3>1. k \in 0 .. N /\ k # 0
      BY <1>2
    <3>2. packed[k] = IF k = 0 THEN << >> ELSE PackNext(steps, order[k], packed[k - 1])
      BY <1>13, <3>1
    <3> QED
      BY <1>7, <3>1, <3>2
  <2> QED
    BY <1>2, <1>6, <2>1, <2>2, SolutionStays
<1>15. Packed(steps, Before(steps, order, N), packed[N])
  <2>1. N \in 0 .. N /\ packed[N] \in T[N]
    BY <1>2, <1>14
  <2> QED
    BY <2>1 DEF T
<1>16. Before(steps, order, N) = {s \in DOMAIN steps : steps[s].status \in RemainingStatuses}
  BY <1>1, <1>2 DEF Before
<1> QED
  BY <1>3, <1>15, <1>16

\* The steps of a valid plan can be sorted.
LEMMA DocumentIsSortable ==
  ASSUME NEW doc, IsDocument(doc)
  PROVE  Sortable(doc.steps) /\ \A s \in DOMAIN doc.steps : doc.steps[s].status \in StepStatuses
<1>1. Steps \subseteq Nat
  BY PlanAssumption DEF Steps
<1>2. \A s \in DOMAIN doc.steps : doc.steps[s].status \in StepStatuses
  <2> SUFFICES ASSUME NEW s \in DOMAIN doc.steps PROVE doc.steps[s].status \in StepStatuses
    OBVIOUS
  <2>1. IsStep(doc.steps[s])
    BY DEF IsDocument
  <2> QED
    BY <2>1 DEF IsStep
<1> QED
  BY <1>1, <1>2 DEF IsDocument, Sortable

\* Waves in the order of Packed, with every remaining step, are safe.
LEMMA PackedIsSafe ==
  ASSUME NEW steps, Sortable(steps), \A s \in DOMAIN steps : steps[s].status \in StepStatuses,
         NEW waves, Packed(steps, {s \in DOMAIN steps : steps[s].status \in RemainingStatuses}, waves)
  PROVE  SafeWaves(steps, waves)
<1> DEFINE some == {s \in DOMAIN steps : steps[s].status \in RemainingStatuses}
           first == IF waves = << >> THEN {} ELSE waves[1]
           L == Len(waves)
<1>1. /\ L \in Nat /\ DOMAIN waves = 1 .. L
      /\ \A i \in 1 .. L : waves[i] \subseteq some
  BY LenProperties, ElementOfSeq DEF Packed
<1>2. (waves = << >> => L = 0) /\ (waves # << >> => 1 \in 1 .. L)
  <2>1. waves = << >> <=> L = 0
    BY EmptySeq DEF Packed
  <2> QED
    BY <1>1, <2>1
<1>3. UNION ToSet(waves) = some
  <2>1. ToSet(waves) = {waves[i] : i \in 1 .. L}
    BY <1>1 DEF ToSet
  <2>2. \A s \in some : \E i \in 1 .. L : s \in waves[i]
    BY DEF Packed
  <2> QED
    BY <1>1, <2>1, <2>2
<1>4. ASSUME NEW i \in DOMAIN waves, NEW s \in waves[i]
      PROVE  /\ \A t \in waves[i] \ {s} : ~ Conflicts(steps[s], steps[t])
             /\ \A j \in DOMAIN waves : \A t \in waves[j] :
                  (j = i => t = s \/ t \notin steps[s].depends) /\ (j > i => t # s /\ t \notin steps[s].depends)
  <2>1. i \in 1 .. L
    BY <1>1, <1>4
  <2>2. \A t \in waves[i] : s # t => ~ Conflicts(steps[s], steps[t])
    BY <1>4, <2>1 DEF Packed
  <2>3. ASSUME NEW j \in 1 .. L, NEW t \in waves[j]
        PROVE  (t \in steps[s].depends => j < i) /\ (j # i => t # s)
    BY <1>4, <2>1, <2>3 DEF Packed
  <2>4. ASSUME NEW j \in 1 .. L, NEW t \in waves[j]
        PROVE  (j = i => t = s \/ t \notin steps[s].depends) /\ (j > i => t # s /\ t \notin steps[s].depends)
    BY <1>1, <2>1, <2>3, <2>4
  <2> QED
    BY <1>1, <2>2, <2>4
<1>5. ASSUME NEW s \in first PROVE WaitingOn(steps, s) = {}
  <2>1. 1 \in 1 .. L /\ s \in waves[1] /\ s \in some
    BY <1>1, <1>2, <1>5
  <2> SUFFICES ASSUME NEW d \in steps[s].depends, steps[d].status \notin SatisfiedDeps PROVE FALSE
    BY DEF WaitingOn
  <2>2. d \in DOMAIN steps
    BY <2>1 DEF Sortable, DependenciesResolve
  <2>3. d \in some
    BY <2>2 DEF StepStatuses, SatisfiedDeps, RemainingStatuses
  <2>4. PICK j \in 1 .. L : d \in waves[j]
    BY <2>3 DEF Packed
  <2>5. j < 1
    BY <2>1, <2>4 DEF Packed
  <2> QED
    BY <1>1, <2>5
<1>6. ASSUME NEW s \in Ready(steps), s \notin first PROVE \E t \in first : Conflicts(steps[s], steps[t])
  <2>1. s \in some /\ WaitingOn(steps, s) = {}
    BY DEF Ready, RemainingStatuses
  <2>2. PICK i \in 1 .. L : s \in waves[i]
    BY <2>1 DEF Packed
  <2>3. waves # << >>
    BY <1>1, <1>2, <2>2
  <2>4. first = waves[1]
    BY <2>3
  <2>5. i # 1
    BY <1>6, <2>2, <2>4
  <2>6. \E t \in waves[1] : Conflicts(steps[s], steps[t])
    BY <2>1, <2>2, <2>5 DEF Packed
  <2> QED
    BY <2>4, <2>6
<1>7. (\A s \in first : WaitingOn(steps, s) = {})
      /\ \A s \in Ready(steps) \ first : \E t \in first : Conflicts(steps[s], steps[t])
  BY <1>5, <1>6
<1> QED
  BY <1>3, <1>4, <1>7 DEF SafeWaves

\* What is stored is a valid plan, so its waves are safe.
LEMMA StoredWavesAreSafe == TypeOK => WavesAreSafe
<1> SUFFICES ASSUME TypeOK, row # NoPlan
             PROVE  SafeWaves(row.doc.steps, Waves(row.doc.steps))
  BY DEF WavesAreSafe
<1>1. IsDocument(row.doc)
  BY DEF TypeOK
<1> QED
  BY <1>1, DocumentIsSortable, WavesArePacked, PackedIsSafe

-----------------------------------------------------------------------------
(***************************************************************************)
(* The theorems.                                                           *)
(***************************************************************************)

\* The inductive invariant holds in every reachable state of the store.
THEOREM PlanInvariant == Spec => []IInv
BY InitInv, InvariantStep, PTL DEF Spec

\* What the store holds, and what any agent reads, is always a valid plan:
\* its dependencies resolve and have no cycle, and a complete step has its
\* criteria passed or was forced (the validators of task_plan_model.py).
THEOREM PlansAreValid == Spec => []TypeOK
<1>1. IInv => TypeOK
  BY DEF IInv
<1> QED
  BY <1>1, PlanInvariant, PTL

\* An agent whose revision is still current has read what is stored: the
\* compare-and-swap of plan_upsert loses no agent's change.
THEOREM RevisionsNameDocuments == Spec => []RevisionNamesTheDocument
<1>1. IInv => RevisionNamesTheDocument
  BY DEF IInv
<1> QED
  BY <1>1, PlanInvariant, PTL

\* The dependencies of a complete step, and of one that runs without force,
\* are complete or skipped, after any sequence of calls of the tools.
THEOREM StepsFinishInOrder == Spec => []FinishedInOrder
<1>1. IInv => FinishedInOrder
  BY DEF IInv
<1> QED
  BY <1>1, PlanInvariant, PTL

\* The call that made the current revision changes nothing when it is
\* repeated: each tool recognises its own outcome.
THEOREM RepeatedCallsAreNoOps == Spec => []RepeatedCallIsNoOp
<1>1. IInv => RepeatedCallIsNoOp
  BY DEF IInv
<1> QED
  BY <1>1, PlanInvariant, PTL

\* The waves that a dispatcher is given of any stored plan hold each remaining
\* step once, after the steps it depends on and apart from those it conflicts
\* with, and a ready step misses the first wave only by a conflict (waves of
\* task_graph.py).
THEOREM WavesAreAlwaysSafe == Spec => []WavesAreSafe
<1>1. IInv => WavesAreSafe
  BY StoredWavesAreSafe DEF IInv
<1> QED
  BY <1>1, PlanInvariant, PTL
=============================================================================
