------------------------ MODULE InvestigationRequest ------------------------
(***************************************************************************)
(* One InvestigationRequest object of the API server, the manager replicas *)
(* that reconcile it (internal/controllers/investigationrequest_controller *)
(* .go), the evidence and the model provider they consult through          *)
(* internal/investigation, and the RiskSignal a confirmed investigation is *)
(* projected to.                                                           *)
(*                                                                         *)
(* Reads come from the replica's informer cache; every status write        *)
(* carries the resourceVersion it was read at; a delete has no             *)
(* precondition.  The call to the provider, the checkpoint, the            *)
(* projection's two writes and the final status write are separate steps,  *)
(* between which users edit, caches lag and processes die.                 *)
(*                                                                         *)
(* Evidence is abstracted to what the verdict depends on: an Observation   *)
(* says what the evidence gate and the claim verifier make of the data the *)
(* datasources hold.                                                       *)
(***************************************************************************)
EXTENDS Integers

CONSTANTS
    Workers,          \* the manager replicas
    Claims,           \* root-cause claims a provider can make
    Observations,     \* what the datasources can hold: subset of ObservationType
    Specs,            \* values of InvestigationRequest.spec: subset of SpecType
    Annotations,      \* lineages the annotations can describe: subset of Lineages
    Answers,          \* sets of causes the provider can answer with
    TTLSeconds,       \* spec.ttlSeconds
    MaxGeneration,    \* bound on spec edits
    MaxTouches,       \* bound on writes by others: annotations, ModelProvider, RiskSignal
    MaxFailures,      \* bound on crashes and calls that return an error
    MaxTime           \* bound on the clock

(***************************************************************************)
(* records: at least one record comes back.                                *)
(* complete, normal: what the spec's evidence profile, if one is named,    *)
(* finds of it.                                                            *)
(* mechanism: the claims the profile itself adds (profileBackedRCAClaim).  *)
(* supports, contradicts: what the verifier makes of a claim.              *)
(***************************************************************************)
ObservationType ==
    [records : BOOLEAN, complete : BOOLEAN,
     normal : BOOLEAN, mechanism : SUBSET Claims,
     supports : SUBSET Claims, contradicts : SUBSET Claims]

\* maxDepth and allowRiskSignalSource are spec.loopPolicy.
SpecType ==
    [valid : BOOLEAN, profile : BOOLEAN, createRiskSignal : BOOLEAN,
     maxDepth : Int, allowRiskSignalSource : BOOLEAN]

\* status.lineage, kind "None" for nil; uid: the source's UID is known.
Lineages == [kind : {"None", "RiskRule", "RiskSignal"}, uid : BOOLEAN, depth : Int]

NoLineage == [kind |-> "None", uid |-> FALSE, depth |-> 0]

ASSUME InvestigationAssumption ==
    /\ Observations \subseteq ObservationType /\ Observations # {}
    /\ \A o \in Observations :
          ~ o.records => o.mechanism \cup o.supports \cup o.contradicts = {}
    /\ Specs \subseteq SpecType /\ Specs # {}
    /\ Annotations \subseteq Lineages /\ Annotations # {}
    /\ Answers \subseteq SUBSET Claims
    /\ TTLSeconds \in Nat
    /\ MaxGeneration \in Nat
    /\ MaxTouches \in Nat
    /\ MaxFailures \in Nat
    /\ MaxTime \in Nat

Never == -1                         \* a nil *metav1.Time

Unset == ""                         \* a phase or outcome not written yet

defaultMaxInvestigationDepth == 1

TerminalPhases == {"Completed", "Failed"}

Outcomes == {"Confirmed", "Inconclusive", "NoIssueFound", "Unknown"}

\* An evidence bundle: what was observed and when.  gathered is FALSE where no
\* references exist because preflight or a query failed.
Bundles == [gathered : BOOLEAN, seen : Observations, at : Int]

ExecutionIDs == [generation : Nat, digest : Bundles, provider : Nat]

\* status.execution.  state "None" is nil, "Rejected" stands for the issue
\* reason that buildRejectedRCAExecution records without a provider result.
Executions ==
    [state : {"None", "ProviderCompleted", "Finalized", "Rejected"},
     id : ExecutionIDs, answer : SUBSET Claims]

\* A condition and the generation it was set for.
Conditions == [status : {"None", "True", "False", "Unknown"}, generation : Nat]

Statuses ==
    [phase : {Unset, "Collecting", "Reasoning"} \cup TerminalPhases,
     observedGeneration : Nat,
     completedAt : Int,
     outcome : Outcomes \cup {Unset},
     failure : {"None", "Loop", "Invalid", "Preflight", "Evidence", "RCA"},
     lineage : Lineages,
     execution : Executions,
     linked : BOOLEAN,              \* status.linkedRiskSignalRef
     RCAReady : Conditions,
     Verified : Conditions,
     RemediationReady : Conditions]

Requests ==
    [exists : BOOLEAN, resourceVersion : Nat, generation : Nat, spec : Specs,
     annotations : Lineages, status : Statuses]

NoBundle == [gathered |-> FALSE, at |-> Never,
             seen |-> CHOOSE o \in Observations : TRUE]

NoExecution == [state |-> "None", answer |-> {},
                id |-> [generation |-> 0, digest |-> NoBundle, provider |-> 0]]

NoCondition == [status |-> "None", generation |-> 0]

NewRequest(s, l) ==
    [exists |-> TRUE, resourceVersion |-> 1, generation |-> 1, spec |-> s,
     annotations |-> l,
     status |-> [phase |-> Unset, observedGeneration |-> 0, completedAt |-> Never,
                 outcome |-> Unset, failure |-> "None", lineage |-> NoLineage,
                 execution |-> NoExecution, linked |-> FALSE,
                 RCAReady |-> NoCondition, Verified |-> NoCondition,
                 RemediationReady |-> NoCondition]]

-----------------------------------------------------------------------------
VARIABLES
    request,    \* the object at the API server
    cache,      \* [Workers -> Requests]: each replica's informer cache
    queue,      \* [Workers -> BOOLEAN]: the workqueue holds the request
    worker,     \* [Workers -> what a Reconcile in progress holds in memory]
    signal,     \* the RiskSignal projected to, up to its own deletion
    evidence,   \* what the datasources hold now
    provider,   \* metadata.generation of the ModelProvider
    calls,      \* what the provider has answered, and to which execution
    touches,    \* such writes by others so far
    failures,   \* crashes and failed calls so far
    now         \* the clock

vars == <<request, cache, queue, worker, signal, evidence, provider, calls,
          touches, failures, now>>

\* What no replica's own step changes except the one that names it.
worldVars == <<signal, evidence, provider, calls, touches, failures, now>>

Calls == [id : ExecutionIDs, answer : SUBSET Claims]

Pcs == {"idle", "delete", "reason", "checkpoint", "promote", "project", "update"}

WorkerStates ==
    [pc : Pcs,
     obj : Requests,            \* the copy the status is built on
     original : Executions,     \* original.Status.Execution
     id : ExecutionIDs,         \* executionID
     answer : SUBSET Claims,    \* rca.Reasoning
     signalVersion : Nat]       \* resourceVersion of the RiskSignal held

\* generation: that of the investigation whose evidence the spec holds.
Signals == [created : BOOLEAN, resourceVersion : Nat,
            phase : {Unset, "Confirmed", "Other"}, RCAReady : BOOLEAN,
            generation : Nat]

Idle(r) == [pc |-> "idle", obj |-> r, original |-> NoExecution,
            id |-> NoExecution.id, answer |-> {}, signalVersion |-> 0]

\* What an idle worker holds stands for nothing: the object as first created.
NoRequest == NewRequest(CHOOSE s \in Specs : TRUE, NoLineage)

InvestigationTypeOK ==
    /\ request \in Requests
    /\ cache \in [Workers -> Requests]
    /\ queue \in [Workers -> BOOLEAN]
    /\ worker \in [Workers -> WorkerStates]
    /\ signal \in Signals
    /\ evidence \in Observations
    /\ provider \in Nat
    /\ calls \subseteq Calls
    /\ touches \in Nat /\ failures \in Nat /\ now \in Nat

\* RiskRule routing, an AgentAction's verification or a user has created it.
Init ==
    /\ request \in {NewRequest(s, l) : s \in Specs, l \in Annotations}
    /\ cache = [w \in Workers |-> request]
    /\ queue = [w \in Workers |-> TRUE]
    /\ worker = [w \in Workers |-> Idle(NoRequest)]
    /\ signal = [created |-> FALSE, resourceVersion |-> 0, phase |-> Unset,
                 RCAReady |-> FALSE, generation |-> 0]
    /\ evidence \in Observations
    /\ provider = 1
    /\ calls = {}
    /\ touches = 0 /\ failures = 0 /\ now = 0

-----------------------------------------------------------------------------
(***************************************************************************)
(* What a Reconcile computes.                                              *)
(***************************************************************************)
isTerminalInvestigationPhase(p) == p \in TerminalPhases

\* Fault: any finished status is left alone, whatever generation it is of.
SkipAnyTerminal(r) == isTerminalInvestigationPhase(r.status.phase)

\* Finished for this very generation: executed no more.
shouldSkipInvestigationExecution(r) ==
    /\ r.status.observedGeneration = r.generation
    /\ isTerminalInvestigationPhase(r.status.phase)

\* Fault: the annotations win over what status has recorded.
LineageFromAnnotations(existing, annotations) == annotations

\* Lineage recorded in status wins; annotations only seed it.
lineageForReconcile(existing, annotations) ==
    IF existing # NoLineage THEN existing ELSE annotations

\* A lineage that is too deep, or comes from a RiskSignal against the policy or
\* without its UID, is not investigated.
investigationLoopFailure(s, l) ==
    /\ l # NoLineage
    /\ \/ l.depth >= (IF s.maxDepth <= 0 THEN defaultMaxInvestigationDepth
                                         ELSE s.maxDepth)
       \/ l.kind = "RiskSignal" /\ ~ (s.allowRiskSignalSource /\ l.uid)

Condition(v, r) == [status |-> v, generation |-> r.generation]

\* The three conditions a consumer of the verdict reads.
SetConditions(r, ready, verified, remediation) ==
    [r EXCEPT !.status.RCAReady = Condition(ready, r),
              !.status.Verified = Condition(verified, r),
              !.status.RemediationReady = Condition(remediation, r)]

\* Fault: a new execution starts from the last one's result.
ResetKeepsOutcome(r) ==
    [r EXCEPT !.status.phase = "Collecting",
              !.status.observedGeneration = r.generation,
              !.status.execution = NoExecution,
              !.status.lineage = lineageForReconcile(@, r.annotations),
              !.status.linked = FALSE]

\* The status every execution starts from, in memory only.  Conditions stay.
ResetStatus(r) ==
    [r EXCEPT !.status.phase = "Collecting",
              !.status.observedGeneration = r.generation,
              !.status.completedAt = Never,
              !.status.outcome = Unset,
              !.status.failure = "None",
              !.status.execution = NoExecution,
              !.status.lineage = lineageForReconcile(@, r.annotations),
              !.status.linked = FALSE]

\* Fault: phase and outcome are swapped.
FinishedSwapped(r, phase, outcome, t) ==
    [r EXCEPT !.status.phase = outcome, !.status.outcome = phase,
              !.status.completedAt = t]

Finished(r, phase, outcome, t) ==
    [r EXCEPT !.status.phase = phase, !.status.outcome = outcome,
              !.status.completedAt = t]

\* A request that may not run: blocked lineage, invalid spec, failed preflight.
applyNotRunnableStatus(r, cause, t) ==
    [SetConditions(Finished(r, "Failed", "Unknown", t), "False", "Unknown", "False")
        EXCEPT !.status.failure = cause]

\* Evidence collection or reasoning failed.  Verified is not written here.
applyIssueStatus(r, cause, e, t) ==
    [Finished(r, "Failed", "Unknown", t) EXCEPT
        !.status.failure = cause,
        !.status.execution = e,
        !.status.RCAReady = Condition("False", r),
        !.status.RemediationReady = Condition("False", r)]

applyEvidenceRequirementInconclusiveStatus(r, t) ==
    SetConditions(Finished(r, "Completed", "Inconclusive", t), "False", "Unknown", "False")

applyEvidenceRequirementNoIssueFoundStatus(r, t) ==
    SetConditions(Finished(r, "Completed", "NoIssueFound", t), "True", "True", "False")

\* The root-cause claims: the provider's causes and the profile's own.  The
\* risk summary and the scheduling mechanism are claims, but no causes.
rootCauseClaims(s, o, answer) == answer \cup (IF s.profile THEN o.mechanism ELSE {})

evaluateCanonicalVerdict(s, o, answer) ==
    LET causal == rootCauseClaims(s, o, answer)
    IN IF causal \cap o.supports # {} /\ causal \cap o.contradicts = {}
       THEN "Confirmed" ELSE "Inconclusive"

applyStructuredRCAStatus(r, id, answer, t) ==
    LET outcome == evaluateCanonicalVerdict(r.spec, id.digest.seen, answer)
        v == IF outcome = "Confirmed" THEN "True" ELSE "False"
    IN [SetConditions(Finished(r, "Completed", outcome, t), v, v, v) EXCEPT
            !.status.execution = [state |-> "Finalized", id |-> id, answer |-> answer]]

\* The digest is taken over the evidence references, which carry the time of
\* collection and the queried time range; without records there are none.
evidenceBundleDigest(o, t) ==
    [gathered |-> TRUE, seen |-> o, at |-> IF o.records THEN t ELSE Never]

investigationExecutionID(r, bundle, p) ==
    [generation |-> r.generation, digest |-> bundle, provider |-> p]

\* Fault: whatever result is persisted is taken.
ReuseAnyResult(e, id) == e.state \in {"ProviderCompleted", "Finalized"}

reusableProviderResult(e, id) ==
    e.id = id /\ e.state \in {"ProviderCompleted", "Finalized"}

\* completedAt is set with every terminal phase, so the other bases of
\* investigationExpiryTime are never used.
investigationExpiryTime(r) == r.status.completedAt + TTLSeconds

-----------------------------------------------------------------------------
(***************************************************************************)
(* Reconcile by replica w, call by call.                                   *)
(***************************************************************************)
At(w, p) == worker[w].pc = p

Hold(w, pc, r, id, answer) ==
    worker' = [worker EXCEPT
                 ![w] = [@ EXCEPT !.pc = pc, !.obj = r, !.id = id, !.answer = answer,
                                  !.original = IF pc = "reason"
                                               THEN cache[w].status.execution
                                               ELSE NoExecution]]

Return(w) == worker' = [worker EXCEPT ![w] = Idle(NoRequest)]

\* The request is taken off the workqueue.  Only a change the informer delivers
\* or an error returned puts it back: a conflict that is swallowed does not.
Take(w) == At(w, "idle") /\ queue[w] /\ queue' = [queue EXCEPT ![w] = FALSE]

Requeue(w) == queue' = [queue EXCEPT ![w] = TRUE]

\* Get finds the object, not finished for its generation.
Reads(w) ==
    /\ Take(w) /\ cache[w].exists
    /\ ~ shouldSkipInvestigationExecution(cache[w])

\* handleTTL: the finished request is past its time.  Before, it only requeues.
ReconcileExpired(w) ==
    /\ Take(w) /\ cache[w].exists
    /\ shouldSkipInvestigationExecution(cache[w])
    /\ TTLSeconds > 0
    /\ now >= investigationExpiryTime(cache[w])
    /\ worker' = [worker EXCEPT ![w].pc = "delete"]
    /\ UNCHANGED <<request, cache, worldVars>>

\* Loop prevention and validation precede every lookup.
ReconcileNotRunnable(w) ==
    /\ Reads(w)
    /\ LET r == ResetStatus(cache[w])
           blocked == investigationLoopFailure(r.spec, r.status.lineage)
       IN /\ blocked \/ ~ r.spec.valid
          /\ Hold(w, "update",
                  applyNotRunnableStatus(r, IF blocked THEN "Loop" ELSE "Invalid", now),
                  NoExecution.id, {})
    /\ UNCHANGED <<request, cache, worldVars>>

Runnable(w) ==
    /\ Reads(w)
    /\ LET r == ResetStatus(cache[w])
       IN r.spec.valid /\ ~ investigationLoopFailure(r.spec, r.status.lineage)

\* Target, datasources, query types or provider do not resolve, or a query of
\* CollectEvidence fails: FirstIssue and evidence.Issue.
ReconcileIssue(w) ==
    /\ Runnable(w)
    /\ failures < MaxFailures
    /\ failures' = failures + 1
    /\ LET r == ResetStatus(cache[w])
       IN \E x \in {applyNotRunnableStatus(r, "Preflight", now),
                    applyIssueStatus(r, "Evidence", NoExecution, now)} :
             Hold(w, "update", x, NoExecution.id, {})
    /\ UNCHANGED <<request, cache, signal, evidence, provider, calls, touches, now>>

\* evaluateEvidenceRequirements: a spec without a profile has no gate.
evaluateEvidenceRequirements(s, o) ==
    IF ~ s.profile THEN "open"
    ELSE IF ~ o.complete THEN "incomplete"
    ELSE IF o.normal THEN "noIssue" ELSE "open"

\* Fault: a verdict reached from a checkpoint is not projected.
ProjectedOnlyWhenAsked(w, r, id, answer) ==
    LET x == applyStructuredRCAStatus(r, id, answer, now)
    IN Hold(w, IF /\ r.spec.createRiskSignal /\ x.status.outcome = "Confirmed"
                  /\ At(w, "checkpoint")
               THEN "promote" ELSE "update", x, id, answer)

\* applyInvestigationExecutionStatus after an answer, then the projection when
\* the verdict is confirmed and the spec asks for it.
Concluded(w, r, id, answer) ==
    LET x == applyStructuredRCAStatus(r, id, answer, now)
    IN Hold(w, IF r.spec.createRiskSignal /\ x.status.outcome = "Confirmed"
               THEN "promote" ELSE "update", x, id, answer)

\* Evidence is collected; the gate may settle the matter; otherwise a result
\* persisted under this identity is reused, or the provider is to be asked.
ReconcileEvidence(w) ==
    /\ Runnable(w)
    /\ LET r == ResetStatus(cache[w])
           gate == evaluateEvidenceRequirements(r.spec, evidence)
           bundle == evidenceBundleDigest(evidence, now)
           id == investigationExecutionID(r, bundle, provider)
           held == cache[w].status.execution
           Write(x) == Hold(w, "update", x, NoExecution.id, {})
       IN \/ /\ gate = "incomplete"
             /\ Write(applyEvidenceRequirementInconclusiveStatus(r, now))
          \/ /\ gate = "noIssue"
             /\ Write(applyEvidenceRequirementNoIssueFoundStatus(r, now))
          \/ /\ gate = "open" /\ reusableProviderResult(held, id)
             /\ Concluded(w, r, id, held.answer)
          \/ /\ gate = "open" /\ ~ reusableProviderResult(held, id)
             /\ Hold(w, "reason", r, id, {})
    /\ UNCHANGED <<request, cache, worldVars>>

\* generateRCA: the provider answers, is asked in vain, or is not asked because
\* its data policy forbids the evidence.  An AnalyzeError is an issue, any other
\* error ends this Reconcile.
GenerateRCA(w) ==
    /\ At(w, "reason")
    /\ LET wk == worker[w]
           Rejected == [state |-> "Rejected", id |-> wk.id, answer |-> {}]
           Issue == \E e \in {NoExecution, Rejected} :
                       Hold(w, "update", applyIssueStatus(wk.obj, "RCA", e, now), wk.id, {})
       IN \/ /\ \E answer \in Answers :
                   /\ calls' = calls \cup {[id |-> wk.id, answer |-> answer]}
                   /\ Hold(w, "checkpoint", wk.obj, wk.id, answer)
             /\ UNCHANGED <<failures, queue>>
          \/ /\ failures < MaxFailures
             /\ failures' = failures + 1
             /\ UNCHANGED calls
             /\ \/ Issue /\ UNCHANGED queue
                \/ Return(w) /\ Requeue(w)
    /\ UNCHANGED <<request, cache, signal, evidence, provider, touches, now>>

\* persistProviderCompletedCheckpoint: written, or refused.  A conflict is only
\* counted, and the Reconcile goes on with the version it had; a request that is
\* gone is an error.
Checkpoint(w) ==
    /\ At(w, "checkpoint")
    /\ LET wk == worker[w]
           r == wk.obj
       IN \/ /\ request.exists /\ r.resourceVersion = request.resourceVersion
             /\ request' = [r EXCEPT !.resourceVersion = @ + 1,
                                     !.status.phase = "Reasoning",
                                     !.status.execution = [state |-> "ProviderCompleted",
                                                           id |-> wk.id, answer |-> wk.answer]]
             /\ Concluded(w, [r EXCEPT !.resourceVersion = @ + 1], wk.id, wk.answer)
             /\ UNCHANGED queue
          \/ /\ r.resourceVersion # request.resourceVersion
             /\ IF request.exists
                THEN Concluded(w, r, wk.id, wk.answer) /\ UNCHANGED queue
                ELSE Return(w) /\ Requeue(w)
             /\ UNCHANGED request
    /\ UNCHANGED <<cache, worldVars>>

\* promoteToRiskSignal, CreateOrUpdate: the signal is created, or its evidence
\* is brought up to date.
Promote(w) ==
    /\ At(w, "promote")
    /\ signal' = [signal EXCEPT !.created = TRUE, !.resourceVersion = @ + 1,
                                !.generation = worker[w].obj.generation]
    /\ worker' = [worker EXCEPT ![w].pc = "project",
                                ![w].signalVersion = signal.resourceVersion + 1]
    /\ UNCHANGED <<request, cache, queue, evidence, provider, calls, touches, failures, now>>

\* ... and its status.  A conflict is only counted: the request links to the
\* signal either way.
Project(w) ==
    /\ At(w, "project")
    /\ IF worker[w].signalVersion = signal.resourceVersion
       THEN signal' = [signal EXCEPT !.resourceVersion = @ + 1, !.phase = "Confirmed",
                                     !.RCAReady = TRUE]
       ELSE UNCHANGED signal
    /\ worker' = [worker EXCEPT ![w].pc = "update", ![w].obj.status.linked = TRUE,
                                ![w].signalVersion = 0]
    /\ UNCHANGED <<request, cache, queue, evidence, provider, calls, touches, failures, now>>

\* Fault: the last write wins.
LastWriteWins(w) ==
    /\ At(w, "update")
    /\ request.exists
    /\ request' = [request EXCEPT !.resourceVersion = @ + 1,
                                  !.status = worker[w].obj.status]
    /\ Return(w)
    /\ UNCHANGED <<cache, queue, worldVars>>

\* persistStatusAndRecordQuality: the final status write.
StatusUpdate(w) ==
    /\ At(w, "update")
    /\ request.exists
    /\ worker[w].obj.resourceVersion = request.resourceVersion
    /\ request' = [worker[w].obj EXCEPT !.resourceVersion = @ + 1]
    /\ Return(w)
    /\ UNCHANGED <<cache, queue, worldVars>>

\* A conflict is swallowed, a request that is gone is an error.
StatusConflict(w) ==
    /\ At(w, "update")
    /\ worker[w].obj.resourceVersion # request.resourceVersion
    /\ Return(w)
    /\ IF request.exists THEN UNCHANGED queue ELSE Requeue(w)
    /\ UNCHANGED <<request, cache, worldVars>>

\* r.Delete: whatever version the server holds.
Delete(w) ==
    /\ At(w, "delete")
    /\ request' = IF request.exists
                  THEN [request EXCEPT !.exists = FALSE, !.resourceVersion = @ + 1]
                  ELSE request
    /\ Return(w)
    /\ UNCHANGED <<cache, queue, worldVars>>

\* The process dies, or a call returns an error that ends this Reconcile.
Fail(w) ==
    /\ ~ At(w, "idle")
    /\ failures < MaxFailures
    /\ failures' = failures + 1
    /\ Return(w) /\ Requeue(w)
    /\ UNCHANGED <<request, cache, signal, evidence, provider, calls, touches, now>>

-----------------------------------------------------------------------------
(***************************************************************************)
(* The environment.                                                        *)
(***************************************************************************)
CacheSync(w) ==
    /\ cache[w] # request
    /\ cache' = [cache EXCEPT ![w] = request]
    /\ Requeue(w)
    /\ UNCHANGED <<request, worker, worldVars>>

\* A user edits the spec: the server counts a generation.
EditSpec(s) ==
    /\ request.exists /\ request.spec # s
    /\ request.generation < MaxGeneration
    /\ request' = [request EXCEPT !.spec = s, !.generation = @ + 1,
                                  !.resourceVersion = @ + 1]
    /\ UNCHANGED <<cache, queue, worker, worldVars>>

\* ... or the metadata, which counts a version only.
EditAnnotations(l) ==
    /\ request.exists
    /\ touches < MaxTouches
    /\ touches' = touches + 1
    /\ request' = [request EXCEPT !.annotations = l, !.resourceVersion = @ + 1]
    /\ UNCHANGED <<cache, queue, worker, signal, evidence, provider, calls, failures, now>>

\* The datasources come to hold something else.
EvidenceChanges(o) ==
    /\ evidence # o
    /\ now < MaxTime
    /\ now' = now + 1
    /\ evidence' = o
    /\ UNCHANGED <<request, cache, queue, worker, signal, provider, calls, touches, failures>>

\* The ModelProvider is edited.
EditProvider ==
    /\ touches < MaxTouches
    /\ touches' = touches + 1
    /\ provider' = provider + 1
    /\ UNCHANGED <<request, cache, queue, worker, signal, evidence, calls, failures, now>>

\* The notification controller annotates the signal and sets phase Notified;
\* RiskSignalReconciler's phase ReadyForApproval has the same effect here.
SignalWritten ==
    /\ signal.created /\ signal.phase # "Other"
    /\ touches < MaxTouches
    /\ touches' = touches + 1
    /\ signal' = [signal EXCEPT !.phase = "Other", !.resourceVersion = @ + 1]
    /\ UNCHANGED <<request, cache, queue, worker, evidence, provider, calls, failures, now>>

Tick ==
    /\ now < MaxTime
    /\ now' = now + 1
    /\ UNCHANGED <<request, cache, queue, worker, signal, evidence, provider, calls, touches, failures>>

-----------------------------------------------------------------------------
Reconcile(w) ==
    \/ ReconcileExpired(w) \/ ReconcileNotRunnable(w) \/ ReconcileEvidence(w)
    \/ GenerateRCA(w) \/ Checkpoint(w) \/ Promote(w) \/ Project(w)
    \/ StatusUpdate(w) \/ StatusConflict(w) \/ Delete(w)

Environment ==
    \/ \E s \in Specs : EditSpec(s)
    \/ \E l \in Annotations : EditAnnotations(l)
    \/ \E o \in Observations : EvidenceChanges(o)
    \/ EditProvider \/ SignalWritten \/ Tick

Next ==
    \/ \E w \in Workers : Reconcile(w) \/ ReconcileIssue(w) \/ CacheSync(w)
                             \/ Fail(w)
    \/ Environment

Spec == Init /\ [][Next]_vars

\* controller-runtime runs a Reconcile again after an error and after every
\* change it sees; the informer delivers every change; the clock advances.
Fairness ==
    /\ \A w \in Workers : WF_vars(Reconcile(w)) /\ WF_vars(CacheSync(w))
    /\ WF_vars(Tick)

FairSpec == Spec /\ Fairness

-----------------------------------------------------------------------------
(***************************************************************************)
(* Safety.                                                                 *)
(***************************************************************************)
\* A confirmed outcome rests on an answer the provider really gave for this
\* generation, this provider and this evidence, and that evidence supports one
\* of its causes and contradicts none: whatever was crashed, conflicted, edited
\* or reused from a checkpoint in between (Reconcile, reusableProviderResult).
VerdictRestsOnEvidence ==
    LET e == request.status.execution
        causes == e.answer \cup e.id.digest.seen.mechanism
    IN request.status.outcome = "Confirmed" =>
        /\ e.state = "Finalized"
        /\ e.id.generation = request.status.observedGeneration
        /\ causes \cap e.id.digest.seen.supports # {}
        /\ e.answer \cap e.id.digest.seen.contradicts = {}
        /\ [id |-> e.id, answer |-> e.answer] \in calls

\* The status at the server is one of the legal combinations of phase, outcome
\* and failure; a checkpoint carries nothing of the generation before it; and
\* of the generation observed RemediationReady is True exactly when the outcome
\* is confirmed (the resets at the start of Reconcile and the apply functions).
LegalStatus ==
    LET s == request.status
    IN /\ s.phase = "Completed" =>
            s.outcome \in Outcomes \ {"Unknown"} /\ s.failure = "None"
       /\ s.phase = "Failed" => s.outcome = "Unknown" /\ s.failure # "None"
       /\ s.phase \notin TerminalPhases =>
            s.outcome = Unset /\ s.failure = "None" /\ ~ s.linked
       /\ (s.completedAt # Never) = (s.phase \in TerminalPhases)
       /\ s.RCAReady.status = "False" => s.RemediationReady.status = "False"
       /\ (s.outcome = "Confirmed") =
            (s.RemediationReady = [status |-> "True", generation |-> s.observedGeneration]
              /\ s.phase # Unset)

\* A confirmed investigation that asks for a RiskSignal links to one that was
\* created and carries the evidence of a verdict on this generation: promoteToRiskSignal
\* runs before the status that names it is written, so it may be repeated, from
\* a stale copy too, but it is never missing.
ConfirmedIsLinked ==
    LET s == request.status
    IN (/\ s.outcome = "Confirmed"
        /\ request.spec.createRiskSignal
        /\ s.observedGeneration = request.generation)
       => s.linked /\ signal.created /\ signal.generation = request.generation

\* What is finished for a generation is never rewritten before the spec changes,
\* although a replica may run it again from a stale copy
\* (shouldSkipInvestigationExecution and the version check of the write).
FinishedIsStable ==
    [][(/\ request.exists /\ request'.exists
        /\ request.status.phase \in TerminalPhases
        /\ request.status.observedGeneration = request.generation
        /\ request'.generation = request.generation)
       => request'.status = request.status]_vars

\* A step in which w has the provider's answer.
Asked(w) == At(w, "reason") /\ worker'[w].pc = "checkpoint"

\* A lineage that loop prevention has recorded and blocks keeps the provider
\* from being asked, even when its annotations are edited away afterwards
\* (lineageForReconcile, investigationLoopFailure).
BlockedIsNeverAsked ==
    [][\A w \in Workers :
         (Asked(w) /\ request.status.lineage # NoLineage
          /\ request.generation = worker[w].obj.generation)
         => ~ investigationLoopFailure(request.spec, request.status.lineage)]_vars

\* Every generation that is not edited away is investigated to an end, however
\* many writes conflict: a swallowed conflict relies on the change that caused
\* it being delivered (persistStatusAndRecordQuality).
InvestigationFinishes ==
    \A g \in 1 .. MaxGeneration :
        (request.exists /\ request.generation = g)
        ~> \/ ~ request.exists \/ request.generation > g
           \/ /\ request.status.phase \in TerminalPhases
              /\ request.status.observedGeneration = g

\* A provider result that a Reconcile has read back as persisted is not asked
\* for again while the generation, the provider and what the datasources say
\* are the same.
PersistedResultIsReused ==
    [][\A w \in Workers :
         LET held == worker[w].original
             id == worker[w].id
         IN Asked(w) => ~ /\ held.state \in {"ProviderCompleted", "Finalized"}
                          /\ held.id.generation = id.generation
                          /\ held.id.provider = id.provider
                          /\ held.id.digest.seen = id.digest.seen]_vars

=============================================================================
