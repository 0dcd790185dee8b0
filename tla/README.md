# FluxSeer RCA: TLA+ models of the control loops

FluxSeer RCA is a Kubernetes operator. It evaluates risk rules against data
sources, investigates findings with the help of a model provider, and, where it
is enabled, turns a risk signal into a remediation plan, the plan into an
action that a policy or a human approves, and the action into a change of the
cluster. This directory holds TLA+ specifications of that program, the TLC
configurations that check them and proofs that TLAPS checks.

    tlc -workers 2 -config MCDispatch.cfg MCAgentAction     # a run
    tlapm DispatchProofs.tla                                # the proofs

`PROJECT.json` lists components, runs, mutants, the map from definitions to
source lines, findings, hazards and theorems. Paths below are relative to the
repository; `internal/controllers` is where the controllers live.

## 1. Inventory

All state is in Kubernetes objects. A controller keeps nothing between two
calls of its `Reconcile`, which reads objects from an informer cache, may call a
backend, and writes spec or status back under optimistic concurrency. What
makes the system hard is what lies between those calls: another controller or
replica, a stale cache, a refused write, a lost answer, a restart.

| Component | State | Operations | Interacts with | Correct when |
|---|---|---|---|---|
| AgentAction controller (`agentaction_controller.go`, `effectiveness.go`) | `AgentAction.status`: phase, approval record, execution record, notification attempts, effectiveness | approve, dispatch, recover, escalate, verify, expire | executors, notifier, verification InvestigationRequest, plan controller (writes the same object), reviewers | a decision is dispatched at most once, with authority; outcomes are recorded as they were; finished is final; nothing waits for ever |
| Executors (`internal/executor`) | an annotation on the target's pod template | Execute, Resolve, CaptureBaseline, ObserveHealth | Deployments, webhooks | the identity is looked up before a mutation; an uncertain outcome is not reported as a certain one |
| RemediationPlan controller (`remediationplan_controller.go`) | `RemediationPlan.status.phase`, `finishedAt` | threshold, defaults, policy decision, the action's spec and status | policy engine, thresholds, AgentAction controller | a plan is decided, once, and its action first |
| RemediationPlan TTL controller (`remediationplan_ttl_controller.go`) | `finishedAt` | stamp, delete | garbage collector | no live action disappears with its plan |
| Policy engine, guardrails (`internal/guardrails`) | none | Evaluate | ApprovalPolicy objects | the most specific policy decides, whatever the order of the list; no rule means no automatic approval |
| Thresholds (`internal/thresholds`), escalation (`internal/escalation`) | none | Resolve, Evaluate | their custom resources | selection is deterministic; limits hold although counts are read from a cache |
| RiskSignal controller and notification controller | `RiskSignal.status`, annotations | create the plan, notify, expire | plan controller, notifier, the writers of signals | a signal is planned, announced and expires; a successor of the same name is not mistaken for its predecessor |
| InvestigationRequest controller (`investigationrequest_controller.go`) | phase, checkpoints, evidence, conclusion | preflight, collect, call the provider, promote, expire | investigation service, RiskSignal | a checkpoint is reused only for the same input; a verdict rests on what it names; a request finishes |
| Investigation service (`internal/investigation`) | none beyond a call | plan queries, collect them concurrently, limit, filter and normalise, diagnose, reason | datasource registry and adapters, diagnostics, gateway | budgets hold; the result does not depend on scheduling; what is cut is marked |
| Evidence profiles and verifier (`investigationrequest_controller.go`, `internal/verifier`) | none | completeness, no issue, claims, verification | evidence | no verdict without evidence for it |
| DataSource controller, registry, adapters (`internal/datasource`, `datasourceconfig`, `querypolicy`) | the registry | register, probe, query, collect scheduling evidence | Prometheus, Loki, Kubernetes | a policy and a limit apply to every query |
| RiskRule controller, rules (`internal/rule`) | `RiskRule.status`, findings | discover and evaluate targets, upsert signals and requests | data sources | one request per incident |
| Model gateway and providers (`internal/modelgateway`, `internal/model`) | none | analyze with fallback and retries | providers | every provider at most once and under its own data policy; the chain ends |
| Legacy Deployment controller, operator wiring, CLI, harnesses | see `PROJECT.json` | | | |

Behaviours that tests hardly reach, with the line where each bites and the
property that watches it, are the `hazards` of `PROJECT.json`.

## 2. Modules

| Module | Content |
|---|---|
| `AgentAction` | one AgentAction, the replicas that reconcile it, executors, target, users; the plan as an environment that writes spec and decisions at any time |
| `RemediationPipeline` | extends it with the plan, its two controllers and changing policies; shown to implement `AgentAction!Spec` |
| `InvestigationRequest` | one InvestigationRequest, the replicas that reconcile it, evidence, provider, the RiskSignal it is projected to |
| `RuleEvaluation` | a RiskRule: targets, evaluation, identity of findings, requests and direct signals |
| `RiskSignal` | one RiskSignal and its successors of the same name: its three possible writers, its two controllers, TTL, plan and garbage collection |
| `Guardrails` | ApprovalPolicy, NamespaceThreshold and EscalationChain: selection and decision as functions of the lists |
| `Admission` | several plans of one namespace, counted through a cache and admitted or rejected |
| `EvidencePlan` | DataSource controller and registry, validation of a request, its collection plan, query policies and budgets |
| `CollectionSpec` | what the collection of queries promises its caller |
| `Collection` | the workers, the channel and the context that implement it |
| `Evidence` | one query: retries, adapters, limits, filters, observations, retention |
| `EvidenceProfile` | extends it: completeness, no issue, claims and their verification, status budget |
| `Scheduling` | scope of a target, collection of scheduling evidence pod by pod under one budget |
| `Diagnosis` | extends it: the three diagnostics, accounting of their candidates, verification |
| `ModelGateway` | data policy, fallback chain, retries, trace |
| `MCAgentAction`, `MCPipeline`, `MCInvestigation` | constants for TLC: replicas, contents and their backends, policy results; observations, specs, answers |
| `MCDetection` | constants for the modules from `RuleEvaluation` to `ModelGateway`, and their composition |
| `Filtering` | the loops that go through a list and keep some of it |
| `DispatchProofs` | type correctness of `AgentAction`; the dispatch invariant and its two consequences |
| `LifecycleProofs` | outcomes, escalation, notices, and how an action ends |
| `PipelineProofs` | `RemediationPipeline` implements `AgentAction`; the plan follows its action; no live action is deleted |
| `InvestigationProofs` | types, verdicts, status and finality of investigations; projection and blocked lineages for one replica |
| `ListProofs` | induction and the loops over lists, for the three modules that follow |
| `RiskProofs` | one request per incident, annotations of announced signals, decisions that ignore list order, the limit of active plans |
| `CollectionProofs` | query budgets, the concurrent collection, grounded scheduling claims |
| `EvidenceProofs` | cut evidence is marked, `NoIssueFound` can be trusted, every provider is sent only what its own policy admits |

### How `AgentAction` corresponds to the code

*State.* `action` is the object in the API server, with a `resourceVersion`,
and `cache[w]` the copy in replica `w`'s informer. `worker[w]` is the
`Reconcile` in progress: which API call comes next, the object in memory and
the `ExecutorRequest`. `calls` and `effects` are history: requests passed to a
backend's `Execute`, and side effects that happened. `decisions` is the history
of decisions the plan controller wrote; `approval.decidedAt` is the index of
the decision a record stems from (the code has a time stamp there).

*Steps.* Every API call is a step of its own. `ReconcileApproved`,
`ReconcileInFlight`, `ReconcilePending`, `ReconcileApprovalTimeout`,
`ReconcileTerminal`, `ReconcileVerification` and `ReconcileVerificationResult`
are the branches of `Reconcile` from the cached read to the first write (the
capture of the baseline and the health readback, which do not change state, are
part of them). `StatusUpdate` and `StatusConflict` are the two answers to
`r.Status().Update`; every call of it in the controller behaves alike, and what
is written was computed by the preceding step. `Execute` and `Patch` are the
executor's read-and-check and its patch, `ReadBack` the read of the action after
`Execute`, `Notify` the notifier, `Delete` the TTL's delete. `Crash` is a
restart of the process at any point in between, or a call that fails before it
is sent: both lose what was in memory.

*Data.* The spec without `approvedBy` is one value, its content, since that is
what `agentActionSpecDigest` hashes; equal digests are taken to mean equal
contents. `BuildExecutionIdentity` hashes UID, generation, target and digest, so
for one object an identity is a pair of generation and content. Which executor a
content routes to is the constant `Backend`. A Kubernetes executor without a
client simulates, and counts as `"simulated"`, as do GitOps and runbook. The
health comparison is four bits, the ones `evaluateEffectiveness` tells apart.

*Abstractions a reader should know.*

- A cache is one lagging copy that jumps to the newest version. It may skip
  versions, as informers do; it never goes back.
- Deployments are read from the server: the executor's client is built for it
  (`operatorapp/run.go`), and a stale read would only add refusals.
- `approvalTimeoutSeconds` and `ttlSeconds` are constants. They are part of the
  content in the code, so an edit of them is an edit of the content, which
  the model has.
- One life of the object is modelled: after deletion it is not created again.
- `request.approvedBy` is the approver the approval record names. The
  `ExecutorRequest` of the code carries the record's approver as it was before
  a manual confirmation.
- Events, metrics and messages are left out.

### How `RemediationPipeline` corresponds to the code

`planner[w]` is `RemediationPlanReconciler.Reconcile` between two writes:
`ReadPlan` (the phase guard, the threshold), `PersistDefaults`,
`CreateOrUpdateAction`, `RecordDecision`, `RecordPlan`, and `RejectForThreshold`.
`cleaner[w]` is `RemediationPlanTTLReconciler`: `ReadFinished`,
`StampFinished`, `DeletePlan`. Plan and action have separate informers, so
one may be fresh while the other is stale. `policy` is what the policy
engine would decide at present, any element of `PolicyResults`, and
`ChangePolicy` replaces it; the dry-run result it computes is part of the
action's content, hence a content per decision. Whether the namespace is over
its threshold depends on other plans and is a free choice. Nobody but the plan
creates the plan's action.

### How `InvestigationRequest` corresponds to the code

*State.* `request`, `cache` and `worker` are as in `AgentAction`. `queue` says
whether the workqueue holds the request: an event or an error puts it there, a
`Reconcile` takes it off, and a conflict that is swallowed puts nothing back.
`calls` is the history of the provider's answers.

*Steps.* `ReconcileExpired` is `handleTTL`, `ReconcileNotRunnable` loop
prevention and validation, `ReconcileIssue` a failed preflight or query,
`ReconcileEvidence` the way from preflight through the evidence gate to reuse or
to the call of the provider. `GenerateRCA` is that call, `Checkpoint`
`persistProviderCompletedCheckpoint`, `Promote` and `Project` the two writes of
`promoteToRiskSignal`, `StatusUpdate` and `StatusConflict` the answers to the
final write, `Delete` the TTL's delete. `Fail` is a crash or an error between
any two of them.

*Data.* An observation says what the profile and the verifier make of the data:
records or none, complete, normal, and which claims it supports or contradicts.
The execution identity is generation, provider generation and evidence digest;
the digest contains the time of collection where there are records, as
`evidenceRefsFromObservations` puts it there. Spec validation is one bit. Of
the conditions the three are kept that speak of the verdict. The status size
budget, metrics, summaries and confidence are left out.

*Abstractions a reader should know.* `ttlSeconds` is a constant. The request is
deleted by its TTL only, not by users. A failed call to the provider and one
that its data policy forbids look alike. The update of a RiskSignal in
`CreateOrUpdate` succeeds or is a `Fail`; deletion of the signal by its own TTL
belongs to `RiskSignal`.

### How the modules of detection and diagnosis correspond to the code

`RiskSignal`. One informer cache and one process; `fresh` says whose copy is the
current version, which is all that optimistic concurrency looks at, and `queued`
what the work queues hold. `UpsertRiskSignal`, `ReportDeployment` and
`PromoteToRiskSignal` are the three writers, each a `CreateOrUpdate` followed by
a status write. `ReconcileSignal`, `MaterializePlan` and `RecordPlan` are
`RiskSignalReconciler.Reconcile` from read to status, `Notify`, `Annotate` and
`RecordNotice` the notification controller. The plan is known only by its owner:
`SetControllerReference` compares names, so a successor adopts an orphan.

`RuleEvaluation`. A pass (`pass`) discovers targets by kind, label and owner,
evaluates them one after the other and upserts what it found; an error ends it.
`FindingIdentity` and the names made from it are kept as the values the digests
are taken of. Rule, targets, events, the metric, the datasource and the time
bucket change between any two targets of a pass. An Event's digest
(`EvidenceDigest`) is of its identity and message, so an Event whose message is
edited is another finding; its first timestamp does not change and is left out.
Queries are rendered before they are validated and sent (`RenderFails`).

`Guardrails` is functions: selectors, specificity, priority and name order, the
severity and action type rules, the built-in guardrails. Its one action,
`Relist`, hands out the same objects in another order. `Admission` has the
counting of `namespaceUsage` and the comparison of `Enforcer.Evaluate` at work
over several plans, with caches of plans and actions that lag separately.
`Admit` counts and writes the action, `RecordDecision` writes the plan's status,
later, and may fail: the plan then stays undecided, with its action, and is counted
anew. The limit is one of plans: the action of a plan whose status write failed
and which is then rejected is not among what it counts. The creation of the
action and its status write, apart in `RemediationPipeline`, are one step here.

`EvidencePlan`. `ReconcileDataSource` and `DataSourceDeleted` change the registry
at any time, `Preflight` validates and plans, `CollectEvidence` sends the plan
and what it adds to it. A query is what the policies look at: the functions and
modifiers it uses, whether it is scoped. `Collection` is
`collectDatasourceQueries`: `Take` and `Answer` are a worker, `Receive` the
collecting loop with its cumulative budgets and the cancellation at the first
issue, `Return` what the caller gets. `CollectionSpec` says the same without
workers, and `Collection` is checked to implement it, under a refinement
mapping that keeps the answers, the budget, the report and whether the caller
gave up.

`Evidence`. A datasource's content is a sequence, an adapter the function from it
to records (`PrometheusRecords`, `LokiRecords`, `EventRecords`, ...), followed by
`ApplyQueryResultLimits`, `FilterQueryResult` and `NormalizeObservations`.
`Attempt`, `Retry` and `EndContext` are the HTTP client. `EvidenceProfile` reads
references as the code does, by the words they contain: whether the profile's
evidence is complete, shows no issue, supports the profile's claim, and whether
`verifier/heuristic.go` agrees; then the status budget cuts.

`Scheduling` and `Diagnosis`. Scope resolution, the read of each pod and each page
of its events are steps of their own; pods are replaced, assigned and deleted in
between. The budget of requests, pages and events is one for all pods. A server
may lack one of the two event APIs (`without`); were both missing, the code would
take the empty list for complete. Copies of an event, and events that say the
same at the same time, are dropped (`Deduplicated`); which of the latter stays
depends on their UIDs and is left open.
`EvaluateDiagnostics`, `ReconcileCandidates` and `VerifyCandidates` are the
diagnostics, the accounting of their candidates and the verification of what
the accounting lets through.

`ModelGateway`. `GenerateRCA` is the check of the first provider before the
gateway is asked, `InputForProvider` the policy of each provider in turn, for the
pieces of evidence and for the diagnostic advisories drawn from them, which stay as
long as one of their pieces does (`FilterAdvisories`), `ConfigureProvider` and `RequestProvider` the call with its retries,
`ResolveFallback` the next provider. Providers are edited meanwhile.

## 3. Runs

All runs use `CHECK_DEADLOCK FALSE`: a finished or waiting object with nothing
to do is a normal end of behaviour; what must happen is stated as liveness.

| Run | Instance | What it shows |
|---|---|---|
| `dispatch` | two replicas (interchangeable), a webhook, two decisions, one edit or approval, one crash, no clock | at most one dispatch per decision, dispatch with authority; the inductive invariant of the proof |
| `lifecycle` | one replica, one decision, a restart, one crash, the target may be replaced, clock to 2 | success only with an effect, finished is final, verdicts are sound, deletion only after the TTL; execution in doubt is resolved, verification and expiry complete |
| `approval` | one replica, webhook, notifier, two attempts, one edit or approval, one crash, the plan may be deleted, clock to 2 | notices are accounted for, escalation only when overdue and unapproved; approvals are acted on and overdue waits escalate |
| `plan` | one replica, any policy result changing at will, thresholds and defaults, two decisions, one edit, one failure | implements `AgentAction`; the action is decided before the plan; every plan is decided |
| `expiry` | one replica, TTL of 1, retain, garbage collection, one failure | a live action is not deleted |
| `investigation` | one replica, two specs (valid with profile and projection; invalid), three observations (none, normal, conflicting), two answers, one spec edit, one write by others (annotations, provider or signal), one failure, clock to 1, TTL 1 | verdicts rest on what they name, status is legal, confirmed is linked, finished is final, a blocked lineage never reaches the provider; every generation finishes |
| `reuse` | one replica, one spec, constant evidence, clock to 1 | refutes `PersistedResultIsReused` |
| `lost_answer` | one replica, one decision | refutes `FailedMeansNoEffect` |
| `reviewer` | an ApprovalPolicy object decides | refutes `ReviewerIsHeard` |
| `redecide` | one replica, webhook | refutes `AtMostOncePerIdentity` |
| `detection` | see below | signals are announced, planned and expire, and annotations stand on announced ones; one request per incident; decisions ignore list order; admitted plans stay within the limit; queries within budget; concurrent collection implements the sequential one; cut evidence is marked; `NoIssueFound` and supported scheduling claims rest on what is there; every provider under its own policy; reasoning ends |
| `probe_verdict` | the profile ProbeFailure, containers with matching and mismatching probes | refutes `SupportedMismatchWasObserved` |

*The run `detection`.* The components it covers do not write each other's state,
so their product would only multiply interleavings that cannot matter.
`MCDetection` therefore lets a behaviour choose one component (`part`) and keeps
the others at rest; its states are the union of the components' states. The
instances: three origins of a signal, one restart or failed notice for the one
that is written once; three rules, two workloads, two pods and three events,
three changes; five lists of policies with ties, a better match, a disabled and
a malformed one; two plans, limits of one; two sources with and without policy
and 72 request specs around the budgets; three queries, two workers or no
limit, slow, large and failing answers; every content of up to three elements
around each limit, for every type of query and a profile for each; eight clusters
with pods that are pending, gated, recurring, replaced or foreign, some without one
of the event APIs; two providers
whose fallbacks form cycles, one edit. Limits that are 5, 10, 20 or 64 in the
code are 2 or 3 here, so that one element more is possible.

*Bounds.* `MaxDecisions` (2 shows what a repeated decision does; a third adds
nothing the second does not), `MaxGeneration` (2: one edit or approval after
creation), `MaxAttempts` (2: one failed and one further notice), `MaxCrashes`
and `MaxFailures` (1), `MaxTime` (2: before, at and after every deadline, which
are 1 or settle at 1). Two replicas are the overlap of a rolling update; any
race here is between two. `MaxTouches` (1) bounds writes of others to
annotations, provider and signal. What the bounds cut off is covered by the proofs
for the safety properties of actions, plans and investigations, the limit of
active plans, the annotations of signals, the providers' data policies, the
requests of a rule, the selection of policies, the query budgets, the collection
by workers, the truncation of evidence, `NoIssueFound` and the scheduling claims:
the theorems hold for every value of the bounds, and for every content of the
datasources. Of the safety properties none is left to TLC alone.

*Scope of the properties.* `DispatchOncePerDecision` and `DispatchAuthorised`
hold with any number of replicas and decisions, and so do
`SucceededMeansEffect`, `EscalatedOnlyWhenOverdue` and `NoticesAccounted`: their
runs have one replica, their theorems any number.
`TerminalStable`, `VerdictSound` and `DeletedOnlyWhenExpired` hold for one
replica and one decision: a second decision restarts a finished action (run
`redecide`), and a second replica's late outcome may overwrite a terminal phase,
because the write after `Execute` is conditional on a version read after it.
`LiveActionKept` is about plans decided once and not rejected, for the
same reason: a threshold rejection of a plan whose action was decided already
lets the plan expire while the action lives. The run of `InvestigationRequest` has
one replica. `VerdictRestsOnEvidence`, `LegalStatus` and `FinishedIsStable` are
proved for any number; `ConfirmedIsLinked` and `BlockedIsNeverAsked` for one,
because they fail with two: a replica with a stale copy projects the signal of an
older generation over that of the present one, and a lineage that one replica
has recorded is unknown to another that asks the provider from an earlier copy.
The manifests run one replica under leader election
(`config/manager/manager.yaml`). `ConfirmedIsLinked` does not say that the
signal shows the very execution the status names: a `Reconcile` from the
checkpoint's copy may promote again before its own status write is refused.
`AdmittedWithinLimit` holds for one replica; two with different caches exceed the
limit. `pendingApprovalsLimit` has no such property: the action that will wait
is not among those counted. `SignalIsPlanned` is about signals that pass the
gate: a projected signal whose status write conflicts with the annotation never
does. A notice may be repeated. `OneRequestPerIncident` is about findings of
events that all fit among the references; the value of a metric is part of a
finding's identity. `NoIssueIsSound` leaves truncated evidence out, since the
code concludes `NoIssueFound` from it. `QueriesWithinBudget` is per source only
for queries spelled out in the spec.
`InDoubtIsResolved` needs the target to
carry the identity: a dispatch that never reached the target, and any backend
without `Resolve`, stays in `Executing` after a crash.

*Fairness.* Weak fairness of `Reconcile`, of the informers, of the clock and of
the finishing of investigations. A change of the object or of an owned object
triggers a `Reconcile` (`SetupWithManager`: `For`, `Owns`), waits use
`RequeueAfter`, an error is retried with backoff, and the informers resync
periodically; a conflict means that the object changed and so comes with an event
of its own. Users, crashes, decisions and policy changes have no fairness.
`PlanIsDecided` allows for the modelled bounds (`BoundReached`).
In `InvestigationRequest` the workqueue is explicit, so that nothing but an
event, an error, an expiry or the first listing starts a `Reconcile`. In
`RiskSignal` likewise: work queues are served, watch events arrive, timers fire,
garbage is collected, and a confirmed request is projected; that risks are
found, signals age or the process restarts is nobody's promise. In `Collection`
goroutines run and clients have timeouts; in `ModelGateway` a call takes its
next step.

*Findings.* Five statements of the documents or comments are refuted by what
the code does; `PROJECT.json` quotes them. They are: a lost answer to a patch is
recorded as failure; a human's approval of what an ApprovalPolicy object
referred to a human is never acted on; a plan that reads its own phase stale
decides and dispatches a finished action again under the same identity; a
persisted provider result is found again only by a `Reconcile` at the very time
it was collected at, because the execution identity contains that time; a probe
that matches its container counts as a confirmed mismatch, because
`mismatchConfirmed=false` contains `mismatchConfirmed`. Further departures met
while modelling, which no run states, are in the notes of the hazards: the name
an automatic decision leaves in `spec.approvedBy` later counts as a human's; a
direct signal's name depends on the order of events; the projected status lost
to a conflict is never repeated. Others are outside the list: the limit of
pending approvals can be exceeded (`thresholds/enforcer.go:144`); `RiskSignalReconciler` overwrites the plan's
`ttlSeconds` and `approvalTimeoutSeconds` on every pass, undoing the defaults of
the threshold (`risksignal_controller.go:68`); `reconcileTargets` stops at the
first target that fails (`riskrule_controller.go:135`); a failed write of a
snapshot leaves the earlier ones (`service.go:454`); the status budget drops
references before the claims that name them (`statusbudget/limits.go:92`); the
Verified condition of an earlier generation stays beside a new failure
(`investigationrequest_controller.go:1480`); failures marked retryable are
never retried (line 2817); the TTL deletes a request by its cached copy and a
spec edit within the cache's lag goes with it (line 2846).

*Mutants.* Every property is broken by a fault of the code, a definition
marked `Fault:` that takes the place of the one it precedes.

## 4. Proofs

The assumptions are the named ones of the modules: `ConstantsAssumption` (types of
the constants of `AgentAction`; at least one content; `NoID` is no identity),
`AdmissionAssumption` (a finite set of plans, natural limits),
`SignalAssumption` (types), `GatewayAssumption` (levels from 0 to 3, evidence
is well formed), `RuleAssumption` (at least one reference per match; a rule's
signals are a list of signals), `RequestsAssumption` (a request's datasources and
queries are lists, its budgets integers, negative ones too), `WorldsAssumption`
(a cluster has a list of pods under each name, and a target that is not a
Deployment is one of them; a pod's events have distinct UIDs; at least one event
API is served), `CollectionAssumption` (a plan has at least one
query; durations and sizes are natural numbers), `GuardrailAssumption` (no list
shows an object twice: namespace and name are unique in a cluster) and
`EvidenceAssumption` (the limits that are constants of the code are positive; what
a datasource answers has the type of its query; limits of a query are any
integers). The theorems hold for all
values of the constants.

- `TypeCorrect`: `Spec => []TypeOK`. A lemma per action or group of actions
  shows that it keeps the types; the operators that build objects (`Started`,
  `recordExecutionSuccess`, `Decided`, ...) have a typing lemma each.
- `DispatchInvariant`: `Spec => []DispatchInv`, and from it `DispatchedOnce`
  (`DispatchOncePerDecision`) and `DispatchedWithAuthority`
  (`DispatchAuthorised`).

`DispatchOncePerDecision` is not inductive: two calls can only be told apart if it
is known that no replica will be able to start under a used record. The
invariant says so in five parts. `CacheCoherent`: a cached copy with the current
version is the current object, so an accepted write was computed from it.
`RecordSound`: in every copy the approval record goes back to a decision about
its digest, and an approved one to authority. `WriteSound`: an accepted write
never takes an object out of `Consumed` (terminal or in flight with an
identity) and never replaces its decision; the write before a dispatch takes an
object into it. `Used(n)` implies that the object is consumed if it still
carries record `n`. `UsesDistinct`: calls made and calls about to be made
rest on distinct decisions. A conflict refuses every write that was not
computed from the current version, which is why nothing need be known of stale
copies.

- `AdmissionSafe`: `AdmissionSpec => []AdmittedWithinLimit`. The limit alone is
  not inductive: a plan admitted but not yet listed would not be counted, nor one
  whose admission is still to be written. `AdmittedIsSeen`: a plan is admitted
  only after the cache has shown it, and whatever the cache shows of it since
  then counts as active. `CountedWithinLimit`: what is admitted and what is about
  to be are together within the limit. `DecidingIsUndecided`: one plan at a time is
  decided, it is undecided until then, and the cache shows it, so that all that
  are admitted after the step were counted before it.
- `AnnotationSound`: `SignalSpec => []AnnotatedWasAnnounced`. The invariant adds the
  types and `AnnotatorKnows`: a notifier about to annotate with a current copy
  has announced the signal that is there. A successor resets `announced` but
  also outdates every copy.
- `PolicyRespected`: `GatewaySpec => []SentUnderOwnPolicy`. The invariant adds
  `OfferedUnderPolicy`: from its preparation to the last retry, what is offered
  was prepared for the current provider as it was read and found in order. That
  the order of the whole bundle is that of every piece is a lemma about
  `EvaluateProviderPolicy`.

`LifecycleProofs` first reduces the branches of `Reconcile` to the writes they
prepare (`Prepared`: which status write, from which copy, and what it makes of
the fields) and the other clients to three kinds of write, so that the
invariants below have one case per kind of write.

- `SuccessIsReal`: `Spec => []SucceededMeansEffect`, any replicas. The phase is
  written from copies, from a backend's answer and from the identity that
  `Resolve` finds on the target, so `EffectInv` says of each of them that the side
  effect has happened. The target is replaced without an identity, and side
  effects are not undone.
- `EscalatedLate`: `Spec => EscalatedOnlyWhenOverdue`, any replicas. `WaitInv`:
  phase and approval record agree in every copy (`PhaseSound`), so what is
  pending and timed out waits unapproved; and a `Reconcile` that still holds
  the current version knows that this version is overdue (`HoldSound`). Time only
  adds to the delay, and any other write makes the copy stale.
- `NoticesCounted`: `Spec => []NoticesAccounted`, any replicas. The count alone is
  not inductive. `NoticeInv`: the attempts whose notice is still to be sent have
  distinct numbers, at most the number recorded, and with the notices sent there
  are no more of them than recorded attempts. It needs from `WaitInv` that an
  accepted write never lowers `retryCount`.
- `FinishedActionStays`, `VerdictHolds`, `DeletedLate`: `TerminalStable`,
  `[]VerdictSound` and `DeletedOnlyWhenExpired` under `OneOfEach`, one replica and at
  most one decision; the last also while the plan is not deleted, which takes the
  action with it. `LifeInv`: a copy that has ended agrees with the object on how
  (`Follows`), so that what a stale read shows of a finished action is still
  true when the Delete without precondition arrives; a `Reconcile` between the
  dispatch and its record faces an unfinished action; what is finished or in
  flight was decided, which leaves no further decision; and in every copy the
  state of the verification is the one that belongs to its execution
  (`HistorySound`). The hypotheses are needed: see the scope of the properties.

`PipelineProofs`: `PipelineInvariant` is `DispatchInv` of the composition, the types,
and `PlannerSound`: a planner that holds a version of the action holds it with the
content it decided about, and a decision it has recorded is in `decisions`. From
it `PipelineImplementsAction` (`PipelineSpec => ImplementsAction`): the initial states
are those of `AgentAction`, every step of the plan controllers is `Generate`,
`Decide`, `CollectGarbage` or a stutter. The hard case is `RecordDecision`: its guard
in `AgentAction` asks for the content of the decision in the object itself, and the
accepted version is the one the planner wrote. `PlanFollows` and
`PipelineDispatchSafe` follow.

- `LiveActionStays`: `PipelineSpec => LiveActionKept` under `OneOfEach`. An action
  disappears by its own Delete, for which `LifeInv` is enough, or with its plan,
  which is deleted after two reads and one write that may all be stale.
  `PlanEndInv`: a plan that is marked as finished or is gone, a cached copy of it
  that is so marked, and a `RemediationPlanTTLReconciler` past its read all mean
  that the action is finished or the plan rejected (`Over`). This is stable: a
  finished action stays (`Follows`, by the refinement), and a rejection is never
  overwritten, because the plan's phase is written only in a version that the
  controller has seen without one (`PlannerKnows`), a cached copy of the
  current version showing the current phase (`CacheKnows`).

`InvestigationProofs`. `InvestigationInvariant` (`InvestigationInv`) says of the object
and of every cached and in-memory copy that its status is legal, that a
confirmed one rests on an answer in `calls` (`Sound`), that a copy in memory was
computed from the version it names and carries nothing of an earlier generation
(`BuiltOn`, `Fresh`), and that a cached copy with the current version is the
current object. From it `InvestigationTypeCorrect`, `VerdictsRest`, `StatusIsLegal` and
`FinishedStays`, for any number of replicas. `ReplicaInv` adds, for one replica
(`OneReplica`), that its cache lacks only what it has written itself: a status it
does not see was computed by it, and nobody promotes for an older generation.
From it `ConfirmedLinked` and `BlockedNotAsked`.

`RiskProofs`, `CollectionProofs`, `EvidenceProofs`. What these modules compute are
loops over lists, written as recursive functions. The induction theorems of the
library take an operator and cannot be used, so `ListProofs` derives its own from
the well-foundedness of `<`: `CountingUp`, a set of numbers that contains 0 and
with each number the next contains them all. For each loop there are three
lemmas: a function with the recursive equation exists for every length (by
`CountingUp`, adding a value at a time); hence the loop's result is the last value
of one; and what holds of the values is shown by `CountingUp` again. `OnlyIn`
takes the elements to keep as a set for the same reason.

- `IncidentHasOneRequest`: `RuleSpec => []OneRequestPerIncident`. The request's name is
  made of digests, the property speaks of events. `RuleInv`: recorded events have
  distinct identities, though one that recurs moves to the end; no two objects
  have the same kind and name, since an upsert replaces; and the name of a
  request whose findings lost nothing to `MaxRefs` is a function of target,
  generations and events (`RequestSound`). The last part needs that the digests
  kept name all the events of a match (`Whole`), which is where the bound on the
  references and the distinctness of the identities come in. The proof found a
  `CASE` with overlapping arms in `ObjectName`, whose value TLA+ leaves open when
  both apply; this and three others are now conditionals.
- `BudgetKept`: `PlanSpec => []QueriesWithinBudget`. `PlanInv`: the plan a preflight
  has passed fits the budgets of its request (`Fits`), whatever happens to the
  registry before the collection, and nothing is sent earlier. That a plan fits
  goes by induction over the two loops of `ResolveCollectionPlan`, in which a
  query that does not fit ends the plan with an issue; the steps added at the
  end are counted too.
- `SupportedGrounded`: `DiagnosisSpec => []SupportedClaimsAreGrounded`. `CollectionInv`:
  the records, in the order of the scope, belong to its pods by UID; the state
  of a record was read of that incarnation, and the events of the record being
  listed are those of its UID, all pages seen and none dropped unless it says
  so. `ConclusionInv`: a claim names references of the inventory, and a reference
  is incomplete in the inventory when its record was. A supported claim then has
  a record with complete evidence, and such a record has every event or another
  that says the same. When the core API is not served, the copies of the other
  one may be undated (`Known`); such a copy makes the record stale, unless a dated
  one replaces it.
- `WorkersInvariant` and `ConcurrentIsSequential`: every step of `ConcurrentCollection`
  (the specification `Collection` without its fairness) is a step of the
  sequential collection or changes nothing the caller sees. `WorkersInv`: a query
  is in one place only, with the jobs, a worker, the channel or the results kept
  (`Apart`, `Dealt`), none is lost before the context is done, and the sums are
  those of the kept queries added in the order received (`Explained`). When the
  loop returns, that order of the queries received is extended to one of the
  whole plan (finite sets and permutations, by `CountingUp`), which is the order
  the sequential collection is shown to take.

- `DecisionIsDetermined`: `GuardrailSpec => DecisionIgnoresListOrder`. Which policy,
  threshold or chain is chosen is the least of those that match by rank,
  priority and name. Two lists of the same objects have the same matching ones,
  the least is unique because names are (`GuardrailAssumption`, kept by
  `Relist`), and whether a malformed selector breaks the selection is a
  question about the set.
- `TruncationIsShown`: `EvidenceSpec => []TruncationShown`. `EvidenceInv`: what is
  observed is `Observe` of the query, so the theorem is one about the
  functions. Every loop of an adapter carries the difference between what it was
  given and what it kept, and with it the mark: it is set at the first element
  that finds no room (`MatrixFaithful`, `StreamsFaithful`, `SplitReported`). `AdapterAnswers`
  puts the types of query together: the answer is whole, or marked and not
  empty. Result limits, filter and the cap of `NormalizeObservations` pass the mark
  on, whatever limits, negative ones too, they are given.
- `NoIssueFoundIsSound`: `ProfileSpec => []NoIssueIsSound`. `VerdictInv`: a reported
  `NoIssueFound` was drawn from `Observe(query)`. If nothing is marked, by the
  lemmas above every record of the datasource was observed (`ObservedTells`), and
  its words are among those that the profile was evaluated on. `ProfileObserves`
  (`ProfileSpec => EvidenceSpec`) makes the evidence theorem one about profiles too.

TLC checked `EffectInv`, `WaitInv`, `NoticeInv`, `LifeInv`, `PipelineInv`,
`PlanEndInv`, `InvestigationInv`, `ReplicaInv`, `PlanInv`, `WorkersInv`, `RuleInv` and the parts of
`DiagnosisInv` on small instances before they were proved.

Only model-checked, because out of the prover's reach: liveness under
fairness, the fairness part of `CollectsSequentially` included. Every invariant
and every action property of the passing runs is a theorem; those that need one
replica or one decision say so (`OneOfEach`, `OneReplica`).

## 5. Plan

1. *Done*: `AgentAction`, `RemediationPipeline`, their runs, the dispatch
   theorems.
2. *Done*: `InvestigationRequest` and its runs.
3. *Done*: `RiskSignal`, `RuleEvaluation`.
4. *Done*: `Guardrails`, `Admission`, `EvidencePlan`, `Collection`, `Evidence`,
   `EvidenceProfile`, `Scheduling`, `Diagnosis`, `ModelGateway`.
5. *Done*: the safety proofs of `AgentAction` and `InvestigationRequest`, and the
   refinement of `AgentAction` by `RemediationPipeline`.
6. *Done*: the theorems about rules, query budgets, collection and diagnosis.
7. *Done*: the theorems about the selection of policies, evidence, profiles and
   the end of a plan.
8. Left: the hazards of `PROJECT.json` without a property (their notes say what
   stands in the way), and the components marked `partly`.

## 6. Not modelled

URLs, bodies and parsing of the HTTP clients, prompts, the text of queries,
formatting of reports and messages, metrics and events, generated deep copies;
what the legacy Deployment controller makes of a Deployment's conditions (off by
default); operator wiring; the command line tools, harnesses and demos, which
are sequential programs outside the control loops. Data races (the datasource
registry is an unsynchronised map) have no outcome the language defines; the
models give every read some value the registry had.
