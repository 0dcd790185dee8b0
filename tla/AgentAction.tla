---------------------------- MODULE AgentAction ----------------------------
(***************************************************************************)
(* One AgentAction object of the API server and the manager replicas that  *)
(* reconcile it (internal/controllers/agentaction_controller.go), with the *)
(* executors they dispatch to (internal/executor) and the remediation      *)
(* target those mutate.                                                    *)
(*                                                                         *)
(* Every API call is a step of its own, so that any other actor, a crash   *)
(* or a second replica can run between two calls of one Reconcile:         *)
(*   - a read (r.Get) returns the replica's informer cache, which lags the *)
(*     server until CacheSync brings it up to date;                        *)
(*   - a status write (r.Status().Update) carries the resourceVersion that *)
(*     was read and is refused with a conflict when the server has moved   *)
(*     on (optimistic concurrency);                                        *)
(*   - a delete (r.Delete) carries no precondition.                        *)
(* More than one replica runs whenever a rolling update of the manager     *)
(* overlaps two pods, because leader election is off by default.           *)
(*                                                                         *)
(* The action's spec without approvedBy is an element of Contents: that is *)
(* what agentActionSpecDigest fingerprints, so equal digests mean equal    *)
(* contents.  Of RemediationPlanReconciler this module keeps the two kinds *)
(* of write that reach the action, Generate (the spec) and Decide (the     *)
(* decision), at any time and MaxDecisions times; module                   *)
(* RemediationPipeline adds the controller that makes them and implements  *)
(* this specification.                                                     *)
(***************************************************************************)
EXTENDS Integers, Sequences

CONSTANTS
    Workers,                 \* the manager replicas
    Contents,                \* values of AgentAction.spec, approvedBy aside
    PlanContents,            \* [Decisions -> SUBSET Contents]: what the plan
                             \* writes with a decision (it includes its dry run)
    Backend,                 \* [Contents -> Backends]: the executor it routes to
    TargetChanges,           \* what the target may turn into: UIDs but "approved"
    PolicyObjects,           \* TRUE in it: ApprovalPolicy objects decide; FALSE:
                             \* the built-in guardrails do
    PlanDeletable,           \* TRUE: the plan that owns the action may be deleted
    NotifierConfigured,      \* FALSE: r.Notifier is nil
    ApprovalTimeoutSeconds,  \* spec.approvalTimeoutSeconds
    TTLSeconds,              \* spec.ttlSeconds
    SettlingPeriod,          \* effectivenessSettlingPeriod
    ObservationWindow,       \* effectivenessObservationWindow
    NoID,                    \* no execution identity
    MaxDecisions,            \* bound on decisions written
    MaxGeneration,           \* bound on spec edits
    MaxAttempts,             \* bound on escalation notification attempts
    MaxCrashes,              \* bound on replica crashes
    MaxTime                  \* bound on the clock

Backends == {"kubernetes", "notification", "simulated", "unsupported"}

Decisions == {"auto", "manual", "reject"}

(***************************************************************************)
(* BuildExecutionIdentity hashes the action's UID, generation, target and  *)
(* digest: two identities of one object are equal exactly when generation  *)
(* and content are.                                                        *)
(***************************************************************************)
ExecutionIDs == [generation : Nat, digest : Contents]

ASSUME ConstantsAssumption ==
    /\ Contents # {}
    /\ PlanContents \in [Decisions -> SUBSET Contents]
    /\ Backend \in [Contents -> Backends]
    /\ TargetChanges \subseteq {"replaced", "absent"}
    /\ PolicyObjects \subseteq BOOLEAN
    /\ PlanDeletable \in BOOLEAN
    /\ NotifierConfigured \in BOOLEAN
    /\ ApprovalTimeoutSeconds \in Nat
    /\ TTLSeconds \in Nat
    /\ SettlingPeriod \in Nat
    /\ ObservationWindow \in Nat
    /\ NoID \notin ExecutionIDs
    /\ MaxDecisions \in Nat
    /\ MaxGeneration \in Nat
    /\ MaxAttempts \in Nat
    /\ MaxCrashes \in Nat
    /\ MaxTime \in Nat

Never == -1                  \* a nil *metav1.Time

TerminalPhases == {"Succeeded", "Failed", "Rejected"}

Phases == {"", "WaitingApproval", "Approved", "Escalated", "Executing"}
            \cup TerminalPhases

(* status.approval; source "None" stands for a nil record, decidedAt for the *)
(* decision that wrote the record, 0 for a nil decidedAt.                    *)
Sources == {"None", "Pending", "GuardrailsAutoApproval",
            "ManualApprovalRequired", "GuardrailsRejected", "ApprovalPolicy",
            "ManualApprovalConfirmed"}

(* spec.approvedBy and status.approval.approvedBy: empty, a reviewer's name, *)
(* or the name the policy engine puts there when it approves automatically.  *)
Approvers == {"nobody", "reviewer", "policy"}

Approvals == [approved : BOOLEAN, approvedBy : Approvers, source : Sources,
              digest : Contents, decidedAt : Nat, escalated : BOOLEAN]

(* status.execution; state joins its phase and outcome, "None" is nil. *)
Executions == [id : ExecutionIDs \cup {NoID},
               state : {"None", "Executing", "Unknown", "Succeeded", "Failed"}]

Outcomes == {"Effective", "Ineffective", "Regressed", "Inconclusive"}

(* status.effectiveness; phase "None" is nil.  The verification request is *)
(* named after the execution it verifies (effectivenessVerificationName).  *)
Effectivenesses == [phase : {"None", "NotVerified", "Verifying", "Completed"},
                    baseline : BOOLEAN,
                    verificationRef : ExecutionIDs \cup {NoID},
                    settlingUntil : Int,
                    observationUntil : Int,
                    outcome : Outcomes \cup {"None"}]

Actions == [exists : BOOLEAN,
            resourceVersion : Nat,
            generation : Nat,
            retain : BOOLEAN,          \* the retain annotation
            content : Contents,
            approvedBy : Approvers,    \* spec.approvedBy
            phase : Phases,
            updatedAt : Int,
            finishedAt : Int,
            approval : Approvals,
            retryCount : Nat,          \* status.notification.retryCount
            execution : Executions,
            effectiveness : Effectivenesses]

\* Stands for the content of an object that does not exist.
NoContent == CHOOSE c \in Contents : TRUE

NoApproval == [approved |-> FALSE, approvedBy |-> "nobody", source |-> "None",
               digest |-> NoContent, decidedAt |-> 0, escalated |-> FALSE]

NoEffectiveness == [phase |-> "None", baseline |-> FALSE,
                    verificationRef |-> NoID, settlingUntil |-> Never,
                    observationUntil |-> Never, outcome |-> "None"]

(* The object as it is created, before any controller has written status. *)
NewAction(c, by) ==
    [exists |-> TRUE, resourceVersion |-> 1, generation |-> 1,
     retain |-> FALSE, content |-> c, approvedBy |-> by, phase |-> "",
     updatedAt |-> Never, finishedAt |-> Never, approval |-> NoApproval,
     retryCount |-> 0, execution |-> [id |-> NoID, state |-> "None"],
     effectiveness |-> NoEffectiveness]

VARIABLES
    action,        \* the object in the API server
    cache,         \* [Workers -> Actions]: each replica's informer cache
    worker,        \* [Workers -> WorkerStates]: the Reconcile in progress
    target,        \* the Deployment the action is about
    verification,  \* the verification InvestigationRequests, by execution
    decisions,     \* the decisions RemediationPlanReconciler has written
    calls,         \* the requests passed to a backend's Execute
    effects,       \* side effects performed: identity and UID they hit
    notices,       \* escalation notices the notifier delivered
    now,           \* the wall clock
    crashes        \* replica crashes so far

vars == <<action, cache, worker, target, verification, decisions, calls,
          effects, notices, now, crashes>>

(***************************************************************************)
(* A Reconcile in progress: the call it is about to make (pc), which       *)
(* status write that is (kind), the in-memory object (obj), the            *)
(* ExecutorRequest, the result of Execute and the time it captured.  With  *)
(* the request goes what its approval record says: which decision, whose   *)
(* approval.                                                               *)
(***************************************************************************)
Requests == [id : ExecutionIDs, decidedAt : Nat, approvedBy : Approvers]

NoRequest == [id |-> NoID, decidedAt |-> 0, approvedBy |-> "nobody"]

Kinds == {"none", "start", "failBeforeDispatch", "succeed", "unknown",
          "failed", "pending", "attempt", "notifyError", "escalate",
          "verify", "complete"}

WorkerStates == [pc : {"idle", "update", "delete", "execute", "patch", "read",
                       "notify"},
                 kind : Kinds,
                 obj : Actions,
                 request : Requests \cup {NoRequest},
                 result : {"None", "Succeeded", "Failed", "Unknown"},
                 at : Int]

Idle == [pc |-> "idle", kind |-> "none", obj |-> NewAction(NoContent, "nobody"),
         request |-> NoRequest, result |-> "None", at |-> Never]

UIDs == {"approved", "replaced", "absent"}

(* metadata.uid of the Deployment now under the target's name, relative to *)
(* the approved target UID, and its pod template's execution-id annotation. *)
Targets == [uid : UIDs, executionID : ExecutionIDs \cup {NoID}]

(* "running": phase neither Completed nor Failed; otherwise the outcome.   *)
VerificationOutcomes == {"NoIssueFound", "Confirmed", "Inconclusive"}

Effects == [id : ExecutionIDs, uid : UIDs]

(* Every variable holds a value of its type. *)
TypeOK ==
    /\ action \in Actions
    /\ cache \in [Workers -> Actions]
    /\ worker \in [Workers -> WorkerStates]
    /\ target \in Targets
    /\ DOMAIN verification \subseteq ExecutionIDs
    /\ \A id \in DOMAIN verification :
          verification[id] \in {"running"} \cup VerificationOutcomes
    /\ decisions \in Seq(Decisions)
    /\ calls \in Seq(Requests)
    /\ effects \in Seq(Effects)
    /\ notices \in Nat
    /\ now \in Nat
    /\ crashes \in Nat

Init ==
    /\ action = [NewAction(NoContent, "nobody") EXCEPT !.exists = FALSE,
                                                      !.resourceVersion = 0]
    /\ cache = [w \in Workers |-> action]
    /\ worker = [w \in Workers |-> Idle]
    /\ target = [uid |-> "approved", executionID |-> NoID]
    /\ verification = [id \in {} |-> "running"]
    /\ decisions = <<>>
    /\ calls = <<>>
    /\ effects = <<>>
    /\ notices = 0
    /\ now = 0
    /\ crashes = 0

-----------------------------------------------------------------------------
(***************************************************************************)
(* Predicates of the controller on an object it has read.                  *)
(***************************************************************************)
agentActionSpecDigest(a) == a.content

\* Fault: an edit after the decision does not invalidate it.
ApprovedWhateverContent(a) ==
    /\ a.approval.source # "None"
    /\ \/ a.approval.approved
       \/ a.approval.source = "ManualApprovalRequired" /\ a.approvedBy # "nobody"

isAgentActionApproved(a) ==
    /\ a.approval.source # "None"
    /\ a.approval.digest = agentActionSpecDigest(a)
    /\ \/ a.approval.approved
       \/ a.approval.source = "ManualApprovalRequired" /\ a.approvedBy # "nobody"

\* Fault: the identity leaves the content out.
IdentityOfGeneration(a) == [generation |-> a.generation]

BuildExecutionIdentity(a) ==
    [generation |-> a.generation, digest |-> agentActionSpecDigest(a)]

Verifying(a) == a.effectiveness.phase = "Verifying"

Terminal(a) == a.phase \in TerminalPhases

\* Fault: an execution whose record says nothing of its outcome is not in flight.
InFlightIfUnknown(a) == a.phase = "Executing" /\ a.execution.state = "Unknown"

InFlight(a) == a.phase = "Executing" /\ a.execution.id # NoID

\* Fault: approval is looked at before the phase.
BranchApprovedFirst(a) ==
    CASE Verifying(a) -> "verification"
      [] ~ Verifying(a) /\ isAgentActionApproved(a) -> "approved"
      [] ~ Verifying(a) /\ ~ isAgentActionApproved(a) /\ Terminal(a) -> "terminal"
      [] OTHER -> "pending"

\* Fault: an escalated action waits for somebody else.
BranchEscalatedWaits(a) ==
    CASE Verifying(a) -> "verification"
      [] ~ Verifying(a) /\ Terminal(a) -> "terminal"
      [] ~ Verifying(a) /\ InFlight(a) -> "inFlight"
      [] isAgentActionApproved(a) /\ a.phase \in {"", "WaitingApproval", "Approved"} -> "approved"
      [] OTHER -> "pending"

(* Which branch of Reconcile an object takes. *)
Branch(a) ==
    CASE Verifying(a)             -> "verification"
      [] ~ Verifying(a) /\ Terminal(a) -> "terminal"
      [] ~ Verifying(a) /\ ~ Terminal(a) /\ InFlight(a) -> "inFlight"
      [] ~ Verifying(a) /\ ~ Terminal(a) /\ ~ InFlight(a) /\ isAgentActionApproved(a) -> "approved"
      [] OTHER -> "pending"

(* setResourceStatus *)
SetPhase(a, phase, at) == [a EXCEPT !.phase = phase, !.updatedAt = at]

-----------------------------------------------------------------------------
(***************************************************************************)
(* The objects the status writes carry.                                    *)
(***************************************************************************)
\* Reconcile up to the write that precedes Execute: the approval record is
\* completed, the execution identity recorded, the baseline attached.
Started(a, baseline, at) ==
    LET confirmed == ~ a.approval.approved IN
    [SetPhase(a, "Executing", at) EXCEPT
        !.approval.approved = TRUE,
        !.approval.approvedBy = IF confirmed THEN a.approvedBy ELSE @,
        !.approval.source = IF confirmed THEN "ManualApprovalConfirmed" ELSE @,
        !.execution = [id |-> BuildExecutionIdentity(a), state |-> "Executing"],
        !.effectiveness = IF baseline
                          THEN [NoEffectiveness EXCEPT !.phase = "NotVerified",
                                                       !.baseline = TRUE]
                          ELSE @]

failBeforeDispatch(a, id, at) ==
    [SetPhase(a, "Failed", at) EXCEPT
        !.finishedAt = at,
        !.execution = [id |-> id, state |-> "Failed"],
        !.effectiveness = [NoEffectiveness EXCEPT !.phase = "NotVerified"]]

recordExecutionSuccess(a, id, at) ==
    [SetPhase(a, "Succeeded", at) EXCEPT
        !.finishedAt = at,
        !.execution = [id |-> id, state |-> "Succeeded"],
        !.effectiveness =
            IF a.effectiveness.phase # "None" /\ a.effectiveness.baseline
            THEN [a.effectiveness EXCEPT
                    !.phase = "Verifying",
                    !.outcome = "None",
                    !.settlingUntil = at + SettlingPeriod,
                    !.observationUntil = at + SettlingPeriod + ObservationWindow]
            ELSE [NoEffectiveness EXCEPT !.phase = "NotVerified"]]

RecordUnknown(a, at) ==
    [SetPhase(a, "Executing", at) EXCEPT !.execution.state = "Unknown"]

RecordFailure(a, at) ==
    [SetPhase(a, "Failed", at) EXCEPT !.finishedAt = at,
                                      !.execution.state = "Failed"]

ResetPending(a, at) ==
    [SetPhase(a, "WaitingApproval", at) EXCEPT
        !.approval = [NoApproval EXCEPT !.source = "Pending",
                                        !.digest = agentActionSpecDigest(a)]]

Escalated(a, at) ==
    [SetPhase(a, "Escalated", at) EXCEPT !.approval.escalated = TRUE]

(***************************************************************************)
(* evaluateEffectiveness, over what it tells apart in the two snapshots:   *)
(* replica intent changed, materially regressed, healthy, improved.        *)
(***************************************************************************)
HealthComparisons == [intentChanged : BOOLEAN, regressed : BOOLEAN,
                      healthy : BOOLEAN, improved : BOOLEAN]

\* Fault: good health alone makes a remediation effective.
EffectiveIfHealthy(h, observed, outcome) ==
    IF observed /\ ~ h.regressed /\ h.healthy THEN "Effective" ELSE "Inconclusive"

evaluateEffectiveness(h, observed, outcome) ==
    CASE ~ observed \/ h.intentChanged -> "Inconclusive"
      [] observed /\ ~ h.intentChanged /\ h.regressed -> "Regressed"
      [] observed /\ ~ h.intentChanged /\ ~ h.regressed /\ outcome = "NoIssueFound" ->
            IF ~ h.healthy THEN "Ineffective"
            ELSE IF ~ h.improved THEN "Inconclusive" ELSE "Effective"
      [] observed /\ ~ h.intentChanged /\ ~ h.regressed /\ outcome = "Confirmed" ->
            "Ineffective"
      [] OTHER -> "Inconclusive"

-----------------------------------------------------------------------------
(***************************************************************************)
(* Steps of a replica's Reconcile.  Each begins with the cached object.    *)
(***************************************************************************)
worldVars == <<target, verification, decisions, calls, effects, notices,
               now, crashes>>

\* Reconcile w is at call p.
At(w, p) == worker[w].pc = p

\* w has read its cache, found the object and takes branch b.
Reads(w, b) == At(w, "idle") /\ cache[w].exists /\ Branch(cache[w]) = b

\* w goes on to write obj as write kind k; q is the request it holds.
Prepare(w, k, obj, q) ==
    worker' = [worker EXCEPT ![w] = [pc |-> "update", kind |-> k, obj |-> obj,
                                     request |-> q, result |-> "None",
                                     at |-> IF k = "attempt" THEN now ELSE Never]]

Return(w) == worker' = [worker EXCEPT ![w] = Idle]

\* Branch "approved": CaptureBaseline and populateBaselineEvidence succeed,
\* find nothing to capture, or fail.
BaselineResults(c) ==
    CASE Backend[c] = "unsupported" -> {"captureError"}
      [] Backend[c] = "kubernetes" ->
            {"captureError"} \cup
            (IF target.uid = "approved" THEN {"found", "evidenceError"} ELSE {})
      [] OTHER -> {"none"}

ExecutionRequest(a) ==
    [id |-> BuildExecutionIdentity(a), decidedAt |-> a.approval.decidedAt,
     approvedBy |-> Started(a, FALSE, now).approval.approvedBy]

ReconcileApproved(w) ==
    /\ Reads(w, "approved")
    /\ LET a == cache[w]
           q == ExecutionRequest(a)
       IN \E r \in BaselineResults(a.content) :
            CASE r \in {"found", "none"} ->
                    Prepare(w, "start", Started(a, r = "found", now), q)
              [] r = "captureError" ->
                    Prepare(w, "failBeforeDispatch",
                            failBeforeDispatch(a, q.id, now), NoRequest)
              [] r = "evidenceError" ->
                    Prepare(w, "failBeforeDispatch",
                            failBeforeDispatch(Started(a, FALSE, now), q.id, now),
                            NoRequest)
    /\ UNCHANGED <<action, cache, worldVars>>

\* Fault: any restart of the target counts.
ResolveAnyRestart(a) == Backend[a.content] = "kubernetes" /\ target.uid = "approved"

\* Fault: only an outcome recorded as unknown is looked up.
ResolveIfUnknown(a) ==
    /\ Backend[a.content] = "kubernetes" /\ target.uid = "approved"
    /\ target.executionID = a.execution.id
    /\ a.execution.state = "Unknown"

\* Resolve finds the recorded execution: routed by the current spec, it reads
\* the target and never mutates it.
Resolve(a) ==
    /\ Backend[a.content] = "kubernetes"
    /\ target.uid = "approved"
    /\ target.executionID = a.execution.id

\* Branch "inFlight": a result that is not found, or an error, only requeues.
ReconcileInFlight(w) ==
    /\ Reads(w, "inFlight")
    /\ Resolve(cache[w])
    /\ Prepare(w, "succeed",
               recordExecutionSuccess(cache[w], cache[w].execution.id, now),
               NoRequest)
    /\ UNCHANGED <<action, cache, worldVars>>

\* reconcilePending, first case: no approval record for this very content.
NeverEvaluated(a) ==
    a.approval.source = "None" \/ a.approval.digest # agentActionSpecDigest(a)

ReconcilePending(w) ==
    /\ Reads(w, "pending")
    /\ NeverEvaluated(cache[w])
    /\ Prepare(w, "pending", ResetPending(cache[w], now), NoRequest)
    /\ UNCHANGED <<action, cache, worldVars>>

\* reconcileApprovalTimeout: past the deadline, either record the attempt
\* that precedes the notice or, with no notifier, escalate at once.
TimedOut(a) ==
    /\ a.phase # "Escalated"
    /\ ApprovalTimeoutSeconds > 0
    /\ a.updatedAt # Never
    /\ now >= a.updatedAt + ApprovalTimeoutSeconds

\* Fault: the notice is sent before the attempt is recorded.
NoticeFirst(w) ==
    /\ Reads(w, "pending")
    /\ ~ NeverEvaluated(cache[w])
    /\ TimedOut(cache[w])
    /\ worker' = [worker EXCEPT ![w] = [Idle EXCEPT !.pc = "notify",
                                                   !.obj = cache[w], !.at = now]]
    /\ UNCHANGED <<action, cache, worldVars>>

\* Fault: the record of an attempt restarts the wait.
AttemptSlidesDeadline(w) ==
    /\ Reads(w, "pending")
    /\ ~ NeverEvaluated(cache[w])
    /\ TimedOut(cache[w])
    /\ cache[w].retryCount < MaxAttempts
    /\ Prepare(w, "attempt", [cache[w] EXCEPT !.retryCount = @ + 1, !.updatedAt = now],
               NoRequest)
    /\ UNCHANGED <<action, cache, worldVars>>

ReconcileApprovalTimeout(w) ==
    /\ Reads(w, "pending")
    /\ ~ NeverEvaluated(cache[w])
    /\ TimedOut(cache[w])
    /\ IF NotifierConfigured
       THEN /\ cache[w].retryCount < MaxAttempts
            /\ Prepare(w, "attempt", [cache[w] EXCEPT !.retryCount = @ + 1],
                       NoRequest)
       ELSE Prepare(w, "escalate", Escalated(cache[w], now), NoRequest)
    /\ UNCHANGED <<action, cache, worldVars>>

\* reconcileTerminalStateTTL
Expired(a) == a.finishedAt # Never /\ now > a.finishedAt + TTLSeconds

\* Fault: the age of a finished action is not looked at.
DeleteFinished(w) ==
    /\ Reads(w, "terminal")
    /\ TTLSeconds # 0 /\ ~ cache[w].retain /\ cache[w].finishedAt # Never
    /\ worker' = [worker EXCEPT ![w] = [Idle EXCEPT !.pc = "delete"]]
    /\ UNCHANGED <<action, cache, worldVars>>

\* Fault: only successful actions expire.
DeleteSucceeded(w) ==
    /\ Reads(w, "terminal")
    /\ TTLSeconds # 0 /\ ~ cache[w].retain
    /\ Expired(cache[w]) /\ cache[w].phase = "Succeeded"
    /\ worker' = [worker EXCEPT ![w] = [Idle EXCEPT !.pc = "delete"]]
    /\ UNCHANGED <<action, cache, worldVars>>

ReconcileTerminal(w) ==
    /\ Reads(w, "terminal")
    /\ TTLSeconds # 0
    /\ ~ cache[w].retain
    /\ Expired(cache[w])
    /\ worker' = [worker EXCEPT ![w] = [Idle EXCEPT !.pc = "delete"]]
    /\ UNCHANGED <<action, cache, worldVars>>

\* reconcileEffectivenessVerification once the target has settled: create the
\* verification request (CreateOrUpdate) and record its reference.
Settled(a) ==
    /\ a.effectiveness.baseline
    /\ a.execution.state = "Succeeded"
    /\ now >= a.effectiveness.settlingUntil

ReconcileVerification(w) ==
    /\ Reads(w, "verification")
    /\ Settled(cache[w])
    /\ cache[w].effectiveness.verificationRef = NoID
    /\ LET id == cache[w].execution.id IN
         /\ verification' = [i \in DOMAIN verification \cup {id} |->
                               IF i \in DOMAIN verification THEN verification[i]
                                                           ELSE "running"]
         /\ Prepare(w, "verify",
                    [cache[w] EXCEPT !.effectiveness.verificationRef = id],
                    NoRequest)
    /\ UNCHANGED <<action, cache, target, decisions, calls, effects,
                   notices, now, crashes>>

\* Fault: a verification that found an issue is waited for forever.
ResultIfNoIssue(w) ==
    /\ Reads(w, "verification")
    /\ Settled(cache[w])
    /\ cache[w].effectiveness.verificationRef \in DOMAIN verification
    /\ verification[cache[w].effectiveness.verificationRef] = "NoIssueFound"
    /\ Prepare(w, "complete", [cache[w] EXCEPT !.effectiveness.phase = "Completed",
                                               !.effectiveness.outcome = "Effective"],
               NoRequest)
    /\ UNCHANGED <<action, cache, worldVars>>

\* ... and once the observation window has closed and the request is
\* terminal: observe the target's health and classify.  The health readback
\* is routed by the current spec and fails on another UID.
ReconcileVerificationResult(w) ==
    /\ Reads(w, "verification")
    /\ Settled(cache[w])
    /\ cache[w].effectiveness.verificationRef \in DOMAIN verification
    /\ now >= cache[w].effectiveness.observationUntil
    /\ verification[cache[w].effectiveness.verificationRef] \in VerificationOutcomes
    /\ \E h \in HealthComparisons, readable \in BOOLEAN :
         LET outcome == verification[cache[w].effectiveness.verificationRef]
             observed == /\ readable
                         /\ Backend[cache[w].content] = "kubernetes"
                         /\ target.uid = "approved"
         IN Prepare(w, "complete",
                    [cache[w] EXCEPT
                       !.effectiveness.phase = "Completed",
                       !.effectiveness.outcome =
                           evaluateEffectiveness(h, observed, outcome)],
                    NoRequest)
    /\ UNCHANGED <<action, cache, worldVars>>

-----------------------------------------------------------------------------
(***************************************************************************)
(* r.Status().Update: accepted when the server still holds the version the *)
(* object was read at, refused with a conflict otherwise.  The object in   *)
(* memory takes the new version.                                           *)
(***************************************************************************)
\* Fault: the last write wins.
LastWriteWins(w) ==
    /\ At(w, "update")
    /\ action.exists
    /\ action' = [worker[w].obj EXCEPT !.resourceVersion = action.resourceVersion + 1]
    /\ CASE worker[w].kind = "start" -> worker' = [worker EXCEPT ![w].pc = "execute"]
         [] worker[w].kind = "attempt" ->
              worker' = [worker EXCEPT ![w].pc = "notify", ![w].obj = action']
         [] OTHER -> Return(w)
    /\ UNCHANGED <<cache, worldVars>>

StatusUpdate(w) ==
    /\ At(w, "update")
    /\ action.exists
    /\ worker[w].obj.resourceVersion = action.resourceVersion
    /\ action' = [worker[w].obj EXCEPT !.resourceVersion = @ + 1]
    /\ CASE worker[w].kind = "start" ->
              worker' = [worker EXCEPT ![w].pc = "execute",
                                       ![w].obj = NewAction(NoContent, "nobody")]
         [] worker[w].kind = "attempt" ->
              worker' = [worker EXCEPT ![w].pc = "notify", ![w].obj = action']
         [] OTHER -> Return(w)
    /\ UNCHANGED <<cache, worldVars>>

StatusConflict(w) ==
    /\ At(w, "update")
    /\ \/ ~ action.exists
       \/ worker[w].obj.resourceVersion # action.resourceVersion
    /\ Return(w)
    /\ UNCHANGED <<action, cache, worldVars>>

\* Router.Execute: the backend is called.  A simulated backend succeeds; a
\* webhook may fail, and a failure may follow a delivery.  The Kubernetes
\* executor reads the Deployment, refuses another UID (or fails to read), and
\* does nothing when the pod template already carries this identity.
Execute(w) ==
    /\ At(w, "execute")
    /\ calls' = Append(calls, worker[w].request)
    /\ LET id == worker[w].request.id
           backend == Backend[id.digest]
           Reply(r) == worker' = [worker EXCEPT ![w].pc = "read", ![w].result = r]
           Done == effects' = Append(effects, [id |-> id, uid |-> target.uid])
       IN \/ backend \in {"simulated", "notification"} /\ Reply("Succeeded") /\ Done
          \/ backend = "notification" /\ Reply("Failed") /\ Done
          \/ /\ backend \in {"notification", "kubernetes"}
             /\ Reply("Failed")
             /\ UNCHANGED effects
          \/ /\ backend = "kubernetes"
             /\ target = [uid |-> "approved", executionID |-> id]
             /\ Reply("Succeeded")
             /\ UNCHANGED effects
          \/ /\ backend = "kubernetes"
             /\ target.uid = "approved" /\ target.executionID # id
             /\ worker' = [worker EXCEPT ![w].pc = "patch"]
             /\ UNCHANGED effects
    /\ UNCHANGED <<action, cache, target, verification, decisions,
                   notices, now, crashes>>

\* KubernetesExecutor.Execute after its checks: a merge patch by name, which
\* may be refused, or whose answer may be lost.  A context error is an unknown
\* outcome, any other error a failure.
Patch(w) ==
    /\ At(w, "patch")
    /\ LET id == worker[w].request.id
           Reply(r) == worker' = [worker EXCEPT ![w].pc = "read", ![w].result = r]
           Applied == /\ target.uid # "absent"
                      /\ target' = [target EXCEPT !.executionID = id]
                      /\ effects' = Append(effects, [id |-> id, uid |-> target.uid])
           NotApplied == UNCHANGED <<target, effects>>
       IN \/ Applied /\ \E r \in {"Succeeded", "Unknown", "Failed"} : Reply(r)
          \/ NotApplied /\ \E r \in {"Unknown", "Failed"} : Reply(r)
    /\ UNCHANGED <<action, cache, verification, decisions, calls,
                   notices, now, crashes>>

\* After Execute the object is read again, from the cache, and its outcome
\* is prepared on that copy.
ReadBack(w) ==
    /\ At(w, "read")
    /\ LET a == cache[w]
           Record(k, obj) == a.exists /\ Prepare(w, k, obj, NoRequest)
       IN \/ ~ a.exists /\ Return(w)
          \/ /\ worker[w].result = "Succeeded"
             /\ Record("succeed",
                       recordExecutionSuccess(a, worker[w].request.id, now))
          \/ /\ worker[w].result = "Unknown"
             /\ Record("unknown", RecordUnknown(a, now))
          \/ /\ worker[w].result = "Failed"
             /\ Record("failed", RecordFailure(a, now))
    /\ UNCHANGED <<action, cache, worldVars>>

\* r.Notifier.Notify: delivered, or failed before or after delivery.
Notify(w) ==
    /\ At(w, "notify")
    /\ \/ /\ notices' = notices + 1
          /\ worker' = [worker EXCEPT ![w].pc = "update", ![w].kind = "escalate",
                                      ![w].obj = Escalated(@, worker[w].at)]
       \/ /\ notices' \in {notices, notices + 1}
          /\ worker' = [worker EXCEPT ![w].pc = "update", ![w].kind = "notifyError"]
    /\ UNCHANGED <<action, cache, target, verification, decisions, calls,
                   effects, now, crashes>>

\* r.Delete: by name, whatever version the server holds.
Delete(w) ==
    /\ At(w, "delete")
    /\ action' = IF action.exists
                 THEN [action EXCEPT !.exists = FALSE, !.resourceVersion = @ + 1]
                 ELSE action
    /\ Return(w)
    /\ UNCHANGED <<cache, worldVars>>

\* The process dies, or a call fails before it is sent: what was in memory is
\* lost and the object is reconciled again later.
Crash(w) ==
    /\ ~ At(w, "idle")
    /\ crashes < MaxCrashes
    /\ crashes' = crashes + 1
    /\ Return(w)
    /\ UNCHANGED <<action, cache, target, verification, decisions, calls,
                   effects, notices, now>>

-----------------------------------------------------------------------------
(***************************************************************************)
(* The environment.                                                        *)
(***************************************************************************)
\* The informer of w catches up with the server.
CacheSync(w) ==
    /\ cache[w] # action
    /\ cache' = [cache EXCEPT ![w] = action]
    /\ UNCHANGED <<action, worker, worldVars>>

\* A write by another client: the server assigns the next version.
Written(a) == action' = [a EXCEPT !.resourceVersion = @ + 1]

\* Somebody creates the action directly, without a plan.
CreateDirectly(c, by) ==
    /\ action.resourceVersion = 0
    /\ action' = NewAction(c, by)
    /\ UNCHANGED <<cache, worker, target, verification, decisions, calls,
                   effects, notices, now, crashes>>

\* A reviewer fills in or clears spec.approvedBy.
SetApprovedBy(by) ==
    /\ action.exists /\ action.approvedBy # by
    /\ action.generation < MaxGeneration
    /\ Written([action EXCEPT !.approvedBy = by, !.generation = @ + 1])
    /\ UNCHANGED <<cache, worker, target, verification, decisions, calls,
                   effects, notices, now, crashes>>

\* Somebody edits the action's content.
EditContent(c) ==
    /\ action.exists /\ action.content # c
    /\ action.generation < MaxGeneration
    /\ Written([action EXCEPT !.content = c, !.generation = @ + 1])
    /\ UNCHANGED <<cache, worker, worldVars>>

\* Somebody adds the retain annotation.
Retain ==
    /\ action.exists /\ ~ action.retain
    /\ TTLSeconds # 0
    /\ Written([action EXCEPT !.retain = TRUE])
    /\ UNCHANGED <<cache, worker, worldVars>>

\* The Deployment is deleted, or deleted and created again with another UID.
TargetReplaced(uid) ==
    /\ target.uid # "replaced" /\ uid # target.uid
    /\ target' = [uid |-> uid, executionID |-> NoID]
    /\ UNCHANGED <<action, cache, worker, verification, decisions, calls,
                   effects, notices, now, crashes>>

\* The InvestigationRequest controller finishes a verification.
VerificationFinishes(id, outcome) ==
    /\ verification[id] = "running"
    /\ verification' = [verification EXCEPT ![id] = outcome]
    /\ UNCHANGED <<action, cache, worker, target, decisions, calls,
                   effects, notices, now, crashes>>

Tick ==
    /\ now < MaxTime
    /\ now' = now + 1
    /\ UNCHANGED <<action, cache, worker, target, verification, decisions, calls, effects, notices, crashes>>

\* RemediationPlanReconciler writes the action's spec (CreateOrUpdate): a
\* content that goes with its decision, and approvedBy only when that is
\* automatic.
Generated(a, c, auto) ==
    IF a.resourceVersion = 0
    THEN NewAction(c, IF auto THEN "policy" ELSE "nobody")
    ELSE [a EXCEPT !.content = c,
                   !.approvedBy = IF auto THEN "policy" ELSE @,
                   !.generation = @ + 1,
                   !.resourceVersion = @ + 1]

UpToDate(a, c, auto) == a.content = c /\ (auto => a.approvedBy = "policy")

Generate(c, auto) ==
    /\ \/ action.resourceVersion = 0
       \/ /\ action.exists /\ ~ UpToDate(action, c, auto)
          /\ action.generation < MaxGeneration
    /\ action' = Generated(action, c, auto)
    /\ UNCHANGED <<cache, worker, worldVars>>

\* ... and its status: the record of decision d.  With crd, the decision came
\* from an ApprovalPolicy object (approvalSource).
approvalSource(crd, fallback) == IF crd THEN "ApprovalPolicy" ELSE fallback

Decided(a, d, crd, n, at) ==
    LET Record(phase, approved, source) ==
            [SetPhase(a, phase, at) EXCEPT
                !.approval = [approved |-> approved,
                              approvedBy |-> IF approved THEN "policy"
                                                         ELSE "nobody",
                              source |-> approvalSource(crd, source),
                              digest |-> agentActionSpecDigest(a),
                              decidedAt |-> n, escalated |-> FALSE]]
    IN CASE d = "auto" -> Record("Approved", TRUE, "GuardrailsAutoApproval")
         [] d = "manual" -> Record("WaitingApproval", FALSE, "ManualApprovalRequired")
         [] d = "reject" -> [Record("Rejected", FALSE, "GuardrailsRejected")
                                EXCEPT !.finishedAt = at]

Decide(d, crd) ==
    /\ action.exists
    /\ \E c \in PlanContents[d] : UpToDate(action, c, d = "auto")
    /\ Len(decisions) < MaxDecisions
    /\ decisions' = Append(decisions, d)
    /\ Written(Decided(action, d, crd, Len(decisions) + 1, now))
    /\ UNCHANGED <<cache, worker, target, verification, calls, effects,
                   notices, now, crashes>>

\* The plan is deleted: garbage collection follows the owner reference.
CollectGarbage ==
    /\ PlanDeletable
    /\ action.exists
    /\ Written([action EXCEPT !.exists = FALSE])
    /\ UNCHANGED <<cache, worker, worldVars>>

-----------------------------------------------------------------------------
\* One Reconcile of replica w, call by call.
Reconcile(w) ==
    \/ ReconcileApproved(w) \/ ReconcileInFlight(w) \/ ReconcilePending(w)
    \/ ReconcileApprovalTimeout(w) \/ ReconcileTerminal(w)
    \/ ReconcileVerification(w) \/ ReconcileVerificationResult(w)
    \/ StatusUpdate(w) \/ StatusConflict(w) \/ Execute(w) \/ Patch(w)
    \/ ReadBack(w) \/ Notify(w) \/ Delete(w)

Replica(w) == Reconcile(w) \/ CacheSync(w) \/ Crash(w)

Users ==
    \/ \E c \in Contents, by \in {"nobody", "reviewer"} : CreateDirectly(c, by)
    \/ \E by \in {"nobody", "reviewer"} : SetApprovedBy(by)
    \/ \E c \in Contents : EditContent(c)
    \/ Retain

World ==
    \/ \E uid \in TargetChanges : TargetReplaced(uid)
    \/ \E id \in DOMAIN verification, o \in VerificationOutcomes :
          VerificationFinishes(id, o)
    \/ Tick

Plan ==
    \/ \E d \in Decisions : \E c \in PlanContents[d] : Generate(c, d = "auto")
    \/ \E d \in Decisions, crd \in PolicyObjects : Decide(d, crd)
    \/ CollectGarbage

Next ==
    \/ \E w \in Workers : Replica(w)
    \/ Users
    \/ World
    \/ Plan

Spec == Init /\ [][Next]_vars

-----------------------------------------------------------------------------
(***************************************************************************)
(* Safety with any number of replicas, stale caches, conflicts, crashes,   *)
(* edits and repeated decisions.                                           *)
(***************************************************************************)
\* One decision of the policy engine buys at most one dispatch: no two calls
\* of Execute rest on the same approval record, however many replicas read it
\* and however often the action is reconciled, restarted or re-read stale
\* (Reconcile persists the identity before it calls Executor.Execute).
DispatchOncePerDecision ==
    \A i, j \in 1 .. Len(calls) :
        calls[i].decidedAt = calls[j].decidedAt => i = j

\* A request rests on an approval record with authority: automatic approval
\* of this content, or a demand for an approver and somebody named as one.
Authorised(q) ==
    /\ q.decidedAt \in 1 .. Len(decisions)
    /\ q.id.digest \in PlanContents[decisions[q.decidedAt]]
    /\ \/ decisions[q.decidedAt] = "auto"
       \/ decisions[q.decidedAt] = "manual" /\ q.approvedBy # "nobody"

\* Nothing is dispatched without authority: what reaches a backend is the
\* content the decision was about, and that decision was automatic approval,
\* or it asked for an approver and the record names one.  A rejection, an
\* edit after the decision or an action nobody decided about dispatches
\* nothing (isAgentActionApproved's digest and source checks).
DispatchAuthorised == \A i \in 1 .. Len(calls) : Authorised(calls[i])

(***************************************************************************)
(* Why the two hold: the inductive invariant of the proof.                 *)
(***************************************************************************)
\* The approval record in any copy of the object goes back to a decision.
RecordSound(a) ==
    LET n == a.approval.decidedAt IN
    /\ n \in 0 .. Len(decisions)
    /\ a.approval.source = "ManualApprovalRequired" =>
          /\ n # 0 /\ decisions[n] = "manual"
          /\ a.approval.digest \in PlanContents[decisions[n]]
    /\ a.approval.approved =>
          /\ n # 0
          /\ a.approval.digest \in PlanContents[decisions[n]]
          /\ \/ decisions[n] = "auto"
             \/ decisions[n] = "manual" /\ a.approval.approvedBy # "nobody"

\* The object will not be dispatched again under the same record.
Consumed(a) == Terminal(a) \/ InFlight(a)

\* Decision n has been used: Execute was called under it, or is about to be.
Used(n) ==
    \/ \E i \in 1 .. Len(calls) : calls[i].decidedAt = n
    \/ \E w \in Workers : At(w, "execute") /\ worker[w].request.decidedAt = n

\* A cached object is an earlier version, or the current one.
CacheCoherent(w) ==
    /\ cache[w].resourceVersion <= action.resourceVersion
    /\ cache[w].resourceVersion = action.resourceVersion => cache[w] = action

\* What a status write may do to the version it was read from: it neither
\* revives a consumed object nor forgets an identity, and the write that
\* precedes a dispatch consumes the record it rests on.  A stale write is
\* refused, so nothing need be known of it.
WriteSound(w) ==
    LET o == worker[w].obj IN
    /\ o.resourceVersion <= action.resourceVersion
    /\ o.resourceVersion = action.resourceVersion =>
          /\ o.approval.decidedAt \in {0, action.approval.decidedAt}
          /\ Consumed(action) => Consumed(o)
          /\ action.execution.id # NoID => o.execution.id # NoID
          /\ At(w, "update") /\ worker[w].kind = "start" =>
                /\ ~ Consumed(action) /\ Consumed(o)
                /\ o.execution.id # NoID
                /\ o.approval.decidedAt = worker[w].request.decidedAt
                /\ action.approval.decidedAt = worker[w].request.decidedAt

\* w is about to send an escalation notice, or to record that it will.
Notifying(w) ==
    At(w, "notify") \/ (At(w, "update") /\ worker[w].kind = "attempt")

\* What a Reconcile in progress knows.
WorkerSound(w) ==
    /\ RecordSound(worker[w].obj)
    /\ Notifying(w) => ~ Consumed(worker[w].obj)
    /\ worker[w].pc \in {"update", "notify"} => WriteSound(w)
    /\ At(w, "update") /\ worker[w].kind = "start" => Authorised(worker[w].request)
    /\ At(w, "execute") => Authorised(worker[w].request)
    /\ worker[w].pc \in {"execute", "patch", "read"} => action.execution.id # NoID

\* Calls made and calls about to be made use distinct decisions.
UsesDistinct ==
    /\ \A v, w \in Workers :
          At(v, "execute") /\ At(w, "execute")
            /\ worker[v].request.decidedAt = worker[w].request.decidedAt => v = w
    /\ \A w \in Workers, i \in 1 .. Len(calls) :
          At(w, "execute") => calls[i].decidedAt # worker[w].request.decidedAt
    /\ DispatchOncePerDecision

\* The inductive invariant: a decision that was used belongs to an object
\* that is consumed, so that no replica can start under it again.
DispatchInv ==
    /\ \A w \in Workers : CacheCoherent(w) /\ WorkerSound(w)
    /\ \A w \in Workers : RecordSound(cache[w])
    /\ RecordSound(action)
    /\ action.resourceVersion = 0 => action.execution.id = NoID
    /\ Used(action.approval.decidedAt) => Consumed(action)
    /\ DispatchAuthorised
    /\ UsesDistinct

\* "Succeeded" is never recorded for a side effect that did not happen:
\* recordExecutionSuccess runs only after the backend's answer or after
\* Resolve has read the identity back from the target.
SucceededMeansEffect ==
    action.phase = "Succeeded" =>
        \E i \in 1 .. Len(effects) : effects[i].id = action.execution.id

\* Every escalation notice was preceded by a durable attempt: the notifier is
\* never called more often than status.notification.retryCount records, even
\* if the replica dies around the call (reconcileApprovalTimeout).
NoticesAccounted == notices <= action.retryCount

\* An action becomes Escalated only past its deadline and while nobody has
\* approved that very version: an approval that arrives during the notice
\* wins (status.updatedAt anchors the wait, the write is conditional).
EscalatedOnlyWhenOverdue ==
    [][action'.phase = "Escalated" /\ action.phase # "Escalated" =>
         /\ action.phase = "WaitingApproval"
         /\ ~ isAgentActionApproved(action)
         /\ now >= action.updatedAt + ApprovalTimeoutSeconds]_vars

(***************************************************************************)
(* Safety with one replica and one decision.                               *)
(***************************************************************************)
\* Succeeded, Failed and Rejected are final: no later step changes the phase,
\* the finish time or the recorded execution of a finished action.
TerminalStable ==
    [][action.exists /\ Terminal(action) =>
         /\ action'.phase = action.phase
         /\ action'.finishedAt = action.finishedAt
         /\ action'.execution = action.execution]_vars

\* The verdict on a remediation's effectiveness is about this execution, is
\* given no earlier than the end of the observation window, and "Effective"
\* needs a verification that found no issue
\* (reconcileEffectivenessVerification, evaluateEffectiveness).
VerdictSound ==
    action.effectiveness.phase = "Completed" =>
        LET ref == action.effectiveness.verificationRef IN
        /\ ref \in DOMAIN verification
        /\ ref = action.execution.id
        /\ verification[ref] # "running"
        /\ now >= action.finishedAt + SettlingPeriod + ObservationWindow
        /\ action.effectiveness.outcome = "Effective" =>
              verification[ref] = "NoIssueFound"

\* An action is deleted only when it has been finished for longer than its
\* TTL and no verification of it is pending: the Delete that follows a stale
\* read never hits a live action (reconcileTerminalStateTTL).
DeletedOnlyWhenExpired ==
    [][action.exists /\ ~ action'.exists =>
         Terminal(action) /\ Expired(action) /\ ~ Verifying(action)]_vars

(***************************************************************************)
(* Progress.  Watches, RequeueAfter, the retry of a failed Reconcile and   *)
(* the periodic resync start another Reconcile whenever one would have     *)
(* something to do; informers deliver; the clock advances; an              *)
(* investigation finishes.  Users, crashes and decisions owe nothing.      *)
(***************************************************************************)
Fairness ==
    /\ \A w \in Workers : WF_vars(Reconcile(w)) /\ WF_vars(CacheSync(w))
    /\ WF_vars(Tick)
    /\ WF_vars(\E id \in DOMAIN verification, o \in VerificationOutcomes :
                  VerificationFinishes(id, o))

FairSpec == Spec /\ Fairness

\* A current approval is acted on: an approved, idle action is dispatched,
\* or finished, or the approval is withdrawn by an edit, or the action goes
\* away with its plan.
ApprovedIsActedOn ==
    (action.exists /\ isAgentActionApproved(action))
        ~> \/ ~ action.exists \/ ~ isAgentActionApproved(action)
           \/ InFlight(action) \/ Terminal(action)

\* An execution in doubt is resolved: if the target carries the recorded
\* identity, the action leaves Executing, even if the replica died between
\* the patch and its record, unless the target is replaced or the action
\* edited away from the Kubernetes executor.
InDoubtIsResolved ==
    (/\ InFlight(action)
     /\ target = [uid |-> "approved", executionID |-> action.execution.id])
        ~> \/ Terminal(action)
           \/ target.uid # "approved"
           \/ Backend[action.content] # "kubernetes"

\* The wait for approval is bounded: a decided action overdue for approval is
\* escalated, or approved, or edited (up to the modelled number of attempts).
OverdueIsEscalated ==
    (/\ action.exists /\ action.phase = "WaitingApproval"
     /\ action.approval.decidedAt # 0
     /\ ~ NeverEvaluated(action) /\ TimedOut(action))
        ~> \/ ~ action.exists \/ action.phase # "WaitingApproval"
           \/ isAgentActionApproved(action) \/ NeverEvaluated(action)
           \/ action.retryCount = MaxAttempts

\* A verification that was begun reaches a verdict (if its window closes
\* within the modelled time).
VerifyingCompletes ==
    (/\ action.exists /\ Verifying(action)
     /\ action.effectiveness.observationUntil <= MaxTime)
        ~> (Terminal(action) /\ ~ Verifying(action))

\* A finished action whose TTL has passed goes away, unless it is retained.
ExpiredIsDeleted ==
    (/\ action.exists /\ Terminal(action) /\ ~ Verifying(action)
     /\ TTLSeconds # 0 /\ Expired(action))
        ~> (~ action.exists \/ action.retain)

-----------------------------------------------------------------------------
(***************************************************************************)
(* What the documents say and the code does not do: each is refuted by a   *)
(* run.                                                                    *)
(***************************************************************************)
\* docs/architecture/executor-safety-contract.md: a connection lost after the
\* dispatch is an unknown outcome.  So an action recorded as failed has had
\* no side effect (KubernetesExecutor.Execute, NotificationExecutor.Execute).
FailedMeansNoEffect ==
    action.phase = "Failed" =>
        \A i \in 1 .. Len(effects) : effects[i].id # action.execution.id

\* docs/backlog/v0.4-guardrails-approval-lifecycle.md: a pending action can
\* always still be approved by a human.  So what was decided to need an
\* approver, and has one, is acted on (isAgentActionApproved, approvalSource).
ReviewerIsHeard ==
    (/\ action.exists /\ ~ NeverEvaluated(action)
     /\ action.approval.decidedAt # 0
     /\ decisions[action.approval.decidedAt] = "manual"
     /\ action.approvedBy = "reviewer")
        ~> \/ ~ action.exists \/ InFlight(action) \/ Terminal(action)
           \/ NeverEvaluated(action) \/ action.approvedBy # "reviewer"

=============================================================================
