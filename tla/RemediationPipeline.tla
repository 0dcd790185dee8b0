------------------------ MODULE RemediationPipeline ------------------------
(***************************************************************************)
(* From a RemediationPlan to its AgentAction.  AgentAction lets the plan   *)
(* write the action's spec and status at any time; this module has the     *)
(* controllers that do it, RemediationPlanReconciler                       *)
(* (internal/controllers/remediationplan_controller.go) and                *)
(* RemediationPlanTTLReconciler (remediationplan_ttl_controller.go), one   *)
(* of each in every replica, beside the AgentAction controller with which  *)
(* they share the informer cache.                                          *)
(*                                                                         *)
(* One Reconcile of the plan makes up to four writes, each refused on a    *)
(* conflict: the defaults of the namespace threshold, the action's spec,   *)
(* the action's status and the plan's status.  The guard against deciding  *)
(* twice, an empty plan.status.phase, is read from the cache before the    *)
(* first and written by the last.                                          *)
(***************************************************************************)
EXTENDS AgentAction

CONSTANTS
    ThresholdEnforced,   \* TRUE: the namespace may be found over its threshold
    ThresholdDefaults,   \* TRUE: the threshold supplies defaults for the plan
    PolicyResults,       \* what the policy engine may decide about the plan
    MaxFailures          \* bound on failed plan Reconciles

ASSUME PipelineAssumption ==
    /\ ThresholdEnforced \in BOOLEAN
    /\ ThresholdDefaults \in BOOLEAN
    /\ PolicyResults \subseteq [decision : Decisions, crd : PolicyObjects,
                                  content : Contents]
    /\ \A p \in PolicyResults : p.content \in PlanContents[p.decision]
    /\ MaxFailures \in Nat

VARIABLES
    plan,        \* the RemediationPlan in the API server
    planCache,   \* [Workers -> Plans]: each replica's informer cache of it
    planner,     \* [Workers -> PlannerStates]: RemediationPlanReconciler
    cleaner,     \* [Workers -> CleanerStates]: RemediationPlanTTLReconciler
    policy,      \* what the policy engine decides about the plan at present
    failures     \* plan Reconciles that failed so far

planVars == <<plan, planCache, planner, cleaner, policy, failures>>

pipelineVars == <<vars, planVars>>

Undecided == ""             \* a plan whose status has not been written

PlanPhases == {Undecided, "Approved", "WaitingApproval", "Rejected"}

Plans == [exists : BOOLEAN, resourceVersion : Nat, phase : PlanPhases,
          defaulted : BOOLEAN, retain : BOOLEAN, finishedAt : Int]

(* The Reconcile of a plan in progress: the write it is about to make, the *)
(* version of the plan it holds, the decision and the version of the       *)
(* action it was recorded in.                                              *)
PlannerStates ==
    [pc : {"idle", "defaults", "generate", "decide", "record", "reject"},
     planVersion : Nat, decision : Decisions, crd : BOOLEAN, version : Nat]

PlannerIdle == [pc |-> "idle", planVersion |-> 0, decision |-> "reject",
                crd |-> FALSE, version |-> 0]

CleanerStates == [pc : {"idle", "stamp", "delete"}, planVersion : Nat,
                  finishedAt : Int]

CleanerIdle == [pc |-> "idle", planVersion |-> 0, finishedAt |-> Never]

PipelineTypeOK ==
    /\ plan \in Plans
    /\ planCache \in [Workers -> Plans]
    /\ planner \in [Workers -> PlannerStates]
    /\ cleaner \in [Workers -> CleanerStates]
    /\ policy \in PolicyResults
    /\ failures \in Nat

\* The RiskSignal controller has created the plan.
PipelineInit ==
    /\ Init
    /\ plan = [exists |-> TRUE, resourceVersion |-> 1, phase |-> Undecided,
               defaulted |-> FALSE, retain |-> FALSE, finishedAt |-> Never]
    /\ planCache = [w \in Workers |-> plan]
    /\ planner = [w \in Workers |-> PlannerIdle]
    /\ cleaner = [w \in Workers |-> CleanerIdle]
    /\ policy \in PolicyResults
    /\ failures = 0

-----------------------------------------------------------------------------
(***************************************************************************)
(* RemediationPlanReconciler.                                              *)
(***************************************************************************)
PlannerAt(w, p) == planner[w].pc = p

PlannerReturns(w) == planner' = [planner EXCEPT ![w] = PlannerIdle]

\* w still holds the current version of the plan.
PlanCurrent(version) == plan.exists /\ plan.resourceVersion = version

\* The next version of the plan.
PlanWritten(p) == plan' = [p EXCEPT !.resourceVersion = @ + 1]

\* The plan is read and has no phase yet.  The namespace is over its
\* threshold, or the threshold has defaults the plan lacks, or neither.
ReadPlan(w) ==
    /\ PlannerAt(w, "idle")
    /\ planCache[w].exists
    /\ planCache[w].phase = Undecided
    /\ \E pc \in {"reject", "defaults", "generate"} :
         /\ pc = "reject" => ThresholdEnforced
         /\ pc = "defaults" => ThresholdDefaults /\ ~ planCache[w].defaulted
         /\ pc = "generate" /\ ThresholdDefaults => planCache[w].defaulted
         /\ planner' = [planner EXCEPT ![w].pc = pc,
                          ![w].planVersion = planCache[w].resourceVersion]
    /\ UNCHANGED <<vars, plan, planCache, cleaner, policy, failures>>

\* persistNamespaceDefaults
PersistDefaults(w) ==
    /\ PlannerAt(w, "defaults")
    /\ IF PlanCurrent(planner[w].planVersion)
       THEN /\ PlanWritten([plan EXCEPT !.defaulted = TRUE])
            /\ planner' = [planner EXCEPT ![w].pc = "generate",
                                          ![w].planVersion = @ + 1]
       ELSE PlannerReturns(w) /\ UNCHANGED plan
    /\ UNCHANGED <<vars, planCache, cleaner, policy, failures>>

\* evaluatePolicy, then CreateOrUpdate of the action: read from the cache,
\* created when that has none, updated only when the spec would change.
\* (An action that was deleted is not created again in this model.)
GeneratesThen(w, pc) ==
    /\ PlannerAt(w, "generate")
    /\ LET auto == policy.decision = "auto"
           a == cache[w]
           current == a.exists /\ UpToDate(a, policy.content, auto)
           Continue(version) ==
               planner' = [planner EXCEPT ![w].pc = pc,
                                          ![w].decision = policy.decision,
                                          ![w].crd = policy.crd,
                                          ![w].version = version]
       IN \/ /\ \/ ~ a.exists /\ action.resourceVersion = 0
                \/ /\ a.exists /\ ~ current
                   /\ action.exists /\ a.resourceVersion = action.resourceVersion
                   /\ action.generation < MaxGeneration
             /\ action' = Generated(action, policy.content, auto)
             /\ Continue(action.resourceVersion + 1)
          \/ current /\ Continue(a.resourceVersion) /\ UNCHANGED action
          \/ /\ ~ current
             /\ a.exists \/ action.exists
             /\ ~ action.exists \/ a.resourceVersion # action.resourceVersion
             /\ PlannerReturns(w) /\ UNCHANGED action
    /\ UNCHANGED <<cache, worker, worldVars, plan, planCache, cleaner, policy,
                   failures>>

\* Fault: the plan's status comes next, not the action's.
RecordPlanFirst(w) == GeneratesThen(w, "record")

CreateOrUpdateAction(w) == GeneratesThen(w, "decide")

\* Fault: the action's status is written whatever its version.
RecordDecisionUnconditionally(w) ==
    /\ PlannerAt(w, "decide")
    /\ action.exists
    /\ Len(decisions) < MaxDecisions
    /\ decisions' = Append(decisions, planner[w].decision)
    /\ Written(Decided(action, planner[w].decision, planner[w].crd,
                       Len(decisions) + 1, now))
    /\ planner' = [planner EXCEPT ![w].pc = "record"]
    /\ UNCHANGED <<cache, worker, target, verification, calls, effects,
                   notices, now, crashes, plan, planCache, cleaner, policy, failures>>

\* The action's status: the decision, or a conflict and another Reconcile.
RecordDecision(w) ==
    /\ PlannerAt(w, "decide")
    /\ IF action.exists /\ action.resourceVersion = planner[w].version
       THEN /\ Len(decisions) < MaxDecisions
            /\ decisions' = Append(decisions, planner[w].decision)
            /\ Written(Decided(action, planner[w].decision, planner[w].crd,
                               Len(decisions) + 1, now))
            /\ planner' = [planner EXCEPT ![w].pc = "record"]
       ELSE PlannerReturns(w) /\ UNCHANGED <<action, decisions>>
    /\ UNCHANGED <<cache, worker, target, verification, calls, effects,
                   notices, now, crashes, plan, planCache, cleaner, policy, failures>>

PlanPhase(d) == CASE d = "auto" -> "Approved"
                  [] d = "manual" -> "WaitingApproval"
                  [] d = "reject" -> "Rejected"

\* The plan's status, after the action's.
RecordPlan(w) ==
    /\ PlannerAt(w, "record")
    /\ IF PlanCurrent(planner[w].planVersion)
       THEN PlanWritten([plan EXCEPT
                !.phase = PlanPhase(planner[w].decision),
                !.finishedAt = IF planner[w].decision = "reject" THEN now ELSE @])
       ELSE UNCHANGED plan
    /\ PlannerReturns(w)
    /\ UNCHANGED <<vars, planCache, cleaner, policy, failures>>

\* Fault: the rejection of a plan over the threshold leaves its phase empty.
RejectKeepsPhase(w) ==
    /\ PlannerAt(w, "reject")
    /\ IF PlanCurrent(planner[w].planVersion) /\ plan.finishedAt = Never
       THEN PlanWritten([plan EXCEPT !.finishedAt = now])
       ELSE UNCHANGED plan
    /\ PlannerReturns(w)
    /\ UNCHANGED <<vars, planCache, cleaner, policy, failures>>

\* rejectForThreshold: the plan's status alone.
RejectForThreshold(w) ==
    /\ PlannerAt(w, "reject")
    /\ IF PlanCurrent(planner[w].planVersion)
       THEN PlanWritten([plan EXCEPT !.phase = "Rejected", !.finishedAt = now])
       ELSE UNCHANGED plan
    /\ PlannerReturns(w)
    /\ UNCHANGED <<vars, planCache, cleaner, policy, failures>>

\* The process dies, or a call fails before it is sent.
PlannerFails(w) ==
    /\ ~ PlannerAt(w, "idle")
    /\ failures < MaxFailures
    /\ failures' = failures + 1
    /\ PlannerReturns(w)
    /\ UNCHANGED <<vars, plan, planCache, cleaner, policy>>

PlanReconcile(w) ==
    \/ ReadPlan(w) \/ PersistDefaults(w) \/ CreateOrUpdateAction(w)
    \/ RecordDecision(w) \/ RecordPlan(w) \/ RejectForThreshold(w)

-----------------------------------------------------------------------------
(***************************************************************************)
(* RemediationPlanTTLReconciler.                                           *)
(***************************************************************************)
CleanerAt(w, p) == cleaner[w].pc = p

PlanExpired(finishedAt) == now >= finishedAt + TTLSeconds

\* Fault: a plan expires whatever its action does.
AnyFinish(w) == IF cache[w].exists THEN cache[w].updatedAt ELSE Never

\* terminalFinishedAt: when the plan's action, as cached, finished.
terminalFinishedAt(w) ==
    IF /\ planCache[w].phase # "Rejected"
       /\ cache[w].exists /\ Terminal(cache[w])
    THEN cache[w].finishedAt
    ELSE Never

\* A plan with a TTL that is not retained: record when it finished, or delete
\* it when that was long enough ago.
ReadFinished(w) ==
    /\ CleanerAt(w, "idle")
    /\ planCache[w].exists /\ TTLSeconds > 0 /\ ~ planCache[w].retain
    /\ IF planCache[w].finishedAt = Never
       THEN /\ terminalFinishedAt(w) # Never
            /\ cleaner' = [cleaner EXCEPT
                  ![w] = [pc |-> "stamp", planVersion |-> planCache[w].resourceVersion,
                          finishedAt |-> terminalFinishedAt(w)]]
       ELSE /\ PlanExpired(planCache[w].finishedAt)
            /\ cleaner' = [cleaner EXCEPT ![w] = [CleanerIdle EXCEPT !.pc = "delete"]]
    /\ UNCHANGED <<vars, plan, planCache, planner, policy, failures>>

\* The finish time is written; if it is old enough the plan goes at once.
StampFinished(w) ==
    /\ CleanerAt(w, "stamp")
    /\ IF PlanCurrent(cleaner[w].planVersion)
       THEN /\ PlanWritten([plan EXCEPT !.finishedAt = cleaner[w].finishedAt])
            /\ cleaner' = [cleaner EXCEPT
                  ![w] = IF PlanExpired(cleaner[w].finishedAt)
                         THEN [CleanerIdle EXCEPT !.pc = "delete"]
                         ELSE CleanerIdle]
       ELSE UNCHANGED plan /\ cleaner' = [cleaner EXCEPT ![w] = CleanerIdle]
    /\ UNCHANGED <<vars, planCache, planner, policy, failures>>

DeletePlan(w) ==
    /\ CleanerAt(w, "delete")
    /\ IF plan.exists THEN PlanWritten([plan EXCEPT !.exists = FALSE])
                      ELSE UNCHANGED plan
    /\ cleaner' = [cleaner EXCEPT ![w] = CleanerIdle]
    /\ UNCHANGED <<vars, planCache, planner, policy, failures>>

PlanCleanup(w) == ReadFinished(w) \/ StampFinished(w) \/ DeletePlan(w)

-----------------------------------------------------------------------------
PlanCacheSync(w) ==
    /\ planCache[w] # plan
    /\ planCache' = [planCache EXCEPT ![w] = plan]
    /\ UNCHANGED <<vars, plan, planner, cleaner, policy, failures>>

\* Somebody edits an ApprovalPolicy, or the namespace's labels.
ChangePolicy ==
    /\ policy' \in PolicyResults \ {policy}
    /\ UNCHANGED <<vars, plan, planCache, planner, cleaner, failures>>

\* Somebody adds the retain annotation to the plan.
RetainPlan ==
    /\ plan.exists /\ ~ plan.retain /\ TTLSeconds > 0
    /\ PlanWritten([plan EXCEPT !.retain = TRUE])
    /\ UNCHANGED <<vars, planCache, planner, cleaner, policy, failures>>

\* The steps of the action's own controller and surroundings.  Nobody else
\* creates an object under the name of the plan's action.
ActionSteps ==
    /\ \/ \E w \in Workers : Replica(w)
       \/ \E by \in {"nobody", "reviewer"} : SetApprovedBy(by)
       \/ \E c \in Contents : EditContent(c)
       \/ Retain
       \/ World
       \/ ~ plan.exists /\ CollectGarbage
    /\ UNCHANGED planVars

PlanSteps ==
    \/ \E w \in Workers : \/ PlanReconcile(w) \/ PlannerFails(w)
                          \/ PlanCleanup(w) \/ PlanCacheSync(w)
    \/ ChangePolicy
    \/ RetainPlan

PipelineNext == ActionSteps \/ PlanSteps

PipelineSpec == PipelineInit /\ [][PipelineNext]_pipelineVars

-----------------------------------------------------------------------------
(***************************************************************************)
(* What holds of a plan and its action.                                    *)
(***************************************************************************)
\* The controllers of the plan do to the action what AgentAction allows: they
\* record a decision only in the very version of the action that carries the
\* content decided about, whoever edits, approves or finishes it meanwhile.
\* So what is proved of AgentAction holds of the pipeline.
ImplementsAction == Spec

\* A plan that shows a decision has recorded it in its action first: no
\* conflict or crash leaves a decided plan with an undecided action (the
\* order of the two status writes of RemediationPlanReconciler.Reconcile).
PlanFollowsAction ==
    /\ plan.phase = "Approved" => \E n \in 1 .. Len(decisions) : decisions[n] = "auto"
    /\ plan.phase = "WaitingApproval" =>
          \E n \in 1 .. Len(decisions) : decisions[n] = "manual"

\* The action of a plan decided once is never deleted while it waits, runs or
\* is in doubt, by its own TTL or with its plan, unless the plan was rejected
\* (terminalFinishedAt, reconcileTerminalStateTTL; both Deletes follow a read
\* that may be stale).
LiveActionKept ==
    [][action.exists /\ ~ action'.exists /\ Len(decisions) <= 1 =>
         Terminal(action) \/ plan.phase = "Rejected"]_pipelineVars

(***************************************************************************)
(* Progress: as for AgentAction, and the plan's controllers are retried.   *)
(***************************************************************************)
PipelineFairness ==
    /\ \A w \in Workers :
          /\ WF_pipelineVars(Reconcile(w) /\ UNCHANGED planVars)
          /\ WF_pipelineVars(CacheSync(w) /\ UNCHANGED planVars)
          /\ WF_pipelineVars(PlanReconcile(w))
          /\ WF_pipelineVars(PlanCacheSync(w))

FairPipelineSpec == PipelineSpec /\ PipelineFairness

\* No more decisions or edits of the action are modelled.
BoundReached ==
    \/ Len(decisions) = MaxDecisions /\ \E w \in Workers : PlannerAt(w, "decide")
    \/ /\ action.generation = MaxGeneration
       /\ ~ UpToDate(action, policy.content, policy.decision = "auto")

\* Every plan is decided: conflicts with the other controllers and with users,
\* failures, changes of policy and stale reads only delay it.
PlanIsDecided ==
    (plan.exists /\ plan.phase = Undecided)
        ~> \/ plan.phase # Undecided \/ ~ plan.exists \/ BoundReached
           \/ action.resourceVersion # 0 /\ ~ action.exists

-----------------------------------------------------------------------------
(***************************************************************************)
(* What the documents say and the code does not do.                        *)
(***************************************************************************)
\* docs/architecture/executor-safety-contract.md: an approved action that is
\* reconciled repeatedly invokes the backend at most once for the same
\* idempotency key.
AtMostOncePerIdentity ==
    \A i, j \in 1 .. Len(calls) : calls[i].id = calls[j].id => i = j

=============================================================================
