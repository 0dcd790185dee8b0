--------------------------- MODULE PipelineProofs ---------------------------
(***************************************************************************)
(* The controllers of the RemediationPlan do to the action only what       *)
(* AgentAction allows, whatever the number of replicas: so the theorems    *)
(* about AgentAction are theorems about the pipeline.  And a plan never    *)
(* shows a decision that its action has not recorded.                      *)
(***************************************************************************)
EXTENDS RemediationPipeline, LifecycleProofs

USE DEF Never

(***************************************************************************)
(* The inductive invariant: AgentAction's own, and what a plan's Reconcile *)
(* in progress knows.                                                      *)
(***************************************************************************)
\* The action's version v, if it is still the current one, is one the plan
\* wrote, or found to be, what decision d calls for.
Carries(v, d) ==
    action.exists /\ v = action.resourceVersion =>
        \E c \in PlanContents[d] : UpToDate(action, c, d = "auto")

Recorded(d) == \E n \in 1 .. Len(decisions) : decisions[n] = d

PlannerSound(w) ==
    /\ PlannerAt(w, "decide") =>
          /\ planner[w].crd \in PolicyObjects
          /\ planner[w].version <= action.resourceVersion
          /\ Carries(planner[w].version, planner[w].decision)
    /\ PlannerAt(w, "record") => Recorded(planner[w].decision)

PipelineInv ==
    /\ TypeInv
    /\ DispatchInv
    /\ PipelineTypeOK
    /\ \A w \in Workers : PlannerSound(w)
    /\ PlanFollowsAction

LEMMA PolicyType ==
    ASSUME policy \in PolicyResults
    PROVE  /\ policy.decision \in Decisions
           /\ policy.crd \in PolicyObjects
           /\ policy.crd \in BOOLEAN
           /\ policy.content \in Contents
           /\ policy.content \in PlanContents[policy.decision]
BY PipelineAssumption, ConstantsAssumption

LEMMA PlannerIdleType == PlannerIdle \in PlannerStates
BY DEF PlannerIdle, PlannerStates, Decisions

LEMMA PlannerReturnsType ==
    ASSUME PipelineTypeOK, NEW w \in Workers, PlannerReturns(w)
    PROVE  /\ planner' \in [Workers -> PlannerStates]
           /\ planner'[w].pc = "idle"
           /\ \A v \in Workers \ {w} : planner'[v] = planner[v]
BY PlannerIdleType DEF PipelineTypeOK, PlannerReturns, PlannerIdle

-----------------------------------------------------------------------------
(***************************************************************************)
(* Every step of the pipeline is a step of AgentAction, or leaves its      *)
(* variables alone.                                                        *)
(***************************************************************************)
LEMMA ActionStepsRefine ==
    ASSUME ActionSteps
    PROVE  Next
BY DEF ActionSteps, Next, Users, Plan

\* CreateOrUpdate writes what a decision calls for.  An update is sent only
\* when the cached copy differs from it; a copy of the current version is the
\* current object, so the object differs too.
LEMMA CreateOrUpdateRefines ==
    ASSUME PipelineInv, NEW w \in Workers, CreateOrUpdateAction(w)
    PROVE  \/ \E d \in Decisions : \E c \in PlanContents[d] : Generate(c, d = "auto")
           \/ UNCHANGED vars
<1> DEFINE auto == policy.decision = "auto"
           a == cache[w]
<1>1. CacheCoherent(w)
  BY DEF PipelineInv, DispatchInv
<1>2. /\ policy.decision \in Decisions
      /\ policy.content \in PlanContents[policy.decision]
  BY PolicyType DEF PipelineInv, PipelineTypeOK
<1>3. UNCHANGED <<cache, worker, worldVars>>
  BY DEF CreateOrUpdateAction, GeneratesThen
<1>4. CASE /\ \/ ~ a.exists /\ action.resourceVersion = 0
              \/ /\ a.exists /\ ~ (a.exists /\ UpToDate(a, policy.content, auto))
                 /\ action.exists /\ a.resourceVersion = action.resourceVersion
                 /\ action.generation < MaxGeneration
           /\ action' = Generated(action, policy.content, auto)
  <2>1. a.exists /\ a.resourceVersion = action.resourceVersion => a = action
    BY <1>1 DEF CacheCoherent
  <2>2. Generate(policy.content, auto)
    BY <1>3, <1>4, <2>1 DEF Generate
  <2> QED
    BY <1>2, <2>2
<1>5. CASE UNCHANGED action
  BY <1>3, <1>5 DEF vars, worldVars
<1> QED
  BY <1>4, <1>5 DEF CreateOrUpdateAction, GeneratesThen

\* The write of the decision succeeds only in the version that carries it.
LEMMA RecordDecisionRefines ==
    ASSUME PipelineInv, NEW w \in Workers, RecordDecision(w)
    PROVE  \/ \E d \in Decisions, crd \in PolicyObjects : Decide(d, crd)
           \/ UNCHANGED vars
<1>1. PlannerSound(w) /\ PlannerAt(w, "decide")
  BY DEF PipelineInv, RecordDecision
<1>2. /\ planner[w].decision \in Decisions
      /\ planner[w].crd \in PolicyObjects
  BY <1>1 DEF PipelineInv, PipelineTypeOK, PlannerStates, PlannerSound
<1>3. CASE action.exists /\ action.resourceVersion = planner[w].version
  <2>1. \E c \in PlanContents[planner[w].decision] :
            UpToDate(action, c, planner[w].decision = "auto")
    BY <1>1, <1>3 DEF PlannerSound, Carries
  <2>2. Decide(planner[w].decision, planner[w].crd)
    BY <1>3, <2>1 DEF RecordDecision, Decide
  <2> QED
    BY <1>2, <2>2
<1>4. CASE ~ (action.exists /\ action.resourceVersion = planner[w].version)
  BY <1>4 DEF RecordDecision, vars
<1> QED
  BY <1>3, <1>4

LEMMA PipelineRefines ==
    ASSUME PipelineInv, [PipelineNext]_pipelineVars
    PROVE  [Next]_vars
<1>1. CASE ActionSteps
  BY <1>1, ActionStepsRefine
<1>2. ASSUME NEW w \in Workers, PlanReconcile(w) PROVE [Next]_vars
  <2>1. CASE CreateOrUpdateAction(w)
    BY <2>1, CreateOrUpdateRefines DEF Next, Plan
  <2>2. CASE RecordDecision(w)
    BY <2>2, RecordDecisionRefines DEF Next, Plan
  <2>3. CASE ReadPlan(w) \/ PersistDefaults(w) \/ RecordPlan(w) \/ RejectForThreshold(w)
    BY <2>3 DEF ReadPlan, PersistDefaults, RecordPlan, RejectForThreshold
  <2> QED
    BY <1>2, <2>1, <2>2, <2>3 DEF PlanReconcile
<1>3. CASE PlanSteps
  <2>1. ASSUME NEW w \in Workers, PlannerFails(w) \/ PlanCleanup(w) \/ PlanCacheSync(w)
        PROVE  UNCHANGED vars
    BY <2>1 DEF PlannerFails, PlanCleanup, PlanCacheSync, ReadFinished,
                StampFinished, DeletePlan
  <2>2. CASE ChangePolicy \/ RetainPlan
    BY <2>2 DEF ChangePolicy, RetainPlan
  <2> QED
    BY <1>2, <1>3, <2>1, <2>2 DEF PlanSteps
<1>4. CASE UNCHANGED pipelineVars
  BY <1>4 DEF pipelineVars
<1> QED
  BY <1>1, <1>3, <1>4 DEF PipelineNext

-----------------------------------------------------------------------------
(***************************************************************************)
(* What a step of AgentAction means to a plan's Reconcile: a changed       *)
(* action has a later version, and decisions are never taken back.         *)
(***************************************************************************)
Later == action' = action \/ action'.resourceVersion > action.resourceVersion

LEMMA WrittenIsLater ==
    ASSUME NEW a \in Actions, a.resourceVersion = action.resourceVersion,
           Written(a)
    PROVE  Later
<1>1. a.resourceVersion \in Nat /\ DOMAIN a = DOMAIN [a EXCEPT !.resourceVersion = 0]
  BY DEF Actions
<1>2. action'.resourceVersion = a.resourceVersion + 1
  BY <1>1 DEF Written, Actions
<1> QED
  BY <1>1, <1>2 DEF Later

\* Of the calls of a Reconcile only two change the action, and none decides.
LEMMA QuietCalls ==
    ASSUME NEW w \in Workers
    PROVE  /\ ReconcileApproved(w) => UNCHANGED <<action, decisions>>
           /\ ReconcileInFlight(w) => UNCHANGED <<action, decisions>>
           /\ ReconcilePending(w) => UNCHANGED <<action, decisions>>
           /\ ReconcileApprovalTimeout(w) => UNCHANGED <<action, decisions>>
           /\ ReconcileTerminal(w) => UNCHANGED <<action, decisions>>
           /\ ReconcileVerification(w) => UNCHANGED <<action, decisions>>
           /\ ReconcileVerificationResult(w) => UNCHANGED <<action, decisions>>
           /\ StatusConflict(w) => UNCHANGED <<action, decisions>>
           /\ Execute(w) => UNCHANGED <<action, decisions>>
           /\ Patch(w) => UNCHANGED <<action, decisions>>
           /\ ReadBack(w) => UNCHANGED <<action, decisions>>
           /\ Notify(w) => UNCHANGED <<action, decisions>>
           /\ StatusUpdate(w) => UNCHANGED decisions
           /\ Delete(w) => UNCHANGED decisions
<1>1. ReconcileApproved(w) => UNCHANGED <<action, decisions>>
  BY DEF ReconcileApproved, worldVars
<1>2. ReconcileInFlight(w) => UNCHANGED <<action, decisions>>
  BY DEF ReconcileInFlight, worldVars
<1>3. ReconcilePending(w) => UNCHANGED <<action, decisions>>
  BY DEF ReconcilePending, worldVars
<1>4. ReconcileApprovalTimeout(w) => UNCHANGED <<action, decisions>>
  BY DEF ReconcileApprovalTimeout, worldVars
<1>5. ReconcileTerminal(w) => UNCHANGED <<action, decisions>>
  BY DEF ReconcileTerminal, worldVars
<1>6. ReconcileVerification(w) => UNCHANGED <<action, decisions>>
  BY DEF ReconcileVerification
<1>7. ReconcileVerificationResult(w) => UNCHANGED <<action, decisions>>
  BY DEF ReconcileVerificationResult, worldVars
<1>8. StatusConflict(w) => UNCHANGED <<action, decisions>>
  BY DEF StatusConflict, worldVars
<1>9. Execute(w) => UNCHANGED <<action, decisions>>
  BY DEF Execute
<1>10. Patch(w) => UNCHANGED <<action, decisions>>
  BY DEF Patch
<1>11. ReadBack(w) => UNCHANGED <<action, decisions>>
  BY DEF ReadBack, worldVars
<1>12. Notify(w) => UNCHANGED <<action, decisions>>
  BY DEF Notify
<1>13. StatusUpdate(w) => UNCHANGED decisions
  BY DEF StatusUpdate, worldVars
<1>14. Delete(w) => UNCHANGED decisions
  BY DEF Delete, worldVars
<1> QED
  BY <1>1, <1>2, <1>3, <1>4, <1>5, <1>6, <1>7, <1>8, <1>9, <1>10, <1>11, <1>12,
     <1>13, <1>14

LEMMA NextIsLater ==
    ASSUME TypeInv, [Next]_vars
    PROVE  Later
<1>1. action \in Actions /\ action.resourceVersion \in Nat
  BY DEF TypeInv, TypeOK, Actions
<1>2. ASSUME NEW w \in Workers, Reconcile(w) PROVE Later
  <2>1. CASE StatusUpdate(w)
    <3>1. worker[w].obj \in Actions
      BY DEF TypeInv, TypeOK, WorkerStates
    <3> QED
      BY <2>1, <3>1, WrittenIsLater DEF StatusUpdate, Written
  <2>2. CASE Delete(w)
    BY <1>1, <2>2 DEF Delete, Later, Actions
  <2>3. \/ StatusUpdate(w) \/ Delete(w)
        \/ UNCHANGED action
    BY <1>2, QuietCalls DEF Reconcile
  <2> QED
    BY <2>1, <2>2, <2>3 DEF Later
<1>3. ASSUME NEW w \in Workers, CacheSync(w) \/ Crash(w) PROVE Later
  BY <1>3 DEF CacheSync, Crash, Later
<1>4. CASE Users
  <2>1. ASSUME NEW c \in Contents, NEW by \in {"nobody", "reviewer"},
               CreateDirectly(c, by)
        PROVE  Later
    <3>1. NewAction(c, by).resourceVersion = 1
      BY DEF NewAction
    <3> QED
      BY <2>1, <3>1 DEF CreateDirectly, Later
  <2>2. ASSUME NEW by \in {"nobody", "reviewer"}, SetApprovedBy(by) PROVE Later
    BY <1>1, <2>2 DEF SetApprovedBy, Written, Actions, Later
  <2>3. ASSUME NEW c \in Contents, EditContent(c) PROVE Later
    BY <1>1, <2>3 DEF EditContent, Written, Actions, Later
  <2>4. CASE Retain
    BY <1>1, <2>4 DEF Retain, Written, Actions, Later
  <2> QED
    BY <1>4, <2>1, <2>2, <2>3, <2>4 DEF Users
<1>5. CASE World
  BY <1>5 DEF World, TargetReplaced, VerificationFinishes, Tick, Later
<1>6. CASE Plan
  <2>1. ASSUME NEW c \in Contents, NEW auto \in BOOLEAN, Generate(c, auto) PROVE Later
    <3>1. \A by : NewAction(c, by).resourceVersion = 1
      BY DEF NewAction
    <3>2. Generated(action, c, auto).resourceVersion = action.resourceVersion + 1
      BY <1>1, <3>1 DEF Generated, Actions
    <3> QED
      BY <1>1, <2>1, <3>2 DEF Generate, Later
  <2>2. ASSUME NEW d \in Decisions, NEW crd \in PolicyObjects, Decide(d, crd)
        PROVE  Later
    <3> DEFINE b == Decided(action, d, crd, Len(decisions) + 1, now)
    <3>1. Len(decisions) + 1 \in Nat /\ crd \in BOOLEAN /\ now \in Int
      BY ConstantsAssumption DEF TypeInv, TypeOK
    <3>2. b \in Actions
      BY <1>1, <3>1, DecidedType
    <3>3. b.resourceVersion = action.resourceVersion
      BY <1>1 DEF Decided, SetPhase, Decisions, Actions
    <3> HIDE DEF b
    <3>4. Written(b)
      BY <2>2 DEF Decide, b
    <3> QED
      BY <3>2, <3>3, <3>4, WrittenIsLater
  <2>3. CASE CollectGarbage
    BY <1>1, <2>3 DEF CollectGarbage, Written, Actions, Later
  <2> QED
    BY <1>6, <2>1, <2>2, <2>3, ContentTypes DEF Plan
<1>7. CASE UNCHANGED vars
  BY <1>7 DEF vars, Later
<1> QED
  BY <1>2, <1>3, <1>4, <1>5, <1>6, <1>7 DEF Next, Replica

LEMMA NextExtends ==
    ASSUME TypeInv, [Next]_vars
    PROVE  Extended
<1>1. decisions \in Seq(Decisions)
  BY DEF TypeInv, TypeOK
<1>2. CASE UNCHANGED decisions
  BY <1>1, <1>2 DEF Extended
<1>3. ASSUME NEW d \in Decisions, NEW crd \in PolicyObjects, Decide(d, crd)
      PROVE  Extended
  BY <1>1, <1>3 DEF Decide, Extended
<1>4. ASSUME NEW w \in Workers, Replica(w) PROVE UNCHANGED decisions
  <2>1. CASE Reconcile(w)
    BY <2>1, QuietCalls DEF Reconcile
  <2> QED
    BY <1>4, <2>1 DEF Replica, CacheSync, Crash, worldVars
<1>5. CASE Users
  BY <1>2, <1>5 DEF Users, CreateDirectly, SetApprovedBy, EditContent, Retain,
                    worldVars
<1>6. CASE World
  BY <1>2, <1>6 DEF World, TargetReplaced, VerificationFinishes, Tick
<1>7. CASE Plan
  BY <1>2, <1>3, <1>7 DEF Plan, Generate, CollectGarbage, worldVars
<1>8. CASE UNCHANGED vars
  BY <1>2, <1>8 DEF vars
<1> QED
  BY <1>2, <1>3, <1>4, <1>5, <1>6, <1>7, <1>8 DEF Next

-----------------------------------------------------------------------------
(***************************************************************************)
(* The invariant is preserved.                                             *)
(***************************************************************************)
\* A Reconcile that does not move keeps what it knows.
LEMMA PlannerKept ==
    ASSUME PipelineInv, TypeInv', Later, Extended,
           NEW w \in Workers, planner'[w] = planner[w]
    PROVE  PlannerSound(w)'
<1>1. /\ action.resourceVersion \in Nat /\ action'.resourceVersion \in Nat
      /\ decisions \in Seq(Decisions) /\ decisions' \in Seq(Decisions)
      /\ planner[w].version \in Nat
  BY DEF PipelineInv, TypeInv, TypeOK, Actions, PipelineTypeOK, PlannerStates
<1>2. PlannerSound(w)
  BY DEF PipelineInv
<1>3. Recorded(planner[w].decision) => Recorded(planner[w].decision)'
  BY <1>1 DEF Recorded, Extended
<1>4. CASE action' = action
  BY <1>2, <1>3, <1>4 DEF PlannerSound, PlannerAt, Carries, UpToDate, Recorded
<1>5. CASE action'.resourceVersion > action.resourceVersion
  BY <1>1, <1>2, <1>3, <1>5 DEF PlannerSound, PlannerAt, Carries, Recorded
<1> QED
  BY <1>4, <1>5 DEF Later

\* One that returns has nothing to know.
LEMMA PlannersKept ==
    ASSUME PipelineInv, TypeInv', Later, Extended,
           NEW w \in Workers,
           planner' = planner \/ PlannerReturns(w)
    PROVE  /\ planner' \in [Workers -> PlannerStates]
           /\ \A v \in Workers : PlannerSound(v)'
<1>1. CASE planner' = planner
  BY <1>1, PlannerKept DEF PipelineInv, PipelineTypeOK
<1>2. CASE PlannerReturns(w)
  <2>1. /\ planner' \in [Workers -> PlannerStates]
        /\ planner'[w].pc = "idle"
        /\ \A v \in Workers \ {w} : planner'[v] = planner[v]
    BY <1>2, PlannerReturnsType DEF PipelineInv
  <2>2. PlannerSound(w)'
    BY <2>1 DEF PlannerSound, PlannerAt
  <2> QED
    BY <2>1, <2>2, PlannerKept
<1> QED
  BY <1>1, <1>2

LEMMA PhaseKept ==
    ASSUME PipelineInv, TypeInv', Extended, plan'.phase = plan.phase
    PROVE  PlanFollowsAction'
<1>1. decisions \in Seq(Decisions) /\ decisions' \in Seq(Decisions)
  BY DEF PipelineInv, TypeInv, TypeOK
<1> QED
  BY <1>1 DEF PipelineInv, PlanFollowsAction, Extended

LEMMA PlanWrittenType ==
    ASSUME NEW p \in Plans, PlanWritten(p)
    PROVE  plan' \in Plans /\ plan'.phase = p.phase
<1>1. p.resourceVersion + 1 \in Nat
  BY DEF Plans
<1> QED
  BY <1>1 DEF PlanWritten, Plans

\* The steps of the action's controller and surroundings.
LEMMA ActionStepsInv ==
    ASSUME PipelineInv, TypeInv', Later, Extended, UNCHANGED planVars
    PROVE  PipelineTypeOK' /\ (\A w \in Workers : PlannerSound(w)') /\ PlanFollowsAction'
<1>1. PipelineTypeOK'
  BY DEF PipelineInv, PipelineTypeOK, planVars
<1>2. \A w \in Workers : PlannerSound(w)'
  BY PlannerKept DEF planVars
<1>3. PlanFollowsAction'
  BY PhaseKept DEF planVars
<1> QED
  BY <1>1, <1>2, <1>3

LEMMA ReadPlanInv ==
    ASSUME PipelineInv, TypeInv', Later, Extended, NEW w \in Workers, ReadPlan(w)
    PROVE  PipelineTypeOK' /\ (\A v \in Workers : PlannerSound(v)') /\ PlanFollowsAction'
<1>1. PICK pc \in {"reject", "defaults", "generate"} :
         planner' = [planner EXCEPT ![w].pc = pc,
                       ![w].planVersion = planCache[w].resourceVersion]
  BY DEF ReadPlan
<1>2. planCache[w].resourceVersion \in Nat /\ planner[w] \in PlannerStates
      /\ planner \in [Workers -> PlannerStates]
  BY DEF PipelineInv, PipelineTypeOK, Plans
<1>3. /\ planner' \in [Workers -> PlannerStates]
      /\ planner'[w].pc = pc
      /\ \A v \in Workers \ {w} : planner'[v] = planner[v]
  BY <1>1, <1>2 DEF PlannerStates
<1>4. PlannerSound(w)'
  BY <1>3 DEF PlannerSound, PlannerAt
<1>5. \A v \in Workers : PlannerSound(v)'
  BY <1>3, <1>4, PlannerKept
<1>6. PlanFollowsAction'
  BY PhaseKept DEF ReadPlan
<1> QED
  BY <1>3, <1>5, <1>6 DEF ReadPlan, PipelineInv, PipelineTypeOK

LEMMA PersistDefaultsInv ==
    ASSUME PipelineInv, TypeInv', Later, Extended, NEW w \in Workers,
           PersistDefaults(w)
    PROVE  PipelineTypeOK' /\ (\A v \in Workers : PlannerSound(v)') /\ PlanFollowsAction'
<1>1. CASE PlanCurrent(planner[w].planVersion)
  <2>1. /\ PlanWritten([plan EXCEPT !.defaulted = TRUE])
        /\ planner' = [planner EXCEPT ![w].pc = "generate", ![w].planVersion = @ + 1]
    BY <1>1 DEF PersistDefaults
  <2>2. /\ [plan EXCEPT !.defaulted = TRUE] \in Plans
        /\ [plan EXCEPT !.defaulted = TRUE].phase = plan.phase
    BY DEF PipelineInv, PipelineTypeOK, Plans
  <2>3. plan' \in Plans /\ plan'.phase = plan.phase
    BY <2>1, <2>2, PlanWrittenType
  <2>4. planner[w].planVersion + 1 \in Nat /\ planner \in [Workers -> PlannerStates]
    BY DEF PipelineInv, PipelineTypeOK, PlannerStates
  <2>5. /\ planner' \in [Workers -> PlannerStates]
        /\ planner'[w].pc = "generate"
        /\ \A v \in Workers \ {w} : planner'[v] = planner[v]
    BY <2>1, <2>4 DEF PlannerStates
  <2>6. PlannerSound(w)'
    BY <2>5 DEF PlannerSound, PlannerAt
  <2>7. \A v \in Workers : PlannerSound(v)'
    BY <2>5, <2>6, PlannerKept
  <2>8. PlanFollowsAction'
    BY <2>3, PhaseKept
  <2> QED
    BY <2>3, <2>5, <2>7, <2>8 DEF PersistDefaults, PipelineInv, PipelineTypeOK
<1>2. CASE ~ PlanCurrent(planner[w].planVersion)
  <2>1. PlannerReturns(w) /\ UNCHANGED plan
    BY <1>2 DEF PersistDefaults
  <2>2. PlanFollowsAction'
    BY <2>1, PhaseKept
  <2> QED
    BY <2>1, <2>2, PlannersKept DEF PersistDefaults, PipelineInv, PipelineTypeOK
<1> QED
  BY <1>1, <1>2

LEMMA GeneratedCarries ==
    ASSUME NEW a \in Actions, NEW c \in Contents, NEW auto \in BOOLEAN
    PROVE  /\ Generated(a, c, auto).resourceVersion = a.resourceVersion + 1
           /\ UpToDate(Generated(a, c, auto), c, auto)
<1>1. \A by : /\ NewAction(c, by).resourceVersion = 1
              /\ NewAction(c, by).content = c
              /\ NewAction(c, by).approvedBy = by
  BY DEF NewAction
<1> QED
  BY <1>1 DEF Generated, UpToDate, Actions

\* The Reconcile goes on with the version that carries what was decided.
LEMMA ContinueSound ==
    ASSUME PipelineInv, TypeInv', Later, Extended, NEW w \in Workers,
           NEW version \in Nat,
           planner' = [planner EXCEPT ![w].pc = "decide",
                                      ![w].decision = policy.decision,
                                      ![w].crd = policy.crd,
                                      ![w].version = version],
           version <= action'.resourceVersion,
           version = action'.resourceVersion =>
               UpToDate(action', policy.content, policy.decision = "auto")
    PROVE  /\ planner' \in [Workers -> PlannerStates]
           /\ \A v \in Workers : PlannerSound(v)'
<1>1. /\ policy.decision \in Decisions
      /\ policy.crd \in PolicyObjects
      /\ policy.crd \in BOOLEAN
      /\ policy.content \in PlanContents[policy.decision]
  BY PolicyType DEF PipelineInv, PipelineTypeOK
<1>2. planner \in [Workers -> PlannerStates]
  BY DEF PipelineInv, PipelineTypeOK
<1>3. /\ planner' \in [Workers -> PlannerStates]
      /\ planner'[w].pc = "decide"
      /\ planner'[w].decision = policy.decision
      /\ planner'[w].crd = policy.crd
      /\ planner'[w].version = version
      /\ \A v \in Workers \ {w} : planner'[v] = planner[v]
  <2> DEFINE r == [planner[w] EXCEPT !.pc = "decide", !.decision = policy.decision,
                                     !.crd = policy.crd, !.version = version]
  <2>1. planner[w] \in PlannerStates
    BY <1>2
  <2>2. /\ r \in PlannerStates
        /\ r.pc = "decide" /\ r.decision = policy.decision
        /\ r.crd = policy.crd /\ r.version = version
    BY <1>1, <2>1 DEF PlannerStates
  <2>3. planner' = [planner EXCEPT ![w] = r]
    BY <1>2
  <2> HIDE DEF r
  <2> QED
    BY <1>2, <2>2, <2>3
<1>4. Carries(planner[w].version, planner[w].decision)'
  BY <1>1, <1>3 DEF Carries, UpToDate
<1>5. PlannerSound(w)'
  BY <1>1, <1>3, <1>4 DEF PlannerSound, PlannerAt
<1> QED
  BY <1>3, <1>5, PlannerKept

LEMMA CreateOrUpdateInv ==
    ASSUME PipelineInv, TypeInv', Later, Extended, NEW w \in Workers,
           CreateOrUpdateAction(w)
    PROVE  PipelineTypeOK' /\ (\A v \in Workers : PlannerSound(v)') /\ PlanFollowsAction'
<1> DEFINE auto == policy.decision = "auto"
           a == cache[w]
           current == a.exists /\ UpToDate(a, policy.content, auto)
           Continue(version) ==
               planner' = [planner EXCEPT ![w].pc = "decide",
                                          ![w].decision = policy.decision,
                                          ![w].crd = policy.crd,
                                          ![w].version = version]
<1>1. /\ action \in Actions /\ a \in Actions
      /\ action.resourceVersion \in Nat /\ a.resourceVersion \in Nat
      /\ CacheCoherent(w)
  BY DEF PipelineInv, TypeInv, TypeOK, DispatchInv, Actions
<1>2. policy.content \in Contents /\ auto \in BOOLEAN
  BY PolicyType DEF PipelineInv, PipelineTypeOK
<1>3. /\ planner' \in [Workers -> PlannerStates]
      /\ \A v \in Workers : PlannerSound(v)'
  <2>1. CASE /\ action' = Generated(action, policy.content, auto)
             /\ Continue(action.resourceVersion + 1)
    <3>1. /\ action'.resourceVersion = action.resourceVersion + 1
          /\ UpToDate(action', policy.content, auto)
      BY <1>1, <1>2, <2>1, GeneratedCarries
    <3>2. action.resourceVersion + 1 \in Nat
          /\ action.resourceVersion + 1 <= action'.resourceVersion
      BY <1>1, <3>1
    <3> QED
      BY <2>1, <3>1, <3>2, ContinueSound
  <2>2. CASE current /\ Continue(a.resourceVersion) /\ UNCHANGED action
    <3>1. a.resourceVersion <= action'.resourceVersion
      BY <1>1, <2>2 DEF CacheCoherent
    <3>2. a.resourceVersion = action'.resourceVersion =>
            UpToDate(action', policy.content, auto)
      BY <1>1, <2>2 DEF CacheCoherent, UpToDate
    <3> QED
      BY <1>1, <2>2, <3>1, <3>2, ContinueSound
  <2>3. CASE PlannerReturns(w)
    BY <2>3, PlannersKept
  <2> QED
    BY <2>1, <2>2, <2>3 DEF CreateOrUpdateAction, GeneratesThen
<1>4. UNCHANGED <<plan, planCache, cleaner, policy, failures>>
  BY DEF CreateOrUpdateAction, GeneratesThen
<1>5. PlanFollowsAction'
  BY <1>4, PhaseKept
<1> QED
  BY <1>3, <1>4, <1>5 DEF PipelineInv, PipelineTypeOK

LEMMA RecordDecisionInv ==
    ASSUME PipelineInv, TypeInv', Later, Extended, NEW w \in Workers,
           RecordDecision(w)
    PROVE  PipelineTypeOK' /\ (\A v \in Workers : PlannerSound(v)') /\ PlanFollowsAction'
<1>1. UNCHANGED <<plan, planCache, cleaner, policy, failures>>
  BY DEF RecordDecision
<1>2. /\ planner' \in [Workers -> PlannerStates]
      /\ \A v \in Workers : PlannerSound(v)'
  <2>1. CASE PlannerReturns(w)
    BY <2>1, PlannersKept
  <2>2. CASE /\ decisions' = Append(decisions, planner[w].decision)
             /\ planner' = [planner EXCEPT ![w].pc = "record"]
    <3>1. /\ planner \in [Workers -> PlannerStates]
          /\ planner[w].decision \in Decisions
          /\ decisions \in Seq(Decisions)
      BY DEF PipelineInv, PipelineTypeOK, PlannerStates, TypeInv, TypeOK
    <3>2. /\ planner' \in [Workers -> PlannerStates]
          /\ planner'[w].pc = "record"
          /\ planner'[w].decision = planner[w].decision
          /\ \A v \in Workers \ {w} : planner'[v] = planner[v]
      BY <2>2, <3>1 DEF PlannerStates
    <3>3. Recorded(planner[w].decision)'
      <4>1. /\ Len(decisions)' = Len(decisions) + 1
            /\ decisions'[Len(decisions) + 1] = planner[w].decision
            /\ Len(decisions) + 1 \in 1 .. Len(decisions)'
        BY <2>2, <3>1
      <4> QED
        BY <3>2, <4>1 DEF Recorded
    <3>4. PlannerSound(w)'
      BY <3>2, <3>3 DEF PlannerSound, PlannerAt
    <3> QED
      BY <3>2, <3>4, PlannerKept
  <2> QED
    BY <2>1, <2>2 DEF RecordDecision
<1>3. PlanFollowsAction'
  BY <1>1, PhaseKept
<1> QED
  BY <1>1, <1>2, <1>3 DEF PipelineInv, PipelineTypeOK

\* The plan's status shows the decision that is in the action already.
LEMMA RecordPlanInv ==
    ASSUME PipelineInv, TypeInv', Later, Extended, NEW w \in Workers, RecordPlan(w)
    PROVE  PipelineTypeOK' /\ (\A v \in Workers : PlannerSound(v)') /\ PlanFollowsAction'
<1>1. PlannerReturns(w) /\ UNCHANGED <<vars, planCache, cleaner, policy, failures>>
  BY DEF RecordPlan
<1>2. /\ planner' \in [Workers -> PlannerStates]
      /\ \A v \in Workers : PlannerSound(v)'
  BY <1>1, PlannersKept
<1>3. plan' \in Plans /\ PlanFollowsAction'
  <2>1. CASE UNCHANGED plan
    BY <2>1, PhaseKept DEF PipelineInv, PipelineTypeOK
  <2>2. CASE PlanWritten([plan EXCEPT
                !.phase = PlanPhase(planner[w].decision),
                !.finishedAt = IF planner[w].decision = "reject" THEN now ELSE @])
    <3> DEFINE p == [plan EXCEPT
                !.phase = PlanPhase(planner[w].decision),
                !.finishedAt = IF planner[w].decision = "reject" THEN now ELSE @]
    <3>1. /\ planner[w].decision \in Decisions /\ plan \in Plans /\ now \in Int
          /\ plan.finishedAt \in Int
      BY DEF PipelineInv, PipelineTypeOK, PlannerStates, TypeInv, TypeOK, Plans
    <3>2. PlanPhase(planner[w].decision) \in PlanPhases
      BY <3>1 DEF PlanPhase, PlanPhases, Decisions
    <3>3. p \in Plans /\ p.phase = PlanPhase(planner[w].decision)
      BY <3>1, <3>2 DEF Plans
    <3> HIDE DEF p
    <3>4. plan' \in Plans /\ plan'.phase = PlanPhase(planner[w].decision)
      BY <2>2, <3>3, PlanWrittenType DEF p
    <3>5. Recorded(planner[w].decision)
      BY DEF PipelineInv, PlannerSound, RecordPlan
    <3>6. decisions' = decisions
      BY <1>1 DEF vars
    <3>7. /\ plan'.phase = "Approved" => planner[w].decision = "auto"
          /\ plan'.phase = "WaitingApproval" => planner[w].decision = "manual"
      BY <3>1, <3>4 DEF PlanPhase, Decisions
    <3> QED
      BY <3>4, <3>5, <3>6, <3>7 DEF PlanFollowsAction, Recorded
  <2> QED
    BY <2>1, <2>2 DEF RecordPlan
<1> QED
  BY <1>1, <1>2, <1>3 DEF PipelineInv, PipelineTypeOK

LEMMA RejectForThresholdInv ==
    ASSUME PipelineInv, TypeInv', Later, Extended, NEW w \in Workers,
           RejectForThreshold(w)
    PROVE  PipelineTypeOK' /\ (\A v \in Workers : PlannerSound(v)') /\ PlanFollowsAction'
<1>1. PlannerReturns(w) /\ UNCHANGED <<vars, planCache, cleaner, policy, failures>>
  BY DEF RejectForThreshold
<1>2. /\ planner' \in [Workers -> PlannerStates]
      /\ \A v \in Workers : PlannerSound(v)'
  BY <1>1, PlannersKept
<1>3. plan' \in Plans /\ PlanFollowsAction'
  <2>1. CASE UNCHANGED plan
    BY <2>1, PhaseKept DEF PipelineInv, PipelineTypeOK
  <2>2. CASE PlanWritten([plan EXCEPT !.phase = "Rejected", !.finishedAt = now])
    <3>1. /\ [plan EXCEPT !.phase = "Rejected", !.finishedAt = now] \in Plans
          /\ [plan EXCEPT !.phase = "Rejected", !.finishedAt = now].phase = "Rejected"
      <4>1. plan \in Plans /\ now \in Int /\ "Rejected" \in PlanPhases
        BY DEF PipelineInv, PipelineTypeOK, TypeInv, TypeOK, PlanPhases
      <4> QED
        BY <4>1 DEF Plans
    <3>2. plan' \in Plans /\ plan'.phase = "Rejected"
      BY <2>2, <3>1, PlanWrittenType
    <3> QED
      BY <3>2 DEF PlanFollowsAction
  <2> QED
    BY <2>1, <2>2 DEF RejectForThreshold
<1> QED
  BY <1>1, <1>2, <1>3 DEF PipelineInv, PipelineTypeOK

\* Stamps, deletions, informer updates, new policies and failures.
LEMMA OtherPlanStepsInv ==
    ASSUME PipelineInv, TypeInv', Later, Extended,
           \/ \E w \in Workers : \/ PlannerFails(w) \/ PlanCleanup(w) \/ PlanCacheSync(w)
           \/ ChangePolicy
           \/ RetainPlan
    PROVE  PipelineTypeOK' /\ (\A v \in Workers : PlannerSound(v)') /\ PlanFollowsAction'
<1>1. /\ plan \in Plans /\ planCache \in [Workers -> Plans]
      /\ cleaner \in [Workers -> CleanerStates]
      /\ policy \in PolicyResults /\ failures \in Nat
  BY DEF PipelineInv, PipelineTypeOK
<1>2. ASSUME plan' \in Plans, plan'.phase = plan.phase, planner' = planner,
             planCache' \in [Workers -> Plans],
             cleaner' \in [Workers -> CleanerStates],
             policy' \in PolicyResults, failures' \in Nat
      PROVE  PipelineTypeOK' /\ (\A v \in Workers : PlannerSound(v)')
             /\ PlanFollowsAction'
  <2>1. \A v \in Workers : PlannerSound(v)'
    BY <1>2, PlannerKept
  <2>2. PlanFollowsAction'
    BY <1>2, PhaseKept
  <2> QED
    BY <1>2, <2>1, <2>2 DEF PipelineInv, PipelineTypeOK
<1>3. /\ CleanerIdle \in CleanerStates
      /\ [CleanerIdle EXCEPT !.pc = "delete"] \in CleanerStates
  BY DEF CleanerIdle, CleanerStates
<1>4. ASSUME NEW w \in Workers, PlannerFails(w)
      PROVE  PipelineTypeOK' /\ (\A v \in Workers : PlannerSound(v)')
             /\ PlanFollowsAction'
  <2>1. failures' \in Nat /\ UNCHANGED <<plan, planCache, cleaner, policy>>
    BY <1>1, <1>4 DEF PlannerFails
  <2>2. PlanFollowsAction'
    BY <2>1, PhaseKept
  <2> QED
    BY <1>1, <1>4, <2>1, <2>2, PlannersKept DEF PlannerFails, PipelineTypeOK
<1>5. ASSUME NEW w \in Workers, ReadFinished(w)
      PROVE  PipelineTypeOK' /\ (\A v \in Workers : PlannerSound(v)')
             /\ PlanFollowsAction'
  <2>1. cleaner' \in [Workers -> CleanerStates]
    <3>1. planCache[w].resourceVersion \in Nat /\ terminalFinishedAt(w) \in Int
      <4>1. planCache[w].resourceVersion \in Nat
        BY <1>1 DEF Plans
      <4>2. cache[w].finishedAt \in Int
        BY DEF PipelineInv, TypeInv, TypeOK, Actions
      <4> QED
        BY <4>1, <4>2 DEF terminalFinishedAt
    <3>2. [pc |-> "stamp", planVersion |-> planCache[w].resourceVersion,
           finishedAt |-> terminalFinishedAt(w)] \in CleanerStates
      BY <3>1 DEF CleanerStates
    <3> QED
      BY <1>1, <1>3, <1>5, <3>2 DEF ReadFinished
  <2> QED
    BY <1>1, <1>2, <1>5, <2>1 DEF ReadFinished
<1>6. ASSUME NEW w \in Workers, StampFinished(w)
      PROVE  PipelineTypeOK' /\ (\A v \in Workers : PlannerSound(v)')
             /\ PlanFollowsAction'
  <2>1. cleaner' \in [Workers -> CleanerStates]
    BY <1>1, <1>3, <1>6 DEF StampFinished
  <2>2. plan' \in Plans /\ plan'.phase = plan.phase
    <3>1. /\ [plan EXCEPT !.finishedAt = cleaner[w].finishedAt] \in Plans
          /\ [plan EXCEPT !.finishedAt = cleaner[w].finishedAt].phase = plan.phase
      BY <1>1 DEF Plans, CleanerStates
    <3> QED
      BY <1>1, <1>6, <3>1, PlanWrittenType DEF StampFinished
  <2> QED
    BY <1>1, <1>2, <1>6, <2>1, <2>2 DEF StampFinished
<1>7. ASSUME NEW w \in Workers, DeletePlan(w)
      PROVE  PipelineTypeOK' /\ (\A v \in Workers : PlannerSound(v)')
             /\ PlanFollowsAction'
  <2>1. cleaner' \in [Workers -> CleanerStates]
    BY <1>1, <1>3, <1>7 DEF DeletePlan
  <2>2. plan' \in Plans /\ plan'.phase = plan.phase
    <3>1. /\ [plan EXCEPT !.exists = FALSE] \in Plans
          /\ [plan EXCEPT !.exists = FALSE].phase = plan.phase
      BY <1>1 DEF Plans
    <3> QED
      BY <1>1, <1>7, <3>1, PlanWrittenType DEF DeletePlan
  <2> QED
    BY <1>1, <1>2, <1>7, <2>1, <2>2 DEF DeletePlan
<1>8. ASSUME NEW w \in Workers, PlanCacheSync(w)
      PROVE  PipelineTypeOK' /\ (\A v \in Workers : PlannerSound(v)')
             /\ PlanFollowsAction'
  BY <1>1, <1>2, <1>8 DEF PlanCacheSync
<1>9. CASE ChangePolicy
  BY <1>1, <1>2, <1>9 DEF ChangePolicy
<1>10. CASE RetainPlan
  <2>1. /\ [plan EXCEPT !.retain = TRUE] \in Plans
        /\ [plan EXCEPT !.retain = TRUE].phase = plan.phase
    BY <1>1 DEF Plans
  <2>2. plan' \in Plans /\ plan'.phase = plan.phase
    BY <1>10, <2>1, PlanWrittenType DEF RetainPlan
  <2> QED
    BY <1>1, <1>2, <1>10, <2>2 DEF RetainPlan
<1> QED
  BY <1>4, <1>5, <1>6, <1>7, <1>8, <1>9, <1>10 DEF PlanCleanup

-----------------------------------------------------------------------------
LEMMA PipelineInvInit == PipelineInit => PipelineInv
<1> SUFFICES ASSUME PipelineInit PROVE PipelineInv
  OBVIOUS
<1>1. TypeInv /\ DispatchInv
  BY TypeInvInit, DispatchInvInit DEF PipelineInit
<1>2. plan \in Plans /\ plan.phase = Undecided
  <2>1. Undecided \in PlanPhases
    BY DEF PlanPhases
  <2> QED
    BY <2>1 DEF PipelineInit, Plans
<1>3. \A w \in Workers : planner[w].pc = "idle"
  BY DEF PipelineInit, PlannerIdle
<1>4. PipelineTypeOK
  <2>1. CleanerIdle \in CleanerStates
    BY DEF CleanerIdle, CleanerStates
  <2> QED
    BY <1>2, <2>1, PlannerIdleType DEF PipelineInit, PipelineTypeOK
<1>5. \A w \in Workers : PlannerSound(w)
  BY <1>3 DEF PlannerSound, PlannerAt
<1>6. PlanFollowsAction
  <2>1. Undecided # "Approved" /\ Undecided # "WaitingApproval"
    BY Zenon DEF Undecided
  <2> QED
    BY <1>2, <2>1 DEF PlanFollowsAction
<1> QED
  BY <1>1, <1>4, <1>5, <1>6 DEF PipelineInv

LEMMA PipelineInvNext == PipelineInv /\ [PipelineNext]_pipelineVars => PipelineInv'
<1> SUFFICES ASSUME PipelineInv, [PipelineNext]_pipelineVars PROVE PipelineInv'
  OBVIOUS
<1>1. [Next]_vars
  BY PipelineRefines
<1>2. TypeInv' /\ DispatchInv'
  BY <1>1, TypeInvNext, DispatchInvNext DEF PipelineInv
<1>3. Later /\ Extended
  BY <1>1, NextIsLater, NextExtends DEF PipelineInv
<1>4. PipelineTypeOK' /\ (\A w \in Workers : PlannerSound(w)') /\ PlanFollowsAction'
  <2>1. CASE UNCHANGED planVars
    BY <1>2, <1>3, <2>1, ActionStepsInv
  <2>2. ASSUME NEW w \in Workers, PlanReconcile(w)
        PROVE  PipelineTypeOK' /\ (\A v \in Workers : PlannerSound(v)')
               /\ PlanFollowsAction'
    BY <1>2, <1>3, <2>2, ReadPlanInv, PersistDefaultsInv, CreateOrUpdateInv,
       RecordDecisionInv, RecordPlanInv, RejectForThresholdInv DEF PlanReconcile
  <2>3. CASE PlanSteps
    BY <1>2, <1>3, <2>2, <2>3, OtherPlanStepsInv DEF PlanSteps
  <2> QED
    BY <2>1, <2>3 DEF PipelineNext, ActionSteps, pipelineVars
<1> QED
  BY <1>2, <1>4 DEF PipelineInv

\* The inductive invariant: AgentAction's own, and what a plan's Reconcile in
\* progress knows of the action's version and of the decisions recorded.
THEOREM PipelineInvariant == PipelineSpec => []PipelineInv
BY PipelineInvInit, PipelineInvNext, PTL DEF PipelineSpec

\* The pipeline implements AgentAction: RemediationPlanReconciler writes the
\* action's spec and status only as Generate and Decide allow, for any number
\* of replicas, stale caches, conflicts, failures and changes of policy.
THEOREM PipelineImplementsAction == PipelineSpec => ImplementsAction
<1>1. PipelineInit => Init
  BY DEF PipelineInit
<1>2. PipelineInv /\ [PipelineNext]_pipelineVars => [Next]_vars
  BY PipelineRefines
<1> QED
  BY <1>1, <1>2, PipelineInvariant, PTL DEF PipelineSpec, ImplementsAction, Spec

\* A plan that shows a decision has recorded it in its action first: the two
\* status writes of RemediationPlanReconciler.Reconcile are never reordered
\* by a conflict, a crash or another replica.
THEOREM PlanFollows == PipelineSpec => []PlanFollowsAction
<1>1. PipelineInv => PlanFollowsAction
  BY DEF PipelineInv
<1> QED
  BY <1>1, PipelineInvariant, PTL

\* So one decision is dispatched at most once, and nothing without authority,
\* in the pipeline with its real decision maker.
THEOREM PipelineDispatchSafe ==
    PipelineSpec => [](DispatchOncePerDecision /\ DispatchAuthorised)
<1>1. PipelineInv => DispatchOncePerDecision /\ DispatchAuthorised
  BY DEF PipelineInv, DispatchInv, UsesDistinct
<1> QED
  BY <1>1, PipelineInvariant, PTL
-----------------------------------------------------------------------------
(***************************************************************************)
(* The end of a plan.  Its action is deleted with it, so the plan may be   *)
(* marked finished, and deleted, only when its action is over.  What the   *)
(* TTL controller concludes from its cache stays true, because with one    *)
(* replica and one decision a finished action stays finished, and because  *)
(* a rejected plan stays rejected: the phase is written only in a version  *)
(* of the plan that has none.                                              *)
(***************************************************************************)
Over == Terminal(action) \/ plan.phase = "Rejected"

PlanOver == plan.finishedAt # Never \/ ~ plan.exists => Over

\* The cached plan.
CacheKnows(w) ==
    /\ planCache[w].finishedAt # Never => Over
    /\ planCache[w].resourceVersion <= plan.resourceVersion
    /\ planCache[w].resourceVersion = plan.resourceVersion =>
          planCache[w].phase = plan.phase

\* The TTL controller, and the plan controller, in the middle of a Reconcile.
CleanerKnows(w) == ~ CleanerAt(w, "idle") => Over

PlannerKnows(w) ==
    ~ PlannerAt(w, "idle") =>
        /\ planner[w].planVersion <= plan.resourceVersion
        /\ planner[w].planVersion = plan.resourceVersion => plan.phase = Undecided

PlanEndInv ==
    /\ PlanOver
    /\ \A w \in Workers : CacheKnows(w) /\ CleanerKnows(w) /\ PlannerKnows(w)

LEMMA UndecidedIsNot == Undecided # "Rejected"
BY Zenon DEF Undecided

LEMMA PlanTypes ==
    ASSUME PipelineTypeOK
    PROVE  /\ plan \in Plans /\ plan.resourceVersion \in Nat
           /\ \A w \in Workers :
                /\ planCache[w] \in Plans
                /\ planCache[w].resourceVersion \in Nat
                /\ planner[w] \in PlannerStates
                /\ planner[w].planVersion \in Nat
                /\ cleaner[w] \in CleanerStates
BY DEF PipelineTypeOK, Plans, PlannerStates

LEMMA PlanWrittenFields ==
    ASSUME NEW p \in Plans, PlanWritten(p)
    PROVE  /\ plan'.resourceVersion = p.resourceVersion + 1
           /\ plan'.exists = p.exists
           /\ plan'.phase = p.phase
           /\ plan'.finishedAt = p.finishedAt
BY DEF PlanWritten, Plans

\* The plan moves on: it is not written, or its next version keeps a
\* rejection and is finished only if its action is over.
Moves ==
    \/ plan' = plan
    \/ /\ plan'.resourceVersion = plan.resourceVersion + 1
       /\ plan.phase = "Rejected" => plan'.phase = "Rejected"
       /\ PlanOver'

LEMMA OverStays ==
    ASSUME Follows(action, action'), Moves, Over
    PROVE  Over'
BY DEF Follows, Terminal, Moves, Over

\* What was concluded before stays true.
LEMMA EndStep ==
    ASSUME PipelineTypeOK, PlanEndInv, Follows(action, action'), Moves,
           planCache' = planCache,
           \A v \in Workers :
               /\ cleaner'[v] = cleaner[v] \/ CleanerKnows(v)'
               /\ planner'[v] = planner[v] \/ PlannerKnows(v)'
    PROVE  PlanEndInv'
<1>1. Over => Over'
  BY OverStays
<1>2. PlanOver'
  BY <1>1 DEF Moves, PlanEndInv, PlanOver
<1>3. ASSUME NEW w \in Workers PROVE CacheKnows(w)'
  <2>1. CacheKnows(w)
    BY DEF PlanEndInv
  <2>2. CASE plan' = plan
    BY <1>1, <2>1, <2>2 DEF CacheKnows
  <2>3. CASE plan'.resourceVersion = plan.resourceVersion + 1
    BY <1>1, <2>1, <2>3, PlanTypes DEF CacheKnows
  <2> QED
    BY <2>2, <2>3 DEF Moves
<1>4. ASSUME NEW w \in Workers PROVE CleanerKnows(w)'
  BY <1>1 DEF PlanEndInv, CleanerKnows, CleanerAt
<1>5. ASSUME NEW w \in Workers PROVE PlannerKnows(w)'
  <2>1. PlannerKnows(w)
    BY DEF PlanEndInv
  <2>2. CASE planner'[w] = planner[w] /\ plan' = plan
    BY <2>1, <2>2 DEF PlannerKnows, PlannerAt
  <2>3. CASE planner'[w] = planner[w] /\ plan'.resourceVersion = plan.resourceVersion + 1
    BY <2>1, <2>3, PlanTypes DEF PlannerKnows, PlannerAt
  <2> QED
    BY <2>2, <2>3 DEF Moves
<1> QED
  BY <1>2, <1>3, <1>4, <1>5 DEF PlanEndInv

\* A Reconcile of w that returns concludes nothing.
LEMMA ReturnsKnows ==
    ASSUME PipelineTypeOK, NEW w \in Workers, PlannerReturns(w)
    PROVE  \A v \in Workers : planner'[v] = planner[v] \/ PlannerKnows(v)'
BY PlannerReturnsType DEF PlannerKnows, PlannerAt

-----------------------------------------------------------------------------
(***************************************************************************)
(* One lemma for each step of the plan's controllers.                      *)
(***************************************************************************)
LEMMA ReadPlanEnd ==
    ASSUME PipelineTypeOK, PlanEndInv, Follows(action, action'),
           NEW w \in Workers, ReadPlan(w)
    PROVE  PlanEndInv'
<1>1. PICK pc \in {"reject", "defaults", "generate"} :
         planner' = [planner EXCEPT ![w].pc = pc,
                       ![w].planVersion = planCache[w].resourceVersion]
  BY DEF ReadPlan
<1>2. planner \in [Workers -> PlannerStates]
  BY DEF PipelineTypeOK
<1>3. /\ planner'[w].planVersion = planCache[w].resourceVersion
      /\ \A v \in Workers \ {w} : planner'[v] = planner[v]
  BY <1>1, <1>2 DEF PlannerStates
<1>4. /\ planCache[w].phase = Undecided /\ CacheKnows(w)
      /\ UNCHANGED <<plan, planCache, cleaner>>
  BY DEF ReadPlan, PlanEndInv
<1>5. PlannerKnows(w)'
  BY <1>3, <1>4 DEF CacheKnows, PlannerKnows
<1> QED
  BY <1>3, <1>4, <1>5, EndStep DEF Moves

LEMMA PersistDefaultsEnd ==
    ASSUME PipelineTypeOK, PlanEndInv, Follows(action, action'),
           NEW w \in Workers, PersistDefaults(w)
    PROVE  PlanEndInv'
<1>1. UNCHANGED <<planCache, cleaner>> /\ PlannerAt(w, "defaults")
  BY DEF PersistDefaults
<1>2. CASE PlanCurrent(planner[w].planVersion)
  <2> DEFINE p == [plan EXCEPT !.defaulted = TRUE]
  <2>1. /\ p \in Plans /\ p.resourceVersion = plan.resourceVersion
        /\ p.exists = plan.exists /\ p.phase = plan.phase
        /\ p.finishedAt = plan.finishedAt
    BY PlanTypes DEF Plans
  <2>2. PlanWritten(p)
    BY <1>2 DEF PersistDefaults
  <2> HIDE DEF p
  <2>3. /\ plan'.resourceVersion = plan.resourceVersion + 1
        /\ plan'.exists = plan.exists /\ plan'.phase = plan.phase
        /\ plan'.finishedAt = plan.finishedAt
    BY <2>1, <2>2, PlanWrittenFields
  <2>4. planner \in [Workers -> PlannerStates]
        /\ planner' = [planner EXCEPT ![w].pc = "generate", ![w].planVersion = @ + 1]
    BY <1>2 DEF PipelineTypeOK, PersistDefaults
  <2>5. /\ planner'[w].planVersion = planner[w].planVersion + 1
        /\ \A v \in Workers \ {w} : planner'[v] = planner[v]
    BY <2>4 DEF PlannerStates
  <2>6. plan.phase = Undecided /\ planner[w].planVersion = plan.resourceVersion
    BY <1>1, <1>2 DEF PlanCurrent, PlanEndInv, PlannerKnows, PlannerAt
  <2>7. PlannerKnows(w)'
    BY <2>3, <2>5, <2>6, PlanTypes DEF PlannerKnows
  <2>8. Over => Over'
    BY <2>3 DEF Over, Follows, Terminal
  <2>9. Moves
    BY <2>3, <2>8 DEF Moves, PlanOver, PlanEndInv
  <2> QED
    BY <1>1, <2>5, <2>7, <2>9, EndStep
<1>3. CASE ~ PlanCurrent(planner[w].planVersion)
  <2>1. PlannerReturns(w) /\ UNCHANGED plan
    BY <1>3 DEF PersistDefaults
  <2> QED
    BY <1>1, <2>1, ReturnsKnows, EndStep DEF Moves
<1> QED
  BY <1>2, <1>3

\* A Reconcile that goes on with the plan it holds.
LEMMA GoesOn ==
    ASSUME PipelineTypeOK, PlanEndInv, Follows(action, action'),
           NEW w \in Workers, ~ PlannerAt(w, "idle"),
           UNCHANGED <<plan, planCache, cleaner>>,
           planner'[w].planVersion = planner[w].planVersion,
           \A v \in Workers \ {w} : planner'[v] = planner[v]
    PROVE  PlanEndInv'
<1>1. PlannerKnows(w)'
  BY DEF PlanEndInv, PlannerKnows
<1> QED
  BY <1>1, EndStep DEF Moves

LEMMA CreateOrUpdateEnd ==
    ASSUME PipelineTypeOK, PlanEndInv, Follows(action, action'),
           NEW w \in Workers, CreateOrUpdateAction(w)
    PROVE  PlanEndInv'
<1>1. UNCHANGED <<plan, planCache, cleaner>> /\ ~ PlannerAt(w, "idle")
  BY DEF CreateOrUpdateAction, GeneratesThen, PlannerAt
<1>2. CASE PlannerReturns(w)
  BY <1>1, <1>2, ReturnsKnows, EndStep DEF Moves
<1>3. ASSUME NEW version,
             planner' = [planner EXCEPT ![w].pc = "decide",
                                        ![w].decision = policy.decision,
                                        ![w].crd = policy.crd,
                                        ![w].version = version]
      PROVE  PlanEndInv'
  <2>1. planner \in [Workers -> PlannerStates]
    BY DEF PipelineTypeOK
  <2>2. /\ planner'[w].planVersion = planner[w].planVersion
        /\ \A v \in Workers \ {w} : planner'[v] = planner[v]
    BY <1>3, <2>1 DEF PlannerStates
  <2> QED
    BY <1>1, <2>2, GoesOn
<1> QED
  BY <1>2, <1>3 DEF CreateOrUpdateAction, GeneratesThen

LEMMA RecordDecisionEnd ==
    ASSUME PipelineTypeOK, PlanEndInv, Follows(action, action'),
           NEW w \in Workers, RecordDecision(w)
    PROVE  PlanEndInv'
<1>1. UNCHANGED <<plan, planCache, cleaner>> /\ ~ PlannerAt(w, "idle")
  BY DEF RecordDecision, PlannerAt
<1>2. CASE PlannerReturns(w)
  BY <1>1, <1>2, ReturnsKnows, EndStep DEF Moves
<1>3. CASE planner' = [planner EXCEPT ![w].pc = "record"]
  <2>1. planner \in [Workers -> PlannerStates]
    BY DEF PipelineTypeOK
  <2>2. /\ planner'[w].planVersion = planner[w].planVersion
        /\ \A v \in Workers \ {w} : planner'[v] = planner[v]
    BY <1>3, <2>1 DEF PlannerStates
  <2> QED
    BY <1>1, <2>2, GoesOn
<1> QED
  BY <1>2, <1>3 DEF RecordDecision
\* The plan's status is written in a version that has no phase, so it takes
\* no rejection back; a plan it marks as finished it rejects.
LEMMA RecordPlanEnd ==
    ASSUME PipelineTypeOK, TypeInv, PlanEndInv, Follows(action, action'),
           NEW w \in Workers, RecordPlan(w)
    PROVE  PlanEndInv'
<1>1. /\ UNCHANGED <<planCache, cleaner>> /\ PlannerAt(w, "record")
      /\ PlannerReturns(w)
  BY DEF RecordPlan
<1>2. CASE PlanCurrent(planner[w].planVersion)
  <2> DEFINE d == planner[w].decision
             at == IF d = "reject" THEN now ELSE plan.finishedAt
             p == [plan EXCEPT !.phase = PlanPhase(d), !.finishedAt = at]
  <2>1. d \in Decisions /\ plan \in Plans /\ now \in Int /\ plan.finishedAt \in Int
    BY PlanTypes DEF PlannerStates, TypeInv, TypeOK, Plans
  <2>2. PlanPhase(d) \in PlanPhases /\ at \in Int
    BY <2>1 DEF PlanPhase, PlanPhases, Decisions
  <2>3. d = "reject" => PlanPhase(d) = "Rejected"
    BY DEF PlanPhase
  <2>4. PlanWritten(p)
    BY <1>2 DEF RecordPlan
  <2> HIDE DEF at, d
  <2>5. /\ p \in Plans /\ p.resourceVersion = plan.resourceVersion
        /\ p.exists = plan.exists /\ p.phase = PlanPhase(d)
        /\ p.finishedAt = at
    BY <2>1, <2>2 DEF Plans
  <2> HIDE DEF p
  <2>6. /\ plan'.resourceVersion = plan.resourceVersion + 1
        /\ plan'.exists = plan.exists /\ plan'.phase = PlanPhase(d)
        /\ plan'.finishedAt = at
    BY <2>4, <2>5, PlanWrittenFields
  <2>7. plan.phase = Undecided /\ plan.exists
    BY <1>1, <1>2 DEF PlanCurrent, PlanEndInv, PlannerKnows, PlannerAt
  <2>8. plan.phase # "Rejected"
    BY <2>7, UndecidedIsNot
  <2>9. PlanOver'
    <3>1. CASE d = "reject"
      BY <2>3, <2>6, <3>1 DEF PlanOver, Over
    <3>2. CASE d # "reject"
      <4>1. plan'.finishedAt = plan.finishedAt
        BY <2>6, <3>2 DEF at
      <4>2. Over => Over'
        BY <2>8 DEF Over, Follows, Terminal
      <4> QED
        BY <2>6, <2>7, <4>1, <4>2 DEF PlanEndInv, PlanOver
    <3> QED
      BY <3>1, <3>2
  <2>10. Moves
    BY <2>6, <2>8, <2>9 DEF Moves
  <2> QED
    BY <1>1, <2>10, ReturnsKnows, EndStep
<1>3. CASE ~ PlanCurrent(planner[w].planVersion)
  <2>1. UNCHANGED plan
    BY <1>3 DEF RecordPlan
  <2> QED
    BY <1>1, <2>1, ReturnsKnows, EndStep DEF Moves
<1> QED
  BY <1>2, <1>3

LEMMA RejectForThresholdEnd ==
    ASSUME PipelineTypeOK, TypeInv, PlanEndInv, Follows(action, action'),
           NEW w \in Workers, RejectForThreshold(w)
    PROVE  PlanEndInv'
<1>1. UNCHANGED <<planCache, cleaner>> /\ PlannerReturns(w)
  BY DEF RejectForThreshold
<1>2. CASE PlanCurrent(planner[w].planVersion)
  <2> DEFINE p == [plan EXCEPT !.phase = "Rejected", !.finishedAt = now]
  <2>1. plan \in Plans /\ now \in Int /\ "Rejected" \in PlanPhases
    BY PlanTypes DEF TypeInv, TypeOK, PlanPhases
  <2>2. /\ p \in Plans /\ p.resourceVersion = plan.resourceVersion
        /\ p.phase = "Rejected"
    BY <2>1 DEF Plans
  <2>3. PlanWritten(p)
    BY <1>2 DEF RejectForThreshold
  <2> HIDE DEF p
  <2>4. plan'.resourceVersion = plan.resourceVersion + 1 /\ plan'.phase = "Rejected"
    BY <2>2, <2>3, PlanWrittenFields
  <2>5. Moves
    BY <2>4 DEF Moves, PlanOver, Over
  <2> QED
    BY <1>1, <2>5, ReturnsKnows, EndStep
<1>3. CASE ~ PlanCurrent(planner[w].planVersion)
  <2>1. UNCHANGED plan
    BY <1>3 DEF RejectForThreshold
  <2> QED
    BY <1>1, <2>1, ReturnsKnows, EndStep DEF Moves
<1> QED
  BY <1>2, <1>3

\* The TTL controller goes by a cached action that is over, and so is the
\* action; or by a cached plan that was marked as finished.
LEMMA ReadFinishedEnd ==
    ASSUME PipelineTypeOK, LifeInv, PlanEndInv, Follows(action, action'),
           NEW w \in Workers, ReadFinished(w)
    PROVE  PlanEndInv'
<1>1. UNCHANGED <<vars, plan, planCache, planner>>
  BY DEF ReadFinished
<1>2. Over
  <2>1. CASE planCache[w].finishedAt = Never
    <3>1. terminalFinishedAt(w) # Never
      BY <2>1 DEF ReadFinished
    <3>2. Terminal(cache[w])
      BY <3>1 DEF terminalFinishedAt
    <3> QED
      BY <3>2 DEF LifeInv, Follows, Terminal, Over
  <2>2. CASE planCache[w].finishedAt # Never
    BY <2>2 DEF PlanEndInv, CacheKnows
  <2> QED
    BY <2>1, <2>2
<1>3. Moves
  BY <1>1 DEF Moves
<1>4. Over'
  BY <1>2, <1>3, OverStays
<1> QED
  BY <1>1, <1>3, <1>4, EndStep DEF CleanerKnows

\* Whatever it writes then, the action is over.
LEMMA CleanerWrites ==
    ASSUME PipelineTypeOK, PlanEndInv, Follows(action, action'),
           NEW w \in Workers, ~ CleanerAt(w, "idle"),
           UNCHANGED <<planCache, planner>>,
           \/ plan' = plan
           \/ /\ plan'.resourceVersion = plan.resourceVersion + 1
              /\ plan'.phase = plan.phase
    PROVE  PlanEndInv'
<1>1. Over
  BY DEF PlanEndInv, CleanerKnows
<1>2. Over'
  BY <1>1 DEF Over, Follows, Terminal
<1>3. Moves
  BY <1>2 DEF Moves, PlanOver
<1> QED
  BY <1>2, <1>3, EndStep DEF CleanerKnows

LEMMA PlanCleanupEnd ==
    ASSUME PipelineTypeOK, LifeInv, PlanEndInv, Follows(action, action'),
           NEW w \in Workers, PlanCleanup(w)
    PROVE  PlanEndInv'
<1>1. plan \in Plans /\ cleaner[w] \in CleanerStates
  BY PlanTypes
<1>2. CASE StampFinished(w)
  <2> DEFINE p == [plan EXCEPT !.finishedAt = cleaner[w].finishedAt]
  <2>1. /\ p \in Plans /\ p.resourceVersion = plan.resourceVersion
        /\ p.phase = plan.phase
    BY <1>1 DEF Plans, CleanerStates
  <2>2. PlanWritten(p) \/ UNCHANGED plan
    BY <1>2 DEF StampFinished
  <2> HIDE DEF p
  <2>3. ~ CleanerAt(w, "idle") /\ UNCHANGED <<planCache, planner>>
    BY <1>2 DEF StampFinished, CleanerAt
  <2> QED
    BY <2>1, <2>2, <2>3, PlanWrittenFields, CleanerWrites
<1>3. CASE DeletePlan(w)
  <2> DEFINE p == [plan EXCEPT !.exists = FALSE]
  <2>1. /\ p \in Plans /\ p.resourceVersion = plan.resourceVersion
        /\ p.phase = plan.phase
    BY <1>1 DEF Plans
  <2>2. PlanWritten(p) \/ UNCHANGED plan
    BY <1>3 DEF DeletePlan
  <2> HIDE DEF p
  <2>3. ~ CleanerAt(w, "idle") /\ UNCHANGED <<planCache, planner>>
    BY <1>3 DEF DeletePlan, CleanerAt
  <2> QED
    BY <2>1, <2>2, <2>3, PlanWrittenFields, CleanerWrites
<1> QED
  BY <1>2, <1>3, ReadFinishedEnd DEF PlanCleanup

LEMMA PlanCacheSyncEnd ==
    ASSUME PipelineTypeOK, PlanEndInv, NEW w \in Workers, PlanCacheSync(w)
    PROVE  PlanEndInv'
<1>1. /\ UNCHANGED <<action, plan, planner, cleaner>>
      /\ \A v \in Workers : planCache'[v] = planCache[v] \/ planCache'[v] = plan
  BY DEF PlanCacheSync, PipelineTypeOK, vars
<1>2. (Over <=> Over') /\ PlanOver'
  BY <1>1 DEF Over, PlanOver, PlanEndInv, Terminal
<1>3. ASSUME NEW v \in Workers PROVE CacheKnows(v)'
  <2>1. CacheKnows(v) /\ PlanOver /\ plan.resourceVersion <= plan.resourceVersion
    BY PlanTypes DEF PlanEndInv
  <2> QED
    BY <1>1, <1>2, <2>1 DEF CacheKnows, PlanOver
<1>4. ASSUME NEW v \in Workers PROVE CleanerKnows(v)' /\ PlannerKnows(v)'
  BY <1>1, <1>2 DEF PlanEndInv, CleanerKnows, CleanerAt, PlannerKnows, PlannerAt
<1> QED
  BY <1>2, <1>3, <1>4 DEF PlanEndInv

LEMMA RetainPlanEnd ==
    ASSUME PipelineTypeOK, PlanEndInv, Follows(action, action'), RetainPlan
    PROVE  PlanEndInv'
<1> DEFINE p == [plan EXCEPT !.retain = TRUE]
<1>1. /\ p \in Plans /\ p.resourceVersion = plan.resourceVersion
      /\ p.exists = plan.exists /\ p.phase = plan.phase
      /\ p.finishedAt = plan.finishedAt
  BY PlanTypes DEF Plans
<1>2. PlanWritten(p) /\ UNCHANGED <<planCache, planner, cleaner>>
  BY DEF RetainPlan
<1> HIDE DEF p
<1>3. /\ plan'.resourceVersion = plan.resourceVersion + 1
      /\ plan'.exists = plan.exists /\ plan'.phase = plan.phase
      /\ plan'.finishedAt = plan.finishedAt
  BY <1>1, <1>2, PlanWrittenFields
<1>4. Over => Over'
  BY <1>3 DEF Over, Follows, Terminal
<1>5. Moves
  BY <1>3, <1>4 DEF Moves, PlanOver, PlanEndInv
<1> QED
  BY <1>2, <1>5, EndStep

LEMMA PlanEndInvInit == PipelineInit => PlanEndInv
<1> SUFFICES ASSUME PipelineInit PROVE PlanEndInv
  OBVIOUS
<1>1. plan.exists /\ plan.finishedAt = Never /\ plan.resourceVersion = 1
  BY DEF PipelineInit
<1>2. \A w \in Workers :
        planCache[w] = plan /\ planner[w].pc = "idle" /\ cleaner[w].pc = "idle"
  BY Zenon DEF PipelineInit, PlannerIdle, CleanerIdle
<1> QED
  BY <1>1, <1>2 DEF PlanEndInv, PlanOver, CacheKnows, CleanerKnows, CleanerAt,
                    PlannerKnows, PlannerAt

LEMMA PlanEndInvNext ==
    ASSUME PipelineInv, TypeInv', LifeInv, PlanEndInv, [PipelineNext]_pipelineVars
    PROVE  PlanEndInv'
<1>1. PipelineTypeOK /\ TypeInv /\ DispatchInv
  BY DEF PipelineInv
<1>2. Follows(action, action')
  BY <1>1, PipelineRefines, EndKept
<1>3. CASE UNCHANGED <<plan, planCache, planner, cleaner>>
  BY <1>1, <1>2, <1>3, EndStep DEF Moves
<1>4. ASSUME NEW w \in Workers, PlannerFails(w) PROVE PlanEndInv'
  <2>1. PlannerReturns(w) /\ UNCHANGED <<plan, planCache, cleaner>>
    BY <1>4 DEF PlannerFails
  <2> QED
    BY <1>1, <1>2, <2>1, ReturnsKnows, EndStep DEF Moves
<1>5. ASSUME NEW w \in Workers, PlanReconcile(w) PROVE PlanEndInv'
  BY <1>1, <1>2, <1>5, ReadPlanEnd, PersistDefaultsEnd, CreateOrUpdateEnd,
     RecordDecisionEnd, RecordPlanEnd, RejectForThresholdEnd DEF PlanReconcile
<1>6. CASE PlanSteps
  <2>1. CASE ChangePolicy
    BY <1>3, <2>1 DEF ChangePolicy
  <2> QED
    BY <1>1, <1>2, <1>4, <1>5, <1>6, <2>1, PlanCleanupEnd, PlanCacheSyncEnd,
       RetainPlanEnd DEF PlanSteps
<1>7. CASE ActionSteps
  BY <1>3, <1>7 DEF ActionSteps, planVars
<1>8. CASE UNCHANGED pipelineVars
  BY <1>3, <1>8 DEF pipelineVars, planVars
<1> QED
  BY <1>6, <1>7, <1>8 DEF PipelineNext

LEMMA PlanEndAlways ==
    OneOfEach /\ PipelineSpec => [](PipelineInv /\ LifeInv /\ PlanEndInv)
<1>1. PipelineInv => TypeInv
  BY DEF PipelineInv
<1>2. PipelineInv /\ TypeInv' /\ LifeInv /\ PlanEndInv /\ [PipelineNext]_pipelineVars
        => PlanEndInv'
  BY PlanEndInvNext
<1>3. OneOfEach /\ PipelineSpec => []LifeInv
  BY PipelineImplementsAction, LifeInvAlways, PTL DEF ImplementsAction
<1> QED
  BY <1>1, <1>2, <1>3, PlanEndInvInit, PipelineInvariant, PTL DEF PipelineSpec

\* Who deletes the action.
LEMMA DeletionIsOver ==
    ASSUME PipelineInv, TypeInv', LifeInv, PlanEndInv, PipelineNext,
           action.exists, ~ action'.exists
    PROVE  Over
<1>1. TypeInv
  BY DEF PipelineInv
<1>2. CASE ActionSteps
  <2>1. ASSUME NEW w \in Workers, Replica(w) PROVE Over
    BY <1>1, <2>1, ReplicaDeletes DEF Deletable, Over
  <2>2. ~ (Users \/ World)
    BY <1>1, ClientsKeep
  <2>3. CASE ~ plan.exists
    BY <2>3 DEF PlanEndInv, PlanOver
  <2> QED
    BY <1>2, <2>1, <2>2, <2>3 DEF ActionSteps, Users
<1>3. ASSUME NEW w \in Workers, CreateOrUpdateAction(w) PROVE FALSE
  BY <1>1, <1>3, CreateOrUpdateRefines, ClientsKeep DEF vars
<1>4. ASSUME NEW w \in Workers, RecordDecision(w) PROVE FALSE
  BY <1>1, <1>4, RecordDecisionRefines, ClientsKeep DEF vars
<1>5. CASE PlanSteps
  <2>1. CASE UNCHANGED action
    BY <2>1
  <2>2. ASSUME NEW w \in Workers, PlanReconcile(w) PROVE UNCHANGED action
    BY <1>3, <1>4, <2>2 DEF PlanReconcile, ReadPlan, PersistDefaults, RecordPlan,
                            RejectForThreshold, vars
  <2>3. ASSUME NEW w \in Workers, PlannerFails(w) \/ PlanCleanup(w) \/ PlanCacheSync(w)
        PROVE  UNCHANGED action
    BY <2>3 DEF PlannerFails, PlanCleanup, PlanCacheSync, ReadFinished,
                StampFinished, DeletePlan, vars
  <2> QED
    BY <1>5, <2>1, <2>2, <2>3 DEF PlanSteps, ChangePolicy, RetainPlan, vars
<1> QED
  BY <1>2, <1>5 DEF PipelineNext

\* With one replica and one decision, an action is never deleted while it
\* waits, runs or is in doubt, by its own TTL or with its plan, unless the
\* plan was rejected, however stale the reads that both Deletes follow and
\* whatever conflicts, failures and changes of policy come in between.
THEOREM LiveActionStays == OneOfEach /\ PipelineSpec => LiveActionKept
<1>1. PipelineInv /\ LifeInv /\ PlanEndInv /\ TypeInv' /\ [PipelineNext]_pipelineVars =>
        [action.exists /\ ~ action'.exists /\ Len(decisions) <= 1 =>
           Terminal(action) \/ plan.phase = "Rejected"]_pipelineVars
  BY DeletionIsOver DEF Over
<1>2. PipelineInv => TypeInv
  BY DEF PipelineInv
<1> QED
  BY <1>1, <1>2, PlanEndAlways, PTL DEF PipelineSpec, LiveActionKept
=============================================================================
