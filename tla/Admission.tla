----------------------------- MODULE Admission -----------------------------
(***************************************************************************)
(* A NamespaceThreshold at work: remediationplan_controller.go counts the  *)
(* plans and the pending approvals of a namespace in the lists of its      *)
(* cache, internal/thresholds compares the counts with the limits, and the *)
(* plan becomes an action or is rejected.  Several plans arrive, are seen  *)
(* late, are decided and expire.                                           *)
(*                                                                         *)
(* One replica: its Reconciles of plans run one at a time and share one    *)
(* cache.  A Reconcile checks the counts, writes the action and then, with *)
(* the counts as they were, the plan.                                      *)
(*                                                                         *)
(* "WaitingApproval" of an action also stands for Escalated.               *)
(***************************************************************************)
EXTENDS Integers, FiniteSets

CONSTANTS
    Plans,           \* names of the plans of one namespace
    ActiveLimit,     \* spec.activePlansLimit of the threshold; 0: no limit
    PendingLimit     \* spec.pendingApprovalsLimit; 0: no limit

ASSUME AdmissionAssumption ==
    /\ IsFiniteSet(Plans)
    /\ ActiveLimit \in Nat
    /\ PendingLimit \in Nat

VARIABLES
    planPhase,      \* [Plans -> PlanPhases]: status.phase in the API server
    planSeen,       \* [Plans -> PlanPhases]: the same in the informer cache
    actionPhase,    \* [Plans -> ActionPhases]: the action of each plan
    actionSeen,     \* [Plans -> ActionPhases]: the same in the informer cache
    deciding        \* [Plans -> PlanPhases]: the phase the plan is to get, or ""

admissionVars == <<planPhase, planSeen, actionPhase, actionSeen, deciding>>

PlanPhases == {"absent", "", "Approved", "WaitingApproval", "Rejected"}

ActionPhases == {"absent", "WaitingApproval", "Other"}

AdmissionTypeOK ==
    /\ planPhase \in [Plans -> PlanPhases]
    /\ planSeen \in [Plans -> PlanPhases]
    /\ actionPhase \in [Plans -> ActionPhases]
    /\ actionSeen \in [Plans -> ActionPhases]
    /\ deciding \in [Plans -> PlanPhases]

AdmissionInit ==
    /\ planPhase = [p \in Plans |-> "absent"]
    /\ planSeen = planPhase
    /\ actionPhase = [p \in Plans |-> "absent"]
    /\ actionSeen = actionPhase
    /\ deciding = [p \in Plans |-> ""]

\* Enforcer.Evaluate: a limit of zero is no limit.
WithinLimits(activePlans, pendingApprovals) ==
    /\ ActiveLimit > 0 => activePlans <= ActiveLimit
    /\ PendingLimit > 0 => pendingApprovals <= PendingLimit

FaultActivePlans == {p \in Plans : planSeen[p] \in {"Approved", "WaitingApproval"}}

\* namespaceUsage: every listed plan but the finished ones counts as active.
ActivePlans == {p \in Plans : planSeen[p] \notin {"absent", "Rejected"}}

PendingApprovals == {p \in Plans : actionSeen[p] = "WaitingApproval"}

Arrive(p) ==
    /\ planPhase[p] = "absent"
    /\ planPhase' = [planPhase EXCEPT ![p] = ""]
    /\ UNCHANGED <<planSeen, actionPhase, actionSeen, deciding>>

SeePlan(p) ==
    /\ planSeen' = [planSeen EXCEPT ![p] = planPhase[p]]
    /\ UNCHANGED <<planPhase, actionPhase, actionSeen, deciding>>

SeeAction(p) ==
    /\ actionSeen' = [actionSeen EXCEPT ![p] = actionPhase[p]]
    /\ UNCHANGED <<planPhase, planSeen, actionPhase, deciding>>

(* The Reconcile of a plan that looks undecided, up to the writes of its   *)
(* action.  What a plan the cache shows outdated does to its own action is *)
(* in RemediationPipeline, which has all writes one by one.                *)
Admit(p, phase) ==
    /\ \A q \in Plans : deciding[q] = ""
    /\ planSeen[p] = ""
    /\ planPhase[p] = ""
    /\ IF WithinLimits(Cardinality(ActivePlans), Cardinality(PendingApprovals))
       THEN /\ deciding' = [deciding EXCEPT ![p] = phase]
            /\ actionPhase' = [actionPhase EXCEPT ![p] =
                    IF phase = "WaitingApproval" THEN phase ELSE "Other"]
       ELSE /\ deciding' = [deciding EXCEPT ![p] = "Rejected"]
            /\ UNCHANGED actionPhase
    /\ UNCHANGED <<planPhase, planSeen, actionSeen>>

(* The write of the plan's status ends it.  When that is refused or the    *)
(* process stops before, the plan stays undecided, with its action, until  *)
(* it is counted anew.                                                     *)
RecordDecision(p, written) ==
    /\ deciding[p] # ""
    /\ planPhase' = IF written THEN [planPhase EXCEPT ![p] = deciding[p]] ELSE planPhase
    /\ deciding' = [deciding EXCEPT ![p] = ""]
    /\ UNCHANGED <<planSeen, actionPhase, actionSeen>>

\* A reviewer approves or the action's controller finishes it.
Settle(p) ==
    /\ actionPhase[p] = "WaitingApproval"
    /\ actionPhase' = [actionPhase EXCEPT ![p] = "Other"]
    /\ UNCHANGED <<planPhase, planSeen, actionSeen, deciding>>

\* The TTL controller deletes a finished plan, and its action goes with it.
Expire(p) ==
    /\ planPhase[p] \notin {"absent", ""}
    /\ actionPhase[p] # "WaitingApproval"
    /\ planPhase' = [planPhase EXCEPT ![p] = "absent"]
    /\ actionPhase' = [actionPhase EXCEPT ![p] = "absent"]
    /\ UNCHANGED <<planSeen, actionSeen, deciding>>

AdmissionNext ==
    \E p \in Plans :
        \/ Arrive(p) \/ SeePlan(p) \/ SeeAction(p) \/ Settle(p) \/ Expire(p)
        \/ \E phase \in {"Approved", "WaitingApproval", "Rejected"} :
              Admit(p, phase)
        \/ \E written \in BOOLEAN : RecordDecision(p, written)

AdmissionSpec == AdmissionInit /\ [][AdmissionNext]_admissionVars

Admitted == {p \in Plans : planPhase[p] \in {"Approved", "WaitingApproval"}}

(* However late the cache is, whichever plans arrive together and whatever *)
(* becomes of the writes, no more plans are admitted than the namespace    *)
(* threshold allows, because an undecided plan already counts as active.   *)
AdmittedWithinLimit ==
    ActiveLimit > 0 => Cardinality(Admitted) <= ActiveLimit
=============================================================================
