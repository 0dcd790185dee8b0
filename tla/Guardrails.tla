----------------------------- MODULE Guardrails -----------------------------
(***************************************************************************)
(* What decides about a RemediationPlan: which ApprovalPolicy applies to   *)
(* it and what that policy says (internal/guardrails), which               *)
(* NamespaceThreshold limits its namespace (internal/thresholds) and which *)
(* EscalationChain its action follows (internal/escalation).               *)
(*                                                                         *)
(* All three are chosen from lists of an informer cache, which hands out   *)
(* the elements of a Go map: two Reconciles of the same plan may find the  *)
(* same objects in another order.                                          *)
(***************************************************************************)
EXTENDS Integers, Sequences

CONSTANTS
    PolicyLists, ThresholdLists, ChainLists,    \* the objects there may be
    PolicyInputs        \* [enabled, legacy, reference, actionType, severity,
                        \* namespace, labels, namespaceLabels] of plans

\* A list holds no object twice: "namespace/name" is unique in a cluster.
WellFormed(list) ==
    /\ list \in Seq({list[i] : i \in DOMAIN list})
    /\ \A i \in DOMAIN list : list[i].priority \in Int /\ list[i].name \in Int
    /\ \A i, j \in DOMAIN list : list[i].name = list[j].name => i = j

ASSUME GuardrailAssumption ==
    \A list \in PolicyLists \cup ThresholdLists \cup ChainLists : WellFormed(list)

-----------------------------------------------------------------------------
(* Selectors and stable sorting.  A label selector is absent, malformed or *)
(* a set of labels that must be present.                                   *)

NoSelector == [kind |-> "nil", labels |-> {}]

Malformed == [kind |-> "malformed", labels |-> {}]

Requires(labels) == [kind |-> "labels", labels |-> labels]

LabelsMatch(selector, values) ==
    selector.kind = "labels" /\ selector.labels \subseteq values

\* Policies, thresholds and chains are passed over when disabled or marked so.
InForce(object) == object.enabled /\ object.phase \notin {"Invalid", "Disabled"}

\* The first of the matching elements of the list, after a stable sort by Before.
FirstBy(list, matching, Before(_, _)) ==
    list[CHOOSE i \in matching : \A j \in matching :
            /\ ~ Before(list[j], list[i])
            /\ j < i => Before(list[i], list[j])]

-----------------------------------------------------------------------------
(* Approval policies.  A policy's "name" is its place in the order of      *)
(* "namespace/name".                                                       *)

MatchRank(policy, input) ==
    LET resource  == LabelsMatch(policy.resourceSelector, input.labels)
        byLabels  == LabelsMatch(policy.namespaceSelector, input.namespaceLabels)
        same      == policy.namespace = input.namespace
        cluster   == policy.scope = "Cluster"
    IN  IF resource /\ (cluster \/ same \/ byLabels) THEN 3
        ELSE IF \/ byLabels
                \/ ~ cluster /\ policy.namespaceSelector = NoSelector /\ same
             THEN 2
        ELSE IF cluster THEN 1 ELSE 0

FaultPolicyBefore(a, b) ==
    IF a.rank # b.rank THEN a.rank > b.rank
    ELSE a.policy.priority > b.policy.priority

PolicyBefore(a, b) ==
    IF a.rank # b.rank THEN a.rank > b.rank
    ELSE IF a.policy.priority # b.policy.priority
         THEN a.policy.priority > b.policy.priority
    ELSE a.policy.name < b.policy.name

\* A malformed selector of any policy in force fails the whole evaluation.
PolicyListBroken(list) ==
    \E i \in DOMAIN list :
        /\ InForce(list[i])
        /\ Malformed \in {list[i].resourceSelector, list[i].namespaceSelector}

RankedPolicies(list, input) ==
    [i \in DOMAIN list |-> [policy |-> list[i], rank |-> MatchRank(list[i], input)]]

MatchedPolicies(list, input) ==
    {i \in DOMAIN list : InForce(list[i]) /\ MatchRank(list[i], input) > 0}

PolicySeverityRank(severity) ==
    CASE severity = "info" -> 1 [] severity = "low" -> 2
      [] severity = "medium" -> 3 [] severity = "high" -> 4
      [] severity = "critical" -> 5 [] OTHER -> 0

\* An empty bound does not restrict; an unknown one excludes everything.
SeverityInRange(severity, minimum, maximum) ==
    LET rank == PolicySeverityRank(severity)
        low  == PolicySeverityRank(minimum)
        high == PolicySeverityRank(maximum)
    IN  /\ rank # 0
        /\ minimum # "" => low # 0 /\ rank >= low
        /\ maximum # "" => high # 0 /\ rank <= high

DecisionFromRule(action) ==
    CASE action = "Auto" -> "Auto"
      [] action \in {"Manual", ""} -> "Manual"
      [] OTHER -> "Reject"

EvaluatePolicy(policy, input) ==
    LET ofType(r)   == r.actionType = input.actionType
        inRange(r)  == SeverityInRange(input.severity, r.minimum, r.maximum)
        typeRules   == SelectSeq(policy.actionTypeRules, ofType)
        rangeRules  == SelectSeq(policy.severityRules, inRange)
    IN  IF typeRules # <<>>
        THEN [action |-> DecisionFromRule(typeRules[1].action),
              timeout |-> policy.timeout]
        ELSE IF rangeRules # <<>>
        THEN [action |-> DecisionFromRule(rangeRules[1].action),
              timeout |-> IF rangeRules[1].timeout > 0
                          THEN rangeRules[1].timeout ELSE policy.timeout]
        ELSE [action |-> "Manual", timeout |-> policy.timeout]

-----------------------------------------------------------------------------
(* The legacy guardrails, used when policies are off or none matches.      *)

SeverityRank(severity) ==
    CASE severity = "low" -> 1 [] severity = "medium" -> 2
      [] severity = "high" -> 3 [] severity = "unsafe" -> 4 [] OTHER -> 99

LegacyEvaluate(legacy, input) ==
    LET autoMax == IF legacy.autoMax = "" THEN "low" ELSE legacy.autoMax
        manualMin == IF legacy.manualMin = "" THEN "medium" ELSE legacy.manualMin
        rank == SeverityRank(input.severity)
    IN  IF input.actionType \notin legacy.allowed THEN "Reject"
        ELSE IF input.namespace \in legacy.protected /\ input.severity = "high"
        THEN "Manual"
        ELSE IF rank <= SeverityRank(autoMax) THEN "Auto"
        ELSE IF rank >= SeverityRank(manualMin) /\ input.severity # "unsafe"
        THEN "Manual"
        ELSE "Reject"

\* PolicyEngine.Evaluate; the policy's name is 0 when the guardrails decided.
Evaluate(enabled, list, legacy, input) ==
    LET matches == MatchedPolicies(list, input)
        fallback == [action |-> LegacyEvaluate(legacy, input), timeout |-> 0,
                     policy |-> 0]
    IN  IF ~ enabled THEN fallback
        ELSE IF PolicyListBroken(list)
        THEN [action |-> "Error", timeout |-> 0, policy |-> 0]
        ELSE IF matches = {} THEN fallback
        ELSE LET ranked == RankedPolicies(list, input)
                 chosen == FirstBy(ranked, matches, PolicyBefore).policy
                 result == EvaluatePolicy(chosen, input)
             IN  [action |-> result.action, timeout |-> result.timeout,
                  policy |-> chosen.name]

-----------------------------------------------------------------------------
(* Namespace thresholds and escalation chains.                             *)

ThresholdMatches(threshold, input) ==
    IF threshold.namespaceSelector = NoSelector
    THEN threshold.namespace = input.namespace
    ELSE LabelsMatch(threshold.namespaceSelector, input.namespaceLabels)

\* Priority first, then a threshold of the namespace itself, then the name.
ThresholdBefore(a, b) ==
    LET direct(t) == t.namespaceSelector = NoSelector
    IN  IF a.priority # b.priority THEN a.priority > b.priority
        ELSE IF direct(a) # direct(b) THEN direct(a)
        ELSE a.name < b.name

\* Enforcer.Resolve: the name of the threshold, 0 for none, -1 for an error.
ResolveThreshold(list, input) ==
    LET matches == {i \in DOMAIN list :
                       InForce(list[i]) /\ ThresholdMatches(list[i], input)}
    IN  IF \E i \in DOMAIN list :
              InForce(list[i]) /\ list[i].namespaceSelector = Malformed
        THEN -1
        ELSE IF matches = {} THEN 0
        ELSE FirstBy(list, matches, ThresholdBefore).name

ChainBefore(a, b) ==
    LET specific(c) == c.resourceSelector # NoSelector
    IN  IF a.priority # b.priority THEN a.priority > b.priority
        ELSE IF specific(a) # specific(b) THEN specific(a)
        ELSE a.name < b.name

(* Router.Resolve among the chains of the namespace: an explicit reference *)
(* must exist and be in force; without one an absent selector matches all. *)
ResolveChain(list, reference, labels) ==
    LET named == {i \in DOMAIN list : list[i].name = reference}
        matches == {i \in DOMAIN list :
                       /\ InForce(list[i])
                       /\ \/ list[i].resourceSelector = NoSelector
                          \/ LabelsMatch(list[i].resourceSelector, labels)}
    IN  IF reference # 0
        THEN IF \E i \in named : InForce(list[i]) THEN reference ELSE -1
        ELSE IF \E i \in DOMAIN list :
                   InForce(list[i]) /\ list[i].resourceSelector = Malformed
        THEN -1
        ELSE IF matches = {} THEN 0
        ELSE FirstBy(list, matches, ChainBefore).name

-----------------------------------------------------------------------------

VARIABLES
    policies, thresholds, chains,   \* the lists as the cache hands them out
    subject                         \* the plan

guardrailVars == <<policies, thresholds, chains, subject>>

GuardrailInit ==
    /\ policies \in PolicyLists
    /\ thresholds \in ThresholdLists
    /\ chains \in ChainLists
    /\ subject \in PolicyInputs

Swapped(list, i) == [list EXCEPT ![i] = list[i + 1], ![i + 1] = list[i]]

\* Another order of one of the lists.
Relist ==
    \/ /\ \E i \in 1 .. Len(policies) - 1 : policies' = Swapped(policies, i)
       /\ UNCHANGED <<thresholds, chains, subject>>
    \/ /\ \E i \in 1 .. Len(thresholds) - 1 : thresholds' = Swapped(thresholds, i)
       /\ UNCHANGED <<policies, chains, subject>>
    \/ /\ \E i \in 1 .. Len(chains) - 1 : chains' = Swapped(chains, i)
       /\ UNCHANGED <<policies, thresholds, subject>>

GuardrailSpec == GuardrailInit /\ [][Relist]_guardrailVars

Decision ==
    [plan |-> Evaluate(subject.enabled, policies, subject.legacy, subject),
     threshold |-> ResolveThreshold(thresholds, subject),
     chain |-> ResolveChain(chains, subject.reference, subject.labels)]

(* A plan that is reconciled again, or by another replica, gets the same   *)
(* decision from the same objects, in whatever order the cache lists them: *)
(* which policy, threshold and chain applies is a total order, malformed   *)
(* selectors included.                                                     *)
DecisionIgnoresListOrder == [][Decision' = Decision]_guardrailVars
=============================================================================
