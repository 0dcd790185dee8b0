--------------------------- MODULE RuleEvaluation ---------------------------
(***************************************************************************)
(* A RiskRule: riskrule_controller.go with rule/selector.go, evaluator.go  *)
(* and template.go.  A pass discovers the rule's targets, evaluates its    *)
(* signals for one target after the other and keeps, for a target with a   *)
(* match, an InvestigationRequest or a RiskSignal named after the identity *)
(* of what was found.                                                      *)
(*                                                                         *)
(* A digest is the value it is taken of, and a name the identity it is     *)
(* made from.  An event always has a UID, as the API server gives it one;  *)
(* the UID stands for all that never changes of the event.                 *)
(***************************************************************************)
EXTENDS Integers, Sequences, FiniteSets, SequencesExt, Filtering

CONSTANTS
    Rules,              \* the [signals, kinds, labels, mode, ai] a rule may have
    Workloads,          \* the workloads: name -> [kind, labels, owner]
    Pods,               \* the pods: name -> [labels, owner]
    Events,             \* the [id, target, reason, message] that may be recorded
    MaxRefs,            \* evidence references of a match
    MaxRuleSteps        \* bound on the changes around the rule

\* A text that is not there.
NoText == ""

\* One of a rule's spec.signals.
SignalSpecs == [name : STRING, type : STRING, reasons : SUBSET STRING, op : STRING,
                limit : Int, renders : BOOLEAN]

ASSUME RuleAssumption ==
    /\ {MaxRefs, MaxRuleSteps} \subseteq Nat \ {0}
    /\ \A r \in Rules : r.signals \in Seq(SignalSpecs)

VARIABLES
    rule,           \* the RiskRule's spec
    ruleGeneration, \* its generation
    generation,     \* target -> generation
    recorded,       \* the [id, target, reason, message, count] of events, oldest first
    gauge,          \* the value every target's metric has
    source,         \* the state of the datasource: "ok", "missing",
                    \* "unsupported", "rejected" or "failing"
    bucket,         \* the window the clock is in
    pass,           \* the pass: [todo, gen, issues, running]
    produced,       \* the [kind, name, matched, rca] of the objects kept
    ruleStatus,     \* [ready, reason] of the rule's status
    ruleSteps       \* changes made, up to MaxRuleSteps

ruleVars == <<rule, ruleGeneration, generation, recorded, gauge, source, bucket,
              pass, produced, ruleStatus, ruleSteps>>

NoIssues == [missing |-> "none", capability |-> "none", query |-> "none"]

NoPass == [todo |-> <<>>, gen |-> 0, issues |-> NoIssues, running |-> FALSE]

-----------------------------------------------------------------------------
(* Discovery.  A pod stands for the workload that owns it, if that is      *)
(* there; dedupeTargets leaves one target of each.                         *)

WorkloadKinds == {"Deployment", "StatefulSet", "DaemonSet", "Job", "CronJob"}
SupportedKinds == WorkloadKinds \cup {"Pod"}

Targets == DOMAIN Workloads \cup DOMAIN Pods

PodCanonicalTarget(p) ==
    LET owner == Pods[p].owner
    IN  IF owner \notin DOMAIN Workloads THEN p
        ELSE CASE Workloads[owner].kind = "ReplicaSet" ->
                    LET above == Workloads[owner].owner
                    IN  IF above \in DOMAIN Workloads /\ Workloads[above].kind = "Deployment"
                        THEN above ELSE owner
               [] Workloads[owner].kind \in {"StatefulSet", "DaemonSet", "Job"} -> owner
               [] OTHER -> p

TargetLabels(t) ==
    IF t \in DOMAIN Workloads THEN Workloads[t].labels ELSE Pods[t].labels

SelectedKinds == IF rule.kinds = {} THEN {"Deployment"} ELSE rule.kinds

\* filterTargets compares the labels of the canonical target.
DiscoverTargets ==
    LET ofKind == {w \in DOMAIN Workloads :
                      Workloads[w].kind \in SelectedKinds \cap WorkloadKinds}
        ofPods == IF "Pod" \in SelectedKinds
                  THEN {PodCanonicalTarget(p) : p \in DOMAIN Pods} ELSE {}
    IN  {t \in ofKind \cup ofPods : rule.labels \subseteq TargetLabels(t)}

\* DiscoverCoverage.
PartialCoverage == SelectedKinds \ SupportedKinds # {}

-----------------------------------------------------------------------------
(* Signals: [name, type, reasons, op, limit, renders].                     *)

CompareThreshold(value, op, limit) ==
    CASE op = "gte" -> value >= limit
      [] op = "lt" -> value < limit
      [] op = "lte" -> value <= limit
      [] OTHER -> value > limit

\* eventReasonMatches; without reasons, the built-in four.
SignalReasons(signal) ==
    IF signal.reasons # {} THEN signal.reasons
    ELSE {"Unhealthy", "BackOff", "Failed", "OOMKilled"}

RecordsOf(signal, t) ==
    IF signal.type = "metric" THEN <<[id |-> "gauge", reason |-> NoText, value |-> gauge]>>
    ELSE OnlyIn(recorded, {e \in ToSet(recorded) :
                              e.target = t /\ e.reason \in SignalReasons(signal)})

\* The records of a metric count one by one, all others together.
Triggered(signal, records) ==
    IF signal.type = "metric"
    THEN CompareThreshold(records[1].value, signal.op, signal.limit)
    ELSE records # <<>> /\ CompareThreshold(Len(records), signal.op, signal.limit)

(* kubernetesEventEvidenceDigest leaves out how often and when last an     *)
(* event was seen; a metric's reference has only its summary.              *)
EvidenceDigest(signal, record) ==
    <<record.id, IF signal.type = "metric" THEN record.value ELSE record.message>>

EvaluateSignal(signal, t) ==
    LET records == RecordsOf(signal, t)
        kept == SubSeq(records, 1, IF Len(records) < MaxRefs
                                   THEN Len(records) ELSE MaxRefs)
    IN  IF ~ Triggered(signal, records) THEN <<>>
        ELSE <<[signal |-> signal.name,
                digests |-> {EvidenceDigest(signal, kept[i]) : i \in DOMAIN kept},
                first |-> kept[1].reason,
                all |-> {EvidenceDigest(signal, records[i]) : i \in DOMAIN records}]>>

\* The issue that keeps a signal from being evaluated.
SourceIssue ==
    CASE source = "missing" -> "DataSourceNotFound"
      [] source = "unsupported" -> "CapabilityMismatch"
      [] source = "rejected" -> "QueryPolicyRejected"
      [] source = "failing" -> "DatasourceQueryFailed"
      [] OTHER -> "none"

\* evaluateTarget: only event signals do not need the external datasource.
Blocked(signal) == signal.type = "metric" /\ SourceIssue # "none"

(* A query's template is rendered once its datasource is found capable,    *)
(* before the policy and the datasource are asked.                         *)
RenderFails == \E i \in DOMAIN rule.signals :
                    /\ ~ (Blocked(rule.signals[i]) /\ source \in {"missing", "unsupported"})
                    /\ ~ rule.signals[i].renders

EvaluateTarget(t) ==
    LET matches[i \in 0 .. Len(rule.signals)] ==
            IF i = 0 THEN <<>>
            ELSE IF Blocked(rule.signals[i]) THEN matches[i - 1]
            ELSE matches[i - 1] \o EvaluateSignal(rule.signals[i], t)
    IN  matches[Len(rule.signals)]

\* firstIssue and mergeRuleEvaluationSummary: the first of each kind stays.
IssueKind(reason) ==
    CASE reason = "DataSourceNotFound" -> "missing"
      [] reason = "CapabilityMismatch" -> "capability"
      [] OTHER -> "query"

MergeIssues(issues) ==
    IF \E s \in ToSet(rule.signals) : Blocked(s)
    THEN [issues EXCEPT ![IssueKind(SourceIssue)] =
             IF @ = "none" THEN SourceIssue ELSE @]
    ELSE issues

\* firstNonEmptyIssueReason.
FirstIssue(issues) ==
    IF issues.missing # "none" THEN issues.missing
    ELSE IF issues.capability # "none" THEN issues.capability
    ELSE IF issues.query # "none" THEN issues.query
    ELSE IF PartialCoverage THEN "PartialCoverage" ELSE "none"

-----------------------------------------------------------------------------
(* Identities.  The order of the matches and of their evidence does not    *)
(* count: both are sorted.                                                 *)

NormalizedFindingAttributes(matches) ==
    {[signal |-> m.signal, digests |-> m.digests] : m \in ToSet(matches)}

FaultFindingIdentity(target, gen, matches) ==
    [target |-> target.name, targetGeneration |-> target.gen,
     sourceGeneration |-> gen, window |-> bucket,
     attributes |-> NormalizedFindingAttributes(matches)]

\* IncidentOccurrence of findingIdentity; the window is not part of it.
FindingIdentity(target, gen, matches) ==
    [target |-> target.name, targetGeneration |-> target.gen,
     sourceGeneration |-> gen,
     attributes |-> NormalizedFindingAttributes(matches)]

(* directRiskSignalName puts what was found first into the name, besides   *)
(* the identity; investigationRequestName has only the identity.           *)
ObjectName(kind, target, gen, matches) ==
    [identity |-> FindingIdentity(target, gen, matches),
     token |-> IF kind = "InvestigationRequest" THEN NoText
               ELSE IF matches[1].first = NoText THEN matches[1].signal
               ELSE matches[1].first]

(* upsertInvestigationRequest and upsertRiskSignal: CreateOrUpdate of the  *)
(* object of that name.                                                    *)
Upsert(kind, target, matches, rca) ==
    LET name == ObjectName(kind, target, pass.gen, matches)
    IN  produced' = {o \in produced : <<o.kind, o.name>> # <<kind, name>>}
            \cup {[kind |-> kind, name |-> name, rca |-> rca,
                   matched |-> {[signal |-> m.signal, all |-> m.all] :
                                   m \in ToSet(matches)}]}

\* analyzeRCA and applyRCAResult: only supported causes make RCAReady true.
AnalyzeRCA(answer) ==
    IF ~ rule.ai THEN "none"
    ELSE IF answer = "verified" THEN "ProviderSucceeded"
    ELSE IF answer = "unverified" THEN "RCAUnverified" ELSE "ProviderFailed"

-----------------------------------------------------------------------------

RuleInit ==
    /\ rule \in Rules
    /\ ruleGeneration = 1
    /\ generation = [t \in Targets |-> 1]
    /\ recorded = <<>>
    /\ gauge = 0
    /\ source = "ok"
    /\ bucket = 1
    /\ pass = NoPass
    /\ produced = {}
    /\ ruleStatus = [ready |-> FALSE, reason |-> NoText]
    /\ ruleSteps = 0

\* reconcileTargets starts: the rule and the targets are read once.
BeginPass ==
    /\ ~ pass.running
    /\ pass' = [todo |-> SetToSeq({[name |-> t, gen |-> generation[t]] :
                                       t \in DiscoverTargets}),
                gen |-> ruleGeneration, issues |-> NoIssues, running |-> TRUE]
    /\ UNCHANGED <<rule, ruleGeneration, generation, recorded, gauge, source, bucket,
                   produced, ruleStatus, ruleSteps>>

(* The first target left.  An error in its queries' templates or in the    *)
(* write ends the pass: the targets after it wait, and so does the status. *)
EvaluateNext(answer) ==
    LET target == Head(pass.todo)
        matches == EvaluateTarget(target.name)
    IN  /\ pass.running
        /\ pass.todo # <<>>
        /\ \/ /\ RenderFails
              /\ pass' = NoPass
              /\ UNCHANGED produced
           \/ /\ ~ RenderFails
              /\ matches # <<>>
              /\ IF rule.mode = "DirectRiskSignal"
                 THEN Upsert("RiskSignal", target, matches, AnalyzeRCA(answer))
                 ELSE Upsert("InvestigationRequest", target, matches, "none")
              /\ pass' = [pass EXCEPT !.todo = Tail(@),
                                      !.issues = MergeIssues(@)]
           \/ /\ ~ RenderFails
              /\ matches = <<>>
              /\ pass' = [pass EXCEPT !.todo = Tail(@),
                                      !.issues = MergeIssues(@)]
              /\ UNCHANGED produced
        /\ UNCHANGED <<rule, ruleGeneration, generation, recorded, gauge, source,
                       bucket, ruleStatus, ruleSteps>>

UpsertFails ==
    /\ pass.running
    /\ pass.todo # <<>>
    /\ ~ RenderFails
    /\ EvaluateTarget(Head(pass.todo).name) # <<>>
    /\ ruleSteps < MaxRuleSteps
    /\ ruleSteps' = ruleSteps + 1
    /\ pass' = NoPass
    /\ UNCHANGED <<rule, ruleGeneration, generation, recorded, gauge, source, bucket,
                   produced, ruleStatus>>

(* The end of Reconcile: the first issue, or the kinds not covered, make   *)
(* the rule degraded.  A conflict of the status write is swallowed.        *)
EndPass ==
    LET issue == FirstIssue(pass.issues)
    IN  /\ pass.running
        /\ pass.todo = <<>>
        /\ \/ ruleStatus' = [ready |-> issue = "none", reason |-> issue]
           \/ UNCHANGED ruleStatus
        /\ pass' = NoPass
        /\ UNCHANGED <<rule, ruleGeneration, generation, recorded, gauge, source,
                       bucket, produced, ruleSteps>>

-----------------------------------------------------------------------------
(* What changes around the rule.                                           *)

Change(unchanged) ==
    /\ ruleSteps < MaxRuleSteps
    /\ ruleSteps' = ruleSteps + 1
    /\ UNCHANGED <<unchanged, pass, produced, ruleStatus>>

(* An event is recorded, or one that was is counted again, the newest      *)
(* then; its message may be another one that time.                         *)
RecordEvent(e) ==
    LET earlier == OnlyIn(recorded, {r \in ToSet(recorded) : r.id = e.id})
        others == OnlyIn(recorded, {r \in ToSet(recorded) : r.id # e.id})
        count == IF earlier = <<>> THEN 1 ELSE earlier[1].count + 1
    IN  /\ recorded' = Append(others, [id |-> e.id, target |-> e.target,
                                       reason |-> e.reason, message |-> e.message,
                                       count |-> count])
        /\ Change(<<rule, ruleGeneration, generation, gauge, source, bucket>>)

MeasureMetric ==
    /\ \E value \in {0, 1, 2} \ {gauge} : gauge' = value
    /\ Change(<<rule, ruleGeneration, generation, recorded, source, bucket>>)

ChangeSource ==
    /\ \E state \in {"ok", "missing", "unsupported", "rejected", "failing"} \ {source} :
          source' = state
    /\ Change(<<rule, ruleGeneration, generation, recorded, gauge, bucket>>)

NextWindow ==
    /\ bucket' = bucket + 1
    /\ Change(<<rule, ruleGeneration, generation, recorded, gauge, source>>)

EditTarget(t) ==
    /\ generation' = [generation EXCEPT ![t] = @ + 1]
    /\ Change(<<rule, ruleGeneration, recorded, gauge, source, bucket>>)

EditRule ==
    /\ ~ pass.running
    /\ \E r \in Rules \ {rule} : rule' = r
    /\ ruleGeneration' = ruleGeneration + 1
    /\ Change(<<generation, recorded, gauge, source, bucket>>)

RuleNext ==
    \/ BeginPass
    \/ \E answer \in {"failed", "unverified", "verified"} : EvaluateNext(answer)
    \/ UpsertFails
    \/ EndPass
    \/ \E e \in Events : RecordEvent(e)
    \/ MeasureMetric \/ ChangeSource \/ NextWindow
    \/ \E t \in Targets : EditTarget(t)
    \/ EditRule

RuleSpec == RuleInit /\ [][RuleNext]_ruleVars

-----------------------------------------------------------------------------

\* Findings of events alone, none of which lost evidence to MaxRefs.
OfEvents(object) ==
    \A m \in object.matched :
        /\ Cardinality(m.all) <= MaxRefs
        /\ \A digest \in m.all : digest[1] # "gauge"

(* docs/crd-reference/riskrule.md: "repeated reconciles for the same       *)
(* incident occurrence update the same request instead of creating         *)
(* unbounded objects".  However often the same events recur with the same  *)
(* messages, in whatever order, over however many windows, and whichever   *)
(* kinds or signals of the rule lead to the target, the rule keeps one     *)
(* request for them as long as neither it nor the target is edited.        *)
OneRequestPerIncident ==
    \A a, b \in produced :
        LET x == a.name.identity
            y == b.name.identity
        IN  /\ a.kind = "InvestigationRequest" /\ b.kind = a.kind
            /\ OfEvents(a)
            /\ a.matched = b.matched
            /\ x.target = y.target
            /\ x.targetGeneration = y.targetGeneration
            /\ x.sourceGeneration = y.sourceGeneration
            => a = b
=============================================================================
