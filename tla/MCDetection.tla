---------------------------- MODULE MCDetection ----------------------------
(***************************************************************************)
(* The components from the detection of a risk to its diagnosis and to the *)
(* decision about a plan, side by side.  They do not act on each other's   *)
(* state, so each behaviour is one of a single component, "part", while    *)
(* the others rest in one fixed state.                                     *)
(***************************************************************************)
EXTENDS RiskSignal, RuleEvaluation, Guardrails, Admission, EvidencePlan, Collection,
        EvidenceProfile, Diagnosis, ModelGateway

CONSTANT Parts

VARIABLE part

-----------------------------------------------------------------------------
(* RiskSignal: a projected signal is written once, so that a fault there   *)
(* may be for good; the others are written again and again.                *)

MCMaxFaults == [o \in Origins |-> IF o = "investigation" THEN 1 ELSE 0]

-----------------------------------------------------------------------------
(* RuleEvaluation: an event signal with a metric, one that needs two       *)
(* events, one with a broken template; a Deployment, its pod and another.  *)

RuleSignal(name, type, reasons, op, limit, renders) ==
    [name |-> name, type |-> type, reasons |-> reasons, op |-> op,
     limit |-> limit, renders |-> renders]

RuleWith(signals, kinds, mode, ai) ==
    [signals |-> signals, kinds |-> kinds, labels |-> {"app"}, mode |-> mode,
     ai |-> ai]

Restarts == RuleSignal("restarts", "event", {"BackOff", "Unhealthy"}, "gte", 1, TRUE)
Several == RuleSignal("several", "event", {}, "gt", 1, TRUE)
Latency == RuleSignal("latency", "metric", {}, "gt", 0, TRUE)
Broken == RuleSignal("broken", "metric", {}, "lt", 0, FALSE)

MCRules == {RuleWith(<<Restarts, Latency>>, {}, "CreateRequest", FALSE),
            RuleWith(<<Several>>, {"Deployment", "Pod"}, "DirectRiskSignal", TRUE),
            RuleWith(<<Restarts, Broken>>, {"Node", "Pod"}, "CreateRequest", FALSE)}

MCWorkloads == [web |-> [kind |-> "Deployment", labels |-> {"app"}, owner |-> "none"],
                set |-> [kind |-> "ReplicaSet", labels |-> {"app"}, owner |-> "web"]]

MCPods == [one |-> [labels |-> {"app"}, owner |-> "set"],
           two |-> [labels |-> {}, owner |-> "none"]]

EventNamed(id, reason, message) ==
    [id |-> id, target |-> "web", reason |-> reason, message |-> message]

MCEvents == {EventNamed("e1", "BackOff", "first"), EventNamed("e1", "BackOff", "other"),
             EventNamed("e2", "Unhealthy", "first"), EventNamed("e3", "Failed", "first")}

-----------------------------------------------------------------------------
(* Guardrails: policies of equal rank and priority, a better match, a      *)
(* better priority, one that is disabled and one that is malformed.        *)

PolicyOf(name, priority, within, resource, space, action) ==
    [name |-> name, namespace |-> "team", scope |-> within, priority |-> priority,
     enabled |-> TRUE, phase |-> "", resourceSelector |-> resource,
     namespaceSelector |-> space, timeout |-> name,
     actionTypeRules |-> <<[actionType |-> "restart", action |-> action]>>,
     severityRules |-> <<[minimum |-> "low", maximum |-> "", action |-> action,
                          timeout |-> 0]>>]

ClusterAuto == PolicyOf(1, 5, "Cluster", NoSelector, NoSelector, "Auto")
ClusterManual == PolicyOf(2, 5, "Cluster", NoSelector, NoSelector, "Manual")
TeamReject == PolicyOf(3, 1, "Namespace", NoSelector, NoSelector, "Reject")
TeamOther == PolicyOf(4, 1, "Namespace", NoSelector, NoSelector, "")
Labelled == PolicyOf(5, 0, "Cluster", Requires({"app"}), NoSelector, "Auto")
Off == [PolicyOf(6, 9, "Cluster", NoSelector, NoSelector, "Auto")
           EXCEPT !.enabled = FALSE]
Garbled == PolicyOf(7, 9, "Cluster", NoSelector, Malformed, "Auto")

MCPolicyLists == {<<ClusterAuto, ClusterManual, Off>>,
                  <<TeamReject, TeamOther, ClusterAuto>>,
                  <<TeamOther, Labelled, ClusterManual>>,
                  <<Garbled, ClusterManual, TeamReject>>, <<Off>>}

Scoped(name, priority, selector) ==
    [name |-> name, priority |-> priority, namespace |-> "team", enabled |-> TRUE,
     phase |-> "", namespaceSelector |-> selector, resourceSelector |-> selector]

MCThresholdLists == {<<Scoped(1, 1, Requires({"env"})), Scoped(2, 1, NoSelector),
                       Scoped(3, 1, NoSelector)>>}
MCChainLists == {<<Scoped(1, 1, NoSelector), Scoped(2, 1, Requires({"app"})),
                   Scoped(3, 1, Requires({"app"}))>>,
                 <<Scoped(1, 1, NoSelector), Scoped(2, 2, Malformed)>>}

PlanInput(enabled, actionType, severity, reference) ==
    [enabled |-> enabled, actionType |-> actionType, severity |-> severity,
     reference |-> reference, namespace |-> "team", labels |-> {"app"},
     namespaceLabels |-> {"env"},
     legacy |-> [autoMax |-> "", manualMin |-> "", allowed |-> {"restart"},
                 protected |-> {"team"}]]

MCPolicyInputs == {PlanInput(TRUE, "restart", "low", 0), PlanInput(TRUE, "scale", "high", 2),
                   PlanInput(FALSE, "restart", "high", 9), PlanInput(TRUE, "scale", "", 0)}

-----------------------------------------------------------------------------
(* EvidencePlan: a strict Prometheus, the Kubernetes source with and       *)
(* without a policy, planned and spelled-out queries, tight budgets.       *)

KubernetesTypes == {"event", "deploymentCondition", "serviceConfiguration",
                    "probeConfiguration", "containerTermination"}

Strict == [NoPolicy EXCEPT !.mode = "TemplatesOnly", !.templates = {"errors"},
                           !.maxRange = 15, !.scope = TRUE, !.denied = {"json"}]

SourceOf(name, caps, policy, wrapped, schedules) ==
    [name |-> name, caps |-> caps, policy |-> policy, wrapped |-> wrapped,
     schedules |-> schedules, reachable |-> TRUE]

MCSources == {SourceOf("kubernetes-events", KubernetesTypes, NoPolicy, w, TRUE) :
                 w \in BOOLEAN}
             \cup {SourceOf("prometheus", {"metric"}, Strict, TRUE, FALSE)}

RequestOf(sources, queries, profile, total, perSource) ==
    [target |-> "Pod", mode |-> "", purpose |-> "", createRiskSignal |-> TRUE,
     correlated |-> FALSE, dataSources |-> sources, queries |-> queries,
     retention |-> [mode |-> "", encrypted |-> FALSE, storage |-> ""],
     lookback |-> 0, profile |-> profile,
     budget |-> [total |-> total, perSource |-> perSource, concurrent |-> 0,
                 timeRange |-> 0]]

QueryTo(from, type, kind, name, uses) ==
    [source |-> from, type |-> type, kind |-> kind, name |-> name, reasons |-> {},
     text |-> [uses |-> uses, modifiers |-> {}, regex |-> FALSE, scoped |-> TRUE]]

EventQuery == QueryTo("kubernetes-events", "event", "none", "kubernetes-events", {})
MetricQuery == QueryTo("prometheus", "metric", "template", "errors", {"rate"})

MCNames == {"kubernetes-events", "prometheus"}
MCRequests ==
    {RequestOf(sources, <<>>, profile, total, 0) :
        sources \in {<<"kubernetes-events">>, <<"prometheus">>,
                     <<"kubernetes-events", "prometheus">>},
        profile \in {"", "CrashLoopBackOffV2"}, total \in 0 .. 2}
    \cup {RequestOf(<<>>, queries, profile, total, perSource) :
        queries \in {<<EventQuery>>, <<EventQuery, MetricQuery>>,
                     <<MetricQuery, EventQuery, EventQuery>>},
        profile \in {"", "CrashLoopBackOffV2"}, total \in {0, 2, 3}, perSource \in 0 .. 2}

-----------------------------------------------------------------------------
(* Collection: two workers on three queries, slow, large and failing.      *)

AnswerOf(issue, duration, bytes) ==
    [issue |-> issue, duration |-> duration, bytes |-> bytes]

MCAnswers == {AnswerOf("", 1, 1), AnswerOf("", 2, 0),
              AnswerOf("DatasourceQueryFailed", 1, 0)}
MCBudgets == {[duration |-> 0, bytes |-> 0], [duration |-> 3, bytes |-> 0],
              [duration |-> 0, bytes |-> 1]}

-----------------------------------------------------------------------------
(* EvidenceProfile: datasources with less than, as much as and more than   *)
(* the limits let through.                                                 *)

NoLimits == [series |-> 0, samples |-> 0, entries |-> 0, lines |-> 0, streams |-> 0,
             records |-> 0]

Asks(type, content, limits, reasons) ==
    [type |-> type, world |-> content, limits |-> limits, reasons |-> reasons]

UpTo(n, S) == UNION {[1 .. k -> S] : k \in 0 .. n}

MCMetrics == {Asks("metric", w, [NoLimits EXCEPT !.series = s, !.samples = n], {}) :
                 w \in UpTo(2, {<<>>, <<0>>, <<0, 1>>}), s \in 0 .. 1, n \in 0 .. 2}

MCLogs == {Asks("log", w, [NoLimits EXCEPT !.entries = e, !.lines = l, !.streams = s], {}) :
              w \in UpTo(2, {<<>>, <<TRUE>>, <<FALSE, FALSE>>}), e \in 0 .. 1,
              l \in {0, 2}, s \in 0 .. 1}

EventOf(object, time, reason) ==
    [object |-> object, time |-> time, reason |-> reason, long |-> FALSE]

MCEventQueries ==
    {Asks("event", w, [NoLimits EXCEPT !.records = n], reasons) :
        w \in UpTo(3, {EventOf("target", 1, "Pulled"), EventOf("other", 1, "BackOff"),
                       EventOf("related", 1, "ImagePullBackOff"),
                       EventOf("target", 0, "OOMKilled"),
                       EventOf("target", 1, "OOMKilled")}),
        n \in 0 .. 2, reasons \in {{}, {"OOMKilled"}}}

MCTerminations ==
    {Asks("containerTermination", w, NoLimits, {}) :
        w \in UpTo(3, {<<>>, <<"running">>, <<"running", "CrashLoopBackOff">>,
                       <<"Error", "CrashLoopBackOff">>})}

ProbeOf(handler, named, port) == [handler |-> handler, named |-> named, port |-> port]
PortOf(name, number) == [name |-> name, number |-> number]
MCProbes == {ProbeOf("none", FALSE, 0), ProbeOf("tcp", FALSE, 1),
             ProbeOf("httpGet", FALSE, 1), ProbeOf("httpGet", TRUE, "web")}
ContainersWith(probes) ==
    {[ports |-> ports, readiness |-> r, liveness |-> l] :
        ports \in {<<>>, <<PortOf("web", 1)>>, <<PortOf("web", 2), PortOf("admin", 1)>>},
        r \in probes, l \in probes}

MCProbeQueries == {Asks("probeConfiguration", <<c>>, NoLimits, {}) :
                      c \in ContainersWith(MCProbes)}

MCServices ==
    {Asks("serviceConfiguration", [targets |-> t, containers |-> <<c>>], NoLimits, {}) :
        t \in UpTo(2, {[named |-> TRUE, port |-> "web"], [named |-> FALSE, port |-> 1]}),
        c \in ContainersWith({ProbeOf("none", FALSE, 0)})}

MCConditions ==
    {Asks("deploymentCondition", [kind |-> k, conditions |-> c],
          [NoLimits EXCEPT !.records = n], {}) :
        k \in {"Deployment", "StatefulSet", "DaemonSet", "Job", "CronJob", "Pod"},
        c \in UpTo(2, {"Available=true", "Available=false"}), n \in 0 .. 1}

MCQueries == MCMetrics \cup MCLogs \cup MCEventQueries \cup MCTerminations
                 \cup MCProbeQueries \cup MCServices \cup MCConditions

Found(kind, says, related) ==
    [kind |-> kind, says |-> says, repeats |-> {}, truncated |-> FALSE,
     related |-> related]

InquiryOf(profile, asks, retained, kinds, others) ==
    [profile |-> profile, asks |-> asks, retained |-> retained, kinds |-> kinds,
     others |-> others]

MCInquiries(q) ==
    CASE q.type = "event" ->
            {InquiryOf(profile, {"ImagePullBackOff", "BackOff"}, TRUE, {"log"}, others) :
                profile \in {"ImagePullBackOff", "CrashLoopBackOff",
                             "EffectivenessVerification"},
                others \in {{}, {Found("log", {"panic"}, FALSE)}}}
            \cup {InquiryOf("OOMKilled", {"OOMKilled"}, FALSE, {"metric"},
                            {Found("metric", {"memory"}, FALSE)}),
                  InquiryOf("FailedScheduling", {}, FALSE, {},
                            {Found("scheduling", {"FailedScheduling"}, FALSE)})}
      [] q.type = "metric" ->
            {InquiryOf("LatencyRegression", {}, FALSE, {}, {}),
             InquiryOf("HighHTTPError", {"http"}, TRUE, {"log"},
                       {Found("log", {"connection refused"}, TRUE)})}
      [] q.type = "containerTermination" ->
            {InquiryOf("CrashLoopBackOffV2", {"BackOff"}, FALSE, {"event"}, others) :
                others \in {{}, {Found("event", {"BackOff"}, FALSE)}}}
      [] q.type = "probeConfiguration" ->
            {InquiryOf("ProbeFailure", {}, FALSE, {"event"},
                       {Found("event", {"Unhealthy"}, FALSE)})}
      [] q.type = "serviceConfiguration" ->
            {InquiryOf("ServicePortMismatch", {}, FALSE, {}, {})}
      [] q.type = "deploymentCondition" ->
            {InquiryOf("RolloutLatencyRegression", {}, FALSE, {"metric"},
                       {Found("metric", {"latency"}, FALSE)})}
      [] OTHER -> {InquiryOf("", {}, FALSE, {}, {})}

-----------------------------------------------------------------------------
(* Diagnosis: pods that are pending, recurring, replaced or foreign.       *)

PodOf(set, gated, scheduled, cause, events) ==
    [set |-> set, node |-> FALSE, gated |-> gated, scheduled |-> scheduled,
     cause |-> cause, events |-> events]

PodEvent(id, reason, cause, when, at, legacy) ==
    [id |-> id, reason |-> reason, cause |-> cause, when |-> when, at |-> at,
     legacy |-> legacy]

Pending == PodOf(1, FALSE, "Unschedulable", "cpu",
                 <<PodEvent(1, "FailedScheduling", "cpu", "within", 5, TRUE)>>)
Recurring == PodOf(1, FALSE, "", "",
                   <<PodEvent(1, "FailedScheduling", "taint", "within", 5, FALSE),
                     PodEvent(2, "Pulled", "", "within", 6, TRUE),
                     PodEvent(3, "FailedScheduling", "memory", "before", 2, TRUE)>>)
Replaced == PodOf(1, TRUE, "False", "", <<>>)
Second == PodOf(1, FALSE, "", "",
                <<PodEvent(4, "FailedScheduling", "nonodes", "within", 5, FALSE),
                  PodEvent(5, "Nominated", "", "within", 6, FALSE)>>)
Twice == PodOf(1, FALSE, "", "",
               <<PodEvent(6, "FailedScheduling", "memory", "within", 5, TRUE),
                 PodEvent(7, "FailedScheduling", "memory", "within", 5, FALSE)>>)
Foreign == PodOf(2, FALSE, "Unschedulable", "affinity", <<>>)

ClusterOf(target, sets, pods, collects, requests, image, detail, cut, mismatch,
          without) ==
    [target |-> target, sets |-> sets, pods |-> pods, collects |-> collects,
     requests |-> requests, image |-> image, detail |-> detail, cut |-> cut, mismatch |-> mismatch,
     without |-> without]

MCWorlds ==
    {ClusterOf("Pod", <<>>, <<<<Pending, Replaced>>>>, "yes", 5, "listed", "manifest",
               FALSE, TRUE, "v1"),
     ClusterOf("Deployment", <<"owned", "foreign">>, <<<<Recurring, Pending>>, <<Foreign>>>>,
               "yes", 5, "none", "", FALSE, FALSE, "none"),
     ClusterOf("Deployment", <<"owned">>, <<<<Second>>, <<Replaced>>, <<Replaced>>>>,
               "yes", 5, "unlisted", "refused", TRUE, FALSE, "core"),
     ClusterOf("Deployment", <<"owned">>, <<<<Twice>>>>, "yes", 5, "none", "", FALSE,
               FALSE, "none"),
     ClusterOf("Deployment", <<"owned">>, <<<<Pending>>>>, "yes", 5, "none", "", FALSE,
               FALSE, "core"),
     ClusterOf("Deployment", <<"owned">>, <<<<Pending>>, <<Replaced>>>>, "yes", 1,
               "none", "", FALSE, FALSE, "none"),
     ClusterOf("Deployment", <<"owned", "owned", "owned">>, <<<<Pending, Replaced>>>>,
               "overBudget", 5, "listed", "", FALSE, TRUE, "none"),
     ClusterOf("Deployment", <<"owned">>, <<<<Pending, Replaced>>>>, "no", 5, "listed",
               "refused", FALSE, TRUE, "none")}

-----------------------------------------------------------------------------
(* ModelGateway: a strict, a lax and a local provider, some broken, whose  *)
(* fallbacks form cycles.                                                  *)

ProviderOf(type, fallback) ==
    [type |-> type, model |-> TRUE, fallback |-> fallback, external |-> TRUE,
     kinds |-> {}, logs |-> TRUE, level |-> 3, denied |-> {}, redaction |-> FALSE]

MCProviderSpecs ==
    {ProviderOf("openai", "b"),
     [ProviderOf("claude", "a") EXCEPT !.kinds = {"log"}, !.logs = FALSE, !.level = 2,
                                       !.redaction = TRUE, !.denied = {"CredentialLike"}],
     [ProviderOf("gemini", "a") EXCEPT !.kinds = {"metric"}, !.model = FALSE],
     ProviderOf("heuristic", ""), ProviderOf("custom", "a")}

MCProviderKeys == {<<"team", "a">>, <<"system", "b">>}

PieceOf(kind, level, tags, redacted) ==
    [kind |-> kind, level |-> level, tags |-> tags, redacted |-> redacted,
     text |-> kind = "log"]

MCBundles == {[refs |-> {PieceOf("metric", 1, {}, TRUE), PieceOf("log", 2, {}, TRUE),
                         PieceOf("event", 1, {}, TRUE)},
               advisories |-> {{"event"}, {"event", "log"}}],
              [refs |-> {PieceOf("log", 3, {"CredentialLike"}, TRUE),
                         PieceOf("scheduling", 1, {}, FALSE)},
               advisories |-> {{"scheduling"}}]}

-----------------------------------------------------------------------------
(* At rest.                                                                *)

RestingSignal ==
    /\ origin = "rule" /\ signal = NoSignal /\ seen = NoSignal
    /\ fresh = [c \in Copies |-> c = "cache"]
    /\ queued = [w \in Watchers |-> FALSE]
    /\ pc = [c \in Controllers |-> "idle"]
    /\ timer = FALSE /\ plan = "none" /\ announced = FALSE /\ faults = 0

RestingRule ==
    /\ rule = RuleWith(<<>>, {}, "CreateRequest", FALSE)
    /\ ruleGeneration = 1 /\ generation = [t \in Targets |-> 1]
    /\ recorded = <<>> /\ gauge = 0 /\ source = "ok" /\ bucket = 1 /\ pass = NoPass
    /\ produced = {} /\ ruleStatus = [ready |-> FALSE, reason |-> ""] /\ ruleSteps = 0

RestingGuardrails ==
    /\ policies = <<>> /\ thresholds = <<>> /\ chains = <<>>
    /\ subject = PlanInput(FALSE, "restart", "low", 0)

RestingPlanner ==
    /\ registry = [n \in Names |-> Unregistered]
    /\ request = RequestOf(<<>>, <<>>, "", 0, 0)
    /\ planStage = "failed" /\ resolved = Plan(<<>>, <<>>, "") /\ asked = <<>>

RestingEvidence ==
    /\ query = Asks("event", <<>>, NoLimits, {}) /\ querying = "failed"
    /\ attempts = 0 /\ lastResponse = "" /\ contextDone = FALSE
    /\ observations = <<>> /\ stored = 0
    /\ inquiry = InquiryOf("", {}, FALSE, {}, {}) /\ outcome = ""
    /\ reported = [refs |-> 0, claims |-> 0, incomplete |-> {}, own |-> "none"]

RestingDiagnosis ==
    /\ world = ClusterOf("Pod", <<>>, <<>>, "no", 1, "none", "", FALSE, FALSE, "none")
    /\ live = <<>> /\ step = "done" /\ DiagnosisIdle

RestingGateway ==
    /\ providers = [k \in ProviderKeys |-> NoProvider]
    /\ bundle = [refs |-> {}, advisories |-> {}] /\ current = [key |-> <<"team", "a">>, spec |-> NoProvider]
    /\ turn = "failed" /\ GatewayIdle

-----------------------------------------------------------------------------

DetectionInit ==
    /\ part \in Parts
    /\ IF part = "signal" THEN SignalInit ELSE RestingSignal
    /\ IF part = "rule" THEN RuleInit ELSE RestingRule
    /\ IF part = "guardrails" THEN GuardrailInit ELSE RestingGuardrails
    /\ AdmissionInit
    /\ IF part = "planner" THEN PlanInit ELSE RestingPlanner
    /\ IF part = "collection" THEN CollectionInit ELSE NoCollection
    /\ IF part = "evidence" THEN ProfileInit ELSE RestingEvidence
    /\ IF part = "diagnosis" THEN DiagnosisInit ELSE RestingDiagnosis
    /\ IF part = "gateway" THEN GatewayInit ELSE RestingGateway

SignalPart ==
    /\ part = "signal" /\ SignalNext
    /\ UNCHANGED <<part, ruleVars, guardrailVars, admissionVars, planVars,
                   collectionVars, evidenceVars, profileVars, diagnosisVars, gatewayVars>>

RulePart ==
    /\ part = "rule" /\ RuleNext
    /\ UNCHANGED <<part, signalVars, guardrailVars, admissionVars, planVars,
                   collectionVars, evidenceVars, profileVars, diagnosisVars, gatewayVars>>

GuardrailPart ==
    /\ part = "guardrails" /\ Relist
    /\ UNCHANGED <<part, signalVars, ruleVars, admissionVars, planVars,
                   collectionVars, evidenceVars, profileVars, diagnosisVars, gatewayVars>>

AdmissionPart ==
    /\ part = "admission" /\ AdmissionNext
    /\ UNCHANGED <<part, signalVars, ruleVars, guardrailVars, planVars,
                   collectionVars, evidenceVars, profileVars, diagnosisVars, gatewayVars>>

PlannerPart ==
    /\ part = "planner" /\ PlanNext
    /\ UNCHANGED <<part, signalVars, ruleVars, guardrailVars, admissionVars,
                   collectionVars, evidenceVars, profileVars, diagnosisVars, gatewayVars>>

CollectionPart ==
    /\ part = "collection" /\ CollectionNext
    /\ UNCHANGED <<part, signalVars, ruleVars, guardrailVars, admissionVars, planVars,
                   evidenceVars, profileVars, diagnosisVars, gatewayVars>>

EvidencePart ==
    /\ part = "evidence" /\ ProfileNext
    /\ UNCHANGED <<part, signalVars, ruleVars, guardrailVars, admissionVars, planVars,
                   collectionVars, diagnosisVars, gatewayVars>>

DiagnosisPart ==
    /\ part = "diagnosis" /\ DiagnosisNext
    /\ UNCHANGED <<part, signalVars, ruleVars, guardrailVars, admissionVars, planVars,
                   collectionVars, evidenceVars, profileVars, gatewayVars>>

GatewayPart ==
    /\ part = "gateway" /\ GatewayNext
    /\ UNCHANGED <<part, signalVars, ruleVars, guardrailVars, admissionVars, planVars,
                   collectionVars, evidenceVars, profileVars, diagnosisVars>>

DetectionNext ==
    \/ SignalPart \/ RulePart \/ GuardrailPart \/ AdmissionPart \/ PlannerPart
    \/ CollectionPart \/ EvidencePart \/ DiagnosisPart \/ GatewayPart

detectionVars == <<part, signalVars, ruleVars, guardrailVars, admissionVars, planVars,
                   collectionVars, evidenceVars, profileVars, diagnosisVars, gatewayVars>>

\* At rest, none of the fair actions of a component is enabled.
DetectionSpec ==
    /\ DetectionInit /\ [][DetectionNext]_detectionVars
    /\ SignalFairness /\ CollectionFairness /\ GatewayFairness
=============================================================================
