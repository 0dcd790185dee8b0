---------------------------- MODULE EvidencePlan ----------------------------
(***************************************************************************)
(* Which queries an investigation sends to which datasource: the DataSource*)
(* controller and the registry it keeps (datasource_controller.go,         *)
(* datasourceconfig/loader.go, datasource/interface.go), the validation of *)
(* a request's spec and query budget, the collection plan (service.go),    *)
(* the datasources' query policies (internal/querypolicy), and what is     *)
(* kept of the answers.                                                    *)
(*                                                                         *)
(* A query's text is reduced to what the policies look at.  A registered   *)
(* source is a record: "name" is the name its adapter gives itself, which  *)
(* need not be the one it is registered under; "caps" its query types;     *)
(* "wrapped" says that it was built from a DataSource, "schedules" that    *)
(* its adapter collects scheduling evidence.                               *)
(***************************************************************************)
EXTENDS Integers, Sequences, FiniteSets, SequencesExt

CONSTANTS
    Names,          \* the names datasources are registered under
    Sources,        \* the sources that may be built
    Requests        \* the specs of the investigation

\* A field, a name or an issue that is not there.
Unset == ""

QueryTypes == {"metric", "log", "event", "deploymentCondition",
               "serviceConfiguration", "probeConfiguration",
               "containerTermination", "trace"}

ScopedByNature == QueryTypes \ {"metric", "log", "trace"}

(* The part of a query's text that matters: the functions or pipeline      *)
(* stages it uses, its modifiers, whether it matches by regular expression *)
(* and names the target.                                                   *)
QueryTexts == [uses : SUBSET {"rate", "json"}, modifiers : SUBSET {"subquery",
               "offset", "at"}, regex : BOOLEAN, scoped : BOOLEAN]

\* The texts the controller writes itself; the metric one matches "5..".
DefaultText(type) ==
    [uses |-> IF type = "metric" THEN {"rate"} ELSE {}, modifiers |-> {},
     regex |-> type = "metric", scoped |-> type \in {"metric", "log"}]

SupportsQueryType(source, type) == type \in source.caps

-----------------------------------------------------------------------------
(* Query policies.                                                         *)

NoPolicy == [mode |-> Unset, templates |-> {}, maxRange |-> 0, regex |-> FALSE,
             scope |-> FALSE, denied |-> {}, allowed |-> {}, forbidden |-> {}]

\* validateQueryPolicy, when the source is built.
PolicyValid(policy) ==
    /\ policy.mode \in {Unset, "LegacyUnrestricted", "TemplatesOnly"}
    /\ policy.maxRange >= 0
    /\ policy.allowed \cap policy.denied = {}

\* firstDenied and firstNotAllowed: an empty allowlist allows everything.
ListsAllow(policy, uses) ==
    /\ uses \cap policy.denied = {}
    /\ policy.allowed # {} => uses \subseteq policy.allowed

PromQLAllowed(policy, text) ==
    ListsAllow(policy, text.uses) /\ text.modifiers \cap policy.forbidden = {}

LogQLAllowed(policy, text) == ListsAllow(policy, text.uses)

SyntaxAllowed(source, query) ==
    IF source.name = "prometheus" \/ query.type = "metric"
    THEN PromQLAllowed(source.policy, query.text)
    ELSE IF source.name = "loki" \/ query.type = "log"
    THEN LogQLAllowed(source.policy, query.text)
    ELSE TRUE

HasTargetScope(query) == query.type \in ScopedByNature \/ query.text.scoped

\* Validate.
QueryAllowed(source, query) ==
    LET policy == source.policy
    IN  \/ policy.mode \in {Unset, "LegacyUnrestricted"}
        \/ /\ policy.mode = "TemplatesOnly"
           /\ query.fromTemplate
           /\ query.template \in policy.templates
           /\ policy.maxRange > 0 => query.lookback <= policy.maxRange
           /\ policy.regex \/ ~ query.text.regex
           /\ policy.scope => HasTargetScope(query)
           /\ SyntaxAllowed(source, query)

-----------------------------------------------------------------------------
(* The registry.  BuildSourceFromResource refuses an invalid policy, an    *)
(* unknown type and a missing endpoint, host, secret or client.            *)

Unregistered == [name |-> "none"]

Registered(registry, name) ==
    name \in DOMAIN registry /\ registry[name] # Unregistered

Buildable(source) == PolicyValid(source.policy) /\ source.reachable

-----------------------------------------------------------------------------
(* The spec.  A count or limit of zero means none; "lookback" 0 is unset.  *)

CountOf(names, name) == Cardinality({i \in DOMAIN names : names[i] = name})

ReferencedNames(spec) ==
    spec.dataSources \o [i \in DOMAIN spec.queries |-> spec.queries[i].source]

\* validateInvestigationQueryBudget: an unset lookback is not compared.
BudgetValid(spec) ==
    LET budget == spec.budget
        names  == ReferencedNames(spec)
    IN  /\ budget.total >= 0 /\ budget.perSource >= 0
        /\ budget.concurrent >= 0 /\ budget.timeRange >= 0
        /\ budget.timeRange > 0 => spec.lookback <= budget.timeRange
        /\ budget.total > 0 => Len(names) <= budget.total
        /\ budget.perSource > 0 =>
              \A n \in Names : CountOf(names, n) <= budget.perSource

RetentionValid(retention) ==
    \/ retention.mode \in {Unset, "MetadataOnly"}
    \/ /\ retention.mode = "NormalizedSnapshot"
       /\ ~ retention.encrypted
       /\ retention.storage = "local-filesystem"

\* An effectiveness verification reads only and names the action it is about.
CorrelationValid(spec) ==
    spec.purpose = "EffectivenessVerification" =>
        spec.mode = "readOnly" /\ ~ spec.createRiskSignal /\ spec.correlated

\* validateInvestigationRequestSpecIssue.
SpecValid(spec) ==
    /\ spec.target # "incomplete"
    /\ spec.mode \in {Unset, "readOnly"}
    /\ CorrelationValid(spec)
    /\ (spec.dataSources = <<>>) # (spec.queries = <<>>)
    /\ RetentionValid(spec.retention)
    /\ BudgetValid(spec)
    /\ \A i \in DOMAIN spec.queries :
          spec.queries[i].source # Unset /\ spec.queries[i].type # Unset

\* One of spec.queries; its kind says where the text comes from.
QuerySpec == [source : STRING, type : STRING, kind : {"none", "query", "template", "broken"},
              name : STRING, reasons : SUBSET STRING, text : QueryTexts]

ASSUME RequestsAssumption ==
    \A spec \in Requests :
        /\ spec.dataSources \in Seq(STRING)
        /\ spec.queries \in Seq(QuerySpec)
        /\ spec.budget \in [total : Int, perSource : Int, concurrent : Int, timeRange : Int]

-----------------------------------------------------------------------------
(* The collection plan.  An issue ends it; names and plan are a prefix.    *)

TargetKinds == {"Deployment", "StatefulSet", "DaemonSet", "ReplicaSet", "Pod",
                "Job", "CronJob"}

\* resolveTarget; "gone" is a target of a supported kind that does not exist.
TargetIssue(target) ==
    IF target \in TargetKinds THEN Unset
    ELSE IF target = "gone" THEN "TargetNotFound" ELSE "UnsupportedTargetKind"

EffectiveLookback(spec) == IF spec.lookback > 0 THEN spec.lookback ELSE 15

Plan(names, steps, issue) == [names |-> names, steps |-> steps, issue |-> issue]

\* buildDefaultCollectionStep: the first of these the source is capable of.
DefaultType(source) ==
    LET order == <<"event", "metric", "log", "probeConfiguration">>
        known == {i \in DOMAIN order : order[i] \in source.caps}
    IN  IF known = {} THEN Unset ELSE order[CHOOSE i \in known :
                                            \A j \in known : i <= j]

\* The step goes by the name of the adapter.
DefaultStep(source) ==
    [source |-> source.name, type |-> DefaultType(source),
     text |-> DefaultText(DefaultType(source)), template |-> source.name,
     fromTemplate |-> TRUE, reasons |-> {}]

\* What the query policy is asked about.
AsQuery(step, lookback) ==
    [type |-> step.type, text |-> step.text, template |-> step.template,
     fromTemplate |-> step.fromTemplate, lookback |-> lookback]

(* One reference of spec.dataSources, spec.queries: a missing source is    *)
(* noted and the rest looked at, any other issue ends the plan.            *)
AddDefault(registry, spec, plan, name) ==
    IF plan.issue \notin {Unset, "DataSourceNotFound"} THEN plan
    ELSE IF ~ Registered(registry, name)
    THEN [plan EXCEPT !.issue = "DataSourceNotFound"]
    ELSE LET step == DefaultStep(registry[name])
             query == AsQuery(step, EffectiveLookback(spec))
         IN  IF step.type = Unset
             THEN [plan EXCEPT !.issue = "CapabilityMismatch"]
             ELSE IF ~ QueryAllowed(registry[name], query)
             THEN [plan EXCEPT !.issue = "QueryPolicyRejected"]
             ELSE Plan(Append(plan.names, name), Append(plan.steps, step),
                       plan.issue)

\* investigationQueryText: a template before a query before the default.
AddQuery(registry, spec, plan, q) ==
    IF plan.issue \notin {Unset, "DataSourceNotFound"} THEN plan
    ELSE IF ~ Registered(registry, q.source)
    THEN [plan EXCEPT !.issue = "DataSourceNotFound"]
    ELSE LET text == IF q.kind = "none" THEN DefaultText(q.type) ELSE q.text
             step == [source |-> q.source, type |-> q.type, text |-> text,
                      template |-> q.name, fromTemplate |-> q.kind = "template",
                      reasons |-> q.reasons]
             query == AsQuery(step, EffectiveLookback(spec))
         IN  IF ~ SupportsQueryType(registry[q.source], q.type)
             THEN [plan EXCEPT !.issue = "CapabilityMismatch"]
             ELSE IF q.kind = "broken"
             THEN [plan EXCEPT !.issue = "QueryTemplateInvalid"]
             ELSE IF ~ QueryAllowed(registry[q.source], query)
             THEN [plan EXCEPT !.issue = "QueryPolicyRejected"]
             ELSE Plan(IF q.source \in ToSet(plan.names) THEN plan.names
                       ELSE Append(plan.names, q.source),
                       Append(plan.steps, step), plan.issue)

ResolveDefaultDatasourcePlan(registry, spec) ==
    LET plan[i \in 0 .. Len(spec.dataSources)] ==
            IF i = 0 THEN Plan(<<>>, <<>>, Unset)
            ELSE AddDefault(registry, spec, plan[i - 1], spec.dataSources[i])
    IN  plan[Len(spec.dataSources)]

ResolveQueryPlan(registry, spec) ==
    LET plan[i \in 0 .. Len(spec.queries)] ==
            IF i = 0 THEN Plan(<<>>, <<>>, Unset)
            ELSE AddQuery(registry, spec, plan[i - 1], spec.queries[i])
    IN  plan[Len(spec.queries)]

Steps(plan) == [i \in DOMAIN plan.steps |-> plan.steps[i].source]

\* One more query of the source stays within the budget.
WithinBudget(budget, plan, source) ==
    /\ budget.total > 0 => Len(plan.steps) + 1 <= budget.total
    /\ budget.perSource > 0 =>
          CountOf(Steps(plan), source) + 1 <= budget.perSource

(* CrashLoopBackOffV2 looks for BackOff events and adds a step of its own, *)
(* which no query policy is asked about.                                   *)
AddTermination(registry, spec, plan) ==
    LET events == "kubernetes-events"
        narrowed == [plan EXCEPT !.steps = [i \in DOMAIN plan.steps |->
                       IF /\ spec.queries = <<>>
                          /\ plan.steps[i].source = events
                          /\ plan.steps[i].type = "event"
                          /\ plan.steps[i].reasons = {}
                       THEN [plan.steps[i] EXCEPT !.reasons = {"BackOff"}]
                       ELSE plan.steps[i]]]
        step == [source |-> registry[events].name, type |-> "containerTermination",
                 text |-> DefaultText("containerTermination"),
                 template |-> "container-termination-status",
                 fromTemplate |-> FALSE, reasons |-> {}]
    IN  IF \E i \in DOMAIN plan.steps :
              plan.steps[i].type = "containerTermination" THEN narrowed
        ELSE IF ~ Registered(registry, events)
        THEN [narrowed EXCEPT !.issue = "DataSourceNotFound"]
        ELSE IF ~ SupportsQueryType(registry[events], "containerTermination")
        THEN [narrowed EXCEPT !.issue = "CapabilityMismatch"]
        ELSE IF ~ WithinBudget(spec.budget, plan, registry[events].name)
        THEN [narrowed EXCEPT !.issue = "QueryBudgetExceeded"]
        ELSE Plan(IF step.source \in ToSet(plan.names) THEN plan.names
                  ELSE Append(plan.names, step.source),
                  Append(narrowed.steps, step), Unset)

ResolveCollectionPlan(registry, spec) ==
    LET plan == IF spec.queries # <<>> THEN ResolveQueryPlan(registry, spec)
                ELSE ResolveDefaultDatasourcePlan(registry, spec)
    IN  IF plan.issue # Unset \/ spec.profile # "CrashLoopBackOffV2" THEN plan
        ELSE AddTermination(registry, spec, plan)

(* collectSchedulingEvidence, for a Pod or a Deployment: the first source  *)
(* that looks like a collector is asked, if the budget allows; a source    *)
(* built from a DataSource looks like one whatever its adapter.            *)
LooksLikeCollector(source) == source.wrapped \/ source.schedules

FaultSchedulingCollector(registry, spec, plan) ==
    LET candidates == {i \in DOMAIN plan.names :
                          /\ Registered(registry, plan.names[i])
                          /\ LooksLikeCollector(registry[plan.names[i]])}
        first == plan.names[CHOOSE i \in candidates :
                               \A j \in candidates : i <= j]
    IN  IF spec.target \notin {"Pod", "Deployment"} \/ candidates = {}
        THEN Unset ELSE first

SchedulingCollector(registry, spec, plan) ==
    LET candidates == {i \in DOMAIN plan.names :
                          /\ Registered(registry, plan.names[i])
                          /\ LooksLikeCollector(registry[plan.names[i]])}
        first == plan.names[CHOOSE i \in candidates :
                               \A j \in candidates : i <= j]
    IN  IF \/ spec.target \notin {"Pod", "Deployment"}
           \/ candidates = {}
           \/ ~ WithinBudget(spec.budget, plan, first)
        THEN Unset ELSE first

-----------------------------------------------------------------------------
(* One investigation while DataSources come and go.                        *)

VARIABLES
    registry,    \* [Names -> Sources or Unregistered]
    request,     \* the spec under investigation
    planStage,   \* "preflight", "collect", "failed" or "collected"
    resolved,    \* the collection plan of the preflight
    asked        \* the queries sent, as a sequence of [source, type]

planVars == <<registry, request, planStage, resolved, asked>>

PlanInit ==
    /\ registry \in [Names -> Sources \cup {Unregistered}]
    /\ request \in Requests
    /\ planStage = "preflight"
    /\ resolved = Plan(<<>>, <<>>, Unset)
    /\ asked = <<>>

\* DataSourceReconciler: the namespace of the DataSource is not looked at.
ReconcileDataSource(name, source) ==
    /\ planStage # "collected"
    /\ registry' = [registry EXCEPT ![name] =
                      IF Buildable(source) THEN source ELSE Unregistered]
    /\ UNCHANGED <<request, planStage, resolved, asked>>

DataSourceDeleted(name) ==
    /\ planStage # "collected"
    /\ registry' = [registry EXCEPT ![name] = Unregistered]
    /\ UNCHANGED <<request, planStage, resolved, asked>>

\* Preflight after the spec was found valid; the first issue ends it.
Preflight ==
    /\ planStage = "preflight"
    /\ resolved' = ResolveCollectionPlan(registry, request)
    /\ planStage' = IF /\ SpecValid(request)
                       /\ TargetIssue(request.target) = Unset
                       /\ resolved'.issue = Unset
                    THEN "collect" ELSE "failed"
    /\ UNCHANGED <<registry, request, asked>>

Sent(step) == [source |-> step.source, type |-> step.type]

(* CollectEvidence with its plan, whose queries may be answered in any     *)
(* order (see Collection), and the scheduling evidence after them.  A      *)
(* source that has gone fails the collection.                              *)
CollectEvidence ==
    /\ planStage = "collect"
    /\ IF \E i \in DOMAIN resolved.steps : ~ Registered(registry, resolved.steps[i].source)
       THEN /\ planStage' = "failed"
            /\ UNCHANGED asked
       ELSE LET collector == SchedulingCollector(registry, request, resolved)
                queries == [i \in DOMAIN resolved.steps |-> Sent(resolved.steps[i])]
            IN  /\ asked' = IF collector = Unset THEN queries
                            ELSE Append(queries, [source |-> collector,
                                                  type |-> "scheduling"])
                /\ planStage' = "collected"
    /\ UNCHANGED <<registry, request, resolved>>

PlanNext ==
    \/ Preflight
    \/ CollectEvidence
    \/ \E name \in Names :
          \/ DataSourceDeleted(name)
          \/ \E source \in Sources : ReconcileDataSource(name, source)

PlanSpec == PlanInit /\ [][PlanNext]_planVars

-----------------------------------------------------------------------------
(* Whatever is added to the plan (the container termination step, the      *)
(* collection of scheduling evidence) and whatever happens to the          *)
(* registry in between, an investigation never sends more queries than     *)
(* queryBudget.maxQueriesTotal allows and, when the queries are spelled    *)
(* out, no more to a datasource than maxQueriesPerSource.  (A planned      *)
(* query goes by the name of the adapter, and two DataSources may have the *)
(* same one.)                                                              *)
QueriesWithinBudget ==
    LET budget == request.budget
        names  == [i \in DOMAIN asked |-> asked[i].source]
    IN  /\ budget.total > 0 => Len(asked) <= budget.total
        /\ budget.perSource > 0 /\ request.queries # <<>> =>
              \A n \in Names : CountOf(names, n) <= budget.perSource
=============================================================================
