------------------------------ MODULE Evidence ------------------------------
(***************************************************************************)
(* From a datasource's answer to the observations of an investigation: the *)
(* HTTP retries of datasource/do.go, the records the Prometheus, Loki and  *)
(* Kubernetes adapters make (datasource/prometheus, loki, kubernetes), the *)
(* limits and filters of investigation/service.go and the retention of     *)
(* what was observed.                                                      *)
(*                                                                         *)
(* A datasource's content ("world") is a sequence whose elements depend on *)
(* the query's type.  A record is what the adapters make of an element:    *)
(* its reason (of a metric, whether its value is above zero), and whether  *)
(* its text is longer than a summary may be.                               *)
(***************************************************************************)
EXTENDS Filtering, SequencesExt

CONSTANTS
    EvidenceQueries,    \* [type, world, limits, reasons] of the queries asked
    MaxAttempts,        \* defaultDatasourceMaxAttempts
    MaxPods,            \* maxTerminationPods
    MaxContainers,      \* maxTerminationContainers
    MaxEvidence         \* maxEvidencePerDatasource

IsSequence(s) == s \in Seq(ToSet(s))

\* What the adapters find, by the type of the query.
WorldTyped(type, world) ==
    CASE type = "metric" -> world \in Seq(Seq(Int))
      [] type = "log" -> world \in Seq(Seq(BOOLEAN))
      [] type = "event" -> IsSequence(world)
      [] type = "deploymentCondition" -> IsSequence(world.conditions)
      [] type = "probeConfiguration" ->
            IsSequence(world) /\ \A c \in ToSet(world) : IsSequence(c.ports)
      [] type = "serviceConfiguration" ->
            /\ IsSequence(world.targets) /\ IsSequence(world.containers)
            /\ \A c \in ToSet(world.containers) : IsSequence(c.ports)
      [] type = "containerTermination" -> world \in Seq(Seq(STRING))
      [] OTHER -> FALSE

Limits == [series : Int, samples : Int, entries : Int, lines : Int, streams : Int,
           records : Int]

ASSUME EvidenceAssumption ==
    /\ {MaxAttempts, MaxPods, MaxContainers, MaxEvidence} \subseteq Nat \ {0}
    /\ \A q \in EvidenceQueries : WorldTyped(q.type, q.world) /\ q.limits \in Limits

Lower(a, b) == IF a < b THEN a ELSE b

\* The first n elements; all of them when n is not positive.
Limited(s, n) == IF n > 0 THEN SubSeq(s, 1, Lower(n, Len(s))) ELSE s

Concatenation(seqs) ==
    LET joined[i \in 0 .. Len(seqs)] ==
            IF i = 0 THEN <<>> ELSE joined[i - 1] \o seqs[i]
    IN  joined[Len(seqs)]

TotalLength(seqs) ==
    LET total[i \in 0 .. Len(seqs)] ==
            IF i = 0 THEN 0 ELSE total[i - 1] + Len(seqs[i])
    IN  total[Len(seqs)]

NoReason == ""

Record(reason, long) == [reason |-> reason, long |-> long]

NoLimit == [original |-> 0, retained |-> 0]

(* A result: its records, whether the adapter truncated it, and the counts *)
(* of the dimension whose limit it met.                                    *)
Result(type, records, limit) ==
    [type |-> type, records |-> records, truncated |-> limit # NoLimit,
     original |-> limit.original, retained |-> limit.retained]

-----------------------------------------------------------------------------
(* HTTP.  A response is a transport failure, a status, or a body that is   *)
(* too large.                                                              *)

Responses == {"ok", "canceled", "transport", "unreadable", "oversize",
              "auth", "rateLimited", "timeout", "serverError", "clientError",
              "redirect"}

\* classifyTransportError, readResponse and classifyHTTPStatus.
Retryable(response) == response \in {"transport", "unreadable", "rateLimited",
                                     "timeout", "serverError"}

ErrorReason(response) ==
    CASE response = "oversize" -> "InvalidDatasourceResponse"
      [] response = "auth" -> "DatasourceAuthFailed"
      [] response = "rateLimited" -> "DatasourceRateLimited"
      [] response = "clientError" -> "DatasourceRequestInvalid"
      [] OTHER -> "DatasourceUnavailable"

-----------------------------------------------------------------------------
(* Prometheus: the world is a sequence of series, a series a sequence of   *)
(* samples.  The last sample kept stands for the series.                   *)

KeepSeries(kept, samples, limits) ==
    LET room == IF limits.samples > 0 THEN limits.samples - kept.samples
                ELSE Len(samples)
        taken == Lower(room, Len(samples))
    IN  IF kept.full \/ (limits.series > 0 /\ Len(kept.records) >= limits.series)
        THEN [kept EXCEPT !.full = TRUE]
        ELSE IF samples = <<>> THEN kept
        ELSE IF room <= 0 THEN [kept EXCEPT !.full = TRUE]
        ELSE [kept EXCEPT
                !.records = Append(@, Record(IF samples[taken] > 0 THEN "AboveZero"
                                             ELSE NoReason, FALSE)),
                !.samples = @ + taken]

\* The series matrixRecords keeps and the samples it counted for them.
MatrixRecords(series, limits) ==
    LET kept[i \in 0 .. Len(series)] ==
            IF i = 0 THEN [records |-> <<>>, samples |-> 0, full |-> FALSE]
            ELSE KeepSeries(kept[i - 1], series[i], limits)
    IN  kept[Len(series)]

PrometheusLimit(series, samples, kept, limits) ==
    IF limits.series > 0 /\ series > limits.series
    THEN [original |-> series, retained |-> Len(kept.records)]
    ELSE IF limits.samples > 0 /\ samples > limits.samples
    THEN [original |-> samples, retained |-> kept.samples]
    ELSE NoLimit

PrometheusRecords(series, limits) ==
    LET kept == MatrixRecords(series, limits)
    IN  Result("metric", kept.records,
               PrometheusLimit(Len(series), TotalLength(series), kept, limits))

-----------------------------------------------------------------------------
(* Loki: the world is a sequence of streams, a stream a sequence of lines, *)
(* each TRUE if it is too long for a summary.                              *)

LogEntries(limits) == IF limits.entries > 0 THEN limits.entries ELSE limits.lines

KeepStream(kept, lines, limits) ==
    LET max == LogEntries(limits)
        room == IF max > 0 THEN max - Len(kept.records) ELSE Len(lines)
    IN  IF \/ kept.full
           \/ limits.streams > 0 /\ kept.streams >= limits.streams
           \/ room <= 0 /\ max > 0
        THEN [kept EXCEPT !.full = TRUE]
        ELSE IF lines = <<>> THEN kept
        ELSE [kept EXCEPT
                !.records = @ \o [i \in 1 .. Lower(room, Len(lines)) |->
                                     Record(NoReason, lines[i])],
                !.streams = @ + 1]

StreamRecords(streams, limits) ==
    LET kept[i \in 0 .. Len(streams)] ==
            IF i = 0 THEN [records |-> <<>>, streams |-> 0, full |-> FALSE]
            ELSE KeepStream(kept[i - 1], streams[i], limits)
    IN  kept[Len(streams)]

LokiLimit(streams, entries, kept, limits) ==
    IF limits.streams > 0 /\ streams > limits.streams
    THEN [original |-> streams, retained |-> kept.streams]
    ELSE IF LogEntries(limits) > 0 /\ entries > LogEntries(limits)
    THEN [original |-> entries, retained |-> Len(kept.records)]
    ELSE NoLimit

LokiRecords(streams, limits) ==
    LET kept == StreamRecords(streams, limits)
    IN  Result("log", kept.records,
               LokiLimit(Len(streams), TotalLength(streams), kept, limits))

-----------------------------------------------------------------------------
(* Kubernetes.                                                             *)

NativeRecordLimit(limit, original) ==
    IF limit <= 0 \/ original <= limit THEN NoLimit
    ELSE [original |-> original, retained |-> limit]

\* eventReasonAllowed: no list allows all, an event without a reason none.
EventReasonAllowed(reason, allowed) ==
    allowed = {} \/ (reason # "" /\ reason \in allowed)

(* Events: [object, time, reason, long], oldest first.  An event matches   *)
(* by the name of the target or of one of its pods; time 0 is before the   *)
(* window, 2 after it.                                                     *)
Matching(events, reasons) ==
    OnlyIn(events, {e \in ToSet(events) :
                       /\ e.object \in {"target", "related"}
                       /\ e.time = 1
                       /\ EventReasonAllowed(e.reason, reasons)})

\* The first of the elements, as many as the limit retains.
Retained(s, limit) == IF limit = NoLimit THEN s ELSE Limited(s, limit.retained)

FaultEventRecords(events, reasons, limits) ==
    LET matched == Matching(events, {})
        limit == NativeRecordLimit(limits.records, Len(matched))
        kept == Retained(matched, limit)
    IN  Result("event", [i \in DOMAIN kept |-> Record(kept[i].reason, kept[i].long)],
               limit)

EventRecords(events, reasons, limits) ==
    LET matched == Matching(events, reasons)
        limit == NativeRecordLimit(limits.records, Len(matched))
        kept == Retained(matched, limit)
    IN  Result("event", [i \in DOMAIN kept |-> Record(kept[i].reason, kept[i].long)],
               limit)

\* Workload status: [kind, conditions]; a ReplicaSet or a Pod has none.
WorkloadStatusRecords(world) ==
    LET conditions == [i \in DOMAIN world.conditions |->
                          Record(world.conditions[i], FALSE)]
    IN  CASE world.kind = "Deployment" -> conditions
          [] world.kind = "StatefulSet" -> <<Record("ReadyReplicas", FALSE)>>
          [] world.kind = "DaemonSet" -> <<Record("NumberReady", FALSE)>>
          [] world.kind = "Job" -> Append(conditions, Record("FailedPods", FALSE))
          [] world.kind = "CronJob" -> <<Record("LastScheduleTime", FALSE)>>
          [] OTHER -> <<>>

ConditionRecords(world, limits) ==
    LET records == WorkloadStatusRecords(world)
        limit == NativeRecordLimit(limits.records, Len(records))
    IN  Result("deploymentCondition", Retained(records, limit), limit)

(* Probes: [handler, named, port] of each container's readiness and        *)
(* liveness probe; "ports" are the [name, number] it declares.             *)
PortMatches(port, named, value) ==
    IF named THEN port.name = value ELSE port.number = value

PortsAt(ports, named, value) ==
    OnlyIn(ports, {p \in ToSet(ports) : PortMatches(p, named, value)})

ProbeReasons(container, probe) ==
    LET matched == PortsAt(container.ports, probe.named, probe.port)
    IN  IF probe.handler = "none" THEN <<>>
        ELSE IF probe.handler # "httpGet" THEN <<"ProbeHandlerUnsupported">>
        ELSE IF matched # <<>>
        THEN [i \in DOMAIN matched |-> "ProbeConfigurationResolved"]
        ELSE IF probe.named THEN <<"ProbePortUnresolved">>
        ELSE <<"ProbeConfigurationMismatch">>

\* A record for each of the reasons.
RecordsFor(reasons) == [i \in DOMAIN reasons |-> Record(reasons[i], FALSE)]

ProbeRecords(containers) ==
    LET OfContainer(c) == ProbeReasons(c, c.readiness) \o ProbeReasons(c, c.liveness)
    IN  Result("probeConfiguration",
               RecordsFor(Concatenation([i \in DOMAIN containers |->
                                            OfContainer(containers[i])])),
               NoLimit)

(* Services: the [named, port] targets of the Service's ports, and the     *)
(* ports the containers of the workload declare.                           *)
ServiceReasons(target, ports) ==
    LET matched == PortsAt(ports, target.named, target.port)
    IN  IF matched # <<>> THEN [i \in DOMAIN matched |-> "ServicePortResolved"]
        ELSE IF target.named \/ ports = <<>> THEN <<"TargetPortUnresolved">>
        ELSE <<"ServicePortMismatch">>

ServiceRecords(targets, containers) ==
    LET ports == Concatenation([i \in DOMAIN containers |-> containers[i].ports])
    IN  Result("serviceConfiguration",
               RecordsFor(Concatenation([i \in DOMAIN targets |->
                                            ServiceReasons(targets[i], ports)])),
               NoLimit)

(* Terminations: a pod is the sequence of its containers' states.  The     *)
(* listing stops one pod past the limit; crash-looping pods go first.      *)
ListedPods(pods) == Limited(pods, MaxPods + 1)

PodHasCrashLoopContainer(pod) == "CrashLoopBackOff" \in ToSet(pod)

ByCrashLoop(pods) ==
    LET crashing == {p \in ToSet(pods) : PodHasCrashLoopContainer(p)}
    IN  OnlyIn(pods, crashing) \o OnlyIn(pods, ToSet(pods) \ crashing)

\* Of a pod only its first containers count.
ReportedStates(pod) ==
    LET states == Limited(pod, MaxContainers)
    IN  OnlyIn(states, ToSet(states) \ {"running"})

AllReported(pods) == [i \in DOMAIN pods |-> ReportedStates(pods[i])]

TerminationRecords(pods) ==
    LET listed == ListedPods(pods)
        selected == Limited(ByCrashLoop(listed), MaxPods)
    IN  Result("containerTermination",
               RecordsFor(Concatenation(AllReported(selected))),
               IF Len(listed) > MaxPods
               THEN [original |-> Len(listed), retained |-> Len(selected)]
               ELSE NoLimit)

\* Adapter.Query.
AdapterResult(query) ==
    LET world == query.world
    IN  CASE query.type = "metric" -> PrometheusRecords(world, query.limits)
          [] query.type = "log" -> LokiRecords(world, query.limits)
          [] query.type = "event" -> EventRecords(world, query.reasons, query.limits)
          [] query.type = "deploymentCondition" -> ConditionRecords(world, query.limits)
          [] query.type = "probeConfiguration" -> ProbeRecords(world)
          [] query.type = "serviceConfiguration" ->
                ServiceRecords(world.targets, world.containers)
          [] query.type = "containerTermination" -> TerminationRecords(world)

-----------------------------------------------------------------------------
(* The investigation's own limits.                                         *)

MinPositive(a, b) ==
    IF a <= 0 THEN b ELSE IF b <= 0 THEN a ELSE Lower(a, b)

MaxQueryResultRecords(type, limits) ==
    CASE type = "metric" -> MinPositive(limits.samples, limits.series)
      [] type = "log" -> LogEntries(limits)
      [] OTHER -> limits.records

ApplyQueryResultLimits(result, limits) ==
    LET max == MaxQueryResultRecords(result.type, limits)
    IN  IF max <= 0 \/ Len(result.records) <= max THEN result
        ELSE [result EXCEPT !.records = Limited(@, max), !.truncated = TRUE,
                            !.original = Len(result.records), !.retained = max]

FilterQueryResult(result, reasons) ==
    IF result.type # "event" THEN result
    ELSE [result EXCEPT !.records =
            OnlyIn(@, {r \in ToSet(@) : EventReasonAllowed(r.reason, reasons)})]

(* normalizeObservations: an observation per record up to MaxEvidence, and *)
(* one in its own right for a truncated scan that found nothing.           *)
NormalizeObservations(result) ==
    LET count == Len(result.records)
        truncated == result.truncated \/ count > MaxEvidence
        original == IF result.original > count THEN result.original ELSE count
        retained == IF result.retained > 0
                    THEN Lower(result.retained, Lower(count, MaxEvidence))
                    ELSE Lower(count, MaxEvidence)
        Observation(record) == [reason |-> record.reason,
                                truncated |-> truncated \/ record.long,
                                original |-> original, retained |-> retained]
    IN  IF count = 0 /\ result.truncated /\ result.type = "containerTermination"
        THEN <<[reason |-> NoReason, truncated |-> TRUE,
                original |-> result.original, retained |-> result.retained]>>
        ELSE [i \in 1 .. Lower(count, MaxEvidence) |->
                 Observation(result.records[i])]

Observe(query) ==
    NormalizeObservations(FilterQueryResult(
        ApplyQueryResultLimits(AdapterResult(query), query.limits), query.reasons))

-----------------------------------------------------------------------------
(* One query.                                                              *)

VARIABLES
    query,          \* the query
    querying,       \* "ask", "answered", "observed", "failed"
    attempts,       \* requests sent
    lastResponse,   \* the last response
    contextDone,    \* TRUE: the caller's context is done
    observations,   \* what is observed
    stored          \* the number of observations stored as snapshots

evidenceVars == <<query, querying, attempts, lastResponse, contextDone,
                  observations, stored>>

OverHTTP(type) == type \in {"metric", "log"}

EvidenceInit ==
    /\ query \in EvidenceQueries
    /\ querying = IF OverHTTP(query.type) THEN "ask" ELSE "answered"
    /\ attempts = 0
    /\ lastResponse = ""
    /\ contextDone = FALSE
    /\ observations = <<>>
    /\ stored = 0

\* A request in a context that is done fails with its cancellation.
Attempt(response) ==
    /\ querying = "ask"
    /\ contextDone = (response = "canceled")
    /\ attempts' = attempts + 1
    /\ lastResponse' = response
    /\ querying' = IF response = "ok" THEN "answered"
                   ELSE IF ~ Retryable(response) \/ attempts' >= MaxAttempts
                   THEN "failed" ELSE "sleep"
    /\ UNCHANGED <<query, contextDone, observations, stored>>

\* sleepForRetry: the context ends the wait and the query with it.
Retry ==
    /\ querying = "sleep"
    /\ querying' = IF contextDone THEN "failed" ELSE "ask"
    /\ UNCHANGED <<query, attempts, lastResponse, contextDone, observations, stored>>

EndContext ==
    /\ querying \in {"ask", "sleep"}
    /\ ~ contextDone
    /\ contextDone' = TRUE
    /\ UNCHANGED <<query, querying, attempts, lastResponse, observations, stored>>

ObserveRecords ==
    /\ querying = "answered"
    /\ observations' = Observe(query)
    /\ querying' = "observed"
    /\ UNCHANGED <<query, attempts, lastResponse, contextDone, stored>>

(* applyEvidenceRetention stores one observation after the other; a write  *)
(* that fails fails the collection and leaves the earlier snapshots.       *)
StoreSnapshot ==
    /\ querying = "observed"
    /\ stored < Len(observations)
    /\ \/ stored' = stored + 1 /\ UNCHANGED querying
       \/ querying' = "failed" /\ UNCHANGED stored
    /\ UNCHANGED <<query, attempts, lastResponse, contextDone, observations>>

EvidenceNext ==
    \/ \E response \in Responses : Attempt(response)
    \/ Retry \/ EndContext \/ ObserveRecords \/ StoreSnapshot

EvidenceSpec == EvidenceInit /\ [][EvidenceNext]_evidenceVars

-----------------------------------------------------------------------------
(* How much of the datasource's content answers the query.                 *)

WithoutLimits(q) ==
    [type |-> q.type, world |-> q.world, reasons |-> q.reasons,
     limits |-> [series |-> 0, samples |-> 0, entries |-> 0, lines |-> 0,
                 streams |-> 0, records |-> 0]]

Answering(q) ==
    CASE q.type = "metric" -> Len(OnlyIn(q.world, ToSet(q.world) \ {<<>>}))
      [] q.type = "log" -> TotalLength(q.world)
      [] q.type = "event" -> Len(Matching(q.world, q.reasons))
      [] q.type = "containerTermination" -> TotalLength(AllReported(q.world))
      [] OTHER -> Len(AdapterResult(WithoutLimits(q)).records)

(* Whatever combination of the adapters' native limits, the result limits, *)
(* the filter by reasons and the cap of five observations a query meets,   *)
(* losing part of the answer never goes unnoticed: if not all of it is     *)
(* observed then something is, and every observation says that it was      *)
(* truncated.  (Of a pod only its first ten containers count: the rest     *)
(* are dropped without a word.)                                            *)
TruncationShown ==
    querying = "observed" /\ Len(observations) < Answering(query) =>
        /\ observations # <<>>
        /\ \A i \in DOMAIN observations : observations[i].truncated
=============================================================================
