-------------------------- MODULE EvidenceProfile --------------------------
(***************************************************************************)
(* What an investigation concludes from its evidence when its spec names   *)
(* an evidence profile (investigationrequest_controller.go): whether the   *)
(* evidence the profile requires is complete, whether it shows no issue,   *)
(* and otherwise which root cause the profile itself claims and whether    *)
(* verifier/heuristic.go finds that claim supported.  One query is that of *)
(* Evidence; the references of the investigation's others are given.       *)
(*                                                                         *)
(* The code decides by looking for words in the text of a reference.  A    *)
(* reference "says" the words that occur in its kind, source, reason and   *)
(* summary, and "repeats" those of its query's text if the query is        *)
(* retained in it.                                                         *)
(***************************************************************************)
EXTENDS Evidence, FiniteSets

CONSTANTS
    RequestsFor(_),     \* the investigations that may ask the query
    MaxStatusRefs,      \* MaxEvidenceRefs of the status budget
    MaxStatusSize       \* MaxStatusBytes, in references and claims

VARIABLES
    inquiry,        \* [profile, asks, retained, kinds, others]: the profile,
                    \* the words of the queries' texts, whether references
                    \* retain them, and the kinds and the references of the
                    \* investigation's other queries
    outcome,        \* status.outcome; "" before the verdict
    reported        \* [refs, claims, incomplete, own]: how many references
                    \* and claims the status keeps, the required checks it
                    \* calls incomplete, the verification of the profile's
                    \* own claim

profileVars == <<inquiry, outcome, reported>>

\* The words that a record's reason and the summary made for it contain.
Words(type, reason) ==
    CASE reason \in {"ImagePullBackOff", "CrashLoopBackOff"} -> {reason, "BackOff"}
      [] type = "probeConfiguration" -> {reason, "mismatchConfirmed"}
      [] type = "serviceConfiguration" ->
            {reason, "targetPort", "mismatchConfirmed"}
      [] OTHER -> {reason} \ {NoReason}

Ref(type, says, repeats, truncated) ==
    [kind |-> type, says |-> says, repeats |-> repeats,
     truncated |-> truncated, related |-> FALSE]

\* evidenceRefsFromObservations and retainedQuery.
ReportedRefs ==
    {Ref(query.type, Words(query.type, observations[i].reason),
         IF inquiry.retained THEN inquiry.asks ELSE {},
         observations[i].truncated) : i \in DOMAIN observations}
    \cup inquiry.others

-----------------------------------------------------------------------------
(* The tables of words.                                                    *)

CrashWords == {"BackOff", "Unhealthy", "Killing"}
PullWords == {"ImagePullBackOff", "ErrImagePull"}
OOMWords == {"OOMKilled"}
ProbeWords == {"Unhealthy"}
FailureWords == {"panic"}
DependencyWords == {"connection refused"}
SchedulingWords == {"FailedScheduling", "Unschedulable"}
HTTPWords == {"http"}

RequiredKinds(profile) ==
    CASE profile \in {"CrashLoopBackOff", "ImagePullBackOff", "FailedScheduling",
                      "SchedulingSuccess", "EffectivenessVerification"} -> {"event"}
      [] profile = "CrashLoopBackOffV2" -> {"event", "containerTermination"}
      [] profile = "OOMKilled" -> {"event", "metric"}
      [] profile = "LatencyRegression" -> {"metric"}
      [] profile = "RolloutLatencyRegression" -> {"metric", "deploymentCondition"}
      [] profile = "HighHTTPError" -> {"metric", "log"}
      [] profile = "ServicePortMismatch" -> {"serviceConfiguration"}
      [] OTHER -> {}

Scheduling(profile) == profile \in {"FailedScheduling", "SchedulingSuccess"}

-----------------------------------------------------------------------------
(* What is present.  "asks" are the words of the query's text, which count *)
(* as much as what was observed: a query for an issue that returns nothing *)
(* is evidence that there is none.                                         *)

QueryKinds == {query.type} \cup inquiry.kinds

Mentions(ref, words) == (ref.says \cup ref.repeats) \cap words # {}

EventCoveragePresent(asks, refs, words) ==
    \/ \E r \in refs : r.kind = "event" /\ Mentions(r, words)
    \/ "event" \in QueryKinds /\ asks \cap words # {}

EvidenceKindPresent(refs, kind, words) ==
    \E r \in refs : r.kind = kind /\ Mentions(r, words)

ApplicationLogPresent(refs) ==
    \E r \in refs : r.kind = "log" /\ r.says \cap FailureWords # {}

ServicePortMismatchPresent(refs) ==
    \E r \in refs : r.kind = "serviceConfiguration" /\ "ServicePortMismatch" \in r.says

FailedSchedulingPresent(refs) ==
    \E r \in refs : /\ ~ r.truncated
                    /\ r.kind \in {"event", "scheduling"}
                    /\ r.says \cap SchedulingWords # {}

\* The word is looked for without its value: "mismatchConfirmed=false" has it.
ProbeMismatchPresent(refs) ==
    \E r \in refs : /\ r.kind = "probeConfiguration"
                    /\ r.says \cap {"ProbeConfigurationMismatch", "mismatchConfirmed"} # {}

HTTPMetricPresent(refs) == EvidenceKindPresent(refs, "metric", HTTPWords)

CausalLogPresent(refs) ==
    \E r \in refs : r.kind = "log" /\ r.related /\ Mentions(r, DependencyWords)

TerminationPresent(refs) ==
    \E r \in refs : /\ r.kind = "containerTermination"
                    /\ ~ r.truncated
                    /\ "Error" \in r.says

-----------------------------------------------------------------------------
(* The gate.                                                               *)

KindsPresent(refs) == QueryKinds \cup {r.kind : r \in refs}

RequiredEvidenceMissing(profile, refs) ==
    \E kind \in RequiredKinds(profile) :
        /\ kind \notin KindsPresent(refs)
        /\ ~ (Scheduling(profile) /\ "scheduling" \in KindsPresent(refs))

SemanticEvidenceMissing(profile, asks, refs) ==
    CASE profile = "CrashLoopBackOff" ->
            \/ ~ EventCoveragePresent(asks, refs, CrashWords)
            \/ ~ ApplicationLogPresent(refs)
      [] profile = "CrashLoopBackOffV2" ->
            \/ ~ EventCoveragePresent(asks, refs, CrashWords)
            \/ ~ TerminationPresent(refs)
      [] profile = "ImagePullBackOff" -> ~ EventCoveragePresent(asks, refs, PullWords)
      [] profile = "OOMKilled" -> ~ EventCoveragePresent(asks, refs, OOMWords)
      [] profile = "ServicePortMismatch" -> ~ ServicePortMismatchPresent(refs)
      [] Scheduling(profile) -> ~ FailedSchedulingPresent(refs)
      [] profile = "HighHTTPError" ->
            \/ "metric" \in KindsPresent(refs) /\ ~ HTTPMetricPresent(refs)
            \/ "log" \in KindsPresent(refs) /\ ~ CausalLogPresent(refs)
      [] OTHER -> FALSE

FaultRelevantKinds(profile) ==
    CASE profile = "ImagePullBackOff" -> {"log"}
      [] profile = "CrashLoopBackOff" -> {"event", "log"}
      [] Scheduling(profile) -> {"event", "scheduling"}
      [] OTHER -> RequiredKinds(profile)

RelevantKinds(profile) ==
    CASE profile = "CrashLoopBackOff" -> {"event", "log"}
      [] Scheduling(profile) -> {"event", "scheduling"}
      [] OTHER -> RequiredKinds(profile)

\* evidenceRefMatchesProfileIssue.
ShowsIssue(profile, ref) ==
    LET says(words) == ref.says \cap words # {}
        aboveZero == ref.kind = "metric" /\ says({"AboveZero"})
    IN  CASE profile = "ImagePullBackOff" -> says(PullWords)
          [] profile = "CrashLoopBackOff" -> says(CrashWords \cup FailureWords)
          [] profile = "CrashLoopBackOffV2" -> says(CrashWords)
          [] profile = "HighHTTPError" -> says(HTTPWords \cup DependencyWords)
          [] profile = "OOMKilled" -> says(OOMWords) \/ aboveZero
          [] profile = "LatencyRegression" -> aboveZero
          [] profile = "RolloutLatencyRegression" ->
                aboveZero \/ says({"Available=false"})
          [] profile = "ServicePortMismatch" ->
                says({"ServicePortMismatch", "mismatchConfirmed", "targetPort"})
          [] Scheduling(profile) -> says(SchedulingWords)
          [] profile = "EffectivenessVerification" -> ref.kind = "event"
          [] OTHER -> FALSE

\* evidenceProfileHasNoIssue, of a profile whose evidence is complete.
HasNoIssue(profile, asks, refs) ==
    LET relevant == {r \in refs : r.kind \in RelevantKinds(profile)}
    IN  IF relevant # {}
        THEN \A r \in relevant : ~ ShowsIssue(profile, r)
        ELSE profile \in {"ImagePullBackOff", "OOMKilled", "EffectivenessVerification"}

(* evidenceCoverageAudit: the checks named in the status.  They are not    *)
(* the gate's: a metric completes the gate whatever it measures.           *)
IncompleteChecks(profile, asks, refs) ==
    LET metric(word) == \/ EvidenceKindPresent(refs, "metric", {word})
                        \/ "metric" \in QueryKinds /\ word \in asks
        completes ==
            CASE profile = "CrashLoopBackOff" ->
                    [CrashEvent |-> EventCoveragePresent(asks, refs, CrashWords),
                     ApplicationFailure |-> ApplicationLogPresent(refs)]
              [] profile = "CrashLoopBackOffV2" ->
                    [CrashEvent |-> EventCoveragePresent(asks, refs, CrashWords),
                     LastTermination |-> TerminationPresent(refs)]
              [] profile = "ImagePullBackOff" ->
                    [PullEvent |-> EventCoveragePresent(asks, refs, PullWords)]
              [] profile = "OOMKilled" ->
                    [OOMEvent |-> EventCoveragePresent(asks, refs, OOMWords),
                     Memory |-> metric("memory")]
              [] profile = "LatencyRegression" -> [Latency |-> metric("latency")]
              [] profile = "RolloutLatencyRegression" ->
                    [Latency |-> metric("latency"),
                     Rollout |-> EvidenceKindPresent(refs, "deploymentCondition",
                                                     {"rollout", "Available=false"})]
              [] profile = "ServicePortMismatch" ->
                    [PortMismatch |-> ServicePortMismatchPresent(refs)]
              [] Scheduling(profile) ->
                    [SchedulingEvent |-> FailedSchedulingPresent(refs)]
              [] profile = "HighHTTPError" ->
                    [HTTP5xx |-> HTTPMetricPresent(refs),
                     CausalDependency |-> CausalLogPresent(refs)]
              [] OTHER -> <<>>
    IN  {check \in DOMAIN completes : ~ completes[check]}

\* evaluateEvidenceRequirements: no gate without a profile that requires kinds.
Gate(profile, asks, refs) ==
    IF RequiredKinds(profile) = {} THEN "open"
    ELSE IF \/ RequiredEvidenceMissing(profile, refs)
            \/ SemanticEvidenceMissing(profile, asks, refs)
    THEN "incomplete"
    ELSE IF HasNoIssue(profile, asks, refs) THEN "noIssue" ELSE "open"

-----------------------------------------------------------------------------
(* The claim a profile adds to the provider's, and its verification.       *)

\* profileBackedRCAClaim; of scheduling, a diagnostic decides (Diagnosis).
ProfileClaims(profile, refs) ==
    CASE profile = "ServicePortMismatch" -> ServicePortMismatchPresent(refs)
      [] profile = "ProbeFailure" ->
            EventCoveragePresent({}, refs, ProbeWords) /\ ProbeMismatchPresent(refs)
      [] profile = "CrashLoopBackOff" ->
            EventCoveragePresent({}, refs, CrashWords) /\ ApplicationLogPresent(refs)
      [] profile = "ImagePullBackOff" -> EventCoveragePresent({}, refs, PullWords)
      [] profile = "OOMKilled" ->
            /\ EventCoveragePresent({}, refs, OOMWords)
            /\ EvidenceKindPresent(refs, "metric", {"memory"})
      [] profile = "HighHTTPError" -> HTTPMetricPresent(refs) /\ CausalLogPresent(refs)
      [] profile = "EffectivenessVerification" -> \E r \in refs : r.kind = "event"
      [] OTHER -> FALSE

\* domainEvidenceSupports; the kinds all have to be covered.
VerifierWords(profile) ==
    CASE profile = "ImagePullBackOff" -> [event |-> PullWords]
      [] profile = "CrashLoopBackOff" ->
            [event |-> {"BackOff"}, log |-> FailureWords]
      [] profile = "ProbeFailure" ->
            [event |-> ProbeWords,
             probeConfiguration |-> {"ProbeConfigurationMismatch", "mismatchConfirmed"}]
      [] profile = "HighHTTPError" -> [metric |-> HTTPWords, log |-> DependencyWords]
      [] profile = "OOMKilled" -> [event |-> OOMWords, metric |-> {"memory"}]
      [] profile = "ServicePortMismatch" ->
            [serviceConfiguration |-> {"ServicePortMismatch", "mismatchConfirmed",
                                       "targetPort"}]
      [] OTHER -> [event |-> {"event"}]

ProfileClaimSupported(profile, refs) ==
    LET words == VerifierWords(profile)
    IN  \A kind \in DOMAIN words :
            \E r \in refs : r.kind = kind /\ (r.says \cup {kind}) \cap words[kind] # {}

-----------------------------------------------------------------------------
(* EnforceInvestigationStatus: references go before claims.                *)

StatusBudget(refs, claims) ==
    LET kept == Lower(refs, MaxStatusRefs)
        over == IF kept + claims > MaxStatusSize
                THEN kept + claims - MaxStatusSize ELSE 0
    IN  [refs |-> kept - Lower(kept, over),
         claims |-> claims - (over - Lower(kept, over))]

ProfileInit ==
    /\ EvidenceInit
    /\ inquiry \in RequestsFor(query)
    /\ outcome = ""
    /\ reported = [refs |-> 0, claims |-> 0, incomplete |-> {}, own |-> "none"]

(* The part of Reconcile after collectEvidence.  "causes" are the          *)
(* verifications of the provider's own causes.                             *)
Judge(causes) ==
    LET refs == ReportedRefs
        profile == inquiry.profile
        gate == Gate(profile, inquiry.asks, refs)
        own == IF ~ ProfileClaims(profile, refs) THEN "none"
               ELSE IF ProfileClaimSupported(profile, refs) THEN "Supported"
               ELSE "Unsupported"
        claims == causes \cup ({own} \ {"none"})
    IN  /\ querying = "observed"
        /\ stored = Len(observations)
        /\ outcome = ""
        /\ outcome' = IF gate = "incomplete" THEN "Inconclusive"
                      ELSE IF gate = "noIssue" THEN "NoIssueFound"
                      ELSE IF "Supported" \in claims /\ "Contradicted" \notin claims
                      THEN "Confirmed" ELSE "Inconclusive"
        /\ LET kept == StatusBudget(Cardinality(refs),
                                    IF gate = "open" THEN Cardinality(claims) ELSE 0)
           IN  reported' = [refs |-> kept.refs, claims |-> kept.claims,
                            incomplete |-> IncompleteChecks(profile, inquiry.asks, refs),
                            own |-> IF gate = "open" THEN own ELSE "none"]
        /\ UNCHANGED <<evidenceVars, inquiry>>

ProfileNext ==
    \/ EvidenceNext /\ UNCHANGED profileVars
    \/ \E causes \in SUBSET {"Supported", "Contradicted"} : Judge(causes)

ProfileSpec == ProfileInit /\ [][ProfileNext]_<<evidenceVars, profileVars>>

-----------------------------------------------------------------------------

\* What the datasource holds in answer to the query, as references.
Held == {Ref(query.type, Words(query.type, r.reason), {}, FALSE) : r \in
            ToSet(AdapterResult(WithoutLimits(query)).records)}

(* NoIssueFound tells an operator, and the effectiveness check of an       *)
(* action, that nothing is wrong.  Whenever it is reported although no     *)
(* observation was truncated, nothing the datasource holds in answer to a  *)
(* query of a kind the profile requires shows the profile's issue: the     *)
(* limits, the cap on observations and the tables of kinds do not hide it. *)
NoIssueIsSound ==
    /\ outcome = "NoIssueFound"
    /\ \A i \in DOMAIN observations : ~ observations[i].truncated
    /\ query.type \in RequiredKinds(inquiry.profile)
    => \A ref \in Held : ~ ShowsIssue(inquiry.profile, ref)

(* profileBackedRCAClaim "adds a bounded canonical claim only when the     *)
(* collected evidence itself satisfies a supported root-cause profile"     *)
(* (investigationrequest_controller.go): the ProbeFailure profile's claim  *)
(* of a confirmed mismatch is found supported only if a probe was observed *)
(* that does not match its container's ports.                              *)
SupportedMismatchWasObserved ==
    /\ inquiry.profile = "ProbeFailure"
    /\ query.type = "probeConfiguration"
    /\ reported.own = "Supported"
    => \E i \in DOMAIN observations :
          observations[i].reason = "ProbeConfigurationMismatch"
=============================================================================
