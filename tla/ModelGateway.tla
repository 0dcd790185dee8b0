---------------------------- MODULE ModelGateway ----------------------------
(***************************************************************************)
(* The reasoning of an investigation by model providers: the data policy   *)
(* that decides what evidence a hosted provider may receive                *)
(* (dataclassification, applyProviderDataPolicy), the gateway that falls   *)
(* back from provider to provider (modelgateway), the retries of a request *)
(* (model/http.go) and the audit of what was sent.                         *)
(*                                                                         *)
(* A ModelProvider is                                                      *)
(*   [type, model, fallback, external, kinds, logs, level, denied,         *)
(*    redaction]                                                           *)
(* with its spec.dataPolicy in the last six fields; a piece of evidence is *)
(*   [kind, level, tags, redacted, text]                                   *)
(* where text says that it carries a sample.  Levels are 0 (Public) to 3.  *)
(* Evidence is [refs, advisories]: pieces, and the claims of diagnostics   *)
(* that go into the prompt with them, each as the kinds it rests on.       *)
(***************************************************************************)
EXTENDS Integers, Sequences, FiniteSetsExt

CONSTANTS
    ProviderKeys,      \* <<namespace, name>> of the ModelProviders
    ProviderSpecs,     \* what a ModelProvider may be
    Bundles,           \* the evidence collected
    SystemNamespace,
    MaxTraceAttempts,  \* maxTraceAttempts
    MaxProviderTries,  \* defaultProviderMaxAttempts
    MaxEdits           \* bound on edits of the ModelProviders

Levels == 0 .. 3

ASSUME GatewayAssumption ==
    /\ {MaxTraceAttempts, MaxProviderTries} \subseteq Nat \ {0} /\ MaxEdits \in Nat
    /\ \A evidence \in Bundles : \A ref \in evidence.refs :
          ref \in [kind : STRING, level : Levels, tags : SUBSET STRING,
                  redacted : BOOLEAN, text : BOOLEAN]
    /\ \A spec \in ProviderSpecs : spec.level \in Levels

VARIABLES
    providers,   \* [ProviderKeys -> ProviderSpecs or NoProvider]
    bundle,      \* the evidence
    current,     \* [key, spec]: the ModelProvider as it was read
    turn,        \* what the gateway does next
    visited,     \* keys of the providers tried
    offered,     \* the evidence prepared for the current provider
    tries,       \* requests of the current provider
    failure,     \* the reason the current provider failed
    trace,       \* [key, reason]: the attempts recorded
    sent,        \* [key, spec, evidence]: what reached hosted providers
    edits

gatewayVars == <<providers, bundle, current, turn, visited, offered, tries,
                 failure, trace, sent, edits>>

NoProvider == [type |-> "none"]

Hosted(spec) == spec.type \in {"openai", "gemini", "claude"}

-----------------------------------------------------------------------------
(* The data policy.                                                        *)

KindAllowed(kind, spec) == spec.kinds = {} \/ kind \in spec.kinds

FilterEvidence(refs, spec) ==
    {[ref EXCEPT !.text = @ /\ (ref.kind = "log" => spec.logs)]
     : ref \in {r \in refs : KindAllowed(r.kind, spec)}}

\* filterDiagnosticResultsForEvidence: a claim needs one piece of its own left.
FilterAdvisories(advisories, refs) ==
    {kinds \in advisories : kinds = {} \/ \E ref \in refs : ref.kind \in kinds}

\* BundleClassification: at least Internal, the level of an empty bundle.
BundleLevel(refs) == Max({1} \cup {ref.level : ref \in refs})

EvaluateProviderPolicy(spec, refs) ==
    /\ BundleLevel(refs) <= spec.level
    /\ (UNION {ref.tags : ref \in refs}) \cap spec.denied = {}
    /\ spec.redaction => \A ref \in refs : ref.redacted

PolicyIssue(spec, evidence) ==
    IF ~Hosted(spec) THEN ""
    ELSE IF ~spec.external THEN "ProviderDataPolicyDenied"
    ELSE IF ~EvaluateProviderPolicy(spec, FilterEvidence(evidence.refs, spec))
    THEN "ProviderDataPolicyRejected"
    ELSE ""

\* applyProviderDataPolicy
EvidenceFor(spec, evidence) ==
    LET refs == FilterEvidence(evidence.refs, spec)
    IN  IF ~Hosted(spec) THEN evidence
        ELSE [refs |-> refs, advisories |-> FilterAdvisories(evidence.advisories, refs)]

-----------------------------------------------------------------------------
(* GenerateRCA rejects the first provider's policy before it asks the      *)
(* gateway, so its fallback is not tried for that.                         *)
GenerateRCA ==
    /\ turn = "start"
    /\ IF PolicyIssue(current.spec, bundle) # ""
       THEN /\ turn' = "failed"
            /\ failure' = PolicyIssue(current.spec, bundle)
            /\ trace' = <<[key |-> current.key, reason |-> failure']>>
       ELSE turn' = "input" /\ UNCHANGED <<failure, trace>>
    /\ UNCHANGED <<providers, bundle, current, visited, offered, tries, sent, edits>>

Recorded(reason) ==
    trace' = IF Len(trace) < MaxTraceAttempts
             THEN Append(trace, [key |-> current.key, reason |-> reason])
             ELSE trace

FallbackReasons ==
    {"ProviderUnavailable", "ProviderUnsupported", "ProviderDataPolicyDenied",
     "ProviderAuthFailed", "ProviderRateLimited", "ProviderRequestInvalid",
     "InvalidProviderResponse", "APIKeyMissing", "SecretRefMissing",
     "SecretReaderUnavailable", "SecretReadFailed", "SecretNotFound",
     "SecretKeyMissing", "SecretValueEmpty"}

\* The current provider failed: shouldAttemptProviderFallback.
Fail(reason) ==
    /\ failure' = reason
    /\ Recorded(reason)
    /\ turn' = IF current.spec.fallback # "" /\ reason \in FallbackReasons
               THEN "fallback" ELSE "failed"

(* A fault: every provider is offered what the first one's policy admits.  *)
FaultInputForProvider ==
    /\ turn = "input"
    /\ visited' = visited \cup {current.key}
    /\ IF PolicyIssue(current.spec, bundle) # "" /\ visited = {}
       THEN Fail(PolicyIssue(current.spec, bundle)) /\ UNCHANGED <<offered, tries>>
       ELSE /\ offered' = IF visited = {} THEN EvidenceFor(current.spec, bundle) ELSE offered
            /\ tries' = 0 /\ turn' = "configure"
            /\ UNCHANGED <<failure, trace>>
    /\ UNCHANGED <<providers, bundle, current, sent, edits>>

\* The evidence is prepared anew for every provider, under its own policy.
InputForProvider ==
    /\ turn = "input"
    /\ visited' = visited \cup {current.key}
    /\ IF PolicyIssue(current.spec, bundle) # ""
       THEN Fail(PolicyIssue(current.spec, bundle)) /\ UNCHANGED <<offered, tries>>
       ELSE /\ offered' = EvidenceFor(current.spec, bundle)
            /\ tries' = 0 /\ turn' = "configure"
            /\ UNCHANGED <<failure, trace>>
    /\ UNCHANGED <<providers, bundle, current, sent, edits>>

(* analyzeSingleProvider until the request: the type, the API key and the  *)
(* model.  The built-in heuristic answers at once.                         *)
ConfigureProvider(secret) ==
    /\ turn = "configure"
    /\ IF current.spec.type = "heuristic"
       THEN Recorded("Completed") /\ turn' = "succeeded" /\ UNCHANGED failure
       ELSE IF ~Hosted(current.spec) THEN Fail("ProviderUnsupported")
       ELSE IF secret # "ok" THEN Fail(secret)
       ELSE IF ~current.spec.model THEN Fail("ProviderUnavailable")
       ELSE turn' = "request" /\ UNCHANGED <<failure, trace>>
    /\ UNCHANGED <<providers, bundle, current, visited, offered, tries, sent, edits>>

ProviderReplies == {"ok", "malformed", "canceled", "transport", "unauthorized",
                    "rateLimited", "clientError", "serverError", "redirect"}

ReplyReason(reply) ==
    CASE reply = "malformed" -> "InvalidProviderResponse"
      [] reply = "unauthorized" -> "ProviderAuthFailed"
      [] reply = "rateLimited" -> "ProviderRateLimited"
      [] reply = "clientError" -> "ProviderRequestInvalid"
      [] OTHER -> "ProviderUnavailable"

(* One request of DoRequestWithRetryMetadata and what is made of its       *)
(* reply.  A retry may be cut short by the end of the context.             *)
RequestProvider(reply, contextDone) ==
    /\ turn = "request"
    /\ tries' = tries + 1
    /\ sent' = sent \cup {[key |-> current.key, spec |-> current.spec, evidence |-> offered]}
    /\ IF reply = "ok"
       THEN Recorded("Completed") /\ turn' = "succeeded" /\ UNCHANGED failure
       ELSE IF /\ reply \in {"transport", "rateLimited", "serverError"}
               /\ tries' < MaxProviderTries /\ ~contextDone
       THEN UNCHANGED <<turn, failure, trace>>
       ELSE Fail(ReplyReason(reply))
    /\ UNCHANGED <<providers, bundle, current, visited, offered, edits>>

\* KubeResolver: the provider's own namespace, then the system's.
Resolved(namespace, name) ==
    {k \in ProviderKeys : /\ k[2] = name /\ providers[k] # NoProvider
                          /\ \/ k[1] = namespace
                             \/ /\ k[1] = SystemNamespace
                                /\ \A o \in ProviderKeys :
                                      o = <<namespace, name>> => providers[o] = NoProvider}

Ended(reason) == failure' = reason /\ turn' = "failed"

(* A fault: the fallback is followed wherever it leads.                    *)
FaultResolveFallback(readable) ==
    LET found == Resolved(current.key[1], current.spec.fallback)
    IN  /\ turn = "fallback"
        /\ IF ~readable THEN Ended("ProviderRequestFailed") /\ UNCHANGED current
           ELSE IF found = {} THEN Ended("ProviderNotFound") /\ UNCHANGED current
           ELSE /\ current' = LET k == CHOOSE k \in found : TRUE
                              IN  [key |-> k, spec |-> providers[k]]
                /\ turn' = "input" /\ UNCHANGED failure
        /\ UNCHANGED <<providers, bundle, visited, offered, tries, trace, sent, edits>>

ResolveFallback(readable) ==
    LET found == Resolved(current.key[1], current.spec.fallback)
    IN  /\ turn = "fallback"
        /\ IF ~readable THEN Ended("ProviderRequestFailed") /\ UNCHANGED current
           ELSE IF found = {} THEN Ended("ProviderNotFound") /\ UNCHANGED current
           ELSE IF found \subseteq visited
           THEN Ended("ProviderFallbackLoop") /\ UNCHANGED current
           ELSE /\ current' = LET k == CHOOSE k \in found : TRUE
                              IN  [key |-> k, spec |-> providers[k]]
                /\ turn' = "input" /\ UNCHANGED failure
        /\ UNCHANGED <<providers, bundle, visited, offered, tries, trace, sent, edits>>

\* A ModelProvider is edited, or deleted and created again, meanwhile.
EditProvider ==
    /\ turn \notin {"succeeded", "failed"} /\ edits < MaxEdits
    /\ \E k \in ProviderKeys, spec \in ProviderSpecs \cup {NoProvider} :
          providers' = [providers EXCEPT ![k] = spec]
    /\ edits' = edits + 1
    /\ UNCHANGED <<bundle, current, turn, visited, offered, tries, failure, trace, sent>>

-----------------------------------------------------------------------------
GatewayIdle ==
    /\ visited = {} /\ offered = [refs |-> {}, advisories |-> {}] /\ tries = 0 /\ failure = "" /\ trace = <<>>
    /\ sent = {} /\ edits = 0

GatewayInit ==
    /\ providers \in [ProviderKeys -> ProviderSpecs \cup {NoProvider}]
    /\ bundle \in Bundles
    /\ \E k \in ProviderKeys : /\ providers[k] # NoProvider
                               /\ current = [key |-> k, spec |-> providers[k]]
    /\ turn = "start"
    /\ GatewayIdle

GatewayStep ==
    \/ GenerateRCA \/ InputForProvider
    \/ \E secret \in {"ok", "SecretNotFound", "SecretReadFailed"} : ConfigureProvider(secret)
    \/ \E reply \in ProviderReplies, contextDone \in BOOLEAN :
          RequestProvider(reply, contextDone)
    \/ \E readable \in BOOLEAN : ResolveFallback(readable)

GatewayNext ==
    \/ GatewayStep \/ EditProvider
    \/ turn \in {"succeeded", "failed"} /\ UNCHANGED gatewayVars

GatewayFairness == WF_gatewayVars(GatewayStep)

GatewaySpec == GatewayInit /\ [][GatewayNext]_gatewayVars /\ GatewayFairness

-----------------------------------------------------------------------------
(* What reaches a hosted provider is admitted by the policy of that very   *)
(* provider: it agreed to external transmission, every piece is of a kind  *)
(* it allows, no log sample without its consent, nothing above its level,  *)
(* with a tag it denies or unredacted against its wish, and no diagnostic  *)
(* claim that rests only on kinds it may not have; also when it is the     *)
(* fallback of a provider that allows more.                                *)
SentUnderOwnPolicy ==
    \A s \in sent :
        /\ Hosted(s.spec) /\ s.spec.external
        /\ \A kinds \in s.evidence.advisories :
              kinds = {} \/ \E kind \in kinds : KindAllowed(kind, s.spec)
        /\ \A ref \in s.evidence.refs :
              /\ KindAllowed(ref.kind, s.spec)
              /\ ref.kind = "log" /\ ref.text => s.spec.logs
              /\ ref.level <= s.spec.level
              /\ ref.tags \cap s.spec.denied = {}
              /\ s.spec.redaction => ref.redacted

(* The fallback chain ends whatever the references are, a cycle included,  *)
(* and whoever edits them meanwhile: with an answer or with a failure.     *)
ReasoningEnds == <>(turn \in {"succeeded", "failed"})
=============================================================================
