------------------------------ MODULE Diagnosis ------------------------------
(***************************************************************************)
(* The deterministic diagnosis of an investigation's evidence: the three   *)
(* diagnostics (diagnostic/scheduling.go, imagepull.go, serviceport.go),   *)
(* the accounting of their candidate claims (diagnostic/accounting.go,     *)
(* investigation/reconciliation.go) and their verification in shadow mode  *)
(* (investigation/verifier_shadow.go, verifier/heuristic.go).              *)
(*                                                                         *)
(* The target's pods are resolved three times: for the collection, for the *)
(* diagnostics and for the accounting, and they may differ.                *)
(*                                                                         *)
(* The image-pull event and the service configuration that the datasource  *)
(* queries found are world.image, world.detail, world.cut (truncated) and  *)
(* world.mismatch.                                                         *)
(***************************************************************************)
EXTENDS Scheduling

VARIABLES
    claims,      \* the candidates of the diagnostics
    status,      \* the scheduling diagnostic's status
    inventory,   \* the evidence identities the accounting trusts
    resolution,  \* [candidate -> disposition]
    verified     \* [candidate, verification]: the shadow verifier's result

diagnosisVars == <<schedulingVars, claims, status, inventory, resolution, verified>>

NoUID == <<>>

Candidate(diagnostic, statement, type, uid, refs) ==
    [diagnostic |-> diagnostic, id |-> <<statement, uid>>, statement |-> statement,
     type |-> type, uid |-> uid, refs |-> refs]

QueryRefs ==
    (IF world.image = "none" THEN {}
     ELSE {[id |-> <<"image">>, kind |-> "event", truncated |-> world.cut,
            uid |-> NoUID, text |-> world.image]})
    \cup (IF ~world.mismatch THEN {}
          ELSE {[id |-> <<"service">>, kind |-> "serviceConfiguration",
                 truncated |-> FALSE, uid |-> NoUID, text |-> "mismatch"]})

EvidenceRefs == QueryRefs \cup UNION {SchedulingRefs(r) : r \in AdaptedRecords}

-----------------------------------------------------------------------------
(* The diagnostics.                                                        *)

Readable(r) ==
    /\ ~r.stale
    /\ r.coverage \notin {"Unauthorized", "Unavailable", "CollectionFailed"}
    /\ StateCollected(r) \/ r.coverage # "Truncated"

ReportedFailure(r) ==
    /\ ~r.truncated
    /\ \/ r.scheduled = "Unschedulable"
       \/ \E e \in SelectedEvent(r) : e.reason = "FailedScheduling"

ReportedCauses(r) ==
    ({r.cause} \cup {e.cause : e \in SelectedEvent(r)})
        \cap {"cpu", "memory", "taint", "affinity"}

SchedulingClaims(r) ==
    LET C(statement, type) ==
            Candidate("scheduling", statement, type, r.uid,
                      {ref.id : ref \in SchedulingRefs(r)})
    IN  (IF r.node THEN {} ELSE {C("unassigned", "Observation")})
        \cup (IF r.gated /\ ~r.truncated THEN {C("gated", "FailureMechanism")} ELSE {})
        \cup (IF ReportedFailure(r)
              THEN {C("unschedulable", "FailureMechanism")}
                   \cup {C(cause, "RootCause") : cause \in ReportedCauses(r)}
              ELSE {})

SchedulingStatus ==
    LET read == {r \in AdaptedRecords : Readable(r)}
    IN  IF \E r \in read : ReportedFailure(r) \/ (r.gated /\ ~r.truncated)
        THEN "Supported"
        ELSE IF read = {} \/ \E r \in read : ~r.node THEN "Inconclusive"
        ELSE "NotApplicable"

\* imagePullTargetUID, servicePortTargetUID: the only pod of a complete scope.
SingleUID(found) ==
    IF found.complete /\ Len(found.pods) = 1 THEN found.pods[1] ELSE NoUID

ImagePullClaims(found) ==
    LET C(statement, type) ==
            Candidate("image-pull", statement, type, SingleUID(found), {<<"image">>})
    IN  IF \/ world.image = "none"
           \/ world.target = "Deployment" /\ found.complete /\ found.pods = <<>>
        THEN {}
        ELSE {C("image-pull-observed", "Observation"),
              C("image-pull-failure", "FailureMechanism")}
             \cup (IF world.detail # Blank /\ ~world.cut
                   THEN {C(world.detail, "RootCause")} ELSE {})

ServicePortClaims(found) ==
    IF world.mismatch /\ SingleUID(found) # NoUID
    THEN {Candidate("service-port", "service-port-mismatch", "RootCause",
                    SingleUID(found), {<<"service">>})}
    ELSE {}

\* evaluateDiagnostics, on the second resolution of the target's pods.
EvaluateDiagnostics ==
    /\ step = "diagnose"
    /\ \E found \in Scopes :
          claims' = ImagePullClaims(found) \cup ServicePortClaims(found)
                    \cup UNION {SchedulingClaims(r) :
                                   r \in {q \in AdaptedRecords : Readable(q)}}
    /\ status' = IF AdaptedRecords = {} THEN "NotApplicable" ELSE SchedulingStatus
    /\ step' = "account"
    /\ UNCHANGED <<world, live, assigned, scope, records, spent, listing,
                   inventory, resolution, verified>>

-----------------------------------------------------------------------------
(* Accounting.  Evidence whose pod is not known counts as the target's     *)
(* only pod's.  All evidence has the incident's window.                    *)

DiagnosticEvidenceInventory(found) ==
    {[id |-> ref.id, incomplete |-> ref.truncated,
      uid |-> IF ref.uid # NoUID THEN ref.uid ELSE SingleUID(found)]
     : ref \in EvidenceRefs}

Identities(id) == {i \in inventory' : i.id = id}

ValidateCandidate(c) ==
    LET evidence == UNION {Identities(id) : id \in c.refs}
    IN  IF c.uid = NoUID THEN "Rejected"
        ELSE IF c.refs = {} THEN "RetainedHypothesis"
        ELSE IF \/ \E id \in c.refs : Cardinality(Identities(id)) # 1
                \/ \E i \in evidence : i.uid # c.uid
        THEN "Rejected"
        ELSE IF \E i \in evidence : i.incomplete THEN "RetainedHypothesis"
        ELSE "ProposedClaim"

\* A candidate ID used for different content is a conflict, not a duplicate.
Disposition(c) ==
    IF \E d \in claims : d.id = c.id /\ d # c THEN "Rejected" ELSE ValidateCandidate(c)

(* AccountCandidates: of the proposed candidates that make the same claim  *)
(* one stays, the first by fingerprint; the others are its duplicates.     *)
AccountCandidates ==
    LET Same(c) == {d \in claims : /\ Disposition(d) = "ProposedClaim"
                                   /\ d.type = c.type /\ d.uid = c.uid
                                   /\ d.statement = c.statement}
    IN  [c \in claims |->
            IF Disposition(c) = "ProposedClaim" /\ c # CHOOSE d \in Same(c) : TRUE
            THEN "Deduplicated" ELSE Disposition(c)]

ReconcileCandidates ==
    /\ step = "account"
    /\ \E found \in Scopes : inventory' = DiagnosticEvidenceInventory(found)
    /\ resolution' = AccountCandidates
    /\ step' = "verify"
    /\ UNCHANGED <<world, live, assigned, scope, records, spent, listing,
                   claims, status, verified>>

-----------------------------------------------------------------------------
(* Verification.  The verifier matches words; each of the statements has   *)
(* the evidence whose text holds the words of its domain.                  *)

\* domainProfile and domainEvidenceSupports, evidenceSupportsStatement.
Supports(statement, ref) ==
    CASE statement \in {"unschedulable", "cpu", "memory"} ->
            ref.text \in {"FailedScheduling", "nonodes", "Unschedulable", "False"}
      [] statement \in {"image-pull-observed", "image-pull-failure"} ->
            ref.text = "listed"
      [] statement = "refused" -> FALSE
      [] statement = "service-port-mismatch" -> ref.kind = "serviceConfiguration"
      [] OTHER -> ref.kind = "scheduling" \/ ref.text \in {"nonodes", "listed", "unlisted"}

\* containsContradictionMarker: "no nodes available to schedule pods".
Contradicts(statement, ref) == ref.text = "nonodes"

VerifyClaim(statement, refs) ==
    IF \E ref \in refs : Contradicts(statement, ref) THEN "Contradicted"
    ELSE IF \E ref \in refs : Supports(statement, ref) THEN "Supported"
    ELSE "Unsupported"

TrustedEvidence(c) ==
    \A id \in c.refs :
        /\ \E ref \in EvidenceRefs : ref.id = id
        /\ \E i \in inventory : {j \in inventory : j.id = id} = {i}
                                /\ ~i.incomplete /\ i.uid = c.uid

(* VerifyReconciledCandidates, only for proposed claims; runShadowVerifi-  *)
(* cationSafely gives none when it panics or its deadline passes.          *)
VerifyCandidates(inTime) ==
    /\ step = "verify"
    /\ verified' =
          IF ~inTime THEN {}
          ELSE {[claim |-> c,
                 verification |->
                    IF resolution[c] # "ProposedClaim" \/ ~TrustedEvidence(c)
                    THEN "Skipped"
                    ELSE VerifyClaim(c.statement, {ref \in EvidenceRefs : ref.id \in c.refs})]
                : c \in claims}
    /\ step' = "done"
    /\ UNCHANGED <<world, live, assigned, scope, records, spent, listing,
                   claims, status, inventory, resolution>>

-----------------------------------------------------------------------------
DiagnosisIdle ==
    /\ assigned = {} /\ scope = <<>> /\ records = <<>> /\ listing = NoListing
    /\ spent = [api |-> 0, scanned |-> 0, exhausted |-> FALSE]
    /\ claims = {} /\ status = Blank /\ inventory = {} /\ resolution = <<>>
    /\ verified = {}

DiagnosisInit ==
    /\ world \in Worlds
    /\ live = [n \in PodNames |-> 1]
    /\ step = "scope"
    /\ DiagnosisIdle

Outcomes == {"ok", "forbidden", "timeout", "error"}

CollectionStep ==
    \/ ReplacePod \/ AssignPod
    \/ CollectSchedulingEvidence \/ PodBudgetExhausted
    \/ \E outcome \in Outcomes : GetPod(outcome)
    \/ StopListing \/ CompleteRecord
    \/ \E outcome \in Outcomes \cup {"unsupported"}, size \in {1, MaxSchedulingEvents + 1} :
          ListPage(outcome, size)

DiagnosisNext ==
    \/ CollectionStep /\ UNCHANGED <<claims, status, inventory, resolution, verified>>
    \/ EvaluateDiagnostics \/ ReconcileCandidates
    \/ \E inTime \in BOOLEAN : VerifyCandidates(inTime)
    \/ step = "done" /\ UNCHANGED diagnosisVars

DiagnosisSpec == DiagnosisInit /\ [][DiagnosisNext]_diagnosisVars

-----------------------------------------------------------------------------
InWindow(uid) == {e \in ToSet(Pod(uid).events) :
                    e.when = "within" /\ e.reason \in SchedulingReasons}

(* A supported scheduling claim is about a pod the target was found to     *)
(* own, states what was true of that very incarnation, and rests on every  *)
(* scheduling event of the pod within the incident's window, or on another *)
(* that says the same at the same time: never on a pod that took the name  *)
(* meanwhile, an event outside the window, or lists that failed or were    *)
(* cut.                                                                    *)
SupportedClaimsAreGrounded ==
    \A v \in verified :
        v.verification = "Supported" /\ v.claim.diagnostic = "scheduling" =>
            LET uid == v.claim.uid
            IN  /\ uid \in ToSet(scope)
                /\ CASE v.claim.statement = "unassigned" -> ~Pod(uid).node
                     [] v.claim.statement = "gated" -> Pod(uid).gated
                     [] OTHER -> \/ Pod(uid).scheduled = "Unschedulable"
                                 \/ \E e \in InWindow(uid) : e.reason = "FailedScheduling"
                /\ \A e \in InWindow(uid) : \E d \in InWindow(uid) :
                      Fingerprint(d) = Fingerprint(e) /\ <<"event", d.id>> \in v.claim.refs
=============================================================================
