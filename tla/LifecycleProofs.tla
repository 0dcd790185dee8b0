-------------------------- MODULE LifecycleProofs --------------------------
(***************************************************************************)
(* The life of an action with any number of replicas: success is recorded  *)
(* only for what happened, an approval that comes in time is never         *)
(* escalated over, and every notice is accounted for.                      *)
(***************************************************************************)
EXTENDS DispatchProofs, FiniteSetTheorems

USE DEF Never

-----------------------------------------------------------------------------
(***************************************************************************)
(* The writes a Reconcile prepares, one disjunct for each kind: when it    *)
(* prepares them and what they make of the object it has read.             *)
(***************************************************************************)
\* A status write leaves metadata and spec as they were read.
SameSpec(a, o) ==
    /\ o.exists = a.exists /\ o.resourceVersion = a.resourceVersion
    /\ o.generation = a.generation /\ o.retain = a.retain
    /\ o.content = a.content /\ o.approvedBy = a.approvedBy

\* ... and what only some kinds of write change.
SameHistory(a, o) == o.finishedAt = a.finishedAt /\ o.effectiveness = a.effectiveness

Starts(w, o) ==
    /\ Reads(w, "approved")
    /\ o.phase = "Executing" /\ o.finishedAt = cache[w].finishedAt
    /\ o.execution.id = BuildExecutionIdentity(cache[w])
    /\ o.execution.state = "Executing"
    /\ o.approval.approved /\ o.approval.source # "None"
    /\ o.retryCount = cache[w].retryCount
    /\ \/ o.effectiveness = cache[w].effectiveness
       \/ o.effectiveness.phase = "NotVerified" /\ o.effectiveness.verificationRef = NoID

FailsEarly(w, o) ==
    /\ Reads(w, "approved")
    /\ o.phase = "Failed" /\ o.finishedAt = now
    /\ o.execution.id = BuildExecutionIdentity(cache[w])
    /\ o.execution.state = "Failed"
    /\ o.retryCount = cache[w].retryCount
    /\ o.effectiveness.phase = "NotVerified"

Succeeds(w, o) ==
    /\ \/ /\ Reads(w, "inFlight") /\ Resolve(cache[w])
          /\ o.execution.id = cache[w].execution.id
       \/ /\ At(w, "read") /\ worker[w].result = "Succeeded" /\ cache[w].exists
          /\ o.execution.id = worker[w].request.id
    /\ o.phase = "Succeeded" /\ o.finishedAt = now
    /\ o.execution.state = "Succeeded"
    /\ o.approval = cache[w].approval /\ o.retryCount = cache[w].retryCount
    /\ o.effectiveness.phase \in {"Verifying", "NotVerified"}
    /\ o.effectiveness.phase = "Verifying" =>
          /\ o.effectiveness.verificationRef = cache[w].effectiveness.verificationRef
          /\ o.effectiveness.settlingUntil = now + SettlingPeriod
          /\ o.effectiveness.observationUntil = now + SettlingPeriod + ObservationWindow

Doubts(w, o) ==
    /\ At(w, "read") /\ worker[w].result = "Unknown" /\ cache[w].exists
    /\ o.phase = "Executing" /\ o.execution.id = cache[w].execution.id
    /\ o.execution.state = "Unknown"
    /\ o.approval = cache[w].approval /\ o.retryCount = cache[w].retryCount
    /\ SameHistory(cache[w], o)

Fails(w, o) ==
    /\ At(w, "read") /\ worker[w].result = "Failed" /\ cache[w].exists
    /\ o.phase = "Failed" /\ o.execution.id = cache[w].execution.id
    /\ o.execution.state = "Failed" /\ o.finishedAt = now
    /\ o.approval = cache[w].approval /\ o.retryCount = cache[w].retryCount
    /\ o.effectiveness = cache[w].effectiveness

Resets(w, o) ==
    /\ Reads(w, "pending") /\ NeverEvaluated(cache[w])
    /\ o.phase = "WaitingApproval" /\ o.execution = cache[w].execution
    /\ o.approval.source = "Pending" /\ ~ o.approval.approved
    /\ o.retryCount = cache[w].retryCount
    /\ SameHistory(cache[w], o)

Attempts(w, o) ==
    /\ Reads(w, "pending") /\ ~ NeverEvaluated(cache[w]) /\ TimedOut(cache[w])
    /\ o.phase = cache[w].phase /\ o.updatedAt = cache[w].updatedAt
    /\ o.execution = cache[w].execution
    /\ o.approval = cache[w].approval
    /\ o.retryCount = cache[w].retryCount + 1
    /\ SameHistory(cache[w], o)

Escalates(w, o) ==
    /\ Reads(w, "pending") /\ ~ NeverEvaluated(cache[w]) /\ TimedOut(cache[w])
    /\ o.phase = "Escalated" /\ o.execution = cache[w].execution
    /\ o.approval = [cache[w].approval EXCEPT !.escalated = TRUE]
    /\ o.retryCount = cache[w].retryCount
    /\ SameHistory(cache[w], o)

Verifies(w, o) ==
    /\ Reads(w, "verification") /\ Settled(cache[w])
    /\ o.phase = cache[w].phase /\ o.execution = cache[w].execution
    /\ o.approval = cache[w].approval /\ o.retryCount = cache[w].retryCount
    /\ o.finishedAt = cache[w].finishedAt

\* ... the request is created and its name recorded;
Asks(w, o) ==
    /\ o.effectiveness.phase = cache[w].effectiveness.phase
    /\ o.effectiveness.verificationRef = cache[w].execution.id
    /\ o.effectiveness.observationUntil = cache[w].effectiveness.observationUntil
    /\ cache[w].execution.id \in DOMAIN verification'

\* ... or its outcome is turned into the verdict.
Judges(w, o) ==
    LET ref == cache[w].effectiveness.verificationRef IN
    /\ o.effectiveness.phase = "Completed" /\ o.effectiveness.verificationRef = ref
    /\ ref \in DOMAIN verification /\ verification[ref] \in VerificationOutcomes
    /\ now >= cache[w].effectiveness.observationUntil
    /\ o.effectiveness.outcome = "Effective" => verification[ref] = "NoIssueFound"

\* What write kind k makes of the object that w has read.
Prepared(w, k, o) ==
    /\ o \in Actions
    /\ SameSpec(cache[w], o)
    /\ \/ k = "start" /\ Starts(w, o)
       \/ k = "failBeforeDispatch" /\ FailsEarly(w, o)
       \/ k = "succeed" /\ Succeeds(w, o)
       \/ k = "unknown" /\ Doubts(w, o)
       \/ k = "failed" /\ Fails(w, o)
       \/ k = "pending" /\ Resets(w, o)
       \/ k = "attempt" /\ Attempts(w, o)
       \/ k = "escalate" /\ Escalates(w, o)
       \/ k = "verify" /\ Verifies(w, o) /\ Asks(w, o)
       \/ k = "complete" /\ Verifies(w, o) /\ Judges(w, o)

\* From verifications V to W, requests are only added, and finished ones stay.
Kept(V, W) ==
    /\ DOMAIN V \subseteq DOMAIN W
    /\ \A id \in DOMAIN V : V[id] # "running" => W[id] = V[id]

\* A step of w that prepares a write changes nothing else, but for the
\* verification request it may create.
PreparingStep(w) ==
    /\ \E k \in Kinds, o \in Actions, q \in Requests \cup {NoRequest} :
          Prepare(w, k, o, q) /\ Prepared(w, k, o)
    /\ Kept(verification, verification')
    /\ UNCHANGED <<action, cache, target, decisions, calls, effects, notices,
                   now, crashes>>

LEMMA KeptSame == \A V : Kept(V, V)
BY DEF Kept

LEMMA SpecKept ==
    ASSUME NEW a \in Actions, NEW at
    PROVE  /\ \A b \in BOOLEAN : SameSpec(a, Started(a, b, at))
           /\ \A id : SameSpec(a, failBeforeDispatch(a, id, at))
           /\ \A id : SameSpec(a, recordExecutionSuccess(a, id, at))
           /\ SameSpec(a, RecordUnknown(a, at))
           /\ SameSpec(a, RecordFailure(a, at))
           /\ SameSpec(a, ResetPending(a, at))
           /\ SameSpec(a, Escalated(a, at))
<1>1. \A b \in BOOLEAN : SameSpec(a, Started(a, b, at))
  BY DEF SameSpec, Started, SetPhase, Actions
<1>2. \A id : SameSpec(a, failBeforeDispatch(a, id, at))
  BY DEF SameSpec, failBeforeDispatch, SetPhase, Actions
<1>3. \A id : SameSpec(a, recordExecutionSuccess(a, id, at))
  BY DEF SameSpec, recordExecutionSuccess, SetPhase, Actions
<1>4. SameSpec(a, RecordUnknown(a, at))
  BY DEF SameSpec, RecordUnknown, SetPhase, Actions
<1>5. SameSpec(a, RecordFailure(a, at))
  BY DEF SameSpec, RecordFailure, SetPhase, Actions
<1>6. SameSpec(a, ResetPending(a, at))
  BY DEF SameSpec, ResetPending, SetPhase, Actions
<1>7. SameSpec(a, Escalated(a, at))
  BY DEF SameSpec, Escalated, SetPhase, Actions
<1> QED
  BY <1>1, <1>2, <1>3, <1>4, <1>5, <1>6, <1>7

LEMMA ApprovedPrepares ==
    ASSUME TypeInv, NEW w \in Workers, ReconcileApproved(w)
    PROVE  PreparingStep(w)
<1> DEFINE a == cache[w]
           q == ExecutionRequest(a)
<1>1. /\ a \in Actions /\ now \in Int /\ Reads(w, "approved")
      /\ UNCHANGED <<action, cache, target, verification, decisions, calls, effects,
                     notices, now, crashes>>
  BY DEF TypeInv, TypeOK, ReconcileApproved, worldVars
<1>2. q \in Requests /\ q.id \in ExecutionIDs /\ q.id = BuildExecutionIdentity(a)
  <2>1. Started(a, FALSE, now) \in Actions
    BY <1>1, StartedType
  <2> QED
    BY <2>1, <1>1, IdentityType DEF ExecutionRequest, Requests, Actions, Approvals
<1>3. PICK r \in BaselineResults(a.content) :
        CASE r \in {"found", "none"} -> Prepare(w, "start", Started(a, r = "found", now), q)
          [] r = "captureError" ->
               Prepare(w, "failBeforeDispatch",
                       failBeforeDispatch(a, q.id, now), NoRequest)
          [] r = "evidenceError" ->
               Prepare(w, "failBeforeDispatch",
                       failBeforeDispatch(Started(a, FALSE, now), q.id, now), NoRequest)
  BY DEF ReconcileApproved
<1>4. r \in {"found", "none", "captureError", "evidenceError"}
  BY <1>3 DEF BaselineResults
<1>5. CASE r \in {"found", "none"}
  <2> DEFINE o == Started(a, r = "found", now)
  <2>1. Prepare(w, "start", o, q)
    BY <1>3, <1>5
  <2>2. o \in Actions /\ SameSpec(a, o) /\ StartKept(a, o)
    BY <1>1, StartedType, SpecKept, StartedKeeps
  <2>3. isAgentActionApproved(a)
    BY <1>1 DEF Reads, Branch
  <2>4. /\ o.finishedAt = a.finishedAt /\ o.execution.state = "Executing"
        /\ o.approval.approved /\ o.retryCount = a.retryCount
        /\ \/ o.effectiveness = a.effectiveness
           \/ /\ o.effectiveness.phase = "NotVerified"
              /\ o.effectiveness.verificationRef = NoID
    BY <1>1 DEF Started, SetPhase, Actions, Approvals, NoEffectiveness
  <2> HIDE DEF o
  <2>5. Starts(w, o)
    BY <1>1, <2>2, <2>3, <2>4 DEF Starts, StartKept, isAgentActionApproved
  <2> QED
    BY <1>1, <1>2, <2>1, <2>2, <2>5, KeptSame DEF PreparingStep, Prepared, Kinds
<1>6. ASSUME NEW s \in Actions, SameSpec(a, s), s.retryCount = a.retryCount,
             Prepare(w, "failBeforeDispatch", failBeforeDispatch(s, q.id, now), NoRequest)
      PROVE  PreparingStep(w)
  <2> DEFINE o == failBeforeDispatch(s, q.id, now)
  <2>1. o \in Actions /\ SameSpec(s, o)
    BY <1>1, <1>2, failBeforeDispatchType, SpecKept
  <2>2. /\ o.phase = "Failed" /\ o.finishedAt = now
        /\ o.execution.id = q.id /\ o.execution.state = "Failed"
        /\ o.retryCount = s.retryCount
        /\ o.effectiveness.phase = "NotVerified"
    BY DEF failBeforeDispatch, SetPhase, Actions, NoEffectiveness
  <2> HIDE DEF o
  <2>3. SameSpec(a, o) /\ FailsEarly(w, o)
    BY <1>1, <1>2, <1>6, <2>1, <2>2 DEF FailsEarly, SameSpec
  <2>4. Prepare(w, "failBeforeDispatch", o, NoRequest)
    BY <1>6 DEF o
  <2> QED
    BY <1>1, <2>1, <2>3, <2>4, KeptSame DEF PreparingStep, Prepared, Kinds
<1>7. CASE r = "captureError"
  <2>1. SameSpec(a, a)
    BY DEF SameSpec
  <2> QED
    BY <1>1, <1>3, <1>6, <1>7, <2>1
<1>8. CASE r = "evidenceError"
  <2> DEFINE s == Started(a, FALSE, now)
  <2>1. s \in Actions /\ SameSpec(a, s) /\ s.retryCount = a.retryCount
    <3>1. s.retryCount = a.retryCount
      BY <1>1 DEF Started, SetPhase, Actions
    <3> QED
      BY <1>1, <3>1, StartedType, SpecKept
  <2>2. Prepare(w, "failBeforeDispatch", failBeforeDispatch(s, q.id, now), NoRequest)
    BY <1>3, <1>8
  <2> HIDE DEF s
  <2> QED
    BY <1>6, <2>1, <2>2
<1> QED
  BY <1>4, <1>5, <1>7, <1>8

\* The outcome of an execution, from the backend's answer or from Resolve.
LEMMA SuccessPrepares ==
    ASSUME TypeInv, NEW w \in Workers, NEW id \in ExecutionIDs,
           \/ Reads(w, "inFlight") /\ Resolve(cache[w]) /\ id = cache[w].execution.id
           \/ /\ At(w, "read") /\ worker[w].result = "Succeeded" /\ cache[w].exists
              /\ id = worker[w].request.id,
           Prepare(w, "succeed", recordExecutionSuccess(cache[w], id, now), NoRequest),
           UNCHANGED <<action, cache, worldVars>>
    PROVE  PreparingStep(w)
<1> DEFINE a == cache[w]
           o == recordExecutionSuccess(a, id, now)
<1>1. a \in Actions /\ now \in Int /\ a.effectiveness \in Effectivenesses
  BY DEF TypeInv, TypeOK, Actions
<1>2. /\ o \in Actions /\ SameSpec(a, o)
      /\ o.phase = "Succeeded" /\ o.execution.id = id /\ o.approval = a.approval
  BY <1>1, recordExecutionSuccessType, SpecKept, OutcomesKeep
<1>3. /\ o.finishedAt = now /\ o.retryCount = a.retryCount
      /\ o.execution.state = "Succeeded"
  BY <1>1 DEF recordExecutionSuccess, SetPhase, Actions
<1>4. o.effectiveness =
        IF a.effectiveness.phase # "None" /\ a.effectiveness.baseline
        THEN [a.effectiveness EXCEPT
                !.phase = "Verifying", !.outcome = "None",
                !.settlingUntil = now + SettlingPeriod,
                !.observationUntil = now + SettlingPeriod + ObservationWindow]
        ELSE [NoEffectiveness EXCEPT !.phase = "NotVerified"]
  BY <1>1 DEF recordExecutionSuccess, SetPhase, Actions
<1>5. /\ o.effectiveness.phase \in {"Verifying", "NotVerified"}
      /\ o.effectiveness.phase = "Verifying" =>
          /\ o.effectiveness.verificationRef = a.effectiveness.verificationRef
          /\ o.effectiveness.settlingUntil = now + SettlingPeriod
          /\ o.effectiveness.observationUntil = now + SettlingPeriod + ObservationWindow
  <2>1. [NoEffectiveness EXCEPT !.phase = "NotVerified"].phase = "NotVerified"
    BY DEF NoEffectiveness
  <2> HIDE DEF o
  <2> QED
    BY <1>1, <1>4, <2>1 DEF Effectivenesses
<1> HIDE DEF o
<1>6. Succeeds(w, o)
  BY <1>2, <1>3, <1>5 DEF Succeeds
<1>7. Prepare(w, "succeed", o, NoRequest)
  BY DEF o
<1> QED
  BY <1>2, <1>6, <1>7, KeptSame DEF PreparingStep, Prepared, Kinds, worldVars

LEMMA InFlightPrepares ==
    ASSUME TypeInv, NEW w \in Workers, ReconcileInFlight(w)
    PROVE  PreparingStep(w)
<1>1. InFlight(cache[w]) /\ cache[w] \in Actions
  BY DEF ReconcileInFlight, Reads, Branch, TypeInv, TypeOK
<1>2. cache[w].execution.id \in ExecutionIDs
  BY <1>1 DEF InFlight, Actions, Executions
<1> QED
  BY <1>2, SuccessPrepares DEF ReconcileInFlight

LEMMA ReadBackPrepares ==
    ASSUME TypeInv, NEW w \in Workers, ReadBack(w), ~ Return(w)
    PROVE  PreparingStep(w)
<1> DEFINE a == cache[w]
           u == RecordUnknown(a, now)
           f == RecordFailure(a, now)
<1>1. /\ a \in Actions /\ now \in Int /\ At(w, "read")
      /\ UNCHANGED <<action, cache, worldVars>>
  BY DEF TypeInv, TypeOK, ReadBack
<1>2. worker[w].request.id \in ExecutionIDs
  BY DEF ReadBack, At, TypeInv, HoldsRequest, Requests
<1>3. /\ u \in Actions /\ SameSpec(a, u)
      /\ f \in Actions /\ SameSpec(a, f)
  BY <1>1, OutcomeTypes, SpecKept
<1>4. /\ u.phase = "Executing" /\ u.execution.id = a.execution.id
      /\ u.approval = a.approval
      /\ u.retryCount = a.retryCount /\ SameHistory(a, u)
      /\ u.execution.state = "Unknown"
  BY <1>1 DEF RecordUnknown, SetPhase, Actions, Executions, SameHistory
<1>5. /\ f.phase = "Failed" /\ f.execution.id = a.execution.id
      /\ f.approval = a.approval
      /\ f.retryCount = a.retryCount /\ f.finishedAt = now
      /\ f.effectiveness = a.effectiveness /\ f.execution.state = "Failed"
  BY <1>1 DEF RecordFailure, SetPhase, Actions, Executions
<1>6. /\ a.exists
      /\ \/ /\ worker[w].result = "Succeeded"
            /\ Prepare(w, "succeed",
                       recordExecutionSuccess(a, worker[w].request.id, now), NoRequest)
         \/ worker[w].result = "Unknown" /\ Prepare(w, "unknown", u, NoRequest)
         \/ worker[w].result = "Failed" /\ Prepare(w, "failed", f, NoRequest)
  BY DEF ReadBack
<1> HIDE DEF u, f
<1>7. CASE worker[w].result = "Succeeded"
  BY <1>1, <1>2, <1>6, <1>7, SuccessPrepares
<1>8. CASE worker[w].result = "Unknown"
  <2>1. Doubts(w, u)
    BY <1>1, <1>3, <1>4, <1>6, <1>8 DEF Doubts
  <2> QED
    BY <1>1, <1>3, <1>6, <1>8, <2>1, KeptSame DEF PreparingStep, Prepared, Kinds, worldVars
<1>9. CASE worker[w].result = "Failed"
  <2>1. Fails(w, f)
    BY <1>1, <1>3, <1>5, <1>6, <1>9 DEF Fails
  <2> QED
    BY <1>1, <1>3, <1>6, <1>9, <2>1, KeptSame DEF PreparingStep, Prepared, Kinds, worldVars
<1> QED
  BY <1>6, <1>7, <1>8, <1>9

LEMMA PendingPrepares ==
    ASSUME TypeInv, NEW w \in Workers,
           ReconcilePending(w) \/ ReconcileApprovalTimeout(w)
    PROVE  PreparingStep(w)
<1> DEFINE a == cache[w]
           p == ResetPending(a, now)
           b == [a EXCEPT !.retryCount = @ + 1]
           e == Escalated(a, now)
<1>1. /\ a \in Actions /\ now \in Int /\ Reads(w, "pending")
      /\ UNCHANGED <<action, cache, worldVars>>
  BY DEF TypeInv, TypeOK, ReconcilePending, ReconcileApprovalTimeout
<1>2. CASE ReconcilePending(w)
  <2>1. /\ p \in Actions /\ SameSpec(a, p)
        /\ p.execution = a.execution
        /\ ~ p.approval.approved /\ p.approval.source = "Pending"
    BY <1>1, OutcomeTypes, SpecKept, PendingKeeps
  <2>2. /\ p.phase = "WaitingApproval" /\ p.retryCount = a.retryCount
        /\ SameHistory(a, p)
    BY <1>1 DEF ResetPending, SetPhase, Actions, SameHistory
  <2>3. Prepare(w, "pending", p, NoRequest) /\ NeverEvaluated(a)
    BY <1>2 DEF ReconcilePending
  <2> HIDE DEF p
  <2>4. Resets(w, p)
    BY <1>1, <2>1, <2>2, <2>3 DEF Resets
  <2> QED
    BY <1>1, <2>1, <2>3, <2>4, KeptSame DEF PreparingStep, Prepared, Kinds, worldVars
<1>3. CASE ReconcileApprovalTimeout(w)
  <2>1. /\ ~ NeverEvaluated(a) /\ TimedOut(a)
        /\ \/ Prepare(w, "attempt", b, NoRequest)
           \/ Prepare(w, "escalate", e, NoRequest)
    BY <1>3 DEF ReconcileApprovalTimeout
  <2>2. CASE Prepare(w, "attempt", b, NoRequest)
    <3>1. /\ b \in Actions /\ SameSpec(a, b) /\ SameHistory(a, b)
          /\ b.retryCount = a.retryCount + 1 /\ b.phase = a.phase
          /\ b.updatedAt = a.updatedAt /\ b.execution = a.execution
          /\ b.approval = a.approval
      BY <1>1 DEF Actions, SameSpec, SameHistory
    <3> HIDE DEF b
    <3>2. Attempts(w, b)
      BY <1>1, <2>1, <3>1 DEF Attempts
    <3> QED
      BY <1>1, <2>2, <3>1, <3>2, KeptSame DEF PreparingStep, Prepared, Kinds, worldVars
  <2>3. CASE Prepare(w, "escalate", e, NoRequest)
    <3>1. /\ e \in Actions /\ SameSpec(a, e) /\ e.phase = "Escalated"
          /\ e.execution = a.execution
          /\ e.approval = [a.approval EXCEPT !.escalated = TRUE]
      BY <1>1, OutcomeTypes, SpecKept, PendingKeeps
    <3>2. e.retryCount = a.retryCount /\ SameHistory(a, e)
      BY <1>1 DEF Escalated, SetPhase, Actions, SameHistory
    <3> HIDE DEF e
    <3>3. Escalates(w, e)
      BY <1>1, <2>1, <3>1, <3>2 DEF Escalates
    <3> QED
      BY <1>1, <2>3, <3>1, <3>3, KeptSame DEF PreparingStep, Prepared, Kinds, worldVars
  <2> QED
    BY <2>1, <2>2, <2>3
<1> QED
  BY <1>2, <1>3

LEMMA VerificationPrepares ==
    ASSUME TypeInv, NEW w \in Workers,
           ReconcileVerification(w) \/ ReconcileVerificationResult(w)
    PROVE  PreparingStep(w)
<1> DEFINE a == cache[w]
           ref == a.effectiveness.verificationRef
<1>1. /\ a \in Actions /\ a.effectiveness \in Effectivenesses /\ Identified(a)
      /\ Reads(w, "verification") /\ Settled(a)
      /\ UNCHANGED <<action, cache, target, decisions, calls, effects, notices,
                     now, crashes>>
  BY DEF TypeInv, TypeOK, Actions, ReconcileVerification, ReconcileVerificationResult,
         worldVars
<1>2. ASSUME NEW e \in Effectivenesses
      PROVE  LET b == [a EXCEPT !.effectiveness = e] IN
             b \in Actions /\ SameSpec(a, b) /\ Verifies(w, b) /\ b.effectiveness = e
  BY <1>1 DEF Actions, SameSpec, Verifies
<1>3. CASE ReconcileVerification(w)
  <2> DEFINE e == [a.effectiveness EXCEPT !.verificationRef = a.execution.id]
             b == [a EXCEPT !.effectiveness = e]
  <2>1. Prepare(w, "verify", b, NoRequest)
    <3>1. b = [a EXCEPT !.effectiveness.verificationRef = a.execution.id]
      BY <1>1 DEF Actions
    <3> QED
      BY <1>3, <3>1 DEF ReconcileVerification
  <2>2. a.execution.id \in ExecutionIDs
    BY <1>1 DEF Settled, Identified, Actions, Executions
  <2>3. /\ e \in Effectivenesses /\ e.phase = a.effectiveness.phase
        /\ e.verificationRef = a.execution.id
        /\ e.observationUntil = a.effectiveness.observationUntil
    BY <1>1, <2>2 DEF Effectivenesses
  <2>4. /\ a.execution.id \in DOMAIN verification'
        /\ Kept(verification, verification')
    BY <1>3 DEF ReconcileVerification, Kept
  <2>5. b \in Actions /\ SameSpec(a, b) /\ Verifies(w, b) /\ b.effectiveness = e
    BY <1>2, <2>3
  <2> HIDE DEF b, e
  <2>6. Asks(w, b)
    BY <2>3, <2>4, <2>5 DEF Asks
  <2> QED
    BY <1>1, <2>1, <2>4, <2>5, <2>6 DEF PreparingStep, Prepared, Kinds
<1>4. CASE ReconcileVerificationResult(w)
  <2>1. PICK h \in HealthComparisons, observed \in BOOLEAN :
          Prepare(w, "complete",
                  [a EXCEPT !.effectiveness.phase = "Completed",
                            !.effectiveness.outcome =
                               evaluateEffectiveness(h, observed, verification[ref])],
                  NoRequest)
    BY <1>4 DEF ReconcileVerificationResult
  <2> DEFINE r == evaluateEffectiveness(h, observed, verification[ref])
             e == [a.effectiveness EXCEPT !.phase = "Completed", !.outcome = r]
             b == [a EXCEPT !.effectiveness = e]
  <2>2. r \in Outcomes /\ (r = "Effective" => verification[ref] = "NoIssueFound")
    BY evaluateEffectivenessType DEF evaluateEffectiveness
  <2> HIDE DEF r
  <2>3. /\ e \in Effectivenesses /\ e.phase = "Completed"
        /\ e.verificationRef = ref /\ e.outcome = r
    BY <1>1, <2>2 DEF Effectivenesses
  <2>4. Prepare(w, "complete", b, NoRequest)
    <3>1. b = [a EXCEPT !.effectiveness.phase = "Completed",
                        !.effectiveness.outcome = r]
      BY <1>1 DEF Actions
    <3> QED
      BY <2>1, <3>1 DEF r
  <2>5. b \in Actions /\ SameSpec(a, b) /\ Verifies(w, b) /\ b.effectiveness = e
    BY <1>2, <2>3
  <2>6. /\ ref \in DOMAIN verification /\ verification[ref] \in VerificationOutcomes
        /\ now >= a.effectiveness.observationUntil
        /\ verification' = verification
    BY <1>4 DEF ReconcileVerificationResult, worldVars
  <2> HIDE DEF b, e
  <2>7. Judges(w, b)
    BY <2>2, <2>3, <2>5, <2>6 DEF Judges
  <2> QED
    BY <1>1, <2>4, <2>5, <2>6, <2>7, KeptSame DEF PreparingStep, Prepared, Kinds
<1> QED
  BY <1>3, <1>4

\* A Reconcile prepares a write, sends it, calls somebody, or returns.
LEMMA ReconcileSteps ==
    ASSUME TypeInv, NEW w \in Workers, Reconcile(w)
    PROVE  \/ PreparingStep(w)
           \/ Return(w) /\ UNCHANGED <<action, cache, worldVars>>
           \/ ReconcileTerminal(w) \/ StatusUpdate(w) \/ Execute(w) \/ Patch(w)
           \/ Notify(w) \/ Delete(w)
<1>1. CASE ReadBack(w)
  BY <1>1, ReadBackPrepares DEF ReadBack
<1>2. CASE StatusConflict(w)
  BY <1>2 DEF StatusConflict
<1> QED
  BY <1>1, <1>2, ApprovedPrepares, InFlightPrepares, PendingPrepares,
     VerificationPrepares DEF Reconcile

-----------------------------------------------------------------------------
(***************************************************************************)
(* The writes of the other clients.                                        *)
(***************************************************************************)
\* Somebody edits the object, or deletes it: its status stays.
Edits ==
    /\ action' \in Actions
    /\ action'.resourceVersion = action.resourceVersion + 1
    /\ action'.phase = action.phase /\ action'.updatedAt = action.updatedAt
    /\ action'.finishedAt = action.finishedAt
    /\ action'.approval = action.approval /\ action'.execution = action.execution
    /\ action'.retryCount = action.retryCount
    /\ action'.effectiveness = action.effectiveness

\* The object comes into being, with an empty status.
Appears ==
    /\ action.resourceVersion = 0
    /\ \E c \in Contents, by \in Approvers : action' = NewAction(c, by)

\* The policy engine decides about it.
IsDecided ==
    /\ action' \in Actions
    /\ action'.resourceVersion = action.resourceVersion + 1
    /\ action'.phase \in {"Approved", "WaitingApproval", "Rejected"}
    /\ action'.phase = "Approved" => action'.approval.approved
    /\ action'.execution = action.execution
    /\ action'.retryCount = action.retryCount
    /\ action'.effectiveness = action.effectiveness

LEMMA ClientSteps ==
    ASSUME TypeInv, TypeInv', Users \/ Plan
    PROVE  /\ \/ Edits \/ Appears
              \/ IsDecided /\ \E d \in Decisions, crd \in PolicyObjects : Decide(d, crd)
           /\ UNCHANGED <<cache, worker, target, verification, calls, effects,
                          notices, now, crashes>>
<1>1. action \in Actions /\ action' \in Actions
  BY DEF TypeInv, TypeOK
<1>2. ASSUME NEW c \in Contents, NEW by \in {"nobody", "reviewer"},
             CreateDirectly(c, by)
      PROVE  Appears /\ UNCHANGED <<cache, worker, target, verification, calls,
                                    effects, notices, now, crashes>>
  BY <1>2 DEF CreateDirectly, Appears, Approvers
<1>3. ASSUME NEW by \in {"nobody", "reviewer"}, SetApprovedBy(by)
      PROVE  Edits /\ UNCHANGED <<cache, worker, target, verification, calls,
                                  effects, notices, now, crashes>>
  BY <1>1, <1>3 DEF SetApprovedBy, Written, Actions, Edits
<1>4. ASSUME NEW c \in Contents, EditContent(c)
      PROVE  Edits /\ UNCHANGED <<cache, worker, target, verification, calls,
                                  effects, notices, now, crashes>>
  BY <1>1, <1>4 DEF EditContent, Written, Actions, Edits, worldVars
<1>5. ASSUME Retain
      PROVE  Edits /\ UNCHANGED <<cache, worker, target, verification, calls,
                                  effects, notices, now, crashes>>
  BY <1>1, <1>5 DEF Retain, Written, Actions, Edits, worldVars
<1>6. ASSUME CollectGarbage
      PROVE  Edits /\ UNCHANGED <<cache, worker, target, verification, calls,
                                  effects, notices, now, crashes>>
  BY <1>1, <1>6 DEF CollectGarbage, Written, Actions, Edits, worldVars
<1>7. ASSUME NEW c \in Contents, NEW auto \in BOOLEAN, Generate(c, auto)
      PROVE  (Edits \/ Appears) /\ UNCHANGED <<cache, worker, target, verification,
                                       calls, effects, notices, now, crashes>>
  <2>1. UNCHANGED <<cache, worker, target, verification, calls, effects, notices,
                    now, crashes>>
    BY <1>7 DEF Generate, worldVars
  <2>2. CASE action.resourceVersion = 0
    <3>1. action' = NewAction(c, IF auto THEN "policy" ELSE "nobody")
      BY <1>7, <2>2 DEF Generate, Generated
    <3>2. (IF auto THEN "policy" ELSE "nobody") \in Approvers
      BY DEF Approvers
    <3> QED
      BY <2>1, <2>2, <3>1, <3>2 DEF Appears
  <2>3. CASE action.resourceVersion # 0
    <3>1. action' = [action EXCEPT !.content = c,
                                   !.approvedBy = IF auto THEN "policy" ELSE @,
                                   !.generation = @ + 1,
                                   !.resourceVersion = @ + 1]
      BY <1>7, <2>3 DEF Generate, Generated
    <3> QED
      BY <1>1, <2>1, <3>1 DEF Actions, Edits
  <2> QED
    BY <2>2, <2>3
<1>8. ASSUME NEW d \in Decisions, NEW crd \in PolicyObjects, Decide(d, crd)
      PROVE  IsDecided /\ UNCHANGED <<cache, worker, target, verification, calls,
                                      effects, notices, now, crashes>>
  <2> DEFINE b == Decided(action, d, crd, Len(decisions) + 1, now)
  <2>1. Len(decisions) + 1 \in Nat /\ crd \in BOOLEAN /\ now \in Int
    BY ConstantsAssumption DEF TypeInv, TypeOK
  <2>2. b \in Actions
    BY <1>1, <2>1, DecidedType
  <2>3. /\ b.resourceVersion = action.resourceVersion
        /\ b.phase \in {"Approved", "WaitingApproval", "Rejected"}
        /\ b.execution = action.execution
        /\ b.retryCount = action.retryCount
        /\ b.effectiveness = action.effectiveness
    BY <1>1 DEF Decided, SetPhase, Decisions, Actions
  <2>4. b.phase = "Approved" => b.approval.approved
    BY <1>1 DEF Decided, SetPhase, Decisions, Actions
  <2>5. action' = [b EXCEPT !.resourceVersion = @ + 1]
    BY <1>8 DEF Decide, Written
  <2> HIDE DEF b
  <2> QED
    BY <1>1, <1>8, <2>2, <2>3, <2>4, <2>5 DEF IsDecided, Decide, Actions
<1> QED
  BY <1>2, <1>3, <1>4, <1>5, <1>6, <1>7, <1>8, ContentTypes DEF Users, Plan

-----------------------------------------------------------------------------
(***************************************************************************)
(* Success.  SucceededMeansEffect is not inductive: the object is written  *)
(* from copies in caches and in memory, from the answer of a backend and   *)
(* from the identity found on the target.                                  *)
(***************************************************************************)
\* A side effect in E was performed under identity id.
Effected(E, id) == \E i \in 1 .. Len(E) : E[i].id = id

SuccessSound(E, a) == a.phase = "Succeeded" => Effected(E, a.execution.id)

\* A Reconcile in progress: what it holds, and the answer it was given.
AnswerSound(E, s) ==
    /\ SuccessSound(E, s.obj)
    /\ s.pc = "read" /\ s.result = "Succeeded" => Effected(E, s.request.id)

EffectInv ==
    /\ target.executionID # NoID => Effected(effects, target.executionID)
    /\ SuccessSound(effects, action)
    /\ \A w \in Workers : SuccessSound(effects, cache[w])
    /\ \A w \in Workers : AnswerSound(effects, worker[w])

\* Side effects are not undone.
LEMMA EffectsStay ==
    ASSUME NEW E \in Seq(Effects), NEW e \in Effects, NEW id, Effected(E, id)
    PROVE  Effected(Append(E, e), id)
<1>1. PICK i \in 1 .. Len(E) : E[i].id = id
  BY DEF Effected
<1>2. Append(E, e)[i] = E[i] /\ i \in 1 .. Len(Append(E, e))
  OBVIOUS
<1> QED
  BY <1>1, <1>2 DEF Effected

LEMMA EffectHappens ==
    ASSUME NEW E \in Seq(Effects), NEW e \in Effects
    PROVE  Effected(Append(E, e), e.id)
<1>1. /\ Append(E, e)[Len(E) + 1] = e
      /\ Len(E) + 1 \in 1 .. Len(Append(E, e))
  OBVIOUS
<1> QED
  BY <1>1 DEF Effected

\* A step preserves EffectInv when what it changes is sound.
LEMMA EffectStep ==
    ASSUME TypeInv, EffectInv,
           effects' = effects \/ \E e \in Effects : effects' = Append(effects, e),
           \/ target' = target
           \/ target'.executionID = NoID
           \/ Effected(effects', target'.executionID),
           action' = action \/ SuccessSound(effects', action'),
           \A w \in Workers : cache'[w] = cache[w] \/ cache'[w] = action,
           \A w \in Workers : worker'[w] = worker[w] \/ AnswerSound(effects', worker'[w])
    PROVE  EffectInv'
<1>1. \A id : Effected(effects, id) => Effected(effects', id)
  BY EffectsStay DEF TypeInv, TypeOK
<1>2. \A a : SuccessSound(effects, a) => SuccessSound(effects', a)
  BY <1>1 DEF SuccessSound
<1>3. \A s : AnswerSound(effects, s) => AnswerSound(effects', s)
  BY <1>1, <1>2 DEF AnswerSound
<1>4. target'.executionID # NoID => Effected(effects', target'.executionID)
  BY <1>1 DEF EffectInv
<1>5. SuccessSound(effects', action')
  BY <1>2 DEF EffectInv
<1>6. \A w \in Workers : SuccessSound(effects', cache'[w])
  BY <1>2 DEF EffectInv
<1>7. \A w \in Workers : AnswerSound(effects', worker'[w])
  BY <1>3 DEF EffectInv
<1> QED
  BY <1>4, <1>5, <1>6, <1>7 DEF EffectInv

\* A write keeps the status, or does not say "Succeeded".
LEMMA StatusKept ==
    ASSUME NEW E, NEW a, NEW b, SuccessSound(E, a),
           b.phase # "Succeeded" \/ (b.phase = a.phase /\ b.execution.id = a.execution.id)
    PROVE  SuccessSound(E, b)
BY DEF SuccessSound

LEMMA PrepareEffect ==
    ASSUME TypeInv, EffectInv, NEW w \in Workers, NEW k \in Kinds,
           NEW obj \in Actions, NEW q \in Requests \cup {NoRequest},
           Prepare(w, k, obj, q), UNCHANGED <<action, cache, target, effects>>,
           SuccessSound(effects, obj)
    PROVE  EffectInv'
<1>1. /\ worker'[w] = [pc |-> "update", kind |-> k, obj |-> obj,
                       request |-> q, result |-> "None",
                       at |-> IF k = "attempt" THEN now ELSE Never]
      /\ \A v \in Workers \ {w} : worker'[v] = worker[v]
  BY PrepareType DEF TypeInv
<1>2. AnswerSound(effects', worker'[w])
  BY <1>1 DEF AnswerSound, SuccessSound
<1> QED
  BY <1>1, <1>2, EffectStep

LEMMA IdleAnswer == \A E : AnswerSound(E, Idle)
<1>1. Idle.obj.phase # "Succeeded"
  <2>1. Idle.obj = NewAction(NoContent, "nobody")
    BY DEF Idle
  <2>2. NewAction(NoContent, "nobody").phase # "Succeeded"
    BY Zenon DEF NewAction
  <2> QED
    BY <2>1, <2>2
<1> QED
  BY <1>1, IdleFacts DEF AnswerSound, SuccessSound

LEMMA ReturnEffect ==
    ASSUME TypeInv, EffectInv, NEW w \in Workers, Return(w),
           UNCHANGED <<cache, target, effects>>,
           action' = action \/ SuccessSound(effects, action')
    PROVE  EffectInv'
<1>1. worker'[w] = Idle /\ \A v \in Workers \ {w} : worker'[v] = worker[v]
  BY ReturnType DEF TypeInv
<1> QED
  BY <1>1, IdleAnswer, EffectStep

LEMMA PreparingEffect ==
    ASSUME TypeInv, EffectInv, NEW w \in Workers, PreparingStep(w)
    PROVE  EffectInv'
<1>1. PICK k \in Kinds, o \in Actions, q \in Requests \cup {NoRequest} :
         Prepare(w, k, o, q) /\ Prepared(w, k, o)
  BY DEF PreparingStep
<1>2. /\ SuccessSound(effects, cache[w]) /\ AnswerSound(effects, worker[w])
      /\ target.executionID # NoID => Effected(effects, target.executionID)
  BY DEF EffectInv
<1>3. SuccessSound(effects, o)
  <2>1. CASE Succeeds(w, o)
    <3>1. CASE Reads(w, "inFlight") /\ Resolve(cache[w])
               /\ o.execution.id = cache[w].execution.id
      <4>1. InFlight(cache[w])
        BY <3>1 DEF Reads, Branch
      <4> QED
        BY <1>2, <3>1, <4>1 DEF Resolve, InFlight, SuccessSound
    <3>2. CASE At(w, "read") /\ worker[w].result = "Succeeded"
               /\ o.execution.id = worker[w].request.id
      BY <1>2, <3>2 DEF At, AnswerSound, SuccessSound
    <3> QED
      BY <2>1, <3>1, <3>2 DEF Succeeds
  <2>2. CASE Starts(w, o) \/ FailsEarly(w, o) \/ Doubts(w, o) \/ Fails(w, o)
             \/ Resets(w, o) \/ Escalates(w, o)
    BY <2>2 DEF Starts, FailsEarly, Doubts, Fails, Resets, Escalates, SuccessSound
  <2>3. CASE Attempts(w, o) \/ Verifies(w, o)
    BY <1>2, <2>3 DEF Attempts, Verifies, SuccessSound
  <2> QED
    BY <1>1, <2>1, <2>2, <2>3 DEF Prepared
<1> QED
  BY <1>1, <1>3, PrepareEffect DEF PreparingStep

\* What a Reconcile writes is what it holds.
LEMMA UpdateFields ==
    ASSUME TypeInv, NEW w \in Workers, StatusUpdate(w)
    PROVE  LET o == worker[w].obj IN
           /\ o \in Actions /\ o.resourceVersion = action.resourceVersion
           /\ action'.resourceVersion = action.resourceVersion + 1
           /\ SameSpec([action' EXCEPT !.resourceVersion = o.resourceVersion], o)
           /\ action'.phase = o.phase /\ action'.updatedAt = o.updatedAt
           /\ action'.finishedAt = o.finishedAt /\ action'.approval = o.approval
           /\ action'.execution = o.execution /\ action'.retryCount = o.retryCount
           /\ action'.effectiveness = o.effectiveness
           /\ action'.content = o.content /\ action'.approvedBy = o.approvedBy
           /\ action'.exists = o.exists
           /\ cache' = cache
           /\ UNCHANGED worldVars
<1>1. worker[w].obj \in Actions
  BY DEF TypeInv, TypeOK, WorkerStates
<1>2. /\ action' = [worker[w].obj EXCEPT !.resourceVersion = @ + 1]
      /\ worker[w].obj.resourceVersion = action.resourceVersion
      /\ cache' = cache
      /\ UNCHANGED worldVars
  BY DEF StatusUpdate
<1> QED
  BY <1>1, <1>2 DEF Actions, SameSpec

LEMMA ReconcileEffect ==
    ASSUME TypeInv, EffectInv, NEW w \in Workers, Reconcile(w)
    PROVE  EffectInv'
<1> DEFINE q == worker[w].request
<1>1. /\ worker[w] \in WorkerStates /\ AnswerSound(effects, worker[w])
      /\ SuccessSound(effects, action)
      /\ worker \in [Workers -> WorkerStates]
      /\ effects \in Seq(Effects) /\ target \in Targets
  BY DEF TypeInv, TypeOK, EffectInv
<1>2. CASE Return(w) /\ UNCHANGED <<action, cache, worldVars>>
  BY <1>2, ReturnEffect DEF worldVars
<1>3. CASE ReconcileTerminal(w)
  <2>1. /\ worker'[w] = [Idle EXCEPT !.pc = "delete"]
        /\ \A v \in Workers \ {w} : worker'[v] = worker[v]
    BY <1>1, <1>3 DEF ReconcileTerminal
  <2>2. worker'[w].pc = "delete" /\ worker'[w].obj = Idle.obj
    BY <2>1, IdleType DEF WorkerStates
  <2>3. AnswerSound(effects, worker'[w])
    BY <2>2, IdleAnswer DEF AnswerSound
  <2>4. UNCHANGED <<action, cache, target, effects>>
    BY <1>3 DEF ReconcileTerminal, worldVars
  <2> QED
    BY <2>1, <2>3, <2>4, EffectStep
<1>4. CASE StatusUpdate(w)
  <2>1. /\ action'.phase = worker[w].obj.phase
        /\ action'.execution = worker[w].obj.execution
        /\ UNCHANGED <<cache, target, effects>>
    BY <1>4, UpdateFields DEF worldVars
  <2>2. SuccessSound(effects, action')
    BY <1>1, <2>1 DEF AnswerSound, SuccessSound
  <2>3. CASE worker[w].kind = "start"
    <3>1. /\ worker'[w].pc = "execute"
          /\ worker'[w].obj = NewAction(NoContent, "nobody")
          /\ \A v \in Workers \ {w} : worker'[v] = worker[v]
      BY <1>1, <1>4, <2>3 DEF StatusUpdate, WorkerStates
    <3>2. NewAction(NoContent, "nobody") = Idle.obj
      BY DEF Idle
    <3>3. AnswerSound(effects, worker'[w])
      BY <3>1, <3>2, IdleAnswer DEF AnswerSound
    <3> QED
      BY <2>1, <2>2, <3>1, <3>3, EffectStep
  <2>4. CASE worker[w].kind = "attempt"
    <3>1. /\ worker'[w].pc = "notify" /\ worker'[w].obj = action'
          /\ \A v \in Workers \ {w} : worker'[v] = worker[v]
      <4>1. worker' = [worker EXCEPT ![w].pc = "notify", ![w].obj = action']
        BY <1>4, <2>4 DEF StatusUpdate
      <4> QED
        BY <1>1, <4>1 DEF WorkerStates
    <3>2. AnswerSound(effects, worker'[w])
      BY <2>2, <3>1 DEF AnswerSound
    <3> QED
      BY <2>1, <2>2, <3>1, <3>2, EffectStep
  <2>5. CASE worker[w].kind \notin {"start", "attempt"}
    <3>1. Return(w)
      BY <1>4, <2>5 DEF StatusUpdate
    <3> QED
      BY <2>1, <2>2, <3>1, ReturnEffect
  <2> QED
    BY <2>3, <2>4, <2>5
<1>5. ASSUME NEW s \in WorkerStates, worker' = [worker EXCEPT ![w] = s],
             s.obj = worker[w].obj, s.request = q,
             s.pc = "read" /\ s.result = "Succeeded" => Effected(effects', q.id),
             effects' = effects \/ \E e \in Effects : effects' = Append(effects, e)
      PROVE  /\ AnswerSound(effects', worker'[w])
             /\ \A v \in Workers \ {w} : worker'[v] = worker[v]
  <2>1. \A id : Effected(effects, id) => Effected(effects', id)
    BY <1>1, <1>5, EffectsStay
  <2>2. worker'[w] = s /\ \A v \in Workers \ {w} : worker'[v] = worker[v]
    BY <1>1, <1>5
  <2> QED
    BY <1>1, <1>5, <2>1, <2>2 DEF AnswerSound, SuccessSound
<1>6. ASSUME q \in Requests
      PROVE  /\ [id |-> q.id, uid |-> target.uid] \in Effects
             /\ Effected(Append(effects, [id |-> q.id, uid |-> target.uid]), q.id)
             /\ q.id # NoID
  <2>1. [id |-> q.id, uid |-> target.uid] \in Effects
    BY <1>1, <1>6 DEF Effects, Requests, Targets
  <2> QED
    BY <1>1, <1>6, <2>1, EffectHappens, ConstantsAssumption DEF Requests
<1>7. CASE Execute(w)
  <2>1. q \in Requests
    BY <1>7 DEF Execute, At, TypeInv, HoldsRequest
  <2>2. UNCHANGED <<action, cache, target>>
    BY <1>7 DEF Execute
  <2>3. CASE worker' = [worker EXCEPT ![w].pc = "patch"] /\ UNCHANGED effects
    <3> DEFINE s == [worker[w] EXCEPT !.pc = "patch"]
    <3>1. /\ s \in WorkerStates /\ s.obj = worker[w].obj /\ s.request = q
          /\ s.pc = "patch" /\ worker' = [worker EXCEPT ![w] = s]
      BY <1>1, <2>3 DEF WorkerStates
    <3> HIDE DEF s
    <3> QED
      BY <1>5, <2>2, <2>3, <3>1, EffectStep
  <2>4. ASSUME NEW r \in {"Succeeded", "Failed"},
               worker' = [worker EXCEPT ![w].pc = "read", ![w].result = r],
               \/ effects' = Append(effects, [id |-> q.id, uid |-> target.uid])
               \/ UNCHANGED effects /\ (r = "Succeeded" => target.executionID = q.id)
        PROVE  EffectInv'
    <3> DEFINE s == [worker[w] EXCEPT !.pc = "read", !.result = r]
    <3>1. /\ s \in WorkerStates /\ s.obj = worker[w].obj /\ s.request = q
          /\ s.result = r /\ worker' = [worker EXCEPT ![w] = s]
      BY <1>1, <2>4 DEF WorkerStates
    <3> HIDE DEF s
    <3>2. r = "Succeeded" => Effected(effects', q.id)
      BY <1>6, <2>1, <2>4 DEF EffectInv
    <3>3. effects' = effects \/ \E e \in Effects : effects' = Append(effects, e)
      BY <1>6, <2>1, <2>4
    <3> QED
      BY <1>5, <2>2, <3>1, <3>2, <3>3, EffectStep
  <2>5. \/ worker' = [worker EXCEPT ![w].pc = "patch"] /\ UNCHANGED effects
        \/ \E r \in {"Succeeded", "Failed"} :
             /\ worker' = [worker EXCEPT ![w].pc = "read", ![w].result = r]
             /\ \/ effects' = Append(effects, [id |-> q.id, uid |-> target.uid])
                \/ UNCHANGED effects /\ (r = "Succeeded" => target.executionID = q.id)
    BY <1>7 DEF Execute
  <2> QED
    BY <2>3, <2>4, <2>5
<1>8. CASE Patch(w)
  <2>1. q \in Requests
    BY <1>8 DEF Patch, At, TypeInv, HoldsRequest
  <2>2. PICK r \in {"Succeeded", "Unknown", "Failed"} :
          /\ worker' = [worker EXCEPT ![w].pc = "read", ![w].result = r]
          /\ \/ /\ effects' = Append(effects, [id |-> q.id, uid |-> target.uid])
                /\ target' = [target EXCEPT !.executionID = q.id]
             \/ UNCHANGED <<target, effects>> /\ r # "Succeeded"
    BY <1>8 DEF Patch
  <2>3. UNCHANGED <<action, cache>>
    BY <1>8 DEF Patch
  <2> DEFINE s == [worker[w] EXCEPT !.pc = "read", !.result = r]
  <2>4. /\ s \in WorkerStates /\ s.obj = worker[w].obj /\ s.request = q
        /\ s.result = r /\ worker' = [worker EXCEPT ![w] = s]
    BY <1>1, <2>2 DEF WorkerStates
  <2> HIDE DEF s
  <2>5. r = "Succeeded" => Effected(effects', q.id)
    BY <1>6, <2>1, <2>2
  <2>6. effects' = effects \/ \E e \in Effects : effects' = Append(effects, e)
    BY <1>6, <2>1, <2>2
  <2>7. target' = target \/ Effected(effects', target'.executionID)
    BY <1>1, <1>6, <2>1, <2>2 DEF Targets
  <2> QED
    BY <1>5, <2>3, <2>4, <2>5, <2>6, <2>7, EffectStep
<1>9. CASE Notify(w)
  <2> DEFINE e == Escalated(worker[w].obj, worker[w].at)
  <2>1. e.phase = "Escalated"
    BY <1>1, PendingKeeps DEF WorkerStates
  <2>2. /\ \A v \in Workers \ {w} : worker'[v] = worker[v]
        /\ worker'[w].pc = "update" /\ worker'[w].obj \in {worker[w].obj, e}
    <3> HIDE DEF e
    <3> QED
      BY <1>1, <1>9 DEF Notify, e, WorkerStates
  <2> HIDE DEF e
  <2>3. UNCHANGED <<action, cache, target, effects>>
    BY <1>9 DEF Notify
  <2>4. AnswerSound(effects, worker'[w])
    BY <1>1, <2>1, <2>2 DEF AnswerSound, SuccessSound
  <2> QED
    BY <2>2, <2>3, <2>4, EffectStep
<1>10. CASE Delete(w)
  <2>1. Return(w) /\ UNCHANGED <<cache, target, effects>>
    BY <1>10 DEF Delete, worldVars
  <2>2. action' = action \/ SuccessSound(effects, action')
    <3>1. action \in Actions
      BY DEF TypeInv, TypeOK
    <3>2. action' = action
          \/ action' = [action EXCEPT !.exists = FALSE, !.resourceVersion = @ + 1]
      BY <1>10 DEF Delete
    <3>3. action'.phase = action.phase /\ action'.execution = action.execution
      BY <3>1, <3>2 DEF Actions
    <3> QED
      BY <1>1, <3>3 DEF SuccessSound
  <2> QED
    BY <2>1, <2>2, ReturnEffect
<1> QED
  BY <1>2, <1>3, <1>4, <1>7, <1>8, <1>9, <1>10, ReconcileSteps, PreparingEffect

LEMMA EffectInvInit == Init => EffectInv
<1> SUFFICES ASSUME Init PROVE EffectInv
  OBVIOUS
<1>1. NewAction(NoContent, "nobody").phase # "Succeeded"
  BY Zenon DEF NewAction
<1>2. NewAction(NoContent, "nobody") \in Actions
  BY NewActionType, ContentTypes DEF Approvers
<1>3. action.phase # "Succeeded"
  BY <1>1, <1>2 DEF Init, Actions
<1>4. /\ target.executionID = NoID
      /\ \A w \in Workers : cache[w] = action /\ worker[w] = Idle
  BY DEF Init
<1> QED
  BY <1>3, <1>4, IdleAnswer DEF EffectInv, SuccessSound

LEMMA EffectInvNext == TypeInv /\ TypeInv' /\ EffectInv /\ [Next]_vars => EffectInv'
<1> SUFFICES ASSUME TypeInv, TypeInv', EffectInv, [Next]_vars PROVE EffectInv'
  OBVIOUS
<1>1. ASSUME NEW w \in Workers, Replica(w) PROVE EffectInv'
  <2>1. CASE CacheSync(w)
    <3>1. /\ \A v \in Workers : cache'[v] = cache[v] \/ cache'[v] = action
          /\ UNCHANGED <<action, worker, target, effects>>
      BY <2>1 DEF CacheSync, worldVars, TypeInv, TypeOK
    <3> QED
      BY <3>1, EffectStep
  <2>2. CASE Crash(w)
    BY <2>2, ReturnEffect DEF Crash
  <2> QED
    BY <1>1, <2>1, <2>2, ReconcileEffect DEF Replica
<1>2. CASE Users \/ Plan
  <2>1. /\ Edits \/ Appears \/ IsDecided
        /\ UNCHANGED <<cache, worker, target, effects>>
    BY <1>2, ClientSteps
  <2>2. SuccessSound(effects, action)
    BY DEF EffectInv
  <2>3. SuccessSound(effects, action')
    <3>1. CASE Appears
      <4>1. \A c, by : NewAction(c, by).phase # "Succeeded"
        BY Zenon DEF NewAction
      <4> QED
        BY <3>1, <4>1 DEF Appears, SuccessSound
    <3> QED
      BY <2>1, <2>2, <3>1 DEF Edits, IsDecided, SuccessSound
  <2> QED
    BY <2>1, <2>3, EffectStep
<1>3. CASE World
  <2>1. UNCHANGED <<action, cache, worker, effects>>
        /\ (target' = target \/ target'.executionID = NoID)
    BY <1>3 DEF World, TargetReplaced, VerificationFinishes, Tick
  <2> QED
    BY <2>1, EffectStep
<1>4. CASE UNCHANGED vars
  BY <1>4, EffectStep DEF vars
<1> QED
  BY <1>1, <1>2, <1>3, <1>4 DEF Next

\* "Succeeded" is never recorded for a side effect that did not happen, by
\* any number of replicas: recordExecutionSuccess follows the backend's answer
\* or an identity that only a performed patch has put on the target.
THEOREM SuccessIsReal == Spec => []SucceededMeansEffect
<1>1. EffectInv => SucceededMeansEffect
  BY DEF EffectInv, SuccessSound, Effected, SucceededMeansEffect
<1> QED
  BY <1>1, EffectInvInit, EffectInvNext, TypeInvAlways, PTL DEF Spec

-----------------------------------------------------------------------------
(***************************************************************************)
(* Escalation.  The write that escalates is prepared from a copy and       *)
(* accepted only if that copy is still the current object: what was read   *)
(* of it, that it waits, unapproved and overdue, is then still so.         *)
(***************************************************************************)
\* The phase agrees with the rest of the status.
PhaseSound(a) ==
    /\ a.approval.source # "None" =>
          a.phase \in {"WaitingApproval", "Approved", "Escalated", "Executing"}
                        \cup TerminalPhases
    /\ a.phase = "Approved" => a.approval.approved
    /\ a.phase = "Executing" => a.execution.id # NoID

\* At time t, nobody has approved a in time.
Overdue(a, t) ==
    /\ a.phase = "WaitingApproval"
    /\ ~ isAgentActionApproved(a)
    /\ t >= a.updatedAt + ApprovalTimeoutSeconds

\* Reconcile s is about to notify somebody, or to record that it will.
AboutToNotify(s) == s.pc = "notify" \/ (s.pc = "update" /\ s.kind = "attempt")

\* What a Reconcile s in progress knows of the object a at time t, if the
\* copy it holds is still current.
HoldSound(s, a, t) ==
    /\ AboutToNotify(s) => Overdue(s.obj, t)
    /\ s.pc \in {"update", "notify"} /\ s.obj.resourceVersion = a.resourceVersion =>
          /\ PhaseSound(s.obj)
          /\ s.obj.retryCount = IF s.pc = "update" /\ s.kind = "attempt"
                                THEN a.retryCount + 1 ELSE a.retryCount
          /\ AboutToNotify(s) => Overdue(a, t)
          /\ s.obj.phase = "Escalated" => a.phase = "Escalated" \/ Overdue(a, t)

WaitInv ==
    /\ PhaseSound(action)
    /\ \A w \in Workers : PhaseSound(cache[w])
    /\ \A w \in Workers : HoldSound(worker[w], action, now)
    /\ action.resourceVersion = 0 => action.retryCount = 0

\* Time passes, other versions are written: a Reconcile that does not move
\* knows what it knew.
LEMMA HoldKept ==
    ASSUME TypeInv, TypeInv', DispatchInv, WaitInv, NEW w \in Workers,
           worker'[w] = worker[w], now' >= now,
           action' = action \/ action'.resourceVersion > action.resourceVersion
    PROVE  HoldSound(worker'[w], action', now')
<1>1. /\ now \in Int /\ now' \in Int
      /\ worker[w].obj \in Actions /\ action \in Actions /\ action' \in Actions
  BY DEF TypeInv, TypeOK, WorkerStates
<1>2. /\ action.resourceVersion \in Nat /\ action'.resourceVersion \in Nat
      /\ worker[w].obj.resourceVersion \in Nat
      /\ worker[w].obj.updatedAt \in Int /\ action.updatedAt \in Int
  BY <1>1 DEF Actions
<1>3. /\ HoldSound(worker[w], action, now)
      /\ worker[w].pc \in {"update", "notify"} =>
            worker[w].obj.resourceVersion <= action.resourceVersion
  BY DEF WaitInv, DispatchInv, WorkerSound, WriteSound
<1>4. ASSUME NEW a, a.updatedAt \in Int, Overdue(a, now) PROVE Overdue(a, now')
  BY <1>1, <1>4, ConstantsAssumption DEF Overdue
<1>5. AboutToNotify(worker[w]) => Overdue(worker[w].obj, now')
  BY <1>2, <1>3, <1>4 DEF HoldSound
<1>6. CASE action' = action
  BY <1>2, <1>3, <1>4, <1>5, <1>6 DEF HoldSound
<1>7. CASE action'.resourceVersion > action.resourceVersion
  BY <1>2, <1>3, <1>5, <1>7 DEF HoldSound
<1> QED
  BY <1>6, <1>7

LEMMA WaitStep ==
    ASSUME TypeInv, TypeInv', DispatchInv, WaitInv, now' >= now,
           \/ action' = action
           \/ /\ action'.resourceVersion > action.resourceVersion
              /\ PhaseSound(action'),
           \A w \in Workers : cache'[w] = cache[w] \/ cache'[w] = action,
           \A w \in Workers : \/ worker'[w] = worker[w]
                              \/ HoldSound(worker'[w], action', now')
    PROVE  WaitInv'
<1>1. PhaseSound(action')
  BY DEF WaitInv
<1>2. \A w \in Workers : PhaseSound(cache'[w])
  BY DEF WaitInv
<1>3. \A w \in Workers : HoldSound(worker'[w], action', now')
  BY HoldKept
<1>4. action'.resourceVersion = 0 => action'.retryCount = 0
  <2>1. action.resourceVersion \in Nat /\ action'.resourceVersion \in Nat
    BY DEF TypeInv, TypeOK, Actions
  <2>2. CASE action' = action
    BY <2>2 DEF WaitInv
  <2>3. CASE action'.resourceVersion > action.resourceVersion
    BY <2>1, <2>3
  <2> QED
    BY <2>2, <2>3
<1> QED
  BY <1>1, <1>2, <1>3, <1>4 DEF WaitInv

LEMMA IdleHolds == \A a, t : HoldSound(Idle, a, t)
BY IdleFacts DEF HoldSound, AboutToNotify

LEMMA ReturnWait ==
    ASSUME TypeInv, TypeInv', DispatchInv, WaitInv, NEW w \in Workers, Return(w),
           UNCHANGED <<cache, now>>,
           \/ action' = action
           \/ /\ action'.resourceVersion > action.resourceVersion
              /\ PhaseSound(action')
    PROVE  WaitInv'
<1>1. worker'[w] = Idle /\ \A v \in Workers \ {w} : worker'[v] = worker[v]
  BY ReturnType DEF TypeInv
<1>2. now' >= now
  BY DEF TypeInv, TypeOK
<1> QED
  BY <1>1, <1>2, IdleHolds, WaitStep

\* Past the deadline, an object whose approval record is its own waits.
LEMMA PendingIsOverdue ==
    ASSUME NEW w \in Workers, PhaseSound(cache[w]), Reads(w, "pending"),
           ~ NeverEvaluated(cache[w]), TimedOut(cache[w])
    PROVE  Overdue(cache[w], now)
<1> DEFINE a == cache[w]
<1>1. /\ ~ Verifying(a) /\ ~ Terminal(a) /\ ~ InFlight(a)
      /\ ~ isAgentActionApproved(a)
  BY DEF Reads, Branch
<1>2. a.approval.source # "None" /\ a.approval.digest = agentActionSpecDigest(a)
  BY DEF NeverEvaluated
<1>3. a.phase \in {"WaitingApproval", "Approved", "Escalated", "Executing"}
                    \cup TerminalPhases
  BY <1>2 DEF PhaseSound
<1>4. a.phase # "Approved"
  BY <1>1, <1>2 DEF PhaseSound, isAgentActionApproved
<1>5. a.phase # "Executing"
  BY <1>1 DEF PhaseSound, InFlight
<1>6. a.phase \notin TerminalPhases
  BY <1>1 DEF Terminal
<1>7. /\ a.phase # "Escalated"
      /\ now >= a.updatedAt + ApprovalTimeoutSeconds
  BY DEF TimedOut
<1> QED
  BY <1>1, <1>3, <1>4, <1>5, <1>6, <1>7 DEF Overdue

LEMMA PreparingWait ==
    ASSUME TypeInv, TypeInv', DispatchInv, WaitInv, NEW w \in Workers,
           PreparingStep(w)
    PROVE  WaitInv'
<1> DEFINE a == cache[w]
<1>1. PICK k \in Kinds, o \in Actions, q \in Requests \cup {NoRequest} :
         Prepare(w, k, o, q) /\ Prepared(w, k, o)
  BY DEF PreparingStep
<1>2. UNCHANGED <<action, cache, now>> /\ now' >= now
  BY DEF PreparingStep, TypeInv, TypeOK
<1>3. /\ worker'[w].pc = "update" /\ worker'[w].kind = k /\ worker'[w].obj = o
      /\ \A v \in Workers \ {w} : worker'[v] = worker[v]
  <2>1. TypeOK
    BY DEF TypeInv
  <2>2. /\ worker'[w] = [pc |-> "update", kind |-> k, obj |-> o,
                         request |-> q, result |-> "None",
                         at |-> IF k = "attempt" THEN now ELSE Never]
        /\ \A v \in Workers \ {w} : worker'[v] = worker[v]
    BY <1>1, <2>1, PrepareType
  <2> QED
    BY <2>2
<1>4. /\ PhaseSound(a) /\ CacheCoherent(w) /\ SameSpec(a, o) /\ a \in Actions
      /\ action \in Actions
  BY <1>1 DEF WaitInv, DispatchInv, Prepared, TypeInv, TypeOK
<1>5. o.resourceVersion = action.resourceVersion => a = action
  BY <1>4 DEF CacheCoherent, SameSpec
<1>6. ASSUME k # "attempt", o.resourceVersion = action.resourceVersion =>
             /\ PhaseSound(o) /\ o.retryCount = action.retryCount
             /\ o.phase = "Escalated" => action.phase = "Escalated" \/ Overdue(action, now)
      PROVE  WaitInv'
  <2>1. HoldSound(worker'[w], action', now')
    BY <1>2, <1>3, <1>6 DEF HoldSound, AboutToNotify
  <2> QED
    BY <1>2, <1>3, <2>1, WaitStep
<1>7. CASE k = "start" /\ Starts(w, o)
  <2>1. BuildExecutionIdentity(a) # NoID
    BY <1>4, IdentityType, ConstantsAssumption
  <2> QED
    BY <1>5, <1>6, <1>7, <2>1 DEF Starts, PhaseSound
<1>8. CASE k = "failBeforeDispatch" /\ FailsEarly(w, o)
  BY <1>5, <1>6, <1>8 DEF FailsEarly, PhaseSound, TerminalPhases
<1>9. CASE k = "succeed" /\ Succeeds(w, o)
  BY <1>5, <1>6, <1>9 DEF Succeeds, PhaseSound, TerminalPhases
<1>10. CASE k = "unknown" /\ Doubts(w, o)
  <2>1. action.execution.id # NoID
    BY <1>10 DEF Doubts, At, DispatchInv, WorkerSound
  <2> QED
    BY <1>5, <1>6, <1>10, <2>1 DEF Doubts, PhaseSound
<1>11. CASE k = "failed" /\ Fails(w, o)
  BY <1>5, <1>6, <1>11 DEF Fails, PhaseSound, TerminalPhases
<1>12. CASE k = "pending" /\ Resets(w, o)
  BY <1>5, <1>6, <1>12 DEF Resets, PhaseSound
<1>13. CASE k = "attempt" /\ Attempts(w, o)
  <2>1. Overdue(a, now)
    BY <1>4, <1>13, PendingIsOverdue DEF Attempts
  <2>2. Overdue(o, now)
    BY <1>4, <1>13, <2>1
    DEF Attempts, SameSpec, Overdue, isAgentActionApproved, agentActionSpecDigest
  <2>3. PhaseSound(o) /\ o.retryCount = a.retryCount + 1 /\ o.phase # "Escalated"
    BY <1>4, <1>13, <2>2 DEF Attempts, PhaseSound, Overdue
  <2>4. HoldSound(worker'[w], action', now')
    BY <1>2, <1>3, <1>5, <1>13, <2>1, <2>2, <2>3 DEF HoldSound, AboutToNotify
  <2> QED
    BY <1>2, <1>3, <2>4, WaitStep
<1>14. CASE k = "escalate" /\ Escalates(w, o)
  <2>1. Overdue(a, now)
    BY <1>4, <1>14, PendingIsOverdue DEF Escalates
  <2> QED
    BY <1>5, <1>6, <1>14, <2>1 DEF Escalates, PhaseSound
<1>15. CASE k \in {"verify", "complete"} /\ Verifies(w, o)
  BY <1>4, <1>5, <1>6, <1>15 DEF Verifies, PhaseSound
<1> QED
  BY <1>1, <1>7, <1>8, <1>9, <1>10, <1>11, <1>12, <1>13, <1>14, <1>15 DEF Prepared

\* A Reconcile that is neither about to write nor about to notify.
LEMMA BusyHolds ==
    \A s, a, t : s.pc \notin {"update", "notify"} => HoldSound(s, a, t)
BY DEF HoldSound, AboutToNotify

LEMMA NotifyWait ==
    ASSUME TypeInv, TypeInv', DispatchInv, WaitInv, NEW w \in Workers, Notify(w)
    PROVE  WaitInv'
<1> DEFINE s == worker[w]
           e == Escalated(s.obj, s.at)
<1>1. /\ s \in WorkerStates /\ s.obj \in Actions /\ s.pc = "notify"
      /\ worker \in [Workers -> WorkerStates]
      /\ HoldSound(s, action, now) /\ now' >= now
      /\ UNCHANGED <<action, cache, now>>
  BY DEF TypeInv, TypeOK, WaitInv, WorkerStates, Notify, At
<1>2. /\ e.resourceVersion = s.obj.resourceVersion
      /\ e.phase = "Escalated" /\ e.retryCount = s.obj.retryCount
  BY <1>1 DEF Escalated, SetPhase, Actions
<1>3. /\ \A v \in Workers \ {w} : worker'[v] = worker[v]
      /\ worker'[w].pc = "update" /\ worker'[w].kind \in {"escalate", "notifyError"}
      /\ worker'[w].obj \in {s.obj, e}
  <2> HIDE DEF e
  <2> QED
    BY <1>1 DEF Notify, e, WorkerStates
<1> HIDE DEF e
<1>4. HoldSound(worker'[w], action, now)
  <2> SUFFICES ASSUME worker'[w].obj.resourceVersion = action.resourceVersion
               PROVE  /\ PhaseSound(worker'[w].obj)
                      /\ worker'[w].obj.retryCount = action.retryCount
                      /\ worker'[w].obj.phase = "Escalated" =>
                            action.phase = "Escalated" \/ Overdue(action, now)
    BY <1>3 DEF HoldSound, AboutToNotify
  <2>1. /\ PhaseSound(s.obj) /\ s.obj.retryCount = action.retryCount
        /\ Overdue(action, now)
    BY <1>1, <1>2, <1>3 DEF HoldSound, AboutToNotify
  <2>2. PhaseSound(e)
    BY <1>2 DEF PhaseSound
  <2> QED
    BY <1>2, <1>3, <2>1, <2>2
<1> QED
  BY <1>1, <1>3, <1>4, WaitStep

LEMMA StatusUpdateWait ==
    ASSUME TypeInv, TypeInv', DispatchInv, WaitInv, NEW w \in Workers, StatusUpdate(w)
    PROVE  WaitInv'
<1> DEFINE s == worker[w]
<1>1. /\ s \in WorkerStates /\ s.pc = "update"
      /\ worker \in [Workers -> WorkerStates]
      /\ HoldSound(s, action, now) /\ now' >= now
      /\ action.resourceVersion \in Nat
  <2>1. s.pc = "update" /\ now' = now
    BY DEF StatusUpdate, At, worldVars
  <2>2. now \in Nat /\ action \in Actions /\ worker \in [Workers -> WorkerStates]
    BY DEF TypeInv, TypeOK
  <2>3. now' >= now /\ action.resourceVersion \in Nat
    BY <2>1, <2>2 DEF Actions
  <2> QED
    BY <2>1, <2>2, <2>3 DEF WaitInv
<1>2. /\ s.obj.resourceVersion = action.resourceVersion
      /\ action'.resourceVersion = action.resourceVersion + 1
      /\ action'.phase = s.obj.phase /\ action'.updatedAt = s.obj.updatedAt
      /\ action'.approval = s.obj.approval /\ action'.execution = s.obj.execution
      /\ action'.content = s.obj.content /\ action'.approvedBy = s.obj.approvedBy
      /\ action'.retryCount = s.obj.retryCount
      /\ UNCHANGED <<cache, now>>
  BY UpdateFields DEF worldVars
<1>3. PhaseSound(s.obj)
  BY <1>1, <1>2 DEF HoldSound
<1>4. PhaseSound(action') /\ action'.resourceVersion > action.resourceVersion
  BY <1>1, <1>2, <1>3 DEF PhaseSound
<1>5. CASE s.kind = "start"
  <2>1. worker'[w].pc = "execute" /\ \A v \in Workers \ {w} : worker'[v] = worker[v]
    BY <1>1, <1>5 DEF StatusUpdate, WorkerStates
  <2> QED
    BY <1>1, <1>2, <1>4, <2>1, BusyHolds, WaitStep
<1>6. CASE s.kind = "attempt"
  <2>1. /\ worker'[w].pc = "notify" /\ worker'[w].obj = action'
        /\ \A v \in Workers \ {w} : worker'[v] = worker[v]
    <3>1. worker' = [worker EXCEPT ![w].pc = "notify", ![w].obj = action']
      BY <1>6 DEF StatusUpdate
    <3> QED
      BY <1>1, <3>1 DEF WorkerStates
  <2>2. Overdue(action', now)
    <3>1. Overdue(s.obj, now)
      BY <1>1, <1>6 DEF HoldSound, AboutToNotify
    <3> QED
      BY <1>2, <3>1 DEF Overdue, isAgentActionApproved, agentActionSpecDigest
  <2>3. HoldSound(worker'[w], action', now')
    BY <1>2, <1>4, <2>1, <2>2 DEF HoldSound, AboutToNotify, Overdue
  <2> QED
    BY <1>1, <1>2, <1>4, <2>1, <2>3, WaitStep
<1>7. CASE s.kind \notin {"start", "attempt"}
  <2>1. Return(w)
    BY <1>7 DEF StatusUpdate
  <2> QED
    BY <1>2, <1>4, <2>1, ReturnWait
<1> QED
  BY <1>5, <1>6, <1>7

\* Calls of a backend, and the call that deletes: w neither writes nor notifies.
LEMMA CallSteps ==
    ASSUME TypeInv, NEW w \in Workers,
           ReconcileTerminal(w) \/ Execute(w) \/ Patch(w)
    PROVE  /\ worker'[w].pc \in {"delete", "patch", "read"}
           /\ \A v \in Workers \ {w} : worker'[v] = worker[v]
           /\ UNCHANGED <<action, cache, notices, now>>
<1>1. worker \in [Workers -> WorkerStates] /\ worker[w] \in WorkerStates
  BY DEF TypeInv, TypeOK
<1>2. CASE ReconcileTerminal(w)
  <2>1. /\ worker'[w] = [Idle EXCEPT !.pc = "delete"]
        /\ \A v \in Workers \ {w} : worker'[v] = worker[v]
    BY <1>1, <1>2 DEF ReconcileTerminal
  <2>2. worker'[w].pc = "delete"
    BY <2>1, IdleType DEF WorkerStates
  <2> QED
    BY <1>2, <2>1, <2>2 DEF ReconcileTerminal, worldVars
<1>3. CASE Execute(w)
  <2>1. \/ worker' = [worker EXCEPT ![w].pc = "patch"]
        \/ \E r : worker' = [worker EXCEPT ![w].pc = "read", ![w].result = r]
    BY <1>3 DEF Execute
  <2>2. UNCHANGED <<action, cache, notices, now>>
    BY <1>3 DEF Execute
  <2> QED
    BY <1>1, <2>1, <2>2 DEF WorkerStates
<1>4. CASE Patch(w)
  <2>1. \E r : worker' = [worker EXCEPT ![w].pc = "read", ![w].result = r]
    BY <1>4 DEF Patch
  <2>2. UNCHANGED <<action, cache, notices, now>>
    BY <1>4 DEF Patch
  <2> QED
    BY <1>1, <2>1, <2>2 DEF WorkerStates
<1> QED
  BY <1>2, <1>3, <1>4

\* r.Delete leaves the status as it is.
LEMMA DeleteFields ==
    ASSUME TypeInv, NEW w \in Workers, Delete(w)
    PROVE  /\ Return(w) /\ UNCHANGED <<cache, worldVars>>
           /\ \/ action' = action
              \/ /\ action'.resourceVersion = action.resourceVersion + 1
                 /\ action'.phase = action.phase
                 /\ action'.approval = action.approval
                 /\ action'.execution = action.execution
                 /\ action'.retryCount = action.retryCount
                 /\ action'.finishedAt = action.finishedAt
                 /\ action'.effectiveness = action.effectiveness
<1>1. action \in Actions
  BY DEF TypeInv, TypeOK
<1>2. \/ action' = action
      \/ action' = [action EXCEPT !.exists = FALSE, !.resourceVersion = @ + 1]
  BY DEF Delete
<1> QED
  BY <1>1, <1>2 DEF Delete, Actions

LEMMA ReconcileWait ==
    ASSUME TypeInv, TypeInv', DispatchInv, WaitInv, NEW w \in Workers, Reconcile(w)
    PROVE  WaitInv'
<1>1. CASE Return(w) /\ UNCHANGED <<action, cache, worldVars>>
  BY <1>1, ReturnWait DEF worldVars
<1>2. CASE ReconcileTerminal(w) \/ Execute(w) \/ Patch(w)
  <2>1. now' >= now
    BY <1>2, CallSteps DEF TypeInv, TypeOK
  <2>2. HoldSound(worker'[w], action', now')
    BY <1>2, CallSteps, BusyHolds
  <2> QED
    BY <1>2, <2>1, <2>2, CallSteps, WaitStep
<1>3. CASE Delete(w)
  <2>1. action.resourceVersion \in Nat
    BY DEF TypeInv, TypeOK, Actions
  <2>2. \/ action' = action
        \/ action'.resourceVersion > action.resourceVersion /\ PhaseSound(action')
    BY <1>3, <2>1, DeleteFields DEF WaitInv, PhaseSound
  <2> QED
    BY <1>3, <2>2, DeleteFields, ReturnWait DEF worldVars
<1> QED
  BY <1>1, <1>2, <1>3, ReconcileSteps, PreparingWait, StatusUpdateWait, NotifyWait

LEMMA NewActionPhase ==
    \A c, by : /\ NewAction(c, by).phase \notin
                     {"WaitingApproval", "Approved", "Escalated", "Executing",
                      "Succeeded", "Failed", "Rejected"}
               /\ NewAction(c, by).approval.source = "None"
               /\ NewAction(c, by).retryCount = 0
               /\ NewAction(c, by).execution.id = NoID
<1> TAKE c, by
<1>1. NewAction(c, by).phase \notin
        {"WaitingApproval", "Approved", "Escalated", "Executing",
         "Succeeded", "Failed", "Rejected"}
  BY Zenon DEF NewAction
<1>2. NewAction(c, by).approval = NoApproval
  BY Zenon DEF NewAction
<1>3. NewAction(c, by).retryCount = 0
  BY Zenon DEF NewAction
<1>4. NewAction(c, by).execution.id = NoID
  BY Zenon DEF NewAction
<1>5. NoApproval.source = "None"
  BY DEF NoApproval
<1> QED
  BY <1>1, <1>2, <1>3, <1>4, <1>5

LEMMA WaitInvInit == Init => WaitInv
<1> SUFFICES ASSUME Init PROVE WaitInv
  OBVIOUS
<1>1. NewAction(NoContent, "nobody") \in Actions
  BY NewActionType, ContentTypes DEF Approvers
<1>2. action.phase = NewAction(NoContent, "nobody").phase
      /\ action.approval = NewAction(NoContent, "nobody").approval
      /\ action.retryCount = NewAction(NoContent, "nobody").retryCount
  BY <1>1 DEF Init, Actions
<1>3. PhaseSound(action) /\ action.retryCount = 0
  BY <1>2, NewActionPhase DEF PhaseSound
<1>4. \A w \in Workers : cache[w] = action /\ worker[w] = Idle
  BY DEF Init
<1> QED
  BY <1>3, <1>4, IdleHolds DEF WaitInv

LEMMA ClientVersion ==
    ASSUME TypeInv, TypeInv', Edits \/ Appears \/ IsDecided
    PROVE  action'.resourceVersion > action.resourceVersion
<1>1. action.resourceVersion \in Nat
  BY DEF TypeInv, TypeOK, Actions
<1>2. CASE Appears
  <2>1. \A c, by : NewAction(c, by).resourceVersion = 1
    BY DEF NewAction
  <2> QED
    BY <1>1, <1>2, <2>1 DEF Appears
<1> QED
  BY <1>1, <1>2 DEF Edits, IsDecided

LEMMA WaitInvNext ==
    TypeInv /\ TypeInv' /\ DispatchInv /\ WaitInv /\ [Next]_vars => WaitInv'
<1> SUFFICES ASSUME TypeInv, TypeInv', DispatchInv, WaitInv, [Next]_vars PROVE WaitInv'
  OBVIOUS
<1>0. now \in Nat
  BY DEF TypeInv, TypeOK
<1>1. ASSUME NEW w \in Workers, Replica(w) PROVE WaitInv'
  <2>1. CASE CacheSync(w)
    <3>1. /\ \A v \in Workers : cache'[v] = cache[v] \/ cache'[v] = action
          /\ UNCHANGED <<action, worker, now>>
      BY <2>1 DEF CacheSync, worldVars, TypeInv, TypeOK
    <3> QED
      BY <1>0, <3>1, WaitStep
  <2>2. CASE Crash(w)
    BY <2>2, ReturnWait DEF Crash
  <2> QED
    BY <1>1, <2>1, <2>2, ReconcileWait DEF Replica
<1>2. CASE Users \/ Plan
  <2>1. (Edits \/ Appears \/ IsDecided) /\ UNCHANGED <<cache, worker, now>>
    BY <1>2, ClientSteps
  <2>2. PhaseSound(action')
    <3>1. CASE Edits
      BY <3>1 DEF Edits, PhaseSound, WaitInv
    <3>2. CASE Appears
      BY <3>2, NewActionPhase DEF Appears, PhaseSound
    <3>3. CASE IsDecided
      BY <3>3 DEF IsDecided, PhaseSound, TerminalPhases
    <3> QED
      BY <2>1, <3>1, <3>2, <3>3
  <2> QED
    BY <1>0, <2>1, <2>2, ClientVersion, WaitStep
<1>3. CASE World
  <2>1. UNCHANGED <<action, cache, worker>> /\ now' >= now
    BY <1>0, <1>3 DEF World, TargetReplaced, VerificationFinishes, Tick
  <2> QED
    BY <2>1, WaitStep
<1>4. CASE UNCHANGED vars
  BY <1>0, <1>4, WaitStep DEF vars
<1> QED
  BY <1>1, <1>2, <1>3, <1>4 DEF Next

LEMMA WaitInvAlways == Spec => [](TypeInv /\ DispatchInv /\ WaitInv)
<1>1. Init => TypeInv /\ DispatchInv /\ WaitInv
  BY TypeInvInit, DispatchInvInit, WaitInvInit
<1>2. TypeInv /\ DispatchInv /\ WaitInv /\ [Next]_vars
        => (TypeInv /\ DispatchInv /\ WaitInv)'
  BY TypeInvNext, DispatchInvNext, WaitInvNext
<1> QED
  BY <1>1, <1>2, PTL DEF Spec

\* The steps that can make an action Escalated.
LEMMA EscalationStep ==
    ASSUME TypeInv, TypeInv', DispatchInv, WaitInv, Next,
           action'.phase = "Escalated", action.phase # "Escalated"
    PROVE  Overdue(action, now)
<1>1. ASSUME NEW w \in Workers, StatusUpdate(w) PROVE Overdue(action, now)
  <2>1. /\ HoldSound(worker[w], action, now) /\ worker[w].pc = "update"
        /\ worker[w].obj.resourceVersion = action.resourceVersion
        /\ worker[w].obj.phase = "Escalated"
    BY <1>1, UpdateFields DEF WaitInv, StatusUpdate, At
  <2> QED
    BY <2>1 DEF HoldSound
<1>2. ASSUME NEW w \in Workers, Reconcile(w) PROVE Overdue(action, now)
  <2>1. CASE ReconcileTerminal(w) \/ Execute(w) \/ Patch(w)
    BY <2>1, CallSteps
  <2>2. CASE Delete(w)
    BY <2>2, DeleteFields
  <2>3. CASE PreparingStep(w) \/ Notify(w)
    BY <2>3 DEF PreparingStep, Notify
  <2> QED
    BY <1>1, <1>2, <2>1, <2>2, <2>3, ReconcileSteps
<1>3. ASSUME Users \/ Plan PROVE FALSE
  BY <1>3, ClientSteps, NewActionPhase DEF Edits, Appears, IsDecided
<1>4. ASSUME World PROVE FALSE
  BY <1>4 DEF World, TargetReplaced, VerificationFinishes, Tick
<1>5. ASSUME NEW w \in Workers, CacheSync(w) \/ Crash(w) PROVE FALSE
  BY <1>5 DEF CacheSync, Crash
<1> QED
  BY <1>2, <1>3, <1>4, <1>5 DEF Next, Replica

\* An action becomes Escalated only past its deadline and while nobody has
\* approved that version, whichever replica writes it and whatever it read.
THEOREM EscalatedLate == Spec => EscalatedOnlyWhenOverdue
<1>1. TypeInv /\ TypeInv' /\ DispatchInv /\ WaitInv /\ [Next]_vars =>
        [action'.phase = "Escalated" /\ action.phase # "Escalated" =>
           /\ action.phase = "WaitingApproval"
           /\ ~ isAgentActionApproved(action)
           /\ now >= action.updatedAt + ApprovalTimeoutSeconds]_vars
  BY EscalationStep DEF Overdue
<1> QED
  BY <1>1, WaitInvAlways, PTL DEF Spec, EscalatedOnlyWhenOverdue

-----------------------------------------------------------------------------
(***************************************************************************)
(* Notices.  Every replica about to notify has recorded an attempt of its  *)
(* own: the attempts that are recorded cover the notices sent and those    *)
(* about to be sent.                                                       *)
(***************************************************************************)
\* The attempts whose notice is about to be sent, by their number.
PendingNotices ==
    {worker[w].obj.retryCount : w \in {v \in Workers : At(v, "notify")}}

NoticeInv ==
    /\ \A v, w \in Workers :
          At(v, "notify") /\ At(w, "notify")
            /\ worker[v].obj.retryCount = worker[w].obj.retryCount => v = w
    /\ PendingNotices \subseteq 1 .. action.retryCount
    /\ notices + Cardinality(PendingNotices) <= action.retryCount

LEMMA CountTypes ==
    ASSUME TypeInv
    PROVE  /\ action.retryCount \in Nat /\ notices \in Nat
           /\ action \in Actions
           /\ worker \in [Workers -> WorkerStates]
BY DEF TypeInv, TypeOK, Actions

LEMMA PendingFinite ==
    ASSUME TypeInv, NoticeInv
    PROVE  IsFiniteSet(PendingNotices) /\ Cardinality(PendingNotices) \in Nat
<1>1. IsFiniteSet(1 .. action.retryCount)
  BY CountTypes, FS_Interval
<1>2. IsFiniteSet(PendingNotices)
  BY <1>1, FS_Subset DEF NoticeInv
<1> QED
  BY <1>2, FS_CardinalityType

\* Nobody new is about to notify, and the recorded attempts do not shrink.
LEMMA NoticeQuiet ==
    ASSUME TypeInv, TypeInv', NoticeInv, notices' = notices,
           action'.retryCount >= action.retryCount,
           \A w \in Workers : worker'[w] = worker[w] \/ worker'[w].pc # "notify"
    PROVE  NoticeInv'
<1>1. PendingNotices' \subseteq PendingNotices
  BY DEF PendingNotices, At
<1>2. Cardinality(PendingNotices') <= Cardinality(PendingNotices)
      /\ Cardinality(PendingNotices') \in Nat
  BY <1>1, PendingFinite, FS_Subset, FS_CardinalityType
<1>3. action'.retryCount \in Nat /\ action.retryCount \in Nat /\ notices \in Nat
  BY CountTypes DEF TypeInv, TypeOK, Actions
<1>4. \A v, w \in Workers :
        At(v, "notify")' /\ At(w, "notify")'
          /\ worker'[v].obj.retryCount = worker'[w].obj.retryCount => v = w
  BY DEF NoticeInv, At
<1>5. PendingNotices' \subseteq 1 .. action'.retryCount
  BY <1>1, <1>3 DEF NoticeInv
<1>6. notices' + Cardinality(PendingNotices') <= action'.retryCount
  BY <1>2, <1>3, PendingFinite DEF NoticeInv
<1> QED
  BY <1>4, <1>5, <1>6 DEF NoticeInv

\* An attempt has been recorded: its notice is the next.
LEMMA NoticeRecorded ==
    ASSUME TypeInv, TypeInv', NoticeInv, NEW w \in Workers, notices' = notices,
           worker[w].pc = "update", worker'[w].pc = "notify",
           worker'[w].obj.retryCount = action.retryCount + 1,
           action'.retryCount = action.retryCount + 1,
           \A v \in Workers \ {w} : worker'[v] = worker[v]
    PROVE  NoticeInv'
<1> DEFINE n == action.retryCount + 1
<1>1. action.retryCount \in Nat /\ notices \in Nat
  BY CountTypes
<1>2. PendingNotices' = PendingNotices \cup {n}
  BY DEF PendingNotices, At
<1>3. n \notin PendingNotices
  BY <1>1 DEF NoticeInv
<1>4. Cardinality(PendingNotices') = Cardinality(PendingNotices) + 1
  BY <1>2, <1>3, PendingFinite, FS_AddElement
<1>5. \A v \in Workers \ {w} : At(v, "notify")' => worker'[v].obj.retryCount # n
  BY <1>3 DEF PendingNotices, At
<1>6. \A u, v \in Workers :
        At(u, "notify")' /\ At(v, "notify")'
          /\ worker'[u].obj.retryCount = worker'[v].obj.retryCount => u = v
  BY <1>5 DEF NoticeInv, At
<1>7. PendingNotices' \subseteq 1 .. action'.retryCount
  <2>1. action'.retryCount = n /\ n \in 1 .. n
    BY <1>1
  <2>2. PendingNotices \subseteq 1 .. n
    BY <1>1 DEF NoticeInv
  <2> HIDE DEF n
  <2> QED
    BY <1>2, <2>1, <2>2
<1>8. notices' + Cardinality(PendingNotices') <= action'.retryCount
  BY <1>1, <1>4, PendingFinite DEF NoticeInv
<1> QED
  BY <1>6, <1>7, <1>8 DEF NoticeInv

\* The notice is sent, or the call fails.
LEMMA NoticeSent ==
    ASSUME TypeInv, TypeInv', NoticeInv, NEW w \in Workers, At(w, "notify"),
           notices' \in {notices, notices + 1}, action' = action,
           worker'[w].pc = "update",
           \A v \in Workers \ {w} : worker'[v] = worker[v]
    PROVE  NoticeInv'
<1> DEFINE n == worker[w].obj.retryCount
<1>1. action.retryCount \in Nat /\ notices \in Nat
  BY CountTypes
<1>2. n \in PendingNotices
  BY DEF PendingNotices
<1>3. PendingNotices' = PendingNotices \ {n}
  BY DEF PendingNotices, NoticeInv, At
<1>4. Cardinality(PendingNotices') = Cardinality(PendingNotices) - 1
  BY <1>2, <1>3, PendingFinite, FS_RemoveElement
<1>5. \A u, v \in Workers :
        At(u, "notify")' /\ At(v, "notify")'
          /\ worker'[u].obj.retryCount = worker'[v].obj.retryCount => u = v
  BY DEF NoticeInv, At
<1>6. PendingNotices' \subseteq 1 .. action'.retryCount
  BY <1>3 DEF NoticeInv
<1>7. notices' + Cardinality(PendingNotices') <= action'.retryCount
  BY <1>1, <1>4, PendingFinite DEF NoticeInv
<1> QED
  BY <1>5, <1>6, <1>7 DEF NoticeInv

LEMMA ReturnNotice ==
    ASSUME TypeInv, TypeInv', NoticeInv, NEW w \in Workers, Return(w),
           notices' = notices, action'.retryCount >= action.retryCount
    PROVE  NoticeInv'
<1>1. worker'[w] = Idle /\ \A v \in Workers \ {w} : worker'[v] = worker[v]
  BY ReturnType DEF TypeInv
<1> QED
  BY <1>1, IdleFacts, NoticeQuiet

LEMMA StatusUpdateNotice ==
    ASSUME TypeInv, TypeInv', WaitInv, NoticeInv, NEW w \in Workers, StatusUpdate(w)
    PROVE  NoticeInv'
<1> DEFINE s == worker[w]
<1>1. /\ s.pc = "update" /\ s \in WorkerStates
      /\ worker \in [Workers -> WorkerStates]
      /\ HoldSound(s, action, now)
  BY CountTypes DEF WaitInv, StatusUpdate, At
<1>2. /\ s.obj.resourceVersion = action.resourceVersion
      /\ action'.retryCount = s.obj.retryCount
      /\ notices' = notices
      /\ action.retryCount \in Nat
  BY CountTypes, UpdateFields DEF worldVars
<1>3. s.obj.retryCount = IF s.kind = "attempt" THEN action.retryCount + 1
                                               ELSE action.retryCount
  BY <1>1, <1>2 DEF HoldSound
<1>4. CASE s.kind = "start"
  <2>1. worker'[w].pc = "execute" /\ \A v \in Workers \ {w} : worker'[v] = worker[v]
    BY <1>1, <1>4 DEF StatusUpdate, WorkerStates
  <2> QED
    BY <1>2, <1>3, <1>4, <2>1, NoticeQuiet
<1>5. CASE s.kind = "attempt"
  <2>1. worker' = [worker EXCEPT ![w].pc = "notify", ![w].obj = action']
    BY <1>5 DEF StatusUpdate
  <2>2. /\ worker'[w].pc = "notify" /\ worker'[w].obj = action'
        /\ \A v \in Workers \ {w} : worker'[v] = worker[v]
    BY <1>1, <2>1 DEF WorkerStates
  <2> QED
    BY <1>1, <1>2, <1>3, <1>5, <2>2, NoticeRecorded
<1>6. CASE s.kind \notin {"start", "attempt"}
  <2>1. Return(w)
    BY <1>6 DEF StatusUpdate
  <2> QED
    BY <1>2, <1>3, <1>6, <2>1, ReturnNotice
<1> QED
  BY <1>4, <1>5, <1>6

LEMMA ReconcileNotice ==
    ASSUME TypeInv, TypeInv', WaitInv, NoticeInv, NEW w \in Workers, Reconcile(w)
    PROVE  NoticeInv'
<1>0. action.retryCount \in Nat
  BY CountTypes
<1>1. CASE Return(w) /\ UNCHANGED <<action, cache, worldVars>>
  BY <1>0, <1>1, ReturnNotice DEF worldVars
<1>2. CASE ReconcileTerminal(w) \/ Execute(w) \/ Patch(w)
  BY <1>0, <1>2, CallSteps, NoticeQuiet
<1>3. CASE Delete(w)
  BY <1>0, <1>3, DeleteFields, ReturnNotice DEF worldVars
<1>4. CASE PreparingStep(w)
  <2>1. PICK k \in Kinds, o \in Actions, q \in Requests \cup {NoRequest} :
          Prepare(w, k, o, q)
    BY <1>4 DEF PreparingStep
  <2>2. /\ worker'[w] = [pc |-> "update", kind |-> k, obj |-> o,
                         request |-> q, result |-> "None",
                         at |-> IF k = "attempt" THEN now ELSE Never]
        /\ \A v \in Workers \ {w} : worker'[v] = worker[v]
    BY <2>1, PrepareType DEF TypeInv
  <2>3. action' = action /\ notices' = notices
    BY <1>4 DEF PreparingStep
  <2>4. worker'[w].pc # "notify"
    BY <2>2
  <2> QED
    BY <1>0, <2>2, <2>3, <2>4, NoticeQuiet
<1>5. CASE Notify(w)
  <2>1. /\ worker'[w].pc = "update"
        /\ \A v \in Workers \ {w} : worker'[v] = worker[v]
    <3>1. worker \in [Workers -> WorkerStates] /\ worker[w] \in WorkerStates
      BY CountTypes
    <3> QED
      BY <1>5, <3>1 DEF Notify, WorkerStates
  <2>2. At(w, "notify") /\ action' = action /\ notices' \in {notices, notices + 1}
    BY <1>5 DEF Notify
  <2> QED
    BY <2>1, <2>2, NoticeSent
<1> QED
  BY <1>1, <1>2, <1>3, <1>4, <1>5, ReconcileSteps, StatusUpdateNotice

LEMMA NoticeInvInit == Init => NoticeInv
<1> SUFFICES ASSUME Init PROVE NoticeInv
  OBVIOUS
<1>1. \A w \in Workers : ~ At(w, "notify")
  BY IdleFacts DEF Init, At
<1>2. PendingNotices = {}
  BY <1>1 DEF PendingNotices
<1>3. Cardinality(PendingNotices) = 0
  BY <1>2, FS_EmptySet
<1>4. notices = 0 /\ action.retryCount \in Nat
  BY CountTypes, TypeInvInit DEF Init
<1> QED
  BY <1>1, <1>2, <1>3, <1>4 DEF NoticeInv

LEMMA NoticeInvNext ==
    TypeInv /\ TypeInv' /\ WaitInv /\ NoticeInv /\ [Next]_vars => NoticeInv'
<1> SUFFICES ASSUME TypeInv, TypeInv', WaitInv, NoticeInv, [Next]_vars
             PROVE  NoticeInv'
  OBVIOUS
<1>0. action.retryCount \in Nat
  BY CountTypes
<1>1. ASSUME NEW w \in Workers, Replica(w) PROVE NoticeInv'
  <2>1. CASE CacheSync(w)
    BY <1>0, <2>1, NoticeQuiet DEF CacheSync, worldVars
  <2>2. CASE Crash(w)
    BY <1>0, <2>2, ReturnNotice DEF Crash
  <2> QED
    BY <1>1, <2>1, <2>2, ReconcileNotice DEF Replica
<1>2. CASE Users \/ Plan
  <2>1. (Edits \/ Appears \/ IsDecided) /\ UNCHANGED <<worker, notices>>
    BY <1>2, ClientSteps
  <2>2. action'.retryCount = action.retryCount
    BY <2>1, NewActionPhase DEF Edits, Appears, IsDecided, WaitInv
  <2> QED
    BY <1>0, <2>1, <2>2, NoticeQuiet
<1>3. CASE World
  <2>1. UNCHANGED <<action, worker, notices>>
    BY <1>3 DEF World, TargetReplaced, VerificationFinishes, Tick
  <2> QED
    BY <1>0, <2>1, NoticeQuiet
<1>4. CASE UNCHANGED vars
  BY <1>0, <1>4, NoticeQuiet DEF vars
<1> QED
  BY <1>1, <1>2, <1>3, <1>4 DEF Next

\* The notifier is never called more often than the recorded attempts say,
\* however many replicas escalate and whenever they die.
THEOREM NoticesCounted == Spec => []NoticesAccounted
<1>1. TypeInv /\ NoticeInv => NoticesAccounted
  <2> SUFFICES ASSUME TypeInv, NoticeInv PROVE NoticesAccounted
    OBVIOUS
  <2> QED
    BY CountTypes, PendingFinite DEF NoticeInv, NoticesAccounted
<1> QED
  BY <1>1, NoticeInvInit, NoticeInvNext, WaitInvAlways, PTL DEF Spec

-----------------------------------------------------------------------------
(***************************************************************************)
(* The end of an action, with one replica and at most one decision.  A     *)
(* second replica may finish an action twice, a second decision may reopen *)
(* it; without them a copy that has ended agrees with the object on how.   *)
(***************************************************************************)
\* The manager runs alone, and the plan is decided at most once.
OneOfEach == (\A u, v \in Workers : u = v) /\ MaxDecisions <= 1

\* The verdict of a rests on the finished verification of its execution.
VerdictGiven(a, V, t) ==
    LET ref == a.effectiveness.verificationRef IN
    /\ ref \in DOMAIN V
    /\ ref = a.execution.id
    /\ V[ref] # "running"
    /\ t >= a.finishedAt + SettlingPeriod + ObservationWindow
    /\ a.effectiveness.outcome = "Effective" => V[ref] = "NoIssueFound"

\* How far a copy a of the object has come, given the decisions D, the
\* verifications V and the time t.
HistorySound(a, D, V, t) ==
    /\ Terminal(a) \/ a.phase = "Executing" => D # <<>>
    /\ a.effectiveness.phase \in {"Verifying", "Completed"} => Terminal(a)
    /\ ~ Terminal(a) => a.effectiveness.verificationRef = NoID
    /\ Verifying(a) =>
          /\ a.effectiveness.observationUntil
               = a.finishedAt + SettlingPeriod + ObservationWindow
          /\ a.effectiveness.verificationRef \in {NoID, a.execution.id}
          /\ a.effectiveness.verificationRef # NoID =>
                a.effectiveness.verificationRef \in DOMAIN V
    /\ a.effectiveness.phase = "Completed" => VerdictGiven(a, V, t)

\* If a has ended, b has ended in the same way, and is not verified anew.
Follows(a, b) ==
    Terminal(a) =>
        /\ b.phase = a.phase /\ b.finishedAt = a.finishedAt
        /\ b.execution = a.execution
        /\ Verifying(b) => Verifying(a)

\* At time t, a may be deleted.
Deletable(a, t) ==
    /\ Terminal(a) /\ ~ Verifying(a)
    /\ a.finishedAt # Never /\ t > a.finishedAt + TTLSeconds

\* What a Reconcile s in progress knows of the object a.
ReconcileSound(s, a, D, V, t) ==
    /\ s.pc \in {"update", "notify"} => s.obj.exists
    /\ s.pc \in {"update", "notify"} /\ s.obj.resourceVersion = a.resourceVersion =>
          HistorySound(s.obj, D, V, t) /\ Follows(a, s.obj)
    /\ s.pc = "update" /\ s.kind = "start" => s.obj.phase = "Executing" /\ D # <<>>
    /\ s.pc \in {"execute", "patch", "read"} => ~ Terminal(a) /\ D # <<>>
    /\ s.pc = "delete" => Deletable(a, t)

LifeInv ==
    /\ OneOfEach
    /\ HistorySound(action, decisions, verification, now)
    /\ action.resourceVersion = 0 => ~ Terminal(action)
    /\ \A w \in Workers : HistorySound(cache[w], decisions, verification, now)
    /\ \A w \in Workers : Follows(cache[w], action)
    /\ \A w \in Workers :
          ReconcileSound(worker[w], action, decisions, verification, now)

LEMMA FollowsOn ==
    ASSUME NEW a, NEW b, NEW c, Follows(a, b), Follows(b, c)
    PROVE  Follows(a, c)
BY DEF Follows, Terminal

\* What is known of a copy stays true.
LEMMA HistoryStays ==
    ASSUME NEW a \in Actions, NEW D, NEW E, NEW V, NEW W, NEW t \in Nat, NEW u \in Nat,
           HistorySound(a, D, V, t), D # <<>> => E # <<>>, Kept(V, W), u >= t
    PROVE  HistorySound(a, E, W, u)
<1>1. a.finishedAt \in Int
  BY DEF Actions
<1>2. VerdictGiven(a, V, t) => VerdictGiven(a, W, u)
  BY <1>1, ConstantsAssumption DEF VerdictGiven, Kept
<1>3. \A id \in DOMAIN V : id \in DOMAIN W
  BY DEF Kept
<1> QED
  BY <1>2, <1>3 DEF HistorySound

\* A step that moves the object forward, and perhaps one Reconcile.
LEMMA LifeStep ==
    ASSUME TypeInv, TypeInv', DispatchInv, LifeInv, now' >= now,
           decisions # <<>> => decisions' # <<>>,
           Kept(verification, verification'),
           \/ action' = action
           \/ /\ action'.resourceVersion > action.resourceVersion
              /\ HistorySound(action', decisions', verification', now')
              /\ Follows(action, action'),
           \A w \in Workers : cache'[w] = cache[w] \/ cache'[w] = action,
           \A w \in Workers :
              \/ worker'[w] = worker[w]
                   /\ (worker[w].pc \in {"execute", "patch", "read"} => ~ Terminal(action'))
              \/ ReconcileSound(worker'[w], action', decisions', verification', now')
    PROVE  LifeInv'
<1>1. /\ now \in Nat /\ now' \in Nat
      /\ action \in Actions /\ action' \in Actions
      /\ action.resourceVersion \in Nat /\ action'.resourceVersion \in Nat
      /\ \A w \in Workers : cache[w] \in Actions /\ worker[w].obj \in Actions
  BY DEF TypeInv, TypeOK, WorkerStates, Actions
<1>2. HistorySound(action', decisions', verification', now')
  BY <1>1, HistoryStays DEF LifeInv
<1>3. Follows(action, action')
  BY DEF Follows
<1>4. action'.resourceVersion = 0 => ~ Terminal(action')
  BY <1>1 DEF LifeInv
<1>5. \A w \in Workers : HistorySound(cache'[w], decisions', verification', now')
  BY <1>1, HistoryStays DEF LifeInv
<1>6. \A w \in Workers : Follows(cache'[w], action')
  BY <1>3, FollowsOn DEF LifeInv
<1>7. ASSUME NEW w \in Workers, worker'[w] = worker[w],
             worker[w].pc \in {"execute", "patch", "read"} => ~ Terminal(action')
      PROVE  ReconcileSound(worker'[w], action', decisions', verification', now')
  <2> DEFINE s == worker[w]
  <2>1. ReconcileSound(s, action, decisions, verification, now)
    BY DEF LifeInv
  <2>2. s.obj \in Actions /\ s.obj.resourceVersion \in Nat
    BY <1>1 DEF Actions
  <2>3. s.pc \in {"update", "notify"} => s.obj.resourceVersion <= action.resourceVersion
    BY DEF DispatchInv, WorkerSound, WriteSound
  <2>4. s.pc \in {"update", "notify"} /\ s.obj.resourceVersion = action'.resourceVersion
          => HistorySound(s.obj, decisions', verification', now') /\ Follows(action', s.obj)
    <3>1. CASE action' = action
      BY <1>1, <2>1, <2>2, <3>1, HistoryStays DEF ReconcileSound
    <3>2. CASE action'.resourceVersion > action.resourceVersion
      BY <1>1, <2>2, <2>3, <3>2
    <3> QED
      BY <3>1, <3>2
  <2>5. s.pc = "delete" => Deletable(action', now')
    <3>1. action.finishedAt \in Int /\ TTLSeconds \in Nat
      BY <1>1, ConstantsAssumption DEF Actions
    <3> QED
      BY <1>1, <1>3, <2>1, <3>1 DEF ReconcileSound, Deletable, Follows, Terminal
  <2> QED
    BY <1>7, <2>1, <2>4, <2>5 DEF ReconcileSound
<1>8. \A w \in Workers :
        ReconcileSound(worker'[w], action', decisions', verification', now')
  BY <1>7
<1>9. OneOfEach
  BY DEF LifeInv
<1> QED
  BY <1>2, <1>4, <1>5, <1>6, <1>8, <1>9 DEF LifeInv

\* Only w moves: nobody else is there.
LEMMA MoverLife ==
    ASSUME TypeInv, TypeInv', DispatchInv, LifeInv, NEW w \in Workers,
           decisions' = decisions, now' = now, cache' = cache,
           Kept(verification, verification'),
           \/ action' = action
           \/ /\ action'.resourceVersion > action.resourceVersion
              /\ HistorySound(action', decisions', verification', now')
              /\ Follows(action, action'),
           ReconcileSound(worker'[w], action', decisions', verification', now')
    PROVE  LifeInv'
<1>1. \A v \in Workers : v = w
  BY DEF LifeInv, OneOfEach
<1>2. now' >= now
  BY DEF TypeInv, TypeOK
<1> QED
  BY <1>1, <1>2, LifeStep

LEMMA ReturnLife ==
    ASSUME TypeInv, TypeInv', DispatchInv, LifeInv, NEW w \in Workers, Return(w),
           UNCHANGED <<cache, decisions, verification, now>>,
           \/ action' = action
           \/ /\ action'.resourceVersion > action.resourceVersion
              /\ HistorySound(action', decisions', verification', now')
              /\ Follows(action, action')
    PROVE  LifeInv'
<1>1. worker'[w] = Idle
  BY ReturnType DEF TypeInv
<1>2. ReconcileSound(worker'[w], action', decisions', verification', now')
  BY <1>1, IdleFacts DEF ReconcileSound
<1> QED
  BY <1>2, KeptSame, MoverLife

\* What is approved was decided.
LEMMA ApprovedIsDecided ==
    ASSUME TypeInv, NEW a, RecordSound(a), isAgentActionApproved(a)
    PROVE  decisions # <<>>
<1>1. decisions \in Seq(Decisions)
  BY DEF TypeInv, TypeOK
<1>2. a.approval.decidedAt \in 0 .. Len(decisions) /\ a.approval.decidedAt # 0
  BY DEF RecordSound, isAgentActionApproved
<1> QED
  BY <1>1, <1>2

\* Until it has ended, nothing is known of an action's effectiveness.
LEMMA NothingVerified ==
    ASSUME NEW a, NEW D, NEW V, NEW t, HistorySound(a, D, V, t), ~ Terminal(a)
    PROVE  /\ a.effectiveness.phase \notin {"Verifying", "Completed"}
           /\ a.effectiveness.verificationRef = NoID
BY DEF HistorySound

LEMMA PreparedHistory ==
    ASSUME TypeInv, TypeInv', DispatchInv, LifeInv, NEW w \in Workers,
           NEW k, NEW o \in Actions, Prepared(w, k, o), PreparingStep(w),
           o.resourceVersion = action.resourceVersion
    PROVE  HistorySound(o, decisions, verification', now) /\ Follows(action, o)
<1> DEFINE a == cache[w]
           H(b) == HistorySound(b, decisions, verification', now)
<1>1. /\ a \in Actions /\ CacheCoherent(w) /\ SameSpec(a, o) /\ RecordSound(a)
      /\ now \in Nat /\ DOMAIN verification \subseteq ExecutionIDs
      /\ a.finishedAt \in Int
  BY DEF TypeInv, TypeOK, DispatchInv, Prepared, Actions
<1>2. a = action
  BY <1>1 DEF CacheCoherent, SameSpec
<1>3. /\ H(a) /\ ReconcileSound(worker[w], action, decisions, verification, now)
      /\ HistorySound(a, decisions, verification, now)
  BY <1>1, HistoryStays DEF LifeInv, PreparingStep
<1>4. ASSUME ~ Terminal(a), decisions # <<>> \/ o.phase = "WaitingApproval"
                              \/ o.phase = "Escalated" \/ o.phase = a.phase,
             \/ o.effectiveness = a.effectiveness
             \/ /\ o.effectiveness.phase = "NotVerified"
                /\ o.effectiveness.verificationRef = NoID \/ Terminal(o)
      PROVE  H(o) /\ Follows(action, o)
  <2>1. /\ a.effectiveness.phase \notin {"Verifying", "Completed"}
        /\ a.effectiveness.verificationRef = NoID
    BY <1>3, <1>4, NothingVerified
  <2>2. Terminal(o) \/ o.phase = "Executing" => decisions # <<>>
    BY <1>3, <1>4 DEF HistorySound, Terminal, TerminalPhases
  <2> QED
    BY <1>2, <1>4, <2>1, <2>2 DEF HistorySound, Follows, Verifying
<1>5. CASE Starts(w, o) \/ FailsEarly(w, o)
  <2>1. Reads(w, "approved")
    BY <1>5 DEF Starts, FailsEarly
  <2>2. ~ Terminal(a) /\ isAgentActionApproved(a)
    BY <2>1 DEF Reads, Branch
  <2>3. decisions # <<>>
    BY <1>1, <2>2, ApprovedIsDecided
  <2> QED
    BY <1>4, <1>5, <2>2, <2>3 DEF Starts, FailsEarly, Terminal, TerminalPhases
<1>6. CASE Succeeds(w, o)
  <2>1. ~ Terminal(a) /\ decisions # <<>>
    <3>1. CASE Reads(w, "inFlight")
      <4>1. ~ Terminal(a) /\ a.phase = "Executing"
        BY <3>1 DEF Reads, Branch, InFlight
      <4> QED
        BY <1>3, <4>1 DEF HistorySound
    <3>2. CASE At(w, "read")
      BY <1>2, <1>3, <3>2 DEF At, ReconcileSound
    <3> QED
      BY <1>6, <3>1, <3>2 DEF Succeeds
  <2>2. a.effectiveness.verificationRef = NoID
    BY <1>3, <2>1, NothingVerified
  <2>3. Terminal(o) /\ o.finishedAt = now
    BY <1>6 DEF Succeeds, Terminal, TerminalPhases
  <2>4. /\ o.effectiveness.phase \in {"Verifying", "NotVerified"}
        /\ Verifying(o) =>
              /\ o.effectiveness.observationUntil
                   = o.finishedAt + SettlingPeriod + ObservationWindow
              /\ o.effectiveness.verificationRef = NoID
    BY <1>6, <2>2, <2>3 DEF Succeeds, Verifying
  <2> QED
    BY <1>2, <2>1, <2>3, <2>4 DEF HistorySound, Follows
<1>7. CASE Doubts(w, o) \/ Fails(w, o)
  <2>1. At(w, "read") /\ o.effectiveness = a.effectiveness
    BY <1>7 DEF Doubts, Fails, SameHistory
  <2>2. ~ Terminal(a) /\ decisions # <<>>
    BY <1>2, <1>3, <2>1 DEF At, ReconcileSound
  <2> QED
    BY <1>4, <2>1, <2>2
<1>8. CASE Resets(w, o) \/ Attempts(w, o) \/ Escalates(w, o)
  <2>1. Reads(w, "pending") /\ o.effectiveness = a.effectiveness
    BY <1>8 DEF Resets, Attempts, Escalates, SameHistory
  <2>2. ~ Terminal(a)
    BY <2>1 DEF Reads, Branch
  <2> QED
    BY <1>4, <1>8, <2>1, <2>2 DEF Resets, Attempts, Escalates
<1>9. ASSUME Verifies(w, o)
      PROVE  /\ Terminal(a) /\ Verifying(a) /\ Terminal(o) /\ Follows(action, o)
             /\ o.execution = a.execution /\ o.finishedAt = a.finishedAt
             /\ decisions # <<>>
             /\ a.effectiveness.verificationRef \in {NoID, a.execution.id}
             /\ a.effectiveness.observationUntil
                  = a.finishedAt + SettlingPeriod + ObservationWindow
  <2>1. Verifying(a)
    BY <1>9 DEF Verifies, Reads, Branch
  <2>2. Terminal(a)
    BY <1>3, <2>1 DEF HistorySound, Verifying
  <2>3. decisions # <<>>
    BY <1>3, <2>2 DEF HistorySound
  <2> QED
    BY <1>2, <1>3, <1>9, <2>1, <2>2, <2>3
    DEF Verifies, Follows, HistorySound, Terminal
<1>10. CASE Verifies(w, o) /\ Asks(w, o)
  BY <1>9, <1>10 DEF Asks, HistorySound, Verifying
<1>11. CASE Verifies(w, o) /\ Judges(w, o)
  <2> DEFINE ref == a.effectiveness.verificationRef
  <2>1. /\ ref \in DOMAIN verification /\ verification[ref] # "running"
        /\ o.effectiveness.verificationRef = ref
        /\ o.effectiveness.outcome = "Effective" => verification[ref] = "NoIssueFound"
        /\ now >= a.effectiveness.observationUntil
        /\ o.effectiveness.phase = "Completed"
    BY <1>11 DEF Judges, VerificationOutcomes
  <2>2. ref = a.execution.id
    BY <1>1, <1>9, <1>11, <2>1, ConstantsAssumption
  <2>3. ref \in DOMAIN verification' /\ verification'[ref] = verification[ref]
    BY <2>1 DEF PreparingStep, Kept
  <2>4. VerdictGiven(o, verification', now)
    BY <1>9, <1>11, <2>1, <2>2, <2>3 DEF VerdictGiven
  <2> QED
    BY <1>9, <1>11, <2>1, <2>4 DEF HistorySound, Verifying
<1> QED
  BY <1>5, <1>6, <1>7, <1>8, <1>10, <1>11 DEF Prepared

LEMMA PreparingLife ==
    ASSUME TypeInv, TypeInv', DispatchInv, LifeInv, NEW w \in Workers, PreparingStep(w)
    PROVE  LifeInv'
<1>1. PICK k \in Kinds, o \in Actions, q \in Requests \cup {NoRequest} :
         Prepare(w, k, o, q) /\ Prepared(w, k, o)
  BY DEF PreparingStep
<1>2. worker'[w].pc = "update" /\ worker'[w].kind = k /\ worker'[w].obj = o
  <2>1. worker'[w] = [pc |-> "update", kind |-> k, obj |-> o,
                      request |-> q, result |-> "None",
                      at |-> IF k = "attempt" THEN now ELSE Never]
    BY <1>1, PrepareType DEF TypeInv
  <2> QED
    BY <2>1
<1>3. UNCHANGED <<action, cache, decisions, now>> /\ Kept(verification, verification')
  BY DEF PreparingStep
<1>4. o.exists
  <2>1. cache[w].exists
    BY <1>1 DEF Prepared, Starts, FailsEarly, Succeeds, Doubts, Fails, Resets,
                Attempts, Escalates, Verifies, Reads
  <2> QED
    BY <1>1, <2>1 DEF Prepared, SameSpec
<1>5. k = "start" => o.phase = "Executing" /\ decisions # <<>>
  <2> SUFFICES ASSUME k = "start" PROVE o.phase = "Executing" /\ decisions # <<>>
    OBVIOUS
  <2>1. Starts(w, o)
    BY <1>1 DEF Prepared
  <2>2. isAgentActionApproved(cache[w]) /\ RecordSound(cache[w])
    BY <2>1 DEF Starts, Reads, Branch, DispatchInv
  <2> QED
    BY <2>1, <2>2, ApprovedIsDecided DEF Starts
<1>6. o.resourceVersion = action.resourceVersion =>
        HistorySound(o, decisions, verification', now) /\ Follows(action, o)
  BY <1>1, PreparedHistory
<1>7. ReconcileSound(worker'[w], action', decisions', verification', now')
  BY <1>2, <1>3, <1>4, <1>5, <1>6 DEF ReconcileSound
<1> QED
  BY <1>3, <1>7, MoverLife

\* HistorySound and Follows look at the status only.
LEMMA StatusOnly ==
    ASSUME NEW a, NEW b, b.phase = a.phase, b.finishedAt = a.finishedAt,
           b.execution = a.execution, b.effectiveness = a.effectiveness
    PROVE  /\ \A D, V, t : HistorySound(a, D, V, t) => HistorySound(b, D, V, t)
           /\ \A c : Follows(c, a) => Follows(c, b)
           /\ Follows(a, b) /\ Follows(b, a)
<1>1. (Terminal(a) <=> Terminal(b)) /\ (Verifying(a) <=> Verifying(b))
  BY DEF Terminal, Verifying
<1>2. \A V, t : VerdictGiven(a, V, t) => VerdictGiven(b, V, t)
  BY DEF VerdictGiven
<1>3. \A D, V, t : HistorySound(a, D, V, t) => HistorySound(b, D, V, t)
  BY <1>1, <1>2 DEF HistorySound
<1> QED
  BY <1>1, <1>3 DEF Follows

LEMMA StatusUpdateLife ==
    ASSUME TypeInv, TypeInv', DispatchInv, LifeInv, NEW w \in Workers, StatusUpdate(w)
    PROVE  LifeInv'
<1> DEFINE s == worker[w]
<1>1. /\ s.pc = "update" /\ s \in WorkerStates
      /\ worker \in [Workers -> WorkerStates]
      /\ ReconcileSound(s, action, decisions, verification, now)
      /\ action.resourceVersion \in Nat
  BY CountTypes DEF LifeInv, StatusUpdate, At, Actions
<1>2. /\ s.obj.resourceVersion = action.resourceVersion
      /\ action'.resourceVersion = action.resourceVersion + 1
      /\ action'.phase = s.obj.phase /\ action'.finishedAt = s.obj.finishedAt
      /\ action'.execution = s.obj.execution
      /\ action'.effectiveness = s.obj.effectiveness
      /\ action'.exists = s.obj.exists
      /\ UNCHANGED <<cache, decisions, verification, now>>
  BY UpdateFields DEF worldVars
<1>3. /\ HistorySound(s.obj, decisions, verification, now)
      /\ Follows(action, s.obj) /\ s.obj.exists
  BY <1>1, <1>2 DEF ReconcileSound
<1>4. /\ HistorySound(action', decisions', verification', now')
      /\ Follows(action, action')
      /\ action'.resourceVersion > action.resourceVersion
  BY <1>1, <1>2, <1>3, StatusOnly
<1>5. CASE s.kind = "start"
  <2>1. worker'[w].pc = "execute"
    BY <1>1, <1>5 DEF StatusUpdate, WorkerStates
  <2>2. s.obj.phase = "Executing" /\ decisions # <<>>
    BY <1>1, <1>5 DEF ReconcileSound
  <2>3. ReconcileSound(worker'[w], action', decisions', verification', now')
    BY <1>2, <2>1, <2>2 DEF ReconcileSound, Terminal, TerminalPhases
  <2> QED
    BY <1>2, <1>4, <2>3, KeptSame, MoverLife
<1>6. CASE s.kind = "attempt"
  <2>1. worker' = [worker EXCEPT ![w].pc = "notify", ![w].obj = action']
    BY <1>6 DEF StatusUpdate
  <2>2. worker'[w].pc = "notify" /\ worker'[w].obj = action'
    BY <1>1, <2>1 DEF WorkerStates
  <2>3. ReconcileSound(worker'[w], action', decisions', verification', now')
    BY <1>2, <1>3, <1>4, <2>2, StatusOnly DEF ReconcileSound
  <2> QED
    BY <1>2, <1>4, <2>3, KeptSame, MoverLife
<1>7. CASE s.kind \notin {"start", "attempt"}
  <2>1. Return(w)
    BY <1>7 DEF StatusUpdate
  <2> QED
    BY <1>2, <1>4, <2>1, ReturnLife
<1> QED
  BY <1>5, <1>6, <1>7

LEMMA NotifyLife ==
    ASSUME TypeInv, TypeInv', DispatchInv, WaitInv, LifeInv, NEW w \in Workers, Notify(w)
    PROVE  LifeInv'
<1> DEFINE s == worker[w]
           e == Escalated(s.obj, s.at)
<1>1. /\ s \in WorkerStates /\ s.obj \in Actions /\ s.pc = "notify"
      /\ worker \in [Workers -> WorkerStates]
      /\ HoldSound(s, action, now)
      /\ ReconcileSound(s, action, decisions, verification, now)
      /\ UNCHANGED <<action, cache, decisions, verification, now>>
  BY DEF TypeInv, TypeOK, WaitInv, LifeInv, WorkerStates, Notify, At
<1>2. /\ e.resourceVersion = s.obj.resourceVersion /\ e.exists = s.obj.exists
      /\ e.phase = "Escalated" /\ e.finishedAt = s.obj.finishedAt
      /\ e.execution = s.obj.execution /\ e.effectiveness = s.obj.effectiveness
  BY <1>1 DEF Escalated, SetPhase, Actions
<1>3. /\ worker'[w].pc = "update" /\ worker'[w].kind \in {"escalate", "notifyError"}
      /\ worker'[w].obj \in {s.obj, e}
  <2> HIDE DEF e
  <2> QED
    BY <1>1 DEF Notify, e, WorkerStates
<1> HIDE DEF e
<1>4. s.obj.exists /\ s.obj.phase = "WaitingApproval"
  BY <1>1 DEF ReconcileSound, HoldSound, AboutToNotify, Overdue
<1>5. ASSUME worker'[w].obj.resourceVersion = action.resourceVersion
      PROVE  /\ HistorySound(worker'[w].obj, decisions, verification, now)
             /\ Follows(action, worker'[w].obj)
  <2>1. HistorySound(s.obj, decisions, verification, now) /\ Follows(action, s.obj)
    BY <1>1, <1>2, <1>3, <1>5 DEF ReconcileSound
  <2>2. ~ Terminal(s.obj) /\ ~ Terminal(e)
    BY <1>2, <1>4 DEF Terminal, TerminalPhases
  <2>3. ~ Terminal(action)
    BY <2>1, <2>2 DEF Follows, Terminal
  <2>4. HistorySound(e, decisions, verification, now)
    BY <1>2, <2>1, <2>2 DEF HistorySound, Verifying
  <2> QED
    BY <1>3, <2>1, <2>3, <2>4 DEF Follows
<1>6. ReconcileSound(worker'[w], action', decisions', verification', now')
  BY <1>1, <1>2, <1>3, <1>4, <1>5 DEF ReconcileSound
<1> QED
  BY <1>1, <1>6, KeptSame, MoverLife

LEMMA CallLife ==
    ASSUME TypeInv, TypeInv', DispatchInv, LifeInv, NEW w \in Workers,
           ReconcileTerminal(w) \/ Execute(w) \/ Patch(w)
    PROVE  LifeInv'
<1>1. /\ UNCHANGED <<action, cache, decisions, verification, now>>
      /\ ReconcileSound(worker[w], action, decisions, verification, now)
      /\ HistorySound(cache[w], decisions, verification, now)
      /\ Follows(cache[w], action)
  BY DEF ReconcileTerminal, Execute, Patch, worldVars, LifeInv
<1>2. ReconcileSound(worker'[w], action', decisions', verification', now')
  <2>1. CASE ReconcileTerminal(w)
    <3>1. worker'[w] = [Idle EXCEPT !.pc = "delete"]
      BY <2>1, CountTypes DEF ReconcileTerminal
    <3>2. worker'[w].pc = "delete"
      BY <3>1, IdleType DEF WorkerStates
    <3>3. Reads(w, "terminal") /\ Expired(cache[w])
      BY <2>1 DEF ReconcileTerminal
    <3>4. Terminal(cache[w]) /\ ~ Verifying(cache[w])
      BY <3>3 DEF Reads, Branch
    <3>5. Deletable(action, now)
      BY <1>1, <3>3, <3>4 DEF Follows, Terminal, Expired, Deletable
    <3> QED
      BY <1>1, <3>2, <3>5 DEF ReconcileSound
  <2>2. CASE Execute(w) \/ Patch(w)
    <3>1. worker[w].pc \in {"execute", "patch"}
      BY <2>2 DEF Execute, Patch, At
    <3>2. worker'[w].pc \in {"patch", "read"}
      <4>1. worker \in [Workers -> WorkerStates] /\ worker[w] \in WorkerStates
        BY CountTypes
      <4>2. \/ worker' = [worker EXCEPT ![w].pc = "patch"]
            \/ \E r : worker' = [worker EXCEPT ![w].pc = "read", ![w].result = r]
        BY <2>2 DEF Execute, Patch
      <4> QED
        BY <4>1, <4>2 DEF WorkerStates
    <3> QED
      BY <1>1, <3>1, <3>2 DEF ReconcileSound
  <2> QED
    BY <2>1, <2>2
<1> QED
  BY <1>1, <1>2, KeptSame, MoverLife

LEMMA ReconcileLife ==
    ASSUME TypeInv, TypeInv', DispatchInv, WaitInv, LifeInv, NEW w \in Workers,
           Reconcile(w)
    PROVE  LifeInv'
<1>1. CASE Return(w) /\ UNCHANGED <<action, cache, worldVars>>
  BY <1>1, ReturnLife DEF worldVars
<1>2. CASE Delete(w)
  <2>1. action.resourceVersion \in Nat
    BY DEF TypeInv, TypeOK, Actions
  <2>2. Return(w) /\ UNCHANGED <<cache, decisions, verification, now>>
    BY <1>2, DeleteFields DEF worldVars
  <2>3. \/ action' = action
        \/ /\ action'.resourceVersion > action.resourceVersion
           /\ HistorySound(action', decisions', verification', now')
           /\ Follows(action, action')
    BY <1>2, <2>1, <2>2, DeleteFields, StatusOnly DEF LifeInv
  <2> QED
    BY <2>2, <2>3, ReturnLife
<1> QED
  BY <1>1, <1>2, ReconcileSteps, PreparingLife, StatusUpdateLife, NotifyLife, CallLife

LEMMA ClientLife ==
    ASSUME TypeInv, TypeInv', DispatchInv, LifeInv, Users \/ Plan
    PROVE  LifeInv'
<1>1. /\ UNCHANGED <<cache, worker, verification, now>> /\ now' >= now
      /\ action'.resourceVersion > action.resourceVersion
      /\ now \in Nat /\ decisions \in Seq(Decisions)
  BY ClientSteps, ClientVersion DEF TypeInv, TypeOK
<1>2. CASE Edits
  <2>1. decisions # <<>> => decisions' # <<>>
    <3>1. decisions' = decisions \/ \E d \in Decisions : decisions' = Append(decisions, d)
      BY DEF Users, Plan, CreateDirectly, SetApprovedBy, EditContent, Retain, Generate,
             Decide, CollectGarbage, worldVars
    <3> QED
      BY <1>1, <3>1
  <2>2. HistorySound(action, decisions', verification', now')
    BY <1>1, <2>1, KeptSame, HistoryStays, CountTypes DEF LifeInv
  <2>3. HistorySound(action', decisions', verification', now') /\ Follows(action, action')
    BY <1>2, <2>2, StatusOnly DEF Edits
  <2>4. Terminal(action') <=> Terminal(action)
    BY <1>2 DEF Edits, Terminal
  <2>5. \A w \in Workers :
          worker[w].pc \in {"execute", "patch", "read"} => ~ Terminal(action')
    BY <2>4 DEF LifeInv, ReconcileSound
  <2> QED
    BY <1>1, <2>1, <2>3, <2>5, KeptSame, LifeStep
<1>3. CASE Appears
  <2>1. ~ Terminal(action)
    BY <1>3 DEF Appears, LifeInv
  <2>2. /\ action'.phase # "Executing" /\ ~ Terminal(action')
        /\ action'.effectiveness = NoEffectiveness
    <3>1. \A c, by : NewAction(c, by).effectiveness = NoEffectiveness
      BY Zenon DEF NewAction
    <3> QED
      BY <1>3, <3>1, NewActionPhase DEF Appears, Terminal, TerminalPhases
  <2>3. /\ NoEffectiveness.phase = "None" /\ NoEffectiveness.verificationRef = NoID
    BY DEF NoEffectiveness
  <2>4. HistorySound(action', decisions', verification', now')
    BY <2>2, <2>3 DEF HistorySound, Verifying
  <2>5. Follows(action, action')
    BY <2>1 DEF Follows
  <2>6. decisions # <<>> => decisions' # <<>>
    <3>1. decisions' = decisions \/ \E d \in Decisions : decisions' = Append(decisions, d)
      BY DEF Users, Plan, CreateDirectly, SetApprovedBy, EditContent, Retain, Generate,
             Decide, CollectGarbage, worldVars
    <3> QED
      BY <1>1, <3>1
  <2> QED
    BY <1>1, <2>2, <2>4, <2>5, <2>6, KeptSame, LifeStep
<1>4. CASE IsDecided /\ \E d \in Decisions, crd \in PolicyObjects : Decide(d, crd)
  <2>1. Len(decisions) < MaxDecisions /\ \E d \in Decisions : decisions' = Append(decisions, d)
    BY <1>4 DEF Decide
  <2>2. decisions = <<>> /\ decisions' # <<>>
    <3>1. MaxDecisions <= 1 /\ MaxDecisions \in Nat
      BY ConstantsAssumption DEF LifeInv, OneOfEach
    <3> QED
      BY <1>1, <2>1, <3>1
  <2>3. /\ ~ Terminal(action)
        /\ \A w \in Workers : worker[w].pc \notin {"execute", "patch", "read"}
    BY <2>2 DEF LifeInv, HistorySound, ReconcileSound
  <2>4. /\ action.effectiveness.phase \notin {"Verifying", "Completed"}
        /\ action.effectiveness.verificationRef = NoID
    BY <2>3, NothingVerified DEF LifeInv
  <2>5. HistorySound(action', decisions', verification', now')
    BY <1>4, <2>2, <2>4 DEF IsDecided, HistorySound, Verifying
  <2>6. Follows(action, action')
    BY <2>3 DEF Follows
  <2> QED
    BY <1>1, <2>2, <2>3, <2>5, <2>6, KeptSame, LifeStep
<1> QED
  BY <1>2, <1>3, <1>4, ClientSteps

LEMMA LifeInvInit == OneOfEach /\ Init => LifeInv
<1> SUFFICES ASSUME OneOfEach, Init PROVE LifeInv
  OBVIOUS
<1> DEFINE n == NewAction(NoContent, "nobody")
<1>1. n \in Actions
  BY NewActionType, ContentTypes DEF Approvers
<1>2. n.effectiveness = NoEffectiveness
  BY Zenon DEF NewAction
<1> HIDE DEF n
<1>3. action.phase = n.phase /\ action.effectiveness = n.effectiveness
  BY <1>1 DEF Init, Actions, n
<1>4. action.phase # "Executing" /\ ~ Terminal(action)
  BY <1>3, NewActionPhase DEF n, Terminal, TerminalPhases
<1>5. NoEffectiveness.phase = "None" /\ NoEffectiveness.verificationRef = NoID
  BY DEF NoEffectiveness
<1>6. HistorySound(action, decisions, verification, now) /\ Follows(action, action)
  BY <1>2, <1>3, <1>4, <1>5 DEF HistorySound, Verifying, Follows
<1>7. \A w \in Workers : cache[w] = action /\ worker[w] = Idle
  BY DEF Init
<1>8. \A w \in Workers : ReconcileSound(worker[w], action, decisions, verification, now)
  BY <1>7, IdleFacts DEF ReconcileSound
<1> QED
  BY <1>4, <1>6, <1>7, <1>8 DEF LifeInv

LEMMA LifeInvNext ==
    TypeInv /\ TypeInv' /\ DispatchInv /\ WaitInv /\ LifeInv /\ [Next]_vars => LifeInv'
<1> SUFFICES ASSUME TypeInv, TypeInv', DispatchInv, WaitInv, LifeInv, [Next]_vars
             PROVE  LifeInv'
  OBVIOUS
<1>0. /\ now \in Nat
      /\ \A w \in Workers : worker[w].pc \in {"execute", "patch", "read"} =>
                               ~ Terminal(action)
  BY DEF TypeInv, TypeOK, LifeInv, ReconcileSound
<1>1. ASSUME NEW w \in Workers, Replica(w) PROVE LifeInv'
  <2>1. CASE CacheSync(w)
    <3>1. /\ \A v \in Workers : cache'[v] = cache[v] \/ cache'[v] = action
          /\ UNCHANGED <<action, worker, decisions, verification, now>>
      BY <2>1 DEF CacheSync, worldVars, TypeInv, TypeOK
    <3> QED
      BY <1>0, <3>1, KeptSame, LifeStep
  <2>2. CASE Crash(w)
    BY <2>2, ReturnLife DEF Crash
  <2> QED
    BY <1>1, <2>1, <2>2, ReconcileLife DEF Replica
<1>2. CASE World
  <2>1. UNCHANGED <<action, cache, worker, decisions>> /\ now' >= now
    BY <1>0, <1>2 DEF World, TargetReplaced, VerificationFinishes, Tick
  <2>2. Kept(verification, verification')
    <3>1. CASE \E id \in DOMAIN verification, o \in VerificationOutcomes :
                 VerificationFinishes(id, o)
      BY <3>1 DEF VerificationFinishes, Kept
    <3>2. CASE verification' = verification
      BY <3>2, KeptSame
    <3> QED
      BY <1>2, <3>1, <3>2 DEF World, TargetReplaced, Tick
  <2> QED
    BY <1>0, <2>1, <2>2, LifeStep
<1>3. CASE UNCHANGED vars
  BY <1>0, <1>3, KeptSame, LifeStep DEF vars
<1> QED
  BY <1>1, <1>2, <1>3, ClientLife DEF Next

LEMMA LifeInvAlways ==
    OneOfEach /\ Spec => [](TypeInv /\ DispatchInv /\ WaitInv /\ LifeInv)
<1>1. OneOfEach /\ Init => LifeInv
  BY LifeInvInit
<1> QED
  BY <1>1, LifeInvNext, WaitInvAlways, PTL DEF Spec

\* How the object moves in a step: forward.
LEMMA EndKept ==
    ASSUME TypeInv, TypeInv', DispatchInv, LifeInv, [Next]_vars
    PROVE  Follows(action, action')
<1>1. ASSUME NEW w \in Workers, StatusUpdate(w) PROVE Follows(action, action')
  <2>1. /\ ReconcileSound(worker[w], action, decisions, verification, now)
        /\ worker[w].pc = "update"
        /\ worker[w].obj.resourceVersion = action.resourceVersion
    BY <1>1, UpdateFields DEF LifeInv, StatusUpdate, At
  <2>2. Follows(action, worker[w].obj)
    BY <2>1 DEF ReconcileSound
  <2> QED
    BY <1>1, <2>2, UpdateFields, StatusOnly
<1>2. CASE action' = action
  BY <1>2 DEF Follows
<1>3. ASSUME NEW w \in Workers, Replica(w) PROVE Follows(action, action')
  <2>1. CASE Delete(w)
    BY <1>2, <2>1, DeleteFields, StatusOnly
  <2>2. CASE CacheSync(w) \/ Crash(w)
    BY <1>2, <2>2 DEF CacheSync, Crash
  <2>3. CASE PreparingStep(w) \/ Notify(w)
    BY <1>2, <2>3 DEF PreparingStep, Notify
  <2>4. CASE ReconcileTerminal(w) \/ Execute(w) \/ Patch(w)
    BY <1>2, <2>4, CallSteps
  <2> QED
    BY <1>1, <1>2, <1>3, <2>1, <2>2, <2>3, <2>4, ReconcileSteps DEF Replica
<1>4. CASE Users \/ Plan
  <2>1. CASE Edits
    BY <2>1, StatusOnly DEF Edits
  <2>2. CASE Appears
    BY <2>2 DEF Appears, LifeInv, Follows
  <2>3. ASSUME NEW d \in Decisions, NEW crd \in PolicyObjects, Decide(d, crd)
        PROVE  Follows(action, action')
    <3>1. Len(decisions) < MaxDecisions
      BY <2>3 DEF Decide
    <3>2. decisions = <<>>
      <4>1. MaxDecisions <= 1 /\ MaxDecisions \in Nat /\ decisions \in Seq(Decisions)
        BY ConstantsAssumption DEF LifeInv, OneOfEach, TypeInv, TypeOK
      <4> QED
        BY <3>1, <4>1
    <3> QED
      BY <3>2 DEF LifeInv, HistorySound, Follows
  <2> QED
    BY <1>4, <2>1, <2>2, <2>3, ClientSteps
<1>5. CASE World
  BY <1>2, <1>5 DEF World, TargetReplaced, VerificationFinishes, Tick
<1>6. CASE UNCHANGED vars
  BY <1>2, <1>6 DEF vars
<1> QED
  BY <1>3, <1>4, <1>5, <1>6 DEF Next

\* With one replica and one decision, a finished action stays as it finished:
\* phase, finish time and recorded execution.
THEOREM FinishedActionStays == OneOfEach /\ Spec => TerminalStable
<1>1. TypeInv /\ TypeInv' /\ DispatchInv /\ LifeInv /\ [Next]_vars =>
        [action.exists /\ Terminal(action) =>
           /\ action'.phase = action.phase
           /\ action'.finishedAt = action.finishedAt
           /\ action'.execution = action.execution]_vars
  BY EndKept DEF Follows
<1> QED
  BY <1>1, LifeInvAlways, PTL DEF Spec, TerminalStable

\* With one replica and one decision, the verdict on a remediation is about
\* its own execution, comes after the observation window, and is Effective
\* only if the verification found no issue.
THEOREM VerdictHolds == OneOfEach /\ Spec => []VerdictSound
<1>1. LifeInv => VerdictSound
  BY DEF LifeInv, HistorySound, VerdictGiven, VerdictSound
<1> QED
  BY <1>1, LifeInvAlways, PTL

\* The object disappears only by the Delete of a Reconcile, which finds it
\* finished and expired,
LEMMA ReplicaDeletes ==
    ASSUME TypeInv, TypeInv', LifeInv, NEW w \in Workers, Replica(w),
           action.exists, ~ action'.exists
    PROVE  Deletable(action, now)
<1>1. CASE Delete(w)
  BY <1>1 DEF Delete, At, LifeInv, ReconcileSound
<1>2. CASE StatusUpdate(w)
  <2>1. worker[w].obj.exists
    BY <1>2 DEF StatusUpdate, At, LifeInv, ReconcileSound
  <2> QED
    BY <1>2, <2>1, UpdateFields
<1>3. CASE PreparingStep(w) \/ Notify(w)
  BY <1>3 DEF PreparingStep, Notify
<1>4. CASE ReconcileTerminal(w) \/ Execute(w) \/ Patch(w)
  BY <1>4, CallSteps
<1>5. CASE CacheSync(w) \/ Crash(w)
  BY <1>5 DEF CacheSync, Crash
<1> QED
  BY <1>1, <1>2, <1>3, <1>4, <1>5, ReconcileSteps DEF Replica

LEMMA GenerateKeeps ==
    ASSUME TypeInv, action.exists, NEW c, NEW auto, Generate(c, auto)
    PROVE  action'.exists
<1>1. action \in Actions
  BY DEF TypeInv, TypeOK
<1>2. \A by : NewAction(c, by).exists
  BY DEF NewAction
<1> QED
  BY <1>1, <1>2 DEF Generate, Generated, Actions

\* ... or with its plan: nobody else deletes it.
LEMMA ClientsKeep ==
    ASSUME TypeInv, action.exists,
           \/ Users \/ World
           \/ \E c, auto : Generate(c, auto)
           \/ \E d \in Decisions : \E crd : Decide(d, crd)
    PROVE  action'.exists
<1>1. action \in Actions
  BY DEF TypeInv, TypeOK
<1>2. \A c, by : NewAction(c, by).exists
  BY DEF NewAction
<1>3. CASE World
  BY <1>3 DEF World, TargetReplaced, VerificationFinishes, Tick
<1>4. CASE Users
  <2>1. ASSUME NEW c, NEW by, CreateDirectly(c, by) PROVE action'.exists
    BY <1>2, <2>1 DEF CreateDirectly
  <2>2. ASSUME NEW by, SetApprovedBy(by) PROVE action'.exists
    BY <1>1, <2>2 DEF SetApprovedBy, Written, Actions
  <2>3. ASSUME NEW c, EditContent(c) PROVE action'.exists
    BY <1>1, <2>3 DEF EditContent, Written, Actions
  <2>4. CASE Retain
    BY <1>1, <2>4 DEF Retain, Written, Actions
  <2> QED
    BY <1>4, <2>1, <2>2, <2>3, <2>4 DEF Users
<1>5. CASE \E c, auto : Generate(c, auto)
  BY <1>5, GenerateKeeps
<1>6. ASSUME NEW d \in Decisions, NEW crd, Decide(d, crd) PROVE action'.exists
  <2> DEFINE b == Decided(action, d, crd, Len(decisions) + 1, now)
  <2>1. b.exists
    BY <1>1 DEF Decided, SetPhase, Decisions, Actions
  <2>2. action' = [b EXCEPT !.resourceVersion = @ + 1]
    BY <1>6 DEF Decide, Written
  <2> HIDE DEF b
  <2>3. action'.exists = b.exists
    BY <2>2
  <2> QED
    BY <2>1, <2>3
<1> QED
  BY <1>3, <1>4, <1>5, <1>6

LEMMA DeletionStep ==
    ASSUME TypeInv, TypeInv', LifeInv, Next, ~ PlanDeletable,
           action.exists, ~ action'.exists
    PROVE  Deletable(action, now)
<1>1. ASSUME NEW w \in Workers, Replica(w) PROVE Deletable(action, now)
  BY <1>1, ReplicaDeletes
<1>2. ~ (Users \/ World)
  BY ClientsKeep
<1>3. ~ Plan
  BY ClientsKeep DEF Plan, CollectGarbage
<1> QED
  BY <1>1, <1>2, <1>3 DEF Next

\* With one replica and one decision, and while its plan stays, an action is
\* deleted only when it has been finished for longer than its TTL and no
\* verification of it is pending, however stale the read that found it so.
THEOREM DeletedLate ==
    OneOfEach /\ ~ PlanDeletable /\ Spec => DeletedOnlyWhenExpired
<1>1. ~ PlanDeletable /\ TypeInv /\ TypeInv' /\ LifeInv /\ [Next]_vars =>
        [action.exists /\ ~ action'.exists =>
           Terminal(action) /\ Expired(action) /\ ~ Verifying(action)]_vars
  BY DeletionStep DEF Deletable, Expired
<1>2. ~ PlanDeletable /\ [Next]_vars => (~ PlanDeletable)'
  OBVIOUS
<1> QED
  BY <1>1, <1>2, LifeInvAlways, PTL DEF Spec, DeletedOnlyWhenExpired
=============================================================================
