--------------------------- MODULE DispatchProofs ---------------------------
(***************************************************************************)
(* Theorems about AgentAction, for every value of its constants: its types,*)
(* then that no decision is dispatched twice and nothing is dispatched     *)
(* without authority, whatever the number of replicas, crashes, stale      *)
(* reads, edits and repeated decisions.                                    *)
(***************************************************************************)
EXTENDS AgentAction, TLAPS

USE DEF Never

LEMMA ContentTypes ==
    /\ NoContent \in Contents
    /\ \A d \in Decisions : PlanContents[d] \subseteq Contents
BY ConstantsAssumption DEF NoContent

-----------------------------------------------------------------------------
(***************************************************************************)
(* Types of the objects the controllers build.                             *)
(***************************************************************************)
LEMMA NewActionType ==
    ASSUME NEW c \in Contents, NEW by \in Approvers
    PROVE  NewAction(c, by) \in Actions
BY ContentTypes
DEF NewAction, Actions, NoApproval, Approvals, Approvers, Sources, Phases,
    Executions, NoEffectiveness, Effectivenesses

LEMMA IdentityType ==
    ASSUME NEW a \in Actions
    PROVE  /\ BuildExecutionIdentity(a) \in ExecutionIDs
           /\ BuildExecutionIdentity(a).digest = a.content
BY DEF BuildExecutionIdentity, ExecutionIDs, Actions, agentActionSpecDigest

LEMMA SetPhaseType ==
    ASSUME NEW a \in Actions, NEW p \in Phases, NEW at \in Int
    PROVE  SetPhase(a, p, at) \in Actions
BY DEF SetPhase, Actions

LEMMA NoEffectivenessType ==
    /\ [NoEffectiveness EXCEPT !.phase = "NotVerified"] \in Effectivenesses
    /\ [NoEffectiveness EXCEPT !.phase = "NotVerified", !.baseline = TRUE]
          \in Effectivenesses
<1>1. NoEffectiveness \in Effectivenesses
  BY DEF NoEffectiveness, Effectivenesses
<1> QED
  BY <1>1 DEF Effectivenesses

LEMMA StartedType ==
    ASSUME NEW a \in Actions, NEW b \in BOOLEAN, NEW at \in Int
    PROVE  Started(a, b, at) \in Actions
<1>1. SetPhase(a, "Executing", at) \in Actions
  BY SetPhaseType DEF Phases
<1>2. /\ a.approval \in Approvals
      /\ a.approvedBy \in Approvers
      /\ SetPhase(a, "Executing", at).approval = a.approval
  BY DEF Actions, SetPhase
<1>3. BuildExecutionIdentity(a) \in ExecutionIDs
  BY IdentityType
<1>4. [id |-> BuildExecutionIdentity(a), state |-> "Executing"] \in Executions
  BY <1>3 DEF Executions
<1> QED
  BY <1>1, <1>2, <1>4, NoEffectivenessType
  DEF Started, Actions, Approvals, Sources, Approvers

LEMMA failBeforeDispatchType ==
    ASSUME NEW a \in Actions, NEW id \in ExecutionIDs, NEW at \in Int
    PROVE  failBeforeDispatch(a, id, at) \in Actions
<1>1. SetPhase(a, "Failed", at) \in Actions
  BY SetPhaseType DEF Phases, TerminalPhases
<1>2. [id |-> id, state |-> "Failed"] \in Executions
  BY DEF Executions
<1> QED
  BY <1>1, <1>2, NoEffectivenessType DEF failBeforeDispatch, Actions

LEMMA recordExecutionSuccessType ==
    ASSUME NEW a \in Actions, NEW id \in ExecutionIDs, NEW at \in Int
    PROVE  recordExecutionSuccess(a, id, at) \in Actions
<1>1. SetPhase(a, "Succeeded", at) \in Actions
  BY SetPhaseType DEF Phases, TerminalPhases
<1>2. [id |-> id, state |-> "Succeeded"] \in Executions
  BY DEF Executions
<1>3. [NoEffectiveness EXCEPT !.phase = "NotVerified"] \in Effectivenesses
  BY NoEffectivenessType
<1>4. a.effectiveness \in Effectivenesses
  BY DEF Actions
<1>5. [a.effectiveness EXCEPT
          !.phase = "Verifying", !.outcome = "None",
          !.settlingUntil = at + SettlingPeriod,
          !.observationUntil = at + SettlingPeriod + ObservationWindow]
        \in Effectivenesses
  <2>1. /\ at + SettlingPeriod \in Int
        /\ at + SettlingPeriod + ObservationWindow \in Int
    BY ConstantsAssumption
  <2> QED
    BY <1>4, <2>1 DEF Effectivenesses
<1> QED
  BY <1>1, <1>2, <1>3, <1>5 DEF recordExecutionSuccess, Actions

LEMMA OutcomeTypes ==
    ASSUME NEW a \in Actions, NEW at \in Int
    PROVE  /\ RecordUnknown(a, at) \in Actions
           /\ RecordFailure(a, at) \in Actions
           /\ ResetPending(a, at) \in Actions
           /\ Escalated(a, at) \in Actions
<1>1. \A p \in Phases : SetPhase(a, p, at) \in Actions
  BY SetPhaseType
<1>2. RecordUnknown(a, at) \in Actions
  BY <1>1 DEF RecordUnknown, Actions, Executions, Phases
<1>3. RecordFailure(a, at) \in Actions
  BY <1>1 DEF RecordFailure, Actions, Executions, Phases, TerminalPhases
<1>4. ResetPending(a, at) \in Actions
  BY <1>1 DEF ResetPending, Actions, Approvals, NoApproval, Approvers, Sources,
              Phases, agentActionSpecDigest
<1>5. Escalated(a, at) \in Actions
  BY <1>1 DEF Escalated, Actions, Approvals, Phases
<1> QED
  BY <1>2, <1>3, <1>4, <1>5

LEMMA DecidedType ==
    ASSUME NEW a \in Actions, NEW d \in Decisions, NEW crd \in BOOLEAN,
           NEW n \in Nat, NEW at \in Int
    PROVE  Decided(a, d, crd, n, at) \in Actions
<1>1. \A p \in Phases : SetPhase(a, p, at) \in Actions
  BY SetPhaseType
<1>2. ASSUME NEW approved \in BOOLEAN, NEW source \in Sources
      PROVE  [approved |-> approved,
              approvedBy |-> IF approved THEN "policy" ELSE "nobody",
              source |-> approvalSource(crd, source),
              digest |-> agentActionSpecDigest(a),
              decidedAt |-> n, escalated |-> FALSE] \in Approvals
  BY DEF Approvals, Approvers, Sources, approvalSource, agentActionSpecDigest,
         Actions
<1>3. CASE d = "auto"
  BY <1>1, <1>2, <1>3 DEF Decided, Actions, Sources, Phases
<1>4. CASE d = "manual"
  BY <1>1, <1>2, <1>4 DEF Decided, Actions, Sources, Phases
<1>5. CASE d = "reject"
  BY <1>1, <1>2, <1>5 DEF Decided, Actions, Sources, Phases, TerminalPhases
<1> QED
  BY <1>3, <1>4, <1>5 DEF Decisions

LEMMA GeneratedType ==
    ASSUME NEW a \in Actions, NEW c \in Contents, NEW auto \in BOOLEAN
    PROVE  Generated(a, c, auto) \in Actions
<1>1. CASE a.resourceVersion = 0
  BY <1>1, NewActionType DEF Generated, Approvers
<1>2. CASE a.resourceVersion # 0
  <2>1. /\ a.generation + 1 \in Nat
        /\ a.resourceVersion + 1 \in Nat
    BY DEF Actions
  <2>2. (IF auto THEN "policy" ELSE a.approvedBy) \in Approvers
    BY DEF Actions, Approvers
  <2> QED
    BY <1>2, <2>1, <2>2 DEF Generated, Actions
<1> QED
  BY <1>1, <1>2

LEMMA IdleType == Idle \in WorkerStates
<1>1. NewAction(NoContent, "nobody") \in Actions
  BY NewActionType, ContentTypes DEF Approvers
<1> QED
  BY <1>1 DEF Idle, WorkerStates, Kinds

LEMMA IdleFacts ==
    /\ Idle.pc = "idle" /\ Idle.kind = "none" /\ Idle.request = NoRequest
    /\ Idle.obj.execution = [id |-> NoID, state |-> "None"]
    /\ Idle.obj.approval = NoApproval
<1>1. Idle.obj = NewAction(NoContent, "nobody")
  BY DEF Idle
<1> QED
  BY <1>1 DEF Idle, NewAction

LEMMA evaluateEffectivenessType ==
    ASSUME NEW h \in HealthComparisons, NEW observed \in BOOLEAN, NEW outcome
    PROVE  evaluateEffectiveness(h, observed, outcome) \in Outcomes
BY DEF evaluateEffectiveness, Outcomes, HealthComparisons

LEMMA PrepareType ==
    ASSUME TypeOK, NEW w \in Workers, NEW k \in Kinds, NEW obj \in Actions,
           NEW q \in Requests \cup {NoRequest}, Prepare(w, k, obj, q)
    PROVE  /\ worker' \in [Workers -> WorkerStates]
           /\ worker'[w] = [pc |-> "update", kind |-> k, obj |-> obj,
                            request |-> q, result |-> "None",
                            at |-> IF k = "attempt" THEN now ELSE Never]
           /\ \A v \in Workers \ {w} : worker'[v] = worker[v]
<1>1. [pc |-> "update", kind |-> k, obj |-> obj, request |-> q,
       result |-> "None", at |-> IF k = "attempt" THEN now ELSE Never]
        \in WorkerStates
  BY DEF WorkerStates, TypeOK
<1> QED
  BY <1>1 DEF Prepare, TypeOK

LEMMA ReturnType ==
    ASSUME TypeOK, NEW w \in Workers, Return(w)
    PROVE  /\ worker' \in [Workers -> WorkerStates]
           /\ worker'[w] = Idle
           /\ \A v \in Workers \ {w} : worker'[v] = worker[v]
BY IdleType DEF Return, TypeOK

-----------------------------------------------------------------------------
(***************************************************************************)
(* Type correctness.  TypeOK is not inductive: that the identity passed to *)
(* a backend and the one a verification is named after exist at all        *)
(* depends on how a Reconcile got there.                                   *)
(***************************************************************************)
\* A successful execution has an identity, in every copy of the object.
Identified(a) == a.execution.state = "Succeeded" => a.execution.id # NoID

\* A Reconcile that will dispatch, or has dispatched, holds its request.
HoldsRequest(w) ==
    \/ worker[w].pc \in {"execute", "patch", "read"}
    \/ worker[w].pc = "update" /\ worker[w].kind = "start"

TypeInv ==
    /\ TypeOK
    /\ Identified(action)
    /\ \A w \in Workers : Identified(cache[w]) /\ Identified(worker[w].obj)
    /\ \A w \in Workers : HoldsRequest(w) => worker[w].request \in Requests

LEMMA IdentifiedObjects ==
    ASSUME NEW a \in Actions, Identified(a), NEW id \in ExecutionIDs,
           NEW at \in Int, NEW b \in BOOLEAN
    PROVE  /\ Identified(Started(a, b, at))
           /\ Identified(failBeforeDispatch(a, id, at))
           /\ Identified(recordExecutionSuccess(a, id, at))
           /\ Identified(RecordUnknown(a, at))
           /\ Identified(RecordFailure(a, at))
           /\ Identified(ResetPending(a, at))
           /\ Identified(Escalated(a, at))
<1>1. id # NoID
  BY ConstantsAssumption
<1>2. /\ Started(a, b, at).execution.state = "Executing"
      /\ failBeforeDispatch(a, id, at).execution.state = "Failed"
      /\ recordExecutionSuccess(a, id, at).execution.id = id
      /\ RecordUnknown(a, at).execution.state = "Unknown"
      /\ RecordFailure(a, at).execution.state = "Failed"
      /\ ResetPending(a, at).execution = a.execution
      /\ Escalated(a, at).execution = a.execution
  BY DEF Started, failBeforeDispatch, recordExecutionSuccess, RecordUnknown,
         RecordFailure, ResetPending, Escalated, SetPhase, Actions, Executions
<1> QED
  BY <1>1, <1>2 DEF Identified

LEMMA PendingIdentified ==
    ASSUME NEW a \in Actions, Identified(a), NEW at \in Int
    PROVE  Identified(ResetPending(a, at)) /\ Identified(Escalated(a, at))
<1>1. /\ ResetPending(a, at).execution = a.execution
      /\ Escalated(a, at).execution = a.execution
  BY DEF ResetPending, Escalated, SetPhase, Actions
<1> QED
  BY <1>1 DEF Identified

LEMMA TypeInvInit == Init => TypeInv
<1> SUFFICES ASSUME Init PROVE TypeInv
  OBVIOUS
<1>1. NewAction(NoContent, "nobody") \in Actions
  BY NewActionType, ContentTypes DEF Approvers
<1>2. action \in Actions
  BY <1>1 DEF Init, Actions
<1>3. TypeOK
  BY <1>2, IdleType, ConstantsAssumption DEF Init, TypeOK, Targets, UIDs
<1>4. NewAction(NoContent, "nobody").execution.state = "None"
  BY DEF NewAction
<1>5. Identified(action)
  BY <1>4 DEF Init, Identified, NewAction
<1>6. \A w \in Workers : Identified(cache[w]) /\ Identified(worker[w].obj)
  BY <1>4, <1>5 DEF Init, Identified, Idle
<1>7. \A w \in Workers : ~ HoldsRequest(w)
  BY DEF Init, HoldsRequest, Idle
<1> QED
  BY <1>3, <1>5, <1>6, <1>7 DEF TypeInv

\* A step of replica w that prepares a write leaves TypeInv.
LEMMA PrepareTypeInv ==
    ASSUME TypeInv, NEW w \in Workers, NEW k \in Kinds, NEW obj \in Actions,
           NEW q \in Requests \cup {NoRequest}, k = "start" => q \in Requests,
           Identified(obj), Prepare(w, k, obj, q),
           UNCHANGED <<action, cache, worldVars>>
    PROVE  TypeInv'
<1>1. /\ worker' \in [Workers -> WorkerStates]
      /\ worker'[w] = [pc |-> "update", kind |-> k, obj |-> obj,
                       request |-> q, result |-> "None",
                       at |-> IF k = "attempt" THEN now ELSE Never]
      /\ \A v \in Workers \ {w} : worker'[v] = worker[v]
  BY PrepareType DEF TypeInv
<1>2. TypeOK'
  BY <1>1 DEF TypeInv, TypeOK, worldVars
<1>3. /\ Identified(action)'
      /\ \A v \in Workers : Identified(cache[v])' /\ Identified(worker[v].obj)'
  BY <1>1 DEF TypeInv, Identified
<1>4. \A v \in Workers : HoldsRequest(v)' => worker'[v].request \in Requests
  BY <1>1 DEF TypeInv, HoldsRequest
<1> QED
  BY <1>2, <1>3, <1>4 DEF TypeInv

\* So does one that ends the Reconcile.
LEMMA ReturnTypeInv ==
    ASSUME TypeInv, NEW w \in Workers, Return(w),
           action' \in Actions, Identified(action)', UNCHANGED <<cache, target,
           verification, decisions, calls, effects, notices, now>>,
           crashes' \in Nat
    PROVE  TypeInv'
<1>1. /\ worker' \in [Workers -> WorkerStates]
      /\ worker'[w] = Idle
      /\ \A v \in Workers \ {w} : worker'[v] = worker[v]
  BY ReturnType DEF TypeInv
<1>2. TypeOK'
  BY <1>1 DEF TypeInv, TypeOK
<1>3. \A v \in Workers : Identified(cache[v])' /\ Identified(worker[v].obj)'
  <2>1. Idle.obj.execution.state = "None"
    BY IdleFacts
  <2> QED
    BY <1>1, <2>1 DEF TypeInv, Identified
<1>4. \A v \in Workers : HoldsRequest(v)' => worker'[v].request \in Requests
  BY <1>1 DEF TypeInv, HoldsRequest, Idle
<1> QED
  BY <1>2, <1>3, <1>4 DEF TypeInv

\* w moves on within its Reconcile: the object in its hands stays identified
\* and it still holds its request if it needs one.
StepOf(w) ==
    /\ worker' \in [Workers -> WorkerStates]
    /\ Identified(worker[w].obj) => Identified(worker'[w].obj)
    /\ HoldsRequest(w)' => worker'[w].request \in Requests
    /\ \A v \in Workers \ {w} : worker'[v] = worker[v]

LEMMA MoveStep ==
    ASSUME TypeInv, NEW w \in Workers, NEW s \in WorkerStates,
           worker' = [worker EXCEPT ![w] = s],
           Identified(worker[w].obj) => Identified(s.obj),
           (\/ s.pc \in {"execute", "patch", "read"}
            \/ s.pc = "update" /\ s.kind = "start") => s.request \in Requests
    PROVE  StepOf(w)
BY DEF StepOf, TypeInv, TypeOK, HoldsRequest

LEMMA StepTypeInv ==
    ASSUME TypeInv, NEW w \in Workers, StepOf(w),
           target' \in Targets, calls' \in Seq(Requests),
           effects' \in Seq(Effects), notices' \in Nat,
           UNCHANGED <<action, cache, verification, decisions, now, crashes>>
    PROVE  TypeInv'
<1>1. TypeOK'
  BY DEF StepOf, TypeInv, TypeOK
<1>2. /\ Identified(action)'
      /\ \A v \in Workers : Identified(cache[v])' /\ Identified(worker[v].obj)'
  BY DEF StepOf, TypeInv, Identified
<1>3. \A v \in Workers : HoldsRequest(v)' => worker'[v].request \in Requests
  BY DEF StepOf, TypeInv, HoldsRequest
<1> QED
  BY <1>1, <1>2, <1>3 DEF TypeInv

LEMMA ReconcileTypeInv ==
    ASSUME TypeInv, NEW w \in Workers, Reconcile(w)
    PROVE  TypeInv'
<1> DEFINE a == cache[w]
<1>1. /\ a \in Actions /\ Identified(a) /\ now \in Int
      /\ worker[w] \in WorkerStates
      /\ action \in Actions
  BY DEF TypeInv, TypeOK
<1>2. CASE ReconcileApproved(w)
  <2>1. /\ ExecutionRequest(a) \in Requests
        /\ ExecutionRequest(a).id \in ExecutionIDs
    <3>1. Started(a, FALSE, now) \in Actions
      BY <1>1, StartedType
    <3> QED
      BY <3>1, <1>1, IdentityType
      DEF ExecutionRequest, Requests, Actions, Approvals
  <2>2. PICK r \in BaselineResults(a.content) :
          CASE r \in {"found", "none"} ->
                 Prepare(w, "start", Started(a, r = "found", now), ExecutionRequest(a))
            [] r = "captureError" ->
                 Prepare(w, "failBeforeDispatch",
                         failBeforeDispatch(a, ExecutionRequest(a).id, now), NoRequest)
            [] r = "evidenceError" ->
                 Prepare(w, "failBeforeDispatch",
                         failBeforeDispatch(Started(a, FALSE, now),
                                            ExecutionRequest(a).id, now), NoRequest)
    BY <1>2 DEF ReconcileApproved
  <2>3. r \in {"found", "none", "captureError", "evidenceError"}
    BY <2>2 DEF BaselineResults
  <2>4. CASE r \in {"found", "none"}
    <3>1. Prepare(w, "start", Started(a, r = "found", now), ExecutionRequest(a))
      BY <2>2, <2>4
    <3>2. /\ Started(a, r = "found", now) \in Actions
          /\ Identified(Started(a, r = "found", now))
      BY <1>1, <2>1, StartedType, IdentifiedObjects
    <3> QED
      BY <3>1, <3>2, <2>1, <1>2, PrepareTypeInv DEF Kinds, ReconcileApproved
  <2>5. CASE r = "captureError"
    <3>1. Prepare(w, "failBeforeDispatch",
                  failBeforeDispatch(a, ExecutionRequest(a).id, now), NoRequest)
      BY <2>2, <2>5
    <3>2. /\ failBeforeDispatch(a, ExecutionRequest(a).id, now) \in Actions
          /\ Identified(failBeforeDispatch(a, ExecutionRequest(a).id, now))
      BY <1>1, <2>1, failBeforeDispatchType, IdentifiedObjects
    <3> QED
      BY <3>1, <3>2, <1>2, PrepareTypeInv DEF Kinds, ReconcileApproved
  <2>6. CASE r = "evidenceError"
    <3> DEFINE s == Started(a, FALSE, now)
    <3>1. Prepare(w, "failBeforeDispatch",
                  failBeforeDispatch(s, ExecutionRequest(a).id, now), NoRequest)
      BY <2>2, <2>6
    <3>2. s \in Actions /\ Identified(s)
      BY <1>1, <2>1, StartedType, IdentifiedObjects
    <3>3. /\ failBeforeDispatch(s, ExecutionRequest(a).id, now) \in Actions
          /\ Identified(failBeforeDispatch(s, ExecutionRequest(a).id, now))
      BY <3>2, <1>1, <2>1, failBeforeDispatchType, IdentifiedObjects
    <3> QED
      BY <3>1, <3>3, <1>2, PrepareTypeInv DEF Kinds, ReconcileApproved
  <2> QED
    BY <2>3, <2>4, <2>5, <2>6
<1>3. CASE ReconcileInFlight(w)
  <2>1. a.execution.id \in ExecutionIDs
    <3>1. InFlight(a)
      BY <1>3 DEF ReconcileInFlight, Reads, Branch
    <3> QED
      BY <3>1, <1>1 DEF InFlight, Actions, Executions
  <2>2. /\ recordExecutionSuccess(a, a.execution.id, now) \in Actions
        /\ Identified(recordExecutionSuccess(a, a.execution.id, now))
    BY <1>1, <2>1, recordExecutionSuccessType, IdentifiedObjects
  <2> QED
    BY <2>2, <1>3, PrepareTypeInv DEF Kinds, ReconcileInFlight
<1>4. CASE ReconcilePending(w)
  <2>1. ResetPending(a, now) \in Actions /\ Identified(ResetPending(a, now))
    BY <1>1, OutcomeTypes, PendingIdentified
  <2> QED
    BY <2>1, <1>4, PrepareTypeInv DEF Kinds, ReconcilePending
<1>5. CASE ReconcileApprovalTimeout(w)
  <2>1. Escalated(a, now) \in Actions /\ Identified(Escalated(a, now))
    BY <1>1, OutcomeTypes, PendingIdentified
  <2> DEFINE b == [a EXCEPT !.retryCount = @ + 1]
  <2>2. b \in Actions /\ b.execution = a.execution
    BY <1>1 DEF Actions
  <2>3. Identified(b)
    BY <1>1, <2>2 DEF Identified
  <2>4. \/ Prepare(w, "attempt", b, NoRequest)
        \/ Prepare(w, "escalate", Escalated(a, now), NoRequest)
    BY <1>5 DEF ReconcileApprovalTimeout
  <2> QED
    BY <2>1, <2>2, <2>3, <2>4, <1>5, PrepareTypeInv
    DEF Kinds, ReconcileApprovalTimeout
<1>6. CASE ReconcileTerminal(w)
  <2>1. [Idle EXCEPT !.pc = "delete"] \in WorkerStates
    BY IdleType DEF WorkerStates
  <2>2. /\ worker' \in [Workers -> WorkerStates]
        /\ worker'[w] = [Idle EXCEPT !.pc = "delete"]
        /\ \A v \in Workers \ {w} : worker'[v] = worker[v]
    BY <2>1, <1>6 DEF ReconcileTerminal, TypeInv, TypeOK
  <2>3. /\ worker'[w].obj.execution.state = "None"
        /\ worker'[w].pc = "delete"
    BY <2>2, IdleType, IdleFacts DEF WorkerStates
  <2>4. TypeOK'
    BY <1>6, <2>2 DEF ReconcileTerminal, TypeInv, TypeOK, worldVars
  <2>5. /\ Identified(action)'
        /\ \A v \in Workers : Identified(cache[v])' /\ Identified(worker[v].obj)'
    BY <1>6, <2>2, <2>3 DEF ReconcileTerminal, TypeInv, Identified
  <2>6. \A v \in Workers : HoldsRequest(v)' => worker'[v].request \in Requests
    BY <2>2, <2>3 DEF TypeInv, HoldsRequest
  <2> QED
    BY <2>4, <2>5, <2>6 DEF TypeInv
<1>7. CASE ReconcileVerification(w)
  <2> DEFINE id == a.execution.id
             b == [a EXCEPT !.effectiveness.verificationRef = id]
             vs == {"running"} \cup VerificationOutcomes
  <2>1. id \in ExecutionIDs
    BY <1>1, <1>7
    DEF ReconcileVerification, Settled, Identified, Actions, Executions
  <2>2. b \in Actions /\ b.execution = a.execution
    BY <1>1, <2>1 DEF Actions, Effectivenesses
  <2>3. Identified(b)
    BY <1>1, <2>2 DEF Identified
  <2>4. Prepare(w, "verify", b, NoRequest)
    BY <1>7 DEF ReconcileVerification
  <2>5. /\ worker' \in [Workers -> WorkerStates]
        /\ worker'[w] = [pc |-> "update", kind |-> "verify", obj |-> b,
                         request |-> NoRequest, result |-> "None", at |-> Never]
        /\ \A v \in Workers \ {w} : worker'[v] = worker[v]
    BY <2>2, <2>4, PrepareType DEF TypeInv, Kinds
  <2>6. /\ DOMAIN verification' \subseteq ExecutionIDs
        /\ \A i \in DOMAIN verification' : verification'[i] \in vs
    <3>1. verification' = [i \in DOMAIN verification \cup {id} |->
                             IF i \in DOMAIN verification THEN verification[i]
                                                          ELSE "running"]
      BY <1>7 DEF ReconcileVerification
    <3> QED
      BY <2>1, <3>1 DEF TypeInv, TypeOK
  <2>7. TypeOK'
    BY <1>7, <2>5, <2>6 DEF ReconcileVerification, TypeInv, TypeOK
  <2>8. /\ Identified(action)'
        /\ \A v \in Workers : Identified(cache[v])' /\ Identified(worker[v].obj)'
    <3> HIDE DEF b
    <3>1. worker'[w].obj = b
      BY <2>5
    <3> QED
      BY <1>7, <2>3, <2>5, <3>1 DEF ReconcileVerification, TypeInv, Identified
  <2>9. \A v \in Workers : HoldsRequest(v)' => worker'[v].request \in Requests
    BY <2>5 DEF TypeInv, HoldsRequest
  <2> QED
    BY <2>7, <2>8, <2>9 DEF TypeInv
<1>8. CASE ReconcileVerificationResult(w)
  <2>1. PICK h \in HealthComparisons, observed \in BOOLEAN :
          Prepare(w, "complete",
                  [a EXCEPT !.effectiveness.phase = "Completed",
                            !.effectiveness.outcome =
                               evaluateEffectiveness(h, observed,
                                 verification[a.effectiveness.verificationRef])],
                  NoRequest)
    BY <1>8 DEF ReconcileVerificationResult
  <2> DEFINE o == evaluateEffectiveness(h, observed,
                    verification[a.effectiveness.verificationRef])
             b == [a EXCEPT !.effectiveness.phase = "Completed",
                            !.effectiveness.outcome = o]
  <2>2. o \in Outcomes
    BY evaluateEffectivenessType
  <2>3. b \in Actions /\ b.execution = a.execution
    <3> HIDE DEF o
    <3> QED
      BY <1>1, <2>2 DEF Actions, Effectivenesses
  <2>4. Identified(b)
    BY <1>1, <2>3 DEF Identified
  <2> QED
    BY <2>1, <2>3, <2>4, <1>8, PrepareTypeInv
    DEF Kinds, ReconcileVerificationResult
<1>9. CASE StatusUpdate(w)
  <2> DEFINE o == worker[w].obj
  <2>1. action' \in Actions /\ Identified(action)'
    <3>1. o \in Actions /\ Identified(o)
      BY <1>1 DEF WorkerStates, TypeInv
    <3>2. action' = [o EXCEPT !.resourceVersion = @ + 1]
      BY <1>9 DEF StatusUpdate
    <3> QED
      BY <3>1, <3>2 DEF Actions, Identified
  <2>2. CASE worker[w].kind = "start"
    <3>1. worker' = [worker EXCEPT ![w].pc = "execute",
                                   ![w].obj = NewAction(NoContent, "nobody")]
      BY <1>9, <2>2 DEF StatusUpdate
    <3>2. NewAction(NoContent, "nobody") \in Actions
      BY NewActionType, ContentTypes DEF Approvers
    <3>3. /\ worker' \in [Workers -> WorkerStates]
          /\ worker'[w].obj = NewAction(NoContent, "nobody")
          /\ worker'[w].request = worker[w].request
          /\ \A v \in Workers \ {w} : worker'[v] = worker[v]
      BY <3>1, <3>2 DEF TypeInv, TypeOK, WorkerStates
    <3>4. TypeOK'
      BY <1>9, <2>1, <3>3 DEF StatusUpdate, TypeInv, TypeOK, worldVars
    <3>5. \A v \in Workers : Identified(cache[v])' /\ Identified(worker[v].obj)'
      <4>1. NewAction(NoContent, "nobody").execution.state = "None"
        BY DEF NewAction
      <4> QED
        BY <1>9, <3>3, <4>1 DEF StatusUpdate, TypeInv, Identified
    <3>6. \A v \in Workers : HoldsRequest(v)' => worker'[v].request \in Requests
      <4>1. worker[w].request \in Requests
        BY <1>9, <2>2 DEF StatusUpdate, At, TypeInv, HoldsRequest
      <4> QED
        BY <3>3, <4>1 DEF TypeInv, HoldsRequest
    <3> QED
      BY <2>1, <3>4, <3>5, <3>6 DEF TypeInv
  <2>3. CASE worker[w].kind = "attempt"
    <3>1. worker' = [worker EXCEPT ![w].pc = "notify", ![w].obj = action']
      BY <1>9, <2>3 DEF StatusUpdate
    <3>2. /\ worker' \in [Workers -> WorkerStates]
          /\ worker'[w].obj = action'
          /\ worker'[w].pc = "notify"
          /\ \A v \in Workers \ {w} : worker'[v] = worker[v]
      BY <3>1, <2>1 DEF TypeInv, TypeOK, WorkerStates
    <3>3. TypeOK'
      BY <1>9, <2>1, <3>2 DEF StatusUpdate, TypeInv, TypeOK, worldVars
    <3>4. \A v \in Workers : Identified(cache[v])' /\ Identified(worker[v].obj)'
      BY <1>9, <2>1, <3>2 DEF StatusUpdate, TypeInv, Identified
    <3>5. \A v \in Workers : HoldsRequest(v)' => worker'[v].request \in Requests
      BY <3>2 DEF TypeInv, HoldsRequest
    <3> QED
      BY <2>1, <3>3, <3>4, <3>5 DEF TypeInv
  <2>4. CASE worker[w].kind \notin {"start", "attempt"}
    <3>1. Return(w)
      BY <1>9, <2>4 DEF StatusUpdate
    <3> QED
      BY <1>9, <2>1, <3>1, ReturnTypeInv DEF StatusUpdate, worldVars, TypeInv, TypeOK
  <2> QED
    BY <2>2, <2>3, <2>4
<1>10. CASE StatusConflict(w)
  BY <1>10, <1>1, ReturnTypeInv
  DEF StatusConflict, worldVars, TypeInv, TypeOK, Identified
<1>11. CASE Execute(w)
  <2> DEFINE q == worker[w].request
  <2>1. q \in Requests
    BY <1>11 DEF Execute, At, TypeInv, HoldsRequest
  <2>2. q.id \in ExecutionIDs
    BY <2>1 DEF Requests
  <2>3. calls' \in Seq(Requests)
    BY <1>11, <2>1 DEF Execute, TypeInv, TypeOK
  <2>4. effects' \in Seq(Effects)
    <3>1. [id |-> q.id, uid |-> target.uid] \in Effects
      BY <2>2 DEF Effects, TypeInv, TypeOK, Targets
    <3>2. \/ effects' = effects
          \/ effects' = Append(effects, [id |-> q.id, uid |-> target.uid])
      BY <1>11 DEF Execute
    <3> QED
      BY <3>1, <3>2 DEF TypeInv, TypeOK
  <2>5. \/ worker' = [worker EXCEPT ![w].pc = "patch"]
        \/ \E r \in {"Succeeded", "Failed"} :
             worker' = [worker EXCEPT ![w].pc = "read", ![w].result = r]
    BY <1>11 DEF Execute
  <2>6. StepOf(w)
    <3>1. PICK s \in {[worker[w] EXCEPT !.pc = "patch"]} \cup
                     {[worker[w] EXCEPT !.pc = "read", !.result = r] :
                         r \in {"Succeeded", "Failed"}} :
              worker' = [worker EXCEPT ![w] = s]
      BY <2>5
    <3>2. /\ s \in WorkerStates /\ s.obj = worker[w].obj
          /\ s.request = worker[w].request
      BY <1>1, <3>1 DEF WorkerStates
    <3> QED
      BY <2>1, <3>1, <3>2, MoveStep
  <2> QED
    BY <1>11, <2>1, <2>3, <2>4, <2>6, StepTypeInv DEF Execute, TypeInv, TypeOK
<1>12. CASE Patch(w)
  <2> DEFINE q == worker[w].request
  <2>1. q \in Requests
    BY <1>12 DEF Patch, At, TypeInv, HoldsRequest
  <2>2. q.id \in ExecutionIDs
    BY <2>1 DEF Requests
  <2>3. effects' \in Seq(Effects) /\ target' \in Targets
    <3>1. [id |-> q.id, uid |-> target.uid] \in Effects
      BY <2>2 DEF Effects, TypeInv, TypeOK, Targets
    <3>2. [target EXCEPT !.executionID = q.id] \in Targets
      BY <2>2 DEF TypeInv, TypeOK, Targets
    <3>3. \/ effects' = effects /\ target' = target
          \/ /\ effects' = Append(effects, [id |-> q.id, uid |-> target.uid])
             /\ target' = [target EXCEPT !.executionID = q.id]
      BY <1>12 DEF Patch
    <3>4. effects' \in Seq(Effects)
      <4>1. effects \in Seq(Effects)
        BY DEF TypeInv, TypeOK
      <4>2. Append(effects, [id |-> q.id, uid |-> target.uid]) \in Seq(Effects)
        BY <3>1, <4>1
      <4> QED
        BY <3>3, <4>1, <4>2
    <3>5. target' \in Targets
      BY <3>2, <3>3 DEF TypeInv, TypeOK
    <3> QED
      BY <3>4, <3>5
  <2>4. \E r \in {"Succeeded", "Unknown", "Failed"} :
          worker' = [worker EXCEPT ![w].pc = "read", ![w].result = r]
    BY <1>12 DEF Patch
  <2>5. StepOf(w)
    <3>1. PICK r \in {"Succeeded", "Unknown", "Failed"} :
              worker' = [worker EXCEPT ![w] = [worker[w] EXCEPT !.pc = "read",
                                                                !.result = r]]
      BY <2>4
    <3> DEFINE s == [worker[w] EXCEPT !.pc = "read", !.result = r]
    <3>2. /\ s \in WorkerStates /\ s.obj = worker[w].obj
          /\ s.request = worker[w].request
      BY <1>1, <3>1 DEF WorkerStates
    <3> HIDE DEF s
    <3> QED
      BY <2>1, <3>1, <3>2, MoveStep DEF s
  <2> QED
    BY <1>12, <2>1, <2>3, <2>5, StepTypeInv DEF Patch, TypeInv, TypeOK
<1>13. CASE ReadBack(w)
  <2> DEFINE id == worker[w].request.id
  <2>1. id \in ExecutionIDs
    BY <1>13 DEF ReadBack, At, TypeInv, HoldsRequest, Requests
  <2>2. /\ recordExecutionSuccess(a, id, now) \in Actions
        /\ Identified(recordExecutionSuccess(a, id, now))
    BY <1>1, <2>1, recordExecutionSuccessType, IdentifiedObjects
  <2>3. /\ RecordUnknown(a, now) \in Actions
        /\ RecordFailure(a, now) \in Actions
        /\ Identified(RecordUnknown(a, now))
        /\ Identified(RecordFailure(a, now))
    BY <1>1, <2>1, OutcomeTypes, IdentifiedObjects
  <2>4. UNCHANGED <<action, cache, worldVars>>
    BY <1>13 DEF ReadBack
  <2>5. \/ Return(w)
        \/ Prepare(w, "succeed", recordExecutionSuccess(a, id, now), NoRequest)
        \/ Prepare(w, "unknown", RecordUnknown(a, now), NoRequest)
        \/ Prepare(w, "failed", RecordFailure(a, now), NoRequest)
    BY <1>13 DEF ReadBack
  <2>6. CASE Return(w)
    BY <1>1, <2>4, <2>6, ReturnTypeInv DEF worldVars, TypeInv, TypeOK, Identified
  <2> QED
    BY <2>2, <2>3, <2>4, <2>5, <2>6, PrepareTypeInv DEF Kinds
<1>14. CASE Notify(w)
  <2> DEFINE o == worker[w].obj
  <2>1. o \in Actions /\ Identified(o) /\ worker[w].at \in Int
    BY <1>1 DEF WorkerStates, TypeInv
  <2>2. /\ Escalated(o, worker[w].at) \in Actions
        /\ Identified(Escalated(o, worker[w].at))
    BY <2>1, OutcomeTypes, PendingIdentified
  <2>3. \/ worker' = [worker EXCEPT ![w].pc = "update", ![w].kind = "escalate",
                                    ![w].obj = Escalated(o, worker[w].at)]
        \/ worker' = [worker EXCEPT ![w].pc = "update", ![w].kind = "notifyError"]
    BY <1>14 DEF Notify
  <2>4. StepOf(w)
    <3> DEFINE e == [worker[w] EXCEPT !.pc = "update", !.kind = "escalate",
                                      !.obj = Escalated(o, worker[w].at)]
               n == [worker[w] EXCEPT !.pc = "update", !.kind = "notifyError"]
    <3>1. \/ worker' = [worker EXCEPT ![w] = e]
          \/ worker' = [worker EXCEPT ![w] = n]
      BY <2>3
    <3>2. /\ e \in WorkerStates /\ e.obj = Escalated(o, worker[w].at)
          /\ e.pc = "update" /\ e.kind = "escalate"
          /\ n \in WorkerStates /\ n.obj = o
          /\ n.pc = "update" /\ n.kind = "notifyError"
      BY <1>1, <2>2 DEF WorkerStates, Kinds
    <3> HIDE DEF e, n
    <3> QED
      BY <2>1, <2>2, <3>1, <3>2, MoveStep
  <2>5. notices' \in Nat
    BY <1>14 DEF Notify, TypeInv, TypeOK
  <2> QED
    BY <1>14, <2>4, <2>5, StepTypeInv DEF Notify, TypeInv, TypeOK
<1>15. CASE Delete(w)
  <2>1. action' \in Actions /\ Identified(action)'
    <3>1. [action EXCEPT !.exists = FALSE, !.resourceVersion = @ + 1] \in Actions
      <4>1. action.resourceVersion + 1 \in Nat
        BY <1>1 DEF Actions
      <4> QED
        BY <1>1, <4>1 DEF Actions
    <3>2. [action EXCEPT !.exists = FALSE, !.resourceVersion = @ + 1].execution
            = action.execution
      BY <1>1 DEF Actions
    <3> QED
      BY <1>15, <1>1, <3>1, <3>2 DEF Delete, Identified, TypeInv
  <2> QED
    BY <1>15, <2>1, ReturnTypeInv DEF Delete, worldVars, TypeInv, TypeOK
<1> QED
  BY <1>2, <1>3, <1>4, <1>5, <1>6, <1>7, <1>8, <1>9, <1>10, <1>11, <1>12, <1>13,
     <1>14, <1>15 DEF Reconcile

LEMMA TypeInvNext == TypeInv /\ [Next]_vars => TypeInv'
<1> SUFFICES ASSUME TypeInv, [Next]_vars PROVE TypeInv'
  OBVIOUS
<1>1. /\ action \in Actions /\ Identified(action) /\ now \in Nat
      /\ action.resourceVersion + 1 \in Nat
      /\ action.generation + 1 \in Nat
  BY DEF TypeInv, TypeOK, Actions
<1>2. ASSUME NEW b \in Actions, b.execution = action.execution,
             action' = b, decisions' \in Seq(Decisions),
             UNCHANGED <<cache, worker, target, verification, calls, effects,
                         notices, now, crashes>>
      PROVE  TypeInv'
  <2>1. TypeOK'
    BY <1>2 DEF TypeInv, TypeOK
  <2>2. /\ Identified(action)'
        /\ \A v \in Workers : Identified(cache[v])' /\ Identified(worker[v].obj)'
    BY <1>2 DEF TypeInv, Identified
  <2>3. \A v \in Workers : HoldsRequest(v)' => worker'[v].request \in Requests
    BY <1>2 DEF TypeInv, HoldsRequest
  <2> QED
    BY <2>1, <2>2, <2>3 DEF TypeInv
<1>3. ASSUME TypeOK', UNCHANGED <<action, cache, worker>>
      PROVE  TypeInv'
  BY <1>3 DEF TypeInv, Identified, HoldsRequest
<1>4. ASSUME NEW w \in Workers, Reconcile(w) PROVE TypeInv'
  BY <1>4, ReconcileTypeInv
<1>5. ASSUME NEW w \in Workers, CacheSync(w) PROVE TypeInv'
  <2>1. TypeOK'
    BY <1>5 DEF CacheSync, TypeInv, TypeOK, worldVars
  <2>2. /\ Identified(action)'
        /\ \A v \in Workers : Identified(cache[v])' /\ Identified(worker[v].obj)'
    BY <1>5 DEF CacheSync, TypeInv, TypeOK, Identified
  <2>3. \A v \in Workers : HoldsRequest(v)' => worker'[v].request \in Requests
    BY <1>5 DEF CacheSync, TypeInv, HoldsRequest
  <2> QED
    BY <2>1, <2>2, <2>3 DEF TypeInv
<1>6. ASSUME NEW w \in Workers, Crash(w) PROVE TypeInv'
  BY <1>6, <1>1, ReturnTypeInv DEF Crash, TypeInv, TypeOK, Identified
<1>7. ASSUME NEW c \in Contents, NEW by \in {"nobody", "reviewer"},
             CreateDirectly(c, by)
      PROVE  TypeInv'
  <2>1. NewAction(c, by) \in Actions
    BY NewActionType DEF Approvers
  <2>2. NewAction(c, by).execution.state = "None"
    BY DEF NewAction
  <2>3. TypeOK'
    BY <1>7, <2>1 DEF CreateDirectly, TypeInv, TypeOK
  <2>4. /\ Identified(action)'
        /\ \A v \in Workers : Identified(cache[v])' /\ Identified(worker[v].obj)'
    BY <1>7, <2>2 DEF CreateDirectly, TypeInv, Identified
  <2>5. \A v \in Workers : HoldsRequest(v)' => worker'[v].request \in Requests
    BY <1>7 DEF CreateDirectly, TypeInv, HoldsRequest
  <2> QED
    BY <2>3, <2>4, <2>5 DEF TypeInv
<1>8. ASSUME NEW by \in {"nobody", "reviewer"}, SetApprovedBy(by) PROVE TypeInv'
  <2> DEFINE b == [[action EXCEPT !.approvedBy = by, !.generation = @ + 1]
                      EXCEPT !.resourceVersion = @ + 1]
  <2>1. b \in Actions /\ b.execution = action.execution
    BY <1>1 DEF Actions, Approvers
  <2>2. action' = b
    BY <1>8 DEF SetApprovedBy, Written
  <2> HIDE DEF b
  <2> QED
    BY <1>2, <1>8, <2>1, <2>2 DEF SetApprovedBy, TypeInv, TypeOK
<1>9. ASSUME NEW c \in Contents, EditContent(c) PROVE TypeInv'
  <2> DEFINE b == [[action EXCEPT !.content = c, !.generation = @ + 1]
                      EXCEPT !.resourceVersion = @ + 1]
  <2>1. b \in Actions /\ b.execution = action.execution
    BY <1>1 DEF Actions
  <2>2. action' = b
    BY <1>9 DEF EditContent, Written
  <2> HIDE DEF b
  <2> QED
    BY <1>2, <1>9, <2>1, <2>2 DEF EditContent, TypeInv, TypeOK, worldVars
<1>10. ASSUME Retain PROVE TypeInv'
  <2> DEFINE b == [[action EXCEPT !.retain = TRUE] EXCEPT !.resourceVersion = @ + 1]
  <2>1. b \in Actions /\ b.execution = action.execution
    BY <1>1 DEF Actions
  <2>2. action' = b
    BY <1>10 DEF Retain, Written
  <2> HIDE DEF b
  <2> QED
    BY <1>2, <1>10, <2>1, <2>2 DEF Retain, TypeInv, TypeOK, worldVars
<1>11. ASSUME NEW uid \in TargetChanges, TargetReplaced(uid) PROVE TypeInv'
  <2>1. [uid |-> uid, executionID |-> NoID] \in Targets
    BY ConstantsAssumption DEF Targets, UIDs
  <2> QED
    BY <1>3, <1>11, <2>1 DEF TargetReplaced, TypeInv, TypeOK
<1>12. ASSUME NEW id \in DOMAIN verification, NEW o \in VerificationOutcomes,
              VerificationFinishes(id, o)
       PROVE  TypeInv'
  BY <1>3, <1>12 DEF VerificationFinishes, TypeInv, TypeOK
<1>13. ASSUME Tick PROVE TypeInv'
  BY <1>3, <1>13 DEF Tick, TypeInv, TypeOK
<1>14. ASSUME NEW c \in Contents, NEW auto \in BOOLEAN, Generate(c, auto)
       PROVE  TypeInv'
  <2>1. Generated(action, c, auto) \in Actions
    BY <1>1, GeneratedType
  <2>2. TypeOK'
    BY <1>14, <2>1 DEF Generate, TypeInv, TypeOK, worldVars
  <2>3. Identified(action')
    BY <1>14, <1>1 DEF Generate, Generated, Identified, NewAction, Actions
  <2>4. /\ Identified(action)'
        /\ \A v \in Workers : Identified(cache[v])' /\ Identified(worker[v].obj)'
    BY <1>14, <2>3 DEF Generate, TypeInv, Identified
  <2>5. \A v \in Workers : HoldsRequest(v)' => worker'[v].request \in Requests
    BY <1>14 DEF Generate, TypeInv, HoldsRequest
  <2> QED
    BY <2>2, <2>4, <2>5 DEF TypeInv
<1>15. ASSUME NEW d \in Decisions, NEW crd \in PolicyObjects, Decide(d, crd)
       PROVE  TypeInv'
  <2> DEFINE b == Decided(action, d, crd, Len(decisions) + 1, now)
  <2>1. Len(decisions) + 1 \in Nat /\ crd \in BOOLEAN
    BY ConstantsAssumption DEF TypeInv, TypeOK
  <2>2. b \in Actions
    BY <1>1, <2>1, DecidedType
  <2>3. b.execution = action.execution
    BY <1>1 DEF Decided, SetPhase, Decisions, Actions
  <2>4. action' = [b EXCEPT !.resourceVersion = @ + 1]
    BY <1>15 DEF Decide, Written
  <2>5. decisions' \in Seq(Decisions)
    BY <1>15 DEF Decide, TypeInv, TypeOK
  <2> HIDE DEF b
  <2>6. action' \in Actions /\ action'.execution = action.execution
    BY <2>2, <2>3, <2>4 DEF Actions
  <2> QED
    BY <1>2, <1>15, <2>5, <2>6 DEF Decide
<1>16. ASSUME CollectGarbage PROVE TypeInv'
  <2> DEFINE b == [[action EXCEPT !.exists = FALSE] EXCEPT !.resourceVersion = @ + 1]
  <2>1. b \in Actions /\ b.execution = action.execution
    BY <1>1 DEF Actions
  <2>2. action' = b
    BY <1>16 DEF CollectGarbage, Written
  <2> HIDE DEF b
  <2> QED
    BY <1>2, <1>16, <2>1, <2>2 DEF CollectGarbage, TypeInv, TypeOK, worldVars
<1>17. CASE UNCHANGED vars
  BY <1>3, <1>17 DEF vars, TypeInv, TypeOK
<1> QED
  BY <1>4, <1>5, <1>6, <1>7, <1>8, <1>9, <1>10, <1>11, <1>12, <1>13, <1>14,
     <1>15, <1>16, <1>17, ContentTypes DEF Next, Replica, Users, World, Plan

LEMMA TypeInvAlways == Spec => []TypeInv
BY TypeInvInit, TypeInvNext, PTL DEF Spec

\* Every variable always holds a value of its type.
THEOREM TypeCorrect == Spec => []TypeOK
<1>1. TypeInv => TypeOK
  BY DEF TypeInv
<1> QED
  BY <1>1, TypeInvAlways, PTL

-----------------------------------------------------------------------------
(* Authority.                                                              *)

\* The decisions made so far are kept.
Extended ==
    /\ Len(decisions) <= Len(decisions)'
    /\ \A n \in 1 .. Len(decisions) : decisions'[n] = decisions[n]

\* A record that goes back to a decision still does when more are made.
LEMMA RecordMonotone ==
    ASSUME decisions \in Seq(Decisions), decisions' \in Seq(Decisions), Extended,
           NEW a \in Actions, RecordSound(a)
    PROVE  /\ a.approval.decidedAt \in 0 .. Len(decisions)'
           /\ a.approval.source = "ManualApprovalRequired" =>
                 /\ a.approval.decidedAt # 0
                 /\ decisions'[a.approval.decidedAt] = "manual"
                 /\ a.approval.digest \in PlanContents[decisions'[a.approval.decidedAt]]
           /\ a.approval.approved =>
                 /\ a.approval.decidedAt # 0
                 /\ a.approval.digest \in PlanContents[decisions'[a.approval.decidedAt]]
                 /\ \/ decisions'[a.approval.decidedAt] = "auto"
                    \/ /\ decisions'[a.approval.decidedAt] = "manual"
                       /\ a.approval.approvedBy # "nobody"
<1>1. a.approval.decidedAt \in Nat /\ a.approval.approved \in BOOLEAN
  BY DEF Actions, Approvals
<1> QED
  BY <1>1 DEF RecordSound, Extended

LEMMA AuthorityMonotone ==
    ASSUME decisions \in Seq(Decisions), decisions' \in Seq(Decisions), Extended,
           NEW q \in Requests, Authorised(q)
    PROVE  /\ q.decidedAt \in 1 .. Len(decisions)'
           /\ q.id.digest \in PlanContents[decisions'[q.decidedAt]]
           /\ \/ decisions'[q.decidedAt] = "auto"
              \/ decisions'[q.decidedAt] = "manual" /\ q.approvedBy # "nobody"
BY DEF Authorised, Extended, Requests

-----------------------------------------------------------------------------
(***************************************************************************)
(* The steps that start no dispatch: at most one new version of the        *)
(* object, which revives nothing, and at most a Reconcile moving on.       *)
(***************************************************************************)
\* The next version of the object keeps what DispatchInv says of it.
NextVersion ==
    /\ action'.resourceVersion = action.resourceVersion + 1
    /\ RecordSound(action)'
    /\ Used(action'.approval.decidedAt) => Consumed(action')
    /\ action.execution.id # NoID => action'.execution.id # NoID

\* A new version or none, and whatever the Reconciles do: the server's object,
\* the caches and the Reconciles that do not move stay sound.
LEMMA VersionStep ==
    ASSUME TypeInv, TypeInv', DispatchInv, Extended,
           cache' = cache, action' = action \/ NextVersion
    PROVE  /\ \A v \in Workers : CacheCoherent(v)' /\ RecordSound(cache[v])'
           /\ RecordSound(action)'
           /\ \A v \in Workers : worker'[v] = worker[v] => WorkerSound(v)'
           /\ action'.resourceVersion = 0 => action'.execution.id = NoID
<1>1. /\ action \in Actions /\ action' \in Actions
      /\ \A v \in Workers : /\ cache[v] \in Actions
                            /\ worker[v] \in WorkerStates
                            /\ worker[v].obj \in Actions
      /\ decisions \in Seq(Decisions) /\ decisions' \in Seq(Decisions)
      /\ calls \in Seq(Requests)
  BY DEF TypeInv, TypeOK, WorkerStates
<1>2. /\ action.resourceVersion \in Nat
      /\ \A v \in Workers : /\ cache[v].resourceVersion \in Nat
                            /\ worker[v].obj.resourceVersion \in Nat
  BY <1>1 DEF Actions
<1>3. \A v \in Workers : CacheCoherent(v)'
  BY <1>2 DEF DispatchInv, CacheCoherent, NextVersion
<1>4. ASSUME NEW v \in Workers PROVE RecordSound(cache[v])'
  <2>1. RecordSound(cache[v])
    BY DEF DispatchInv
  <2> QED
    BY <1>1, <2>1, RecordMonotone DEF RecordSound
<1>5. RecordSound(action)'
  <2>1. CASE action' = action
    BY <1>1, <2>1, RecordMonotone DEF RecordSound, DispatchInv
  <2> QED
    BY <2>1 DEF NextVersion
<1>6. ASSUME NEW v \in Workers, worker'[v] = worker[v] PROVE WorkerSound(v)'
  <2>1. WorkerSound(v)
    BY DEF DispatchInv
  <2>2. RecordSound(worker[v].obj)'
    BY <1>1, <1>6, <2>1, RecordMonotone DEF RecordSound, WorkerSound
  <2>3. worker'[v].pc \in {"update", "notify"} => WriteSound(v)'
    <3>1. CASE action' = action
      BY <1>6, <2>1, <3>1 DEF WorkerSound, WriteSound, At, Consumed, Terminal, InFlight
    <3>2. CASE NextVersion
      BY <1>2, <1>6, <2>1, <3>2 DEF WorkerSound, WriteSound, NextVersion
    <3> QED
      BY <3>1, <3>2
  <2>4. HoldsRequest(v) => worker[v].request \in Requests
    BY DEF TypeInv
  <2>5. At(v, "execute") \/ (At(v, "update") /\ worker[v].kind = "start")
          => Authorised(worker[v].request)'
    <3>1. SUFFICES ASSUME At(v, "execute") \/ (At(v, "update") /\ worker[v].kind = "start")
                   PROVE  Authorised(worker[v].request)'
      OBVIOUS
    <3>2. Authorised(worker[v].request) /\ worker[v].request \in Requests
      BY <2>1, <2>4, <3>1 DEF WorkerSound, HoldsRequest, At
    <3> QED
      BY <1>1, <1>6, <3>2, AuthorityMonotone DEF Authorised
  <2>6. action.execution.id # NoID => action'.execution.id # NoID
    BY DEF NextVersion
  <2>7. (Notifying(v) => ~ Consumed(worker[v].obj))'
    BY <1>6, <2>1 DEF WorkerSound, Notifying, At, Consumed, Terminal, InFlight
  <2> QED
    BY <1>6, <2>1, <2>2, <2>3, <2>5, <2>6, <2>7 DEF WorkerSound, At
<1>7. action'.resourceVersion = 0 => action'.execution.id = NoID
  BY <1>2 DEF NextVersion, DispatchInv
<1> QED
  BY <1>3, <1>4, <1>5, <1>6, <1>7

\* The calls already made keep their authority.
LEMMA CallsAuthorised ==
    ASSUME TypeInv, TypeInv', DispatchInv, Extended
    PROVE  \A i \in 1 .. Len(calls) : /\ calls[i].decidedAt \in 1 .. Len(decisions)'
                                      /\ calls[i].id.digest \in PlanContents[decisions'[calls[i].decidedAt]]
                                      /\ \/ decisions'[calls[i].decidedAt] = "auto"
                                         \/ /\ decisions'[calls[i].decidedAt] = "manual"
                                            /\ calls[i].approvedBy # "nobody"
<1> SUFFICES ASSUME NEW i \in 1 .. Len(calls)
             PROVE  /\ calls[i].decidedAt \in 1 .. Len(decisions)'
                    /\ calls[i].id.digest \in PlanContents[decisions'[calls[i].decidedAt]]
                    /\ \/ decisions'[calls[i].decidedAt] = "auto"
                       \/ /\ decisions'[calls[i].decidedAt] = "manual"
                          /\ calls[i].approvedBy # "nobody"
  OBVIOUS
<1>1. /\ decisions \in Seq(Decisions) /\ decisions' \in Seq(Decisions)
      /\ Authorised(calls[i]) /\ calls[i] \in Requests
  BY DEF TypeInv, TypeOK, DispatchInv, DispatchAuthorised
<1> QED
  BY <1>1, AuthorityMonotone

LEMMA QuietStep ==
    ASSUME TypeInv, TypeInv', DispatchInv, Extended,
           cache' = cache, calls' = calls,
           action' = action \/ NextVersion,
           \A v \in Workers :
              \/ worker'[v] = worker[v]
              \/ worker'[v].pc # "execute" /\ WorkerSound(v)'
    PROVE  DispatchInv'
<1>1. /\ \A v \in Workers : CacheCoherent(v)' /\ RecordSound(cache[v])'
      /\ RecordSound(action)'
      /\ \A v \in Workers : WorkerSound(v)'
      /\ action'.resourceVersion = 0 => action'.execution.id = NoID
  BY VersionStep
<1>2. ASSUME NEW v \in Workers, At(v, "execute")'
      PROVE  At(v, "execute") /\ worker'[v] = worker[v]
  BY <1>2 DEF At
<1>3. Used(action.approval.decidedAt)' => Used(action'.approval.decidedAt)
  BY <1>2 DEF Used
<1>4. (Used(action.approval.decidedAt) => Consumed(action))'
  <2>1. CASE action' = action
    BY <1>3, <2>1 DEF DispatchInv, Consumed, Terminal, InFlight
  <2>2. CASE NextVersion
    BY <1>3, <2>2 DEF NextVersion, Consumed, Terminal, InFlight
  <2> QED
    BY <2>1, <2>2
<1>5. DispatchAuthorised'
  BY CallsAuthorised DEF DispatchAuthorised, Authorised
<1>6. UsesDistinct'
  BY <1>2 DEF DispatchInv, UsesDistinct, DispatchOncePerDecision
<1> QED
  BY <1>1, <1>4, <1>5, <1>6 DEF DispatchInv

-----------------------------------------------------------------------------
(***************************************************************************)
(* What the objects that the controllers build keep of the one they read.  *)
(***************************************************************************)
StartKept(a, s) ==
    /\ s.resourceVersion = a.resourceVersion
    /\ s.phase = "Executing"
    /\ s.execution.id = BuildExecutionIdentity(a)
    /\ s.approval.digest = a.approval.digest
    /\ s.approval.decidedAt = a.approval.decidedAt
    /\ s.approval.approvedBy = IF a.approval.approved
                               THEN a.approval.approvedBy
                               ELSE a.approvedBy
    /\ s.approval.source \in {"ManualApprovalConfirmed", a.approval.source}
    /\ ~ a.approval.approved => s.approval.source = "ManualApprovalConfirmed"

LEMMA StartedKeeps ==
    ASSUME NEW a \in Actions, NEW b \in BOOLEAN, NEW at
    PROVE  StartKept(a, Started(a, b, at))
BY DEF StartKept, Started, SetPhase, Actions, Approvals

LEMMA OutcomesKeep ==
    ASSUME NEW a \in Actions, NEW id, NEW at
    PROVE  /\ LET f == failBeforeDispatch(a, id, at) IN
              /\ f.resourceVersion = a.resourceVersion
              /\ f.phase = "Failed"
              /\ f.execution.id = id
              /\ f.approval = a.approval
           /\ LET s == recordExecutionSuccess(a, id, at) IN
              /\ s.resourceVersion = a.resourceVersion
              /\ s.phase = "Succeeded"
              /\ s.execution.id = id
              /\ s.approval = a.approval
           /\ LET u == RecordUnknown(a, at) IN
              /\ u.resourceVersion = a.resourceVersion
              /\ u.phase = "Executing"
              /\ u.execution.id = a.execution.id
              /\ u.approval = a.approval
           /\ LET f == RecordFailure(a, at) IN
              /\ f.resourceVersion = a.resourceVersion
              /\ f.phase = "Failed"
              /\ f.execution.id = a.execution.id
              /\ f.approval = a.approval
BY DEF failBeforeDispatch, recordExecutionSuccess, RecordUnknown, RecordFailure,
       SetPhase, Actions, Executions

LEMMA PendingKeeps ==
    ASSUME NEW a \in Actions, NEW at
    PROVE  /\ LET p == ResetPending(a, at) IN
              /\ p.resourceVersion = a.resourceVersion
              /\ p.execution = a.execution
              /\ p.approval.decidedAt = 0
              /\ ~ p.approval.approved
              /\ p.approval.source = "Pending"
           /\ LET e == Escalated(a, at) IN
              /\ e.resourceVersion = a.resourceVersion
              /\ e.execution = a.execution
              /\ e.phase = "Escalated"
              /\ e.approval = [a.approval EXCEPT !.escalated = TRUE]
BY DEF ResetPending, Escalated, NoApproval, SetPhase, Actions

\* RecordSound looks at the approval record only, and not at escalated.
LEMMA SameRecord ==
    ASSUME NEW a, NEW b, RecordSound(a),
           \/ b.approval = a.approval
           \/ /\ a.approval \in Approvals
              /\ b.approval = [a.approval EXCEPT !.escalated = TRUE]
    PROVE  RecordSound(b)
BY DEF RecordSound, Approvals

LEMMA IdleSound ==
    ASSUME decisions \in Seq(Decisions), NEW a, a.approval = NoApproval
    PROVE  RecordSound(a)
BY DEF RecordSound, NoApproval

\* A Reconcile ends.
LEMMA ReturnSound ==
    ASSUME TypeInv, TypeInv', NEW w \in Workers, Return(w)
    PROVE  \A v \in Workers :
              \/ worker'[v] = worker[v]
              \/ worker'[v].pc # "execute" /\ WorkerSound(v)'
<1>1. worker'[w] = Idle /\ \A v \in Workers \ {w} : worker'[v] = worker[v]
  BY ReturnType DEF TypeInv
<1>2. RecordSound(worker[w].obj)'
  <2>1. (worker[w].obj.approval = NoApproval)'
    BY <1>1, IdleFacts DEF NoApproval
  <2> QED
    BY <2>1 DEF RecordSound, NoApproval, TypeInv, TypeOK
<1>3. worker'[w].pc = "idle"
  BY <1>1, IdleFacts
<1>4. WorkerSound(w)'
  BY <1>2, <1>3 DEF WorkerSound, Notifying, At
<1> QED
  BY <1>1, <1>3, <1>4

\* A Reconcile prepares a write on the object it has read; when that is still
\* the current version, the write revives nothing.
LEMMA PrepareSound ==
    ASSUME TypeInv, TypeInv', DispatchInv, NEW w \in Workers, NEW k \in Kinds,
           NEW obj \in Actions, NEW q \in Requests \cup {NoRequest},
           Prepare(w, k, obj, q), UNCHANGED <<action, cache, calls, decisions>>,
           RecordSound(obj), obj.resourceVersion = cache[w].resourceVersion,
           cache[w] = action =>
             /\ obj.approval.decidedAt \in {0, action.approval.decidedAt}
             /\ Consumed(action) => Consumed(obj)
             /\ action.execution.id # NoID => obj.execution.id # NoID,
           k = "attempt" => ~ Consumed(obj),
           k = "start" =>
             /\ Authorised(q)
             /\ ~ Consumed(cache[w]) /\ Consumed(obj)
             /\ obj.execution.id # NoID
             /\ obj.approval.decidedAt = q.decidedAt
             /\ cache[w].approval.decidedAt = q.decidedAt
    PROVE  DispatchInv'
<1>1. /\ worker'[w].pc = "update" /\ worker'[w].kind = k
      /\ worker'[w].obj = obj /\ worker'[w].request = q
      /\ \A v \in Workers \ {w} : worker'[v] = worker[v]
  <2>1. TypeOK
    BY DEF TypeInv
  <2>2. /\ worker'[w] = [pc |-> "update", kind |-> k, obj |-> obj,
                         request |-> q, result |-> "None",
                         at |-> IF k = "attempt" THEN now ELSE Never]
        /\ \A v \in Workers \ {w} : worker'[v] = worker[v]
    BY <2>1, PrepareType
  <2> QED
    BY <2>2
<1>2. RecordSound(worker[w].obj)'
  BY <1>1 DEF RecordSound
<1>3. CacheCoherent(w)
  BY DEF DispatchInv
<1>4. WriteSound(w)'
  <2>1. obj.resourceVersion <= action.resourceVersion
    BY <1>3 DEF CacheCoherent
  <2>2. obj.resourceVersion = action.resourceVersion => cache[w] = action
    BY <1>3 DEF CacheCoherent
  <2> QED
    BY <1>1, <2>1, <2>2 DEF WriteSound, At, Consumed, Terminal, InFlight
<1>5. (At(w, "update") /\ worker[w].kind = "start" => Authorised(worker[w].request))'
  BY <1>1 DEF At, Authorised
<1>6. (Notifying(w) => ~ Consumed(worker[w].obj))'
  BY <1>1 DEF Notifying, At, Consumed, Terminal, InFlight
<1>7. WorkerSound(w)'
  BY <1>1, <1>2, <1>4, <1>5, <1>6 DEF WorkerSound, At
<1>8. Extended
  BY DEF Extended, TypeInv, TypeOK
<1> QED
  BY <1>1, <1>7, <1>8, QuietStep

-----------------------------------------------------------------------------
(***************************************************************************)
(* The steps of a Reconcile.                                               *)
(***************************************************************************)
\* The dispatch that a Reconcile starts from an approved object has authority.
LEMMA RequestAuthorised ==
    ASSUME decisions \in Seq(Decisions), NEW a \in Actions, RecordSound(a),
           isAgentActionApproved(a)
    PROVE  /\ Authorised(ExecutionRequest(a))
           /\ ExecutionRequest(a).decidedAt = a.approval.decidedAt
           /\ \A b \in BOOLEAN : RecordSound(Started(a, b, now))
<1>1. /\ a.approval.decidedAt \in Nat /\ a.approval.approved \in BOOLEAN
      /\ a.content = a.approval.digest
      /\ ~ a.approval.approved =>
            a.approval.source = "ManualApprovalRequired" /\ a.approvedBy # "nobody"
  BY DEF Actions, Approvals, isAgentActionApproved, agentActionSpecDigest
<1>2. ExecutionRequest(a) = [id |-> BuildExecutionIdentity(a),
                             decidedAt |-> a.approval.decidedAt,
                             approvedBy |-> IF a.approval.approved
                                            THEN a.approval.approvedBy
                                            ELSE a.approvedBy]
  <2>1. StartKept(a, Started(a, FALSE, now))
    BY StartedKeeps
  <2> QED
    BY <2>1 DEF ExecutionRequest, StartKept
<1>3. /\ ExecutionRequest(a).id.digest = a.content
      /\ ExecutionRequest(a).decidedAt = a.approval.decidedAt
      /\ ExecutionRequest(a).approvedBy = IF a.approval.approved
                                          THEN a.approval.approvedBy
                                          ELSE a.approvedBy
  BY <1>2, IdentityType
<1>4. Authorised(ExecutionRequest(a))
  BY <1>1, <1>3 DEF Authorised, RecordSound
<1>5. ASSUME NEW b \in BOOLEAN PROVE RecordSound(Started(a, b, now))
  <2> DEFINE s == Started(a, b, now)
  <2>1. /\ s.approval.digest = a.approval.digest
        /\ s.approval.decidedAt = a.approval.decidedAt
        /\ s.approval.approvedBy = IF a.approval.approved
                                   THEN a.approval.approvedBy ELSE a.approvedBy
        /\ s.approval.source \in {"ManualApprovalConfirmed", a.approval.source}
        /\ ~ a.approval.approved => s.approval.source = "ManualApprovalConfirmed"
    <3>1. StartKept(a, s)
      BY StartedKeeps
    <3> HIDE DEF s
    <3> QED
      BY <3>1 DEF StartKept
  <2>2. RecordSound(s)
    <3> HIDE DEF s
    <3> QED
      BY <1>1, <2>1 DEF RecordSound
  <2> QED
    BY <2>2
<1> QED
  BY <1>3, <1>4, <1>5

LEMMA ReconcileApprovedInv ==
    ASSUME TypeInv, TypeInv', DispatchInv, NEW w \in Workers, ReconcileApproved(w)
    PROVE  DispatchInv'
<1> DEFINE a == cache[w]
           q == ExecutionRequest(a)
<1>1. /\ a \in Actions /\ now \in Int /\ decisions \in Seq(Decisions)
      /\ RecordSound(a) /\ CacheCoherent(w)
      /\ UNCHANGED <<action, cache, calls, decisions>>
  BY DEF TypeInv, TypeOK, DispatchInv, ReconcileApproved, worldVars
<1>2. ~ Consumed(a) /\ isAgentActionApproved(a)
  BY DEF ReconcileApproved, Reads, Branch, Consumed
<1>3. /\ Authorised(q) /\ q.decidedAt = a.approval.decidedAt
      /\ \A b \in BOOLEAN : RecordSound(Started(a, b, now))
  BY <1>1, <1>2, RequestAuthorised
<1>4. q \in Requests /\ q.id \in ExecutionIDs
  <2>1. Started(a, FALSE, now) \in Actions
    BY <1>1, StartedType
  <2> QED
    BY <2>1, <1>1, IdentityType DEF ExecutionRequest, Requests, Actions, Approvals
<1>5. q.id # NoID /\ q.id = BuildExecutionIdentity(a)
  BY <1>4, ConstantsAssumption DEF ExecutionRequest
<1>6. PICK r \in BaselineResults(a.content) :
        CASE r \in {"found", "none"} -> Prepare(w, "start", Started(a, r = "found", now), q)
          [] r = "captureError" ->
               Prepare(w, "failBeforeDispatch",
                       failBeforeDispatch(a, q.id, now), NoRequest)
          [] r = "evidenceError" ->
               Prepare(w, "failBeforeDispatch",
                       failBeforeDispatch(Started(a, FALSE, now), q.id, now), NoRequest)
  BY DEF ReconcileApproved
<1>7. r \in {"found", "none", "captureError", "evidenceError"}
  BY <1>6 DEF BaselineResults
<1> HIDE DEF q
<1>8. CASE r \in {"found", "none"}
  <2> DEFINE s == Started(a, r = "found", now)
  <2>1. Prepare(w, "start", s, q)
    BY <1>6, <1>8
  <2>2. /\ s \in Actions /\ RecordSound(s)
        /\ s.resourceVersion = a.resourceVersion
        /\ s.phase = "Executing"
        /\ s.execution.id = q.id
        /\ s.approval.decidedAt = a.approval.decidedAt
    <3>1. (r = "found") \in BOOLEAN
      OBVIOUS
    <3>2. s \in Actions /\ RecordSound(s) /\ StartKept(a, s)
      BY <1>1, <1>3, <3>1, StartedType, StartedKeeps
    <3> HIDE DEF s
    <3> QED
      BY <1>5, <3>2 DEF StartKept
  <2> HIDE DEF s
  <2>3. Consumed(s)
    BY <1>5, <2>2 DEF Consumed, InFlight
  <2> QED
    BY <1>1, <1>2, <1>3, <1>4, <1>5, <2>1, <2>2, <2>3, PrepareSound DEF Kinds
<1>9. CASE r = "captureError"
  <2> DEFINE s == failBeforeDispatch(a, q.id, now)
  <2>1. Prepare(w, "failBeforeDispatch", s, NoRequest)
    BY <1>6, <1>9
  <2>2. /\ s \in Actions
        /\ s.resourceVersion = a.resourceVersion
        /\ s.phase = "Failed"
        /\ s.execution.id = q.id
        /\ s.approval = a.approval
    BY <1>1, <1>4, failBeforeDispatchType, OutcomesKeep
  <2> HIDE DEF s
  <2>3. Consumed(s) /\ RecordSound(s)
    BY <1>1, <2>2, SameRecord DEF Consumed, Terminal, TerminalPhases
  <2> QED
    BY <1>1, <1>5, <2>1, <2>2, <2>3, PrepareSound DEF Kinds
<1>10. CASE r = "evidenceError"
  <2> DEFINE t == Started(a, FALSE, now)
             s == failBeforeDispatch(t, q.id, now)
  <2>1. Prepare(w, "failBeforeDispatch", s, NoRequest)
    BY <1>6, <1>10
  <2>2. /\ t \in Actions /\ RecordSound(t)
        /\ t.resourceVersion = a.resourceVersion
        /\ t.approval.decidedAt = a.approval.decidedAt
    <3>1. t \in Actions /\ RecordSound(t) /\ StartKept(a, t)
      BY <1>1, <1>3, StartedType, StartedKeeps
    <3> HIDE DEF t
    <3> QED
      BY <3>1 DEF StartKept
  <2> HIDE DEF t
  <2>3. /\ s \in Actions
        /\ s.resourceVersion = t.resourceVersion
        /\ s.phase = "Failed"
        /\ s.execution.id = q.id
        /\ s.approval = t.approval
    BY <1>1, <1>4, <2>2, failBeforeDispatchType, OutcomesKeep
  <2> HIDE DEF s
  <2>4. Consumed(s) /\ RecordSound(s)
    BY <2>2, <2>3, SameRecord DEF Consumed, Terminal, TerminalPhases
  <2> QED
    BY <1>1, <1>5, <2>1, <2>2, <2>3, <2>4, PrepareSound DEF Kinds
<1> QED
  BY <1>7, <1>8, <1>9, <1>10

LEMMA ReconcileInFlightInv ==
    ASSUME TypeInv, TypeInv', DispatchInv, NEW w \in Workers, ReconcileInFlight(w)
    PROVE  DispatchInv'
<1> DEFINE a == cache[w]
           id == a.execution.id
           s == recordExecutionSuccess(a, id, now)
<1>1. /\ a \in Actions /\ now \in Int /\ RecordSound(a)
      /\ UNCHANGED <<action, cache, calls, decisions>>
      /\ Prepare(w, "succeed", s, NoRequest)
  BY DEF TypeInv, TypeOK, DispatchInv, ReconcileInFlight, worldVars
<1>2. id \in ExecutionIDs /\ id # NoID
  <2>1. InFlight(a)
    BY DEF ReconcileInFlight, Reads, Branch
  <2> QED
    BY <1>1, <2>1 DEF InFlight, Actions, Executions
<1>3. /\ s \in Actions
      /\ s.resourceVersion = a.resourceVersion
      /\ s.phase = "Succeeded"
      /\ s.execution.id = id
      /\ s.approval = a.approval
  BY <1>1, <1>2, recordExecutionSuccessType, OutcomesKeep
<1> HIDE DEF s
<1>4. Consumed(s) /\ RecordSound(s)
  BY <1>1, <1>3, SameRecord DEF Consumed, Terminal, TerminalPhases
<1> QED
  BY <1>1, <1>2, <1>3, <1>4, PrepareSound DEF Kinds

LEMMA ReconcilePendingInv ==
    ASSUME TypeInv, TypeInv', DispatchInv, NEW w \in Workers, ReconcilePending(w)
    PROVE  DispatchInv'
<1> DEFINE a == cache[w]
           s == ResetPending(a, now)
<1>1. /\ a \in Actions /\ now \in Int /\ decisions \in Seq(Decisions)
      /\ UNCHANGED <<action, cache, calls, decisions>>
      /\ Prepare(w, "pending", s, NoRequest)
  BY DEF TypeInv, TypeOK, ReconcilePending, worldVars
<1>2. ~ Consumed(a)
  BY DEF ReconcilePending, Reads, Branch, Consumed
<1>3. /\ s \in Actions
      /\ s.resourceVersion = a.resourceVersion
      /\ s.execution = a.execution
      /\ s.approval.decidedAt = 0
      /\ ~ s.approval.approved
      /\ s.approval.source = "Pending"
  BY <1>1, OutcomeTypes, PendingKeeps
<1> HIDE DEF s
<1>4. RecordSound(s)
  BY <1>1, <1>3 DEF RecordSound
<1> QED
  BY <1>1, <1>2, <1>3, <1>4, PrepareSound DEF Kinds

LEMMA ReconcileApprovalTimeoutInv ==
    ASSUME TypeInv, TypeInv', DispatchInv, NEW w \in Workers,
           ReconcileApprovalTimeout(w)
    PROVE  DispatchInv'
<1> DEFINE a == cache[w]
           b == [a EXCEPT !.retryCount = @ + 1]
           e == Escalated(a, now)
<1>1. /\ a \in Actions /\ now \in Int /\ RecordSound(a)
      /\ UNCHANGED <<action, cache, calls, decisions>>
  BY DEF TypeInv, TypeOK, DispatchInv, ReconcileApprovalTimeout, worldVars
<1>2. ~ Consumed(a)
  BY DEF ReconcileApprovalTimeout, Reads, Branch, Consumed
<1>3. \/ Prepare(w, "attempt", b, NoRequest)
      \/ Prepare(w, "escalate", e, NoRequest)
  BY DEF ReconcileApprovalTimeout
<1>4. /\ b \in Actions
      /\ b.resourceVersion = a.resourceVersion
      /\ b.phase = a.phase
      /\ b.execution = a.execution
      /\ b.approval = a.approval
  BY <1>1 DEF Actions
<1>5. /\ e \in Actions
      /\ e.resourceVersion = a.resourceVersion
      /\ e.execution = a.execution
      /\ e.approval = [a.approval EXCEPT !.escalated = TRUE]
  BY <1>1, OutcomeTypes, PendingKeeps
<1> HIDE DEF b, e
<1>6. a.approval \in Approvals
  BY <1>1 DEF Actions
<1>7. RecordSound(b) /\ RecordSound(e)
  BY <1>1, <1>4, <1>5, <1>6, SameRecord
<1>8. e.approval.decidedAt = a.approval.decidedAt
  BY <1>5, <1>6 DEF Approvals
<1>9. ~ Consumed(b)
  BY <1>2, <1>4 DEF Consumed, Terminal, InFlight
<1> QED
  BY <1>1, <1>2, <1>3, <1>4, <1>5, <1>7, <1>8, <1>9, PrepareSound DEF Kinds

\* A write that changes neither the approval, nor the execution, nor the phase.
LEMMA SameLifecycle ==
    ASSUME TypeInv, TypeInv', DispatchInv, NEW w \in Workers, NEW k \in Kinds,
           k \notin {"start", "attempt"}, NEW b \in Actions, Prepare(w, k, b, NoRequest),
           b.resourceVersion = cache[w].resourceVersion,
           b.approval = cache[w].approval, b.execution = cache[w].execution,
           b.phase = cache[w].phase,
           UNCHANGED <<action, cache, calls, decisions>>
    PROVE  DispatchInv'
<1>1. RecordSound(cache[w])
  BY DEF DispatchInv
<1>2. RecordSound(b)
  BY <1>1, SameRecord
<1>3. Consumed(cache[w]) => Consumed(b)
  BY DEF Consumed, Terminal, InFlight
<1> QED
  BY <1>2, <1>3, PrepareSound

LEMMA ReconcileVerificationInv ==
    ASSUME TypeInv, TypeInv', DispatchInv, NEW w \in Workers,
           ReconcileVerification(w) \/ ReconcileVerificationResult(w)
    PROVE  DispatchInv'
<1> DEFINE a == cache[w]
<1>1. /\ a \in Actions /\ Identified(a)
      /\ UNCHANGED <<action, cache, calls, decisions>>
  BY DEF TypeInv, TypeOK, ReconcileVerification, ReconcileVerificationResult, worldVars
<1>2. CASE ReconcileVerification(w)
  <2> DEFINE b == [a EXCEPT !.effectiveness.verificationRef = a.execution.id]
  <2>1. Prepare(w, "verify", b, NoRequest)
    BY <1>2 DEF ReconcileVerification
  <2>2. a.execution.id \in ExecutionIDs
    BY <1>1, <1>2
    DEF ReconcileVerification, Settled, Identified, Actions, Executions
  <2>3. /\ b \in Actions /\ b.resourceVersion = a.resourceVersion
        /\ b.approval = a.approval /\ b.execution = a.execution
        /\ b.phase = a.phase
    BY <1>1, <2>2 DEF Actions, Effectivenesses
  <2> HIDE DEF b
  <2> QED
    BY <1>1, <2>1, <2>3, SameLifecycle DEF Kinds
<1>3. CASE ReconcileVerificationResult(w)
  <2>1. PICK h \in HealthComparisons, observed \in BOOLEAN :
          Prepare(w, "complete",
                  [a EXCEPT !.effectiveness.phase = "Completed",
                            !.effectiveness.outcome =
                               evaluateEffectiveness(h, observed,
                                 verification[a.effectiveness.verificationRef])],
                  NoRequest)
    BY <1>3 DEF ReconcileVerificationResult
  <2> DEFINE o == evaluateEffectiveness(h, observed,
                    verification[a.effectiveness.verificationRef])
             b == [a EXCEPT !.effectiveness.phase = "Completed",
                            !.effectiveness.outcome = o]
  <2>2. o \in Outcomes
    BY evaluateEffectivenessType
  <2>3. Prepare(w, "complete", b, NoRequest)
    BY <2>1
  <2> HIDE DEF o
  <2>4. /\ b \in Actions /\ b.resourceVersion = a.resourceVersion
        /\ b.approval = a.approval /\ b.execution = a.execution
        /\ b.phase = a.phase
    BY <1>1, <2>2 DEF Actions, Effectivenesses
  <2> HIDE DEF b
  <2> QED
    BY <1>1, <2>3, <2>4, SameLifecycle DEF Kinds
<1> QED
  BY <1>2, <1>3

LEMMA ReadBackInv ==
    ASSUME TypeInv, TypeInv', DispatchInv, NEW w \in Workers, ReadBack(w)
    PROVE  DispatchInv'
<1> DEFINE a == cache[w]
           id == worker[w].request.id
           s == recordExecutionSuccess(a, id, now)
           u == RecordUnknown(a, now)
           f == RecordFailure(a, now)
<1>1. /\ a \in Actions /\ now \in Int /\ RecordSound(a)
      /\ UNCHANGED <<action, cache, calls, decisions>>
  BY DEF TypeInv, TypeOK, DispatchInv, ReadBack, worldVars
<1>2. id \in ExecutionIDs /\ id # NoID
  BY ConstantsAssumption DEF ReadBack, At, TypeInv, HoldsRequest, Requests
<1>3. action.execution.id # NoID
  BY DEF ReadBack, At, DispatchInv, WorkerSound
<1>4. /\ s \in Actions /\ u \in Actions /\ f \in Actions
      /\ s.resourceVersion = a.resourceVersion /\ s.phase = "Succeeded"
      /\ s.execution.id = id /\ s.approval = a.approval
      /\ u.resourceVersion = a.resourceVersion /\ u.phase = "Executing"
      /\ u.execution.id = a.execution.id /\ u.approval = a.approval
      /\ f.resourceVersion = a.resourceVersion /\ f.phase = "Failed"
      /\ f.execution.id = a.execution.id /\ f.approval = a.approval
  BY <1>1, <1>2, recordExecutionSuccessType, OutcomeTypes, OutcomesKeep
<1>5. \/ Return(w)
      \/ Prepare(w, "succeed", s, NoRequest)
      \/ Prepare(w, "unknown", u, NoRequest)
      \/ Prepare(w, "failed", f, NoRequest)
  BY DEF ReadBack
<1> HIDE DEF s, u, f
<1>6. RecordSound(s) /\ RecordSound(u) /\ RecordSound(f)
  BY <1>1, <1>4, SameRecord
<1>7. Consumed(s) /\ Consumed(f) /\ (a = action => Consumed(u))
  BY <1>3, <1>4 DEF Consumed, Terminal, InFlight, TerminalPhases
<1>8. CASE Return(w)
  <2>1. Extended
    BY <1>1 DEF Extended, TypeInv, TypeOK
  <2> QED
    BY <1>1, <1>8, <2>1, ReturnSound, QuietStep
<1>9. CASE Prepare(w, "succeed", s, NoRequest)
  BY <1>1, <1>2, <1>4, <1>6, <1>7, <1>9, PrepareSound DEF Kinds
<1>10. CASE Prepare(w, "unknown", u, NoRequest)
  BY <1>1, <1>4, <1>6, <1>7, <1>10, PrepareSound DEF Kinds
<1>11. CASE Prepare(w, "failed", f, NoRequest)
  BY <1>1, <1>4, <1>6, <1>7, <1>11, PrepareSound DEF Kinds
<1> QED
  BY <1>5, <1>8, <1>9, <1>10, <1>11

LEMMA ReconcileTerminalInv ==
    ASSUME TypeInv, TypeInv', DispatchInv, NEW w \in Workers, ReconcileTerminal(w)
    PROVE  DispatchInv'
<1>1. UNCHANGED <<action, cache, calls, decisions>> /\ Extended
  BY DEF ReconcileTerminal, worldVars, Extended, TypeInv, TypeOK
<1>2. /\ worker'[w] = [Idle EXCEPT !.pc = "delete"]
      /\ \A v \in Workers \ {w} : worker'[v] = worker[v]
  BY DEF ReconcileTerminal, TypeInv, TypeOK
<1>3. worker'[w].pc = "delete" /\ worker'[w].obj.approval = NoApproval
  BY <1>2, IdleType, IdleFacts DEF WorkerStates
<1>4. RecordSound(worker[w].obj)'
  BY <1>3 DEF RecordSound, NoApproval, TypeInv, TypeOK
<1>5. WorkerSound(w)'
  BY <1>3, <1>4 DEF WorkerSound, Notifying, At
<1> QED
  BY <1>1, <1>2, <1>3, <1>5, QuietStep

\* A Reconcile ends without a write, by a conflict or a crash.
LEMMA ReturnInv ==
    ASSUME TypeInv, TypeInv', DispatchInv, NEW w \in Workers, Return(w),
           UNCHANGED <<action, cache, calls, decisions>>
    PROVE  DispatchInv'
<1>1. Extended
  BY DEF Extended, TypeInv, TypeOK
<1> QED
  BY <1>1, ReturnSound, QuietStep

\* Decisions are numbered from 1, so that 0 is never used.
LEMMA ZeroUnused ==
    ASSUME DispatchInv
    PROVE  ~ Used(0)
BY DEF Used, DispatchInv, DispatchAuthorised, WorkerSound, Authorised

LEMMA DeleteInv ==
    ASSUME TypeInv, TypeInv', DispatchInv, NEW w \in Workers, Delete(w)
    PROVE  DispatchInv'
<1>1. /\ Return(w) /\ UNCHANGED <<cache, calls, decisions>> /\ Extended
      /\ action \in Actions
  BY DEF Delete, worldVars, Extended, TypeInv, TypeOK
<1>2. CASE action.exists
  <2>1. action' = [action EXCEPT !.exists = FALSE, !.resourceVersion = @ + 1]
    BY <1>2 DEF Delete
  <2>2. /\ action'.resourceVersion = action.resourceVersion + 1
        /\ action'.approval = action.approval
        /\ action'.execution = action.execution
        /\ action'.phase = action.phase
    BY <1>1, <2>1 DEF Actions
  <2>3. RecordSound(action)'
    BY <1>1, <2>2 DEF DispatchInv, RecordSound
  <2>4. Used(action'.approval.decidedAt) => Consumed(action')
    BY <2>2 DEF DispatchInv, Consumed, Terminal, InFlight
  <2> QED
    BY <1>1, <2>2, <2>3, <2>4, ReturnSound, QuietStep DEF NextVersion
<1>3. CASE ~ action.exists
  BY <1>1, <1>3, ReturnInv DEF Delete
<1> QED
  BY <1>2, <1>3

\* The Reconcile goes on with the object it has in its hands.
LEMMA NotifyInv ==
    ASSUME TypeInv, TypeInv', DispatchInv, NEW w \in Workers, Notify(w)
    PROVE  DispatchInv'
<1> DEFINE o == worker[w].obj
           e == Escalated(o, worker[w].at)
<1>1. /\ UNCHANGED <<action, cache, calls, decisions>> /\ Extended
      /\ worker[w] \in WorkerStates /\ o \in Actions
      /\ WorkerSound(w) /\ WriteSound(w)
  BY DEF Notify, At, Extended, TypeInv, TypeOK, WorkerStates, DispatchInv, WorkerSound
<1>2. /\ e.resourceVersion = o.resourceVersion
      /\ e.execution = o.execution
      /\ e.approval = [o.approval EXCEPT !.escalated = TRUE]
      /\ o.approval \in Approvals
  BY <1>1, PendingKeeps DEF Actions
<1>3. RecordSound(e) /\ e.approval.decidedAt = o.approval.decidedAt
  BY <1>1, <1>2, SameRecord DEF WorkerSound, Approvals
<1>4. /\ \A v \in Workers \ {w} : worker'[v] = worker[v]
      /\ worker'[w].pc = "update" /\ worker'[w].kind \in {"escalate", "notifyError"}
      /\ worker'[w].obj \in {o, e}
  <2> HIDE DEF e
  <2> QED
    BY <1>1 DEF Notify, e, TypeInv, TypeOK, WorkerStates
<1>5. RecordSound(worker[w].obj)'
  <2> HIDE DEF e
  <2> QED
    BY <1>1, <1>3, <1>4 DEF RecordSound, WorkerSound
<1>6. WriteSound(w)'
  <2>1. ~ Consumed(o)
    BY <1>1 DEF WorkerSound, Notifying, Notify
  <2>2. o.resourceVersion = action.resourceVersion => ~ Consumed(action)
    BY <1>1, <2>1 DEF WriteSound
  <2> HIDE DEF e
  <2> QED
    BY <1>1, <1>2, <1>3, <1>4, <2>2
    DEF WriteSound, At, Consumed, Terminal, InFlight
<1>7. WorkerSound(w)'
  BY <1>4, <1>5, <1>6 DEF WorkerSound, Notifying, At
<1> QED
  BY <1>1, <1>4, <1>7, QuietStep

\* An accepted write is a next version that keeps DispatchInv.
LEMMA WriteIsNextVersion ==
    ASSUME TypeInv, DispatchInv, NEW w \in Workers, StatusUpdate(w)
    PROVE  /\ NextVersion /\ Extended
           /\ UNCHANGED <<cache, calls, decisions>>
           /\ action'.resourceVersion = action.resourceVersion + 1
           /\ action'.phase = worker[w].obj.phase
           /\ action'.approval = worker[w].obj.approval
           /\ action'.execution = worker[w].obj.execution
           /\ WriteSound(w) /\ WorkerSound(w)
<1> DEFINE o == worker[w].obj
<1>1. /\ UNCHANGED <<cache, calls, decisions>> /\ Extended
      /\ o \in Actions /\ action \in Actions
      /\ WorkerSound(w) /\ WriteSound(w)
      /\ o.resourceVersion = action.resourceVersion
  BY DEF StatusUpdate, At, worldVars, Extended, TypeInv, TypeOK, WorkerStates,
         DispatchInv, WorkerSound
<1>2. /\ action'.resourceVersion = action.resourceVersion + 1
      /\ action'.phase = o.phase
      /\ action'.approval = o.approval
      /\ action'.execution = o.execution
  <2>1. action' = [o EXCEPT !.resourceVersion = @ + 1]
    BY DEF StatusUpdate
  <2> QED
    BY <1>1, <2>1 DEF Actions
<1>3. RecordSound(action)'
  BY <1>1, <1>2 DEF WorkerSound, RecordSound
<1>4. Used(action'.approval.decidedAt) => Consumed(action')
  <2>1. CASE o.approval.decidedAt = 0
    BY <1>2, <2>1, ZeroUnused
  <2>2. CASE o.approval.decidedAt = action.approval.decidedAt
    BY <1>1, <1>2, <2>2 DEF DispatchInv, WriteSound, Consumed, Terminal, InFlight
  <2> QED
    BY <1>1, <2>1, <2>2 DEF WriteSound
<1>5. action.execution.id # NoID => action'.execution.id # NoID
  BY <1>1, <1>2 DEF WriteSound
<1> QED
  BY <1>1, <1>2, <1>3, <1>4, <1>5 DEF NextVersion

\* The write that precedes a dispatch uses its decision for the first time.
LEMMA StartInv ==
    ASSUME TypeInv, TypeInv', DispatchInv, NEW w \in Workers, StatusUpdate(w),
           worker[w].kind = "start"
    PROVE  DispatchInv'
<1> DEFINE q == worker[w].request
<1>1. /\ NextVersion /\ Extended
      /\ UNCHANGED <<cache, calls, decisions>>
      /\ action'.phase = worker[w].obj.phase
      /\ action'.approval = worker[w].obj.approval
      /\ action'.execution = worker[w].obj.execution
      /\ WriteSound(w) /\ WorkerSound(w)
  BY WriteIsNextVersion
<1>2. /\ worker'[w].pc = "execute" /\ worker'[w].request = q
      /\ worker'[w].obj = NewAction(NoContent, "nobody")
      /\ \A v \in Workers \ {w} : worker'[v] = worker[v]
  BY DEF StatusUpdate, TypeInv, TypeOK, WorkerStates
<1>3. /\ ~ Consumed(action) /\ Consumed(worker[w].obj)
      /\ worker[w].obj.execution.id # NoID
      /\ action.approval.decidedAt = q.decidedAt
      /\ Authorised(q)
  BY <1>1 DEF StatusUpdate, WriteSound, WorkerSound
<1>4. ~ Used(q.decidedAt)
  BY <1>3 DEF DispatchInv
<1>5. /\ \A v \in Workers : CacheCoherent(v)' /\ RecordSound(cache[v])'
      /\ RecordSound(action)'
      /\ \A v \in Workers \ {w} : WorkerSound(v)'
      /\ action'.resourceVersion = 0 => action'.execution.id = NoID
  BY <1>1, <1>2, VersionStep
<1>6. WorkerSound(w)'
  <2>1. worker'[w].obj.approval = NoApproval
    <3>1. NewAction(NoContent, "nobody").approval = NoApproval
      BY DEF NewAction
    <3> QED
      BY <1>2, <3>1
  <2>2. RecordSound(worker[w].obj)'
    BY <2>1 DEF RecordSound, NoApproval, TypeInv, TypeOK
  <2>3. Authorised(worker[w].request)'
    BY <1>1, <1>2, <1>3 DEF Authorised
  <2> QED
    BY <1>1, <1>2, <1>3, <2>2, <2>3 DEF WorkerSound, Notifying, At
<1>7. Consumed(action)'
  BY <1>1, <1>3 DEF Consumed, Terminal, InFlight
<1>8. DispatchAuthorised'
  BY <1>1, CallsAuthorised DEF DispatchAuthorised, Authorised
<1>9. UsesDistinct'
  <2>1. \A v \in Workers \ {w} : At(v, "execute")' =>
           /\ At(v, "execute") /\ worker'[v] = worker[v]
           /\ worker[v].request.decidedAt # q.decidedAt
    BY <1>2, <1>4 DEF At, Used
  <2>2. \A i \in 1 .. Len(calls) : calls[i].decidedAt # q.decidedAt
    BY <1>4 DEF Used
  <2>3. \A v \in Workers, u \in Workers :
           At(v, "execute")' /\ At(u, "execute")'
             /\ worker'[v].request.decidedAt = worker'[u].request.decidedAt => v = u
    BY <1>2, <2>1 DEF DispatchInv, UsesDistinct
  <2>4. \A v \in Workers, i \in 1 .. Len(calls) :
           At(v, "execute")' => calls[i].decidedAt # worker'[v].request.decidedAt
    BY <1>2, <2>1, <2>2 DEF DispatchInv, UsesDistinct
  <2> QED
    BY <1>1, <2>3, <2>4 DEF DispatchInv, UsesDistinct, DispatchOncePerDecision
<1> QED
  BY <1>5, <1>6, <1>7, <1>8, <1>9 DEF DispatchInv

LEMMA StatusUpdateInv ==
    ASSUME TypeInv, TypeInv', DispatchInv, NEW w \in Workers, StatusUpdate(w)
    PROVE  DispatchInv'
<1>1. /\ NextVersion /\ Extended
      /\ UNCHANGED <<cache, calls, decisions>>
      /\ action'.resourceVersion = action.resourceVersion + 1
      /\ action'.phase = worker[w].obj.phase
      /\ action'.approval = worker[w].obj.approval
      /\ action'.execution = worker[w].obj.execution
      /\ WriteSound(w) /\ WorkerSound(w)
  BY WriteIsNextVersion
<1>2. CASE worker[w].kind = "start"
  BY <1>2, StartInv
<1>3. CASE worker[w].kind = "attempt"
  <2>1. /\ worker'[w].pc = "notify" /\ worker'[w].obj = action'
        /\ \A v \in Workers \ {w} : worker'[v] = worker[v]
    <3>1. worker' = [worker EXCEPT ![w].pc = "notify", ![w].obj = action']
      BY <1>3 DEF StatusUpdate
    <3> QED
      BY <3>1 DEF TypeInv, TypeOK, WorkerStates
  <2>2. RecordSound(worker[w].obj)'
    BY <1>1, <2>1 DEF NextVersion, RecordSound
  <2>3. ~ Consumed(worker[w].obj)'
    BY <1>1, <1>3, <2>1
    DEF StatusUpdate, WorkerSound, Notifying, Consumed, Terminal, InFlight
  <2>4. action' \in Actions
    BY DEF TypeInv, TypeOK
  <2>5. WriteSound(w)'
    BY <2>1, <2>4 DEF WriteSound, At, Actions
  <2>6. WorkerSound(w)'
    BY <2>1, <2>2, <2>3, <2>5 DEF WorkerSound, At
  <2> QED
    BY <1>1, <2>1, <2>6, QuietStep
<1>4. CASE worker[w].kind \notin {"start", "attempt"}
  <2>1. Return(w)
    BY <1>4 DEF StatusUpdate
  <2> QED
    BY <1>1, <2>1, ReturnSound, QuietStep
<1> QED
  BY <1>2, <1>3, <1>4

LEMMA ExecuteInv ==
    ASSUME TypeInv, TypeInv', DispatchInv, NEW w \in Workers, Execute(w)
    PROVE  DispatchInv'
<1> DEFINE q == worker[w].request
<1>1. /\ UNCHANGED <<action, cache, decisions>> /\ Extended
      /\ worker[w] \in WorkerStates
      /\ WorkerSound(w) /\ q \in Requests /\ calls \in Seq(Requests)
      /\ calls' = Append(calls, q)
  BY DEF Execute, At, HoldsRequest, Extended, TypeInv, TypeOK, DispatchInv
<1>2. /\ \A v \in Workers \ {w} : worker'[v] = worker[v]
      /\ worker'[w].pc \in {"patch", "read"}
      /\ worker'[w].obj = worker[w].obj
  <2>1. PICK s \in {[worker[w] EXCEPT !.pc = "patch"]} \cup
                   {[worker[w] EXCEPT !.pc = "read", !.result = r] :
                       r \in {"Succeeded", "Failed"}} :
            worker' = [worker EXCEPT ![w] = s]
    BY DEF Execute
  <2>2. s.pc \in {"patch", "read"} /\ s.obj = worker[w].obj
    BY <1>1, <2>1 DEF WorkerStates
  <2> QED
    BY <2>1, <2>2 DEF TypeInv, TypeOK
<1>3. Authorised(q) /\ action.execution.id # NoID
  BY <1>1 DEF WorkerSound, Execute, At
<1>4. /\ \A v \in Workers : CacheCoherent(v)' /\ RecordSound(cache[v])'
      /\ RecordSound(action)'
      /\ \A v \in Workers \ {w} : WorkerSound(v)'
      /\ action'.resourceVersion = 0 => action'.execution.id = NoID
  BY <1>1, <1>2, VersionStep
<1>5. WorkerSound(w)'
  <2>1. RecordSound(worker[w].obj)'
    BY <1>1, <1>2 DEF WorkerSound, RecordSound
  <2> QED
    BY <1>1, <1>2, <1>3, <2>1 DEF WorkerSound, Notifying, At
<1>6. /\ Len(calls') = Len(calls) + 1
      /\ calls'[Len(calls) + 1] = q
      /\ \A i \in 1 .. Len(calls) : calls'[i] = calls[i]
      /\ Len(calls) \in Nat
  BY <1>1
<1>7. \A v \in Workers : At(v, "execute")' =>
         At(v, "execute") /\ worker'[v] = worker[v] /\ v # w
  BY <1>2 DEF At
<1>8. Used(action.approval.decidedAt)' => Used(action.approval.decidedAt)
  <2> SUFFICES ASSUME Used(action.approval.decidedAt)'
               PROVE  Used(action.approval.decidedAt)
    OBVIOUS
  <2>1. CASE \E v \in Workers : At(v, "execute")' /\
               worker'[v].request.decidedAt = action'.approval.decidedAt
    BY <1>1, <1>7, <2>1 DEF Used
  <2>2. CASE \E i \in 1 .. Len(calls') : calls'[i].decidedAt = action'.approval.decidedAt
    <3>1. PICK i \in 1 .. Len(calls) + 1 :
             calls'[i].decidedAt = action.approval.decidedAt
      BY <1>1, <1>6, <2>2
    <3>2. CASE i \in 1 .. Len(calls)
      BY <1>6, <3>1, <3>2 DEF Used
    <3>3. CASE i = Len(calls) + 1
      BY <1>6, <3>1, <3>3 DEF Used, Execute
    <3> QED
      BY <1>6, <3>2, <3>3
  <2> QED
    BY <2>1, <2>2 DEF Used
<1>9. (Used(action.approval.decidedAt) => Consumed(action))'
  BY <1>1, <1>8 DEF DispatchInv, Consumed, Terminal, InFlight
<1>10. DispatchAuthorised'
  <2>1. ASSUME NEW i \in 1 .. Len(calls) + 1 PROVE Authorised(calls[i])'
    <3>1. CASE i \in 1 .. Len(calls)
      BY <1>1, <1>6, <3>1 DEF DispatchInv, DispatchAuthorised, Authorised
    <3>2. CASE i = Len(calls) + 1
      BY <1>1, <1>3, <1>6, <3>2 DEF Authorised
    <3> QED
      BY <1>6, <3>1, <3>2
  <2> QED
    BY <1>6, <2>1 DEF DispatchAuthorised
<1>11. \A i \in 1 .. Len(calls) : calls[i].decidedAt # q.decidedAt
  BY DEF Execute, DispatchInv, UsesDistinct
<1>12. \A v \in Workers \ {w} : At(v, "execute") =>
          worker[v].request.decidedAt # q.decidedAt
  BY DEF Execute, DispatchInv, UsesDistinct
<1>13. UsesDistinct'
  <2>1. \A u, v \in Workers :
          At(u, "execute")' /\ At(v, "execute")'
            /\ worker'[u].request.decidedAt = worker'[v].request.decidedAt => u = v
    BY <1>7 DEF DispatchInv, UsesDistinct
  <2>2. ASSUME NEW v \in Workers, NEW i \in 1 .. Len(calls) + 1, At(v, "execute")'
        PROVE  calls'[i].decidedAt # worker'[v].request.decidedAt
    <3>1. CASE i \in 1 .. Len(calls)
      BY <1>6, <1>7, <2>2, <3>1 DEF DispatchInv, UsesDistinct
    <3>2. CASE i = Len(calls) + 1
      BY <1>6, <1>7, <1>12, <2>2, <3>2
    <3> QED
      BY <1>6, <3>1, <3>2
  <2>3. \A i, j \in 1 .. Len(calls) :
          calls[i].decidedAt = calls[j].decidedAt => i = j
    BY DEF DispatchInv, UsesDistinct, DispatchOncePerDecision
  <2>4. \A i, j \in 1 .. Len(calls) + 1 :
          calls'[i].decidedAt = calls'[j].decidedAt => i = j
    BY <1>6, <1>11, <2>3
  <2> QED
    BY <1>6, <2>1, <2>2, <2>4 DEF UsesDistinct, DispatchOncePerDecision
<1> QED
  BY <1>4, <1>5, <1>9, <1>10, <1>13 DEF DispatchInv

LEMMA PatchInv ==
    ASSUME TypeInv, TypeInv', DispatchInv, NEW w \in Workers, Patch(w)
    PROVE  DispatchInv'
<1>1. /\ UNCHANGED <<action, cache, calls, decisions>> /\ Extended
      /\ worker[w] \in WorkerStates /\ WorkerSound(w)
      /\ action.execution.id # NoID
  BY DEF Patch, At, Extended, TypeInv, TypeOK, DispatchInv, WorkerSound
<1>2. /\ \A v \in Workers \ {w} : worker'[v] = worker[v]
      /\ worker'[w].pc = "read"
      /\ worker'[w].obj = worker[w].obj
  <2>1. PICK r \in {"Succeeded", "Unknown", "Failed"} :
            worker' = [worker EXCEPT ![w].pc = "read", ![w].result = r]
    BY DEF Patch
  <2> QED
    BY <2>1 DEF TypeInv, TypeOK, WorkerStates
<1>3. RecordSound(worker[w].obj)'
  BY <1>1, <1>2 DEF WorkerSound, RecordSound
<1>4. WorkerSound(w)'
  BY <1>1, <1>2, <1>3 DEF WorkerSound, Notifying, At
<1> QED
  BY <1>1, <1>2, <1>4, QuietStep

LEMMA CacheSyncInv ==
    ASSUME TypeInv, TypeInv', DispatchInv, NEW w \in Workers, CacheSync(w)
    PROVE  DispatchInv'
<1>1. /\ UNCHANGED <<action, worker, calls, decisions>>
      /\ cache'[w] = action /\ \A v \in Workers \ {w} : cache'[v] = cache[v]
      /\ action \in Actions
  BY DEF CacheSync, worldVars, TypeInv, TypeOK
<1>2. \A v \in Workers : CacheCoherent(v)'
  BY <1>1 DEF DispatchInv, CacheCoherent, Actions
<1>3. ASSUME NEW v \in Workers PROVE RecordSound(cache[v])'
  BY <1>1 DEF DispatchInv, RecordSound
<1>4. RecordSound(action)'
  BY <1>1 DEF DispatchInv, RecordSound
<1>5. ASSUME NEW v \in Workers PROVE WorkerSound(v)'
  <2>1. WorkerSound(v)
    BY DEF DispatchInv
  <2> QED
    BY <1>1, <2>1 DEF WorkerSound, WriteSound, RecordSound, Authorised, Notifying,
                      At, Consumed, Terminal, InFlight
<1>6. (Used(action.approval.decidedAt) => Consumed(action))'
  BY <1>1 DEF DispatchInv, Used, At, Consumed, Terminal, InFlight
<1>7. DispatchAuthorised'
  BY <1>1 DEF DispatchInv, DispatchAuthorised, Authorised
<1>8. UsesDistinct'
  BY <1>1 DEF DispatchInv, UsesDistinct, DispatchOncePerDecision, At
<1> QED
  BY <1>1, <1>2, <1>3, <1>4, <1>5, <1>6, <1>7, <1>8 DEF DispatchInv

-----------------------------------------------------------------------------
(***************************************************************************)
(* The other clients of the API server, and the world.                     *)
(***************************************************************************)
\* A write by another client.
LEMMA ClientWrite ==
    ASSUME TypeInv, TypeInv', DispatchInv, Extended, NextVersion,
           UNCHANGED <<cache, worker, calls>>
    PROVE  DispatchInv'
BY QuietStep

\* ... that leaves the approval record and the lifecycle alone.
LEMMA ClientEdit ==
    ASSUME TypeInv, TypeInv', DispatchInv, NEW b \in Actions, action' = b,
           b.resourceVersion = action.resourceVersion + 1,
           b.approval = action.approval, b.execution = action.execution,
           b.phase = action.phase, UNCHANGED <<cache, worker, calls, decisions>>
    PROVE  DispatchInv'
<1>1. Extended
  BY DEF Extended, TypeInv, TypeOK
<1>2. RecordSound(action)'
  BY DEF DispatchInv, RecordSound
<1>3. Used(action'.approval.decidedAt) => Consumed(action')
  BY DEF DispatchInv, Consumed, Terminal, InFlight
<1> QED
  BY <1>1, <1>2, <1>3, ClientWrite DEF NextVersion

\* The object is created.
LEMMA CreateInv ==
    ASSUME TypeInv, TypeInv', DispatchInv, NEW c \in Contents, NEW by \in Approvers,
           action.resourceVersion = 0, action' = NewAction(c, by),
           UNCHANGED <<cache, worker, calls, decisions>>
    PROVE  DispatchInv'
<1>1. Extended
  BY DEF Extended, TypeInv, TypeOK
<1>2. action'.approval = NoApproval /\ action'.resourceVersion = 1
  BY DEF NewAction
<1>3. RecordSound(action)'
  BY <1>2 DEF RecordSound, NoApproval, TypeInv, TypeOK
<1>4. ~ Used(action'.approval.decidedAt)
  BY <1>2, ZeroUnused DEF NoApproval
<1>5. action.execution.id = NoID
  BY DEF DispatchInv
<1> QED
  BY <1>1, <1>2, <1>3, <1>4, <1>5, ClientWrite DEF NextVersion

LEMMA GenerateInv ==
    ASSUME TypeInv, TypeInv', DispatchInv, NEW c \in Contents,
           NEW auto \in BOOLEAN, Generate(c, auto)
    PROVE  DispatchInv'
<1>1. UNCHANGED <<cache, worker, calls, decisions>> /\ action \in Actions
  BY DEF Generate, worldVars, TypeInv, TypeOK
<1>2. CASE action.resourceVersion = 0
  <2>1. action' = NewAction(c, IF auto THEN "policy" ELSE "nobody")
    BY <1>2 DEF Generate, Generated
  <2>2. (IF auto THEN "policy" ELSE "nobody") \in Approvers
    BY DEF Approvers
  <2> QED
    BY <1>1, <1>2, <2>1, <2>2, CreateInv
<1>3. CASE action.resourceVersion # 0
  <2>1. action' = [action EXCEPT !.content = c,
                                 !.approvedBy = IF auto THEN "policy" ELSE @,
                                 !.generation = @ + 1,
                                 !.resourceVersion = @ + 1]
    BY <1>3 DEF Generate, Generated
  <2>2. /\ action'.resourceVersion = action.resourceVersion + 1
        /\ action'.approval = action.approval
        /\ action'.execution = action.execution
        /\ action'.phase = action.phase
    BY <1>1, <2>1 DEF Actions
  <2>3. action' \in Actions
    BY DEF TypeInv, TypeOK
  <2> QED
    BY <1>1, <2>2, <2>3, ClientEdit
<1> QED
  BY <1>2, <1>3

\* A decision comes with a fresh number, and is about the plan's content.
LEMMA DecideInv ==
    ASSUME TypeInv, TypeInv', DispatchInv, NEW d \in Decisions,
           NEW crd \in BOOLEAN, Decide(d, crd)
    PROVE  DispatchInv'
<1> DEFINE n == Len(decisions) + 1
           b == Decided(action, d, crd, n, now)
<1>1. /\ UNCHANGED <<cache, worker, calls>> /\ action \in Actions
      /\ decisions \in Seq(Decisions) /\ decisions' = Append(decisions, d)
      /\ action.content \in PlanContents[d]
      /\ action' = [b EXCEPT !.resourceVersion = @ + 1]
  BY DEF Decide, UpToDate, Written, TypeInv, TypeOK
<1>2. /\ Len(decisions') = n /\ decisions'[n] = d /\ n \in Nat /\ n # 0
      /\ \A i \in 1 .. Len(decisions) : decisions'[i] = decisions[i]
  BY <1>1
<1>3. Extended
  BY <1>1, <1>2 DEF Extended
<1>4. /\ b \in Actions
      /\ b.resourceVersion = action.resourceVersion
      /\ b.execution = action.execution
      /\ b.approval.decidedAt = n
      /\ b.approval.digest \in PlanContents[d]
      /\ b.approval.approved => d = "auto"
      /\ b.approval.source = "ManualApprovalRequired" => d = "manual"
  <2>1. b \in Actions
    <3>1. now \in Int
      BY DEF TypeInv, TypeOK
    <3> QED
      BY <1>1, <1>2, <3>1, DecidedType
  <2>2. CASE d = "auto"
    BY <1>1, <2>1, <2>2
    DEF Decided, SetPhase, Actions, approvalSource, agentActionSpecDigest
  <2>3. CASE d = "manual"
    BY <1>1, <2>1, <2>3
    DEF Decided, SetPhase, Actions, approvalSource, agentActionSpecDigest
  <2>4. CASE d = "reject"
    BY <1>1, <2>1, <2>4
    DEF Decided, SetPhase, Actions, approvalSource, agentActionSpecDigest
  <2> QED
    BY <2>2, <2>3, <2>4 DEF Decisions
<1> HIDE DEF b
<1>5. /\ action'.resourceVersion = action.resourceVersion + 1
      /\ action'.execution = action.execution
      /\ action'.approval = b.approval
  BY <1>1, <1>4 DEF Actions
<1>6. RecordSound(action)'
  BY <1>2, <1>4, <1>5 DEF RecordSound
<1>7. ~ Used(n)
  BY <1>1, <1>2 DEF Used, DispatchInv, DispatchAuthorised, WorkerSound, Authorised
<1> QED
  BY <1>1, <1>3, <1>4, <1>5, <1>6, <1>7, ClientWrite DEF NextVersion

LEMMA DispatchInvInit == Init => DispatchInv
<1> SUFFICES ASSUME Init PROVE DispatchInv
  OBVIOUS
<1>1. TypeInv
  BY TypeInvInit
<1>2. /\ calls = <<>> /\ decisions = <<>> /\ action \in Actions
      /\ \A w \in Workers : cache[w] = action /\ worker[w] = Idle
  BY <1>1 DEF Init, TypeInv, TypeOK
<1>3. /\ action.approval = NoApproval
      /\ action.execution.id = NoID
  BY DEF Init, NewAction
<1>4. \A w \in Workers : worker[w].pc = "idle" /\ worker[w].obj.approval = NoApproval
  BY <1>2, IdleFacts
<1>5. /\ RecordSound(action)
      /\ \A w \in Workers : RecordSound(cache[w]) /\ RecordSound(worker[w].obj)
  BY <1>2, <1>3, <1>4, IdleSound DEF Decisions
<1>6. \A w \in Workers : CacheCoherent(w) /\ WorkerSound(w)
  <2>1. \A w \in Workers : CacheCoherent(w)
    <3>1. action.resourceVersion \in Nat
      BY <1>2 DEF Actions
    <3>2. action.resourceVersion <= action.resourceVersion
      BY <3>1
    <3>3. ASSUME NEW w \in Workers PROVE CacheCoherent(w)
      <4>1. cache[w] = action
        BY <1>2
      <4> QED
        BY <3>2, <4>1, Zenon DEF CacheCoherent
    <3> QED
      BY <3>3
  <2>2. \A w \in Workers : WorkerSound(w)
    BY <1>4, <1>5 DEF WorkerSound, Notifying, At
  <2> QED
    BY <2>1, <2>2
<1>7. ~ Used(action.approval.decidedAt)
  BY <1>2, <1>4 DEF Used, At
<1>8. DispatchAuthorised /\ UsesDistinct
  BY <1>2, <1>4 DEF DispatchAuthorised, UsesDistinct, DispatchOncePerDecision, At
<1> QED
  BY <1>3, <1>5, <1>6, <1>7, <1>8 DEF DispatchInv

LEMMA DispatchInvNext == TypeInv /\ TypeInv' /\ DispatchInv /\ [Next]_vars => DispatchInv'
<1> SUFFICES ASSUME TypeInv, TypeInv', DispatchInv, [Next]_vars PROVE DispatchInv'
  OBVIOUS
<1>1. action \in Actions /\ action' \in Actions
  BY DEF TypeInv, TypeOK
<1>2. ASSUME NEW w \in Workers, Reconcile(w) PROVE DispatchInv'
  <2>1. CASE StatusConflict(w)
    BY <2>1, ReturnInv DEF StatusConflict, worldVars
  <2> QED
    BY <1>2, <2>1, ReconcileApprovedInv, ReconcileInFlightInv, ReconcilePendingInv,
       ReconcileApprovalTimeoutInv, ReconcileTerminalInv, ReconcileVerificationInv,
       StatusUpdateInv, ExecuteInv, PatchInv, ReadBackInv, NotifyInv, DeleteInv
    DEF Reconcile
<1>3. ASSUME NEW w \in Workers, CacheSync(w) PROVE DispatchInv'
  BY <1>3, CacheSyncInv
<1>4. ASSUME NEW w \in Workers, Crash(w) PROVE DispatchInv'
  BY <1>4, ReturnInv DEF Crash
<1>5. ASSUME NEW c \in Contents, NEW by \in {"nobody", "reviewer"},
             CreateDirectly(c, by)
      PROVE  DispatchInv'
  BY <1>5, CreateInv DEF CreateDirectly, Approvers
<1>6. ASSUME NEW by \in {"nobody", "reviewer"}, SetApprovedBy(by) PROVE DispatchInv'
  <2>1. /\ action'.resourceVersion = action.resourceVersion + 1
        /\ action'.approval = action.approval
        /\ action'.execution = action.execution
        /\ action'.phase = action.phase
    BY <1>1, <1>6 DEF SetApprovedBy, Written, Actions
  <2> QED
    BY <1>1, <1>6, <2>1, ClientEdit DEF SetApprovedBy
<1>7. ASSUME NEW c \in Contents, EditContent(c) PROVE DispatchInv'
  <2>1. /\ action'.resourceVersion = action.resourceVersion + 1
        /\ action'.approval = action.approval
        /\ action'.execution = action.execution
        /\ action'.phase = action.phase
    BY <1>1, <1>7 DEF EditContent, Written, Actions
  <2> QED
    BY <1>1, <1>7, <2>1, ClientEdit DEF EditContent, worldVars
<1>8. ASSUME Retain PROVE DispatchInv'
  <2>1. /\ action'.resourceVersion = action.resourceVersion + 1
        /\ action'.approval = action.approval
        /\ action'.execution = action.execution
        /\ action'.phase = action.phase
    BY <1>1, <1>8 DEF Retain, Written, Actions
  <2> QED
    BY <1>1, <1>8, <2>1, ClientEdit DEF Retain, worldVars
<1>9. ASSUME UNCHANGED <<action, cache, worker, decisions, calls>> PROVE DispatchInv'
  <2>1. Extended
    BY <1>9 DEF Extended, TypeInv, TypeOK
  <2> QED
    BY <1>9, <2>1, QuietStep
<1>10. ASSUME NEW uid \in TargetChanges, TargetReplaced(uid) PROVE DispatchInv'
  BY <1>9, <1>10 DEF TargetReplaced
<1>11. ASSUME NEW id \in DOMAIN verification, NEW o \in VerificationOutcomes,
              VerificationFinishes(id, o)
       PROVE  DispatchInv'
  BY <1>9, <1>11 DEF VerificationFinishes
<1>12. ASSUME Tick PROVE DispatchInv'
  BY <1>9, <1>12 DEF Tick
<1>13. ASSUME NEW c \in Contents, NEW auto \in BOOLEAN, Generate(c, auto)
       PROVE  DispatchInv'
  BY <1>13, GenerateInv
<1>14. ASSUME NEW d \in Decisions, NEW crd \in PolicyObjects, Decide(d, crd)
       PROVE  DispatchInv'
  BY <1>14, DecideInv, ConstantsAssumption
<1>15. ASSUME CollectGarbage PROVE DispatchInv'
  <2>1. /\ action'.resourceVersion = action.resourceVersion + 1
        /\ action'.approval = action.approval
        /\ action'.execution = action.execution
        /\ action'.phase = action.phase
    BY <1>1, <1>15 DEF CollectGarbage, Written, Actions
  <2> QED
    BY <1>1, <1>15, <2>1, ClientEdit DEF CollectGarbage, worldVars
<1>16. CASE UNCHANGED vars
  BY <1>9, <1>16 DEF vars
<1> QED
  BY <1>2, <1>3, <1>4, <1>5, <1>6, <1>7, <1>8, <1>10, <1>11, <1>12, <1>13, <1>14,
     <1>15, <1>16, ContentTypes DEF Next, Replica, Users, World, Plan

\* The inductive invariant: what every copy of the object, every Reconcile in
\* progress and every past call of Executor.Execute say about the decisions.
THEOREM DispatchInvariant == Spec => []DispatchInv
BY DispatchInvInit, DispatchInvNext, TypeInvAlways, PTL DEF Spec

\* No decision of the policy engine is dispatched twice, for any number of
\* replicas, crashes, stale reads, conflicts, edits and repeated decisions:
\* Reconcile persists the execution identity before it calls Execute.
THEOREM DispatchedOnce == Spec => []DispatchOncePerDecision
<1>1. DispatchInv => DispatchOncePerDecision
  BY DEF DispatchInv, UsesDistinct
<1> QED
  BY <1>1, DispatchInvariant, PTL

\* Nothing is dispatched without authority: isAgentActionApproved admits only
\* the content that was decided about, under a decision that approved it or
\* asked for an approver who is then named.
THEOREM DispatchedWithAuthority == Spec => []DispatchAuthorised
<1>1. DispatchInv => DispatchAuthorised
  BY DEF DispatchInv
<1> QED
  BY <1>1, DispatchInvariant, PTL

=============================================================================
