------------------------ MODULE InvestigationProofs ------------------------
(***************************************************************************)
(* What the status of an InvestigationRequest says holds for any number of *)
(* manager replicas, crashes, conflicts, edits and answers: it is a legal  *)
(* combination, a confirmed verdict rests on an answer the provider gave,  *)
(* and what is finished for a generation is not rewritten.  That a blocked *)
(* lineage never reaches the provider and that a confirmed request links   *)
(* to the signal of its own generation holds for one replica.              *)
(*                                                                         *)
(* The argument is optimistic concurrency: a copy with the server's        *)
(* resourceVersion equals the server's object (CacheCoherent), and what a  *)
(* Reconcile holds with that version was built from an object that was not *)
(* finished (BuiltOn), starting from a reset status (Fresh).               *)
(***************************************************************************)
EXTENDS InvestigationRequest, TLAPS

(***************************************************************************)
(* The parts of the invariant, of any object r, execution e, status s,     *)
(* worker state wk, answers K, object q at the server and signal g.        *)
(***************************************************************************)
\* The execution in a status was really answered by the provider.
Answered(e, K) ==
    e.state \in {"ProviderCompleted", "Finalized"} =>
        [id |-> e.id, answer |-> e.answer] \in K

\* VerdictRestsOnEvidence of any status.
Rests(s, K) ==
    s.outcome = "Confirmed" =>
        /\ s.execution.state = "Finalized"
        /\ s.execution.id.generation = s.observedGeneration
        /\ (s.execution.answer \cup s.execution.id.digest.seen.mechanism)
              \cap s.execution.id.digest.seen.supports # {}
        /\ s.execution.answer \cap s.execution.id.digest.seen.contradicts = {}
        /\ [id |-> s.execution.id, answer |-> s.execution.answer] \in K

ReadyAt(s, g) == s.RemediationReady = [status |-> "True", generation |-> g]

\* LegalStatus of any status.
Legal(s) ==
    /\ s.phase = "Completed" =>
         s.outcome \in Outcomes \ {"Unknown"} /\ s.failure = "None"
    /\ s.phase = "Failed" => s.outcome = "Unknown" /\ s.failure # "None"
    /\ s.phase \notin TerminalPhases =>
         s.outcome = Unset /\ s.failure = "None" /\ ~ s.linked
    /\ s.completedAt # Never <=> s.phase \in TerminalPhases
    /\ s.RCAReady.status = "False" => s.RemediationReady.status = "False"
    /\ s.outcome = "Confirmed" <=> (ReadyAt(s, s.observedGeneration) /\ s.phase # Unset)

\* RemediationReady is of no later generation than the one observed, which is
\* none of the future: a condition left by an earlier one says so.
InOrder(r) ==
    /\ r.generation >= 1
    /\ r.status.observedGeneration <= r.generation
    /\ r.status.RemediationReady.generation <= r.status.observedGeneration
    /\ r.status.phase = Unset => r.status.observedGeneration = 0

Sound(r, K) ==
    /\ Legal(r.status) /\ InOrder(r)
    /\ Answered(r.status.execution, K) /\ Rests(r.status, K)

\* What ResetStatus makes of a sound object that is not finished.
Fresh(r) ==
    /\ r.exists /\ r.generation >= 1
    /\ r.status.phase = "Collecting"
    /\ r.status.observedGeneration = r.generation
    /\ r.status.completedAt = Never
    /\ r.status.outcome = Unset /\ r.status.failure = "None"
    /\ r.status.execution = NoExecution
    /\ ~ r.status.linked
    /\ r.status.RCAReady.status = "False" => r.status.RemediationReady.status = "False"
    /\ r.status.RemediationReady.generation <= r.generation
    /\ ~ ReadyAt(r.status, r.generation)

\* The status an apply function has filled in.
Settled(r, K) ==
    /\ Sound(r, K) /\ r.exists
    /\ r.status.phase \in TerminalPhases
    /\ r.status.observedGeneration = r.generation

Confirmed(r) == r.status.outcome = "Confirmed" /\ r.spec.createRiskSignal

\* A Reconcile holds a copy it will write.
Writing == {"reason", "checkpoint", "promote", "project", "update"}

WorkerSound(wk, K, g) ==
    /\ wk.pc \in {"reason", "checkpoint"} =>
         Fresh(wk.obj) /\ wk.id.generation = wk.obj.generation
    /\ wk.pc = "checkpoint" => [id |-> wk.id, answer |-> wk.answer] \in K
    /\ wk.pc \in {"promote", "project", "update"} => Settled(wk.obj, K)
    /\ wk.pc \in {"promote", "project"} => Confirmed(wk.obj)
    /\ wk.pc = "project" => g.created
    /\ wk.pc = "update" /\ Confirmed(wk.obj) => wk.obj.status.linked /\ g.created

LineageOf(r) == lineageForReconcile(r.status.lineage, r.annotations)

\* r was built from q, which is not finished.
BuiltOn(r, q) ==
    /\ q.exists
    /\ r.generation = q.generation
    /\ r.spec = q.spec
    /\ r.annotations = q.annotations
    /\ r.status.lineage = LineageOf(q)
    /\ ~ shouldSkipInvestigationExecution(q)

\* A copy is of the past or the present, and a generation has one spec.
NotNewer(r, q) ==
    /\ r.resourceVersion <= q.resourceVersion
    /\ r.generation <= q.generation
    /\ r.generation = q.generation => r.spec = q.spec

CacheCoherent(r, q) ==
    /\ NotNewer(r, q)
    /\ r.resourceVersion = q.resourceVersion => r = q

WorkerCoherent(wk, q) ==
    wk.pc \in Writing =>
        /\ NotNewer(wk.obj, q)
        /\ wk.obj.resourceVersion = q.resourceVersion => BuiltOn(wk.obj, q)

Linked(q, g) ==
    (Confirmed(q) /\ q.status.observedGeneration = q.generation)
        => q.status.linked /\ g.created

InvestigationInv ==
    /\ InvestigationTypeOK
    /\ Sound(request, calls)
    /\ Linked(request, signal)
    /\ \A w \in Workers :
          /\ Sound(cache[w], calls) /\ CacheCoherent(cache[w], request)
          /\ WorkerSound(worker[w], calls, signal) /\ WorkerCoherent(worker[w], request)

(***************************************************************************)
(* With one replica the cache knows every status that was written, up to   *)
(* the versions in between, and nobody promotes for an older generation.   *)
(***************************************************************************)
OneReplica == \A u, v \in Workers : u = v

CacheKnows(c, q) ==
    /\ q.status.observedGeneration <= c.generation
    /\ q.status.lineage # NoLineage => LineageOf(c) = q.status.lineage

WorkerKnows(wk, c, q, g) ==
    /\ wk.pc \in Writing =>
         /\ q.status.observedGeneration <= wk.obj.generation
         /\ wk.obj.generation <= c.generation
         /\ wk.obj.resourceVersion = q.resourceVersion =>
               LineageOf(c) = wk.obj.status.lineage
         /\ q.status.lineage # NoLineage => wk.obj.status.lineage = q.status.lineage
    /\ wk.pc \in {"reason", "checkpoint"} =>
         ~ investigationLoopFailure(wk.obj.spec, wk.obj.status.lineage)
    /\ wk.pc = "project" => g.generation = wk.obj.generation
    /\ wk.pc = "update" /\ Confirmed(wk.obj) => g.generation = wk.obj.generation

LinkedGeneration(q, g) ==
    (Confirmed(q) /\ q.status.observedGeneration = q.generation)
        => g.generation = q.generation

ReplicaInv ==
    /\ OneReplica
    /\ LinkedGeneration(request, signal)
    /\ \A w \in Workers : /\ CacheKnows(cache[w], request)
                          /\ WorkerKnows(worker[w], cache[w], request, signal)

-----------------------------------------------------------------------------
(***************************************************************************)
(* What the operators of Reconcile return.                                 *)
(***************************************************************************)
\* The values that stand for nil have the type of what they stand for.
LEMMA NilTyped ==
    /\ NoBundle \in Bundles /\ NoExecution \in Executions
    /\ NoExecution.id \in ExecutionIDs /\ NoExecution.state = "None"
    /\ NoCondition \in Conditions /\ NoLineage \in Lineages
    /\ Observations # {} /\ Specs # {}
<1>1. (CHOOSE o \in Observations : TRUE) \in Observations
  BY InvestigationAssumption
<1>2. NoBundle \in Bundles
  BY <1>1 DEF NoBundle, Bundles, Never
<1>3. NoExecution.id \in ExecutionIDs
  BY <1>2 DEF NoExecution, ExecutionIDs
<1>4. NoExecution \in Executions /\ NoExecution.state = "None"
  BY <1>3 DEF NoExecution, Executions
<1> QED
  BY <1>2, <1>3, <1>4, InvestigationAssumption
     DEF NoCondition, Conditions, NoLineage, Lineages

\* The empty string is none of the phases and outcomes.
LEMMA UnsetDistinct ==
    Unset \notin {"Collecting", "Reasoning"} \cup TerminalPhases \cup Outcomes
BY Zenon DEF Unset, TerminalPhases, Outcomes

(* An object as created has an empty status: nothing is observed and       *)
(* nothing is claimed.                                                     *)
LEMMA NewRequestSound ==
    ASSUME NEW s \in Specs, NEW l \in Lineages, NEW K
    PROVE  LET r == NewRequest(s, l)
           IN /\ r \in Requests /\ Sound(r, K) /\ r.status.outcome = Unset
              /\ r.exists /\ r.generation = 1 /\ r.resourceVersion = 1
              /\ r.status.observedGeneration = 0 /\ r.status.lineage = NoLineage
<1> DEFINE r == NewRequest(s, l)
<1>1. r \in Requests
  BY NilTyped DEF NewRequest, Requests, Statuses, TerminalPhases, Outcomes, Never
<1>2. /\ r.status.phase = Unset /\ r.status.outcome = Unset /\ r.status.failure = "None"
      /\ r.status.observedGeneration = 0 /\ r.status.lineage = NoLineage
      /\ r.status.completedAt = Never /\ r.status.execution = NoExecution
      /\ r.status.linked = FALSE /\ r.status.RCAReady = NoCondition
      /\ r.status.RemediationReady = NoCondition
      /\ r.exists /\ r.generation = 1 /\ r.resourceVersion = 1
  BY DEF NewRequest
<1>3. Sound(r, K)
  <2> HIDE DEF r
  <2>1. Legal(r.status)
    BY <1>2, UnsetDistinct DEF Legal, TerminalPhases, Outcomes, NoCondition
  <2>2. InOrder(r)
    BY <1>2 DEF InOrder, NoCondition
  <2>3. Answered(r.status.execution, K) /\ Rests(r.status, K)
    BY <1>2, NilTyped, UnsetDistinct DEF Answered, Rests, Outcomes
  <2> QED
    BY <2>1, <2>2, <2>3 DEF Sound
<1> QED
  BY <1>1, <1>2, <1>3

(* ResetStatus clears the result of the last execution but leaves its      *)
(* conditions.  The RemediationReady it leaves is never one of the new     *)
(* generation, because what is reset was not finished for it.              *)
LEMMA ResetFresh ==
    ASSUME NEW K, NEW r \in Requests, Sound(r, K), r.exists,
           ~ shouldSkipInvestigationExecution(r)
    PROVE  LET x == ResetStatus(r)
           IN /\ x \in Requests /\ Fresh(x)
              /\ x.resourceVersion = r.resourceVersion /\ x.generation = r.generation
              /\ x.spec = r.spec /\ x.annotations = r.annotations
              /\ x.status.lineage = LineageOf(r)
<1> DEFINE x == ResetStatus(r)
<1>1. LineageOf(r) \in Lineages
  BY DEF LineageOf, lineageForReconcile, Requests, Statuses
<1> DEFINE s == [r.status EXCEPT !.phase = "Collecting", !.observedGeneration = r.generation,
                               !.completedAt = Never, !.outcome = Unset, !.failure = "None",
                               !.execution = NoExecution, !.lineage = LineageOf(r),
                               !.linked = FALSE]
<1>2. x = [r EXCEPT !.status = s]
  BY DEF ResetStatus, Requests, Statuses, LineageOf
<1>3. r.status \in Statuses /\ r.generation \in Nat
  BY DEF Requests
<1>4. s \in Statuses
  <2>1. Never \in Int
    BY DEF Never
  <2>2. NoExecution \in Executions
    BY NilTyped
  <2> QED
    BY <2>1, <2>2, <1>3, <1>1 DEF Statuses
<1>5. x \in Requests
  BY <1>2, <1>4 DEF Requests
<1>6. /\ s.lineage = LineageOf(r)
      /\ s.phase = "Collecting"
      /\ s.observedGeneration = r.generation
      /\ s.completedAt = Never
      /\ s.outcome = Unset /\ s.failure = "None"
      /\ s.execution = NoExecution
      /\ s.linked = FALSE
      /\ s.RCAReady = r.status.RCAReady
      /\ s.RemediationReady = r.status.RemediationReady
  BY <1>3 DEF Statuses
<1> HIDE DEF s
<1>7. /\ x.exists = r.exists
      /\ x.resourceVersion = r.resourceVersion /\ x.generation = r.generation
      /\ x.spec = r.spec /\ x.annotations = r.annotations
      /\ x.status.lineage = LineageOf(r)
      /\ x.status.phase = "Collecting"
      /\ x.status.observedGeneration = r.generation
      /\ x.status.completedAt = Never
      /\ x.status.outcome = Unset /\ x.status.failure = "None"
      /\ x.status.execution = NoExecution
      /\ x.status.linked = FALSE
      /\ x.status.RCAReady = r.status.RCAReady
      /\ x.status.RemediationReady = r.status.RemediationReady
  BY <1>2, <1>6 DEF Requests
<1>8. /\ r.generation \in Nat /\ r.status.observedGeneration \in Nat
      /\ r.status.RemediationReady.generation \in Nat
      /\ r.status.phase \in {Unset, "Collecting", "Reasoning"} \cup TerminalPhases
  BY DEF Requests, Statuses, Conditions
<1>9. ~ ReadyAt(r.status, r.generation)
  <2>1. CASE r.status.observedGeneration # r.generation
    <3>1. r.status.RemediationReady.generation < r.generation
      BY <2>1, <1>8 DEF Sound, InOrder
    <3> QED
      BY <3>1, <1>8 DEF ReadyAt
  <2>2. CASE r.status.observedGeneration = r.generation
    <3>1. r.status.phase \notin TerminalPhases
      BY <2>2 DEF shouldSkipInvestigationExecution, isTerminalInvestigationPhase
    <3>2. r.status.phase # Unset /\ r.status.outcome = Unset
      BY <2>2, <3>1, <1>8 DEF Sound, InOrder, Legal
    <3> QED
      BY <2>2, <3>2, UnsetDistinct DEF Sound, Legal, Outcomes
  <2> QED
    BY <2>1, <2>2
<1>10. /\ r.status.RCAReady.status = "False" => r.status.RemediationReady.status = "False"
      /\ r.status.RemediationReady.generation <= r.generation /\ r.generation >= 1
  BY <1>8 DEF Sound, Legal, InOrder
<1>11. Fresh(x)
  <2> HIDE DEF x
  <2> QED
    BY <1>7, <1>9, <1>10 DEF Fresh, ReadyAt
<1> QED
  BY <1>5, <1>7, <1>11

\* Only the status is written, and of it not the lineage.
Kept(x, r) ==
    /\ x.exists = r.exists /\ x.resourceVersion = r.resourceVersion
    /\ x.generation = r.generation /\ x.spec = r.spec
    /\ x.annotations = r.annotations /\ x.status.lineage = r.status.lineage

\* A status replaces the one an object has.
LEMMA StatusReplaced ==
    ASSUME NEW r \in Requests, NEW s \in Statuses, s.lineage = r.status.lineage
    PROVE  LET x == [r EXCEPT !.status = s]
           IN x \in Requests /\ x.status = s /\ Kept(x, r)
BY DEF Requests, Kept

(* A terminal status is sound when its failure, its conditions and its     *)
(* outcome agree.                                                          *)
LEMMA TerminalSettled ==
    ASSUME NEW K, NEW r \in Requests, Fresh(r),
           NEW s \in Statuses, s.lineage = r.status.lineage,
           s.phase \in TerminalPhases,
           s.phase = "Completed" =>
              s.outcome \in Outcomes \ {"Unknown"} /\ s.failure = "None",
           s.phase = "Failed" => s.outcome = "Unknown" /\ s.failure # "None",
           s.completedAt \in Nat, s.observedGeneration = r.generation,
           s.RCAReady.status = "False" => s.RemediationReady.status = "False",
           s.RemediationReady.generation = r.generation,
           s.outcome = "Confirmed" <=> s.RemediationReady.status = "True",
           Answered(s.execution, K), Rests(s, K)
    PROVE  LET x == [r EXCEPT !.status = s]
           IN x \in Requests /\ Settled(x, K) /\ Kept(x, r) /\ x.status = s
<1> DEFINE x == [r EXCEPT !.status = s]
<1>1. x \in Requests /\ x.status = s /\ Kept(x, r)
  BY StatusReplaced
<1> HIDE DEF x
<1>2. s.phase # Unset
  BY UnsetDistinct
<1>3. s.completedAt # Never
  BY DEF Never
<1>4. ReadyAt(s, s.observedGeneration) <=> s.RemediationReady.status = "True"
  <2>1. s.RemediationReady \in Conditions
    BY DEF Statuses
  <2> QED
    BY <2>1 DEF ReadyAt, Conditions
<1>5. Legal(s)
  BY <1>2, <1>3, <1>4 DEF Legal, TerminalPhases
<1>6. InOrder(x)
  <2>1. x.generation \in Nat /\ x.generation >= 1 /\ x.generation = r.generation
    BY <1>1 DEF Fresh, Kept, Requests
  <2> QED
    BY <2>1, <1>1, <1>2 DEF InOrder
<1>7. Sound(x, K) /\ x.exists /\ x.generation = r.generation
  BY <1>1, <1>5, <1>6 DEF Sound, Kept, Fresh
<1> QED
  BY <1>1, <1>7 DEF Settled, x

\* What the apply functions share: they settle a fresh object.
SettledFrom(x, r, K) == x \in Requests /\ Settled(x, K) /\ Kept(x, r)

\* A blocked, invalid or unresolvable request ends as Failed.
LEMMA NotRunnableSettled ==
    ASSUME NEW K, NEW r \in Requests, Fresh(r), NEW t \in Nat,
           NEW cause \in {"Loop", "Invalid", "Preflight"}
    PROVE  LET x == applyNotRunnableStatus(r, cause, t)
           IN SettledFrom(x, r, K) /\ x.status.outcome # "Confirmed"
<1> DEFINE x == applyNotRunnableStatus(r, cause, t)
           no == [status |-> "False", generation |-> r.generation]
           open == [status |-> "Unknown", generation |-> r.generation]
           s == [r.status EXCEPT !.phase = "Failed", !.outcome = "Unknown", !.completedAt = t,
                   !.RCAReady = no, !.Verified = open, !.RemediationReady = no,
                   !.failure = cause]
<1>1. r.status \in Statuses /\ r.generation \in Nat
  BY DEF Requests
<1>2. x = [r EXCEPT !.status = s]
  BY DEF applyNotRunnableStatus, SetConditions, Finished, Condition, Requests, Statuses
<1>3. no \in Conditions /\ open \in Conditions
  BY <1>1 DEF Conditions
<1>4. no.status = "False" /\ no.generation = r.generation
  OBVIOUS
<1> HIDE DEF no, open
<1>5. s \in Statuses
  <2>1. "Failed" \in TerminalPhases /\ "Unknown" \in Outcomes /\ t \in Int
    BY DEF TerminalPhases, Outcomes
  <2> QED
    BY <2>1, <1>1, <1>3 DEF Statuses
<1>6. /\ s.phase = "Failed" /\ s.outcome = "Unknown" /\ s.completedAt = t
      /\ s.failure = cause /\ s.RemediationReady = no /\ s.RCAReady = no
      /\ s.lineage = r.status.lineage /\ s.execution = r.status.execution
      /\ s.observedGeneration = r.status.observedGeneration
  BY <1>1 DEF Statuses
<1> HIDE DEF s
<1>7. s.execution.state = "None" /\ s.observedGeneration = r.generation
  BY <1>6, NilTyped DEF Fresh
<1>8. Answered(s.execution, K) /\ Rests(s, K)
  BY <1>6, <1>7 DEF Answered, Rests
<1>9. LET y == [r EXCEPT !.status = s]
      IN y \in Requests /\ Settled(y, K) /\ Kept(y, r) /\ y.status = s
  BY <1>4, <1>5, <1>6, <1>7, <1>8, TerminalSettled DEF TerminalPhases
<1> QED
  BY <1>2, <1>6, <1>9 DEF SettledFrom

\* A failed collection or answer ends as Failed; Verified stays as it was.
LEMMA IssueSettled ==
    ASSUME NEW K, NEW r \in Requests, Fresh(r), NEW t \in Nat,
           NEW cause \in {"Evidence", "RCA"},
           NEW e \in Executions, e.state \in {"None", "Rejected"}
    PROVE  LET x == applyIssueStatus(r, cause, e, t)
           IN SettledFrom(x, r, K) /\ x.status.outcome # "Confirmed"
<1> DEFINE x == applyIssueStatus(r, cause, e, t)
           no == [status |-> "False", generation |-> r.generation]
           s == [r.status EXCEPT !.phase = "Failed", !.outcome = "Unknown", !.completedAt = t,
                   !.failure = cause, !.execution = e, !.RCAReady = no,
                   !.RemediationReady = no]
<1>1. r.status \in Statuses /\ r.generation \in Nat
  BY DEF Requests
<1>2. x = [r EXCEPT !.status = s]
  BY DEF applyIssueStatus, Finished, Condition, Requests, Statuses
<1>3. no \in Conditions
  BY <1>1 DEF Conditions
<1>4. no.status = "False" /\ no.generation = r.generation
  OBVIOUS
<1> HIDE DEF no
<1>5. s \in Statuses
  <2>1. "Failed" \in TerminalPhases /\ "Unknown" \in Outcomes /\ t \in Int
    BY DEF TerminalPhases, Outcomes
  <2> QED
    BY <2>1, <1>1, <1>3 DEF Statuses
<1>6. /\ s.phase = "Failed" /\ s.outcome = "Unknown" /\ s.completedAt = t
      /\ s.failure = cause /\ s.RemediationReady = no /\ s.RCAReady = no
      /\ s.lineage = r.status.lineage /\ s.execution = e
      /\ s.observedGeneration = r.status.observedGeneration
  BY <1>1 DEF Statuses
<1> HIDE DEF s
<1>7. s.observedGeneration = r.generation
  BY <1>6 DEF Fresh
<1>8. Answered(s.execution, K) /\ Rests(s, K)
  BY <1>6 DEF Answered, Rests
<1>9. LET y == [r EXCEPT !.status = s]
      IN y \in Requests /\ Settled(y, K) /\ Kept(y, r) /\ y.status = s
  BY <1>4, <1>5, <1>6, <1>7, <1>8, TerminalSettled DEF TerminalPhases
<1> QED
  BY <1>2, <1>6, <1>9 DEF SettledFrom

\* The evidence gate ends the matter without a provider.
LEMMA GateSettled ==
    ASSUME NEW K, NEW r \in Requests, Fresh(r), NEW t \in Nat,
           NEW x \in {applyEvidenceRequirementInconclusiveStatus(r, t),
                      applyEvidenceRequirementNoIssueFoundStatus(r, t)}
    PROVE  SettledFrom(x, r, K) /\ x.status.outcome # "Confirmed"
<1>1. PICK o \in {"Inconclusive", "NoIssueFound"}, a \in {"True", "False"},
           v \in {"True", "Unknown"} :
         x = SetConditions(Finished(r, "Completed", o, t), a, v, "False")
  BY DEF applyEvidenceRequirementInconclusiveStatus, applyEvidenceRequirementNoIssueFoundStatus
<1> DEFINE no == [status |-> "False", generation |-> r.generation]
           ready == [status |-> a, generation |-> r.generation]
           seen == [status |-> v, generation |-> r.generation]
           s == [r.status EXCEPT !.phase = "Completed", !.outcome = o, !.completedAt = t,
                   !.RCAReady = ready, !.Verified = seen, !.RemediationReady = no]
<1>2. r.status \in Statuses /\ r.generation \in Nat
  BY DEF Requests
<1>3. x = [r EXCEPT !.status = s]
  BY <1>1 DEF SetConditions, Finished, Condition, Requests, Statuses
<1>4. no \in Conditions /\ ready \in Conditions /\ seen \in Conditions
  BY <1>2 DEF Conditions
<1>5. no.status = "False" /\ no.generation = r.generation
  OBVIOUS
<1> HIDE DEF no, ready, seen
<1>6. s \in Statuses
  <2>1. "Completed" \in TerminalPhases /\ o \in Outcomes /\ t \in Int
    BY DEF TerminalPhases, Outcomes
  <2> QED
    BY <2>1, <1>2, <1>4 DEF Statuses
<1>7. /\ s.phase = "Completed" /\ s.outcome = o /\ s.completedAt = t
      /\ s.failure = r.status.failure /\ s.RemediationReady = no
      /\ s.lineage = r.status.lineage /\ s.execution = r.status.execution
      /\ s.observedGeneration = r.status.observedGeneration
  BY <1>2 DEF Statuses
<1> HIDE DEF s
<1>8. /\ s.execution.state = "None" /\ s.observedGeneration = r.generation
      /\ s.failure = "None"
  BY <1>7, NilTyped DEF Fresh
<1>9. /\ Answered(s.execution, K) /\ Rests(s, K)
      /\ o \in Outcomes \ {"Unknown"} /\ o # "Confirmed"
  BY <1>7, <1>8 DEF Answered, Rests, Outcomes
<1>10. LET y == [r EXCEPT !.status = s]
       IN y \in Requests /\ Settled(y, K) /\ Kept(y, r) /\ y.status = s
  BY <1>5, <1>6, <1>7, <1>8, <1>9, TerminalSettled DEF TerminalPhases
<1> QED
  BY <1>3, <1>7, <1>9, <1>10 DEF SettledFrom

(* The verdict on an answer the provider gave: confirmed only when the     *)
(* evidence supports one of the causes and contradicts none.               *)
LEMMA StructuredSettled ==
    ASSUME NEW K, NEW r \in Requests, Fresh(r), NEW t \in Nat,
           NEW id \in ExecutionIDs, NEW answer \in SUBSET Claims,
           id.generation = r.generation, [id |-> id, answer |-> answer] \in K
    PROVE  SettledFrom(applyStructuredRCAStatus(r, id, answer, t), r, K)
<1> DEFINE x == applyStructuredRCAStatus(r, id, answer, t)
           o == evaluateCanonicalVerdict(r.spec, id.digest.seen, answer)
           v == IF o = "Confirmed" THEN "True" ELSE "False"
           c == [status |-> v, generation |-> r.generation]
           e == [state |-> "Finalized", id |-> id, answer |-> answer]
           s == [r.status EXCEPT !.phase = "Completed", !.outcome = o, !.completedAt = t,
                   !.RCAReady = c, !.Verified = c, !.RemediationReady = c, !.execution = e]
<1>1. r.status \in Statuses /\ r.generation \in Nat
  BY DEF Requests
<1>2. x = [r EXCEPT !.status = s]
  BY DEF applyStructuredRCAStatus, SetConditions, Finished, Condition, Requests, Statuses
<1>3. o \in {"Confirmed", "Inconclusive"}
  BY DEF evaluateCanonicalVerdict
<1>4. o = "Confirmed" =>
        /\ (answer \cup id.digest.seen.mechanism) \cap id.digest.seen.supports # {}
        /\ answer \cap id.digest.seen.contradicts = {}
  BY DEF evaluateCanonicalVerdict, rootCauseClaims
<1> HIDE DEF o
<1>5. /\ c \in Conditions /\ c.generation = r.generation
      /\ c.status = "True" <=> o = "Confirmed"
  BY <1>1 DEF Conditions
<1>6. /\ e \in Executions /\ e.state = "Finalized" /\ e.id = id
      /\ e.answer = answer
  BY DEF Executions
<1> HIDE DEF c, e
<1>7. s \in Statuses
  <2>1. "Completed" \in TerminalPhases /\ o \in Outcomes /\ t \in Int
    BY <1>3 DEF TerminalPhases, Outcomes
  <2> QED
    BY <2>1, <1>1, <1>5, <1>6 DEF Statuses
<1>8. /\ s.phase = "Completed" /\ s.outcome = o /\ s.completedAt = t
      /\ s.failure = r.status.failure /\ s.RemediationReady = c /\ s.RCAReady = c
      /\ s.lineage = r.status.lineage /\ s.execution = e
      /\ s.observedGeneration = r.status.observedGeneration
  BY <1>1 DEF Statuses
<1> HIDE DEF s
<1>9. s.observedGeneration = r.generation /\ s.failure = "None"
  BY <1>8 DEF Fresh
<1>10. Answered(s.execution, K)
  BY <1>6, <1>8 DEF Answered
<1>11. Rests(s, K)
  BY <1>4, <1>6, <1>8, <1>9 DEF Rests
<1>12. s.outcome \in Outcomes \ {"Unknown"}
  BY <1>3, <1>8 DEF Outcomes
<1>13. LET y == [r EXCEPT !.status = s]
       IN y \in Requests /\ Settled(y, K) /\ Kept(y, r) /\ y.status = s
  BY <1>5, <1>7, <1>8, <1>9, <1>10, <1>11, <1>12, TerminalSettled DEF TerminalPhases
<1> QED
  BY <1>2, <1>13 DEF SettledFrom

\* The server counts a version with every write.
LEMMA Bumped ==
    ASSUME NEW r \in Requests
    PROVE  LET x == [r EXCEPT !.resourceVersion = @ + 1]
           IN /\ x \in Requests /\ x.resourceVersion = r.resourceVersion + 1
              /\ x.exists = r.exists /\ x.generation = r.generation /\ x.spec = r.spec
              /\ x.annotations = r.annotations /\ x.status = r.status
BY DEF Requests

\* What persistProviderCompletedCheckpoint writes.
Checkpointed(r, id, answer) ==
    [r EXCEPT !.resourceVersion = @ + 1,
              !.status.phase = "Reasoning",
              !.status.execution = [state |-> "ProviderCompleted",
                                    id |-> id, answer |-> answer]]

\* The checkpoint of an answer claims no result yet and does not finish.
LEMMA CheckpointSound ==
    ASSUME NEW K, NEW r \in Requests, Fresh(r),
           NEW id \in ExecutionIDs, NEW answer \in SUBSET Claims,
           [id |-> id, answer |-> answer] \in K
    PROVE  LET x == Checkpointed(r, id, answer)
           IN /\ x \in Requests /\ x.resourceVersion = r.resourceVersion + 1
              /\ x.exists = r.exists /\ x.generation = r.generation /\ x.spec = r.spec
              /\ x.annotations = r.annotations
              /\ x.status.lineage = r.status.lineage
              /\ x.status.observedGeneration = r.generation
              /\ Sound(x, K) /\ x.status.outcome = Unset
              /\ ~ shouldSkipInvestigationExecution(x)
<1> DEFINE e == [state |-> "ProviderCompleted", id |-> id, answer |-> answer]
           s == [r.status EXCEPT !.phase = "Reasoning", !.execution = e]
           b == [r EXCEPT !.resourceVersion = @ + 1]
           x == Checkpointed(r, id, answer)
<1>1. r.status \in Statuses /\ r.generation \in Nat
  BY DEF Requests
<1>2. /\ b \in Requests /\ b.resourceVersion = r.resourceVersion + 1
      /\ b.exists = r.exists /\ b.generation = r.generation /\ b.spec = r.spec
      /\ b.annotations = r.annotations /\ b.status = r.status
  BY Bumped
<1>3. /\ e \in Executions /\ e.state = "ProviderCompleted" /\ e.id = id
      /\ e.answer = answer
  BY DEF Executions
<1>4. x = [b EXCEPT !.status = s]
  BY DEF Checkpointed, Requests, Statuses
<1> HIDE DEF b, e
<1>5. s \in Statuses
  BY <1>1, <1>3 DEF Statuses
<1>6. /\ s.phase = "Reasoning" /\ s.execution = e /\ s.outcome = r.status.outcome
      /\ s.failure = r.status.failure /\ s.completedAt = r.status.completedAt
      /\ s.linked = r.status.linked /\ s.lineage = r.status.lineage
      /\ s.observedGeneration = r.status.observedGeneration
      /\ s.RCAReady = r.status.RCAReady
      /\ s.RemediationReady = r.status.RemediationReady
  BY <1>1 DEF Statuses
<1> HIDE DEF s
<1>7. x \in Requests /\ x.status = s /\ Kept(x, b)
  BY <1>2, <1>4, <1>5, <1>6, StatusReplaced
<1> HIDE DEF x
<1>8. "Reasoning" \notin TerminalPhases /\ Unset # "Confirmed" /\ Unset # "Reasoning"
  BY UnsetDistinct DEF TerminalPhases, Outcomes
<1>9. Legal(s)
  BY <1>6, <1>8 DEF Legal, Fresh, ReadyAt, TerminalPhases
<1>10. InOrder(x)
  BY <1>1, <1>2, <1>6, <1>7, <1>8 DEF InOrder, Fresh, Kept
<1>11. Sound(x, K) /\ s.outcome = Unset
  BY <1>3, <1>6, <1>7, <1>8, <1>9, <1>10 DEF Sound, Answered, Rests, Fresh
<1>12. ~ shouldSkipInvestigationExecution(x)
  BY <1>6, <1>7, <1>8 DEF shouldSkipInvestigationExecution, isTerminalInvestigationPhase
<1>13. /\ x.resourceVersion = r.resourceVersion + 1
       /\ x.exists = r.exists /\ x.generation = r.generation /\ x.spec = r.spec
       /\ x.annotations = r.annotations /\ x.status.lineage = r.status.lineage
       /\ x.status.observedGeneration = r.generation
  BY <1>2, <1>6, <1>7 DEF Kept, Fresh
<1> QED
  BY <1>7, <1>11, <1>12, <1>13 DEF x

-----------------------------------------------------------------------------
(***************************************************************************)
(* How the parts of the invariant survive a step.                          *)
(***************************************************************************)
\* More answers and a signal that stays created disturb no sound copy.
LEMMA SoundStays ==
    ASSUME NEW K, NEW L, K \subseteq L, NEW r, Sound(r, K)
    PROVE  Sound(r, L)
BY DEF Sound, Answered, Rests

LEMMA WorkerSoundStays ==
    ASSUME NEW K, NEW L, K \subseteq L, NEW g, NEW h, g.created => h.created,
           NEW wk, WorkerSound(wk, K, g)
    PROVE  WorkerSound(wk, L, h)
<1>1. Settled(wk.obj, K) => Settled(wk.obj, L)
  BY SoundStays DEF Settled
<1> QED
  BY <1>1 DEF WorkerSound

\* The server's object moves only to a later version, and to a later generation
\* with every other spec.
Advances(q, p) ==
    /\ p.resourceVersion > q.resourceVersion
    /\ p.generation >= q.generation
    /\ p.generation = q.generation => p.spec = q.spec

\* Then every copy is one of the past.
LEMMA CopiesAge ==
    ASSUME NEW q \in Requests, NEW p \in Requests, Advances(q, p),
           NEW r \in Requests, NotNewer(r, q)
    PROVE  NotNewer(r, p) /\ r.resourceVersion # p.resourceVersion
<1>1. /\ q.resourceVersion \in Nat /\ p.resourceVersion \in Nat
      /\ r.resourceVersion \in Nat /\ q.generation \in Nat
      /\ p.generation \in Nat /\ r.generation \in Nat
  BY DEF Requests
<1> QED
  BY <1>1 DEF Advances, NotNewer

\* The cases of a step, part by part.
LEMMA Preserved ==
    ASSUME InvestigationInv, InvestigationTypeOK',
           calls \subseteq calls', signal.created => signal'.created,
           request' = request \/ Advances(request, request'),
           Sound(request', calls'), Linked(request', signal'),
           \A v \in Workers : cache'[v] = cache[v] \/ cache'[v] = request',
           \A v \in Workers :
              \/ worker'[v] = worker[v]
              \/ /\ WorkerSound(worker'[v], calls', signal')
                 /\ WorkerCoherent(worker'[v], request')
    PROVE  InvestigationInv'
<1> SUFFICES ASSUME NEW v \in Workers
             PROVE  /\ Sound(cache'[v], calls') /\ CacheCoherent(cache'[v], request')
                    /\ WorkerSound(worker'[v], calls', signal')
                    /\ WorkerCoherent(worker'[v], request')
  BY DEF InvestigationInv
<1>1. /\ request \in Requests /\ request' \in Requests
      /\ cache[v] \in Requests /\ worker[v].obj \in Requests
  BY DEF InvestigationInv, InvestigationTypeOK, WorkerStates
<1>2. Sound(cache'[v], calls') /\ CacheCoherent(cache'[v], request')
  <2>1. CASE cache'[v] = request'
    BY <2>1, <1>1 DEF CacheCoherent, NotNewer, Requests
  <2>2. CASE cache'[v] = cache[v]
    <3>1. Sound(cache[v], calls')
      BY SoundStays DEF InvestigationInv
    <3>2. CacheCoherent(cache[v], request)
      BY DEF InvestigationInv
    <3>3. CacheCoherent(cache[v], request')
      BY <1>1, <3>2, CopiesAge DEF CacheCoherent
    <3> QED
      BY <2>2, <3>1, <3>3
  <2> QED
    BY <2>1, <2>2
<1>3. WorkerSound(worker'[v], calls', signal') /\ WorkerCoherent(worker'[v], request')
  <2> SUFFICES ASSUME worker'[v] = worker[v]
               PROVE  /\ WorkerSound(worker[v], calls', signal')
                      /\ WorkerCoherent(worker[v], request')
    OBVIOUS
  <2>1. WorkerSound(worker[v], calls, signal) /\ WorkerCoherent(worker[v], request)
    BY DEF InvestigationInv
  <2>2. WorkerSound(worker[v], calls', signal')
    BY <2>1, WorkerSoundStays
  <2>3. WorkerCoherent(worker[v], request')
    BY <1>1, <2>1, CopiesAge DEF WorkerCoherent
  <2> QED
    BY <2>2, <2>3
<1> QED
  BY <1>2, <1>3

-----------------------------------------------------------------------------
(***************************************************************************)
(* Steps of a Reconcile.                                                   *)
(***************************************************************************)
\* Only replica w's memory is written.
OnlyWorker(w) ==
    /\ worker' \in [Workers -> WorkerStates]
    /\ \A v \in Workers \ {w} : worker'[v] = worker[v]

\* What Hold leaves in memory.
LEMMA HoldWorker ==
    ASSUME InvestigationTypeOK, NEW w \in Workers, NEW pc \in Pcs, NEW r \in Requests,
           NEW id \in ExecutionIDs, NEW answer \in SUBSET Claims,
           Hold(w, pc, r, id, answer)
    PROVE  /\ OnlyWorker(w)
           /\ worker'[w].pc = pc /\ worker'[w].obj = r
           /\ worker'[w].id = id /\ worker'[w].answer = answer
<1> DEFINE e == IF pc = "reason" THEN cache[w].status.execution ELSE NoExecution
           wk == [worker[w] EXCEPT !.pc = pc, !.obj = r, !.id = id, !.answer = answer,
                                   !.original = e]
<1>1. worker' = [worker EXCEPT ![w] = wk]
  BY DEF Hold
<1>2. e \in Executions
  <2>1. NoExecution \in Executions
    BY NilTyped
  <2>2. cache[w].status.execution \in Executions
    BY DEF InvestigationTypeOK, Requests, Statuses
  <2> QED
    BY <2>1, <2>2
<1> HIDE DEF e
<1>3. worker[w] \in WorkerStates /\ worker \in [Workers -> WorkerStates]
  BY DEF InvestigationTypeOK
<1>4. /\ wk \in WorkerStates /\ wk.pc = pc /\ wk.obj = r
      /\ wk.id = id /\ wk.answer = answer
  BY <1>2, <1>3 DEF WorkerStates
<1> HIDE DEF wk
<1> QED
  BY <1>1, <1>3, <1>4 DEF OnlyWorker

\* What a Reconcile that returns leaves in memory.
LEMMA ReturnWorker ==
    ASSUME InvestigationTypeOK, NEW w \in Workers, Return(w)
    PROVE  OnlyWorker(w) /\ worker'[w].pc = "idle"
<1>1. (CHOOSE s \in Specs : TRUE) \in Specs
  BY InvestigationAssumption
<1>2. NoRequest \in Requests
  BY <1>1, NewRequestSound, NilTyped DEF NoRequest
<1>3. Idle(NoRequest) \in WorkerStates /\ Idle(NoRequest).pc = "idle"
  BY <1>2, NilTyped DEF Idle, WorkerStates, Pcs
<1> QED
  BY <1>3 DEF Return, OnlyWorker, InvestigationTypeOK

\* A step that leaves the server's objects and the cache as they are.
LEMMA MemoryStep ==
    ASSUME InvestigationInv, NEW w \in Workers, OnlyWorker(w),
           UNCHANGED <<request, cache, signal, evidence, provider, touches, now>>,
           queue' \in [Workers -> BOOLEAN], failures' \in Nat,
           calls \subseteq calls', calls' \subseteq Calls,
           WorkerSound(worker'[w], calls', signal), WorkerCoherent(worker'[w], request)
    PROVE  InvestigationInv'
<1>1. InvestigationTypeOK'
  BY DEF InvestigationInv, InvestigationTypeOK, OnlyWorker
<1>2. Sound(request', calls') /\ Linked(request', signal')
  BY SoundStays DEF InvestigationInv
<1>3. \A v \in Workers :
         \/ worker'[v] = worker[v]
         \/ /\ WorkerSound(worker'[v], calls', signal')
            /\ WorkerCoherent(worker'[v], request')
  BY DEF OnlyWorker
<1> QED
  BY <1>1, <1>2, <1>3, Preserved

\* A Reconcile that holds nothing to write has nothing to keep.
LEMMA IdleSound ==
    ASSUME NEW wk, wk.pc \in {"idle", "delete"}, NEW K, NEW g, NEW q
    PROVE  WorkerSound(wk, K, g) /\ WorkerCoherent(wk, q)
BY DEF WorkerSound, WorkerCoherent, Writing

\* A copy of the past, or one built on the server's object as it is.
CoherentCopy(r, q) ==
    NotNewer(r, q) /\ (r.resourceVersion = q.resourceVersion => BuiltOn(r, q))

LEMMA KeptCoherent ==
    ASSUME NEW x, NEW r, NEW q, Kept(x, r), CoherentCopy(r, q)
    PROVE  CoherentCopy(x, q)
BY DEF Kept, CoherentCopy, NotNewer, BuiltOn

\* What a Reconcile starts from: reset, and built on the copy in the cache.
LEMMA ReadFresh ==
    ASSUME InvestigationInv, NEW w \in Workers, cache[w].exists,
           ~ shouldSkipInvestigationExecution(cache[w])
    PROVE  LET r == ResetStatus(cache[w])
           IN /\ r \in Requests /\ Fresh(r) /\ CoherentCopy(r, request)
              /\ r.generation = cache[w].generation /\ r.spec = cache[w].spec
              /\ r.status.lineage = LineageOf(cache[w])
<1> DEFINE r == ResetStatus(cache[w])
<1>1. cache[w] \in Requests /\ Sound(cache[w], calls) /\ CacheCoherent(cache[w], request)
  BY DEF InvestigationInv, InvestigationTypeOK
<1>2. /\ r \in Requests /\ Fresh(r)
      /\ r.resourceVersion = cache[w].resourceVersion
      /\ r.generation = cache[w].generation
      /\ r.spec = cache[w].spec /\ r.annotations = cache[w].annotations
      /\ r.status.lineage = LineageOf(cache[w])
  BY <1>1, ResetFresh
<1> HIDE DEF r
<1>3. NotNewer(r, request)
  BY <1>1, <1>2 DEF CacheCoherent, NotNewer
<1>4. ASSUME r.resourceVersion = request.resourceVersion
      PROVE  BuiltOn(r, request)
  <2>1. cache[w] = request
    BY <1>1, <1>2, <1>4 DEF CacheCoherent
  <2> QED
    BY <2>1, <1>2 DEF BuiltOn
<1> QED
  BY <1>2, <1>3, <1>4 DEF CoherentCopy, r

\* A settled status that needs no projection is held for the final write.
LEMMA SettledHeld ==
    ASSUME NEW wk, NEW r, NEW x, NEW K, NEW g, NEW q,
           wk.pc = "update", wk.obj = x, SettledFrom(x, r, K),
           ~ Confirmed(x), CoherentCopy(r, q)
    PROVE  WorkerSound(wk, K, g) /\ WorkerCoherent(wk, q)
<1>1. CoherentCopy(x, q)
  BY KeptCoherent DEF SettledFrom
<1> QED
  BY <1>1 DEF WorkerSound, WorkerCoherent, SettledFrom, CoherentCopy

(* Concluded: the verdict on an answer is held for the projection or, when *)
(* there is nothing to project, for the final write.                       *)
LEMMA ConcludedKept ==
    ASSUME InvestigationTypeOK, NEW w \in Workers, NEW r \in Requests, Fresh(r),
           NEW id \in ExecutionIDs, NEW answer \in SUBSET Claims,
           NEW K, [id |-> id, answer |-> answer] \in K, id.generation = r.generation,
           Concluded(w, r, id, answer)
    PROVE  /\ OnlyWorker(w) /\ SettledFrom(worker'[w].obj, r, K)
           /\ worker'[w].pc \in {"promote", "update"} /\ Kept(worker'[w].obj, r)
           /\ worker'[w].pc = "promote" <=> Confirmed(worker'[w].obj)
<1> DEFINE x == applyStructuredRCAStatus(r, id, answer, now)
           p == IF r.spec.createRiskSignal /\ x.status.outcome = "Confirmed"
                THEN "promote" ELSE "update"
<1>1. Hold(w, p, x, id, answer)
  BY DEF Concluded
<1>2. SettledFrom(x, r, K)
  BY StructuredSettled DEF InvestigationTypeOK
<1> HIDE DEF x
<1>3. p \in Pcs /\ x \in Requests
  BY <1>2 DEF Pcs, SettledFrom
<1>4. p = "promote" <=> Confirmed(x)
  BY <1>2 DEF Confirmed, SettledFrom, Kept
<1>5. p \in {"promote", "update"}
  OBVIOUS
<1> HIDE DEF p
<1>6. OnlyWorker(w) /\ worker'[w].pc = p /\ worker'[w].obj = x
  BY <1>1, <1>3, HoldWorker
<1> QED
  BY <1>2, <1>4, <1>5, <1>6 DEF SettledFrom

\* ... for whatever object q the server then holds.
LEMMA ConcludedHeld ==
    ASSUME InvestigationTypeOK, NEW w \in Workers, NEW r \in Requests, Fresh(r),
           NEW id \in ExecutionIDs, NEW answer \in SUBSET Claims,
           NEW K, [id |-> id, answer |-> answer] \in K, id.generation = r.generation,
           Concluded(w, r, id, answer), NEW g, NEW q, CoherentCopy(r, q)
    PROVE  /\ OnlyWorker(w)
           /\ WorkerSound(worker'[w], K, g) /\ WorkerCoherent(worker'[w], q)
<1>1. /\ OnlyWorker(w) /\ SettledFrom(worker'[w].obj, r, K)
      /\ worker'[w].pc \in {"promote", "update"}
      /\ worker'[w].pc = "promote" <=> Confirmed(worker'[w].obj)
  BY ConcludedKept
<1>2. CoherentCopy(worker'[w].obj, q)
  BY <1>1, KeptCoherent DEF SettledFrom
<1> QED
  BY <1>1, <1>2 DEF WorkerSound, WorkerCoherent, CoherentCopy, SettledFrom

\* Deciding without a provider call: loop prevention, validation, preflight,
\* failed queries, and a finished request past its time.
LEMMA ShortReconcileStep ==
    ASSUME InvestigationInv, NEW w \in Workers,
           ReconcileExpired(w) \/ ReconcileNotRunnable(w) \/ ReconcileIssue(w)
    PROVE  InvestigationInv'
<1> DEFINE r == ResetStatus(cache[w])
<1> USE DEF worldVars
<1>1. /\ InvestigationTypeOK /\ now \in Nat /\ failures \in Nat
      /\ queue \in [Workers -> BOOLEAN] /\ calls \subseteq Calls
  BY DEF InvestigationInv, InvestigationTypeOK
<1>2. {"update", "delete"} \subseteq Pcs /\ NoExecution.id \in ExecutionIDs
      /\ {} \in SUBSET Claims /\ NoExecution \in Executions /\ NoExecution.state = "None"
  BY NilTyped DEF Pcs
<1>3. CASE ReconcileExpired(w)
  <2>1. OnlyWorker(w) /\ worker'[w].pc = "delete"
    BY <1>1, <1>2, <1>3 DEF ReconcileExpired, OnlyWorker, InvestigationTypeOK, WorkerStates
  <2>2. WorkerSound(worker'[w], calls', signal) /\ WorkerCoherent(worker'[w], request)
    BY <2>1, IdleSound
  <2> QED
    BY <1>1, <1>3, <2>1, <2>2, MemoryStep DEF ReconcileExpired, Take
<1>4. ASSUME NEW x, SettledFrom(x, r, calls), x.status.outcome # "Confirmed",
             Hold(w, "update", x, NoExecution.id, {}), Reads(w),
             failures' \in Nat,
             UNCHANGED <<request, cache, signal, evidence, provider, calls, touches, now>>
      PROVE  InvestigationInv'
  <2>1. CoherentCopy(r, request)
    BY <1>4, ReadFresh DEF Reads
  <2>2. OnlyWorker(w) /\ worker'[w].pc = "update" /\ worker'[w].obj = x
    BY <1>1, <1>2, <1>4, HoldWorker DEF SettledFrom
  <2>3. WorkerSound(worker'[w], calls, signal) /\ WorkerCoherent(worker'[w], request)
    BY <1>4, <2>1, <2>2, SettledHeld DEF Confirmed
  <2> QED
    BY <1>1, <1>4, <2>2, <2>3, MemoryStep DEF Reads, Take
<1>5. ASSUME Reads(w) PROVE r \in Requests /\ Fresh(r)
  BY <1>5, ReadFresh DEF Reads
<1>6. CASE ReconcileNotRunnable(w)
  <2>1. Reads(w) /\ UNCHANGED <<request, cache, worldVars>>
    BY <1>6 DEF ReconcileNotRunnable
  <2>2. PICK cause \in {"Loop", "Invalid", "Preflight"} :
           Hold(w, "update", applyNotRunnableStatus(r, cause, now), NoExecution.id, {})
    BY <1>6 DEF ReconcileNotRunnable
  <2> QED
    BY <1>1, <1>4, <1>5, <2>1, <2>2, NotRunnableSettled
<1>7. CASE ReconcileIssue(w)
  <2>1. /\ Reads(w) /\ failures' = failures + 1
        /\ UNCHANGED <<request, cache, signal, evidence, provider, calls, touches, now>>
    BY <1>7 DEF ReconcileIssue, Runnable
  <2>2. PICK x \in {applyNotRunnableStatus(r, "Preflight", now),
                    applyIssueStatus(r, "Evidence", NoExecution, now)} :
           Hold(w, "update", x, NoExecution.id, {})
    BY <1>7 DEF ReconcileIssue
  <2>3. SettledFrom(x, r, calls) /\ x.status.outcome # "Confirmed"
    BY <1>1, <1>2, <1>5, <2>1, NotRunnableSettled, IssueSettled
  <2> QED
    BY <1>1, <1>4, <2>1, <2>2, <2>3
<1> QED
  BY <1>3, <1>6, <1>7

\* Collecting evidence: the gate settles it, a persisted answer is reused, or
\* the provider is to be asked.
LEMMA EvidenceStep ==
    ASSUME InvestigationInv, NEW w \in Workers, ReconcileEvidence(w)
    PROVE  InvestigationInv'
<1> DEFINE r == ResetStatus(cache[w])
           bundle == evidenceBundleDigest(evidence, now)
           id == investigationExecutionID(r, bundle, provider)
           held == cache[w].status.execution
<1>1. /\ InvestigationTypeOK /\ now \in Nat /\ failures \in Nat
      /\ queue \in [Workers -> BOOLEAN] /\ calls \subseteq Calls
      /\ evidence \in Observations /\ provider \in Nat /\ held \in Executions
  BY DEF InvestigationInv, InvestigationTypeOK, Requests, Statuses
<1>2. /\ Reads(w) /\ UNCHANGED <<request, cache, signal, evidence, provider, touches, now>>
      /\ calls' = calls /\ failures' = failures /\ queue' \in [Workers -> BOOLEAN]
  BY <1>1 DEF ReconcileEvidence, Runnable, worldVars, Reads, Take
<1>3. r \in Requests /\ Fresh(r) /\ CoherentCopy(r, request)
  BY <1>2, ReadFresh DEF Reads
<1>4. {"update", "reason"} \subseteq Pcs /\ NoExecution.id \in ExecutionIDs
      /\ {} \in SUBSET Claims
  BY NilTyped DEF Pcs
<1>5. bundle \in Bundles
  BY <1>1 DEF evidenceBundleDigest, Bundles, Never
<1> HIDE DEF bundle
<1>6. id \in ExecutionIDs /\ id.generation = r.generation
  BY <1>1, <1>3, <1>5 DEF investigationExecutionID, ExecutionIDs, Requests
<1>7. \/ \E x \in {applyEvidenceRequirementInconclusiveStatus(r, now),
                    applyEvidenceRequirementNoIssueFoundStatus(r, now)} :
              Hold(w, "update", x, NoExecution.id, {})
      \/ reusableProviderResult(held, id) /\ Concluded(w, r, id, held.answer)
      \/ Hold(w, "reason", r, id, {})
  BY DEF ReconcileEvidence, bundle
<1> HIDE DEF id, r, held
<1>8. SUFFICES /\ OnlyWorker(w)
               /\ WorkerSound(worker'[w], calls, signal)
               /\ WorkerCoherent(worker'[w], request)
  BY <1>1, <1>2, <1>8, MemoryStep
<1>9. ASSUME NEW x \in {applyEvidenceRequirementInconclusiveStatus(r, now),
                        applyEvidenceRequirementNoIssueFoundStatus(r, now)},
             Hold(w, "update", x, NoExecution.id, {})
      PROVE  /\ OnlyWorker(w)
             /\ WorkerSound(worker'[w], calls, signal)
             /\ WorkerCoherent(worker'[w], request)
  <2>1. SettledFrom(x, r, calls) /\ x.status.outcome # "Confirmed"
    BY <1>1, <1>3, GateSettled
  <2>2. OnlyWorker(w) /\ worker'[w].pc = "update" /\ worker'[w].obj = x
    BY <1>1, <1>4, <1>9, <2>1, HoldWorker DEF SettledFrom
  <2> QED
    BY <1>3, <2>1, <2>2, SettledHeld DEF Confirmed
<1>10. CASE reusableProviderResult(held, id) /\ Concluded(w, r, id, held.answer)
  <2>1. Answered(held, calls)
    BY DEF held, InvestigationInv, Sound
  <2>2. [id |-> id, answer |-> held.answer] \in calls /\ held.answer \in SUBSET Claims
    BY <1>1, <1>10, <2>1 DEF reusableProviderResult, Answered, Executions
  <2> QED
    BY <1>1, <1>3, <1>6, <1>10, <2>2, ConcludedHeld
<1>11. CASE Hold(w, "reason", r, id, {})
  <2>1. /\ OnlyWorker(w) /\ worker'[w].pc = "reason" /\ worker'[w].obj = r
        /\ worker'[w].id = id
    BY <1>1, <1>3, <1>4, <1>6, <1>11, HoldWorker
  <2> QED
    BY <1>3, <1>6, <2>1 DEF WorkerSound, WorkerCoherent, CoherentCopy
<1> QED
  BY <1>7, <1>9, <1>10, <1>11

\* The provider's answer, a rejection, or an error.
LEMMA GenerateStep ==
    ASSUME InvestigationInv, NEW w \in Workers, GenerateRCA(w)
    PROVE  InvestigationInv'
<1> DEFINE wk == worker[w]
           Rejected == [state |-> "Rejected", id |-> wk.id, answer |-> {}]
<1>1. /\ InvestigationTypeOK /\ now \in Nat /\ failures \in Nat
      /\ queue \in [Workers -> BOOLEAN] /\ calls \subseteq Calls
      /\ wk.obj \in Requests /\ wk.id \in ExecutionIDs
  BY DEF InvestigationInv, InvestigationTypeOK, WorkerStates
<1>2. /\ Fresh(wk.obj) /\ wk.id.generation = wk.obj.generation
      /\ CoherentCopy(wk.obj, request)
  BY DEF GenerateRCA, At, InvestigationInv, WorkerSound, WorkerCoherent, CoherentCopy, Writing
<1>3. UNCHANGED <<request, cache, signal, evidence, provider, touches, now>>
  BY DEF GenerateRCA
<1>4. {"update", "checkpoint"} \subseteq Pcs /\ {} \in SUBSET Claims
      /\ NoExecution \in Executions /\ NoExecution.state = "None"
  BY NilTyped DEF Pcs
<1>5. Rejected \in Executions /\ Rejected.state = "Rejected"
  BY <1>1 DEF Executions
<1>6. \/ \E answer \in Answers :
            /\ calls' = calls \cup {[id |-> wk.id, answer |-> answer]}
            /\ Hold(w, "checkpoint", wk.obj, wk.id, answer)
            /\ UNCHANGED <<failures, queue>>
      \/ /\ failures' = failures + 1 /\ UNCHANGED <<calls, queue>>
         /\ \E e \in {NoExecution, Rejected} :
               Hold(w, "update", applyIssueStatus(wk.obj, "RCA", e, now), wk.id, {})
      \/ /\ failures' = failures + 1 /\ UNCHANGED calls
         /\ Return(w) /\ Requeue(w)
  BY DEF GenerateRCA
<1> HIDE DEF wk, Rejected
<1>7. ASSUME NEW answer \in Answers,
             calls' = calls \cup {[id |-> wk.id, answer |-> answer]},
             Hold(w, "checkpoint", wk.obj, wk.id, answer),
             UNCHANGED <<failures, queue>>
      PROVE  InvestigationInv'
  <2>1. answer \in SUBSET Claims /\ calls' \subseteq Calls /\ calls \subseteq calls'
    BY <1>1, <1>7, InvestigationAssumption DEF Calls
  <2>2. /\ OnlyWorker(w) /\ worker'[w].pc = "checkpoint" /\ worker'[w].obj = wk.obj
        /\ worker'[w].id = wk.id /\ worker'[w].answer = answer
    BY <1>1, <1>4, <1>7, <2>1, HoldWorker
  <2>3. WorkerSound(worker'[w], calls', signal) /\ WorkerCoherent(worker'[w], request)
    BY <1>2, <1>7, <2>2 DEF WorkerSound, WorkerCoherent, CoherentCopy
  <2> QED
    BY <1>1, <1>3, <1>7, <2>1, <2>2, <2>3, MemoryStep
<1>8. ASSUME NEW e \in {NoExecution, Rejected}, failures' = failures + 1,
             UNCHANGED <<calls, queue>>,
             Hold(w, "update", applyIssueStatus(wk.obj, "RCA", e, now), wk.id, {})
      PROVE  InvestigationInv'
  <2> DEFINE x == applyIssueStatus(wk.obj, "RCA", e, now)
  <2>1. SettledFrom(x, wk.obj, calls) /\ x.status.outcome # "Confirmed"
    BY <1>1, <1>2, <1>4, <1>5, IssueSettled
  <2> HIDE DEF x
  <2>2. OnlyWorker(w) /\ worker'[w].pc = "update" /\ worker'[w].obj = x
    BY <1>1, <1>4, <1>8, <2>1, HoldWorker DEF SettledFrom, x
  <2>3. WorkerSound(worker'[w], calls, signal) /\ WorkerCoherent(worker'[w], request)
    BY <1>2, <2>1, <2>2, SettledHeld DEF Confirmed
  <2> QED
    BY <1>1, <1>3, <1>8, <2>2, <2>3, MemoryStep
<1>9. ASSUME failures' = failures + 1, UNCHANGED calls, Return(w), Requeue(w)
      PROVE  InvestigationInv'
  <2>1. OnlyWorker(w) /\ worker'[w].pc = "idle"
    BY <1>1, <1>9, ReturnWorker
  <2>2. queue' \in [Workers -> BOOLEAN]
    BY <1>1, <1>9 DEF Requeue
  <2> QED
    BY <1>1, <1>3, <1>9, <2>1, <2>2, IdleSound, MemoryStep
<1> QED
  BY <1>6, <1>7, <1>8, <1>9

\* A Reconcile that ends without writing.
LEMMA EndStep ==
    ASSUME InvestigationInv, NEW w \in Workers, StatusConflict(w) \/ Fail(w)
    PROVE  InvestigationInv'
<1>1. /\ InvestigationTypeOK /\ failures \in Nat /\ calls \subseteq Calls
      /\ queue \in [Workers -> BOOLEAN]
  BY DEF InvestigationInv, InvestigationTypeOK
<1>2. Return(w) /\ UNCHANGED <<request, cache, signal, evidence, provider, calls, touches, now>>
  BY DEF StatusConflict, Fail, worldVars
<1>3. failures' \in Nat /\ queue' \in [Workers -> BOOLEAN]
  <2>1. failures' = failures \/ failures' = failures + 1
    BY DEF StatusConflict, Fail, worldVars
  <2>2. queue' = queue \/ Requeue(w)
    BY DEF StatusConflict, Fail
  <2>3. failures' \in Nat
    BY <1>1, <2>1
  <2>4. queue' \in [Workers -> BOOLEAN]
    BY <1>1, <2>2 DEF Requeue
  <2> QED
    BY <2>3, <2>4
<1>4. OnlyWorker(w) /\ worker'[w].pc = "idle"
  BY <1>1, <1>2, ReturnWorker
<1> QED
  BY <1>1, <1>2, <1>3, <1>4, IdleSound, MemoryStep

\* The checkpoint is written to the object it was built on, or refused.
LEMMA CheckpointStep ==
    ASSUME InvestigationInv, NEW w \in Workers, Checkpoint(w)
    PROVE  InvestigationInv'
<1> DEFINE wk == worker[w]
           r == wk.obj
           x == Checkpointed(r, wk.id, wk.answer)
           b == [r EXCEPT !.resourceVersion = @ + 1]
<1>1. /\ InvestigationTypeOK /\ calls \subseteq Calls /\ queue \in [Workers -> BOOLEAN]
      /\ r \in Requests /\ wk.id \in ExecutionIDs /\ wk.answer \in SUBSET Claims
      /\ request \in Requests /\ failures \in Nat
  BY DEF InvestigationInv, InvestigationTypeOK, WorkerStates
<1>2. /\ Fresh(r) /\ wk.id.generation = r.generation /\ CoherentCopy(r, request)
      /\ [id |-> wk.id, answer |-> wk.answer] \in calls
  BY DEF Checkpoint, At, InvestigationInv, WorkerSound, WorkerCoherent, CoherentCopy, Writing
<1>3. UNCHANGED <<cache, signal, evidence, provider, calls, touches, failures, now>>
  BY DEF Checkpoint, worldVars
<1>4. \/ /\ r.resourceVersion = request.resourceVersion
         /\ request' = x /\ Concluded(w, b, wk.id, wk.answer) /\ UNCHANGED queue
      \/ UNCHANGED request /\ Concluded(w, r, wk.id, wk.answer) /\ UNCHANGED queue
      \/ UNCHANGED request /\ Return(w) /\ Requeue(w)
  BY DEF Checkpoint, Checkpointed
<1>5. /\ x \in Requests /\ x.resourceVersion = r.resourceVersion + 1
      /\ x.exists = r.exists /\ x.generation = r.generation /\ x.spec = r.spec
      /\ x.annotations = r.annotations /\ x.status.lineage = r.status.lineage
      /\ Sound(x, calls) /\ x.status.outcome = Unset
      /\ ~ shouldSkipInvestigationExecution(x)
  BY <1>1, <1>2, CheckpointSound
<1>6. /\ b \in Requests /\ b.resourceVersion = r.resourceVersion + 1
      /\ b.exists = r.exists /\ b.generation = r.generation /\ b.spec = r.spec
      /\ b.annotations = r.annotations /\ b.status = r.status
  BY <1>1, Bumped
<1> HIDE DEF x, b, r, wk
<1>7. CASE /\ r.resourceVersion = request.resourceVersion
           /\ request' = x /\ Concluded(w, b, wk.id, wk.answer) /\ UNCHANGED queue
  <2>1. BuiltOn(r, request)
    BY <1>2, <1>7 DEF CoherentCopy
  <2>2. Advances(request, x)
    BY <1>1, <1>5, <1>7, <2>1 DEF Advances, BuiltOn, Requests
  <2>3. Fresh(b)
    BY <1>2, <1>6 DEF Fresh
  <2>4. CoherentCopy(b, x)
    <3>1. LineageOf(x) = x.status.lineage
      BY <1>5, <2>1 DEF LineageOf, lineageForReconcile, BuiltOn
    <3>2. BuiltOn(b, x)
      BY <1>2, <1>5, <1>6, <3>1 DEF BuiltOn, Fresh
    <3> QED
      BY <1>1, <1>5, <1>6, <3>2 DEF CoherentCopy, NotNewer, BuiltOn, Requests
  <2>5. /\ OnlyWorker(w) /\ WorkerSound(worker'[w], calls, signal)
        /\ WorkerCoherent(worker'[w], x)
    BY <1>1, <1>2, <1>6, <1>7, <2>3, <2>4, ConcludedHeld
  <2>6. InvestigationTypeOK'
    BY <1>1, <1>3, <1>5, <1>7, <2>5 DEF InvestigationTypeOK, OnlyWorker
  <2>7. Linked(request', signal')
    BY <1>5, <1>7, UnsetDistinct DEF Linked, Confirmed, Outcomes
  <2>8. \A v \in Workers :
           \/ worker'[v] = worker[v]
           \/ /\ WorkerSound(worker'[v], calls', signal')
              /\ WorkerCoherent(worker'[v], request')
    BY <1>3, <1>7, <2>5 DEF OnlyWorker
  <2> QED
    BY <1>3, <1>5, <1>7, <2>2, <2>6, <2>7, <2>8, Preserved
<1>8. CASE UNCHANGED request /\ Concluded(w, r, wk.id, wk.answer) /\ UNCHANGED queue
  <2>1. /\ OnlyWorker(w) /\ WorkerSound(worker'[w], calls, signal)
        /\ WorkerCoherent(worker'[w], request)
    BY <1>1, <1>2, <1>8, ConcludedHeld
  <2> QED
    BY <1>1, <1>3, <1>8, <2>1, MemoryStep
<1>9. CASE UNCHANGED request /\ Return(w) /\ Requeue(w)
  <2>1. OnlyWorker(w) /\ worker'[w].pc = "idle"
    BY <1>1, <1>9, ReturnWorker
  <2>2. queue' \in [Workers -> BOOLEAN]
    BY <1>1, <1>9 DEF Requeue
  <2> QED
    BY <1>1, <1>3, <1>9, <2>1, <2>2, IdleSound, MemoryStep
<1> QED
  BY <1>4, <1>7, <1>8, <1>9

\* The signal is created or brought up to date, then its status is written.
LEMMA ProjectionStep ==
    ASSUME InvestigationInv, NEW w \in Workers, Promote(w) \/ Project(w)
    PROVE  InvestigationInv'
<1> DEFINE wk == worker[w]
<1>1. /\ InvestigationTypeOK /\ wk \in WorkerStates /\ worker \in [Workers -> WorkerStates]
      /\ wk.obj \in Requests /\ wk.obj.status \in Statuses /\ signal \in Signals
  BY DEF InvestigationInv, InvestigationTypeOK, WorkerStates, Requests
<1>2. UNCHANGED <<request, cache, queue, evidence, provider, calls, touches, failures, now>>
  BY DEF Promote, Project
<1>3. /\ Settled(wk.obj, calls) /\ Confirmed(wk.obj) /\ CoherentCopy(wk.obj, request)
  BY DEF Promote, Project, At, InvestigationInv, WorkerSound, WorkerCoherent, CoherentCopy,
         Writing
<1>4. SUFFICES /\ signal' \in Signals /\ signal'.created /\ OnlyWorker(w)
               /\ WorkerSound(worker'[w], calls, signal')
               /\ WorkerCoherent(worker'[w], request)
  <2>1. InvestigationTypeOK'
    BY <1>1, <1>2, <1>4 DEF InvestigationTypeOK, OnlyWorker
  <2>2. Sound(request', calls') /\ Linked(request', signal')
    BY <1>2, <1>4 DEF InvestigationInv, Linked
  <2>3. \A v \in Workers :
           \/ worker'[v] = worker[v]
           \/ /\ WorkerSound(worker'[v], calls', signal')
              /\ WorkerCoherent(worker'[v], request')
    BY <1>2, <1>4 DEF OnlyWorker
  <2> QED
    BY <1>2, <1>4, <2>1, <2>2, <2>3, Preserved
<1>5. CASE Promote(w)
  <2> DEFINE x == [wk EXCEPT !.pc = "project", !.signalVersion = signal.resourceVersion + 1]
  <2>1. worker' = [worker EXCEPT ![w] = x]
    BY <1>5 DEF Promote
  <2>2. /\ signal.resourceVersion + 1 \in Nat /\ "project" \in Pcs
        /\ wk.obj.generation \in Nat
    BY <1>1 DEF Signals, Pcs, Requests
  <2>3. x \in WorkerStates /\ x.pc = "project" /\ x.obj = wk.obj
    BY <1>1, <2>2 DEF WorkerStates
  <2> HIDE DEF x
  <2>4. OnlyWorker(w) /\ worker'[w] = x
    BY <1>1, <2>1, <2>3 DEF OnlyWorker
  <2>5. signal' \in Signals /\ signal'.created
    <3>1. signal' = [signal EXCEPT !.created = TRUE, !.resourceVersion = @ + 1,
                                   !.generation = wk.obj.generation]
      BY <1>5 DEF Promote
    <3> QED
      BY <1>1, <2>2, <3>1 DEF Signals
  <2> QED
    BY <1>3, <2>3, <2>4, <2>5 DEF WorkerSound, WorkerCoherent, CoherentCopy
<1>6. CASE Project(w)
  <2> DEFINE s == [wk.obj.status EXCEPT !.linked = TRUE]
             o == [wk.obj EXCEPT !.status = s]
             x == [wk EXCEPT !.pc = "update", !.obj = o, !.signalVersion = 0]
  <2>1. worker' = [worker EXCEPT ![w] = x]
    BY <1>1, <1>6 DEF Project, WorkerStates, Requests, Statuses
  <2>2. /\ s \in Statuses /\ s.linked /\ s.lineage = wk.obj.status.lineage
        /\ s.phase = wk.obj.status.phase /\ s.outcome = wk.obj.status.outcome
        /\ s.failure = wk.obj.status.failure
        /\ s.completedAt = wk.obj.status.completedAt
        /\ s.observedGeneration = wk.obj.status.observedGeneration
        /\ s.execution = wk.obj.status.execution
        /\ s.RCAReady = wk.obj.status.RCAReady
        /\ s.RemediationReady = wk.obj.status.RemediationReady
    BY <1>1 DEF Statuses
  <2> HIDE DEF s
  <2>3. o \in Requests /\ o.status = s /\ Kept(o, wk.obj)
    BY <1>1, <2>2, StatusReplaced
  <2> HIDE DEF o
  <2>4. x \in WorkerStates /\ x.pc = "update" /\ x.obj = o
    BY <1>1, <2>3 DEF WorkerStates, Pcs
  <2> HIDE DEF x
  <2>5. OnlyWorker(w) /\ worker'[w] = x
    BY <1>1, <2>1, <2>4 DEF OnlyWorker
  <2>6. Settled(o, calls)
    <3>1. Legal(s)
      BY <1>3, <2>2 DEF Settled, Sound, Legal, ReadyAt
    <3>2. InOrder(o)
      BY <1>3, <2>2, <2>3 DEF Settled, Sound, InOrder, Kept
    <3>3. Answered(s.execution, calls) /\ Rests(s, calls)
      BY <1>3, <2>2 DEF Settled, Sound, Rests
    <3> QED
      BY <1>3, <2>2, <2>3, <3>1, <3>2, <3>3 DEF Settled, Sound, Kept
  <2>7. CoherentCopy(o, request)
    BY <1>3, <2>3, KeptCoherent
  <2>8. signal' \in Signals /\ signal'.created
    <3>1. signal.created
      BY <1>6 DEF Project, At, InvestigationInv, WorkerSound
    <3>2. signal.resourceVersion + 1 \in Nat
      BY <1>1 DEF Signals
    <3>3. \/ signal' = signal
          \/ signal' = [signal EXCEPT !.resourceVersion = @ + 1, !.phase = "Confirmed",
                                      !.RCAReady = TRUE]
      BY <1>6 DEF Project
    <3> QED
      BY <1>1, <3>1, <3>2, <3>3 DEF Signals
  <2> QED
    BY <2>2, <2>3, <2>4, <2>5, <2>6, <2>7, <2>8 DEF WorkerSound, WorkerCoherent, CoherentCopy
<1> QED
  BY <1>5, <1>6

\* The final write replaces the object its status was built on.
LEMMA UpdateStep ==
    ASSUME InvestigationInv, NEW w \in Workers, StatusUpdate(w)
    PROVE  InvestigationInv'
<1> DEFINE r == worker[w].obj
           b == [r EXCEPT !.resourceVersion = @ + 1]
<1>1. InvestigationTypeOK /\ r \in Requests /\ request \in Requests
  BY DEF InvestigationInv, InvestigationTypeOK, WorkerStates
<1>2. /\ UNCHANGED <<cache, queue, signal, evidence, provider, calls, touches, failures, now>>
      /\ request' = b /\ Return(w) /\ r.resourceVersion = request.resourceVersion
  BY DEF StatusUpdate, worldVars
<1>3. /\ Settled(r, calls) /\ CoherentCopy(r, request)
      /\ Confirmed(r) => r.status.linked /\ signal.created
  BY DEF StatusUpdate, At, InvestigationInv, WorkerSound, WorkerCoherent, CoherentCopy, Writing
<1>4. /\ b \in Requests /\ b.resourceVersion = r.resourceVersion + 1
      /\ b.exists = r.exists /\ b.generation = r.generation /\ b.spec = r.spec
      /\ b.annotations = r.annotations /\ b.status = r.status
  BY <1>1, Bumped
<1>5. OnlyWorker(w) /\ worker'[w].pc = "idle"
  BY <1>1, <1>2, ReturnWorker
<1> HIDE DEF b, r
<1>6. Advances(request, b)
  BY <1>1, <1>2, <1>3, <1>4 DEF Advances, CoherentCopy, BuiltOn, Requests
<1>7. InvestigationTypeOK'
  BY <1>1, <1>2, <1>4, <1>5 DEF InvestigationTypeOK, OnlyWorker
<1>8. Sound(request', calls') /\ Linked(request', signal')
  BY <1>2, <1>3, <1>4 DEF Settled, Sound, InOrder, Linked, Confirmed
<1>9. \A v \in Workers :
         \/ worker'[v] = worker[v]
         \/ /\ WorkerSound(worker'[v], calls', signal')
            /\ WorkerCoherent(worker'[v], request')
  BY <1>5, IdleSound DEF OnlyWorker
<1> QED
  BY <1>2, <1>6, <1>7, <1>8, <1>9, Preserved

(* A write to the object that leaves its status alone: an edit of the spec *)
(* counts a generation, so that no verdict is of the new spec.             *)
LEMMA OutsideWrite ==
    ASSUME InvestigationInv, InvestigationTypeOK',
           UNCHANGED <<cache, signal, calls>>,
           Advances(request, request'), request'.status = request.status,
           \/ request'.generation = request.generation
           \/ request'.generation = request.generation + 1,
           \A v \in Workers : worker'[v] = worker[v] \/ worker'[v].pc = "idle"
    PROVE  InvestigationInv'
<1>1. /\ request.generation \in Nat /\ request.status.observedGeneration \in Nat
  BY DEF InvestigationInv, InvestigationTypeOK, Requests, Statuses
<1>2. InOrder(request) /\ Sound(request, calls)
  BY DEF InvestigationInv, Sound
<1>3. InOrder(request')
  BY <1>1, <1>2 DEF InOrder
<1>4. Sound(request', calls')
  BY <1>2, <1>3 DEF Sound
<1>5. Linked(request', signal')
  <2>1. request.status.observedGeneration <= request.generation
    BY <1>2 DEF InOrder
  <2>2. CASE request'.generation = request.generation
    <3>1. request'.spec = request.spec
      BY <2>2 DEF Advances
    <3> QED
      BY <2>2, <3>1 DEF Linked, Confirmed, InvestigationInv
  <2>3. CASE request'.generation = request.generation + 1
    <3>1. request'.status.observedGeneration # request'.generation
      BY <1>1, <2>1, <2>3
    <3> QED
      BY <3>1 DEF Linked
  <2> QED
    BY <2>2, <2>3
<1>6. \A v \in Workers :
         \/ worker'[v] = worker[v]
         \/ /\ WorkerSound(worker'[v], calls', signal')
            /\ WorkerCoherent(worker'[v], request')
  BY IdleSound
<1> QED
  BY <1>4, <1>5, <1>6, Preserved

\* Users edit the object; a replica deletes it whatever its version.
LEMMA OutsideStep ==
    ASSUME InvestigationInv,
           \/ \E s \in Specs : EditSpec(s)
           \/ \E l \in Annotations : EditAnnotations(l)
           \/ \E w \in Workers : Delete(w)
    PROVE  InvestigationInv'
<1>1. /\ InvestigationTypeOK /\ request \in Requests /\ touches \in Nat
      /\ request.resourceVersion \in Nat /\ request.generation \in Nat
  BY DEF InvestigationInv, InvestigationTypeOK, Requests
<1>2. /\ touches + 1 \in Nat
      /\ request.resourceVersion + 1 \in Nat /\ request.generation + 1 \in Nat
  BY <1>1
<1>3. ASSUME NEW s \in Specs, EditSpec(s) PROVE InvestigationInv'
  <2>1. request' = [request EXCEPT !.spec = s, !.generation = @ + 1, !.resourceVersion = @ + 1]
    BY <1>3 DEF EditSpec
  <2>2. /\ request' \in Requests /\ request'.status = request.status
        /\ request'.generation = request.generation + 1
        /\ request'.resourceVersion = request.resourceVersion + 1
    BY <1>2, <1>1, <2>1 DEF Requests
  <2>3. Advances(request, request')
    BY <1>1, <2>2 DEF Advances
  <2>4. InvestigationTypeOK'
    BY <1>1, <1>3, <2>2 DEF EditSpec, worldVars, InvestigationTypeOK
  <2> QED
    BY <1>3, <2>2, <2>3, <2>4, OutsideWrite DEF EditSpec, worldVars
<1>4. ASSUME NEW l \in Annotations, EditAnnotations(l) PROVE InvestigationInv'
  <2>1. request' = [request EXCEPT !.annotations = l, !.resourceVersion = @ + 1]
    BY <1>4 DEF EditAnnotations
  <2>2. l \in Lineages
    BY InvestigationAssumption
  <2>3. /\ request' \in Requests /\ request'.status = request.status
        /\ request'.generation = request.generation /\ request'.spec = request.spec
        /\ request'.resourceVersion = request.resourceVersion + 1
    BY <1>2, <1>1, <2>1, <2>2 DEF Requests
  <2>4. Advances(request, request')
    BY <1>1, <2>3 DEF Advances
  <2>5. InvestigationTypeOK'
    BY <1>2, <1>1, <1>4, <2>3 DEF EditAnnotations, InvestigationTypeOK
  <2> QED
    BY <1>4, <2>3, <2>4, <2>5, OutsideWrite DEF EditAnnotations
<1>5. ASSUME NEW w \in Workers, Delete(w) PROVE InvestigationInv'
  <2>1. OnlyWorker(w) /\ worker'[w].pc = "idle"
    BY <1>1, <1>5, ReturnWorker DEF Delete
  <2>2. UNCHANGED <<cache, queue, signal, evidence, provider, calls, touches, failures, now>>
    BY <1>5 DEF Delete, worldVars
  <2>3. CASE request.exists
    <3>1. request' = [request EXCEPT !.exists = FALSE, !.resourceVersion = @ + 1]
      BY <1>5, <2>3 DEF Delete
    <3>2. /\ request' \in Requests /\ request'.status = request.status
          /\ request'.generation = request.generation /\ request'.spec = request.spec
          /\ request'.resourceVersion = request.resourceVersion + 1
      BY <1>2, <1>1, <3>1 DEF Requests
    <3>3. Advances(request, request')
      BY <1>1, <3>2 DEF Advances
    <3>4. InvestigationTypeOK'
      BY <1>1, <2>1, <2>2, <3>2 DEF InvestigationTypeOK, OnlyWorker
    <3> QED
      BY <2>1, <2>2, <3>2, <3>3, <3>4, OutsideWrite DEF OnlyWorker
  <2>4. CASE ~ request.exists
    <3>1. request' = request
      BY <1>5, <2>4 DEF Delete
    <3> QED
      BY <1>1, <2>1, <2>2, <3>1, IdleSound, MemoryStep DEF InvestigationTypeOK
  <2> QED
    BY <2>3, <2>4
<1> QED
  BY <1>3, <1>4, <1>5

\* The informer delivers the object; the world around it changes.
LEMMA WorldStep ==
    ASSUME InvestigationInv,
           \/ \E w \in Workers : CacheSync(w)
           \/ \E o \in Observations : EvidenceChanges(o)
           \/ EditProvider \/ SignalWritten \/ Tick
    PROVE  InvestigationInv'
<1>1. /\ InvestigationTypeOK /\ request \in Requests /\ touches \in Nat /\ now \in Nat
      /\ provider \in Nat /\ cache \in [Workers -> Requests] /\ signal \in Signals
      /\ queue \in [Workers -> BOOLEAN]
  BY DEF InvestigationInv, InvestigationTypeOK
<1>2. ASSUME InvestigationTypeOK', UNCHANGED <<request, calls, worker>>,
             signal.created => signal'.created,
             \A v \in Workers : cache'[v] = cache[v] \/ cache'[v] = request'
      PROVE  InvestigationInv'
  <2>1. Sound(request', calls') /\ Linked(request', signal')
    BY <1>2 DEF InvestigationInv, Linked
  <2> QED
    BY <1>2, <2>1, Preserved
<1>3. ASSUME NEW w \in Workers, CacheSync(w) PROVE InvestigationInv'
  <2>1. /\ cache' \in [Workers -> Requests] /\ queue' \in [Workers -> BOOLEAN]
        /\ \A v \in Workers : cache'[v] = cache[v] \/ cache'[v] = request
    BY <1>1, <1>3 DEF CacheSync, Requeue
  <2>2. UNCHANGED <<request, worker, signal, evidence, provider, calls, touches, failures, now>>
    BY <1>3 DEF CacheSync, worldVars
  <2>3. InvestigationTypeOK'
    BY <1>1, <2>1, <2>2 DEF InvestigationTypeOK
  <2> QED
    BY <1>2, <2>1, <2>2, <2>3
<1>4. ASSUME NEW o \in Observations, EvidenceChanges(o) PROVE InvestigationInv'
  <2>1. InvestigationTypeOK'
    BY <1>1, <1>4 DEF EvidenceChanges, InvestigationTypeOK
  <2> QED
    BY <1>2, <1>4, <2>1 DEF EvidenceChanges
<1>5. CASE EditProvider
  <2>1. InvestigationTypeOK'
    BY <1>1, <1>5 DEF EditProvider, InvestigationTypeOK
  <2> QED
    BY <1>2, <1>5, <2>1 DEF EditProvider
<1>6. CASE SignalWritten
  <2>1. signal' = [signal EXCEPT !.phase = "Other", !.resourceVersion = @ + 1]
    BY <1>6 DEF SignalWritten
  <2>2. signal.resourceVersion + 1 \in Nat
    BY <1>1 DEF Signals
  <2>3. signal' \in Signals /\ signal'.created = signal.created
    BY <1>1, <2>1, <2>2 DEF Signals
  <2>4. InvestigationTypeOK'
    BY <1>1, <1>6, <2>3 DEF SignalWritten, InvestigationTypeOK
  <2> QED
    BY <1>2, <1>6, <2>3, <2>4 DEF SignalWritten
<1>7. CASE Tick
  <2>1. InvestigationTypeOK'
    BY <1>1, <1>7 DEF Tick, InvestigationTypeOK
  <2> QED
    BY <1>2, <1>7, <2>1 DEF Tick
<1> QED
  BY <1>3, <1>4, <1>5, <1>6, <1>7

-----------------------------------------------------------------------------
(***************************************************************************)
(* The invariant, and what it says, for any number of replicas.            *)
(***************************************************************************)
\* In the beginning every copy is the object as it was created.
LEMMA InvestigationInitInv == Init => InvestigationInv
<1> SUFFICES ASSUME Init PROVE InvestigationInv
  OBVIOUS
<1>1. PICK s \in Specs, l \in Annotations : request = NewRequest(s, l)
  BY DEF Init
<1>2. l \in Lineages
  BY InvestigationAssumption
<1>3. /\ request \in Requests /\ Sound(request, {}) /\ request.status.outcome = Unset
  BY <1>1, <1>2, NewRequestSound
<1>4. (CHOOSE x \in Specs : TRUE) \in Specs
  BY InvestigationAssumption
<1>5. NoRequest \in Requests
  BY <1>4, NewRequestSound, NilTyped DEF NoRequest
<1>6. Idle(NoRequest) \in WorkerStates /\ Idle(NoRequest).pc = "idle"
  BY <1>5, NilTyped DEF Idle, WorkerStates, Pcs
<1>7. InvestigationTypeOK
  BY <1>3, <1>6 DEF Init, InvestigationTypeOK, Signals
<1>8. Linked(request, signal)
  BY <1>3, UnsetDistinct DEF Linked, Confirmed, Outcomes
<1>9. ASSUME NEW w \in Workers
      PROVE  /\ Sound(cache[w], calls) /\ CacheCoherent(cache[w], request)
             /\ WorkerSound(worker[w], calls, signal) /\ WorkerCoherent(worker[w], request)
  <2>1. cache[w] = request /\ worker[w] = Idle(NoRequest) /\ calls = {}
    BY DEF Init
  <2>2. CacheCoherent(request, request)
    BY <1>3 DEF CacheCoherent, NotNewer, Requests
  <2> QED
    BY <1>3, <1>6, <2>1, <2>2, IdleSound
<1> QED
  BY <1>3, <1>7, <1>8, <1>9 DEF InvestigationInv, Init

\* Every step of Next keeps it.
LEMMA InvestigationNextInv == InvestigationInv /\ [Next]_vars => InvestigationInv'
<1> SUFFICES ASSUME InvestigationInv, [Next]_vars PROVE InvestigationInv'
  OBVIOUS
<1>1. CASE UNCHANGED vars
  BY <1>1 DEF vars, InvestigationInv, InvestigationTypeOK
<1>2. ASSUME NEW w \in Workers, Reconcile(w) PROVE InvestigationInv'
  BY <1>2, ShortReconcileStep, EvidenceStep, GenerateStep, CheckpointStep, ProjectionStep,
     UpdateStep, EndStep, OutsideStep DEF Reconcile
<1>3. ASSUME NEW w \in Workers, ReconcileIssue(w) \/ CacheSync(w) \/ Fail(w)
      PROVE  InvestigationInv'
  BY <1>3, ShortReconcileStep, EndStep, WorldStep
<1>4. CASE Environment
  BY <1>4, OutsideStep, WorldStep DEF Environment
<1> QED
  BY <1>1, <1>2, <1>3, <1>4 DEF Next

(* The objects, caches and Reconciles in progress keep their types, and    *)
(* the inductive invariant holds, whatever crashes, conflicts or is edited *)
(* (investigationrequest_controller.go, Reconcile).                        *)
THEOREM InvestigationInvariant == Spec => []InvestigationInv
BY InvestigationInitInv, InvestigationNextInv, PTL DEF Spec

\* The object, the caches and what Reconciles hold keep their types.
THEOREM InvestigationTypeCorrect == Spec => []InvestigationTypeOK
<1>1. InvestigationInv => InvestigationTypeOK
  BY DEF InvestigationInv
<1> QED
  BY <1>1, InvestigationInvariant, PTL

(* A confirmed outcome rests on an answer the provider gave for this       *)
(* generation, provider and evidence, which supports one of its causes and *)
(* contradicts none (applyStructuredRCAStatus, reusableProviderResult).    *)
THEOREM VerdictsRest == Spec => []VerdictRestsOnEvidence
<1>1. InvestigationInv => VerdictRestsOnEvidence
  BY DEF InvestigationInv, Sound, Rests, VerdictRestsOnEvidence
<1> QED
  BY <1>1, InvestigationInvariant, PTL

(* The status at the server is a legal combination of phase, outcome,      *)
(* failure and conditions, although the reset at the start of Reconcile    *)
(* leaves the conditions of an earlier generation in place.                *)
THEOREM StatusIsLegal == Spec => []LegalStatus
<1>1. InvestigationInv => LegalStatus
  <2> SUFFICES ASSUME InvestigationInv PROVE LegalStatus
    OBVIOUS
  <2>1. Legal(request.status)
    BY DEF InvestigationInv, Sound
  <2> QED
    BY <2>1 DEF Legal, LegalStatus, ReadyAt
<1> QED
  BY <1>1, InvestigationInvariant, PTL

(* What is finished for a generation is rewritten by no replica: a copy    *)
(* that still has the server's version was built on an object that was not *)
(* finished (shouldSkipInvestigationExecution and the version check).      *)
THEOREM FinishedStays == Spec => FinishedIsStable
<1>1. ASSUME InvestigationInv, Next,
             request.exists /\ request'.exists,
             request.status.phase \in TerminalPhases,
             request.status.observedGeneration = request.generation
      PROVE  request'.status = request.status
  <2>1. request \in Requests
    BY <1>1 DEF InvestigationInv, InvestigationTypeOK
  <2>2. ASSUME NEW w \in Workers, Checkpoint(w) \/ StatusUpdate(w), request' # request
        PROVE  FALSE
    <3>1. /\ worker[w].obj.resourceVersion = request.resourceVersion
          /\ worker[w].pc \in Writing
      BY <2>2 DEF Checkpoint, StatusUpdate, At, Writing
    <3>2. BuiltOn(worker[w].obj, request)
      BY <1>1, <3>1 DEF InvestigationInv, WorkerCoherent
    <3> QED
      BY <1>1, <3>2 DEF BuiltOn, shouldSkipInvestigationExecution, isTerminalInvestigationPhase
  <2>3. ASSUME NEW w \in Workers, Reconcile(w) PROVE request'.status = request.status
    <3>1. CASE Checkpoint(w) \/ StatusUpdate(w)
      BY <2>2, <3>1
    <3>2. CASE Delete(w)
      BY <1>1, <2>1, <3>2 DEF Delete, Requests
    <3>3. CASE ~ (Checkpoint(w) \/ StatusUpdate(w) \/ Delete(w))
      BY <2>3, <3>3 DEF Reconcile, ReconcileExpired, ReconcileNotRunnable, ReconcileEvidence,
         GenerateRCA, Promote, Project, StatusConflict
    <3> QED
      BY <3>1, <3>2, <3>3
  <2>4. ASSUME NEW w \in Workers, ReconcileIssue(w) \/ CacheSync(w) \/ Fail(w)
        PROVE  request'.status = request.status
    BY <2>4 DEF ReconcileIssue, CacheSync, Fail
  <2>5. CASE Environment
    BY <2>1, <2>5 DEF Environment, EditSpec, EditAnnotations, EvidenceChanges, EditProvider,
       SignalWritten, Tick, Requests
  <2> QED
    BY <1>1, <2>3, <2>4, <2>5 DEF Next
<1>2. InvestigationInv /\ [Next]_vars =>
        [(/\ request.exists /\ request'.exists
          /\ request.status.phase \in TerminalPhases
          /\ request.status.observedGeneration = request.generation
          /\ request'.generation = request.generation)
         => request'.status = request.status]_vars
  BY <1>1
<1> QED
  BY <1>2, InvestigationInvariant, PTL DEF Spec, FinishedIsStable

-----------------------------------------------------------------------------
(***************************************************************************)
(* One replica.  Its own writes are the only ones to the status, so what   *)
(* its cache lacks it has computed itself.                                 *)
(***************************************************************************)
\* With one replica its parts are all there are.
LEMMA ReplicaPreserved ==
    ASSUME OneReplica, NEW w \in Workers, LinkedGeneration(request', signal'),
           CacheKnows(cache'[w], request'),
           WorkerKnows(worker'[w], cache'[w], request', signal')
    PROVE  ReplicaInv'
<1>1. \A v \in Workers : v = w
  BY DEF OneReplica
<1> QED
  BY <1>1 DEF ReplicaInv, OneReplica

\* A Reconcile that holds nothing knows enough.
LEMMA IdleKnows ==
    ASSUME NEW wk, wk.pc \in {"idle", "delete"}, NEW c, NEW q, NEW g
    PROVE  WorkerKnows(wk, c, q, g)
BY DEF WorkerKnows, Writing

\* What is built on the cache's copy is as recent as that copy.
LEMMA ReadKnows ==
    ASSUME InvestigationInv, ReplicaInv, NEW w \in Workers, Reads(w),
           NEW wk, Kept(wk.obj, ResetStatus(cache[w])),
           wk.pc \in {"reason", "promote", "update"},
           wk.pc = "update" => ~ Confirmed(wk.obj),
           wk.pc = "reason" => ~ investigationLoopFailure(wk.obj.spec, wk.obj.status.lineage)
    PROVE  WorkerKnows(wk, cache[w], request, signal)
<1> DEFINE r == ResetStatus(cache[w])
<1>1. r.generation = cache[w].generation /\ r.status.lineage = LineageOf(cache[w])
  BY ReadFresh DEF Reads
<1> HIDE DEF r
<1>2. wk.obj.generation = cache[w].generation /\ wk.obj.status.lineage = LineageOf(cache[w])
  BY <1>1 DEF Kept, r
<1>3. CacheKnows(cache[w], request) /\ cache[w].generation \in Nat
  BY DEF ReplicaInv, InvestigationInv, InvestigationTypeOK, Requests
<1> QED
  BY <1>2, <1>3 DEF WorkerKnows, CacheKnows

\* What is built on what the Reconcile held is as recent as that.
LEMMA KeptKnows ==
    ASSUME NEW wk, NEW y, NEW c, NEW q, NEW g, WorkerKnows(wk, c, q, g),
           wk.pc \in {"reason", "checkpoint"}, Kept(y.obj, wk.obj),
           y.pc \in {"checkpoint", "promote", "update"},
           y.pc = "update" => ~ Confirmed(y.obj)
    PROVE  WorkerKnows(y, c, q, g)
BY DEF WorkerKnows, Kept, Writing

\* Deciding without a provider call.
LEMMA ShortReconcileKnows ==
    ASSUME InvestigationInv, ReplicaInv, NEW w \in Workers,
           ReconcileExpired(w) \/ ReconcileNotRunnable(w) \/ ReconcileIssue(w)
    PROVE  ReplicaInv'
<1> DEFINE r == ResetStatus(cache[w])
<1>1. InvestigationTypeOK /\ now \in Nat
  BY DEF InvestigationInv, InvestigationTypeOK
<1>2. "update" \in Pcs /\ NoExecution.id \in ExecutionIDs
      /\ {} \in SUBSET Claims /\ NoExecution \in Executions /\ NoExecution.state = "None"
  BY NilTyped DEF Pcs
<1>3. UNCHANGED <<request, cache, signal>>
  BY DEF ReconcileExpired, ReconcileNotRunnable, ReconcileIssue, worldVars
<1>4. SUFFICES WorkerKnows(worker'[w], cache[w], request, signal)
  BY <1>3, <1>4, ReplicaPreserved DEF ReplicaInv
<1>5. CASE ReconcileExpired(w)
  <2>1. worker'[w].pc = "delete"
    BY <1>1, <1>5 DEF ReconcileExpired, InvestigationTypeOK, WorkerStates
  <2> QED
    BY <2>1, IdleKnows
<1>6. CASE ~ ReconcileExpired(w)
  <2>1. Reads(w)
    BY <1>6 DEF ReconcileNotRunnable, ReconcileIssue, Runnable
  <2>2. r \in Requests /\ Fresh(r)
    BY <2>1, ReadFresh DEF Reads
  <2>3. PICK x : /\ Hold(w, "update", x, NoExecution.id, {})
                 /\ \/ \E cause \in {"Loop", "Invalid", "Preflight"} :
                          x = applyNotRunnableStatus(r, cause, now)
                    \/ x = applyIssueStatus(r, "Evidence", NoExecution, now)
    BY <1>6 DEF ReconcileNotRunnable, ReconcileIssue
  <2>4. SettledFrom(x, r, calls) /\ x.status.outcome # "Confirmed"
    BY <1>1, <1>2, <2>2, <2>3, NotRunnableSettled, IssueSettled
  <2>5. worker'[w].pc = "update" /\ worker'[w].obj = x
    BY <1>1, <1>2, <2>3, <2>4, HoldWorker DEF SettledFrom
  <2> QED
    BY <2>1, <2>4, <2>5, ReadKnows DEF SettledFrom, Confirmed
<1> QED
  BY <1>5, <1>6

\* Collecting evidence: only a lineage that may run gets as far.
LEMMA EvidenceKnows ==
    ASSUME InvestigationInv, ReplicaInv, NEW w \in Workers, ReconcileEvidence(w)
    PROVE  ReplicaInv'
<1> DEFINE r == ResetStatus(cache[w])
           bundle == evidenceBundleDigest(evidence, now)
           id == investigationExecutionID(r, bundle, provider)
           held == cache[w].status.execution
<1>1. /\ InvestigationTypeOK /\ now \in Nat /\ evidence \in Observations
      /\ provider \in Nat /\ held \in Executions
  BY DEF InvestigationInv, InvestigationTypeOK, Requests, Statuses
<1>2. /\ Reads(w) /\ UNCHANGED <<request, cache, signal>>
      /\ ~ investigationLoopFailure(r.spec, r.status.lineage)
  BY DEF ReconcileEvidence, Runnable, worldVars
<1>3. r \in Requests /\ Fresh(r) /\ CoherentCopy(r, request)
  BY <1>2, ReadFresh DEF Reads
<1>4. {"update", "reason"} \subseteq Pcs /\ NoExecution.id \in ExecutionIDs
      /\ {} \in SUBSET Claims
  BY NilTyped DEF Pcs
<1>5. bundle \in Bundles
  BY <1>1 DEF evidenceBundleDigest, Bundles, Never
<1> HIDE DEF bundle
<1>6. id \in ExecutionIDs /\ id.generation = r.generation
  BY <1>1, <1>3, <1>5 DEF investigationExecutionID, ExecutionIDs, Requests
<1>7. \/ \E x \in {applyEvidenceRequirementInconclusiveStatus(r, now),
                    applyEvidenceRequirementNoIssueFoundStatus(r, now)} :
              Hold(w, "update", x, NoExecution.id, {})
      \/ reusableProviderResult(held, id) /\ Concluded(w, r, id, held.answer)
      \/ Hold(w, "reason", r, id, {})
  BY DEF ReconcileEvidence, bundle
<1>8. SUFFICES WorkerKnows(worker'[w], cache[w], request, signal)
  BY <1>2, <1>8, ReplicaPreserved DEF ReplicaInv
<1> HIDE DEF id, held
<1>9. ASSUME NEW x \in {applyEvidenceRequirementInconclusiveStatus(r, now),
                        applyEvidenceRequirementNoIssueFoundStatus(r, now)},
             Hold(w, "update", x, NoExecution.id, {})
      PROVE  WorkerKnows(worker'[w], cache[w], request, signal)
  <2>1. SettledFrom(x, r, calls) /\ x.status.outcome # "Confirmed"
    BY <1>1, <1>3, GateSettled
  <2>2. worker'[w].pc = "update" /\ worker'[w].obj = x
    BY <1>1, <1>4, <1>9, <2>1, HoldWorker DEF SettledFrom
  <2> QED
    BY <1>2, <2>1, <2>2, ReadKnows DEF SettledFrom, Confirmed
<1>10. CASE reusableProviderResult(held, id) /\ Concluded(w, r, id, held.answer)
  <2>1. Answered(held, calls)
    BY DEF held, InvestigationInv, Sound
  <2>2. [id |-> id, answer |-> held.answer] \in calls /\ held.answer \in SUBSET Claims
    BY <1>1, <1>10, <2>1 DEF reusableProviderResult, Answered, Executions
  <2>3. /\ worker'[w].pc \in {"promote", "update"} /\ Kept(worker'[w].obj, r)
        /\ worker'[w].pc = "update" => ~ Confirmed(worker'[w].obj)
    BY <1>1, <1>3, <1>6, <1>10, <2>2, ConcludedKept
  <2> QED
    BY <1>2, <2>3, ReadKnows
<1>11. CASE Hold(w, "reason", r, id, {})
  <2>1. worker'[w].pc = "reason" /\ worker'[w].obj = r
    BY <1>1, <1>3, <1>4, <1>6, <1>11, HoldWorker
  <2>2. Kept(r, r)
    BY DEF Kept
  <2> QED
    BY <1>2, <2>1, <2>2, ReadKnows
<1> QED
  BY <1>7, <1>9, <1>10, <1>11

\* The provider's answer, a rejection, or an error.
LEMMA GenerateKnows ==
    ASSUME InvestigationInv, ReplicaInv, NEW w \in Workers, GenerateRCA(w)
    PROVE  ReplicaInv'
<1> DEFINE wk == worker[w]
           Rejected == [state |-> "Rejected", id |-> wk.id, answer |-> {}]
<1>1. /\ InvestigationTypeOK /\ now \in Nat
      /\ wk.obj \in Requests /\ wk.id \in ExecutionIDs
  BY DEF InvestigationInv, InvestigationTypeOK, WorkerStates
<1>2. /\ wk.pc = "reason" /\ Fresh(wk.obj) /\ WorkerKnows(wk, cache[w], request, signal)
      /\ UNCHANGED <<request, cache, signal>>
  BY DEF GenerateRCA, At, InvestigationInv, WorkerSound, ReplicaInv
<1>3. {"update", "checkpoint"} \subseteq Pcs /\ {} \in SUBSET Claims
      /\ NoExecution \in Executions /\ NoExecution.state = "None"
  BY NilTyped DEF Pcs
<1>4. Rejected \in Executions /\ Rejected.state = "Rejected"
  BY <1>1 DEF Executions
<1>5. \/ \E answer \in Answers : Hold(w, "checkpoint", wk.obj, wk.id, answer)
      \/ \E e \in {NoExecution, Rejected} :
            Hold(w, "update", applyIssueStatus(wk.obj, "RCA", e, now), wk.id, {})
      \/ Return(w)
  BY DEF GenerateRCA
<1> HIDE DEF wk, Rejected
<1>6. SUFFICES WorkerKnows(worker'[w], cache[w], request, signal)
  BY <1>2, <1>6, ReplicaPreserved DEF ReplicaInv
<1>7. ASSUME NEW answer \in Answers, Hold(w, "checkpoint", wk.obj, wk.id, answer)
      PROVE  WorkerKnows(worker'[w], cache[w], request, signal)
  <2>1. answer \in SUBSET Claims
    BY InvestigationAssumption
  <2>2. worker'[w].pc = "checkpoint" /\ worker'[w].obj = wk.obj
    BY <1>1, <1>3, <1>7, <2>1, HoldWorker
  <2>3. Kept(worker'[w].obj, wk.obj)
    BY <2>2 DEF Kept
  <2> QED
    BY <1>2, <2>2, <2>3, KeptKnows
<1>8. ASSUME NEW e \in {NoExecution, Rejected},
             Hold(w, "update", applyIssueStatus(wk.obj, "RCA", e, now), wk.id, {})
      PROVE  WorkerKnows(worker'[w], cache[w], request, signal)
  <2> DEFINE x == applyIssueStatus(wk.obj, "RCA", e, now)
  <2>1. SettledFrom(x, wk.obj, calls) /\ x.status.outcome # "Confirmed"
    BY <1>1, <1>2, <1>3, <1>4, IssueSettled
  <2> HIDE DEF x
  <2>2. worker'[w].pc = "update" /\ worker'[w].obj = x
    BY <1>1, <1>3, <1>8, <2>1, HoldWorker DEF SettledFrom, x
  <2> QED
    BY <1>2, <2>1, <2>2, KeptKnows DEF SettledFrom, Confirmed
<1>9. CASE Return(w)
  BY <1>1, <1>9, ReturnWorker, IdleKnows
<1> QED
  BY <1>5, <1>7, <1>8, <1>9

(* The checkpoint: the cache's copy leads to the same lineage as the       *)
(* object that is written.                                                 *)
LEMMA CheckpointKnows ==
    ASSUME InvestigationInv, ReplicaInv, NEW w \in Workers, Checkpoint(w)
    PROVE  ReplicaInv'
<1> DEFINE wk == worker[w]
           r == wk.obj
           x == Checkpointed(r, wk.id, wk.answer)
           b == [r EXCEPT !.resourceVersion = @ + 1]
<1>1. /\ InvestigationTypeOK
      /\ r \in Requests /\ wk.id \in ExecutionIDs /\ wk.answer \in SUBSET Claims
      /\ r.generation \in Nat /\ cache[w].generation \in Nat
  BY DEF InvestigationInv, InvestigationTypeOK, WorkerStates, Requests
<1>2. /\ wk.pc = "checkpoint" /\ Fresh(r) /\ wk.id.generation = r.generation
      /\ CoherentCopy(r, request)
      /\ [id |-> wk.id, answer |-> wk.answer] \in calls
      /\ WorkerKnows(wk, cache[w], request, signal)
      /\ UNCHANGED <<cache, signal>>
  BY DEF Checkpoint, At, InvestigationInv, WorkerSound, WorkerCoherent, CoherentCopy, Writing,
         ReplicaInv, worldVars
<1>3. \/ /\ r.resourceVersion = request.resourceVersion
         /\ request' = x /\ Concluded(w, b, wk.id, wk.answer)
      \/ UNCHANGED request /\ Concluded(w, r, wk.id, wk.answer)
      \/ UNCHANGED request /\ Return(w)
  BY DEF Checkpoint, Checkpointed
<1>4. /\ x \in Requests /\ x.resourceVersion = r.resourceVersion + 1
      /\ x.generation = r.generation /\ x.status.lineage = r.status.lineage
      /\ x.status.observedGeneration = r.generation /\ x.status.outcome = Unset
  BY <1>1, <1>2, CheckpointSound
<1>5. /\ b \in Requests /\ b.resourceVersion = r.resourceVersion + 1
      /\ b.exists = r.exists /\ b.generation = r.generation /\ b.spec = r.spec
      /\ b.annotations = r.annotations /\ b.status = r.status
  BY <1>1, Bumped
<1> HIDE DEF x, b, r, wk
<1>6. CASE /\ r.resourceVersion = request.resourceVersion
           /\ request' = x /\ Concluded(w, b, wk.id, wk.answer)
  <2>1. Fresh(b)
    BY <1>2, <1>5 DEF Fresh
  <2>3. /\ worker'[w].pc \in {"promote", "update"} /\ Kept(worker'[w].obj, b)
        /\ worker'[w].pc = "update" => ~ Confirmed(worker'[w].obj)
    BY <1>1, <1>2, <1>5, <1>6, <2>1, ConcludedKept
  <2>4. /\ LineageOf(cache[w]) = r.status.lineage /\ r.generation <= cache[w].generation
    BY <1>2, <1>6 DEF WorkerKnows, Writing, r
  <2>5. CacheKnows(cache[w], x)
    BY <1>4, <2>4 DEF CacheKnows
  <2>6. WorkerKnows(worker'[w], cache[w], x, signal)
    BY <1>1, <1>4, <1>5, <2>3, <2>4 DEF WorkerKnows, Kept
  <2>7. LinkedGeneration(x, signal)
    BY <1>4, UnsetDistinct DEF LinkedGeneration, Confirmed, Outcomes
  <2> QED
    BY <1>2, <1>6, <2>5, <2>6, <2>7, ReplicaPreserved DEF ReplicaInv
<1>7. CASE UNCHANGED request /\ Concluded(w, r, wk.id, wk.answer)
  <2>1. /\ worker'[w].pc \in {"promote", "update"} /\ Kept(worker'[w].obj, r)
        /\ worker'[w].pc = "update" => ~ Confirmed(worker'[w].obj)
    BY <1>1, <1>2, <1>7, ConcludedKept
  <2>2. WorkerKnows(worker'[w], cache[w], request, signal)
    BY <1>2, <2>1, KeptKnows DEF r
  <2> QED
    BY <1>2, <1>7, <2>2, ReplicaPreserved DEF ReplicaInv
<1>8. CASE UNCHANGED request /\ Return(w)
  <2>1. WorkerKnows(worker'[w], cache[w], request, signal)
    BY <1>1, <1>8, ReturnWorker, IdleKnows
  <2> QED
    BY <1>2, <1>8, <2>1, ReplicaPreserved DEF ReplicaInv
<1> QED
  BY <1>3, <1>6, <1>7, <1>8

(* The projection: whoever promotes does so for a generation no older than *)
(* the one whose verdict the status shows.                                 *)
LEMMA ProjectionKnows ==
    ASSUME InvestigationInv, ReplicaInv, NEW w \in Workers, Promote(w) \/ Project(w)
    PROVE  ReplicaInv'
<1> DEFINE wk == worker[w]
<1>1. /\ wk \in WorkerStates /\ worker \in [Workers -> WorkerStates]
      /\ wk.obj \in Requests /\ wk.obj.status \in Statuses /\ signal \in Signals
      /\ wk.obj.generation \in Nat /\ request.generation \in Nat
      /\ request.status.observedGeneration \in Nat
  BY DEF InvestigationInv, InvestigationTypeOK, WorkerStates, Requests, Statuses
<1>2. /\ UNCHANGED <<request, cache>> /\ wk.pc \in Writing
      /\ WorkerKnows(wk, cache[w], request, signal) /\ CacheKnows(cache[w], request)
      /\ NotNewer(wk.obj, request)
  BY DEF Promote, Project, At, Writing, ReplicaInv, InvestigationInv, WorkerCoherent
<1>3. CASE Promote(w)
  <2>1. signal'.generation = wk.obj.generation
    BY <1>1, <1>3 DEF Promote, Signals
  <2>2. worker'[w].pc = "project" /\ worker'[w].obj = wk.obj
    BY <1>1, <1>3 DEF Promote, WorkerStates
  <2>3. WorkerKnows(worker'[w], cache[w], request, signal')
    BY <1>2, <2>1, <2>2 DEF WorkerKnows
  <2>4. LinkedGeneration(request, signal')
    <3>1. request.status.observedGeneration <= wk.obj.generation
      BY <1>2 DEF WorkerKnows
    <3>2. wk.obj.generation <= request.generation
      BY <1>2 DEF NotNewer
    <3>3. request.status.observedGeneration = request.generation
          => wk.obj.generation = request.generation
      BY <1>1, <3>1, <3>2
    <3> QED
      BY <2>1, <3>3 DEF LinkedGeneration
  <2> QED
    BY <1>2, <2>3, <2>4, ReplicaPreserved DEF ReplicaInv
<1>4. CASE Project(w)
  <2>1. signal'.generation = signal.generation
    BY <1>1, <1>4 DEF Project, Signals
  <2>2. signal.generation = wk.obj.generation
    BY <1>2, <1>4 DEF Project, At, WorkerKnows
  <2>3. /\ worker'[w].pc = "update"
        /\ worker'[w].obj = [wk.obj EXCEPT !.status.linked = TRUE]
    BY <1>1, <1>4 DEF Project, WorkerStates
  <2>4. Kept(worker'[w].obj, wk.obj)
    BY <1>1, <2>3 DEF Kept, Requests, Statuses
  <2>5. WorkerKnows(worker'[w], cache[w], request, signal')
    BY <1>2, <2>1, <2>2, <2>3, <2>4 DEF WorkerKnows, Kept
  <2>6. LinkedGeneration(request, signal')
    BY <2>1 DEF LinkedGeneration, ReplicaInv
  <2> QED
    BY <1>2, <2>5, <2>6, ReplicaPreserved DEF ReplicaInv
<1> QED
  BY <1>3, <1>4

\* The final write, and the ends of a Reconcile that write nothing.
LEMMA EndKnows ==
    ASSUME InvestigationInv, ReplicaInv, NEW w \in Workers,
           StatusUpdate(w) \/ StatusConflict(w) \/ Fail(w)
    PROVE  ReplicaInv'
<1> DEFINE r == worker[w].obj
           b == [r EXCEPT !.resourceVersion = @ + 1]
<1>1. InvestigationTypeOK /\ r \in Requests
  BY DEF InvestigationInv, InvestigationTypeOK, WorkerStates
<1>2. Return(w) /\ UNCHANGED <<cache, signal>>
  BY DEF StatusUpdate, StatusConflict, Fail, worldVars
<1>3. \A q, g : WorkerKnows(worker'[w], cache[w], q, g)
  BY <1>1, <1>2, ReturnWorker, IdleKnows
<1>4. CASE StatusUpdate(w)
  <2>1. /\ request' = b /\ r.resourceVersion = request.resourceVersion
        /\ Settled(r, calls) /\ WorkerKnows(worker[w], cache[w], request, signal)
        /\ worker[w].pc = "update"
    BY <1>4 DEF StatusUpdate, At, InvestigationInv, ReplicaInv, WorkerSound
  <2>2. b.status = r.status /\ b.generation = r.generation /\ b.spec = r.spec
    BY <1>1, Bumped
  <2> HIDE DEF b
  <2>3. CacheKnows(cache[w], b)
    BY <2>1, <2>2 DEF CacheKnows, WorkerKnows, Settled, Writing
  <2>4. LinkedGeneration(b, signal)
    BY <2>1, <2>2 DEF LinkedGeneration, Confirmed, WorkerKnows
  <2> QED
    BY <1>2, <1>3, <2>1, <2>3, <2>4, ReplicaPreserved DEF ReplicaInv
<1>5. CASE StatusConflict(w) \/ Fail(w)
  <2>1. UNCHANGED request
    BY <1>5 DEF StatusConflict, Fail
  <2> QED
    BY <1>2, <1>3, <2>1, ReplicaPreserved DEF ReplicaInv
<1> QED
  BY <1>4, <1>5

(* Users' edits and the deletion leave the status alone and make every     *)
(* copy one of the past.                                                   *)
LEMMA OutsideKnows ==
    ASSUME InvestigationInv, InvestigationTypeOK', ReplicaInv,
           \/ \E s \in Specs : EditSpec(s)
           \/ \E l \in Annotations : EditAnnotations(l)
           \/ \E w \in Workers : Delete(w)
    PROVE  ReplicaInv'
<1>1. /\ InvestigationTypeOK /\ request \in Requests /\ request' \in Requests
      /\ request.resourceVersion \in Nat /\ request.generation \in Nat
      /\ request.status.observedGeneration \in Nat
  BY DEF InvestigationInv, InvestigationTypeOK, Requests, Statuses
<1>2. UNCHANGED <<cache, signal>> /\ request'.status = request.status
  BY <1>1 DEF EditSpec, EditAnnotations, Delete, worldVars, Requests
<1>3. \/ request' = request
      \/ /\ request'.resourceVersion = request.resourceVersion + 1
         /\ \/ request'.generation = request.generation /\ request'.spec = request.spec
            \/ request'.generation = request.generation + 1
  BY <1>1 DEF EditSpec, EditAnnotations, Delete, Requests
<1>4. \A v \in Workers : worker'[v] = worker[v] \/ worker'[v].pc = "idle"
  <2>1. ASSUME NEW w \in Workers, Delete(w), NEW v \in Workers
        PROVE  worker'[v] = worker[v] \/ worker'[v].pc = "idle"
    BY <1>1, <2>1, ReturnWorker DEF Delete, OnlyWorker
  <2> QED
    BY <2>1 DEF EditSpec, EditAnnotations
<1>5. LinkedGeneration(request', signal')
  <2>1. request.status.observedGeneration <= request.generation
    BY DEF InvestigationInv, Sound, InOrder
  <2>2. CASE request'.generation = request.generation + 1
    <3>1. request'.status.observedGeneration # request'.generation
      BY <1>1, <1>2, <2>1, <2>2
    <3> QED
      BY <3>1 DEF LinkedGeneration
  <2>3. CASE request'.generation = request.generation /\ request'.spec = request.spec
    BY <1>2, <2>3 DEF LinkedGeneration, Confirmed, ReplicaInv
  <2> QED
    BY <1>3, <2>2, <2>3
<1>6. ASSUME NEW v \in Workers
      PROVE  /\ CacheKnows(cache'[v], request')
             /\ WorkerKnows(worker'[v], cache'[v], request', signal')
  <2>1. CacheKnows(cache'[v], request')
    BY <1>2 DEF ReplicaInv, CacheKnows
  <2>2. CASE worker'[v].pc = "idle"
    BY <2>1, <2>2, IdleKnows
  <2>3. CASE worker'[v] = worker[v]
    <3>1. WorkerKnows(worker[v], cache[v], request, signal) /\ worker[v].obj \in Requests
      BY DEF ReplicaInv, InvestigationInv, InvestigationTypeOK, WorkerStates
    <3>2. worker[v].pc \in Writing =>
            \/ request' = request
            \/ worker[v].obj.resourceVersion # request'.resourceVersion
      <4>1. worker[v].pc \in Writing =>
              worker[v].obj.resourceVersion <= request.resourceVersion
        BY DEF InvestigationInv, WorkerCoherent, NotNewer
      <4>2. worker[v].obj.resourceVersion \in Nat
        BY <3>1 DEF Requests
      <4> QED
        BY <1>1, <1>3, <4>1, <4>2
    <3> QED
      BY <1>2, <2>1, <2>3, <3>1, <3>2 DEF WorkerKnows
  <2> QED
    BY <1>4, <2>2, <2>3
<1> QED
  BY <1>5, <1>6 DEF ReplicaInv, OneReplica

(* The informer brings the object itself, on which whatever still has its  *)
(* version was built.                                                      *)
LEMMA WorldKnows ==
    ASSUME InvestigationInv, ReplicaInv,
           \/ \E w \in Workers : CacheSync(w)
           \/ \E o \in Observations : EvidenceChanges(o)
           \/ EditProvider \/ SignalWritten \/ Tick
    PROVE  ReplicaInv'
<1>1. UNCHANGED <<request, worker>>
  BY DEF CacheSync, EvidenceChanges, EditProvider, SignalWritten, Tick
<1>2. signal'.generation = signal.generation
  <2>1. signal \in Signals
    BY DEF InvestigationInv, InvestigationTypeOK
  <2> QED
    BY <2>1 DEF CacheSync, worldVars, EvidenceChanges, EditProvider, SignalWritten, Tick, Signals
<1>3. \A v \in Workers : cache'[v] = cache[v] \/ cache'[v] = request
  <2>1. cache \in [Workers -> Requests]
    BY DEF InvestigationInv, InvestigationTypeOK
  <2> QED
    BY <2>1 DEF CacheSync, EvidenceChanges, EditProvider, SignalWritten, Tick
<1>4. LinkedGeneration(request', signal')
  BY <1>1, <1>2 DEF LinkedGeneration, Confirmed, ReplicaInv
<1>5. ASSUME NEW v \in Workers
      PROVE  /\ CacheKnows(cache'[v], request')
             /\ WorkerKnows(worker'[v], cache'[v], request', signal')
  <2>1. CacheKnows(cache[v], request) /\ WorkerKnows(worker[v], cache[v], request, signal)
    BY DEF ReplicaInv
  <2> USE <1>1
  <2>2. CASE cache'[v] = cache[v]
    <3>1. WorkerKnows(worker[v], cache[v], request, signal')
      BY <1>2, <2>1 DEF WorkerKnows
    <3> QED
      BY <2>1, <2>2, <3>1
  <2>3. CASE cache'[v] = request
    <3>1. /\ request.status.lineage # NoLineage => LineageOf(request) = request.status.lineage
          /\ request.status.observedGeneration <= request.generation
      BY DEF LineageOf, lineageForReconcile, InvestigationInv, Sound, InOrder
    <3>2. CacheKnows(request, request)
      BY <3>1 DEF CacheKnows
    <3>3. worker[v].pc \in Writing =>
            /\ worker[v].obj.generation <= request.generation
            /\ worker[v].obj.resourceVersion = request.resourceVersion =>
                  worker[v].obj.status.lineage = LineageOf(request)
      BY DEF InvestigationInv, WorkerCoherent, NotNewer, BuiltOn
    <3>4. WorkerKnows(worker[v], request, request, signal')
      BY <1>2, <2>1, <3>3 DEF WorkerKnows
    <3> QED
      BY <1>1, <2>3, <3>2, <3>4
  <2> QED
    BY <1>3, <2>2, <2>3
<1> QED
  BY <1>4, <1>5 DEF ReplicaInv, OneReplica

-----------------------------------------------------------------------------
\* In the beginning nothing is observed and no lineage is recorded.
LEMMA ReplicaInitInv == Init /\ OneReplica => ReplicaInv
<1> SUFFICES ASSUME Init, OneReplica PROVE ReplicaInv
  OBVIOUS
<1>1. PICK s \in Specs, l \in Annotations : request = NewRequest(s, l)
  BY DEF Init
<1>2. l \in Lineages
  BY InvestigationAssumption
<1>3. /\ request.status.outcome = Unset /\ request.generation = 1
      /\ request.status.observedGeneration = 0 /\ request.status.lineage = NoLineage
  BY <1>1, <1>2, NewRequestSound
<1>4. LinkedGeneration(request, signal)
  BY <1>3, UnsetDistinct DEF LinkedGeneration, Confirmed, Outcomes
<1>5. ASSUME NEW w \in Workers
      PROVE  CacheKnows(cache[w], request) /\ WorkerKnows(worker[w], cache[w], request, signal)
  <2>1. cache[w] = request /\ worker[w].pc = "idle"
    BY DEF Init, Idle
  <2>2. CacheKnows(request, request)
    BY <1>3 DEF CacheKnows
  <2> QED
    BY <2>1, <2>2, IdleKnows
<1> QED
  BY <1>4, <1>5 DEF ReplicaInv

\* Every step of Next keeps what one replica knows.
LEMMA ReplicaNextInv ==
    InvestigationInv /\ ReplicaInv /\ [Next]_vars => ReplicaInv'
<1> SUFFICES ASSUME InvestigationInv, ReplicaInv, [Next]_vars PROVE ReplicaInv'
  OBVIOUS
<1>1. InvestigationTypeOK'
  BY InvestigationNextInv DEF InvestigationInv
<1>2. CASE UNCHANGED vars
  BY <1>2 DEF vars, ReplicaInv, OneReplica
<1>3. ASSUME NEW w \in Workers, Reconcile(w) PROVE ReplicaInv'
  BY <1>1, <1>3, ShortReconcileKnows, EvidenceKnows, GenerateKnows, CheckpointKnows,
     ProjectionKnows, EndKnows, OutsideKnows DEF Reconcile
<1>4. ASSUME NEW w \in Workers, ReconcileIssue(w) \/ CacheSync(w) \/ Fail(w)
      PROVE  ReplicaInv'
  BY <1>4, ShortReconcileKnows, EndKnows, WorldKnows
<1>5. CASE Environment
  BY <1>1, <1>5, OutsideKnows, WorldKnows DEF Environment
<1> QED
  BY <1>2, <1>3, <1>4, <1>5 DEF Next

\* With one replica the invariant of its cache and its memory holds.
LEMMA ReplicaInvariant == OneReplica /\ Spec => []ReplicaInv
BY InvestigationInvariant, ReplicaInitInv, ReplicaNextInv, PTL DEF Spec

(* With one replica, the deployment of config/manager, a confirmed         *)
(* investigation that asks for a RiskSignal links to one that exists and   *)
(* carries the evidence of this generation (promoteToRiskSignal), whatever *)
(* is crashed or repeated from a stale copy.                               *)
THEOREM ConfirmedLinked == OneReplica /\ Spec => []ConfirmedIsLinked
<1>1. InvestigationInv /\ ReplicaInv => ConfirmedIsLinked
  BY DEF InvestigationInv, ReplicaInv, Linked, LinkedGeneration, Confirmed, ConfirmedIsLinked
<1> QED
  BY <1>1, InvestigationInvariant, ReplicaInvariant, PTL

(* With one replica a lineage that loop prevention has recorded and blocks *)
(* never reaches the provider, even after its annotations are edited away  *)
(* (lineageForReconcile, investigationLoopFailure).                        *)
THEOREM BlockedNotAsked == OneReplica /\ Spec => BlockedIsNeverAsked
<1>1. InvestigationInv /\ ReplicaInv =>
        \A w \in Workers :
          (At(w, "reason") /\ request.status.lineage # NoLineage
            /\ request.generation = worker[w].obj.generation)
          => ~ investigationLoopFailure(request.spec, request.status.lineage)
  <2> SUFFICES ASSUME InvestigationInv, ReplicaInv, NEW w \in Workers, At(w, "reason"),
                      request.status.lineage # NoLineage,
                      request.generation = worker[w].obj.generation
               PROVE  ~ investigationLoopFailure(request.spec, request.status.lineage)
    OBVIOUS
  <2>1. worker[w].obj.spec = request.spec
    BY DEF At, InvestigationInv, WorkerCoherent, NotNewer, Writing
  <2>2. /\ worker[w].obj.status.lineage = request.status.lineage
        /\ ~ investigationLoopFailure(worker[w].obj.spec, worker[w].obj.status.lineage)
    BY DEF At, ReplicaInv, WorkerKnows, Writing
  <2> QED
    BY <2>1, <2>2
<1>2. InvestigationInv /\ ReplicaInv /\ [Next]_vars =>
        [\A w \in Workers :
           (Asked(w) /\ request.status.lineage # NoLineage
            /\ request.generation = worker[w].obj.generation)
           => ~ investigationLoopFailure(request.spec, request.status.lineage)]_vars
  BY <1>1 DEF Asked
<1> QED
  BY <1>2, InvestigationInvariant, ReplicaInvariant, PTL DEF Spec, BlockedIsNeverAsked

=============================================================================
