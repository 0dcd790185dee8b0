----------------------------- MODULE RiskProofs -----------------------------
(***************************************************************************)
(* Theorems about the way from a rule's finding to the decision about a    *)
(* plan: one request per incident, annotations of announced signals only,  *)
(* limits of a namespace that hold.                                        *)
(***************************************************************************)
EXTENDS RuleEvaluation, RiskSignal, Guardrails, Admission, ListProofs

-----------------------------------------------------------------------------
(* A rule's findings.  The name of a request has the digests of the        *)
(* references kept, the request those of all records: they are the same as *)
(* long as no record was left out.                                         *)

\* The references name every event, if there are no more events than those.
Whole(m) == (\A digest \in m.all : digest[1] # "gauge") /\ Cardinality(m.all) <= MaxRefs =>
                m.digests = m.all

RecordedSound ==
    (\E S : recorded \in Seq(S)) /\ DistinctIds(recorded)

LEMMA SignalMatch ==
  ASSUME RecordedSound, NEW spec, NEW t
  PROVE  \E S : /\ EvaluateSignal(spec, t) \in Seq(S)
                /\ \A m \in S : Whole(m)
<1> DEFINE rs == RecordsOf(spec, t)
           k == Len(rs)
           kept == SubSeq(rs, 1, IF k < MaxRefs THEN k ELSE MaxRefs)
           match == [signal |-> spec.name,
                     digests |-> {EvidenceDigest(spec, kept[i]) : i \in DOMAIN kept},
                     first |-> kept[1].reason,
                     all |-> {EvidenceDigest(spec, rs[i]) : i \in DOMAIN rs}]
<1>1. EvaluateSignal(spec, t) = IF ~ Triggered(spec, rs) THEN <<>> ELSE <<match>>
  BY DEF EvaluateSignal
<1>2. MaxRefs \in Nat /\ MaxRefs # 0
  BY RuleAssumption
<1>3. Whole(match)
  <2>1. match.all = {EvidenceDigest(spec, rs[i]) : i \in DOMAIN rs}
        /\ match.digests = {EvidenceDigest(spec, kept[i]) : i \in DOMAIN kept}
    OBVIOUS
  <2>2. CASE spec.type = "metric"
    <3>1. rs = <<[id |-> "gauge", reason |-> NoText, value |-> gauge]>>
      BY <2>2 DEF RecordsOf
    <3>2. 1 \in DOMAIN rs /\ rs[1].id = "gauge"
      BY <3>1
    <3> HIDE DEF rs, match
    <3>3. \E digest \in match.all : digest[1] = "gauge"
      <4>1. EvidenceDigest(spec, rs[1])[1] = "gauge"
        BY <3>2 DEF EvidenceDigest
      <4> QED BY <2>1, <3>2, <4>1
    <3> QED BY <3>3 DEF Whole
  <2>3. CASE spec.type # "metric"
    <3> DEFINE T == {e \in ToSet(recorded) : e.target = t /\ e.reason \in SignalReasons(spec)}
    <3>1. rs = OnlyIn(recorded, T)
      BY <2>3 DEF RecordsOf
    <3> HIDE DEF T
    <3>2. PICK S : recorded \in Seq(S)
      BY DEF RecordedSound
    <3>3. rs \in Seq(S) /\ DistinctIds(rs)
      BY <3>1, <3>2, OnlyInKeeps, OnlyInDistinct DEF RecordedSound
    <3> HIDE DEF rs
    <3>4. k \in Nat /\ DOMAIN rs = 1 .. k
      BY <3>3
    <3>5. Cardinality(match.all) = k
      <4> DEFINE D(i) == EvidenceDigest(spec, rs[i])
                 ids == {D(i) : i \in 1 .. k}
                 h == [i \in 1 .. k |-> D(i)]
      <4>6. \A i, j \in 1 .. k : D(i) = D(j) => i = j
        <5>1. \A i : D(i)[1] = rs[i].id
          BY DEF EvidenceDigest
        <5> HIDE DEF D
        <5> QED BY <3>3, <3>4, <5>1 DEF DistinctIds
      <4> HIDE DEF D
      <4>1. h \in Bijection(1 .. k, ids)
        BY <4>6 DEF Bijection, Injection, Surjection, IsInjective
      <4>2. ExistsBijection(1 .. k, ids)
        BY <4>1 DEF ExistsBijection
      <4>3. IsFiniteSet(1 .. k) /\ Cardinality(1 .. k) = k
        <5> HIDE DEF k
        <5> QED BY <3>4, FS_Interval
      <4>4. Cardinality(ids) = k
        BY <4>2, <4>3, FS_Bijection
      <4>5. match.all = ids
        BY <2>1, <3>4 DEF D
      <4> QED BY <4>4, <4>5
    <3>6. ASSUME Cardinality(match.all) <= MaxRefs
          PROVE  match.digests = match.all
      <4>1. k <= MaxRefs
        BY <3>5, <3>6
      <4>2. kept = rs
        <5> DEFINE n == IF k < MaxRefs THEN k ELSE MaxRefs
        <5>1. n = k
          <6> HIDE DEF k
          <6> QED BY <1>2, <3>4, <4>1
        <5> HIDE DEF n
        <5>2. SubSeq(rs, 1, n) = rs
          BY <3>3, <5>1
        <5> QED BY <5>2 DEF n
      <4> HIDE DEF kept, match
      <4> QED BY <2>1, <4>2
    <3> HIDE DEF match
    <3> QED BY <3>6 DEF Whole
  <2> QED BY <2>2, <2>3
<1> HIDE DEF match, rs
<1>4. <<match>> \in Seq({match}) /\ <<>> \in Seq({match})
  OBVIOUS
<1>5. \A m \in {match} : Whole(m)
  BY <1>3
<1>6. EvaluateSignal(spec, t) \in Seq({match})
  BY <1>1, <1>4
<1> QED BY <1>5, <1>6

IsMatching(f, n, t) ==
    f = [i \in 0 .. n |->
            IF i = 0 THEN <<>>
            ELSE IF Blocked(rule.signals[i]) THEN f[i - 1]
            ELSE f[i - 1] \o EvaluateSignal(rule.signals[i], t)]

LEMMA MatchingExists ==
  ASSUME NEW t
  PROVE  \A n \in Nat : \E f : IsMatching(f, n, t)
<1> DEFINE S == {n \in Nat : \E f : IsMatching(f, n, t)}
           Next1(s, i) == IF Blocked(rule.signals[i]) THEN s
                          ELSE s \o EvaluateSignal(rule.signals[i], t)
           none == <<>>
<1>1. 0 \in S
  <2> DEFINE f == [i \in 0 .. 0 |-> none]
  <2>1. IsMatching(f, 0, t)
    BY DEF IsMatching
  <2> QED BY <2>1
<1>2. \A n \in Nat : n \in S => n + 1 \in S
  <2> SUFFICES ASSUME NEW n \in Nat, n \in S PROVE n + 1 \in S
    OBVIOUS
  <2>1. PICK f : IsMatching(f, n, t)
    OBVIOUS
  <2> DEFINE g == [i \in 0 .. n + 1 |-> IF i = 0 THEN none ELSE Next1(f[i - 1], i)]
  <2>2. \A i \in 0 .. n : f[i] = IF i = 0 THEN none ELSE Next1(f[i - 1], i)
    BY <2>1 DEF IsMatching
  <2> HIDE DEF none, Next1
  <2>3. \A i \in 0 .. n : g[i] = f[i]
    BY <2>2
  <2>4. g = [i \in 0 .. n + 1 |-> IF i = 0 THEN none ELSE Next1(g[i - 1], i)]
    <3>1. \A i \in 0 .. n + 1 : i # 0 => i - 1 \in 0 .. n
      OBVIOUS
    <3> QED BY <2>3, <3>1
  <2> HIDE DEF g
  <2>5. IsMatching(g, n + 1, t)
    BY <2>4 DEF IsMatching, none, Next1
  <2> QED BY <2>5
<1> HIDE DEF S
<1>3. Nat \subseteq S
  BY <1>1, <1>2, CountingUp
<1> QED BY <1>3 DEF S

LEMMA MatchingIsLast ==
  ASSUME NEW t, Len(rule.signals) \in Nat
  PROVE  \E f : /\ IsMatching(f, Len(rule.signals), t)
                /\ EvaluateTarget(t) = f[Len(rule.signals)]
<1> DEFINE f == CHOOSE f : IsMatching(f, Len(rule.signals), t)
<1>1. IsMatching(f, Len(rule.signals), t)
  BY MatchingExists
<1>2. EvaluateTarget(t) = f[Len(rule.signals)]
  BY Zenon DEF EvaluateTarget, IsMatching
<1> QED BY <1>1, <1>2

\* Every match of a target comes from one of the signals.
LEMMA TargetMatches ==
  ASSUME RecordedSound, NEW t, Len(rule.signals) \in Nat
  PROVE  /\ \E S : EvaluateTarget(t) \in Seq(S)
         /\ \A m \in ToSet(EvaluateTarget(t)) : Whole(m)
<1> DEFINE k == Len(rule.signals)
           Of(i) == ToSet(EvaluateSignal(rule.signals[i], t))
           S == UNION {Of(i) : i \in 1 .. k}
<1>1. PICK f : IsMatching(f, k, t) /\ EvaluateTarget(t) = f[k]
  BY MatchingIsLast
<1>2. \A i \in 1 .. k : /\ EvaluateSignal(rule.signals[i], t) \in Seq(Of(i))
                        /\ \A m \in Of(i) : Whole(m)
  <2> SUFFICES ASSUME NEW i \in 1 .. k
               PROVE  /\ EvaluateSignal(rule.signals[i], t) \in Seq(Of(i))
                      /\ \A m \in Of(i) : Whole(m)
    OBVIOUS
  <2> DEFINE e == EvaluateSignal(rule.signals[i], t)
  <2>1. PICK R : e \in Seq(R) /\ \A m \in R : Whole(m)
    BY SignalMatch
  <2> HIDE DEF e
  <2>2. e \in Seq(ToSet(e)) /\ ToSet(e) \subseteq R
    BY <2>1 DEF ToSet
  <2> QED BY <2>1, <2>2 DEF e
<1> HIDE DEF Of
<1>3. \A i \in 1 .. k : EvaluateSignal(rule.signals[i], t) \in Seq(S)
  <2> HIDE DEF k
  <2> SUFFICES ASSUME NEW i \in 1 .. k PROVE EvaluateSignal(rule.signals[i], t) \in Seq(S)
    OBVIOUS
  <2>1. Of(i) \subseteq S
    OBVIOUS
  <2>2. EvaluateSignal(rule.signals[i], t) \in Seq(Of(i))
    BY <1>2
  <2> HIDE DEF S
  <2> QED BY <2>1, <2>2
<1>4. \A m \in S : Whole(m)
  <2> HIDE DEF Whole, k
  <2> QED BY <1>2
<1> HIDE DEF S, k
<1>5. \A n \in 0 .. k :
         f[n] = IF n = 0 THEN <<>>
                ELSE IF Blocked(rule.signals[n]) THEN f[n - 1]
                ELSE f[n - 1] \o EvaluateSignal(rule.signals[n], t)
  BY <1>1 DEF IsMatching
<1> DEFINE G == {n \in Nat : n <= k => f[n] \in Seq(S)}
<1>6. k \in Nat
  BY DEF k
<1>7. 0 \in G
  <2>1. f[0] = <<>>
    BY <1>5, <1>6
  <2>2. <<>> \in Seq(S)
    OBVIOUS
  <2>3. f[0] \in Seq(S)
    BY <2>1, <2>2
  <2> QED BY <2>3
<1>8. \A n \in Nat : n \in G => n + 1 \in G
  <2> SUFFICES ASSUME NEW n \in Nat, n \in G, n + 1 <= k PROVE f[n + 1] \in Seq(S)
    OBVIOUS
  <2>1. f[n] \in Seq(S) /\ n + 1 \in 0 .. k /\ n + 1 \in 1 .. k /\ n + 1 # 0 /\ (n + 1) - 1 = n
    BY <1>6
  <2>2. f[n + 1] = IF Blocked(rule.signals[n + 1]) THEN f[n]
                   ELSE f[n] \o EvaluateSignal(rule.signals[n + 1], t)
    BY <1>5, <2>1
  <2>3. EvaluateSignal(rule.signals[n + 1], t) \in Seq(S)
    BY <1>3, <2>1
  <2> QED BY <2>1, <2>2, <2>3
<1> HIDE DEF G
<1>9. k \in G
  BY <1>6, <1>7, <1>8, CountingUp
<1>10. EvaluateTarget(t) \in Seq(S)
  BY <1>1, <1>6, <1>9 DEF G
<1>11. ToSet(EvaluateTarget(t)) \subseteq S
  BY <1>10 DEF ToSet
<1> QED BY <1>4, <1>10, <1>11

-----------------------------------------------------------------------------
(* The objects of a rule.                                                  *)

AttributesOf(matched) ==
    {[signal |-> x.signal, digests |-> x.all] : x \in matched}

\* The name of a request is made of its target, the generations and the events.
RequestSound(o) ==
    LET id == o.name.identity
    IN  /\ o.name = [identity |-> id, token |-> NoText]
        /\ id = [target |-> id.target, targetGeneration |-> id.targetGeneration,
                 sourceGeneration |-> id.sourceGeneration, attributes |-> id.attributes]
        /\ OfEvents(o) => id.attributes = AttributesOf(o.matched)

RuleInv ==
    /\ rule \in Rules
    /\ RecordedSound
    /\ \A a, b \in produced : a.kind = b.kind /\ a.name = b.name => a = b
    /\ \A o \in produced : o.kind = "InvestigationRequest" => RequestSound(o)

LEMMA RuleInvSuffices ==
  ASSUME RuleInv
  PROVE  OneRequestPerIncident
<1> SUFFICES ASSUME NEW a \in produced, NEW b \in produced,
                    a.kind = "InvestigationRequest", b.kind = a.kind,
                    OfEvents(a), a.matched = b.matched,
                    a.name.identity.target = b.name.identity.target,
                    a.name.identity.targetGeneration = b.name.identity.targetGeneration,
                    a.name.identity.sourceGeneration = b.name.identity.sourceGeneration
             PROVE  a = b
  BY DEF OneRequestPerIncident
<1>1. RequestSound(a) /\ RequestSound(b) /\ (a.name = b.name => a = b)
  BY DEF RuleInv
<1>2. OfEvents(b)
  BY DEF OfEvents
<1>3. a.name.identity.attributes = b.name.identity.attributes
  BY <1>1, <1>2 DEF RequestSound
<1>4. a.name.identity = b.name.identity
  BY <1>1, <1>3 DEF RequestSound
<1>5. a.name = b.name
  BY <1>1, <1>4 DEF RequestSound
<1> QED BY <1>1, <1>5

\* What a write of a request or a signal keeps.
LEMMA UpsertKeepsObjects ==
  ASSUME RuleInv, NEW kind, NEW target, NEW matches, NEW rca,
         \A m \in ToSet(matches) : Whole(m),
         Upsert(kind, target, matches, rca)
  PROVE  /\ \A a, b \in produced' : a.kind = b.kind /\ a.name = b.name => a = b
         /\ \A o \in produced' : o.kind = "InvestigationRequest" => RequestSound(o)
<1> DEFINE name == ObjectName(kind, target, pass.gen, matches)
           found == {[signal |-> m.signal, all |-> m.all] : m \in ToSet(matches)}
           new == [kind |-> kind, name |-> name, rca |-> rca, matched |-> found]
           left == {o \in produced : <<o.kind, o.name>> # <<kind, name>>}
<1>1. produced' = left \cup {new}
  BY DEF Upsert
<1>2. new.kind = kind /\ new.name = name /\ new.matched = found
  OBVIOUS
<1>3. \A o \in left : o \in produced /\ (o.kind # kind \/ o.name # name)
  OBVIOUS
<1>4. kind = "InvestigationRequest" => RequestSound(new)
  <2> SUFFICES ASSUME kind = "InvestigationRequest" PROVE RequestSound(new)
    OBVIOUS
  <2> DEFINE id == FindingIdentity(target, pass.gen, matches)
  <2>1. name = [identity |-> id, token |-> NoText]
    BY DEF ObjectName
  <2>2. id = [target |-> target.name, targetGeneration |-> target.gen,
              sourceGeneration |-> pass.gen,
              attributes |-> NormalizedFindingAttributes(matches)]
    BY DEF FindingIdentity
  <2> HIDE DEF id, name
  <2>3. name.identity = id
    BY <2>1
  <2>4. id = [target |-> id.target, targetGeneration |-> id.targetGeneration,
              sourceGeneration |-> id.sourceGeneration, attributes |-> id.attributes]
    BY <2>2
  <2>5. ASSUME OfEvents(new) PROVE id.attributes = AttributesOf(new.matched)
    <3>1. \A m \in ToSet(matches) : m.digests = m.all
      <4> SUFFICES ASSUME NEW m \in ToSet(matches) PROVE m.digests = m.all
        OBVIOUS
      <4> DEFINE x == [signal |-> m.signal, all |-> m.all]
      <4>1. x \in new.matched /\ x.all = m.all
        BY <1>2
      <4> HIDE DEF x, new
      <4>2. (\A digest \in m.all : digest[1] # "gauge") /\ Cardinality(m.all) <= MaxRefs
        BY <2>5, <4>1 DEF OfEvents
      <4> QED BY <4>2 DEF Whole
    <3>2. id.attributes = NormalizedFindingAttributes(matches)
      BY <2>2
    <3>3. AttributesOf(found) = {[signal |-> m.signal, digests |-> m.all] : m \in ToSet(matches)}
      <4> DEFINE pair(m) == [signal |-> m.signal, all |-> m.all]
                 E(x) == [signal |-> x.signal, digests |-> x.all]
      <4>1. \A m : pair(m).signal = m.signal /\ pair(m).all = m.all
        OBVIOUS
      <4>2. \A m : E(pair(m)) = E(m)
        BY <4>1
      <4>3. found = {pair(m) : m \in ToSet(matches)}
        OBVIOUS
      <4>4. AttributesOf(found) = {E(x) : x \in found}
        BY DEF AttributesOf
      <4> HIDE DEF E, pair, found
      <4>5. {E(x) : x \in found} = {E(m) : m \in ToSet(matches)}
        BY <4>2, <4>3
      <4> QED BY <4>4, <4>5 DEF E
    <3>4. NormalizedFindingAttributes(matches)
            = {[signal |-> m.signal, digests |-> m.all] : m \in ToSet(matches)}
      BY <3>1 DEF NormalizedFindingAttributes
    <3> QED BY <1>2, <3>2, <3>3, <3>4
  <2> HIDE DEF new
  <2> QED BY <1>2, <2>1, <2>3, <2>4, <2>5 DEF RequestSound
<1> HIDE DEF new, left, name
<1>5. \A a, b \in produced' : a.kind = b.kind /\ a.name = b.name => a = b
  BY <1>1, <1>2, <1>3 DEF RuleInv
<1>6. \A o \in produced' : o.kind = "InvestigationRequest" => RequestSound(o)
  BY <1>1, <1>2, <1>3, <1>4 DEF RuleInv
<1> QED BY <1>5, <1>6

\* The rule, the events and the objects are all the invariant is about.
LEMMA RuleInvDepends ==
  ASSUME RuleInv, UNCHANGED <<rule, recorded>>,
         \A a, b \in produced' : a.kind = b.kind /\ a.name = b.name => a = b,
         \A o \in produced' : o.kind = "InvestigationRequest" => RequestSound(o)
  PROVE  RuleInv'
<1>1. rule' \in Rules
  BY DEF RuleInv
<1>2. RecordedSound'
  BY DEF RuleInv, RecordedSound
<1> QED BY <1>1, <1>2 DEF RuleInv

LEMMA EvaluateKeepsRuleInv ==
  ASSUME RuleInv, NEW answer, EvaluateNext(answer)
  PROVE  RuleInv'
<1> DEFINE target == Head(pass.todo)
           matches == EvaluateTarget(target.name)
<1>1. Len(rule.signals) \in Nat
  BY RuleAssumption DEF RuleInv
<1>2. \A m \in ToSet(matches) : Whole(m)
  BY <1>1, TargetMatches DEF RuleInv
<1>3. UNCHANGED <<rule, recorded>>
  BY DEF EvaluateNext
<1>4. \/ UNCHANGED produced
      \/ Upsert("RiskSignal", target, matches, AnalyzeRCA(answer))
      \/ Upsert("InvestigationRequest", target, matches, "none")
  BY DEF EvaluateNext
<1> HIDE DEF target, matches
<1>5. /\ \A a, b \in produced' : a.kind = b.kind /\ a.name = b.name => a = b
      /\ \A o \in produced' : o.kind = "InvestigationRequest" => RequestSound(o)
  <2>1. CASE UNCHANGED produced
    BY <2>1 DEF RuleInv
  <2>2. CASE Upsert("RiskSignal", target, matches, AnalyzeRCA(answer))
    BY <1>2, <2>2, UpsertKeepsObjects
  <2>3. CASE Upsert("InvestigationRequest", target, matches, "none")
    BY <1>2, <2>3, UpsertKeepsObjects
  <2> QED BY <1>4, <2>1, <2>2, <2>3
<1> QED BY <1>3, <1>5, RuleInvDepends

\* An event that is counted again leaves its place and comes last.
LEMMA RecordKeepsRuleInv ==
  ASSUME RuleInv, NEW e, RecordEvent(e)
  PROVE  RuleInv'
<1> DEFINE T == {r \in ToSet(recorded) : r.id # e.id}
           others == OnlyIn(recorded, T)
           k == Len(others)
<1>1. PICK x : x.id = e.id /\ recorded' = Append(others, x)
  <2> DEFINE earlier == OnlyIn(recorded, {r \in ToSet(recorded) : r.id = e.id})
             x == [id |-> e.id, target |-> e.target, reason |-> e.reason,
                   message |-> e.message,
                   count |-> IF earlier = <<>> THEN 1 ELSE earlier[1].count + 1]
  <2>1. recorded' = Append(others, x)
    BY DEF RecordEvent
  <2>2. x.id = e.id
    OBVIOUS
  <2> HIDE DEF x, others
  <2> QED BY <2>1, <2>2
<1>2. PICK S : recorded \in Seq(S)
  BY DEF RuleInv, RecordedSound
<1>3. DistinctIds(recorded)
  BY DEF RuleInv, RecordedSound
<1>4. others \in Seq(S) /\ ToSet(others) \subseteq T
  <2> HIDE DEF T
  <2> QED BY <1>2, OnlyInKeeps
<1>5. DistinctIds(others)
  <2> HIDE DEF T
  <2> QED BY <1>2, <1>3, OnlyInDistinct
<1> HIDE DEF others
<1>6. k \in Nat /\ DOMAIN others = 1 .. k
  BY <1>4
<1>7. \A i \in 1 .. k : others[i].id # e.id
  BY <1>4, <1>6 DEF ToSet
<1>8. recorded' \in Seq(S \cup {x})
  <2>1. others \in Seq(S \cup {x})
    BY <1>4
  <2> QED BY <1>1, <2>1
<1>9. /\ DOMAIN recorded' = 1 .. k + 1 /\ recorded'[k + 1] = x
      /\ \A i \in 1 .. k : recorded'[i] = others[i]
  BY <1>1, <1>4, <1>6
<1> HIDE DEF k
<1>10. \A i \in 1 .. k + 1 : i \in 1 .. k \/ i = k + 1
  BY <1>6
<1>11. DistinctIds(recorded')
  BY <1>1, <1>5, <1>6, <1>7, <1>9, <1>10 DEF DistinctIds
<1>12. RecordedSound'
  BY <1>8, <1>11 DEF RecordedSound, DistinctIds
<1>13. UNCHANGED <<rule, produced>>
  BY DEF RecordEvent, Change
<1> QED BY <1>12, <1>13 DEF RuleInv

\* The invariant of a rule's events and objects.
THEOREM RuleInvariant == RuleSpec => []RuleInv
<1>1. RuleInit => RuleInv
  <2> SUFFICES ASSUME RuleInit PROVE RuleInv
    OBVIOUS
  <2>1. recorded \in Seq({}) /\ DistinctIds(recorded)
    BY DEF RuleInit, DistinctIds
  <2>2. RecordedSound
    BY <2>1 DEF RecordedSound
  <2> QED BY <2>2 DEF RuleInit, RuleInv
<1>2. RuleInv /\ [RuleNext]_ruleVars => RuleInv'
  <2> SUFFICES ASSUME RuleInv, [RuleNext]_ruleVars PROVE RuleInv'
    OBVIOUS
  <2>1. ASSUME UNCHANGED <<rule, recorded, produced>> PROVE RuleInv'
    <3>1. /\ \A a, b \in produced' : a.kind = b.kind /\ a.name = b.name => a = b
          /\ \A o \in produced' : o.kind = "InvestigationRequest" => RequestSound(o)
      BY <2>1 DEF RuleInv
    <3> QED BY <2>1, <3>1, RuleInvDepends
  <2>2. CASE BeginPass \/ UpsertFails \/ EndPass
    BY <2>1, <2>2 DEF BeginPass, UpsertFails, EndPass
  <2>3. CASE \E answer \in {"failed", "unverified", "verified"} : EvaluateNext(answer)
    BY <2>3, EvaluateKeepsRuleInv
  <2>4. CASE \E e \in Events : RecordEvent(e)
    BY <2>4, RecordKeepsRuleInv
  <2>5. CASE MeasureMetric \/ ChangeSource \/ NextWindow
    BY <2>1, <2>5 DEF MeasureMetric, ChangeSource, NextWindow, Change
  <2>6. CASE \E t \in Targets : EditTarget(t)
    BY <2>1, <2>6 DEF EditTarget, Change
  <2>7. CASE EditRule
    <3>1. rule' \in Rules /\ UNCHANGED <<recorded, produced>>
      BY <2>7 DEF EditRule, Change
    <3>2. RecordedSound'
      BY <3>1 DEF RuleInv, RecordedSound
    <3> QED BY <3>1, <3>2 DEF RuleInv
  <2>8. CASE UNCHANGED ruleVars
    BY <2>1, <2>8 DEF ruleVars
  <2> QED BY <2>2, <2>3, <2>4, <2>5, <2>6, <2>7, <2>8 DEF RuleNext
<1> QED BY <1>1, <1>2, PTL DEF RuleSpec

(* upsertInvestigationRequest, for every rule, cluster and history of      *)
(* events: however often the same events recur and are reconciled, the     *)
(* rule keeps one request for them as long as neither it nor the target is *)
(* edited.                                                                 *)
THEOREM IncidentHasOneRequest == RuleSpec => []OneRequestPerIncident
<1>1. RuleInv => OneRequestPerIncident
  BY RuleInvSuffices
<1> QED BY <1>1, RuleInvariant, PTL

-----------------------------------------------------------------------------
(* A signal's annotation, which silences the notifier.                     *)

(* A notifier about to annotate holds the current version only if a notice *)
(* of the signal that is there now was delivered: a successor created      *)
(* meanwhile makes its copy outdated.                                      *)
AnnotatorKnows ==
    pc["notification"] = "annotate" /\ fresh["notification"] => announced

SignalInv == SignalTypeOK /\ AnnotatorKnows /\ AnnotatedWasAnnounced

-----------------------------------------------------------------------------
\* In the beginning there is no signal and nobody annotates one.
LEMMA SignalInitInv == SignalInit => SignalInv
<1> SUFFICES ASSUME SignalInit PROVE SignalInv
  OBVIOUS
<1>1. NoSignal \in Signals
  BY DEF NoSignal, Signals
<1>2. MaxFaults[origin] \in Nat
  BY SignalAssumption DEF SignalInit
<1>3. SignalTypeOK
  <2>1. faults \in 0 .. MaxFaults[origin]
    BY <1>2 DEF SignalInit
  <2>2. /\ origin \in Origins /\ signal \in Signals /\ seen \in Signals
        /\ timer \in BOOLEAN /\ plan \in {"none", "owned", "orphan"}
        /\ announced \in BOOLEAN
    BY <1>1 DEF SignalInit
  <2>3. /\ fresh \in [Copies -> BOOLEAN]
        /\ queued \in [Watchers -> BOOLEAN]
        /\ pc \in [Controllers -> {"idle", "plan", "annotate", "status", "done"}]
    BY DEF SignalInit
  <2> QED
    BY <2>1, <2>2, <2>3 DEF SignalTypeOK
<1>4. AnnotatorKnows /\ AnnotatedWasAnnounced
  BY DEF SignalInit, AnnotatorKnows, AnnotatedWasAnnounced, NoSignal, Controllers, Watchers
<1> QED
  BY <1>3, <1>4 DEF SignalInv

(* A write makes the writer's copy the only current one, and leaves a      *)
(* signal.                                                                 *)
LEMMA WriteTyped ==
    ASSUME NEW c \in Copies, NEW s \in Signals, Write(c, s)
    PROVE  /\ signal' \in Signals /\ fresh' \in [Copies -> BOOLEAN]
           /\ signal' = s
           /\ \A x \in Copies : fresh'[x] => x = c
BY DEF Write

\* The fields that writes set keep the type of a signal.
LEMMA SignalFields ==
    ASSUME NEW s \in Signals
    PROVE  /\ \A p \in {"Confirmed", "Notified", "ReadyForApproval"} :
                 /\ [s EXCEPT !.phase = p] \in Signals
                 /\ [s EXCEPT !.phase = p].annotated = s.annotated
                 /\ [s EXCEPT !.phase = p].exists = s.exists
                 /\ [s EXCEPT !.phase = p, !.ready = "True"] \in Signals
                 /\ [s EXCEPT !.phase = p, !.ready = "True"].annotated = s.annotated
                 /\ [s EXCEPT !.phase = p, !.ready = "True"].exists = s.exists
           /\ [s EXCEPT !.annotated = TRUE] \in Signals
           /\ s.exists \in BOOLEAN
           /\ \A b \in BOOLEAN :
                 /\ [s EXCEPT !.expired = b] \in Signals
                 /\ [s EXCEPT !.expired = b].annotated = s.annotated
                 /\ [s EXCEPT !.expired = b].exists = s.exists
BY DEF Signals

\* A new signal, and one that is gone, carry no annotation.
LEMMA FreshSignals ==
    /\ NoSignal \in Signals /\ NewSignal \in Signals
    /\ ~ NoSignal.exists /\ ~ NewSignal.annotated
BY DEF NoSignal, NewSignal, Signals

-----------------------------------------------------------------------------
(* A step that announces as much as before, annotates nothing and brings   *)
(* the notifier neither a current copy nor to its annotation.              *)
LEMMA QuietStep ==
    ASSUME SignalInv, SignalTypeOK', announced' = announced,
           signal'.exists /\ signal'.annotated => signal.exists /\ signal.annotated,
           fresh'["notification"] => fresh["notification"],
           pc'["notification"] = "annotate" => pc["notification"] = "annotate"
    PROVE  SignalInv'
BY DEF SignalInv, AnnotatorKnows, AnnotatedWasAnnounced

\* The informer, the clock, the garbage collector and a restart.
LEMMA EnvironmentSteps ==
    ASSUME SignalInv, Sync \/ Age \/ Crash \/ CollectPlan \/ Timer
    PROVE  SignalInv'
<1> USE DEF SignalInv
<1>1. CASE Sync
  <2>1. SignalTypeOK'
    BY <1>1 DEF Sync, SignalTypeOK
  <2>2. fresh'["notification"] => fresh["notification"]
    BY <1>1 DEF Sync, SignalTypeOK, Copies, Controllers, Watchers
  <2> QED
    BY <1>1, <2>1, <2>2, QuietStep DEF Sync
<1>2. CASE Age
  <2>1. signal \in Signals /\ seen \in Signals
    BY DEF SignalTypeOK
  <2>2. /\ signal' \in Signals /\ seen' \in Signals
        /\ signal'.annotated = signal.annotated /\ signal'.exists = signal.exists
    BY <1>2, <2>1, SignalFields DEF Age
  <2>3. SignalTypeOK'
    BY <1>2, <2>2 DEF Age, SignalTypeOK
  <2> QED
    BY <1>2, <2>2, <2>3, QuietStep DEF Age
<1>3. CASE Crash
  <2>1. /\ pc' \in [Controllers -> {"idle", "plan", "annotate", "status", "done"}]
        /\ fresh' \in [Copies -> BOOLEAN]
        /\ queued' \in [Watchers -> BOOLEAN]
    BY <1>3 DEF Crash
  <2>2. faults' \in 0 .. MaxFaults[origin] /\ origin' = origin
    <3>1. MaxFaults[origin] \in Nat
      BY SignalAssumption DEF SignalTypeOK
    <3> QED
      BY <1>3, <3>1 DEF Crash, SignalTypeOK
  <2>3. SignalTypeOK'
    BY <1>3, <2>1, <2>2 DEF Crash, SignalTypeOK
  <2>4. ~ fresh'["notification"]
    BY <1>3 DEF Crash, Copies, Controllers, Watchers
  <2>5. pc'["notification"] # "annotate"
    BY <1>3 DEF Crash, Controllers, Watchers
  <2> QED
    BY <1>3, <2>3, <2>4, <2>5, QuietStep DEF Crash
<1>4. CASE CollectPlan
  <2>1. SignalTypeOK'
    BY <1>4, SignalAssumption DEF CollectPlan, SignalTypeOK, Watchers
  <2> QED
    BY <1>4, <2>1, QuietStep DEF CollectPlan
<1>5. CASE Timer
  <2>1. SignalTypeOK'
    BY <1>5 DEF Timer, SignalTypeOK, Watchers
  <2> QED
    BY <1>5, <2>1, QuietStep DEF Timer
<1> QED
  BY <1>1, <1>2, <1>3, <1>4, <1>5

\* A status write of another controller than the notifier.
LEMMA StatusWrite ==
    ASSUME SignalInv, NEW c \in Controllers \ {"notification"}, NEW s \in Signals,
           WriteStatus(c, s), s.annotated = signal.annotated,
           UNCHANGED <<origin, seen, timer, plan, announced, faults>>
    PROVE  SignalInv'
<1> USE DEF SignalInv
<1>1. c \in Copies /\ c # "notification" /\ "notification" \in Copies
  BY DEF Copies, Controllers, Watchers
<1>2. CASE Current(c)
  <2>1. Write(c, s)
    BY <1>2 DEF WriteStatus
  <2>2. /\ signal' \in Signals /\ fresh' \in [Copies -> BOOLEAN]
        /\ signal' = s /\ ~ fresh'["notification"]
    BY <1>1, <2>1, WriteTyped
  <2>3. pc' \in [Controllers -> {"idle", "plan", "annotate", "status", "done"}]
    BY DEF WriteStatus, SignalTypeOK
  <2>4. queued' \in [Watchers -> BOOLEAN]
    BY DEF WriteStatus, SignalTypeOK
  <2>5. SignalTypeOK'
    BY <2>2, <2>3, <2>4 DEF SignalTypeOK
  <2>6. signal'.annotated = signal.annotated /\ signal.exists
    BY <1>2, <2>2 DEF Current
  <2>7. pc'["notification"] = pc["notification"]
    BY <1>1 DEF WriteStatus, SignalTypeOK
  <2> QED
    BY <2>2, <2>5, <2>6, <2>7, QuietStep
<1>3. CASE ~ Current(c)
  <2>1. UNCHANGED <<signal, fresh>>
    BY <1>3 DEF WriteStatus
  <2>2. pc' \in [Controllers -> {"idle", "plan", "annotate", "status", "done"}]
    BY DEF WriteStatus, SignalTypeOK
  <2>3. queued' \in [Watchers -> BOOLEAN]
    BY DEF WriteStatus, SignalTypeOK
  <2>4. SignalTypeOK'
    BY <2>1, <2>2, <2>3 DEF SignalTypeOK
  <2>5. pc'["notification"] = pc["notification"]
    BY <1>1 DEF WriteStatus, SignalTypeOK
  <2> QED
    BY <2>1, <2>4, <2>5, QuietStep
<1> QED
  BY <1>2, <1>3

(* A new signal is unannotated and makes every other copy outdated; an     *)
(* update of the spec leaves the annotation as it is.                      *)
LEMMA CreateOrUpdateStep ==
    ASSUME SignalInv, CreateOrUpdate
    PROVE  SignalInv'
<1> USE DEF SignalInv
<1>1. "writer" \in Copies /\ "notification" \in Copies /\ "writer" # "notification"
  BY DEF Copies, Controllers, Watchers
<1>2. /\ pc' \in [Controllers -> {"idle", "plan", "annotate", "status", "done"}]
      /\ pc'["notification"] = pc["notification"]
  BY DEF CreateOrUpdate, SignalTypeOK, Controllers, Watchers
<1>3. UNCHANGED <<origin, seen, queued, timer, plan, faults>>
  BY DEF CreateOrUpdate
<1>4. CASE Write("writer", NewSignal) /\ announced' = FALSE
  <2>1. /\ signal' \in Signals /\ fresh' \in [Copies -> BOOLEAN]
        /\ ~ signal'.annotated /\ ~ fresh'["notification"]
    BY <1>1, <1>4, WriteTyped, FreshSignals
  <2>2. SignalTypeOK'
    BY <1>2, <1>3, <1>4, <2>1 DEF SignalTypeOK
  <2> QED
    BY <2>1, <2>2 DEF AnnotatorKnows, AnnotatedWasAnnounced
<1>5. CASE Read("writer") /\ UNCHANGED <<signal, announced>>
  <2>1. fresh' \in [Copies -> BOOLEAN] /\ fresh'["notification"] = fresh["notification"]
    BY <1>1, <1>5 DEF Read, SignalTypeOK, Copies
  <2>2. SignalTypeOK'
    BY <1>2, <1>3, <1>5, <2>1 DEF SignalTypeOK
  <2> QED
    BY <1>2, <1>5, <2>1, <2>2, QuietStep
<1>6. CASE Write("writer", signal) /\ UNCHANGED announced
  <2>1. signal \in Signals
    BY DEF SignalTypeOK
  <2>2. /\ signal' = signal /\ fresh' \in [Copies -> BOOLEAN]
        /\ ~ fresh'["notification"]
    BY <1>1, <1>6, <2>1, WriteTyped
  <2>3. SignalTypeOK'
    BY <1>2, <1>3, <1>6, <2>2 DEF SignalTypeOK
  <2> QED
    BY <1>2, <1>6, <2>2, <2>3, QuietStep
<1> QED
  BY <1>4, <1>5, <1>6 DEF CreateOrUpdate

-----------------------------------------------------------------------------
\* The three controllers that find risks.
LEMMA WriterSteps ==
    ASSUME SignalInv, UpsertRiskSignal \/ ReportDeployment \/ PromoteToRiskSignal
    PROVE  SignalInv'
<1> DEFINE confirmed == [signal EXCEPT !.phase = "Confirmed"]
           projected == [signal EXCEPT !.phase = "Confirmed", !.ready = "True"]
<1>1. signal \in Signals
  BY DEF SignalInv, SignalTypeOK
<1>2. /\ confirmed \in Signals /\ confirmed.annotated = signal.annotated
      /\ projected \in Signals /\ projected.annotated = signal.annotated
  BY <1>1, SignalFields
<1>3. "writer" \in Controllers \ {"notification"}
  BY DEF Controllers, Watchers
<1> HIDE DEF confirmed, projected
<1>4. CASE CreateOrUpdate
  BY <1>4, CreateOrUpdateStep
<1>5. CASE /\ WriteStatus("writer", confirmed)
           /\ UNCHANGED <<origin, seen, timer, plan, announced, faults>>
  BY <1>2, <1>3, <1>5, StatusWrite
<1>6. CASE /\ IF Current("writer") THEN Write("writer", projected)
              ELSE UNCHANGED <<signal, fresh>>
           /\ pc' = [pc EXCEPT !["writer"] = IF signal.exists THEN "done" ELSE "idle"]
           /\ UNCHANGED <<origin, seen, queued, timer, plan, announced, faults>>
  <2>1. /\ pc' \in [Controllers -> {"idle", "plan", "annotate", "status", "done"}]
        /\ pc'["notification"] = pc["notification"]
    BY <1>6 DEF SignalInv, SignalTypeOK, Controllers, Watchers
  <2>2. "writer" \in Copies /\ "notification" \in Copies /\ "writer" # "notification"
    BY DEF Copies, Controllers, Watchers
  <2>3. CASE Current("writer")
    <3>1. /\ signal' = projected /\ fresh' \in [Copies -> BOOLEAN]
          /\ ~ fresh'["notification"]
      BY <1>2, <1>6, <2>2, <2>3, WriteTyped
    <3>2. SignalTypeOK'
      BY <1>2, <1>6, <2>1, <3>1 DEF SignalInv, SignalTypeOK
    <3> QED
      BY <1>2, <1>6, <2>1, <2>3, <3>1, <3>2, QuietStep DEF Current
  <2>4. CASE ~ Current("writer")
    <3>1. SignalTypeOK' /\ UNCHANGED <<signal, fresh>>
      BY <1>6, <2>1, <2>4 DEF SignalInv, SignalTypeOK
    <3> QED
      BY <1>6, <2>1, <3>1, QuietStep
  <2> QED
    BY <2>3, <2>4
<1> QED
  BY <1>4, <1>5, <1>6
     DEF UpsertRiskSignal, ReportDeployment, PromoteToRiskSignal, confirmed, projected

\* RiskSignalReconciler deletes, plans and records.
LEMMA RemediationSteps ==
    ASSUME SignalInv, ReconcileSignal \/ MaterializePlan \/ RecordPlan
    PROVE  SignalInv'
<1>1. /\ "remediation" \in Copies /\ "notification" \in Copies
      /\ "remediation" # "notification"
      /\ "remediation" \in Controllers \ {"notification"}
      /\ "remediation" \in Watchers /\ "cache" \in Copies
  BY DEF Copies, Controllers, Watchers
<1>2. SignalTypeOK
  BY DEF SignalInv
<1>3. CASE ReconcileSignal
  <2>1. queued' \in [Watchers -> BOOLEAN] /\ UNCHANGED <<origin, seen, announced, faults>>
    BY <1>2, <1>3 DEF ReconcileSignal, SignalTypeOK
  <2>2. CASE UNCHANGED <<signal, fresh, pc, timer, plan>>
    <3>1. SignalTypeOK'
      BY <1>2, <2>1, <2>2 DEF SignalTypeOK
    <3> QED
      BY <2>1, <2>2, <3>1, QuietStep
  <2>3. CASE /\ Write("remediation", NoSignal)
             /\ plan' = IF plan = "owned" THEN "orphan" ELSE plan
             /\ UNCHANGED <<pc, timer>>
    <3>1. /\ signal' = NoSignal /\ signal' \in Signals
          /\ fresh' \in [Copies -> BOOLEAN] /\ ~ fresh'["notification"]
      BY <1>1, <2>3, WriteTyped, FreshSignals
    <3>2. plan' \in {"none", "owned", "orphan"}
      BY <1>2, <2>3 DEF SignalTypeOK
    <3>3. SignalTypeOK'
      BY <1>2, <2>1, <2>3, <3>1, <3>2 DEF SignalTypeOK
    <3> QED
      BY <2>1, <2>3, <3>1, <3>3, FreshSignals, QuietStep
  <2>4. CASE /\ timer' = TRUE /\ Read("remediation") /\ UNCHANGED <<signal, plan>>
             /\ \/ pc' = [pc EXCEPT !["remediation"] = "plan"]
                \/ UNCHANGED pc
    <3>1. fresh' \in [Copies -> BOOLEAN] /\ fresh'["notification"] = fresh["notification"]
      BY <1>1, <1>2, <2>4 DEF Read, SignalTypeOK
    <3>2. /\ pc' \in [Controllers -> {"idle", "plan", "annotate", "status", "done"}]
          /\ pc'["notification"] = pc["notification"]
      BY <1>1, <1>2, <2>4 DEF SignalTypeOK, Controllers, Watchers
    <3>3. SignalTypeOK'
      BY <1>2, <2>1, <2>4, <3>1, <3>2 DEF SignalTypeOK
    <3> QED
      BY <2>1, <2>4, <3>1, <3>2, <3>3, QuietStep
  <2> QED
    BY <1>3, <2>2, <2>3, <2>4 DEF ReconcileSignal
<1>4. CASE MaterializePlan
  <2>1. /\ pc' \in [Controllers -> {"idle", "plan", "annotate", "status", "done"}]
        /\ pc'["notification"] = pc["notification"]
    BY <1>1, <1>2, <1>4 DEF MaterializePlan, SignalTypeOK, Controllers, Watchers
  <2>2. queued' \in [Watchers -> BOOLEAN]
    BY <1>2, <1>4 DEF MaterializePlan, SignalTypeOK, Watchers
  <2>3. plan' \in {"none", "owned", "orphan"}
    BY <1>4 DEF MaterializePlan
  <2>4. SignalTypeOK'
    BY <1>2, <1>4, <2>1, <2>2, <2>3 DEF MaterializePlan, SignalTypeOK
  <2> QED
    BY <1>4, <2>1, <2>4, QuietStep DEF MaterializePlan
<1>5. CASE RecordPlan
  <2> DEFINE ready == [signal EXCEPT !.phase = "ReadyForApproval"]
  <2>1. ready \in Signals /\ ready.annotated = signal.annotated
    BY <1>2, SignalFields DEF SignalTypeOK
  <2>2. UNCHANGED <<origin, seen, timer, plan, announced, faults>>
    BY <1>5 DEF RecordPlan
  <2> HIDE DEF ready
  <2>3. CASE WriteStatus("remediation", ready)
    BY <1>1, <2>1, <2>2, <2>3, StatusWrite
  <2>4. CASE /\ pc' = [pc EXCEPT !["remediation"] = "idle"]
             /\ UNCHANGED <<signal, fresh, queued>>
    <3>1. /\ pc' \in [Controllers -> {"idle", "plan", "annotate", "status", "done"}]
          /\ pc'["notification"] = pc["notification"]
      BY <1>1, <1>2, <2>4 DEF SignalTypeOK, Controllers, Watchers
    <3>2. SignalTypeOK'
      BY <1>2, <2>2, <2>4, <3>1 DEF SignalTypeOK
    <3> QED
      BY <2>2, <2>4, <3>1, <3>2, QuietStep
  <2> QED
    BY <1>5, <2>3, <2>4 DEF RecordPlan, ready
<1> QED
  BY <1>3, <1>4, <1>5

(* The notifier annotates what it announced: its copy is current only if   *)
(* the signal is still the announced one.                                  *)
LEMMA NotificationSteps ==
    ASSUME SignalInv, Notify \/ Annotate \/ RecordNotice
    PROVE  SignalInv'
<1>1. /\ "notification" \in Copies /\ "notification" \in Controllers
      /\ "notification" \in Watchers /\ "cache" \in Copies
  BY DEF Copies, Controllers, Watchers
<1>2. SignalTypeOK
  BY DEF SignalInv
<1>3. CASE Notify
  <2>1. queued' \in [Watchers -> BOOLEAN]
    BY <1>2, <1>3 DEF Notify, SignalTypeOK
  <2>2. UNCHANGED <<origin, signal, seen, timer, plan>>
    BY <1>3 DEF Notify
  <2>3. CASE /\ Read("notification") /\ announced' = TRUE /\ UNCHANGED faults
             /\ pc' = [pc EXCEPT !["notification"] = "annotate"]
    <3>1. /\ fresh' \in [Copies -> BOOLEAN]
          /\ pc' \in [Controllers -> {"idle", "plan", "annotate", "status", "done"}]
      BY <1>1, <1>2, <2>3 DEF Read, SignalTypeOK
    <3>2. SignalTypeOK'
      BY <1>2, <2>1, <2>2, <2>3, <3>1 DEF SignalTypeOK
    <3> QED
      BY <2>3, <3>2 DEF SignalInv, AnnotatorKnows, AnnotatedWasAnnounced
  <2>4. CASE UNCHANGED <<fresh, announced, pc>> /\ faults' \in {faults, faults - 1}
                /\ faults' \in 0 .. MaxFaults[origin]
    <3>1. SignalTypeOK'
      BY <1>2, <2>1, <2>2, <2>4 DEF SignalTypeOK
    <3> QED
      BY <2>2, <2>4, <3>1, QuietStep
  <2>5. faults \in 0 .. MaxFaults[origin]
    BY <1>2 DEF SignalTypeOK
  <2>6. faults > 0 => faults - 1 \in 0 .. MaxFaults[origin]
    <3>1. MaxFaults[origin] \in Nat
      BY <1>2, SignalAssumption DEF SignalTypeOK
    <3> QED
      BY <2>5, <3>1
  <2> QED
    BY <1>3, <2>3, <2>4, <2>5, <2>6 DEF Notify
<1>4. CASE Annotate
  <2>1. /\ pc["notification"] = "annotate"
        /\ UNCHANGED <<origin, seen, timer, plan, announced, faults>>
    BY <1>4 DEF Annotate
  <2>2. /\ pc' \in [Controllers -> {"idle", "plan", "annotate", "status", "done"}]
        /\ pc'["notification"] # "annotate"
    BY <1>1, <1>2, <1>4 DEF Annotate, SignalTypeOK
  <2>3. queued' \in [Watchers -> BOOLEAN]
    <3>1. signal.exists \in BOOLEAN
      BY <1>2, SignalFields DEF SignalTypeOK
    <3> QED
      BY <1>2, <1>4, <3>1 DEF Annotate, SignalTypeOK
  <2>4. CASE Current("notification")
    <3>1. announced
      BY <2>1, <2>4 DEF SignalInv, AnnotatorKnows, Current
    <3>2. signal' \in Signals /\ fresh' \in [Copies -> BOOLEAN]
      BY <1>1, <1>2, <1>4, <2>4, SignalFields, WriteTyped DEF Annotate, SignalTypeOK
    <3>3. SignalTypeOK'
      BY <1>2, <2>1, <2>2, <2>3, <3>2 DEF SignalTypeOK
    <3> QED
      BY <2>1, <3>1, <3>3 DEF SignalInv, AnnotatorKnows, AnnotatedWasAnnounced
  <2>5. CASE ~ Current("notification")
    <3>1. UNCHANGED <<signal, fresh>>
      BY <1>4, <2>5 DEF Annotate
    <3>2. SignalTypeOK'
      BY <1>2, <2>1, <2>2, <2>3, <3>1 DEF SignalTypeOK
    <3> QED
      BY <2>1, <2>2, <3>1, <3>2, QuietStep
  <2> QED
    BY <2>4, <2>5
<1>5. CASE RecordNotice
  <2> DEFINE notified == [signal EXCEPT !.phase = "Notified"]
  <2>1. UNCHANGED <<origin, seen, timer, plan, announced, faults>>
    BY <1>5 DEF RecordNotice
  <2>2. /\ pc' \in [Controllers -> {"idle", "plan", "annotate", "status", "done"}]
        /\ pc'["notification"] = "idle"
    BY <1>1, <1>2, <1>5 DEF RecordNotice, SignalTypeOK
  <2>3. queued' \in [Watchers -> BOOLEAN]
    <3>1. signal.exists \in BOOLEAN /\ seen.exists \in BOOLEAN
      BY <1>2, SignalFields DEF SignalTypeOK
    <3> QED
      BY <1>2, <1>5, <3>1 DEF RecordNotice, SignalTypeOK
  <2>4. /\ notified \in Signals /\ notified.annotated = signal.annotated
        /\ notified.exists = signal.exists
    BY <1>2, SignalFields DEF SignalTypeOK
  <2>5. \/ signal' = notified /\ fresh' \in [Copies -> BOOLEAN]
        \/ UNCHANGED <<signal, fresh>>
    BY <1>1, <1>5, <2>4, WriteTyped DEF RecordNotice
  <2> HIDE DEF notified
  <2>6. SignalTypeOK'
    BY <1>2, <2>1, <2>2, <2>3, <2>4, <2>5 DEF SignalTypeOK
  <2> QED
    BY <2>1, <2>2, <2>4, <2>5, <2>6 DEF SignalInv, AnnotatorKnows, AnnotatedWasAnnounced
<1> QED
  BY <1>3, <1>4, <1>5

-----------------------------------------------------------------------------
(* However the writers of a signal, its reconcilers, its expiry and        *)
(* restarts interleave, the annotation that suppresses notices stands only *)
(* on a signal of which a notice was delivered                             *)
(* (RiskSignalNotificationReconciler.Reconcile).                           *)
THEOREM AnnotationSound == SignalSpec => []AnnotatedWasAnnounced
<1>1. SignalInit => SignalInv
  BY SignalInitInv
<1>2. SignalInv /\ [SignalNext]_signalVars => SignalInv'
  <2> SUFFICES ASSUME SignalInv, [SignalNext]_signalVars PROVE SignalInv'
    OBVIOUS
  <2>1. CASE SignalNext
    BY <2>1, EnvironmentSteps, WriterSteps, RemediationSteps, NotificationSteps
       DEF SignalNext
  <2>2. CASE UNCHANGED signalVars
    BY <2>2 DEF signalVars, SignalInv, SignalTypeOK, AnnotatorKnows, AnnotatedWasAnnounced
  <2> QED
    BY <2>1, <2>2
<1>3. SignalInv => AnnotatedWasAnnounced
  BY DEF SignalInv
<1> QED
  BY <1>1, <1>2, <1>3, PTL DEF SignalSpec

-----------------------------------------------------------------------------
(* A namespace threshold is never exceeded by the plans that were          *)
(* admitted.  The limit is not inductive by itself: it needs that every    *)
(* admitted plan is active in the cache too, however late the cache is,    *)
(* and has to hold of the plans whose admission is still to be recorded.   *)

(* The cache shows an admitted plan as undecided, or as admitted: Admit    *)
(* takes only a plan the cache knows as undecided, and no later version of *)
(* an admitted plan is anything but admitted.                              *)
AdmittedIsSeen ==
    \A p \in Plans :
        planPhase[p] \in {"Approved", "WaitingApproval"} =>
            planSeen[p] \in {"", "Approved", "WaitingApproval"}

\* A plan is undecided until its decision is recorded, in the cache as well.
DecidingIsUndecided ==
    \A p \in Plans : deciding[p] # "" => planPhase[p] = "" /\ planSeen[p] = ""

\* The admitted plans, and the one that is about to be.
Counted == Admitted \cup {p \in Plans : deciding[p] \in {"Approved", "WaitingApproval"}}

CountedWithinLimit == ActiveLimit > 0 => Cardinality(Counted) <= ActiveLimit

AdmissionInv ==
    AdmissionTypeOK /\ AdmittedIsSeen /\ DecidingIsUndecided /\ CountedWithinLimit

-----------------------------------------------------------------------------
\* An admitted plan counts as active in namespaceUsage.
LEMMA AdmittedIsActive ==
    ASSUME AdmittedIsSeen
    PROVE  Admitted \subseteq ActivePlans
BY DEF AdmittedIsSeen, Admitted, ActivePlans

\* Fewer plans are within the limit that more plans are within.
LEMMA FewerPlans ==
    ASSUME NEW S, NEW T, T \subseteq Plans, S \subseteq T
    PROVE  /\ Cardinality(S) \in Nat
           /\ Cardinality(T) \in Nat
           /\ Cardinality(S) <= Cardinality(T)
<1>1. IsFiniteSet(T)
  BY FS_Subset, AdmissionAssumption
<1>2. IsFiniteSet(S) /\ Cardinality(S) <= Cardinality(T)
  BY <1>1, FS_Subset
<1> QED
  BY <1>1, <1>2, FS_CardinalityType

\* No plan is admitted in the beginning.
LEMMA AdmissionInitInv == AdmissionInit => AdmissionInv
<1> SUFFICES ASSUME AdmissionInit PROVE AdmissionInv
  OBVIOUS
<1>1. AdmissionTypeOK /\ AdmittedIsSeen /\ DecidingIsUndecided
  BY DEF AdmissionInit, AdmissionTypeOK, PlanPhases, ActionPhases, AdmittedIsSeen,
         DecidingIsUndecided
<1>2. Counted = {}
  BY DEF AdmissionInit, Admitted, Counted
<1>3. CountedWithinLimit
  BY <1>2, FS_EmptySet, AdmissionAssumption DEF CountedWithinLimit
<1> QED
  BY <1>1, <1>3 DEF AdmissionInv

(* A step after which no plan counts that did not count before keeps the   *)
(* limit.                                                                  *)
LEMMA NoNewcomer ==
    ASSUME CountedWithinLimit, Counted' \subseteq Counted
    PROVE  CountedWithinLimit'
<1>1. Counted \subseteq Plans
  BY DEF Counted, Admitted
<1>2. /\ Cardinality(Counted') \in Nat /\ Cardinality(Counted) \in Nat
      /\ Cardinality(Counted') <= Cardinality(Counted)
  BY <1>1, FewerPlans
<1> QED
  BY <1>2, AdmissionAssumption DEF CountedWithinLimit

(* Admit is the only step that counts a new plan.  The plan itself is      *)
(* active already when the active plans are counted, so that all that      *)
(* count afterwards were counted.                                          *)
LEMMA AdmitKeepsLimit ==
    ASSUME AdmissionInv, NEW p \in Plans,
           NEW phase \in {"Approved", "WaitingApproval", "Rejected"},
           Admit(p, phase)
    PROVE  CountedWithinLimit'
<1> USE DEF AdmissionInv
<1>1. CASE WithinLimits(Cardinality(ActivePlans), Cardinality(PendingApprovals))
  <2>1. /\ deciding' = [deciding EXCEPT ![p] = phase] /\ planSeen[p] = ""
        /\ planPhase' = planPhase /\ \A q \in Plans : deciding[q] = ""
    BY <1>1 DEF Admit
  <2>2. Counted' \subseteq Admitted \cup {p}
    BY <2>1 DEF Counted, Admitted, AdmissionTypeOK
  <2>3. p \in ActivePlans
    BY <2>1 DEF ActivePlans
  <2>4. Counted' \subseteq ActivePlans
    BY <2>2, <2>3, AdmittedIsActive
  <2>5. ActivePlans \subseteq Plans
    BY DEF ActivePlans
  <2>6. /\ Cardinality(Counted') \in Nat /\ Cardinality(ActivePlans) \in Nat
        /\ Cardinality(Counted') <= Cardinality(ActivePlans)
    BY <2>4, <2>5, FewerPlans
  <2> QED
    BY <2>6, <1>1, AdmissionAssumption DEF WithinLimits, CountedWithinLimit
<1>2. CASE ~ WithinLimits(Cardinality(ActivePlans), Cardinality(PendingApprovals))
  <2>1. deciding' = [deciding EXCEPT ![p] = "Rejected"] /\ planPhase' = planPhase
    BY <1>2 DEF Admit
  <2>2. Counted' \subseteq Counted
    BY <2>1 DEF Counted, Admitted, AdmissionTypeOK
  <2> QED
    BY <2>2, NoNewcomer
<1> QED
  BY <1>1, <1>2

\* Every step keeps the types and what the cache shows of the plans.
LEMMA AdmissionStepSeen ==
    ASSUME AdmissionInv, AdmissionNext
    PROVE  AdmissionTypeOK' /\ AdmittedIsSeen' /\ DecidingIsUndecided'
<1> USE DEF AdmissionInv, AdmissionTypeOK, PlanPhases, ActionPhases, AdmittedIsSeen,
            DecidingIsUndecided
<1> PICK p \in Plans :
        \/ Arrive(p) \/ SeePlan(p) \/ SeeAction(p) \/ Settle(p) \/ Expire(p)
        \/ \E phase \in {"Approved", "WaitingApproval", "Rejected"} : Admit(p, phase)
        \/ \E written \in BOOLEAN : RecordDecision(p, written)
  BY DEF AdmissionNext
<1>1. CASE Arrive(p)
  BY <1>1 DEF Arrive
<1>2. CASE SeePlan(p)
  BY <1>2 DEF SeePlan
<1>3. CASE SeeAction(p)
  BY <1>3 DEF SeeAction
<1>4. CASE Settle(p)
  BY <1>4 DEF Settle
<1>5. CASE Expire(p)
  BY <1>5 DEF Expire
<1>6. ASSUME NEW phase \in {"Approved", "WaitingApproval", "Rejected"}, Admit(p, phase)
      PROVE  AdmissionTypeOK' /\ AdmittedIsSeen' /\ DecidingIsUndecided'
  <2>1. /\ planSeen[p] = "" /\ planPhase[p] = ""
        /\ planPhase' = planPhase /\ planSeen' = planSeen /\ actionSeen' = actionSeen
    BY <1>6 DEF Admit
  <2>2. \E d \in {"Approved", "WaitingApproval", "Rejected"} :
            deciding' = [deciding EXCEPT ![p] = d]
    BY <1>6 DEF Admit
  <2>3. \/ actionPhase' = actionPhase
        \/ \E d \in {"WaitingApproval", "Other"} :
              actionPhase' = [actionPhase EXCEPT ![p] = d]
    BY <1>6 DEF Admit
  <2>4. AdmissionTypeOK'
    <3>1. deciding' \in [Plans -> PlanPhases]
      BY <2>2
    <3>2. actionPhase' \in [Plans -> ActionPhases]
      BY <2>3
    <3> QED
      BY <2>1, <3>1, <3>2
  <2>5. AdmittedIsSeen' /\ DecidingIsUndecided'
    BY <2>1, <2>2
  <2> QED
    BY <2>4, <2>5
<1>7. ASSUME NEW written \in BOOLEAN, RecordDecision(p, written)
      PROVE  AdmissionTypeOK' /\ AdmittedIsSeen' /\ DecidingIsUndecided'
  <2>1. /\ planSeen[p] = "" /\ deciding[p] \in PlanPhases
        /\ planSeen' = planSeen /\ actionSeen' = actionSeen /\ actionPhase' = actionPhase
        /\ deciding' = [deciding EXCEPT ![p] = ""]
    BY <1>7 DEF RecordDecision
  <2>2. planPhase' = planPhase \/ planPhase' = [planPhase EXCEPT ![p] = deciding[p]]
    BY <1>7 DEF RecordDecision
  <2> QED
    BY <2>1, <2>2
<1> QED
  BY <1>1, <1>2, <1>3, <1>4, <1>5, <1>6, <1>7

\* Every step keeps the limit.
LEMMA AdmissionStepLimit ==
    ASSUME AdmissionInv, AdmissionNext
    PROVE  CountedWithinLimit'
<1> PICK p \in Plans :
        \/ Arrive(p) \/ SeePlan(p) \/ SeeAction(p) \/ Settle(p) \/ Expire(p)
        \/ \E phase \in {"Approved", "WaitingApproval", "Rejected"} : Admit(p, phase)
        \/ \E written \in BOOLEAN : RecordDecision(p, written)
  BY DEF AdmissionNext
<1>1. CASE Arrive(p) \/ Expire(p)
  <2>1. Counted' \subseteq Counted
    BY <1>1 DEF Arrive, Expire, Counted, Admitted, AdmissionInv, AdmissionTypeOK
  <2> QED
    BY <2>1, NoNewcomer DEF AdmissionInv
<1>2. CASE SeePlan(p) \/ SeeAction(p) \/ Settle(p)
  <2>1. Counted' \subseteq Counted
    BY <1>2 DEF SeePlan, SeeAction, Settle, Counted, Admitted
  <2> QED
    BY <2>1, NoNewcomer DEF AdmissionInv
<1>3. ASSUME NEW written \in BOOLEAN, RecordDecision(p, written)
      PROVE  CountedWithinLimit'
  <2>1. Counted' \subseteq Counted
    BY <1>3 DEF RecordDecision, Counted, Admitted, AdmissionInv, AdmissionTypeOK
  <2> QED
    BY <2>1, NoNewcomer DEF AdmissionInv
<1>4. ASSUME NEW phase \in {"Approved", "WaitingApproval", "Rejected"}, Admit(p, phase)
      PROVE  CountedWithinLimit'
  BY <1>4, AdmitKeepsLimit
<1> QED
  BY <1>1, <1>2, <1>3, <1>4

(* However many plans a namespace has, however late the cache is and       *)
(* whichever writes fail, no more of them are admitted than                *)
(* spec.activePlansLimit allows.                                           *)
THEOREM AdmissionSafe == AdmissionSpec => []AdmittedWithinLimit
<1>1. AdmissionInit => AdmissionInv
  BY AdmissionInitInv
<1>2. AdmissionInv /\ [AdmissionNext]_admissionVars => AdmissionInv'
  <2> SUFFICES ASSUME AdmissionInv, [AdmissionNext]_admissionVars
               PROVE  AdmissionInv'
    OBVIOUS
  <2>1. CASE AdmissionNext
    BY <2>1, AdmissionStepSeen, AdmissionStepLimit DEF AdmissionInv
  <2>2. CASE UNCHANGED admissionVars
    BY <2>2 DEF admissionVars, AdmissionInv, AdmissionTypeOK, AdmittedIsSeen,
                DecidingIsUndecided, CountedWithinLimit, Counted, Admitted
  <2> QED
    BY <2>1, <2>2
<1>3. AdmissionInv => AdmittedWithinLimit
  <2> SUFFICES ASSUME AdmissionInv PROVE AdmittedWithinLimit
    OBVIOUS
  <2>1. Admitted \subseteq Counted /\ Counted \subseteq Plans
    BY DEF Counted, Admitted
  <2>2. /\ Cardinality(Admitted) \in Nat /\ Cardinality(Counted) \in Nat
        /\ Cardinality(Admitted) <= Cardinality(Counted)
    BY <2>1, FewerPlans
  <2> QED
    BY <2>2, AdmissionAssumption DEF AdmissionInv, CountedWithinLimit, AdmittedWithinLimit
<1> QED
  BY <1>1, <1>2, <1>3, PTL DEF AdmissionSpec

-----------------------------------------------------------------------------
(* The decision about a plan.  Of the objects of a list that match, the    *)
(* first after sorting is the only one that no other precedes: the order   *)
(* is total, because no two objects have one name.                         *)

SameObjects(l, m) ==
    /\ WellFormed(l) /\ WellFormed(m)
    /\ {l[i] : i \in DOMAIN l} = {m[i] : i \in DOMAIN m}

\* Objects that have a place in the order.
Placed(a) == a.priority \in Int /\ a.name \in Int

StrictOrder(R, I) ==
    /\ \A i \in I : <<i, i>> \notin R
    /\ \A i, j \in I : i # j => <<i, j>> \in R \/ <<j, i>> \in R
    /\ \A i, j, k \in I : <<i, j>> \in R /\ <<j, k>> \in R => <<i, k>> \in R

LEMMA LeastIndex ==
  ASSUME NEW N \in Nat, NEW I \in SUBSET (1 .. N), I # {}, NEW R, StrictOrder(R, I)
  PROVE  \E i \in I : \A j \in I : i # j => <<i, j>> \in R /\ <<j, i>> \notin R
<1> USE DEF StrictOrder
<1> DEFINE Least(i, n) ==
               \A j \in I : j <= n /\ i # j => <<i, j>> \in R /\ <<j, i>> \notin R
           Found(n) == (\E i \in I : i <= n) => \E i \in I : i <= n /\ Least(i, n)
           S == {n \in Nat : Found(n)}
<1>1. 0 \in S
  OBVIOUS
<1>2. ASSUME NEW n \in Nat, Found(n)
      PROVE  Found(n + 1)
  <2>1. SUFFICES ASSUME \E i \in I : i <= n + 1
                 PROVE  \E i \in I : i <= n + 1 /\ Least(i, n + 1)
    OBVIOUS
  <2>2. CASE n + 1 \notin I
    <3>1. \A j \in I : j <= n + 1 => j <= n
      BY <2>2
    <3>2. PICK i \in I : i <= n /\ Least(i, n)
      BY <1>2, <2>1, <3>1
    <3> QED BY <3>1, <3>2
  <2>3. CASE n + 1 \in I /\ ~ \E i \in I : i <= n
    <3>1. \A j \in I : j <= n + 1 => j = n + 1
      BY <2>3
    <3> QED BY <2>3, <3>1
  <2>4. CASE n + 1 \in I /\ \E i \in I : i <= n
    <3>1. PICK i \in I : i <= n /\ Least(i, n)
      BY <1>2, <2>4
    <3>2. \A j \in I : j <= n + 1 => j <= n \/ j = n + 1
      OBVIOUS
    <3>3. i # n + 1
      BY <3>1
    <3>4. CASE <<i, n + 1>> \in R
      <4>1. <<n + 1, i>> \notin R
        BY <2>4, <3>4
      <4>2. Least(i, n + 1)
        BY <3>1, <3>2, <3>4, <4>1
      <4> QED BY <3>1, <4>2
    <3>5. CASE <<n + 1, i>> \in R
      <4>1. \A j \in I : j <= n => <<n + 1, j>> \in R
        BY <2>4, <3>1, <3>5
      <4>2. \A j \in I : j <= n => <<j, n + 1>> \notin R
        BY <2>4, <4>1
      <4>3. Least(n + 1, n + 1)
        BY <3>2, <4>1, <4>2
      <4> QED BY <2>4, <4>3
    <3> QED BY <2>4, <3>3, <3>4, <3>5
  <2> QED BY <2>2, <2>3, <2>4
<1>3. N \in S
  <2> HIDE DEF Found
  <2>1. \A n \in Nat : n \in S => n + 1 \in S
    BY <1>2
  <2> HIDE DEF S
  <2> QED BY <1>1, <2>1, CountingUp
<1>4. PICK i \in I : Least(i, N)
  <2>1. PICK i \in I : TRUE
    OBVIOUS
  <2>2. i \in 1 .. N
    BY <2>1
  <2>3. i <= N
    BY <2>2
  <2> QED BY <1>3, <2>1, <2>3
<1> QED
  <2>1. \A j \in I : j <= N
    OBVIOUS
  <2> QED BY <1>4, <2>1

LEMMA ThresholdOrder ==
  ASSUME NEW a, NEW b, NEW c, Placed(a), Placed(b), Placed(c)
  PROVE  /\ ~ ThresholdBefore(a, a)
         /\ a.name # b.name => ThresholdBefore(a, b) \/ ThresholdBefore(b, a)
         /\ ThresholdBefore(a, b) /\ ThresholdBefore(b, c) => ThresholdBefore(a, c)
<1>1. ~ ThresholdBefore(a, a)
  BY DEF ThresholdBefore, Placed
<1>2. a.name # b.name => ThresholdBefore(a, b) \/ ThresholdBefore(b, a)
  BY DEF ThresholdBefore, Placed
<1>3. ThresholdBefore(a, b) /\ ThresholdBefore(b, c) => ThresholdBefore(a, c)
  BY DEF ThresholdBefore, Placed
<1> QED BY <1>1, <1>2, <1>3

LEMMA ChainOrder ==
  ASSUME NEW a, NEW b, NEW c, Placed(a), Placed(b), Placed(c)
  PROVE  /\ ~ ChainBefore(a, a)
         /\ a.name # b.name => ChainBefore(a, b) \/ ChainBefore(b, a)
         /\ ChainBefore(a, b) /\ ChainBefore(b, c) => ChainBefore(a, c)
<1>1. ~ ChainBefore(a, a)
  BY DEF ChainBefore, Placed
<1>2. a.name # b.name => ChainBefore(a, b) \/ ChainBefore(b, a)
  BY DEF ChainBefore, Placed
<1>3. ChainBefore(a, b) /\ ChainBefore(b, c) => ChainBefore(a, c)
  BY DEF ChainBefore, Placed
<1> QED BY <1>1, <1>2, <1>3

LEMMA PolicyOrder ==
  ASSUME NEW a, NEW b, NEW c, Placed(a.policy), Placed(b.policy), Placed(c.policy),
         a.rank \in Int, b.rank \in Int, c.rank \in Int
  PROVE  /\ ~ PolicyBefore(a, a)
         /\ a.policy.name # b.policy.name => PolicyBefore(a, b) \/ PolicyBefore(b, a)
         /\ PolicyBefore(a, b) /\ PolicyBefore(b, c) => PolicyBefore(a, c)
<1>1. ~ PolicyBefore(a, a)
  BY DEF PolicyBefore, Placed
<1>2. a.policy.name # b.policy.name => PolicyBefore(a, b) \/ PolicyBefore(b, a)
  BY DEF PolicyBefore, Placed
<1>3. PolicyBefore(a, b) /\ PolicyBefore(b, c) => PolicyBefore(a, c)
  BY DEF PolicyBefore, Placed
<1> QED BY <1>1, <1>2, <1>3

\* What comes first comes before every other that matches.
LEMMA FirstThreshold ==
  ASSUME NEW l, WellFormed(l), NEW I \in SUBSET DOMAIN l, I # {}
  PROVE  \E i \in I : /\ FirstBy(l, I, ThresholdBefore) = l[i]
                      /\ \A j \in I : ~ ThresholdBefore(l[j], l[i])
<1> DEFINE R == {e \in I \X I : ThresholdBefore(l[e[1]], l[e[2]])}
           N == Len(l)
<1>1. N \in Nat /\ DOMAIN l = 1 .. N
  BY DEF WellFormed
<1>2. \A i \in I : Placed(l[i])
  BY DEF WellFormed, Placed
<1>3. \A i, j \in I : i # j => l[i].name # l[j].name
  BY DEF WellFormed
<1>4. \A i, j \in I : <<i, j>> \in R <=> ThresholdBefore(l[i], l[j])
  OBVIOUS
<1> HIDE DEF R, N
<1>5. StrictOrder(R, I)
  BY <1>2, <1>3, <1>4, ThresholdOrder DEF StrictOrder
<1>6. PICK m \in I : \A j \in I : m # j => <<m, j>> \in R /\ <<j, m>> \notin R
  <2>1. I \in SUBSET (1 .. N) /\ I # {}
    BY <1>1
  <2> QED BY ONLY <1>1, <1>5, <2>1, LeastIndex
<1> DEFINE First(i) == \A j \in I : /\ ~ ThresholdBefore(l[j], l[i])
                                    /\ j < i => ThresholdBefore(l[i], l[j])
<1>7. First(m)
  <2>1. m \in I /\ I \subseteq 1 .. N
    BY <1>1, <1>6
  <2> SUFFICES ASSUME NEW j \in I
               PROVE  /\ ~ ThresholdBefore(l[j], l[m])
                      /\ j < m => ThresholdBefore(l[m], l[j])
    OBVIOUS
  <2>2. CASE j = m
    <3>1. <<m, m>> \notin R
      BY <1>5, <2>1 DEF StrictOrder
    <3>2. ~ ThresholdBefore(l[m], l[m])
      BY <1>4, <2>1, <3>1
    <3>3. ~ m < m
      BY <2>1
    <3> QED BY <2>2, <3>2, <3>3
  <2>3. CASE j # m
    <3>1. <<m, j>> \in R /\ <<j, m>> \notin R
      BY <1>6, <2>3
    <3>2. ThresholdBefore(l[m], l[j]) /\ ~ ThresholdBefore(l[j], l[m])
      BY <1>4, <2>1, <3>1
    <3> QED BY <3>2
  <2> QED BY <2>2, <2>3
<1> DEFINE c == CHOOSE i \in I : First(i)
<1>8. c \in I /\ First(c)
  BY <1>7
<1>9. FirstBy(l, I, ThresholdBefore) = l[c]
  BY DEF FirstBy
<1> HIDE DEF c
<1> QED BY <1>8, <1>9

LEMMA FirstChain ==
  ASSUME NEW l, WellFormed(l), NEW I \in SUBSET DOMAIN l, I # {}
  PROVE  \E i \in I : /\ FirstBy(l, I, ChainBefore) = l[i]
                      /\ \A j \in I : ~ ChainBefore(l[j], l[i])
<1> DEFINE R == {e \in I \X I : ChainBefore(l[e[1]], l[e[2]])}
           N == Len(l)
<1>1. N \in Nat /\ DOMAIN l = 1 .. N
  BY DEF WellFormed
<1>2. \A i \in I : Placed(l[i])
  BY DEF WellFormed, Placed
<1>3. \A i, j \in I : i # j => l[i].name # l[j].name
  BY DEF WellFormed
<1>4. \A i, j \in I : <<i, j>> \in R <=> ChainBefore(l[i], l[j])
  OBVIOUS
<1> HIDE DEF R, N
<1>5. StrictOrder(R, I)
  BY <1>2, <1>3, <1>4, ChainOrder DEF StrictOrder
<1>6. PICK m \in I : \A j \in I : m # j => <<m, j>> \in R /\ <<j, m>> \notin R
  <2>1. I \in SUBSET (1 .. N) /\ I # {}
    BY <1>1
  <2> QED BY ONLY <1>1, <1>5, <2>1, LeastIndex
<1> DEFINE First(i) == \A j \in I : /\ ~ ChainBefore(l[j], l[i])
                                    /\ j < i => ChainBefore(l[i], l[j])
<1>7. First(m)
  <2>1. m \in I /\ I \subseteq 1 .. N
    BY <1>1, <1>6
  <2> SUFFICES ASSUME NEW j \in I
               PROVE  /\ ~ ChainBefore(l[j], l[m])
                      /\ j < m => ChainBefore(l[m], l[j])
    OBVIOUS
  <2>2. CASE j = m
    <3>1. <<m, m>> \notin R
      BY <1>5, <2>1 DEF StrictOrder
    <3>2. ~ ChainBefore(l[m], l[m])
      BY <1>4, <2>1, <3>1
    <3>3. ~ m < m
      BY <2>1
    <3> QED BY <2>2, <3>2, <3>3
  <2>3. CASE j # m
    <3>1. <<m, j>> \in R /\ <<j, m>> \notin R
      BY <1>6, <2>3
    <3>2. ChainBefore(l[m], l[j]) /\ ~ ChainBefore(l[j], l[m])
      BY <1>4, <2>1, <3>1
    <3> QED BY <3>2
  <2> QED BY <2>2, <2>3
<1> DEFINE c == CHOOSE i \in I : First(i)
<1>8. c \in I /\ First(c)
  BY <1>7
<1>9. FirstBy(l, I, ChainBefore) = l[c]
  BY DEF FirstBy
<1> HIDE DEF c
<1> QED BY <1>8, <1>9

LEMMA FirstPolicy ==
  ASSUME NEW p, WellFormed(p), NEW I \in SUBSET DOMAIN p, I # {}, NEW input
  PROVE  \E i \in I : LET l == RankedPolicies(p, input) IN
                      /\ FirstBy(l, I, PolicyBefore) = l[i]
                      /\ \A j \in I : ~ PolicyBefore(l[j], l[i])
<1> DEFINE l == RankedPolicies(p, input)
           R == {e \in I \X I : PolicyBefore(l[e[1]], l[e[2]])}
           N == Len(p)
<1>1. N \in Nat /\ DOMAIN p = 1 .. N
  BY DEF WellFormed
<1>2. \A i \in I : Placed(l[i].policy) /\ l[i].rank \in Int
  <2> SUFFICES ASSUME NEW i \in I
               PROVE  Placed(l[i].policy) /\ l[i].rank \in Int
    OBVIOUS
  <2>1. l[i].policy = p[i] /\ l[i].rank = MatchRank(p[i], input)
    BY DEF RankedPolicies
  <2>2. Placed(p[i]) /\ MatchRank(p[i], input) \in Int
    BY DEF WellFormed, Placed, MatchRank
  <2> HIDE DEF l
  <2> QED BY <2>1, <2>2
<1>3. \A i, j \in I : i # j => l[i].policy.name # l[j].policy.name
  <2> SUFFICES ASSUME NEW i \in I, NEW j \in I, i # j
               PROVE  l[i].policy.name # l[j].policy.name
    OBVIOUS
  <2>1. l[i].policy = p[i] /\ l[j].policy = p[j]
    BY DEF RankedPolicies
  <2>2. p[i].name # p[j].name
    BY DEF WellFormed
  <2> HIDE DEF l
  <2> QED BY <2>1, <2>2
<1>4. \A i, j \in I : <<i, j>> \in R <=> PolicyBefore(l[i], l[j])
  OBVIOUS
<1> HIDE DEF R, N, l
<1>5. StrictOrder(R, I)
  BY <1>2, <1>3, <1>4, PolicyOrder DEF StrictOrder
<1>6. PICK m \in I : \A j \in I : m # j => <<m, j>> \in R /\ <<j, m>> \notin R
  <2>1. I \in SUBSET (1 .. N) /\ I # {}
    BY <1>1
  <2> QED BY ONLY <1>1, <1>5, <2>1, LeastIndex
<1> DEFINE First(i) == \A j \in I : /\ ~ PolicyBefore(l[j], l[i])
                                    /\ j < i => PolicyBefore(l[i], l[j])
<1>7. First(m)
  <2>1. m \in I /\ I \subseteq 1 .. N
    BY <1>1, <1>6
  <2> SUFFICES ASSUME NEW j \in I
               PROVE  /\ ~ PolicyBefore(l[j], l[m])
                      /\ j < m => PolicyBefore(l[m], l[j])
    OBVIOUS
  <2>2. CASE j = m
    <3>1. <<m, m>> \notin R
      BY <1>5, <2>1 DEF StrictOrder
    <3>2. ~ PolicyBefore(l[m], l[m])
      BY <1>4, <2>1, <3>1
    <3>3. ~ m < m
      BY <2>1
    <3> QED BY <2>2, <3>2, <3>3
  <2>3. CASE j # m
    <3>1. <<m, j>> \in R /\ <<j, m>> \notin R
      BY <1>6, <2>3
    <3>2. PolicyBefore(l[m], l[j]) /\ ~ PolicyBefore(l[j], l[m])
      BY <1>4, <2>1, <3>1
    <3> QED BY <3>2
  <2> QED BY <2>2, <2>3
<1> DEFINE c == CHOOSE i \in I : First(i)
<1>8. c \in I /\ First(c)
  BY <1>7
<1>9. FirstBy(l, I, PolicyBefore) = l[c]
  BY DEF FirstBy
<1> HIDE DEF c
<1> QED BY <1>8, <1>9 DEF l

LEMMA SameThreshold ==
  ASSUME NEW l, NEW m, SameObjects(l, m), NEW input
  PROVE  ResolveThreshold(l, input) = ResolveThreshold(m, input)
<1> DEFINE Applies(t) == InForce(t) /\ ThresholdMatches(t, input)
           I == {i \in DOMAIN l : Applies(l[i])}
           J == {j \in DOMAIN m : Applies(m[j])}
           Broken(list) == \E i \in DOMAIN list :
                      InForce(list[i]) /\ list[i].namespaceSelector = Malformed
           First(list, K) == FirstBy(list, K, ThresholdBefore)
<1>1. /\ \A i \in DOMAIN l : \E j \in DOMAIN m : l[i] = m[j]
      /\ \A j \in DOMAIN m : \E i \in DOMAIN l : m[j] = l[i]
  BY DEF SameObjects
<1>2. /\ \A i \in DOMAIN l : Placed(l[i])
      /\ \A i, k \in DOMAIN l : l[i].name = l[k].name => i = k
      /\ WellFormed(l) /\ WellFormed(m)
  BY DEF SameObjects, WellFormed, Placed
<1>3. Broken(l) <=> Broken(m)
  BY <1>1
<1>4. I = {} <=> J = {}
  <2> HIDE DEF Applies
  <2> QED BY <1>1
<1>5. CASE I # {}
  <2>1. PICK i \in I : /\ First(l, I) = l[i]
                       /\ \A k \in I : ~ ThresholdBefore(l[k], l[i])
    BY <1>2, <1>5, FirstThreshold
  <2>2. PICK j \in J : /\ First(m, J) = m[j]
                       /\ \A k \in J : ~ ThresholdBefore(m[k], m[j])
    <3>1. J # {} /\ J \subseteq DOMAIN m
      BY <1>4, <1>5
    <3> QED BY <1>2, <3>1, FirstThreshold
  <2> HIDE DEF Applies, First
  <2>3. PICK k \in I : l[k] = m[j]
    BY <1>1
  <2>4. PICK n \in J : m[n] = l[i]
    BY <1>1
  <2>5. ~ ThresholdBefore(l[k], l[i]) /\ ~ ThresholdBefore(l[i], l[k])
    BY <2>1, <2>2, <2>3, <2>4
  <2>6. l[k].name = l[i].name
    BY <1>2, <2>5, ThresholdOrder
  <2>7. k = i
    BY <1>2, <2>6
  <2> QED BY <1>3, <1>4, <1>5, <2>1, <2>2, <2>3, <2>7 DEF ResolveThreshold, First, Applies
<1>6. CASE I = {}
  BY <1>3, <1>4, <1>6 DEF ResolveThreshold
<1> QED BY <1>5, <1>6

LEMMA SameChain ==
  ASSUME NEW l, NEW m, SameObjects(l, m), NEW reference, NEW labels
  PROVE  ResolveChain(l, reference, labels) = ResolveChain(m, reference, labels)
<1> DEFINE Applies(c) == /\ InForce(c)
                         /\ \/ c.resourceSelector = NoSelector
                            \/ LabelsMatch(c.resourceSelector, labels)
           I == {i \in DOMAIN l : Applies(l[i])}
           J == {j \in DOMAIN m : Applies(m[j])}
           Broken(list) == \E i \in DOMAIN list :
                      InForce(list[i]) /\ list[i].resourceSelector = Malformed
           Named(list) == \E i \in {k \in DOMAIN list : list[k].name = reference} :
                              InForce(list[i])
           First(list, K) == FirstBy(list, K, ChainBefore)
<1>1. /\ \A i \in DOMAIN l : \E j \in DOMAIN m : l[i] = m[j]
      /\ \A j \in DOMAIN m : \E i \in DOMAIN l : m[j] = l[i]
  BY DEF SameObjects
<1>2. /\ \A i \in DOMAIN l : Placed(l[i])
      /\ \A i, k \in DOMAIN l : l[i].name = l[k].name => i = k
      /\ WellFormed(l) /\ WellFormed(m)
  BY DEF SameObjects, WellFormed, Placed
<1>3. (Broken(l) <=> Broken(m)) /\ (Named(l) <=> Named(m))
  BY <1>1
<1>4. I = {} <=> J = {}
  <2> HIDE DEF Applies
  <2> QED BY <1>1
<1>5. CASE I # {}
  <2>1. PICK i \in I : /\ First(l, I) = l[i]
                       /\ \A k \in I : ~ ChainBefore(l[k], l[i])
    BY <1>2, <1>5, FirstChain
  <2>2. PICK j \in J : /\ First(m, J) = m[j]
                       /\ \A k \in J : ~ ChainBefore(m[k], m[j])
    <3>1. J # {} /\ J \subseteq DOMAIN m
      BY <1>4, <1>5
    <3> QED BY <1>2, <3>1, FirstChain
  <2> HIDE DEF Applies, First
  <2>3. PICK k \in I : l[k] = m[j]
    BY <1>1
  <2>4. PICK n \in J : m[n] = l[i]
    BY <1>1
  <2>5. ~ ChainBefore(l[k], l[i]) /\ ~ ChainBefore(l[i], l[k])
    BY <2>1, <2>2, <2>3, <2>4
  <2>6. l[k].name = l[i].name
    BY <1>2, <2>5, ChainOrder
  <2>7. k = i
    BY <1>2, <2>6
  <2> QED BY <1>3, <1>4, <1>5, <2>1, <2>2, <2>3, <2>7 DEF ResolveChain, First, Applies
<1>6. CASE I = {}
  BY <1>3, <1>4, <1>6 DEF ResolveChain
<1> QED BY <1>5, <1>6

LEMMA SamePolicy ==
  ASSUME NEW p, NEW q, SameObjects(p, q), NEW enabled, NEW legacy, NEW input
  PROVE  Evaluate(enabled, p, legacy, input) = Evaluate(enabled, q, legacy, input)
<1> DEFINE Applies(t) == InForce(t) /\ MatchRank(t, input) > 0
           I == MatchedPolicies(p, input)
           J == MatchedPolicies(q, input)
           l == RankedPolicies(p, input)
           m == RankedPolicies(q, input)
           First(list, K) == FirstBy(list, K, PolicyBefore)
<1>1. /\ \A i \in DOMAIN p : \E j \in DOMAIN q : p[i] = q[j]
      /\ \A j \in DOMAIN q : \E i \in DOMAIN p : q[j] = p[i]
  BY DEF SameObjects
<1>2. /\ \A i \in DOMAIN p : Placed(p[i]) /\ MatchRank(p[i], input) \in Int
      /\ \A i, k \in DOMAIN p : p[i].name = p[k].name => i = k
      /\ WellFormed(p) /\ WellFormed(q)
  <2>1. \A t : MatchRank(t, input) \in Int
    BY DEF MatchRank
  <2> QED BY <2>1 DEF SameObjects, WellFormed, Placed
<1>3. PolicyListBroken(p) <=> PolicyListBroken(q)
  BY <1>1 DEF PolicyListBroken
<1>4. /\ I = {i \in DOMAIN p : Applies(p[i])}
      /\ J = {j \in DOMAIN q : Applies(q[j])}
  BY DEF MatchedPolicies
<1>5. /\ \A i \in DOMAIN p : l[i].policy = p[i] /\ l[i].rank = MatchRank(p[i], input)
      /\ \A j \in DOMAIN q : m[j].policy = q[j] /\ m[j].rank = MatchRank(q[j], input)
      /\ \A i \in DOMAIN p, j \in DOMAIN q : p[i] = q[j] => l[i] = m[j]
  BY DEF RankedPolicies
<1> HIDE DEF Applies
<1>6. I \subseteq DOMAIN p /\ J \subseteq DOMAIN q
  BY <1>4
<1>7. /\ \A i \in I : \E j \in J : p[i] = q[j]
      /\ \A j \in J : \E i \in I : q[j] = p[i]
  <2> HIDE DEF I, J
  <2> QED BY <1>1, <1>4
<1> HIDE DEF I, J
<1>8. I = {} <=> J = {}
  BY <1>7
<1>9. CASE I # {}
  <2>1. PICK i \in I : /\ First(l, I) = l[i]
                       /\ \A k \in I : ~ PolicyBefore(l[k], l[i])
    <3>1. I \in SUBSET DOMAIN p
      BY <1>6
    <3> QED BY <1>2, <1>9, <3>1, FirstPolicy
  <2>2. PICK j \in J : /\ First(m, J) = m[j]
                       /\ \A k \in J : ~ PolicyBefore(m[k], m[j])
    <3>1. J # {} /\ J \in SUBSET DOMAIN q
      BY <1>6, <1>8, <1>9
    <3> QED BY <1>2, <3>1, FirstPolicy
  <2> HIDE DEF First, l, m
  <2>3. PICK k \in I : p[k] = q[j]
    BY <1>7
  <2>4. PICK n \in J : q[n] = p[i]
    BY <1>7
  <2>5. l[k] = m[j] /\ m[n] = l[i]
    BY <1>5, <1>6, <2>3, <2>4
  <2>6. ~ PolicyBefore(l[k], l[i]) /\ ~ PolicyBefore(l[i], l[k])
    BY <2>1, <2>2, <2>5
  <2>7. /\ Placed(l[i].policy) /\ l[i].rank \in Int
        /\ Placed(l[k].policy) /\ l[k].rank \in Int
    BY <1>2, <1>5, <1>6
  <2>8. l[k].policy.name = l[i].policy.name
    BY <2>6, <2>7, PolicyOrder
  <2>9. k = i
    BY <1>2, <1>5, <1>6, <2>8
  <2>10. First(l, I) = First(m, J)
    BY <2>1, <2>2, <2>5, <2>9
  <2>11. FirstBy(RankedPolicies(p, input), MatchedPolicies(p, input), PolicyBefore)
           = FirstBy(RankedPolicies(q, input), MatchedPolicies(q, input), PolicyBefore)
    BY <2>10 DEF First, l, m, I, J
  <2>12. MatchedPolicies(p, input) # {} /\ MatchedPolicies(q, input) # {}
    BY <1>8, <1>9 DEF I, J
  <2> QED BY <1>3, <2>11, <2>12 DEF Evaluate
<1>10. CASE I = {}
  <2>1. MatchedPolicies(p, input) = {} /\ MatchedPolicies(q, input) = {}
    BY <1>8, <1>10 DEF I, J
  <2> QED BY <1>3, <2>1 DEF Evaluate
<1> QED BY <1>9, <1>10

LEMMA SwappedSame ==
  ASSUME NEW l, WellFormed(l), NEW i \in 1 .. Len(l) - 1
  PROVE  SameObjects(l, Swapped(l, i))
<1> DEFINE m == Swapped(l, i)
           N == Len(l)
           V == {l[k] : k \in DOMAIN l}
           From(k) == IF k = i THEN i + 1 ELSE IF k = i + 1 THEN i ELSE k
<1>1. N \in Nat /\ DOMAIN l = 1 .. N /\ l \in Seq(V)
  BY DEF WellFormed
<1>2. i \in 1 .. N /\ i + 1 \in 1 .. N /\ i # i + 1
  BY <1>1
<1>3. /\ m = [k \in 1 .. N |-> m[k]]
      /\ DOMAIN m = 1 .. N
      /\ \A k \in 1 .. N : m[k] = l[From(k)]
  <2>1. DOMAIN m = 1 .. N /\ m = [k \in DOMAIN m |-> m[k]]
    BY <1>1 DEF Swapped
  <2>2. \A k \in 1 .. N : m[k] = IF k = i + 1 THEN l[i]
                               ELSE IF k = i THEN l[i + 1] ELSE l[k]
    BY <1>1, <1>2 DEF Swapped
  <2> HIDE DEF m, N
  <2>3. \A k \in 1 .. N : m[k] = l[From(k)]
    BY <1>2, <2>2
  <2> QED BY <2>1, <2>3
<1>4. /\ \A k \in 1 .. N : From(k) \in 1 .. N /\ From(From(k)) = k
      /\ \A k, n \in 1 .. N : From(k) = From(n) => k = n
  BY <1>1, <1>2
<1> HIDE DEF From, N
<1>5. \A k \in 1 .. N : l[k] = m[From(k)]
  <2> HIDE DEF m
  <2> QED BY <1>3, <1>4
<1> HIDE DEF m
<1>6. V = {m[k] : k \in DOMAIN m}
  <2>1. \A k \in 1 .. N : From(k) \in 1 .. N
    BY <1>4
  <2>2. \A x : (\E k \in 1 .. N : x = l[k]) <=> \E k \in 1 .. N : x = m[k]
    BY <1>3, <1>5, <2>1
  <2> QED BY <1>1, <1>3, <2>2
<1>7. m \in Seq(V)
  <2>1. \A k \in 1 .. N : m[k] \in V
    BY <1>3, <1>6
  <2> HIDE DEF V
  <2> QED BY <1>1, <1>3, <2>1, ListOf
<1>8. \A k \in 1 .. N : l[k].priority \in Int /\ l[k].name \in Int
  BY <1>1 DEF WellFormed
<1>9. \A k, n \in 1 .. N : l[k].name = l[n].name => k = n
  BY <1>1 DEF WellFormed
<1>10. \A k \in DOMAIN m : m[k].priority \in Int /\ m[k].name \in Int
  BY <1>3, <1>4, <1>8
<1>11. \A k, n \in DOMAIN m : m[k].name = m[n].name => k = n
  BY <1>3, <1>4, <1>9
<1>12. WellFormed(m)
  <2> HIDE DEF V
  <2> QED BY <1>6, <1>7, <1>10, <1>11 DEF WellFormed
<1> QED BY <1>6, <1>12 DEF SameObjects, V, m

(* Which policy, threshold and escalation chain decide about a plan does   *)
(* not depend on the order in which the cache lists them.                  *)
THEOREM DecisionIsDetermined == GuardrailSpec => DecisionIgnoresListOrder
<1> DEFINE Inv == WellFormed(policies) /\ WellFormed(thresholds) /\ WellFormed(chains)
<1>1. GuardrailInit => Inv
  BY GuardrailAssumption DEF GuardrailInit
<1>2. ASSUME Inv, [Relist]_guardrailVars
      PROVE  /\ Inv'
             /\ [Decision' = Decision]_guardrailVars
  <2>1. CASE UNCHANGED guardrailVars
    BY <1>2, <2>1 DEF guardrailVars
  <2>2. ASSUME NEW l, NEW m, WellFormed(l),
               \E i \in 1 .. Len(l) - 1 : m = Swapped(l, i)
        PROVE  SameObjects(l, m) /\ WellFormed(m)
    <3>1. PICK i \in 1 .. Len(l) - 1 : m = Swapped(l, i)
      BY <2>2
    <3>2. SameObjects(l, Swapped(l, i))
      BY <2>2, SwappedSame
    <3> QED BY <3>1, <3>2 DEF SameObjects
  <2>3. CASE Relist
    <3>1. /\ policies' = policies \/ SameObjects(policies, policies')
          /\ thresholds' = thresholds \/ SameObjects(thresholds, thresholds')
          /\ chains' = chains \/ SameObjects(chains, chains')
          /\ subject' = subject
          /\ Inv'
      BY <1>2, <2>2, <2>3 DEF Relist
    <3>2. Evaluate(subject.enabled, policies, subject.legacy, subject)'
            = Evaluate(subject.enabled, policies, subject.legacy, subject)
      BY <3>1, SamePolicy
    <3>3. ResolveThreshold(thresholds, subject)' = ResolveThreshold(thresholds, subject)
      BY <3>1, SameThreshold
    <3>4. ResolveChain(chains, subject.reference, subject.labels)'
            = ResolveChain(chains, subject.reference, subject.labels)
      BY <3>1, SameChain
    <3> QED BY <3>1, <3>2, <3>3, <3>4 DEF Decision
  <2> QED BY <1>2, <2>1, <2>3
<1>3. Inv /\ [Relist]_guardrailVars => Inv'
  BY <1>2
<1>4. Inv /\ [Relist]_guardrailVars => [Decision' = Decision]_guardrailVars
  BY <1>2
<1> QED BY <1>1, <1>3, <1>4, PTL DEF GuardrailSpec, DecisionIgnoresListOrder
=============================================================================
