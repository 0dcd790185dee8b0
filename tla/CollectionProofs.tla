-------------------------- MODULE CollectionProofs --------------------------
(***************************************************************************)
(* Theorems about what an investigation asks, collects and concludes: its  *)
(* query budgets, the collection by workers, and the scheduling diagnosis. *)
(***************************************************************************)
EXTENDS EvidencePlan, Diagnosis, Collection, ListProofs

-----------------------------------------------------------------------------
(* The diagnosis.  What is collected is compared with the cluster, so the  *)
(* parts of the invariant are about a cluster w and a record or a listing. *)

UIDs(w) == {uid \in Nat \X Nat : /\ uid[1] \in 1 .. Len(w.pods)
                                 /\ uid[2] \in 1 .. Len(w.pods[uid[1]])}

PodAt(w, uid) == w.pods[uid[1]][uid[2]]

Coverages == {"Complete", "Truncated", "Stale", "Unauthorized", "Unavailable",
              "CollectionFailed"}

Texts == STRING \cup {Blank, "True"}

RecordType(w) ==
    [uid : UIDs(w), coverage : Coverages, state : BOOLEAN, node : BOOLEAN,
     gated : BOOLEAN, scheduled : Texts, cause : Texts,
     events : SUBSET EventType, truncated : BOOLEAN, stale : BOOLEAN]

\* The scheduling events of the pod, and those within the incident's window.
Recognized(w, uid) == {e \in ToSet(PodAt(w, uid).events) : e.reason \in SchedulingReasons}
Window(w, uid) == {e \in Recognized(w, uid) : e.when = "within"}

(* A record says that it is cut or stale, and one that says neither states *)
(* what was true of the very pod it is about.                              *)
Honest(w, r) ==
    /\ r.coverage = "Truncated" => r.truncated
    /\ r.coverage = "Stale" => r.stale
    /\ r.coverage = "Complete" =>
          /\ ~r.node => ~PodAt(w, r.uid).node
          /\ r.gated => PodAt(w, r.uid).gated
          /\ r.scheduled = "Unschedulable" => PodAt(w, r.uid).scheduled = "Unschedulable"

\* What stands for an event is itself or another that says the same.
StoodFor(w, uid, e, ids) ==
    \E d \in Window(w, uid) : Fingerprint(d) = Fingerprint(e) /\ d.id \in ids

(* A complete record has events of the pod within the window and no other, *)
(* and one for everything that is said there.                              *)
Listed(w, r) ==
    r.coverage = "Complete" =>
        /\ r.events \subseteq Window(w, r.uid)
        /\ \A e \in Window(w, r.uid) : StoodFor(w, r.uid, e, {d.id : d \in r.events})

\* Records are made for the pods of the scope in their order.
InOrder(w, pods, list) ==
    /\ pods \in Seq(UIDs(w))
    /\ list \in Seq(RecordType(w))
    /\ Len(list) <= Len(pods)
    /\ \A i \in 1 .. Len(list) : list[i].uid = pods[i] /\ Honest(w, list[i])

(* What has been heard of a pod's events was served by one of the APIs.    *)
(* Without an error or a bound met, the first list leaves nothing out; the *)
(* second does when the first is not served, but its copies may be undated.*)
ListingType ==
    [at : Nat, api : {"none", "core", "v1", "both"}, page : Nat,
     rest : Seq(EventType), events : SUBSET EventType, truncated : BOOLEAN,
     errors : Seq({"forbidden", "timeout", "error"})]

Known(w, uid, events) ==
    \A e \in Window(w, uid) : e \in events \/ Undated(e) \in events

\* The part of the lists that is still to tell what they must.
Ahead(w, l) ==
    IF l.api = "core" \/ (l.api = "v1" /\ w.without = "core") THEN ToSet(l.rest) ELSE {}

HeardOf(w, uid, l) ==
    /\ l \in ListingType
    /\ l.api # "none"
    /\ \A e \in l.events : e.when = "within" => e \in Window(w, uid)
    /\ l.api = "core" => \A i \in 1 .. Len(l.rest) : l.rest[i] \in ToSet(PodAt(w, uid).events)
    /\ l.api = "v1" => \A i \in 1 .. Len(l.rest) :
                          l.rest[i].when = "within" => l.rest[i] \in ToSet(PodAt(w, uid).events)
    /\ ~l.truncated /\ l.errors = <<>> => Known(w, uid, l.events \cup Ahead(w, l))

CollectionInv ==
    /\ world \in Worlds
    /\ live \in [PodNames -> Nat]
    /\ \A n \in PodNames : live[n] <= Len(world.pods[n])
    /\ step \in {"scope", "pods", "events", "diagnose", "account", "verify", "done"}
    /\ spent \in [api : Nat, scanned : Nat, exhausted : BOOLEAN]
    /\ InOrder(world, scope, records)
    /\ step = "scope" => records = <<>>
    /\ step = "pods" => Len(records) < Len(scope)
    /\ step = "events" =>
          /\ listing.at \in 1 .. Len(records)
          /\ records[listing.at].coverage = "Complete"
          /\ HeardOf(world, records[listing.at].uid, listing)
          /\ \A i \in 1 .. listing.at - 1 : Listed(world, records[i])
    /\ step \in {"diagnose", "account", "verify", "done"} =>
          \A i \in 1 .. Len(records) : Listed(world, records[i])

(* A scheduling claim is one that a readable record makes, and the         *)
(* inventory has the evidence of every record.                             *)
ConclusionInv ==
    /\ step \in {"account", "verify", "done"} =>
          \A c \in claims : c.diagnostic = "scheduling" =>
              \E r \in AdaptedRecords : Readable(r) /\ c \in SchedulingClaims(r)
    /\ step \in {"verify", "done"} =>
          \A r \in AdaptedRecords : \A ref \in SchedulingRefs(r) :
              \E i \in inventory : i.id = ref.id /\ i.incomplete = ref.truncated
    /\ step # "done" => verified = {}

DiagnosisInv == CollectionInv /\ ConclusionInv /\ SupportedClaimsAreGrounded

LEMMA PodTyped ==
  ASSUME NEW w \in Worlds, NEW uid \in UIDs(w)
  PROVE  PodAt(w, uid) \in PodType
<1>1. w.pods \in Seq(Seq(PodType) \ {<<>>})
  BY WorldsAssumption
<1>2. uid[1] \in 1 .. Len(w.pods) /\ uid[2] \in 1 .. Len(w.pods[uid[1]])
  BY DEF UIDs
<1>3. w.pods[uid[1]] \in Seq(PodType)
  BY <1>1, <1>2
<1> QED BY <1>2, <1>3 DEF PodAt

-----------------------------------------------------------------------------
(* The scope.                                                              *)

LEMMA FirstOfTyped ==
  ASSUME NEW S, NEW s \in Seq(S), NEW n \in Nat
  PROVE  FirstOf(s, n) \in Seq(S)
  BY DEF FirstOf

\* The pods that a read of the target finds are pods of the cluster.
LEMMA ScopesTyped ==
  ASSUME CollectionInv, NEW found \in Scopes
  PROVE  found.pods \in Seq(UIDs(world))
<1> USE DEF CollectionInv
<1>1. world.pods \in Seq(Seq(PodType) \ {<<>>})
  BY WorldsAssumption
<1>2. \A n \in PodNames : live[n] > 0 => <<n, live[n]>> \in UIDs(world)
  BY <1>1 DEF PodNames, UIDs
<1>3. CASE found = NoScope
  BY <1>3 DEF NoScope
<1>4. CASE world.target = "Deployment" /\ found = ResolveDeployment
  <2> DEFINE named == [n \in PodNames |-> <<n, live[n]>>]
             inUse == {uid \in ToSet(named) : uid[2] > 0}
             first == FirstOf(LivePods, MaxScopePods)
  <2>1. named \in Seq(Nat \X Nat)
    <3>1. Len(world.pods) \in Nat /\ PodNames = 1 .. Len(world.pods)
      BY <1>1 DEF PodNames
    <3>2. \A n \in PodNames : <<n, live[n]>> \in Nat \X Nat
      BY <3>1
    <3> QED BY ONLY <3>1, <3>2
  <2>2. inUse \subseteq UIDs(world)
    BY <1>2 DEF ToSet
  <2>3. LivePods = OnlyIn(named, inUse)
    BY DEF LivePods
  <2> HIDE DEF named, inUse
  <2>4. LivePods \in Seq(Nat \X Nat) /\ ToSet(LivePods) \subseteq UIDs(world)
    BY <2>1, <2>2, <2>3, OnlyInKeeps
  <2>5. LivePods \in Seq(UIDs(world))
    BY <2>4 DEF ToSet
  <2>6. first \in Seq(UIDs(world))
    BY <2>5, FirstOfTyped, SchedulingAssumption
  <2> HIDE DEF first
  <2>7. \A T : OnlyIn(first, T) \in Seq(UIDs(world))
    BY <2>6, OnlyInKeeps
  <2>8. \E T : found.pods = OnlyIn(first, T)
    BY <1>4 DEF ResolveDeployment, first
  <2> QED BY <2>7, <2>8
<1>5. CASE /\ world.target # "Deployment" /\ live[1] > 0
           /\ found = [complete |-> TRUE, pods |-> <<<<1, live[1]>>>>]
  <2>1. 1 \in PodNames
    BY <1>1, <1>5, WorldsAssumption DEF PodNames
  <2>2. <<1, live[1]>> \in UIDs(world)
    BY <1>2, <1>5, <2>1
  <2> QED BY <1>5, <2>2
<1> QED BY <1>3, <1>4, <1>5 DEF Scopes

-----------------------------------------------------------------------------
(* Records.                                                                *)

LEMMA UnreadIsHonest ==
  ASSUME NEW w \in Worlds, NEW uid \in UIDs(w), NEW coverage \in Coverages,
         coverage # "Complete"
  PROVE  /\ Unread(uid, coverage) \in RecordType(w)
         /\ Unread(uid, coverage).uid = uid
         /\ Unread(uid, coverage).coverage = coverage
         /\ Honest(w, Unread(uid, coverage))
  BY DEF Unread, RecordType, Texts, Honest

LEMMA NormalizedIsHonest ==
  ASSUME CollectionInv, NEW uid \in UIDs(world)
  PROVE  /\ NormalizeSchedulingPod(uid) \in RecordType(world)
         /\ NormalizeSchedulingPod(uid).uid = uid
         /\ Honest(world, NormalizeSchedulingPod(uid))
<1> DEFINE r == NormalizeSchedulingPod(uid)
<1>1. PodAt(world, uid) \in PodType /\ Pod(uid) = PodAt(world, uid)
  BY PodTyped DEF CollectionInv, Pod, PodAt
<1> DEFINE scheduled == IF uid \in assigned THEN "True" ELSE Pod(uid).scheduled
           cause == IF uid \in assigned THEN Blank ELSE Pod(uid).cause
           u == Unread(uid, "Complete")
<1>2. /\ Node(uid) \in BOOLEAN /\ (~Node(uid) => ~Pod(uid).node)
      /\ Pod(uid).gated \in BOOLEAN
      /\ scheduled \in Texts /\ cause \in Texts
      /\ scheduled = "Unschedulable" => Pod(uid).scheduled = "Unschedulable"
  <2>1. /\ Pod(uid).node \in BOOLEAN /\ Pod(uid).gated \in BOOLEAN
        /\ Pod(uid).scheduled \in STRING /\ Pod(uid).cause \in STRING
    BY <1>1 DEF PodType
  <2>2. Node(uid) \in BOOLEAN /\ (~Node(uid) => ~Pod(uid).node)
    BY <2>1 DEF Node
  <2>3. /\ scheduled \in Texts /\ cause \in Texts
        /\ scheduled = "Unschedulable" => Pod(uid).scheduled = "Unschedulable"
    BY <2>1 DEF Texts
  <2> QED BY <2>1, <2>2, <2>3
<1>3. u \in RecordType(world) /\ u.uid = uid /\ u.coverage = "Complete"
  BY DEF Unread, RecordType, Texts, Coverages
<1>4. r = [u EXCEPT !.state = TRUE, !.node = Node(uid), !.gated = Pod(uid).gated,
                    !.scheduled = scheduled, !.cause = cause]
  BY DEF NormalizeSchedulingPod
<1> HIDE DEF u, r, scheduled, cause
<1>5. r \in RecordType(world)
  BY <1>2, <1>3, <1>4 DEF RecordType
<1>6. /\ r.uid = uid /\ r.coverage = "Complete" /\ r.node = Node(uid)
      /\ r.gated = Pod(uid).gated /\ r.scheduled = scheduled
  BY <1>3, <1>4 DEF RecordType
<1>7. Honest(world, r)
  BY <1>1, <1>2, <1>6 DEF Honest
<1> QED BY <1>5, <1>6, <1>7 DEF r

LEMMA PodRecordIsHonest ==
  ASSUME CollectionInv, NEW uid \in UIDs(world)
  PROVE  /\ PodRecord(uid) \in RecordType(world)
         /\ PodRecord(uid).uid = uid
         /\ Honest(world, PodRecord(uid))
  BY NormalizedIsHonest, UnreadIsHonest DEF PodRecord, CollectionInv, Coverages

\* Marked records are no longer complete.
LEMMA MarkedInOrder ==
  ASSUME NEW w \in Worlds, NEW pods, NEW list, InOrder(w, pods, list),
         NEW coverage \in {"Unauthorized", "Unavailable", "CollectionFailed"}
  PROVE  LET marked == MarkSchedulingCoverage(list, coverage)
         IN  /\ InOrder(w, pods, marked)
             /\ Len(marked) = Len(list)
             /\ \A i \in 1 .. Len(marked) : Listed(w, marked[i])
<1> DEFINE marked == MarkSchedulingCoverage(list, coverage)
<1>1. list \in Seq(RecordType(w)) /\ DOMAIN list = 1 .. Len(list)
  BY DEF InOrder
<1>2. \A r \in RecordType(w) :
         LET q == [r EXCEPT !.coverage = coverage]
         IN  q \in RecordType(w) /\ q.uid = r.uid /\ q.coverage = coverage
  BY DEF RecordType, Coverages
<1>3. \A i \in 1 .. Len(list) :
         /\ marked[i] \in RecordType(w)
         /\ marked[i].uid = list[i].uid
         /\ \/ marked[i].coverage = coverage
            \/ marked[i] = list[i] /\ list[i].coverage # "Complete"
  BY <1>1, <1>2 DEF MarkSchedulingCoverage
<1>4. marked \in Seq(RecordType(w)) /\ Len(marked) = Len(list)
  BY <1>1, <1>3 DEF MarkSchedulingCoverage
<1> HIDE DEF marked
<1>5. \A i \in 1 .. Len(list) : Honest(w, marked[i]) /\ marked[i].coverage # "Complete"
  BY <1>3 DEF InOrder, Honest
<1>6. InOrder(w, pods, marked)
  BY <1>3, <1>4, <1>5 DEF InOrder
<1>7. \A i \in 1 .. Len(marked) : Listed(w, marked[i])
  BY <1>4, <1>5 DEF Listed
<1> QED BY <1>4, <1>6, <1>7 DEF marked

\* The events served are the pod's, unless they are served undated.
LEMMA ServedEvents ==
  ASSUME CollectionInv, NEW uid \in UIDs(world)
  PROVE  /\ Served("core", uid) = PodAt(world, uid).events
         /\ Served("core", uid) \in Seq(EventType)
         /\ Served("v1", uid) \in Seq(EventType)
         /\ \A i \in 1 .. Len(Served("v1", uid)) :
               Served("v1", uid)[i].when = "within" =>
                  Served("v1", uid)[i] \in ToSet(PodAt(world, uid).events)
         /\ Known(world, uid, ToSet(Served("v1", uid)))
<1> DEFINE events == PodAt(world, uid).events
           old(e) == Undated(e)
<1>1. events \in Seq(EventType) /\ Pod(uid).events = events
  BY PodTyped DEF CollectionInv, Pod, PodAt, PodType
<1>2. \A api \in {"core", "v1"} :
         Served(api, uid) = [i \in DOMAIN events |->
             IF api = "v1" /\ events[i].legacy THEN old(events[i]) ELSE events[i]]
  BY <1>1 DEF Served
<1>3. \A e \in EventType : old(e) \in EventType /\ old(e).when = "unknown"
  BY DEF EventType, Undated
<1> HIDE DEF events, old
<1>4. Served("core", uid) = events
  BY <1>1, <1>2
<1>5. \A i \in DOMAIN events :
         /\ Served("v1", uid)[i] \in EventType
         /\ Served("v1", uid)[i].when = "within" => Served("v1", uid)[i] = events[i]
         /\ Served("v1", uid)[i] \in {events[i], old(events[i])}
  BY <1>1, <1>2, <1>3
<1>6. Served("v1", uid) \in Seq(EventType) /\ DOMAIN Served("v1", uid) = DOMAIN events
  BY <1>1, <1>2, <1>5
<1>7. \A i \in DOMAIN events : events[i] \in ToSet(events)
  BY DEF ToSet
<1>8. Known(world, uid, ToSet(Served("v1", uid)))
  <2> DEFINE served == Served("v1", uid)
  <2> SUFFICES ASSUME NEW e \in Window(world, uid)
               PROVE  e \in ToSet(served) \/ Undated(e) \in ToSet(served)
    BY DEF Known
  <2>1. PICK i \in DOMAIN events : e = events[i]
    BY DEF Window, Recognized, ToSet, events
  <2>2. served[i] \in {e, Undated(e)} /\ i \in DOMAIN served
    BY <1>5, <1>6, <2>1 DEF old
  <2> HIDE DEF served
  <2>3. served[i] \in ToSet(served)
    BY <2>2 DEF ToSet
  <2> QED BY <2>2, <2>3
<1> QED BY <1>1, <1>4, <1>5, <1>6, <1>7, <1>8 DEF events

\* The listing of a record starts with all its events ahead.
LEMMA NextListingBegins ==
  ASSUME CollectionInv, NEW list, InOrder(world, scope, list), NEW at \in Nat,
         \A i \in 1 .. Len(list) : i <= at => Listed(world, list[i])
  PROVE  LET l == NextListing(list, at)
         IN  \/ l.at = 0 /\ \A i \in 1 .. Len(list) : Listed(world, list[i])
             \/ /\ l.at \in 1 .. Len(list)
                /\ list[l.at].coverage = "Complete"
                /\ HeardOf(world, list[l.at].uid, l)
                /\ \A i \in 1 .. l.at - 1 : Listed(world, list[i])
<1> DEFINE l == NextListing(list, at)
           after == {i \in DOMAIN list : i > at /\ list[i].coverage = "Complete"}
           next == CHOOSE i \in after : \A j \in after : i <= j
<1>1. list \in Seq(RecordType(world)) /\ DOMAIN list = 1 .. Len(list)
  BY DEF InOrder
<1>2. l = IF after = {} THEN NoListing
          ELSE [NoListing EXCEPT !.at = next, !.api = "core",
                                 !.rest = Served("core", list[next].uid)]
  BY DEF NextListing
<1>3. CASE after = {}
  <2>1. l.at = 0
    BY <1>2, <1>3 DEF NoListing
  <2>2. \A i \in 1 .. Len(list) : ~(i <= at) => list[i].coverage # "Complete"
    BY <1>1, <1>3
  <2> QED BY <2>1, <2>2 DEF Listed
<1>4. CASE after # {}
  <2>1. after \in SUBSET Nat
    BY <1>1
  <2>2. \E i \in after : \A j \in after : i <= j
    BY <1>4, <2>1, LeastNumber
  <2>3. next \in after /\ \A j \in after : next <= j
    BY <2>2
  <2> HIDE DEF next
  <2> DEFINE uid == list[next].uid
  <2>4. next \in 1 .. Len(list) /\ list[next].coverage = "Complete"
    BY <1>1, <2>3
  <2>5. \A i \in 1 .. Len(list) : i < next => i <= at \/ list[i].coverage # "Complete"
    BY <1>1, <2>3
  <2>6. uid \in UIDs(world)
    <3>1. list[next] \in RecordType(world)
      BY <1>1, <2>4
    <3> QED BY <3>1 DEF RecordType
  <2> HIDE DEF after
  <2>7. /\ l.at = next /\ l.api = "core" /\ l.rest = Served("core", uid)
        /\ l.events = {} /\ l.truncated = FALSE /\ l.errors = <<>> /\ l.page = 0
        /\ l = [at |-> next, api |-> "core", page |-> 0, rest |-> Served("core", uid),
                events |-> {}, truncated |-> FALSE, errors |-> <<>>]
    BY <1>2, <1>4 DEF NoListing
  <2> HIDE DEF uid, l
  <2>8. Served("core", uid) \in Seq(EventType) /\ Served("core", uid) = PodAt(world, uid).events
    BY <2>6, ServedEvents
  <2>9. l \in ListingType
    BY <2>4, <2>7, <2>8 DEF ListingType
  <2>10. Window(world, uid) \subseteq ToSet(l.rest)
    BY <2>7, <2>8 DEF Window, Recognized
  <2>11. \A i \in 1 .. Len(l.rest) : l.rest[i] \in ToSet(PodAt(world, uid).events)
    BY <2>7, <2>8 DEF ToSet
  <2>12. HeardOf(world, uid, l)
    BY <2>7, <2>9, <2>10, <2>11 DEF HeardOf, Known, Ahead
  <2>13. ASSUME NEW i \in 1 .. next - 1 PROVE Listed(world, list[i])
    <3>1. i \in 1 .. Len(list) /\ i < next
      BY <2>4
    <3>2. i <= at \/ list[i].coverage # "Complete"
      BY <2>5, <3>1
    <3> QED BY <3>1, <3>2 DEF Listed
  <2> QED BY <2>4, <2>7, <2>12, <2>13 DEF uid, l
<1> QED BY <1>3, <1>4

-----------------------------------------------------------------------------
(* The steps of the collection.                                            *)

LEMMA CollectedKeepsInv ==
  ASSUME CollectionInv, UNCHANGED <<world, live, scope>>,
         spent' \in [api : Nat, scanned : Nat, exhausted : BOOLEAN],
         NEW list, InOrder(world, scope, list), NEW at \in Nat,
         \A i \in 1 .. Len(list) : i <= at => Listed(world, list[i]),
         Collected(list, at)
  PROVE  CollectionInv'
<1> DEFINE l == NextListing(list, at)
<1>1. \/ l.at = 0 /\ \A i \in 1 .. Len(list) : Listed(world, list[i])
      \/ /\ l.at \in 1 .. Len(list)
         /\ list[l.at].coverage = "Complete"
         /\ HeardOf(world, list[l.at].uid, l)
         /\ \A i \in 1 .. l.at - 1 : Listed(world, list[i])
  BY NextListingBegins
<1>2. records' = list /\ listing' = l /\ step' = IF l.at = 0 THEN "diagnose" ELSE "events"
  BY DEF Collected
<1> HIDE DEF l
<1>3. CASE l.at = 0
  BY <1>1, <1>2, <1>3 DEF CollectionInv, PodNames
<1>4. CASE l.at # 0
  BY <1>1, <1>2, <1>4 DEF CollectionInv, PodNames
<1> QED BY <1>3, <1>4

LEMMA FailedKeepsInv ==
  ASSUME CollectionInv, UNCHANGED <<world, live, scope>>,
         spent' \in [api : Nat, scanned : Nat, exhausted : BOOLEAN],
         NEW list, InOrder(world, scope, list),
         NEW coverage \in {"Unauthorized", "Unavailable", "CollectionFailed"},
         Failed(list, coverage)
  PROVE  CollectionInv'
<1> DEFINE marked == MarkSchedulingCoverage(list, coverage)
<1>1. /\ InOrder(world, scope, marked)
      /\ \A i \in 1 .. Len(marked) : Listed(world, marked[i])
  BY MarkedInOrder DEF CollectionInv
<1>2. records' = marked /\ step' = "diagnose"
  BY DEF Failed
<1> HIDE DEF marked
<1> QED BY <1>1, <1>2 DEF CollectionInv, PodNames

LEMMA CollectSchedulingEvidenceKeepsInv ==
  ASSUME CollectionInv, CollectSchedulingEvidence
  PROVE  CollectionInv'
<1> USE DEF CollectSchedulingEvidence
<1>1. scope' \in Seq(UIDs(world))
  BY ScopesTyped
<1>2. UNCHANGED <<world, live, spent>>
  OBVIOUS
<1>3. CASE records' = <<>> /\ step' \in {"diagnose", "pods"}
  <2>1. InOrder(world, scope', records')
    BY <1>1, <1>3 DEF InOrder
  <2>2. step' = "pods" => Len(records') < Len(scope')
    BY <1>1, <1>3
  <2> QED BY <1>2, <1>3, <2>1, <2>2 DEF CollectionInv, PodNames
<1>4. CASE /\ records' = [i \in DOMAIN scope' |-> Unread(scope'[i], "Truncated")]
           /\ step' = "diagnose"
  <2>1. \A i \in 1 .. Len(scope') :
           /\ records'[i] \in RecordType(world)
           /\ records'[i].uid = scope'[i]
           /\ records'[i].coverage = "Truncated"
           /\ Honest(world, records'[i])
    BY <1>1, <1>4, UnreadIsHonest DEF CollectionInv, Coverages
  <2>2. records' \in Seq(RecordType(world)) /\ Len(records') = Len(scope')
    <3> DEFINE list == [i \in DOMAIN scope' |-> Unread(scope'[i], "Truncated")]
    <3>1. Len(scope') \in Nat /\ DOMAIN list = 1 .. Len(scope')
      BY <1>1
    <3>2. list = [i \in DOMAIN list |-> list[i]]
      OBVIOUS
    <3>3. records' = list
      BY <1>4
    <3> HIDE DEF list
    <3> QED BY <2>1, <3>1, <3>2, <3>3, ListOf
  <2>3. InOrder(world, scope', records')
    BY <1>1, <2>1, <2>2 DEF InOrder
  <2>4. \A i \in 1 .. Len(records') : Listed(world, records'[i])
    BY <2>1, <2>2 DEF Listed
  <2> QED BY <1>2, <1>4, <2>3, <2>4 DEF CollectionInv, PodNames
<1> QED BY <1>3, <1>4

LEMMA PodBudgetExhaustedKeepsInv ==
  ASSUME CollectionInv, PodBudgetExhausted
  PROVE  CollectionInv'
<1> DEFINE list == [i \in DOMAIN scope |->
                      IF i \in DOMAIN records THEN records[i]
                      ELSE Unread(scope[i], "Truncated")]
<1>1. /\ scope \in Seq(UIDs(world)) /\ records \in Seq(RecordType(world))
      /\ world \in Worlds /\ Len(records) <= Len(scope)
      /\ \A i \in 1 .. Len(records) : records[i].uid = scope[i] /\ Honest(world, records[i])
  BY DEF CollectionInv, InOrder
<1>2. \A i \in 1 .. Len(scope) :
         /\ list[i] \in RecordType(world)
         /\ list[i].uid = scope[i]
         /\ Honest(world, list[i])
  BY <1>1, UnreadIsHonest DEF Coverages
<1>3. list \in Seq(RecordType(world)) /\ Len(list) = Len(scope)
  <2>1. Len(scope) \in Nat /\ DOMAIN list = 1 .. Len(scope)
    BY <1>1
  <2>2. list = [i \in DOMAIN list |-> list[i]]
    OBVIOUS
  <2> HIDE DEF list
  <2> QED BY <1>2, <2>1, <2>2, ListOf
<1>4. Collected(list, 0) /\ UNCHANGED <<world, live, scope>>
  BY DEF PodBudgetExhausted
<1>5. spent' \in [api : Nat, scanned : Nat, exhausted : BOOLEAN]
  BY DEF PodBudgetExhausted, CollectionInv
<1> HIDE DEF list
<1>6. InOrder(world, scope, list)
  BY <1>1, <1>2, <1>3 DEF InOrder
<1>7. \A i \in 1 .. Len(list) : i <= 0 => Listed(world, list[i])
  BY <1>3
<1> QED BY <1>4, <1>5, <1>6, <1>7, CollectedKeepsInv

LEMMA GetPodKeepsInv ==
  ASSUME CollectionInv, NEW outcome \in Outcomes, GetPod(outcome)
  PROVE  CollectionInv'
<1> DEFINE uid == scope[Len(records) + 1]
<1>1. /\ scope \in Seq(UIDs(world)) /\ records \in Seq(RecordType(world))
      /\ world \in Worlds /\ Len(records) < Len(scope)
      /\ \A i \in 1 .. Len(records) : records[i].uid = scope[i] /\ Honest(world, records[i])
  BY DEF CollectionInv, InOrder, GetPod
<1>2. uid \in UIDs(world)
  BY <1>1
<1>3. UNCHANGED <<world, live, scope>> /\ spent' \in [api : Nat, scanned : Nat, exhausted : BOOLEAN]
  BY DEF GetPod, CollectionInv
<1>4. \A r \in RecordType(world) : r.uid = uid /\ Honest(world, r) =>
         /\ InOrder(world, scope, Append(records, r))
         /\ Len(Append(records, r)) = Len(records) + 1
  <2> SUFFICES ASSUME NEW r \in RecordType(world), r.uid = uid, Honest(world, r)
               PROVE  /\ InOrder(world, scope, Append(records, r))
                      /\ Len(Append(records, r)) = Len(records) + 1
    OBVIOUS
  <2> DEFINE list == Append(records, r)
  <2>1. /\ list \in Seq(RecordType(world)) /\ Len(list) = Len(records) + 1
        /\ \A i \in 1 .. Len(records) : list[i] = records[i]
        /\ list[Len(records) + 1] = r
    BY <1>1
  <2> HIDE DEF list
  <2>2. \A i \in 1 .. Len(list) : i \in 1 .. Len(records) \/ i = Len(records) + 1
    BY <1>1, <2>1
  <2>3. \A i \in 1 .. Len(list) : list[i].uid = scope[i] /\ Honest(world, list[i])
    BY <1>1, <2>1, <2>2
  <2>4. Len(list) <= Len(scope)
    BY <1>1, <2>1
  <2> QED BY <1>1, <2>1, <2>3, <2>4 DEF InOrder, list
<1> HIDE DEF uid
<1>5. CASE outcome # "ok"
  <2> DEFINE coverage == FailureCoverage(outcome)
             list == Append(records, Unread(uid, coverage))
  <2>1. coverage \in {"Unauthorized", "Unavailable", "CollectionFailed"}
    BY DEF FailureCoverage
  <2>2. Failed(list, coverage)
    BY <1>5 DEF GetPod, uid
  <2> HIDE DEF coverage
  <2>3. InOrder(world, scope, list)
    BY <1>1, <1>2, <1>4, <2>1, UnreadIsHonest DEF Coverages
  <2> HIDE DEF list
  <2> QED BY <1>3, <2>1, <2>2, <2>3, FailedKeepsInv
<1> DEFINE more == Append(records, PodRecord(uid))
<1>6. InOrder(world, scope, more) /\ Len(more) = Len(records) + 1
  BY <1>2, <1>4, PodRecordIsHonest
<1>7. CASE outcome = "ok" /\ Len(records) + 1 = Len(scope)
  <2>1. Collected(more, 0)
    BY <1>7 DEF GetPod, uid
  <2> HIDE DEF more
  <2>2. \A i \in 1 .. Len(more) : i <= 0 => Listed(world, more[i])
    BY <1>1, <1>6
  <2> QED BY <1>3, <1>6, <2>1, <2>2, CollectedKeepsInv
<1>8. CASE outcome = "ok" /\ Len(records) + 1 # Len(scope)
  <2>1. records' = more /\ UNCHANGED step /\ step = "pods"
    BY <1>8 DEF GetPod, uid
  <2> HIDE DEF more
  <2>2. Len(more) < Len(scope)
    BY <1>1, <1>6, <1>8
  <2> QED BY <1>3, <1>6, <2>1, <2>2 DEF CollectionInv, PodNames
<1> QED BY <1>5, <1>7, <1>8

\* The second API's list leaves what the first one's told in place.
LEMMA EndListHeard ==
  ASSUME CollectionInv, NEW l, l.api \in {"core", "v1"},
         NEW uid \in UIDs(world), records[l.at].uid = uid, HeardOf(world, uid, l),
         ~l.truncated /\ l.errors = <<>> =>
            \/ Known(world, uid, l.events)
            \/ l.api = "core" /\ world.without = "core"
  PROVE  HeardOf(world, uid, EndList(l)) /\ EndList(l).at = l.at
<1>1. l \in ListingType
  BY DEF HeardOf
<1>2. CASE l.api = "v1"
  <2> DEFINE m == [l EXCEPT !.api = "both"]
  <2>1. EndList(l) = m
    BY <1>2 DEF EndList
  <2>2. /\ m \in ListingType /\ m.at = l.at /\ m.api = "both" /\ m.events = l.events
        /\ m.truncated = l.truncated /\ m.errors = l.errors
    BY <1>1 DEF ListingType
  <2> HIDE DEF m
  <2>3. ~m.truncated /\ m.errors = <<>> => Known(world, uid, m.events)
    BY <1>2, <2>2
  <2>4. m.events \cup Ahead(world, m) = m.events
    BY <2>2 DEF Ahead
  <2> QED BY <1>2, <2>1, <2>2, <2>3, <2>4 DEF HeardOf
<1>3. CASE l.api = "core"
  <2> DEFINE served == Served("v1", uid)
             m == [l EXCEPT !.api = "v1", !.page = 0, !.rest = served]
  <2>1. EndList(l) = m
    BY <1>3 DEF EndList
  <2>2. /\ served \in Seq(EventType)
        /\ \A i \in 1 .. Len(served) :
              served[i].when = "within" => served[i] \in ToSet(PodAt(world, uid).events)
        /\ Known(world, uid, ToSet(served))
    BY ServedEvents
  <2> HIDE DEF served
  <2>3. /\ m \in ListingType /\ m.at = l.at /\ m.api = "v1" /\ m.events = l.events
        /\ m.truncated = l.truncated /\ m.errors = l.errors /\ m.rest = served
    BY <1>1, <2>2 DEF ListingType
  <2> HIDE DEF m
  <2>4. ~m.truncated /\ m.errors = <<>> =>
           Known(world, uid, m.events \cup Ahead(world, m))
    <3>1. world.without = "core" => Ahead(world, m) = ToSet(served)
      BY <2>3 DEF Ahead
    <3> QED BY <1>3, <2>2, <2>3, <3>1 DEF Known
  <2> QED BY <2>1, <2>2, <2>3, <2>4 DEF HeardOf
<1> QED BY <1>2, <1>3

\* What a step leaves to show when it only goes on with the listing.
LEMMA ListingKeepsInv ==
  ASSUME CollectionInv, step = "events", UNCHANGED <<world, live, step, scope, records>>,
         spent' \in [api : Nat, scanned : Nat, exhausted : BOOLEAN], listing'.at = listing.at,
         HeardOf(world, records[listing.at].uid, listing')
  PROVE  CollectionInv'
  BY DEF CollectionInv, PodNames

LEMMA StopListingKeepsInv ==
  ASSUME CollectionInv, StopListing
  PROVE  CollectionInv'
<1> DEFINE uid == records[listing.at].uid
           l == [listing EXCEPT !.truncated = TRUE]
<1>1. /\ step = "events" /\ listing.api \in {"core", "v1"} /\ listing' = EndList(l)
      /\ UNCHANGED <<world, live, step, scope, records>>
  BY DEF StopListing
<1>2. spent' \in [api : Nat, scanned : Nat, exhausted : BOOLEAN]
  <2>1. spent \in [api : Nat, scanned : Nat, exhausted : BOOLEAN]
    BY DEF CollectionInv
  <2>2. \/ UNCHANGED spent
        \/ spent' = [spent EXCEPT !.exhausted = TRUE]
        \/ spent' = [spent EXCEPT !.api = @ + 1, !.exhausted = TRUE]
    BY DEF StopListing
  <2>3. CASE spent' = [spent EXCEPT !.api = @ + 1, !.exhausted = TRUE]
    <3> DEFINE api == spent.api + 1
    <3>1. api \in Nat /\ spent' = [spent EXCEPT !.api = api, !.exhausted = TRUE]
      BY <2>1, <2>3
    <3> HIDE DEF api
    <3> QED BY <2>1, <3>1
  <2>4. CASE spent' = [spent EXCEPT !.exhausted = TRUE]
    BY <2>1, <2>4
  <2> QED BY <2>1, <2>2, <2>3, <2>4
<1>3. /\ listing.at \in 1 .. Len(records) /\ HeardOf(world, uid, listing)
      /\ records \in Seq(RecordType(world))
  BY <1>1 DEF CollectionInv, InOrder
<1>4. uid \in UIDs(world)
  <2>1. records[listing.at] \in RecordType(world)
    BY <1>3
  <2> QED BY <2>1 DEF RecordType
<1> HIDE DEF uid
<1>5. /\ l \in ListingType /\ l.at = listing.at /\ l.api = listing.api
      /\ l.events = listing.events /\ l.rest = listing.rest /\ l.truncated = TRUE
  BY <1>3 DEF HeardOf, ListingType
<1> HIDE DEF l
<1>6. HeardOf(world, uid, l)
  BY <1>3, <1>5 DEF HeardOf, Ahead
<1>7. HeardOf(world, uid, EndList(l)) /\ EndList(l).at = l.at
  BY <1>1, <1>4, <1>5, <1>6, EndListHeard DEF uid
<1> QED BY <1>1, <1>2, <1>5, <1>7, ListingKeepsInv DEF uid

\* A page, what the budget lets through of it, and the listing after it.
PageOf(l, size, room) == FirstOf(FirstOf(l.rest, size), room + 1)
KeptOf(l, size, room) == FirstOf(PageOf(l, size, room), room)
HeardAfter(l, size, room) ==
    [l EXCEPT
        !.events = l.events \cup
            {e \in ToSet(KeptOf(l, size, room)) : e.reason \in SchedulingReasons},
        !.rest = SubSeq(l.rest, Len(PageOf(l, size, room)) + 1, Len(l.rest)),
        !.page = l.page + 1]

\* A page that fits is heard in full; of one that does not, the listing says so.
LEMMA PageHeard ==
  ASSUME NEW w \in Worlds, NEW uid \in UIDs(w), NEW l, HeardOf(w, uid, l),
         NEW room \in Nat, NEW size \in Nat, l.api \in {"core", "v1"}
  PROVE  /\ Len(PageOf(l, size, room)) \in Nat /\ Len(KeptOf(l, size, room)) \in Nat
         /\ Len(PageOf(l, size, room)) <= room => HeardOf(w, uid, HeardAfter(l, size, room))
         /\ HeardOf(w, uid, [HeardAfter(l, size, room) EXCEPT !.truncated = TRUE])
         /\ HeardAfter(l, size, room) \in ListingType
         /\ HeardAfter(l, size, room).at = l.at /\ HeardAfter(l, size, room).api = l.api
<1> DEFINE page == PageOf(l, size, room)
           kept == KeptOf(l, size, room)
           told == {e \in ToSet(kept) : e.reason \in SchedulingReasons}
           left == SubSeq(l.rest, Len(page) + 1, Len(l.rest))
           heard == HeardAfter(l, size, room)
           cut == [heard EXCEPT !.truncated = TRUE]
<1>1. l \in ListingType
  BY DEF HeardOf
<1>2. l.rest \in Seq(EventType) /\ l.events \in SUBSET EventType /\ l.page \in Nat
  BY <1>1 DEF ListingType
<1>3. /\ page \in Seq(EventType) /\ Len(page) <= Len(l.rest)
      /\ \A i \in 1 .. Len(page) : page[i] = l.rest[i]
  <2> DEFINE p == FirstOf(l.rest, size)
  <2>1. /\ p \in Seq(EventType) /\ Len(p) <= Len(l.rest)
        /\ \A i \in 1 .. Len(p) : p[i] = l.rest[i]
    BY <1>2 DEF FirstOf
  <2> HIDE DEF p
  <2>2. /\ FirstOf(p, room + 1) \in Seq(EventType) /\ Len(FirstOf(p, room + 1)) <= Len(p)
        /\ \A i \in 1 .. Len(FirstOf(p, room + 1)) : FirstOf(p, room + 1)[i] = p[i]
    BY <2>1 DEF FirstOf
  <2>3. page = FirstOf(p, room + 1)
    BY DEF p, PageOf
  <2> HIDE DEF page
  <2> QED BY <1>2, <2>1, <2>2, <2>3
<1> HIDE DEF page
<1>4. /\ kept \in Seq(EventType) /\ Len(kept) <= Len(page)
      /\ \A i \in 1 .. Len(kept) : kept[i] = page[i]
      /\ Len(page) <= room => Len(kept) = Len(page)
  <2>1. kept = FirstOf(page, room)
    BY DEF KeptOf, page
  <2> HIDE DEF kept
  <2> QED BY <1>3, <2>1 DEF FirstOf
<1> HIDE DEF kept
<1>5. /\ left \in Seq(EventType) /\ Len(left) = Len(l.rest) - Len(page)
      /\ \A i \in 1 .. Len(left) : left[i] = l.rest[Len(page) + i]
  BY <1>2, <1>3
<1>6. told \subseteq EventType
      /\ \A e \in told : e.reason \in SchedulingReasons /\ \E i \in 1 .. Len(l.rest) : e = l.rest[i]
  <2>1. \A i \in 1 .. Len(kept) : i \in 1 .. Len(l.rest) /\ kept[i] = l.rest[i] /\ kept[i] \in EventType
    BY <1>3, <1>4
  <2> QED BY <1>4, <2>1 DEF ToSet
<1>7. \A e \in ToSet(l.rest) : e.reason \in SchedulingReasons /\ Len(page) <= room =>
         e \in told \/ e \in ToSet(left)
  <2> SUFFICES ASSUME NEW i \in 1 .. Len(l.rest), l.rest[i].reason \in SchedulingReasons,
                      Len(page) <= room
               PROVE  l.rest[i] \in told \/ l.rest[i] \in ToSet(left)
    <3>1. DOMAIN l.rest = 1 .. Len(l.rest)
      BY <1>2
    <3> HIDE DEF told, left
    <3> QED BY <3>1 DEF ToSet
  <2>1. CASE i <= Len(page)
    <3>1. i \in DOMAIN kept /\ kept[i] = l.rest[i]
      BY <1>2, <1>3, <1>4, <2>1
    <3> QED BY <3>1 DEF ToSet
  <2>2. CASE ~(i <= Len(page))
    <3>1. i - Len(page) \in DOMAIN left /\ left[i - Len(page)] = l.rest[i]
      BY <1>2, <1>3, <1>5, <2>2
    <3> QED BY <3>1 DEF ToSet
  <2> QED BY <2>1, <2>2
<1> HIDE DEF told, left
<1>8. /\ heard \in ListingType /\ heard.at = l.at /\ heard.api = l.api
      /\ heard.events = l.events \cup told /\ heard.rest = left
      /\ heard.truncated = l.truncated /\ heard.errors = l.errors
  <2> DEFINE events == l.events \cup told
             pages == l.page + 1
  <2>1. events \in SUBSET EventType /\ pages \in Nat
    BY <1>2, <1>6
  <2>2. heard = [l EXCEPT !.events = events, !.rest = left, !.page = pages]
    BY DEF HeardAfter, page, kept, told, left
  <2> HIDE DEF events, pages, heard
  <2>3. /\ heard \in ListingType /\ heard.at = l.at /\ heard.api = l.api
        /\ heard.events = events /\ heard.rest = left
        /\ heard.truncated = l.truncated /\ heard.errors = l.errors
    BY <1>1, <1>5, <2>1, <2>2 DEF ListingType
  <2> QED BY <2>3 DEF events
<1>9. /\ cut \in ListingType /\ cut.at = l.at /\ cut.api = l.api
      /\ cut.events = l.events \cup told /\ cut.rest = left /\ cut.truncated = TRUE
  BY <1>8 DEF ListingType
<1>10. \A e \in told : e.when = "within" => e \in Window(w, uid)
  BY <1>6 DEF HeardOf, Window, Recognized
<1>11. \A i \in 1 .. Len(left) : \E j \in 1 .. Len(l.rest) : left[i] = l.rest[j]
  <2>1. \A i \in 1 .. Len(left) : Len(page) + i \in 1 .. Len(l.rest)
    BY <1>2, <1>3, <1>5
  <2> QED BY <1>5, <2>1
<1>12. /\ l.api = "core" => \A i \in 1 .. Len(left) : left[i] \in ToSet(PodAt(w, uid).events)
       /\ l.api = "v1" => \A i \in 1 .. Len(left) :
                             left[i].when = "within" => left[i] \in ToSet(PodAt(w, uid).events)
  BY <1>11 DEF HeardOf
<1> HIDE DEF cut, heard
<1>13. HeardOf(w, uid, cut)
  BY <1>9, <1>10, <1>12 DEF HeardOf
<1>14. ASSUME Len(page) <= room PROVE HeardOf(w, uid, heard)
  <2>1. ASSUME ~heard.truncated, heard.errors = <<>>
        PROVE  Known(w, uid, heard.events \cup Ahead(w, heard))
    <3>1. Known(w, uid, l.events \cup Ahead(w, l))
      BY <1>8, <2>1 DEF HeardOf
    <3>2. \A e \in Window(w, uid) : /\ e.reason \in SchedulingReasons
                                    /\ Undated(e).reason \in SchedulingReasons
      <4>1. \A e \in Window(w, uid) : e \in EventType /\ e.reason \in SchedulingReasons
        <5>1. PodAt(w, uid).events \in Seq(EventType)
          BY PodTyped DEF PodType
        <5> QED BY <5>1 DEF Window, Recognized, ToSet
      <4> QED BY <4>1 DEF Undated, EventType
    <3>3. \A e \in l.events \cup Ahead(w, l) :
             e.reason \in SchedulingReasons => e \in heard.events \cup Ahead(w, heard)
      BY <1>7, <1>8, <1>14 DEF Ahead
    <3> QED BY <3>1, <3>2, <3>3 DEF Known
  <2> QED BY <1>8, <1>10, <1>12, <2>1 DEF HeardOf
<1>15. Len(page) \in Nat /\ Len(kept) \in Nat
  BY <1>3, <1>4
<1> QED BY <1>8, <1>13, <1>14, <1>15 DEF page, kept, heard, cut

LEMMA ListPageKeepsInv ==
  ASSUME CollectionInv, NEW outcome \in Outcomes \cup {"unsupported"},
         NEW size \in {1, MaxSchedulingEvents + 1}, ListPage(outcome, size)
  PROVE  CollectionInv'
<1> DEFINE uid == records[listing.at].uid
           room == MaxSchedulingEvents - spent.scanned
           page == PageOf(listing, size, room)
           kept == KeptOf(listing, size, room)
           heard == HeardAfter(listing, size, room)
           full == [heard EXCEPT !.truncated = TRUE]
           failed == [listing EXCEPT !.errors = IF outcome = "unsupported" THEN @
                                                ELSE Append(@, outcome)]
<1>1. /\ step = "events" /\ listing.api \in {"core", "v1"} /\ room > 0
      /\ outcome = "unsupported" => listing.api = world.without
      /\ UNCHANGED <<world, live, step, scope, records>>
  BY DEF ListPage
<1>2. /\ spent' = [spent EXCEPT !.api = @ + 1,
                        !.scanned = @ + IF outcome = "ok" THEN Len(kept) ELSE 0]
      /\ listing' = IF outcome # "ok" THEN EndList(failed)
                    ELSE IF Len(page) > room THEN EndList(full)
                    ELSE IF heard.rest = <<>> THEN EndList(heard) ELSE heard
  BY DEF ListPage, PageOf, KeptOf, HeardAfter
<1>3. /\ listing.at \in 1 .. Len(records) /\ HeardOf(world, uid, listing)
      /\ records \in Seq(RecordType(world)) /\ world \in Worlds
      /\ spent \in [api : Nat, scanned : Nat, exhausted : BOOLEAN]
  BY <1>1 DEF CollectionInv, InOrder
<1>4. uid \in UIDs(world)
  <2>1. records[listing.at] \in RecordType(world)
    BY <1>3
  <2> QED BY <2>1 DEF RecordType
<1>5. room \in Nat /\ size \in Nat
  BY <1>1, <1>3, SchedulingAssumption
<1> HIDE DEF uid, room
<1>6. /\ Len(page) \in Nat /\ Len(kept) \in Nat
      /\ Len(page) <= room => HeardOf(world, uid, heard)
      /\ HeardOf(world, uid, full)
      /\ heard \in ListingType /\ heard.at = listing.at /\ heard.api = listing.api
  BY <1>1, <1>3, <1>4, <1>5, PageHeard
<1>7. full.at = listing.at /\ full.api = listing.api /\ full.truncated = TRUE
  BY <1>6 DEF ListingType
<1> HIDE DEF page, kept, heard, full
<1>8. spent' \in [api : Nat, scanned : Nat, exhausted : BOOLEAN]
  <2> DEFINE api == spent.api + 1
             scanned == spent.scanned + IF outcome = "ok" THEN Len(kept) ELSE 0
  <2>1. api \in Nat /\ scanned \in Nat
    BY <1>3, <1>6
  <2>2. spent' = [spent EXCEPT !.api = api, !.scanned = scanned]
    BY <1>2
  <2> HIDE DEF api, scanned
  <2> QED BY <1>3, <2>1, <2>2
<1>9. CASE outcome # "ok"
  <2> DEFINE errors == IF outcome = "unsupported" THEN listing.errors
                       ELSE Append(listing.errors, outcome)
  <2>1. listing \in ListingType
    BY <1>3 DEF HeardOf
  <2>2. listing.errors \in Seq({"forbidden", "timeout", "error"})
    BY <2>1 DEF ListingType
  <2>3. /\ errors \in Seq({"forbidden", "timeout", "error"})
        /\ errors = <<>> => outcome = "unsupported" /\ listing.errors = <<>>
    BY <1>9, <2>2 DEF Outcomes
  <2>4. failed = [listing EXCEPT !.errors = errors]
    OBVIOUS
  <2> HIDE DEF errors, failed
  <2>5. /\ failed \in ListingType /\ failed.at = listing.at /\ failed.api = listing.api
        /\ failed.events = listing.events /\ failed.rest = listing.rest
        /\ failed.truncated = listing.truncated /\ failed.errors = errors
    BY <2>1, <2>3, <2>4 DEF ListingType
  <2>6. HeardOf(world, uid, failed)
    BY <1>3, <2>3, <2>5 DEF HeardOf, Ahead
  <2>7. ~failed.truncated /\ failed.errors = <<>> =>
           \/ Known(world, uid, failed.events)
           \/ failed.api = "core" /\ world.without = "core"
    <3> SUFFICES ASSUME ~failed.truncated, failed.errors = <<>>,
                        ~(failed.api = "core" /\ world.without = "core")
                 PROVE  Known(world, uid, failed.events)
      OBVIOUS
    <3>1. failed.api = "v1" /\ world.without = "v1"
      BY <1>1, <2>3, <2>5
    <3>2. failed.events \cup Ahead(world, failed) = failed.events
      BY <3>1 DEF Ahead
    <3> QED BY <2>6, <3>2 DEF HeardOf
  <2>8. HeardOf(world, uid, EndList(failed)) /\ EndList(failed).at = listing.at
    BY <1>1, <1>4, <2>5, <2>6, <2>7, EndListHeard DEF uid
  <2> QED BY <1>1, <1>2, <1>8, <1>9, <2>8, ListingKeepsInv DEF uid
<1> HIDE DEF failed
<1>10. CASE outcome = "ok" /\ Len(page) > room
  <2>1. HeardOf(world, uid, EndList(full)) /\ EndList(full).at = listing.at
    BY <1>1, <1>4, <1>6, <1>7, EndListHeard DEF uid
  <2> QED BY <1>1, <1>2, <1>8, <1>10, <2>1, ListingKeepsInv DEF uid
<1>11. CASE outcome = "ok" /\ ~(Len(page) > room) /\ heard.rest = <<>>
  <2>1. HeardOf(world, uid, heard)
    BY <1>5, <1>6, <1>11
  <2>2. ToSet(heard.rest) = {}
    BY <1>11 DEF ToSet
  <2>3. ~heard.truncated /\ heard.errors = <<>> => Known(world, uid, heard.events)
    <3>1. heard.events \cup Ahead(world, heard) = heard.events
      BY <2>2 DEF Ahead
    <3> QED BY <2>1, <3>1 DEF HeardOf
  <2>4. HeardOf(world, uid, EndList(heard)) /\ EndList(heard).at = listing.at
    BY <1>1, <1>4, <1>6, <2>1, <2>3, EndListHeard DEF uid
  <2> QED BY <1>1, <1>2, <1>8, <1>11, <2>4, ListingKeepsInv DEF uid
<1>12. CASE outcome = "ok" /\ ~(Len(page) > room) /\ heard.rest # <<>>
  <2>1. HeardOf(world, uid, heard)
    BY <1>5, <1>6, <1>12
  <2> QED BY <1>1, <1>2, <1>6, <1>8, <1>12, <2>1, ListingKeepsInv DEF uid
<1> QED BY <1>9, <1>10, <1>11, <1>12

\* The events of a pod within the window have ids of their own.
LEMMA WindowTyped ==
  ASSUME NEW w \in Worlds, NEW uid \in UIDs(w)
  PROVE  /\ \A e \in Window(w, uid) : e \in EventType /\ e.when = "within"
         /\ \A d, e \in Window(w, uid) : d.id = e.id => d = e
<1>1. PodAt(w, uid).events \in Seq(EventType)
  BY PodTyped DEF PodType
<1>2. \A d, e \in ToSet(PodAt(w, uid).events) : d.id = e.id => d = e
  BY WorldsAssumption DEF UIDs, PodAt
<1> QED BY <1>1, <1>2 DEF Window, Recognized, ToSet

\* What is dropped as a duplicate is said by an event that stays.
LEMMA DeduplicatedSays ==
  ASSUME NEW events, NEW e \in FirstCopies(events)
  PROVE  \E d \in Deduplicated(events) : Fingerprint(d) = Fingerprint(e)
<1> DEFINE first == FirstCopies(events)
           d == FirstSaying(Fingerprint(e), first)
<1>1. d \in first /\ Fingerprint(d) = Fingerprint(e)
  BY DEF FirstSaying
<1> HIDE DEF d
<1>2. d = FirstSaying(Fingerprint(d), first)
  BY <1>1 DEF d
<1> QED BY <1>1, <1>2 DEF Deduplicated

\* Once both lists have ended the record has the pod's events, or says why not.
LEMMA CompletedIsHonest ==
  ASSUME NEW w \in Worlds, NEW r \in RecordType(w), Honest(w, r), r.coverage = "Complete",
         NEW l, HeardOf(w, r.uid, l), l.api = "both", NEW exhausted \in BOOLEAN
  PROVE  LET q == CompletedRecord(r, l, exhausted)
         IN  /\ q \in RecordType(w) /\ q.uid = r.uid
             /\ Honest(w, q) /\ Listed(w, q)
<1> DEFINE q == CompletedRecord(r, l, exhausted)
           events == Deduplicated(l.events)
           over == Cardinality(events) > MaxSchedulingEvents
           cut == over \/ l.truncated \/ exhausted
           outside == \E e \in events : e.when # "within"
           stale == l.errors = <<>> /\ ~cut /\ outside
           coverage == IF over THEN "Truncated"
                       ELSE IF l.errors # <<>> THEN FailureCoverage(Last(l.errors))
                       ELSE IF cut THEN "Truncated"
                       ELSE IF outside THEN "Stale" ELSE r.coverage
<1>1. l \in ListingType /\ l.truncated \in BOOLEAN /\ l.events \in SUBSET EventType
  BY DEF HeardOf, ListingType
<1>2. q = [r EXCEPT !.events = events, !.truncated = cut, !.stale = stale,
                    !.coverage = coverage]
  BY DEF CompletedRecord
<1>3. events \subseteq l.events
  BY DEF Deduplicated, FirstCopies
<1>4. cut \in BOOLEAN /\ stale \in BOOLEAN
  BY <1>1
<1>5. FailureCoverage(Last(l.errors)) \in {"Unauthorized", "Unavailable", "CollectionFailed"}
  BY DEF FailureCoverage
<1>6. /\ coverage \in Coverages
      /\ coverage = "Truncated" => cut
      /\ coverage = "Stale" => stale
      /\ coverage = "Complete" => l.errors = <<>> /\ ~cut /\ ~outside
  BY <1>5 DEF Coverages
<1>7. coverage = "Complete" =>
         /\ events \subseteq Window(w, r.uid)
         /\ \A e \in Window(w, r.uid) : StoodFor(w, r.uid, e, {d.id : d \in events})
  <2> SUFFICES ASSUME coverage = "Complete"
               PROVE  /\ events \subseteq Window(w, r.uid)
                      /\ \A e \in Window(w, r.uid) :
                            StoodFor(w, r.uid, e, {d.id : d \in events})
    OBVIOUS
  <2>1. l.errors = <<>> /\ ~l.truncated /\ \A e \in events : e.when = "within"
    BY <1>6
  <2>2. Known(w, r.uid, l.events)
    <3>1. l.events \cup Ahead(w, l) = l.events
      BY DEF Ahead
    <3> QED BY <2>1, <3>1 DEF HeardOf
  <2>3. \A e \in l.events : e.when = "within" => e \in Window(w, r.uid)
    BY DEF HeardOf
  <2>4. events \subseteq Window(w, r.uid)
    BY <1>3, <2>1, <2>3
  <2>5. ASSUME NEW e \in Window(w, r.uid)
        PROVE  StoodFor(w, r.uid, e, {d.id : d \in events})
    <3> DEFINE copy == Undated(e)
    <3>1. e \in EventType /\ e.when = "within"
      BY <2>5, WindowTyped DEF RecordType
    <3>2. copy.id = e.id /\ copy.when = "unknown"
      BY <3>1 DEF EventType, Undated
    <3> HIDE DEF copy
    <3>3. \A d \in l.events : d.when = "within" /\ d.id = e.id => d = e
      BY <2>3, <2>5, WindowTyped DEF RecordType
    <3>4. CASE e \in l.events
      <4>1. e \in FirstCopies(l.events)
        BY <3>1, <3>4 DEF FirstCopies
      <4>2. PICK d \in events : Fingerprint(d) = Fingerprint(e)
        BY <4>1, DeduplicatedSays
      <4>3. d \in Window(w, r.uid) /\ d.id \in {c.id : c \in events}
        BY <2>4
      <4> QED BY <4>2, <4>3 DEF StoodFor
    <3>5. CASE e \notin l.events
      <4>1. copy \in l.events
        BY <2>2, <2>5, <3>5 DEF Known, copy
      <4>2. copy \in FirstCopies(l.events)
        BY <3>2, <3>3, <3>5, <4>1 DEF FirstCopies
      <4>3. PICK d \in events : Fingerprint(d) = Fingerprint(copy)
        BY <4>2, DeduplicatedSays
      <4>4. d.when = "unknown"
        BY <3>2, <4>3 DEF Fingerprint
      <4> QED BY <2>1, <4>4
    <3> QED BY <3>4, <3>5
  <2> QED BY <2>4, <2>5
<1>8. events \in SUBSET EventType
  BY <1>1, <1>3
<1> HIDE DEF q, events, cut, stale, coverage
<1>9. /\ q \in RecordType(w) /\ q.uid = r.uid /\ q.coverage = coverage
      /\ q.events = events /\ q.truncated = cut /\ q.stale = stale
      /\ q.node = r.node /\ q.gated = r.gated /\ q.scheduled = r.scheduled
  BY <1>2, <1>4, <1>6, <1>8 DEF RecordType
<1>10. Honest(w, q)
  BY <1>6, <1>9 DEF Honest
<1>11. Listed(w, q)
  BY <1>7, <1>9 DEF Listed
<1> QED BY <1>9, <1>10, <1>11 DEF q

LEMMA CompleteRecordKeepsInv ==
  ASSUME CollectionInv, CompleteRecord
  PROVE  CollectionInv'
<1> DEFINE at == listing.at
           q == CompletedRecord(records[at], listing, spent.exhausted)
           list == [records EXCEPT ![at] = q]
<1>1. /\ step = "events" /\ listing.api = "both"
      /\ \/ Failed(list, "CollectionFailed")
         \/ Failed(list, "Unauthorized")
         \/ Collected(list, at)
      /\ UNCHANGED <<world, live, scope, spent>>
  BY DEF CompleteRecord
<1>2. /\ at \in 1 .. Len(records) /\ HeardOf(world, records[at].uid, listing)
      /\ records[at].coverage = "Complete"
      /\ records \in Seq(RecordType(world)) /\ world \in Worlds
      /\ scope \in Seq(UIDs(world)) /\ Len(records) <= Len(scope)
      /\ \A i \in 1 .. Len(records) : records[i].uid = scope[i] /\ Honest(world, records[i])
      /\ \A i \in 1 .. at - 1 : Listed(world, records[i])
      /\ spent \in [api : Nat, scanned : Nat, exhausted : BOOLEAN]
  BY <1>1 DEF CollectionInv, InOrder
<1>3. /\ records[at] \in RecordType(world) /\ Honest(world, records[at])
      /\ spent.exhausted \in BOOLEAN
  BY <1>2
<1> HIDE DEF at
<1>4. /\ q \in RecordType(world) /\ q.uid = records[at].uid
      /\ Honest(world, q) /\ Listed(world, q)
  BY <1>1, <1>2, <1>3, CompletedIsHonest
<1> HIDE DEF q
<1>5. /\ list \in Seq(RecordType(world)) /\ Len(list) = Len(records)
      /\ \A i \in 1 .. Len(records) : list[i] = IF i = at THEN q ELSE records[i]
  BY <1>2, <1>4
<1> HIDE DEF list
<1>6. InOrder(world, scope, list)
  BY <1>2, <1>4, <1>5 DEF InOrder
<1>7. \A i \in 1 .. Len(list) : i <= at => Listed(world, list[i])
  BY <1>2, <1>4, <1>5
<1>8. at \in Nat
  BY <1>2
<1>9. CASE Collected(list, at)
  BY <1>1, <1>2, <1>6, <1>7, <1>8, <1>9, CollectedKeepsInv
<1>10. CASE Failed(list, "CollectionFailed") \/ Failed(list, "Unauthorized")
  BY <1>1, <1>2, <1>6, <1>10, FailedKeepsInv
<1> QED BY <1>1, <1>9, <1>10

LEMMA ReplacePodKeepsInv ==
  ASSUME CollectionInv, ReplacePod
  PROVE  CollectionInv'
<1>1. PICK n \in PodNames :
         live' = [live EXCEPT ![n] = IF @ < Len(world.pods[n]) THEN @ + 1 ELSE 0]
  BY DEF ReplacePod
<1>2. UNCHANGED <<world, step, scope, records, spent, listing>>
  BY DEF ReplacePod
<1>3. world.pods \in Seq(Seq(PodType) \ {<<>>})
  BY WorldsAssumption DEF CollectionInv
<1>4. \A m \in PodNames : Len(world.pods[m]) \in Nat
  BY <1>3 DEF PodNames
<1>5. /\ live' \in [PodNames -> Nat]
      /\ \A m \in PodNames : live'[m] <= Len(world.pods[m])
  BY <1>1, <1>4 DEF CollectionInv
<1> QED BY <1>2, <1>5 DEF CollectionInv, PodNames

LEMMA CollectionStepKeepsInv ==
  ASSUME CollectionInv, CollectionStep
  PROVE  CollectionInv'
<1>1. CASE AssignPod
  BY <1>1 DEF AssignPod, CollectionInv, PodNames
<1> QED
  BY <1>1, ReplacePodKeepsInv, CollectSchedulingEvidenceKeepsInv,
     PodBudgetExhaustedKeepsInv, GetPodKeepsInv, StopListingKeepsInv,
     CompleteRecordKeepsInv, ListPageKeepsInv DEF CollectionStep

-----------------------------------------------------------------------------
(* The conclusions.                                                        *)

\* A record that can be read and is not cut is complete.
LEMMA ReadableIsComplete ==
  ASSUME NEW w, NEW r \in RecordType(w), Honest(w, r), Readable(r), ~r.truncated
  PROVE  r.coverage = "Complete"
  BY DEF RecordType, Coverages, Honest, Readable

\* What the claim states is true of its pod.
IsTrueOf(w, c) ==
    CASE c.statement = "unassigned" -> ~PodAt(w, c.uid).node
      [] c.statement = "gated" -> PodAt(w, c.uid).gated
      [] OTHER -> \/ PodAt(w, c.uid).scheduled = "Unschedulable"
                  \/ \E e \in Window(w, c.uid) : e.reason = "FailedScheduling"

\* An event within the window, or one that says the same, is referenced.
Cited(w, uid, e, refs) ==
    \E d \in Window(w, uid) : Fingerprint(d) = Fingerprint(e) /\ <<"event", d.id>> \in refs

(* What such a record claims was true of the pod, and its references tell  *)
(* every scheduling event of the pod within the window.                    *)
LEMMA CompleteClaimHolds ==
  ASSUME NEW w \in Worlds, NEW r \in RecordType(w), Honest(w, r), Listed(w, r),
         r.coverage = "Complete", NEW c \in SchedulingClaims(r)
  PROVE  /\ c.uid = r.uid
         /\ IsTrueOf(w, c)
         /\ \A e \in Window(w, r.uid) : Cited(w, r.uid, e, c.refs)
         /\ <<"pod", r.uid>> \in c.refs
<1> DEFINE refs == {ref.id : ref \in SchedulingRefs(r)}
           C(statement, type) == Candidate("scheduling", statement, type, r.uid, refs)
<1>1. \/ ~r.node /\ c = C("unassigned", "Observation")
      \/ r.gated /\ c = C("gated", "FailureMechanism")
      \/ ReportedFailure(r) /\ c = C("unschedulable", "FailureMechanism")
      \/ ReportedFailure(r) /\ \E cause \in {"cpu", "memory", "taint", "affinity"} :
                                   c = C(cause, "RootCause")
  <2>1. ReportedCauses(r) \subseteq {"cpu", "memory", "taint", "affinity"}
    BY DEF ReportedCauses
  <2>2. \A cause \in ReportedCauses(r) : cause \in {"cpu", "memory", "taint", "affinity"}
    BY <2>1
  <2> HIDE DEF refs
  <2> QED BY <2>2 DEF SchedulingClaims, refs
<1> HIDE DEF refs
<1>2. c.uid = r.uid /\ c.refs = refs
  BY <1>1 DEF Candidate
<1>3. r.events \subseteq Window(w, r.uid) /\ CurrentEvents(r) = r.events
  BY DEF Listed, CurrentEvents, Window
<1>4. \A e \in r.events : <<"event", e.id>> \in refs
  <2> SUFFICES ASSUME NEW e \in CurrentEvents(r) PROVE <<"event", e.id>> \in refs
    BY <1>3
  <2> DEFINE ref == [id |-> <<"event", e.id>>, kind |-> "event", truncated |-> r.truncated,
                     uid |-> r.uid,
                     text |-> IF e.cause = "nonodes" THEN "nonodes" ELSE e.reason]
  <2>1. ref \in SchedulingRefs(r)
    BY DEF SchedulingRefs
  <2>2. ref.id = <<"event", e.id>>
    OBVIOUS
  <2> HIDE DEF ref
  <2> QED BY <2>1, <2>2 DEF refs
<1>5. \A e \in Window(w, r.uid) : Cited(w, r.uid, e, refs)
  BY <1>4 DEF Listed, StoodFor, Cited
<1>6. <<"pod", r.uid>> \in refs
  <2> DEFINE ref == [id |-> <<"pod", r.uid>>, kind |-> "scheduling",
                     truncated |-> r.truncated, uid |-> r.uid, text |-> r.scheduled]
  <2>1. ref \in SchedulingRefs(r)
    BY DEF SchedulingRefs
  <2>2. ref.id = <<"pod", r.uid>>
    OBVIOUS
  <2> HIDE DEF ref
  <2> QED BY <2>1, <2>2 DEF refs
<1>7. ReportedFailure(r) => \/ PodAt(w, r.uid).scheduled = "Unschedulable"
                            \/ \E e \in Window(w, r.uid) : e.reason = "FailedScheduling"
  <2>1. SelectedEvent(r) \subseteq CurrentEvents(r)
    BY DEF SelectedEvent
  <2> QED BY <1>3, <2>1 DEF ReportedFailure, Honest
<1>8. IsTrueOf(w, c)
  <2>1. CASE ~r.node /\ c = C("unassigned", "Observation")
    BY <1>2, <2>1 DEF Candidate, Honest, IsTrueOf
  <2>2. CASE r.gated /\ c = C("gated", "FailureMechanism")
    BY <1>2, <2>2 DEF Candidate, Honest, IsTrueOf
  <2>3. CASE ReportedFailure(r) /\ c = C("unschedulable", "FailureMechanism")
    BY <1>2, <1>7, <2>3 DEF Candidate, IsTrueOf
  <2>4. CASE ReportedFailure(r) /\ \E cause \in {"cpu", "memory", "taint", "affinity"} :
                                       c = C(cause, "RootCause")
    BY <1>2, <1>7, <2>4 DEF Candidate, IsTrueOf
  <2> QED BY <1>1, <2>1, <2>2, <2>3, <2>4
<1> QED BY <1>2, <1>5, <1>6, <1>8

LEMMA AdaptedTyped ==
  ASSUME CollectionInv, step \in {"diagnose", "account", "verify", "done"},
         NEW r \in AdaptedRecords
  PROVE  /\ world \in Worlds
         /\ r \in RecordType(world) /\ Honest(world, r) /\ Listed(world, r)
         /\ r.uid \in ToSet(scope)
<1>1. PICK i \in DOMAIN records : r = records[i]
  BY DEF AdaptedRecords, ToSet
<1>2. i \in 1 .. Len(records) /\ i \in DOMAIN scope
  BY DEF CollectionInv, InOrder
<1>3. r.uid = scope[i] /\ r \in RecordType(world) /\ Honest(world, r) /\ Listed(world, r)
  BY <1>1, <1>2 DEF CollectionInv, InOrder
<1> QED BY <1>2, <1>3 DEF CollectionInv, ToSet

LEMMA CollectionStepKeepsConclusion ==
  ASSUME DiagnosisInv, CollectionStep,
         UNCHANGED <<claims, status, inventory, resolution, verified>>
  PROVE  DiagnosisInv'
<1>1. CollectionInv'
  BY CollectionStepKeepsInv DEF DiagnosisInv
<1>2. step # "done" /\ step' # "done"
      /\ (step' \in {"account", "verify"} => step' = step /\ UNCHANGED records)
  <2>1. CASE ReplacePod \/ AssignPod
    BY <2>1 DEF ReplacePod, AssignPod
  <2>2. CASE CollectSchedulingEvidence
    BY <2>2 DEF CollectSchedulingEvidence
  <2>3. CASE PodBudgetExhausted \/ StopListing \/ CompleteRecord
    BY <2>3 DEF PodBudgetExhausted, StopListing, CompleteRecord, Collected, Failed
  <2>4. ASSUME NEW outcome, GetPod(outcome)
        PROVE  step = "pods" /\ step' \in {"pods", "diagnose", "events"}
    BY <2>4 DEF GetPod, Collected, Failed
  <2>5. ASSUME NEW outcome, NEW size, ListPage(outcome, size)
        PROVE  step = "events" /\ step' = step
    BY <2>5 DEF ListPage
  <2> QED BY <2>1, <2>2, <2>3, <2>4, <2>5 DEF CollectionStep
<1>3. verified' = {}
  BY <1>2 DEF DiagnosisInv, ConclusionInv
<1>4. ConclusionInv'
  BY <1>2, <1>3 DEF DiagnosisInv, ConclusionInv, AdaptedRecords
<1>5. SupportedClaimsAreGrounded'
  BY <1>3 DEF SupportedClaimsAreGrounded
<1> QED BY <1>1, <1>4, <1>5 DEF DiagnosisInv

LEMMA EvaluateDiagnosticsKeepsInv ==
  ASSUME DiagnosisInv, EvaluateDiagnostics
  PROVE  DiagnosisInv'
<1>1. /\ step = "diagnose" /\ step' = "account"
      /\ UNCHANGED <<world, live, assigned, scope, records, spent, listing, verified>>
  BY DEF EvaluateDiagnostics
<1>2. CollectionInv'
  BY <1>1 DEF DiagnosisInv, CollectionInv, PodNames
<1>3. verified' = {}
  BY <1>1 DEF DiagnosisInv, ConclusionInv
<1>4. \A c \in claims' : c.diagnostic = "scheduling" =>
         \E r \in AdaptedRecords : Readable(r) /\ c \in SchedulingClaims(r)
  <2>1. PICK found \in Scopes :
           claims' = ImagePullClaims(found) \cup ServicePortClaims(found)
                     \cup UNION {SchedulingClaims(r) :
                                    r \in {q \in AdaptedRecords : Readable(q)}}
    BY DEF EvaluateDiagnostics
  <2>2. \A c \in ImagePullClaims(found) : c.diagnostic = "image-pull"
    BY DEF ImagePullClaims, Candidate
  <2>3. \A c \in ServicePortClaims(found) : c.diagnostic = "service-port"
    BY DEF ServicePortClaims, Candidate
  <2> QED BY <2>1, <2>2, <2>3
<1>5. AdaptedRecords' = AdaptedRecords
  BY <1>1 DEF AdaptedRecords
<1>6. ConclusionInv'
  BY <1>1, <1>3, <1>4, <1>5 DEF ConclusionInv
<1>7. SupportedClaimsAreGrounded'
  BY <1>3 DEF SupportedClaimsAreGrounded
<1> QED BY <1>2, <1>6, <1>7 DEF DiagnosisInv

LEMMA ReconcileCandidatesKeepsInv ==
  ASSUME DiagnosisInv, ReconcileCandidates
  PROVE  DiagnosisInv'
<1>1. /\ step = "account" /\ step' = "verify"
      /\ UNCHANGED <<world, live, assigned, scope, records, spent, listing, claims, verified>>
  BY DEF ReconcileCandidates
<1>2. CollectionInv'
  BY <1>1 DEF DiagnosisInv, CollectionInv, PodNames
<1>3. verified' = {}
  BY <1>1 DEF DiagnosisInv, ConclusionInv
<1>4. \A r \in AdaptedRecords : \A ref \in SchedulingRefs(r) :
         \E i \in inventory' : i.id = ref.id /\ i.incomplete = ref.truncated
  <2> TAKE r \in AdaptedRecords
  <2> TAKE ref \in SchedulingRefs(r)
  <2>1. PICK found \in Scopes : inventory' = DiagnosticEvidenceInventory(found)
    BY DEF ReconcileCandidates
  <2> DEFINE i == [id |-> ref.id, incomplete |-> ref.truncated,
                   uid |-> IF ref.uid # NoUID THEN ref.uid ELSE SingleUID(found)]
  <2>2. ref \in EvidenceRefs
    BY DEF EvidenceRefs
  <2>3. i \in inventory'
    BY <2>1, <2>2 DEF DiagnosticEvidenceInventory
  <2>4. i.id = ref.id /\ i.incomplete = ref.truncated
    OBVIOUS
  <2> HIDE DEF i
  <2> QED BY <2>3, <2>4
<1>5. AdaptedRecords' = AdaptedRecords
  BY <1>1 DEF AdaptedRecords
<1>6. ConclusionInv'
  BY <1>1, <1>3, <1>4, <1>5 DEF DiagnosisInv, ConclusionInv
<1>7. SupportedClaimsAreGrounded'
  BY <1>3 DEF SupportedClaimsAreGrounded
<1> QED BY <1>2, <1>6, <1>7 DEF DiagnosisInv

LEMMA VerifyCandidatesKeepsInv ==
  ASSUME DiagnosisInv, NEW inTime \in BOOLEAN, VerifyCandidates(inTime)
  PROVE  DiagnosisInv'
<1>1. /\ step = "verify" /\ step' = "done"
      /\ UNCHANGED <<world, live, assigned, scope, records, spent, listing,
                     claims, inventory, resolution>>
  BY DEF VerifyCandidates
<1>2. CollectionInv'
  BY <1>1 DEF DiagnosisInv, CollectionInv, PodNames
<1>3. AdaptedRecords' = AdaptedRecords
  BY <1>1 DEF AdaptedRecords
<1>4. ConclusionInv'
  BY <1>1, <1>3 DEF DiagnosisInv, ConclusionInv
<1>5. ASSUME NEW v \in verified', v.verification = "Supported",
             v.claim.diagnostic = "scheduling"
      PROVE  /\ v.claim.uid \in ToSet(scope)
             /\ IsTrueOf(world, v.claim)
             /\ \A e \in Window(world, v.claim.uid) :
                   Cited(world, v.claim.uid, e, v.claim.refs)
  <2> DEFINE c == v.claim
  <2>1. c \in claims /\ TrustedEvidence(c)
    <3>1. inTime
      BY <1>5 DEF VerifyCandidates
    <3>2. PICK d \in claims :
             v = [claim |-> d,
                  verification |->
                    IF resolution[d] # "ProposedClaim" \/ ~TrustedEvidence(d)
                    THEN "Skipped"
                    ELSE VerifyClaim(d.statement, {ref \in EvidenceRefs : ref.id \in d.refs})]
      BY <1>5, <3>1 DEF VerifyCandidates
    <3> QED BY <1>5, <3>2
  <2>2. PICK r \in AdaptedRecords : Readable(r) /\ c \in SchedulingClaims(r)
    BY <1>1, <1>5, <2>1 DEF DiagnosisInv, ConclusionInv
  <2>3. /\ world \in Worlds
        /\ r \in RecordType(world) /\ Honest(world, r) /\ Listed(world, r)
        /\ r.uid \in ToSet(scope)
    BY <1>1, AdaptedTyped DEF DiagnosisInv
  <2> DEFINE ref == [id |-> <<"pod", r.uid>>, kind |-> "scheduling",
                     truncated |-> r.truncated, uid |-> r.uid, text |-> r.scheduled]
  <2>4. ref \in SchedulingRefs(r) /\ ref.id = <<"pod", r.uid>> /\ ref.truncated = r.truncated
    BY DEF SchedulingRefs
  <2> HIDE DEF ref, c
  <2>5. <<"pod", r.uid>> \in c.refs
    <3> DEFINE refs == {q.id : q \in SchedulingRefs(r)}
    <3>1. c.refs = refs
      BY <2>2 DEF SchedulingClaims, Candidate
    <3>2. ref.id \in refs
      BY <2>4
    <3> HIDE DEF refs
    <3> QED BY <2>4, <3>1, <3>2
  <2>6. ~r.truncated
    <3>1. PICK i \in inventory : i.id = ref.id /\ i.incomplete = ref.truncated
      BY <1>1, <2>4 DEF DiagnosisInv, ConclusionInv
    <3>2. PICK j \in inventory : {k \in inventory : k.id = ref.id} = {j} /\ ~j.incomplete
      BY <2>1, <2>4, <2>5 DEF TrustedEvidence
    <3>3. i = j
      BY <3>1, <3>2
    <3> QED BY <2>4, <3>1, <3>2, <3>3
  <2>7. r.coverage = "Complete"
    BY <2>2, <2>3, <2>6, ReadableIsComplete
  <2>8. /\ c.uid = r.uid /\ IsTrueOf(world, c)
        /\ \A e \in Window(world, r.uid) : Cited(world, r.uid, e, c.refs)
    BY <2>2, <2>3, <2>7, CompleteClaimHolds
  <2> QED BY <2>3, <2>8 DEF c
<1>6. SupportedClaimsAreGrounded'
  <2>1. \A uid : InWindow(uid)' = Window(world, uid) /\ Pod(uid)' = PodAt(world, uid)
    BY <1>1 DEF InWindow, Window, Recognized, Pod, PodAt
  <2> QED BY <1>1, <1>5, <2>1 DEF SupportedClaimsAreGrounded, IsTrueOf, Cited
<1> QED BY <1>2, <1>4, <1>6 DEF DiagnosisInv

LEMMA DiagnosisBegins ==
  ASSUME DiagnosisInit
  PROVE  DiagnosisInv
<1> USE DEF DiagnosisInit, DiagnosisIdle
<1>1. world.pods \in Seq(Seq(PodType) \ {<<>>})
  BY WorldsAssumption
<1>2. \A n \in PodNames : Len(world.pods[n]) \in Nat /\ 1 <= Len(world.pods[n])
  BY <1>1 DEF PodNames
<1>3. InOrder(world, scope, records)
  BY DEF InOrder
<1>4. CollectionInv
  BY <1>2, <1>3 DEF CollectionInv
<1>5. ConclusionInv /\ SupportedClaimsAreGrounded
  BY DEF ConclusionInv, SupportedClaimsAreGrounded
<1> QED BY <1>4, <1>5 DEF DiagnosisInv

(* The collection's records are honest about the pods they were made for,  *)
(* whatever is replaced, assigned, cut or fails while they are read, and   *)
(* the conclusions are drawn from those records alone.                     *)
THEOREM DiagnosisInvariant == DiagnosisSpec => []DiagnosisInv
<1>1. DiagnosisInv /\ [DiagnosisNext]_diagnosisVars => DiagnosisInv'
  <2> SUFFICES ASSUME DiagnosisInv, [DiagnosisNext]_diagnosisVars PROVE DiagnosisInv'
    OBVIOUS
  <2>1. CASE UNCHANGED diagnosisVars
    <3>1. UNCHANGED <<world, live, assigned, step, scope, records, spent, listing,
                      claims, inventory, verified>>
      BY <2>1 DEF diagnosisVars, schedulingVars
    <3>2. CollectionInv' /\ ConclusionInv'
      BY <3>1 DEF DiagnosisInv, CollectionInv, PodNames, ConclusionInv, AdaptedRecords
    <3>3. SupportedClaimsAreGrounded'
      BY <3>1 DEF DiagnosisInv, SupportedClaimsAreGrounded, InWindow, Pod
    <3> QED BY <3>2, <3>3 DEF DiagnosisInv
  <2> QED
    BY <2>1, CollectionStepKeepsConclusion, EvaluateDiagnosticsKeepsInv,
       ReconcileCandidatesKeepsInv, VerifyCandidatesKeepsInv DEF DiagnosisNext
<1> QED BY <1>1, DiagnosisBegins, PTL DEF DiagnosisSpec

(* A scheduling claim that the verification finds supported is about a pod *)
(* of the target, true of that incarnation, and rests on all its           *)
(* scheduling events within the window, or on others that say the same:    *)
(* for every cluster, whichever event API its server lacks, whatever       *)
(* happens to its pods between the reads, every outcome of a read and      *)
(* every bound of the lists and the budget.                                *)
THEOREM SupportedGrounded == DiagnosisSpec => []SupportedClaimsAreGrounded
<1>1. DiagnosisInv => SupportedClaimsAreGrounded
  BY DEF DiagnosisInv
<1> QED BY <1>1, DiagnosisInvariant, PTL

-----------------------------------------------------------------------------
(* The collection plan.                                                    *)

IsList(s) == \E S : s \in Seq(S)

LEMMA AppendIsList ==
  ASSUME NEW s, IsList(s), NEW e
  PROVE  /\ IsList(Append(s, e)) /\ Len(s) \in Nat
         /\ Len(Append(s, e)) = Len(s) + 1
         /\ \A i \in 1 .. Len(s) : Append(s, e)[i] = s[i]
         /\ Append(s, e)[Len(s) + 1] = e
<1>1. PICK S : s \in Seq(S)
  BY DEF IsList
<1> DEFINE T == S \cup {e}
<1>2. s \in Seq(T) /\ e \in T
  BY <1>1
<1> HIDE DEF T
<1> QED BY <1>2 DEF IsList

LEMMA CountIsNat ==
  ASSUME NEW n \in Nat, NEW s, DOMAIN s = 1 .. n, NEW e
  PROVE  CountOf(s, e) \in Nat /\ IsFiniteSet({i \in DOMAIN s : s[i] = e})
<1>1. IsFiniteSet(1 .. n)
  BY FS_Interval
<1>2. IsFiniteSet({i \in DOMAIN s : s[i] = e})
  BY <1>1, FS_Subset
<1> QED BY <1>2, FS_CardinalityType DEF CountOf

\* One more element is counted once, for what it is.
LEMMA CountOneMore ==
  ASSUME NEW n \in Nat, NEW s, DOMAIN s = 1 .. n, NEW t, DOMAIN t = 1 .. n + 1,
         \A i \in 1 .. n : t[i] = s[i], NEW e
  PROVE  CountOf(t, e) = IF t[n + 1] = e THEN CountOf(s, e) + 1 ELSE CountOf(s, e)
<1> DEFINE S == {i \in DOMAIN s : s[i] = e}
           T == {i \in DOMAIN t : t[i] = e}
<1>1. T = IF t[n + 1] = e THEN S \cup {n + 1} ELSE S
  OBVIOUS
<1>2. n + 1 \notin S
  OBVIOUS
<1>3. IsFiniteSet(S)
  BY CountIsNat
<1>4. CountOf(s, e) = Cardinality(S) /\ CountOf(t, e) = Cardinality(T)
  BY DEF CountOf
<1> HIDE DEF S, T
<1>5. Cardinality(S \cup {n + 1}) = Cardinality(S) + 1
  BY <1>2, <1>3, FS_AddElement
<1> QED BY <1>1, <1>4, <1>5

(* Both loops: the i-th reference of spec.dataSources or of spec.queries.  *)
References(queries, spec) == IF queries THEN spec.queries ELSE spec.dataSources

AddReference(queries, reg, spec, plan, i) ==
    IF queries THEN AddQuery(reg, spec, plan, spec.queries[i])
    ELSE AddDefault(reg, spec, plan, spec.dataSources[i])

IsResolving(f, n, queries, reg, spec) ==
    f = [i \in 0 .. n |->
            IF i = 0 THEN Plan(<<>>, <<>>, Unset)
            ELSE AddReference(queries, reg, spec, f[i - 1], i)]

LEMMA ResolvingExists ==
  ASSUME NEW queries, NEW reg, NEW spec
  PROVE  \A n \in Nat : \E f : IsResolving(f, n, queries, reg, spec)
<1> DEFINE S == {n \in Nat : \E f : IsResolving(f, n, queries, reg, spec)}
           Next1(p, i) == AddReference(queries, reg, spec, p, i)
           empty == Plan(<<>>, <<>>, Unset)
<1>1. 0 \in S
  <2> DEFINE f == [i \in 0 .. 0 |-> empty]
  <2>1. IsResolving(f, 0, queries, reg, spec)
    BY DEF IsResolving
  <2> QED BY <2>1
<1>2. \A n \in Nat : n \in S => n + 1 \in S
  <2> SUFFICES ASSUME NEW n \in Nat, n \in S PROVE n + 1 \in S
    OBVIOUS
  <2>1. PICK f : IsResolving(f, n, queries, reg, spec)
    OBVIOUS
  <2> HIDE DEF empty
  <2> DEFINE g == [i \in 0 .. n + 1 |-> IF i = 0 THEN empty ELSE Next1(f[i - 1], i)]
  <2>2. \A i \in 0 .. n : f[i] = IF i = 0 THEN empty ELSE Next1(f[i - 1], i)
    BY <2>1 DEF IsResolving, empty
  <2>3. \A i \in 0 .. n : g[i] = f[i]
    BY <2>2
  <2>4. g = [i \in 0 .. n + 1 |-> IF i = 0 THEN empty ELSE Next1(g[i - 1], i)]
    <3>1. \A i \in 0 .. n + 1 : i # 0 => i - 1 \in 0 .. n
      OBVIOUS
    <3> QED BY <2>3, <3>1
  <2> HIDE DEF g
  <2>5. IsResolving(g, n + 1, queries, reg, spec)
    BY <2>4 DEF IsResolving, empty
  <2> QED BY <2>5
<1> HIDE DEF S
<1>3. Nat \subseteq S
  BY <1>1, <1>2, CountingUp
<1> QED BY <1>3 DEF S

LEMMA ResolvedIsLast ==
  ASSUME NEW reg, NEW spec, Len(spec.dataSources) \in Nat, Len(spec.queries) \in Nat
  PROVE  /\ \E f : /\ IsResolving(f, Len(spec.dataSources), FALSE, reg, spec)
                   /\ ResolveDefaultDatasourcePlan(reg, spec) = f[Len(spec.dataSources)]
         /\ \E f : /\ IsResolving(f, Len(spec.queries), TRUE, reg, spec)
                   /\ ResolveQueryPlan(reg, spec) = f[Len(spec.queries)]
<1>1. \E f : /\ IsResolving(f, Len(spec.dataSources), FALSE, reg, spec)
             /\ ResolveDefaultDatasourcePlan(reg, spec) = f[Len(spec.dataSources)]
  <2> DEFINE n == Len(spec.dataSources)
             Is(f) == f = [i \in 0 .. n |->
                             IF i = 0 THEN Plan(<<>>, <<>>, Unset)
                             ELSE AddDefault(reg, spec, f[i - 1], spec.dataSources[i])]
             f == CHOOSE f : Is(f)
  <2>1. \A g : Is(g) <=> IsResolving(g, n, FALSE, reg, spec)
    BY DEF IsResolving, AddReference
  <2>2. \E g : IsResolving(g, n, FALSE, reg, spec)
    BY ResolvingExists
  <2>3. \E g : Is(g)
    <3> HIDE DEF Is
    <3> QED BY <2>1, <2>2
  <2>4. ResolveDefaultDatasourcePlan(reg, spec) = f[n]
    BY Zenon DEF ResolveDefaultDatasourcePlan
  <2> HIDE DEF Is
  <2>5. Is(f)
    BY <2>3
  <2> QED BY <2>1, <2>4, <2>5
<1>2. \E f : /\ IsResolving(f, Len(spec.queries), TRUE, reg, spec)
             /\ ResolveQueryPlan(reg, spec) = f[Len(spec.queries)]
  <2> DEFINE n == Len(spec.queries)
             Is(f) == f = [i \in 0 .. n |->
                             IF i = 0 THEN Plan(<<>>, <<>>, Unset)
                             ELSE AddQuery(reg, spec, f[i - 1], spec.queries[i])]
             f == CHOOSE f : Is(f)
  <2>1. \A g : Is(g) <=> IsResolving(g, n, TRUE, reg, spec)
    BY DEF IsResolving, AddReference
  <2>2. \E g : IsResolving(g, n, TRUE, reg, spec)
    BY ResolvingExists
  <2>3. \E g : Is(g)
    <3> HIDE DEF Is
    <3> QED BY <2>1, <2>2
  <2>4. ResolveQueryPlan(reg, spec) = f[n]
    BY Zenon DEF ResolveQueryPlan
  <2> HIDE DEF Is
  <2>5. Is(f)
    BY <2>3
  <2> QED BY <2>1, <2>4, <2>5
<1> QED BY <1>1, <1>2

\* The issues of a plan are not the absence of one.
LEMMA IssuesAreSet ==
  /\ "DataSourceNotFound" # Unset /\ "CapabilityMismatch" # Unset
  /\ "QueryPolicyRejected" # Unset /\ "QueryTemplateInvalid" # Unset
  /\ "QueryBudgetExceeded" # Unset
BY Zenon DEF Unset

IsPlan(plan) == plan = Plan(plan.names, plan.steps, plan.issue)

\* An issue leaves a plan with that issue.
LEMMA WithIssue ==
  ASSUME NEW plan, IsPlan(plan), NEW issue
  PROVE  \A r : r = [plan EXCEPT !.issue = issue] => IsPlan(r) /\ r.issue = issue
<1>1. [plan EXCEPT !.issue = issue] = Plan(plan.names, plan.steps, issue)
  BY DEF IsPlan, Plan
<1> QED BY <1>1 DEF IsPlan, Plan

\* A reference without an issue adds one step, for the source it names.
LEMMA ReferenceAdds ==
  ASSUME NEW queries \in BOOLEAN, NEW reg, NEW spec, NEW plan, NEW i, IsPlan(plan)
  PROVE  \A r : r = AddReference(queries, reg, spec, plan, i) =>
           /\ IsPlan(r)
           /\ r.issue = Unset =>
                /\ plan.issue = Unset
                /\ \E added : /\ r.steps = Append(plan.steps, added)
                              /\ queries => added.source = spec.queries[i].source
<1> DEFINE r == AddReference(queries, reg, spec, plan, i)
<1> SUFFICES /\ IsPlan(r)
             /\ r.issue = Unset =>
                  /\ plan.issue = Unset
                  /\ \E added : /\ r.steps = Append(plan.steps, added)
                                /\ queries => added.source = spec.queries[i].source
  OBVIOUS
<1>1. CASE queries
  <2> DEFINE q == spec.queries[i]
             text == IF q.kind = "none" THEN DefaultText(q.type) ELSE q.text
             added == [source |-> q.source, type |-> q.type, text |-> text,
                      template |-> q.name, fromTemplate |-> q.kind = "template",
                      reasons |-> q.reasons]
             names == IF q.source \in ToSet(plan.names) THEN plan.names
                      ELSE Append(plan.names, q.source)
             full == Plan(names, Append(plan.steps, added), plan.issue)
  <2>1. r = AddQuery(reg, spec, plan, q)
    BY <1>1 DEF AddReference
  <2>2. \/ r = plan /\ plan.issue \notin {Unset, "DataSourceNotFound"}
        \/ r = [plan EXCEPT !.issue = "DataSourceNotFound"]
        \/ r = [plan EXCEPT !.issue = "CapabilityMismatch"]
        \/ r = [plan EXCEPT !.issue = "QueryTemplateInvalid"]
        \/ r = [plan EXCEPT !.issue = "QueryPolicyRejected"]
        \/ r = full
    BY <2>1, Zenon DEF AddQuery
  <2>3. added.source = q.source
    OBVIOUS
  <2> HIDE DEF added, names, r
  <2>4. CASE r = full
    BY <2>3, <2>4 DEF IsPlan, Plan
  <2>5. CASE r = plan /\ plan.issue \notin {Unset, "DataSourceNotFound"}
    BY <2>5
  <2>6. CASE \E issue \in {"DataSourceNotFound", "CapabilityMismatch", "QueryTemplateInvalid",
                           "QueryPolicyRejected"} : r = [plan EXCEPT !.issue = issue]
    <3>1. PICK issue \in {"DataSourceNotFound", "CapabilityMismatch", "QueryTemplateInvalid",
                          "QueryPolicyRejected"} : r = [plan EXCEPT !.issue = issue]
      BY <2>6
    <3>2. IsPlan(r) /\ r.issue = issue
      BY <3>1, WithIssue
    <3> QED BY <3>2, IssuesAreSet
  <2> QED BY <2>2, <2>4, <2>5, <2>6
<1>2. CASE ~ queries
  <2> DEFINE name == spec.dataSources[i]
             added == DefaultStep(reg[name])
             full == Plan(Append(plan.names, name), Append(plan.steps, added), plan.issue)
  <2>1. r = AddDefault(reg, spec, plan, name)
    BY <1>2 DEF AddReference
  <2>2. \/ r = plan /\ plan.issue \notin {Unset, "DataSourceNotFound"}
        \/ r = [plan EXCEPT !.issue = "DataSourceNotFound"]
        \/ r = [plan EXCEPT !.issue = "CapabilityMismatch"]
        \/ r = [plan EXCEPT !.issue = "QueryPolicyRejected"]
        \/ r = full
    BY <2>1, Zenon DEF AddDefault
  <2> HIDE DEF added, name, r
  <2>4. CASE r = full
    BY <1>2, <2>4 DEF IsPlan, Plan
  <2>5. CASE r = plan /\ plan.issue \notin {Unset, "DataSourceNotFound"}
    BY <2>5
  <2>6. CASE \E issue \in {"DataSourceNotFound", "CapabilityMismatch", "QueryTemplateInvalid",
                           "QueryPolicyRejected"} : r = [plan EXCEPT !.issue = issue]
    <3>1. PICK issue \in {"DataSourceNotFound", "CapabilityMismatch", "QueryTemplateInvalid",
                          "QueryPolicyRejected"} : r = [plan EXCEPT !.issue = issue]
      BY <2>6
    <3>2. IsPlan(r) /\ r.issue = issue
      BY <3>1, WithIssue
    <3> QED BY <3>2, IssuesAreSet
  <2> QED BY <2>2, <2>4, <2>5, <2>6
<1> QED BY <1>1, <1>2

\* A plan without an issue has one step for each of the first n references.
Follows(plan, n, queries, spec) ==
    plan.issue = Unset =>
        /\ IsList(plan.steps) /\ Len(plan.steps) = n
        /\ queries => \A j \in 1 .. n : plan.steps[j].source = spec.queries[j].source

LEMMA ResolvingFollows ==
  ASSUME NEW queries \in BOOLEAN, NEW reg, NEW spec, NEW k \in Nat, NEW f,
         IsResolving(f, k, queries, reg, spec)
  PROVE  IsPlan(f[k]) /\ Follows(f[k], k, queries, spec)
<1> DEFINE Good(n) == IsPlan(f[n]) /\ Follows(f[n], n, queries, spec)
           G == {n \in Nat : n <= k => Good(n)}
<1>1. \A n \in 0 .. k :
         f[n] = IF n = 0 THEN Plan(<<>>, <<>>, Unset)
                ELSE AddReference(queries, reg, spec, f[n - 1], n)
  BY DEF IsResolving
<1>2. 0 \in G
  <2>1. f[0] = Plan(<<>>, <<>>, Unset)
    BY <1>1
  <2>2. <<>> \in Seq({})
    OBVIOUS
  <2>3. Good(0)
    BY <2>1, <2>2 DEF IsPlan, Follows, Plan, IsList
  <2> HIDE DEF Good
  <2> QED BY <2>3
<1>3. \A n \in Nat : n \in G => n + 1 \in G
  <2> SUFFICES ASSUME NEW n \in Nat, n \in G, n + 1 <= k PROVE Good(n + 1)
    OBVIOUS
  <2>1. Good(n)
    OBVIOUS
  <2> DEFINE p == f[n]
             r == f[n + 1]
  <2>2. r = AddReference(queries, reg, spec, p, n + 1)
    BY <1>1
  <2>3. /\ IsPlan(r)
        /\ r.issue = Unset =>
             /\ p.issue = Unset
             /\ \E added : /\ r.steps = Append(p.steps, added)
                           /\ queries => added.source = spec.queries[n + 1].source
    BY <2>1, <2>2, ReferenceAdds
  <2>4. ASSUME r.issue = Unset
        PROVE  /\ IsList(r.steps) /\ Len(r.steps) = n + 1
               /\ queries => \A j \in 1 .. n + 1 :
                                r.steps[j].source = spec.queries[j].source
    <3>1. PICK added : /\ r.steps = Append(p.steps, added)
                       /\ queries => added.source = spec.queries[n + 1].source
      BY <2>3, <2>4
    <3>2. /\ IsList(p.steps) /\ Len(p.steps) = n
          /\ queries => \A j \in 1 .. n : p.steps[j].source = spec.queries[j].source
      BY <2>1, <2>3, <2>4 DEF Follows
    <3> HIDE DEF p, r
    <3>3. /\ IsList(r.steps) /\ Len(r.steps) = n + 1
          /\ \A j \in 1 .. n : r.steps[j] = p.steps[j]
          /\ r.steps[n + 1] = added
      BY <3>1, <3>2, AppendIsList
    <3>4. ASSUME queries, NEW j \in 1 .. n + 1
          PROVE  r.steps[j].source = spec.queries[j].source
      <4>1. CASE j = n + 1
        BY <3>1, <3>3, <3>4, <4>1
      <4>2. CASE j \in 1 .. n
        BY <3>2, <3>3, <3>4, <4>2
      <4> QED BY <4>1, <4>2
    <3> QED BY <3>3, <3>4
  <2> QED BY <2>3, <2>4 DEF Follows
<1> HIDE DEF G
<1>4. Nat \subseteq G
  BY <1>2, <1>3, CountingUp
<1>5. k \in G
  BY <1>4
<1> QED BY <1>5 DEF G

(* What the budget means for a plan: maxQueriesTotal always, and           *)
(* maxQueriesPerSource where the queries are spelled out.                  *)
Fits(spec, plan) ==
    /\ IsPlan(plan) /\ IsList(plan.steps)
    /\ spec.budget.total > 0 => Len(plan.steps) <= spec.budget.total
    /\ spec.budget.perSource > 0 /\ spec.queries # <<>> =>
          \A n \in Names : CountOf(Steps(plan), n) <= spec.budget.perSource

LEMMA SpecTyped ==
  ASSUME NEW spec \in Requests
  PROVE  /\ spec.dataSources \in Seq(STRING) /\ Len(spec.dataSources) \in Nat
         /\ spec.queries \in Seq(QuerySpec) /\ Len(spec.queries) \in Nat
         /\ spec.budget.total \in Int /\ spec.budget.perSource \in Int
<1>1. /\ spec.dataSources \in Seq(STRING)
      /\ spec.queries \in Seq(QuerySpec)
      /\ spec.budget \in [total : Int, perSource : Int, concurrent : Int, timeRange : Int]
  BY RequestsAssumption
<1> HIDE DEF QuerySpec
<1> QED BY <1>1

\* The references of a valid spec are its datasources or its queries, not both.
LEMMA ValidReferences ==
  ASSUME NEW spec \in Requests, SpecValid(spec)
  PROVE  /\ spec.queries # <<>> =>
              ReferencedNames(spec) = [i \in 1 .. Len(spec.queries) |-> spec.queries[i].source]
         /\ spec.queries = <<>> => ReferencedNames(spec) = spec.dataSources
         /\ spec.budget.total > 0 => Len(ReferencedNames(spec)) <= spec.budget.total
         /\ spec.budget.perSource > 0 =>
              \A n \in Names : CountOf(ReferencedNames(spec), n) <= spec.budget.perSource
<1>1. (spec.dataSources = <<>>) # (spec.queries = <<>>) /\ BudgetValid(spec)
  BY DEF SpecValid
<1>2. /\ spec.budget.total > 0 => Len(ReferencedNames(spec)) <= spec.budget.total
      /\ spec.budget.perSource > 0 =>
              \A n \in Names : CountOf(ReferencedNames(spec), n) <= spec.budget.perSource
  BY <1>1, Zenon DEF BudgetValid
<1> DEFINE sources == [i \in DOMAIN spec.queries |-> spec.queries[i].source]
<1>3. ReferencedNames(spec) = spec.dataSources \o sources
  BY DEF ReferencedNames
<1>4. spec.dataSources \in Seq(STRING) /\ spec.queries \in Seq(QuerySpec)
  BY SpecTyped
<1>5. /\ \A i \in DOMAIN spec.queries : spec.queries[i].source \in STRING
      /\ Len(spec.queries) \in Nat /\ DOMAIN spec.queries = 1 .. Len(spec.queries)
  <2>1. \A q \in QuerySpec : q.source \in STRING
    BY DEF QuerySpec
  <2> QED BY <1>4, <2>1
<1>6. sources \in Seq(STRING) /\ Len(sources) = Len(spec.queries)
  <2> HIDE DEF QuerySpec
  <2> QED BY <1>5
<1>7. CASE spec.queries # <<>>
  <2>1. spec.dataSources = <<>>
    BY <1>1, <1>7
  <2> HIDE DEF sources
  <2>2. <<>> \o sources = sources
    BY <1>6
  <2>3. sources = [i \in 1 .. Len(spec.queries) |-> spec.queries[i].source]
    BY <1>5 DEF sources
  <2> QED BY <1>2, <1>3, <1>7, <2>1, <2>2, <2>3
<1>8. CASE spec.queries = <<>>
  <2> HIDE DEF sources
  <2>1. sources = <<>>
    BY <1>6, <1>8
  <2>2. spec.dataSources \o <<>> = spec.dataSources
    BY <1>4
  <2> QED BY <1>2, <1>3, <1>8, <2>1, <2>2
<1> QED BY <1>7, <1>8

LEMMA ListDomain ==
  ASSUME NEW s, IsList(s)
  PROVE  Len(s) \in Nat /\ DOMAIN s = 1 .. Len(s) /\ s = [i \in 1 .. Len(s) |-> s[i]]
<1>1. PICK S : s \in Seq(S)
  BY DEF IsList
<1> QED BY <1>1

\* The plan of a valid spec, before anything is added to it, fits.
LEMMA ResolvedFits ==
  ASSUME NEW spec \in Requests, NEW reg, SpecValid(spec)
  PROVE  LET plan == IF spec.queries # <<>> THEN ResolveQueryPlan(reg, spec)
                     ELSE ResolveDefaultDatasourcePlan(reg, spec)
         IN  IsPlan(plan) /\ (plan.issue = Unset => Fits(spec, plan))
<1> DEFINE queries == spec.queries # <<>>
           plan == IF queries THEN ResolveQueryPlan(reg, spec)
                   ELSE ResolveDefaultDatasourcePlan(reg, spec)
           k == IF queries THEN Len(spec.queries) ELSE Len(spec.dataSources)
<1> SUFFICES IsPlan(plan) /\ (plan.issue = Unset => Fits(spec, plan))
  OBVIOUS
<1>1. Len(spec.queries) \in Nat /\ Len(spec.dataSources) \in Nat /\ k \in Nat
  BY SpecTyped
<1>2. \E f : IsResolving(f, k, queries, reg, spec) /\ plan = f[k]
  <2>1. CASE queries
    BY <1>1, <2>1, ResolvedIsLast
  <2>2. CASE ~ queries
    BY <1>1, <2>2, ResolvedIsLast
  <2> QED BY <2>1, <2>2
<1>3. IsPlan(plan) /\ Follows(plan, k, queries, spec)
  BY <1>1, <1>2, ResolvingFollows
<1>4. ASSUME plan.issue = Unset PROVE Fits(spec, plan)
  <2>1. /\ IsList(plan.steps) /\ Len(plan.steps) = k
        /\ queries => \A j \in 1 .. k : plan.steps[j].source = spec.queries[j].source
    BY <1>3, <1>4 DEF Follows
  <2> HIDE DEF plan
  <2>2. DOMAIN plan.steps = 1 .. k
    BY <2>1, ListDomain
  <2>3. Len(ReferencedNames(spec)) = k
    <3>1. CASE queries
      BY <1>1, <3>1, ValidReferences
    <3>2. CASE ~ queries
      BY <1>1, <3>2, ValidReferences
    <3> QED BY <3>1, <3>2
  <2>4. queries => Steps(plan) = ReferencedNames(spec)
    <3>1. queries => Steps(plan) = [j \in 1 .. k |-> spec.queries[j].source]
      BY <2>1, <2>2 DEF Steps
    <3>2. queries => ReferencedNames(spec) = [j \in 1 .. k |-> spec.queries[j].source]
      BY ValidReferences
    <3> QED BY <3>1, <3>2
  <2>5. spec.budget.total > 0 => Len(plan.steps) <= spec.budget.total
    BY <2>1, <2>3, ValidReferences
  <2>6. spec.budget.perSource > 0 /\ queries =>
           \A n \in Names : CountOf(Steps(plan), n) <= spec.budget.perSource
    BY <2>4, ValidReferences
  <2> QED BY <1>3, <2>1, <2>5, <2>6 DEF Fits
<1> QED BY <1>3, <1>4

\* The names of a list with one more.
LEMMA OneMoreFits ==
  ASSUME NEW spec \in Requests, NEW plan, Fits(spec, plan), NEW from,
         WithinBudget(spec.budget, plan, from), NEW names,
         DOMAIN names = 1 .. Len(plan.steps) + 1,
         \A i \in 1 .. Len(plan.steps) : names[i] = Steps(plan)[i],
         names[Len(plan.steps) + 1] = from
  PROVE  /\ spec.budget.total > 0 => Len(plan.steps) + 1 <= spec.budget.total
         /\ spec.budget.perSource > 0 /\ spec.queries # <<>> =>
              \A n \in Names : CountOf(names, n) <= spec.budget.perSource
<1> DEFINE k == Len(plan.steps)
<1>1. k \in Nat /\ DOMAIN plan.steps = 1 .. k
  BY ListDomain DEF Fits
<1>2. DOMAIN Steps(plan) = 1 .. k
  BY <1>1 DEF Steps
<1>3. \A n : CountOf(names, n) = IF from = n THEN CountOf(Steps(plan), n) + 1
                                 ELSE CountOf(Steps(plan), n)
  <2> HIDE DEF k
  <2> QED BY <1>1, <1>2, CountOneMore DEF k
<1> QED BY <1>3 DEF Fits, WithinBudget

LEMMA StepsOf ==
  ASSUME NEW plan, IsList(plan.steps)
  PROVE  /\ Len(plan.steps) \in Nat /\ DOMAIN plan.steps = 1 .. Len(plan.steps)
         /\ DOMAIN Steps(plan) = 1 .. Len(plan.steps)
         /\ \A i \in 1 .. Len(plan.steps) : Steps(plan)[i] = plan.steps[i].source
BY ListDomain DEF Steps

\* CrashLoopBackOffV2 keeps a plan within the budget.
LEMMA TerminationFits ==
  ASSUME NEW spec \in Requests, NEW reg, NEW plan, Fits(spec, plan), plan.issue = Unset
  PROVE  \A r : r = AddTermination(reg, spec, plan) /\ r.issue = Unset => Fits(spec, r)
<1> DEFINE events == "kubernetes-events"
           Narrow(i) == IF /\ spec.queries = <<>>
                           /\ plan.steps[i].source = events
                           /\ plan.steps[i].type = "event"
                           /\ plan.steps[i].reasons = {}
                        THEN [plan.steps[i] EXCEPT !.reasons = {"BackOff"}]
                        ELSE plan.steps[i]
           steps == [i \in DOMAIN plan.steps |-> Narrow(i)]
           narrowed == [plan EXCEPT !.steps = steps]
           added == [source |-> reg[events].name, type |-> "containerTermination",
                    text |-> DefaultText("containerTermination"),
                    template |-> "container-termination-status",
                    fromTemplate |-> FALSE, reasons |-> {}]
           names == IF added.source \in ToSet(plan.names) THEN plan.names
                    ELSE Append(plan.names, added.source)
           k == Len(plan.steps)
<1> SUFFICES ASSUME NEW r, r = AddTermination(reg, spec, plan), r.issue = Unset
             PROVE  Fits(spec, r)
  OBVIOUS
<1>1. \/ r = narrowed
      \/ r = [narrowed EXCEPT !.issue = "DataSourceNotFound"]
      \/ r = [narrowed EXCEPT !.issue = "CapabilityMismatch"]
      \/ r = [narrowed EXCEPT !.issue = "QueryBudgetExceeded"]
      \/ /\ WithinBudget(spec.budget, plan, reg[events].name)
         /\ r = Plan(names, Append(narrowed.steps, added), Unset)
  BY Zenon DEF AddTermination
<1>2. k \in Nat /\ DOMAIN plan.steps = 1 .. k /\ DOMAIN Steps(plan) = 1 .. k
  BY StepsOf DEF Fits
<1>3. added.source = reg[events].name
  OBVIOUS
<1>4. spec.queries # <<>> => \A i \in DOMAIN plan.steps : Narrow(i) = plan.steps[i]
  OBVIOUS
<1> HIDE DEF Narrow, added, names
<1>5. steps \in Seq({Narrow(i) : i \in 1 .. k}) /\ Len(steps) = k
  <2>1. /\ DOMAIN steps = 1 .. k /\ steps = [i \in DOMAIN steps |-> steps[i]]
        /\ \A i \in 1 .. k : steps[i] \in {Narrow(j) : j \in 1 .. k}
    BY <1>2
  <2> HIDE DEF steps
  <2> QED BY <1>2, <2>1, ListOf
<1>6. IsList(steps) /\ DOMAIN steps = 1 .. k
  BY <1>2, <1>5 DEF IsList
<1>7. spec.queries # <<>> => \A i \in 1 .. k : steps[i].source = Steps(plan)[i]
  BY <1>2, <1>4 DEF Steps
<1> HIDE DEF steps
<1>8. narrowed = Plan(plan.names, steps, Unset)
  BY DEF Fits, IsPlan, Plan
<1> HIDE DEF narrowed
<1>9. CASE r = narrowed
  <2>1. r = Plan(plan.names, steps, Unset) /\ r.steps = steps /\ IsPlan(r)
    BY <1>8, <1>9 DEF Plan, IsPlan
  <2>2. spec.queries # <<>> => Steps(r) = Steps(plan)
    <3>1. Steps(r) = [i \in 1 .. k |-> steps[i].source]
      BY <1>6, <2>1 DEF Steps
    <3>2. Steps(plan) = [i \in 1 .. k |-> Steps(plan)[i]]
      BY <1>2 DEF Steps
    <3> QED BY <1>7, <3>1, <3>2
  <2> QED BY <1>5, <1>6, <2>1, <2>2 DEF Fits
<1>10. CASE /\ WithinBudget(spec.budget, plan, reg[events].name)
            /\ r = Plan(names, Append(narrowed.steps, added), Unset)
  <2>1. r.steps = Append(steps, added) /\ IsPlan(r)
    BY <1>8, <1>10 DEF Plan, IsPlan
  <2>2. /\ IsList(r.steps) /\ Len(r.steps) = k + 1
        /\ \A i \in 1 .. k : r.steps[i] = steps[i]
        /\ r.steps[k + 1] = added
    BY <1>5, <1>6, <2>1, AppendIsList
  <2>3. /\ DOMAIN Steps(r) = 1 .. k + 1
        /\ \A i \in 1 .. k + 1 : Steps(r)[i] = r.steps[i].source
    BY <2>2, StepsOf
  <2>4. Steps(r)[k + 1] = reg[events].name
    BY <1>2, <1>3, <2>2, <2>3
  <2>5. spec.queries # <<>> => \A i \in 1 .. k : Steps(r)[i] = Steps(plan)[i]
    BY <1>2, <1>7, <2>2, <2>3
  <2>6. spec.budget.total > 0 => k + 1 <= spec.budget.total
    BY <1>10 DEF WithinBudget
  <2>7. CASE spec.queries # <<>>
    <3>1. spec.budget.perSource > 0 /\ spec.queries # <<>> =>
             \A n \in Names : CountOf(Steps(r), n) <= spec.budget.perSource
      BY <1>2, <1>10, <2>3, <2>4, <2>5, <2>7, OneMoreFits
    <3> QED BY <2>1, <2>2, <2>6, <3>1 DEF Fits
  <2>8. CASE spec.queries = <<>>
    BY <2>1, <2>2, <2>6, <2>8 DEF Fits
  <2> QED BY <2>7, <2>8
<1>11. CASE \E issue \in {"DataSourceNotFound", "CapabilityMismatch", "QueryBudgetExceeded"} :
              r = [narrowed EXCEPT !.issue = issue]
  <2>1. IsPlan(narrowed)
    BY <1>8 DEF IsPlan, Plan
  <2>2. PICK issue \in {"DataSourceNotFound", "CapabilityMismatch", "QueryBudgetExceeded"} :
              r = [narrowed EXCEPT !.issue = issue]
    BY <1>11
  <2>3. r.issue = issue
    BY <2>1, <2>2, WithIssue
  <2> QED BY <2>3, IssuesAreSet
<1> QED BY <1>1, <1>9, <1>10, <1>11

LEMMA PreflightFits ==
  ASSUME NEW spec \in Requests, NEW reg, SpecValid(spec)
  PROVE  \A r : r = ResolveCollectionPlan(reg, spec) /\ r.issue = Unset => Fits(spec, r)
<1> DEFINE plan == IF spec.queries # <<>> THEN ResolveQueryPlan(reg, spec)
                   ELSE ResolveDefaultDatasourcePlan(reg, spec)
<1> SUFFICES ASSUME NEW r, r = ResolveCollectionPlan(reg, spec), r.issue = Unset
             PROVE  Fits(spec, r)
  OBVIOUS
<1>1. IsPlan(plan) /\ (plan.issue = Unset => Fits(spec, plan))
  BY ResolvedFits
<1>2. r = IF plan.issue # Unset \/ spec.profile # "CrashLoopBackOffV2" THEN plan
          ELSE AddTermination(reg, spec, plan)
  BY Zenon DEF ResolveCollectionPlan
<1> HIDE DEF plan
<1>3. CASE r = plan
  BY <1>1, <1>3
<1>4. CASE r = AddTermination(reg, spec, plan) /\ plan.issue = Unset
  BY <1>1, <1>4, TerminationFits
<1> QED BY <1>2, <1>3, <1>4

-----------------------------------------------------------------------------
(* The investigation.  The plan that passed the preflight fits, whatever   *)
(* becomes of the registry it was resolved against, and nothing is sent    *)
(* before the collection.                                                  *)
PlanInv ==
    /\ request \in Requests
    /\ planStage = "collect" => Fits(request, resolved)
    /\ planStage # "collected" => asked = <<>>
    /\ QueriesWithinBudget

LEMMA NothingSent ==
  ASSUME request \in Requests, asked = <<>>
  PROVE  QueriesWithinBudget
<1>1. /\ request.budget.total \in Int /\ request.budget.perSource \in Int
  BY SpecTyped
<1> DEFINE names == [i \in DOMAIN asked |-> asked[i].source]
<1>2. DOMAIN names = {} /\ Len(asked) = 0
  OBVIOUS
<1> HIDE DEF names
<1>3. \A n : CountOf(names, n) = 0
  <2>1. \A n : {i \in DOMAIN names : names[i] = n} = {}
    BY <1>2
  <2> QED BY <2>1, FS_EmptySet DEF CountOf
<1> QED BY <1>1, <1>2, <1>3 DEF QueriesWithinBudget, names

LEMMA PreflightKeepsInv ==
  ASSUME PlanInv, Preflight
  PROVE  PlanInv'
<1>1. request' = request /\ asked' = asked /\ request \in Requests /\ asked = <<>>
  BY DEF PlanInv, Preflight
<1>2. planStage' = "collect" => Fits(request, resolved)'
  <2> SUFFICES ASSUME planStage' = "collect" PROVE Fits(request, resolved')
    BY <1>1, Zenon DEF Fits
  <2>1. SpecValid(request) /\ resolved'.issue = Unset
    BY DEF Preflight
  <2>2. resolved' = ResolveCollectionPlan(registry, request)
    BY DEF Preflight
  <2> QED BY <1>1, <2>1, <2>2, PreflightFits
<1>3. QueriesWithinBudget'
  BY <1>1 DEF PlanInv, QueriesWithinBudget
<1> QED BY <1>1, <1>2, <1>3 DEF PlanInv

\* The collector is asked only when one more query is within the budget.
LEMMA CollectorWithinBudget ==
  ASSUME NEW spec, NEW reg, NEW plan, NEW c, c = SchedulingCollector(reg, spec, plan),
         c # Unset
  PROVE  WithinBudget(spec.budget, plan, c)
BY Zenon DEF SchedulingCollector

LEMMA CollectEvidenceKeepsInv ==
  ASSUME PlanInv, CollectEvidence
  PROVE  PlanInv'
<1>1. /\ request' = request /\ resolved' = resolved /\ request \in Requests
      /\ Fits(request, resolved) /\ asked = <<>> /\ planStage = "collect"
  BY DEF PlanInv, CollectEvidence
<1> DEFINE collector == SchedulingCollector(registry, request, resolved)
           queries == [i \in DOMAIN resolved.steps |-> Sent(resolved.steps[i])]
           k == Len(resolved.steps)
<1>2. \/ planStage' = "failed" /\ asked' = asked
      \/ /\ planStage' = "collected"
         /\ asked' = IF collector = Unset THEN queries
                     ELSE Append(queries, [source |-> collector, type |-> "scheduling"])
  BY Zenon DEF CollectEvidence
<1>3. CASE planStage' = "failed" /\ asked' = asked
  <2>1. QueriesWithinBudget'
    BY <1>1, <1>3 DEF PlanInv, QueriesWithinBudget
  <2> QED BY <1>1, <1>3, <2>1 DEF PlanInv
<1>4. CASE /\ planStage' = "collected"
           /\ asked' = IF collector = Unset THEN queries
                       ELSE Append(queries, [source |-> collector, type |-> "scheduling"])
  <2> DEFINE names == [i \in DOMAIN asked' |-> asked'[i].source]
  <2> SUFFICES /\ request.budget.total > 0 => Len(asked') <= request.budget.total
               /\ request.budget.perSource > 0 /\ request.queries # <<>> =>
                    \A n \in Names : CountOf(names, n) <= request.budget.perSource
    BY <1>1, <1>4 DEF PlanInv, QueriesWithinBudget
  <2>1. /\ k \in Nat /\ DOMAIN resolved.steps = 1 .. k
        /\ DOMAIN Steps(resolved) = 1 .. k
        /\ \A i \in 1 .. k : Steps(resolved)[i] = resolved.steps[i].source
    BY <1>1, StepsOf DEF Fits
  <2>2. /\ DOMAIN queries = 1 .. k /\ queries = [i \in DOMAIN queries |-> queries[i]]
        /\ \A i \in 1 .. k : queries[i].source = Steps(resolved)[i]
    BY <2>1 DEF Sent
  <2> HIDE DEF queries, k, collector
  <2>3. IsList(queries) /\ Len(queries) = k
    <3> DEFINE S == {queries[i] : i \in 1 .. k}
    <3>1. \A i \in 1 .. k : queries[i] \in S
      OBVIOUS
    <3> HIDE DEF S
    <3>2. queries \in Seq(S) /\ Len(queries) = k
      BY <2>1, <2>2, <3>1, ListOf
    <3> QED BY <3>2 DEF IsList
  <2>4. CASE collector = Unset
    <3>1. asked' = queries
      BY <1>4, <2>4
    <3>2. names = Steps(resolved)
      <4>1. names = [i \in 1 .. k |-> Steps(resolved)[i]]
        BY <2>2, <3>1
      <4>2. Steps(resolved) = [i \in 1 .. k |-> Steps(resolved)[i]]
        BY <2>1 DEF Steps
      <4> QED BY <4>1, <4>2
    <3> HIDE DEF names
    <3> QED BY <1>1, <2>3, <3>1, <3>2 DEF Fits, k
  <2>5. CASE collector # Unset
    <3> DEFINE last == [source |-> collector, type |-> "scheduling"]
    <3>1. asked' = Append(queries, last) /\ last.source = collector
      BY <1>4, <2>5
    <3> HIDE DEF last
    <3>2. /\ IsList(asked') /\ Len(asked') = k + 1
          /\ \A i \in 1 .. k : asked'[i] = queries[i]
          /\ asked'[k + 1] = last
      BY <2>3, <3>1, AppendIsList
    <3>3. DOMAIN asked' = 1 .. k + 1
      BY <3>2, ListDomain
    <3>4. /\ DOMAIN names = 1 .. k + 1
          /\ \A i \in 1 .. k : names[i] = Steps(resolved)[i]
          /\ names[k + 1] = collector
      BY <2>1, <2>2, <3>1, <3>2, <3>3
    <3> HIDE DEF names
    <3>5. WithinBudget(request.budget, resolved, collector)
      BY <2>5, CollectorWithinBudget DEF collector
    <3>6. /\ DOMAIN names = 1 .. Len(resolved.steps) + 1
          /\ \A i \in 1 .. Len(resolved.steps) : names[i] = Steps(resolved)[i]
          /\ names[Len(resolved.steps) + 1] = collector
      BY <3>4 DEF k
    <3>7. /\ request.budget.total > 0 => Len(resolved.steps) + 1 <= request.budget.total
          /\ request.budget.perSource > 0 /\ request.queries # <<>> =>
               \A n \in Names : CountOf(names, n) <= request.budget.perSource
      BY <1>1, <3>5, <3>6, OneMoreFits
    <3>8. Len(asked') = Len(resolved.steps) + 1
      BY <3>2 DEF k
    <3> QED BY <3>7, <3>8
  <2> QED BY <2>4, <2>5
<1> QED BY <1>2, <1>3, <1>4

\* The registry is not part of the invariant.
LEMMA RegistryKeepsInv ==
  ASSUME PlanInv, UNCHANGED <<request, planStage, resolved, asked>>
  PROVE  PlanInv'
<1>1. /\ request' = request /\ planStage' = planStage /\ resolved' = resolved
      /\ asked' = asked
  OBVIOUS
<1>2. QueriesWithinBudget'
  BY <1>1 DEF PlanInv, QueriesWithinBudget
<1> QED BY <1>1, <1>2 DEF PlanInv

(* Every reachable state of an investigation's collection satisfies the    *)
(* invariant, for every set of DataSources and requests: those that        *)
(* validateInvestigationRequestSpecIssue accepts are planned and           *)
(* collected within their budget.                                          *)
THEOREM PlanInvariant == PlanSpec => []PlanInv
<1>1. PlanInit => PlanInv
  BY NothingSent DEF PlanInit, PlanInv
<1>2. PlanInv /\ [PlanNext]_planVars => PlanInv'
  <2> SUFFICES ASSUME PlanInv, [PlanNext]_planVars PROVE PlanInv'
    OBVIOUS
  <2>1. CASE Preflight
    BY <2>1, PreflightKeepsInv
  <2>2. CASE CollectEvidence
    BY <2>2, CollectEvidenceKeepsInv
  <2>3. CASE \E name \in Names : DataSourceDeleted(name)
    BY <2>3, RegistryKeepsInv DEF DataSourceDeleted
  <2>4. CASE \E name \in Names, s \in Sources : ReconcileDataSource(name, s)
    BY <2>4, RegistryKeepsInv DEF ReconcileDataSource
  <2>5. CASE UNCHANGED planVars
    BY <2>5, RegistryKeepsInv DEF planVars
  <2> QED BY <2>1, <2>2, <2>3, <2>4, <2>5 DEF PlanNext
<1> QED BY <1>1, <1>2, PTL DEF PlanSpec

(* An investigation never sends more queries than its budget allows, in    *)
(* total and, when the queries are spelled out, to a datasource: whatever  *)
(* is added to the plan after it was validated, and however DataSources    *)
(* come and go between the preflight and the collection.                   *)
THEOREM BudgetKept == PlanSpec => []QueriesWithinBudget
<1>1. PlanInv => QueriesWithinBudget
  BY DEF PlanInv
<1> QED BY <1>1, PlanInvariant, PTL

-----------------------------------------------------------------------------
(* The concurrent collection.  The results come in some order; what they   *)
(* add up to is what asking in that order adds up to, unless the caller    *)
(* gave up.                                                                *)

IsSumming(f, n, r) ==
    f = [i \in 0 .. n |->
            IF i = 0 THEN Sequentially!Nothing
            ELSE Sequentially!AddAnswer(f[i - 1], answers[r[i]])]

LEMMA SummingExists ==
  ASSUME NEW r
  PROVE  \A n \in Nat : \E f : IsSumming(f, n, r)
<1> DEFINE S == {n \in Nat : \E f : IsSumming(f, n, r)}
           Next1(s, i) == Sequentially!AddAnswer(s, answers[r[i]])
           none == Sequentially!Nothing
<1>1. 0 \in S
  <2> DEFINE f == [i \in 0 .. 0 |-> none]
  <2>1. IsSumming(f, 0, r)
    BY DEF IsSumming
  <2> QED BY <2>1
<1>2. \A n \in Nat : n \in S => n + 1 \in S
  <2> SUFFICES ASSUME NEW n \in Nat, n \in S PROVE n + 1 \in S
    OBVIOUS
  <2>1. PICK f : IsSumming(f, n, r)
    OBVIOUS
  <2> HIDE DEF none
  <2> DEFINE g == [i \in 0 .. n + 1 |-> IF i = 0 THEN none ELSE Next1(f[i - 1], i)]
  <2>2. \A i \in 0 .. n : f[i] = IF i = 0 THEN none ELSE Next1(f[i - 1], i)
    BY <2>1 DEF IsSumming, none
  <2>3. \A i \in 0 .. n : g[i] = f[i]
    BY <2>2
  <2>4. g = [i \in 0 .. n + 1 |-> IF i = 0 THEN none ELSE Next1(g[i - 1], i)]
    <3>1. \A i \in 0 .. n + 1 : i # 0 => i - 1 \in 0 .. n
      OBVIOUS
    <3> QED BY <2>3, <3>1
  <2> HIDE DEF g
  <2>5. IsSumming(g, n + 1, r)
    BY <2>4 DEF IsSumming, none
  <2> QED BY <2>5
<1> HIDE DEF S
<1>3. Nat \subseteq S
  BY <1>1, <1>2, CountingUp
<1> QED BY <1>3 DEF S

\* Sequential reports the last of the sums.
LEMMA SequentialIsLast ==
  ASSUME NEW order, Len(order) \in Nat
  PROVE  \E f : /\ IsSumming(f, Len(order), order)
                /\ \E issue : /\ issue = f[Len(order)].issue
                              /\ Sequentially!Sequential(order) =
                                   Sequentially!Report(issue,
                                     IF issue = Sequentially!Fine
                                     THEN Sequentially!WholePlan ELSE <<>>)
<1> DEFINE f == CHOOSE f : IsSumming(f, Len(order), order)
<1>1. IsSumming(f, Len(order), order)
  BY SummingExists
<1>2. Sequentially!Sequential(order) =
        Sequentially!Report(f[Len(order)].issue,
          IF f[Len(order)].issue = Sequentially!Fine
          THEN Sequentially!WholePlan ELSE <<>>)
  BY Zenon DEF Sequentially!Sequential, IsSumming
<1> HIDE DEF f
<1> QED BY <1>1, <1>2

\* Sums of lists that begin alike are alike.
LEMMA SummingAgrees ==
  ASSUME NEW n \in Nat, NEW m \in Nat, n <= m, NEW r, NEW t, NEW f, NEW g,
         IsSumming(f, n, r), IsSumming(g, m, t), \A i \in 1 .. n : r[i] = t[i]
  PROVE  f[n] = g[n]
<1> DEFINE G == {k \in Nat : k <= n => f[k] = g[k]}
           Next1(s, q) == Sequentially!AddAnswer(s, answers[q])
<1>1. \A k \in 0 .. n : f[k] = IF k = 0 THEN Sequentially!Nothing
                               ELSE Next1(f[k - 1], r[k])
  BY DEF IsSumming
<1>2. \A k \in 0 .. m : g[k] = IF k = 0 THEN Sequentially!Nothing
                               ELSE Next1(g[k - 1], t[k])
  BY DEF IsSumming
<1> HIDE DEF Next1
<1>3. 0 \in G
  BY <1>1, <1>2
<1>4. \A k \in Nat : k \in G => k + 1 \in G
  <2> SUFFICES ASSUME NEW k \in Nat, k \in G, k + 1 <= n PROVE f[k + 1] = g[k + 1]
    OBVIOUS
  <2>1. f[k] = g[k] /\ k + 1 \in 0 .. n /\ k + 1 \in 0 .. m /\ r[k + 1] = t[k + 1]
    OBVIOUS
  <2> QED BY <1>1, <1>2, <2>1
<1> HIDE DEF G
<1>5. n \in G
  BY <1>3, <1>4, CountingUp
<1> QED BY <1>5 DEF G

\* After an issue nothing is added.
LEMMA SummingStops ==
  ASSUME NEW n \in Nat, NEW m \in Nat, n <= m, NEW t, NEW g, IsSumming(g, m, t),
         g[n].issue # Sequentially!Fine
  PROVE  g[m] = g[n]
<1> DEFINE G == {k \in Nat : n + k <= m => g[n + k] = g[n]}
<1>1. \A k \in 1 .. m : g[k] = Sequentially!AddAnswer(g[k - 1], answers[t[k]])
  BY DEF IsSumming
<1>2. 0 \in G
  OBVIOUS
<1>3. \A k \in Nat : k \in G => k + 1 \in G
  <2> SUFFICES ASSUME NEW k \in Nat, k \in G, n + (k + 1) <= m
               PROVE  g[n + (k + 1)] = g[n]
    OBVIOUS
  <2>1. /\ g[n + k] = g[n] /\ n + (k + 1) \in 1 .. m
        /\ (n + (k + 1)) - 1 = n + k
    OBVIOUS
  <2>2. \A a : Sequentially!AddAnswer(g[n], a) = g[n]
    BY DEF Sequentially!AddAnswer
  <2> QED BY <1>1, <2>1, <2>2
<1> HIDE DEF G
<1>4. m - n \in G
  BY <1>2, <1>3, CountingUp
<1>5. n + (m - n) = m
  OBVIOUS
<1> QED BY <1>4, <1>5 DEF G

InOneOrder(r) == \A i, j \in DOMAIN r : r[i] = r[j] => i = j

\* The rest can be asked in some order.
LEMMA OrderExtends ==
  ASSUME NEW N \in Nat, NEW r \in Seq(1 .. N), InOneOrder(r)
  PROVE  \E order \in SetToSeqs(1 .. N) :
            /\ Len(order) = N /\ Len(r) <= N
            /\ \A i \in 1 .. Len(r) : order[i] = r[i]
<1> DEFINE m == Len(r)
           R == {r[i] : i \in 1 .. m}
           T == (1 .. N) \ R
           k == Cardinality(T)
<1>1. m \in Nat /\ DOMAIN r = 1 .. m /\ \A i \in 1 .. m : r[i] \in 1 .. N
  OBVIOUS
<1>2. IsFiniteSet(1 .. N) /\ Cardinality(1 .. N) = N
  BY FS_Interval
<1>3. IsFiniteSet(1 .. m) /\ Cardinality(1 .. m) = m
  <2> HIDE DEF m
  <2>1. m \in Int /\ m >= 0
    BY <1>1
  <2> QED BY <2>1, FS_Interval
<1>4. IsFiniteSet(R) /\ Cardinality(R) = m
  <2> DEFINE h == [i \in 1 .. m |-> r[i]]
  <2>1. h \in Bijection(1 .. m, R)
    BY <1>1 DEF InOneOrder, Bijection, Injection, Surjection, IsInjective
  <2>2. ExistsBijection(1 .. m, R)
    BY <2>1 DEF ExistsBijection
  <2> QED BY <1>3, <2>2, FS_Bijection
<1>5. R \in SUBSET (1 .. N)
  BY <1>1
<1>6. m <= N
  BY <1>2, <1>4, <1>5, FS_Subset
<1>7. IsFiniteSet(T) /\ k = N - m
  <2>1. (1 .. N) \cap R = R
    BY <1>5
  <2> HIDE DEF R, m
  <2>2. IsFiniteSet(T) /\ Cardinality(T) = Cardinality(1 .. N) - Cardinality((1 .. N) \cap R)
    BY <1>2, FS_Difference
  <2> QED BY <1>2, <1>4, <2>1, <2>2
<1>8. PICK g : g \in Bijection(1 .. k, T)
  <2> HIDE DEF T, k
  <2>1. k \in Nat
    BY <1>1, <1>6, <1>7
  <2>2. IsFiniteSet(1 .. k) /\ Cardinality(1 .. k) = k
    BY <2>1, FS_Interval
  <2>3. ExistsBijection(1 .. k, T)
    BY <1>7, <2>2, FS_SameCardinalityBij DEF k
  <2> QED BY <2>3 DEF ExistsBijection
<1>9. /\ \A i \in 1 .. k : g[i] \in 1 .. N /\ g[i] \notin R
      /\ \A i, j \in 1 .. k : g[i] = g[j] => i = j
  <2> HIDE DEF k
  <2> QED BY <1>8 DEF Bijection, Injection, IsInjective
<1> DEFINE order == [i \in 1 .. N |-> IF i <= m THEN r[i] ELSE g[i - m]]
<1> HIDE DEF k, T
<1>10. \A i \in 1 .. N : i <= m => order[i] = r[i] /\ order[i] \in R
  BY <1>1
<1>11. \A i \in 1 .. N : ~ (i <= m) => /\ i - m \in 1 .. k
                                       /\ order[i] = g[i - m] /\ order[i] \notin R
  <2> SUFFICES ASSUME NEW i \in 1 .. N, ~ (i <= m)
               PROVE  /\ i - m \in 1 .. k
                      /\ order[i] = g[i - m] /\ order[i] \notin R
    OBVIOUS
  <2>1. order[i] = g[i - m]
    OBVIOUS
  <2> HIDE DEF order, R, m
  <2>2. i - m \in 1 .. k
    BY <1>1, <1>6, <1>7
  <2> QED BY <1>9, <2>1, <2>2
<1>12. order \in [1 .. N -> 1 .. N]
  <2>1. \A i \in 1 .. N : order[i] \in 1 .. N
    <3> SUFFICES ASSUME NEW i \in 1 .. N PROVE order[i] \in 1 .. N
      OBVIOUS
    <3> HIDE DEF order, R, m
    <3>1. CASE i <= m
      <4>1. i \in 1 .. m
        BY <1>1, <3>1
      <4> QED BY <1>1, <1>10, <3>1, <4>1
    <3>2. CASE ~ (i <= m)
      BY <1>9, <1>11, <3>2
    <3> QED BY <3>1, <3>2
  <2> QED BY <2>1
<1>13. ASSUME NEW i \in 1 .. N, NEW j \in 1 .. N, order[i] = order[j] PROVE i = j
  <2> HIDE DEF R, order
  <2>1. CASE i <= m /\ j <= m
    BY <1>1, <1>10, <1>13, <2>1 DEF InOneOrder
  <2>2. CASE i <= m /\ ~ (j <= m)
    BY <1>10, <1>11, <1>13, <2>2
  <2>3. CASE ~ (i <= m) /\ j <= m
    BY <1>10, <1>11, <1>13, <2>3
  <2>4. CASE ~ (i <= m) /\ ~ (j <= m)
    <3>1. i - m = j - m
      BY <1>9, <1>11, <1>13, <2>4
    <3> QED BY <1>1, <3>1
  <2> QED BY <2>1, <2>2, <2>3, <2>4
<1> HIDE DEF order
<1>14. order \in SetToSeqs(1 .. N) /\ Len(order) = N
  BY <1>2, <1>12, <1>13 DEF SetToSeqs
<1> QED BY <1>1, <1>6, <1>10, <1>14

\* What the channel holds: the datasource's answer or the cancellation.
QueryResults == {Answered(q) : q \in 1 .. PlanSize} \cup {Cancelled(q) : q \in 1 .. PlanSize}

(* A query is in one place only: with a worker, in the channel or kept.    *)
Apart(wk, rs, kept) ==
    /\ \A w, v \in DOMAIN wk : wk[w] = wk[v] /\ wk[w] # 0 => w = v
    /\ \A i, j \in DOMAIN rs : rs[i].query = rs[j].query => i = j
    /\ \A w \in DOMAIN wk : wk[w] # 0 =>
          wk[w] \notin kept /\ \A i \in DOMAIN rs : rs[i].query # wk[w]
    /\ \A i \in DOMAIN rs : rs[i].query \notin kept

(* The first n queries were taken.  None of them is dropped, and none      *)
(* cancelled, before the context is done.                                  *)
Dealt(n, todo, wk, rs, kept, done) ==
    /\ todo = [i \in 1 .. PlanSize - n |-> n + i]
    /\ \A w \in DOMAIN wk : wk[w] \in 0 .. n
    /\ \A i \in DOMAIN rs : rs[i].query \in 1 .. n
    /\ kept \subseteq 1 .. n
    /\ ~ done =>
          \A q \in 1 .. n : \/ q \in kept
                            \/ \E w \in DOMAIN wk : wk[w] = q
                            \/ \E i \in DOMAIN rs : rs[i].query = q

\* The sum is that of the queries of r, asked one after the other.
SumsUp(r, s) ==
    /\ r \in Seq(1 .. PlanSize) /\ InOneOrder(r)
    /\ \E f : IsSumming(f, Len(r), r) /\ s = f[Len(r)]

IsSum(s) == s = [duration |-> s.duration, bytes |-> s.bytes, issue |-> s.issue]

Explained(s, kept, gaveUp) ==
    /\ IsSum(s)
    /\ s.issue = Sequentially!Fine => \E r : SumsUp(r, s) /\ kept = ToSet(r)
    /\ s.issue # Sequentially!Fine =>
          \/ gaveUp /\ s.issue = "DatasourceQueryCancelled"
          \/ \E r : SumsUp(r, s)

WorkersInv ==
    /\ answers \in [1 .. PlanSize -> Answers]
    /\ results \in Seq(QueryResults)
    /\ worker = [w \in DOMAIN worker |-> worker[w]]
    /\ Apart(worker, results, completed)
    /\ \E n \in 0 .. PlanSize : Dealt(n, jobs, worker, results, completed, ContextDone)
    /\ ~ ContextDone => \A i \in DOMAIN results : results[i] = Answered(results[i].query)
    /\ Explained(sum, completed, given)

\* Answers and budget do not change, and with them what is made of them.
LEMMA SameAnswers ==
  ASSUME UNCHANGED <<answers, budget>>
  PROVE  /\ QueryResults' = QueryResults
         /\ \A q : Answered(q)' = Answered(q)
         /\ \A r, s : SumsUp(r, s)' <=> SumsUp(r, s)
<1>1. answers' = answers /\ budget' = budget
  OBVIOUS
<1>2. \A q : Answered(q)' = Answered(q)
  BY <1>1 DEF Answered
<1>3. QueryResults' = QueryResults
  BY <1>1 DEF QueryResults, Answered, Cancelled
<1>4. \A f, n, r : IsSumming(f, n, r)' <=> IsSumming(f, n, r)
  BY <1>1 DEF IsSumming, Sequentially!AddAnswer, Sequentially!Nothing, Sequentially!Fine
<1>5. \A r, s : SumsUp(r, s)' <=> SumsUp(r, s)
  BY <1>4 DEF SumsUp
<1> QED BY <1>2, <1>3, <1>5

LEMMA SameExplanation ==
  ASSUME UNCHANGED <<answers, budget, sum, completed>>, given => given',
         Explained(sum, completed, given)
  PROVE  Explained(sum, completed, given)'
<1>1. sum' = sum /\ completed' = completed /\ Sequentially!Fine' = Sequentially!Fine
  BY DEF Sequentially!Fine
<1>2. \A r : SumsUp(r, sum)' <=> SumsUp(r, sum)
  BY <1>1, SameAnswers
<1> QED BY <1>1, <1>2 DEF Explained, IsSum

LEMMA OutcomeFields ==
  ASSUME answers \in [1 .. PlanSize -> Answers], NEW e \in QueryResults
  PROVE  e.query \in 1 .. PlanSize /\ (e = Answered(e.query) \/ e = Cancelled(e.query))
BY DEF QueryResults, Answered, Cancelled

\* The plan is dealt out in order.
LEMMA NextJob ==
  ASSUME PlanSize \in Nat, NEW n \in 0 .. PlanSize, NEW todo,
         todo = [i \in 1 .. PlanSize - n |-> n + i], todo # <<>>
  PROVE  /\ n + 1 \in 0 .. PlanSize /\ Head(todo) = n + 1
         /\ Tail(todo) = [i \in 1 .. PlanSize - (n + 1) |-> (n + 1) + i]
<1> DEFINE m == PlanSize - n
<1>1. m \in Nat
  OBVIOUS
<1>2. DOMAIN todo = 1 .. m /\ todo = [i \in DOMAIN todo |-> todo[i]]
      /\ \A i \in 1 .. m : todo[i] = n + i /\ todo[i] \in Nat
  OBVIOUS
<1>3. todo \in Seq(Nat) /\ Len(todo) = m
  <2> HIDE DEF m
  <2> QED BY <1>1, <1>2, ListOf
<1>4. m # 0
  BY <1>3
<1>5. n + 1 \in 0 .. PlanSize /\ Head(todo) = n + 1
  BY <1>2, <1>3, <1>4
<1>6. /\ Tail(todo) \in Seq(Nat) /\ Len(Tail(todo)) = m - 1
      /\ \A i \in 1 .. m - 1 : Tail(todo)[i] = todo[i + 1]
  <2> HIDE DEF m
  <2> QED BY <1>1, <1>3, <1>4
<1>7. \A i \in 1 .. m - 1 : Tail(todo)[i] = (n + 1) + i
  BY <1>2, <1>6
<1>8. Tail(todo) = [i \in 1 .. m - 1 |-> Tail(todo)[i]]
  <2> HIDE DEF m
  <2> QED BY <1>6
<1>9. m - 1 = PlanSize - (n + 1)
  OBVIOUS
<1> HIDE DEF m
<1> QED BY <1>5, <1>7, <1>8, <1>9

LEMMA WorkersBegin ==
  ASSUME CollectionInit
  PROVE  WorkersInv
<1>1. PlanSize \in Nat /\ PlanSize # 0
  BY CollectionAssumption
<1>2. /\ answers \in [1 .. PlanSize -> Answers] /\ results = <<>> /\ completed = {}
      /\ worker = [w \in 1 .. concurrency |-> 0] /\ sum = Sequentially!Nothing
      /\ jobs = [i \in 1 .. PlanSize |-> i] /\ given = FALSE
  BY DEF CollectionInit
<1>3. worker = [w \in DOMAIN worker |-> worker[w]] /\ \A w \in DOMAIN worker : worker[w] = 0
  BY <1>2
<1>4. results \in Seq(QueryResults) /\ DOMAIN results = {}
  BY <1>2
<1>5. Apart(worker, results, completed)
  BY <1>2, <1>3, <1>4 DEF Apart
<1>6. Dealt(0, jobs, worker, results, completed, ContextDone)
  <2>1. jobs = [i \in 1 .. PlanSize - 0 |-> 0 + i]
    BY <1>1, <1>2
  <2>2. \A q \in 1 .. 0 : FALSE
    OBVIOUS
  <2> QED BY <1>2, <1>3, <1>4, <2>1, <2>2 DEF Dealt
<1>7. Explained(sum, completed, given)
  <2>1. IsSum(sum) /\ sum.issue = Sequentially!Fine
    BY <1>2 DEF IsSum, Sequentially!Nothing
  <2>2. <<>> \in Seq(1 .. PlanSize) /\ InOneOrder(<<>>) /\ Len(<<>>) = 0 /\ ToSet(<<>>) = {}
    BY DEF InOneOrder, ToSet
  <2>3. PICK f : IsSumming(f, 0, <<>>)
    BY SummingExists
  <2>4. f[0] = Sequentially!Nothing
    BY <2>3 DEF IsSumming
  <2>5. SumsUp(<<>>, sum)
    BY <1>2, <2>2, <2>3, <2>4 DEF SumsUp
  <2> QED BY <1>2, <2>1, <2>2, <2>5 DEF Explained
<1>8. \E n \in 0 .. PlanSize : Dealt(n, jobs, worker, results, completed, ContextDone)
  BY <1>1, <1>6
<1>9. \A i \in DOMAIN results : FALSE
  BY <1>4
<1> QED BY <1>2, <1>3, <1>4, <1>5, <1>7, <1>8, <1>9 DEF WorkersInv

LEMMA GiveUpKeepsInv ==
  ASSUME WorkersInv, GiveUp
  PROVE  WorkersInv'
<1>1. /\ UNCHANGED <<answers, budget, jobs, worker, results, sum, completed>>
      /\ given' = TRUE
  BY DEF GiveUp
<1>2. ContextDone'
  BY <1>1 DEF ContextDone
<1>3. Explained(sum, completed, given)'
  BY <1>1, SameExplanation DEF WorkersInv
<1>4. QueryResults' = QueryResults
  BY <1>1, SameAnswers
<1>5. PICK n \in 0 .. PlanSize : Dealt(n, jobs, worker, results, completed, ContextDone)
  BY DEF WorkersInv
<1>6. Dealt(n, jobs, worker, results, completed, ContextDone)'
  BY <1>1, <1>2, <1>5 DEF Dealt
<1>7. Apart(worker, results, completed)'
  BY <1>1 DEF WorkersInv, Apart
<1> QED BY <1>1, <1>2, <1>3, <1>4, <1>6, <1>7 DEF WorkersInv

LEMMA TakeKeepsInv ==
  ASSUME WorkersInv, NEW w \in DOMAIN worker, Take(w)
  PROVE  WorkersInv'
<1>1. /\ UNCHANGED <<answers, budget, results, sum, completed, given>>
      /\ worker[w] = 0 /\ jobs # <<>> /\ jobs' = Tail(jobs)
      /\ worker' = [worker EXCEPT ![w] = IF ContextDone THEN 0 ELSE Head(jobs)]
  BY DEF Take
<1>2. (ContextDone' <=> ContextDone) /\ QueryResults' = QueryResults
  BY <1>1, SameAnswers DEF ContextDone, Sequentially!Fine
<1>3. Explained(sum, completed, given)'
  BY <1>1, SameExplanation DEF WorkersInv
<1>4. PICK n \in 0 .. PlanSize : Dealt(n, jobs, worker, results, completed, ContextDone)
  BY DEF WorkersInv
<1>5. /\ PlanSize \in Nat /\ n + 1 \in 0 .. PlanSize /\ Head(jobs) = n + 1
      /\ jobs' = [i \in 1 .. PlanSize - (n + 1) |-> (n + 1) + i]
  BY <1>1, <1>4, NextJob, CollectionAssumption DEF Dealt
<1>6. /\ DOMAIN worker' = DOMAIN worker
      /\ worker' = [v \in DOMAIN worker' |-> worker'[v]]
      /\ \A v \in DOMAIN worker : v # w => worker'[v] = worker[v]
      /\ worker'[w] = IF ContextDone THEN 0 ELSE n + 1
  BY <1>1, <1>5
<1>7. /\ \A v \in DOMAIN worker : worker[v] \in 0 .. n
      /\ \A i \in DOMAIN results : results[i].query \in 1 .. n
      /\ completed \subseteq 1 .. n
  BY <1>4 DEF Dealt
<1>8. Apart(worker', results, completed)
  <2>1. n \in Nat /\ ~ (n + 1 \in 0 .. n) /\ ~ (n + 1 \in 1 .. n)
    BY <1>5
  <2>2. Apart(worker, results, completed)
    BY DEF WorkersInv
  <2> QED BY <1>6, <1>7, <2>1, <2>2 DEF Apart
<1>9. Dealt(n + 1, jobs', worker', results, completed, ContextDone)
  <2>1. n \in Nat /\ 0 .. n \subseteq 0 .. n + 1 /\ 1 .. n \subseteq 1 .. n + 1
        /\ n + 1 \in 0 .. n + 1 /\ 0 \in 0 .. n + 1
    BY <1>5
  <2>2. \A v \in DOMAIN worker' : worker'[v] \in 0 .. n + 1
    BY <1>6, <1>7, <2>1
  <2>3. ASSUME ~ ContextDone, NEW q \in 1 .. n + 1
        PROVE  \/ q \in completed
               \/ \E v \in DOMAIN worker' : worker'[v] = q
               \/ \E i \in DOMAIN results : results[i].query = q
    <3>1. CASE q = n + 1
      BY <1>6, <2>3, <3>1
    <3>2. CASE q # n + 1
      <4>1. q \in 1 .. n /\ q # 0
        BY <2>1, <3>2
      <4>2. \/ q \in completed
            \/ \E v \in DOMAIN worker : worker[v] = q
            \/ \E i \in DOMAIN results : results[i].query = q
        BY <1>4, <2>3, <4>1 DEF Dealt
      <4>3. \A v \in DOMAIN worker : worker[v] = q => v # w
        BY <1>1, <4>1
      <4> QED BY <1>6, <4>2, <4>3
    <3> QED BY <3>1, <3>2
  <2> QED BY <1>5, <1>7, <2>1, <2>2, <2>3 DEF Dealt
<1>10. Apart(worker, results, completed)'
  BY <1>1, <1>8 DEF Apart
<1>11. Dealt(n + 1, jobs, worker, results, completed, ContextDone)'
  BY <1>1, <1>2, <1>9 DEF Dealt
<1>12. ~ ContextDone' => \A i \in DOMAIN results' :
                            results'[i] = Answered(results[i].query)'
  BY <1>1, <1>2, SameAnswers DEF WorkersInv, Answered
<1> QED BY <1>1, <1>2, <1>3, <1>5, <1>6, <1>10, <1>11, <1>12 DEF WorkersInv

LEMMA AnswerKeepsInv ==
  ASSUME WorkersInv, NEW w \in DOMAIN worker, Answer(w)
  PROVE  WorkersInv'
<1> DEFINE q == worker[w]
           last == results'[Len(results) + 1]
<1>1. /\ UNCHANGED <<answers, budget, jobs, sum, completed, given>>
      /\ q # 0 /\ worker' = [worker EXCEPT ![w] = 0]
      /\ \/ results' = Append(results, Answered(q))
         \/ ContextDone /\ results' = Append(results, Cancelled(q))
  BY DEF Answer
<1>2. (ContextDone' <=> ContextDone) /\ QueryResults' = QueryResults
  BY <1>1, SameAnswers DEF ContextDone, Sequentially!Fine
<1>3. Explained(sum, completed, given)'
  BY <1>1, SameExplanation DEF WorkersInv
<1>4. PICK n \in 0 .. PlanSize : Dealt(n, jobs, worker, results, completed, ContextDone)
  BY DEF WorkersInv
<1>5. PlanSize \in Nat /\ q \in 1 .. n /\ q \in 1 .. PlanSize
  BY <1>1, <1>4, CollectionAssumption DEF Dealt
<1>6. /\ Answered(q) \in QueryResults /\ Answered(q).query = q
      /\ Cancelled(q) \in QueryResults /\ Cancelled(q).query = q
  <2> HIDE DEF q
  <2> QED BY <1>5 DEF QueryResults, Answered, Cancelled
<1>7. results \in Seq(QueryResults) /\ Len(results) \in Nat /\ DOMAIN results = 1 .. Len(results)
  BY DEF WorkersInv
<1>8. /\ results' \in Seq(QueryResults) /\ DOMAIN results' = 1 .. Len(results) + 1
      /\ \A i \in 1 .. Len(results) : results'[i] = results[i]
      /\ last = Answered(q) \/ (ContextDone /\ last = Cancelled(q))
  <2> HIDE DEF q
  <2>1. CASE results' = Append(results, Answered(q))
    BY <1>6, <1>7, <2>1
  <2>2. CASE ContextDone /\ results' = Append(results, Cancelled(q))
    BY <1>6, <1>7, <2>2
  <2> QED BY <1>1, <2>1, <2>2
<1>9. last.query = q
  BY <1>6, <1>8
<1> HIDE DEF q, last
<1>10. /\ DOMAIN worker' = DOMAIN worker
       /\ worker' = [v \in DOMAIN worker' |-> worker'[v]]
       /\ \A v \in DOMAIN worker : v # w => worker'[v] = worker[v]
       /\ worker'[w] = 0 /\ worker[w] = q
  BY <1>1 DEF WorkersInv, q
<1>11. Apart(worker, results, completed)
  BY DEF WorkersInv
<1>12. /\ \A v \in DOMAIN worker : worker[v] \in 0 .. n
       /\ \A i \in DOMAIN results : results[i].query \in 1 .. n
       /\ completed \subseteq 1 .. n
  BY <1>4 DEF Dealt
<1>13. \A i \in DOMAIN results' :
          \/ i \in DOMAIN results /\ results'[i] = results[i]
          \/ i = Len(results) + 1 /\ i \notin DOMAIN results /\ results'[i].query = q
  BY <1>7, <1>8, <1>9 DEF last
<1>14. q \notin completed /\ \A i \in DOMAIN results : results[i].query # q
  BY <1>1, <1>10, <1>11 DEF Apart
<1>15. Apart(worker', results', completed)
  <2>1. \A i, j \in DOMAIN results' : results'[i].query = results'[j].query => i = j
    BY <1>11, <1>13, <1>14 DEF Apart
  <2>2. \A v, u \in DOMAIN worker' : worker'[v] = worker'[u] /\ worker'[v] # 0 => v = u
    BY <1>10, <1>11 DEF Apart
  <2>3. ASSUME NEW v \in DOMAIN worker', worker'[v] # 0
        PROVE  worker'[v] \notin completed /\ \A i \in DOMAIN results' :
                                                 results'[i].query # worker'[v]
    <3>1. v # w /\ worker'[v] = worker[v] /\ worker[v] # q /\ v \in DOMAIN worker
      BY <1>1, <1>10, <1>11, <2>3 DEF Apart
    <3>2. worker[v] \notin completed /\ \A i \in DOMAIN results : results[i].query # worker[v]
      BY <1>11, <2>3, <3>1 DEF Apart
    <3> QED BY <1>13, <3>1, <3>2
  <2>4. \A i \in DOMAIN results' : results'[i].query \notin completed
    BY <1>11, <1>13, <1>14 DEF Apart
  <2> QED BY <2>1, <2>2, <2>3, <2>4 DEF Apart
<1>16. Dealt(n, jobs, worker', results', completed, ContextDone)
  <2>1. \A v \in DOMAIN worker' : worker'[v] \in 0 .. n
    BY <1>5, <1>10, <1>12
  <2>2. \A i \in DOMAIN results' : results'[i].query \in 1 .. n
    BY <1>5, <1>12, <1>13
  <2>3. ASSUME ~ ContextDone, NEW p \in 1 .. n
        PROVE  \/ p \in completed
               \/ \E v \in DOMAIN worker' : worker'[v] = p
               \/ \E i \in DOMAIN results' : results'[i].query = p
    <3>1. \/ p \in completed
          \/ \E v \in DOMAIN worker : worker[v] = p
          \/ \E i \in DOMAIN results : results[i].query = p
      BY <1>4, <2>3 DEF Dealt
    <3>2. CASE p = q
      BY <1>7, <1>8, <1>9, <3>2 DEF last
    <3>3. CASE p # q /\ \E v \in DOMAIN worker : worker[v] = p
      BY <1>10, <3>3
    <3>4. CASE \E i \in DOMAIN results : results[i].query = p
      BY <1>7, <1>8, <3>4
    <3> QED BY <3>1, <3>2, <3>3, <3>4
  <2> QED BY <1>4, <1>12, <2>1, <2>2, <2>3 DEF Dealt
<1>17. Apart(worker, results, completed)'
  BY <1>1, <1>15 DEF Apart
<1>18. Dealt(n, jobs, worker, results, completed, ContextDone)'
  BY <1>1, <1>2, <1>16 DEF Dealt
<1>19. ASSUME ~ ContextDone', NEW i \in DOMAIN results'
       PROVE  results'[i] = Answered(results[i].query)'
  <2>2. CASE i \in DOMAIN results
    <3>1. results'[i] = results[i] /\ results[i] = Answered(results[i].query)
      BY <1>2, <1>7, <1>8, <1>19, <2>2 DEF WorkersInv
    <3>2. Answered(results[i].query)' = Answered(results'[i].query)
      BY <1>1 DEF Answered
    <3> QED BY <3>1, <3>2
  <2>3. CASE i \notin DOMAIN results
    <3>1. i = Len(results) + 1 /\ results'[i] = Answered(q) /\ results'[i].query = q
      BY <1>2, <1>8, <1>9, <1>13, <1>19, <2>3 DEF last
    <3>2. Answered(results[i].query)' = Answered(results'[i].query)
      BY <1>1 DEF Answered
    <3> QED BY <3>1, <3>2
  <2> QED BY <2>2, <2>3
<1> QED BY <1>1, <1>2, <1>3, <1>8, <1>10, <1>17, <1>18, <1>19 DEF WorkersInv

LEMMA FineOrNot == "DatasourceQueryCancelled" # Sequentially!Fine
BY Zenon DEF Sequentially!Fine

\* One more answer in the order in which they came.
LEMMA OneMoreSummed ==
  ASSUME PlanSize \in Nat, NEW r, NEW s, SumsUp(r, s), NEW q \in 1 .. PlanSize, q \notin ToSet(r)
  PROVE  \E t : /\ SumsUp(t, Sequentially!AddAnswer(s, answers[q]))
                /\ ToSet(t) = ToSet(r) \cup {q}
<1> DEFINE n == Len(r)
           t == Append(r, q)
<1>1. r \in Seq(1 .. PlanSize) /\ InOneOrder(r) /\ n \in Nat /\ DOMAIN r = 1 .. n
  BY DEF SumsUp
<1>2. PICK f : IsSumming(f, n, r) /\ s = f[n]
  BY DEF SumsUp
<1>3. PICK g : IsSumming(g, n + 1, t)
  <2> HIDE DEF n, t
  <2>1. n + 1 \in Nat
    BY <1>1
  <2> QED BY <2>1, SummingExists
<1>4. /\ t \in Seq(1 .. PlanSize) /\ Len(t) = n + 1 /\ DOMAIN t = 1 .. n + 1
      /\ \A i \in 1 .. n : t[i] = r[i]
      /\ t[n + 1] = q
  BY <1>1
<1> HIDE DEF n, t
<1>5. \A i \in 1 .. n : r[i] = t[i] /\ r[i] # q
  BY <1>1, <1>4 DEF ToSet
<1>6. g[n] = s
  <2>1. n + 1 \in Nat /\ n <= n + 1
    BY <1>1
  <2>2. f[n] = g[n]
    BY <1>1, <1>2, <1>3, <1>5, <2>1, SummingAgrees
  <2> QED BY <1>2, <2>2
<1>7. g[n + 1] = Sequentially!AddAnswer(s, answers[q])
  <2>1. \A i \in 1 .. n + 1 : g[i] = Sequentially!AddAnswer(g[i - 1], answers[t[i]])
    <3>1. \A i \in 1 .. n + 1 : i \in 0 .. n + 1 /\ i # 0
      BY <1>1
    <3> QED BY <1>3, <3>1 DEF IsSumming
  <2>2. n + 1 \in 1 .. n + 1 /\ (n + 1) - 1 = n
    BY <1>1
  <2> QED BY <1>4, <1>6, <2>1, <2>2
<1>8. InOneOrder(t)
  <2>1. \A i \in 1 .. n + 1 : i \in 1 .. n \/ i = n + 1
    BY <1>1
  <2> QED BY <1>1, <1>4, <1>5, <2>1 DEF InOneOrder
<1>9. ToSet(t) = ToSet(r) \cup {q}
  <2>1. DOMAIN t = DOMAIN r \cup {n + 1}
    BY <1>1, <1>4
  <2>2. \A i \in DOMAIN r : t[i] = r[i]
    BY <1>1, <1>4
  <2>3. \A x : (\E i \in DOMAIN t : x = t[i]) <=> (\E i \in DOMAIN r : x = r[i]) \/ x = q
    <3>1. t[n + 1] = q
      BY <1>4
    <3> QED BY ONLY <2>1, <2>2, <3>1
  <2> QED BY <2>3 DEF ToSet
<1>10. SumsUp(t, Sequentially!AddAnswer(s, answers[q]))
  BY <1>3, <1>4, <1>7, <1>8 DEF SumsUp
<1> QED BY <1>9, <1>10

\* The sum stays explained when the first result of the channel is added.
LEMMA ReceivedIsExplained ==
  ASSUME WorkersInv, PlanSize \in Nat, NEW e \in QueryResults, e.query \notin completed,
         ~ ContextDone => e = Answered(e.query),
         NEW s, s = Sequentially!AddAnswer(sum, e)
  PROVE  Explained(s, IF s.issue = Sequentially!Fine THEN completed \cup {e.query}
                      ELSE completed, given)
<1>1. e.query \in 1 .. PlanSize /\ (e = Answered(e.query) \/ e = Cancelled(e.query))
  BY OutcomeFields DEF WorkersInv
<1>2. Explained(sum, completed, given) /\ IsSum(sum)
  BY DEF WorkersInv, Explained
<1>3. CASE sum.issue # Sequentially!Fine
  <2>1. s = sum
    BY <1>3 DEF Sequentially!AddAnswer
  <2> QED BY <1>2, <1>3, <2>1 DEF Explained
<1>4. CASE sum.issue = Sequentially!Fine
  <2>1. IsSum(s)
    <3>1. CASE e.issue # Sequentially!Fine
      <4>1. s = [sum EXCEPT !.issue = e.issue]
        BY <1>4, <3>1 DEF Sequentially!AddAnswer
      <4> QED BY <1>2, <4>1 DEF IsSum
    <3>2. CASE e.issue = Sequentially!Fine
      <4>1. \E d, b, i : s = [duration |-> d, bytes |-> b, issue |-> i]
        BY <1>4, <3>2 DEF Sequentially!AddAnswer
      <4> QED BY <4>1 DEF IsSum
    <3> QED BY <3>1, <3>2
  <2>2. PICK r : SumsUp(r, sum) /\ completed = ToSet(r)
    BY <1>2, <1>4 DEF Explained
  <2>3. CASE e = Answered(e.query)
    <3>1. s = Sequentially!AddAnswer(sum, answers[e.query])
      <4>1. /\ e.issue = answers[e.query].issue /\ e.bytes = answers[e.query].bytes
            /\ e.duration = answers[e.query].duration
        BY <2>3 DEF Answered
      <4> QED BY <4>1 DEF Sequentially!AddAnswer
    <3>2. PICK t : SumsUp(t, s) /\ ToSet(t) = completed \cup {e.query}
      BY <1>1, <2>2, <3>1, OneMoreSummed
    <3> QED BY <2>1, <3>2 DEF Explained
  <2>4. CASE e # Answered(e.query)
    <3>1. given /\ e = Cancelled(e.query)
      BY <1>1, <1>4, <2>4 DEF ContextDone
    <3>2. e.issue = "DatasourceQueryCancelled" /\ e.issue # Sequentially!Fine
      <4>1. e.issue = "DatasourceQueryCancelled"
        BY <3>1 DEF Cancelled
      <4> QED BY <4>1, FineOrNot
    <3>3. s = [sum EXCEPT !.issue = e.issue]
      BY <1>4, <3>2 DEF Sequentially!AddAnswer
    <3>4. s.issue = "DatasourceQueryCancelled"
      BY <1>2, <3>2, <3>3 DEF IsSum
    <3> QED BY <2>1, <3>1, <3>2, <3>4 DEF Explained
  <2> QED BY <2>3, <2>4
<1> QED BY <1>3, <1>4

LEMMA ReceiveKeepsInv ==
  ASSUME WorkersInv, Receive
  PROVE  WorkersInv'
<1> DEFINE e == Head(results)
           q == e.query
           rest == Tail(results)
           k == Len(results)
<1>1. /\ UNCHANGED <<answers, budget, jobs, worker, given>>
      /\ results # <<>> /\ results' = rest
      /\ sum' = Sequentially!AddAnswer(sum, e)
      /\ completed' = IF sum'.issue = Sequentially!Fine THEN completed \cup {q} ELSE completed
  BY DEF Receive
<1>2. results \in Seq(QueryResults) /\ k \in Nat /\ DOMAIN results = 1 .. k /\ k # 0
  BY <1>1 DEF WorkersInv
<1>3. /\ e = results[1] /\ e \in QueryResults /\ 1 \in DOMAIN results
      /\ rest \in Seq(QueryResults) /\ DOMAIN rest = 1 .. k - 1
      /\ \A i \in 1 .. k - 1 : rest[i] = results[i + 1]
  BY <1>2
<1> HIDE DEF k, rest
<1>4. \A i \in DOMAIN rest : i + 1 \in DOMAIN results /\ i + 1 # 1 /\ rest[i] = results[i + 1]
  BY <1>2, <1>3
<1>5. \A i \in DOMAIN results : i = 1 \/ (i - 1 \in DOMAIN rest /\ rest[i - 1] = results[i])
  BY <1>2, <1>3
<1>6. PlanSize \in Nat
  BY CollectionAssumption
<1>7. Apart(worker, results, completed)
  BY DEF WorkersInv
<1>8. q \notin completed /\ \A w \in DOMAIN worker : worker[w] # q \/ worker[w] = 0
  BY <1>3, <1>7 DEF Apart
<1>9. q \in 1 .. PlanSize /\ (~ ContextDone => e = Answered(q))
  BY <1>3, OutcomeFields DEF WorkersInv
<1>10. Explained(sum', completed', given)
  <2> HIDE DEF e
  <2> DEFINE s == sum'
  <2>1. s = Sequentially!AddAnswer(sum, e)
    BY <1>1
  <2> HIDE DEF s
  <2>2. Explained(s, IF s.issue = Sequentially!Fine THEN completed \cup {e.query}
                     ELSE completed, given)
    BY <1>3, <1>6, <1>8, <1>9, <2>1, ReceivedIsExplained
  <2> QED BY <1>1, <2>2 DEF s
<1> HIDE DEF e, q
<1>11. Sequentially!Fine' = Sequentially!Fine
  BY DEF Sequentially!Fine
<1>12. Explained(sum, completed, given)'
  <2>1. \A r, s : SumsUp(r, s)' <=> SumsUp(r, s)
    BY <1>1, SameAnswers
  <2>2. given' = given
    BY <1>1
  <2> QED BY <1>10, <1>11, <2>1, <2>2 DEF Explained, IsSum
<1>13. /\ ContextDone => ContextDone'
       /\ ~ ContextDone' => sum'.issue = Sequentially!Fine
  <2>1. sum.issue # Sequentially!Fine => sum' = sum
    BY <1>1 DEF Sequentially!AddAnswer
  <2>2. ContextDone' <=> given \/ sum'.issue # Sequentially!Fine
    BY <1>1, <1>11 DEF ContextDone
  <2> QED BY <2>1, <2>2 DEF ContextDone
<1>14. completed' \in {completed, completed \cup {q}}
  BY <1>1
<1>15. \A i \in DOMAIN rest : rest[i].query # q
  BY <1>3, <1>4, <1>7 DEF Apart, q
<1>16. Apart(worker, rest, completed')
  <2>1. \A i, j \in DOMAIN rest : rest[i].query = rest[j].query => i = j
    <3>1. \A i, j \in DOMAIN rest : rest[i].query = rest[j].query => i + 1 = j + 1
      BY <1>4, <1>7 DEF Apart
    <3>2. \A i \in DOMAIN rest : i \in Int
      BY <1>2, <1>3
    <3> QED BY <3>1, <3>2
  <2>2. ASSUME NEW w \in DOMAIN worker, worker[w] # 0
        PROVE  worker[w] \notin completed' /\ \A i \in DOMAIN rest : rest[i].query # worker[w]
    BY <1>4, <1>7, <1>8, <1>14, <2>2 DEF Apart
  <2>3. \A i \in DOMAIN rest : rest[i].query \notin completed'
    BY <1>4, <1>7, <1>14, <1>15 DEF Apart
  <2>4. \A w, v \in DOMAIN worker : worker[w] = worker[v] /\ worker[w] # 0 => w = v
    BY <1>7 DEF Apart
  <2> QED BY <2>1, <2>2, <2>3, <2>4 DEF Apart
<1>17. PICK n \in 0 .. PlanSize : Dealt(n, jobs, worker, results, completed, ContextDone)
  BY DEF WorkersInv
<1>18. Dealt(n, jobs, worker, rest, completed', ContextDone')
  <2>1. q \in 1 .. n
    BY <1>3, <1>17 DEF Dealt, q
  <2>2. \A i \in DOMAIN rest : rest[i].query \in 1 .. n
    BY <1>4, <1>17 DEF Dealt
  <2>3. completed' \subseteq 1 .. n
    BY <1>14, <1>17, <2>1 DEF Dealt
  <2>4. ASSUME ~ ContextDone', NEW p \in 1 .. n
        PROVE  \/ p \in completed'
               \/ \E w \in DOMAIN worker : worker[w] = p
               \/ \E i \in DOMAIN rest : rest[i].query = p
    <3>1. ~ ContextDone /\ completed' = completed \cup {q}
      BY <1>1, <1>13, <2>4
    <3>2. \/ p \in completed
          \/ \E w \in DOMAIN worker : worker[w] = p
          \/ \E i \in DOMAIN results : results[i].query = p
      BY <1>17, <3>1 DEF Dealt
    <3>3. ASSUME NEW i \in DOMAIN results, results[i].query = p
          PROVE  p = q \/ \E j \in DOMAIN rest : rest[j].query = p
      BY <1>3, <1>5, <3>3 DEF q
    <3> QED BY <3>1, <3>2, <3>3
  <2> QED BY <1>17, <2>2, <2>3, <2>4 DEF Dealt
<1>19. Apart(worker, results, completed)'
  BY <1>1, <1>16 DEF Apart
<1>20. Dealt(n, jobs, worker, results, completed, ContextDone)'
  BY <1>1, <1>18 DEF Dealt
<1>21. ASSUME ~ ContextDone', NEW i \in DOMAIN results'
       PROVE  results'[i] = Answered(results[i].query)'
  <2>1. results'[i] = results[i + 1] /\ i + 1 \in DOMAIN results
    BY <1>1, <1>4, <1>21
  <2>2. results[i + 1] = Answered(results[i + 1].query)
    BY <1>13, <1>21, <2>1 DEF WorkersInv
  <2>3. Answered(results[i].query)' = Answered(results'[i].query)
    BY <1>1 DEF Answered
  <2> QED BY <2>1, <2>2, <2>3
<1>22. QueryResults' = QueryResults /\ UNCHANGED <<answers, worker>>
  BY <1>1, SameAnswers
<1> QED BY <1>1, <1>3, <1>12, <1>19, <1>20, <1>21, <1>22 DEF WorkersInv

LEMMA ReturnKeepsInv ==
  ASSUME WorkersInv, UNCHANGED <<answers, budget, jobs, worker, results, sum, completed, given>>
  PROVE  WorkersInv'
<1>1. (ContextDone' <=> ContextDone) /\ QueryResults' = QueryResults
  BY SameAnswers DEF ContextDone, Sequentially!Fine
<1>2. Explained(sum, completed, given)'
  BY SameExplanation DEF WorkersInv
<1>3. PICK n \in 0 .. PlanSize : Dealt(n, jobs, worker, results, completed, ContextDone)
  BY DEF WorkersInv
<1>4. Dealt(n, jobs, worker, results, completed, ContextDone)'
  BY <1>1, <1>3 DEF Dealt
<1>5. Apart(worker, results, completed)'
  BY DEF WorkersInv, Apart
<1>6. ASSUME ~ ContextDone', NEW i \in DOMAIN results'
      PROVE  results'[i] = Answered(results[i].query)'
  BY <1>1, <1>6 DEF WorkersInv, Answered
<1>7. UNCHANGED <<answers, worker, results>>
  OBVIOUS
<1> QED BY <1>1, <1>2, <1>4, <1>5, <1>6, <1>7 DEF WorkersInv

LEMMA SameOnlyIn == \A s, T : Sequentially!OnlyIn(s, T) = OnlyIn(s, T)
BY Zenon DEF Sequentially!OnlyIn, OnlyIn

LEMMA WholePlanList ==
  ASSUME PlanSize \in Nat, answers \in [1 .. PlanSize -> Answers]
  PROVE  /\ Sequentially!WholePlan \in Seq(1 .. PlanSize)
         /\ \A i \in DOMAIN Sequentially!WholePlan :
               i \in 1 .. PlanSize /\ Sequentially!WholePlan[i] = i
<1>1. Sequentially!WholePlan = [i \in 1 .. PlanSize |-> i]
  BY DEF Sequentially!WholePlan
<1> QED BY <1>1

\* What is returned after an issue is what one order of asking gives.
LEMMA IssueIsSequential ==
  ASSUME PlanSize \in Nat, answers \in [1 .. PlanSize -> Answers], NEW r, SumsUp(r, sum),
         sum.issue # Sequentially!Fine
  PROVE  \E order \in SetToSeqs(DOMAIN answers) :
            Sequentially!Report(sum.issue, <<>>) = Sequentially!Sequential(order)
<1>1. r \in Seq(1 .. PlanSize) /\ InOneOrder(r) /\ Len(r) \in Nat
  BY DEF SumsUp
<1>2. PICK f : IsSumming(f, Len(r), r) /\ sum = f[Len(r)]
  BY DEF SumsUp
<1>3. PICK order \in SetToSeqs(1 .. PlanSize) :
            /\ Len(order) = PlanSize /\ Len(r) <= PlanSize
            /\ \A i \in 1 .. Len(r) : order[i] = r[i]
  BY <1>1, OrderExtends
<1>4. PICK g : /\ IsSumming(g, PlanSize, order)
               /\ \E issue : /\ issue = g[PlanSize].issue
                             /\ Sequentially!Sequential(order) =
                                  Sequentially!Report(issue,
                                    IF issue = Sequentially!Fine
                                    THEN Sequentially!WholePlan ELSE <<>>)
  BY <1>3, SequentialIsLast
<1>5. \A i \in 1 .. Len(r) : r[i] = order[i]
  BY <1>3
<1>6. f[Len(r)] = g[Len(r)]
  BY <1>1, <1>2, <1>3, <1>4, <1>5, SummingAgrees
<1>7. g[PlanSize] = g[Len(r)]
  BY <1>1, <1>2, <1>3, <1>4, <1>6, SummingStops
<1>8. Sequentially!Sequential(order) = Sequentially!Report(sum.issue, <<>>)
  BY <1>2, <1>4, <1>6, <1>7
<1>9. DOMAIN answers = 1 .. PlanSize
  OBVIOUS
<1> QED BY <1>3, <1>8, <1>9

\* What is returned without one is every answer, if all were kept.
LEMMA WholeIsSequential ==
  ASSUME PlanSize \in Nat, answers \in [1 .. PlanSize -> Answers], NEW r, SumsUp(r, sum),
         sum.issue = Sequentially!Fine, ToSet(r) = 1 .. PlanSize
  PROVE  \E order \in SetToSeqs(DOMAIN answers) :
            Sequentially!Report(sum.issue, Sequentially!WholePlan) =
                Sequentially!Sequential(order)
<1> DEFINE m == Len(r)
<1>1. r \in Seq(1 .. PlanSize) /\ InOneOrder(r) /\ m \in Nat /\ DOMAIN r = 1 .. m
  BY DEF SumsUp
<1>2. PICK f : IsSumming(f, m, r) /\ sum = f[m]
  BY DEF SumsUp
<1>3. m = PlanSize
  <2>1. r \in Bijection(1 .. m, 1 .. PlanSize)
    <3>1. r \in [1 .. m -> 1 .. PlanSize]
      BY <1>1
    <3>2. \A q \in 1 .. PlanSize : \E i \in 1 .. m : r[i] = q
      BY <1>1 DEF ToSet
    <3> HIDE DEF m
    <3> QED BY <1>1, <3>1, <3>2
            DEF Bijection, Injection, Surjection, IsInjective, InOneOrder
  <2>2. ExistsBijection(1 .. m, 1 .. PlanSize)
    BY <2>1 DEF ExistsBijection
  <2> HIDE DEF m
  <2>3. IsFiniteSet(1 .. m) /\ Cardinality(1 .. m) = m
    BY <1>1, FS_Interval
  <2>4. Cardinality(1 .. PlanSize) = PlanSize
    BY FS_Interval
  <2>5. Cardinality(1 .. PlanSize) = Cardinality(1 .. m)
    BY <2>2, <2>3, FS_Bijection
  <2> QED BY <2>3, <2>4, <2>5
<1>4. PICK g : /\ IsSumming(g, m, r)
               /\ \E issue : /\ issue = g[m].issue
                             /\ Sequentially!Sequential(r) =
                                  Sequentially!Report(issue,
                                    IF issue = Sequentially!Fine
                                    THEN Sequentially!WholePlan ELSE <<>>)
  BY <1>1, SequentialIsLast
<1>5. f[m] = g[m]
  BY <1>1, <1>2, <1>4, SummingAgrees
<1>6. Sequentially!Sequential(r) = Sequentially!Report(sum.issue, Sequentially!WholePlan)
  BY <1>2, <1>4, <1>5
<1>7. r \in SetToSeqs(DOMAIN answers)
  <2>1. Cardinality(1 .. PlanSize) = PlanSize /\ DOMAIN answers = 1 .. PlanSize
    BY FS_Interval
  <2>2. r \in [1 .. PlanSize -> 1 .. PlanSize]
    BY <1>1, <1>3
  <2>3. \A i, j \in 1 .. PlanSize : i # j => r[i] # r[j]
    BY <1>1, <1>3 DEF InOneOrder
  <2> QED BY <2>1, <2>2, <2>3 DEF SetToSeqs
<1> QED BY <1>6, <1>7

LEMMA SameOrders == Sequentially!SetToSeqs(DOMAIN answers) = SetToSeqs(DOMAIN answers)
BY DEF Sequentially!SetToSeqs, SetToSeqs, Sequentially!Cardinality, Cardinality

\* What the workers return is what asking in some order, or giving up, allows.
LEMMA ReturnRefines ==
  ASSUME WorkersInv, Return
  PROVE  Sequentially!Finish \/ Sequentially!Abandon
<1>1. /\ report = Sequentially!NoReport /\ UNCHANGED <<answers, budget, given>>
      /\ jobs = <<>> /\ results = <<>> /\ \A w \in DOMAIN worker : worker[w] = 0
  BY DEF Return
<1>2. report' = IF sum.issue # Sequentially!Fine THEN Sequentially!Report(sum.issue, <<>>)
                ELSE Sequentially!Report(sum.issue, OnlyIn(Sequentially!WholePlan, completed))
  BY DEF Return
<1>3. /\ answers \in [1 .. PlanSize -> Answers] /\ DOMAIN answers = 1 .. PlanSize
      /\ PlanSize \in Nat /\ Explained(sum, completed, given)
  BY CollectionAssumption DEF WorkersInv
<1>4. PICK n \in 0 .. PlanSize : Dealt(n, jobs, worker, results, completed, ContextDone)
  BY DEF WorkersInv
<1> DEFINE whole == Sequentially!WholePlan
<1>5. /\ whole \in Seq(1 .. PlanSize)
      /\ \A i \in DOMAIN whole : i \in 1 .. PlanSize /\ whole[i] = i
  BY <1>3, WholePlanList
<1> HIDE DEF whole
<1>6. ASSUME \E order \in SetToSeqs(DOMAIN answers) : report' = Sequentially!Sequential(order)
      PROVE  Sequentially!Finish
  BY <1>1, <1>6, SameOrders DEF Sequentially!Finish
<1>7. ASSUME given, NEW issue \in {Sequentially!Fine, "DatasourceQueryCancelled"},
             NEW kept \in SUBSET DOMAIN answers, issue # Sequentially!Fine => kept = {},
             report' = Sequentially!Report(issue, OnlyIn(whole, kept))
      PROVE  Sequentially!Abandon
  <2>1. report' = Sequentially!Report(issue, Sequentially!OnlyIn(Sequentially!WholePlan, kept))
    BY <1>7, SameOnlyIn DEF whole
  <2> QED BY <1>1, <1>7, <2>1 DEF Sequentially!Abandon
<1>8. CASE sum.issue # Sequentially!Fine
  <2>1. report' = Sequentially!Report(sum.issue, <<>>)
    BY <1>2, <1>8
  <2>2. CASE \E r : SumsUp(r, sum)
    BY <1>3, <1>6, <1>8, <2>1, <2>2, IssueIsSequential
  <2>3. CASE given /\ sum.issue = "DatasourceQueryCancelled"
    <3>1. OnlyIn(whole, {}) = <<>>
      BY <1>5, OnlyInAllOrNone
    <3> QED BY <1>7, <2>1, <2>3, <3>1
  <2> QED BY <1>3, <1>8, <2>2, <2>3 DEF Explained
<1>9. CASE sum.issue = Sequentially!Fine
  <2>1. report' = Sequentially!Report(sum.issue, OnlyIn(whole, completed))
    BY <1>2, <1>9 DEF whole
  <2>2. PICK r : SumsUp(r, sum) /\ completed = ToSet(r)
    BY <1>3, <1>9 DEF Explained
  <2>3. completed \subseteq 1 .. n /\ completed \subseteq DOMAIN answers
    BY <1>3, <1>4 DEF Dealt
  <2>4. CASE given
    BY <1>7, <1>9, <2>1, <2>3, <2>4
  <2>5. CASE ~ given
    <3>1. n = PlanSize
      BY <1>1, <1>3, <1>4, NextJob, SMT DEF Dealt
    <3>2. \A q \in 1 .. n : q \in completed
      <4>1. ~ ContextDone
        BY <1>9, <2>5 DEF ContextDone
      <4>2. DOMAIN results = {}
        BY <1>1
      <4> QED BY <1>1, <1>4, <4>1, <4>2 DEF Dealt
    <3>3. ToSet(r) = 1 .. PlanSize /\ completed = 1 .. PlanSize
      BY <2>2, <2>3, <3>1, <3>2
    <3>4. OnlyIn(whole, completed) = whole
      BY <1>5, <3>3, OnlyInAllOrNone
    <3>5. report' = Sequentially!Report(sum.issue, Sequentially!WholePlan)
      BY <2>1, <3>4 DEF whole
    <3> QED BY <1>3, <1>6, <1>9, <2>2, <3>3, <3>5, WholeIsSequential
  <2> QED BY <2>4, <2>5
<1> QED BY <1>8, <1>9

\* The invariant of the workers, the channel and the sums.
THEOREM WorkersInvariant == ConcurrentCollection => []WorkersInv
<1>1. CollectionInit => WorkersInv
  BY WorkersBegin
<1>2. WorkersInv /\ [CollectionNext]_collectionVars => WorkersInv'
  <2> SUFFICES ASSUME WorkersInv, [CollectionNext]_collectionVars PROVE WorkersInv'
    OBVIOUS
  <2>1. CASE GiveUp
    BY <2>1, GiveUpKeepsInv
  <2>2. CASE \E w \in DOMAIN worker : Take(w)
    BY <2>2, TakeKeepsInv
  <2>3. CASE \E w \in DOMAIN worker : Answer(w)
    BY <2>3, AnswerKeepsInv
  <2>4. CASE Receive
    BY <2>4, ReceiveKeepsInv
  <2>5. CASE Return
    BY <2>5, ReturnKeepsInv DEF Return
  <2>6. CASE UNCHANGED collectionVars
    BY <2>6, ReturnKeepsInv DEF collectionVars
  <2> QED BY <2>1, <2>2, <2>3, <2>4, <2>5, <2>6 DEF CollectionNext
<1> QED BY <1>1, <1>2, PTL DEF ConcurrentCollection

(* However many workers collectDatasourceQueries runs and however they     *)
(* interleave, for every plan, budget and answer of the datasources: each  *)
(* step the caller sees is one the sequential collection may take.  (The   *)
(* fairness of CollectsSequentially is left to TLC.)                       *)
THEOREM ConcurrentIsSequential ==
  ConcurrentCollection => [][Sequentially!CollectionNext]_(Sequentially!specVars)
<1>1. WorkersInv /\ [CollectionNext]_collectionVars =>
        [Sequentially!CollectionNext]_(Sequentially!specVars)
  <2> SUFFICES ASSUME WorkersInv, [CollectionNext]_collectionVars
               PROVE  [Sequentially!CollectionNext]_(Sequentially!specVars)
    OBVIOUS
  <2>1. CASE GiveUp
    <3>1. Sequentially!GiveUp
      BY <2>1 DEF GiveUp, Sequentially!GiveUp, Sequentially!NoReport
    <3> QED BY <3>1 DEF Sequentially!CollectionNext
  <2>2. CASE UNCHANGED <<answers, budget, given, report>>
    BY <2>2 DEF Sequentially!specVars
  <2>3. CASE Return
    <3>1. Sequentially!Finish \/ Sequentially!Abandon
      BY <2>3, ReturnRefines
    <3>2. CASE report' # report
      BY <3>1, <3>2 DEF Sequentially!CollectionNext
    <3>3. CASE report' = report
      BY <2>3, <3>3 DEF Return, Sequentially!specVars
    <3> QED BY <3>2, <3>3
  <2> QED BY <2>1, <2>2, <2>3 DEF CollectionNext, Take, Answer, Receive, collectionVars
<1> QED BY <1>1, WorkersInvariant, PTL DEF ConcurrentCollection
=============================================================================
