----------------------------- MODULE Scheduling -----------------------------
(***************************************************************************)
(* The scheduling evidence of an investigation: which pods the target owns *)
(* (scope/resolver.go), what is read of each of them and of its events     *)
(* under one shared budget (datasource/kubernetes/scheduling.go), and the  *)
(* observations made of it (investigation/scheduling.go).                  *)
(*                                                                         *)
(* The reads are not atomic: a pod may be deleted, replaced under the same *)
(* name or assigned to a node between any two of them.  A pod's UID is its *)
(* name and the number of its incarnation.  A pod is                       *)
(*   [set, node, gated, scheduled, cause, events]                          *)
(* where set is the index of its ReplicaSet (0: none), scheduled and cause *)
(* are its PodScheduled condition, and each event is                       *)
(*   [id, reason, cause, when, at, legacy];                                *)
(* cause stands for its message and at for its time, which is in the       *)
(* incident's window or not as when says.  A legacy event has no           *)
(* eventTime, so events.k8s.io/v1 serves it undated.                       *)
(***************************************************************************)
EXTENDS Integers, Sequences, FiniteSets, SequencesExt, Filtering

CONSTANTS
    Worlds,               \* the clusters an investigation may meet
    MaxReplicaSets,       \* scope limits
    MaxScopePods,
    MaxSchedulingEvents,  \* scheduling limits: events and pages of a list
    MaxPages

ASSUME SchedulingAssumption ==
    {MaxReplicaSets, MaxScopePods, MaxSchedulingEvents, MaxPages} \subseteq Nat \ {0}

EventType == [id : Nat, reason : STRING, cause : STRING,
              when : {"within", "before", "after", "unknown"}, at : Nat,
              legacy : BOOLEAN]

PodType == [set : Nat, node : BOOLEAN, gated : BOOLEAN, scheduled : STRING,
            cause : STRING, events : Seq(EventType)]

(* Under each name there is a pod at first, and more may follow; a target  *)
(* that is not a Deployment is the pod of the first name.  The events of a *)
(* pod are told apart by their ids.  An API server may lack one of the two *)
(* event APIs, not both: each is part of every supported Kubernetes.       *)
ASSUME WorldsAssumption ==
    \A w \in Worlds :
        /\ w.pods \in Seq(Seq(PodType) \ {<<>>})
        /\ w.target # "Deployment" => w.pods # <<>>
        /\ w.without \in {"none", "core", "v1"}
        /\ \A n \in 1 .. Len(w.pods) : \A k \in 1 .. Len(w.pods[n]) :
              \A d, e \in ToSet(w.pods[n][k].events) : d.id = e.id => d = e

VARIABLES
    world,       \* [target, sets, pods, collects, requests, image, detail, cut,
                 \*  mismatch, without], where requests bounds the API requests
                 \*  and without is the event API that is not served
    live,        \* the incarnation of each pod name; 0 when deleted
    assigned,    \* UIDs of the pods that got a node meanwhile
    step,        \* what the investigation does next
    scope,       \* the pods whose evidence is collected
    records,     \* one record per pod read
    spent,       \* [api, scanned, exhausted]: schedulingCollectionBudget
    listing      \* the event lists of the record being completed

schedulingVars == <<world, live, assigned, step, scope, records, spent, listing>>

PodNames == 1 .. Len(world.pods)
Pod(uid) == world.pods[uid[1]][uid[2]]
Node(uid) == Pod(uid).node \/ uid \in assigned

-----------------------------------------------------------------------------
(* The cluster.                                                            *)

ReplacePod ==
    /\ step # "done"
    /\ \E n \in PodNames :
          /\ live[n] > 0
          /\ live' = [live EXCEPT
                ![n] = IF @ < Len(world.pods[n]) THEN @ + 1 ELSE 0]
    /\ UNCHANGED <<world, assigned, step, scope, records, spent, listing>>

\* The scheduler finds a node: the condition turns True.
AssignPod ==
    /\ step # "done"
    /\ \E n \in PodNames :
          /\ live[n] > 0
          /\ ~Node(<<n, live[n]>>) /\ ~Pod(<<n, live[n]>>).gated
          /\ assigned' = assigned \cup {<<n, live[n]>>}
    /\ UNCHANGED <<world, live, step, scope, records, spent, listing>>

-----------------------------------------------------------------------------
(* Ownership: Deployment -> ReplicaSet -> Pod, by controller UIDs.         *)

FirstOf(s, n) == SubSeq(s, 1, IF n < Len(s) THEN n ELSE Len(s))

LivePods == LET named == [n \in PodNames |-> <<n, live[n]>>]
            IN  OnlyIn(named, {uid \in ToSet(named) : uid[2] > 0})

NoScope == [complete |-> FALSE, pods |-> <<>>]

ResolveDeployment ==
    LET sets == FirstOf(world.sets, MaxReplicaSets)
        found == FirstOf(LivePods, MaxScopePods)
        owned == {uid \in ToSet(found) : /\ Pod(uid).set \in DOMAIN sets
                                         /\ sets[Pod(uid).set] = "owned"}
    IN  [complete |-> Len(world.sets) <= MaxReplicaSets
                      /\ Len(LivePods) <= MaxScopePods,
         pods |-> OnlyIn(found, owned)]

(* What a read of the target finds; any read may fail.  The only pod of a  *)
(* Pod target is the first one.                                            *)
Scopes ==
    {NoScope} \cup
    IF world.target = "Deployment" THEN {ResolveDeployment}
    ELSE IF live[1] > 0 THEN {[complete |-> TRUE, pods |-> <<<<1, live[1]>>>>]}
    ELSE {}

-----------------------------------------------------------------------------
(* Records.                                                                *)

\* A field that is not set.
Blank == ""

Unread(uid, coverage) ==
    [uid |-> uid, coverage |-> coverage, state |-> FALSE,
     node |-> FALSE, gated |-> FALSE, scheduled |-> Blank, cause |-> Blank,
     events |-> {}, truncated |-> coverage = "Truncated", stale |-> coverage = "Stale"]

NormalizeSchedulingPod(uid) ==
    [Unread(uid, "Complete") EXCEPT
        !.state = TRUE, !.node = Node(uid), !.gated = Pod(uid).gated,
        !.scheduled = IF uid \in assigned THEN "True" ELSE Pod(uid).scheduled,
        !.cause = IF uid \in assigned THEN Blank ELSE Pod(uid).cause]

MarkSchedulingCoverage(list, coverage) ==
    [i \in DOMAIN list |->
        IF list[i].coverage \in {"Complete", "Partial"}
        THEN [list[i] EXCEPT !.coverage = coverage] ELSE list[i]]

\* The coverage a failed read leaves; a pod that is not found is only unavailable.
FailureCoverage(outcome) ==
    CASE outcome = "forbidden" -> "Unauthorized"
      [] outcome = "timeout" -> "CollectionFailed"
      [] OTHER -> "Unavailable"

-----------------------------------------------------------------------------
(* Collection.  listing.at is the record whose events are being listed.    *)

NoListing == [at |-> 0, api |-> "none", page |-> 0, rest |-> <<>>,
              events |-> {}, truncated |-> FALSE, errors |-> <<>>]

SchedulingReasons ==
    {"FailedScheduling", "Scheduled", "Preempted", "Nominated", "SchedulingGated"}

Undated(e) == [e EXCEPT !.when = "unknown", !.at = 0]

\* The copies of the pod's events that an event API serves.
Served(api, uid) ==
    [i \in DOMAIN Pod(uid).events |->
        LET e == Pod(uid).events[i]
        IN  IF api = "v1" /\ e.legacy THEN Undated(e) ELSE e]

\* The listing of the next complete record after the given one.
NextListing(list, at) ==
    LET after == {i \in DOMAIN list : i > at /\ list[i].coverage = "Complete"}
        next == CHOOSE i \in after : \A j \in after : i <= j
    IN  IF after = {} THEN NoListing
        ELSE [NoListing EXCEPT !.at = next, !.api = "core",
                !.rest = Served("core", list[next].uid)]

Collected(list, at) ==
    /\ records' = list
    /\ listing' = NextListing(list, at)
    /\ step' = IF listing'.at = 0 THEN "diagnose" ELSE "events"

Failed(list, coverage) ==
    /\ records' = MarkSchedulingCoverage(list, coverage)
    /\ listing' = NoListing
    /\ step' = "diagnose"

(* collectSchedulingEvidence, after the datasource queries: without pods   *)
(* or a collector there is no scheduling evidence, and beyond the query    *)
(* budget there is only a marker for each pod.                             *)
CollectSchedulingEvidence ==
    /\ step = "scope"
    /\ \E found \in Scopes : scope' = found.pods
    /\ IF scope' = <<>> \/ world.collects = "no"
       THEN step' = "diagnose" /\ records' = <<>>
       ELSE IF world.collects = "overBudget"
       THEN /\ step' = "diagnose"
            /\ records' = [i \in DOMAIN scope' |-> Unread(scope'[i], "Truncated")]
       ELSE step' = "pods" /\ records' = <<>>
    /\ UNCHANGED <<world, live, assigned, spent, listing>>

\* The API budget is gone: the remaining pods are marked, the others completed.
PodBudgetExhausted ==
    /\ step = "pods" /\ spent.api >= world.requests
    /\ spent' = [spent EXCEPT !.exhausted = TRUE]
    /\ Collected([i \in DOMAIN scope |->
                    IF i \in DOMAIN records THEN records[i]
                    ELSE Unread(scope[i], "Truncated")], 0)
    /\ UNCHANGED <<world, live, assigned, scope>>

\* A fault: the pod found under the name is taken, whatever its UID.
FaultPodRecord(uid) ==
    IF live[uid[1]] = 0 THEN Unread(uid, "Unavailable")
    ELSE NormalizeSchedulingPod(<<uid[1], live[uid[1]]>>)

PodRecord(uid) ==
    IF live[uid[1]] = 0 THEN Unread(uid, "Unavailable")
    ELSE IF live[uid[1]] # uid[2] THEN Unread(uid, "Stale")
    ELSE NormalizeSchedulingPod(uid)

GetPod(outcome) ==
    LET uid == scope[Len(records) + 1]
    IN  /\ step = "pods" /\ spent.api < world.requests
        /\ spent' = [spent EXCEPT !.api = @ + 1]
        /\ IF outcome # "ok"
           THEN LET coverage == FailureCoverage(outcome)
                IN  Failed(Append(records, Unread(uid, coverage)), coverage)
           ELSE IF Len(records) + 1 = Len(scope)
           THEN Collected(Append(records, PodRecord(uid)), 0)
           ELSE /\ records' = Append(records, PodRecord(uid))
                /\ UNCHANGED <<step, listing>>
        /\ UNCHANGED <<world, live, assigned, scope>>

\* The list of one API ends; the other API's follows.
EndList(l) ==
    IF l.api = "v1" THEN [l EXCEPT !.api = "both"]
    ELSE [l EXCEPT !.api = "v1", !.page = 0,
                   !.rest = Served("v1", records[l.at].uid)]

\* listSchedulingEvents stops at a bound before it asks for the next page.
StopListing ==
    /\ step = "events" /\ listing.api \in {"core", "v1"}
    /\ IF listing.page >= MaxPages THEN UNCHANGED spent
       ELSE IF spent.api >= world.requests
       THEN spent' = [spent EXCEPT !.exhausted = TRUE]
       ELSE /\ spent.scanned >= MaxSchedulingEvents
            /\ spent' = [spent EXCEPT !.api = @ + 1, !.exhausted = TRUE]
    /\ listing' = EndList([listing EXCEPT !.truncated = TRUE])
    /\ UNCHANGED <<world, live, assigned, step, scope, records>>

(* One page: the server answers at most as many events as asked, one more  *)
(* than the budget allows, or fewer and a continue token.                  *)
ListPage(outcome, size) ==
    LET room == MaxSchedulingEvents - spent.scanned
        page == FirstOf(FirstOf(listing.rest, size), room + 1)
        kept == FirstOf(page, room)
        heard == [listing EXCEPT
            !.events = @ \cup {e \in ToSet(kept) : e.reason \in SchedulingReasons},
            !.rest = SubSeq(@, Len(page) + 1, Len(@)), !.page = @ + 1]
    IN  /\ step = "events" /\ listing.api \in {"core", "v1"}
        /\ listing.page < MaxPages /\ spent.api < world.requests /\ room > 0
        /\ outcome = "unsupported" => listing.api = world.without
        /\ outcome = "ok" => listing.api # world.without
        /\ spent' = [spent EXCEPT !.api = @ + 1,
                        !.scanned = @ + IF outcome = "ok" THEN Len(kept) ELSE 0]
        /\ listing' = IF outcome # "ok"
                      THEN EndList([listing EXCEPT
                              !.errors = IF outcome = "unsupported" THEN @
                                         ELSE Append(@, outcome)])
                      ELSE IF Len(page) > room
                      THEN EndList([heard EXCEPT !.truncated = TRUE])
                      ELSE IF heard.rest = <<>> THEN EndList(heard) ELSE heard
        /\ UNCHANGED <<world, live, assigned, step, scope, records>>

(* deduplicateSchedulingEvents.  Of the copies of one event the first in   *)
(* the order of the merged list stays, where those within the window come  *)
(* first; and of the events that say the same at the same time one stays,  *)
(* whichever of their ids sorts first.                                     *)
FirstCopies(events) ==
    {e \in events : e.when = "within" \/
        ~\E d \in events : d.id = e.id /\ d # e /\ (d.when = "within" \/ e.when # "unknown")}

Fingerprint(e) == <<e.reason, e.cause, e.when, e.at>>

FirstSaying(fingerprint, events) == CHOOSE d \in events : Fingerprint(d) = fingerprint

Deduplicated(events) ==
    {e \in FirstCopies(events) : e = FirstSaying(Fingerprint(e), FirstCopies(events))}

(* The record's events and coverage after both lists.  A source's failure  *)
(* comes first, then the record budget, the bounds of the lists, and last  *)
(* an event outside the incident's window.                                 *)
CompletedRecord(record, l, exhausted) ==
    LET events == Deduplicated(l.events)
        over == Cardinality(events) > MaxSchedulingEvents
        cut == over \/ l.truncated \/ exhausted
        outside == \E e \in events : e.when # "within"
    IN  [record EXCEPT
            !.events = events,
            !.truncated = cut,
            !.stale = l.errors = <<>> /\ ~cut /\ outside,
            !.coverage =
                IF over THEN "Truncated"
                ELSE IF l.errors # <<>> THEN FailureCoverage(Last(l.errors))
                ELSE IF cut THEN "Truncated"
                ELSE IF outside THEN "Stale" ELSE @]

CompleteRecord ==
    LET list == [records EXCEPT
                    ![listing.at] = CompletedRecord(@, listing, spent.exhausted)]
    IN  /\ step = "events" /\ listing.api = "both"
        /\ IF Contains(listing.errors, "timeout") THEN Failed(list, "CollectionFailed")
           ELSE IF Contains(listing.errors, "forbidden") THEN Failed(list, "Unauthorized")
           ELSE Collected(list, listing.at)
        /\ UNCHANGED <<world, live, assigned, scope, spent>>

-----------------------------------------------------------------------------
(* adaptSchedulingEvidence: an observation per record that may be used,    *)
(* with the events that are current and about the same pod.                *)

CurrentEvents(record) == {e \in record.events : e.when = "within"}

AdaptedRecords == {r \in ToSet(records) : r.coverage # "Unauthorized"}

StateCollected(r) == r.coverage = "Complete" \/ r.state

\* selectSchedulingEvent: the event the diagnostics see, failures first.
SelectedEvent(r) ==
    LET current == CurrentEvents(r)
        failed == {e \in current : e.reason = "FailedScheduling"}
        from == IF failed # {} THEN failed ELSE current
    IN  {e \in from : \A d \in from : e.id <= d.id}

SchedulingRefs(r) ==
    {[id |-> <<"pod", r.uid>>, kind |-> "scheduling", truncated |-> r.truncated,
      uid |-> r.uid, text |-> r.scheduled]}
    \cup {[id |-> <<"event", e.id>>, kind |-> "event", truncated |-> r.truncated,
           uid |-> r.uid,
           text |-> IF e.cause = "nonodes" THEN "nonodes" ELSE e.reason]
          : e \in CurrentEvents(r)}
=============================================================================
