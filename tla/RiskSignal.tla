----------------------------- MODULE RiskSignal -----------------------------
(***************************************************************************)
(* The life of one RiskSignal.  It is written by the controller that found *)
(* the risk: RiskRuleReconciler on its direct path (riskrule_controller    *)
(* .go), the legacy DeploymentRiskReconciler (deployment_risk_controller   *)
(* .go), or InvestigationRequestReconciler when it projects a verdict.     *)
(* RiskSignalReconciler (risksignal_controller.go) turns it into a         *)
(* RemediationPlan and deletes it when its TTL has passed, and             *)
(* RiskSignalNotificationReconciler (risksignal_notification_controller    *)
(* .go) announces it.                                                      *)
(*                                                                         *)
(* All of them run in one process, read one informer cache and write with  *)
(* optimistic concurrency: a write succeeds only if its base is the        *)
(* current version.  "fresh" says of every copy whether it is.  A          *)
(* Reconcile is started by an event of the cache, by an error of the last  *)
(* one or by a timer.                                                      *)
(***************************************************************************)
EXTENDS Integers

CONSTANTS
    Origins,            \* the controllers that may have found the risk
    Enabled,            \* TRUE: remediation is enabled
    MaxFaults           \* [Origins -> bound on failed notices and restarts]

ASSUME SignalAssumption ==
    /\ Origins \subseteq {"rule", "deployment", "investigation"}
    /\ Enabled \in BOOLEAN
    /\ MaxFaults \in [Origins -> Nat]

VARIABLES
    origin,      \* which controller found the risk
    signal,      \* the RiskSignal in the API server
    seen,        \* the RiskSignal in the informer cache
    fresh,       \* [Copies -> BOOLEAN]: whose copy is the current version
    queued,      \* [Watchers -> BOOLEAN]: whose work queue holds the signal
    pc,          \* [Controllers -> where its Reconcile is]
    timer,       \* TRUE: RiskSignalReconciler asked to be called at expiry
    plan,        \* the RemediationPlan: "none", "owned", or an "orphan"
    announced,   \* TRUE: a notice of this signal was delivered
    faults       \* failed notices and restarts that may still happen

signalVars == <<origin, signal, seen, fresh, queued, pc, timer, plan, announced,
                faults>>

Watchers == {"remediation", "notification"}

Controllers == Watchers \cup {"writer"}

Copies == Controllers \cup {"cache"}

(* "ready" is the condition RCAReady, which matters on a projected signal  *)
(* only and is kept for no other; "expired": the TTL has passed.           *)
Signals == [exists : BOOLEAN, phase : {"", "Confirmed", "Notified",
            "ReadyForApproval"}, ready : {"none", "True", "False"},
            annotated : BOOLEAN, expired : BOOLEAN]

NoSignal == [exists |-> FALSE, phase |-> "", ready |-> "none",
             annotated |-> FALSE, expired |-> FALSE]

NewSignal == [NoSignal EXCEPT !.exists = TRUE]

SignalTypeOK ==
    /\ origin \in Origins
    /\ signal \in Signals
    /\ seen \in Signals
    /\ fresh \in [Copies -> BOOLEAN]
    /\ queued \in [Watchers -> BOOLEAN]
    /\ pc \in [Controllers -> {"idle", "plan", "annotate", "status",
                              "done"}]
    /\ timer \in BOOLEAN
    /\ plan \in {"none", "owned", "orphan"}
    /\ announced \in BOOLEAN
    /\ faults \in 0 .. MaxFaults[origin]

SignalInit ==
    /\ origin \in Origins
    /\ signal = NoSignal
    /\ seen = NoSignal
    /\ fresh = [c \in Copies |-> c = "cache"]
    /\ queued = [w \in Watchers |-> FALSE]
    /\ pc = [c \in Controllers |-> "idle"]
    /\ timer = FALSE
    /\ plan = "none"
    /\ announced = FALSE
    /\ faults = MaxFaults[origin]

-----------------------------------------------------------------------------
(* Writes, copies and queues.                                              *)

\* c's write goes through: its copy is now the only current one.
Write(c, s) ==
    /\ signal' = s
    /\ fresh' = [x \in Copies |-> x = c]

\* c reads the signal from the cache.
Read(c) == fresh' = [fresh EXCEPT ![c] = fresh["cache"]]

\* c's copy may be written back.
Current(c) == fresh[c] /\ signal.exists

(* A status write whose conflict recordStatusUpdateConflict swallows; the  *)
(* write of a signal that is gone is an error, which starts another        *)
(* Reconcile.                                                              *)
WriteStatus(c, s) ==
    /\ IF Current(c) THEN Write(c, s) ELSE UNCHANGED <<signal, fresh>>
    /\ pc' = [pc EXCEPT ![c] = "idle"]
    /\ queued' = [w \in Watchers |-> queued[w] \/ (w = c /\ ~ signal.exists)]

-----------------------------------------------------------------------------
(* The environment.                                                        *)

\* The cache receives the current version; its watchers are told.
Sync ==
    /\ ~ fresh["cache"]
    /\ seen' = signal
    /\ fresh' = [fresh EXCEPT !["cache"] = TRUE]
    /\ queued' = [w \in Watchers |-> TRUE]
    /\ UNCHANGED <<origin, signal, pc, timer, plan, announced, faults>>

\* creationTimestamp + ttlSeconds passes.  No version changes.
Age ==
    /\ signal.exists
    /\ ~ signal.expired
    /\ signal' = [signal EXCEPT !.expired = TRUE]
    /\ seen' = [seen EXCEPT !.expired = seen.exists]
    /\ UNCHANGED <<origin, fresh, queued, pc, timer, plan, announced, faults>>

\* The process restarts and lists everything again.
Crash ==
    /\ faults > 0
    /\ faults' = faults - 1
    /\ pc' = [c \in Controllers |-> IF pc[c] = "done" THEN "done" ELSE "idle"]
    /\ fresh' = [c \in Copies |-> c = "cache"]
    /\ seen' = signal
    /\ queued' = [w \in Watchers |-> TRUE]
    /\ timer' = FALSE
    /\ UNCHANGED <<origin, signal, plan, announced>>

\* Garbage collection removes the plan of a signal that is gone.
CollectPlan ==
    /\ plan = "orphan"
    /\ plan' = "none"
    /\ queued' = [queued EXCEPT !["remediation"] = @ \/ Enabled]
    /\ UNCHANGED <<origin, signal, seen, fresh, pc, timer, announced, faults>>

-----------------------------------------------------------------------------
(* The controller that found the risk: CreateOrUpdate of the spec, which   *)
(* fails if the cache is behind and writes nothing if nothing changed,     *)
(* then the status from the object it returned.                            *)

CreateOrUpdate ==
    /\ pc["writer"] \in {"idle", "done"}
    /\ \/ /\ ~ seen.exists
          /\ ~ signal.exists
          /\ Write("writer", NewSignal)
          /\ announced' = FALSE
       \/ /\ seen.exists
          /\ Read("writer")
          /\ UNCHANGED <<signal, announced>>
       \/ /\ seen.exists
          /\ Current("cache")
          /\ Write("writer", signal)
          /\ UNCHANGED announced
    /\ pc' = [pc EXCEPT !["writer"] = "status"]
    /\ UNCHANGED <<origin, seen, queued, timer, plan, faults>>

\* upsertRiskSignal; the condition applyRCAResult writes is not read again.
UpsertRiskSignal ==
    /\ origin = "rule"
    /\ \/ CreateOrUpdate
       \/ /\ pc["writer"] = "status"
          /\ WriteStatus("writer", [signal EXCEPT !.phase = "Confirmed"])
          /\ UNCHANGED <<origin, seen, timer, plan, announced, faults>>

\* DeploymentRiskReconciler.Reconcile writes no condition.
ReportDeployment ==
    /\ origin = "deployment"
    /\ \/ CreateOrUpdate
       \/ /\ pc["writer"] = "status"
          /\ WriteStatus("writer", [signal EXCEPT !.phase = "Confirmed"])
          /\ UNCHANGED <<origin, seen, timer, plan, announced, faults>>

(* promoteToRiskSignal is called for confirmed outcomes only.  The request *)
(* is then finished, whether or not the status was written, until its spec *)
(* is edited; an error or a crash before that repeats it.                  *)
PromoteToRiskSignal ==
    /\ origin = "investigation"
    /\ \/ CreateOrUpdate
       \/ /\ pc["writer"] = "status"
          /\ IF Current("writer")
             THEN Write("writer", [signal EXCEPT !.phase = "Confirmed",
                                                 !.ready = "True"])
             ELSE UNCHANGED <<signal, fresh>>
          /\ pc' = [pc EXCEPT !["writer"] =
                      IF signal.exists THEN "done" ELSE "idle"]
          /\ UNCHANGED <<origin, seen, queued, timer, plan, announced, faults>>

-----------------------------------------------------------------------------
(* RiskSignalReconciler.                                                   *)

HasUnverifiedInvestigationProjection(s) ==
    /\ origin = "investigation"
    /\ \/ s.ready = "False"
       \/ (s.ready = "none" /\ s.phase = "")

\* A fault: a signal that was announced first counts as handled.
FaultProceeds(s) ==
    Enabled /\ ~ HasUnverifiedInvestigationProjection(s) /\ s.phase # "Notified"

\* The gates a signal passes before its plan is made.
Proceeds(s) == Enabled /\ ~ HasUnverifiedInvestigationProjection(s)

Timer ==
    /\ timer
    /\ signal.expired
    /\ timer' = FALSE
    /\ queued' = [queued EXCEPT !["remediation"] = TRUE]
    /\ UNCHANGED <<origin, signal, seen, fresh, pc, plan, announced, faults>>

FaultReconcileSignal ==
    /\ queued["remediation"]
    /\ pc["remediation"] = "idle"
    /\ queued' = [queued EXCEPT !["remediation"] = FALSE]
    /\ \/ /\ ~ seen.exists
          /\ UNCHANGED <<signal, fresh, pc, timer, plan>>
       \/ /\ seen.exists
          /\ seen.expired
          /\ Write("remediation", NoSignal)
          /\ plan' = IF plan = "owned" THEN "orphan" ELSE plan
          /\ UNCHANGED <<pc, timer>>
       \/ /\ seen.exists
          /\ ~ seen.expired
          /\ Read("remediation")
          /\ IF Proceeds(seen)
             THEN /\ timer' = TRUE
                  /\ pc' = [pc EXCEPT !["remediation"] = "plan"]
             ELSE UNCHANGED <<pc, timer>>
          /\ UNCHANGED <<signal, plan>>
    /\ UNCHANGED <<origin, seen, announced, faults>>

(* Reconcile up to the plan.  handleTTL deletes by name, whatever version  *)
(* was read; the plan's owner is then gone.  Every other way out asks for  *)
(* a call at expiry.                                                       *)
ReconcileSignal ==
    /\ queued["remediation"]
    /\ pc["remediation"] = "idle"
    /\ queued' = [queued EXCEPT !["remediation"] = FALSE]
    /\ \/ /\ ~ seen.exists
          /\ UNCHANGED <<signal, fresh, pc, timer, plan>>
       \/ /\ seen.exists
          /\ seen.expired
          /\ Write("remediation", NoSignal)
          /\ plan' = IF plan = "owned" THEN "orphan" ELSE plan
          /\ UNCHANGED <<pc, timer>>
       \/ /\ seen.exists
          /\ ~ seen.expired
          /\ timer' = TRUE
          /\ Read("remediation")
          /\ IF Proceeds(seen)
             THEN pc' = [pc EXCEPT !["remediation"] = "plan"]
             ELSE UNCHANGED pc
          /\ UNCHANGED <<signal, plan>>
    /\ UNCHANGED <<origin, seen, announced, faults>>

(* CreateOrUpdate of the plan.  SetControllerReference compares owners by  *)
(* name, so the plan of a deleted predecessor is adopted.  The plan's      *)
(* event comes back to its owner.                                          *)
MaterializePlan ==
    /\ pc["remediation"] = "plan"
    /\ plan' = IF signal.exists THEN "owned" ELSE "orphan"
    /\ queued' = [queued EXCEPT !["remediation"] = @ \/ plan' # plan]
    /\ pc' = [pc EXCEPT !["remediation"] = "status"]
    /\ UNCHANGED <<origin, signal, seen, fresh, timer, announced, faults>>

(* The status carries the time, so that it changes at every pass but those *)
(* of the same second: the write starts the next Reconcile.                *)
RecordPlan ==
    /\ pc["remediation"] = "status"
    /\ \/ WriteStatus("remediation", [signal EXCEPT !.phase = "ReadyForApproval"])
       \/ /\ signal.phase = "ReadyForApproval"
          /\ pc' = [pc EXCEPT !["remediation"] = "idle"]
          /\ UNCHANGED <<signal, fresh, queued>>
    /\ UNCHANGED <<origin, seen, timer, plan, announced, faults>>

-----------------------------------------------------------------------------
(* RiskSignalNotificationReconciler.                                       *)

FaultNotify ==
    /\ queued["notification"]
    /\ pc["notification"] = "idle"
    /\ queued' = [queued EXCEPT !["notification"] = FALSE]
    /\ IF seen.exists /\ ~ seen.annotated
       THEN \/ /\ Read("notification")
               /\ announced' = TRUE
               /\ pc' = [pc EXCEPT !["notification"] = "annotate"]
               /\ UNCHANGED faults
            \/ /\ faults > 0
               /\ faults' = faults - 1
               /\ UNCHANGED <<fresh, announced, pc>>
       ELSE UNCHANGED <<fresh, announced, pc, faults>>
    /\ UNCHANGED <<origin, signal, seen, timer, plan>>

\* A failed notice is an error: the signal goes back to the queue.
Notify ==
    /\ queued["notification"]
    /\ pc["notification"] = "idle"
    /\ IF seen.exists /\ ~ seen.annotated
       THEN \/ /\ Read("notification")
               /\ announced' = TRUE
               /\ pc' = [pc EXCEPT !["notification"] = "annotate"]
               /\ queued' = [queued EXCEPT !["notification"] = FALSE]
               /\ UNCHANGED faults
            \/ /\ faults > 0
               /\ faults' = faults - 1
               /\ UNCHANGED <<fresh, announced, pc, queued>>
       ELSE /\ queued' = [queued EXCEPT !["notification"] = FALSE]
            /\ UNCHANGED <<fresh, announced, pc, faults>>
    /\ UNCHANGED <<origin, signal, seen, timer, plan>>

FaultAnnotate ==
    /\ pc["notification"] = "annotate"
    /\ IF signal.exists
       THEN /\ Write("notification", [signal EXCEPT !.annotated = TRUE])
            /\ pc' = [pc EXCEPT !["notification"] = "status"]
            /\ UNCHANGED queued
       ELSE /\ pc' = [pc EXCEPT !["notification"] = "idle"]
            /\ queued' = [queued EXCEPT !["notification"] = TRUE]
            /\ UNCHANGED <<signal, fresh>>
    /\ UNCHANGED <<origin, seen, timer, plan, announced, faults>>

(* The annotation that suppresses the next notice.  A conflict is          *)
(* swallowed; the update of a deleted signal is an error.                  *)
Annotate ==
    /\ pc["notification"] = "annotate"
    /\ IF Current("notification")
       THEN Write("notification", [signal EXCEPT !.annotated = TRUE])
       ELSE UNCHANGED <<signal, fresh>>
    /\ pc' = [pc EXCEPT !["notification"] =
                IF signal.exists THEN "status" ELSE "idle"]
    /\ queued' = [queued EXCEPT !["notification"] = @ \/ ~ signal.exists]
    /\ UNCHANGED <<origin, seen, timer, plan, announced, faults>>

(* The signal is read again from the cache and its status written: the     *)
(* two are one step, as a conflict between them changes nothing.           *)
RecordNotice ==
    /\ pc["notification"] = "status"
    /\ IF seen.exists /\ Current("cache")
       THEN Write("notification", [signal EXCEPT !.phase = "Notified"])
       ELSE UNCHANGED <<signal, fresh>>
    /\ pc' = [pc EXCEPT !["notification"] = "idle"]
    /\ queued' = [queued EXCEPT !["notification"] =
                    @ \/ (seen.exists /\ ~ signal.exists)]
    /\ UNCHANGED <<origin, seen, timer, plan, announced, faults>>

-----------------------------------------------------------------------------

SignalNext ==
    \/ Sync \/ Age \/ Crash \/ CollectPlan \/ Timer
    \/ UpsertRiskSignal \/ ReportDeployment \/ PromoteToRiskSignal
    \/ ReconcileSignal \/ MaterializePlan \/ RecordPlan
    \/ Notify \/ Annotate \/ RecordNotice

(* Work queues are served, watch events arrive, timers fire and garbage is *)
(* collected.  A confirmed request is projected, again after an error or a *)
(* crash; the rate at which risks are found or expire and the process      *)
(* restarts is nobody's promise.                                           *)
SignalFairness ==
    /\ WF_signalVars(Sync)
    /\ WF_signalVars(Timer)
    /\ WF_signalVars(CollectPlan)
    /\ WF_signalVars(pc["writer"] # "done" /\ PromoteToRiskSignal)
    /\ WF_signalVars(ReconcileSignal)
    /\ WF_signalVars(MaterializePlan)
    /\ WF_signalVars(RecordPlan)
    /\ WF_signalVars(Notify)
    /\ WF_signalVars(Annotate)
    /\ WF_signalVars(RecordNotice)

SignalSpec == SignalInit /\ [][SignalNext]_signalVars

-----------------------------------------------------------------------------
(* The annotation that silences the notifier is found only on a signal for *)
(* which a notice was delivered: never on a successor of the same name     *)
(* that was created while the notice of its predecessor was on its way.    *)
AnnotatedWasAnnounced == signal.exists /\ signal.annotated => announced

(* Every RiskSignal is announced unless it is deleted first, whatever      *)
(* conflicts, failed notices and restarts get in the way.                  *)
SignalIsAnnounced == signal.exists ~> (announced \/ ~ signal.exists)

(* A signal whose time has come is deleted, although the timer that says   *)
(* so is lost in a restart and most Reconciles end before the plan.        *)
ExpiredSignalGoes == (signal.exists /\ signal.expired) ~> ~ signal.exists

(* With remediation enabled every signal that passes the gate gets its own *)
(* plan unless it is deleted first, also when it takes over from a deleted *)
(* one of the same name whose plan is still there.  (A projected signal    *)
(* whose status was lost to a conflict with the annotation may stay at the *)
(* gate for ever.)                                                         *)
SignalIsPlanned ==
    (Enabled /\ signal.exists /\ ~ HasUnverifiedInvestigationProjection(signal))
        ~> (plan = "owned" \/ ~ signal.exists)
=============================================================================
