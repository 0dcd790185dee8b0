--------------------------- MODULE CollectionSpec ---------------------------
(***************************************************************************)
(* What the collection of an investigation's queries promises whoever      *)
(* called it: the report is one that asking the datasources one after the  *)
(* other, in some order, stopping at the first trouble, would have given.  *)
(* Only when the caller has given up may it be less than that.             *)
(***************************************************************************)
EXTENDS Integers, Sequences, SequencesExt, Filtering

VARIABLES
    answers,     \* what each query of the plan would be answered
    budget,      \* [duration, bytes]: the cumulative limits; 0: no limit
    given,       \* TRUE: the caller's context is done
    report       \* NoReport, or what is returned

specVars == <<answers, budget, given, report>>

\* No issue.
Fine == ""

NoReport == [issue |-> "none", kept |-> <<>>]

Report(issue, kept) == [issue |-> issue, kept |-> kept]

WholePlan == [i \in DOMAIN answers |-> i]

\* The totals so far and the issue that ended the collection.
Nothing == [duration |-> 0, bytes |-> 0, issue |-> Fine]

AddAnswer(sum, a) ==
    LET duration == sum.duration + a.duration
        bytes    == sum.bytes + a.bytes
        over     == \/ budget.duration > 0 /\ duration > budget.duration
                    \/ budget.bytes > 0 /\ bytes > budget.bytes
    IN  IF sum.issue # Fine THEN sum
        ELSE IF a.issue # Fine THEN [sum EXCEPT !.issue = a.issue]
        ELSE [duration |-> duration, bytes |-> bytes,
              issue |-> IF over THEN "QueryBudgetExceeded" ELSE Fine]

Sequential(order) ==
    LET sum[i \in 0 .. Len(order)] ==
            IF i = 0 THEN Nothing ELSE AddAnswer(sum[i - 1], answers[order[i]])
        issue == sum[Len(order)].issue
    IN  Report(issue, IF issue = Fine THEN WholePlan ELSE <<>>)

\* The caller gives up.
GiveUp ==
    /\ ~ given
    /\ report = NoReport
    /\ given' = TRUE
    /\ UNCHANGED <<answers, budget, report>>

Finish ==
    /\ report = NoReport
    /\ \E order \in SetToSeqs(DOMAIN answers) : report' = Sequential(order)
    /\ UNCHANGED <<answers, budget, given>>

\* A caller that gave up gets an issue, or some of the answers in plan order.
Abandon ==
    /\ given
    /\ report = NoReport
    /\ \E issue \in {Fine, "QueryBudgetExceeded", "DatasourceQueryFailed",
                     "DatasourceQueryCancelled"} :
       \E kept \in SUBSET DOMAIN answers :
          /\ issue # Fine => kept = {}
          /\ report' = Report(issue, OnlyIn(WholePlan, kept))
    /\ UNCHANGED <<answers, budget, given>>

CollectionNext == GiveUp \/ (report' # report /\ (Finish \/ Abandon))

CollectionSpecification ==
    [][CollectionNext]_specVars /\ WF_specVars(Finish \/ Abandon)
=============================================================================
