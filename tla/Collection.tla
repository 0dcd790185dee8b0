----------------------------- MODULE Collection -----------------------------
(***************************************************************************)
(* The concurrent collection of datasource queries: collectDatasource-     *)
(* Queries of internal/investigation/service.go, its workers, the channel  *)
(* of their results and the context they share.                            *)
(*                                                                         *)
(* A query asked in a live context is answered by its datasource; once the *)
(* context is done it may be answered with the cancellation instead.       *)
(***************************************************************************)
EXTENDS Integers, Sequences, SequencesExt, Filtering

CONSTANTS
    Answers,         \* [issue, duration, bytes] a datasource may answer
    Budgets,         \* [duration, bytes] of the budgets tried
    PlanSize,        \* the number of queries of the plan
    MaxConcurrents   \* the values of queryBudget.maxConcurrentQueries tried

ASSUME CollectionAssumption ==
    /\ PlanSize \in Nat \ {0}
    /\ MaxConcurrents \subseteq Nat
    /\ \A a \in Answers : a.duration \in Nat /\ a.bytes \in Nat

VARIABLES
    answers,     \* the answer of each query of the plan
    budget,      \* the cumulative limits
    concurrency, \* the number of workers
    jobs,        \* the channel of query indices, filled and closed at once
    worker,      \* [1 .. concurrency -> index of its query, 0 when idle]
    results,     \* the channel of results
    sum,         \* cumulative duration and bytes, and the first issue
    completed,   \* the queries whose results were kept
    given,       \* TRUE: the caller's context is done
    report       \* what is returned

collectionVars == <<answers, budget, concurrency, jobs, worker, results, sum,
                    completed, given, report>>

\* The caller sees the report and whether it gave up; workers, channel, sums
\* and context are hidden.
Sequentially == INSTANCE CollectionSpec
    WITH answers <- answers, budget <- budget, given <- given, report <- report

\* A client whose context ends reports the datasource as unavailable; the
\* reason of its own keeps these results apart from the datasource's answers.
Cancelled(q) == [query |-> q, issue |-> "DatasourceQueryCancelled",
                 duration |-> 0, bytes |-> 0]

Answered(q) == [query |-> q, issue |-> answers[q].issue,
                duration |-> answers[q].duration, bytes |-> answers[q].bytes]

EffectiveDatasourceQueryConcurrency(max, planSize) ==
    LET wanted == IF max <= 0 THEN 1 ELSE max
    IN  IF wanted > planSize THEN planSize ELSE wanted

\* An empty plan is answered without workers.
NoCollection ==
    /\ answers = <<>>
    /\ budget = [duration |-> 0, bytes |-> 0]
    /\ concurrency = 0
    /\ jobs = <<>>
    /\ worker = <<>>
    /\ results = <<>>
    /\ sum = Sequentially!Nothing
    /\ completed = {}
    /\ given = FALSE
    /\ report = Sequentially!Report(Sequentially!Fine, <<>>)

CollectionInit ==
    /\ answers \in [1 .. PlanSize -> Answers]
    /\ budget \in Budgets
    /\ concurrency \in {EffectiveDatasourceQueryConcurrency(max, PlanSize) :
                           max \in MaxConcurrents}
    /\ jobs = [i \in 1 .. PlanSize |-> i]
    /\ worker = [w \in 1 .. concurrency |-> 0]
    /\ results = <<>>
    /\ sum = Sequentially!Nothing
    /\ completed = {}
    /\ given = FALSE
    /\ report = Sequentially!NoReport

\* queryCtx is cancelled at the first issue, or with the caller's context.
ContextDone == given \/ sum.issue # Sequentially!Fine

GiveUp ==
    /\ ~ given
    /\ report = Sequentially!NoReport
    /\ given' = TRUE
    /\ UNCHANGED <<answers, budget, concurrency, jobs, worker, results, sum,
                   completed, report>>

\* A worker takes the next query, and drops it when the context is done.
Take(w) ==
    /\ worker[w] = 0
    /\ jobs # <<>>
    /\ jobs' = Tail(jobs)
    /\ worker' = [worker EXCEPT ![w] = IF ContextDone THEN 0 ELSE Head(jobs)]
    /\ UNCHANGED <<answers, budget, concurrency, results, sum, completed,
                   given, report>>

\* collectDatasourceQuery returns; the channel has room for every result.
Answer(w) ==
    /\ worker[w] # 0
    /\ \/ results' = Append(results, Answered(worker[w]))
       \/ ContextDone /\ results' = Append(results, Cancelled(worker[w]))
    /\ worker' = [worker EXCEPT ![w] = 0]
    /\ UNCHANGED <<answers, budget, concurrency, jobs, sum, completed, given,
                   report>>

FaultReceive ==
    /\ results # <<>>
    /\ LET result == Head(results)
       IN  /\ sum' = Sequentially!AddAnswer([sum EXCEPT !.issue = Sequentially!Fine], result)
           /\ completed' = IF sum'.issue = Sequentially!Fine
                           THEN completed \cup {result.query} ELSE completed
    /\ results' = Tail(results)
    /\ UNCHANGED <<answers, budget, concurrency, jobs, worker, given, report>>

(* The loop over the results: the first issue stays, what comes after it   *)
(* is drained.  A result over the budget is an issue like any other.       *)
Receive ==
    /\ results # <<>>
    /\ LET result == Head(results)
       IN  /\ sum' = Sequentially!AddAnswer(sum, result)
           /\ completed' = IF sum'.issue = Sequentially!Fine
                           THEN completed \cup {result.query} ELSE completed
    /\ results' = Tail(results)
    /\ UNCHANGED <<answers, budget, concurrency, jobs, worker, given, report>>

\* The workers are gone, the channel is closed and drained.
Return ==
    /\ report = Sequentially!NoReport
    /\ jobs = <<>>
    /\ \A w \in DOMAIN worker : worker[w] = 0
    /\ results = <<>>
    /\ report' = IF sum.issue # Sequentially!Fine THEN Sequentially!Report(sum.issue, <<>>)
                 ELSE Sequentially!Report(sum.issue,
                                          OnlyIn(Sequentially!WholePlan, completed))
    /\ UNCHANGED <<answers, budget, concurrency, jobs, worker, results, sum,
                   completed, given>>

CollectionNext ==
    \/ GiveUp
    \/ \E w \in DOMAIN worker : Take(w) \/ Answer(w)
    \/ Receive
    \/ Return

ConcurrentCollection == CollectionInit /\ [][CollectionNext]_collectionVars

\* Goroutines run; datasource clients and Kubernetes clients have timeouts.
CollectionFairness ==
    /\ WF_collectionVars(\E w \in DOMAIN worker : Take(w) \/ Answer(w))
    /\ WF_collectionVars(Receive)
    /\ WF_collectionVars(Return)

-----------------------------------------------------------------------------
(* However the workers interleave, the caller gets what asking one         *)
(* datasource after the other could have given it: every result, in the    *)
(* order of the plan, or the issue of a query that really had one.  It is  *)
(* never told of the cancellation its own first issue caused, never given  *)
(* part of the results without an issue unless it gave up itself, and      *)
(* never left waiting.                                                     *)
CollectsSequentially == Sequentially!CollectionSpecification
=============================================================================
