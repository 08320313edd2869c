--------------------------- MODULE EvaluationRuns ----------------------------
(***************************************************************************)
(* EvaluationRunner (src/evaluation.py), ExperimentRunner                  *)
(* (src/experiments.py) and the review queue (src/review_queue.py) behind  *)
(* the endpoints of src/main.py: runs of the golden cases, alone or as an  *)
(* A/B test, that share an agent and a queue.  A run awaits the agent and  *)
(* nothing else.  Latencies, severities and the queue's order (by time of  *)
(* creation) are left out.                                                 *)
(*                                                                         *)
(* A case is [prompt, tools, resolution, context]; its id is its number.   *)
(***************************************************************************)
EXTENDS TroubleshootingAgent

CONSTANTS
    Phrases,         \* what prompts are made of
    Cases,           \* golden cases
    Inputs,          \* [backend, dataset, kind]: kind[r] is the endpoint r calls
    StrictPhrases    \* what strict_grounded adds to a prompt

VARIABLES
    dataset,   \* the golden cases
    kind,      \* "evaluation" or "ab_test"
    run,       \* run[r]: progress of r
    queue      \* _items of the ReviewQueue

given == <<backend, dataset, kind>>
vars == <<given, graph, run, queue>>

NegativePhrases == {"does not consent", "declines", "not provided", "no consent"}
PositivePhrases == {"consents", "permission granted"}

Endpoints == {"evaluation", "ab_test"}

ASSUME RunsAssumption ==
    /\ None \notin {"online", "degraded", "offline", "resolved", "no_action", "escalate"}
    /\ StrictPhrases \subseteq Phrases \ (OfflineTerms \union DegradedTerms)
    /\ IsFiniteSet(StrictPhrases)

ASSUME CasesAssumption ==
    \A case \in Cases :
        /\ case.prompt \subseteq Phrases /\ IsFiniteSet(case.prompt)
        /\ case.tools \in Seq({Telemetry, Reset})
        /\ IsFiniteSet(case.context) /\ Cardinality(case.context) <= 100

\* The dataset has a case.
ASSUME InputsAssumption ==
    \A i \in Inputs :
        /\ i.backend \in {"local", "qdrant"}
        /\ i.dataset \in Seq(Cases) \ {<<>>}
        /\ i.kind \in [Calls -> Endpoints]

HasExplicitResetConsent(prompt) ==
    /\ prompt \intersect NegativePhrases = {}
    /\ prompt \intersect PositivePhrases # {}

\* PROMPT_STRATEGIES, in order.
Strategies(endpoint) ==
    IF endpoint = "ab_test" THEN <<"baseline", "strict_grounded">> ELSE <<"baseline">>

\* Variant: the instruction takes the prompt's place.
TransformReplaces(strategy, prompt) ==
    IF strategy = "strict_grounded" THEN StrictPhrases ELSE prompt

\* baseline and strict_grounded
Transform(strategy, prompt) ==
    IF strategy = "strict_grounded" THEN prompt \union StrictPhrases ELSE prompt
-----------------------------------------------------------------------------
(* One case. *)

StrategyOf(r, progress) == Strategies(kind[r])[Len(progress.runs) + 1]

\* What the next case asks the agent.
Request(r, progress) ==
    LET prompt == dataset[Len(progress.results) + 1].prompt
    IN  Asked(Transform(StrategyOf(r, progress), prompt), HasExplicitResetConsent(prompt))

\* The mean of context coverage and the agent's groundedness.
Groundedness(cited, context, own) ==
    LET expected == Max2(Cardinality(context), 1)
    IN  Thousandths(1000 * Cardinality(context \intersect cited) + own * expected,
                    2000 * expected)

\* Variant: groundedness of exactly 0.75 is reviewed too.
NeedsReviewAtThreshold(groundedness, risk) == risk > 350 \/ groundedness <= 750

\* The thresholds of route_if_needed.
NeedsReview(groundedness, risk) == risk > 350 \/ groundedness < 750

\* CaseEvaluationResult of the case that the agent has answered.
Result(r) ==
    LET state == graph[r]
        number == Len(run[r].results) + 1
        case == dataset[number]
        groundedness == Groundedness(state.citations, case.context, state.groundedness)
        risk == Max2(1000 - state.groundedness, 1000 - groundedness)
    IN  [case |-> number, strategy |-> StrategyOf(r, run[r]), status |-> state.status,
         tools |-> state.tools, cited |-> state.citations,
         accuracy |-> Accuracy(state.tools, case.tools),
         completed |-> state.status = case.resolution,
         groundedness |-> groundedness, risk |-> risk,
         routed |-> NeedsReview(groundedness, risk)]

Item(result) ==
    [strategy |-> result.strategy, case |-> result.case,
     groundedness |-> result.groundedness, risk |-> result.risk]

SameKey(item, other) == item.strategy = other.strategy /\ item.case = other.case

\* Variant: the key is the case alone.
RoutedByCase(result) ==
    IF result.routed THEN {i \in queue : i.case # result.case} \union {Item(result)} ELSE queue

\* route_if_needed: an item with the same key is replaced.
Routed(result) ==
    IF result.routed
    THEN {i \in queue : ~SameKey(i, result)} \union {Item(result)}
    ELSE queue
-----------------------------------------------------------------------------
(* A run. *)

\* A sum, and how many results are flagged.
Total(numbers) == MapThenSumSet(LAMBDA n : numbers[n], DOMAIN numbers)
Count(results, flag) == Cardinality({n \in DOMAIN results : results[n][flag]})

\* Variant: the items of the queue are counted.
ReviewedInQueue(results) == Cardinality(queue)

\* review_queue_count
Reviewed(results) == Count(results, "routed")

Mean(results, metric) ==
    Thousandths(Total([n \in DOMAIN results |-> results[n][metric]]), 1000 * Len(results))

\* _aggregate
Aggregate(results) ==
    [accuracy |-> Mean(results, "accuracy"),
     completion |-> Thousandths(Count(results, "completed"), Len(results)),
     groundedness |-> Mean(results, "groundedness"),
     risk |-> Mean(results, "risk"),
     reviewed |-> Reviewed(results)]

\* EvaluationRunResult
Finished(r, results) ==
    [strategy |-> StrategyOf(r, run[r]), aggregate |-> Aggregate(results), cases |-> results]

\* With these results, what r does up to its next await or its response.
After(r, results) ==
    IF Len(results) < Len(dataset) THEN [run[r] EXCEPT !.results = results]
    ELSE [phase |-> IF Len(run[r].runs) + 1 < Len(Strategies(kind[r]))
                    THEN "running" ELSE "done",
          runs |-> Append(run[r].runs, Finished(r, results)),
          results |-> <<>>]

\* The comparison of an A/B test: no difference between the two.
NoDelta(r, metric) == run[r].runs[1].aggregate[metric] = run[r].runs[2].aggregate[metric]

Init ==
    /\ \E i \in Inputs : backend = i.backend /\ dataset = i.dataset /\ kind = i.kind
    /\ graph = [r \in Calls |-> Idle]
    /\ run = [r \in Calls |-> [phase |-> "new", runs |-> <<>>, results |-> <<>>]]
    /\ queue = {}

\* run_evaluations and run_ab_test, up to the first await.
StartRun(r) ==
    /\ run[r].phase = "new"
    /\ run' = [run EXCEPT ![r].phase = "running"]
    /\ graph' = [graph EXCEPT ![r] = Request(r, run[r])]
    /\ UNCHANGED <<given, queue>>

AgentStep(r) == Node(r) /\ UNCHANGED <<given, run, queue>>

\* _run_case from the agent's answer on, and the next case up to its await.
CaseEvaluated(r) ==
    /\ run[r].phase = "running" /\ At(r, "answered")
    /\ \E result \in {Result(r)} : \E next \in {After(r, Append(run[r].results, result))} :
        /\ queue' = Routed(result)
        /\ run' = [run EXCEPT ![r] = next]
        /\ graph' = IF next.phase = "done" THEN graph
                    ELSE [graph EXCEPT ![r] = Request(r, next)]
    /\ UNCHANGED given

\* Variant: the exception is swallowed.
CaseRaisesSwallowed(r) ==
    /\ run[r].phase = "running" /\ At(r, "raised")
    /\ graph' = [graph EXCEPT ![r] = Idle]
    /\ UNCHANGED <<given, run, queue>>

\* diagnose raises: so does the run, whose results are lost, but not its items.
CaseRaises(r) ==
    /\ run[r].phase = "running" /\ At(r, "raised")
    /\ run' = [run EXCEPT ![r].phase = "failed"]
    /\ UNCHANGED <<given, graph, queue>>

Progress(r) == AgentStep(r) \/ CaseEvaluated(r) \/ CaseRaises(r)

\* Every client has its answer.
Ended == (\A r \in Calls : run[r].phase \in {"done", "failed"}) /\ UNCHANGED vars

Next == Ended \/ \E r \in Calls : StartRun(r) \/ Progress(r)

Spec == Init /\ [][Next]_vars

\* The event loop runs what is ready; a client need not call.
FairSpec == Spec /\ \A r \in Calls : WF_vars(Progress(r))
-----------------------------------------------------------------------------
(* Properties *)

Results(r) ==
    UNION ({{run[r].results[n] : n \in DOMAIN run[r].results}} \union
           {{run[r].runs[k].cases[n] : n \in DOMAIN run[r].runs[k].cases} :
               k \in DOMAIN run[r].runs})
Reported == UNION {Results(r) : r \in Calls}

ResultType ==
    [case : DOMAIN dataset, strategy : {"baseline", "strict_grounded"},
     status : {"resolved", "no_action", "escalate"}, tools : Seq({Telemetry, Reset}),
     cited : SUBSET Documents, accuracy : Nat, completed : BOOLEAN,
     groundedness : Nat, risk : Nat, routed : BOOLEAN]

\* Every variable has the shape the code gives it; a run's results are those
\* of the first cases, in order, and a run is done once each strategy has met
\* every case.
TypeOK ==
    /\ \A r \in Calls :
        /\ run[r].phase \in {"new", "running", "done", "failed"}
        /\ Results(r) \subseteq ResultType
        /\ Len(run[r].runs) <= Len(Strategies(kind[r]))
        /\ run[r].phase = "done" <=> Len(run[r].runs) = Len(Strategies(kind[r]))
        /\ Len(run[r].results) < Len(dataset)
        /\ \A n \in DOMAIN run[r].results : run[r].results[n].case = n
        /\ \A k \in DOMAIN run[r].runs :
            /\ run[r].runs[k].strategy = Strategies(kind[r])[k]
            /\ Len(run[r].runs[k].cases) = Len(dataset)
    /\ queue \subseteq [strategy : {"baseline", "strict_grounded"}, case : DOMAIN dataset,
                         groundedness : Nat, risk : Nat]

\* What is cited is what is relevant: as many documents as asked for, and never
\* one while a document at least as good by terms, by meaning, by coverage and
\* by tags (the later id at equal terms or meaning) is passed over, however
\* the ranks are fused and the score is capped.
Outdoes(query, d, e) ==
    /\ Ahead(Lexical(query), d, e) /\ Ahead(Semantic(query), d, e)
    /\ Coverage(query, d) >= Coverage(query, e) /\ Bonus(query, d) >= Bonus(query, e)

CitationsByRelevance ==
    backend = "local" =>
    \A c \in {c \in Calls : ~At(c, "idle") /\ ~At(c, "retrieve_guidance")} :
        /\ Cardinality(graph[c].citations) = Min({TopK, Cardinality(Documents)})
        /\ \A e \in graph[c].citations, d \in Documents \ graph[c].citations :
              ~Outdoes(graph[c].symptoms, d, e)

\* A case goes to review exactly when less than half of the context it expects
\* is cited (nothing, if it expects none): roundings, the two thresholds and the
\* mean with the agent's own score never decide otherwise.
RoutedIffUnderHalf ==
    \A x \in Reported :
        LET context == dataset[x.case].context
        IN  x.routed <=> 2 * Cardinality(context \intersect x.cited)
                            < Max2(Cardinality(context), 1)

\* Whatever runs overlap or fail, the queue has one item for a strategy and a
\* case, and so is never larger than there are of both; whatever a run reports
\* as routed is there, and what is there is what some run found.
ReviewAccounting ==
    /\ \A i, j \in queue : SameKey(i, j) => i = j
    /\ \A x \in Reported : x.routed => \E i \in queue : SameKey(i, x)
    /\ \A i \in queue : \E x \in Reported : x.routed /\ i = Item(x)

\* The strategies differ in what is cited, never in what is done: a case has
\* the same status, tools and verdict in every run, and an A/B test finds no
\* difference in accuracy and completion.
StrategyNeutral ==
    /\ \A x, y \in Reported : x.case = y.case =>
        /\ x.status = y.status /\ x.tools = y.tools
        /\ x.accuracy = y.accuracy /\ x.completed = y.completed
    /\ \A r \in Calls : kind[r] = "ab_test" /\ run[r].phase = "done" =>
        NoDelta(r, "accuracy") /\ NoDelta(r, "completion")

\* Runs that share the agent and the queue do not show: with local retrieval
\* a strategy's evaluation is the same whenever, and beside whatever, it runs.
RunsRepeatable ==
    backend = "local" =>
    \A q, r \in Calls : \A j \in DOMAIN run[q].runs, k \in DOMAIN run[r].runs :
        run[q].runs[j].strategy = run[r].runs[k].strategy => run[q].runs[j] = run[r].runs[k]

\* A run that was started is answered, with its results or with an error.
RunsEnd == \A r \in Calls :
    run[r].phase = "running" ~> run[r].phase \in {"done", "failed"}
=============================================================================
