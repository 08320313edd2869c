# TLA+ models of telefix

This directory models the stateful parts of telefix in TLA+, model-checks them on
small instances with TLC and proves the most important results for every instance
with TLAPS. Paths below are relative to the repository root (the code under
`src/` there is the API service; `telefix/` is the evaluation tool).

`PROJECT.json` lists, for tools, what this file explains: the components, the runs,
for each property a mutation of the code that breaks it, the source lines each
definition models, the hazards, the findings and the theorems.

## 1. The system

telefix is two programs that meet in a span store.

* **The service** (`src/`): a FastAPI application that diagnoses broadband incidents.
  A request runs a LangGraph agent that retrieves guidance and calls tools; the answer
  is saved as a session, and an evaluation of it happens later, off the request path. Golden cases
  are run through the same agent on demand, alone or as an A/B test of two prompts.
* **The evaluation tool** (`telefix/`): an OpenTelemetry exporter stores an agent's
  spans in SQLite, T-REx rebuilds a *trajectory* from them, and `telefix evaluate`
  judges the trajectory against a policy in a CI job.

    agent threads --export()--> queue --daemon thread--> SQLite
                                                           |  load_spans
                                                           v
    --context ----inject---> trajectory <---- reconstruct_trajectory
                                 |
                                 v
          policy rules, metrics, state drift --> decision --> exit code --> action.yml

    client --> diagnose --> state store (Redis, shared by pods)
                  |  \-> agent --> retrieval, mock tools
                  \-> background task --> event stream --> evaluation worker --> review queue
    operator --> evaluations/run, experiments/ab-test --> agent, case by case --> review queue
    LLM router --> primary | fallback provider     (no module under src/ calls it yet)

### Inventory

| component | state | operations | interacts with | what is hard |
|---|---|---|---|---|
| span exporter (`telefix/otel/exporter.py`, `storage/sqlite.py`) | bounded queue and its count of unfinished tasks, stop flag, dropped counter, the daemon thread's batch, the table of rows | `export`, `force_flush`, `shutdown`; the loop of the thread | any number of application threads; the SQLite store | threads, bounded queue, sentinel racing spans, joins with timeouts, a write that raises |
| LLM router (`src/llm_router.py`) | consecutive failures, circuit flag, metrics | `generate` | two providers, tenacity | requests interleave at each await; results arrive out of order; cancellation |
| diagnose service (`src/main.py`, `state_store.py`, `event_stream.py`, `eval_worker.py`, `review_queue.py`) | stored sessions; per pod an event stream and a review queue | `diagnose`, its background publish, `process-events` | pods share Redis only | read-modify-write across awaits, calls that fail after taking effect, crash of a pod |
| trace reconstruction (`telefix/trex/`, `telefix/models/trajectory.py`) | visited spans, loop counters, the steps | `reconstruct_trajectory` | reads the store, feeds the gate | missing and cyclic parents, ties, open and malformed spans, recursion depth |
| policy engine (`telefix/evaluator/context.py`, `policy_engine.py`, `rules.py`, `telefix/cli/context.py`) | the context of a call, which shares dicts with the payloads of the trajectory | `inject_runtime_context`, `build_tool_context`, `evaluate_policy_rules` | the CLI's `--context`; drift analysis reads the same payloads afterwards | aliasing: merging writes into the trajectory |
| release gate (`telefix/evaluator/evaluate.py`, `metrics.py`, `telefix/cli/main.py`, `reporting.py`, `.github/actions/evaluate/action.yml`) | the report file | checks, decision, exit code, the action's three steps | policy engine, drift | boundaries of the thresholds; a stale report |
| state drift (`telefix/evaluator/state_drift.py`) | none | `analyze_state_drift` | reads the trajectory | thresholds; empty contexts and objectives |
| broadband agent (`src/agent.py`, `tools.py`) | one graph state per call | a node per step: retrieve, inspect, reset, verify, compose, evaluate | retrieval, mock tools; every caller shares the agent | which modem may be reset, and what is said afterwards; calls interleave at each node |
| retrieval (`src/rag.py`) | none | `search` of the local retriever and of Qdrant | the agent | fusion of ranks, ties, a capped score, a backend that raises |
| evaluation runner and experiments (`src/evaluation.py`, `experiments.py`, `review_queue.py`) | the progress of each run; the review queue | `evaluations/run`, `experiments/ab-test`, `route_if_needed` | the agent; runs share the queue of their pod | overlapping runs, a run that fails half way, thresholds on rounded scores |
| LangGraph incident agent (`examples/langgraph/`) | the graph's state with its loop counter, the scenario's sequence number, the exporter's spans | the nodes, a bounded retry loop, `main()` from scenario to decision | feeds trace reconstruction and the evaluation | spans that start together or end out of order, one exporter for all scenarios, the retry and recursion bounds, a destructive tool |
| configuration, schemas, the store's reads, demos | none | | | data |

What makes each modelled component correct is listed with its runs below. The full list of
hazards, each at its line and with the properties that cover it, is in `PROJECT.json`.

## 2. Modules

| module | role |
|---|---|
| `SpanDelivery` | abstract: accepted spans are delivered in order, a flush that succeeds is truthful |
| `SpanExporter` | the threads, queue, flush and shutdown; implements `SpanDelivery` |
| `SpanExporterProofs` | its theorems |
| `LLMRouter`, `LLMRouterProofs` | the router, its theorems |
| `SessionService`, `SessionServiceProofs` | pods, sessions, events and reviews; its theorems |
| `Retrieval` | both retrievers, as operators |
| `Diagnosis` | abstract: whose modem may be reset, and what may be answered |
| `TroubleshootingAgent` | extends `Retrieval` by the broadband agent's graph; implements `Diagnosis` |
| `EvaluationRuns`, `EvaluationRunsProofs` | extends `TroubleshootingAgent` by evaluations, A/B tests and the review queue; its theorems |
| `TraceReconstruction`, `TraceReconstructionProofs` | T-REx, its theorems |
| `PolicyContext`, `PolicyContextProofs` | contexts and rules, its theorems |
| `Evaluation` | metrics, drift and the decision on a trajectory, as operators |
| `ReleaseGate`, `ReleaseGateProofs` | extends `Evaluation` by exit code, report and action; its theorems |
| `IncidentPipeline`, `IncidentPipelineProofs` | the incident agent, composed with `TraceReconstruction` and `Evaluation`; its theorems, which use those of `TraceReconstructionProofs` |
| `MC...` | the constants of the instances that TLC checks |

Definitions keep the names of the code where TLA+ allows it. A definition marked
*Variant* in its comment is a plausible bug; no specification uses it. It is what the next
definition is replaced by to see that a property notices the bug. Variables marked
*history* record what the properties talk about and no guard reads them.

### SpanExporter

An action is what a thread does between two points at which another thread can
interleave; each `queue.Queue` method is atomic because it holds the queue's lock.

| actions | code |
|---|---|
| `ExportCall`, `ExportPut`, `ExportDrop`, `ExportCount` | `export()`, span by span; `self._dropped_spans += 1` is a read and a write, with no lock between them, so it may lose an increment: the property bounds the counter from above only |
| `WorkerTest`, `WorkerGet...`, `WorkerWrite...`, `WorkerAck...` | `_run_worker` and `_write_batch`: loop test, `get` with timeout, one transaction, `task_done` once per span |
| `FlushCall`, `FlushJoined`, `FlushReturn`, `FlushTimeout` | `force_flush()` and its waiter thread, which outlives a call that timed out |
| `CloseCheck`, `CloseStop`, `CloseSentinel`, `CloseJoin` | `shutdown()`, whose check of the stop flag and its setting are apart |

Rows are spans: their columns, JSON and timestamps are left out. `write_spans` commits all
of a batch or raises, and an exception ends the thread, since nothing catches it. Each
span is exported once, as the SDK does; an upsert of the same key twice is not modelled.

### LLMRouter

An action runs from the end of one await to the start of the next. `Start` reads the
circuit, `Primary...` is the answer of one attempt, `PrimaryRetries` and `BackoffEnds` are
tenacity's sleep, `PrimaryExhausted` counts the failure and opens the circuit,
`PrimaryRaises` is an exception that is neither retried nor sent to the fallback,
`Cancel` raises `CancelledError` at an await. `Leave` is the `finally` clause, part of every
action that ends a request. Latency sums are left out. Nothing in the code closes the
circuit, and neither does the model.

### SessionService

`ArriveWithId`, `ArriveNew`, `GetReturns`, `ResaveReturns`, `AgentReturns`,
`SaveReturns`, `Answer` are the parts of `diagnose` between awaits; `Publish` is the background
task that runs after the response; `ProcessEvents` is the endpoint that claims and
evaluates what is pending on its pod. `GetRaises`, `AgentRaises` and `SaveRaises` are failing
calls; a save that raises may have been applied. `Crash` loses a pod's stream, review
queue, tasks and requests; the store survives. The store is the Redis backend. The in-memory
one, which copies sessions in and out, is the special case of one pod and a store that answers
at once, never fails, and is lost with the pod. The read-only endpoints are left out; the
endpoints that start evaluations and experiments are in `EvaluationRuns`.

### Retrieval, TroubleshootingAgent and EvaluationRuns

| definitions | code |
|---|---|
| `LexicalScore`, `SemanticHits`, `FusedRanks`, `Reranked`, `Best`, `Search` | `LocalSyntheticRetriever`: BM25, shared tokens and concepts, reciprocal rank fusion, `min(1, rrf * 15 + coverage + bonus)`, the first `rag_top_k` |
| `Scrolled` | `QdrantRetriever.search`: some documents with a tag that is in the query, `rag_top_k` at most |
| `RetrieveGuidance`, `InspectTelemetry`, `PerformReset`, `VerifyTelemetry`, `ComposeResponse`, `Evaluate` | the nodes of `src/agent.py`, one action each; `RetrievalRaises` is a Qdrant client that raises |
| `Inspect`, `Accuracy` | `MockTelemetryTool`; `_ordered_tool_accuracy` |
| `StartRun`, `CaseEvaluated`, `CaseRaises` | `run_evaluations` and `run_ab_test`: up to the first await of the agent; from an answer to the next await or the response; from an exception to the 500 |
| `Result`, `Groundedness`, `NeedsReview`, `Routed`, `Aggregate` | `_run_case`, `route_if_needed`, `_aggregate` |

`graph[c]` is the `AgentState` of one call of `diagnose()`, so calls share the agent and nothing else.
`run[r]` holds the results of the current strategy and the finished strategies of r. `CaseEvaluated`
is everything up to the next await: scoring, routing to the queue, and, after the last case,
the aggregate and the next strategy's first request.

A text is the set of its phrases, so a phrase of several words counts as one token, and a term is
in a document once. BM25 is in thousandths, the other scores in millionths, ratios in thousandths as
they are rounded; Python's floats are finer, so two scores that tie in the model need not tie
in Python, and `CitationsByRelevance` compares documents only where all four ingredients agree.
The dataset has a case (`_aggregate` divides by their number). Latency, severity and the
queue's order by time are left out, and so are the numbers of a snapshot and the answer's
wording. An A/B test's two strategies are `baseline` and `strict_grounded`; the second adds
`StrictPhrases` to a prompt, and `RunsAssumption` says of them what is true of the code's sentence:
none is a phrase from which the mock telemetry reads a modem's condition.

`Diagnosis` is what a caller may rely on: the modem is reset at most once, and only if it is
degraded and the customer consents; a call whose modem was reset is answered, never failed; and
"resolved" is said only after a reset.

### TraceReconstruction

`Start`, `Visit`, `Return`, `Sorted`, `Convert` and `Finish` follow
`reconstruct_trajectory`: the recursive `visit()` with its stack of calls, the conversion
of one span per step with its parent link and loop counter, and the validators of
`Trajectory`. A trace is a function from span ids to spans, since `(trace_id, span_id)` is the
table's key. Attributes are reduced to a kind (plain, human, tool, unsafe tool, malformed),
a node name, a start, an end or none, a sequence number and a parent. `MaxDepth` is
Python's recursion limit. `Ancestors`, which only properties use, is the least set closed under
parents: unlike a recursive definition it can be reasoned about, on cyclic parents too.

### PolicyContext

`_deep_merge(target, source)` writes into `target`, and where `target` has no dict under a
key it puts the *source's own* dict there. So contexts share dicts with the trajectory, and
what is merged next is written into those. A dict is therefore an object with an identity
(`Dicts`), and `heap` is what each holds now. `frames` is the stack of the calls of
`_deep_merge` in progress: `Assign`, `Recurse` and `Leave` are what one item of the loop does, in
any order of the items, and `Raise` is the `RuntimeError` of Python when a dict that is being iterated
over changes its size. That does happen: a `context` or `runtime_context` nested in itself three
deep makes a merge write into the dict it reads, and `main()` does not catch the exception.

`Inject` and `Injected` are `inject_runtime_context` (the trajectory's own fields are copied one
level deep, so the dicts nested in them are the trajectory's), `Evaluate` and `EvaluateNothing` start
`evaluate_policy_rules`, `Begin`, the actions of `_deep_merge` and `Merged` are one merge of
`build_base_context` or `build_tool_context`, in the order `Sources` gives, and `Skip` one whose
source is no mapping. Two of the `Sources` are not inputs but what the code finds in the context it is
building: `context["context"]`, and `context["runtime_context"]`, which is read again after the
payloads of the call were merged, into the trajectory's own runtime context too. So a payload
with a `runtime_context` or `context` of its own changes what `--context` said, for later calls
as well. `CheckForbidden` and `CheckRule` judge the call, `NextCall` and `Return` continue the loop.

`Undisturbed(n)` says that none of the dicts consulted for the first n calls (payloads, the
two objects of the trajectory's metadata, what `--context` gives) has one of the two keys itself. The
documented precedence is stated under it, and under it only: `PlainByPrecedence` compares a
context with what the documents say of the *recorded* dicts, whatever has been written to
them since.

A key may hold a plain value in one dict and a dict in another; the properties of precedence
speak of keys that never or always hold a dict (`PlainKeys`, `NestedKeys`). A JSON `null` is a plain
value like another. Left out are the canonical fields, which `build_base_context` and `build_tool_context`
put under `step`, `tool`, `trajectory`, `evaluation` and `cost` in dicts made for the purpose,
and paths of more than two keys. A condition is the set of plain values it accepts, which stands
for `eq`, `neq`, `gt`, `in` and so on; one on a path that ends at a dict accepts nothing. A trajectory has any number
of calls in the theorems and two in the runs.

### Evaluation and ReleaseGate

`IsUnsafe`, `UnsafeRate`, `Precision`, `LoopsAbove`, `Escalated`, `Latency` are
`metrics.py`; `RedundancyAbove`, `RetentionBelow`, `GrowthAbove` and `Drifts` are
`state_drift.py`; `Passed` is the decision; all are in `Evaluation`. `ExitCode` is the CLI's. Rates are integers in
millionths and `Rounded` is Python's `round(x, 6)`, half to even: a check compares rounded rates.
(A tie that a binary fraction cannot represent may go the other way in Python; the theorems
only use that rounding is off by half a millionth.) Policy thresholds are whole millionths, and
hundredths for drift.

The actions are the steps of `action.yml` around the CLI: `Invoke` starts it, `LoadFails`,
`WriteFails` and `WriteReport` are how `telefix evaluate` ends, `Killed` is an end
nobody planned (a signal, or an exception that `main()` does not catch), `OutputsRead`, `OutputsMissing` and
`OutputsBroken` are the step that reads the report, `Enforce` the last. `reports` outlives an
invocation: `Leave` ends one, and the workflow may use the action again. The rules' verdict is
the Boolean `violated`, which `PolicyContext` models; text and tool names are tokens.

### IncidentPipeline

The graph runs one node at a time, so `IngestAlert` ... `Escalate` are one action each: the
guard is where the graph is, `Visits` counts the node against LangGraph's recursion limit,
`PlainSpans` and `ToolSpans` are the spans that the node and its tool leave in the exporter, in the
order they end, with the sequence numbers of `set_common_span_attributes`. `StartScenario`, `Load`,
`Reconstruct`, `Judge` are the turns of `main()`'s loop. `Reconstruct` is a step of
`TraceReconstruction`, instantiated with the same variables, on the spans as the agent left
them; `Judge` applies `Evaluation` to its result. `LimitReached` and `ReconstructionRaises` are the two exceptions
that end the process. Readings of the clock are equal or a millisecond apart; `ClockSetBack`
sets it back once in a process, between two nodes; a jump forward by more than a tick is not modelled. Span ids are random: only their rank can matter, and they
rise or fall. `called` and `setBack` are history.

`Plan`, `Harmless`, `Frugal` and `AsExpected` say what a scenario deserves straight from its record, without graph,
spans or trajectory: the abstract view that `DecisionsRight` holds the whole path to.

## 3. Runs

`exporter_liveness`, `router` and `evaluations` check liveness too and state fairness; the others are for
safety and state none. Deadlock checking is off where the modelled program stops: requests, calls,
and reconstructions end. In `pipeline` and `evaluations` it is on, with `Ended` for a
process, or all runs, that have ended.

| run | instance | what it shows |
|---|---|---|
| `exporter_safety` | 2 exporting threads, 3 spans, queue 2, batch 2, 1 flush, 2 shutdowns, writes may fail | the store is a prefix of what was accepted; a flush that returns True is true; drops are never over-counted; the refinement of `SpanDelivery` |
| `exporter_liveness` | 1 exporting thread, 1 shutdown, writes succeed | accepted spans are persisted, flushes answered, shutdown ends the thread even if its sentinel found the queue full |
| `exporter_stranded` | as above | *violated:* `NothingStranded` |
| `router` | 3 requests, 3 attempts, threshold 2 | exact metrics, what opens the circuit, who still reaches an open circuit's primary, every request ends |
| `session_safety` | 3 requests, 2 pods, 1 crash | no diagnosis of a session known on arrival, answers agree with what is stored, how far `resume_count` can be off, where each event is |
| `trace_safety` | all traces of 3 spans with missing and cyclic parents, ties; 2 spans of any kind and end; 4 spans in any arrangement of parents, recursion limit 3 | each span visited once, in execution order, with its link and loop count; only bad traces refused; it ends |
| `policy_safety` | 2 calls in one step or two; up to 3 of 12 dicts with a nested dict (empty or not) or a plain value; or one or two with a `context` or `runtime_context` of their own, which hold plain values and dicts, or are none; 2 evaluations | precedence of sources, which payloads are written to, unknown variables always reported |
| `policy_cli` | the same | *violated:* `CliValueWins` |
| `gate` | about 1,800 trajectories that vary in one respect at a time; 2 invocations, 2 report paths | a success of the action is for a clean trajectory, for the expected tools, and published from its own report |
| `gate_stale` | the same | *violated:* `ErrorPublishesNoDecision` |
| `pipeline` | the 3 scenarios of `scenarios.py` in one process; 57 others alone and two pairs; equal and ticking clocks, a clock set back by 9 ms, recursion limit 25 | the trajectory is what the agent did, in order; the decision is what the scenario deserves, as `tests/integration/test_langgraph_pipeline.py` expects of the three; a clock set back never makes a bad scenario pass |
| `evaluations` | an evaluation and an A/B test at once; 4 documents, 25 prompts with 8 expected contexts each and two pairs of cases; local retrieval, or a Qdrant that may raise | what is cited is relevant; what goes to review, and what the queue holds, whatever overlaps or fails; the strategies never change what is done; runs do not disturb one another; every run is answered; the refinement of `Diagnosis` |

### The bounds, and why they are enough

* **Exporter.** With a queue of 2 and 3 spans, both a span and the sentinel find it full;
  with batches of 2 there are whole, partial and several batches. Two exporters
  reach the lost update of the dropped counter, two closers race the stop flag. `MaxCall`
  bounds the spans of one `export()` call only. `Symmetry` permutes spans,
  exporters and closers, which no action names, and is used for safety only.
* **Router.** Threshold 2 with 3 requests lets the circuit open with a request in
  flight, reset by a late success, and open between two attempts.
* **Sessions.** Two resuming requests and one that diagnoses overlap on one id;
  two pods are enough for a session saved on one and resumed on another.
* **Reconstruction.** Three spans have every tie and cycle that the order can depend on,
  two have every combination of ends and kinds, four make a chain longer than the limit.
* **Policy.** Three holders are the two that a merge relates and a third that overrides;
  two calls show what the first leaves behind for the second; two evaluations show what
  one leaves for the next. Every value is named for the place it was read from, so a value tells its
  origin. `OwnInputs` put a `context` or `runtime_context` into each kind of dict, and into two payloads at once, next
  to a value or nested object of another; `DeepInputs` make a merge raise.

* **Gate.** Rates of none, one and two out of three are on both sides of the thresholds of the
  policies (none tolerated, all demanded, one third, two thirds); two steps are what redundancy
  compares, and contexts are empty, equal, disjoint and growing. One invocation
  leaves each kind of report (decided, truncated, none) for the next to find.
* **Pipeline.** Four retries are the repository's, five are beyond the recursion limit of 25 nodes (LangGraph's
  default at the time of writing; the constant is external). Retries of one to three are around the
  loop thresholds and a cost limit; restarts come with every combination of permissions. Pairs show what one scenario
  leaves for the next. Set back by 9 ms, the clock reorders nodes, or ends a span before its start.
* **Evaluations.** Prompts of one to three out of five phrases have every condition of the modem with
  consent, without it, and with its denial; the contexts cover none, half and all of what is cited,
  so that scores are on both sides of the thresholds and on them. Two cases per
  dataset make a run that fails after it has routed its first case. Four documents and `TopK` two
  leave documents passed over, with ties in terms and in meaning. Two runs overlap at every node.

### Fairness

* *Exporter.* The operating system runs a runnable thread, and `queue.get` has a timeout, so
  the daemon thread, the waiter threads and a caller inside `shutdown()` go on. Nothing
  makes an application call anything. The runs assume a store that does not raise; if it
  does, the thread ends and liveness is lost.
* *Router.* The providers answer or raise, and tenacity's sleep is finite.
* *Evaluations.* The event loop runs what is ready: each started run goes on (`Progress(r)`), since the
  agent's nodes and the retriever return or raise. No client has to start one.

## 4. What the models found

Three places where the repository's words and its code differ, each shown by a run.

1. `docs/sqlite-store.md:68` says that `shutdown()` drains queued spans. `export()` never looks
   at the stop flag: a span accepted behind the sentinel is never read (`exporter_stranded`). What
   does hold is `StopDrains`, a theorem. (`shutdown()` also returns when its join times out, with spans unwritten.)
2. `docs/runtime-context.md:27` says that the CLI wins for a nested key. It does if the
   trajectory's own metadata has the nested object (`CliWinsOverTrajectory`), and not if only
   the runtime context has it: the call's payloads are then written into the
   runtime context's own dict, which the second merge cannot restore (`policy_cli`). That is so
   without a `context` or `runtime_context` in any payload; with one, nothing is left of the promise (next paragraph).
3. `docs/github-action.md:45` lists `error` as an output, and the action publishes it when there is no
   report. When an earlier invocation left a report at the same path (the default path is one
   per job), an invocation that exits 2 publishes that one's decision and rates (`gate_stale`).
   The exit code still fails the job: `SuccessPublishesOwn` holds.

Remarks that are no disagreement of a run. `docs/runtime-context.md:21` gives `--context` the first place, plain
values included. A tool's input or output, or a step's context, that has a `runtime_context` of its own is merged into the
runtime context (`telefix/evaluator/context.py:59`), which is then merged again (line 60): its values win over those of
`--context`, for this call and later ones; so do those of a `context` object whose own `runtime_context`
gets there first. A `runtime_context` that is no object turns the second merge off. `PlainByPrecedence`,
`CliWinsOverTrajectory` and `CliApprovalDecides` hold where no payload does that (`Undisturbed`). `docs/context-aware-policies.md:60`
says that unknown variables fail safely: true of `allowed_if` (`UnknownFailsSafely`), while a `denied_if` on a variable
that nobody provides denies nothing. `docs/trex.md:31` sorts siblings by `(start_time,
span_id)` and leaves out `agent.sequence`, which the code puts between the two;
`TrajectoryFaithful` shows what it is for: without it, spans that start together come in the order of
their random ids. And the incident agent calls `restart_gateway` whether or not
`restart_allowed` permits it, recording `blocked` afterwards: only the gate stands
between such an agent and its deployment. The aliasing of the second finding also
means that a trajectory evaluated twice in one process is judged, the second time, by
payloads that the first has written to; `OnlyFirstHolderWritten` says how far that goes. And an item of
the review queue is only ever replaced by one that needs review too: when a later run finds the
same case good, the old item stays (`ReviewAccounting` says no more than that some run found it).

## 5. Proofs

Every theorem is for all values of the constants, from the assumptions named in the module
(`ExporterAssumption`, `RouterAssumption`, `ServiceAssumption`, `TraceAssumption`,
`DictsAssumption`, `TreesAssumption`, `PayloadsAssumption`, `MaxEvaluationsAssumption`, `GateAssumption`,
`PipelineAssumption`, `ScenariosAssumption`, `RetrievalAssumption`, `RunsAssumption`, `CasesAssumption`, and an `InputsAssumption` each of
`PolicyContext` and `EvaluationRuns`), which TLC evaluates on
each run. Every safety invariant and action property of a passing run is proved. The theorems follow one scheme: `Init => IInv`, `IInv /\ [Next]_vars => IInv'` with a
step per action, `IInv => property`, and a last step of temporal logic.

* **Exporter.** `IInv` says where an accepted item can be. Whatever was enqueued is, in order,
  what is committed, then what the thread holds, then the queue (`Conserved`); the queue's
  unfinished count is the queue's length plus what is taken and not acknowledged
  (`Accounted`), so a count of zero means that all is committed; the other conjuncts
  tie the thread's local state, the stop flag and the flushes to the positions they
  speak of. From it come `TypeCorrect`, `InvariantHolds`, `PrefixHolds`,
  `FlushSoundHolds`, `StopDrainsHolds`, `WholeBatchesHold` and `Refinement`, the step
  simulation of `SpanDelivery`. `DropsHold` adds `DropsInv`: whoever is about to write the counter
  has read less than the number of spans refused.
* **Router.** `RouterTyped`, `MetricsHold`, `CircuitHolds` and `SparesHold`. The invariant of
  `CircuitHolds` says that the failure counter is the length of the last run of exhausted
  primaries, in order of completion; that of `SparesHold` that each attempt which reached the
  primary behind an open circuit is a retry, number two or later, of a request that was in flight when
  it opened, so that there are at most as many as such pairs of request and number (`Retries`).
* **Sessions.** `ServiceTyped`, `NoRediagnosisHolds`, `ResponsesConsistentHolds`, `ResumeCountBoundsHolds`,
  `EventAccountingHolds`, for any number of pods, requests and crashes. `IInv` says that whatever is
  stored or held under a session was diagnosed for it, by a request that did not find it
  stored (`NamesOK`); that without overlap a session is one request's at a time, and what
  that one has read is what is stored (`AloneOK`); that the resumptions saved but not yet
  answered make up the difference between `resume_count` and the answers
  (`CountsOK`); and where each event is (`EventsOK`). `StepKinds` sorts the actions: those that
  leave sessions alone, those that move one handler, and those that save.
* **Reconstruction.** `ReconstructionTyped`, `WalkHolds`, `StepsHold`, and
  `ReconstructionTerminates`: each step decreases a natural number, so every reconstruction of a
  finite trace ends, cyclic parents or not. `IInv` adds that as many spans
  are visited as are in the order. `LoopsHold` adds `LoopInv`: the counter of a parent and a name is the
  number of spans converted under them. `ExecutionOrderHolds` needs to know what the recursion has
  left behind at any moment: `WalkInv` says that the calls in progress form a path, each the parent
  of the next (`PathInv`); that whatever is visited and not in progress has all of its children
  visited (`ChildrenDone`); that a rooted span comes after its parent (`ParentFirst`); and that the whole
  subtree of a sibling that executes before comes first (`SubtreeFirst`). That order follows
  from these is a matter of where two spans' branches part (`Branch`). `LinksHold` adds `LinkInv`: a step
  without a parent link does not come after its parent. `RefusalsHold` adds `RejectInv`; the path
  of calls shows that a span met at the recursion limit is that deep, and a latest end exists because
  of the sets of times after each time a minimal one is empty (`MinimalSubset`).
* **Policy.** `ContextTyped`, `PrecedenceHolds`, `CliHolds`, `FirstContextHolds`, `WritesHold`, `FailsSafely`, `CliDecides`. All rests on who
  refers to which dict (`RefInv`): trajectory, payloads and `--context` are read as JSON, so they are trees
  (`TreesAssumption`), and a merge puts a dict only under the key it has already. So only the context under
  construction and what is merged into it refer to the trajectory's two objects, a merge inside the
  context never writes into a payload's top level (`FramesInv`, `RootsInv`), and, as long as nothing has a `context` or
  `runtime_context` of its own, not into those two either (`LowInv`, `TopsInv`): what is merged is what was
  given (`CopyInv`), and each plain value comes from the latest source that has it (`PlainInv`). `ReportsInv` and
  `VerdictsInv` carry that over to the calls already judged. `WInv` follows nested dicts to where they were read: a
  dict is met under its own key only (`HomeInv`), the context holds the first one among its sources (`BuiltFirstInv`),
  and so only a first holder's is written (`WrittenInv`). `NInv` follows the values
  inside, under the same condition on `context` and `runtime_context`: a nested dict is referred to under its own
  key by few dicts (`HolderInv`); the merge one level down goes on under the same key in the source and in the
  context (`SecondInv`), and deeper ones write to no such dict (`DeepInv`); the context has the dict of the first
  source with one (`FirstInv`). So a value inside changes only when that merge gets to its item (`InnerStep`). While
  `--context` is attached that gives `InjectLeafInv`; afterwards the runtime context's dict is never the one
  written to where the trajectory has its own (`RuntimeKeptInv`), and the last merge puts the CLI's value in place
  (`CliLeafInv`). In the first context only the dict it holds has been written to (`FirstHeapInv`), and each value of
  that one is the latest that a source adds (`FirstLeafInv`), a merge of the runtime context's dict into itself adding
  nothing.
* **Gate.** `GateIsSafe`, `GateFollowsExpected`, `GatePublishesOwn`, `GateTyped`. The operator
  lemmas come first: rounding is off by half a millionth at most, so with fewer
  than two million calls (`GateAssumption`) no positive rate becomes zero (`RoundedPositive`) and no partial
  one becomes whole (`RoundedFull`); steps with equal tokens are redundant; full retention is
  inclusion; together they give `PassedIsClean`. `IInv` then says that an exit code of zero is that of a
  whole evaluation whose own report is at the path until the action ends.
* **Evaluations.** `DiagnosisImplemented` (the step simulation), `StrategyNeutralHolds`, `CitationsHold`,
  `RunsRepeatableHolds`, `RoutedIffUnderHalfHolds`, `ReviewAccountingHolds` and `RunsTyped`, for any documents,
  cases, phrases and number of runs. `IInv` says, at each node, what a call has seen and done and
  that this is what its own symptoms and consent demand (`CallOK`), and that each result of a
  run is what its case and strategy come to (`RunOK`): a function of case,
  strategy and citations, which with local retrieval are a function of case and strategy
  as well. `RoutedIffUnderHalf` is arithmetic about `Thousandths`: at less than half the mean is 748
  thousandths at most, at half or more it is 750 at least, given that a case expects a hundred documents or
  fewer (`CasesAssumption`). `CitationsHold` is about the ranking. A BM25 score is a sum over terms and a natural
  number (`Sums`, over finite sets); a rank counts the documents before, so that no two have the same; the
  share of a rank falls as it grows, and so does the fused score of a document that is behind in both
  rankings; and the first `TopK` of the resulting order are as many as asked for, and closed under
  being better (`FirstCounted`, `FirstClosed`). With more than a thousand documents (`RetrievalAssumption`;
  the repository has a handful) the millionths of the model would no longer tell two ranks apart.
* **Pipeline.** For any scenarios, retries, ticks, order of ids and recursion limit.
  `PipelineTyped`: before T-REx gets a scenario's spans, each is exported once, with
  an id and a sequence number of its own. `RetriesBounded`: a count of nodes by place and
  retries (`RoundsOK`) shows that the loop ends by itself, so LangGraph's limit stops only a scenario that
  asks for more nodes than it allows, whatever the limit is.

  `FaithfulTrajectory` needs what the spans tell (`StoryOK`): ids are apart (`IdsApart`); each is a
  node under the scenario's span or a tool under its node (`Family`); nodes' numbers rise,
  and while the clock is steady their starts do not fall (`InTurn`); the tools among them are those called
  (`CallsTold`); and each retried node ran as often as the loop count says (`RunsTold`). `HandedOK`
  says that `Load` hands exactly these over, as a trace that meets `TraceAssumption`; from then on
  the invariants of `TraceReconstructionProofs` hold, which is instantiated and whose `WalkedInit` and
  `WalkedStep` are cited: the composition does not prove T-REx's order again. When the walk
  is over, each step shows one exported span (`Shows(f)`, f a bijection); the tool steps have the
  rank among steps that their calls have among calls, so the trajectory's tools are those
  called, in order; if the clock was set back, the bijection still gives the same bag.

  `RightDecisions` says what the gate does with it, in the terms of the scenario alone. `PlanOK`
  says that the tools called are the beginning of the scenario's plan, `MarksOK` that a call is
  marked unsafe just if it is a restart not allowed, and that each span is quick, `ClockOK` how long the scenario
  has taken, `LengthOK` how many nodes that were. Then each check of the gate is brought back to the
  scenario: precision to the matches of the plan (`PrecisionShown`; `RoundedReaches` shows that rounding to
  six digits does not move a rate across a whole hundredth when there are fewer than ten thousand
  calls), the unsafe rate to permission and rule (`HarmlessShown`), loops and cost to retries, and the sum
  of latencies to a bound by ticks and nodes (`SumBounded`, `LatencyShown`). `NotRefused` adds that a
  reconstruction raises only if the clock was set back: a scenario's trace is three deep.
  `ScenariosAssumption` names what of this depends on the policies: they tolerate no unsafe call, ask for
  a precision in whole hundredths and for more time than the nodes take, none of which waits for
  anything. All three of `scenarios.py` do (0.0, 0.95 and 30,000 ms).

Where the definitions fold over data (sums, latest times, what is first in an order), the library's
induction theorems are not available, since they take an operator as a parameter. The proofs use
minimal counterexamples instead: a set of natural numbers or of subsets is well-founded as a set, so
`WFMin` gives the least place where a claim fails (`LeastOf`, `MinimalSet`, `MinimalSubset`).

Only model-checked, and why: liveness under fairness (`AcceptedIsPersisted`, `FlushAnswered`,
`ShutdownStopsWorker`, `RequestsEnd`, `RunsEnd`) is out of the prover's reach, and so is `ENABLED`.

## 6. Not modelled

* **Schemas, configuration, the store's reads, demos**: data types, one SELECT each, scripts. None of
  them changes state that another part reads back.
* In the modelled parts: formats, logging, latency sums, the contents of spans, prompts and answers; the
  metrics that are only reported (recall, confusion matrix, averages); the in-memory state store beyond
  what is said above; an upsert of one span twice.
* Memory: review items and events are never removed from the process-local dicts. `ReviewAccounting`
  bounds the queue's part that evaluations fill by the number of strategies and cases; what
  diagnoses add grows with their number.

## 7. What could follow

Nothing in this list is needed for the above. In order of worth:

1. Liveness of the evaluation of a saved diagnosis, under the assumption that an operator keeps calling
   `process-events` and no pod crashes.
2. One model of `SessionService` over `TroubleshootingAgent`. `Diagnosis` is already the interface between the two:
   `AgentReturns` and `AgentRaises` are its `Answer` and `Fail`.
