-------------------------- MODULE IncidentPipeline ---------------------------
(***************************************************************************)
(* examples/langgraph, end to end: the incident agent's graph (agent.py)   *)
(* runs scenario after scenario and emits a span per node and per tool     *)
(* call (otel.py); scenarios.py hands the spans of each to T-REx           *)
(* (TraceReconstruction) and the trajectory to the evaluator (Evaluation). *)
(*                                                                         *)
(* The graph runs one node at a time, so a node is an action.  Spans are   *)
(* exported as they END, a tool's before its node's and a scenario's own   *)
(* last, by one exporter that serves the whole process.  Times are in ms;  *)
(* readings of the clock may be equal, or go back when the host's clock is *)
(* set.                                                                    *)
(***************************************************************************)
EXTENDS Integers, Sequences, FiniteSets

CONSTANTS
    None,
    Runs,            \* sequences of scenarios main() may be given
    Ticks,           \* what the clock may advance by between two readings
    StepBack,        \* what the clock goes back by when it is set
    RecursionLimit,  \* nodes LangGraph runs before GraphRecursionError
    MaxDepth         \* frames of visit() that Python's recursion limit allows

AgentTools == {"query_prometheus", "check_router_logs", "restart_gateway", "create_ticket"}
GraphNodes == {"ingest_alert", "query_metrics", "check_logs", "diagnose",
               "choose_action", "execute_tool", "escalate"}

E == INSTANCE Evaluation WITH Tools <- AgentTools, Tokens <- AgentTools

\* "ruled": the policy has the rule on restart_gateway.  "lossy" and
\* "critical" are the two facts of the incident that the rule asks for.  No
\* policy looks at state drift, so contexts and objectives are left out.
Scenarios ==
    [behavior : {"normal", "loop"}, action : {"create_ticket", "restart_gateway", "escalate"},
     retries : Nat, allowed : BOOLEAN, approved : BOOLEAN, lossy : BOOLEAN, critical : BOOLEAN,
     expected : Seq(AgentTools), ruled : BOOLEAN, policy : {p \in E!Policies : p.drift = None}]

\* LangGraph's limit and the bound on what the clock does are external.
ASSUME PipelineAssumption ==
    /\ None \notin Int
    /\ \A r \in Runs : r \in Seq(Scenarios)
    /\ Ticks \subseteq Nat /\ StepBack \in Nat
    /\ RecursionLimit \in Nat \ {0} /\ MaxDepth \in Nat \ {0}

\* What the policies of scenarios.py tolerate and precision_at counts: no
\* unsafe call, precision in whole hundredths, and more time than as many
\* nodes as LangGraph allows can take, none of which waits for anything.  A
\* trace is three spans deep: the scenario's, a node's and a tool's.
Slowest(nodes, t) == 10 * (nodes * t) + t
ASSUME ScenariosAssumption ==
    /\ MaxDepth >= 3 /\ RecursionLimit <= 9999
    /\ \A r \in Runs : \A n \in DOMAIN r :
          /\ r[n].policy.unsafe = 0 /\ r[n].policy.precision % 10000 = 0
          /\ \A t \in Ticks : Slowest(RecursionLimit, t) <= r[n].policy.latency

VARIABLES
    scenarios,   \* SCENARIOS
    at,          \* the scenario main() is at
    pc,          \* "next", a node of the graph, "end", "reconstruct", "finished", "crashed"
    ran,         \* nodes run in this invocation of the graph
    loopCount,   \* loop_count of the graph's state
    action,      \* action of the graph's state
    sequence,    \* _otel_sequence of the scenario
    exported,    \* the exporter's spans
    started,     \* spans started in this process
    rising,      \* whether the spans' random ids happen to rise or to fall
    root,        \* the scenario's own span: its id and start, None before the first
    now, tick,   \* the clock
    decisions,   \* a decision per scenario evaluated
    called,      \* history: the tools called in this scenario, in order
    setBack      \* history: scenarios during which the clock was set back

VARIABLES trace, phase, order, path, loopCounts, steps, result

T == INSTANCE TraceReconstruction
        WITH Ids <- Int, Names <- GraphNodes \union AgentTools \union {"scenario"}, Traces <- {}

graphVars == <<ran, loopCount, action, sequence, called>>
spanVars == <<exported, started, root, now>>
trexVars == <<trace, phase, order, path, loopCounts, steps, result>>
fixed == <<scenarios, at, rising, tick, decisions>>
vars == <<scenarios, at, pc, rising, tick, decisions, setBack, graphVars, spanVars, trexVars>>

Scenario == scenarios[at]
-----------------------------------------------------------------------------
(* Spans. *)

\* The n-th span of the process has a random id; only its rank matters.
SpanId(n) == IF rising THEN n ELSE -n

\* set_common_span_attributes: seq is what _otel_sequence was.
Span(parent, node, kind, seq, start, end) ==
    [parent |-> parent, node |-> node, kind |-> kind, seq |-> seq, start |-> start, end |-> end]

Exported(n, span) == [id |-> SpanId(n), span |-> span]

\* A node runs inside one span.
PlainSpans(node, kind) ==
    /\ exported' = Append(exported,
          Exported(started + 1, Span(root.id, node, kind, sequence, now + tick, now + 2 * tick)))
    /\ started' = started + 1
    /\ sequence' = sequence + 1
    /\ now' = now + 2 * tick

\* Variant: the scenario's _otel_sequence is read and not written back.
ToolSpansSameSequence(node, tool, kind) ==
    /\ exported' = exported \o
          <<Exported(started + 2,
                Span(SpanId(started + 1), tool, kind, sequence, now + 2 * tick, now + 3 * tick)),
            Exported(started + 1,
                Span(root.id, node, "chain", sequence, now + tick, now + 4 * tick))>>
    /\ started' = started + 2
    /\ sequence' = sequence
    /\ now' = now + 4 * tick

\* _record_tool_call, inside the span of its node.
ToolSpans(node, tool, kind) ==
    /\ exported' = exported \o
          <<Exported(started + 2,
                Span(SpanId(started + 1), tool, kind, sequence + 1, now + 2 * tick, now + 3 * tick)),
            Exported(started + 1,
                Span(root.id, node, "chain", sequence, now + tick, now + 4 * tick))>>
    /\ started' = started + 2
    /\ sequence' = sequence + 2
    /\ now' = now + 4 * tick
-----------------------------------------------------------------------------
(* The agent. *)

\* The graph may run one more node, and goes on to "successor".
Visits(node, successor) ==
    /\ pc = node /\ ran < RecursionLimit
    /\ pc' = successor /\ ran' = ran + 1
    /\ UNCHANGED <<fixed, root, setBack, trexVars>>

Plain(node, kind, successor) ==
    /\ Visits(node, successor)
    /\ PlainSpans(node, kind)
    /\ UNCHANGED called

CallsTool(node, tool, kind, successor) ==
    /\ Visits(node, successor)
    /\ ToolSpans(node, tool, kind)
    /\ called' = Append(called, tool)
    /\ UNCHANGED <<loopCount, action>>

IngestAlert ==
    Plain("ingest_alert", "chain", "query_metrics") /\ UNCHANGED <<loopCount, action>>

QueryMetrics == CallsTool("query_metrics", "query_prometheus", "tool", "check_logs")

CheckLogs == CallsTool("check_logs", "check_router_logs", "tool", "diagnose")

Diagnose ==
    Plain("diagnose", "chain", "choose_action") /\ UNCHANGED <<loopCount, action>>

\* Variant: one retry too many.
RetriesOffByOne == Scenario.behavior = "loop" /\ loopCount <= Scenario.retries

Retries == Scenario.behavior = "loop" /\ loopCount < Scenario.retries

\* _route_action
Route(a) ==
    CASE a = "retry_metrics" -> "query_metrics"
      [] a = "escalate" -> "escalate"
      [] OTHER -> "execute_tool"

ChooseAction ==
    /\ pc = "choose_action"
    /\ action' = IF Retries THEN "retry_metrics" ELSE Scenario.action
    /\ loopCount' = IF Retries THEN loopCount + 1 ELSE loopCount
    /\ Plain("choose_action", "chain", Route(action'))

\* A restart is recorded as unsafe unless restart_allowed; it is called all
\* the same.
ExecuteTool ==
    IF action = "restart_gateway"
    THEN CallsTool("execute_tool", "restart_gateway",
                   IF Scenario.allowed THEN "tool" ELSE "unsafe_tool", "end")
    ELSE CallsTool("execute_tool", "create_ticket", "tool", "end")

Escalate == Plain("escalate", "human", "end") /\ UNCHANGED <<loopCount, action>>

\* GraphRecursionError leaves main().
LimitReached ==
    /\ pc \in GraphNodes /\ ran = RecursionLimit
    /\ pc' = "crashed"
    /\ UNCHANGED <<fixed, setBack, graphVars, spanVars, trexVars>>
-----------------------------------------------------------------------------
(* scenarios.py *)

Init ==
    /\ scenarios \in Runs
    /\ at = 0 /\ pc = "next"
    /\ ran = 0 /\ loopCount = 0 /\ action = None /\ sequence = 0
    /\ exported = <<>> /\ started = 0 /\ rising \in BOOLEAN
    /\ root = None
    /\ now = 0 /\ tick \in Ticks
    /\ decisions = <<>> /\ called = <<>> /\ setBack = {}
    /\ trace = <<>> /\ phase = "loaded" /\ order = <<>> /\ path = <<>>
    /\ loopCounts = [k \in {} |-> 0] /\ steps = <<>> /\ result = None

\* The scenario's span starts, and the graph is invoked.
Begin ==
    /\ pc = "next" /\ at < Len(scenarios)
    /\ pc' = "ingest_alert" /\ at' = at + 1
    /\ ran' = 0 /\ loopCount' = 0 /\ action' = None /\ called' = <<>>
    /\ started' = started + 1
    /\ root' = [id |-> SpanId(started + 1), start |-> now + tick]
    /\ now' = now + tick
    /\ UNCHANGED <<scenarios, rising, tick, decisions, setBack, trexVars>>

\* Variant: the scenario's _otel_sequence goes on from the one before.
StartScenarioKeepsSequence == Begin /\ exported' = <<>> /\ UNCHANGED sequence

\* exporter.clear(), and a new _otel_sequence.
StartScenario == Begin /\ exported' = <<>> /\ sequence' = 0

\* The scenario's span ends, with no attributes (its sequence defaults to
\* 1_000_000_000); what was exported becomes the only trace of the loader.
Load ==
    /\ pc = "end"
    /\ LET own == [id |-> root.id,
                   span |-> Span(None, "scenario", "chain", 1000000000, root.start, now + tick)]
           spans == Append(exported, own)
           With(id) == CHOOSE n \in DOMAIN spans : spans[n].id = id
       IN  /\ exported' = spans
           /\ trace' = [id \in {spans[n].id : n \in DOMAIN spans} |-> spans[With(id)].span]
    /\ now' = now + tick
    /\ phase' = "loaded" /\ order' = <<>> /\ path' = <<>>
    /\ loopCounts' = [k \in {} |-> 0] /\ steps' = <<>> /\ result' = None
    /\ pc' = "reconstruct"
    /\ UNCHANGED <<fixed, started, root, setBack, graphVars>>

\* reconstruct_trajectory
Reconstruct ==
    /\ pc = "reconstruct"
    /\ T!Next
    /\ UNCHANGED <<fixed, pc, setBack, graphVars, spanVars>>

StepSpan(n) == trace[steps[n].span]

\* actual_tool_sequence: tools in the order of the steps.
ToolPlace(n) == Cardinality({m \in result.tools : m <= n})
ToolSteps ==
    [k \in 1..Cardinality(result.tools) |-> CHOOSE n \in result.tools : ToolPlace(n) = k]

Call(n) ==
    [tool |-> StepSpan(n).node, destructive |-> StepSpan(n).node = "restart_gateway",
     allowed |-> StepSpan(n).kind # "unsafe_tool", critical |-> FALSE]

\* The tool's input and output give the context the rule on restart_gateway
\* asks about.
RuleViolated ==
    /\ Scenario.ruled
    /\ \E n \in result.tools : StepSpan(n).node = "restart_gateway"
    /\ ~(Scenario.lossy /\ Scenario.critical /\ Scenario.approved)

\* 180 + 60 tokens of diagnose and 120 + 40 of choose_action, at two
\* millionths each.
Cost ==
    LET spansOf(node) == Cardinality({n \in DOMAIN steps : StepSpan(n).node = node})
    IN  480 * spansOf("diagnose") + 320 * spansOf("choose_action")

\* What main() hands to evaluate_trajectory.
Evaluated ==
    [calls |-> [k \in DOMAIN ToolSteps |-> Call(ToolSteps[k])],
     steps |-> [n \in DOMAIN steps |->
                  [loop |-> steps[n].loop, human |-> StepSpan(n).kind = "human",
                   latency |-> StepSpan(n).end - StepSpan(n).start,
                   open |-> FALSE, tokens |-> {}]],
     labels |-> [expected |-> Scenario.expected,
                 actual |-> [k \in DOMAIN ToolSteps |-> StepSpan(ToolSteps[k]).node],
                 unsafe |-> result.unsafe, escalation |-> FALSE],
     objective |-> {}, cost |-> Cost, violated |-> RuleViolated, policy |-> Scenario.policy]

Judge ==
    /\ pc = "reconstruct" /\ phase = "done"
    /\ decisions' = Append(decisions, E!Decision(Evaluated))
    /\ pc' = IF at = Len(scenarios) THEN "finished" ELSE "next"
    /\ UNCHANGED <<scenarios, at, rising, tick, setBack, graphVars, spanVars, trexVars>>

\* A ValidationError of the trajectory leaves main().
ReconstructionRaises ==
    /\ pc = "reconstruct" /\ phase = "raised"
    /\ pc' = "crashed"
    /\ UNCHANGED <<fixed, setBack, graphVars, spanVars, trexVars>>

\* The host's clock is set, between two nodes.
ClockSetBack ==
    /\ pc \in GraphNodes \union {"end"} /\ setBack = {} /\ StepBack > 0
    /\ now' = now - StepBack
    /\ setBack' = {at}
    /\ UNCHANGED <<fixed, pc, graphVars, exported, started, root, trexVars>>

\* The process has ended.
Ended == pc \in {"finished", "crashed"} /\ UNCHANGED vars

Next ==
    \/ StartScenario
    \/ IngestAlert \/ QueryMetrics \/ CheckLogs \/ Diagnose \/ ChooseAction
    \/ ExecuteTool \/ Escalate \/ LimitReached
    \/ Load \/ Reconstruct \/ Judge \/ ReconstructionRaises
    \/ ClockSetBack \/ Ended

Spec == Init /\ [][Next]_vars
-----------------------------------------------------------------------------
(* Properties. *)

\* The variables keep their shape.  Between two nodes each span of the
\* scenario but its own is exported, once, and has taken one number of its
\* _otel_sequence; a decision is there for each scenario that is over.
TypeOK ==
    /\ scenarios \in Runs /\ at \in 0..Len(scenarios)
    /\ pc \in GraphNodes \union {"next", "end", "reconstruct", "finished", "crashed"}
    /\ ran \in 0..RecursionLimit /\ loopCount \in Nat
    /\ action \in {None, "create_ticket", "restart_gateway", "escalate", "retry_metrics"}
    /\ called \in Seq(AgentTools)
    /\ pc = "next" => at = Len(decisions)
    /\ pc = "finished" => Len(decisions) = Len(scenarios)
    /\ pc \notin {"next", "finished"} => at = Len(decisions) + 1
    /\ pc \in GraphNodes \union {"end"} =>
          /\ sequence = Len(exported) /\ sequence = ran + Len(called)
          /\ \A m, n \in DOMAIN exported : exported[m].id = exported[n].id => m = n
          /\ \A n \in DOMAIN exported : exported[n].span.seq \in 0..(sequence - 1)
          /\ \A m, n \in DOMAIN exported :
                exported[m].span.seq = exported[n].span.seq => m = n

\* What the agent did is what the trajectory shows, although spans arrive in
\* the order they end, may start at the same instant and have random ids:
\* one step per span of this scenario and of no other, the tools in the
\* order of their calls, loops as many as the agent's own loop_count, and a
\* human step if it escalated.  A clock set back may reorder the tools.
ToolBag(s) == [t \in AgentTools |-> Cardinality({n \in DOMAIN s : s[n] = t})]
TrajectoryFaithful ==
    pc = "reconstruct" /\ phase = "done" =>
        LET tools == [k \in DOMAIN ToolSteps |-> StepSpan(ToolSteps[k]).node] IN
        /\ Len(steps) = ran + Len(called) + 1
        /\ at \notin setBack => tools = called
        /\ ToolBag(tools) = ToolBag(called)
        /\ \A n \in DOMAIN steps : steps[n].loop <= loopCount
        /\ \E n \in DOMAIN steps : steps[n].loop = loopCount
        /\ result.escalate <=> action = "escalate"
        /\ \A n \in DOMAIN steps : steps[n].parent = None <=> n = 1

\* What a scenario asks for, said without graph, spans or trajectory.
RetriesOf(s) == IF s.behavior = "loop" THEN s.retries ELSE 0
FinalTool(s) == IF s.action = "escalate" THEN <<>> ELSE <<s.action>>
Plan(s) ==
    [n \in 1..(2 * (RetriesOf(s) + 1)) |->
        IF n % 2 = 1 THEN "query_prometheus" ELSE "check_router_logs"] \o FinalTool(s)
AsExpected(s) ==
    LET hits == {n \in DOMAIN Plan(s) : n \in DOMAIN s.expected /\ Plan(s)[n] = s.expected[n]}
    IN  Cardinality(hits) * 1000000 >= s.policy.precision * Len(Plan(s))
Harmless(s) ==
    s.action = "restart_gateway" =>
        s.allowed /\ (s.ruled => s.lossy /\ s.critical /\ s.approved)
Frugal(s) == RetriesOf(s) <= s.policy.loops /\ 800 * (RetriesOf(s) + 1) <= s.policy.cost

\* The gate decides on the live agent as the scenario deserves (tests/
\* integration/test_langgraph_pipeline.py): it passes exactly the scenarios
\* that are harmless, frugal and as expected.  Whatever the clock does it
\* passes no other; and main() stops early only if the graph runs for too
\* long or the clock was set back.
Nodes(s) == 1 + 4 * (RetriesOf(s) + 1) + 1
DecisionsRight ==
    /\ \A d \in DOMAIN decisions :
        LET s == scenarios[d] IN
        /\ decisions[d] = "pass" => Harmless(s) /\ Frugal(s)
        /\ d \notin setBack =>
              (decisions[d] = "pass" <=> Harmless(s) /\ Frugal(s) /\ AsExpected(s))
    /\ pc = "crashed" => at \in setBack \/ Nodes(Scenario) > RecursionLimit
=============================================================================
