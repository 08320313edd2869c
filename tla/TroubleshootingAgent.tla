------------------------ MODULE TroubleshootingAgent -------------------------
(***************************************************************************)
(* BroadbandTroubleshootingAgent (src/agent.py) over the mock tools        *)
(* (src/tools.py): calls of diagnose() that share one agent, each with a   *)
(* graph state of its own.  One action per node of the graph: LangGraph    *)
(* awaits each, and other calls run meanwhile.                             *)
(***************************************************************************)
EXTENDS Retrieval, Sequences

CONSTANTS
    Calls,   \* callers of diagnose(); each asks one thing at a time
    None

VARIABLES
    backend, \* rag_backend
    graph    \* graph[c]: the AgentState of c's call, and the node that is next

Telemetry == "get_modem_telemetry"
Reset == "perform_rf_reset"

OfflineTerms == {"offline", "no internet", "no connection"}
DegradedTerms == {"slow", "drop", "intermittent", "latency", "buffer"}

\* MockTelemetryTool.invoke: the status of the snapshot.
Inspect(symptoms, resetApplied) ==
    IF resetApplied THEN "online"
    ELSE IF symptoms \intersect OfflineTerms # {} THEN "offline"
    ELSE IF symptoms \intersect DegradedTerms # {} THEN "degraded"
    ELSE "online"

Max2(m, n) == IF m > n THEN m ELSE n

\* Ratios are in thousandths: round(n / d, 3), half to even.
Thousandths(n, d) ==
    LET whole == (1000 * n) \div d
        rest == 2 * ((1000 * n) % d)
    IN  IF rest > d \/ (rest = d /\ whole % 2 = 1) THEN whole + 1 ELSE whole

\* _ordered_tool_accuracy
Accuracy(actual, expected) ==
    Thousandths(Cardinality({n \in DOMAIN actual \intersect DOMAIN expected :
                                actual[n] = expected[n]}),
                Max2(Max2(Len(actual), Len(expected)), 1))

\* The input of graph.ainvoke().
Asked(symptoms, consent) ==
    [node |-> "retrieve_guidance", symptoms |-> symptoms, consent |-> consent,
     citations |-> {}, before |-> None, after |-> None, tools |-> <<>>,
     reset |-> FALSE, status |-> None, selection |-> 0, groundedness |-> 0]

Idle == [Asked({}, FALSE) EXCEPT !.node = "idle"]
-----------------------------------------------------------------------------
(* The nodes. *)

At(c, node) == graph[c].node = node

\* _retrieve_guidance
RetrieveGuidance(c) ==
    /\ At(c, "retrieve_guidance")
    /\ \E found \in IF backend = "local" THEN {Search(graph[c].symptoms)}
                                         ELSE Scrolled(graph[c].symptoms) :
        graph' = [graph EXCEPT ![c].citations = found, ![c].node = "inspect_telemetry"]

\* The Qdrant client raises.
RetrievalRaises(c) ==
    /\ At(c, "retrieve_guidance") /\ backend = "qdrant"
    /\ graph' = [graph EXCEPT ![c].node = "raised"]

\* Variant: a modem that is offline is reset as well.
RouteUnlessOnline(c, status) ==
    IF status # "online" /\ graph[c].consent THEN "perform_reset" ELSE "compose_response"

\* _route_after_inspection
Route(c, status) ==
    IF status = "degraded" /\ graph[c].consent THEN "perform_reset" ELSE "compose_response"

\* _inspect_telemetry
InspectTelemetry(c) ==
    /\ At(c, "inspect_telemetry")
    /\ LET status == Inspect(graph[c].symptoms, FALSE) IN
        graph' = [graph EXCEPT ![c].before = status,
                               ![c].tools = Append(@, Telemetry),
                               ![c].node = Route(c, status)]

\* _perform_reset: without consent the tool raises PermissionError.
PerformReset(c) ==
    /\ At(c, "perform_reset")
    /\ graph' = IF graph[c].consent
                THEN [graph EXCEPT ![c].reset = TRUE,
                                   ![c].tools = Append(@, Reset),
                                   ![c].node = "verify_telemetry"]
                ELSE [graph EXCEPT ![c].node = "raised"]

\* _verify_telemetry
VerifyTelemetry(c) ==
    /\ At(c, "verify_telemetry")
    /\ graph' = [graph EXCEPT ![c].after = Inspect(graph[c].symptoms, TRUE),
                              ![c].tools = Append(@, Telemetry),
                              ![c].node = "compose_response"]

\* _compose_response
ComposeResponse(c) ==
    /\ At(c, "compose_response")
    /\ graph' = [graph EXCEPT
          ![c].status = IF graph[c].after = "online" THEN "resolved"
                        ELSE IF graph[c].before = "online" THEN "no_action" ELSE "escalate",
          ![c].node = "evaluate"]

\* _evaluate: every text has an evidence term ("synthetic"), so that missing
\* sources are the only unsupported claim.
ExpectedTools(c) ==
    IF graph[c].before = "degraded" /\ graph[c].consent
    THEN <<Telemetry, Reset, Telemetry>> ELSE <<Telemetry>>

Evaluate(c) ==
    /\ At(c, "evaluate")
    /\ graph' = [graph EXCEPT
          ![c].selection = Accuracy(graph[c].tools, ExpectedTools(c)),
          ![c].groundedness = IF graph[c].citations # {} THEN 1000 ELSE 0,
          ![c].node = "answered"]

Node(c) ==
    \/ RetrieveGuidance(c) \/ RetrievalRaises(c) \/ InspectTelemetry(c)
    \/ PerformReset(c) \/ VerifyTelemetry(c) \/ ComposeResponse(c) \/ Evaluate(c)
-----------------------------------------------------------------------------
\* The agent, whoever calls it, implements Diagnosis: whatever is asked at the
\* same time, each call is answered as its own symptoms and consent demand.
AnswerOf(c) ==
    CASE At(c, "idle") -> "none"
      [] At(c, "raised") -> "failed"
      [] At(c, "evaluate") \/ At(c, "answered") -> graph[c].status
      [] OTHER -> "open"

D == INSTANCE Diagnosis WITH
    asked <- [c \in Calls |-> [condition |-> Inspect(graph[c].symptoms, FALSE),
                               consent |-> graph[c].consent]],
    reset <- [c \in Calls |-> graph[c].reset],
    answer <- [c \in Calls |-> AnswerOf(c)]

ImplementsDiagnosis == D!DSpec
=============================================================================
