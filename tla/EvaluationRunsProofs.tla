----------------------- MODULE EvaluationRunsProofs ------------------------
(***************************************************************************)
(* Theorems about EvaluationRuns, for any documents, prompts, cases and    *)
(* number of runs: the agent implements Diagnosis, what a case is answered *)
(* does not depend on the strategy, and what the review queue holds.       *)
(***************************************************************************)
EXTENDS EvaluationRuns, FiniteSetTheorems, TLAPS

Nodes == {"idle", "retrieve_guidance", "inspect_telemetry", "perform_reset",
          "verify_telemetry", "compose_response", "evaluate", "answered", "raised"}
Conditions == {"online", "degraded", "offline"}
Statuses == {"resolved", "no_action", "escalate"}
ToolLists == Seq({Telemetry, Reset})
NoTool == <<>>
Inspected == <<Telemetry>>
WasReset == <<Telemetry, Reset>>
AllThree == <<Telemetry, Reset, Telemetry>>

\* What is asked.
Texts == {text \in SUBSET Phrases : IsFiniteSet(text)}

CallType ==
    [node : Nodes, symptoms : Texts, consent : BOOLEAN,
     citations : SUBSET Documents, before : Conditions \union {None},
     after : Conditions \union {None}, tools : ToolLists, reset : BOOLEAN,
     status : Statuses \union {None}, selection : Nat, groundedness : {0, 1000}]

Resets(symptoms, consent) == Inspect(symptoms, FALSE) = "degraded" /\ consent

\* What a call comes to, and the tools it takes.
Outcome(symptoms, consent) ==
    IF Resets(symptoms, consent) THEN "resolved"
    ELSE IF Inspect(symptoms, FALSE) = "online" THEN "no_action" ELSE "escalate"
Taken(symptoms, consent) ==
    IF Resets(symptoms, consent) THEN AllThree ELSE Inspected

Grounded(citations) == IF citations # {} THEN 1000 ELSE 0

\* What retrieval may find.
Found(b, symptoms) == IF b = "local" THEN {Search(symptoms)} ELSE SUBSET Documents

\* What holds of a call at each node.
Asking(g) == g.status = None /\ ~g.reset /\ g.after = None /\ g.tools = NoTool
Told(g) ==
    /\ g.before = Inspect(g.symptoms, FALSE)
    /\ g.reset <=> Resets(g.symptoms, g.consent)
    /\ g.after = (IF g.reset THEN "online" ELSE None)
    /\ g.tools = Taken(g.symptoms, g.consent)
CallOK(b, g) ==
    /\ g.node \in {"idle", "retrieve_guidance", "inspect_telemetry", "raised"} => Asking(g)
    /\ g.node = "perform_reset" =>
        /\ Resets(g.symptoms, g.consent) /\ g.before = "degraded" /\ ~g.reset
        /\ g.after = None /\ g.tools = Inspected /\ g.status = None
    /\ g.node = "verify_telemetry" =>
        /\ Resets(g.symptoms, g.consent) /\ g.before = "degraded" /\ g.reset
        /\ g.after = None /\ g.tools = WasReset /\ g.status = None
    /\ g.node = "compose_response" => Told(g) /\ g.status = None
    /\ g.node \in {"evaluate", "answered"} =>
        Told(g) /\ g.status = Outcome(g.symptoms, g.consent)
    /\ g.node = "answered" => g.groundedness = Grounded(g.citations)
    /\ g.node \notin {"idle", "retrieve_guidance", "raised"} => g.citations \in Found(b, g.symptoms)
    /\ g.node = "raised" => b = "qdrant"
-----------------------------------------------------------------------------
(* Numbers *)

LEMMA ThousandthsNat ==
    ASSUME NEW n \in Nat, NEW d \in Nat \ {0}
    PROVE  Thousandths(n, d) \in Nat
<1>1. (1000 * n) \div d \in Nat /\ (1000 * n) % d \in Nat
  BY SMT
<1> QED BY <1>1 DEF Thousandths

LEMMA AccuracyNat ==
    ASSUME NEW s \in ToolLists, NEW t \in ToolLists
    PROVE  Accuracy(s, t) \in Nat
<1> DEFINE same == {n \in DOMAIN s \intersect DOMAIN t : s[n] = t[n]}
<1>1. Len(s) \in Nat /\ Len(t) \in Nat /\ DOMAIN s = 1..Len(s)
  BY DEF ToolLists
<1>2. same \subseteq 1..Len(s)
  BY <1>1
<1>3. Cardinality(same) \in Nat
  <2>1. IsFiniteSet(1..Len(s)) BY <1>1, FS_Interval
  <2> HIDE DEF same
  <2> QED BY <1>2, <2>1, FS_Subset, FS_CardinalityType
<1>4. Max2(Max2(Len(s), Len(t)), 1) \in Nat \ {0}
  BY <1>1 DEF Max2
<1> QED BY <1>3, <1>4, ThousandthsNat DEF Accuracy

LEMMA Appended ==
    ASSUME NEW S, NEW s \in Seq(S), NEW x \in S, NEW t \in Seq(S), Len(t) = Len(s) + 1,
           \A n \in 1..Len(s) : t[n] = s[n], t[Len(t)] = x
    PROVE  Append(s, x) = t
<1> DEFINE u == Append(s, x)
<1>1. u \in Seq(S) /\ Len(u) = Len(t) /\ \A n \in 1..Len(t) : u[n] = t[n]
  OBVIOUS
<1> HIDE DEF u
<1> QED BY <1>1

LEMMA Tools ==
    /\ NoTool \in ToolLists /\ Inspected \in ToolLists
    /\ WasReset \in ToolLists /\ AllThree \in ToolLists
    /\ Append(NoTool, Telemetry) = Inspected /\ Append(Inspected, Reset) = WasReset
    /\ Append(WasReset, Telemetry) = AllThree
<1> DEFINE S == {Telemetry, Reset}
<1>1. Telemetry \in S /\ Reset \in S
  BY Zenon
<1> HIDE DEF S
<1>2. NoTool \in Seq(S) BY DEF NoTool
<1>3. Inspected \in Seq(S) /\ Len(Inspected) = 1 /\ Inspected[1] = Telemetry
  BY <1>1 DEF Inspected
<1>4. WasReset \in Seq(S) /\ Len(WasReset) = 2 /\ WasReset[1] = Telemetry /\ WasReset[2] = Reset
  BY <1>1 DEF WasReset
<1>5. /\ AllThree \in Seq(S) /\ Len(AllThree) = 3
      /\ AllThree[1] = Telemetry /\ AllThree[2] = Reset /\ AllThree[3] = Telemetry
  BY <1>1 DEF AllThree
<1>6. Append(NoTool, Telemetry) = Inspected BY DEF NoTool, Inspected
<1>7. Append(Inspected, Reset) = WasReset
  <2>1. \A n \in 1..1 : n = 1 OBVIOUS
  <2> QED BY <1>1, <1>3, <1>4, <2>1, Appended
<1>8. Append(WasReset, Telemetry) = AllThree
  <2>1. \A n \in 1..2 : n = 1 \/ n = 2 OBVIOUS
  <2>2. \A n \in 1..Len(WasReset) : AllThree[n] = WasReset[n] BY <1>4, <1>5, <2>1
  <2>3. Len(AllThree) = Len(WasReset) + 1 /\ AllThree[Len(AllThree)] = Telemetry
    BY <1>4, <1>5
  <2> HIDE DEF Telemetry, Reset
  <2> QED BY <1>1, <1>4, <1>5, <2>2, <2>3, Appended
<1> QED BY <1>2, <1>3, <1>4, <1>5, <1>6, <1>7, <1>8 DEF ToolLists, S

LEMMA InspectTyped ==
    ASSUME NEW symptoms, NEW applied \in BOOLEAN
    PROVE  Inspect(symptoms, applied) \in Conditions
BY DEF Inspect, Conditions
-----------------------------------------------------------------------------
(* The agent *)

LEMMA SearchTyped ==
    ASSUME NEW query PROVE Search(query) \subseteq Documents
BY DEF Search, Best

LEMMA ScrolledTyped ==
    ASSUME NEW query, NEW found \in Scrolled(query) PROVE found \subseteq Documents
BY DEF Scrolled

\* What a node leaves of its call.
LEMMA NodeCall ==
    ASSUME NEW c \in Calls, graph \in [Calls -> CallType], CallOK(backend, graph[c]), Node(c)
    PROVE  /\ graph'[c] \in CallType /\ CallOK(backend, graph'[c])
           /\ graph' = [graph EXCEPT ![c] = graph'[c]]
           /\ graph'[c].symptoms = graph[c].symptoms
           /\ graph'[c].consent = graph[c].consent
           /\ graph'[c].node # "idle"
<1> DEFINE g == graph[c]
           Sourced == g.citations \in Found(backend, g.symptoms)
           Kept(h) == h.symptoms = g.symptoms /\ h.consent = g.consent
<1>t. g \in CallType /\ None \notin Conditions /\ None \notin Statuses
  BY RunsAssumption DEF Conditions, Statuses
<1>q. ASSUME NEW h \in CallType, CallOK(backend, h), Kept(h), h.node # "idle",
             graph' = [graph EXCEPT ![c] = h]
      PROVE  /\ graph'[c] \in CallType /\ CallOK(backend, graph'[c])
             /\ graph' = [graph EXCEPT ![c] = graph'[c]]
             /\ graph'[c].symptoms = g.symptoms /\ graph'[c].consent = g.consent
             /\ graph'[c].node # "idle"
  BY <1>q
<1>1. CASE RetrieveGuidance(c)
  <2>1. PICK found \in SUBSET Documents :
            /\ graph' = [graph EXCEPT ![c].citations = found, ![c].node = "inspect_telemetry"]
            /\ found \in Found(backend, g.symptoms)
    BY <1>1, SearchTyped, ScrolledTyped DEF RetrieveGuidance, Found
  <2>2. g.node = "retrieve_guidance" BY <1>1 DEF RetrieveGuidance, At
  <2> DEFINE g1 == [g EXCEPT !.citations = found]
             h == [g1 EXCEPT !.node = "inspect_telemetry"]
  <2>3. h \in CallType
    <3>1. g1 \in CallType BY <1>t DEF CallType
    <3> HIDE DEF g1
    <3> QED BY <3>1 DEF CallType, Nodes
  <2>4. /\ Kept(h) /\ h.node = "inspect_telemetry" /\ h.citations = found
        /\ h.status = g.status /\ h.reset = g.reset /\ h.after = g.after /\ h.tools = g.tools
    BY <1>t DEF CallType
  <2>5. graph' = [graph EXCEPT ![c] = h] BY <2>1
  <2> HIDE DEF h
  <2>6. CallOK(backend, h) BY <2>1, <2>2, <2>4 DEF CallOK, Asking
  <2> QED BY <2>3, <2>4, <2>5, <2>6, <1>q
<1>2. CASE RetrievalRaises(c)
  <2> DEFINE h == [g EXCEPT !.node = "raised"]
  <2>2. g.node = "retrieve_guidance" BY <1>2 DEF RetrievalRaises, At
  <2>3. h \in CallType BY <1>t DEF CallType, Nodes
  <2>4. /\ Kept(h) /\ h.node = "raised"
        /\ h.status = g.status /\ h.reset = g.reset /\ h.after = g.after /\ h.tools = g.tools
    BY <1>t DEF CallType
  <2>5. graph' = [graph EXCEPT ![c] = h] BY <1>2 DEF RetrievalRaises
  <2> HIDE DEF h
  <2>6. CallOK(backend, h) BY <1>2, <2>2, <2>4 DEF CallOK, Asking, RetrievalRaises
  <2> QED BY <2>3, <2>4, <2>5, <2>6, <1>q
<1>3. CASE InspectTelemetry(c)
  <2> DEFINE status == Inspect(g.symptoms, FALSE)
             next == Route(c, status)
             g1 == [g EXCEPT !.before = status]
             tools == Append(g.tools, Telemetry)
             g2 == [g1 EXCEPT !.tools = tools]
             h == [g2 EXCEPT !.node = next]
  <2>1. status \in Conditions BY InspectTyped
  <2>2. g.node = "inspect_telemetry" /\ Asking(g) /\ Sourced
    BY <1>3 DEF InspectTelemetry, At, CallOK
  <2>3. tools = Inspected /\ tools \in ToolLists
    BY <2>2, Tools DEF Asking
  <2>4. next = IF Resets(g.symptoms, g.consent) THEN "perform_reset" ELSE "compose_response"
    BY DEF Route, Resets
  <2>5. graph' = [graph EXCEPT ![c] = h] BY <1>3 DEF InspectTelemetry
  <2>6. next \in Nodes BY <2>4 DEF Nodes
  <2>s. status = Inspect(g.symptoms, FALSE) OBVIOUS
  <2> HIDE DEF next, status, tools
  <2>7. h \in CallType
    <3>1. g1 \in CallType BY <1>t, <2>1 DEF CallType
    <3> HIDE DEF g1
    <3>2. g2 \in CallType BY <3>1, <2>3 DEF CallType
    <3> HIDE DEF g2
    <3> QED BY <3>2, <2>6 DEF CallType
  <2>8. /\ Kept(h) /\ h.citations = g.citations /\ h.node = next /\ h.before = status
        /\ h.tools = tools
        /\ h.status = g.status /\ h.reset = g.reset /\ h.after = g.after
    BY <1>t DEF CallType
  <2> HIDE DEF h
  <2>9. CallOK(backend, h)
    <3>1. CASE Resets(g.symptoms, g.consent)
      BY <2>2, <2>3, <2>4, <2>8, <2>s, <3>1 DEF CallOK, Asking, Resets
    <3>2. CASE ~Resets(g.symptoms, g.consent)
      BY <2>2, <2>3, <2>4, <2>8, <2>s, <3>2 DEF CallOK, Asking, Told, Taken
    <3> QED BY <3>1, <3>2
  <2>10. h.node # "idle" BY <2>4, <2>8
  <2> QED BY <2>5, <2>7, <2>8, <2>9, <2>10, <1>q
<1>4. CASE PerformReset(c)
  <2>2. g.node = "perform_reset" /\ g.consent /\ Sourced
    BY <1>4 DEF PerformReset, At, CallOK, Resets
  <2>3. /\ Resets(g.symptoms, g.consent) /\ g.before = "degraded" /\ g.after = None
        /\ g.tools = Inspected /\ g.status = None
    BY <2>2 DEF CallOK
  <2> DEFINE yes == TRUE
             g1 == [g EXCEPT !.reset = yes]
             tools == Append(g.tools, Reset)
             g2 == [g1 EXCEPT !.tools = tools]
             h == [g2 EXCEPT !.node = "verify_telemetry"]
  <2>4. tools = WasReset /\ tools \in ToolLists
    BY <2>3, Tools
  <2>6. graph' = [graph EXCEPT ![c] = h] BY <1>4, <2>2 DEF PerformReset
  <2> HIDE DEF tools
  <2>5. h \in CallType
    <3>0. yes \in BOOLEAN OBVIOUS
    <3> HIDE DEF yes
    <3>1. g1 \in CallType BY <1>t, <3>0 DEF CallType
    <3> HIDE DEF g1
    <3>2. g2 \in CallType BY <3>1, <2>4 DEF CallType
    <3> HIDE DEF g2
    <3> QED BY <3>2 DEF CallType, Nodes
  <2>7. /\ Kept(h) /\ h.citations = g.citations /\ h.node = "verify_telemetry" /\ h.reset
        /\ h.tools = tools
        /\ h.before = g.before /\ h.after = g.after /\ h.status = g.status
    BY <1>t DEF CallType
  <2> HIDE DEF h
  <2>8. CallOK(backend, h) BY <2>2, <2>3, <2>4, <2>7 DEF CallOK
  <2> QED BY <2>5, <2>6, <2>7, <2>8, <1>q
<1>5. CASE VerifyTelemetry(c)
  <2>2. g.node = "verify_telemetry" /\ Sourced BY <1>5 DEF VerifyTelemetry, At, CallOK
  <2>3. /\ Resets(g.symptoms, g.consent) /\ g.before = "degraded" /\ g.reset
        /\ g.tools = WasReset /\ g.status = None
    BY <2>2 DEF CallOK
  <2> DEFINE status == Inspect(g.symptoms, TRUE)
             g1 == [g EXCEPT !.after = status]
             tools == Append(g.tools, Telemetry)
             g2 == [g1 EXCEPT !.tools = tools]
             h == [g2 EXCEPT !.node = "compose_response"]
  <2>4. tools = AllThree /\ tools \in ToolLists
    BY <2>3, Tools
  <2>5. status = "online" BY DEF Inspect
  <2>6. graph' = [graph EXCEPT ![c] = h] BY <1>5 DEF VerifyTelemetry
  <2> HIDE DEF status, tools
  <2>7. h \in CallType
    <3>1. g1 \in CallType BY <1>t, <2>5 DEF CallType, Conditions
    <3> HIDE DEF g1
    <3>2. g2 \in CallType BY <3>1, <2>4 DEF CallType
    <3> HIDE DEF g2
    <3> QED BY <3>2 DEF CallType, Nodes
  <2>8. /\ Kept(h) /\ h.citations = g.citations /\ h.node = "compose_response" /\ h.after = status
        /\ h.tools = tools
        /\ h.before = g.before /\ h.reset = g.reset /\ h.status = g.status
    BY <1>t DEF CallType
  <2> HIDE DEF h
  <2>9. Resets(h.symptoms, h.consent) /\ Inspect(h.symptoms, FALSE) = "degraded"
    BY <2>3, <2>8 DEF Resets
  <2>10. Told(h) /\ h.status = None
    BY <2>3, <2>4, <2>5, <2>8, <2>9 DEF Told, Taken
  <2>11. CallOK(backend, h) BY <2>2, <2>8, <2>10 DEF CallOK
  <2> QED BY <2>6, <2>7, <2>8, <2>11, <1>q
<1>6. CASE ComposeResponse(c)
  <2>2. g.node = "compose_response" /\ Told(g) /\ Sourced
    BY <1>6 DEF ComposeResponse, At, CallOK
  <2> DEFINE status == IF g.after = "online" THEN "resolved"
                       ELSE IF g.before = "online" THEN "no_action" ELSE "escalate"
             g1 == [g EXCEPT !.status = status]
             h == [g1 EXCEPT !.node = "evaluate"]
  <2>3. status = Outcome(g.symptoms, g.consent)
    BY <1>t, <2>2 DEF Told, Outcome, Conditions
  <2>4. status \in Statuses BY DEF Statuses
  <2>5. graph' = [graph EXCEPT ![c] = h] BY <1>6 DEF ComposeResponse
  <2> HIDE DEF status
  <2>6. h \in CallType
    <3>1. g1 \in CallType BY <1>t, <2>4 DEF CallType
    <3> HIDE DEF g1
    <3> QED BY <3>1 DEF CallType, Nodes
  <2>7. /\ Kept(h) /\ h.citations = g.citations /\ h.node = "evaluate" /\ h.status = status
        /\ h.before = g.before /\ h.after = g.after /\ h.tools = g.tools
        /\ h.reset = g.reset
    BY <1>t DEF CallType
  <2> HIDE DEF h
  <2>8. CallOK(backend, h) BY <2>2, <2>3, <2>7 DEF CallOK, Told
  <2> QED BY <2>5, <2>6, <2>7, <2>8, <1>q
<1>7. CASE Evaluate(c)
  <2>2. /\ g.node = "evaluate" /\ Told(g) /\ Sourced
        /\ g.status = Outcome(g.symptoms, g.consent)
    BY <1>7 DEF Evaluate, At, CallOK
  <2> DEFINE selection == Accuracy(g.tools, ExpectedTools(c))
             own == IF g.citations # {} THEN 1000 ELSE 0
             g1 == [g EXCEPT !.selection = selection]
             g2 == [g1 EXCEPT !.groundedness = own]
             h == [g2 EXCEPT !.node = "answered"]
  <2>3. ExpectedTools(c) \in ToolLists
    <3>1. ExpectedTools(c) = AllThree \/ ExpectedTools(c) = Inspected
      BY DEF ExpectedTools, AllThree, Inspected
    <3> QED BY <3>1, Tools
  <2>4. g.tools \in ToolLists BY <1>t DEF CallType
  <2>5. selection \in Nat BY <2>3, <2>4, AccuracyNat
  <2>6. own = Grounded(g.citations) /\ own \in {0, 1000} BY DEF Grounded
  <2>7. graph' = [graph EXCEPT ![c] = h]
    <3> HIDE DEF h
    <3>1. graph' = [graph EXCEPT ![c].selection = selection, ![c].groundedness = own,
                                 ![c].node = "answered"]
      BY <1>7 DEF Evaluate
    <3> HIDE DEF selection, own
    <3> QED BY <3>1 DEF h
  <2> HIDE DEF selection, own
  <2>8. h \in CallType
    <3>1. g1 \in CallType BY <1>t, <2>5 DEF CallType
    <3> HIDE DEF g1
    <3>2. g2 \in CallType BY <3>1, <2>6 DEF CallType
    <3> HIDE DEF g2
    <3> QED BY <3>2 DEF CallType, Nodes
  <2>9. /\ Kept(h) /\ h.node = "answered" /\ h.groundedness = own
        /\ h.citations = g.citations /\ h.status = g.status /\ h.before = g.before
        /\ h.after = g.after /\ h.tools = g.tools /\ h.reset = g.reset
    BY <1>t DEF CallType
  <2> HIDE DEF h
  <2>10. CallOK(backend, h) BY <2>2, <2>6, <2>9 DEF CallOK, Told
  <2> QED BY <2>7, <2>8, <2>9, <2>10, <1>q
<1> QED BY <1>1, <1>2, <1>3, <1>4, <1>5, <1>6, <1>7 DEF Node
-----------------------------------------------------------------------------
(* The runs *)

StrategyNames == {"baseline", "strict_grounded"}
Phases == {"new", "running", "done", "failed"}
StrategyAt(e, p) == Strategies(e)[Len(p.runs) + 1]

\* The result of the n-th case under strategy s, given what was cited.
AnswerWith(ds, s, n, cited, groundedness, risk) ==
    LET case == ds[n]
        consent == HasExplicitResetConsent(case.prompt)
    IN  [case |-> n, strategy |-> s, status |-> Outcome(case.prompt, consent),
         tools |-> Taken(case.prompt, consent), cited |-> cited,
         accuracy |-> Accuracy(Taken(case.prompt, consent), case.tools),
         completed |-> Outcome(case.prompt, consent) = case.resolution,
         groundedness |-> groundedness, risk |-> risk,
         routed |-> NeedsReview(groundedness, risk)]
GroundednessOf(ds, n, cited) == Groundedness(cited, ds[n].context, Grounded(cited))
RiskOf(ds, n, cited) ==
    Max2(1000 - Grounded(cited), 1000 - GroundednessOf(ds, n, cited))
Answer(ds, s, n, cited) ==
    AnswerWith(ds, s, n, cited, GroundednessOf(ds, n, cited), RiskOf(ds, n, cited))

Answers(b, ds, s, n) == {Answer(ds, s, n, cited) : cited \in Found(b, Transform(s, ds[n].prompt))}
AllAnswers(b, ds) ==
    UNION {Answers(b, ds, m[1], m[2]) : m \in StrategyNames \X (1..Len(ds))}

FinishedType(b, ds) ==
    {[strategy |-> s, aggregate |-> Aggregate(x), cases |-> x] :
        s \in StrategyNames, x \in Seq(AllAnswers(b, ds))}
RunType(b, ds) ==
    [phase : Phases, runs : Seq(FinishedType(b, ds)), results : Seq(AllAnswers(b, ds))]

\* results[n] answers the n-th case under strategy s.
Answered(b, ds, s, results) ==
    \A n \in 1..Len(results) : results[n] \in Answers(b, ds, s, n)

\* What holds of a run of endpoint e, with its call of the agent.
RunOK(b, ds, e, p, g) ==
    /\ Len(p.results) < Len(ds)
    /\ Answered(b, ds, StrategyAt(e, p), p.results)
    /\ \A k \in 1..Len(p.runs) :
        /\ p.runs[k].strategy = Strategies(e)[k]
        /\ Len(p.runs[k].cases) = Len(ds)
        /\ Answered(b, ds, Strategies(e)[k], p.runs[k].cases)
    /\ Len(p.runs) <= Len(Strategies(e))
    /\ p.phase = "done" <=> Len(p.runs) = Len(Strategies(e))
    /\ p.phase = "new" => g.node = "idle" /\ Len(p.runs) = 0 /\ Len(p.results) = 0
    /\ p.phase = "running" =>
        LET prompt == ds[Len(p.results) + 1].prompt
        IN  /\ g.symptoms = Transform(StrategyAt(e, p), prompt)
            /\ g.consent = HasExplicitResetConsent(prompt)

GivenOK ==
    /\ backend \in {"local", "qdrant"}
    /\ dataset \in Seq(Cases) /\ Len(dataset) >= 1
    /\ kind \in [Calls -> Endpoints]
GraphOK == graph \in [Calls -> CallType] /\ \A c \in Calls : CallOK(backend, graph[c])
RunsOK ==
    /\ run \in [Calls -> RunType(backend, dataset)]
    /\ \A r \in Calls : RunOK(backend, dataset, kind[r], run[r], graph[r])

IInv == GivenOK /\ GraphOK /\ RunsOK

LEMMA StrategiesFacts ==
    ASSUME NEW e \in Endpoints
    PROVE  /\ Len(Strategies(e)) \in 1..2
           /\ \A k \in 1..Len(Strategies(e)) : Strategies(e)[k] \in StrategyNames
           /\ e = "ab_test" => Len(Strategies(e)) = 2
<1> DEFINE two == <<"baseline", "strict_grounded">>
           one == <<"baseline">>
<1>1. Strategies(e) = IF e = "ab_test" THEN two ELSE one
  BY DEF Strategies
<1>2. Len(two) = 2 /\ two[1] \in StrategyNames /\ two[2] \in StrategyNames
  BY DEF StrategyNames
<1>3. Len(one) = 1 /\ one[1] \in StrategyNames
  BY DEF StrategyNames
<1>4. \A k \in 1..2 : k = 1 \/ k = 2
  OBVIOUS
<1> HIDE DEF two, one
<1>5. CASE e = "ab_test"
  <2>1. Strategies(e) = two BY <1>1, <1>5
  <2> DEFINE t == Strategies(e)
  <2>2. t = two BY <2>1
  <2> HIDE DEF t
  <2>3. Len(t) = 2 /\ \A k \in 1..2 : t[k] \in StrategyNames BY <1>2, <1>4, <2>2
  <2>4. Len(t) \in 1..2 /\ \A k \in 1..Len(t) : t[k] \in StrategyNames BY <2>3
  <2> QED BY <2>3, <2>4 DEF t
<1>6. CASE e # "ab_test"
  <2>1. Strategies(e) = one BY <1>1, <1>6
  <2>2. \A k \in 1..1 : k = 1 OBVIOUS
  <2> DEFINE t == Strategies(e)
  <2>3. t = one BY <2>1
  <2> HIDE DEF t
  <2>4. Len(t) = 1 /\ \A k \in 1..1 : t[k] \in StrategyNames BY <1>3, <2>2, <2>3
  <2>5. Len(t) \in 1..2 /\ \A k \in 1..Len(t) : t[k] \in StrategyNames BY <2>4
  <2> QED BY <1>6, <2>5 DEF t
<1> QED BY <1>5, <1>6

LEMMA CaseFacts ==
    ASSUME GivenOK, NEW n \in 1..Len(dataset)
    PROVE  /\ dataset[n].prompt \in Texts
           /\ dataset[n].tools \in ToolLists
           /\ IsFiniteSet(dataset[n].context)
           /\ Cardinality(dataset[n].context) <= 100
<1>1. dataset[n] \in Cases
  BY DEF GivenOK
<1> QED BY <1>1, CasesAssumption DEF ToolLists, Texts

\* The instruction of a strategy changes neither the modem nor the routing.
LEMMA TransformFacts ==
    ASSUME NEW s, NEW prompt \in Texts
    PROVE  /\ Transform(s, prompt) \in Texts
           /\ \A applied : Inspect(Transform(s, prompt), applied) = Inspect(prompt, applied)
           /\ \A consent : Taken(Transform(s, prompt), consent) = Taken(prompt, consent)
           /\ \A consent : Outcome(Transform(s, prompt), consent) = Outcome(prompt, consent)
<1>1. Transform(s, prompt) \in Texts
  <2>1. IsFiniteSet(prompt \union StrictPhrases)
    BY RunsAssumption, FS_Union DEF Texts
  <2> QED BY <2>1, RunsAssumption DEF Transform, Texts
<1>2. /\ Transform(s, prompt) \intersect OfflineTerms = prompt \intersect OfflineTerms
      /\ Transform(s, prompt) \intersect DegradedTerms = prompt \intersect DegradedTerms
  <2>1. \A t \in OfflineTerms \union DegradedTerms :
            t \in Transform(s, prompt) <=> t \in prompt
    BY RunsAssumption DEF Transform
  <2> HIDE DEF Transform
  <2> QED BY <2>1
<1>3. \A applied : Inspect(Transform(s, prompt), applied) = Inspect(prompt, applied)
  BY <1>2 DEF Inspect
<1> QED BY <1>1, <1>3 DEF Taken, Outcome, Resets

LEMMA ConsentTyped ==
    ASSUME NEW prompt PROVE HasExplicitResetConsent(prompt) \in BOOLEAN
BY DEF HasExplicitResetConsent

LEMMA AskedTyped ==
    ASSUME NEW symptoms \in Texts, NEW consent \in BOOLEAN
    PROVE  /\ Asked(symptoms, consent) \in CallType
           /\ Asked(symptoms, consent).symptoms = symptoms
           /\ Asked(symptoms, consent).consent = consent
           /\ \A b : CallOK(b, Asked(symptoms, consent))
<1> DEFINE g == Asked(symptoms, consent)
           no == FALSE
           none == NoTool
<1>1. g = [node |-> "retrieve_guidance", symptoms |-> symptoms, consent |-> consent,
           citations |-> {}, before |-> None, after |-> None, tools |-> none,
           reset |-> no, status |-> None, selection |-> 0, groundedness |-> 0]
  BY DEF Asked, NoTool
<1>2. no \in BOOLEAN /\ none \in ToolLists
  BY Tools
<1>3. ~no /\ none = NoTool OBVIOUS
<1> HIDE DEF no, none, g
<1>4. g \in CallType
  BY <1>1, <1>2 DEF CallType, Nodes
<1>5. \A b : CallOK(b, g)
  BY <1>1, <1>3 DEF CallOK, Asking
<1>6. g.symptoms = symptoms /\ g.consent = consent BY <1>1
<1> QED BY <1>4, <1>5, <1>6 DEF g

LEMMA IdleTyped == Idle \in CallType /\ Idle.node = "idle" /\ \A b : CallOK(b, Idle)
<1> DEFINE g == Asked({}, FALSE)
<1>1. g \in CallType /\ \A b : CallOK(b, g)
  BY FS_EmptySet, AskedTyped DEF Texts
<1>2. g.node = "retrieve_guidance" BY DEF Asked
<1>3. Idle = [g EXCEPT !.node = "idle"] BY DEF Idle
<1> HIDE DEF g
<1>4. Idle \in CallType BY <1>1, <1>3 DEF CallType, Nodes
<1>5. /\ Idle.node = "idle" /\ Idle.tools = g.tools /\ Idle.status = g.status
      /\ Idle.reset = g.reset /\ Idle.after = g.after
  BY <1>1, <1>3 DEF CallType
<1>6. \A b : CallOK(b, Idle) BY <1>1, <1>2, <1>5 DEF CallOK, Asking
<1> QED BY <1>4, <1>5, <1>6

LEMMA ResultAnswers ==
    ASSUME IInv, NEW r \in Calls, run[r].phase = "running", At(r, "answered")
    PROVE  Result(r) \in Answers(backend, dataset, StrategyAt(kind[r], run[r]),
                                  Len(run[r].results) + 1)
<1> DEFINE g == graph[r]
           s == StrategyAt(kind[r], run[r])
           n == Len(run[r].results) + 1
           prompt == dataset[n].prompt
           consent == HasExplicitResetConsent(prompt)
<1>1. /\ g.symptoms = Transform(s, prompt) /\ g.consent = consent
      /\ Len(run[r].results) < Len(dataset)
  BY DEF IInv, RunsOK, RunOK
<1>2. n \in 1..Len(dataset)
  BY <1>1 DEF IInv, RunsOK, RunType, GivenOK
<1>3. CallOK(backend, g) /\ g.node = "answered"
  BY DEF IInv, GraphOK, At
<1>4. /\ g.tools = Taken(g.symptoms, g.consent) /\ g.status = Outcome(g.symptoms, g.consent)
      /\ g.groundedness = Grounded(g.citations)
      /\ g.citations \in Found(backend, g.symptoms)
  BY <1>3 DEF CallOK, Told
<1>5. prompt \in Texts
  BY <1>2, CaseFacts DEF IInv
<1>6. g.tools = Taken(prompt, consent) /\ g.status = Outcome(prompt, consent)
  BY <1>1, <1>4, <1>5, TransformFacts
<1>7. g.citations \in Found(backend, Transform(s, prompt))
  BY <1>1, <1>4
<1>8. Result(r) = Answer(dataset, s, n, g.citations)
  BY <1>4, <1>6 DEF Result, Answer, AnswerWith, GroundednessOf, RiskOf, StrategyOf, StrategyAt
<1> QED BY <1>7, <1>8 DEF Answers

LEMMA AllAnswersOf ==
    ASSUME NEW b, NEW ds, NEW s \in StrategyNames, NEW n \in 1..Len(ds),
           NEW x \in Answers(b, ds, s, n)
    PROVE  x \in AllAnswers(b, ds)
<1> DEFINE m == <<s, n>>
<1>1. m \in StrategyNames \X (1..Len(ds)) /\ m[1] = s /\ m[2] = n
  OBVIOUS
<1>2. x \in Answers(b, ds, m[1], m[2])
  BY <1>1
<1> HIDE DEF m
<1> QED BY <1>1, <1>2 DEF AllAnswers

\* The next thing a run asks the agent.
LEMMA RequestTyped ==
    ASSUME IInv, NEW r \in Calls, NEW p, Len(p.results) \in Nat, Len(p.results) < Len(dataset)
    PROVE  LET prompt == dataset[Len(p.results) + 1].prompt
           IN  /\ Request(r, p) \in CallType /\ CallOK(backend, Request(r, p))
               /\ Request(r, p).symptoms = Transform(StrategyAt(kind[r], p), prompt)
               /\ Request(r, p).consent = HasExplicitResetConsent(prompt)
<1> DEFINE n == Len(p.results) + 1
           prompt == dataset[n].prompt
           symptoms == Transform(StrategyAt(kind[r], p), prompt)
           consent == HasExplicitResetConsent(prompt)
<1>1. n \in 1..Len(dataset)
  BY DEF IInv, GivenOK
<1>2. symptoms \in Texts
  BY <1>1, CaseFacts, TransformFacts DEF IInv
<1>3. consent \in BOOLEAN
  BY ConsentTyped
<1>4. Request(r, p) = Asked(symptoms, consent)
  BY DEF Request, StrategyOf, StrategyAt
<1> HIDE DEF symptoms, consent
<1>5. /\ Request(r, p) \in CallType /\ CallOK(backend, Request(r, p))
      /\ Request(r, p).symptoms = symptoms /\ Request(r, p).consent = consent
  BY <1>2, <1>3, <1>4, AskedTyped
<1> QED BY <1>5 DEF symptoms, consent

\* A run with one more result.
LEMMA NextRun ==
    ASSUME IInv, NEW r \in Calls, run[r].phase = "running",
           NEW x \in Answers(backend, dataset, StrategyAt(kind[r], run[r]),
                              Len(run[r].results) + 1),
           NEW q, q = After(r, Append(run[r].results, x))
    PROVE  /\ q \in RunType(backend, dataset) /\ q.phase \in {"running", "done"}
           /\ \A g : (q.phase = "running" => g = Request(r, q))
                        => RunOK(backend, dataset, kind[r], q, g)
           /\ q.phase = "running" =>
                Request(r, q) \in CallType /\ CallOK(backend, Request(r, q))
<1> DEFINE p == run[r]
           e == kind[r]
           s == StrategyAt(e, p)
           A == AllAnswers(backend, dataset)
           F == FinishedType(backend, dataset)
           results == Append(p.results, x)
<1>1. p \in RunType(backend, dataset) /\ RunOK(backend, dataset, e, p, graph[r])
  BY DEF IInv, RunsOK
<1>2. /\ p.results \in Seq(A) /\ p.runs \in Seq(F) /\ Len(p.results) \in Nat
      /\ Len(p.runs) \in Nat
  BY <1>1 DEF RunType
<1>3. e \in Endpoints /\ Len(dataset) \in Nat /\ Len(dataset) >= 1
  BY DEF IInv, GivenOK
<1>4. Len(p.runs) < Len(Strategies(e)) /\ Len(p.results) < Len(dataset)
  <2>1. Len(p.runs) <= Len(Strategies(e)) /\ Len(p.runs) # Len(Strategies(e))
    BY <1>1 DEF RunOK
  <2>2. Len(Strategies(e)) \in Nat BY <1>3, StrategiesFacts
  <2>3. Len(p.results) < Len(dataset) BY <1>1 DEF RunOK
  <2> QED BY <1>2, <2>1, <2>2, <2>3
<1>5. s \in StrategyNames
  BY <1>2, <1>3, <1>4, StrategiesFacts DEF StrategyAt
<1>6. x \in A
  BY <1>2, <1>3, <1>4, <1>5, AllAnswersOf
<1>7. results \in Seq(A) /\ Len(results) = Len(p.results) + 1
  BY <1>2, <1>6
<1>8. Answered(backend, dataset, s, results)
  <2> SUFFICES ASSUME NEW n \in 1..Len(results)
               PROVE  results[n] \in Answers(backend, dataset, s, n)
    BY DEF Answered
  <2>1. CASE n <= Len(p.results)
    <3>1. results[n] = p.results[n] BY <1>2, <1>6, <2>1
    <3>2. n \in 1..Len(p.results) BY <1>2, <2>1
    <3> HIDE DEF results
    <3> QED BY <1>1, <3>1, <3>2 DEF RunOK, Answered
  <2>2. CASE n = Len(p.results) + 1
    <3>1. results[n] = x BY <1>2, <1>6, <2>2
    <3> QED BY <2>2, <3>1
  <2> QED BY <1>2, <1>7, <2>1, <2>2
<1> HIDE DEF results
<1>9. CASE Len(results) < Len(dataset)
  <2>1. q = [p EXCEPT !.results = results]
    BY <1>9 DEF After, results
  <2>2. q.results = results /\ q.runs = p.runs /\ q.phase = "running"
    BY <1>1, <2>1 DEF RunType
  <2>3. q \in RunType(backend, dataset)
    BY <1>1, <1>7, <2>1 DEF RunType
  <2>4. StrategyAt(e, q) = s
    BY <2>2 DEF StrategyAt
  <2>5. Len(q.results) \in Nat /\ Len(q.results) < Len(dataset)
    BY <1>2, <1>7, <1>9, <2>2
  <2>6. /\ Request(r, q) \in CallType /\ CallOK(backend, Request(r, q))
        /\ Request(r, q).symptoms = Transform(s, dataset[Len(q.results) + 1].prompt)
        /\ Request(r, q).consent = HasExplicitResetConsent(dataset[Len(q.results) + 1].prompt)
    BY <2>4, <2>5, RequestTyped
  <2>7. RunOK(backend, dataset, e, q, Request(r, q))
    BY <1>1, <1>8, <1>9, <2>2, <2>4, <2>5, <2>6 DEF RunOK
  <2> QED BY <2>2, <2>3, <2>6, <2>7
<1>10. CASE ~(Len(results) < Len(dataset))
  <2> DEFINE f == Finished(r, results)
             runs == Append(p.runs, f)
             phase == IF Len(p.runs) + 1 < Len(Strategies(e)) THEN "running" ELSE "done"
             none == <<>>
  <2>1. q = [phase |-> phase, runs |-> runs, results |-> none]
    BY <1>10 DEF After, results
  <2>2. Len(results) = Len(dataset)
    BY <1>2, <1>3, <1>4, <1>7, <1>10
  <2>3. f \in F /\ f.strategy = s /\ f.cases = results
    BY <1>5, <1>7 DEF Finished, FinishedType, StrategyOf, StrategyAt
  <2>4. none \in Seq(A) /\ Len(none) = 0
    OBVIOUS
  <2> HIDE DEF none, f
  <2>5. runs \in Seq(F) /\ Len(runs) = Len(p.runs) + 1 /\ runs[Len(p.runs) + 1] = f
        /\ \A k \in 1..Len(p.runs) : runs[k] = p.runs[k]
    BY <1>2, <2>3
  <2> HIDE DEF runs
  <2>6. phase \in {"running", "done"} /\ (phase = "done" <=> Len(p.runs) + 1 = Len(Strategies(e)))
    BY <1>2, <1>3, <1>4, StrategiesFacts
  <2> HIDE DEF phase
  <2>7. q.phase = phase /\ q.runs = runs /\ q.results = none
    BY <2>1
  <2>8. q \in RunType(backend, dataset)
    BY <2>1, <2>4, <2>5, <2>6 DEF RunType, Phases
  <2>9. /\ Request(r, q) \in CallType /\ CallOK(backend, Request(r, q))
        /\ Request(r, q).symptoms = Transform(StrategyAt(e, q), dataset[Len(q.results) + 1].prompt)
        /\ Request(r, q).consent = HasExplicitResetConsent(dataset[Len(q.results) + 1].prompt)
    <3>1. Len(q.results) \in Nat /\ Len(q.results) < Len(dataset)
      BY <1>3, <2>4, <2>7
    <3> QED BY <3>1, RequestTyped
  <2>10. ASSUME NEW k \in 1..Len(q.runs)
         PROVE  /\ q.runs[k].strategy = Strategies(e)[k]
                /\ Len(q.runs[k].cases) = Len(dataset)
                /\ Answered(backend, dataset, Strategies(e)[k], q.runs[k].cases)
    <3>1. CASE k \in 1..Len(p.runs)
      <4>1. q.runs[k] = p.runs[k] BY <2>5, <2>7, <3>1
      <4> QED BY <1>1, <3>1, <4>1 DEF RunOK
    <3>2. CASE k = Len(p.runs) + 1
      <4>1. q.runs[k] = f /\ Strategies(e)[k] = s BY <2>5, <2>7, <3>2 DEF StrategyAt
      <4> QED BY <1>8, <2>2, <2>3, <4>1
    <3> QED BY <1>2, <2>5, <2>7, <3>1, <3>2
  <2>11. Answered(backend, dataset, StrategyAt(e, q), q.results)
    BY <2>4, <2>7 DEF Answered
  <2>12. /\ Len(q.results) < Len(dataset) /\ Len(q.runs) <= Len(Strategies(e))
         /\ q.phase = "done" <=> Len(q.runs) = Len(Strategies(e))
    BY <1>2, <1>3, <1>4, <2>4, <2>5, <2>6, <2>7, StrategiesFacts
  <2>13. ASSUME NEW g, q.phase = "running" => g = Request(r, q)
         PROVE  RunOK(backend, dataset, e, q, g)
    BY <2>6, <2>7, <2>9, <2>10, <2>11, <2>12, <2>13 DEF RunOK
  <2> QED BY <2>6, <2>7, <2>8, <2>9, <2>13
<1> QED BY <1>9, <1>10
-----------------------------------------------------------------------------
(* The invariant *)

LEMMA IInvInit == Init => IInv
<1> SUFFICES ASSUME Init PROVE IInv
  OBVIOUS
<1>1. PICK i \in Inputs : backend = i.backend /\ dataset = i.dataset /\ kind = i.kind
  BY DEF Init
<1>2. GivenOK
  BY <1>1, InputsAssumption DEF GivenOK
<1>3. GraphOK
  BY IdleTyped DEF Init, GraphOK
<1> DEFINE none == <<>>
           p == [phase |-> "new", runs |-> none, results |-> none]
<1>4. \A S : none \in Seq(S)
  OBVIOUS
<1>5. Len(none) = 0
  OBVIOUS
<1>6. run = [r \in Calls |-> p]
  BY DEF Init
<1> HIDE DEF none
<1>7. p \in RunType(backend, dataset)
  BY <1>4 DEF RunType, Phases
<1>8. ASSUME NEW r \in Calls
      PROVE  RunOK(backend, dataset, kind[r], p, graph[r])
  <2>1. Len(Strategies(kind[r])) \in 1..2
    BY <1>2, StrategiesFacts DEF GivenOK
  <2>2. graph[r].node = "idle"
    BY IdleTyped DEF Init
  <2>3. p.phase = "new" /\ p.runs = none /\ p.results = none
    OBVIOUS
  <2>4. Len(dataset) \in Nat /\ Len(dataset) >= 1
    BY <1>2 DEF GivenOK
  <2> HIDE DEF p
  <2>5. \A n : n \notin 1..Len(none)
    BY <1>5
  <2>6. Answered(backend, dataset, StrategyAt(kind[r], p), p.results)
    BY <2>3, <2>5 DEF Answered
  <2>0. Len(p.results) = 0 /\ Len(p.runs) = 0
    BY <1>5, <2>3
  <2>7. /\ Len(p.results) < Len(dataset) /\ Len(p.runs) <= Len(Strategies(kind[r]))
        /\ Len(p.runs) # Len(Strategies(kind[r]))
    <3> DEFINE l == Len(Strategies(kind[r]))
               m == Len(p.results)
               n == Len(p.runs)
               k == Len(dataset)
    <3>1. l \in 1..2 /\ m = 0 /\ n = 0 /\ k \in Nat /\ k >= 1 BY <2>0, <2>1, <2>4
    <3> HIDE DEF l, m, n, k
    <3>2. m < k /\ n <= l /\ n # l BY <3>1
    <3> QED BY <3>2 DEF l, m, n, k
  <2> QED BY <1>5, <2>0, <2>2, <2>3, <2>5, <2>6, <2>7 DEF RunOK
<1>9. RunsOK
  BY <1>6, <1>7, <1>8 DEF RunsOK
<1> QED BY <1>2, <1>3, <1>9 DEF IInv

\* One run, and its call, move at a time.
LEMMA OneMoves ==
    ASSUME IInv, UNCHANGED given, NEW r \in Calls,
           NEW p \in RunType(backend, dataset), NEW g \in CallType,
           CallOK(backend, g), RunOK(backend, dataset, kind[r], p, g),
           run' = [run EXCEPT ![r] = p], graph' = [graph EXCEPT ![r] = g]
    PROVE  IInv'
<1>1. backend' = backend /\ dataset' = dataset /\ kind' = kind
  BY DEF given
<1>2. GivenOK'
  BY <1>1 DEF IInv, GivenOK
<1>3. /\ run' \in [Calls -> RunType(backend, dataset)] /\ graph' \in [Calls -> CallType]
      /\ run'[r] = p /\ graph'[r] = g
      /\ \A c \in Calls \ {r} : run'[c] = run[c] /\ graph'[c] = graph[c]
  BY DEF IInv, GraphOK, RunsOK
<1>4. \A c \in Calls : CallOK(backend, graph'[c])
  BY <1>3 DEF IInv, GraphOK
<1>5. \A c \in Calls : RunOK(backend, dataset, kind[c], run'[c], graph'[c])
  BY <1>3 DEF IInv, RunsOK
<1>6. GraphOK'
  BY <1>1, <1>3, <1>4 DEF GraphOK
<1>7. RunsOK'
  BY <1>1, <1>3, <1>5 DEF RunsOK
<1> QED BY <1>2, <1>6, <1>7 DEF IInv

LEMMA IInvStep == IInv /\ [Next]_vars => IInv'
<1> SUFFICES ASSUME IInv, [Next]_vars PROVE IInv'
  OBVIOUS
<1>g. /\ run \in [Calls -> RunType(backend, dataset)] /\ graph \in [Calls -> CallType]
      /\ \A r \in Calls : CallOK(backend, graph[r])
      /\ \A r \in Calls : RunOK(backend, dataset, kind[r], run[r], graph[r])
  BY DEF IInv, GraphOK, RunsOK
<1>l. \A r \in Calls : Len(run[r].results) \in Nat
  BY <1>g DEF RunType
<1>1. ASSUME NEW r \in Calls, StartRun(r) PROVE IInv'
  <2> DEFINE p == [run[r] EXCEPT !.phase = "running"]
             g == Request(r, run[r])
             e == kind[r]
  <2>1. /\ run[r].phase = "new" /\ UNCHANGED given
        /\ run' = [run EXCEPT ![r] = p] /\ graph' = [graph EXCEPT ![r] = g]
    BY <1>1 DEF StartRun
  <2>2. p \in RunType(backend, dataset)
    BY <1>g DEF RunType, Phases
  <2>3. p.phase = "running" /\ p.runs = run[r].runs /\ p.results = run[r].results
    BY <1>g DEF RunType
  <2> HIDE DEF p
  <2>4. StrategyAt(e, p) = StrategyAt(e, run[r])
    BY <2>3 DEF StrategyAt
  <2>5. Len(run[r].results) < Len(dataset)
    BY <1>g DEF RunOK
  <2>6. /\ g \in CallType /\ CallOK(backend, g)
        /\ g.symptoms = Transform(StrategyAt(e, p), dataset[Len(p.results) + 1].prompt)
        /\ g.consent = HasExplicitResetConsent(dataset[Len(p.results) + 1].prompt)
    BY <1>l, <2>3, <2>4, <2>5, RequestTyped
  <2> HIDE DEF g
  <2>7. RunOK(backend, dataset, e, p, g)
    BY <1>g, <2>1, <2>3, <2>4, <2>6 DEF RunOK
  <2> QED BY <2>1, <2>2, <2>6, <2>7, OneMoves
<1>2. ASSUME NEW r \in Calls, AgentStep(r) PROVE IInv'
  <2> DEFINE g == graph'[r]
  <2>1. Node(r) /\ UNCHANGED given /\ run' = run
    BY <1>2 DEF AgentStep
  <2>2. /\ g \in CallType /\ CallOK(backend, g) /\ graph' = [graph EXCEPT ![r] = g]
        /\ g.symptoms = graph[r].symptoms /\ g.consent = graph[r].consent
    BY <1>g, <2>1, NodeCall
  <2>3. graph[r].node # "idle"
    BY <2>1 DEF Node, At, RetrieveGuidance, RetrievalRaises, InspectTelemetry, PerformReset,
                VerifyTelemetry, ComposeResponse, Evaluate
  <2> HIDE DEF g
  <2>4. RunOK(backend, dataset, kind[r], run[r], g)
    BY <1>g, <2>2, <2>3 DEF RunOK
  <2>5. run' = [run EXCEPT ![r] = run[r]]
    BY <1>g, <2>1
  <2> QED BY <1>g, <2>1, <2>2, <2>4, <2>5, OneMoves
<1>3. ASSUME NEW r \in Calls, CaseEvaluated(r) PROVE IInv'
  <2>1. PICK q : /\ q = After(r, Append(run[r].results, Result(r)))
                 /\ run' = [run EXCEPT ![r] = q]
                 /\ graph' = IF q.phase = "done" THEN graph
                             ELSE [graph EXCEPT ![r] = Request(r, q)]
    BY <1>3 DEF CaseEvaluated
  <2>2. UNCHANGED given /\ run[r].phase = "running" /\ At(r, "answered")
    BY <1>3 DEF CaseEvaluated
  <2>3. /\ q \in RunType(backend, dataset) /\ q.phase \in {"running", "done"}
        /\ \A g : (q.phase = "running" => g = Request(r, q))
                     => RunOK(backend, dataset, kind[r], q, g)
        /\ q.phase = "running" =>
             Request(r, q) \in CallType /\ CallOK(backend, Request(r, q))
    BY <2>1, <2>2, ResultAnswers, NextRun
  <2>4. CASE q.phase = "done"
    <3>1. graph' = [graph EXCEPT ![r] = graph[r]] BY <1>g, <2>1, <2>4
    <3>2. RunOK(backend, dataset, kind[r], q, graph[r]) BY <2>3, <2>4
    <3> QED BY <1>g, <2>1, <2>2, <2>3, <3>1, <3>2, OneMoves
  <2>5. CASE q.phase = "running"
    <3>1. graph' = [graph EXCEPT ![r] = Request(r, q)] BY <2>1, <2>5
    <3>2. RunOK(backend, dataset, kind[r], q, Request(r, q)) BY <2>3
    <3> QED BY <2>1, <2>2, <2>3, <2>5, <3>1, <3>2, OneMoves
  <2> QED BY <2>3, <2>4, <2>5
<1>4. ASSUME NEW r \in Calls, CaseRaises(r) PROVE IInv'
  <2> DEFINE p == [run[r] EXCEPT !.phase = "failed"]
  <2>1. /\ run[r].phase = "running" /\ UNCHANGED given
        /\ run' = [run EXCEPT ![r] = p] /\ graph' = [graph EXCEPT ![r] = graph[r]]
    BY <1>g, <1>4 DEF CaseRaises
  <2>2. p \in RunType(backend, dataset)
    BY <1>g DEF RunType, Phases
  <2>3. p.phase = "failed" /\ p.runs = run[r].runs /\ p.results = run[r].results
    BY <1>g DEF RunType
  <2> HIDE DEF p
  <2>4. StrategyAt(kind[r], p) = StrategyAt(kind[r], run[r])
    BY <2>3 DEF StrategyAt
  <2>6. Len(run[r].runs) # Len(Strategies(kind[r]))
    BY <1>g, <2>1 DEF RunOK
  <2>5. RunOK(backend, dataset, kind[r], p, graph[r])
    <3> DEFINE L == Strategies(kind[r])
    <3>1. /\ Len(p.results) < Len(dataset) /\ Len(p.runs) <= Len(L) /\ Len(p.runs) # Len(L)
          /\ Answered(backend, dataset, StrategyAt(kind[r], p), p.results)
      BY <1>g, <2>3, <2>4, <2>6 DEF RunOK
    <3>2. \A k \in 1..Len(p.runs) :
            /\ p.runs[k].strategy = Strategies(kind[r])[k]
            /\ Len(p.runs[k].cases) = Len(dataset)
            /\ Answered(backend, dataset, Strategies(kind[r])[k], p.runs[k].cases)
      <4>1. \A k \in 1..Len(run[r].runs) :
              /\ run[r].runs[k].strategy = Strategies(kind[r])[k]
              /\ Len(run[r].runs[k].cases) = Len(dataset)
              /\ Answered(backend, dataset, Strategies(kind[r])[k], run[r].runs[k].cases)
        BY <1>g DEF RunOK
      <4> QED BY <2>3, <4>1
    <3> QED BY <2>3, <3>1, <3>2 DEF RunOK
  <2> QED BY <1>g, <2>1, <2>2, <2>5, OneMoves
<1>5. ASSUME UNCHANGED vars PROVE IInv'
  <2>1. /\ backend' = backend /\ dataset' = dataset /\ kind' = kind
        /\ graph' = graph /\ run' = run
    BY <1>5 DEF vars, given
  <2> QED BY <1>g, <2>1 DEF IInv, GivenOK, GraphOK, RunsOK
<1> QED BY <1>1, <1>2, <1>3, <1>4, <1>5 DEF Next, Progress, Ended

LEMMA IInvHolds == Spec => []IInv
<1> QED BY IInvInit, IInvStep, PTL DEF Spec
-----------------------------------------------------------------------------
(* What is reported *)

LEMMA ReportedIff ==
    ASSUME NEW x
    PROVE  x \in Reported <=>
             \E r \in Calls :
                \/ \E n \in DOMAIN run[r].results : x = run[r].results[n]
                \/ \E k \in DOMAIN run[r].runs : \E n \in DOMAIN run[r].runs[k].cases :
                      x = run[r].runs[k].cases[n]
<1> DEFINE Now(r) == {run[r].results[n] : n \in DOMAIN run[r].results}
           Then(r, k) == {run[r].runs[k].cases[n] : n \in DOMAIN run[r].runs[k].cases}
<1>1. ASSUME NEW r \in Calls
      PROVE  x \in Results(r) <=>
               x \in Now(r) \/ \E k \in DOMAIN run[r].runs : x \in Then(r, k)
  <2>1. Results(r) = UNION ({Now(r)} \union {Then(r, k) : k \in DOMAIN run[r].runs})
    BY DEF Results
  <2> HIDE DEF Now, Then
  <2> QED BY <2>1
<1>2. x \in Reported <=> \E r \in Calls : x \in Results(r)
  BY DEF Reported
<1> QED BY <1>1, <1>2

LEMMA FinishedFacts ==
    ASSUME NEW b, NEW ds, NEW f \in FinishedType(b, ds)
    PROVE  f.cases \in Seq(AllAnswers(b, ds)) /\ f.aggregate = Aggregate(f.cases)
BY DEF FinishedType

LEMMA ReportedAnswers ==
    ASSUME IInv, NEW x \in Reported
    PROVE  \E s \in StrategyNames, n \in 1..Len(dataset) : x \in Answers(backend, dataset, s, n)
<1> DEFINE A == AllAnswers(backend, dataset)
<1>1. PICK r \in Calls :
        \/ \E n \in DOMAIN run[r].results : x = run[r].results[n]
        \/ \E k \in DOMAIN run[r].runs : \E n \in DOMAIN run[r].runs[k].cases :
              x = run[r].runs[k].cases[n]
  BY ReportedIff
<1>2. run[r].results \in Seq(A) /\ run[r].runs \in Seq(FinishedType(backend, dataset))
  BY DEF IInv, RunsOK, RunType
<1>3. CASE \E n \in DOMAIN run[r].results : x = run[r].results[n]
  <2>1. x \in A BY <1>2, <1>3
  <2> QED BY <2>1 DEF AllAnswers
<1>4. ASSUME NEW k \in DOMAIN run[r].runs, NEW n \in DOMAIN run[r].runs[k].cases,
             x = run[r].runs[k].cases[n]
      PROVE  x \in A
  <2> DEFINE f == run[r].runs[k]
  <2>1. f \in FinishedType(backend, dataset) BY <1>2, <1>4
  <2>2. f.cases \in Seq(A) BY <2>1, FinishedFacts
  <2> QED BY <1>4, <2>2
<1>5. CASE \E k \in DOMAIN run[r].runs : \E n \in DOMAIN run[r].runs[k].cases :
              x = run[r].runs[k].cases[n]
  <2>1. x \in A BY <1>4, <1>5
  <2> QED BY <2>1 DEF AllAnswers
<1> QED BY <1>1, <1>3, <1>5

LEMMA AnswerFields ==
    ASSUME NEW b, NEW ds, NEW s, NEW n, NEW x \in Answers(b, ds, s, n)
    PROVE  LET consent == HasExplicitResetConsent(ds[n].prompt)
               outcome == Outcome(ds[n].prompt, consent)
               taken == Taken(ds[n].prompt, consent)
           IN  /\ x.case = n /\ x.strategy = s
               /\ x.status = outcome /\ x.tools = taken
               /\ x.accuracy = Accuracy(taken, ds[n].tools)
               /\ x.completed = (outcome = ds[n].resolution)
BY DEF Answers, Answer, AnswerWith

\* A finished run's cases, in order.
LEMMA RunCases ==
    ASSUME IInv, NEW r \in Calls, NEW k \in DOMAIN run[r].runs
    PROVE  /\ k \in 1..Len(Strategies(kind[r]))
           /\ run[r].runs[k].strategy = Strategies(kind[r])[k]
           /\ run[r].runs[k].cases \in Seq(AllAnswers(backend, dataset))
           /\ run[r].runs[k].aggregate = Aggregate(run[r].runs[k].cases)
           /\ DOMAIN run[r].runs[k].cases = 1..Len(dataset)
           /\ Len(run[r].runs[k].cases) = Len(dataset)
           /\ \A n \in 1..Len(dataset) :
                run[r].runs[k].cases[n]
                    \in Answers(backend, dataset, run[r].runs[k].strategy, n)
           /\ run[r].runs[k] \in FinishedType(backend, dataset)
<1>1. run[r].runs \in Seq(FinishedType(backend, dataset))
  BY DEF IInv, RunsOK, RunType
<1>2. RunOK(backend, dataset, kind[r], run[r], graph[r])
  BY DEF IInv, RunsOK
<1>3. k \in 1..Len(run[r].runs) /\ run[r].runs[k] \in FinishedType(backend, dataset)
  BY <1>1
<1>4. /\ run[r].runs[k].cases \in Seq(AllAnswers(backend, dataset))
      /\ run[r].runs[k].aggregate = Aggregate(run[r].runs[k].cases)
  BY <1>3, FinishedFacts
<1>5. /\ run[r].runs[k].strategy = Strategies(kind[r])[k]
      /\ Len(run[r].runs[k].cases) = Len(dataset)
      /\ Answered(backend, dataset, Strategies(kind[r])[k], run[r].runs[k].cases)
  BY <1>2, <1>3 DEF RunOK
<1>6. Len(run[r].runs) <= Len(Strategies(kind[r])) /\ Len(run[r].runs) \in Nat
      /\ Len(Strategies(kind[r])) \in Nat
  BY <1>1, <1>2, StrategiesFacts DEF RunOK, IInv, GivenOK
<1>7. k \in 1..Len(Strategies(kind[r]))
  BY <1>3, <1>6
<1> QED BY <1>3, <1>4, <1>5, <1>7 DEF Answered

\* Means and counts of what two lists of results have in common.
LEMMA SameMean ==
    ASSUME NEW S, NEW T, NEW x \in Seq(S), NEW y \in Seq(T), Len(x) = Len(y), NEW metric,
           \A n \in 1..Len(x) : x[n][metric] = y[n][metric]
    PROVE  Mean(x, metric) = Mean(y, metric) /\ Count(x, metric) = Count(y, metric)
<1>1. DOMAIN x = 1..Len(x) /\ DOMAIN y = 1..Len(x)
  OBVIOUS
<1>2. [n \in DOMAIN x |-> x[n][metric]] = [n \in DOMAIN y |-> y[n][metric]]
  BY <1>1
<1>3. {n \in DOMAIN x : x[n][metric]} = {n \in DOMAIN y : y[n][metric]}
  BY <1>1
<1>4. Count(x, metric) = Count(y, metric)
  BY <1>3 DEF Count
<1> DEFINE f == [n \in DOMAIN x |-> x[n][metric]]
           g == [n \in DOMAIN y |-> y[n][metric]]
<1>5. /\ Mean(x, metric) = Thousandths(Total(f), 1000 * Len(x))
      /\ Mean(y, metric) = Thousandths(Total(g), 1000 * Len(y))
  BY DEF Mean
<1>6. f = g BY <1>2
<1> HIDE DEF f, g
<1> QED BY <1>4, <1>5, <1>6

LEMMA NeutralFromIInv == IInv => StrategyNeutral
<1> SUFFICES ASSUME IInv PROVE StrategyNeutral
  OBVIOUS
<1>1. ASSUME NEW x \in Reported, NEW y \in Reported, x.case = y.case
      PROVE  /\ x.status = y.status /\ x.tools = y.tools
             /\ x.accuracy = y.accuracy /\ x.completed = y.completed
  <2>1. PICK s \in StrategyNames, n \in 1..Len(dataset) : x \in Answers(backend, dataset, s, n)
    BY ReportedAnswers
  <2>2. PICK t \in StrategyNames, m \in 1..Len(dataset) : y \in Answers(backend, dataset, t, m)
    BY ReportedAnswers
  <2>3. n = m BY <1>1, <2>1, <2>2, AnswerFields
  <2> QED BY <2>1, <2>2, <2>3, AnswerFields
<1>2. ASSUME NEW r \in Calls, kind[r] = "ab_test", run[r].phase = "done"
      PROVE  NoDelta(r, "accuracy") /\ NoDelta(r, "completion")
  <2> DEFINE x == run[r].runs[1].cases
             y == run[r].runs[2].cases
             A == AllAnswers(backend, dataset)
  <2>1. DOMAIN run[r].runs = 1..2
    <3>1. Len(run[r].runs) = 2
      BY <1>2, StrategiesFacts DEF IInv, RunsOK, RunOK, Endpoints
    <3>2. run[r].runs \in Seq(FinishedType(backend, dataset))
      BY DEF IInv, RunsOK, RunType
    <3> QED BY <3>1, <3>2
  <2>2. 1 \in DOMAIN run[r].runs /\ 2 \in DOMAIN run[r].runs
    BY <2>1
  <2>3. /\ x \in Seq(A) /\ y \in Seq(A) /\ Len(x) = Len(dataset) /\ Len(y) = Len(dataset)
        /\ run[r].runs[1].aggregate = Aggregate(x) /\ run[r].runs[2].aggregate = Aggregate(y)
    BY <2>2, RunCases
  <2>4. \A n \in 1..Len(dataset) :
            x[n].accuracy = y[n].accuracy /\ x[n].completed = y[n].completed
    <3> SUFFICES ASSUME NEW n \in 1..Len(dataset)
                 PROVE  x[n].accuracy = y[n].accuracy /\ x[n].completed = y[n].completed
      OBVIOUS
    <3>1. /\ x[n] \in Answers(backend, dataset, run[r].runs[1].strategy, n)
          /\ y[n] \in Answers(backend, dataset, run[r].runs[2].strategy, n)
      BY <2>2, RunCases
    <3> QED BY <3>1, AnswerFields
  <2> HIDE DEF x, y
  <2>5. Mean(x, "accuracy") = Mean(y, "accuracy")
    BY <2>3, <2>4, SameMean
  <2>6. Count(x, "completed") = Count(y, "completed")
    BY <2>3, <2>4, SameMean
  <2>7. Aggregate(x)["accuracy"] = Aggregate(y)["accuracy"]
    BY <2>5 DEF Aggregate
  <2>8. Aggregate(x)["completion"] = Aggregate(y)["completion"]
    BY <2>3, <2>6 DEF Aggregate
  <2> QED BY <2>3, <2>7, <2>8 DEF NoDelta
<1> QED BY <1>1, <1>2 DEF StrategyNeutral

\* StrategyNeutral, for any cases and phrases of which the instruction of
\* strict_grounded has none that a modem's condition is read from.
THEOREM StrategyNeutralHolds == Spec => []StrategyNeutral
<1> QED BY IInvHolds, NeutralFromIInv, PTL

LEMMA RepeatableFromIInv == IInv => RunsRepeatable
<1> SUFFICES ASSUME IInv, backend = "local",
                    NEW q \in Calls, NEW r \in Calls,
                    NEW j \in DOMAIN run[q].runs, NEW k \in DOMAIN run[r].runs,
                    run[q].runs[j].strategy = run[r].runs[k].strategy
             PROVE  run[q].runs[j] = run[r].runs[k]
  BY DEF RunsRepeatable
<1> DEFINE f == run[q].runs[j]
           g == run[r].runs[k]
           A == AllAnswers(backend, dataset)
<1>1. f \in FinishedType(backend, dataset) /\ g \in FinishedType(backend, dataset)
  BY RunCases
<1>2. /\ f.cases \in Seq(A) /\ g.cases \in Seq(A)
      /\ Len(f.cases) = Len(dataset) /\ Len(g.cases) = Len(dataset)
  BY RunCases
<1>3. \A n \in 1..Len(dataset) : f.cases[n] = g.cases[n]
  <2> SUFFICES ASSUME NEW n \in 1..Len(dataset) PROVE f.cases[n] = g.cases[n]
    OBVIOUS
  <2>1. /\ f.cases[n] \in Answers(backend, dataset, f.strategy, n)
        /\ g.cases[n] \in Answers(backend, dataset, f.strategy, n)
    BY RunCases
  <2> HIDE DEF f, g
  <2> QED BY <2>1 DEF Answers, Found
<1> HIDE DEF f, g, A
<1>4. f.cases = g.cases
  BY <1>2, <1>3
<1>5. f = g
  BY <1>1, <1>4 DEF FinishedType, f, g
<1> QED BY <1>5 DEF f, g

\* RunsRepeatable, for any number of runs and any dataset.
THEOREM RunsRepeatableHolds == Spec => []RunsRepeatable
<1> QED BY IInvHolds, RepeatableFromIInv, PTL
-----------------------------------------------------------------------------
(* What is routed to review *)

LEMMA ThousandthsBounds ==
    ASSUME NEW n \in Nat, NEW d \in Nat \ {0}, NEW m \in Nat
    PROVE  /\ 1000 * n >= m * d => Thousandths(n, d) >= m
           /\ 1000 * n < m * d => Thousandths(n, d) <= m
<1> DEFINE x == 1000 * n
           whole == x \div d
<1>1. x \in Nat
  OBVIOUS
<1>2. whole \in Nat
  BY <1>1
<1>3. Thousandths(n, d) = whole \/ Thousandths(n, d) = whole + 1
  BY DEF Thousandths
<1> HIDE DEF x
<1>4. x >= m * d => whole >= m
  BY <1>1
<1>5. x < m * d => whole < m
  BY <1>1
<1> HIDE DEF whole
<1> QED BY <1>2, <1>3, <1>4, <1>5 DEF x

LEMMA RoutedFromIInv == IInv => RoutedIffUnderHalf
<1> SUFFICES ASSUME IInv, NEW x \in Reported
             PROVE  x.routed <=> 2 * Cardinality(dataset[x.case].context \intersect x.cited)
                                   < Max2(Cardinality(dataset[x.case].context), 1)
  BY DEF RoutedIffUnderHalf
<1>1. PICK s \in StrategyNames, n \in 1..Len(dataset) : x \in Answers(backend, dataset, s, n)
  BY ReportedAnswers
<1>2. PICK cited : x = Answer(dataset, s, n, cited)
  BY <1>1 DEF Answers
<1> DEFINE context == dataset[n].context
           k == Cardinality(context \intersect cited)
           c == Cardinality(context)
           e == Max2(c, 1)
           own == Grounded(cited)
           g == GroundednessOf(dataset, n, cited)
           risk == RiskOf(dataset, n, cited)
<1>3. IsFiniteSet(context) /\ c <= 100
  BY CaseFacts DEF IInv
<1>4. k \in Nat /\ c \in Nat /\ k <= c
  BY <1>3, FS_CardinalityType, FS_Intersection, FS_Subset
<1>5. e \in 1..100 /\ k <= e
  <2> HIDE DEF k, c
  <2> QED BY <1>3, <1>4 DEF Max2
<1>6. own \in {0, 1000} /\ (k > 0 => own = 1000)
  <2>1. cited = {} => k = 0
    <3>1. context \intersect {} = {} OBVIOUS
    <3> QED BY <3>1, FS_EmptySet
  <2> HIDE DEF k
  <2> QED BY <2>1 DEF Grounded
<1> DEFINE num == 1000 * k + own * e
           den == 2000 * e
<1>7. g = Thousandths(num, den)
  BY DEF GroundednessOf, Groundedness
<1>num. num = 1000 * k + own * e /\ den = 2000 * e
  OBVIOUS
<1>8. risk = Max2(1000 - own, 1000 - g)
  BY DEF RiskOf
<1>9. /\ x.case = n /\ x.cited = cited
      /\ x.routed = NeedsReview(g, risk)
  BY <1>2 DEF Answer, AnswerWith
<1>10. /\ Cardinality(dataset[x.case].context \intersect x.cited) = k
       /\ Max2(Cardinality(dataset[x.case].context), 1) = e
  BY <1>9
<1> HIDE DEF k, e, own, g, risk, num, den
<1> HIDE DEF context, c
<1>11. (risk > 350 \/ g < 750) <=> 2 * k < e
  <2>1. k \in Nat /\ e \in 1..100 /\ k <= e /\ own \in {0, 1000}
    BY <1>4, <1>5, <1>6
  <2>2. num \in Nat /\ den \in Nat \ {0}
    BY <2>1, <1>num, SMT
  <2>3. g \in Nat
    BY <1>7, <2>2, ThousandthsNat
  <2>4. CASE own = 0
    <3>1. k = 0 BY <1>6, <2>1, <2>4
    <3>2. risk \in Int /\ risk >= 1000 BY <1>8, <2>3, <2>4 DEF Max2
    <3> QED BY <2>1, <3>1, <3>2
  <2>5. CASE own = 1000
    <3>1. num = 1000 * k + 1000 * e BY <1>num, <2>5
    <3>2. CASE 2 * k >= e
      <4>1. 1000 * num >= 750 * den BY <1>num, <2>1, <3>1, <3>2
      <4>2. g >= 750 BY <1>7, <2>2, <4>1, ThousandthsBounds
      <4>3. ~(risk > 350) BY <1>8, <2>3, <2>5, <4>2 DEF Max2
      <4> QED BY <2>1, <2>3, <3>2, <4>2, <4>3
    <3>3. CASE 2 * k < e
      <4>1. 1000 * num < 748 * den BY <1>num, <2>1, <3>1, <3>3
      <4>2. g <= 748 BY <1>7, <2>2, <4>1, ThousandthsBounds
      <4> QED BY <2>3, <3>3, <4>2
    <3> QED BY <2>1, <3>2, <3>3
  <2> QED BY <2>1, <2>4, <2>5
<1> QED BY <1>9, <1>10, <1>11 DEF NeedsReview

\* RoutedIffUnderHalf, for cases that expect at most a hundred documents:
\* neither the roundings nor the two thresholds ever decide.
THEOREM RoutedIffUnderHalfHolds == Spec => []RoutedIffUnderHalf
<1> QED BY IInvHolds, RoutedFromIInv, PTL
-----------------------------------------------------------------------------
(* The agent implements Diagnosis *)

AskedAt(g) == [condition |-> Inspect(g.symptoms, FALSE), consent |-> g.consent]
AnswerAt(g) ==
    CASE g.node = "idle" -> "none"
      [] g.node = "raised" -> "failed"
      [] g.node = "evaluate" \/ g.node = "answered" -> g.status
      [] OTHER -> "open"

AskedMap == [c \in Calls |-> [condition |-> Inspect(graph[c].symptoms, FALSE),
                              consent |-> graph[c].consent]]
ResetMap == [c \in Calls |-> graph[c].reset]
AnswerMap == [c \in Calls |-> AnswerOf(c)]

LEMMA AnswerAtFacts ==
    ASSUME NEW g
    PROVE  /\ g.node = "idle" => AnswerAt(g) = "none"
           /\ g.node = "raised" => AnswerAt(g) = "failed"
           /\ g.node \in {"evaluate", "answered"} => AnswerAt(g) = g.status
           /\ g.node \in Nodes \ {"idle", "raised", "evaluate", "answered"} => AnswerAt(g) = "open"
<1>1. g.node = "idle" => AnswerAt(g) = "none" BY DEF AnswerAt
<1>2. g.node = "raised" => AnswerAt(g) = "failed" BY DEF AnswerAt
<1>3. g.node \in {"evaluate", "answered"} => AnswerAt(g) = g.status BY DEF AnswerAt
<1>4. g.node \in Nodes \ {"idle", "raised", "evaluate", "answered"} => AnswerAt(g) = "open"
  BY DEF AnswerAt, Nodes
<1> QED BY <1>1, <1>2, <1>3, <1>4

\* One call moves at a time, in the eyes of Diagnosis too.
LEMMA MapsMove ==
    ASSUME graph \in [Calls -> CallType], NEW c \in Calls, NEW h,
           graph' = [graph EXCEPT ![c] = h]
    PROVE  /\ AskedMap' = [AskedMap EXCEPT ![c] = AskedAt(h)]
           /\ ResetMap' = [ResetMap EXCEPT ![c] = h.reset]
           /\ AnswerMap' = [AnswerMap EXCEPT ![c] = AnswerAt(h)]
           /\ AskedMap[c] = AskedAt(graph[c]) /\ ResetMap[c] = graph[c].reset
           /\ AnswerMap[c] = AnswerAt(graph[c])
<1>1. \A d \in Calls : graph'[d] = IF d = c THEN h ELSE graph[d]
  OBVIOUS
<1>2. \A d : AnswerOf(d) = AnswerAt(graph[d])
  BY DEF AnswerOf, AnswerAt, At
<1>3. \A d : AnswerOf(d)' = AnswerAt(graph'[d])
  BY DEF AnswerOf, AnswerAt, At
<1>4. AskedMap = [d \in Calls |-> AskedAt(graph[d])] /\ AskedMap' = [d \in Calls |-> AskedAt(graph'[d])]
  BY DEF AskedMap, AskedAt
<1>5. ResetMap = [d \in Calls |-> graph[d].reset] /\ ResetMap' = [d \in Calls |-> graph'[d].reset]
  BY DEF ResetMap
<1>6. AnswerMap = [d \in Calls |-> AnswerAt(graph[d])] /\ AnswerMap' = [d \in Calls |-> AnswerAt(graph'[d])]
  BY <1>2, <1>3 DEF AnswerMap
<1>7. AskedMap' = [AskedMap EXCEPT ![c] = AskedAt(h)] /\ AskedMap[c] = AskedAt(graph[c])
  BY <1>1, <1>4
<1>8. ResetMap' = [ResetMap EXCEPT ![c] = h.reset] /\ ResetMap[c] = graph[c].reset
  BY <1>1, <1>5
<1>9. AnswerMap' = [AnswerMap EXCEPT ![c] = AnswerAt(h)] /\ AnswerMap[c] = AnswerAt(graph[c])
  BY <1>1, <1>6
<1> QED BY <1>7, <1>8, <1>9

\* Where a node leads to.
LEMMA NodeMoves ==
    ASSUME NEW c \in Calls, graph \in [Calls -> CallType], CallOK(backend, graph[c]), Node(c)
    PROVE  LET g == graph[c]
               h == graph'[c]
           IN  \/ /\ g.node = "retrieve_guidance" /\ h.reset = g.reset
                  /\ h.node \in {"inspect_telemetry", "raised"}
               \/ /\ g.node = "inspect_telemetry" /\ h.reset = g.reset
                  /\ h.node \in {"perform_reset", "compose_response"}
               \/ g.node = "perform_reset" /\ h.reset = TRUE /\ h.node = "verify_telemetry"
               \/ g.node = "verify_telemetry" /\ h.reset = g.reset /\ h.node = "compose_response"
               \/ g.node = "compose_response" /\ h.reset = g.reset /\ h.node = "evaluate"
               \/ g.node = "evaluate" /\ h.reset = g.reset /\ h.node = "answered"
<1> DEFINE g == graph[c]
           h == graph'[c]
<1>t. g \in CallType
  OBVIOUS
<1>1. RetrieveGuidance(c) => /\ g.node = "retrieve_guidance" /\ h.reset = g.reset
                             /\ h.node = "inspect_telemetry"
  BY <1>t DEF RetrieveGuidance, At, CallType
<1>2. RetrievalRaises(c) => g.node = "retrieve_guidance" /\ h.reset = g.reset /\ h.node = "raised"
  BY <1>t DEF RetrievalRaises, At, CallType
<1>3. InspectTelemetry(c) => /\ g.node = "inspect_telemetry" /\ h.reset = g.reset
                             /\ h.node \in {"perform_reset", "compose_response"}
  <2> SUFFICES ASSUME InspectTelemetry(c)
               PROVE  /\ g.node = "inspect_telemetry" /\ h.reset = g.reset
                      /\ h.node \in {"perform_reset", "compose_response"}
    OBVIOUS
  <2> DEFINE next == Route(c, Inspect(g.symptoms, FALSE))
  <2>1. next \in {"perform_reset", "compose_response"} BY DEF Route
  <2>2. h.node = next /\ h.reset = g.reset BY <1>t DEF InspectTelemetry, CallType
  <2>3. g.node = "inspect_telemetry" BY DEF InspectTelemetry, At
  <2> HIDE DEF next
  <2> QED BY <2>1, <2>2, <2>3
<1>4. PerformReset(c) => g.node = "perform_reset" /\ h.reset = TRUE /\ h.node = "verify_telemetry"
  <2>1. PerformReset(c) => g.node = "perform_reset" /\ g.consent
    BY DEF PerformReset, At, CallOK, Resets
  <2> QED BY <1>t, <2>1 DEF PerformReset, CallType
<1>5. VerifyTelemetry(c) => /\ g.node = "verify_telemetry" /\ h.reset = g.reset
                            /\ h.node = "compose_response"
  BY <1>t DEF VerifyTelemetry, At, CallType
<1>6. ComposeResponse(c) => g.node = "compose_response" /\ h.reset = g.reset /\ h.node = "evaluate"
  BY <1>t DEF ComposeResponse, At, CallType
<1>7. Evaluate(c) => g.node = "evaluate" /\ h.reset = g.reset /\ h.node = "answered"
  <2> SUFFICES ASSUME Evaluate(c)
               PROVE  g.node = "evaluate" /\ h.reset = g.reset /\ h.node = "answered"
    OBVIOUS
  <2> DEFINE selection == Accuracy(graph[c].tools, ExpectedTools(c))
             own == IF graph[c].citations # {} THEN 1000 ELSE 0
  <2>1. g.node = "evaluate" BY DEF Evaluate, At
  <2>2. graph' = [graph EXCEPT ![c].selection = selection, ![c].groundedness = own,
                               ![c].node = "answered"]
    BY DEF Evaluate
  <2> HIDE DEF selection, own
  <2>3. h.reset = g.reset /\ h.node = "answered" BY <1>t, <2>2 DEF CallType
  <2> QED BY <2>1, <2>3
<1> HIDE DEF g, h
<1>8. \/ g.node = "retrieve_guidance" /\ h.reset = g.reset /\ h.node \in {"inspect_telemetry", "raised"}
      \/ /\ g.node = "inspect_telemetry" /\ h.reset = g.reset
         /\ h.node \in {"perform_reset", "compose_response"}
      \/ g.node = "perform_reset" /\ h.reset = TRUE /\ h.node = "verify_telemetry"
      \/ g.node = "verify_telemetry" /\ h.reset = g.reset /\ h.node = "compose_response"
      \/ g.node = "compose_response" /\ h.reset = g.reset /\ h.node = "evaluate"
      \/ g.node = "evaluate" /\ h.reset = g.reset /\ h.node = "answered"
  BY <1>1, <1>2, <1>3, <1>4, <1>5, <1>6, <1>7 DEF Node
<1> QED BY <1>8 DEF g, h

LEMMA ResetsAsAsked ==
    ASSUME NEW g PROVE D!MayReset(AskedAt(g)) <=> Resets(g.symptoms, g.consent)
BY DEF D!MayReset, AskedAt, Resets

\* A node of the agent, as Diagnosis sees it.
LEMMA NodeSimulates ==
    ASSUME NEW c \in Calls, graph \in [Calls -> CallType], CallOK(backend, graph[c]), Node(c)
    PROVE  [D!DNext]_(D!dvars)
<1> DEFINE g == graph[c]
           h == graph'[c]
<1>1. /\ h \in CallType /\ CallOK(backend, h) /\ graph' = [graph EXCEPT ![c] = h]
      /\ h.symptoms = g.symptoms /\ h.consent = g.consent
  BY NodeCall
<1>2. g \in CallType /\ CallOK(backend, g)
  OBVIOUS
<1> HIDE DEF h
<1>3. /\ AskedMap' = [AskedMap EXCEPT ![c] = AskedAt(h)]
      /\ ResetMap' = [ResetMap EXCEPT ![c] = h.reset]
      /\ AnswerMap' = [AnswerMap EXCEPT ![c] = AnswerAt(h)]
      /\ AskedMap[c] = AskedAt(g) /\ ResetMap[c] = g.reset /\ AnswerMap[c] = AnswerAt(g)
  BY <1>1, MapsMove
<1>4. AskedAt(h) = AskedAt(g)
  BY <1>1 DEF AskedAt
<1>5. AskedMap' = AskedMap
  BY <1>3, <1>4 DEF AskedMap
<1>6. h.reset = g.reset => ResetMap' = ResetMap
  BY <1>3 DEF ResetMap
<1>7. AnswerAt(h) = AnswerAt(g) => AnswerMap' = AnswerMap
  BY <1>3 DEF AnswerMap
<1>8. UNCHANGED <<AskedMap, ResetMap, AnswerMap>> => [D!DNext]_(D!dvars)
  BY DEF D!dvars, AskedMap, ResetMap, AnswerMap
<1>m. /\ D!Reset(c) <=> /\ AnswerMap[c] = "open" /\ ~ResetMap[c] /\ D!MayReset(AskedMap[c])
                        /\ ResetMap' = [ResetMap EXCEPT ![c] = TRUE]
                        /\ UNCHANGED <<AskedMap, AnswerMap>>
      /\ D!Answer(c) <=> /\ AnswerMap[c] = "open" /\ (D!MayReset(AskedMap[c]) => ResetMap[c])
                         /\ AnswerMap' = [AnswerMap EXCEPT ![c] = D!Status(AskedMap[c], ResetMap[c])]
                         /\ UNCHANGED <<AskedMap, ResetMap>>
      /\ D!Fail(c) <=> /\ AnswerMap[c] = "open" /\ ~ResetMap[c]
                       /\ AnswerMap' = [AnswerMap EXCEPT ![c] = "failed"]
                       /\ UNCHANGED <<AskedMap, ResetMap>>
  BY DEF D!Reset, D!Answer, D!Fail, AskedMap, ResetMap, AnswerMap
<1>n. D!Reset(c) \/ D!Answer(c) \/ D!Fail(c) => D!DNext
  BY DEF D!DNext
<1>a. /\ g.node \in Nodes \ {"idle", "raised", "evaluate", "answered"} => AnswerAt(g) = "open"
      /\ h.node \in Nodes \ {"idle", "raised", "evaluate", "answered"} => AnswerAt(h) = "open"
      /\ g.node = "evaluate" => AnswerAt(g) = g.status
      /\ h.node \in {"evaluate", "answered"} => AnswerAt(h) = h.status
      /\ h.node = "raised" => AnswerAt(h) = "failed"
  BY AnswerAtFacts
<1>10. CASE g.node = "retrieve_guidance" /\ h.reset = g.reset /\ h.node \in {"inspect_telemetry", "raised"}
  <2>1. ~g.reset /\ AnswerAt(g) = "open" BY <1>2, <1>10, <1>a DEF CallOK, Asking, Nodes
  <2>2. CASE h.node = "raised"
    <3>1. D!Fail(c) BY <1>3, <1>5, <1>6, <1>10, <1>a, <1>m, <2>1, <2>2
    <3> QED BY <1>n, <3>1
  <2>3. CASE h.node = "inspect_telemetry"
    <3>1. AnswerAt(h) = "open" BY <1>a, <2>3 DEF Nodes
    <3> QED BY <1>5, <1>6, <1>7, <1>8, <1>10, <2>1, <3>1
  <2> QED BY <1>10, <2>2, <2>3
<1>11. CASE /\ g.node = "inspect_telemetry" /\ h.reset = g.reset
            /\ h.node \in {"perform_reset", "compose_response"}
  <2>1. AnswerAt(g) = "open" /\ AnswerAt(h) = "open" BY <1>11, <1>a DEF Nodes
  <2> QED BY <1>5, <1>6, <1>7, <1>8, <1>11, <2>1
<1>12. CASE g.node = "perform_reset" /\ h.reset = TRUE /\ h.node = "verify_telemetry"
  <2>1. AnswerAt(g) = "open" /\ AnswerAt(h) = "open" BY <1>12, <1>a DEF Nodes
  <2>2. ~g.reset /\ Resets(g.symptoms, g.consent) BY <1>2, <1>12 DEF CallOK
  <2>3. D!MayReset(AskedAt(g)) BY <2>2, ResetsAsAsked
  <2>4. D!Reset(c) BY <1>3, <1>5, <1>7, <1>12, <1>m, <2>1, <2>2, <2>3
  <2> QED BY <1>n, <2>4
<1>13. CASE g.node = "verify_telemetry" /\ h.reset = g.reset /\ h.node = "compose_response"
  <2>1. AnswerAt(g) = "open" /\ AnswerAt(h) = "open" BY <1>13, <1>a DEF Nodes
  <2> QED BY <1>5, <1>6, <1>7, <1>8, <1>13, <2>1
<1>14. CASE g.node = "compose_response" /\ h.reset = g.reset /\ h.node = "evaluate"
  <2>1. AnswerAt(g) = "open" /\ AnswerAt(h) = h.status BY <1>14, <1>a DEF Nodes
  <2>2. g.reset <=> Resets(g.symptoms, g.consent) BY <1>2, <1>14 DEF CallOK, Told
  <2>3. h.status = Outcome(g.symptoms, g.consent) BY <1>1, <1>14 DEF CallOK
  <2>4. D!MayReset(AskedAt(g)) => g.reset BY <2>2, ResetsAsAsked
  <2>5. h.status = D!Status(AskedAt(g), g.reset)
    <3>1. AskedAt(g).condition = Inspect(g.symptoms, FALSE) BY DEF AskedAt
    <3> QED BY <2>2, <2>3, <3>1 DEF Outcome, D!Status
  <2>6. D!Answer(c) BY <1>3, <1>5, <1>6, <1>14, <1>m, <2>1, <2>4, <2>5
  <2> QED BY <1>n, <2>6
<1>15. CASE g.node = "evaluate" /\ h.reset = g.reset /\ h.node = "answered"
  <2>1. g.status = Outcome(g.symptoms, g.consent) /\ h.status = Outcome(g.symptoms, g.consent)
    BY <1>1, <1>2, <1>15 DEF CallOK
  <2>2. AnswerAt(h) = AnswerAt(g) BY <1>15, <1>a, <2>1
  <2> QED BY <1>5, <1>6, <1>7, <1>8, <1>15, <2>2
<1> QED BY <1>10, <1>11, <1>12, <1>13, <1>14, <1>15, NodeMoves DEF h

LEMMA QuestionTyped ==
    ASSUME NEW symptoms, NEW consent \in BOOLEAN
    PROVE  [condition |-> Inspect(symptoms, FALSE), consent |-> consent] \in D!Questions
<1> DEFINE status == Inspect(symptoms, FALSE)
<1>1. status \in {"online", "degraded", "offline"}
  BY InspectTyped DEF Conditions
<1> HIDE DEF status
<1>2. D!Questions = [condition : {"online", "degraded", "offline"}, consent : BOOLEAN]
  BY DEF D!Questions
<1>3. [condition |-> status, consent |-> consent] \in D!Questions
  BY <1>1, <1>2
<1> QED BY <1>3 DEF status

\* A question to the agent, as Diagnosis sees it.
LEMMA RequestSimulates ==
    ASSUME graph \in [Calls -> CallType], NEW c \in Calls, NEW h \in CallType,
           graph[c].node \in {"idle", "answered"},
           CallOK(backend, graph[c]),
           h.node = "retrieve_guidance", h.reset = FALSE,
           graph' = [graph EXCEPT ![c] = h]
    PROVE  [D!DNext]_(D!dvars)
<1> DEFINE g == graph[c]
           q == AskedAt(h)
<1>1. /\ AskedMap' = [AskedMap EXCEPT ![c] = q]
      /\ ResetMap' = [ResetMap EXCEPT ![c] = h.reset]
      /\ AnswerMap' = [AnswerMap EXCEPT ![c] = AnswerAt(h)]
      /\ AnswerMap[c] = AnswerAt(g)
  BY MapsMove
<1>2. q \in D!Questions
  <2>1. h.consent \in BOOLEAN BY DEF CallType
  <2> QED BY <2>1, QuestionTyped DEF AskedAt
<1>3. AnswerAt(h) = "open"
  BY AnswerAtFacts DEF Nodes
<1>4. AnswerAt(g) # "open"
  <2>1. CASE g.node = "idle" BY <2>1, AnswerAtFacts
  <2>2. CASE g.node = "answered"
    <3>1. g.status = Outcome(g.symptoms, g.consent) BY <2>2 DEF CallOK
    <3>2. g.status # "open" BY <3>1 DEF Outcome
    <3> QED BY <2>2, <3>2, AnswerAtFacts
  <2> QED BY <2>1, <2>2
<1>5. D!Ask(c) <=> /\ AnswerMap[c] # "open"
                  /\ \E a \in D!Questions : AskedMap' = [AskedMap EXCEPT ![c] = a]
                  /\ ResetMap' = [ResetMap EXCEPT ![c] = FALSE]
                  /\ AnswerMap' = [AnswerMap EXCEPT ![c] = "open"]
  BY DEF D!Ask, AskedMap, ResetMap, AnswerMap
<1> HIDE DEF q, g
<1>6. D!Ask(c)
  BY <1>1, <1>2, <1>3, <1>4, <1>5
<1> QED BY <1>6 DEF D!DNext

LEMMA DiagnosisInit == Init => D!DInit
<1> SUFFICES ASSUME Init PROVE D!DInit
  OBVIOUS
<1>1. \A c \in Calls : graph[c] = Idle
  BY DEF Init
<1>2. Idle \in CallType /\ Idle.node = "idle" /\ Idle.reset = FALSE
  <2>1. Idle \in CallType /\ Idle.node = "idle" /\ CallOK("local", Idle)
    BY IdleTyped
  <2>2. ~Idle.reset /\ Idle.reset \in BOOLEAN
    BY <2>1 DEF CallOK, Asking, CallType
  <2> QED BY <2>1, <2>2
<1>3. \A c \in Calls : [condition |-> Inspect(graph[c].symptoms, FALSE),
                       consent |-> graph[c].consent] \in D!Questions
  <2>1. Idle.consent \in BOOLEAN BY <1>2 DEF CallType
  <2> QED BY <1>1, <2>1, QuestionTyped
<1>4. \A c \in Calls : graph[c].reset = FALSE
  BY <1>1, <1>2
<1>5. \A c \in Calls : AnswerOf(c) = "none"
  BY <1>1, <1>2 DEF AnswerOf, At
<1> QED BY <1>3, <1>4, <1>5 DEF D!DInit

LEMMA DiagnosisStep == IInv /\ [Next]_vars => [D!DNext]_(D!dvars)
<1> SUFFICES ASSUME IInv, [Next]_vars PROVE [D!DNext]_(D!dvars)
  OBVIOUS
<1>g. /\ graph \in [Calls -> CallType] /\ \A r \in Calls : CallOK(backend, graph[r])
      /\ run \in [Calls -> RunType(backend, dataset)]
      /\ \A r \in Calls : RunOK(backend, dataset, kind[r], run[r], graph[r])
  BY DEF IInv, GraphOK, RunsOK
<1>r. ASSUME NEW r, NEW p
      PROVE  Request(r, p).node = "retrieve_guidance" /\ Request(r, p).reset = FALSE
  BY DEF Request, Asked
<1>s. ASSUME graph' = graph PROVE [D!DNext]_(D!dvars)
  <2>1. \A c : AnswerOf(c)' = AnswerOf(c)
    BY <1>s DEF AnswerOf, At
  <2> QED BY <1>s, <2>1 DEF D!dvars
<1>1. ASSUME NEW r \in Calls, StartRun(r) PROVE [D!DNext]_(D!dvars)
  <2>1. run[r].phase = "new" /\ graph' = [graph EXCEPT ![r] = Request(r, run[r])]
    BY <1>1 DEF StartRun
  <2>2. graph[r].node = "idle" /\ Len(run[r].results) < Len(dataset)
    BY <1>g, <2>1 DEF RunOK
  <2>3. Len(run[r].results) \in Nat
    BY <1>g DEF RunType
  <2>4. Request(r, run[r]) \in CallType
    BY <2>2, <2>3, RequestTyped
  <2> QED BY <1>g, <1>r, <2>1, <2>2, <2>4, RequestSimulates
<1>2. ASSUME NEW r \in Calls, AgentStep(r) PROVE [D!DNext]_(D!dvars)
  BY <1>2, <1>g, NodeSimulates DEF AgentStep
<1>3. ASSUME NEW r \in Calls, CaseEvaluated(r) PROVE [D!DNext]_(D!dvars)
  <2>1. PICK q : /\ q = After(r, Append(run[r].results, Result(r)))
                 /\ graph' = IF q.phase = "done" THEN graph
                             ELSE [graph EXCEPT ![r] = Request(r, q)]
    BY <1>3 DEF CaseEvaluated
  <2>2. run[r].phase = "running" /\ At(r, "answered") /\ graph[r].node = "answered"
    BY <1>3 DEF CaseEvaluated, At
  <2>3. /\ q.phase \in {"running", "done"}
        /\ q.phase = "running" => Request(r, q) \in CallType
    BY <2>1, <2>2, ResultAnswers, NextRun
  <2>4. CASE q.phase = "done" BY <1>s, <2>1, <2>4
  <2>5. CASE q.phase = "running"
    <3>1. graph' = [graph EXCEPT ![r] = Request(r, q)] BY <2>1, <2>5
    <3> QED BY <1>g, <1>r, <2>2, <2>3, <2>5, <3>1, RequestSimulates
  <2> QED BY <2>3, <2>4, <2>5
<1>4. ASSUME NEW r \in Calls, CaseRaises(r) PROVE [D!DNext]_(D!dvars)
  BY <1>4, <1>s DEF CaseRaises
<1>5. ASSUME UNCHANGED vars PROVE [D!DNext]_(D!dvars)
  BY <1>5, <1>s DEF vars
<1> QED BY <1>1, <1>2, <1>3, <1>4, <1>5 DEF Next, Progress, Ended

\* ImplementsDiagnosis, for any number of calls, any phrases and any
\* documents: every step of the agent is a step of Diagnosis, or none.
THEOREM DiagnosisImplemented == Spec => ImplementsDiagnosis
<1>1. IInv /\ [Next]_vars => [D!DNext]_(D!dvars)
  BY DiagnosisStep
<1> QED BY <1>1, DiagnosisInit, IInvHolds, PTL DEF ImplementsDiagnosis, D!DSpec, Spec
-----------------------------------------------------------------------------
(* The review queue *)

\* x is a result of a run that has come as far as p.
OfRun(p, x) ==
    \/ \E n \in DOMAIN p.results : x = p.results[n]
    \/ \E k \in DOMAIN p.runs : \E n \in DOMAIN p.runs[k].cases : x = p.runs[k].cases[n]

LEMMA ReportedOf == \A x : x \in Reported <=> \E r \in Calls : OfRun(run[r], x)
BY ReportedIff DEF OfRun

LEMMA ReportedNext == \A x : x \in Reported' <=> \E r \in Calls : OfRun(run'[r], x)
<1>1. (\A x : x \in Reported <=> \E r \in Calls : OfRun(run[r], x))'
  BY ReportedOf, PTL
<1> QED BY <1>1

\* What a run has reported stays reported when it goes on to the next case or
\* strategy, and the one result that comes is the one of the case.
LEMMA NextReports ==
    ASSUME IInv, NEW r \in Calls, run[r].phase = "running",
           NEW x \in AllAnswers(backend, dataset),
           NEW q, q = After(r, Append(run[r].results, x)), NEW y
    PROVE  OfRun(q, y) <=> OfRun(run[r], y) \/ y = x
<1> DEFINE p == run[r]
           A == AllAnswers(backend, dataset)
           results == Append(p.results, x)
           f == Finished(r, results)
           runs == Append(p.runs, f)
           Now(z) == \E n \in DOMAIN z : y = z[n]
           Then(z) == \E k \in DOMAIN z : Now(z[k].cases)
<1>1. p.results \in Seq(A) /\ p.runs \in Seq(FinishedType(backend, dataset)) /\ p.runs \in Seq(A \union {f} \union FinishedType(backend, dataset))
      /\ p \in RunType(backend, dataset)
  BY DEF IInv, RunsOK, RunType
<1>2. OfRun(p, y) <=> Now(p.results) \/ Then(p.runs)
  BY DEF OfRun
<1>3. OfRun(q, y) <=> Now(q.results) \/ Then(q.runs)
  BY DEF OfRun
<1>4. Now(results) <=> Now(p.results) \/ y = x
  <2>1. /\ Len(results) = Len(p.results) + 1 /\ results[Len(p.results) + 1] = x
        /\ \A n \in 1..Len(p.results) : results[n] = p.results[n]
        /\ DOMAIN results = 1..Len(p.results) + 1 /\ DOMAIN p.results = 1..Len(p.results)
        /\ Len(p.results) \in Nat
    BY <1>1
  <2> HIDE DEF results
  <2>2. \A n : n \in 1..Len(p.results) + 1 <=> n \in 1..Len(p.results) \/ n = Len(p.results) + 1
    BY <2>1
  <2> QED BY <2>1, <2>2
<1>5. f.cases = results
  BY DEF Finished
<1>6. Then(runs) <=> Then(p.runs) \/ Now(results)
  <2>1. /\ Len(runs) = Len(p.runs) + 1 /\ runs[Len(p.runs) + 1] = f
        /\ \A k \in 1..Len(p.runs) : runs[k] = p.runs[k]
        /\ DOMAIN runs = 1..Len(p.runs) + 1 /\ DOMAIN p.runs = 1..Len(p.runs)
        /\ Len(p.runs) \in Nat
    <3> HIDE DEF f
    <3> QED BY <1>1
  <2> HIDE DEF runs, results, f, Now
  <2>2. \A k : k \in 1..Len(p.runs) + 1 <=> k \in 1..Len(p.runs) \/ k = Len(p.runs) + 1
    BY <2>1
  <2> QED BY <1>5, <2>1, <2>2
<1>7. CASE Len(results) < Len(dataset)
  <2>1. q = [p EXCEPT !.results = results]
    BY <1>7 DEF After
  <2> HIDE DEF results
  <2>2. q.results = results /\ q.runs = p.runs
    BY <1>1, <2>1 DEF RunType
  <2> HIDE DEF Now, Then
  <2> QED BY <1>2, <1>3, <1>4, <2>2
<1>8. CASE ~(Len(results) < Len(dataset))
  <2>1. q.results = <<>> /\ q.runs = runs
    BY <1>8 DEF After
  <2>2. ~Now(<<>>)
    OBVIOUS
  <2> HIDE DEF Now, Then, runs, results
  <2>3. ~Now(q.results) /\ (Then(q.runs) <=> Then(runs))
    BY <2>1, <2>2
  <2> QED BY <1>2, <1>3, <1>4, <1>6, <2>3
<1> QED BY <1>7, <1>8

LEMMA ReportedGrows ==
    ASSUME IInv, [Next]_vars
    PROVE  \/ queue' = queue /\ Reported' = Reported
           \/ \E r \in Calls : queue' = Routed(Result(r)) /\ Reported' = Reported \union {Result(r)}
<1>g. run \in [Calls -> RunType(backend, dataset)]
  BY DEF IInv, RunsOK
<1>1. ASSUME NEW r \in Calls, NEW p, run' = [run EXCEPT ![r] = p],
             p.results = run[r].results, p.runs = run[r].runs
      PROVE  Reported' = Reported
  <2>1. \A z : OfRun(p, z) <=> OfRun(run[r], z)
    BY <1>1 DEF OfRun
  <2>2. \A c \in Calls : run'[c] = IF c = r THEN p ELSE run[c]
    BY <1>g, <1>1
  <2>3. \A z : z \in Reported' <=> z \in Reported
    BY <2>1, <2>2, ReportedOf, ReportedNext
  <2> QED BY <2>3
<1>2. ASSUME run' = run PROVE Reported' = Reported
  <2>1. \A z : z \in Reported' <=> z \in Reported
    BY <1>2, ReportedOf, ReportedNext
  <2> QED BY <2>1
<1>3. ASSUME NEW r \in Calls, StartRun(r) PROVE queue' = queue /\ Reported' = Reported
  <2> DEFINE p == [run[r] EXCEPT !.phase = "running"]
  <2>1. run' = [run EXCEPT ![r] = p] /\ queue' = queue BY <1>3 DEF StartRun
  <2>2. p.results = run[r].results /\ p.runs = run[r].runs BY <1>g DEF RunType
  <2> HIDE DEF p
  <2> QED BY <1>1, <2>1, <2>2
<1>4. ASSUME NEW r \in Calls, AgentStep(r) PROVE queue' = queue /\ Reported' = Reported
  BY <1>2, <1>4 DEF AgentStep
<1>5. ASSUME NEW r \in Calls, CaseRaises(r) PROVE queue' = queue /\ Reported' = Reported
  <2> DEFINE p == [run[r] EXCEPT !.phase = "failed"]
  <2>1. run' = [run EXCEPT ![r] = p] /\ queue' = queue BY <1>5 DEF CaseRaises
  <2>2. p.results = run[r].results /\ p.runs = run[r].runs BY <1>g DEF RunType
  <2> HIDE DEF p
  <2> QED BY <1>1, <2>1, <2>2
<1>6. ASSUME NEW r \in Calls, CaseEvaluated(r)
      PROVE  queue' = Routed(Result(r)) /\ Reported' = Reported \union {Result(r)}
  <2>1. PICK q : /\ q = After(r, Append(run[r].results, Result(r)))
                 /\ run' = [run EXCEPT ![r] = q] /\ queue' = Routed(Result(r))
    BY <1>6 DEF CaseEvaluated
  <2>2. run[r].phase = "running" /\ At(r, "answered")
    BY <1>6 DEF CaseEvaluated
  <2>3. Result(r) \in AllAnswers(backend, dataset)
    <3>1. Result(r) \in Answers(backend, dataset, StrategyAt(kind[r], run[r]),
                                 Len(run[r].results) + 1)
      BY <2>2, ResultAnswers
    <3>2. Len(run[r].results) + 1 \in 1..Len(dataset)
      BY <1>g DEF IInv, RunsOK, RunOK, RunType, GivenOK
    <3>3. StrategyAt(kind[r], run[r]) \in StrategyNames
      <4> DEFINE n == Len(run[r].runs)
                 l == Len(Strategies(kind[r]))
      <4>1. n \in Nat /\ l \in Nat /\ n <= l
        BY <1>g, StrategiesFacts DEF IInv, RunsOK, RunOK, RunType, GivenOK
      <4>2. n # l
        BY <2>2 DEF IInv, RunsOK, RunOK
      <4>3. n + 1 \in 1..l
        <5> HIDE DEF n, l
        <5> QED BY <4>1, <4>2
      <4> QED BY <4>3, StrategiesFacts DEF StrategyAt, IInv, GivenOK
    <3> QED BY <3>1, <3>2, <3>3, AllAnswersOf
  <2>4. \A z : OfRun(q, z) <=> OfRun(run[r], z) \/ z = Result(r)
    BY <2>1, <2>2, <2>3, NextReports
  <2>5. \A c \in Calls : run'[c] = IF c = r THEN q ELSE run[c]
    BY <1>g, <2>1
  <2>6. \A z : z \in Reported' <=> z \in Reported \/ z = Result(r)
    BY <2>4, <2>5, ReportedOf, ReportedNext
  <2> QED BY <2>1, <2>6
<1>7. ASSUME UNCHANGED vars PROVE queue' = queue /\ Reported' = Reported
  BY <1>2, <1>7 DEF vars
<1> QED BY <1>3, <1>4, <1>5, <1>6, <1>7 DEF Next, Progress, Ended

LEMMA ReviewStep == IInv /\ ReviewAccounting /\ [Next]_vars => ReviewAccounting'
<1> SUFFICES ASSUME IInv, ReviewAccounting, [Next]_vars PROVE ReviewAccounting'
  OBVIOUS
<1>0. /\ \A i, j \in queue : SameKey(i, j) => i = j
      /\ \A x \in Reported : x.routed => \E i \in queue : SameKey(i, x)
      /\ \A i \in queue : \E x \in Reported : x.routed /\ i = Item(x)
  BY DEF ReviewAccounting
<1>1. CASE queue' = queue /\ Reported' = Reported
  BY <1>0, <1>1 DEF ReviewAccounting
<1>2. ASSUME NEW r \in Calls, queue' = Routed(Result(r)), Reported' = Reported \union {Result(r)}
      PROVE  ReviewAccounting'
  <2> DEFINE y == Result(r)
  <2>1. CASE y.routed
    <3> HIDE DEF y
    <3>1. queue' = {i \in queue : ~SameKey(i, y)} \union {Item(y)}
      BY <1>2, <2>1 DEF Routed, y
    <3>2. Item(y).strategy = y.strategy /\ Item(y).case = y.case
      BY DEF Item
    <3>3. \A i, j \in queue' : SameKey(i, j) => i = j
      BY <1>0, <3>1, <3>2 DEF SameKey
    <3>4. ASSUME NEW x \in Reported', x.routed PROVE \E i \in queue' : SameKey(i, x)
      <4>1. CASE SameKey(x, y)
        BY <3>1, <3>2, <4>1 DEF SameKey
      <4>2. CASE ~SameKey(x, y)
        <5>1. x \in Reported BY <1>2, <4>2 DEF SameKey, y
        <5>2. PICK i \in queue : SameKey(i, x) BY <1>0, <3>4, <5>1
        <5>3. ~SameKey(i, y) BY <4>2, <5>2 DEF SameKey
        <5> QED BY <3>1, <5>2, <5>3
      <4> QED BY <4>1, <4>2
    <3>5. ASSUME NEW i \in queue' PROVE \E x \in Reported' : x.routed /\ i = Item(x)
      <4>1. y \in Reported' BY <1>2 DEF y
      <4>2. \A x \in Reported : x \in Reported' BY <1>2
      <4> QED BY <1>0, <2>1, <3>1, <4>1, <4>2 DEF y
    <3> QED BY <3>3, <3>4, <3>5 DEF ReviewAccounting
  <2>2. CASE ~y.routed
    <3>1. queue' = queue BY <1>2, <2>2 DEF Routed
    <3>2. \A x \in Reported' : x.routed => x \in Reported BY <1>2, <2>2
    <3>3. \A x \in Reported : x \in Reported' BY <1>2
    <3> QED BY <1>0, <3>1, <3>2, <3>3 DEF ReviewAccounting
  <2> QED BY <2>1, <2>2
<1> QED BY <1>1, <1>2, ReportedGrows

LEMMA ReviewInit == Init => ReviewAccounting
<1> SUFFICES ASSUME Init PROVE ReviewAccounting
  OBVIOUS
<1>1. queue = {}
  BY DEF Init
<1>2. \A n : n \notin DOMAIN <<>>
  OBVIOUS
<1>3. ASSUME NEW r \in Calls, NEW x PROVE ~OfRun(run[r], x)
  <2>1. run[r].results = <<>> /\ run[r].runs = <<>> BY DEF Init
  <2> QED BY <1>2, <2>1 DEF OfRun
<1>4. \A x : x \notin Reported
  BY <1>3, ReportedOf
<1> QED BY <1>1, <1>4 DEF ReviewAccounting

\* ReviewAccounting, for any number of runs, however they overlap or fail.
THEOREM ReviewAccountingHolds == Spec => []ReviewAccounting
<1> QED BY IInvHolds, ReviewInit, ReviewStep, PTL DEF Spec
-----------------------------------------------------------------------------
(* Sums over finite sets *)

\* A non-empty family of subsets of a finite set has a minimal member: what
\* holds of a set whenever it holds of its strict subsets holds of all.
LEMMA MinimalSet ==
    ASSUME NEW S, IsFiniteSet(S), NEW F, F \subseteq SUBSET S, F # {}
    PROVE  \E A \in F : \A B \in F : B \subseteq A => B = A
<1>1. FiniteSubsetsOf(S) = SUBSET S
  BY FS_FiniteSubsetsOfFinite
<1>2. IsWellFoundedOn(StrictSubsetOrdering(S), SUBSET S)
  BY <1>1, FS_StrictSubsetOrderingWellFounded
<1>3. PICK A \in F : \A B \in F : <<B, A>> \notin StrictSubsetOrdering(S)
  BY <1>2, WFMin
<1>4. ASSUME NEW B \in F, B \subseteq A PROVE B = A
  <2>1. <<B, A>> \in (SUBSET S) \X (SUBSET S) /\ <<B, A>> \notin StrictSubsetOrdering(S)
    BY <1>3
  <2> QED BY <1>4, <2>1 DEF StrictSubsetOrdering
<1> QED BY <1>4

\* MapThenSumSet takes an element at a time: f sums g over every subset of T.
Pick(s) == CHOOSE x \in s : TRUE
Summand(g, f, s) == IF s = {} THEN 0 ELSE g[Pick(s)] + f[s \ {Pick(s)}]
Sums(g, T, f) == f = [s \in SUBSET T |-> Summand(g, f, s)]

LEMMA PickIn == \A s : s # {} => Pick(s) \in s
BY DEF Pick

LEMMA SumsAt ==
    ASSUME NEW g, NEW T, NEW f, Sums(g, T, f), NEW s \in SUBSET T
    PROVE  f[s] = Summand(g, f, s)
BY DEF Sums

LEMMA SumsUnique ==
    ASSUME NEW g, NEW T, IsFiniteSet(T), NEW f, NEW h, Sums(g, T, f), Sums(g, T, h)
    PROVE  f = h
<1> DEFINE bad == {s \in SUBSET T : f[s] # h[s]}
<1>1. \A s \in SUBSET T : f[s] = Summand(g, f, s) /\ h[s] = Summand(g, h, s)
  BY SumsAt
<1>2. SUFFICES ASSUME bad # {} PROVE FALSE
  <2>1. \A s \in SUBSET T : Summand(g, f, s) = Summand(g, h, s)
    BY <1>1, <1>2
  <2> QED BY <2>1 DEF Sums
<1>3. PICK s \in bad : \A t \in bad : t \subseteq s => t = s
  <2>1. bad \subseteq SUBSET T
    OBVIOUS
  <2> HIDE DEF bad
  <2> QED BY <1>2, <2>1, MinimalSet
<1> DEFINE t == s \ {Pick(s)}
<1>4. CASE s = {}
  BY <1>1, <1>4 DEF Summand
<1>5. CASE s # {}
  <2>1. Pick(s) \in s
    BY <1>5, PickIn
  <2>2. t \in SUBSET T /\ t \subseteq s /\ t # s
    BY <2>1
  <2>3. f[t] = h[t]
    BY <1>3, <2>2
  <2> QED BY <1>1, <1>5, <2>3 DEF Summand
<1> QED BY <1>4, <1>5

LEMMA SumsRestrict ==
    ASSUME NEW g, NEW T, NEW U \in SUBSET T, NEW f, Sums(g, T, f)
    PROVE  Sums(g, U, [s \in SUBSET U |-> f[s]])
<1> DEFINE h == [s \in SUBSET U |-> f[s]]
<1>1. ASSUME NEW s \in SUBSET U PROVE h[s] = Summand(g, h, s)
  <2>1. f[s] = Summand(g, f, s)
    BY SumsAt
  <2>2. s \ {Pick(s)} \in SUBSET U
    OBVIOUS
  <2>3. h[s \ {Pick(s)}] = f[s \ {Pick(s)}]
    BY <2>2
  <2>4. h[s] = f[s]
    OBVIOUS
  <2> HIDE DEF h
  <2> QED BY <2>1, <2>3, <2>4 DEF Summand
<1>2. h = [s \in SUBSET U |-> h[s]]
  OBVIOUS
<1> HIDE DEF h
<1>3. h = [s \in SUBSET U |-> Summand(g, h, s)]
  BY <1>1, <1>2
<1>4. Sums(g, U, h)
  BY <1>3 DEF Sums
<1> QED BY <1>4 DEF h

LEMMA SumsExist ==
    ASSUME NEW g, NEW S, IsFiniteSet(S)
    PROVE  \E f : Sums(g, S, f)
<1> DEFINE F == {T \in SUBSET S : ~\E f : Sums(g, T, f)}
<1>1. SUFFICES ASSUME F # {} PROVE FALSE
  OBVIOUS
<1>2. PICK T \in F : \A U \in F : U \subseteq T => U = T
  <2>1. F \subseteq SUBSET S
    OBVIOUS
  <2> HIDE DEF F
  <2> QED BY <1>1, <2>1, MinimalSet
<1> DEFINE By(U) == CHOOSE f : Sums(g, U, f)
           Less(s) == s \ {Pick(s)}
           h == [s \in SUBSET T |-> IF s = {} THEN 0 ELSE g[Pick(s)] + By(Less(s))[Less(s)]]
<1>3. ASSUME NEW U \in SUBSET T, U # T PROVE Sums(g, U, By(U))
  <2>1. \E f : Sums(g, U, f)
    BY <1>2, <1>3
  <2> QED BY <2>1
<1>4. ASSUME NEW s \in SUBSET T, s # {}
      PROVE  Less(s) \in SUBSET T /\ Less(s) # T
  BY <1>4, PickIn
<1>5. ASSUME NEW U \in SUBSET T, U # T PROVE h[U] = By(U)[U]
  <2>1. Sums(g, U, By(U)) /\ IsFiniteSet(U)
    <3>1. IsFiniteSet(U)
      BY FS_Subset
    <3> QED BY <1>3, <1>5, <3>1
  <2>2. By(U)[U] = Summand(g, By(U), U)
    <3> HIDE DEF By
    <3> QED BY <2>1, SumsAt
  <2>3. CASE U = {}
    BY <2>2, <2>3 DEF Summand
  <2>4. CASE U # {}
    <3> DEFINE V == Less(U)
    <3>1. V \in SUBSET U /\ V \in SUBSET T /\ V # T /\ IsFiniteSet(V)
      <4>1. V \in SUBSET U /\ V \in SUBSET T /\ V # T
        BY <1>4, <2>4
      <4> QED BY <2>1, <4>1, FS_Subset
    <3>2. Sums(g, V, By(V))
      BY <1>3, <3>1
    <3>3. Sums(g, V, [s \in SUBSET V |-> By(U)[s]])
      <4> HIDE DEF V, By
      <4> QED BY <2>1, <3>1, SumsRestrict
    <3>4. By(V) = [s \in SUBSET V |-> By(U)[s]]
      <4> HIDE DEF V, By
      <4> QED BY <3>1, <3>2, <3>3, SumsUnique
    <3>5. By(V)[V] = By(U)[V]
      <4>1. [s \in SUBSET V |-> By(U)[s]][V] = By(U)[V]
        OBVIOUS
      <4> HIDE DEF V, By
      <4> QED BY <3>4, <4>1
    <3>6. h[U] = g[Pick(U)] + By(V)[V]
      BY <2>4
    <3> HIDE DEF By, h
    <3> QED BY <2>2, <2>4, <3>5, <3>6 DEF Summand
  <2> QED BY <2>3, <2>4
<1>6. ASSUME NEW s \in SUBSET T PROVE h[s] = Summand(g, h, s)
  <2>1. CASE s = {}
    BY <2>1 DEF Summand
  <2>2. CASE s # {}
    <3>1. h[s] = g[Pick(s)] + By(Less(s))[Less(s)]
      BY <2>2
    <3>2. h[Less(s)] = By(Less(s))[Less(s)]
      <4>1. Less(s) \in SUBSET T /\ Less(s) # T
        BY <1>4, <2>2
      <4> HIDE DEF Less, By, h
      <4> QED BY <1>5, <4>1
    <3> HIDE DEF By, h
    <3> QED BY <2>2, <3>1, <3>2 DEF Summand
  <2> QED BY <2>1, <2>2
<1>7. h = [s \in SUBSET T |-> h[s]]
  OBVIOUS
<1>8. Sums(g, T, h)
  <2> HIDE DEF h
  <2> QED BY <1>6, <1>7 DEF Sums
<1> QED BY <1>2, <1>8

LEMMA SumsNat ==
    ASSUME NEW S, IsFiniteSet(S), NEW g \in [S -> Nat], NEW f, Sums(g, S, f)
    PROVE  f[S] \in Nat
<1> DEFINE bad == {s \in SUBSET S : f[s] \notin Nat}
<1>1. SUFFICES ASSUME bad # {} PROVE FALSE
  OBVIOUS
<1>2. PICK s \in bad : \A t \in bad : t \subseteq s => t = s
  <2>1. bad \subseteq SUBSET S
    OBVIOUS
  <2> HIDE DEF bad
  <2> QED BY <1>1, <2>1, MinimalSet
<1>3. f[s] = Summand(g, f, s)
  BY SumsAt
<1>4. CASE s = {}
  BY <1>3, <1>4 DEF Summand
<1>5. CASE s # {}
  <2>1. Pick(s) \in s /\ g[Pick(s)] \in Nat
    BY <1>5, PickIn
  <2>2. s \ {Pick(s)} \in SUBSET S /\ s \ {Pick(s)} # s
    BY <2>1
  <2>3. f[s \ {Pick(s)}] \in Nat
    BY <1>2, <2>2
  <2> QED BY <1>3, <1>5, <2>1, <2>3 DEF Summand
<1> QED BY <1>4, <1>5
-----------------------------------------------------------------------------
(* Places in an order: P[d] is what comes before d *)

Ordered(S, P) ==
    /\ \A d \in S : P[d] \subseteq S /\ d \notin P[d]
    /\ \A d, e \in S : e \in P[d] => P[e] \subseteq P[d]
    /\ \A d, e \in S : d = e \/ d \in P[e] \/ e \in P[d]

\* Fewer come before what comes first.
LEMMA Places ==
    ASSUME NEW S, IsFiniteSet(S), NEW P, Ordered(S, P), NEW d \in S
    PROVE  /\ Cardinality(P[d]) \in Nat /\ Cardinality(P[d]) < Cardinality(S)
           /\ \A e \in P[d] : Cardinality(P[e]) < Cardinality(P[d])
<1>1. \A T \in SUBSET S : IsFiniteSet(T) /\ Cardinality(T) \in Nat
  BY FS_Subset, FS_CardinalityType
<1>2. ASSUME NEW T \in SUBSET S, NEW U \in SUBSET T, NEW x \in T, x \notin U
      PROVE  Cardinality(U) < Cardinality(T)
  <2>1. Cardinality(U) <= Cardinality(T) /\ (Cardinality(T) = Cardinality(U) => T = U)
    BY <1>1, FS_Subset
  <2>2. U \in SUBSET S
    OBVIOUS
  <2>3. Cardinality(T) \in Nat /\ Cardinality(U) \in Nat
    BY <1>1, <2>2
  <2> QED BY <1>2, <2>1, <2>3
<1>3. P[d] \in SUBSET S /\ d \notin P[d]
  BY DEF Ordered
<1>4. ASSUME NEW e \in P[d] PROVE Cardinality(P[e]) < Cardinality(P[d])
  <2>1. P[e] \in SUBSET P[d] /\ e \notin P[e]
    BY <1>3 DEF Ordered
  <2> QED BY <1>2, <1>3, <2>1
<1>5. Cardinality(P[d]) < Cardinality(S)
  BY <1>2, <1>3
<1> QED BY <1>1, <1>3, <1>4, <1>5

LEMMA PlacesDiffer ==
    ASSUME NEW S, IsFiniteSet(S), NEW P, Ordered(S, P), NEW d \in S, NEW e \in S, d # e
    PROVE  Cardinality(P[d]) # Cardinality(P[e])
<1>1. \A x \in S : Cardinality(P[x]) \in Nat
  BY Places
<1>2. \A x, y \in S : x \in P[y] => Cardinality(P[x]) < Cardinality(P[y])
  BY Places
<1>3. d \in P[e] \/ e \in P[d]
  BY DEF Ordered
<1> QED BY <1>1, <1>2, <1>3

\* The first k: k of them or all, and with each what comes before it.
First(S, P, k) == {d \in S : Cardinality(P[d]) < k}

LEMMA FirstClosed ==
    ASSUME NEW S, IsFiniteSet(S), NEW P, Ordered(S, P), NEW k \in Nat,
           NEW e \in First(S, P, k), NEW d \in P[e]
    PROVE  d \in First(S, P, k)
<1>1. e \in S /\ d \in S
  BY DEF First, Ordered
<1>2. Cardinality(P[d]) < Cardinality(P[e]) /\ Cardinality(P[e]) \in Nat /\ Cardinality(P[d]) \in Nat
  BY <1>1, Places
<1> QED BY <1>1, <1>2 DEF First

LEMMA FirstCounted ==
    ASSUME NEW S, IsFiniteSet(S), NEW P, Ordered(S, P), NEW k \in Nat
    PROVE  Cardinality(First(S, P, k)) = IF k < Cardinality(S) THEN k ELSE Cardinality(S)
<1> DEFINE n == Cardinality(S)
           m == IF k < n THEN k ELSE n
           place == [d \in S |-> Cardinality(P[d])]
           B == First(S, P, k)
           among == [d \in B |-> Cardinality(P[d])]
<1>1. n \in Nat /\ m \in Nat /\ m <= n /\ m <= k
  <2>1. n \in Nat
    BY FS_CardinalityType
  <2> HIDE DEF n
  <2> QED BY <2>1
<1>2. B \subseteq S
  BY DEF First
<1>3. \A d \in S : Cardinality(P[d]) \in Nat /\ Cardinality(P[d]) < n
  BY Places
<1>4. \A d, e \in S : Cardinality(P[d]) = Cardinality(P[e]) => d = e
  BY PlacesDiffer
<1>5. place \in Injection(S, 0..(n - 1))
  <2>1. \A d \in S : Cardinality(P[d]) \in 0..(n - 1)
    <3> HIDE DEF n
    <3> QED BY <1>1, <1>3
  <2>2. place \in [S -> 0..(n - 1)]
    <3> HIDE DEF n
    <3> QED BY <2>1
  <2> QED BY <1>4, <2>2 DEF Injection, IsInjective
<1>6. IsFiniteSet(0..(n - 1)) /\ Cardinality(0..(n - 1)) = n
  <2> HIDE DEF n
  <2>1. 0 \in Int /\ n - 1 \in Int
    BY <1>1
  <2>2. IsFiniteSet(0..(n - 1)) /\ Cardinality(0..(n - 1)) = IF 0 > n - 1 THEN 0 ELSE n - 1 - 0 + 1
    BY <2>1, FS_Interval
  <2> QED BY <1>1, <2>2
<1>7. \A i \in 0..(n - 1) : \E d \in S : Cardinality(P[d]) = i
  <2>1. place \in Surjection(S, 0..(n - 1))
    <3> HIDE DEF place
    <3> QED BY <1>5, <1>6, FS_Injection
  <2> QED BY <2>1 DEF Surjection
<1>8. IsFiniteSet(0..(m - 1)) /\ Cardinality(0..(m - 1)) = m
  <2> HIDE DEF m
  <2>1. 0 \in Int /\ m - 1 \in Int
    BY <1>1
  <2>2. IsFiniteSet(0..(m - 1)) /\ Cardinality(0..(m - 1)) = IF 0 > m - 1 THEN 0 ELSE m - 1 - 0 + 1
    BY <2>1, FS_Interval
  <2> QED BY <1>1, <2>2
<1>9. \A d \in S : d \in B <=> Cardinality(P[d]) \in 0..(m - 1)
  <2>1. \A x \in Nat : x < n => (x < k <=> x \in 0..(m - 1))
    <3> HIDE DEF n
    <3> QED BY <1>1
  <2>2. \A d \in S : d \in B <=> Cardinality(P[d]) < k
    BY DEF First
  <2> HIDE DEF n, m, B
  <2> QED BY <1>3, <2>1, <2>2
<1>10. among \in [B -> 0..(m - 1)]
  <2> HIDE DEF m, B
  <2> QED BY <1>2, <1>9
<1>11. among \in Injection(B, 0..(m - 1))
  <2>1. \A d, e \in B : among[d] = among[e] => d = e
    <3> HIDE DEF B
    <3> QED BY <1>2, <1>4
  <2> HIDE DEF B, m, among
  <2> QED BY <1>10, <2>1 DEF Injection, IsInjective
<1>12. among \in Surjection(B, 0..(m - 1))
  <2>1. ASSUME NEW i \in 0..(m - 1) PROVE \E d \in B : among[d] = i
    <3>1. i \in 0..(n - 1)
      <4> HIDE DEF n, m
      <4> QED BY <1>1
    <3>2. PICK d \in S : Cardinality(P[d]) = i
      BY <1>7, <3>1
    <3>3. d \in B
      <4> HIDE DEF B, m
      <4> QED BY <1>9, <3>2
    <3> HIDE DEF B, m
    <3> QED BY <3>2, <3>3
  <2> HIDE DEF B, m, among
  <2> QED BY <1>10, <2>1 DEF Surjection
<1>13. Cardinality(B) = Cardinality(0..(m - 1))
  <2> HIDE DEF B, m, among
  <2> QED BY <1>8, <1>11, <1>12, FS_Injection
<1> QED BY <1>8, <1>13
-----------------------------------------------------------------------------
(* Scores, ranks and the documents retrieved *)

LEMMA TokensFinite ==
    ASSUME NEW d \in Documents
    PROVE  IsFiniteSet(Tokens(d)) /\ Cardinality(Tokens(d)) \in Nat
BY RetrievalAssumption, FS_Union, FS_CardinalityType DEF Tokens

LEMMA TotalLengthNat == TotalLength \in Nat
<1> DEFINE g == [d \in Documents |-> Cardinality(Tokens(d))]
           Body(f) == [s \in SUBSET Documents |->
                         IF s = {} THEN 0 ELSE Cardinality(Tokens(Pick(s))) + f[s \ {Pick(s)}]]
<1>1. g \in [Documents -> Nat] /\ IsFiniteSet(Documents)
  BY TokensFinite, RetrievalAssumption
<1>2. ASSUME NEW f PROVE f = Body(f) <=> Sums(g, Documents, f)
  <2>1. ASSUME NEW s \in SUBSET Documents
        PROVE  (IF s = {} THEN 0 ELSE Cardinality(Tokens(Pick(s))) + f[s \ {Pick(s)}])
                   = Summand(g, f, s)
    <3>1. CASE s = {}
      BY <3>1 DEF Summand
    <3>2. CASE s # {}
      <4>1. Pick(s) \in Documents
        BY <3>2, PickIn
      <4>2. g[Pick(s)] = Cardinality(Tokens(Pick(s)))
        BY <4>1
      <4> HIDE DEF g
      <4> QED BY <3>2, <4>2 DEF Summand
    <3> QED BY <3>1, <3>2
  <2> HIDE DEF g
  <2>2. Body(f) = [s \in SUBSET Documents |-> Summand(g, f, s)]
    BY <2>1
  <2> QED BY <2>2 DEF Sums
<1> HIDE DEF g
<1>3. PICK h : Sums(g, Documents, h)
  BY <1>1, SumsExist
<1>4. ASSUME NEW f PROVE f = Body(f) <=> f = h
  <2>1. Sums(g, Documents, f) => f = h
    BY <1>1, <1>3, SumsUnique
  <2> HIDE DEF Body
  <2> QED BY <1>2, <1>3, <2>1
<1>5. TotalLength = h[Documents]
  BY <1>4 DEF TotalLength, MapThenSumSet, MapThenFoldSet, Pick
<1> QED BY <1>1, <1>3, <1>5, SumsNat

LEMMA FrequencyBounds ==
    ASSUME NEW d \in Documents, NEW term \in Tokens(d)
    PROVE  Frequency(term) \in 1..Cardinality(Documents)
<1> DEFINE holders == {e \in Documents : term \in Tokens(e)}
<1>1. IsFiniteSet(Documents) /\ Cardinality(Documents) \in Nat
  BY RetrievalAssumption, FS_CardinalityType
<1>2. holders \subseteq Documents /\ holders # {}
  OBVIOUS
<1> HIDE DEF holders
<1>3. IsFiniteSet(holders) /\ Cardinality(holders) <= Cardinality(Documents)
  BY <1>1, <1>2, FS_Subset
<1>4. Cardinality(holders) \in Nat /\ Cardinality(holders) # 0
  BY <1>2, <1>3, FS_CardinalityType, FS_EmptySet
<1> QED BY <1>1, <1>3, <1>4 DEF Frequency, holders

LEMMA LexicalScoreNat ==
    ASSUME NEW query, NEW d \in Documents
    PROVE  LexicalScore(query, d) \in Nat
<1> DEFINE S == query \intersect Tokens(d)
           length == 1375 * TotalLength + 1125 * Cardinality(Tokens(d)) * Cardinality(Documents)
           W(term) == (2500 * InverseFrequency[Frequency(term)] * TotalLength) \div length
           g == [term \in S |-> W(term)]
           Body(f) == [s \in SUBSET S |->
                         IF s = {} THEN 0 ELSE W(Pick(s)) + f[s \ {Pick(s)}]]
<1>1. IsFiniteSet(S)
  BY TokensFinite, FS_Subset
<1>2. ASSUME NEW term \in S PROVE W(term) \in Nat
  <2>1. Cardinality(Tokens(d)) \in Nat /\ Cardinality(Tokens(d)) # 0
    BY TokensFinite, FS_EmptySet
  <2>2. Cardinality(Documents) \in Nat /\ Cardinality(Documents) >= 1
    <3>1. Cardinality(Documents) \in 1..1000
      BY RetrievalAssumption
    <3> QED BY <3>1
  <2>3. InverseFrequency[Frequency(term)] \in Nat
    <3>1. Frequency(term) \in 1..Cardinality(Documents)
      BY FrequencyBounds
    <3> QED BY <3>1, RetrievalAssumption
  <2>4. \A a, b, t, i \in Nat : a # 0 /\ b >= 1 =>
            (2500 * i * t) \div (1375 * t + 1125 * a * b) \in Nat
    <3> TAKE a, b, t, i \in Nat
    <3> HAVE a # 0 /\ b >= 1
    <3>1. a * b \in Nat /\ a * b >= 1
      BY SMT
    <3>2. PICK p \in Nat : p = a * b /\ p >= 1
      BY <3>1
    <3>3. PICK q \in Nat : q = i * t
      OBVIOUS
    <3>4. (2500 * q) \div (1375 * t + 1125 * p) \in Nat
      BY <3>2, <3>3
    <3>5. 2500 * i * t = 2500 * q /\ 1125 * a * b = 1125 * p
      BY <3>2, <3>3
    <3> QED BY <3>4, <3>5
  <2>5. PICK a \in Nat : a = Cardinality(Tokens(d)) /\ a # 0
    BY <2>1
  <2>6. PICK b \in Nat : b = Cardinality(Documents) /\ b >= 1
    BY <2>2
  <2>7. PICK t \in Nat : t = TotalLength
    BY TotalLengthNat
  <2>8. PICK i \in Nat : i = InverseFrequency[Frequency(term)]
    BY <2>3
  <2>9. W(term) = (2500 * i * t) \div (1375 * t + 1125 * a * b)
    BY <2>5, <2>6, <2>7, <2>8
  <2>10. (2500 * i * t) \div (1375 * t + 1125 * a * b) \in Nat
    BY <2>4, <2>5, <2>6
  <2> QED BY <2>9, <2>10
<1> HIDE DEF W
<1>3. g \in [S -> Nat]
  BY <1>2
<1>4. ASSUME NEW f PROVE f = Body(f) <=> Sums(g, S, f)
  <2>1. ASSUME NEW s \in SUBSET S
        PROVE  (IF s = {} THEN 0 ELSE W(Pick(s)) + f[s \ {Pick(s)}]) = Summand(g, f, s)
    <3>1. CASE s = {}
      BY <3>1 DEF Summand
    <3>2. CASE s # {}
      <4>1. Pick(s) \in S
        BY <3>2, PickIn
      <4>2. g[Pick(s)] = W(Pick(s))
        BY <4>1
      <4> HIDE DEF g
      <4> QED BY <3>2, <4>2 DEF Summand
    <3> QED BY <3>1, <3>2
  <2> HIDE DEF g
  <2>2. Body(f) = [s \in SUBSET S |-> Summand(g, f, s)]
    BY <2>1
  <2> QED BY <2>2 DEF Sums
<1> HIDE DEF g
<1>5. PICK h : Sums(g, S, h)
  BY <1>1, SumsExist
<1>6. \A f : f = Body(f) <=> f = h
  BY <1>1, <1>4, <1>5, SumsUnique
<1>7. LexicalScore(query, d) = MapThenSumSet(W, S)
  BY Zenon DEF LexicalScore, W
<1>8. MapThenSumSet(W, S) = h[S]
  <2> HIDE DEF S
  <2> QED BY <1>6 DEF MapThenSumSet, MapThenFoldSet, Pick
<1> QED BY <1>1, <1>3, <1>5, <1>7, <1>8, SumsNat

LEMMA SemanticHitsNat ==
    ASSUME NEW query, NEW d \in Documents
    PROVE  Common(query, d) \in Nat /\ SemanticHits(query, d) \in Nat
<1> DEFINE met == {c \in Concepts : query \intersect c # {} /\ Tokens(d) \intersect c # {}}
<1>1. Common(query, d) \in Nat
  BY TokensFinite, FS_Intersection, FS_CardinalityType DEF Common
<1>2. Cardinality(met) \in Nat
  <2>1. met \in SUBSET Concepts
    OBVIOUS
  <2> HIDE DEF met
  <2> QED BY <2>1, RetrievalAssumption, FS_Subset, FS_CardinalityType
<1>3. SemanticHits(query, d) = Common(query, d) + Cardinality(met)
  BY DEF SemanticHits
<1> HIDE DEF met
<1> QED BY <1>1, <1>2, <1>3

LEMMA ScoresTyped ==
    ASSUME NEW query
    PROVE  Lexical(query) \in [Documents -> Nat] /\ Semantic(query) \in [Documents -> Nat]
BY LexicalScoreNat, SemanticHitsNat DEF Lexical, Semantic

\* What is ahead of each document.
Leaders(score) == [d \in Documents |-> {e \in Documents : Ahead(score, e, d)}]

LEMMA LeadersOrdered ==
    ASSUME NEW score \in [Documents -> Nat]
    PROVE  Ordered(Documents, Leaders(score))
<1>1. Documents \subseteq Int
  BY RetrievalAssumption
<1>2. \A d \in Documents : score[d] \in Nat /\ d \in Int
  BY <1>1
<1>3. \A d, e \in Documents : e \in Leaders(score)[d] <=> Ahead(score, e, d)
  BY DEF Leaders
<1>4. \A d \in Documents : ~Ahead(score, d, d)
  BY <1>2 DEF Ahead
<1>5. \A d, e, f \in Documents : Ahead(score, f, e) /\ Ahead(score, e, d) => Ahead(score, f, d)
  BY <1>2 DEF Ahead
<1>6. \A d, e \in Documents : d = e \/ Ahead(score, d, e) \/ Ahead(score, e, d)
  BY <1>2 DEF Ahead
<1>7. \A d \in Documents : Leaders(score)[d] \subseteq Documents
  BY DEF Leaders
<1> QED BY <1>3, <1>4, <1>5, <1>6, <1>7 DEF Ordered

LEMMA RankTyped ==
    ASSUME NEW score \in [Documents -> Nat], NEW d \in Documents
    PROVE  Rank(score, d) \in 1..1000
<1>1. IsFiniteSet(Documents) /\ Cardinality(Documents) \in 1..1000
  BY RetrievalAssumption
<1>2. Rank(score, d) = 1 + Cardinality(Leaders(score)[d])
  BY DEF Rank, Leaders
<1>3. Cardinality(Leaders(score)[d]) \in Nat /\ Cardinality(Leaders(score)[d]) < Cardinality(Documents)
  BY <1>1, LeadersOrdered, Places
<1> QED BY <1>1, <1>2, <1>3

LEMMA RankRises ==
    ASSUME NEW score \in [Documents -> Nat], NEW d \in Documents, NEW e \in Documents,
           Ahead(score, d, e)
    PROVE  Rank(score, d) < Rank(score, e)
<1>1. IsFiniteSet(Documents)
  BY RetrievalAssumption
<1>2. \A x \in Documents : Rank(score, x) = 1 + Cardinality(Leaders(score)[x])
  BY DEF Rank, Leaders
<1>3. d \in Leaders(score)[e]
  BY DEF Leaders
<1>4. \A x \in Documents : Cardinality(Leaders(score)[x]) \in Nat
  BY <1>1, LeadersOrdered, Places
<1>5. Cardinality(Leaders(score)[d]) < Cardinality(Leaders(score)[e])
  BY <1>1, <1>3, LeadersOrdered, Places
<1> QED BY <1>2, <1>4, <1>5

LEMMA ShareTyped ==
    ASSUME NEW score \in [Documents -> Nat], NEW d \in Documents
    PROVE  Reciprocal(Rank(score, d)) \in Nat
<1>1. PICK r \in 1..1000 : r = Rank(score, d)
  BY RankTyped
<1>2. 15000000 \div (60 + r) \in Nat
  BY SMT
<1> QED BY <1>1, <1>2, SMT DEF Reciprocal

LEMMA ShareFalls ==
    ASSUME NEW score \in [Documents -> Nat], NEW d \in Documents, NEW e \in Documents,
           Ahead(score, d, e)
    PROVE  Reciprocal(Rank(score, e)) < Reciprocal(Rank(score, d))
<1>1. PICK r \in 1..1000 : r = Rank(score, d)
  BY RankTyped
<1>2. PICK s \in 1..1000 : s = Rank(score, e)
  BY RankTyped
<1>3. r < s
  BY <1>1, <1>2, RankRises
<1>4. 15000000 \div (60 + s) < 15000000 \div (60 + r)
  <2>1. PICK a \in Nat, b \in Nat : a = 60 + r /\ b = 60 + s /\ 61 <= a /\ a + 1 <= b /\ b <= 1060
    BY <1>3, SMT
  <2>m. PICK n \in Nat : n = 15000000
    BY SMT
  <2>2. PICK p \in Nat : p = n \div b /\ p * b <= 15000000 /\ 15000000 < (p + 1) * b
    <3>1. PICK p \in Nat : p = n \div b
      BY <2>1, SMT
    <3>2. b >= 1
      BY <2>1, SMT
    <3>3. p * b <= n /\ n < (p + 1) * b
      BY <3>1, <3>2, SMT
    <3> QED BY <2>m, <3>1, <3>3, SMT
  <2>3. PICK q \in Nat : q = n \div a /\ q * a <= 15000000 /\ 15000000 < (q + 1) * a
    <3>1. PICK q \in Nat : q = n \div a
      BY <2>1, SMT
    <3>2. a >= 1
      BY <2>1, SMT
    <3>3. q * a <= n /\ n < (q + 1) * a
      BY <3>1, <3>2, SMT
    <3> QED BY <2>m, <3>1, <3>3, SMT
  <2>4. SUFFICES ASSUME q <= p PROVE FALSE
    BY <2>1, <2>m, <2>2, <2>3, SMT
  <2>5. (p + 1) * b <= (p + 1) * 1060
    BY <2>1, SMT
  <2>6. p > 1060
    BY <2>1, <2>2, <2>5, SMT
  <2>7. (q + 1) * a <= (p + 1) * a
    BY <2>1, <2>4, SMT
  <2>8. p * (a + 1) <= p * b
    BY <2>1, SMT
  <2>9. p * (a + 1) = p * a + p /\ (p + 1) * a = p * a + a
    BY <2>1, SMT
  <2> QED BY <2>1, <2>2, <2>3, <2>6, <2>7, <2>8, <2>9, SMT
<1> QED BY <1>1, <1>2, <1>4, SMT DEF Reciprocal

LEMMA FusedTyped ==
    ASSUME NEW lexical \in [Documents -> Nat], NEW semantic \in [Documents -> Nat]
    PROVE  FusedRanks(lexical, semantic) \in [Documents -> Nat]
BY ShareTyped DEF FusedRanks

\* A document ahead by terms and by meaning is ahead when fused.
LEMMA FusedFalls ==
    ASSUME NEW lexical \in [Documents -> Nat], NEW semantic \in [Documents -> Nat],
           NEW d \in Documents, NEW e \in Documents, Ahead(lexical, d, e), Ahead(semantic, d, e)
    PROVE  FusedRanks(lexical, semantic)[d] > FusedRanks(lexical, semantic)[e]
<1> DEFINE R(score, x) == Reciprocal(Rank(score, x))
<1>1. R(lexical, d) \in Nat /\ R(lexical, e) \in Nat /\ R(lexical, e) < R(lexical, d)
  BY ShareTyped, ShareFalls
<1>2. R(semantic, d) \in Nat /\ R(semantic, e) \in Nat /\ R(semantic, e) < R(semantic, d)
  BY ShareTyped, ShareFalls
<1>3. \A x \in Documents : FusedRanks(lexical, semantic)[x] = R(lexical, x) + R(semantic, x)
  BY DEF FusedRanks
<1> HIDE DEF R
<1> QED BY <1>1, <1>2, <1>3

LEMMA FusedIs == ASSUME NEW query PROVE Fused(query) = FusedRanks(Lexical(query), Semantic(query))
BY DEF Fused
-----------------------------------------------------------------------------
(* What is cited *)

LEMMA MeritsTyped ==
    ASSUME NEW query, IsFiniteSet(query), NEW d \in Documents
    PROVE  Coverage(query, d) \in Nat /\ Bonus(query, d) \in Nat
<1>1. PICK n \in Nat : n = Common(query, d)
  BY SemanticHitsNat
<1>2. PICK m \in Nat : m = (IF query = {} THEN 1 ELSE Cardinality(query)) /\ m >= 1
  <2>1. CASE query = {}
    BY <2>1
  <2>2. CASE query # {}
    <3>1. PICK m \in Nat : m = Cardinality(query)
      BY FS_CardinalityType
    <3>2. m # 0
      BY <2>2, <3>1, FS_EmptySet
    <3> QED BY <2>2, <3>1, <3>2
  <2> QED BY <2>1, <2>2
<1>3. (1000000 * n) \div m \in Nat
  <2>1. PICK k \in Nat : k = 1000000 * n
    BY SMT
  <2>2. k \div m \in Nat
    BY <1>2, SMT
  <2> QED BY <2>1, <2>2, SMT
<1>4. Coverage(query, d) \in Nat
  BY <1>1, <1>2, <1>3, SMT DEF Coverage
<1>5. Bonus(query, d) \in Nat
  BY SMT DEF Bonus
<1> QED BY <1>4, <1>5

LEMMA RerankedIs ==
    ASSUME NEW query, IsFiniteSet(query), NEW fused \in [Documents -> Nat], NEW d \in Documents
    PROVE  \E a, b, c \in Nat :
             /\ a = fused[d] /\ b = Coverage(query, d) /\ c = Bonus(query, d)
             /\ Reranked(query, fused, d) = IF a + b + c > 1000000 THEN 1000000 ELSE a + b + c
<1>1. PICK a \in Nat : a = fused[d]
  OBVIOUS
<1>2. PICK b \in Nat : b = Coverage(query, d)
  BY MeritsTyped
<1>3. PICK c \in Nat : c = Bonus(query, d)
  BY MeritsTyped
<1>4. Reranked(query, fused, d) = IF a + b + c > 1000000 THEN 1000000 ELSE a + b + c
  BY <1>1, <1>2, <1>3, SMT DEF Reranked
<1> QED BY <1>1, <1>2, <1>3, <1>4

\* What comes before each document in the result.
Predecessors(query, fused) ==
    [d \in Documents |-> {e \in Documents : Before(query, fused, e, d)}]

LEMMA PredecessorsOrdered ==
    ASSUME NEW query, IsFiniteSet(query), NEW fused \in [Documents -> Nat]
    PROVE  Ordered(Documents, Predecessors(query, fused))
<1> DEFINE B(d, e) == Before(query, fused, d, e)
           r == [d \in Documents |-> Reranked(query, fused, d)]
<1>1. Documents \subseteq Int
  BY RetrievalAssumption
<1>2. \A d \in Documents : fused[d] \in Nat /\ d \in Int
  BY <1>1
<1>3. \A d \in Documents : r[d] \in Nat
  <2> SUFFICES ASSUME NEW d \in Documents PROVE Reranked(query, fused, d) \in Nat
    OBVIOUS
  <2>1. PICK a, b, c \in Nat : 
            Reranked(query, fused, d) = IF a + b + c > 1000000 THEN 1000000 ELSE a + b + c
    BY RerankedIs
  <2> QED BY <2>1, SMT
<1>4. \A d, e \in Documents :
        B(d, e) <=> r[d] > r[e] \/ (r[d] = r[e] /\ (fused[d] > fused[e] \/ (fused[d] = fused[e] /\ d > e)))
  BY DEF Before, Ahead
<1> HIDE DEF B, r
<1>5. \A d, e \in Documents : e \in Predecessors(query, fused)[d] <=> B(e, d)
  BY DEF Predecessors, B
<1>6. \A d \in Documents : ~B(d, d)
  BY <1>2, <1>3, <1>4
<1>7. \A d, e, f \in Documents : B(f, e) /\ B(e, d) => B(f, d)
  BY <1>2, <1>3, <1>4
<1>8. \A d, e \in Documents : d = e \/ B(d, e) \/ B(e, d)
  BY <1>2, <1>3, <1>4
<1>9. \A d \in Documents : Predecessors(query, fused)[d] \subseteq Documents
  BY DEF Predecessors
<1> QED BY <1>5, <1>6, <1>7, <1>8, <1>9 DEF Ordered

LEMMA OutdoesBefore ==
    ASSUME NEW query, IsFiniteSet(query), NEW d \in Documents, NEW e \in Documents,
           Outdoes(query, d, e)
    PROVE  Before(query, Fused(query), d, e)
<1> DEFINE fused == Fused(query)
<1>1. fused \in [Documents -> Nat] /\ fused[d] > fused[e]
  BY FusedIs, FusedTyped, FusedFalls, ScoresTyped DEF Outdoes
<1> HIDE DEF fused
<1>2. PICK a, b, c \in Nat :
        /\ a = fused[d] /\ b = Coverage(query, d) /\ c = Bonus(query, d)
        /\ Reranked(query, fused, d) = IF a + b + c > 1000000 THEN 1000000 ELSE a + b + c
  BY <1>1, RerankedIs
<1>3. PICK x, y, z \in Nat :
        /\ x = fused[e] /\ y = Coverage(query, e) /\ z = Bonus(query, e)
        /\ Reranked(query, fused, e) = IF x + y + z > 1000000 THEN 1000000 ELSE x + y + z
  BY <1>1, RerankedIs
<1>4. a > x /\ b >= y /\ c >= z
  BY <1>1, <1>2, <1>3 DEF Outdoes
<1>5. PICK r \in Nat : r = Reranked(query, fused, d) /\ (r = a + b + c \/ r = 1000000) /\ r <= 1000000 /\ (r < 1000000 => r = a + b + c)
  BY <1>2, SMT
<1>6. PICK s \in Nat : s = Reranked(query, fused, e) /\ s <= x + y + z /\ s <= 1000000
  BY <1>3, SMT
<1>7. r >= s
  BY <1>4, <1>5, <1>6, SMT
<1>8. r > s \/ (r = s /\ Ahead(fused, d, e))
  BY <1>1, <1>7 DEF Ahead
<1>9. Before(query, fused, d, e)
  BY <1>5, <1>6, <1>8 DEF Before
<1> QED BY <1>9 DEF fused

LEMMA SearchIs ==
    ASSUME NEW query
    PROVE  Search(query) = First(Documents, Predecessors(query, Fused(query)), TopK)
<1>1. Search(query) = Best(query, Fused(query))
  BY DEF Search
<1>2. \A d \in Documents : Predecessors(query, Fused(query))[d]
                             = {e \in Documents : Before(query, Fused(query), e, d)}
  BY DEF Predecessors
<1> QED BY <1>1, <1>2 DEF Best, First

\* What search returns: as many as asked for, and nothing that is outdone.
LEMMA SearchRelevant ==
    ASSUME NEW query, IsFiniteSet(query)
    PROVE  /\ Cardinality(Search(query)) = Min({TopK, Cardinality(Documents)})
           /\ \A e \in Search(query), d \in Documents \ Search(query) : ~Outdoes(query, d, e)
<1> DEFINE P == Predecessors(query, Fused(query))
           n == Cardinality(Documents)
<1>1. Fused(query) \in [Documents -> Nat]
  BY FusedIs, FusedTyped, ScoresTyped
<1>2. Ordered(Documents, P) /\ IsFiniteSet(Documents) /\ TopK \in Nat
  BY <1>1, PredecessorsOrdered, RetrievalAssumption
<1>3. Search(query) = First(Documents, P, TopK)
  BY SearchIs
<1>4. n \in Nat
  BY <1>2, FS_CardinalityType
<1>5. ASSUME NEW e \in Search(query), NEW d \in Documents, Outdoes(query, d, e)
      PROVE  d \in Search(query)
  <2>1. e \in Documents
    BY <1>3 DEF First
  <2>2. d \in P[e]
    BY <1>5, <2>1, OutdoesBefore DEF Predecessors
  <2> HIDE DEF P
  <2> QED BY <1>2, <1>3, <2>2, FirstClosed
<1>6. Cardinality(Search(query)) = IF TopK < n THEN TopK ELSE n
  <2> HIDE DEF P
  <2> QED BY <1>2, <1>3, FirstCounted
<1>7. Min({TopK, n}) = IF TopK < n THEN TopK ELSE n
  <2> HIDE DEF n
  <2>1. PICK m \in {TopK, n} : m = (IF TopK < n THEN TopK ELSE n) /\ m <= TopK /\ m <= n
    BY <1>2, <1>4
  <2>2. \A x \in {TopK, n} : (\A y \in {TopK, n} : x <= y) <=> x = m
    BY <1>2, <1>4, <2>1
  <2>3. Min({TopK, n}) = m
    BY <2>2 DEF Min
  <2> QED BY <2>1, <2>3
<1> QED BY <1>5, <1>6, <1>7

LEMMA CitationsFromIInv == IInv => CitationsByRelevance
<1> SUFFICES ASSUME IInv, backend = "local", NEW c \in Calls,
                    ~At(c, "idle"), ~At(c, "retrieve_guidance")
             PROVE  /\ Cardinality(graph[c].citations) = Min({TopK, Cardinality(Documents)})
                    /\ \A e \in graph[c].citations, d \in Documents \ graph[c].citations :
                          ~Outdoes(graph[c].symptoms, d, e)
  BY DEF CitationsByRelevance
<1>1. graph[c] \in CallType /\ CallOK(backend, graph[c])
  BY DEF IInv, GraphOK
<1>2. graph[c].node \notin {"idle", "retrieve_guidance", "raised"}
  BY <1>1 DEF CallOK, At
<1>3. graph[c].citations = Search(graph[c].symptoms)
  BY <1>1, <1>2 DEF CallOK, Found
<1>4. IsFiniteSet(graph[c].symptoms)
  BY <1>1 DEF CallType, Texts
<1> QED BY <1>3, <1>4, SearchRelevant

\* CitationsByRelevance, for any documents, texts and concepts: what is cited
\* is as many documents as asked for, and none of them is outdone by one that
\* is not, whatever the ranks are fused to and wherever the score is capped.
THEOREM CitationsHold == Spec => []CitationsByRelevance
<1> QED BY IInvHolds, CitationsFromIInv, PTL
-----------------------------------------------------------------------------
(* Types *)

LEMMA AnswerTyped ==
    ASSUME IInv, NEW s \in StrategyNames, NEW n \in 1..Len(dataset),
           NEW x \in Answers(backend, dataset, s, n)
    PROVE  x \in ResultType
<1> DEFINE case == dataset[n]
           consent == HasExplicitResetConsent(case.prompt)
           status == Outcome(case.prompt, consent)
           tools == Taken(case.prompt, consent)
           accuracy == Accuracy(tools, case.tools)
           completed == (status = case.resolution)
<1>1. PICK cited \in SUBSET Documents : x = Answer(dataset, s, n, cited)
  BY SearchTyped DEF Answers, Found
<1> DEFINE g == GroundednessOf(dataset, n, cited)
           risk == RiskOf(dataset, n, cited)
           routed == NeedsReview(g, risk)
<1>2. x = [case |-> n, strategy |-> s, status |-> status, tools |-> tools, cited |-> cited,
           accuracy |-> accuracy, completed |-> completed, groundedness |-> g,
           risk |-> risk, routed |-> routed]
  BY <1>1 DEF Answer, AnswerWith
<1>3. status \in {"resolved", "no_action", "escalate"} BY DEF Outcome
<1>4. tools \in ToolLists BY Tools DEF Taken
<1>5. accuracy \in Nat BY <1>4, CaseFacts, AccuracyNat DEF IInv
<1>6. g \in Nat
  <2> DEFINE context == case.context
             e == Max2(Cardinality(context), 1)
             k == Cardinality(context \intersect cited)
             own == Grounded(cited)
             num == 1000 * k + own * e
             den == 2000 * e
  <2>1. IsFiniteSet(context) BY CaseFacts DEF IInv
  <2>2. k \in Nat /\ Cardinality(context) \in Nat BY <2>1, FS_CardinalityType, FS_Intersection
  <2>3. e \in Nat \ {0}
    <3> HIDE DEF context
    <3> QED BY <2>2 DEF Max2
  <2>4. own \in Nat BY DEF Grounded
  <2>5. g = Thousandths(num, den) BY DEF GroundednessOf, Groundedness
  <2> HIDE DEF e, k, own, g
  <2>6. num \in Nat /\ den \in Nat \ {0} BY <2>2, <2>3, <2>4, SMT
  <2> HIDE DEF num, den
  <2> QED BY <2>5, <2>6, ThousandthsNat
<1>7. risk \in Nat
  <2>1. Grounded(cited) \in {0, 1000} BY DEF Grounded
  <2>2. risk = Max2(1000 - Grounded(cited), 1000 - g) BY DEF RiskOf
  <2> HIDE DEF g, risk
  <2> QED BY <1>6, <2>1, <2>2 DEF Max2
<1>8. routed \in BOOLEAN /\ completed \in BOOLEAN
  BY DEF NeedsReview
<1>9. s \in {"baseline", "strict_grounded"} BY DEF StrategyNames
<1>10. DOMAIN dataset = 1..Len(dataset) BY DEF IInv, GivenOK
<1> HIDE DEF status, tools, accuracy, completed, g, risk, routed
<1> QED BY <1>2, <1>3, <1>4, <1>5, <1>6, <1>7, <1>8, <1>9, <1>10 DEF ResultType, ToolLists

LEMMA TypedFromInvariants == IInv /\ ReviewAccounting => TypeOK
<1> SUFFICES ASSUME IInv, ReviewAccounting PROVE TypeOK
  OBVIOUS
<1>1. \A x \in Reported : x \in ResultType
  BY ReportedAnswers, AnswerTyped
<1>2. ASSUME NEW r \in Calls
      PROVE  /\ run[r].phase \in {"new", "running", "done", "failed"}
             /\ Results(r) \subseteq ResultType
             /\ Len(run[r].runs) <= Len(Strategies(kind[r]))
             /\ run[r].phase = "done" <=> Len(run[r].runs) = Len(Strategies(kind[r]))
             /\ Len(run[r].results) < Len(dataset)
             /\ \A n \in DOMAIN run[r].results : run[r].results[n].case = n
             /\ \A k \in DOMAIN run[r].runs :
                  /\ run[r].runs[k].strategy = Strategies(kind[r])[k]
                  /\ Len(run[r].runs[k].cases) = Len(dataset)
  <2>1. run[r] \in RunType(backend, dataset) /\ RunOK(backend, dataset, kind[r], run[r], graph[r])
    BY DEF IInv, RunsOK
  <2>2. run[r].phase \in {"new", "running", "done", "failed"}
    BY <2>1 DEF RunType, Phases
  <2>3. Results(r) \subseteq ResultType
    BY <1>1 DEF Reported
  <2>4. /\ Len(run[r].runs) <= Len(Strategies(kind[r])) /\ Len(run[r].results) < Len(dataset)
        /\ run[r].phase = "done" <=> Len(run[r].runs) = Len(Strategies(kind[r]))
    BY <2>1 DEF RunOK
  <2>5. \A n \in DOMAIN run[r].results : run[r].results[n].case = n
    <3>1. DOMAIN run[r].results = 1..Len(run[r].results) BY <2>1 DEF RunType
    <3> QED BY <2>1, <3>1, AnswerFields DEF RunOK, Answered
  <2>6. \A k \in DOMAIN run[r].runs :
          /\ run[r].runs[k].strategy = Strategies(kind[r])[k]
          /\ Len(run[r].runs[k].cases) = Len(dataset)
    BY RunCases
  <2> QED BY <2>2, <2>3, <2>4, <2>5, <2>6
<1>3. queue \subseteq [strategy : {"baseline", "strict_grounded"}, case : DOMAIN dataset,
                        groundedness : Nat, risk : Nat]
  <2> SUFFICES ASSUME NEW i \in queue
               PROVE  i \in [strategy : {"baseline", "strict_grounded"}, case : DOMAIN dataset,
                              groundedness : Nat, risk : Nat]
    OBVIOUS
  <2>1. PICK x \in Reported : i = Item(x) BY DEF ReviewAccounting
  <2>2. x \in ResultType BY <1>1
  <2> QED BY <2>1, <2>2 DEF ResultType, Item
<1> QED BY <1>2, <1>3 DEF TypeOK

\* TypeOK: a run's results are those of the first cases, in order, and a run is
\* done once each strategy has met every case.
THEOREM RunsTyped == Spec => []TypeOK
<1> QED BY IInvHolds, ReviewInit, ReviewStep, TypedFromInvariants, PTL DEF Spec
=============================================================================
