----------------------- MODULE IncidentPipelineProofs -----------------------
(***************************************************************************)
(* Proofs about IncidentPipeline, for any scenarios, clock and recursion   *)
(* limit: how far the agent's retry loop can go, what the spans of a       *)
(* scenario look like when T-REx gets them, and what it makes of them.     *)
(***************************************************************************)
EXTENDS IncidentPipeline, FiniteSetTheorems, WellFoundedInduction, TLAPS

Actions == {"create_ticket", "restart_gateway", "escalate"}
Running == GraphNodes \union {"end"}
Stopped == {"next", "reconstruct", "finished", "crashed"}

\* What a span in the exporter says, as far as TypeOK depends on it.
Entries == [id : Int, span : [parent : Int, node : GraphNodes \union AgentTools,
                              kind : {"chain", "tool", "unsafe_tool", "human"},
                              seq : Nat, start : Int, end : Int]]

\* The process is where its scenarios and decisions say.
PlacesOK ==
    /\ scenarios \in Runs /\ at \in 0..Len(scenarios)
    /\ pc \in Running \union Stopped
    /\ decisions \in Seq({"pass", "fail"})
    /\ pc = "next" => at = Len(decisions)
    /\ pc = "finished" => Len(decisions) = Len(scenarios)
    /\ pc \notin {"next", "finished"} => at = Len(decisions) + 1

\* The graph's state and the clock.
GraphOK ==
    /\ ran \in 0..RecursionLimit /\ loopCount \in Nat
    /\ action \in {None, "retry_metrics"} \union Actions
    /\ called \in Seq(AgentTools)
    /\ now \in Int /\ tick \in Nat /\ rising \in BOOLEAN /\ started \in Nat

\* Spans of a scenario: started before now, one number of the scenario's
\* sequence each.
SpansOf(spans, n, numbers) ==
    /\ spans \in Seq(Entries) /\ Len(spans) = numbers
    /\ \A k \in DOMAIN spans :
          /\ \E m \in 1..n : spans[k].id = SpanId(m)
          /\ spans[k].span.seq \in 0..(numbers - 1)
    /\ \A j, k \in DOMAIN spans :
          /\ spans[j].id = spans[k].id => j = k
          /\ spans[j].span.seq = spans[k].span.seq => j = k

ExporterOK ==
    pc \in Running =>
        /\ sequence = ran + Len(called)
        /\ root \in [id : Int, start : Int]
        /\ SpansOf(exported, started, sequence)

\* How many nodes have run when the graph is at one of them: each retry is a
\* round of four.
Before(node) ==
    CASE node = "ingest_alert" -> 0 [] node = "query_metrics" -> 1
      [] node = "check_logs" -> 2 [] node = "diagnose" -> 3
      [] node = "choose_action" -> 4 [] node = "end" -> 6 [] OTHER -> 5
RoundsOK ==
    pc \in Running =>
        /\ ran = Before(pc) + 4 * loopCount
        /\ loopCount <= RetriesOf(Scenario)
        /\ pc = "execute_tool" => action \in {"create_ticket", "restart_gateway"}

IInv == PlacesOK /\ GraphOK /\ ExporterOK /\ RoundsOK

\* The graph is stopped by LangGraph only in a scenario that asks for more
\* nodes than it runs; in every other the retries end by themselves.
OnlyLongRunsStopped ==
    pc \in GraphNodes /\ ran = RecursionLimit => Nodes(Scenario) > RecursionLimit
-----------------------------------------------------------------------------
(* Scenarios and spans. *)

LEMMA ScenarioFields ==
    ASSUME NEW s \in Scenarios
    PROVE  s.action \in Actions /\ s.retries \in Nat /\ RetriesOf(s) \in Nat
<1>1. s.action \in Actions /\ s.retries \in Nat
  BY DEF Scenarios, Actions
<1> QED BY <1>1 DEF RetriesOf

LEMMA SpanIdsDiffer ==
    ASSUME NEW m \in Nat, NEW n \in Nat, SpanId(m) = SpanId(n)
    PROVE  m = n
BY DEF SpanId

LEMMA SpanIdType == \A n \in Nat : SpanId(n) \in Int
BY DEF SpanId

\* A span that takes the next id and the next number.
LEMMA OneMore ==
    ASSUME NEW spans, NEW n \in Nat, NEW q \in Nat, SpansOf(spans, n, q),
           NEW x \in Entries, x.id = SpanId(n + 1), x.span.seq = q
    PROVE  SpansOf(Append(spans, x), n + 1, q + 1)
<1> DEFINE longer == Append(spans, x)
<1>1. spans \in Seq(Entries) /\ Len(spans) = q
  BY DEF SpansOf
<1>2. /\ longer \in Seq(Entries) /\ Len(longer) = q + 1
      /\ \A k \in 1..q : longer[k] = spans[k]
      /\ longer[q + 1] = x
  BY <1>1
<1>3. DOMAIN spans = 1..q /\ DOMAIN longer = 1..(q + 1)
  BY <1>1, <1>2
<1> HIDE DEF longer
<1>4. \A k \in 1..(q + 1) : k \in 1..q \/ k = q + 1
  OBVIOUS
<1>5. ASSUME NEW k \in 1..(q + 1)
      PROVE  (\E m \in 1..(n + 1) : longer[k].id = SpanId(m)) /\ longer[k].span.seq \in 0..q
  <2>1. CASE k \in 1..q
    <3>1. \E m \in 1..n : spans[k].id = SpanId(m)
      BY <1>3, <2>1 DEF SpansOf
    <3>2. spans[k].span.seq \in 0..(q - 1)
      BY <1>3, <2>1 DEF SpansOf
    <3> QED BY <1>2, <2>1, <3>1, <3>2
  <2> QED BY <1>2, <1>4, <2>1
<1>6. ASSUME NEW j \in 1..q
      PROVE  longer[j].id # x.id /\ longer[j].span.seq # q
  <2>1. PICK m \in 1..n : spans[j].id = SpanId(m)
    BY <1>3 DEF SpansOf
  <2>2. SpanId(m) # SpanId(n + 1)
    BY SpanIdsDiffer
  <2>3. spans[j].span.seq \in 0..(q - 1)
    BY <1>3 DEF SpansOf
  <2> QED BY <1>2, <2>1, <2>2, <2>3
<1>7. ASSUME NEW j \in 1..(q + 1), NEW k \in 1..(q + 1)
      PROVE  /\ longer[j].id = longer[k].id => j = k
             /\ longer[j].span.seq = longer[k].span.seq => j = k
  <2>1. CASE j \in 1..q /\ k \in 1..q
    <3>1. /\ spans[j].id = spans[k].id => j = k
          /\ spans[j].span.seq = spans[k].span.seq => j = k
      BY <1>3, <2>1 DEF SpansOf
    <3> QED BY <1>2, <2>1, <3>1
  <2> QED BY <1>2, <1>4, <1>6, <2>1
<1>8. (q + 1) - 1 = q
  OBVIOUS
<1>9. SpansOf(longer, n + 1, q + 1)
  BY <1>2, <1>3, <1>5, <1>7, <1>8 DEF SpansOf
<1> QED BY <1>9 DEF longer

\* A tool's span ends before that of its node, which started first.
LEMMA TwoMore ==
    ASSUME NEW spans, NEW n \in Nat, NEW q \in Nat, SpansOf(spans, n, q),
           NEW x \in Entries, x.id = SpanId(n + 2), x.span.seq = q + 1,
           NEW y \in Entries, y.id = SpanId(n + 1), y.span.seq = q
    PROVE  SpansOf(spans \o <<x, y>>, n + 2, q + 2)
<1> DEFINE longer == spans \o <<x, y>>
<1>1. spans \in Seq(Entries) /\ Len(spans) = q
  BY DEF SpansOf
<1>2. /\ longer \in Seq(Entries) /\ Len(longer) = q + 2
      /\ \A k \in 1..q : longer[k] = spans[k]
      /\ longer[q + 1] = x /\ longer[q + 2] = y
  BY <1>1
<1>3. DOMAIN spans = 1..q /\ DOMAIN longer = 1..(q + 2)
  BY <1>1, <1>2
<1> HIDE DEF longer
<1>4. \A k \in 1..(q + 2) : k \in 1..q \/ k = q + 1 \/ k = q + 2
  OBVIOUS
<1>5. ASSUME NEW k \in 1..(q + 2)
      PROVE  /\ \E m \in 1..(n + 2) : longer[k].id = SpanId(m)
             /\ longer[k].span.seq \in 0..(q + 1)
  <2>1. CASE k \in 1..q
    <3>1. \E m \in 1..n : spans[k].id = SpanId(m)
      BY <1>3, <2>1 DEF SpansOf
    <3>2. spans[k].span.seq \in 0..(q - 1)
      BY <1>3, <2>1 DEF SpansOf
    <3>3. spans[k].span.seq \in 0..(q + 1)
      BY <3>2
    <3>4. PICK m \in 1..n : spans[k].id = SpanId(m)
      BY <3>1
    <3>5. m \in 1..(n + 2) /\ longer[k] = spans[k]
      BY <1>2, <2>1
    <3> QED BY <3>3, <3>4, <3>5
  <2> QED BY <1>2, <1>4, <2>1
<1>6. x.id # y.id
  BY SpanIdsDiffer
<1>7. ASSUME NEW j \in 1..q
      PROVE  /\ longer[j].id # x.id /\ longer[j].span.seq # q
             /\ longer[j].id # y.id /\ longer[j].span.seq # q + 1
  <2>1. PICK m \in 1..n : spans[j].id = SpanId(m)
    BY <1>3 DEF SpansOf
  <2>2. SpanId(m) # SpanId(n + 1) /\ SpanId(m) # SpanId(n + 2)
    BY SpanIdsDiffer
  <2>3. spans[j].span.seq \in 0..(q - 1)
    BY <1>3 DEF SpansOf
  <2> QED BY <1>2, <2>1, <2>2, <2>3
<1>8. ASSUME NEW j \in 1..(q + 2), NEW k \in 1..(q + 2)
      PROVE  /\ longer[j].id = longer[k].id => j = k
             /\ longer[j].span.seq = longer[k].span.seq => j = k
  <2>1. CASE j \in 1..q /\ k \in 1..q
    <3>1. /\ spans[j].id = spans[k].id => j = k
          /\ spans[j].span.seq = spans[k].span.seq => j = k
      BY <1>3, <2>1 DEF SpansOf
    <3> QED BY <1>2, <2>1, <3>1
  <2> QED BY <1>2, <1>4, <1>6, <1>7, <2>1
<1>9. (q + 2) - 1 = q + 1
  OBVIOUS
<1>10. SpansOf(longer, n + 2, q + 2)
  BY <1>2, <1>3, <1>5, <1>8, <1>9 DEF SpansOf
<1> QED BY <1>10 DEF longer
-----------------------------------------------------------------------------
(* Steps of the graph. *)

\* What a span is made of, node or tool.
Kinds == {"chain", "tool", "unsafe_tool", "human"}

LEMMA EntryType ==
    ASSUME NEW m \in Nat, NEW parent \in Int, NEW node \in GraphNodes \union AgentTools,
           NEW kind \in Kinds, NEW seq \in Nat, NEW start \in Int, NEW end \in Int
    PROVE  LET x == Exported(m, Span(parent, node, kind, seq, start, end))
           IN  x \in Entries /\ x.id = SpanId(m) /\ x.span.seq = seq
BY SpanIdType DEF Exported, Span, Entries, Kinds

\* At a node, everything has its type.
LEMMA AtNode ==
    ASSUME IInv, pc \in Running
    PROVE  /\ at \in 1..Len(scenarios) /\ scenarios \in Runs
           /\ ran \in Nat /\ loopCount \in Nat /\ started \in Nat /\ sequence \in Nat
           /\ now \in Int /\ tick \in Nat
           /\ called \in Seq(AgentTools) /\ Len(called) \in Nat
           /\ root.id \in Int /\ SpansOf(exported, started, sequence)
<1>1. /\ scenarios \in Runs /\ at \in 0..Len(scenarios)
      /\ at = Len(decisions) + 1 /\ Len(decisions) \in Nat
  BY DEF IInv, PlacesOK, Running, GraphNodes
<1>2. at \in 1..Len(scenarios)
  <2>1. scenarios \in Seq(Scenarios)
    BY <1>1, PipelineAssumption
  <2> QED BY <1>1, <2>1
<1>3. /\ ran \in Nat /\ loopCount \in Nat /\ started \in Nat
      /\ now \in Int /\ tick \in Nat
      /\ called \in Seq(AgentTools) /\ Len(called) \in Nat
  BY PipelineAssumption DEF IInv, GraphOK
<1>4. /\ sequence = ran + Len(called)
      /\ root \in [id : Int, start : Int] /\ SpansOf(exported, started, sequence)
  BY DEF IInv, ExporterOK
<1> QED BY <1>1, <1>2, <1>3, <1>4

\* A node has run: all but the state that the node itself sets.
LEMMA VisitKeeps ==
    ASSUME IInv, NEW node \in GraphNodes, NEW successor \in Running, Visits(node, successor)
    PROVE  /\ PlacesOK' /\ ran' = ran + 1 /\ ran' \in 0..RecursionLimit
           /\ root' = root /\ rising' = rising /\ tick' = tick
           /\ scenarios' = scenarios /\ at' = at /\ Scenario' = Scenario
           /\ pc = node /\ pc' = successor
<1>1. /\ pc = node /\ pc' = successor /\ ran < RecursionLimit /\ ran' = ran + 1
      /\ UNCHANGED <<scenarios, at, rising, tick, decisions, root>>
  BY DEF Visits, fixed
<1>2. ran' \in 0..RecursionLimit
  BY <1>1, PipelineAssumption DEF IInv, GraphOK
<1>3. PlacesOK'
  <2>1. pc \notin {"next", "finished"} /\ pc' \notin {"next", "finished"}
    BY <1>1 DEF Running, GraphNodes
  <2> QED BY <1>1, <2>1 DEF IInv, PlacesOK
<1> QED BY <1>1, <1>2, <1>3 DEF Scenario

LEMMA PlainKeeps ==
    ASSUME IInv, NEW node \in GraphNodes, NEW kind \in Kinds, NEW successor \in Running,
           Plain(node, kind, successor)
    PROVE  /\ ExporterOK' /\ now' \in Int /\ started' \in Nat
           /\ called' = called /\ called' \in Seq(AgentTools)
<1>1. Visits(node, successor) /\ PlainSpans(node, kind) /\ called' = called
  BY DEF Plain
<1>2. /\ ran' = ran + 1 /\ root' = root /\ rising' = rising
      /\ pc = node
  BY <1>1, VisitKeeps
<1>3. pc \in Running
  BY <1>2 DEF Running
<1>4. /\ ran \in Nat /\ started \in Nat /\ sequence \in Nat
      /\ now \in Int /\ tick \in Nat
      /\ called \in Seq(AgentTools) /\ Len(called) \in Nat
      /\ root.id \in Int /\ SpansOf(exported, started, sequence)
  BY <1>3, AtNode
<1> DEFINE x == Exported(started + 1, Span(root.id, node, kind, sequence,
                                           now + tick, now + 2 * tick))
<1>5. x \in Entries /\ x.id = SpanId(started + 1) /\ x.span.seq = sequence
  BY <1>4, EntryType
<1>6. /\ exported' = Append(exported, x) /\ started' = started + 1
      /\ sequence' = sequence + 1 /\ now' = now + 2 * tick
  BY <1>1 DEF PlainSpans
<1> HIDE DEF x
<1>7. SpansOf(exported', started', sequence')
  BY <1>4, <1>5, <1>6, OneMore
<1>8. SpansOf(exported, started, sequence)'
  BY <1>2, <1>7 DEF SpansOf, SpanId
<1>9. sequence' = ran' + Len(called')
  BY <1>1, <1>2, <1>3, <1>4, <1>6 DEF IInv, ExporterOK
<1>10. root' \in [id : Int, start : Int]
  BY <1>2, <1>3 DEF IInv, ExporterOK
<1> QED BY <1>1, <1>4, <1>6, <1>8, <1>9, <1>10 DEF ExporterOK

LEMMA ToolKeeps ==
    ASSUME IInv, NEW node \in GraphNodes, NEW tool \in AgentTools, NEW kind \in Kinds,
           NEW successor \in Running, CallsTool(node, tool, kind, successor)
    PROVE  /\ ExporterOK' /\ now' \in Int /\ started' \in Nat
           /\ called' \in Seq(AgentTools)
<1>1. Visits(node, successor) /\ ToolSpans(node, tool, kind) /\ called' = Append(called, tool)
  BY DEF CallsTool
<1>2. /\ ran' = ran + 1 /\ root' = root /\ rising' = rising
      /\ pc = node
  BY <1>1, VisitKeeps
<1>3. pc \in Running
  BY <1>2 DEF Running
<1>4. /\ ran \in Nat /\ started \in Nat /\ sequence \in Nat
      /\ now \in Int /\ tick \in Nat
      /\ called \in Seq(AgentTools) /\ Len(called) \in Nat
      /\ root.id \in Int /\ SpansOf(exported, started, sequence)
  BY <1>3, AtNode
<1> DEFINE x == Exported(started + 2, Span(SpanId(started + 1), tool, kind, sequence + 1,
                                           now + 2 * tick, now + 3 * tick))
           y == Exported(started + 1, Span(root.id, node, "chain", sequence,
                                           now + tick, now + 4 * tick))
<1>5. x \in Entries /\ x.id = SpanId(started + 2) /\ x.span.seq = sequence + 1
  <2>1. /\ SpanId(started + 1) \in Int /\ tool \in GraphNodes \union AgentTools
        /\ started + 2 \in Nat /\ sequence + 1 \in Nat
        /\ now + 2 * tick \in Int /\ now + 3 * tick \in Int
    BY <1>4, SpanIdType
  <2>2. PICK m \in Nat, seq \in Nat, parent \in Int, start \in Int, end \in Int :
            /\ m = started + 2 /\ seq = sequence + 1 /\ parent = SpanId(started + 1)
            /\ start = now + 2 * tick /\ end = now + 3 * tick
    BY <2>1
  <2>3. x = Exported(m, Span(parent, tool, kind, seq, start, end))
    BY <2>2
  <2> HIDE DEF x, y
  <2>4. x \in Entries /\ x.id = SpanId(m) /\ x.span.seq = seq
    BY <2>1, <2>3, SpanIdType DEF Exported, Span, Entries, Kinds
  <2> QED BY <2>2, <2>4
<1>6. y \in Entries /\ y.id = SpanId(started + 1) /\ y.span.seq = sequence
  <2>1. /\ started + 1 \in Nat /\ "chain" \in Kinds
        /\ now + tick \in Int /\ now + 4 * tick \in Int
    BY <1>4 DEF Kinds
  <2>2. PICK m \in Nat, start \in Int, end \in Int :
            m = started + 1 /\ start = now + tick /\ end = now + 4 * tick
    BY <2>1
  <2>3. y = Exported(m, Span(root.id, node, "chain", sequence, start, end))
    BY <2>2
  <2> HIDE DEF x, y
  <2>4. y \in Entries /\ y.id = SpanId(m) /\ y.span.seq = sequence
    BY <1>4, <2>1, <2>3, SpanIdType DEF Exported, Span, Entries, Kinds
  <2> QED BY <2>2, <2>4
<1>7. /\ exported' = exported \o <<x, y>> /\ started' = started + 2
      /\ sequence' = sequence + 2 /\ now' = now + 4 * tick
  BY <1>1 DEF ToolSpans
<1> HIDE DEF x, y
<1>8. SpansOf(exported', started', sequence')
  BY <1>4, <1>5, <1>6, <1>7, TwoMore
<1>9. SpansOf(exported, started, sequence)'
  BY <1>2, <1>8 DEF SpansOf, SpanId
<1>10. called' \in Seq(AgentTools) /\ Len(called') = Len(called) + 1
  BY <1>1, <1>4
<1>11. sequence' = ran' + Len(called')
  BY <1>2, <1>3, <1>4, <1>7, <1>10 DEF IInv, ExporterOK
<1>12. root' \in [id : Int, start : Int]
  BY <1>2, <1>3 DEF IInv, ExporterOK
<1> QED BY <1>4, <1>7, <1>9, <1>10, <1>11, <1>12 DEF ExporterOK
-----------------------------------------------------------------------------
(* The invariant. *)

LEMMA InitHolds == Init => IInv
<1> SUFFICES ASSUME Init PROVE IInv
  OBVIOUS
<1>1. /\ scenarios \in Runs /\ at = 0 /\ pc = "next" /\ ran = 0 /\ loopCount = 0
      /\ action = None /\ started = 0 /\ rising \in BOOLEAN /\ now = 0 /\ tick \in Ticks
      /\ decisions = <<>> /\ called = <<>>
  BY DEF Init
<1>2. PlacesOK
  <2>1. Len(scenarios) \in Nat
    BY <1>1, PipelineAssumption
  <2> QED BY <1>1, <2>1 DEF PlacesOK, Stopped
<1>3. GraphOK
  BY <1>1, PipelineAssumption DEF GraphOK
<1>4. pc \notin Running
  BY <1>1 DEF Running, GraphNodes
<1> QED BY <1>2, <1>3, <1>4 DEF IInv, ExporterOK, RoundsOK

\* A step outside the graph that leaves the agent alone.
LEMMA AgentRests ==
    ASSUME IInv, UNCHANGED <<scenarios, at, rising, tick, graphVars, started>>,
           now' \in Int, PlacesOK', pc' \in Stopped
    PROVE  IInv'
<1>1. pc' \notin Running
  BY DEF Running, Stopped, GraphNodes
<1>2. GraphOK'
  BY DEF IInv, GraphOK, graphVars
<1> QED BY <1>1, <1>2 DEF IInv, ExporterOK, RoundsOK

\* A node of the graph, by what it does to the count of nodes and retries.
LEMMA NodeKeeps ==
    ASSUME IInv, NEW node \in GraphNodes, NEW successor \in Running, Visits(node, successor),
           ExporterOK', now' \in Int, started' \in Nat, called' \in Seq(AgentTools),
           action' \in {None, "retry_metrics"} \union Actions, loopCount' \in Nat,
           Before(successor) + 4 * loopCount' = Before(node) + 4 * loopCount + 1,
           loopCount' <= RetriesOf(Scenario),
           successor = "execute_tool" => action' \in {"create_ticket", "restart_gateway"}
    PROVE  IInv'
<1>1. /\ PlacesOK' /\ ran' = ran + 1 /\ ran' \in 0..RecursionLimit
      /\ rising' = rising /\ tick' = tick /\ Scenario' = Scenario
      /\ pc = node /\ pc' = successor
  BY VisitKeeps
<1>2. GraphOK'
  BY <1>1 DEF IInv, GraphOK
<1>3. RoundsOK'
  <2>1. ran = Before(node) + 4 * loopCount
    BY <1>1 DEF IInv, RoundsOK, Running
  <2>2. ran' = Before(successor) + 4 * loopCount'
    <3>1. Before(node) \in Nat
      BY DEF Before
    <3>2. loopCount \in Nat
      BY DEF IInv, GraphOK
    <3>3. Before(successor) \in Nat
      BY DEF Before
    <3> QED BY <1>1, <2>1, <3>1, <3>2, <3>3
  <2>3. RetriesOf(Scenario)' = RetriesOf(Scenario)
    BY <1>1 DEF RetriesOf
  <2>4. Before(pc)' = Before(successor)
    BY <1>1 DEF Before
  <2> QED BY <1>1, <2>2, <2>3, <2>4 DEF RoundsOK
<1> QED BY <1>1, <1>2, <1>3 DEF IInv

\* Nodes that set neither action nor retries.
LEMMA PlainHolds ==
    ASSUME IInv, NEW node \in GraphNodes, NEW kind \in Kinds, NEW successor \in Running,
           Plain(node, kind, successor), UNCHANGED <<loopCount, action>>,
           Before(successor) = Before(node) + 1, successor # "execute_tool"
    PROVE  IInv'
<1>1. Visits(node, successor)
  BY DEF Plain
<1>2. pc = node /\ pc \in Running
  BY <1>1, VisitKeeps DEF Running
<1>3. /\ ExporterOK' /\ now' \in Int /\ started' \in Nat /\ called' \in Seq(AgentTools)
  BY PlainKeeps
<1>4. /\ action' \in {None, "retry_metrics"} \union Actions
      /\ loopCount' \in Nat /\ loopCount' <= RetriesOf(Scenario)
  BY <1>2 DEF IInv, GraphOK, RoundsOK
<1>5. Before(successor) + 4 * loopCount' = Before(node) + 4 * loopCount + 1
  <2>1. Before(node) \in Nat
    BY DEF Before
  <2> QED BY <1>4, <2>1
<1> QED BY <1>1, <1>3, <1>4, <1>5, NodeKeeps

LEMMA ToolHolds ==
    ASSUME IInv, NEW node \in GraphNodes, NEW tool \in AgentTools, NEW kind \in Kinds,
           NEW successor \in Running, CallsTool(node, tool, kind, successor),
           Before(successor) = Before(node) + 1, successor # "execute_tool"
    PROVE  IInv'
<1>1. Visits(node, successor) /\ UNCHANGED <<loopCount, action>>
  BY DEF CallsTool
<1>2. pc = node /\ pc \in Running
  BY <1>1, VisitKeeps DEF Running
<1>3. /\ ExporterOK' /\ now' \in Int /\ started' \in Nat /\ called' \in Seq(AgentTools)
  BY ToolKeeps
<1>4. /\ action' \in {None, "retry_metrics"} \union Actions
      /\ loopCount' \in Nat /\ loopCount' <= RetriesOf(Scenario)
  BY <1>1, <1>2 DEF IInv, GraphOK, RoundsOK
<1>5. Before(successor) + 4 * loopCount' = Before(node) + 4 * loopCount + 1
  <2>1. Before(node) \in Nat
    BY DEF Before
  <2> QED BY <1>1, <1>4, <2>1
<1> QED BY <1>1, <1>3, <1>4, <1>5, NodeKeeps

LEMMA StepHolds == IInv /\ [Next]_vars => IInv'
<1> SUFFICES ASSUME IInv, [Next]_vars PROVE IInv'
  OBVIOUS
<1>t. GraphOK /\ PlacesOK /\ ExporterOK /\ RoundsOK
  BY DEF IInv
<1>n. Len(scenarios) \in Nat /\ scenarios \in Runs
  BY <1>t, PipelineAssumption DEF PlacesOK
<1>1. CASE StartScenario
  <2>1. /\ pc = "next" /\ at < Len(scenarios) /\ pc' = "ingest_alert" /\ at' = at + 1
        /\ ran' = 0 /\ loopCount' = 0 /\ action' = None /\ called' = <<>>
        /\ started' = started + 1 /\ now' = now + tick
        /\ root' = [id |-> SpanId(started + 1), start |-> now + tick]
        /\ UNCHANGED <<scenarios, rising, tick, decisions>>
        /\ exported' = <<>> /\ sequence' = 0
    BY <1>1 DEF StartScenario, Begin
  <2>2. PlacesOK'
    BY <1>t, <1>n, <2>1 DEF PlacesOK, Running, GraphNodes
  <2>3. GraphOK'
    BY <1>t, <2>1, PipelineAssumption DEF GraphOK
  <2>4. ExporterOK'
    <3>1. root' \in [id : Int, start : Int]
      BY <1>t, <2>1, SpanIdType DEF GraphOK
    <3>2. SpansOf(exported, started, sequence)'
      BY <2>1 DEF SpansOf
    <3> QED BY <2>1, <3>1, <3>2 DEF ExporterOK
  <2>5. RoundsOK'
    <3>1. scenarios \in Seq(Scenarios) /\ at + 1 \in 1..Len(scenarios)
      BY <1>t, <1>n, <2>1, PipelineAssumption DEF PlacesOK
    <3>2. Scenario' = scenarios[at + 1] /\ scenarios[at + 1] \in Scenarios
      BY <2>1, <3>1 DEF Scenario
    <3>3. RetriesOf(scenarios[at + 1]) \in Nat
      BY <3>2, ScenarioFields
    <3>4. RetriesOf(Scenario)' = RetriesOf(scenarios[at + 1])
      BY <3>2 DEF RetriesOf
    <3> QED BY <2>1, <3>3, <3>4 DEF RoundsOK, Before
  <2> QED BY <2>2, <2>3, <2>4, <2>5 DEF IInv
<1>2. CASE IngestAlert
  BY <1>2, PlainHolds DEF IngestAlert, GraphNodes, Running, Kinds, Before
<1>3. CASE QueryMetrics
  BY <1>3, ToolHolds DEF QueryMetrics, GraphNodes, AgentTools, Running, Kinds, Before
<1>4. CASE CheckLogs
  BY <1>4, ToolHolds DEF CheckLogs, GraphNodes, AgentTools, Running, Kinds, Before
<1>5. CASE Diagnose
  BY <1>5, PlainHolds DEF Diagnose, GraphNodes, Running, Kinds, Before
<1>6. CASE ChooseAction
  <2>1. PICK successor \in Running : successor = Route(action')
    BY DEF Route, Running, GraphNodes
  <2>2. Plain("choose_action", "chain", successor)
    BY <1>6, <2>1 DEF ChooseAction, Plain, Visits
  <2>3. Visits("choose_action", successor) /\ pc = "choose_action"
    BY <1>6, <2>2 DEF Plain, ChooseAction
  <2>4. /\ ExporterOK' /\ now' \in Int /\ started' \in Nat /\ called' \in Seq(AgentTools)
    BY <2>2, PlainKeeps DEF GraphNodes, Kinds
  <2>5. Scenario.action \in Actions /\ Scenario.retries \in Nat
    <3>1. at \in 1..Len(scenarios) /\ scenarios \in Seq(Scenarios)
      BY <2>3, AtNode, PipelineAssumption DEF Running, GraphNodes
    <3>2. Scenario \in Scenarios
      BY <3>1 DEF Scenario
    <3> QED BY <3>2, ScenarioFields
  <2>6. loopCount \in Nat /\ loopCount <= RetriesOf(Scenario)
    BY <1>t, <2>3 DEF GraphOK, RoundsOK, Running, GraphNodes
  <2>7. CASE Retries
    <3>1. action' = "retry_metrics" /\ loopCount' = loopCount + 1 /\ successor = "query_metrics"
      BY <1>6, <2>1, <2>7 DEF ChooseAction, Route
    <3>2. loopCount' <= RetriesOf(Scenario) /\ loopCount' \in Nat
      BY <2>5, <2>6, <2>7, <3>1 DEF Retries, RetriesOf
    <3>3. Before(successor) + 4 * loopCount' = Before("choose_action") + 4 * loopCount + 1
      BY <2>6, <3>1 DEF Before
    <3> QED BY <2>3, <2>4, <3>1, <3>2, <3>3, NodeKeeps DEF GraphNodes
  <2>8. CASE ~Retries
    <3>1. /\ action' = Scenario.action /\ loopCount' = loopCount
          /\ successor = (IF action' = "escalate" THEN "escalate" ELSE "execute_tool")
      BY <1>6, <2>1, <2>5, <2>8 DEF ChooseAction, Route, Actions
    <3>2. Before(successor) + 4 * loopCount' = Before("choose_action") + 4 * loopCount + 1
      BY <2>6, <3>1 DEF Before
    <3>3. successor = "execute_tool" => action' \in {"create_ticket", "restart_gateway"}
      BY <2>5, <3>1 DEF Actions
    <3> QED BY <2>3, <2>4, <2>5, <2>6, <3>1, <3>2, <3>3, NodeKeeps DEF GraphNodes
  <2> QED BY <2>7, <2>8
<1>7. CASE ExecuteTool
  <2>1. PICK tool \in AgentTools, kind \in Kinds : CallsTool("execute_tool", tool, kind, "end")
    BY <1>7 DEF ExecuteTool, AgentTools, Kinds
  <2> QED BY <2>1, ToolHolds DEF GraphNodes, Running, Before
<1>8. CASE Escalate
  BY <1>8, PlainHolds DEF Escalate, GraphNodes, Running, Kinds, Before
<1>9. CASE LimitReached
  <2>1. /\ pc \in GraphNodes /\ pc' = "crashed"
        /\ UNCHANGED <<scenarios, at, rising, tick, decisions, graphVars, started, now>>
    BY <1>9 DEF LimitReached, fixed, spanVars
  <2>2. PlacesOK'
    BY <1>t, <2>1 DEF PlacesOK, GraphNodes, Stopped
  <2> QED BY <1>t, <2>1, <2>2, AgentRests DEF Stopped, GraphOK
<1>10. CASE Load
  <2>1. /\ pc = "end" /\ pc' = "reconstruct" /\ now' = now + tick
        /\ UNCHANGED <<scenarios, at, rising, tick, decisions, graphVars, started>>
    BY <1>10 DEF Load, fixed
  <2>2. PlacesOK'
    BY <1>t, <2>1 DEF PlacesOK, Stopped
  <2>3. now' \in Int
    BY <1>t, <2>1 DEF GraphOK
  <2> QED BY <2>1, <2>2, <2>3, AgentRests DEF Stopped
<1>11. CASE Reconstruct
  <2>1. /\ pc = "reconstruct" /\ pc' = pc
        /\ UNCHANGED <<scenarios, at, rising, tick, decisions, graphVars, started, now>>
    BY <1>11 DEF Reconstruct, fixed, spanVars
  <2>2. PlacesOK'
    BY <1>t, <2>1 DEF PlacesOK
  <2> QED BY <1>t, <2>1, <2>2, AgentRests DEF Stopped, GraphOK
<1>12. CASE Judge
  <2>1. /\ pc = "reconstruct" /\ decisions' = Append(decisions, E!Decision(Evaluated))
        /\ pc' = IF at = Len(scenarios) THEN "finished" ELSE "next"
        /\ UNCHANGED <<scenarios, at, rising, tick, graphVars, started, now>>
    BY <1>12 DEF Judge, spanVars
  <2>2. E!Decision(Evaluated) \in {"pass", "fail"}
    BY DEF E!Decision
  <2>3. decisions' \in Seq({"pass", "fail"}) /\ Len(decisions') = Len(decisions) + 1
    BY <1>t, <2>1, <2>2 DEF PlacesOK
  <2>4. PlacesOK'
    BY <1>t, <1>n, <2>1, <2>3 DEF PlacesOK, Stopped
  <2> QED BY <1>t, <2>1, <2>4, AgentRests DEF Stopped, GraphOK
<1>13. CASE ReconstructionRaises
  <2>1. /\ pc = "reconstruct" /\ pc' = "crashed"
        /\ UNCHANGED <<scenarios, at, rising, tick, decisions, graphVars, started, now>>
    BY <1>13 DEF ReconstructionRaises, fixed, spanVars
  <2>2. PlacesOK'
    BY <1>t, <2>1 DEF PlacesOK, Stopped
  <2> QED BY <1>t, <2>1, <2>2, AgentRests DEF Stopped, GraphOK
<1>14. CASE ClockSetBack
  <2>1. /\ now' = now - StepBack
        /\ UNCHANGED <<scenarios, at, pc, rising, tick, decisions, graphVars, exported, started, root>>
    BY <1>14 DEF ClockSetBack, fixed
  <2>2. now' \in Int
    BY <1>t, <2>1, PipelineAssumption DEF GraphOK
  <2>3. PlacesOK' /\ GraphOK'
    BY <1>t, <2>1, <2>2 DEF PlacesOK, GraphOK, graphVars
  <2>4. ExporterOK'
    BY <1>t, <2>1 DEF ExporterOK, SpansOf, SpanId, graphVars
  <2>5. RoundsOK'
    BY <1>t, <2>1 DEF RoundsOK, Before, RetriesOf, Scenario, graphVars
  <2> QED BY <2>3, <2>4, <2>5 DEF IInv
<1>15. CASE UNCHANGED vars
  <2>1. UNCHANGED <<scenarios, at, pc, rising, tick, decisions, ran, loopCount, action, sequence,
                    called, exported, started, root, now>>
    BY <1>15 DEF vars, graphVars, spanVars
  <2>2. PlacesOK' /\ GraphOK'
    BY <1>t, <2>1 DEF PlacesOK, GraphOK
  <2>3. ExporterOK'
    BY <1>t, <2>1 DEF ExporterOK, SpansOf, SpanId
  <2>4. RoundsOK'
    BY <1>t, <2>1 DEF RoundsOK, Before, RetriesOf, Scenario
  <2> QED BY <2>2, <2>3, <2>4 DEF IInv
<1>16. Ended => UNCHANGED vars
  BY DEF Ended
<1> QED BY <1>1, <1>2, <1>3, <1>4, <1>5, <1>6, <1>7, <1>8, <1>9, <1>10, <1>11, <1>12, <1>13,
           <1>14, <1>15, <1>16 DEF Next

THEOREM Invariant == Spec => []IInv
BY InitHolds, StepHolds, PTL DEF Spec

\* Whatever the scenarios, the retries, the clock and the ids are: between two
\* nodes each span of the scenario is in the exporter once, with an id and a
\* number of its own (otel.py's _otel_sequence), as many as nodes and tools
\* have run; and main() has a decision for each scenario that is over.
THEOREM PipelineTyped == Spec => []TypeOK
<1>1. IInv => TypeOK
  <2> SUFFICES ASSUME IInv PROVE TypeOK
    OBVIOUS
  <2>1. /\ scenarios \in Runs /\ at \in 0..Len(scenarios)
        /\ pc \in GraphNodes \union {"next", "end", "reconstruct", "finished", "crashed"}
        /\ pc = "next" => at = Len(decisions)
        /\ pc = "finished" => Len(decisions) = Len(scenarios)
        /\ pc \notin {"next", "finished"} => at = Len(decisions) + 1
    BY DEF IInv, PlacesOK, Running, Stopped
  <2>2. /\ ran \in 0..RecursionLimit /\ loopCount \in Nat
        /\ action \in {None, "create_ticket", "restart_gateway", "escalate", "retry_metrics"}
        /\ called \in Seq(AgentTools)
    BY DEF IInv, GraphOK, Actions
  <2>3. ASSUME pc \in GraphNodes \union {"end"}
        PROVE  /\ sequence = Len(exported) /\ sequence = ran + Len(called)
               /\ \A m, n \in DOMAIN exported : exported[m].id = exported[n].id => m = n
               /\ \A n \in DOMAIN exported : exported[n].span.seq \in 0..(sequence - 1)
               /\ \A m, n \in DOMAIN exported :
                     exported[m].span.seq = exported[n].span.seq => m = n
    BY <2>3 DEF IInv, ExporterOK, SpansOf, Running
  <2> QED BY <2>1, <2>2, <2>3 DEF TypeOK
<1> QED BY <1>1, Invariant, PTL

LEMMA RetriesEnd == IInv => OnlyLongRunsStopped
<1> SUFFICES ASSUME IInv, pc \in GraphNodes, ran = RecursionLimit
             PROVE  Nodes(Scenario) > RecursionLimit
  BY DEF OnlyLongRunsStopped
<1>1. /\ pc \in Running /\ ran = Before(pc) + 4 * loopCount
      /\ loopCount <= RetriesOf(Scenario)
  BY DEF IInv, RoundsOK, Running
<1>2. Before(pc) \in 0..5
  BY DEF Before, GraphNodes
<1>3. RetriesOf(Scenario) \in Nat /\ loopCount \in Nat
  <2>1. at \in 1..Len(scenarios) /\ scenarios \in Seq(Scenarios)
    BY <1>1, AtNode, PipelineAssumption
  <2>2. Scenario \in Scenarios
    BY <2>1 DEF Scenario
  <2> QED BY <2>2, ScenarioFields DEF IInv, GraphOK
<1> QED BY <1>1, <1>2, <1>3 DEF Nodes

\* The retry loop of _choose_action ends by itself: LangGraph's recursion
\* limit stops only a scenario that asks for more nodes than it allows.
THEOREM RetriesBounded == Spec => []OnlyLongRunsStopped
BY RetriesEnd, Invariant, PTL
-----------------------------------------------------------------------------
(* What the spans of a scenario tell: more than TypeOK says, and enough to *)
(* know what T-REx makes of them.                                          *)

Named(spans, q, names) == {k \in 1..q : spans[k].span.node \in names}

\* The first q spans are the same.
Extends(longer, spans, q) == \A k \in 1..q : longer[k] = spans[k]

\* The ids of the first q spans are not that of the scenario's own span.
IdsApart(spans, q, top, n) ==
    /\ \E m \in 1..n : top = SpanId(m)
    /\ \A k \in 1..q : spans[k].id # top

\* A node's span is a child of the scenario's own, a tool's of the node's span
\* that ends next; a human decides in one node only.
NodeSpan(s, top) ==
    /\ s.node \in GraphNodes /\ s.parent = top
    /\ s.kind = IF s.node = "escalate" THEN "human" ELSE "chain"
ToolSpan(spans, k, q) ==
    /\ spans[k].span.node \in AgentTools /\ spans[k].span.kind \in {"tool", "unsafe_tool"}
    /\ k + 1 <= q /\ spans[k + 1].span.node \in GraphNodes
    /\ spans[k].span.parent = spans[k + 1].id
Family(spans, q, top) == \A k \in 1..q : NodeSpan(spans[k].span, top) \/ ToolSpan(spans, k, q)

\* Nodes take their turn by sequence number, and by start if the clock is steady.
InTurn(spans, q, steady, time) ==
    \A k \in Named(spans, q, GraphNodes) :
        /\ steady => spans[k].span.start <= time
        /\ \A j \in Named(spans, q, GraphNodes) : j < k =>
              /\ spans[j].span.seq < spans[k].span.seq
              /\ steady => spans[j].span.start <= spans[k].span.start

\* The k-th of the tools' spans is that of the k-th tool called.
CallsTold(spans, q, tools) ==
    /\ Cardinality(Named(spans, q, AgentTools)) = Len(tools)
    /\ \A k \in Named(spans, q, AgentTools) :
          tools[Cardinality(Named(spans, k, AgentTools))] = spans[k].span.node

\* A node of the retry loop has a span for each round, any other at most one.
Retried == {"query_metrics", "check_logs", "diagnose", "choose_action"}
Rounds(node, place, loops) ==
    (IF node \in Retried THEN loops ELSE 0) + (IF Before(node) < Before(place) THEN 1 ELSE 0)
RunsTold(spans, q, place, loops) ==
    /\ \A node \in GraphNodes :
          Cardinality(Named(spans, q, {node})) <= Rounds(node, place, loops)
    /\ \A node \in Retried :
          Cardinality(Named(spans, q, {node})) = Rounds(node, place, loops)

EndTold(spans, q, place, last) ==
    /\ place = "escalate" => last = "escalate"
    /\ place # "end" => Cardinality(Named(spans, q, {"escalate"})) = 0
    /\ place = "end" => (Cardinality(Named(spans, q, {"escalate"})) # 0 <=> last = "escalate")

Told(spans, q, n, top, steady, time, tools) ==
    /\ IdsApart(spans, q, top, n) /\ Family(spans, q, top)
    /\ InTurn(spans, q, steady, time) /\ CallsTold(spans, q, tools)

Steady == at \notin setBack
Place == IF pc = "reconstruct" THEN "end" ELSE pc
StoryOK ==
    pc \in Running \union {"reconstruct"} =>
        /\ Told(exported, sequence, started, root.id, Steady, now, called)
        /\ RunsTold(exported, sequence, Place, loopCount)
        /\ EndTold(exported, sequence, Place, action)

LEMMA NamedStays ==
    ASSUME NEW q \in Nat, NEW spans, NEW longer, NEW names, NEW k \in 0..q,
           Extends(longer, spans, q)
    PROVE  Named(longer, k, names) = Named(spans, k, names) /\ IsFiniteSet(Named(spans, k, names))
<1>1. Named(longer, k, names) = Named(spans, k, names)
  <2>1. \A j \in 1..k : j \in 1..q
    OBVIOUS
  <2> QED BY <2>1 DEF Named, Extends
<1>2. IsFiniteSet(1..k) /\ Named(spans, k, names) \subseteq 1..k
  BY FS_Interval DEF Named
<1> QED BY <1>1, <1>2, FS_Subset

LEMMA NamedFinite ==
    ASSUME NEW q \in Nat, NEW spans, NEW names
    PROVE  /\ IsFiniteSet(Named(spans, q, names)) /\ q + 1 \notin Named(spans, q, names)
           /\ Cardinality(Named(spans, q, names)) \in Nat
<1>1. IsFiniteSet(1..q) /\ Named(spans, q, names) \subseteq 1..q
  BY FS_Interval DEF Named
<1>2. q + 1 \notin 1..q
  OBVIOUS
<1> QED BY <1>1, <1>2, FS_Subset, FS_CardinalityType

LEMMA NamedOneMore ==
    ASSUME NEW q \in Nat, NEW r \in Nat, r = q + 1, NEW spans, NEW longer, NEW names,
           Extends(longer, spans, q), longer[r].span.node \in names
    PROVE  /\ \A k : k \in Named(longer, r, names) <=> k \in Named(spans, q, names) \/ k = r
           /\ Cardinality(Named(longer, r, names)) = Cardinality(Named(spans, q, names)) + 1
<1>1. \A k : k \in 1..r <=> k \in 1..q \/ k = r
  OBVIOUS
<1>2. Named(longer, r, names) = Named(spans, q, names) \union {r}
  BY <1>1 DEF Named, Extends
<1>3. IsFiniteSet(Named(spans, q, names)) /\ r \notin Named(spans, q, names)
  BY NamedFinite
<1> QED BY <1>2, <1>3, FS_AddElement

LEMMA NamedNoMore ==
    ASSUME NEW q \in Nat, NEW r \in Nat, r = q + 1, NEW spans, NEW longer, NEW names,
           Extends(longer, spans, q), longer[r].span.node \notin names
    PROVE  Named(longer, r, names) = Named(spans, q, names)
<1>1. \A k : k \in 1..r <=> k \in 1..q \/ k = r
  OBVIOUS
<1> QED BY <1>1 DEF Named, Extends

\* One or two spans more, of new ids.
LEMMA IdsStayApart ==
    ASSUME NEW q \in Nat, NEW n \in Nat, NEW p \in 1..2, NEW spans, NEW longer, NEW top,
           Extends(longer, spans, q), IdsApart(spans, q, top, n),
           \A k \in (q + 1)..(q + p) : \E m \in (n + 1)..(n + p) : longer[k].id = SpanId(m)
    PROVE  IdsApart(longer, q + p, top, n + p)
<1>1. PICK m \in 1..n : top = SpanId(m)
  BY DEF IdsApart
<1>2. ASSUME NEW k \in 1..(q + p) PROVE longer[k].id # top
  <2>1. CASE k \in 1..q
    BY <2>1 DEF IdsApart, Extends
  <2>2. CASE k \in (q + 1)..(q + p)
    <3>1. PICK j \in (n + 1)..(n + p) : longer[k].id = SpanId(j)
      BY <2>2
    <3>2. m \in Nat /\ j \in Nat /\ m # j
      OBVIOUS
    <3> QED BY <1>1, <3>1, <3>2, SpanIdsDiffer
  <2>3. k \in 1..q \/ k \in (q + 1)..(q + p)
    OBVIOUS
  <2> QED BY <2>1, <2>2, <2>3
<1>3. m \in 1..(n + p)
  OBVIOUS
<1> QED BY <1>1, <1>2, <1>3 DEF IdsApart

LEMMA FamilyGrows ==
    ASSUME NEW q \in Nat, NEW p \in 1..2, NEW spans, NEW longer, NEW top,
           Extends(longer, spans, q), Family(spans, q, top),
           \A k \in (q + 1)..(q + p) :
               NodeSpan(longer[k].span, top) \/ ToolSpan(longer, k, q + p)
    PROVE  Family(longer, q + p, top)
<1>1. ASSUME NEW k \in 1..q PROVE NodeSpan(longer[k].span, top) \/ ToolSpan(longer, k, q + p)
  <2>1. NodeSpan(spans[k].span, top) \/ ToolSpan(spans, k, q)
    BY DEF Family
  <2>2. ASSUME ToolSpan(spans, k, q) PROVE ToolSpan(longer, k, q + p)
    <3>1. k + 1 <= q
      BY <2>2 DEF ToolSpan
    <3>2. k + 1 \in 1..q /\ k + 1 <= q + p
      BY <3>1
    <3> QED BY <2>2, <3>2 DEF ToolSpan, Extends
  <2> QED BY <2>1, <2>2 DEF Extends
<1>2. \A k \in 1..(q + p) : k \in 1..q \/ k \in (q + 1)..(q + p)
  OBVIOUS
<1> QED BY <1>1, <1>2 DEF Family

\* A node that has run is the last, by number and by start.
LEMMA TurnTaken ==
    ASSUME NEW q \in Nat, NEW r \in Nat, r > q, NEW spans, NEW longer,
           NEW steady, NEW time \in Int, NEW later \in Int,
           Extends(longer, spans, q),
           InTurn(spans, q, steady, time),
           \A k \in 1..q : spans[k].span.seq \in 0..(q - 1) /\ spans[k].span.start \in Int,
           \A k : k \in Named(longer, r, GraphNodes) <=> k \in Named(spans, q, GraphNodes) \/ k = r,
           longer[r].span.seq = q, longer[r].span.start \in time..later
    PROVE  InTurn(longer, r, steady, later)
<1> DEFINE N == Named(spans, q, GraphNodes)
<1>1. \A k \in N : k \in 1..q /\ longer[k] = spans[k]
  BY DEF Named, Extends
<1>2. \A k \in N : steady => spans[k].span.start <= time
  BY DEF InTurn
<1>3. \A j, k \in N : j < k => /\ spans[j].span.seq < spans[k].span.seq
                               /\ steady => spans[j].span.start <= spans[k].span.start
  BY DEF InTurn
<1>4. \A k \in N : spans[k].span.seq \in 0..(q - 1) /\ spans[k].span.start \in Int
  BY <1>1
<1> HIDE DEF N
<1>5. ASSUME NEW k \in N \union {r}
      PROVE  steady => longer[k].span.start <= later
  <2>1. CASE k \in N
    BY <1>1, <1>2, <1>4, <2>1
  <2> QED BY <2>1
<1>6. ASSUME NEW j \in N \union {r}, NEW k \in N \union {r}, j < k
      PROVE  /\ longer[j].span.seq < longer[k].span.seq
             /\ steady => longer[j].span.start <= longer[k].span.start
  <2>1. j \in N
    BY <1>1, <1>6
  <2>2. CASE k \in N
    BY <1>1, <1>3, <1>6, <2>1, <2>2
  <2>3. CASE k = r
    BY <1>1, <1>2, <1>4, <2>1, <2>3
  <2> QED BY <2>2, <2>3
<1> QED BY <1>5, <1>6 DEF InTurn, N

LEMMA NoCall ==
    ASSUME NEW q \in Nat, NEW r \in Nat, r = q + 1, NEW spans, NEW longer, NEW tools,
           Extends(longer, spans, q),
           CallsTold(spans, q, tools), longer[r].span.node \notin AgentTools
    PROVE  CallsTold(longer, r, tools)
<1>1. /\ Named(longer, r, AgentTools) = Named(spans, q, AgentTools)
      /\ Cardinality(Named(longer, r, AgentTools)) = Cardinality(Named(spans, q, AgentTools))
  BY NamedNoMore
<1>2. ASSUME NEW k \in Named(spans, q, AgentTools)
      PROVE  tools[Cardinality(Named(longer, k, AgentTools))] = longer[k].span.node
  <2>1. k \in 1..q /\ k \in 0..q
    BY DEF Named
  <2>2. Named(longer, k, AgentTools) = Named(spans, k, AgentTools)
    BY <2>1, NamedStays
  <2> QED BY <2>1, <2>2 DEF CallsTold, Extends
<1> QED BY <1>1, <1>2 DEF CallsTold

\* The ranks of spans are numbers of calls.
LEMMA RankOfCall ==
    ASSUME NEW q \in Nat, NEW spans, NEW names, NEW k \in Named(spans, q, names)
    PROVE  Cardinality(Named(spans, k, names)) \in 1..Cardinality(Named(spans, q, names))
<1>1. k \in 0..q /\ k \in 1..k
  BY DEF Named
<1>2. IsFiniteSet(Named(spans, k, names)) /\ IsFiniteSet(Named(spans, q, names))
  <2>1. Extends(spans, spans, q) /\ q \in 0..q
    BY DEF Extends
  <2> QED BY <1>1, <2>1, NamedStays
<1>3. Named(spans, k, names) \subseteq Named(spans, q, names)
  <2>1. \A j \in 1..k : j \in 1..q
    BY <1>1
  <2> QED BY <2>1 DEF Named
<1>4. k \in Named(spans, k, names)
  BY <1>1 DEF Named
<1>5. /\ Cardinality(Named(spans, k, names)) \in Nat
      /\ Cardinality(Named(spans, q, names)) \in Nat
      /\ Cardinality(Named(spans, k, names)) <= Cardinality(Named(spans, q, names))
      /\ Cardinality(Named(spans, k, names)) # 0
  BY <1>2, <1>3, <1>4, FS_CardinalityType, FS_Subset, FS_EmptySet
<1> QED BY <1>5

Longer(more, tools, tool) ==
    /\ Len(more) = Len(tools) + 1 /\ more[Len(tools) + 1] = tool
    /\ \A i \in 1..Len(tools) : more[i] = tools[i]

LEMMA OneCall ==
    ASSUME NEW q \in Nat, NEW r \in Nat, r = q + 1, NEW spans, NEW longer, NEW more,
           NEW tools, NEW tool \in AgentTools, Longer(more, tools, tool),
           Extends(longer, spans, q),
           CallsTold(spans, q, tools), longer[r].span.node = tool
    PROVE  CallsTold(longer, r, more)
<1>1. /\ \A k : k \in Named(longer, r, AgentTools) <=> k \in Named(spans, q, AgentTools) \/ k = r
      /\ Cardinality(Named(longer, r, AgentTools))
            = Cardinality(Named(spans, q, AgentTools)) + 1
  <2>1. longer[r].span.node \in AgentTools
    OBVIOUS
  <2> QED BY <2>1, NamedOneMore
<1>2. Cardinality(Named(spans, q, AgentTools)) = Len(tools)
  BY DEF CallsTold
<1>3. /\ Len(more) = Len(tools) + 1 /\ more[Len(tools) + 1] = tool
      /\ \A i \in 1..Len(tools) : more[i] = tools[i]
  BY DEF Longer
<1>4. ASSUME NEW k \in Named(spans, q, AgentTools)
      PROVE  more[Cardinality(Named(longer, k, AgentTools))] = longer[k].span.node
  <2>1. k \in 1..q /\ k \in 0..q
    BY DEF Named
  <2>2. Named(longer, k, AgentTools) = Named(spans, k, AgentTools)
    BY <2>1, NamedStays
  <2>3. Cardinality(Named(spans, k, AgentTools)) \in 1..Len(tools)
    BY <1>2, RankOfCall
  <2>4. tools[Cardinality(Named(spans, k, AgentTools))] = spans[k].span.node
    BY DEF CallsTold
  <2> QED BY <1>3, <2>1, <2>2, <2>3, <2>4 DEF Extends
<1>5. more[Cardinality(Named(longer, r, AgentTools))] = longer[r].span.node
  BY <1>1, <1>2, <1>3
<1> QED BY <1>1, <1>2, <1>3, <1>4, <1>5 DEF CallsTold

LEMMA SpanTyped ==
    ASSUME NEW q \in Nat, NEW n \in Nat, NEW spans, SpansOf(spans, n, q), NEW k \in 1..q
    PROVE  /\ spans[k] \in Entries /\ spans[k].span.seq \in 0..(q - 1)
           /\ spans[k].span.start \in Int /\ spans[k].id \in Int
<1>1. spans \in Seq(Entries) /\ Len(spans) = q
  BY DEF SpansOf
<1>2. spans[k] \in Entries /\ k \in DOMAIN spans
  BY <1>1
<1>3. spans[k].span.seq \in 0..(q - 1)
  BY <1>2 DEF SpansOf
<1>4. spans[k].span.start \in Int /\ spans[k].id \in Int
  BY <1>2 DEF Entries
<1> QED BY <1>2, <1>3, <1>4

\* A node's name is no tool's.
LEMMA NamesApart ==
    \A name : ~(name \in GraphNodes /\ name \in AgentTools)
BY DEF GraphNodes, AgentTools

\* The span that a node adds, as number r: it starts between time and later.
NodeAdds(longer, r, q, top, m, node, time, later) ==
    /\ longer[r].id = SpanId(m) /\ NodeSpan(longer[r].span, top)
    /\ longer[r].span.node = node /\ longer[r].span.seq = q
    /\ longer[r].span.start \in time..later

ToolAdds(longer, r, m, tool) ==
    /\ longer[r].id = SpanId(m) /\ longer[r].span.node = tool
    /\ longer[r].span.kind \in {"tool", "unsafe_tool"}
    /\ longer[r].span.parent = longer[r + 1].id

OneRunMore(longer, r, spans, q, node) ==
    \A name \in GraphNodes :
        Cardinality(Named(longer, r, {name}))
          = Cardinality(Named(spans, q, {name})) + (IF name = node THEN 1 ELSE 0)

\* A node that calls no tool has run.
LEMMA NodeTold ==
    ASSUME NEW q \in Nat, NEW r \in Nat, r = q + 1, NEW n \in Nat, NEW m \in Nat, m = n + 1,
           NEW spans, NEW longer, NEW top, NEW steady,
           NEW time \in Int, NEW later \in Int, NEW tools, NEW node,
           SpansOf(spans, n, q), Told(spans, q, n, top, steady, time, tools),
           Extends(longer, spans, q), NodeAdds(longer, r, q, top, m, node, time, later)
    PROVE  /\ Told(longer, r, m, top, steady, later, tools)
           /\ OneRunMore(longer, r, spans, q, node)
<1> USE DEF NodeAdds
<1>1. node \in GraphNodes /\ node \notin AgentTools
  BY NamesApart DEF NodeSpan
<1>2. IdsApart(longer, r, top, m)
  <2>1. \A k \in (q + 1)..(q + 1) : \E j \in (n + 1)..(n + 1) : longer[k].id = SpanId(j)
    OBVIOUS
  <2>2. IdsApart(longer, q + 1, top, n + 1)
    BY <2>1, IdsStayApart DEF Told
  <2> QED BY <2>2
<1>3. Family(longer, r, top)
  <2>1. \A k \in (q + 1)..(q + 1) : NodeSpan(longer[k].span, top)
    OBVIOUS
  <2>2. Family(longer, q + 1, top)
    BY <2>1, FamilyGrows DEF Told
  <2> QED BY <2>2
<1>4. InTurn(longer, r, steady, later)
  <2>1. \A k : k \in Named(longer, r, GraphNodes) <=> k \in Named(spans, q, GraphNodes) \/ k = r
    <3>1. longer[r].span.node \in GraphNodes
      BY <1>1
    <3>2. /\ \A k : k \in Named(longer, r, GraphNodes) <=> k \in Named(spans, q, GraphNodes) \/ k = r
          /\ Cardinality(Named(longer, r, GraphNodes)) = Cardinality(Named(spans, q, GraphNodes)) + 1
      BY <3>1, NamedOneMore
    <3> QED BY <3>2
  <2>2. \A k \in 1..q : spans[k].span.seq \in 0..(q - 1) /\ spans[k].span.start \in Int
    BY SpanTyped
  <2> QED BY <2>1, <2>2, TurnTaken DEF Told
<1>5. CallsTold(longer, r, tools)
  BY <1>1, NoCall DEF Told
<1>6. ASSUME NEW name \in GraphNodes
      PROVE  Cardinality(Named(longer, r, {name}))
               = Cardinality(Named(spans, q, {name})) + (IF name = node THEN 1 ELSE 0)
  <2>1. CASE name = node
    <3>1. longer[r].span.node \in {name}
      BY <2>1
    <3>2. Cardinality(Named(longer, r, {name})) = Cardinality(Named(spans, q, {name})) + 1
      BY <3>1, NamedOneMore
    <3> QED BY <2>1, <3>2
  <2>2. CASE name # node
    <3>1. longer[r].span.node \notin {name}
      BY <2>2
    <3>2. Named(longer, r, {name}) = Named(spans, q, {name})
      BY <3>1, NamedNoMore
    <3>3. Cardinality(Named(spans, q, {name})) \in Nat
      BY NamedFinite
    <3> QED BY <2>2, <3>2, <3>3
  <2> QED BY <2>1, <2>2
<1> QED BY <1>2, <1>3, <1>4, <1>5, <1>6 DEF Told, OneRunMore

\* A node that calls a tool has run.
LEMMA ToolTold ==
    ASSUME NEW q \in Nat, NEW r \in Nat, r = q + 1, NEW t \in Nat, t = r + 1,
           NEW n \in Nat, NEW m \in Nat, m = n + 1, NEW l \in Nat, l = m + 1,
           NEW spans, NEW longer, NEW top,
           NEW steady, NEW time \in Int, NEW later \in Int,
           NEW tools, NEW more, NEW node \in GraphNodes, NEW tool \in AgentTools,
           SpansOf(spans, n, q), Told(spans, q, n, top, steady, time, tools),
           Extends(longer, spans, q), Longer(more, tools, tool),
           ToolAdds(longer, r, l, tool),
           NodeAdds(longer, t, q, top, m, node, time, later)
    PROVE  /\ Told(longer, t, l, top, steady, later, more)
           /\ OneRunMore(longer, t, spans, q, node)
<1> USE DEF NodeAdds, ToolAdds
<1>1. node \notin AgentTools /\ tool \notin GraphNodes /\ Extends(longer, longer, r)
  BY NamesApart DEF Extends
<1>2. IdsApart(longer, t, top, l)
  <2>1. ASSUME NEW k \in (q + 1)..(q + 2)
        PROVE  \E j \in (n + 1)..(n + 2) : longer[k].id = SpanId(j)
    <3>1. k = r \/ k = t
      OBVIOUS
    <3>2. n + 1 \in (n + 1)..(n + 2) /\ n + 2 \in (n + 1)..(n + 2)
      OBVIOUS
    <3> QED BY <3>1, <3>2
  <2>2. IdsApart(longer, q + 2, top, n + 2)
    BY <2>1, IdsStayApart DEF Told
  <2>3. t = q + 2 /\ l = n + 2
    OBVIOUS
  <2> QED BY <2>2, <2>3
<1>3. Family(longer, t, top)
  <2>1. ASSUME NEW k \in (q + 1)..(q + 2)
        PROVE  NodeSpan(longer[k].span, top) \/ ToolSpan(longer, k, q + 2)
    <3>1. CASE k = r
      <4>1. k + 1 = t /\ k + 1 <= q + 2
        BY <3>1
      <4>2. ToolSpan(longer, k, q + 2)
        BY <3>1, <4>1 DEF ToolSpan
      <4> QED BY <4>2
    <3>2. CASE k = t
      BY <3>2
    <3> QED BY <3>1, <3>2
  <2>2. Family(longer, q + 2, top)
    BY <2>1, FamilyGrows DEF Told
  <2>3. t = q + 2
    OBVIOUS
  <2> QED BY <2>2, <2>3
<1>4. InTurn(longer, t, steady, later)
  <2>1. Named(longer, r, GraphNodes) = Named(spans, q, GraphNodes)
    <3>1. longer[r].span.node \notin GraphNodes
      BY <1>1
    <3> QED BY <3>1, NamedNoMore
  <2>2. \A k : k \in Named(longer, t, GraphNodes) <=> k \in Named(longer, r, GraphNodes) \/ k = t
    <3>1. longer[t].span.node \in GraphNodes
      OBVIOUS
    <3>2. /\ \A k : k \in Named(longer, t, GraphNodes) <=> k \in Named(longer, r, GraphNodes) \/ k = t
          /\ Cardinality(Named(longer, t, GraphNodes)) = Cardinality(Named(longer, r, GraphNodes)) + 1
      BY <1>1, <3>1, NamedOneMore
    <3> QED BY <3>2
  <2>3. \A k \in 1..q : spans[k].span.seq \in 0..(q - 1) /\ spans[k].span.start \in Int
    BY SpanTyped
  <2>4. InTurn(spans, q, steady, time) /\ t > q
    BY DEF Told
  <2> QED BY <2>1, <2>2, <2>3, <2>4, TurnTaken
<1>5. CallsTold(longer, t, more)
  <2>1. CallsTold(longer, r, more)
    BY OneCall DEF Told
  <2>2. longer[t].span.node \notin AgentTools
    BY <1>1
  <2> QED BY <1>1, <2>1, <2>2, NoCall
<1>6. ASSUME NEW name \in GraphNodes
      PROVE  Cardinality(Named(longer, t, {name}))
               = Cardinality(Named(spans, q, {name})) + (IF name = node THEN 1 ELSE 0)
  <2>1. Named(longer, r, {name}) = Named(spans, q, {name})
    <3>1. longer[r].span.node \notin {name}
      BY <1>1
    <3> QED BY <3>1, NamedNoMore
  <2>2. CASE name = node
    <3>1. longer[t].span.node \in {name}
      BY <2>2
    <3>2. Cardinality(Named(longer, t, {name})) = Cardinality(Named(longer, r, {name})) + 1
      BY <1>1, <3>1, NamedOneMore
    <3> QED BY <2>1, <2>2, <3>2
  <2>3. CASE name # node
    <3>1. longer[t].span.node \notin {name}
      BY <2>3
    <3>2. Named(longer, t, {name}) = Named(longer, r, {name})
      BY <1>1, <3>1, NamedNoMore
    <3>3. Cardinality(Named(spans, q, {name})) \in Nat
      BY NamedFinite
    <3> QED BY <2>1, <2>3, <3>2, <3>3
  <2> QED BY <2>2, <2>3
<1> QED BY <1>2, <1>3, <1>4, <1>5, <1>6 DEF Told, OneRunMore
-----------------------------------------------------------------------------
(* The story is kept. *)

LEMMA PlainTells ==
    ASSUME IInv, StoryOK, NEW node \in GraphNodes, NEW successor \in Running,
           NEW kind \in Kinds, kind = IF node = "escalate" THEN "human" ELSE "chain",
           Plain(node, kind, successor)
    PROVE  /\ Told(exported, sequence, started, root.id, Steady, now, called)'
           /\ OneRunMore(exported', sequence', exported, sequence, node)
<1>1. Visits(node, successor) /\ PlainSpans(node, kind) /\ called' = called
  BY DEF Plain
<1>2. /\ root' = root /\ rising' = rising /\ at' = at /\ setBack' = setBack
      /\ pc = node /\ pc \in Running
  BY <1>1, VisitKeeps DEF Running, Visits
<1>3. /\ started \in Nat /\ sequence \in Nat /\ now \in Int /\ tick \in Nat
      /\ root.id \in Int /\ SpansOf(exported, started, sequence)
  BY <1>2, AtNode
<1> DEFINE x == Exported(started + 1, Span(root.id, node, kind, sequence,
                                           now + tick, now + 2 * tick))
<1>4. /\ exported' = Append(exported, x) /\ started' = started + 1
      /\ sequence' = sequence + 1 /\ now' = now + 2 * tick
  BY <1>1 DEF PlainSpans
<1>5. /\ x.id = SpanId(started + 1) /\ NodeSpan(x.span, root.id)
      /\ x.span.node = node /\ x.span.seq = sequence /\ x.span.start = now + tick
  BY DEF Exported, Span, NodeSpan
<1> HIDE DEF x
<1>6. exported \in Seq(Entries) /\ Len(exported) = sequence
  BY <1>3 DEF SpansOf
<1>7. exported'[sequence'] = x /\ Extends(exported', exported, sequence)
  BY <1>3, <1>4, <1>6 DEF Extends
<1>8. Told(exported, sequence, started, root.id, Steady, now, called)
  BY <1>2 DEF StoryOK
<1>9. PICK q \in Nat, r \in Nat, n \in Nat, m \in Nat, time \in Int, later \in Int :
          /\ q = sequence /\ r = sequence' /\ n = started /\ m = started'
          /\ time = now /\ later = now'
  BY <1>3, <1>4
<1>10. NodeAdds(exported', r, q, root.id, m, node, time, later)
  <2>1. exported'[r] = x /\ later = time + 2 * tick /\ x.span.start = time + tick
    BY <1>4, <1>5, <1>7, <1>9
  <2>2. exported'[r].span.start \in time..later
    BY <1>3, <2>1
  <2> QED BY <1>4, <1>5, <1>9, <2>1, <2>2 DEF NodeAdds
<1>11. r = q + 1 /\ m = n + 1 /\ SpansOf(exported, n, q) /\ Extends(exported', exported, q)
  BY <1>3, <1>4, <1>7, <1>9
<1>12. Told(exported, q, n, root.id, Steady, time, called)
  BY <1>8, <1>9
<1>13. /\ Told(exported', r, m, root.id, Steady, later, called)
       /\ OneRunMore(exported', r, exported, q, node)
  BY <1>10, <1>11, <1>12, NodeTold
<1>14. Told(exported, sequence, started, root.id, Steady, now, called)'
  BY <1>1, <1>2, <1>9, <1>13
     DEF Told, Steady, IdsApart, Family, InTurn, CallsTold, Named, NodeSpan, ToolSpan, SpanId
<1> QED BY <1>9, <1>13, <1>14

LEMMA ToolTells ==
    ASSUME IInv, StoryOK, NEW node \in GraphNodes, node # "escalate", NEW tool \in AgentTools,
           NEW kind \in {"tool", "unsafe_tool"}, NEW successor \in Running,
           CallsTool(node, tool, kind, successor)
    PROVE  /\ Told(exported, sequence, started, root.id, Steady, now, called)'
           /\ OneRunMore(exported', sequence', exported, sequence, node)
<1>1. /\ Visits(node, successor) /\ ToolSpans(node, tool, kind)
      /\ called' = Append(called, tool)
  BY DEF CallsTool
<1>2. /\ root' = root /\ rising' = rising /\ at' = at /\ setBack' = setBack
      /\ pc = node /\ pc \in Running
  BY <1>1, VisitKeeps DEF Running, Visits
<1>3. /\ started \in Nat /\ sequence \in Nat /\ now \in Int /\ tick \in Nat
      /\ called \in Seq(AgentTools)
      /\ root.id \in Int /\ SpansOf(exported, started, sequence)
  BY <1>2, AtNode
<1> DEFINE x == Exported(started + 2, Span(SpanId(started + 1), tool, kind, sequence + 1,
                                           now + 2 * tick, now + 3 * tick))
           y == Exported(started + 1, Span(root.id, node, "chain", sequence,
                                           now + tick, now + 4 * tick))
<1>4. /\ exported' = exported \o <<x, y>> /\ started' = started + 2
      /\ sequence' = sequence + 2 /\ now' = now + 4 * tick
  BY <1>1 DEF ToolSpans
<1>5. /\ x.id = SpanId(started + 2) /\ x.span.node = tool /\ x.span.kind = kind
      /\ x.span.parent = SpanId(started + 1)
  BY DEF Exported, Span
<1>6. /\ y.id = SpanId(started + 1) /\ NodeSpan(y.span, root.id)
      /\ y.span.node = node /\ y.span.seq = sequence /\ y.span.start = now + tick
  BY DEF Exported, Span, NodeSpan
<1> HIDE DEF x, y
<1>7. exported \in Seq(Entries) /\ Len(exported) = sequence
  BY <1>3 DEF SpansOf
<1>8. /\ exported'[sequence + 1] = x /\ exported'[sequence + 2] = y
      /\ Extends(exported', exported, sequence)
  <2>1. \A k \in 1..sequence : exported'[k] = exported[k]
    BY <1>4, <1>7
  <2>2. exported'[sequence + 1] = x
    BY <1>4, <1>7
  <2>3. exported'[sequence + 2] = y
    BY <1>4, <1>7
  <2> QED BY <2>1, <2>2, <2>3 DEF Extends
<1>9. Told(exported, sequence, started, root.id, Steady, now, called)
  BY <1>2 DEF StoryOK
<1>10. Longer(called', called, tool)
  BY <1>1, <1>3 DEF Longer
<1>11. PICK q \in Nat, r \in Nat, t \in Nat, n \in Nat, m \in Nat, l \in Nat,
            time \in Int, later \in Int :
          /\ q = sequence /\ r = sequence + 1 /\ t = sequence'
          /\ n = started /\ m = started + 1 /\ l = started'
          /\ time = now /\ later = now'
  BY <1>3, <1>4
<1>12. t = sequence + 2 /\ l = started + 2 /\ r + 1 = t
  BY <1>4, <1>11
<1>13. NodeAdds(exported', t, q, root.id, m, node, time, later)
  <2>1. exported'[t] = y /\ later = time + 4 * tick /\ y.span.start = time + tick
    BY <1>4, <1>6, <1>8, <1>11, <1>12
  <2>2. exported'[t].span.start \in time..later
    BY <1>3, <2>1
  <2> QED BY <1>6, <1>11, <2>1, <2>2 DEF NodeAdds
<1>14. ToolAdds(exported', r, l, tool)
  <2>1. exported'[r] = x /\ exported'[r + 1] = y
    BY <1>8, <1>11, <1>12
  <2> QED BY <1>5, <1>6, <1>12, <2>1 DEF ToolAdds
<1>15. /\ r = q + 1 /\ t = r + 1 /\ m = n + 1 /\ l = m + 1
       /\ SpansOf(exported, n, q) /\ Extends(exported', exported, q)
  BY <1>3, <1>8, <1>11, <1>12
<1>16. Told(exported, q, n, root.id, Steady, time, called)
  BY <1>9, <1>11
<1>17. /\ Told(exported', t, l, root.id, Steady, later, called')
       /\ OneRunMore(exported', t, exported, q, node)
  <2>1. PICK tools, more : tools = called /\ more = called'
    OBVIOUS
  <2>2. Told(exported, q, n, root.id, Steady, time, tools) /\ Longer(more, tools, tool)
    BY <1>10, <1>16, <2>1
  <2>3. /\ Told(exported', t, l, root.id, Steady, later, more)
        /\ OneRunMore(exported', t, exported, q, node)
    BY <1>13, <1>14, <1>15, <2>2, ToolTold
  <2> QED BY <2>1, <2>3
<1>18. Told(exported, sequence, started, root.id, Steady, now, called)'
  BY <1>2, <1>11, <1>17
     DEF Told, Steady, IdsApart, Family, InTurn, CallsTold, Named, NodeSpan, ToolSpan, SpanId
<1> QED BY <1>11, <1>17, <1>18

\* A node has run, and what is told of rounds and of the end moves on with it.
LEMMA NodeTells ==
    ASSUME StoryOK, NEW node \in GraphNodes, NEW successor \in Running,
           pc = node, pc' = successor, sequence \in Nat,
           Told(exported, sequence, started, root.id, Steady, now, called)',
           OneRunMore(exported', sequence', exported, sequence, node),
           \A name \in GraphNodes :
               /\ Rounds(name, node, loopCount) \in Nat /\ Rounds(name, successor, loopCount') \in Nat
               /\ Rounds(name, successor, loopCount')
                    >= Rounds(name, node, loopCount) + (IF name = node THEN 1 ELSE 0),
           \A name \in Retried :
               Rounds(name, successor, loopCount')
                 = Rounds(name, node, loopCount) + (IF name = node THEN 1 ELSE 0),
           successor = "escalate" => action' = "escalate",
           node = "escalate" => successor = "end",
           successor = "end" => (node = "escalate" <=> action' = "escalate")
    PROVE  StoryOK'
<1> DEFINE C(name) == Cardinality(Named(exported, sequence, {name}))
           D(name) == Cardinality(Named(exported', sequence', {name}))
<1>1. pc # "reconstruct" /\ pc' # "reconstruct" /\ pc \in Running /\ pc # "end"
  BY DEF Running, GraphNodes
<1>2. Place = node /\ Place' = successor
  BY <1>1 DEF Place
<1>3. /\ RunsTold(exported, sequence, node, loopCount)
      /\ EndTold(exported, sequence, node, action)
  BY <1>1, <1>2 DEF StoryOK
<1>4. /\ \A name \in GraphNodes : C(name) \in Nat /\ C(name) <= Rounds(name, node, loopCount)
      /\ \A name \in Retried : C(name) = Rounds(name, node, loopCount)
  BY <1>3, NamedFinite DEF RunsTold
<1>5. \A name \in GraphNodes : D(name) = C(name) + (IF name = node THEN 1 ELSE 0)
  BY DEF OneRunMore
<1>6. C("escalate") = 0
  BY <1>1, <1>3 DEF EndTold
<1>7. Retried \subseteq GraphNodes /\ "escalate" \in GraphNodes
  BY DEF GraphNodes, Retried
<1> HIDE DEF C, D
<1>8. \A name \in GraphNodes : D(name) <= Rounds(name, successor, loopCount')
  BY <1>4, <1>5
<1>9. \A name \in Retried : D(name) = Rounds(name, successor, loopCount')
  BY <1>4, <1>5, <1>7
<1>10. RunsTold(exported', sequence', successor, loopCount')
  BY <1>8, <1>9 DEF RunsTold, D
<1>11. D("escalate") = IF node = "escalate" THEN 1 ELSE 0
  BY <1>5, <1>6, <1>7
<1>12. EndTold(exported', sequence', successor, action')
  BY <1>11 DEF EndTold, D
<1>13. RunsTold(exported, sequence, Place, loopCount)' /\ EndTold(exported, sequence, Place, action)'
  BY <1>2, <1>10, <1>12 DEF RunsTold, EndTold, Named, Rounds, Before
<1> QED BY <1>13 DEF StoryOK

\* What NodeTells asks of rounds, from a node to the next one and to the next round.
Counts(node, successor, loops, more) ==
    /\ \A name \in GraphNodes :
           /\ Rounds(name, node, loops) \in Nat /\ Rounds(name, successor, more) \in Nat
           /\ Rounds(name, successor, more)
                >= Rounds(name, node, loops) + (IF name = node THEN 1 ELSE 0)
    /\ \A name \in Retried :
           Rounds(name, successor, more) = Rounds(name, node, loops) + (IF name = node THEN 1 ELSE 0)

LEMMA RoundGoesOn ==
    ASSUME NEW node \in GraphNodes, NEW successor \in Running, NEW loops \in Nat,
           Before(successor) = Before(node) + 1
    PROVE  Counts(node, successor, loops, loops)
<1>1. \A place \in Running : Before(place) \in Nat
  BY DEF Before
<1>2. \A name \in GraphNodes : name \in Running
  BY DEF Running
<1>3. \A name \in Retried : name \in GraphNodes /\ (Before(name) = Before(node) <=> name = node)
  BY DEF Before, GraphNodes, Retried
<1>4. ASSUME NEW name \in GraphNodes
      PROVE  /\ Rounds(name, node, loops) \in Nat /\ Rounds(name, successor, loops) \in Nat
             /\ Rounds(name, successor, loops)
                  >= Rounds(name, node, loops) + (IF name = node THEN 1 ELSE 0)
  <2>1. PICK a \in Nat, b \in Nat, c \in {0, loops} :
            a = Before(name) /\ b = Before(node) /\ c = (IF name \in Retried THEN loops ELSE 0)
    BY <1>1, <1>2
  <2>2. /\ Rounds(name, node, loops) = c + (IF a < b THEN 1 ELSE 0)
        /\ Rounds(name, successor, loops) = c + (IF a < b + 1 THEN 1 ELSE 0)
    BY <2>1 DEF Rounds
  <2>3. name = node => a = b
    BY <2>1
  <2> QED BY <2>2, <2>3
<1>5. ASSUME NEW name \in Retried
      PROVE  Rounds(name, successor, loops)
               = Rounds(name, node, loops) + (IF name = node THEN 1 ELSE 0)
  <2>1. PICK a \in Nat, b \in Nat, c \in {0, loops} :
            a = Before(name) /\ b = Before(node) /\ c = (IF name \in Retried THEN loops ELSE 0)
    BY <1>1, <1>2, <1>3
  <2>2. /\ Rounds(name, node, loops) = c + (IF a < b THEN 1 ELSE 0)
        /\ Rounds(name, successor, loops) = c + (IF a < b + 1 THEN 1 ELSE 0)
    BY <2>1 DEF Rounds
  <2>3. name = node <=> a = b
    BY <1>3, <2>1
  <2> QED BY <2>2, <2>3
<1> QED BY <1>4, <1>5 DEF Counts

LEMMA RoundAgain ==
    ASSUME NEW loops \in Nat
    PROVE  Counts("choose_action", "query_metrics", loops, loops + 1)
<1>1. ASSUME NEW name \in GraphNodes
      PROVE  /\ Rounds(name, "choose_action", loops) \in Nat
             /\ Rounds(name, "query_metrics", loops + 1) \in Nat
             /\ Rounds(name, "query_metrics", loops + 1)
                  >= Rounds(name, "choose_action", loops)
                     + (IF name = "choose_action" THEN 1 ELSE 0)
  BY DEF GraphNodes, Rounds, Before, Retried
<1>2. ASSUME NEW name \in Retried
      PROVE  Rounds(name, "query_metrics", loops + 1)
               = Rounds(name, "choose_action", loops) + (IF name = "choose_action" THEN 1 ELSE 0)
  BY DEF Rounds, Before, Retried
<1> QED BY <1>1, <1>2 DEF Counts

LEMMA StoryInit == Init => StoryOK
BY DEF Init, StoryOK, Running, GraphNodes

\* Nodes that set neither action nor retries.
LEMMA PlainStory ==
    ASSUME IInv, StoryOK, NEW node \in GraphNodes, NEW successor \in Running,
           NEW kind \in Kinds, kind = IF node = "escalate" THEN "human" ELSE "chain",
           Plain(node, kind, successor), UNCHANGED <<loopCount, action>>,
           Before(successor) = Before(node) + 1, successor # "escalate",
           node = "escalate" <=> successor = "end"
    PROVE  StoryOK'
<1>1. pc = node /\ pc' = successor /\ pc \in Running /\ pc # "reconstruct"
  BY VisitKeeps DEF Plain, Running, GraphNodes
<1>2. sequence \in Nat /\ loopCount \in Nat
  BY <1>1, AtNode
<1>3. Counts(node, successor, loopCount, loopCount')
  BY <1>2, RoundGoesOn
<1>4. node = "escalate" => action' = "escalate"
  BY <1>1 DEF StoryOK, EndTold, Place
<1> QED BY <1>1, <1>2, <1>3, <1>4, PlainTells, NodeTells DEF Counts

LEMMA ToolStory ==
    ASSUME IInv, StoryOK, NEW node \in GraphNodes, node # "escalate", NEW tool \in AgentTools,
           NEW kind \in {"tool", "unsafe_tool"}, NEW successor \in Running,
           CallsTool(node, tool, kind, successor),
           Before(successor) = Before(node) + 1, successor # "escalate",
           successor = "end" => action # "escalate"
    PROVE  StoryOK'
<1>1. pc = node /\ pc' = successor /\ pc \in Running /\ UNCHANGED <<loopCount, action>>
  BY VisitKeeps DEF CallsTool, Running
<1>2. sequence \in Nat /\ loopCount \in Nat
  BY <1>1, AtNode
<1>3. Counts(node, successor, loopCount, loopCount')
  BY <1>1, <1>2, RoundGoesOn
<1> QED BY <1>1, <1>2, <1>3, ToolTells, NodeTells DEF Counts

\* The spans told of stay where they are, while time goes on.
LEMMA StoryStays ==
    ASSUME StoryOK, pc \in Running \union {"reconstruct"}, Place' = Place,
           sequence \in Nat, Extends(exported', exported, sequence),
           UNCHANGED <<sequence, started, root, rising, called, loopCount, action, at>>,
           \A k \in 1..sequence : exported[k].span.start \in Int,
           Steady' => Steady /\ now' >= now, now \in Int, now' \in Int
    PROVE  StoryOK'
<1>1. /\ Told(exported, sequence, started, root.id, Steady, now, called)
      /\ RunsTold(exported, sequence, Place, loopCount)
      /\ EndTold(exported, sequence, Place, action)
  BY DEF StoryOK
<1>2. ASSUME NEW names, NEW k \in 0..sequence
      PROVE  Named(exported', k, names) = Named(exported, k, names)
  BY NamedStays
<1>3. \A k \in 1..sequence : exported'[k] = exported[k] /\ k \in 0..sequence
  BY DEF Extends
<1>4. IdsApart(exported, sequence, root.id, started)'
  BY <1>1, <1>3 DEF Told, IdsApart, SpanId
<1>5. Family(exported, sequence, root.id)'
  <2>1. ASSUME NEW k \in 1..sequence
        PROVE  (NodeSpan(exported[k].span, root.id) \/ ToolSpan(exported, k, sequence))'
    <3>1. NodeSpan(exported[k].span, root.id) \/ ToolSpan(exported, k, sequence)
      BY <1>1 DEF Told, Family
    <3>2. k + 1 <= sequence => k + 1 \in 1..sequence
      OBVIOUS
    <3> QED BY <1>3, <3>1, <3>2 DEF NodeSpan, ToolSpan
  <2> QED BY <2>1 DEF Family
<1>6. InTurn(exported, sequence, Steady, now)'
  <2> DEFINE N == Named(exported, sequence, GraphNodes)
  <2>1. Named(exported', sequence', GraphNodes) = N
    BY <1>2
  <2>2. \A k \in N : k \in 1..sequence
    BY DEF Named
  <2>3. InTurn(exported, sequence, Steady, now)
    BY <1>1 DEF Told
  <2>4. ASSUME NEW k \in N
        PROVE  /\ Steady' => exported'[k].span.start <= now'
               /\ \A j \in N : j < k =>
                     /\ exported'[j].span.seq < exported'[k].span.seq
                     /\ Steady' => exported'[j].span.start <= exported'[k].span.start
    <3>1. /\ Steady => exported[k].span.start <= now
          /\ \A j \in N : j < k =>
                /\ exported[j].span.seq < exported[k].span.seq
                /\ Steady => exported[j].span.start <= exported[k].span.start
      BY <2>3 DEF InTurn
    <3>2. exported'[k] = exported[k] /\ exported[k].span.start \in Int
      BY <1>3, <2>2
    <3>3. \A j \in N : exported'[j] = exported[j]
      BY <1>3, <2>2
    <3> HIDE DEF N
    <3>4. Steady' => exported'[k].span.start <= now'
      BY <3>1, <3>2
    <3> QED BY <3>1, <3>2, <3>3, <3>4
  <2> HIDE DEF N
  <2> QED BY <2>1, <2>4 DEF InTurn
<1>7. CallsTold(exported, sequence, called)'
  <2>1. /\ Named(exported', sequence', AgentTools) = Named(exported, sequence, AgentTools)
        /\ \A k \in Named(exported, sequence, AgentTools) : k \in 1..sequence
    BY <1>2 DEF Named
  <2>2. \A k \in Named(exported, sequence, AgentTools) :
            Named(exported', k, AgentTools) = Named(exported, k, AgentTools)
    BY <1>2, <1>3, <2>1
  <2>3. CallsTold(exported, sequence, called)
    BY <1>1 DEF Told
  <2> QED BY <1>3, <2>1, <2>2, <2>3 DEF CallsTold
<1>8. Told(exported, sequence, started, root.id, Steady, now, called)'
  BY <1>4, <1>5, <1>6, <1>7 DEF Told
<1>9. RunsTold(exported, sequence, Place, loopCount)'
  BY <1>1, <1>2 DEF RunsTold, Rounds, Before
<1>10. EndTold(exported, sequence, Place, action)'
  BY <1>1, <1>2 DEF EndTold
<1> QED BY <1>8, <1>9, <1>10 DEF StoryOK

LEMMA StoryRests ==
    ASSUME StoryOK, UNCHANGED <<at, pc, rising, setBack, started, root, sequence, called,
                                loopCount, action, exported, now>>
    PROVE  StoryOK'
<1>1. /\ Told(exported, sequence, started, root.id, Steady, now, called)'
           <=> Told(exported, sequence, started, root.id, Steady, now, called)
      /\ Place' = Place
  BY DEF Told, Steady, Place, IdsApart, Family, InTurn, CallsTold, Named, NodeSpan, ToolSpan, SpanId
<1>2. RunsTold(exported, sequence, Place, loopCount)'
        <=> RunsTold(exported, sequence, Place, loopCount)
  BY <1>1 DEF RunsTold, Named, Rounds, Before
<1>3. EndTold(exported, sequence, Place, action)' <=> EndTold(exported, sequence, Place, action)
  BY <1>1 DEF EndTold, Named
<1> QED BY <1>1, <1>2, <1>3 DEF StoryOK

\* Once the clock was set back, times say nothing.
LEMMA StoryUntimed ==
    ASSUME StoryOK, ~Steady', pc \in Running,
           UNCHANGED <<at, pc, rising, started, root, sequence, called, loopCount, action, exported>>
    PROVE  StoryOK'
<1>1. /\ Told(exported, sequence, started, root.id, Steady, now, called)
      /\ RunsTold(exported, sequence, Place, loopCount)
      /\ EndTold(exported, sequence, Place, action)
  BY DEF StoryOK
<1>2. InTurn(exported, sequence, Steady, now)'
  BY <1>1 DEF Told, InTurn, Named
<1>3. Told(exported, sequence, started, root.id, Steady, now, called)'
  BY <1>1, <1>2 DEF Told, IdsApart, Family, CallsTold, Named, NodeSpan, ToolSpan, SpanId
<1>4. RunsTold(exported, sequence, Place, loopCount)' /\ EndTold(exported, sequence, Place, action)'
  BY <1>1 DEF RunsTold, EndTold, Place, Named, Rounds, Before
<1> QED BY <1>3, <1>4 DEF StoryOK

LEMMA StoryStep == IInv /\ StoryOK /\ [Next]_vars => StoryOK'
<1> SUFFICES ASSUME IInv, StoryOK, [Next]_vars PROVE StoryOK'
  OBVIOUS
<1>t. GraphOK /\ PlacesOK /\ ExporterOK /\ RoundsOK
  BY DEF IInv
<1>1. CASE StartScenario
  <2>1. /\ pc' = "ingest_alert" /\ loopCount' = 0 /\ called' = <<>>
        /\ started' = started + 1 /\ rising' = rising
        /\ root' = [id |-> SpanId(started + 1), start |-> now + tick]
        /\ exported' = <<>> /\ sequence' = 0
    BY <1>1 DEF StartScenario, Begin
  <2>2. \A names : Named(exported', sequence', names) = {}
    BY <2>1 DEF Named
  <2>3. Cardinality({}) = 0 /\ Len(<<>>) = 0
    BY FS_EmptySet
  <2>4. Told(exported, sequence, started, root.id, Steady, now, called)'
    <3>1. IdsApart(exported, sequence, root.id, started)'
      <4>1. root'.id = (IF rising' THEN started' ELSE -started')
        BY <2>1 DEF SpanId
      <4>2. started' \in 1..started'
        BY <1>t, <2>1 DEF GraphOK
      <4> QED BY <2>1, <4>1, <4>2 DEF IdsApart, SpanId
    <3>2. Family(exported, sequence, root.id)'
      BY <2>1 DEF Family
    <3>3. InTurn(exported, sequence, Steady, now)' /\ CallsTold(exported, sequence, called)'
      BY <2>1, <2>2, <2>3 DEF InTurn, CallsTold
    <3> QED BY <3>1, <3>2, <3>3 DEF Told
  <2>5. Place' = "ingest_alert"
    BY <2>1 DEF Place
  <2>6. RunsTold(exported, sequence, Place, loopCount)'
    <3>1. /\ \A node \in GraphNodes : Rounds(node, "ingest_alert", 0) \in Nat
          /\ \A node \in Retried : Rounds(node, "ingest_alert", 0) = 0
      BY DEF Rounds, Before, GraphNodes, Retried
    <3>2. RunsTold(exported', sequence', "ingest_alert", 0)
      BY <2>2, <2>3, <3>1 DEF RunsTold
    <3> QED BY <2>1, <2>5, <3>2 DEF RunsTold, Named, Rounds, Before
  <2>7. EndTold(exported, sequence, Place, action)'
    BY <2>2, <2>3, <2>5 DEF EndTold
  <2> QED BY <2>4, <2>6, <2>7 DEF StoryOK
<1>2. CASE IngestAlert
  BY <1>2, PlainStory DEF IngestAlert, GraphNodes, Running, Kinds, Before
<1>3. CASE QueryMetrics
  BY <1>3, ToolStory DEF QueryMetrics, GraphNodes, AgentTools, Running, Before
<1>4. CASE CheckLogs
  BY <1>4, ToolStory DEF CheckLogs, GraphNodes, AgentTools, Running, Before
<1>5. CASE Diagnose
  BY <1>5, PlainStory DEF Diagnose, GraphNodes, Running, Kinds, Before
<1>6. CASE ChooseAction
  <2>1. PICK successor \in Running : successor = Route(action')
    BY DEF Route, Running, GraphNodes
  <2>2. Plain("choose_action", "chain", successor)
    BY <1>6, <2>1 DEF ChooseAction, Plain, Visits
  <2>3. /\ pc = "choose_action" /\ pc' = successor /\ pc \in Running
        /\ "choose_action" \in GraphNodes /\ "chain" \in Kinds
    BY <2>2 DEF Plain, Visits, Running, GraphNodes, Kinds
  <2>4. /\ Told(exported, sequence, started, root.id, Steady, now, called)'
        /\ OneRunMore(exported', sequence', exported, sequence, "choose_action")
    BY <2>2, <2>3, PlainTells
  <2>5. sequence \in Nat /\ loopCount \in Nat
    BY <2>3, AtNode
  <2>6. Scenario.action \in Actions
    <3>1. at \in 1..Len(scenarios) /\ scenarios \in Seq(Scenarios)
      BY <2>3, AtNode, PipelineAssumption
    <3>2. Scenario \in Scenarios
      BY <3>1 DEF Scenario
    <3> QED BY <3>2, ScenarioFields
  <2>7. CASE Retries
    <3>1. action' = "retry_metrics" /\ loopCount' = loopCount + 1 /\ successor = "query_metrics"
      BY <1>6, <2>1, <2>7 DEF ChooseAction, Route
    <3>2. Counts("choose_action", successor, loopCount, loopCount')
      BY <2>5, <3>1, RoundAgain
    <3> QED BY <2>3, <2>4, <2>5, <3>1, <3>2, NodeTells DEF Counts
  <2>8. CASE ~Retries
    <3>1. /\ action' = Scenario.action /\ loopCount' = loopCount
          /\ successor = (IF action' = "escalate" THEN "escalate" ELSE "execute_tool")
      BY <1>6, <2>1, <2>6, <2>8 DEF ChooseAction, Route, Actions
    <3>2. Before(successor) = Before("choose_action") + 1
      BY <3>1 DEF Before
    <3>3. Counts("choose_action", successor, loopCount, loopCount')
      BY <2>3, <2>5, <3>1, <3>2, RoundGoesOn
    <3> QED BY <2>3, <2>4, <2>5, <3>1, <3>3, NodeTells DEF Counts
  <2> QED BY <2>7, <2>8
<1>7. CASE ExecuteTool
  <2>1. PICK tool \in AgentTools, kind \in {"tool", "unsafe_tool"} :
            CallsTool("execute_tool", tool, kind, "end")
    BY <1>7 DEF ExecuteTool, AgentTools
  <2>2. pc = "execute_tool"
    BY <2>1 DEF CallsTool, Visits
  <2>3. action # "escalate"
    BY <1>t, <2>2 DEF RoundsOK, Running, GraphNodes
  <2> QED BY <2>1, <2>3, ToolStory DEF GraphNodes, Running, Before
<1>8. CASE Escalate
  BY <1>8, PlainStory DEF Escalate, GraphNodes, Running, Kinds, Before
<1>9. CASE LimitReached \/ Judge \/ ReconstructionRaises
  <2>1. pc' \in {"crashed", "finished", "next"}
    BY <1>9 DEF LimitReached, Judge, ReconstructionRaises
  <2> QED BY <2>1 DEF StoryOK, Running, GraphNodes
<1>10. CASE Load
  <2>1. /\ pc = "end" /\ pc' = "reconstruct" /\ now' = now + tick
        /\ UNCHANGED <<at, rising, setBack, started, root, sequence, called, loopCount, action>>
        /\ \E own : exported' = Append(exported, own)
    BY <1>10 DEF Load, fixed, graphVars
  <2>2. /\ sequence \in Nat /\ now \in Int /\ tick \in Nat
        /\ started \in Nat /\ SpansOf(exported, started, sequence)
    BY <2>1, AtNode DEF Running
  <2>3. exported \in Seq(Entries) /\ Len(exported) = sequence
    BY <2>2 DEF SpansOf
  <2>4. Extends(exported', exported, sequence)
    BY <2>1, <2>3 DEF Extends
  <2>5. \A k \in 1..sequence : exported[k].span.start \in Int
    BY <2>2, SpanTyped
  <2>6. Place' = Place /\ (Steady' => Steady) /\ pc \in Running
    BY <2>1 DEF Place, Steady, Running
  <2> QED BY <2>1, <2>2, <2>4, <2>5, <2>6, StoryStays
<1>11. CASE Reconstruct
  <2>1. /\ pc = "reconstruct"
        /\ UNCHANGED <<at, pc, rising, setBack, started, root, sequence, called, loopCount,
                       action, exported, now>>
    BY <1>11 DEF Reconstruct, fixed, graphVars, spanVars
  <2> QED BY <2>1, StoryRests
<1>12. CASE ClockSetBack
  <2>1. /\ pc \in Running /\ setBack' = {at}
        /\ UNCHANGED <<at, pc, rising, exported, started, root, sequence, called, loopCount,
                       action>>
    BY <1>12 DEF ClockSetBack, fixed, graphVars, Running
  <2>2. ~Steady'
    BY <2>1 DEF Steady
  <2> QED BY <2>1, <2>2, StoryUntimed
<1>13. CASE UNCHANGED vars
  BY <1>13, StoryRests DEF vars, fixed, graphVars, spanVars
<1>14. Ended => UNCHANGED vars
  BY DEF Ended
<1> QED BY <1>1, <1>2, <1>3, <1>4, <1>5, <1>6, <1>7, <1>8, <1>9, <1>10, <1>11,
           <1>12, <1>13, <1>14 DEF Next
-----------------------------------------------------------------------------
(* The hand-over to T-REx: what its proofs say of the trace they are given. *)

SpanNames == GraphNodes \union AgentTools \union {"scenario"}
Loadable == UNION {[S -> T!SpanType] : S \in {S \in SUBSET Int : IsFiniteSet(S)}}
TP == INSTANCE TraceReconstructionProofs
        WITH Ids <- Int, Names <- SpanNames, Traces <- Loadable

\* Finite sets and their cardinalities are the same there.
LEMMA SameFinite == \A S : TP!IsFiniteSet(S) <=> IsFiniteSet(S)
BY DEF IsFiniteSet, TP!IsFiniteSet

LEMMA SameCardinality == \A S : TP!Cardinality(S) = Cardinality(S)
BY DEF Cardinality, TP!Cardinality

LEMMA TrexAssumption == TP!TraceAssumption
<1>1. None \notin Int /\ MaxDepth \in Nat \ {0}
  BY PipelineAssumption
<1>2. ASSUME NEW t \in Loadable
      PROVE  /\ DOMAIN t \subseteq Int /\ IsFiniteSet(DOMAIN t)
             /\ \A s \in DOMAIN t : t[s] \in TP!SpanType
  <2>1. PICK S \in SUBSET Int : IsFiniteSet(S) /\ t \in [S -> T!SpanType]
    BY DEF Loadable
  <2>2. T!SpanType = TP!SpanType
    BY DEF T!SpanType, TP!SpanType, T!Kinds, TP!Kinds, SpanNames
  <2> QED BY <2>1, <2>2
<1>3. Int \subseteq Int
  OBVIOUS
<1>4. \A t \in Loadable : /\ DOMAIN t \subseteq Int /\ IsFiniteSet(DOMAIN t)
                         /\ \A s \in DOMAIN t : t[s] \in TP!SpanType
  BY <1>2
<1> QED BY <1>1, <1>3, <1>4, SameFinite DEF TP!TraceAssumption

\* The steps of this module's T-REx are those of the one that is proved about.
LEMMA SameSteps == T!Next => TP!Next
BY DEF T!Next, T!Start, T!Visit, T!Return, T!Sorted, T!Convert, T!Finish, T!Raise,
       T!Spans, T!Next1, T!ToVisit, T!Roots, T!Children, T!Visited, T!ExecutesBefore,
       T!LoopCount, T!LoopKey, T!Malformed, T!ParentIndex, T!StepOf, T!Valid, T!Trajectory,
       T!CompletedAt, T!LatestOf, T!EarliestOf,
       TP!Next, TP!Start, TP!Visit, TP!Return, TP!Sorted, TP!Convert, TP!Finish, TP!Raise,
       TP!Spans, TP!Next1, TP!ToVisit, TP!Roots, TP!Children, TP!Visited, TP!ExecutesBefore,
       TP!LoopCount, TP!LoopKey, TP!Malformed, TP!ParentIndex, TP!StepOf, TP!Valid,
       TP!Trajectory, TP!CompletedAt, TP!LatestOf, TP!EarliestOf

LEMMA WalkGoesOn == TP!Walked /\ T!Next => TP!Walked' /\ trace' = trace
<1>1. TP!TraceAssumption => (TP!Walked /\ [TP!Next]_(TP!vars) => TP!Walked' /\ trace' = trace)
  BY TP!WalkedStep
<1> QED BY <1>1, TrexAssumption, SameSteps

LEMMA WalkBegins == TP!Init' => TP!Walked'
<1>1. [](TP!Init => TP!Walked)
  <2>1. TP!TraceAssumption => (TP!Init => TP!Walked)
    BY TP!WalkedInit
  <2>2. TP!Init => TP!Walked
    BY <2>1, TrexAssumption
  <2> QED BY <2>2, PTL
<1> QED BY <1>1, PTL

Handed ==
    /\ sequence \in Nat /\ sequence = ran + Len(called) /\ Len(exported) = sequence + 1
    /\ \A k \in 1..sequence : exported[k] \in Entries
    /\ \A j, k \in 1..(sequence + 1) : exported[j].id = exported[k].id => j = k
    /\ exported[sequence + 1].id = root.id /\ root.id \in Int
    /\ exported[sequence + 1].span.parent = None
    /\ exported[sequence + 1].span.node = "scenario"
    /\ exported[sequence + 1].span.kind = "chain"
    /\ DOMAIN trace = {exported[k].id : k \in 1..(sequence + 1)}
    /\ \A k \in 1..(sequence + 1) : trace[exported[k].id] = exported[k].span
HandedOK == pc = "reconstruct" => Handed /\ TP!Walked

LEMMA LoadHands ==
    ASSUME IInv, StoryOK, Load
    PROVE  HandedOK'
<1> DEFINE own == [id |-> root.id,
                   span |-> Span(None, "scenario", "chain", 1000000000, root.start, now + tick)]
           spans == Append(exported, own)
           n == sequence + 1
           With(id) == CHOOSE k \in DOMAIN spans : spans[k].id = id
           ids == {spans[k].id : k \in DOMAIN spans}
<1>1. /\ pc = "end" /\ pc' = "reconstruct" /\ exported' = spans
      /\ trace' = [id \in ids |-> spans[With(id)].span]
      /\ phase' = "loaded" /\ order' = <<>> /\ path' = <<>>
      /\ loopCounts' = [k \in {} |-> 0] /\ steps' = <<>> /\ result' = None
      /\ UNCHANGED <<root, sequence, ran, called>>
  BY DEF Load, graphVars
<1>2. /\ sequence \in Nat /\ started \in Nat /\ now \in Int /\ tick \in Nat
      /\ SpansOf(exported, started, sequence)
  BY <1>1, AtNode DEF Running
<1>3. root \in [id : Int, start : Int] /\ sequence = ran + Len(called)
  BY <1>1 DEF IInv, ExporterOK, Running
<1>4. exported \in Seq(Entries) /\ Len(exported) = sequence
  BY <1>2 DEF SpansOf
<1>5. /\ own.id = root.id /\ own.span.parent = None /\ own.span.node = "scenario"
      /\ own.span.kind = "chain"
  BY DEF Span
<1>6. own.span \in T!SpanType
  <2>1. PICK big \in Int : big = 1000000000
    OBVIOUS
  <2>2. own.span = [parent |-> None, node |-> "scenario", kind |-> "chain", seq |-> big,
                    start |-> root.start, end |-> now + tick]
    BY <2>1 DEF Span
  <2>3. root.start \in Int /\ now + tick \in Int
    BY <1>2, <1>3
  <2> HIDE DEF own
  <2> QED BY <2>2, <2>3 DEF T!SpanType, T!Kinds
<1> HIDE DEF own
<1>7. /\ DOMAIN spans = 1..n /\ Len(spans) = n /\ spans[n] = own
      /\ \A k \in 1..sequence : spans[k] = exported[k]
  BY <1>2, <1>4
<1> HIDE DEF spans
<1>8. \A k \in 1..n : k \in 1..sequence \/ k = n
  BY <1>2
<1>9. \A k \in 1..sequence : spans[k] \in Entries /\ spans[k].id # root.id
  <2>1. \A k \in 1..sequence : exported[k] \in Entries
    BY <1>2, SpanTyped
  <2>2. \A k \in 1..sequence : exported[k].id # root.id
    BY <1>1 DEF StoryOK, Told, IdsApart, Running
  <2> QED BY <1>7, <2>1, <2>2
<1>10. ASSUME NEW j \in 1..n, NEW k \in 1..n, spans[j].id = spans[k].id
       PROVE  j = k
  <2>1. j \in 1..sequence /\ k \in 1..sequence => j = k
    BY <1>2, <1>4, <1>7, <1>10 DEF SpansOf
  <2> QED BY <1>5, <1>7, <1>8, <1>9, <1>10, <2>1
<1>11. ASSUME NEW k \in 1..n
       PROVE  trace'[spans[k].id] = spans[k].span
  <2>1. With(spans[k].id) = k
    BY <1>7, <1>10
  <2>2. spans[k].id \in ids
    BY <1>7
  <2> QED BY <1>1, <2>1, <2>2
<1>12. DOMAIN trace' = {spans[k].id : k \in 1..n}
  BY <1>1, <1>7
<1>13. \A k \in 1..n : spans[k].id \in Int /\ spans[k].span \in T!SpanType
  <2>1. ASSUME NEW k \in 1..sequence PROVE spans[k].id \in Int /\ spans[k].span \in T!SpanType
    BY <1>9 DEF Entries, T!SpanType, T!Kinds
  <2> QED BY <1>3, <1>5, <1>6, <1>7, <1>8, <2>1
<1>14. trace' \in Loadable
  <2> DEFINE S == {spans[k].id : k \in 1..n}
  <2>1. S \in SUBSET Int
    BY <1>13
  <2>2. IsFiniteSet(S)
    <3> DEFINE f == [k \in 1..n |-> spans[k].id]
    <3>1. f \in Surjection(1..n, S)
      BY DEF Surjection
    <3>2. IsFiniteSet(1..n)
      BY <1>2, FS_Interval
    <3> HIDE DEF f, S
    <3> QED BY <3>1, <3>2, FS_Surjection
  <2>3. trace' \in [S -> T!SpanType]
    BY <1>1, <1>7, <1>11, <1>13
  <2> QED BY <2>1, <2>2, <2>3 DEF Loadable
<1>15. TP!Init'
  BY <1>1, <1>14 DEF TP!Init
<1> HIDE DEF ids, With
<1>16. Handed'
  <2>1. exported' = spans /\ sequence' = sequence /\ root' = root /\ ran' = ran /\ called' = called
    BY <1>1
  <2>2. \A k \in 1..sequence : spans[k] \in Entries
    BY <1>9
  <2>3. \A j, k \in 1..n : spans[j].id = spans[k].id => j = k
    BY <1>10
  <2>4. \A k \in 1..n : trace'[spans[k].id] = spans[k].span
    BY <1>11
  <2>5. spans[n].id = root.id /\ root.id \in Int /\ Len(spans) = n
    BY <1>3, <1>5, <1>7
  <2>6. /\ spans[n].span.parent = None /\ spans[n].span.node = "scenario"
        /\ spans[n].span.kind = "chain"
    BY <1>5, <1>7
  <2> QED BY <1>2, <1>3, <1>12, <2>1, <2>2, <2>3, <2>4, <2>5, <2>6 DEF Handed
<1> QED BY <1>1, <1>15, <1>16, WalkBegins DEF HandedOK

LEMMA HandedInit == Init => HandedOK
BY DEF Init, HandedOK

LEMMA HandedStep == IInv /\ StoryOK /\ HandedOK /\ [Next]_vars => HandedOK'
<1> SUFFICES ASSUME IInv, StoryOK, HandedOK, [Next]_vars PROVE HandedOK'
  OBVIOUS
<1>1. CASE Load
  BY <1>1, LoadHands
<1>2. CASE Reconstruct
  <2>1. Handed /\ TP!Walked /\ T!Next
        /\ UNCHANGED <<exported, sequence, ran, called, root>>
    BY <1>2 DEF Reconstruct, HandedOK, graphVars, spanVars
  <2>2. TP!Walked' /\ trace' = trace
    BY <2>1, WalkGoesOn
  <2>3. Handed'
    BY <2>1, <2>2 DEF Handed
  <2> QED BY <2>2, <2>3 DEF HandedOK
<1>3. CASE UNCHANGED vars
  <2>1. UNCHANGED <<pc, exported, sequence, ran, called, root>> /\ UNCHANGED TP!vars
    BY <1>3 DEF vars, graphVars, spanVars, trexVars, TP!vars
  <2>2. CASE pc = "reconstruct"
    <3>1. Handed /\ TP!Walked
      BY <2>2 DEF HandedOK
    <3>2. TP!Walked' /\ trace' = trace
      <4>1. TP!TraceAssumption => (TP!Walked /\ [TP!Next]_(TP!vars) => TP!Walked' /\ trace' = trace)
        BY TP!WalkedStep
      <4> QED BY <2>1, <3>1, <4>1, TrexAssumption
    <3>3. Handed'
      BY <2>1, <3>1, <3>2 DEF Handed
    <3> QED BY <3>2, <3>3 DEF HandedOK
  <2> QED BY <2>1, <2>2 DEF HandedOK
<1>4. Ended => UNCHANGED vars
  BY DEF Ended
<1>5. ASSUME Next, ~Load, ~Reconstruct, ~Ended PROVE pc' # "reconstruct"
  <2>1. CASE StartScenario
    BY <2>1 DEF StartScenario, Begin
  <2>2. CASE IngestAlert
    BY <2>2 DEF IngestAlert, Plain, Visits
  <2>3. CASE QueryMetrics \/ CheckLogs
    BY <2>3 DEF QueryMetrics, CheckLogs, CallsTool, Visits
  <2>4. CASE Diagnose \/ Escalate
    BY <2>4 DEF Diagnose, Escalate, Plain, Visits
  <2>5. CASE ChooseAction
    BY <2>5 DEF ChooseAction, Plain, Visits, Route
  <2>6. CASE ExecuteTool
    BY <2>6 DEF ExecuteTool, CallsTool, Visits
  <2>7. CASE LimitReached \/ Judge \/ ReconstructionRaises
    BY <2>7 DEF LimitReached, Judge, ReconstructionRaises
  <2>8. CASE ClockSetBack
    BY <2>8 DEF ClockSetBack, GraphNodes
  <2> QED BY <1>5, <2>1, <2>2, <2>3, <2>4, <2>5, <2>6, <2>7, <2>8 DEF Next
<1>6. pc' # "reconstruct" => HandedOK'
  BY DEF HandedOK
<1> QED BY <1>1, <1>2, <1>3, <1>4, <1>5, <1>6
-----------------------------------------------------------------------------
(* Ranks *)

Rank(S, x) == Cardinality({y \in S : y <= x})

LEMMA RankRange ==
    ASSUME NEW S, IsFiniteSet(S), S \subseteq Int, NEW x \in S
    PROVE  Rank(S, x) \in 1..Cardinality(S)
<1> DEFINE below == {y \in S : y <= x}
<1>1. below \subseteq S /\ x \in below
  OBVIOUS
<1>2. /\ IsFiniteSet(below) /\ Cardinality(below) \in Nat /\ Cardinality(S) \in Nat
      /\ Cardinality(below) <= Cardinality(S)
  BY <1>1, FS_Subset, FS_CardinalityType
<1>3. Cardinality(below) # 0
  BY <1>1, <1>2, FS_EmptySet
<1> HIDE DEF below
<1>4. Cardinality(below) \in 1..Cardinality(S)
  BY <1>2, <1>3
<1> QED BY <1>4 DEF Rank, below

LEMMA RankRises ==
    ASSUME NEW S, IsFiniteSet(S), S \subseteq Int, NEW x \in S, NEW y \in S, x < y
    PROVE  Rank(S, x) < Rank(S, y)
<1> DEFINE below == {z \in S : z <= x}
           above == {z \in S : z <= y}
<1>0. x \in Int /\ y \in Int /\ \A z \in S : z \in Int
  OBVIOUS
<1>1. below \subseteq above /\ above \subseteq S /\ y \in above /\ y \notin below
  <2>1. \A z \in S : z <= x => z <= y
    BY <1>0
  <2>2. y <= y /\ ~(y <= x)
    BY <1>0
  <2> QED BY <2>1, <2>2
<1>2. IsFiniteSet(above) /\ Cardinality(above) \in Nat
  BY <1>1, FS_Subset, FS_CardinalityType
<1>3. IsFiniteSet(below) /\ Cardinality(below) \in Nat /\ Cardinality(below) <= Cardinality(above)
      /\ (Cardinality(below) = Cardinality(above) => below = above)
  BY <1>1, <1>2, FS_Subset, FS_CardinalityType
<1>4. below # above
  BY <1>1
<1> HIDE DEF below, above
<1>5. Cardinality(below) < Cardinality(above)
  BY <1>2, <1>3, <1>4
<1> QED BY <1>5 DEF Rank, below, above

LEMMA RankTells ==
    ASSUME NEW S, IsFiniteSet(S), S \subseteq Int, NEW x \in S, NEW y \in S, Rank(S, x) = Rank(S, y)
    PROVE  x = y
<1>1. Rank(S, x) \in Int /\ x \in Int /\ y \in Int
  <2>1. Rank(S, x) \in 1..Cardinality(S) /\ Cardinality(S) \in Nat
    BY RankRange, FS_CardinalityType
  <2> QED BY <2>1
<1>2. ~(x < y)
  <2>1. x < y => Rank(S, x) < Rank(S, y)
    BY RankRises
  <2> QED BY <1>1, <2>1
<1>3. ~(y < x)
  <2>1. y < x => Rank(S, y) < Rank(S, x)
    BY RankRises
  <2> QED BY <1>1, <2>1
<1> QED BY <1>1, <1>2, <1>3

\* As many different things in 1..n as there are: all of them.
Embeds(f, S, W) == f \in [S -> W] /\ \A x, y \in S : f[x] = f[y] => x = y
Covers(f, S, W) == \A t \in W : \E x \in S : f[x] = t

LEMMA InjectiveIsOnto ==
    ASSUME NEW S, NEW W, NEW f, IsFiniteSet(S), IsFiniteSet(W), Cardinality(S) = Cardinality(W),
           Embeds(f, S, W)
    PROVE  Covers(f, S, W)
<1> USE DEF Embeds, Covers
<1> DEFINE R == {f[x] : x \in S}
<1>1. f \in Bijection(S, R)
  BY DEF Bijection, Injection, IsInjective, Surjection
<1>2. ExistsBijection(S, R)
  BY <1>1 DEF ExistsBijection
<1> HIDE DEF R
<1>3. Cardinality(R) = Cardinality(S)
  BY <1>2, FS_Bijection
<1>4. R \in SUBSET W
  BY DEF R
<1>5. R = W
  BY <1>3, <1>4, FS_Subset
<1> QED BY <1>5 DEF R

LEMMA RankOnto ==
    ASSUME NEW S, IsFiniteSet(S), S \subseteq Int, NEW k \in 1..Cardinality(S)
    PROVE  \E x \in S : Rank(S, x) = k
<1> DEFINE c == Cardinality(S)
           f == [x \in S |-> Rank(S, x)]
<1>1. c \in Nat
  BY FS_CardinalityType
<1>2. IsFiniteSet(1..c) /\ Cardinality(1..c) = c
  <2>1. Cardinality(1..c) = IF 1 > c THEN 0 ELSE c - 1 + 1
    BY <1>1, FS_Interval
  <2> QED BY <1>1, <2>1, FS_Interval
<1>3. Embeds(f, S, 1..c)
  <2>1. f \in [S -> 1..c]
    BY RankRange
  <2>2. \A x, y \in S : f[x] = f[y] => x = y
    BY RankTells
  <2> HIDE DEF f
  <2> QED BY <2>1, <2>2 DEF Embeds
<1> HIDE DEF f
<1>4. Covers(f, S, 1..c)
  <2>1. PICK W : W = 1..c
    OBVIOUS
  <2>2. IsFiniteSet(W) /\ Cardinality(S) = Cardinality(W) /\ Embeds(f, S, W)
    BY <1>2, <1>3, <2>1
  <2> HIDE DEF c
  <2>3. Covers(f, S, W)
    BY <2>2, InjectiveIsOnto
  <2> QED BY <2>1, <2>3
<1>5. \E x \in S : f[x] = k
  BY <1>4 DEF Covers
<1> QED BY <1>5 DEF f

Climbs(f, S, W) ==
    /\ S \subseteq Int /\ W \subseteq Int
    /\ f \in [S -> W] /\ Covers(f, S, W) /\ \A x, y \in S : x < y => f[x] < f[y]

\* Ranks are kept by what keeps the order.
LEMMA RankKept ==
    ASSUME NEW S, NEW W, NEW f, NEW x \in S, IsFiniteSet(S), Climbs(f, S, W)
    PROVE  Rank(W, f[x]) = Rank(S, x)
<1> USE DEF Covers, Climbs
<1> DEFINE U == {y \in S : y <= x}
           V == {t \in W : t <= f[x]}
           g == [y \in U |-> f[y]]
<1>1. \A y \in S : y \in Int /\ f[y] \in Int
  OBVIOUS
<1>2. ASSUME NEW y \in S, NEW z \in S
      PROVE  /\ y <= z <=> f[y] <= f[z]
             /\ f[y] = f[z] => y = z
  <2>1. y < z \/ y = z \/ z < y
    BY <1>1
  <2> QED BY <1>1, <2>1
<1>3. g \in [U -> V]
  BY <1>2
<1>4. \A y, z \in U : g[y] = g[z] => y = z
  BY <1>2
<1>5. \A t \in V : \E y \in U : g[y] = t
  <2>1. ASSUME NEW t \in V PROVE \E y \in U : g[y] = t
    <3>1. PICK y \in S : f[y] = t
      OBVIOUS
    <3>2. y <= x
      BY <1>2, <3>1
    <3> QED BY <3>1, <3>2
  <2> QED BY <2>1
<1>6. g \in Bijection(U, V)
  BY <1>3, <1>4, <1>5 DEF Bijection, Injection, IsInjective, Surjection
<1>7. ExistsBijection(U, V)
  BY <1>6 DEF ExistsBijection
<1>8. U \in SUBSET S
  OBVIOUS
<1> HIDE DEF U, V, g
<1>9. IsFiniteSet(U)
  BY <1>8, FS_Subset
<1>10. Cardinality(V) = Cardinality(U)
  BY <1>7, <1>9, FS_Bijection
<1> QED BY <1>10 DEF Rank, U, V
-----------------------------------------------------------------------------
(* What T-REx shows of the scenario. *)

SameNode(i, j) ==
    /\ trace[order[i]].parent = trace[order[j]].parent
    /\ trace[order[i]].node = trace[order[j]].node

\* A reconstruction that is over has a step for each span, linked and counted.
StepsShow ==
    /\ order \in Seq(DOMAIN trace) /\ Len(steps) = Len(order)
    /\ \A i, j \in 1..Len(order) : order[i] = order[j] => i = j
    /\ \A s \in DOMAIN trace : \E i \in 1..Len(order) : order[i] = s
    /\ \A i \in 1..Len(order) :
          /\ steps[i].span = order[i]
          /\ steps[i].parent \in Nat \union {None}
          /\ steps[i].parent # None => steps[i].parent < i - 1
          /\ steps[i].loop = Cardinality({j \in 1..(i - 1) : SameNode(i, j)})

LEMMA WalkShows ==
    ASSUME TP!Walked, phase = "done"
    PROVE  StepsShow /\ result = TP!Trajectory /\ TP!WalkInv /\ TP!LinksKept
<1>1. TP!IInv /\ TP!LoopInv /\ TP!WalkInv /\ TP!LinkInv
  BY DEF TP!Walked
<1>2. TP!TypeOK /\ TP!VisitedOnce /\ TP!StepsMatchSpans
  BY <1>1 DEF TP!IInv
<1>3. TP!LinksKept
  <2>1. TP!TraceAssumption => (TP!IInv /\ TP!WalkInv /\ TP!LinkInv => TP!LinksKept)
    BY TP!LinksFollow
  <2> QED BY <1>1, <2>1, TrexAssumption
<1>4. result = TP!Trajectory /\ order \in Seq(DOMAIN trace)
  BY <1>2 DEF TP!TypeOK, TP!Spans
<1>5. Len(steps) = Len(order)
  BY <1>1 DEF TP!LoopInv
<1>6. /\ \A i, j \in 1..Len(order) : order[i] = order[j] => i = j
      /\ \A s \in DOMAIN trace : \E i \in 1..Len(order) : order[i] = s
  BY <1>2 DEF TP!VisitedOnce, TP!Visited, TP!Spans
<1>7. ASSUME NEW i \in 1..Len(order)
      PROVE  /\ steps[i].span = order[i]
             /\ steps[i].parent \in Nat \union {None}
             /\ steps[i].parent # None => steps[i].parent < i - 1
             /\ steps[i].loop = Cardinality({j \in 1..(i - 1) : SameNode(i, j)})
  <2>1. /\ steps[i].span = order[i]
        /\ steps[i].parent # None => steps[i].parent < i - 1
    BY <1>2, <1>5 DEF TP!StepsMatchSpans
  <2>2. steps[i].parent \in Nat \union {None}
    <3>1. i \in 1..Len(steps)
      BY <1>5
    <3>2. PICK R : R = [span : DOMAIN trace, parent : Nat \union {None}, loop : Nat]
      OBVIOUS
    <3>3. steps \in Seq(R)
      BY <1>2, <3>2 DEF TP!TypeOK, TP!Spans
    <3>4. steps[i] \in R
      BY <3>1, <3>3
    <3> QED BY <3>2, <3>4
  <2>3. steps[i].loop = Cardinality({j \in 1..(i - 1) : SameNode(i, j)})
    <3>1. steps[i].loop = TP!Cardinality(TP!Same(i - 1, order[i]))
      BY <1>1, <1>5 DEF TP!LoopInv
    <3>2. TP!Same(i - 1, order[i]) = {j \in 1..(i - 1) : SameNode(i, j)}
      BY DEF TP!Same, TP!SameLoop, SameNode
    <3> QED BY <3>1, <3>2, SameCardinality
  <2> QED BY <2>1, <2>2, <2>3
<1> QED BY <1>1, <1>3, <1>4, <1>5, <1>6, <1>7 DEF StepsShow

\* The i-th step shows the f[i]-th span of the exporter.
Shows(f) ==
    /\ Embeds(f, 1..(sequence + 1), 1..(sequence + 1))
    /\ Covers(f, 1..(sequence + 1), 1..(sequence + 1))
    /\ Len(steps) = sequence + 1 /\ Len(order) = sequence + 1
    /\ \A i \in 1..(sequence + 1) :
          /\ order[i] = exported[f[i]].id /\ steps[i].span = order[i]
          /\ trace[order[i]] = exported[f[i]].span

LEMMA SpansShown ==
    ASSUME Handed, StepsShow
    PROVE  \E f : Shows(f)
<1> DEFINE n == sequence + 1
           ids == DOMAIN trace
           e == [k \in 1..n |-> exported[k].id]
           o == [i \in 1..Len(order) |-> order[i]]
           f == [i \in 1..n |-> CHOOSE k \in 1..n : exported[k].id = order[i]]
<1>1. /\ n \in Nat /\ sequence \in Nat
      /\ ids = {exported[k].id : k \in 1..n}
      /\ \A j, k \in 1..n : exported[j].id = exported[k].id => j = k
      /\ \A k \in 1..n : trace[exported[k].id] = exported[k].span
  BY DEF Handed
<1>2. /\ order \in Seq(ids) /\ Len(order) \in Nat
      /\ \A i, j \in 1..Len(order) : order[i] = order[j] => i = j
      /\ \A s \in ids : \E i \in 1..Len(order) : order[i] = s
      /\ \A i \in 1..Len(order) : order[i] \in ids
  BY DEF StepsShow
<1> HIDE DEF ids
<1>3. Cardinality(ids) = n
  <2>1. e \in [1..n -> ids]
    BY <1>1
  <2>2. \A j, k \in 1..n : e[j] = e[k] => j = k
    BY <1>1
  <2>3. \A s \in ids : \E k \in 1..n : e[k] = s
    BY <1>1
  <2> HIDE DEF n, e
  <2>4. e \in Bijection(1..n, ids)
    BY <2>1, <2>2, <2>3 DEF Bijection, Injection, IsInjective, Surjection
  <2>5. ExistsBijection(1..n, ids)
    BY <2>4 DEF ExistsBijection
  <2> QED BY <1>1, <2>5, FS_CountingElements
<1>4. Cardinality(ids) = Len(order)
  <2>1. o \in [1..Len(order) -> ids]
    BY <1>2
  <2>2. \A j, k \in 1..Len(order) : o[j] = o[k] => j = k
    BY <1>2
  <2>3. \A s \in ids : \E k \in 1..Len(order) : o[k] = s
    BY <1>2
  <2>4. PICK l \in Nat : l = Len(order)
    BY <1>2
  <2> HIDE DEF o
  <2>5. o \in Bijection(1..l, ids)
    BY <2>1, <2>2, <2>3, <2>4 DEF Bijection, Injection, IsInjective, Surjection
  <2>6. ExistsBijection(1..l, ids)
    BY <2>5 DEF ExistsBijection
  <2> QED BY <2>4, <2>6, FS_CountingElements
<1>5. Len(order) = n
  BY <1>3, <1>4
<1>6. ASSUME NEW i \in 1..n
      PROVE  f[i] \in 1..n /\ order[i] = exported[f[i]].id
  <2>1. order[i] \in ids
    BY <1>2, <1>5
  <2>2. \E k \in 1..n : exported[k].id = order[i]
    BY <1>1, <2>1
  <2> QED BY <2>2
<1>7. Embeds(f, 1..n, 1..n)
  <2>1. f \in [1..n -> 1..n]
    BY <1>6
  <2> HIDE DEF f, n
  <2>2. \A i, j \in 1..n : f[i] = f[j] => i = j
    BY <1>2, <1>5, <1>6
  <2> QED BY <2>1, <2>2 DEF Embeds
<1>8. Covers(f, 1..n, 1..n)
  <2> HIDE DEF f, n
  <2>1. IsFiniteSet(1..n)
    BY <1>1, FS_Interval
  <2>2. PICK S : S = 1..n
    OBVIOUS
  <2>3. IsFiniteSet(S) /\ Embeds(f, S, S)
    BY <1>7, <2>1, <2>2
  <2>4. Covers(f, S, S)
    BY <2>3, InjectiveIsOnto
  <2> QED BY <2>2, <2>4
<1>9. ASSUME NEW i \in 1..n
      PROVE  /\ order[i] = exported[f[i]].id /\ steps[i].span = order[i]
             /\ trace[order[i]] = exported[f[i]].span
  <2> HIDE DEF f, n
  <2> QED BY <1>1, <1>5, <1>6 DEF StepsShow
<1>10. Len(steps) = n
  BY <1>5 DEF StepsShow
<1> HIDE DEF f
<1>11. Shows(f)
  BY <1>5, <1>7, <1>8, <1>9, <1>10 DEF Shows
<1> QED BY <1>11

LEMMA Kinship ==
    ASSUME Handed, StoryOK, pc = "reconstruct"
    PROVE  /\ root.id \in TP!Roots
           /\ \A k \in 1..sequence :
                 \/ NodeSpan(exported[k].span, root.id) /\ exported[k].span.node \notin AgentTools
                 \/ ToolSpan(exported, k, sequence) /\ exported[k].span.node \notin GraphNodes
           /\ \A k \in 1..(sequence + 1) :
                 /\ exported[k].id \in DOMAIN trace /\ TP!Rooted(exported[k].id)
                 /\ k # sequence + 1 => trace[exported[k].id].parent \in DOMAIN trace
<1>1. /\ sequence \in Nat /\ DOMAIN trace = {exported[k].id : k \in 1..(sequence + 1)}
      /\ exported[sequence + 1].id = root.id
      /\ exported[sequence + 1].span.parent = None
      /\ \A k \in 1..(sequence + 1) : trace[exported[k].id] = exported[k].span
      /\ \A k \in 1..(sequence + 1) : exported[k].id \in Int
  <2>1. \A k \in 1..sequence : exported[k].id \in Int
    BY DEF Handed, Entries
  <2>2. \A k \in 1..(sequence + 1) : k \in 1..sequence \/ k = sequence + 1
    BY DEF Handed
  <2> QED BY <2>1, <2>2 DEF Handed
<1>2. TP!Spans = DOMAIN trace /\ \A s : TP!Parent(s) = trace[s].parent
  BY DEF TP!Spans, TP!Parent
<1>3. root.id \in TP!Roots
  <2>1. sequence + 1 \in 1..(sequence + 1)
    BY <1>1
  <2>2. root.id \in DOMAIN trace /\ trace[root.id].parent = None
    BY <1>1, <2>1
  <2>3. None \notin DOMAIN trace
    BY <1>1, PipelineAssumption
  <2> QED BY <1>2, <2>2, <2>3 DEF TP!Roots
<1>4. TP!Rooted(root.id) /\ root.id \in DOMAIN trace
  BY <1>2, <1>3 DEF TP!Rooted, TP!Roots
<1>5. Family(exported, sequence, root.id)
  BY DEF StoryOK, Told, Running, GraphNodes
<1>6. ASSUME NEW k \in 1..sequence
      PROVE  \/ NodeSpan(exported[k].span, root.id) /\ exported[k].span.node \notin AgentTools
             \/ ToolSpan(exported, k, sequence) /\ exported[k].span.node \notin GraphNodes
  BY <1>5, NamesApart DEF Family, NodeSpan, ToolSpan
<1>7. \A k \in 1..sequence : k \in 1..(sequence + 1)
  BY <1>1
<1>8. ASSUME NEW k \in 1..sequence, NodeSpan(exported[k].span, root.id)
      PROVE  /\ exported[k].id \in DOMAIN trace /\ TP!Rooted(exported[k].id)
             /\ trace[exported[k].id].parent \in DOMAIN trace
  <2>1. exported[k].id \in DOMAIN trace /\ trace[exported[k].id].parent = root.id
    BY <1>1, <1>7, <1>8 DEF NodeSpan
  <2>2. TP!Rooted(exported[k].id)
    BY <1>2, <1>4, <2>1, TrexAssumption, TP!RootedBelow
  <2> QED BY <1>4, <2>1, <2>2
<1>9. ASSUME NEW k \in 1..sequence, ToolSpan(exported, k, sequence)
      PROVE  /\ exported[k].id \in DOMAIN trace /\ TP!Rooted(exported[k].id)
             /\ trace[exported[k].id].parent \in DOMAIN trace
  <2>1. /\ exported[k].id \in DOMAIN trace
        /\ trace[exported[k].id].parent = exported[k + 1].id
    BY <1>1, <1>7, <1>9 DEF ToolSpan
  <2>2. k + 1 \in 1..sequence /\ exported[k + 1].span.node \in GraphNodes
    BY <1>1, <1>9 DEF ToolSpan
  <2>3. NodeSpan(exported[k + 1].span, root.id)
    BY <1>6, <2>2
  <2>4. exported[k + 1].id \in DOMAIN trace /\ TP!Rooted(exported[k + 1].id)
    BY <1>8, <2>2, <2>3
  <2>5. TP!Rooted(exported[k].id)
    BY <1>2, <2>1, <2>4, TrexAssumption, TP!RootedBelow
  <2> QED BY <2>1, <2>4, <2>5
<1>10. \A k \in 1..(sequence + 1) : k \in 1..sequence \/ k = sequence + 1
  BY <1>1
<1>11. ASSUME NEW k \in 1..(sequence + 1)
       PROVE  /\ exported[k].id \in DOMAIN trace /\ TP!Rooted(exported[k].id)
              /\ k # sequence + 1 => trace[exported[k].id].parent \in DOMAIN trace
  BY <1>1, <1>4, <1>6, <1>8, <1>9, <1>10
<1> QED BY <1>3, <1>6, <1>11

\* Only the first step has no parent.
LEMMA RootFirst ==
    ASSUME Handed, StoryOK, pc = "reconstruct", phase = "done", StepsShow, TP!WalkInv, TP!LinksKept,
           NEW f, Shows(f), NEW i \in 1..(sequence + 1)
    PROVE  steps[i].parent = None <=> i = 1
<1>1. /\ sequence \in Nat /\ exported[sequence + 1].id = root.id
      /\ \A k \in 1..(sequence + 1) : k \in 1..sequence \/ k = sequence + 1
  BY DEF Handed
<1>2. /\ Len(steps) = sequence + 1 /\ Len(order) = sequence + 1
      /\ \A j \in 1..(sequence + 1) : f[j] \in 1..(sequence + 1) /\ order[j] = exported[f[j]].id
  BY DEF Shows, Embeds
<1>3. ASSUME NEW j \in 1..(sequence + 1)
      PROVE  /\ order[j] \in DOMAIN trace /\ TP!Rooted(order[j])
             /\ f[j] # sequence + 1 => trace[order[j]].parent \in DOMAIN trace
  BY <1>2, Kinship
<1>4. ASSUME i # 1 PROVE trace[order[i]].parent \in DOMAIN trace
  <2>1. CASE f[i] # sequence + 1
    BY <1>3, <2>1
  <2>2. CASE f[i] = sequence + 1
    <3> DEFINE first == 1
    <3>1. 1 \in 1..(sequence + 1) /\ f[1] # f[i]
      BY <1>1, <1>4 DEF Shows, Embeds
    <3>2. TP!Parent(order[1]) \in TP!Spans /\ TP!Rooted(order[1])
      BY <1>3, <2>2, <3>1 DEF TP!Parent, TP!Spans
    <3>3. PICK j \in 1..(1 - 1) : order[j] = TP!Parent(order[1])
      BY <1>2, <3>1, <3>2 DEF TP!WalkInv, TP!ParentFirst
    <3> QED BY <3>3
  <2> QED BY <2>1, <2>2
<1>5. ASSUME i # 1 PROVE steps[i].parent # None
  <2>1. trace[order[i]].parent \in TP!Spans /\ TP!Rooted(order[i])
    BY <1>3, <1>4, <1>5 DEF TP!Spans
  <2> QED BY <1>2, <2>1 DEF TP!LinksKept
<1>6. ASSUME i = 1 PROVE steps[i].parent = None
  <2>1. i \in 1..Len(order)
    BY <1>2
  <2>2. /\ steps[i].parent \in Nat \union {None}
        /\ steps[i].parent # None => steps[i].parent < i - 1
    BY <2>1 DEF StepsShow
  <2> QED BY <1>6, <2>2
<1> QED BY <1>5, <1>6

\* Tools keep the order of their calls, unless the clock was set back.
LEMMA ToolsInTurn ==
    ASSUME Handed, StoryOK, pc = "reconstruct", StepsShow, TP!WalkInv, Steady,
           NEW f, Shows(f), NEW i \in 1..(sequence + 1), NEW j \in 1..(sequence + 1),
           f[i] \in Named(exported, sequence, AgentTools),
           f[j] \in Named(exported, sequence, AgentTools), f[i] < f[j]
    PROVE  i < j
<1>1. PICK k \in 1..sequence, l \in 1..sequence, n \in Nat :
          /\ k = f[i] /\ l = f[j] /\ k < l /\ n = sequence + 1
          /\ exported[k].span.node \in AgentTools /\ exported[l].span.node \in AgentTools
  BY DEF Named, Handed
<1>2. /\ sequence \in Nat /\ n = sequence + 1
      /\ \A m \in 1..n : trace[exported[m].id] = exported[m].span
      /\ \A m \in 1..sequence : m \in 1..n
  BY <1>1 DEF Handed
<1>3. /\ Len(order) = n
      /\ order[i] = exported[k].id /\ order[j] = exported[l].id
      /\ i \in 1..n /\ j \in 1..n
  BY <1>1 DEF Shows
<1>4. ToolSpan(exported, k, sequence) /\ ToolSpan(exported, l, sequence)
  BY <1>1, Kinship
<1>5. /\ k + 1 \in 1..sequence /\ l + 1 \in 1..sequence /\ k + 1 < l + 1
      /\ exported[k + 1].span.node \in GraphNodes /\ exported[l + 1].span.node \in GraphNodes
      /\ exported[k].span.parent = exported[k + 1].id
      /\ exported[l].span.parent = exported[l + 1].id
  BY <1>1, <1>2, <1>4 DEF ToolSpan
<1>6. PICK b \in 1..sequence, c \in 1..sequence : b = k + 1 /\ c = l + 1
  BY <1>5
<1>7. NodeSpan(exported[b].span, root.id) /\ NodeSpan(exported[c].span, root.id)
  BY <1>5, <1>6, Kinship
<1>8. /\ b \in Named(exported, sequence, GraphNodes) /\ c \in Named(exported, sequence, GraphNodes)
      /\ b < c
  BY <1>5, <1>6 DEF Named
<1>9. InTurn(exported, sequence, Steady, now)
  BY DEF StoryOK, Told, Running, GraphNodes
<1>10. /\ exported[b].span.seq < exported[c].span.seq
       /\ exported[b].span.start <= exported[c].span.start
  BY <1>8, <1>9 DEF InTurn
<1>11. /\ trace[exported[b].id] = exported[b].span /\ trace[exported[c].id] = exported[c].span
       /\ trace[exported[k].id] = exported[k].span /\ trace[exported[l].id] = exported[l].span
  BY <1>2
<1>12. TP!ExecutesBefore(exported[b].id, exported[c].id)
  <2>1. /\ exported[b].span.start \in Int /\ exported[c].span.start \in Int
        /\ exported[b].span.seq \in Int /\ exported[c].span.seq \in Int
    <3>1. exported[b] \in Entries /\ exported[c] \in Entries
      BY DEF Handed
    <3>2. /\ exported[b].span.start \in Int /\ exported[b].span.seq \in Nat
      BY <3>1 DEF Entries
    <3>3. /\ exported[c].span.start \in Int /\ exported[c].span.seq \in Nat
      BY <3>1 DEF Entries
    <3> QED BY <3>2, <3>3
  <2> QED BY <1>10, <1>11, <2>1 DEF TP!ExecutesBefore
<1>13. TP!Siblings(exported[b].id, exported[c].id)
  BY <1>7, <1>11 DEF TP!Siblings, TP!Parent, NodeSpan
<1>14. PICK m \in 1..n : f[m] = c
  BY <1>2 DEF Shows, Covers
<1>15. order[m] = exported[c].id
  BY <1>1, <1>14 DEF Shows
<1>16. \A x \in 1..n : exported[x].id \in TP!Spans /\ TP!Rooted(exported[x].id)
  BY <1>2, Kinship DEF TP!Spans
<1>17. exported[b].id \in TP!Ancestors(exported[k].id)
  <2>1. TP!Parent(exported[k].id) = exported[b].id
    BY <1>5, <1>6, <1>11 DEF TP!Parent
  <2> QED BY <1>2, <1>16, <2>1, TrexAssumption, TP!ParentIsAncestor
<1>18. \A x, y \in 1..n : order[x] = order[y] => x = y
  BY <1>3 DEF StepsShow
<1>19. i < m
  <2>1. PICK x \in 1..(m - 1) : order[x] = exported[k].id
    BY <1>2, <1>3, <1>12, <1>13, <1>15, <1>16, <1>17 DEF TP!WalkInv, TP!SubtreeFirst
  <2>2. x \in 1..n
    OBVIOUS
  <2> QED BY <1>3, <1>18, <2>1, <2>2
<1>20. m < j
  <2>1. TP!Parent(order[j]) = exported[c].id /\ TP!Rooted(order[j])
    BY <1>2, <1>3, <1>5, <1>6, <1>11, <1>16 DEF TP!Parent
  <2>2. PICK x \in 1..(j - 1) : order[x] = exported[c].id
    BY <1>2, <1>3, <1>16, <2>1 DEF TP!WalkInv, TP!ParentFirst
  <2>3. x \in 1..n
    BY <1>2
  <2> QED BY <1>15, <1>18, <2>2, <2>3
<1> QED BY <1>2, <1>19, <1>20

\* The steps that show spans of these names.
Showing(f, names) == {i \in 1..(sequence + 1) : f[i] \in Named(exported, sequence, names)}

LEMMA ShowingAll ==
    ASSUME Handed, NEW f, Shows(f), NEW names
    PROVE  /\ IsFiniteSet(Showing(f, names)) /\ Showing(f, names) \subseteq Int
           /\ Showing(f, names) \subseteq 1..(sequence + 1)
           /\ Cardinality(Showing(f, names)) = Cardinality(Named(exported, sequence, names))
           /\ IsFiniteSet(Named(exported, sequence, names))
<1> DEFINE S == Showing(f, names)
           N == Named(exported, sequence, names)
           g == [i \in S |-> f[i]]
<1>1. sequence \in Nat
  BY DEF Handed
<1>2. S \subseteq 1..(sequence + 1) /\ S \subseteq Int /\ \A i \in S : f[i] \in N
  BY <1>1 DEF Showing
<1>3. IsFiniteSet(S)
  <2>1. IsFiniteSet(1..(sequence + 1))
    BY <1>1, FS_Interval
  <2> HIDE DEF S
  <2> QED BY <1>2, <2>1, FS_Subset
<1>4. IsFiniteSet(N) /\ N \subseteq 1..sequence
  BY <1>1, NamedFinite DEF Named
<1>5. g \in [S -> N] /\ \A i, j \in S : g[i] = g[j] => i = j
  BY <1>2 DEF Shows, Embeds
<1>6. \A k \in N : \E i \in S : g[i] = k
  <2>1. ASSUME NEW k \in N PROVE \E i \in S : g[i] = k
    <3>1. k \in 1..(sequence + 1)
      BY <1>1, <1>4
    <3>2. PICK i \in 1..(sequence + 1) : f[i] = k
      BY <3>1 DEF Shows, Covers
    <3>3. i \in S
      BY <3>2 DEF Showing
    <3> QED BY <3>2, <3>3
  <2> QED BY <2>1
<1> HIDE DEF S, N, g
<1>7. g \in Bijection(S, N)
  BY <1>5, <1>6 DEF Bijection, Injection, IsInjective, Surjection
<1>8. ExistsBijection(S, N)
  BY <1>7 DEF ExistsBijection
<1>9. Cardinality(S) = Cardinality(N)
  BY <1>3, <1>8, FS_Bijection
<1> QED BY <1>2, <1>3, <1>4, <1>9 DEF S, N

\* What a step shows of a span exported by the graph.
LEMMA StepShows ==
    ASSUME Handed, NEW f, Shows(f), NEW i \in 1..(sequence + 1)
    PROVE  /\ f[i] \in 1..(sequence + 1) /\ trace[order[i]] = exported[f[i]].span
           /\ f[i] \in 1..sequence \/ f[i] = sequence + 1
<1>1. f[i] \in 1..(sequence + 1) /\ trace[order[i]] = exported[f[i]].span
  BY DEF Shows, Embeds
<1>2. \A k \in 1..(sequence + 1) : k \in 1..sequence \/ k = sequence + 1
  BY DEF Handed
<1> QED BY <1>1, <1>2

LEMMA LoopOfNode ==
    ASSUME Handed, StoryOK, pc = "reconstruct", StepsShow,
           NEW f, Shows(f), NEW name \in GraphNodes, NEW i \in Showing(f, {name})
    PROVE  steps[i].loop = Rank(Showing(f, {name}), i) - 1
<1> DEFINE S == Showing(f, {name})
           below == {y \in S : y <= i}
           L == {j \in 1..(i - 1) : SameNode(i, j)}
<1>1. /\ IsFiniteSet(S) /\ S \subseteq 1..(sequence + 1) /\ i \in S
      /\ sequence \in Nat /\ i \in 1..(sequence + 1) /\ Len(order) = sequence + 1
  BY ShowingAll DEF Handed, Shows
<1>2. \A j \in 1..(sequence + 1) :
          j \in S <=> f[j] \in 1..sequence /\ exported[f[j]].span.node = name
  BY DEF Showing, Named
<1>3. "scenario" \notin GraphNodes /\ name \notin AgentTools
  BY NamesApart DEF GraphNodes
<1>4. ASSUME NEW j \in S PROVE trace[order[j]].parent = root.id /\ trace[order[j]].node = name
  <2>1. /\ f[j] \in 1..sequence /\ exported[f[j]].span.node = name
        /\ trace[order[j]] = exported[f[j]].span
    BY <1>1, <1>2, StepShows
  <2>2. NodeSpan(exported[f[j]].span, root.id)
    BY <2>1, Kinship
  <2> QED BY <2>1, <2>2 DEF NodeSpan
<1>5. ASSUME NEW j \in 1..(sequence + 1), trace[order[j]].node = name PROVE j \in S
  <2>1. trace[order[j]] = exported[f[j]].span
    BY StepShows
  <2>2. f[j] # sequence + 1
    BY <1>3, <1>5, <2>1 DEF Handed
  <2> QED BY <1>2, <1>5, <2>1, <2>2, StepShows
<1>6. L = below \ {i}
  <2>1. ASSUME NEW j \in L PROVE j \in below \ {i}
    <3>1. j \in 1..(sequence + 1) /\ j <= i /\ j # i /\ SameNode(i, j)
      BY <1>1
    <3>2. j \in S
      BY <1>1, <1>4, <1>5, <3>1 DEF SameNode
    <3> QED BY <3>1, <3>2
  <2>2. ASSUME NEW j \in below, j # i PROVE j \in L
    <3>1. j \in S /\ j \in 1..(sequence + 1) /\ j <= i
      BY <1>1
    <3>2. j \in 1..(i - 1)
      BY <1>1, <2>2, <3>1
    <3>3. SameNode(i, j)
      BY <1>1, <1>4, <3>1 DEF SameNode
    <3> QED BY <3>2, <3>3
  <2> HIDE DEF L, below
  <2> QED BY <2>1, <2>2, <1>1 DEF L
<1>7. below \subseteq S /\ i \in below
  BY <1>1
<1>8. steps[i].loop = Cardinality(L)
  BY <1>1 DEF StepsShow
<1>9. Cardinality(below) = Rank(S, i)
  BY DEF Rank
<1> HIDE DEF below, L, S
<1>10. IsFiniteSet(below)
  BY <1>1, <1>7, FS_Subset
<1>11. Cardinality(below \ {i}) = Cardinality(below) - 1
  BY <1>7, <1>10, FS_RemoveElement
<1>12. steps[i].loop = Rank(S, i) - 1
  BY <1>6, <1>8, <1>9, <1>11
<1> QED BY <1>12 DEF S

\* No tool is called twice by one run of a node.
LEMMA LoopOfTool ==
    ASSUME Handed, StoryOK, pc = "reconstruct", StepsShow,
           NEW f, Shows(f), NEW i \in 1..(sequence + 1),
           ~ (f[i] \in 1..sequence /\ exported[f[i]].span.node \in GraphNodes)
    PROVE  steps[i].loop = 0
<1>1. /\ sequence \in Nat /\ Len(order) = sequence + 1 /\ root.id \in Int
      /\ exported[sequence + 1].span.parent = None
      /\ \A k \in 1..sequence : exported[k].id \in Int /\ exported[k].id # root.id
      /\ \A j, k \in 1..(sequence + 1) : exported[j].id = exported[k].id => j = k
  <2>1. \A k \in 1..sequence : exported[k].id \in Int
    BY DEF Handed, Entries
  <2>2. \A k \in 1..sequence : exported[k].id # root.id
    BY DEF StoryOK, Told, IdsApart, Running, GraphNodes
  <2> QED BY <2>1, <2>2 DEF Handed, Shows
<1>2. ASSUME NEW j \in 1..(i - 1), SameNode(i, j) PROVE FALSE
  <2>1. j \in 1..(sequence + 1) /\ i # j
    BY <1>1
  <2>2. f[i] # f[j]
    BY <2>1 DEF Shows, Embeds
  <2>3. exported[f[i]].span.parent = exported[f[j]].span.parent
    BY <1>2, <2>1, StepShows DEF SameNode
  <2>4. ASSUME NEW k \in 1..sequence, NodeSpan(exported[k].span, root.id)
        PROVE  exported[k].span.parent = root.id /\ exported[k].span.parent # None
    BY <1>1, <2>4, PipelineAssumption DEF NodeSpan
  <2>5. ASSUME NEW k \in 1..sequence, ToolSpan(exported, k, sequence)
        PROVE  /\ k + 1 \in 1..sequence /\ exported[k].span.parent = exported[k + 1].id
               /\ exported[k].span.parent # None /\ exported[k].span.parent # root.id
    <3>1. k + 1 \in 1..sequence /\ exported[k].span.parent = exported[k + 1].id
      BY <1>1, <2>5 DEF ToolSpan
    <3> QED BY <1>1, <3>1, PipelineAssumption
  <2>6. CASE f[i] = sequence + 1
    <3>1. f[j] \in 1..sequence
      BY <2>1, <2>2, <2>6, StepShows
    <3> QED BY <1>1, <2>3, <2>4, <2>5, <2>6, <3>1, Kinship
  <2>7. CASE f[i] \in 1..sequence
    <3>1. ToolSpan(exported, f[i], sequence)
      BY <2>7, Kinship DEF NodeSpan
    <3>2. CASE f[j] = sequence + 1
      BY <1>1, <2>3, <2>5, <2>7, <3>1, <3>2
    <3>3. CASE f[j] \in 1..sequence
      <4>1. CASE NodeSpan(exported[f[j]].span, root.id)
        BY <2>3, <2>4, <2>5, <2>7, <3>1, <3>3, <4>1
      <4>2. CASE ToolSpan(exported, f[j], sequence)
        <5>1. PICK k \in 1..sequence, l \in 1..sequence : k = f[i] /\ l = f[j]
          BY <2>7, <3>3
        <5>2. /\ k + 1 \in 1..sequence /\ l + 1 \in 1..sequence
              /\ exported[k + 1].id = exported[l + 1].id
          BY <2>3, <2>5, <3>1, <4>2, <5>1
        <5>3. k + 1 = l + 1
          BY <1>1, <5>2
        <5> QED BY <2>2, <5>1, <5>3
      <4> QED BY <3>3, <4>1, <4>2, Kinship
    <3> QED BY <2>1, <3>2, <3>3, StepShows
  <2> QED BY <2>6, <2>7, StepShows
<1>3. {j \in 1..(i - 1) : SameNode(i, j)} = {}
  BY <1>2
<1>4. steps[i].loop = Cardinality({j \in 1..(i - 1) : SameNode(i, j)})
  BY <1>1 DEF StepsShow
<1> QED BY <1>3, <1>4, FS_EmptySet

\* The loops of the trajectory are the agent's own.
LEMMA LoopsShown ==
    ASSUME Handed, StoryOK, pc = "reconstruct", StepsShow, loopCount \in Nat,
           NEW f, Shows(f)
    PROVE  /\ \A i \in 1..(sequence + 1) : steps[i].loop <= loopCount
           /\ \E i \in 1..(sequence + 1) : steps[i].loop = loopCount
<1>1. RunsTold(exported, sequence, "end", loopCount)
  BY DEF StoryOK, Place
<1>2. ASSUME NEW name \in GraphNodes
      PROVE  Rounds(name, "end", loopCount) \in 1..(loopCount + 1)
  BY <1>2 DEF GraphNodes, Rounds, Before, Retried
<1>3. /\ Rounds("query_metrics", "end", loopCount) = loopCount + 1
      /\ "query_metrics" \in GraphNodes /\ "query_metrics" \in Retried
  BY DEF Rounds, Before, Retried, GraphNodes
<1>4. ASSUME NEW i \in 1..(sequence + 1) PROVE steps[i].loop <= loopCount
  <2>1. CASE f[i] \in 1..sequence /\ exported[f[i]].span.node \in GraphNodes
    <3>1. PICK name \in GraphNodes : name = exported[f[i]].span.node
      BY <2>1
    <3>2. i \in Showing(f, {name})
      BY <2>1, <3>1 DEF Showing, Named
    <3>3. steps[i].loop = Rank(Showing(f, {name}), i) - 1
      BY <3>2, LoopOfNode
    <3>4. /\ Rank(Showing(f, {name}), i) \in 1..Cardinality(Showing(f, {name}))
          /\ Cardinality(Showing(f, {name})) = Cardinality(Named(exported, sequence, {name}))
          /\ Cardinality(Showing(f, {name})) \in Nat
      BY <3>2, ShowingAll, RankRange, FS_CardinalityType
    <3>5. Cardinality(Named(exported, sequence, {name})) <= Rounds(name, "end", loopCount)
      BY <1>1 DEF RunsTold
    <3> QED BY <1>2, <3>3, <3>4, <3>5
  <2>2. CASE ~(f[i] \in 1..sequence /\ exported[f[i]].span.node \in GraphNodes)
    <3>1. steps[i].loop = 0
      BY <2>2, LoopOfTool
    <3> QED BY <3>1
  <2> QED BY <2>1, <2>2
<1>5. \E i \in 1..(sequence + 1) : steps[i].loop = loopCount
  <2> DEFINE S == Showing(f, {"query_metrics"})
  <2>1. /\ IsFiniteSet(S) /\ S \subseteq Int /\ S \subseteq 1..(sequence + 1)
        /\ Cardinality(S) = loopCount + 1
    BY <1>1, <1>3, ShowingAll DEF RunsTold
  <2>2. \A i \in S : steps[i].loop = Rank(S, i) - 1
    BY <1>3, LoopOfNode
  <2> HIDE DEF S
  <2>3. loopCount + 1 \in 1..Cardinality(S)
    BY <2>1
  <2>4. PICK i \in S : Rank(S, i) = loopCount + 1
    BY <2>1, <2>3, RankOnto
  <2> QED BY <2>1, <2>2, <2>4
<1> QED BY <1>4, <1>5

\* A human step is that of escalate.
LEMMA HumanShown ==
    ASSUME Handed, StoryOK, pc = "reconstruct", StepsShow, NEW f, Shows(f)
    PROVE  (\E i \in 1..Len(steps) : trace[steps[i].span].kind = "human") <=> action = "escalate"
<1>1. /\ Len(steps) = sequence + 1 /\ sequence \in Nat
      /\ \A i \in 1..(sequence + 1) : steps[i].span = order[i]
      /\ exported[sequence + 1].span.kind = "chain"
  BY DEF Shows, Handed
<1>2. \A k \in 1..sequence : exported[k].span.kind = "human" <=> exported[k].span.node = "escalate"
  BY Kinship, NamesApart DEF NodeSpan, ToolSpan, GraphNodes
<1>3. (\E i \in 1..Len(steps) : trace[steps[i].span].kind = "human")
         <=> \E k \in 1..sequence : exported[k].span.node = "escalate"
  <2>1. ASSUME NEW i \in 1..Len(steps), trace[steps[i].span].kind = "human"
        PROVE  \E k \in 1..sequence : exported[k].span.node = "escalate"
    <3>1. /\ exported[f[i]].span.kind = "human"
          /\ f[i] \in 1..sequence \/ f[i] = sequence + 1
      BY <1>1, <2>1, StepShows
    <3> QED BY <1>1, <1>2, <3>1
  <2>2. ASSUME NEW k \in 1..sequence, exported[k].span.node = "escalate"
        PROVE  \E i \in 1..Len(steps) : trace[steps[i].span].kind = "human"
    <3>1. k \in 1..(sequence + 1)
      BY <1>1
    <3>2. PICK i \in 1..(sequence + 1) : f[i] = k
      BY <3>1 DEF Shows, Covers
    <3> QED BY <1>1, <1>2, <2>2, <3>2, StepShows
  <2> QED BY <2>1, <2>2
<1>4. EndTold(exported, sequence, "end", action)
  BY DEF StoryOK, Place
<1>5. IsFiniteSet(Named(exported, sequence, {"escalate"}))
  BY <1>1, NamedFinite
<1>6. Cardinality(Named(exported, sequence, {"escalate"})) # 0 <=> action = "escalate"
  BY <1>4 DEF EndTold
<1>7. Named(exported, sequence, {"escalate"}) # {} <=> action = "escalate"
  BY <1>5, <1>6, FS_EmptySet
<1> QED BY <1>3, <1>7 DEF Named

\* The same tools in another order.
Reordered(s, r, p, D) ==
    /\ Embeds(p, D, D) /\ DOMAIN s = D /\ DOMAIN r = D
    /\ \A k \in D : s[k] = r[p[k]]

LEMMA SameBag ==
    ASSUME NEW D, IsFiniteSet(D), NEW s, NEW r, NEW p, Reordered(s, r, p, D)
    PROVE  ToolBag(s) = ToolBag(r)
<1>1. /\ Embeds(p, D, D) /\ DOMAIN s = D /\ DOMAIN r = D
      /\ \A k \in D : s[k] = r[p[k]]
  BY DEF Reordered
<1>2. Covers(p, D, D)
  BY <1>1, InjectiveIsOnto
<1>3. p \in [D -> D] /\ \A x, y \in D : p[x] = p[y] => x = y
  BY <1>1 DEF Embeds
<1>4. ASSUME NEW t \in AgentTools
      PROVE  Cardinality({n \in DOMAIN s : s[n] = t}) = Cardinality({n \in DOMAIN r : r[n] = t})
  <2> DEFINE U == {n \in D : s[n] = t}
             V == {n \in D : r[n] = t}
             g == [k \in U |-> p[k]]
  <2>1. g \in [U -> V] /\ \A x, y \in U : g[x] = g[y] => x = y
    BY <1>1, <1>3
  <2>2. ASSUME NEW v \in V PROVE \E u \in U : g[u] = v
    <3>1. PICK u \in D : p[u] = v
      BY <1>2 DEF Covers
    <3> QED BY <1>1, <3>1
  <2>3. IsFiniteSet(U)
    <3>1. U \subseteq D
      OBVIOUS
    <3> HIDE DEF U
    <3> QED BY <3>1, FS_Subset
  <2>4. {n \in DOMAIN s : s[n] = t} = U /\ {n \in DOMAIN r : r[n] = t} = V
    BY <1>1
  <2> HIDE DEF U, V, g
  <2>5. g \in Bijection(U, V)
    BY <2>1, <2>2 DEF Bijection, Injection, IsInjective, Surjection
  <2>6. ExistsBijection(U, V)
    BY <2>5 DEF ExistsBijection
  <2> QED BY <2>3, <2>4, <2>6, FS_Bijection
<1> QED BY <1>4 DEF ToolBag

\* The tools of the trajectory, by their places.
LEMMA ToolStepsRanked ==
    ASSUME NEW c \in Nat, IsFiniteSet(result.tools), result.tools \subseteq Int,
           Cardinality(result.tools) = c
    PROVE  /\ DOMAIN ToolSteps = 1..c
           /\ \A k \in 1..c : ToolSteps[k] \in result.tools /\ Rank(result.tools, ToolSteps[k]) = k
<1>1. \A n : ToolPlace(n) = Rank(result.tools, n)
  BY DEF ToolPlace, Rank
<1>2. ASSUME NEW k \in 1..c PROVE \E n \in result.tools : Rank(result.tools, n) = k
  BY RankOnto
<1>3. ASSUME NEW k \in 1..c
      PROVE  ToolSteps[k] \in result.tools /\ Rank(result.tools, ToolSteps[k]) = k
  <2>1. ToolSteps[k] = CHOOSE n \in result.tools : ToolPlace(n) = k
    BY DEF ToolSteps
  <2>2. \E n \in result.tools : ToolPlace(n) = k
    BY <1>1, <1>2
  <2>3. ToolSteps[k] \in result.tools /\ ToolPlace(ToolSteps[k]) = k
    BY <2>1, <2>2
  <2> QED BY <1>1, <2>3
<1> QED BY <1>3 DEF ToolSteps

LEMMA ToolsOf ==
    ASSUME Handed, StoryOK, pc = "reconstruct", StepsShow, result = TP!Trajectory,
           NEW f, Shows(f)
    PROVE  result.tools = Showing(f, AgentTools)
<1>1. /\ Len(steps) = sequence + 1 /\ sequence \in Nat
      /\ \A i \in 1..(sequence + 1) : steps[i].span = order[i]
      /\ exported[sequence + 1].span.kind = "chain"
  BY DEF Shows, Handed
<1>2. \A k \in 1..sequence : exported[k].span.kind \in {"tool", "unsafe_tool"}
                                <=> exported[k].span.node \in AgentTools
  BY Kinship DEF NodeSpan, ToolSpan
<1>3. result.tools = {i \in 1..Len(steps) : trace[steps[i].span].kind \in {"tool", "unsafe_tool"}}
  BY DEF TP!Trajectory
<1>4. ASSUME NEW i \in 1..(sequence + 1)
      PROVE  trace[steps[i].span].kind \in {"tool", "unsafe_tool"}
               <=> f[i] \in Named(exported, sequence, AgentTools)
  <2>1. /\ trace[steps[i].span] = exported[f[i]].span
        /\ f[i] \in 1..sequence \/ f[i] = sequence + 1
    BY <1>1, StepShows
  <2>2. CASE f[i] \in 1..sequence
    BY <1>2, <2>1, <2>2 DEF Named
  <2>3. CASE f[i] = sequence + 1
    <3>1. f[i] \notin 1..sequence
      BY <1>1, <2>3
    <3> QED BY <1>1, <2>1, <2>3, <3>1 DEF Named
  <2> QED BY <2>1, <2>2, <2>3
<1> QED BY <1>1, <1>3, <1>4 DEF Showing

LEMMA NamedRank ==
    ASSUME NEW spans, NEW q \in Nat, NEW names, NEW a \in Named(spans, q, names)
    PROVE  Cardinality(Named(spans, a, names)) = Rank(Named(spans, q, names), a)
<1>1. a \in 1..q
  BY DEF Named
<1>2. \A k : k \in 1..a <=> k \in 1..q /\ k <= a
  BY <1>1
<1>3. Named(spans, a, names) = {k \in Named(spans, q, names) : k <= a}
  BY <1>2 DEF Named
<1> QED BY <1>3 DEF Rank

\* While the clock is steady, a tool is shown in the place of its call.
LEMMA RankShown ==
    ASSUME Handed, StoryOK, pc = "reconstruct", StepsShow, TP!WalkInv, Steady,
           NEW f, Shows(f)
    PROVE  \A i \in Showing(f, AgentTools) :
              Rank(Named(exported, sequence, AgentTools), f[i]) = Rank(Showing(f, AgentTools), i)
<1> DEFINE A == Named(exported, sequence, AgentTools)
           B == Showing(f, AgentTools)
           g == [i \in B |-> f[i]]
<1>1. /\ IsFiniteSet(A) /\ IsFiniteSet(B) /\ A \subseteq Int /\ B \subseteq Int
      /\ B \subseteq 1..(sequence + 1) /\ Cardinality(A) = Cardinality(B)
  <2>1. A \subseteq Int
    BY DEF Named
  <2> QED BY <2>1, ShowingAll
<1>2. \A i \in B : f[i] \in A /\ i \in 1..(sequence + 1)
  BY <1>1 DEF Showing
<1>3. \A i, j \in B : f[i] = f[j] => i = j
  BY <1>2 DEF Shows, Embeds
<1>4. ASSUME NEW i \in B, NEW j \in B, i < j PROVE f[i] < f[j]
  <2>1. f[i] \in A /\ f[j] \in A /\ i \in 1..(sequence + 1) /\ j \in 1..(sequence + 1)
    BY <1>2
  <2>2. f[j] < f[i] => j < i
    BY <2>1, ToolsInTurn
  <2>3. f[i] # f[j] /\ i \in Int /\ j \in Int /\ f[i] \in Int /\ f[j] \in Int
    BY <1>1, <1>3, <1>4, <2>1
  <2> QED BY <1>4, <2>2, <2>3
<1>5. g \in [B -> A] /\ \A i, j \in B : g[i] = g[j] => i = j
  BY <1>2, <1>3
<1>6. \A i, j \in B : i < j => g[i] < g[j]
  BY <1>4
<1>7. \A i \in B : g[i] = f[i]
  OBVIOUS
<1>8. PICK S, Q, h : S = B /\ Q = A /\ h = g
  OBVIOUS
<1> HIDE DEF A, B, g
<1>9. IsFiniteSet(S) /\ IsFiniteSet(Q) /\ S \subseteq Int /\ Q \subseteq Int
      /\ Cardinality(S) = Cardinality(Q) /\ Embeds(h, S, Q)
  BY <1>1, <1>5, <1>8 DEF Embeds
<1>10. Covers(h, S, Q)
  BY <1>9, InjectiveIsOnto
<1>11. Climbs(h, S, Q)
  BY <1>5, <1>6, <1>8, <1>9, <1>10 DEF Climbs
<1>12. \A i \in S : Rank(Q, h[i]) = Rank(S, i)
  BY <1>9, <1>11, RankKept
<1> QED BY <1>7, <1>8, <1>12 DEF A, B

\* The tools shown are those called, in order unless the clock was set back.
LEMMA CallsShown ==
    ASSUME Handed, StoryOK, pc = "reconstruct", StepsShow, result = TP!Trajectory,
           called \in Seq(AgentTools), TP!WalkInv, NEW f, Shows(f), NEW tools,
           tools = [k \in DOMAIN ToolSteps |-> StepSpan(ToolSteps[k]).node]
    PROVE  /\ Steady => tools = called
           /\ ToolBag(tools) = ToolBag(called)
<1> DEFINE A == Named(exported, sequence, AgentTools)
           B == Showing(f, AgentTools)
           c == Len(called)
           p == [k \in 1..c |-> Rank(A, f[ToolSteps[k]])]
<1>1. /\ result.tools = B /\ sequence \in Nat /\ c \in Nat
      /\ Len(steps) = sequence + 1
  BY ToolsOf DEF Handed, Shows
<1>2. CallsTold(exported, sequence, called)
  BY DEF StoryOK, Told, Running, GraphNodes
<1>3. /\ IsFiniteSet(A) /\ IsFiniteSet(B) /\ A \subseteq Int /\ B \subseteq Int
      /\ B \subseteq 1..(sequence + 1) /\ Cardinality(A) = c /\ Cardinality(B) = c
  <2>1. Cardinality(A) = c
    BY <1>2 DEF CallsTold
  <2>2. A \subseteq Int
    BY DEF Named
  <2> QED BY <2>1, <2>2, ShowingAll
<1>4. /\ DOMAIN ToolSteps = 1..c
      /\ \A k \in 1..c : ToolSteps[k] \in B /\ Rank(B, ToolSteps[k]) = k
  BY <1>1, <1>3, ToolStepsRanked
<1>5. \A i \in B : f[i] \in A /\ i \in 1..(sequence + 1)
  BY <1>3 DEF Showing
<1>6. \A i, j \in B : f[i] = f[j] => i = j
  BY <1>5 DEF Shows, Embeds
<1>7. \A a \in A : called[Rank(A, a)] = exported[a].span.node /\ Rank(A, a) \in 1..c
  BY <1>1, <1>2, <1>3, NamedRank, RankRange DEF CallsTold
<1>8. ASSUME NEW k \in 1..c
      PROVE  p[k] \in 1..c /\ tools[k] = called[p[k]] /\ p[k] = Rank(A, f[ToolSteps[k]])
  <2>1. PICK i \in B : i = ToolSteps[k]
    BY <1>4
  <2>2. StepSpan(i) = exported[f[i]].span
    <3>1. steps[i].span = order[i] /\ trace[order[i]] = exported[f[i]].span
      BY <1>5 DEF Shows
    <3> QED BY <3>1 DEF StepSpan
  <2>3. p[k] = Rank(A, f[i]) /\ f[i] \in A
    BY <1>5, <2>1
  <2>4. tools[k] = StepSpan(i).node
    BY <1>4, <2>1
  <2> HIDE DEF p, A, B, c
  <2> QED BY <1>7, <2>1, <2>2, <2>3, <2>4
<1>9. Embeds(p, 1..c, 1..c)
  <2>1. p \in [1..c -> 1..c]
    BY <1>8
  <2>2. ASSUME NEW j \in 1..c, NEW k \in 1..c, p[j] = p[k] PROVE j = k
    <3>1. Rank(A, f[ToolSteps[j]]) = Rank(A, f[ToolSteps[k]])
      BY <1>8, <2>2
    <3>2. f[ToolSteps[j]] \in A /\ f[ToolSteps[k]] \in A
      BY <1>4, <1>5
    <3>3. f[ToolSteps[j]] = f[ToolSteps[k]]
      BY <1>3, <3>1, <3>2, RankTells
    <3>4. ToolSteps[j] = ToolSteps[k]
      BY <1>4, <1>6, <3>3
    <3> QED BY <1>4, <3>4
  <2> HIDE DEF p
  <2> QED BY <2>1, <2>2 DEF Embeds
<1>10. DOMAIN tools = 1..c /\ DOMAIN called = 1..c
  BY <1>4
<1>11. ToolBag(tools) = ToolBag(called)
  <2>1. PICK D : D = 1..c
    OBVIOUS
  <2>2. IsFiniteSet(D)
    BY <1>1, <2>1, FS_Interval
  <2>3. Reordered(tools, called, p, D)
    <3> HIDE DEF p, c
    <3> QED BY <1>8, <1>9, <1>10, <2>1 DEF Reordered
  <2> HIDE DEF p, c
  <2> QED BY <2>2, <2>3, SameBag
<1>12. ASSUME Steady PROVE tools = called
  <2>4. \A i \in B : Rank(A, f[i]) = Rank(B, i)
    BY <1>12, RankShown
  <2>5. \A k \in 1..c : tools[k] = called[k]
    BY <1>4, <1>8, <2>4
  <2> HIDE DEF c
  <2> QED BY <1>10, <2>5
<1> QED BY <1>11, <1>12

\* What the agent did is what the trajectory shows.
LEMMA StoryShown == IInv /\ StoryOK /\ HandedOK => TrajectoryFaithful
<1> SUFFICES ASSUME IInv, StoryOK, HandedOK, pc = "reconstruct", phase = "done"
             PROVE  TrajectoryFaithful
  BY DEF TrajectoryFaithful
<1> DEFINE tools == [k \in DOMAIN ToolSteps |-> StepSpan(ToolSteps[k]).node]
<1>1. Handed /\ TP!Walked
  BY DEF HandedOK
<1>2. StepsShow /\ result = TP!Trajectory /\ TP!WalkInv /\ TP!LinksKept
  BY <1>1, WalkShows
<1>3. PICK f : Shows(f)
  BY <1>1, <1>2, SpansShown
<1>4. Len(steps) = ran + Len(called) + 1 /\ Len(steps) = sequence + 1 /\ sequence \in Nat
  BY <1>1, <1>3 DEF Handed, Shows
<1>5. loopCount \in Nat /\ called \in Seq(AgentTools)
  BY DEF IInv, GraphOK
<1>6. (Steady => tools = called) /\ ToolBag(tools) = ToolBag(called)
  BY <1>1, <1>2, <1>3, <1>5, CallsShown
<1>7. /\ \A i \in 1..(sequence + 1) : steps[i].loop <= loopCount
      /\ \E i \in 1..(sequence + 1) : steps[i].loop = loopCount
  BY <1>1, <1>2, <1>3, <1>5, LoopsShown
<1>8. result.escalate <=> action = "escalate"
  <2>1. result.escalate <=> \E i \in 1..Len(steps) : trace[steps[i].span].kind = "human"
    BY <1>2 DEF TP!Trajectory
  <2> QED BY <1>1, <1>2, <1>3, <2>1, HumanShown
<1>9. \A i \in 1..(sequence + 1) : steps[i].parent = None <=> i = 1
  BY <1>1, <1>2, <1>3, RootFirst
<1>10. DOMAIN steps = 1..(sequence + 1)
  <2>1. \E S : steps \in Seq(S)
    BY <1>1 DEF TP!Walked, TP!IInv, TP!TypeOK
  <2> QED BY <1>4, <2>1
<1> HIDE DEF tools
<1>11. /\ \A n \in DOMAIN steps : steps[n].loop <= loopCount
       /\ \E n \in DOMAIN steps : steps[n].loop = loopCount
       /\ \A n \in DOMAIN steps : steps[n].parent = None <=> n = 1
  BY <1>7, <1>9, <1>10
<1> QED BY <1>4, <1>6, <1>8, <1>11 DEF TrajectoryFaithful, Steady, tools

\* Whatever the graph did, at whatever times its spans start and end and
\* whatever ids they got, T-REx tells the same of it: each span once, the
\* tools that were called, and in that order while the clock is steady.
THEOREM FaithfulTrajectory == Spec => []TrajectoryFaithful
<1>1. IInv /\ StoryOK /\ HandedOK /\ [Next]_vars => (IInv /\ StoryOK /\ HandedOK)'
  BY StepHolds, StoryStep, HandedStep
<1> QED BY <1>1, InitHolds, StoryInit, HandedInit, StoryShown, PTL DEF Spec
-----------------------------------------------------------------------------
(* The agent follows its scenario's plan. *)

\* The k-th tool of the retry loop.
Fetch(k) == IF k % 2 = 1 THEN "query_prometheus" ELSE "check_router_logs"
Fetches(tools, n) == Len(tools) = n /\ \A k \in 1..n : tools[k] = Fetch(k)

\* How many of them have been called when the graph is at a node.
Fetched(place, loops) ==
    2 * loops + (CASE place \in {"ingest_alert", "query_metrics"} -> 0
                   [] place = "check_logs" -> 1 [] OTHER -> 2)

PlanFollowed(place, loops, tools, choice, s) ==
    /\ place # "end" => Fetches(tools, Fetched(place, loops))
    /\ place \in {"execute_tool", "escalate", "end"} =>
          loops = RetriesOf(s) /\ choice = s.action
    /\ place = "end" => tools = Plan(s)

PlanOK ==
    pc \in Running \union {"reconstruct"} =>
        PlanFollowed(Place, loopCount, called, action, Scenario)

\* A node that calls no tool leaves as many called as the next one asks for.
LEMMA PlainPlan ==
    ASSUME IInv, PlanOK, NEW node \in GraphNodes, NEW successor \in Running,
           NEW kind \in Kinds, Plain(node, kind, successor),
           successor # "end", Fetched(node, loopCount) = Fetched(successor, loopCount'),
           successor \in {"execute_tool", "escalate"} =>
               loopCount' = RetriesOf(Scenario) /\ action' = Scenario.action
    PROVE  PlanOK'
<1>1. /\ pc = node /\ pc' = successor /\ called' = called /\ Scenario' = Scenario
      /\ pc \in Running /\ node # "reconstruct" /\ successor # "reconstruct" /\ node # "end"
  BY VisitKeeps DEF Plain, Running, GraphNodes
<1>2. Fetches(called, Fetched(node, loopCount))
  BY <1>1 DEF PlanOK, PlanFollowed, Place
<1>3. Place' = successor
  BY <1>1 DEF Place
<1> QED BY <1>1, <1>2, <1>3 DEF PlanOK, PlanFollowed, RetriesOf

\* A fetch has been called.
LEMMA FetchPlan ==
    ASSUME IInv, PlanOK, NEW node \in {"query_metrics", "check_logs"},
           NEW tool \in AgentTools, NEW kind \in Kinds, NEW successor \in Running,
           CallsTool(node, tool, kind, successor),
           successor \notin {"execute_tool", "escalate", "end"},
           Fetched(successor, loopCount) = Fetched(node, loopCount) + 1,
           tool = Fetch(Fetched(node, loopCount) + 1)
    PROVE  PlanOK'
<1>1. /\ pc = node /\ pc' = successor /\ Scenario' = Scenario /\ pc \in Running
      /\ node # "reconstruct" /\ successor # "reconstruct" /\ node # "end"
      /\ called' = Append(called, tool) /\ loopCount' = loopCount
  BY VisitKeeps DEF CallsTool, Running, GraphNodes
<1>2. Fetches(called, Fetched(node, loopCount)) /\ called \in Seq(AgentTools)
  BY <1>1, AtNode DEF PlanOK, PlanFollowed, Place
<1>3. PICK n \in Nat : n = Fetched(node, loopCount) /\ Len(called) = n
  BY <1>2 DEF Fetches
<1>4. Fetches(called', n + 1)
  <2>1. /\ Len(called') = n + 1 /\ called'[n + 1] = tool
        /\ \A k \in 1..n : called'[k] = called[k]
    BY <1>1, <1>2, <1>3
  <2>2. \A k \in 1..n : called[k] = Fetch(k)
    BY <1>2, <1>3 DEF Fetches
  <2>3. tool = Fetch(n + 1)
    BY <1>3
  <2>4. \A k \in 1..(n + 1) : k \in 1..n \/ k = n + 1
    OBVIOUS
  <2> QED BY <2>1, <2>2, <2>3, <2>4 DEF Fetches
<1>5. Place' = successor
  BY <1>1 DEF Place
<1> QED BY <1>1, <1>3, <1>4, <1>5 DEF PlanOK, PlanFollowed

LEMMA PlanRests ==
    ASSUME PlanOK, UNCHANGED <<scenarios, at, loopCount, called, action>>, Place' = Place,
           pc \in Running \union {"reconstruct"}
    PROVE  PlanOK'
<1>1. RetriesOf(Scenario)' = RetriesOf(Scenario) /\ Plan(Scenario)' = Plan(Scenario)
      /\ Scenario' = Scenario
  BY DEF RetriesOf, Plan, FinalTool, Scenario
<1> QED BY <1>1 DEF PlanOK, PlanFollowed, Fetches, Fetched

\* The plan is fetches and, unless a human takes over, one more tool.
LEMMA PlanEnds ==
    ASSUME NEW s \in Scenarios, NEW tools \in Seq(AgentTools),
           Fetches(tools, 2 * RetriesOf(s) + 2)
    PROVE  /\ s.action = "escalate" => Plan(s) = tools
           /\ s.action # "escalate" => Plan(s) = Append(tools, s.action)
<1>1. PICK n \in Nat : n = 2 * (RetriesOf(s) + 1) /\ n = 2 * RetriesOf(s) + 2
  BY ScenarioFields
<1>2. tools = [k \in 1..n |-> Fetch(k)]
  <2>1. Len(tools) = n /\ \A k \in 1..n : tools[k] = Fetch(k)
    BY <1>1 DEF Fetches
  <2> QED BY <2>1
<1>3. Plan(s) = [k \in 1..n |-> Fetch(k)] \o FinalTool(s)
  BY <1>1 DEF Plan, Fetch
<1>4. Plan(s) = tools \o FinalTool(s)
  BY <1>2, <1>3
<1>5. CASE s.action = "escalate"
  BY <1>4, <1>5 DEF FinalTool
<1>6. CASE s.action # "escalate"
  BY <1>4, <1>6 DEF FinalTool
<1> QED BY <1>5, <1>6

LEMMA ScenarioType == IInv /\ pc \in Running => Scenario \in Scenarios
<1> SUFFICES ASSUME IInv, pc \in Running PROVE Scenario \in Scenarios
  OBVIOUS
<1>1. at \in 1..Len(scenarios) /\ scenarios \in Seq(Scenarios)
  BY AtNode, PipelineAssumption
<1> QED BY <1>1 DEF Scenario

LEMMA PlanStep == IInv /\ StoryOK /\ PlanOK /\ [Next]_vars => PlanOK'
<1> SUFFICES ASSUME IInv, StoryOK, PlanOK, [Next]_vars PROVE PlanOK'
  OBVIOUS
<1>1. CASE StartScenario
  <2>1. pc' = "ingest_alert" /\ loopCount' = 0 /\ called' = <<>>
    BY <1>1 DEF StartScenario, Begin
  <2>2. Place' = "ingest_alert" /\ Fetched("ingest_alert", 0) = 0
    BY <2>1 DEF Place, Fetched
  <2>3. Fetches(<<>>, 0)
    BY DEF Fetches
  <2> QED BY <2>1, <2>2, <2>3 DEF PlanOK, PlanFollowed
<1>2. CASE IngestAlert
  BY <1>2, PlainPlan DEF IngestAlert, GraphNodes, Running, Kinds, Fetched
<1>3. CASE QueryMetrics
  <2>1. CallsTool("query_metrics", "query_prometheus", "tool", "check_logs")
    BY <1>3 DEF QueryMetrics
  <2>2. loopCount \in Nat
    BY DEF IInv, GraphOK
  <2>3. /\ Fetched("query_metrics", loopCount) = 2 * loopCount
        /\ Fetched("check_logs", loopCount) = 2 * loopCount + 1
    BY <2>2 DEF Fetched
  <2>4. Fetch(2 * loopCount + 1) = "query_prometheus"
    BY <2>2 DEF Fetch
  <2> QED BY <2>1, <2>3, <2>4, FetchPlan DEF AgentTools, Kinds, Running, GraphNodes
<1>4. CASE CheckLogs
  <2>1. CallsTool("check_logs", "check_router_logs", "tool", "diagnose")
    BY <1>4 DEF CheckLogs
  <2>2. loopCount \in Nat
    BY DEF IInv, GraphOK
  <2>3. /\ Fetched("check_logs", loopCount) = 2 * loopCount + 1
        /\ Fetched("diagnose", loopCount) = 2 * loopCount + 1 + 1
    BY <2>2 DEF Fetched
  <2>4. Fetch(2 * loopCount + 1 + 1) = "check_router_logs"
    BY <2>2 DEF Fetch
  <2> QED BY <2>1, <2>3, <2>4, FetchPlan DEF AgentTools, Kinds, Running, GraphNodes
<1>5. CASE Diagnose
  BY <1>5, PlainPlan DEF Diagnose, GraphNodes, Running, Kinds, Fetched
<1>6. CASE ChooseAction
  <2>1. PICK successor \in Running : successor = Route(action')
    BY DEF Route, Running, GraphNodes
  <2>2. Plain("choose_action", "chain", successor) /\ pc \in Running
    BY <1>6, <2>1 DEF ChooseAction, Plain, Visits, Running, GraphNodes
  <2>3. loopCount \in Nat /\ loopCount <= RetriesOf(Scenario)
    BY <2>2 DEF IInv, GraphOK, RoundsOK
  <2>4. Scenario \in Scenarios
    BY <2>2, ScenarioType
  <2>5. "choose_action" \in GraphNodes /\ "chain" \in Kinds
    BY DEF GraphNodes, Kinds
  <2>6. CASE Retries
    <3>1. loopCount' = loopCount + 1 /\ successor = "query_metrics"
      BY <1>6, <2>1, <2>6 DEF ChooseAction, Route
    <3>2. Fetched("choose_action", loopCount) = Fetched(successor, loopCount')
      BY <2>3, <3>1 DEF Fetched
    <3> QED BY <2>2, <2>5, <3>1, <3>2, PlainPlan
  <2>7. CASE ~Retries
    <3>1. /\ action' = Scenario.action /\ loopCount' = loopCount
          /\ successor = (IF action' = "escalate" THEN "escalate" ELSE "execute_tool")
      BY <1>6, <2>1, <2>4, <2>7, ScenarioFields DEF ChooseAction, Route, Actions
    <3>2. loopCount = RetriesOf(Scenario)
      BY <2>3, <2>4, <2>7, ScenarioFields DEF Retries, RetriesOf
    <3>3. Fetched("choose_action", loopCount) = Fetched(successor, loopCount')
      BY <2>3, <3>1 DEF Fetched
    <3> QED BY <2>2, <2>5, <3>1, <3>2, <3>3, PlainPlan
  <2> QED BY <2>6, <2>7
<1>7. CASE ExecuteTool
  <2>1. /\ pc = "execute_tool" /\ pc' = "end" /\ Scenario' = Scenario /\ pc \in Running
        /\ UNCHANGED <<loopCount, action>>
        /\ called' = Append(called, IF action = "restart_gateway" THEN "restart_gateway"
                                    ELSE "create_ticket")
    BY <1>7 DEF ExecuteTool, CallsTool, Visits, fixed, Scenario, Running, GraphNodes
  <2>2. action \in {"create_ticket", "restart_gateway"}
    BY <2>1 DEF IInv, RoundsOK
  <2>3. PlanFollowed("execute_tool", loopCount, called, action, Scenario)
    BY <2>1 DEF PlanOK, Place
  <2>4. Scenario \in Scenarios /\ called \in Seq(AgentTools) /\ loopCount \in Nat
    BY <2>1, ScenarioType, AtNode
  <2>5. /\ loopCount = RetriesOf(Scenario) /\ action = Scenario.action
        /\ Fetches(called, 2 * loopCount + 2)
    BY <2>3 DEF PlanFollowed, Fetched
  <2>6. called' = Plan(Scenario)
    BY <2>1, <2>2, <2>4, <2>5, PlanEnds
  <2>7. Place' = "end"
    BY <2>1 DEF Place
  <2>8. RetriesOf(Scenario)' = RetriesOf(Scenario) /\ Plan(Scenario)' = Plan(Scenario)
    BY <2>1 DEF RetriesOf, Plan, FinalTool
  <2> QED BY <2>1, <2>5, <2>6, <2>7, <2>8 DEF PlanOK, PlanFollowed
<1>8. CASE Escalate
  <2>1. /\ pc = "escalate" /\ pc' = "end" /\ Scenario' = Scenario /\ pc \in Running
        /\ UNCHANGED <<loopCount, action, called>>
    BY <1>8 DEF Escalate, Plain, Visits, fixed, Scenario, Running, GraphNodes
  <2>2. action = "escalate"
    BY <2>1 DEF StoryOK, EndTold, Place
  <2>3. PlanFollowed("escalate", loopCount, called, action, Scenario)
    BY <2>1 DEF PlanOK, Place
  <2>4. Scenario \in Scenarios /\ called \in Seq(AgentTools) /\ loopCount \in Nat
    BY <2>1, ScenarioType, AtNode
  <2>5. /\ loopCount = RetriesOf(Scenario) /\ action = Scenario.action
        /\ Fetches(called, 2 * loopCount + 2)
    BY <2>3 DEF PlanFollowed, Fetched
  <2>6. called' = Plan(Scenario)
    BY <2>1, <2>2, <2>4, <2>5, PlanEnds
  <2>7. Place' = "end"
    BY <2>1 DEF Place
  <2>8. RetriesOf(Scenario)' = RetriesOf(Scenario) /\ Plan(Scenario)' = Plan(Scenario)
    BY <2>1 DEF RetriesOf, Plan, FinalTool
  <2> QED BY <2>1, <2>5, <2>6, <2>7, <2>8 DEF PlanOK, PlanFollowed
<1>9. CASE LimitReached \/ Judge \/ ReconstructionRaises
  <2>1. pc' \in {"crashed", "finished", "next"}
    BY <1>9 DEF LimitReached, Judge, ReconstructionRaises
  <2> QED BY <2>1 DEF PlanOK, Running, GraphNodes
<1>10. CASE Load
  <2>1. /\ pc = "end" /\ Place' = Place
        /\ UNCHANGED <<scenarios, at, loopCount, called, action>>
    BY <1>10 DEF Load, fixed, graphVars, Place
  <2> QED BY <2>1, PlanRests DEF Running
<1>11. CASE Reconstruct \/ ClockSetBack
  <2>1. /\ pc \in Running \union {"reconstruct"} /\ Place' = Place
        /\ UNCHANGED <<scenarios, at, loopCount, called, action>>
    BY <1>11 DEF Reconstruct, ClockSetBack, fixed, graphVars, Place, Running
  <2> QED BY <2>1, PlanRests
<1>12. CASE UNCHANGED vars
  <2>1. UNCHANGED <<scenarios, at, pc, loopCount, called, action>> /\ Place' = Place
    BY <1>12 DEF vars, graphVars, Place
  <2>2. CASE pc \in Running \union {"reconstruct"}
    BY <2>1, <2>2, PlanRests
  <2>3. CASE pc \notin Running \union {"reconstruct"}
    BY <2>1, <2>3 DEF PlanOK, Running, GraphNodes
  <2> QED BY <2>2, <2>3
<1>13. Ended => UNCHANGED vars
  BY DEF Ended
<1> QED BY <1>1, <1>2, <1>3, <1>4, <1>5, <1>6, <1>7, <1>8, <1>9, <1>10, <1>11, <1>12, <1>13
       DEF Next

-----------------------------------------------------------------------------
(* What the spans say of permission and of time. *)

\* A call is marked unsafe if it is a restart that was not allowed.
AsCalled(s, allowed) ==
    s.kind = "unsafe_tool" <=> s.node = "restart_gateway" /\ ~allowed
Quick(s, time) == s.end - s.start \in 0..(3 * time)
SpansFair(spans, q, allowed, steady, time) ==
    \A k \in 1..q : /\ AsCalled(spans[k].span, allowed)
                    /\ steady => Quick(spans[k].span, time)

\* How long a scenario has taken, when the clock was not set back in it.
Taken(time, nodes) == 4 * (time * nodes)
MarksOK ==
    pc \in Running \union {"reconstruct"} =>
        SpansFair(exported, sequence, Scenario.allowed, Steady, tick)
ClockOK ==
    Steady =>
        /\ pc \in Running => now - root.start \in 0..Taken(tick, ran)
        /\ pc = "reconstruct" =>
              exported[sequence + 1].span.end - exported[sequence + 1].span.start
                  \in 0..(Taken(tick, ran) + tick)

LEMMA FairGrows ==
    ASSUME NEW q \in Nat, NEW r \in Nat, r >= q, NEW spans, NEW longer, NEW allowed, NEW steady,
           NEW time, Extends(longer, spans, q), SpansFair(spans, q, allowed, steady, time),
           \A k \in (q + 1)..r : /\ AsCalled(longer[k].span, allowed)
                                 /\ steady => Quick(longer[k].span, time)
    PROVE  SpansFair(longer, r, allowed, steady, time)
<1>1. \A k \in 1..r : k \in 1..q \/ k \in (q + 1)..r
  OBVIOUS
<1> QED BY <1>1 DEF SpansFair, Extends

\* Some nodes take two ticks, the others four.
LEMMA TakenLonger ==
    ASSUME NEW time \in Nat, NEW nodes \in Nat, NEW before \in Int, NEW after \in Int,
           NEW start \in Int, before - start \in 0..Taken(time, nodes),
           after \in {before + 2 * time, before + 4 * time}
    PROVE  after - start \in 0..Taken(time, nodes + 1)
<1>1. PICK p \in Nat : p = time * nodes /\ time * (nodes + 1) = p + time
  OBVIOUS
<1> QED BY <1>1 DEF Taken

LEMMA PlainMarks ==
    ASSUME IInv, MarksOK, ClockOK, NEW node \in GraphNodes, NEW successor \in Running,
           NEW kind \in {"chain", "human"}, Plain(node, kind, successor)
    PROVE  MarksOK' /\ ClockOK'
<1>1. Visits(node, successor) /\ PlainSpans(node, kind)
  BY DEF Plain
<1>2. /\ root' = root /\ tick' = tick /\ at' = at /\ setBack' = setBack /\ Scenario' = Scenario
      /\ pc = node /\ pc' = successor /\ pc \in Running /\ ran' = ran + 1
      /\ pc' # "reconstruct" /\ Steady' = Steady
  BY <1>1, VisitKeeps DEF Running, Visits, Steady, GraphNodes
<1>3. /\ sequence \in Nat /\ now \in Int /\ tick \in Nat /\ ran \in Nat
      /\ root \in [id : Int, start : Int] /\ SpansOf(exported, started, sequence)
  BY <1>2, AtNode DEF IInv, ExporterOK
<1> DEFINE x == Exported(started + 1, Span(root.id, node, kind, sequence,
                                           now + tick, now + 2 * tick))
<1>4. /\ exported' = Append(exported, x) /\ sequence' = sequence + 1 /\ now' = now + 2 * tick
  BY <1>1 DEF PlainSpans
<1>5. /\ x.span.node = node /\ x.span.kind = kind
      /\ x.span.start = now + tick /\ x.span.end = now + 2 * tick
  BY DEF Exported, Span
<1> HIDE DEF x
<1>6. exported \in Seq(Entries) /\ Len(exported) = sequence
  BY <1>3 DEF SpansOf
<1>7. exported'[sequence + 1] = x /\ Extends(exported', exported, sequence)
  BY <1>3, <1>4, <1>6 DEF Extends
<1>8. AsCalled(x.span, Scenario.allowed) /\ Quick(x.span, tick)
  <2>1. node # "restart_gateway"
    BY DEF GraphNodes
  <2>2. x.span.end - x.span.start = tick
    BY <1>3, <1>5
  <2> QED BY <1>3, <1>5, <2>1, <2>2 DEF AsCalled, Quick
<1>9. SpansFair(exported', sequence', Scenario.allowed, Steady, tick)
  <2>1. SpansFair(exported, sequence, Scenario.allowed, Steady, tick)
    BY <1>2 DEF MarksOK
  <2>2. PICK q \in Nat, r \in Nat : q = sequence /\ r = q + 1
    BY <1>3
  <2>3. \A k \in (q + 1)..r : k = q + 1
    BY <2>2
  <2>4. r >= q /\ \A k \in (q + 1)..r : /\ AsCalled(exported'[k].span, Scenario.allowed)
                                        /\ Steady => Quick(exported'[k].span, tick)
    BY <1>7, <1>8, <2>2, <2>3
  <2>5. SpansFair(exported', r, Scenario.allowed, Steady, tick)
    BY <1>7, <2>1, <2>2, <2>4, FairGrows
  <2> QED BY <1>4, <2>2, <2>5
<1>10. MarksOK'
  BY <1>2, <1>9 DEF MarksOK, SpansFair, Steady
<1>11. ASSUME Steady PROVE now' - root.start \in 0..Taken(tick, ran + 1)
  <2>1. now - root.start \in 0..Taken(tick, ran)
    BY <1>2, <1>11 DEF ClockOK
  <2>2. PICK start \in Int, before \in Int, after \in Int :
            start = root.start /\ before = now /\ after = now'
    BY <1>3, <1>4
  <2>3. after \in {before + 2 * tick, before + 4 * tick}
    BY <1>4, <2>2
  <2> QED BY <1>3, <2>1, <2>2, <2>3, TakenLonger
<1>12. ClockOK'
  BY <1>2, <1>11 DEF ClockOK, Taken
<1> QED BY <1>10, <1>12

LEMMA ToolMarks ==
    ASSUME IInv, MarksOK, ClockOK, NEW node \in GraphNodes, NEW tool \in AgentTools,
           NEW kind \in Kinds, NEW successor \in Running, CallsTool(node, tool, kind, successor),
           kind = "unsafe_tool" <=> tool = "restart_gateway" /\ ~Scenario.allowed
    PROVE  MarksOK' /\ ClockOK'
<1>1. Visits(node, successor) /\ ToolSpans(node, tool, kind)
  BY DEF CallsTool
<1>2. /\ root' = root /\ tick' = tick /\ at' = at /\ setBack' = setBack /\ Scenario' = Scenario
      /\ pc = node /\ pc' = successor /\ pc \in Running /\ ran' = ran + 1
      /\ pc' # "reconstruct" /\ Steady' = Steady
  BY <1>1, VisitKeeps DEF Running, Visits, Steady, GraphNodes
<1>3. /\ sequence \in Nat /\ now \in Int /\ tick \in Nat /\ ran \in Nat
      /\ root \in [id : Int, start : Int] /\ SpansOf(exported, started, sequence)
  BY <1>2, AtNode DEF IInv, ExporterOK
<1> DEFINE x == Exported(started + 2, Span(SpanId(started + 1), tool, kind, sequence + 1,
                                           now + 2 * tick, now + 3 * tick))
           y == Exported(started + 1, Span(root.id, node, "chain", sequence,
                                           now + tick, now + 4 * tick))
<1>4. /\ exported' = exported \o <<x, y>> /\ sequence' = sequence + 2 /\ now' = now + 4 * tick
  BY <1>1 DEF ToolSpans
<1>5. /\ x.span.node = tool /\ x.span.kind = kind
      /\ x.span.start = now + 2 * tick /\ x.span.end = now + 3 * tick
      /\ y.span.node = node /\ y.span.kind = "chain"
      /\ y.span.start = now + tick /\ y.span.end = now + 4 * tick
  BY DEF Exported, Span
<1> HIDE DEF x, y
<1>6. exported \in Seq(Entries) /\ Len(exported) = sequence
  BY <1>3 DEF SpansOf
<1>7. /\ exported'[sequence + 1] = x /\ exported'[sequence + 2] = y
      /\ Extends(exported', exported, sequence)
  <2>1. \A k \in 1..sequence : exported'[k] = exported[k]
    BY <1>4, <1>6
  <2>2. exported'[sequence + 1] = x
    BY <1>4, <1>6
  <2>3. exported'[sequence + 2] = y
    BY <1>4, <1>6
  <2> QED BY <2>1, <2>2, <2>3 DEF Extends
<1>8. AsCalled(x.span, Scenario.allowed) /\ Quick(x.span, tick)
  <2>1. x.span.end - x.span.start = tick
    BY <1>3, <1>5
  <2> QED BY <1>3, <1>5, <2>1 DEF AsCalled, Quick
<1>9. AsCalled(y.span, Scenario.allowed) /\ Quick(y.span, tick)
  <2>1. node # "restart_gateway"
    BY DEF GraphNodes
  <2>2. y.span.end - y.span.start = 3 * tick
    BY <1>3, <1>5
  <2> QED BY <1>3, <1>5, <2>1, <2>2 DEF AsCalled, Quick
<1>10. SpansFair(exported', sequence', Scenario.allowed, Steady, tick)
  <2>1. SpansFair(exported, sequence, Scenario.allowed, Steady, tick)
    BY <1>2 DEF MarksOK
  <2>2. PICK q \in Nat, r \in Nat : q = sequence /\ r = q + 2
    BY <1>3
  <2>3. \A k \in (q + 1)..r : k = q + 1 \/ k = q + 2
    BY <2>2
  <2>4. r >= q /\ \A k \in (q + 1)..r : /\ AsCalled(exported'[k].span, Scenario.allowed)
                                        /\ Steady => Quick(exported'[k].span, tick)
    BY <1>7, <1>8, <1>9, <2>2, <2>3
  <2>5. SpansFair(exported', r, Scenario.allowed, Steady, tick)
    BY <1>7, <2>1, <2>2, <2>4, FairGrows
  <2> QED BY <1>4, <2>2, <2>5
<1>11. MarksOK'
  BY <1>2, <1>10 DEF MarksOK, SpansFair, Steady
<1>12. ASSUME Steady PROVE now' - root.start \in 0..Taken(tick, ran + 1)
  <2>1. now - root.start \in 0..Taken(tick, ran)
    BY <1>2, <1>12 DEF ClockOK
  <2>2. PICK start \in Int, before \in Int, after \in Int :
            start = root.start /\ before = now /\ after = now'
    BY <1>3, <1>4
  <2>3. after \in {before + 2 * tick, before + 4 * tick}
    BY <1>4, <2>2
  <2> QED BY <1>3, <2>1, <2>2, <2>3, TakenLonger
<1>13. ClockOK'
  BY <1>2, <1>12 DEF ClockOK, Taken
<1> QED BY <1>11, <1>13

LEMMA MarksRest ==
    ASSUME MarksOK, ClockOK, UNCHANGED <<scenarios, at, pc, setBack, exported, sequence, tick,
                                         ran, now, root>>
    PROVE  MarksOK' /\ ClockOK'
<1>1. Scenario' = Scenario /\ Steady' = Steady
  BY DEF Scenario, Steady
<1>2. MarksOK'
  BY <1>1 DEF MarksOK, SpansFair, Steady
<1>3. ClockOK'
  BY <1>1 DEF ClockOK, Taken
<1> QED BY <1>2, <1>3

LEMMA LoadMarks ==
    ASSUME IInv, MarksOK, ClockOK, Load
    PROVE  MarksOK' /\ ClockOK'
<1> DEFINE own == [id |-> root.id,
                   span |-> Span(None, "scenario", "chain", 1000000000, root.start, now + tick)]
<1>1. /\ pc = "end" /\ pc' = "reconstruct" /\ exported' = Append(exported, own)
      /\ UNCHANGED <<root, sequence, ran, tick, scenarios, at, setBack>>
  BY DEF Load, graphVars, fixed
<1>2. own.span.start = root.start /\ own.span.end = now + tick
  BY DEF Span
<1> HIDE DEF own
<1>3. /\ sequence \in Nat /\ now \in Int /\ tick \in Nat /\ ran \in Nat
      /\ root \in [id : Int, start : Int] /\ SpansOf(exported, started, sequence)
  BY <1>1, AtNode DEF IInv, ExporterOK, Running
<1>4. exported \in Seq(Entries) /\ Len(exported) = sequence
  BY <1>3 DEF SpansOf
<1>5. exported'[sequence + 1] = own /\ \A k \in 1..sequence : exported'[k] = exported[k]
  BY <1>1, <1>3, <1>4
<1>6. Scenario' = Scenario /\ Steady' = Steady
  BY <1>1 DEF Scenario, Steady
<1>7. MarksOK'
  BY <1>1, <1>5, <1>6 DEF MarksOK, SpansFair, Running, Steady
<1>8. ASSUME Steady
      PROVE  own.span.end - own.span.start \in 0..(Taken(tick, ran) + tick)
  <2>1. now - root.start \in 0..Taken(tick, ran)
    BY <1>1, <1>8 DEF ClockOK, Running
  <2>2. PICK most \in Int : most = Taken(tick, ran)
    BY <1>3 DEF Taken
  <2> QED BY <1>2, <1>3, <2>1, <2>2
<1>9. ClockOK'
  BY <1>1, <1>5, <1>6, <1>8 DEF ClockOK, Taken, Running, GraphNodes
<1> QED BY <1>7, <1>9

LEMMA MarksStep == IInv /\ MarksOK /\ ClockOK /\ [Next]_vars => MarksOK' /\ ClockOK'
<1> SUFFICES ASSUME IInv, MarksOK, ClockOK, [Next]_vars PROVE MarksOK' /\ ClockOK'
  OBVIOUS
<1>1. CASE StartScenario
  <2>1. /\ pc' = "ingest_alert" /\ exported' = <<>> /\ sequence' = 0 /\ ran' = 0
        /\ root'.start = now' /\ tick' = tick /\ tick \in Nat /\ now \in Int /\ now' = now + tick
    BY <1>1 DEF StartScenario, Begin, IInv, GraphOK
  <2>2. MarksOK'
    BY <2>1 DEF MarksOK, SpansFair
  <2>3. now' - root'.start \in 0..Taken(tick, 0)
    BY <2>1 DEF Taken
  <2> QED BY <2>1, <2>2, <2>3 DEF ClockOK, Taken
<1>2. CASE IngestAlert \/ Diagnose \/ Escalate
  BY <1>2, PlainMarks DEF IngestAlert, Diagnose, Escalate, GraphNodes, Running
<1>3. CASE QueryMetrics
  BY <1>3, ToolMarks DEF QueryMetrics, GraphNodes, AgentTools, Kinds, Running
<1>4. CASE CheckLogs
  BY <1>4, ToolMarks DEF CheckLogs, GraphNodes, AgentTools, Kinds, Running
<1>5. CASE ChooseAction
  <2>1. PICK successor \in Running : successor = Route(action')
    BY DEF Route, Running, GraphNodes
  <2>2. Plain("choose_action", "chain", successor)
    BY <1>5, <2>1 DEF ChooseAction
  <2> QED BY <2>2, PlainMarks DEF GraphNodes
<1>6. CASE ExecuteTool
  <2>1. CASE action = "restart_gateway"
    <3>1. PICK kind \in Kinds : kind = IF Scenario.allowed THEN "tool" ELSE "unsafe_tool"
      BY DEF Kinds
    <3>2. CallsTool("execute_tool", "restart_gateway", kind, "end")
      BY <1>6, <2>1, <3>1 DEF ExecuteTool
    <3>3. kind = "unsafe_tool" <=> ~Scenario.allowed
      BY <3>1
    <3> QED BY <3>2, <3>3, ToolMarks DEF GraphNodes, AgentTools, Running
  <2>2. CASE action # "restart_gateway"
    BY <1>6, <2>2, ToolMarks DEF ExecuteTool, GraphNodes, AgentTools, Kinds, Running
  <2> QED BY <2>1, <2>2
<1>7. CASE LimitReached \/ Judge \/ ReconstructionRaises
  <2>1. pc' \in {"crashed", "finished", "next"}
    BY <1>7 DEF LimitReached, Judge, ReconstructionRaises
  <2> QED BY <2>1 DEF MarksOK, ClockOK, Running, GraphNodes
<1>8. CASE Load
  BY <1>8, LoadMarks
<1>9. CASE Reconstruct
  <2>1. UNCHANGED <<scenarios, at, pc, setBack, exported, sequence, tick, ran, now, root>>
    BY <1>9 DEF Reconstruct, fixed, graphVars, spanVars
  <2> QED BY <2>1, MarksRest
<1>10. CASE ClockSetBack
  <2>1. /\ pc \in Running /\ pc' = pc /\ setBack' = {at}
        /\ UNCHANGED <<scenarios, at, exported, sequence, tick>>
    BY <1>10 DEF ClockSetBack, fixed, graphVars, Running
  <2>2. ~Steady' /\ Scenario' = Scenario
    BY <2>1 DEF Steady, Scenario
  <2>3. MarksOK'
    BY <2>1, <2>2 DEF MarksOK, SpansFair
  <2> QED BY <2>2, <2>3 DEF ClockOK
<1>11. CASE UNCHANGED vars
  <2>1. UNCHANGED <<scenarios, at, pc, setBack, exported, sequence, tick, ran, now, root>>
    BY <1>11 DEF vars, graphVars, spanVars
  <2> QED BY <2>1, MarksRest
<1>12. Ended => UNCHANGED vars
  BY DEF Ended
<1> QED BY <1>1, <1>2, <1>3, <1>4, <1>5, <1>6, <1>7, <1>8, <1>9, <1>10, <1>11, <1>12 DEF Next

-----------------------------------------------------------------------------
(* T-REx refuses no trace of a scenario during which the clock was steady. *)

LEMMA DepthBounded ==
    ASSUME NEW s \in TP!Spans, NEW a \in TP!Spans, NEW b \in TP!Spans,
           TP!HasParents({a, b}, {a, b, s})
    PROVE  TP!Depth(s) \in 0..3
<1>1. TP!Ancestors(s) \subseteq {a, b}
  <2>1. {a, b} \in SUBSET TP!Spans
    OBVIOUS
  <2>2. {a, b} \union {s} = {a, b, s}
    OBVIOUS
  <2> QED BY <2>1, <2>2 DEF TP!Ancestors
<1>2. TP!Ancestors(s) \union {s} \subseteq {a, b, s}
  BY <1>1
<1>3. IsFiniteSet({a, b, s}) /\ Cardinality({a, b, s}) <= 3
  <2>1. /\ IsFiniteSet({}) /\ Cardinality({}) = 0
    BY FS_EmptySet
  <2>2. /\ IsFiniteSet({} \union {a}) /\ Cardinality({} \union {a}) \in 0..1
    BY <2>1, FS_AddElement
  <2>3. /\ IsFiniteSet(({} \union {a}) \union {b}) /\ Cardinality(({} \union {a}) \union {b}) \in 0..2
    BY <2>2, FS_AddElement
  <2>4. /\ IsFiniteSet((({} \union {a}) \union {b}) \union {s})
        /\ Cardinality((({} \union {a}) \union {b}) \union {s}) \in 0..3
    BY <2>3, FS_AddElement
  <2>5. {a, b, s} = (({} \union {a}) \union {b}) \union {s}
    OBVIOUS
  <2> QED BY <2>4, <2>5
<1>4. /\ Cardinality(TP!Ancestors(s) \union {s}) <= Cardinality({a, b, s})
      /\ Cardinality(TP!Ancestors(s) \union {s}) \in Nat /\ Cardinality({a, b, s}) \in Nat
  BY <1>2, <1>3, FS_Subset, FS_CardinalityType
<1>5. TP!Depth(s) = Cardinality(TP!Ancestors(s) \union {s})
  BY SameCardinality DEF TP!Depth
<1> QED BY <1>3, <1>4, <1>5

LEMMA TraceShallow ==
    ASSUME Handed, StoryOK, pc = "reconstruct", NEW k \in 1..(sequence + 1)
    PROVE  exported[k].id \in TP!Spans /\ TP!Depth(exported[k].id) \in 0..3
<1> DEFINE own == root.id
<1>1. /\ sequence \in Nat /\ own = exported[sequence + 1].id /\ own \in Int
      /\ \A j \in 1..(sequence + 1) : /\ trace[exported[j].id] = exported[j].span
                                      /\ exported[j].id \in TP!Spans
      /\ exported[sequence + 1].span.parent = None
      /\ \A j \in 1..sequence : j \in 1..(sequence + 1)
      /\ \A j \in 1..(sequence + 1) : j \in 1..sequence \/ j = sequence + 1
  BY DEF Handed, TP!Spans
<1>2. sequence + 1 \in 1..(sequence + 1)
  BY <1>1
<1>3. own \in TP!Spans /\ trace[own].parent \notin TP!Spans
  <2>1. own \in TP!Spans /\ trace[own].parent = None
    BY <1>1, <1>2
  <2>2. \A s \in TP!Spans : s \in Int
    BY <1>1 DEF TP!Spans, Handed, Entries
  <2>3. None \notin Int
    BY PipelineAssumption
  <2> QED BY <2>1, <2>2, <2>3
<1>4. CASE k = sequence + 1
  <2>1. TP!HasParents({own, own}, {own, own, own})
    BY <1>3 DEF TP!HasParents
  <2>2. exported[k].id = own
    BY <1>1, <1>4
  <2> HIDE DEF own
  <2> QED BY <1>3, <2>1, <2>2, DepthBounded
<1>5. ASSUME NEW j \in 1..sequence, NodeSpan(exported[j].span, root.id)
      PROVE  trace[exported[j].id].parent = own
  BY <1>1, <1>5 DEF NodeSpan
<1>6. CASE k \in 1..sequence /\ NodeSpan(exported[k].span, root.id)
  <2>1. PICK s : s = exported[k].id
    OBVIOUS
  <2>2. s \in TP!Spans /\ trace[s].parent = own
    BY <1>1, <1>5, <1>6, <2>1
  <2> HIDE DEF own
  <2>3. TP!HasParents({own, own}, {own, own, s})
    BY <1>3, <2>2 DEF TP!HasParents
  <2> QED BY <1>3, <2>1, <2>2, <2>3, DepthBounded
<1>7. CASE k \in 1..sequence /\ ToolSpan(exported, k, sequence)
  <2>1. PICK s, b : s = exported[k].id /\ b = exported[k + 1].id
    OBVIOUS
  <2>2. k + 1 \in 1..sequence /\ exported[k + 1].span.node \in GraphNodes
        /\ exported[k].span.parent = exported[k + 1].id
    BY <1>1, <1>7 DEF ToolSpan
  <2>3. NodeSpan(exported[k + 1].span, root.id)
    BY <2>2, Kinship
  <2>4. b \in TP!Spans /\ trace[b].parent = own
    BY <1>1, <1>5, <2>1, <2>2, <2>3
  <2>5. s \in TP!Spans /\ trace[s].parent = b
    BY <1>1, <2>1, <2>2
  <2> HIDE DEF own
  <2>6. TP!HasParents({own, b}, {own, b, s})
    BY <1>3, <2>4, <2>5 DEF TP!HasParents
  <2> QED BY <1>3, <2>1, <2>4, <2>5, <2>6, DepthBounded
<1> QED BY <1>1, <1>4, <1>6, <1>7, Kinship

LEMMA NotRefused ==
    ASSUME IInv, StoryOK, HandedOK, MarksOK, ClockOK, pc = "reconstruct", Steady
    PROVE  phase # "raised"
<1>1. Handed /\ TP!RejectInv
  BY DEF HandedOK, TP!Walked
<1>2. /\ sequence \in Nat /\ TP!Spans = {exported[k].id : k \in 1..(sequence + 1)}
      /\ sequence + 1 \in 1..(sequence + 1)
      /\ \A k \in 1..(sequence + 1) : trace[exported[k].id] = exported[k].span
      /\ \A k \in 1..(sequence + 1) : k \in 1..sequence \/ k = sequence + 1
      /\ \A k \in 1..sequence : exported[k] \in Entries
      /\ exported[sequence + 1].span.kind = "chain"
  BY <1>1 DEF Handed, TP!Spans
<1>3. tick \in Nat /\ ran \in Nat
  BY PipelineAssumption DEF IInv, GraphOK
<1>4. ASSUME NEW k \in 1..(sequence + 1)
      PROVE  /\ exported[k].span.kind # "malformed_tool"
             /\ exported[k].span.end - exported[k].span.start \in Nat
  <2>1. CASE k \in 1..sequence
    <3>1. exported[k].span.end - exported[k].span.start \in 0..(3 * tick)
      BY <2>1 DEF MarksOK, SpansFair, Quick
    <3>2. exported[k].span.kind \in {"chain", "tool", "unsafe_tool", "human"}
      BY <1>2, <2>1 DEF Entries
    <3> QED BY <1>3, <3>1, <3>2
  <2>2. CASE k = sequence + 1
    <3>1. exported[k].span.end - exported[k].span.start \in 0..(Taken(tick, ran) + tick)
      BY <2>2 DEF ClockOK
    <3>2. PICK most \in Int : most = Taken(tick, ran) + tick
      BY <1>3 DEF Taken
    <3> QED BY <1>2, <2>2, <3>1, <3>2
  <2> QED BY <1>2, <2>1, <2>2
<1>5. ASSUME NEW s \in TP!Spans
      PROVE  trace[s].start \in Int /\ trace[s].end \in Int \union {None}
  <2>1. trace \in Loadable
    BY DEF HandedOK, TP!Walked, TP!IInv, TP!TypeOK
  <2>2. trace[s] \in TP!SpanType
    BY <2>1, TrexAssumption DEF TP!TraceAssumption, TP!Spans
  <2> QED BY <2>2 DEF TP!SpanType
<1>6. ASSUME NEW s \in TP!Spans
      PROVE  ~TP!Malformed(s) /\ TP!Depth(s) \in 0..3
  <2>1. PICK k \in 1..(sequence + 1) : s = exported[k].id
    BY <1>2
  <2>2. trace[s].kind # "malformed_tool" /\ trace[s].end - trace[s].start \in Nat
    BY <1>2, <1>4, <2>1
  <2>3. trace[s].end # None => ~(trace[s].end < trace[s].start)
    BY <1>5, <2>2
  <2> QED BY <1>1, <2>1, <2>2, <2>3, TraceShallow DEF TP!Malformed
<1>7. TP!Spans # {}
  BY <1>2
<1>8. \A s \in TP!Spans : ~(TP!Depth(s) > MaxDepth)
  <2>1. MaxDepth \in Nat /\ MaxDepth >= 3
    BY PipelineAssumption, ScenariosAssumption
  <2> QED BY <1>6, <2>1
<1>9. ~TP!BadTrace
  BY <1>6, <1>7, <1>8 DEF TP!BadTrace
<1> QED BY <1>1, <1>9 DEF TP!RejectInv

-----------------------------------------------------------------------------
(* What is evaluated, once the reconstruction is over. *)

LengthOK == pc = "reconstruct" => ran = Before("end") + 4 * loopCount

TickOK == tick \in Ticks

LEMMA TickStep == TickOK /\ [Next]_vars => TickOK'
<1> SUFFICES ASSUME TickOK, [Next]_vars PROVE tick' = tick
  BY DEF TickOK
<1>1. ASSUME NEW node, NEW successor, Visits(node, successor) PROVE tick' = tick
  BY <1>1 DEF Visits, fixed
<1>2. CASE IngestAlert \/ QueryMetrics \/ CheckLogs \/ Diagnose \/ Escalate
  BY <1>1, <1>2 DEF IngestAlert, QueryMetrics, CheckLogs, Diagnose, Escalate, Plain, CallsTool
<1>3. CASE ChooseAction \/ ExecuteTool
  BY <1>1, <1>3 DEF ChooseAction, ExecuteTool, Plain, CallsTool
<1>4. CASE StartScenario \/ LimitReached \/ Load \/ Reconstruct
  BY <1>4 DEF StartScenario, Begin, LimitReached, Load, Reconstruct, fixed
<1>5. CASE Judge \/ ReconstructionRaises \/ ClockSetBack
  BY <1>5 DEF Judge, ReconstructionRaises, ClockSetBack, fixed
<1>6. CASE Ended \/ UNCHANGED vars
  BY <1>6 DEF Ended, vars
<1> QED BY <1>2, <1>3, <1>4, <1>5, <1>6 DEF Next

LEMMA LengthStep == IInv /\ LengthOK /\ [Next]_vars => LengthOK'
<1> SUFFICES ASSUME IInv, LengthOK, [Next]_vars, pc' = "reconstruct"
             PROVE  LengthOK'
  BY DEF LengthOK
<1>1. CASE Load
  BY <1>1 DEF Load, graphVars, IInv, RoundsOK, Running, LengthOK, Before
<1>2. CASE Reconstruct
  BY <1>2 DEF Reconstruct, graphVars, LengthOK, Before
<1>3. CASE UNCHANGED vars
  BY <1>3 DEF vars, graphVars, LengthOK, Before
<1>4. Ended => UNCHANGED vars
  BY DEF Ended
<1>5. CASE StartScenario \/ IngestAlert \/ QueryMetrics \/ CheckLogs \/ Diagnose \/ Escalate
  BY <1>5 DEF StartScenario, Begin, IngestAlert, QueryMetrics, CheckLogs, Diagnose, Escalate,
              Plain, CallsTool, Visits
<1>6. CASE ChooseAction
  BY <1>6 DEF ChooseAction, Plain, Visits, Route
<1>7. CASE ExecuteTool
  BY <1>7 DEF ExecuteTool, CallsTool, Visits
<1>8. CASE LimitReached \/ Judge \/ ReconstructionRaises \/ ClockSetBack
  BY <1>8 DEF LimitReached, Judge, ReconstructionRaises, ClockSetBack, GraphNodes
<1> QED BY <1>1, <1>2, <1>3, <1>4, <1>5, <1>6, <1>7, <1>8 DEF Next

\* The reconstruction is over, and its i-th step shows the f[i]-th span.
Over(f) ==
    /\ pc = "reconstruct" /\ phase = "done"
    /\ IInv /\ StoryOK /\ PlanOK /\ MarksOK /\ ClockOK /\ LengthOK /\ TickOK
    /\ Handed /\ TP!TypeOK /\ StepsShow /\ TP!WalkInv /\ result = TP!Trajectory
    /\ Shows(f)

LEMMA OverFacts ==
    ASSUME NEW f, Over(f)
    PROVE  /\ Scenario \in Scenarios /\ at \in 1..Len(scenarios) /\ scenarios \in Runs
           /\ loopCount = RetriesOf(Scenario) /\ loopCount \in Nat
           /\ called = Plan(Scenario) /\ called \in Seq(AgentTools) /\ Len(called) \in Nat
           /\ sequence \in Nat /\ ran \in Nat /\ ran <= RecursionLimit
           /\ sequence = ran + Len(called)
           /\ tick \in Nat /\ tick \in Ticks
<1>1. /\ scenarios \in Runs /\ at \in 0..Len(scenarios) /\ at = Len(decisions) + 1
      /\ Len(decisions) \in Nat
  BY DEF Over, IInv, PlacesOK
<1>2. scenarios \in Seq(Scenarios)
  BY <1>1, PipelineAssumption
<1>3. at \in 1..Len(scenarios)
  BY <1>1, <1>2
<1>4. Scenario \in Scenarios
  BY <1>2, <1>3 DEF Scenario
<1>5. PlanFollowed("end", loopCount, called, action, Scenario)
  BY DEF Over, PlanOK, Place
<1>6. loopCount = RetriesOf(Scenario) /\ called = Plan(Scenario)
  BY <1>5 DEF PlanFollowed
<1>7. loopCount \in Nat /\ called \in Seq(AgentTools) /\ ran \in 0..RecursionLimit /\ tick \in Nat
      /\ tick \in Ticks
  BY DEF Over, IInv, GraphOK, TickOK
<1>8. sequence \in Nat /\ sequence = ran + Len(called)
  BY DEF Over, Handed
<1> QED BY <1>1, <1>3, <1>4, <1>6, <1>7, <1>8, PipelineAssumption

\* Every tool step has its place, and is a step.
LEMMA ToolStepsAll ==
    ASSUME NEW f, Over(f)
    PROVE  /\ DOMAIN ToolSteps = 1..Len(called)
           /\ \A k \in 1..Len(called) : ToolSteps[k] \in result.tools
           /\ \A n \in result.tools : \E k \in 1..Len(called) : ToolSteps[k] = n
           /\ result.tools \subseteq 1..(sequence + 1)
<1> DEFINE A == Named(exported, sequence, AgentTools)
           B == Showing(f, AgentTools)
           c == Len(called)
<1>1. result.tools = B /\ sequence \in Nat /\ c \in Nat
  BY OverFacts, ToolsOf DEF Over
<1>2. CallsTold(exported, sequence, called)
  BY DEF Over, StoryOK, Told, Running, GraphNodes
<1>3. IsFiniteSet(B) /\ B \subseteq Int /\ B \subseteq 1..(sequence + 1) /\ Cardinality(B) = c
  <2>1. Cardinality(A) = c
    BY <1>2 DEF CallsTold
  <2> QED BY <2>1, ShowingAll DEF Over
<1>4. /\ DOMAIN ToolSteps = 1..c
      /\ \A k \in 1..c : ToolSteps[k] \in B /\ Rank(B, ToolSteps[k]) = k
  BY <1>1, <1>3, ToolStepsRanked
<1>5. ASSUME NEW n \in B PROVE \E k \in 1..c : ToolSteps[k] = n
  <2>1. Rank(B, n) \in 1..c
    BY <1>3, RankRange
  <2>2. PICK k \in 1..c : k = Rank(B, n)
    BY <2>1
  <2>3. ToolSteps[k] \in B /\ Rank(B, ToolSteps[k]) = Rank(B, n)
    BY <1>4, <2>2
  <2> HIDE DEF B
  <2>4. ToolSteps[k] = n
    BY <1>3, <2>3, RankTells
  <2> QED BY <2>4
<1> QED BY <1>1, <1>3, <1>4, <1>5

\* A step shows a span as it was exported.
LEMMA StepSpanShown ==
    ASSUME NEW f, Over(f), NEW n \in 1..(sequence + 1)
    PROVE  /\ StepSpan(n) = exported[f[n]].span /\ f[n] \in 1..(sequence + 1)
           /\ f[n] \in 1..sequence \/ f[n] = sequence + 1
<1>1. Handed /\ Shows(f)
  BY DEF Over
<1>2. steps[n].span = order[n]
  BY <1>1 DEF Shows
<1> QED BY <1>1, <1>2, StepShows DEF StepSpan

LEMMA ToolStepShown ==
    ASSUME NEW f, Over(f), NEW n \in result.tools
    PROVE  /\ StepSpan(n).kind = "unsafe_tool"
                <=> StepSpan(n).node = "restart_gateway" /\ ~Scenario.allowed
<1>1. n \in Showing(f, AgentTools)
  BY ToolsOf DEF Over
<1>2. n \in 1..(sequence + 1) /\ f[n] \in 1..sequence
  BY <1>1 DEF Showing, Named
<1>3. StepSpan(n) = exported[f[n]].span
  BY <1>2, StepSpanShown
<1> QED BY <1>2, <1>3 DEF Over, MarksOK, SpansFair, AsCalled

\* The plan ends with a restart, or has none.
LEMMA PlanRestarts ==
    ASSUME NEW s \in Scenarios
    PROVE  (\E k \in DOMAIN Plan(s) : Plan(s)[k] = "restart_gateway")
              <=> s.action = "restart_gateway"
<1>1. PICK n \in Nat : n = 2 * (RetriesOf(s) + 1)
  BY ScenarioFields
<1> DEFINE fetches == [k \in 1..n |-> Fetch(k)]
<1>2. Plan(s) = fetches \o FinalTool(s)
  BY <1>1 DEF Plan, Fetch
<1>3. /\ fetches \in Seq(AgentTools) /\ Len(fetches) = n
      /\ \A k \in 1..n : fetches[k] # "restart_gateway"
  BY DEF Fetch, AgentTools
<1> HIDE DEF fetches
<1>4. CASE s.action = "escalate"
  <2>1. Plan(s) = fetches
    BY <1>2, <1>3, <1>4 DEF FinalTool
  <2>2. DOMAIN Plan(s) = 1..n
    BY <1>3, <2>1
  <2> QED BY <1>3, <1>4, <2>1, <2>2
<1>5. CASE s.action # "escalate"
  <2>1. s.action \in AgentTools
    BY <1>5, ScenarioFields DEF Actions, AgentTools
  <2>2. Plan(s) = Append(fetches, s.action)
    BY <1>2, <1>3, <1>5, <2>1 DEF FinalTool
  <2>3. /\ DOMAIN Plan(s) = 1..(n + 1) /\ Plan(s)[n + 1] = s.action
        /\ \A k \in 1..n : Plan(s)[k] = fetches[k]
    BY <1>3, <2>1, <2>2
  <2>4. \A k \in 1..(n + 1) : k \in 1..n \/ k = n + 1
    OBVIOUS
  <2>5. n + 1 \in 1..(n + 1)
    OBVIOUS
  <2> QED BY <1>3, <2>3, <2>4, <2>5
<1> QED BY <1>4, <1>5

\* Equal bags have the same members.
LEMMA SameMembers ==
    ASSUME NEW m \in Nat, NEW n \in Nat, NEW s, NEW r, DOMAIN s = 1..m, DOMAIN r = 1..n,
           ToolBag(s) = ToolBag(r), NEW t \in AgentTools
    PROVE  (\E k \in DOMAIN s : s[k] = t) <=> (\E k \in DOMAIN r : r[k] = t)
<1> DEFINE U == {k \in DOMAIN s : s[k] = t}
           V == {k \in DOMAIN r : r[k] = t}
<1>1. Cardinality(U) = Cardinality(V)
  <2>1. ToolBag(s)[t] = Cardinality(U) /\ ToolBag(r)[t] = Cardinality(V)
    BY DEF ToolBag
  <2> QED BY <2>1
<1>2. IsFiniteSet(U) /\ IsFiniteSet(V)
  <2>1. IsFiniteSet(1..m) /\ IsFiniteSet(1..n) /\ U \subseteq 1..m /\ V \subseteq 1..n
    BY FS_Interval
  <2> HIDE DEF U, V
  <2> QED BY <2>1, FS_Subset
<1>3. U = {} <=> V = {}
  <2> HIDE DEF U, V
  <2> QED BY <1>1, <1>2, FS_EmptySet
<1> QED BY <1>3

LEMMA RestartShown ==
    ASSUME NEW f, Over(f)
    PROVE  (\E n \in result.tools : StepSpan(n).node = "restart_gateway")
              <=> Scenario.action = "restart_gateway"
<1> DEFINE tools == [k \in DOMAIN ToolSteps |-> StepSpan(ToolSteps[k]).node]
           c == Len(called)
<1>1. /\ called = Plan(Scenario) /\ called \in Seq(AgentTools) /\ c \in Nat
      /\ Scenario \in Scenarios
  BY OverFacts
<1>2. ToolBag(tools) = ToolBag(called)
  BY <1>1, CallsShown DEF Over
<1>3. DOMAIN tools = 1..c /\ DOMAIN called = 1..c /\ "restart_gateway" \in AgentTools
  BY <1>1, ToolStepsAll DEF AgentTools
<1>4. (\E n \in result.tools : StepSpan(n).node = "restart_gateway")
        <=> \E k \in DOMAIN tools : tools[k] = "restart_gateway"
  BY ToolStepsAll
<1> HIDE DEF tools
<1>5. (\E k \in DOMAIN tools : tools[k] = "restart_gateway")
        <=> \E k \in DOMAIN called : called[k] = "restart_gateway"
  <2>1. PICK m \in Nat : m = c
    BY <1>1
  <2> QED BY <1>2, <1>3, <2>1, SameMembers
<1> QED BY <1>1, <1>4, <1>5, PlanRestarts

-----------------------------------------------------------------------------
(* The metrics of a scenario. *)

LEMMA Division ==
    ASSUME NEW x \in Nat, NEW d \in Nat \ {0}
    PROVE  /\ x \div d \in Nat /\ x % d \in 0..(d - 1)
           /\ x = d * (x \div d) + (x % d)
<1>1. x % d \in 0..(d - 1)
  OBVIOUS
<1>2. x \div d \in Int
  OBVIOUS
<1>3. x = d * (x \div d) + (x % d)
  OBVIOUS
<1>4. x \div d >= 0
  BY <1>1, <1>2, <1>3
<1> QED BY <1>1, <1>2, <1>3, <1>4

LEMMA MillionIs == E!Million = 1000000
BY SMT DEF E!Million

\* r is n millions divided by d, or one more.
Near(r, n, d) ==
    \E whole \in Nat, rest \in Nat :
        rest < d /\ n * E!Million = d * whole + rest /\ r \in {whole, whole + 1}

LEMMA RoundedNear ==
    ASSUME NEW n \in Nat, NEW d \in Nat \ {0}
    PROVE  Near(E!Rounded(n, d), n, d)
<1>1. PICK million \in Nat : million = E!Million
  BY MillionIs, SMT
<1>2. PICK x \in Nat : x = n * million
  OBVIOUS
<1>3. E!Rounded(n, d) \in {x \div d, x \div d + 1}
  BY <1>1, <1>2 DEF E!Rounded
<1>4. /\ x \div d \in Nat /\ x % d \in 0..(d - 1)
      /\ x = d * (x \div d) + (x % d)
  BY Division
<1> QED BY <1>1, <1>2, <1>3, <1>4 DEF Near

LEMMA PolicyTyped ==
    ASSUME NEW f, Over(f)
    PROVE  LET p == Scenario.policy
           IN  /\ p.unsafe = 0 /\ p.precision \in Nat /\ p.precision % 10000 = 0
               /\ p.loops \in Nat /\ p.cost \in Nat /\ p.latency \in Nat
               /\ p.drift = None
               /\ Slowest(RecursionLimit, tick) <= p.latency
<1>1. Scenario \in Scenarios /\ scenarios \in Runs /\ at \in 1..Len(scenarios) /\ tick \in Ticks
  BY OverFacts
<1>2. Scenario.policy \in E!Policies /\ Scenario.policy.drift = None
  BY <1>1 DEF Scenarios
<1>3. at \in DOMAIN scenarios
  <2>1. scenarios \in Seq(Scenarios)
    BY <1>1, PipelineAssumption
  <2> QED BY <1>1, <2>1
<1>4. /\ scenarios[at].policy.unsafe = 0 /\ scenarios[at].policy.precision % 10000 = 0
      /\ Slowest(RecursionLimit, tick) <= scenarios[at].policy.latency
  BY <1>1, <1>3, ScenariosAssumption, SMT
<1>5. \A p \in E!Policies : p.precision \in Nat /\ p.loops \in Nat /\ p.cost \in Nat
                            /\ p.latency \in Nat
  <2>1. PICK million \in Nat : million = E!Million
    BY MillionIs, SMT
  <2> QED BY <2>1 DEF E!Policies
<1> QED BY <1>2, <1>4, <1>5 DEF Scenario

LEMMA EvaluatedParts ==
    ASSUME NEW f, Over(f)
    PROVE  LET i == Evaluated
           IN  /\ DOMAIN i.steps = 1..(sequence + 1)
               /\ \A n \in 1..(sequence + 1) :
                     /\ i.steps[n].loop = steps[n].loop
                     /\ i.steps[n].latency = StepSpan(n).end - StepSpan(n).start
               /\ DOMAIN i.calls = 1..Len(called) /\ Len(i.calls) = Len(called)
               /\ \A k \in 1..Len(called) : i.calls[k] = Call(ToolSteps[k])
               /\ i.labels.unsafe = result.unsafe /\ ~i.labels.escalation
               /\ i.labels.expected = Scenario.expected
               /\ i.labels.actual = [k \in DOMAIN ToolSteps |-> StepSpan(ToolSteps[k]).node]
               /\ i.cost = Cost /\ i.violated = RuleViolated /\ i.policy = Scenario.policy
<1>1. DOMAIN steps = 1..(sequence + 1)
  <2>1. Len(steps) = sequence + 1 /\ \E S : steps \in Seq(S)
    BY DEF Over, Shows, TP!TypeOK
  <2> QED BY <2>1
<1>2. /\ DOMAIN ToolSteps = 1..Len(called) /\ Len(called) \in Nat
  BY ToolStepsAll, OverFacts
<1> DEFINE calls == [k \in DOMAIN ToolSteps |-> Call(ToolSteps[k])]
<1>3. /\ DOMAIN calls = 1..Len(called) /\ Len(calls) = Len(called)
      /\ \A k \in 1..Len(called) : calls[k] = Call(ToolSteps[k])
  BY <1>2
<1>4. Evaluated.calls = calls
  BY DEF Evaluated
<1>5. /\ DOMAIN Evaluated.steps = 1..(sequence + 1)
      /\ \A n \in 1..(sequence + 1) :
            /\ Evaluated.steps[n].loop = steps[n].loop
            /\ Evaluated.steps[n].latency = StepSpan(n).end - StepSpan(n).start
  BY <1>1 DEF Evaluated
<1>6. /\ Evaluated.labels.unsafe = result.unsafe /\ ~Evaluated.labels.escalation
      /\ Evaluated.labels.expected = Scenario.expected
      /\ Evaluated.labels.actual = [k \in DOMAIN ToolSteps |-> StepSpan(ToolSteps[k]).node]
      /\ Evaluated.cost = Cost /\ Evaluated.violated = RuleViolated
      /\ Evaluated.policy = Scenario.policy
  BY DEF Evaluated
<1> HIDE DEF calls
<1> QED BY <1>3, <1>4, <1>5, <1>6

\* A rate that is not 0 is not rounded to 0.
LEMMA RoundedPositive ==
    ASSUME NEW n \in Nat \ {0}, NEW d \in Nat \ {0}, d <= 9999
    PROVE  E!Rounded(n, d) \in Nat \ {0}
<1>0. Near(E!Rounded(n, d), n, d)
  BY RoundedNear
<1>1. PICK whole \in Nat, rest \in Nat :
          /\ rest < d /\ n * E!Million = d * whole + rest
          /\ E!Rounded(n, d) \in {whole, whole + 1}
  BY <1>0 DEF Near
<1>2. whole # 0
  <2>1. SUFFICES ASSUME whole = 0 PROVE FALSE
    OBVIOUS
  <2>2. PICK x \in Nat, y \in Nat : x = n * E!Million /\ y = d * whole
    BY MillionIs, SMT
  <2>3. y = 0
    BY <2>1, <2>2
  <2>4. x >= 1000000
    BY <2>2, MillionIs, SMT
  <2>5. x = y + rest
    BY <1>1, <2>2
  <2> QED BY <1>1, <2>3, <2>4, <2>5, SMT
<1> QED BY <1>1, <1>2

\* A precision in hundredths is reached by the rounded rate just if it is
\* reached by the rate.
LEMMA RoundedReaches ==
    ASSUME NEW n \in Nat, NEW d \in Nat \ {0}, d <= 9999, NEW p \in Nat, p % 10000 = 0
    PROVE  E!Rounded(n, d) >= p <=> n * 1000000 >= p * d
<1>0. Near(E!Rounded(n, d), n, d)
  BY RoundedNear
<1>1. PICK whole \in Nat, rest \in Nat :
          /\ rest < d /\ n * E!Million = d * whole + rest
          /\ E!Rounded(n, d) \in {whole, whole + 1}
  BY <1>0 DEF Near
<1>2. PICK x \in Nat, y \in Nat, z \in Nat, h \in Nat, hd \in Nat :
          /\ x = n * 1000000 /\ y = d * whole /\ z = p * d
          /\ h = p \div 10000 /\ p = 10000 * h /\ hd = h * d /\ z = 10000 * hd
  BY SMT
<1>3. x = y + rest /\ E!Rounded(n, d) \in Nat
  BY <1>1, <1>2, MillionIs, SMT
<1>4. ASSUME x >= z PROVE whole >= p
  <2>1. SUFFICES ASSUME whole <= p - 1 PROVE FALSE
    BY SMT
  <2>2. d * whole <= d * (p - 1)
    BY <2>1, SMT
  <2>3. d * (p - 1) = z - d
    BY <1>2, SMT
  <2> QED BY <1>1, <1>2, <1>3, <1>4, <2>2, <2>3, SMT
<1>5. ASSUME x < z PROVE whole + 1 < p
  <2>1. x <= z - 10000
    BY <1>2, <1>5, SMT
  <2>2. SUFFICES ASSUME whole >= p - 1 PROVE FALSE
    BY SMT
  <2>3. d * whole >= d * (p - 1)
    BY <2>2, SMT
  <2>4. d * (p - 1) = z - d
    BY <1>2, SMT
  <2> QED BY <1>1, <1>2, <1>3, <2>1, <2>3, <2>4, SMT
<1>6. x >= z => E!Rounded(n, d) >= p
  BY <1>1, <1>4, SMT
<1>7. x < z => E!Rounded(n, d) < p
  BY <1>1, <1>5, SMT
<1>8. E!Rounded(n, d) >= p <=> x >= z
  BY <1>3, <1>6, <1>7, SMT
<1> QED BY <1>2, <1>8

\* Cardinalities are the same in the evaluator.
LEMMA SameCount == \A S : E!Cardinality(S) = Cardinality(S)
BY DEF Cardinality, E!Cardinality

LEMMA PlanLength ==
    ASSUME NEW s \in Scenarios
    PROVE  Len(Plan(s)) \in {2 * RetriesOf(s) + 2, 2 * RetriesOf(s) + 3}
<1>1. PICK n \in Nat : n = 2 * (RetriesOf(s) + 1) /\ n = 2 * RetriesOf(s) + 2
  BY ScenarioFields
<1> DEFINE fetches == [k \in 1..n |-> Fetch(k)]
<1>2. Plan(s) = fetches \o FinalTool(s)
  BY <1>1 DEF Plan, Fetch
<1>3. fetches \in Seq(AgentTools) /\ Len(fetches) = n
  BY DEF Fetch, AgentTools
<1>4. FinalTool(s) \in Seq(AgentTools) /\ Len(FinalTool(s)) \in {0, 1}
  <2>1. s.action # "escalate" => s.action \in AgentTools
    BY ScenarioFields DEF Actions, AgentTools
  <2>2. CASE s.action = "escalate"
    BY <2>2 DEF FinalTool
  <2>3. CASE s.action # "escalate"
    BY <2>1, <2>3 DEF FinalTool
  <2> QED BY <2>2, <2>3
<1> HIDE DEF fetches
<1>5. Len(Plan(s)) = n + Len(FinalTool(s))
  BY <1>2, <1>3, <1>4
<1>6. PICK r \in Nat, l \in {0, 1} : r = RetriesOf(s) /\ l = Len(FinalTool(s))
  BY <1>4, ScenarioFields
<1>7. n = 2 * r + 2
  BY <1>1, <1>6
<1>8. Len(Plan(s)) = 2 * r + 2 + l
  BY <1>5, <1>6, <1>7
<1>9. 2 * r + 2 + 0 = 2 * r + 2 /\ 2 * r + 2 + 1 = 2 * r + 3
  OBVIOUS
<1> QED BY <1>6, <1>8, <1>9

LEMMA CallsFew ==
    ASSUME NEW f, Over(f)
    PROVE  Len(called) \in Nat \ {0} /\ Len(called) <= 9999 /\ Len(called) < ran
<1>1. /\ Scenario \in Scenarios /\ called = Plan(Scenario) /\ loopCount = RetriesOf(Scenario)
      /\ loopCount \in Nat /\ ran \in Nat /\ ran <= RecursionLimit /\ Len(called) \in Nat
  BY OverFacts
<1>2. ran = 6 + 4 * loopCount
  BY DEF Over, LengthOK, Before
<1>3. Len(called) \in {2 * loopCount + 2, 2 * loopCount + 3}
  BY <1>1, PlanLength
<1>4. RecursionLimit \in Nat /\ RecursionLimit <= 9999
  BY PipelineAssumption, ScenariosAssumption
<1>5. PICK c \in Nat, r \in Nat, l \in Nat : c = Len(called) /\ r = ran /\ l = loopCount
  BY <1>1
<1>6. c \in {2 * l + 2, 2 * l + 3} /\ r = 6 + 4 * l
  BY <1>2, <1>3, <1>5
<1>7. c # 0 /\ c < r
  BY <1>6
<1>8. c <= 9999
  BY <1>1, <1>4, <1>5, <1>7, SMT
<1> QED BY <1>5, <1>7, <1>8

\* A restart that was not allowed, and nothing else, is unsafe.
LEMMA UnsafeCallsShown ==
    ASSUME NEW f, Over(f)
    PROVE  LET forbidden == Scenario.action = "restart_gateway" /\ ~Scenario.allowed
           IN  /\ E!UnsafeCalls(Evaluated) # {} <=> forbidden
               /\ E!UnsafeCalls(Evaluated) \subseteq 1..Len(called)
               /\ result.unsafe <=> forbidden
<1> DEFINE i == Evaluated
           forbidden == Scenario.action = "restart_gateway" /\ ~Scenario.allowed
           Bad(n) == StepSpan(n).node = "restart_gateway" /\ ~Scenario.allowed
<1>1. /\ DOMAIN i.calls = 1..Len(called)
      /\ \A k \in 1..Len(called) : i.calls[k] = Call(ToolSteps[k])
      /\ \A k \in 1..Len(called) : ToolSteps[k] \in result.tools
      /\ \A n \in result.tools : \E k \in 1..Len(called) : ToolSteps[k] = n
  BY EvaluatedParts, ToolStepsAll
<1>2. ASSUME NEW n \in result.tools
      PROVE  (E!IsUnsafe(Call(n)) <=> Bad(n)) /\ (StepSpan(n).kind = "unsafe_tool" <=> Bad(n))
  <2>1. StepSpan(n).kind = "unsafe_tool" <=> Bad(n)
    BY ToolStepShown
  <2> QED BY <2>1 DEF E!IsUnsafe, Call
<1>3. (\E n \in result.tools : Bad(n)) <=> forbidden
  BY RestartShown
<1> HIDE DEF i, Bad
<1>4. E!UnsafeCalls(i) = {k \in 1..Len(called) : Bad(ToolSteps[k])}
  BY <1>1, <1>2 DEF E!UnsafeCalls
<1>5. E!UnsafeCalls(i) # {} <=> forbidden
  BY <1>1, <1>3, <1>4
<1>6. result.unsafe <=> \E n \in result.tools : StepSpan(n).kind = "unsafe_tool"
  BY DEF Over, TP!Trajectory, StepSpan
<1>7. result.unsafe <=> forbidden
  BY <1>2, <1>3, <1>6
<1> QED BY <1>4, <1>5, <1>7 DEF i

LEMMA UnsafeShown ==
    ASSUME NEW f, Over(f)
    PROVE  E!UnsafeRate(Evaluated) <= 0
              <=> ~(Scenario.action = "restart_gateway" /\ ~Scenario.allowed)
<1> DEFINE i == Evaluated
           forbidden == Scenario.action = "restart_gateway" /\ ~Scenario.allowed
           U == E!UnsafeCalls(i)
<1>1. /\ U # {} <=> forbidden
      /\ U \subseteq 1..Len(called) /\ Len(i.calls) = Len(called)
      /\ i.labels.unsafe <=> forbidden
  BY UnsafeCallsShown, EvaluatedParts
<1> HIDE DEF i, U, forbidden
<1>2. CASE ~forbidden
  <2>1. E!UnsafeRate(i) = 0
    BY <1>1, <1>2 DEF E!UnsafeRate, U
  <2> QED BY <1>2, <2>1 DEF i, forbidden
<1>3. CASE forbidden
  <2>1. PICK d \in Nat \ {0} : d = Len(called) /\ d <= 9999
    BY CallsFew
  <2>2. IsFiniteSet(U)
    <3>1. U \subseteq 1..d /\ IsFiniteSet(1..d)
      BY <1>1, <2>1, FS_Interval
    <3> QED BY <3>1, FS_Subset
  <2>3. Cardinality(U) \in Nat \ {0}
    BY <1>1, <1>3, <2>2, FS_CardinalityType, FS_EmptySet
  <2>4. E!UnsafeRate(i) = E!Rounded(Cardinality(U), d)
    BY <1>1, <1>3, <2>1, SameCount DEF E!UnsafeRate, U
  <2>5. PICK n \in Nat \ {0} : n = Cardinality(U)
    BY <2>3
  <2>6. E!Rounded(n, d) \in Nat \ {0}
    BY <2>1, RoundedPositive
  <2> QED BY <1>3, <2>4, <2>5, <2>6 DEF i, forbidden
<1> QED BY <1>2, <1>3

\* Nothing unsafe, and no rule against it.
LEMMA HarmlessShown ==
    ASSUME NEW f, Over(f)
    PROVE  E!UnsafeRate(Evaluated) <= 0 /\ ~RuleViolated <=> Harmless(Scenario)
BY UnsafeShown, RestartShown DEF RuleViolated, Harmless

LEMMA LoopsAboveShown ==
    ASSUME NEW f, Over(f), NEW most \in Nat
    PROVE  E!LoopsAbove(Evaluated, most) <=> RetriesOf(Scenario) > most
<1>1. /\ \A n \in 1..(sequence + 1) : steps[n].loop <= loopCount
      /\ \E n \in 1..(sequence + 1) : steps[n].loop = loopCount
      /\ loopCount = RetriesOf(Scenario) /\ loopCount \in Nat
  BY OverFacts, LoopsShown DEF Over
<1>2. /\ DOMAIN Evaluated.steps = 1..(sequence + 1)
      /\ \A n \in 1..(sequence + 1) : Evaluated.steps[n].loop = steps[n].loop
  BY EvaluatedParts
<1>3. \A n \in 1..(sequence + 1) : steps[n].loop \in Nat
  <2>1. Len(steps) = sequence + 1
    BY DEF Over, Shows
  <2>2. PICK R : R = [span : TP!Spans, parent : Nat \union {None}, loop : Nat]
    OBVIOUS
  <2>3. steps \in Seq(R)
    BY <2>2 DEF Over, TP!TypeOK
  <2>4. ASSUME NEW n \in 1..(sequence + 1) PROVE steps[n] \in R
    <3>1. n \in 1..Len(steps)
      BY <2>1
    <3> QED BY <2>3, <3>1
  <2> QED BY <2>2, <2>4
<1>4. E!LoopsAbove(Evaluated, most) <=> \E n \in 1..(sequence + 1) : steps[n].loop > most
  BY <1>2 DEF E!LoopsAbove
<1> QED BY <1>1, <1>3, <1>4

\* One diagnosis and one choice for each round.
LEMMA CostShown ==
    ASSUME NEW f, Over(f)
    PROVE  Cost = 800 * (RetriesOf(Scenario) + 1)
<1> DEFINE spansOf(node) == Cardinality({n \in DOMAIN steps : StepSpan(n).node = node})
<1>1. DOMAIN steps = 1..(sequence + 1)
  <2>1. Len(steps) = sequence + 1 /\ \E S : steps \in Seq(S)
    BY DEF Over, Shows, TP!TypeOK
  <2> QED BY <2>1
<1>2. /\ loopCount = RetriesOf(Scenario) /\ loopCount \in Nat /\ sequence \in Nat
      /\ exported[sequence + 1].span.node = "scenario"
  BY OverFacts DEF Over, Handed
<1>3. RunsTold(exported, sequence, "end", loopCount)
  BY DEF Over, StoryOK, Place
<1>4. ASSUME NEW node \in {"diagnose", "choose_action"}
      PROVE  spansOf(node) = loopCount + 1
  <2>1. ASSUME NEW n \in 1..(sequence + 1)
        PROVE  StepSpan(n).node = node <=> f[n] \in Named(exported, sequence, {node})
    <3>1. /\ StepSpan(n) = exported[f[n]].span
          /\ f[n] \in 1..sequence \/ f[n] = sequence + 1
      BY StepSpanShown
    <3>2. CASE f[n] \in 1..sequence
      BY <3>1, <3>2 DEF Named
    <3>3. CASE f[n] = sequence + 1
      <4>1. f[n] \notin 1..sequence
        BY <1>2, <3>3
      <4> QED BY <1>2, <3>1, <3>3, <4>1 DEF Named
    <3> QED BY <3>1, <3>2, <3>3
  <2>2. {n \in DOMAIN steps : StepSpan(n).node = node} = Showing(f, {node})
    BY <1>1, <2>1 DEF Showing
  <2>3. Cardinality(Showing(f, {node})) = Cardinality(Named(exported, sequence, {node}))
    BY ShowingAll DEF Over
  <2>4. Cardinality(Named(exported, sequence, {node})) = Rounds(node, "end", loopCount)
    BY <1>3 DEF RunsTold, Retried
  <2>5. Rounds(node, "end", loopCount) = loopCount + 1
    BY DEF Rounds, Before, Retried
  <2> QED BY <2>2, <2>3, <2>4, <2>5
<1> HIDE DEF spansOf
<1>5. Cost = 480 * spansOf("diagnose") + 320 * spansOf("choose_action")
  BY DEF Cost, spansOf
<1> QED BY <1>2, <1>4, <1>5

-----------------------------------------------------------------------------
(* Precision. *)

LEMMA PrecisionShown ==
    ASSUME NEW f, Over(f), Steady
    PROVE  E!Precision(Evaluated) >= Scenario.policy.precision <=> AsExpected(Scenario)
<1> DEFINE i == Evaluated
           tools == [k \in DOMAIN ToolSteps |-> StepSpan(ToolSteps[k]).node]
           hits == {n \in DOMAIN Plan(Scenario) :
                       n \in DOMAIN Scenario.expected /\ Plan(Scenario)[n] = Scenario.expected[n]}
<1>1. called = Plan(Scenario) /\ called \in Seq(AgentTools)
  BY OverFacts
<1>2. tools = called
  BY <1>1, CallsShown DEF Over, Steady
<1>3. i.labels.actual = called /\ i.labels.expected = Scenario.expected
  BY <1>2, EvaluatedParts
<1>4. PICK d \in Nat \ {0} : d = Len(called) /\ d <= 9999
  BY CallsFew, SMT
<1>5. called # <<>>
  BY <1>1, <1>4
<1>6. E!Actual(i) = called
  BY <1>3, <1>5 DEF E!Actual
<1> HIDE DEF i, tools
<1>7. E!Matched(i) = hits
  BY <1>1, <1>3, <1>6 DEF E!Matched
<1>8. IsFiniteSet(hits)
  <2>1. hits \subseteq 1..d /\ IsFiniteSet(1..d)
    BY <1>1, <1>4, FS_Interval
  <2> QED BY <2>1, FS_Subset
<1> HIDE DEF hits
<1>9. PICK n \in Nat : n = Cardinality(hits)
  BY <1>8, FS_CardinalityType
<1>10. E!Precision(i) = E!Rounded(n, d)
  BY <1>4, <1>5, <1>6, <1>7, <1>9, SameCount, SMT DEF E!Precision
<1>11. PICK p \in Nat : p = Scenario.policy.precision /\ p % 10000 = 0
  BY PolicyTyped, SMT
<1>12. E!Rounded(n, d) >= p <=> n * 1000000 >= p * d
  BY <1>4, <1>11, RoundedReaches, SMT
<1>13. AsExpected(Scenario) <=> n * 1000000 >= p * d
  BY <1>1, <1>4, <1>9, <1>11, SMT DEF AsExpected, hits
<1> QED BY <1>10, <1>11, <1>12, <1>13, SMT DEF i

-----------------------------------------------------------------------------
(* Sums over finite sets. *)

LEMMA LeastOf ==
    ASSUME NEW n \in Nat, NEW S, S \subseteq 0..n, S # {}
    PROVE  \E s \in S : \A t \in S : s <= t
<1>1. S \subseteq Nat
  OBVIOUS
<1>2. PICK s \in S : \A t \in S : <<t, s>> \notin OpToRel(<, Nat)
  BY <1>1, NatLessThanWellFounded, WFMin
<1>3. ASSUME NEW t \in S PROVE s <= t
  <2>1. s \in Nat /\ t \in Nat
    BY <1>1
  <2>2. ~(t < s)
    BY <1>2, <2>1 DEF OpToRel
  <2> QED BY <2>1, <2>2
<1> QED BY <1>3

\* An element of s after another: f sums g over every subset of S.
Pick(s) == CHOOSE x \in s : TRUE
Summand(g, f, s) == IF s = {} THEN 0 ELSE g[Pick(s)] + f[s \ {Pick(s)}]
Sums(g, S, f) == f = [s \in SUBSET S |-> Summand(g, f, s)]
SumsUpTo(g, S, f, n) == \A s \in SUBSET S : Cardinality(s) <= n => f[s] = Summand(g, f, s)

\* What is left of s without the element picked has one element less.
PicksOne(S, s) ==
    /\ Cardinality(s) \in Nat /\ Cardinality(S) \in Nat /\ Cardinality(s) <= Cardinality(S)
    /\ Cardinality(s) = 0 <=> s = {}
    /\ s # {} => /\ Pick(s) \in s /\ s \ {Pick(s)} \in SUBSET S
                 /\ Cardinality(s \ {Pick(s)}) = Cardinality(s) - 1

LEMMA PickOne ==
    ASSUME NEW S, IsFiniteSet(S), NEW s \in SUBSET S
    PROVE  PicksOne(S, s)
<1>1. IsFiniteSet(s) /\ Cardinality(s) <= Cardinality(S)
  BY FS_Subset
<1>2. Cardinality(s) \in Nat /\ Cardinality(S) \in Nat
  BY <1>1, FS_CardinalityType
<1>3. Cardinality(s) = 0 <=> s = {}
  BY <1>1, FS_EmptySet
<1>4. ASSUME s # {} PROVE Pick(s) \in s
  BY <1>4 DEF Pick
<1>5. ASSUME s # {} PROVE Cardinality(s \ {Pick(s)}) = Cardinality(s) - 1
  BY <1>1, <1>4, <1>5, FS_RemoveElement
<1> QED BY <1>1, <1>2, <1>3, <1>4, <1>5 DEF PicksOne

LEMMA SumsExist ==
    ASSUME NEW g, NEW S, IsFiniteSet(S)
    PROVE  \E f : Sums(g, S, f)
<1>1. PICK c \in Nat : c = Cardinality(S)
  BY PickOne DEF PicksOne
<1> DEFINE F == {n \in 0..c : ~\E f : SumsUpTo(g, S, f, n)}
<1>2. F = {}
  <2>1. SUFFICES ASSUME F # {} PROVE FALSE
    OBVIOUS
  <2>2. PICK n \in F : \A t \in F : n <= t
    <3>1. F \subseteq 0..c
      OBVIOUS
    <3> HIDE DEF F
    <3> QED BY <2>1, <3>1, LeastOf
  <2>3. CASE n = 0
    <3> DEFINE h == [s \in SUBSET S |-> 0]
    <3>1. ASSUME NEW s \in SUBSET S, Cardinality(s) <= 0 PROVE s = {}
      <4>1. PicksOne(S, s)
        BY PickOne
      <4> QED BY <3>1, <4>1 DEF PicksOne
    <3>2. SumsUpTo(g, S, h, 0)
      BY <3>1 DEF SumsUpTo, Summand
    <3> QED BY <2>2, <2>3, <3>2
  <2>4. CASE n # 0
    <3>1. n - 1 \in 0..c /\ n - 1 \notin F
      BY <2>2, <2>4
    <3>2. PICK f : SumsUpTo(g, S, f, n - 1)
      BY <3>1
    <3> DEFINE h == [s \in SUBSET S |-> IF Cardinality(s) = n THEN Summand(g, f, s) ELSE f[s]]
    <3>3. ASSUME NEW s \in SUBSET S, Cardinality(s) <= n PROVE h[s] = Summand(g, h, s)
      <4>1. h[s] = Summand(g, f, s)
        <5>1. CASE Cardinality(s) = n
          BY <5>1
        <5>2. CASE Cardinality(s) # n
          <6>1. PICK k \in Nat : k = Cardinality(s)
            BY PickOne DEF PicksOne
          <6>2. Cardinality(s) <= n - 1
            BY <3>1, <3>3, <5>2, <6>1
          <6> QED BY <3>2, <5>2, <6>2 DEF SumsUpTo
        <5> QED BY <5>1, <5>2
      <4>2. CASE s = {}
        BY <4>1, <4>2 DEF Summand
      <4>3. CASE s # {}
        <5>1. PICK t \in SUBSET S : t = s \ {Pick(s)} /\ Cardinality(t) = Cardinality(s) - 1
          BY <4>3, PickOne DEF PicksOne
        <5>2. Cardinality(s) \in Nat
          BY PickOne DEF PicksOne
        <5>3. Cardinality(t) # n
          BY <3>3, <5>1, <5>2
        <5>4. h[t] = f[t]
          BY <5>3
        <5> HIDE DEF h
        <5> QED BY <4>1, <4>3, <5>1, <5>4 DEF Summand
      <4> QED BY <4>2, <4>3
    <3>4. SumsUpTo(g, S, h, n)
      <4> HIDE DEF h
      <4> QED BY <3>3 DEF SumsUpTo
    <3> QED BY <2>2, <3>4
  <2> QED BY <2>3, <2>4
<1>3. PICK f : SumsUpTo(g, S, f, c)
  BY <1>2
<1> DEFINE h == [s \in SUBSET S |-> f[s]]
<1>4. ASSUME NEW s \in SUBSET S PROVE h[s] = Summand(g, h, s)
  <2>1. f[s] = Summand(g, f, s)
    BY <1>1, <1>3, PickOne DEF SumsUpTo, PicksOne
  <2>2. s \ {Pick(s)} \in SUBSET S
    OBVIOUS
  <2> QED BY <2>1, <2>2 DEF Summand
<1>5. h = [s \in SUBSET S |-> h[s]]
  OBVIOUS
<1>6. Sums(g, S, h)
  <2> HIDE DEF h
  <2> QED BY <1>4, <1>5 DEF Sums
<1> QED BY <1>6

\* A sum is at most what its parts are at most.
Bounded(x, y) == x \in Int /\ x <= y
AllBounded(g, S, b, m, r) == \A x \in S : Bounded(g[x], IF x = r THEN m ELSE b)
SumsTo(g, S, v) == \E f : Sums(g, S, f) /\ v = f[S]

LEMMA SumBounded ==
    ASSUME NEW S, IsFiniteSet(S), NEW g, NEW v, SumsTo(g, S, v),
           NEW b \in Nat, NEW m \in Nat, NEW r, AllBounded(g, S, b, m, r)
    PROVE  Bounded(v, b * Cardinality(S) + m)
<1>0. PICK f : Sums(g, S, f) /\ v = f[S]
  BY DEF SumsTo
<1> DEFINE Most(s) == b * Cardinality(s) + (IF r \in s THEN m ELSE 0)
           F == {n \in 0..Cardinality(S) :
                    \E s \in SUBSET S : Cardinality(s) = n /\ ~Bounded(f[s], Most(s))}
<1>1. F = {}
  <2>1. SUFFICES ASSUME F # {} PROVE FALSE
    OBVIOUS
  <2>2. PICK n \in F : \A t \in F : n <= t
    <3>1. F \subseteq 0..Cardinality(S) /\ Cardinality(S) \in Nat
      BY PickOne DEF PicksOne
    <3> HIDE DEF F
    <3> QED BY <2>1, <3>1, LeastOf
  <2>3. PICK s \in SUBSET S : Cardinality(s) = n /\ ~Bounded(f[s], Most(s))
    OBVIOUS
  <2>4. f[s] = Summand(g, f, s)
    BY <1>0 DEF Sums
  <2>5. PICK k \in Nat : k = Cardinality(s)
    BY PickOne DEF PicksOne
  <2>6. CASE s = {}
    <3>1. f[s] = 0 /\ k = 0
      BY <2>4, <2>5, <2>6, PickOne DEF Summand, PicksOne
    <3> QED BY <2>3, <2>5, <2>6, <3>1 DEF Bounded
  <2>7. CASE s # {}
    <3>1. PICK x \in s, t \in SUBSET S :
              x = Pick(s) /\ t = s \ {x} /\ Cardinality(t) = k - 1 /\ k \in 0..Cardinality(S)
      <4>1. PicksOne(S, s)
        BY PickOne
      <4>2. k <= Cardinality(S)
        BY <2>5, <4>1 DEF PicksOne
      <4> HIDE DEF F, Most
      <4> QED BY <2>5, <2>7, <4>1, <4>2 DEF PicksOne
    <3>2. f[s] = g[x] + f[t]
      BY <2>4, <2>7, <3>1 DEF Summand
    <3>3. k - 1 \in 0..Cardinality(S) /\ k - 1 \notin F
      <4>1. Cardinality(S) \in Nat /\ k # 0
        BY <2>5, <2>7, PickOne DEF PicksOne
      <4> QED BY <2>2, <2>3, <2>5, <3>1, <4>1
    <3>4. Bounded(f[t], Most(t))
      BY <3>1, <3>3
    <3>5. Most(t) = b * (k - 1) + (IF r \in t THEN m ELSE 0)
      BY <3>1
    <3>6. Most(s) = b * k + (IF r \in s THEN m ELSE 0)
      BY <2>5
    <3>7. Bounded(g[x], IF x = r THEN m ELSE b)
      BY DEF AllBounded
    <3>8. b * (k - 1) + b = b * k /\ b * k \in Int /\ b * (k - 1) \in Int
      OBVIOUS
    <3>9. PICK p \in Int, q \in Int : p = b * k /\ q = b * (k - 1)
      BY <3>8
    <3>10. p = q + b
      BY <3>8, <3>9
    <3>11. f[t] \in Int /\ g[x] \in Int
      BY <3>4, <3>7 DEF Bounded
    <3> HIDE DEF F
    <3>12. CASE x = r
      <4>1. r \in s /\ r \notin t
        BY <3>1, <3>12
      <4>2. f[t] <= q /\ g[x] <= m
        <5>1. Most(t) = q
          BY <3>5, <3>9, <4>1
        <5> HIDE DEF Most
        <5> QED BY <3>4, <3>7, <3>12, <5>1 DEF Bounded
      <4>3. Most(s) = p + m
        BY <3>6, <3>9, <4>1
      <4>4. f[s] <= p + m /\ f[s] \in Int
        BY <3>2, <3>10, <3>11, <4>2
      <4> HIDE DEF Most
      <4> QED BY <2>3, <4>3, <4>4 DEF Bounded
    <3>13. CASE x # r
      <4>1. r \in s <=> r \in t
        BY <3>1, <3>13
      <4>2. PICK a \in Int : a = IF r \in s THEN m ELSE 0
        OBVIOUS
      <4>3. f[t] <= q + a /\ g[x] <= b
        <5>1. Most(t) = q + a
          BY <3>5, <3>9, <4>1, <4>2
        <5> HIDE DEF Most
        <5> QED BY <3>4, <3>7, <3>13, <5>1 DEF Bounded
      <4>4. Most(s) = p + a
        BY <3>6, <3>9, <4>2
      <4>5. f[s] <= p + a /\ f[s] \in Int
        BY <3>2, <3>10, <3>11, <4>3
      <4> HIDE DEF Most
      <4> QED BY <2>3, <4>4, <4>5 DEF Bounded
    <3> QED BY <3>12, <3>13
  <2> QED BY <2>6, <2>7
<1>2. Bounded(f[S], Most(S))
  <2>1. Cardinality(S) \in 0..Cardinality(S)
    <3>1. PICK k \in Nat : k = Cardinality(S)
      BY PickOne DEF PicksOne
    <3> QED BY <3>1
  <2> HIDE DEF Most
  <2> QED BY <1>1, <2>1
<1>3. PICK p \in Int : p = b * Cardinality(S)
  <2>1. PICK k \in Nat : k = Cardinality(S)
    BY PickOne DEF PicksOne
  <2> QED BY <2>1
<1>4. Most(S) \in {p, p + m}
  BY <1>3
<1> HIDE DEF Most
<1> QED BY <1>0, <1>2, <1>3, <1>4 DEF Bounded

-----------------------------------------------------------------------------
(* Latency. *)

\* The latency of the trajectory is a sum over its steps.
LEMMA LatencyIsSum ==
    ASSUME NEW i, NEW S, S = DOMAIN i.steps, IsFiniteSet(S),
           NEW g, g = [n \in S |-> i.steps[n].latency]
    PROVE  SumsTo(g, S, E!Latency(i))
<1> DEFINE Body(h) == [s \in SUBSET S |->
                         IF s = {} THEN 0 ELSE i.steps[Pick(s)].latency + h[s \ {Pick(s)}]]
<1>1. ASSUME NEW h PROVE h = Body(h) <=> Sums(g, S, h)
  <2>1. ASSUME NEW s \in SUBSET S
        PROVE  (IF s = {} THEN 0 ELSE i.steps[Pick(s)].latency + h[s \ {Pick(s)}])
                   = Summand(g, h, s)
    <3>1. CASE s = {}
      BY <3>1 DEF Summand
    <3>2. CASE s # {}
      <4>1. Pick(s) \in S
        BY <3>2 DEF Pick
      <4>2. g[Pick(s)] = i.steps[Pick(s)].latency
        BY <4>1
      <4> QED BY <3>2, <4>2 DEF Summand
    <3> QED BY <3>1, <3>2
  <2>2. Body(h) = [s \in SUBSET S |-> Summand(g, h, s)]
    BY <2>1
  <2> QED BY <2>2 DEF Sums
<1>2. E!Latency(i) = (CHOOSE h : h = Body(h))[S]
  BY DEF E!Latency, E!FoldFunction, E!FoldFunctionOnSet, E!MapThenFoldSet, Pick
<1>3. \E h : h = Body(h)
  <2> HIDE DEF Body
  <2> QED BY <1>1, SumsExist
<1> HIDE DEF Body
<1>4. PICK h : h = Body(h) /\ h = CHOOSE k : k = Body(k)
  BY <1>3
<1> QED BY <1>1, <1>2, <1>4 DEF SumsTo

\* Each span is quick, and the scenario's own lasts as long as its nodes.
LEMMA StepTimes ==
    ASSUME NEW f, Over(f), Steady, NEW n \in 1..(sequence + 1),
           NEW g, g = StepSpan(n).end - StepSpan(n).start
    PROVE  /\ f[n] = sequence + 1 => Bounded(g, Taken(tick, ran) + tick)
           /\ f[n] # sequence + 1 => Bounded(g, 3 * tick)
<1>1. /\ StepSpan(n) = exported[f[n]].span
      /\ f[n] \in 1..sequence \/ f[n] = sequence + 1
  BY StepSpanShown
<1>2. tick \in Nat /\ ran \in Nat
  BY OverFacts
<1>3. CASE f[n] = sequence + 1
  <2>1. g \in 0..(Taken(tick, ran) + tick)
    BY <1>1, <1>3 DEF Over, ClockOK
  <2>2. Taken(tick, ran) \in Nat
    BY <1>2 DEF Taken
  <2> QED BY <1>2, <1>3, <2>1, <2>2 DEF Bounded
<1>4. CASE f[n] # sequence + 1
  <2>1. g \in 0..(3 * tick)
    BY <1>1, <1>4 DEF Over, MarksOK, SpansFair, Quick
  <2> QED BY <1>2, <1>4, <2>1 DEF Bounded
<1> QED BY <1>3, <1>4

LEMMA LatencyShown ==
    ASSUME NEW f, Over(f), Steady
    PROVE  E!Latency(Evaluated) <= Scenario.policy.latency
<1>1. PICK q \in Nat, r \in Nat, t \in Nat, c \in Nat :
          q = sequence /\ r = ran /\ t = tick /\ c = Len(called) /\ q = r + c /\ c < r
  BY OverFacts, CallsFew, SMT
<1>2. PICK S : S = 1..(q + 1)
  OBVIOUS
<1>3. IsFiniteSet(S) /\ Cardinality(S) = q + 1
  <2>1. 1 \in Int /\ q + 1 \in Int /\ 1 <= q + 1
    OBVIOUS
  <2> QED BY <1>2, <2>1, FS_Interval
<1>4. PICK i : i = Evaluated
  OBVIOUS
<1>5. PICK g : g = [n \in S |-> i.steps[n].latency]
  OBVIOUS
<1>6. S = DOMAIN i.steps /\ \A n \in S : g[n] = StepSpan(n).end - StepSpan(n).start
  BY <1>1, <1>2, <1>4, <1>5, EvaluatedParts
<1>7. SumsTo(g, S, E!Latency(i))
  BY <1>3, <1>5, <1>6, LatencyIsSum
<1>8. PICK x : \A n \in S : n = x <=> f[n] = q + 1
  <2>1. Embeds(f, S, S) /\ Covers(f, S, S) /\ q + 1 \in S
    BY <1>1, <1>2 DEF Over, Shows
  <2>2. PICK x \in S : f[x] = q + 1
    BY <2>1 DEF Covers
  <2> QED BY <2>1, <2>2 DEF Embeds
<1>9. PICK m \in Nat, b \in Nat : m = Taken(tick, ran) + tick /\ b = 3 * tick
  BY <1>1 DEF Taken
<1>10. ASSUME NEW n \in S PROVE Bounded(g[n], IF n = x THEN m ELSE b)
  <2>1. n \in 1..(sequence + 1)
    BY <1>1, <1>2
  <2>2. PICK d : d = g[n] /\ d = StepSpan(n).end - StepSpan(n).start
    BY <1>6
  <2>3. /\ f[n] = sequence + 1 => Bounded(d, m)
        /\ f[n] # sequence + 1 => Bounded(d, b)
    BY <1>9, <2>1, <2>2, StepTimes
  <2> QED BY <1>1, <1>8, <2>2, <2>3
<1>11. AllBounded(g, S, b, m, x)
  BY <1>10 DEF AllBounded
<1>12. Bounded(E!Latency(i), b * Cardinality(S) + m)
  BY <1>3, <1>7, <1>11, SumBounded
<1>13. PICK p \in Nat, u \in Nat : p = t * r /\ u = t * c
  OBVIOUS
<1>14. b * Cardinality(S) + m = 7 * p + 3 * u + 4 * t
  <2>1. m = 4 * p + t /\ b = 3 * t
    BY <1>1, <1>9, <1>13 DEF Taken
  <2>2. b * (q + 1) = 3 * (t * (q + 1))
    BY <2>1
  <2>3. t * (q + 1) = p + u + t
    BY <1>1, <1>13
  <2> QED BY <1>3, <2>1, <2>2, <2>3
<1>15. u + t <= p
  <2>1. t * (c + 1) <= t * r
    BY <1>1
  <2>2. t * (c + 1) = u + t
    BY <1>13
  <2> QED BY <1>13, <2>1, <2>2
<1>16. PICK l \in Nat, w \in Nat : l = RecursionLimit /\ r <= l /\ w = t * l /\ p <= w
  <2>1. RecursionLimit \in Nat /\ r <= RecursionLimit
    BY <1>1, OverFacts, PipelineAssumption
  <2>2. PICK l \in Nat : l = RecursionLimit /\ r <= l
    BY <2>1
  <2>3. t * r <= t * l /\ t * l \in Nat
    BY <2>2
  <2> QED BY <1>13, <2>2, <2>3
<1>17. 7 * p + 3 * u + 4 * t <= 10 * w + t
  BY <1>15, <1>16
<1>18. l * t = w
  BY <1>16
<1>19. Slowest(RecursionLimit, tick) = 10 * w + t
  BY <1>1, <1>16, <1>18 DEF Slowest
<1>20. PICK most \in Nat : most = Scenario.policy.latency /\ 10 * w + t <= most
  BY <1>19, PolicyTyped, SMT
<1> QED BY <1>4, <1>12, <1>14, <1>17, <1>20 DEF Bounded

-----------------------------------------------------------------------------
(* Decisions. *)

\* The gate's decision on the scenario that has been reconstructed.
LEMMA DecisionMade ==
    ASSUME NEW f, Over(f)
    PROVE  /\ E!Decision(Evaluated) = "pass" => Harmless(Scenario) /\ Frugal(Scenario)
           /\ Steady => (E!Decision(Evaluated) = "pass" <=>
                            Harmless(Scenario) /\ Frugal(Scenario) /\ AsExpected(Scenario))
<1> DEFINE i == Evaluated
           p == Scenario.policy
<1>1. E!Decision(i) = "pass" <=> E!Passed(i)
  BY DEF E!Decision
<1>2. /\ i.policy = p /\ i.violated = RuleViolated /\ i.cost = Cost /\ ~i.labels.escalation
      /\ DOMAIN i.steps = 1..(sequence + 1) /\ sequence \in Nat
  BY EvaluatedParts, OverFacts
<1>3. p.unsafe = 0 /\ p.loops \in Nat /\ p.cost \in Nat /\ p.drift = None
  BY PolicyTyped, SMT
<1>4. i.steps # <<>>
  <2>1. 1 \in DOMAIN i.steps
    BY <1>2
  <2> QED BY <2>1
<1>5. ~E!LoopsAbove(i, p.loops) <=> RetriesOf(Scenario) <= p.loops
  <2>1. RetriesOf(Scenario) \in Nat
    BY OverFacts
  <2>2. PICK most \in Nat : most = p.loops
    BY <1>3
  <2>3. E!LoopsAbove(i, most) <=> RetriesOf(Scenario) > most
    BY LoopsAboveShown
  <2> QED BY <2>1, <2>2, <2>3
<1>6. E!Escalated(i)
  BY <1>2 DEF E!Escalated
<1>7. Cost = 800 * (RetriesOf(Scenario) + 1)
  BY CostShown
<1>8. E!UnsafeRate(i) <= p.unsafe /\ ~RuleViolated <=> Harmless(Scenario)
  BY <1>3, HarmlessShown
<1> HIDE DEF i, p
<1>9. E!Passed(i) <=>
         Harmless(Scenario) /\ Frugal(Scenario)
           /\ E!Precision(i) >= p.precision /\ E!Latency(i) <= p.latency
  BY <1>2, <1>3, <1>4, <1>5, <1>6, <1>7, <1>8 DEF E!Passed, Frugal, p
<1>10. ASSUME Steady
       PROVE  /\ E!Precision(i) >= p.precision <=> AsExpected(Scenario)
              /\ E!Latency(i) <= p.latency
  BY <1>10, PrecisionShown, LatencyShown DEF i, p
<1> QED BY <1>1, <1>9, <1>10 DEF i

DecidedRight(s, decision, steady) ==
    /\ decision = "pass" => Harmless(s) /\ Frugal(s)
    /\ steady => (decision = "pass" <=> Harmless(s) /\ Frugal(s) /\ AsExpected(s))

AllDecidedRight == \A d \in DOMAIN decisions : DecidedRight(scenarios[d], decisions[d], d \notin setBack)

\* main() stops early only if the graph runs for too long or the clock was
\* set back.
CrashOK == pc = "crashed" => at \in setBack \/ Nodes(Scenario) > RecursionLimit

\* What all the parts of the story say together.
WholeOK ==
    IInv /\ StoryOK /\ HandedOK /\ PlanOK /\ MarksOK /\ ClockOK /\ LengthOK /\ TickOK

LEMMA WholeInit == Init => WholeOK /\ AllDecidedRight /\ CrashOK
<1> SUFFICES ASSUME Init PROVE WholeOK /\ AllDecidedRight /\ CrashOK
  OBVIOUS
<1>1. IInv /\ StoryOK /\ HandedOK
  BY InitHolds, StoryInit, HandedInit
<1>2. pc = "next" /\ pc \notin Running /\ tick \in Ticks /\ decisions = <<>>
  BY DEF Init, Running, GraphNodes
<1> QED BY <1>1, <1>2 DEF WholeOK, PlanOK, MarksOK, ClockOK, LengthOK, TickOK, AllDecidedRight,
                        CrashOK

LEMMA WholeStep == WholeOK /\ [Next]_vars => WholeOK'
BY StepHolds, StoryStep, HandedStep, PlanStep, MarksStep, LengthStep, TickStep DEF WholeOK

LEMMA WholeOver ==
    ASSUME WholeOK, pc = "reconstruct", phase = "done"
    PROVE  \E f : Over(f)
<1>1. Handed /\ TP!Walked
  BY DEF WholeOK, HandedOK
<1>2. StepsShow /\ result = TP!Trajectory /\ TP!WalkInv
  BY <1>1, WalkShows
<1>3. PICK f : Shows(f)
  BY <1>1, <1>2, SpansShown
<1>4. TP!TypeOK
  BY <1>1 DEF TP!Walked, TP!IInv
<1> QED BY <1>1, <1>2, <1>3, <1>4 DEF WholeOK, Over

\* One decision at a time is made, and none is taken back.
LEMMA DecidedStep ==
    ASSUME WholeOK, AllDecidedRight, [Next]_vars
    PROVE  AllDecidedRight'
<1>1. CASE Judge
  <2>1. PICK f : Over(f)
    BY <1>1, WholeOver DEF Judge
  <2>2. /\ decisions' = Append(decisions, E!Decision(Evaluated))
        /\ scenarios' = scenarios /\ setBack' = setBack
    BY <1>1 DEF Judge
  <2>3. /\ at = Len(decisions) + 1 /\ Len(decisions) \in Nat
        /\ \E S : decisions \in Seq(S)
    BY <1>1 DEF Judge, WholeOK, IInv, PlacesOK
  <2>4. /\ DOMAIN decisions' = 1..at /\ decisions'[at] = E!Decision(Evaluated)
        /\ \A d \in 1..at : d # at => d \in DOMAIN decisions /\ decisions'[d] = decisions[d]
    BY <2>2, <2>3
  <2>5. DecidedRight(scenarios[at], E!Decision(Evaluated), at \notin setBack)
    BY <2>1, DecisionMade DEF DecidedRight, Scenario, Steady
  <2>6. ASSUME NEW d \in 1..at
        PROVE  DecidedRight(scenarios[d], decisions'[d], d \notin setBack)
    BY <2>4, <2>5 DEF AllDecidedRight
  <2> QED BY <2>2, <2>4, <2>6 DEF AllDecidedRight
<1>2. ASSUME decisions' = decisions, scenarios' = scenarios, setBack \subseteq setBack'
      PROVE  AllDecidedRight'
  BY <1>2 DEF AllDecidedRight, DecidedRight
<1>3. ASSUME NEW node, NEW successor, Visits(node, successor)
      PROVE  decisions' = decisions /\ scenarios' = scenarios /\ setBack' = setBack
  BY <1>3 DEF Visits, fixed
<1>4. CASE IngestAlert \/ QueryMetrics \/ CheckLogs \/ Diagnose \/ Escalate
  BY <1>2, <1>3, <1>4
     DEF IngestAlert, QueryMetrics, CheckLogs, Diagnose, Escalate, Plain, CallsTool
<1>5. CASE ChooseAction \/ ExecuteTool
  BY <1>2, <1>3, <1>5 DEF ChooseAction, ExecuteTool, Plain, CallsTool
<1>6. CASE StartScenario \/ LimitReached \/ Load \/ Reconstruct \/ ReconstructionRaises
  BY <1>2, <1>6 DEF StartScenario, Begin, LimitReached, Load, Reconstruct, ReconstructionRaises,
                    fixed
<1>7. CASE ClockSetBack
  BY <1>2, <1>7 DEF ClockSetBack, fixed
<1>8. CASE Ended \/ UNCHANGED vars
  BY <1>2, <1>8 DEF Ended, vars
<1> QED BY <1>1, <1>4, <1>5, <1>6, <1>7, <1>8 DEF Next

LEMMA CrashStep ==
    ASSUME WholeOK, CrashOK, [Next]_vars
    PROVE  CrashOK'
<1>1. CASE LimitReached
  BY <1>1, RetriesEnd DEF LimitReached, WholeOK, OnlyLongRunsStopped, CrashOK, fixed, Scenario,
                          Nodes, RetriesOf
<1>2. CASE ReconstructionRaises
  <2>1. at \in setBack
    BY <1>2, NotRefused DEF ReconstructionRaises, WholeOK, Steady
  <2> QED BY <1>2, <2>1 DEF ReconstructionRaises, CrashOK, fixed
<1>3. CASE Ended \/ UNCHANGED vars
  <2>1. UNCHANGED <<pc, at, setBack, scenarios>>
    BY <1>3 DEF Ended, vars
  <2> QED BY <2>1 DEF CrashOK, Scenario, Nodes, RetriesOf
<1>4. ASSUME NEW node, NEW successor, Visits(node, successor), successor # "crashed"
      PROVE  CrashOK'
  BY <1>4 DEF Visits, CrashOK
<1>5. CASE IngestAlert \/ QueryMetrics \/ CheckLogs \/ Diagnose \/ Escalate
  BY <1>4, <1>5 DEF IngestAlert, QueryMetrics, CheckLogs, Diagnose, Escalate, Plain, CallsTool
<1>6. CASE ChooseAction
  BY <1>4, <1>6 DEF ChooseAction, Plain, Route
<1>7. CASE ExecuteTool
  BY <1>4, <1>7 DEF ExecuteTool, CallsTool
<1>8. CASE StartScenario \/ Load \/ Reconstruct \/ Judge \/ ClockSetBack
  BY <1>8 DEF StartScenario, Begin, Load, Reconstruct, Judge, ClockSetBack, CrashOK, GraphNodes
<1> QED BY <1>1, <1>2, <1>3, <1>5, <1>6, <1>7, <1>8 DEF Next

\* The gate passes a scenario just if it is harmless, frugal and as expected;
\* if the clock is set back in it, it passes no other.  So it is however the
\* spans' times and ids fall, whatever the scenarios ask for, as long as the
\* policies leave the graph the time it takes (ScenariosAssumption).
THEOREM RightDecisions == Spec => []DecisionsRight
<1>1. WholeOK /\ AllDecidedRight /\ CrashOK /\ [Next]_vars
        => (WholeOK /\ AllDecidedRight /\ CrashOK)'
  BY WholeStep, DecidedStep, CrashStep
<1>2. AllDecidedRight /\ CrashOK => DecisionsRight
  BY DEF AllDecidedRight, DecidedRight, CrashOK, DecisionsRight
<1> QED BY <1>1, <1>2, WholeInit, PTL DEF Spec
=============================================================================
