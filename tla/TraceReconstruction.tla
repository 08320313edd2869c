------------------------ MODULE TraceReconstruction -------------------------
(***************************************************************************)
(* T-REx (telefix/trex/reconstruct.py): one trace's spans, in whatever     *)
(* order the store returned them, become a trajectory.  The spans are      *)
(* walked parent first, converted one by one, and the result is validated  *)
(* (telefix/models/trajectory.py).                                         *)
(*                                                                         *)
(* A trace is a function from span ids to spans, since the store keys its  *)
(* rows by (trace_id, span_id).  Ids and times are numbers.  Attributes    *)
(* are reduced to what the outcome depends on.                             *)
(***************************************************************************)
EXTENDS Integers, Sequences, FiniteSets

CONSTANTS
    Ids, None,
    Names,      \* agent.node_name of the spans
    Traces,     \* the traces that may be loaded
    MaxDepth    \* frames of visit() that Python's recursion limit allows

Kinds == {"chain", "human", "tool", "unsafe_tool", "malformed_tool"}

SpanType == [parent : Ids \union {None}, start : Int, seq : Int,
             end : Int \union {None}, node : Names, kind : Kinds]

ASSUME TraceAssumption ==
    /\ Ids \subseteq Int /\ None \notin Int
    /\ \A t \in Traces : DOMAIN t \subseteq Ids /\ IsFiniteSet(DOMAIN t)
                         /\ \A s \in DOMAIN t : t[s] \in SpanType
    /\ MaxDepth \in Nat \ {0}

VARIABLES
    trace,       \* the spans, by id
    phase,       \* where reconstruct_trajectory is, or how it ended
    order,       \* ordered (and visited): span ids in visiting order
    path,        \* the calls of visit() in progress
    loopCounts,  \* loop_counts, by (parent_span_id, node_name)
    steps,       \* the TrajectorySteps so far
    result       \* the Trajectory

vars == <<trace, phase, order, path, loopCounts, steps, result>>

Spans == DOMAIN trace
Visited == {order[i] : i \in 1..Len(order)}

\* by_id, children_by_parent and roots of _topological_sort.
Roots == {s \in Spans : trace[s].parent \notin Spans}
Children(p) == {s \in Spans : trace[s].parent = p}

\* _execution_key: (start_time, agent.sequence, span_id); docs/trex.md:31
\* leaves the sequence out.
ExecutesBefore(s, t) ==
    \/ trace[s].start < trace[t].start
    \/ /\ trace[s].start = trace[t].start
       /\ \/ trace[s].seq < trace[t].seq
          \/ trace[s].seq = trace[t].seq /\ s < t

Init ==
    /\ trace \in Traces
    /\ phase = "loaded"
    /\ order = <<>> /\ path = <<>>
    /\ loopCounts = [k \in {} |-> 0]
    /\ steps = <<>>
    /\ result = None

Raise == phase' = "raised"

\* load_spans found nothing: ValueError.
Start ==
    /\ phase = "loaded"
    /\ phase' = IF Spans = {} THEN "raised" ELSE "sorting"
    /\ UNCHANGED <<trace, order, path, loopCounts, steps, result>>

\* Variant: there is no final pass over all spans.
ToVisitRootsOnly ==
    (IF path = <<>> THEN Roots ELSE Children(path[Len(path)])) \ Visited

\* Variant: whatever starts first, once its parent has been visited.
ToVisitByTime ==
    {s \in Spans \ Visited : s \in Roots \/ trace[s].parent \in Visited}

\* Variant: visit() does not look at visited.
ToVisitAgain == IF path = <<>> THEN Roots \ Visited ELSE Children(path[Len(path)])

\* What the innermost loop has left: children of the span being visited; at
\* the top level the roots, and after them whatever no root leads to.
ToVisit ==
    IF path # <<>> THEN Children(path[Len(path)]) \ Visited
    ELSE IF Roots \subseteq Visited THEN Spans \ Visited ELSE Roots \ Visited

Next1(s) == s \in ToVisit /\ \A t \in ToVisit \ {s} : ExecutesBefore(s, t)

\* visit(s): recursion too deep raises RecursionError.
Visit(s) ==
    /\ phase = "sorting"
    /\ Next1(s)
    /\ IF Len(path) = MaxDepth
       THEN Raise /\ UNCHANGED <<order, path>>
       ELSE order' = Append(order, s) /\ path' = Append(path, s) /\ UNCHANGED phase
    /\ UNCHANGED <<trace, loopCounts, steps, result>>

\* visit() returns to its caller.
Return ==
    /\ phase = "sorting" /\ ToVisit = {} /\ path # <<>>
    /\ path' = SubSeq(path, 1, Len(path) - 1)
    /\ UNCHANGED <<trace, phase, order, loopCounts, steps, result>>

Sorted ==
    /\ phase = "sorting" /\ ToVisit = {} /\ path = <<>>
    /\ phase' = "converting"
    /\ UNCHANGED <<trace, order, path, loopCounts, steps, result>>

\* span_to_step; step_index counts from 0.
StepOf(s) == (CHOOSE i \in 1..Len(order) : order[i] = s) - 1

\* Variant: a parent that comes later is linked to all the same.
ParentIndexAny(s, i) ==
    IF trace[s].parent \in Visited THEN StepOf(trace[s].parent) ELSE None

\* Variant: the step just before is no parent.
ParentIndexOffByOne(s, i) ==
    IF trace[s].parent \in Visited /\ StepOf(trace[s].parent) < i - 1
    THEN StepOf(trace[s].parent) ELSE None

\* _parent_step_index: a parent that is missing, or not earlier, is None.
ParentIndex(s, i) ==
    IF trace[s].parent \in Visited /\ StepOf(trace[s].parent) < i
    THEN StepOf(trace[s].parent) ELSE None

LoopCount(k) == IF k \in DOMAIN loopCounts THEN loopCounts[k] ELSE 0

\* Variant: repetitions are counted by node name alone.
LoopKeyByName(s) == <<None, trace[s].node>>

LoopKey(s) == <<trace[s].parent, trace[s].node>>

\* ToolCall and TrajectoryStep validate: a malformed tool attribute, or an
\* end before the start, raises.
Malformed(s) ==
    \/ trace[s].kind = "malformed_tool"
    \/ trace[s].end # None /\ trace[s].end < trace[s].start

\* One turn of the loop over ordered_spans.
Convert ==
    /\ phase = "converting" /\ Len(steps) < Len(order)
    /\ LET i == Len(steps)
           s == order[i + 1]
           k == LoopKey(s)
       IN  /\ loopCounts' = [j \in DOMAIN loopCounts \union {k} |->
                                LoopCount(j) + (IF j = k THEN 1 ELSE 0)]
           /\ IF Malformed(s) THEN Raise /\ UNCHANGED steps
              ELSE /\ steps' = Append(steps, [span |-> s, parent |-> ParentIndex(s, i),
                                              loop |-> LoopCount(k)])
                   /\ UNCHANGED phase
    /\ UNCHANGED <<trace, order, path, result>>

LatestOf(times) == CHOOSE t \in times : \A u \in times : u <= t
EarliestOf(times) == CHOOSE t \in times : \A u \in times : t <= u

\* Variant: open spans are left out of the latest end.
CompletedAtOfClosed ==
    LET ends == {trace[s].end : s \in Visited} \ {None}
    IN  IF ends = {} THEN None ELSE LatestOf(ends)

\* _completed_at: unknown while any span is open.
CompletedAt ==
    LET ends == {trace[s].end : s \in Visited}
    IN  IF None \in ends THEN None ELSE LatestOf(ends)

Trajectory ==
    [started |-> EarliestOf({trace[s].start : s \in Visited}),
     completed |-> CompletedAt,
     tools |-> {i \in 1..Len(steps) : trace[steps[i].span].kind \in {"tool", "unsafe_tool"}},
     unsafe |-> \E i \in 1..Len(steps) : trace[steps[i].span].kind = "unsafe_tool",
     loop |-> \E i \in 1..Len(steps) : steps[i].loop > 0,
     escalate |-> \E i \in 1..Len(steps) : trace[steps[i].span].kind = "human"]

\* validate_trajectory.
Valid(t) ==
    /\ Len(steps) > 0
    /\ \A i \in 1..Len(steps) : steps[i].parent # None => steps[i].parent < i - 1
    /\ t.completed # None => t.completed >= t.started

Finish ==
    /\ phase = "converting" /\ Len(steps) = Len(order)
    /\ IF Valid(Trajectory) THEN phase' = "done" /\ result' = Trajectory
       ELSE Raise /\ UNCHANGED result
    /\ UNCHANGED <<trace, order, path, loopCounts, steps>>

Next == Start \/ (\E s \in Spans : Visit(s)) \/ Return \/ Sorted \/ Convert \/ Finish

Spec == Init /\ [][Next]_vars
-----------------------------------------------------------------------------
\* Every variable has the shape the code gives it.
TypeOK ==
    /\ trace \in Traces
    /\ phase \in {"loaded", "sorting", "converting", "done", "raised"}
    /\ order \in Seq(Spans) /\ path \in Seq(Spans)
    /\ DOMAIN loopCounts \subseteq (Ids \union {None}) \X Names
    /\ \A k \in DOMAIN loopCounts : loopCounts[k] \in Nat
    /\ steps \in Seq([span : Spans, parent : Nat \union {None}, loop : Nat])
    /\ phase = "done" => result = Trajectory
    /\ phase = "loaded" => order = <<>> /\ path = <<>> /\ steps = <<>>
    /\ phase = "sorting" => Spans # {} /\ steps = <<>>

\* No span is visited twice, and when the walk is over none is left out,
\* whatever is missing from the trace and whatever cycles its parents form;
\* each call of visit() in progress is for a child of the caller's span.
VisitedOnce ==
    /\ \A i, j \in 1..Len(order) : order[i] = order[j] => i = j
    /\ phase \in {"converting", "done"} => Visited = Spans
    /\ Len(path) <= MaxDepth
    /\ \A i \in 1..Len(path) : path[i] \in Visited
    /\ \A i \in 2..Len(path) : trace[path[i]].parent = path[i - 1]

\* Each step is its span's, and points to an earlier step, that of the
\* span's parent, so the validators of Trajectory have nothing to reject.
StepsMatchSpans ==
    /\ Len(steps) <= Len(order)
    /\ \A i \in 1..Len(steps) :
        /\ steps[i].span = order[i]
        /\ ~Malformed(order[i])
        /\ steps[i].parent # None =>
              /\ steps[i].parent < i - 1
              /\ order[steps[i].parent + 1] = trace[order[i]].parent

\* Ancestors of s, itself included if it is on a cycle: the least set that
\* holds the parent of s and, with any span, that span's parent.
HasParents(C, S) == \A x \in S : trace[x].parent \in Spans => trace[x].parent \in C
Ancestors(s) ==
    {a \in Spans : \A C \in SUBSET Spans : HasParents(C, C \union {s}) => a \in C}

Rooted(s) == Ancestors(s) \intersect Roots # {} \/ s \in Roots

\* Execution order: among spans a root leads to, an ancestor comes first,
\* and of two that are not related the branches where they part decide by
\* start time, then sequence, then id: subtrees are never interleaved.
Branch(s, others) == CHOOSE b \in (Ancestors(s) \union {s}) \ others :
                        trace[b].parent \notin Spans \/ trace[b].parent \in others
Precedes(s, t) ==
    \/ s \in Ancestors(t)
    \/ /\ s # t /\ t \notin Ancestors(s)
       /\ ExecutesBefore(Branch(s, Ancestors(t)), Branch(t, Ancestors(s)))
ExecutionOrder ==
    \A i, j \in 1..Len(order) :
        Rooted(order[i]) /\ Rooted(order[j]) /\ Precedes(order[i], order[j]) => i < j

\* A step keeps its link to the parent unless the parent is missing, or the
\* span hangs on a cycle of parents: the final pass may then reach it first.
LinksKept ==
    phase = "done" => \A i \in 1..Len(steps) :
        LET s == order[i] IN
        trace[s].parent \in Spans /\ steps[i].parent = None => ~Rooted(s)

\* The n-th time a node runs under the same parent its loop_iteration is
\* n - 1, and loop_detected says if any node ran twice under one parent.
SameLoop(s, t) == trace[s].parent = trace[t].parent /\ trace[s].node = trace[t].node
LoopsCounted ==
    /\ \A i \in 1..Len(steps) :
        steps[i].loop = Cardinality({j \in 1..(i - 1) : SameLoop(order[i], order[j])})
    /\ phase = "done" =>
        (result.loop <=> \E s, t \in Spans : s # t /\ SameLoop(s, t))

\* A partial trace is valid: reconstruction is refused only for an empty
\* trace, a span that is malformed by itself, or a chain of spans deeper
\* than the recursion limit; a trajectory is closed exactly if all its
\* spans are, and then ends no earlier than any of them.
Depth(s) == Cardinality(Ancestors(s) \union {s})
RejectsOnlyBadTraces ==
    /\ phase = "raised" =>
        \/ Spans = {}
        \/ \E s \in Spans : Malformed(s)
        \/ \E s \in Spans : Depth(s) > MaxDepth
    /\ phase = "done" =>
        /\ \A s \in Spans : ~Malformed(s)
        /\ result.completed = None <=> \E s \in Spans : trace[s].end = None
        /\ result.completed # None => \A s \in Spans : trace[s].end <= result.completed

\* Reconstruction ends, even on cyclic parents: every step brings the end
\* nearer.
PhasesLeft == CASE phase = "loaded" -> 3 [] phase = "sorting" -> 2
                [] phase = "converting" -> 1 [] OTHER -> 0
Measure == PhasesLeft + 2 * Cardinality(Spans \ Visited) + Len(path)
           + Cardinality(Spans) - Len(steps)
Progress == [][0 <= Measure' /\ Measure' < Measure]_vars
=============================================================================
