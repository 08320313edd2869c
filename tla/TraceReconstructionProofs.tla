---------------------- MODULE TraceReconstructionProofs ---------------------
(* Proofs about TraceReconstruction, for any traces and recursion limit. *)
EXTENDS TraceReconstruction, FiniteSetTheorems, SequenceTheorems, WellFoundedInduction, TLAPS

StepType == [span : Spans, parent : Nat \union {None}, loop : Nat]
Rest == Cardinality(Spans \ Visited)
All == Cardinality(Spans)

IInv ==
    /\ TypeOK
    /\ VisitedOnce
    /\ StepsMatchSpans
    /\ IsFiniteSet(Spans) /\ IsFiniteSet(Visited)
    /\ Visited \subseteq Spans
    /\ Cardinality(Visited) = Len(order)

LEMMA VisitedType == order \in Seq(Spans) => Visited \subseteq Spans
BY DEF Visited

\* What is left of the calls in progress when one returns.
LEMMA DropLast ==
    ASSUME NEW S, NEW q \in Seq(S), q # <<>>, NEW t, t = SubSeq(q, 1, Len(q) - 1)
    PROVE  t \in Seq(S) /\ Len(t) = Len(q) - 1 /\ \A i \in 1..Len(t) : t[i] = q[i]
<1>1. PICK m \in Nat : m = Len(q) - 1
  OBVIOUS
<1>2. \A i \in 1..m : q[i] \in S
  BY <1>1
<1>3. /\ t \in Seq(S) /\ Len(t) = (IF 1 <= m THEN m - 1 + 1 ELSE 0)
      /\ \A i \in 1..(m - 1 + 1) : t[i] = q[1 + i - 1]
  BY <1>1, <1>2, SubSeqProperties
<1> QED BY <1>1, <1>3

LEMMA InitHolds == Init => IInv
<1> SUFFICES ASSUME Init PROVE IInv
  OBVIOUS
<1>1. order = <<>> /\ path = <<>> /\ steps = <<>> /\ phase = "loaded" /\ trace \in Traces
  BY DEF Init
<1>2. loopCounts = [k \in {} |-> 0]
  BY DEF Init
<1>3. Visited = {} /\ IsFiniteSet(Spans)
  BY <1>1, TraceAssumption DEF Visited, Spans
<1>4. TypeOK
  <2>1. order \in Seq(Spans) /\ path \in Seq(Spans)
    BY <1>1
  <2>2. steps \in Seq([span : Spans, parent : Nat \union {None}, loop : Nat])
    <3>1. steps \in Seq(StepType)
      BY <1>1
    <3> QED BY <3>1 DEF StepType
  <2>3. DOMAIN loopCounts = {}
    BY <1>2
  <2> QED BY <1>1, <2>1, <2>2, <2>3 DEF TypeOK
<1>5. VisitedOnce /\ StepsMatchSpans
  BY <1>1, TraceAssumption DEF VisitedOnce, StepsMatchSpans
<1> QED BY <1>1, <1>3, <1>4, <1>5, FS_EmptySet DEF IInv

\* The order a visit of s makes.
LEMMA VisitAppends ==
    ASSUME IInv, NEW s \in Spans, s \notin Visited, trace' = trace, order' = Append(order, s)
    PROVE  /\ order' \in Seq(Spans)
           /\ Len(order') = Len(order) + 1
           /\ \A i \in 1..Len(order) : order'[i] = order[i]
           /\ order'[Len(order) + 1] = s
           /\ Visited' = Visited \union {s}
           /\ Cardinality(Visited') = Len(order')
           /\ \A i, j \in 1..Len(order') : order'[i] = order'[j] => i = j
<1>1. order \in Seq(Spans) /\ Len(order) \in Nat
  BY DEF IInv, TypeOK
<1>2. /\ order' \in Seq(Spans) /\ Len(order') = Len(order) + 1
      /\ \A i \in 1..Len(order) : order'[i] = order[i]
      /\ order'[Len(order) + 1] = s
  BY <1>1
<1>3. Visited' = Visited \union {s}
  BY <1>1, <1>2 DEF Visited
<1>4. Cardinality(Visited') = Len(order')
  <2>1. IsFiniteSet(Visited) /\ Cardinality(Visited) = Len(order)
    BY DEF IInv
  <2>2. Cardinality(Visited \union {s}) = Cardinality(Visited) + 1
    BY <2>1, FS_AddElement
  <2> QED BY <1>2, <1>3, <2>1, <2>2
<1>5. ASSUME NEW i \in 1..Len(order'), NEW j \in 1..Len(order'), order'[i] = order'[j]
      PROVE  i = j
  <2>1. \A k \in 1..Len(order) : order[k] # s
    BY DEF Visited
  <2>2. \A k \in 1..Len(order') : k \in 1..Len(order) \/ k = Len(order) + 1
    BY <1>1, <1>2
  <2>3. i \in 1..Len(order) /\ j \in 1..Len(order) => i = j
    BY <1>2, <1>5 DEF IInv, VisitedOnce
  <2> QED BY <1>2, <1>5, <2>1, <2>2, <2>3
<1> QED BY <1>2, <1>3, <1>4, <1>5

\* An action that leaves the walk alone keeps what is said of the walk.
LEMMA WalkStays ==
    ASSUME IInv, UNCHANGED <<trace, order, path>>,
           phase' \in {"converting", "done"} => Visited = Spans
    PROVE  /\ VisitedOnce' /\ IsFiniteSet(Spans)' /\ IsFiniteSet(Visited)'
           /\ (Visited \subseteq Spans)' /\ (Cardinality(Visited) = Len(order))'
<1>1. Spans' = Spans /\ Visited' = Visited
  BY DEF Spans, Visited
<1> QED BY <1>1 DEF IInv, VisitedOnce

LEMMA StepHolds == IInv /\ [Next]_vars => IInv'
<1> SUFFICES ASSUME IInv, [Next]_vars PROVE IInv'
  OBVIOUS
<1>t. TypeOK /\ VisitedOnce /\ StepsMatchSpans /\ Visited \subseteq Spans
  BY DEF IInv
<1>n. Len(order) \in Nat /\ Len(path) \in Nat /\ Len(steps) \in Nat
  BY <1>t DEF TypeOK
<1>1. CASE Start
  <2>1. UNCHANGED <<trace, order, path, loopCounts, steps, result>> /\ phase = "loaded"
    BY <1>1 DEF Start
  <2>2. phase' \in {"raised", "sorting"} /\ (phase' = "sorting" => Spans # {})
    BY <1>1 DEF Start
  <2>3. TypeOK'
    BY <1>t, <2>1, <2>2 DEF TypeOK, Spans
  <2>4. StepsMatchSpans'
    BY <1>t, <2>1 DEF StepsMatchSpans, Malformed
  <2> QED BY <2>1, <2>2, <2>3, <2>4, WalkStays DEF IInv
<1>2. ASSUME NEW s \in Spans, Visit(s) PROVE IInv'
  <2>1. /\ phase = "sorting" /\ s \in ToVisit
        /\ UNCHANGED <<trace, loopCounts, steps, result>>
    BY <1>2 DEF Visit, Next1
  <2>2. CASE Len(path) = MaxDepth
    <3>1. phase' = "raised" /\ UNCHANGED <<order, path>>
      BY <1>2, <2>2 DEF Visit, Raise
    <3>2. TypeOK'
      BY <1>t, <2>1, <3>1 DEF TypeOK, Spans
    <3>3. StepsMatchSpans'
      BY <1>t, <2>1, <3>1 DEF StepsMatchSpans, Malformed
    <3> QED BY <2>1, <3>1, <3>2, <3>3, WalkStays DEF IInv
  <2>3. CASE Len(path) # MaxDepth
    <3>1. order' = Append(order, s) /\ path' = Append(path, s) /\ phase' = "sorting"
      BY <1>2, <2>1, <2>3 DEF Visit
    <3>2. s \notin Visited
      BY <2>1 DEF ToVisit
    <3>3. /\ order' \in Seq(Spans) /\ Len(order') = Len(order) + 1
          /\ \A i \in 1..Len(order) : order'[i] = order[i]
          /\ order'[Len(order) + 1] = s
          /\ Visited' = Visited \union {s}
          /\ Cardinality(Visited') = Len(order')
          /\ \A i, j \in 1..Len(order') : order'[i] = order'[j] => i = j
      BY <2>1, <3>1, <3>2, VisitAppends
    <3>4. Spans' = Spans /\ s \in Spans
      BY <2>1 DEF Spans
    <3>5. path \in Seq(Spans) /\ path' \in Seq(Spans) /\ Len(path') = Len(path) + 1
      <4>1. path \in Seq(Spans)
        BY <1>t DEF TypeOK
      <4> QED BY <3>1, <3>4, <4>1
    <3>6. path'[Len(path) + 1] = s /\ \A i \in 1..Len(path) : path'[i] = path[i]
      BY <3>1, <3>5
    <3>7. TypeOK'
      BY <1>t, <2>1, <3>1, <3>3, <3>4, <3>5 DEF TypeOK
    <3>8. VisitedOnce'
      <4>1. Len(path') <= MaxDepth
        BY <1>n, <1>t, <2>3, <3>5, TraceAssumption DEF VisitedOnce
      <4>2. \A i \in 1..Len(path') : path'[i] \in Visited'
        <5>1. \A i \in 1..Len(path') : i \in 1..Len(path) \/ i = Len(path) + 1
          BY <1>n, <3>5
        <5> QED BY <1>t, <3>3, <3>6, <5>1 DEF VisitedOnce
      <4>3. ASSUME NEW i \in 2..Len(path')
            PROVE  trace'[path'[i]].parent = path'[i - 1]
        <5>1. CASE i = Len(path) + 1
          <6>1. path # <<>> /\ i - 1 = Len(path) /\ i - 1 \in 1..Len(path)
            BY <1>n, <3>5, <4>3, <5>1
          <6>2. s \in Children(path[Len(path)])
            BY <2>1, <6>1 DEF ToVisit
          <6> QED BY <2>1, <3>6, <5>1, <6>1, <6>2 DEF Children
        <5>2. CASE i # Len(path) + 1
          <6>1. i \in 2..Len(path) /\ i \in 1..Len(path) /\ i - 1 \in 1..Len(path)
            BY <1>n, <3>5, <4>3, <5>2
          <6> QED BY <1>t, <2>1, <3>6, <6>1 DEF VisitedOnce
        <5> QED BY <5>1, <5>2
      <4> QED BY <3>1, <3>3, <4>1, <4>2, <4>3 DEF VisitedOnce
    <3>9. StepsMatchSpans'
      <4>1. Len(steps) = 0 /\ steps' = steps
        BY <1>t, <2>1 DEF TypeOK
      <4> QED BY <1>n, <3>3, <4>1 DEF StepsMatchSpans
    <3> QED BY <3>3, <3>4, <3>7, <3>8, <3>9, FS_AddElement DEF IInv
  <2> QED BY <2>2, <2>3
<1>3. CASE Return
  <2>1. /\ phase = "sorting" /\ phase' = phase /\ path # <<>>
        /\ path' = SubSeq(path, 1, Len(path) - 1)
        /\ UNCHANGED <<trace, order, loopCounts, steps, result>>
    BY <1>3 DEF Return
  <2>2. path \in Seq(Spans) /\ Len(path) >= 1
    BY <1>t, <2>1 DEF TypeOK
  <2>3. /\ path' \in Seq(Spans) /\ Len(path') = Len(path) - 1
        /\ \A i \in 1..Len(path') : path'[i] = path[i]
    BY <2>1, <2>2, DropLast
  <2>4. Spans' = Spans /\ Visited' = Visited
    BY <2>1 DEF Spans, Visited
  <2>5. TypeOK'
    BY <1>t, <2>1, <2>3, <2>4 DEF TypeOK
  <2>6. VisitedOnce'
    <3>1. \A i \in 1..Len(path') : i \in 1..Len(path)
      BY <1>n, <2>3
    <3>2. \A i \in 2..Len(path') : i \in 2..Len(path) /\ i \in 1..Len(path') /\ i - 1 \in 1..Len(path')
      BY <1>n, <2>3
    <3> QED BY <1>n, <1>t, <2>1, <2>3, <2>4, <3>1, <3>2, TraceAssumption DEF VisitedOnce
  <2>7. StepsMatchSpans'
    BY <1>t, <2>1 DEF StepsMatchSpans, Malformed
  <2> QED BY <2>1, <2>4, <2>5, <2>6, <2>7 DEF IInv
<1>4. CASE Sorted
  <2>1. /\ phase = "sorting" /\ phase' = "converting" /\ ToVisit = {} /\ path = <<>>
        /\ UNCHANGED <<trace, order, path, loopCounts, steps, result>>
    BY <1>4 DEF Sorted
  <2>2. Visited = Spans
    BY <1>t, <2>1 DEF ToVisit
  <2>3. TypeOK'
    BY <1>t, <2>1 DEF TypeOK, Spans
  <2>4. StepsMatchSpans'
    BY <1>t, <2>1 DEF StepsMatchSpans, Malformed
  <2> QED BY <2>1, <2>2, <2>3, <2>4, WalkStays DEF IInv
<1>5. CASE Convert
  <2> DEFINE n == Len(steps)
             s == order[n + 1]
             k == LoopKey(s)
             step == [span |-> s, parent |-> ParentIndex(s, n), loop |-> LoopCount(k)]
  <2>1. /\ phase = "converting" /\ n < Len(order)
        /\ UNCHANGED <<trace, order, path, result>>
        /\ loopCounts' = [j \in DOMAIN loopCounts \union {k} |->
                                LoopCount(j) + (IF j = k THEN 1 ELSE 0)]
        /\ \/ Malformed(s) /\ phase' = "raised" /\ steps' = steps
           \/ ~Malformed(s) /\ phase' = "converting" /\ steps' = Append(steps, step)
    BY <1>5 DEF Convert, Raise
  <2>2. n + 1 \in 1..Len(order) /\ s \in Spans
    BY <1>n, <1>t, <2>1 DEF TypeOK
  <2>3. Visited = Spans
    BY <1>t, <2>1 DEF VisitedOnce
  <2>4. ASSUME NEW p \in Visited
        PROVE  StepOf(p) + 1 \in 1..Len(order) /\ order[StepOf(p) + 1] = p
    <3>1. \E i \in 1..Len(order) : order[i] = p
      BY DEF Visited
    <3> DEFINE c == CHOOSE i \in 1..Len(order) : order[i] = p
    <3>2. c \in 1..Len(order) /\ order[c] = p
      BY <3>1
    <3>3. StepOf(p) + 1 = c
      BY <1>n, <3>2 DEF StepOf
    <3> QED BY <3>2, <3>3
  <2>5. ParentIndex(s, n) # None =>
           /\ ParentIndex(s, n) \in Nat /\ ParentIndex(s, n) < n
           /\ order[ParentIndex(s, n) + 1] = trace[s].parent
    <3>1. CASE trace[s].parent \in Visited /\ StepOf(trace[s].parent) < n
      <4>1. ParentIndex(s, n) = StepOf(trace[s].parent)
        BY <3>1 DEF ParentIndex
      <4>2. StepOf(trace[s].parent) \in Int
        <5>1. \E i \in 1..Len(order) : order[i] = trace[s].parent
          BY <3>1 DEF Visited
        <5> QED BY <1>n, <5>1 DEF StepOf
      <4> QED BY <1>n, <2>4, <3>1, <4>1, <4>2
    <3>2. CASE ~(trace[s].parent \in Visited /\ StepOf(trace[s].parent) < n)
      BY <3>2 DEF ParentIndex
    <3> QED BY <3>1, <3>2
  <2>6. k \in (Ids \union {None}) \X Names /\ \A j \in DOMAIN loopCounts : LoopCount(j) \in Nat
    <3>1. trace[s] \in SpanType
      BY <1>t, <2>2, TraceAssumption DEF TypeOK, Spans
    <3> QED BY <1>t, <3>1 DEF TypeOK, LoopKey, LoopCount, SpanType
  <2>7. LoopCount(k) \in Nat
    BY <1>t DEF TypeOK, LoopCount
  <2>8. step \in [span : Spans, parent : Nat \union {None}, loop : Nat]
    BY <2>2, <2>5, <2>7
  <2>9. steps \in Seq([span : Spans, parent : Nat \union {None}, loop : Nat])
    BY <1>t DEF TypeOK
  <2> HIDE DEF step
  <2>10. TypeOK'
    <3>1. steps' \in Seq([span : Spans, parent : Nat \union {None}, loop : Nat])
      <4>1. steps \in Seq(StepType) /\ step \in StepType
        BY <2>8, <2>9 DEF StepType
      <4>2. steps' \in Seq(StepType)
        BY <2>1, <4>1
      <4> QED BY <4>2 DEF StepType
    <3>2. /\ DOMAIN loopCounts' \subseteq (Ids \union {None}) \X Names
          /\ \A j \in DOMAIN loopCounts' : loopCounts'[j] \in Nat
      <4>1. DOMAIN loopCounts' = DOMAIN loopCounts \union {k}
        BY <2>1
      <4>2. ASSUME NEW j \in DOMAIN loopCounts' PROVE loopCounts'[j] \in Nat
        <5>1. LoopCount(j) \in Nat
          BY <2>6, <2>7, <4>1, <4>2
        <5> QED BY <2>1, <4>1, <4>2, <5>1
      <4> QED BY <1>t, <2>6, <4>1, <4>2 DEF TypeOK
    <3> QED BY <1>t, <2>1, <3>1, <3>2 DEF TypeOK, Spans
  <2>11. StepsMatchSpans'
    <3>1. CASE Malformed(s)
      BY <1>t, <2>1, <3>1 DEF StepsMatchSpans, Malformed
    <3>2. CASE ~Malformed(s)
      <4>1. steps' = Append(steps, step)
        BY <2>1, <3>2
      <4>2. /\ Len(steps') = n + 1 /\ steps'[n + 1] = step
            /\ \A i \in 1..n : steps'[i] = steps[i]
        <5>1. steps \in Seq(StepType)
          BY <2>9 DEF StepType
        <5> QED BY <4>1, <5>1
      <4>3. ASSUME NEW i \in 1..Len(steps')
            PROVE  /\ steps'[i].span = order'[i] /\ ~Malformed(order[i])'
                   /\ steps'[i].parent # None =>
                        /\ steps'[i].parent < i - 1
                        /\ order'[steps'[i].parent + 1] = trace'[order'[i]].parent
        <5>1. CASE i \in 1..n
          BY <1>t, <2>1, <4>2, <5>1 DEF StepsMatchSpans, Malformed
        <5>2. CASE i = n + 1
          <6>1. /\ steps'[i].span = s /\ steps'[i].parent = ParentIndex(s, n)
                /\ order'[i] = s /\ i - 1 = n /\ order' = order /\ trace' = trace
            BY <1>n, <2>1, <4>2, <5>2 DEF step
          <6>2. ~Malformed(order[i])'
            BY <3>2, <6>1 DEF Malformed
          <6> QED BY <2>5, <6>1, <6>2
        <5> QED BY <1>n, <4>2, <4>3, <5>1, <5>2
      <4>4. Len(steps') <= Len(order')
        BY <1>n, <2>1, <4>2
      <4> QED BY <4>3, <4>4 DEF StepsMatchSpans, Malformed
    <3> QED BY <3>1, <3>2
  <2> QED BY <2>1, <2>3, <2>10, <2>11, WalkStays DEF IInv
<1>6. CASE Finish
  <2>1. phase = "converting" /\ UNCHANGED <<trace, order, path, loopCounts, steps>>
    BY <1>6 DEF Finish
  <2>2. \/ phase' = "raised" /\ result' = result
        \/ phase' = "done" /\ result' = Trajectory
    BY <1>6 DEF Finish, Raise
  <2>3. Visited = Spans
    BY <1>t, <2>1 DEF VisitedOnce
  <2>4. Trajectory' = Trajectory
    BY <2>1 DEF Trajectory, CompletedAt, Visited
  <2>5. TypeOK'
    BY <1>t, <2>1, <2>2, <2>4 DEF TypeOK, Spans
  <2>6. StepsMatchSpans'
    BY <1>t, <2>1 DEF StepsMatchSpans, Malformed
  <2> QED BY <2>1, <2>3, <2>5, <2>6, WalkStays DEF IInv
<1>7. CASE UNCHANGED vars
  <2>1. Trajectory' = Trajectory
    BY <1>7 DEF vars, Trajectory, CompletedAt, Visited
  <2>2. TypeOK'
    BY <1>t, <1>7, <2>1 DEF vars, TypeOK, Spans
  <2>3. StepsMatchSpans'
    BY <1>t, <1>7 DEF vars, StepsMatchSpans, Malformed
  <2>4. phase' \in {"converting", "done"} => Visited = Spans
    BY <1>t, <1>7 DEF vars, VisitedOnce
  <2> QED BY <1>7, <2>2, <2>3, <2>4, WalkStays DEF vars, IInv
<1> QED BY <1>1, <1>2, <1>3, <1>4, <1>5, <1>6, <1>7 DEF Next

\* Every variable keeps its shape.
THEOREM ReconstructionTyped == Spec => []TypeOK
<1>1. IInv => TypeOK BY DEF IInv
<1> QED BY <1>1, InitHolds, StepHolds, PTL DEF Spec

\* The walk visits every span exactly once, for any parents whatever.
THEOREM WalkHolds == Spec => []VisitedOnce
<1>1. IInv => VisitedOnce BY DEF IInv
<1> QED BY <1>1, InitHolds, StepHolds, PTL DEF Spec

\* The validators of a trajectory never find a step out of place.
THEOREM StepsHold == Spec => []StepsMatchSpans
<1>1. IInv => StepsMatchSpans BY DEF IInv
<1> QED BY <1>1, InitHolds, StepHolds, PTL DEF Spec
-----------------------------------------------------------------------------
\* Reconstruction of any finite trace terminates: the measure is a natural
\* number that every step makes smaller.
LEMMA Arithmetic ==
    ASSUME NEW p \in 0..3, NEW r \in Nat, NEW d \in Nat, NEW a \in Nat, NEW n \in Nat, n <= a
    PROVE  p + 2 * r + d + a - n \in Nat
OBVIOUS

LEMMA MeasureFalls == IInv /\ IInv' /\ [Next]_vars => [0 <= Measure' /\ Measure' < Measure]_vars
<1> SUFFICES ASSUME IInv, IInv', Next PROVE 0 <= Measure' /\ Measure' < Measure
  OBVIOUS
<1>1. Rest \in Nat /\ All \in Nat /\ Rest' \in Nat /\ All' \in Nat
  <2>1. IsFiniteSet(Spans) /\ IsFiniteSet(Spans \ Visited)
    BY FS_Difference DEF IInv
  <2>2. IsFiniteSet(Spans)' /\ IsFiniteSet(Spans \ Visited)'
    BY FS_Difference DEF IInv
  <2> QED BY <2>1, <2>2, FS_CardinalityType DEF Rest, All
<1>2. Len(steps) \in Nat /\ Len(path) \in Nat /\ Len(steps') \in Nat /\ Len(path') \in Nat
  BY DEF IInv, TypeOK
<1>3. Len(steps) <= All /\ Len(steps') <= All'
  <2>1. Len(steps) <= Len(order) /\ Len(order) \in Nat /\ Len(order) <= All
    BY FS_Subset DEF IInv, StepsMatchSpans, TypeOK, All
  <2>2. Len(steps') <= Len(order') /\ Len(order') \in Nat /\ Len(order') <= All'
    <3>1. Len(steps') <= Len(order') /\ order' \in Seq(Spans')
      BY DEF IInv, StepsMatchSpans, TypeOK
    <3>2. IsFiniteSet(Spans') /\ Visited' \subseteq Spans' /\ Cardinality(Visited') = Len(order')
      BY DEF IInv
    <3>3. Cardinality(Visited') <= Cardinality(Spans')
      BY <3>2, FS_Subset
    <3> QED BY <3>1, <3>2, <3>3 DEF All
  <2> QED BY <1>1, <1>2, <2>1, <2>2
<1>4. PhasesLeft \in 0..3 /\ PhasesLeft' \in 0..3
  BY DEF PhasesLeft
<1>5. Measure = PhasesLeft + 2 * Rest + Len(path) + All - Len(steps)
  BY DEF Measure, Rest, All
<1>6. Measure' = PhasesLeft' + 2 * Rest' + Len(path') + All' - Len(steps')
  BY DEF Measure, Rest, All
<1>7. 0 <= Measure'
  <2>1. PhasesLeft' + 2 * Rest' + Len(path') + All' - Len(steps') \in Nat
    BY <1>1, <1>2, <1>3, <1>4, Arithmetic
  <2> QED BY <1>6, <2>1
<1>8. All' = All
  BY DEF Next, Start, Visit, Return, Sorted, Convert, Finish, Spans, All
<1>9. ASSUME UNCHANGED <<trace, order, path>>,
             \/ PhasesLeft' < PhasesLeft /\ Len(steps') = Len(steps)
             \/ PhasesLeft' <= PhasesLeft /\ Len(steps') > Len(steps)
      PROVE  Measure' < Measure
  <2>1. Rest' = Rest
    BY <1>9 DEF Spans, Visited, Rest
  <2> QED BY <1>1, <1>2, <1>4, <1>5, <1>6, <1>8, <1>9, <2>1
<1>10. ASSUME Start PROVE Measure' < Measure
  BY <1>9, <1>10 DEF Start, PhasesLeft
<1>11. ASSUME NEW s \in Spans, Visit(s) PROVE Measure' < Measure
  <2>1. CASE Len(path) = MaxDepth
    BY <1>9, <1>11, <2>1 DEF Visit, Raise, PhasesLeft
  <2>2. CASE Len(path) # MaxDepth
    <3>1. /\ order' = Append(order, s) /\ path' = Append(path, s)
          /\ UNCHANGED <<trace, steps, phase>> /\ s \in ToVisit
      BY <1>11, <2>2 DEF Visit, Next1
    <3>2. s \notin Visited
      BY <3>1 DEF ToVisit
    <3>3. Visited' = Visited \union {s}
      BY <3>1, <3>2, VisitAppends
    <3>4. (Spans \ Visited)' = (Spans \ Visited) \ {s} /\ s \in Spans \ Visited
      BY <3>1, <3>2, <3>3 DEF Spans
    <3>5. Rest' = Rest - 1
      BY <3>4, FS_RemoveElement, FS_Difference DEF IInv, Rest
    <3>6. Len(path') = Len(path) + 1
      <4>1. path \in Seq(Spans)
        BY DEF IInv, TypeOK
      <4> QED BY <3>1, <4>1
    <3>7. PhasesLeft' = PhasesLeft
      BY <3>1 DEF PhasesLeft
    <3> QED BY <1>1, <1>2, <1>4, <1>5, <1>6, <1>8, <3>1, <3>5, <3>6, <3>7
  <2> QED BY <2>1, <2>2
<1>12. ASSUME Return PROVE Measure' < Measure
  <2>1. UNCHANGED <<trace, order, steps, phase>> /\ path # <<>>
    BY <1>12 DEF Return
  <2>2. Rest' = Rest /\ PhasesLeft' = PhasesLeft
    BY <2>1 DEF Spans, Visited, PhasesLeft, Rest
  <2>3. Len(path') = Len(path) - 1
    <3>1. path \in Seq(Spans)
      BY DEF IInv, TypeOK
    <3>2. path' = SubSeq(path, 1, Len(path) - 1)
      BY <1>12 DEF Return
    <3> QED BY <2>1, <3>1, <3>2, DropLast
  <2> QED BY <1>1, <1>2, <1>4, <1>5, <1>6, <1>8, <2>1, <2>2, <2>3
<1>13. ASSUME Sorted PROVE Measure' < Measure
  BY <1>9, <1>13 DEF Sorted, PhasesLeft
<1>14. ASSUME Convert PROVE Measure' < Measure
  <2>1. CASE phase' = "raised" /\ steps' = steps
    BY <1>9, <1>14, <2>1 DEF Convert, PhasesLeft
  <2>2. CASE phase' = "converting" /\ Len(steps') > Len(steps)
    BY <1>9, <1>14, <2>2 DEF Convert, PhasesLeft
  <2>3. \/ phase' = "raised" /\ steps' = steps
        \/ phase' = "converting" /\ \E x : steps' = Append(steps, x)
    BY <1>14 DEF Convert, Raise
  <2>4. ASSUME NEW x, steps' = Append(steps, x) PROVE Len(steps') > Len(steps)
    BY <1>2, <2>4 DEF IInv, TypeOK
  <2> QED BY <2>1, <2>2, <2>3, <2>4
<1>15. ASSUME Finish PROVE Measure' < Measure
  BY <1>9, <1>15 DEF Finish, Raise, PhasesLeft
<1> QED BY <1>7, <1>10, <1>11, <1>12, <1>13, <1>14, <1>15 DEF Next

THEOREM ReconstructionTerminates == Spec => Progress
<1>1. Spec => []IInv
  BY InitHolds, StepHolds, PTL DEF Spec
<1> QED BY <1>1, MeasureFalls, PTL DEF Spec, Progress
-----------------------------------------------------------------------------
(* Loops *)

\* The first n spans in order that repeat s: same parent, same node.
Same(n, s) == {j \in 1..n : SameLoop(s, order[j])}

LoopInv ==
    /\ phase \in {"loaded", "sorting"} => DOMAIN loopCounts = {}
    /\ phase = "converting" =>
          \A s \in Spans : LoopCount(LoopKey(s)) = Cardinality(Same(Len(steps), s))
    /\ phase = "done" => Len(steps) = Len(order)
    /\ \A i \in 1..Len(steps) : steps[i].loop = Cardinality(Same(i - 1, order[i]))

LEMMA SameFinite == ASSUME NEW n \in Int, NEW s PROVE IsFiniteSet(Same(n, s))
<1>1. IsFiniteSet(1..n) BY FS_Interval
<1>2. Same(n, s) \subseteq 1..n BY DEF Same
<1> QED BY <1>1, <1>2, FS_Subset

\* An action that leaves steps and counts alone.
LEMMA LoopsStay ==
    ASSUME LoopInv, UNCHANGED <<trace, order, steps, loopCounts>>,
           phase' \in {"loaded", "sorting"} => phase \in {"loaded", "sorting"},
           phase' = "converting" => phase = "converting",
           phase' = "done" => phase = "done" \/ Len(steps) = Len(order)
    PROVE  LoopInv'
BY DEF LoopInv, LoopCount, LoopKey, Same, SameLoop, Spans

LEMMA LoopStep == IInv /\ LoopInv /\ [Next]_vars => LoopInv'
<1> SUFFICES ASSUME IInv, LoopInv, [Next]_vars PROVE LoopInv'
  OBVIOUS
<1>t. TypeOK /\ VisitedOnce /\ Visited \subseteq Spans /\ Len(steps) <= Len(order)
  BY DEF IInv, StepsMatchSpans
<1>n. Len(order) \in Nat /\ Len(steps) \in Nat /\ order \in Seq(Spans) /\ steps \in Seq(StepType)
  BY <1>t DEF TypeOK, StepType
<1>1. CASE Start BY <1>1, LoopsStay DEF Start
<1>2. ASSUME NEW s \in Spans, Visit(s) PROVE LoopInv'
  <2>1. /\ phase = "sorting" /\ phase' \in {"sorting", "raised"} /\ Len(steps) = 0
        /\ UNCHANGED <<loopCounts, steps>>
    BY <1>2, <1>t DEF Visit, Raise, TypeOK
  <2> QED BY <2>1 DEF LoopInv
<1>3. CASE Return BY <1>3, LoopsStay DEF Return
<1>4. CASE Sorted
  <2>1. /\ phase = "sorting" /\ phase' = "converting" /\ Len(steps) = 0
        /\ UNCHANGED <<trace, order, loopCounts, steps>>
    BY <1>4, <1>t DEF Sorted, TypeOK
  <2>2. \A s \in Spans : Same(0, s) = {} BY DEF Same
  <2>3. \A s \in Spans : LoopCount(LoopKey(s)) = 0 BY <2>1 DEF LoopInv, LoopCount
  <2>4. \A s \in Spans : LoopCount(LoopKey(s)) = Cardinality(Same(Len(steps), s))
    BY <2>1, <2>2, <2>3, FS_EmptySet
  <2>5. \A s \in Spans' : LoopCount(LoopKey(s))' = Cardinality(Same(Len(steps), s))'
    BY <2>1, <2>4 DEF LoopCount, LoopKey, Same, SameLoop, Spans
  <2> QED BY <2>1, <2>5 DEF LoopInv
<1>5. CASE Convert
  <2> DEFINE n == Len(steps)
             s == order[n + 1]
             k == LoopKey(s)
  <2>1. /\ phase = "converting" /\ n < Len(order)
        /\ UNCHANGED <<trace, order>>
        /\ loopCounts' = [j \in DOMAIN loopCounts \union {k} |->
                                LoopCount(j) + (IF j = k THEN 1 ELSE 0)]
        /\ \/ phase' = "raised" /\ steps' = steps
           \/ /\ phase' = "converting"
              /\ steps' = Append(steps, [span |-> s, parent |-> ParentIndex(s, n), loop |-> LoopCount(k)])
    BY <1>5 DEF Convert, Raise
  <2>2. n + 1 \in 1..Len(order) /\ s \in Spans BY <1>n, <2>1
  <2>c. \A t \in Spans : LoopCount(LoopKey(t)) = Cardinality(Same(n, t)) BY <2>1 DEF LoopInv
  <2>3. CASE phase' = "raised" /\ steps' = steps
    BY <2>1, <2>3 DEF LoopInv, Same, SameLoop
  <2>4. CASE /\ phase' = "converting"
             /\ steps' = Append(steps, [span |-> s, parent |-> ParentIndex(s, n), loop |-> LoopCount(k)])
    <3>1. /\ Len(steps') = n + 1 /\ steps'[n + 1].loop = LoopCount(k)
          /\ \A i \in 1..n : steps'[i] = steps[i]
      BY <1>n, <2>4
    <3>2. ASSUME NEW t \in Spans
          PROVE  LoopCount(LoopKey(t))' = LoopCount(LoopKey(t)) + (IF LoopKey(t) = k THEN 1 ELSE 0)
      <4>1. LoopKey(t)' = LoopKey(t) BY <2>1 DEF LoopKey
      <4>2. LoopCount(LoopKey(t)) \in Nat BY <1>t DEF TypeOK, LoopCount
      <4>3. CASE LoopKey(t) \in DOMAIN loopCounts \union {k}
        <5>1. LoopKey(t) \in DOMAIN loopCounts' BY <2>1, <4>3
        <5>2. LoopCount(LoopKey(t))' = loopCounts'[LoopKey(t)] BY <4>1, <5>1 DEF LoopCount
        <5> QED BY <2>1, <4>3, <5>2
      <4>4. CASE LoopKey(t) \notin DOMAIN loopCounts \union {k}
        <5>1. LoopKey(t) \notin DOMAIN loopCounts' BY <2>1, <4>4
        <5>2. LoopCount(LoopKey(t))' = 0 BY <4>1, <5>1 DEF LoopCount
        <5> QED BY <4>4, <5>2 DEF LoopCount
      <4> QED BY <4>3, <4>4
    <3>3. ASSUME NEW t \in Spans
          PROVE  Cardinality(Same(n + 1, t)) = Cardinality(Same(n, t)) + (IF LoopKey(t) = k THEN 1 ELSE 0)
      <4>1. LoopKey(t) = k <=> SameLoop(t, s) BY DEF LoopKey, SameLoop
      <4>2. \A j : j \in 1..(n + 1) <=> j \in 1..n \/ j = n + 1 BY <1>n
      <4>3. n + 1 \notin Same(n, t) /\ IsFiniteSet(Same(n, t))
        <5>1. n + 1 \notin Same(n, t) BY <1>n DEF Same
        <5>2. IsFiniteSet(Same(n, t)) BY <1>n, SameFinite
        <5> QED BY <5>1, <5>2
      <4>4. CASE LoopKey(t) = k
        <5>1. Same(n + 1, t) = Same(n, t) \union {n + 1} BY <4>1, <4>2, <4>4 DEF Same
        <5>2. Cardinality(Same(n, t) \union {n + 1}) = Cardinality(Same(n, t)) + 1
          BY <4>3, FS_AddElement
        <5> QED BY <4>4, <5>1, <5>2
      <4>5. CASE LoopKey(t) # k
        <5>1. Same(n + 1, t) = Same(n, t) BY <4>1, <4>2, <4>5 DEF Same
        <5>2. Cardinality(Same(n, t)) \in Nat BY <4>3, FS_CardinalityType
        <5> QED BY <4>5, <5>1, <5>2
      <4> QED BY <4>4, <4>5
    <3>4. \A t \in Spans' : LoopCount(LoopKey(t))' = Cardinality(Same(Len(steps), t))'
      <4>1. Spans' = Spans /\ \A t \in Spans : Same(Len(steps), t)' = Same(n + 1, t)
        BY <2>1, <3>1 DEF Spans, Same, SameLoop
      <4> QED BY <2>c, <3>2, <3>3, <4>1
    <3>5. ASSUME NEW i \in 1..Len(steps') PROVE steps'[i].loop = Cardinality(Same(i - 1, order[i]))'
      <4>1. Same(i - 1, order[i])' = Same(i - 1, order[i]) BY <2>1 DEF Same, SameLoop
      <4>2. CASE i \in 1..n BY <3>1, <4>1, <4>2 DEF LoopInv
      <4>3. CASE i = n + 1
        <5>1. i - 1 = n BY <1>n, <4>3
        <5>2. LoopCount(k) = Cardinality(Same(n, s)) BY <2>2, <2>c
        <5> QED BY <3>1, <4>1, <4>3, <5>1, <5>2
      <4> QED BY <1>n, <3>1, <3>5, <4>2, <4>3
    <3> QED BY <2>4, <3>4, <3>5 DEF LoopInv
  <2> QED BY <2>1, <2>3, <2>4
<1>6. CASE Finish
  BY <1>6, LoopsStay DEF Finish, Raise
<1>7. CASE UNCHANGED vars BY <1>7, LoopsStay DEF vars
<1> QED BY <1>1, <1>2, <1>3, <1>4, <1>5, <1>6, <1>7 DEF Next

LEMMA LoopsFollow == IInv /\ LoopInv => LoopsCounted
<1> SUFFICES ASSUME IInv, LoopInv PROVE LoopsCounted
  OBVIOUS
<1>t. TypeOK /\ VisitedOnce /\ Len(order) \in Nat /\ Len(steps) \in Nat /\ Len(steps) <= Len(order)
  BY DEF IInv, StepsMatchSpans, TypeOK
<1>1. \A i \in 1..Len(steps) :
        steps[i].loop = Cardinality({j \in 1..(i - 1) : SameLoop(order[i], order[j])})
  BY DEF LoopInv, Same
<1>2. ASSUME NEW i \in 1..Len(steps)
      PROVE  steps[i].loop > 0 <=> \E j \in 1..(i - 1) : SameLoop(order[i], order[j])
  <2>1. IsFiniteSet(Same(i - 1, order[i])) BY SameFinite
  <2>2. Cardinality(Same(i - 1, order[i])) \in Nat
        /\ (Cardinality(Same(i - 1, order[i])) = 0 <=> Same(i - 1, order[i]) = {})
    BY <2>1, FS_CardinalityType, FS_EmptySet
  <2>3. steps[i].loop = Cardinality(Same(i - 1, order[i])) BY DEF LoopInv
  <2>4. Same(i - 1, order[i]) # {} <=> \E j \in 1..(i - 1) : SameLoop(order[i], order[j])
    BY DEF Same
  <2> QED BY <2>2, <2>3, <2>4
<1>3. ASSUME phase = "done"
      PROVE  result.loop <=> \E s, t \in Spans : s # t /\ SameLoop(s, t)
  <2>1. result.loop <=> \E i \in 1..Len(steps) : steps[i].loop > 0
    BY <1>3, <1>t DEF TypeOK, Trajectory
  <2>2. Len(steps) = Len(order) /\ Visited = Spans
    BY <1>3, <1>t DEF LoopInv, VisitedOnce
  <2>3. ASSUME NEW i \in 1..Len(steps), steps[i].loop > 0
        PROVE  \E s, t \in Spans : s # t /\ SameLoop(s, t)
    <3>1. PICK j \in 1..(i - 1) : SameLoop(order[i], order[j]) BY <1>2, <2>3
    <3>2. j \in 1..Len(order) /\ i \in 1..Len(order) /\ i # j BY <1>t, <2>2
    <3>3. order[i] # order[j] /\ order[i] \in Spans /\ order[j] \in Spans
      BY <1>t, <3>2 DEF VisitedOnce, TypeOK
    <3> QED BY <3>1, <3>3
  <2>4. ASSUME NEW s \in Spans, NEW t \in Spans, s # t, SameLoop(s, t)
        PROVE  \E i \in 1..Len(steps) : steps[i].loop > 0
    <3>1. PICK a \in 1..Len(order) : order[a] = s BY <2>2 DEF Visited
    <3>2. PICK b \in 1..Len(order) : order[b] = t BY <2>2 DEF Visited
    <3>3. SameLoop(order[a], order[b]) /\ SameLoop(order[b], order[a]) /\ a # b
      BY <2>4, <3>1, <3>2 DEF SameLoop
    <3>4. CASE a < b
      <4>1. a \in 1..(b - 1) /\ b \in 1..Len(steps) BY <1>t, <2>2, <3>4
      <4> QED BY <1>2, <3>3, <4>1
    <3>5. CASE b < a
      <4>1. b \in 1..(a - 1) /\ a \in 1..Len(steps) BY <1>t, <2>2, <3>5
      <4> QED BY <1>2, <3>3, <4>1
    <3> QED BY <1>t, <3>3, <3>4, <3>5
  <2> QED BY <2>1, <2>3, <2>4
<1> QED BY <1>1, <1>3 DEF LoopsCounted

LEMMA LoopInit == Init => LoopInv
BY DEF Init, LoopInv

\* loop_iteration counts the earlier runs of the node under the same parent,
\* and loop_detected says whether there was any.
THEOREM LoopsHold == Spec => []LoopsCounted
BY LoopInit, LoopStep, LoopsFollow, InitHolds, StepHolds, PTL DEF Spec
-----------------------------------------------------------------------------
(* Ancestors *)

Parent(s) == trace[s].parent

\* The two halves of "least set": what is in it, and that nothing else is.
LEMMA ParentIsAncestor ==
    ASSUME NEW s \in Spans, NEW x \in Ancestors(s) \union {s}, Parent(x) \in Spans
    PROVE  Parent(x) \in Ancestors(s)
<1>1. ASSUME NEW C \in SUBSET Spans, HasParents(C, C \union {s}) PROVE Parent(x) \in C
  <2>1. x \in C \union {s}
    BY <1>1 DEF Ancestors
  <2> QED BY <1>1, <2>1 DEF HasParents, Parent
<1> QED BY <1>1 DEF Ancestors

LEMMA AncestorsLeast ==
    ASSUME NEW s \in Spans, NEW C \in SUBSET Spans, HasParents(C, C \union {s})
    PROVE  Ancestors(s) \subseteq C
BY DEF Ancestors

LEMMA AncestorsAreSpans == \A s : Ancestors(s) \subseteq Spans
BY DEF Ancestors

LEMMA NoParentNoAncestors ==
    ASSUME NEW s \in Spans, Parent(s) \notin Spans
    PROVE  Ancestors(s) = {}
<1>1. HasParents({}, {} \union {s})
  BY DEF HasParents, Parent
<1> QED BY <1>1, AncestorsLeast

\* An ancestor's ancestors are the span's.
LEMMA AncestorsTransitive ==
    ASSUME NEW s \in Spans, NEW a \in Ancestors(s)
    PROVE  a \in Spans /\ Ancestors(a) \subseteq Ancestors(s)
<1>1. a \in Spans /\ Ancestors(s) \in SUBSET Spans
  BY AncestorsAreSpans
<1>2. HasParents(Ancestors(s), Ancestors(s) \union {a})
  BY ParentIsAncestor DEF HasParents, Parent
<1> QED BY <1>1, <1>2, AncestorsLeast

\* The ancestors of s are its parent and the parent's ancestors.
LEMMA AncestorsUnfold ==
    ASSUME NEW s \in Spans, Parent(s) \in Spans
    PROVE  Ancestors(s) = {Parent(s)} \union Ancestors(Parent(s))
<1> DEFINE C == {Parent(s)} \union Ancestors(Parent(s))
<1>1. C \in SUBSET Spans
  BY AncestorsAreSpans
<1>2. HasParents(C, C \union {s})
  <2>1. ASSUME NEW x \in C, Parent(x) \in Spans PROVE Parent(x) \in C
    BY <2>1, ParentIsAncestor
  <2> QED BY <2>1 DEF HasParents, Parent
<1>3. Ancestors(s) \subseteq C
  BY <1>1, <1>2, AncestorsLeast
<1>4. Parent(s) \in Ancestors(s)
  BY ParentIsAncestor
<1>5. Ancestors(Parent(s)) \subseteq Ancestors(s)
  BY <1>4, AncestorsTransitive
<1> QED BY <1>3, <1>4, <1>5

\* Of two ancestors of s, one is the other's, unless they are the same.
LEMMA AncestorsComparable ==
    ASSUME NEW s \in Spans, NEW x \in Ancestors(s) \union {s}, NEW y \in Ancestors(s)
    PROVE  y = x \/ y \in Ancestors(x) \/ x \in Ancestors(y)
<1>1. CASE x = s
  BY <1>1
<1>2. CASE x \in Ancestors(s)
  <2> DEFINE C == {z \in Spans : z = x \/ z \in Ancestors(x) \/ x \in Ancestors(z)}
  <2>1. x \in Spans
    BY <1>2, AncestorsAreSpans
  <2>2. ASSUME NEW z \in C \union {s}, Parent(z) \in Spans PROVE Parent(z) \in C
    <3>1. z \in Spans
      OBVIOUS
    <3>2. CASE z = x
      BY <2>1, <2>2, <3>2, ParentIsAncestor
    <3>3. CASE z \in Ancestors(x)
      BY <2>1, <2>2, <3>3, ParentIsAncestor
    <3>4. CASE x \in Ancestors(z)
      BY <2>2, <3>1, <3>4, AncestorsUnfold
    <3> QED BY <1>2, <3>2, <3>3, <3>4
  <2>3. HasParents(C, C \union {s}) /\ C \in SUBSET Spans
    BY <2>2 DEF HasParents, Parent
  <2> QED BY <2>3, AncestorsLeast
<1> QED BY <1>1, <1>2

LEMMA RootHasNoAncestors == ASSUME NEW r \in Roots PROVE r \in Spans /\ Ancestors(r) = {}
<1>1. r \in Spans /\ Parent(r) \notin Spans
  BY DEF Roots, Parent
<1> QED BY <1>1, NoParentNoAncestors

\* A span a root leads to is on no cycle of parents.
LEMMA RootedIsAcyclic == ASSUME NEW s \in Spans, Rooted(s) PROVE s \notin Ancestors(s)
<1> SUFFICES ASSUME s \in Ancestors(s) PROVE FALSE
  OBVIOUS
<1> DEFINE C == {x \in Spans : s \in Ancestors(x)}
<1>1. ASSUME NEW x \in C \union {s}, Parent(x) \in Spans PROVE Parent(x) \in C
  BY <1>1, AncestorsUnfold
<1>2. HasParents(C, C \union {s}) /\ C \in SUBSET Spans
  BY <1>1 DEF HasParents, Parent
<1>3. Ancestors(s) \subseteq C
  BY <1>2, AncestorsLeast
<1>4. PICK r \in Roots : r \in Ancestors(s) \union {s}
  BY DEF Rooted
<1>5. s \in Ancestors(r)
  BY <1>3, <1>4
<1> QED BY <1>5, RootHasNoAncestors

\* What a root leads to is rooted all the way up and all the way down.
LEMMA RootedAbove ==
    ASSUME NEW s \in Spans, Rooted(s), Parent(s) \in Spans
    PROVE  Rooted(Parent(s))
<1>1. s \notin Roots
  BY DEF Roots, Parent
<1>2. PICK r \in Roots : r \in Ancestors(s)
  BY <1>1 DEF Rooted
<1>3. r = Parent(s) \/ r \in Ancestors(Parent(s))
  BY <1>2, AncestorsUnfold
<1> QED BY <1>2, <1>3 DEF Rooted

LEMMA RootedBelow ==
    ASSUME NEW s \in Spans, Parent(s) \in Spans, Rooted(Parent(s))
    PROVE  Rooted(s)
<1>1. PICK r \in Roots : r \in Ancestors(Parent(s)) \union {Parent(s)}
  BY DEF Rooted
<1>2. r \in Ancestors(s)
  BY <1>1, AncestorsUnfold
<1> QED BY <1>1, <1>2 DEF Rooted
-----------------------------------------------------------------------------
(* The order of the walk *)

OnPath(v) == \E i \in 1..Len(path) : path[i] = v
Siblings(b, c) == Parent(b) = Parent(c) \/ {b, c} \subseteq Roots

\* The calls in progress are a chain of ancestors, all different.
PathInv ==
    /\ phase \in {"loaded", "converting", "done"} => path = <<>>
    /\ \A i, j \in 1..Len(path) : path[i] = path[j] => i = j
    /\ \A i \in 1..Len(path) : \A j \in 1..(i - 1) : path[j] \in Ancestors(path[i])

\* A call that is over has visited all children; a parent comes first; and
\* the whole subtree of a sibling that executes before comes first.
ChildrenDone == \A v \in Visited : ~OnPath(v) => Children(v) \subseteq Visited
ParentFirst ==
    \A i \in 1..Len(order) :
        Rooted(order[i]) /\ Parent(order[i]) \in Spans =>
            \E j \in 1..(i - 1) : order[j] = Parent(order[i])
SubtreeFirst ==
    \A i \in 1..Len(order) : \A b, x \in Spans :
        /\ Rooted(order[i]) /\ Siblings(b, order[i]) /\ ExecutesBefore(b, order[i])
        /\ b \in Ancestors(x) \union {x}
        => \E j \in 1..(i - 1) : order[j] = x

WalkInv == PathInv /\ ChildrenDone /\ ParentFirst /\ SubtreeFirst

\* All that is said of a trace stays while the trace stays.
LEMMA TraceStays ==
    ASSUME trace' = trace
    PROVE  /\ Spans' = Spans /\ Roots' = Roots
           /\ \A s : Ancestors(s)' = Ancestors(s) /\ Children(s)' = Children(s)
                     /\ Parent(s)' = Parent(s) /\ (Rooted(s)' <=> Rooted(s))
           /\ \A s, t : /\ Siblings(s, t)' <=> Siblings(s, t)
                        /\ ExecutesBefore(s, t)' <=> ExecutesBefore(s, t)
<1>1. Spans' = Spans BY DEF Spans
<1>2. Roots' = Roots BY <1>1 DEF Roots
<1>3. ASSUME NEW s PROVE Ancestors(s)' = Ancestors(s)
  BY <1>1 DEF Ancestors, HasParents
<1>4. ASSUME NEW s PROVE Children(s)' = Children(s) /\ Parent(s)' = Parent(s)
  BY <1>1 DEF Children, Parent
<1>5. ASSUME NEW s PROVE Rooted(s)' <=> Rooted(s)
  BY <1>2, <1>3 DEF Rooted
<1>6. ASSUME NEW s, NEW t
      PROVE  /\ Siblings(s, t)' <=> Siblings(s, t)
             /\ ExecutesBefore(s, t)' <=> ExecutesBefore(s, t)
  BY <1>2, <1>4 DEF Siblings, ExecutesBefore
<1> QED BY <1>1, <1>2, <1>3, <1>4, <1>5, <1>6

LEMMA SpanFields ==
    ASSUME trace \in Traces, NEW s \in Spans
    PROVE  s \in Int /\ trace[s].start \in Int /\ trace[s].seq \in Int
BY TraceAssumption DEF Spans, SpanType

LEMMA ExecutesBeforeAsymmetric ==
    ASSUME trace \in Traces, NEW s \in Spans, NEW t \in Spans, ExecutesBefore(s, t)
    PROVE  ~ExecutesBefore(t, s)
BY SpanFields DEF ExecutesBefore

\* An unvisited span with nobody on the way to it has only unvisited spans above.
LEMMA UnvisitedAbove ==
    ASSUME IInv, ChildrenDone, NEW s \in Spans \ Visited,
           NEW b, \A x \in Spans : b \in Ancestors(x) \union {x} => ~OnPath(x),
           b \in Ancestors(s)
    PROVE  b \notin Visited
<1> DEFINE C == {x \in Spans : b \in Ancestors(x) \union {x} => x \notin Visited}
<1>1. ASSUME NEW x \in C \union {s}, Parent(x) \in Spans PROVE Parent(x) \in C
  <2>1. x \in Spans /\ (b \in Ancestors(x) \union {x} => x \notin Visited)
    OBVIOUS
  <2>2. SUFFICES ASSUME b \in Ancestors(Parent(x)) \union {Parent(x)} PROVE Parent(x) \notin Visited
    BY <1>1
  <2>3. b \in Ancestors(x)
    BY <1>1, <2>1, <2>2, AncestorsUnfold
  <2>4. x \notin Visited /\ ~OnPath(Parent(x)) /\ x \in Children(Parent(x))
    BY <1>1, <2>1, <2>2, <2>3 DEF Children, Parent
  <2> QED BY <2>4 DEF ChildrenDone
<1>2. HasParents(C, C \union {s}) /\ C \in SUBSET Spans
  BY <1>1 DEF HasParents, Parent
<1>3. b \in C
  BY <1>2, AncestorsLeast
<1> QED BY <1>3

\* The final pass finds only what no root leads to.
LEMMA FinalPassUnrooted ==
    ASSUME IInv, ChildrenDone, path = <<>>, Roots \subseteq Visited, NEW s \in Spans \ Visited
    PROVE  ~Rooted(s)
<1> SUFFICES ASSUME Rooted(s) PROVE FALSE
  OBVIOUS
<1>1. PICK r \in Roots : r \in Ancestors(s)
  BY DEF Rooted
<1>2. \A x : ~OnPath(x)
  BY DEF OnPath
<1> QED BY <1>1, <1>2, UnvisitedAbove

LEMMA PathSpans ==
    IInv => /\ path \in Seq(Spans) /\ Len(path) \in Nat
            /\ \A i \in 1..Len(path) : path[i] \in Spans /\ path[i] \in Visited
            /\ \A i \in 2..Len(path) : Parent(path[i]) = path[i - 1]
BY DEF IInv, TypeOK, VisitedOnce, Parent

\* What visit(s) is called for: a child of the span on top, a root, or, once
\* everything a root leads to is visited, any span.
LEMMA VisitWhom ==
    ASSUME IInv, WalkInv, NEW s \in Spans, s \in ToVisit
    PROVE  /\ s \in Spans \ Visited
           /\ \/ path # <<>> /\ Parent(s) = path[Len(path)] /\ Parent(s) \in Spans
              \/ path = <<>> /\ (Rooted(s) => s \in Roots)
<1>1. CASE path # <<>>
  <2>1. Len(path) \in 1..Len(path)
    BY <1>1, PathSpans
  <2> QED BY <1>1, <2>1, PathSpans DEF ToVisit, Children, Parent
<1>2. CASE path = <<>>
  BY <1>2, FinalPassUnrooted DEF ToVisit, WalkInv, Roots
<1> QED BY <1>1, <1>2

\* No call in progress is for a sibling of a rooted span about to be visited,
\* or for anything below that sibling.
LEMMA SiblingNotOnPath ==
    ASSUME IInv, WalkInv, NEW s \in Spans, s \in ToVisit, Rooted(s),
           NEW b \in Spans, Siblings(b, s), NEW x \in Spans, b \in Ancestors(x) \union {x}
    PROVE  ~OnPath(x)
<1>1. CASE path = <<>>
  BY <1>1 DEF OnPath
<1>2. CASE path # <<>>
  <2> SUFFICES ASSUME NEW i \in 1..Len(path), path[i] = x PROVE FALSE
    BY DEF OnPath
  <2>1. Parent(s) = path[Len(path)] /\ Parent(s) \in Spans /\ Len(path) \in 1..Len(path)
    BY <1>2, VisitWhom, PathSpans
  <2>2. Parent(b) = Parent(s)
    BY <2>1 DEF Siblings, Roots, Parent
  <2>3. Rooted(b)
    BY <2>1, <2>2, RootedAbove, RootedBelow
  <2>4. x = Parent(b) \/ x \in Ancestors(Parent(b))
    <3>1. i = Len(path) \/ i \in 1..(Len(path) - 1)
      BY PathSpans
    <3> QED BY <2>1, <2>2, <3>1 DEF WalkInv, PathInv
  <2>5. x \in Ancestors(b)
    BY <2>1, <2>2, <2>4, AncestorsUnfold
  <2>6. b \in Ancestors(b)
    BY <2>5, AncestorsTransitive
  <2> QED BY <2>3, <2>6, RootedIsAcyclic
<1> QED BY <1>1, <1>2
\* Visiting one more span.
LEMMA VisitWalks ==
    ASSUME IInv, WalkInv, NEW s \in Spans, Next1(s), trace' = trace,
           order' = Append(order, s), path' = Append(path, s), phase' = "sorting"
    PROVE  WalkInv'
<1>1. s \in ToVisit /\ trace \in Traces /\ order \in Seq(Spans) /\ Len(order) \in Nat
  BY DEF Next1, IInv, TypeOK
<1>2. /\ s \in Spans \ Visited
      /\ \/ path # <<>> /\ Parent(s) = path[Len(path)] /\ Parent(s) \in Spans
         \/ path = <<>> /\ (Rooted(s) => s \in Roots)
  BY <1>1, VisitWhom
<1>3. /\ Len(order') = Len(order) + 1
      /\ \A i \in 1..Len(order) : order'[i] = order[i]
      /\ order'[Len(order) + 1] = s
      /\ Visited' = Visited \union {s}
  BY <1>2, VisitAppends
<1>4. \A i \in 1..Len(order') : i \in 1..Len(order) \/ i = Len(order) + 1
  BY <1>1, <1>3
<1>5. /\ path \in Seq(Spans) /\ Len(path) \in Nat /\ Len(path') = Len(path) + 1
      /\ path'[Len(path) + 1] = s
      /\ \A i \in 1..Len(path) : path'[i] = path[i]
  BY PathSpans
<1>6. \A i \in 1..Len(path') : i \in 1..Len(path) \/ i = Len(path) + 1
  BY <1>5
<1>7. PathInv'
  <2>1. ASSUME NEW i \in 1..Len(path'), NEW j \in 1..Len(path'), path'[i] = path'[j] PROVE i = j
    <3>1. \A k \in 1..Len(path) : path[k] # s
      BY <1>2, PathSpans
    <3>2. i \in 1..Len(path) /\ j \in 1..Len(path) => i = j
      BY <1>5, <2>1 DEF WalkInv, PathInv
    <3> QED BY <1>5, <1>6, <2>1, <3>1, <3>2
  <2>2. ASSUME NEW i \in 1..Len(path'), NEW j \in 1..(i - 1)
        PROVE  path'[j] \in Ancestors(path'[i])
    <3>1. j \in 1..Len(path) /\ path'[j] = path[j]
      BY <1>5, <1>6
    <3>2. CASE i \in 1..Len(path)
      BY <1>5, <3>1, <3>2 DEF WalkInv, PathInv
    <3>3. CASE i = Len(path) + 1
      <4>1. path # <<>> /\ Parent(s) = path[Len(path)] /\ Parent(s) \in Spans
            /\ Len(path) \in 1..Len(path)
        BY <1>2, <1>5, <3>1
      <4>2. j = Len(path) \/ j \in 1..(Len(path) - 1)
        BY <1>5, <3>1
      <4>3. path[j] = Parent(s) \/ path[j] \in Ancestors(Parent(s))
        BY <4>1, <4>2 DEF WalkInv, PathInv
      <4>4. path[j] \in Ancestors(s)
        BY <4>1, <4>3, <1>2, AncestorsUnfold
      <4> QED BY <1>5, <3>1, <3>3, <4>4
    <3> QED BY <1>6, <3>2, <3>3
  <2> QED BY <2>1, <2>2, TraceStays DEF PathInv
<1>8. ChildrenDone'
  <2>1. ASSUME NEW v \in Visited', ~OnPath(v)' PROVE Children(v) \subseteq Visited'
    <3>1. v # s
      <4>1. Len(path) + 1 \in 1..Len(path')
        BY <1>5
      <4> QED BY <1>5, <2>1, <4>1 DEF OnPath
    <3>2. ~OnPath(v)
      <4>1. \A i \in 1..Len(path) : i \in 1..Len(path')
        BY <1>5
      <4> QED BY <1>5, <2>1, <4>1 DEF OnPath
    <3> QED BY <1>3, <2>1, <3>1, <3>2 DEF WalkInv, ChildrenDone
  <2> QED BY <2>1, TraceStays DEF ChildrenDone
<1>9. \A x \in Visited : \E j \in 1..Len(order) : order'[j] = x
  BY <1>3 DEF Visited
<1>10. ParentFirst'
  <2>1. ASSUME NEW i \in 1..Len(order'), Rooted(order'[i]), Parent(order'[i]) \in Spans
        PROVE  \E j \in 1..(i - 1) : order'[j] = Parent(order'[i])
    <3>1. CASE i \in 1..Len(order)
      <4>1. PICK j \in 1..(i - 1) : order[j] = Parent(order[i])
        BY <1>3, <2>1, <3>1 DEF WalkInv, ParentFirst
      <4>2. j \in 1..Len(order)
        BY <1>1, <3>1
      <4> QED BY <1>3, <3>1, <4>1, <4>2
    <3>2. CASE i = Len(order) + 1
      <4>1. path # <<>> /\ Parent(s) = path[Len(path)] /\ Len(path) \in 1..Len(path)
        BY <1>2, <1>3, <1>5, <2>1, <3>2 DEF Roots, Parent
      <4>2. Parent(s) \in Visited
        BY <4>1, PathSpans
      <4>3. i - 1 = Len(order)
        BY <1>1, <3>2
      <4> QED BY <1>3, <1>9, <3>2, <4>2, <4>3
    <3> QED BY <1>4, <3>1, <3>2
  <2> QED BY <2>1, TraceStays DEF ParentFirst
<1>11. SubtreeFirst'
  <2>1. ASSUME NEW i \in 1..Len(order'), NEW b \in Spans, NEW x \in Spans,
               Rooted(order'[i]), Siblings(b, order'[i]), ExecutesBefore(b, order'[i]),
               b \in Ancestors(x) \union {x}
        PROVE  \E j \in 1..(i - 1) : order'[j] = x
    <3>1. CASE i \in 1..Len(order)
      <4>1. order'[i] = order[i]
        BY <1>3, <3>1
      <4>2. PICK j \in 1..(i - 1) : order[j] = x
        BY <2>1, <3>1, <4>1 DEF WalkInv, SubtreeFirst
      <4>3. j \in 1..Len(order)
        BY <1>1, <3>1
      <4> QED BY <1>3, <4>2, <4>3
    <3>2. CASE i = Len(order) + 1
      <4>1. Rooted(s) /\ Siblings(b, s) /\ ExecutesBefore(b, s) /\ i - 1 = Len(order)
        BY <1>1, <1>3, <2>1, <3>2
      <4>2. b \in Visited
        <5>1. SUFFICES ASSUME b \notin Visited PROVE FALSE
          OBVIOUS
        <5>2. b \in ToVisit
          <6>1. CASE path # <<>>
            <7>1. Parent(b) = Parent(s)
              BY <1>2, <4>1, <6>1 DEF Siblings, Roots, Parent
            <7> QED BY <1>1, <5>1, <6>1, <7>1 DEF ToVisit, Children, Parent
          <6>2. CASE path = <<>>
            <7>1. b \in Roots
              BY <1>2, <4>1, <6>2 DEF Siblings, Roots, Parent
            <7> QED BY <5>1, <6>2, <7>1 DEF ToVisit
          <6> QED BY <6>1, <6>2
        <5>3. ~ExecutesBefore(s, b) /\ b # s
          BY <1>1, <1>2, <4>1, ExecutesBeforeAsymmetric
        <5> QED BY <5>2, <5>3 DEF Next1
      <4>3. \A y \in Spans : b \in Ancestors(y) \union {y} => ~OnPath(y)
        BY <1>1, <4>1, SiblingNotOnPath
      <4>4. x \in Visited
        BY <2>1, <4>2, <4>3, UnvisitedAbove DEF WalkInv
      <4> QED BY <1>9, <4>1, <4>4
    <3> QED BY <1>4, <3>1, <3>2
  <2> QED BY <2>1, TraceStays DEF SubtreeFirst
<1> QED BY <1>7, <1>8, <1>10, <1>11 DEF WalkInv

\* What has been visited stays in its order while nothing more is visited.
LEMMA OrderStays ==
    ASSUME WalkInv, UNCHANGED <<trace, order>>
    PROVE  ParentFirst' /\ SubtreeFirst' /\ Visited' = Visited
<1>1. ParentFirst'
  BY TraceStays DEF WalkInv, ParentFirst
<1>2. SubtreeFirst'
  BY TraceStays DEF WalkInv, SubtreeFirst
<1> QED BY <1>1, <1>2 DEF Visited

LEMMA PathStays ==
    ASSUME WalkInv, UNCHANGED <<trace, order, path>>,
           phase' \in {"loaded", "converting", "done"} => path = <<>>
    PROVE  WalkInv'
<1>1. ParentFirst' /\ SubtreeFirst' /\ Visited' = Visited
  BY OrderStays
<1>2. ChildrenDone'
  BY <1>1, TraceStays DEF WalkInv, ChildrenDone, OnPath
<1>3. PathInv'
  BY TraceStays DEF WalkInv, PathInv
<1> QED BY <1>1, <1>2, <1>3 DEF WalkInv

LEMMA WalkInit == Init => WalkInv
BY DEF Init, WalkInv, PathInv, ChildrenDone, ParentFirst, SubtreeFirst, Visited

LEMMA WalkStep == IInv /\ WalkInv /\ [Next]_vars => WalkInv'
<1> SUFFICES ASSUME IInv, WalkInv, [Next]_vars PROVE WalkInv'
  OBVIOUS
<1>1. CASE Start
  BY <1>1, PathStays DEF Start, WalkInv, PathInv
<1>2. ASSUME NEW s \in Spans, Visit(s) PROVE WalkInv'
  <2>1. CASE Len(path) = MaxDepth
    BY <1>2, <2>1, PathStays DEF Visit, Raise
  <2>2. CASE Len(path) # MaxDepth
    BY <1>2, <2>2, VisitWalks DEF Visit
  <2> QED BY <2>1, <2>2
<1>3. CASE Return
  <2>1. /\ phase' = "sorting" /\ path # <<>> /\ ToVisit = {}
        /\ path' = SubSeq(path, 1, Len(path) - 1)
        /\ UNCHANGED <<trace, order>>
    BY <1>3 DEF Return
  <2>2. path \in Seq(Spans) /\ Len(path) \in 1..Len(path)
    BY <2>1, PathSpans
  <2>3. Len(path') = Len(path) - 1 /\ \A i \in 1..Len(path') : path'[i] = path[i]
    BY <2>1, <2>2, DropLast
  <2>4. \A i \in 1..Len(path) : i \in 1..Len(path') \/ i = Len(path)
    BY <2>2, <2>3
  <2>5. \A i \in 1..Len(path') : i \in 1..Len(path) /\ \A j \in 1..(i - 1) : j \in 1..Len(path')
    BY <2>2, <2>3
  <2>6. ParentFirst' /\ SubtreeFirst' /\ Visited' = Visited
    BY <2>1, OrderStays
  <2>7. PathInv'
    <3>1. \A i, j \in 1..Len(path') : path'[i] = path'[j] => i = j
      BY <2>3, <2>5 DEF WalkInv, PathInv
    <3>2. \A i \in 1..Len(path') : \A j \in 1..(i - 1) : path'[j] \in Ancestors(path'[i])
      BY <2>3, <2>5 DEF WalkInv, PathInv
    <3> QED BY <2>1, <3>1, <3>2, TraceStays DEF PathInv
  <2>8. ChildrenDone'
    <3>1. ASSUME NEW v \in Visited, ~OnPath(v)' PROVE Children(v) \subseteq Visited
      <4>1. CASE v = path[Len(path)]
        BY <2>1, <4>1 DEF ToVisit
      <4>2. CASE v # path[Len(path)]
        <5>1. ~OnPath(v)
          BY <2>3, <2>4, <3>1, <4>2 DEF OnPath
        <5> QED BY <5>1 DEF WalkInv, ChildrenDone
      <4> QED BY <4>1, <4>2
    <3> QED BY <2>1, <2>6, <3>1, TraceStays DEF ChildrenDone
  <2> QED BY <2>6, <2>7, <2>8 DEF WalkInv
<1>4. CASE Sorted
  BY <1>4, PathStays DEF Sorted
<1>5. CASE Convert
  BY <1>5, PathStays DEF Convert, Raise, WalkInv, PathInv
<1>6. CASE Finish
  BY <1>6, PathStays DEF Finish, WalkInv, PathInv
<1>7. CASE UNCHANGED vars
  BY <1>7, PathStays DEF vars, WalkInv, PathInv
<1> QED BY <1>1, <1>2, <1>3, <1>4, <1>5, <1>6, <1>7 DEF Next

LEMMA WalkAlways == Spec => [](IInv /\ WalkInv)
BY InitHolds, StepHolds, WalkInit, WalkStep, PTL DEF Spec

\* Everything above a rooted span has been visited before it.
LEMMA AncestorsFirst ==
    ASSUME IInv, WalkInv, NEW j \in 1..Len(order), Rooted(order[j]), NEW a \in Ancestors(order[j])
    PROVE  \E i \in 1..(j - 1) : order[i] = a
<1> DEFINE C == {x \in Spans : \E i \in 1..(j - 1) : order[i] = x /\ Rooted(x)}
<1>1. order \in Seq(Spans) /\ Len(order) \in Nat /\ order[j] \in Spans
  BY DEF IInv, TypeOK
<1>2. ASSUME NEW x \in C \union {order[j]}, Parent(x) \in Spans PROVE Parent(x) \in C
  <2>1. PICK i \in 1..j : order[i] = x /\ Rooted(x)
    BY <1>1
  <2>2. i \in 1..Len(order)
    BY <1>1
  <2>3. PICK k \in 1..(i - 1) : order[k] = Parent(x)
    BY <1>2, <2>1, <2>2 DEF WalkInv, ParentFirst
  <2>4. k \in 1..(j - 1)
    BY <1>1
  <2>5. x \in Spans
    BY <1>1
  <2>6. Rooted(Parent(x))
    BY <1>2, <2>1, <2>5, RootedAbove
  <2> QED BY <1>2, <2>3, <2>4, <2>6
<1>3. HasParents(C, C \union {order[j]}) /\ C \in SUBSET Spans
  BY <1>2 DEF HasParents, Parent
<1>4. a \in C
  BY <1>1, <1>3, AncestorsLeast
<1> QED BY <1>4

\* Where two rooted spans part, neither above the other, their branches are
\* siblings: some branch there is, and it hangs on what they share.
IsBranch(b, s, others) ==
    /\ b \in (Ancestors(s) \union {s}) \ others
    /\ Parent(b) \notin Spans \/ Parent(b) \in others

LEMMA BranchExists ==
    ASSUME NEW s \in Spans, Rooted(s), NEW others, s \notin others
    PROVE  IsBranch(Branch(s, others), s, others)
<1> DEFINE X == (Ancestors(s) \union {s}) \ others
<1>1. \E b \in X : trace[b].parent \notin Spans \/ trace[b].parent \in others
  <2> SUFFICES ASSUME \A b \in X : Parent(b) \in Spans /\ Parent(b) \notin others PROVE FALSE
    BY DEF Parent
  <2>1. X \in SUBSET Spans /\ s \in X
    BY AncestorsAreSpans
  <2>2. HasParents(X, X \union {s})
    BY <2>1, ParentIsAncestor DEF HasParents, Parent
  <2>3. Ancestors(s) \subseteq X
    BY <2>1, <2>2, AncestorsLeast
  <2>4. PICK r \in Roots : r \in Ancestors(s) \union {s}
    BY DEF Rooted
  <2> QED BY <2>1, <2>3, <2>4 DEF Roots, Parent
<1> QED BY <1>1 DEF Branch, IsBranch, Parent

LEMMA BranchParent ==
    ASSUME NEW s \in Spans, NEW t \in Spans, NEW b, NEW c,
           IsBranch(b, s, Ancestors(t)), IsBranch(c, t, Ancestors(s)), Parent(c) \in Spans
    PROVE  /\ b \in Spans /\ c \in Spans /\ Parent(c) \in Ancestors(b)
           /\ Parent(b) \in Spans /\ (Parent(c) = Parent(b) \/ Parent(c) \in Ancestors(Parent(b)))
<1>1. b \in Spans /\ c \in Spans
  BY AncestorsAreSpans DEF IsBranch
<1>2. Parent(c) \in Ancestors(s) /\ Parent(c) \in Ancestors(t)
  BY ParentIsAncestor DEF IsBranch
<1>3. b # Parent(c) /\ b \notin Ancestors(Parent(c))
  BY <1>2, AncestorsTransitive DEF IsBranch
<1>4. Parent(c) \in Ancestors(b)
  BY <1>2, <1>3, AncestorsComparable DEF IsBranch
<1>5. Parent(b) \in Spans
  BY <1>1, <1>4, NoParentNoAncestors
<1> QED BY <1>1, <1>4, <1>5, AncestorsUnfold

LEMMA BranchesAreSiblings ==
    ASSUME NEW s \in Spans, NEW t \in Spans, Rooted(s), NEW b, NEW c,
           IsBranch(b, s, Ancestors(t)), IsBranch(c, t, Ancestors(s))
    PROVE  Siblings(b, c)
<1>1. b \in Spans /\ c \in Spans
  BY AncestorsAreSpans DEF IsBranch
<1>2. CASE Parent(b) \notin Spans /\ Parent(c) \notin Spans
  BY <1>1, <1>2 DEF Siblings, Roots, Parent
<1>3. CASE Parent(b) \in Spans \/ Parent(c) \in Spans
  <2>1. Parent(b) \in Spans /\ Parent(c) \in Spans
    BY <1>3, BranchParent
  <2>2. Parent(c) = Parent(b) \/ Parent(c) \in Ancestors(Parent(b))
    BY <2>1, BranchParent
  <2>3. Parent(c) = Parent(b) \/ Parent(b) \in Ancestors(Parent(c))
    BY <2>1, BranchParent
  <2>4. SUFFICES ASSUME Parent(c) # Parent(b) PROVE FALSE
    BY DEF Siblings
  <2>5. Parent(b) \in Ancestors(Parent(b))
    BY <2>1, <2>2, <2>3, <2>4, AncestorsTransitive
  <2>6. Rooted(Parent(b))
    <3>1. Parent(b) \in Ancestors(s)
      BY <2>1, ParentIsAncestor DEF IsBranch
    <3>2. PICK r \in Roots : r \in Ancestors(s)
      BY <3>1, NoParentNoAncestors DEF Rooted, Roots, Parent
    <3>3. r = Parent(b) \/ r \in Ancestors(Parent(b)) \/ Parent(b) \in Ancestors(r)
      BY <3>1, <3>2, AncestorsComparable
    <3> QED BY <3>2, <3>3, RootHasNoAncestors DEF Rooted
  <2> QED BY <2>1, <2>5, <2>6, RootedIsAcyclic
<1> QED BY <1>2, <1>3

LEMMA WalkInExecutionOrder == IInv /\ WalkInv => ExecutionOrder
<1> SUFFICES ASSUME IInv, WalkInv, NEW i \in 1..Len(order), NEW j \in 1..Len(order),
                    Rooted(order[i]), Rooted(order[j]), Precedes(order[i], order[j])
             PROVE  i < j
  BY DEF ExecutionOrder
<1> DEFINE s == order[i]
           t == order[j]
<1>1. Len(order) \in Nat /\ s \in Spans /\ t \in Spans
  BY DEF IInv, TypeOK
<1>2. \A k \in 1..Len(order) : order[k] = s => k = i
  BY DEF IInv, VisitedOnce
<1>3. SUFFICES \E k \in 1..(j - 1) : order[k] = s
  <2>1. \A k \in 1..(j - 1) : k \in 1..Len(order) /\ k < j
    BY <1>1
  <2> QED BY <1>2, <1>3, <2>1
<1>4. CASE s \in Ancestors(t)
  BY <1>4, AncestorsFirst
<1>5. CASE s \notin Ancestors(t)
  <2> DEFINE b == Branch(s, Ancestors(t))
             c == Branch(t, Ancestors(s))
  <2>1. s # t /\ t \notin Ancestors(s) /\ ExecutesBefore(b, c)
    BY <1>5 DEF Precedes
  <2>2. IsBranch(b, s, Ancestors(t)) /\ IsBranch(c, t, Ancestors(s))
    BY <1>1, <1>5, <2>1, BranchExists
  <2> HIDE DEF b, c
  <2>3. Siblings(b, c) /\ b \in Spans /\ c \in Spans
    BY <1>1, <2>2, BranchesAreSiblings, AncestorsAreSpans DEF IsBranch
  <2>4. PICK k \in 1..j : order[k] = c
    <3>1. CASE c = t
      BY <1>1, <3>1
    <3>2. CASE c # t
      <4>1. c \in Ancestors(t)
        BY <2>2, <3>2 DEF IsBranch
      <4>2. PICK k \in 1..(j - 1) : order[k] = c
        BY <4>1, AncestorsFirst
      <4>3. k \in 1..j
        BY <1>1
      <4> QED BY <4>2, <4>3
    <3> QED BY <3>1, <3>2
  <2>5. k \in 1..Len(order) /\ \A m \in 1..(k - 1) : m \in 1..(j - 1)
    BY <1>1
  <2>6. Rooted(c)
    <3>1. c = t \/ c \in Ancestors(t)
      BY <2>2 DEF IsBranch
    <3>2. PICK r \in Roots : r \in Ancestors(t) \union {t}
      BY DEF Rooted
    <3>3. c \in Ancestors(t) => r \in Ancestors(t)
      BY <1>1, <3>2, RootHasNoAncestors
    <3>4. c \in Ancestors(t) => r = c \/ r \in Ancestors(c) \/ c \in Ancestors(r)
      BY <1>1, <3>3, AncestorsComparable
    <3> QED BY <3>1, <3>2, <3>4, RootHasNoAncestors DEF Rooted
  <2>7. \E m \in 1..(k - 1) : order[m] = s
    <3>1. b \in Ancestors(s) \union {s}
      BY <2>2 DEF IsBranch
    <3> QED BY <1>1, <2>1, <2>3, <2>4, <2>5, <2>6, <3>1 DEF WalkInv, SubtreeFirst
  <2> QED BY <2>5, <2>7
<1> QED BY <1>4, <1>5

\* Spans a root leads to are walked in execution order, subtree by subtree,
\* whatever else the trace holds.
THEOREM ExecutionOrderHolds == Spec => []ExecutionOrder
BY WalkAlways, WalkInExecutionOrder, PTL
-----------------------------------------------------------------------------
(* Links *)

\* A step without a parent comes no later than the parent's span.
LinkInv ==
    \A i \in 1..Len(steps) :
        steps[i].parent = None => \A j \in 1..(i - 1) : order[j] # Parent(order[i])

LEMMA ParentIndexFinds ==
    ASSUME IInv, NEW n \in Nat, NEW j \in 1..n, n < Len(order), order[j] = Parent(order[n + 1])
    PROVE  ParentIndex(order[n + 1], n) # None
<1> DEFINE p == Parent(order[n + 1])
<1>1. j \in 1..Len(order) /\ Len(order) \in Nat
  BY DEF IInv, TypeOK
<1>2. \A i \in 1..Len(order) : order[i] = p => i = j
  BY <1>1 DEF IInv, VisitedOnce
<1>3. (CHOOSE i \in 1..Len(order) : order[i] = p) = j
  BY <1>1, <1>2
<1>4. StepOf(p) = j - 1 /\ p \in Visited
  BY <1>1, <1>3 DEF StepOf, Visited
<1>5. j - 1 < n /\ j - 1 \in Int
  OBVIOUS
<1>6. ParentIndex(order[n + 1], n) = StepOf(p)
  BY <1>4, <1>5 DEF ParentIndex, Parent
<1> QED BY <1>4, <1>5, <1>6, TraceAssumption

LEMMA LinkStep == IInv /\ LinkInv /\ [Next]_vars => LinkInv'
<1> SUFFICES ASSUME IInv, LinkInv, [Next]_vars PROVE LinkInv'
  OBVIOUS
<1>t. Len(steps) \in Nat /\ (phase = "sorting" => Len(steps) = 0)
  BY DEF IInv, TypeOK
<1>1. ASSUME UNCHANGED <<trace, order, steps>> PROVE LinkInv'
  BY <1>1 DEF LinkInv, Parent
<1>2. ASSUME NEW s \in Spans, Visit(s) PROVE LinkInv'
  <2>1. Len(steps') = 0
    BY <1>2, <1>t DEF Visit
  <2> QED BY <2>1 DEF LinkInv
<1>3. CASE Convert
  <2> DEFINE n == Len(steps)
             s == order[n + 1]
  <2>1. UNCHANGED <<trace, order>> /\ n < Len(order)
    BY <1>3 DEF Convert
  <2>2. CASE steps' = steps
    BY <1>1, <2>1, <2>2
  <2>3. CASE steps' # steps
    <3>1. steps' = Append(steps, [span |-> s, parent |-> ParentIndex(s, n),
                                  loop |-> LoopCount(LoopKey(s))])
      BY <1>3, <2>3 DEF Convert, Raise
    <3>2. steps \in Seq(StepType)
      BY DEF IInv, TypeOK, StepType
    <3>3. /\ Len(steps') = n + 1 /\ steps'[n + 1].parent = ParentIndex(s, n)
          /\ \A i \in 1..n : steps'[i] = steps[i]
      BY <3>1, <3>2
    <3>4. ASSUME NEW i \in 1..Len(steps'), steps'[i].parent = None, NEW j \in 1..(i - 1)
          PROVE  order[j] # Parent(order[i])
      <4>1. CASE i \in 1..n
        BY <3>3, <3>4, <4>1 DEF LinkInv
      <4>2. CASE i = n + 1
        <5>1. j \in 1..n
          BY <1>t, <4>2
        <5>2. ParentIndex(s, n) = None
          BY <3>3, <3>4, <4>2
        <5> QED BY <1>t, <2>1, <4>2, <5>1, <5>2, ParentIndexFinds
      <4> QED BY <1>t, <3>3, <4>1, <4>2
    <3> QED BY <2>1, <3>4, TraceStays DEF LinkInv
  <2> QED BY <2>2, <2>3
<1>4. CASE Start BY <1>1, <1>4 DEF Start
<1>5. CASE Return BY <1>1, <1>5 DEF Return
<1>6. CASE Sorted BY <1>1, <1>6 DEF Sorted
<1>7. CASE Finish BY <1>1, <1>7 DEF Finish
<1>8. CASE UNCHANGED vars BY <1>1, <1>8 DEF vars
<1> QED BY <1>2, <1>3, <1>4, <1>5, <1>6, <1>7, <1>8 DEF Next

LEMMA LinksFollow == IInv /\ WalkInv /\ LinkInv => LinksKept
<1> SUFFICES ASSUME IInv, WalkInv, LinkInv, NEW i \in 1..Len(steps),
                    Parent(order[i]) \in Spans, steps[i].parent = None
             PROVE  ~Rooted(order[i])
  BY DEF LinksKept, Parent
<1>1. i \in 1..Len(order)
  BY DEF IInv, StepsMatchSpans, TypeOK
<1> QED BY <1>1 DEF WalkInv, ParentFirst, LinkInv

LEMMA LinkInit == Init => LinkInv
BY DEF Init, LinkInv

\* The trajectory keeps every link between spans a root leads to.
THEOREM LinksHold == Spec => []LinksKept
BY LinkInit, LinkStep, LinksFollow, WalkAlways, InitHolds, StepHolds, PTL DEF Spec
-----------------------------------------------------------------------------
(* Refusals *)

\* A non-empty finite set of times has a latest and an earliest: of the sets
\* of times after each of them some is minimal, and that one is empty.
LEMMA MinimalSubset ==
    ASSUME NEW S, IsFiniteSet(S), S # {}, NEW f \in [S -> SUBSET S]
    PROVE  \E s \in S : \A t \in S : f[t] \subseteq f[s] => f[t] = f[s]
<1> DEFINE F == {f[s] : s \in S}
<1>1. FiniteSubsetsOf(S) = SUBSET S
  BY FS_FiniteSubsetsOfFinite
<1>2. IsWellFoundedOn(StrictSubsetOrdering(S), SUBSET S)
  BY <1>1, FS_StrictSubsetOrderingWellFounded
<1>3. F \subseteq SUBSET S /\ F # {}
  OBVIOUS
<1>4. PICK A \in F : \A B \in F : <<B, A>> \notin StrictSubsetOrdering(S)
  <2> HIDE DEF F
  <2> QED BY <1>2, <1>3, WFMin
<1>5. PICK s \in S : A = f[s]
  OBVIOUS
<1>6. ASSUME NEW t \in S, f[t] \subseteq f[s] PROVE f[t] = f[s]
  <2>1. f[t] \in F /\ <<f[t], f[s]>> \in (SUBSET S) \X (SUBSET S)
    OBVIOUS
  <2>2. <<f[t], f[s]>> \notin StrictSubsetOrdering(S)
    BY <1>4, <1>5, <2>1
  <2> QED BY <1>6, <2>1, <2>2 DEF StrictSubsetOrdering
<1> QED BY <1>6

Times(times) == times \subseteq Int /\ IsFiniteSet(times) /\ times # {}

LEMMA LatestExists ==
    ASSUME NEW times, Times(times)
    PROVE  LatestOf(times) \in times /\ \A u \in times : u <= LatestOf(times)
<1> DEFINE After == [t \in times |-> {u \in times : t < u}]
<1>1. After \in [times -> SUBSET times] /\ IsFiniteSet(times) /\ times # {}
  BY DEF Times
<1>2. PICK t \in times : \A u \in times : After[u] \subseteq After[t] => After[u] = After[t]
  <2> HIDE DEF After
  <2> QED BY <1>1, MinimalSubset
<1>3. ASSUME NEW u \in times, t < u PROVE FALSE
  <2>1. \A v \in times : u < v => t < v
    BY <1>3 DEF Times
  <2>2. After[u] \subseteq After[t]
    BY <2>1
  <2>3. u \in After[t] /\ u \notin After[u]
    BY <1>3 DEF Times
  <2> HIDE DEF After
  <2> QED BY <1>2, <2>2, <2>3
<1>4. t \in times /\ \A u \in times : u <= t
  BY <1>3 DEF Times
<1> QED BY <1>4 DEF LatestOf

LEMMA EarliestExists ==
    ASSUME NEW times, Times(times)
    PROVE  EarliestOf(times) \in times /\ \A u \in times : EarliestOf(times) <= u
<1> DEFINE Before == [t \in times |-> {u \in times : u < t}]
<1>1. Before \in [times -> SUBSET times] /\ IsFiniteSet(times) /\ times # {}
  BY DEF Times
<1>2. PICK t \in times : \A u \in times : Before[u] \subseteq Before[t] => Before[u] = Before[t]
  <2> HIDE DEF Before
  <2> QED BY <1>1, MinimalSubset
<1>3. ASSUME NEW u \in times, u < t PROVE FALSE
  <2>1. \A v \in times : v < u => v < t
    BY <1>3 DEF Times
  <2>2. Before[u] \subseteq Before[t]
    BY <2>1
  <2>3. u \in Before[t] /\ u \notin Before[u]
    BY <1>3 DEF Times
  <2> HIDE DEF Before
  <2> QED BY <1>2, <2>2, <2>3
<1>4. t \in times /\ \A u \in times : t <= u
  BY <1>3 DEF Times
<1> QED BY <1>4 DEF EarliestOf

BadTrace ==
    \/ Spans = {}
    \/ \E s \in Spans : Malformed(s)
    \/ \E s \in Spans : Depth(s) > MaxDepth

RejectInv ==
    /\ phase \in {"converting", "done"} => Spans # {}
    /\ phase = "raised" => BadTrace
    /\ phase = "done" => Len(steps) = Len(order)

\* With the recursion limit's number of calls in progress, the span about to
\* be visited has that many ancestors.
LEMMA LimitMeansDepth ==
    ASSUME IInv, WalkInv, NEW s \in Spans, s \in ToVisit, Len(path) = MaxDepth
    PROVE  Depth(s) > MaxDepth
<1>1. MaxDepth \in Nat /\ MaxDepth >= 1
  BY TraceAssumption
<1>2. /\ s \notin Visited /\ path # <<>>
      /\ Parent(s) = path[MaxDepth] /\ Parent(s) \in Spans
  BY <1>1, VisitWhom
<1>3. ASSUME NEW i \in 1..MaxDepth PROVE path[i] \in Ancestors(s) /\ path[i] # s
  <2>1. i = MaxDepth \/ i \in 1..(MaxDepth - 1)
    BY <1>1
  <2>2. path[i] = Parent(s) \/ path[i] \in Ancestors(Parent(s))
    BY <1>1, <1>2, <2>1 DEF WalkInv, PathInv
  <2>3. path[i] # s
    BY <1>2, PathSpans
  <2> QED BY <1>2, <2>2, <2>3, AncestorsUnfold
<1> DEFINE T == Ancestors(s) \union {s}
           f == [i \in 1..(MaxDepth + 1) |-> IF i \in 1..MaxDepth THEN path[i] ELSE s]
<1>4. \A i \in 1..(MaxDepth + 1) : i \in 1..MaxDepth \/ i = MaxDepth + 1
  BY <1>1
<1>5. f \in Injection(1..(MaxDepth + 1), T)
  <2>1. f \in [1..(MaxDepth + 1) -> T]
    BY <1>3
  <2>2. ASSUME NEW i \in 1..(MaxDepth + 1), NEW j \in 1..(MaxDepth + 1), f[i] = f[j]
        PROVE  i = j
    <3>1. i \in 1..MaxDepth /\ j \in 1..MaxDepth => i = j
      BY <2>2 DEF WalkInv, PathInv
    <3> QED BY <1>3, <1>4, <2>2, <3>1
  <2> QED BY <2>1, <2>2 DEF Injection, IsInjective
<1>6. IsFiniteSet(T)
  <2>1. T \subseteq Spans /\ IsFiniteSet(Spans)
    BY AncestorsAreSpans DEF IInv
  <2> QED BY <2>1, FS_Subset
<1>7. Cardinality(1..(MaxDepth + 1)) = MaxDepth + 1
  BY <1>1, FS_Interval
<1>8. Cardinality(1..(MaxDepth + 1)) <= Cardinality(T) /\ Cardinality(T) \in Nat
  <2> HIDE DEF f, T
  <2> QED BY <1>5, <1>6, FS_Injection, FS_CardinalityType
<1> QED BY <1>1, <1>7, <1>8 DEF Depth

\* When every span was converted, no span is malformed.
LEMMA ConvertedAllWellFormed ==
    ASSUME IInv, Visited = Spans, Len(steps) = Len(order)
    PROVE  \A s \in Spans : ~Malformed(s)
BY DEF IInv, StepsMatchSpans, Visited

\* completed_at is unknown exactly while a span is open; otherwise no span
\* ends after it, and it is not before the trajectory's start.
LEMMA CompletedAtBounds ==
    ASSUME IInv, Visited = Spans, Spans # {}, \A s \in Spans : ~Malformed(s)
    PROVE  /\ CompletedAt = None <=> \E s \in Spans : trace[s].end = None
           /\ CompletedAt # None =>
                 /\ \A s \in Spans : trace[s].end <= CompletedAt
                 /\ CompletedAt >= EarliestOf({trace[s].start : s \in Visited})
<1> DEFINE ends == {trace[s].end : s \in Visited}
           starts == {trace[s].start : s \in Visited}
<1>1. \A s \in Spans : trace[s].start \in Int /\ trace[s].end \in Int \union {None}
  BY TraceAssumption DEF IInv, TypeOK, Spans, SpanType
<1>2. IsFiniteSet(ends) /\ ends # {} /\ IsFiniteSet(starts) /\ starts # {}
  <2>1. IsFiniteSet(Visited)
    BY DEF IInv
  <2>2. [s \in Visited |-> trace[s].end] \in Surjection(Visited, ends)
    BY DEF Surjection
  <2>3. [s \in Visited |-> trace[s].start] \in Surjection(Visited, starts)
    BY DEF Surjection
  <2>4. IsFiniteSet(ends)
    BY <2>1, <2>2, FS_Surjection
  <2>5. IsFiniteSet(starts)
    BY <2>1, <2>3, FS_Surjection
  <2> QED BY <2>4, <2>5
<1>3. CASE None \in ends
  BY <1>3 DEF CompletedAt
<1>4. CASE None \notin ends
  <2>1. Times(ends) /\ Times(starts)
    BY <1>1, <1>2, <1>4 DEF Times
  <2>2. CompletedAt = LatestOf(ends)
    BY <1>4 DEF CompletedAt
  <2>3. LatestOf(ends) \in ends /\ \A u \in ends : u <= LatestOf(ends)
    <3> HIDE DEF ends
    <3> QED BY <2>1, LatestExists
  <2>4. EarliestOf(starts) \in starts /\ \A u \in starts : EarliestOf(starts) <= u
    <3> HIDE DEF starts
    <3> QED BY <2>1, EarliestExists
  <2>5. PICK s \in Spans : TRUE
    OBVIOUS
  <2>6. trace[s].start <= trace[s].end /\ trace[s].start \in starts /\ trace[s].end \in ends
    BY <1>1, <1>4 DEF Malformed
  <2>7. ends \subseteq Int /\ starts \subseteq Int
    BY <2>1 DEF Times
  <2>8. LatestOf(ends) >= EarliestOf(starts)
    <3> HIDE DEF ends, starts
    <3>1. trace[s].end <= LatestOf(ends) /\ EarliestOf(starts) <= trace[s].start
      BY <2>3, <2>4, <2>6
    <3>2. LatestOf(ends) \in Int /\ EarliestOf(starts) \in Int
      BY <2>3, <2>4, <2>7
    <3>3. trace[s].end \in Int /\ trace[s].start \in Int
      BY <2>6, <2>7
    <3> QED BY <2>6, <3>1, <3>2, <3>3
  <2>9. LatestOf(ends) # None
    BY <2>3, <1>4
  <2>10. \A t \in Spans : trace[t].end \in ends
    OBVIOUS
  <2> QED BY <1>4, <2>2, <2>3, <2>8, <2>9, <2>10
<1> QED BY <1>3, <1>4

\* validate_trajectory accepts what the loop made of a trace.
LEMMA FinishAccepts ==
    ASSUME IInv, phase = "converting", Spans # {}, Len(steps) = Len(order)
    PROVE  Valid(Trajectory)
<1>1. Visited = Spans
  BY DEF IInv, VisitedOnce
<1>2. Len(steps) > 0
  <2>1. Cardinality(Visited) # 0 /\ Cardinality(Visited) \in Nat
    BY <1>1, FS_EmptySet, FS_CardinalityType DEF IInv
  <2> QED BY <2>1 DEF IInv
<1>3. \A i \in 1..Len(steps) : steps[i].parent # None => steps[i].parent < i - 1
  BY DEF IInv, StepsMatchSpans
<1>4. CompletedAt # None => CompletedAt >= EarliestOf({trace[s].start : s \in Visited})
  BY <1>1, ConvertedAllWellFormed, CompletedAtBounds
<1> QED BY <1>2, <1>3, <1>4 DEF Valid, Trajectory

LEMMA RejectStep == IInv /\ WalkInv /\ RejectInv /\ [Next]_vars => RejectInv'
<1> SUFFICES ASSUME IInv, WalkInv, RejectInv, [Next]_vars PROVE RejectInv'
  OBVIOUS
<1>t. TypeOK /\ order \in Seq(Spans) /\ Len(order) \in Nat
  BY DEF IInv, TypeOK
<1>b. trace' = trace => (BadTrace' <=> BadTrace) /\ Spans' = Spans
  BY TraceStays DEF BadTrace, Malformed, Depth
<1>1. CASE Start
  BY <1>1, <1>b DEF Start, RejectInv, BadTrace
<1>2. ASSUME NEW s \in Spans, Visit(s) PROVE RejectInv'
  <2>1. s \in ToVisit /\ trace' = trace /\ phase = "sorting"
    BY <1>2 DEF Visit, Next1
  <2>2. CASE Len(path) = MaxDepth
    <3>1. Depth(s) > MaxDepth
      BY <2>1, <2>2, LimitMeansDepth
    <3> QED BY <1>2, <1>b, <2>1, <2>2, <3>1 DEF Visit, Raise, RejectInv, BadTrace
  <2>3. CASE Len(path) # MaxDepth
    BY <1>2, <2>1, <2>3 DEF Visit, RejectInv
  <2> QED BY <2>2, <2>3
<1>3. CASE Return
  BY <1>3 DEF Return, RejectInv
<1>4. CASE Sorted
  BY <1>4, <1>b, <1>t DEF Sorted, RejectInv, TypeOK
<1>5. CASE Convert
  <2> DEFINE s == order[Len(steps) + 1]
  <2>1. /\ trace' = trace /\ phase = "converting"
        /\ \/ Malformed(s) /\ phase' = "raised"
           \/ phase' = "converting"
    BY <1>5 DEF Convert, Raise
  <2>2. s \in Spans
    BY <1>5, <1>t DEF Convert, TypeOK
  <2> QED BY <1>b, <2>1, <2>2 DEF RejectInv, BadTrace
<1>6. CASE Finish
  <2>1. Valid(Trajectory)
    BY <1>6, FinishAccepts DEF Finish, RejectInv
  <2> QED BY <1>6, <1>b, <2>1 DEF Finish, RejectInv
<1>7. CASE UNCHANGED vars
  BY <1>7, <1>b DEF vars, RejectInv
<1> QED BY <1>1, <1>2, <1>3, <1>4, <1>5, <1>6, <1>7 DEF Next

\* A trace is refused only when it is empty, has a malformed span, or is
\* deeper than the recursion limit; a trajectory is closed exactly when all
\* its spans are, and then ends with the last of them.
THEOREM RefusalsHold == Spec => []RejectsOnlyBadTraces
<1>1. Init => RejectInv
  BY DEF Init, RejectInv
<1>2. IInv /\ RejectInv => RejectsOnlyBadTraces
  <2> SUFFICES ASSUME IInv, RejectInv PROVE RejectsOnlyBadTraces
    OBVIOUS
  <2>1. CASE phase = "done"
    <3>1. Visited = Spans /\ Len(steps) = Len(order) /\ result.completed = CompletedAt
      BY <2>1 DEF IInv, VisitedOnce, RejectInv, TypeOK, Trajectory
    <3>2. \A s \in Spans : ~Malformed(s)
      BY <3>1, ConvertedAllWellFormed
    <3>3. Spans # {}
      BY <2>1 DEF RejectInv
    <3> QED BY <2>1, <3>1, <3>2, <3>3, CompletedAtBounds DEF RejectsOnlyBadTraces
  <2>2. CASE phase # "done"
    BY <2>2 DEF RejectInv, BadTrace, RejectsOnlyBadTraces
  <2> QED BY <2>1, <2>2
<1> QED BY <1>1, <1>2, RejectStep, WalkAlways, InitHolds, StepHolds, PTL DEF Spec
-----------------------------------------------------------------------------
(* For a caller of reconstruct_trajectory: what it relies on while the     *)
(* reconstruction runs.                                                    *)

Walked == IInv /\ LoopInv /\ WalkInv /\ LinkInv /\ RejectInv

LEMMA WalkedInit == Init => Walked
<1>1. Init => RejectInv
  BY DEF Init, RejectInv
<1> QED BY <1>1, InitHolds, LoopInit, WalkInit, LinkInit DEF Walked

LEMMA WalkedStep == Walked /\ [Next]_vars => Walked' /\ trace' = trace
<1>1. [Next]_vars => trace' = trace
  BY DEF Next, vars, Start, Visit, Return, Sorted, Convert, Finish
<1> QED BY <1>1, StepHolds, LoopStep, WalkStep, LinkStep, RejectStep DEF Walked
=============================================================================
