-------------------------- MODULE ReleaseGateProofs --------------------------
(* Proofs about ReleaseGate, for any invocations and any policy. *)
EXTENDS ReleaseGate, FiniteSetTheorems, TLAPS

-----------------------------------------------------------------------------
(* Arithmetic of the rates. *)

\* Rounding is off by half a millionth at most.
LEMMA RoundedBounds ==
    ASSUME NEW n \in Nat, NEW d \in Nat \ {0}
    PROVE  /\ Rounded(n, d) \in Nat
           /\ 2 * (d * Rounded(n, d)) <= 2 * Million * n + d
           /\ 2 * (d * Rounded(n, d)) >= 2 * Million * n - d
<1> DEFINE N == n * Million
           q == N \div d
           r == N % d
<1>1. N \in Nat /\ 2 * Million * n = 2 * N
  BY SMT DEF Million
<1>2. q \in Nat /\ r \in 0..(d - 1) /\ N = d * q + r
  <2> HIDE DEF N
  <2> QED BY <1>1, SMT
<1>3. d * (q + 1) = d * q + d /\ d * q \in Nat
  <2> HIDE DEF q
  <2> QED BY <1>2, SMT
<1>4. Rounded(n, d) =
        IF 2 * r > d \/ (2 * r = d /\ q % 2 = 1) THEN q + 1 ELSE q
  BY DEF Rounded
<1> HIDE DEF N, q, r
<1>5. CASE 2 * r > d \/ (2 * r = d /\ q % 2 = 1)
  <2>1. Rounded(n, d) = q + 1 /\ 2 * r >= d
    BY <1>2, <1>4, <1>5, SMT
  <2> QED BY <1>1, <1>2, <1>3, <2>1, SMT
<1>6. CASE ~(2 * r > d \/ (2 * r = d /\ q % 2 = 1))
  <2>1. Rounded(n, d) = q /\ 2 * r <= d
    BY <1>2, <1>4, <1>6, SMT
  <2> QED BY <1>1, <1>2, <1>3, <2>1, SMT
<1> QED BY <1>5, <1>6

\* A rate of a few calls that is not zero does not become zero.
LEMMA RoundedPositive ==
    ASSUME NEW n \in Nat \ {0}, NEW d \in Nat \ {0}, d < 2 * Million
    PROVE  Rounded(n, d) > 0
<1>1. /\ Rounded(n, d) \in Nat
      /\ 2 * (d * Rounded(n, d)) >= 2 * Million * n - d
  BY RoundedBounds, SMT
<1>2. 2 * Million * n - d \in Int /\ 2 * Million * n - d > 0
  BY SMT DEF Million
<1>3. Rounded(n, d) = 0 => d * Rounded(n, d) = 0
  BY SMT
<1> QED BY <1>1, <1>2, <1>3, SMT

\* A rate of a few calls that is not one does not become one.
LEMMA RoundedFull ==
    ASSUME NEW n \in Nat, NEW d \in Nat \ {0}, d < 2 * Million, n <= d,
           Rounded(n, d) >= Million
    PROVE  n = d
<1> DEFINE R == Rounded(n, d)
<1>1. R \in Nat /\ R >= Million /\ 2 * (d * R) <= 2 * Million * n + d
  BY RoundedBounds, SMT
<1> HIDE DEF R
<1>2. d * R >= d * Million /\ d * R \in Nat
  BY <1>1, SMT DEF Million
<1> QED BY <1>1, <1>2, SMT DEF Million

\* A rate within its threshold is, unrounded, at most half a millionth more.
LEMMA RoundedBelow ==
    ASSUME NEW n \in Nat, NEW d \in Nat \ {0}, NEW p \in Nat, Rounded(n, d) <= p
    PROVE  2 * Million * n <= (2 * p + 1) * d
<1> DEFINE R == Rounded(n, d)
<1>1. R \in Nat /\ R <= p /\ 2 * (d * R) >= 2 * Million * n - d
  BY RoundedBounds, SMT
<1> HIDE DEF R
<1>2. d * R <= d * p /\ d * R \in Nat /\ d * p \in Nat
  BY <1>1, SMT
<1>3. (2 * p + 1) * d = 2 * (d * p) + d
  BY SMT
<1> QED BY <1>1, <1>2, <1>3, SMT DEF Million
-----------------------------------------------------------------------------
(* The checks. *)

\* What the assumption says of one invocation.
LEMMA InvocationTyped ==
    ASSUME NEW i \in Invocations
    PROVE  /\ i.loads \in BOOLEAN /\ i.failOnWarning \in BOOLEAN /\ i.path \in Paths
           /\ i.violated \in BOOLEAN /\ i.policy \in Policies
           /\ i.calls \in Seq(Calls) /\ Len(i.calls) < 2 * Million
           /\ i.steps \in Seq(Steps) /\ i.steps # <<>>
           /\ \A s \in DOMAIN i.steps : IsFiniteSet(i.steps[s].tokens)
           /\ i.labels \in Labels /\ Len(i.labels.actual) < 2 * Million
           /\ IsFiniteSet(i.objective)
  BY GateAssumption DEF GateAssumption, FewerThanTwoMillion

LEMMA PolicyTyped ==
    ASSUME NEW p \in Policies
    PROVE  /\ p.unsafe \in Nat /\ p.loops \in Nat
           /\ p.drift # None => p.drift.redundancy \in Nat /\ p.drift.retention \in Nat
<1>1. p.unsafe \in 0..Million /\ p.loops \in Nat /\ p.drift \in Drift \union {None}
  BY DEF Policies
<1>2. p.unsafe \in Nat
  <2>1. \A n \in 0..Million : n \in Nat
    OBVIOUS
  <2> QED BY <1>1, <2>1
<1>3. p.drift # None => p.drift.redundancy \in Nat /\ p.drift.retention \in Nat
  <2>1. ASSUME NEW d \in Drift PROVE d.redundancy \in 0..100 /\ d.retention \in 0..100
    BY DEF Drift
  <2> QED BY <1>1, <2>1
<1> QED BY <1>1, <1>2, <1>3

LEMMA IntervalSize ==
    ASSUME NEW n \in Nat
    PROVE  IsFiniteSet(1..n) /\ Cardinality(1..n) = n
<1>1. IsFiniteSet(1..n) /\ Cardinality(1..n) = IF 1 > n THEN 0 ELSE n - 1 + 1
  BY FS_Interval
<1> QED BY <1>1

LEMMA UnsafeCallsFinite ==
    ASSUME NEW i \in Invocations
    PROVE  /\ IsFiniteSet(UnsafeCalls(i))
           /\ Cardinality(UnsafeCalls(i)) \in 0..Len(i.calls)
           /\ Cardinality(UnsafeCalls(i)) = 0 <=> UnsafeCalls(i) = {}
<1>1. Len(i.calls) \in Nat /\ UnsafeCalls(i) \in SUBSET (1..Len(i.calls))
  BY InvocationTyped DEF UnsafeCalls
<1>2. /\ IsFiniteSet(1..Len(i.calls))
      /\ Cardinality(1..Len(i.calls)) = Len(i.calls)
  BY <1>1, IntervalSize
<1>3. /\ IsFiniteSet(UnsafeCalls(i))
      /\ Cardinality(UnsafeCalls(i)) <= Len(i.calls)
  BY <1>1, <1>2, FS_Subset
<1>4. Cardinality(UnsafeCalls(i)) \in Nat
  BY <1>3, FS_CardinalityType
<1>5. Cardinality(UnsafeCalls(i)) = 0 <=> UnsafeCalls(i) = {}
  BY <1>3, FS_EmptySet
<1> QED BY <1>1, <1>3, <1>4, <1>5

\* A rate within the threshold bounds the share of unsafe calls.
LEMMA UnsafeRateBounds ==
    ASSUME NEW i \in Invocations, UnsafeRate(i) <= i.policy.unsafe
    PROVE  /\ 2 * Million * Cardinality(UnsafeCalls(i))
                <= (2 * i.policy.unsafe + 1) * Len(i.calls)
           /\ i.policy.unsafe = 0 => UnsafeCalls(i) = {} /\ ~i.labels.unsafe
<1> DEFINE c == Cardinality(UnsafeCalls(i))
           t == Len(i.calls)
           p == i.policy.unsafe
<1>1. c \in Nat /\ t \in Nat /\ c <= t /\ t < 2 * Million /\ (c = 0 <=> UnsafeCalls(i) = {})
  BY InvocationTyped, UnsafeCallsFinite
<1>2. p \in Nat
  BY InvocationTyped, PolicyTyped
<1>3. CASE UnsafeCalls(i) = {}
  <2>1. UnsafeRate(i) = IF i.labels.unsafe THEN Million ELSE 0
    BY <1>3 DEF UnsafeRate
  <2>2. p = 0 => ~i.labels.unsafe
    BY <2>1, SMT DEF Million
  <2>3. 2 * Million * c <= (2 * p + 1) * t
    <3>1. c = 0 /\ 2 * Million * c = 0
      BY <1>1, <1>3, SMT DEF Million
    <3> HIDE DEF p, t, c
    <3>2. (2 * p + 1) * t >= 0
      BY <1>1, <1>2, SMT
    <3> QED BY <3>1, <3>2, SMT
  <2> QED BY <1>3, <2>2, <2>3
<1>4. CASE UnsafeCalls(i) # {}
  <2>1. c \in Nat \ {0} /\ t \in Nat \ {0}
    <3> HIDE DEF c, t
    <3> QED BY <1>1, <1>4
  <2>2. UnsafeRate(i) = Rounded(c, t)
    BY <1>4 DEF UnsafeRate
  <2>3. Rounded(c, t) <= p
    BY <2>2
  <2> HIDE DEF c, t, p
  <2>4. 2 * Million * c <= (2 * p + 1) * t
    BY <1>2, <2>1, <2>3, RoundedBelow
  <2>5. Rounded(c, t) > 0
    BY <1>1, <2>1, RoundedPositive
  <2>6. Rounded(c, t) \in Nat
    BY <2>1, RoundedBounds
  <2>7. p # 0
    BY <1>2, <2>3, <2>5, <2>6
  <2> QED BY <2>4, <2>7 DEF c, t, p
<1> QED BY <1>3, <1>4

\* Steps with the same tokens are redundant for every threshold below one.
LEMMA SameTokensRedundant ==
    ASSUME NEW i \in Invocations, NEW n \in Nat, n < 100, ~RedundancyAbove(i, n)
    PROVE  \A s \in 1..(Len(i.steps) - 1) : i.steps[s].tokens # i.steps[s + 1].tokens
<1> SUFFICES ASSUME NEW s \in 1..(Len(i.steps) - 1), i.steps[s].tokens = i.steps[s + 1].tokens
             PROVE  FALSE
  OBVIOUS
<1> DEFINE S == i.steps[s].tokens
<1>1. IsFiniteSet(S)
  BY InvocationTyped
<1>2. ~SimilarAbove(S, S, n)
  BY DEF RedundancyAbove
<1> HIDE DEF S
<1>3. S # {}
  BY <1>2 DEF SimilarAbove
<1>4. S \intersect S = S /\ S \union S = S
  OBVIOUS
<1>5. ~(100 * Cardinality(S) > n * Cardinality(S))
  BY <1>2, <1>3, <1>4 DEF SimilarAbove
<1>6. Cardinality(S) \in Nat \ {0}
  BY <1>1, <1>3, FS_EmptySet, FS_CardinalityType
<1>7. ASSUME NEW c \in Nat \ {0} PROVE 100 * c > n * c
  BY SMT
<1> QED BY <1>5, <1>6, <1>7

LEMMA ObjectiveFinite ==
    ASSUME NEW i \in Invocations
    PROVE  IsFiniteSet(Objective(i))
<1> DEFINE e == i.labels.expected
<1>1. e \in Seq(Tools)
  BY InvocationTyped DEF Labels
<1>2. e \in [1..Len(e) -> Range(e)] /\ Len(e) \in Nat /\ DOMAIN e = 1..Len(e)
  BY <1>1 DEF Range
<1>3. e \in Surjection(1..Len(e), Range(e))
  BY <1>2 DEF Surjection, Range
<1>4. IsFiniteSet(1..Len(e))
  BY <1>2, IntervalSize
<1>5. IsFiniteSet(Range(e))
  BY <1>3, <1>4, FS_Surjection
<1> QED BY <1>5, InvocationTyped DEF Objective

\* Full retention keeps every term of the objective.
LEMMA FullRetention ==
    ASSUME NEW i \in Invocations, ~RetentionBelow(i, 100)
    PROVE  Objective(i) \subseteq i.steps[Len(i.steps)].tokens
<1> DEFINE O == Objective(i)
           K == O \intersect i.steps[Len(i.steps)].tokens
<1>1. IsFiniteSet(O)
  BY ObjectiveFinite
<1>2. K \in SUBSET O
  OBVIOUS
<1>3. /\ Cardinality(O) \in Nat /\ Cardinality(K) \in Nat
      /\ Cardinality(K) <= Cardinality(O)
      /\ Cardinality(O) = Cardinality(K) => O = K
  <2> HIDE DEF O, K
  <2> QED BY <1>1, <1>2, FS_Subset, FS_CardinalityType
<1>4. O = {} \/ ~(100 * Cardinality(K) < 100 * Cardinality(O))
  BY DEF RetentionBelow
<1>5. O = {} \/ O = K
  <2> HIDE DEF O, K
  <2> QED BY <1>3, <1>4
<1> QED BY <1>5

\* The tools that are compared with the expected ones.
LEMMA ActualTyped ==
    ASSUME NEW i \in Invocations
    PROVE  Actual(i) \in Seq(Tools) /\ Len(Actual(i)) < 2 * Million
<1>1. CASE i.labels.actual # <<>>
  BY <1>1, InvocationTyped DEF Actual, Labels
<1>2. CASE i.labels.actual = <<>>
  <2>1. i.calls \in Seq(Calls) /\ Len(i.calls) \in Nat /\ DOMAIN i.calls = 1..Len(i.calls)
    BY InvocationTyped
  <2>2. \A n \in 1..Len(i.calls) : i.calls[n].tool \in Tools
    <3>1. \A n \in 1..Len(i.calls) : i.calls[n] \in Calls
      BY <2>1
    <3>2. \A c \in Calls : c.tool \in Tools
      BY DEF Calls
    <3> QED BY <3>1, <3>2
  <2>3. Actual(i) = [n \in 1..Len(i.calls) |-> i.calls[n].tool]
    BY <1>2, <2>1 DEF Actual
  <2>4. Actual(i) \in Seq(Tools) /\ Len(Actual(i)) = Len(i.calls)
    BY <2>1, <2>2, <2>3
  <2> QED BY <2>4, InvocationTyped
<1> QED BY <1>1, <1>2

\* Full precision is reached only along the expected sequence.
LEMMA FullPrecision ==
    ASSUME NEW i \in Invocations, Precision(i) >= Million
    PROVE  FollowsExpected(i)
<1>1. CASE Actual(i) = <<>>
  <2>1. i.labels.expected = <<>>
    BY <1>1, SMT DEF Precision, Million
  <2>2. DOMAIN Actual(i) = {}
    BY <1>1
  <2> QED BY <2>1, <2>2 DEF FollowsExpected
<1>2. CASE Actual(i) # <<>>
  <2> DEFINE a == Actual(i)
             d == Len(a)
             m == Cardinality(Matched(i))
  <2>1. a \in Seq(Tools) /\ d \in Nat \ {0} /\ d < 2 * Million /\ DOMAIN a = 1..d
    BY <1>2, ActualTyped
  <2>2. Matched(i) \in SUBSET (1..d)
    BY <2>1 DEF Matched
  <2>3. IsFiniteSet(1..d) /\ Cardinality(1..d) = d
    BY <2>1, IntervalSize
  <2>4. /\ IsFiniteSet(Matched(i)) /\ m <= d /\ m \in Nat
        /\ m = d => Matched(i) = 1..d
    <3> HIDE DEF d
    <3> QED BY <2>2, <2>3, FS_Subset, FS_CardinalityType
  <2>5. Rounded(m, d) >= Million
    BY <1>2 DEF Precision
  <2>6. m = d
    <3> HIDE DEF m, d
    <3> QED BY <2>1, <2>4, <2>5, RoundedFull
  <2>7. DOMAIN a = Matched(i)
    BY <2>1, <2>4, <2>6
  <2> QED BY <1>2, <2>7 DEF FollowsExpected, Matched
<1> QED BY <1>1, <1>2

\* An exit code of zero is only for a clean trajectory.
LEMMA PassedIsClean ==
    ASSUME NEW i \in Invocations, i.loads, ExitCode(i) = 0
    PROVE  Clean(i) /\ Decision(i) = "pass"
           /\ (i.policy.precision = Million => FollowsExpected(i))
<1>1. Passed(i) /\ ~(i.failOnWarning /\ HasWarnings(i))
  BY DEF ExitCode
<1>2. Decision(i) = "pass"
  BY <1>1 DEF Decision
<1>3. i.policy \in Policies /\ i.steps \in Seq(Steps)
  BY InvocationTyped
<1>4. /\ 2 * Million * Cardinality(UnsafeCalls(i))
           <= (2 * i.policy.unsafe + 1) * Len(i.calls)
      /\ i.policy.unsafe = 0 => UnsafeCalls(i) = {} /\ ~i.labels.unsafe
  BY <1>1, UnsafeRateBounds DEF Passed
<1>5. i.policy.unsafe = 0 =>
        /\ ~i.labels.unsafe
        /\ \A n \in DOMAIN i.calls :
              ~i.calls[n].critical /\ (i.calls[n].destructive => i.calls[n].allowed)
  BY <1>4 DEF UnsafeCalls, IsUnsafe
<1>6. \A s \in DOMAIN i.steps : i.steps[s].loop <= i.policy.loops
  <2>1. i.policy.loops \in Nat
    BY <1>3, PolicyTyped
  <2>2. \A s \in DOMAIN i.steps : i.steps[s].loop \in Nat
    <3>1. \A s \in DOMAIN i.steps : i.steps[s] \in Steps
      BY <1>3
    <3>2. \A s \in Steps : s.loop \in Nat
      BY DEF Steps
    <3> QED BY <3>1, <3>2
  <2>3. \A s \in DOMAIN i.steps : ~(i.steps[s].loop > i.policy.loops)
    BY <1>1 DEF Passed, LoopsAbove
  <2> QED BY <2>1, <2>2, <2>3
<1>7. i.labels.escalation /\ i.policy.escalation => \E s \in DOMAIN i.steps : i.steps[s].human
  BY <1>1 DEF Passed, Escalated
<1>8. i.failOnWarning => \A s \in DOMAIN i.steps : ~i.steps[s].open
  BY <1>1 DEF HasWarnings
<1>9. i.policy.drift # None =>
        /\ i.policy.drift.redundancy < 100 =>
              \A s \in 1..(Len(i.steps) - 1) : i.steps[s].tokens # i.steps[s + 1].tokens
        /\ i.policy.drift.retention = 100 => Objective(i) \subseteq i.steps[Len(i.steps)].tokens
  <2> SUFFICES ASSUME i.policy.drift # None
               PROVE  /\ i.policy.drift.redundancy < 100 =>
                           \A s \in 1..(Len(i.steps) - 1) :
                              i.steps[s].tokens # i.steps[s + 1].tokens
                      /\ i.policy.drift.retention = 100 =>
                           Objective(i) \subseteq i.steps[Len(i.steps)].tokens
    OBVIOUS
  <2>1. ~RedundancyAbove(i, i.policy.drift.redundancy) /\ ~RetentionBelow(i, i.policy.drift.retention)
    BY <1>1 DEF Passed, Drifts
  <2>2. i.policy.drift.redundancy \in Nat
    BY <1>3, PolicyTyped
  <2>3. i.policy.drift.redundancy < 100 =>
           \A s \in 1..(Len(i.steps) - 1) : i.steps[s].tokens # i.steps[s + 1].tokens
    BY <2>1, <2>2, SameTokensRedundant
  <2>4. i.policy.drift.retention = 100 => Objective(i) \subseteq i.steps[Len(i.steps)].tokens
    BY <2>1, FullRetention
  <2> QED BY <2>3, <2>4
<1>10. Clean(i)
  <2>1. ~i.violated
    BY <1>1 DEF Passed
  <2> QED BY <2>1, <1>4, <1>5, <1>6, <1>7, <1>8, <1>9 DEF Clean
<1>11. i.policy.precision = Million => FollowsExpected(i)
  BY <1>1, FullPrecision DEF Passed
<1> QED BY <1>2, <1>10, <1>11
-----------------------------------------------------------------------------
(* The action. *)

\* An exit code of zero is that of a whole evaluation, whose report stays
\* until the action ends and is what the outputs are read from.
Finished ==
    /\ phase \in {"idle", "loading", "writing"} => exit = None /\ published = None
    /\ phase # "ended" => outcome = "none"
    /\ phase = "writing" => job.loads
    /\ outcome = "success" => exit = 0
    /\ exit = 0 =>
        /\ job.loads /\ ExitCode(job) = 0
        /\ reports[job.path] = Report(count, job)
        /\ phase \in {"enforcing", "ended"} => published = "pass"

IInv == TypeOK /\ Finished

\* What is not one of the invocations, an exit code or a decision.
LEMMA NoneApart ==
    /\ None \notin Invocations /\ None \notin ReportType
    /\ None # 0 /\ None # 1 /\ None # 2 /\ None # 137
    /\ None # "pass" /\ None # "fail" /\ None # "error"
  BY GateAssumption DEF GateAssumption

LEMMA ReportTyped ==
    ASSUME NEW n \in Nat, NEW i
    PROVE  /\ Report(n, i) \in ReportType /\ Partial(n) \in ReportType
           /\ Report(n, i).invocation = n /\ Partial(n).invocation = n
           /\ Report(n, i).decision = Decision(i) /\ Decision(i) \in {"pass", "fail"}
           /\ Partial(n).decision = "partial"
  BY DEF Report, Partial, ReportType, Decision

\* A report is written for the invocation that runs, or nothing is.
LEMMA WritingTyped ==
    ASSUME TypeOK, job # None, NEW r \in ReportType, r.invocation = count,
           reports' \in {reports, [reports EXCEPT ![job.path] = r]}
    PROVE  /\ reports' \in [Paths -> ReportType \union {None}]
           /\ \A p \in Paths : reports'[p] # None => reports'[p].invocation <= count
<1>1. job.path \in Paths /\ count \in Nat
  BY InvocationTyped DEF TypeOK
<1>2. CASE reports' = reports
  BY <1>2 DEF TypeOK
<1>3. CASE reports' = [reports EXCEPT ![job.path] = r]
  <2>1. reports \in [Paths -> ReportType \union {None}]
    BY DEF TypeOK
  <2>2. reports' \in [Paths -> ReportType \union {None}]
    BY <1>1, <1>3, <2>1
  <2>3. \A p \in Paths : reports'[p] = IF p = job.path THEN r ELSE reports[p]
    BY <1>1, <1>3, <2>1
  <2>4. ASSUME NEW p \in Paths, reports'[p] # None PROVE reports'[p].invocation <= count
    <3>1. CASE p = job.path
      BY <1>1, <2>3, <3>1
    <3>2. CASE p # job.path
      BY <2>3, <2>4, <3>2 DEF TypeOK
    <3> QED BY <3>1, <3>2
  <2> QED BY <2>2, <2>4
<1> QED BY <1>2, <1>3

LEMMA InitHolds == Init => IInv
  BY NoneApart, GateAssumption DEF Init, IInv, TypeOK, Finished

\* The steps that write no report and leave the invocation alone.
LEMMA StepHolds == IInv /\ [Next]_vars => IInv'
<1> SUFFICES ASSUME IInv, [Next]_vars PROVE IInv'
  OBVIOUS
<1>t. TypeOK /\ Finished
  BY DEF IInv
<1>n. phase # "idle" => job \in Invocations /\ job # None
  BY <1>t, NoneApart DEF TypeOK
<1>1. ASSUME NEW i \in Invocations, Invoke(i) PROVE IInv'
  <2>1. /\ phase = "idle" /\ phase' = "loading" /\ count' = count + 1 /\ job' = i
        /\ UNCHANGED <<exit, reports, published, outcome>>
    BY <1>1 DEF Invoke
  <2>2. exit = None /\ published = None /\ outcome = "none"
    BY <1>t, <2>1 DEF Finished
  <2>3. \A p \in Paths : reports'[p] # None => reports'[p].invocation <= count'
    <3>1. count \in Nat /\ \A p \in Paths : reports[p] # None => reports[p].invocation <= count
      BY <1>t DEF TypeOK
    <3>2. \A p \in Paths : reports[p] # None => reports[p].invocation \in Nat
      BY <1>t DEF TypeOK, ReportType
    <3> QED BY <2>1, <3>1, <3>2
  <2>4. TypeOK'
    BY <1>t, <2>1, <2>2, <2>3, NoneApart DEF TypeOK
  <2>5. Finished'
    BY <2>1, <2>2, NoneApart DEF Finished
  <2> QED BY <2>4, <2>5 DEF IInv
<1>2. CASE Leave
  <2>1. /\ phase = "ended" /\ phase' = "idle" /\ job' = None /\ exit' = None
        /\ published' = None /\ outcome' = "none" /\ UNCHANGED <<count, reports>>
    BY <1>2 DEF Leave
  <2>2. TypeOK'
    BY <1>t, <2>1 DEF TypeOK
  <2>3. Finished'
    BY <2>1, NoneApart DEF Finished
  <2> QED BY <2>2, <2>3 DEF IInv
<1>3. CASE LoadFails
  <2>1. /\ phase = "loading" /\ phase' = "outputs" /\ exit' = 2
        /\ UNCHANGED <<count, job, reports, published, outcome>>
    BY <1>3 DEF LoadFails
  <2>2. TypeOK'
    BY <1>t, <1>n, <2>1, NoneApart DEF TypeOK
  <2>3. Finished'
    BY <1>t, <2>1 DEF Finished
  <2> QED BY <2>2, <2>3 DEF IInv
<1>4. CASE Evaluate
  <2>1. /\ phase = "loading" /\ job.loads /\ phase' = "writing"
        /\ UNCHANGED <<count, job, exit, reports, published, outcome>>
    BY <1>4 DEF Evaluate
  <2>2. TypeOK'
    BY <1>t, <1>n, <2>1 DEF TypeOK
  <2>3. Finished'
    BY <1>t, <2>1, NoneApart DEF Finished
  <2> QED BY <2>2, <2>3 DEF IInv
<1>5. CASE WriteReport
  <2>1. /\ phase = "writing" /\ phase' = "outputs" /\ exit' = ExitCode(job)
        /\ reports' = [reports EXCEPT ![job.path] = Report(count, job)]
        /\ UNCHANGED <<count, job, published, outcome>>
    BY <1>5 DEF WriteReport
  <2>2. count \in Nat /\ job \in Invocations /\ job # None /\ job.loads
    BY <1>t, <1>n, <2>1 DEF TypeOK, Finished
  <2>3. ExitCode(job) \in {0, 1}
    BY DEF ExitCode
  <2>4. /\ reports' \in [Paths -> ReportType \union {None}]
        /\ \A p \in Paths : reports'[p] # None => reports'[p].invocation <= count
    BY <1>t, <2>1, <2>2, ReportTyped, WritingTyped
  <2>5. TypeOK'
    BY <1>t, <2>1, <2>2, <2>3, <2>4, NoneApart DEF TypeOK
  <2>6. reports'[job.path] = Report(count, job)
    BY <1>t, <2>1, <2>2, InvocationTyped DEF TypeOK
  <2>7. ExitCode(job)' = ExitCode(job) /\ Report(count, job)' = Report(count, job)
    BY <2>1
  <2>8. Finished'
    BY <1>t, <2>1, <2>2, <2>3, <2>6 DEF Finished
  <2> QED BY <2>5, <2>8 DEF IInv
<1>6. CASE WriteFails
  <2>1. /\ phase = "writing" /\ phase' = "outputs" /\ exit' = 2
        /\ reports' \in {reports, [reports EXCEPT ![job.path] = Partial(count)]}
        /\ UNCHANGED <<count, job, published, outcome>>
    BY <1>6 DEF WriteFails
  <2>2. count \in Nat /\ job \in Invocations /\ job # None
    BY <1>t, <1>n, <2>1 DEF TypeOK
  <2>3. /\ reports' \in [Paths -> ReportType \union {None}]
        /\ \A p \in Paths : reports'[p] # None => reports'[p].invocation <= count
    BY <1>t, <2>1, <2>2, ReportTyped, WritingTyped
  <2>4. TypeOK'
    BY <1>t, <2>1, <2>2, <2>3, NoneApart DEF TypeOK
  <2>5. Finished'
    BY <1>t, <2>1 DEF Finished
  <2> QED BY <2>4, <2>5 DEF IInv
<1>7. CASE Killed
  <2>1. /\ phase \in {"loading", "writing"} /\ phase' = "outputs" /\ exit' \in {1, 137}
        /\ reports' \in {reports, [reports EXCEPT ![job.path] = Partial(count)]}
        /\ UNCHANGED <<count, job, published, outcome>>
    BY <1>7 DEF Killed
  <2>2. count \in Nat /\ job \in Invocations /\ job # None
    BY <1>t, <1>n, <2>1 DEF TypeOK
  <2>3. /\ reports' \in [Paths -> ReportType \union {None}]
        /\ \A p \in Paths : reports'[p] # None => reports'[p].invocation <= count
    BY <1>t, <2>1, <2>2, ReportTyped, WritingTyped
  <2>4. TypeOK'
    BY <1>t, <2>1, <2>2, <2>3, NoneApart DEF TypeOK
  <2>5. Finished'
    BY <1>t, <2>1 DEF Finished
  <2> QED BY <2>4, <2>5 DEF IInv
<1>8. CASE OutputsRead
  <2>1. /\ phase = "outputs" /\ HasReport /\ reports[job.path].decision # "partial"
        /\ published' = reports[job.path].decision /\ phase' = "enforcing"
        /\ UNCHANGED <<count, job, exit, reports, outcome>>
    BY <1>8 DEF OutputsRead
  <2>2. count \in Nat /\ job \in Invocations /\ job # None /\ job.path \in Paths
    BY <1>t, <1>n, <2>1, InvocationTyped DEF TypeOK
  <2>3. reports[job.path] \in ReportType
    BY <1>t, <2>1, <2>2 DEF TypeOK, HasReport
  <2>4. published' \in {"pass", "fail"}
    BY <2>1, <2>3 DEF ReportType
  <2>5. TypeOK'
    BY <1>t, <2>1, <2>2, <2>4, NoneApart DEF TypeOK
  <2>6. exit = 0 => published' = "pass"
    <3>1. exit = 0 => reports[job.path] = Report(count, job) /\ job.loads /\ ExitCode(job) = 0
      BY <1>t DEF Finished
    <3> QED BY <2>1, <2>2, <3>1, ReportTyped, PassedIsClean
  <2>7. Finished'
    BY <1>t, <2>1, <2>6 DEF Finished
  <2> QED BY <2>5, <2>7 DEF IInv
<1>9. CASE OutputsMissing
  <2>1. /\ phase = "outputs" /\ reports[job.path] = None
        /\ published' = "error" /\ phase' = "enforcing"
        /\ UNCHANGED <<count, job, exit, reports, outcome>>
    BY <1>9 DEF OutputsMissing, HasReport
  <2>2. job # None /\ count \in Nat
    BY <1>t, <1>n, <2>1 DEF TypeOK
  <2>3. exit # 0
    <3>1. Report(count, job) # None
      BY <2>2, ReportTyped, NoneApart
    <3> QED BY <1>t, <2>1, <3>1 DEF Finished
  <2>4. TypeOK'
    BY <1>t, <2>1, <2>2, NoneApart DEF TypeOK
  <2>5. Finished'
    BY <1>t, <2>1, <2>3 DEF Finished
  <2> QED BY <2>4, <2>5 DEF IInv
<1>10. CASE OutputsBroken
  <2>1. /\ phase = "outputs" /\ reports[job.path].decision = "partial"
        /\ phase' = "ended" /\ outcome' = "failure"
        /\ UNCHANGED <<count, job, exit, reports, published>>
    BY <1>10 DEF OutputsBroken
  <2>2. job # None /\ count \in Nat
    BY <1>t, <1>n, <2>1 DEF TypeOK
  <2>3. exit # 0
    BY <1>t, <2>1, <2>2, ReportTyped DEF Finished
  <2>4. TypeOK'
    BY <1>t, <2>1, <2>2 DEF TypeOK
  <2>5. Finished'
    BY <1>t, <2>1, <2>3 DEF Finished
  <2> QED BY <2>4, <2>5 DEF IInv
<1>11. CASE Enforce
  <2>1. /\ phase = "enforcing" /\ phase' = "ended"
        /\ outcome' = IF exit = 0 THEN "success" ELSE "failure"
        /\ UNCHANGED <<count, job, exit, reports, published>>
    BY <1>11 DEF Enforce
  <2>2. TypeOK'
    BY <1>t, <1>n, <2>1 DEF TypeOK
  <2>3. Finished'
    BY <1>t, <2>1 DEF Finished
  <2> QED BY <2>2, <2>3 DEF IInv
<1>12. CASE UNCHANGED vars
  <2>1. TypeOK'
    BY <1>t, <1>12 DEF TypeOK, vars
  <2>2. Finished'
    BY <1>t, <1>12 DEF Finished, vars
  <2> QED BY <2>1, <2>2 DEF IInv
<1> QED
  BY <1>1, <1>2, <1>3, <1>4, <1>5, <1>6, <1>7, <1>8, <1>9, <1>10, <1>11, <1>12 DEF Next

LEMMA InvariantHolds == Spec => []IInv
  BY InitHolds, StepHolds, PTL DEF Spec

\* What the invariant says of an invocation that succeeded.
LEMMA SuccessIsWhole ==
    ASSUME IInv, outcome = "success"
    PROVE  /\ job \in Invocations /\ job.loads /\ ExitCode(job) = 0
           /\ published = "pass" /\ reports[job.path] = Report(count, job) /\ count \in Nat
  BY NoneApart DEF IInv, TypeOK, Finished
-----------------------------------------------------------------------------
(* The theorems. *)

\* The variables keep their shape: the last step of the action has an exit
\* code and a decision to go by, and a report is of this invocation or an
\* earlier one.
THEOREM GateTyped == Spec => []TypeOK
  BY InvariantHolds, PTL DEF IInv

\* The action only succeeds for a trajectory that is clean under its policy.
THEOREM GateIsSafe == Spec => []SuccessMeansClean
<1>1. IInv => SuccessMeansClean
  BY SuccessIsWhole, PassedIsClean DEF SuccessMeansClean
<1> QED BY <1>1, InvariantHolds, PTL

\* Under full precision it only succeeds for the expected tools in order.
THEOREM GateFollowsExpected == Spec => []SuccessFollowsExpected
<1>1. IInv => SuccessFollowsExpected
  BY SuccessIsWhole, PassedIsClean DEF SuccessFollowsExpected
<1> QED BY <1>1, InvariantHolds, PTL

\* A success was published from the report of the same invocation.
THEOREM GatePublishesOwn == Spec => []SuccessPublishesOwn
<1>1. IInv => SuccessPublishesOwn
  <2> SUFFICES ASSUME IInv, outcome = "success"
               PROVE  /\ published = "pass"
                      /\ reports[job.path] = [decision |-> "pass", invocation |-> count]
    BY DEF SuccessPublishesOwn
  <2>1. Decision(job) = "pass"
    BY SuccessIsWhole, PassedIsClean
  <2> QED BY <2>1, SuccessIsWhole DEF Report
<1> QED BY <1>1, InvariantHolds, PTL
=============================================================================
