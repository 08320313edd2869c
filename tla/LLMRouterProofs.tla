--------------------------- MODULE LLMRouterProofs --------------------------
(* Proofs about LLMRouter, for any requests, attempts and threshold. *)
EXTENDS LLMRouter, FiniteSetTheorems, TLAPS

LEMMA RouterStepTyped == TypeOK /\ [Next]_vars => TypeOK'
<1> SUFFICES ASSUME TypeOK, [Next]_vars PROVE TypeOK'
  OBVIOUS
<1> USE RouterAssumption DEF TypeOK, Finished, Awaiting, history
<1>1. ASSUME NEW r \in Requests, Start(r) PROVE TypeOK'
  <2>1. pc[r] = "new" /\ attempt[r] = 0 /\ 1 \in Nat /\ 1 <= MaxAttempts
    BY <1>1 DEF Start
  <2>2. CASE circuitOpen
    BY <1>1, <2>1, <2>2 DEF Start
  <2>3. CASE ~circuitOpen
    <3>1. /\ pc' = [pc EXCEPT ![r] = "primary"] /\ attempt' = [attempt EXCEPT ![r] = 1]
          /\ UNCHANGED <<failures, circuitOpen, metrics, outcomes, inFlight, lateAttempts>>
      BY <1>1, <2>1, <2>3 DEF Start, CallPrimary
    <3> QED BY <2>1, <3>1
  <2> QED BY <2>2, <2>3
<1>2. ASSUME NEW r \in Requests, PrimarySucceeds(r) PROVE TypeOK'
  BY <1>2 DEF PrimarySucceeds, Leave
<1>3. ASSUME NEW r \in Requests, PrimaryRetries(r) PROVE TypeOK'
  BY <1>3 DEF PrimaryRetries
<1>4. ASSUME NEW r \in Requests, PrimaryExhausted(r) PROVE TypeOK'
  BY <1>4 DEF PrimaryExhausted, Ended
<1>5. ASSUME NEW r \in Requests, PrimaryRaises(r) PROVE TypeOK'
  BY <1>5 DEF PrimaryRaises, Leave
<1>6. ASSUME NEW r \in Requests, BackoffEnds(r) PROVE TypeOK'
  BY <1>6 DEF BackoffEnds, CallPrimary
<1>7. ASSUME NEW r \in Requests, FallbackSucceeds(r) PROVE TypeOK'
  BY <1>7 DEF FallbackSucceeds, Leave
<1>8. ASSUME NEW r \in Requests, FallbackRaises(r) PROVE TypeOK'
  BY <1>8 DEF FallbackRaises, Leave
<1>9. ASSUME NEW r \in Requests, Cancel(r) PROVE TypeOK'
  BY <1>9 DEF Cancel, Leave
<1>10. CASE UNCHANGED vars
  BY <1>10 DEF vars
<1> QED
  BY <1>1, <1>2, <1>3, <1>4, <1>5, <1>6, <1>7, <1>8, <1>9, <1>10 DEF Next, Primary, Fallback

\* Every variable keeps its shape, and no request exceeds max_attempts.
THEOREM RouterTyped == Spec => []TypeOK
<1>1. Init => TypeOK
  <2> SUFFICES ASSUME Init PROVE TypeOK
    OBVIOUS
  <2>1. /\ pc \in [Requests -> {"new"} \union Awaiting \union Finished]
        /\ attempt \in [Requests -> Nat]
        /\ \A r \in Requests : pc[r] = "new" /\ attempt[r] = 0
    BY DEF Init
  <2>2. failures \in Nat /\ circuitOpen \in BOOLEAN /\ lateAttempts \in Nat
    BY DEF Init
  <2>3. metrics \in [{"primary", "fallback", "failure", "requests"} -> Nat]
    BY DEF Init
  <2>4. outcomes \in Seq({"ok", "exhausted"}) /\ inFlight \in SUBSET Requests
    BY DEF Init
  <2> QED BY <2>1, <2>2, <2>3, <2>4, RouterAssumption DEF TypeOK
<1> QED BY <1>1, RouterStepTyped, PTL DEF Spec
-----------------------------------------------------------------------------
LEMMA EndedFinite == ASSUME NEW how PROVE IsFiniteSet(Ended(how))
BY RouterAssumption, FS_Subset DEF Ended

Counter == [primary_ok |-> "primary", fallback_ok |-> "fallback",
            failed |-> "failure", cancelled |-> "requests"]

\* One request leaves: its counter and request_count grow by one.
LEMMA LeaveCounts ==
    ASSUME TypeOK, MetricsExact, NEW r \in Requests, pc[r] \in Awaiting,
           NEW how \in Finished, Leave(r, how, Counter[how])
    PROVE  MetricsExact'
<1>1. pc' = [pc EXCEPT ![r] = how] /\ pc[r] \notin Finished
  BY DEF Leave, Awaiting, Finished
<1>2. ASSUME NEW H, H \subseteq Finished
      PROVE  Cardinality(Ended(H)') =
                IF how \in H THEN Cardinality(Ended(H)) + 1 ELSE Cardinality(Ended(H))
  <2>1. r \notin Ended(H) /\ IsFiniteSet(Ended(H))
    BY <1>1, <1>2, EndedFinite DEF Ended
  <2>2. CASE how \in H
    <3>1. Ended(H)' = Ended(H) \union {r}
      BY <1>1, <2>2 DEF Ended, TypeOK
    <3> QED BY <2>1, <2>2, <3>1, FS_AddElement
  <2>3. CASE how \notin H
    <3>1. Ended(H)' = Ended(H)
      BY <1>1, <1>2, <2>3 DEF Ended, TypeOK
    <3> QED BY <2>3, <3>1
  <2> QED BY <2>2, <2>3
<1>3. \A c \in {"primary", "fallback", "failure", "requests"} :
        metrics'[c] = IF c \in {Counter[how], "requests"} THEN metrics[c] + 1 ELSE metrics[c]
  BY DEF Leave, TypeOK
<1>4. metrics'["requests"] = Cardinality(Ended(Finished)')
  BY <1>2, <1>3 DEF MetricsExact
<1>5. metrics'["primary"] = Cardinality(Ended({"primary_ok"})')
  BY <1>2, <1>3 DEF MetricsExact, Finished, Counter
<1>6. metrics'["fallback"] = Cardinality(Ended({"fallback_ok"})')
  BY <1>2, <1>3 DEF MetricsExact, Finished, Counter
<1>7. metrics'["failure"] = Cardinality(Ended({"failed"})')
  BY <1>2, <1>3 DEF MetricsExact, Finished, Counter
<1> QED BY <1>4, <1>5, <1>6, <1>7 DEF MetricsExact

\* A request moves on without leaving: no counter moves.
LEMMA StayCounts ==
    ASSUME TypeOK, MetricsExact, UNCHANGED metrics,
           \/ pc' = pc
           \/ \E r \in Requests, p \in Awaiting :
                 pc[r] \notin Finished /\ pc' = [pc EXCEPT ![r] = p]
    PROVE  MetricsExact'
<1>1. ASSUME NEW H, H \subseteq Finished PROVE Ended(H)' = Ended(H)
  BY <1>1 DEF Ended, TypeOK, Awaiting, Finished
<1>2. /\ Ended(Finished)' = Ended(Finished)
      /\ Ended({"primary_ok"})' = Ended({"primary_ok"})
      /\ Ended({"fallback_ok"})' = Ended({"fallback_ok"})
      /\ Ended({"failed"})' = Ended({"failed"})
  BY <1>1 DEF Finished
<1> QED BY <1>2 DEF MetricsExact

\* The metrics count every request that left exactly once, by how it left.
THEOREM MetricsHold == Spec => []MetricsExact
<1>1. Init => MetricsExact
  <2> SUFFICES ASSUME Init PROVE MetricsExact
    OBVIOUS
  <2>1. \A H : H \subseteq Finished => Ended(H) = {}
    BY DEF Init, Ended, Finished
  <2>2. /\ Ended(Finished) = {} /\ Ended({"primary_ok"}) = {}
        /\ Ended({"fallback_ok"}) = {} /\ Ended({"failed"}) = {}
    BY <2>1 DEF Finished
  <2> QED BY <2>2, FS_EmptySet DEF Init, MetricsExact
<1>2. TypeOK /\ MetricsExact /\ [Next]_vars => MetricsExact'
  <2> SUFFICES ASSUME TypeOK, MetricsExact, [Next]_vars PROVE MetricsExact'
    OBVIOUS
  <2>1. ASSUME NEW r \in Requests,
               Start(r) \/ PrimaryRetries(r) \/ PrimaryExhausted(r) \/ BackoffEnds(r)
        PROVE  MetricsExact'
    <3>1. UNCHANGED metrics /\ pc[r] \notin Finished
      BY <2>1 DEF Start, PrimaryRetries, PrimaryExhausted, BackoffEnds, Finished
    <3>2. \E p \in Awaiting : pc' = [pc EXCEPT ![r] = p]
      BY <2>1 DEF Start, CallPrimary, PrimaryRetries, PrimaryExhausted, BackoffEnds, Awaiting
    <3> QED BY <3>1, <3>2, StayCounts
  <2>2. ASSUME NEW r \in Requests, PrimarySucceeds(r) PROVE MetricsExact'
    BY <2>2, LeaveCounts DEF PrimarySucceeds, Counter, Finished, Awaiting
  <2>3. ASSUME NEW r \in Requests, FallbackSucceeds(r) PROVE MetricsExact'
    BY <2>3, LeaveCounts DEF FallbackSucceeds, Counter, Finished, Awaiting
  <2>4. ASSUME NEW r \in Requests, PrimaryRaises(r) \/ FallbackRaises(r) PROVE MetricsExact'
    BY <2>4, LeaveCounts DEF PrimaryRaises, FallbackRaises, Counter, Finished, Awaiting
  <2>5. ASSUME NEW r \in Requests, Cancel(r) PROVE MetricsExact'
    BY <2>5, LeaveCounts DEF Cancel, Counter, Finished, Awaiting
  <2>6. CASE UNCHANGED vars
    BY <2>6, StayCounts DEF vars
  <2> QED BY <2>1, <2>2, <2>3, <2>4, <2>5, <2>6 DEF Next, Primary, Fallback
<1> QED BY <1>1, <1>2, RouterTyped, PTL DEF Spec
-----------------------------------------------------------------------------
\* The circuit is open exactly when the history of primary outcomes has a
\* run of circuit_failure_threshold exhausted calls.
THEOREM CircuitHolds == Spec => []CircuitMatchesHistory
<1>1. Init => CircuitMatchesHistory
  BY RouterAssumption DEF Init, CircuitMatchesHistory, Run
<1>2. TypeOK /\ CircuitMatchesHistory /\ [Next]_vars => CircuitMatchesHistory'
  <2> SUFFICES ASSUME TypeOK, CircuitMatchesHistory, [Next]_vars
               PROVE  CircuitMatchesHistory'
    OBVIOUS
  <2> DEFINE n == Len(outcomes)
  <2>0. n \in Nat /\ failures \in Nat /\ failures <= n /\ Threshold \in Nat \ {0}
    BY RouterAssumption DEF TypeOK, CircuitMatchesHistory
  <2>1. CASE UNCHANGED <<failures, circuitOpen, outcomes>>
    BY <2>1 DEF CircuitMatchesHistory, Run
  <2>2. ASSUME NEW r \in Requests, PrimarySucceeds(r) PROVE CircuitMatchesHistory'
    <3>1. /\ failures' = 0 /\ circuitOpen' = circuitOpen
          /\ Len(outcomes') = n + 1 /\ outcomes'[n + 1] = "ok"
          /\ \A i \in 1..n : outcomes'[i] = outcomes[i]
      BY <2>2 DEF PrimarySucceeds, TypeOK
    <3>2. ASSUME NEW last \in Threshold..(n + 1)
          PROVE  Run(last - Threshold + 1, last)' <=>
                    last # n + 1 /\ Run(last - Threshold + 1, last)
      <4>1. CASE last = n + 1
        <5>1. last \in (last - Threshold + 1)..last
          BY <2>0, <3>2
        <5> QED BY <3>1, <4>1, <5>1 DEF Run
      <4>2. CASE last # n + 1
        <5>1. \A i \in (last - Threshold + 1)..last : i \in 1..n
          BY <2>0, <3>2, <4>2
        <5> QED BY <3>1, <4>2, <5>1 DEF Run
      <4> QED BY <4>1, <4>2
    <3>3. circuitOpen' <=>
            \E last \in Threshold..Len(outcomes') : Run(last - Threshold + 1, last)'
      BY <2>0, <3>1, <3>2 DEF CircuitMatchesHistory
    <3> QED BY <2>0, <3>1, <3>3 DEF CircuitMatchesHistory, Run
  <2>3. ASSUME NEW r \in Requests, PrimaryExhausted(r) PROVE CircuitMatchesHistory'
    <3>1. /\ failures' = failures + 1
          /\ circuitOpen' <=> circuitOpen \/ failures + 1 >= Threshold
          /\ Len(outcomes') = n + 1 /\ outcomes'[n + 1] = "exhausted"
          /\ \A i \in 1..n : outcomes'[i] = outcomes[i]
      <4>1. outcomes' = Append(outcomes, "exhausted") /\ outcomes \in Seq({"ok", "exhausted"})
        BY <2>3 DEF PrimaryExhausted, TypeOK
      <4>2. failures' = failures + 1
        BY <2>3 DEF PrimaryExhausted
      <4>3. circuitOpen' <=> circuitOpen \/ failures + 1 >= Threshold
        BY <2>3, <4>2 DEF PrimaryExhausted
      <4>4. /\ Len(outcomes') = n + 1 /\ outcomes'[n + 1] = "exhausted"
            /\ \A i \in 1..n : outcomes'[i] = outcomes[i]
        BY <4>1
      <4> QED BY <4>2, <4>3, <4>4
    <3>2. \A i \in (n - failures + 1)..n : outcomes[i] = "exhausted"
      BY DEF CircuitMatchesHistory, Run
    <3>3. \A i \in (n - failures + 1)..(n + 1) : outcomes'[i] = "exhausted"
      <4>1. \A i \in (n - failures + 1)..(n + 1) :
                i = n + 1 \/ (i \in (n - failures + 1)..n /\ i \in 1..n)
        BY <2>0
      <4> QED BY <3>1, <3>2, <4>1
    <3>4. failures + 1 < n + 1 => outcomes'[n - failures] = "ok"
      BY <2>0, <3>1 DEF CircuitMatchesHistory
    <3>5. ASSUME NEW last \in Threshold..n
          PROVE  Run(last - Threshold + 1, last)' <=> Run(last - Threshold + 1, last)
      <4>1. \A i \in (last - Threshold + 1)..last : i \in 1..n
        BY <2>0, <3>5
      <4> QED BY <3>1, <4>1 DEF Run
    <3>6. ASSUME NEW last \in Threshold..(n + 1), last = n + 1
          PROVE  Run(last - Threshold + 1, last)' <=> failures + 1 >= Threshold
      <4>1. CASE failures + 1 >= Threshold
        <5>1. \A i \in (last - Threshold + 1)..last : i \in (n - failures + 1)..(n + 1)
          BY <2>0, <3>6, <4>1
        <5> QED BY <3>3, <4>1, <5>1 DEF Run
      <4>2. CASE failures + 1 < Threshold
        <5>1. n - failures \in (last - Threshold + 1)..last /\ failures + 1 < n + 1
          BY <2>0, <3>6, <4>2
        <5>2. outcomes'[n - failures] = "ok"
          BY <3>4, <5>1
        <5> QED BY <2>0, <4>2, <5>1, <5>2 DEF Run
      <4> QED BY <2>0, <4>1, <4>2
    <3>7. failures + 1 >= Threshold => n + 1 \in Threshold..(n + 1)
      BY <2>0
    <3>8. circuitOpen' <=>
            \E last \in Threshold..Len(outcomes') : Run(last - Threshold + 1, last)'
      <4>1. circuitOpen <=> \E last \in Threshold..n : Run(last - Threshold + 1, last)'
        BY <3>5 DEF CircuitMatchesHistory
      <4>2. \A last : last \in Threshold..(n + 1) <=>
              last \in Threshold..n \/ (last = n + 1 /\ last \in Threshold..(n + 1))
        BY <2>0
      <4>3. (\E last \in Threshold..(n + 1) : Run(last - Threshold + 1, last)') <=>
              circuitOpen \/ failures + 1 >= Threshold
        BY <3>6, <3>7, <4>1, <4>2
      <4> QED BY <3>1, <4>3
    <3> QED BY <2>0, <3>1, <3>3, <3>4, <3>8 DEF CircuitMatchesHistory, Run
  <2>4. CASE UNCHANGED vars
    BY <2>1, <2>4 DEF vars, history
  <2> QED
    BY <2>1, <2>2, <2>3, <2>4
       DEF Next, Primary, Fallback, Start, CallPrimary, PrimaryRetries, PrimaryRaises,
           BackoffEnds, FallbackSucceeds, FallbackRaises, Cancel, history
<1> QED BY <1>1, <1>2, RouterTyped, PTL DEF Spec
-----------------------------------------------------------------------------
(* What an open circuit still lets through.  Each attempt begun since it   *)
(* opened is the second or a later one of a request that was under way, so *)
(* the attempts are no more than the pairs of such a request and a number. *)

Retries == {x \in inFlight \X (2..MaxAttempts) : x[2] <= attempt[x[1]]}

SparesInv ==
    /\ ~circuitOpen => inFlight = {} /\ lateAttempts = 0
    /\ circuitOpen => Ended({"primary", "backoff"}) \subseteq inFlight
    /\ \A r \in Requests : pc[r] = "backoff" => attempt[r] >= 1
    /\ lateAttempts <= Cardinality(Retries)

LEMMA RetriesFinite ==
    ASSUME TypeOK
    PROVE  /\ IsFiniteSet(Retries) /\ Cardinality(Retries) \in Nat
           /\ Cardinality(Retries) <= (MaxAttempts - 1) * Cardinality(inFlight)
<1>1. IsFiniteSet(inFlight) BY RouterAssumption, FS_Subset DEF TypeOK
<1>2. IsFiniteSet(2..MaxAttempts) /\ Cardinality(2..MaxAttempts) = MaxAttempts - 1
  BY RouterAssumption, FS_Interval
<1>3. /\ IsFiniteSet(inFlight \X (2..MaxAttempts))
      /\ Cardinality(inFlight \X (2..MaxAttempts)) = Cardinality(inFlight) * Cardinality(2..MaxAttempts)
  BY <1>1, <1>2, FS_Product
<1>4. Retries \subseteq inFlight \X (2..MaxAttempts) BY DEF Retries
<1>5. /\ IsFiniteSet(Retries)
      /\ Cardinality(Retries) <= Cardinality(inFlight \X (2..MaxAttempts))
  BY <1>3, <1>4, FS_Subset
<1>6. Cardinality(Retries) \in Nat /\ Cardinality(inFlight) \in Nat
  BY <1>1, <1>5, FS_CardinalityType
<1>7. Cardinality(inFlight) * (MaxAttempts - 1) = (MaxAttempts - 1) * Cardinality(inFlight)
  BY <1>6, RouterAssumption
<1> QED BY <1>2, <1>3, <1>5, <1>6, <1>7

LEMMA RetriesPrimed == TypeOK' => IsFiniteSet(Retries') /\ Cardinality(Retries') \in Nat
<1>1. TypeOK => IsFiniteSet(Retries) /\ Cardinality(Retries) \in Nat BY RetriesFinite
<1>2. (TypeOK => IsFiniteSet(Retries) /\ Cardinality(Retries) \in Nat)' BY <1>1, PTL
<1> QED BY <1>2

\* A step without an attempt on the primary.
LEMMA SparesKept ==
    ASSUME TypeOK, SparesInv, UNCHANGED <<attempt, circuitOpen, inFlight, lateAttempts>>,
           \A r \in Requests : pc'[r] \in {"primary", "backoff"} =>
              pc[r] \in {"primary", "backoff"} /\ attempt[r] >= 1
    PROVE  SparesInv'
<1>1. Retries' = Retries BY DEF Retries
<1>2. Ended({"primary", "backoff"})' \subseteq Ended({"primary", "backoff"}) BY DEF Ended
<1> QED BY <1>1, <1>2 DEF SparesInv

\* r calls the primary for the first time, or again.
LEMMA SparesCall ==
    ASSUME TypeOK, TypeOK', SparesInv, UNCHANGED <<circuitOpen, inFlight>>,
           NEW r \in Requests, CallPrimary(r),
           ~circuitOpen \/ pc[r] = "backoff"
    PROVE  SparesInv'
<1>1. /\ pc' = [pc EXCEPT ![r] = "primary"] /\ attempt' = [attempt EXCEPT ![r] = @ + 1]
      /\ lateAttempts' = IF circuitOpen THEN lateAttempts + 1 ELSE lateAttempts
  BY DEF CallPrimary
<1>2. \A q \in Requests : pc'[q] = "backoff" => attempt'[q] >= 1
  BY <1>1 DEF SparesInv, TypeOK
<1>3. CASE ~circuitOpen
  <2>1. Retries' = {} BY <1>3 DEF SparesInv, Retries
  <2> QED BY <1>1, <1>2, <1>3, <2>1, FS_EmptySet DEF SparesInv
<1>4. CASE circuitOpen
  <2>1. pc[r] = "backoff" /\ r \in inFlight BY <1>4 DEF SparesInv, Ended
  <2>2. Ended({"primary", "backoff"})' \subseteq inFlight'
    BY <1>1, <1>4, <2>1 DEF SparesInv, Ended, TypeOK
  <2>3. attempt[r] \in Nat /\ attempt[r] >= 1 /\ attempt'[r] = attempt[r] + 1
        /\ attempt'[r] \in 2..MaxAttempts
    <3>1. attempt[r] \in Nat /\ attempt'[r] = attempt[r] + 1 BY <1>1 DEF TypeOK
    <3>2. attempt[r] >= 1 BY <2>1 DEF SparesInv
    <3>3. attempt'[r] <= MaxAttempts BY DEF TypeOK
    <3> QED BY <3>1, <3>2, <3>3, RouterAssumption
  <2> DEFINE new == <<r, attempt'[r]>>
  <2>4. new \in Retries' /\ new \notin Retries BY <2>1, <2>3 DEF Retries
  <2>5. Retries \subseteq Retries'
    <3> SUFFICES ASSUME NEW x \in Retries PROVE x \in Retries'
      OBVIOUS
    <3>1. x \in inFlight \X (2..MaxAttempts) /\ x[2] <= attempt[x[1]] BY DEF Retries
    <3>2. x[1] \in Requests /\ x[2] \in Nat BY <3>1 DEF TypeOK
    <3>3. attempt[x[1]] <= attempt'[x[1]] /\ attempt[x[1]] \in Nat /\ attempt'[x[1]] \in Nat
      <4>1. \A q \in Requests : attempt[q] \in Nat /\ attempt'[q] \in Nat
        BY DEF TypeOK
      <4>2. attempt \in [Requests -> Nat]
        BY DEF TypeOK
      <4>3. \A q \in Requests : q # r => attempt'[q] = attempt[q]
        BY <1>1, <4>2
      <4>4. attempt[r] <= attempt'[r]
        BY <2>3
      <4>5. CASE x[1] = r
        BY <4>1, <4>4, <4>5
      <4>6. CASE x[1] # r
        BY <3>2, <4>1, <4>3, <4>6
      <4> QED BY <4>5, <4>6
    <3> QED BY <3>1, <3>2, <3>3 DEF Retries
  <2> HIDE DEF new
  <2>6. /\ IsFiniteSet(Retries \union {new})
        /\ Cardinality(Retries \union {new}) = Cardinality(Retries) + 1
    BY <2>4, RetriesFinite, FS_AddElement
  <2>7. IsFiniteSet(Retries') /\ Cardinality(Retries') \in Nat
    <3>1. TypeOK' => IsFiniteSet(Retries') /\ Cardinality(Retries') \in Nat
      BY RetriesPrimed
    <3> QED BY <3>1
  <2>8. Cardinality(Retries \union {new}) <= Cardinality(Retries')
    BY <2>4, <2>5, <2>7, FS_Subset
  <2>9. lateAttempts' <= Cardinality(Retries')
    <3>1. Cardinality(Retries) \in Nat BY RetriesFinite
    <3>2. lateAttempts <= Cardinality(Retries) /\ lateAttempts \in Nat
      BY DEF SparesInv, TypeOK
    <3>3. lateAttempts' = lateAttempts + 1 BY <1>1, <1>4
    <3> QED BY <2>6, <2>7, <2>8, <3>1, <3>2, <3>3
  <2> QED BY <1>2, <1>4, <2>2, <2>9 DEF SparesInv
<1> QED BY <1>3, <1>4

\* An open circuit lets only the requests at the primary when it opened go
\* on, each for the attempts it has left.
THEOREM SparesHold == Spec => []OpenCircuitSparesPrimary
<1>1. Init => SparesInv
  <2> SUFFICES ASSUME Init PROVE SparesInv
    OBVIOUS
  <2>1. /\ ~circuitOpen /\ inFlight = {} /\ lateAttempts = 0
        /\ \A r \in Requests : pc[r] = "new"
    BY DEF Init
  <2>2. Retries = {} BY <2>1 DEF Retries
  <2> QED BY <2>1, <2>2, FS_EmptySet DEF SparesInv
<1>2. TypeOK /\ TypeOK' /\ SparesInv /\ [Next]_vars => SparesInv'
  <2> SUFFICES ASSUME TypeOK, TypeOK', SparesInv, [Next]_vars PROVE SparesInv'
    OBVIOUS
  <2>1. ASSUME NEW r \in Requests, Start(r) PROVE SparesInv'
    <3>1. CASE circuitOpen
      BY <2>1, <3>1, SparesKept DEF Start, TypeOK, SparesInv
    <3>2. CASE ~circuitOpen
      BY <2>1, <3>2, SparesCall DEF Start
    <3> QED BY <3>1, <3>2
  <2>2. ASSUME NEW r \in Requests, BackoffEnds(r) PROVE SparesInv'
    BY <2>2, SparesCall DEF BackoffEnds
  <2>3. ASSUME NEW r \in Requests, PrimaryRetries(r) PROVE SparesInv'
    BY <2>3, SparesKept DEF PrimaryRetries, TypeOK, SparesInv, history
  <2>4. ASSUME NEW r \in Requests, PrimaryExhausted(r) PROVE SparesInv'
    <3>1. /\ pc' = [pc EXCEPT ![r] = "fallback"]
          /\ circuitOpen' = (circuitOpen \/ failures' >= Threshold)
          /\ inFlight' = IF circuitOpen' /\ ~circuitOpen
                         THEN Ended({"primary", "backoff"}) \ {r} ELSE inFlight
          /\ UNCHANGED <<attempt, lateAttempts>>
      BY <2>4 DEF PrimaryExhausted
    <3>2. \A q \in Requests : pc'[q] = IF q = r THEN "fallback" ELSE pc[q]
      BY <3>1 DEF TypeOK
    <3>3. CASE circuitOpen' /\ ~circuitOpen
      <4>1. lateAttempts' = 0 BY <3>1, <3>3 DEF SparesInv
      <4>2. Cardinality(Retries') \in Nat BY RetriesPrimed
      <4>3. Ended({"primary", "backoff"})' \subseteq inFlight' BY <3>1, <3>2, <3>3 DEF Ended
      <4> QED BY <3>1, <3>2, <3>3, <4>1, <4>2, <4>3 DEF SparesInv
    <3>4. CASE ~(circuitOpen' /\ ~circuitOpen)
      <4>1. circuitOpen' = circuitOpen /\ inFlight' = inFlight
        BY <3>1, <3>4 DEF TypeOK
      <4> QED BY <3>1, <3>2, <4>1, SparesKept DEF TypeOK, SparesInv
    <3> QED BY <3>3, <3>4
  <2>5. ASSUME NEW r \in Requests,
               PrimarySucceeds(r) \/ PrimaryRaises(r) \/ Fallback(r) \/ Cancel(r)
        PROVE  SparesInv'
    <3>1. /\ UNCHANGED <<attempt, circuitOpen, inFlight, lateAttempts>>
          /\ \E how \in Finished : pc' = [pc EXCEPT ![r] = how]
      BY <2>5 DEF PrimarySucceeds, PrimaryRaises, Fallback, FallbackSucceeds, FallbackRaises,
                  Cancel, Leave, Finished, history
    <3> QED BY <3>1, SparesKept DEF Finished, TypeOK, SparesInv
  <2>6. CASE UNCHANGED vars
    BY <2>6, SparesKept DEF vars, history, TypeOK, SparesInv
  <2> QED BY <2>1, <2>2, <2>3, <2>4, <2>5, <2>6 DEF Next, Primary
<1>3. TypeOK /\ SparesInv => OpenCircuitSparesPrimary
  <2> SUFFICES ASSUME TypeOK, SparesInv PROVE OpenCircuitSparesPrimary
    OBVIOUS
  <2>1. IsFiniteSet(inFlight) BY RouterAssumption, FS_Subset DEF TypeOK
  <2>2. Cardinality(inFlight) \in Nat BY <2>1, FS_CardinalityType
  <2>3. (MaxAttempts - 1) * Cardinality(inFlight) \in Nat BY <2>2, RouterAssumption
  <2> QED BY <2>3, RetriesFinite DEF OpenCircuitSparesPrimary, SparesInv, TypeOK
<1> QED BY <1>1, <1>2, <1>3, RouterTyped, PTL DEF Spec
=============================================================================
