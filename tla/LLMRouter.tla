----------------------------- MODULE LLMRouter ------------------------------
(***************************************************************************)
(* LLMRouter (src/llm_router.py): requests that share one router on an     *)
(* asyncio event loop.  Each is retried against the primary provider, then *)
(* sent to the fallback; repeated exhaustion of the primary opens a        *)
(* circuit that nothing closes again.                                      *)
(*                                                                         *)
(* A coroutine runs undisturbed between two awaits, so an action is what   *)
(* happens from the end of one await to the start of the next.  The        *)
(* providers and tenacity's AsyncRetrying are modelled from their use.     *)
(***************************************************************************)
EXTENDS Integers, Sequences, FiniteSets

CONSTANTS
    Requests,      \* calls of generate()
    MaxAttempts,   \* max_attempts, 2 by default
    Threshold      \* circuit_failure_threshold, 3 by default

ASSUME RouterAssumption ==
    /\ IsFiniteSet(Requests)
    /\ MaxAttempts \in Nat \ {0}
    /\ Threshold \in Nat \ {0}

VARIABLES
    pc,             \* pc[r]: what request r is awaiting, or how it ended
    attempt,        \* attempt[r]: tenacity's attempt_number
    failures,       \* _consecutive_primary_failures
    circuitOpen,    \* _circuit_open
    metrics,        \* LLMRouterMetrics, without the latency
    \* history, read by no action:
    outcomes,       \* how primary calls ended, in order: "ok" or "exhausted"
    inFlight,       \* requests at the primary when the circuit opened
    lateAttempts    \* primary attempts begun since

history == <<outcomes, inFlight, lateAttempts>>
vars == <<pc, attempt, failures, circuitOpen, metrics, history>>

Finished == {"primary_ok", "fallback_ok", "failed", "cancelled"}
Awaiting == {"primary", "backoff", "fallback"}
Ended(how) == {r \in Requests : pc[r] \in how}

Init ==
    /\ pc = [r \in Requests |-> "new"]
    /\ attempt = [r \in Requests |-> 0]
    /\ failures = 0
    /\ circuitOpen = FALSE
    /\ metrics = [primary |-> 0, fallback |-> 0, failure |-> 0, requests |-> 0]
    /\ outcomes = <<>> /\ inFlight = {} /\ lateAttempts = 0

\* Variant: a failed request is not counted.
LeaveUncounted(r, how, counted) ==
    /\ pc' = [pc EXCEPT ![r] = how]
    /\ metrics' = [c \in DOMAIN metrics |->
          IF c = counted \/ (c = "requests" /\ counted # "failure")
          THEN metrics[c] + 1 ELSE metrics[c]]

\* r leaves generate(): the finally clause counts it, whatever the reason.
Leave(r, how, counted) ==
    /\ pc' = [pc EXCEPT ![r] = how]
    /\ metrics' = [c \in DOMAIN metrics |->
          IF c \in {counted, "requests"} THEN metrics[c] + 1 ELSE metrics[c]]

\* self._primary.generate(prompt) is called (again).
CallPrimary(r) ==
    /\ pc' = [pc EXCEPT ![r] = "primary"]
    /\ attempt' = [attempt EXCEPT ![r] = @ + 1]
    /\ lateAttempts' = IF circuitOpen THEN lateAttempts + 1 ELSE lateAttempts

\* Variant: the circuit is looked at after the request is under way.
StartAlwaysPrimary(r) ==
    /\ pc[r] = "new"
    /\ CallPrimary(r)
    /\ UNCHANGED <<failures, circuitOpen, metrics, outcomes, inFlight>>

Start(r) ==
    /\ pc[r] = "new"
    /\ IF circuitOpen
       THEN pc' = [pc EXCEPT ![r] = "fallback"] /\ UNCHANGED <<attempt, lateAttempts>>
       ELSE CallPrimary(r)
    /\ UNCHANGED <<failures, circuitOpen, metrics, outcomes, inFlight>>

\* Variant: a success leaves the counter of consecutive failures alone.
PrimarySucceedsNoReset(r) ==
    /\ pc[r] = "primary"
    /\ Leave(r, "primary_ok", "primary")
    /\ outcomes' = Append(outcomes, "ok")
    /\ UNCHANGED <<failures, attempt, circuitOpen, inFlight, lateAttempts>>

PrimarySucceeds(r) ==
    /\ pc[r] = "primary"
    /\ failures' = 0
    /\ Leave(r, "primary_ok", "primary")
    /\ outcomes' = Append(outcomes, "ok")
    /\ UNCHANGED <<attempt, circuitOpen, inFlight, lateAttempts>>

\* RateLimitError or ProviderServerError with attempts left: tenacity sleeps.
PrimaryRetries(r) ==
    /\ pc[r] = "primary"
    /\ attempt[r] < MaxAttempts
    /\ pc' = [pc EXCEPT ![r] = "backoff"]
    /\ UNCHANGED <<attempt, failures, circuitOpen, metrics, history>>

\* Variant: the retry waits for the circuit to close.
BackoffEndsIfClosed(r) ==
    /\ pc[r] = "backoff" /\ ~circuitOpen
    /\ CallPrimary(r)
    /\ UNCHANGED <<failures, circuitOpen, metrics, outcomes, inFlight>>

\* The next attempt does not look at the circuit.
BackoffEnds(r) ==
    /\ pc[r] = "backoff"
    /\ CallPrimary(r)
    /\ UNCHANGED <<failures, circuitOpen, metrics, outcomes, inFlight>>

\* The same errors on the last attempt: reraised, counted, then the fallback.
PrimaryExhausted(r) ==
    /\ pc[r] = "primary"
    /\ attempt[r] >= MaxAttempts
    /\ failures' = failures + 1
    /\ circuitOpen' = (circuitOpen \/ failures' >= Threshold)
    /\ pc' = [pc EXCEPT ![r] = "fallback"]
    /\ outcomes' = Append(outcomes, "exhausted")
    /\ inFlight' = IF circuitOpen' /\ ~circuitOpen
                   THEN Ended({"primary", "backoff"}) \ {r} ELSE inFlight
    /\ UNCHANGED <<attempt, metrics, lateAttempts>>

\* Any other exception of the primary: no retry, no fallback, no count of
\* consecutive failures.
PrimaryRaises(r) ==
    /\ pc[r] = "primary"
    /\ Leave(r, "failed", "failure")
    /\ UNCHANGED <<attempt, failures, circuitOpen, history>>

FallbackSucceeds(r) ==
    /\ pc[r] = "fallback"
    /\ Leave(r, "fallback_ok", "fallback")
    /\ UNCHANGED <<attempt, failures, circuitOpen, history>>

FallbackRaises(r) ==
    /\ pc[r] = "fallback"
    /\ Leave(r, "failed", "failure")
    /\ UNCHANGED <<attempt, failures, circuitOpen, history>>

\* The task is cancelled at an await: CancelledError is no Exception, so
\* only the finally clause sees it.
Cancel(r) ==
    /\ pc[r] \in Awaiting
    /\ Leave(r, "cancelled", "requests")
    /\ UNCHANGED <<attempt, failures, circuitOpen, history>>

Primary(r) ==
    \/ PrimarySucceeds(r) \/ PrimaryRetries(r) \/ PrimaryExhausted(r) \/ PrimaryRaises(r)

Fallback(r) == FallbackSucceeds(r) \/ FallbackRaises(r)

Next == \E r \in Requests :
    \/ Start(r) \/ Primary(r) \/ BackoffEnds(r) \/ Fallback(r) \/ Cancel(r)

Spec == Init /\ [][Next]_vars

\* The providers answer in the end and tenacity's sleep is short.
Fairness == \A r \in Requests :
    WF_vars(Primary(r)) /\ WF_vars(BackoffEnds(r)) /\ WF_vars(Fallback(r))

FairSpec == Spec /\ Fairness
-----------------------------------------------------------------------------
\* Every variable has the shape the code gives it; a request makes at most
\* max_attempts calls of the primary and sleeps only between two of them.
TypeOK ==
    /\ pc \in [Requests -> {"new"} \union Awaiting \union Finished]
    /\ attempt \in [Requests -> Nat]
    /\ failures \in Nat
    /\ circuitOpen \in BOOLEAN
    /\ metrics \in [{"primary", "fallback", "failure", "requests"} -> Nat]
    /\ outcomes \in Seq({"ok", "exhausted"})
    /\ inFlight \in SUBSET Requests
    /\ lateAttempts \in Nat
    /\ \A r \in Requests :
        /\ pc[r] = "new" => attempt[r] = 0
        /\ attempt[r] <= MaxAttempts
        /\ pc[r] = "primary" => attempt[r] >= 1
        /\ pc[r] = "backoff" => attempt[r] < MaxAttempts

\* Each request that left generate() is counted once, in the counter of
\* the way it left; only a cancelled one is in request_count alone.  An
\* average latency is never over fewer requests than were served.
MetricsExact ==
    /\ metrics["requests"] = Cardinality(Ended(Finished))
    /\ metrics["primary"] = Cardinality(Ended({"primary_ok"}))
    /\ metrics["fallback"] = Cardinality(Ended({"fallback_ok"}))
    /\ metrics["failure"] = Cardinality(Ended({"failed"}))

\* The counter is the length of the last run of exhausted primaries, by
\* order of completion over all requests, and the circuit is open if and
\* only if some run reached the threshold: a late success resets the
\* counter but does not close the circuit.
Run(from, to) == \A i \in from..to : outcomes[i] = "exhausted"

CircuitMatchesHistory ==
    /\ failures <= Len(outcomes)
    /\ Run(Len(outcomes) - failures + 1, Len(outcomes))
    /\ failures < Len(outcomes) => outcomes[Len(outcomes) - failures] = "ok"
    /\ circuitOpen <=> \E last \in Threshold..Len(outcomes) : Run(last - Threshold + 1, last)

\* An open circuit spares the primary: only requests already there when it
\* opened go on, each for the attempts it has left.
OpenCircuitSparesPrimary ==
    /\ circuitOpen => Ended({"primary", "backoff"}) \subseteq inFlight
    /\ lateAttempts <= (MaxAttempts - 1) * Cardinality(inFlight)

\* A started request ends, whatever the others do to the circuit.
RequestsEnd ==
    \A r \in Requests : pc[r] \in Awaiting ~> pc[r] \in Finished
=============================================================================
