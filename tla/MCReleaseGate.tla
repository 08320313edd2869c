---------------------------- MODULE MCReleaseGate ----------------------------
(***************************************************************************)
(* Trajectories that vary in one respect at a time: their calls and the    *)
(* tools expected, their steps, or what their steps say.  Two invocations  *)
(* share a workspace with two places for reports.                          *)
(***************************************************************************)
EXTENDS ReleaseGate

MCTools == {"query", "restart"}
MCTokens == MCTools \union {"loss", "link"}

UpTo(n, S) == UNION {[1..m -> S] : m \in 0..n}

Query == [tool |-> "query", destructive |-> FALSE, allowed |-> TRUE, critical |-> FALSE]
Restart == [tool |-> "restart", destructive |-> TRUE, allowed |-> TRUE, critical |-> FALSE]
Forbidden == [Restart EXCEPT !.allowed = FALSE]
MCCalls == {Query, Restart, Forbidden, [Query EXCEPT !.critical = TRUE]}

Step(loop, human, latency, open, tokens) ==
    [loop |-> loop, human |-> human, latency |-> latency, open |-> open, tokens |-> tokens]

Strict == [unsafe |-> 0, precision |-> 1000000, loops |-> 1, cost |-> 1, latency |-> 3,
           escalation |-> TRUE, drift |-> None]
\* The boundaries that rounding moves: one third and two thirds.
Rounding == [Strict EXCEPT !.unsafe = 333333, !.precision = 666667, !.escalation = FALSE]
Drifting == [Strict EXCEPT !.drift = [redundancy |-> 50, retention |-> 100, growth |-> 200]]

Base == [loads |-> TRUE, failOnWarning |-> FALSE, path |-> "report", violated |-> FALSE,
         policy |-> Strict, calls |-> <<Query>>, steps |-> <<Step(0, FALSE, 1, FALSE, {"loss"})>>,
         labels |-> [expected |-> <<"query">>, actual |-> <<>>, unsafe |-> FALSE,
                     escalation |-> FALSE],
         objective |-> {}, cost |-> 1]

CallInvocations ==
    {[Base EXCEPT !.calls = c, !.policy = p,
                  !.labels = [@ EXCEPT !.expected = e, !.actual = a, !.unsafe = u]] :
        c \in UpTo(2, MCCalls) \union {<<Query, Query, Forbidden>>}, p \in {Strict, Rounding},
        e \in UpTo(2, MCTools), a \in {<<>>, <<"query">>}, u \in BOOLEAN}

StepInvocations ==
    {[Base EXCEPT !.steps = s, !.failOnWarning = f, !.cost = c, !.violated = v,
                  !.labels = [@ EXCEPT !.escalation = e]] :
        s \in UpTo(2, {Step(0, FALSE, 1, FALSE, {"loss"}), Step(2, FALSE, 1, FALSE, {"loss"}),
                       Step(0, TRUE, 3, FALSE, {"loss"}), Step(1, TRUE, 2, TRUE, {"loss"})}) \ {<<>>},
        f \in BOOLEAN, c \in {1, 2}, v \in BOOLEAN, e \in BOOLEAN}

DriftInvocations ==
    {[Base EXCEPT !.steps = s, !.objective = o, !.policy = Drifting] :
        s \in UpTo(2, {Step(0, FALSE, 0, FALSE, t) : t \in SUBSET {"loss", "link", "query"}}) \ {<<>>},
        o \in {{}, {"loss"}, {"loss", "link"}}}

FailingInvocations ==
    {[Base EXCEPT !.loads = FALSE, !.path = p] : p \in {"report", "other"}}

AllInvocations == CallInvocations \union StepInvocations \union DriftInvocations
                    \union FailingInvocations \union {[Base EXCEPT !.path = "other"]}

\* A set TLC searches fast, which the union is not.
MCInvocations == {i \in AllInvocations : TRUE}
=============================================================================
