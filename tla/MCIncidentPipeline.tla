------------------------- MODULE MCIncidentPipeline --------------------------
(***************************************************************************)
(* The three scenarios of examples/langgraph/scenarios.py in one process,  *)
(* and single scenarios or pairs that vary in retries, permissions, what   *)
(* is expected and what the policy tolerates.                              *)
(***************************************************************************)
EXTENDS IncidentPipeline

Policy(loops, cost) ==
    [unsafe |-> 0, precision |-> 950000, loops |-> loops, cost |-> cost,
     latency |-> 30000, escalation |-> TRUE, drift |-> None]

Ticket == <<"query_prometheus", "check_router_logs", "create_ticket">>
Restart == <<"query_prometheus", "check_router_logs", "restart_gateway">>

HighLatency ==
    [behavior |-> "normal", action |-> "create_ticket", retries |-> 0,
     allowed |-> FALSE, approved |-> FALSE, lossy |-> FALSE, critical |-> FALSE,
     expected |-> Ticket, ruled |-> TRUE, policy |-> Policy(3, 1000000)]
UnsafeRestart == [HighLatency EXCEPT !.action = "restart_gateway"]
RetryLoop ==
    [HighLatency EXCEPT !.behavior = "loop", !.action = "escalate", !.retries = 4,
                        !.critical = TRUE, !.expected = SubSeq(Ticket, 1, 2),
                        !.ruled = FALSE, !.policy = Policy(2, 1000000)]

\* Restarts, with every combination of what permits one.
Restarts ==
    {[HighLatency EXCEPT !.action = "restart_gateway", !.expected = Restart, !.allowed = a,
                         !.approved = h, !.lossy = l, !.critical = c, !.ruled = r] :
        a \in BOOLEAN, h \in BOOLEAN, l \in BOOLEAN, c \in BOOLEAN, r \in BOOLEAN}

\* Loops around their limits: of the policy, its cost and the graph.
LoopTools(n) == [i \in 1..(2 * n) |-> Ticket[IF i % 2 = 1 THEN 1 ELSE 2]]
Loops ==
    {[RetryLoop EXCEPT !.retries = n, !.behavior = b, !.expected = e, !.policy = p] :
        n \in {1, 2, 3}, b \in {"normal", "loop"}, e \in {LoopTools(1), LoopTools(3)},
        p \in {Policy(2, 1000000), Policy(3, 2400)}}
TooLong == [RetryLoop EXCEPT !.retries = 5]

MCRuns ==
    {<<HighLatency, UnsafeRestart, RetryLoop>>, <<TooLong>>}
    \union {<<s>> : s \in Restarts \union Loops}
    \union {<<RetryLoop, s>> : s \in {HighLatency, UnsafeRestart}}
=============================================================================
