-------------------------- MODULE MCPolicyContext ---------------------------
(***************************************************************************)
(* Two tool calls, of one step or of two.  A value is named for the place  *)
(* it was read from.  At most three payloads have a nested dict, in all    *)
(* combinations, or at most three a plain value; or one or two have a      *)
(* "context" or "runtime_context" of their own.                            *)
(***************************************************************************)
EXTENDS PolicyContext, SequencesExt

Places == {"extra", "context", "existing", "cli",
           "in1", "out1", "args1", "res1", "in2", "out2", "args2", "res2"}
Pool == <<"dict1", "dict2", "dict3", "dict4", "dict5">>

\* The values: at a place or in its nested dict, and under a key of its own.
Value(d) == "=" \o d
Own(d) == "own=" \o d

Call(i, n) ==
    CASE i = 1 -> [tool |-> "restart", input |-> "in1", output |-> "out1", args |-> "args1", result |-> "res1"]
      [] i = 2 /\ n = 1 -> [tool |-> "restart", input |-> "in1", output |-> None, args |-> "args2", result |-> "res2"]
      [] i = 2 /\ n = 2 -> [tool |-> "restart", input |-> "in2", output |-> "out2", args |-> "args2", result |-> "res2"]

\* Both calls in one step, or each in its own.
Layout(n) == <<Call(1, n), Call(2, n)>>

\* One step, with an output that is a dict for both calls.
SameStep == <<Call(1, 1), [Call(2, 1) EXCEPT !.output = "out1"]>>
Layouts == {SameStep, Layout(2)}

NoCondition == [p \in Paths |-> None]
If(p, accepted) == [NoCondition EXCEPT ![p] = accepted]

Rule(allowed, denied, otherwise) ==
    [tool |-> "restart", allowed |-> allowed, denied |-> denied, otherwise |-> otherwise]

NestedRules ==
    <<Rule(If(<<"network", "loss">>, {Value("cli"), Value("existing"), Value("args1")}), NoCondition, "FAIL"),
      Rule(NoCondition, If(<<"network", "loss">>, {Value("args1"), Value("in1")}), "FAIL")>>

\* Rules and forbidden tools.
PlainPolicies ==
    {<< <<Rule(If(<<"loss">>, {Value("args1"), Value("res2"), Value("extra")}), NoCondition, "FAIL")>>, {} >>,
     << <<Rule(If(<<"loss">>, {Value("in1"), Value("extra")}), If(<<"loss">>, {Value("res1")}), "FAIL"),
          Rule(If(<<"loss">>, {Value("in1")}), If(<<"loss">>, {Value("cli")}), "WARN")>>, {"restart"} >>}

\* The dicts in which the items (a dict, a key, a value) are.
Blank == [d \in Dicts |-> [k \in Keys |-> None]]
Put(x, dicts) == [dicts EXCEPT ![x[1]][x[2]] = x[3]]
With(items) == FoldSet(Put, Blank, items)

Input(items, calls, rules, forbidden) ==
    [dicts |-> With(items), cli |-> \E x \in items : x[1] = "cli",
     calls |-> calls, rules |-> rules, forbidden |-> forbidden]

\* The trajectory's two objects are there if something is in them.
Linked(items) ==
    items \union (IF \E x \in items : x[1] = "context" THEN {<<"extra", ContextKey, "context">>} ELSE {})
          \union (IF \E x \in items : x[1] = "existing" THEN {<<"extra", RuntimeKey, "existing">>} ELSE {})

Few == {h \in SUBSET Places : Cardinality(h) <= 3}

\* Each holder's nested dict has a value, or is empty.
NestedItems(holders, full) ==
    LET order == SetToSeq(holders) IN
    {<<order[i], "network", Pool[i]>> : i \in DOMAIN order}
        \union {<<Pool[i], "loss", Value(order[i])>> : i \in {j \in DOMAIN order : order[j] \in full}}

NestedInputs ==
    {Input(Linked(s), l, NestedRules, {}) :
        s \in UNION {{NestedItems(h, f) : f \in SUBSET h} : h \in Few}, l \in Layouts}

PlainInputs ==
    {Input(Linked({<<d, "loss", Value(d)>> : d \in h}), l, p[1], p[2]) :
        h \in Few, l \in Layouts, p \in PlainPolicies}

NoRules == {Input({}, SameStep, <<>>, f) : f \in {{}, {"restart"}}}

\* What a payload may have under one of the two keys, in the dicts a and b.
OwnItems(d, a, b) ==
    UNION {{ {<<d, k, a>>, <<a, "loss", Own(d)>>},
             {<<d, k, a>>, <<a, "network", b>>, <<b, "loss", Own(d)>>} } : k \in Special}
    \union {{<<d, RuntimeKey, Own(d)>>}}

\* What there is besides.
Rest ==
    { {},
      {<<"cli", "loss", Value("cli")>>, <<"res2", "loss", Value("res2")>>},
      {<<"cli", "network", "dict5">>, <<"dict5", "loss", Value("cli")>>},
      {<<"extra", "network", "dict5">>, <<"dict5", "loss", Value("extra")>>},
      {<<"context", "loss", Value("context")>>},
      {<<"existing", "network", "dict5">>, <<"in1", "network", "dict6">>, <<"args1", "network", "dict7">>,
       <<"dict7", "loss", Value("args1")>>} }

OwnInputs ==
    {Input(Linked(s \union r), SameStep, NestedRules, {}) :
        r \in Rest,
        s \in UNION {OwnItems(d, "dict1", "dict2") : d \in {"context", "existing", "cli", "in1", "args1", "res2"}}
              \union {s1 \union s2 : s1 \in UNION {OwnItems(d, "dict1", "dict2") : d \in {"context", "in1"}},
                                     s2 \in UNION {OwnItems(d, "dict3", "dict4") : d \in {"args1", "res2"}}}}

\* Nested so deep that a merge goes on in a dict it is iterating over.
DeepInputs ==
    {Input({<<"extra", k, "existing">>, <<"existing", k, "dict1">>, <<"dict1", k, "dict2">>,
            <<"dict2", "loss", Own("existing")>>}, SameStep, NestedRules, {}) : k \in Special}

MCInputs == NestedInputs \union PlainInputs \union OwnInputs \union DeepInputs
            \union NoRules
=============================================================================
