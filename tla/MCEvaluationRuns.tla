-------------------------- MODULE MCEvaluationRuns ---------------------------
(* Four documents, prompts of up to three phrases, an evaluation and an A/B    *)
(* test at once.                                                              *)
EXTENDS EvaluationRuns

MCCalls == {"evaluation", "ab_test"}
MCDocuments == 1..4
MCWords == <<{"synthetic", "power"}, {"synthetic", "telemetry"}, {"synthetic"},
             {"synthetic", "network"}>>
MCTags == <<{"slow", "rf"}, {"slow", "consents"}, {"offline", "no internet"}, {"normal"}>>
MCConcepts == {{"slow", "latency"}, {"offline", "no internet"}, {"rf", "power"}}
\* In thousandths.
MCInverseFrequency == <<1204, 693, 357, 105>>
MCStrictPhrases == {"synthetic", "network"}

Verified == <<Telemetry, Reset, Telemetry>>

\* The expected tools are right or not, the expected resolution as well.
Case(prompt, context) ==
    [prompt |-> prompt, context |-> context,
     tools |-> IF "consents" \in prompt THEN Verified ELSE <<Telemetry>>,
     resolution |-> IF "consents" \in prompt THEN "resolved" ELSE "escalate"]

Prompts ==
    {prompt \in SUBSET {"slow", "offline", "consents", "no consent", "normal"} :
        Cardinality(prompt) \in 1..3}
Contexts == {{}, {1}, {2}, {3}, {4}, {1, 2}, {3, 4}, {1, 2, 4}}
MixedCases == <<Case({"slow", "consents"}, {1, 2}), Case({"offline", "latency"}, {3})>>
MixedAgain == <<Case({"normal"}, {1, 4}), Case({"slow", "no consent", "consents"}, {1, 2, 4})>>

MCPhrases == UNION {Tokens(d) : d \in MCDocuments} \union UNION Prompts
                \union UNION MCConcepts \union MCStrictPhrases
MCCases == {Case(prompt, context) : prompt \in Prompts, context \in Contexts}
             \union {MixedCases[n] : n \in 1..2} \union {MixedAgain[n] : n \in 1..2}

Input(store, cases) ==
    [backend |-> store, dataset |-> cases, kind |-> [r \in MCCalls |-> r]]

MCInputs ==
    {Input("local", <<Case(prompt, context)>>) : prompt \in Prompts, context \in Contexts}
    \union {Input("local", cases) : cases \in {MixedCases, MixedAgain}}
    \union {Input("qdrant", <<cases[1]>>) : cases \in {MixedCases, MixedAgain}}
    \union {Input("qdrant", MixedCases)}
=============================================================================
