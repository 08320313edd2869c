---------------------------- MODULE PolicyContext ----------------------------
(***************************************************************************)
(* The context-aware policy engine: telefix/cli/context.py attaches the    *)
(* CLI's --context to a trajectory, telefix/evaluator/context.py builds    *)
(* the context of each tool call by merging dicts into one another, and    *)
(* telefix/evaluator/policy_engine.py judges the call by the rules.        *)
(*                                                                         *)
(* _deep_merge writes into the dict it merges into, and puts a dict that   *)
(* is not there yet in place without a copy: contexts share dicts with the *)
(* trajectory, and merging writes into it.  So the dicts are objects with  *)
(* an identity, "heap" is what each holds now, and _deep_merge goes        *)
(* through the items of a dict one at a time, in any order, with a frame   *)
(* on the stack for each of its calls.                                     *)
(***************************************************************************)
EXTENDS Naturals, Sequences

CONSTANTS
    Dicts,          \* the dicts there are
    Keys,           \* their keys
    Values,         \* whatever is no dict
    None,           \* a key that is not there, a payload that is no dict
    Extra,          \* the trajectory's own custom fields
    Cli,            \* what --context gives
    Runtime,        \* the dict "merged" of inject_runtime_context
    Built,          \* the context of a tool call, a new dict for each
    Copy,           \* dict(payload), a new dict for each payload
    Tools,
    Inputs,         \* what may be evaluated
    MaxEvaluations  \* bound on evaluations of one trajectory object

ContextKey == "context"
RuntimeKey == "runtime_context"
Special == {ContextKey, RuntimeKey}

Objects == [Keys -> Values \union Dicts \union {None}]
Empty == [k \in Keys |-> None]

\* The paths conditions read, and for each the values it accepts, which stand
\* for its operators (eq, neq, gt, ...).
Paths == {<<k>> : k \in Keys} \union (Keys \X Keys)
Conditions == [Paths -> {None} \union SUBSET Values]
Rules == [tool : Tools, allowed : Conditions, denied : Conditions,
          otherwise : {"PASS", "WARN", "FAIL"}]
Payloads == Dicts \union {None}
ToolCalls == [tool : Tools, input : Payloads, output : Payloads,
              args : Payloads, result : Payloads]

PayloadsOf(c) == {c.input, c.output, c.args, c.result} \ {None}

ASSUME DictsAssumption ==
    /\ {Extra, Cli, Runtime, Built, Copy} \subseteq Dicts
    /\ Extra \notin {Cli, Runtime, Built, Copy} /\ Cli \notin {Runtime, Built, Copy}
    /\ Runtime \notin {Built, Copy} /\ Built # Copy
    /\ Dicts \intersect Values = {}
    /\ None \notin Dicts \union Values
    /\ Special \subseteq Keys
ASSUME InputsAssumption ==
    \A i \in Inputs :
        /\ DOMAIN i = {"dicts", "cli", "calls", "rules", "forbidden"}
        /\ i.dicts \in [Dicts -> Objects]
        /\ i.cli \in BOOLEAN
        /\ i.calls \in Seq(ToolCalls)
        /\ i.rules \in Seq(Rules)
        /\ i.forbidden \subseteq Tools
\* Trajectory, --context and payloads are read as JSON: trees.  No dict is in two
\* places, and none is at the root of one and inside of another.
TopOf(i) == {Extra, Cli, Runtime, Built, Copy} \union UNION {PayloadsOf(i.calls[n]) : n \in DOMAIN i.calls}
ASSUME TreesAssumption ==
    \A i \in Inputs :
        /\ \A d \in Dicts, k \in Keys : i.dicts[d][k] \in Dicts =>
              \A e \in Dicts, l \in Keys : i.dicts[e][l] = i.dicts[d][k] => e = d /\ l = k
        /\ \A d \in Dicts, k \in Keys : i.dicts[d][k] \notin TopOf(i)
        /\ i.dicts[Runtime] = Empty /\ i.dicts[Built] = Empty /\ i.dicts[Copy] = Empty
ASSUME PayloadsAssumption ==
    \A i \in Inputs : \A n \in DOMAIN i.calls :
        LET c == i.calls[n] IN
        /\ PayloadsOf(c) \intersect {Extra, Cli, Runtime, Built, Copy} = {}
        /\ c.input # None => c.input \notin {c.output, c.args, c.result}
        /\ c.output # None => c.output \notin {c.args, c.result}
        /\ c.args # None => c.args # c.result
ASSUME MaxEvaluationsAssumption == MaxEvaluations \in Nat

VARIABLES
    given,      \* the trajectory, the --context and the policy
    heap,       \* what each dict holds now
    phase,      \* "loaded", "injecting", "ready", "building", "merging",
                \* "rules" or "raised"
    call,       \* the tool call evaluate_policy_rules is at
    at,         \* the next of its Sources to merge
    frames,     \* the calls of _deep_merge in progress
    rule,       \* the next rule to apply, 0 for the forbidden tools
    violations, \* what this evaluation has found
    verdicts    \* what the evaluations that ended returned

vars == <<given, heap, phase, call, at, frames, rule, violations, verdicts>>

-----------------------------------------------------------------------------
(* _deep_merge(target, source). *)

Held(d) == {k \in Keys : heap[d][k] # None}

\* A call at its start, given the keys of its source: which are still to be
\* merged, and which there were when the iteration began.
Frame(target, source, keys) ==
    [target |-> target, source |-> source, keys |-> keys, todo |-> keys]

Top == frames[Len(frames)]

\* for key, value in source.items(): Python looks whether the size of a dict
\* has changed whenever the iteration goes on.
Iterating == frames # <<>> /\ Held(Top.source) = Top.keys

Taken(k) == [frames EXCEPT ![Len(frames)].todo = @ \ {k}]

\* The key is in both, with a dict.
Nested(t, s, k) == heap[s][k] \in Dicts /\ heap[t][k] \in Dicts

\* target.setdefault(key, value)
WrittenIfMissing(t, s, k) ==
    [heap EXCEPT ![t][k] = IF heap[t][k] # None THEN heap[t][k] ELSE heap[s][k]]

\* target[key] = value
Written(t, s, k) == [heap EXCEPT ![t][k] = heap[s][k]]

\* _deep_merge(value, target[key])
RecursionSwapped(t, s, k) == Frame(heap[s][k], heap[t][k], Held(heap[t][k]))

\* _deep_merge(target[key], value)
Recursion(t, s, k) == Frame(heap[t][k], heap[s][k], Held(heap[s][k]))

Assign ==
    /\ Iterating
    /\ \E k \in Top.todo :
          /\ ~Nested(Top.target, Top.source, k)
          /\ heap' = Written(Top.target, Top.source, k)
          /\ frames' = Taken(k)
    /\ UNCHANGED <<given, phase, call, at, rule, violations, verdicts>>

Recurse ==
    /\ Iterating
    /\ \E k \in Top.todo :
          /\ Nested(Top.target, Top.source, k)
          /\ frames' = Append(Taken(k), Recursion(Top.target, Top.source, k))
    /\ UNCHANGED <<given, heap, phase, call, at, rule, violations, verdicts>>

Leave ==
    /\ Iterating /\ Top.todo = {} /\ Len(frames) > 1
    /\ frames' = SubSeq(frames, 1, Len(frames) - 1)
    /\ UNCHANGED <<given, heap, phase, call, at, rule, violations, verdicts>>

\* RuntimeError: dictionary changed size during iteration.  Nobody catches it.
Raise ==
    /\ frames # <<>> /\ Held(Top.source) # Top.keys
    /\ phase' = "raised"
    /\ frames' = <<>>
    /\ UNCHANGED <<given, heap, call, at, rule, violations, verdicts>>

-----------------------------------------------------------------------------
(* Attaching --context. *)

Init ==
    /\ given \in Inputs
    /\ heap = given.dicts
    /\ phase = "loaded"
    /\ call = 1 /\ at = 1 /\ rule = 0
    /\ frames = <<>> /\ violations = <<>> /\ verdicts = <<>>

NoContext ==
    /\ phase = "loaded" /\ ~given.cli
    /\ phase' = "ready"
    /\ UNCHANGED <<given, heap, call, at, frames, rule, violations, verdicts>>

\* inject_runtime_context: merged = dict(existing), and --context goes into it.
Existing == IF heap[Extra][RuntimeKey] \in Dicts THEN heap[heap[Extra][RuntimeKey]] ELSE Empty

Inject ==
    /\ phase = "loaded" /\ given.cli
    /\ heap' = [heap EXCEPT ![Runtime] = Existing]
    /\ frames' = <<Frame(Runtime, Cli, Held(Cli))>>
    /\ phase' = "injecting"
    /\ UNCHANGED <<given, call, at, rule, violations, verdicts>>

\* extra["runtime_context"] = merged
Injected ==
    /\ phase = "injecting" /\ Iterating /\ Top.todo = {} /\ Len(frames) = 1
    /\ heap' = [heap EXCEPT ![Extra][RuntimeKey] = Runtime]
    /\ frames' = <<>>
    /\ phase' = "ready"
    /\ UNCHANGED <<given, call, at, rule, violations, verdicts>>

-----------------------------------------------------------------------------
(* Building the context of a tool call. *)

\* evaluate_policy_rules is called; without rules it returns at once.
Evaluate ==
    /\ phase = "ready"
    /\ Len(verdicts) < MaxEvaluations
    /\ given.rules # <<>> \/ given.forbidden # {}
    /\ phase' = "building"
    /\ heap' = [heap EXCEPT ![Built] = Empty]
    /\ call' = 1 /\ at' = 1
    /\ violations' = <<>>
    /\ UNCHANGED <<given, frames, rule, verdicts>>

EvaluateNothing ==
    /\ phase = "ready"
    /\ Len(verdicts) < MaxEvaluations
    /\ given.rules = <<>> /\ given.forbidden = {}
    /\ verdicts' = Append(verdicts, <<>>)
    /\ UNCHANGED <<given, heap, phase, call, at, frames, rule, violations>>

Current == given.calls[call]

\* The payloads of the call merged before those of its step.
SourcesToolFirst(c) ==
    <<Extra, heap[Built][ContextKey], heap[Built][RuntimeKey],
      c.args, c.result, c.input, c.output, heap[Built][RuntimeKey]>>

\* The runtime context merged before the payloads of the call, and not after.
SourcesRuntimeEarly(c) ==
    <<Extra, heap[Built][ContextKey], heap[Built][RuntimeKey], heap[Built][RuntimeKey],
      c.input, c.output, c.args, c.result>>

\* What build_base_context (the first three) and build_tool_context merge into
\* the context, in order: two of these it finds in what it has built so far.
Sources(c) ==
    <<Extra, heap[Built][ContextKey], heap[Built][RuntimeKey],
      c.input, c.output, c.args, c.result, heap[Built][RuntimeKey]>>

Source == Sources(Current)[at]

Onward == /\ at' = at + 1
          /\ phase' = IF at = 8 THEN "rules" ELSE "building"

\* _deep_merge(context, dict(payload))
Begin ==
    /\ phase = "building" /\ call \in DOMAIN given.calls
    /\ Source \in Dicts
    /\ heap' = [heap EXCEPT ![Copy] = heap[Source]]
    /\ frames' = <<Frame(Built, Copy, Held(Source))>>
    /\ phase' = "merging"
    /\ UNCHANGED <<given, call, at, rule, violations, verdicts>>

\* It is no Mapping.
Skip ==
    /\ phase = "building" /\ call \in DOMAIN given.calls
    /\ Source \notin Dicts
    /\ Onward
    /\ UNCHANGED <<given, heap, call, frames, rule, violations, verdicts>>

Merged ==
    /\ phase = "merging" /\ Iterating /\ Top.todo = {} /\ Len(frames) = 1
    /\ Onward
    /\ frames' = <<>>
    /\ UNCHANGED <<given, heap, call, rule, violations, verdicts>>

\* The loop over the tool calls ends.
Return ==
    /\ phase = "building"
    /\ call \notin DOMAIN given.calls
    /\ verdicts' = Append(verdicts, violations)
    /\ phase' = "ready"
    /\ UNCHANGED <<given, heap, call, at, frames, rule, violations>>

-----------------------------------------------------------------------------
(* Judging. *)

\* resolve_context_path
Resolve(path) ==
    LET first == heap[Built][path[1]] IN
    IF Len(path) = 1 THEN first
    ELSE IF first \in Dicts THEN heap[first][path[2]] ELSE None

Conditional(conditions) == {p \in Paths : conditions[p] # None}

\* A path the context does not have is passed over.
MatchedIgnoresMissing(conditions) ==
    \A p \in Conditional(conditions) :
        Resolve(p) # None => Resolve(p) \in conditions[p]

\* _evaluate_conditions: a path the context does not have satisfies nothing.
Matched(conditions) ==
    \A p \in Conditional(conditions) :
        Resolve(p) # None /\ Resolve(p) \in conditions[p]

Denied(r) == Conditional(r.denied) # {} /\ Matched(r.denied)

\* _evaluate_rule
Violates(r) ==
    /\ r.tool = Current.tool
    /\ Denied(r) \/ (~Matched(r.allowed) /\ r.otherwise = "FAIL")

Report(n) == Append(violations, [call |-> call, rule |-> n])

CheckForbidden ==
    /\ phase = "rules" /\ rule = 0
    /\ violations' = IF Current.tool \in given.forbidden THEN Report(0) ELSE violations
    /\ rule' = 1
    /\ UNCHANGED <<given, heap, phase, call, at, frames, verdicts>>

CheckRule ==
    /\ phase = "rules" /\ rule \in DOMAIN given.rules
    /\ violations' = IF Violates(given.rules[rule]) THEN Report(rule) ELSE violations
    /\ rule' = rule + 1
    /\ UNCHANGED <<given, heap, phase, call, at, frames, verdicts>>

\* The next tool call gets a context of its own.
NextCall ==
    /\ phase = "rules" /\ rule > Len(given.rules)
    /\ phase' = "building"
    /\ heap' = [heap EXCEPT ![Built] = Empty]
    /\ call' = call + 1 /\ at' = 1
    /\ rule' = 0
    /\ UNCHANGED <<given, frames, violations, verdicts>>

Next ==
    \/ NoContext \/ Inject \/ Injected
    \/ Assign \/ Recurse \/ Leave \/ Raise
    \/ Evaluate \/ EvaluateNothing \/ Begin \/ Skip \/ Merged \/ Return
    \/ CheckForbidden \/ CheckRule \/ NextCall

Spec == Init /\ [][Next]_vars
-----------------------------------------------------------------------------
(* Properties. *)

\* Sequences of reports: on a call by a rule, or by the forbidden tools (0).
Found == Seq([call : DOMAIN given.calls, rule : 0..Len(given.rules)])

Frames == [target : Dicts, source : Dicts, keys : SUBSET Keys, todo : SUBSET Keys]

\* The variables keep their shape; _deep_merge is being called just while
\* something is merged, and a context belongs to a tool call there is.
TypeOK ==
    /\ heap \in [Dicts -> Objects]
    /\ phase \in {"loaded", "injecting", "ready", "building", "merging", "rules", "raised"}
    /\ call \in 1..(Len(given.calls) + 1)
    /\ at \in 1..9
    /\ frames \in Seq(Frames)
    /\ rule \in 0..(Len(given.rules) + 1)
    /\ violations \in Found
    /\ verdicts \in Seq(Found)
    /\ Len(verdicts) <= MaxEvaluations
    /\ frames # <<>> <=> phase \in {"injecting", "merging"}
    /\ phase \in {"building", "merging", "rules"} => Len(verdicts) < MaxEvaluations
    /\ phase \in {"building", "merging"} => at \in 1..8
    /\ phase = "merging" => call \in DOMAIN given.calls
    /\ phase = "rules" => at = 9 /\ call \in DOMAIN given.calls
    /\ phase # "rules" => rule = 0

\* What is read from the input: the top level of a payload, and of the runtime
\* context, where --context wins over the trajectory's own.
Given(d) == IF d \in Dicts THEN given.dicts[d] ELSE Empty
Recorded == Given(given.dicts[Extra][RuntimeKey])

RuntimeGiven ==
    IF ~given.cli THEN Recorded
    ELSE [k \in Keys |->
            LET fromCli == given.dicts[Cli][k] IN
            IF fromCli = None \/ (fromCli \in Dicts /\ Recorded[k] \in Dicts)
            THEN Recorded[k] ELSE fromCli]

\* Who should provide a value, the first of these that has it (docs/
\* runtime-context.md:19-25, docs/context-aware-policies.md:41-53).
Precedence(c) ==
    <<RuntimeGiven, Given(c.result), Given(c.args), Given(c.output), Given(c.input),
      Given(given.dicts[Extra][ContextKey]), given.dicts[Extra]>>

FirstOf(offered, v) ==
    \/ v = None /\ \A i \in DOMAIN offered : offered[i] = None
    \/ \E i \in DOMAIN offered :
          /\ v # None /\ v = offered[i]
          /\ \A j \in 1..(i - 1) : offered[j] = None

\* build_base_context and build_tool_context take what a context holds under
\* the keys "context" and "runtime_context" for the trajectory's.  A payload
\* that has such a key itself, or --context, is merged into those: what the
\* documents say of precedence then no longer holds.  None of those merged for
\* the first n calls has one.
Consulted(n) ==
    {given.dicts[Extra][ContextKey], given.dicts[Extra][RuntimeKey]}
        \union (IF given.cli THEN {Cli} ELSE {})
        \union UNION {PayloadsOf(given.calls[c]) : c \in 1..n \intersect DOMAIN given.calls}

Undisturbed(n) ==
    \A d \in Consulted(n) \intersect Dicts, k \in Special : given.dicts[d][k] = None

\* The calls contexts have been built for, by this evaluation and earlier ones.
Reached == IF verdicts = <<>> THEN call ELSE Len(given.calls)

\* Keys that never have a dict, or always one.
PlainKeys == {k \in Keys : \A d \in Dicts : given.dicts[d][k] \notin Dicts}
NestedKeys == {k \in Keys : \A d \in Dicts : given.dicts[d][k] \notin Values}

\* A plain value of the context comes from the source that takes precedence,
\* for every call of every evaluation, as long as no payload brings a "context"
\* or "runtime_context" of its own: the second _merge_runtime_context makes
\* the CLI's value win over the payloads that were merged after the first one.
PlainByPrecedence ==
    phase = "rules" /\ Undisturbed(Reached) =>
        LET P == Precedence(Current) IN
        \A k \in PlainKeys \ Special : FirstOf([i \in 1..7 |-> P[i][k]], heap[Built][k])

Leaf(top, n, l) == IF top[n] \in Dicts THEN given.dicts[top[n]][l] ELSE None

TrajectoryHas(n) ==
    \/ given.dicts[Extra][n] \in Dicts
    \/ Given(given.dicts[Extra][ContextKey])[n] \in Dicts

CliWins(n, l) ==
    given.cli /\ Leaf(given.dicts[Cli], n, l) # None =>
        Resolve(<<n, l>>) = Leaf(given.dicts[Cli], n, l)

\* "If the same nested key appears in the trajectory and CLI context, the CLI
\* value wins" (docs/runtime-context.md:27): true where the trajectory's own
\* metadata has the nested object and no payload merged so far has a "context"
\* or "runtime_context" of its own, whatever else the payloads hold and
\* whatever earlier calls left behind.
CliWinsOverTrajectory ==
    phase = "rules" /\ Undisturbed(Reached) =>
        \A n \in NestedKeys \ Special, l \in PlainKeys : TrajectoryHas(n) => CliWins(n, l)

\* The same wherever the nested object comes from.  It does not hold, even
\* where no payload has such a key: see the run "policy_cli".
CliValueWins ==
    phase = "rules" /\ Undisturbed(Reached) =>
        \A n \in NestedKeys \ Special, l \in PlainKeys : CliWins(n, l)

\* A nested value of the first context ever built comes from the source that
\* takes precedence, unless a payload has a "context" or "runtime_context" of its
\* own, and with one exception that the code makes: where only the
\* runtime context and the payloads of the call have the nested object, the
\* runtime context's dict is the one written to, and yields to the payloads.
RuntimeLeaf(n, l) ==
    IF given.cli /\ Leaf(given.dicts[Cli], n, l) # None THEN Leaf(given.dicts[Cli], n, l)
    ELSE Leaf(Recorded, n, l)

NestedPrecedence(c, n, l) ==
    LET P == Precedence(c)
        V == [i \in 1..7 |-> IF i = 1 THEN RuntimeLeaf(n, l) ELSE Leaf(P[i], n, l)] IN
    IF TrajectoryHas(n) THEN V ELSE <<V[2], V[3], V[4], V[5], V[1], V[6], V[7]>>

FirstContextByPrecedence ==
    phase = "rules" /\ call = 1 /\ verdicts = <<>> /\ Undisturbed(1) =>
        \A n \in NestedKeys \ Special, l \in PlainKeys :
            FirstOf(NestedPrecedence(Current, n, l), Resolve(<<n, l>>))

\* d is the first payload with a dict under k that the context of c meets.
ExtraGiven == [given.dicts[Extra] EXCEPT ![RuntimeKey] = IF given.cli THEN Runtime ELSE @]

GivenSources(c) ==
    <<ExtraGiven, Given(given.dicts[Extra][ContextKey]), RuntimeGiven,
      Given(c.input), Given(c.output), Given(c.args), Given(c.result), RuntimeGiven>>

FirstHolder(d, k, c) ==
    LET S == GivenSources(c) IN
    \E i \in 4..7 :
        /\ <<c.input, c.output, c.args, c.result>>[i - 3] = d
        /\ \A j \in 1..(i - 1) : S[j][k] \notin Dicts

\* Building contexts writes into a dict that a payload of a call has under a
\* key, "runtime_context" included, only if that payload is the first with a
\* dict there for some call: every other payload's, and so what
\* analyze_state_drift reads of it afterwards, is as it was recorded.  (Unless
\* something has a "runtime_context" that is no dict: the runtime context is
\* then not merged where it is expected, and the next payload written to.)
OnlyFirstHolderWritten ==
    RuntimeKey \in NestedKeys =>
        \A n \in DOMAIN given.calls : \A d \in PayloadsOf(given.calls[n]), k \in NestedKeys :
            LET nested == given.dicts[d][k] IN
            nested \in Dicts /\ heap[nested] # given.dicts[nested] =>
                \E c \in DOMAIN given.calls : FirstHolder(d, k, given.calls[c])

\* Rule r forbids its tool unless allowed_if holds.
Strict(r) == given.rules[r].otherwise = "FAIL"

Reported(verdict, c, r) == \E i \in DOMAIN verdict : verdict[i] = [call |-> c, rule |-> r]

\* No dict has one of the path's keys.
UnknownKey(k) ==
    /\ \A d \in Dicts : given.dicts[d][k] = None
    /\ given.cli => k # RuntimeKey

Unknown(p) == \E i \in DOMAIN p : UnknownKey(p[i])

\* A call is reported by every rule for its tool that requires a variable no
\* source provides ("Unknown context variables fail safely", docs/
\* context-aware-policies.md:60), in every evaluation.  That is said of
\* allowed_if only: a denied_if on such a variable denies nothing.
UnknownFailsSafely ==
    \A e \in DOMAIN verdicts, c \in DOMAIN given.calls, r \in DOMAIN given.rules :
        /\ given.rules[r].tool = given.calls[c].tool /\ Strict(r)
        /\ \E p \in Conditional(given.rules[r].allowed) : Unknown(p)
        => Reported(verdicts[e], c, r)

\* A value that the CLI's context gives is not replaced by anything else the
\* trajectory holds, as long as no payload has a "context" or "runtime_context"
\* of its own: every call whose rule requires another value is reported.
CliApprovalDecides ==
    \A e \in DOMAIN verdicts, c \in DOMAIN given.calls, r \in DOMAIN given.rules :
        /\ given.rules[r].tool = given.calls[c].tool /\ Strict(r)
        /\ Undisturbed(IF e = 1 THEN c ELSE Len(given.calls))
        /\ given.cli
        /\ \E k \in PlainKeys \ Special :
              /\ <<k>> \in Conditional(given.rules[r].allowed)
              /\ given.dicts[Cli][k] # None
              /\ given.dicts[Cli][k] \notin given.rules[r].allowed[<<k>>]
        => Reported(verdicts[e], c, r)
=============================================================================
