----------------------------- MODULE ReleaseGate -----------------------------
(***************************************************************************)
(* The release gate: the exit code and the JSON report of the CLI          *)
(* (telefix/cli/main.py) for the decision that Evaluation makes, and the   *)
(* GitHub action that runs the CLI, reads the report and enforces the exit *)
(* code.                                                                   *)
(*                                                                         *)
(* Invocations of the action share a workspace, where a report stays when  *)
(* its invocation has ended.                                               *)
(***************************************************************************)
EXTENDS Evaluation

CONSTANTS
    Paths,           \* where reports are written
    Invocations,     \* the invocations of the action there may be
    MaxInvocations   \* bound on invocations in one workspace

\* "partial" is a file that was not written whole.
ReportType == [decision : {"pass", "fail", "partial"}, invocation : Nat]

\* With two million calls a single one is a rate that rounds to zero.
FewerThanTwoMillion(s) == Len(s) < 2 * Million

ASSUME GateAssumption ==
    /\ Tools \subseteq Tokens
    /\ None \notin Drift \union Invocations \union ReportType
    /\ None \notin {0, 1, 2, 137} /\ None \notin {"pass", "fail", "error"}
    /\ MaxInvocations \in Nat
    /\ \A i \in Invocations :
        /\ i.loads \in BOOLEAN /\ i.failOnWarning \in BOOLEAN /\ i.path \in Paths
        /\ i.violated \in BOOLEAN /\ i.policy \in Policies
        /\ i.calls \in Seq(Calls) /\ FewerThanTwoMillion(i.calls)
        /\ i.steps \in Seq(Steps) \ {<<>>}
        /\ \A s \in DOMAIN i.steps : IsFiniteSet(i.steps[s].tokens)
        /\ i.labels \in Labels /\ FewerThanTwoMillion(i.labels.actual)
        /\ i.objective \subseteq Tokens /\ IsFiniteSet(i.objective)
        /\ i.cost \in Nat

VARIABLES
    phase,      \* where the action is
    count,      \* invocations so far
    job,        \* the invocation
    exit,       \* the exit code of the CLI, None until it ended
    reports,    \* reports[p]: the file at p
    published,  \* the output deployment-decision
    outcome     \* how the action ended

vars == <<phase, count, job, exit, reports, published, outcome>>
-----------------------------------------------------------------------------
(* The decision and the exit code. *)

\* warnings_for_result
HasWarnings(i) == \E s \in DOMAIN i.steps : i.steps[s].open

\* _evaluate_command, once the report is written.
ExitCode(i) == IF Passed(i) /\ ~(i.failOnWarning /\ HasWarnings(i)) THEN 0 ELSE 1

Report(n, i) == [decision |-> Decision(i), invocation |-> n]
Partial(n) == [decision |-> "partial", invocation |-> n]
-----------------------------------------------------------------------------
(* The action. *)

Init ==
    /\ phase = "idle" /\ count = 0
    /\ job = None /\ exit = None
    /\ reports = [p \in Paths |-> None]
    /\ published = None /\ outcome = "none"

\* A step of a workflow uses the action.
Invoke(i) ==
    /\ phase = "idle" /\ count < MaxInvocations
    /\ phase' = "loading" /\ count' = count + 1 /\ job' = i
    /\ UNCHANGED <<exit, reports, published, outcome>>

\* The workflow goes on, after a failure if the step continues on error.
Leave ==
    /\ phase = "ended"
    /\ phase' = "idle" /\ job' = None
    /\ exit' = None /\ published' = None /\ outcome' = "none"
    /\ UNCHANGED <<count, reports>>

\* The trajectory, the context or the policy is missing or invalid.
LoadFails ==
    /\ phase = "loading" /\ ~job.loads
    /\ exit' = 2
    /\ phase' = "outputs"
    /\ UNCHANGED <<count, job, reports, published, outcome>>

Evaluate ==
    /\ phase = "loading" /\ job.loads
    /\ phase' = "writing"
    /\ UNCHANGED <<count, job, exit, reports, published, outcome>>

\* write_json_report, and the exit code.
WriteReport ==
    /\ phase = "writing"
    /\ reports' = [reports EXCEPT ![job.path] = Report(count, job)]
    /\ exit' = ExitCode(job)
    /\ phase' = "outputs"
    /\ UNCHANGED <<count, job, published, outcome>>

\* Variant: an error while writing does not change the exit code.
WriteFailsQuietly ==
    /\ phase = "writing"
    /\ reports' \in {reports, [reports EXCEPT ![job.path] = Partial(count)]}
    /\ exit' = ExitCode(job)
    /\ phase' = "outputs"
    /\ UNCHANGED <<count, job, published, outcome>>

\* OSError: the file cannot be opened, or is truncated and not written whole.
WriteFails ==
    /\ phase = "writing"
    /\ reports' \in {reports, [reports EXCEPT ![job.path] = Partial(count)]}
    /\ exit' = 2
    /\ phase' = "outputs"
    /\ UNCHANGED <<count, job, published, outcome>>

\* The process is killed, or an exception is not one of those main() catches.
Killed ==
    /\ phase \in {"loading", "writing"}
    /\ reports' \in {reports} \union
          (IF phase = "writing" THEN {[reports EXCEPT ![job.path] = Partial(count)]} ELSE {})
    /\ exit' \in {1, 137}
    /\ phase' = "outputs"
    /\ UNCHANGED <<count, job, published, outcome>>

HasReport == reports[job.path] # None

OutputsRead ==
    /\ phase = "outputs" /\ HasReport /\ reports[job.path].decision # "partial"
    /\ published' = reports[job.path].decision
    /\ phase' = "enforcing"
    /\ UNCHANGED <<count, job, exit, reports, outcome>>

OutputsMissing ==
    /\ phase = "outputs" /\ ~HasReport
    /\ published' = "error"
    /\ phase' = "enforcing"
    /\ UNCHANGED <<count, job, exit, reports, outcome>>

\* json.loads raises: the step fails, and the steps after it do not run.
OutputsBroken ==
    /\ phase = "outputs" /\ HasReport /\ reports[job.path].decision = "partial"
    /\ phase' = "ended" /\ outcome' = "failure"
    /\ UNCHANGED <<count, job, exit, reports, published>>

\* exit "${{ steps.evaluate.outputs.exit-code }}"
Enforce ==
    /\ phase = "enforcing"
    /\ phase' = "ended"
    /\ outcome' = IF exit = 0 THEN "success" ELSE "failure"
    /\ UNCHANGED <<count, job, exit, reports, published>>

Next ==
    \/ (\E i \in Invocations : Invoke(i)) \/ Leave
    \/ LoadFails \/ Evaluate \/ WriteReport \/ WriteFails \/ Killed
    \/ OutputsRead \/ OutputsMissing \/ OutputsBroken \/ Enforce

Spec == Init /\ [][Next]_vars
-----------------------------------------------------------------------------
(* Properties. *)

\* The variables keep their shape; the exit code is known once the CLI has
\* ended, the decision when the last step of the action starts, and a report
\* is never newer than the invocation.
TypeOK ==
    /\ phase \in {"idle", "loading", "writing", "outputs", "enforcing", "ended"}
    /\ count \in Nat
    /\ job \in Invocations \union {None}
    /\ (job = None) = (phase = "idle")
    /\ exit \in {None, 0, 1, 2, 137}
    /\ reports \in [Paths -> ReportType \union {None}]
    /\ \A p \in Paths : reports[p] # None => reports[p].invocation <= count
    /\ published \in {None, "pass", "fail", "error"}
    /\ outcome \in {"none", "success", "failure"}
    /\ phase \in {"outputs", "enforcing", "ended"} => exit # None
    /\ phase = "enforcing" => published # None

\* What an invocation that succeeds can rely on, said without the metrics.
\* Thresholds hold up to half a millionth, which rounding may hide.
Clean(i) ==
    LET p == i.policy
        unsafe == Cardinality(UnsafeCalls(i))
        last == Len(i.steps)
    IN
    /\ i.loads /\ ~i.violated
    /\ p.unsafe = 0 =>
          /\ ~i.labels.unsafe
          /\ \A n \in DOMAIN i.calls :
                ~i.calls[n].critical /\ (i.calls[n].destructive => i.calls[n].allowed)
    /\ 2 * Million * unsafe <= (2 * p.unsafe + 1) * Len(i.calls)
    /\ \A s \in DOMAIN i.steps : i.steps[s].loop <= p.loops
    /\ i.labels.escalation /\ p.escalation => \E s \in DOMAIN i.steps : i.steps[s].human
    /\ i.failOnWarning => \A s \in DOMAIN i.steps : ~i.steps[s].open
    /\ p.drift # None =>
        /\ p.drift.redundancy < 100 =>
              \A s \in 1..(last - 1) : i.steps[s].tokens # i.steps[s + 1].tokens
        /\ p.drift.retention = 100 => Objective(i) \subseteq i.steps[last].tokens

\* The action succeeds only for a trajectory that was read, that breaks no
\* rule, that has no unsafe call if none is tolerated, whose loops, drift and
\* escalation are as the policy wants, and that is complete if it must be:
\* whatever failed while the report was written or read, and whatever report
\* was there before.
SuccessMeansClean == outcome = "success" => Clean(job)

\* Under a policy that demands full precision the tools that ran are the ones
\* expected, in their order, up to a tool that may be missing at the end, and
\* some ran if any was expected.
FollowsExpected(i) ==
    /\ \A n \in DOMAIN Actual(i) :
          n \in DOMAIN i.labels.expected /\ Actual(i)[n] = i.labels.expected[n]
    /\ i.labels.expected # <<>> => Actual(i) # <<>>

SuccessFollowsExpected ==
    outcome = "success" /\ job.policy.precision = Million => FollowsExpected(job)

\* An invocation that succeeds has published its own decision, from its own
\* report, and the decision is to deploy.
SuccessPublishesOwn ==
    outcome = "success" =>
        /\ published = "pass"
        /\ reports[job.path] = [decision |-> "pass", invocation |-> count]

\* An invocation that ends with exit code 2 publishes no decision ("error" in
\* docs/github-action.md:45).  It does not hold: see the run "gate_stale".
ErrorPublishesNoDecision ==
    exit = 2 => published \notin {"pass", "fail"}
=============================================================================
