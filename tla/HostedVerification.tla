--------------------------- MODULE HostedVerification ---------------------------
(***************************************************************************)
(* Hosted verification (.github/workflows/hosted-verification.yml): a push *)
(* starts a run with one job per entry of the workflow's matrix, and each  *)
(* job runs verify.py on the machine its runner label stands for.          *)
(*                                                                         *)
(* The hosting service is external.  It may move a label to another        *)
(* machine at any time, and it runs again, on demand, the jobs of a run    *)
(* that did not succeed; the workflow of the run stays the pushed one.     *)
(* What verify.py does is here its detection of the host, its check of the *)
(* workflow it was checked out with, and a gate that may fail              *)
(* (VerificationGates).                                                    *)
(***************************************************************************)
EXTENDS HostTargets, ProjectChecks

CONSTANTS
    Workflows, \* the workflows a repository may hold
    Labels,    \* the runner labels there are
    Images,    \* the hosts each of them may stand for
    Entries    \* the entries a matrix may have

ASSUME HostedAssumption ==
    /\ \A label \in Labels : Images[label] \subseteq HostTypes
    /\ RUNNERS \subseteq Entries
    /\ Entries \subseteq Labels \X OperatingSystems \X Architectures
    /\ \A workflow \in Workflows : workflow.matrix \subseteq Entries

VARIABLES
    workflow,  \* the workflow in the repository
    runner,    \* the machine of each label
    run,       \* the run: the workflow it was started with, its jobs
    verified   \* the hosts on which its gate has passed

vars == <<workflow, runner, run, verified>>

Machines == UNION {Images[label] : label \in Labels}

Runners == {map \in [Labels -> Machines] : \A label \in Labels : map[label] \in Images[label]}

NoRun == [of |-> Absent, jobs |-> [entry \in {} |-> Absent]]

\* `on` is the machine a job runs on, `job` what became of it.
Jobs == [job : {"queued"}, on : {Absent}]
            \cup [job : {"running", "succeeded", "failed"}, on : Machines]

TypeOK ==
    /\ workflow \in Workflows
    /\ runner \in Runners
    /\ run = NoRun \/ (run.of \in Workflows /\ run.jobs \in [run.of.matrix -> Jobs])
    /\ verified \subseteq Machines

Init ==
    /\ workflow \in Workflows
    /\ runner \in Runners
    /\ run = NoRun
    /\ verified = {}

Queued == [job |-> "queued", on |-> Absent]

-----------------------------------------------------------------------------
\* The workflow's effects on a job.

HasSetting(setting) == setting \in run.of.settings

\* The arguments of `--expected-os` and `--expected-arch`.
ExpectedOs(entry) == IF HasSetting("--expected-os") THEN entry[2] ELSE "any"

ExpectedArch(entry) == IF HasSetting("--expected-arch") THEN entry[3] ELSE "any"

\* verify.py gets past detect_host and check_ci.
GateStarts(entry) ==
    /\ Detected(run.jobs[entry].on, ExpectedOs(entry), ExpectedArch(entry))
    /\ check_ci(run.of) = 0

Is(entry, outcome) == run.jobs[entry].job = outcome

Becomes(entry, outcome) == run' = [run EXCEPT !.jobs[entry].job = outcome]

-----------------------------------------------------------------------------
\* Somebody edits the workflow, and pushes.
Edit ==
    /\ workflow' \in Workflows \ {workflow}
    /\ UNCHANGED <<runner, run, verified>>

Push ==
    /\ \A entry \in DOMAIN run.jobs : ~Is(entry, "running")
    /\ run' = [of |-> workflow, jobs |-> [entry \in workflow.matrix |-> Queued]]
    /\ verified' = {}
    /\ UNCHANGED <<workflow, runner>>

\* The service moves a label to another machine.
MoveLabel(label) ==
    /\ \E machine \in Images[label] \ {runner[label]} :
         runner' = [runner EXCEPT ![label] = machine]
    /\ UNCHANGED <<workflow, run, verified>>

\* fail-fast is false: the jobs of a run do not wait for each other.
StartJob(entry) ==
    /\ Is(entry, "queued")
    /\ run' = [run EXCEPT !.jobs[entry] = [job |-> "running", on |-> runner[entry[1]]]]
    /\ UNCHANGED <<workflow, runner, verified>>

\* verify.py returns 0, where the job runs it at all.
JobSucceeds(entry) ==
    /\ Is(entry, "running")
    /\ IF HasSetting("tools/verify.py --runtime")
       THEN GateStarts(entry) /\ verified' = verified \cup {run.jobs[entry].on}
       ELSE UNCHANGED verified
    /\ Becomes(entry, "succeeded")
    /\ UNCHANGED <<workflow, runner>>

\* A step fails, or the job is cut short by its timeout.
JobFails(entry) ==
    /\ Is(entry, "running")
    /\ Becomes(entry, IF HasSetting("continue-on-error") THEN "succeeded" ELSE "failed")
    /\ UNCHANGED <<workflow, runner, verified>>

\* "Re-run failed jobs": the others keep what they reported.
Rerun ==
    /\ \A entry \in DOMAIN run.jobs : run.jobs[entry].job \in {"succeeded", "failed"}
    /\ \E entry \in DOMAIN run.jobs : Is(entry, "failed")
    /\ run' = [run EXCEPT !.jobs = [entry \in DOMAIN run.jobs |->
                                      IF Is(entry, "failed") THEN Queued ELSE run.jobs[entry]]]
    /\ UNCHANGED <<workflow, runner, verified>>

Next ==
    \/ Edit \/ Push \/ Rerun
    \/ \E label \in Labels : MoveLabel(label)
    \/ \E entry \in DOMAIN run.jobs :
         StartJob(entry) \/ JobSucceeds(entry) \/ JobFails(entry)

Spec == Init /\ [][Next]_vars

-----------------------------------------------------------------------------
RunSucceeded ==
    run # NoRun /\ \A entry \in DOMAIN run.jobs : Is(entry, "succeeded")

\* A run that succeeds, and in which any gate passed, verified every supported
\* target, wherever the labels pointed when its jobs ran, also over several
\* attempts: "It runs the same Python verifier [...] natively on Linux
\* x64/arm64, Windows x64, and macOS x64/arm64" (README.md:54-57;
\* ci_contract.py:22-55, host.py:61-66).
HostedCoverage ==
    RunSucceeded /\ verified # {} =>
        SUPPORTED_TARGETS \subseteq {<<machine.os, machine.arch>> : machine \in verified}
=============================================================================
