----------------------- MODULE HostedVerificationProofs -----------------------
(***************************************************************************)
(* A hosted run that succeeds verified every supported target, for every   *)
(* set of workflows, labels and machines.                                  *)
(***************************************************************************)
EXTENDS HostedVerification, TLAPS

\* What a workflow the checker accepts has in effect.
Effective(w) ==
    /\ RUNNERS \subseteq w.matrix
    /\ {"tools/verify.py --runtime", "--expected-os", "--expected-arch"} \subseteq w.settings
    /\ "continue-on-error" \notin w.settings

\* A job that reports success under such a workflow is a gate that passed on a
\* host of the entry's target; where a gate passed, there is such a workflow.
JobsReport ==
    /\ run # NoRun /\ Effective(run.of) =>
         \A entry \in DOMAIN run.jobs : run.jobs[entry].job = "succeeded" =>
            \E machine \in verified : machine.os = entry[2] /\ machine.arch = entry[3]
    /\ verified # {} => run # NoRun /\ Effective(run.of)

IInv == TypeOK /\ JobsReport

USE HostedAssumption

-----------------------------------------------------------------------------
\* An accepted workflow is effective (ci_contract.py:22-55).
LEMMA AcceptedIsEffective ==
    ASSUME NEW w, check_ci(w) = 0
    PROVE  Effective(w)
<1>1. inspect_workflow(w) = {}
  BY DEF check_ci, Exit
<1>2. /\ RUNNERS \ w.matrix = {}
      /\ (RequiredSettings \ w.settings) \X {"missing"} = {}
      /\ (ForbiddenSettings \cap w.settings) \X {"forbidden"} = {}
  BY <1>1, Zenon DEF inspect_workflow
<1>3. RUNNERS \subseteq w.matrix
  BY <1>2
<1>4. RequiredSettings \subseteq w.settings
  <2>1. SUFFICES ASSUME NEW s \in RequiredSettings \ w.settings PROVE FALSE
    OBVIOUS
  <2>2. <<s, "missing">> \in (RequiredSettings \ w.settings) \X {"missing"}
    BY <2>1
  <2> QED
    BY <1>2, <2>2
<1>5. ForbiddenSettings \cap w.settings = {}
  <2>1. SUFFICES ASSUME NEW s \in ForbiddenSettings \cap w.settings PROVE FALSE
    OBVIOUS
  <2>2. <<s, "forbidden">> \in (ForbiddenSettings \cap w.settings) \X {"forbidden"}
    BY <2>1
  <2> QED
    BY <1>2, <2>2
<1> QED
  BY <1>3, <1>4, <1>5 DEF Effective, RequiredSettings, ForbiddenSettings

\* Where the expected target is passed, detect_host returns on no other
\* (host.py:54-66).
LEMMA DetectsTheTarget ==
    ASSUME NEW entry \in Entries, NEW machine,
           Detected(machine, entry[2], entry[3])
    PROVE  machine.os = entry[2] /\ machine.arch = entry[3]
BY DEF Detected, OperatingSystems, Architectures

\* The matrix has an entry for every supported target (ci_contract.py:8-14).
LEMMA RunnersCoverTargets ==
    ASSUME NEW target \in SUPPORTED_TARGETS
    PROVE  \E entry \in RUNNERS : entry[2] = target[1] /\ entry[3] = target[2]
BY DEF SUPPORTED_TARGETS, OperatingSystems, Architectures, RUNNERS

-----------------------------------------------------------------------------
\* No run has been started.
LEMMA Initially == Init => IInv
BY DEF Init, IInv, TypeOK, JobsReport


\* What is said of the run does not depend on the repository and the labels.
LEMMA ReportsKept ==
    ASSUME JobsReport, UNCHANGED <<run, verified>>
    PROVE  JobsReport'
BY DEF JobsReport, NoRun, Effective

\* What is pushed later does not change the run.
LEMMA EditKeeps == IInv /\ Edit => IInv'
BY ReportsKept DEF IInv, TypeOK, Edit, NoRun

\* A label that moves does not change where a job ran.
LEMMA MoveLabelKeeps ==
    ASSUME NEW label \in Labels
    PROVE  IInv /\ MoveLabel(label) => IInv'
<1> SUFFICES ASSUME IInv, MoveLabel(label) PROVE IInv'
  OBVIOUS
<1>1. PICK machine \in Images[label] : runner' = [runner EXCEPT ![label] = machine]
  BY DEF MoveLabel
<1>2. runner' \in Runners
  BY <1>1 DEF IInv, TypeOK, Runners, Machines
<1>3. JobsReport'
  BY ReportsKept DEF IInv, MoveLabel
<1> QED
  BY <1>2, <1>3 DEF IInv, TypeOK, MoveLabel, NoRun

\* A new run starts with nothing reported.
LEMMA PushKeeps == IInv /\ Push => IInv'
<1> SUFFICES ASSUME IInv, Push PROVE IInv'
  OBVIOUS
<1>1. Queued \in Jobs
  BY DEF Queued, Jobs
<1>2. TypeOK'
  BY <1>1 DEF IInv, TypeOK, Push
<1>3. \A entry \in DOMAIN run'.jobs : run'.jobs[entry].job # "succeeded"
  BY DEF Push, Queued
<1>4. verified' = {}
  BY DEF Push
<1>5. JobsReport'
  BY <1>3, <1>4 DEF JobsReport
<1> QED
  BY <1>2, <1>5 DEF IInv
-----------------------------------------------------------------------------
\* The steps of a job.  There is a run, and none of them changes its workflow.
LEMMA JobSteps ==
    ASSUME IInv, NEW entry \in DOMAIN run.jobs
    PROVE  /\ run # NoRun
           /\ run.of \in Workflows /\ run.jobs \in [run.of.matrix -> Jobs]
           /\ entry \in Entries
BY DEF IInv, TypeOK, NoRun

\* A job that does not report success leaves what the others have reported.
LEMMA UnreportedKept ==
    ASSUME IInv, NEW entry \in DOMAIN run.jobs, NEW job \in Jobs,
           job.job # "succeeded" \/ ~Effective(run.of),
           run' = [run EXCEPT !.jobs[entry] = job],
           UNCHANGED <<workflow, runner, verified>>
    PROVE  IInv'
<1>1. /\ run.of \in Workflows /\ run.jobs \in [run.of.matrix -> Jobs]
      /\ run # NoRun
  BY JobSteps
<1>2. /\ run'.of = run.of
      /\ run'.jobs = [run.jobs EXCEPT ![entry] = job]
  BY <1>1 DEF IInv, TypeOK
<1>3. TypeOK'
  BY <1>1, <1>2 DEF IInv, TypeOK
<1>4. run' # NoRun
  <2>1. entry \in DOMAIN run'.jobs
    BY <1>1, <1>2
  <2> QED
    BY <2>1 DEF NoRun
<1>5. ASSUME Effective(run'.of), NEW e \in DOMAIN run'.jobs, run'.jobs[e].job = "succeeded"
      PROVE  \E machine \in verified' : machine.os = e[2] /\ machine.arch = e[3]
  <2>1. Effective(run.of)
    BY <1>2, <1>5
  <2>2. e # entry /\ e \in DOMAIN run.jobs /\ run.jobs[e].job = "succeeded"
    BY <1>1, <1>2, <1>5, <2>1
  <2> QED
    BY <1>1, <2>1, <2>2 DEF IInv, JobsReport
<1>6. verified' # {} => Effective(run'.of)
  BY <1>2 DEF IInv, JobsReport
<1> QED
  BY <1>3, <1>4, <1>5, <1>6 DEF IInv, JobsReport

\* A job that starts has reported nothing yet.
LEMMA StartJobKeeps ==
    ASSUME IInv, NEW entry \in DOMAIN run.jobs, StartJob(entry)
    PROVE  IInv'
<1> DEFINE job == [job |-> "running", on |-> runner[entry[1]]]
<1>1. entry[1] \in Labels
  BY JobSteps
<1>2. runner[entry[1]] \in Machines
  BY <1>1 DEF IInv, TypeOK, Runners, Machines
<1>3. job \in Jobs
  BY <1>2 DEF Jobs
<1> QED
  BY <1>3, UnreportedKept DEF StartJob

\* A failed job reports success only where failures are ignored.
LEMMA JobFailsKeeps ==
    ASSUME IInv, NEW entry \in DOMAIN run.jobs, JobFails(entry)
    PROVE  IInv'
<1> DEFINE outcome == IF HasSetting("continue-on-error") THEN "succeeded" ELSE "failed"
           job == [run.jobs[entry] EXCEPT !.job = outcome]
<1>1. run.jobs[entry] \in Jobs /\ run.jobs[entry].job = "running"
  BY JobSteps DEF JobFails, Is
<1>2. job \in Jobs /\ job.job = outcome
  BY <1>1 DEF Jobs
<1>3. run' = [run EXCEPT !.jobs[entry] = job]
  BY <1>1 DEF JobFails, Becomes
<1>4. outcome # "succeeded" \/ ~Effective(run.of)
  BY DEF HasSetting, Effective
<1> QED
  BY <1>2, <1>3, <1>4, UnreportedKept DEF JobFails

\* Under an effective workflow success is a gate that passed on the target of
\* the entry, and a gate passes under no other workflow.
LEMMA JobSucceedsKeeps ==
    ASSUME IInv, NEW entry \in DOMAIN run.jobs, JobSucceeds(entry)
    PROVE  IInv'
<1> DEFINE job == [run.jobs[entry] EXCEPT !.job = "succeeded"]
           machine == run.jobs[entry].on
<1>1. /\ run # NoRun /\ entry \in Entries
      /\ run.of \in Workflows /\ run.jobs \in [run.of.matrix -> Jobs]
      /\ run.jobs[entry] \in Jobs /\ run.jobs[entry].job = "running"
  BY JobSteps DEF JobSucceeds, Is
<1>2. /\ job \in Jobs /\ job.job = "succeeded" /\ machine \in Machines
      /\ run' = [run EXCEPT !.jobs[entry] = job]
  BY <1>1 DEF Jobs, JobSucceeds, Becomes
<1>3. CASE ~HasSetting("tools/verify.py --runtime")
  <2>1. ~Effective(run.of)
    BY <1>3 DEF HasSetting, Effective
  <2>2. UNCHANGED <<workflow, runner, verified>>
    BY <1>3 DEF JobSucceeds
  <2> QED
    BY <1>1, <1>2, <2>1, <2>2, UnreportedKept
<1>4. CASE HasSetting("tools/verify.py --runtime")
  <2>1. GateStarts(entry) /\ verified' = verified \cup {machine}
    BY <1>4 DEF JobSucceeds
  <2>2. Effective(run.of)
    BY <2>1, AcceptedIsEffective DEF GateStarts
  <2>3. ExpectedOs(entry) = entry[2] /\ ExpectedArch(entry) = entry[3]
    BY <2>2 DEF Effective, HasSetting, ExpectedOs, ExpectedArch
  <2>4. machine.os = entry[2] /\ machine.arch = entry[3]
    BY <1>1, <2>1, <2>3, DetectsTheTarget DEF GateStarts
  <2>5. /\ run'.of = run.of /\ run'.jobs = [run.jobs EXCEPT ![entry] = job]
        /\ UNCHANGED <<workflow, runner>>
    <3> HIDE DEF job
    <3>1. run'.of = run.of /\ run'.jobs = [run.jobs EXCEPT ![entry] = job]
      BY <1>1, <1>2 DEF IInv, TypeOK
    <3>2. UNCHANGED <<workflow, runner>>
      BY DEF JobSucceeds
    <3> QED
      BY <3>1, <3>2
  <2>6. run' # NoRun
    <3>1. entry \in DOMAIN run'.jobs
      BY <1>1, <2>5
    <3> QED
      BY <3>1 DEF NoRun
  <2>7. TypeOK'
    BY <1>1, <1>2, <2>1, <2>5 DEF IInv, TypeOK
  <2>8. ASSUME NEW e \in DOMAIN run'.jobs, run'.jobs[e].job = "succeeded"
        PROVE  \E m \in verified' : m.os = e[2] /\ m.arch = e[3]
    <3>1. CASE e = entry
      BY <2>1, <2>4, <3>1
    <3>2. CASE e # entry
      <4>1. e \in DOMAIN run.jobs /\ run.jobs[e].job = "succeeded"
        BY <1>1, <2>5, <2>8, <3>2
      <4> QED
        BY <1>1, <2>1, <2>2, <4>1 DEF IInv, JobsReport
    <3> QED
      BY <3>1, <3>2
  <2> QED
    BY <2>2, <2>5, <2>6, <2>7, <2>8 DEF IInv, JobsReport
<1> QED
  BY <1>3, <1>4

\* The jobs that are not run again keep what they reported.
LEMMA RerunKeeps ==
    ASSUME IInv, Rerun
    PROVE  IInv'
<1> DEFINE jobs == [entry \in DOMAIN run.jobs |->
                      IF Is(entry, "failed") THEN Queued ELSE run.jobs[entry]]
<1>1. PICK entry \in DOMAIN run.jobs : Is(entry, "failed")
  BY DEF Rerun
<1>2. /\ run # NoRun
      /\ run.of \in Workflows /\ run.jobs \in [run.of.matrix -> Jobs]
  BY <1>1, JobSteps
<1>3. run'.of = run.of /\ run'.jobs = jobs /\ UNCHANGED <<workflow, runner, verified>>
  BY <1>2 DEF IInv, TypeOK, Rerun
<1>4. TypeOK'
  BY <1>2, <1>3 DEF IInv, TypeOK, Queued, Jobs
<1>5. run' # NoRun
  <2>1. entry \in DOMAIN run'.jobs
    BY <1>1, <1>3
  <2> QED
    BY <2>1 DEF NoRun
<1>6. ASSUME NEW e \in DOMAIN run'.jobs, run'.jobs[e].job = "succeeded"
      PROVE  e \in DOMAIN run.jobs /\ run.jobs[e].job = "succeeded"
  BY <1>3, <1>6 DEF Queued
<1> QED
  BY <1>2, <1>3, <1>4, <1>5, <1>6 DEF IInv, JobsReport

-----------------------------------------------------------------------------
\* Every step keeps the invariant.
LEMMA Inductive == IInv /\ [Next]_vars => IInv'
<1> SUFFICES ASSUME IInv, [Next]_vars PROVE IInv'
  OBVIOUS
<1>1. CASE Edit
  BY <1>1, EditKeeps
<1>2. CASE Push
  BY <1>2, PushKeeps
<1>3. CASE Rerun
  BY <1>3, RerunKeeps
<1>4. ASSUME NEW label \in Labels, MoveLabel(label) PROVE IInv'
  BY <1>4, MoveLabelKeeps
<1>5. ASSUME NEW entry \in DOMAIN run.jobs,
             StartJob(entry) \/ JobSucceeds(entry) \/ JobFails(entry)
      PROVE  IInv'
  BY <1>5, StartJobKeeps, JobSucceedsKeeps, JobFailsKeeps
<1>6. CASE UNCHANGED vars
  BY <1>6, ReportsKept DEF IInv, TypeOK, vars, NoRun
<1> QED
  BY <1>1, <1>2, <1>3, <1>4, <1>5, <1>6 DEF Next

\* The jobs of a run that succeeded stand for every target.
LEMMA CoverageFollows == IInv => HostedCoverage
<1> SUFFICES ASSUME IInv, RunSucceeded, verified # {}, NEW target \in SUPPORTED_TARGETS
             PROVE  target \in {<<machine.os, machine.arch>> : machine \in verified}
  BY DEF HostedCoverage
<1>1. /\ run # NoRun /\ Effective(run.of)
      /\ run.jobs \in [run.of.matrix -> Jobs]
  BY DEF IInv, TypeOK, JobsReport
<1>2. PICK entry \in RUNNERS : entry[2] = target[1] /\ entry[3] = target[2]
  BY RunnersCoverTargets
<1>3. entry \in DOMAIN run.jobs /\ run.jobs[entry].job = "succeeded"
  BY <1>1, <1>2 DEF Effective, RunSucceeded, Is
<1>4. PICK machine \in verified : machine.os = target[1] /\ machine.arch = target[2]
  BY <1>1, <1>2, <1>3 DEF IInv, JobsReport
<1>5. target = <<target[1], target[2]>>
  BY DEF SUPPORTED_TARGETS
<1> QED
  BY <1>4, <1>5

\* The workflow, the labels, the run and what it verified keep their types.
THEOREM TypeCorrect == Spec => []TypeOK
<1>1. IInv => TypeOK
  BY DEF IInv
<1> QED
  BY <1>1, Initially, Inductive, PTL DEF Spec

\* A hosted run that succeeds, and in which any gate passed, verified every
\* supported target (ci_contract.py:22-55, host.py:61-66), whatever the labels
\* stand for, in however many attempts.
THEOREM CoverageOfTargets == Spec => []HostedCoverage
BY Initially, Inductive, CoverageFollows, PTL DEF Spec
=============================================================================
