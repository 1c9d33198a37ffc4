-------------------------- MODULE ReleasePipeline ---------------------------
(***************************************************************************)
(* The release pipeline of infra/: CodePipeline runs take a commit through *)
(* Infra, Build, Deploy and Verify (pipeline_stack.py and the buildspecs), *)
(* and ECS starts tasks for the service that stack.py defines.             *)
(*                                                                         *)
(* Run r releases the r-th commit pushed to main; 0 is the commit that     *)
(* "deploy.sh all" brought up.  An image is the commit it was built from.  *)
(* A run is at a stage, or at the gate before it.                          *)
(***************************************************************************)
EXTENDS Naturals

CONSTANTS
    MaxRun,       \* bound: pushes to the release branch
    Template,     \* the infra/ revision of each commit
    Broken,       \* commits whose image never answers /health
    GitMetadata,  \* CodeBuild sees .git, so that the diff of infra/ can be asked
    MaxFaults,    \* bound: failing builds, CDK deploys and checks, dying tasks
    NoTask        \* no task

Run == 1 .. MaxRun
Commit == 0 .. MaxRun
Task == [img : Commit, td : Nat]

ASSUME BoundAssumption == MaxRun \in Nat /\ MaxFaults \in Nat
ASSUME CommitAssumption == Template \in [Commit -> Nat] /\ Broken \subseteq Run
ASSUME HistoryAssumption ==
    \A a, b \in Commit : a <= b => Template[a] <= Template[b]
ASSUME TaskAssumption == NoTask \notin Task

VARIABLES
    at,        \* where each run is
    stack,     \* CloudFormation: the template deployed last
    td,        \* ECS service: its task definition
    desired,   \* ECS service: the number of tasks it should have
    rollout,   \* ECS service: a task is to be started
    next,      \* ECS: the task that was started and is not yet in service
    task,      \* ECS: the task the load balancer sends requests to
    latest,    \* ECR: the image tagged latest
    meta,      \* artifact DeployMeta: previous_task_definition_arn of each run
    faults,    \* failures so far
    verified,  \* history: the task that each run's smoke test found healthy
    scaler,    \* history: the run that scaled the service to zero last
    top        \* history: the newest image that has been in service

serviceVars == <<td, desired, rollout, next, task, top>>
historyVars == <<verified, scaler>>
vars == <<at, stack, td, desired, rollout, next, task, latest, meta, faults,
          verified, scaler, top>>

Gates == {"toInfra", "toBuild", "toDeploy", "toVerify"}
Ended == {"failed", "succeeded", "rolledback", "superseded"}
StageOf(gate) == CASE gate = "toInfra"  -> {"Infra"}
                   [] gate = "toBuild"  -> {"Build"}
                   [] gate = "toDeploy" -> {"Deploy", "Update", "Rollout"}
                   [] gate = "toVerify" -> {"Verify", "Rollback"}
FirstOf(gate) == CASE gate = "toInfra" -> "Infra" [] gate = "toBuild" -> "Build"
                   [] gate = "toDeploy" -> "Deploy" [] gate = "toVerify" -> "Verify"

Init ==
    /\ at = [r \in Run |-> "unborn"]
    /\ stack = [count |-> 1, td |-> Template[0]]
    /\ td = Template[0]
    /\ desired = 1
    /\ rollout = FALSE
    /\ next = NoTask
    /\ task = [img |-> 0, td |-> Template[0]]
    /\ latest = 0
    /\ meta = [r \in Run |-> 0]
    /\ faults = 0
    /\ verified = [r \in Run |-> NoTask]
    /\ scaler = 0
    /\ top = 0

-----------------------------------------------------------------------------
(* CodePipeline.                                                           *)

Goto(r, place) == at' = [at EXCEPT ![r] = place]
Fault == faults < MaxFaults /\ faults' = faults + 1

\* Run r comes to a gate; in SUPERSEDED mode it replaces a run waiting there.
Arrive(r, gate) ==
    at' = [q \in Run |-> IF q = r THEN gate
                         ELSE IF at[q] = gate THEN "superseded" ELSE at[q]]

\* A push to the release branch triggers a run; Source hands on its commit.
Push(r) ==
    /\ at[r] = "unborn"
    /\ \A q \in Run : q < r => at[q] # "unborn"
    /\ Arrive(r, "toInfra")
    /\ UNCHANGED <<stack, serviceVars, latest, meta, faults, historyVars>>

\* Fault form: stages take runs in parallel.
EnterUnlocked(r) == \E gate \in Gates :
    /\ at[r] = gate
    /\ Goto(r, FirstOf(gate))
    /\ UNCHANGED <<stack, serviceVars, latest, meta, faults, historyVars>>

\* A stage works on one run at a time.
Enter(r) == \E gate \in Gates :
    /\ at[r] = gate
    /\ \A q \in Run : at[q] \notin StageOf(gate)
    /\ Goto(r, FirstOf(gate))
    /\ UNCHANGED <<stack, serviceVars, latest, meta, faults, historyVars>>

-----------------------------------------------------------------------------
(* Infra.                                                                  *)

\* The template of a commit: the pipeline always asks for no task.
Wanted(r) == [count |-> 0, td |-> Template[r]]

\* No .git in the source artifact counts as "infra/ changed".
RunsCdk(r) == ~GitMetadata \/ Template[r] # Template[r - 1]

\* Nothing to deploy: the commit is skipped or the template is as it was.
InfraUnchanged(r) ==
    /\ at[r] = "Infra"
    /\ ~RunsCdk(r) \/ stack = Wanted(r)
    /\ Arrive(r, "toBuild")
    /\ UNCHANGED <<stack, serviceVars, latest, meta, faults, historyVars>>

\* cdk deploy: the service gets the task definition and is scaled to zero.
InfraDeploy(r) ==
    /\ at[r] = "Infra"
    /\ RunsCdk(r) /\ stack # Wanted(r)
    /\ stack' = Wanted(r)
    /\ td' = Template[r]
    /\ desired' = 0
    /\ rollout' = FALSE
    /\ next' = NoTask
    /\ task' = NoTask
    /\ scaler' = r
    /\ Arrive(r, "toBuild")
    /\ UNCHANGED <<latest, meta, faults, verified, top>>

\* cdk deploy fails midway: CloudFormation goes back to the template before, whose
\* number of tasks is zero after the first pipeline run.
InfraGoesBack(r) ==
    /\ at[r] = "Infra"
    /\ RunsCdk(r) /\ stack # Wanted(r)
    /\ Fault
    /\ td' = stack.td
    /\ desired' = stack.count
    /\ rollout' = (stack.count = 1)
    /\ next' = NoTask
    /\ task' = NoTask
    /\ scaler' = r
    /\ Goto(r, "failed")
    /\ UNCHANGED <<stack, latest, meta, verified, top>>

\* A command fails and changes nothing: the stages up to the rollout run under
\* set -e; in Verify it is the rollback that cannot be started.
StageFails(r) ==
    /\ at[r] \in {"Infra", "Build", "Deploy", "Update", "Verify"}
    /\ Fault
    /\ Goto(r, "failed")
    /\ UNCHANGED <<stack, serviceVars, latest, meta, historyVars>>

-----------------------------------------------------------------------------
(* Build and Deploy.                                                       *)

\* Fault form: the branch is built a commit ahead of the run.
BuildAhead(r) ==
    /\ at[r] = "Build"
    /\ latest' = r + 1
    /\ Arrive(r, "toDeploy")
    /\ UNCHANGED <<stack, serviceVars, meta, faults, historyVars>>

\* docker build and push: the commit's tag, which no one reads, and latest.
BuildImage(r) ==
    /\ at[r] = "Build"
    /\ latest' = r
    /\ Arrive(r, "toDeploy")
    /\ UNCHANGED <<stack, serviceVars, meta, faults, historyVars>>

\* The task definition in force is recorded as the rollback target.
Capture(r) ==
    /\ at[r] = "Deploy"
    /\ meta' = [meta EXCEPT ![r] = td]
    /\ Goto(r, "Update")
    /\ UNCHANGED <<stack, serviceVars, latest, faults, historyVars>>

\* Fault form: the service is restarted without --desired-count 1.
UpdateServiceOnly(r) ==
    /\ at[r] = "Update"
    /\ rollout' = TRUE
    /\ next' = NoTask
    /\ Goto(r, "Rollout")
    /\ UNCHANGED <<stack, td, desired, task, top, latest, meta, faults, historyVars>>

\* update-service asks for one task of a new deployment.
UpdateService(r) ==
    /\ at[r] = "Update"
    /\ desired' = 1
    /\ rollout' = TRUE
    /\ next' = NoTask
    /\ Goto(r, "Rollout")
    /\ UNCHANGED <<stack, td, task, top, latest, meta, faults, historyVars>>

\* One deployment, and as many running tasks as desired, healthy or not.
Stable == desired = 1 => ~rollout /\ (task = NoTask) # (next = NoTask)

\* Fault form: the stage does not wait for the rollout.
DeployedAtOnce(r) ==
    /\ at[r] = "Rollout"
    /\ Arrive(r, "toVerify")
    /\ UNCHANGED <<stack, serviceVars, latest, meta, faults, historyVars>>

\* aws ecs wait services-stable returns.
Deployed(r) ==
    /\ at[r] = "Rollout"
    /\ Stable
    /\ Arrive(r, "toVerify")
    /\ UNCHANGED <<stack, serviceVars, latest, meta, faults, historyVars>>

\* Fault form: the wait gives up only when a task is being started.
DeployTimesOutStarting(r) ==
    /\ at[r] = "Rollout"
    /\ rollout
    /\ Goto(r, "failed")
    /\ UNCHANGED <<stack, serviceVars, latest, meta, faults, historyVars>>

\* ... or gives up; the deployment it waited for goes on.
DeployTimesOut(r) ==
    /\ at[r] = "Rollout"
    /\ ~Stable
    /\ Goto(r, "failed")
    /\ UNCHANGED <<stack, serviceVars, latest, meta, faults, historyVars>>

-----------------------------------------------------------------------------
(* ECS.                                                                    *)

\* A task of the service's definition runs the image that is latest by now.
StartTask ==
    /\ rollout /\ desired = 1
    /\ next' = [img |-> latest, td |-> td]
    /\ rollout' = FALSE
    /\ UNCHANGED <<at, stack, td, desired, task, top, latest, meta, faults, historyVars>>

\* The health checks pass: the task takes over from the one in service.
TakeOver ==
    /\ next # NoTask
    /\ next.img \notin Broken
    /\ task' = next
    /\ next' = NoTask
    /\ top' = IF next.img > top THEN next.img ELSE top
    /\ UNCHANGED <<at, stack, td, desired, rollout, latest, meta, faults, historyVars>>

\* The health checks fail: with no circuit breaker ECS tries again, for ever.
Replace ==
    /\ next # NoTask
    /\ next.img \in Broken
    /\ next' = NoTask
    /\ rollout' = TRUE
    /\ UNCHANGED <<at, stack, td, desired, task, top, latest, meta, faults, historyVars>>

\* The task in service dies and is replaced.
TaskDies ==
    /\ task # NoTask
    /\ Fault
    /\ task' = NoTask
    /\ rollout' = (rollout \/ next = NoTask)
    /\ UNCHANGED <<at, stack, td, desired, next, top, latest, meta, historyVars>>

-----------------------------------------------------------------------------
(* Verify.                                                                 *)

\* GET /health answers through the load balancer.  The other blocking check
\* cannot fail: curl prints 000 for no answer and "|| echo 0" makes it 0000.
VerifyPasses(r) ==
    /\ at[r] = "Verify"
    /\ task # NoTask
    /\ verified' = [verified EXCEPT ![r] = task]
    /\ Goto(r, "succeeded")
    /\ UNCHANGED <<stack, serviceVars, latest, meta, faults, scaler>>

\* /health fails: update-service to the recorded task definition.
VerifyFails(r) ==
    /\ at[r] = "Verify"
    /\ \/ task = NoTask /\ UNCHANGED faults
       \/ Fault
    /\ td' = meta[r]
    /\ rollout' = TRUE
    /\ next' = NoTask
    /\ Goto(r, "Rollback")
    /\ UNCHANGED <<stack, desired, task, top, latest, meta, historyVars>>

\* The wait for the rollback ends, stable or not, and the run fails.
RolledBack(r) ==
    /\ at[r] = "Rollback"
    /\ Goto(r, "rolledback")
    /\ UNCHANGED <<stack, serviceVars, latest, meta, faults, historyVars>>

-----------------------------------------------------------------------------

Step(r) ==
    \/ Enter(r)
    \/ InfraUnchanged(r) \/ InfraDeploy(r) \/ BuildImage(r)
    \/ Capture(r) \/ UpdateService(r) \/ Deployed(r) \/ DeployTimesOut(r)
    \/ VerifyPasses(r) \/ VerifyFails(r) \/ RolledBack(r)

Ecs == StartTask \/ TakeOver \/ Replace

Next ==
    \/ \E r \in Run : Push(r) \/ Step(r) \/ InfraGoesBack(r) \/ StageFails(r)
    \/ Ecs
    \/ TaskDies

Spec == Init /\ [][Next]_vars

(* Fairness: CodePipeline moves every run on and ECS its deployments.      *)
FairSpec == Spec /\ WF_vars(Ecs) /\ \A r \in Run : WF_vars(Step(r))

-----------------------------------------------------------------------------
(* Properties.                                                             *)

Place == {"unborn", "Infra", "Build", "Deploy", "Update", "Rollout",
          "Verify", "Rollback"} \cup Gates \cup Ended

\* Every variable has its type.
TypeOK ==
    /\ at \in [Run -> Place]
    /\ stack \in [count : {0, 1}, td : Nat]
    /\ td \in Nat
    /\ desired \in {0, 1}
    /\ rollout \in BOOLEAN
    /\ next \in Task \cup {NoTask}
    /\ task \in Task \cup {NoTask}
    /\ latest \in Commit
    /\ meta \in [Run -> Nat]
    /\ faults \in 0 .. MaxFaults
    /\ verified \in [Run -> Task \cup {NoTask}]
    /\ scaler \in Commit
    /\ top \in Commit

\* A run that succeeded has verified its own image or one of a later commit,
\* though Deploy names no image and later runs push over latest meanwhile.
VerifiesItself == \A r \in Run :
    at[r] = "succeeded" => verified[r] # NoTask /\ verified[r].img >= r

\* No verification has failed, and Infra asks CloudFormation on every run.
Clean == ~GitMetadata /\ \A r \in Run : at[r] \notin {"Rollback", "rolledback"}

\* While no verification has failed, it ran under the commit's own template or
\* a later one; the rollback of an earlier run can take the template away.
VerifiesTemplate == Clean =>
    \A r \in Run : at[r] = "succeeded" => verified[r].td >= Template[r]

\* Production is left at zero tasks only by a run that has not come to its
\* rollout, and may not: one that failed or was superseded leaves it there.
DownUntilDeploy ==
    desired = 0 => at[scaler] \in
        {"toBuild", "Build", "toDeploy", "Deploy", "Update", "failed", "superseded"}

\* No image older than one that has been in service is put in service again,
\* by a rollback neither.
NeverGoesBack == [][task' # task /\ task' # NoTask => task'.img >= top]_vars

\* The image of the task x.
Image(x) == IF x = NoTask THEN {} ELSE {x.img}
Line == INSTANCE ReleaseLine WITH
    published <- latest, newest <- top,
    trial <- Image(next), serving <- Image(task),
    green <- {r \in Run : at[r] = "succeeded"}

\* Whatever overlaps, fails, is superseded or rolled back, releases are published
\* and turn green in the order of their commits, and production goes forward.
ImplementsReleaseLine == Line!Spec

\* Every run that is triggered comes to an end.
RunsEnd == \A r \in Run : at[r] # "unborn" ~> at[r] \in Ended

\* A failed verification puts another image in service than the refused one.
RollbackRestores == \A r \in Run :
    at[r] = "rolledback" /\ Stable /\ next # NoTask => next.img # r
=============================================================================
