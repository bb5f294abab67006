---------------------------- MODULE JobLifecycle ----------------------------
(***************************************************************************)
(* One Job under every sequence of method calls that the aggregate accepts.*)
(* The use cases call these methods in many orders (a cancel can arrive    *)
(* between any two stages, a crash after any commit, a retry from any      *)
(* stage), and the aggregate alone must keep the stage table and the       *)
(* status of the Job consistent with each other.                           *)
(***************************************************************************)
EXTENDS JobAggregate

VARIABLE job

Init == job = NewJob

StartJob == CanStart(job) /\ job' = Start(job)

BeginStage == \E k \in Stages : /\ CanEnterStage(job, k)
                                /\ job' = StartStage(job, k)

PassOverStage == \E k \in Stages : /\ CanEnterStage(job, k)
                                   /\ job' = SkipStage(job, k)

CommitStage ==
    \E k \in Stages, a \in Artifacts, degraded \in BOOLEAN :
        /\ CanCompleteStage(job, k)
        /\ job' = CompleteStage(job, k, a, degraded)

BreakStage == \E k \in Stages : /\ CanFailStage(job, k)
                                /\ job' = FailStage(job, k)

FinishJob == CanFinish(job) /\ job' = Finish(job)

CancelJob == CanCancel(job) /\ job' = Cancel(job)

AskCancel == job' = RequestCancel(job)

FailJob == job' = Fail(job)

RecoverJob == job' = Recover(job)

LoseArtifact == \E k \in Stages : job' = InvalidateStage(job, k)

RetryNamedStage == \E k \in Stages : /\ CanRetry(job)
                                     /\ job' = Retry(job, k)

RetryFirstUnfinished == \E k \in Stages : /\ CanRetry(job)
                                          /\ FirstUnfinished(job, k)
                                          /\ job' = Retry(job, k)

ReviseArtifact == \E k \in Stages, a \in Artifacts :
                      /\ CanRevise(job, k)
                      /\ job' = Revise(job, k, a)

Next == \/ StartJob \/ BeginStage \/ PassOverStage \/ CommitStage
        \/ BreakStage \/ FinishJob \/ CancelJob \/ AskCancel \/ FailJob
        \/ RecoverJob \/ LoseArtifact \/ RetryNamedStage
        \/ RetryFirstUnfinished \/ ReviseArtifact

Spec == Init /\ [][Next]_job

-----------------------------------------------------------------------------
(* Properties. *)

\* Every field keeps its type.
TypeOK == job \in Job

\* A stage that runs or has a result stands on results: every earlier stage
\* is Done, DoneDegraded or Skipped, whatever was cancelled, retried from a
\* named stage or invalidated on the way.
StandsOnResults == StageOrderOK(job)

\* Success is never announced for a Job that lacks a result, and it is
\* announced as degraded exactly when some stage was: the other branches of
\* finish() cannot be reached by a Job that was failed, cancelled and retried.
HonestSuccess == SuccessOK(job)

\* All of it together, with the fact that makes it inductive: finish() is
\* honest because a Job that may still run never has its last stage failed or
\* cancelled.
JobInv == JobOK(job)

ReopenStep ==
    \A k \in Stages :
        job.stage[k] \in StageTerminal /\ job'.stage[k] = "Pending" =>
            \A i \in k .. StageCount :
                job'.stage[i] = "Pending" /\ job'.artifact[i] = NoArtifact

\* When a stage that was over becomes Pending again, so does every later one,
\* with its artifact dropped: no result derived from the old one survives.
ReopenDropsDependents == [][ReopenStep]_job

CancelIntentStep ==
    job.cancel_requested /\ ~job'.cancel_requested =>
        /\ job.status \in {"Failed", "DoneDegraded", "Cancelled"}
        /\ job'.status = "Pending"

\* A durable cancellation intent is dropped only by a retry of a Job that had
\* ended; neither the recovery nor anything the owner does forgets it.
CancelIntentSurvives == [][CancelIntentStep]_job

-----------------------------------------------------------------------------
(* The Job implements JobProgress.                                         *)

Satisfied == {k \in Stages : job.stage[k] \in StageSatisfied}
DegradedStages == {k \in Stages : job.stage[k] = "DoneDegraded"}

Promise == INSTANCE JobProgress WITH
    StageCount <- StageCount,
    finished <- Satisfied,
    degraded <- DegradedStages,
    outcome <- IF IsTerminal(job) THEN job.status ELSE "Open"

\* Seen through the stages that have a result and the outcome, every method
\* call is a step of JobProgress or invisible.
KeepsPromise == Promise!Spec

=============================================================================
