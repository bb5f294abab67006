------------------------- MODULE JobLifecycleProofs -------------------------
(***************************************************************************)
(* A Job is consistent after every sequence of method calls, for every     *)
(* number of stages, set of artifacts and bound of the generation counter. *)
(***************************************************************************)
EXTENDS JobLifecycle, TLAPS

-----------------------------------------------------------------------------
(* Every method of the Job aggregate keeps JobOK: one lemma per method. *)

\* A fresh Job is consistent.
LEMMA NewJobOK == JobOK(NewJob)
<1> USE JobAssumption DEF StageSatisfied, StageTerminal, JobTerminal
<1>1. NewJob \in Job
  BY DEF NewJob, Job, StageStatus, JobStatus
<1> QED BY <1>1 DEF JobOK, NewJob, Stages, StageOrderOK, LastStageOK, SuccessOK,
                    EndOK, ReferenceOK, IsTerminal

\* start() of a Pending Job.
LEMMA StartOK == ASSUME NEW j, JobOK(j), CanStart(j) PROVE JobOK(Start(j))
<1>1. Start(j) \in Job
  BY DEF JobOK, Start, Job, JobStatus
<1> QED BY <1>1 DEF JobOK, Start, CanStart, Job, StageOrderOK, LastStageOK,
                    SuccessOK, EndOK, ReferenceOK, IsTerminal, JobTerminal

\* start_stage() opens a stage whose predecessors all have results.
LEMMA StartStageOK ==
    ASSUME NEW j, JobOK(j), NEW k \in Stages, CanEnterStage(j, k)
    PROVE  JobOK(StartStage(j, k))
<1> DEFINE n == StartStage(j, k)
<1> USE DEF JobOK, StartStage, CanEnterStage
<1>1. n \in Job
  BY DEF Job, StageStatus
<1>2. \A i \in 1 .. k - 1 : j.stage[i] \in StageSatisfied
  BY JobAssumption DEF PrerequisiteMet, StageOrderOK, Stages, Job
<1>3. StageOrderOK(n)
  BY <1>2, JobAssumption DEF Job, StageOrderOK, StageSatisfied, Stages
<1>4. LastStageOK(n)
  BY DEF Job, LastStageOK, IsTerminal, StageTerminal, StageSatisfied
<1>5. SuccessOK(n) /\ EndOK(n) /\ ReferenceOK(n)
  BY DEF Job, SuccessOK, EndOK, ReferenceOK, IsTerminal, JobTerminal
<1> QED BY <1>1, <1>3, <1>4, <1>5

\* skip_stage() under the same conditions.
LEMMA SkipStageOK ==
    ASSUME NEW j, JobOK(j), NEW k \in Stages, CanEnterStage(j, k)
    PROVE  JobOK(SkipStage(j, k))
<1> DEFINE n == SkipStage(j, k)
<1> USE DEF JobOK, SkipStage, CanEnterStage
<1>1. n \in Job
  BY DEF Job, StageStatus, StageTerminal, StageSatisfied
<1>2. \A i \in 1 .. k - 1 : j.stage[i] \in StageSatisfied
  BY JobAssumption DEF PrerequisiteMet, StageOrderOK, Stages, Job
<1>3. StageOrderOK(n)
  BY <1>2, JobAssumption DEF Job, StageOrderOK, StageSatisfied, Stages
<1>4. LastStageOK(n)
  BY DEF Job, LastStageOK, IsTerminal, StageTerminal, StageSatisfied
<1>5. SuccessOK(n) /\ EndOK(n) /\ ReferenceOK(n)
  BY DEF Job, SuccessOK, EndOK, ReferenceOK, IsTerminal, JobTerminal
<1> QED BY <1>1, <1>3, <1>4, <1>5

\* complete_stage() looks at the stage alone, not at the status of the Job.
LEMMA CompleteStageOK ==
    ASSUME NEW j, JobOK(j), NEW k \in Stages, CanCompleteStage(j, k),
           NEW a \in Artifacts, NEW degraded \in BOOLEAN
    PROVE  JobOK(CompleteStage(j, k, a, degraded))
<1> DEFINE n == CompleteStage(j, k, a, degraded)
<1> USE DEF JobOK, CompleteStage, CanCompleteStage
<1>1. n \in Job
  BY DEF Job, StageStatus, StageTerminal, StageSatisfied
<1>2. n.stage[k] \in StageSatisfied
  BY DEF Job, StageSatisfied
<1>3. ~IsTerminal(n)
  BY DEF EndOK, IsTerminal, Job
<1>4. StageOrderOK(n)
  BY <1>2, JobAssumption DEF Job, StageOrderOK, StageSatisfied, Stages
<1>5. LastStageOK(n)
  BY <1>2, <1>3, JobAssumption DEF Job, LastStageOK, IsTerminal, StageTerminal,
                                   StageSatisfied, Stages
<1>6. SuccessOK(n) /\ EndOK(n)
  BY <1>3 DEF SuccessOK, EndOK, IsTerminal, JobTerminal
<1>7. ReferenceOK(n)
  BY JobAssumption DEF Job, ReferenceOK
<1> QED BY <1>1, <1>4, <1>5, <1>6, <1>7

\* A Job has one running stage at most.
LEMMA OneRunningStage ==
    ASSUME NEW j, JobOK(j), NEW k \in Stages, NEW i \in Stages,
           j.stage[k] = "Running", j.stage[i] = "Running"
    PROVE  i = k
BY DEF JobOK, StageOrderOK, StageSatisfied, Stages

\* fail_stage() ends the Job: its only running stage is the one that failed.
LEMMA FailStageOK ==
    ASSUME NEW j, JobOK(j), NEW k \in Stages, CanFailStage(j, k)
    PROVE  JobOK(FailStage(j, k))
<1> DEFINE n == FailStage(j, k)
<1> USE DEF JobOK, FailStage, CanFailStage
<1>1. n \in Job
  BY DEF Job, StageStatus, StageTerminal, StageSatisfied, JobStatus, JobTerminal
<1>2. \A i \in Stages : n.stage[i] # "Running"
  BY OneRunningStage DEF Job
<1>3. StageOrderOK(n)
  BY DEF Job, StageOrderOK, StageSatisfied, Stages
<1>4. LastStageOK(n) /\ SuccessOK(n) /\ EndOK(n)
  BY <1>2 DEF Job, LastStageOK, SuccessOK, EndOK, IsTerminal, JobTerminal
<1>5. ReferenceOK(n)
  BY DEF Job, ReferenceOK
<1> QED BY <1>1, <1>3, <1>4, <1>5

\* All stages of a Job that may finish have results, so finish() announces
\* Done or DoneDegraded and nothing else.
LEMMA FinishIsSuccess ==
    ASSUME NEW j, JobOK(j), CanFinish(j)
    PROVE  /\ \A k \in Stages : j.stage[k] \in StageSatisfied
           /\ FinishStatus(j) = IF \E k \in Stages : j.stage[k] = "DoneDegraded"
                                THEN "DoneDegraded" ELSE "Done"
<1>1. j.stage[StageCount] \in StageSatisfied
  BY JobAssumption DEF JobOK, CanFinish, LastStageOK, IsTerminal, JobTerminal,
                       Stages
<1>2. \A k \in Stages : j.stage[k] \in StageSatisfied
  BY <1>1, JobAssumption DEF JobOK, StageOrderOK, Stages
<1>3. \A k \in Stages : j.stage[k] # "Failed" /\ j.stage[k] # "Cancelled"
  BY <1>2 DEF StageSatisfied
<1> QED BY <1>2, <1>3 DEF FinishStatus

\* finish().
LEMMA FinishOK == ASSUME NEW j, JobOK(j), CanFinish(j) PROVE JobOK(Finish(j))
<1> DEFINE n == Finish(j)
<1>1. /\ \A k \in Stages : j.stage[k] \in StageSatisfied
      /\ FinishStatus(j) = IF \E k \in Stages : j.stage[k] = "DoneDegraded"
                           THEN "DoneDegraded" ELSE "Done"
  BY FinishIsSuccess
<1>2. n = [j EXCEPT !.status = IF \E k \in Stages : j.stage[k] = "DoneDegraded"
                               THEN "DoneDegraded" ELSE "Done"]
  BY <1>1 DEF Finish
<1> HIDE DEF n
<1> USE <1>1, <1>2 DEF JobOK
<1>3. n \in Job
  BY DEF Job, JobStatus, JobTerminal
<1>4. StageOrderOK(n) /\ ReferenceOK(n)
  BY DEF Job, StageOrderOK, ReferenceOK
<1>5. LastStageOK(n) /\ SuccessOK(n)
  BY DEF Job, LastStageOK, SuccessOK, IsTerminal, JobTerminal
<1>6. EndOK(n)
  BY DEF Job, EndOK, StageSatisfied
<1> QED BY <1>3, <1>4, <1>5, <1>6 DEF Finish

\* Ending every open stage (cancel and fail) leaves nothing to run.
LEMMA EndOpenStagesType ==
    ASSUME NEW j \in Job, NEW s \in {"Cancelled", "Failed"}
    PROVE  /\ EndOpenStages(j, s) \in [Stages -> StageStatus]
           /\ \A k \in Stages :
                 /\ EndOpenStages(j, s)[k] \in StageTerminal
                 /\ EndOpenStages(j, s)[k] = j.stage[k]
                    \/ EndOpenStages(j, s)[k] = s
BY DEF EndOpenStages, Job, StageStatus, StageTerminal, StageSatisfied

LEMMA EndingOK ==
    ASSUME NEW j, JobOK(j), ~IsTerminal(j), NEW s \in {"Cancelled", "Failed"},
           NEW c \in BOOLEAN, s = "Cancelled" => c
    PROVE  JobOK([j EXCEPT !.cancel_requested = c, !.status = s,
                           !.stage = EndOpenStages(j, s)])
<1> DEFINE e == EndOpenStages(j, s)
           n == [j EXCEPT !.cancel_requested = c, !.status = s, !.stage = e]
<1> USE DEF JobOK
<1>1. /\ e \in [Stages -> StageStatus]
      /\ \A k \in Stages : /\ e[k] \in StageTerminal
                           /\ e[k] = j.stage[k] \/ e[k] = s
  BY EndOpenStagesType
<1>2. \A k \in Stages : j.stage[k] \in StageSatisfied => e[k] = j.stage[k]
  BY DEF EndOpenStages, StageTerminal
<1> HIDE DEF e
<1>3. n \in Job
  BY <1>1 DEF Job, JobStatus, JobTerminal
<1>4. StageOrderOK(n)
  <2>1. \A k \in Stages : e[k] \in StageSatisfied \union {"Running"} =>
            j.stage[k] \in StageSatisfied
    BY <1>1 DEF StageTerminal, StageSatisfied
  <2> QED BY <1>2, <2>1, JobAssumption DEF Job, StageOrderOK, Stages
<1>5. LastStageOK(n) /\ SuccessOK(n)
  BY DEF Job, LastStageOK, SuccessOK, IsTerminal, JobTerminal
<1>6. EndOK(n)
  BY <1>1 DEF Job, EndOK, StageTerminal, StageSatisfied
<1>7. ReferenceOK(n)
  BY <1>1 DEF Job, ReferenceOK, StageTerminal, StageSatisfied
<1>8. JobOK(n)
  BY <1>3, <1>4, <1>5, <1>6, <1>7
<1> QED BY <1>8 DEF e

\* cancel().
LEMMA CancelOK == ASSUME NEW j, JobOK(j), CanCancel(j) PROVE JobOK(Cancel(j))
<1>1. CASE j.status = "Cancelled"
  BY <1>1 DEF Cancel
<1>2. CASE j.status # "Cancelled"
  <2>1. ~IsTerminal(j)
    BY <1>2 DEF CanCancel
  <2> QED BY <1>2, <2>1, EndingOK DEF Cancel
<1> QED BY <1>1, <1>2

\* fail().
LEMMA FailOK == ASSUME NEW j, JobOK(j) PROVE JobOK(Fail(j))
<1>1. CASE IsTerminal(j)
  BY <1>1 DEF Fail
<1>2. CASE ~IsTerminal(j)
  <2>1. JobOK([j EXCEPT !.cancel_requested = j.cancel_requested,
                        !.status = "Failed",
                        !.stage = EndOpenStages(j, "Failed")])
    BY <1>2, EndingOK DEF JobOK, Job
  <2>2. [j EXCEPT !.cancel_requested = j.cancel_requested,
                  !.status = "Failed", !.stage = EndOpenStages(j, "Failed")]
          = Fail(j)
    BY <1>2 DEF Fail, JobOK, Job
  <2> QED BY <2>1, <2>2
<1> QED BY <1>1, <1>2

\* request_cancel().
LEMMA RequestCancelOK == ASSUME NEW j, JobOK(j) PROVE JobOK(RequestCancel(j))
BY DEF JobOK, RequestCancel, Job, StageOrderOK, LastStageOK, SuccessOK, EndOK,
       ReferenceOK, IsTerminal

\* recover_after_restart(): the running stage goes back to Pending.
LEMMA RecoverOK == ASSUME NEW j, JobOK(j) PROVE JobOK(Recover(j))
<1>1. CASE j.status # "Running"
  BY <1>1 DEF Recover
<1>2. CASE j.status = "Running"
  <2> DEFINE n == Recover(j)
  <2> USE <1>2 DEF JobOK, Recover, RequeueRunning
  <2>1. n \in Job
    BY DEF Job, JobStatus, StageStatus
  <2>2. StageOrderOK(n)
    BY JobAssumption DEF Job, StageOrderOK, StageSatisfied, Stages
  <2>3. LastStageOK(n)
    BY JobAssumption DEF Job, LastStageOK, IsTerminal, JobTerminal,
                         StageTerminal, StageSatisfied, Stages
  <2>4. SuccessOK(n) /\ EndOK(n) /\ ReferenceOK(n)
    BY DEF Job, SuccessOK, EndOK, ReferenceOK, IsTerminal, JobTerminal
  <2> QED BY <2>1, <2>2, <2>3, <2>4
<1> QED BY <1>1, <1>2

\* Resetting a suffix of the stages, whatever the Job went through before.
LEMMA ResetFromOK ==
    ASSUME NEW j, JobOK(j), NEW k \in Stages
    PROVE  JobOK(ResetFrom(j, k))
<1> DEFINE n == ResetFrom(j, k)
<1> USE DEF JobOK, ResetFrom
<1>1. n \in Job
  BY DEF Job, JobStatus, StageStatus
<1>2. StageOrderOK(n)
  BY JobAssumption DEF Job, StageOrderOK, StageSatisfied, Stages
<1>3. LastStageOK(n)
  BY JobAssumption DEF Job, LastStageOK, StageTerminal, StageSatisfied, Stages
<1>4. SuccessOK(n) /\ EndOK(n) /\ ReferenceOK(n)
  BY DEF Job, SuccessOK, EndOK, ReferenceOK, IsTerminal, JobTerminal
<1> QED BY <1>1, <1>2, <1>3, <1>4

\* invalidate_stage_for_recovery() of any Job, terminal or not.
LEMMA InvalidateStageOK ==
    ASSUME NEW j, JobOK(j), NEW k \in Stages
    PROVE  JobOK(InvalidateStage(j, k))
BY ResetFromOK DEF InvalidateStage

\* prepare_retry() from any stage.
LEMMA RetryOK ==
    ASSUME NEW j, JobOK(j), NEW k \in Stages
    PROVE  JobOK(Retry(j, k))
<1> DEFINE r == ResetFrom(j, k)
           g == NextGeneration(r.retry_generation)
<1>1. JobOK(r) /\ r.status = "Pending"
  BY ResetFromOK DEF ResetFrom, JobOK, Job
<1>2. Retry(j, k) = [r EXCEPT !.cancel_requested = FALSE,
                              !.retry_generation = g]
  BY DEF Retry
<1> HIDE DEF r
<1>3. g \in 0 .. MaxGeneration
  BY <1>1, JobAssumption DEF JobOK, Job, NextGeneration
<1> HIDE DEF g
<1> QED BY <1>1, <1>2, <1>3 DEF JobOK, Job, StageOrderOK, LastStageOK, SuccessOK,
                          EndOK, ReferenceOK, IsTerminal, JobTerminal

\* record_transcript_revision().
LEMMA ReviseOK ==
    ASSUME NEW j, JobOK(j), NEW k \in Stages, CanRevise(j, k), NEW a \in Artifacts
    PROVE  JobOK(Revise(j, k, a))
<1> USE DEF JobOK, Revise, CanRevise
<1>1. Revise(j, k, a) \in Job
  BY DEF Job
<1>2. ReferenceOK(Revise(j, k, a))
  BY JobAssumption DEF Job, ReferenceOK, StageTerminal, StageSatisfied
<1> QED BY <1>1, <1>2 DEF Job, StageOrderOK, LastStageOK, SuccessOK, EndOK,
                          IsTerminal

-----------------------------------------------------------------------------
(* A Job that is handed to its methods one after the other. *)

\* The inductive step: one case per method, by the lemma on that method.
LEMMA JobInvStep == JobInv /\ [Next]_job => JobInv'
<1> SUFFICES ASSUME JobInv, [Next]_job PROVE JobInv'
  OBVIOUS
<1> USE DEF JobInv
<1>1. CASE StartJob
  BY <1>1, StartOK DEF StartJob
<1>2. CASE BeginStage
  BY <1>2, StartStageOK DEF BeginStage
<1>3. CASE PassOverStage
  BY <1>3, SkipStageOK DEF PassOverStage
<1>4. CASE CommitStage
  BY <1>4, CompleteStageOK DEF CommitStage
<1>5. CASE BreakStage
  BY <1>5, FailStageOK DEF BreakStage
<1>6. CASE FinishJob
  BY <1>6, FinishOK DEF FinishJob
<1>7. CASE CancelJob
  BY <1>7, CancelOK DEF CancelJob
<1>8. CASE AskCancel
  BY <1>8, RequestCancelOK DEF AskCancel
<1>9. CASE FailJob
  BY <1>9, FailOK DEF FailJob
<1>10. CASE RecoverJob
  BY <1>10, RecoverOK DEF RecoverJob
<1>11. CASE LoseArtifact
  BY <1>11, InvalidateStageOK DEF LoseArtifact
<1>12. CASE RetryNamedStage
  BY <1>12, RetryOK DEF RetryNamedStage
<1>13. CASE RetryFirstUnfinished
  BY <1>13, RetryOK DEF RetryFirstUnfinished
<1>14. CASE ReviseArtifact
  BY <1>14, ReviseOK DEF ReviseArtifact
<1>15. CASE UNCHANGED job
  BY <1>15
<1> QED BY <1>1, <1>2, <1>3, <1>4, <1>5, <1>6, <1>7, <1>8, <1>9, <1>10,
           <1>11, <1>12, <1>13, <1>14, <1>15 DEF Next

\* Every reachable Job is consistent in every one of the five ways JobOK lists.
THEOREM JobAlwaysConsistent == Spec => []JobInv
<1>1. Init => JobInv
  BY NewJobOK DEF Init, JobInv
<1> QED BY <1>1, JobInvStep, PTL DEF Spec

\* No method leaves the type of a Job.
THEOREM TypeCorrect == Spec => []TypeOK
<1>1. JobInv => TypeOK
  BY DEF JobInv, JobOK, TypeOK
<1> QED BY <1>1, JobAlwaysConsistent, PTL

\* Done and DoneDegraded are never announced without the results.
THEOREM SuccessIsHonest == Spec => []HonestSuccess
<1>1. JobInv => HonestSuccess
  BY DEF JobInv, JobOK, HonestSuccess
<1> QED BY <1>1, JobAlwaysConsistent, PTL

\* No stage runs or has a result above one that has none.
THEOREM StagesStandOnResults == Spec => []StandsOnResults
<1>1. JobInv => StandsOnResults
  BY DEF JobInv, JobOK, StandsOnResults
<1> QED BY <1>1, JobAlwaysConsistent, PTL

\* Only a retry and the loss of an artifact take a result back, and both take
\* everything above it with it.
THEOREM ReopenTakesDependents == Spec => ReopenDropsDependents
<1>1. ASSUME JobInv, [Next]_job PROVE [ReopenStep]_job
  <2> SUFFICES ASSUME Next PROVE ReopenStep
    BY <1>1
  <2> SUFFICES ASSUME NEW k \in Stages,
                      job.stage[k] \in StageTerminal,
                      job'.stage[k] = "Pending"
               PROVE  \A i \in k .. StageCount :
                         job'.stage[i] = "Pending" /\ job'.artifact[i] = NoArtifact
    BY DEF ReopenStep
  <2>0. job \in Job
    BY <1>1 DEF JobInv, JobOK
  <2> USE JobAssumption DEF Job, Stages, StageTerminal, StageSatisfied
  <2>1. CASE StartJob \/ AskCancel \/ FinishJob \/ ReviseArtifact
    BY <2>0, <2>1 DEF StartJob, Start, AskCancel, RequestCancel, FinishJob,
                      Finish, ReviseArtifact, Revise
  <2>2. CASE BeginStage \/ PassOverStage \/ CommitStage \/ BreakStage
    <3>1. PICK m \in Stages, s \in StageStatus \ {"Pending"} :
             job'.stage = [job.stage EXCEPT ![m] = s]
      <4>1. CASE BeginStage
        BY <2>0, <4>1 DEF BeginStage, StartStage, StageStatus
      <4>2. CASE PassOverStage
        BY <2>0, <4>2 DEF PassOverStage, SkipStage, StageStatus
      <4>3. CASE CommitStage
        <5>1. PICK m \in Stages, a \in Artifacts, degraded \in BOOLEAN :
                 job' = CompleteStage(job, m, a, degraded)
          BY <4>3 DEF CommitStage
        <5> QED BY <2>0, <5>1 DEF CompleteStage, StageStatus
      <4>4. CASE BreakStage
        BY <2>0, <4>4 DEF BreakStage, FailStage, StageStatus
      <4> QED BY <2>2, <4>1, <4>2, <4>3, <4>4
    <3> QED BY <2>0, <3>1
  <2>3. CASE CancelJob \/ FailJob
    BY <2>0, <2>3, ZenonT(60) DEF CancelJob, Cancel, FailJob, Fail, EndOpenStages
  <2>4. CASE RecoverJob
    BY <2>0, <2>4 DEF RecoverJob, Recover, RequeueRunning
  <2>5. ASSUME NEW m \in Stages,
               /\ job'.stage = ResetFrom(job, m).stage
               /\ job'.artifact = ResetFrom(job, m).artifact
        PROVE  \A i \in k .. StageCount :
                  job'.stage[i] = "Pending" /\ job'.artifact[i] = NoArtifact
    BY <2>0, <2>5 DEF ResetFrom
  <2>6. CASE LoseArtifact
    BY <2>5, <2>6 DEF LoseArtifact, InvalidateStage
  <2>7. CASE RetryNamedStage \/ RetryFirstUnfinished
    <3>1. PICK m \in Stages : job' = Retry(job, m)
      BY <2>7 DEF RetryNamedStage, RetryFirstUnfinished
    <3>2. /\ job'.stage = ResetFrom(job, m).stage
          /\ job'.artifact = ResetFrom(job, m).artifact
      BY <2>0, <3>1 DEF Retry, ResetFrom
    <3> QED BY <3>2, <2>5
  <2> QED BY <2>1, <2>2, <2>3, <2>4, <2>6, <2>7 DEF Next
<1> QED BY <1>1, JobAlwaysConsistent, PTL DEF Spec, ReopenDropsDependents

\* The intent to cancel outlives everything but the retry of an ended Job.
THEOREM CancelIntentIsDurable == Spec => CancelIntentSurvives
<1>1. ASSUME JobInv, [Next]_job PROVE [CancelIntentStep]_job
  <2> SUFFICES ASSUME Next, job.cancel_requested, ~job'.cancel_requested
               PROVE  /\ job.status \in {"Failed", "DoneDegraded", "Cancelled"}
                      /\ job'.status = "Pending"
    BY <1>1 DEF CancelIntentStep
  <2>0. job \in Job
    BY <1>1 DEF JobInv, JobOK
  <2>1. CASE StartJob \/ AskCancel \/ FinishJob \/ ReviseArtifact
    BY <2>0, <2>1 DEF Job, StartJob, Start, AskCancel, RequestCancel, FinishJob,
                      Finish, ReviseArtifact, Revise
  <2>2. CASE BeginStage \/ PassOverStage \/ CommitStage \/ BreakStage
    BY <2>0, <2>2 DEF Job, BeginStage, StartStage, PassOverStage, SkipStage,
                      CommitStage, CompleteStage, BreakStage, FailStage
  <2>3. CASE CancelJob \/ FailJob \/ RecoverJob \/ LoseArtifact
    BY <2>0, <2>3 DEF Job, CancelJob, Cancel, FailJob, Fail, RecoverJob,
                      Recover, LoseArtifact, InvalidateStage, ResetFrom
  <2>4. CASE RetryNamedStage \/ RetryFirstUnfinished
    BY <2>0, <2>4 DEF Job, RetryNamedStage, RetryFirstUnfinished, CanRetry,
                      Retry, ResetFrom
  <2> QED BY <2>1, <2>2, <2>3, <2>4 DEF Next
<1> QED BY <1>1, JobAlwaysConsistent, PTL DEF Spec, CancelIntentSurvives

-----------------------------------------------------------------------------
(* The refinement. *)

\* The outcome as JobProgress sees it.
Outcome == IF IsTerminal(job) THEN job.status ELSE "Open"

\* The mapping reads the stage table and the status and nothing else.
LEMMA SameViewStutters ==
    ASSUME Satisfied' = Satisfied, DegradedStages' = DegradedStages,
           Outcome' = Outcome
    PROVE  UNCHANGED Promise!vars
BY DEF Promise!vars, Outcome

\* Ending a Job that was open is giving up, whatever it does to open stages.
LEMMA EndingGivesUp ==
    ASSUME Satisfied' = Satisfied, DegradedStages' = DegradedStages,
           Outcome = "Open", Outcome' \in {"Failed", "Cancelled"}
    PROVE  Promise!Next
BY DEF Promise!Next, Promise!GiveUp, Outcome

\* A retry and the loss of an artifact keep a prefix of what was finished.
LEMMA ResetReopens ==
    ASSUME JobInv, NEW k \in Stages,
           job'.stage = ResetFrom(job, k).stage, job'.status = "Pending"
    PROVE  Promise!Next
<1>1. job \in Job
  BY DEF JobInv, JobOK
<1>2. /\ Satisfied' = {i \in Satisfied : i < k}
      /\ DegradedStages' = {i \in DegradedStages : i < k}
  BY <1>1, JobAssumption
     DEF Satisfied, DegradedStages, ResetFrom, Job, Stages, StageSatisfied
<1>3. Outcome' = "Open"
  BY DEF Outcome, IsTerminal, JobTerminal
<1> QED BY <1>2, <1>3 DEF Promise!Next, Promise!Reopen, Outcome, Stages

\* A stage that was due gets its result.
LEMMA ResultAdvances ==
    ASSUME JobInv, JobInv', ~IsTerminal(job), NEW k \in Stages,
           job.stage[k] \notin StageSatisfied, NEW s \in StageSatisfied,
           job'.stage = [job.stage EXCEPT ![k] = s], job'.status = job.status
    PROVE  Promise!Next
<1>1. job \in Job /\ StageOrderOK(job')
  BY DEF JobInv, JobOK
<1>2. Satisfied' = Satisfied \union {k} /\ k \notin Satisfied
  BY <1>1 DEF Satisfied, Job
<1>3. DegradedStages' \in {DegradedStages, DegradedStages \union {k}}
  BY <1>1 DEF DegradedStages, Job, StageSatisfied
<1>4. 1 .. k - 1 \subseteq Satisfied
  BY <1>1, JobAssumption DEF StageOrderOK, Satisfied, Stages, Job
<1>5. Outcome = "Open" /\ Outcome' = Outcome
  BY DEF Outcome, IsTerminal
<1> QED BY <1>2, <1>3, <1>4, <1>5
        DEF Promise!Next, Promise!Advance, Outcome, Stages

\* Every method call is a step of JobProgress or invisible to it.
LEMMA PromiseStep ==
    JobInv /\ JobInv' /\ [Next]_job => [Promise!Next]_Promise!vars
<1> SUFFICES ASSUME JobInv, JobInv', Next PROVE [Promise!Next]_Promise!vars
  BY DEF Promise!vars, Satisfied, DegradedStages, IsTerminal
<1>0. job \in Job /\ EndOK(job) /\ StageOrderOK(job) /\ SuccessOK(job')
  BY DEF JobInv, JobOK
<1>1. CASE StartJob \/ AskCancel \/ ReviseArtifact
  <2>1. job'.stage = job.stage
    BY <1>0, <1>1 DEF StartJob, Start, AskCancel, RequestCancel,
                      ReviseArtifact, Revise, Job
  <2>2. Outcome' = Outcome
    BY <1>0, <1>1 DEF StartJob, CanStart, Start, AskCancel, RequestCancel,
          ReviseArtifact, Revise, Job, Outcome, IsTerminal, JobTerminal
  <2> QED BY <2>1, <2>2, SameViewStutters DEF Satisfied, DegradedStages
<1>2. CASE BeginStage
  <2>1. PICK k \in Stages : CanEnterStage(job, k) /\ job' = StartStage(job, k)
    BY <1>2 DEF BeginStage
  <2>2. Satisfied' = Satisfied /\ DegradedStages' = DegradedStages
    BY <1>0, <2>1 DEF CanEnterStage, StartStage, Satisfied, DegradedStages,
                      StageSatisfied, Job
  <2>3. Outcome' = Outcome
    BY <1>0, <2>1 DEF StartStage, Outcome, IsTerminal, Job
  <2> QED BY <2>2, <2>3, SameViewStutters
<1>3. CASE PassOverStage
  <2>1. PICK k \in Stages : CanEnterStage(job, k) /\ job' = SkipStage(job, k)
    BY <1>3 DEF PassOverStage
  <2>2. /\ ~IsTerminal(job)
        /\ job.stage[k] \notin StageSatisfied
        /\ job'.stage = [job.stage EXCEPT ![k] = "Skipped"]
        /\ job'.status = job.status
    BY <1>0, <2>1 DEF CanEnterStage, SkipStage, IsTerminal, JobTerminal,
                      StageSatisfied, Job
  <2> QED BY <2>2, ResultAdvances DEF StageSatisfied
<1>4. CASE CommitStage
  <2>1. PICK k \in Stages, a \in Artifacts, degraded \in BOOLEAN :
           /\ CanCompleteStage(job, k)
           /\ job' = CompleteStage(job, k, a, degraded)
    BY <1>4 DEF CommitStage
  <2>2. PICK s \in StageSatisfied : job'.stage = [job.stage EXCEPT ![k] = s]
    BY <1>0, <2>1 DEF CompleteStage, StageSatisfied, Job
  <2>3. /\ ~IsTerminal(job)
        /\ job.stage[k] \notin StageSatisfied
        /\ job'.status = job.status
    BY <1>0, <2>1 DEF CanCompleteStage, CompleteStage, EndOK, StageSatisfied,
                      Job
  <2> QED BY <2>2, <2>3, ResultAdvances
<1>5. CASE BreakStage
  <2>1. PICK k \in Stages : CanFailStage(job, k) /\ job' = FailStage(job, k)
    BY <1>5 DEF BreakStage
  <2>2. Satisfied' = Satisfied /\ DegradedStages' = DegradedStages
    BY <1>0, <2>1 DEF CanFailStage, FailStage, Satisfied, DegradedStages,
                      StageSatisfied, Job
  <2>3. Outcome = "Open" /\ Outcome' = "Failed"
    BY <1>0, <2>1 DEF CanFailStage, FailStage, EndOK, Outcome, IsTerminal,
                      JobTerminal, Job
  <2> QED BY <2>2, <2>3, EndingGivesUp
<1>6. CASE FinishJob
  <2>1. job'.stage = job.stage /\ ~IsTerminal(job)
    BY <1>0, <1>6 DEF FinishJob, CanFinish, Finish, IsTerminal, JobTerminal, Job
  <2>2. job'.status \in {"Done", "DoneDegraded"}
    BY <1>0, <1>6, FinishIsSuccess DEF FinishJob, Finish, JobInv, Job
  <2>3. Satisfied = Stages
    BY <1>0, <2>1, <2>2 DEF SuccessOK, Satisfied
  <2>4. job'.status = IF DegradedStages = {} THEN "Done" ELSE "DoneDegraded"
    BY <1>0, <2>1, <2>2 DEF SuccessOK, DegradedStages
  <2>5. Outcome = "Open" /\ Outcome' = job'.status
    BY <2>1, <2>2 DEF Outcome, IsTerminal, JobTerminal
  <2>6. Satisfied' = Satisfied /\ DegradedStages' = DegradedStages
    BY <2>1 DEF Satisfied, DegradedStages
  <2> QED BY <2>3, <2>4, <2>5, <2>6
          DEF Promise!Next, Promise!Succeed, Outcome, Stages
<1>7. CASE CancelJob \/ FailJob
  <2>1. CASE IsTerminal(job)
    BY <1>0, <1>7, <2>1 DEF CancelJob, CanCancel, Cancel, FailJob, Fail,
          Promise!vars, Satisfied, DegradedStages, IsTerminal
  <2>2. CASE ~IsTerminal(job)
    <3>1. PICK s \in {"Cancelled", "Failed"} :
             job'.stage = EndOpenStages(job, s) /\ job'.status = s
      BY <1>0, <1>7, <2>2 DEF CancelJob, Cancel, FailJob, Fail, IsTerminal,
                              JobTerminal, Job
    <3>2. Satisfied' = Satisfied /\ DegradedStages' = DegradedStages
      BY <1>0, <3>1 DEF EndOpenStages, Satisfied, DegradedStages,
                        StageSatisfied, StageTerminal, Job
    <3>3. Outcome = "Open" /\ Outcome' \in {"Failed", "Cancelled"}
      BY <2>2, <3>1 DEF Outcome, IsTerminal, JobTerminal
    <3> QED BY <3>2, <3>3, EndingGivesUp
  <2> QED BY <2>1, <2>2
<1>8. CASE RecoverJob
  <2>1. Satisfied' = Satisfied /\ DegradedStages' = DegradedStages
    BY <1>0, <1>8 DEF RecoverJob, Recover, RequeueRunning, Satisfied,
                      DegradedStages, StageSatisfied, Job
  <2>2. Outcome' = Outcome
    BY <1>0, <1>8 DEF RecoverJob, Recover, Outcome, IsTerminal, JobTerminal, Job
  <2> QED BY <2>1, <2>2, SameViewStutters
<1>9. CASE LoseArtifact
  BY <1>0, <1>9, ResetReopens DEF LoseArtifact, InvalidateStage, ResetFrom, Job
<1>10. CASE RetryNamedStage \/ RetryFirstUnfinished
  <2>1. PICK k \in Stages : job' = Retry(job, k)
    BY <1>10 DEF RetryNamedStage, RetryFirstUnfinished
  <2>2. job'.stage = ResetFrom(job, k).stage /\ job'.status = "Pending"
    BY <1>0, <2>1 DEF Retry, ResetFrom, Job
  <2> QED BY <2>2, ResetReopens
<1> QED BY <1>1, <1>2, <1>3, <1>4, <1>5, <1>6, <1>7, <1>8, <1>9, <1>10 DEF Next

\* The Job with its stage table implements JobProgress.
THEOREM JobImplementsProgress == Spec => KeepsPromise
<1>1. Init => Promise!Init
  BY DEF Init, NewJob, Promise!Init, Satisfied, DegradedStages, StageSatisfied,
         IsTerminal, JobTerminal
<1> QED BY <1>1, PromiseStep, JobAlwaysConsistent, PTL
        DEF Spec, KeepsPromise, Promise!Spec

=============================================================================
