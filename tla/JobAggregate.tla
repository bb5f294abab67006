---------------------------- MODULE JobAggregate ----------------------------
(***************************************************************************)
(* The Job aggregate of crates/domain/src/workflow/{job,stage}.rs: a Job   *)
(* is a value, every method is a pair of operators on that value.  CanX(j) *)
(* is the condition under which method x returns Ok, X(j) the Job it       *)
(* leaves behind; a method that returns Err leaves its Job as it was.      *)
(* The seven stages are the numbers 1..StageCount in pipeline order, an    *)
(* ArtifactRef is a value of Artifacts.                                    *)
(*                                                                         *)
(* A definition whose comment begins with "Slip" is what the one after it  *)
(* would be with a plausible mistake in it: a mutant that some property    *)
(* must be able to tell from the code.                                     *)
(***************************************************************************)
EXTENDS Integers

CONSTANTS StageCount,      \* how many stages a Job has (7 in the code)
          Artifacts,       \* references to committed artifacts
          NoArtifact,      \* the None of Option<ArtifactRef>
          MaxGeneration    \* u32::MAX, where saturating_add stops

ASSUME JobAssumption == /\ StageCount \in Nat \ {0}
                        /\ NoArtifact \notin Artifacts
                        /\ MaxGeneration \in Nat

Stages == 1 .. StageCount

JobTerminal == {"Done", "DoneDegraded", "Failed", "Cancelled"}
JobStatus == {"Pending", "Running"} \union JobTerminal

\* Retrying, WaitingResource and WaitingProvider are declared by the code but
\* no statement of it assigns them, so a stage never holds them.
StageSatisfied == {"Done", "DoneDegraded", "Skipped"}
StageTerminal == StageSatisfied \union {"Failed", "Cancelled"}
StageStatus == {"Pending", "Running"} \union StageTerminal

Job == [status           : JobStatus,
        stage            : [Stages -> StageStatus],
        artifact         : [Stages -> Artifacts \union {NoArtifact}],
        cancel_requested : BOOLEAN,
        retry_generation : 0 .. MaxGeneration]

NewJob == [status           |-> "Pending",
           stage            |-> [k \in Stages |-> "Pending"],
           artifact         |-> [k \in Stages |-> NoArtifact],
           cancel_requested |-> FALSE,
           retry_generation |-> 0]

IsTerminal(j) == j.status \in JobTerminal
PrerequisiteMet(j, k) == k > 1 => j.stage[k - 1] \in StageSatisfied

-----------------------------------------------------------------------------
(* Running a Job, stage by stage. *)

CanStart(j) == j.status = "Pending" /\ ~j.cancel_requested
Start(j) == [j EXCEPT !.status = "Running"]

\* start_stage and skip_stage test the same three conditions.
CanEnterStage(j, k) == /\ j.status = "Running"
                       /\ PrerequisiteMet(j, k)
                       /\ j.stage[k] = "Pending"
StartStage(j, k) == [j EXCEPT !.stage[k] = "Running"]
SkipStage(j, k) == [j EXCEPT !.stage[k] = "Skipped"]

CanCompleteStage(j, k) == j.stage[k] = "Running"
CompleteStage(j, k, a, degraded) ==
    [j EXCEPT !.stage[k] = IF degraded THEN "DoneDegraded" ELSE "Done",
              !.artifact[k] = a]

CanFailStage(j, k) == j.stage[k] = "Running"
FailStage(j, k) == [j EXCEPT !.stage[k] = "Failed", !.status = "Failed"]

\* Slip: the stage table is not looked at.
CanFinishEarly(j) == j.status = "Running"
CanFinish(j) == /\ j.status = "Running"
                /\ \A k \in Stages : j.stage[k] \in StageTerminal
FinishStatus(j) ==
    LET Some(s) == \E k \in Stages : j.stage[k] = s
    IN  CASE Some("Failed") -> "Failed"
          [] ~Some("Failed") /\ Some("DoneDegraded") -> "DoneDegraded"
          [] ~Some("Failed") /\ ~Some("DoneDegraded") /\ Some("Cancelled")
               -> "Cancelled"
          [] OTHER -> "Done"
Finish(j) == [j EXCEPT !.status = FinishStatus(j)]

-----------------------------------------------------------------------------
(* Cancellation and failure.  Each is a no-op on some terminal Jobs. *)

EndOpenStages(j, s) ==
    [k \in Stages |-> IF j.stage[k] \in StageTerminal THEN j.stage[k] ELSE s]

CanCancel(j) == ~IsTerminal(j) \/ j.status = "Cancelled"
Cancel(j) == IF j.status = "Cancelled"
             THEN j
             ELSE [j EXCEPT !.cancel_requested = TRUE,
                            !.status = "Cancelled",
                            !.stage = EndOpenStages(j, "Cancelled")]

RequestCancel(j) ==
    IF IsTerminal(j) THEN j ELSE [j EXCEPT !.cancel_requested = TRUE]

Fail(j) == IF IsTerminal(j)
           THEN j
           ELSE [j EXCEPT !.status = "Failed",
                          !.stage = EndOpenStages(j, "Failed")]

-----------------------------------------------------------------------------
(* Recovery after a restart, retry, and revision of an artifact. *)

RequeueRunning(j) ==
    [k \in Stages |-> IF j.stage[k] = "Running" THEN "Pending" ELSE j.stage[k]]
\* Slip: the Job is not recovered at all.
RecoverNothing(j) == j
Recover(j) ==
    IF j.status # "Running"
    THEN j
    ELSE [j EXCEPT !.status = "Pending", !.stage = RequeueRunning(j)]

\* Slip: the later stages are left alone.
ResetOnly(j, k) == [j EXCEPT !.stage[k] = "Pending", !.artifact[k] = NoArtifact,
                             !.status = "Pending"]
\* Stage k and every later one go back to Pending and lose their artifact.
ResetFrom(j, k) ==
    [j EXCEPT !.stage = [i \in Stages |-> IF i < k THEN j.stage[i]
                                                   ELSE "Pending"],
              !.artifact = [i \in Stages |-> IF i < k THEN j.artifact[i]
                                                      ELSE NoArtifact],
              !.status = "Pending"]

InvalidateStage(j, k) == ResetFrom(j, k)

CanRetry(j) == j.status \in {"Failed", "DoneDegraded", "Cancelled"}
\* The stages prepare_retry starts from: the one the caller names, or the
\* first that failed or was cancelled when the caller names none.
FirstUnfinished(j, k) ==
    /\ j.stage[k] \in {"Failed", "Cancelled"}
    /\ \A i \in Stages : i < k => j.stage[i] \notin {"Failed", "Cancelled"}
NextGeneration(g) == IF g < MaxGeneration THEN g + 1 ELSE g
Retry(j, k) ==
    [ResetFrom(j, k) EXCEPT
        !.cancel_requested = FALSE,
        !.retry_generation = NextGeneration(@)]

CanRevise(j, k) == j.stage[k] \in StageTerminal
Revise(j, k, a) == [j EXCEPT !.artifact[k] = a]

-----------------------------------------------------------------------------
(* What every Job must satisfy, wherever a copy of it is held. *)

\* Every earlier stage of one that runs or has a result has a result.
StageOrderOK(j) ==
    \A k \in Stages :
        j.stage[k] \in StageSatisfied \union {"Running"} =>
            \A i \in 1 .. k - 1 : j.stage[i] \in StageSatisfied

\* A Job that may still run has a satisfied last stage if that stage is over.
LastStageOK(j) ==
    ~IsTerminal(j) /\ j.stage[StageCount] \in StageTerminal =>
        j.stage[StageCount] \in StageSatisfied

\* Done and DoneDegraded say of every stage what they promise.
SuccessOK(j) ==
    j.status \in {"Done", "DoneDegraded"} =>
        /\ \A k \in Stages : j.stage[k] \in StageSatisfied
        /\ j.status = "DoneDegraded" <=>
               \E k \in Stages : j.stage[k] = "DoneDegraded"

\* Nothing runs in a Job that has ended; one that is Cancelled was asked to be.
EndOK(j) ==
    IsTerminal(j) => /\ j.status = "Cancelled" => j.cancel_requested
                     /\ \A k \in Stages : j.stage[k] # "Running"

\* A completed stage has its artifact, one that has still to run has none.
ReferenceOK(j) ==
    \A k \in Stages :
        /\ j.stage[k] \in {"Done", "DoneDegraded"} =>
               j.artifact[k] # NoArtifact
        /\ j.stage[k] \in {"Pending", "Running"} =>
               j.artifact[k] = NoArtifact

JobOK(j) == /\ j \in Job
            /\ StageOrderOK(j)
            /\ LastStageOK(j)
            /\ SuccessOK(j)
            /\ EndOK(j)
            /\ ReferenceOK(j)

=============================================================================
