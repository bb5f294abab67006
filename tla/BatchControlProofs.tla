-------------------------- MODULE BatchControlProofs --------------------------
(***************************************************************************)
(* What the processes of BatchControl keep, for every number of Jobs,      *)
(* stages and controllers.                                                 *)
(*                                                                         *)
(* CancelWins holds in every instance.  The other properties do not: they  *)
(* are true as long as a Job that was executed is over when its run        *)
(* returns, and the races the README lists (a CancelBatch that ends a      *)
(* Batch whose Jobs run on, a save that is refused while a failure is      *)
(* handled, an artifact that recovery finds missing) take exactly that     *)
(* away.  Orderly rules these out and nothing else; under it the proofs    *)
(* follow one Job through its run and show that a copy the owner can no    *)
(* longer save is the copy of a Job that was asked to cancel.              *)
(***************************************************************************)
EXTENDS BatchControl, TLAPS, WellFoundedInduction

\* No Batch is cancelled and no artifact is lost.  Where single Jobs are
\* cancelled, it is from another process, nothing else goes wrong in a run but
\* the opening of its session and a crash, and no Job is retried.
Cancelling == "CancelJob" \in Commands
Orderly ==
    /\ "CancelBatch" \notin Commands
    /\ "Verify" \notin Faults
    /\ Cancelling => /\ Local = {}
                     /\ "Retry" \notin Commands
                     /\ "Work" \notin Faults /\ "Commit" \notin Faults

-----------------------------------------------------------------------------
(* What holds in every instance. *)

\* Where the owner runs a Job, and where it is at one in its loop.
RunPcs == {"LoadJob", "Enter", "Touch", "StartJob", "EnterError", "Gate", "Work",
           "Skip", "Commit", "SaveDone", "Error", "SaveFailure", "Reload",
           "CancelJob", "AfterRun"}
AtJobPcs == RunPcs \union {"FailSave", "MarkPaused", "Wait", "CheckJob", "Record",
                           "Outcome", "CancelSave", "CancelRecord"}

OwnerPlace ==
    /\ owner.pc \in AtJobPcs => owner.next \in Members
    /\ owner.pc \in {"Loop", "FailLoad", "CancelLoad"} => owner.next >= 1
    /\ owner.purpose = "Retry" => owner.target \in Members /\ "Retry" \in Commands
    /\ owner.pc = "RetryTx" => owner.purpose = "Retry" /\ owner.stage \in Stages
    /\ owner.pc \in {"Work", "Skip", "Commit"} => owner.stage \in Stages
    /\ owner.pc = "Gate" => owner.stage >= 1
    /\ owner.running => /\ owner.pc \in {"Commit", "Error", "SaveFailure", "Reload"}
                        /\ owner.stage \in Stages

CtlPlace ==
    \A c \in Controllers :
        /\ ctl[c].pc \in {"LoadJob", "SaveJob", "EachSave"} => ctl[c].next \in Members
        /\ ctl[c].pc = "EachJob" => ctl[c].next >= 1

\* A Job whose outcome is about to be saved as done was not asked to cancel,
\* or the copy of it is outdated.
SaveDoneUnasked ==
    owner.pc = "SaveDone" /\ owner.next \in fresh[Owner] =>
        ~jobs[owner.next].cancel_requested

BaseInv == TypeOK /\ OwnerPlace /\ CtlPlace /\ SaveDoneUnasked

-----------------------------------------------------------------------------
(* What holds where the processes are Orderly. *)

\* Nobody cancels the Batch, and no token is set.
NotCancelled(b) == ~b.cancel_requested /\ b.status # "Cancelled"
BatchIsKept ==
    /\ NotCancelled(batch) /\ NotCancelled(owner.copy)
    /\ ~token
    /\ owner.pc \notin {"CancelLoad", "CancelSave", "CancelRecord"}
    /\ \A c \in Controllers :
          /\ ctl[c].pc \in {"Idle", "LoadJob", "SaveJob", "SavePause", "SaveResume",
                            "BecomeOwner"}
          /\ ctl[c].pc \in {"LoadJob", "SaveJob"} => Cancelling

\* A row a controller holds is as the controller found it.
MayAsk(j) == j.status = "Pending" \/ (j.status = "Running" /\ ~j.cancel_requested)
FoundIsCurrent ==
    \A c \in Controllers :
        /\ ctl[c].pc \in {"SavePause", "SaveResume"} /\ TheBatch \in fresh[c] =>
               ctl[c].copy = batch
        /\ ctl[c].pc = "SaveJob" /\ ctl[c].next \in fresh[c] => MayAsk(jobs[ctl[c].next])

\* What a Batch has on record is how the Jobs ended, and of an ended one it is
\* complete.
Truthful(b, js) ==
    /\ \A k \in Members : HasRecord(b, k) => js[k].status = b.terminal_jobs[k]
    /\ BatchEnded(b) => AllRecorded(b)
RecordsTruthful == Truthful(batch, jobs) /\ Truthful(owner.copy, jobs)

\* From StartRun on, the Batch is not over before the owner says so.
BatchPcs == AtJobPcs \union {"SaveStart", "Open", "FailLoad", "Loop", "Decide", "Finish"}
OwnerDecides ==
    /\ owner.pc \in BatchPcs => ~BatchEnded(batch)
    /\ owner.pc \in BatchPcs \ {"Finish"} => ~BatchEnded(owner.copy)
    /\ owner.pc = "Finish" =>
           /\ BatchEnded(owner.copy)
           /\ owner.copy.status = "Done" => \A k \in Members : jobs[k].status # "Failed"
    /\ owner.pc \in BatchPcs /\ owner.purpose = "Retry" =>
           \A k \in Members \ {owner.target} : IsTerminal(jobs[k])
    /\ owner.pc = "RetryTx" /\ owner.target \in fresh[Owner] => CanRetry(jobs[owner.target])

\* Only the Job the owner executes is running, but for what a dead owner left.
ExecPcs == {"Gate", "Work", "Skip", "Commit", "SaveDone", "Error", "SaveFailure",
            "Reload", "CancelJob"}
OneIsRunning ==
    \A k \in Members : jobs[k].status = "Running" =>
        \/ owner.pc \in {"Idle", "Verify", "ListJobs"}
        \/ owner.pc = "RecoverJobs" /\ k \in owner.todo
        \/ owner.pc \in ExecPcs /\ k = owner.next

\* Nor is the Batch paused between two Jobs it does not wait between.
RunIsNotPaused == owner.pc \in RunPcs \union {"CheckJob"} => batch.status # "Paused"

\* The Jobs the loop has passed are over, and so is the one it has executed.
LoopPcs == AtJobPcs \union {"FailLoad", "Loop"}
PassedIsOver ==
    /\ owner.pc \in LoopPcs =>
           \A i \in Members : i < owner.next => IsTerminal(jobs[i])
    /\ owner.pc \in {"Record", "AfterRun", "Outcome"} => IsTerminal(jobs[owner.next])

\* The Job of a run, whose copy is outdated only when it was asked to cancel, and
\* the one that is about to be failed or cancelled.
Asked(j) == j.cancel_requested \/ j.status = "Cancelled"
HoldPcs == {"Enter", "Touch", "StartJob", "EnterError"} \union
           (ExecPcs \ {"Reload", "CancelJob"})
RunIsHeld ==
    LET j == jobs[owner.next]
        held == owner.next \in fresh[Owner]
    IN  /\ owner.pc \in HoldPcs => held \/ (Cancelling /\ Asked(j))
        /\ owner.pc \in {"Enter", "Touch", "StartJob"} /\ held => j.status = "Pending"
        /\ owner.pc \in HoldPcs \intersect ExecPcs /\ held => j.status = "Running"
        /\ owner.pc \in {"EnterError", "Reload", "CancelJob"} => Asked(j)
        /\ owner.pc = "Error" /\ Cancelling => Asked(j)
        /\ owner.pc = "SaveFailure" => ~Cancelling
        /\ owner.pc = "CancelJob" => held \/ IsTerminal(j)
        /\ owner.pc \in {"CancelJob", "FailSave"} /\ held => ~IsTerminal(j)

\* Where Jobs are cancelled, a stage is done, or skipped, or yet to come.
StagesClean ==
    Cancelling =>
        \A k \in Members, i \in Stages :
            ~IsTerminal(jobs[k]) => jobs[k].stage[i] \in StageSatisfied \union {"Pending"}
StagesInOrder ==
    Cancelling =>
        /\ owner.pc \in {"Gate", "Work", "Skip", "Commit", "SaveDone"} /\
           owner.next \in fresh[Owner] =>
               \A i \in Stages : i < owner.stage =>
                   jobs[owner.next].stage[i] \in StageSatisfied
        /\ owner.pc = "SaveDone" => owner.stage = StageCount + 1

OrderlyInv == /\ BaseInv
              /\ BatchIsKept
              /\ FoundIsCurrent
              /\ RecordsTruthful
              /\ OwnerDecides
              /\ OneIsRunning
              /\ RunIsNotPaused
              /\ PausedMeansQuiet
              /\ PassedIsOver
              /\ RunIsHeld
              /\ StagesClean
              /\ StagesInOrder

-----------------------------------------------------------------------------
(* The parameters, and what the building blocks of the actions do. *)

Rows == 0 .. JobCount
OwnerState ==
    [pc : OwnerPcs, purpose : {"Run", "Resume", "Retry"}, target : 0 .. JobCount,
     next : 0 .. JobCount + 1, stage : 0 .. StageCount + 1, running : BOOLEAN,
     todo : SUBSET Members, copy : Batch]
Command == [pc : CtlPcs, next : 0 .. JobCount + 1, all : BOOLEAN, copy : Batch]

LEMMA Parameters ==
    /\ Owner \in Actors
    /\ \A c \in Controllers : c \in Actors /\ c # Owner
    /\ Members \subseteq Rows /\ TheBatch \in Rows /\ TheBatch \notin Members
    /\ 1 \in Members /\ 1 \in Stages /\ 0 \in 0 .. StageCount + 1
    /\ Members \subseteq 0 .. JobCount + 1 /\ Stages \subseteq 0 .. StageCount + 1
    /\ \A k \in Members : k >= 1 /\ k <= JobCount /\ k + 1 \in 0 .. JobCount + 1
    /\ \A n \in 0 .. JobCount + 1 : n \in Members <=> n >= 1 /\ n <= JobCount
    /\ \A s \in Stages : s >= 1 /\ s <= StageCount /\ s + 1 \in 0 .. StageCount + 1
    /\ \A s \in 0 .. StageCount + 1 : s \in Stages <=> s >= 1 /\ s <= StageCount
BY BatchAssumption, JobAssumption, ControlAssumption
   DEF Actors, Members, Rows, TheBatch, Stages

LEMMA TypeParts ==
    TypeOK <=> /\ jobs \in [Members -> Job]
               /\ batch \in Batch
               /\ fresh \in [Actors -> SUBSET Rows]
               /\ owner \in OwnerState
               /\ ctl \in [Controllers -> Command]
               /\ token \in BOOLEAN
BY DEF TypeOK, OwnerState, Command, Rows

LEMMA NewBatchOK == /\ NewBatch \in Batch /\ ~BatchEnded(NewBatch) /\ NotCancelled(NewBatch)
                    /\ \A k \in Members : ~HasRecord(NewBatch, k)
BY DEF NewBatch, Batch, BatchStatus, JobOutcome, BatchEnded, BatchTerminal, NotCancelled,
       HasRecord

LEMMA NoOwnerOK ==
    /\ NoOwner \in OwnerState
    /\ NoOwner.pc = "Idle" /\ NoOwner.purpose = "Run" /\ ~NoOwner.running
    /\ NoOwner.copy = NewBatch
    /\ NoCommand \in Command /\ NoCommand.pc = "Idle"
BY NewBatchOK, BatchAssumption, JobAssumption
   DEF NoOwner, OwnerState, OwnerPcs, NoCommand, Command, CtlPcs

\* What a step does that saves Job k.
LEMMA SavedJob ==
    ASSUME TypeOK, NEW a \in Actors, NEW k \in Members, NEW j \in Job,
           NEW keep \in SUBSET Rows, SaveJob(a, k, j, keep)
    PROVE  /\ jobs' \in [Members -> Job] /\ jobs'[k] = j
           /\ \A i \in Members : i # k => jobs'[i] = jobs[i]
           /\ batch' = batch
           /\ fresh' \in [Actors -> SUBSET Rows] /\ fresh'[a] = keep
           /\ \A b \in Actors : b # a => fresh'[b] = fresh[b] \ {k}
BY TypeParts DEF SaveJob, Wrote

\* ... or the Batch.
LEMMA SavedBatch ==
    ASSUME TypeOK, NEW a \in Actors, NEW b \in Batch, NEW keep \in SUBSET Rows,
           SaveBatch(a, b, keep)
    PROVE  /\ batch' = b /\ jobs' = jobs
           /\ fresh' \in [Actors -> SUBSET Rows] /\ fresh'[a] = keep
           /\ \A i \in Actors : i # a => fresh'[i] = fresh[i] \ {TheBatch}
BY TypeParts DEF SaveBatch, Wrote

\* ... or loads rows.
LEMMA Loaded ==
    ASSUME TypeOK, NEW a \in Actors, NEW rows \in SUBSET Rows, LoadOnly(a, rows)
    PROVE  /\ batch' = batch /\ jobs' = jobs
           /\ fresh' \in [Actors -> SUBSET Rows] /\ fresh'[a] = rows
           /\ \A i \in Actors : i # a => fresh'[i] = fresh[i]
BY TypeParts DEF LoadOnly, Keep


-----------------------------------------------------------------------------
(* What the methods of the aggregates do. *)

LEMMA JobMethods ==
    ASSUME NEW j \in Job
    PROVE  /\ Start(j) \in Job /\ Start(j).status = "Running"
           /\ Start(j).cancel_requested = j.cancel_requested /\ Start(j).stage = j.stage
           /\ Recover(j) \in Job /\ Recover(j).cancel_requested = j.cancel_requested
           /\ j.status = "Running" => Recover(j).status = "Pending"
           /\ j.status # "Running" => Recover(j) = j
           /\ \A i \in Stages : \/ Recover(j).stage[i] = j.stage[i]
                                \/ Recover(j).stage[i] = "Pending"
           /\ RequestCancel(j) \in Job /\ RequestCancel(j).status = j.status
           /\ RequestCancel(j).stage = j.stage
           /\ j.cancel_requested => RequestCancel(j).cancel_requested
           /\ ~IsTerminal(j) => RequestCancel(j).cancel_requested
<1>1. Start(j) \in Job /\ RequestCancel(j) \in Job
  BY DEF Job, JobStatus, Start, RequestCancel
<1>2. Recover(j) \in Job
  BY DEF Job, JobStatus, StageStatus, Recover, RequeueRunning
<1> QED BY <1>1, <1>2 DEF Job, Start, Recover, RequeueRunning, RequestCancel

LEMMA JobEnds ==
    ASSUME NEW j \in Job
    PROVE  /\ Cancel(j) \in Job /\ Cancel(j).status = "Cancelled"
           /\ j.cancel_requested => Cancel(j).cancel_requested
           /\ ~IsTerminal(j) => Cancel(j).cancel_requested
           /\ Fail(j) \in Job /\ IsTerminal(Fail(j))
           /\ IsTerminal(j) => Fail(j) = j
           /\ ~IsTerminal(j) => Fail(j).status = "Failed"
           /\ Fail(j).cancel_requested = j.cancel_requested
           /\ Finish(j) \in Job /\ IsTerminal(Finish(j))
           /\ Finish(j).cancel_requested = j.cancel_requested
           /\ IsTerminal(j) <=> j.status \notin {"Pending", "Running"}
<1> USE DEF JobStatus, JobTerminal, StageStatus, StageTerminal, IsTerminal
<1>1. /\ EndOpenStages(j, "Cancelled") \in [Stages -> StageStatus]
      /\ EndOpenStages(j, "Failed") \in [Stages -> StageStatus]
  BY DEF Job, EndOpenStages
<1>2. Cancel(j) \in Job /\ Fail(j) \in Job
  BY <1>1 DEF Job, Cancel, Fail
<1>3. FinishStatus(j) \in JobTerminal
  BY DEF FinishStatus
<1>4. Finish(j) \in Job /\ IsTerminal(Finish(j))
  BY <1>3 DEF Finish, Job
<1> QED BY <1>2, <1>4 DEF Job, Cancel, Fail, Finish

LEMMA StageMethods ==
    ASSUME NEW j \in Job, NEW s \in Stages, NEW degraded \in BOOLEAN
    PROVE  LET done == CompleteStage(StartStage(j, s), s, Artifact, degraded)
               lost == FailStage(StartStage(j, s), s)
               skipped == SkipStage(j, s)
           IN  /\ done \in Job /\ done.status = j.status
               /\ done.cancel_requested = j.cancel_requested
               /\ done.stage[s] \in StageSatisfied
               /\ skipped \in Job /\ skipped.status = j.status
               /\ skipped.cancel_requested = j.cancel_requested
               /\ skipped.stage[s] \in StageSatisfied
               /\ \A i \in Stages \ {s} : /\ done.stage[i] = j.stage[i]
                                          /\ skipped.stage[i] = j.stage[i]
               /\ lost \in Job /\ lost.status = "Failed"
               /\ lost.cancel_requested = j.cancel_requested
<1> USE DEF StageStatus, StageTerminal, StageSatisfied, JobStatus, JobTerminal
<1>1. Artifact \in Artifacts
  BY ControlAssumption
<1>2. StartStage(j, s) \in Job
  BY DEF StartStage, Job
<1>3. CompleteStage(StartStage(j, s), s, Artifact, degraded) \in Job
  BY <1>1, <1>2 DEF CompleteStage, Job
<1>4. FailStage(StartStage(j, s), s) \in Job
  BY <1>2 DEF FailStage, Job
<1>5. SkipStage(j, s) \in Job
  BY DEF SkipStage, Job
<1> QED BY <1>3, <1>4, <1>5 DEF Job, CompleteStage, StartStage, FailStage, SkipStage

LEMMA Reopening ==
    ASSUME NEW j \in Job, NEW s \in Stages
    PROVE  /\ InvalidateStage(j, s) \in Job
           /\ InvalidateStage(j, s).status = "Pending"
           /\ InvalidateStage(j, s).cancel_requested = j.cancel_requested
           /\ Retry(j, s) \in Job /\ Retry(j, s).status = "Pending"
<1> USE DEF JobStatus, StageStatus
<1>1. NextGeneration(j.retry_generation) \in 0 .. MaxGeneration
  BY JobAssumption DEF NextGeneration, Job
<1>2. ResetFrom(j, s) \in Job
  BY DEF ResetFrom, Job
<1> QED BY <1>1, <1>2 DEF Job, InvalidateStage, Retry, ResetFrom

\* A Batch whose status, requests and records are in range.
LEMMA BatchMethods ==
    ASSUME NEW b \in Batch
    PROVE  /\ \A s \in BatchStatus : [b EXCEPT !.status = s] \in Batch
           /\ StartBatch(b) \in Batch /\ MarkPaused(b) \in Batch
           /\ RequestPause(b) \in Batch /\ ResumeBatch(b) \in Batch
           /\ RequestBatchCancel(b) \in Batch /\ RecoverBatch(b) \in Batch
           /\ \A k \in Members : ReopenBatch(b, k) \in Batch
           /\ \A k \in Members, s \in JobOutcome : RecordJob(b, k, s) \in Batch
           /\ \A s \in BatchTerminal : FinishBatch(b, s) \in Batch
<1> USE DEF BatchStatus, BatchTerminal
<1>1. \A s \in BatchStatus : [b EXCEPT !.status = s] \in Batch
  BY DEF Batch
<1>2. /\ StartBatch(b) \in Batch /\ MarkPaused(b) \in Batch
      /\ RecoverBatch(b) \in Batch /\ \A s \in BatchTerminal : FinishBatch(b, s) \in Batch
  BY <1>1 DEF StartBatch, MarkPaused, RecoverBatch, FinishBatch
<1>3. /\ RequestPause(b) \in Batch /\ ResumeBatch(b) \in Batch
      /\ RequestBatchCancel(b) \in Batch
  BY DEF Batch, RequestPause, ResumeBatch, RequestBatchCancel
<1>4. \A k \in Members, s \in JobOutcome \union {"None"} :
          [b EXCEPT !.terminal_jobs[k] = s] \in Batch
  BY DEF Batch
<1>5. \A k \in Members, s \in JobOutcome : RecordJob(b, k, s) \in Batch
  BY <1>4 DEF RecordJob
<1>6. \A k \in Members : ReopenBatch(b, k) \in Batch
  BY DEF ReopenBatch, Batch
<1> QED BY <1>1, <1>2, <1>3, <1>5, <1>6


-----------------------------------------------------------------------------
(* The queue of the owner. *)

LEMMA FirstIsLeast ==
    ASSUME NEW S \in SUBSET Members, S # {}
    PROVE  First(S) \in S /\ \A i \in S : First(S) <= i
<1> DEFINE R == OpToRel(<, Nat)
<1>1. IsWellFoundedOn(R, Nat)
  BY NatLessThanWellFounded
<1>2. \A x, y \in Nat : x < y => <<x, y>> \in R
  BY DEF OpToRel
<1>3. S \subseteq Nat
  BY DEF Members
<1> HIDE DEF R
<1>4. PICK x \in S : \A y \in S : <<y, x>> \notin R
  BY <1>1, <1>3, WFMin
<1>5. \A y \in S : ~(y < x)
  BY <1>2, <1>3, <1>4
<1>6. \A y \in S : x <= y
  BY <1>3, <1>5
<1> QED BY <1>6 DEF First

\* The given Jobs, and the one after Job k: all Jobs from k on that are given
\* and are not k are behind it.
LEMMA Queue ==
    ASSUME TypeOK, OwnerPlace
    PROVE  /\ First(Given) \in Given /\ Given \subseteq Members
           /\ \A i \in Given : First(Given) <= i
           /\ \A k \in Members :
                 /\ NextAfter(k) \in 1 .. JobCount + 1
                 /\ NextAfter(k) <= JobCount => NextAfter(k) \in Given
                 /\ \A i \in Given : i < NextAfter(k) => i <= k
<1>1. Given \subseteq Members /\ Given # {}
  BY Parameters DEF Given, OwnerPlace
<1>2. First(Given) \in Given /\ \A i \in Given : First(Given) <= i
  BY <1>1, FirstIsLeast
<1>3. ASSUME NEW k \in Members
      PROVE  /\ NextAfter(k) \in 1 .. JobCount + 1
             /\ NextAfter(k) <= JobCount => NextAfter(k) \in Given
             /\ \A i \in Given : i < NextAfter(k) => i <= k
  <2>1. CASE After(k) = {}
    <3>1. \A i \in Given : i <= k
      BY <1>1, <2>1 DEF After, Members
    <3> QED BY <2>1, <3>1, BatchAssumption DEF NextAfter
  <2>2. CASE After(k) # {}
    <3>1. NextAfter(k) \in After(k) /\ \A i \in After(k) : NextAfter(k) <= i
      BY <1>1, <2>2, FirstIsLeast DEF NextAfter, After
    <3>2. NextAfter(k) \in Given /\ NextAfter(k) \in Members
      BY <1>1, <3>1 DEF After
    <3>3. \A i \in Given : i < NextAfter(k) => i <= k
      BY <1>1, <3>1, <3>2 DEF After, Members
    <3> QED BY <3>2, <3>3, BatchAssumption DEF Members
  <2> QED BY <2>1, <2>2
<1> QED BY <1>1, <1>2, <1>3

LEMMA Outcomes ==
    /\ \A s : OutcomeOf(s) \in JobOutcome
    /\ \A s \in JobTerminal : OutcomeOf(s) = s
    /\ \A b : FinalStatus(b) \in BatchTerminal
    /\ JobOutcome = JobTerminal
BY DEF OutcomeOf, JobTerminal, JobOutcome, FinalStatus, BatchTerminal

-----------------------------------------------------------------------------
(* BaseInv: the steps of the owner. *)

LEMMA BaseAssembled ==
    ASSUME jobs' \in [Members -> Job], batch' \in Batch,
           fresh' \in [Actors -> SUBSET Rows], owner' \in OwnerState,
           ctl' \in [Controllers -> Command], token' \in BOOLEAN,
           OwnerPlace', CtlPlace', SaveDoneUnasked'
    PROVE  BaseInv'
BY DEF BaseInv, TypeOK, OwnerState, Command, Rows

\* A step of the owner, but the one to SaveDone.
LEMMA OwnerBase ==
    ASSUME BaseInv, UNCHANGED ctl,
           jobs' \in [Members -> Job], batch' \in Batch,
           fresh' \in [Actors -> SUBSET Rows], owner' \in OwnerState,
           token' \in BOOLEAN, OwnerPlace', owner'.pc # "SaveDone"
    PROVE  BaseInv'
<1>1. CtlPlace' /\ SaveDoneUnasked' /\ ctl' \in [Controllers -> Command]
  BY TypeParts DEF BaseInv, CtlPlace, SaveDoneUnasked
<1> QED BY <1>1, BaseAssembled

\* One that writes and loads nothing.
LEMMA QuietBase ==
    ASSUME BaseInv, UNCHANGED <<jobs, batch, fresh, ctl, token>>,
           owner' \in OwnerState, OwnerPlace', owner'.pc # "SaveDone"
    PROVE  BaseInv'
BY OwnerBase, TypeParts DEF BaseInv

\* One that loads rows.
LEMMA LoadBase ==
    ASSUME BaseInv, UNCHANGED ctl, token' \in BOOLEAN,
           NEW rows \in SUBSET Rows, LoadOnly(Owner, rows),
           owner' \in OwnerState, OwnerPlace', owner'.pc # "SaveDone"
    PROVE  BaseInv'
BY OwnerBase, Loaded, Parameters, TypeParts DEF BaseInv

LEMMA OwnerLeftBase ==
    ASSUME owner' = NoOwner
    PROVE  owner' \in OwnerState /\ OwnerPlace' /\ owner'.pc = "Idle"
BY NoOwnerOK DEF OwnerPlace, AtJobPcs, RunPcs

LEMMA LeavingBase == ASSUME BaseInv, OwnerLeaves, UNCHANGED ctl PROVE BaseInv'
BY OwnerLeftBase, LoadBase DEF OwnerLeaves


LEMMA RecoveryBase == ASSUME BaseInv, Recovery, UNCHANGED ctl PROVE BaseInv'
<1> USE DEF BaseInv
<1>1. \A pc \in OwnerPcs : owner' = [owner EXCEPT !.pc = pc] => owner' \in OwnerState
  BY TypeParts DEF OwnerState
<1>2. ASSUME NEW pc \in {"ListJobs", "RecoverJobs", "RecoverBatch", "Recovered"},
             NEW todo, owner' = [owner EXCEPT !.pc = pc, !.todo = todo],
             ~owner.running
      PROVE  OwnerPlace' /\ owner'.pc # "SaveDone"
  BY <1>2, TypeParts DEF OwnerPlace, OwnerState, AtJobPcs, RunPcs
<1>3. ASSUME NEW pc \in {"ListJobs", "RecoverJobs", "RecoverBatch", "Recovered"},
             owner' = [owner EXCEPT !.pc = pc], ~owner.running
      PROVE  owner' \in OwnerState /\ OwnerPlace' /\ owner'.pc # "SaveDone"
  <2>1. owner' \in OwnerState
    BY <1>1, <1>3 DEF OwnerPcs
  <2>2. OwnerPlace' /\ owner'.pc # "SaveDone"
    BY <1>3, TypeParts DEF OwnerPlace, OwnerState, AtJobPcs, RunPcs
  <2> QED BY <2>1, <2>2
<1>4. CASE VerifyArtifacts
  <2>1. ASSUME NEW k \in Members, NEW s \in Stages,
               jobs' = [jobs EXCEPT ![k] = InvalidateStage(@, s)], Wrote(Owner, k, {})
        PROVE  jobs' \in [Members -> Job] /\ fresh' \in [Actors -> SUBSET Rows]
    BY <2>1, TypeParts, Reopening, Parameters DEF Wrote
  <2>2. jobs' \in [Members -> Job] /\ fresh' \in [Actors -> SUBSET Rows]
    BY <1>4, <2>1, TypeParts DEF VerifyArtifacts
  <2>3. ~owner.running
    BY <1>4 DEF VerifyArtifacts, OwnerPlace
  <2> QED BY <1>3, <1>4, <2>2, <2>3, OwnerBase, TypeParts DEF VerifyArtifacts, OwnerGoes
<1>5. CASE ListJobs
  <2> DEFINE found == {k \in Members : jobs[k].status = "Running"}
  <2>1. /\ owner' = [owner EXCEPT !.pc = "RecoverJobs", !.todo = found]
        /\ LoadOnly(Owner, found) /\ UNCHANGED token /\ ~owner.running
    BY <1>5 DEF ListJobs, OwnerPlace
  <2>2. owner' \in OwnerState
    BY <2>1, TypeParts DEF OwnerState, OwnerPcs
  <2>3. found \in SUBSET Rows
    BY Parameters
  <2> QED BY <1>2, <2>1, <2>2, <2>3, LoadBase, TypeParts
<1>6. CASE RecoverNextJob
  <2> DEFINE k == CHOOSE i \in owner.todo : \A j \in owner.todo : i <= j
  <2>1. k \in Members /\ jobs[k] \in Job /\ owner.todo \in SUBSET Members
    BY <1>6, FirstIsLeast, TypeParts DEF RecoverNextJob, First, OwnerState
  <2> HIDE DEF k
  <2>2. CASE OwnerLeaves
    BY <1>6, <2>2, LeavingBase
  <2>3. CASE /\ SaveJob(Owner, k, Recover(jobs[k]), fresh[Owner] \ {k})
             /\ owner' = [owner EXCEPT !.todo = @ \ {k}]
             /\ UNCHANGED token
    <3>1. owner' \in OwnerState /\ OwnerPlace' /\ owner'.pc # "SaveDone"
      BY <1>6, <2>1, <2>3, TypeParts
         DEF RecoverNextJob, OwnerState, OwnerPlace, AtJobPcs, RunPcs
    <3>2. fresh[Owner] \ {k} \in SUBSET Rows
      BY Parameters, TypeParts
    <3> QED BY <2>1, <2>3, <3>1, <3>2, SavedJob, JobMethods, OwnerBase, Parameters,
               TypeParts
  <2> QED BY <1>6, <2>2, <2>3 DEF RecoverNextJob, k
<1>7. CASE ListBatches
  <2>1. {TheBatch} \in SUBSET Rows /\ ~owner.running
    BY <1>7, Parameters DEF ListBatches, OwnerPlace
  <2> QED BY <1>3, <1>7, <2>1, LoadBase, TypeParts DEF ListBatches, OwnerGoes
<1>8. CASE RecoverTheBatch
  <2>1. CASE OwnerLeaves
    BY <1>8, <2>1, LeavingBase
  <2>2. CASE SaveBatch(Owner, RecoverBatch(batch), {}) /\ OwnerGoes("Recovered")
             /\ UNCHANGED token
    <3>1. ~owner.running /\ RecoverBatch(batch) \in Batch
      BY <1>8, BatchMethods, TypeParts DEF RecoverTheBatch, OwnerPlace
    <3> QED BY <1>3, <2>2, <3>1, SavedBatch, OwnerBase, Parameters, TypeParts DEF OwnerGoes
  <2> QED BY <1>8, <2>1, <2>2 DEF RecoverTheBatch
<1> QED BY <1>4, <1>5, <1>6, <1>7, <1>8 DEF Recovery


LEMMA EntryBase == ASSUME BaseInv, Entry, UNCHANGED ctl PROVE BaseInv'
<1> USE DEF BaseInv
<1>1. CASE OwnerLeaves
  BY <1>1, LeavingBase
<1>2. CASE PrepareRetry
  <2>1. ASSUME NEW s \in Stages,
               owner' = [owner EXCEPT !.pc = "RetryTx", !.stage = s],
               LoadOnly(Owner, {TheBatch, owner.target}), UNCHANGED token
        PROVE  BaseInv'
    <3>1. owner' \in OwnerState /\ OwnerPlace' /\ owner'.pc # "SaveDone"
      BY <1>2, <2>1, Parameters, TypeParts
         DEF PrepareRetry, OwnerState, OwnerPcs, OwnerPlace, AtJobPcs, RunPcs
    <3>2. {TheBatch, owner.target} \in SUBSET Rows
      BY Parameters, TypeParts DEF OwnerState, Rows
    <3> QED BY <2>1, <3>1, <3>2, LoadBase, TypeParts
  <2> QED BY <1>1, <1>2, <2>1 DEF PrepareRetry
<1>3. CASE RetryTransaction
  <2> DEFINE k == owner.target
  <2>1. CASE /\ jobs' = [jobs EXCEPT ![k] = Retry(@, owner.stage)]
             /\ batch' = ReopenBatch(batch, k)
             /\ fresh' = [a \in Actors |-> IF a = Owner THEN {}
                                           ELSE fresh[a] \ {k, TheBatch}]
             /\ owner' = [owner EXCEPT !.pc = "Start", !.stage = 0, !.copy = batch']
             /\ UNCHANGED token
    <3>1. k \in Members /\ owner.stage \in Stages /\ ~owner.running
      BY <1>3 DEF RetryTransaction, OwnerPlace
    <3>2. jobs' \in [Members -> Job] /\ batch' \in Batch
      BY <2>1, <3>1, Reopening, BatchMethods, TypeParts
    <3>3. fresh' \in [Actors -> SUBSET Rows]
      BY <2>1, TypeParts
    <3>4. owner' \in OwnerState
      <4>1. owner' = [owner EXCEPT !.pc = "Start", !.stage = 0, !.copy = batch']
        BY <2>1
      <4> QED BY <3>2, <4>1, Parameters, TypeParts DEF OwnerState, OwnerPcs
    <3>5. OwnerPlace' /\ owner'.pc # "SaveDone"
      BY <2>1, <3>1, TypeParts DEF OwnerState, OwnerPlace, AtJobPcs, RunPcs
    <3> QED BY <2>1, <3>2, <3>3, <3>4, <3>5, OwnerBase, TypeParts
  <2> QED BY <1>1, <1>3, <2>1 DEF RetryTransaction
<1>4. CASE ReadForResume
  <2>1. CASE /\ owner' = [owner EXCEPT !.pc = "Start", !.copy = batch]
             /\ LoadOnly(Owner, {}) /\ UNCHANGED token
    <3>1. owner' \in OwnerState /\ OwnerPlace' /\ owner'.pc # "SaveDone"
      BY <1>4, <2>1, TypeParts
         DEF ReadForResume, OwnerState, OwnerPcs, OwnerPlace, AtJobPcs, RunPcs
    <3> QED BY <2>1, <3>1, LoadBase, TypeParts
  <2> QED BY <1>1, <1>4, <2>1 DEF ReadForResume
<1>5. CASE StartRun
  <2>1. ASSUME NEW pc \in {"SaveStart", "Open"}, OwnerGoes(pc),
               LoadOnly(Owner, {TheBatch}), UNCHANGED token
        PROVE  BaseInv'
    <3>1. owner' \in OwnerState /\ OwnerPlace' /\ owner'.pc # "SaveDone"
      BY <1>5, <2>1, TypeParts
         DEF StartRun, OwnerGoes, OwnerState, OwnerPcs, OwnerPlace, AtJobPcs, RunPcs
    <3>2. {TheBatch} \in SUBSET Rows
      BY Parameters
    <3> QED BY <2>1, <3>1, <3>2, LoadBase, TypeParts
  <2> QED BY <1>1, <1>5, <2>1 DEF StartRun
<1>6. CASE SaveStart
  <2>1. CASE /\ SaveBatch(Owner, StartBatch(owner.copy), {TheBatch})
             /\ owner' = [owner EXCEPT !.pc = "Open", !.copy = batch']
             /\ UNCHANGED token
    <3>1. StartBatch(owner.copy) \in Batch /\ {TheBatch} \in SUBSET Rows
      BY BatchMethods, Parameters, TypeParts DEF OwnerState
    <3>2. /\ batch' \in Batch /\ jobs' = jobs /\ fresh' \in [Actors -> SUBSET Rows]
      BY <2>1, <3>1, SavedBatch, Parameters
    <3>3. owner' \in OwnerState /\ OwnerPlace' /\ owner'.pc # "SaveDone"
      BY <1>6, <2>1, <3>2, TypeParts
         DEF SaveStart, OwnerState, OwnerPcs, OwnerPlace, AtJobPcs, RunPcs
    <3> QED BY <2>1, <3>2, <3>3, OwnerBase, TypeParts
  <2> QED BY <1>1, <1>6, <2>1 DEF SaveStart
<1>7. CASE OpenSession
  <2>1. First(Given) \in Members
    BY Queue
  <2>2. PICK pc \in {"Loop", "FailLoad"} :
           owner' = [owner EXCEPT !.pc = pc, !.next = First(Given)]
    BY <1>7 DEF OpenSession
  <2>3. owner' \in OwnerState
    BY <2>1, <2>2, Parameters, TypeParts DEF OwnerState, OwnerPcs
  <2>4. OwnerPlace' /\ owner'.pc # "SaveDone"
    <3>1. First(Given) >= 1 /\ ~owner.running
      BY <1>7, <2>1, Parameters DEF OpenSession, OwnerPlace
    <3> QED BY <2>2, <3>1, TypeParts DEF OwnerState, OwnerPlace, AtJobPcs, RunPcs
  <2> QED BY <1>7, <2>3, <2>4, QuietBase DEF OpenSession
<1>8. CASE FailLoad
  <2>1. owner.next \in Members
    BY <1>8, Parameters, TypeParts DEF FailLoad, OwnerPlace, OwnerState
  <2>2. NextAfter(owner.next) \in 1 .. JobCount + 1
    BY <2>1, Queue
  <2>3. owner' \in OwnerState /\ OwnerPlace' /\ owner'.pc # "SaveDone"
    BY <1>8, <2>1, <2>2, Parameters, TypeParts
       DEF FailLoad, OwnerGoes, OwnerState, OwnerPcs, OwnerPlace, AtJobPcs, RunPcs
  <2>4. fresh[Owner] \in SUBSET Rows /\ fresh[Owner] \union {owner.next} \in SUBSET Rows
    BY <2>1, Parameters, TypeParts
  <2> QED BY <1>8, <2>3, <2>4, LoadBase, TypeParts DEF FailLoad
<1>9. CASE FailSave
  <2> DEFINE k == owner.next
  <2>1. CASE /\ SaveJob(Owner, k, Fail(jobs[k]), fresh[Owner] \ {k})
             /\ owner' = [owner EXCEPT !.pc = "FailLoad", !.next = NextAfter(k),
                                       !.copy = RecordJob(@, k, "Failed")]
             /\ UNCHANGED token
    <3>1. k \in Members /\ ~owner.running
      BY <1>9 DEF FailSave, OwnerPlace, AtJobPcs
    <3>2. Fail(jobs[k]) \in Job /\ fresh[Owner] \ {k} \in SUBSET Rows
      <4>1. jobs[k] \in Job /\ fresh[Owner] \in SUBSET Rows
        BY <3>1, Parameters, TypeParts
      <4> QED BY <4>1, JobEnds
    <3>3. /\ NextAfter(k) \in 1 .. JobCount + 1
          /\ RecordJob(owner.copy, k, "Failed") \in Batch
      BY <3>1, Queue, BatchMethods, TypeParts DEF OwnerState, JobOutcome
    <3>4. owner' \in OwnerState
      <4>1. /\ owner' = [owner EXCEPT !.pc = "FailLoad", !.next = NextAfter(k),
                                      !.copy = RecordJob(owner.copy, k, "Failed")]
            /\ NextAfter(k) \in 0 .. JobCount + 1
        BY <2>1, <3>3, TypeParts DEF OwnerState
      <4> QED BY <3>3, <4>1, TypeParts DEF OwnerState, OwnerPcs
    <3>5. OwnerPlace' /\ owner'.pc # "SaveDone"
      BY <2>1, <3>1, <3>3, BatchAssumption, TypeParts
         DEF OwnerState, OwnerPlace, AtJobPcs, RunPcs
    <3> QED BY <2>1, <3>1, <3>2, <3>4, <3>5, SavedJob, OwnerBase, Parameters, TypeParts
  <2> QED BY <1>1, <1>9, <2>1 DEF FailSave
<1>10. CASE FailFinish
  <2> DEFINE b == IF CanFinishBatch(owner.copy) THEN FinishBatch(owner.copy, "Failed")
                                                ELSE owner.copy
  <2>1. CASE SaveBatch(Owner, b, {}) /\ owner' = NoOwner /\ token' = FALSE
    <3>1. b \in Batch
      BY BatchMethods, TypeParts DEF OwnerState, BatchTerminal
    <3> HIDE DEF b
    <3> QED BY <2>1, <3>1, SavedBatch, OwnerLeftBase, OwnerBase, Parameters, TypeParts
  <2> QED BY <1>1, <1>10, <2>1 DEF FailFinish
<1> QED BY <1>2, <1>3, <1>4, <1>5, <1>6, <1>7, <1>8, <1>9, <1>10 DEF Entry


LEMMA RecordBase ==
    ASSUME BaseInv, UNCHANGED ctl, NEW k \in Members, k = owner.next, ~owner.running,
           RecordInMemory(k)
    PROVE  BaseInv'
<1> USE DEF BaseInv
<1>1. CASE OwnerLeaves
  BY <1>1, LeavingBase
<1>2. CASE /\ owner' = [owner EXCEPT !.pc = "Record",
                            !.copy = RecordJob(@, k, OutcomeOf(jobs[k].status))]
           /\ UNCHANGED <<jobs, batch, fresh, token>>
  <2>1. RecordJob(owner.copy, k, OutcomeOf(jobs[k].status)) \in Batch
    BY BatchMethods, Outcomes, TypeParts DEF OwnerState
  <2>2. owner' \in OwnerState /\ OwnerPlace' /\ owner'.pc # "SaveDone"
    BY <1>2, <2>1, TypeParts DEF OwnerState, OwnerPcs, OwnerPlace, AtJobPcs, RunPcs
  <2> QED BY <1>2, <2>2, QuietBase
<1> QED BY <1>1, <1>2 DEF RecordInMemory

\* The owner goes on to the next Job.
LEMMA NextBase ==
    ASSUME BaseInv, owner.next \in Members, ~owner.running,
           NEW pc \in {"Loop", "CancelLoad"}, NEW b \in Batch,
           owner' = [owner EXCEPT !.pc = pc, !.next = NextAfter(owner.next), !.copy = b]
    PROVE  owner' \in OwnerState /\ OwnerPlace' /\ owner'.pc # "SaveDone"
<1>1. NextAfter(owner.next) \in 0 .. JobCount + 1 /\ NextAfter(owner.next) >= 1
  BY Queue DEF BaseInv
<1> QED BY <1>1, TypeParts DEF BaseInv, OwnerState, OwnerPcs, OwnerPlace, AtJobPcs, RunPcs

LEMMA GoesBase ==
    ASSUME BaseInv, NEW pc \in OwnerPcs \ {"SaveDone", "RetryTx", "Work", "Skip", "Commit", "Gate"},
           NEW b \in Batch, ~owner.running,
           pc \in AtJobPcs => owner.next \in Members,
           pc \in {"Loop", "FailLoad", "CancelLoad"} => owner.next >= 1,
           owner' = [owner EXCEPT !.pc = pc, !.copy = b]
    PROVE  owner' \in OwnerState /\ OwnerPlace' /\ owner'.pc # "SaveDone"
<1>1. owner' \in OwnerState
  BY TypeParts DEF BaseInv, OwnerState
<1> QED BY <1>1, TypeParts DEF BaseInv, OwnerState, OwnerPlace

LEMMA RunLoopBase == ASSUME BaseInv, RunLoop, UNCHANGED ctl PROVE BaseInv'
<1> USE DEF BaseInv
<1> USE TypeParts, Parameters DEF AtJobPcs
<1>1. CASE OwnerLeaves
  BY <1>1, LeavingBase
<1>2. owner.copy \in Batch /\ {TheBatch} \in SUBSET Rows
  BY DEF OwnerState
<1>3. owner.pc \notin {"Commit", "Error", "SaveFailure", "Reload"} => ~owner.running
  BY DEF OwnerPlace
<1>4. \A pc : OwnerGoes(pc) <=> owner' = [owner EXCEPT !.pc = pc, !.copy = owner.copy]
  BY DEF OwnerGoes, OwnerState
<1>5. CASE LoopTop
  <2>1. PICK pc \in {"Decide", "CancelLoad", "MarkPaused", "Wait", "CheckJob"} :
            owner' = [owner EXCEPT !.copy = batch, !.pc = pc]
    BY <1>5 DEF LoopTop
  <2>2. owner.next \in Members /\ ~owner.running
    BY <1>3, <1>5 DEF LoopTop, OwnerPlace, OwnerState
  <2>3. owner' = [owner EXCEPT !.pc = pc, !.copy = batch]
    BY <2>1
  <2>4. owner' \in OwnerState /\ OwnerPlace' /\ owner'.pc # "SaveDone"
    BY <2>2, <2>3, GoesBase DEF OwnerPcs
  <2> QED BY <1>2, <1>5, <2>4, LoadBase DEF LoopTop
<1>6. CASE SavePaused
  <2>1. CASE /\ SaveBatch(Owner, MarkPaused(owner.copy), {TheBatch})
             /\ OwnerGoes("Wait") /\ UNCHANGED token
    <3>1. owner' \in OwnerState /\ OwnerPlace' /\ owner'.pc # "SaveDone"
      BY <1>2, <1>3, <1>4, <1>6, <2>1, GoesBase DEF SavePaused, OwnerPlace, OwnerPcs
    <3> QED BY <1>2, <2>1, <3>1, BatchMethods, SavedBatch, OwnerBase
  <2> QED BY <1>1, <1>6, <2>1 DEF SavePaused
<1>7. CASE WakeUp
  <2>1. owner' \in OwnerState /\ OwnerPlace' /\ owner'.pc # "SaveDone"
    BY <1>2, <1>3, <1>4, <1>7, GoesBase DEF WakeUp, OwnerPlace, OwnerPcs
  <2> QED BY <1>7, <2>1, QuietBase DEF WakeUp
<1>8. CASE CheckJob
  <2> DEFINE k == owner.next
  <2>1. k \in Members /\ ~owner.running
    BY <1>3, <1>8 DEF CheckJob, OwnerPlace
  <2>2. CASE owner' = [owner EXCEPT !.pc = "LoadJob", !.copy = NewBatch]
             /\ UNCHANGED <<jobs, batch, fresh, token>>
    <3>1. owner' \in OwnerState /\ OwnerPlace' /\ owner'.pc # "SaveDone"
      BY <2>1, <2>2, GoesBase, NewBatchOK DEF OwnerPcs, RunPcs
    <3> QED BY <1>8, <2>2, <3>1, QuietBase DEF CheckJob
  <2>3. CASE owner' = [owner EXCEPT !.pc = "Loop", !.next = NextAfter(k)]
             /\ UNCHANGED <<jobs, batch, fresh, token>>
    <3>1. owner' = [owner EXCEPT !.pc = "Loop", !.next = NextAfter(k), !.copy = owner.copy]
      BY <2>3 DEF OwnerState
    <3>2. owner' \in OwnerState /\ OwnerPlace' /\ owner'.pc # "SaveDone"
      BY <1>2, <2>1, <3>1, NextBase
    <3> QED BY <1>8, <2>3, <3>2, QuietBase DEF CheckJob
  <2> QED BY <1>8, <2>1, <2>2, <2>3, RecordBase DEF CheckJob
<1>9. CASE SaveRecord
  <2>1. CASE /\ SaveBatch(Owner, owner.copy, {TheBatch})
             /\ owner' = [owner EXCEPT !.pc = "Loop", !.next = NextAfter(@)]
             /\ UNCHANGED token
    <3>1. owner' = [owner EXCEPT !.pc = "Loop", !.next = NextAfter(owner.next),
                                 !.copy = owner.copy]
      BY <2>1 DEF OwnerState
    <3>2. owner.next \in Members /\ ~owner.running
      BY <1>3, <1>9 DEF SaveRecord, OwnerPlace
    <3>3. owner' \in OwnerState /\ OwnerPlace' /\ owner'.pc # "SaveDone"
      BY <1>2, <3>1, <3>2, NextBase
    <3> QED BY <1>2, <2>1, <3>3, SavedBatch, OwnerBase
  <2> QED BY <1>1, <1>9, <2>1 DEF SaveRecord
<1>10. CASE AfterRun
  <2>1. owner.next \in Members /\ ~owner.running
    BY <1>3, <1>10 DEF AfterRun, OwnerPlace, RunPcs
  <2>2. owner' \in OwnerState /\ OwnerPlace' /\ owner'.pc # "SaveDone"
    BY <1>10, <2>1, GoesBase DEF AfterRun, OwnerPcs
  <2> QED BY <1>2, <1>10, <2>2, LoadBase DEF AfterRun
<1>11. CASE ReadOutcome
  <2>1. owner.next \in Members /\ ~owner.running
    BY <1>3, <1>11 DEF ReadOutcome, OwnerPlace
  <2>2. CASE owner' = [owner EXCEPT !.pc = "Loop", !.next = NextAfter(@)]
             /\ UNCHANGED <<jobs, batch, fresh, token>>
    <3>1. owner' = [owner EXCEPT !.pc = "Loop", !.next = NextAfter(owner.next),
                                 !.copy = owner.copy]
      BY <2>2 DEF OwnerState
    <3>2. owner' \in OwnerState /\ OwnerPlace' /\ owner'.pc # "SaveDone"
      BY <1>2, <2>1, <3>1, NextBase
    <3> QED BY <1>11, <2>2, <3>2, QuietBase DEF ReadOutcome
  <2> QED BY <1>11, <2>1, <2>2, RecordBase DEF ReadOutcome
<1>12. CASE CancelLoad
  <2>1. owner.next \in Members /\ ~owner.running
    BY <1>3, <1>12 DEF CancelLoad, OwnerPlace, OwnerState
  <2>2. PICK pc \in {"CancelRecord", "CancelSave"} : OwnerGoes(pc)
    BY <1>12 DEF CancelLoad, OwnerGoes
  <2>3. owner' \in OwnerState /\ OwnerPlace' /\ owner'.pc # "SaveDone"
    BY <1>2, <1>4, <2>1, <2>2, GoesBase DEF OwnerPcs
  <2>4. fresh[Owner] \in SUBSET Rows /\ fresh[Owner] \union {owner.next} \in SUBSET Rows
    BY <2>1
  <2> QED BY <1>12, <2>3, <2>4, LoadBase DEF CancelLoad
<1>13. CASE CancelSave
  <2> DEFINE k == owner.next
  <2>1. CASE /\ SaveJob(Owner, k, Cancel(jobs[k]), fresh[Owner] \ {k})
             /\ OwnerGoes("CancelRecord") /\ UNCHANGED token
    <3>1. k \in Members /\ ~owner.running
      BY <1>3, <1>13 DEF CancelSave, OwnerPlace
    <3>2. Cancel(jobs[k]) \in Job /\ fresh[Owner] \ {k} \in SUBSET Rows
      <4>1. jobs[k] \in Job /\ fresh[Owner] \in SUBSET Rows
        BY <3>1
      <4> QED BY <4>1, JobEnds
    <3>3. owner' \in OwnerState /\ OwnerPlace' /\ owner'.pc # "SaveDone"
      BY <1>2, <1>4, <2>1, <3>1, GoesBase DEF OwnerPcs
    <3>4. /\ jobs' \in [Members -> Job] /\ batch' = batch
          /\ fresh' \in [Actors -> SUBSET Rows]
      BY <2>1, <3>1, <3>2, SavedJob
    <3> QED BY <2>1, <3>3, <3>4, OwnerBase
  <2> QED BY <1>1, <1>13, <2>1 DEF CancelSave
<1>14. CASE CancelRecord
  <2> DEFINE k == owner.next
             b == IF HasRecord(owner.copy, k) THEN owner.copy
                  ELSE RecordJob(owner.copy, k, OutcomeOf(jobs[k].status))
  <2>1. CASE /\ owner' = [owner EXCEPT !.pc = "CancelLoad", !.next = NextAfter(k), !.copy = b]
             /\ UNCHANGED <<jobs, batch, fresh, token>>
    <3>1. k \in Members /\ ~owner.running
      BY <1>3, <1>14 DEF CancelRecord, OwnerPlace
    <3>2. b \in Batch
      BY <1>2, <3>1, BatchMethods, Outcomes
    <3>3. owner' \in OwnerState /\ OwnerPlace' /\ owner'.pc # "SaveDone"
      BY <2>1, <3>1, <3>2, NextBase
    <3> QED BY <2>1, <3>3, QuietBase
  <2> QED BY <1>1, <1>14, <2>1 DEF CancelRecord
<1>15. CASE CancelSaveBatch
  <2>1. CASE /\ SaveBatch(Owner, owner.copy, {TheBatch}) /\ OwnerGoes("Decide")
             /\ UNCHANGED token
    <3>1. owner' \in OwnerState /\ OwnerPlace' /\ owner'.pc # "SaveDone"
      BY <1>2, <1>3, <1>4, <1>15, <2>1, GoesBase DEF CancelSaveBatch, OwnerPcs, RunPcs
    <3> QED BY <1>2, <2>1, <3>1, SavedBatch, OwnerBase
  <2> QED BY <1>1, <1>15, <2>1 DEF CancelSaveBatch
<1>16. CASE LoopEnd
  <2>1. owner' \in OwnerState /\ OwnerPlace' /\ owner'.pc # "SaveDone"
    BY <1>2, <1>3, <1>4, <1>16, GoesBase DEF LoopEnd, OwnerPcs, RunPcs
  <2> QED BY <1>16, <2>1, QuietBase DEF LoopEnd
<1>17. CASE Decide
  <2> DEFINE b == IF owner.copy.status = "Paused" THEN ResumeBatch(owner.copy)
                                                  ELSE owner.copy
  <2>1. CASE owner' = [owner EXCEPT !.pc = "Finish", !.copy = FinishBatch(b, FinalStatus(b))]
             /\ UNCHANGED <<jobs, batch, fresh, token>>
    <3>1. b \in Batch
      BY <1>2, BatchMethods
    <3> HIDE DEF b
    <3>2. FinishBatch(b, FinalStatus(b)) \in Batch
      BY <3>1, BatchMethods, Outcomes
    <3>3. owner' \in OwnerState /\ OwnerPlace' /\ owner'.pc # "SaveDone"
      BY <1>3, <1>17, <2>1, <3>2, GoesBase DEF Decide, OwnerPcs, RunPcs
    <3> QED BY <1>17, <2>1, <3>3, QuietBase DEF Decide
  <2> QED BY <1>1, <1>17, <2>1 DEF Decide
<1>18. CASE SaveFinish
  <2>1. CASE SaveBatch(Owner, owner.copy, {}) /\ owner' = NoOwner /\ token' = FALSE
    <3>1. /\ batch' \in Batch /\ jobs' = jobs /\ fresh' \in [Actors -> SUBSET Rows]
      BY <1>2, <2>1, SavedBatch
    <3> QED BY <2>1, <3>1, OwnerLeftBase, OwnerBase
  <2> QED BY <1>1, <1>18, <2>1 DEF SaveFinish
<1> QED BY <1>5, <1>6, <1>7, <1>8, <1>9, <1>10, <1>11, <1>12, <1>13, <1>14, <1>15, <1>16,
           <1>17, <1>18 DEF RunLoop


\* The owner moves within the run of a Job; the stage and what runs may change.
LEMMA RunMoves ==
    ASSUME BaseInv, owner.next \in Members, NEW pc \in RunPcs, pc # "SaveDone",
           NEW s \in 0 .. StageCount + 1, NEW running \in BOOLEAN,
           owner' = [owner EXCEPT !.pc = pc, !.stage = s, !.running = running],
           pc \in {"Work", "Skip", "Commit"} => s \in Stages,
           pc = "Gate" => s >= 1,
           running => pc \in {"Commit", "Error", "SaveFailure", "Reload"} /\ s \in Stages
    PROVE  owner' \in OwnerState /\ OwnerPlace' /\ owner'.pc # "SaveDone"
<1>1. owner \in OwnerState
  BY TypeParts DEF BaseInv
<1>2. pc \in OwnerPcs
  BY DEF OwnerPcs, RunPcs
<1>3. owner' \in OwnerState
  BY <1>1, <1>2 DEF OwnerState
<1>4. /\ owner'.pc = pc /\ owner'.stage = s /\ owner'.running = running
      /\ owner'.next = owner.next /\ owner'.purpose = owner.purpose
      /\ owner'.target = owner.target
  BY TypeParts DEF BaseInv, OwnerState
<1> QED BY <1>3, <1>4 DEF BaseInv, OwnerPlace, RunPcs

LEMMA TranscribeBase == ASSUME BaseInv, Transcribe, UNCHANGED ctl PROVE BaseInv'
<1> USE TypeParts, Parameters DEF BaseInv, RunPcs
<1> DEFINE k == owner.next
<1>1. k \in Members /\ k = Current
  BY DEF Transcribe, LoadJob, EnterJob, TouchJob, StartJob, EnterError, Gate,
         SourceChanged, ReuseStage, DoStage, BlockedStage, CommitSkip, CommitWork,
         FinishJob, HandleError, SaveFailure, ReloadJob, CancelHere, OwnerPlace, AtJobPcs,
         Current
<1>2. /\ jobs[k] \in Job /\ {k} \in SUBSET Rows /\ owner.copy \in Batch
      /\ owner.stage \in 0 .. StageCount + 1 /\ owner.running \in BOOLEAN
      /\ UNCHANGED <<jobs, batch, fresh>> =>
             /\ jobs' \in [Members -> Job] /\ batch' \in Batch
             /\ fresh' \in [Actors -> SUBSET Rows]
  BY <1>1 DEF OwnerState
<1>3. ASSUME NEW j \in Job, NEW keep \in SUBSET Rows, SaveJob(Owner, k, j, keep)
      PROVE  /\ jobs' \in [Members -> Job] /\ batch' \in Batch
             /\ fresh' \in [Actors -> SUBSET Rows]
  BY <1>1, <1>3, SavedJob
<1>4. \A pc : OwnerGoes(pc) <=> owner' = [owner EXCEPT !.pc = pc, !.stage = owner.stage,
                                                       !.running = owner.running]
  BY DEF OwnerGoes, OwnerState
<1>5. /\ owner.pc \notin {"Commit", "Error", "SaveFailure", "Reload"} => ~owner.running
      /\ owner.running => owner.stage \in Stages
      /\ owner.pc \in {"Work", "Skip", "Commit"} => owner.stage \in Stages
      /\ owner.stage \in Stages =>
             owner.stage + 1 \in 0 .. StageCount + 1 /\ owner.stage + 1 >= 1
  BY <1>2 DEF OwnerPlace
<1> HIDE TypeParts, Parameters DEF k
<1>6. CASE LoadJob
  <2>1. owner' \in OwnerState /\ OwnerPlace' /\ owner'.pc # "SaveDone"
    BY <1>1, <1>2, <1>4, <1>5, <1>6, RunMoves DEF LoadJob, k
  <2> QED BY <1>1, <1>2, <1>6, <2>1, LoadBase, TypeParts DEF LoadJob
<1>7. CASE EnterJob
  <2>1. owner' \in OwnerState /\ OwnerPlace' /\ owner'.pc # "SaveDone"
    BY <1>1, <1>2, <1>4, <1>5, <1>7, RunMoves DEF EnterJob, k
  <2> QED BY <1>7, <2>1, QuietBase DEF EnterJob
<1>8. CASE TouchJob
  <2>1. owner' \in OwnerState /\ OwnerPlace' /\ owner'.pc # "SaveDone"
    BY <1>1, <1>2, <1>4, <1>5, <1>8, RunMoves DEF TouchJob, k
  <2> QED BY <1>1, <1>2, <1>3, <1>8, <2>1, OwnerBase, TypeParts DEF TouchJob
<1>9. CASE StartJob
  <2>1. CASE /\ SaveJob(Owner, k, Start(jobs[k]), {k})
             /\ owner' = [owner EXCEPT !.pc = "Gate", !.stage = 1]
    <3>1. /\ owner' = [owner EXCEPT !.pc = "Gate", !.stage = 1, !.running = owner.running]
          /\ ~owner.running
      BY <1>5, <1>9, <2>1, TypeParts DEF StartJob, OwnerState
    <3>2. 1 \in 0 .. StageCount + 1 /\ 1 >= 1
      BY JobAssumption
    <3>3. owner' \in OwnerState /\ OwnerPlace' /\ owner'.pc # "SaveDone"
      BY <1>1, <1>2, <3>1, <3>2, RunMoves DEF k
    <3>4. Start(jobs[k]) \in Job
      BY <1>2, JobMethods
    <3> QED BY <1>2, <1>3, <1>9, <2>1, <3>3, <3>4, OwnerBase, TypeParts DEF StartJob
  <2>2. CASE OwnerGoes("EnterError") /\ UNCHANGED <<jobs, batch, fresh>>
    <3>1. owner' \in OwnerState /\ OwnerPlace' /\ owner'.pc # "SaveDone"
      BY <1>1, <1>2, <1>4, <1>5, <1>9, <2>2, RunMoves DEF StartJob, k
    <3> QED BY <1>9, <2>2, <3>1, QuietBase DEF StartJob
  <2> QED BY <1>1, <1>9, <2>1, <2>2 DEF StartJob
<1>10. CASE EnterError
  <2>1. owner' \in OwnerState /\ OwnerPlace' /\ owner'.pc # "SaveDone"
    BY <1>1, <1>2, <1>4, <1>5, <1>10, RunMoves DEF EnterError, k
  <2> QED BY <1>10, <2>1, QuietBase DEF EnterError
<1>11. CASE Gate
  <2>1. CASE OwnerGoes("SaveDone") /\ ~CancelSeen
    <3>1. owner' \in OwnerState /\ OwnerPlace' /\ owner'.pc = "SaveDone" /\ owner'.next = k
      BY <1>1, <1>5, <1>11, <2>1, TypeParts
         DEF Gate, OwnerGoes, OwnerState, OwnerPcs, OwnerPlace, AtJobPcs, k
    <3>2. ~jobs[k].cancel_requested
      BY <1>1, <2>1 DEF CancelSeen
    <3>3. SaveDoneUnasked' /\ CtlPlace'
      BY <1>11, <3>1, <3>2 DEF Gate, SaveDoneUnasked, CtlPlace
    <3> QED BY <1>11, <3>1, <3>3, BaseAssembled, TypeParts DEF Gate
  <2>2. ASSUME NEW pc \in {"Reload", "Work"}, OwnerGoes(pc),
               pc = "Work" => owner.stage <= StageCount
        PROVE  BaseInv'
    <3>1. pc = "Work" => owner.stage \in Stages
      BY <1>2, <1>11, <2>2, Parameters DEF Gate, OwnerPlace
    <3>2. owner' \in OwnerState /\ OwnerPlace' /\ owner'.pc # "SaveDone"
      BY <1>1, <1>2, <1>4, <1>5, <1>11, <2>2, <3>1, RunMoves DEF Gate, k
    <3> QED BY <1>11, <3>2, QuietBase DEF Gate
  <2> QED BY <1>11, <2>1, <2>2 DEF Gate
<1>12. CASE SourceChanged
  <2>1. owner' \in OwnerState /\ OwnerPlace' /\ owner'.pc # "SaveDone"
    BY <1>1, <1>2, <1>4, <1>5, <1>12, RunMoves DEF SourceChanged, k
  <2> QED BY <1>12, <2>1, QuietBase DEF SourceChanged
<1>13. CASE ReuseStage
  <2>1. CASE owner' = [owner EXCEPT !.pc = "Gate", !.stage = @ + 1]
    <3>1. owner' = [owner EXCEPT !.pc = "Gate", !.stage = owner.stage + 1,
                                 !.running = owner.running]
      BY <2>1, TypeParts DEF OwnerState
    <3>2. owner' \in OwnerState /\ OwnerPlace' /\ owner'.pc # "SaveDone"
      BY <1>1, <1>2, <1>5, <1>13, <3>1, RunMoves DEF ReuseStage, k
    <3> QED BY <1>13, <3>2, QuietBase DEF ReuseStage
  <2>2. CASE OwnerGoes("Error")
    <3>1. owner' \in OwnerState /\ OwnerPlace' /\ owner'.pc # "SaveDone"
      BY <1>1, <1>2, <1>4, <1>5, <1>13, <2>2, RunMoves DEF ReuseStage, k
    <3> QED BY <1>13, <3>1, QuietBase DEF ReuseStage
  <2> QED BY <1>13, <2>1, <2>2 DEF ReuseStage
<1>14. CASE DoStage
  <2>1. ASSUME NEW pc \in {"Skip", "Reload"}, OwnerGoes(pc)
        PROVE  owner' \in OwnerState /\ OwnerPlace' /\ owner'.pc # "SaveDone"
    BY <1>1, <1>2, <1>4, <1>5, <1>14, <2>1, RunMoves DEF DoStage, k
  <2>2. ASSUME NEW pc \in {"Commit", "Error"},
               owner' = [owner EXCEPT !.pc = pc, !.running = TRUE]
        PROVE  owner' \in OwnerState /\ OwnerPlace' /\ owner'.pc # "SaveDone"
    <3>1. owner' = [owner EXCEPT !.pc = pc, !.stage = owner.stage, !.running = TRUE]
      BY <2>2, TypeParts DEF OwnerState
    <3> QED BY <1>1, <1>2, <1>5, <1>14, <3>1, RunMoves DEF DoStage, k
  <2>3. owner' \in OwnerState /\ OwnerPlace' /\ owner'.pc # "SaveDone"
    BY <1>14, <2>1, <2>2 DEF DoStage
  <2> QED BY <1>14, <2>3, QuietBase DEF DoStage
<1>15. CASE BlockedStage
  <2>1. owner' \in OwnerState /\ OwnerPlace' /\ owner'.pc # "SaveDone"
    BY <1>1, <1>2, <1>4, <1>5, <1>15, RunMoves DEF BlockedStage, k
  <2> QED BY <1>15, <2>1, QuietBase DEF BlockedStage
<1>16. CASE CommitSkip
  <2>1. ASSUME NEW pc \in {"Gate", "Work"}, pc = "Work" => owner.stage < StageCount,
               SaveJob(Owner, k, SkipStage(jobs[k], owner.stage), {k}),
               owner' = [owner EXCEPT !.pc = pc, !.stage = @ + 1]
        PROVE  BaseInv'
    <3>1. owner' = [owner EXCEPT !.pc = pc, !.stage = owner.stage + 1,
                                 !.running = owner.running]
      BY <2>1, TypeParts DEF OwnerState
    <3>2. pc = "Work" => owner.stage + 1 \in Stages
      <4>1. owner.stage \in Stages
        BY <1>5, <1>16 DEF CommitSkip
      <4> QED BY <2>1, <4>1, JobAssumption DEF Stages
    <3>3. owner' \in OwnerState /\ OwnerPlace' /\ owner'.pc # "SaveDone"
      BY <1>1, <1>2, <1>5, <1>16, <3>1, <3>2, RunMoves DEF CommitSkip, k
    <3>4. SkipStage(jobs[k], owner.stage) \in Job
      BY <1>2, <1>5, <1>16, StageMethods DEF CommitSkip
    <3> QED BY <1>2, <1>3, <1>16, <2>1, <3>3, <3>4, OwnerBase, TypeParts DEF CommitSkip
  <2>2. CASE OwnerGoes("Error") /\ UNCHANGED <<jobs, batch, fresh>>
    <3>1. owner' \in OwnerState /\ OwnerPlace' /\ owner'.pc # "SaveDone"
      BY <1>1, <1>2, <1>4, <1>5, <1>16, <2>2, RunMoves DEF CommitSkip, k
    <3> QED BY <1>16, <2>2, <3>1, QuietBase DEF CommitSkip
  <2> QED BY <1>1, <1>16, <2>1, <2>2 DEF CommitSkip
<1>17. CASE CommitWork
  <2>1. ASSUME NEW degraded \in BOOLEAN,
               SaveJob(Owner, k, CompleteStage(StartStage(jobs[k], owner.stage),
                                               owner.stage, Artifact, degraded), {k}),
               owner' = [owner EXCEPT !.pc = "Gate", !.stage = @ + 1, !.running = FALSE]
        PROVE  BaseInv'
    <3>1. owner' = [owner EXCEPT !.pc = "Gate", !.stage = owner.stage + 1,
                                 !.running = FALSE]
      BY <2>1, TypeParts DEF OwnerState
    <3>2. owner' \in OwnerState /\ OwnerPlace' /\ owner'.pc # "SaveDone"
      BY <1>1, <1>2, <1>5, <1>17, <3>1, RunMoves DEF CommitWork, k
    <3>3. CompleteStage(StartStage(jobs[k], owner.stage), owner.stage, Artifact, degraded)
              \in Job
      BY <1>2, <1>5, <1>17, StageMethods DEF CommitWork
    <3> QED BY <1>2, <1>3, <1>17, <2>1, <3>2, <3>3, OwnerBase, TypeParts DEF CommitWork
  <2>2. CASE OwnerGoes("Error") /\ UNCHANGED <<jobs, batch, fresh>>
    <3>1. owner' \in OwnerState /\ OwnerPlace' /\ owner'.pc # "SaveDone"
      BY <1>1, <1>2, <1>4, <1>5, <1>17, <2>2, RunMoves DEF CommitWork, k
    <3> QED BY <1>17, <2>2, <3>1, QuietBase DEF CommitWork
  <2> QED BY <1>1, <1>17, <2>1, <2>2 DEF CommitWork
<1>18. CASE FinishJob
  <2>1. CASE /\ SaveJob(Owner, k, Finish(jobs[k]), {})
             /\ owner' = [owner EXCEPT !.pc = "AfterRun", !.stage = 0]
    <3>1. owner' = [owner EXCEPT !.pc = "AfterRun", !.stage = 0, !.running = owner.running]
      BY <2>1, TypeParts DEF OwnerState
    <3>2. owner' \in OwnerState /\ OwnerPlace' /\ owner'.pc # "SaveDone"
      BY <1>1, <1>2, <1>5, <1>18, <3>1, RunMoves, Parameters DEF FinishJob, k
    <3>3. Finish(jobs[k]) \in Job
      BY <1>2, JobEnds
    <3> QED BY <1>2, <1>3, <1>18, <2>1, <3>2, <3>3, OwnerBase, TypeParts DEF FinishJob
  <2>2. CASE OwnerGoes("Error") /\ UNCHANGED <<jobs, batch, fresh>>
    <3>1. owner' \in OwnerState /\ OwnerPlace' /\ owner'.pc # "SaveDone"
      BY <1>1, <1>2, <1>4, <1>5, <1>18, <2>2, RunMoves DEF FinishJob, k
    <3> QED BY <1>18, <2>2, <3>1, QuietBase DEF FinishJob
  <2> QED BY <1>1, <1>18, <2>1, <2>2 DEF FinishJob
<1>19. CASE HandleError
  <2>1. owner' \in OwnerState /\ OwnerPlace' /\ owner'.pc # "SaveDone"
    BY <1>1, <1>2, <1>4, <1>5, <1>19, RunMoves DEF HandleError, k
  <2> QED BY <1>19, <2>1, QuietBase DEF HandleError
<1>20. CASE SaveFailure
  <2> DEFINE failed == IF owner.running
                       THEN FailStage(StartStage(jobs[k], owner.stage), owner.stage)
                       ELSE Cancel(jobs[k])
  <2>1. owner' \in OwnerState /\ OwnerPlace' /\ owner'.pc # "SaveDone"
    BY <1>1, <1>2, <1>20, RunMoves, Parameters DEF SaveFailure, k
  <2>2. failed \in Job
    BY <1>2, <1>5, StageMethods, JobEnds
  <2> HIDE DEF failed
  <2>3. SaveJob(Owner, k, failed, {}) \/ UNCHANGED <<jobs, batch, fresh>>
    BY <1>1, <1>20 DEF SaveFailure, failed
  <2> QED BY <1>2, <1>3, <1>20, <2>1, <2>2, <2>3, OwnerBase, TypeParts DEF SaveFailure
<1>21. CASE ReloadJob
  <2>1. owner' \in OwnerState /\ OwnerPlace' /\ owner'.pc # "SaveDone"
    BY <1>1, <1>2, <1>21, RunMoves, Parameters DEF ReloadJob, k
  <2> QED BY <1>1, <1>2, <1>21, <2>1, LoadBase, TypeParts DEF ReloadJob
<1>22. CASE CancelHere
  <2>1. owner' \in OwnerState /\ OwnerPlace' /\ owner'.pc # "SaveDone"
    BY <1>1, <1>2, <1>4, <1>5, <1>22, RunMoves DEF CancelHere, k
  <2>2. Cancel(jobs[k]) \in Job
    BY <1>2, JobEnds
  <2> QED BY <1>1, <1>2, <1>3, <1>22, <2>1, <2>2, OwnerBase, TypeParts DEF CancelHere
<1> QED BY <1>6, <1>7, <1>8, <1>9, <1>10, <1>11, <1>12, <1>13, <1>14, <1>15, <1>16, <1>17,
           <1>18, <1>19, <1>20, <1>21, <1>22 DEF Transcribe


-----------------------------------------------------------------------------
(* BaseInv: the steps of the controllers and the crashes. *)

\* A step of a controller: it writes a row, and then no other copy of that row
\* is current, or it writes none.
LEMMA ControllerBase ==
    ASSUME BaseInv, NEW c \in Controllers,
           jobs' \in [Members -> Job], batch' \in Batch,
           fresh' \in [Actors -> SUBSET Rows],
           owner' \in OwnerState, OwnerPlace', token' \in BOOLEAN,
           owner' = owner \/ owner'.pc # "SaveDone",
           NEW cmd \in Command, ctl' = [ctl EXCEPT ![c] = cmd],
           cmd.pc \in {"LoadJob", "SaveJob", "EachSave"} => cmd.next \in Members,
           cmd.pc = "EachJob" => cmd.next >= 1,
           fresh'[Owner] \subseteq fresh[Owner],
           \A k \in Members : k \in fresh'[Owner] => jobs'[k] = jobs[k]
    PROVE  BaseInv'
<1> USE DEF BaseInv
<1>1. ctl' \in [Controllers -> Command] /\ CtlPlace'
  BY TypeParts DEF CtlPlace
<1>2. SaveDoneUnasked'
  BY DEF SaveDoneUnasked, OwnerPlace, AtJobPcs, RunPcs
<1> QED BY <1>1, <1>2, BaseAssembled

LEMMA ControllerLoads ==
    ASSUME BaseInv, NEW c \in Controllers, NEW rows \in SUBSET Rows, LoadOnly(c, rows),
           NEW cmd \in Command, ctl' = [ctl EXCEPT ![c] = cmd],
           cmd.pc \in {"LoadJob", "SaveJob", "EachSave"} => cmd.next \in Members,
           cmd.pc = "EachJob" => cmd.next >= 1,
           UNCHANGED owner, token' \in BOOLEAN
    PROVE  BaseInv'
<1>1. c \in Actors /\ c # Owner
  BY Parameters
<1>2. OwnerPlace' /\ owner' \in OwnerState
  BY TypeParts DEF BaseInv, OwnerPlace
<1>3. /\ jobs' \in [Members -> Job] /\ batch' \in Batch /\ jobs' = jobs
      /\ fresh' \in [Actors -> SUBSET Rows] /\ fresh'[Owner] = fresh[Owner]
  BY <1>1, Loaded, Parameters, TypeParts DEF BaseInv
<1> QED BY <1>2, <1>3, ControllerBase

LEMMA ControllerSavesBatch ==
    ASSUME BaseInv, NEW c \in Controllers, NEW b \in Batch, NEW keep \in SUBSET Rows,
           SaveBatch(c, b, keep),
           NEW cmd \in Command, ctl' = [ctl EXCEPT ![c] = cmd],
           cmd.pc \in {"LoadJob", "SaveJob", "EachSave"} => cmd.next \in Members,
           cmd.pc = "EachJob" => cmd.next >= 1,
           UNCHANGED <<owner, token>>
    PROVE  BaseInv'
<1>1. c \in Actors /\ c # Owner
  BY Parameters
<1>2. OwnerPlace' /\ owner' \in OwnerState /\ token' \in BOOLEAN
  BY TypeParts DEF BaseInv, OwnerPlace
<1>3. /\ jobs' \in [Members -> Job] /\ batch' \in Batch /\ jobs' = jobs
      /\ fresh' \in [Actors -> SUBSET Rows] /\ fresh'[Owner] \subseteq fresh[Owner]
  BY <1>1, SavedBatch, Parameters, TypeParts DEF BaseInv
<1> QED BY <1>2, <1>3, ControllerBase

LEMMA ControllerSavesJob ==
    ASSUME BaseInv, NEW c \in Controllers, NEW k \in Members, NEW j \in Job,
           NEW keep \in SUBSET Rows, SaveJob(c, k, j, keep),
           NEW cmd \in Command, ctl' = [ctl EXCEPT ![c] = cmd],
           cmd.pc \in {"LoadJob", "SaveJob", "EachSave"} => cmd.next \in Members,
           cmd.pc = "EachJob" => cmd.next >= 1,
           UNCHANGED <<owner, token>>
    PROVE  BaseInv'
<1>1. c \in Actors /\ c # Owner
  BY Parameters
<1>2. OwnerPlace' /\ owner' \in OwnerState /\ token' \in BOOLEAN
  BY TypeParts DEF BaseInv, OwnerPlace
<1>3. /\ jobs' \in [Members -> Job] /\ batch' \in Batch
      /\ fresh' \in [Actors -> SUBSET Rows] /\ fresh'[Owner] = fresh[Owner] \ {k}
      /\ \A i \in Members : i # k => jobs'[i] = jobs[i]
  BY <1>1, SavedJob, Parameters, TypeParts DEF BaseInv
<1>4. \A i \in Members : i \in fresh'[Owner] => jobs'[i] = jobs[i]
  BY <1>3
<1> QED BY <1>2, <1>3, <1>4, ControllerBase

LEMMA CommandOver ==
    ASSUME BaseInv, NEW c \in Controllers, CtlDone(c), UNCHANGED owner, token' \in BOOLEAN
    PROVE  BaseInv'
BY ControllerLoads, NoOwnerOK DEF CtlDone

LEMMA CancelOrRequestOK ==
    ASSUME NEW j \in Job
    PROVE  CancelOrRequest(j) \in Job
BY JobMethods, JobEnds DEF CancelOrRequest

LEMMA BeginBase ==
    ASSUME BaseInv, NEW c \in Controllers, CtlBegin(c)
    PROVE  BaseInv'
<1> USE TypeParts DEF BaseInv
<1>1. ctl[c] \in Command /\ {TheBatch} \in SUBSET Rows
  BY Parameters
<1>2. \A K : Signal(c, K) => token' \in BOOLEAN
  BY DEF Signal
<1>3. UNCHANGED <<jobs, batch, fresh>> => LoadOnly(c, fresh[c]) /\ fresh[c] \in SUBSET Rows
  BY Parameters DEF LoadOnly, Keep
<1>4. CASE BeginCancelJob(c)
  <2>1. PICK k \in Members : ctl' = [ctl EXCEPT ![c].pc = "LoadJob", ![c].next = k]
    BY <1>4 DEF BeginCancelJob
  <2> DEFINE cmd == [ctl[c] EXCEPT !.pc = "LoadJob", !.next = k]
  <2>2. /\ cmd \in Command /\ ctl' = [ctl EXCEPT ![c] = cmd]
        /\ cmd.pc = "LoadJob" /\ cmd.next = k
    BY <1>1, <2>1, Parameters DEF Command, CtlPcs
  <2> HIDE DEF cmd
  <2> QED BY <1>2, <1>3, <1>4, <2>2, ControllerLoads DEF BeginCancelJob
<1>5. CASE BeginCancelBatch(c)
  <2> DEFINE cmd == [ctl[c] EXCEPT !.pc = "LoadBatch"]
  <2>1. cmd \in Command /\ ctl' = [ctl EXCEPT ![c] = cmd] /\ cmd.pc = "LoadBatch"
    BY <1>1, <1>5 DEF BeginCancelBatch, CtlGoes, Command, CtlPcs
  <2> HIDE DEF cmd
  <2> QED BY <1>2, <1>3, <1>5, <2>1, ControllerLoads DEF BeginCancelBatch
<1>6. ASSUME NEW pc \in {"SavePause", "SaveResume"},
             ctl' = [ctl EXCEPT ![c].pc = pc, ![c].copy = batch],
             LoadOnly(c, {TheBatch}), UNCHANGED <<owner, token>>
      PROVE  BaseInv'
  <2> DEFINE cmd == [ctl[c] EXCEPT !.pc = pc, !.copy = batch]
  <2>1. cmd \in Command /\ ctl' = [ctl EXCEPT ![c] = cmd] /\ cmd.pc = pc
    BY <1>1, <1>6 DEF Command, CtlPcs
  <2> HIDE DEF cmd
  <2> QED BY <1>1, <1>6, <2>1, ControllerLoads
<1> QED BY <1>4, <1>5, <1>6 DEF CtlBegin, BeginPause, BeginResume


LEMMA StepBase ==
    ASSUME BaseInv, NEW c \in Controllers, CtlStep(c)
    PROVE  BaseInv'
<1> USE DEF BaseInv
<1> DEFINE k == ctl[c].next
<1>1. /\ ctl[c] \in Command /\ c \in Actors /\ {TheBatch} \in SUBSET Rows
      /\ fresh[c] \in SUBSET Rows /\ ctl[c].copy \in Batch /\ token \in BOOLEAN
      /\ NoCommand \in Command /\ NoCommand.pc = "Idle"
  BY Parameters, NoOwnerOK, TypeParts DEF Command
<1>2. ctl[c].pc \in {"LoadJob", "SaveJob", "EachSave"} =>
          k \in Members /\ jobs[k] \in Job /\ {k} \in SUBSET Rows
  BY Parameters, TypeParts DEF CtlPlace
<1>3. ASSUME CtlDone(c), UNCHANGED <<owner, token>> PROVE BaseInv'
  BY <1>1, <1>3, CommandOver
<1>4. ASSUME NEW pc \in CtlPcs, CtlGoes(c, pc)
      PROVE  /\ [ctl[c] EXCEPT !.pc = pc] \in Command
             /\ ctl' = [ctl EXCEPT ![c] = [ctl[c] EXCEPT !.pc = pc]]
             /\ [ctl[c] EXCEPT !.pc = pc].pc = pc /\ [ctl[c] EXCEPT !.pc = pc].next = k
  BY <1>1, <1>4 DEF CtlGoes, Command
<1> HIDE DEF k
<1>16. ASSUME NEW rows \in SUBSET Rows, LoadOnly(c, rows), k \in Members,
              NEW pc \in {"SaveJob", "EachSave"}, CtlGoes(c, pc), UNCHANGED <<owner, token>>
       PROVE  BaseInv'
  <2> DEFINE cmd == [ctl[c] EXCEPT !.pc = pc]
  <2>1. cmd \in Command /\ ctl' = [ctl EXCEPT ![c] = cmd] /\ cmd.pc = pc /\ cmd.next = k
    BY <1>4, <1>16 DEF CtlPcs
  <2> HIDE DEF cmd
  <2> QED BY <1>1, <1>16, <2>1, ControllerLoads
<1>17. ASSUME NEW b \in Batch, SaveBatch(c, b, {}), UNCHANGED <<owner, token>>,
              NEW cmd \in Command, ctl' = [ctl EXCEPT ![c] = cmd],
              cmd.pc \in {"Idle", "BecomeOwner"}
       PROVE  BaseInv'
  <2>1. {} \in SUBSET Rows
    OBVIOUS
  <2> QED BY <1>17, <2>1, ControllerSavesBatch
<1>5. CASE CtlLoadJob(c)
  <2>1. CASE LoadOnly(c, {k}) /\ CtlGoes(c, "SaveJob")
    <3>1. {k} \in SUBSET Rows /\ k \in Members
      BY <1>2, <1>5 DEF CtlLoadJob
    <3> QED BY <1>5, <1>16, <2>1, <3>1 DEF CtlLoadJob
  <2> QED BY <1>3, <1>5, <2>1 DEF CtlLoadJob, k
<1>6. CASE CtlSaveJob(c)
  <2>1. CASE /\ SaveJob(c, k, CancelOrRequest(jobs[k]), {})
             /\ ctl' = [ctl EXCEPT ![c] = NoCommand]
    <3>1. /\ CancelOrRequest(jobs[k]) \in Job /\ k \in Members
          /\ {} \in SUBSET Rows
      BY <1>2, <1>6, CancelOrRequestOK DEF CtlSaveJob
    <3> QED BY <1>1, <1>6, <2>1, <3>1, ControllerSavesJob DEF CtlSaveJob
  <2> QED BY <1>3, <1>6, <2>1 DEF CtlSaveJob, k
<1>7. CASE CtlLoadBatch(c)
  <2>1. PICK pc \in {"OpenBatch", "RequestBatch"} :
            ctl' = [ctl EXCEPT ![c].copy = batch, ![c].pc = pc]
    BY <1>7 DEF CtlLoadBatch
  <2> DEFINE cmd == [ctl[c] EXCEPT !.copy = batch, !.pc = pc]
  <2>2. cmd \in Command /\ ctl' = [ctl EXCEPT ![c] = cmd] /\ cmd.pc = pc
    BY <1>1, <2>1, TypeParts DEF Command, CtlPcs
  <2> HIDE DEF cmd
  <2> QED BY <1>1, <1>7, <2>2, ControllerLoads DEF CtlLoadBatch
<1>8. CASE CtlRequestBatch(c)
  <2>1. CASE /\ SaveBatch(c, RequestBatchCancel(ctl[c].copy), {TheBatch})
             /\ ctl' = [ctl EXCEPT ![c].pc = "OpenBatch", ![c].copy = batch']
    <3>1. RequestBatchCancel(ctl[c].copy) \in Batch
      BY <1>1, BatchMethods
    <3>2. batch' = RequestBatchCancel(ctl[c].copy)
      BY <2>1 DEF SaveBatch
    <3> DEFINE cmd == [ctl[c] EXCEPT !.pc = "OpenBatch", !.copy = batch']
    <3>3. cmd \in Command /\ ctl' = [ctl EXCEPT ![c] = cmd] /\ cmd.pc = "OpenBatch"
      BY <1>1, <2>1, <3>1, <3>2, TypeParts DEF Command, CtlPcs
    <3> HIDE DEF cmd
    <3> QED BY <1>1, <1>8, <2>1, <3>1, <3>3, ControllerSavesBatch DEF CtlRequestBatch
  <2> QED BY <1>3, <1>8, <2>1 DEF CtlRequestBatch
<1>9. CASE CtlOpenBatch(c)
  <2> DEFINE b == IF ctl[c].copy.status \in {"Pending", "Paused"}
                  THEN Opened(ctl[c].copy) ELSE ctl[c].copy
             cmd == [ctl[c] EXCEPT !.pc = "EachJob", !.next = 1, !.copy = b]
  <2>1. b \in Batch
    BY <1>1, BatchMethods DEF Opened
  <2>2. ctl' = [ctl EXCEPT ![c].pc = "EachJob", ![c].next = 1, ![c].copy = b] =>
            ctl' = [ctl EXCEPT ![c] = cmd]
    BY <1>1, TypeParts DEF Command
  <2> HIDE DEF b
  <2>3. cmd \in Command /\ cmd.pc = "EachJob" /\ cmd.next >= 1
    BY <1>1, <2>1, Parameters DEF Command, CtlPcs
  <2> HIDE DEF cmd
  <2>4. CASE ctl' = [ctl EXCEPT ![c] = cmd] /\ LoadOnly(c, {})
    BY <1>1, <1>9, <2>3, <2>4, ControllerLoads DEF CtlOpenBatch
  <2>5. CASE ctl' = [ctl EXCEPT ![c] = cmd] /\ SaveBatch(c, b, {TheBatch})
    BY <1>1, <1>9, <2>1, <2>3, <2>5, ControllerSavesBatch DEF CtlOpenBatch
  <2> QED BY <1>3, <1>9, <2>2, <2>4, <2>5 DEF CtlOpenBatch, b
<1>10. CASE CtlEachJob(c)
  <2>1. k \in Members /\ k + 1 \in 0 .. JobCount + 1 /\ k + 1 >= 1
    BY <1>1, <1>10, Parameters, BatchAssumption DEF CtlEachJob, CtlPlace, Command, k, Members
  <2>2. CASE /\ IsTerminal(jobs[k])
             /\ ctl' = [ctl EXCEPT ![c].next = k + 1,
                                   ![c].copy = Recorded(@, k, jobs[k].status)]
             /\ LoadOnly(c, fresh[c])
    <3> DEFINE b == Recorded(ctl[c].copy, k, jobs[k].status)
               cmd == [ctl[c] EXCEPT !.next = k + 1, !.copy = b]
    <3>1. b \in Batch
      BY <1>1, <2>1, <2>2, BatchMethods, Outcomes DEF Recorded, IsTerminal
    <3>2. ctl' = [ctl EXCEPT ![c] = cmd]
      BY <1>1, <2>2, TypeParts DEF Command
    <3> HIDE DEF b
    <3>3. cmd \in Command /\ cmd.pc = "EachJob" /\ cmd.next >= 1
      BY <1>1, <1>10, <2>1, <3>1 DEF Command, CtlEachJob
    <3> HIDE DEF cmd
    <3> QED BY <1>1, <1>10, <2>2, <3>2, <3>3, ControllerLoads DEF CtlEachJob
  <2>3. CASE CtlGoes(c, "EachSave") /\ LoadOnly(c, fresh[c] \union {k})
    <3>1. fresh[c] \union {k} \in SUBSET Rows
      BY <1>1, <2>1, Parameters
    <3> QED BY <1>10, <1>16, <2>1, <2>3, <3>1 DEF CtlEachJob
  <2> QED BY <1>10, <2>2, <2>3 DEF CtlEachJob, k
<1>11. CASE CtlEachSave(c)
  <2> DEFINE j == CancelOrRequest(jobs[k])
             b == IF IsTerminal(j) THEN Recorded(ctl[c].copy, k, j.status) ELSE ctl[c].copy
             all == ctl[c].all /\ IsTerminal(j)
             cmd == [ctl[c] EXCEPT !.pc = "EachJob", !.next = k + 1, !.all = all, !.copy = b]
  <2>1. k \in Members /\ j \in Job /\ k + 1 \in 0 .. JobCount + 1 /\ k + 1 >= 1
    <3>1. k \in Members /\ jobs[k] \in Job
      BY <1>2, <1>11 DEF CtlEachSave
    <3> QED BY <3>1, CancelOrRequestOK, BatchAssumption DEF Members
  <2>2. CASE /\ SaveJob(c, k, j, fresh[c] \ {k})
             /\ ctl' = [ctl EXCEPT
                    ![c].pc = "EachJob", ![c].next = k + 1, ![c].all = @ /\ IsTerminal(j),
                    ![c].copy = IF IsTerminal(j) THEN Recorded(@, k, j.status) ELSE @]
    <3>1. ctl' = [ctl EXCEPT ![c] = cmd]
      BY <1>1, <2>2, TypeParts DEF Command
    <3> HIDE DEF j
    <3>2. b \in Batch /\ all \in BOOLEAN
      BY <1>1, <2>1, BatchMethods, Outcomes DEF Recorded, IsTerminal, Command
    <3> HIDE DEF b, all
    <3>3. cmd \in Command /\ cmd.pc = "EachJob" /\ cmd.next >= 1
      BY <1>1, <2>1, <3>2 DEF Command, CtlPcs
    <3>4. fresh[c] \ {k} \in SUBSET Rows
      BY <1>1
    <3> HIDE DEF cmd
    <3> QED BY <1>1, <1>11, <2>1, <2>2, <3>1, <3>3, <3>4, ControllerSavesJob DEF CtlEachSave
  <2> QED BY <1>3, <1>11, <2>2 DEF CtlEachSave, k
<1>12. CASE CtlFinishBatch(c)
  <2>1. CASE /\ SaveBatch(c, FinishBatch(ctl[c].copy, "Cancelled"), {})
             /\ ctl' = [ctl EXCEPT ![c] = NoCommand]
    <3>1. FinishBatch(ctl[c].copy, "Cancelled") \in Batch
      BY <1>1, BatchMethods DEF BatchTerminal
    <3> QED BY <1>1, <1>12, <1>17, <2>1, <3>1 DEF CtlFinishBatch
  <2> QED BY <1>3, <1>12, <2>1 DEF CtlFinishBatch
<1>13. CASE CtlSavePause(c)
  <2>1. CASE /\ SaveBatch(c, RequestPause(ctl[c].copy), {})
             /\ ctl' = [ctl EXCEPT ![c] = NoCommand]
    <3>1. RequestPause(ctl[c].copy) \in Batch
      BY <1>1, BatchMethods
    <3> QED BY <1>1, <1>13, <1>17, <2>1, <3>1 DEF CtlSavePause
  <2> QED BY <1>3, <1>13, <2>1 DEF CtlSavePause
<1>14. CASE CtlSaveResume(c)
  <2>1. ASSUME NEW pc \in {"Idle", "BecomeOwner"},
               SaveBatch(c, ResumeBatch(ctl[c].copy), {}),
               ctl' = [ctl EXCEPT ![c] = [NoCommand EXCEPT !.pc = pc]]
        PROVE  BaseInv'
    <3> DEFINE cmd == [NoCommand EXCEPT !.pc = pc]
    <3>1. ResumeBatch(ctl[c].copy) \in Batch
      BY <1>1, BatchMethods
    <3>2. cmd \in Command /\ cmd.pc = pc
      BY <1>1 DEF Command, CtlPcs
    <3> HIDE DEF cmd
    <3>3. ctl' = [ctl EXCEPT ![c] = cmd]
      BY <2>1 DEF cmd
    <3> QED BY <1>14, <1>17, <2>1, <3>1, <3>2, <3>3 DEF CtlSaveResume
  <2> QED BY <1>3, <1>14, <2>1 DEF CtlSaveResume
<1>15. CASE CtlBecomeOwner(c)
  <2>1. CASE TakeLock("Resume", 0)
    <3>1. /\ owner' \in OwnerState /\ OwnerPlace' /\ owner'.pc = "Verify"
      <4>1. owner' = [NoOwner EXCEPT !.pc = "Verify", !.purpose = "Resume", !.target = 0]
            /\ 0 \in 0 .. JobCount
        BY <2>1, BatchAssumption DEF TakeLock
      <4>2. owner' \in OwnerState
        BY <4>1, NoOwnerOK DEF OwnerState, OwnerPcs
      <4> QED BY <4>1, <4>2, NoOwnerOK DEF OwnerState, OwnerPlace, AtJobPcs, RunPcs
    <3>2. /\ jobs' = jobs /\ batch' = batch /\ fresh' \in [Actors -> SUBSET Rows]
          /\ fresh'[Owner] = fresh[Owner] /\ ctl' = [ctl EXCEPT ![c] = NoCommand]
          /\ UNCHANGED token
      BY <1>1, <1>15, Loaded, Parameters DEF CtlBecomeOwner, CtlDone
    <3> QED BY <1>1, <3>1, <3>2, ControllerBase, TypeParts
  <2>2. CASE UNCHANGED owner
    BY <1>3, <1>15, <2>2 DEF CtlBecomeOwner
  <2> QED BY <1>15, <2>1, <2>2 DEF CtlBecomeOwner
<1> QED BY <1>5, <1>6, <1>7, <1>8, <1>9, <1>10, <1>11, <1>12, <1>13, <1>14, <1>15
        DEF CtlStep

LEMMA RetryCommandBase == ASSUME BaseInv, RetryCommand PROVE BaseInv'
<1>1. PICK k \in Members : TakeLock("Retry", k)
  BY DEF RetryCommand
<1>2. owner' \in OwnerState /\ OwnerPlace' /\ owner'.pc # "SaveDone"
  BY <1>1, NoOwnerOK, Parameters
     DEF RetryCommand, TakeLock, OwnerState, OwnerPcs, OwnerPlace, AtJobPcs, RunPcs, Rows
<1> QED BY <1>2, QuietBase DEF RetryCommand

LEMMA CrashOwnerBase == ASSUME BaseInv, CrashOwner PROVE BaseInv'
<1>1. owner' \in OwnerState /\ OwnerPlace' /\ owner'.pc = "Idle"
  BY OwnerLeftBase DEF CrashOwner
<1>2. /\ fresh' \in [Actors -> SUBSET Rows] /\ token' \in BOOLEAN
      /\ ctl' \in [Controllers -> Command]
  BY NoOwnerOK, TypeParts DEF BaseInv, CrashOwner
<1>3. CtlPlace' /\ SaveDoneUnasked'
  BY <1>1, NoOwnerOK DEF BaseInv, CrashOwner, CtlPlace, SaveDoneUnasked
<1> QED BY <1>1, <1>2, <1>3, BaseAssembled, TypeParts DEF BaseInv, CrashOwner

\* The owner gives no commands.
LEMMA OwnerAlone == ASSUME OwnerStep PROVE UNCHANGED ctl
BY DEF OwnerStep, Recovery, VerifyArtifacts, ListJobs, RecoverNextJob, ListBatches,
   RecoverTheBatch, Entry, PrepareRetry, RetryTransaction, ReadForResume, StartRun,
   SaveStart, OpenSession, FailLoad, FailSave, FailFinish, RunLoop, LoopTop, SavePaused,
   WakeUp, CheckJob, SaveRecord, AfterRun, ReadOutcome, CancelLoad, CancelSave,
   CancelRecord, CancelSaveBatch, LoopEnd, Decide, SaveFinish, Transcribe, LoadJob,
   EnterJob, TouchJob, StartJob, EnterError, Gate, SourceChanged, ReuseStage, DoStage,
   BlockedStage, CommitSkip, CommitWork, FinishJob, HandleError, SaveFailure, ReloadJob,
   CancelHere

LEMMA BaseStep == BaseInv /\ [Next]_vars => BaseInv'
<1> SUFFICES ASSUME BaseInv, [Next]_vars PROVE BaseInv'
  OBVIOUS
<1>1. CASE OwnerStep
  BY <1>1, OwnerAlone, RecoveryBase, EntryBase, RunLoopBase, TranscribeBase DEF OwnerStep
<1>2. CASE RetryCommand \/ CrashOwner
  BY <1>2, RetryCommandBase, CrashOwnerBase
<1>3. ASSUME NEW c \in Controllers, CtlBegin(c) \/ CtlStep(c) \/ CrashController(c)
      PROVE  BaseInv'
  <2>1. CASE CrashController(c)
    BY <2>1, CommandOver, TypeParts DEF BaseInv, CrashController
  <2> QED BY <1>3, <2>1, BeginBase, StepBase
<1>4. CASE UNCHANGED vars
  BY <1>4 DEF vars, BaseInv, TypeOK, OwnerPlace, CtlPlace, SaveDoneUnasked
<1> QED BY <1>1, <1>2, <1>3, <1>4 DEF Next

LEMMA BaseInit == Init => BaseInv
<1> SUFFICES ASSUME Init PROVE BaseInv
  OBVIOUS
<1>1. NewJob \in Job
  BY JobAssumption DEF NewJob, Job, JobStatus, StageStatus
<1>2. owner \in OwnerState /\ owner.pc = "Start"
  BY NoOwnerOK DEF Init, OwnerState, OwnerPcs
<1>3. OwnerPlace /\ CtlPlace /\ SaveDoneUnasked
  BY NoOwnerOK DEF Init, OwnerPlace, CtlPlace, SaveDoneUnasked, AtJobPcs, RunPcs
<1>4. TypeOK
  BY <1>1, <1>2, NewBatchOK, NoOwnerOK, TypeParts DEF Init
<1> QED BY <1>3, <1>4 DEF BaseInv

LEMMA BaseAlways == Spec => []BaseInv
BY BaseInit, BaseStep, PTL DEF Spec


-----------------------------------------------------------------------------
(* CancelWins. *)

\* Every row, version, command and owner keeps its type, in every instance.
THEOREM TypeCorrect == Spec => []TypeOK
<1>1. BaseInv => TypeOK
  BY DEF BaseInv
<1> QED BY <1>1, BaseAlways, PTL

\* Who saves which Job, and as what.  The owner saves the Job it is at, ...
OwnerJobStep(k, j) ==
    /\ k = owner.next /\ k \in fresh[Owner]
    /\ \/ owner.pc = "StartJob" /\ j = Start(jobs[k])
       \/ owner.pc = "SaveDone" /\ j = Finish(jobs[k])
       \/ owner.pc \in {"SaveFailure", "CancelJob", "CancelSave"} /\ j = Cancel(jobs[k])
       \/ /\ owner.pc \in {"Skip", "Commit", "SaveFailure"}
          /\ \E s \in Stages :
                \/ j = SkipStage(jobs[k], s)
                \/ j = FailStage(StartStage(jobs[k], s), s)
                \/ \E degraded \in BOOLEAN :
                      j = CompleteStage(StartStage(jobs[k], s), s, Artifact, degraded)

\* ... and recovery, retry and the commands save others.
JobStep(k, j) ==
    \/ OwnerJobStep(k, j)
    \/ jobs[k].status = "Running" /\ j = Recover(jobs[k])
    \/ j \in {Fail(jobs[k]), CancelOrRequest(jobs[k])}
    \/ "Verify" \in Faults /\ \E s \in Stages : j = InvalidateStage(jobs[k], s)
    \/ RetryTransaction /\ k = owner.target /\ \E s \in Stages : j = Retry(jobs[k], s)

JobIsSaved(k) == /\ JobStep(k, jobs'[k])
                 /\ \A i \in Members : i # k => jobs'[i] = jobs[i]

LEMMA JobSteps ==
    ASSUME BaseInv, [Next]_vars
    PROVE  UNCHANGED jobs \/ \E k \in Members : JobIsSaved(k)
<1> DEFINE Moves == UNCHANGED jobs \/ \E k \in Members : JobIsSaved(k)
<1> SUFFICES Moves
  OBVIOUS
<1> USE DEF BaseInv
<1>1. ASSUME NEW a, NEW k \in Members, NEW j, NEW keep, SaveJob(a, k, j, keep)
      PROVE  jobs'[k] = j /\ \A i \in Members : i # k => jobs'[i] = jobs[i]
  BY <1>1, TypeParts DEF SaveJob
<1>2. UNCHANGED jobs => Moves
  OBVIOUS
<1>3. CASE VerifyArtifacts
  <2>1. ASSUME "Verify" \in Faults, NEW k \in Members, NEW s \in Stages,
               jobs' = [jobs EXCEPT ![k] = InvalidateStage(@, s)]
        PROVE  JobIsSaved(k)
    BY <2>1, TypeParts DEF JobIsSaved, JobStep
  <2> QED BY <1>3, <2>1 DEF VerifyArtifacts
<1>4. CASE RecoverNextJob
  <2> DEFINE k == CHOOSE x \in owner.todo : \A y \in owner.todo : x <= y
  <2>1. k \in Members
    BY <1>4, FirstIsLeast, TypeParts DEF RecoverNextJob, First, OwnerState
  <2>2. UNCHANGED jobs \/ SaveJob(Owner, k, Recover(jobs[k]), fresh[Owner] \ {k})
    BY <1>4 DEF RecoverNextJob, OwnerLeaves, LoadOnly
  <2> HIDE DEF k
  <2>3. CASE jobs[k].status = "Running"
    BY <1>1, <2>1, <2>2, <2>3 DEF JobIsSaved, JobStep
  <2>4. CASE jobs[k].status # "Running"
    <3>1. Recover(jobs[k]) = jobs[k]
      BY <2>4 DEF Recover
    <3> QED BY <2>1, <2>2, <3>1, TypeParts DEF SaveJob
  <2> QED BY <2>3, <2>4
<1>5. CASE RetryTransaction
  <2> DEFINE k == owner.target
  <2>1. k \in Members /\ owner.stage \in Stages
    BY <1>5 DEF RetryTransaction, OwnerPlace
  <2>2. UNCHANGED jobs \/ jobs' = [jobs EXCEPT ![k] = Retry(@, owner.stage)]
    BY <1>5 DEF RetryTransaction, OwnerLeaves, LoadOnly
  <2> QED BY <1>5, <2>1, <2>2, TypeParts DEF JobIsSaved, JobStep
<1>6. CASE FailSave
  BY <1>1, <1>6
     DEF FailSave, OwnerPlace, AtJobPcs, OwnerLeaves, LoadOnly, JobIsSaved, JobStep
<1>7. CASE CancelSave
  BY <1>1, <1>7 DEF CancelSave, OwnerPlace, AtJobPcs, OwnerLeaves, LoadOnly, Holds, JobIsSaved,
                    JobStep, OwnerJobStep
<1>8. ASSUME owner.pc \in RunPcs PROVE Current \in Members
  BY <1>8 DEF OwnerPlace, AtJobPcs, Current
<1>9. CASE TouchJob
  <2>1. UNCHANGED jobs \/ SaveJob(Owner, Current, jobs[Current], {Current})
    BY <1>9 DEF TouchJob
  <2> QED BY <2>1, TypeParts DEF SaveJob
<1>10. CASE StartJob
  BY <1>1, <1>8, <1>10 DEF StartJob, RunPcs, Current, Holds, JobIsSaved, JobStep, OwnerJobStep
<1>11. CASE CommitSkip
  <2>1. Current \in Members /\ owner.stage \in Stages
    BY <1>8, <1>11 DEF CommitSkip, RunPcs, OwnerPlace
  <2>2. CASE UNCHANGED jobs
    BY <2>2
  <2>3. CASE /\ Holds(Owner, Current)
             /\ SaveJob(Owner, Current, SkipStage(jobs[Current], owner.stage), {Current})
    <3>1. jobs'[Current] = SkipStage(jobs[Current], owner.stage)
          /\ \A i \in Members : i # Current => jobs'[i] = jobs[i]
      BY <1>1, <2>1, <2>3
    <3> QED BY <1>11, <2>1, <2>3, <3>1
            DEF CommitSkip, Current, Holds, JobIsSaved, JobStep, OwnerJobStep
  <2> QED BY <1>11, <2>2, <2>3 DEF CommitSkip
<1>12. CASE CommitWork
  <2>1. Current \in Members /\ owner.stage \in Stages
    BY <1>8, <1>12 DEF CommitWork, RunPcs, OwnerPlace
  <2>2. CASE UNCHANGED jobs
    BY <2>2
  <2>3. ASSUME Holds(Owner, Current), NEW degraded \in BOOLEAN,
               SaveJob(Owner, Current,
                       CompleteStage(StartStage(jobs[Current], owner.stage), owner.stage,
                                     Artifact, degraded), {Current})
        PROVE  JobIsSaved(Current)
    BY <1>1, <1>12, <2>1, <2>3
       DEF CommitWork, Current, Holds, JobIsSaved, JobStep, OwnerJobStep
  <2> QED BY <1>12, <2>1, <2>2, <2>3 DEF CommitWork
<1>13. CASE FinishJob
  BY <1>1, <1>8, <1>13 DEF FinishJob, RunPcs, Current, Holds, JobIsSaved, JobStep, OwnerJobStep
<1>14. CASE SaveFailure
  <2>1. Current \in Members /\ (owner.running => owner.stage \in Stages)
    BY <1>8, <1>14 DEF SaveFailure, RunPcs, OwnerPlace
  <2>2. CASE ~(Holds(Owner, Current))
    BY <1>14, <2>2 DEF SaveFailure
  <2>3. CASE Holds(Owner, Current) /\ owner.running
    <3>1. jobs'[Current] = FailStage(StartStage(jobs[Current], owner.stage), owner.stage)
          /\ \A i \in Members : i # Current => jobs'[i] = jobs[i]
      BY <1>1, <1>14, <2>1, <2>3 DEF SaveFailure
    <3> QED BY <1>14, <2>1, <2>3, <3>1
            DEF SaveFailure, Current, Holds, JobIsSaved, JobStep, OwnerJobStep
  <2>4. CASE Holds(Owner, Current) /\ ~owner.running
    BY <1>1, <1>14, <2>1, <2>4
       DEF SaveFailure, Current, Holds, JobIsSaved, JobStep, OwnerJobStep
  <2> QED BY <2>2, <2>3, <2>4
<1>15. CASE CancelHere
  BY <1>1, <1>8, <1>15 DEF CancelHere, RunPcs, Current, Holds, JobIsSaved, JobStep, OwnerJobStep
<1>16. ASSUME NEW c \in Controllers, CtlSaveJob(c) \/ CtlEachSave(c) PROVE Moves
  <2> DEFINE k == ctl[c].next
  <2>1. k \in Members
    BY <1>16 DEF CtlSaveJob, CtlEachSave, CtlPlace
  <2>2. \/ UNCHANGED jobs
        \/ SaveJob(c, k, CancelOrRequest(jobs[k]), {})
        \/ SaveJob(c, k, CancelOrRequest(jobs[k]), fresh[c] \ {k})
    BY <1>16 DEF CtlSaveJob, CtlEachSave, CtlDone, LoadOnly
  <2> HIDE DEF k
  <2> QED BY <1>1, <2>1, <2>2 DEF JobIsSaved, JobStep
<1> HIDE DEF Moves
<1>17. CASE OwnerStep
  <2>1. CASE Recovery
    BY <1>2, <1>3, <1>4, <2>1
       DEF Recovery, ListJobs, ListBatches, RecoverTheBatch, SaveBatch, LoadOnly, OwnerLeaves
  <2>2. CASE Entry
    BY <1>2, <1>5, <1>6, <2>2
       DEF Entry, PrepareRetry, ReadForResume, StartRun, SaveStart, OpenSession, FailLoad,
           FailFinish, SaveBatch, LoadOnly, OwnerLeaves
  <2>3. CASE RunLoop
    BY <1>2, <1>7, <2>3
       DEF RunLoop, LoopTop, SavePaused, WakeUp, CheckJob, SaveRecord, AfterRun, ReadOutcome,
           CancelLoad, CancelRecord, CancelSaveBatch, LoopEnd, Decide, SaveFinish,
           RecordInMemory, SaveBatch, LoadOnly, OwnerLeaves
  <2>4. CASE Transcribe
    BY <1>2, <1>9, <1>10, <1>11, <1>12, <1>13, <1>14, <1>15, <2>4
       DEF Transcribe, LoadJob, EnterJob, EnterError, Gate, SourceChanged, ReuseStage, DoStage,
           BlockedStage, HandleError, ReloadJob, LoadOnly
  <2> QED BY <1>17, <2>1, <2>2, <2>3, <2>4 DEF OwnerStep
<1>18. CASE RetryCommand \/ CrashOwner \/ UNCHANGED vars
  BY <1>2, <1>18 DEF RetryCommand, CrashOwner, vars
<1>19. ASSUME NEW c \in Controllers, CtlBegin(c) \/ CtlStep(c) \/ CrashController(c)
       PROVE  Moves
  BY <1>2, <1>16, <1>19
     DEF CtlBegin, BeginCancelJob, BeginCancelBatch, BeginPause, BeginResume, CtlStep,
         CtlLoadJob, CtlLoadBatch, CtlRequestBatch, CtlOpenBatch, CtlEachJob, CtlFinishBatch,
         CtlSavePause, CtlSaveResume, CtlBecomeOwner, CrashController, CtlDone, SaveBatch,
         LoadOnly
<1> QED BY <1>17, <1>18, <1>19 DEF Next

\* What becomes of the status of a Job that is saved.
LEMMA SavedStatus ==
    ASSUME NEW k \in Members, jobs[k] \in Job, JobStep(k, jobs'[k])
    PROVE  LET old == jobs[k].status
               new == jobs'[k].status
           IN  \/ new = old
               \/ new \in {"Failed", "Cancelled", "Pending"}
               \/ new = "Running" /\ owner.pc = "StartJob" /\ k = owner.next
               \/ new \in JobTerminal /\ owner.pc = "SaveDone" /\ k = owner.next
                  /\ k \in fresh[Owner]
<1> DEFINE j == jobs[k]
<1>1. ASSUME NEW s \in Stages, NEW degraded \in BOOLEAN
      PROVE  /\ SkipStage(j, s).status = j.status
             /\ FailStage(StartStage(j, s), s).status = "Failed"
             /\ CompleteStage(StartStage(j, s), s, Artifact, degraded).status = j.status
             /\ InvalidateStage(j, s).status = "Pending" /\ Retry(j, s).status = "Pending"
  BY StageMethods, Reopening
<1>2. /\ j.status = "Running" => Recover(j).status = "Pending"
      /\ Fail(j).status \in {j.status, "Failed"} /\ Cancel(j).status = "Cancelled"
      /\ CancelOrRequest(j).status \in {j.status, "Cancelled"}
      /\ Start(j).status = "Running" /\ Finish(j).status \in JobTerminal
  BY JobMethods, JobEnds DEF CancelOrRequest, IsTerminal
<1>3. ASSUME OwnerJobStep(k, jobs'[k])
      PROVE  \/ jobs'[k].status \in {j.status, "Failed", "Cancelled"}
             \/ jobs'[k].status = "Running" /\ owner.pc = "StartJob" /\ k = owner.next
             \/ /\ jobs'[k].status \in JobTerminal /\ owner.pc = "SaveDone"
                /\ k = owner.next /\ k \in fresh[Owner]
  <2>1. CASE owner.pc = "StartJob" /\ jobs'[k] = Start(j)
    BY <1>2, <1>3, <2>1 DEF OwnerJobStep
  <2>2. CASE owner.pc = "SaveDone" /\ jobs'[k] = Finish(j)
    BY <1>2, <1>3, <2>2 DEF OwnerJobStep
  <2>3. CASE jobs'[k] = Cancel(j)
    BY <1>2, <2>3
  <2>4. CASE \E s \in Stages :
                \/ jobs'[k] = SkipStage(j, s)
                \/ jobs'[k] = FailStage(StartStage(j, s), s)
                \/ \E degraded \in BOOLEAN :
                      jobs'[k] = CompleteStage(StartStage(j, s), s, Artifact, degraded)
    BY <1>1, <2>4
  <2> QED BY <1>3, <2>1, <2>2, <2>3, <2>4 DEF OwnerJobStep
<1> QED BY <1>1, <1>2, <1>3 DEF JobStep

\* The intent to cancel, once it is in the row, keeps the Job from being
\* reported as done (ensure_not_cancelled and the version of the row, at the
\* save that finishes it), whatever else happens to the Job and the Batch.
THEOREM CancelIsFinal == Spec => CancelWins
<1> DEFINE Wins == \A k \in Members :
                      jobs[k].cancel_requested /\ ~IsTerminal(jobs[k]) =>
                          jobs'[k].status \notin {"Done", "DoneDegraded"}
<1>1. BaseInv /\ [Next]_vars => [Wins]_vars
  <2> SUFFICES ASSUME BaseInv, [Next]_vars, NEW k \in Members,
                      jobs[k].cancel_requested, ~IsTerminal(jobs[k])
               PROVE  jobs'[k].status \notin {"Done", "DoneDegraded"}
    OBVIOUS
  <2>1. jobs[k] \in Job /\ jobs[k].status \notin {"Done", "DoneDegraded"}
    BY TypeParts DEF BaseInv, IsTerminal, JobTerminal
  <2>2. ~(owner.pc = "SaveDone" /\ owner.next = k /\ k \in fresh[Owner])
    BY DEF BaseInv, SaveDoneUnasked
  <2>3. CASE JobStep(k, jobs'[k])
    BY <2>1, <2>2, <2>3, SavedStatus
  <2> QED BY <2>1, <2>3, JobSteps DEF JobIsSaved
<1> QED BY <1>1, BaseAlways, PTL DEF Spec, CancelWins


-----------------------------------------------------------------------------
(* OrderlyInv: what its parts have in common. *)

\* A record stands for a Job that is over.
LEMMA RecordIsOver ==
    ASSUME TypeOK, NEW b \in Batch, Truthful(b, jobs), NEW k \in Members, HasRecord(b, k)
    PROVE  IsTerminal(jobs[k])
BY DEF Truthful, HasRecord, Batch, JobOutcome, IsTerminal, JobTerminal

LEMMA NothingIsRunning ==
    ASSUME OrderlyInv,
           owner.pc \notin {"Idle", "Verify", "ListJobs", "RecoverJobs"} \union ExecPcs
    PROVE  \A k \in Members : jobs[k].status # "Running"
BY DEF OrderlyInv, OneIsRunning

\* Where the owner runs no Batch, and where it executes no Job.
OutsidePcs == {"Idle", "Verify", "ListJobs", "RecoverJobs", "RecoverBatch", "Recovered",
               "Start"}
LEMMA NoRun ==
    ASSUME owner'.pc \notin RunPcs \union {"FailSave"}
    PROVE  /\ RunIsHeld' /\ StagesInOrder'
           /\ owner'.pc # "CheckJob" => RunIsNotPaused'
BY DEF RunIsHeld, StagesInOrder, RunIsNotPaused, RunPcs, HoldPcs, ExecPcs

LEMMA Outside ==
    ASSUME owner'.pc \in OutsidePcs
    PROVE  OwnerDecides' /\ PassedIsOver' /\ RunIsHeld' /\ StagesInOrder' /\ RunIsNotPaused'
<1>1. owner'.pc \notin RunPcs \union {"FailSave"} /\ owner'.pc # "CheckJob"
  BY DEF OutsidePcs, RunPcs
<1>2. OwnerDecides' /\ PassedIsOver'
  BY DEF OutsidePcs, OwnerDecides, PassedIsOver, BatchPcs, LoopPcs, AtJobPcs, RunPcs
<1> QED BY <1>1, <1>2, NoRun

\* What the controllers hold stays true when a row they hold does not change.
LEMMA FoundStays ==
    ASSUME BaseInv, FoundIsCurrent, UNCHANGED ctl,
           \A c \in Controllers : fresh'[c] \subseteq fresh[c],
           \A c \in Controllers : TheBatch \in fresh'[c] => batch' = batch,
           \A c \in Controllers, k \in Members : k \in fresh'[c] => jobs'[k] = jobs[k]
    PROVE  FoundIsCurrent'
BY DEF BaseInv, CtlPlace, FoundIsCurrent

\* A step of the owner that writes no row.
LEMMA OwnerReads ==
    ASSUME OrderlyInv, BaseInv', UNCHANGED <<jobs, batch, ctl>>,
           token' = token \/ token' = FALSE,
           \A c \in Controllers : fresh'[c] = fresh[c],
           NotCancelled(owner'.copy), Truthful(owner'.copy, jobs),
           owner'.pc \notin {"CancelLoad", "CancelSave", "CancelRecord"},
           OwnerDecides', OneIsRunning', RunIsNotPaused', PassedIsOver', RunIsHeld',
           StagesInOrder'
    PROVE  OrderlyInv'
<1> USE DEF OrderlyInv
<1>1. FoundIsCurrent'
  BY FoundStays
<1>2. BatchIsKept' /\ RecordsTruthful'
  BY DEF BatchIsKept, RecordsTruthful, NotCancelled
<1>3. PausedMeansQuiet' /\ StagesClean'
  BY DEF PausedMeansQuiet, StagesClean
<1> QED BY <1>1, <1>2, <1>3

LEMMA Untouched ==
    ASSUME TypeOK, LoadOnly(Owner, fresh'[Owner]) \/ UNCHANGED <<jobs, batch, fresh>>
    PROVE  UNCHANGED <<jobs, batch>> /\ \A c \in Controllers : fresh'[c] = fresh[c]
BY Parameters, TypeParts DEF LoadOnly, Keep

\* A Job is written by the owner: the copies of its row are outdated, and the
\* records remain true, for a Job that is over is not changed.
LEMMA OwnerWritesJob ==
    ASSUME OrderlyInv, BaseInv', NEW k \in Members, NEW j \in Job, NEW keep \in SUBSET Rows,
           SaveJob(Owner, k, j, keep), UNCHANGED <<ctl, token>>,
           IsTerminal(jobs[k]) => j = jobs[k],
           NotCancelled(owner'.copy), Truthful(owner'.copy, jobs'),
           owner'.pc \notin {"CancelLoad", "CancelSave", "CancelRecord"},
           OwnerDecides', OneIsRunning', RunIsNotPaused', PassedIsOver', RunIsHeld',
           PausedMeansQuiet', StagesClean', StagesInOrder'
    PROVE  OrderlyInv'
<1> USE DEF OrderlyInv, BaseInv
<1>1. /\ jobs'[k] = j /\ \A i \in Members : i # k => jobs'[i] = jobs[i]
      /\ batch' = batch
      /\ \A c \in Controllers : fresh'[c] = fresh[c] \ {k}
  BY SavedJob, Parameters
<1>2. FoundIsCurrent'
  BY <1>1, FoundStays
<1>3. Truthful(batch, jobs')
  BY <1>1, RecordIsOver, TypeParts DEF RecordsTruthful, Truthful
<1>4. BatchIsKept' /\ RecordsTruthful'
  BY <1>1, <1>3 DEF BatchIsKept, RecordsTruthful, NotCancelled
<1> QED BY <1>2, <1>4

\* The Batch is written by the owner.
LEMMA OwnerWritesBatch ==
    ASSUME OrderlyInv, BaseInv', NEW b \in Batch, NEW keep \in SUBSET Rows,
           SaveBatch(Owner, b, keep), UNCHANGED ctl, token' = token \/ token' = FALSE,
           NotCancelled(b), Truthful(b, jobs),
           NotCancelled(owner'.copy), Truthful(owner'.copy, jobs),
           owner'.pc \notin {"CancelLoad", "CancelSave", "CancelRecord"},
           OwnerDecides', OneIsRunning', RunIsNotPaused', PassedIsOver', RunIsHeld',
           PausedMeansQuiet', StagesInOrder'
    PROVE  OrderlyInv'
<1> USE DEF OrderlyInv, BaseInv
<1>1. /\ batch' = b /\ jobs' = jobs
      /\ \A c \in Controllers : fresh'[c] = fresh[c] \ {TheBatch}
  BY SavedBatch, Parameters
<1>2. FoundIsCurrent'
  BY <1>1, FoundStays
<1>3. BatchIsKept' /\ RecordsTruthful' /\ StagesClean'
  BY <1>1 DEF BatchIsKept, RecordsTruthful, NotCancelled, StagesClean
<1> QED BY <1>2, <1>3

\* The owner gives up: what it was doing stays as it is, for the next owner.
LEMMA NewBatchTruthful == NotCancelled(NewBatch) /\ \A js : Truthful(NewBatch, js)
BY NewBatchOK DEF Truthful

LEMMA Leaving == ASSUME OrderlyInv, OwnerLeaves, UNCHANGED ctl PROVE OrderlyInv'
<1> USE DEF OrderlyInv
<1>1. BaseInv'
  BY LeavingBase
<1>2. /\ UNCHANGED <<jobs, batch>> /\ \A c \in Controllers : fresh'[c] = fresh[c]
      /\ token' = FALSE /\ owner'.pc = "Idle" /\ owner'.copy = NewBatch
  BY Untouched, NoOwnerOK, Loaded, Parameters DEF OwnerLeaves, BaseInv
<1>3. OneIsRunning'
  BY <1>2 DEF OneIsRunning
<1> QED BY <1>1, <1>2, <1>3, Outside, OwnerReads, NewBatchTruthful DEF OutsidePcs


-----------------------------------------------------------------------------
(* OrderlyInv: recovery, and the way into the run. *)

\* A step outside the run that reads, with the copy it has or a new one.
LEMMA OutsideReads ==
    ASSUME OrderlyInv, BaseInv', UNCHANGED <<ctl, token>>,
           LoadOnly(Owner, fresh'[Owner]) \/ UNCHANGED <<jobs, batch, fresh>>,
           owner'.copy = owner.copy \/ owner'.copy = batch \/ owner'.copy = NewBatch,
           owner'.pc \in OutsidePcs, OneIsRunning'
    PROVE  OrderlyInv'
<1> USE DEF OrderlyInv
<1>1. UNCHANGED <<jobs, batch>> /\ \A c \in Controllers : fresh'[c] = fresh[c]
  BY Untouched DEF BaseInv
<1>2. NotCancelled(owner'.copy) /\ Truthful(owner'.copy, jobs)
  BY NewBatchTruthful DEF BatchIsKept, RecordsTruthful
<1> QED BY <1>1, <1>2, Outside, OwnerReads DEF OutsidePcs

LEMMA RecoveryKeeps ==
    ASSUME Orderly, OrderlyInv, Recovery, UNCHANGED ctl
    PROVE  OrderlyInv'
<1> USE DEF OrderlyInv, BaseInv
<1>1. BaseInv'
  BY RecoveryBase
<1>2. \A pc : OwnerGoes(pc) => owner'.pc = pc /\ owner'.copy = owner.copy
  BY TypeParts DEF OwnerGoes, OwnerState
<1>3. CASE VerifyArtifacts
  <2>1. /\ UNCHANGED <<jobs, batch, fresh, token>>
        /\ owner'.pc = "ListJobs" /\ owner'.copy = owner.copy
    BY <1>2, <1>3 DEF VerifyArtifacts, Orderly
  <2>2. OneIsRunning'
    BY <2>1 DEF OneIsRunning
  <2> QED BY <1>1, <2>1, <2>2, OutsideReads DEF OutsidePcs
<1>4. CASE ListJobs
  <2> DEFINE found == {k \in Members : jobs[k].status = "Running"}
  <2>1. /\ owner'.pc = "RecoverJobs" /\ owner'.copy = owner.copy /\ owner'.todo = found
    BY <1>4, TypeParts DEF ListJobs, OwnerState
  <2>2. LoadOnly(Owner, fresh'[Owner]) /\ UNCHANGED <<token, jobs>>
    BY <1>4, Loaded, Parameters DEF ListJobs, LoadOnly
  <2>3. OneIsRunning'
    BY <2>1, <2>2 DEF OneIsRunning
  <2> QED BY <1>1, <2>1, <2>2, <2>3, OutsideReads DEF OutsidePcs
<1>5. CASE RecoverNextJob
  <2> DEFINE k == CHOOSE i \in owner.todo : \A j \in owner.todo : i <= j
             j == Recover(jobs[k])
             keep == fresh[Owner] \ {k}
  <2>1. k \in owner.todo /\ owner.todo \in SUBSET Members
    BY <1>5, FirstIsLeast, TypeParts DEF RecoverNextJob, First, OwnerState
  <2> HIDE DEF k
  <2>2. CASE OwnerLeaves
    BY <1>5, <2>2, Leaving
  <2>3. CASE /\ SaveJob(Owner, k, j, keep)
             /\ owner' = [owner EXCEPT !.todo = @ \ {k}]
             /\ UNCHANGED token
    <3>1. k \in Members /\ jobs[k] \in Job /\ keep \in SUBSET Rows
      <4>1. k \in Members /\ fresh[Owner] \in SUBSET Rows
        BY <2>1, Parameters, TypeParts
      <4> QED BY <4>1, TypeParts
    <3>2. j \in Job /\ j.status # "Running" /\ (IsTerminal(jobs[k]) => j = jobs[k])
      BY <3>1, JobMethods, JobEnds
    <3>3. /\ jobs'[k] = j /\ \A i \in Members : i # k => jobs'[i] = jobs[i]
          /\ batch' = batch
      BY <2>3, <3>1, <3>2, SavedJob, Parameters
    <3>4. /\ owner'.pc = "RecoverJobs" /\ owner'.copy = owner.copy
          /\ owner'.todo = owner.todo \ {k}
      BY <1>5, <2>3, TypeParts DEF RecoverNextJob, OwnerState
    <3>5. OneIsRunning'
      BY <1>5, <3>2, <3>3, <3>4 DEF OneIsRunning, RecoverNextJob, ExecPcs
    <3>6. PausedMeansQuiet'
      BY <3>2, <3>3 DEF PausedMeansQuiet
    <3>7. StagesClean'
      <4>1. IsTerminal(jobs[k]) => IsTerminal(j)
        BY <3>2
      <4>2. \A i \in Stages : j.stage[i] = jobs[k].stage[i] \/ j.stage[i] = "Pending"
        BY <3>1, JobMethods
      <4>3. IsTerminal(j) => IsTerminal(jobs[k])
        BY <3>1, JobMethods, JobEnds
      <4> QED BY <3>3, <4>1, <4>2, <4>3 DEF StagesClean
    <3>8. Truthful(owner'.copy, jobs')
      BY <3>2, <3>3, <3>4, RecordIsOver, TypeParts DEF RecordsTruthful, Truthful, OwnerState
    <3>9. NotCancelled(owner'.copy)
      BY <3>4 DEF BatchIsKept
    <3> HIDE DEF j, keep
    <3> QED BY <1>1, <1>5, <2>3, <3>1, <3>2, <3>4, <3>5, <3>6, <3>7, <3>8, <3>9, Outside,
               OwnerWritesJob DEF OutsidePcs
  <2> QED BY <1>5, <2>2, <2>3 DEF RecoverNextJob, k
<1>6. CASE ListBatches
  <2>1. /\ owner'.pc \in {"RecoverBatch", "Recovered"} /\ owner'.copy = owner.copy
        /\ LoadOnly(Owner, fresh'[Owner]) /\ UNCHANGED <<token, jobs>>
    BY <1>2, <1>6, Loaded, Parameters DEF ListBatches, LoadOnly
  <2>2. OneIsRunning'
    BY <1>6, <2>1 DEF OneIsRunning, ListBatches, ExecPcs
  <2> QED BY <1>1, <2>1, <2>2, OutsideReads DEF OutsidePcs
<1>7. CASE RecoverTheBatch
  <2>1. CASE OwnerLeaves
    BY <1>7, <2>1, Leaving
  <2>2. CASE SaveBatch(Owner, RecoverBatch(batch), {}) /\ OwnerGoes("Recovered")
             /\ UNCHANGED token
    <3> DEFINE b == RecoverBatch(batch)
    <3>1. b \in Batch /\ {} \in SUBSET Rows
      BY BatchMethods, TypeParts
    <3>2. NotCancelled(b) /\ Truthful(b, jobs)
      BY TypeParts DEF RecoverBatch, Batch, NotCancelled, Truthful, BatchIsKept,
         RecordsTruthful, HasRecord, BatchEnded, AllRecorded, BatchTerminal
    <3>3. owner'.pc = "Recovered" /\ owner'.copy = owner.copy
      BY <1>2, <2>2
    <3>4. jobs' = jobs /\ batch' = b
      BY <2>2 DEF SaveBatch
    <3>5. OneIsRunning' /\ PausedMeansQuiet'
      BY <1>7, <3>3, <3>4, NothingIsRunning
         DEF RecoverTheBatch, ExecPcs, OneIsRunning, PausedMeansQuiet
    <3>6. NotCancelled(owner'.copy) /\ Truthful(owner'.copy, jobs)
      BY <3>3 DEF BatchIsKept, RecordsTruthful
    <3> HIDE DEF b
    <3> QED BY <1>1, <1>7, <2>2, <3>1, <3>2, <3>3, <3>5, <3>6, Outside, OwnerWritesBatch
            DEF OutsidePcs, b
  <2> QED BY <1>7, <2>1, <2>2 DEF RecoverTheBatch
<1> QED BY <1>3, <1>4, <1>5, <1>6, <1>7 DEF Recovery


\* Where no Job is running.
LEMMA NobodyRuns ==
    ASSUME \A k \in Members : jobs'[k].status # "Running"
    PROVE  OneIsRunning' /\ PausedMeansQuiet'
BY DEF OneIsRunning, PausedMeansQuiet

\* The owner has not decided yet, and no Job it found over is reopened.
LEMMA Undecided ==
    ASSUME OrderlyInv, owner.pc \in BatchPcs, owner'.pc \in BatchPcs \ {"Finish"},
           owner'.purpose = owner.purpose, owner'.target = owner.target,
           ~BatchEnded(batch'), ~BatchEnded(owner'.copy),
           \A k \in Members : IsTerminal(jobs[k]) => IsTerminal(jobs'[k])
    PROVE  OwnerDecides'
BY DEF OrderlyInv, OwnerDecides, BatchPcs, AtJobPcs, RunPcs

\* It stays at its Job, ...
LEMMA StaysAt ==
    ASSUME OrderlyInv, owner.pc \in LoopPcs, owner'.next = owner.next,
           \A k \in Members : IsTerminal(jobs[k]) => IsTerminal(jobs'[k]),
           \/ owner'.pc \notin {"Record", "AfterRun", "Outcome"}
           \/ IsTerminal(jobs'[owner.next])
    PROVE  PassedIsOver'
BY DEF OrderlyInv, PassedIsOver

\* ... or goes on to the next that was given, when this one is over: the Jobs
\* in between are over, or it would not have been asked to retry this one only.
LEMMA GoesOn ==
    ASSUME OrderlyInv, owner.pc \in LoopPcs, owner.next \in Members,
           owner'.next = NextAfter(owner.next),
           owner'.pc \notin {"Record", "AfterRun", "Outcome"},
           \A k \in Members : IsTerminal(jobs[k]) => IsTerminal(jobs'[k]),
           IsTerminal(jobs'[owner.next])
    PROVE  PassedIsOver'
<1> USE DEF OrderlyInv, BaseInv
<1>1. owner.pc \in BatchPcs
  BY DEF LoopPcs, BatchPcs
<1> SUFFICES ASSUME NEW i \in Members, i < NextAfter(owner.next)
             PROVE  IsTerminal(jobs'[i])
  BY DEF PassedIsOver
<1>2. CASE i \in Given
  <2>1. i <= owner.next /\ owner.next \in Nat /\ i \in Nat
    BY <1>2, Queue, BatchAssumption DEF Members
  <2> QED BY <2>1 DEF PassedIsOver
<1>3. CASE i \notin Given
  BY <1>1, <1>3 DEF Given, OwnerDecides
<1> QED BY <1>2, <1>3


LEMMA EntryKeeps ==
    ASSUME Orderly, OrderlyInv, Entry, UNCHANGED ctl
    PROVE  OrderlyInv'
<1> USE DEF OrderlyInv, BaseInv
<1>1. BaseInv'
  BY EntryBase
<1>2. owner.copy \in Batch /\ owner \in OwnerState
  BY TypeParts DEF OwnerState
<1>3. owner.pc \notin {"FailLoad", "FailSave"} \/ owner.pc \in LoopPcs \intersect BatchPcs
  BY DEF LoopPcs, BatchPcs, AtJobPcs
<1>4. /\ \A k \in Members : jobs[k].status # "Running"
      /\ LoadOnly(Owner, fresh'[Owner]) \/ UNCHANGED jobs => OneIsRunning'
  <2>1. \A k \in Members : jobs[k].status # "Running"
    BY NothingIsRunning
       DEF Entry, PrepareRetry, RetryTransaction, ReadForResume, StartRun, SaveStart,
           OpenSession, FailLoad, FailSave, FailFinish, ExecPcs
  <2> QED BY <2>1, NobodyRuns DEF LoadOnly
<1>5. ASSUME NEW rows \in SUBSET Rows, LoadOnly(Owner, rows)
      PROVE  LoadOnly(Owner, fresh'[Owner])
  BY <1>5, Loaded, Parameters
<1>6. CASE OwnerLeaves
  BY <1>6, Leaving
<1>7. CASE PrepareRetry
  <2>1. ASSUME NEW s \in Stages, owner' = [owner EXCEPT !.pc = "RetryTx", !.stage = s],
               CanRetry(jobs[owner.target]),
               LoadOnly(Owner, {TheBatch, owner.target}), UNCHANGED token
        PROVE  OrderlyInv'
    <3>1. /\ owner'.pc = "RetryTx" /\ owner'.copy = owner.copy
          /\ owner'.target = owner.target
      BY <1>2, <2>1 DEF OwnerState
    <3>2. {TheBatch, owner.target} \in SUBSET Rows
      BY <1>2, Parameters DEF OwnerState, Rows
    <3>3. UNCHANGED <<jobs, batch>> /\ \A c \in Controllers : fresh'[c] = fresh[c]
      BY <1>5, <2>1, <3>2, Untouched
    <3>4. OwnerDecides'
      BY <2>1, <3>1, <3>3 DEF OwnerDecides, BatchPcs, AtJobPcs, RunPcs
    <3>5. PassedIsOver' /\ RunIsHeld' /\ StagesInOrder' /\ RunIsNotPaused'
      BY <3>1, NoRun DEF PassedIsOver, LoopPcs, AtJobPcs, RunPcs
    <3>6. NotCancelled(owner'.copy) /\ Truthful(owner'.copy, jobs)
      BY <3>1 DEF BatchIsKept, RecordsTruthful
    <3> QED BY <1>1, <1>4, <2>1, <3>1, <3>3, <3>4, <3>5, <3>6, OwnerReads
  <2> QED BY <1>6, <1>7, <2>1 DEF PrepareRetry
<1>8. CASE RetryTransaction
  <2> DEFINE k == owner.target
             b == ReopenBatch(batch, k)
  <2>1. CASE /\ jobs' = [jobs EXCEPT ![k] = Retry(@, owner.stage)]
             /\ batch' = b
             /\ fresh' = [a \in Actors |-> IF a = Owner THEN {}
                                           ELSE fresh[a] \ {k, TheBatch}]
             /\ owner' = [owner EXCEPT !.pc = "Start", !.stage = 0, !.copy = batch']
             /\ UNCHANGED token
    <3>1. k \in Members /\ owner.stage \in Stages /\ ~Cancelling
      BY <1>8 DEF RetryTransaction, OwnerPlace, Orderly
    <3>2. jobs[k] \in Job
      BY <3>1, TypeParts
    <3>3. /\ jobs'[k].status = "Pending"
          /\ \A i \in Members : i # k => jobs'[i] = jobs[i]
      BY <2>1, <3>1, <3>2, Reopening, TypeParts
    <3>4. NotCancelled(b) /\ ~BatchEnded(b) /\ ~HasRecord(b, k)
          /\ \A i \in Members : i # k => b.terminal_jobs[i] = batch.terminal_jobs[i]
      BY <3>1, TypeParts
         DEF ReopenBatch, Batch, NotCancelled, BatchEnded, BatchTerminal, HasRecord
    <3>5. Truthful(b, jobs')
      BY <3>3, <3>4 DEF RecordsTruthful, Truthful, HasRecord
    <3>6. owner'.pc = "Start" /\ owner'.copy = b
      BY <1>2, <2>1 DEF OwnerState
    <3>7. BatchIsKept' /\ RecordsTruthful'
      BY <2>1, <3>4, <3>5, <3>6 DEF BatchIsKept, RecordsTruthful
    <3>8. FoundIsCurrent'
      <4>1. \A c \in Controllers : fresh'[c] = fresh[c] \ {k, TheBatch}
        BY <2>1, Parameters
      <4> QED BY <3>3, <4>1, FoundStays
    <3>9. OneIsRunning' /\ PausedMeansQuiet'
      BY <1>4, <3>3, NobodyRuns
    <3>10. StagesClean'
      BY <3>1 DEF StagesClean, Cancelling
    <3> QED BY <1>1, <3>6, <3>7, <3>8, <3>9, <3>10, Outside DEF OutsidePcs
  <2> QED BY <1>6, <1>8, <2>1 DEF RetryTransaction
<1>9. CASE ReadForResume
  <2>1. CASE /\ owner' = [owner EXCEPT !.pc = "Start", !.copy = batch]
             /\ LoadOnly(Owner, {}) /\ UNCHANGED token
    <3>1. owner'.pc = "Start" /\ owner'.copy = batch
      BY <1>2, <2>1 DEF OwnerState
    <3> QED BY <1>1, <1>4, <1>5, <2>1, <3>1, OutsideReads DEF OutsidePcs
  <2> QED BY <1>6, <1>9, <2>1 DEF ReadForResume
<1>10. CASE StartRun
  <2>1. ASSUME NEW pc \in {"SaveStart", "Open"}, OwnerGoes(pc), LoadOnly(Owner, {TheBatch}),
               \A k \in Members \ Given : HasRecord(owner.copy, k),
               batch = owner.copy, ~BatchEnded(batch), UNCHANGED token
        PROVE  OrderlyInv'
    <3>1. /\ owner'.pc = pc /\ owner'.copy = owner.copy
          /\ owner'.target = owner.target /\ owner'.purpose = owner.purpose
      BY <1>2, <2>1 DEF OwnerGoes, OwnerState
    <3>2. {TheBatch} \in SUBSET Rows
      BY Parameters
    <3>3. UNCHANGED <<jobs, batch>> /\ \A c \in Controllers : fresh'[c] = fresh[c]
      BY <1>5, <2>1, <3>2, Untouched
    <3>4. owner.purpose = "Retry" =>
              \A k \in Members \ {owner.target} : IsTerminal(jobs[k])
      BY <1>2, <2>1, RecordIsOver DEF Given, RecordsTruthful
    <3>5. OwnerDecides'
      BY <2>1, <3>1, <3>3, <3>4 DEF OwnerDecides
    <3>6. PassedIsOver' /\ RunIsHeld' /\ StagesInOrder' /\ RunIsNotPaused'
      BY <3>1, NoRun DEF PassedIsOver, LoopPcs, AtJobPcs, RunPcs
    <3>7. NotCancelled(owner'.copy) /\ Truthful(owner'.copy, jobs)
      BY <3>1 DEF BatchIsKept, RecordsTruthful
    <3> QED BY <1>1, <1>4, <2>1, <3>1, <3>3, <3>5, <3>6, <3>7, OwnerReads
  <2> QED BY <1>6, <1>10, <2>1 DEF StartRun
<1>11. CASE SaveStart
  <2> DEFINE b == StartBatch(owner.copy)
  <2>1. CASE /\ SaveBatch(Owner, b, {TheBatch})
             /\ owner' = [owner EXCEPT !.pc = "Open", !.copy = batch']
             /\ UNCHANGED token
    <3>1. b \in Batch /\ {TheBatch} \in SUBSET Rows
      BY <1>2, BatchMethods, Parameters
    <3>2. NotCancelled(b) /\ ~BatchEnded(b) /\ Truthful(b, jobs)
      BY <1>2 DEF StartBatch, Batch, NotCancelled, Truthful, BatchIsKept, RecordsTruthful,
         HasRecord, BatchEnded, BatchTerminal
    <3>3. jobs' = jobs /\ batch' = b
      BY <2>1 DEF SaveBatch
    <3>4. /\ owner'.pc = "Open" /\ owner'.copy = b
          /\ owner'.target = owner.target /\ owner'.purpose = owner.purpose
      BY <1>2, <2>1, <3>3 DEF OwnerState
    <3>5. OwnerDecides'
      BY <1>11, <3>2, <3>3, <3>4, Undecided DEF SaveStart, BatchPcs
    <3>6. PassedIsOver' /\ RunIsHeld' /\ StagesInOrder' /\ RunIsNotPaused'
      BY <3>4, NoRun DEF PassedIsOver, LoopPcs, AtJobPcs, RunPcs
    <3>7. OneIsRunning' /\ PausedMeansQuiet'
      BY <1>4, <3>3, NobodyRuns
    <3> HIDE DEF b
    <3> QED BY <1>1, <1>11, <2>1, <3>1, <3>2, <3>4, <3>5, <3>6, <3>7, OwnerWritesBatch
  <2> QED BY <1>6, <1>11, <2>1 DEF SaveStart
<1>12. CASE OpenSession
  <2>1. PICK pc \in {"Loop", "FailLoad"} :
           owner' = [owner EXCEPT !.pc = pc, !.next = First(Given)]
    BY <1>12 DEF OpenSession
  <2>2. /\ owner'.pc = pc /\ owner'.copy = owner.copy /\ owner'.next = First(Given)
        /\ owner'.target = owner.target /\ owner'.purpose = owner.purpose
    BY <1>2, <2>1 DEF OwnerState
  <2>3. UNCHANGED <<jobs, batch, fresh, token>>
    BY <1>12 DEF OpenSession
  <2>4. OwnerDecides'
    BY <1>12, <2>2, <2>3, Undecided DEF OpenSession, OwnerDecides, BatchPcs
  <2>5. PassedIsOver'
    <3>1. ASSUME NEW i \in Members, i < First(Given) PROVE IsTerminal(jobs[i])
      <4>1. i \notin Given
        BY <3>1, Queue DEF Members
      <4> QED BY <1>12, <4>1 DEF Given, OpenSession, OwnerDecides, BatchPcs
    <3> QED BY <2>2, <2>3, <3>1 DEF PassedIsOver
  <2>6. RunIsHeld' /\ StagesInOrder' /\ RunIsNotPaused'
    BY <2>2, NoRun DEF RunPcs
  <2>7. NotCancelled(owner'.copy) /\ Truthful(owner'.copy, jobs)
    BY <2>2 DEF BatchIsKept, RecordsTruthful
  <2> QED BY <1>1, <1>4, <2>2, <2>3, <2>4, <2>5, <2>6, <2>7, OwnerReads
<1>13. CASE FailLoad
  <2>1. /\ owner.pc = "FailLoad" /\ owner.next \in Members
        /\ owner.pc \in LoopPcs \intersect BatchPcs
    BY <1>2, <1>3, <1>13, Parameters DEF FailLoad, OwnerPlace, OwnerState
  <2>2. fresh[Owner] \in SUBSET Rows /\ fresh[Owner] \union {owner.next} \in SUBSET Rows
    BY <2>1, Parameters, TypeParts
  <2>3. /\ UNCHANGED <<jobs, batch, token>> /\ \A c \in Controllers : fresh'[c] = fresh[c]
    BY <1>5, <1>13, <2>2, Untouched DEF FailLoad
  <2>4. /\ owner'.pc \in {"FailLoad", "FailSave"} /\ owner'.copy = owner.copy
        /\ owner'.target = owner.target /\ owner'.purpose = owner.purpose
    BY <1>2, <1>13 DEF FailLoad, OwnerGoes, OwnerState
  <2>5. OwnerDecides'
    BY <2>1, <2>3, <2>4, Undecided DEF OwnerDecides, BatchPcs, AtJobPcs
  <2>6. PassedIsOver' /\ RunIsHeld'
    <3>1. CASE IsTerminal(jobs[owner.next])
      <4>1. owner'.pc = "FailLoad" /\ owner'.next = NextAfter(owner.next)
        BY <1>2, <1>13, <3>1 DEF FailLoad, OwnerState
      <4>2. PassedIsOver'
        BY <2>1, <2>3, <3>1, <4>1, GoesOn
      <4> QED BY <4>1, <4>2, NoRun DEF RunPcs
    <3>2. CASE ~IsTerminal(jobs[owner.next])
      <4>1. owner'.pc = "FailSave" /\ owner'.next = owner.next
        BY <1>2, <1>13, <3>2 DEF FailLoad, OwnerGoes, OwnerState
      <4>2. PassedIsOver'
        BY <2>1, <2>3, <4>1, StaysAt
      <4> QED BY <2>3, <3>2, <4>1, <4>2 DEF RunIsHeld, HoldPcs, ExecPcs
    <3> QED BY <3>1, <3>2
  <2>7. StagesInOrder' /\ RunIsNotPaused'
    BY <2>4 DEF StagesInOrder, RunIsNotPaused, RunPcs
  <2>8. NotCancelled(owner'.copy) /\ Truthful(owner'.copy, jobs)
    BY <2>4 DEF BatchIsKept, RecordsTruthful
  <2> QED BY <1>1, <1>4, <2>3, <2>4, <2>5, <2>6, <2>7, <2>8, OwnerReads
<1>14. CASE FailSave
  <2> DEFINE k == owner.next
             j == Fail(jobs[k])
             b == RecordJob(owner.copy, k, "Failed")
             keep == fresh[Owner] \ {k}
  <2>1. CASE /\ SaveJob(Owner, k, j, keep) /\ k \in fresh[Owner]
             /\ owner' = [owner EXCEPT !.pc = "FailLoad", !.next = NextAfter(k), !.copy = b]
             /\ UNCHANGED token
    <3>1. k \in Members /\ jobs[k] \in Job /\ keep \in SUBSET Rows
      <4>1. k \in Members
        BY <1>14 DEF FailSave, OwnerPlace, AtJobPcs
      <4> QED BY <4>1, Parameters, TypeParts
    <3>2. ~IsTerminal(jobs[k])
      BY <1>14, <2>1 DEF FailSave, RunIsHeld
    <3>3. j \in Job /\ IsTerminal(j) /\ j.status = "Failed"
      BY <3>1, <3>2, JobEnds
    <3>4. /\ jobs'[k] = j /\ \A i \in Members : i # k => jobs'[i] = jobs[i]
          /\ batch' = batch
      BY <2>1, <3>1, <3>3, SavedJob, Parameters
    <3>5. /\ owner'.pc = "FailLoad" /\ owner'.copy = b /\ owner'.next = NextAfter(k)
          /\ owner'.target = owner.target /\ owner'.purpose = owner.purpose
      BY <1>2, <2>1 DEF OwnerState
    <3>6. owner.pc \in LoopPcs /\ owner.pc \in BatchPcs \ {"Finish"}
      BY <1>3, <1>14 DEF FailSave
    <3>7. /\ NotCancelled(b) /\ ~BatchEnded(b) /\ b.terminal_jobs[k] = "Failed"
          /\ \A i \in Members : i # k => b.terminal_jobs[i] = owner.copy.terminal_jobs[i]
      BY <1>2, <3>1, <3>6
         DEF RecordJob, Batch, NotCancelled, BatchIsKept, BatchEnded, OwnerDecides
    <3>8. Truthful(b, jobs')
      BY <3>3, <3>4, <3>7 DEF RecordsTruthful, Truthful, HasRecord
    <3> HIDE DEF j, b, keep
    <3>9. OwnerDecides'
      BY <3>3, <3>4, <3>5, <3>6, <3>7, Undecided DEF OwnerDecides, BatchPcs
    <3>10. PassedIsOver'
      BY <3>1, <3>3, <3>4, <3>5, <3>6, GoesOn
    <3>11. RunIsHeld' /\ StagesInOrder' /\ RunIsNotPaused'
      BY <3>5, NoRun DEF RunPcs
    <3>12. OneIsRunning' /\ PausedMeansQuiet'
      BY <1>4, <3>3, <3>4, NobodyRuns
    <3>13. StagesClean'
      BY <3>3, <3>4 DEF StagesClean
    <3> QED BY <1>1, <1>14, <2>1, <3>1, <3>3, <3>5, <3>7, <3>8, <3>9, <3>10, <3>11, <3>12,
               <3>13, <3>2, OwnerWritesJob
  <2> QED BY <1>6, <1>14, <2>1 DEF FailSave, Holds
<1>15. CASE FailFinish
  <2> DEFINE b == IF CanFinishBatch(owner.copy) THEN FinishBatch(owner.copy, "Failed")
                                                ELSE owner.copy
  <2>1. CASE SaveBatch(Owner, b, {}) /\ owner' = NoOwner /\ token' = FALSE
    <3>1. b \in Batch /\ {} \in SUBSET Rows
      BY <1>2, BatchMethods DEF BatchTerminal
    <3>2. NotCancelled(b) /\ Truthful(b, jobs)
      BY <1>2 DEF CanFinishBatch, FinishBatch, Batch, NotCancelled, Truthful, BatchIsKept,
         RecordsTruthful, HasRecord, BatchEnded, BatchTerminal, AllRecorded
    <3>3. jobs' = jobs
      BY <2>1 DEF SaveBatch
    <3>4. owner'.pc = "Idle" /\ owner'.copy = NewBatch
      BY <2>1, NoOwnerOK
    <3>5. OneIsRunning' /\ PausedMeansQuiet'
      BY <1>4, <3>3, NobodyRuns
    <3> HIDE DEF b
    <3> QED BY <1>1, <1>15, <2>1, <3>1, <3>2, <3>4, <3>5, Outside, NewBatchTruthful,
               OwnerWritesBatch DEF OutsidePcs
  <2> QED BY <1>6, <1>15, <2>1 DEF FailFinish
<1> QED BY <1>7, <1>8, <1>9, <1>10, <1>11, <1>12, <1>13, <1>14, <1>15 DEF Entry



-----------------------------------------------------------------------------
(* OrderlyInv: the loop over the Jobs. *)

\* A step of the loop that writes nothing.
LEMMA LoopReads ==
    ASSUME OrderlyInv, BaseInv', UNCHANGED <<jobs, batch, ctl>>,
           token' = token \/ token' = FALSE,
           \A c \in Controllers : fresh'[c] = fresh[c],
           \A k \in Members : jobs[k].status # "Running",
           owner.pc \in BatchPcs,
           owner'.pc \in {"Loop", "MarkPaused", "Wait", "CheckJob", "Record", "Outcome",
                          "Decide", "LoadJob"},
           owner'.purpose = owner.purpose, owner'.target = owner.target,
           NotCancelled(owner'.copy), Truthful(owner'.copy, jobs), ~BatchEnded(owner'.copy),
           owner'.pc \in {"CheckJob", "LoadJob"} => batch.status # "Paused",
           PassedIsOver'
    PROVE  OrderlyInv'
<1>1. OwnerDecides'
  BY Undecided DEF OrderlyInv, OwnerDecides, BatchPcs, AtJobPcs, RunPcs
<1>2. RunIsHeld' /\ StagesInOrder' /\ RunIsNotPaused'
  BY DEF RunIsHeld, StagesInOrder, RunIsNotPaused, RunPcs, HoldPcs, ExecPcs
<1> QED BY <1>1, <1>2, NobodyRuns, OwnerReads

\* How a Job that is over ended is recorded in the copy of the Batch.
LEMMA RecordKeeps ==
    ASSUME OrderlyInv, BaseInv', UNCHANGED ctl, owner.pc \in {"CheckJob", "Outcome"},
           IsTerminal(jobs[owner.next]), RecordInMemory(owner.next)
    PROVE  OrderlyInv'
<1> USE DEF OrderlyInv, BaseInv
<1> DEFINE k == owner.next
           b == RecordJob(owner.copy, k, OutcomeOf(jobs[k].status))
<1>1. CASE OwnerLeaves
  BY <1>1, Leaving
<1>2. CASE /\ owner' = [owner EXCEPT !.pc = "Record", !.copy = b]
           /\ UNCHANGED <<jobs, batch, fresh, token>>
  <2>1. /\ owner.pc \in LoopPcs /\ owner.pc \in BatchPcs \ {"Finish"}
        /\ k \in Members /\ owner.copy \in Batch
    BY TypeParts DEF LoopPcs, BatchPcs, AtJobPcs, OwnerPlace, OwnerState
  <2>2. OutcomeOf(jobs[k].status) = jobs[k].status
    BY Outcomes DEF IsTerminal
  <2>3. /\ NotCancelled(b) /\ ~BatchEnded(b) /\ b.terminal_jobs[k] = jobs[k].status
        /\ \A i \in Members : i # k => b.terminal_jobs[i] = owner.copy.terminal_jobs[i]
    BY <2>1, <2>2
       DEF RecordJob, Batch, NotCancelled, BatchIsKept, BatchEnded, OwnerDecides
  <2>4. Truthful(b, jobs)
    BY <2>3 DEF RecordsTruthful, Truthful, HasRecord
  <2>5. /\ owner'.pc = "Record" /\ owner'.copy = b /\ owner'.next = k
        /\ owner'.target = owner.target /\ owner'.purpose = owner.purpose
    BY <1>2, TypeParts DEF OwnerState
  <2> HIDE DEF b
  <2>6. PassedIsOver'
    BY <1>2, <2>1, <2>5, StaysAt
  <2>7. \A i \in Members : jobs[i].status # "Running"
    BY NothingIsRunning DEF ExecPcs
  <2> QED BY <1>2, <2>1, <2>3, <2>4, <2>5, <2>6, <2>7, LoopReads
<1> QED BY <1>1, <1>2 DEF RecordInMemory

LEMMA RunLoopKeeps ==
    ASSUME Orderly, OrderlyInv, RunLoop, UNCHANGED ctl
    PROVE  OrderlyInv'
<1> USE DEF OrderlyInv, BaseInv
<1>1. BaseInv'
  BY RunLoopBase
<1>2. owner.copy \in Batch /\ owner \in OwnerState /\ {TheBatch} \in SUBSET Rows
  BY Parameters, TypeParts DEF OwnerState
<1>3. owner.pc \in {"Loop", "MarkPaused", "Wait", "CheckJob", "Record", "AfterRun",
                    "Outcome", "Decide", "Finish"}
  BY DEF RunLoop, LoopTop, SavePaused, WakeUp, CheckJob, SaveRecord, AfterRun, ReadOutcome,
         CancelLoad, CancelSave, CancelRecord, CancelSaveBatch, LoopEnd, Decide, SaveFinish,
         BatchIsKept
<1>4. /\ owner.pc \in BatchPcs /\ (owner.pc \notin {"Decide", "Finish"} => owner.pc \in LoopPcs)
      /\ owner.pc \notin {"Loop", "Decide", "Finish"} => owner.next \in Members
      /\ owner.pc = "Loop" /\ owner.next <= JobCount => owner.next \in Members
      /\ \A k \in Members : jobs[k].status # "Running"
      /\ ~BatchEnded(batch) /\ (owner.pc # "Finish" => ~BatchEnded(owner.copy))
  <2>1. \A k \in Members : jobs[k].status # "Running"
    BY <1>3, NothingIsRunning DEF ExecPcs
  <2>2. /\ owner.pc \in BatchPcs /\ (owner.pc \notin {"Decide", "Finish"} => owner.pc \in LoopPcs)
        /\ owner.pc \notin {"Loop", "Decide", "Finish"} => owner.pc \in AtJobPcs
    BY <1>3 DEF BatchPcs, LoopPcs, AtJobPcs, RunPcs
  <2>3. owner.pc = "Loop" /\ owner.next <= JobCount => owner.next \in Members
    BY <1>2, Parameters DEF OwnerPlace, OwnerState
  <2> QED BY <2>1, <2>2, <2>3 DEF OwnerPlace, OwnerDecides
<1>5. CASE OwnerLeaves
  BY <1>5, Leaving
<1>6. owner'.copy = owner.copy => NotCancelled(owner'.copy) /\ Truthful(owner'.copy, jobs)
  BY DEF BatchIsKept, RecordsTruthful
<1>7. CASE LoopTop
  <2>1. PICK pc \in {"MarkPaused", "Wait", "CheckJob"} :
           /\ owner' = [owner EXCEPT !.copy = batch, !.pc = pc]
           /\ pc = "CheckJob" => batch.status # "Paused"
    BY <1>4, <1>7 DEF LoopTop, BatchIsKept, NotCancelled
  <2>2. /\ owner'.pc = pc /\ owner'.copy = batch /\ owner'.next = owner.next
        /\ owner'.target = owner.target /\ owner'.purpose = owner.purpose
    BY <1>2, <2>1 DEF OwnerState
  <2>3. UNCHANGED <<jobs, batch, token>> /\ \A c \in Controllers : fresh'[c] = fresh[c]
    BY <1>2, <1>7, Loaded, Parameters DEF LoopTop
  <2>4. PassedIsOver'
    BY <1>4, <1>7, <2>2, <2>3, StaysAt DEF LoopTop
  <2>5. NotCancelled(owner'.copy) /\ Truthful(owner'.copy, jobs)
    BY <2>2 DEF BatchIsKept, RecordsTruthful
  <2> QED BY <1>1, <1>4, <2>1, <2>2, <2>3, <2>4, <2>5, LoopReads
<1>8. CASE SavePaused
  <2> DEFINE b == MarkPaused(owner.copy)
  <2>1. CASE SaveBatch(Owner, b, {TheBatch}) /\ OwnerGoes("Wait") /\ UNCHANGED token
    <3>1. b \in Batch
      BY <1>2, BatchMethods
    <3>2. NotCancelled(b) /\ ~BatchEnded(b) /\ Truthful(b, jobs)
      BY <1>2 DEF MarkPaused, Batch, NotCancelled, Truthful, BatchIsKept, RecordsTruthful,
         HasRecord, BatchEnded, BatchTerminal
    <3>3. jobs' = jobs /\ batch' = b
      BY <2>1 DEF SaveBatch
    <3>4. /\ owner'.pc = "Wait" /\ owner'.copy = owner.copy /\ owner'.next = owner.next
          /\ owner'.target = owner.target /\ owner'.purpose = owner.purpose
      BY <1>2, <2>1 DEF OwnerGoes, OwnerState
    <3>5. OwnerDecides'
      BY <1>4, <1>8, <3>2, <3>3, <3>4, Undecided DEF SavePaused, BatchPcs, AtJobPcs
    <3>6. PassedIsOver'
      BY <1>4, <1>8, <3>3, <3>4, StaysAt DEF SavePaused
    <3>7. RunIsHeld' /\ StagesInOrder' /\ RunIsNotPaused'
      BY <3>4, NoRun DEF RunPcs
    <3>8. OneIsRunning' /\ PausedMeansQuiet'
      BY <1>4, <3>3, NobodyRuns
    <3> HIDE DEF b
    <3> QED BY <1>1, <1>2, <1>6, <1>8, <2>1, <3>1, <3>2, <3>4, <3>5, <3>6, <3>7, <3>8,
               OwnerWritesBatch
  <2> QED BY <1>5, <1>8, <2>1 DEF SavePaused
<1>9. CASE WakeUp
  <2>1. /\ owner'.pc = "Loop" /\ owner'.next = owner.next /\ owner'.copy = owner.copy
        /\ owner'.target = owner.target /\ owner'.purpose = owner.purpose
    BY <1>2, <1>9 DEF WakeUp, OwnerGoes, OwnerState
  <2>2. PassedIsOver'
    BY <1>4, <1>9, <2>1, StaysAt DEF WakeUp
  <2> QED BY <1>1, <1>4, <1>6, <1>9, <2>1, <2>2, LoopReads DEF WakeUp
<1>10. CASE CheckJob
  <2> DEFINE k == owner.next
  <2>1. CASE owner' = [owner EXCEPT !.pc = "LoadJob", !.copy = NewBatch]
             /\ UNCHANGED <<jobs, batch, fresh, token>>
    <3>1. /\ owner'.pc = "LoadJob" /\ owner'.next = k /\ owner'.copy = NewBatch
          /\ owner'.target = owner.target /\ owner'.purpose = owner.purpose
      BY <1>2, <2>1 DEF OwnerState
    <3>2. PassedIsOver'
      BY <1>4, <1>10, <2>1, <3>1, StaysAt DEF CheckJob
    <3>3. batch.status # "Paused"
      BY <1>10 DEF CheckJob, RunIsNotPaused
    <3> QED BY <1>1, <1>4, <1>10, <2>1, <3>1, <3>2, <3>3, NewBatchOK, NewBatchTruthful,
               LoopReads
  <2>2. CASE /\ owner' = [owner EXCEPT !.pc = "Loop", !.next = NextAfter(k)]
             /\ UNCHANGED <<jobs, batch, fresh, token>> /\ IsTerminal(jobs[k])
    <3>1. /\ owner'.pc = "Loop" /\ owner'.next = NextAfter(k) /\ owner'.copy = owner.copy
          /\ owner'.target = owner.target /\ owner'.purpose = owner.purpose
      BY <1>2, <2>2 DEF OwnerState
    <3>2. PassedIsOver'
      BY <1>4, <1>10, <2>2, <3>1, GoesOn DEF CheckJob
    <3> QED BY <1>1, <1>4, <1>6, <1>10, <2>2, <3>1, <3>2, LoopReads DEF CheckJob
  <2> QED BY <1>1, <1>10, <2>1, <2>2, RecordKeeps DEF CheckJob
<1>11. CASE SaveRecord
  <2>1. CASE /\ SaveBatch(Owner, owner.copy, {TheBatch})
             /\ owner' = [owner EXCEPT !.pc = "Loop", !.next = NextAfter(owner.next)]
             /\ UNCHANGED token
    <3>1. jobs' = jobs /\ batch' = owner.copy
      BY <2>1 DEF SaveBatch
    <3>2. /\ owner'.pc = "Loop" /\ owner'.next = NextAfter(owner.next)
          /\ owner'.copy = owner.copy
          /\ owner'.target = owner.target /\ owner'.purpose = owner.purpose
      BY <1>2, <2>1 DEF OwnerState
    <3>3. OwnerDecides'
      BY <1>4, <1>11, <3>1, <3>2, Undecided DEF SaveRecord, BatchPcs
    <3>4. PassedIsOver'
      <4>1. IsTerminal(jobs[owner.next])
        BY <1>11 DEF SaveRecord, PassedIsOver
      <4> QED BY <1>4, <1>11, <3>1, <3>2, <4>1, GoesOn DEF SaveRecord
    <3>5. RunIsHeld' /\ StagesInOrder' /\ RunIsNotPaused'
      BY <3>2, NoRun DEF RunPcs
    <3>6. OneIsRunning' /\ PausedMeansQuiet'
      BY <1>4, <3>1, NobodyRuns
    <3> QED BY <1>1, <1>2, <1>6, <1>11, <2>1, <3>2, <3>3, <3>4, <3>5, <3>6, OwnerWritesBatch
  <2> QED BY <1>5, <1>11, <2>1 DEF SaveRecord
<1>12. CASE AfterRun
  <2>1. /\ owner'.pc = "Outcome" /\ owner'.next = owner.next /\ owner'.copy = batch
        /\ owner'.target = owner.target /\ owner'.purpose = owner.purpose
    BY <1>2, <1>12 DEF AfterRun, OwnerState
  <2>2. UNCHANGED <<jobs, batch>> /\ \A c \in Controllers : fresh'[c] = fresh[c]
    BY <1>2, <1>12, Loaded, Parameters DEF AfterRun
  <2>3. PassedIsOver'
    <3>1. IsTerminal(jobs[owner.next])
      BY <1>12 DEF AfterRun, PassedIsOver
    <3> QED BY <1>4, <1>12, <2>1, <2>2, <3>1, StaysAt DEF AfterRun
  <2>4. NotCancelled(owner'.copy) /\ Truthful(owner'.copy, jobs)
    BY <2>1 DEF BatchIsKept, RecordsTruthful
  <2> QED BY <1>1, <1>4, <1>12, <2>1, <2>2, <2>3, <2>4, LoopReads DEF AfterRun
<1>13. CASE ReadOutcome
  <2>1. IsTerminal(jobs[owner.next]) /\ RecordInMemory(owner.next)
    BY <1>4, <1>13 DEF ReadOutcome, PassedIsOver
  <2> QED BY <1>1, <1>13, <2>1, RecordKeeps DEF ReadOutcome
<1>14. CASE LoopEnd
  <2>1. /\ owner'.pc = "Decide" /\ owner'.copy = owner.copy
        /\ owner'.target = owner.target /\ owner'.purpose = owner.purpose
    BY <1>2, <1>14 DEF LoopEnd, OwnerGoes, OwnerState
  <2>2. PassedIsOver'
    BY <2>1 DEF PassedIsOver, LoopPcs, AtJobPcs, RunPcs
  <2> QED BY <1>1, <1>4, <1>6, <1>14, <2>1, <2>2, LoopReads DEF LoopEnd
<1>15. CASE Decide
  <2> DEFINE b == IF owner.copy.status = "Paused" THEN ResumeBatch(owner.copy)
                                                  ELSE owner.copy
             done == FinishBatch(b, FinalStatus(b))
  <2>1. CASE /\ owner' = [owner EXCEPT !.pc = "Finish", !.copy = done]
             /\ CanFinishBatch(b)
             /\ UNCHANGED <<jobs, batch, fresh, token>>
    <3>1. /\ b \in Batch /\ NotCancelled(b) /\ AllRecorded(b)
          /\ b.terminal_jobs = owner.copy.terminal_jobs
      <4>1. b \in Batch /\ AllRecorded(b)
        BY <1>2, <2>1, BatchMethods DEF CanFinishBatch
      <4>2. /\ b.terminal_jobs = owner.copy.terminal_jobs
            /\ b.cancel_requested = owner.copy.cancel_requested
        BY <1>2 DEF ResumeBatch, Batch
      <4>3. b.status = "Running"
        BY <2>1 DEF CanFinishBatch
      <4> HIDE DEF b
      <4> QED BY <4>1, <4>2, <4>3 DEF BatchIsKept, NotCancelled
    <3>2. /\ FinalStatus(b) \in {"Done", "Failed"}
          /\ FinalStatus(b) = "Done" => \A k \in Members : jobs[k].status # "Failed"
      BY <3>1 DEF FinalStatus, NotCancelled
    <3>3. /\ done.status = FinalStatus(b) /\ done.cancel_requested = b.cancel_requested
          /\ done.terminal_jobs = b.terminal_jobs
      BY <3>1 DEF FinishBatch, Batch
    <3> HIDE DEF b, done
    <3>4. NotCancelled(done) /\ BatchEnded(done) /\ Truthful(done, jobs)
      BY <3>1, <3>2, <3>3
         DEF NotCancelled, BatchEnded, BatchTerminal, Truthful, HasRecord, AllRecorded,
             RecordsTruthful
    <3>5. /\ owner'.pc = "Finish" /\ owner'.copy = done
          /\ owner'.target = owner.target /\ owner'.purpose = owner.purpose
      BY <1>2, <2>1 DEF OwnerState
    <3>6. OwnerDecides'
      BY <1>4, <2>1, <3>2, <3>3, <3>4, <3>5 DEF OwnerDecides
    <3>7. PassedIsOver' /\ OneIsRunning' /\ RunIsHeld' /\ StagesInOrder' /\ RunIsNotPaused'
      BY <1>4, <2>1, <3>5, NoRun, NobodyRuns DEF PassedIsOver, LoopPcs, AtJobPcs, RunPcs
    <3> QED BY <1>1, <2>1, <3>4, <3>5, <3>6, <3>7, OwnerReads
  <2> QED BY <1>5, <1>15, <2>1 DEF Decide
<1>16. CASE SaveFinish
  <2>1. CASE SaveBatch(Owner, owner.copy, {}) /\ owner' = NoOwner /\ token' = FALSE
    <3>1. jobs' = jobs /\ {} \in SUBSET Rows
      BY <2>1 DEF SaveBatch
    <3>2. owner'.pc = "Idle" /\ owner'.copy = NewBatch
      BY <2>1, NoOwnerOK
    <3>3. OneIsRunning' /\ PausedMeansQuiet'
      BY <1>4, <3>1, NobodyRuns
    <3>4. NotCancelled(owner.copy) /\ Truthful(owner.copy, jobs)
      BY DEF BatchIsKept, RecordsTruthful
    <3> QED BY <1>1, <1>2, <1>16, <2>1, <3>1, <3>2, <3>3, <3>4, Outside, NewBatchTruthful,
               OwnerWritesBatch DEF OutsidePcs
  <2> QED BY <1>5, <1>16, <2>1 DEF SaveFinish
<1> QED BY <1>3, <1>7, <1>8, <1>9, <1>10, <1>11, <1>12, <1>13, <1>14, <1>15, <1>16
        DEF RunLoop, CancelLoad, CancelSave, CancelRecord, CancelSaveBatch



-----------------------------------------------------------------------------
(* OrderlyInv: the run of a Job. *)

\* What a step of a run leaves to show.
StaysInRun ==
    /\ owner'.pc \in RunPcs /\ owner'.next = owner.next /\ owner'.copy = owner.copy
    /\ owner'.purpose = owner.purpose /\ owner'.target = owner.target
    /\ owner'.pc = "AfterRun" => IsTerminal(jobs'[owner.next])
    /\ jobs'[owner.next].status = "Running" => owner'.pc \in ExecPcs
    /\ RunIsHeld' /\ StagesInOrder'

LEMMA InRun ==
    ASSUME owner'.pc \in RunPcs, owner'.next = owner.next,
           owner'.copy = owner.copy, owner'.purpose = owner.purpose,
           owner'.target = owner.target,
           jobs'[owner.next].status = "Running" => owner'.pc \in ExecPcs,
           owner'.pc \in HoldPcs => \/ owner.next \in fresh'[Owner]
                                    \/ Cancelling /\ Asked(jobs'[owner.next]),
           owner'.pc \in {"Enter", "Touch", "StartJob"} /\ owner.next \in fresh'[Owner] =>
               jobs'[owner.next].status = "Pending",
           owner'.pc \in HoldPcs \intersect ExecPcs /\ owner.next \in fresh'[Owner] =>
               jobs'[owner.next].status = "Running",
           owner'.pc \in {"EnterError", "Reload", "CancelJob"} => Asked(jobs'[owner.next]),
           owner'.pc = "Error" /\ Cancelling => Asked(jobs'[owner.next]),
           owner'.pc = "SaveFailure" => ~Cancelling,
           owner'.pc = "CancelJob" =>
               owner.next \in fresh'[Owner] /\ ~IsTerminal(jobs'[owner.next]),
           owner'.pc = "AfterRun" => IsTerminal(jobs'[owner.next]),
           owner'.pc \in {"Gate", "Work", "Skip", "Commit", "SaveDone"} => StagesInOrder'
    PROVE  StaysInRun
<1>1. RunIsHeld'
  BY DEF RunIsHeld, RunPcs
<1>2. StagesInOrder'
  BY DEF StagesInOrder
<1> QED BY <1>1, <1>2 DEF StaysInRun

LEMMA RunStep ==
    ASSUME OrderlyInv, owner.pc \in RunPcs, UNCHANGED batch, StaysInRun,
           \A i \in Members \ {owner.next} : jobs'[i] = jobs[i],
           IsTerminal(jobs[owner.next]) => jobs'[owner.next] = jobs[owner.next]
    PROVE  /\ OwnerDecides' /\ OneIsRunning' /\ RunIsNotPaused' /\ PassedIsOver'
           /\ RunIsHeld' /\ PausedMeansQuiet' /\ StagesInOrder'
           /\ NotCancelled(owner'.copy)
           /\ owner'.pc \notin {"CancelLoad", "CancelSave", "CancelRecord"}
<1> USE DEF OrderlyInv
<1>1. /\ owner.pc \in LoopPcs /\ owner.pc \in BatchPcs \ {"Finish"}
      /\ owner'.pc \in BatchPcs \ {"Finish"}
      /\ owner'.pc \notin {"Record", "Outcome", "CancelLoad", "CancelSave", "CancelRecord"}
  BY DEF StaysInRun, LoopPcs, BatchPcs, AtJobPcs, RunPcs
<1>2. \A i \in Members : IsTerminal(jobs[i]) => IsTerminal(jobs'[i])
  OBVIOUS
<1>3. OwnerDecides'
  BY <1>1, <1>2, Undecided DEF StaysInRun, OwnerDecides
<1>4. PassedIsOver'
  BY <1>1, <1>2, StaysAt DEF StaysInRun
<1>5. \A i \in Members \ {owner.next} : jobs[i].status # "Running"
  BY DEF OneIsRunning, RunPcs
<1>6. OneIsRunning'
  BY <1>5 DEF OneIsRunning, StaysInRun
<1>7. RunIsNotPaused' /\ PausedMeansQuiet'
  BY DEF RunIsNotPaused, PausedMeansQuiet
<1> QED BY <1>1, <1>3, <1>4, <1>6, <1>7 DEF StaysInRun, BatchIsKept

LEMMA RunReads ==
    ASSUME OrderlyInv, BaseInv', UNCHANGED <<jobs, batch, ctl, token>>,
           \A c \in Controllers : fresh'[c] = fresh[c],
           owner.pc \in RunPcs, StaysInRun
    PROVE  OrderlyInv'
<1>1. Truthful(owner'.copy, jobs)
  BY DEF OrderlyInv, StaysInRun, RecordsTruthful
<1> QED BY <1>1, RunStep, OwnerReads

LEMMA RunWrites ==
    ASSUME OrderlyInv, BaseInv', NEW j \in Job, NEW keep \in SUBSET Rows,
           SaveJob(Owner, owner.next, j, keep), UNCHANGED <<ctl, token>>,
           owner.pc \in RunPcs, StaysInRun,
           IsTerminal(jobs[owner.next]) => j = jobs[owner.next],
           Cancelling /\ ~IsTerminal(j) =>
               \A i \in Stages : j.stage[i] \in StageSatisfied \union {"Pending"}
    PROVE  OrderlyInv'
<1> USE DEF OrderlyInv
<1> DEFINE k == owner.next
<1>1. k \in Members /\ TypeOK
  BY DEF BaseInv, OwnerPlace, AtJobPcs
<1>2. /\ jobs'[k] = j /\ \A i \in Members : i # k => jobs'[i] = jobs[i]
      /\ batch' = batch
  BY <1>1, SavedJob, Parameters
<1>3. owner'.copy \in Batch /\ owner'.copy = owner.copy
  BY TypeParts DEF BaseInv, StaysInRun, OwnerState
<1>4. Truthful(owner'.copy, jobs')
  BY <1>1, <1>2, <1>3, RecordIsOver DEF RecordsTruthful, Truthful
<1>5. StagesClean'
  BY <1>2 DEF StagesClean
<1> QED BY <1>1, <1>2, <1>4, <1>5, RunStep, OwnerWritesJob

LEMMA TranscribeKeeps ==
    ASSUME Orderly, OrderlyInv, Transcribe, UNCHANGED ctl
    PROVE  OrderlyInv'
<1> DEFINE k == owner.next
           held == k \in fresh[Owner]
<1>1. BaseInv'
  BY TranscribeBase DEF OrderlyInv
<1>0. /\ TypeOK /\ OwnerPlace /\ BatchIsKept /\ OneIsRunning /\ RunIsHeld
      /\ StagesClean /\ StagesInOrder
  BY DEF OrderlyInv, BaseInv
<1>2. owner.pc \in RunPcs
  BY DEF Transcribe, LoadJob, EnterJob, TouchJob, StartJob, EnterError, Gate,
         SourceChanged, ReuseStage, DoStage, BlockedStage, CommitSkip, CommitWork,
         FinishJob, HandleError, SaveFailure, ReloadJob, CancelHere, RunPcs
<1>3. /\ k \in Members /\ k = Current /\ jobs[k] \in Job /\ {k} \in SUBSET Rows
      /\ owner \in OwnerState /\ owner.stage \in 0 .. StageCount + 1
  <2>1. k \in Members
    BY <1>0, <1>2 DEF OwnerPlace, AtJobPcs
  <2> QED BY <1>0, <2>1, Parameters, TypeParts DEF Current, OwnerState
<1>4. CancelSeen <=> Asked(jobs[k])
  BY <1>0, <1>3 DEF CancelSeen, Asked, BatchIsKept, NotCancelled
<1>5. IsTerminal(jobs[k]) <=> jobs[k].status \notin {"Pending", "Running"}
  BY <1>3, JobEnds
<1>6. /\ owner.pc \in HoldPcs => held \/ (Cancelling /\ Asked(jobs[k]))
      /\ owner.pc \in {"Enter", "Touch", "StartJob"} /\ held => jobs[k].status = "Pending"
      /\ owner.pc \in HoldPcs \intersect ExecPcs /\ held => jobs[k].status = "Running"
      /\ owner.pc \notin ExecPcs => jobs[k].status # "Running"
  BY <1>0, <1>2, <1>3 DEF RunIsHeld, OneIsRunning, RunPcs
<1>7. ASSUME NEW pc, NEW s, NEW running,
             owner' = [owner EXCEPT !.pc = pc, !.stage = s, !.running = running]
      PROVE  /\ owner'.pc = pc /\ owner'.stage = s
             /\ owner'.next = owner.next /\ owner'.copy = owner.copy
             /\ owner'.purpose = owner.purpose /\ owner'.target = owner.target
  BY <1>3, <1>7 DEF OwnerState
<1>8. ASSUME NEW pc, OwnerGoes(pc)
      PROVE  /\ owner'.pc = pc /\ owner'.stage = owner.stage
             /\ owner'.next = owner.next /\ owner'.copy = owner.copy
             /\ owner'.purpose = owner.purpose /\ owner'.target = owner.target
  BY <1>3, <1>8 DEF OwnerGoes, OwnerState
<1>9. ASSUME NEW j \in Job, SaveJob(Owner, k, j, {k}) \/ SaveJob(Owner, k, j, {})
      PROVE  /\ jobs'[k] = j /\ UNCHANGED batch
             /\ SaveJob(Owner, k, j, {k}) => fresh'[Owner] = {k}
             /\ SaveJob(Owner, k, j, {}) => fresh'[Owner] = {}
  BY <1>0, <1>3, <1>9, SavedJob, Parameters
<1>10. ASSUME LoadOnly(Owner, {k})
       PROVE  /\ UNCHANGED <<jobs, batch>> /\ fresh'[Owner] = {k}
              /\ \A c \in Controllers : fresh'[c] = fresh[c]
  BY <1>0, <1>3, <1>10, Loaded, Parameters
<1> HIDE DEF k, held
<1> DEFINE Moved(pc) == /\ owner'.pc = pc /\ owner'.next = owner.next
                        /\ owner'.copy = owner.copy
                        /\ owner'.purpose = owner.purpose /\ owner'.target = owner.target
           Quiet == UNCHANGED <<jobs, batch, fresh, token>>
           Clean(j) == \A i \in Stages : j.stage[i] \in StageSatisfied \union {"Pending"}
<1>11. ASSUME NEW pc \in {"Touch", "EnterError", "Reload"}, Moved(pc), Quiet,
              owner.pc \in {"Enter", "Touch", "StartJob", "EnterError"},
              pc = "Touch" => owner.pc = "Enter",
              pc # "Touch" => Asked(jobs[k])
       PROVE  OrderlyInv'
  <2>1. jobs[k].status # "Running" /\ (held \/ (Cancelling /\ Asked(jobs[k])))
    BY <1>6, <1>11 DEF HoldPcs, ExecPcs
  <2>2. pc = "Touch" /\ held => jobs[k].status = "Pending"
    BY <1>6, <1>11
  <2>3. StaysInRun
    BY <1>11, <2>1, <2>2, InRun DEF k, held, RunPcs, HoldPcs, ExecPcs
  <2> QED BY <1>1, <1>2, <1>11, <2>3, RunReads
<1>12. ASSUME NEW pc \in ExecPcs \ {"CancelJob"}, Moved(pc), Quiet,
              owner.pc \in HoldPcs \intersect ExecPcs,
              pc = "Reload" => Asked(jobs[k]),
              pc = "Error" /\ Cancelling => Asked(jobs[k]),
              pc = "SaveFailure" => ~Cancelling,
              pc \in {"Gate", "Work", "Skip", "Commit", "SaveDone"} => StagesInOrder'
       PROVE  OrderlyInv'
  <2>1. held \/ (Cancelling /\ Asked(jobs[k]))
    BY <1>6, <1>12
  <2>2. held => jobs[k].status = "Running"
    BY <1>6, <1>12
  <2>3. StaysInRun
    BY <1>12, <2>1, <2>2, InRun DEF k, held, RunPcs, HoldPcs, ExecPcs
  <2> QED BY <1>1, <1>2, <1>12, <2>3, RunReads
<1>13. ASSUME NEW j \in Job, SaveJob(Owner, k, j, {k}), UNCHANGED token,
              ~IsTerminal(jobs[k]), Cancelling => Clean(j),
              NEW pc, Moved(pc), pc \in {"Gate", "Work"}, j.status = "Running",
              StagesInOrder'
       PROVE  OrderlyInv'
  <2>1. jobs'[k] = j /\ fresh'[Owner] = {k}
    BY <1>9, <1>13
  <2>2. StaysInRun
    BY <1>13, <2>1, InRun DEF k, RunPcs, HoldPcs, ExecPcs
  <2> QED BY <1>1, <1>2, <1>3, <1>13, <2>2, RunWrites DEF k
<1>14. ASSUME NEW j \in Job, SaveJob(Owner, k, j, {}), UNCHANGED token, Moved("AfterRun"),
              IsTerminal(j), ~IsTerminal(jobs[k])
       PROVE  OrderlyInv'
  <2>1. jobs'[k] = j /\ {} \in SUBSET Rows
    BY <1>9, <1>14
  <2>2. j.status # "Running"
    BY <1>14 DEF IsTerminal, JobTerminal
  <2>3. StaysInRun
    BY <1>14, <2>1, <2>2, InRun DEF k, RunPcs, HoldPcs, ExecPcs
  <2> QED BY <1>1, <1>2, <1>14, <2>1, <2>3, RunWrites DEF k
<1> HIDE DEF Moved, Quiet, Clean
<1>15. \A pc : OwnerGoes(pc) => Moved(pc) /\ owner'.stage = owner.stage
  BY <1>8 DEF Moved
<1>16. CASE LoadJob
  <2>1. LoadOnly(Owner, {k}) /\ UNCHANGED token
        /\ OwnerGoes(IF jobs[k].status = "Pending" THEN "Enter" ELSE "AfterRun")
    BY <1>3, <1>16 DEF LoadJob
  <2> DEFINE pc == IF jobs[k].status = "Pending" THEN "Enter" ELSE "AfterRun"
  <2>2. Moved(pc)
    BY <1>15, <2>1
  <2>3. jobs[k].status # "Running"
    BY <1>6, <1>16 DEF LoadJob, ExecPcs
  <2>4. pc \in RunPcs /\ (pc = "AfterRun" => IsTerminal(jobs[k]))
    BY <1>5, <2>3 DEF RunPcs
  <2>5. pc = "AfterRun" \/ (pc = "Enter" /\ jobs[k].status = "Pending")
    OBVIOUS
  <2> HIDE DEF pc
  <2>6. StaysInRun
    BY <1>10, <2>1, <2>2, <2>3, <2>4, <2>5, InRun DEF Moved, k, HoldPcs, ExecPcs
  <2> QED BY <1>1, <1>2, <1>10, <2>1, <2>6, RunReads
<1>17. CASE EnterJob
  <2>1. PICK pc \in {"Touch", "Reload"} : OwnerGoes(pc) /\ (pc = "Reload" => CancelSeen)
    BY <1>17 DEF EnterJob
  <2>2. Quiet /\ owner.pc = "Enter"
    BY <1>17 DEF EnterJob, Quiet
  <2> QED BY <1>4, <1>11, <1>15, <2>1, <2>2
<1>18. CASE TouchJob
  <2>1. CASE held /\ SaveJob(Owner, k, jobs[k], {k}) /\ OwnerGoes("StartJob")
    <3>1. jobs[k].status = "Pending" /\ jobs'[k] = jobs[k] /\ fresh'[Owner] = {k}
      BY <1>3, <1>6, <1>9, <1>18, <2>1 DEF TouchJob
    <3>2. Moved("StartJob")
      BY <1>15, <2>1
    <3>3. StaysInRun
      BY <3>1, <3>2, InRun DEF Moved, k, RunPcs, HoldPcs, ExecPcs
    <3>4. Cancelling /\ ~IsTerminal(jobs[k]) => Clean(jobs[k])
      BY <1>0, <1>3 DEF StagesClean, Clean
    <3>5. UNCHANGED token
      BY <1>18 DEF TouchJob
    <3> QED BY <1>1, <1>2, <1>3, <2>1, <3>3, <3>4, <3>5, RunWrites DEF k, Clean
  <2>2. CASE ~held /\ OwnerGoes("EnterError") /\ Quiet
    <3>1. owner.pc = "Touch"
      BY <1>18 DEF TouchJob
    <3>2. Asked(jobs[k])
      BY <1>6, <2>2, <3>1 DEF HoldPcs
    <3> QED BY <1>11, <1>15, <2>2, <3>1, <3>2
  <2> QED BY <1>3, <1>18, <2>1, <2>2 DEF TouchJob, Holds, held, Quiet
<1>19. CASE StartJob
  <2> DEFINE j == Start(jobs[k])
  <2>1. CASE /\ held /\ SaveJob(Owner, k, j, {k})
             /\ owner' = [owner EXCEPT !.pc = "Gate", !.stage = 1]
    <3>1. jobs[k].status = "Pending"
      BY <1>6, <1>19, <2>1 DEF StartJob
    <3>2. j \in Job /\ j.status = "Running" /\ j.stage = jobs[k].stage
      BY <1>3, JobMethods
    <3>3. ~IsTerminal(jobs[k]) /\ (Cancelling => Clean(j))
      BY <1>0, <1>3, <1>5, <3>1, <3>2 DEF StagesClean, Clean
    <3>4. Moved("Gate") /\ owner'.stage = 1
      BY <1>3, <2>1 DEF OwnerState, Moved
    <3>5. StagesInOrder'
      BY <3>4 DEF StagesInOrder, Stages, Moved
    <3>6. UNCHANGED token
      BY <1>19 DEF StartJob
    <3> HIDE DEF j
    <3> QED BY <1>13, <2>1, <3>2, <3>3, <3>4, <3>5, <3>6
  <2>2. CASE (~held \/ ~CanStart(jobs[k])) /\ OwnerGoes("EnterError") /\ Quiet
    <3>1. owner.pc = "StartJob"
      BY <1>19 DEF StartJob
    <3>2. Asked(jobs[k])
      BY <1>6, <2>2, <3>1 DEF HoldPcs, CanStart, Asked
    <3> QED BY <1>11, <1>15, <2>2, <3>1, <3>2
  <2> QED BY <1>3, <1>19, <2>1, <2>2 DEF StartJob, Holds, held, Quiet
<1>20. CASE EnterError
  <2>1. Asked(jobs[k]) /\ owner.pc = "EnterError"
    BY <1>0, <1>20 DEF EnterError, RunIsHeld, k
  <2>2. Quiet /\ OwnerGoes("Reload")
    BY <1>4, <1>20, <2>1 DEF EnterError, Quiet
  <2> QED BY <1>11, <1>15, <2>1, <2>2
<1>21. ASSUME NEW pc \in {"Work", "Skip", "Commit"}, Moved(pc), Quiet,
              owner'.stage = owner.stage,
              owner.pc \in {"Gate", "Work"}
       PROVE  StagesInOrder'
  BY <1>0, <1>21 DEF StagesInOrder, Moved, Quiet
<1>22. ASSUME held, Cancelling, owner.pc \in {"Gate", "Work", "Skip", "Commit", "SaveDone"}
       PROVE  /\ Clean(jobs[k])
              /\ \A i \in Stages : i < owner.stage => jobs[k].stage[i] \in StageSatisfied
  <2>1. ~IsTerminal(jobs[k])
    BY <1>5, <1>6, <1>22 DEF HoldPcs, ExecPcs
  <2> QED BY <1>0, <1>3, <1>22, <2>1 DEF StagesClean, StagesInOrder, Clean, k, held
<1>23. CASE Gate
  <2>1. PICK pc \in {"Reload", "Work", "SaveDone"} :
           /\ OwnerGoes(pc)
           /\ pc = "Reload" => Asked(jobs[k])
           /\ pc = "SaveDone" => ~(owner.stage <= StageCount)
    BY <1>4, <1>23 DEF Gate
  <2>2. Quiet /\ owner.pc = "Gate" /\ Moved(pc) /\ owner'.stage = owner.stage
    BY <1>15, <1>23, <2>1 DEF Gate, Quiet
  <2>3. pc = "SaveDone" => StagesInOrder'
    <3>1. pc = "SaveDone" => owner.stage = StageCount + 1
      BY <1>3, <2>1, JobAssumption
    <3> QED BY <1>0, <2>2, <3>1 DEF StagesInOrder, Moved, Quiet
  <2>4. pc = "Work" => StagesInOrder'
    BY <1>21, <2>2
  <2> QED BY <1>12, <2>1, <2>2, <2>3, <2>4 DEF HoldPcs, ExecPcs
<1>24. CASE SourceChanged
  BY <1>24 DEF SourceChanged, Orderly
<1>25. CASE ReuseStage
  <2>1. /\ owner' = [owner EXCEPT !.pc = "Gate", !.stage = @ + 1]
        /\ Quiet /\ owner.pc = "Work" /\ jobs[k].stage[owner.stage] \in StageSatisfied
    BY <1>3, <1>25 DEF ReuseStage, Orderly, StageHere, Quiet
  <2>2. Moved("Gate") /\ owner'.stage = owner.stage + 1
    BY <1>3, <2>1 DEF OwnerState, Moved
  <2>3. \A i \in Stages : i < owner.stage + 1 => i < owner.stage \/ i = owner.stage
    BY <1>3 DEF Stages
  <2>4. StagesInOrder'
    BY <1>22, <2>1, <2>2, <2>3 DEF StagesInOrder, Moved, Quiet, k, held
  <2> QED BY <1>12, <2>1, <2>2, <2>4 DEF HoldPcs, ExecPcs
<1>26. CASE DoStage
  <2>1. PICK pc \in {"Skip", "Commit", "Error", "Reload"} :
           /\ owner' = [owner EXCEPT !.pc = pc] \/ owner' = [owner EXCEPT !.pc = pc, !.running = TRUE]
           /\ pc = "Error" => "Work" \in Faults
           /\ pc = "Reload" => Asked(jobs[k])
    BY <1>4, <1>26 DEF DoStage, OwnerGoes
  <2>2. Moved(pc) /\ owner'.stage = owner.stage
    BY <1>3, <2>1 DEF OwnerState, Moved
  <2>3. Quiet /\ owner.pc = "Work"
    BY <1>26 DEF DoStage, Quiet
  <2>4. pc = "Error" => ~Cancelling
    BY <2>1 DEF Orderly
  <2>5. pc \in {"Skip", "Commit"} => StagesInOrder'
    BY <1>21, <2>2, <2>3
  <2> QED BY <1>12, <2>1, <2>2, <2>3, <2>4, <2>5 DEF HoldPcs, ExecPcs
<1>27. CASE BlockedStage
  <2>1. /\ Moved("Error") /\ Quiet /\ owner.pc = "Work"
        /\ jobs[k].stage[owner.stage] \notin StageSatisfied
        /\ ~CanEnterStage(jobs[k], owner.stage)
    BY <1>3, <1>15, <1>27 DEF BlockedStage, StageHere, Quiet
  <2>2. ASSUME Cancelling PROVE Asked(jobs[k])
    <3>1. owner.stage \in Stages
      BY <1>0, <2>1 DEF OwnerPlace
    <3>2. held => CanEnterStage(jobs[k], owner.stage)
      <4>1. held => jobs[k].status = "Running"
        BY <1>6, <2>1 DEF HoldPcs, ExecPcs
      <4>2. held => jobs[k].stage[owner.stage] = "Pending"
        BY <1>22, <2>1, <2>2, <3>1 DEF Clean
      <4>3. held => PrerequisiteMet(jobs[k], owner.stage)
        <5>1. owner.stage > 1 => owner.stage - 1 \in Stages /\ owner.stage - 1 < owner.stage
          BY <3>1, JobAssumption DEF Stages
        <5>2. held /\ owner.stage > 1 =>
                  jobs[k].stage[owner.stage - 1] \in StageSatisfied
          BY <1>22, <2>1, <2>2, <5>1
        <5> QED BY <5>2 DEF PrerequisiteMet
      <4> QED BY <4>1, <4>2, <4>3 DEF CanEnterStage
    <3> QED BY <1>6, <2>1, <3>2 DEF HoldPcs, ExecPcs
  <2> QED BY <1>12, <2>1, <2>2 DEF HoldPcs, ExecPcs
\* What both commits of a stage do.
<1>28. ASSUME NEW j \in Job, SaveJob(Owner, k, j, {k}), UNCHANGED token, held,
              owner.pc \in {"Skip", "Commit"}, owner.stage \in Stages,
              j.status = jobs[k].status, j.stage[owner.stage] \in StageSatisfied,
              \A i \in Stages \ {owner.stage} : j.stage[i] = jobs[k].stage[i],
              NEW pc \in {"Gate", "Work"}, Moved(pc), owner'.stage = owner.stage + 1
       PROVE  OrderlyInv'
  <2>1. jobs[k].status = "Running" /\ ~IsTerminal(jobs[k])
    BY <1>5, <1>6, <1>28 DEF HoldPcs, ExecPcs
  <2>2. Cancelling => Clean(j)
    BY <1>22, <1>28 DEF Clean
  <2>3. \A i \in Stages : i < owner.stage + 1 => i < owner.stage \/ i = owner.stage
    BY <1>3 DEF Stages
  <2>4. jobs'[k] = j
    BY <1>9, <1>28
  <2>5. StagesInOrder'
    BY <1>22, <1>28, <2>3, <2>4 DEF StagesInOrder, Moved, k
  <2> QED BY <1>13, <1>28, <2>1, <2>2, <2>5
\* What both do when the copy is outdated, or the store fails.
<1>29. ASSUME owner.pc \in {"Skip", "Commit"}, ~held \/ "Commit" \in Faults,
              OwnerGoes("Error"), Quiet
       PROVE  OrderlyInv'
  <2>1. Cancelling => Asked(jobs[k])
    BY <1>6, <1>29 DEF HoldPcs, ExecPcs, Orderly
  <2> QED BY <1>12, <1>15, <1>29, <2>1 DEF HoldPcs, ExecPcs
<1>30. CASE CommitSkip
  <2>1. ASSUME held, SaveJob(Owner, k, SkipStage(jobs[k], owner.stage), {k}),
               NEW pc \in {"Gate", "Work"}, owner' = [owner EXCEPT !.pc = pc, !.stage = @ + 1]
        PROVE  OrderlyInv'
    <3>1. owner.stage \in Stages /\ owner.pc = "Skip" /\ UNCHANGED token
      BY <1>0, <1>30 DEF CommitSkip, OwnerPlace
    <3>2. Moved(pc) /\ owner'.stage = owner.stage + 1
      BY <1>3, <2>1 DEF OwnerState, Moved
    <3> DEFINE j == SkipStage(jobs[k], owner.stage)
    <3>3. /\ j \in Job /\ j.status = jobs[k].status /\ j.stage[owner.stage] \in StageSatisfied
          /\ \A i \in Stages \ {owner.stage} : j.stage[i] = jobs[k].stage[i]
      BY <1>3, <3>1, StageMethods
    <3>4. SaveJob(Owner, k, j, {k})
      BY <2>1
    <3> HIDE DEF j, k, held, Moved
    <3> QED BY <1>28, <2>1, <3>1, <3>2, <3>3, <3>4
  <2>2. CASE (~held \/ "Commit" \in Faults) /\ OwnerGoes("Error") /\ Quiet
    BY <1>29, <1>30, <2>2 DEF CommitSkip
  <2> QED BY <1>3, <1>30, <2>1, <2>2 DEF CommitSkip, Holds, held, Quiet
<1>31. CASE CommitWork
  <2>1. ASSUME held, NEW degraded \in BOOLEAN,
               SaveJob(Owner, k, CompleteStage(StartStage(jobs[k], owner.stage),
                                               owner.stage, Artifact, degraded), {k}),
               owner' = [owner EXCEPT !.pc = "Gate", !.stage = @ + 1, !.running = FALSE]
        PROVE  OrderlyInv'
    <3>1. owner.stage \in Stages /\ owner.pc = "Commit" /\ UNCHANGED token
      BY <1>0, <1>31 DEF CommitWork, OwnerPlace
    <3>2. Moved("Gate") /\ owner'.stage = owner.stage + 1
      BY <1>3, <2>1 DEF OwnerState, Moved
    <3> DEFINE j == CompleteStage(StartStage(jobs[k], owner.stage), owner.stage, Artifact,
                                  degraded)
    <3>3. /\ j \in Job /\ j.status = jobs[k].status /\ j.stage[owner.stage] \in StageSatisfied
          /\ \A i \in Stages \ {owner.stage} : j.stage[i] = jobs[k].stage[i]
      BY <1>3, <3>1, StageMethods, SMTT(30)
    <3>4. SaveJob(Owner, k, j, {k})
      BY <2>1
    <3> HIDE DEF j, k, held, Moved
    <3> QED BY <1>28, <2>1, <3>1, <3>2, <3>3, <3>4
  <2>2. CASE (~held \/ "Commit" \in Faults) /\ OwnerGoes("Error") /\ Quiet
    BY <1>29, <1>31, <2>2 DEF CommitWork
  <2> QED BY <1>3, <1>31, <2>1, <2>2 DEF CommitWork, Holds, held, Quiet
<1>32. CASE FinishJob
  <2>1. CASE /\ held /\ SaveJob(Owner, k, Finish(jobs[k]), {})
             /\ owner' = [owner EXCEPT !.pc = "AfterRun", !.stage = 0]
    <3>1. Moved("AfterRun") /\ UNCHANGED token
      BY <1>3, <1>32, <2>1 DEF FinishJob, OwnerState, Moved
    <3>2. ~IsTerminal(jobs[k])
      BY <1>5, <1>6, <1>32, <2>1 DEF FinishJob, HoldPcs, ExecPcs
    <3>3. Finish(jobs[k]) \in Job /\ IsTerminal(Finish(jobs[k]))
      BY <1>3, JobEnds
    <3> QED BY <1>14, <2>1, <3>1, <3>2, <3>3
  <2>2. CASE (~held \/ ~CanFinish(jobs[k])) /\ OwnerGoes("Error") /\ Quiet
    <3>1. owner.pc = "SaveDone" /\ owner.pc \in HoldPcs \intersect ExecPcs
      BY <1>32 DEF FinishJob, HoldPcs, ExecPcs
    <3>2. ASSUME Cancelling PROVE Asked(jobs[k])
      <4>1. owner.stage = StageCount + 1
        BY <1>0, <3>1, <3>2 DEF StagesInOrder
      <4>2. \A i \in Stages : i < owner.stage
        BY <4>1, JobAssumption DEF Stages
      <4>3. held => CanFinish(jobs[k])
        BY <1>6, <1>22, <3>1, <3>2, <4>2 DEF CanFinish, StageTerminal
      <4> QED BY <1>6, <2>2, <3>1, <4>3
    <3> QED BY <1>12, <1>15, <2>2, <3>1, <3>2 DEF ExecPcs
  <2> QED BY <1>3, <1>32, <2>1, <2>2 DEF FinishJob, Holds, held, Quiet
<1>33. CASE HandleError
  <2>1. PICK pc \in {"Reload", "SaveFailure"} :
           OwnerGoes(pc) /\ (IF Asked(jobs[k]) THEN pc = "Reload" ELSE pc = "SaveFailure")
    BY <1>4, <1>33 DEF HandleError
  <2>2. Quiet /\ owner.pc = "Error"
    BY <1>33 DEF HandleError, Quiet
  <2>3. pc = "SaveFailure" => ~Cancelling
    BY <1>0, <2>1, <2>2 DEF RunIsHeld, k
  <2> QED BY <1>12, <1>15, <2>1, <2>2, <2>3 DEF HoldPcs, ExecPcs
<1>34. CASE SaveFailure
  <2> DEFINE failed == IF owner.running
                       THEN FailStage(StartStage(jobs[k], owner.stage), owner.stage)
                       ELSE Cancel(jobs[k])
  <2>1. owner.pc = "SaveFailure" /\ held /\ UNCHANGED token
    BY <1>0, <1>6, <1>34 DEF SaveFailure, RunIsHeld, HoldPcs, ExecPcs
  <2>2. SaveJob(Owner, k, failed, {})
    BY <1>3, <1>34, <2>1 DEF SaveFailure, Holds, held
  <2>3. Moved("AfterRun")
    BY <1>3, <1>34 DEF SaveFailure, OwnerState, Moved
  <2>4. failed \in Job /\ IsTerminal(failed)
    <3>1. owner.running => owner.stage \in Stages
      BY <1>0 DEF OwnerPlace
    <3> QED BY <1>3, <3>1, StageMethods, JobEnds DEF IsTerminal, JobTerminal
  <2>5. ~IsTerminal(jobs[k])
    BY <1>5, <1>6, <2>1 DEF HoldPcs, ExecPcs
  <2> HIDE DEF failed
  <2> QED BY <1>14, <2>1, <2>2, <2>3, <2>4, <2>5
<1>35. CASE ReloadJob
  <2>1. /\ owner.pc = "Reload" /\ LoadOnly(Owner, {k}) /\ UNCHANGED token
        /\ Moved(IF IsTerminal(jobs[k]) THEN "AfterRun" ELSE "CancelJob")
    BY <1>3, <1>35 DEF ReloadJob, OwnerState, Moved
  <2>2. Asked(jobs[k])
    BY <1>0, <2>1 DEF RunIsHeld, k
  <2>3. IsTerminal(jobs[k]) => jobs[k].status # "Running"
    BY <1>5
  <2>4. StaysInRun
    <3>1. CASE IsTerminal(jobs[k])
      BY <1>10, <2>1, <2>2, <2>3, <3>1, InRun DEF Moved, k, RunPcs, HoldPcs, ExecPcs
    <3>2. CASE ~IsTerminal(jobs[k])
      BY <1>10, <2>1, <2>2, <3>2, InRun DEF Moved, k, RunPcs, HoldPcs, ExecPcs
    <3> QED BY <3>1, <3>2
  <2> QED BY <1>1, <1>2, <1>10, <2>1, <2>4, RunReads
<1>36. CASE CancelHere
  <2>1. owner.pc = "CancelJob" /\ Moved("AfterRun") /\ UNCHANGED token
    BY <1>15, <1>36 DEF CancelHere
  <2>2. CASE held
    <3>1. SaveJob(Owner, k, Cancel(jobs[k]), {})
      BY <1>3, <1>36, <2>2 DEF CancelHere, Holds, held
    <3>2. ~IsTerminal(jobs[k])
      BY <1>0, <2>1, <2>2 DEF RunIsHeld, k, held
    <3>3. Cancel(jobs[k]) \in Job /\ IsTerminal(Cancel(jobs[k]))
      BY <1>3, JobEnds DEF IsTerminal, JobTerminal
    <3> QED BY <1>14, <2>1, <3>1, <3>2, <3>3
  <2>3. CASE ~held
    <3>1. Quiet
      BY <1>3, <1>36, <2>1, <2>3 DEF CancelHere, Holds, held, Quiet
    <3>2. IsTerminal(jobs[k]) /\ jobs[k].status # "Running"
      BY <1>0, <1>5, <2>1, <2>3 DEF RunIsHeld, k, held
    <3>3. StaysInRun
      BY <2>1, <3>1, <3>2, InRun DEF Quiet, Moved, k, RunPcs, HoldPcs, ExecPcs
    <3> QED BY <1>1, <1>2, <3>1, <3>3, RunReads DEF Quiet
  <2> QED BY <2>2, <2>3
<1> QED BY <1>16, <1>17, <1>18, <1>19, <1>20, <1>23, <1>24, <1>25, <1>26, <1>27, <1>30, <1>31,
           <1>32, <1>33, <1>34, <1>35, <1>36 DEF Transcribe



-----------------------------------------------------------------------------
(* OrderlyInv: the steps of the controllers and the crashes. *)

\* What the command of a controller says of the rows the controller holds.
Holding(c, cmd) ==
    /\ cmd.pc \in {"Idle", "LoadJob", "SaveJob", "SavePause", "SaveResume", "BecomeOwner"}
    /\ cmd.pc \in {"LoadJob", "SaveJob"} => Cancelling
    /\ cmd.pc \in {"SavePause", "SaveResume"} /\ TheBatch \in fresh'[c] => cmd.copy = batch'
    /\ cmd.pc = "SaveJob" /\ cmd.next \in fresh'[c] => MayAsk(jobs'[cmd.next])

\* The other controllers hold what they held, but for the row that is written.
LEMMA CommandsStay ==
    ASSUME OrderlyInv, NEW c \in Controllers, NEW cmd, ctl' = [ctl EXCEPT ![c] = cmd],
           NotCancelled(batch'), NotCancelled(owner'.copy), UNCHANGED token,
           owner'.pc \notin {"CancelLoad", "CancelSave", "CancelRecord"}, Holding(c, cmd),
           \A a \in Controllers : a # c => fresh'[a] \subseteq fresh[a],
           \A a \in Controllers : a # c /\ TheBatch \in fresh'[a] => batch' = batch,
           \A a \in Controllers, k \in Members :
               a # c /\ k \in fresh'[a] => jobs'[k] = jobs[k]
    PROVE  BatchIsKept' /\ FoundIsCurrent'
<1> USE DEF OrderlyInv, BaseInv
<1>1. \A a \in Controllers : ctl'[a] = IF a = c THEN cmd ELSE ctl[a]
  BY TypeParts
<1>2. BatchIsKept'
  BY <1>1 DEF BatchIsKept, Holding
<1>3. ASSUME NEW a \in Controllers
      PROVE  /\ ctl'[a].pc \in {"SavePause", "SaveResume"} /\ TheBatch \in fresh'[a] =>
                    ctl'[a].copy = batch'
             /\ ctl'[a].pc = "SaveJob" /\ ctl'[a].next \in fresh'[a] =>
                    MayAsk(jobs'[ctl'[a].next])
  <2>1. CASE a = c
    BY <1>1, <2>1 DEF Holding
  <2>2. CASE a # c
    BY <1>1, <2>2 DEF FoundIsCurrent, CtlPlace
  <2> QED BY <2>1, <2>2
<1> QED BY <1>2, <1>3 DEF FoundIsCurrent

\* A controller begins a command, loads a row, or ends its command.
LEMMA ControllerReads ==
    ASSUME OrderlyInv, BaseInv', NEW c \in Controllers, NEW rows \in SUBSET Rows,
           LoadOnly(c, rows), UNCHANGED <<owner, token>>,
           NEW cmd, ctl' = [ctl EXCEPT ![c] = cmd], Holding(c, cmd)
    PROVE  OrderlyInv'
<1> USE DEF OrderlyInv
<1>1. /\ UNCHANGED <<jobs, batch, owner, token>> /\ fresh'[Owner] = fresh[Owner]
      /\ \A a \in Controllers : a # c => fresh'[a] = fresh[a]
  BY Loaded, Parameters DEF BaseInv
<1>2. BatchIsKept' /\ FoundIsCurrent'
  <2>1. /\ NotCancelled(batch') /\ NotCancelled(owner'.copy)
        /\ owner'.pc \notin {"CancelLoad", "CancelSave", "CancelRecord"}
    BY <1>1 DEF BatchIsKept
  <2> QED BY <1>1, <2>1, CommandsStay
<1>3. RecordsTruthful' /\ OwnerDecides' /\ OneIsRunning'
  BY <1>1 DEF RecordsTruthful, OwnerDecides, OneIsRunning
<1>4. RunIsNotPaused' /\ PausedMeansQuiet' /\ PassedIsOver'
  BY <1>1 DEF RunIsNotPaused, PausedMeansQuiet, PassedIsOver
<1>5. RunIsHeld' /\ StagesClean' /\ StagesInOrder'
  BY <1>1 DEF RunIsHeld, StagesClean, StagesInOrder
<1> QED BY <1>2, <1>3, <1>4, <1>5

\* It saves what its request makes of the Batch it found.
LEMMA ControllerWritesBatch ==
    ASSUME OrderlyInv, BaseInv', NEW c \in Controllers, NEW b \in Batch,
           SaveBatch(c, b, {}), UNCHANGED <<owner, token>>,
           NotCancelled(b), BatchEnded(b) <=> BatchEnded(batch),
           b.terminal_jobs = batch.terminal_jobs,
           b.status = "Paused" => batch.status = "Paused",
           NEW cmd, ctl' = [ctl EXCEPT ![c] = cmd], cmd.pc \in {"Idle", "BecomeOwner"}
    PROVE  OrderlyInv'
<1> USE DEF OrderlyInv
<1>1. /\ batch' = b /\ UNCHANGED <<jobs, owner, token>>
      /\ fresh'[Owner] = fresh[Owner] \ {TheBatch}
      /\ \A a \in Controllers : a # c => fresh'[a] = fresh[a] \ {TheBatch}
  <2>1. {} \in SUBSET Rows
    OBVIOUS
  <2> QED BY <2>1, SavedBatch, Parameters DEF BaseInv
<1>2. \A k \in Members : k \in fresh'[Owner] <=> k \in fresh[Owner]
  BY <1>1, Parameters
<1>3. BatchIsKept' /\ FoundIsCurrent'
  <2>1. /\ NotCancelled(batch') /\ NotCancelled(owner'.copy) /\ Holding(c, cmd)
        /\ owner'.pc \notin {"CancelLoad", "CancelSave", "CancelRecord"}
    BY <1>1 DEF BatchIsKept, Holding
  <2>2. \A a \in Controllers : a # c => fresh'[a] \subseteq fresh[a] /\ TheBatch \notin fresh'[a]
    BY <1>1
  <2> QED BY <1>1, <2>1, <2>2, CommandsStay
<1>4. RecordsTruthful'
  BY <1>1 DEF RecordsTruthful, Truthful, HasRecord, AllRecorded
<1>5. OwnerDecides'
  <2>1. owner.pc = "RetryTx" => owner.target \in Members
    BY DEF BaseInv, OwnerPlace
  <2> QED BY <1>1, <1>2, <2>1 DEF OwnerDecides
<1>6. OneIsRunning' /\ RunIsNotPaused' /\ PausedMeansQuiet' /\ PassedIsOver'
  BY <1>1 DEF OneIsRunning, RunIsNotPaused, PausedMeansQuiet, PassedIsOver
<1>7. RunIsHeld' /\ StagesClean' /\ StagesInOrder'
  <2>1. owner.pc \in RunPcs \union {"FailSave"} => owner.next \in Members
    BY DEF BaseInv, OwnerPlace, AtJobPcs
  <2>2. RunPcs \union {"FailSave"} =
            HoldPcs \union {"LoadJob", "AfterRun", "Reload", "CancelJob", "FailSave"}
    BY DEF RunPcs, HoldPcs, ExecPcs
  <2>3. RunIsHeld'
    BY <1>1, <1>2, <2>1, <2>2 DEF RunIsHeld
  <2>4. StagesClean' /\ StagesInOrder'
    BY <1>1, <1>2, <2>1 DEF StagesClean, StagesInOrder, RunPcs
  <2> QED BY <2>3, <2>4
<1> QED BY <1>3, <1>4, <1>5, <1>6, <1>7

\* It cancels a Pending Job or asks a running one to cancel itself.
LEMMA ControllerAsks ==
    ASSUME OrderlyInv, BaseInv', NEW c \in Controllers, NEW k \in Members, MayAsk(jobs[k]),
           Cancelling, SaveJob(c, k, CancelOrRequest(jobs[k]), {}),
           UNCHANGED <<owner, token>>, ctl' = [ctl EXCEPT ![c] = NoCommand]
    PROVE  OrderlyInv'
<1> USE DEF OrderlyInv
<1> DEFINE j == CancelOrRequest(jobs[k])
<1>1. jobs[k] \in Job /\ TypeOK /\ j \in Job
  <2>1. jobs[k] \in Job /\ TypeOK
    BY TypeParts DEF BaseInv
  <2> QED BY <2>1, CancelOrRequestOK
<1>2. /\ ~IsTerminal(jobs[k]) /\ Asked(j)
      /\ \/ jobs[k].status = "Pending" /\ j.status = "Cancelled" /\ IsTerminal(j)
         \/ /\ jobs[k].status = "Running" /\ ~jobs[k].cancel_requested
            /\ j.status = "Running" /\ j.stage = jobs[k].stage /\ ~IsTerminal(j)
  <2>1. ~IsTerminal(jobs[k])
    BY <1>1, JobEnds DEF MayAsk
  <2>2. CASE jobs[k].status = "Pending"
    BY <1>1, <2>1, <2>2, JobEnds DEF CancelOrRequest, Asked, IsTerminal, JobTerminal
  <2>3. CASE jobs[k].status = "Running" /\ ~jobs[k].cancel_requested
    BY <1>1, <2>1, <2>3, JobMethods DEF CancelOrRequest, Asked, IsTerminal, JobTerminal
  <2> QED BY <2>1, <2>2, <2>3 DEF MayAsk
<1> HIDE DEF j
<1>3. /\ batch' = batch /\ UNCHANGED <<owner, token>>
      /\ jobs'[k] = j /\ \A i \in Members : i # k => jobs'[i] = jobs[i]
      /\ fresh'[Owner] = fresh[Owner] \ {k}
      /\ \A a \in Controllers : a # c => fresh'[a] = fresh[a] \ {k}
  <2>1. {} \in SUBSET Rows /\ SaveJob(c, k, j, {})
    BY DEF j
  <2> QED BY <1>1, <2>1, SavedJob, Parameters
<1>4. BatchIsKept' /\ FoundIsCurrent'
  <2>1. /\ NotCancelled(batch') /\ NotCancelled(owner'.copy) /\ Holding(c, NoCommand)
        /\ owner'.pc \notin {"CancelLoad", "CancelSave", "CancelRecord"}
    BY <1>3, NoOwnerOK DEF BatchIsKept, Holding
  <2>2. \A a \in Controllers, i \in Members : a # c /\ i \in fresh'[a] => jobs'[i] = jobs[i]
    BY <1>3
  <2> QED BY <1>3, <2>1, <2>2, CommandsStay
<1>5. \A i \in Members : /\ IsTerminal(jobs[i]) => jobs'[i] = jobs[i]
                         /\ jobs'[i].status = "Running" => jobs[i].status = "Running"
                         /\ jobs'[i].status = "Failed" => jobs[i].status = "Failed"
  BY <1>2, <1>3
<1>6. RecordsTruthful'
  <2>1. ASSUME NEW b \in Batch, Truthful(b, jobs) PROVE Truthful(b, jobs')
    BY <1>1, <1>5, <2>1, RecordIsOver DEF Truthful
  <2>2. batch \in Batch /\ owner.copy \in Batch
    BY <1>1, TypeParts DEF OwnerState
  <2> QED BY <1>3, <2>1, <2>2 DEF RecordsTruthful
<1>7. OwnerDecides'
  <2>1. owner.pc = "RetryTx" /\ owner.target \in fresh'[Owner] =>
            jobs'[owner.target] = jobs[owner.target]
    BY <1>3 DEF BaseInv, OwnerPlace
  <2> QED BY <1>3, <1>5, <2>1 DEF OwnerDecides
<1>8. OneIsRunning' /\ RunIsNotPaused' /\ PausedMeansQuiet'
  BY <1>3, <1>5 DEF OneIsRunning, RunIsNotPaused, PausedMeansQuiet
<1>9. PassedIsOver'
  <2>1. owner.pc \in {"Record", "AfterRun", "Outcome"} => owner.next \in Members
    BY DEF BaseInv, OwnerPlace, AtJobPcs, RunPcs
  <2> QED BY <1>3, <1>5, <2>1 DEF PassedIsOver
<1>10. RunIsHeld'
  <2>1. CASE owner.next = k
    <3>1. k \notin fresh'[Owner]
      BY <1>3
    <3>2. owner.pc = "CancelJob" => IsTerminal(j)
      BY <1>2, <2>1 DEF RunIsHeld, Asked
    <3>3. owner.pc # "SaveFailure"
      BY DEF RunIsHeld
    <3> QED BY <1>2, <1>3, <2>1, <3>1, <3>2, <3>3 DEF RunIsHeld
  <2>2. CASE owner.next # k
    <3>1. owner.pc \in HoldPcs \union {"Enter", "Touch", "StartJob", "EnterError", "Error",
                                       "Reload", "CancelJob", "FailSave"} =>
              owner.next \in Members
      BY DEF BaseInv, OwnerPlace, AtJobPcs, RunPcs, HoldPcs, ExecPcs
    <3>2. /\ owner.next \in Members => jobs'[owner.next] = jobs[owner.next]
          /\ owner.next \in fresh'[Owner] <=> owner.next \in fresh[Owner]
      BY <1>3, <2>2
    <3> QED BY <1>3, <3>1, <3>2 DEF RunIsHeld
  <2> QED BY <2>1, <2>2
<1>11. StagesClean'
  BY <1>2, <1>3 DEF StagesClean
<1>12. StagesInOrder'
  <2>1. owner.pc \in {"Gate", "Work", "Skip", "Commit", "SaveDone"} => owner.next \in Members
    BY DEF BaseInv, OwnerPlace, AtJobPcs, RunPcs
  <2>2. owner.next \in Members /\ owner.next \in fresh'[Owner] =>
            owner.next \in fresh[Owner] /\ jobs'[owner.next] = jobs[owner.next]
    BY <1>3
  <2> QED BY <1>3, <2>1, <2>2 DEF StagesInOrder
<1> QED BY <1>4, <1>6, <1>7, <1>8, <1>9, <1>10, <1>11, <1>12


LEMMA CommandEnds ==
    ASSUME OrderlyInv, BaseInv', NEW c \in Controllers, CtlDone(c), UNCHANGED <<owner, token>>
    PROVE  OrderlyInv'
<1>1. Holding(c, NoCommand)
  BY NoOwnerOK DEF Holding
<1>2. {} \in SUBSET Rows
  OBVIOUS
<1> QED BY <1>1, <1>2, ControllerReads DEF CtlDone

LEMMA BeginKeeps ==
    ASSUME Orderly, OrderlyInv, NEW c \in Controllers, CtlBegin(c)
    PROVE  OrderlyInv'
<1>1. BaseInv'
  BY BeginBase DEF OrderlyInv
<1>2. /\ ctl[c] \in Command /\ c \in Actors /\ {TheBatch} \in SUBSET Rows
      /\ fresh[c] \in SUBSET Rows /\ TypeOK
  BY Parameters, TypeParts DEF OrderlyInv, BaseInv
<1>3. CASE BeginCancelJob(c)
  <2>1. PICK k \in Members : ctl' = [ctl EXCEPT ![c].pc = "LoadJob", ![c].next = k]
                             /\ Signal(c, {k})
    BY <1>3 DEF BeginCancelJob
  <2> DEFINE cmd == [ctl[c] EXCEPT !.pc = "LoadJob", !.next = k]
  <2>2. ctl' = [ctl EXCEPT ![c] = cmd] /\ cmd.pc = "LoadJob"
    BY <1>2, <2>1 DEF Command
  <2>3. Cancelling /\ Local = {}
    BY <1>3 DEF BeginCancelJob, Cancelling, Orderly
  <2>4. UNCHANGED token
    BY <1>2, <2>1, <2>3, TypeParts DEF Signal
  <2>5. LoadOnly(c, fresh[c])
    BY <1>2, <1>3, TypeParts DEF BeginCancelJob, LoadOnly, Keep
  <2>6. Holding(c, cmd)
    BY <2>2, <2>3 DEF Holding
  <2> HIDE DEF cmd
  <2> QED BY <1>1, <1>2, <1>3, <2>2, <2>4, <2>5, <2>6, ControllerReads DEF BeginCancelJob
<1>4. ASSUME NEW pc \in {"SavePause", "SaveResume"},
             ctl' = [ctl EXCEPT ![c].pc = pc, ![c].copy = batch],
             LoadOnly(c, {TheBatch}), UNCHANGED <<owner, token>>
      PROVE  OrderlyInv'
  <2> DEFINE cmd == [ctl[c] EXCEPT !.pc = pc, !.copy = batch]
  <2>1. ctl' = [ctl EXCEPT ![c] = cmd] /\ cmd.pc = pc /\ cmd.copy = batch
    BY <1>2, <1>4 DEF Command
  <2>2. Holding(c, cmd)
    BY <1>4, <2>1 DEF Holding, LoadOnly
  <2> HIDE DEF cmd
  <2> QED BY <1>1, <1>2, <1>4, <2>1, <2>2, ControllerReads
<1> QED BY <1>3, <1>4 DEF CtlBegin, BeginPause, BeginResume, BeginCancelBatch, Orderly

LEMMA StepKeeps ==
    ASSUME Orderly, OrderlyInv, NEW c \in Controllers, CtlStep(c)
    PROVE  OrderlyInv'
<1> DEFINE k == ctl[c].next
<1>1. BaseInv'
  BY StepBase DEF OrderlyInv
<1>2. /\ ctl[c] \in Command /\ c \in Actors /\ fresh[c] \in SUBSET Rows /\ TypeOK
      /\ batch \in Batch
  BY Parameters, TypeParts DEF OrderlyInv, BaseInv
<1>3. /\ ctl[c].pc \in {"Idle", "LoadJob", "SaveJob", "SavePause", "SaveResume",
                        "BecomeOwner"}
      /\ ctl[c].pc \in {"LoadJob", "SaveJob"} => Cancelling /\ k \in Members
      /\ ctl[c].pc \in {"SavePause", "SaveResume"} /\ TheBatch \in fresh[c] =>
             ctl[c].copy = batch
      /\ ctl[c].pc = "SaveJob" /\ k \in fresh[c] => MayAsk(jobs[k])
  BY DEF OrderlyInv, BaseInv, CtlPlace, BatchIsKept, FoundIsCurrent
<1>4. ASSUME CtlDone(c), UNCHANGED <<owner, token>> PROVE OrderlyInv'
  BY <1>1, <1>4, CommandEnds
<1> HIDE DEF k
<1>5. CASE CtlLoadJob(c)
  <2>1. CASE MayAsk(jobs[k]) /\ LoadOnly(c, {k}) /\ CtlGoes(c, "SaveJob")
    <3> DEFINE cmd == [ctl[c] EXCEPT !.pc = "SaveJob"]
    <3>1. ctl' = [ctl EXCEPT ![c] = cmd] /\ cmd.pc = "SaveJob" /\ cmd.next = k
      BY <1>2, <2>1 DEF CtlGoes, Command, k
    <3>2. Holding(c, cmd)
      BY <1>3, <1>5, <2>1, <3>1 DEF CtlLoadJob, Holding, LoadOnly
    <3>3. {k} \in SUBSET Rows
      BY <1>3, <1>5, Parameters DEF CtlLoadJob
    <3> HIDE DEF cmd
    <3> QED BY <1>1, <1>5, <2>1, <3>1, <3>2, <3>3, ControllerReads DEF CtlLoadJob
  <2> QED BY <1>4, <1>5, <2>1 DEF CtlLoadJob, MayAsk, k
<1>6. CASE CtlSaveJob(c)
  <2>1. CASE /\ k \in fresh[c] /\ SaveJob(c, k, CancelOrRequest(jobs[k]), {})
             /\ ctl' = [ctl EXCEPT ![c] = NoCommand]
    BY <1>1, <1>3, <1>6, <2>1, ControllerAsks DEF CtlSaveJob
  <2> QED BY <1>4, <1>6, <2>1 DEF CtlSaveJob, Holds, k
<1>7. CASE CtlSavePause(c)
  <2> DEFINE b == RequestPause(batch)
  <2>1. CASE /\ TheBatch \in fresh[c] /\ SaveBatch(c, RequestPause(ctl[c].copy), {})
             /\ ctl' = [ctl EXCEPT ![c] = NoCommand]
    <3>1. SaveBatch(c, b, {})
      BY <1>3, <1>7, <2>1 DEF CtlSavePause
    <3>2. /\ b \in Batch /\ NotCancelled(b) /\ b.status = batch.status
          /\ b.terminal_jobs = batch.terminal_jobs
      BY <1>2, BatchMethods
         DEF RequestPause, Batch, NotCancelled, OrderlyInv, BatchIsKept
    <3>3. BatchEnded(b) <=> BatchEnded(batch)
      BY <3>2 DEF BatchEnded
    <3> HIDE DEF b
    <3> QED BY <1>1, <1>7, <2>1, <3>1, <3>2, <3>3, NoOwnerOK, ControllerWritesBatch
            DEF CtlSavePause
  <2> QED BY <1>4, <1>7, <2>1 DEF CtlSavePause, Holds
<1>8. CASE CtlSaveResume(c)
  <2> DEFINE b == ResumeBatch(batch)
  <2>1. ASSUME TheBatch \in fresh[c], SaveBatch(c, ResumeBatch(ctl[c].copy), {}),
               NEW pc \in {"Idle", "BecomeOwner"},
               ctl' = [ctl EXCEPT ![c] = [NoCommand EXCEPT !.pc = pc]]
        PROVE  OrderlyInv'
    <3> DEFINE cmd == [NoCommand EXCEPT !.pc = pc]
    <3>1. SaveBatch(c, b, {})
      BY <1>3, <1>8, <2>1 DEF CtlSaveResume
    <3>2. b \in Batch
      BY <1>2, BatchMethods
    <3>3. /\ b.terminal_jobs = batch.terminal_jobs
          /\ b.cancel_requested = batch.cancel_requested
          /\ b.status = IF batch.status = "Paused" THEN "Running" ELSE batch.status
      BY <1>2 DEF ResumeBatch, Batch, BatchEnded, BatchTerminal
    <3>4. cmd.pc = pc /\ ctl' = [ctl EXCEPT ![c] = cmd]
      BY <2>1 DEF NoCommand
    <3> HIDE DEF b, cmd
    <3>5. NotCancelled(b) /\ b.status # "Paused" /\ (BatchEnded(b) <=> BatchEnded(batch))
      BY <3>3 DEF NotCancelled, OrderlyInv, BatchIsKept, BatchEnded, BatchTerminal
    <3> QED BY <1>1, <1>8, <2>1, <3>1, <3>2, <3>3, <3>4, <3>5, ControllerWritesBatch
            DEF CtlSaveResume
  <2> QED BY <1>4, <1>8, <2>1 DEF CtlSaveResume, Holds
<1>9. CASE CtlBecomeOwner(c)
  <2>1. CASE TakeLock("Resume", 0)
    <3>1. owner'.pc = "Verify" /\ owner'.copy = NewBatch
      BY <2>1, NoOwnerOK DEF TakeLock, NoOwner
    <3>2. /\ UNCHANGED <<jobs, batch, token>> /\ ctl' = [ctl EXCEPT ![c] = NoCommand]
          /\ \A a \in Controllers : a # c => fresh'[a] = fresh[a]
      <4>1. LoadOnly(c, {}) /\ {} \in SUBSET Rows
        BY <1>9 DEF CtlBecomeOwner, CtlDone
      <4> QED BY <1>2, <1>9, <4>1, Loaded, Parameters DEF CtlBecomeOwner, CtlDone
    <3>3. BatchIsKept' /\ FoundIsCurrent'
      <4>1. /\ NotCancelled(batch') /\ NotCancelled(owner'.copy) /\ Holding(c, NoCommand)
            /\ owner'.pc \notin {"CancelLoad", "CancelSave", "CancelRecord"}
        BY <3>1, <3>2, NoOwnerOK, NewBatchOK DEF OrderlyInv, BatchIsKept, Holding
      <4> QED BY <3>2, <4>1, CommandsStay
    <3>4. RecordsTruthful' /\ OneIsRunning' /\ PausedMeansQuiet' /\ StagesClean'
      BY <3>1, <3>2, NewBatchTruthful
         DEF OrderlyInv, RecordsTruthful, OneIsRunning, PausedMeansQuiet, StagesClean
    <3> QED BY <1>1, <3>1, <3>3, <3>4, Outside DEF OrderlyInv, OutsidePcs
  <2>2. CASE UNCHANGED owner
    BY <1>4, <1>9, <2>2 DEF CtlBecomeOwner
  <2> QED BY <1>9, <2>1, <2>2 DEF CtlBecomeOwner
<1> QED BY <1>3, <1>5, <1>6, <1>7, <1>8, <1>9
        DEF CtlStep, CtlLoadBatch, CtlRequestBatch, CtlOpenBatch, CtlEachJob, CtlEachSave,
            CtlFinishBatch

LEMMA RetryCommandKeeps == ASSUME OrderlyInv, RetryCommand PROVE OrderlyInv'
<1>1. /\ BaseInv' /\ UNCHANGED <<jobs, batch, fresh, ctl, token>>
      /\ owner'.pc = "Verify" /\ owner'.copy = NewBatch
  BY RetryCommandBase DEF OrderlyInv, RetryCommand, TakeLock, NoOwner
<1>2. OneIsRunning'
  BY <1>1 DEF OneIsRunning
<1> QED BY <1>1, <1>2, OutsideReads DEF OutsidePcs

LEMMA CrashOwnerKeeps == ASSUME OrderlyInv, CrashOwner PROVE OrderlyInv'
<1>1. /\ BaseInv' /\ UNCHANGED <<jobs, batch>> /\ token' = FALSE
      /\ owner'.pc = "Idle" /\ owner'.copy = NewBatch
  BY CrashOwnerBase, NoOwnerOK DEF OrderlyInv, CrashOwner
<1>2. \A c \in Controllers : /\ ctl'[c] \in {ctl[c], NoCommand}
                             /\ fresh'[c] \subseteq fresh[c]
  BY Parameters DEF CrashOwner
<1>3. BatchIsKept'
  BY <1>1, <1>2, NoOwnerOK, NewBatchOK DEF OrderlyInv, BatchIsKept
<1>4. FoundIsCurrent'
  BY <1>1, <1>2, NoOwnerOK DEF OrderlyInv, FoundIsCurrent
<1>5. RecordsTruthful' /\ OneIsRunning' /\ PausedMeansQuiet' /\ StagesClean'
  BY <1>1, NewBatchTruthful
     DEF OrderlyInv, RecordsTruthful, OneIsRunning, PausedMeansQuiet, StagesClean
<1> QED BY <1>1, <1>3, <1>4, <1>5, Outside DEF OrderlyInv, OutsidePcs

LEMMA OrderlyStep == Orderly /\ OrderlyInv /\ [Next]_vars => OrderlyInv'
<1> SUFFICES ASSUME Orderly, OrderlyInv, [Next]_vars PROVE OrderlyInv'
  OBVIOUS
<1>1. CASE OwnerStep
  BY <1>1, OwnerAlone, RecoveryKeeps, EntryKeeps, RunLoopKeeps, TranscribeKeeps DEF OwnerStep
<1>2. CASE RetryCommand \/ CrashOwner
  BY <1>2, RetryCommandKeeps, CrashOwnerKeeps
<1>3. ASSUME NEW c \in Controllers, CtlBegin(c) \/ CtlStep(c) \/ CrashController(c)
      PROVE  OrderlyInv'
  <2>1. CASE CrashController(c)
    <3>1. BaseInv'
      BY <1>3, BaseStep DEF OrderlyInv, Next
    <3> QED BY <2>1, <3>1, CommandEnds DEF CrashController
  <2> QED BY <1>3, <2>1, BeginKeeps, StepKeeps
<1>4. CASE UNCHANGED vars
  <2>1. BaseInv' /\ UNCHANGED <<jobs, batch, fresh, owner, ctl, token>>
    BY <1>4, BaseStep DEF OrderlyInv, vars
  <2>2. BatchIsKept' /\ FoundIsCurrent' /\ RecordsTruthful' /\ OwnerDecides'
    BY <2>1 DEF OrderlyInv, BatchIsKept, FoundIsCurrent, RecordsTruthful, OwnerDecides
  <2>3. OneIsRunning' /\ RunIsNotPaused' /\ PausedMeansQuiet' /\ PassedIsOver'
    BY <2>1 DEF OrderlyInv, OneIsRunning, RunIsNotPaused, PausedMeansQuiet, PassedIsOver
  <2>4. RunIsHeld' /\ StagesClean' /\ StagesInOrder'
    BY <2>1 DEF OrderlyInv, RunIsHeld, StagesClean, StagesInOrder
  <2> QED BY <2>1, <2>2, <2>3, <2>4 DEF OrderlyInv
<1> QED BY <1>1, <1>2, <1>3, <1>4 DEF Next

LEMMA OrderlyInit == Init => OrderlyInv
<1> SUFFICES ASSUME Init PROVE OrderlyInv
  OBVIOUS
<1>1. /\ BaseInv /\ owner.pc = "Start" /\ owner.copy = NewBatch /\ batch = NewBatch /\ ~token
      /\ \A c \in Controllers : ctl[c] = NoCommand
  BY BaseInit, NoOwnerOK DEF Init
<1>2. \A k \in Members : jobs[k] = NewJob
  BY DEF Init
<1>3. BatchIsKept /\ FoundIsCurrent /\ RecordsTruthful
  BY <1>1, NoOwnerOK, NewBatchOK, NewBatchTruthful
     DEF BatchIsKept, FoundIsCurrent, RecordsTruthful
<1>4. OwnerDecides /\ PassedIsOver /\ RunIsHeld /\ StagesInOrder /\ RunIsNotPaused
  BY <1>1 DEF OwnerDecides, PassedIsOver, RunIsHeld, StagesInOrder, RunIsNotPaused, BatchPcs,
     LoopPcs, HoldPcs, ExecPcs, AtJobPcs, RunPcs
<1>5. OneIsRunning /\ PausedMeansQuiet /\ StagesClean
  BY <1>2 DEF OneIsRunning, PausedMeansQuiet, StagesClean, NewJob
<1> QED BY <1>1, <1>3, <1>4, <1>5 DEF OrderlyInv

LEMMA OrderlyAlways == Orderly => (Spec => []OrderlyInv)
<1> SUFFICES ASSUME Orderly PROVE Spec => []OrderlyInv
  OBVIOUS
<1>1. OrderlyInv /\ [Next]_vars => OrderlyInv'
  BY OrderlyStep
<1> QED BY <1>1, OrderlyInit, PTL DEF Spec


-----------------------------------------------------------------------------
(* What Orderly processes promise. *)

\* What the Batch has on record is how its Jobs ended (the owner records what it
\* has saved or loads again; record_job_terminal, prepare_retry).
THEOREM RecordsAreTrue == Orderly => (Spec => []RecordsAgree)
<1> SUFFICES ASSUME Orderly PROVE Spec => []RecordsAgree
  OBVIOUS
<1>1. OrderlyInv => RecordsAgree
  BY DEF OrderlyInv, RecordsTruthful, Truthful, RecordsAgree
<1> QED BY <1>1, OrderlyAlways, PTL

\* Of a Batch that is over every Job is: Batch::finish demands a record of each,
\* and the records are true.
THEOREM EndedBatchIsOver == Orderly => (Spec => []EndedBatchHasEndedJobs)
<1> SUFFICES ASSUME Orderly PROVE Spec => []EndedBatchHasEndedJobs
  OBVIOUS
<1>1. OrderlyInv => EndedBatchHasEndedJobs
  <2> SUFFICES ASSUME OrderlyInv, BatchEnded(batch), NEW k \in Members
               PROVE  IsTerminal(jobs[k])
    BY DEF EndedBatchHasEndedJobs
  <2>1. TypeOK /\ batch \in Batch /\ Truthful(batch, jobs) /\ HasRecord(batch, k)
    BY TypeParts DEF OrderlyInv, BaseInv, RecordsTruthful, Truthful, AllRecorded
  <2> QED BY <2>1, RecordIsOver
<1> QED BY <1>1, OrderlyAlways, PTL

\* No Job of a Paused Batch runs: the loop pauses between two Jobs, and what a
\* dead owner left running belongs to a Batch that is not Paused.
THEOREM PausedBatchIsQuiet == Orderly => (Spec => []PausedMeansQuiet)
<1> SUFFICES ASSUME Orderly PROVE Spec => []PausedMeansQuiet
  OBVIOUS
<1>1. OrderlyInv => PausedMeansQuiet
  BY DEF OrderlyInv
<1> QED BY <1>1, OrderlyAlways, PTL

\* A Job starts when all before it have ended: only the owner starts one, at its
\* place in the loop, and what the loop has passed is over.
THEOREM JobsStartInOrder == Orderly => (Spec => FifoOrder)
<1> SUFFICES ASSUME Orderly PROVE Spec => FifoOrder
  OBVIOUS
<1> DEFINE InOrder == \A k \in Members :
                         jobs[k].status = "Pending" /\ jobs'[k].status = "Running" =>
                             \A i \in 1 .. k - 1 : IsTerminal(jobs[i])
<1>1. OrderlyInv /\ [Next]_vars => [InOrder]_vars
  <2> SUFFICES ASSUME OrderlyInv, [Next]_vars, NEW k \in Members,
                      jobs[k].status = "Pending", jobs'[k].status = "Running"
               PROVE  \A i \in 1 .. k - 1 : IsTerminal(jobs[i])
    OBVIOUS
  <2>1. BaseInv /\ jobs[k] \in Job
    BY TypeParts DEF OrderlyInv, BaseInv
  <2>2. JobStep(k, jobs'[k])
    BY <2>1, JobSteps DEF JobIsSaved
  <2>3. owner.pc = "StartJob" /\ k = owner.next
    BY <2>1, <2>2, SavedStatus DEF JobTerminal
  <2>4. \A i \in Members : i < k => IsTerminal(jobs[i])
    BY <2>3 DEF OrderlyInv, PassedIsOver, LoopPcs, AtJobPcs, RunPcs
  <2>5. \A i \in 1 .. k - 1 : i \in Members /\ i < k
    BY BatchAssumption DEF Members
  <2> QED BY <2>4, <2>5
<1> QED BY <1>1, OrderlyAlways, PTL DEF Spec, FifoOrder


-----------------------------------------------------------------------------
(* BatchPromise. *)

JobIsReopened == /\ RetryTransaction
                 /\ Holds(Owner, owner.target) /\ Holds(Owner, TheBatch)
BatchIsConcluded ==
    /\ UNCHANGED jobs /\ ~BatchEnded(batch) /\ BatchEnded(batch')
    /\ \A k \in Members : IsTerminal(jobs[k])
    /\ batch'.status = "Done" => \A k \in Members : jobs[k].status # "Failed"
StaysOpen == UNCHANGED jobs /\ ~BatchEnded(batch) /\ ~BatchEnded(batch')

\* Who saves the Batch, and as what.
LEMMA BatchSteps ==
    ASSUME Orderly, OrderlyInv, [Next]_vars
    PROVE  UNCHANGED batch \/ StaysOpen \/ BatchIsConcluded \/ JobIsReopened
<1> DEFINE Moves == UNCHANGED batch \/ StaysOpen \/ BatchIsConcluded \/ JobIsReopened
<1> SUFFICES Moves
  OBVIOUS
<1>1. ASSUME NEW a, NEW b, NEW keep, SaveBatch(a, b, keep)
      PROVE  batch' = b /\ jobs' = jobs
  BY <1>1 DEF SaveBatch
<1>2. UNCHANGED batch => Moves
  OBVIOUS
<1>3. /\ TypeOK /\ batch \in Batch /\ owner.copy \in Batch
      /\ Truthful(owner.copy, jobs) /\ OwnerDecides /\ BatchIsKept /\ FoundIsCurrent
  BY TypeParts DEF OrderlyInv, BaseInv, RecordsTruthful, OwnerState
<1>4. ASSUME AllRecorded(owner.copy) PROVE \A k \in Members : IsTerminal(jobs[k])
  BY <1>3, <1>4, RecordIsOver DEF AllRecorded
<1>5. CASE RecoverTheBatch
  <2>1. UNCHANGED batch \/ (batch' = RecoverBatch(batch) /\ jobs' = jobs)
    BY <1>1, <1>5 DEF RecoverTheBatch, OwnerLeaves, LoadOnly
  <2> QED BY <1>3, <2>1 DEF RecoverBatch, Batch, StaysOpen, BatchEnded, BatchTerminal
<1>6. CASE RetryTransaction
  BY <1>6 DEF RetryTransaction, OwnerLeaves, LoadOnly, JobIsReopened
<1>7. CASE SaveStart
  <2>1. UNCHANGED batch \/ (batch' = StartBatch(owner.copy) /\ jobs' = jobs)
    BY <1>1, <1>7 DEF SaveStart, OwnerLeaves, LoadOnly
  <2>2. ~BatchEnded(batch) /\ ~BatchEnded(StartBatch(owner.copy))
    BY <1>3, <1>7 DEF SaveStart, OwnerDecides, BatchPcs, StartBatch, Batch, BatchEnded,
                      BatchTerminal
  <2> QED BY <2>1, <2>2 DEF StaysOpen
<1>8. CASE FailFinish
  <2> DEFINE b == FinishBatch(owner.copy, "Failed")
  <2>1. \/ UNCHANGED batch
        \/ CanFinishBatch(owner.copy) /\ batch' = b /\ jobs' = jobs
        \/ batch' = owner.copy /\ jobs' = jobs
    BY <1>1, <1>8 DEF FailFinish, OwnerLeaves, LoadOnly
  <2>2. ~BatchEnded(batch) /\ ~BatchEnded(owner.copy)
    BY <1>3, <1>8 DEF FailFinish, OwnerDecides, BatchPcs
  <2>3. b.status = "Failed" /\ BatchEnded(b)
    BY <1>3 DEF FinishBatch, Batch, BatchEnded, BatchTerminal
  <2>4. CanFinishBatch(owner.copy) => AllRecorded(owner.copy)
    BY DEF CanFinishBatch
  <2> HIDE DEF b
  <2> QED BY <1>4, <2>1, <2>2, <2>3, <2>4 DEF StaysOpen, BatchIsConcluded
<1>9. CASE SavePaused
  <2>1. UNCHANGED batch \/ (batch' = MarkPaused(owner.copy) /\ jobs' = jobs)
    BY <1>1, <1>9 DEF SavePaused, OwnerLeaves, LoadOnly
  <2>2. ~BatchEnded(batch) /\ ~BatchEnded(MarkPaused(owner.copy))
    BY <1>3, <1>9 DEF SavePaused, OwnerDecides, BatchPcs, AtJobPcs, MarkPaused, Batch,
                      BatchEnded, BatchTerminal
  <2> QED BY <2>1, <2>2 DEF StaysOpen
<1>10. CASE SaveRecord
  <2>1. UNCHANGED batch \/ (batch' = owner.copy /\ jobs' = jobs)
    BY <1>1, <1>10 DEF SaveRecord, OwnerLeaves, LoadOnly
  <2>2. ~BatchEnded(batch) /\ ~BatchEnded(owner.copy)
    BY <1>3, <1>10 DEF SaveRecord, OwnerDecides, BatchPcs, AtJobPcs
  <2> QED BY <2>1, <2>2 DEF StaysOpen
<1>11. ~CancelSaveBatch /\ ~CancelSave /\ ~CancelLoad
  BY <1>3 DEF CancelSaveBatch, CancelSave, CancelLoad, BatchIsKept
<1>12. CASE SaveFinish
  <2>1. UNCHANGED batch \/ (batch' = owner.copy /\ jobs' = jobs)
    BY <1>1, <1>12 DEF SaveFinish, OwnerLeaves, LoadOnly
  <2>2. ~BatchEnded(batch) /\ BatchEnded(owner.copy)
    BY <1>3, <1>12 DEF SaveFinish, OwnerDecides, BatchPcs
  <2>3. owner.copy.status = "Done" => \A k \in Members : jobs[k].status # "Failed"
    BY <1>3, <1>12 DEF SaveFinish, OwnerDecides
  <2>4. AllRecorded(owner.copy)
    BY <1>3, <2>2 DEF Truthful
  <2> QED BY <1>4, <2>1, <2>2, <2>3, <2>4 DEF BatchIsConcluded
<1>13. ASSUME NEW c \in Controllers, CtlSavePause(c) PROVE Moves
  <2>1. UNCHANGED batch \/ (batch' = RequestPause(batch) /\ jobs' = jobs)
    BY <1>1, <1>3, <1>13 DEF CtlSavePause, Holds, FoundIsCurrent, CtlDone, LoadOnly
  <2>2. \/ RequestPause(batch) = batch
        \/ ~BatchEnded(batch) /\ ~BatchEnded(RequestPause(batch))
    BY <1>3 DEF RequestPause, Batch, BatchEnded
  <2> QED BY <2>1, <2>2 DEF StaysOpen
<1>14. ASSUME NEW c \in Controllers, CtlSaveResume(c) PROVE Moves
  <2>1. UNCHANGED batch \/ (batch' = ResumeBatch(batch) /\ jobs' = jobs)
    BY <1>1, <1>3, <1>14 DEF CtlSaveResume, Holds, FoundIsCurrent, CtlDone, LoadOnly
  <2>2. \/ ResumeBatch(batch) = batch
        \/ ~BatchEnded(batch) /\ ~BatchEnded(ResumeBatch(batch))
    BY <1>3 DEF ResumeBatch, Batch, BatchEnded, BatchTerminal
  <2> QED BY <2>1, <2>2 DEF StaysOpen
<1>15. \A c \in Controllers : ~(CtlRequestBatch(c) \/ CtlOpenBatch(c) \/ CtlFinishBatch(c))
  BY <1>3 DEF CtlRequestBatch, CtlOpenBatch, CtlFinishBatch, BatchIsKept
<1> HIDE DEF Moves
<1>16. CASE OwnerStep
  <2>1. CASE Recovery
    BY <1>2, <1>5, <2>1 DEF Recovery, VerifyArtifacts, ListJobs, RecoverNextJob, ListBatches,
                            SaveJob, LoadOnly, OwnerLeaves
  <2>2. CASE Entry
    BY <1>2, <1>6, <1>7, <1>8, <2>2
       DEF Entry, PrepareRetry, ReadForResume, StartRun, OpenSession, FailLoad, FailSave,
           SaveJob, LoadOnly, OwnerLeaves
  <2>3. CASE RunLoop
    BY <1>2, <1>9, <1>10, <1>11, <1>12, <2>3
       DEF RunLoop, LoopTop, WakeUp, CheckJob, AfterRun, ReadOutcome, CancelRecord, LoopEnd,
           Decide, RecordInMemory, LoadOnly, OwnerLeaves
  <2>4. CASE Transcribe
    BY <1>2, <2>4
       DEF Transcribe, LoadJob, EnterJob, TouchJob, StartJob, EnterError, Gate, SourceChanged,
           ReuseStage, DoStage, BlockedStage, CommitSkip, CommitWork, FinishJob, HandleError,
           SaveFailure, ReloadJob, CancelHere, SaveJob, LoadOnly
  <2> QED BY <1>16, <2>1, <2>2, <2>3, <2>4 DEF OwnerStep
<1>17. CASE RetryCommand \/ CrashOwner \/ UNCHANGED vars
  BY <1>2, <1>17 DEF RetryCommand, CrashOwner, vars
<1>18. ASSUME NEW c \in Controllers, CtlBegin(c) \/ CtlStep(c) \/ CrashController(c)
       PROVE  Moves
  BY <1>2, <1>13, <1>14, <1>15, <1>18
     DEF CtlBegin, BeginCancelJob, BeginCancelBatch, BeginPause, BeginResume, CtlStep,
         CtlLoadJob, CtlSaveJob, CtlLoadBatch, CtlEachJob, CtlEachSave, CtlBecomeOwner,
         CrashController, CtlDone, SaveJob, LoadOnly
<1> QED BY <1>16, <1>17, <1>18 DEF Next

\* A Job that is over stays as it ended until it is retried.
LEMMA EndIsKept ==
    ASSUME Orderly, OrderlyInv, NEW k \in Members, JobStep(k, jobs'[k]), ~RetryTransaction,
           IsTerminal(jobs[k])
    PROVE  jobs'[k].status = jobs[k].status
<1> DEFINE j == jobs[k]
<1>1. j \in Job /\ j.status \in JobTerminal /\ j.status \notin {"Pending", "Running"}
  BY TypeParts DEF OrderlyInv, BaseInv, IsTerminal, JobTerminal
<1>2. ~OwnerJobStep(k, jobs'[k])
  BY <1>1 DEF OwnerJobStep, OrderlyInv, RunIsHeld, BatchIsKept, HoldPcs, ExecPcs
<1>3. Fail(j) = j /\ CancelOrRequest(j) = j
  BY <1>1, JobEnds DEF CancelOrRequest, RequestCancel
<1> QED BY <1>1, <1>2, <1>3 DEF JobStep, Orderly


\* The Batch keeps what BatchPromise promises: a Job that is saved over settles,
\* the save that ends the Batch concludes, apply_retry reopens, and every other
\* step, a crash and what recovery does about it included, changes nothing of
\* what is promised.
THEOREM BatchPromiseIsKept == Orderly => (Spec => KeepsPromise)
<1> SUFFICES ASSUME Orderly PROVE Spec => KeepsPromise
  OBVIOUS
<1> DEFINE Shown(j) == IF IsTerminal(j) THEN j.status ELSE "Open"
           Result(b) == IF BatchEnded(b) THEN b.status ELSE "Open"
           outcome == [k \in Members |-> Shown(jobs[k])]
           outcome2 == [k \in Members |-> Shown(jobs'[k])]
<1>1. Init => Promise!Init
  <2> SUFFICES ASSUME Init PROVE Promise!Init
    OBVIOUS
  <2>1. \A k \in Members : Shown(jobs[k]) = "Open"
    BY DEF Init, NewJob, IsTerminal, JobTerminal
  <2> QED BY <2>1, NewBatchOK DEF Init, Promise!Init
<1>2. ASSUME OrderlyInv, [Next]_vars PROVE [Promise!Next]_(Promise!vars)
  <2>1. /\ jobs \in [Members -> Job] /\ jobs' \in [Members -> Job]
        /\ batch \in Batch /\ batch' \in Batch
        /\ BaseInv /\ TypeOK /\ Truthful(batch, jobs)
    <3>1. BaseInv /\ BaseInv'
      BY <1>2, BaseStep DEF OrderlyInv
    <3>2. TypeOK /\ TypeOK'
      BY <3>1 DEF BaseInv
    <3> QED BY <1>2, <3>1, <3>2 DEF TypeOK, OrderlyInv, RecordsTruthful
  <2>2. \A k \in Members : Shown(jobs[k]) # "Open" <=> IsTerminal(jobs[k])
    BY DEF IsTerminal, JobTerminal
  <2>3. CASE JobIsReopened
    <3>0. owner.target \in Members
      BY <2>1, <2>3 DEF JobIsReopened, RetryTransaction, BaseInv, OwnerPlace
    <3> SUFFICES ASSUME NEW k \in Members, k = owner.target
                 PROVE  [Promise!Next]_(Promise!vars)
      BY <3>0
    <3>1. k \in Members /\ CanRetry(jobs[k])
      BY <1>2, <2>3 DEF JobIsReopened, RetryTransaction, Holds, OrderlyInv, OwnerDecides
    <3>2. /\ jobs' = [jobs EXCEPT ![k] = Retry(jobs[k], owner.stage)]
          /\ batch' = ReopenBatch(batch, k) /\ owner.stage \in Stages
      BY <2>1, <2>3 DEF JobIsReopened, RetryTransaction, BaseInv, OwnerPlace
    <3>3. /\ Shown(jobs'[k]) = "Open" /\ \A i \in Members : i # k => jobs'[i] = jobs[i]
      BY <2>1, <3>1, <3>2, Reopening DEF IsTerminal, JobTerminal
    <3>4. Result(batch') = "Open"
      BY <2>1, <3>2 DEF ReopenBatch, Batch, BatchEnded, BatchTerminal
    <3>5. Shown(jobs[k]) \in {"DoneDegraded", "Failed", "Cancelled"}
      BY <3>1 DEF CanRetry, IsTerminal, JobTerminal
    <3>6. outcome2 = [outcome EXCEPT ![k] = "Open"]
      BY <3>1, <3>3
    <3>7. Promise!Reopen(k)
      BY <3>1, <3>4, <3>5, <3>6 DEF Promise!Reopen
    <3> QED BY <3>1, <3>7 DEF Promise!Next
  <2>4. CASE BatchIsConcluded
    <3>1. outcome2 = outcome
      BY <2>4 DEF BatchIsConcluded
    <3>2. /\ Result(batch) = "Open" /\ Result(batch') \in {"Done", "Failed", "Cancelled"}
          /\ Result(batch') = batch'.status
      BY <2>4 DEF BatchIsConcluded, BatchEnded, BatchTerminal
    <3>3. Promise!Conclude
      BY <2>2, <2>4, <3>1, <3>2 DEF BatchIsConcluded, Promise!Conclude
    <3> QED BY <3>3 DEF Promise!Next
  <2>5. CASE StaysOpen
    BY <2>5 DEF StaysOpen, Promise!vars
  <2>6. CASE UNCHANGED batch /\ UNCHANGED jobs
    BY <2>6 DEF Promise!vars
  <2>7. ASSUME UNCHANGED batch, ~RetryTransaction, NEW k \in Members, JobIsSaved(k)
        PROVE  [Promise!Next]_(Promise!vars)
    <3>1. JobStep(k, jobs'[k]) /\ \A i \in Members : i # k => jobs'[i] = jobs[i]
      BY <2>7 DEF JobIsSaved
    <3>2. CASE Shown(jobs'[k]) = Shown(jobs[k])
      <4>1. outcome2 = outcome
        BY <3>1, <3>2
      <4> QED BY <2>7, <4>1 DEF Promise!vars
    <3>3. CASE Shown(jobs'[k]) # Shown(jobs[k])
      <4>1. ~IsTerminal(jobs[k])
        BY <1>2, <2>7, <3>1, <3>3, EndIsKept DEF IsTerminal
      <4>2. IsTerminal(jobs'[k]) /\ Shown(jobs[k]) = "Open"
        BY <3>3, <4>1
      <4>3. ~BatchEnded(batch)
        BY <2>1, <4>1, RecordIsOver DEF Truthful, AllRecorded
      <4>4. Shown(jobs'[k]) \in {"Done", "DoneDegraded", "Failed", "Cancelled"}
        BY <4>2 DEF IsTerminal, JobTerminal
      <4>5. outcome2 = [outcome EXCEPT ![k] = Shown(jobs'[k])]
        BY <3>1
      <4>6. Promise!Settle(k)
        BY <2>7, <4>2, <4>3, <4>4, <4>5 DEF Promise!Settle
      <4> QED BY <4>6 DEF Promise!Next
    <3> QED BY <3>2, <3>3
  <2>8. CASE UNCHANGED batch /\ ~JobIsReopened
    <3>1. CASE RetryTransaction
      BY <2>6, <2>8, <3>1 DEF RetryTransaction, JobIsReopened, OwnerLeaves, LoadOnly
    <3> QED BY <2>1, <1>2, <2>6, <2>7, <2>8, <3>1, JobSteps
  <2> QED BY <1>2, <2>3, <2>4, <2>5, <2>8, BatchSteps
<1> QED BY <1>1, <1>2, OrderlyAlways, PTL DEF Spec, KeepsPromise, Promise!Spec

=============================================================================
