---------------------------- MODULE BatchControl ----------------------------
(***************************************************************************)
(* One Batch, the process that runs it and the commands that control it.   *)
(*                                                                         *)
(* The Processing Owner holds the instance lock, recovers what a dead      *)
(* owner left behind (StartupRecovery), prepares a retry (RetryJob) and    *)
(* runs the Batch (RunBatch, TranscribeJob).  Control commands (CancelJob, *)
(* CancelBatch, pause, resume) need no lock and may run in any process.    *)
(* They meet only in the store: every load and every save is one atomic    *)
(* step, anything may happen in between, and a save names the version it   *)
(* was loaded at and is refused (STALE_RESULT) when the row has moved on.  *)
(*                                                                         *)
(* Versions only tell whether a copy is current: fresh[a] is the set of    *)
(* rows whose current version actor a holds.  The Batch an actor has in    *)
(* memory is its field copy.  A Job in memory needs no field: while it is  *)
(* current it is the row, and nothing an actor does with an outdated Job   *)
(* reaches the store.                                                      *)
(***************************************************************************)
EXTENDS JobAggregate, BatchAggregate

CONSTANTS Controllers,   \* processes that issue control commands
          Local,         \* those in the owner's process (same run registry)
          Commands,      \* the commands they issue in this instance
          Faults,        \* what may go wrong in this instance
          Artifact       \* the one artifact the stages commit

Owner == "owner"

ASSUME ControlAssumption ==
    /\ Owner \notin Controllers
    /\ Local \subseteq Controllers
    /\ Commands \subseteq {"CancelJob", "CancelBatch", "Pause", "Resume", "Retry"}
    /\ Faults \subseteq {"Crash", "Open", "Work", "Commit", "Verify", "Units"}
    /\ Artifacts = {Artifact}

VARIABLES jobs,     \* the Job rows
          batch,    \* the Batch row
          fresh,    \* fresh[a]: the rows actor a holds a current copy of
          owner,    \* the Processing Owner
          ctl,      \* the control command each controller executes
          token     \* the cancellation token of the registered run

vars == <<jobs, batch, fresh, owner, ctl, token>>

Actors == {Owner} \union Controllers
TheBatch == 0                       \* the Batch among the rows, 0..JobCount

\* No owner: the lock is free and no ASR session is open.
NoOwner == [pc |-> "Idle", purpose |-> "Run", target |-> 0, next |-> 0,
            stage |-> 0, running |-> FALSE, todo |-> {}, copy |-> NewBatch]
NoCommand == [pc |-> "Idle", next |-> 0, all |-> TRUE, copy |-> NewBatch]

\* terminal_status(): an unfinished Job is reported as Failed.
\* Slip: a cancelled Job is taken for a failed one.
OutcomeOfDone(s) == IF s \in {"Done", "DoneDegraded"} THEN s ELSE "Failed"
OutcomeOf(s) == IF s \in JobTerminal THEN s ELSE "Failed"

-----------------------------------------------------------------------------
(* The store. *)

\* Slip: the version of the row is not compared.
HoldsAny(a, row) == TRUE
Holds(a, row) == row \in fresh[a]
\* Actor a now holds the copies of rows and no other copy.
Keep(a, rows) == fresh' = [fresh EXCEPT ![a] = rows]
\* a wrote row: its own copy is current again, every other copy is outdated.
Wrote(a, row, keep) ==
    fresh' = [b \in Actors |-> IF b = a THEN keep ELSE fresh[b] \ {row}]

SaveJob(a, k, j, keep) == /\ jobs' = [jobs EXCEPT ![k] = j]
                          /\ Wrote(a, k, keep)
                          /\ UNCHANGED batch
SaveBatch(a, b, keep) == /\ batch' = b
                         /\ Wrote(a, TheBatch, keep)
                         /\ UNCHANGED jobs
LoadOnly(a, rows) == Keep(a, rows) /\ UNCHANGED <<jobs, batch>>

OwnerGoes(pc) == owner' = [owner EXCEPT !.pc = pc]
\* Returning from the use case, with Ok or an error: the session is closed and
\* the lock released.
OwnerLeaves == owner' = NoOwner /\ LoadOnly(Owner, {}) /\ token' = FALSE

-----------------------------------------------------------------------------
(* Startup recovery, under the lock, before anything is run. *)

\* An owner takes the lock to run the Batch, to resume it, or to retry Job k.
TakeLock(purpose, k) ==
    /\ owner.pc = "Idle"
    /\ owner' = [NoOwner EXCEPT !.pc = "Verify", !.purpose = purpose,
                                !.target = k]

RetryCommand ==
    /\ "Retry" \in Commands
    /\ \E k \in Members : TakeLock("Retry", k)
    /\ UNCHANGED <<jobs, batch, fresh, ctl, token>>

\* recover_artifacts: a committed artifact may be found missing.
VerifyArtifacts ==
    /\ owner.pc = "Verify"
    /\ \/ UNCHANGED <<jobs, fresh>>
       \/ /\ "Verify" \in Faults
          /\ \E k \in Members, s \in Stages :
                /\ jobs[k].artifact[s] # NoArtifact
                /\ jobs' = [jobs EXCEPT ![k] = InvalidateStage(@, s)]
                /\ Wrote(Owner, k, {})
    /\ OwnerGoes("ListJobs")
    /\ UNCHANGED <<batch, ctl, token>>

ListJobs ==
    /\ owner.pc = "ListJobs"
    /\ LET found == {k \in Members : jobs[k].status = "Running"}
       IN  /\ owner' = [owner EXCEPT !.pc = "RecoverJobs", !.todo = found]
           /\ LoadOnly(Owner, found)
    /\ UNCHANGED <<ctl, token>>

RecoverNextJob ==
    /\ owner.pc = "RecoverJobs" /\ owner.todo # {}
    /\ LET k == CHOOSE i \in owner.todo : \A j \in owner.todo : i <= j
       IN  IF Holds(Owner, k)
           THEN /\ SaveJob(Owner, k, Recover(jobs[k]), fresh[Owner] \ {k})
                /\ owner' = [owner EXCEPT !.todo = @ \ {k}]
                /\ UNCHANGED token
           ELSE OwnerLeaves
    /\ UNCHANGED ctl

ListBatches ==
    /\ owner.pc = "RecoverJobs" /\ owner.todo = {}
    /\ OwnerGoes(IF batch.status = "Running" THEN "RecoverBatch" ELSE "Recovered")
    /\ LoadOnly(Owner, {TheBatch})
    /\ UNCHANGED <<ctl, token>>

RecoverTheBatch ==
    /\ owner.pc = "RecoverBatch"
    /\ IF Holds(Owner, TheBatch)
       THEN /\ SaveBatch(Owner, RecoverBatch(batch), {})
            /\ OwnerGoes("Recovered")
            /\ UNCHANGED token
       ELSE OwnerLeaves
    /\ UNCHANGED ctl

-----------------------------------------------------------------------------
(* RetryJob, and the way into RunBatch. *)

\* RetryJob loads the Job and the Batch; the stage is the one the caller names
\* or the first that failed.
PrepareRetry ==
    /\ owner.pc = "Recovered" /\ owner.purpose = "Retry"
    /\ IF CanRetry(jobs[owner.target])
       THEN /\ \E s \in Stages :
                  owner' = [owner EXCEPT !.pc = "RetryTx", !.stage = s]
            /\ LoadOnly(Owner, {TheBatch, owner.target})
            /\ UNCHANGED token
       ELSE OwnerLeaves
    /\ UNCHANGED ctl

\* apply_retry: Job and Batch in one transaction.
RetryTransaction ==
    /\ owner.pc = "RetryTx"
    /\ LET k == owner.target
       IN  IF Holds(Owner, k) /\ Holds(Owner, TheBatch)
           THEN /\ jobs' = [jobs EXCEPT ![k] = Retry(@, owner.stage)]
                /\ batch' = ReopenBatch(batch, k)
                /\ fresh' = [a \in Actors |-> IF a = Owner THEN {}
                                              ELSE fresh[a] \ {k, TheBatch}]
                /\ owner' = [owner EXCEPT !.pc = "Start", !.stage = 0,
                                          !.copy = batch']
                /\ UNCHANGED token
           ELSE OwnerLeaves
    /\ UNCHANGED ctl

\* ResumeBatch.execute: a Paused or ended Batch is not run.
ReadForResume ==
    /\ owner.pc = "Recovered" /\ owner.purpose = "Resume"
    /\ IF BatchEnded(batch) \/ batch.status = "Paused"
       THEN OwnerLeaves
       ELSE /\ owner' = [owner EXCEPT !.pc = "Start", !.copy = batch]
            /\ LoadOnly(Owner, {})
            /\ UNCHANGED token
    /\ UNCHANGED ctl

\* The Jobs this run was given: all, or the one that is retried.
Given == IF owner.purpose = "Retry" THEN {owner.target} ELSE Members
\* Slip: the other end of the queue.
LastOf(S) == CHOOSE i \in S : \A j \in S : i >= j
First(S) == CHOOSE i \in S : \A j \in S : i <= j
After(k) == {i \in Given : i > k}
\* Slip: the index does not move.
SameAgain(k) == k
NextAfter(k) == IF After(k) = {} THEN JobCount + 1 ELSE First(After(k))

\* RunBatch.execute up to its first save.  validate_commands accepts a subset
\* only when every other member has its record.
StartRun ==
    /\ owner.pc = "Start"
    /\ IF /\ \A k \in Members \ Given : HasRecord(owner.copy, k)
          /\ batch = owner.copy
          /\ ~BatchEnded(batch)
       THEN /\ OwnerGoes(IF CanStartBatch(batch) THEN "SaveStart" ELSE "Open")
            /\ LoadOnly(Owner, {TheBatch})
            /\ UNCHANGED token
       ELSE OwnerLeaves
    /\ UNCHANGED ctl

SaveStart ==
    /\ owner.pc = "SaveStart"
    /\ IF Holds(Owner, TheBatch)
       THEN /\ SaveBatch(Owner, StartBatch(owner.copy), {TheBatch})
            /\ owner' = [owner EXCEPT !.pc = "Open", !.copy = batch']
            /\ UNCHANGED token
       ELSE OwnerLeaves
    /\ UNCHANGED ctl

\* The ASR session is opened once for all Jobs; when it cannot be, every Job
\* that is not over fails.
OpenSession ==
    /\ owner.pc = "Open"
    /\ \/ owner' = [owner EXCEPT !.pc = "Loop", !.next = First(Given)]
       \/ /\ "Open" \in Faults
          /\ owner' = [owner EXCEPT !.pc = "FailLoad", !.next = First(Given)]
    /\ UNCHANGED <<jobs, batch, fresh, ctl, token>>

-----------------------------------------------------------------------------
(* fail_before_session. *)

FailLoad ==
    /\ owner.pc = "FailLoad" /\ owner.next <= JobCount
    /\ IF IsTerminal(jobs[owner.next])
       THEN /\ owner' = [owner EXCEPT !.next = NextAfter(@)]
            /\ LoadOnly(Owner, fresh[Owner])
       ELSE /\ OwnerGoes("FailSave")
            /\ LoadOnly(Owner, fresh[Owner] \union {owner.next})
    /\ UNCHANGED <<ctl, token>>

FailSave ==
    /\ owner.pc = "FailSave"
    /\ LET k == owner.next
       IN  IF Holds(Owner, k)
           THEN /\ SaveJob(Owner, k, Fail(jobs[k]), fresh[Owner] \ {k})
                /\ owner' = [owner EXCEPT !.pc = "FailLoad",
                                          !.next = NextAfter(k),
                                          !.copy = RecordJob(@, k, "Failed")]
                /\ UNCHANGED token
           ELSE OwnerLeaves
    /\ UNCHANGED ctl

FailFinish ==
    /\ owner.pc = "FailLoad" /\ owner.next > JobCount
    /\ IF Holds(Owner, TheBatch)
       THEN /\ SaveBatch(Owner, IF CanFinishBatch(owner.copy)
                                THEN FinishBatch(owner.copy, "Failed")
                                ELSE owner.copy, {})
            /\ owner' = NoOwner
            /\ token' = FALSE
       ELSE OwnerLeaves
    /\ UNCHANGED ctl

-----------------------------------------------------------------------------
(* RunBatch.execute_with_session: the loop over the given Jobs. *)

\* Every round reloads the Batch and obeys what it says.
LoopTop ==
    /\ owner.pc = "Loop" /\ owner.next <= JobCount
    /\ LoadOnly(Owner, {TheBatch})
    /\ owner' = [owner EXCEPT
           !.copy = batch,
           !.pc = IF BatchEnded(batch) THEN "Decide"
                  ELSE IF batch.cancel_requested THEN "CancelLoad"
                  ELSE IF CanMarkPaused(batch) THEN "MarkPaused"
                  ELSE IF batch.pause_requested \/ batch.status = "Paused"
                  THEN "Wait"
                  ELSE "CheckJob"]
    /\ UNCHANGED <<ctl, token>>

SavePaused ==
    /\ owner.pc = "MarkPaused"
    /\ IF Holds(Owner, TheBatch)
       THEN /\ SaveBatch(Owner, MarkPaused(owner.copy), {TheBatch})
            /\ OwnerGoes("Wait")
            /\ UNCHANGED token
       ELSE OwnerLeaves
    /\ UNCHANGED ctl

\* A signal or 500 ms later the loop looks again.
WakeUp == /\ owner.pc = "Wait"
          /\ OwnerGoes("Loop")
          /\ UNCHANGED <<jobs, batch, fresh, ctl, token>>

\* record_job_terminal of Job k as it is now: the copy must be Running.
RecordInMemory(k) ==
    IF CanRecord(owner.copy)
    THEN /\ owner' = [owner EXCEPT
                         !.pc = "Record",
                         !.copy = RecordJob(@, k, OutcomeOf(jobs[k].status))]
         /\ UNCHANGED <<jobs, batch, fresh, token>>
    ELSE OwnerLeaves

\* A Job that is over is acknowledged, any other is registered and executed.
CheckJob ==
    /\ owner.pc = "CheckJob"
    /\ LET k == owner.next
       IN  IF ~IsTerminal(jobs[k])
           THEN /\ owner' = [owner EXCEPT !.pc = "LoadJob", !.copy = NewBatch]
                /\ UNCHANGED <<jobs, batch, fresh, token>>
           ELSE IF HasRecord(owner.copy, k)
           THEN /\ owner' = [owner EXCEPT !.pc = "Loop", !.next = NextAfter(k)]
                /\ UNCHANGED <<jobs, batch, fresh, token>>
           ELSE RecordInMemory(k)
    /\ UNCHANGED ctl

\* The outcome recorded so far only in the owner's Batch is saved.
SaveRecord ==
    /\ owner.pc = "Record"
    /\ IF Holds(Owner, TheBatch)
       THEN /\ SaveBatch(Owner, owner.copy, {TheBatch})
            /\ owner' = [owner EXCEPT !.pc = "Loop", !.next = NextAfter(@)]
            /\ UNCHANGED token
       ELSE OwnerLeaves
    /\ UNCHANGED ctl

\* After TranscribeJob returned: the run is unregistered, the Batch reloaded,
AfterRun ==
    /\ owner.pc = "AfterRun"
    /\ token' = FALSE
    /\ LoadOnly(Owner, {TheBatch})
    /\ owner' = [owner EXCEPT !.pc = "Outcome", !.copy = batch]
    /\ UNCHANGED ctl

\* and the Job read once more to see how it ended.
ReadOutcome ==
    /\ owner.pc = "Outcome"
    /\ IF BatchEnded(owner.copy)
       THEN /\ owner' = [owner EXCEPT !.pc = "Loop", !.next = NextAfter(@)]
            /\ UNCHANGED <<jobs, batch, fresh, token>>
       ELSE RecordInMemory(owner.next)
    /\ UNCHANGED ctl

\* cancel_remaining_jobs, from the current Job on.
CancelLoad ==
    /\ owner.pc = "CancelLoad" /\ owner.next <= JobCount
    /\ LET k == owner.next
       IN  IF IsTerminal(jobs[k])
           THEN /\ owner' = [owner EXCEPT !.pc = "CancelRecord"]
                /\ LoadOnly(Owner, fresh[Owner])
           ELSE /\ OwnerGoes("CancelSave")
                /\ LoadOnly(Owner, fresh[Owner] \union {k})
    /\ UNCHANGED <<ctl, token>>

CancelSave ==
    /\ owner.pc = "CancelSave"
    /\ LET k == owner.next
       IN  IF Holds(Owner, k)
           THEN /\ SaveJob(Owner, k, Cancel(jobs[k]), fresh[Owner] \ {k})
                /\ OwnerGoes("CancelRecord")
                /\ UNCHANGED token
           ELSE OwnerLeaves
    /\ UNCHANGED ctl

\* The record is made on the copy, which must be Running for that.
CancelRecord ==
    /\ owner.pc = "CancelRecord"
    /\ LET k == owner.next
       IN  IF HasRecord(owner.copy, k) \/ CanRecord(owner.copy)
           THEN /\ owner' = [owner EXCEPT
                        !.pc = "CancelLoad",
                        !.next = NextAfter(k),
                        !.copy = IF HasRecord(@, k) THEN @
                                 ELSE RecordJob(@, k, OutcomeOf(jobs[k].status))]
                /\ UNCHANGED <<jobs, batch, fresh, token>>
           ELSE OwnerLeaves
    /\ UNCHANGED ctl

CancelSaveBatch ==
    /\ owner.pc = "CancelLoad" /\ owner.next > JobCount
    /\ IF Holds(Owner, TheBatch)
       THEN /\ SaveBatch(Owner, owner.copy, {TheBatch})
            /\ OwnerGoes("Decide")
            /\ UNCHANGED token
       ELSE OwnerLeaves
    /\ UNCHANGED ctl

\* The end of the loop: the Batch is finished when all its Jobs are recorded.
LoopEnd == /\ owner.pc = "Loop" /\ owner.next > JobCount
           /\ OwnerGoes("Decide")
           /\ UNCHANGED <<jobs, batch, fresh, ctl, token>>

\* Slip: no member is asked how it ended.
FinalStatusBlind(b) == IF b.cancel_requested THEN "Cancelled" ELSE "Done"
FinalStatus(b) == IF b.cancel_requested THEN "Cancelled"
                  ELSE IF \E k \in Members : jobs[k].status = "Failed"
                  THEN "Failed" ELSE "Done"

\* The Jobs are listed once more and the Batch is finished in memory.
Decide ==
    /\ owner.pc = "Decide"
    /\ LET b == IF owner.copy.status = "Paused" THEN ResumeBatch(owner.copy)
                                                ELSE owner.copy
       IN  IF CanFinishBatch(b)
           THEN /\ owner' = [owner EXCEPT !.pc = "Finish",
                                          !.copy = FinishBatch(b, FinalStatus(b))]
                /\ UNCHANGED <<jobs, batch, fresh, token>>
           ELSE OwnerLeaves
    /\ UNCHANGED ctl

SaveFinish ==
    /\ owner.pc = "Finish"
    /\ IF Holds(Owner, TheBatch)
       THEN /\ SaveBatch(Owner, owner.copy, {})
            /\ owner' = NoOwner
            /\ token' = FALSE
       ELSE OwnerLeaves
    /\ UNCHANGED ctl

-----------------------------------------------------------------------------
(* TranscribeJob.execute_with_cancel for the Job owner.next. *)

Current == owner.next

\* ensure_not_cancelled: the token of this run or the durable intent.
\* Slip: only the token of this process and the Batch are asked.
TokenSeen == token \/ batch.cancel_requested \/ batch.status = "Cancelled"
CancelSeen == \/ token
              \/ jobs[Current].cancel_requested
              \/ jobs[Current].status = "Cancelled"
              \/ batch.cancel_requested
              \/ batch.status = "Cancelled"

LoadJob ==
    /\ owner.pc = "LoadJob"
    /\ LoadOnly(Owner, {Current})
    /\ OwnerGoes(IF jobs[Current].status = "Pending" THEN "Enter" ELSE "AfterRun")
    /\ UNCHANGED <<ctl, token>>

EnterJob ==
    /\ owner.pc = "Enter"
    /\ OwnerGoes(IF CancelSeen THEN "Reload" ELSE "Touch")
    /\ UNCHANGED <<jobs, batch, fresh, ctl, token>>

\* The Job is saved once as it is and once started.
TouchJob ==
    /\ owner.pc = "Touch"
    /\ IF Holds(Owner, Current)
       THEN /\ SaveJob(Owner, Current, jobs[Current], {Current})
            /\ OwnerGoes("StartJob")
       ELSE /\ OwnerGoes("EnterError")
            /\ UNCHANGED <<jobs, batch, fresh>>
    /\ UNCHANGED <<ctl, token>>

StartJob ==
    /\ owner.pc = "StartJob"
    /\ IF Holds(Owner, Current) /\ CanStart(jobs[Current])
       THEN /\ SaveJob(Owner, Current, Start(jobs[Current]), {Current})
            /\ owner' = [owner EXCEPT !.pc = "Gate", !.stage = 1]
       ELSE /\ OwnerGoes("EnterError")
            /\ UNCHANGED <<jobs, batch, fresh>>
    /\ UNCHANGED <<ctl, token>>

EnterError ==
    /\ owner.pc = "EnterError"
    /\ OwnerGoes(IF CancelSeen THEN "Reload" ELSE "AfterRun")
    /\ UNCHANGED <<jobs, batch, fresh, ctl, token>>

\* The safe boundary before each stage and before the Job is finished.
Gate ==
    /\ owner.pc = "Gate"
    /\ OwnerGoes(IF CancelSeen THEN "Reload"
                 ELSE IF owner.stage <= StageCount THEN "Work" ELSE "SaveDone")
    /\ UNCHANGED <<jobs, batch, fresh, ctl, token>>

\* The source is compared with the execution snapshot before the first stage.
SourceChanged ==
    /\ owner.pc = "Work" /\ owner.stage = 1
    /\ "Verify" \in Faults
    /\ OwnerGoes("Error")
    /\ UNCHANGED <<jobs, batch, fresh, ctl, token>>

StageHere == jobs[Current].stage[owner.stage]

\* A stage with a result is verified and reused.
ReuseStage ==
    /\ owner.pc = "Work" /\ StageHere \in StageSatisfied
    /\ \/ owner' = [owner EXCEPT !.pc = "Gate", !.stage = @ + 1]
       \/ /\ "Verify" \in Faults /\ StageHere # "Skipped"
          /\ OwnerGoes("Error")
    /\ UNCHANGED <<jobs, batch, fresh, ctl, token>>

\* A stage that is due is skipped, or started (in memory) and worked on; the
\* work succeeds, fails, or is interrupted by a cancellation.
DoStage ==
    /\ owner.pc = "Work" /\ CanEnterStage(jobs[Current], owner.stage)
    /\ \/ OwnerGoes("Skip")
       \/ owner' = [owner EXCEPT !.pc = "Commit", !.running = TRUE]
       \/ /\ "Work" \in Faults
          /\ owner' = [owner EXCEPT !.pc = "Error", !.running = TRUE]
       \/ CancelSeen /\ OwnerGoes("Reload")
    /\ UNCHANGED <<jobs, batch, fresh, ctl, token>>

\* A stage that neither has a result nor is due, such as one that failed
\* before the stage a retry was told to start from.
BlockedStage ==
    /\ owner.pc = "Work"
    /\ StageHere \notin StageSatisfied
    /\ ~CanEnterStage(jobs[Current], owner.stage)
    /\ OwnerGoes("Error")
    /\ UNCHANGED <<jobs, batch, fresh, ctl, token>>

\* Two skips may follow each other without a boundary in between.
CommitSkip ==
    /\ owner.pc = "Skip"
    /\ \/ /\ Holds(Owner, Current)
          /\ SaveJob(Owner, Current, SkipStage(jobs[Current], owner.stage),
                     {Current})
          /\ \E pc \in {"Gate"} \union IF owner.stage < StageCount
                                        THEN {"Work"} ELSE {} :
                owner' = [owner EXCEPT !.pc = pc, !.stage = @ + 1]
       \/ /\ ~Holds(Owner, Current) \/ "Commit" \in Faults
          /\ OwnerGoes("Error")
          /\ UNCHANGED <<jobs, batch, fresh>>
    /\ UNCHANGED <<ctl, token>>

\* commit_stage: the stage table with the artifact, in one transaction.
CommitWork ==
    /\ owner.pc = "Commit"
    /\ \/ /\ Holds(Owner, Current)
          /\ \E degraded \in BOOLEAN :
                SaveJob(Owner, Current,
                        CompleteStage(StartStage(jobs[Current], owner.stage),
                                      owner.stage, Artifact, degraded),
                        {Current})
          /\ owner' = [owner EXCEPT !.pc = "Gate", !.stage = @ + 1,
                                    !.running = FALSE]
       \/ /\ ~Holds(Owner, Current) \/ "Commit" \in Faults
          /\ OwnerGoes("Error")
          /\ UNCHANGED <<jobs, batch, fresh>>
    /\ UNCHANGED <<ctl, token>>

\* All stages are over and no cancellation was seen at the last boundary.
FinishJob ==
    /\ owner.pc = "SaveDone"
    /\ IF Holds(Owner, Current) /\ CanFinish(jobs[Current])
       THEN /\ SaveJob(Owner, Current, Finish(jobs[Current]), {})
            /\ owner' = [owner EXCEPT !.pc = "AfterRun", !.stage = 0]
       ELSE /\ OwnerGoes("Error")
            /\ UNCHANGED <<jobs, batch, fresh>>
    /\ UNCHANGED <<ctl, token>>

\* Any error: it counts as a cancellation if one is seen now.
HandleError ==
    /\ owner.pc = "Error"
    /\ OwnerGoes(IF CancelSeen THEN "Reload" ELSE "SaveFailure")
    /\ UNCHANGED <<jobs, batch, fresh, ctl, token>>

\* The running stage fails and the Job with it; with no stage running the Job
\* is cancelled.  An outdated copy cannot be saved and the Job stays as it is.
SaveFailure ==
    /\ owner.pc = "SaveFailure"
    /\ LET k == Current
           failed == IF owner.running
                     THEN FailStage(StartStage(jobs[k], owner.stage), owner.stage)
                     ELSE Cancel(jobs[k])
       IN  IF Holds(Owner, k)
           THEN SaveJob(Owner, k, failed, {})
           ELSE UNCHANGED <<jobs, batch, fresh>>
    /\ owner' = [owner EXCEPT !.pc = "AfterRun", !.stage = 0, !.running = FALSE]
    /\ UNCHANGED <<ctl, token>>

\* The cancellation path: the latest Job is loaded, cancelled and saved.
ReloadJob ==
    /\ owner.pc = "Reload"
    /\ LoadOnly(Owner, {Current})
    /\ owner' = [owner EXCEPT !.pc = IF IsTerminal(jobs[Current]) THEN "AfterRun"
                                     ELSE "CancelJob",
                              !.stage = 0, !.running = FALSE]
    /\ UNCHANGED <<ctl, token>>

CancelHere ==
    /\ owner.pc = "CancelJob"
    /\ IF Holds(Owner, Current)
       THEN SaveJob(Owner, Current, Cancel(jobs[Current]), {})
       ELSE UNCHANGED <<jobs, batch, fresh>>
    /\ OwnerGoes("AfterRun")
    /\ UNCHANGED <<ctl, token>>

-----------------------------------------------------------------------------
(* Control commands: any number of them, one after the other per controller. *)

CtlGoes(c, pc) == ctl' = [ctl EXCEPT ![c].pc = pc]
CtlDone(c) == /\ ctl' = [ctl EXCEPT ![c] = NoCommand]
              /\ LoadOnly(c, {})

\* The registry signals the run of Job k, if c can reach it.
RunOf(k) == /\ owner.next = k
            /\ owner.pc \in {"LoadJob", "Enter", "Touch", "StartJob", "EnterError",
                            "Gate", "Work", "Skip", "Commit", "SaveDone", "Error",
                            "SaveFailure", "Reload", "CancelJob", "AfterRun"}
Signal(c, K) == token' = (token \/ (c \in Local /\ \E k \in K : RunOf(k)))

BeginCancelJob(c) ==
    /\ "CancelJob" \in Commands /\ ctl[c].pc = "Idle"
    /\ \E k \in Members : /\ ctl' = [ctl EXCEPT ![c].pc = "LoadJob", ![c].next = k]
                          /\ Signal(c, {k})
    /\ UNCHANGED <<jobs, batch, fresh, owner>>

CtlLoadJob(c) ==
    /\ ctl[c].pc = "LoadJob"
    /\ LET j == jobs[ctl[c].next]
       IN  IF j.status = "Pending" \/ (j.status = "Running" /\ ~j.cancel_requested)
           THEN LoadOnly(c, {ctl[c].next}) /\ CtlGoes(c, "SaveJob")
           ELSE CtlDone(c)
    /\ UNCHANGED <<owner, token>>

\* A Pending Job is cancelled, a Running one is asked to cancel itself.
CancelOrRequest(j) == IF j.status = "Pending" THEN Cancel(j) ELSE RequestCancel(j)

\* Between load and save CancelJob cancels the Pending work units; one it may
\* not save ends the command.
CtlSaveJob(c) ==
    /\ ctl[c].pc = "SaveJob"
    /\ \/ /\ Holds(c, ctl[c].next)
          /\ SaveJob(c, ctl[c].next, CancelOrRequest(jobs[ctl[c].next]), {})
          /\ ctl' = [ctl EXCEPT ![c] = NoCommand]
       \/ /\ ~Holds(c, ctl[c].next) \/ "Units" \in Faults
          /\ CtlDone(c)
    /\ UNCHANGED <<owner, token>>

BeginCancelBatch(c) ==
    /\ "CancelBatch" \in Commands /\ ctl[c].pc = "Idle"
    /\ CtlGoes(c, "LoadBatch")
    /\ Signal(c, Members)
    /\ UNCHANGED <<jobs, batch, fresh, owner>>

CtlLoadBatch(c) ==
    /\ ctl[c].pc = "LoadBatch"
    /\ LoadOnly(c, {TheBatch})
    /\ ctl' = [ctl EXCEPT ![c].copy = batch,
                          ![c].pc = IF BatchEnded(batch) \/ batch.cancel_requested
                                    THEN "OpenBatch" ELSE "RequestBatch"]
    /\ UNCHANGED <<owner, token>>

CtlRequestBatch(c) ==
    /\ ctl[c].pc = "RequestBatch"
    /\ IF Holds(c, TheBatch)
       THEN /\ SaveBatch(c, RequestBatchCancel(ctl[c].copy), {TheBatch})
            /\ ctl' = [ctl EXCEPT ![c].pc = "OpenBatch", ![c].copy = batch']
       ELSE CtlDone(c)
    /\ UNCHANGED <<owner, token>>

\* A Pending or Paused Batch is moved to Running and saved, so that the member
\* records may be written; an ended one is only walked through.
Opened(b) == IF b.status = "Pending" THEN StartBatch(b) ELSE ResumeBatch(b)

CtlOpenBatch(c) ==
    /\ ctl[c].pc = "OpenBatch"
    /\ LET b == IF ctl[c].copy.status \in {"Pending", "Paused"}
                THEN Opened(ctl[c].copy) ELSE ctl[c].copy
           next == [ctl EXCEPT ![c].pc = "EachJob", ![c].next = 1, ![c].copy = b]
       IN  IF BatchEnded(b)
           THEN ctl' = next /\ LoadOnly(c, {})
           ELSE IF Holds(c, TheBatch)
           THEN ctl' = next /\ SaveBatch(c, b, {TheBatch})
           ELSE CtlDone(c)
    /\ UNCHANGED <<owner, token>>

\* Each member is loaded; one that is over gets its record in the copy.
Recorded(b, k, s) == IF HasRecord(b, k) THEN b ELSE RecordJob(b, k, s)

CtlEachJob(c) ==
    /\ ctl[c].pc = "EachJob" /\ ctl[c].next <= JobCount
    /\ LET k == ctl[c].next
       IN  IF IsTerminal(jobs[k])
           THEN /\ ctl' = [ctl EXCEPT ![c].next = k + 1,
                                      ![c].copy = Recorded(@, k, jobs[k].status)]
                /\ LoadOnly(c, fresh[c])
           ELSE /\ CtlGoes(c, "EachSave")
                /\ LoadOnly(c, fresh[c] \union {k})
    /\ UNCHANGED <<owner, token>>

CtlEachSave(c) ==
    /\ ctl[c].pc = "EachSave"
    /\ LET k == ctl[c].next
           j == CancelOrRequest(jobs[k])
       IN  IF Holds(c, k)
           THEN /\ SaveJob(c, k, j, fresh[c] \ {k})
                /\ ctl' = [ctl EXCEPT
                       ![c].pc = "EachJob",
                       ![c].next = k + 1,
                       ![c].all = @ /\ IsTerminal(j),
                       ![c].copy = IF IsTerminal(j) THEN Recorded(@, k, j.status)
                                                    ELSE @]
           ELSE CtlDone(c)
    /\ UNCHANGED <<owner, token>>

\* The Batch is finished here only when every member was found or made over.
CtlFinishBatch(c) ==
    /\ ctl[c].pc = "EachJob" /\ ctl[c].next > JobCount
    /\ IF /\ ctl[c].all
          /\ CanFinishCancelled(ctl[c].copy)
          /\ Holds(c, TheBatch)
       THEN /\ SaveBatch(c, FinishBatch(ctl[c].copy, "Cancelled"), {})
            /\ ctl' = [ctl EXCEPT ![c] = NoCommand]
       ELSE CtlDone(c)
    /\ UNCHANGED <<owner, token>>

\* pause_batch and resume_batch load the Batch and save what the request makes
\* of it, even when that is nothing.
BeginPause(c) ==
    /\ "Pause" \in Commands /\ ctl[c].pc = "Idle"
    /\ CanRequestPause(batch)
    /\ LoadOnly(c, {TheBatch})
    /\ ctl' = [ctl EXCEPT ![c].pc = "SavePause", ![c].copy = batch]
    /\ UNCHANGED <<owner, token>>

CtlSavePause(c) ==
    /\ ctl[c].pc = "SavePause"
    /\ IF Holds(c, TheBatch)
       THEN /\ SaveBatch(c, RequestPause(ctl[c].copy), {})
            /\ ctl' = [ctl EXCEPT ![c] = NoCommand]
       ELSE CtlDone(c)
    /\ UNCHANGED <<owner, token>>

BeginResume(c) ==
    /\ "Resume" \in Commands /\ ctl[c].pc = "Idle"
    /\ LoadOnly(c, {TheBatch})
    /\ ctl' = [ctl EXCEPT ![c].pc = "SaveResume", ![c].copy = batch]
    /\ UNCHANGED <<owner, token>>

CtlSaveResume(c) ==
    /\ ctl[c].pc = "SaveResume"
    /\ IF Holds(c, TheBatch)
       THEN /\ SaveBatch(c, ResumeBatch(ctl[c].copy), {})
            /\ ctl' = [ctl EXCEPT ![c] = [NoCommand EXCEPT !.pc =
                           IF BatchEnded(batch) THEN "Idle" ELSE "BecomeOwner"]]
       ELSE CtlDone(c)
    /\ UNCHANGED <<owner, token>>

\* The resuming command becomes the owner unless there is one.
CtlBecomeOwner(c) ==
    /\ ctl[c].pc = "BecomeOwner"
    /\ TakeLock("Resume", 0) \/ (owner.pc # "Idle" /\ UNCHANGED owner)
    /\ CtlDone(c)
    /\ UNCHANGED token

-----------------------------------------------------------------------------
(* Crashes, and the whole system. *)

\* The owner's process dies, and with it the commands of its own process.
CrashOwner ==
    /\ "Crash" \in Faults /\ owner.pc # "Idle"
    /\ owner' = NoOwner
    /\ token' = FALSE
    /\ ctl' = [c \in Controllers |-> IF c \in Local THEN NoCommand ELSE ctl[c]]
    /\ fresh' = [a \in Actors |-> IF a \in {Owner} \union Local THEN {} ELSE fresh[a]]
    /\ UNCHANGED <<jobs, batch>>

CrashController(c) ==
    /\ "Crash" \in Faults /\ ctl[c].pc # "Idle" /\ c \notin Local
    /\ CtlDone(c)
    /\ UNCHANGED <<owner, token>>

\* A created Batch whose owner holds the lock and is about to run it.
Init == /\ jobs = [k \in Members |-> NewJob]
        /\ batch = NewBatch
        /\ fresh = [a \in Actors |-> {}]
        /\ owner = [NoOwner EXCEPT !.pc = "Start"]
        /\ ctl = [c \in Controllers |-> NoCommand]
        /\ token = FALSE

Recovery == \/ VerifyArtifacts \/ ListJobs \/ RecoverNextJob \/ ListBatches
            \/ RecoverTheBatch
Entry == \/ PrepareRetry \/ RetryTransaction \/ ReadForResume \/ StartRun
         \/ SaveStart \/ OpenSession \/ FailLoad \/ FailSave \/ FailFinish
RunLoop == \/ LoopTop \/ SavePaused \/ WakeUp \/ CheckJob \/ SaveRecord
           \/ AfterRun \/ ReadOutcome \/ CancelLoad \/ CancelSave \/ CancelRecord
           \/ CancelSaveBatch \/ LoopEnd \/ Decide \/ SaveFinish
Transcribe == \/ LoadJob \/ EnterJob \/ TouchJob \/ StartJob \/ EnterError
              \/ Gate \/ SourceChanged \/ ReuseStage \/ DoStage \/ BlockedStage
              \/ CommitSkip \/ CommitWork \/ FinishJob \/ HandleError \/ SaveFailure
              \/ ReloadJob \/ CancelHere
OwnerStep == Recovery \/ Entry \/ RunLoop \/ Transcribe

\* A command that was begun goes on; beginning one is up to the user.
CtlStep(c) == \/ CtlLoadJob(c) \/ CtlSaveJob(c) \/ CtlLoadBatch(c)
              \/ CtlRequestBatch(c) \/ CtlOpenBatch(c) \/ CtlEachJob(c)
              \/ CtlEachSave(c) \/ CtlFinishBatch(c) \/ CtlSavePause(c)
              \/ CtlSaveResume(c) \/ CtlBecomeOwner(c)
CtlBegin(c) == BeginCancelJob(c) \/ BeginCancelBatch(c) \/ BeginPause(c)
               \/ BeginResume(c)

Next == \/ OwnerStep
        \/ RetryCommand
        \/ \E c \in Controllers : CtlBegin(c) \/ CtlStep(c) \/ CrashController(c)
        \/ CrashOwner

Spec == Init /\ [][Next]_vars

\* The owner's task and every command that was begun are run by the async
\* runtime; nothing obliges a user to issue another command.
FairSpec == /\ Spec
            /\ WF_vars(OwnerStep)
            /\ \A c \in Controllers : WF_vars(CtlStep(c))

-----------------------------------------------------------------------------
(* Properties. *)

OwnerPcs == {"Idle", "Verify", "ListJobs", "RecoverJobs", "RecoverBatch",
             "Recovered", "RetryTx", "Start", "SaveStart", "Open", "FailLoad",
             "FailSave", "Loop", "MarkPaused", "Wait", "CheckJob", "Record",
             "AfterRun", "Outcome", "CancelLoad", "CancelSave", "CancelRecord", "Decide",
             "Finish", "LoadJob", "Enter", "Touch", "StartJob", "EnterError",
             "Gate", "Work", "Skip", "Commit", "SaveDone", "Error",
             "SaveFailure", "Reload", "CancelJob"}
CtlPcs == {"Idle", "LoadJob", "SaveJob", "LoadBatch", "RequestBatch", "OpenBatch",
           "EachJob", "EachSave", "SavePause", "SaveResume", "BecomeOwner"}

\* Every variable keeps its type.
TypeOK ==
    /\ jobs \in [Members -> Job]
    /\ batch \in Batch
    /\ fresh \in [Actors -> SUBSET (0 .. JobCount)]
    /\ owner \in [pc : OwnerPcs, purpose : {"Run", "Resume", "Retry"},
                  target : 0 .. JobCount, next : 0 .. JobCount + 1,
                  stage : 0 .. StageCount + 1, running : BOOLEAN,
                  todo : SUBSET Members, copy : Batch]
    /\ ctl \in [Controllers -> [pc : CtlPcs, next : 0 .. JobCount + 1,
                               all : BOOLEAN, copy : Batch]]
    /\ token \in BOOLEAN

\* What the Batch has on record for a member is how that Job really ended:
\* the owner records a Job it has just saved as finished or, after an error,
\* a Job it loads again.
RecordsAgree ==
    \A k \in Members :
        HasRecord(batch, k) => jobs[k].status = batch.terminal_jobs[k]

\* A Batch is over only when each of its Jobs is (Batch::finish demands a
\* record of each, and a record is meant to stand for a Job that is over).
EndedBatchHasEndedJobs ==
    BatchEnded(batch) => \A k \in Members : IsTerminal(jobs[k])

\* While a Batch is Paused none of its Jobs is being executed: the owner
\* pauses between two Jobs, and a crash leaves nothing running behind.
PausedMeansQuiet ==
    batch.status = "Paused" => \A k \in Members : jobs[k].status # "Running"

\* Once the intent to cancel is in the row, the Job is never reported as done:
\* an owner that read the row before either sees the intent or is refused.
CancelWins ==
    [][\A k \in Members :
          jobs[k].cancel_requested /\ ~IsTerminal(jobs[k]) =>
              jobs'[k].status \notin {"Done", "DoneDegraded"}]_vars

\* Members are executed in FIFO order: a Job starts when all before it ended,
\* whatever was cancelled, paused, retried or recovered in between.
FifoOrder ==
    [][\A k \in Members :
          jobs[k].status = "Pending" /\ jobs'[k].status = "Running" =>
              \A i \in 1 .. k - 1 : IsTerminal(jobs[i])]_vars

Pausing(c) == ctl[c].pc \in {"SavePause", "SaveResume"}

\* As long as nobody pauses or resumes it, every Batch comes to its end
\* whatever is cancelled, ...
BatchConcludes ==
    [](\A c \in Controllers : ~Pausing(c)) => <>BatchEnded(batch)

\* ... and a durable cancellation ends the Job that was asked to cancel.
CancelAnswered ==
    \A k \in Members : jobs[k].cancel_requested ~> IsTerminal(jobs[k])

\* A pause is obeyed, taken back, or overtaken by the end of the run.
PauseObeyed ==
    (batch.pause_requested /\ owner.pc # "Idle") ~>
        \/ batch.status = "Paused" \/ BatchEnded(batch)
        \/ ~batch.pause_requested \/ owner.pc = "Idle"

\* The Batch as BatchPromise sees it: outcomes of its Jobs and its own result.
Promise == INSTANCE BatchPromise WITH
    outcome <- [k \in Members |->
                    IF IsTerminal(jobs[k]) THEN jobs[k].status ELSE "Open"],
    result <- IF BatchEnded(batch) THEN batch.status ELSE "Open"

\* Owner, retries and crashes together implement BatchPromise.
KeepsPromise == Promise!Spec

-----------------------------------------------------------------------------
(* What the repository says of this system and the code does not keep when *)
(* two steps meet in an order nobody planned for.                          *)

\* "a Job failure never remains Running without a live lease" (DDD-6
\* acceptance): with the owner gone, by return and not by a crash, no Job is
\* Running.
FailureNeverRemainsRunning ==
    owner.pc = "Idle" => \A k \in Members : jobs[k].status # "Running"

\* "The Batch becomes Cancelled only after every member Job is terminal"
\* (CancelBatch).
CancelledAfterEveryJob ==
    batch.status = "Cancelled" => \A k \in Members : IsTerminal(jobs[k])

\* "A live owner will observe the durable resume through its polling loop"
\* (resume_batch, which leaves the Batch to it when the lock is taken): when
\* no more commands come, a resumed Batch ends or is paused again.
ResumeIsObserved ==
    <>[](\A c \in Controllers : ctl[c].pc = "Idle") =>
        \A c \in Controllers :
            ctl[c].pc = "BecomeOwner" ~>
                (BatchEnded(batch) \/ batch.pause_requested)

====
