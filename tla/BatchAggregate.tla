--------------------------- MODULE BatchAggregate ---------------------------
(***************************************************************************)
(* The Batch aggregate of crates/domain/src/workflow/batch.rs, as a value  *)
(* with one pair of operators per method (CanX: the method returns Ok, X:  *)
(* the Batch it leaves).  Its Jobs are the numbers 1..JobCount in FIFO     *)
(* order; terminal_jobs maps a Job to the outcome recorded for it.         *)
(* Definitions marked "Slip" are mutants, as in JobAggregate.              *)
(***************************************************************************)
EXTENDS Integers

CONSTANT JobCount
ASSUME BatchAssumption == JobCount \in Nat \ {0}

Members == 1 .. JobCount

JobOutcome == {"Done", "DoneDegraded", "Failed", "Cancelled"}
BatchTerminal == {"Done", "Failed", "Cancelled"}
BatchStatus == {"Pending", "Running", "Paused"} \union BatchTerminal

Batch == [status           : BatchStatus,
          cancel_requested : BOOLEAN,
          pause_requested  : BOOLEAN,
          terminal_jobs    : [Members -> JobOutcome \union {"None"}]]

NewBatch == [status           |-> "Pending",
             cancel_requested |-> FALSE,
             pause_requested  |-> FALSE,
             terminal_jobs    |-> [k \in Members |-> "None"]]

BatchEnded(b) == b.status \in BatchTerminal
HasRecord(b, k) == b.terminal_jobs[k] # "None"
AllRecorded(b) == \A k \in Members : HasRecord(b, k)

CanStartBatch(b) == b.status = "Pending"
StartBatch(b) == [b EXCEPT !.status = "Running"]

\* The three requests answer Ok and change nothing once the Batch has ended.
CanRequestPause(b) == BatchEnded(b) \/ ~b.cancel_requested
RequestPause(b) ==
    IF BatchEnded(b) THEN b ELSE [b EXCEPT !.pause_requested = TRUE]
ResumeBatch(b) ==
    IF BatchEnded(b)
    THEN b
    ELSE [b EXCEPT !.pause_requested = FALSE,
                   !.status = IF @ = "Paused" THEN "Running" ELSE @]
RequestBatchCancel(b) ==
    IF BatchEnded(b)
    THEN b
    ELSE [b EXCEPT !.cancel_requested = TRUE, !.pause_requested = FALSE]

\* Slip: the Batch must be Paused already.
CanMarkPausedLate(b) == b.status = "Paused" /\ b.pause_requested
CanMarkPaused(b) == b.status = "Running" /\ b.pause_requested
MarkPaused(b) == [b EXCEPT !.status = "Paused"]

CanRecord(b) == b.status = "Running"
RecordJob(b, k, s) == [b EXCEPT !.terminal_jobs[k] = s]

CanFinishBatch(b) == b.status = "Running" /\ AllRecorded(b)
FinishBatch(b, s) == [b EXCEPT !.status = s]
CanFinishCancelled(b) == b.cancel_requested /\ CanFinishBatch(b)

\* Slip: the outcome of the Batch is kept.
ReopenMember(b, k) == [b EXCEPT !.terminal_jobs[k] = "None"]
\* prepare_retry of member k: every status but Pending becomes Pending.
ReopenBatch(b, k) == [b EXCEPT !.terminal_jobs[k] = "None",
                               !.cancel_requested = FALSE,
                               !.pause_requested = FALSE,
                               !.status = "Pending"]

RecoverBatch(b) ==
    IF b.status = "Running" THEN [b EXCEPT !.status = "Pending"] ELSE b

=============================================================================
