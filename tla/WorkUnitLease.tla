---------------------------- MODULE WorkUnitLease ----------------------------
(***************************************************************************)
(* The transcription of long audio, chunk by chunk.  Every chunk is a work *)
(* unit with a row of its own; the owner of the Job creates the units,     *)
(* leases them one after the other and commits each with its file.  A      *)
(* crash leaves a leased unit behind, which only the startup recovery      *)
(* gives back, and only once its lease has expired.  CancelJob cancels the *)
(* Pending units one by one, without the lock, before it leaves its intent *)
(* in the Job.                                                             *)
(*                                                                         *)
(* A unit is named by its chunk and by the fingerprint of everything else  *)
(* its cache key is made of (engine, plan, options), here an engine number *)
(* that only grows: after an upgrade the chunks get new units beside the   *)
(* old ones.  The Job is the aggregate with the ASR stage alone; starting  *)
(* it, and finishing it once that stage is committed, are one step each.   *)
(***************************************************************************)
EXTENDS JobAggregate, WorkUnitAggregate

CONSTANTS ChunkCount,
          Engines,         \* fingerprints, oldest first
          Controllers,     \* processes that each issue one CancelJob
          MaxMishaps,      \* bound on crashes, failures and lost files
          Faults           \* which of these happen in this instance

Owner == "owner"

ASSUME UnitAssumption ==
    /\ StageCount = 1 /\ Artifacts # {}
    /\ ChunkCount \in Nat \ {0}
    /\ Engines \subseteq Nat \ {0} /\ Engines # {}
    /\ Owner \notin Controllers
    /\ MaxMishaps \in Nat
    /\ Faults \subseteq {"Crash", "Work", "Commit", "Lose"}

Chunks == 1 .. ChunkCount
Keys == Chunks \X Engines
Actors == {Owner} \union Controllers
TheJob == <<0, 0>>                 \* the Job among the rows

VARIABLES unit,      \* the rows of the work units; "None" before there is one
          result,    \* the engine that wrote the file of a chunk, or 0
          job,       \* the Job row
          fresh,     \* the rows of which an actor's copy is current
          owner,     \* the Processing Owner
          token,     \* the cancellation token of its run
          ctl,       \* the CancelJob commands
          mishaps    \* what has gone wrong so far

vars == <<unit, result, job, fresh, owner, token, ctl, mishaps>>

NoUnit == Is("None")
Existing == {k \in Keys : unit[k].status # "None"}
WithStatus(s) == {k \in Keys : unit[k].status = s}

NoOwner == [pc |-> "Idle", retry |-> FALSE, expired |-> {}, engine |-> 0, next |-> 1,
            seen |-> [c \in Chunks |-> "None"], passed |-> FALSE,
            cancelled |-> FALSE, held |-> FALSE, late |-> 0]
NoCommand == [pc |-> "Idle", todo |-> {}, local |-> FALSE]

\* The rows are ordered by chunk and then by the time they were created.
Before(k, l) == k[1] < l[1] \/ (k[1] = l[1] /\ k[2] <= l[2])
FirstRow(K) == {k \in K : \A l \in K : Before(k, l)}

\* Slip: the version is not compared.
HoldsAny(a, row) == TRUE
Holds(a, row) == row \in fresh[a]
\* Actor a has written these rows: nobody else's copy of them is current.
Wrote(a, R, keep) == fresh' = [b \in Actors |-> IF b = a THEN keep ELSE fresh[b] \ R]
Keep(a, R) == Wrote(a, {}, R)

SaveUnit(a, k, u, keep) == unit' = [unit EXCEPT ![k] = u] /\ Wrote(a, {k}, keep)
SaveJob(a, j, keep) == job' = j /\ Wrote(a, {TheJob}, keep)
Mishap(f) == f \in Faults /\ mishaps < MaxMishaps /\ mishaps' = mishaps + 1

OwnerGoes(pc) == owner' = [owner EXCEPT !.pc = pc, !.passed = FALSE]
OwnerLeaves == owner' = [NoOwner EXCEPT !.engine = owner.engine] /\ token' = FALSE

\* Slip: what another process left in the row is not looked at.
TokenSeen == token
CancelSeen == token \/ job.cancel_requested \/ job.status = "Cancelled"

-----------------------------------------------------------------------------
(* Recovery, and a retry if the Job needs one before it can run. *)

TakeLock ==
    /\ owner.pc = "Idle"
    /\ owner' = [NoOwner EXCEPT !.pc = "Verify", !.retry = CanRetry(job),
                                !.engine = owner.engine]
    /\ UNCHANGED <<unit, result, job, fresh, token, ctl, mishaps>>

\* Units whose file is gone or is not theirs start over, in one transaction.
VerifyChunks ==
    /\ owner.pc = "Verify"
    /\ LET broken == {k \in WithStatus("Done") : result[k[1]] # k[2]}
       IN  /\ unit' = [k \in Keys |-> IF k \in broken THEN Invalidate(unit[k])
                                      ELSE unit[k]]
           /\ Wrote(Owner, broken, {})
    /\ OwnerGoes("List")
    /\ UNCHANGED <<result, job, token, ctl, mishaps>>

ListExpired ==
    /\ owner.pc = "List"
    /\ LET expired == {k \in Keys : CanRecoverExpired(unit[k])}
       IN  /\ owner' = [owner EXCEPT !.pc = "Expire", !.expired = expired]
           /\ Keep(Owner, expired)
    /\ UNCHANGED <<unit, result, job, token, ctl, mishaps>>

RecoverUnit ==
    /\ owner.pc = "Expire" /\ owner.expired # {}
    /\ \E k \in FirstRow(owner.expired) :
          IF Holds(Owner, k)
          THEN /\ SaveUnit(Owner, k, RecoverExpired(unit[k]), fresh[Owner] \ {k})
               /\ owner' = [owner EXCEPT !.expired = @ \ {k}]
               /\ UNCHANGED token
          ELSE OwnerLeaves /\ Keep(Owner, {}) /\ UNCHANGED unit
    /\ UNCHANGED <<result, job, ctl, mishaps>>

Requeue ==
    /\ owner.pc = "Expire" /\ owner.expired = {}
    /\ OwnerGoes("Recovered")
    /\ IF job.status = "Running" THEN SaveJob(Owner, Recover(job), {})
                                 ELSE Keep(Owner, {}) /\ UNCHANGED job
    /\ UNCHANGED <<unit, result, token, ctl, mishaps>>

\* RetryJob is refused while a unit is Running, its lease expired or not.
LoadForRetry ==
    /\ owner.pc = "Recovered" /\ owner.retry
    /\ IF CanRetry(job) /\ WithStatus("Running") = {}
       THEN OwnerGoes("Retry") /\ Keep(Owner, Existing \union {TheJob})
            /\ UNCHANGED token
       ELSE OwnerLeaves /\ Keep(Owner, {})
    /\ UNCHANGED <<unit, result, job, ctl, mishaps>>

\* The rows a retry rewrites, each as it was read.
Reset(u) == IF CanRetryUnit(u) THEN RetryUnit(u)
            ELSE IF u.status = "Done" THEN Invalidate(u) ELSE u

\* apply_retry: Job and units in one transaction, or nothing.
RetryTransaction ==
    /\ owner.pc = "Retry"
    /\ IF \A row \in Existing \union {TheJob} : Holds(Owner, row)
       THEN /\ unit' = [k \in Keys |-> Reset(unit[k])]
            /\ job' = Retry(job, 1)
            /\ Wrote(Owner, Existing \union {TheJob}, {})
            /\ owner' = [owner EXCEPT !.pc = "Recovered", !.retry = FALSE]
            /\ UNCHANGED token
       ELSE /\ OwnerLeaves /\ Keep(Owner, {}) /\ UNCHANGED <<unit, job>>
    /\ UNCHANGED <<result, ctl, mishaps>>

Begin ==
    /\ owner.pc = "Recovered" /\ ~owner.retry
    /\ IF job.status # "Pending"
       THEN OwnerLeaves /\ Keep(Owner, {}) /\ UNCHANGED job
       ELSE IF job.cancel_requested
       THEN OwnerLeaves /\ SaveJob(Owner, Cancel(job), {})
       ELSE /\ SaveJob(Owner, Start(job), {TheJob})
            /\ \E e \in Engines :
                  /\ e >= owner.engine
                  /\ owner' = [owner EXCEPT !.pc = "Find", !.engine = e, !.next = 1]
            /\ UNCHANGED token
    /\ UNCHANGED <<unit, result, ctl, mishaps>>

-----------------------------------------------------------------------------
(* transcribe_asr *)

Held == <<owner.next, owner.engine>>
Error(held) == owner' = [owner EXCEPT !.pc = IF held THEN "Release" ELSE "Error",
                                      !.passed = FALSE, !.held = held]
Advance(pc) == owner' = [owner EXCEPT !.pc = pc, !.passed = FALSE, !.next = @ + 1]

\* ensure_not_cancelled, which precedes each of these steps.  The checks between
\* the lease and the commit have no other step between them that others see.
Gated == {"Find", "Check", "Commit", "Committed", "Stitch"}
Gate ==
    /\ owner.pc \in Gated /\ ~owner.passed
    /\ owner' = IF CancelSeen
                THEN [owner EXCEPT !.pc = IF owner.held THEN "Release" ELSE "Error",
                                   !.cancelled = TRUE]
                ELSE [owner EXCEPT !.passed = TRUE]
    /\ UNCHANGED <<unit, result, job, fresh, token, ctl, mishaps>>

\* The units of all chunks are found or created first, and their status noted.
FindUnit ==
    /\ owner.pc = "Find" /\ owner.passed /\ owner.next <= ChunkCount
    /\ owner' = [owner EXCEPT !.passed = FALSE, !.next = @ + 1,
                              !.seen[owner.next] = IF Held \in Existing
                                                   THEN unit[Held].status
                                                   ELSE "Pending"]
    /\ IF Held \in Existing THEN UNCHANGED <<unit, fresh>>
                            ELSE SaveUnit(Owner, Held, NewUnit, fresh[Owner])
    /\ UNCHANGED <<result, job, token, ctl, mishaps>>

FoundAll ==
    /\ owner.pc = "Find" /\ owner.next > ChunkCount
    /\ owner' = [owner EXCEPT !.pc = "Check", !.next = 1, !.passed = FALSE]
    /\ UNCHANGED <<unit, result, job, fresh, token, ctl, mishaps>>

\* Slip: whatever is not Pending any more has been transcribed.
ReusableAny(s) == s # "Pending"
ReusableUnit(s) == s = "Done"
AtChunk == owner.pc = "Check" /\ owner.passed /\ owner.next <= ChunkCount
Seen == owner.seen[owner.next]

ReuseChunk ==
    /\ AtChunk /\ ReusableUnit(Seen)
    /\ Advance("Check")
    /\ UNCHANGED <<unit, result, job, fresh, token, ctl, mishaps>>

\* "recover or retry its work unit first"
RefuseChunk ==
    /\ AtChunk /\ ~ReusableUnit(Seen) /\ Seen # "Pending"
    /\ Error(FALSE)
    /\ UNCHANGED <<unit, result, job, fresh, token, ctl, mishaps>>

\* lease_next_ready takes the first Pending unit of the Job, of whatever engine.
\* If it is not the expected one the owner gives up, and leaves it leased.
LeaseUnit ==
    /\ AtChunk /\ Seen = "Pending"
    /\ LET ready == {k \in Keys : CanLease(unit[k])}
       IN  IF ready = {} THEN Error(FALSE) /\ UNCHANGED <<unit, fresh>>
           ELSE \E k \in FirstRow(ready) :
                   /\ SaveUnit(Owner, k, Lease(unit[k]), fresh[Owner] \union {k})
                   /\ IF k = Held
                      THEN owner' = [owner EXCEPT !.pc = "Work", !.passed = FALSE,
                                                  !.held = TRUE]
                      ELSE Error(FALSE)
    /\ UNCHANGED <<result, job, token, ctl, mishaps>>

\* The chunk is cut out and transcribed, or its transcript found in the cache.
WorkOnChunk ==
    /\ owner.pc = "Work"
    /\ \/ OwnerGoes("Commit") /\ UNCHANGED mishaps
       \/ Error(TRUE) /\ Mishap("Work")
    /\ UNCHANGED <<unit, result, job, fresh, token, ctl>>

\* commit_stage with the unit alone.  The file of a chunk has one name, and a
\* file that is there is not replaced by another.
CancelAsked == token \/ job.cancel_requested
Publishable == result[owner.next] \in {0, owner.engine}
CommitUnit ==
    /\ owner.pc = "Commit" /\ owner.passed
    /\ \/ /\ IF Publishable /\ Holds(Owner, Held) /\ CanComplete(unit[Held])
             THEN /\ SaveUnit(Owner, Held, Complete(unit[Held]), fresh[Owner])
                  /\ result' = [result EXCEPT ![owner.next] = owner.engine]
                  /\ owner' = [owner EXCEPT !.pc = "Committed", !.passed = FALSE,
                                            !.late = @ + IF CancelAsked THEN 1 ELSE 0]
             ELSE Error(TRUE) /\ UNCHANGED <<unit, fresh, result>>
          /\ UNCHANGED mishaps
       \/ /\ Mishap("Commit")
          /\ Error(TRUE) /\ UNCHANGED <<unit, fresh, result>>
    /\ UNCHANGED <<job, token, ctl>>

NextChunk ==
    /\ owner.pc = "Committed" /\ owner.passed
    /\ owner' = [owner EXCEPT !.pc = "Check", !.passed = FALSE, !.held = FALSE,
                              !.next = @ + 1]
    /\ UNCHANGED <<unit, result, job, fresh, token, ctl, mishaps>>

\* What becomes of the leased unit: cancelled unless it has ended, or failed.
\* An outdated copy cannot be saved.
ReleaseUnit ==
    /\ owner.pc = "Release"
    /\ LET u == unit[Held]
           released == IF owner.cancelled THEN CancelUnit(u) ELSE FailUnit(u)
           mayRelease == IF owner.cancelled THEN CanCancelUnit(u) ELSE CanFailUnit(u)
       IN  IF Holds(Owner, Held) /\ mayRelease
           THEN SaveUnit(Owner, Held, released, fresh[Owner])
           ELSE UNCHANGED <<unit, fresh>>
    /\ owner' = [owner EXCEPT !.pc = "Error", !.held = FALSE]
    /\ UNCHANGED <<result, job, token, ctl, mishaps>>

\* The stage is committed with the transcript of all chunks and the Job ends.
Stitch ==
    /\ owner.pc = "Check" /\ owner.next > ChunkCount
    /\ OwnerGoes("Stitch")
    /\ UNCHANGED <<unit, result, job, fresh, token, ctl, mishaps>>

\* Of what is in the store, only the Job still has to be current.
Done(j) == Finish(CompleteStage(StartStage(j, 1), 1, CHOOSE a \in Artifacts : TRUE, FALSE))
FinishJob ==
    /\ owner.pc = "Stitch" /\ owner.passed
    /\ IF Holds(Owner, TheJob)
       THEN SaveJob(Owner, Done(job), {}) /\ OwnerLeaves
       ELSE Error(FALSE) /\ UNCHANGED <<job, fresh, token>>
    /\ UNCHANGED <<unit, result, ctl, mishaps>>

\* The error of the run: a cancellation if one is seen now, else a failure,
\* which an outdated copy of the Job cannot save.
EndInError ==
    /\ owner.pc = "Error"
    /\ OwnerLeaves
    /\ IF CancelSeen \/ owner.cancelled
       THEN IF IsTerminal(job) THEN Keep(Owner, {}) /\ UNCHANGED job
                               ELSE SaveJob(Owner, Cancel(job), {})
       ELSE IF Holds(Owner, TheJob)
       THEN SaveJob(Owner, FailStage(StartStage(job, 1), 1), {})
       ELSE Keep(Owner, {}) /\ UNCHANGED job
    /\ UNCHANGED <<unit, result, ctl, mishaps>>

-----------------------------------------------------------------------------
(* CancelJob *)

CtlGoes(c, pc) == ctl' = [ctl EXCEPT ![c].pc = pc]
NoCommandLeft == [NoCommand EXCEPT !.pc = "Gone"]
CtlEnds(c) == ctl' = [ctl EXCEPT ![c] = NoCommandLeft] /\ Keep(c, {})

InRun == owner.pc \notin {"Idle", "Verify", "List", "Expire", "Recovered", "Retry"}

\* A command in the owner's own process signals its run before anything else.
CtlBegin(c) ==
    /\ ctl[c].pc = "Idle"
    /\ \E local \in BOOLEAN :
          /\ ctl' = [ctl EXCEPT ![c].pc = "Load", ![c].local = local]
          /\ token' = (token \/ (local /\ InRun))
    /\ UNCHANGED <<unit, result, job, fresh, owner, mishaps>>

CtlLoad(c) ==
    /\ ctl[c].pc = "Load"
    /\ IF job.status \in JobTerminal \ {"Cancelled"}
       THEN CtlEnds(c)
       ELSE CtlGoes(c, "List") /\ Keep(c, {TheJob})
    /\ UNCHANGED <<unit, result, job, owner, token, mishaps>>

CtlList(c) ==
    /\ ctl[c].pc = "List"
    /\ ctl' = [ctl EXCEPT ![c].pc = "Units", ![c].todo = WithStatus("Pending")]
    /\ Keep(c, fresh[c] \union WithStatus("Pending"))
    /\ UNCHANGED <<unit, result, job, owner, token, mishaps>>

\* One unit after the other; one that was changed meanwhile ends the command.
CtlCancelUnit(c) ==
    /\ ctl[c].pc = "Units" /\ ctl[c].todo # {}
    /\ \E k \in FirstRow(ctl[c].todo) :
          IF Holds(c, k)
          THEN /\ SaveUnit(c, k, CancelUnit(unit[k]), fresh[c] \ {k})
               /\ ctl' = [ctl EXCEPT ![c].todo = @ \ {k}]
          ELSE CtlEnds(c) /\ UNCHANGED unit
    /\ UNCHANGED <<result, job, owner, token, mishaps>>

CancelOrRequest(j) == IF j.status = "Pending" THEN Cancel(j) ELSE RequestCancel(j)
CtlSaveJob(c) ==
    /\ ctl[c].pc = "Units" /\ ctl[c].todo = {}
    /\ ctl' = [ctl EXCEPT ![c] = NoCommandLeft]
    /\ IF Holds(c, TheJob) /\ job.status # "Cancelled" /\ ~job.cancel_requested
       THEN SaveJob(c, CancelOrRequest(job), {})
       ELSE Keep(c, {}) /\ UNCHANGED job
    /\ UNCHANGED <<unit, result, owner, token, mishaps>>

CtlStep(c) == CtlLoad(c) \/ CtlList(c) \/ CtlCancelUnit(c) \/ CtlSaveJob(c)

-----------------------------------------------------------------------------
(* Time, crashes, lost files, and the whole system. *)

Tick ==
    /\ \E k \in Keys : unit[k].lease > 0
    /\ unit' = [k \in Keys |-> IF unit[k].lease > 0 THEN [unit[k] EXCEPT !.lease = @ - 1]
                               ELSE unit[k]]
    /\ UNCHANGED <<result, job, fresh, owner, token, ctl, mishaps>>

\* The commands of the owner's process die with it.
Crash ==
    /\ owner.pc # "Idle" /\ Mishap("Crash")
    /\ OwnerLeaves
    /\ ctl' = [c \in Controllers |-> IF ctl[c].local THEN NoCommandLeft ELSE ctl[c]]
    /\ fresh' = [a \in Actors |-> IF a = Owner \/ ctl[a].local THEN {} ELSE fresh[a]]
    /\ UNCHANGED <<unit, result, job>>

CrashController(c) ==
    /\ ~ctl[c].local /\ ctl[c].pc \notin {"Idle", "Gone"} /\ Mishap("Crash")
    /\ CtlEnds(c)
    /\ UNCHANGED <<unit, result, job, owner, token>>

LoseFile ==
    /\ Mishap("Lose")
    /\ \E c \in Chunks : result[c] # 0 /\ result' = [result EXCEPT ![c] = 0]
    /\ UNCHANGED <<unit, job, fresh, owner, token, ctl>>

Init == /\ unit = [k \in Keys |-> NoUnit]
        /\ result = [c \in Chunks |-> 0]
        /\ job = NewJob
        /\ fresh = [a \in Actors |-> {}]
        /\ owner = NoOwner
        /\ token = FALSE
        /\ ctl = [c \in Controllers |-> NoCommand]
        /\ mishaps = 0

OwnerStep == \/ VerifyChunks \/ ListExpired \/ RecoverUnit \/ Requeue
             \/ LoadForRetry \/ RetryTransaction \/ Begin
             \/ Gate \/ FindUnit \/ FoundAll \/ ReuseChunk \/ RefuseChunk
             \/ LeaseUnit \/ WorkOnChunk \/ CommitUnit \/ NextChunk \/ ReleaseUnit
             \/ Stitch \/ FinishJob \/ EndInError

Next == \/ TakeLock \/ OwnerStep
        \/ \E c \in Controllers : CtlBegin(c) \/ CtlStep(c) \/ CrashController(c)
        \/ Tick \/ Crash \/ LoseFile

Spec == Init /\ [][Next]_vars

\* Tasks run, time passes, and somebody starts or retries the Job again.
FairSpec == /\ Spec
            /\ WF_vars(TakeLock) /\ WF_vars(OwnerStep) /\ WF_vars(Tick)
            /\ \A c \in Controllers : WF_vars(CtlStep(c))

-----------------------------------------------------------------------------
OwnerPcs == Gated \union {"Idle", "Verify", "List", "Expire", "Recovered", "Retry",
                          "Work", "Release", "Error"}
OwnerState == [pc : OwnerPcs, retry : BOOLEAN, expired : SUBSET Keys,
               engine : Engines \union {0}, next : 1 .. ChunkCount + 1,
               seen : [Chunks -> UnitStatus \union {"None"}], passed : BOOLEAN,
               cancelled : BOOLEAN, held : BOOLEAN, late : Nat]
Command == [pc : {"Idle", "Load", "List", "Units", "Gone"}, todo : SUBSET Keys,
            local : BOOLEAN]

\* Every variable has its type; only a Running unit has a lease (lease_for sets
\* it, whatever ends Running clears it), which retry and recovery rely on.
TypeOK ==
    /\ unit \in [Keys -> WorkUnit \union {NoUnit}]
    /\ \A k \in Keys : (unit[k].status = "Running") = (unit[k].lease # NoLease)
    /\ result \in [Chunks -> Engines \union {0}]
    /\ JobOK(job)
    /\ fresh \in [Actors -> SUBSET (Keys \union {TheJob})]
    /\ owner \in OwnerState
    /\ token \in BOOLEAN
    /\ ctl \in [Controllers -> Command]
    /\ mishaps \in 0 .. MaxMishaps

\* While the owner has a chunk in hand its unit is leased, and nobody else has
\* written the row: neither a CancelJob that read it before the lease nor time
\* passing takes the unit away, so the work is not lost at the commit.
LeasedUnitIsKept ==
    owner.pc \in {"Work", "Commit", "Release"} =>
        \/ unit[Held].status = "Running" /\ Holds(Owner, Held)
        \/ unit[Held].status = "Done" /\ owner.pc = "Release" /\ owner.cancelled

\* The Job ends well only when every chunk has been transcribed by the engine
\* of this run; the status of the units was read before the first of them was.
TranscriptNeedsEveryChunk ==
    [][job.status # "Done" /\ job'.status = "Done" =>
        \A c \in Chunks : unit[<<c, owner.engine>>].status = "Done"]_vars

\* "A failed chunk does not invalidate completed chunks": a unit that is Done
\* stays so, through failures, cancellations, crashes and recoveries, until the
\* Job is retried or its own file is gone.
CompletedChunksSurvive ==
    [][\A k \in Keys : unit[k].status = "Done" /\ unit'[k].status # "Done" =>
        \/ result[k[1]] # k[2]
        \/ CanRetry(job) /\ job' = Retry(job, 1)]_vars

\* Once the owner is asked to cancel, durably or by its token, it completes at
\* most the one chunk whose last check was already behind it.
CancelIsPrompt == owner.late <= 1

\* No order of crashes, failures, cancellations and lost files strands the
\* chunks: a lease left behind expires, what failed or was cancelled is reset,
\* and if the Job is started or retried often enough it is transcribed, unless
\* the engine is upgraded on the way.
JobGetsTranscribed ==
    (\E e \in Engines : [](owner.engine \in {0, e})) => <>(job.status = "Done")

\* "One failed chunk resumes independently": a Job with a failed chunk is
\* transcribed in the end if it is retried often enough.
FailedChunkResumes == WithStatus("Failed") # {} ~> job.status = "Done"

=============================================================================
