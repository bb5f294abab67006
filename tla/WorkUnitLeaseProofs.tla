------------------------- MODULE WorkUnitLeaseProofs -------------------------
(***************************************************************************)
(* What WorkUnitLease promises, for every number of chunks, engines and    *)
(* CancelJob commands.  Of its properties only the types would be          *)
(* inductive, and not even they: whether a unit may fail or a Job finish   *)
(* is not asked by the step that does it.  What makes them true is that a  *)
(* row an actor read, and that nobody has written since, is still in the   *)
(* state the actor read it for: Pending for a CancelJob, leased for the    *)
(* recovery and for the owner at work, a Job that may be retried for the   *)
(* retry, and a running Job for the owner of a run.                        *)
(***************************************************************************)
EXTENDS WorkUnitLease, TLAPS

-----------------------------------------------------------------------------
(* What JobLifecycleProofs proves of the methods of a Job holds here: the  *)
(* Job is the same one, and so are its methods.                            *)

Life == INSTANCE JobLifecycleProofs

LEMMA SameJob ==
    ASSUME NEW j
    PROVE  /\ Life!JobOK(j) <=> JobOK(j)
           /\ Life!Stages = Stages /\ Life!StageSatisfied = StageSatisfied
BY DEF Life!JobOK, JobOK, Life!Job, Job, Life!StageOrderOK, StageOrderOK,
       Life!LastStageOK, LastStageOK, Life!SuccessOK, SuccessOK,
       Life!EndOK, EndOK, Life!ReferenceOK, ReferenceOK, Life!Stages,
       Stages, Life!IsTerminal, IsTerminal, Life!JobTerminal, JobTerminal,
       Life!JobStatus, JobStatus, Life!StageStatus, StageStatus,
       Life!StageTerminal, StageTerminal, Life!StageSatisfied,
       StageSatisfied

LEMMA SameMethods ==
    ASSUME NEW j, NEW k, NEW a, NEW d
    PROVE  /\ Life!NewJob = NewJob
           /\ Life!CanStart(j) <=> CanStart(j)
           /\ Life!Start(j) = Start(j)
           /\ Life!CanEnterStage(j, k) <=> CanEnterStage(j, k)
           /\ Life!StartStage(j, k) = StartStage(j, k)
           /\ Life!CanCompleteStage(j, k) <=> CanCompleteStage(j, k)
           /\ Life!CompleteStage(j, k, a, d) = CompleteStage(j, k, a, d)
           /\ Life!CanFailStage(j, k) <=> CanFailStage(j, k)
           /\ Life!FailStage(j, k) = FailStage(j, k)
           /\ Life!CanFinish(j) <=> CanFinish(j)
           /\ Life!FinishStatus(j) = FinishStatus(j)
           /\ Life!Finish(j) = Finish(j)
           /\ Life!CanCancel(j) <=> CanCancel(j)
           /\ Life!Cancel(j) = Cancel(j)
           /\ Life!RequestCancel(j) = RequestCancel(j)
           /\ Life!Recover(j) = Recover(j)
           /\ Life!Retry(j, k) = Retry(j, k)
BY DEF Life!NewJob, NewJob, Life!CanStart, CanStart, Life!Start, Start,
       Life!CanEnterStage, CanEnterStage, Life!StartStage, StartStage,
       Life!CanCompleteStage, CanCompleteStage, Life!CompleteStage,
       CompleteStage, Life!CanFailStage, CanFailStage, Life!FailStage,
       FailStage, Life!CanFinish, CanFinish, Life!FinishStatus,
       FinishStatus, Life!Finish, Finish, Life!CanCancel, CanCancel,
       Life!Cancel, Cancel, Life!RequestCancel, RequestCancel,
       Life!Recover, Recover, Life!Retry, Retry, Life!PrerequisiteMet,
       PrerequisiteMet, Life!EndOpenStages, EndOpenStages,
       Life!RequeueRunning, RequeueRunning, Life!ResetFrom, ResetFrom,
       Life!NextGeneration, NextGeneration, Life!Stages, Stages,
       Life!IsTerminal, IsTerminal, Life!JobTerminal, JobTerminal,
       Life!StageTerminal, StageTerminal, Life!StageSatisfied,
       StageSatisfied

LEMMA NewJobOK == JobOK(NewJob)
BY Life!NewJobOK, SameJob, SameMethods, JobAssumption DEF Life!JobAssumption

LEMMA StartOK == ASSUME NEW j, JobOK(j), CanStart(j) PROVE JobOK(Start(j))
BY Life!StartOK, SameJob, SameMethods, JobAssumption DEF Life!JobAssumption

LEMMA StartStageOK ==
    ASSUME NEW j, JobOK(j), NEW k \in Stages, CanEnterStage(j, k)
    PROVE  JobOK(StartStage(j, k))
BY Life!StartStageOK, SameJob, SameMethods, JobAssumption DEF Life!JobAssumption

LEMMA CompleteStageOK ==
    ASSUME NEW j, JobOK(j), NEW k \in Stages, CanCompleteStage(j, k),
           NEW a \in Artifacts, NEW degraded \in BOOLEAN
    PROVE  JobOK(CompleteStage(j, k, a, degraded))
BY Life!CompleteStageOK, SameJob, SameMethods, JobAssumption DEF Life!JobAssumption

LEMMA FailStageOK ==
    ASSUME NEW j, JobOK(j), NEW k \in Stages, CanFailStage(j, k)
    PROVE  JobOK(FailStage(j, k))
BY Life!FailStageOK, SameJob, SameMethods, JobAssumption DEF Life!JobAssumption

LEMMA FinishIsSuccess ==
    ASSUME NEW j, JobOK(j), CanFinish(j)
    PROVE  /\ \A k \in Stages : j.stage[k] \in StageSatisfied
           /\ FinishStatus(j) = IF \E k \in Stages : j.stage[k] = "DoneDegraded"
                                THEN "DoneDegraded" ELSE "Done"
BY Life!FinishIsSuccess, SameJob, SameMethods, JobAssumption DEF Life!JobAssumption

LEMMA FinishOK == ASSUME NEW j, JobOK(j), CanFinish(j) PROVE JobOK(Finish(j))
BY Life!FinishOK, SameJob, SameMethods, JobAssumption DEF Life!JobAssumption

LEMMA CancelOK == ASSUME NEW j, JobOK(j), CanCancel(j) PROVE JobOK(Cancel(j))
BY Life!CancelOK, SameJob, SameMethods, JobAssumption DEF Life!JobAssumption

LEMMA RequestCancelOK == ASSUME NEW j, JobOK(j) PROVE JobOK(RequestCancel(j))
BY Life!RequestCancelOK, SameJob, SameMethods, JobAssumption DEF Life!JobAssumption

LEMMA RecoverOK == ASSUME NEW j, JobOK(j) PROVE JobOK(Recover(j))
BY Life!RecoverOK, SameJob, SameMethods, JobAssumption DEF Life!JobAssumption

LEMMA RetryOK ==
    ASSUME NEW j, JobOK(j), NEW k \in Stages
    PROVE  JobOK(Retry(j, k))
BY Life!RetryOK, SameJob, SameMethods, JobAssumption DEF Life!JobAssumption

-----------------------------------------------------------------------------
(* The invariant. *)

UnitsTyped ==
    /\ unit \in [Keys -> WorkUnit \union {NoUnit}]
    /\ \A k \in Keys : (unit[k].status = "Running") = (unit[k].lease # NoLease)
Rows == Keys \union {TheJob}
RowsTyped == fresh \in [Actors -> SUBSET Rows]

\* CancelJob: a row that is current was Pending when it was listed.
ListedIsPending ==
    \A c \in Controllers, k \in Keys :
        k \in ctl[c].todo /\ k \in fresh[c] => unit[k].status = "Pending"

\* The only stage of a Job that may still run has not begun, in the row.
StageHasNotBegun ==
    job.status \in {"Pending", "Running"} => job.stage[1] = "Pending"

\* Recovery: a row that is current is leased.
ListedIsLeased ==
    owner.pc = "Expire" =>
        \A k \in owner.expired : k \in fresh[Owner] => unit[k].status = "Running"

\* A retry: the Job it read may be retried.
RetryIsAllowed ==
    owner.pc = "Retry" /\ TheJob \in fresh[Owner] => CanRetry(job)

\* The owner between the lease of a chunk and the next one.
AtWork == {"Work", "Commit", "Committed", "Release"}
WorkIsLeased ==
    /\ owner.held => owner.pc \in AtWork
    /\ owner.pc \in AtWork =>
           owner.next \in Chunks /\ owner.engine \in Engines /\ owner.held
    /\ owner.pc \in {"Work", "Commit"} =>
           unit[Held].status = "Running" /\ Held \in fresh[Owner]
    /\ owner.pc = "Committed" => unit[Held].status = "Done"
    /\ owner.pc = "Release" =>
           \/ unit[Held].status = "Running" /\ Held \in fresh[Owner]
           \/ unit[Held].status = "Done" /\ owner.cancelled

\* The chunks behind the owner are done, and so is what it has seen done.
InTranscript == {"Find", "Check", "Work", "Commit", "Committed", "Stitch"}
InRunPcs == InTranscript \union {"Release", "Error"}
BehindIsDone ==
    /\ owner.pc \in InTranscript => owner.engine \in Engines
    /\ \A c \in Chunks :
          /\ owner.pc \in InTranscript /\ owner.seen[c] = "Done" =>
                 unit[<<c, owner.engine>>].status = "Done"
          /\ owner.pc \in InTranscript \ {"Find"} /\ c < owner.next =>
                 unit[<<c, owner.engine>>].status = "Done"
    /\ owner.pc = "Stitch" => owner.next = ChunkCount + 1
    /\ owner.pc \notin InRunPcs => \A c \in Chunks : owner.seen[c] = "None"

\* The Job of a run is running, unless its copy is outdated.
RunIsRunning ==
    owner.pc \in InRunPcs /\ TheJob \in fresh[Owner] => job.status = "Running"

\* A chunk that was completed after the request to cancel is the last one.
LateIsLast ==
    /\ owner.late \in 0 .. 1
    /\ owner.late = 1 =>
           \/ owner.pc = "Committed" /\ ~owner.passed /\ CancelAsked
           \/ owner.pc \in {"Release", "Error"}

OwnerInv == /\ ListedIsLeased
            /\ RetryIsAllowed
            /\ WorkIsLeased
            /\ BehindIsDone
            /\ RunIsRunning
            /\ LateIsLast

LeaseInv == /\ TypeOK
            /\ ListedIsPending
            /\ StageHasNotBegun
            /\ OwnerInv

-----------------------------------------------------------------------------
(* The parameters, and what the building blocks of the actions do. *)

LEMMA Parameters ==
    /\ Owner \in Actors
    /\ \A c \in Controllers : c \in Actors /\ c # Owner
    /\ TheJob \notin Keys
    /\ 1 \in 1 .. ChunkCount + 1
    /\ Stages = {1}
BY UnitAssumption DEF Actors, TheJob, Keys, Chunks, Stages

LEMMA TypeParts ==
    ASSUME TypeOK
    PROVE  /\ UnitsTyped /\ RowsTyped
           /\ result \in [Chunks -> Engines \union {0}]
           /\ JobOK(job)
           /\ owner \in OwnerState
           /\ token \in BOOLEAN
           /\ ctl \in [Controllers -> Command]
           /\ mishaps \in 0 .. MaxMishaps
BY DEF TypeOK, UnitsTyped, RowsTyped, Rows

LEMMA TypeAssembled ==
    ASSUME UnitsTyped', RowsTyped',
           result' \in [Chunks -> Engines \union {0}],
           JobOK(job'),
           owner' \in OwnerState,
           token' \in BOOLEAN,
           ctl' \in [Controllers -> Command],
           mishaps' \in 0 .. MaxMishaps
    PROVE  TypeOK'
BY DEF TypeOK, UnitsTyped, RowsTyped, Rows

LEMMA MishapType ==
    ASSUME mishaps \in 0 .. MaxMishaps, NEW f, Mishap(f)
    PROVE  mishaps' \in 0 .. MaxMishaps
BY UnitAssumption DEF Mishap

\* A status other than Running comes without a lease, Lease with one.
LEMMA StatusOnly ==
    /\ \A s \in UnitStatus : Is(s) \in WorkUnit
    /\ \A s : Is(s).status = s /\ Is(s).lease = NoLease
BY LeaseAssumption DEF Is, WorkUnit, NoLease

LEMMA LeasedUnit ==
    ASSUME NEW u
    PROVE  Lease(u) \in WorkUnit /\ Lease(u).status = "Running" /\ Lease(u).lease # NoLease
BY LeaseAssumption DEF Lease, WorkUnit, NoLease, UnitStatus

LEMMA SavedUnit ==
    ASSUME UnitsTyped, NEW k \in Keys, NEW u \in WorkUnit,
           (u.status = "Running") = (u.lease # NoLease),
           unit' = [unit EXCEPT ![k] = u]
    PROVE  /\ UnitsTyped'
           /\ unit'[k] = u
           /\ \A l \in Keys : l # k => unit'[l] = unit[l]
BY DEF UnitsTyped

LEMMA WroteRows ==
    ASSUME RowsTyped, NEW a \in Actors, NEW R, NEW keep \in SUBSET Rows,
           Wrote(a, R, keep)
    PROVE  /\ RowsTyped'
           /\ fresh'[a] = keep
           /\ \A b \in Actors : b # a => fresh'[b] = fresh[b] \ R
BY DEF Wrote, RowsTyped

\* What the owner writes is no longer current for a CancelJob.
LEMMA OwnerWrites ==
    ASSUME LeaseInv, NEW R, NEW keep \in SUBSET Rows, Wrote(Owner, R, keep),
           UNCHANGED ctl,
           \A k \in Keys : k \in R \/ unit'[k].status = unit[k].status
    PROVE  ListedIsPending'
BY Parameters, TypeParts, WroteRows DEF LeaseInv, ListedIsPending

\* The owner gives up, before its run or at the end of it.
LEMMA Leaving ==
    ASSUME LeaseInv, OwnerLeaves
    PROVE  OwnerInv' /\ owner' \in OwnerState /\ token' \in BOOLEAN
<1>1. owner' = [NoOwner EXCEPT !.engine = owner.engine] /\ token' = FALSE
  BY DEF OwnerLeaves
<1>2. owner' \in OwnerState
  BY <1>1, Parameters, TypeParts DEF LeaseInv, NoOwner, OwnerState, OwnerPcs
<1>3. /\ owner'.pc = "Idle" /\ owner'.late = 0 /\ ~owner'.held
      /\ \A c \in Chunks : owner'.seen[c] = "None"
  BY <1>1 DEF NoOwner
<1>4. WorkIsLeased' /\ LateIsLast'
  BY <1>3 DEF WorkIsLeased, AtWork, LateIsLast
<1>5. BehindIsDone'
  BY <1>3 DEF BehindIsDone, InTranscript
<1>6. ListedIsLeased' /\ RetryIsAllowed' /\ RunIsRunning'
  BY <1>3 DEF ListedIsLeased, RetryIsAllowed, RunIsRunning, InRunPcs, InTranscript
<1> QED BY <1>1, <1>2, <1>4, <1>5, <1>6 DEF OwnerInv

\* The owner gives up in its run, with or without a leased unit to release.
LEMMA Failing ==
    ASSUME LeaseInv, NEW held \in BOOLEAN, Error(held), owner.pc \in InRunPcs,
           UNCHANGED job,
           TheJob \in fresh'[Owner] => TheJob \in fresh[Owner],
           held => owner.pc \in {"Work", "Commit"} /\ UNCHANGED <<unit, fresh>>
    PROVE  OwnerInv' /\ owner' \in OwnerState
<1> USE DEF LeaseInv, OwnerInv
<1>1. owner' \in OwnerState
  BY TypeParts DEF Error, OwnerState, OwnerPcs
<1>2. /\ owner'.pc = (IF held THEN "Release" ELSE "Error")
      /\ owner'.held = held /\ owner'.late = owner.late
      /\ owner'.next = owner.next /\ owner'.engine = owner.engine
  BY TypeParts DEF Error, OwnerState
<1>3. WorkIsLeased'
  BY <1>2 DEF WorkIsLeased, AtWork, Held
<1>4. RunIsRunning'
  BY DEF RunIsRunning
<1>5. LateIsLast'
  BY <1>2 DEF LateIsLast
<1>6. ListedIsLeased' /\ RetryIsAllowed' /\ BehindIsDone'
  BY <1>2 DEF ListedIsLeased, RetryIsAllowed, BehindIsDone, InRunPcs, InTranscript
<1> QED BY <1>1, <1>3, <1>4, <1>5, <1>6

\* What the others may do: they take no unit away that the owner still has.
LEMMA Bystanders ==
    ASSUME LeaseInv, UNCHANGED owner,
           CancelAsked => CancelAsked',
           fresh'[Owner] \subseteq fresh[Owner],
           TheJob \in fresh'[Owner] => job' = job,
           \A k \in Keys : unit[k].status = "Done" => unit'[k].status = "Done",
           \A k \in Keys : k \in fresh[Owner] /\ unit[k].status = "Running" =>
               k \in fresh'[Owner] /\ unit'[k].status = "Running"
    PROVE  OwnerInv'
<1> USE DEF LeaseInv, OwnerInv
<1>1. ListedIsLeased' /\ RetryIsAllowed' /\ RunIsRunning' /\ LateIsLast'
  <2>1. owner.expired \subseteq Keys
    BY TypeParts DEF OwnerState
  <2> QED BY <2>1 DEF ListedIsLeased, RetryIsAllowed, CanRetry, RunIsRunning, LateIsLast
<1>2. WorkIsLeased'
  <2>1. owner.pc \in AtWork => Held \in Keys
    BY DEF WorkIsLeased, Held, Keys
  <2> QED BY <2>1 DEF WorkIsLeased, AtWork, Held
<1>3. BehindIsDone'
  <2>1. owner.pc \in InTranscript => \A c \in Chunks : <<c, owner.engine>> \in Keys
    BY DEF BehindIsDone, Keys
  <2> QED BY <2>1 DEF BehindIsDone
<1> QED BY <1>1, <1>2, <1>3

-----------------------------------------------------------------------------
(* The steps of the owner that write no row. *)

LEMMA QuietStep ==
    ASSUME LeaseInv, UNCHANGED <<unit, result, job, fresh, token, ctl>>,
           owner' \in OwnerState, mishaps' \in 0 .. MaxMishaps, OwnerInv'
    PROVE  LeaseInv'
<1>1. TypeOK'
  BY DEF LeaseInv, TypeOK
<1>2. ListedIsPending' /\ StageHasNotBegun'
  BY DEF LeaseInv, ListedIsPending, StageHasNotBegun
<1> QED BY <1>1, <1>2 DEF LeaseInv

LEMMA TakeLockKeeps == ASSUME LeaseInv, TakeLock PROVE LeaseInv'
<1>1. owner' = [NoOwner EXCEPT !.pc = "Verify", !.retry = CanRetry(job),
                               !.engine = owner.engine]
  BY DEF TakeLock
<1>2. CanRetry(job) \in BOOLEAN
  BY DEF CanRetry
<1>3. owner' \in OwnerState
  BY <1>1, <1>2, Parameters, TypeParts DEF LeaseInv, NoOwner, OwnerState, OwnerPcs
<1>4. /\ owner'.pc = "Verify" /\ owner'.late = 0 /\ ~owner'.held
      /\ \A c \in Chunks : owner'.seen[c] = "None"
  BY <1>1 DEF NoOwner
<1>5. WorkIsLeased' /\ LateIsLast'
  BY <1>4 DEF WorkIsLeased, AtWork, LateIsLast
<1>6. BehindIsDone'
  BY <1>4 DEF BehindIsDone, InTranscript
<1>7. ListedIsLeased' /\ RetryIsAllowed' /\ RunIsRunning'
  BY <1>4 DEF ListedIsLeased, RetryIsAllowed, RunIsRunning, InRunPcs, InTranscript
<1> QED BY <1>3, <1>5, <1>6, <1>7, QuietStep, TypeParts DEF LeaseInv, OwnerInv, TakeLock

LEMMA GateKeeps == ASSUME LeaseInv, Gate PROVE LeaseInv'
<1> USE DEF LeaseInv, OwnerInv, Gate
<1>1. owner' \in OwnerState
  BY TypeParts DEF OwnerState, OwnerPcs, Gated
<1>2. WorkIsLeased' /\ BehindIsDone'
  BY TypeParts DEF WorkIsLeased, AtWork, Held, BehindIsDone, InRunPcs, InTranscript,
                   Gated, OwnerState
<1>3. RunIsRunning' /\ ListedIsLeased' /\ RetryIsAllowed'
  BY TypeParts DEF RunIsRunning, ListedIsLeased, RetryIsAllowed, InRunPcs,
                   InTranscript, Gated, OwnerState
<1>4. LateIsLast'
  BY TypeParts DEF LateIsLast, CancelSeen, CancelAsked, WorkIsLeased, AtWork, Gated,
                   OwnerState
<1> QED BY <1>1, <1>2, <1>3, <1>4, QuietStep, TypeParts

LEMMA FoundAllKeeps == ASSUME LeaseInv, FoundAll PROVE LeaseInv'
<1> USE DEF LeaseInv, OwnerInv, FoundAll
<1>1. owner' \in OwnerState
  BY Parameters, TypeParts DEF OwnerState, OwnerPcs, Gated
<1>2. WorkIsLeased' /\ RunIsRunning' /\ ListedIsLeased' /\ RetryIsAllowed' /\ LateIsLast'
  BY TypeParts DEF WorkIsLeased, AtWork, RunIsRunning, ListedIsLeased, RetryIsAllowed,
                   LateIsLast, InRunPcs, InTranscript, OwnerState
<1>3. BehindIsDone'
  BY TypeParts DEF BehindIsDone, InRunPcs, InTranscript, OwnerState, Chunks
<1> QED BY <1>1, <1>2, <1>3, QuietStep, TypeParts

LEMMA ReuseChunkKeeps == ASSUME LeaseInv, ReuseChunk PROVE LeaseInv'
<1> USE DEF LeaseInv, OwnerInv, ReuseChunk, AtChunk, Advance
<1>1. owner.next \in Chunks /\ owner.next + 1 \in 1 .. ChunkCount + 1
  BY UnitAssumption, TypeParts DEF OwnerState, Chunks
<1>2. owner' \in OwnerState
  BY <1>1, TypeParts DEF OwnerState, OwnerPcs, Gated
<1>3. WorkIsLeased' /\ RunIsRunning' /\ ListedIsLeased' /\ RetryIsAllowed' /\ LateIsLast'
  BY TypeParts DEF WorkIsLeased, AtWork, RunIsRunning, ListedIsLeased, RetryIsAllowed,
                   LateIsLast, InRunPcs, InTranscript, OwnerState
<1>4. BehindIsDone'
  <2>1. /\ owner'.pc = "Check" /\ owner'.next = owner.next + 1
        /\ owner'.engine = owner.engine /\ owner'.seen = owner.seen
    BY TypeParts DEF OwnerState
  <2>2. owner.seen[owner.next] = "Done"
    BY DEF Seen, ReusableUnit
  <2>3. \A c \in Chunks : c < owner.next + 1 => c < owner.next \/ c = owner.next
    BY <1>1 DEF Chunks
  <2> QED BY <1>1, <2>1, <2>2, <2>3 DEF BehindIsDone, InRunPcs, InTranscript
<1> QED BY <1>2, <1>3, <1>4, QuietStep, TypeParts

LEMMA RefuseChunkKeeps == ASSUME LeaseInv, RefuseChunk PROVE LeaseInv'
<1>1. OwnerInv' /\ owner' \in OwnerState
  BY Failing DEF RefuseChunk, AtChunk, InRunPcs, InTranscript
<1> QED BY <1>1, QuietStep, TypeParts DEF RefuseChunk, LeaseInv

LEMMA WorkOnChunkKeeps == ASSUME LeaseInv, WorkOnChunk PROVE LeaseInv'
<1> USE DEF LeaseInv, OwnerInv
<1>1. UNCHANGED mishaps \/ Mishap("Work") => mishaps' \in 0 .. MaxMishaps
  BY MishapType, TypeParts
<1>2. CASE OwnerGoes("Commit") /\ UNCHANGED mishaps
  <2>1. owner' \in OwnerState
    BY <1>2, TypeParts DEF OwnerGoes, OwnerState, OwnerPcs, Gated
  <2>2. /\ owner'.pc = "Commit" /\ owner'.next = owner.next /\ owner'.held = owner.held
        /\ owner'.engine = owner.engine /\ owner'.seen = owner.seen
        /\ owner'.late = owner.late
    BY <1>2, TypeParts DEF OwnerGoes, OwnerState
  <2>3. OwnerInv'
    BY <2>2 DEF WorkOnChunk, WorkIsLeased, AtWork, Held, BehindIsDone, InRunPcs,
                InTranscript, RunIsRunning, ListedIsLeased, RetryIsAllowed, LateIsLast
  <2> QED BY <1>1, <1>2, <2>1, <2>3, QuietStep DEF WorkOnChunk
<1>3. CASE Error(TRUE) /\ Mishap("Work")
  <2>1. OwnerInv' /\ owner' \in OwnerState
    BY <1>3, Failing DEF WorkOnChunk, InRunPcs, InTranscript
  <2> QED BY <1>1, <1>3, <2>1, QuietStep DEF WorkOnChunk
<1> QED BY <1>2, <1>3 DEF WorkOnChunk

LEMMA NextChunkKeeps == ASSUME LeaseInv, NextChunk PROVE LeaseInv'
<1> USE DEF LeaseInv, OwnerInv, NextChunk
<1>1. owner.next \in Chunks /\ owner.next + 1 \in 1 .. ChunkCount + 1
  BY UnitAssumption DEF WorkIsLeased, AtWork, Chunks
<1>2. owner' \in OwnerState
  BY <1>1, TypeParts DEF OwnerState, OwnerPcs, Gated
<1>3. /\ owner'.pc = "Check" /\ owner'.next = owner.next + 1 /\ ~owner'.held
      /\ owner'.engine = owner.engine /\ owner'.seen = owner.seen
      /\ owner'.late = owner.late
  BY TypeParts DEF OwnerState
<1>4. WorkIsLeased' /\ RunIsRunning' /\ ListedIsLeased' /\ RetryIsAllowed' /\ LateIsLast'
  BY <1>3 DEF WorkIsLeased, AtWork, RunIsRunning, ListedIsLeased, RetryIsAllowed,
              LateIsLast, InRunPcs, InTranscript
<1>5. BehindIsDone'
  <2>1. unit[<<owner.next, owner.engine>>].status = "Done"
    BY DEF WorkIsLeased, Held
  <2>2. \A c \in Chunks : c < owner.next + 1 => c < owner.next \/ c = owner.next
    BY <1>1 DEF Chunks
  <2> QED BY <1>1, <1>3, <2>1, <2>2 DEF BehindIsDone, InRunPcs, InTranscript
<1> QED BY <1>2, <1>4, <1>5, QuietStep, TypeParts

LEMMA StitchKeeps == ASSUME LeaseInv, Stitch PROVE LeaseInv'
<1> USE DEF LeaseInv, OwnerInv, Stitch, OwnerGoes
<1>1. owner' \in OwnerState
  BY TypeParts DEF OwnerState, OwnerPcs, Gated
<1>2. /\ owner'.pc = "Stitch" /\ owner'.next = owner.next /\ owner'.held = owner.held
      /\ owner'.engine = owner.engine /\ owner'.seen = owner.seen
      /\ owner'.late = owner.late
  BY TypeParts DEF OwnerState
<1>3. owner.next = ChunkCount + 1
  BY UnitAssumption, TypeParts DEF OwnerState
<1>4. WorkIsLeased' /\ RunIsRunning' /\ ListedIsLeased' /\ RetryIsAllowed' /\ LateIsLast'
  BY <1>2 DEF WorkIsLeased, AtWork, RunIsRunning, ListedIsLeased, RetryIsAllowed,
              LateIsLast, InRunPcs, InTranscript
<1>5. BehindIsDone'
  BY <1>2, <1>3 DEF BehindIsDone, InRunPcs, InTranscript
<1> QED BY <1>1, <1>4, <1>5, QuietStep, TypeParts

-----------------------------------------------------------------------------
(* The recovery and the retry. *)

LEMMA VerifyChunksKeeps == ASSUME LeaseInv, VerifyChunks PROVE LeaseInv'
<1> USE DEF LeaseInv, OwnerInv
<1> DEFINE broken == {k \in WithStatus("Done") : result[k[1]] # k[2]}
<1>1. /\ unit' = [k \in Keys |-> IF k \in broken THEN Invalidate(unit[k]) ELSE unit[k]]
      /\ Wrote(Owner, broken, {}) /\ OwnerGoes("List")
      /\ UNCHANGED <<result, job, token, ctl, mishaps>> /\ owner.pc = "Verify"
  BY DEF VerifyChunks
<1>2. UnitsTyped'
  BY <1>1, StatusOnly, TypeParts DEF UnitsTyped, Invalidate, NewUnit, UnitStatus
<1>3. RowsTyped' /\ ListedIsPending'
  BY <1>1, WroteRows, OwnerWrites, Parameters, TypeParts
<1>4. owner' \in OwnerState
  BY <1>1, TypeParts DEF OwnerGoes, OwnerState, OwnerPcs
<1>5. /\ owner'.pc = "List" /\ owner'.held = owner.held
      /\ owner'.seen = owner.seen /\ owner'.late = owner.late
  BY <1>1, TypeParts DEF OwnerGoes, OwnerState
<1>6. OwnerInv'
  BY <1>1, <1>5 DEF WorkIsLeased, AtWork, BehindIsDone, InRunPcs, InTranscript,
                    RunIsRunning, ListedIsLeased, RetryIsAllowed, LateIsLast
<1> QED BY <1>1, <1>2, <1>3, <1>4, <1>6, TypeParts, TypeAssembled DEF StageHasNotBegun

LEMMA ListExpiredKeeps == ASSUME LeaseInv, ListExpired PROVE LeaseInv'
<1> USE DEF LeaseInv, OwnerInv
<1> DEFINE expired == {k \in Keys : CanRecoverExpired(unit[k])}
<1>1. /\ owner' = [owner EXCEPT !.pc = "Expire", !.expired = expired]
      /\ Wrote(Owner, {}, expired)
      /\ UNCHANGED <<unit, result, job, token, ctl, mishaps>> /\ owner.pc = "List"
  BY DEF ListExpired, Keep
<1>2. RowsTyped' /\ ListedIsPending'
  BY <1>1, WroteRows, OwnerWrites, Parameters, TypeParts DEF Rows
<1>3. owner' \in OwnerState
  BY <1>1, TypeParts DEF OwnerState, OwnerPcs
<1>4. /\ owner'.pc = "Expire" /\ owner'.held = owner.held /\ owner'.expired = expired
      /\ owner'.seen = owner.seen /\ owner'.late = owner.late
  BY <1>1, TypeParts DEF OwnerState
<1>5. ListedIsLeased'
  BY <1>1, <1>4 DEF ListedIsLeased, CanRecoverExpired
<1>6. WorkIsLeased' /\ BehindIsDone' /\ RunIsRunning' /\ RetryIsAllowed' /\ LateIsLast'
  BY <1>1, <1>4 DEF WorkIsLeased, AtWork, BehindIsDone, InRunPcs, InTranscript,
                    RunIsRunning, RetryIsAllowed, LateIsLast
<1> QED BY <1>1, <1>2, <1>3, <1>5, <1>6, TypeParts, TypeAssembled DEF UnitsTyped, StageHasNotBegun

LEMMA RecoverUnitKeeps == ASSUME LeaseInv, RecoverUnit PROVE LeaseInv'
<1> USE DEF LeaseInv, OwnerInv
<1>1. /\ owner.pc = "Expire" /\ UNCHANGED <<result, job, ctl, mishaps>>
      /\ owner.expired \subseteq Keys
  BY TypeParts DEF RecoverUnit, OwnerState
<1>2. CASE OwnerLeaves /\ Keep(Owner, {}) /\ UNCHANGED unit
  <2>1. RowsTyped' /\ ListedIsPending'
    BY <1>1, <1>2, WroteRows, OwnerWrites, Parameters, TypeParts DEF Keep
  <2> QED BY <1>1, <1>2, <2>1, Leaving, TypeParts, TypeAssembled DEF UnitsTyped, StageHasNotBegun
<1>3. ASSUME NEW k \in owner.expired,
             k \in fresh[Owner],
             SaveUnit(Owner, k, RecoverExpired(unit[k]), fresh[Owner] \ {k}),
             owner' = [owner EXCEPT !.expired = @ \ {k}],
             UNCHANGED token
      PROVE  LeaseInv'
  <2>1. fresh[Owner] \ {k} \in SUBSET Rows
    BY Parameters, TypeParts DEF RowsTyped
  <2>2. /\ UnitsTyped' /\ unit'[k] = NewUnit
        /\ \A l \in Keys : l # k => unit'[l] = unit[l]
    <3>1. /\ NewUnit \in WorkUnit /\ NewUnit.status = "Pending"
          /\ NewUnit.lease = NoLease
      BY StatusOnly DEF NewUnit, UnitStatus
    <3>2. unit' = [unit EXCEPT ![k] = NewUnit]
      BY <1>3 DEF SaveUnit, RecoverExpired
    <3> QED BY <1>1, <3>1, <3>2, SavedUnit, TypeParts
  <2>3. RowsTyped' /\ ListedIsPending' /\ fresh'[Owner] = fresh[Owner] \ {k}
    BY <1>1, <1>3, <2>1, <2>2, WroteRows, OwnerWrites, Parameters, TypeParts
       DEF SaveUnit
  <2>4. owner' \in OwnerState
    BY <1>3, TypeParts DEF OwnerState
  <2>5. /\ owner'.pc = owner.pc /\ owner'.held = owner.held
        /\ owner'.expired = owner.expired \ {k}
        /\ owner'.seen = owner.seen /\ owner'.late = owner.late
    BY <1>3, TypeParts DEF OwnerState
  <2>6. ListedIsLeased'
    BY <1>1, <2>2, <2>3, <2>5 DEF ListedIsLeased
  <2>7. WorkIsLeased' /\ BehindIsDone' /\ RunIsRunning' /\ RetryIsAllowed' /\ LateIsLast'
    BY <1>1, <2>5 DEF WorkIsLeased, AtWork, BehindIsDone, InRunPcs, InTranscript,
                      RunIsRunning, RetryIsAllowed, LateIsLast
  <2> QED BY <1>1, <1>3, <2>2, <2>3, <2>4, <2>6, <2>7, TypeParts, TypeAssembled DEF StageHasNotBegun
<1> QED BY <1>2, <1>3 DEF RecoverUnit, FirstRow, Holds

LEMMA RequeueKeeps == ASSUME LeaseInv, Requeue PROVE LeaseInv'
<1> USE DEF LeaseInv, OwnerInv
<1>1. /\ owner.pc = "Expire" /\ OwnerGoes("Recovered")
      /\ UNCHANGED <<unit, result, token, ctl, mishaps>>
      /\ \/ job.status = "Running" /\ job' = Recover(job) /\ Wrote(Owner, {TheJob}, {})
         \/ job' = job /\ Wrote(Owner, {}, {})
  BY DEF Requeue, SaveJob, Keep
<1>2. RowsTyped' /\ ListedIsPending'
  BY <1>1, WroteRows, OwnerWrites, Parameters, TypeParts
<1>3. JobOK(job') /\ StageHasNotBegun'
  <2>1. JobOK(job')
    BY <1>1, RecoverOK, TypeParts
  <2>2. Recover(job).stage[1] = job.stage[1] \/ Recover(job).stage[1] = "Pending"
    BY Parameters DEF Recover, RequeueRunning, JobOK, Job
  <2> QED BY <1>1, <2>1, <2>2 DEF StageHasNotBegun
<1>4. owner' \in OwnerState
  BY <1>1, TypeParts DEF OwnerGoes, OwnerState, OwnerPcs
<1>5. /\ owner'.pc = "Recovered" /\ owner'.held = owner.held
      /\ owner'.seen = owner.seen /\ owner'.late = owner.late
  BY <1>1, TypeParts DEF OwnerGoes, OwnerState
<1>6. OwnerInv'
  BY <1>1, <1>5 DEF WorkIsLeased, AtWork, BehindIsDone, InRunPcs, InTranscript,
                    RunIsRunning, ListedIsLeased, RetryIsAllowed, LateIsLast
<1> QED BY <1>1, <1>2, <1>3, <1>4, <1>6, TypeParts, TypeAssembled DEF UnitsTyped

LEMMA LoadForRetryKeeps == ASSUME LeaseInv, LoadForRetry PROVE LeaseInv'
<1> USE DEF LeaseInv, OwnerInv
<1>1. owner.pc = "Recovered" /\ UNCHANGED <<unit, result, job, ctl, mishaps>>
  BY DEF LoadForRetry
<1>2. CASE OwnerLeaves /\ Keep(Owner, {})
  <2>1. RowsTyped' /\ ListedIsPending'
    BY <1>1, <1>2, WroteRows, OwnerWrites, Parameters, TypeParts DEF Keep
  <2> QED BY <1>1, <1>2, <2>1, Leaving, TypeParts, TypeAssembled DEF UnitsTyped, StageHasNotBegun
<1>3. CASE /\ CanRetry(job) /\ OwnerGoes("Retry") /\ UNCHANGED token
           /\ Keep(Owner, Existing \union {TheJob})
  <2>1. Existing \union {TheJob} \in SUBSET Rows
    BY DEF Existing, Rows
  <2>2. RowsTyped' /\ ListedIsPending'
    BY <1>1, <1>3, <2>1, WroteRows, OwnerWrites, Parameters, TypeParts DEF Keep
  <2>3. owner' \in OwnerState
    BY <1>3, TypeParts DEF OwnerGoes, OwnerState, OwnerPcs
  <2>4. /\ owner'.pc = "Retry" /\ owner'.held = owner.held
        /\ owner'.seen = owner.seen /\ owner'.late = owner.late
    BY <1>3, TypeParts DEF OwnerGoes, OwnerState
  <2>5. RetryIsAllowed'
    BY <1>1, <1>3 DEF RetryIsAllowed, CanRetry
  <2>6. WorkIsLeased' /\ BehindIsDone' /\ RunIsRunning' /\ ListedIsLeased' /\ LateIsLast'
    BY <1>1, <2>4 DEF WorkIsLeased, AtWork, BehindIsDone, InRunPcs, InTranscript,
                      RunIsRunning, ListedIsLeased, LateIsLast
  <2> QED BY <1>1, <1>3, <2>2, <2>3, <2>5, <2>6, TypeParts, TypeAssembled
             DEF UnitsTyped, StageHasNotBegun
<1> QED BY <1>2, <1>3 DEF LoadForRetry

LEMMA RetryTransactionKeeps == ASSUME LeaseInv, RetryTransaction PROVE LeaseInv'
<1> USE DEF LeaseInv, OwnerInv
<1>1. owner.pc = "Retry" /\ UNCHANGED <<result, ctl, mishaps>>
  BY DEF RetryTransaction
<1>2. CASE OwnerLeaves /\ Keep(Owner, {}) /\ UNCHANGED <<unit, job>>
  <2>1. RowsTyped' /\ ListedIsPending'
    BY <1>1, <1>2, WroteRows, OwnerWrites, Parameters, TypeParts DEF Keep
  <2> QED BY <1>1, <1>2, <2>1, Leaving, TypeParts, TypeAssembled DEF UnitsTyped, StageHasNotBegun
<1>3. CASE /\ unit' = [k \in Keys |-> Reset(unit[k])]
           /\ job' = Retry(job, 1)
           /\ Wrote(Owner, Existing \union {TheJob}, {})
           /\ owner' = [owner EXCEPT !.pc = "Recovered", !.retry = FALSE]
           /\ UNCHANGED token
  <2>1. UnitsTyped'
    BY <1>3, StatusOnly, TypeParts
       DEF UnitsTyped, Reset, RetryUnit, Invalidate, NewUnit, UnitStatus, CanRetryUnit
  <2>2. \A k \in Keys : k \in Existing \/ unit'[k].status = unit[k].status
    BY <1>3, StatusOnly DEF Existing, Reset, CanRetryUnit
  <2>3. RowsTyped' /\ ListedIsPending'
    BY <1>1, <1>3, <2>2, WroteRows, OwnerWrites, Parameters, TypeParts
  <2>4. JobOK(job') /\ StageHasNotBegun'
    <3>1. JobOK(job')
      BY <1>3, RetryOK, Parameters, TypeParts
    <3>2. Retry(job, 1).stage[1] = "Pending"
      BY Parameters DEF Retry, ResetFrom, Stages
    <3> QED BY <1>3, <3>1, <3>2 DEF StageHasNotBegun
  <2>5. owner' \in OwnerState
    BY <1>3, TypeParts DEF OwnerState, OwnerPcs
  <2>6. /\ owner'.pc = "Recovered" /\ owner'.held = owner.held
        /\ owner'.seen = owner.seen /\ owner'.late = owner.late
    BY <1>3, TypeParts DEF OwnerState
  <2>7. OwnerInv'
    BY <1>1, <2>6 DEF WorkIsLeased, AtWork, BehindIsDone, InRunPcs, InTranscript,
                      RunIsRunning, ListedIsLeased, RetryIsAllowed, LateIsLast
  <2> QED BY <1>1, <1>3, <2>1, <2>3, <2>4, <2>5, <2>7, TypeParts, TypeAssembled
<1> QED BY <1>2, <1>3 DEF RetryTransaction

LEMMA BeginKeeps == ASSUME LeaseInv, Begin PROVE LeaseInv'
<1> USE DEF LeaseInv, OwnerInv
<1>1. owner.pc = "Recovered" /\ UNCHANGED <<unit, result, ctl, mishaps>>
  BY DEF Begin
<1>2. CASE OwnerLeaves /\ Keep(Owner, {}) /\ UNCHANGED job
  <2>1. RowsTyped' /\ ListedIsPending'
    BY <1>1, <1>2, WroteRows, OwnerWrites, Parameters, TypeParts DEF Keep
  <2> QED BY <1>1, <1>2, <2>1, Leaving, TypeParts, TypeAssembled DEF UnitsTyped, StageHasNotBegun
<1>3. CASE job.status = "Pending" /\ OwnerLeaves /\ SaveJob(Owner, Cancel(job), {})
  <2>1. RowsTyped' /\ ListedIsPending'
    BY <1>1, <1>3, WroteRows, OwnerWrites, Parameters, TypeParts DEF SaveJob
  <2>2. JobOK(job') /\ StageHasNotBegun'
    BY <1>3, CancelOK, TypeParts DEF SaveJob, Cancel, CanCancel, IsTerminal, JobTerminal,
                                     StageHasNotBegun, JobOK, Job
  <2> QED BY <1>1, <1>3, <2>1, <2>2, Leaving, TypeParts, TypeAssembled DEF UnitsTyped
<1>4. ASSUME job.status = "Pending", ~job.cancel_requested,
             SaveJob(Owner, Start(job), {TheJob}), NEW e \in Engines,
             owner' = [owner EXCEPT !.pc = "Find", !.engine = e, !.next = 1],
             UNCHANGED token
      PROVE  LeaseInv'
  <2>1. RowsTyped' /\ ListedIsPending'
    BY <1>1, <1>4, WroteRows, OwnerWrites, Parameters, TypeParts DEF SaveJob, Rows
  <2>2. JobOK(job') /\ StageHasNotBegun' /\ job'.status = "Running"
    BY <1>4, StartOK, TypeParts DEF SaveJob, Start, CanStart, StageHasNotBegun, JobOK, Job
  <2>3. owner' \in OwnerState
    BY <1>4, Parameters, TypeParts DEF OwnerState, OwnerPcs, Gated
  <2>4. /\ owner'.pc = "Find" /\ owner'.held = owner.held /\ owner'.engine = e
        /\ owner'.seen = owner.seen /\ owner'.late = owner.late
    BY <1>4, TypeParts DEF OwnerState
  <2>5. WorkIsLeased' /\ RunIsRunning' /\ ListedIsLeased' /\ RetryIsAllowed' /\ LateIsLast'
    BY <1>1, <2>2, <2>4 DEF WorkIsLeased, AtWork, RunIsRunning, ListedIsLeased,
                            RetryIsAllowed, LateIsLast
  <2>6. BehindIsDone'
    BY <1>1, <2>4 DEF BehindIsDone, InRunPcs, InTranscript
  <2> QED BY <1>1, <1>4, <2>1, <2>2, <2>3, <2>5, <2>6, TypeParts, TypeAssembled DEF UnitsTyped
<1> QED BY <1>2, <1>3, <1>4 DEF Begin

-----------------------------------------------------------------------------
(* The steps of the owner at its chunks. *)

LEMMA FindUnitKeeps == ASSUME LeaseInv, FindUnit PROVE LeaseInv'
<1> USE DEF LeaseInv, OwnerInv
<1> DEFINE known == Held \in Existing
<1>1. /\ owner.pc = "Find" /\ owner.next \in Chunks /\ owner.engine \in Engines
      /\ owner.next + 1 \in 1 .. ChunkCount + 1 /\ Held \in Keys
      /\ UNCHANGED <<result, job, token, ctl, mishaps>>
  BY UnitAssumption, TypeParts
     DEF FindUnit, OwnerState, Chunks, BehindIsDone, InTranscript, Held, Keys
<1>2. /\ UnitsTyped' /\ RowsTyped' /\ ListedIsPending'
      /\ fresh'[Owner] = fresh[Owner]
      /\ \A k \in Keys : unit[k].status = "Done" => unit'[k].status = "Done"
  <2>1. CASE known /\ UNCHANGED <<unit, fresh>>
    BY <1>1, <2>1, TypeParts DEF UnitsTyped, RowsTyped, ListedIsPending
  <2>2. CASE ~known /\ SaveUnit(Owner, Held, NewUnit, fresh[Owner])
    <3>1. /\ NewUnit \in WorkUnit /\ NewUnit.status = "Pending"
          /\ NewUnit.lease = NoLease
      BY StatusOnly DEF NewUnit, UnitStatus
    <3>2. /\ UnitsTyped' /\ unit'[Held] = NewUnit
          /\ \A l \in Keys : l # Held => unit'[l] = unit[l]
      BY <1>1, <2>2, <3>1, SavedUnit, TypeParts DEF SaveUnit
    <3>3. unit[Held].status = "None"
      BY <1>1, <2>2 DEF Existing
    <3>4. fresh[Owner] \in SUBSET Rows
      BY Parameters, TypeParts DEF RowsTyped
    <3> QED BY <1>1, <2>2, <3>2, <3>3, <3>4, WroteRows, OwnerWrites, Parameters, TypeParts
               DEF SaveUnit
  <2> QED BY <2>1, <2>2 DEF FindUnit
<1> DEFINE s == IF known THEN unit[Held].status ELSE "Pending"
<1>3. /\ owner' = [owner EXCEPT !.passed = FALSE, !.next = @ + 1,
                                !.seen[owner.next] = s]
      /\ s \in UnitStatus \union {"None"}
      /\ s = "Done" => unit[Held].status = "Done"
  <2>1. unit[Held].status \in UnitStatus \union {"None"}
    BY <1>1, TypeParts DEF UnitsTyped, WorkUnit, NoUnit, Is
  <2> QED BY <2>1 DEF FindUnit, UnitStatus
<1> HIDE DEF s
<1>4. owner' \in OwnerState
  BY <1>1, <1>3, TypeParts DEF OwnerState
<1>5. /\ owner'.pc = "Find" /\ owner'.held = owner.held /\ owner'.late = owner.late
      /\ owner'.engine = owner.engine
      /\ owner'.seen = [owner.seen EXCEPT ![owner.next] = s]
  BY <1>1, <1>3, TypeParts DEF OwnerState
<1>6. WorkIsLeased' /\ RunIsRunning' /\ ListedIsLeased' /\ RetryIsAllowed' /\ LateIsLast'
  BY <1>1, <1>2, <1>5 DEF WorkIsLeased, AtWork, RunIsRunning, ListedIsLeased,
       RetryIsAllowed, LateIsLast, InRunPcs, InTranscript
<1>7. BehindIsDone'
  <2>1. \A c \in Chunks : owner'.seen[c] = "Done" =>
            unit[<<c, owner.engine>>].status = "Done"
    BY <1>1, <1>3, <1>5, TypeParts DEF BehindIsDone, InTranscript, Held, OwnerState
  <2>2. \A c \in Chunks : <<c, owner.engine>> \in Keys
    BY <1>1 DEF Keys
  <2> QED BY <1>1, <1>2, <1>5, <2>1, <2>2 DEF BehindIsDone, InRunPcs, InTranscript
<1> QED BY <1>1, <1>2, <1>4, <1>6, <1>7, TypeParts, TypeAssembled DEF StageHasNotBegun

LEMMA LeaseUnitKeeps == ASSUME LeaseInv, LeaseUnit PROVE LeaseInv'
<1> USE DEF LeaseInv, OwnerInv
<1>1. /\ owner.pc = "Check" /\ owner.next \in Chunks /\ owner.engine \in Engines
      /\ UNCHANGED <<result, job, token, ctl, mishaps>>
  BY UnitAssumption, TypeParts
     DEF LeaseUnit, AtChunk, OwnerState, Chunks, BehindIsDone, InTranscript
<1>2. CASE Error(FALSE) /\ UNCHANGED <<unit, fresh>>
  <2>1. OwnerInv' /\ owner' \in OwnerState
    BY <1>1, <1>2, Failing DEF InRunPcs, InTranscript
  <2> QED BY <1>1, <1>2, <2>1, QuietStep, TypeParts
<1>3. ASSUME NEW k \in Keys, CanLease(unit[k]),
             SaveUnit(Owner, k, Lease(unit[k]), fresh[Owner] \union {k}),
             \/ k = Held /\ owner' = [owner EXCEPT !.pc = "Work", !.passed = FALSE,
                                                   !.held = TRUE]
             \/ Error(FALSE)
      PROVE  LeaseInv'
  <2>1. fresh[Owner] \union {k} \in SUBSET Rows
    BY Parameters, TypeParts DEF RowsTyped, Rows
  <2>2. /\ UnitsTyped' /\ unit'[k].status = "Running"
        /\ \A l \in Keys : l # k => unit'[l] = unit[l]
    BY <1>3, SavedUnit, LeasedUnit, TypeParts DEF SaveUnit
  <2>3. RowsTyped' /\ ListedIsPending' /\ fresh'[Owner] = fresh[Owner] \union {k}
    BY <1>1, <1>3, <2>1, <2>2, WroteRows, OwnerWrites, Parameters, TypeParts
       DEF SaveUnit
  <2>4. \A l \in Keys : unit[l].status = "Done" => unit'[l].status = "Done"
    BY <1>3, <2>2 DEF CanLease
  <2>5. OwnerInv' /\ owner' \in OwnerState
    <3>1. CASE Error(FALSE)
      BY <1>1, <2>3, <3>1, Failing, Parameters DEF InRunPcs, InTranscript
    <3>2. CASE k = Held /\ owner' = [owner EXCEPT !.pc = "Work", !.passed = FALSE,
                                                  !.held = TRUE]
      <4>1. owner' \in OwnerState
        BY <3>2, TypeParts DEF OwnerState, OwnerPcs
      <4>2. /\ owner'.pc = "Work" /\ owner'.held /\ owner'.late = owner.late
            /\ owner'.engine = owner.engine /\ owner'.next = owner.next
            /\ owner'.seen = owner.seen
        BY <3>2, TypeParts DEF OwnerState
      <4>3. WorkIsLeased'
        BY <1>1, <2>2, <2>3, <3>2, <4>2 DEF WorkIsLeased, AtWork, Held
      <4>4. RunIsRunning' /\ ListedIsLeased' /\ RetryIsAllowed' /\ LateIsLast'
        BY <1>1, <1>3, <2>3, <4>2, Parameters DEF RunIsRunning, ListedIsLeased,
             RetryIsAllowed, LateIsLast, InRunPcs, InTranscript
      <4>5. BehindIsDone'
        <5>1. \A c \in Chunks : <<c, owner.engine>> \in Keys
          BY <1>1 DEF Keys
        <5> QED BY <1>1, <2>4, <4>2, <5>1 DEF BehindIsDone, InRunPcs, InTranscript
      <4> QED BY <4>1, <4>3, <4>4, <4>5
    <3> QED BY <1>3, <3>1, <3>2
  <2> QED BY <1>1, <2>2, <2>3, <2>5, TypeParts, TypeAssembled DEF StageHasNotBegun
<1> QED BY <1>2, <1>3 DEF LeaseUnit, FirstRow

LEMMA CommitUnitKeeps == ASSUME LeaseInv, CommitUnit PROVE LeaseInv'
<1> USE DEF LeaseInv, OwnerInv
<1>1. /\ owner.pc = "Commit" /\ owner.next \in Chunks /\ owner.engine \in Engines
      /\ Held \in Keys /\ Held \in fresh[Owner]
      /\ UNCHANGED <<job, token, ctl>>
  BY DEF CommitUnit, WorkIsLeased, AtWork, Held, Keys
<1>2. CASE /\ Error(TRUE) /\ UNCHANGED <<unit, fresh, result>>
           /\ UNCHANGED mishaps \/ Mishap("Commit")
  <2>1. OwnerInv' /\ owner' \in OwnerState
    BY <1>1, <1>2, Failing DEF InRunPcs, InTranscript
  <2> QED BY <1>1, <1>2, <2>1, QuietStep, MishapType, TypeParts
<1>3. CASE /\ SaveUnit(Owner, Held, Complete(unit[Held]), fresh[Owner])
           /\ result' = [result EXCEPT ![owner.next] = owner.engine]
           /\ owner' = [owner EXCEPT !.pc = "Committed", !.passed = FALSE,
                                     !.late = @ + IF CancelAsked THEN 1 ELSE 0]
           /\ UNCHANGED mishaps
  <2>1. fresh[Owner] \in SUBSET Rows
    BY Parameters, TypeParts DEF RowsTyped
  <2>2. /\ UnitsTyped' /\ unit'[Held].status = "Done"
        /\ \A l \in Keys : l # Held => unit'[l] = unit[l]
    <3>1. /\ Is("Done") \in WorkUnit /\ Is("Done").status = "Done"
          /\ Is("Done").lease = NoLease
      BY StatusOnly DEF UnitStatus, UnitTerminal
    <3> QED BY <1>1, <1>3, <3>1, SavedUnit, TypeParts DEF SaveUnit, Complete
  <2>3. RowsTyped' /\ ListedIsPending' /\ fresh'[Owner] = fresh[Owner]
    BY <1>1, <1>3, <2>1, <2>2, WroteRows, OwnerWrites, Parameters, TypeParts
       DEF SaveUnit
  <2>4. result' \in [Chunks -> Engines \union {0}]
    BY <1>1, <1>3, TypeParts
  <2>5. owner.late = 0
    BY <1>1 DEF LateIsLast
  <2>6. PICK late \in 0 .. 1 : /\ late = 1 => CancelAsked
                               /\ owner' = [owner EXCEPT !.pc = "Committed",
                                                 !.passed = FALSE, !.late = late]
    <3>1. CASE CancelAsked
      BY <1>3, <2>5, <3>1
    <3>2. CASE ~CancelAsked
      BY <1>3, <2>5, <3>2
    <3> QED BY <3>1, <3>2
  <2>7. owner' \in OwnerState
    <3>1. late \in Nat /\ "Committed" \in OwnerPcs
      BY DEF OwnerPcs, Gated
    <3> QED BY <2>6, <3>1, TypeParts DEF OwnerState
  <2>8. /\ owner'.pc = "Committed" /\ owner'.held = owner.held /\ owner'.late = late
        /\ owner'.engine = owner.engine /\ owner'.next = owner.next
        /\ owner'.seen = owner.seen /\ ~owner'.passed
    BY <2>6, TypeParts DEF OwnerState
  <2>9. WorkIsLeased'
    BY <1>1, <2>2, <2>8 DEF WorkIsLeased, AtWork, Held
  <2>10. RunIsRunning' /\ ListedIsLeased' /\ RetryIsAllowed'
    BY <1>1, <2>3, <2>8 DEF RunIsRunning, ListedIsLeased, RetryIsAllowed, InRunPcs,
                            InTranscript
  <2>11. LateIsLast'
    BY <1>1, <2>6, <2>8 DEF LateIsLast, CancelAsked
  <2>12. BehindIsDone'
    <3>1. \A c \in Chunks : <<c, owner.engine>> \in Keys
      BY <1>1 DEF Keys
    <3> QED BY <1>1, <2>2, <2>8, <3>1 DEF BehindIsDone, InRunPcs, InTranscript
  <2> QED BY <1>1, <1>3, <2>2, <2>3, <2>4, <2>7, <2>9, <2>10, <2>11, <2>12,
             TypeParts, TypeAssembled DEF StageHasNotBegun
<1> QED BY <1>2, <1>3 DEF CommitUnit

LEMMA ReleaseUnitKeeps == ASSUME LeaseInv, ReleaseUnit PROVE LeaseInv'
<1> USE DEF LeaseInv, OwnerInv
<1>1. /\ owner.pc = "Release" /\ Held \in Keys
      /\ owner' = [owner EXCEPT !.pc = "Error", !.held = FALSE]
      /\ UNCHANGED <<result, job, token, ctl, mishaps>>
  BY DEF ReleaseUnit, WorkIsLeased, AtWork, Held, Keys
<1>2. UnitsTyped' /\ RowsTyped' /\ ListedIsPending' /\ fresh'[Owner] = fresh[Owner]
  <2>1. CASE UNCHANGED <<unit, fresh>>
    BY <1>1, <2>1, TypeParts DEF UnitsTyped, RowsTyped, ListedIsPending
  <2>2. ASSUME NEW u \in {Is("Cancelled"), Is("Failed")},
               SaveUnit(Owner, Held, u, fresh[Owner])
        PROVE  UnitsTyped' /\ RowsTyped' /\ ListedIsPending'
               /\ fresh'[Owner] = fresh[Owner]
    <3>1. u \in WorkUnit /\ u.lease = NoLease /\ u.status # "Running"
      BY StatusOnly DEF UnitStatus, UnitTerminal
    <3>2. UnitsTyped' /\ \A l \in Keys : l # Held => unit'[l] = unit[l]
      BY <1>1, <2>2, <3>1, SavedUnit, TypeParts DEF SaveUnit
    <3>3. fresh[Owner] \in SUBSET Rows
      BY Parameters, TypeParts DEF RowsTyped
    <3> QED BY <1>1, <2>2, <3>2, <3>3, WroteRows, OwnerWrites, Parameters, TypeParts
               DEF SaveUnit
  <2> QED BY <2>1, <2>2 DEF ReleaseUnit, CancelUnit, FailUnit
<1>3. owner' \in OwnerState
  BY <1>1, TypeParts DEF OwnerState, OwnerPcs
<1>4. /\ owner'.pc = "Error" /\ ~owner'.held /\ owner'.late = owner.late
  BY <1>1, TypeParts DEF OwnerState
<1>5. OwnerInv'
  BY <1>1, <1>2, <1>4 DEF WorkIsLeased, AtWork, BehindIsDone, InRunPcs, InTranscript,
       RunIsRunning, ListedIsLeased, RetryIsAllowed, LateIsLast
<1> QED BY <1>1, <1>2, <1>3, <1>5, TypeParts, TypeAssembled DEF StageHasNotBegun

\* Finish of a Job whose only stage has not begun in the row.
LEMMA DoneJob ==
    ASSUME JobOK(job), job.status = "Running", job.stage[1] = "Pending"
    PROVE  JobOK(Done(job)) /\ IsTerminal(Done(job))
<1> DEFINE a == CHOOSE x \in Artifacts : TRUE
           s == StartStage(job, 1)
           c == CompleteStage(s, 1, a, FALSE)
<1>1. JobOK(s) /\ s.stage[1] = "Running" /\ s.status = "Running"
  BY StartStageOK, Parameters DEF CanEnterStage, PrerequisiteMet, StartStage, JobOK, Job
<1>2. a \in Artifacts
  BY UnitAssumption
<1> HIDE DEF a, s
<1>3. JobOK(c) /\ c.stage[1] = "Done" /\ c.status = "Running"
  BY <1>1, <1>2, CompleteStageOK, Parameters DEF CanCompleteStage, CompleteStage, JobOK, Job
<1> HIDE DEF c
<1>4. CanFinish(c)
  BY <1>3, Parameters DEF CanFinish, StageTerminal, StageSatisfied
<1>5. FinishStatus(c) \in JobTerminal
  BY <1>3, <1>4, FinishIsSuccess DEF JobTerminal
<1>6. JobOK(Finish(c)) /\ IsTerminal(Finish(c))
  BY <1>3, <1>4, <1>5, FinishOK DEF Finish, IsTerminal, JobOK, Job
<1> QED BY <1>6 DEF Done, a, s, c

LEMMA FinishJobKeeps == ASSUME LeaseInv, FinishJob PROVE LeaseInv'
<1> USE DEF LeaseInv, OwnerInv
<1>1. owner.pc = "Stitch" /\ UNCHANGED <<unit, result, ctl, mishaps>>
  BY DEF FinishJob
<1>2. CASE Error(FALSE) /\ UNCHANGED <<job, fresh, token>>
  <2>1. OwnerInv' /\ owner' \in OwnerState
    BY <1>1, <1>2, Failing DEF InRunPcs, InTranscript
  <2> QED BY <1>1, <1>2, <2>1, QuietStep, TypeParts
<1>3. CASE TheJob \in fresh[Owner] /\ SaveJob(Owner, Done(job), {}) /\ OwnerLeaves
  <2>1. job.status = "Running" /\ job.stage[1] = "Pending"
    BY <1>1, <1>3 DEF RunIsRunning, InRunPcs, InTranscript, StageHasNotBegun
  <2>2. JobOK(job') /\ IsTerminal(job')
    BY <1>3, <2>1, DoneJob, TypeParts DEF SaveJob
  <2>3. RowsTyped' /\ ListedIsPending'
    BY <1>1, <1>3, WroteRows, OwnerWrites, Parameters, TypeParts DEF SaveJob
  <2> QED BY <1>1, <1>3, <2>2, <2>3, Leaving, TypeParts, TypeAssembled
             DEF UnitsTyped, StageHasNotBegun, IsTerminal, JobTerminal
<1> QED BY <1>2, <1>3 DEF FinishJob, Holds

LEMMA EndInErrorKeeps == ASSUME LeaseInv, EndInError PROVE LeaseInv'
<1> USE DEF LeaseInv, OwnerInv
<1>1. owner.pc = "Error" /\ OwnerLeaves /\ UNCHANGED <<unit, result, ctl, mishaps>>
  BY DEF EndInError
<1>2. RowsTyped' /\ ListedIsPending'
  BY <1>1, WroteRows, OwnerWrites, Parameters, TypeParts DEF EndInError, SaveJob, Keep
<1>3. JobOK(job') /\ StageHasNotBegun'
  <2>1. CASE UNCHANGED job
    BY <2>1, TypeParts DEF StageHasNotBegun
  <2>2. CASE ~IsTerminal(job) /\ job' = Cancel(job)
    BY <2>2, CancelOK, TypeParts
       DEF CanCancel, Cancel, IsTerminal, JobTerminal, StageHasNotBegun, JobOK, Job
  <2>3. CASE TheJob \in fresh[Owner] /\ job' = FailStage(StartStage(job, 1), 1)
    <3> DEFINE s == StartStage(job, 1)
    <3>1. job.status = "Running" /\ job.stage[1] = "Pending"
      BY <1>1, <2>3 DEF RunIsRunning, InRunPcs, StageHasNotBegun
    <3>2. JobOK(s) /\ s.stage[1] = "Running"
      BY <3>1, StartStageOK, Parameters, TypeParts
         DEF CanEnterStage, PrerequisiteMet, StartStage, JobOK, Job
    <3> HIDE DEF s
    <3>3. JobOK(FailStage(s, 1)) /\ FailStage(s, 1).status = "Failed"
      BY <3>2, FailStageOK, Parameters DEF CanFailStage, FailStage, JobOK, Job
    <3> QED BY <2>3, <3>3 DEF s, StageHasNotBegun
  <2> QED BY <2>1, <2>2, <2>3 DEF EndInError, SaveJob, Holds
<1> QED BY <1>1, <1>2, <1>3, Leaving, TypeParts, TypeAssembled DEF UnitsTyped

-----------------------------------------------------------------------------
(* CancelJob, time, crashes and lost files: none of them touches the owner. *)

LEMMA CommandWrites ==
    ASSUME LeaseInv, NEW c \in Controllers, NEW R, NEW keep \in SUBSET Rows,
           Wrote(c, R, keep)
    PROVE  /\ RowsTyped' /\ fresh'[c] = keep
           /\ fresh'[Owner] = fresh[Owner] \ R
           /\ \A b \in Controllers : b # c => fresh'[b] = fresh[b] \ R
BY WroteRows, Parameters, TypeParts DEF LeaseInv

\* What one command does to its own list leaves the others' lists alone.
LEMMA CommandKeepsLists ==
    ASSUME LeaseInv, NEW c \in Controllers, NEW R, NEW keep \in SUBSET Rows,
           Wrote(c, R, keep), NEW new, ctl' = [ctl EXCEPT ![c] = new],
           \A k \in Keys : k \in R \/ unit'[k].status = unit[k].status,
           \A k \in Keys : k \in new.todo /\ k \in keep => unit'[k].status = "Pending"
    PROVE  ListedIsPending'
BY CommandWrites, TypeParts DEF LeaseInv, ListedIsPending

LEMMA CommandLeft == NoCommandLeft \in Command /\ NoCommandLeft.todo = {}
BY DEF NoCommandLeft, NoCommand, Command

\* The steps of a command that change no unit and no Job.
LEMMA CommandReads ==
    ASSUME LeaseInv, NEW c \in Controllers, NEW keep \in SUBSET Rows,
           Wrote(c, {}, keep), NEW new \in Command, ctl' = [ctl EXCEPT ![c] = new],
           \A k \in Keys : k \in new.todo /\ k \in keep => unit[k].status = "Pending",
           UNCHANGED <<unit, result, job, owner, token>>, mishaps' \in 0 .. MaxMishaps
    PROVE  LeaseInv'
<1> USE DEF LeaseInv
<1>1. RowsTyped' /\ fresh'[Owner] = fresh[Owner]
  <2>1. RowsTyped' /\ fresh'[Owner] = fresh[Owner] \ {}
    BY CommandWrites
  <2> QED BY <2>1
<1>2. ctl' \in [Controllers -> Command]
  BY TypeParts
<1>3. ListedIsPending'
  <2>1. /\ \A k \in Keys : k \in {} \/ unit'[k].status = unit[k].status
        /\ \A k \in Keys : k \in new.todo /\ k \in keep => unit'[k].status = "Pending"
    OBVIOUS
  <2> QED BY <2>1, CommandKeepsLists
<1>4. OwnerInv'
  BY <1>1, Bystanders DEF CancelAsked
<1> QED BY <1>1, <1>2, <1>3, <1>4, TypeParts, TypeAssembled DEF UnitsTyped, StageHasNotBegun

LEMMA CtlBeginKeeps ==
    ASSUME LeaseInv, NEW c \in Controllers, CtlBegin(c) PROVE LeaseInv'
<1> USE DEF LeaseInv
<1>1. PICK local \in BOOLEAN :
          /\ ctl' = [ctl EXCEPT ![c].pc = "Load", ![c].local = local]
          /\ token' = (token \/ (local /\ InRun))
  BY DEF CtlBegin
<1>2. UNCHANGED <<unit, result, job, fresh, owner, mishaps>>
  BY DEF CtlBegin
<1>3. ctl' \in [Controllers -> Command] /\ token' \in BOOLEAN
  BY <1>1, TypeParts DEF Command
<1>4. \A b \in Controllers : ctl'[b].todo = ctl[b].todo
  BY <1>1, TypeParts DEF Command
<1>5. ListedIsPending'
  BY <1>2, <1>4 DEF ListedIsPending
<1>6. OwnerInv'
  BY <1>1, <1>2, Bystanders DEF CancelAsked
<1> QED BY <1>2, <1>3, <1>5, <1>6, TypeParts, TypeAssembled
           DEF UnitsTyped, RowsTyped, StageHasNotBegun

LEMMA CtlLoadKeeps ==
    ASSUME LeaseInv, NEW c \in Controllers, CtlLoad(c) PROVE LeaseInv'
<1> USE DEF LeaseInv
<1>1. UNCHANGED <<unit, result, job, owner, token, mishaps>>
  BY DEF CtlLoad
<1>2. CASE CtlEnds(c)
  BY <1>1, <1>2, CommandLeft, CommandReads, TypeParts DEF CtlEnds, Keep
<1>3. CASE CtlGoes(c, "List") /\ Keep(c, {TheJob})
  <2> DEFINE new == [ctl[c] EXCEPT !.pc = "List"]
  <2>1. new \in Command /\ ctl' = [ctl EXCEPT ![c] = new]
    BY <1>3, TypeParts DEF CtlGoes, Command
  <2> HIDE DEF new
  <2>2. {TheJob} \in SUBSET Rows /\ \A k \in Keys : k \notin {TheJob}
    BY Parameters DEF Rows
  <2> QED BY <1>1, <1>3, <2>1, <2>2, CommandReads, TypeParts DEF Keep
<1> QED BY <1>2, <1>3 DEF CtlLoad

LEMMA CtlListKeeps ==
    ASSUME LeaseInv, NEW c \in Controllers, CtlList(c) PROVE LeaseInv'
<1> USE DEF LeaseInv
<1> DEFINE new == [ctl[c] EXCEPT !.pc = "Units", !.todo = WithStatus("Pending")]
           keep == fresh[c] \union WithStatus("Pending")
<1>1. new \in Command /\ ctl' = [ctl EXCEPT ![c] = new]
      /\ new.todo = WithStatus("Pending")
  BY TypeParts DEF CtlList, Command, WithStatus
<1>2. keep \in SUBSET Rows /\ Wrote(c, {}, keep)
      /\ UNCHANGED <<unit, result, job, owner, token, mishaps>>
  BY Parameters, TypeParts DEF CtlList, Keep, RowsTyped, Rows, WithStatus
<1> HIDE DEF new, keep
<1> QED BY <1>1, <1>2, CommandReads, TypeParts DEF WithStatus

LEMMA CtlCancelUnitKeeps ==
    ASSUME LeaseInv, NEW c \in Controllers, CtlCancelUnit(c) PROVE LeaseInv'
<1> USE DEF LeaseInv
<1>1. UNCHANGED <<result, job, owner, token, mishaps>> /\ ctl[c].todo \subseteq Keys
  BY TypeParts DEF CtlCancelUnit, Command
<1>2. CASE CtlEnds(c) /\ UNCHANGED unit
  BY <1>1, <1>2, CommandLeft, CommandReads, TypeParts DEF CtlEnds, Keep
<1>3. ASSUME NEW k \in ctl[c].todo, k \in fresh[c],
             SaveUnit(c, k, CancelUnit(unit[k]), fresh[c] \ {k}),
             ctl' = [ctl EXCEPT ![c].todo = @ \ {k}]
      PROVE  LeaseInv'
  <2>1. k \in Keys /\ unit[k].status = "Pending"
    BY <1>1, <1>3 DEF ListedIsPending
  <2>2. UnitsTyped' /\ \A l \in Keys : l # k => unit'[l] = unit[l]
    <3>1. /\ Is("Cancelled") \in WorkUnit /\ Is("Cancelled").status = "Cancelled"
          /\ Is("Cancelled").lease = NoLease
      BY StatusOnly DEF UnitStatus, UnitTerminal
    <3> QED BY <1>3, <2>1, <3>1, SavedUnit, TypeParts DEF SaveUnit, CancelUnit
  <2> DEFINE new == [ctl[c] EXCEPT !.todo = @ \ {k}]
  <2>3. new \in Command /\ ctl' = [ctl EXCEPT ![c] = new] /\ new.todo = ctl[c].todo \ {k}
    BY <1>3, TypeParts DEF Command
  <2> HIDE DEF new
  <2>4. fresh[c] \ {k} \in SUBSET Rows /\ Wrote(c, {k}, fresh[c] \ {k})
    BY <1>3, Parameters, TypeParts DEF SaveUnit, RowsTyped
  <2>5. RowsTyped' /\ fresh'[Owner] = fresh[Owner] \ {k}
    BY <2>4, CommandWrites
  <2>6. ListedIsPending'
    <3>1. \A l \in Keys : l \in new.todo /\ l \in fresh[c] \ {k} =>
              unit'[l].status = "Pending"
      BY <1>3, <2>2, <2>3 DEF ListedIsPending
    <3> QED BY <2>2, <2>3, <2>4, <3>1, CommandKeepsLists, ZenonT(30)
  <2>7. OwnerInv'
    <3>1. TheJob # k
      BY <2>1, Parameters
    <3> QED BY <1>1, <2>1, <2>2, <2>5, <3>1, Bystanders DEF CancelAsked
  <2> QED BY <1>1, <2>2, <2>3, <2>5, <2>6, <2>7, TypeParts, TypeAssembled
             DEF StageHasNotBegun
<1> QED BY <1>2, <1>3 DEF CtlCancelUnit, FirstRow, Holds

LEMMA CtlSaveJobKeeps ==
    ASSUME LeaseInv, NEW c \in Controllers, CtlSaveJob(c) PROVE LeaseInv'
<1> USE DEF LeaseInv
<1>1. /\ UNCHANGED <<unit, result, owner, token, mishaps>>
      /\ ctl' = [ctl EXCEPT ![c] = NoCommandLeft]
  BY DEF CtlSaveJob
<1>2. CASE Keep(c, {}) /\ UNCHANGED job
  BY <1>1, <1>2, CommandLeft, CommandReads, TypeParts DEF Keep
<1>3. CASE SaveJob(c, CancelOrRequest(job), {}) /\ job.status # "Cancelled"
  <2>1. job' = CancelOrRequest(job) /\ Wrote(c, {TheJob}, {})
    BY <1>3 DEF SaveJob
  <2>2. JobOK(job') /\ StageHasNotBegun'
    <3>1. CASE job.status = "Pending"
      BY <2>1, <3>1, CancelOK, TypeParts
         DEF CancelOrRequest, Cancel, CanCancel, IsTerminal, JobTerminal,
             StageHasNotBegun, JobOK, Job
    <3>2. CASE job.status # "Pending"
      BY <2>1, <3>2, RequestCancelOK, TypeParts
         DEF CancelOrRequest, RequestCancel, StageHasNotBegun, JobOK, Job
    <3> QED BY <3>1, <3>2
  <2>3. CancelAsked => CancelAsked'
    BY <1>1, <2>1, TypeParts DEF CancelAsked, CancelOrRequest, Cancel, RequestCancel,
                                 JobOK, Job
  <2>4. RowsTyped' /\ fresh'[Owner] = fresh[Owner] \ {TheJob}
    BY <2>1, CommandWrites
  <2>5. ctl' \in [Controllers -> Command] /\ ListedIsPending'
    BY <1>1, <2>1, CommandLeft, CommandKeepsLists, TypeParts
  <2>6. OwnerInv'
    BY <1>1, <2>3, <2>4, Bystanders, Parameters
  <2> QED BY <1>1, <2>2, <2>4, <2>5, <2>6, TypeParts, TypeAssembled DEF UnitsTyped
<1> QED BY <1>2, <1>3 DEF CtlSaveJob

LEMMA CrashControllerKeeps ==
    ASSUME LeaseInv, NEW c \in Controllers, CrashController(c) PROVE LeaseInv'
BY CommandLeft, CommandReads, MishapType, TypeParts
   DEF LeaseInv, CrashController, CtlEnds, Keep

LEMMA TickKeeps == ASSUME LeaseInv, Tick PROVE LeaseInv'
<1> USE DEF LeaseInv
<1>1. /\ unit' = [k \in Keys |-> IF unit[k].lease > 0
                                 THEN [unit[k] EXCEPT !.lease = @ - 1] ELSE unit[k]]
      /\ UNCHANGED <<result, job, fresh, owner, token, ctl, mishaps>>
  BY DEF Tick
<1>2. \A k \in Keys :
         /\ unit'[k] \in WorkUnit \union {NoUnit}
         /\ unit'[k].status = unit[k].status
         /\ (unit'[k].lease # NoLease) = (unit[k].lease # NoLease)
  <2> TAKE k \in Keys
  <2>1. CASE unit[k].lease > 0
    <3>1. unit[k] \in WorkUnit
      BY <2>1, StatusOnly, TypeParts DEF UnitsTyped, NoUnit, NoLease
    <3>2. unit'[k] = [unit[k] EXCEPT !.lease = @ - 1]
      BY <1>1, <2>1
    <3> QED BY <2>1, <3>1, <3>2, LeaseAssumption DEF WorkUnit, NoLease
  <2>2. CASE ~(unit[k].lease > 0)
    BY <1>1, <2>2, TypeParts DEF UnitsTyped
  <2> QED BY <2>1, <2>2
<1>3. UnitsTyped'
  BY <1>1, <1>2, TypeParts DEF UnitsTyped
<1>4. ListedIsPending' /\ StageHasNotBegun' /\ RowsTyped'
  BY <1>1, <1>2, TypeParts DEF ListedIsPending, StageHasNotBegun, RowsTyped
<1>5. OwnerInv'
  BY <1>1, <1>2, Bystanders DEF CancelAsked
<1> QED BY <1>1, <1>3, <1>4, <1>5, TypeParts, TypeAssembled

LEMMA CrashKeeps == ASSUME LeaseInv, Crash PROVE LeaseInv'
<1> USE DEF LeaseInv
<1>1. /\ OwnerLeaves /\ Mishap("Crash") /\ UNCHANGED <<unit, result, job>>
      /\ ctl' = [c \in Controllers |-> IF ctl[c].local THEN NoCommandLeft ELSE ctl[c]]
      /\ fresh' = [a \in Actors |-> IF a = Owner \/ ctl[a].local THEN {} ELSE fresh[a]]
  BY DEF Crash
<1>2. ctl' \in [Controllers -> Command] /\ RowsTyped'
  BY <1>1, CommandLeft, TypeParts DEF RowsTyped
<1>3. ListedIsPending'
  BY <1>1, CommandLeft, Parameters DEF ListedIsPending
<1> QED BY <1>1, <1>2, <1>3, Leaving, MishapType, TypeParts, TypeAssembled
           DEF UnitsTyped, StageHasNotBegun

LEMMA LoseFileKeeps == ASSUME LeaseInv, LoseFile PROVE LeaseInv'
<1> USE DEF LeaseInv
<1>1. /\ Mishap("Lose") /\ UNCHANGED <<unit, job, fresh, owner, token, ctl>>
      /\ \E c \in Chunks : result' = [result EXCEPT ![c] = 0]
  BY DEF LoseFile
<1>2. result' \in [Chunks -> Engines \union {0}]
  BY <1>1, TypeParts
<1>3. ListedIsPending' /\ StageHasNotBegun' /\ UnitsTyped' /\ RowsTyped'
  BY <1>1, TypeParts DEF ListedIsPending, StageHasNotBegun, UnitsTyped, RowsTyped
<1>4. OwnerInv'
  BY <1>1, Bystanders DEF CancelAsked
<1> QED BY <1>1, <1>2, <1>3, <1>4, MishapType, TypeParts, TypeAssembled

-----------------------------------------------------------------------------
(* The invariant, and the properties that follow from it. *)

LEMMA InitHolds == Init => LeaseInv
<1> SUFFICES ASSUME Init PROVE LeaseInv
  OBVIOUS
<1> USE DEF Init
<1>1. UnitsTyped
  BY StatusOnly DEF UnitsTyped, NoUnit, Is
<1>2. JobOK(job) /\ StageHasNotBegun
  BY NewJobOK, Parameters DEF NewJob, StageHasNotBegun
<1>3. owner \in OwnerState
  BY Parameters DEF NoOwner, OwnerState, OwnerPcs, UnitStatus
<1>4. ctl \in [Controllers -> Command] /\ ListedIsPending
  BY DEF NoCommand, Command, ListedIsPending
<1>5. mishaps \in 0 .. MaxMishaps
  BY UnitAssumption
<1>6. TypeOK
  BY <1>1, <1>2, <1>3, <1>4, <1>5 DEF TypeOK, UnitsTyped
<1>7. OwnerInv
  BY DEF NoOwner, OwnerInv, ListedIsLeased, RetryIsAllowed, WorkIsLeased, AtWork,
         BehindIsDone, RunIsRunning, InRunPcs, InTranscript, LateIsLast
<1> QED BY <1>2, <1>4, <1>6, <1>7 DEF LeaseInv

LEMMA StepHolds == LeaseInv /\ [Next]_vars => LeaseInv'
<1> SUFFICES ASSUME LeaseInv, [Next]_vars PROVE LeaseInv'
  OBVIOUS
<1>1. CASE OwnerStep
  BY <1>1, VerifyChunksKeeps, ListExpiredKeeps, RecoverUnitKeeps, RequeueKeeps,
     LoadForRetryKeeps, RetryTransactionKeeps, BeginKeeps, GateKeeps, FindUnitKeeps,
     FoundAllKeeps, ReuseChunkKeeps, RefuseChunkKeeps, LeaseUnitKeeps,
     WorkOnChunkKeeps, CommitUnitKeeps, NextChunkKeeps, ReleaseUnitKeeps, StitchKeeps,
     FinishJobKeeps, EndInErrorKeeps DEF OwnerStep
<1>2. ASSUME NEW c \in Controllers, CtlBegin(c) \/ CtlStep(c) \/ CrashController(c)
      PROVE  LeaseInv'
  BY <1>2, CtlBeginKeeps, CtlLoadKeeps, CtlListKeeps, CtlCancelUnitKeeps,
     CtlSaveJobKeeps, CrashControllerKeeps DEF CtlStep
<1>3. CASE TakeLock \/ Tick \/ Crash \/ LoseFile
  BY <1>3, TakeLockKeeps, TickKeeps, CrashKeeps, LoseFileKeeps
<1>4. CASE UNCHANGED vars
  <2>1. TypeOK'
    BY <1>4 DEF vars, LeaseInv, TypeOK
  <2>2. ListedIsPending' /\ StageHasNotBegun'
    BY <1>4 DEF vars, LeaseInv, ListedIsPending, StageHasNotBegun
  <2>3. OwnerInv'
    BY <1>4, Bystanders DEF vars, CancelAsked
  <2> QED BY <2>1, <2>2, <2>3 DEF LeaseInv
<1> QED BY <1>1, <1>2, <1>3, <1>4 DEF Next

LEMMA LeaseInvAlways == Spec => []LeaseInv
<1> QED BY InitHolds, StepHolds, PTL DEF Spec

\* Every variable keeps its type, and a lease is there while a unit is Running
\* and only then: no failure, cancellation or retry leaves one behind.
THEOREM UnitsAreWellTyped == Spec => []TypeOK
<1>1. LeaseInv => TypeOK
  BY DEF LeaseInv
<1> QED BY <1>1, LeaseInvAlways, PTL

\* Nobody takes the leased unit away from the owner that works on it: neither a
\* CancelJob that listed it before the lease nor the clock.
THEOREM LeaseOutlastsWork == Spec => []LeasedUnitIsKept
<1>1. LeaseInv => LeasedUnitIsKept
  BY DEF LeaseInv, OwnerInv, WorkIsLeased, LeasedUnitIsKept, Holds
<1> QED BY <1>1, LeaseInvAlways, PTL

\* Of a run that was asked to cancel one chunk more is completed at most.
THEOREM CancelEndsWork == Spec => []CancelIsPrompt
<1>1. LeaseInv => CancelIsPrompt
  BY DEF LeaseInv, OwnerInv, LateIsLast, CancelIsPrompt
<1> QED BY <1>1, LeaseInvAlways, PTL

\* Only FinishJob makes a Job Done, and it has all chunks behind it.
THEOREM TranscriptIsWhole == Spec => TranscriptNeedsEveryChunk
<1> DEFINE Whole == job.status # "Done" /\ job'.status = "Done" =>
               \A c \in Chunks : unit[<<c, owner.engine>>].status = "Done"
<1>1. LeaseInv /\ [Next]_vars => [Whole]_vars
  <2> SUFFICES ASSUME LeaseInv, [Next]_vars,
                      job.status # "Done", job'.status = "Done"
               PROVE  \A c \in Chunks : unit[<<c, owner.engine>>].status = "Done"
    OBVIOUS
  <2> USE DEF LeaseInv, OwnerInv
  <2>1. CASE FinishJob
    <3>1. owner.pc = "Stitch"
      BY <2>1 DEF FinishJob
    <3>2. \A c \in Chunks : c < ChunkCount + 1
      BY UnitAssumption DEF Chunks
    <3> QED BY <3>1, <3>2 DEF BehindIsDone, InTranscript
  <2>2. CASE Requeue \/ RetryTransaction \/ Begin
    <3>1. \/ job' = job \/ job' = Recover(job) \/ job' = Retry(job, 1)
          \/ job' = Cancel(job) \/ job' = Start(job)
      BY <2>2 DEF Requeue, RetryTransaction, Begin, SaveJob
    <3> QED BY <3>1, TypeParts
               DEF Recover, Retry, ResetFrom, Cancel, Start, JobOK, Job
  <2>3. CASE EndInError
    <3>1. \/ job' = job \/ job' = Cancel(job)
          \/ job' = FailStage(StartStage(job, 1), 1)
      BY <2>3 DEF EndInError, SaveJob
    <3> QED BY <3>1, TypeParts DEF Cancel, FailStage, StartStage, JobOK, Job
  <2>4. ASSUME NEW c \in Controllers, CtlSaveJob(c) PROVE FALSE
    <3>1. job' = job \/ job' = CancelOrRequest(job)
      BY <2>4 DEF CtlSaveJob, SaveJob
    <3> QED BY <3>1, TypeParts DEF CancelOrRequest, Cancel, RequestCancel, JobOK, Job
  <2>5. CASE UNCHANGED job
    BY <2>5
  <2>6. CASE OwnerStep
    BY <2>1, <2>2, <2>3, <2>5, <2>6
       DEF OwnerStep, VerifyChunks, ListExpired, RecoverUnit, LoadForRetry, Gate,
           FindUnit, FoundAll, ReuseChunk, RefuseChunk, LeaseUnit, WorkOnChunk,
           CommitUnit, NextChunk, ReleaseUnit, Stitch
  <2>7. ASSUME NEW c \in Controllers, CtlBegin(c) \/ CtlStep(c) \/ CrashController(c)
        PROVE  UNCHANGED job
    BY <2>4, <2>7 DEF CtlBegin, CtlStep, CtlLoad, CtlList, CtlCancelUnit, CrashController
  <2>8. CASE TakeLock \/ Tick \/ Crash \/ LoseFile \/ UNCHANGED vars
    BY <2>5, <2>8 DEF TakeLock, Tick, Crash, LoseFile, vars
  <2> QED BY <2>5, <2>6, <2>7, <2>8 DEF Next
<1> QED BY <1>1, LeaseInvAlways, PTL DEF Spec, TranscriptNeedsEveryChunk

\* A completed chunk is given up only for want of its file, or by a retry.
THEOREM CompletedChunksStay == Spec => CompletedChunksSurvive
<1> DEFINE Survives ==
        \A k \in Keys : unit[k].status = "Done" /\ unit'[k].status # "Done" =>
            \/ result[k[1]] # k[2]
            \/ CanRetry(job) /\ job' = Retry(job, 1)
<1>1. LeaseInv /\ [Next]_vars => [Survives]_vars
  <2> SUFFICES ASSUME LeaseInv, [Next]_vars,
                      NEW k \in Keys, unit[k].status = "Done", unit'[k].status # "Done"
               PROVE  \/ result[k[1]] # k[2]
                      \/ CanRetry(job) /\ job' = Retry(job, 1)
    OBVIOUS
  <2> USE DEF LeaseInv, OwnerInv
  <2>1. CASE UNCHANGED unit
    BY <2>1
  <2>2. ASSUME NEW l, NEW u, unit' = [unit EXCEPT ![l] = u], unit[l].status # "Done"
        PROVE  FALSE
    BY <2>2, TypeParts DEF UnitsTyped
  <2>3. CASE VerifyChunks
    BY <2>3 DEF VerifyChunks
  <2>4. CASE RetryTransaction
    BY <2>1, <2>4 DEF RetryTransaction, RetryIsAllowed, Holds
  <2>5. CASE RecoverUnit
    BY <2>1, <2>2, <2>5, TypeParts
       DEF RecoverUnit, FirstRow, SaveUnit, Holds, ListedIsLeased
  <2>6. CASE FindUnit
    <3>1. CASE Held \notin Existing
      <4>1. unit[Held].status # "Done" \/ Held \notin Keys
        BY <3>1 DEF Existing
      <4>2. unit' = [unit EXCEPT ![Held] = NewUnit]
        BY <2>6, <3>1 DEF FindUnit, SaveUnit
      <4> QED BY <2>2, <4>1, <4>2, TypeParts DEF UnitsTyped
    <3>2. CASE Held \in Existing
      BY <2>1, <2>6, <3>2 DEF FindUnit
    <3> QED BY <3>1, <3>2
  <2>7. CASE LeaseUnit
    BY <2>1, <2>2, <2>7 DEF LeaseUnit, FirstRow, CanLease, SaveUnit
  <2>8. CASE CommitUnit
    <3>1. \/ UNCHANGED unit
          \/ unit[Held].status = "Running"
             /\ unit' = [unit EXCEPT ![Held] = Complete(unit[Held])]
      BY <2>8 DEF CommitUnit, CanComplete, SaveUnit
    <3> QED BY <2>1, <2>2, <3>1
  <2>9. CASE ReleaseUnit
    BY <2>1, <2>2, <2>9 DEF ReleaseUnit, CanCancelUnit, CanFailUnit, UnitTerminal, SaveUnit
  <2>10. ASSUME NEW c \in Controllers, CtlCancelUnit(c) PROVE FALSE
    BY <2>1, <2>2, <2>10, TypeParts
       DEF CtlCancelUnit, FirstRow, SaveUnit, Holds, ListedIsPending, Command
  <2>11. CASE Tick
    BY <2>11 DEF Tick
  <2>12. CASE OwnerStep
    BY <2>1, <2>3, <2>4, <2>5, <2>6, <2>7, <2>8, <2>9, <2>12
       DEF OwnerStep, ListExpired, Requeue, LoadForRetry, Begin, Gate, FoundAll,
           ReuseChunk, RefuseChunk, WorkOnChunk, NextChunk, Stitch, FinishJob, EndInError
  <2>13. ASSUME NEW c \in Controllers, CtlBegin(c) \/ CtlStep(c) \/ CrashController(c)
         PROVE  UNCHANGED unit
    BY <2>10, <2>13 DEF CtlBegin, CtlStep, CtlLoad, CtlList, CtlSaveJob, CrashController
  <2>14. CASE TakeLock \/ Crash \/ LoseFile \/ UNCHANGED vars
    BY <2>1, <2>14 DEF TakeLock, Crash, LoseFile, vars
  <2> QED BY <2>1, <2>11, <2>12, <2>13, <2>14 DEF Next
<1> QED BY <1>1, LeaseInvAlways, PTL DEF Spec, CompletedChunksSurvive

=============================================================================
