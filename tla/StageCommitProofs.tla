-------------------------- MODULE StageCommitProofs ---------------------------
(***************************************************************************)
(* Proofs about StageCommit, for every number of stages, rows, revisions,  *)
(* contents and editors.                                                   *)
(*                                                                         *)
(* A reference is good as long as its row is: the recovery unmarks rows,   *)
(* and two kinds of actors write the Job from a copy of their own.  So     *)
(* CommitInv says what a copy that is still current knows of the row: an   *)
(* owner's has the same references, an editor's the same result to revise. *)
(* On it rest two invariants about the files: Kept, what a commit that is  *)
(* under way and a sweep that is under way leave alone, and Cleaned, what  *)
(* a sweep that is under way has still to remove.                          *)
(***************************************************************************)
EXTENDS StageCommit, TLAPS, SequenceTheorems, WellFoundedInduction

-----------------------------------------------------------------------------
(* What JobLifecycleProofs proves of the methods of a Job holds here: the  *)
(* Job is the same one, and so are its methods.                            *)

Life == INSTANCE JobLifecycleProofs

LEMMA SameJob ==
    ASSUME NEW j
    PROVE  /\ Life!JobOK(j) <=> JobOK(j)
           /\ Life!Stages = Stages /\ Life!StageSatisfied = StageSatisfied
BY DEF Life!JobOK, JobOK, Life!Job, Job, Life!StageOrderOK, StageOrderOK,
       Life!LastStageOK, LastStageOK, Life!SuccessOK, SuccessOK,
       Life!EndOK, EndOK, Life!ReferenceOK, ReferenceOK, Life!Stages,
       Stages, Life!IsTerminal, IsTerminal, Life!JobTerminal, JobTerminal,
       Life!JobStatus, JobStatus, Life!StageStatus, StageStatus,
       Life!StageTerminal, StageTerminal, Life!StageSatisfied,
       StageSatisfied

LEMMA SameMethods ==
    ASSUME NEW j, NEW k, NEW a, NEW d
    PROVE  /\ Life!NewJob = NewJob
           /\ Life!CanStart(j) <=> CanStart(j)
           /\ Life!Start(j) = Start(j)
           /\ Life!CanEnterStage(j, k) <=> CanEnterStage(j, k)
           /\ Life!StartStage(j, k) = StartStage(j, k)
           /\ Life!CanCompleteStage(j, k) <=> CanCompleteStage(j, k)
           /\ Life!CompleteStage(j, k, a, d) = CompleteStage(j, k, a, d)
           /\ Life!CanFailStage(j, k) <=> CanFailStage(j, k)
           /\ Life!FailStage(j, k) = FailStage(j, k)
           /\ Life!CanFinish(j) <=> CanFinish(j)
           /\ Life!Finish(j) = Finish(j)
           /\ Life!CanCancel(j) <=> CanCancel(j)
           /\ Life!Cancel(j) = Cancel(j)
           /\ Life!RequestCancel(j) = RequestCancel(j)
           /\ Life!Recover(j) = Recover(j)
           /\ Life!InvalidateStage(j, k) = InvalidateStage(j, k)
           /\ Life!Retry(j, k) = Retry(j, k)
           /\ Life!CanRevise(j, k) <=> CanRevise(j, k)
           /\ Life!Revise(j, k, a) = Revise(j, k, a)
BY DEF Life!NewJob, NewJob, Life!CanStart, CanStart, Life!Start, Start,
       Life!CanEnterStage, CanEnterStage, Life!StartStage, StartStage,
       Life!CanCompleteStage, CanCompleteStage, Life!CompleteStage,
       CompleteStage, Life!CanFailStage, CanFailStage, Life!FailStage,
       FailStage, Life!CanFinish, CanFinish, Life!Finish, Finish,
       Life!CanCancel, CanCancel, Life!Cancel, Cancel, Life!RequestCancel,
       RequestCancel, Life!Recover, Recover, Life!InvalidateStage,
       InvalidateStage, Life!Retry, Retry, Life!CanRevise, CanRevise,
       Life!Revise, Revise, Life!PrerequisiteMet, PrerequisiteMet,
       Life!EndOpenStages, EndOpenStages, Life!RequeueRunning,
       RequeueRunning, Life!ResetFrom, ResetFrom, Life!NextGeneration,
       NextGeneration, Life!FinishStatus, FinishStatus, Life!Stages,
       Stages, Life!IsTerminal, IsTerminal, Life!JobTerminal, JobTerminal,
       Life!StageTerminal, StageTerminal, Life!StageSatisfied,
       StageSatisfied

LEMMA NewJobOK == JobOK(NewJob)
BY Life!NewJobOK, SameJob, SameMethods, JobAssumption DEF Life!JobAssumption

LEMMA StartOK == ASSUME NEW j, JobOK(j), CanStart(j) PROVE JobOK(Start(j))
BY Life!StartOK, SameJob, SameMethods, JobAssumption DEF Life!JobAssumption

LEMMA StartStageOK ==
    ASSUME NEW j, JobOK(j), NEW k \in Stages, CanEnterStage(j, k)
    PROVE  JobOK(StartStage(j, k))
BY Life!StartStageOK, SameJob, SameMethods, JobAssumption DEF Life!JobAssumption

LEMMA CompleteStageOK ==
    ASSUME NEW j, JobOK(j), NEW k \in Stages, CanCompleteStage(j, k),
           NEW a \in Artifacts, NEW degraded \in BOOLEAN
    PROVE  JobOK(CompleteStage(j, k, a, degraded))
BY Life!CompleteStageOK, SameJob, SameMethods, JobAssumption DEF Life!JobAssumption

LEMMA FailStageOK ==
    ASSUME NEW j, JobOK(j), NEW k \in Stages, CanFailStage(j, k)
    PROVE  JobOK(FailStage(j, k))
BY Life!FailStageOK, SameJob, SameMethods, JobAssumption DEF Life!JobAssumption

LEMMA FinishOK == ASSUME NEW j, JobOK(j), CanFinish(j) PROVE JobOK(Finish(j))
BY Life!FinishOK, SameJob, SameMethods, JobAssumption DEF Life!JobAssumption

LEMMA CancelOK == ASSUME NEW j, JobOK(j), CanCancel(j) PROVE JobOK(Cancel(j))
BY Life!CancelOK, SameJob, SameMethods, JobAssumption DEF Life!JobAssumption

LEMMA RequestCancelOK == ASSUME NEW j, JobOK(j) PROVE JobOK(RequestCancel(j))
BY Life!RequestCancelOK, SameJob, SameMethods, JobAssumption DEF Life!JobAssumption

LEMMA RecoverOK == ASSUME NEW j, JobOK(j) PROVE JobOK(Recover(j))
BY Life!RecoverOK, SameJob, SameMethods, JobAssumption DEF Life!JobAssumption

LEMMA InvalidateStageOK ==
    ASSUME NEW j, JobOK(j), NEW k \in Stages
    PROVE  JobOK(InvalidateStage(j, k))
BY Life!InvalidateStageOK, SameJob, SameMethods, JobAssumption DEF Life!JobAssumption

LEMMA RetryOK ==
    ASSUME NEW j, JobOK(j), NEW k \in Stages
    PROVE  JobOK(Retry(j, k))
BY Life!RetryOK, SameJob, SameMethods, JobAssumption DEF Life!JobAssumption

LEMMA ReviseOK ==
    ASSUME NEW j, JobOK(j), NEW k \in Stages, CanRevise(j, k), NEW a \in Artifacts
    PROVE  JobOK(Revise(j, k, a))
BY Life!ReviseOK, SameJob, SameMethods, JobAssumption DEF Life!JobAssumption

-----------------------------------------------------------------------------
(* The invariant. *)

FileType == [Path -> Contents \union {NoFile}]
OwnerType ==
    [pc : Free \union {"RecoverRows", "ListFiles", "Sweep", "Recovered", "Stage",
                       "Publish", "Rename", "Commit", "Remove", "Error"},
     retry : 0 .. StageCount, keep : SUBSET Path, sweep : SUBSET Path,
     fresh : BOOLEAN, copy : Job, stage : 0 .. StageCount + 1,
     content : Contents \union {NoFile}, published : BOOLEAN]
EditorType ==
    [pc : {"Idle", "Write", "Validate", "Insert", "Save"}, fresh : BOOLEAN,
     stage : 0 .. StageCount, revision : 0 .. MaxRevision,
     content : Contents \union {NoFile}, row : Artifacts \union {NoArtifact}]
LEMMA Types ==
    TypeOK <=> /\ file \in FileType /\ rows \in Seq(Row) /\ Len(rows) <= MaxRows
               /\ job \in Job /\ owner \in OwnerType /\ editor \in [Editors -> EditorType]
BY DEF TypeOK, FileType, OwnerType, EditorType

\* Every Job anywhere is one the methods can make, and a row names the result
\* of its stage: neither a .partial file nor the second file of a manifest.
RowsNamed == \A i \in DOMAIN rows : rows[i].path[1] = rows[i].stage /\ rows[i].path[2] >= Final
Typed == TypeOK /\ JobOK(job) /\ JobOK(owner.copy) /\ RowsNamed

AtWork == {"Stage", "Publish", "Rename", "Commit", "Remove", "Error"}
OwnerKnows ==
    /\ owner.pc = "Stage" => owner.stage # 0
    /\ owner.pc \in {"Publish", "Rename", "Commit", "Remove"} =>
          owner.stage \in Stages /\ owner.content \in Contents
    /\ owner.pc \in {"Publish", "Rename", "Commit"} => CanCompleteStage(owner.copy, owner.stage)
    /\ owner.pc = "Error" /\ owner.fresh => owner.stage \in Stages
    /\ owner.fresh => /\ owner.pc \in AtWork /\ owner.copy.status = "Running"
                      /\ ~owner.copy.cancel_requested
                      /\ owner.copy.artifact = job.artifact /\ ~job.cancel_requested

Knows(ed) ==
    /\ ed.pc # "Idle" => /\ ed.stage \in Stages /\ ed.revision > Final
                         /\ ed.content \in Contents
    /\ ed.fresh => /\ ed.pc # "Idle" /\ Completed(job, ed.stage)
                   /\ ed.revision = RevisionOf(job, ed.stage) + 1
    /\ ed.pc = "Save" => /\ ed.row \in DOMAIN rows
                         /\ rows[ed.row].stage = ed.stage
                         /\ rows[ed.row].path = <<ed.stage, ed.revision>>
                         /\ ed.fresh => rows[ed.row].committed
EditorKnows == \A e \in Editors : Knows(editor[e])

CommitInv == Typed /\ OwnerKnows /\ EditorKnows /\ ReferencesAreCommitted

-----------------------------------------------------------------------------
(* What the methods of a Job do with its references. *)

\* The least element of a set of stages exists.
LEMMA LowestIsLeast ==
    ASSUME NEW S \in SUBSET Nat, S # {}
    PROVE  Lowest(S) \in S /\ \A t \in S : Lowest(S) <= t
<1> DEFINE R == OpToRel(<, Nat)
<1>1. IsWellFoundedOn(R, Nat)
  BY NatLessThanWellFounded
<1>2. \A x, y \in Nat : x < y => <<x, y>> \in R
  BY DEF OpToRel
<1> HIDE DEF R
<1>3. PICK x \in S : \A y \in S : <<y, x>> \notin R
  BY <1>1, WFMin
<1>4. \A y \in S : ~(y < x)
  BY <1>2, <1>3
<1>5. \A y \in S : x <= y
  BY <1>4
<1> QED
  BY <1>5 DEF Lowest

\* Most methods leave the references alone ...
LEMMA ReferencesStay ==
    ASSUME NEW j \in Job, NEW k \in Stages
    PROVE  /\ Start(j).artifact = j.artifact /\ Start(j).status = "Running"
           /\ Start(j).cancel_requested = j.cancel_requested
           /\ Cancel(j).artifact = j.artifact /\ Recover(j).artifact = j.artifact
           /\ RequestCancel(j).artifact = j.artifact /\ Finish(j).artifact = j.artifact
           /\ FailStage(j, k).artifact = j.artifact
           /\ StartStage(j, k).artifact = j.artifact /\ StartStage(j, k).status = j.status
           /\ StartStage(j, k).cancel_requested = j.cancel_requested
           /\ StartStage(j, k).stage[k] = "Running"
BY DEF Job, Start, Cancel, Recover, RequestCancel, Finish, FailStage, StartStage

\* ... a reset drops those from one stage on, and two set that of their stage.
LEMMA ReferencesReset ==
    ASSUME NEW j \in Job, NEW k \in Stages
    PROVE  /\ \A s \in Stages :
                 /\ InvalidateStage(j, k).artifact[s] = IF s < k THEN j.artifact[s] ELSE NoArtifact
                 /\ Retry(j, k).artifact[s] = IF s < k THEN j.artifact[s] ELSE NoArtifact
BY DEF Job, InvalidateStage, Retry, ResetFrom

LEMMA ReferencesSet ==
    ASSUME NEW j \in Job, NEW k \in Stages, NEW a, NEW degraded
    PROVE  /\ CompleteStage(j, k, a, degraded).status = j.status
           /\ CompleteStage(j, k, a, degraded).cancel_requested = j.cancel_requested
           /\ \A s \in Stages :
                 /\ CompleteStage(j, k, a, degraded).artifact[s] = IF s = k THEN a ELSE j.artifact[s]
                 /\ Revise(j, k, a).artifact[s] = IF s = k THEN a ELSE j.artifact[s]
BY DEF Job, CompleteStage, Revise

LEMMA NobodyYet ==
    /\ NoOwner \in OwnerType /\ JobOK(NoOwner.copy) /\ NoOwner.pc = "Idle"
    /\ NoOwner.fresh = FALSE
    /\ NoEdit \in EditorType /\ NoEdit.pc = "Idle" /\ NoEdit.fresh = FALSE
<1>1. NewJob \in Job /\ JobOK(NewJob)
  BY NewJobOK DEF JobOK
<1>2. 0 \in 0 .. StageCount /\ 0 \in 0 .. StageCount + 1 /\ 0 \in 0 .. MaxRevision
  BY JobAssumption, CommitAssumption
<1>3. NoOwner \in OwnerType
  BY <1>1, <1>2 DEF NoOwner, OwnerType, Free
<1>4. NoEdit \in EditorType
  BY <1>2 DEF NoEdit, EditorType
<1> QED
  BY <1>1, <1>3, <1>4 DEF NoOwner, NoEdit

-----------------------------------------------------------------------------
(* What others do to the copies of the editors. *)

RowsMore == \A i \in DOMAIN rows : /\ i \in DOMAIN rows' /\ rows'[i].stage = rows[i].stage
                                   /\ rows'[i].path = rows[i].path
RowsSame == \A i \in DOMAIN rows : i \in DOMAIN rows' /\ rows'[i] = rows[i]

\* A completed stage has a row.
LEMMA CompletedHasRow ==
    ASSUME CommitInv, NEW s \in Stages, Completed(job, s)
    PROVE  /\ s \in Referenced(job) /\ job.artifact[s] \in DOMAIN rows
           /\ rows[job.artifact[s]].committed /\ rows[job.artifact[s]].stage = s
BY DEF CommitInv, Typed, JobOK, ReferenceOK, Completed, ReferencesAreCommitted, Referenced,
       Committed

\* What an edit knows lasts as long as rows and Job do.
LEMMA StillKnows ==
    ASSUME CommitInv, NEW ed, Knows(ed), NEW n, n.pc = ed.pc, n.stage = ed.stage,
           n.revision = ed.revision, n.content = ed.content, n.row = ed.row, RowsMore,
           n.fresh => ed.fresh /\ RowsSame /\ UNCHANGED job
    PROVE  Knows(n)'
<1>1. /\ n.pc # "Idle" => n.stage \in Stages /\ n.revision > Final /\ n.content \in Contents
      /\ n.pc = "Save" => n.row \in DOMAIN rows'
                          /\ rows'[n.row].stage = n.stage
                          /\ rows'[n.row].path = <<n.stage, n.revision>>
  BY DEF Knows, RowsMore
<1>2. n.fresh => /\ n.pc # "Idle" /\ Completed(job', n.stage)
                 /\ n.revision = rows'[job'.artifact[n.stage]].path[2] + 1
                 /\ n.pc = "Save" => rows'[n.row].committed
  <2> SUFFICES ASSUME n.fresh
               PROVE  /\ n.pc # "Idle" /\ Completed(job', n.stage)
                      /\ n.revision = rows'[job'.artifact[n.stage]].path[2] + 1
                      /\ n.pc = "Save" => rows'[n.row].committed
    OBVIOUS
  <2>1. ed.fresh /\ RowsSame /\ job' = job
    OBVIOUS
  <2>2. ed.pc # "Idle" /\ ed.stage \in Stages /\ Completed(job, ed.stage)
    BY <2>1 DEF Knows
  <2>3. rows'[job.artifact[ed.stage]] = rows[job.artifact[ed.stage]]
    BY <2>1, <2>2, CompletedHasRow DEF RowsSame
  <2>4. ed.pc = "Save" => ed.row \in DOMAIN rows /\ rows[ed.row].committed
    BY <2>1 DEF Knows
  <2>5. ed.revision = rows[job.artifact[ed.stage]].path[2] + 1
    BY <2>1 DEF Knows, RevisionOf
  <2> QED
    BY <2>1, <2>2, <2>3, <2>4, <2>5 DEF RowsSame
<1> QED
  BY <1>1, <1>2 DEF Knows, RevisionOf

LEMMA OutdatedEditors ==
    ASSUME editor \in [Editors -> EditorType], NEW es, NEW eds, eds = Outdated(es)
    PROVE  /\ eds \in [Editors -> EditorType]
           /\ \A e \in Editors :
                /\ eds[e].pc = editor[e].pc /\ eds[e].stage = editor[e].stage
                /\ eds[e].revision = editor[e].revision /\ eds[e].content = editor[e].content
                /\ eds[e].row = editor[e].row
                /\ eds[e].fresh <=> editor[e].fresh /\ e \notin es
<1> SUFFICES ASSUME NEW e \in Editors
             PROVE  /\ eds[e] \in EditorType
                    /\ eds[e].pc = editor[e].pc /\ eds[e].stage = editor[e].stage
                    /\ eds[e].revision = editor[e].revision /\ eds[e].content = editor[e].content
                    /\ eds[e].row = editor[e].row
                    /\ eds[e].fresh <=> editor[e].fresh /\ e \notin es
  BY DEF Outdated
<1>1. editor[e] \in EditorType
  OBVIOUS
<1>2. PICK b \in BOOLEAN : b <=> editor[e].fresh /\ e \notin es
  BY <1>1 DEF EditorType
<1>3. eds[e] = [editor[e] EXCEPT !.fresh = b]
  BY <1>2 DEF Outdated, EditorType
<1> QED
  BY <1>1, <1>2, <1>3 DEF EditorType

\* The Job moves on, and all edits with an outdated copy.
LEMMA EditorsLeft ==
    ASSUME CommitInv, RowsMore, editor' = Outdated(Editors)
    PROVE  EditorKnows' /\ editor' \in [Editors -> EditorType]
<1>1. PICK eds : eds = Outdated(Editors)
  OBVIOUS
<1>2. editor \in [Editors -> EditorType] /\ editor' = eds
  BY <1>1, Types DEF CommitInv, Typed
<1>3. /\ eds \in [Editors -> EditorType]
      /\ \A e \in Editors :
           /\ eds[e].pc = editor[e].pc /\ eds[e].stage = editor[e].stage
           /\ eds[e].revision = editor[e].revision /\ eds[e].content = editor[e].content
           /\ eds[e].row = editor[e].row
           /\ ~eds[e].fresh
  BY <1>1, <1>2, OutdatedEditors
<1>4. ASSUME NEW e \in Editors
      PROVE  Knows(eds[e])'
  BY <1>3, StillKnows DEF CommitInv, EditorKnows
<1> QED
  BY <1>2, <1>3, <1>4 DEF EditorKnows, Knows, RevisionOf

LEMMA EditorsStay ==
    ASSUME CommitInv, RowsSame, UNCHANGED job, NEW S \in SUBSET Editors,
           \A e \in S : editor'[e] = editor[e]
    PROVE  \A e \in S : Knows(editor[e])'
<1> SUFFICES ASSUME NEW e \in S
             PROVE  Knows(editor[e])'
  OBVIOUS
<1>1. PICK ed : ed = editor[e]
  OBVIOUS
<1>2. RowsMore
  BY DEF RowsSame, RowsMore
<1>3. Knows(ed)'
  BY <1>1, <1>2, StillKnows DEF CommitInv, EditorKnows
<1> QED
  BY <1>1, <1>3 DEF Knows, RevisionOf

-----------------------------------------------------------------------------
(* Steps of the owner that touch neither rows nor Job, or the Job alone. *)

LEMMA OwnerAlone ==
    ASSUME CommitInv, UNCHANGED <<rows, job, editor>>, file' \in FileType,
           owner' \in OwnerType, JobOK(owner'.copy), OwnerKnows'
    PROVE  CommitInv'
<1>1. Typed'
  BY Types DEF CommitInv, Typed, TypeOK, RowsNamed, FileType, OwnerType
<1>2. EditorKnows'
  BY DEF CommitInv, EditorKnows, Knows, RevisionOf, Completed
<1>3. ReferencesAreCommitted'
  BY DEF CommitInv, ReferencesAreCommitted, Referenced, Committed
<1> QED
  BY <1>1, <1>2, <1>3 DEF CommitInv

LEMMA JobWritten ==
    ASSUME CommitInv, UNCHANGED <<file, rows>>, editor' = Outdated(Editors),
           JobOK(job'), \A s \in Stages : job'.artifact[s] \in {job.artifact[s], NoArtifact},
           owner' \in OwnerType, JobOK(owner'.copy), OwnerKnows'
    PROVE  CommitInv'
<1>1. RowsMore
  BY DEF RowsMore
<1>2. EditorKnows' /\ editor' \in [Editors -> EditorType]
  BY <1>1, EditorsLeft
<1>3. job' \in Job
  BY DEF JobOK
<1>4. Typed'
  BY <1>2, <1>3, Types DEF CommitInv, Typed, TypeOK, RowsNamed, FileType, OwnerType, EditorType
<1>5. ReferencesAreCommitted'
  BY DEF CommitInv, ReferencesAreCommitted, Referenced, Committed
<1> QED
  BY <1>2, <1>4, <1>5 DEF CommitInv

\* The fields of an owner, as the type gives them.
LEMMA OwnerFields ==
    ASSUME CommitInv
    PROVE  /\ owner \in OwnerType /\ job \in Job /\ JobOK(job) /\ JobOK(owner.copy)
           /\ file \in FileType /\ rows \in Seq(Row) /\ OwnerKnows
           /\ owner.pc \notin AtWork => ~owner.fresh
BY Types DEF CommitInv, Typed, OwnerKnows

LEMMA RecoveryKeeps ==
    ASSUME CommitInv, TakeLock \/ ListFiles \/ Quarantine \/ Requeue \/ PrepareRetry \/ CrashOwner
    PROVE  CommitInv'
<1>1. /\ owner \in OwnerType /\ JobOK(job) /\ JobOK(owner.copy) /\ file \in FileType
      /\ job \in Job /\ OwnerKnows /\ (owner.pc \notin AtWork => ~owner.fresh)
  BY OwnerFields
<1>2. CASE TakeLock
  <2>1. PICK s \in 0 .. StageCount : owner' = [NoOwner EXCEPT !.pc = "RecoverRows", !.retry = s]
    BY <1>2 DEF TakeLock
  <2>2. /\ owner' \in OwnerType /\ owner'.copy = NoOwner.copy /\ owner'.pc = "RecoverRows"
        /\ owner'.fresh = FALSE
    BY <2>1, NobodyYet DEF OwnerType
  <2>3. OwnerKnows'
    BY <2>2 DEF OwnerKnows
  <2> QED
    BY <1>1, <1>2, <2>2, <2>3, NobodyYet, OwnerAlone DEF TakeLock, Stay
<1>3. CASE ListFiles
  <2>1. /\ owner' \in OwnerType /\ owner'.copy = owner.copy /\ owner'.pc = "Sweep"
        /\ ~owner'.fresh
    BY <1>1, <1>3 DEF ListFiles, OwnerType, AtWork
  <2>2. OwnerKnows'
    BY <2>1 DEF OwnerKnows
  <2> QED
    BY <1>1, <1>3, <2>1, <2>2, OwnerAlone DEF ListFiles, Stay
<1>4. CASE Quarantine
  <2>1. PICK p \in owner.sweep :
          /\ Put(p, NoFile)
          /\ owner' = IF file[p] = NoFile THEN NoOwner
                      ELSE [owner EXCEPT !.sweep = @ \ {p}]
    BY <1>4 DEF Quarantine
  <2>2. /\ owner' \in OwnerType /\ JobOK(owner'.copy) /\ owner'.pc \in {"Idle", "Sweep"}
        /\ ~owner'.fresh
    <3>1. CASE owner' = NoOwner
      BY <3>1, NobodyYet
    <3>2. CASE owner' = [owner EXCEPT !.sweep = @ \ {p}]
      BY <1>1, <1>4, <3>2 DEF Quarantine, OwnerType, AtWork
    <3> QED
      BY <2>1, <3>1, <3>2
  <2>3. OwnerKnows'
    BY <2>2 DEF OwnerKnows
  <2>4. file' \in FileType
    BY <1>1, <2>1 DEF Put, FileType
  <2> QED
    BY <1>4, <2>2, <2>3, <2>4, OwnerAlone DEF Quarantine, Stay
<1>5. CASE Requeue
  <2>1. /\ owner' \in OwnerType /\ owner'.copy = owner.copy /\ owner'.pc = "Recovered"
        /\ ~owner'.fresh
    BY <1>1, <1>5 DEF Requeue, OwnerGoes, OwnerType, AtWork
  <2>2. OwnerKnows'
    BY <2>1 DEF OwnerKnows
  <2>3. CASE JobBecomes(Recover(job))
    <3>1. JobOK(Recover(job)) /\ Recover(job).artifact = job.artifact
      BY <1>1, RecoverOK, ReferencesStay, JobAssumption DEF Stages
    <3> QED
      BY <1>1, <1>5, <2>1, <2>2, <2>3, <3>1, JobWritten DEF Requeue, JobBecomes
  <2>4. CASE Stay
    BY <1>1, <1>5, <2>1, <2>2, <2>4, OwnerAlone DEF Requeue, Stay
  <2> QED
    BY <1>5, <2>3, <2>4 DEF Requeue
<1>6. CASE PrepareRetry
  <2>1. CASE CanRetry(job)
    <3>1. owner.retry \in Stages
      BY <1>1, <1>6 DEF PrepareRetry, OwnerType, Stages
    <3>2. JobBecomes(Retry(job, owner.retry)) /\ owner' = [owner EXCEPT !.retry = 0]
      BY <1>6, <2>1 DEF PrepareRetry, OwnerWrites
    <3>3. /\ owner' \in OwnerType /\ owner'.copy = owner.copy /\ owner'.pc = "Recovered"
          /\ ~owner'.fresh
      BY <1>1, <1>6, <3>2, JobAssumption DEF PrepareRetry, OwnerType, AtWork
    <3>4. OwnerKnows'
      BY <3>3 DEF OwnerKnows
    <3>5. /\ JobOK(Retry(job, owner.retry))
          /\ \A s \in Stages : Retry(job, owner.retry).artifact[s] \in {job.artifact[s], NoArtifact}
      BY <1>1, <3>1, RetryOK, ReferencesReset
    <3> QED
      BY <1>1, <1>6, <3>2, <3>3, <3>4, <3>5, JobWritten DEF PrepareRetry, JobBecomes
  <2>2. CASE ~CanRetry(job)
    <3>1. owner' = NoOwner
      BY <1>6, <2>2 DEF PrepareRetry
    <3>2. OwnerKnows'
      BY <3>1, NobodyYet DEF OwnerKnows
    <3> QED
      BY <1>1, <1>6, <2>2, <3>1, <3>2, NobodyYet, OwnerAlone DEF PrepareRetry, Stay
  <2> QED
    BY <2>1, <2>2
<1>7. CASE CrashOwner
  <2>1. /\ owner' \in OwnerType /\ owner'.copy = NoOwner.copy /\ owner'.pc = "Dead"
        /\ owner'.fresh = FALSE
    BY <1>7, NobodyYet DEF CrashOwner, OwnerType, Free
  <2>2. OwnerKnows'
    BY <2>1 DEF OwnerKnows
  <2> QED
    BY <1>1, <1>7, <2>1, <2>2, NobodyYet, OwnerAlone DEF CrashOwner, Stay
<1> QED
  BY <1>2, <1>3, <1>4, <1>5, <1>6, <1>7

LEMMA BeginKeeps ==
    ASSUME CommitInv, Begin
    PROVE  CommitInv'
<1>1. /\ owner \in OwnerType /\ JobOK(job) /\ JobOK(owner.copy) /\ file \in FileType
      /\ job \in Job /\ OwnerKnows
  BY OwnerFields
<1>2. 1 \in Stages /\ 1 \in 0 .. StageCount + 1
  BY JobAssumption DEF Stages
<1>3. CASE job.status # "Pending"
  <2>1. owner' = NoOwner /\ Stay
    BY <1>3 DEF Begin
  <2>2. OwnerKnows'
    BY <2>1, NobodyYet DEF OwnerKnows
  <2> QED
    BY <1>1, <2>1, <2>2, NobodyYet, OwnerAlone DEF Begin, Stay
<1>4. CASE job.status = "Pending" /\ job.cancel_requested
  <2>1. JobBecomes(Cancel(job)) /\ owner' = NoOwner
    BY <1>4 DEF Begin, OwnerWrites
  <2>2. OwnerKnows'
    BY <2>1, NobodyYet DEF OwnerKnows
  <2>3. JobOK(Cancel(job)) /\ Cancel(job).artifact = job.artifact
    BY <1>1, <1>2, <1>4, CancelOK, ReferencesStay DEF CanCancel, IsTerminal, JobTerminal
  <2> QED
    BY <2>1, <2>2, <2>3, NobodyYet, JobWritten DEF Begin, JobBecomes
<1>5. CASE job.status = "Pending" /\ ~job.cancel_requested
  <2>1. /\ JobBecomes(Start(job))
        /\ owner' = [owner EXCEPT !.pc = "Stage", !.stage = 1, !.fresh = TRUE, !.copy = Start(job)]
    BY <1>5 DEF Begin, OwnerWrites
  <2>2. /\ JobOK(Start(job)) /\ Start(job) \in Job /\ Start(job).artifact = job.artifact
        /\ Start(job).status = "Running" /\ Start(job).cancel_requested = job.cancel_requested
    BY <1>1, <1>2, <1>5, StartOK, ReferencesStay DEF CanStart, JobOK
  <2>3. /\ owner' \in OwnerType /\ owner'.copy = Start(job) /\ owner'.pc = "Stage"
        /\ owner'.stage = 1
    BY <1>1, <1>2, <2>1, <2>2 DEF OwnerType
  <2>4. job' = Start(job)
    BY <2>1 DEF JobBecomes
  <2>5. OwnerKnows'
    BY <1>5, <2>2, <2>3, <2>4 DEF OwnerKnows, AtWork
  <2> QED
    BY <2>1, <2>2, <2>3, <2>4, <2>5, JobWritten DEF Begin, JobBecomes
<1> QED
  BY <1>3, <1>4, <1>5

LEMMA StageKeeps ==
    ASSUME CommitInv, Gate \/ ReuseStage \/ RunStage
    PROVE  CommitInv'
<1>1. /\ owner \in OwnerType /\ JobOK(job) /\ JobOK(owner.copy) /\ file \in FileType
      /\ job \in Job /\ OwnerKnows
  BY OwnerFields
<1>2. owner.pc = "Stage" /\ owner.stage # 0
  BY <1>1 DEF Gate, ReuseStage, RunStage, OwnerKnows
<1>3. CASE Gate
  <2>1. /\ owner' \in OwnerType /\ owner'.copy = owner.copy /\ owner'.pc = "Error"
        /\ owner'.fresh = owner.fresh /\ owner'.stage = owner.stage
    BY <1>1, <1>3 DEF Gate, OwnerGoes, OwnerType
  <2>2. ~owner.fresh
    BY <1>1, <1>3 DEF Gate, OwnerKnows
  <2>3. OwnerKnows'
    BY <2>1, <2>2 DEF OwnerKnows
  <2> QED
    BY <1>1, <1>3, <2>1, <2>3, OwnerAlone DEF Gate, Stay
<1>4. CASE ReuseStage
  <2>1. owner.stage \in Stages /\ owner.stage + 1 \in 0 .. StageCount + 1 /\ owner.stage + 1 # 0
    BY <1>1, <1>2, <1>4, JobAssumption DEF ReuseStage, OwnerType, Stages
  <2>2. \/ owner' = [owner EXCEPT !.stage = @ + 1]
        \/ owner' = [owner EXCEPT !.pc = "Error"]
    BY <1>4 DEF ReuseStage
  <2>3. /\ owner' \in OwnerType /\ owner'.copy = owner.copy /\ owner'.pc \in {"Stage", "Error"}
        /\ owner'.fresh = owner.fresh
        /\ owner'.pc = "Error" => owner'.stage = owner.stage
        /\ owner'.pc = "Stage" => owner'.stage # 0
    BY <1>1, <1>2, <2>1, <2>2 DEF OwnerType
  <2>4. UNCHANGED job
    BY <1>4 DEF ReuseStage, Stay
  <2>5. OwnerKnows'
    BY <1>1, <2>1, <2>3, <2>4 DEF OwnerKnows, AtWork
  <2> QED
    BY <1>1, <1>4, <2>3, <2>5, OwnerAlone DEF ReuseStage, Stay
<1>5. CASE RunStage
  <2> DEFINE k == owner.stage
             copy == StartStage(owner.copy, k)
  <2>1. k \in Stages /\ CanEnterStage(owner.copy, k) /\ owner.copy \in Job
    <3>1. owner.stage <= StageCount /\ CanEnterStage(owner.copy, owner.stage)
      BY <1>5 DEF RunStage
    <3>2. owner.stage \in 0 .. StageCount + 1 /\ owner.copy \in Job
      BY <1>1 DEF OwnerType
    <3> QED
      BY <1>2, <3>1, <3>2, JobAssumption DEF Stages
  <2>2. /\ JobOK(copy) /\ copy \in Job /\ copy.artifact = owner.copy.artifact
        /\ copy.status = owner.copy.status /\ copy.stage[k] = "Running"
        /\ copy.cancel_requested = owner.copy.cancel_requested
    BY <1>1, <2>1, StartStageOK, ReferencesStay DEF JobOK
  <2> HIDE DEF copy
  <2>3. UNCHANGED <<rows, job, editor>>
    BY <1>5 DEF RunStage, Stay
  <2>4. ASSUME owner' = [[owner EXCEPT !.copy = copy] EXCEPT !.pc = "Error"], UNCHANGED file
        PROVE  CommitInv'
    <3>1. /\ owner' \in OwnerType /\ owner'.copy = copy /\ owner'.pc = "Error"
          /\ owner'.fresh = owner.fresh /\ owner'.stage = k
      BY <1>1, <2>2, <2>4 DEF OwnerType
    <3>2. OwnerKnows'
      BY <1>1, <2>1, <2>2, <2>3, <3>1 DEF OwnerKnows, AtWork
    <3> QED
      BY <1>1, <2>2, <2>3, <2>4, <3>1, <3>2, OwnerAlone
  <2>5. ASSUME NEW c \in Contents,
               owner' = [[owner EXCEPT !.copy = copy] EXCEPT !.pc = "Publish", !.content = c,
                                                             !.published = FALSE],
               file' = [file EXCEPT ![<<k, Side>>] = IF k \in Sidecar THEN c ELSE @,
                                    ![Here] = IF k \in Exported THEN c ELSE @]
        PROVE  CommitInv'
    <3>1. /\ owner' \in OwnerType /\ owner'.copy = copy /\ owner'.pc = "Publish"
          /\ owner'.fresh = owner.fresh /\ owner'.stage = k /\ owner'.content = c
      BY <1>1, <2>2, <2>5 DEF OwnerType
    <3>2. OwnerKnows'
      BY <1>1, <1>2, <2>1, <2>2, <2>3, <3>1 DEF OwnerKnows, AtWork, CanCompleteStage
    <3>3. file' \in FileType
      BY <1>1, <2>5 DEF FileType
    <3> QED
      BY <2>2, <2>3, <3>1, <3>2, <3>3, OwnerAlone
  <2>6. Output(k) \subseteq Contents
    <3>1. Default \in Contents
      BY CommitAssumption DEF Default
    <3> QED
      BY <3>1 DEF Output
  <2> QED
    BY <1>5, <2>4, <2>5, <2>6 DEF RunStage, copy
<1> QED
  BY <1>3, <1>4, <1>5

LEMMA PublishKeeps ==
    ASSUME CommitInv, Publish \/ Rename \/ RemovePublished
    PROVE  CommitInv'
<1>1. /\ owner \in OwnerType /\ JobOK(job) /\ JobOK(owner.copy) /\ file \in FileType
      /\ job \in Job /\ OwnerKnows
  BY OwnerFields
<1>2. owner.stage \in Stages /\ owner.content \in Contents
  BY <1>1 DEF Publish, Rename, RemovePublished, OwnerKnows
<1>3. UNCHANGED <<rows, job, editor>>
  BY DEF Publish, Rename, RemovePublished, Stay
<1>4. file' \in FileType
  <2>1. \/ UNCHANGED file
        \/ \E c \in Contents \union {NoFile} : \E p : file' = [file EXCEPT ![p] = c]
        \/ file' = [file EXCEPT ![Here] = owner.content, ![HerePartial] = NoFile]
    BY <1>2 DEF Publish, Rename, RemovePublished, Put
  <2> QED
    BY <1>1, <1>2, <2>1 DEF FileType
<1>5. /\ owner' \in OwnerType /\ owner'.copy = owner.copy /\ owner'.fresh = owner.fresh
      /\ owner'.stage = owner.stage /\ owner'.content = owner.content
      /\ owner'.pc \in {"Commit", "Rename", "Error"}
      /\ owner'.pc \in {"Commit", "Rename"} => owner.pc \in {"Publish", "Rename"}
  <2>1. \/ \E pc \in {"Commit", "Rename", "Error"} :
              /\ owner' = [owner EXCEPT !.pc = pc]
              /\ pc \in {"Commit", "Rename"} => owner.pc \in {"Publish", "Rename"}
        \/ /\ owner' = [owner EXCEPT !.pc = "Commit", !.published = TRUE]
           /\ owner.pc = "Rename"
    BY DEF Publish, Rename, RemovePublished, OwnerGoes
  <2> QED
    BY <1>1, <2>1 DEF OwnerType
<1>6. OwnerKnows'
  BY <1>1, <1>2, <1>3, <1>5 DEF OwnerKnows, AtWork, Publish, Rename, RemovePublished
<1> QED
  BY <1>1, <1>3, <1>4, <1>5, <1>6, OwnerAlone

LEMMA EndKeeps ==
    ASSUME CommitInv, Complete \/ EndInError
    PROVE  CommitInv'
<1>1. /\ owner \in OwnerType /\ JobOK(job) /\ JobOK(owner.copy) /\ file \in FileType
      /\ job \in Job /\ owner.copy \in Job /\ OwnerKnows
  BY OwnerFields DEF OwnerType
<1>2. 1 \in Stages
  BY JobAssumption DEF Stages
<1>3. ASSUME owner' = NoOwner, UNCHANGED <<file, rows, job, editor>>
      PROVE  CommitInv'
  <2>1. OwnerKnows'
    BY <1>3, NobodyYet DEF OwnerKnows
  <2> QED
    BY <1>1, <1>3, <2>1, NobodyYet, OwnerAlone
<1>4. ASSUME NEW j, owner' = NoOwner, JobBecomes(j), JobOK(j),
             \A s \in Stages : j.artifact[s] = job.artifact[s], UNCHANGED <<file, rows>>
      PROVE  CommitInv'
  <2>1. OwnerKnows'
    BY <1>4, NobodyYet DEF OwnerKnows
  <2> QED
    BY <1>4, <2>1, NobodyYet, JobWritten DEF JobBecomes
<1>5. CASE Complete /\ owner.fresh
  <2>1. CanFinish(owner.copy) /\ JobBecomes(Finish(owner.copy)) /\ owner' = NoOwner
    BY <1>5 DEF Complete, OwnerWrites
  <2>2. JobOK(Finish(owner.copy)) /\ Finish(owner.copy).artifact = job.artifact
    BY <1>1, <1>2, <1>5, <2>1, FinishOK, ReferencesStay DEF OwnerKnows
  <2> QED
    BY <1>4, <1>5, <2>1, <2>2 DEF Complete
<1>6. CASE Complete /\ ~owner.fresh
  <2>1. /\ owner' \in OwnerType /\ owner'.copy = owner.copy /\ owner'.pc = "Error"
        /\ owner'.fresh = owner.fresh
    BY <1>1, <1>6 DEF Complete, OwnerGoes, OwnerType
  <2>2. OwnerKnows'
    BY <1>6, <2>1 DEF OwnerKnows
  <2> QED
    BY <1>1, <1>6, <2>1, <2>2, OwnerAlone DEF Complete, Stay
<1>7. CASE EndInError /\ job.cancel_requested /\ CanCancel(job)
  <2>1. JobOK(Cancel(job)) /\ Cancel(job).artifact = job.artifact
    BY <1>1, <1>2, <1>7, CancelOK, ReferencesStay
  <2> QED
    BY <1>4, <1>7, <2>1 DEF EndInError, OwnerWrites
<1>8. CASE EndInError /\ ~(job.cancel_requested /\ CanCancel(job)) /\ owner.fresh
  <2>1. owner.stage \in Stages /\ owner.copy.artifact = job.artifact /\ owner.copy.status = "Running"
    BY <1>1, <1>8 DEF EndInError, OwnerKnows
  <2>2. CASE CanFailStage(owner.copy, owner.stage)
    <3>1. /\ JobOK(FailStage(owner.copy, owner.stage))
          /\ FailStage(owner.copy, owner.stage).artifact = job.artifact
      BY <1>1, <2>1, <2>2, FailStageOK, ReferencesStay
    <3> QED
      BY <1>4, <1>8, <2>2, <3>1 DEF EndInError, OwnerWrites
  <2>3. CASE ~CanFailStage(owner.copy, owner.stage)
    <3>1. /\ JobOK(Cancel(owner.copy)) /\ Cancel(owner.copy).artifact = job.artifact
      BY <1>1, <2>1, <2>3, CancelOK, ReferencesStay DEF CanCancel, IsTerminal, JobTerminal
    <3> QED
      BY <1>4, <1>8, <2>3, <3>1 DEF EndInError, OwnerWrites
  <2> QED
    BY <2>2, <2>3
<1>9. CASE EndInError /\ ~(job.cancel_requested /\ CanCancel(job)) /\ ~owner.fresh
  BY <1>3, <1>9 DEF EndInError, Stay
<1> QED
  BY <1>5, <1>6, <1>7, <1>8, <1>9

LEMMA OthersKeep ==
    ASSUME CommitInv, AskCancel \/ Lose
    PROVE  CommitInv'
<1>1. /\ owner \in OwnerType /\ JobOK(job) /\ JobOK(owner.copy) /\ file \in FileType
      /\ job \in Job /\ rows \in Seq(Row) /\ OwnerKnows
  BY OwnerFields
<1>2. CASE AskCancel
  <2>1. 1 \in Stages
    BY JobAssumption DEF Stages
  <2>2. JobOK(job') /\ job'.artifact = job.artifact
    BY <1>1, <1>2, <2>1, CancelOK, RequestCancelOK, ReferencesStay DEF AskCancel, CanCancel
  <2>3. /\ owner' \in OwnerType /\ owner'.copy = owner.copy /\ owner'.pc = owner.pc
        /\ owner'.fresh = FALSE /\ owner'.stage = owner.stage /\ owner'.content = owner.content
    BY <1>1, <1>2 DEF AskCancel, OwnerType
  <2>4. OwnerKnows'
    BY <1>1, <2>3 DEF OwnerKnows
  <2> QED
    BY <1>1, <1>2, <2>2, <2>3, <2>4, JobWritten DEF AskCancel
<1>3. CASE Lose
  <2>1. file' \in FileType /\ UNCHANGED <<rows, job, owner, editor>>
    BY <1>1, <1>3 DEF Lose, Put, FileType
  <2>2. OwnerKnows'
    BY <1>1, <2>1 DEF OwnerKnows
  <2> QED
    BY <1>1, <2>1, <2>2, OwnerAlone
<1> QED
  BY <1>2, <1>3

-----------------------------------------------------------------------------
(* Steps that write rows. *)

LEMMA RowFields ==
    ASSUME rows \in Seq(Row)
    PROVE  /\ DOMAIN rows = 1 .. Len(rows) /\ Len(rows) \in Nat
           /\ \A i \in DOMAIN rows : /\ rows[i].stage \in Stages /\ rows[i].path \in Path
                                    /\ rows[i].content \in Contents
<1>1. rows \in [1 .. Len(rows) -> Row] /\ DOMAIN rows = 1 .. Len(rows) /\ Len(rows) \in Nat
  BY LenProperties
<1> QED
  BY <1>1 DEF Row

LEMMA RowAdded ==
    ASSUME CommitInv, Len(rows) < MaxRows, NEW s \in Stages, NEW p \in Path, NEW c \in Contents,
           p[1] = s, p[2] >= Final, AddRow(s, p, c)
    PROVE  /\ rows' \in Seq(Row) /\ Len(rows') <= MaxRows /\ RowsNamed' /\ RowsSame
           /\ Len(rows) + 1 \in Artifacts /\ Len(rows) + 1 \in DOMAIN rows'
           /\ rows'[Len(rows) + 1].stage = s /\ rows'[Len(rows) + 1].path = p
           /\ rows'[Len(rows) + 1].content = c /\ rows'[Len(rows) + 1].committed
           /\ \A i \in DOMAIN rows' : i \in DOMAIN rows \/ i = Len(rows) + 1
<1> DEFINE r == [stage |-> s, path |-> p, content |-> c, committed |-> TRUE]
           n == Len(rows) + 1
<1>1. r \in Row /\ r.stage = s /\ r.path = p /\ r.content = c /\ r.committed
  BY DEF Row
<1>2. rows \in Seq(Row) /\ rows' = Append(rows, r)
  BY OwnerFields DEF AddRow
<1> HIDE DEF r
<1>3. /\ rows' \in Seq(Row) /\ Len(rows') = n
      /\ \A i \in 1 .. Len(rows) : rows'[i] = rows[i]
      /\ rows'[n] = r
  BY <1>1, <1>2, AppendProperties
<1>4. /\ DOMAIN rows = 1 .. Len(rows) /\ DOMAIN rows' = 1 .. n /\ Len(rows) \in Nat
  BY <1>2, <1>3, LenProperties
<1>5. MaxRows \in Nat /\ Artifacts = 1 .. MaxRows
  BY CommitAssumption
<1>6. RowsSame /\ \A i \in DOMAIN rows' : i \in DOMAIN rows \/ i = n
  BY <1>3, <1>4 DEF RowsSame
<1>7. RowsNamed'
  BY <1>1, <1>3, <1>6 DEF CommitInv, Typed, RowsNamed, RowsSame
<1>8. n \in Artifacts /\ n \in DOMAIN rows' /\ Len(rows') <= MaxRows
  BY <1>3, <1>4, <1>5
<1> QED
  BY <1>1, <1>3, <1>6, <1>7, <1>8

\* What recover_artifacts takes from the Job covers every reference to a row
\* whose file is gone or changed.
LEMMA BrokenAreDropped ==
    ASSUME CommitInv, Broken # {}
    PROVE  /\ JobOK(InvalidateAll(job, Broken))
           /\ \A s \in Stages :
                 /\ InvalidateAll(job, Broken).artifact[s] \in {job.artifact[s], NoArtifact}
                 /\ InvalidateAll(job, Broken).artifact[s] # NoArtifact => job.artifact[s] \notin Broken
<1> DEFINE S == {rows[i].stage : i \in Broken}
           low == Lowest(S)
<1>1. rows \in Seq(Row) /\ job \in Job /\ JobOK(job)
  BY OwnerFields
<1>2. S \subseteq Stages /\ S # {}
  BY <1>1, RowFields DEF Broken, Committed
<1>3. S \in SUBSET Nat
  BY <1>2, JobAssumption DEF Stages
<1>4. low \in S /\ \A t \in S : low <= t
  BY <1>2, <1>3, LowestIsLeast
<1>5. InvalidateAll(job, Broken) = InvalidateStage(job, low)
  BY DEF InvalidateAll
<1>6. low \in Stages
  BY <1>2, <1>4
<1>7. JobOK(InvalidateStage(job, low))
  BY <1>1, <1>6, InvalidateStageOK
<1>8. \A s \in Stages : InvalidateStage(job, low).artifact[s]
                          = IF s < low THEN job.artifact[s] ELSE NoArtifact
  BY <1>1, <1>6, ReferencesReset
<1>9. ASSUME NEW s \in Stages, s < low, job.artifact[s] # NoArtifact
      PROVE  job.artifact[s] \notin Broken
  <2>1. rows[job.artifact[s]].stage = s
    BY <1>9 DEF CommitInv, ReferencesAreCommitted, Referenced
  <2>2. SUFFICES ASSUME job.artifact[s] \in Broken
                 PROVE  FALSE
    OBVIOUS
  <2>3. s \in S
    BY <2>1, <2>2
  <2>4. s \in Nat /\ low \in Nat /\ low <= s
    BY <1>3, <1>4, <2>3
  <2> QED
    BY <1>9, <2>4
<1> HIDE DEF low
<1> QED
  BY <1>5, <1>7, <1>8, <1>9

LEMMA RowsUnmarked ==
    ASSUME CommitInv, RecoverRows
    PROVE  /\ rows' \in Seq(Row) /\ Len(rows') = Len(rows) /\ DOMAIN rows' = DOMAIN rows
           /\ \A i \in DOMAIN rows :
                 /\ rows'[i].stage = rows[i].stage /\ rows'[i].path = rows[i].path
                 /\ rows'[i].content = rows[i].content
                 /\ rows'[i].committed <=> rows[i].committed /\ i \notin Broken
                 /\ Broken = {} => rows'[i] = rows[i]
<1>1. rows \in Seq(Row)
  BY OwnerFields
<1>2. rows \in [1 .. Len(rows) -> Row] /\ DOMAIN rows = 1 .. Len(rows) /\ Len(rows) \in Nat
  BY <1>1, LenProperties
<1>3. PICK B : B = Broken
  OBVIOUS
<1>4. rows' = [i \in DOMAIN rows |-> [rows[i] EXCEPT !.committed = @ /\ i \notin B]]
  BY <1>3 DEF RecoverRows
<1>5. ASSUME NEW i \in DOMAIN rows
      PROVE  /\ rows'[i] \in Row
             /\ rows'[i].stage = rows[i].stage /\ rows'[i].path = rows[i].path
             /\ rows'[i].content = rows[i].content
             /\ rows'[i].committed <=> rows[i].committed /\ i \notin B
             /\ B = {} => rows'[i] = rows[i]
  <2>1. rows[i] \in Row
    BY <1>2
  <2>2. PICK b \in BOOLEAN : b <=> rows[i].committed /\ i \notin B
    BY <2>1 DEF Row
  <2>3. rows'[i] = [rows[i] EXCEPT !.committed = b]
    BY <1>4, <2>1, <2>2 DEF Row
  <2>4. rows'[i] \in Row /\ rows'[i].stage = rows[i].stage /\ rows'[i].path = rows[i].path
        /\ rows'[i].content = rows[i].content /\ rows'[i].committed = b
    BY <2>1, <2>3 DEF Row
  <2>5. B = {} => b = rows[i].committed
    BY <2>1, <2>2 DEF Row
  <2>6. B = {} => rows'[i] = rows[i]
    BY <2>1, <2>3, <2>5 DEF Row
  <2> QED
    BY <2>2, <2>4, <2>6
<1>6. DOMAIN rows' = 1 .. Len(rows)
  BY <1>2, <1>4
<1>7. rows' \in [1 .. Len(rows) -> Row]
  BY <1>2, <1>4, <1>5, <1>6
<1>8. rows' \in Seq(Row)
  BY <1>2, <1>7, SeqDef
<1>9. Len(rows') = Len(rows)
  BY <1>2, <1>6, <1>8, LenProperties
<1> QED
  BY <1>2, <1>3, <1>5, <1>6, <1>8, <1>9

LEMMA RecoverRowsKeeps ==
    ASSUME CommitInv, RecoverRows
    PROVE  CommitInv'
<1>1. /\ owner \in OwnerType /\ JobOK(job) /\ JobOK(owner.copy) /\ file \in FileType
      /\ job \in Job /\ rows \in Seq(Row) /\ OwnerKnows /\ (owner.pc \notin AtWork => ~owner.fresh)
  BY OwnerFields
<1>2. /\ rows' \in Seq(Row) /\ Len(rows') = Len(rows) /\ DOMAIN rows' = DOMAIN rows
      /\ \A i \in DOMAIN rows :
            /\ rows'[i].stage = rows[i].stage /\ rows'[i].path = rows[i].path
            /\ rows'[i].committed <=> rows[i].committed /\ i \notin Broken
            /\ Broken = {} => rows'[i] = rows[i]
  BY RowsUnmarked
<1>3. PICK kept \in SUBSET Path : owner' = [owner EXCEPT !.pc = "ListFiles", !.keep = kept]
  <2>1. {rows[i].path : i \in Committed} \subseteq Path
    BY <1>1, RowFields DEF Committed
  <2> QED
    BY <2>1 DEF RecoverRows
<1>4. /\ owner' \in OwnerType /\ owner'.copy = owner.copy /\ owner'.pc = "ListFiles"
      /\ ~owner'.fresh
  BY <1>1, <1>3 DEF RecoverRows, OwnerType, AtWork
<1>5. OwnerKnows'
  BY <1>4 DEF OwnerKnows
<1>6. RowsNamed'
  BY <1>2 DEF CommitInv, Typed, RowsNamed
<1>7. RowsMore /\ (Broken = {} => RowsSame)
  BY <1>2 DEF RowsMore, RowsSame
<1>8. /\ JobOK(job') /\ EditorKnows' /\ editor' \in [Editors -> EditorType]
      /\ ReferencesAreCommitted'
  <2>1. CASE Broken = {}
    <3>1. UNCHANGED <<job, editor>>
      BY <2>1 DEF RecoverRows, Stay
    <3>2. editor \in [Editors -> EditorType]
      BY Types DEF CommitInv, Typed
    <3>3. \A e \in Editors : Knows(editor[e])'
      BY <1>7, <2>1, <3>1, EditorsStay
    <3>4. ReferencesAreCommitted'
      BY <1>2, <2>1, <3>1 DEF CommitInv, ReferencesAreCommitted, Referenced, Committed
    <3> QED
      BY <1>1, <3>1, <3>2, <3>3, <3>4 DEF EditorKnows
  <2>2. CASE Broken # {}
    <3>1. job' = InvalidateAll(job, Broken) /\ editor' = Outdated(Editors)
      BY <2>2 DEF RecoverRows, JobBecomes
    <3>2. /\ JobOK(job')
          /\ \A s \in Stages : /\ job'.artifact[s] \in {job.artifact[s], NoArtifact}
                               /\ job'.artifact[s] # NoArtifact => job.artifact[s] \notin Broken
      BY <2>2, <3>1, BrokenAreDropped
    <3>3. EditorKnows' /\ editor' \in [Editors -> EditorType]
      BY <1>7, <3>1, EditorsLeft
    <3>4. ReferencesAreCommitted'
      BY <1>2, <3>2 DEF CommitInv, ReferencesAreCommitted, Referenced, Committed
    <3> QED
      BY <3>2, <3>3, <3>4
  <2> QED
    BY <2>1, <2>2
<1>9. Typed'
  BY <1>1, <1>2, <1>4, <1>6, <1>8, Types
     DEF CommitInv, Typed, TypeOK, JobOK, FileType, OwnerType, EditorType, RecoverRows
<1> QED
  BY <1>5, <1>8, <1>9 DEF CommitInv

LEMMA CommitKeeps ==
    ASSUME CommitInv, Commit
    PROVE  CommitInv'
<1> DEFINE k == owner.stage
           a == Len(rows) + 1
<1>1. /\ owner \in OwnerType /\ JobOK(job) /\ JobOK(owner.copy) /\ owner.copy \in Job
      /\ file \in FileType /\ job \in Job /\ rows \in Seq(Row) /\ OwnerKnows
  BY OwnerFields DEF OwnerType
<1>2. owner.pc = "Commit" /\ UNCHANGED file
  BY DEF Commit
<1>3. k \in Stages /\ owner.content \in Contents /\ CanCompleteStage(owner.copy, k)
  BY <1>1, <1>2 DEF OwnerKnows
<1>4. ASSUME NEW pc \in {"Remove", "Error"}, OwnerGoes(pc), UNCHANGED rows, Stay, ~owner.fresh \/ k \in Stages
      PROVE  CommitInv'
  <2>1. /\ owner' \in OwnerType /\ owner'.copy = owner.copy /\ owner'.pc = pc
        /\ owner'.fresh = owner.fresh /\ owner'.stage = k /\ owner'.content = owner.content
    BY <1>1, <1>4 DEF OwnerGoes, OwnerType
  <2>2. OwnerKnows'
    BY <1>1, <1>2, <1>3, <1>4, <2>1 DEF OwnerKnows, AtWork, Stay
  <2> QED
    BY <1>1, <1>2, <1>4, <2>1, <2>2, OwnerAlone DEF Stay
<1>5. ASSUME owner.fresh, Len(rows) < MaxRows, AddRow(k, Here, owner.content),
             NEW degraded \in BOOLEAN, NEW j, j = CompleteStage(owner.copy, k, a, degraded),
             OwnerWrites(j, [owner EXCEPT !.pc = "Stage", !.stage = @ + 1, !.copy = j])
      PROVE  CommitInv'
  <2>1. Here \in Path /\ Here[1] = k /\ Here[2] >= Final
    BY <1>3, CommitAssumption DEF Here, Path, Final, Side
  <2>2. /\ rows' \in Seq(Row) /\ Len(rows') <= MaxRows /\ RowsNamed' /\ RowsSame
        /\ a \in Artifacts /\ a \in DOMAIN rows' /\ rows'[a].stage = k /\ rows'[a].committed
    BY <1>3, <1>5, <2>1, RowAdded
  <2>3. /\ owner.copy.artifact = job.artifact /\ owner.copy.status = "Running"
        /\ ~job.cancel_requested
    BY <1>1, <1>5 DEF OwnerKnows
  <2>4. /\ JobOK(j) /\ j \in Job
        /\ j.status = "Running" /\ j.cancel_requested = owner.copy.cancel_requested
        /\ \A s \in Stages : j.artifact[s] = IF s = k THEN a ELSE job.artifact[s]
    BY <1>1, <1>3, <1>5, <2>2, <2>3, CompleteStageOK, ReferencesSet DEF JobOK
  <2>5. k + 1 \in 0 .. StageCount + 1 /\ k + 1 # 0
    BY <1>3, JobAssumption DEF Stages
  <2>6. owner' = [owner EXCEPT !.pc = "Stage", !.stage = k + 1, !.copy = j]
    BY <1>5 DEF OwnerWrites
  <2>7. /\ owner' \in OwnerType /\ owner'.copy = j /\ owner'.pc = "Stage" /\ owner'.stage = k + 1
        /\ owner'.fresh = owner.fresh
    BY <1>1, <2>4, <2>5, <2>6 DEF OwnerType
  <2>8. job' = j /\ editor' = Outdated(Editors)
    BY <1>5 DEF OwnerWrites, JobBecomes
  <2>9. OwnerKnows'
    BY <1>1, <1>2, <2>4, <2>5, <2>7, <2>8 DEF OwnerKnows, AtWork
  <2>10. RowsMore
    BY <2>2 DEF RowsSame, RowsMore
  <2>11. EditorKnows' /\ editor' \in [Editors -> EditorType]
    BY <2>8, <2>10, EditorsLeft
  <2>12. ReferencesAreCommitted'
    <3>1. ASSUME NEW s \in Stages, j.artifact[s] # NoArtifact
          PROVE  /\ j.artifact[s] \in DOMAIN rows' /\ rows'[j.artifact[s]].committed
                 /\ rows'[j.artifact[s]].stage = s
      <4>1. CASE s = k
        BY <2>2, <2>4, <4>1
      <4>2. CASE s # k
        <5>1. j.artifact[s] = job.artifact[s]
          BY <2>4, <4>2
        <5>2. /\ job.artifact[s] \in DOMAIN rows /\ rows[job.artifact[s]].committed
              /\ rows[job.artifact[s]].stage = s
          BY <3>1, <5>1 DEF CommitInv, ReferencesAreCommitted, Referenced, Committed
        <5> QED
          BY <2>2, <5>1, <5>2 DEF RowsSame
      <4> QED
        BY <4>1, <4>2
    <3> QED
      BY <2>8, <3>1 DEF ReferencesAreCommitted, Referenced, Committed
  <2>13. Typed'
    BY <1>1, <1>2, <2>2, <2>4, <2>7, <2>8, <2>11, Types
       DEF Typed, TypeOK, FileType, OwnerType, EditorType
  <2> QED
    BY <2>9, <2>11, <2>12, <2>13 DEF CommitInv
<1> QED
  BY <1>3, <1>4, <1>5 DEF Commit, OwnerHolds

-----------------------------------------------------------------------------
(* The editors. *)

\* A step of one editor that leaves the Job alone.
LEMMA EditorAlone ==
    ASSUME CommitInv, UNCHANGED <<job, owner>>, file' \in FileType,
           rows' \in Seq(Row), Len(rows') <= MaxRows, RowsNamed', RowsSame,
           NEW e \in Editors, NEW ed \in EditorType, editor' = [editor EXCEPT ![e] = ed],
           Knows(ed)'
    PROVE  CommitInv'
<1>1. editor \in [Editors -> EditorType]
  BY Types DEF CommitInv, Typed
<1>2. editor' \in [Editors -> EditorType]
  BY <1>1
<1>3. editor'[e] = ed /\ \A f \in Editors \ {e} : editor'[f] = editor[f]
  BY <1>1
<1>4. \A f \in Editors \ {e} : Knows(editor[f])'
  BY <1>3, EditorsStay
<1>5. Knows(editor[e])'
  BY <1>3 DEF Knows, RevisionOf
<1>6. EditorKnows'
  BY <1>4, <1>5 DEF EditorKnows
<1>7. ReferencesAreCommitted'
  <2>1. ASSUME NEW s \in Referenced(job)
        PROVE  /\ job.artifact[s] \in DOMAIN rows' /\ rows'[job.artifact[s]].committed
               /\ rows'[job.artifact[s]].stage = s
    BY DEF CommitInv, ReferencesAreCommitted, Committed, RowsSame
  <2> QED
    BY <2>1 DEF ReferencesAreCommitted, Referenced, Committed
<1>8. Typed'
  BY <1>2, Types DEF CommitInv, Typed, TypeOK, FileType, OwnerType, EditorType
<1>9. OwnerKnows'
  BY DEF CommitInv, OwnerKnows
<1> QED
  BY <1>6, <1>7, <1>8, <1>9 DEF CommitInv

LEMMA EditorFields ==
    ASSUME CommitInv, NEW e \in Editors
    PROVE  /\ editor \in [Editors -> EditorType] /\ editor[e] \in EditorType /\ Knows(editor[e])
           /\ RowsSame => Len(rows) <= MaxRows
           /\ UNCHANGED rows => /\ rows' \in Seq(Row) /\ Len(rows') <= MaxRows
                                /\ RowsNamed' /\ RowsSame
BY Types DEF CommitInv, Typed, EditorKnows, RowsNamed, RowsSame

LEMMA EditLoadKeeps ==
    ASSUME CommitInv, NEW e \in Editors, EditLoad(e)
    PROVE  CommitInv'
<1>0. PICK s \in Stages, c \in Contents :
          LET revision == rows[job.artifact[s]].path[2] + 1
          IN  /\ Newest(s) /\ Valid(job.artifact[s]) /\ revision <= MaxRevision
              /\ editor' = [editor EXCEPT ![e] =
                     [pc |-> "Write", fresh |-> TRUE, stage |-> s,
                      revision |-> revision, content |-> c, row |-> NoArtifact]]
  BY DEF EditLoad
<1>1. PICK n :
          /\ n = rows[job.artifact[s]].path[2] + 1
          /\ Newest(s) /\ Valid(job.artifact[s]) /\ n <= MaxRevision
          /\ editor' = [editor EXCEPT ![e] =
                 [pc |-> "Write", fresh |-> TRUE, stage |-> s,
                  revision |-> n, content |-> c, row |-> NoArtifact]]
  BY <1>0
<1> DEFINE ed == [pc |-> "Write", fresh |-> TRUE, stage |-> s,
                  revision |-> n, content |-> c, row |-> NoArtifact]
<1>2. Completed(job, s)
  BY <1>1 DEF Newest, IsTranscript
<1>3. job.artifact[s] \in DOMAIN rows
  BY <1>2, CompletedHasRow
<1>4. n \in 0 .. MaxRevision /\ n > Final
  <2>1. rows[job.artifact[s]].path \in Path
    BY <1>3, OwnerFields, RowFields
  <2>2. rows[job.artifact[s]].path[2] \in Side .. MaxRevision
    BY <2>1 DEF Path
  <2>3. rows[job.artifact[s]].path[2] >= Final
    BY <1>3 DEF CommitInv, Typed, RowsNamed
  <2>4. MaxRevision \in Nat
    BY CommitAssumption
  <2> QED
    BY <1>1, <2>2, <2>3, <2>4 DEF Side, Final
<1>5. s \in 0 .. StageCount
  BY JobAssumption DEF Stages
<1>6. ed \in EditorType
  BY <1>4, <1>5 DEF EditorType
<1>7. /\ ed.pc = "Write" /\ ed.fresh /\ ed.stage = s /\ ed.revision = n /\ ed.content = c
  OBVIOUS
<1>8. editor' = [editor EXCEPT ![e] = ed]
  BY <1>1
<1> HIDE DEF ed
<1>9. UNCHANGED <<file, rows, job, owner>>
  BY DEF EditLoad
<1>10. Knows(ed)'
  BY <1>1, <1>2, <1>4, <1>7, <1>9 DEF Knows, RevisionOf
<1> QED
  BY <1>6, <1>8, <1>9, <1>10, OwnerFields, EditorFields, EditorAlone

LEMMA EditGoesKeeps ==
    ASSUME CommitInv, NEW e \in Editors, EditWrite(e) \/ EditValidate(e) \/ CrashEditor(e)
    PROVE  CommitInv'
<1>1. editor[e] \in EditorType /\ Knows(editor[e]) /\ editor \in [Editors -> EditorType]
  BY EditorFields
<1>2. UNCHANGED <<rows, job, owner>>
  BY DEF EditWrite, EditValidate, CrashEditor
<1>3. file' \in FileType
  <2>1. EditWrite(e) => editor[e].content \in Contents
    BY <1>1 DEF EditWrite, Knows
  <2> QED
    BY <2>1, OwnerFields DEF EditWrite, EditValidate, CrashEditor, Put, FileType
<1>4. PICK ed : /\ editor' = [editor EXCEPT ![e] = ed]
                /\ \/ ed = NoEdit
                   \/ /\ editor[e].pc \in {"Write", "Validate"}
                      /\ \E pc \in {"Validate", "Insert"} : ed = [editor[e] EXCEPT !.pc = pc]
  BY <1>1 DEF EditWrite, EditValidate, CrashEditor, EditorGoes, EditorLeaves
<1>5. CASE ed = NoEdit
  <2>1. ed \in EditorType /\ ed.pc = "Idle" /\ ~ed.fresh
    BY <1>5, NobodyYet
  <2>2. Knows(ed)'
    BY <2>1 DEF Knows
  <2> QED
    BY <1>2, <1>3, <1>4, <2>1, <2>2, EditorFields, EditorAlone
<1>6. ASSUME NEW pc \in {"Validate", "Insert"}, ed = [editor[e] EXCEPT !.pc = pc],
             editor[e].pc \in {"Write", "Validate"}
      PROVE  CommitInv'
  <2>1. /\ ed \in EditorType /\ ed.pc = pc /\ ed.fresh = editor[e].fresh
        /\ ed.stage = editor[e].stage /\ ed.revision = editor[e].revision
        /\ ed.content = editor[e].content
    BY <1>1, <1>6 DEF EditorType
  <2>2. Knows(ed)'
    BY <1>1, <1>2, <1>6, <2>1 DEF Knows, RevisionOf
  <2> QED
    BY <1>2, <1>3, <1>4, <2>1, <2>2, EditorFields, EditorAlone
<1> QED
  BY <1>4, <1>5, <1>6

LEMMA EditInsertKeeps ==
    ASSUME CommitInv, NEW e \in Editors, EditInsert(e)
    PROVE  CommitInv'
<1>0. PICK a, ed : a = Len(rows) + 1 /\ ed = [editor[e] EXCEPT !.pc = "Save", !.row = a]
  OBVIOUS
<1>1. editor[e] \in EditorType /\ Knows(editor[e]) /\ editor \in [Editors -> EditorType]
  BY EditorFields
<1>2. /\ editor[e].stage \in Stages /\ editor[e].revision > Final
      /\ editor[e].content \in Contents
  BY <1>1 DEF EditInsert, Knows
<1>3. Edited(e) \in Path /\ Edited(e)[1] = editor[e].stage /\ Edited(e)[2] >= Final
  BY <1>1, <1>2 DEF Edited, Path, EditorType, Final, Side
<1>4. /\ rows' \in Seq(Row) /\ Len(rows') <= MaxRows /\ RowsNamed' /\ RowsSame
      /\ a \in Artifacts /\ a \in DOMAIN rows' /\ rows'[a].stage = editor[e].stage
      /\ rows'[a].path = Edited(e) /\ rows'[a].committed
  BY <1>0, <1>2, <1>3, RowAdded DEF EditInsert
<1>5. editor' = [editor EXCEPT ![e] = ed] /\ UNCHANGED <<file, job, owner>>
  BY <1>0, <1>1 DEF EditInsert
<1>6. /\ ed \in EditorType /\ ed.pc = "Save" /\ ed.row = a
      /\ ed.stage = editor[e].stage /\ ed.revision = editor[e].revision
      /\ ed.content = editor[e].content /\ ed.fresh = editor[e].fresh
  BY <1>0, <1>1, <1>4 DEF EditorType
<1>7. editor[e].pc = "Insert"
  BY DEF EditInsert
<1>8. editor[e].fresh => Completed(job, editor[e].stage)
                         /\ editor[e].revision = RevisionOf(job, editor[e].stage) + 1
  BY <1>1 DEF Knows
<1>9. editor[e].fresh =>
          rows'[job.artifact[editor[e].stage]] = rows[job.artifact[editor[e].stage]]
  BY <1>2, <1>4, <1>8, CompletedHasRow DEF RowsSame
<1>10. Knows(ed)'
  BY <1>2, <1>4, <1>5, <1>6, <1>8, <1>9 DEF Knows, RevisionOf, Edited
<1> QED
  BY <1>4, <1>5, <1>6, <1>10, OwnerFields, EditorAlone

LEMMA EditSaveKeeps ==
    ASSUME CommitInv, NEW e \in Editors, EditSave(e)
    PROVE  CommitInv'
<1>1. editor[e] \in EditorType /\ Knows(editor[e]) /\ editor \in [Editors -> EditorType]
  BY EditorFields
<1>2. /\ owner \in OwnerType /\ JobOK(job) /\ JobOK(owner.copy) /\ file \in FileType
      /\ job \in Job /\ OwnerKnows
  BY OwnerFields
<1>3. editor[e].pc = "Save" /\ UNCHANGED <<file, rows>>
  BY DEF EditSave
<1>4. CASE ~editor[e].fresh
  <2>1. editor' = [editor EXCEPT ![e] = NoEdit] /\ UNCHANGED <<job, owner>>
    BY <1>4 DEF EditSave, EditorHolds, EditorLeaves
  <2>2. Knows(NoEdit)'
    BY NobodyYet DEF Knows
  <2> QED
    BY <1>2, <1>3, <2>1, <2>2, NobodyYet, EditorFields, EditorAlone
<1>5. CASE editor[e].fresh
  <2> DEFINE k == editor[e].stage
             a == editor[e].row
  <2>1. /\ job' = Revise(job, k, a)
        /\ owner' = [owner EXCEPT !.fresh = FALSE]
        /\ editor' = [Outdated(Editors \ {e}) EXCEPT ![e] = NoEdit]
    BY <1>5 DEF EditSave, EditorHolds
  <2>2. /\ k \in Stages /\ Completed(job, k) /\ a \in DOMAIN rows
        /\ rows[a].stage = k /\ rows[a].committed
    BY <1>1, <1>3, <1>5 DEF Knows
  <2>3. a \in Artifacts
    <3>1. DOMAIN rows = 1 .. Len(rows) /\ Len(rows) \in Nat /\ Len(rows) <= MaxRows
      BY OwnerFields, RowFields, Types DEF CommitInv, Typed
    <3> QED
      BY <2>2, <3>1, CommitAssumption
  <2>4. /\ JobOK(job') /\ job' \in Job
        /\ \A s \in Stages : job'.artifact[s] = IF s = k THEN a ELSE job.artifact[s]
    <3>1. CanRevise(job, k)
      BY <2>2 DEF CanRevise, Completed, StageTerminal, StageSatisfied
    <3>2. JobOK(Revise(job, k, a))
      BY <1>2, <2>2, <2>3, <3>1, ReviseOK
    <3>3. \A s \in Stages : Revise(job, k, a).artifact[s] = IF s = k THEN a ELSE job.artifact[s]
      BY <1>2, <2>2 DEF Revise, Job
    <3> QED
      BY <2>1, <3>2, <3>3 DEF JobOK
  <2>5. /\ owner' \in OwnerType /\ owner'.copy = owner.copy /\ owner'.pc = owner.pc
        /\ owner'.fresh = FALSE /\ owner'.stage = owner.stage /\ owner'.content = owner.content
    BY <1>2, <2>1 DEF OwnerType
  <2>6. OwnerKnows'
    BY <1>2, <2>5 DEF OwnerKnows
  <2>7. PICK eds : eds = Outdated(Editors \ {e})
    OBVIOUS
  <2>8. /\ eds \in [Editors -> EditorType]
        /\ \A f \in Editors :
             /\ eds[f].pc = editor[f].pc /\ eds[f].stage = editor[f].stage
             /\ eds[f].revision = editor[f].revision /\ eds[f].content = editor[f].content
             /\ eds[f].row = editor[f].row
             /\ eds[f].fresh <=> editor[f].fresh /\ f \notin Editors \ {e}
    BY <1>1, <2>7, OutdatedEditors
  <2>9. editor' = [eds EXCEPT ![e] = NoEdit]
    BY <2>1, <2>7
  <2>10. editor' \in [Editors -> EditorType]
    BY <2>8, <2>9, NobodyYet
  <2>11. RowsMore
    BY <1>3 DEF RowsMore
  <2>12. ASSUME NEW f \in Editors
         PROVE  Knows(editor[f])'
    <3>1. CASE f = e
      <4>1. editor'[f] = NoEdit
        BY <2>8, <2>9, <3>1
      <4> QED
        BY <4>1, NobodyYet DEF Knows
    <3>2. CASE f # e
      <4>1. PICK ed : ed = eds[f]
        OBVIOUS
      <4>2. editor'[f] = ed /\ ~ed.fresh
        BY <2>8, <2>9, <3>2, <4>1
      <4>3. Knows(editor[f])
        BY DEF CommitInv, EditorKnows
      <4>4. Knows(ed)'
        BY <2>8, <2>11, <4>1, <4>2, <4>3, StillKnows
      <4> QED
        BY <4>2, <4>4 DEF Knows, RevisionOf
    <3> QED
      BY <3>1, <3>2
  <2>13. ReferencesAreCommitted'
    BY <1>3, <2>2, <2>4 DEF CommitInv, ReferencesAreCommitted, Referenced, Committed
  <2>14. Typed'
    BY <1>2, <1>3, <2>4, <2>5, <2>10, Types
       DEF CommitInv, Typed, TypeOK, RowsNamed, FileType, OwnerType, EditorType
  <2> QED
    BY <2>6, <2>12, <2>13, <2>14 DEF CommitInv, EditorKnows
<1> QED
  BY <1>4, <1>5

-----------------------------------------------------------------------------
(* The theorems. *)

LEMMA CommitInvKept ==
    ASSUME CommitInv, [Next]_vars
    PROVE  CommitInv'
<1>1. ASSUME UNCHANGED vars
      PROVE  CommitInv'
  BY <1>1 DEF vars, CommitInv, Typed, TypeOK, RowsNamed, OwnerKnows, EditorKnows, Knows,
              RevisionOf, Completed, ReferencesAreCommitted, Referenced, Committed
<1>2. ASSUME NEW e \in Editors, EditStep(e) \/ CrashEditor(e)
      PROVE  CommitInv'
  BY <1>2, EditLoadKeeps, EditGoesKeeps, EditInsertKeeps, EditSaveKeeps DEF EditStep
<1> QED
  BY <1>1, <1>2, RecoveryKeeps, RecoverRowsKeeps, BeginKeeps, StageKeeps, PublishKeeps,
     CommitKeeps, EndKeeps, OthersKeep DEF Next, OwnerStep, Recovery, Run

LEMMA CommitInvHolds == Spec => []CommitInv
<1>1. Init => CommitInv
  <2> SUFFICES ASSUME Init
               PROVE  CommitInv
    OBVIOUS
  <2>1. NewJob \in Job /\ JobOK(NewJob)
    BY NewJobOK DEF JobOK
  <2>2. file \in FileType
    BY DEF Init, FileType
  <2>3. rows \in Seq(Row) /\ Len(rows) = 0 /\ DOMAIN rows = {}
    BY EmptySeq, LenProperties DEF Init
  <2>4. Len(rows) <= MaxRows
    BY <2>3, CommitAssumption
  <2>5. TypeOK
    BY <2>1, <2>2, <2>3, <2>4, NobodyYet, Types DEF Init
  <2>6. OwnerKnows
    BY NobodyYet DEF Init, OwnerKnows
  <2>7. EditorKnows
    BY NobodyYet DEF Init, EditorKnows, Knows
  <2>8. Referenced(job) = {}
    BY DEF Init, NewJob, Referenced
  <2> QED
    BY <2>1, <2>3, <2>5, <2>6, <2>7, <2>8, NobodyYet
       DEF CommitInv, Typed, RowsNamed, ReferencesAreCommitted, Init
<1> QED
  BY <1>1, CommitInvKept, PTL DEF Spec

\* For every instance and whatever dies, fails or is lost: a reference in the
\* Job row leads to a committed row of that very stage.
THEOREM ReferencesHold == Spec => []ReferencesAreCommitted
<1>1. CommitInv => ReferencesAreCommitted
  BY DEF CommitInv
<1> QED
  BY <1>1, CommitInvHolds, PTL

\* Only a commit and an edit add a reference.
LEMMA OthersAddNone ==
    ASSUME CommitInv, [Next]_vars, ~Commit, \A e \in Editors : ~EditSave(e), NEW s \in Stages
    PROVE  job'.artifact[s] \in {job.artifact[s], NoArtifact}
<1>1. /\ owner \in OwnerType /\ JobOK(job) /\ JobOK(owner.copy) /\ owner.copy \in Job
      /\ job \in Job /\ OwnerKnows
  BY OwnerFields DEF OwnerType
<1>2. CASE RecoverRows
  BY <1>2, BrokenAreDropped DEF RecoverRows, Stay, JobBecomes
<1>3. CASE TakeLock \/ ListFiles \/ Quarantine \/ Gate \/ ReuseStage \/ RunStage \/ Publish
           \/ Rename \/ RemovePublished \/ CrashOwner \/ Lose \/ UNCHANGED vars
  BY <1>3 DEF TakeLock, ListFiles, Quarantine, Gate, ReuseStage, RunStage, Publish,
              Rename, RemovePublished, CrashOwner, Lose, Stay, vars
<1>4. CASE Requeue \/ Begin \/ AskCancel
  BY <1>1, <1>4, ReferencesStay DEF Requeue, Begin, AskCancel, OwnerWrites, JobBecomes, Stay
<1>5. CASE PrepareRetry
  <2>1. owner.retry \in Stages
    BY <1>1, <1>5 DEF PrepareRetry, OwnerType, Stages
  <2> QED
    BY <1>1, <1>5, <2>1, ReferencesReset DEF PrepareRetry, OwnerWrites, JobBecomes, Stay
<1>6. CASE Complete
  BY <1>1, <1>6, ReferencesStay DEF Complete, OwnerWrites, JobBecomes, Stay, OwnerKnows
<1>7. CASE EndInError
  <2>1. owner.fresh => owner.stage \in Stages /\ owner.copy.artifact = job.artifact
    BY <1>1, <1>7 DEF EndInError, OwnerKnows
  <2> QED
    BY <1>1, <1>7, <2>1, ReferencesStay DEF EndInError, OwnerWrites, JobBecomes, Stay
<1>8. ASSUME NEW e \in Editors, EditLoad(e) \/ EditWrite(e) \/ EditValidate(e) \/ EditInsert(e)
                               \/ CrashEditor(e)
      PROVE  job' = job
  BY <1>8 DEF EditLoad, EditWrite, EditValidate, EditInsert, CrashEditor
<1> QED
  BY <1>2, <1>3, <1>4, <1>5, <1>6, <1>7, <1>8 DEF Next, OwnerStep, Recovery, Run, EditStep

\* For every instance: a copy of the Job that was made before an edit never
\* takes its place; only the next revision of the result does.
THEOREM NoEditIsLost == Spec => NoLostEdit
<1>1. ASSUME CommitInv, [Next]_vars, NEW s \in Referenced(job),
             s \in Referenced(job'), job'.artifact[s] # job.artifact[s]
      PROVE  rows'[job'.artifact[s]].path[2] = RevisionOf(job, s) + 1
  <2>1. s \in Stages /\ job'.artifact[s] # NoArtifact /\ job.artifact[s] # NoArtifact
    BY <1>1 DEF Referenced
  <2>2. CASE Commit
    <3>1. /\ JobOK(owner.copy) /\ owner.copy \in Job /\ owner.copy.artifact = job.artifact
          /\ owner.stage \in Stages /\ CanCompleteStage(owner.copy, owner.stage)
      BY <1>1, <2>2, OwnerFields DEF Commit, OwnerHolds, OwnerKnows, OwnerType, Stay
    <3>2. PICK degraded \in BOOLEAN :
              job' = CompleteStage(owner.copy, owner.stage, Len(rows) + 1, degraded)
      BY <1>1, <2>2 DEF Commit, OwnerWrites, JobBecomes, Stay
    <3>3. s = owner.stage
      BY <1>1, <2>1, <3>1, <3>2, ReferencesSet
    <3>4. owner.copy.artifact[owner.stage] = NoArtifact
      BY <3>1 DEF JobOK, ReferenceOK, CanCompleteStage
    <3> QED
      BY <2>1, <3>1, <3>3, <3>4
  <2>3. CASE \E e \in Editors : EditSave(e)
    <3>1. PICK e \in Editors : EditSave(e)
      BY <2>3
    <3>2. /\ editor[e].fresh /\ editor[e].pc = "Save" /\ UNCHANGED rows
          /\ job' = Revise(job, editor[e].stage, editor[e].row)
      BY <1>1, <3>1 DEF EditSave, EditorHolds
    <3>3. /\ rows[editor[e].row].path = <<editor[e].stage, editor[e].revision>>
          /\ editor[e].revision = RevisionOf(job, editor[e].stage) + 1
          /\ editor[e].stage \in Stages
      BY <1>1, <3>2, EditorFields DEF Knows
    <3>4. s = editor[e].stage /\ job'.artifact[s] = editor[e].row
      BY <1>1, <2>1, <3>2, <3>3, OwnerFields DEF Revise, Job
    <3> QED
      BY <3>2, <3>3, <3>4
  <2>4. CASE ~Commit /\ \A e \in Editors : ~EditSave(e)
    BY <1>1, <2>1, <2>4, OthersAddNone
  <2> QED
    BY <2>2, <2>3, <2>4
<1>2. CommitInv /\ [Next]_vars =>
          [\A s \in Referenced(job) :
              s \in Referenced(job') /\ job'.artifact[s] # job.artifact[s] =>
                  rows'[job'.artifact[s]].path[2] = RevisionOf(job, s) + 1]_vars
  BY <1>1
<1> QED
  BY <1>2, CommitInvHolds, PTL DEF Spec, NoLostEdit

-----------------------------------------------------------------------------
(* The files of the stages.  A revision may be overwritten by another edit *)
(* of the same result, and an exported file by the stage itself; the       *)
(* others belong to their row as long as it is committed.                  *)

Own(i) == rows[i].path[2] = Final /\ rows[i].stage \notin Exported

Kept ==
    /\ \A i \in Committed : Own(i) => Valid(i)
    /\ owner.pc = "ListFiles" => \A i \in Committed : Own(i) => rows[i].path \in owner.keep
    /\ owner.pc = "Sweep" => \A i \in Committed : Own(i) => rows[i].path \notin owner.sweep
    /\ owner.pc \in {"Publish", "Rename"} => ~owner.published
    /\ owner.pc = "Commit" => file[Here] = owner.content
    /\ owner.pc \in {"Commit", "Remove"} /\ owner.published =>
          \A i \in Committed : Own(i) => rows[i].path # Here
    /\ owner.pc = "Remove" => owner.published

LEMMA OwnPath ==
    ASSUME CommitInv, NEW i \in DOMAIN rows, Own(i)
    PROVE  /\ rows[i].stage \in Stages \ Exported /\ rows[i].path = <<rows[i].stage, Final>>
           /\ rows[i].path \in Path /\ rows[i].content \in Contents
<1>1. rows[i].stage \in Stages /\ rows[i].path \in Path /\ rows[i].content \in Contents
  BY OwnerFields, RowFields
<1>2. rows[i].path[1] = rows[i].stage
  BY DEF CommitInv, Typed, RowsNamed
<1> QED
  BY <1>1, <1>2 DEF Own, Path

\* Steps that touch neither the rows nor a file of theirs.
LEMMA KeptStays ==
    ASSUME CommitInv, Kept, UNCHANGED rows,
           \A i \in Committed : Own(i) => file'[rows[i].path] = file[rows[i].path],
           \/ owner'.pc \in {"RecoverRows", "Idle", "Dead", "Recovered", "Stage", "Error"}
           \/ /\ owner'.pc = owner.pc /\ owner'.keep = owner.keep /\ owner'.sweep = owner.sweep
              /\ owner'.stage = owner.stage /\ owner'.content = owner.content
              /\ owner'.published = owner.published
              /\ file'[Here] = file[Here]
    PROVE  Kept'
<1>1. Committed' = Committed /\ \A i : Own(i)' <=> Own(i)
  BY DEF Committed, Own
<1>2. \A i \in Committed : Own(i) => Valid(i)'
  BY DEF Kept, Valid, Matches
<1> QED
  BY <1>1, <1>2 DEF Kept, Here

LEMMA QuietKeeps ==
    ASSUME CommitInv, Kept,
           \/ TakeLock \/ Requeue \/ PrepareRetry \/ Begin \/ Gate \/ ReuseStage \/ Complete
           \/ EndInError \/ CrashOwner \/ AskCancel \/ UNCHANGED vars
           \/ \E e \in Editors : EditLoad(e) \/ EditValidate(e) \/ EditSave(e) \/ CrashEditor(e)
    PROVE  Kept'
<1>1. owner \in OwnerType
  BY OwnerFields
<1>2. UNCHANGED <<file, rows>>
  BY DEF TakeLock, Requeue, PrepareRetry, Begin, Gate, ReuseStage, Complete, EndInError,
         CrashOwner, AskCancel, vars, EditLoad, EditValidate, EditSave, CrashEditor
<1>3. \/ UNCHANGED owner
      \/ owner' = [owner EXCEPT !.fresh = FALSE]
      \/ owner'.pc \in {"RecoverRows", "Idle", "Dead", "Recovered", "Stage", "Error"}
  <2>1. NoOwner.pc = "Idle"
    BY DEF NoOwner
  <2>2. CASE TakeLock \/ CrashOwner
    BY <2>2 DEF TakeLock, CrashOwner, NoOwner
  <2>3. CASE Begin
    <3>1. \/ owner' = NoOwner
          \/ \E j : owner' = [owner EXCEPT !.pc = "Stage", !.stage = 1, !.fresh = TRUE, !.copy = j]
      BY <2>3 DEF Begin, OwnerWrites
    <3> QED
      BY <1>1, <2>1, <3>1 DEF OwnerType
  <2>4. CASE Complete \/ EndInError
    <3>1. owner' = NoOwner \/ owner' = [owner EXCEPT !.pc = "Error"]
      BY <2>4 DEF Complete, EndInError, OwnerWrites, OwnerGoes
    <3> QED
      BY <1>1, <2>1, <3>1 DEF OwnerType
  <2>5. CASE Requeue \/ PrepareRetry
    BY <1>1, <2>5 DEF Requeue, PrepareRetry, OwnerWrites, OwnerGoes, NoOwner, OwnerType
  <2>6. CASE Gate \/ ReuseStage
    BY <1>1, <2>6 DEF Gate, ReuseStage, OwnerGoes, OwnerType
  <2>7. CASE AskCancel \/ UNCHANGED vars
    BY <2>7 DEF AskCancel, vars
  <2>8. ASSUME NEW e \in Editors, EditLoad(e) \/ EditValidate(e) \/ EditSave(e) \/ CrashEditor(e)
        PROVE  UNCHANGED owner \/ owner' = [owner EXCEPT !.fresh = FALSE]
    BY <2>8 DEF EditLoad, EditValidate, EditSave, CrashEditor
  <2> QED
    BY <2>2, <2>3, <2>4, <2>5, <2>6, <2>7, <2>8
<1>4. \/ owner'.pc \in {"RecoverRows", "Idle", "Dead", "Recovered", "Stage", "Error"}
      \/ /\ owner'.pc = owner.pc /\ owner'.keep = owner.keep /\ owner'.sweep = owner.sweep
         /\ owner'.stage = owner.stage /\ owner'.content = owner.content
         /\ owner'.published = owner.published
  BY <1>1, <1>3 DEF OwnerType
<1> QED
  BY <1>2, <1>4, KeptStays

LEMMA SweepKeeps ==
    ASSUME CommitInv, Kept, RecoverRows \/ ListFiles \/ Quarantine
    PROVE  Kept'
<1>1. owner \in OwnerType /\ file \in FileType
  BY OwnerFields
<1>2. CASE RecoverRows
  <2>1. /\ DOMAIN rows' = DOMAIN rows
        /\ \A i \in DOMAIN rows :
              /\ rows'[i].stage = rows[i].stage /\ rows'[i].path = rows[i].path
              /\ rows'[i].content = rows[i].content
              /\ rows'[i].committed => rows[i].committed
    BY <1>2, RowsUnmarked
  <2>2. \A i \in Committed' : i \in Committed /\ (Own(i)' <=> Own(i))
    BY <2>1 DEF Committed, Own
  <2>3. owner'.pc = "ListFiles" /\ owner'.keep = {rows[i].path : i \in Committed}
    BY <1>1, <1>2 DEF RecoverRows, OwnerType
  <2>4. UNCHANGED file
    BY <1>2 DEF RecoverRows
  <2>5. \A i \in Committed' : rows'[i].path = rows[i].path /\ rows'[i].content = rows[i].content
    BY <2>1 DEF Committed
  <2> QED
    BY <2>2, <2>3, <2>4, <2>5 DEF Kept, Valid, Matches
<1>3. CASE ListFiles
  <2>1. /\ owner'.pc = "Sweep" /\ UNCHANGED <<file, rows>>
        /\ \A p \in owner'.sweep : p \notin owner.keep
    BY <1>1, <1>3 DEF ListFiles, OwnerType, Sweep
  <2>2. \A i \in Committed : Own(i) => rows[i].path \notin owner'.sweep
    BY <1>3, <2>1 DEF Kept, ListFiles
  <2> QED
    BY <2>1, <2>2 DEF Kept, Committed, Own, Valid, Matches
<1>4. CASE Quarantine
  <2>1. PICK p \in owner.sweep :
          /\ file' = [file EXCEPT ![p] = NoFile]
          /\ owner' = IF file[p] = NoFile THEN NoOwner
                      ELSE [owner EXCEPT !.sweep = @ \ {p}]
    BY <1>4 DEF Quarantine, Put
  <2>2. /\ owner.pc = "Sweep" /\ UNCHANGED rows
        /\ \/ owner'.pc = "Idle"
           \/ owner'.pc = "Sweep" /\ owner'.sweep \subseteq owner.sweep
    BY <1>1, <1>4, <2>1 DEF Quarantine, NoOwner, OwnerType
  <2>3. \A i \in Committed : Own(i) => Valid(i)'
    BY <1>1, <2>1, <2>2 DEF Kept, Valid, Matches, FileType
  <2> QED
    BY <2>2, <2>3 DEF Kept, Committed, Own
<1> QED
  BY <1>2, <1>3, <1>4

LEMMA WritesKeep ==
    ASSUME CommitInv, Kept, RunStage \/ Publish \/ Rename \/ RemovePublished
    PROVE  Kept'
<1>1. owner \in OwnerType /\ file \in FileType /\ OwnerKnows /\ UNCHANGED rows
  BY OwnerFields DEF RunStage, Publish, Rename, RemovePublished
<1>2. Committed' = Committed /\ \A i : Own(i)' <=> Own(i)
  BY <1>1 DEF Committed, Own
<1>3. \A i \in Committed : Own(i) =>
          /\ rows[i].stage \in Stages \ Exported /\ rows[i].path = <<rows[i].stage, Final>>
          /\ rows[i].path \in Path /\ file[rows[i].path] = rows[i].content
          /\ rows[i].content # NoFile
  BY OwnPath, CommitAssumption DEF Committed, Kept, Valid, Matches
<1>4. CASE RunStage
  <2>1. /\ owner'.pc \in {"Error", "Publish"}
        /\ owner'.pc = "Publish" => ~owner'.published
        /\ \/ UNCHANGED file
           \/ \E c : file' = [file EXCEPT
                  ![<<owner.stage, Side>>] = IF owner.stage \in Sidecar THEN c ELSE @,
                  ![Here] = IF owner.stage \in Exported THEN c ELSE @]
    <3>1. PICK started : started = [owner EXCEPT !.copy = StartStage(owner.copy, owner.stage)]
      OBVIOUS
    <3>2. \/ /\ owner' = [started EXCEPT !.pc = "Error"]
             /\ UNCHANGED file
          \/ \E c :
                /\ owner' = [started EXCEPT !.pc = "Publish", !.content = c, !.published = FALSE]
                /\ file' = [file EXCEPT
                       ![<<owner.stage, Side>>] = IF owner.stage \in Sidecar THEN c ELSE @,
                       ![Here] = IF owner.stage \in Exported THEN c ELSE @]
      BY <1>4, <3>1 DEF RunStage
    <3> QED
      BY <1>1, <3>1, <3>2 DEF OwnerType
  <2>2. \A i \in Committed : Own(i) => file'[rows[i].path] = file[rows[i].path]
    BY <1>1, <1>3, <2>1 DEF Here, Final, Side, FileType
  <2>3. \A i \in Committed : Own(i) => Valid(i)'
    BY <1>1, <1>3, <2>2 DEF Valid, Matches
  <2> QED
    BY <1>2, <2>1, <2>3 DEF Kept
<1>5. CASE Publish
  <2>1. /\ ~owner.published /\ owner'.stage = owner.stage /\ owner'.content = owner.content
        /\ owner'.published = owner.published
        /\ \/ owner'.pc = "Commit" /\ file[Here] = owner.content /\ UNCHANGED file
           \/ owner'.pc = "Rename" /\ file' = [file EXCEPT ![HerePartial] = owner.content]
           \/ owner'.pc = "Error" /\ UNCHANGED file
    BY <1>1, <1>5 DEF Publish, OwnerGoes, Put, OwnerType, Kept
  <2>2. \A i \in Committed : Own(i) => file'[rows[i].path] = file[rows[i].path]
    BY <1>1, <1>3, <2>1 DEF HerePartial, Final, Partial, FileType
  <2>3. \A i \in Committed : Own(i) => Valid(i)'
    BY <1>1, <1>3, <2>2 DEF Valid, Matches
  <2> QED
    BY <1>2, <2>1, <2>3 DEF Kept, Here
<1>6. CASE Rename
  <2>1. Here \in Path /\ HerePartial \in Path /\ HerePartial # Here
    BY <1>1, <1>6, CommitAssumption
       DEF Rename, OwnerKnows, Here, HerePartial, Path, Final, Partial, Side
  <2>2. /\ owner'.stage = owner.stage /\ owner'.content = owner.content
        /\ \/ /\ file[Here] = NoFile /\ owner'.pc = "Commit"
              /\ file' = [file EXCEPT ![Here] = owner.content, ![HerePartial] = NoFile]
           \/ /\ file' = [file EXCEPT ![HerePartial] = NoFile] /\ ~owner'.published
              /\ owner'.pc = "Commit" => file[Here] = owner.content
              /\ owner'.pc \in {"Commit", "Error"}
    BY <1>1, <1>6, ZenonT(60) DEF Rename, MayPublish, OwnerGoes, Put, OwnerType, Kept
  <2>3. \A i \in Committed : Own(i) => rows[i].path # HerePartial
    BY <1>3 DEF HerePartial, Final, Partial
  <2>4. file[Here] = NoFile => \A i \in Committed : Own(i) => rows[i].path # Here
    BY <1>3
  <2>5. \A i \in Committed : Own(i) => file'[rows[i].path] = file[rows[i].path]
    BY <1>1, <1>3, <2>1, <2>2, <2>3, <2>4 DEF FileType
  <2>6. \A i \in Committed : Own(i) => Valid(i)'
    BY <1>1, <1>3, <2>5 DEF Valid, Matches
  <2>7. owner'.pc = "Commit" => file'[Here] = owner.content
    BY <1>1, <2>1, <2>2 DEF FileType
  <2>8. Here' = Here
    BY <2>2 DEF Here
  <2> QED
    BY <1>1, <1>2, <2>2, <2>4, <2>6, <2>7, <2>8 DEF Kept
<1>7. CASE RemovePublished
  <2>1. owner'.pc = "Error" /\ file' = [file EXCEPT ![Here] = NoFile]
    BY <1>1, <1>7 DEF RemovePublished, OwnerGoes, Put, OwnerType
  <2>2. \A i \in Committed : Own(i) => rows[i].path # Here
    BY <1>7 DEF RemovePublished, Kept
  <2>3. \A i \in Committed : Own(i) => Valid(i)'
    BY <1>1, <1>3, <2>1, <2>2 DEF Valid, Matches, FileType
  <2> QED
    BY <1>2, <2>1, <2>3 DEF Kept
<1> QED
  BY <1>4, <1>5, <1>6, <1>7

LEMMA RowsKeep ==
    ASSUME CommitInv, Kept, \/ Commit
                            \/ \E e \in Editors : EditWrite(e) \/ EditInsert(e)
    PROVE  Kept'
<1>1. owner \in OwnerType /\ file \in FileType /\ OwnerKnows
  BY OwnerFields
<1>2. ASSUME Commit, UNCHANGED rows, NEW pc \in {"Remove", "Error"}, OwnerGoes(pc),
             pc = "Remove" => owner.published
      PROVE  Kept'
  <2>1. /\ owner.pc = "Commit" /\ UNCHANGED file /\ owner'.pc = pc
        /\ owner'.stage = owner.stage /\ owner'.published = owner.published
    BY <1>1, <1>2 DEF Commit, OwnerGoes, OwnerType
  <2> QED
    BY <1>2, <2>1 DEF Kept, Committed, Own, Valid, Matches, Here
<1>3. ASSUME Commit, Len(rows) < MaxRows, AddRow(owner.stage, Here, owner.content),
             owner'.pc = "Stage"
      PROVE  Kept'
  <2>1. owner.stage \in Stages /\ owner.content \in Contents /\ owner.pc = "Commit"
    BY <1>1, <1>3 DEF Commit, OwnerKnows
  <2>2. Here \in Path /\ Here[1] = owner.stage /\ Here[2] >= Final
    BY <2>1, CommitAssumption DEF Here, Path, Final, Side
  <2>3. PICK a : a = Len(rows) + 1
    OBVIOUS
  <2>4. /\ RowsSame /\ rows'[a].path = Here /\ rows'[a].content = owner.content
        /\ \A i \in DOMAIN rows' : i \in DOMAIN rows \/ i = a
    BY <1>3, <2>1, <2>2, <2>3, RowAdded
  <2>5. ASSUME NEW i \in Committed', Own(i)'
        PROVE  Valid(i)'
    <3>1. CASE i = a
      BY <1>3, <2>1, <2>4, <3>1 DEF Kept, Valid, Matches, Commit
    <3>2. CASE i # a
      <4>1. i \in DOMAIN rows /\ rows'[i] = rows[i]
        BY <2>4, <2>5, <3>2 DEF Committed, RowsSame
      <4>2. i \in Committed /\ Own(i)
        BY <2>5, <4>1 DEF Committed, Own
      <4> QED
        BY <1>3, <4>1, <4>2 DEF Kept, Valid, Matches, Commit
    <3> QED
      BY <3>1, <3>2
  <2> QED
    BY <1>3, <2>5 DEF Kept
<1>4. ASSUME NEW e \in Editors, EditWrite(e)
      PROVE  Kept'
  <2>1. Knows(editor[e]) /\ editor[e].pc = "Write"
    BY <1>4, EditorFields DEF EditWrite
  <2>2. file' = [file EXCEPT ![Edited(e)] = editor[e].content] /\ UNCHANGED <<rows, owner>>
    BY <1>4 DEF EditWrite, Put
  <2>3. editor[e].revision # Final
    BY <2>1 DEF Knows, Final
  <2>4. Edited(e) # Here /\ \A i \in Committed : Own(i) => rows[i].path # Edited(e)
    BY <2>3, OwnPath DEF Edited, Here, Committed
  <2>5. ASSUME NEW i \in Committed, Own(i)
        PROVE  file'[rows[i].path] = file[rows[i].path]
    BY <1>1, <2>2, <2>4, <2>5 DEF FileType
  <2>6. file'[Here] = file[Here]
    BY <1>1, <2>2, <2>4 DEF FileType
  <2> QED
    BY <2>2, <2>5, <2>6, KeptStays
<1>5. ASSUME NEW e \in Editors, EditInsert(e)
      PROVE  Kept'
  <2>1. Knows(editor[e]) /\ editor[e].pc = "Insert" /\ editor[e] \in EditorType
    BY <1>5, EditorFields DEF EditInsert
  <2>2. /\ editor[e].stage \in Stages /\ editor[e].revision > Final
        /\ editor[e].content \in Contents
    BY <2>1 DEF Knows
  <2>3. Edited(e) \in Path /\ Edited(e)[1] = editor[e].stage /\ Edited(e)[2] >= Final
        /\ Edited(e)[2] # Final
    BY <2>1, <2>2 DEF Edited, Path, EditorType, Final, Side
  <2>4. PICK a : a = Len(rows) + 1
    OBVIOUS
  <2>5. /\ RowsSame /\ rows'[a].path = Edited(e)
        /\ \A i \in DOMAIN rows' : i \in DOMAIN rows \/ i = a
    BY <1>5, <2>2, <2>3, <2>4, RowAdded DEF EditInsert
  <2>6. ASSUME NEW i \in Committed', Own(i)'
        PROVE  i \in Committed /\ Own(i) /\ rows'[i] = rows[i]
    <3>1. i # a
      BY <2>3, <2>5, <2>6 DEF Own
    <3>2. i \in DOMAIN rows /\ rows'[i] = rows[i]
      BY <2>5, <2>6, <3>1 DEF Committed, RowsSame
    <3> QED
      BY <2>6, <3>2 DEF Committed, Own
  <2>7. UNCHANGED <<file, owner>>
    BY <1>5 DEF EditInsert
  <2>8. \A i \in Committed' : Own(i)' => Valid(i)'
    BY <2>6, <2>7 DEF Kept, Valid, Matches
  <2> QED
    BY <2>6, <2>7, <2>8 DEF Kept, Here
<1>6. CASE Commit
  <2>1. CASE Len(rows) < MaxRows /\ AddRow(owner.stage, Here, owner.content)
             /\ owner'.pc = "Stage"
    BY <1>3, <1>6, <2>1
  <2>2. CASE UNCHANGED rows /\ OwnerGoes(IF RemovesFile(owner) THEN "Remove" ELSE "Error")
    BY <1>2, <1>6, <2>2 DEF RemovesFile
  <2>3. ASSUME NEW j, OwnerWrites(j, [owner EXCEPT !.pc = "Stage", !.stage = @ + 1, !.copy = j])
        PROVE  owner'.pc = "Stage"
    BY <1>1, <2>3 DEF OwnerWrites, OwnerType
  <2> QED
    BY <1>6, <2>1, <2>2, <2>3 DEF Commit
<1> QED
  BY <1>4, <1>5, <1>6

LEMMA KeptHolds == "Lose" \notin Faults => (Spec => []Kept)
<1> SUFFICES ASSUME "Lose" \notin Faults
             PROVE  Spec => []Kept
  OBVIOUS
<1>1. Init => Kept
  BY NobodyYet DEF Init, Kept, Committed
<1>2. ASSUME CommitInv, Kept, [Next]_vars
      PROVE  Kept'
  <2>1. ~Lose
    BY DEF Lose
  <2>2. ASSUME NEW e \in Editors, EditStep(e) \/ CrashEditor(e)
        PROVE  Kept'
    BY <1>2, <2>2, QuietKeeps, RowsKeep DEF EditStep
  <2> QED
    BY <1>2, <2>1, <2>2, QuietKeeps, SweepKeeps, WritesKeep, RowsKeep
       DEF Next, OwnerStep, Recovery, Run
<1> QED
  BY <1>1, <1>2, CommitInvHolds, PTL DEF Spec

\* For every instance in which nobody tampers with the files, with any number
\* of edits: the result a stage has committed stays what it was, unless the
\* user chose its place.
THEOREM StageResultsStay ==
    "Lose" \notin Faults =>
        (Spec => [](\A i \in Committed :
                       rows[i].path[2] = Final /\ rows[i].stage \notin Exported => Valid(i)))
<1>1. Kept => \A i \in Committed :
                 rows[i].path[2] = Final /\ rows[i].stage \notin Exported => Valid(i)
  BY DEF Kept, Own
<1> QED
  BY <1>1, KeptHolds, PTL

\* Without edits every row is that of a stage.
LEMMA RowsAreOfStages == Editors = {} => (Spec => [](\A i \in DOMAIN rows : rows[i].path[2] = Final))
<1> DEFINE Finals == \A i \in DOMAIN rows : rows[i].path[2] = Final
<1> SUFFICES ASSUME Editors = {}
             PROVE  Spec => []Finals
  OBVIOUS
<1>1. Init => Finals
  BY DEF Init
<1>2. ASSUME CommitInv, Finals, [Next]_vars
      PROVE  Finals'
  <2>1. CASE Commit
    <3>1. CASE UNCHANGED rows
      BY <1>2, <3>1
    <3>2. CASE Len(rows) < MaxRows /\ AddRow(owner.stage, Here, owner.content)
      <4>1. owner.stage \in Stages /\ owner.content \in Contents
        BY <1>2, <2>1, OwnerFields DEF Commit, OwnerKnows
      <4>2. Here \in Path /\ Here[1] = owner.stage /\ Here[2] = Final /\ Here[2] >= Final
        BY <4>1, CommitAssumption DEF Here, Path, Final, Side
      <4>3. PICK a : a = Len(rows) + 1
        OBVIOUS
      <4>4. /\ RowsSame /\ rows'[a].path = Here
            /\ \A i \in DOMAIN rows' : i \in DOMAIN rows \/ i = a
        BY <1>2, <3>2, <4>1, <4>2, <4>3, RowAdded
      <4> QED
        BY <1>2, <4>2, <4>4 DEF RowsSame
    <3> QED
      BY <2>1, <3>1, <3>2 DEF Commit
  <2>2. CASE RecoverRows
    BY <1>2, <2>2, RowsUnmarked
  <2>3. CASE ~Commit /\ ~RecoverRows
    <3>1. UNCHANGED rows
      BY <1>2, <2>3 DEF Next, OwnerStep, Recovery, Run, vars, TakeLock, ListFiles, Quarantine,
                        Requeue, PrepareRetry, Begin, Gate, ReuseStage, RunStage, Publish,
                        Rename, RemovePublished, Complete, EndInError, CrashOwner, AskCancel, Lose
    <3> QED
      BY <1>2, <3>1
  <2> QED
    BY <2>1, <2>2, <2>3
<1> HIDE DEF Finals
<1> QED
  BY <1>1, <1>2, CommitInvHolds, PTL DEF Spec

\* The instances of the stage_commit run: no edit, no exported file, nobody
\* tampers with the files.
Undisturbed == Editors = {} /\ Exported = {} /\ "Lose" \notin Faults

\* For every number of stages, rows and contents: neither a crash nor a second
\* run nor a commit that is rolled back replaces or removes a committed file.
THEOREM CommittedFilesStay == Undisturbed => (Spec => []CommittedFilesIntact)
<1> SUFFICES ASSUME Undisturbed
             PROVE  Spec => []CommittedFilesIntact
  OBVIOUS
<1>1. Kept /\ (\A i \in DOMAIN rows : rows[i].path[2] = Final) => CommittedFilesIntact
  BY DEF Kept, Own, CommittedFilesIntact, Committed, Undisturbed
<1>2. Spec => []Kept
  BY KeptHolds DEF Undisturbed
<1>3. Spec => [](\A i \in DOMAIN rows : rows[i].path[2] = Final)
  BY RowsAreOfStages DEF Undisturbed
<1> QED
  BY <1>1, <1>2, <1>3, PTL

\* So the recovery never takes a result from a Job that has them all.
THEOREM VerifiedJobsAreKept == Undisturbed => (Spec => VerifiedJobsKept)
<1>1. CommittedFilesIntact /\ [Next]_vars =>
          [RecoverRows /\ (\A s \in Referenced(job) : Valid(job.artifact[s])) => job' = job]_vars
  BY DEF CommittedFilesIntact, Broken, RecoverRows, Stay
<1> QED
  BY <1>1, CommittedFilesStay, PTL DEF Spec, VerifiedJobsKept

-----------------------------------------------------------------------------
(* The directory of the Job, while no edit is going on: an edit has a file *)
(* before it has a row.                                                    *)

Named(p) == p[2] # Partial /\ \E i \in DOMAIN rows : rows[i].path = p
Cleaned ==
    /\ owner.pc = "ListFiles" => \A p \in owner.keep : Named(p)
    /\ owner.pc \in {"Sweep", "Recovered"} =>
          \A p \in Path : InDirectory(p) /\ file[p] # NoFile => p \in owner.sweep \/ Named(p)
    /\ owner.pc = "Recovered" => owner.sweep = {}

\* A process that runs the stages does not go back to the recovery.
LEMMA WorkGoesOn ==
    ASSUME CommitInv, \/ Begin \/ Gate \/ ReuseStage \/ RunStage \/ Publish \/ Rename
                      \/ Commit \/ RemovePublished \/ Complete \/ EndInError
    PROVE  owner'.pc \in AtWork \union {"Idle"}
<1>1. owner \in OwnerType /\ NoOwner.pc = "Idle"
  BY OwnerFields, NobodyYet
<1>2. CASE Begin \/ Complete \/ EndInError
  <2>1. \/ owner' = NoOwner
        \/ owner' = [owner EXCEPT !.pc = "Error"]
        \/ \E j : owner' = [owner EXCEPT !.pc = "Stage", !.stage = 1, !.fresh = TRUE, !.copy = j]
        \/ UNCHANGED owner /\ owner.pc \in AtWork
    BY <1>2 DEF Begin, Complete, EndInError, OwnerWrites, OwnerGoes
  <2> QED
    BY <1>1, <2>1 DEF OwnerType, AtWork
<1>3. CASE Gate \/ ReuseStage \/ Publish \/ Rename \/ RemovePublished
  <2>1. \/ \E pc \in AtWork : owner' = [owner EXCEPT !.pc = pc]
        \/ owner' = [owner EXCEPT !.stage = @ + 1] /\ owner.pc = "Stage"
        \/ owner' = [owner EXCEPT !.pc = "Commit", !.published = TRUE]
    BY <1>3 DEF Gate, ReuseStage, Publish, Rename, RemovePublished, OwnerGoes, AtWork
  <2> QED
    BY <1>1, <2>1 DEF OwnerType, AtWork
<1>4. CASE RunStage
  <2>1. PICK started : started = [owner EXCEPT !.copy = StartStage(owner.copy, owner.stage)]
    OBVIOUS
  <2>2. \/ owner' = [started EXCEPT !.pc = "Error"]
        \/ \E c : owner' = [started EXCEPT !.pc = "Publish", !.content = c, !.published = FALSE]
    BY <1>4, <2>1 DEF RunStage
  <2> QED
    BY <1>1, <2>1, <2>2 DEF OwnerType, AtWork
<1>5. CASE Commit
  <2>1. \/ \E pc \in AtWork : owner' = [owner EXCEPT !.pc = pc]
        \/ \E j : owner' = [owner EXCEPT !.pc = "Stage", !.stage = @ + 1, !.copy = j]
    BY <1>5 DEF Commit, OwnerWrites, OwnerGoes, AtWork
  <2> QED
    BY <1>1, <2>1 DEF OwnerType, AtWork
<1> QED
  BY <1>2, <1>3, <1>4, <1>5

LEMMA CleanedKept ==
    ASSUME CommitInv, Cleaned, [Next]_vars, Editors = {}
    PROVE  Cleaned'
<1>1. owner \in OwnerType /\ file \in FileType /\ rows \in Seq(Row)
  BY OwnerFields
<1>2. ASSUME NEW i \in DOMAIN rows
      PROVE  Named(rows[i].path)
  BY DEF CommitInv, Typed, RowsNamed, Named, Final, Partial
<1>3. CASE RecoverRows
  <2>1. /\ owner'.pc = "ListFiles" /\ owner'.keep = {rows[i].path : i \in Committed}
    BY <1>1, <1>3 DEF RecoverRows, OwnerType
  <2>2. \A i \in DOMAIN rows : i \in DOMAIN rows' /\ rows'[i].path = rows[i].path
    BY <1>3, RowsUnmarked
  <2>3. \A p \in owner'.keep : Named(p)'
    BY <1>2, <2>1, <2>2 DEF Named, Committed
  <2> QED
    BY <2>1, <2>3 DEF Cleaned
<1>4. CASE ListFiles
  <2>1. /\ owner'.pc = "Sweep" /\ UNCHANGED <<file, rows>>
        /\ owner'.sweep = {p \in Path : /\ file[p] # NoFile
                                        /\ InDirectory(p)
                                        /\ Sweep(p, owner.keep)}
    BY <1>1, <1>4 DEF ListFiles, OwnerType
  <2>2. \A p \in owner.keep : Named(p)
    BY <1>4 DEF ListFiles, Cleaned
  <2> QED
    BY <2>1, <2>2 DEF Cleaned, Named, Sweep
<1>5. CASE Quarantine
  <2>1. PICK p \in owner.sweep :
          /\ file' = [file EXCEPT ![p] = NoFile]
          /\ owner' = IF file[p] = NoFile THEN NoOwner
                      ELSE [owner EXCEPT !.sweep = @ \ {p}]
    BY <1>5 DEF Quarantine, Put
  <2>2. /\ owner.pc = "Sweep" /\ UNCHANGED rows
        /\ \/ owner'.pc = "Idle"
           \/ owner'.pc = "Sweep" /\ owner'.sweep = owner.sweep \ {p}
    BY <1>1, <1>5, <2>1 DEF Quarantine, NoOwner, OwnerType
  <2>3. \A q \in Path : file'[q] # NoFile => q # p /\ file[q] # NoFile
    BY <1>1, <2>1 DEF FileType, OwnerType
  <2> QED
    BY <2>2, <2>3 DEF Cleaned, Named
<1>6. CASE Requeue
  <2>1. /\ owner.pc = "Sweep" /\ owner.sweep = {} /\ UNCHANGED <<file, rows>>
        /\ owner'.pc = "Recovered" /\ owner'.sweep = {}
    BY <1>1, <1>6 DEF Requeue, OwnerGoes, OwnerType
  <2> QED
    BY <2>1 DEF Cleaned, Named
<1>7. CASE Lose
  <2>1. PICK i, c : i \in Committed /\ file' = [file EXCEPT ![rows[i].path] = c]
    BY <1>7 DEF Lose, Put
  <2>2. UNCHANGED <<rows, owner>>
    BY <1>7 DEF Lose
  <2>3. Named(rows[i].path)
    BY <1>2, <2>1 DEF Committed
  <2>4. \A p \in Path : p # rows[i].path => file'[p] = file[p]
    BY <1>1, <2>1 DEF FileType
  <2>5. ASSUME NEW p \in Path, owner.pc \in {"Sweep", "Recovered"}, InDirectory(p),
               file'[p] # NoFile
        PROVE  p \in owner.sweep \/ Named(p)
    BY <2>3, <2>4, <2>5 DEF Cleaned
  <2> QED
    BY <2>2, <2>5 DEF Cleaned, Named
<1>8. ASSUME UNCHANGED <<file, rows>>, owner'.pc = owner.pc, owner'.keep = owner.keep,
             owner'.sweep = owner.sweep
      PROVE  Cleaned'
  BY <1>8 DEF Cleaned, Named
<1>9. CASE PrepareRetry
  <2>1. \/ owner' = NoOwner
        \/ owner' = [owner EXCEPT !.retry = 0]
    BY <1>9 DEF PrepareRetry, OwnerWrites
  <2>2. CASE owner' = NoOwner
    BY <2>2, NobodyYet DEF Cleaned
  <2>3. CASE owner' = [owner EXCEPT !.retry = 0]
    BY <1>1, <1>8, <1>9, <2>3 DEF PrepareRetry, OwnerType
  <2> QED
    BY <2>1, <2>2, <2>3
<1>10. CASE AskCancel \/ UNCHANGED vars
  BY <1>1, <1>8, <1>10 DEF AskCancel, vars, OwnerType
<1>11. CASE TakeLock \/ CrashOwner
  BY <1>11 DEF TakeLock, CrashOwner, NoOwner, Cleaned
<1>12. CASE Begin \/ Gate \/ ReuseStage \/ RunStage \/ Publish \/ Rename \/ Commit
            \/ RemovePublished \/ Complete \/ EndInError
  BY <1>12, WorkGoesOn DEF Cleaned, AtWork
<1> QED
  BY <1>3, <1>4, <1>5, <1>6, <1>7, <1>9, <1>10, <1>11, <1>12 DEF Next, OwnerStep, Recovery, Run

\* For every instance without edits, whatever dies, fails or is lost: the
\* recovery leaves nothing half-written and nothing without a row.
THEOREM RecoveryCleansUp == Editors = {} => (Spec => []RecoveredIsClean)
<1> SUFFICES ASSUME Editors = {}
             PROVE  Spec => []RecoveredIsClean
  OBVIOUS
<1>1. Init => Cleaned
  BY NobodyYet DEF Init, Cleaned
<1>2. CommitInv /\ Cleaned /\ [Next]_vars => Cleaned'
  BY CleanedKept
<1>3. Cleaned => RecoveredIsClean
  BY DEF Cleaned, Named, RecoveredIsClean
<1> QED
  BY <1>1, <1>2, <1>3, CommitInvHolds, PTL DEF Spec

=============================================================================
