----------------------------- MODULE StageCommit -----------------------------
(***************************************************************************)
(* The results of one Job on disk and in the store.  A stage result is a   *)
(* file, a row that records its path and content hash, and the reference   *)
(* the Job holds to that row.  The stage commit (commit_stage) publishes   *)
(* the file (.partial, fsync, rename) and then writes row and Job in one   *)
(* transaction; the process may die between any two of these steps, and    *)
(* the recovery that every new owner runs (recover_artifacts) has to make  *)
(* sense of what it finds.  A user may edit the newest transcript at any   *)
(* time, without the lock.                                                 *)
(*                                                                         *)
(* A content stands for its hash.  Every stage has one fixed path in the   *)
(* directory of the Job, so a path is a stage and a name.  The Job row is  *)
(* compared by version as in BatchControl: fresh says that the copy an     *)
(* actor holds is current.  What BatchControl shows step by step (starting *)
(* the Job, writing its failure) is one step here.                         *)
(***************************************************************************)
EXTENDS JobAggregate, Sequences

CONSTANTS Contents,      \* what may be in a file
          NoFile,
          Sidecar,       \* stages whose result names a second file (ExtractAudio)
          Exported,      \* stages whose file the user chose the place of (Export)
          Varying,       \* stages that may compute something else when run again
          Editable,      \* stages whose result is a transcript
          Editors,       \* concurrent edits of a transcript
          MaxRevision,   \* bound on the revisions one result goes through
          MaxRows,       \* bound on the rows of the artifact table
          Faults         \* what may go wrong in this instance

ASSUME CommitAssumption ==
    /\ NoFile \notin Contents /\ Contents # {}
    /\ Sidecar \union Exported \union Varying \union Editable \subseteq Stages
    /\ MaxRevision \in Nat /\ MaxRows \in Nat
    /\ Artifacts = 1 .. MaxRows /\ NoArtifact = 0
    /\ Faults \subseteq {"Crash", "Work", "Commit", "Cancel", "Retry", "Lose"}

\* Names of files: the result itself, its .partial, the file it names
\* (audio.wav), and from 1 on the revisions a user made of it, which
\* next_revision_path names after the file they are made from.
Final == 0
Partial == -1
Side == -2
Path == Stages \X (Side .. MaxRevision)

VARIABLES file,      \* the content of every path
          rows,      \* the artifact table; an ArtifactRef is an index into it
          job,       \* the Job row
          owner,     \* the Processing Owner
          editor     \* the edits in progress

vars == <<file, rows, job, owner, editor>>

Row == [stage : Stages, path : Path, content : Contents, committed : BOOLEAN]
Committed == {i \in DOMAIN rows : rows[i].committed}
\* validate(): the file of row i has the content recorded for it.
Matches(f, r) == f[r.path] = r.content
Valid(i) == Matches(file, rows[i])

NoOwner == [pc |-> "Idle", retry |-> 0, keep |-> {}, sweep |-> {}, fresh |-> FALSE,
            copy |-> NewJob, stage |-> 0, content |-> NoFile, published |-> FALSE]
\* While an editor's copy of the Job is current it is the row itself.
NoEdit == [pc |-> "Idle", fresh |-> FALSE, stage |-> 0, revision |-> 0,
           content |-> NoFile, row |-> NoArtifact]

Put(p, c) == file' = [file EXCEPT ![p] = c]
\* A committed row is only ever added by the actor that wrote its file.
AddRow(s, p, c) == rows' = Append(rows, [stage |-> s, path |-> p, content |-> c,
                                         committed |-> TRUE])

\* The version of the Job moves on: the copies of these editors are outdated.
Outdated(es) == [e \in Editors |-> [editor[e] EXCEPT !.fresh = @ /\ e \notin es]]
JobBecomes(j) == job' = j /\ editor' = Outdated(Editors)
OwnerWrites(j, o) == JobBecomes(j) /\ owner' = o
OwnerGoes(pc) == owner' = [owner EXCEPT !.pc = pc]
Stay == UNCHANGED <<job, editor>>

-----------------------------------------------------------------------------
(* Recovery, run by every process that takes the lock. *)

Free == {"Idle", "Dead"}
\* The lock is taken to run the Job, or to retry it from stage s first.
TakeLock ==
    /\ owner.pc \in Free
    /\ \E s \in 0 .. StageCount :
          /\ IF s = 0 THEN ~IsTerminal(job)
                      ELSE "Retry" \in Faults /\ CanRetry(job)
          /\ owner' = [NoOwner EXCEPT !.pc = "RecoverRows", !.retry = s]
    /\ UNCHANGED <<file, rows>> /\ Stay

Broken == {i \in Committed : ~Valid(i)}
Lowest(S) == CHOOSE s \in S : \A t \in S : s <= t
\* Slip: only the row is marked.
InvalidateRowOnly(j, broken) == j
\* invalidate_artifact_references for every broken row, by stage name.
InvalidateAll(j, broken) ==
    IF broken = {} THEN j
    ELSE InvalidateStage(j, Lowest({rows[i].stage : i \in broken}))

\* One transaction; the paths to keep are those of the rows as they were read.
RecoverRows ==
    /\ owner.pc = "RecoverRows"
    /\ rows' = [i \in DOMAIN rows |->
                   [rows[i] EXCEPT !.committed = @ /\ i \notin Broken]]
    /\ owner' = [owner EXCEPT !.pc = "ListFiles",
                              !.keep = {rows[i].path : i \in Committed}]
    /\ IF Broken = {} THEN Stay ELSE JobBecomes(InvalidateAll(job, Broken))
    /\ UNCHANGED file

\* Slip: .partial files are taken for somebody's work in progress.
SweepFinished(p, keep) == p \notin keep /\ p[2] # Partial
\* A file is kept only when a row names it; a .partial never is.
Sweep(p, keep) == p \notin keep
InDirectory(p) == p[1] \notin Exported

ListFiles ==
    /\ owner.pc = "ListFiles"
    /\ owner' = [owner EXCEPT
           !.pc = "Sweep",
           !.sweep = {p \in Path : /\ file[p] # NoFile
                                   /\ InDirectory(p)
                                   /\ Sweep(p, owner.keep)}]
    /\ UNCHANGED <<file, rows>> /\ Stay

Quarantine ==
    /\ owner.pc = "Sweep"
    /\ \E p \in owner.sweep :
          /\ Put(p, NoFile)
          /\ owner' = IF file[p] = NoFile THEN NoOwner
                      ELSE [owner EXCEPT !.sweep = @ \ {p}]
    /\ UNCHANGED rows /\ Stay

\* The Job itself: requeued if it was Running, reopened if this is a retry.
Requeue ==
    /\ owner.pc = "Sweep" /\ owner.sweep = {}
    /\ OwnerGoes("Recovered")
    /\ IF job.status = "Running" THEN JobBecomes(Recover(job)) ELSE Stay
    /\ UNCHANGED <<file, rows>>

PrepareRetry ==
    /\ owner.pc = "Recovered" /\ owner.retry # 0
    /\ IF CanRetry(job)
       THEN OwnerWrites(Retry(job, owner.retry), [owner EXCEPT !.retry = 0])
       ELSE owner' = NoOwner /\ Stay
    /\ UNCHANGED <<file, rows>>

Begin ==
    /\ owner.pc = "Recovered" /\ owner.retry = 0
    /\ IF job.status # "Pending"
       THEN owner' = NoOwner /\ Stay
       ELSE IF job.cancel_requested
       THEN OwnerWrites(Cancel(job), NoOwner)
       ELSE OwnerWrites(Start(job), [owner EXCEPT !.pc = "Stage", !.stage = 1,
                                                  !.fresh = TRUE, !.copy = Start(job)])
    /\ UNCHANGED <<file, rows>>

-----------------------------------------------------------------------------
(* The stages, one after the other. *)

Here == <<owner.stage, Final>>
HerePartial == <<owner.stage, Partial>>
\* The result of stage s in Job j can be used: the row is valid, and so is the
\* file a manifest names.
Reusable(j, s) == /\ Valid(j.artifact[s])
                  /\ s \in Sidecar => file[<<s, Side>>] = rows[j.artifact[s]].content
Completed(j, s) == j.stage[s] \in {"Done", "DoneDegraded"}

\* Between two stages; a cancellation in the row is noticed.
Gate ==
    /\ owner.pc = "Stage" /\ job.cancel_requested
    /\ OwnerGoes("Error")
    /\ UNCHANGED <<file, rows>> /\ Stay

\* A stage that is not to be run is passed over if its result can be used; a
\* stage that failed or was cancelled before the retried one cannot.
ReuseStage ==
    /\ owner.pc = "Stage" /\ owner.stage <= StageCount /\ ~job.cancel_requested
    /\ ~CanEnterStage(owner.copy, owner.stage)
    /\ owner' = IF /\ Completed(owner.copy, owner.stage)
                   /\ Reusable(owner.copy, owner.stage)
                THEN [owner EXCEPT !.stage = @ + 1]
                ELSE [owner EXCEPT !.pc = "Error"]
    /\ UNCHANGED <<file, rows>> /\ Stay

Default == CHOOSE c \in Contents : TRUE
Output(s) == IF s \in Varying THEN Contents ELSE {Default}

\* The stage computes its result.  The extractor replaces audio.wav, the
\* exporter the subtitle file, both before anything is recorded.
RunStage ==
    /\ owner.pc = "Stage" /\ owner.stage <= StageCount /\ ~job.cancel_requested
    /\ CanEnterStage(owner.copy, owner.stage)
    /\ LET started == [owner EXCEPT !.copy = StartStage(owner.copy, owner.stage)]
       IN  \/ /\ "Work" \in Faults
              /\ owner' = [started EXCEPT !.pc = "Error"]
              /\ UNCHANGED file
           \/ \E c \in Output(owner.stage) :
                 /\ owner' = [started EXCEPT !.pc = "Publish", !.content = c,
                                             !.published = FALSE]
                 /\ file' = [file EXCEPT
                        ![<<owner.stage, Side>>] =
                            IF owner.stage \in Sidecar THEN c ELSE @,
                        ![Here] = IF owner.stage \in Exported THEN c ELSE @]
    /\ UNCHANGED rows /\ Stay

\* Slip: whatever is there is replaced.
MayPublishAlways(p) == TRUE
MayPublish(p) == file[p] = NoFile

\* publish_prepared_artifact up to the rename: a file that is there already is
\* used if it is the same, and never replaced.
Publish ==
    /\ owner.pc = "Publish"
    /\ \/ /\ file[Here] = owner.content
          /\ OwnerGoes("Commit") /\ UNCHANGED file
       \/ /\ file[Here] # owner.content /\ MayPublish(Here)
          /\ owner.stage \notin Exported
          /\ IF file[HerePartial] = NoFile
             THEN OwnerGoes("Rename") /\ Put(HerePartial, owner.content)
             ELSE OwnerGoes("Error") /\ UNCHANGED file
       \/ /\ file[Here] # owner.content
          /\ ~MayPublish(Here) \/ owner.stage \in Exported
          /\ OwnerGoes("Error") /\ UNCHANGED file
    /\ UNCHANGED rows /\ Stay

\* The path is looked at once more; a file that has appeared wins.
Rename ==
    /\ owner.pc = "Rename"
    /\ IF MayPublish(Here)
       THEN /\ file' = [file EXCEPT ![Here] = owner.content, ![HerePartial] = NoFile]
            /\ owner' = [owner EXCEPT !.pc = "Commit", !.published = TRUE]
       ELSE /\ Put(HerePartial, NoFile)
            /\ OwnerGoes(IF file[Here] = owner.content THEN "Commit" ELSE "Error")
    /\ UNCHANGED rows /\ Stay

\* Slip: what the failed call did not publish is removed too.
RemovesAny(o) == o.stage \notin Exported
\* Only what this very call has put there is removed again.
RemovesFile(o) == o.published

OwnerHolds(o) == o.fresh
\* Row and Job in one transaction, refused if the Job has moved on.
Commit ==
    /\ owner.pc = "Commit"
    /\ \/ /\ OwnerHolds(owner) /\ Len(rows) < MaxRows
          /\ AddRow(owner.stage, Here, owner.content)
          /\ \E degraded \in BOOLEAN :
                LET j == CompleteStage(owner.copy, owner.stage, Len(rows) + 1, degraded)
                IN  /\ degraded => owner.stage \in Varying \ Exported
                    /\ OwnerWrites(j, [owner EXCEPT !.pc = "Stage", !.stage = @ + 1,
                                                    !.copy = j])
       \/ /\ ~OwnerHolds(owner) \/ "Commit" \in Faults
          /\ OwnerGoes(IF RemovesFile(owner) THEN "Remove" ELSE "Error")
          /\ UNCHANGED rows /\ Stay
    /\ UNCHANGED file

RemovePublished ==
    /\ owner.pc = "Remove"
    /\ Put(Here, NoFile)
    /\ OwnerGoes("Error")
    /\ UNCHANGED rows /\ Stay

Complete ==
    /\ owner.pc = "Stage" /\ owner.stage > StageCount
    /\ ~job.cancel_requested /\ CanFinish(owner.copy)
    /\ IF owner.fresh THEN OwnerWrites(Finish(owner.copy), NoOwner)
                      ELSE OwnerGoes("Error") /\ Stay
    /\ UNCHANGED <<file, rows>>

\* A cancellation cancels the latest row; any other error fails the running
\* stage, or cancels the Job when none runs, and is lost on an outdated copy.
EndInError ==
    /\ owner.pc = "Error"
    /\ IF job.cancel_requested /\ CanCancel(job)
       THEN OwnerWrites(Cancel(job), NoOwner)
       ELSE IF owner.fresh
       THEN OwnerWrites(IF CanFailStage(owner.copy, owner.stage)
                        THEN FailStage(owner.copy, owner.stage)
                        ELSE Cancel(owner.copy), NoOwner)
       ELSE owner' = NoOwner /\ Stay
    /\ UNCHANGED <<file, rows>>

-----------------------------------------------------------------------------
(* Other processes, none of which holds the lock. *)

\* CancelJob ends a Job that has not begun and leaves its intent in one that has.
AskCancel ==
    /\ "Cancel" \in Faults /\ ~IsTerminal(job) /\ ~job.cancel_requested
    /\ job' = IF job.status = "Running" THEN RequestCancel(job) ELSE Cancel(job)
    /\ owner' = [owner EXCEPT !.fresh = FALSE]
    /\ editor' = Outdated(Editors)
    /\ UNCHANGED <<file, rows>>

EditorGoes(e, pc) == editor' = [editor EXCEPT ![e].pc = pc]
EditorLeaves(e) == editor' = [editor EXCEPT ![e] = NoEdit]
Edited(e) == <<editor[e].stage, editor[e].revision>>

\* latest_transcript_artifact: the last completed stage that is a transcript.
IsTranscript(s) == s \in Editable /\ Completed(job, s)
Newest(s) == IsTranscript(s) /\ \A t \in Stages : t > s => ~IsTranscript(t)

\* The revision gets the next name after the one of the file it is made from.
EditLoad(e) ==
    /\ editor[e].pc = "Idle"
    /\ \E s \in Stages, c \in Contents :
          LET revision == rows[job.artifact[s]].path[2] + 1
          IN  /\ Newest(s) /\ Valid(job.artifact[s]) /\ revision <= MaxRevision
              /\ editor' = [editor EXCEPT ![e] =
                     [pc |-> "Write", fresh |-> TRUE, stage |-> s,
                      revision |-> revision, content |-> c, row |-> NoArtifact]]
    /\ UNCHANGED <<file, rows, job, owner>>

\* atomic_write_json replaces whatever has that name.
EditWrite(e) ==
    /\ editor[e].pc = "Write"
    /\ Put(Edited(e), editor[e].content)
    /\ EditorGoes(e, "Validate")
    /\ UNCHANGED <<rows, job, owner>>

EditValidate(e) ==
    /\ editor[e].pc = "Validate"
    /\ IF file[Edited(e)] = editor[e].content THEN EditorGoes(e, "Insert")
                                              ELSE EditorLeaves(e)
    /\ UNCHANGED <<file, rows, job, owner>>

EditInsert(e) ==
    /\ editor[e].pc = "Insert" /\ Len(rows) < MaxRows
    /\ AddRow(editor[e].stage, Edited(e), editor[e].content)
    /\ editor' = [editor EXCEPT ![e].pc = "Save", ![e].row = Len(rows) + 1]
    /\ UNCHANGED <<file, job, owner>>

\* Slip: the version is not compared.
EditorHoldsAny(e) == TRUE
EditorHolds(e) == editor[e].fresh
EditSave(e) ==
    /\ editor[e].pc = "Save"
    /\ IF EditorHolds(e)
       THEN /\ job' = Revise(job, editor[e].stage, editor[e].row)
            /\ owner' = [owner EXCEPT !.fresh = FALSE]
            /\ editor' = [Outdated(Editors \ {e}) EXCEPT ![e] = NoEdit]
       ELSE EditorLeaves(e) /\ UNCHANGED <<job, owner>>
    /\ UNCHANGED <<file, rows>>

\* Somebody removes or changes the file of a result.
Lose ==
    /\ "Lose" \in Faults
    /\ \E i \in Committed, c \in Contents \union {NoFile} :
          Valid(i) /\ c # rows[i].content /\ Put(rows[i].path, c)
    /\ UNCHANGED <<rows, job, owner, editor>>

\* The operating system frees the lock of a process that has died.
CrashOwner == /\ "Crash" \in Faults /\ owner.pc \notin Free
              /\ owner' = [NoOwner EXCEPT !.pc = "Dead"]
              /\ UNCHANGED <<file, rows>> /\ Stay

CrashEditor(e) == /\ "Crash" \in Faults /\ editor[e].pc # "Idle"
                  /\ EditorLeaves(e)
                  /\ UNCHANGED <<file, rows, job, owner>>

-----------------------------------------------------------------------------
(* A created Job, and the whole system. *)

Init == /\ file = [p \in Path |-> NoFile]
        /\ rows = <<>>
        /\ job = NewJob
        /\ owner = NoOwner
        /\ editor = [e \in Editors |-> NoEdit]

Recovery == RecoverRows \/ ListFiles \/ Quarantine \/ Requeue
Run == \/ PrepareRetry \/ Begin \/ Gate \/ ReuseStage \/ RunStage \/ Publish
       \/ Rename \/ Commit \/ RemovePublished \/ Complete \/ EndInError
OwnerStep == Recovery \/ Run
EditStep(e) == \/ EditLoad(e) \/ EditWrite(e) \/ EditValidate(e)
               \/ EditInsert(e) \/ EditSave(e)

Next == \/ TakeLock \/ OwnerStep \/ CrashOwner \/ AskCancel \/ Lose
        \/ \E e \in Editors : EditStep(e) \/ CrashEditor(e)

Spec == Init /\ [][Next]_vars

\* A process that holds the lock goes on; somebody starts the Job again as
\* long as it is not over.
FairSpec == Spec /\ WF_vars(OwnerStep) /\ WF_vars(TakeLock)

-----------------------------------------------------------------------------
(* Properties. *)

\* Every variable keeps its type.
TypeOK ==
    /\ file \in [Path -> Contents \union {NoFile}]
    /\ rows \in Seq(Row) /\ Len(rows) <= MaxRows
    /\ job \in Job
    /\ owner \in [pc : Free \union
                       {"RecoverRows", "ListFiles", "Sweep", "Recovered", "Stage",
                        "Publish", "Rename", "Commit", "Remove", "Error"},
                  retry : 0 .. StageCount, keep : SUBSET Path, sweep : SUBSET Path,
                  fresh : BOOLEAN, copy : Job, stage : 0 .. StageCount + 1,
                  content : Contents \union {NoFile}, published : BOOLEAN]
    /\ editor \in [Editors ->
           [pc : {"Idle", "Write", "Validate", "Insert", "Save"}, fresh : BOOLEAN,
            stage : 0 .. StageCount, revision : 0 .. MaxRevision,
            content : Contents \union {NoFile}, row : Artifacts \union {NoArtifact}]]

Referenced(j) == {s \in Stages : j.artifact[s] # NoArtifact}

\* Whatever died, was rolled back or was found damaged: a reference in the Job
\* row leads to a committed row of that very stage.
ReferencesAreCommitted ==
    \A s \in Referenced(job) : /\ job.artifact[s] \in Committed
                               /\ rows[job.artifact[s]].stage = s

\* The file of a committed row stays what it was when the row was written:
\* neither a crash, a second run nor a rolled-back commit replaces it.
CommittedFilesIntact == \A i \in Committed : Valid(i)

\* The recovery leaves nothing half-written and nothing without a row in the
\* directory of the Job, so that no later commit is refused because of it.
RecoveredIsClean ==
    owner.pc = "Recovered" =>
        \A p \in Path : InDirectory(p) /\ file[p] # NoFile =>
            p[2] # Partial /\ \E i \in DOMAIN rows : rows[i].path = p

\* It takes nothing from a Job all of whose results are there (the code:
\* invalidate "when its committed artifact cannot be verified").
VerifiedJobsKept ==
    [][RecoverRows /\ (\A s \in Referenced(job) : Valid(job.artifact[s]))
          => job' = job]_vars

\* The names of the revisions of a result count up: an edit that reached the
\* Job is replaced by an edit of it, never undone by a copy of the Job that
\* was made before.
RevisionOf(j, s) == rows[j.artifact[s]].path[2]
NoLostEdit ==
    [][\A s \in Referenced(job) :
          s \in Referenced(job') /\ job'.artifact[s] # job.artifact[s] =>
              rows'[job'.artifact[s]].path[2] = RevisionOf(job, s) + 1]_vars

\* However often and wherever the process dies and the commit fails, the Job
\* ends once it is neither interrupted nor retried any more.
RunsEnd == <>[](owner.pc # "Dead" /\ owner.retry = 0) => <>[]IsTerminal(job)

\* Results the Job holds after the recovery can be used again (the code, of a
\* retry: "Completed prerequisite stages remain reusable").
CompletedIsReusable ==
    owner.pc = "Recovered" =>
        \A s \in Stages : Completed(job, s) => Reusable(job, s)

=============================================================================
