------------------------------ MODULE MediaFiles ------------------------------
(***************************************************************************)
(* What a Batch is made of before its Jobs run, and the files its Jobs     *)
(* read and write outside the artifact store: the rows of a new Batch      *)
(* (process_media_files.rs, batch_creation.rs), the output paths           *)
(* (planner.rs), the source media, audio.wav (extract.rs), the cache of    *)
(* chunk transcripts with its collector (cache.rs) and the exported        *)
(* subtitles.                                                              *)
(*                                                                         *)
(* One process at a time holds the instance lock, so one command runs: a   *)
(* new Batch with its Jobs, the rest of a Batch, one Job again, or the     *)
(* collector.  It starts with the recovery, which takes every audio.wav    *)
(* away, and may die between any two of its steps.  All media have the     *)
(* same stem and lie in one directory: they compete for the same output    *)
(* names.  A Job has one chunk.  The content of a source or an audio is a  *)
(* number, that of a transcript the number of the transcription it is of;  *)
(* NoFile is 0.                                                            *)
(***************************************************************************)
EXTENDS Integers, Sequences, FiniteSets, Functions

CONSTANTS Media,       \* source files
          Policies,    \* ConflictPolicy: {"Rename", "Fail", "Overwrite"}
          MaxJobs,     \* bound on the Jobs ever created
          MaxSuffix,   \* bound on the suffixes tried, for 10_000
          MaxHeard,    \* bound on the transcriptions
          MaxRetries,  \* bound on the retries of a Job
          MaxChanges,  \* bound on the changes of a source
          MaxFaults    \* bound on crashes and failures

ASSUME MediaAssumption ==
    /\ IsFiniteSet(Media)
    /\ Policies \subseteq {"Rename", "Fail", "Overwrite"}
    /\ {MaxJobs, MaxSuffix, MaxHeard, MaxRetries, MaxChanges, MaxFaults} \subseteq Nat

VARIABLES policy,    \* conflict policy of the process
          outputs,   \* who wrote the file of every name
          source,    \* every media file: its content, and its size and mtime
          draft,     \* the Batch that is being created, and the planner
          rows,      \* committed rows: snapshots, batches, jobs
          jobs,      \* every Job ever created
          wav,       \* audio.wav of every Job
          cache,     \* data and metadata of the chunk of every audio
          proc,      \* the command at hand
          heard,     \* the audios transcribed so far: no two give the same bytes
          faults

vars == <<policy, outputs, source, draft, rows, jobs, wav, cache, proc, heard, faults>>
creation == <<draft, rows>>
files == <<outputs, source, wav, cache>>

NoFile == 0
User == -1                       \* a writer of output files, as the Jobs are
Names == 0 .. MaxSuffix          \* the rendered template and insert_suffix(n)
JobIds == 1 .. MaxJobs
Contents == 1 .. Cardinality(Media) + MaxChanges
Broken == -1                     \* a WAV that is cut off
Stages == <<"Probe", "Extract", "Asr", "Export">>

Created == DOMAIN jobs
Idle == [pc |-> "Idle", job |-> 0, bytes |-> NoFile, key |-> NoFile, todo |-> {}]
NoDraft == [members |-> <<>>, reserved |-> {}, tx |-> {}, batch |-> 0]
Goes(pc) == proc' = [proc EXCEPT !.pc = pc]
Return == proc' = Idle

\* Whoever takes the instance lock first quarantines the files below jobs/ that
\* no artifact row names: every audio.wav, as the row is that of the manifest.
Recovered == wav' = [k \in JobIds |-> NoFile]

\* A step may fail (an error of the file system, of ffmpeg or of SQLite).
MayFail == faults < MaxFaults /\ faults' = faults + 1

-----------------------------------------------------------------------------
(* CreateBatch::execute. *)

\* OutputPlanner::plan, what it may answer.
\* Slip: files on disk are looked at, reservations of the same Batch are not.
TakenOnDisk(reserved) == {n \in Names : outputs[n] # NoFile}
Taken(reserved) == reserved \union {n \in Names : outputs[n] # NoFile}
PlannedPath(reserved) ==
    CASE policy = "Overwrite" -> {0} \ reserved
      [] policy = "Fail" -> {0} \ Taken(reserved)
      [] policy = "Rename" -> {n \in Names \ Taken(reserved) :
                                  \A i \in 0 .. n - 1 : i \in Taken(reserved)}

\* begin_batch: the planner forgets what it has reserved.
BeginBatch ==
    /\ proc.pc = "Idle" /\ Recovered
    /\ Goes("Plan")
    /\ draft' = [NoDraft EXCEPT !.batch = Cardinality({r \in rows : r.kind = "Batch"}) + 1]
    /\ UNCHANGED <<outputs, source, cache, policy, rows, jobs, heard, faults>>

\* One file of the command: its stat is frozen, its output is reserved.
PlanFile ==
    /\ proc.pc = "Plan" /\ Cardinality(Created) + Len(draft.members) < MaxJobs
    /\ \E m \in Media, n \in PlannedPath(draft.reserved) :
          draft' = [draft EXCEPT
                      !.members = Append(@, [media |-> m, out |-> n, stat |-> source[m].stat]),
                      !.reserved = @ \union {n}]
    /\ UNCHANGED <<files, policy, rows, jobs, proc, heard, faults>>

\* OUTPUT_CONFLICT, or INPUT_NOT_FOUND: nothing is created.
PlanRefused ==
    /\ proc.pc = "Plan"
    /\ \/ PlannedPath(draft.reserved) = {} /\ UNCHANGED faults
       \/ MayFail
    /\ Return /\ draft' = NoDraft
    /\ UNCHANGED <<files, policy, rows, jobs, heard>>

JobOf(i) == Cardinality(Created) + i
MembersOf == {JobOf(i) : i \in DOMAIN draft.members}
Row(kind, i) == [kind |-> kind, id |-> i, batch |-> draft.batch,
                 members |-> IF kind = "Batch" THEN MembersOf ELSE {}]

\* The rows of the Batch in the order of create_batch_graph.
Graph == LET n == Len(draft.members)
         IN  [i \in 1 .. n |-> Row("Snapshot", JobOf(i))]
             \o <<Row("Batch", draft.batch)>>
             \o [i \in 1 .. n |-> Row("Job", JobOf(i))]

\* validate_graph and reject_existing_rows: every Job comes with its snapshot,
\* all in this Batch, and none of the rows is there yet.
ValidGraph ==
    \A r \in Range(Graph) :
        /\ r.batch = draft.batch
        /\ {x.kind : x \in {y \in Range(Graph) : y.id = r.id}} \ {"Batch"}
              \in {{}, {"Job", "Snapshot"}}
NoSuchRow == {<<r.kind, r.id>> : r \in rows} \intersect
             {<<r.kind, r.id>> : r \in Range(Graph)} = {}

\* What a transaction has written shows when it commits ...
\* Slip: every row is saved in a transaction of its own.
SaveOwn(row) == rows' = rows \union {row} /\ draft' = [draft EXCEPT !.tx = @ \union {row}]
Save(row) == draft' = [draft EXCEPT !.tx = @ \union {row}] /\ UNCHANGED rows

InsertRow ==
    /\ proc.pc \in {"Plan", "Insert"} /\ draft.members # <<>>
    /\ draft.tx = {} => ValidGraph /\ NoSuchRow
    /\ Cardinality(draft.tx) < Len(Graph)
    /\ Goes("Insert") /\ Save(Graph[Cardinality(draft.tx) + 1])
    /\ UNCHANGED <<files, policy, jobs, heard, faults>>

NewJob(member) ==
    [media |-> member.media, out |-> member.out, stat |-> member.stat,
     batch |-> draft.batch, done |-> 0, ended |-> FALSE, retries |-> 0,
     probed |-> NoFile, extracted |-> NoFile, asr |-> 0]

\* The Jobs are there, and the same command runs them.
CommitGraph ==
    /\ proc.pc = "Insert" /\ Cardinality(draft.tx) = Len(Graph)
    /\ rows' = rows \union draft.tx
    /\ jobs' = [k \in Created \union MembersOf |->
                  IF k \in Created THEN jobs[k]
                  ELSE NewJob(draft.members[k - Cardinality(Created)])]
    /\ proc' = [Idle EXCEPT !.pc = "Next", !.todo = MembersOf] /\ draft' = NoDraft
    /\ UNCHANGED <<files, policy, heard, faults>>

\* ... and is rolled back when a row cannot be saved.
RollBack ==
    /\ proc.pc = "Insert" /\ MayFail
    /\ Return /\ draft' = NoDraft
    /\ UNCHANGED <<files, policy, rows, jobs, heard>>

-----------------------------------------------------------------------------
(* TranscribeJob: the steps of one Job that touch these files.  A Job that *)
(* failed or is over can be taken back to any of its stages.               *)

Here == jobs[proc.job]
Input == source[Here.media]

\* A Job is over: the command goes on with those it has still to do.
JobEnds == proc' = [Idle EXCEPT !.pc = "Next", !.todo = proc.todo]
JobFails == JobEnds /\ jobs' = [jobs EXCEPT ![proc.job].ended = TRUE]

\* ResumeBatch: validate_resume_graph looks at the stored rows of the Batch as
\* a whole, before anything is run: a Job and a snapshot for each member, and
\* no snapshot besides.
SnapshotsOf(b) == {r \in rows : r.kind = "Snapshot" /\ r.batch = b.batch}
HasJob(b, member) ==
    \E r \in rows : r.kind = "Job" /\ r.id = member /\ r.batch = b.batch
ValidResumeGraph(b) ==
    /\ b.members # {}
    /\ \A member \in b.members : HasJob(b, member)
    /\ {s.id : s \in SnapshotsOf(b)} = b.members
Batches == {b \in rows : b.kind = "Batch"}

\* The Jobs of a Batch that are not over are run, or go on where they stopped.
ResumeBatch(b) ==
    /\ proc.pc = "Idle" /\ ValidResumeGraph(b) /\ Recovered
    /\ proc' = [Idle EXCEPT !.pc = "Next", !.todo = {k \in b.members : ~jobs[k].ended}]
    /\ UNCHANGED <<outputs, source, cache, policy, creation, jobs, heard, faults>>

\* The Jobs are taken in turn ...
TakeJob ==
    /\ proc.pc = "Next"
    /\ \E k \in proc.todo :
          /\ \A j \in proc.todo : k <= j
          /\ proc' = [Idle EXCEPT !.pc = "Start", !.job = k, !.todo = proc.todo \ {k}]
    /\ UNCHANGED <<files, policy, creation, jobs, heard, faults>>

\* ... until none is left, or the Batch is paused or stops at a failure.
LeaveBatch ==
    /\ proc.pc = "Next" /\ Return
    /\ UNCHANGED <<files, policy, creation, jobs, heard, faults>>

TakenBack(job, s) ==
    [job EXCEPT !.ended = FALSE, !.done = s, !.retries = @ + 1,
                !.probed = IF s = 0 THEN NoFile ELSE @,
                !.extracted = IF s < 2 THEN NoFile ELSE @,
                !.asr = IF s < 3 THEN 0 ELSE @]

\* RetryJob: the Job is taken back, and the same command runs it.
Retry(k, s) ==
    /\ proc.pc = "Idle" /\ jobs[k].ended /\ jobs[k].retries < MaxRetries /\ Recovered
    /\ jobs' = [jobs EXCEPT ![k] = TakenBack(@, s)]
    /\ proc' = [Idle EXCEPT !.pc = "Start", !.job = k]
    /\ UNCHANGED <<outputs, source, cache, policy, creation, heard, faults>>

\* validate_source_against_snapshot: size and mtime are those of the snapshot.
SameStat == Input.stat = Here.stat
\* ensure_probe: the hash in a committed manifest is that of the source.
\* Slip: a committed manifest is believed.
HashBelieved == TRUE
SameHash == Here.done = 0 \/ Here.probed = Input.content

Probed(job, hash) == IF job.done = 0 THEN [job EXCEPT !.probed = hash, !.done = 1] ELSE job
Probe ==
    /\ proc.pc = "Start"
    /\ IF SameStat /\ SameHash
       THEN /\ jobs' = [jobs EXCEPT ![proc.job] = Probed(@, Input.content)]
            /\ Goes(IF Here.done < 2 THEN "Extract" ELSE "Reuse")
       ELSE JobFails
    /\ UNCHANGED <<files, policy, creation, heard, faults>>

\* ensure_extract of a stage that is done: audio.wav must be the one that the
\* manifest names, or the Job fails with ARTIFACT_CORRUPT.  A transcript that
\* is done is loaded.
Audio == wav[proc.job]
ReuseAudio ==
    /\ proc.pc = "Reuse"
    /\ IF Audio = Here.extracted
       THEN Goes(IF Here.done < 3 THEN "Chunk" ELSE "Export") /\ UNCHANGED jobs
       ELSE JobFails
    /\ UNCHANGED <<files, policy, creation, heard, faults>>

\* extract_audio_wav: a leftover audio.tmp.wav is removed, and ffmpeg writes a
\* new one ...
Writes(content) == proc' = [proc EXCEPT !.pc = "Check", !.bytes = content]
Ffmpeg ==
    /\ proc.pc = "Extract"
    /\ \/ Writes(Input.content) /\ UNCHANGED faults
       \/ Writes(Broken) /\ MayFail
    /\ UNCHANGED <<files, policy, creation, jobs, heard>>

\* ... which must be canonical PCM of the length probed ...
WavOk(content) == content # Broken

\* ... and replaces audio.wav as a whole (commit_file) ...
CommitWav ==
    /\ proc.pc = "Check"
    /\ IF WavOk(proc.bytes)
       THEN /\ wav' = [wav EXCEPT ![proc.job] = proc.bytes]
            /\ Goes("Manifest") /\ UNCHANGED jobs
       ELSE JobFails /\ UNCHANGED wav
    /\ UNCHANGED <<policy, outputs, source, cache, creation, heard, faults>>

\* ... whose hash the manifest takes down.  The stage is done.
CommitManifest ==
    /\ proc.pc = "Manifest"
    /\ jobs' = [jobs EXCEPT ![proc.job] = [@ EXCEPT !.done = 2, !.extracted = Audio]]
    /\ Goes("Chunk")
    /\ UNCHANGED <<files, policy, creation, heard, faults>>

\* read_if_present and read_bytes of the chunk, whose key is made of the PCM
\* hash in the manifest: a hit, a miss, or CACHE_CORRUPT.  On a miss the audio
\* is transcribed.
Present(c) == NoFile \notin {cache[c].data, cache[c].meta}
Corrupt(c) == Present(c) /\ cache[c].data # cache[c].meta
Key == Here.extracted
Puts(bytes) == proc' = [proc EXCEPT !.pc = "PutData", !.bytes = bytes, !.key = Key]

ReadCache ==
    /\ proc.pc = "Chunk"
    /\ \/ Corrupt(Key) /\ JobFails /\ UNCHANGED heard
       \/ /\ Present(Key) /\ ~Corrupt(Key)
          /\ Puts(cache[Key].data) /\ UNCHANGED <<jobs, heard>>
       \/ /\ ~Present(Key) /\ Len(heard) < MaxHeard
          /\ heard' = Append(heard, Audio) /\ Puts(Len(heard) + 1) /\ UNCHANGED jobs
    /\ UNCHANGED <<files, policy, creation, faults>>

\* put_bytes: the data are renamed into place, then the metadata.
PutData ==
    /\ proc.pc = "PutData"
    /\ cache' = [cache EXCEPT ![proc.key].data = proc.bytes]
    /\ Goes("PutMeta")
    /\ UNCHANGED <<policy, outputs, source, wav, creation, jobs, heard, faults>>

PutMeta ==
    /\ proc.pc = "PutMeta"
    /\ cache' = [cache EXCEPT ![proc.key].meta = proc.bytes]
    /\ jobs' = [jobs EXCEPT ![proc.job] = [@ EXCEPT !.done = 3, !.asr = proc.bytes]]
    /\ Goes("Export")
    /\ UNCHANGED <<policy, outputs, source, wav, creation, heard, faults>>

\* write_export: the file is written next to the target and renamed over it.
Export ==
    /\ proc.pc = "Export"
    /\ outputs' = [outputs EXCEPT ![Here.out] = proc.job]
    /\ jobs' = [jobs EXCEPT ![proc.job] = [@ EXCEPT !.done = 4, !.ended = TRUE]]
    /\ JobEnds
    /\ UNCHANGED <<policy, source, wav, cache, creation, heard, faults>>

\* Any of these steps may fail.
StepFails ==
    /\ proc.pc \in {"Extract", "Manifest", "Chunk", "PutData", "PutMeta", "Export"} /\ MayFail
    /\ JobFails
    /\ UNCHANGED <<files, policy, creation, heard>>

-----------------------------------------------------------------------------
(* CacheStore::gc, crashes, and the user. *)

\* An entry that is over the budget: its data go first ...
GcData(c) ==
    /\ proc.pc = "Idle" /\ cache[c].data # NoFile /\ Recovered
    /\ cache' = [cache EXCEPT ![c].data = NoFile]
    /\ proc' = [Idle EXCEPT !.pc = "Gc", !.key = c]
    /\ UNCHANGED <<policy, outputs, source, creation, jobs, heard, faults>>

\* ... then its metadata; if that fails there is a warning.
\* Slip: the metadata are forgotten.
LeftMeta(c) == cache[c]
CollectedMeta(c) == [cache[c] EXCEPT !.meta = NoFile]
GcMeta ==
    /\ proc.pc = "Gc"
    /\ \/ cache' = [cache EXCEPT ![proc.key] = CollectedMeta(proc.key)] /\ UNCHANGED faults
       \/ MayFail /\ UNCHANGED cache
    /\ Return
    /\ UNCHANGED <<policy, outputs, source, wav, creation, jobs, heard>>

Crash ==
    /\ proc.pc # "Idle" /\ MayFail
    /\ Return /\ draft' = NoDraft
    /\ UNCHANGED <<files, policy, rows, jobs, heard>>

\* The user replaces a media file, between two Jobs; size and mtime may be kept
\* by whatever does it.
ChangeSource(m) ==
    /\ proc.pc \in {"Idle", "Next"}
    /\ \E c \in Contents, kept \in BOOLEAN :
          /\ \A x \in Media : c > source[x].content
          /\ source' = [source EXCEPT ![m] =
                          [content |-> c, stat |-> IF kept THEN @.stat ELSE c]]
    /\ UNCHANGED <<policy, outputs, wav, cache, creation, jobs, proc, heard, faults>>

Init ==
    /\ policy \in Policies
    /\ outputs \in {[n \in Names |-> IF n \in u THEN User ELSE NoFile] : u \in SUBSET {0}}
    /\ \E c \in Injection(Media, 1 .. Cardinality(Media)) :
          source = [m \in Media |-> [content |-> c[m], stat |-> c[m]]]
    /\ draft = NoDraft /\ rows = {} /\ jobs = <<>>
    /\ wav = [k \in JobIds |-> NoFile]
    /\ cache = [c \in Contents |-> [data |-> NoFile, meta |-> NoFile]]
    /\ proc = Idle /\ heard = <<>> /\ faults = 0

Creating == \/ BeginBatch \/ PlanFile \/ PlanRefused \/ InsertRow \/ CommitGraph \/ RollBack
Running == \/ Probe \/ ReuseAudio \/ Ffmpeg \/ CommitWav \/ CommitManifest \/ ReadCache
           \/ PutData \/ PutMeta \/ Export \/ StepFails
Next == \/ Creating \/ TakeJob \/ Running \/ LeaveBatch \/ GcMeta \/ Crash
        \/ \E b \in Batches : ResumeBatch(b)
        \/ \E k \in Created, s \in 0 .. 3 : s <= jobs[k].done /\ Retry(k, s)
        \/ \E c \in Contents : GcData(c)
        \/ \E m \in Media : ChangeSource(m)

Spec == Init /\ [][Next]_vars

-----------------------------------------------------------------------------
(* Properties. *)

\* The rows that can be read are whole Batches: a Job or a snapshot belongs to
\* a Batch that is there, and every Batch is one that another process can
\* resume, whatever fails or dies while its rows are inserted: what
\* batch_creation.rs commits, resume_batch.rs does not refuse.
GraphWhole ==
    /\ \A r \in rows : \E b \in rows : b.kind = "Batch" /\ b.batch = r.batch
    /\ \A b \in rows : b.kind = "Batch" => ValidResumeGraph(b)
    /\ {r.id : r \in {x \in rows : x.kind = "Job"}} = Created
    /\ {r.id : r \in {x \in rows : x.kind = "Snapshot"}} = Created

\* An export replaces no file that was there before the program unless the
\* policy is to overwrite, and never the subtitles of another Job of the same
\* Batch (planner.rs: "never ... other Job targets").
ExportsSpareOthers ==
    [][\A n \in Names : outputs'[n] # outputs[n] =>
          \/ outputs[n] = NoFile
          \/ outputs[n] = User /\ policy = "Overwrite"
          \/ /\ outputs[n] \in Created
             /\ jobs[outputs[n]].batch # jobs[outputs'[n]].batch]_vars

\* What a Job has extracted, and the transcript it has, are of the whole audio
\* of the very source it has probed, however often source, Job and process have
\* been started again, and though a transcript may come from the cache, where
\* another Job or an earlier run has left it.
OneSource ==
    \A k \in Created :
       /\ jobs[k].done >= 2 => jobs[k].extracted = jobs[k].probed
       /\ jobs[k].done >= 3 => heard[jobs[k].asr] = jobs[k].probed

\* One crash or failure never leaves a cache entry that refuses every read:
\* it takes one in the collector and another in a later write.
CorruptNeedsTwoFaults == \A c \in Contents : proc.pc = "Idle" /\ Corrupt(c) => faults >= 2

=============================================================================
