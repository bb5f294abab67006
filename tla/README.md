# VideoCaptionerR in TLA+

VideoCaptionerR turns media files into subtitles: it extracts the audio,
transcribes it chunk by chunk with a local ASR engine, splits, corrects and
translates the text with LLM providers, and exports subtitle files. All of this
is durable work: a **Batch** of **Jobs** is stored in SQLite, every Job goes
through seven stages, every stage commits an artifact, and the program may be
killed, cancelled, paused, resumed and retried at any moment. This directory
models that core, from the creation of a Batch to the file it exports, checks it
with TLC and proves part of it with TLAPS.

Paths below are relative to `src/crates/` unless they begin with `docs/` or
`python/`; the exact lines behind every definition are in `PROJECT.json` under `map`.

Contents: 1 [Inventory](#1-inventory) · 2 [Modules](#2-modules-and-the-code) ·
3 [Runs](#3-runs) · 4 [Fairness](#4-fairness) · 5 [Proofs](#5-proofs) ·
6 [Findings and observations](#6-findings-and-observations) ·
7 [Not modelled](#7-what-is-not-modelled) · 8 [Plan](#8-plan)

## 1. Inventory

### The parts, their state and their operations

| Part | Code | State | Operations |
|---|---|---|---|
| Job aggregate | `domain/src/workflow/{job,stage}.rs` | status, seven stages (Probe, ExtractAudio, Asr, Split, Correct, Translate, Export), an artifact reference per stage, the cancellation intent, the retry generation | start, start/complete/fail/skip a stage, finish, cancel, request_cancel, fail, recover, invalidate, retry, revise |
| Batch aggregate | `domain/src/workflow/batch.rs` | members in FIFO order, status, pause and cancel requests, a terminal record per member | start, request/mark pause, resume, request cancel, record, finish, recover, invalidate the record of a retried Job |
| Batch creation | `core/src/use_cases/process_media_files.rs`, `store/src/sqlite/batch_creation.rs`, `platform/src/subtitle_io/planner.rs` | a graph of rows, reserved output names | plan the outputs, validate, insert in one transaction |
| Processing Owner | `core/src/use_cases/run_batch.rs`, `transcribe_job/service.rs` | the Batch and the Job in memory, the ASR session, the cancellation token | runs the members one after the other, every store call a point where others may come in |
| Control commands | `core/src/use_cases/cancel_job.rs`, `bootstrap/src/batch_control.rs` | the rows they have loaded | CancelJob, CancelBatch, pause, resume; no lock needed, any process |
| Retry, resume | `core/src/use_cases/{retry_job,resume_batch}.rs` | the rows they have loaded | under the lock: reset a Job from a stage on, in one transaction; rebuild the commands of a Batch |
| Startup recovery | `core/src/use_cases/startup_recovery.rs` | none of its own | verify artifacts, give back expired leases, requeue Running Jobs and Batches |
| Stage commit | `store/src/sqlite/stage_commit.rs`, `store/src/artifact.rs` | the files of a Job, the artifact table | prepare, publish (`.partial`, fsync, rename), one transaction over row and Job, removal after a rollback |
| Artifact recovery | `store/src/sqlite/recovery.rs` | the same | verify every committed row, invalidate what refers to a lost one, quarantine the rest |
| Transcript editor | `core/src/use_cases/transcript_editor.rs` | the Job and transcript it has loaded | write a revision file, insert its row, put it into the Job |
| Work units | `domain/src/workflow/work_unit.rs`, `store/src/sqlite/work_units.rs`, `transcribe_job/asr.rs` | one row per chunk: status, lease, attempt | enqueue, lease the first Pending one, complete, fail, cancel, recover an expired one, retry |
| Store | `store/src/sqlite/*`, `store/src/actor/*` | SQLite behind one thread | compare-and-swap on the version of a row; transactions |
| Instance lock, run registry | `platform/src/instance_lock.rs`, `bootstrap/src/run_control.rs` | a file lock; the token of the run | one owner at a time; cancellation inside the owner's process |
| Content cache | `store/src/cache.rs` | two files per key | put, read, gc by age and size |
| Source media, audio | `transcribe_job/service.rs`, `platform/src/media/extract.rs` | the source file, its stat and hash, `audio.wav` | probe, extract, check, replace |
| LLM pipeline | `core/src/use_cases/llm_pipeline/*` | a durable plan and a result file per LLM batch | plan, call, validate, repair, halve, persist, resume |
| Circuit breaker | `llm/src/circuit.rs` | closed / open / half-open, failure count, Retry-After, an authentication lock | guard, record success, record failure |
| ASR worker | `asr/src/worker/*`, `asr/src/application.rs`, `whisper-helper/src/session.rs`, `python/runtimes/worker_common.py` | a child process, two pipes, request and sequence numbers, threads | hello, load, transcribe, cancel, unload, shut down |
| Chunk plan | `core/src/chunking.rs`, `asr/src/normalize.rs` | none (pure) | analysis, cuts, normalization, ownership of words |
| Transcript, rule split | `domain/src/subtitle/*`, `llm_pipeline/split.rs` | none (values) | rules for cues, breaks of the model, texts, edits, degradation |
| Subtitle files | `platform/src/subtitle_io/*` | none (pure) | import of SRT and VTT, export of SRT and VTT, the text of ASS events |

### How they interact

```
 CLI / desktop ──► control commands ─────────────┐ load, save (version compared)
       │                 │ token (same process)  ▼
       ▼                 ▼                  ┌──────────┐
 creation ──► instance lock ─► Owner ──────►│  SQLite  │ Batch, Job, WorkUnit,
                  recovery, retry, run      │  rows    │ artifact rows
                    │    │     │            └──────────┘
      pipes, token  │    │     └── breaker ──► provider
        ▼           │    ▼                       ▲
   ASR worker ◄─────┘  stage commit ── files ─── artifact recovery
                         ▲
      source ─► audio ─► words ─► cues ─► LLM stages ─► export
```

No two actors share memory, apart from the cancellation token inside one process
and the threads of a worker. They meet in the store, in files and in pipes. A load or
a save is atomic, because a single thread executes the store's commands; nothing is
atomic across two of them. A save names the version it was loaded at and is refused
with `STALE_RESULT` if the row has moved on. The instance lock keeps a second owner
away, but the control commands and the editor do not take it.

### What is hard

- **Interleaving.** Between any two store calls of the owner a command of another
  process may load, save, or be half-way through its own series of calls. The task that
  cancels a call to the worker runs beside the call; so do the worker's threads.
- **Stale copies.** Whatever was read before a long operation (a Job before its run,
  the status of all chunks before the first of them, the hash of a source) may be
  outdated when used.
- **Crashes.** The process may die between publishing a file and recording it, between
  two files of a cache entry, with a leased unit, between an answer and the file that
  keeps it, or between the save of the last Job and the save of the Batch.
- **Partial failure.** The ASR session does not open and all Jobs have to be failed one by
  one; a commit fails after its file has been published; a provider answers for some cues
  of a request and not for others.
- **Time-outs and retries.** A call that was given up is still being worked on and
  answered; two kinds of retry and a halving of batches are nested loops.
- **Long legal sequences.** Retries from any stage, cancellation, edits, invalidation and
  revision in any order must not let a Job announce a result it does not have or lose what
  the user typed.
- **Boundaries.** Words at a cut between chunks, breaks inside a word, the last cue of a file.
- **Liveness.** Someone who pauses, cancels or resumes must be answered; a leased chunk
  nobody works on must become available again; a call to a silent or dead worker must return.

`PROJECT.json` lists these places under `hazards`, at their lines, with the properties
that would notice them going wrong.

### What makes each part correct

- *Job*: success only with a result for every stage; a stage that runs stands on
  finished ones; reopening a stage takes everything derived from it along; an intent to
  cancel is not forgotten.
- *Batch, owner, commands*: records agree with the Jobs; a Batch ends only after its
  Jobs; members run in order; a durable cancellation beats success; pause and cancel
  are answered.
- *Stage commit, recovery, editor*: committed files stay what they are; a reference leads
  to a committed row; a crash leaves nothing that blocks the next run; an edit is not lost.
- *Work units*: work in hand is not taken away; completed chunks survive; a transcript
  has all chunks; lost leases come back.
- *Creation, files*: a Batch appears with all its rows or not at all; exports spare what
  others wrote; audio and transcript are those of the source that was probed; one fault never
  spoils the cache.
- *LLM stage, breaker*: the provider is not called in vain; every cue is answered or marked;
  what was paid for is kept; the stage ends.
- *ASR worker*: an answer belongs to its call; one inference at a time; the session outlives
  whatever a worker does by itself; a worker that is silent holds no call.
- *Words to files*: no word is lost or doubled at a cut; cues cover the words; breaks are
  where the model put them; typed text stays, also where it is empty; degraded cues are marked;
  files read back.


## 2. Modules and the code

| Module | Models | Kind |
|---|---|---|
| `JobAggregate` | methods of `Job` and `Stage` as operators `CanX(j)`, `X(j)`; the predicate `JobOK` | values |
| `JobLifecycle` | one Job under every sequence of those methods | specification |
| `JobProgress` | what a Job promises: finished stages and an outcome | abstract specification |
| `BatchAggregate` | methods of `Batch`, as above | values |
| `BatchControl` | owner, recovery, retry, control commands, crashes over the rows of one Batch | specification, composes both aggregates |
| `BatchPromise` | what a Batch promises: outcomes of its members and a result | abstract specification |
| `StageCommit` | files, artifact rows and one Job; commit, recovery, crashes, edits | specification over `JobAggregate` |
| `WorkUnitAggregate` | methods of `WorkUnit` | values |
| `WorkUnitLease` | transcription chunk by chunk: units, leases, owner, CancelJob, crashes, time | specification over `JobAggregate` |
| `MediaFiles` | creation of Batches, output names, sources, `audio.wav`, chunk cache and its collector | specification |
| `AsrWorker` | the session with the worker: client, cancel tasks, pipes, the worker's threads | specification |
| `CircuitBreaker` | methods of the breaker | values |
| `LlmPipeline` | one LLM stage: packing, plan, requests, retries, halving, crash and resumption | specification over `CircuitBreaker` |
| `ChunkPlan` | analysis, cuts, normalization, ownership of words | values |
| `RuleSplit` | the passes of the rule splitter, and the mapping of breaks in a reply to words | values |
| `Selection` | the elements of a sequence that are in a set (`iter().filter()`) | values |
| `Transcript` | methods of `Transcript`; import and export of subtitle files | values |
| `SubtitleFlow` | one Job's words on their way to the exported cues, with edits and retries | specification, composes the three above |
| `JobLifecycleProofs`, `BatchControlProofs`, `StageCommitProofs`, `WorkUnitLeaseProofs`, `MediaFilesProofs`, `AsrWorkerProofs`, `LlmPipelineProofs`, `SubtitleFlowProofs` | theorems about the module they are named after | theorems |

**Aggregates.** A Rust method that takes `&mut self` and returns a `Result` becomes a
condition `CanX` (it returns `Ok`) and the value `X` it leaves. A method that returns
`Err` leaves the aggregate as it was. Stages are the numbers `1 .. StageCount`, artifact
references members of a set. The statuses `Retrying`, `WaitingResource` and
`WaitingProvider` are declared by the code and assigned by none of its statements;
`retry_attempt` moves in step with `retry_generation` and is left out. The clock, messages
and identifiers are left out.

**Versions.** An aggregate carries a version that every save increments and compares.
The only thing a version decides is whether a copy is current, so `BatchControl` and
`WorkUnitLease` keep `fresh[a]`, the rows of which actor `a` holds a current copy:
loading adds a row, somebody's save removes it from everybody else. A copy of a Job
needs no field of its own: while it is current it equals the row, and an outdated one
never reaches the store. The Batch, which the owner changes in memory across several
calls, has one (`owner.copy`).

**`BatchControl`.** `owner.pc` names the next store call of the owner; each action is the
code from one store call to the next. `Verify` to `RecoverBatch` is `StartupRecovery`,
`RetryTx` is `RetryJob`, `Start` to `Finish` is `RunBatch` (with `Fail*` for a session
that does not open, `Cancel*` for the rest of a cancelled Batch), `LoadJob` to
`CancelJob` is `TranscribeJob`. A Job is saved as Running once and then at each stage
commit; the `Gate` action is `ensure_not_cancelled`, which reads token and row. Control
commands have a `pc` of their own. `Local` are the controllers in the owner's process:
their CancelJob also reaches the run registry and hence the token, and they die with the
owner. `Faults` turns on crashes (`Crash`), a session that does not open (`Open`),
failing stages (`Work`), failing commits (`Commit`), artifacts that turn out to be gone
(`Verify`) and failing unit updates of CancelJob (`Units`).

**`StageCommit`.** A path is a stage and a name: the result, its `.partial`, the file it
names (`audio.wav` for ExtractAudio), and user revisions. Publication is three steps
(write `.partial`, rename, transaction), each of which a crash may follow; a path that
exists is reused if equal and never replaced. Recovery is one transaction over the rows,
then a listing of the directory, then the removal of one file after another. What
`BatchControl` does in steps (start, failure) is one step here. `Exported` stages write
outside the directory of the Job; `Varying` ones may compute something else each time.

**`WorkUnitLease`.** A unit is named by its chunk and the fingerprint of its cache key, of
which only the engine version varies here: `Engines` are versions, oldest first, and each
run uses one that is no older than the last. `owner.seen` is the status of all units as
found before the first chunk is executed, `owner.held` says that a leased unit is in hand,
`owner.late` counts chunks completed after a request to cancel (a history variable).
`Tick` is a unit of time; a lease has `LeaseTime` of them (600 s). `LeaseUnit` takes the
first Pending unit in the order of chunk and creation time, as the SQL does, and gives up
without releasing it when it is not the expected one, as the code does.

**`MediaFiles`.** `BeginBatch` to `CommitGraph` is `CreateBatch::execute` with the planner:
a name is `0` (the template) or the suffix tried; what a transaction has written is
`draft.tx` until it commits. A command runs the Jobs in `proc.todo` one after the other
(`TakeJob` to `LeaveBatch`): those it has created, those a Batch has left, where
`ValidResumeGraph` is what `ResumeBatch` asks of the rows before, or the one it retries. Every
command begins with the recovery, of which only what it does to these files is here:
`Recovered` takes `audio.wav` of every Job away. `Probe` to `Export` are the steps of
`TranscribeJob` that touch source, `audio.wav`, cache and export, one per file operation; a
Job that begins with ExtractAudio done meets `ReuseAudio`, which compares `audio.wav` with the
manifest and fails the Job if they differ. `job.extracted` is the content the manifest names,
`job.asr` the number of the transcription the Job has, and `heard` the audio of each. A cache
entry is the pair of hashes of its data and of what its metadata say of them; its key is the
content in the manifest. The media of an instance have one stem and so compete for names. Any
step may fail or be the last of its process; `ChangeSource` replaces a source between two
commands or two Jobs and may leave size and mtime alone.

**`AsrWorker`.** `client.pc` is where `WorkerAsrSession` and `WorkerClient` are between two
awaits, `session` is `WorkerProtocolSession`, `watch[c]` the task that polls the token of
call `c` and sends Cancel, `requests` and `lines` the two pipes. On the worker's side
`HandleLine` is its reader, `thread[r]` the thread of request `r`, `worker.busy` and
`worker.targets` what they share. The Rust helper and the Python worker differ where they
do in the code: numbering and locking of lines, one cancel target or an event per
transcription, the order in which a thread clears them. `out[w]` is a line that has its
number and has not reached stdout yet, which happens in the helper only. A transcription says
any number of lines before its last one (`SaySegment`: Segments and Progress, which the client
treats alike), each of which begins the client's time-out anew. The pipe to the client holds
`MaxPipe` lines, and a worker that finds it full waits. Line numbers wrap around at `Numbers`,
which is sound as long as there are as many as lines can be under way at once: those in the pipe
and one of each writer that waits. Nobody reads what a worker says after it was told to end,
so the wait for its end (`WorkerClient::shutdown`) and its end are one with the step before.

**`LlmPipeline`.** `run.pc` is where `LlmPipelineService` is between two awaits;
`run.pending` are the ranges of cues that are still to be asked for in the batch at hand
(`VecDeque` of `request_*_batch`), with `semantic` and `transport` the two attempt counters
of the range at its head. `disk` has the prompt, the plan, a result per batch and the
work-unit rows. A response is its first defect, in the order in which the code looks for
them; `Refused` says which defects each stage rejects. `setup.wired` is whether the work
units are passed in (they are at `bootstrap/src/runtime.rs:163`), `setup.swept` whether the
recovery of `StageCommit` precedes each run. Deadlines of the breaker are `None`, `Running`
or `Over`, and `OpenTimeOver`/`RetryAfterOver` end them.

**`ChunkPlan`, `RuleSplit`, `Transcript`, `SubtitleFlow`.** The first three are functions of
values, one operator per function or pass of the code. Recursions are recursive functions, and
a text is a class of text: what the rules tell apart (script, the end of a sentence, a
conjunction, its length) and nothing else. What is typed or answered is a class as well
(`TypedTexts`, `Corrections`, `Translations`): one line, two lines, nothing, or two with an
empty one between them, since neither the editor nor the checks of an answer look for line
breaks; only an answer is never empty. `LinesOf` gives the lines a file has of them, and
`SplitBlocks` is how the readers find blocks in it, empty lines inside a cue included.
`SubtitleFlow` is the order in which `TranscribeJob` and the editor apply them; `Routes` choose
which sources of words an instance enumerates: chunked recordings, whole ones for the rules,
whole ones for the LLM, engine results with wrong times, SRT and VTT documents.
`Replies(words)` are the texts an LLM may send back with its breaks; those that fail validation
are retried or degraded, which is `LlmPipeline`'s subject, and so only `AnswerSplit` and
`DegradeSplit` remain.

**Composition.** `BatchControl` sees a stage as an outcome and a version; `StageCommit`
opens the commit of one stage, `WorkUnitLease` the ASR stage, `LlmPipeline` the Split,
Correct and Translate stages, `AsrWorker` a single transcription, `MediaFiles` the files
around them, and `SubtitleFlow` the values that are committed. Two abstract specifications,
`JobProgress` and `BatchPromise`, are implemented by `JobLifecycle` and `BatchControl`.

**Slips.** A definition whose comment begins with "Slip" is the one after it with a
plausible mistake (a dropped guard, a missing reset, a version that is not compared). No
specification uses it; it documents a mistake the properties are able to notice, and
`PROJECT.json` pairs it under `mutants` with the property that does.

## 3. Runs

Symmetry is not used. `CHECK_DEADLOCK FALSE` appears wherever the system may rightly stop
(everything ended, no command left to issue).

| Run | Instance | Distinct states |
|---|---|---|
| `job_lifecycle` | 3 stages, 2 artifacts, 2 retries counted | 14,619 |
| `batch_control` | 2 Jobs of 1 stage, 1 controller: pause, resume, retry; crashes and failures of work, session, commit | 1,524,756 |
| `batch_rows` | 1 Job of 2 stages, 1 local controller: both cancels, resume, retry; every fault | 659,560 |
| `batch_progress` | 2 Jobs of 1 stage, 1 controller: cancel, pause, resume; fairness | 108,677 |
| `stage_commit` | 3 stages, 5 rows, 2 contents, a varying stage; crash, failure, cancel, retry; fairness | 45,854 |
| `stage_edit` | 2 stages, 2 concurrent edits, 2 revisions; crash, failure, lost files | 1,155,909 |
| `work_units` | 2 chunks, 2 engines, 1 controller, 2 mishaps of any kind; fairness | 225,109 |
| `media_files` | 2 Jobs, every policy, a user's file, 1 retry each, 1 change of the source, 2 transcriptions, 2 faults | 1,766,264 |
| `asr_worker` | 2 calls of any number of lines, a pipe of 1 line, both workers, every outcome; crash, time-out, cancel; fairness | 1,400,102 |
| `llm_pipeline` | 3 cues of 3 weights, 2 attempts of each kind, 2 runs, Split and Translate; fairness | 1,017,395 |
| `subtitle_flow` | audios, words, SRT and VTT documents of 2 blocks; texts of no, one, two lines and with an empty line; 2 breaks, 2 edits, 2 retries | 1,072,968 |

**`job_lifecycle`.** Under every order of method calls the stage table, artifacts and
status agree (`JobInv`), and the Job implements `JobProgress` (`KeepsPromise`). Three
stages give a stage that has one before and one after it; the counter saturates at 2
within the instance.

**`batch_control`, `batch_rows`.** A Batch ends after its Jobs (`EndedBatchHasEndedJobs`);
nothing runs while it is paused (`PausedMeansQuiet`); the Batch implements `BatchPromise`
(`KeepsPromise`); a durable cancellation is never followed by success (`CancelWins`). Two
Jobs are enough for one to be over while the other is retried or recovered. One controller
executes any number of commands one after the other, each of which takes several steps
between which the owner acts; the pairs that race in this code are a command and the owner.
All commands and faults together are out of reach, and some of the properties do not
survive them (section 6), so the instances split them: one Batch with retries and
failures, one Job with everything.

**`batch_progress`.** The records of the Batch agree with the Jobs (`RecordsAgree`);
members run in order (`FifoOrder`). Unless somebody pauses it, a Batch ends
(`BatchConcludes`); a Job asked to cancel ends (`CancelAnswered`); a pause is obeyed,
withdrawn or overtaken (`PauseObeyed`).

**`stage_commit`.** Published files are not replaced (`CommittedFilesIntact`); after
recovery nothing half-written remains (`RecoveredIsClean`); recovery takes nothing from a
Job whose results are all there (`VerifiedJobsKept`); a Job that is left alone ends
(`RunsEnd`), which it would not if the remains of a crash blocked the next publication. Five
rows let two stages be committed twice.

**`stage_edit`.** With files that disappear or change, references lead to committed rows
(`ReferencesAreCommitted`); of two concurrent edits none is silently undone (`NoLostEdit`).

**`work_units`.** A leased unit is not taken from the owner at work (`LeasedUnitIsKept`);
after a request to cancel one chunk more is completed at most (`CancelIsPrompt`: the
last check precedes the commit, so "none" would be false); a Job becomes Done only with
all chunks of its engine (`TranscriptNeedsEveryChunk`); completed chunks survive
everything but a retry or the loss of their file (`CompletedChunksSurvive`); without an
upgrade the Job is transcribed in the end (`JobGetsTranscribed`). Two chunks make one that
is done while the other fails; two mishaps make a crash after a failure, or a lost file
after a crash. With `LeaseTime = 1` a lease is fresh or expired, which is all the code asks.

**`media_files`.** The rows that can be read are whole Batches, each of which a later process
can resume (`GraphWhole`); an export
replaces no file of others, except under the policy that says so, and never that of
another Job of its Batch (`ExportsSpareOthers`); what a Job has extracted is the whole audio of the
source that was probed, and the transcript it has is of that audio, though it may come from the
cache, whatever was changed and started again (`OneSource`); an entry of
the cache that refuses every read needs two faults (`CorruptNeedsTwoFaults`). Two Jobs are
one Batch of two or two of one; two faults are what the last property is about. `OneSource`
speaks of what the Job's records name and not of `audio.wav`, which the recovery takes away
(`wav_quarantined`): a Job that is started again with ExtractAudio done fails in this
model, and gets on after a retry from Probe or ExtractAudio.

**`asr_worker`.** Nothing a call takes in stems from another request, and Ok is said only of
a request that was answered (`AnswerIsItsOwn`); there is one inference at a time
(`OneInference`); the session is terminated by a time-out or a crash only, never by what a
worker does by itself (`SessionSurvives`). A call returns unless the worker says lines of that
very call for ever (`CallReturns`): silence, hanging, death and the talk of an abandoned
transcription hold none. More is not true of this code: every line allows the call another
time-out (`client.rs:377-389`) and no limit is set for a call as a whole. The second call is
the one that meets what the first has left behind: late lines, a late Cancel, a thread that
has not cleared its flags, and may be talking still. A pipe of one line lets writers wait and
lines fall behind.

**`llm_pipeline`.** One more request at most after a request to cancel, none with a refused
key, and no more failures in a row than the threshold (`ProviderSpared`); a stage that
succeeds has accounted for each cue (`EveryCueAccounted`); no request leaves before the plan
it belongs to is durable, nor for a batch whose answer is (`DurableWork`); a run ends
(`RunEnds`). Cues of 1, 4 and 5 tokens at a limit of 4 can be packed together, only alone,
and not at all; three of them make a batch that is halved beside one that is not; the
second run is the one that resumes. Correct is left out of the instance: it keeps its plan
as Split does and takes its texts as Translate does. One refusable defect stands for those
that are refused alike, one error for each way in which the breaker treats them.

**`subtitle_flow`.** Words no longer than the context of a chunk are in the transcript once, in
order (`WordsOwnedOnce`); cues partition the words and are not too long (`CuesCoverWords`);
cues are split where the reply breaks them, if it keeps the spaces (`SplitWhereAsked`); what
the user typed stays (`UserWordsStay`); whoever reads the latest transcript sees what a stage
gave up on (`DegradedIsTold`). What was typed last into a field counts, and a field that was
cleared stays cleared. The reference definitions are independent of the code's algorithms: the
words that were spoken, the partition of an interval, the words between which a reader would
find a break. Durations of 8 and 9 with a limit of 5 make two and three chunks, with cuts at
silences, at quiet frames and at the target; four words make every pass of the rules happen.
Spoken words have a length here: a word of none at the very end of an audio has no owner
(`chunking.rs:304`) and would be dropped.

An exported file of the latest transcript, which is the one the Export stage takes, reads
back, layout by layout (`ExportReadsBack`): the cues that are not cleared come back in their
order and with their times, also those whose texts have several lines, and where the texts of
a cue are one line each they come back with it. The condition is that no cue of the file has
an empty line inside; without it TLC finds the property violated, as the reader ends the cue
there. Two blocks and two edits make a cleared cue beside one that is kept. The user of this
instance clears a field or types two lines, a correction has an empty line inside; texts of one
line are what the words and the translations are.

**`wav_quarantined`** states a sentence of the repository that the code does not keep; TLC
finds it violated (section 6).

**Bounds.** `MaxGeneration`, `MaxRows`, `MaxRevision`, `MaxMishaps`, `LeaseTime`, `MaxCalls`,
`MaxRuns`, `MaxJobs`, `MaxSuffix`, `MaxHeard`, `MaxRetries`, `MaxChanges`, `MaxFaults`,
`MaxEdits`, `MaxBreaks`, `MaxBlocks` and `MaxPipe` are the bounds of counters, and `Numbers`
stands for the 2^64 line numbers. `MaxGeneration` is a
saturating counter of the code (`u32::MAX`), so the model saturates too. `MaxSuffix` stands
for the code's 10,000, `SemanticMax` and `TransportMax` for its attempt limits. The others
stop further commits, edits, calls, runs or faults; `BatchControl` and `StageCommit` have no
bound on crashes at all.

**Types.** Each specification states its types as `TypeOK`, with the facts about program
counters that a reader needs. They hold in the instances of the runs, but are properties of
no run: what a run checks is about the code.

## 4. Fairness

`Spec` has none; safety is checked under it or under `FairSpec`, which implies it.

- `WF(OwnerStep)`, `WF(CtlStep(c))`: a task of the async runtime whose next step is
  possible is eventually run. A command that was begun goes on; nothing obliges a user to
  begin one, and no fault is fair. In `BatchControl` nobody is obliged to start another
  owner either: in `batch_progress` there are no crashes, so the first must do.
- `WF(TakeLock)` in `StageCommit` and `WorkUnitLease`: somebody starts the Job again, or
  retries it, as long as it is not over. This is an assumption about the user: there is no
  daemon. Without it the properties would hold only of Jobs that never fail.
- `WF(Tick)` in `WorkUnitLease`: time passes.
- `WF(Progress)` in `LlmPipeline`: a request is answered or meets reqwest's time-out, a
  sleep ends. Nothing obliges the time of an open circuit or of a Retry-After to be over:
  the run ends without.
- `WF(ClientStep)` in `AsrWorker`: the client is a task of the runtime, and a read that is
  not answered times out (`client.rs:180`). The worker owes nobody anything: it may stop at
  any line or never stop.

Weak fairness suffices: each of these actions stays enabled until it is taken, or
something else has moved the same actor on.

## 5. Proofs

TLC shows the properties on the instances above; the theorems say them for every value of
the constants: any number of stages, artifacts and retries in `JobLifecycle`, of Jobs, stages
and controllers in `BatchControl`, of chunks, engines, commands and mishaps in `WorkUnitLease`,
of rows, revisions, contents and concurrent edits in `StageCommit`, of calls, of lines and of
those a pipe holds in `AsrWorker`, of
cues, attempts, runs and any threshold in `LlmPipeline`, of media, Jobs, names and faults in
`MediaFiles`; in `SubtitleFlow` audios of any length and loudness, words and replies of any
number, any limits of the rules, any number of edits and retries, and any texts typed or answered.
They rest on the named assumptions `JobAssumption`, `BatchAssumption`, `ControlAssumption`,
`CommitAssumption`, `LeaseAssumption`, `UnitAssumption`, `BreakerAssumption`,
`PipelineAssumption`, `WorkerAssumption`, `MediaAssumption`, `ChunkAssumption`,
`RuleAssumption` and `FlowAssumption`, which TLC evaluates in the runs of these modules, and
on nothing else but what the theorem itself says: four of those about `StageCommit` and five of
those about `BatchControl` are about instances without some kind of disturbance (below).

| Theorem | States | Checked by run |
|---|---|---|
| `JobAlwaysConsistent` | `JobInv` | `job_lifecycle` |
| `TypeCorrect` | `TypeOK` of the Job | |
| `SuccessIsHonest` | `HonestSuccess` | as a conjunct of `JobInv` |
| `StagesStandOnResults` | `StandsOnResults` | as a conjunct of `JobInv` |
| `ReopenTakesDependents` | `ReopenDropsDependents` | |
| `CancelIntentIsDurable` | `CancelIntentSurvives` | |
| `JobImplementsProgress` | `KeepsPromise`: every step is one of `JobProgress` or a stutter | `job_lifecycle` |
| `TypeCorrect` | `TypeOK` of the Batch and its processes | |
| `CancelIsFinal` | `CancelWins` | `batch_rows` |
| `RecordsAreTrue` | `RecordsAgree`, where processes are `Orderly` | `batch_progress` |
| `JobsStartInOrder` | `FifoOrder`, where they are | `batch_progress` |
| `EndedBatchIsOver` | `EndedBatchHasEndedJobs`, where they are | `batch_control` |
| `PausedBatchIsQuiet` | `PausedMeansQuiet`, where they are | `batch_control` |
| `BatchPromiseIsKept` | `KeepsPromise`, where they are: every step is one of `BatchPromise` or a stutter | `batch_control` |
| `UnitsAreWellTyped` | `TypeOK`, with `JobOK` and "a lease exactly while Running" | |
| `LeaseOutlastsWork` | `LeasedUnitIsKept` | `work_units` |
| `CancelEndsWork` | `CancelIsPrompt` | `work_units` |
| `TranscriptIsWhole` | `TranscriptNeedsEveryChunk` | `work_units` |
| `CompletedChunksStay` | `CompletedChunksSurvive` | `work_units` |
| `ReferencesHold` | `ReferencesAreCommitted` | `stage_edit` |
| `NoEditIsLost` | `NoLostEdit` | `stage_edit` |
| `StageResultsStay` | the files of stage results stay, beside any edits | |
| `CommittedFilesStay` | `CommittedFilesIntact` | `stage_commit` |
| `VerifiedJobsAreKept` | `VerifiedJobsKept` | `stage_commit` |
| `RecoveryCleansUp` | `RecoveredIsClean` | `stage_commit` |
| `OneTranscriptionPerWorker` | `OneInference` | `asr_worker` |
| `AnswersAreTheirOwn` | `AnswerIsItsOwn` | `asr_worker` |
| `SessionsSurvive` | `SessionSurvives` | `asr_worker` |
| `ProviderIsSpared` | `ProviderSpared` | `llm_pipeline` |
| `EveryCueIsAccounted` | `EveryCueAccounted` | `llm_pipeline` |
| `WorkIsDurable` | `DurableWork` | `llm_pipeline` |
| `BatchesAreWhole` | `GraphWhole` | `media_files` |
| `OutputsAreSpared` | `ExportsSpareOthers` | `media_files` |
| `AudioIsOfItsSource` | `OneSource` | `media_files` |
| `CacheEntriesAreReadable` | `CorruptNeedsTwoFaults` | `media_files` |
| `OwnedWordsAreHeardWhole` | a chunk reads all of every word it owns | |
| `WordsAreOwnedOnce` | `WordsOwnedOnce` | `subtitle_flow` |
| `RulesCoverWords` | the cues of the rules partition any words | |
| `CuesCoverTheWords` | `CuesCoverWords` | `subtitle_flow` |
| `CutsAreAskedFor` | `SplitWhereAsked` | `subtitle_flow` |
| `UserWordsAreKept` | `UserWordsStay` | `subtitle_flow` |
| `DegradedStaysTold` | `DegradedIsTold` | `subtitle_flow` |
| `FilesReadBack` | `ExportReadsBack` | `subtitle_flow` |
| `TranscriptsAreValid` | `TypeOK`: every committed transcript passes `validate` | |

### The Job (`JobLifecycleProofs`)

The inductive invariant is `JobOK`: types, `StageOrderOK`, `SuccessOK`, `EndOK`,
`ReferenceOK`, and the conjunct no reader would think of, `LastStageOK`: a Job that is
not over never has its *last* stage failed or cancelled. It is what makes `finish()`
honest. `finish()` asks only that every stage be over; that they are all *satisfied*
follows because the last one is, and the order carries this down to the first
(`FinishIsSuccess`). As a by-product the branches of `finish()` that announce `Failed` or
`Cancelled` are unreachable. There is one lemma per method (`StartOK`, ..., `RetryOK`),
stated about values: `WorkUnitLeaseProofs` and `StageCommitProofs` instantiate the module for
the Jobs in their own rows.

### The Batch (`BatchControlProofs`)

`BaseInv` holds in every instance, whatever is cancelled and whatever fails: types, where the
processes may stand (`OwnerPlace`, `CtlPlace`), and `SaveDoneUnasked`: a Job that is about to be
saved as done was not asked to cancel, or the copy of it is outdated. So no order of steps makes a
success of a Job that was asked to cancel before its last save (`CancelIsFinal`).

The other properties are not true of every instance, because a save that is refused is not
repeated (section 6). `Orderly` says where they are: nobody cancels the Batch and no artifact turns
out to be gone; and where single Jobs are cancelled, it is from another process, none is retried,
and no stage or commit fails. Pauses, resumes, crashes and sessions that do not open are admitted
everywhere, retries and failures where no Job is cancelled. Under it `OrderlyInv` follows one Job
through its run:

- `RecordsTruthful`: what the row and the owner's copy of it record of a Job is how it ended,
  and an ended Batch has a record of each; so a Batch ends after its Jobs.
- `RunIsHeld`: a copy of a Job the owner can no longer save is that of a Job that was asked to
  cancel, and the run ends with that Job over.
- `FoundIsCurrent`: a row a controller holds is as the controller found it.
- `OwnerDecides`: between the start of a run and its end the Batch is not over, and it ends Done
  only with no member Failed.
- `OneIsRunning`, `RunIsNotPaused`: the only Job that is Running is the one the owner executes, but
  for what a dead owner left, and it is executed while the Batch is not paused.
- `PassedIsOver`: the members the loop has passed are over. Hence the order.
- `StagesClean`, `StagesInOrder`: where Jobs are cancelled, a run leaves no stage failed behind it,
  and so `finish()` is not refused.

`BatchPromiseIsKept` maps every step to one of `BatchPromise` or a stutter: a member gets its
outcome once, only a retry takes it back, and the result of the Batch comes after all of them.

### The work units (`WorkUnitLeaseProofs`)

The steps of the owner and of CancelJob often do not look at the state of a row they
write: what protects them is the version. The inductive invariant `LeaseInv` says what
that protection amounts to: *a row of which an actor holds a current copy is still in the
state the actor read it for*.

- `ListedIsPending`: a unit CancelJob has listed, if current, is Pending.
- `ListedIsLeased`: a unit the recovery has listed, if current, is Running.
- `RetryIsAllowed`: the Job a retry has loaded, if current, may be retried.
- `RunIsRunning`: the Job of a run, if current, is Running; with `StageHasNotBegun` this
  is why the Job may fail or finish, which the code does not ask again.
- `WorkIsLeased`: between lease and commit the unit is Running and the copy *is* current.
  Nobody else writes a Running unit: CancelJob's copy of it is outdated by the lease, and
  recovery needs the lock the owner holds. Hence `LeasedUnitIsKept`.
- `BehindIsDone`: the chunks before the current one, and those seen Done at the start, are
  Done. Hence `TranscriptNeedsEveryChunk`, although the statuses were read long before.
- `LateIsLast`: after a completion that came after the request to cancel, the next check
  ends the run. Hence `CancelIsPrompt`.

There is one lemma per action (`TakeLockKeeps`, ..., `LoseFileKeeps`). Three lemmas carry
most of them: `QuietStep` (the owner moves, no row changes), `Leaving`/`Failing` (the
owner gives up), and `Bystanders` (others move: all that matters is that they take no Running
unit and no Done one, and forget no request to cancel).

### Rows, references and files (`StageCommitProofs`)

Two kinds of actors write the Job from a copy of their own, while the recovery takes
references away and unmarks rows. The inductive invariant `CommitInv` says what a copy *that
is still current* knows: the owner's is Running and has the references of the row; an
editor's names the result it revises by the revision that follows the one in the Job; a row
that is inserted and not yet saved is committed as long as the copy is current. A copy that
is not current needs no promise: it is never written. From it follow

- `ReferencesHold`. The only step that unmarks rows takes from the Job every stage from the
  lowest broken one on (`BrokenAreDropped`). That this covers every reference to a broken row
  needs the second conjunct of the property, that a reference of stage *s* leads to a row of
  *s*, and that a set of stages has a least element (`LowestIsLeast`);
- `NoEditIsLost`. Only a commit and an edit add a reference (`OthersAddNone`), and a commit
  adds it to a stage that runs, which has none (`ReferenceOK`).

The theorems about files rest on two more invariants. `Kept` says what a commit and a sweep
that are under way leave alone: the sweep avoids the paths of committed stage results, a commit
writes its row when the file has that content, and what a rolled-back commit removes is its own
publication and in no committed row. It holds beside any number of edits, whose files have names
of their own (`StageResultsStay`); nobody may tamper with the files (`"Lose" \notin Faults`),
and an exported file may be rewritten by its stage. `CommittedFilesIntact` speaks of *all* rows,
those of edits and exports included, and of these it is false (section 6); so
`CommittedFilesStay` and `VerifiedJobsAreKept` are stated for `Undisturbed`, the instances of
`stage_commit` of any size. `Cleaned` says that what is not in the sweep list has a row and is
no `.partial`; `RecoveryCleansUp` excludes edits, as one may write its file between the listing
and the end of the recovery, and allows every fault.

### The worker (`AsrWorkerProofs`)

`OneInference` is about threads that run or speak, and the flag `busy` alone does not carry
it: a thread that has spoken its last line, or has panicked, still has `busy` set and will
clear it, at which time another thread must not be at work. The inductive invariant
`BusyIsHeld` counts those as at work too. Fairness plays no part, and neither does the client:
the worker keeps the promise to any client, also one that gives up and asks again.

`AnswerIsItsOwn` needs to know what may stand in the pipes. A line that is refused ends the
session and not the worker, so lines of earlier requests stay there. `Honest` says that a
Result in any of them, read or not, written or not, is one its request has come to, and that a
call reads with a session that tracks its own request and no other.

`SessionSurvives` is about order. `Orderly` follows one request through the worker: it is in the
pipe (`Waiting`), a thread speaks for it (`Hearing`), or its last line is said (`Answered`), and
before and after nothing is under way (`Rest`); cancels may stand anywhere beside it. Its core is
that at most one line is numbered and not yet written. The helper numbers a line before it has
stdout, and yet reader and thread are never in the gap together as long as no call was given up:
the reader has nothing to say while a thread speaks.

### The provider and the cues (`LlmPipelineProofs`)

`ProviderSpared` speaks of requests and of failures in a row, which the breaker counts only in
its own way. The inductive invariant `Spared` adds

- `LateIsLast`: after the request that left although cancellation was requested, the run does
  not stand at `Send` again and the token stays set, so the next look at it is the end. It
  needs one lemma per kind of step, since retries, halves and sleeps all lead back to `Check`;
- `FailuresAreCounted`: the breaker's count is at least the number of failures in a row, and
  after the last one allowed the circuit is open with its time running and no request under
  way. `RecordSuccess` may forget failures because it ends the row as well;
- `KeyIsGood`: no request is under way with a locked key.

`EveryCueAccounted` looks at a run that is over. `Accounted` says it of a run under way: every
cue before `Front`, where the run stands, is answered or marked; the ranges that are still to be
asked for begin at `Front` and follow each other without a gap to the end of the batch at hand
(`Chain`), which a halving, a retry and an answer all keep; the batches of the plan follow each
other to the last cue. A result on disk says the same of its batch, because the next run may go
on behind it. With what a run remembers of the answers of an earlier one, the same facts give
`DurableWork`.

### Batches, names, audio and cache (`MediaFilesProofs`)

`MediaInv` has one part for each of the four properties, besides the types.

- `DraftOK`, `RowsOK`: the open transaction has written the first rows of the graph, each once,
  and the number of the Batch is the next one; so what it commits is a whole Batch, with nothing
  of another. Rows are counted with the lemmas on finite sets.
- `NamesOK`: a file of the user is nobody's output, unless the policy is to overwrite, from the
  planning on; a file that was exported is that of its Job. The planner looks at the names long
  before the export; what it saw then stays true because only exports write outputs.
- `AudioOK`: where the Job at hand stands between Probe and the manifest, what it has probed is
  the source as it is, since the source changes between two Jobs only; from the manifest to
  the cache `audio.wav` is the one in the manifest, whether it was just written or found by
  `ReuseAudio`, since nobody else starts a recovery meanwhile.
- `HeardOK`: what lies in the cache under the content of an audio, what a Job is about to put
  there, and what a Job has, is a transcription of that audio. An entry that two Jobs, or two runs
  of one, share is thus right for both.
- `CacheOK`: half an entry costs a fault or is in the hands of the process at work, by the pc.

### Words, cues and texts (`SubtitleFlowProofs`)

Much of this part of the program is loops, which are recursive functions here. That such a
function exists and is what its definition says is not free for the provers: the lemmas
`Solution`, `FromBelow` and `FromShorter` say, once, that a recursion whose arguments get smaller
has a solution, and that a fact holds of all arguments if it holds of one whenever it holds of
the smaller. They rest on well-foundedness as a fact about sets, which needs no induction over a
predicate. With them each pass of the rules, the plan and the selection of elements
(`Those`) is characterised by a lemma of its own, and is not expanded again.

*The chunks.* `HeardInv` says what is heard between two chunks: exactly the words whose middle is
in the cores so far, in their order and at their places (`KeptUpto`, `Reached`). One chunk
adds those of its core (`ChunkKeepsItsWords`): a word at most twice as long as the padding lies
within what the chunk reads, since neither end is farther from the middle than the padding
(`CenterIsInTheMiddle`) and what the window lacks of it lies outside the audio
(`OwnedWordsAreHeardWhole`); of a word that the window cuts, whatever the engine makes of it,
the middle is in no core of this chunk (`CutIsNotKept`). The cores partition the audio by
`ValidPlan`, which the code checks before the first chunk. So after the last chunk all words
are heard once.

*The cues.* `Covers(ranges, start, end, max)` says that ranges follow each other without a gap.
The splits at gaps, at ends of sentences and at conjunctions keep it, and so do the merges, which
is why a cue may have twice the words of one: `RulesCoverWords`. The invariant `CueInv` carries
it along (`CutsOK`): an answer, whatever its breaks, adds ranges that the next check compares with
the words (`ReplyOK`); a correction, a translation or an edit leaves the ranges alone. It also says
that a transcript derived from a degraded one tells so (`ToldKept`): a cue within degraded words
is marked, and no operation takes a mark away.

*The breaks.* The code aligns a break by the length of the text before it, a reader by what can be
seen of it (`SplitWhereAsked`). When the reply has the spaces of the cue, both look at one text, and
the text of the first *k* words is how it begins (`JoinPrefix`). Every word makes it longer and
shows more (`OneWordMore`, `JoinGrows`), as each word has a text (`HasTexts`: `normalize` drops
those without) and each text a character that is no space (`CharsOfText`). So one *k*
at most has either number, and a space behind the word, which the code passes over, shows nothing:
where the code finds a place, it is the one the reader finds (`AskedWhereCut`). `AskedInv` adds
the replies up, cue by cue. Nothing of this holds of a reply that lacks spaces, where the two
texts differ: section 6 has the instance (`EverySplitWhereAsked`).

*What the user typed.* `FlowInv` says which transcripts are committed at each pc (`DocsOK`) and
that a typed field has what was typed and is marked as the user's, in the transcript it was typed
into and in each one made from it since, unless it was typed into again there (`EditsKept`,
`Retyped`): `apply_llm_text` passes over such fields, and a retry
takes away the edits of the stages it reopens and no others. `Follows(n, d)` is what every
operation keeps of a transcript, one lemma per operation.

*The files.* A reader refuses a file with a time that ends before it starts, passes over a block
without lines and ends one at an empty line. `ReadInv` says that times are in order (`Readable`):
a word ends where it starts or later, because
`normalize` has clamped and filtered whatever an engine said (`HeardHasTimes`), and the words are
in order, because the Asr stage asks; and imported times
are in order, because the reader refuses others (`ImportedReadable`). Every operation keeps this
(`ReadStep`). Nothing is assumed of the texts: the user may have cleared any. So the proof is
about the cues that are shown. The writer's blocks are theirs and only theirs
(`ShownIsWritten`, by `ThoseSaid`: selecting commutes with mapping), each has lines
(`CueHasLines`), and where none of these is empty `split_blocks` leaves the document as it is
(`NothingIsSplit`), the readers drop nothing (`CueBlocksAreRead`), and the
halves of a block of two lines are the two texts (`LinesAreRead`): `DocReadsBack`, layout by
layout. The same facts say that each cue lies behind the one before it
(`TranscriptsArePlaced`), and so that `validate`, with which every operation on a transcript
ends, never refuses what one has made (`TranscriptsAreValid`): the stages after the first have no
such error, which is why their actions have no branch for it.

### Model-checked only

- All liveness (`BatchConcludes`, `CancelAnswered`, `PauseObeyed`, `RunsEnd`,
  `JobGetsTranscribed`, `RunEnds`, `CallReturns`): fairness and `ENABLED` are out of the
  prover's reach.
- The refutations of section 6, which are about one instance each.

## 6. Findings and observations

### Finding

**`wav_quarantined`** (`store/src/sqlite/recovery.rs:83`). `audio.wav` has no artifact
row of its own, so the recovery before every run quarantines it; the ExtractAudio
result that names it cannot be reused, and a resumed or retried Job fails with
`ARTIFACT_CORRUPT`. `domain/src/workflow/job.rs:361`: "Completed prerequisite stages
remain reusable".

### Sentences of the repository the code does not keep

Each is a definition of its module that no run checks, with an instance in which TLC
refutes it.

- `CancelledAfterEveryJob` (`core/src/use_cases/cancel_job.rs:182`; `BatchControl`,
  `JobCount = 1`, `Commands = {"CancelBatch"}`, no faults). CancelBatch announces the Batch
  Cancelled, and the owner that saw this is between loading a Running Job and saving it as
  cancelled. CancelBatch puts its request into that Job; the owner's save is refused, the Job
  stays Running with a `Failed` record, and the Batch ends Cancelled. The comment at line
  108: "The Batch becomes Cancelled only after every member Job is terminal."
- `ResumeIsObserved` (`bootstrap/src/batch_control.rs:65`; `BatchControl` with `FairSpec`,
  `JobCount = 1`, `Commands = {"Pause", "Resume"}`). A resume that changes nothing still
  saves and so bumps the version. An owner between load and save gets `STALE_RESULT` and
  leaves; the resuming command has found the lock taken and has answered Ok. Nobody runs the
  Batch. The comment at line 59: "A live owner will observe the durable resume through its
  polling loop".
- `FailureNeverRemainsRunning` (`core/src/use_cases/transcribe_job/service.rs:397`;
  `BatchControl`, `StageCount = 1`, `JobCount = 1`, `Commands = {"CancelJob"}`,
  `Faults = {"Work"}`). The request to cancel lands between the owner's check and its save of
  the failure, which is refused and not repeated: "a Job failure never remains Running
  without a live lease" fails until the next recovery.
- `FailedChunkResumes` (`core/src/use_cases/transcribe_job/asr.rs:159`; `WorkUnitLease`,
  `Engines = {1, 2}`, `Controllers = {}`, `MaxMishaps = 1`, `Faults = {"Work"}`). After an
  upgrade a retry resets the failed unit of the old engine, which is then the first Pending
  one; it is leased in place of the new unit, the run fails and leaves it leased, and so
  does every later retry. `docs/implementation-decisions-all_DDD_FINAL.md:3041`: "one
  failed chunk resumes independently".
- `GraceEndsInKill` (`asr/src/application.rs`; `AsrWorker`, `MaxCalls = 1`, `MaxPipe = 1`,
  `Numbers = 4`, `Outcomes = {"Result"}`, `Faults = {"Cancel"}`). The grace time of a cancelled
  call ends and nothing follows; `kill_tree` and `cancel_with_escalation` are called by no
  program. `docs/adr/0003-stdio-ndjson-protocol.md:15`: "Cancellation escalates to process-tree
  kill after grace".
- `BatchHasUnit` (`core/src/use_cases/llm_pipeline/service.rs:882`; `LlmPipeline`,
  `Threshold = 2`, `CueCount = 2`, `Costs = {1}`, `Limit = 4`, `MaxItems = 2`, two attempts,
  `Kinds = {"Split", "Translate"}`, `Wirings = {TRUE}`, `Sweeps = {TRUE}`,
  `Errors = {"TooMany"}`, `MaxRuns = 1`). The unit of a batch is enqueued under a hash of no
  revisions and looked up under that of the cues' revisions; it is not found, and if it were,
  it would be Pending and `complete()` refuse it. As the units are wired in
  (`bootstrap/src/runtime.rs:163`), Split and Correct end with an error after their first
  batch. `llm_pipeline/runtime.rs:160`: "each LlmPlan entry becomes an llm_batch WorkUnit".
- `AssKeepsBreaks` (`platform/src/subtitle_io/export.rs:202`; `SubtitleFlow`, the instance of
  `subtitle_flow` with `Routes = {"Srt"}` and `MaxBlocks = 1`). `render_ass` puts `\N` between
  the two lines of a bilingual cue and then escapes the text, this backslash included: the
  event holds `\\N`, which is no break. `docs/implementation-decisions-all_DDD_FINAL.md:1347`:
  "ASS line breaks as `\N`".
- `ContentNeverFailsStage` (`LlmPipeline`, the instance of the run). The documents want a
  content error to end in halved batches and cues left as they are. A cue that fits in no
  request fails the stage at packing, and an accepted `<br>` inside a word fails Split when
  it is applied.
- `TypedTranslationBlocks` (`SubtitleFlow`, the instance of `subtitle_flow`). An edit of a
  translation is to block every later automatic one
  (`docs/implementation-decisions-all_DDD_FINAL.md:1135`); a retry of Translate starts from
  the Correct transcript, which does not have it.
- `EverySplitWhereAsked` (`SubtitleFlow`, the instance of `subtitle_flow` with `Routes =
  {"Llm"}`, `MaxWordsLatin = 2`, `LlmWords = 4`, `LlmTexts = {"Letter", "Han"}`, `LlmGaps =
  {0}`). A reply that leaves out a space between Latin and CJK words passes validation, and its
  breaks are then found elsewhere than where they stand. Section 16.2 of the decisions maps
  break offsets to word boundaries.
- `VttKeepsCues` (`platform/src/subtitle_io/import.rs:130`; `SubtitleFlow`, the instance of
  `subtitle_flow` with `Routes = {"Vtt"}` and `MaxBlocks = 3`). After a NOTE block the WebVTT
  parser reads no more cues.

### Observations

Each was seen in the models or in the code behind them.

*BatchControl*

- With CancelJob and a local controller, or with failing work, `EndedBatchHasEndedJobs`,
  `FifoOrder`, `PausedMeansQuiet` and `RecordsAgree` fail, all for the reason of
  `FailureNeverRemainsRunning`: a save that was refused is not repeated, and the Job stays
  Running. The token is set before the request is in the row (`cancel_job.rs:60`), so the
  owner's own cancellation can meet the save of the command.
- A run that ends in an error with no stage running (source changed, a result that
  cannot be reused) leaves the Job Cancelled and the Batch Done.
- When the session does not open, the Batch finishes Failed even if all Jobs are recorded
  as Done after a crash just before the end (`run_batch.rs:432-448`).
- Invalidation reopens Jobs of an ended Batch; a retry reopens an ended Batch although
  `docs/implementation-decisions-all_DDD_FINAL.md:2240` calls it terminal.
- `Batch::new` finds duplicate members only when they are adjacent (`batch.rs:87`).
- A retry from a stage after the failed one is accepted and then blocked at the earlier.

*StageCommit*

- `VerifiedJobsKept` fails with `Varying = {1, 2}`, `Exported = {2}`, `MaxRows = 3`,
  `Faults = {"Retry", "Work"}`: an export that is run again replaces its file; the row of
  the old one is then found broken and the Job loses a stage whose own file is there. It
  fails with editors and `"Lose"` too: recovery judges rows of edits no Job refers to.
- `CommittedFilesIntact` fails with `Editable = {1}`, `Editors = {e1}`, `MaxRevision = 1`,
  `MaxRows = 4`, `Faults = {"Retry", "Work"}`: an edit whose save was refused leaves a
  committed row, the repeated edit overwrites its file, and the next recovery invalidates
  the stage. Two editors of one revision do the same to each other (`Contents = {x, y}`,
  `Editors = {e1, e2}`, `MaxRevision = 2`).
- A stage that is retried and computes something else cannot publish, because the file of
  the previous result is in the way (`store/src/artifact.rs:239`): a degraded Job can be
  retried into the same result only.
- A corrupt file is not quarantined by the recovery that invalidates its row
  (`recovery.rs:46`), only by the next one; a run in between is refused at publication.
- The manifest of ExtractAudio contains the artifact id of Probe (`service.rs:581-594`),
  so that a retry from Probe is always refused at ExtractAudio.

*WorkUnitLease*

- With `Engines = {1}`, `Controllers = {c1}`, `Faults = {}` the owner can return and leave
  a unit leased: CancelJob cancels chunk 1 between the owner's check and its lease; the
  owner leases chunk 2, notices the mismatch and gives up. The unit is unavailable until
  its lease expires.
- A crash between the failure of a unit and the failure of its Job makes the resumed run
  fail with "recover or retry its work unit first".
- For up to 600 s after a crash a retry is refused because of the lease left behind.
- After an upgrade the file of a chunk written by the old engine blocks the new result.

*MediaFiles*

- The planner forgets its reservations with every Batch (`planner.rs:14`), so two Batches
  that are planned before the first exports share a name even under Rename, and a file the
  user creates between plan and export is overwritten: hence the last disjunct of
  `ExportsSpareOthers`.
- After a fault in the collector and one in a later write an entry answers
  `CACHE_CORRUPT` for good: a Job with that audio fails until the entry is collected again.
  Neither put nor gc repairs it, and the metadata are renamed without an fsync. A unit
  that is Done fails with it as well.
- `acquire` does not wait, it fails at once. `extract_audio_range_wav` does not check the
  duration of what it has cut.
- A source that changes between the hash of Probe and ffmpeg goes unnoticed. The model
  lets the user act between Jobs only.
- A Job that stops after ExtractAudio cannot go on by itself: the next command has its
  `audio.wav` quarantined, `ReuseAudio` fails it, and it needs a retry from ExtractAudio or
  earlier (`wav_quarantined`).
- `preflight` is called by no program.

*AsrWorker*

- A worker that goes on saying Segment or Progress lines holds its call, and with it the Batch, for
  as long as it does: each line begins the time-out anew (`client.rs:377-389`), and a call has no
  limit of its own. A cancellation does not end it either (`GraceEndsInKill`).
- A helper answers before it clears `busy`: the next chunk, sent at once, can be refused
  with `WORKER_BUSY`, and so fails for no fault of its own.
- A cancel task that was at work when its call ended sends its Cancel afterwards, and may
  by then find the *next* request in `current` and cancel that one.
- The helper keeps one cancel target and clears it when any thread ends: a Cancel for
  request N+1 that arrives before N has ended is lost. Python drops a Cancel for a request
  that has not begun.
- A cancel task that finds no request in `current` does not look again, so a request to
  cancel just before the call begins is not passed on.
- Late lines of a request that timed out terminate the session, and with it every later Job
  of the Batch; a line that had arrived in part is lost with the read.
- The helper takes the number of a line before it locks stdout, so that reader and thread
  can print in the wrong order. The model has this order; without a time-out the reader
  has nothing to answer while a thread speaks, and so `SessionSurvives` holds. A ping would
  change that; none is ever sent.

*LlmPipeline*

- A resumed batch forgets which cues were degraded, so that the stage ends Done and not
  DoneDegraded; `EveryCueAccounted` therefore admits cues that failed in an earlier run.
- A batch all of whose cues were degraded is persisted empty and refused with
  `ARTIFACT_CORRUPT` by the run that resumes it.
- Recovery quarantines plan, prompts and results, none of which has an artifact row: after
  it nothing is resumed. A plan that is there is used whatever transcript it was made for.
- `ensure_plan` replaces a plan whose prompt hash or model is another
  (`llm_pipeline/service.rs:664-665`). In the model both are fixed: a Job takes them
  from its snapshot, which never changes.
- With the units wired in, as the program ships, Split and Correct never end Done
  (`BatchHasUnit`); how a stage that succeeds halves, resumes and accounts for its cues is seen
  in Translate, and in Split without the units.
- Translate keeps nothing, and a cue that fits alone may not fit with its context.
- A sleep of up to 30 s is not interrupted by a request to cancel; a Retry-After that is
  longer makes every attempt of that time fail at the breaker.
- The semaphore of section 17.4 of the decisions does not exist.

*Subtitles*

- Words longer than twice the padding can be heard in two chunks or in none
  (section 5 has the limit). Nested words across a cut come out of order, which
  normalization does not undo.
- A cut may exceed the longest chunk by the search radius, a forced one may leave a last
  chunk shorter than the shortest, and an audio shorter than that is refused.
- The revision number is part of the value, so after a retry the same number can stand for
  another transcript and an edit made from the old one is accepted. Edits of a stage that is
  reopened are discarded.
- An imported Job stays Running with no owner until something runs it.
- A bilingual cue of one line is imported with the origin of a translation it does not
  have; a cue of three lines is split in the middle, against the documents.
- The editor takes any text. A cue whose text was cleared is passed over by an export of the
  source; in a bilingual one its translation alone follows or precedes an empty line, which ends
  the block before it or leaves the translation to be read as the text. Texts of several lines
  come back joined or divided elsewhere. An empty line inside a text cuts the cue there; if a
  line behind it begins with NOTE, a WebVTT file is read no further.

## 7. What is not modelled

`PROJECT.json` lists every component with its status. Left out, and why:

- *External programs*: ffmpeg, ffprobe, the Silero detector, the ASR engines and the
  providers stand for the set of results they may return.
- *Adapters and presentation*: model installation, runtime resolution, schema migration,
  configuration, doctor, CLI and desktop shell have no state the properties are about.
  The texts of prompts, the token estimate, the capability probe and the repair of JSON are
  part of what a response may be.
- *The header, styles and times of an ASS file* have no reader in the program; only the text of
  its events is modelled.
- *The store's thread and SQLite* are taken as given: one command at a time, a
  transaction happens or does not.
- *The instance lock* is taken as given: one owner, freed when its process dies.
- *The outbox*: rows are written inside the modelled transactions, nobody delivers them.
- *The cancellation watcher* (`cancellation_watcher.rs`) polls every 500 ms what the owner
  reads at each boundary anyway.
- *Code no program calls*: `fail_with_auto_retry`, `requeue_after_oom_strategy_change`,
  `RetryFailedWorkUnits`, `preflight`, `ping`, `kill_tree`, `cancel_with_escalation`, the
  reset of the breaker. The attempt counter of a unit decides nothing in any statement
  that runs.

## 8. Plan

Done, most important behaviour first: the Job and its promise; the Batch, its owner and its
commands; the stage commit and recovery; the work units; the LLM stage with the breaker; the
ASR worker; creation, cache and media; the words on their way to the exported file; and the
proofs of section 5, which state every safety property of the runs but those listed there
under "Model-checked only".

Not modelled yet: the capability probe of a provider, whose answer decides the shape of later
requests.
