--------------------------- MODULE MediaFilesProofs ----------------------------
(***************************************************************************)
(* Proofs about MediaFiles: a new Batch, its output names, the audio and   *)
(* the cache of its Jobs, for any media, policies and bounds.              *)
(*                                                                         *)
(* None of the four properties is inductive.  GraphWhole does not say what *)
(* the open transaction has written, nor that the numbers of the Batches   *)
(* are taken in turn; ExportsSpareOthers depends on what was planned long  *)
(* before the export; OneSource on what the Job at hand has probed and on  *)
(* what every entry of the cache is of; and CorruptNeedsTwoFaults on the   *)
(* half of an entry that is there between two steps.  MediaInv says these  *)
(* things; each of its parts has a lemma.                                  *)
(***************************************************************************)
EXTENDS MediaFiles, FiniteSetTheorems, SequenceTheorems, TLAPS

\* What is being written, and by whom.
BatchRows == {r \in rows : r.kind = "Batch"}
Drafting == proc.pc \in {"Plan", "Insert"}
Outs == {draft.members[i].out : i \in DOMAIN draft.members}

JobType == [media : Media, out : Names, stat : Contents, batch : Nat, done : 0 .. 4,
            ended : BOOLEAN, retries : Nat, probed : Contents \union {NoFile},
            extracted : Contents \union {NoFile}, asr : Nat]

PcOfJob == {"Start", "Reuse", "Extract", "Check", "Manifest", "Chunk", "PutData", "PutMeta", "Export"}

JobsTyped ==
    /\ \E n \in 0 .. MaxJobs : Created = 1 .. n
    /\ jobs \in [Created -> JobType]

FilesTyped ==
    /\ policy \in Policies
    /\ source \in [Media -> [content : Contents, stat : Contents]]
    /\ wav \in [JobIds -> Contents \union {NoFile}]
    /\ cache \in [Contents -> [data : Nat, meta : Nat]]
    /\ heard \in Seq(Contents) /\ faults \in Nat

ProcTyped ==
    /\ proc \in [pc : {"Idle", "Plan", "Insert", "Next", "Gc"} \union PcOfJob, job : Nat,
                 bytes : Nat \union {Broken}, key : Nat, todo : SUBSET Created]
    /\ proc.pc \in PcOfJob => proc.job \in Created
    /\ proc.pc \in {"PutData", "PutMeta"} => proc.bytes \in Nat \ {NoFile}
    /\ proc.pc \in {"PutData", "PutMeta", "Gc"} => proc.key \in Contents

Typed == JobsTyped /\ FilesTyped /\ ProcTyped /\ outputs \in [Names -> {NoFile, User} \union Created]

Member == [media : Media, out : Names, stat : Contents]

\* The Batch that is being created: what is reserved is what its members were
\* given, its number is the next one, and its transaction has written the
\* first rows of the graph, each once.
DraftOK ==
    /\ draft.members \in Seq(Member)
    /\ Cardinality(Created) + Len(draft.members) <= MaxJobs
    /\ ~Drafting => draft = NoDraft
    /\ proc.pc = "Insert" => draft.members # <<>>
    /\ DOMAIN draft = {"members", "reserved", "tx", "batch"}
    /\ draft.reserved = Outs
    /\ Drafting => draft.batch = Cardinality(BatchRows) + 1
    /\ proc.pc = "Plan" => draft.tx = {}
    /\ IsFiniteSet(draft.tx)
    /\ Cardinality(draft.tx) <= Len(Graph)
    /\ draft.tx = {Graph[i] : i \in 1 .. Cardinality(draft.tx)}

\* The Batches that are there have the numbers up to their count.
RowsOK ==
    /\ IsFiniteSet(rows)
    /\ \A r \in rows : r.batch \in 1 .. Cardinality(BatchRows)
    /\ \A k \in Created : jobs[k].batch \in 1 .. Cardinality(BatchRows)

\* A file of the user is nobody's output, unless the policy is to overwrite; a
\* file that was exported is that of its Job; no name is given twice in a Batch.
NamesOK ==
    /\ \A n \in Names : outputs[n] = User /\ policy # "Overwrite" =>
          n \notin Outs /\ \A k \in Created : jobs[k].out # n
    /\ \A n \in Names : outputs[n] \in Created => jobs[outputs[n]].out = n
    /\ \A i, j \in DOMAIN draft.members : draft.members[i].out = draft.members[j].out => i = j
    /\ \A j, k \in Created :
          jobs[j].batch = jobs[k].batch /\ jobs[j].out = jobs[k].out => j = k

\* Where the Job at hand stands, what it has probed is the source as it is now,
\* what ffmpeg wrote is that, or cut off, and the audio that is transcribed is
\* the one that was extracted.
AudioOK ==
    /\ \A k \in Created : /\ jobs[k].done >= 1 => jobs[k].probed \in Contents
                          /\ jobs[k].done >= 2 => jobs[k].extracted = jobs[k].probed
    /\ proc.pc \in {"Extract", "Check", "Manifest"} =>
          Here.done = 1 /\ Here.probed = Input.content
    /\ proc.pc = "Check" => proc.bytes \in {Here.probed, Broken}
    /\ proc.pc = "Manifest" => Audio = Here.probed
    /\ proc.pc = "Reuse" => Here.done >= 2
    /\ proc.pc \in {"Chunk", "PutData", "PutMeta"} => Here.done = 2
    /\ proc.pc = "Chunk" => Audio = Here.extracted
    /\ proc.pc \in {"PutData", "PutMeta"} => proc.key = Here.extracted
    /\ proc.pc = "Export" => Here.done >= 3

\* A transcript is of the audio it is kept under, and a Job has one of the
\* audio it has extracted.
TranscriptOf(bytes, c) == bytes \in DOMAIN heard /\ heard[bytes] = c
HeardOK ==
    /\ \A c \in Contents : cache[c].data # NoFile => TranscriptOf(cache[c].data, c)
    /\ proc.pc \in {"PutData", "PutMeta"} => TranscriptOf(proc.bytes, proc.key)
    /\ \A k \in Created : jobs[k].done >= 3 => TranscriptOf(jobs[k].asr, jobs[k].extracted)

\* Half an entry: metadata whose data the collector took, if it failed or is
\* still at it; data whose metadata are others, while they are being written.
CacheOK ==
    /\ \A c \in Contents :
          /\ Corrupt(c) => \/ faults >= 2
                           \/ (faults = 1 /\ proc.pc = "PutMeta" /\ proc.key = c)
          /\ cache[c].data = NoFile /\ cache[c].meta # NoFile =>
                faults >= 1 \/ (proc.pc = "Gc" /\ proc.key = c)
    /\ proc.pc = "PutData" => (Present(proc.key) => cache[proc.key].data = proc.bytes
                                                 /\ cache[proc.key].meta = proc.bytes)
    /\ proc.pc = "PutMeta" => cache[proc.key].data = proc.bytes

MediaInv == /\ Typed /\ DraftOK /\ RowsOK /\ GraphWhole /\ NamesOK
            /\ AudioOK /\ HeardOK /\ CacheOK

-----------------------------------------------------------------------------
LEMMA MediaCount == Cardinality(Media) \in Nat
BY FS_CardinalityType, MediaAssumption DEF MediaAssumption

LEMMA InitTyped == Init => Typed
<1> SUFFICES ASSUME Init PROVE Typed
  OBVIOUS
<1>1. source \in [Media -> [content : Contents, stat : Contents]]
  BY MediaCount, MediaAssumption DEF Init, Injection, Contents, MediaAssumption, IsInjective
<1>2. Created = 1 .. 0 /\ jobs \in [Created -> JobType]
  BY DEF Init, Created
<1>3. outputs \in [Names -> {NoFile, User} \union Created]
  BY DEF Init
<1>4. cache \in [Contents -> [data : Nat, meta : Nat]]
  BY DEF Init, NoFile
<1>5. 0 \in 0 .. MaxJobs
  BY MediaAssumption DEF MediaAssumption
<1> QED
  BY <1>1, <1>2, <1>3, <1>4, <1>5
  DEF Init, Typed, JobsTyped, FilesTyped, ProcTyped, Idle, NoFile, JobIds, PcOfJob

SameFile(job, was) == job.out = was.out /\ job.batch = was.batch

\* What a step writes into a Job, field by field.
LEMMA WriteField ==
    ASSUME NEW job \in JobType
    PROVE  /\ \A e \in BOOLEAN : [job EXCEPT !.ended = e] \in JobType
           /\ \A s \in 0 .. 4 : [job EXCEPT !.done = s] \in JobType
           /\ \A c \in Contents \union {NoFile} : [job EXCEPT !.probed = c] \in JobType
           /\ \A c \in Contents \union {NoFile} : [job EXCEPT !.extracted = c] \in JobType
           /\ \A n \in Nat : [job EXCEPT !.retries = n] \in JobType
           /\ \A n \in Nat : [job EXCEPT !.asr = n] \in JobType
<1>1. \A e \in BOOLEAN : [job EXCEPT !.ended = e] \in JobType
  BY DEF JobType
<1>2. \A s \in 0 .. 4 : [job EXCEPT !.done = s] \in JobType
  BY DEF JobType
<1>3. \A c \in Contents \union {NoFile} : [job EXCEPT !.probed = c] \in JobType
  BY DEF JobType
<1>4. \A c \in Contents \union {NoFile} : [job EXCEPT !.extracted = c] \in JobType
  BY DEF JobType
<1>5. \A n \in Nat : [job EXCEPT !.retries = n] \in JobType
  BY DEF JobType
<1>6. \A n \in Nat : [job EXCEPT !.asr = n] \in JobType
  BY DEF JobType
<1> QED
  BY <1>1, <1>2, <1>3, <1>4, <1>5, <1>6

\* A stage of a Job is done: ExtractAudio, Asr, and the last of all.
LEMMA StageType ==
    ASSUME NEW job \in JobType
    PROVE  /\ \A c \in Contents \union {NoFile} :
                 LET next == [job EXCEPT !.done = 2, !.extracted = c]
                 IN  next \in JobType /\ SameFile(next, job)
           /\ \A n \in Nat :
                 LET next == [job EXCEPT !.done = 3, !.asr = n]
                 IN  next \in JobType /\ SameFile(next, job)
           /\ LET next == [job EXCEPT !.done = 4, !.ended = TRUE]
              IN  next \in JobType /\ SameFile(next, job)
<1>1. \A s \in 0 .. 4 : [job EXCEPT !.done = s] \in JobType
  BY WriteField
<1>2. \A c \in Contents \union {NoFile} : SameFile([job EXCEPT !.done = 2, !.extracted = c], job)
  BY DEF SameFile, JobType
<1>3. \A n \in Nat : SameFile([job EXCEPT !.done = 3, !.asr = n], job)
  BY DEF SameFile, JobType
<1>4. SameFile([job EXCEPT !.done = 4, !.ended = TRUE], job)
  BY DEF SameFile, JobType
<1>5. 2 \in 0 .. 4 /\ 3 \in 0 .. 4 /\ 4 \in 0 .. 4
  OBVIOUS
<1> QED
  BY <1>1, <1>2, <1>3, <1>4, <1>5, WriteField

LEMMA ProbedType ==
    ASSUME NEW job \in JobType, NEW hash \in Contents
    PROVE  Probed(job, hash) \in JobType /\ SameFile(Probed(job, hash), job)
<1>1. [job EXCEPT !.probed = hash] \in JobType
  BY WriteField
<1>2. 1 \in 0 .. 4
  OBVIOUS
<1>3. SameFile(Probed(job, hash), job)
  BY DEF SameFile, Probed, JobType
<1> QED
  BY <1>1, <1>2, <1>3, WriteField DEF Probed

LEMMA TakenBackType ==
    ASSUME NEW job \in JobType, NEW s \in 0 .. 4
    PROVE  TakenBack(job, s) \in JobType /\ SameFile(TakenBack(job, s), job)
<1>1. [job EXCEPT !.ended = FALSE] \in JobType
  BY WriteField
<1>2. [job EXCEPT !.ended = FALSE, !.done = s] \in JobType
  BY <1>1, WriteField
<1>3. job.retries + 1 \in Nat
  BY DEF JobType
<1>4. [job EXCEPT !.ended = FALSE, !.done = s, !.retries = @ + 1] \in JobType
  BY <1>2, <1>3, WriteField
<1> DEFINE hash == IF s = 0 THEN NoFile ELSE job.probed
           audio == IF s < 2 THEN NoFile ELSE job.extracted
           text == IF s < 3 THEN 0 ELSE job.asr
<1>5. hash \in Contents \union {NoFile} /\ audio \in Contents \union {NoFile} /\ text \in Nat
  BY DEF JobType
<1>6. SameFile(TakenBack(job, s), job)
  BY DEF SameFile, TakenBack, JobType
<1> DEFINE next == [job EXCEPT !.ended = FALSE, !.done = s, !.retries = @ + 1]
<1>7. TakenBack(job, s) = [[[next EXCEPT !.probed = hash] EXCEPT !.extracted = audio] EXCEPT !.asr = text]
  BY DEF TakenBack, JobType
<1>8. next \in JobType
  BY <1>4
<1> HIDE DEF next, hash, audio, text
<1>9. [next EXCEPT !.probed = hash] \in JobType
  BY <1>5, <1>8, WriteField
<1>10. [[next EXCEPT !.probed = hash] EXCEPT !.extracted = audio] \in JobType
  BY <1>5, <1>9, WriteField
<1>11. [[[next EXCEPT !.probed = hash] EXCEPT !.extracted = audio] EXCEPT !.asr = text] \in JobType
  BY <1>5, <1>10, WriteField
<1> QED
  BY <1>6, <1>7, <1>11

\* Every step but the commit of a Batch leaves the Jobs alone or writes one.
WritesOne ==
    \E k \in Created, job \in JobType :
       SameFile(job, jobs[k]) /\ jobs' = [jobs EXCEPT ![k] = job]

LEMMA OneJob ==
    ASSUME JobsTyped, WritesOne
    PROVE  Created' = Created /\ JobsTyped'
BY DEF JobsTyped, WritesOne, Created

\* No step moves a Job to another Batch or gives it another output.
LEMMA FileStays ==
    ASSUME JobsTyped, UNCHANGED jobs \/ WritesOne
    PROVE  Created' = Created /\ \A k \in Created : SameFile(jobs'[k], jobs[k])
BY DEF JobsTyped, WritesOne, Created, SameFile

LEMMA Ends ==
    ASSUME JobsTyped, JobFails, proc.job \in Created
    PROVE  WritesOne
<1> DEFINE job == [jobs[proc.job] EXCEPT !.ended = TRUE]
<1>1. jobs[proc.job] \in JobType
  BY DEF JobsTyped
<1>2. job \in JobType /\ SameFile(job, jobs[proc.job])
  BY <1>1, WriteField DEF SameFile, JobType
<1>3. jobs' = [jobs EXCEPT ![proc.job] = job]
  BY DEF JobFails
<1> QED
  BY <1>2, <1>3 DEF WritesOne

\* A Job is written as a stage of it is done.
LEMMA Moves ==
    ASSUME JobsTyped, proc.job \in Created,
           NEW job \in JobType, SameFile(job, Here), jobs' = [jobs EXCEPT ![proc.job] = job]
    PROVE  WritesOne
BY DEF WritesOne, Here

LEMMA WavOfJob == JobsTyped => Created \subseteq JobIds
BY MediaAssumption DEF JobsTyped, JobIds, MediaAssumption

LEMMA RunningWrites ==
    ASSUME Typed, Running
    PROVE  UNCHANGED jobs \/ WritesOne
<1> USE DEF Typed, ProcTyped, PcOfJob
<1>1. CASE Probe
  <2>1. JobFails => WritesOne
    BY <1>1, Ends DEF Probe
  <2>2. Input.content \in Contents
    BY <1>1 DEF Probe, JobsTyped, FilesTyped, JobType, Input, Here
  <2>3. Probed(Here, Input.content) \in JobType /\ SameFile(Probed(Here, Input.content), Here)
    BY <1>1, <2>2, ProbedType DEF Probe, JobsTyped, Here
  <2> QED
    BY <1>1, <2>1, <2>3 DEF Probe, WritesOne, Here
<1>2. CASE Ffmpeg \/ PutData
  BY <1>2 DEF Ffmpeg, PutData
<1>3. CASE CommitWav \/ ReuseAudio
  BY <1>3, Ends DEF CommitWav, ReuseAudio
<1>4. CASE CommitManifest
  <2>1. proc.job \in Created /\ Here \in JobType
    BY <1>4 DEF CommitManifest, JobsTyped, Here
  <2>2. Audio \in Contents \union {NoFile}
    BY <2>1, WavOfJob DEF FilesTyped, Audio
  <2>3. jobs' = [jobs EXCEPT ![proc.job] = [Here EXCEPT !.done = 2, !.extracted = Audio]]
    BY <1>4 DEF CommitManifest, Here
  <2> QED
    BY <2>1, <2>2, <2>3, StageType, Moves
<1>5. CASE ReadCache
  BY <1>5, Ends DEF ReadCache
<1>6. CASE PutMeta
  <2>1. proc.job \in Created /\ Here \in JobType /\ proc.bytes \in Nat
    BY <1>6 DEF PutMeta, JobsTyped, Here
  <2>2. jobs' = [jobs EXCEPT ![proc.job] = [Here EXCEPT !.done = 3, !.asr = proc.bytes]]
    BY <1>6 DEF PutMeta, Here
  <2> QED
    BY <2>1, <2>2, StageType, Moves
<1>7. CASE Export
  <2>1. proc.job \in Created /\ Here \in JobType
    BY <1>7 DEF Export, JobsTyped, Here
  <2>2. jobs' = [jobs EXCEPT ![proc.job] = [Here EXCEPT !.done = 4, !.ended = TRUE]]
    BY <1>7 DEF Export, Here
  <2> QED
    BY <2>1, <2>2, StageType, Moves
<1>8. CASE StepFails
  BY <1>8, Ends DEF StepFails
<1> QED
  BY <1>1, <1>2, <1>3, <1>4, <1>5, <1>6, <1>7, <1>8 DEF Running

LEMMA OthersWrite ==
    ASSUME Typed, Next, ~Running, ~CommitGraph
    PROVE  UNCHANGED jobs \/ WritesOne
<1>1. CASE Creating
  BY <1>1 DEF Creating, BeginBatch, PlanFile, PlanRefused, InsertRow, RollBack
<1>2. CASE TakeJob \/ LeaveBatch \/ GcMeta \/ Crash
  BY <1>2 DEF TakeJob, LeaveBatch, GcMeta, Crash
<1>3. ASSUME NEW b \in Batches, ResumeBatch(b)
      PROVE  UNCHANGED jobs
  BY <1>3 DEF ResumeBatch
<1>4. ASSUME NEW k \in Created, NEW s \in 0 .. 3, Retry(k, s)
      PROVE  WritesOne
  <2>1. TakenBack(jobs[k], s) \in JobType /\ SameFile(TakenBack(jobs[k], s), jobs[k])
    BY <1>4, TakenBackType DEF Typed, JobsTyped
  <2> QED
    BY <1>4, <2>1 DEF Retry, WritesOne
<1>5. ASSUME NEW c \in Contents, GcData(c)
      PROVE  UNCHANGED jobs
  BY <1>5 DEF GcData
<1>6. ASSUME NEW m \in Media, ChangeSource(m)
      PROVE  UNCHANGED jobs
  BY <1>6 DEF ChangeSource
<1> QED
  BY <1>1, <1>2, <1>3, <1>4, <1>5, <1>6 DEF Next

\* The Jobs of a new Batch have the numbers after those that are there.
LEMMA NewNumbers ==
    ASSUME JobsTyped, DraftOK
    PROVE  /\ Cardinality(Created) \in Nat
           /\ Created = 1 .. Cardinality(Created)
           /\ MembersOf = Cardinality(Created) + 1 .. Cardinality(Created) + Len(draft.members)
           /\ Created \union MembersOf = 1 .. Cardinality(Created) + Len(draft.members)
           /\ Created \intersect MembersOf = {}
<1>1. PICK n \in 0 .. MaxJobs : Created = 1 .. n
  BY DEF JobsTyped
<1>2. n \in Nat /\ Cardinality(1 .. n) = n
  BY FS_Interval, MediaAssumption DEF MediaAssumption
<1>3. Len(draft.members) \in Nat /\ DOMAIN draft.members = 1 .. Len(draft.members)
  BY DEF DraftOK
<1>4. MembersOf = n + 1 .. n + Len(draft.members)
  <2>1. \A x \in n + 1 .. n + Len(draft.members) : x - n \in 1 .. Len(draft.members) /\ x = n + (x - n)
    BY <1>2, <1>3
  <2>2. \A i \in DOMAIN draft.members : JobOf(i) = n + i
    BY <1>1, <1>2 DEF JobOf
  <2>3. ASSUME NEW x \in MembersOf
        PROVE  x \in n + 1 .. n + Len(draft.members)
    BY <1>2, <1>3, <2>2 DEF MembersOf
  <2>4. ASSUME NEW x \in n + 1 .. n + Len(draft.members)
        PROVE  x \in MembersOf
    <3>1. x - n \in DOMAIN draft.members /\ JobOf(x - n) = x
      BY <1>2, <1>3, <2>1, <2>2
    <3> QED
      BY <3>1 DEF MembersOf
  <2> QED
    BY <2>3, <2>4
<1> QED
  BY <1>1, <1>2, <1>3, <1>4

LEMMA CommitWrites ==
    ASSUME JobsTyped, DraftOK, RowsOK, CommitGraph
    PROVE  /\ JobsTyped'
           /\ Created' = Created \union MembersOf
           /\ \A k \in Created : jobs'[k] = jobs[k]
           /\ \A i \in DOMAIN draft.members : jobs'[JobOf(i)] = NewJob(draft.members[i])
<1>1. Created' = Created \union MembersOf
  BY DEF CommitGraph, Created
<1>2. \A k \in Created : jobs'[k] = jobs[k]
  BY DEF CommitGraph
<1>3. \A k \in MembersOf : jobs'[k] = NewJob(draft.members[k - Cardinality(Created)])
  BY NewNumbers DEF CommitGraph
<1>4. \A i \in DOMAIN draft.members : JobOf(i) \in MembersOf /\ JobOf(i) - Cardinality(Created) = i
  BY NewNumbers DEF JobOf, MembersOf, DraftOK
<1>5. draft.batch \in Nat
  BY FS_CardinalityType, FS_Subset DEF DraftOK, RowsOK, CommitGraph, Drafting, BatchRows
<1>6. \A i \in DOMAIN draft.members : NewJob(draft.members[i]) \in JobType
  <2> SUFFICES ASSUME NEW i \in DOMAIN draft.members
               PROVE  NewJob(draft.members[i]) \in JobType
    OBVIOUS
  <2>0. draft.members \in Seq(Member)
    BY DEF DraftOK
  <2>1. draft.members[i] \in Member
    BY <2>0, ElementOfSeq, LenProperties
  <2> DEFINE m == draft.members[i]
  <2>2. m.media \in Media /\ m.out \in Names /\ m.stat \in Contents
    BY <2>1 DEF Member
  <2>3. 0 \in 0 .. 4 /\ 0 \in Nat /\ NoFile \in Contents \union {NoFile}
    OBVIOUS
  <2> HIDE DEF m
  <2>4. NewJob(m) \in JobType
    BY <1>5, <2>2, <2>3 DEF NewJob, JobType
  <2> QED
    BY <2>4 DEF m
<1>7. \A k \in MembersOf : k - Cardinality(Created) \in DOMAIN draft.members
  BY NewNumbers DEF DraftOK
<1>8. \A k \in Created' : jobs'[k] \in JobType
  BY <1>1, <1>2, <1>3, <1>6, <1>7 DEF JobsTyped
<1>9. jobs' \in [Created' -> JobType]
  BY <1>8 DEF CommitGraph, Created
<1>10. Cardinality(Created) + Len(draft.members) \in 0 .. MaxJobs
  BY NewNumbers, MediaAssumption DEF DraftOK, MediaAssumption
<1> QED
  BY <1>1, <1>2, <1>3, <1>4, <1>9, <1>10, NewNumbers DEF JobsTyped

\* The Job at hand, its source, and its audio once it is extracted.
LEMMA JobAtHand ==
    ASSUME Typed, proc.pc \in PcOfJob
    PROVE  proc.job \in Created /\ Here \in JobType /\ Input.content \in Contents
<1>1. proc.job \in Created
  BY DEF Typed, ProcTyped
<1>2. Here \in JobType
  BY <1>1 DEF Typed, JobsTyped, Here
<1>3. Here.media \in Media
  BY <1>2 DEF JobType
<1>4. Input \in [content : Contents, stat : Contents]
  BY <1>3 DEF Typed, FilesTyped, Input
<1> QED
  BY <1>1, <1>2, <1>4

LEMMA AudioAtHand ==
    ASSUME Typed, AudioOK, proc.pc = "Chunk"
    PROVE  Audio \in Contents /\ Key = Audio
<1>1. proc.job \in Created /\ Here \in JobType
  BY JobAtHand DEF PcOfJob
<1>2. Here.done >= 2 /\ Here.done >= 1 /\ Audio = Here.extracted
  BY <1>1 DEF AudioOK, JobType
<1> QED
  BY <1>1, <1>2 DEF AudioOK, Here, Key

LEMMA RunningFiles ==
    ASSUME Typed, AudioOK, Running
    PROVE  FilesTyped'
<1> USE DEF Typed, FilesTyped, ProcTyped, PcOfJob, creation, files
<1>1. CASE Probe \/ ReuseAudio \/ CommitManifest
  BY <1>1 DEF Probe, ReuseAudio, CommitManifest
<1>2. CASE Ffmpeg \/ StepFails
  BY <1>2 DEF Ffmpeg, StepFails, MayFail
<1>3. CASE CommitWav
  BY <1>3 DEF CommitWav, AudioOK, JobsTyped, JobType, Here, WavOk
<1>4. CASE ReadCache
  <2>1. Audio \in Contents
    BY <1>4, AudioAtHand DEF ReadCache
  <2>2. heard \in Seq(Contents) /\ Append(heard, Audio) \in Seq(Contents)
    BY <2>1
  <2>3. heard' \in {heard, Append(heard, Audio)}
    BY <1>4 DEF ReadCache
  <2> QED
    BY <1>4, <2>2, <2>3 DEF ReadCache
<1>5. CASE PutData
  BY <1>5 DEF PutData
<1>6. CASE PutMeta
  BY <1>6 DEF PutMeta
<1>7. CASE Export
  BY <1>7 DEF Export
<1> QED
  BY <1>1, <1>2, <1>3, <1>4, <1>5, <1>6, <1>7 DEF Running

\* The next Job of the command is taken.
LEMMA TakesJob ==
    ASSUME TakeJob
    PROVE  /\ proc.pc = "Next" /\ proc'.pc = "Start"
           /\ UNCHANGED <<policy, outputs, source, wav, cache, draft, rows, jobs, heard, faults>>
BY DEF TakeJob, Idle, files, creation

LEMMA OtherFiles ==
    ASSUME Typed, Next, ~Running
    PROVE  FilesTyped'
<1> USE DEF Typed, FilesTyped, ProcTyped, PcOfJob, creation, files, MayFail
<1>1. CASE Creating
  <2>1. CASE BeginBatch \/ PlanFile
    BY <2>1 DEF BeginBatch, PlanFile, Recovered
  <2>2. CASE PlanRefused \/ RollBack
    BY <2>2 DEF PlanRefused, RollBack
  <2>3. CASE InsertRow \/ CommitGraph
    BY <2>3 DEF InsertRow, CommitGraph
  <2> QED
    BY <1>1, <2>1, <2>2, <2>3 DEF Creating
<1>2. CASE GcMeta
  <2>1. [cache[proc.key] EXCEPT !.meta = NoFile] \in [data : Nat, meta : Nat]
    BY <1>2 DEF GcMeta, NoFile
  <2>2. CASE cache' = [cache EXCEPT ![proc.key] = CollectedMeta(proc.key)] /\ UNCHANGED faults
    BY <1>2, <2>1, <2>2 DEF GcMeta, CollectedMeta
  <2>3. CASE MayFail /\ UNCHANGED cache
    BY <1>2, <2>3 DEF GcMeta
  <2> QED
    BY <1>2, <2>2, <2>3 DEF GcMeta
<1>3. CASE TakeJob
  BY <1>3, TakesJob
<1>4. CASE LeaveBatch \/ Crash
  BY <1>4 DEF LeaveBatch, Crash
<1>5. ASSUME NEW b \in Batches, ResumeBatch(b)
      PROVE  FilesTyped'
  BY <1>5 DEF ResumeBatch, Recovered
<1>6. ASSUME NEW k \in Created, NEW s \in 0 .. 3, Retry(k, s)
      PROVE  FilesTyped'
  BY <1>6 DEF Retry, Recovered
<1>7. ASSUME NEW c \in Contents, GcData(c)
      PROVE  FilesTyped'
  BY <1>7 DEF GcData, NoFile, Recovered
<1>8. ASSUME NEW m \in Media, ChangeSource(m)
      PROVE  FilesTyped'
  BY <1>8 DEF ChangeSource
<1> QED
  BY <1>1, <1>2, <1>3, <1>4, <1>5, <1>6, <1>7, <1>8 DEF Next

LEMMA ReturnTyped ==
    ASSUME Return
    PROVE  ProcTyped'
BY DEF Return, Idle, ProcTyped, PcOfJob, NoFile

\* Between two Jobs of a command.
LEMMA NextTyped ==
    ASSUME NEW todo, proc' = [Idle EXCEPT !.pc = "Next", !.todo = todo], todo \subseteq Created'
    PROVE  ProcTyped'
BY DEF Idle, ProcTyped, PcOfJob, NoFile

LEMMA EndsTyped ==
    ASSUME Typed, JobEnds, Created' = Created
    PROVE  ProcTyped'
BY NextTyped DEF JobEnds, Typed, ProcTyped

LEMMA RunningProc ==
    ASSUME Typed, AudioOK, Running
    PROVE  ProcTyped'
<1> USE DEF Typed, ProcTyped, PcOfJob
<1>0. Created' = Created
  BY OneJob, RunningWrites DEF Created
<1>1. CASE Probe
  BY <1>0, <1>1, EndsTyped DEF Probe, Goes, JobFails
<1>2. CASE Ffmpeg
  <2>1. Input.content \in Nat
    BY <1>2, JobAtHand DEF Ffmpeg, Contents
  <2>2. CASE Writes(Input.content)
    BY <1>0, <1>2, <2>1, <2>2 DEF Writes, Ffmpeg
  <2>3. CASE Writes(Broken)
    BY <1>0, <1>2, <2>3 DEF Writes, Ffmpeg
  <2> QED
    BY <1>2, <2>2, <2>3 DEF Ffmpeg
<1>3. CASE CommitWav \/ ReuseAudio
  BY <1>0, <1>3, EndsTyped DEF CommitWav, ReuseAudio, Goes, JobFails
<1>4. CASE CommitManifest
  BY <1>0, <1>4 DEF CommitManifest, Goes
<1>5. CASE ReadCache
  <2>1. Key \in Contents /\ Key \in Nat
    BY <1>5, AudioAtHand DEF ReadCache, Contents
  <2>2. CASE JobFails
    BY <1>0, <2>2, EndsTyped DEF JobFails
  <2>3. ASSUME NEW b \in Nat \ {NoFile}, Puts(b)
        PROVE  ProcTyped'
    BY <1>0, <1>5, <2>1, <2>3 DEF ReadCache, Puts
  <2>4. Present(Key) => cache[Key].data \in Nat \ {NoFile}
    BY <2>1 DEF Present, FilesTyped
  <2>5. Len(heard) + 1 \in Nat \ {NoFile}
    BY LenProperties DEF FilesTyped, NoFile
  <2> QED
    BY <1>5, <2>2, <2>3, <2>4, <2>5 DEF ReadCache
<1>6. CASE PutData \/ PutMeta
  BY <1>0, <1>6 DEF PutData, PutMeta, Goes
<1>7. CASE Export \/ StepFails
  BY <1>0, <1>7, EndsTyped DEF Export, StepFails, JobFails
<1> QED
  BY <1>1, <1>2, <1>3, <1>4, <1>5, <1>6, <1>7 DEF Running

\* The Jobs of a Batch that can be resumed are there.
LEMMA MembersThere ==
    ASSUME GraphWhole, NEW b, ValidResumeGraph(b)
    PROVE  b.members \subseteq Created
BY DEF GraphWhole, ValidResumeGraph, HasJob

LEMMA OtherProc ==
    ASSUME Typed, DraftOK, RowsOK, GraphWhole, Next, ~Running
    PROVE  ProcTyped'
<1> USE DEF Typed, ProcTyped, PcOfJob
<1>1. CASE Creating
  <2>1. CASE BeginBatch
    BY <2>1 DEF BeginBatch, Goes, Created
  <2>2. CASE PlanFile
    BY <2>2 DEF PlanFile, Created
  <2>3. CASE PlanRefused \/ RollBack
    BY <2>3, ReturnTyped DEF PlanRefused, RollBack
  <2>4. CASE InsertRow
    BY <2>4 DEF InsertRow, Goes, Created
  <2>5. CASE CommitGraph
    BY <2>5, NextTyped, CommitWrites DEF CommitGraph
  <2> QED
    BY <1>1, <2>1, <2>2, <2>3, <2>4, <2>5 DEF Creating
<1>2. CASE LeaveBatch \/ GcMeta \/ Crash
  BY <1>2, ReturnTyped DEF LeaveBatch, GcMeta, Crash
<1>3. CASE TakeJob
  <2>1. PICK k \in proc.todo : proc' = [Idle EXCEPT !.pc = "Start", !.job = k, !.todo = proc.todo \ {k}]
    BY <1>3 DEF TakeJob
  <2>2. Created' = Created /\ k \in Created /\ k \in Nat
    BY <1>3, <2>1 DEF TakeJob, Created, JobsTyped
  <2> QED
    BY <2>1, <2>2 DEF Idle, NoFile
<1>4. ASSUME NEW b \in Batches, ResumeBatch(b)
      PROVE  ProcTyped'
  <2>1. Created' = Created /\ b.members \subseteq Created
    BY <1>4, MembersThere DEF ResumeBatch, Created
  <2>2. {k \in b.members : ~jobs[k].ended} \subseteq Created'
    BY <2>1
  <2> QED
    BY <1>4, <2>2, NextTyped DEF ResumeBatch
<1>5. ASSUME NEW k \in Created, NEW s \in 0 .. 3, Retry(k, s)
      PROVE  ProcTyped'
  <2>1. Created' = Created /\ k \in Nat
    BY <1>5 DEF Retry, Created, JobsTyped
  <2> QED
    BY <1>5, <2>1 DEF Retry, Idle, NoFile
<1>6. ASSUME NEW c \in Contents, GcData(c)
      PROVE  ProcTyped'
  <2>1. c \in Nat
    BY DEF Contents
  <2> QED
    BY <1>6, <2>1 DEF GcData, Idle, NoFile
<1>7. ASSUME NEW m \in Media, ChangeSource(m)
      PROVE  ProcTyped'
  BY <1>7 DEF ChangeSource, Created
<1> QED
  BY <1>1, <1>2, <1>3, <1>4, <1>5, <1>6, <1>7 DEF Next

LEMMA TypedStep ==
    ASSUME Typed, DraftOK, RowsOK, GraphWhole, AudioOK, Next
    PROVE  Typed'
<1>1. FilesTyped' /\ ProcTyped'
  BY RunningFiles, OtherFiles, RunningProc, OtherProc
<1>2. JobsTyped' /\ Created \subseteq Created'
  <2>1. CASE CommitGraph
    BY <2>1, CommitWrites DEF Typed
  <2>2. CASE UNCHANGED jobs
    BY <2>2 DEF Typed, JobsTyped, Created
  <2>3. CASE WritesOne
    BY <2>3, OneJob DEF Typed
  <2> QED
    BY <2>1, <2>2, <2>3, RunningWrites, OthersWrite
<1>3. outputs' \in [Names -> {NoFile, User} \union Created']
  <2>1. CASE Export
    BY <1>2, <2>1 DEF Export, Typed, ProcTyped, PcOfJob
  <2>2. CASE UNCHANGED outputs
    BY <1>2, <2>2 DEF Typed
  <2>3. UNCHANGED outputs \/ Export
    BY DEF Next, Creating, BeginBatch, PlanFile, PlanRefused, InsertRow, CommitGraph, RollBack,
       Running, Probe, ReuseAudio, Ffmpeg, CommitWav, CommitManifest, ReadCache, PutData, PutMeta, StepFails,
       TakeJob, LeaveBatch, GcMeta, Crash, ResumeBatch, Retry, GcData, ChangeSource, files
  <2> QED
    BY <2>1, <2>2, <2>3
<1> QED
  BY <1>1, <1>2, <1>3 DEF Typed

-----------------------------------------------------------------------------
(* The audio. *)

\* No Job is at work afterwards, and each has extracted what it has probed.
LEMMA AtRest ==
    ASSUME AudioOK, proc'.pc \notin PcOfJob \/ proc'.pc = "Start", Created' = Created,
           \A k \in Created :
              /\ jobs'[k].done >= 1 => jobs'[k].probed \in Contents
              /\ jobs'[k].done >= 2 => jobs'[k].extracted = jobs'[k].probed
    PROVE  AudioOK'
<1>1. proc'.pc \notin {"Reuse", "Extract", "Check", "Manifest", "Chunk", "PutData", "PutMeta", "Export"}
  BY DEF PcOfJob
<1> QED
  BY <1>1 DEF AudioOK, Contents

LEMMA SameJobs ==
    ASSUME AudioOK, proc'.pc \notin PcOfJob \/ proc'.pc = "Start", UNCHANGED jobs
    PROVE  AudioOK'
BY AtRest DEF AudioOK, Created

LEMMA BetweenJobs ==
    ASSUME JobEnds
    PROVE  proc'.pc = "Next" /\ proc'.pc \notin PcOfJob
BY DEF JobEnds, Idle, PcOfJob

\* A Job that fails keeps what its stages have brought.
SameWork(job, was) == /\ job.done = was.done /\ job.probed = was.probed
                      /\ job.extracted = was.extracted /\ job.asr = was.asr

LEMMA FailedJob ==
    ASSUME Typed, proc.pc \in PcOfJob, JobFails
    PROVE  Created' = Created /\ \A k \in Created : SameWork(jobs'[k], jobs[k])
<1>1. proc.job \in Created /\ Created' = Created
  BY JobAtHand, OneJob, Ends DEF Typed
<1> QED
  BY <1>1 DEF JobFails, SameWork, Typed, JobsTyped, JobType

LEMMA FailedAudio ==
    ASSUME Typed, AudioOK, proc.pc \in PcOfJob, JobFails
    PROVE  AudioOK'
BY FailedJob, BetweenJobs, AtRest DEF AudioOK, SameWork, JobFails

\* The Job at hand is written, the others are left alone.
LEMMA Written ==
    ASSUME Typed, proc.pc \in PcOfJob, NEW job, jobs' = [jobs EXCEPT ![proc.job] = job]
    PROVE  /\ Created' = Created /\ jobs'[proc.job] = job
           /\ \A k \in Created : k # proc.job => jobs'[k] = jobs[k]
BY JobAtHand DEF Typed, JobsTyped, Created

LEMMA RunningAudio ==
    ASSUME Typed, Typed', AudioOK, Running
    PROVE  AudioOK'
<1>1. proc.job \in Created /\ Here \in JobType /\ Input.content \in Contents /\ proc.pc \in PcOfJob
  BY JobAtHand DEF Running, Probe, ReuseAudio, Ffmpeg, CommitWav, CommitManifest, ReadCache, PutData,
     PutMeta, Export, StepFails, PcOfJob
<1>2. Created' = Created
  BY OneJob, RunningWrites DEF Created, Typed
<1>d. Here.done \in 0 .. 4
  BY <1>1 DEF JobType
<1>3. CASE Probe
  <2>1. CASE JobFails
    BY <1>1, <2>1, FailedAudio
  <2>2. CASE SameStat /\ SameHash
    <3>1. jobs' = [jobs EXCEPT ![proc.job] = Probed(Here, Input.content)]
      BY <1>3, <2>2 DEF Probe, Here
    <3>2. /\ jobs'[proc.job] = Probed(Here, Input.content)
          /\ \A k \in Created : k # proc.job => jobs'[k] = jobs[k]
      BY <1>1, <3>1, Written
    <3>3. /\ jobs'[proc.job].probed = Input.content /\ jobs'[proc.job].media = Here.media
          /\ jobs'[proc.job].extracted = Here.extracted
          /\ jobs'[proc.job].done = IF Here.done = 0 THEN 1 ELSE Here.done
      BY <1>1, <2>2, <3>2 DEF Probed, JobType, SameHash
    <3>4. Here.done >= 2 => Here.extracted = Input.content
      BY <1>1, <1>d, <2>2 DEF SameHash, AudioOK, Here
    <3>5. proc'.job = proc.job /\ proc'.pc = IF Here.done < 2 THEN "Extract" ELSE "Reuse"
      BY <1>3, <2>2 DEF Probe, Goes, Typed, ProcTyped
    <3>6. UNCHANGED source
      BY <1>3 DEF Probe, files
    <3> QED
      BY <1>1, <1>2, <1>d, <3>2, <3>3, <3>4, <3>5, <3>6 DEF AudioOK, Here, Input
  <2> QED
    BY <1>3, <2>1, <2>2 DEF Probe
<1>4. CASE ReuseAudio
  <2>1. CASE JobFails
    BY <1>1, <2>1, FailedAudio
  <2>2. CASE Audio = Here.extracted /\ UNCHANGED jobs /\ Goes(IF Here.done < 3 THEN "Chunk" ELSE "Export")
    <3>1. proc'.job = proc.job /\ proc'.pc = IF Here.done < 3 THEN "Chunk" ELSE "Export"
      BY <2>2 DEF Goes, Typed, ProcTyped
    <3>2. Here.done >= 2 /\ UNCHANGED wav
      BY <1>4 DEF ReuseAudio, AudioOK, files
    <3>3. (Here.done < 3 => Here.done = 2) /\ (~(Here.done < 3) => Here.done >= 3)
      BY <1>d, <3>2
    <3> QED
      BY <1>2, <2>2, <3>1, <3>2, <3>3 DEF AudioOK, Here, Audio
  <2> QED
    BY <1>4, <2>1, <2>2 DEF ReuseAudio
<1>5. CASE Ffmpeg
  <2>1. proc'.job = proc.job /\ proc'.pc = "Check" /\ proc'.bytes \in {Input.content, Broken}
    BY <1>5 DEF Ffmpeg, Writes, Typed, ProcTyped
  <2> QED
    BY <1>5, <2>1 DEF Ffmpeg, AudioOK, Here, Input, files, Created
<1>6. CASE CommitWav
  <2>1. CASE WavOk(proc.bytes)
    <3>1. wav' = [wav EXCEPT ![proc.job] = Here.probed]
      BY <1>6, <2>1 DEF CommitWav, AudioOK, WavOk
    <3>2. proc'.job = proc.job /\ proc'.pc = "Manifest"
      BY <1>6, <2>1 DEF CommitWav, Goes, Typed, ProcTyped
    <3>3. proc.job \in JobIds
      BY <1>1, WavOfJob DEF Typed
    <3>4. UNCHANGED <<jobs, source>>
      BY <1>6, <2>1 DEF CommitWav
    <3>5. wav'[proc.job] = Here.probed
      BY <3>1, <3>3 DEF Typed, FilesTyped
    <3>6. Here.done = 1 /\ Here.probed = Input.content
      BY <1>6 DEF CommitWav, AudioOK
    <3> QED
      BY <1>2, <3>2, <3>4, <3>5, <3>6 DEF AudioOK, Here, Input, Audio
  <2>2. CASE ~WavOk(proc.bytes)
    BY <1>1, <1>6, <2>2, FailedAudio DEF CommitWav
  <2> QED
    BY <2>1, <2>2
<1>7. CASE CommitManifest
  <2>1. jobs' = [jobs EXCEPT ![proc.job] = [Here EXCEPT !.done = 2, !.extracted = Audio]]
    BY <1>7 DEF CommitManifest, Here
  <2>2. /\ jobs'[proc.job] = [Here EXCEPT !.done = 2, !.extracted = Audio]
        /\ \A k \in Created : k # proc.job => jobs'[k] = jobs[k]
    BY <1>1, <2>1, Written
  <2>3. /\ jobs'[proc.job].done = 2 /\ jobs'[proc.job].probed = Here.probed
        /\ jobs'[proc.job].extracted = Audio
    BY <1>1, <2>2 DEF JobType
  <2>4. proc'.job = proc.job /\ proc'.pc = "Chunk" /\ UNCHANGED wav
    BY <1>7 DEF CommitManifest, Goes, Typed, ProcTyped, files
  <2>5. Audio = Here.probed /\ Here.probed \in Contents
    BY <1>1, <1>7 DEF CommitManifest, AudioOK, Here
  <2>6. \A k \in Created : /\ jobs'[k].done >= 1 => jobs'[k].probed \in Contents
                           /\ jobs'[k].done >= 2 => jobs'[k].extracted = jobs'[k].probed
    BY <2>2, <2>3, <2>5 DEF AudioOK
  <2> QED
    BY <1>2, <2>3, <2>4, <2>6 DEF AudioOK, Here, Audio
<1>8. CASE ReadCache
  <2>1. CASE JobFails
    BY <1>1, <2>1, FailedAudio
  <2>2. CASE UNCHANGED jobs /\ \E b : Puts(b)
    <3>1. proc'.job = proc.job /\ proc'.pc = "PutData" /\ proc'.key = Here.extracted
      BY <2>2 DEF Puts, Key, Typed, ProcTyped
    <3> QED
      BY <1>2, <1>8, <2>2, <3>1 DEF ReadCache, AudioOK, Here
  <2> QED
    BY <1>8, <2>1, <2>2 DEF ReadCache
<1>9. CASE PutData
  <2>1. proc'.job = proc.job /\ proc'.pc = "PutMeta" /\ proc'.key = proc.key
    BY <1>9 DEF PutData, Goes, Typed, ProcTyped
  <2> QED
    BY <1>2, <1>9, <2>1 DEF PutData, AudioOK, Here
<1>10. CASE PutMeta
  <2>1. jobs' = [jobs EXCEPT ![proc.job] = [Here EXCEPT !.done = 3, !.asr = proc.bytes]]
    BY <1>10 DEF PutMeta, Here
  <2>2. /\ jobs'[proc.job] = [Here EXCEPT !.done = 3, !.asr = proc.bytes]
        /\ \A k \in Created : k # proc.job => jobs'[k] = jobs[k]
    BY <1>1, <2>1, Written
  <2>3. /\ jobs'[proc.job].done = 3 /\ jobs'[proc.job].probed = Here.probed
        /\ jobs'[proc.job].extracted = Here.extracted
    BY <1>1, <2>2 DEF JobType
  <2>4. proc'.job = proc.job /\ proc'.pc = "Export"
    BY <1>10 DEF PutMeta, Goes, Typed, ProcTyped
  <2>5. Here.probed \in Contents /\ Here.extracted = Here.probed
    BY <1>1, <1>10 DEF PutMeta, AudioOK, Here
  <2>6. \A k \in Created : /\ jobs'[k].done >= 1 => jobs'[k].probed \in Contents
                           /\ jobs'[k].done >= 2 => jobs'[k].extracted = jobs'[k].probed
    BY <2>2, <2>3, <2>5 DEF AudioOK
  <2> QED
    BY <1>2, <2>3, <2>4, <2>6 DEF AudioOK, Here
<1>11. CASE Export
  <2>1. jobs' = [jobs EXCEPT ![proc.job] = [Here EXCEPT !.done = 4, !.ended = TRUE]]
    BY <1>11 DEF Export, Here
  <2>2. /\ jobs'[proc.job] = [Here EXCEPT !.done = 4, !.ended = TRUE]
        /\ \A k \in Created : k # proc.job => jobs'[k] = jobs[k]
    BY <1>1, <2>1, Written
  <2>3. /\ jobs'[proc.job].probed = Here.probed
        /\ jobs'[proc.job].extracted = Here.extracted
    BY <1>1, <2>2 DEF JobType
  <2>4. Here.done >= 3 /\ Here.done >= 2 /\ Here.done >= 1
    BY <1>d, <1>11 DEF Export, AudioOK
  <2> QED
    BY <1>1, <1>2, <1>11, <2>2, <2>3, <2>4, AtRest, BetweenJobs DEF AudioOK, Here, Export
<1>12. CASE StepFails
  BY <1>1, <1>12, FailedAudio DEF StepFails
<1> QED
  BY <1>3, <1>4, <1>5, <1>6, <1>7, <1>8, <1>9, <1>10, <1>11, <1>12 DEF Running

\* The Jobs of a new Batch have done nothing.
LEMMA FreshJobs ==
    ASSUME Typed, RowsOK, DraftOK, CommitGraph
    PROVE  \A k \in Created' : (k \in Created /\ jobs'[k] = jobs[k]) \/ jobs'[k].done = 0
<1>1. /\ Created' = Created \union MembersOf
      /\ \A k \in Created : jobs'[k] = jobs[k]
      /\ \A i \in DOMAIN draft.members : jobs'[JobOf(i)] = NewJob(draft.members[i])
  BY CommitWrites DEF Typed
<1>2. \A member : NewJob(member).done = 0
  BY DEF NewJob
<1>3. \A k \in MembersOf : \E i \in DOMAIN draft.members : k = JobOf(i)
  BY DEF MembersOf
<1> QED
  BY <1>1, <1>2, <1>3

\* A Job that is taken back keeps what the stages that stand have brought.
LEMMA TakenBackWork ==
    ASSUME Typed, NEW k \in Created, NEW s \in 0 .. 3, s <= jobs[k].done, Retry(k, s)
    PROVE  /\ Created' = Created
           /\ \A j \in Created : j # k => jobs'[j] = jobs[j]
           /\ jobs'[k].done = s
           /\ s >= 1 => jobs[k].done >= 1 /\ jobs'[k].probed = jobs[k].probed
           /\ s >= 2 => jobs[k].done >= 2 /\ jobs'[k].extracted = jobs[k].extracted
           /\ s >= 3 => jobs[k].done >= 3 /\ jobs'[k].asr = jobs[k].asr
<1>1. jobs[k] \in JobType /\ Created' = Created
  BY DEF Typed, JobsTyped, Retry, Created
<1>2. jobs' = [jobs EXCEPT ![k] = TakenBack(jobs[k], s)]
  BY DEF Retry
<1>3. jobs'[k] = TakenBack(jobs[k], s) /\ \A j \in Created : j # k => jobs'[j] = jobs[j]
  BY <1>2 DEF Typed, JobsTyped
<1>4. jobs[k].done \in 0 .. 4
  BY <1>1 DEF JobType
<1>5. /\ jobs'[k].done = s
      /\ s # 0 => jobs'[k].probed = jobs[k].probed
      /\ ~(s < 2) => jobs'[k].extracted = jobs[k].extracted
      /\ ~(s < 3) => jobs'[k].asr = jobs[k].asr
  BY <1>1, <1>3 DEF TakenBack, JobType
<1>6. /\ s >= 1 => jobs[k].done >= 1 /\ s # 0
      /\ s >= 2 => jobs[k].done >= 2 /\ ~(s < 2)
      /\ s >= 3 => jobs[k].done >= 3 /\ ~(s < 3)
  BY <1>4
<1> QED
  BY <1>1, <1>3, <1>5, <1>6

LEMMA OtherAudio ==
    ASSUME Typed, AudioOK, RowsOK, DraftOK, Next, ~Running
    PROVE  AudioOK'
<1>1. CASE CommitGraph
  <2>1. proc'.pc = "Next"
    BY <1>1 DEF CommitGraph, Idle
  <2>2. \A k \in Created' : /\ jobs'[k].done >= 1 => jobs'[k].probed \in Contents
                            /\ jobs'[k].done >= 2 => jobs'[k].extracted = jobs'[k].probed
    BY <1>1, FreshJobs DEF AudioOK
  <2> QED
    BY <2>1, <2>2 DEF AudioOK, Contents
<1>2. CASE Creating /\ ~CommitGraph
  <2>1. UNCHANGED jobs
    BY <1>2 DEF Creating, BeginBatch, PlanFile, PlanRefused, InsertRow, RollBack
  <2>2. proc'.pc \notin PcOfJob
    <3>1. CASE BeginBatch \/ InsertRow
      BY <3>1 DEF BeginBatch, InsertRow, Goes, Typed, ProcTyped, PcOfJob
    <3>2. CASE PlanFile
      BY <3>2 DEF PlanFile, PcOfJob
    <3>3. CASE PlanRefused \/ RollBack
      BY <3>3 DEF PlanRefused, RollBack, Return, Idle, PcOfJob
    <3> QED
      BY <1>2, <3>1, <3>2, <3>3 DEF Creating
  <2> QED
    BY <2>1, <2>2, SameJobs
<1>3. CASE TakeJob \/ LeaveBatch \/ GcMeta \/ Crash
  BY <1>3, SameJobs, TakesJob DEF LeaveBatch, GcMeta, Crash, Return, Idle, PcOfJob
<1>4. ASSUME NEW b \in Batches, ResumeBatch(b)
      PROVE  AudioOK'
  BY <1>4, SameJobs DEF ResumeBatch, Idle, PcOfJob
<1>5. ASSUME NEW k \in Created, NEW s \in 0 .. 3, s <= jobs[k].done, Retry(k, s)
      PROVE  AudioOK'
  <2>1. proc'.pc = "Start"
    BY <1>5 DEF Retry, Idle
  <2>2. \A j \in Created : /\ jobs'[j].done >= 1 => jobs'[j].probed \in Contents
                           /\ jobs'[j].done >= 2 => jobs'[j].extracted = jobs'[j].probed
    <3>1. s >= 2 => s >= 1
      OBVIOUS
    <3> QED
      BY <1>5, <3>1, TakenBackWork DEF AudioOK
  <2> QED
    BY <1>5, <2>1, <2>2, AtRest, TakenBackWork
<1>6. ASSUME NEW c \in Contents, GcData(c)
      PROVE  AudioOK'
  BY <1>6, SameJobs DEF GcData, Idle, PcOfJob
<1>7. ASSUME NEW m \in Media, ChangeSource(m)
      PROVE  AudioOK'
  BY <1>7, SameJobs DEF ChangeSource, PcOfJob
<1> QED
  BY <1>1, <1>2, <1>3, <1>4, <1>5, <1>6, <1>7 DEF Next

LEMMA InitAudio == Init => AudioOK
BY DEF Init, AudioOK, Created, Idle

-----------------------------------------------------------------------------
(* The transcripts. *)

\* A transcript stays that of its audio when others are made.
LEMMA StillHeard ==
    ASSUME Typed, NEW c \in Contents, heard' \in {heard, Append(heard, c)}
    PROVE  \A bytes, audio : TranscriptOf(bytes, audio) => TranscriptOf(bytes, audio)'
<1>1. heard \in Seq(Contents) /\ Len(heard) \in Nat /\ DOMAIN heard = 1 .. Len(heard)
  BY LenProperties DEF Typed, FilesTyped
<1>2. heard' = Append(heard, c) =>
         /\ DOMAIN heard' = 1 .. Len(heard) + 1
         /\ \A i \in 1 .. Len(heard) : heard'[i] = heard[i]
  BY <1>1
<1>3. \A i \in 1 .. Len(heard) : i \in 1 .. Len(heard) + 1
  BY <1>1
<1>4. \A i \in DOMAIN heard : i \in DOMAIN heard' /\ heard'[i] = heard[i]
  BY <1>1, <1>2, <1>3
<1> QED
  BY <1>4 DEF TranscriptOf

\* The work of every Job is what it was, and so are the entries that are there.
LEMMA SameHeard ==
    ASSUME HeardOK, UNCHANGED heard, proc'.pc \notin {"PutData", "PutMeta"},
           \A c \in Contents : cache'[c].data \in {cache[c].data, NoFile},
           \A k \in Created' : jobs'[k].done >= 3 =>
              /\ k \in Created /\ jobs[k].done >= 3
              /\ jobs'[k].asr = jobs[k].asr /\ jobs'[k].extracted = jobs[k].extracted
    PROVE  HeardOK'
BY DEF HeardOK, TranscriptOf, Contents

LEMMA RunningHeard ==
    ASSUME Typed, AudioOK, HeardOK, Running
    PROVE  HeardOK'
<1>1. proc.job \in Created /\ Here \in JobType /\ proc.pc \in PcOfJob
  BY JobAtHand DEF Running, Probe, ReuseAudio, Ffmpeg, CommitWav, CommitManifest, ReadCache, PutData,
     PutMeta, Export, StepFails, PcOfJob
<1>2. Created' = Created
  BY OneJob, RunningWrites DEF Created, Typed
<1>d. Here.done \in 0 .. 4
  BY <1>1 DEF JobType
<1>3. CASE JobFails /\ UNCHANGED <<cache, heard>>
  BY <1>1, <1>3, FailedJob, BetweenJobs, SameHeard DEF SameWork, JobFails
<1>4. CASE Probe /\ ~JobFails
  <2>1. jobs' = [jobs EXCEPT ![proc.job] = Probed(Here, Input.content)]
    BY <1>4 DEF Probe, Here
  <2>2. /\ jobs'[proc.job] = Probed(Here, Input.content)
        /\ \A k \in Created : k # proc.job => jobs'[k] = jobs[k]
    BY <1>1, <2>1, Written
  <2>3. /\ jobs'[proc.job].extracted = Here.extracted /\ jobs'[proc.job].asr = Here.asr
        /\ jobs'[proc.job].done = IF Here.done = 0 THEN 1 ELSE Here.done
    BY <1>1, <2>2 DEF Probed, JobType
  <2>4. proc'.pc \in {"Extract", "Reuse"} /\ UNCHANGED <<cache, heard>>
    BY <1>4 DEF Probe, Goes, Typed, ProcTyped, files
  <2> QED
    BY <1>1, <1>2, <1>d, <2>2, <2>3, <2>4, SameHeard DEF Here
<1>5. CASE ReuseAudio /\ ~JobFails
  <2>1. proc'.pc \in {"Chunk", "Export"} /\ UNCHANGED <<cache, heard, jobs>>
    BY <1>5 DEF ReuseAudio, Goes, Typed, ProcTyped, files
  <2> QED
    BY <1>2, <2>1, SameHeard
<1>6. CASE Ffmpeg
  <2>1. proc'.pc = "Check" /\ UNCHANGED <<cache, heard, jobs>>
    BY <1>6 DEF Ffmpeg, Writes, Typed, ProcTyped, files
  <2> QED
    BY <1>2, <2>1, SameHeard
<1>7. CASE CommitWav /\ ~JobFails
  <2>1. proc'.pc = "Manifest" /\ UNCHANGED <<cache, heard, jobs>>
    BY <1>7 DEF CommitWav, Goes, Typed, ProcTyped
  <2> QED
    BY <1>2, <2>1, SameHeard
<1>8. CASE CommitManifest
  <2>1. jobs' = [jobs EXCEPT ![proc.job] = [Here EXCEPT !.done = 2, !.extracted = Audio]]
    BY <1>8 DEF CommitManifest, Here
  <2>2. /\ jobs'[proc.job] = [Here EXCEPT !.done = 2, !.extracted = Audio]
        /\ \A k \in Created : k # proc.job => jobs'[k] = jobs[k]
    BY <1>1, <2>1, Written
  <2>3. ~(jobs'[proc.job].done >= 3)
    BY <1>1, <2>2 DEF JobType
  <2>4. proc'.pc = "Chunk" /\ UNCHANGED <<cache, heard>>
    BY <1>8 DEF CommitManifest, Goes, Typed, ProcTyped, files
  <2>5. \A k \in Created' : jobs'[k].done >= 3 => k \in Created /\ jobs'[k] = jobs[k]
    BY <1>2, <2>2, <2>3
  <2> QED
    BY <2>4, <2>5, SameHeard
<1>9. CASE ReadCache /\ ~JobFails
  <2>1. PICK c \in Contents : c = Audio /\ c = Key
    BY <1>9, AudioAtHand DEF ReadCache
  <2>2. PICK bytes : /\ Puts(bytes) /\ heard' \in {heard, Append(heard, c)}
                     /\ TranscriptOf(bytes, c)'
    <3>1. CASE Present(Key) /\ Puts(cache[Key].data) /\ UNCHANGED heard
      <4>1. PICK bytes : bytes = cache[c].data
        OBVIOUS
      <4>2. TranscriptOf(bytes, c) /\ Puts(bytes)
        BY <2>1, <3>1, <4>1 DEF Present, HeardOK
      <4> QED
        BY <3>1, <4>2 DEF TranscriptOf
    <3>2. CASE heard' = Append(heard, Audio) /\ Puts(Len(heard) + 1)
      <4>1. PICK bytes : bytes = Len(heard) + 1
        OBVIOUS
      <4>2. heard' = Append(heard, c) /\ Puts(bytes) /\ TranscriptOf(bytes, c)'
        <5>1. heard \in Seq(Contents) /\ Len(heard) \in Nat /\ heard' = Append(heard, c)
          BY <2>1, <3>2, LenProperties DEF Typed, FilesTyped
        <5>2. bytes \in DOMAIN heard' /\ heard'[bytes] = c
          BY <4>1, <5>1
        <5> QED
          BY <3>2, <4>1, <5>1, <5>2 DEF TranscriptOf
      <4> QED
        BY <4>2
    <3> QED
      BY <1>9, <3>1, <3>2 DEF ReadCache
  <2>3. proc'.pc = "PutData" /\ proc'.key = c /\ proc'.bytes = bytes
    BY <2>1, <2>2 DEF Puts, Typed, ProcTyped
  <2>4. UNCHANGED <<cache, jobs>>
    BY <1>9 DEF ReadCache, files
  <2>5. \A b, audio : TranscriptOf(b, audio) => TranscriptOf(b, audio)'
    BY <2>2, StillHeard
  <2>6. (\A d \in Contents : cache[d].data # NoFile => TranscriptOf(cache[d].data, d))'
    BY <2>4, <2>5 DEF HeardOK, Contents, TranscriptOf
  <2>7. (\A k \in Created : jobs[k].done >= 3 => TranscriptOf(jobs[k].asr, jobs[k].extracted))'
    BY <1>2, <2>4, <2>5 DEF HeardOK, TranscriptOf
  <2> QED
    BY <2>2, <2>3, <2>6, <2>7 DEF HeardOK, TranscriptOf
<1>10. CASE PutData
  <2>1. PICK k \in Contents : k = proc.key
    BY <1>10 DEF PutData, Typed, ProcTyped
  <2>2. /\ cache'[k].data = proc.bytes /\ TranscriptOf(proc.bytes, k)
        /\ \A c \in Contents : c # k => cache'[c] = cache[c]
    BY <1>10, <2>1 DEF PutData, Typed, FilesTyped, HeardOK
  <2>3. proc'.pc = "PutMeta" /\ proc'.key = k /\ proc'.bytes = proc.bytes /\ UNCHANGED <<heard, jobs>>
    BY <1>10, <2>1 DEF PutData, Goes, Typed, ProcTyped
  <2> QED
    BY <1>2, <2>2, <2>3 DEF HeardOK, TranscriptOf, Contents
<1>11. CASE PutMeta
  <2>1. jobs' = [jobs EXCEPT ![proc.job] = [Here EXCEPT !.done = 3, !.asr = proc.bytes]]
    BY <1>11 DEF PutMeta, Here
  <2>2. /\ jobs'[proc.job] = [Here EXCEPT !.done = 3, !.asr = proc.bytes]
        /\ \A k \in Created : k # proc.job => jobs'[k] = jobs[k]
    BY <1>1, <2>1, Written
  <2>3. jobs'[proc.job].asr = proc.bytes /\ jobs'[proc.job].extracted = Here.extracted
    BY <1>1, <2>2 DEF JobType
  <2>4. proc.key \in Contents /\ proc.key = Here.extracted /\ TranscriptOf(proc.bytes, proc.key)
    BY <1>11 DEF PutMeta, AudioOK, HeardOK, Typed, ProcTyped
  <2>5. \A c \in Contents : cache'[c].data = cache[c].data
    BY <1>11, <2>4 DEF PutMeta, Typed, FilesTyped
  <2>6. proc'.pc = "Export" /\ UNCHANGED heard
    BY <1>11 DEF PutMeta, Goes, Typed, ProcTyped
  <2> QED
    BY <1>2, <2>2, <2>3, <2>4, <2>5, <2>6 DEF HeardOK, TranscriptOf, Contents
<1>12. CASE Export
  <2>1. jobs' = [jobs EXCEPT ![proc.job] = [Here EXCEPT !.done = 4, !.ended = TRUE]]
    BY <1>12 DEF Export, Here
  <2>2. /\ jobs'[proc.job] = [Here EXCEPT !.done = 4, !.ended = TRUE]
        /\ \A k \in Created : k # proc.job => jobs'[k] = jobs[k]
    BY <1>1, <2>1, Written
  <2>3. jobs'[proc.job].asr = Here.asr /\ jobs'[proc.job].extracted = Here.extracted
    BY <1>1, <2>2 DEF JobType
  <2>4. proc'.pc = "Next" /\ UNCHANGED <<cache, heard>>
    BY <1>12, BetweenJobs DEF Export
  <2>5. Here.done >= 3
    BY <1>12 DEF Export, AudioOK
  <2> QED
    BY <1>2, <2>2, <2>3, <2>4, <2>5, SameHeard DEF Here
<1> QED
  <2>1. JobFails => UNCHANGED <<cache, heard>>
    <3>1. ASSUME JobFails, ~UNCHANGED <<cache, heard>>
          PROVE  FALSE
      <4>1. proc'.pc = "Next"
        BY <3>1, BetweenJobs DEF JobFails
      <4>2. CASE ReadCache
        <5>1. PICK b : Puts(b)
          BY <3>1, <4>2 DEF ReadCache, files
        <5> QED
          BY <4>1, <5>1 DEF Puts, Typed, ProcTyped
      <4>3. CASE PutData \/ PutMeta
        BY <4>1, <4>3 DEF PutData, PutMeta, Goes, Typed, ProcTyped
      <4> QED
        BY <3>1, <4>2, <4>3 DEF Running, Probe, ReuseAudio, Ffmpeg, CommitWav, CommitManifest, Export,
           StepFails, files
    <3> QED
      BY <3>1
  <2> QED
    BY <1>3, <1>4, <1>5, <1>6, <1>7, <1>8, <1>9, <1>10, <1>11, <1>12, <2>1 DEF Running, StepFails

LEMMA OtherHeard ==
    ASSUME Typed, RowsOK, DraftOK, HeardOK, Next, ~Running
    PROVE  HeardOK'
<1> USE DEF files
<1>1. CASE CommitGraph
  <2>1. proc'.pc = "Next" /\ UNCHANGED <<cache, heard>>
    BY <1>1 DEF CommitGraph, Idle
  <2>2. \A k \in Created' : jobs'[k].done >= 3 => k \in Created /\ jobs'[k] = jobs[k]
    BY <1>1, FreshJobs
  <2> QED
    BY <2>1, <2>2, SameHeard
<1>2. CASE Creating /\ ~CommitGraph
  <2>1. UNCHANGED <<jobs, cache, heard>>
    BY <1>2 DEF Creating, BeginBatch, PlanFile, PlanRefused, InsertRow, RollBack
  <2>2. proc'.pc \notin {"PutData", "PutMeta"}
    <3>1. CASE BeginBatch \/ InsertRow
      BY <3>1 DEF BeginBatch, InsertRow, Goes, Typed, ProcTyped
    <3>2. CASE PlanFile
      BY <3>2 DEF PlanFile
    <3>3. CASE PlanRefused \/ RollBack
      BY <3>3 DEF PlanRefused, RollBack, Return, Idle
    <3> QED
      BY <1>2, <3>1, <3>2, <3>3 DEF Creating
  <2> QED
    BY <2>1, <2>2, SameHeard DEF Created
<1>3. CASE TakeJob \/ LeaveBatch \/ Crash
  <2>1. proc'.pc \in {"Start", "Idle"} /\ UNCHANGED <<cache, heard, jobs>>
    BY <1>3, TakesJob DEF LeaveBatch, Crash, Return, Idle
  <2> QED
    BY <2>1, SameHeard DEF Created
<1>4. CASE GcMeta
  <2>1. \A c \in Contents : cache'[c].data = cache[c].data
    <3>1. PICK k \in Contents : k = proc.key
      BY <1>4 DEF GcMeta, Typed, ProcTyped
    <3>2. CASE cache' = [cache EXCEPT ![k] = CollectedMeta(k)]
      BY <3>2 DEF CollectedMeta, Typed, FilesTyped
    <3>3. CASE UNCHANGED cache
      BY <3>3
    <3> QED
      BY <1>4, <3>1, <3>2, <3>3 DEF GcMeta
  <2> QED
    BY <1>4, <2>1, SameHeard DEF GcMeta, Return, Idle, Created
<1>5. ASSUME NEW b \in Batches, ResumeBatch(b)
      PROVE  HeardOK'
  BY <1>5, SameHeard DEF ResumeBatch, Idle, Created
<1>6. ASSUME NEW k \in Created, NEW s \in 0 .. 3, s <= jobs[k].done, Retry(k, s)
      PROVE  HeardOK'
  <2>1. proc'.pc = "Start" /\ UNCHANGED <<cache, heard>>
    BY <1>6 DEF Retry, Idle
  <2>2. s >= 3 => s >= 2
    OBVIOUS
  <2> QED
    BY <1>6, <2>1, <2>2, TakenBackWork, SameHeard
<1>7. ASSUME NEW k \in Contents, GcData(k)
      PROVE  HeardOK'
  <2>1. \A c \in Contents : cache'[c].data \in {cache[c].data, NoFile}
    BY <1>7 DEF GcData, Typed, FilesTyped
  <2> QED
    BY <1>7, <2>1, SameHeard DEF GcData, Idle, Created
<1>8. ASSUME NEW m \in Media, ChangeSource(m)
      PROVE  HeardOK'
  BY <1>8, SameHeard DEF ChangeSource, Created
<1> QED
  BY <1>1, <1>2, <1>3, <1>4, <1>5, <1>6, <1>7, <1>8 DEF Next

LEMMA InitHeard == Init => HeardOK
BY DEF Init, HeardOK, Created, Idle

-----------------------------------------------------------------------------
(* The cache. *)

\* A step that leaves the cache alone, and either fails or is none that has
\* written half of an entry.
LEMMA SameCache ==
    ASSUME Typed, CacheOK, UNCHANGED cache, proc'.pc \notin {"PutData", "PutMeta"},
           faults' = faults + 1 \/ (UNCHANGED faults /\ proc.pc \notin {"PutMeta", "Gc"})
    PROVE  CacheOK'
<1>1. faults \in Nat
  BY DEF Typed, FilesTyped
<1>2. \A c \in Contents : Corrupt(c)' = Corrupt(c)
  BY DEF Corrupt, Present
<1>3. \A c \in Contents : Corrupt(c) => faults' >= 2
  BY <1>1 DEF CacheOK
<1>4. \A c \in Contents : cache[c].data = NoFile /\ cache[c].meta # NoFile => faults' >= 1
  BY <1>1 DEF CacheOK
<1> QED
  BY <1>2, <1>3, <1>4 DEF CacheOK, Contents

LEMMA WrittenEntry ==
    ASSUME Typed, NEW c \in Contents, NEW b \in Nat
    PROVE  /\ cache' = [cache EXCEPT ![c].data = b] =>
                cache'[c].data = b /\ cache'[c].meta = cache[c].meta
           /\ cache' = [cache EXCEPT ![c].meta = b] =>
                cache'[c].meta = b /\ cache'[c].data = cache[c].data
BY DEF Typed, FilesTyped

LEMMA RunningCache ==
    ASSUME Typed, AudioOK, CacheOK, Running
    PROVE  CacheOK'
<1>0. proc.pc \in PcOfJob /\ faults \in Nat
  BY DEF Running, Probe, ReuseAudio, Ffmpeg, CommitWav, CommitManifest, ReadCache, PutData, PutMeta, Export,
     StepFails, PcOfJob, Typed, FilesTyped
<1>1. CASE Probe \/ ReuseAudio
  BY <1>1, SameCache, BetweenJobs DEF Probe, ReuseAudio, Goes, JobFails, files, Typed, ProcTyped
<1>2. CASE Ffmpeg
  BY <1>2, SameCache DEF Ffmpeg, Writes, MayFail, files, Typed, ProcTyped
<1>3. CASE CommitWav \/ CommitManifest
  BY <1>3, SameCache, BetweenJobs DEF CommitWav, CommitManifest, Goes, JobFails, files, Typed,
     ProcTyped
<1>4. CASE ReadCache
  <2>1. CASE JobFails
    BY <1>4, <2>1, SameCache, BetweenJobs DEF ReadCache, JobFails, files
  <2>2. ASSUME NEW b, Puts(b),
               Present(Key) => cache[Key].data = b /\ cache[Key].meta = b
        PROVE  CacheOK'
    <3>1. proc'.pc = "PutData" /\ proc'.bytes = b /\ proc'.key = Key
      BY <2>2 DEF Puts, Typed, ProcTyped
    <3>2. UNCHANGED <<cache, faults>> /\ proc.pc = "Chunk"
      BY <1>4 DEF ReadCache, files
    <3>3. \A c : Corrupt(c)' = Corrupt(c) /\ Present(c)' = Present(c)
      BY <3>2 DEF Corrupt, Present
    <3> QED
      BY <2>2, <3>1, <3>2, <3>3 DEF CacheOK, Contents
  <2> QED
    BY <1>4, <2>1, <2>2 DEF ReadCache, Corrupt
<1>5. CASE PutData
  <2>0. PICK k \in Contents : k = proc.key
    BY <1>5 DEF PutData, Typed, ProcTyped
  <2>1. k \in Contents /\ proc.bytes \in Nat /\ cache' = [cache EXCEPT ![k].data = proc.bytes]
    BY <1>5, <2>0 DEF PutData, Typed, ProcTyped
  <2>2. proc'.pc = "PutMeta" /\ proc'.key = k /\ proc'.bytes = proc.bytes
    BY <1>5, <2>0 DEF PutData, Goes, Typed, ProcTyped
  <2>3. cache'[k].data = proc.bytes /\ cache'[k].meta = cache[k].meta
    BY <2>1, WrittenEntry
  <2>4. UNCHANGED faults /\ proc.pc = "PutData" /\ proc.bytes # NoFile
    BY <1>5 DEF PutData, Typed, ProcTyped
  <2>5. \A c \in Contents : c # k => cache'[c] = cache[c]
    BY <2>1 DEF Typed, FilesTyped
  <2>6. Corrupt(k)' => faults >= 1
    <3>1. CASE Present(k)
      BY <2>0, <2>3, <2>4, <3>1 DEF CacheOK, Corrupt
    <3>2. CASE ~Present(k)
      BY <2>0, <2>3, <2>4, <3>2 DEF CacheOK, Corrupt, Present
    <3> QED
      BY <3>1, <3>2
  <2>7. \A c \in Contents : c # k => (Corrupt(c)' => faults >= 2)
    BY <2>4, <2>5 DEF CacheOK, Corrupt, Present
  <2>8. \A c \in Contents : c # k /\ cache[c].data = NoFile /\ cache[c].meta # NoFile => faults >= 1
    BY <2>4 DEF CacheOK
  <2> QED
    BY <1>0, <2>2, <2>3, <2>4, <2>5, <2>6, <2>7, <2>8 DEF CacheOK, Contents
<1>6. CASE PutMeta
  <2>0. PICK k \in Contents : k = proc.key
    BY <1>6 DEF PutMeta, Typed, ProcTyped
  <2>1. k \in Contents /\ proc.bytes \in Nat /\ cache' = [cache EXCEPT ![k].meta = proc.bytes]
    BY <1>6, <2>0 DEF PutMeta, Typed, ProcTyped
  <2>2. proc'.pc = "Export" /\ UNCHANGED faults
    BY <1>6 DEF PutMeta, Goes, Typed, ProcTyped
  <2>3. cache'[k].meta = proc.bytes /\ cache'[k].data = proc.bytes
    BY <1>6, <2>0, <2>1, WrittenEntry DEF CacheOK, PutMeta
  <2>4. proc.pc = "PutMeta"
    BY <1>6 DEF PutMeta
  <2>5. \A c \in Contents : c # k => cache'[c] = cache[c]
    BY <2>1 DEF Typed, FilesTyped
  <2>6. \A c \in Contents : Corrupt(c)' => faults >= 2
    BY <2>0, <2>3, <2>4, <2>5 DEF CacheOK, Corrupt, Present
  <2>7. \A c \in Contents : cache'[c].data = NoFile /\ cache'[c].meta # NoFile => faults >= 1
    BY <2>0, <2>3, <2>4, <2>5 DEF CacheOK
  <2> QED
    BY <2>2, <2>6, <2>7 DEF CacheOK, Contents
<1>7. CASE Export
  BY <1>7, SameCache, BetweenJobs DEF Export
<1>8. CASE StepFails
  BY <1>8, SameCache, BetweenJobs DEF StepFails, MayFail, JobFails, files
<1> QED
  BY <1>1, <1>2, <1>3, <1>4, <1>5, <1>6, <1>7, <1>8 DEF Running

LEMMA OtherCache ==
    ASSUME Typed, CacheOK, Next, ~Running
    PROVE  CacheOK'
<1> USE DEF MayFail, files, Goes, Return, Idle
<1>1. CASE Creating
  <2>1. CASE BeginBatch \/ InsertRow
    BY <2>1, SameCache DEF BeginBatch, InsertRow, Typed, ProcTyped
  <2>2. CASE PlanFile
    <3>1. UNCHANGED <<cache, faults, proc>> /\ proc.pc = "Plan"
      BY <2>2 DEF PlanFile
    <3> QED
      BY <3>1, SameCache
  <2>3. CASE PlanRefused
    <3>1. UNCHANGED cache /\ proc.pc = "Plan" /\ proc'.pc = "Idle"
      BY <2>3 DEF PlanRefused
    <3>2. faults' = faults + 1 \/ UNCHANGED faults
      BY <2>3 DEF PlanRefused
    <3> QED
      BY <3>1, <3>2, SameCache
  <2>4. CASE CommitGraph
    BY <2>4, SameCache DEF CommitGraph
  <2>5. CASE RollBack
    BY <2>5, SameCache DEF RollBack
  <2> QED
    BY <1>1, <2>1, <2>2, <2>3, <2>4, <2>5 DEF Creating
<1>2. CASE GcMeta
  <2>0. PICK k \in Contents : k = proc.key
    BY <1>2 DEF GcMeta, Typed, ProcTyped
  <2>1. CASE cache' = [cache EXCEPT ![proc.key] = CollectedMeta(proc.key)] /\ UNCHANGED faults
    <3>1. proc.pc = "Gc" /\ proc'.pc = "Idle"
      BY <1>2 DEF GcMeta, Typed, ProcTyped
    <3>2. cache'[k].meta = NoFile
      BY <2>0, <2>1 DEF CollectedMeta, Typed, FilesTyped
    <3>3. \A c \in Contents : c # k => cache'[c] = cache[c]
      BY <2>0, <2>1 DEF Typed, FilesTyped
    <3>4. \A c \in Contents : Corrupt(c)' => faults >= 2
      BY <2>0, <3>1, <3>2, <3>3 DEF CacheOK, Corrupt, Present
    <3>5. \A c \in Contents : cache'[c].data = NoFile /\ cache'[c].meta # NoFile => faults >= 1
      BY <2>0, <3>1, <3>2, <3>3 DEF CacheOK
    <3> QED
      BY <2>1, <3>1, <3>4, <3>5 DEF CacheOK, Contents
  <2>2. CASE MayFail /\ UNCHANGED cache
    BY <1>2, <2>2, SameCache DEF GcMeta
  <2> QED
    BY <1>2, <2>1, <2>2 DEF GcMeta
<1>3. CASE TakeJob \/ LeaveBatch \/ Crash
  BY <1>3, SameCache, TakesJob DEF LeaveBatch, Crash
<1>4. ASSUME \/ \E b \in Batches : ResumeBatch(b)
             \/ \E k \in Created, s \in 0 .. 3 : Retry(k, s)
      PROVE  CacheOK'
  BY <1>4, SameCache DEF ResumeBatch, Retry
<1>5. ASSUME NEW k \in Contents, GcData(k)
      PROVE  CacheOK'
  <2>1. proc'.pc = "Gc" /\ proc'.key = k /\ proc.pc = "Idle" /\ UNCHANGED faults
    BY <1>5 DEF GcData
  <2>2. cache' = [cache EXCEPT ![k].data = NoFile] /\ NoFile \in Nat
    BY <1>5 DEF GcData, NoFile
  <2>3. cache'[k].data = NoFile
    BY <2>2, WrittenEntry
  <2>4. \A c \in Contents : c # k => cache'[c] = cache[c]
    BY <2>2 DEF Typed, FilesTyped
  <2>5. \A c \in Contents : Corrupt(c)' => faults >= 2
    BY <2>1, <2>3, <2>4 DEF CacheOK, Corrupt, Present
  <2>6. \A c \in Contents : c # k /\ cache'[c].data = NoFile /\ cache'[c].meta # NoFile => faults >= 1
    BY <2>1, <2>4 DEF CacheOK
  <2> QED
    BY <2>1, <2>5, <2>6 DEF CacheOK, Contents
<1>6. ASSUME NEW m \in Media, ChangeSource(m)
      PROVE  CacheOK'
  BY <1>6, SameCache DEF ChangeSource
<1> QED
  BY <1>1, <1>2, <1>3, <1>4, <1>5, <1>6 DEF Next

LEMMA InitCache == Init => CacheOK
BY DEF Init, CacheOK, Corrupt, Present, Idle

-----------------------------------------------------------------------------
(* The rows of a new Batch. *)

\* The order of create_batch_graph: n snapshots, the Batch, n Jobs.
LEMMA GraphRows ==
    ASSUME NEW n \in Nat, n = Len(draft.members)
    PROVE  /\ Len(Graph) = n + 1 + n
           /\ \A i \in 1 .. n : Graph[i] = Row("Snapshot", JobOf(i))
           /\ Graph[n + 1] = Row("Batch", draft.batch)
           /\ \A i \in 1 .. n : Graph[n + 1 + i] = Row("Job", JobOf(i))
<1> DEFINE snapshots == [i \in 1 .. n |-> Row("Snapshot", JobOf(i))]
           batch == <<Row("Batch", draft.batch)>>
           work == [i \in 1 .. n |-> Row("Job", JobOf(i))]
           S == {snapshots[i] : i \in 1 .. n} \union {work[i] : i \in 1 .. n}
                  \union {Row("Batch", draft.batch)}
<1>1. snapshots \in Seq(S) /\ work \in Seq(S)
  BY SeqDef
<1>2. batch \in Seq(S) /\ Len(batch) = 1 /\ batch[1] = Row("Batch", draft.batch)
  OBVIOUS
<1>3. Len(snapshots) = n /\ Len(work) = n
  BY <1>1, LenProperties
<1>4. Graph = (snapshots \o batch) \o work
  BY DEF Graph
<1>5. /\ \A i \in 1 .. n : snapshots[i] = Row("Snapshot", JobOf(i))
      /\ \A i \in 1 .. n : work[i] = Row("Job", JobOf(i))
  OBVIOUS
<1> HIDE DEF snapshots, batch, work, S
<1>6. /\ snapshots \o batch \in Seq(S) /\ Len(snapshots \o batch) = n + 1
      /\ \A i \in 1 .. n + 1 : (snapshots \o batch)[i] = IF i <= n THEN snapshots[i] ELSE batch[i - n]
  <2>1. /\ snapshots \o batch \in Seq(S)
        /\ Len(snapshots \o batch) = Len(snapshots) + Len(batch)
        /\ \A i \in 1 .. Len(snapshots) + Len(batch) :
              (snapshots \o batch)[i] =
                IF i <= Len(snapshots) THEN snapshots[i] ELSE batch[i - Len(snapshots)]
    BY <1>1, <1>2, ConcatProperties, Zenon
  <2> QED
    BY <1>2, <1>3, <2>1
<1>7. /\ Len(Graph) = n + 1 + n
      /\ \A i \in 1 .. n + 1 + n :
            Graph[i] = IF i <= n + 1 THEN (snapshots \o batch)[i] ELSE work[i - (n + 1)]
  <2> DEFINE front == snapshots \o batch
  <2> HIDE DEF front
  <2>1. front \in Seq(S) /\ Len(front) = n + 1 /\ Graph = front \o work
    BY <1>4, <1>6 DEF front
  <2>2. /\ Len(front \o work) = Len(front) + Len(work)
        /\ \A i \in 1 .. Len(front) + Len(work) :
              (front \o work)[i] = IF i <= Len(front) THEN front[i] ELSE work[i - Len(front)]
    BY <1>1, <2>1, ConcatProperties, Zenon
  <2> QED
    BY <1>3, <2>1, <2>2 DEF front
<1>8. \A i \in 1 .. n : i \in 1 .. n + 1 + n /\ i <= n + 1 /\ i \in 1 .. n + 1 /\ i <= n
  OBVIOUS
<1>9. n + 1 \in 1 .. n + 1 + n /\ n + 1 \in 1 .. n + 1 /\ ~(n + 1 <= n) /\ (n + 1) - n = 1
  OBVIOUS
<1>10. \A i \in 1 .. n :
          /\ n + 1 + i \in 1 .. n + 1 + n
          /\ ~(n + 1 + i <= n + 1)
          /\ (n + 1 + i) - (n + 1) = i
  OBVIOUS
<1>11. \A i \in 1 .. n : Graph[i] = Row("Snapshot", JobOf(i))
  BY <1>5, <1>6, <1>7, <1>8
<1>12. Graph[n + 1] = Row("Batch", draft.batch)
  BY <1>2, <1>6, <1>7, <1>9, SMTT(30)
<1>13. \A i \in 1 .. n : Graph[n + 1 + i] = Row("Job", JobOf(i))
  BY <1>5, <1>7, <1>10, SMTT(30)
<1> QED
  BY <1>7, <1>11, <1>12, <1>13

LEMMA GraphLength == Len(draft.members) \in Nat => Len(Graph) \in Nat
BY GraphRows

\* No row comes twice.
LEMMA DistinctRows ==
    ASSUME JobsTyped, DraftOK, NEW i \in 1 .. Len(Graph), NEW j \in 1 .. Len(Graph),
           Graph[i] = Graph[j]
    PROVE  i = j
<1>1. PICK n \in Nat : n = Len(draft.members)
  BY LenProperties DEF DraftOK
<1> DEFINE kind(x) == IF x <= n THEN "Snapshot" ELSE IF x = n + 1 THEN "Batch" ELSE "Job"
<1>2. Cardinality(Created) \in Nat
  BY NewNumbers
<1>3. \A x \in 1 .. n + 1 + n :
         \/ x \in 1 .. n
         \/ x = n + 1
         \/ x - (n + 1) \in 1 .. n /\ x = n + 1 + (x - (n + 1))
  OBVIOUS
<1>4. ASSUME NEW x \in 1 .. n + 1 + n
      PROVE  /\ Graph[x].kind = kind(x)
             /\ kind(x) = "Snapshot" => Graph[x].id = Cardinality(Created) + x
             /\ kind(x) = "Job" => Graph[x].id = Cardinality(Created) + (x - (n + 1))
  <2>1. CASE x \in 1 .. n
    <3>1. Graph[x] = Row("Snapshot", JobOf(x)) /\ kind(x) = "Snapshot"
      BY <1>1, <2>1, GraphRows
    <3> QED
      BY <3>1 DEF Row, JobOf
  <2>2. CASE x = n + 1
    <3>1. kind(x) = "Batch"
      BY <2>2
    <3> HIDE DEF kind
    <3>2. Graph[x] = Row("Batch", draft.batch)
      BY <1>1, <2>2, GraphRows
    <3>3. Graph[x].kind = "Batch"
      BY <3>2 DEF Row
    <3> QED
      BY <3>1, <3>3
  <2>3. CASE x - (n + 1) \in 1 .. n /\ x = n + 1 + (x - (n + 1))
    <3> DEFINE y == x - (n + 1)
    <3>1. y \in 1 .. n /\ x = n + 1 + y
      BY <2>3
    <3>2. kind(x) = "Job"
      BY <3>1
    <3> HIDE DEF y
    <3>3. Graph[n + 1 + y] = Row("Job", JobOf(y))
      BY <1>1, <3>1, GraphRows
    <3>4. Graph[x].kind = "Job" /\ Graph[x].id = Cardinality(Created) + y
      BY <3>1, <3>3 DEF Row, JobOf
    <3> QED
      BY <3>2, <3>4 DEF y
  <2> QED
    BY <1>3, <2>1, <2>2, <2>3
<1>5. i \in 1 .. n + 1 + n /\ j \in 1 .. n + 1 + n
  BY <1>1, GraphRows
<1>6. kind(i) = kind(j)
  BY <1>4, <1>5
<1>7. CASE kind(i) = "Snapshot"
  <2>1. Cardinality(Created) + i = Cardinality(Created) + j
    BY <1>4, <1>5, <1>6, <1>7
  <2> HIDE DEF kind
  <2> QED
    BY <1>2, <1>5, <2>1
<1>8. CASE kind(i) = "Batch"
  BY <1>6, <1>8
<1>9. CASE kind(i) = "Job"
  <2>1. Cardinality(Created) + (i - (n + 1)) = Cardinality(Created) + (j - (n + 1))
    BY <1>4, <1>5, <1>6, <1>9
  <2> HIDE DEF kind
  <2> QED
    BY <1>2, <1>5, <2>1
<1> QED
  BY <1>7, <1>8, <1>9

\* All of them together.
LEMMA GraphSet ==
    ASSUME DraftOK
    PROVE  {Graph[i] : i \in 1 .. Len(Graph)} =
             {Row("Snapshot", k) : k \in MembersOf} \union {Row("Batch", draft.batch)}
               \union {Row("Job", k) : k \in MembersOf}
<1>1. PICK n \in Nat : n = Len(draft.members) /\ DOMAIN draft.members = 1 .. n
  BY LenProperties DEF DraftOK
<1>2. MembersOf = {JobOf(i) : i \in 1 .. n}
  BY <1>1 DEF MembersOf
<1>3. \A x \in 1 .. n + 1 + n :
         x \in 1 .. n \/ x = n + 1 \/ \E i \in 1 .. n : x = n + 1 + i
  <2> SUFFICES ASSUME NEW x \in 1 .. n + 1 + n, ~(x \in 1 .. n), x # n + 1
               PROVE  \E i \in 1 .. n : x = n + 1 + i
    OBVIOUS
  <2>1. x - (n + 1) \in 1 .. n /\ x = n + 1 + (x - (n + 1))
    OBVIOUS
  <2> QED
    BY <2>1
<1>4. /\ \A i \in 1 .. n : i \in 1 .. n + 1 + n /\ n + 1 + i \in 1 .. n + 1 + n
      /\ n + 1 \in 1 .. n + 1 + n
  OBVIOUS
<1>5. Len(Graph) = n + 1 + n
  BY <1>1, GraphRows
<1>6. /\ \A i \in 1 .. n : Graph[i] = Row("Snapshot", JobOf(i))
      /\ Graph[n + 1] = Row("Batch", draft.batch)
      /\ \A i \in 1 .. n : Graph[n + 1 + i] = Row("Job", JobOf(i))
  BY <1>1, GraphRows
<1> QED
  BY <1>2, <1>3, <1>4, <1>5, <1>6

LEMMA BatchCount ==
    ASSUME RowsOK
    PROVE  IsFiniteSet(BatchRows) /\ Cardinality(BatchRows) \in Nat
BY FS_Subset, FS_CardinalityType DEF RowsOK, BatchRows

LEMMA NoDraftOK == JobsTyped /\ draft = NoDraft /\ ~Drafting => DraftOK
<1> SUFFICES ASSUME JobsTyped, draft = NoDraft, ~Drafting
             PROVE  DraftOK
  OBVIOUS
<1>1. PICK n \in 0 .. MaxJobs : Created = 1 .. n
  BY DEF JobsTyped
<1>2. n \in Nat /\ n <= MaxJobs /\ Cardinality(Created) = n
  BY <1>1, FS_Interval, MediaAssumption DEF MediaAssumption
<1>3. draft.members = <<>> /\ draft.members \in Seq(Member) /\ Len(draft.members) = 0
  BY EmptySeq DEF NoDraft
<1>4. Len(Graph) \in Nat
  BY <1>3, GraphRows
<1>5. IsFiniteSet(draft.tx) /\ Cardinality(draft.tx) = 0 /\ draft.tx = {}
  BY FS_EmptySet DEF NoDraft
<1>6. draft.reserved = Outs
  BY <1>3 DEF NoDraft, Outs
<1> QED
  BY <1>2, <1>3, <1>4, <1>5, <1>6 DEF DraftOK, NoDraft, Drafting

LEMMA Undrafted ==
    ASSUME Typed, DraftOK, Next, ~BeginBatch, ~PlanFile, ~InsertRow
    PROVE  draft' = NoDraft /\ ~Drafting'
<1> USE DEF Drafting, creation
<1>1. CASE PlanRefused \/ CommitGraph \/ RollBack
  <2>1. draft' = NoDraft
    BY <1>1 DEF PlanRefused, CommitGraph, RollBack
  <2>2. proc' = Idle \/ proc' = [Idle EXCEPT !.pc = "Next", !.todo = MembersOf]
    BY <1>1 DEF PlanRefused, CommitGraph, RollBack, Return
  <2>3. proc'.pc \in {"Idle", "Next"}
    <3>1. /\ \A todo : [Idle EXCEPT !.pc = "Next", !.todo = todo].pc = "Next"
          /\ Idle.pc = "Idle"
      BY DEF Idle
    <3> QED
      BY <2>2, <3>1
  <2> QED
    BY <2>1, <2>3
<1>2. CASE Running
  <2>1. UNCHANGED draft /\ proc.pc \in PcOfJob
    BY <1>2 DEF Running, Probe, ReuseAudio, Ffmpeg, CommitWav, CommitManifest, ReadCache, PutData, PutMeta,
       Export, StepFails, PcOfJob
  <2>2. draft = NoDraft
    BY <2>1 DEF DraftOK, PcOfJob
  <2>3. proc'.pc \notin {"Plan", "Insert"}
    <3> USE BetweenJobs DEF Goes, JobFails, Typed, ProcTyped
    <3>1. CASE Probe \/ ReuseAudio \/ CommitWav
      BY <3>1 DEF Probe, ReuseAudio, CommitWav
    <3>2. CASE Ffmpeg \/ CommitManifest
      BY <3>2 DEF Ffmpeg, Writes, CommitManifest
    <3>3. CASE ReadCache
      <4>1. JobFails \/ \E b : Puts(b)
        BY <3>3 DEF ReadCache
      <4>2. ASSUME NEW b, Puts(b)
            PROVE  proc'.pc = "PutData"
        BY <4>2 DEF Puts
      <4> QED
        BY <4>1, <4>2
    <3>4. CASE PutData \/ PutMeta \/ Export \/ StepFails
      BY <3>4 DEF PutData, PutMeta, Export, StepFails
    <3> QED
      BY <1>2, <3>1, <3>2, <3>3, <3>4 DEF Running
  <2> QED
    BY <2>1, <2>2, <2>3
<1>3. CASE TakeJob \/ LeaveBatch \/ GcMeta \/ Crash
  <2>1. \/ UNCHANGED draft /\ proc.pc \in {"Next", "Gc"} /\ proc'.pc \in {"Start", "Idle"}
        \/ draft' = NoDraft /\ proc'.pc = "Idle"
    BY <1>3, TakesJob DEF LeaveBatch, GcMeta, Crash, Return, Idle
  <2> QED
    BY <2>1 DEF DraftOK
<1>4. ASSUME \/ \E b \in Batches : ResumeBatch(b)
             \/ \E k \in Created, s \in 0 .. 3 : Retry(k, s)
      PROVE  draft' = NoDraft /\ ~Drafting'
  BY <1>4 DEF ResumeBatch, Retry, Idle, DraftOK
<1>5. ASSUME NEW c \in Contents, GcData(c)
      PROVE  draft' = NoDraft /\ ~Drafting'
  BY <1>5 DEF GcData, Idle, DraftOK
<1>6. ASSUME NEW m \in Media, ChangeSource(m)
      PROVE  draft' = NoDraft /\ ~Drafting'
  BY <1>6 DEF ChangeSource, DraftOK
<1> QED
  BY <1>1, <1>2, <1>3, <1>4, <1>5, <1>6 DEF Next, Creating

\* The name that was planned, and where it goes.
LEMMA PlannedName ==
    ASSUME Typed, DraftOK, PlanFile
    PROVE  \E member \in Member :
              /\ draft' = [draft EXCEPT !.members = Append(draft.members, member),
                                        !.reserved = draft.reserved \union {member.out}]
              /\ member.out \notin draft.reserved
              /\ policy # "Overwrite" => outputs[member.out] = NoFile
<1>1. PICK m \in Media, n \in PlannedPath(draft.reserved) :
        draft' = [draft EXCEPT
                    !.members = Append(@, [media |-> m, out |-> n, stat |-> source[m].stat]),
                    !.reserved = @ \union {n}]
  BY DEF PlanFile
<1>2. policy \in {"Rename", "Fail", "Overwrite"} /\ 0 \in Names
  BY MediaAssumption DEF Typed, FilesTyped, MediaAssumption, Names
<1>3. /\ n \in Names /\ n \notin draft.reserved
      /\ policy # "Overwrite" => outputs[n] = NoFile
  <2>1. CASE policy = "Overwrite"
    BY <1>2, <2>1 DEF PlannedPath
  <2>2. CASE policy = "Fail"
    BY <1>2, <2>2 DEF PlannedPath, Taken
  <2>3. CASE policy = "Rename"
    BY <1>2, <2>3 DEF PlannedPath, Taken
  <2> QED
    BY <1>2, <2>1, <2>2, <2>3
<1> DEFINE member == [media |-> m, out |-> n, stat |-> source[m].stat]
<1>4. source[m].stat \in Contents
  BY DEF Typed, FilesTyped
<1>5. member \in Member /\ member.out = n
  BY <1>3, <1>4 DEF Member
<1> QED
  BY <1>1, <1>3, <1>5

LEMMA Reserved ==
    ASSUME DraftOK, NEW member \in Member,
           draft' = [draft EXCEPT !.members = Append(draft.members, member),
                                  !.reserved = draft.reserved \union {member.out}]
    PROVE  /\ draft'.members \in Seq(Member)
           /\ Len(draft'.members) = Len(draft.members) + 1
           /\ draft'.reserved = Outs'
           /\ draft'.batch = draft.batch /\ draft'.tx = draft.tx /\ DOMAIN draft' = DOMAIN draft
           /\ \A i \in 1 .. Len(draft.members) : draft'.members[i] = draft.members[i]
           /\ draft'.members[Len(draft.members) + 1] = member
<1>1. PICK n \in Nat : n = Len(draft.members) /\ DOMAIN draft.members = 1 .. n
  BY LenProperties DEF DraftOK
<1>2. /\ draft'.members = Append(draft.members, member)
      /\ draft'.reserved = draft.reserved \union {member.out}
      /\ draft'.batch = draft.batch /\ draft'.tx = draft.tx /\ DOMAIN draft' = DOMAIN draft
  BY DEF DraftOK
<1>3. draft.members \in Seq(Member)
  BY DEF DraftOK
<1>4. /\ draft'.members \in Seq(Member) /\ Len(draft'.members) = n + 1
      /\ DOMAIN draft'.members = 1 .. n + 1
      /\ \A i \in 1 .. n : draft'.members[i] = draft.members[i]
      /\ draft'.members[n + 1] = member
  BY <1>1, <1>2, <1>3
<1>5. draft'.reserved = Outs'
  <2>1. draft.reserved = {draft.members[i].out : i \in 1 .. n}
    BY <1>1 DEF DraftOK, Outs
  <2>2. Outs' = {draft'.members[i].out : i \in 1 .. n + 1}
    BY <1>4 DEF Outs
  <2>3. \A i \in 1 .. n + 1 : i \in 1 .. n \/ i = n + 1
    OBVIOUS
  <2>4. \A i \in 1 .. n : i \in 1 .. n + 1
    OBVIOUS
  <2> QED
    BY <1>2, <1>4, <2>1, <2>2, <2>3, <2>4
<1> QED
  BY <1>1, <1>2, <1>4, <1>5

LEMMA DraftStep ==
    ASSUME Typed, Typed', DraftOK, RowsOK, Next
    PROVE  DraftOK'
<1>1. CASE ~BeginBatch /\ ~PlanFile /\ ~InsertRow
  <2>1. (draft = NoDraft)' /\ (~Drafting)'
    BY <1>1, Undrafted
  <2>2. JobsTyped'
    BY DEF Typed
  <2> QED
    BY <2>1, <2>2, NoDraftOK, PTL
<1>2. CASE BeginBatch
  <2>1. draft = NoDraft
    BY <1>2 DEF BeginBatch, DraftOK, Drafting
  <2>2. draft' = [draft EXCEPT !.batch = Cardinality(BatchRows) + 1] /\ BatchRows' = BatchRows
    BY <1>2, <2>1 DEF BeginBatch, BatchRows
  <2>3. /\ draft'.members = draft.members /\ draft'.reserved = draft.reserved
        /\ draft'.tx = {} /\ draft'.batch = Cardinality(BatchRows) + 1
        /\ DOMAIN draft' = DOMAIN draft
    BY <2>1, <2>2 DEF NoDraft
  <2>4. proc'.pc = "Plan" /\ Created' = Created
    BY <1>2 DEF BeginBatch, Goes, Typed, ProcTyped, Created
  <2>5. (Len(draft.members) \in Nat)'
    BY <2>1, <2>3, EmptySeq DEF NoDraft
  <2>6. (Len(Graph) \in Nat)'
    BY <2>5, GraphLength, PTL
  <2> QED
    BY <2>2, <2>3, <2>4, <2>6, FS_EmptySet DEF DraftOK, Drafting, Outs
<1>3. CASE PlanFile
  <2>1. PICK member \in Member :
          draft' = [draft EXCEPT !.members = Append(draft.members, member),
                                 !.reserved = draft.reserved \union {member.out}]
    BY <1>3, PlannedName
  <2>2. proc'.pc = "Plan" /\ proc.pc = "Plan" /\ UNCHANGED <<rows, jobs>>
    BY <1>3 DEF PlanFile
  <2>3. Created' = Created /\ BatchRows' = BatchRows
    BY <2>2 DEF Created, BatchRows
  <2>4. /\ draft'.members \in Seq(Member)
        /\ Len(draft'.members) = Len(draft.members) + 1
        /\ draft'.reserved = Outs'
        /\ draft'.batch = draft.batch /\ draft'.tx = {} /\ DOMAIN draft' = DOMAIN draft
    BY <2>1, <2>2, Reserved DEF DraftOK
  <2>5. Len(draft.members) \in Nat /\ Cardinality(Created) \in Nat
    BY NewNumbers, LenProperties DEF DraftOK, Typed
  <2>6. Cardinality(Created') + Len(draft'.members) <= MaxJobs
    BY <1>3, <2>3, <2>4, <2>5, MediaAssumption DEF PlanFile, MediaAssumption
  <2>7. (Len(draft.members) \in Nat)'
    BY <2>4, <2>5
  <2>8. (Len(Graph) \in Nat)'
    BY <2>7, GraphLength, PTL
  <2>9. IsFiniteSet(draft'.tx) /\ Cardinality(draft'.tx) = 0
    BY <2>4, FS_EmptySet
  <2> QED
    BY <2>2, <2>3, <2>4, <2>6, <2>8, <2>9 DEF DraftOK, Drafting
<1>4. CASE InsertRow
  <2> DEFINE c == Cardinality(draft.tx)
             row == Graph[c + 1]
  <2>1. c \in Nat /\ c + 1 \in 1 .. Len(Graph) /\ Len(Graph) \in Nat /\ draft.members # <<>>
    <3>1. Len(Graph) \in Nat
      BY GraphLength, LenProperties DEF DraftOK
    <3> QED
      BY <1>4, <3>1, FS_CardinalityType DEF InsertRow, DraftOK
  <2>2. draft' = [draft EXCEPT !.tx = draft.tx \union {row}] /\ UNCHANGED <<rows, jobs>>
    BY <1>4 DEF InsertRow, Save
  <2>3. /\ draft'.members = draft.members /\ draft'.reserved = draft.reserved
        /\ draft'.batch = draft.batch /\ DOMAIN draft' = DOMAIN draft
        /\ draft'.tx = draft.tx \union {row}
    BY <2>2 DEF DraftOK
  <2>4. Created' = Created /\ BatchRows' = BatchRows /\ Outs' = Outs
    BY <2>2, <2>3 DEF Created, BatchRows, Outs
  <2>5. Graph' = Graph
    BY <2>3, <2>4 DEF Graph, Row, JobOf, MembersOf
  <2>6. proc'.pc = "Insert" /\ Drafting
    BY <1>4 DEF InsertRow, Goes, Drafting, Typed, ProcTyped
  <2>7. draft.tx = {Graph[i] : i \in 1 .. c}
    BY DEF DraftOK
  <2>8. row \notin draft.tx
    <3>1. ASSUME NEW i \in 1 .. c, Graph[i] = row
          PROVE  FALSE
      <4>1. i \in 1 .. Len(Graph) /\ i # c + 1
        BY <2>1
      <4> QED
        BY <2>1, <3>1, <4>1, DistinctRows DEF Typed
    <3> QED
      BY <2>7, <3>1
  <2>9. IsFiniteSet(draft'.tx) /\ Cardinality(draft'.tx) = c + 1
    <3> HIDE DEF row
    <3>1. IsFiniteSet(draft.tx)
      BY DEF DraftOK
    <3>2. /\ IsFiniteSet(draft.tx \union {row})
          /\ Cardinality(draft.tx \union {row}) = c + 1
      BY <2>8, <3>1, FS_AddElement
    <3> QED
      BY <2>3, <3>2
  <2>10. draft'.tx = {Graph[i] : i \in 1 .. c + 1}
    <3> HIDE DEF c
    <3>1. \A i \in 1 .. c + 1 : i \in 1 .. c \/ i = c + 1
      BY <2>1
    <3>2. \A i \in 1 .. c : i \in 1 .. c + 1
      BY <2>1
    <3>3. c + 1 \in 1 .. c + 1
      BY <2>1
    <3> QED
      BY <2>3, <2>7, <3>1, <3>2, <3>3
  <2>11. c + 1 <= Len(Graph)
    BY <2>1
  <2> QED
    BY <2>1, <2>3, <2>4, <2>5, <2>6, <2>9, <2>10, <2>11, ZenonT(60) DEF DraftOK, Drafting
<1> QED
  BY <1>1, <1>2, <1>3, <1>4

\* What the commit of a Batch adds to the rows that can be read.
LEMMA CommitRows ==
    ASSUME DraftOK, RowsOK, CommitGraph
    PROVE  /\ rows' = rows \union {Row("Snapshot", k) : k \in MembersOf}
                          \union {Row("Batch", draft.batch)}
                          \union {Row("Job", k) : k \in MembersOf}
           /\ BatchRows' = BatchRows \union {Row("Batch", draft.batch)}
           /\ draft.batch = Cardinality(BatchRows) + 1
           /\ Cardinality(BatchRows') = Cardinality(BatchRows) + 1
           /\ IsFiniteSet(rows')
<1>1. draft.tx = {Graph[i] : i \in 1 .. Len(Graph)} /\ rows' = rows \union draft.tx
  BY DEF DraftOK, CommitGraph
<1>2. rows' = rows \union {Row("Snapshot", k) : k \in MembersOf}
                   \union {Row("Batch", draft.batch)} \union {Row("Job", k) : k \in MembersOf}
  BY <1>1, GraphSet
<1>3. \A kind, i : Row(kind, i).kind = kind /\ Row(kind, i).batch = draft.batch
  BY DEF Row
<1>4. BatchRows' = BatchRows \union {Row("Batch", draft.batch)}
  BY <1>2, <1>3 DEF BatchRows
<1>5. draft.batch = Cardinality(BatchRows) + 1
  BY DEF DraftOK, CommitGraph, Drafting
<1>6. Row("Batch", draft.batch) \notin BatchRows
  BY <1>3, <1>5, BatchCount DEF RowsOK, BatchRows
<1>7. Cardinality(BatchRows') = Cardinality(BatchRows) + 1
  BY <1>4, <1>6, BatchCount, FS_AddElement
<1>8. IsFiniteSet(rows')
  BY <1>1, FS_Union DEF RowsOK, DraftOK
<1> QED
  BY <1>2, <1>4, <1>5, <1>7, <1>8

LEMMA RowsKept ==
    ASSUME Next, ~CommitGraph
    PROVE  UNCHANGED rows
BY DEF Next, Creating, BeginBatch, PlanFile, PlanRefused, InsertRow, Save, RollBack, Running, Probe,
   ReuseAudio, Ffmpeg, CommitWav, CommitManifest, ReadCache, PutData, PutMeta, Export, StepFails, TakeJob,
   LeaveBatch, GcMeta, Crash, ResumeBatch, Retry, GcData, ChangeSource, creation

LEMMA RowsStep ==
    ASSUME Typed, DraftOK, RowsOK, Next
    PROVE  RowsOK'
<1>1. CASE CommitGraph
  <2>1. Cardinality(BatchRows) \in Nat
    BY BatchCount
  <2>2. \A b \in 1 .. Cardinality(BatchRows) : b \in 1 .. Cardinality(BatchRows')
    BY <1>1, <2>1, CommitRows
  <2>3. draft.batch \in 1 .. Cardinality(BatchRows')
    BY <1>1, <2>1, CommitRows
  <2>4. \A r \in rows' : r \in rows \/ r.batch = draft.batch
    BY <1>1, CommitRows DEF Row
  <2>5. \A k \in Created' : (k \in Created /\ jobs'[k] = jobs[k]) \/ jobs'[k].batch = draft.batch
    <3>1. \A member : NewJob(member).batch = draft.batch
      BY DEF NewJob
    <3> QED
      BY <1>1, <3>1, CommitWrites DEF Typed, MembersOf
  <2> QED
    BY <1>1, <2>2, <2>3, <2>4, <2>5, CommitRows DEF RowsOK
<1>2. CASE ~CommitGraph
  <2>1. UNCHANGED rows
    BY <1>2, RowsKept
  <2>2. Created' = Created /\ \A k \in Created : jobs'[k].batch = jobs[k].batch
    BY <1>2, RunningWrites, OthersWrite, FileStays DEF SameFile, Typed
  <2> QED
    BY <2>1, <2>2 DEF RowsOK, BatchRows
<1> QED
  BY <1>1, <1>2

\* A Batch that can be resumed still can when another has been created.
LEMMA GraphStep ==
    ASSUME Typed, DraftOK, RowsOK, GraphWhole, Next
    PROVE  GraphWhole'
<1>1. CASE CommitGraph
  <2> DEFINE b0 == Row("Batch", draft.batch)
  <2>1. /\ \A r \in rows' :
              \/ r \in rows \union {b0}
              \/ \E k \in MembersOf : r \in {Row("Snapshot", k), Row("Job", k)}
        /\ rows \subseteq rows' /\ b0 \in rows'
        /\ \A k \in MembersOf : Row("Snapshot", k) \in rows' /\ Row("Job", k) \in rows'
    BY <1>1, CommitRows
  <2>2. /\ \A kind, k : Row(kind, k).kind = kind /\ Row(kind, k).id = k
                        /\ Row(kind, k).batch = draft.batch
        /\ b0.kind = "Batch" /\ b0.batch = draft.batch /\ b0.members = MembersOf
    BY DEF Row
  <2>3. \A r \in rows : r.batch # draft.batch
    BY <1>1, CommitRows, BatchCount DEF RowsOK
  <2>4. Created' = Created \union MembersOf
    BY <1>1, CommitWrites DEF Typed
  <2> HIDE DEF b0
  <2>5. \A r \in rows' : \E b \in rows' : b.kind = "Batch" /\ b.batch = r.batch
    BY <2>1, <2>2 DEF GraphWhole
  <2>6. ASSUME NEW b \in rows, b.kind = "Batch"
        PROVE  ValidResumeGraph(b)'
    <3>1. ValidResumeGraph(b)
      BY <2>6 DEF GraphWhole
    <3>2. SnapshotsOf(b)' = SnapshotsOf(b)
      BY <2>1, <2>2, <2>3 DEF SnapshotsOf
    <3>3. \A member : HasJob(b, member) => HasJob(b, member)'
      BY <2>1 DEF HasJob
    <3> QED
      BY <3>1, <3>2, <3>3 DEF ValidResumeGraph
  <2>7. MembersOf # {}
    <3>1. draft.members # <<>> /\ draft.members \in Seq(Member)
      BY <1>1 DEF DraftOK, CommitGraph
    <3>2. 1 \in DOMAIN draft.members
      BY <3>1, EmptySeq, LenProperties
    <3> QED
      BY <3>2 DEF MembersOf
  <2>8. ASSUME NEW b, b = b0
        PROVE  ValidResumeGraph(b)'
    <3>1. b.members = MembersOf /\ b.batch = draft.batch
      BY <2>2, <2>8
    <3>2. SnapshotsOf(b)' = {Row("Snapshot", k) : k \in MembersOf}
      BY <2>1, <2>2, <2>3, <3>1 DEF SnapshotsOf
    <3>3. {s.id : s \in SnapshotsOf(b)'} = MembersOf
      BY <2>2, <3>2
    <3>4. \A member \in MembersOf : HasJob(b, member)'
      BY <2>1, <2>2, <3>1 DEF HasJob
    <3> QED
      BY <2>7, <3>1, <3>3, <3>4 DEF ValidResumeGraph
  <2>9. \A b \in rows' : b.kind = "Batch" => ValidResumeGraph(b)'
    BY <2>1, <2>2, <2>6, <2>8
  <2>10. {r.id : r \in {x \in rows' : x.kind = "Job"}} = Created'
    BY <2>1, <2>2, <2>4 DEF GraphWhole
  <2>11. {r.id : r \in {x \in rows' : x.kind = "Snapshot"}} = Created'
    BY <2>1, <2>2, <2>4 DEF GraphWhole
  <2> QED
    BY <2>5, <2>9, <2>10, <2>11 DEF GraphWhole
<1>2. CASE ~CommitGraph
  <2>1. UNCHANGED rows
    BY <1>2, RowsKept
  <2>2. Created' = Created
    BY <1>2, RunningWrites, OthersWrite, FileStays DEF Typed
  <2> QED
    BY <2>1, <2>2 DEF GraphWhole, ValidResumeGraph, SnapshotsOf, HasJob
<1> QED
  BY <1>1, <1>2

-----------------------------------------------------------------------------
(* The output names. *)

\* Nothing but a new Batch or an export touches what the names are about.
LEMMA NamesKept ==
    ASSUME NamesOK, UNCHANGED <<policy, outputs>>, Created' = Created,
           \A k \in Created : SameFile(jobs'[k], jobs[k]),
           draft'.members \in {draft.members, <<>>}
    PROVE  NamesOK'
<1>1. DOMAIN <<>> = {}
  OBVIOUS
<1> QED
  BY <1>1 DEF NamesOK, SameFile, Outs

LEMMA NamesStep ==
    ASSUME Typed, Typed', DraftOK, RowsOK, NamesOK, Next
    PROVE  NamesOK'
<1>0. UNCHANGED policy
  BY DEF Next, Creating, BeginBatch, PlanFile, PlanRefused, InsertRow, CommitGraph, RollBack,
     Running, Probe, ReuseAudio, Ffmpeg, CommitWav, CommitManifest, ReadCache, PutData, PutMeta, Export,
     StepFails, TakeJob, LeaveBatch, GcMeta, Crash, ResumeBatch, Retry, GcData, ChangeSource
<1>1. CASE PlanFile
  <2>1. PICK member \in Member :
          /\ draft' = [draft EXCEPT !.members = Append(draft.members, member),
                                    !.reserved = draft.reserved \union {member.out}]
          /\ member.out \notin draft.reserved
          /\ policy # "Overwrite" => outputs[member.out] = NoFile
    BY <1>1, PlannedName
  <2>2. PICK n \in Nat : n = Len(draft.members) /\ DOMAIN draft.members = 1 .. n
    BY LenProperties DEF DraftOK
  <2>3. /\ draft'.members \in Seq(Member) /\ Len(draft'.members) = n + 1
        /\ \A i \in 1 .. n : draft'.members[i] = draft.members[i]
        /\ draft'.members[n + 1] = member
        /\ draft'.reserved = Outs'
        /\ draft'.reserved = draft.reserved \union {member.out}
    BY <2>1, <2>2, Reserved DEF DraftOK
  <2>4. DOMAIN draft'.members = 1 .. n + 1
    BY <2>3, LenProperties
  <2>5. draft.reserved = Outs /\ \A i \in 1 .. n : draft.members[i].out \in draft.reserved
    BY <2>2 DEF DraftOK, Outs
  <2>6. Outs' = Outs \union {member.out}
    BY <2>3, <2>5
  <2>7. UNCHANGED <<outputs, jobs>> /\ Created' = Created
    BY <1>1 DEF PlanFile, files, Created
  <2>8. \A x \in 1 .. n + 1 : x \in 1 .. n \/ x = n + 1
    OBVIOUS
  <2>9. \A i, j \in DOMAIN draft'.members :
           draft'.members[i].out = draft'.members[j].out => i = j
    BY <2>1, <2>2, <2>3, <2>4, <2>5, <2>8 DEF NamesOK
  <2>10. \A x \in Names : outputs[x] = User /\ policy # "Overwrite" => x \notin Outs'
    BY <2>1, <2>6 DEF NamesOK, User, NoFile
  <2> QED
    BY <1>0, <2>7, <2>9, <2>10 DEF NamesOK
<1>2. CASE CommitGraph
  <2>1. /\ Created' = Created \union MembersOf
        /\ \A k \in Created : jobs'[k] = jobs[k]
        /\ \A i \in DOMAIN draft.members : jobs'[JobOf(i)] = NewJob(draft.members[i])
    BY <1>2, CommitWrites DEF Typed
  <2>2. UNCHANGED outputs /\ draft'.members = <<>> /\ DOMAIN draft'.members = {}
    BY <1>2 DEF CommitGraph, files, NoDraft
  <2>3. \A member : NewJob(member).out = member.out /\ NewJob(member).batch = draft.batch
    BY DEF NewJob
  <2>4. \A k \in Created : jobs[k].batch # draft.batch
    BY <1>2, CommitRows, BatchCount DEF RowsOK
  <2>5. /\ \A k \in MembersOf : k \notin Created /\ k # NoFile /\ k # User
        /\ \A k \in MembersOf : \E i \in DOMAIN draft.members : k = JobOf(i)
    <3>1. Len(draft.members) \in Nat
      BY LenProperties DEF DraftOK
    <3>2. \A k \in MembersOf : k >= 1 /\ k \in Nat /\ k \notin Created
      BY <3>1, NewNumbers DEF Typed
    <3> QED
      BY <3>2 DEF NoFile, User, MembersOf
  <2>6. \A n \in Names : outputs[n] \in Created' => outputs[n] \in Created
    BY <2>1, <2>5 DEF Typed
  <2>7. ASSUME NEW n \in Names, outputs[n] = User, policy # "Overwrite", NEW k \in Created'
        PROVE  jobs'[k].out # n
    <3>1. n \notin Outs /\ \A j \in Created : jobs[j].out # n
      BY <2>7 DEF NamesOK
    <3>2. CASE k \in MembersOf
      BY <2>1, <2>3, <2>5, <3>1, <3>2 DEF Outs
    <3> QED
      BY <2>1, <3>1, <3>2
  <2>8. ASSUME NEW j \in Created', NEW k \in Created',
               jobs'[j].batch = jobs'[k].batch, jobs'[j].out = jobs'[k].out
        PROVE  j = k
    <3>1. CASE j \in Created /\ k \in Created
      BY <2>1, <2>8, <3>1 DEF NamesOK
    <3>2. CASE j \in MembersOf /\ k \in MembersOf
      <4>1. PICK i \in DOMAIN draft.members : j = JobOf(i)
        BY <2>5, <3>2
      <4>2. PICK x \in DOMAIN draft.members : k = JobOf(x)
        BY <2>5, <3>2
      <4>3. draft.members[i].out = draft.members[x].out
        BY <2>1, <2>3, <2>8, <4>1, <4>2
      <4> QED
        BY <4>1, <4>2, <4>3 DEF NamesOK
    <3>3. CASE j \in Created /\ k \in MembersOf
      BY <2>1, <2>3, <2>4, <2>5, <2>8, <3>3
    <3>4. CASE j \in MembersOf /\ k \in Created
      BY <2>1, <2>3, <2>4, <2>5, <2>8, <3>4
    <3> QED
      BY <2>1, <3>1, <3>2, <3>3, <3>4
  <2>9. Outs' = {}
    BY <2>2 DEF Outs
  <2>10. \A n \in Names : outputs[n] \in Created' => jobs'[outputs[n]].out = n
    BY <2>1, <2>6 DEF NamesOK
  <2> QED
    BY <1>0, <2>2, <2>7, <2>8, <2>9, <2>10 DEF NamesOK
<1>3. CASE Export
  <2>1. proc.job \in Created /\ proc.job # User
    BY <1>3, JobAtHand DEF Export, PcOfJob, Typed, JobsTyped, User
  <2>2. Created' = Created /\ \A k \in Created : SameFile(jobs'[k], jobs[k])
    BY <1>3, RunningWrites, FileStays DEF Typed, Running
  <2>3. outputs' = [outputs EXCEPT ![Here.out] = proc.job] /\ UNCHANGED draft
    BY <1>3 DEF Export, creation
  <2>4. \A n \in Names : outputs'[n] = IF n = Here.out THEN proc.job ELSE outputs[n]
    BY <2>3 DEF Typed
  <2>5. \A n \in Names : outputs'[n] = User => outputs[n] = User
    BY <2>1, <2>4
  <2>6. \A n \in Names : outputs'[n] \in Created => jobs[outputs'[n]].out = n
    BY <2>4 DEF NamesOK, Here
  <2>7. \A n \in Names : outputs'[n] \in Created => jobs'[outputs'[n]].out = n
    BY <2>2, <2>6 DEF SameFile
  <2>8. Outs' = Outs
    BY <2>3 DEF Outs
  <2> QED
    BY <1>0, <2>2, <2>3, <2>5, <2>7, <2>8 DEF NamesOK, SameFile
<1>4. CASE ~PlanFile /\ ~CommitGraph /\ ~Export
  <2>1. UNCHANGED outputs
    BY <1>4 DEF Next, Creating, BeginBatch, PlanRefused, InsertRow, RollBack,
       Running, Probe, ReuseAudio, Ffmpeg, CommitWav, CommitManifest, ReadCache, PutData, PutMeta,
       StepFails, TakeJob, LeaveBatch, GcMeta, Crash, ResumeBatch, Retry, GcData, ChangeSource, files
  <2>2. Created' = Created /\ \A k \in Created : SameFile(jobs'[k], jobs[k])
    BY <1>4, RunningWrites, OthersWrite, FileStays DEF Typed
  <2>3. draft'.members \in {draft.members, <<>>}
    <3>1. CASE BeginBatch
      BY <3>1 DEF BeginBatch, NoDraft
    <3>2. CASE InsertRow
      BY <3>2 DEF InsertRow, Save, DraftOK
    <3>3. CASE ~BeginBatch /\ ~InsertRow
      BY <1>4, <3>3, Undrafted DEF NoDraft
    <3> QED
      BY <3>1, <3>2, <3>3
  <2> QED
    BY <1>0, <2>1, <2>2, <2>3, NamesKept
<1> QED
  BY <1>1, <1>2, <1>3, <1>4

\* An export finds its name free, or in the hands of another Batch.
LEMMA ExportStep ==
    ASSUME Typed, NamesOK, Next, NEW n \in Names, outputs'[n] # outputs[n]
    PROVE  \/ outputs[n] = NoFile
           \/ outputs[n] = User /\ policy = "Overwrite"
           \/ /\ outputs[n] \in Created
              /\ jobs[outputs[n]].batch # jobs[outputs'[n]].batch
<1>1. Export
  BY DEF Next, Creating, BeginBatch, PlanFile, PlanRefused, InsertRow, CommitGraph, RollBack,
     Running, Probe, ReuseAudio, Ffmpeg, CommitWav, CommitManifest, ReadCache, PutData, PutMeta,
     StepFails, TakeJob, LeaveBatch, GcMeta, Crash, ResumeBatch, Retry, GcData, ChangeSource, files
<1>2. n = Here.out /\ outputs'[n] = proc.job /\ proc.job \in Created
  BY <1>1, JobAtHand DEF Export, Typed, PcOfJob
<1>3. outputs[n] \in {NoFile, User} \union Created
  BY DEF Typed
<1>4. CASE outputs[n] = User
  BY <1>2, <1>4 DEF NamesOK, Here
<1>5. CASE outputs[n] \in Created
  <2>1. jobs[outputs[n]].out = jobs[proc.job].out /\ outputs[n] # proc.job
    BY <1>2, <1>5 DEF NamesOK, Here
  <2> QED
    BY <1>2, <1>5, <2>1 DEF NamesOK
<1> QED
  BY <1>3, <1>4, <1>5

-----------------------------------------------------------------------------
(* The invariant, and what follows from it. *)

LEMMA InitInv == Init => MediaInv
<1> SUFFICES ASSUME Init PROVE MediaInv
  OBVIOUS
<1>1. Typed /\ AudioOK /\ HeardOK /\ CacheOK
  BY InitTyped, InitAudio, InitHeard, InitCache
<1>2. DraftOK
  BY <1>1, NoDraftOK DEF Init, Idle, Drafting, Typed
<1>3. RowsOK /\ GraphWhole
  BY FS_EmptySet DEF Init, RowsOK, GraphWhole, Created
<1>4. NamesOK
  <2>1. Created = {} /\ DOMAIN draft.members = {}
    BY DEF Init, Created, NoDraft
  <2> QED
    BY <2>1 DEF NamesOK, Outs
<1> QED
  BY <1>1, <1>2, <1>3, <1>4 DEF MediaInv

LEMMA StepInv == MediaInv /\ [Next]_vars => MediaInv'
<1> SUFFICES ASSUME MediaInv, [Next]_vars PROVE MediaInv'
  OBVIOUS
<1> USE DEF MediaInv
<1>1. CASE Next
  <2>1. Typed'
    BY <1>1, TypedStep
  <2>2. DraftOK' /\ RowsOK' /\ GraphWhole' /\ NamesOK'
    BY <1>1, <2>1, DraftStep, RowsStep, GraphStep, NamesStep
  <2>3. AudioOK' /\ HeardOK' /\ CacheOK'
    BY <1>1, <2>1, RunningAudio, OtherAudio, RunningHeard, OtherHeard, RunningCache, OtherCache
  <2> QED
    BY <2>1, <2>2, <2>3
<1>2. CASE UNCHANGED vars
  <2>1. Typed' /\ GraphWhole' /\ RowsOK'
    BY <1>2, ZenonT(60) DEF vars, Typed, JobsTyped, FilesTyped, ProcTyped, Created, RowsOK, GraphWhole,
       BatchRows, ValidResumeGraph, SnapshotsOf, HasJob
  <2>2. DraftOK' /\ NamesOK'
    <3>1. UNCHANGED <<draft, rows, jobs, proc, policy, outputs>>
      BY <1>2 DEF vars
    <3>2. Graph' = Graph /\ Created' = Created /\ Outs' = Outs /\ BatchRows' = BatchRows
      BY <3>1 DEF Created, Outs, BatchRows, Graph, Row, JobOf, MembersOf
    <3>3. DraftOK'
      BY <3>1, <3>2 DEF DraftOK, Drafting
    <3>4. NamesOK'
      BY <3>1, <3>2 DEF NamesOK
    <3> QED
      BY <3>3, <3>4
  <2>3. AudioOK' /\ HeardOK' /\ CacheOK'
    BY <1>2 DEF vars, AudioOK, HeardOK, TranscriptOf, CacheOK, Created, Here, Input, Audio, Corrupt,
       Present
  <2> QED
    BY <2>1, <2>2, <2>3
<1> QED
  BY <1>1, <1>2

\* The inductive invariant holds in every state, whatever dies or fails.
THEOREM MediaInvariant == Spec => []MediaInv
BY InitInv, StepInv, PTL DEF Spec

\* Every Batch whose row can be read has its Jobs and their snapshots, and
\* resume_batch.rs does not refuse it (create_batch_graph commits all or
\* nothing, and later Batches take no number that is taken).
THEOREM BatchesAreWhole == Spec => []GraphWhole
<1>1. MediaInv => GraphWhole
  BY DEF MediaInv
<1> QED
  BY <1>1, MediaInvariant, PTL

\* What a Job has extracted and the transcript it has, read from the cache or
\* not, are of the source whose hash it has probed (ensure_probe,
\* extract_audio_wav, ensure_extract, transcribe_asr), through crashes, retries
\* and replaced sources.
THEOREM AudioIsOfItsSource == Spec => []OneSource
<1>1. MediaInv => OneSource
  <2> SUFFICES ASSUME MediaInv, NEW k \in Created
               PROVE  /\ jobs[k].done >= 2 => jobs[k].extracted = jobs[k].probed
                      /\ jobs[k].done >= 3 => heard[jobs[k].asr] = jobs[k].probed
    BY DEF OneSource
  <2>1. jobs[k].done \in 0 .. 4
    BY DEF MediaInv, Typed, JobsTyped, JobType
  <2> QED
    BY <2>1 DEF MediaInv, AudioOK, HeardOK, TranscriptOf
<1> QED
  BY <1>1, MediaInvariant, PTL

\* One crash or failure leaves no cache entry that refuses every read
\* (put_bytes, read_if_present, gc): it takes a second one.
THEOREM CacheEntriesAreReadable == Spec => []CorruptNeedsTwoFaults
<1>1. MediaInv => CorruptNeedsTwoFaults
  BY DEF MediaInv, CacheOK, CorruptNeedsTwoFaults
<1> QED
  BY <1>1, MediaInvariant, PTL

\* No export replaces a file of the user, unless told to, or one of another Job
\* of its Batch (OutputPlanner::plan, write_export).
THEOREM OutputsAreSpared == Spec => ExportsSpareOthers
<1>1. MediaInv /\ [Next]_vars =>
        [\A n \in Names : outputs'[n] # outputs[n] =>
           \/ outputs[n] = NoFile
           \/ outputs[n] = User /\ policy = "Overwrite"
           \/ /\ outputs[n] \in Created
              /\ jobs[outputs[n]].batch # jobs[outputs'[n]].batch]_vars
  BY ExportStep DEF MediaInv
<1> QED
  BY <1>1, MediaInvariant, PTL DEF Spec, ExportsSpareOthers

=============================================================================
