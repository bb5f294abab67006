--------------------------- MODULE AsrWorkerProofs ----------------------------
(***************************************************************************)
(* Proofs about AsrWorker, for any number of calls, either kind of worker, *)
(* and all faults.                                                         *)
(*                                                                         *)
(* OneTranscriptionPerWorker: busy alone does not say it, for a thread     *)
(* that has spoken its last line is still the one busy stands for, until   *)
(* it clears the flag.  BusyIsHeld counts such threads as at work.         *)
(*                                                                         *)
(* AnswersAreTheirOwn: a line that is refused ends the session but not the *)
(* worker, so lines of earlier requests stay in the pipes.  Honest says    *)
(* that a Result in any of them, read or not, written or not, is one that  *)
(* its request has come to, and that a call reads only what is of its own. *)
(*                                                                         *)
(* SessionsSurvive: Orderly follows one request through the worker.  It is *)
(* in the pipe (Waiting), or a thread speaks for it (Hearing), or its last *)
(* line is said (Answered); cancels may stand anywhere beside it.  At most *)
(* one line is numbered but not written, so the numbers come in order      *)
(* although the helper numbers a line before it has stdout.                *)
(***************************************************************************)
EXTENDS AsrWorker, FiniteSetTheorems, SequenceTheorems, TLAPS

AtWork == {"Run", "Speak", "Ending", "Panicked"}

\* busy is set while a thread is at work, and there is but one such thread.
BusyIsHeld ==
    /\ DOMAIN worker = {"kind", "alive", "loaded", "busy", "targets", "seq"}
    /\ worker.busy \in BOOLEAN
    /\ DOMAIN thread = Requests
    /\ \A r \in Requests : thread[r] \in AtWork => worker.busy
    /\ \A r, s \in Requests : thread[r] \in AtWork /\ thread[s] \in AtWork => r = s

\* The end of the worker, by whatever cause, ends its threads.
LEMMA EndOfWorker ==
    ASSUME BusyIsHeld, WorkerEnds
    PROVE  BusyIsHeld'
BY DEF BusyIsHeld, WorkerEnds, AtWork

\* What leaves the threads alone, and busy and the fields of the worker.
LEMMA WorkerAlone ==
    ASSUME BusyIsHeld, DOMAIN worker' = DOMAIN worker, worker'.busy = worker.busy,
           UNCHANGED thread
    PROVE  BusyIsHeld'
BY DEF BusyIsHeld

\* A thread moves on: it was at work if it still is, and busy stays.
LEMMA ThreadMoves ==
    ASSUME BusyIsHeld, NEW req \in Requests, NEW pc, ThreadTo(req, pc),
           DOMAIN worker' = DOMAIN worker, worker'.busy = worker.busy,
           pc \in AtWork => thread[req] \in AtWork
    PROVE  BusyIsHeld'
BY DEF BusyIsHeld, ThreadTo

\* A thread ends its work, and busy with it.
LEMMA ThreadEnds ==
    ASSUME BusyIsHeld, NEW req \in Requests, NEW pc, ThreadTo(req, pc),
           DOMAIN worker' = DOMAIN worker, worker'.busy = FALSE,
           thread[req] \in AtWork, pc \notin AtWork
    PROVE  BusyIsHeld'
BY DEF BusyIsHeld, ThreadTo

\* Saying a line changes nothing of the worker but the number of lines.
LEMMA SayKeeps ==
    ASSUME NEW w, NEW writer, NEW type, NEW req, Say(w, writer, type, req),
           {"busy", "seq"} \subseteq DOMAIN w
    PROVE  DOMAIN worker' = DOMAIN w /\ worker'.busy = w.busy
BY DEF Say

LEMMA ReadingKeeps ==
    ASSUME BusyIsHeld, NEW type, NEW s, Continue(type, s)
    PROVE  BusyIsHeld'
<1>1. CASE UNCHANGED workerSide
  BY <1>1, WorkerAlone DEF workerSide
<1>2. CASE Drop
  BY <1>2, EndOfWorker DEF Drop
<1>3. UNCHANGED workerSide \/ Drop
  BY DEF Continue, Reads, TranscribeReads
<1> QED BY <1>1, <1>2, <1>3

LEMMA ClientKeeps ==
    ASSUME BusyIsHeld, ClientStep
    PROVE  BusyIsHeld'
<1>1. CASE Spawn
  BY <1>1, WorkerAlone DEF Spawn, BusyIsHeld
<1>2. CASE LoadModel
  BY <1>2, WorkerAlone, EndOfWorker DEF LoadModel, Drop, workerSide
<1>3. CASE TranscribeBegin \/ TranscribeRequest \/ TranscribeEnd
  BY <1>3, WorkerAlone DEF TranscribeBegin, TranscribeRequest, TranscribeEnd
<1>4. CASE ReadEnvelope
  BY <1>4, ReadingKeeps DEF ReadEnvelope
<1>5. CASE EndOfFile \/ ReadTimeout
  BY <1>5, ReadingKeeps DEF EndOfFile, ReadTimeout
<1> QED BY <1>1, <1>2, <1>3, <1>4, <1>5 DEF ClientStep

LEMMA WatchKeeps ==
    ASSUME BusyIsHeld, NEW c \in Calls, RequestCancel(c) \/ WatchStep(c)
    PROVE  BusyIsHeld'
BY WorkerAlone DEF RequestCancel, WatchStep, SeesToken, LoadsTarget, SendsCancel, GraceEnds

\* Of all requests, only a transcription touches busy, and only one that finds
\* it clear.
LEMMA RequestKeeps ==
    ASSUME BusyIsHeld, HandleLine
    PROVE  BusyIsHeld'
<1> DEFINE request == Head(requests)
<1>0. Dispatch(request)
  BY DEF HandleLine
<1>1. CASE HandleHello
  BY <1>1, SayKeeps, WorkerAlone DEF HandleHello, BusyIsHeld
<1>2. CASE HandleLoad(request.req)
  <2>1. PICK type \in LoadAnswers :
          Say([worker EXCEPT !.loaded = @ \/ type = "Result"], Reader, type, request.req)
    BY <1>2 DEF HandleLoad
  <2> DEFINE w == [worker EXCEPT !.loaded = @ \/ type = "Result"]
  <2>2. DOMAIN w = DOMAIN worker /\ w.busy = worker.busy /\ {"busy", "seq"} \subseteq DOMAIN w
    BY DEF BusyIsHeld
  <2>3. DOMAIN worker' = DOMAIN w /\ worker'.busy = w.busy
    BY <2>1, <2>2, SayKeeps
  <2> QED BY <1>2, <2>2, <2>3, WorkerAlone DEF HandleLoad
<1>3. CASE HandleUnload(request.req)
  <2>1. CASE Say(worker, Reader, "Error", request.req)
    BY <1>3, <2>1, SayKeeps, WorkerAlone DEF HandleUnload, BusyIsHeld
  <2>2. CASE Say([worker EXCEPT !.loaded = FALSE], Reader, "Result", request.req)
    <3> DEFINE w == [worker EXCEPT !.loaded = FALSE]
    <3>1. DOMAIN w = DOMAIN worker /\ w.busy = worker.busy
          /\ {"busy", "seq"} \subseteq DOMAIN w
      BY DEF BusyIsHeld
    <3>2. DOMAIN worker' = DOMAIN w /\ worker'.busy = w.busy
      BY <2>2, <3>1, SayKeeps
    <3> QED BY <1>3, <3>1, <3>2, WorkerAlone DEF HandleUnload
  <2> QED BY <1>3, <2>1, <2>2 DEF HandleUnload
<1>4. CASE HandleTranscribe(request.req)
  <2>1. CASE worker.busy \/ ~worker.loaded
    BY <1>4, <2>1, SayKeeps, WorkerAlone DEF HandleTranscribe, BusyIsHeld
  <2>2. CASE ~(worker.busy \/ ~worker.loaded)
    <3>1. /\ worker' = [worker EXCEPT !.busy = TRUE]
          /\ thread' = [thread EXCEPT ![request.req] = "Run"]
      BY <1>4, <2>2 DEF HandleTranscribe, Quiet
    <3>2. \A r \in Requests : thread[r] \notin AtWork
      BY <2>2 DEF BusyIsHeld
    <3> QED BY <3>1, <3>2 DEF BusyIsHeld
  <2> QED BY <2>1, <2>2
<1>5. CASE HandleCancel(request.req)
  BY <1>5, WorkerAlone DEF HandleCancel, Quiet, BusyIsHeld
<1>6. \/ HandleHello \/ HandleLoad(request.req) \/ HandleUnload(request.req)
      \/ HandleTranscribe(request.req) \/ HandleCancel(request.req)
  BY <1>0 DEF Dispatch
<1> QED BY <1>1, <1>2, <1>3, <1>4, <1>5, <1>6

\* A line that a thread says leaves the worker otherwise as it is.
LEMMA ThreadSays ==
    ASSUME BusyIsHeld, NEW req \in Requests, NEW pc, NEW type,
           Say(worker, req, type, req), ThreadTo(req, pc),
           pc \in AtWork => thread[req] \in AtWork
    PROVE  BusyIsHeld'
<1>1. {"busy", "seq"} \subseteq DOMAIN worker
  BY DEF BusyIsHeld
<1>2. DOMAIN worker' = DOMAIN worker /\ worker'.busy = worker.busy
  BY <1>1, SayKeeps
<1> QED BY <1>2, ThreadMoves

\* A thread gives up busy in the step in which it is no longer at work.
LEMMA ThreadKeeps ==
    ASSUME BusyIsHeld, NEW req \in Requests, ThreadStep(req)
    PROVE  BusyIsHeld'
<1>1. CASE RunTranscribe(req)
  <2>1. thread[req] \in AtWork
    BY <1>1 DEF RunTranscribe, Free, AtWork
  <2>2. CASE \E type \in {"Cancelled", "Error"}, pc \in AtWork :
                Say(worker, req, type, req) /\ ThreadTo(req, pc)
    BY <2>1, <2>2, ThreadSays
  <2>3. CASE Quiet(worker) /\ ThreadTo(req, "Panicked")
    BY <2>1, <2>3, ThreadMoves DEF Quiet
  <2> QED BY <1>1, <2>2, <2>3 DEF RunTranscribe, AtWork
<1>2. CASE SaySegment(req) \/ SayResult(req)
  BY <1>2, ThreadSays DEF SaySegment, SayResult, Free, AtWork
<1>3. CASE EndHelper(req)
  <2>1. PICK pc \in {"Ending", "Panicked"} :
          /\ Free(req, pc)
          /\ ThreadTo(req, IF pc = "Ending" THEN "Clearing" ELSE "ClearingPanic")
    BY <1>3 DEF EndHelper
  <2>2. DOMAIN worker' = DOMAIN worker /\ worker'.busy = FALSE
    BY <1>3 DEF EndHelper, Quiet, BusyIsHeld
  <2>3. thread[req] \in AtWork
    BY <2>1 DEF Free, AtWork
  <2>4. (IF pc = "Ending" THEN "Clearing" ELSE "ClearingPanic") \notin AtWork
    BY DEF AtWork
  <2> QED BY <2>1, <2>2, <2>3, <2>4, ThreadEnds
<1>4. CASE ClearTarget(req)
  <2>1. PICK pc \in {"Clearing", "ClearingPanic"} :
          ThreadTo(req, IF pc = "Clearing" THEN "Gone" ELSE "Crashed")
    BY <1>4 DEF ClearTarget
  <2>2. DOMAIN worker' = DOMAIN worker /\ worker'.busy = worker.busy
    BY <1>4 DEF ClearTarget, Quiet, BusyIsHeld
  <2>3. (IF pc = "Clearing" THEN "Gone" ELSE "Crashed") \notin AtWork
    BY DEF AtWork
  <2> QED BY <2>1, <2>2, <2>3, ThreadMoves
<1>5. CASE SayCrashed(req)
  BY <1>5, ThreadSays DEF SayCrashed, AtWork
<1>6. CASE EndPython(req)
  <2>1. DOMAIN worker' = DOMAIN worker /\ worker'.busy = FALSE
    BY <1>6 DEF EndPython, Quiet, BusyIsHeld
  <2>2. thread[req] \in AtWork /\ "Gone" \notin AtWork /\ ThreadTo(req, "Gone")
    BY <1>6 DEF EndPython, Free, AtWork
  <2> QED BY <2>1, <2>2, ThreadEnds
<1> QED BY <1>1, <1>2, <1>3, <1>4, <1>5, <1>6 DEF ThreadStep

\* No step of any actor makes a second thread work (HelperState.busy,
\* Worker._busy).
LEMMA BusyIsAlwaysHeld == Spec => []BusyIsHeld
<1>1. Init => BusyIsHeld
  BY DEF Init, BusyIsHeld, AtWork
<1>2. BusyIsHeld /\ [Next]_vars => BusyIsHeld'
  <2> SUFFICES ASSUME BusyIsHeld, [Next]_vars
               PROVE  BusyIsHeld'
    OBVIOUS
  <2>1. CASE ClientStep
    BY <2>1, ClientKeeps
  <2>2. CASE Transcribe \/ Close
    BY <2>2, WorkerAlone, EndOfWorker DEF Transcribe, Close, Drop, workerSide
  <2>3. CASE HandleLine
    BY <2>3, RequestKeeps
  <2>4. CASE Crash
    BY <2>4, EndOfWorker DEF Crash
  <2>5. CASE \E c \in Calls : RequestCancel(c) \/ WatchStep(c)
    BY <2>5, WatchKeeps
  <2>6. CASE \E w \in Writers : Write(w)
    BY <2>6, WorkerAlone DEF Write
  <2>7. CASE \E r \in Requests : ThreadStep(r)
    BY <2>7, ThreadKeeps
  <2>8. CASE UNCHANGED vars
    BY <2>8, WorkerAlone DEF vars
  <2> QED BY <2>1, <2>2, <2>3, <2>4, <2>5, <2>6, <2>7, <2>8 DEF Next
<1> QED BY <1>1, <1>2, PTL DEF Spec

\* "One active transcription per worker" (ADR 0003), also when the client has
\* given up on one and asks for the next, whatever the number of calls.
THEOREM OneTranscriptionPerWorker == Spec => []OneInference
<1> DEFINE Working == {r \in Requests : thread[r] \in {"Run", "Speak"}}
<1>1. BusyIsHeld => Cardinality(Working) <= 1
  <2> SUFFICES ASSUME BusyIsHeld
               PROVE  Cardinality(Working) <= 1
    OBVIOUS
  <2>1. CASE Working = {}
    BY <2>1, FS_EmptySet
  <2>2. ASSUME NEW r \in Working
        PROVE  Working = {r}
    BY <2>2 DEF BusyIsHeld, AtWork
  <2> QED BY <2>1, <2>2, FS_Singleton
<1>2. BusyIsHeld => OneInference
  BY <1>1 DEF OneInference
<1> QED BY <1>2, BusyIsAlwaysHeld, PTL

-----------------------------------------------------------------------------
(* What a call takes in. *)

Model == {1, MaxCalls + 2}
Transcribing == client.pc = "Read" /\ client.asked = "Transcribe"

\* A request for the model is none for a transcription; a result is one of the
\* model, or one a transcription has come to.
AskTypes == {"Hello", "Load", "Unload", "Transcribe", "Cancel"}
LineTypes == {"HelloOk", "Segment", "Torn", "None"} \union Terminals
Asked == {a \in [type : AskTypes, req : Nat] : a.type \in {"Load", "Unload"} => a.req \in Model}
Line == [type : LineTypes, req : Nat, seq : Nat]
TrueLines == {l \in Line : l.type = "Result" => l.req \in Model \union seen.produced}

Pipes ==
    /\ DOMAIN worker = {"kind", "alive", "loaded", "busy", "targets", "seq"}
    /\ worker.seq \in Nat /\ worker.alive \in BOOLEAN
    /\ requests \in Seq(Asked) /\ lines \in Seq(TrueLines) /\ out \in [Writers -> TrueLines]
    /\ DOMAIN seen = {"foreign", "produced", "disturbed"} /\ seen.disturbed \in BOOLEAN

WatchPcs == {"None", "Polling", "Firing", "Sending", "Grace", "Expired", "Over"}

\* While a call reads, the session tracks its request, and has met the worker.
Tracked ==
    /\ DOMAIN client = {"pc", "asked", "call"} /\ client.call \in 0 .. MaxCalls
    /\ Calling => client.call \in Calls
    /\ DOMAIN session = {"known", "next", "active", "terminal", "terminated"}
    /\ current \in Nat /\ watch \in [Calls -> [pc : WatchPcs, target : Nat]]
    /\ client.pc = "Send" \/ Transcribing => session.active = Awaited /\ ~session.terminal
    /\ \/ client.pc \in {"Load", "Ready", "Begin", "Send", "End"}
       \/ client.pc = "Read" /\ client.asked # "Hello"
       => session.known
    /\ DOMAIN answer = Calls
Honest == Pipes /\ Tracked /\ AnswerIsItsOwn

LEMMA RequestsDiffer ==
    ASSUME NEW c \in Calls
    PROVE  RequestOf(c) \in Requests /\ RequestOf(c) \in Nat /\ RequestOf(c) \notin Model
BY WorkerAssumption DEF WorkerAssumption, Calls, Requests, RequestOf, Model

LEMMA SeqOfMore ==
    ASSUME NEW A, NEW B, A \subseteq B, NEW s \in Seq(A)
    PROVE  s \in Seq(B)
OBVIOUS

\* The pipes are left alone, but for what is true of them anyway.
LEMMA PipesKept ==
    ASSUME Pipes, UNCHANGED <<worker, requests, lines, out>>, DOMAIN seen' = DOMAIN seen,
           seen'.produced = seen.produced, seen'.disturbed \in BOOLEAN
    PROVE  Pipes'
<1>1. TrueLines' = TrueLines
  BY DEF TrueLines
<1> QED
  BY <1>1 DEF Pipes

LEMMA PipesAsked ==
    ASSUME Pipes, NEW type \in AskTypes, NEW req \in Nat,
           type \in {"Load", "Unload"} => req \in Model,
           SendToWorker(type, req), UNCHANGED <<lines, out, seen>>,
           DOMAIN worker' = DOMAIN worker, worker'.seq = worker.seq, worker'.alive \in BOOLEAN
    PROVE  Pipes'
<1>1. [type |-> type, req |-> req] \in Asked
  BY DEF Asked
<1>2. requests' \in Seq(Asked)
  BY <1>1 DEF Pipes, SendToWorker
<1>3. TrueLines' = TrueLines
  BY DEF TrueLines
<1> QED
  BY <1>2, <1>3 DEF Pipes

LEMMA PipesEnded ==
    ASSUME Pipes, WorkerEnds, requests' \in Seq(Asked), lines' \in Seq(TrueLines),
           DOMAIN seen' = DOMAIN seen, seen'.produced = seen.produced, seen'.disturbed \in BOOLEAN
    PROVE  Pipes'
<1>1. TrueLines' = TrueLines
  BY DEF TrueLines
<1>2. NoLine \in TrueLines
  <2>1. NoLine \in Line
    BY DEF NoLine, Line, None, LineTypes
  <2>2. NoLine.type # "Result"
    BY DEF NoLine
  <2> QED
    BY <2>1, <2>2 DEF TrueLines
<1>3. out' \in [Writers -> TrueLines]
  BY <1>2 DEF WorkerEnds
<1>4. /\ DOMAIN worker' = DOMAIN worker /\ worker'.seq = worker.seq
      /\ worker'.alive = FALSE
  BY DEF WorkerEnds, Pipes
<1> QED
  BY <1>1, <1>3, <1>4 DEF Pipes

LEMMA Numbering ==
    ASSUME NEW number \in Nat
    PROVE  After(number) \in Nat
BY WorkerAssumption DEF WorkerAssumption, After

\* A line that is said.
LEMMA PipesSaid ==
    ASSUME Pipes, NEW w, DOMAIN w = DOMAIN worker, w.seq = worker.seq, w.alive = worker.alive,
           NEW writer, NEW type \in LineTypes, NEW req \in Nat, Say(w, writer, type, req),
           requests' \in Seq(Asked), DOMAIN seen' = DOMAIN seen, seen'.disturbed = seen.disturbed,
           seen.produced \subseteq seen'.produced,
           type = "Result" => req \in Model \union seen'.produced
    PROVE  Pipes'
<1> DEFINE line == [type |-> type, req |-> req, seq |-> w.seq]
<1>1. line \in TrueLines' /\ TrueLines \subseteq TrueLines'
  BY DEF TrueLines, Line, Pipes
<1>2. lines \in Seq(TrueLines') /\ out \in [Writers -> TrueLines']
  BY <1>1, SeqOfMore DEF Pipes
<1>3. /\ DOMAIN worker' = DOMAIN worker /\ worker'.seq = After(worker.seq)
      /\ worker'.seq \in Nat /\ worker'.alive = worker.alive
  BY Numbering DEF Say, Pipes
<1> HIDE DEF line
<1>4. \/ lines' = Append(lines, line) /\ UNCHANGED out
      \/ out' = [out EXCEPT ![writer] = line] /\ UNCHANGED lines
  BY DEF Say, line
<1>5. lines' \in Seq(TrueLines') /\ out' \in [Writers -> TrueLines']
  <2>1. CASE lines' = Append(lines, line) /\ UNCHANGED out
    <3>1. Append(lines, line) \in Seq(TrueLines')
      BY <1>1, <1>2, AppendProperties
    <3> QED
      BY <1>2, <2>1, <3>1
  <2>2. CASE out' = [out EXCEPT ![writer] = line] /\ UNCHANGED lines
    <3>1. [out EXCEPT ![writer] = line] \in [Writers -> TrueLines']
      BY <1>1, <1>2
    <3> QED
      BY <1>2, <2>2, <3>1
  <2> QED
    BY <1>4, <2>1, <2>2
<1> QED
  BY <1>3, <1>5 DEF Pipes

LEMMA PipesQuiet ==
    ASSUME Pipes, NEW w, DOMAIN w = DOMAIN worker, w.seq = worker.seq, w.alive = worker.alive,
           Quiet(w), requests' \in Seq(Asked), UNCHANGED seen
    PROVE  Pipes'
BY DEF Pipes, Quiet, TrueLines

\* What accept_envelope lets through is of the request at hand, and leaves the
\* session with it.
SessionFields == {"known", "next", "active", "terminal", "terminated"}
LEMMA Accepting ==
    ASSUME DOMAIN session = SessionFields, NEW line, NEW s, s = AcceptLine(session, line)
    PROVE  /\ DOMAIN s = SessionFields /\ s.active = session.active
           /\ session.known => s.known
           /\ line.type \notin Terminals /\ ~session.terminal => ~s.terminal
           /\ ~s.terminated =>
                 /\ line.type = "HelloOk" => s.known /\ ~session.known
                 /\ line.type # "HelloOk" /\ session.active # None => line.req = session.active
<1>1. CASE session.terminated \/ ~InOrder(session, line)
  <2>1. s = [session EXCEPT !.terminated = TRUE]
    BY <1>1 DEF AcceptLine
  <2> QED
    BY <2>1 DEF SessionFields
<1>2. CASE ~(session.terminated \/ ~InOrder(session, line))
  <2>1. s = [session EXCEPT !.next = After(@),
                            !.known = @ \/ line.type = "HelloOk",
                            !.terminal = @ \/ (session.active # None /\ line.type \in Terminals)]
    BY <1>2 DEF AcceptLine
  <2>2. /\ DOMAIN s = SessionFields /\ s.active = session.active
        /\ s.known <=> session.known \/ line.type = "HelloOk"
        /\ s.terminal <=> session.terminal \/ (session.active # None /\ line.type \in Terminals)
    BY <2>1 DEF SessionFields
  <2> QED
    BY <1>2, <2>2 DEF InOrder
<1> QED
  BY <1>1, <1>2

LEMMA OwnKept ==
    ASSUME AnswerIsItsOwn, seen'.foreign = {}, seen.produced \subseteq seen'.produced,
           \A c \in Calls : answer'[c] = "Ok" =>
                               answer[c] = "Ok" \/ RequestOf(c) \in seen'.produced
    PROVE  AnswerIsItsOwn'
BY DEF AnswerIsItsOwn

LEMMA ReadingHonest ==
    ASSUME Tracked, AnswerIsItsOwn, client.pc = "Read", NEW type, NEW s, Continue(type, s),
           UNCHANGED <<current, watch>>,
           DOMAIN s = SessionFields, s.active = session.active, session.known => s.known,
           type = "Segment" /\ ~session.terminal => ~s.terminal, type = "HelloOk" => s.known,
           type = "Result" /\ client.asked = "Transcribe" => Awaited \in seen.produced,
           seen'.foreign = {}, seen'.produced = seen.produced
    PROVE  Tracked' /\ AnswerIsItsOwn'
<1>1. CASE client.asked = "Transcribe"
  <2>1. /\ session' = s /\ client.call \in Calls
        /\ session.active = Awaited /\ ~session.terminal /\ session.known
    BY <1>1 DEF Continue, Tracked, Calling, Transcribing
  <2>2. CASE type = "Segment"
    <3>1. UNCHANGED <<client, answer>>
      BY <1>1, <2>2 DEF Continue, TranscribeReads
    <3> QED
      BY <1>1, <2>1, <2>2, <3>1, OwnKept
         DEF Tracked, Calling, Transcribing, Awaited, SessionFields
  <2>3. CASE type # "Segment"
    <3>1. PICK a : Answers(a) /\ (a = "Ok" => type = "Result")
      BY <1>1, <2>3 DEF Continue, TranscribeReads
    <3>2. /\ DOMAIN client' = DOMAIN client /\ client'.pc = "End" /\ client'.call = client.call
          /\ answer' = [answer EXCEPT ![client.call] = a]
      BY <3>1 DEF Answers, Tracked
    <3>3. Tracked'
      BY <2>1, <3>2 DEF Tracked, Calling, Transcribing, SessionFields
    <3>4. AnswerIsItsOwn'
      BY <1>1, <2>1, <3>1, <3>2, OwnKept DEF Tracked, Awaited
    <3> QED
      BY <3>3, <3>4
  <2> QED
    BY <2>2, <2>3
<1>2. CASE client.asked # "Transcribe"
  <2>1. /\ session' = (IF client.asked = "Hello" THEN s ELSE EndRequest(s))
        /\ Reads(type) /\ UNCHANGED answer
    BY <1>2 DEF Continue
  <2>2. AnswerIsItsOwn'
    BY <2>1, OwnKept
  <2>3. /\ DOMAIN session' = SessionFields /\ session'.known = s.known
    BY <2>1 DEF EndRequest, SessionFields
  <2>4. PICK pc : /\ client' = [client EXCEPT !.pc = pc] /\ pc \in {"Load", "Ready", "Closed"}
                  /\ pc = "Load" => client.asked = "Hello" /\ type = "HelloOk"
                  /\ pc = "Ready" => client.asked = "Load"
    BY <2>1 DEF Reads, Drop
  <2>5. /\ DOMAIN client' = DOMAIN client /\ client'.pc = pc /\ client'.call = client.call
    BY <2>4 DEF Tracked
  <2>6. client'.pc \in {"Load", "Ready"} => session'.known
    BY <2>3, <2>4, <2>5 DEF Tracked
  <2>7. Tracked'
    BY <2>1, <2>3, <2>4, <2>5, <2>6 DEF Tracked, Calling, Transcribing, SessionFields
  <2> QED
    BY <2>2, <2>7
<1> QED
  BY <1>1, <1>2

\* A read that brings nothing, because it timed out or the pipe is closed.
LEMMA NothingHonest ==
    ASSUME Honest, client.pc = "Read", Continue("Lost", session), UNCHANGED <<current, watch, requests>>,
           lines' \in Seq(TrueLines), DOMAIN seen' = DOMAIN seen, seen'.foreign = seen.foreign,
           seen'.produced = seen.produced, seen'.disturbed \in BOOLEAN
    PROVE  Honest'
<1>1. Tracked' /\ AnswerIsItsOwn'
  <2>1. DOMAIN session = SessionFields /\ seen'.foreign = {}
    BY DEF Honest, Tracked, SessionFields, AnswerIsItsOwn
  <2> QED
    BY <2>1, ReadingHonest DEF Honest
<1>2. Pipes'
  <2>1. CASE UNCHANGED workerSide
    BY <2>1 DEF workerSide, Honest, Pipes, TrueLines
  <2>2. CASE WorkerEnds
    BY <2>2, PipesEnded DEF Honest, Pipes
  <2> QED
    BY <2>1, <2>2 DEF Continue, Reads, TranscribeReads, Drop
<1> QED
  BY <1>1, <1>2 DEF Honest

LEMMA EnvelopeHonest ==
    ASSUME Honest, ReadEnvelope
    PROVE  Honest'
<1> DEFINE line == Head(lines)
           s == AcceptLine(session, line)
           type == IF s.terminated THEN "Lost" ELSE line.type
<1>1. /\ client.pc = "Read" /\ lines # <<>> /\ lines' = Tail(lines)
      /\ UNCHANGED <<current, watch, requests>> /\ Continue(type, s)
  BY DEF ReadEnvelope
<1>2. /\ DOMAIN session = SessionFields /\ lines \in Seq(TrueLines)
      /\ DOMAIN seen = {"foreign", "produced", "disturbed"} /\ seen.foreign = {}
  BY DEF Honest, Tracked, Pipes, SessionFields, AnswerIsItsOwn
<1>3. line \in TrueLines /\ lines' \in Seq(TrueLines)
  BY <1>1, <1>2, HeadTailProperties
<1> HIDE DEF line
<1>4. /\ DOMAIN s = SessionFields /\ s.active = session.active
      /\ session.known => s.known
      /\ line.type \notin Terminals /\ ~session.terminal => ~s.terminal
      /\ ~s.terminated =>
            /\ line.type = "HelloOk" => s.known /\ ~session.known
            /\ line.type # "HelloOk" /\ session.active # None => line.req = session.active
  BY <1>2, Accepting
<1>5. ~s.terminated /\ client.asked = "Transcribe" =>
         line.req = Awaited /\ Awaited \in Requests /\ Awaited \notin Model
  <2> SUFFICES ASSUME ~s.terminated, client.asked = "Transcribe"
               PROVE  line.req = Awaited /\ Awaited \in Requests /\ Awaited \notin Model
    OBVIOUS
  <2>1. session.known /\ session.active = Awaited /\ client.call \in Calls
    BY <1>1 DEF Honest, Tracked, Transcribing, Calling
  <2>2. Awaited \in Requests /\ Awaited \notin Model /\ Awaited # None
    BY <2>1, RequestsDiffer, WorkerAssumption DEF Awaited, None, Requests
  <2> QED
    BY <1>4, <2>1, <2>2
<1>6. /\ DOMAIN seen' = DOMAIN seen /\ seen'.foreign = {} /\ seen'.produced = seen.produced
      /\ seen'.disturbed = seen.disturbed
  <2>1. seen' = IF ~s.terminated /\ client.asked = "Transcribe"
                THEN [seen EXCEPT !.foreign = @ \union ({line.req} \ {Awaited})]
                ELSE seen
    BY DEF ReadEnvelope, line
  <2> QED
    BY <1>2, <1>5, <2>1
<1>7. type = "Result" /\ client.asked = "Transcribe" => Awaited \in seen.produced
  BY <1>3, <1>5 DEF TrueLines
<1>8. type = "Segment" /\ ~session.terminal => ~s.terminal
  BY <1>4 DEF Terminals
<1>9. type = "HelloOk" => s.known
  BY <1>4
<1> HIDE DEF type, s
<1>10. Tracked' /\ AnswerIsItsOwn'
  BY <1>1, <1>4, <1>6, <1>7, <1>8, <1>9, ReadingHonest DEF Honest
<1>11. Pipes'
  <2>1. CASE UNCHANGED workerSide
    BY <1>1, <1>3, <1>6, <2>1 DEF workerSide, Honest, Pipes, TrueLines
  <2>2. CASE WorkerEnds
    BY <1>1, <1>3, <1>6, <2>2, PipesEnded DEF Honest, Pipes
  <2> QED
    BY <1>1, <2>1, <2>2 DEF Continue, Reads, TranscribeReads, Drop
<1> QED
  BY <1>10, <1>11 DEF Honest

LEMMA LostHonest ==
    ASSUME Honest, EndOfFile \/ ReadTimeout
    PROVE  Honest'
<1>1. CASE EndOfFile
  BY <1>1, NothingHonest DEF EndOfFile, Honest, Pipes
<1>2. CASE ReadTimeout
  <2>1. lines' \in Seq(TrueLines)
    <3>1. CASE lines' = lines
      BY <3>1 DEF Honest, Pipes
    <3>2. CASE lines # <<>> /\ lines' = <<[Head(lines) EXCEPT !.type = "Torn"]>> \o Tail(lines)
      <4>1. Head(lines) \in TrueLines /\ Tail(lines) \in Seq(TrueLines)
        BY <3>2, HeadTailProperties DEF Honest, Pipes
      <4> DEFINE torn == [Head(lines) EXCEPT !.type = "Torn"]
      <4>2. torn \in TrueLines
        BY <4>1 DEF TrueLines, Line, LineTypes
      <4> HIDE DEF torn
      <4>3. <<torn>> \in Seq(TrueLines)
        BY <4>2
      <4>4. <<torn>> \o Tail(lines) \in Seq(TrueLines)
        BY <4>1, <4>3, ConcatProperties
      <4> QED
        BY <3>2, <4>4 DEF torn
    <3> QED
      BY <1>2, <3>1, <3>2 DEF ReadTimeout, TornLines
  <2>2. /\ DOMAIN seen' = DOMAIN seen /\ seen'.foreign = seen.foreign
        /\ seen'.produced = seen.produced /\ seen'.disturbed \in BOOLEAN
    BY <1>2 DEF ReadTimeout, Honest, Pipes
  <2> QED
    BY <1>2, <2>1, <2>2, NothingHonest DEF ReadTimeout
<1> QED
  BY <1>1, <1>2

\* The client says something, or turns to the next thing.
LEMMA AskingHonest ==
    ASSUME Honest, Spawn \/ LoadModel \/ TranscribeRequest \/ Close
    PROVE  Honest'
<1>1. AnswerIsItsOwn'
  <2>1. UNCHANGED seen /\ \A c \in Calls : answer'[c] = "Ok" => answer[c] = "Ok"
    BY DEF Spawn, LoadModel, TranscribeRequest, Close, Answers, Honest, Tracked
  <2> QED
    BY <2>1, OwnKept DEF Honest, AnswerIsItsOwn
<1>2. CASE Spawn
  <2>1. Tracked'
    BY <1>2 DEF Spawn, ReadFor, Honest, Tracked, Calling, Transcribing
  <2>2. None \in Nat /\ "Hello" \in AskTypes
    BY DEF None, AskTypes
  <2>3. Pipes'
    BY <1>2, <2>2, PipesAsked DEF Spawn, Honest, Pipes
  <2> QED
    BY <1>1, <2>1, <2>3 DEF Honest
<1>3. CASE LoadModel
  <2>1. Tracked'
    <3>1. /\ DOMAIN session' = DOMAIN session /\ session'.known = session.known
          /\ UNCHANGED <<current, watch, answer>> /\ session.known
      BY <1>3 DEF LoadModel, BeginRequest, Honest, Tracked
    <3>2. /\ DOMAIN client' = DOMAIN client /\ client'.call = client.call
          /\ client'.pc = "Closed" \/ (client'.pc = "Read" /\ client'.asked = "Load")
      BY <1>3 DEF LoadModel, ReadFor, Drop, Honest, Tracked
    <3> QED
      BY <3>1, <3>2 DEF Honest, Tracked, Calling, Transcribing
  <2>2. 1 \in Nat /\ 1 \in Model /\ "Load" \in AskTypes
    BY DEF Model, AskTypes
  <2>3. Pipes'
    <3>1. CASE SendToWorker("Load", 1) /\ UNCHANGED workerSide
      BY <1>3, <2>2, <3>1, PipesAsked DEF LoadModel, workerSide, Honest, Pipes
    <3>2. CASE WorkerEnds /\ UNCHANGED requests
      BY <1>3, <3>2, PipesEnded DEF LoadModel, Honest, Pipes
    <3> QED
      BY <1>3, <3>1, <3>2 DEF LoadModel, Drop
  <2> QED
    BY <1>1, <2>1, <2>3 DEF Honest
<1>4. CASE TranscribeRequest
  <2>1. client.pc = "Send" /\ UNCHANGED <<session, current, watch, lines, worker, out, seen>>
    BY <1>4 DEF TranscribeRequest
  <2>2. client.call \in Calls /\ Awaited \in Nat
    BY <2>1, RequestsDiffer DEF Honest, Tracked, Calling, Awaited
  <2>3. /\ DOMAIN client' = DOMAIN client /\ client'.call = client.call
        /\ client'.pc \in {"Read", "End"} /\ (client'.pc = "Read" => client'.asked = "Transcribe")
        /\ DOMAIN answer' = DOMAIN answer
    BY <1>4 DEF TranscribeRequest, ReadFor, Answers, Honest, Tracked
  <2>4. Tracked'
    BY <2>1, <2>2, <2>3 DEF Honest, Tracked, Calling, Transcribing, Awaited
  <2>5. Pipes'
    <3>1. CASE SendToWorker("Transcribe", Awaited)
      <4>1. "Transcribe" \in AskTypes
        BY DEF AskTypes
      <4> QED
        BY <2>1, <2>2, <3>1, <4>1, PipesAsked DEF Honest, Pipes
    <3>2. CASE UNCHANGED requests
      BY <2>1, <3>2, PipesKept DEF Honest, Pipes
    <3> QED
      BY <1>4, <3>1, <3>2 DEF TranscribeRequest
  <2> QED
    BY <1>1, <2>4, <2>5 DEF Honest
<1>5. CASE Close
  <2> DEFINE last == RequestOf(MaxCalls) + 1
  <2>1. last \in Nat /\ last \in Model /\ "Unload" \in AskTypes
    BY WorkerAssumption DEF WorkerAssumption, RequestOf, Model, AskTypes
  <2>2. UNCHANGED <<current, watch, lines, answer, seen>> /\ client.pc = "Ready"
    BY <1>5 DEF Close
  <2>3. CASE /\ SendToWorker("Unload", last) /\ session' = BeginRequest(session, last)
             /\ ReadFor("Unload") /\ UNCHANGED workerSide
    <3>1. Pipes'
      BY <2>1, <2>2, <2>3, PipesAsked DEF workerSide, Honest, Pipes
    <3>2. Tracked'
      BY <2>2, <2>3 DEF ReadFor, BeginRequest, Honest, Tracked, Calling, Transcribing
    <3> QED
      BY <1>1, <3>1, <3>2 DEF Honest
  <2>4. CASE Drop /\ UNCHANGED <<session, requests>>
    <3>1. Pipes'
      BY <2>2, <2>4, PipesEnded DEF Drop, Honest, Pipes
    <3>2. Tracked'
      BY <2>2, <2>4 DEF Drop, Honest, Tracked, Calling, Transcribing
    <3> QED
      BY <1>1, <3>1, <3>2 DEF Honest
  <2> QED
    BY <1>5, <2>3, <2>4 DEF Close
<1> QED
  BY <1>2, <1>3, <1>4, <1>5

\* A call, before it asks and after it has its answer.
LEMMA CallHonest ==
    ASSUME Honest, Transcribe \/ TranscribeBegin \/ TranscribeEnd
    PROVE  Honest'
<1>1. AnswerIsItsOwn'
  <2>1. UNCHANGED seen /\ \A c \in Calls : answer'[c] = "Ok" => answer[c] = "Ok"
    BY DEF Transcribe, TranscribeBegin, TranscribeEnd, Honest, Tracked
  <2> QED
    BY <2>1, OwnKept DEF Honest, AnswerIsItsOwn
<1>2. Pipes'
  BY PipesKept DEF Transcribe, TranscribeBegin, TranscribeEnd, Honest, Pipes
<1>3. watch' \in [Calls -> [pc : WatchPcs, target : Nat]]
  <2>1. Watched \in [pc : WatchPcs, target : Nat]
    BY DEF Watched, None, WatchPcs
  <2>2. CASE Transcribe
    <3>1. client.call + 1 \in Calls /\ "Polling" \in WatchPcs
      BY <2>2, WorkerAssumption
         DEF Transcribe, Honest, Tracked, WorkerAssumption, Calls, WatchPcs
    <3> QED
      BY <2>2, <3>1 DEF Transcribe, Honest, Tracked
  <2>3. CASE AbortWatch
    BY <2>1, <2>3 DEF AbortWatch, Honest, Tracked
  <2>4. CASE UNCHANGED watch
    BY <2>4 DEF Honest, Tracked
  <2> QED
    BY <2>2, <2>3, <2>4 DEF TranscribeBegin, TranscribeEnd
<1>4. DOMAIN answer' = Calls
  BY DEF Transcribe, TranscribeBegin, TranscribeEnd, Honest, Tracked
<1>5. CASE Transcribe
  <2>1. client.call + 1 \in Calls
    BY <1>5, WorkerAssumption DEF Transcribe, Honest, Tracked, WorkerAssumption, Calls
  <2> QED
    BY <1>1, <1>2, <1>3, <1>4, <1>5, <2>1, WorkerAssumption
       DEF Transcribe, Honest, Tracked, Calling, Transcribing, Calls, WorkerAssumption
<1>6. CASE TranscribeBegin
  <2>1. client.call \in Calls /\ Awaited \in Nat /\ session.known
    BY <1>6, RequestsDiffer DEF TranscribeBegin, Honest, Tracked, Calling, Awaited
  <2> QED
    BY <1>1, <1>2, <1>3, <1>4, <1>6, <2>1
       DEF TranscribeBegin, BeginRequest, Honest, Tracked, Calling, Transcribing, Awaited
<1>7. CASE TranscribeEnd
  BY <1>1, <1>2, <1>3, <1>4, <1>7
     DEF TranscribeEnd, EndRequest, Honest, Tracked, Calling, Transcribing, None
<1> QED
  BY <1>5, <1>6, <1>7

LEMMA WatchHonest ==
    ASSUME Honest, NEW c \in Calls, RequestCancel(c) \/ WatchStep(c)
    PROVE  Honest'
<1>1. UNCHANGED <<client, session, current, lines, worker, out, answer, seen>>
  BY DEF RequestCancel, WatchStep, SeesToken, LoadsTarget, SendsCancel, GraceEnds
<1>2. watch' \in [Calls -> [pc : WatchPcs, target : Nat]]
  <2>1. /\ Watched \in [pc : WatchPcs, target : Nat] /\ current \in Nat /\ None \in Nat
        /\ \A pc \in WatchPcs, n \in Nat : [pc |-> pc, target |-> n] \in [pc : WatchPcs, target : Nat]
    BY DEF Watched, None, WatchPcs, Honest, Tracked
  <2>2. CASE \E pc \in WatchPcs : WatchTo(c, pc)
    BY <2>2 DEF WatchTo, Honest, Tracked
  <2>3. CASE \E w \in [pc : WatchPcs, target : Nat] : watch' = [watch EXCEPT ![c] = w]
    BY <2>3 DEF Honest, Tracked
  <2>4. CASE UNCHANGED watch
    BY <2>4 DEF Honest, Tracked
  <2>5. CASE LoadsTarget(c)
    <3>1. \E w \in [pc : WatchPcs, target : Nat] : watch' = [watch EXCEPT ![c] = w]
      BY <2>1, <2>5 DEF LoadsTarget, WatchPcs
    <3> QED
      BY <2>3, <3>1
  <2>6. CASE SendsCancel(c)
    <3>1. \E w \in [pc : WatchPcs, target : Nat] : watch' = [watch EXCEPT ![c] = w]
      BY <2>1, <2>6 DEF SendsCancel, WatchPcs
    <3> QED
      BY <2>3, <3>1
  <2>7. CASE SeesToken(c) \/ GraceEnds(c)
    BY <2>2, <2>7 DEF SeesToken, GraceEnds, WatchPcs
  <2> QED
    BY <2>4, <2>5, <2>6, <2>7 DEF RequestCancel, WatchStep
<1>3. Pipes'
  <2>1. CASE UNCHANGED requests
    BY <1>1, <2>1, PipesKept DEF Honest, Pipes
  <2>2. CASE SendToWorker("Cancel", watch[c].target)
    <3>1. watch[c].target \in Nat /\ "Cancel" \in AskTypes
      BY DEF Honest, Tracked, AskTypes
    <3> QED
      BY <1>1, <2>2, <3>1, PipesAsked DEF Honest, Pipes
  <2> QED
    BY <2>1, <2>2 DEF RequestCancel, WatchStep, SeesToken, LoadsTarget, SendsCancel, GraceEnds
<1>4. Tracked' /\ AnswerIsItsOwn'
  BY <1>1, <1>2 DEF Honest, Tracked, Calling, Transcribing, Awaited, AnswerIsItsOwn
<1> QED
  BY <1>3, <1>4 DEF Honest

\* The worker leaves the client alone.
LEMMA WorkerHonest ==
    ASSUME Honest, UNCHANGED clientSide, Pipes', seen'.foreign = seen.foreign,
           seen.produced \subseteq seen'.produced
    PROVE  Honest'
<1>1. Tracked'
  BY DEF clientSide, Honest, Tracked, Calling, Transcribing, Awaited
<1>2. AnswerIsItsOwn'
  BY OwnKept DEF clientSide, Honest, AnswerIsItsOwn
<1> QED
  BY <1>1, <1>2 DEF Honest

LEMMA LineHonest ==
    ASSUME Honest, HandleLine
    PROVE  Honest'
<1> DEFINE request == Head(requests)
           req == request.req
<1>1. UNCHANGED clientSide /\ UNCHANGED seen /\ requests' = Tail(requests) /\ Dispatch(request)
  BY DEF HandleLine
<1>2. request \in Asked /\ requests' \in Seq(Asked)
  BY <1>1, HeadTailProperties DEF HandleLine, Honest, Pipes
<1>3. /\ req \in Nat /\ (request.type \in {"Load", "Unload"} => req \in Model)
      /\ DOMAIN worker = {"kind", "alive", "loaded", "busy", "targets", "seq"}
      /\ {"Result", "Error", "HelloOk"} \subseteq LineTypes /\ None \in Nat
  BY <1>2 DEF Asked, Honest, Pipes, LineTypes, Terminals, None
<1>4. ASSUME NEW w, DOMAIN w = DOMAIN worker, w.seq = worker.seq, w.alive = worker.alive,
             NEW type \in {"Result", "Error", "HelloOk"}, NEW r \in Nat,
             type = "Result" => r \in Model, Say(w, Reader, type, r)
      PROVE  Pipes'
  <2>1. type = "Result" => r \in Model \union seen'.produced
    BY <1>4
  <2> QED
    BY <1>1, <1>2, <1>3, <1>4, <2>1, PipesSaid DEF Honest
<1>5. ASSUME NEW w, DOMAIN w = DOMAIN worker, w.seq = worker.seq, w.alive = worker.alive, Quiet(w)
      PROVE  Pipes'
  BY <1>1, <1>2, <1>5, PipesQuiet DEF Honest
<1> HIDE DEF request, req
<1> SUFFICES Pipes'
  BY <1>1, WorkerHonest
<1>6. CASE HandleHello
  BY <1>3, <1>4, <1>6 DEF HandleHello
<1>7. CASE request.type = "Load" /\ HandleLoad(req)
  <2>1. PICK type \in {"Result", "Error"} :
          Say([worker EXCEPT !.loaded = @ \/ type = "Result"], Reader, type, req)
    BY <1>7 DEF HandleLoad, LoadAnswers
  <2> DEFINE w == [worker EXCEPT !.loaded = @ \/ type = "Result"]
  <2>2. DOMAIN w = DOMAIN worker /\ w.seq = worker.seq /\ w.alive = worker.alive
    BY <1>3
  <2> HIDE DEF w
  <2>3. Say(w, Reader, type, req)
    BY <2>1 DEF w
  <2> QED
    BY <1>3, <1>4, <1>7, <2>2, <2>3
<1>8. CASE request.type = "Unload" /\ HandleUnload(req)
  <2> DEFINE w == [worker EXCEPT !.loaded = FALSE]
  <2>1. DOMAIN w = DOMAIN worker /\ w.seq = worker.seq /\ w.alive = worker.alive
    BY <1>3
  <2>2. Say(worker, Reader, "Error", req) \/ Say(w, Reader, "Result", req)
    BY <1>8 DEF HandleUnload
  <2> HIDE DEF w
  <2> QED
    BY <1>3, <1>4, <1>8, <2>1, <2>2
<1>9. CASE HandleTranscribe(req)
  <2> DEFINE w == [worker EXCEPT !.busy = TRUE]
  <2>1. DOMAIN w = DOMAIN worker /\ w.seq = worker.seq /\ w.alive = worker.alive
    BY <1>3
  <2>2. Say(worker, Reader, "Error", req) \/ Quiet(w)
    BY <1>9 DEF HandleTranscribe
  <2> HIDE DEF w
  <2> QED
    BY <1>3, <1>4, <1>5, <2>1, <2>2
<1>10. CASE HandleCancel(req)
  <2>1. PICK targets : Quiet([worker EXCEPT !.targets = targets]) \/ Quiet(worker)
    BY <1>10 DEF HandleCancel
  <2> DEFINE w == [worker EXCEPT !.targets = targets]
  <2>2. DOMAIN w = DOMAIN worker /\ w.seq = worker.seq /\ w.alive = worker.alive
    BY <1>3
  <2> HIDE DEF w
  <2>3. Quiet(w) \/ Quiet(worker)
    BY <2>1 DEF w
  <2> QED
    BY <1>5, <2>2, <2>3
<1>11. \/ HandleHello \/ (request.type = "Load" /\ HandleLoad(req))
       \/ (request.type = "Unload" /\ HandleUnload(req))
       \/ HandleTranscribe(req) \/ HandleCancel(req)
  BY <1>1 DEF Dispatch, req
<1> QED
  BY <1>6, <1>7, <1>8, <1>9, <1>10, <1>11

LEMMA WriteHonest ==
    ASSUME Honest, NEW w \in Writers, Write(w)
    PROVE  Honest'
<1>1. /\ UNCHANGED clientSide /\ UNCHANGED <<requests, worker, seen>>
      /\ lines' = Append(lines, out[w]) /\ out' = [out EXCEPT ![w] = NoLine]
  BY DEF Write
<1>2. NoLine \in TrueLines
  <2>1. NoLine \in Line
    BY DEF NoLine, Line, None, LineTypes
  <2>2. NoLine.type # "Result"
    BY DEF NoLine
  <2> QED
    BY <2>1, <2>2 DEF TrueLines
<1>3. TrueLines' = TrueLines
  BY <1>1 DEF TrueLines
<1>4. Append(lines, out[w]) \in Seq(TrueLines)
  BY AppendProperties DEF Honest, Pipes
<1>5. Pipes'
  BY <1>1, <1>2, <1>3, <1>4 DEF Honest, Pipes
<1> QED
  BY <1>1, <1>5, WorkerHonest

LEMMA ThreadHonest ==
    ASSUME Honest, NEW r \in Requests, ThreadStep(r)
    PROVE  Honest'
<1>1. UNCHANGED clientSide /\ UNCHANGED requests
  BY DEF ThreadStep, SaySegment, RunTranscribe, SayResult, EndHelper, ClearTarget, SayCrashed,
         EndPython
<1>2. /\ DOMAIN seen' = DOMAIN seen /\ seen'.foreign = seen.foreign
      /\ seen'.disturbed = seen.disturbed /\ seen.produced \subseteq seen'.produced
  BY DEF ThreadStep, SaySegment, RunTranscribe, SayResult, EndHelper, ClearTarget, SayCrashed,
         EndPython, Honest, Pipes
<1>3. r \in Nat /\ {"Cancelled", "Error", "Segment", "Result"} \subseteq LineTypes
  BY WorkerAssumption DEF WorkerAssumption, Requests, LineTypes, Terminals
<1>4. ASSUME NEW type \in {"Cancelled", "Error", "Segment", "Result"}, Say(worker, r, type, r),
             type = "Result" => r \in seen'.produced
      PROVE  Pipes'
  <2>1. type = "Result" => r \in Model \union seen'.produced
    BY <1>4
  <2>2. type \in LineTypes /\ requests' \in Seq(Asked)
    BY <1>1, <1>3 DEF Honest, Pipes
  <2> QED
    BY <1>2, <1>3, <1>4, <2>1, <2>2, PipesSaid DEF Honest
<1>5. ASSUME NEW w, DOMAIN w = DOMAIN worker, w.seq = worker.seq, w.alive = worker.alive, Quiet(w),
             UNCHANGED seen
      PROVE  Pipes'
  <2>1. requests' \in Seq(Asked)
    BY <1>1 DEF Honest, Pipes
  <2> QED
    BY <1>5, <2>1, PipesQuiet DEF Honest
<1> SUFFICES Pipes'
  BY <1>1, <1>2, WorkerHonest
<1>6. CASE SaySegment(r) \/ RunTranscribe(r)
  BY <1>4, <1>5, <1>6 DEF SaySegment, RunTranscribe
<1>7. CASE SayResult(r)
  <2>1. r \in seen'.produced
    BY <1>7 DEF SayResult, Honest, Pipes
  <2> QED
    BY <1>4, <1>7, <2>1 DEF SayResult
<1>8. CASE EndHelper(r) \/ EndPython(r) \/ ClearTarget(r)
  <2>1. PICK busy, targets :
          Quiet([worker EXCEPT !.busy = busy, !.targets = targets]) /\ UNCHANGED seen
    <3>1. CASE EndHelper(r)
      <4>1. Quiet([worker EXCEPT !.busy = FALSE, !.targets = worker.targets]) /\ UNCHANGED seen
        BY <3>1 DEF EndHelper, Quiet, Honest, Pipes
      <4> QED
        BY <4>1
    <3>2. CASE EndPython(r)
      BY <3>2 DEF EndPython
    <3>3. CASE ClearTarget(r)
      <4>1. Quiet([worker EXCEPT !.busy = worker.busy, !.targets = {}]) /\ UNCHANGED seen
        BY <3>3 DEF ClearTarget, Quiet, Honest, Pipes
      <4> QED
        BY <4>1
    <3> QED
      BY <1>8, <3>1, <3>2, <3>3
  <2> DEFINE w == [worker EXCEPT !.busy = busy, !.targets = targets]
  <2>2. DOMAIN w = DOMAIN worker /\ w.seq = worker.seq /\ w.alive = worker.alive
    BY DEF Honest, Pipes
  <2> HIDE DEF w
  <2>3. Quiet(w)
    BY <2>1 DEF w
  <2> QED
    BY <1>5, <2>1, <2>2, <2>3
<1>9. CASE SayCrashed(r)
  BY <1>4, <1>9 DEF SayCrashed
<1> QED
  BY <1>6, <1>7, <1>8, <1>9 DEF ThreadStep

LEMMA CrashHonest ==
    ASSUME Honest, Crash
    PROVE  Honest'
<1>1. UNCHANGED clientSide /\ UNCHANGED lines /\ WorkerEnds /\ requests' = <<>>
  BY DEF Crash
<1>2. /\ DOMAIN seen' = DOMAIN seen /\ seen'.foreign = seen.foreign
      /\ seen'.produced = seen.produced /\ seen'.disturbed \in BOOLEAN
  BY DEF Crash, Honest, Pipes
<1>3. <<>> \in Seq(Asked) /\ lines' \in Seq(TrueLines)
  BY <1>1 DEF Honest, Pipes
<1>4. Pipes'
  BY <1>1, <1>2, <1>3, PipesEnded DEF Honest
<1> QED
  BY <1>1, <1>2, <1>4, WorkerHonest

LEMMA HonestKept ==
    ASSUME Honest, [Next]_vars
    PROVE  Honest'
<1>1. CASE ClientStep \/ Transcribe \/ Close
  BY <1>1, LostHonest, EnvelopeHonest, AskingHonest, CallHonest DEF ClientStep
<1>2. CASE HandleLine \/ Crash
  BY <1>2, LineHonest, CrashHonest
<1>3. CASE \E c \in Calls : RequestCancel(c) \/ WatchStep(c)
  BY <1>3, WatchHonest
<1>4. CASE \E w \in Writers : Write(w)
  BY <1>4, WriteHonest
<1>5. CASE \E r \in Requests : ThreadStep(r)
  BY <1>5, ThreadHonest
<1>6. CASE UNCHANGED vars
  BY <1>6 DEF vars, Honest, Pipes, TrueLines, Tracked, Calling, Transcribing, Awaited,
              AnswerIsItsOwn
<1> QED
  BY <1>1, <1>2, <1>3, <1>4, <1>5, <1>6 DEF Next

LEMMA HonestInitially ==
    ASSUME Init
    PROVE  Honest
<1>1. /\ worker \in [kind : Workers, alive : {FALSE}, loaded : {FALSE}, busy : {FALSE},
                     targets : {{}}, seq : {0}]
      /\ requests = <<>> /\ lines = <<>> /\ out = [w \in Writers |-> NoLine]
      /\ seen = [foreign |-> {}, produced |-> {}, disturbed |-> FALSE]
      /\ client = NoCalls /\ session = NewSession /\ current = None
      /\ watch = [c \in Calls |-> [pc |-> "None", target |-> None]]
      /\ answer = [c \in Calls |-> "None"]
  BY DEF Init
<1>2. NoLine \in TrueLines
  <2>1. NoLine \in Line
    BY DEF NoLine, Line, None, LineTypes
  <2>2. NoLine.type # "Result"
    BY DEF NoLine
  <2> QED
    BY <2>1, <2>2 DEF TrueLines
<1>3. Pipes
  <2>1. /\ DOMAIN worker = {"kind", "alive", "loaded", "busy", "targets", "seq"}
        /\ worker.seq = 0 /\ worker.alive \in BOOLEAN
    BY <1>1
  <2>2. requests \in Seq(Asked) /\ lines \in Seq(TrueLines)
    BY <1>1
  <2>3. out \in [Writers -> TrueLines]
    BY <1>1, <1>2
  <2>4. DOMAIN seen = {"foreign", "produced", "disturbed"} /\ seen.disturbed \in BOOLEAN
    BY <1>1
  <2> QED
    BY <2>1, <2>2, <2>3, <2>4 DEF Pipes
<1>4. Tracked
  <2>1. /\ DOMAIN client = {"pc", "asked", "call"} /\ client.pc = "Start" /\ client.call = 0
        /\ DOMAIN session = {"known", "next", "active", "terminal", "terminated"}
        /\ current \in Nat /\ DOMAIN answer = Calls
    BY <1>1 DEF NoCalls, NewSession, None
  <2>2. watch \in [Calls -> [pc : WatchPcs, target : Nat]]
    BY <1>1 DEF WatchPcs, None
  <2>3. 0 \in 0 .. MaxCalls
    BY WorkerAssumption DEF WorkerAssumption
  <2> QED
    BY <2>1, <2>2, <2>3 DEF Tracked, Calling, Transcribing
<1>5. AnswerIsItsOwn
  BY <1>1 DEF AnswerIsItsOwn
<1> QED
  BY <1>3, <1>4, <1>5 DEF Honest

\* A transcript belongs to the audio it was asked for, whatever has become of
\* the calls before, and however many there were.
THEOREM AnswersAreTheirOwn == Spec => []AnswerIsItsOwn
<1>1. Init => Honest
  BY HonestInitially
<1>2. Honest /\ [Next]_vars => Honest'
  BY HonestKept
<1>3. Honest => AnswerIsItsOwn
  BY DEF Honest
<1> QED
  BY <1>1, <1>2, <1>3, PTL DEF Spec

-----------------------------------------------------------------------------
(* The order of the lines. *)

\* The threads that have something to say yet.
Speaking == {"Run", "Speak", "Panicked", "ClearingPanic", "Crashed"}

\* The lines that are under way: at most one of them is not yet written.
Idle(w) == out[w] = NoLine
Flows(f) ==
    \/ f = lines /\ \A w \in Writers : Idle(w)
    \/ \E w \in Writers : /\ ~Idle(w) /\ f = Append(lines, out[w])
                          /\ \A v \in Writers : v # w => Idle(v)

\* They go on where the session is, each with the number after the one before,
\* and are of the request at hand.
NumberAt(f, i) == IF i = 1 THEN session.next ELSE After(f[i - 1].seq)
Fits(f) ==
    /\ worker.seq = NumberAt(f, Len(f) + 1)
    /\ \A i \in 1 .. Len(f) :
          /\ f[i].seq = NumberAt(f, i) /\ f[i].req = session.active
          /\ f[i].type \in {"HelloOk", "Segment"} \union Terminals
          /\ f[i].type = "HelloOk" <=> client.asked = "Hello"

\* Between two requests nobody is about to say anything; then the worker has
\* the request before it, a thread speaks for it, or the last line is said.
NothingAsked == \A i \in 1 .. Len(requests) : requests[i].type = "Cancel"
OneAsked(type, req) ==
    \E i \in 1 .. Len(requests) :
       /\ requests[i].type = type /\ requests[i].req = req
       /\ \A j \in 1 .. Len(requests) : j # i => requests[j].type = "Cancel"
NobodySpeaks == \A r \in Requests : thread[r] \notin Speaking
Rest(f) == f = <<>> /\ NothingAsked /\ NobodySpeaks
Waiting(f) == f = <<>> /\ OneAsked(client.asked, session.active) /\ NobodySpeaks
Hearing(f) ==
    /\ client.asked = "Transcribe" /\ NothingAsked
    /\ \A r \in Requests : r # session.active => thread[r] \notin Speaking
    /\ \A i \in 1 .. Len(f) : f[i].type = "Segment"
    /\ \A w \in Writers : w # session.active => Idle(w)
Answered(f) ==
    /\ NothingAsked /\ NobodySpeaks /\ f # <<>>
    /\ \A i \in 1 .. Len(f) : f[i].type = "Segment" <=> i # Len(f)
Talks(f) ==
    /\ Flows(f) /\ Fits(f)
    /\ IF client.pc = "Read" THEN Waiting(f) \/ Hearing(f) \/ Answered(f) ELSE Rest(f)

\* Where the session is while the worker lives.
Met ==
    /\ client.pc # "Start" => worker.alive
    /\ session.next \in Nat /\ ~session.terminated
    /\ session.terminal => client.pc = "End"
    /\ client.pc \in {"Start", "Load", "Ready", "Begin"} => session.active = None
    /\ client.pc = "Read" => client.asked \in {"Hello", "Load", "Transcribe", "Unload"}
    /\ client.pc = "Read" => (client.asked = "Hello" <=> session.active = None)
    /\ client.pc = "Start" \/ (client.pc = "Read" /\ client.asked = "Hello") => ~session.known
InStep == Met /\ \E f \in Seq(Line) : Talks(f)
Orderly ==
    ~seen.disturbed => /\ ~session.terminated
                       /\ client.pc # "Closed" => InStep

LEMMA TailOfAppend ==
    ASSUME NEW S, NEW s \in Seq(S), s # <<>>, NEW x \in S
    PROVE  Tail(Append(s, x)) = Append(Tail(s), x) /\ Head(Append(s, x)) = Head(s)
<1>1. PICK n \in Nat : n = Len(s) /\ n >= 1
  BY EmptySeq, LenProperties
<1>2. /\ Append(s, x) \in Seq(S) /\ Len(Append(s, x)) = n + 1 /\ Append(s, x)[n + 1] = x
      /\ \A i \in 1 .. n : Append(s, x)[i] = s[i]
  BY <1>1, AppendProperties
<1>3. Append(s, x) # <<>> /\ 1 \in 1 .. n
  BY <1>1, <1>2, EmptySeq
<1>4. /\ Tail(Append(s, x)) \in Seq(S) /\ Len(Tail(Append(s, x))) = n
      /\ \A i \in 1 .. n : Tail(Append(s, x))[i] = Append(s, x)[i + 1]
  BY <1>1, <1>2, <1>3, HeadTailProperties
<1>5. /\ Tail(s) \in Seq(S) /\ Len(Tail(s)) = n - 1
      /\ \A i \in 1 .. n - 1 : Tail(s)[i] = s[i + 1]
  BY <1>1, HeadTailProperties
<1>6. /\ Append(Tail(s), x) \in Seq(S) /\ Len(Append(Tail(s), x)) = n
      /\ Append(Tail(s), x)[n] = x
      /\ \A i \in 1 .. n - 1 : Append(Tail(s), x)[i] = Tail(s)[i]
  BY <1>1, <1>5, AppendProperties
<1>7. ASSUME NEW i \in 1 .. n
      PROVE  Tail(Append(s, x))[i] = Append(Tail(s), x)[i]
  <2>1. CASE i = n
    BY <1>2, <1>4, <1>6, <2>1
  <2>2. CASE i # n
    <3>1. i \in 1 .. n - 1 /\ i + 1 \in 1 .. n
      BY <1>1, <2>2
    <3> QED
      BY <1>2, <1>4, <1>5, <1>6, <3>1
  <2> QED
    BY <2>1, <2>2
<1>8. Tail(Append(s, x)) = Append(Tail(s), x)
  BY <1>4, <1>6, <1>7, SeqEqual
<1>9. Head(Append(s, x)) = Append(s, x)[1] /\ Head(s) = s[1]
  BY <1>2, <1>3, HeadTailProperties
<1> QED
  BY <1>2, <1>3, <1>8, <1>9

-----------------------------------------------------------------------------
(* What a step makes of the lines under way. *)

LinesTyped == lines \in Seq(Line) /\ out \in [Writers -> Line]
LEMMA HonestLines ==
    ASSUME Honest
    PROVE  LinesTyped
<1>1. TrueLines \subseteq Line
  BY DEF TrueLines
<1> QED
  BY <1>1, SeqOfMore DEF Honest, Pipes, LinesTyped

LEMMA FlowWritten ==
    ASSUME LinesTyped, NEW f, Flows(f), NEW w \in Writers, ~Idle(w),
           lines' = Append(lines, out[w]), out' = [out EXCEPT ![w] = NoLine]
    PROVE  Flows(f)' /\ \A v \in Writers : Idle(v)'
BY DEF LinesTyped, Flows, Idle

LEMMA FlowRead ==
    ASSUME LinesTyped, NEW f \in Seq(Line), Flows(f), lines # <<>>, lines' = Tail(lines)
    PROVE  /\ f # <<>> /\ Head(f) = Head(lines) /\ (UNCHANGED out => Flows(Tail(f))')
           /\ Tail(f) = <<>> => \A w \in Writers : Idle(w)
<1>1. CASE f = lines /\ \A w \in Writers : Idle(w)
  BY <1>1 DEF Flows, Idle
<1>2. CASE ~(f = lines /\ \A w \in Writers : Idle(w))
  <2>1. PICK w \in Writers : /\ ~Idle(w) /\ f = Append(lines, out[w])
                             /\ \A v \in Writers : v # w => Idle(v)
    BY <1>2 DEF Flows
  <2>2. out[w] \in Line /\ lines \in Seq(Line) /\ Tail(lines) \in Seq(Line)
    BY HeadTailProperties DEF LinesTyped
  <2>3. Tail(f) = Append(Tail(lines), out[w]) /\ Head(f) = Head(lines)
    BY <2>1, <2>2, TailOfAppend
  <2>4. f # <<>> /\ Tail(f) # <<>>
    <3>1. Len(Append(lines, out[w])) = Len(lines) + 1 /\ Len(lines) \in Nat
      BY <2>2, AppendProperties
    <3>2. Len(Append(Tail(lines), out[w])) = Len(Tail(lines)) + 1 /\ Len(Tail(lines)) \in Nat
      BY <2>2, AppendProperties
    <3> QED
      BY <2>1, <2>3, <3>1, <3>2, EmptySeq
  <2> QED
    BY <2>1, <2>3, <2>4 DEF Flows, Idle
<1> QED
  BY <1>1, <1>2

LEMMA FlowSaid ==
    ASSUME LinesTyped, NEW f, Flows(f), \A v \in Writers : Idle(v),
           NEW w, NEW writer \in Writers, NEW type \in LineTypes \ {"None"}, NEW req,
           Say(w, writer, type, req),
           NEW line, line = [type |-> type, req |-> req, seq |-> w.seq]
    PROVE  Flows(Append(f, line))' /\ \A v \in Writers : v # writer => Idle(v)'
<1>1. f = lines /\ line # NoLine
  BY DEF Flows, NoLine
<1>2. CASE lines' = Append(lines, line) /\ UNCHANGED out
  BY <1>1, <1>2 DEF Flows, Idle
<1>3. CASE out' = [out EXCEPT ![writer] = line] /\ UNCHANGED lines
  <2>1. out'[writer] = line /\ \A v \in Writers : v # writer => Idle(v)'
    BY <1>3 DEF Idle, LinesTyped
  <2> QED
    BY <1>1, <1>3, <2>1 DEF Flows, Idle
<1> QED
  BY <1>2, <1>3 DEF Say

\* One more line, with the next number.
LEMMA FitsSaid ==
    ASSUME NEW f \in Seq(Line), Fits(f),
           NEW line \in Line, line.seq = worker.seq, line.req = session.active,
           line.type \in {"HelloOk", "Segment"} \union Terminals,
           line.type = "HelloOk" <=> client.asked = "Hello",
           worker'.seq = After(worker.seq), UNCHANGED <<client, session>>
    PROVE  Fits(Append(f, line))'
<1>1. PICK n \in Nat : n = Len(f)
  BY LenProperties
<1>2. PICK g : g = Append(f, line)
  OBVIOUS
<1>3. /\ g \in Seq(Line) /\ Len(g) = n + 1 /\ g[n + 1] = line
      /\ \A i \in 1 .. n : g[i] = f[i]
  BY <1>1, <1>2, AppendProperties
<1>4. \A i \in 1 .. n + 1 : NumberAt(g, i)' = NumberAt(f, i)
  <2>1. \A i \in 1 .. n + 1 : i # 1 => i - 1 \in 1 .. n
    BY <1>1
  <2> QED
    BY <1>3, <2>1 DEF NumberAt
<1>5. worker'.seq = NumberAt(g, Len(g) + 1)'
  <2>1. (n + 1) + 1 # 1 /\ ((n + 1) + 1) - 1 = n + 1
    BY <1>1
  <2> QED
    BY <1>3, <2>1 DEF NumberAt
<1>6. ASSUME NEW i \in 1 .. n + 1
      PROVE  /\ g[i].seq = NumberAt(g, i)' /\ g[i].req = session.active
             /\ g[i].type \in {"HelloOk", "Segment"} \union Terminals
             /\ g[i].type = "HelloOk" <=> client.asked = "Hello"
  <2>1. CASE i = n + 1
    <3>1. worker.seq = NumberAt(f, n + 1)
      BY <1>1 DEF Fits
    <3> QED
      BY <1>3, <1>4, <2>1, <3>1
  <2>2. CASE i # n + 1
    <3>1. i \in 1 .. n
      BY <1>1, <2>2
    <3> QED
      BY <1>1, <1>3, <1>4, <3>1 DEF Fits
  <2> QED
    BY <2>1, <2>2
<1>7. Fits(g)'
  BY <1>3, <1>5, <1>6 DEF Fits
<1> QED
  BY <1>2, <1>7

-----------------------------------------------------------------------------
(* What a step makes of the requests under way. *)

Asks == {"Hello", "Load", "Transcribe", "Unload"}

LEMMA CancelAppended ==
    ASSUME requests \in Seq(Asked), NEW ask \in Asked, ask.type = "Cancel",
           requests' = Append(requests, ask)
    PROVE  /\ NothingAsked => NothingAsked'
           /\ \A type, req : OneAsked(type, req) => OneAsked(type, req)'
<1>1. PICK n \in Nat : n = Len(requests)
  BY LenProperties
<1>2. /\ Len(requests') = n + 1 /\ requests'[n + 1] = ask
      /\ \A i \in 1 .. n : requests'[i] = requests[i]
  BY <1>1, AppendProperties
<1>3. \A i \in 1 .. n + 1 : requests'[i].type = "Cancel" \/ (i \in 1 .. n /\ requests'[i] = requests[i])
  BY <1>1, <1>2
<1>4. NothingAsked => NothingAsked'
  BY <1>1, <1>2, <1>3 DEF NothingAsked
<1>5. ASSUME NEW type, NEW req, OneAsked(type, req)
      PROVE  OneAsked(type, req)'
  <2>1. PICK i \in 1 .. n : /\ requests[i].type = type /\ requests[i].req = req
                           /\ \A j \in 1 .. n : j # i => requests[j].type = "Cancel"
    BY <1>1, <1>5 DEF OneAsked
  <2>2. i \in 1 .. n + 1 /\ requests'[i] = requests[i]
    BY <1>1, <1>2
  <2>3. \A j \in 1 .. n + 1 : j # i => requests'[j].type = "Cancel"
    BY <1>3, <2>1
  <2> QED
    BY <1>2, <2>1, <2>2, <2>3 DEF OneAsked
<1> QED
  BY <1>4, <1>5

LEMMA AskAppended ==
    ASSUME requests \in Seq(Asked), NothingAsked, NEW type \in Asks, NEW req \in Nat,
           type \in {"Load", "Unload"} => req \in Model, SendToWorker(type, req)
    PROVE  OneAsked(type, req)'
<1>1. PICK n \in Nat : n = Len(requests)
  BY LenProperties
<1>2. PICK ask \in Asked : ask = [type |-> type, req |-> req]
  BY DEF Asked, Asks, AskTypes
<1>3. /\ Len(requests') = n + 1 /\ requests'[n + 1] = ask
      /\ \A i \in 1 .. n : requests'[i] = requests[i]
  BY <1>1, <1>2, AppendProperties DEF SendToWorker
<1>4. \A j \in 1 .. n + 1 : j # n + 1 => j \in 1 .. n /\ requests'[j].type = "Cancel"
  BY <1>1, <1>3 DEF NothingAsked
<1>5. n + 1 \in 1 .. n + 1
  BY <1>1
<1> QED
  BY <1>2, <1>3, <1>4, <1>5 DEF OneAsked

\* The first request is a cancel, or the one there is.
LEMMA HeadTaken ==
    ASSUME requests \in Seq(Asked), requests # <<>>, requests' = Tail(requests)
    PROVE  /\ NothingAsked => Head(requests).type = "Cancel" /\ NothingAsked'
           /\ \A type \in Asks : \A req :
                 OneAsked(type, req) =>
                    IF Head(requests).type = "Cancel" THEN OneAsked(type, req)'
                    ELSE /\ Head(requests).type = type /\ Head(requests).req = req
                         /\ NothingAsked'
<1>1. PICK n \in Nat : n = Len(requests) /\ n >= 1
  BY EmptySeq, LenProperties
<1>2. /\ Head(requests) = requests[1] /\ Len(requests') = n - 1
      /\ \A i \in 1 .. n - 1 : requests'[i] = requests[i + 1]
  BY <1>1, HeadTailProperties
<1>3. 1 \in 1 .. n /\ \A i \in 1 .. n - 1 : i + 1 \in 1 .. n /\ i + 1 # 1
  BY <1>1
<1>4. NothingAsked => Head(requests).type = "Cancel" /\ NothingAsked'
  BY <1>1, <1>2, <1>3 DEF NothingAsked
<1>5. ASSUME NEW type \in Asks, NEW req, OneAsked(type, req)
      PROVE  IF Head(requests).type = "Cancel" THEN OneAsked(type, req)'
             ELSE /\ Head(requests).type = type /\ Head(requests).req = req
                  /\ NothingAsked'
  <2>1. PICK i \in 1 .. n : /\ requests[i].type = type /\ requests[i].req = req
                           /\ \A j \in 1 .. n : j # i => requests[j].type = "Cancel"
    BY <1>1, <1>5 DEF OneAsked
  <2>2. type # "Cancel"
    BY DEF Asks
  <2>3. CASE i = 1
    <3>1. Head(requests).type = type /\ Head(requests).req = req
      BY <1>2, <2>1, <2>3
    <3>2. NothingAsked'
      BY <1>2, <1>3, <2>1, <2>3 DEF NothingAsked
    <3> QED
      BY <2>2, <3>1, <3>2
  <2>4. CASE i # 1
    <3>1. Head(requests).type = "Cancel"
      BY <1>2, <1>3, <2>1, <2>4
    <3>2. i - 1 \in 1 .. n - 1 /\ (i - 1) + 1 = i
      BY <1>1, <2>4
    <3>3. requests'[i - 1] = requests[i]
      BY <1>2, <3>2
    <3>4. \A j \in 1 .. n - 1 : j # i - 1 => j + 1 # i /\ j + 1 \in 1 .. n
      BY <1>1
    <3>5. \A j \in 1 .. n - 1 : j # i - 1 => requests'[j].type = "Cancel"
      BY <1>2, <2>1, <3>4
    <3> QED
      BY <1>2, <2>1, <3>1, <3>2, <3>3, <3>5 DEF OneAsked
  <2> QED
    BY <2>3, <2>4
<1> QED
  BY <1>4, <1>5

-----------------------------------------------------------------------------
(* The steps of the worker. *)

LEMMA StillMet ==
    ASSUME Met, UNCHANGED <<client, session>>, worker'.alive = worker.alive
    PROVE  Met'
BY DEF Met

\* Nothing is said, and no thread begins to speak.
LEMMA SameTalk ==
    ASSUME NEW f, Talks(f), UNCHANGED <<client, session, lines, out>>,
           worker'.seq = worker.seq,
           \A r \in Requests : thread'[r] \in Speaking => thread[r] \in Speaking,
           NothingAsked => NothingAsked',
           \A type, req : OneAsked(type, req) => OneAsked(type, req)'
    PROVE  Talks(f)'
<1>1. Flows(f)' /\ Fits(f)' /\ (\A w \in Writers : Idle(w) <=> Idle(w)')
  BY DEF Talks, Flows, Idle, Fits, NumberAt
<1>2. NobodySpeaks => NobodySpeaks'
  BY DEF NobodySpeaks
<1>3. (IF client.pc = "Read" THEN Waiting(f) \/ Hearing(f) \/ Answered(f) ELSE Rest(f))'
  <2>1. Rest(f) => Rest(f)'
    BY <1>2 DEF Rest
  <2>2. Waiting(f) => Waiting(f)'
    BY <1>2 DEF Waiting
  <2>3. Hearing(f) => Hearing(f)'
    BY <1>1 DEF Hearing
  <2>4. Answered(f) => Answered(f)'
    BY <1>2 DEF Answered
  <2> QED
    BY <2>1, <2>2, <2>3, <2>4 DEF Talks
<1> QED
  BY <1>1, <1>3 DEF Talks

LEMMA EmptyFlow ==
    ASSUME LinesTyped, Flows(<<>>)
    PROVE  lines = <<>> /\ \A w \in Writers : Idle(w)
<1>1. ASSUME NEW w \in Writers, <<>> = Append(lines, out[w])
      PROVE  FALSE
  <2>1. Len(Append(lines, out[w])) = Len(lines) + 1 /\ Len(lines) \in Nat
    BY AppendProperties DEF LinesTyped
  <2> QED
    BY <1>1, <2>1, EmptySeq
<1> QED
  BY <1>1 DEF Flows

\* A line of the request at hand is said, by one who may.
LEMMA LineSaid ==
    ASSUME Honest, Met, NEW f \in Seq(Line), Flows(f), Fits(f),
           \A i \in 1 .. Len(f) : f[i].type = "Segment", \A v \in Writers : Idle(v),
           NEW w, w.seq = worker.seq, w.alive = worker.alive, DOMAIN w = DOMAIN worker,
           NEW writer \in Writers, NEW type \in {"HelloOk", "Segment"} \union Terminals,
           session.active \in Nat, Say(w, writer, type, session.active),
           type = "HelloOk" <=> client.asked = "Hello", UNCHANGED <<client, session>>
    PROVE  /\ Met'
           /\ \E g \in Seq(Line) :
                /\ Flows(g)' /\ Fits(g)' /\ g # <<>> /\ g[Len(g)].type = type
                /\ \A i \in 1 .. Len(g) : i # Len(g) => g[i].type = "Segment"
                /\ \A v \in Writers : v # writer => Idle(v)'
<1>1. PICK line : line = [type |-> type, req |-> session.active, seq |-> w.seq]
  OBVIOUS
<1>2. PICK n \in Nat : n = Len(f)
  BY LenProperties
<1>3. PICK g : g = Append(f, line)
  OBVIOUS
<1>4. worker.seq \in Nat /\ {"seq", "alive"} \subseteq DOMAIN w
  BY DEF Honest, Pipes
<1>5. line \in Line /\ type \in LineTypes \ {"None"}
  BY <1>1, <1>4 DEF Line, LineTypes, Terminals
<1>6. worker'.seq = After(worker.seq) /\ worker'.alive = worker.alive
  BY <1>4 DEF Say
<1>7. Flows(g)' /\ \A v \in Writers : v # writer => Idle(v)'
  BY <1>1, <1>3, <1>5, HonestLines, FlowSaid
<1>8. Fits(g)'
  <2>1. line.seq = worker.seq /\ line.req = session.active /\ line.type = type
    BY <1>1
  <2> QED
    BY <1>3, <1>5, <1>6, <2>1, FitsSaid
<1>9. /\ g \in Seq(Line) /\ Len(g) = n + 1 /\ g[n + 1] = line
      /\ \A i \in 1 .. n : g[i] = f[i]
  BY <1>2, <1>3, <1>5, AppendProperties
<1>10. g # <<>> /\ g[Len(g)].type = type
  BY <1>1, <1>2, <1>9, EmptySeq
<1>11. \A i \in 1 .. Len(g) : i # Len(g) => g[i].type = "Segment"
  <2>1. \A i \in 1 .. n + 1 : i # n + 1 => i \in 1 .. n
    BY <1>2
  <2> QED
    BY <1>2, <1>9, <2>1
<1> QED
  BY <1>6, <1>7, <1>8, <1>9, <1>10, <1>11, StillMet

\* With the last line of a request, nobody speaks any more.
LEMMA LastSaid ==
    ASSUME Honest, Met, client.pc = "Read", NEW f \in Seq(Line), Flows(f), Fits(f),
           \A i \in 1 .. Len(f) : f[i].type = "Segment", \A v \in Writers : Idle(v),
           NEW w, w.seq = worker.seq, w.alive = worker.alive, DOMAIN w = DOMAIN worker,
           NEW writer \in Writers, NEW type \in {"HelloOk"} \union Terminals,
           session.active \in Nat, Say(w, writer, type, session.active),
           type = "HelloOk" <=> client.asked = "Hello", UNCHANGED <<client, session>>,
           NothingAsked', NobodySpeaks'
    PROVE  InStep'
<1>1. Met' /\ \E g \in Seq(Line) :
                /\ Flows(g)' /\ Fits(g)' /\ g # <<>> /\ g[Len(g)].type = type
                /\ \A i \in 1 .. Len(g) : i # Len(g) => g[i].type = "Segment"
                /\ \A v \in Writers : v # writer => Idle(v)'
  BY LineSaid
<1>2. PICK g \in Seq(Line) :
          /\ Flows(g)' /\ Fits(g)' /\ g # <<>> /\ g[Len(g)].type = type
          /\ \A i \in 1 .. Len(g) : i # Len(g) => g[i].type = "Segment"
  BY <1>1
<1>3. Answered(g)'
  BY <1>2 DEF Answered, Terminals
<1> QED
  BY <1>1, <1>2, <1>3 DEF InStep, Talks

LEMMA WriteOrder ==
    ASSUME Honest, Met, NEW f \in Seq(Line), Talks(f), NEW w \in Writers, Write(w)
    PROVE  InStep'
<1>1. /\ UNCHANGED <<client, session, requests, worker, thread>> /\ ~Idle(w)
      /\ lines' = Append(lines, out[w]) /\ out' = [out EXCEPT ![w] = NoLine]
  BY DEF Write, clientSide, Idle
<1>2. Flows(f)' /\ \A v \in Writers : Idle(v)'
  BY <1>1, HonestLines, FlowWritten DEF Talks
<1>3. Fits(f)'
  BY <1>1 DEF Talks, Fits, NumberAt
<1>4. Talks(f)'
  BY <1>1, <1>2, <1>3
     DEF Talks, Rest, Waiting, Hearing, Answered, NothingAsked, OneAsked, NobodySpeaks
<1> QED
  BY <1>1, <1>4, StillMet DEF InStep

LEMMA WatchOrder ==
    ASSUME Honest, Met, NEW f \in Seq(Line), Talks(f), NEW c \in Calls,
           RequestCancel(c) \/ WatchStep(c)
    PROVE  InStep'
<1>1. UNCHANGED <<client, session, lines, worker, thread, out>>
  BY DEF RequestCancel, WatchStep, SeesToken, LoadsTarget, SendsCancel, GraceEnds
<1>2. /\ NothingAsked => NothingAsked'
      /\ \A type, req : OneAsked(type, req) => OneAsked(type, req)'
  <2>1. CASE UNCHANGED requests
    BY <2>1 DEF NothingAsked, OneAsked
  <2>2. CASE SendToWorker("Cancel", watch[c].target)
    <3>1. PICK ask : ask = [type |-> "Cancel", req |-> watch[c].target]
      OBVIOUS
    <3>2. ask \in Asked
      BY <3>1 DEF Asked, AskTypes, Honest, Tracked
    <3> QED
      BY <2>2, <3>1, <3>2, CancelAppended DEF SendToWorker, Honest, Pipes
  <2> QED
    BY <2>1, <2>2 DEF RequestCancel, WatchStep, SeesToken, LoadsTarget, SendsCancel, GraceEnds
<1>3. Talks(f)'
  BY <1>1, <1>2, SameTalk
<1> QED
  BY <1>1, <1>3, StillMet DEF InStep

LEMMA LineOrder ==
    ASSUME Honest, BusyIsHeld, Met, NEW f \in Seq(Line), Talks(f), HandleLine
    PROVE  InStep'
<1> DEFINE request == Head(requests)
<1>1. /\ UNCHANGED <<client, session>> /\ Dispatch(request)
      /\ requests \in Seq(Asked) /\ requests # <<>> /\ requests' = Tail(requests)
  BY DEF HandleLine, clientSide, Honest, Pipes
<1>2. request \in Asked
  BY <1>1, HeadTailProperties
<1>3. /\ NothingAsked => request.type = "Cancel" /\ NothingAsked'
      /\ \A type \in Asks : \A req :
            OneAsked(type, req) =>
               IF request.type = "Cancel" THEN OneAsked(type, req)'
               ELSE request.type = type /\ request.req = req /\ NothingAsked'
  BY <1>1, HeadTaken
<1> HIDE DEF request
<1>4. CASE request.type = "Cancel"
  <2>1. /\ UNCHANGED <<lines, out, thread>>
        /\ worker'.seq = worker.seq /\ worker'.alive = worker.alive
    BY <1>1, <1>4 DEF Dispatch, HandleCancel, Quiet, Honest, Pipes
  <2>2. client.pc = "Read" => client.asked \in Asks
    BY DEF Met, Asks
  <2>3. Talks(f)'
    <3>1. Flows(f)' /\ Fits(f)' /\ NobodySpeaks' = NobodySpeaks /\ (\A w \in Writers : Idle(w) <=> Idle(w)')
      BY <1>1, <2>1 DEF Talks, Flows, Idle, Fits, NumberAt, NobodySpeaks
    <3>2. CASE client.pc = "Read" /\ Waiting(f)
      <4>1. OneAsked(client.asked, session.active)'
        <5>1. PICK type, req : type = client.asked /\ req = session.active
          OBVIOUS
        <5>2. type \in Asks /\ OneAsked(type, req)
          BY <2>2, <3>2, <5>1 DEF Waiting
        <5>3. OneAsked(type, req)'
          BY <1>3, <1>4, <5>2
        <5>4. client'.asked = type /\ session'.active = req
          BY <1>1, <5>1
        <5> QED
          BY <5>3, <5>4 DEF OneAsked
      <4> QED
        BY <1>1, <3>1, <3>2, <4>1 DEF Talks, Waiting
    <3>3. CASE client.pc = "Read" /\ (Hearing(f) \/ Answered(f))
      BY <1>1, <1>3, <2>1, <3>1, <3>3 DEF Talks, Hearing, Answered
    <3>4. CASE client.pc # "Read"
      BY <1>1, <1>3, <2>1, <3>1, <3>4 DEF Talks, Rest
    <3> QED
      BY <3>2, <3>3, <3>4 DEF Talks
  <2> QED
    BY <1>1, <2>1, <2>3, StillMet DEF InStep
<1>5. CASE request.type # "Cancel"
  <2>1. client.pc = "Read" /\ Waiting(f) /\ client.asked \in Asks
    BY <1>3, <1>5 DEF Talks, Rest, Hearing, Answered, Met, Asks
  <2>2. /\ request.type = client.asked /\ request.req = session.active /\ NothingAsked'
        /\ session.active \in Nat
    BY <1>2, <1>3, <1>5, <2>1 DEF Waiting, Asked
  <2>3. /\ f = <<>> /\ Flows(<<>>) /\ Fits(<<>>) /\ NobodySpeaks
        /\ \A w \in Writers : Idle(w)
    BY <2>1, EmptyFlow, HonestLines DEF Waiting, Talks
  <2>4. /\ Reader \in Writers /\ {"seq", "alive", "loaded"} \subseteq DOMAIN worker
        /\ <<>> \in Seq(Line) /\ \A i \in 1 .. Len(<<>>) : <<>>[i].type = "Segment"
    BY DEF Writers, Honest, Pipes
  <2>5. ASSUME NEW w, DOMAIN w = DOMAIN worker, w.seq = worker.seq, w.alive = worker.alive,
               NEW type \in {"HelloOk"} \union Terminals,
               type = "HelloOk" <=> client.asked = "Hello",
               Say(w, Reader, type, session.active), UNCHANGED thread
        PROVE  InStep'
    <3>1. NobodySpeaks'
      BY <2>3, <2>5 DEF NobodySpeaks
    <3> QED
      BY <1>1, <2>1, <2>2, <2>3, <2>4, <2>5, <3>1, LastSaid
  <2>6. CASE client.asked = "Hello"
    <3>1. Say(worker, Reader, "HelloOk", session.active) /\ UNCHANGED thread
      BY <1>1, <2>1, <2>2, <2>6 DEF Dispatch, HandleHello, Met
    <3> QED
      BY <2>5, <2>6, <3>1
  <2>7. CASE client.asked = "Load"
    <3>1. PICK type \in {"Result", "Error"} :
            Say([worker EXCEPT !.loaded = @ \/ type = "Result"], Reader, type, session.active)
      BY <1>1, <2>2, <2>7 DEF Dispatch, HandleLoad, LoadAnswers
    <3> DEFINE w == [worker EXCEPT !.loaded = @ \/ type = "Result"]
    <3>2. DOMAIN w = DOMAIN worker /\ w.seq = worker.seq /\ w.alive = worker.alive
      BY <2>4
    <3> HIDE DEF w
    <3>3. Say(w, Reader, type, session.active)
      BY <3>1 DEF w
    <3>4. UNCHANGED thread
      BY <1>1, <2>2, <2>7 DEF Dispatch, HandleLoad
    <3> QED
      BY <2>5, <2>7, <3>2, <3>3, <3>4 DEF Terminals
  <2>8. CASE client.asked = "Unload"
    <3> DEFINE w == [worker EXCEPT !.loaded = FALSE]
    <3>1. DOMAIN w = DOMAIN worker /\ w.seq = worker.seq /\ w.alive = worker.alive
      BY <2>4
    <3>2. /\ Say(worker, Reader, "Error", session.active) \/ Say(w, Reader, "Result", session.active)
          /\ UNCHANGED thread
      BY <1>1, <2>2, <2>8 DEF Dispatch, HandleUnload
    <3> HIDE DEF w
    <3> QED
      BY <2>5, <2>8, <3>1, <3>2 DEF Terminals
  <2>9. CASE client.asked = "Transcribe"
    <3>1. HandleTranscribe(session.active)
      BY <1>1, <2>2, <2>9 DEF Dispatch
    <3>2. CASE Say(worker, Reader, "Error", session.active) /\ UNCHANGED thread
      BY <2>5, <2>9, <3>2 DEF Terminals
    <3>3. CASE /\ Quiet([worker EXCEPT !.busy = TRUE])
               /\ thread' = [thread EXCEPT ![session.active] = "Run"]
      <4>1. UNCHANGED <<lines, out>> /\ worker'.seq = worker.seq /\ worker'.alive = worker.alive
        BY <2>4, <3>3 DEF Quiet
      <4>2. \A r \in Requests : r # session.active => thread'[r] \notin Speaking
        BY <2>3, <3>3 DEF NobodySpeaks, BusyIsHeld
      <4>3. Flows(f)' /\ Fits(f)' /\ \A w \in Writers : Idle(w)'
        BY <1>1, <2>3, <4>1 DEF Flows, Fits, NumberAt, Idle
      <4>4. Hearing(f)'
        BY <1>1, <2>2, <2>3, <2>4, <2>9, <4>2, <4>3 DEF Hearing
      <4> QED
        BY <1>1, <2>1, <4>1, <4>3, <4>4, StillMet DEF InStep, Talks
    <3> QED
      BY <3>1, <3>2, <3>3 DEF HandleTranscribe
  <2> QED
    BY <2>1, <2>6, <2>7, <2>8, <2>9 DEF Asks
<1> QED
  BY <1>4, <1>5

LEMMA ThreadOrder ==
    ASSUME Honest, BusyIsHeld, Met, NEW f \in Seq(Line), Talks(f),
           NEW r \in Requests, ThreadStep(r)
    PROVE  InStep'
<1>1. UNCHANGED <<client, session, requests>>
  BY DEF ThreadStep, SaySegment, RunTranscribe, SayResult, EndHelper, ClearTarget, SayCrashed,
         EndPython, clientSide
<1>2. /\ NothingAsked => NothingAsked'
      /\ \A type, req : OneAsked(type, req) => OneAsked(type, req)'
  BY <1>1 DEF NothingAsked, OneAsked
<1>3. ASSUME UNCHANGED <<lines, out>>, worker'.seq = worker.seq, worker'.alive = worker.alive,
             \A x \in Requests : thread'[x] \in Speaking => thread[x] \in Speaking
      PROVE  InStep'
  BY <1>1, <1>2, <1>3, SameTalk, StillMet DEF InStep
<1>4. CASE \/ /\ EndHelper(r) \/ ClearTarget(r) \/ EndPython(r)
           \/ RunTranscribe(r) /\ Quiet(worker) /\ ThreadTo(r, "Panicked")
  <2>1. UNCHANGED <<lines, out>> /\ worker'.seq = worker.seq /\ worker'.alive = worker.alive
    BY <1>4 DEF EndHelper, ClearTarget, EndPython, Quiet, Honest, Pipes
  <2>2. \A x \in Requests : thread'[x] \in Speaking => thread[x] \in Speaking
    <3>1. \E pc : ThreadTo(r, pc) /\ (pc \in Speaking => thread[r] \in Speaking)
      <4>1. CASE EndHelper(r)
        BY <4>1 DEF EndHelper, Free, Speaking
      <4>2. CASE ClearTarget(r)
        BY <4>2 DEF ClearTarget, Free, Speaking
      <4>3. CASE EndPython(r)
        BY <4>3 DEF EndPython, Speaking
      <4>4. CASE RunTranscribe(r) /\ ThreadTo(r, "Panicked")
        BY <4>4 DEF RunTranscribe, Free, Speaking
      <4> QED
        BY <1>4, <4>1, <4>2, <4>3, <4>4
    <3> QED
      BY <3>1 DEF ThreadTo, BusyIsHeld
  <2> QED
    BY <1>3, <2>1, <2>2
<1>5. CASE \E type \in {"Segment"} \union Terminals : \E pc :
              /\ Say(worker, r, type, r) /\ ThreadTo(r, pc)
              /\ thread[r] \in Speaking /\ out[r] = NoLine
              /\ type # "Segment" => pc \notin Speaking
  <2>1. PICK type, pc :
              /\ type \in {"Segment"} \union Terminals
              /\ Say(worker, r, type, r) /\ ThreadTo(r, pc)
              /\ thread[r] \in Speaking /\ out[r] = NoLine
              /\ type # "Segment" => pc \notin Speaking
    BY <1>5
  <2>2. client.pc = "Read" /\ Hearing(f) /\ Flows(f) /\ Fits(f)
    BY <2>1 DEF Talks, Rest, Waiting, Answered, NobodySpeaks
  <2>3. r = session.active /\ r \in Nat /\ r \in Writers
    BY <2>1, <2>2, WorkerAssumption DEF Hearing, WorkerAssumption, Requests, Writers
  <2>4. \A w \in Writers : Idle(w)
    BY <2>1, <2>2, <2>3 DEF Hearing, Idle
  <2>5. NothingAsked' /\ \A x \in Requests : x # session.active => thread'[x] \notin Speaking
    BY <1>2, <2>1, <2>2, <2>3 DEF Hearing, ThreadTo, BusyIsHeld
  <2>6. \A i \in 1 .. Len(f) : f[i].type = "Segment"
    BY <2>2 DEF Hearing
  <2>7. type = "HelloOk" <=> client.asked = "Hello"
    BY <2>1, <2>2 DEF Hearing, Terminals
  <2>8. Say(worker, r, type, session.active) /\ session.active \in Nat
    BY <2>1, <2>3
  <2>9. CASE type \in Terminals
    <3>1. NobodySpeaks'
      BY <2>1, <2>3, <2>5, <2>9 DEF NobodySpeaks, ThreadTo, BusyIsHeld, Terminals
    <3> QED
      BY <1>1, <2>2, <2>3, <2>4, <2>5, <2>6, <2>7, <2>8, <2>9, <3>1, LastSaid
  <2>10. CASE type = "Segment"
    <3>1. Met' /\ \E g \in Seq(Line) :
                /\ Flows(g)' /\ Fits(g)' /\ g # <<>> /\ g[Len(g)].type = type
                /\ \A i \in 1 .. Len(g) : i # Len(g) => g[i].type = "Segment"
                /\ \A v \in Writers : v # r => Idle(v)'
      <4>1. type \in {"HelloOk", "Segment"} \union Terminals /\ DOMAIN worker = DOMAIN worker
        BY <2>10
      <4> QED
        BY <1>1, <2>2, <2>3, <2>4, <2>6, <2>7, <2>8, <4>1, LineSaid
    <3>2. PICK g \in Seq(Line) :
                /\ Flows(g)' /\ Fits(g)' /\ g # <<>> /\ g[Len(g)].type = type
                /\ \A i \in 1 .. Len(g) : i # Len(g) => g[i].type = "Segment"
                /\ \A v \in Writers : v # r => Idle(v)'
      BY <3>1
    <3>3. \A i \in 1 .. Len(g) : g[i].type = "Segment"
      BY <2>10, <3>2
    <3>4. Hearing(g)'
      BY <1>1, <2>2, <2>3, <2>5, <3>2, <3>3 DEF Hearing
    <3> QED
      BY <1>1, <2>2, <3>1, <3>2, <3>4 DEF InStep, Talks
  <2> QED
    BY <2>1, <2>9, <2>10
<1>6. CASE RunTranscribe(r)
  <2>1. thread[r] \in Speaking /\ out[r] = NoLine
    BY <1>6 DEF RunTranscribe, Free, Speaking
  <2>2. \/ Say(worker, r, "Cancelled", r) /\ ThreadTo(r, "Ending")
        \/ Say(worker, r, "Error", r) /\ ThreadTo(r, "Ending")
        \/ Quiet(worker) /\ ThreadTo(r, "Panicked")
    BY <1>6 DEF RunTranscribe
  <2> QED
    BY <1>4, <1>5, <1>6, <2>1, <2>2 DEF Speaking, Terminals
<1>7. CASE SaySegment(r) \/ SayResult(r) \/ SayCrashed(r)
  <2>1. thread[r] \in Speaking /\ out[r] = NoLine
    BY <1>7 DEF SaySegment, SayResult, SayCrashed, Free, Speaking
  <2>2. \/ \E pc : Say(worker, r, "Segment", r) /\ ThreadTo(r, pc)
        \/ Say(worker, r, "Result", r) /\ ThreadTo(r, "Ending")
        \/ Say(worker, r, "Error", r) /\ ThreadTo(r, "Gone")
    BY <1>7 DEF SaySegment, SayResult, SayCrashed
  <2> QED
    BY <1>5, <2>1, <2>2 DEF Speaking, Terminals
<1> QED
  BY <1>4, <1>6, <1>7 DEF ThreadStep

-----------------------------------------------------------------------------
(* The steps of the client. *)

\* Between two requests, and with the next one, the pipes are empty.
LEMMA RestOrder ==
    ASSUME Honest, NEW f \in Seq(Line), Talks(f), client.pc # "Read",
           UNCHANGED <<lines, out, thread>>, worker'.seq = worker.seq,
           session'.next = session.next, session.next \in Nat
    PROVE  /\ NothingAsked /\ Flows(<<>>)' /\ Fits(<<>>)' /\ NobodySpeaks'
           /\ UNCHANGED requests => Rest(<<>>)'
<1>1. f = <<>> /\ Flows(<<>>) /\ Fits(<<>>) /\ NothingAsked /\ NobodySpeaks
  BY DEF Talks, Rest
<1>2. Flows(<<>>)'
  BY <1>1 DEF Flows, Idle
<1>3. Fits(<<>>)'
  BY <1>1 DEF Fits, NumberAt
<1>4. NobodySpeaks'
  BY <1>1 DEF NobodySpeaks
<1>5. UNCHANGED requests => Rest(<<>>)'
  BY <1>1, <1>4 DEF Rest, NothingAsked
<1> QED
  BY <1>1, <1>2, <1>3, <1>4, <1>5

LEMMA AskOrder ==
    ASSUME Honest, NEW f \in Seq(Line), Talks(f), client.pc # "Read",
           NEW type \in Asks, NEW req \in Nat, type \in {"Load", "Unload"} => req \in Model,
           SendToWorker(type, req), ReadFor(type), session'.active = req,
           UNCHANGED <<lines, out, thread>>, worker'.seq = worker.seq,
           session'.next = session.next, session.next \in Nat
    PROVE  \E g \in Seq(Line) : Talks(g)'
<1>1. NothingAsked /\ Flows(<<>>)' /\ Fits(<<>>)' /\ NobodySpeaks'
  BY RestOrder
<1>2. OneAsked(type, req)'
  BY <1>1, AskAppended DEF Honest, Pipes
<1>3. client'.pc = "Read" /\ client'.asked = type
  BY DEF ReadFor, Honest, Tracked
<1>4. Waiting(<<>>)'
  BY <1>1, <1>2, <1>3 DEF Waiting, OneAsked
<1>5. Talks(<<>>)' /\ <<>> \in Seq(Line)
  BY <1>1, <1>3, <1>4 DEF Talks
<1> QED
  BY <1>5

\* The client asks, or goes on without asking.
LEMMA AskingOrder ==
    ASSUME Honest, Met, NEW f \in Seq(Line), Talks(f),
           Spawn \/ LoadModel \/ TranscribeRequest \/ Close
    PROVE  InStep' \/ (client'.pc = "Closed" /\ UNCHANGED session)
<1> DEFINE last == RequestOf(MaxCalls) + 1
<1>1. /\ DOMAIN client = {"pc", "asked", "call"} /\ DOMAIN session = SessionFields
      /\ DOMAIN worker = {"kind", "alive", "loaded", "busy", "targets", "seq"}
      /\ session.next \in Nat /\ None \in Nat
  BY DEF Honest, Tracked, Pipes, Met, SessionFields, None
<1>2. CASE Spawn
  <2>1. /\ client.pc = "Start" /\ SendToWorker("Hello", None) /\ ReadFor("Hello")
        /\ UNCHANGED <<session, lines, out, thread>> /\ session.active = None
        /\ worker'.alive = TRUE /\ worker'.seq = worker.seq
    BY <1>1, <1>2 DEF Spawn, Met
  <2>2. \E g \in Seq(Line) : Talks(g)'
    BY <1>1, <2>1, AskOrder DEF Asks
  <2>3. Met'
    BY <1>1, <2>1 DEF Met, ReadFor
  <2> QED
    BY <2>2, <2>3 DEF InStep
<1>3. CASE LoadModel
  <2>1. /\ client.pc = "Load" /\ SendToWorker("Load", 1) /\ ReadFor("Load")
        /\ UNCHANGED <<lines, out, thread, worker>> /\ session' = BeginRequest(session, 1)
    BY <1>3 DEF LoadModel, CanSend, Met, workerSide
  <2>2. 1 \in Model /\ session'.active = 1 /\ session'.next = session.next
    BY <1>1, <2>1 DEF Model, BeginRequest, SessionFields
  <2>3. \E g \in Seq(Line) : Talks(g)'
    BY <1>1, <2>1, <2>2, AskOrder DEF Asks
  <2>4. Met'
    BY <1>1, <2>1 DEF Met, ReadFor, BeginRequest, SessionFields, None
  <2> QED
    BY <2>3, <2>4 DEF InStep
<1>4. CASE TranscribeRequest
  <2>1. /\ client.pc = "Send" /\ SendToWorker("Transcribe", Awaited) /\ ReadFor("Transcribe")
        /\ UNCHANGED <<lines, out, thread, worker, session>>
    BY <1>4 DEF TranscribeRequest, CanSend, Met
  <2>2. session.active = Awaited /\ Awaited \in Nat /\ Awaited # None /\ ~session.terminal
    <3>1. client.call \in Calls
      BY <2>1 DEF Honest, Tracked, Calling
    <3> QED
      BY <2>1, <3>1, RequestsDiffer, WorkerAssumption
         DEF Honest, Tracked, Awaited, Requests, None
  <2>3. \E g \in Seq(Line) : Talks(g)'
    BY <1>1, <2>1, <2>2, AskOrder DEF Asks
  <2>4. Met'
    BY <1>1, <2>1, <2>2 DEF Met, ReadFor
  <2> QED
    BY <2>3, <2>4 DEF InStep
<1>5. CASE Close /\ CanBeginRequest(session) /\ CanSend
  <2>1. /\ client.pc = "Ready" /\ SendToWorker("Unload", last) /\ ReadFor("Unload")
        /\ UNCHANGED <<lines, out, thread, worker>> /\ session' = BeginRequest(session, last)
    BY <1>5 DEF Close, workerSide
  <2>2. last \in Model /\ last \in Nat /\ last # None
    BY WorkerAssumption DEF WorkerAssumption, RequestOf, Model, None
  <2> HIDE DEF last
  <2>3. session'.active = last /\ session'.next = session.next
    BY <1>1, <2>1 DEF BeginRequest, SessionFields
  <2>4. \E g \in Seq(Line) : Talks(g)'
    BY <1>1, <2>1, <2>2, <2>3, AskOrder DEF Asks
  <2>5. Met'
    BY <1>1, <2>1, <2>2 DEF Met, ReadFor, BeginRequest, SessionFields
  <2> QED
    BY <2>4, <2>5 DEF InStep
<1>6. CASE Close /\ ~(CanBeginRequest(session) /\ CanSend)
  BY <1>1, <1>6 DEF Close, Drop
<1> QED
  BY <1>2, <1>3, <1>4, <1>5, <1>6

\* A call begins and ends.
LEMMA CallOrder ==
    ASSUME Honest, Met, NEW f \in Seq(Line), Talks(f),
           Transcribe \/ TranscribeBegin \/ TranscribeEnd
    PROVE  InStep'
<1>1. /\ DOMAIN client = {"pc", "asked", "call"} /\ DOMAIN session = SessionFields
      /\ session.next \in Nat
  BY DEF Honest, Tracked, Met, SessionFields
<1>2. /\ UNCHANGED <<requests, lines, worker, thread, out>>
      /\ client.pc \in {"Ready", "Begin", "End"}
  BY DEF Transcribe, TranscribeBegin, TranscribeEnd
<1>3. session'.next = session.next /\ client'.pc \in {"Begin", "Send", "Ready"} /\ Met'
  <2>1. CASE Transcribe
    BY <1>1, <2>1 DEF Transcribe, Met
  <2>2. CASE TranscribeBegin
    <3>1. CanBeginRequest(session)
      BY <2>2 DEF TranscribeBegin, Met, CanBeginRequest
    <3>2. /\ client.pc = "Begin" /\ client' = [client EXCEPT !.pc = "Send"]
          /\ session' = BeginRequest(session, Awaited)
      BY <2>2, <3>1 DEF TranscribeBegin
    <3> QED
      BY <1>1, <1>2, <3>2 DEF BeginRequest, Met, SessionFields
  <2>3. CASE TranscribeEnd
    BY <1>1, <2>3 DEF TranscribeEnd, EndRequest, Met, SessionFields
  <2> QED
    BY <2>1, <2>2, <2>3
<1>4. Rest(<<>>)' /\ Flows(<<>>)' /\ Fits(<<>>)'
  BY <1>1, <1>2, <1>3, RestOrder
<1>5. Talks(<<>>)' /\ <<>> \in Seq(Line)
  BY <1>3, <1>4 DEF Talks
<1> QED
  BY <1>3, <1>5 DEF InStep

\* The next line is the one the session expects.
LEMMA FitsRead ==
    ASSUME NEW f \in Seq(Line), f # <<>>, Fits(f),
           session'.next = After(session.next), session'.active = session.active,
           client'.asked = client.asked, UNCHANGED worker
    PROVE  Fits(Tail(f))'
<1>1. PICK n \in Nat : n = Len(f) /\ n >= 1
  BY EmptySeq, LenProperties
<1>2. PICK g : g = Tail(f)
  OBVIOUS
<1>3. Len(g) = n - 1 /\ \A i \in 1 .. n - 1 : g[i] = f[i + 1]
  BY <1>1, <1>2, HeadTailProperties
<1>4. \A i \in 1 .. n : NumberAt(g, i)' = NumberAt(f, i + 1)
  <2>1. ASSUME NEW i \in 1 .. n
        PROVE  NumberAt(f, i + 1) = After(f[i].seq)
    <3>1. i + 1 # 1 /\ (i + 1) - 1 = i
      OBVIOUS
    <3> QED
      BY <3>1 DEF NumberAt
  <2>2. ASSUME NEW i \in 1 .. n
        PROVE  NumberAt(g, i)' = After(f[i].seq)
    <3>1. CASE i = 1
      <4>1. f[1].seq = session.next
        BY <1>1 DEF Fits, NumberAt
      <4> QED
        BY <3>1, <4>1 DEF NumberAt
    <3>2. CASE i # 1
      <4>1. i - 1 \in 1 .. n - 1 /\ (i - 1) + 1 = i
        BY <3>2
      <4> QED
        BY <1>3, <3>2, <4>1 DEF NumberAt
    <3> QED
      BY <3>1, <3>2
  <2> QED
    BY <2>1, <2>2
<1>5. worker'.seq = NumberAt(g, Len(g) + 1)'
  <2>1. Len(g) + 1 = n /\ n \in 1 .. n
    BY <1>1, <1>3
  <2> QED
    BY <1>1, <1>4, <2>1 DEF Fits
<1>6. ASSUME NEW i \in 1 .. n - 1
      PROVE  /\ g[i].seq = NumberAt(g, i)' /\ g[i].req = session.active
             /\ g[i].type \in {"HelloOk", "Segment"} \union Terminals
             /\ g[i].type = "HelloOk" <=> client.asked = "Hello"
  <2>1. i + 1 \in 1 .. n /\ i \in 1 .. n /\ g[i] = f[i + 1]
    BY <1>1, <1>3
  <2> QED
    BY <1>1, <1>4, <2>1 DEF Fits
<1>7. Fits(g)'
  BY <1>3, <1>5, <1>6 DEF Fits
<1> QED
  BY <1>2, <1>7

LEMMA EnvelopeOrder ==
    ASSUME Honest, Met, NEW f \in Seq(Line), Talks(f), ReadEnvelope
    PROVE  \/ InStep'
           \/ client'.pc = "Closed" /\ ~session'.terminated
<1>1. PICK line, s : line = Head(lines) /\ s = AcceptLine(session, line)
  OBVIOUS
<1>2. /\ client.pc = "Read" /\ lines # <<>> /\ lines' = Tail(lines) /\ UNCHANGED requests
      /\ Continue(IF s.terminated THEN "Lost" ELSE line.type, s)
  BY <1>1 DEF ReadEnvelope
<1>3. /\ DOMAIN client = {"pc", "asked", "call"} /\ DOMAIN session = SessionFields
      /\ session.next \in Nat /\ ~session.terminated /\ ~session.terminal
      /\ session.known => client.asked # "Hello"
      /\ client.asked \in Asks /\ (client.asked = "Hello" <=> session.active = None)
      /\ worker.alive
  BY <1>2 DEF Honest, Tracked, Met, SessionFields, Asks
<1>4. f # <<>> /\ Head(f) = line
  BY <1>1, <1>2, HonestLines, FlowRead DEF Talks, ReadEnvelope
<1>5. PICK n \in Nat : n = Len(f) /\ n >= 1 /\ 1 \in 1 .. n
  BY <1>4, EmptySeq, LenProperties
<1>6. /\ f[1] = line /\ line.seq = session.next /\ line.req = session.active
      /\ line.type \in {"HelloOk", "Segment"} \union Terminals
      /\ line.type = "HelloOk" <=> client.asked = "Hello"
  <2>1. f[1] = line
    BY <1>4, HeadTailProperties
  <2>2. f[1].seq = session.next
    BY <1>5 DEF Talks, Fits, NumberAt
  <2> QED
    BY <1>5, <2>1, <2>2 DEF Talks, Fits
<1>7. s = [session EXCEPT !.next = After(@),
                          !.known = @ \/ line.type = "HelloOk",
                          !.terminal = @ \/ (session.active # None /\ line.type \in Terminals)]
  <2>1. InOrder(session, line)
    BY <1>3, <1>6 DEF InOrder, Terminals
  <2> QED
    BY <1>1, <1>3, <2>1 DEF AcceptLine
<1>8. /\ DOMAIN s = SessionFields /\ s.next = After(session.next) /\ s.next \in Nat
      /\ s.active = session.active /\ ~s.terminated /\ (s.terminal => line.type \in Terminals)
      /\ client.asked = "Transcribe" \/ s.terminal => session.active # None
  BY <1>3, <1>7, Numbering DEF SessionFields
<1>9. Continue(line.type, s)
  BY <1>2, <1>8
<1>10. CASE client.asked = "Transcribe" /\ line.type = "Segment"
  <2>1. UNCHANGED <<client, answer, worker, thread, out>> /\ session' = s
    BY <1>9, <1>10 DEF Continue, TranscribeReads, workerSide
  <2>2. PICK g : g = Tail(f)
    OBVIOUS
  <2>3. /\ g \in Seq(Line) /\ Len(g) = n - 1
        /\ \A i \in 1 .. n - 1 : g[i] = f[i + 1] /\ i + 1 \in 1 .. n
    BY <1>4, <1>5, <2>2, HeadTailProperties
  <2>4. Flows(g)'
    BY <1>2, <2>1, <2>2, HonestLines, FlowRead DEF Talks
  <2>5. Fits(g)'
    BY <1>3, <1>4, <1>8, <2>1, <2>2, FitsRead DEF Talks
  <2>6. (\A w \in Writers : Idle(w) <=> Idle(w)')
    BY <2>1 DEF Idle
  <2>7. Talks(g)'
    <3>1. CASE Hearing(f)
      <4>1. \A i \in 1 .. n - 1 : g[i].type = "Segment"
        BY <1>5, <2>3, <3>1 DEF Hearing
      <4>2. Hearing(g)'
        BY <1>2, <1>8, <2>1, <2>3, <2>6, <3>1, <4>1 DEF Hearing, NothingAsked
      <4> QED
        BY <1>2, <2>1, <2>4, <2>5, <4>2 DEF Talks
    <3>2. CASE Answered(f)
      <4>1. n # 1
        BY <1>5, <1>6, <1>10, <3>2 DEF Answered
      <4>2. \A i \in 1 .. n - 1 : g[i].type = "Segment" <=> i # n - 1
        <5>1. \A i \in 1 .. n - 1 : (i + 1 # n <=> i # n - 1)
          BY <1>5
        <5> QED
          BY <1>5, <2>3, <3>2, <5>1 DEF Answered
      <4>3. g # <<>>
        BY <1>5, <2>3, <4>1
      <4>4. Answered(g)'
        BY <1>2, <2>1, <2>3, <3>2, <4>2, <4>3 DEF Answered, NothingAsked, NobodySpeaks
      <4> QED
        BY <1>2, <2>1, <2>4, <2>5, <4>4 DEF Talks
    <3> QED
      BY <1>2, <1>4, <3>1, <3>2 DEF Talks, Waiting
  <2>8. Met'
    BY <1>2, <1>3, <1>8, <1>10, <2>1 DEF Met, Terminals, Asks
  <2> QED
    BY <2>3, <2>7, <2>8 DEF InStep
<1>11. CASE Drop
  <2>1. client'.pc = "Closed"
    BY <1>3, <1>11 DEF Drop
  <2>2. ~session'.terminated
    BY <1>8, <1>9 DEF Continue, EndRequest, SessionFields
  <2> QED
    BY <2>1, <2>2
<1>12. CASE (client.asked # "Transcribe" \/ line.type # "Segment") /\ ~Drop
  <2>1. PICK pc : /\ client' = [client EXCEPT !.pc = pc] /\ UNCHANGED workerSide
                  /\ \/ client.asked = "Hello" /\ pc = "Load" /\ session' = s
                     \/ /\ client.asked = "Load" /\ pc = "Ready" /\ session' = EndRequest(s)
                        /\ line.type = "Result"
                     \/ client.asked = "Transcribe" /\ pc = "End" /\ session' = s
    BY <1>3, <1>9, <1>12 DEF Continue, Reads, TranscribeReads, Answers, Asks
  <2>2. client'.pc = pc /\ pc \in {"Load", "Ready", "End"} /\ UNCHANGED <<worker, thread, out>>
    BY <1>3, <2>1 DEF workerSide
  <2>3. line.type # "Segment"
    BY <1>6, <1>12, <2>1
  <2>4. Answered(f)
    <3>1. ~Hearing(f)
      BY <1>5, <1>6, <2>3 DEF Hearing
    <3>2. ~Waiting(f)
      BY <1>4 DEF Waiting
    <3> QED
      BY <1>2, <3>1, <3>2 DEF Talks
  <2>5. n = 1
    BY <1>5, <1>6, <2>3, <2>4 DEF Answered
  <2>6. Tail(f) = <<>>
    <3>1. Len(Tail(f)) = Len(f) - 1 /\ Tail(f) \in Seq(Line)
      BY <1>4, HeadTailProperties
    <3>2. Len(f) - 1 = 0
      BY <1>5, <2>5
    <3> QED
      BY <3>1, <3>2, EmptySeq
  <2>7. Flows(<<>>)'
    BY <1>2, <2>2, <2>6, HonestLines, FlowRead DEF Talks
  <2>8. /\ DOMAIN session' = SessionFields /\ session'.next = After(session.next)
        /\ session'.next \in Nat /\ ~session'.terminated
        /\ pc \in {"Load", "Ready"} => session'.active = None /\ ~session'.terminal
    BY <1>3, <1>7, <1>8, <2>1 DEF EndRequest, SessionFields, None
  <2>9. Fits(<<>>)'
    <3>1. worker.seq = After(f[1].seq)
      BY <1>5, <2>5 DEF Talks, Fits, NumberAt
    <3>2. worker'.seq = session'.next
      BY <1>6, <2>2, <2>8, <3>1
    <3> QED
      BY <3>2 DEF Fits, NumberAt
  <2>10. Rest(<<>>)'
    BY <1>2, <2>2, <2>4 DEF Answered, Rest, NothingAsked, NobodySpeaks
  <2>11. Talks(<<>>)' /\ <<>> \in Seq(Line)
    BY <2>2, <2>7, <2>9, <2>10 DEF Talks
  <2>12. Met'
    BY <1>3, <2>2, <2>8 DEF Met
  <2> QED
    BY <2>11, <2>12 DEF InStep
<1> QED
  BY <1>10, <1>11, <1>12

\* While nothing has been disturbed, the session is in step with the worker.
LEMMA OrderlyKept ==
    ASSUME Honest, BusyIsHeld, Orderly, [Next]_vars
    PROVE  Orderly'
<1> SUFFICES ASSUME ~seen'.disturbed
             PROVE  /\ ~session'.terminated
                    /\ client'.pc # "Closed" => InStep'
  BY DEF Orderly
<1>1. DOMAIN seen = {"foreign", "produced", "disturbed"}
  BY DEF Honest, Pipes
<1>2. CASE UNCHANGED vars
  <2>1. UNCHANGED <<client, session, lines, out, worker, thread, requests, seen>>
    BY <1>2 DEF vars
  <2>2. (NothingAsked => NothingAsked') /\ \A type, req : OneAsked(type, req) => OneAsked(type, req)'
    BY <2>1 DEF NothingAsked, OneAsked
  <2>3. \A f : Talks(f) => Talks(f)'
    BY <2>1, <2>2, SameTalk
  <2>4. Met => Met'
    BY <2>1, StillMet
  <2> QED
    BY <2>1, <2>3, <2>4 DEF Orderly, InStep
<1>3. ~ReadTimeout /\ ~Crash
  BY <1>1 DEF ReadTimeout, Crash
<1>4. CASE Next
  <2>1. ~seen.disturbed
    <3>1. CASE UNCHANGED seen
      BY <3>1
    <3>2. CASE ReadEnvelope \/ \E r \in Requests : SayResult(r)
      BY <1>1, <3>2 DEF ReadEnvelope, SayResult
    <3> QED
      BY <1>3, <1>4, <3>1, <3>2
         DEF Next, ClientStep, WatchStep, ThreadStep, Spawn, LoadModel, TranscribeBegin,
             TranscribeRequest, TranscribeEnd, EndOfFile, Transcribe, Close, HandleLine,
             RequestCancel, SeesToken, LoadsTarget, SendsCancel, GraceEnds, Write,
             SaySegment, RunTranscribe, EndHelper, ClearTarget, SayCrashed, EndPython
  <2>2. CASE client.pc = "Closed"
    <3>1. UNCHANGED <<client, session>>
      <4>1. ~(\/ Spawn \/ LoadModel \/ TranscribeBegin \/ TranscribeRequest \/ TranscribeEnd
              \/ ReadEnvelope \/ EndOfFile \/ Transcribe \/ Close)
        BY <2>2 DEF Spawn, LoadModel, TranscribeBegin, TranscribeRequest, TranscribeEnd,
                    ReadEnvelope, EndOfFile, Transcribe, Close
      <4>2. CASE HandleLine \/ \E w \in Writers : Write(w)
        BY <4>2 DEF HandleLine, Write, clientSide
      <4>3. CASE \E c \in Calls : RequestCancel(c) \/ WatchStep(c)
        BY <4>3 DEF RequestCancel, WatchStep, SeesToken, LoadsTarget, SendsCancel, GraceEnds
      <4>4. CASE \E r \in Requests : ThreadStep(r)
        BY <4>4 DEF ThreadStep, SaySegment, RunTranscribe, SayResult, EndHelper,
                    ClearTarget, SayCrashed, EndPython, clientSide
      <4> QED
        BY <1>3, <1>4, <4>1, <4>2, <4>3, <4>4 DEF Next, ClientStep
    <3> QED
      BY <2>1, <2>2, <3>1 DEF Orderly
  <2>3. CASE client.pc # "Closed"
    <3>1. PICK f \in Seq(Line) : Talks(f) /\ Met
      BY <2>1, <2>3 DEF Orderly, InStep
    <3>2. ~EndOfFile
      BY <3>1 DEF EndOfFile, Met
    <3>3. InStep' => ~session'.terminated
      BY DEF InStep, Met
    <3>4. CASE Spawn \/ LoadModel \/ TranscribeRequest \/ Close
      BY <3>1, <3>3, <3>4, AskingOrder DEF Met
    <3>5. CASE Transcribe \/ TranscribeBegin \/ TranscribeEnd
      BY <3>1, <3>3, <3>5, CallOrder
    <3>6. CASE ReadEnvelope
      BY <3>1, <3>3, <3>6, EnvelopeOrder
    <3>7. CASE HandleLine
      BY <3>1, <3>3, <3>7, LineOrder
    <3>8. CASE \E c \in Calls : RequestCancel(c) \/ WatchStep(c)
      BY <3>1, <3>3, <3>8, WatchOrder
    <3>9. CASE \E w \in Writers : Write(w)
      BY <3>1, <3>3, <3>9, WriteOrder
    <3>10. CASE \E r \in Requests : ThreadStep(r)
      BY <3>1, <3>3, <3>10, ThreadOrder
    <3> QED
      BY <1>3, <1>4, <3>2, <3>4, <3>5, <3>6, <3>7, <3>8, <3>9, <3>10 DEF Next, ClientStep
  <2> QED
    BY <2>2, <2>3
<1> QED
  BY <1>2, <1>4

LEMMA OrderlyInitially ==
    ASSUME Init
    PROVE  Orderly
<1>1. /\ client.pc = "Start" /\ session = NewSession /\ requests = <<>> /\ lines = <<>>
      /\ worker.seq = 0 /\ \A w \in Writers : out[w] = NoLine
      /\ \A r \in Requests : thread[r] = "None"
  BY DEF Init, NoCalls
<1>2. Met
  BY <1>1 DEF Met, NewSession, None
<1>3. Flows(<<>>)
  BY <1>1 DEF Flows, Idle
<1>4. Fits(<<>>)
  BY <1>1 DEF Fits, NumberAt, NewSession
<1>5. Rest(<<>>)
  BY <1>1 DEF Rest, NothingAsked, NobodySpeaks, Speaking
<1>6. Talks(<<>>) /\ <<>> \in Seq(Line)
  BY <1>1, <1>3, <1>4, <1>5 DEF Talks
<1> QED
  BY <1>1, <1>2, <1>6 DEF Orderly, InStep, NewSession

\* Unless a read times out or the worker dies, the session stays usable for
\* the Jobs to come: whatever else happens to the calls, and however many
\* there are, accept_envelope refuses no line.
THEOREM SessionsSurvive == Spec => []SessionSurvives
<1>1. Init => Orderly
  BY OrderlyInitially
<1>2. Honest /\ BusyIsHeld /\ Orderly /\ [Next]_vars => Orderly'
  BY OrderlyKept
<1>3. Orderly => SessionSurvives
  BY DEF Orderly, SessionSurvives
<1>4. Spec => []Honest
  BY HonestInitially, HonestKept, PTL DEF Spec
<1> QED
  BY <1>1, <1>2, <1>3, <1>4, BusyIsAlwaysHeld, PTL DEF Spec

=============================================================================
