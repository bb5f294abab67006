------------------------------ MODULE AsrWorker -------------------------------
(***************************************************************************)
(* The session of a Batch with its ASR worker (crates/asr/src/worker and   *)
(* application.rs on this side of the pipes; on the other the Rust helper, *)
(* crates/whisper-helper, or the Python worker, runtimes/worker_common.py).*)
(* One session serves the chunks of all Jobs, one call after the other,    *)
(* whatever has become of the call before.                                 *)
(*                                                                         *)
(* Four kinds of actors run at once: the client, the task that watches the *)
(* cancellation token of a call, the worker's reader of requests, and a    *)
(* thread per transcription.  Messages travel through two pipes.           *)
(* "Segment" stands for all that is not terminal (Language, Segment,       *)
(* Progress), of which a transcription may say any number, and request 0   *)
(* for no request.  Line length, version, session id and payloads are left *)
(* out.                                                                    *)
(***************************************************************************)
EXTENDS Integers, Sequences, FiniteSets

CONSTANTS MaxCalls,      \* bound on the calls of transcribe()
          Workers,       \* {"Helper", "Python"}
          MaxPipe,       \* lines the pipe from the worker holds
          Numbers,       \* line numbers wrap around here, for 2^64: no fewer
                         \* than the lines that can be under way
          Outcomes,      \* how an inference may end
          Faults         \* what else may happen

ASSUME WorkerAssumption ==
    /\ MaxCalls \in Nat /\ MaxPipe \in Nat /\ Numbers \in Nat \ {0}
    /\ Workers \subseteq {"Helper", "Python"}
    /\ Outcomes \subseteq {"Result", "Error", "Panic"}
    /\ Faults \subseteq {"Crash", "Timeout", "Cancel"}

Calls == 1 .. MaxCalls
\* alloc_request_id: 1 loads the model, the calls follow, the last one unloads.
Requests == 1 .. MaxCalls + 2
RequestOf(call) == call + 1

VARIABLES client,      \* WorkerClient and the session around it
          session,     \* WorkerProtocolSession
          current,     \* current_request_id, shared with the watchers
          watch,       \* the cancel task of every call, and its target
          token,       \* the call at hand, if its token has been set
          requests,    \* the worker's stdin
          lines,       \* the worker's stdout
          worker,      \* HelperState, or Worker
          thread,      \* the thread of every request
          out,         \* a line with a number that is not yet written
          answer,      \* what every call has returned
          seen         \* history

vars == <<client, session, current, watch, token, requests, lines, worker, thread, out,
          answer, seen>>
clientSide == <<client, session, current, watch, token, answer>>
workerSide == <<worker, thread, out>>

None == 0
Reader == 0               \* the worker's main thread, as a writer of stdout
Writers == {Reader} \union Requests
Terminals == {"Result", "Error", "Cancelled"}
NoLine == [type |-> "None", req |-> None, seq |-> 0]
Watched == [pc |-> "Over", target |-> None]
Calling == \/ client.pc \in {"Begin", "Send", "End"}
           \/ client.pc = "Read" /\ client.asked = "Transcribe"

-----------------------------------------------------------------------------
(* The protocol session. *)

NewSession == [known |-> FALSE, next |-> 0, active |-> None, terminal |-> FALSE,
               terminated |-> FALSE]

CanBeginRequest(s) == ~s.terminated /\ (s.active = None \/ s.terminal)
BeginRequest(s, req) == [s EXCEPT !.active = req, !.terminal = FALSE]
EndRequest(s) == [s EXCEPT !.active = None, !.terminal = FALSE]

\* accept_envelope: which line is in order ...
\* Slip: messages of another request are let through.
InOrderAnyRequest(s, line) ==
    /\ line.type # "Torn" /\ line.seq = s.next
    /\ line.type = "HelloOk" => ~s.known
    /\ s.active = line.req => ~s.terminal
InOrder(s, line) ==
    /\ line.type # "Torn" /\ line.seq = s.next
    /\ line.type = "HelloOk" => ~s.known
    /\ line.type # "HelloOk" /\ s.active # None => s.active = line.req /\ ~s.terminal

After(number) == (number + 1) % Numbers

\* ... and what a line makes of the session.
AcceptLine(s, line) ==
    IF s.terminated \/ ~InOrder(s, line) THEN [s EXCEPT !.terminated = TRUE]
    ELSE [s EXCEPT !.next = After(@),
                   !.known = @ \/ line.type = "HelloOk",
                   !.terminal = @ \/ (s.active # None /\ line.type \in Terminals)]

-----------------------------------------------------------------------------
(* The client. *)

NoCalls == [pc |-> "Start", asked |-> "None", call |-> 0]
Awaited == RequestOf(client.call)

CanSend == worker.alive
SendToWorker(type, req) == requests' = Append(requests, [type |-> type, req |-> req])
ReadFor(asked) == client' = [client EXCEPT !.pc = "Read", !.asked = asked]

\* spawn_command and the first half of hello.
Spawn ==
    /\ client.pc = "Start"
    /\ worker' = [worker EXCEPT !.alive = TRUE]
    /\ ReadFor("Hello") /\ SendToWorker("Hello", None)
    /\ UNCHANGED <<session, current, watch, token, lines, thread, out, answer, seen>>

\* A worker that ends takes its threads and what it has not read along; what
\* it has written can still be read.
WorkerEnds ==
    /\ worker' = [worker EXCEPT !.alive = FALSE, !.busy = FALSE, !.targets = {}]
    /\ thread' = [r \in Requests |-> IF thread[r] = "None" THEN "None" ELSE "Gone"]
    /\ out' = [w \in Writers |-> NoLine]

\* The client is dropped, and its child with it (kill_on_drop).
Drop == client' = [client EXCEPT !.pc = "Closed"] /\ WorkerEnds

\* load_model_with_options; a session that cannot be opened is dropped.
LoadModel ==
    /\ client.pc = "Load"
    /\ session' = BeginRequest(session, 1)
    /\ IF CanSend
       THEN SendToWorker("Load", 1) /\ ReadFor("Load") /\ UNCHANGED workerSide
       ELSE Drop /\ UNCHANGED requests
    /\ UNCHANGED <<current, watch, token, lines, answer, seen>>

\* WorkerAsrSession::transcribe, up to the first look of the client at current.
Transcribe ==
    /\ client.pc = "Ready" /\ client.call < MaxCalls
    /\ client' = [client EXCEPT !.pc = "Begin", !.call = @ + 1]
    /\ watch' = [watch EXCEPT ![client.call + 1].pc = "Polling"]
    /\ UNCHANGED <<session, current, token, requests, lines, worker, thread, out, answer, seen>>

\* abort() reaches a task that waits; one that is at work finishes its turn.
AbortWatch == watch' = [watch EXCEPT ![client.call] =
                          IF @.pc \in {"Firing", "Sending"} THEN @ ELSE Watched]

\* WorkerClient::transcribe: a session that was terminated refuses, and leaves
\* the request behind in current.
TranscribeBegin ==
    /\ client.pc = "Begin"
    /\ current' = Awaited
    /\ IF CanBeginRequest(session)
       THEN /\ session' = BeginRequest(session, Awaited)
            /\ client' = [client EXCEPT !.pc = "Send"]
            /\ UNCHANGED <<answer, watch>>
       ELSE /\ client' = [client EXCEPT !.pc = "Ready"]
            /\ answer' = [answer EXCEPT ![client.call] = "Failed"]
            /\ AbortWatch /\ UNCHANGED session
    /\ token' = IF CanBeginRequest(session) THEN token ELSE {}
    /\ UNCHANGED <<requests, lines, worker, thread, out, seen>>

Answers(a) == /\ answer' = [answer EXCEPT ![client.call] = a]
              /\ client' = [client EXCEPT !.pc = "End"]

TranscribeRequest ==
    /\ client.pc = "Send"
    /\ IF CanSend
       THEN SendToWorker("Transcribe", Awaited) /\ ReadFor("Transcribe") /\ UNCHANGED answer
       ELSE Answers("Failed") /\ UNCHANGED requests
    /\ UNCHANGED <<session, current, watch, token, lines, worker, thread, out, seen>>

\* ... and a token that has been set in the meantime outweighs the words; the
\* run of the Job ends with it.
TranscribeEnd ==
    /\ client.pc = "End"
    /\ current' = None /\ session' = EndRequest(session) /\ AbortWatch
    /\ answer' = [answer EXCEPT ![client.call] =
                    IF @ = "Ok" /\ client.call \in token THEN "Cancelled" ELSE @]
    /\ token' = {}
    /\ client' = [client EXCEPT !.pc = "Ready"]
    /\ UNCHANGED <<requests, lines, worker, thread, out, seen>>

\* close(): unload, then shut down, whatever became of the first.  Nobody reads
\* what a worker says that was told to end, and it ends here at once: by itself,
\* or because it is dropped when the wait for it is over.
Close ==
    /\ client.pc = "Ready"
    /\ IF CanBeginRequest(session) /\ CanSend
       THEN /\ session' = BeginRequest(session, RequestOf(MaxCalls) + 1)
            /\ SendToWorker("Unload", RequestOf(MaxCalls) + 1)
            /\ ReadFor("Unload") /\ UNCHANGED workerSide
       ELSE Drop /\ UNCHANGED <<session, requests>>
    /\ UNCHANGED <<current, watch, token, lines, answer, seen>>

\* What each kind of request does with a line it reads, or with none ("Lost").
Reads(type) ==
    CASE client.asked = "Hello" ->
            IF type = "HelloOk"
            THEN client' = [client EXCEPT !.pc = "Load"] /\ UNCHANGED workerSide
            ELSE Drop
      [] client.asked = "Load" ->
            IF type = "Result"
            THEN client' = [client EXCEPT !.pc = "Ready"] /\ UNCHANGED workerSide
            ELSE Drop
      [] OTHER -> Drop
TranscribeReads(type) ==
    CASE type = "Segment" -> UNCHANGED <<client, answer>>
      [] type = "Result" -> Answers("Ok")
      [] type = "Cancelled" -> Answers("Cancelled")
      [] OTHER -> Answers("Failed")

Continue(type, s) ==
    IF client.asked = "Transcribe"
    THEN session' = s /\ TranscribeReads(type) /\ UNCHANGED workerSide
    ELSE /\ session' = IF client.asked = "Hello" THEN s ELSE EndRequest(s)
         /\ Reads(type) /\ UNCHANGED answer

\* read_envelope: the next line, if it is accepted.
ReadEnvelope ==
    /\ client.pc = "Read" /\ lines # <<>>
    /\ LET line == Head(lines)
           s == AcceptLine(session, line)
       IN  /\ Continue(IF s.terminated THEN "Lost" ELSE line.type, s)
           /\ seen' = IF ~s.terminated /\ client.asked = "Transcribe"
                      THEN [seen EXCEPT !.foreign = @ \union ({line.req} \ {Awaited})]
                      ELSE seen
    /\ lines' = Tail(lines)
    /\ UNCHANGED <<current, watch, token, requests>>

EndOfFile ==
    /\ client.pc = "Read" /\ lines = <<>> /\ ~worker.alive
    /\ Continue("Lost", session)
    /\ UNCHANGED <<current, watch, token, requests, lines, seen>>

\* read_envelope_timeout; a line that has come in part is lost with the read.
\* Slip: the wait has no end.
NoTimeout == FALSE /\ UNCHANGED vars
TornLines == IF lines = <<>> THEN {lines}
             ELSE {lines, <<[Head(lines) EXCEPT !.type = "Torn"]>> \o Tail(lines)}
ReadTimeout ==
    /\ client.pc = "Read" /\ "Timeout" \in Faults
    /\ lines' \in TornLines
    /\ Continue("Lost", session)
    /\ seen' = [seen EXCEPT !.disturbed = TRUE]
    /\ UNCHANGED <<current, watch, token, requests>>

-----------------------------------------------------------------------------
(* The cancel task of a call. *)

Aborted(call) == client.call # call \/ ~Calling
WatchTo(call, pc) == watch' = [watch EXCEPT ![call].pc = pc]

RequestCancel(call) ==
    /\ "Cancel" \in Faults /\ call = client.call
    /\ Calling
    /\ call \notin token /\ token' = token \union {call}
    /\ UNCHANGED <<client, session, current, watch, requests, lines, worker, thread, out,
                   answer, seen>>
SeesToken(call) ==
    /\ watch[call].pc = "Polling" /\ call \in token
    /\ WatchTo(call, "Firing")
    /\ UNCHANGED <<client, session, current, token, requests, lines, worker, thread, out,
                   answer, seen>>
\* cancel_current: if nothing has been asked for yet, that was it.
LoadsTarget(call) ==
    /\ watch[call].pc = "Firing"
    /\ watch' = [watch EXCEPT ![call] =
                   IF current # None THEN [pc |-> "Sending", target |-> current]
                   ELSE IF Aborted(call) THEN Watched ELSE [pc |-> "Grace", target |-> None]]
    /\ UNCHANGED <<client, session, current, token, requests, lines, worker, thread, out,
                   answer, seen>>
SendsCancel(call) ==
    /\ watch[call].pc = "Sending"
    /\ IF CanSend THEN SendToWorker("Cancel", watch[call].target) ELSE UNCHANGED requests
    /\ watch' = [watch EXCEPT ![call] = IF Aborted(call) THEN Watched
                                        ELSE [pc |-> "Grace", target |-> None]]
    /\ UNCHANGED <<client, session, current, token, lines, worker, thread, out, answer, seen>>
GraceEnds(call) ==
    /\ watch[call].pc = "Grace"
    /\ WatchTo(call, "Expired")
    /\ UNCHANGED <<client, session, current, token, requests, lines, worker, thread, out,
                   answer, seen>>

-----------------------------------------------------------------------------
(* The worker: lines. *)

\* The helper numbers a line first and locks stdout then; the Python worker
\* does both under one lock.  Who writes to a full pipe waits.
PipeHasRoom == Len(lines) < MaxPipe
Say(w, writer, type, req) ==
    LET line == [type |-> type, req |-> req, seq |-> w.seq]
    IN  /\ worker' = [w EXCEPT !.seq = After(@)]
        /\ IF w.kind = "Python"
           THEN PipeHasRoom /\ lines' = Append(lines, line) /\ UNCHANGED out
           ELSE out' = [out EXCEPT ![writer] = line] /\ UNCHANGED lines
Write(writer) ==
    /\ worker.alive /\ out[writer] # NoLine /\ PipeHasRoom
    /\ lines' = Append(lines, out[writer])
    /\ out' = [out EXCEPT ![writer] = NoLine]
    /\ UNCHANGED <<clientSide, requests, worker, thread, seen>>

Quiet(w) == worker' = w /\ UNCHANGED <<lines, out>>

-----------------------------------------------------------------------------
(* The worker: requests.  Each operator says what the reader does with one. *)

HandleHello == Say(worker, Reader, "HelloOk", None) /\ UNCHANGED thread

\* load_model: refused while a transcription runs, else as the engine says.
LoadAnswers == IF worker.busy THEN {"Error"} ELSE {"Result", "Error"}
HandleLoad(req) ==
    /\ \E type \in LoadAnswers :
          Say([worker EXCEPT !.loaded = @ \/ type = "Result"], Reader, type, req)
    /\ UNCHANGED thread

\* The helper unloads under a transcription, the Python worker refuses.
HandleUnload(req) ==
    /\ IF worker.kind = "Python" /\ worker.busy
       THEN Say(worker, Reader, "Error", req)
       ELSE Say([worker EXCEPT !.loaded = FALSE], Reader, "Result", req)
    /\ UNCHANGED thread

\* handle_transcribe: one at a time.
\* Slip: a busy worker takes another one.
HandleTranscribeAnyway(req) ==
    /\ Quiet([worker EXCEPT !.busy = TRUE])
    /\ thread' = [thread EXCEPT ![req] = "Run"]
HandleTranscribe(req) ==
    IF worker.busy \/ ~worker.loaded
    THEN Say(worker, Reader, "Error", req) /\ UNCHANGED thread
    ELSE /\ Quiet([worker EXCEPT !.busy = TRUE])
         /\ thread' = [thread EXCEPT ![req] = "Run"]

\* The helper keeps the last target it was told, the Python worker an event
\* for each transcription that is under way.
Live == {"Run", "Speak", "Ending"}
HandleCancel(target) ==
    /\ Quiet(IF worker.kind = "Helper" THEN [worker EXCEPT !.targets = {target}]
             ELSE IF target \in Requests /\ thread[target] \in Live
             THEN [worker EXCEPT !.targets = @ \union {target}] ELSE worker)
    /\ UNCHANGED thread

\* run of the Python worker; handle_line of the helper tells the same apart.
Dispatch(request) ==
    CASE request.type = "Hello" -> HandleHello
      [] request.type = "Load" -> HandleLoad(request.req)
      [] request.type = "Unload" -> HandleUnload(request.req)
      [] request.type = "Transcribe" -> HandleTranscribe(request.req)
      [] OTHER -> HandleCancel(request.req)
HandleLine ==
    /\ worker.alive /\ requests # <<>> /\ out[Reader] = NoLine
    /\ Dispatch(Head(requests))
    /\ requests' = Tail(requests)
    /\ UNCHANGED <<clientSide, seen>>

-----------------------------------------------------------------------------
(* The worker: the thread of a transcription. *)

ThreadTo(req, pc) == thread' = [thread EXCEPT ![req] = pc]
Free(req, pc) == worker.alive /\ thread[req] = pc /\ out[req] = NoLine

IsCancelled(req) == req \in worker.targets

\* What is not terminal, any number of times.  In "Run" the thread looks at its
\* target before it goes on, in "Speak" it says what it has.
SaySegment(req) ==
    /\ "Result" \in Outcomes
    /\ \/ Free(req, "Run") /\ ~IsCancelled(req)
       \/ Free(req, "Speak")
    /\ Say(worker, req, "Segment", req)
    /\ \E pc \in {"Run", "Speak"} : ThreadTo(req, pc)
    /\ UNCHANGED <<clientSide, requests, seen>>

\* run_transcribe: cancelled, or refused by the engine.
\* Slip: the thread goes on after it has said that it was cancelled.
RunTranscribeOn(req) ==
    /\ Free(req, "Run")
    /\ \/ /\ IsCancelled(req) /\ Say(worker, req, "Cancelled", req)
          /\ ThreadTo(req, "Speak")
       \/ Quiet(worker) /\ ThreadTo(req, "Speak")
    /\ UNCHANGED <<clientSide, requests, seen>>
RunTranscribe(req) ==
    /\ Free(req, "Run")
    /\ \/ /\ IsCancelled(req) /\ Say(worker, req, "Cancelled", req)
          /\ ThreadTo(req, "Ending")
       \/ /\ "Error" \in Outcomes /\ Say(worker, req, "Error", req)
          /\ ThreadTo(req, "Ending")
       \/ /\ "Panic" \in Outcomes /\ worker.kind = "Helper" /\ Quiet(worker)
          /\ ThreadTo(req, "Panicked")
    /\ UNCHANGED <<clientSide, requests, seen>>

\* It ends with the words it has said.
SayResult(req) ==
    /\ Free(req, "Speak")
    /\ Say(worker, req, "Result", req)
    /\ ThreadTo(req, "Ending")
    /\ seen' = [seen EXCEPT !.produced = @ \union {req}]
    /\ UNCHANGED <<clientSide, requests>>

\* The helper's thread: busy first, then the target, whosever it is by now.
EndHelper(req) ==
    /\ worker.kind = "Helper"
    /\ \E pc \in {"Ending", "Panicked"} :
          Free(req, pc) /\ ThreadTo(req, IF pc = "Ending" THEN "Clearing" ELSE "ClearingPanic")
    /\ Quiet([worker EXCEPT !.busy = FALSE])
    /\ UNCHANGED <<clientSide, requests, seen>>
ClearTarget(req) ==
    /\ \E pc \in {"Clearing", "ClearingPanic"} :
          Free(req, pc) /\ ThreadTo(req, IF pc = "Clearing" THEN "Gone" ELSE "Crashed")
    /\ Quiet([worker EXCEPT !.targets = {}])
    /\ UNCHANGED <<clientSide, requests, seen>>
SayCrashed(req) ==
    /\ Free(req, "Crashed")
    /\ Say(worker, req, "Error", req)
    /\ ThreadTo(req, "Gone")
    /\ UNCHANGED <<clientSide, requests, seen>>

\* The Python thread: all of it under the lock.
EndPython(req) ==
    /\ worker.kind = "Python" /\ Free(req, "Ending")
    /\ Quiet([worker EXCEPT !.busy = FALSE, !.targets = @ \ {req}])
    /\ ThreadTo(req, "Gone")
    /\ UNCHANGED <<clientSide, requests, seen>>

Crash ==
    /\ "Crash" \in Faults /\ worker.alive
    /\ WorkerEnds /\ requests' = <<>>
    /\ seen' = [seen EXCEPT !.disturbed = TRUE]
    /\ UNCHANGED <<clientSide, lines>>

-----------------------------------------------------------------------------

Init ==
    /\ client = NoCalls /\ session = NewSession /\ current = None
    /\ watch = [c \in Calls |-> [pc |-> "None", target |-> None]]
    /\ token = {} /\ requests = <<>> /\ lines = <<>>
    /\ worker \in [kind : Workers, alive : {FALSE}, loaded : {FALSE}, busy : {FALSE},
                   targets : {{}}, seq : {0}]
    /\ thread = [r \in Requests |-> "None"] /\ out = [w \in Writers |-> NoLine]
    /\ answer = [c \in Calls |-> "None"]
    /\ seen = [foreign |-> {}, produced |-> {}, disturbed |-> FALSE]

ClientStep == \/ Spawn \/ LoadModel \/ TranscribeBegin \/ TranscribeRequest
              \/ TranscribeEnd
              \/ ReadEnvelope \/ EndOfFile \/ ReadTimeout
WatchStep(call) == SeesToken(call) \/ LoadsTarget(call) \/ SendsCancel(call) \/ GraceEnds(call)
ThreadStep(req) == SaySegment(req) \/ RunTranscribe(req) \/ SayResult(req) \/ EndHelper(req)
                   \/ ClearTarget(req) \/ SayCrashed(req) \/ EndPython(req)
Next == \/ ClientStep \/ Transcribe \/ Close \/ HandleLine \/ Crash
        \/ \E c \in Calls : RequestCancel(c) \/ WatchStep(c)
        \/ \E w \in Writers : Write(w)
        \/ \E r \in Requests : ThreadStep(r)

Spec == Init /\ [][Next]_vars
\* The client is a task of the runtime: a read that is not answered times out.
FairSpec == Spec /\ WF_vars(ClientStep)

-----------------------------------------------------------------------------

\* Types, and what the two sides agree on: while a call reads, its request is
\* the one the session tracks and the watcher would cancel.
TypeOK ==
    /\ client.call \in 0 .. MaxCalls /\ token \subseteq Calls
    /\ current \in {None} \union Requests
    /\ session.active \in {None} \union Requests
    /\ \A r \in Requests : thread[r] \in Live \union
          {"None", "Panicked", "Clearing", "ClearingPanic", "Crashed", "Gone"}
    /\ \A c \in Calls : answer[c] \in {"None", "Ok", "Failed", "Cancelled"}
    /\ client.pc = "Read" /\ client.asked = "Transcribe"
          => current = Awaited /\ session.active = Awaited /\ ~session.terminal

\* A transcript belongs to the audio it was asked for: nothing a call takes in
\* stems from another request, and Ok is said of a request the worker has
\* answered.  The session is used again after timeouts and refusals, with lines
\* of abandoned requests still on their way.
AnswerIsItsOwn ==
    /\ seen.foreign = {}
    /\ \A c \in Calls : answer[c] = "Ok" => RequestOf(c) \in seen.produced

\* ADR 0003: "One active transcription per worker", also when the client has
\* given up on one and asks for the next.
OneInference ==
    Cardinality({r \in Requests : thread[r] \in {"Run", "Speak"}}) <= 1

\* Unless a read times out or the worker dies, the lines come in order and one
\* terminal per request: nothing that a worker does by itself, cancelled or
\* panicking, makes the session unusable for the Jobs to come.
SessionSurvives == ~seen.disturbed => ~session.terminated

\* A worker that is silent, dead or hung holds no call, and none is held by what
\* an abandoned transcription says: a call reads for ever only if the worker
\* talks for ever of that very call.  Every line allows it another time-out,
\* and there is no limit for a call as a whole.
TalksOfCall == client.pc = "Read" /\ client.asked = "Transcribe" /\ SaySegment(Awaited)
CallReturns == []<><<TalksOfCall>>_vars \/ (client.pc = "Read" ~> client.pc # "Read")

\* ADR 0003: "Cancellation escalates to process-tree kill after grace."
GraceEndsInKill ==
    \A c \in Calls : watch[c].pc = "Expired" /\ client.pc = "Read" => ~worker.alive

=============================================================================
