-------------------------- MODULE LlmPipelineProofs ---------------------------
(***************************************************************************)
(* Proofs about LlmPipeline, for any number of cues, batches, attempts and *)
(* runs, and any threshold of the breaker: what a provider has to put up   *)
(* with, that no cue is lost, and that no work is done twice.              *)
(*                                                                         *)
(* ProviderSpared is not inductive: it does not say where a run stands     *)
(* when its last request left, nor that the breaker has counted at least   *)
(* the failures in a row.                                                  *)
(*                                                                         *)
(* EveryCueAccounted looks at a run that is over.  Accounted says the same *)
(* of a run under way: the cues before Front are done with and the ranges  *)
(* that are left follow it, one after the other, to the end of the batch   *)
(* at hand; and a result on disk says the same of its batch, because a     *)
(* later run may go on from there.                                         *)
(***************************************************************************)
EXTENDS LlmPipeline, SequenceTheorems, TLAPS

Shapes ==
    /\ "pc" \in DOMAIN run /\ {"late", "streak"} \subseteq DOMAIN seen
    /\ breaker \in Breaker /\ cancel \in BOOLEAN
    /\ seen.late \in {0, 1} /\ seen.streak \in 0 .. Threshold

\* After the request that left too late, the run goes nowhere near a request.
LateIsLast ==
    seen.late = 1 => run.pc # "Send" /\ (cancel \/ run.pc \notin Active)

\* The breaker knows of every failure in a row, and is open after the last.
FailuresAreCounted ==
    /\ seen.streak <= breaker.failures
    /\ seen.streak = Threshold =>
           breaker.state = "Open" /\ breaker.opened = "Running" /\ run.pc # "Await"

KeyIsGood == run.pc = "Await" => ~breaker.auth_locked

Spared == Shapes /\ LateIsLast /\ FailuresAreCounted /\ KeyIsGood

LEMMA SparedSuffices == Spared => ProviderSpared
BY BreakerAssumption DEF Spared, Shapes, KeyIsGood, ProviderSpared

\* A step within a run that sends nothing and learns nothing of the provider.
LEMMA QuietStep ==
    ASSUME Spared, run.pc \in Active, UNCHANGED <<breaker, cancel, seen>>,
           "pc" \in DOMAIN run', run'.pc \notin {"Send", "Await"}
    PROVE  Spared'
BY DEF Spared, Shapes, LateIsLast, FailuresAreCounted, KeyIsGood

LEMMA GoesTo ==
    ASSUME "pc" \in DOMAIN run, NEW pc, Goes(pc)
    PROVE  "pc" \in DOMAIN run' /\ run'.pc = pc
BY DEF Goes

LEMMA FailsThere ==
    ASSUME "pc" \in DOMAIN run, NEW error, Fails(error)
    PROVE  "pc" \in DOMAIN run' /\ run'.pc = "Failed"
BY DEF Fails

LEMMA AsksNext ==
    ASSUME NEW r, NEW pending, "pc" \in DOMAIN r, run' = NextAsked(r, pending)
    PROVE  "pc" \in DOMAIN run' /\ run'.pc \in {"Persist", "Check"}
BY DEF NextAsked

LEMMA IsolateAsks ==
    ASSUME "pc" \in DOMAIN run, Isolate
    PROVE  "pc" \in DOMAIN run' /\ run'.pc \in {"Persist", "Check"}
<1>1. PICK r, pending : "pc" \in DOMAIN r /\ run' = NextAsked(r, pending)
  BY DEF Isolate
<1> QED BY <1>1, AsksNext

\* A call that failed is tried again, taken apart, or the end of the run.
AfterError == {"Sleep", "Persist", "Check", "Failed"}
LEMMA ErrorGoesOn ==
    ASSUME "pc" \in DOMAIN run, NEW code, NEW wait, TransportError(code, wait)
    PROVE  "pc" \in DOMAIN run' /\ run'.pc \in AfterError
BY IsolateAsks, FailsThere DEF TransportError, AfterError

LEMMA RepairAsks ==
    ASSUME "pc" \in DOMAIN run, Repair
    PROVE  "pc" \in DOMAIN run' /\ run'.pc \in {"Persist", "Check"}
BY IsolateAsks DEF Repair

LEMMA AcceptAsks ==
    ASSUME "pc" \in DOMAIN run, NEW text, Accept(text)
    PROVE  "pc" \in DOMAIN run' /\ run'.pc \in {"Persist", "Check"}
<1> DEFINE r == [run EXCEPT !.accepted = @ \union Within(Current),
                            !.misaligned = IF text = "Misaligned"
                                           THEN @ \union Within(Current) ELSE @]
<1>1. "pc" \in DOMAIN r
  OBVIOUS
<1>2. run' = NextAsked(r, Tail(run.pending))
  BY DEF Accept
<1> QED BY <1>1, <1>2, AsksNext

-----------------------------------------------------------------------------
(* One lemma per kind of step. *)

QuietPcs == {"Prompt", "Plan", "Units", "Batch", "Check", "Commit", "Finish"} \union Ended
LEMMA QuietStepGoes ==
    ASSUME "pc" \in DOMAIN run,
           \/ Execute \/ MaterializePrompt \/ PlanBatches \/ EnsureUnits \/ NextPlanned
           \/ NextTranslated \/ Persist \/ Commit \/ Finish
    PROVE  "pc" \in DOMAIN run' /\ run'.pc \in QuietPcs
<1>1. CASE Execute
  BY <1>1, GoesTo DEF Execute, UnlessCancelled, QuietPcs, Ended
<1>2. CASE MaterializePrompt
  BY <1>2, GoesTo DEF MaterializePrompt, QuietPcs
<1>3. CASE PlanBatches
  BY <1>3, FailsThere DEF PlanBatches, QuietPcs, Ended
<1>4. CASE EnsureUnits
  BY <1>4, GoesTo DEF EnsureUnits, QuietPcs
<1>5. CASE NextPlanned
  BY <1>5, GoesTo, FailsThere DEF NextPlanned, UnlessCancelled, Ask, QuietPcs, Ended
<1>6. CASE NextTranslated
  BY <1>6, GoesTo, FailsThere DEF NextTranslated, UnlessCancelled, Ask, QuietPcs, Ended
<1>7. CASE Persist
  BY <1>7, GoesTo DEF Persist, NextBatch, QuietPcs, Ended
<1>8. CASE Commit
  BY <1>8, FailsThere DEF Commit, QuietPcs, Ended
<1>9. CASE Finish
  BY <1>9, GoesTo, FailsThere DEF Finish, QuietPcs, Ended
<1> QED BY <1>1, <1>2, <1>3, <1>4, <1>5, <1>6, <1>7, <1>8, <1>9

LEMMA QuietSteps ==
    ASSUME Spared,
           \/ Execute \/ MaterializePrompt \/ PlanBatches \/ EnsureUnits \/ NextPlanned
           \/ NextTranslated \/ Persist \/ Commit \/ Finish
    PROVE  Spared'
<1>1. "pc" \in DOMAIN run
  BY DEF Spared, Shapes
<1>2. UNCHANGED <<breaker, cancel, seen>> /\ run.pc \in Active
  BY DEF Execute, MaterializePrompt, PlanBatches, EnsureUnits, NextPlanned, NextTranslated,
         Persist, Commit, Finish, Active
<1>3. "pc" \in DOMAIN run' /\ run'.pc \in QuietPcs
  BY <1>1, QuietStepGoes
<1> QED BY <1>2, <1>3, QuietStep DEF QuietPcs, Ended

LEMMA CheckKeeps ==
    ASSUME Spared, CheckCancel
    PROVE  Spared'
<1>1. "pc" \in DOMAIN run /\ run.pc \in Active
  BY DEF CheckCancel, Spared, Shapes, Active
<1>2. CASE cancel
  BY <1>1, <1>2, GoesTo, QuietStep DEF CheckCancel, UnlessCancelled
<1>3. CASE ~cancel
  <2>1. "pc" \in DOMAIN run' /\ run'.pc = "Send"
    BY <1>1, <1>3, GoesTo DEF CheckCancel, UnlessCancelled
  <2>2. seen.late # 1
    BY <1>1, <1>3 DEF Spared, LateIsLast
  <2> QED BY <2>1, <2>2 DEF CheckCancel, Spared, Shapes, LateIsLast, FailuresAreCounted, KeyIsGood
<1> QED BY <1>2, <1>3

\* Only a breaker that is not open, and not locked, lets a request out.
LEMMA SendKeeps ==
    ASSUME Spared, Send
    PROVE  Spared'
<1> DEFINE b == Refresh(breaker)
<1>1. "pc" \in DOMAIN run /\ run.pc = "Send" /\ seen.late = 0
  BY DEF Send, Spared, Shapes, LateIsLast
<1>2. /\ b \in Breaker /\ breaker' \in Breaker
      /\ breaker'.state = b.state /\ breaker'.auth_locked = b.auth_locked
      /\ breaker'.failures = breaker.failures /\ breaker'.opened = breaker.opened
      /\ seen.streak = Threshold => b.state = "Open"
  BY DEF Send, Refresh, Guarded, Breaker, Timer, Spared, Shapes, FailuresAreCounted
<1>3. CASE Verdict(b) = "Ok"
  <2>1. "pc" \in DOMAIN run' /\ run'.pc = "Await"
    BY <1>1, <1>3, GoesTo DEF Send
  <2>2. b.state # "Open" /\ ~b.auth_locked
    BY <1>3 DEF Verdict
  <2>3. /\ {"late", "streak"} \subseteq DOMAIN seen' /\ seen'.streak = seen.streak
        /\ seen'.late = IF cancel THEN 1 ELSE 0
    BY <1>1, <1>3 DEF Send, Spared, Shapes
  <2> QED BY <1>2, <2>1, <2>2, <2>3 DEF Send, Spared, Shapes, LateIsLast, FailuresAreCounted,
                                        KeyIsGood
<1>4. CASE Verdict(b) # "Ok"
  <2>1. "pc" \in DOMAIN run' /\ run'.pc \in AfterError
    BY <1>1, <1>4, ErrorGoesOn DEF Send
  <2>2. seen.streak = Threshold => breaker'.state = "Open" /\ breaker'.opened = "Running"
    BY <1>2 DEF Spared, FailuresAreCounted
  <2> QED BY <1>1, <1>2, <1>4, <2>1, <2>2 DEF Send, Spared, Shapes, LateIsLast,
                                              FailuresAreCounted, KeyIsGood, AfterError
<1> QED BY <1>3, <1>4

LEMMA TextKeeps ==
    ASSUME Spared, AnswerText
    PROVE  Spared'
<1>1. "pc" \in DOMAIN run /\ run.pc = "Await"
  BY DEF AnswerText, Spared, Shapes
<1>2. "pc" \in DOMAIN run' /\ run'.pc \in {"Persist", "Check", "Cancelled"}
  BY <1>1, GoesTo, RepairAsks, AcceptAsks DEF AnswerText, UnlessCancelled
<1>3. breaker' \in Breaker /\ breaker'.failures = 0
  BY BreakerAssumption DEF AnswerText, RecordSuccess, NewBreaker, Breaker, Timer, Spared, Shapes
<1>4. {"late", "streak"} \subseteq DOMAIN seen' /\ seen'.streak = 0 /\ seen'.late = seen.late
  BY DEF AnswerText, Spared, Shapes
<1>5. seen.late = 1 => cancel
  BY <1>1 DEF Spared, LateIsLast, Active
<1> QED BY <1>2, <1>3, <1>4, <1>5, BreakerAssumption
        DEF AnswerText, Spared, Shapes, LateIsLast, FailuresAreCounted, KeyIsGood

\* A failure that counts is counted, and the one that makes the threshold full
\* opens the circuit.
LEMMA FailureCounts ==
    ASSUME NEW b \in Breaker, NEW code, NEW retryAfter, NEW c,
           c = RecordFailure(b, code, retryAfter)
    PROVE  /\ c \in Breaker /\ c.failures >= b.failures
           /\ code \in Recoverable =>
                 \/ c.failures = b.failures + 1 /\ c.failures < Threshold
                 \/ c.failures = Threshold /\ c.state = "Open" /\ c.opened = "Running"
<1> DEFINE count == IF b.failures < Threshold THEN b.failures + 1 ELSE Threshold
           noted == [b EXCEPT !.retry_after = IF retryAfter THEN "Running" ELSE @]
<1>1. count \in 0 .. Threshold /\ count >= b.failures
  BY BreakerAssumption DEF Breaker
<1>2. noted \in Breaker /\ noted.failures = b.failures
  BY DEF Breaker, Timer
<1>3. CASE code = "Auth"
  <2>1. c = [b EXCEPT !.auth_locked = TRUE, !.state = "Open", !.opened = "Running"]
    BY <1>3 DEF RecordFailure
  <2>2. c \in Breaker /\ c.failures = b.failures
    BY <2>1 DEF Breaker, Timer
  <2> QED BY <1>3, <2>2, BreakerAssumption DEF Breaker, Recoverable
<1>4. CASE code # "Auth" /\ code \notin Recoverable
  <2>1. c = noted
    BY <1>4 DEF RecordFailure
  <2> QED BY <1>2, <1>4, <2>1, BreakerAssumption DEF Breaker
<1>5. CASE code \in Recoverable /\ count >= Threshold
  <2>1. c = [noted EXCEPT !.failures = count, !.state = "Open", !.opened = "Running"]
    BY <1>5 DEF RecordFailure, Recoverable
  <2> HIDE DEF noted, count
  <2>2. c \in Breaker /\ c.failures = count /\ c.state = "Open" /\ c.opened = "Running"
    BY <1>1, <1>2, <2>1 DEF Breaker, Timer
  <2> QED BY <1>1, <1>5, <2>2, BreakerAssumption
<1>6. CASE code \in Recoverable /\ ~(count >= Threshold)
  <2>1. c = [noted EXCEPT !.failures = count]
    BY <1>6 DEF RecordFailure, Recoverable
  <2>2. count = b.failures + 1 /\ count < Threshold
    BY <1>1, <1>6, BreakerAssumption DEF Breaker
  <2> HIDE DEF noted, count
  <2>3. c \in Breaker /\ c.failures = count
    BY <1>1, <1>2, <2>1 DEF Breaker, Timer
  <2> QED BY <1>1, <2>2, <2>3
<1> QED BY <1>3, <1>4, <1>5, <1>6

LEMMA ErrorKeeps ==
    ASSUME Spared, AnswerError
    PROVE  Spared'
<1>1. "pc" \in DOMAIN run /\ run.pc = "Await"
  BY DEF AnswerError, Spared, Shapes
<1>2. PICK failure, wait :
        /\ breaker' = RecordFailure(breaker, CodeOf(failure), wait # "Backoff")
        /\ TransportError(CodeOf(failure), wait)
        /\ DOMAIN seen' = DOMAIN seen /\ seen'.late = seen.late
        /\ seen'.streak = IF CodeOf(failure) \in Recoverable THEN seen.streak + 1
                          ELSE seen.streak
  BY DEF AnswerError, Spared, Shapes
<1> DEFINE code == CodeOf(failure)
<1>3. "pc" \in DOMAIN run' /\ run'.pc \in AfterError
  BY <1>1, <1>2, ErrorGoesOn
<1>4. /\ breaker' \in Breaker /\ breaker'.failures >= breaker.failures
      /\ code \in Recoverable =>
            \/ breaker'.failures = breaker.failures + 1 /\ breaker'.failures < Threshold
            \/ /\ breaker'.failures = Threshold
               /\ breaker'.state = "Open" /\ breaker'.opened = "Running"
  <2>1. breaker \in Breaker
    BY DEF Spared, Shapes
  <2> QED BY <1>2, <2>1, FailureCounts
<1>5. seen.streak < Threshold /\ seen.streak <= breaker.failures
  BY <1>1, BreakerAssumption DEF Spared, Shapes, FailuresAreCounted
<1>6. /\ seen'.streak \in 0 .. Threshold /\ seen'.streak <= breaker'.failures
      /\ seen'.streak = Threshold => breaker'.state = "Open" /\ breaker'.opened = "Running"
  BY <1>2, <1>4, <1>5, BreakerAssumption DEF Spared, Shapes, Breaker
<1>7. seen.late = 1 => cancel
  BY <1>1 DEF Spared, LateIsLast, Active
<1> QED BY <1>2, <1>3, <1>4, <1>6, <1>7
        DEF AnswerError, Spared, Shapes, LateIsLast, FailuresAreCounted, KeyIsGood, AfterError

LEMMA ElapsingKeeps ==
    ASSUME NEW b \in Breaker
    PROVE  /\ ElapseRetry(b) \in Breaker
           /\ ElapseRetry(b) = [b EXCEPT !.retry_after = ElapseRetry(b).retry_after]
           /\ ElapseOpen(b) \in Breaker
           /\ ElapseOpen(b) = [b EXCEPT !.opened = ElapseOpen(b).opened]
BY DEF ElapseRetry, ElapseOpen, Breaker, Timer

LEMMA SleepKeeps ==
    ASSUME Spared, SleepOver
    PROVE  Spared'
<1>1. "pc" \in DOMAIN run' /\ run'.pc = "Check"
  BY DEF SleepOver, Spared, Shapes
<1>2. /\ breaker' \in Breaker /\ breaker'.failures = breaker.failures
      /\ breaker'.state = breaker.state /\ breaker'.opened = breaker.opened
  BY ElapsingKeeps DEF SleepOver, Spared, Shapes, Breaker
<1>3. seen.late = 1 => cancel
  BY DEF SleepOver, Spared, LateIsLast, Active
<1> QED BY <1>1, <1>2, <1>3 DEF SleepOver, Spared, Shapes, LateIsLast, FailuresAreCounted,
                                KeyIsGood

LEMMA ClockKeeps ==
    ASSUME Spared, OpenTimeOver \/ RetryAfterOver
    PROVE  Spared'
<1>1. breaker \in Breaker /\ BreakerAssumption
  BY BreakerAssumption DEF Spared, Shapes
<1>2. CASE OpenTimeOver
  <2>1. /\ breaker' \in Breaker /\ breaker'.failures = breaker.failures
        /\ breaker'.auth_locked = breaker.auth_locked
    BY <1>1, <1>2, ElapsingKeeps DEF OpenTimeOver, Breaker
  <2>2. /\ {"late", "streak"} \subseteq DOMAIN seen' /\ seen'.late = seen.late
        /\ seen'.streak \in 0 .. Threshold - 1 /\ seen'.streak <= seen.streak
    BY <1>1, <1>2 DEF OpenTimeOver, Spared, Shapes, BreakerAssumption
  <2> QED BY <1>1, <1>2, <2>1, <2>2
          DEF OpenTimeOver, Spared, Shapes, LateIsLast, FailuresAreCounted, KeyIsGood, Breaker,
              BreakerAssumption
<1>3. CASE RetryAfterOver
  <2>1. /\ breaker' \in Breaker /\ breaker'.failures = breaker.failures
        /\ breaker'.state = breaker.state /\ breaker'.opened = breaker.opened
        /\ breaker'.auth_locked = breaker.auth_locked
    BY <1>1, <1>3, ElapsingKeeps DEF RetryAfterOver, Breaker
  <2> QED BY <1>3, <2>1 DEF RetryAfterOver, Spared, Shapes, LateIsLast, FailuresAreCounted,
                            KeyIsGood
<1> QED BY <1>2, <1>3

\* A new run, a cancel request, and the end of the process.
LEMMA AroundKeeps ==
    ASSUME Spared, Begin \/ Cancel \/ Crash
    PROVE  Spared'
<1>1. CASE Begin
  <2>1. "pc" \in DOMAIN run' /\ run'.pc = "Begin"
    BY <1>1 DEF Begin, NoRun
  <2>2. /\ {"late", "streak"} \subseteq DOMAIN seen'
        /\ seen'.late = 0 /\ seen'.streak = seen.streak
    BY <1>1 DEF Begin, Spared, Shapes
  <2>3. UNCHANGED breaker
    BY <1>1 DEF Begin
  <2>4. cancel' \in BOOLEAN
    BY <1>1, Zenon DEF Begin
  <2> QED BY <2>1, <2>2, <2>3, <2>4 DEF Spared, Shapes, LateIsLast, FailuresAreCounted, KeyIsGood
<1>2. CASE Cancel
  BY <1>2 DEF Cancel, Spared, Shapes, LateIsLast, FailuresAreCounted, KeyIsGood
<1>3. CASE Crash
  <2>1. "pc" \in DOMAIN run' /\ run'.pc = "Idle"
    BY <1>3 DEF Crash, NoRun
  <2>2. breaker' \in Breaker /\ breaker'.failures = 0
    BY <1>3, BreakerAssumption DEF Crash, NewBreaker, Breaker, Timer
  <2>3. /\ {"late", "streak"} \subseteq DOMAIN seen'
        /\ seen'.streak = 0 /\ seen'.late = seen.late
    BY <1>3 DEF Crash, Spared, Shapes
  <2>4. cancel' \in BOOLEAN /\ run'.pc \notin Active
    BY <1>3, <2>1 DEF Crash, Active
  <2> QED BY <2>1, <2>2, <2>3, <2>4, BreakerAssumption
          DEF Spared, Shapes, LateIsLast, FailuresAreCounted, KeyIsGood
<1> QED BY <1>1, <1>2, <1>3

-----------------------------------------------------------------------------

\* Once cancellation is requested at most one more request of the run leaves; a
\* provider that refused the key is never called again, and one that fails is
\* called Threshold times in a row (request_json, CircuitBreaker.guard and
\* record_failure).
THEOREM ProviderIsSpared == Spec => []ProviderSpared
<1>1. Init => Spared
  <2> SUFFICES ASSUME Init
               PROVE  Spared
    OBVIOUS
  <2>1. "pc" \in DOMAIN run /\ run.pc = "Idle"
    BY DEF Init, NoRun
  <2>2. breaker \in Breaker /\ breaker.failures = 0
    BY BreakerAssumption DEF Init, NewBreaker, Breaker, Timer
  <2>3. cancel \in BOOLEAN
    BY Zenon DEF Init
  <2>4. {"late", "streak"} \subseteq DOMAIN seen /\ seen.late = 0 /\ seen.streak = 0
    BY DEF Init, Unseen
  <2> QED BY <2>1, <2>2, <2>3, <2>4, BreakerAssumption
          DEF Spared, Shapes, LateIsLast, FailuresAreCounted, KeyIsGood
<1>2. Spared /\ [Next]_vars => Spared'
  <2> SUFFICES ASSUME Spared, [Next]_vars
               PROVE  Spared'
    OBVIOUS
  <2>1. CASE Begin \/ Cancel \/ Crash
    BY <2>1, AroundKeeps
  <2>2. CASE OpenTimeOver \/ RetryAfterOver
    BY <2>2, ClockKeeps
  <2>3. CASE Progress
    BY <2>3, QuietSteps, CheckKeeps, SendKeeps, TextKeeps, ErrorKeeps, SleepKeeps DEF Progress
  <2>4. CASE UNCHANGED vars
    BY <2>4 DEF vars, Spared, Shapes, LateIsLast, FailuresAreCounted, KeyIsGood
  <2> QED BY <2>1, <2>2, <2>3, <2>4 DEF Next
<1> QED BY <1>1, <1>2, SparedSuffices, PTL DEF Spec

-----------------------------------------------------------------------------
(* The cues. *)

RunFields == {"pc", "batches", "at", "pending", "semantic", "transport", "wait", "accepted",
              "misaligned", "degraded", "error"}
Talking == {"Check", "Send", "Await", "Sleep"}
Early == {"Idle", "Begin", "Prompt", "Plan"}
AtBatch == Talking \union {"Persist", "Commit"}
Planned == AtBatch \union {"Units", "Batch", "Finish"}

RunShape ==
    /\ DOMAIN run = RunFields
    /\ run.batches \in Seq(Ranges) /\ InOrder(run.batches) /\ run.pending \in Seq(Ranges)
    /\ run.at \in 1 .. Len(run.batches) + 1
    /\ run.semantic \in 0 .. SemanticMax - 1 /\ run.transport \in 0 .. TransportMax - 1
    /\ run.pc \in Active \union Ended \union {"Idle"}
    /\ run.accepted \subseteq Cues /\ run.degraded \subseteq Cues

\* A plan: the cues in order, from the first to the last.
Whole(plan) ==
    /\ plan \in Seq(Ranges) /\ InOrder(plan)
    /\ Len(plan) \in Cues /\ plan[Len(plan)][2] = CueCount

\* A result on disk belongs to a batch of the plan on disk; a cue of the batch
\* that it does not have failed alone.
DiskOK ==
    /\ DOMAIN disk = {"prompt", "plan", "results", "units"}
    /\ disk.results \in [Cues -> SUBSET (Cues \union NoResult)]
    /\ disk.plan = NoPlan \/ Whole(disk.plan)
    /\ \A b \in Cues : disk.results[b] # NoResult =>
          /\ b \in DOMAIN disk.plan
          /\ disk.results[b] \subseteq Within(disk.plan[b]) \intersect seen.answered
          /\ Within(disk.plan[b]) \ disk.results[b] \subseteq seen.alone

\* Where a run is in its plan, and what of it is on disk.
Position ==
    /\ run.pc \in Active \ {"Begin", "Prompt"} => disk.prompt
    /\ run.pc \in Early \union {"Units"} => run.at = 1 /\ run.accepted = {} /\ run.degraded = {}
    /\ run.pc \in Early => run.batches = <<>>
    /\ run.pc \in Planned /\ Durable => run.batches = disk.plan /\ disk.plan # NoPlan
    /\ run.pc \in AtBatch => run.at \in DOMAIN run.batches
    /\ ~Durable /\ run.pc \in AtBatch => run.at = Len(run.batches)
    /\ ~Durable /\ run.pc = "Batch" => run.at = Len(run.batches) + 1
    /\ ~Durable => run.pc \notin {"Plan", "Units", "Commit"}
    /\ Durable /\ run.pc \in Talking \union {"Persist"} => disk.results[run.at] = NoResult
    /\ setup.swept /\ run.pc \in Active \ {"Commit"} =>
          \A b \in Cues : b >= run.at => disk.results[b] = NoResult

\* What is left of a batch: ranges of it, one after the other, up to its end.
Chain(p, r) ==
    /\ p[Len(p)][2] = r[2]
    /\ \A i \in 1 .. Len(p) : r[1] <= p[i][1] /\ p[i][2] <= r[2]
    /\ \A i \in 1 .. Len(p) - 1 : p[i + 1][1] = p[i][2] + 1
PendingOK ==
    run.pc \in Talking => run.pending # <<>> /\ Chain(run.pending, run.batches[run.at])

\* The first cue that is not done with.
Front ==
    IF run.pc \in Talking THEN Current[1]
    ELSE IF run.pc \in {"Persist", "Commit"} THEN run.batches[run.at][2] + 1
    ELSE IF run.pc \in {"Finish", "Done", "Degraded"} THEN CueCount + 1
    ELSE IF run.at = 1 THEN 1 ELSE run.batches[run.at - 1][2] + 1
DoneUpTo(front, accepted, degraded, history) ==
    /\ accepted \intersect degraded = {}
    /\ accepted \subseteq history.answered /\ degraded \subseteq history.alone
    /\ accepted \union degraded \subseteq 1 .. front - 1
    /\ \A c \in 1 .. front - 1 :
          c \in accepted \union degraded \/ (~setup.swept /\ c \in history.alone)
CuesOK ==
    run.pc \notin {"Failed", "Cancelled"} => DoneUpTo(Front, run.accepted, run.degraded, seen)

Remembered == {"answered", "alone"} \subseteq DOMAIN seen
Accounted == RunShape /\ DiskOK /\ Position /\ PendingOK /\ CuesOK

LEMMA RangeFacts ==
    ASSUME NEW r \in Ranges
    PROVE  r[1] \in 1 .. CueCount /\ r[2] \in 1 .. CueCount /\ r[1] <= r[2] /\ CueCount \in Nat
BY PipelineAssumption DEF Ranges, Cues, PipelineAssumption

\* Done with the first range that is left ...
LEMMA ChainTail ==
    ASSUME NEW p \in Seq(Ranges), p # <<>>, NEW r \in Ranges, Chain(p, r)
    PROVE  /\ Tail(p) \in Seq(Ranges)
           /\ Tail(p) = <<>> => p[1][2] = r[2]
           /\ Tail(p) # <<>> => Chain(Tail(p), r) /\ Tail(p)[1][1] = p[1][2] + 1
<1>1. PICK n \in Nat : n = Len(p) /\ n >= 1
  BY EmptySeq, LenProperties
<1>2. /\ Tail(p) \in Seq(Ranges) /\ Len(Tail(p)) = n - 1
      /\ \A i \in 1 .. n - 1 : Tail(p)[i] = p[i + 1]
  BY <1>1, HeadTailProperties
<1>3. CASE n = 1
  <2>1. Tail(p) = <<>>
    <3>1. Tail(p) \in Seq(Ranges) /\ Len(Tail(p)) = 0
      BY <1>2, <1>3
    <3> QED
      BY <3>1, EmptySeq
  <2>2. p[1][2] = r[2]
    BY <1>1, <1>3 DEF Chain
  <2> QED
    BY <1>2, <2>1, <2>2
<1>4. CASE n # 1
  <2>1. Tail(p) # <<>>
    <3> DEFINE rest == Tail(p)
    <3>1. Len(rest) # 0
      BY <1>1, <1>2, <1>4
    <3> HIDE DEF rest
    <3>2. rest # <<>>
      BY <3>1
    <3> QED
      BY <3>2 DEF rest
  <2>2. 1 \in 1 .. n - 1 /\ n - 1 \in 1 .. n - 1
    BY <1>1, <1>4
  <2>3. Tail(p)[1][1] = p[1][2] + 1
    BY <1>1, <1>2, <2>2 DEF Chain
  <2>4. Chain(Tail(p), r)
    <3>1. Tail(p)[n - 1][2] = r[2]
      BY <1>1, <1>2, <2>2 DEF Chain
    <3>2. \A i \in 1 .. n - 1 : i + 1 \in 1 .. n
      BY <1>1
    <3>3. \A i \in 1 .. n - 1 : r[1] <= Tail(p)[i][1] /\ Tail(p)[i][2] <= r[2]
      BY <1>1, <1>2, <3>2 DEF Chain
    <3>4. \A i \in 1 .. (n - 1) - 1 : i \in 1 .. n - 1 /\ i + 1 \in 1 .. n - 1
      BY <1>1
    <3>5. \A i \in 1 .. (n - 1) - 1 : Tail(p)[i + 1][1] = Tail(p)[i][2] + 1
      BY <1>1, <1>2, <3>4 DEF Chain
    <3> QED
      BY <1>2, <3>1, <3>3, <3>5 DEF Chain
  <2> QED
    BY <1>2, <2>1, <2>3, <2>4
<1> QED
  BY <1>3, <1>4

\* ... or its two halves in its place.
Middle(r) == r[1] + (r[2] - r[1] + 1) \div 2
Halved(p) == <<<<p[1][1], Middle(p[1]) - 1>>, <<Middle(p[1]), p[1][2]>>>> \o Tail(p)
LEMMA ChainHalves ==
    ASSUME NEW p \in Seq(Ranges), p # <<>>, NEW r \in Ranges, Chain(p, r), p[1][1] < p[1][2]
    PROVE  /\ Halved(p) \in Seq(Ranges) /\ Halved(p) # <<>> /\ Chain(Halved(p), r)
           /\ Halved(p)[1][1] = p[1][1]
<1> DEFINE mid == Middle(p[1])
           q == Halved(p)
<1>1. PICK n \in Nat : n = Len(p) /\ n >= 1
  BY EmptySeq, LenProperties
<1>2. /\ Tail(p) \in Seq(Ranges) /\ Len(Tail(p)) = n - 1
      /\ \A i \in 1 .. n - 1 : Tail(p)[i] = p[i + 1]
  BY <1>1, HeadTailProperties
<1>3. p[1] \in Ranges
  BY <1>1, ElementOfSeq
<1> DEFINE a == p[1][1]
           b == p[1][2]
           halves == <<<<a, mid - 1>>, <<mid, b>>>>
<1>16. q = halves \o Tail(p)
  BY DEF Halved
<1> HIDE DEF mid, q
<1>4. a \in 1 .. CueCount /\ b \in 1 .. CueCount /\ CueCount \in Nat /\ a < b
  BY <1>3, RangeFacts
<1>5. mid \in Nat /\ a <= mid - 1 /\ mid <= b
  <2> HIDE DEF a, b
  <2>1. mid = a + (b - a + 1) \div 2
    BY DEF a, b, mid, Middle
  <2> QED
    BY <1>4, <2>1
<1>6. <<a, mid - 1>> \in Ranges /\ <<mid, b>> \in Ranges
  <2> HIDE DEF a, b
  <2>1. a \in Cues /\ b \in Cues /\ mid \in Cues /\ mid - 1 \in Cues
    BY <1>4, <1>5 DEF Cues
  <2>2. \A x, y \in Cues : x <= y => <<x, y>> \in Ranges
    BY DEF Ranges
  <2> QED
    BY <1>5, <2>1, <2>2
<1>7. /\ halves \in Seq(Ranges) /\ Len(halves) = 2
      /\ halves[1] = <<a, mid - 1>> /\ halves[2] = <<mid, b>>
  BY <1>6
<1> HIDE DEF halves
<1>8. /\ q \in Seq(Ranges) /\ Len(q) = 2 + (n - 1)
      /\ \A i \in 1 .. 2 + (n - 1) : q[i] = IF i <= 2 THEN halves[i] ELSE Tail(p)[i - 2]
  <2>1. /\ halves \o Tail(p) \in Seq(Ranges)
        /\ Len(halves \o Tail(p)) = Len(halves) + Len(Tail(p))
        /\ \A i \in 1 .. Len(halves) + Len(Tail(p)) :
              (halves \o Tail(p))[i] =
                IF i <= Len(halves) THEN halves[i] ELSE Tail(p)[i - Len(halves)]
    BY <1>2, <1>7, ConcatProperties, Zenon
  <2> QED
    BY <1>2, <1>7, <1>16, <2>1
<1>9. /\ Len(q) = n + 1 /\ q[1] = <<a, mid - 1>> /\ q[2] = <<mid, b>>
      /\ \A i \in 3 .. n + 1 : q[i] = p[i - 1]
  <2>1. 1 \in 1 .. 2 + (n - 1) /\ 2 \in 1 .. 2 + (n - 1) /\ 2 + (n - 1) = n + 1
    BY <1>1
  <2>2. \A i \in 3 .. n + 1 : /\ i \in 1 .. 2 + (n - 1) /\ ~(i <= 2)
                              /\ i - 2 \in 1 .. n - 1 /\ (i - 2) + 1 = i - 1
    BY <1>1
  <2> QED
    BY <1>2, <1>7, <1>8, <2>1, <2>2
<1>10. q # <<>> /\ q[1][1] = p[1][1]
  BY <1>1, <1>8, <1>9, EmptySeq
<1>11. \A i \in 1 .. n : r[1] <= p[i][1] /\ p[i][2] <= r[2] /\ p[i] \in Ranges
  BY <1>1, ElementOfSeq DEF Chain
<1>12. q[n + 1][2] = r[2]
  <2>1. CASE n = 1
    BY <1>1, <1>9, <2>1 DEF Chain
  <2>2. CASE n # 1
    <3>1. n + 1 \in 3 .. n + 1 /\ (n + 1) - 1 = n
      BY <1>1, <2>2
    <3> QED
      BY <1>1, <1>9, <3>1 DEF Chain
  <2> QED
    BY <2>1, <2>2
<1>13. ASSUME NEW i \in 1 .. n + 1
       PROVE  r[1] <= q[i][1] /\ q[i][2] <= r[2]
  <2> HIDE DEF a, b
  <2>1. 1 \in 1 .. n /\ (i = 1 \/ i = 2 \/ (i \in 3 .. n + 1 /\ i - 1 \in 1 .. n))
    BY <1>1
  <2>2. r[1] <= a /\ b <= r[2]
    BY <1>11, <2>1 DEF a, b
  <2>3. a <= mid /\ mid - 1 <= b /\ mid \in Int
    BY <1>4, <1>5
  <2>4. CASE i = 1 \/ i = 2
    <3>1. r[1] \in Int /\ r[2] \in Int /\ a \in Int /\ b \in Int
      BY <1>4, RangeFacts
    <3>2. q[i][1] \in {a, mid} /\ q[i][2] \in {mid - 1, b}
      BY <1>9, <2>4
    <3>3. r[1] <= a /\ r[1] <= mid
      BY <2>2, <2>3, <3>1
    <3>4. mid - 1 <= r[2] /\ b <= r[2]
      BY <2>2, <2>3, <3>1
    <3>5. r[1] <= q[i][1]
      BY <3>2, <3>3, Zenon
    <3>6. q[i][2] <= r[2]
      BY <3>2, <3>4, Zenon
    <3> QED
      BY <3>5, <3>6
  <2>5. CASE i \in 3 .. n + 1 /\ i - 1 \in 1 .. n
    BY <1>9, <1>11, <2>5
  <2> QED
    BY <2>1, <2>4, <2>5
<1>14. ASSUME NEW i \in 1 .. n
       PROVE  q[i + 1][1] = q[i][2] + 1
  <2> HIDE DEF a, b
  <2>1. CASE i = 1
    BY <1>5, <1>9, <2>1
  <2>2. CASE i = 2
    <3>1. 3 \in 3 .. n + 1 /\ 1 \in 1 .. n - 1 /\ 3 - 1 = 1 + 1 /\ 2 + 1 = 3
      BY <1>1, <2>2
    <3>2. q[3] = p[1 + 1] /\ p[1 + 1][1] = p[1][2] + 1
      BY <1>1, <1>9, <3>1 DEF Chain
    <3> QED
      BY <1>9, <2>2, <3>1, <3>2 DEF b
  <2>3. CASE i \in 3 .. n
    <3>1. /\ i \in 3 .. n + 1 /\ i + 1 \in 3 .. n + 1 /\ (i + 1) - 1 = (i - 1) + 1
          /\ i - 1 \in 1 .. n - 1
      BY <1>1, <2>3
    <3>2. p[(i - 1) + 1][1] = p[i - 1][2] + 1
      BY <1>1, <3>1 DEF Chain
    <3> QED
      BY <1>9, <3>1, <3>2
  <2>4. i = 1 \/ i = 2 \/ i \in 3 .. n
    BY <1>1
  <2> QED
    BY <2>1, <2>2, <2>3, <2>4
<1>15. Chain(q, r)
  <2>1. (n + 1) - 1 = n
    OBVIOUS
  <2> QED
    BY <1>9, <1>12, <1>13, <1>14, <2>1 DEF Chain
<1> QED
  BY <1>8, <1>10, <1>15 DEF q

-----------------------------------------------------------------------------
(* One lemma per kind of step, again. *)

Grows == UNCHANGED setup /\ seen.answered \subseteq seen'.answered /\ seen.alone \subseteq seen'.alone

LEMMA DiskKept ==
    ASSUME DiskOK, DOMAIN disk' = DOMAIN disk, disk'.plan = disk.plan,
           disk'.results = disk.results, Grows
    PROVE  DiskOK'
BY DEF DiskOK, Grows, Whole, InOrder

\* Only the counter of the run moves, and what the next step of it is.
Moves(pc, at) ==
    /\ DOMAIN run' = RunFields /\ run'.pc = pc /\ run'.at = at
    /\ run'.batches = run.batches /\ run'.pending = run.pending
    /\ run'.semantic = run.semantic /\ run'.transport = run.transport
    /\ run'.accepted = run.accepted /\ run'.degraded = run.degraded

LEMMA Going ==
    ASSUME RunShape, NEW pc, Goes(pc)
    PROVE  Moves(pc, run.at)
BY DEF RunShape, RunFields, Goes, Moves

LEMMA Failing ==
    ASSUME RunShape, NEW error, Fails(error)
    PROVE  Moves("Failed", run.at)
BY DEF RunShape, RunFields, Fails, Moves

LEMMA MovingKeeps ==
    ASSUME Accounted, NEW pc \in Active \union Ended, NEW at \in 1 .. Len(run.batches) + 1,
           Moves(pc, at)
    PROVE  RunShape'
BY DEF Accounted, RunShape, Moves, InOrder

\* The run is over.
LEMMA RunIsOver ==
    ASSUME Accounted, UNCHANGED disk, Grows, NEW pc \in {"Failed", "Cancelled"}, Moves(pc, run.at)
    PROVE  Accounted'
<1>1. RunShape'
  BY MovingKeeps DEF Accounted, RunShape, Ended
<1>2. DiskOK'
  BY DiskKept DEF Accounted
<1> QED
  BY <1>1, <1>2 DEF Accounted, Position, PendingOK, CuesOK, Early, AtBatch, Talking, Planned,
                    Active, Moves
LEMMA CancelledIsOver ==
    ASSUME Accounted, UNCHANGED disk, Grows, Goes("Cancelled")
    PROVE  Accounted'
BY RunIsOver, Going DEF Accounted
LEMMA FailedIsOver ==
    ASSUME Accounted, UNCHANGED disk, Grows, NEW error, Fails(error)
    PROVE  Accounted'
BY RunIsOver, Failing DEF Accounted

\* Another attempt at the same range.
LEMMA SameRange ==
    ASSUME Accounted, run.pc \in Talking, UNCHANGED disk, Grows,
           NEW pc \in Talking, NEW semantic \in 0 .. SemanticMax - 1,
           NEW transport \in 0 .. TransportMax - 1, NEW wait,
           run' = [run EXCEPT !.pc = pc, !.semantic = semantic, !.transport = transport, !.wait = wait]
    PROVE  Accounted'
<1>1. /\ DOMAIN run' = RunFields /\ run'.pc = pc
      /\ run'.semantic = semantic /\ run'.transport = transport
      /\ run'.batches = run.batches /\ run'.at = run.at /\ run'.pending = run.pending
      /\ run'.accepted = run.accepted /\ run'.degraded = run.degraded
  BY DEF Accounted, RunShape, RunFields
<1>2. RunShape'
  BY <1>1 DEF Accounted, RunShape, Talking, Active, InOrder
<1>3. DiskOK'
  BY DiskKept DEF Accounted
<1>4. Position'
  BY <1>1 DEF Accounted, Position, Talking, Early, AtBatch, Planned, Active, Grows, Durable
<1>5. PendingOK'
  BY <1>1 DEF Accounted, PendingOK
<1>6. CuesOK'
  <2>1. Front' = Front
    BY <1>1 DEF Front, Current
  <2>2. DoneUpTo(Front, run.accepted, run.degraded, seen)
    BY DEF Accounted, CuesOK, Talking
  <2> QED
    BY <1>1, <2>1, <2>2 DEF CuesOK, DoneUpTo, Grows
<1> QED
  BY <1>2, <1>3, <1>4, <1>5, <1>6 DEF Accounted

LEMMA TalksOn ==
    ASSUME Accounted, run.pc \in Talking, UNCHANGED disk, Grows, NEW pc \in Talking, Goes(pc)
    PROVE  Accounted'
<1>1. run.semantic \in 0 .. SemanticMax - 1 /\ run.transport \in 0 .. TransportMax - 1
  BY DEF Accounted, RunShape
<1>2. run' = [run EXCEPT !.pc = pc, !.semantic = run.semantic, !.transport = run.transport,
                         !.wait = run.wait]
  BY DEF Goes, Accounted, RunShape, RunFields
<1> QED
  BY <1>1, <1>2, SameRange

\* The next range, after one that was accepted, halved or left as it is.
LEMMA NextRange ==
    ASSUME Accounted, run.pc \in Talking, UNCHANGED disk, Grows,
           NEW accepted \in SUBSET Cues, NEW degraded \in SUBSET Cues, NEW r, DOMAIN r = RunFields,
           r.batches = run.batches, r.at = run.at, r.accepted = accepted, r.degraded = degraded,
           NEW p \in Seq(Ranges), p # <<>> => Chain(p, run.batches[run.at]),
           NEW front, front = IF p = <<>> THEN run.batches[run.at][2] + 1 ELSE p[1][1],
           DoneUpTo(front, accepted, degraded, seen'),
           run' = NextAsked(r, p)
    PROVE  Accounted'
<1>1. /\ DOMAIN run' = RunFields /\ run'.pc = IF p = <<>> THEN "Persist" ELSE "Check"
      /\ run'.semantic = 0 /\ run'.transport = 0
      /\ run'.batches = run.batches /\ run'.at = run.at /\ run'.pending = p
      /\ run'.accepted = accepted /\ run'.degraded = degraded
  BY DEF RunFields, NextAsked
<1>2. RunShape'
  BY <1>1, PipelineAssumption DEF Accounted, RunShape, Talking, Active, InOrder, PipelineAssumption
<1>3. DiskOK'
  BY DiskKept DEF Accounted
<1>4. Position'
  BY <1>1 DEF Accounted, Position, Talking, Early, AtBatch, Planned, Active, Grows, Durable
<1>5. PendingOK'
  BY <1>1 DEF PendingOK, Talking
<1>6. CuesOK'
  <2>1. Front' = front
    BY <1>1 DEF Front, Current, Talking
  <2> QED
    BY <1>1, <2>1 DEF CuesOK, DoneUpTo, Grows
<1> QED
  BY <1>2, <1>3, <1>4, <1>5, <1>6 DEF Accounted

-----------------------------------------------------------------------------
(* A run, up to its first batch. *)

LEMMA ExecuteAccounts ==
    ASSUME Accounted, Execute
    PROVE  Accounted'
<1>1. UNCHANGED disk /\ Grows
  BY DEF Execute, Grows
<1>2. CASE cancel
  BY <1>1, <1>2, CancelledIsOver DEF Execute, UnlessCancelled
<1>3. CASE ~cancel
  <2>1. run.pc = "Begin" /\ Moves("Prompt", run.at)
    BY <1>3, Going DEF Execute, UnlessCancelled, Accounted
  <2>2. RunShape'
    BY <2>1, MovingKeeps DEF Accounted, RunShape, Active
  <2>3. DiskOK'
    BY <1>1, DiskKept DEF Accounted
  <2>4. Position' /\ PendingOK'
    BY <1>1, <2>1 DEF Accounted, Position, PendingOK, Early, AtBatch, Talking, Planned, Active,
                      Moves, Grows, Durable
  <2>5. CuesOK'
    BY <1>1, <2>1 DEF Accounted, CuesOK, DoneUpTo, Front, Talking, Moves, Grows, Position, Early
  <2> QED
    BY <2>2, <2>3, <2>4, <2>5 DEF Accounted
<1> QED
  BY <1>2, <1>3

LEMMA PromptAccounts ==
    ASSUME Accounted, MaterializePrompt
    PROVE  Accounted'
<1> DEFINE pc == IF Durable THEN "Plan" ELSE "Batch"
<1>1. run.pc = "Prompt" /\ Moves(pc, run.at) /\ Grows
  BY Going DEF MaterializePrompt, Accounted, Grows
<1>2. /\ DOMAIN disk' = DOMAIN disk /\ disk'.prompt = TRUE
      /\ disk'.plan = disk.plan /\ disk'.results = disk.results
  BY DEF MaterializePrompt, Accounted, DiskOK
<1>3. run.at = 1 /\ run.accepted = {} /\ run.degraded = {} /\ run.batches = <<>>
  BY <1>1 DEF Accounted, Position, Early
<1>4. RunShape'
  BY <1>1, MovingKeeps DEF Accounted, RunShape, Active
<1>5. DiskOK'
  BY <1>1, <1>2, DiskKept DEF Accounted
<1>6. Position' /\ PendingOK'
  BY <1>1, <1>2, <1>3 DEF Accounted, Position, PendingOK, Early, AtBatch, Talking, Planned, Active,
                          Moves, Grows, Durable
<1>7. CuesOK'
  BY <1>1, <1>3 DEF CuesOK, DoneUpTo, Front, Talking, Moves
<1> QED
  BY <1>4, <1>5, <1>6, <1>7 DEF Accounted

\* What pack_batches makes is a plan.
LEMMA PackingIsWhole ==
    ASSUME NEW plan \in Packings
    PROVE  Whole(plan) /\ plan # NoPlan
<1>1. PICK n \in Cues : plan \in [1 .. n -> Ranges]
  BY DEF Packings
<1>2. n \in Nat /\ n >= 1
  BY PipelineAssumption DEF Cues, PipelineAssumption
<1>3. plan \in Seq(Ranges) /\ Len(plan) = n /\ plan # <<>>
  BY <1>1, <1>2
<1> QED
  BY <1>1, <1>3 DEF Packings, Whole, NoPlan

LEMMA PlanAccounts ==
    ASSUME Accounted, PlanBatches
    PROVE  Accounted'
<1>1. run.pc = "Plan" /\ Grows
  BY DEF PlanBatches, Grows
<1>2. CASE ~CanPack
  BY <1>1, <1>2, FailedIsOver DEF PlanBatches
<1>3. CASE CanPack
  <2>1. PICK plan \in MakePlan :
          /\ run' = [run EXCEPT !.pc = "Units", !.batches = plan]
          /\ disk' = [disk EXCEPT !.plan = plan]
    BY <1>3 DEF PlanBatches, PersistPlan
  <2>2. Whole(plan) /\ plan # NoPlan /\ (disk.plan # NoPlan => plan = disk.plan)
    BY PackingIsWhole DEF MakePlan, Accounted, DiskOK
  <2>3. /\ DOMAIN run' = RunFields /\ run'.pc = "Units" /\ run'.at = run.at
        /\ run'.batches = plan /\ run'.pending = run.pending
        /\ run'.semantic = run.semantic /\ run'.transport = run.transport
        /\ run'.accepted = run.accepted /\ run'.degraded = run.degraded
    BY <2>1 DEF Accounted, RunShape, RunFields
  <2>4. /\ DOMAIN disk' = DOMAIN disk /\ disk'.plan = plan /\ disk'.results = disk.results
        /\ disk'.prompt = disk.prompt
    BY <2>1 DEF Accounted, DiskOK
  <2>5. run.at = 1 /\ run.accepted = {} /\ run.degraded = {} /\ Durable
    BY <1>1 DEF Accounted, Position, Early
  <2>6. RunShape'
    BY <2>2, <2>3, <2>5 DEF Accounted, RunShape, Active, Whole, InOrder, Cues
  <2>7. DiskOK'
    <3>1. CASE disk.plan = NoPlan
      <4>1. \A b \in Cues : disk.results[b] = NoResult
        BY <3>1 DEF Accounted, DiskOK, NoPlan
      <4>2. /\ Whole(disk'.plan)
            /\ \A b \in Cues : disk'.results[b] = NoResult
        BY <2>2, <2>4, <4>1
      <4> QED
        BY <2>4, <4>2 DEF Accounted, DiskOK
    <3>2. CASE disk.plan # NoPlan
      BY <1>1, <2>2, <2>4, <3>2, DiskKept DEF Accounted
    <3> QED
      BY <3>1, <3>2
  <2>8. Position' /\ PendingOK'
    BY <1>1, <2>2, <2>3, <2>4, <2>5 DEF Accounted, Position, PendingOK, Early, AtBatch, Talking,
                                        Planned, Active, Grows, Durable
  <2>9. CuesOK'
    BY <2>3, <2>5 DEF CuesOK, DoneUpTo, Front, Talking
  <2> QED
    BY <2>6, <2>7, <2>8, <2>9 DEF Accounted
<1> QED
  BY <1>2, <1>3

LEMMA UnitsAccount ==
    ASSUME Accounted, EnsureUnits
    PROVE  Accounted'
<1>1. run.pc = "Units" /\ Moves("Batch", run.at) /\ Grows
  BY Going DEF EnsureUnits, Accounted, Grows
<1>2. /\ DOMAIN disk' = DOMAIN disk /\ disk'.prompt = disk.prompt
      /\ disk'.plan = disk.plan /\ disk'.results = disk.results
  BY DEF EnsureUnits, Accounted, DiskOK
<1>3. run.at = 1 /\ run.accepted = {} /\ run.degraded = {} /\ Durable
  BY <1>1 DEF Accounted, Position
<1>4. RunShape'
  BY <1>1, MovingKeeps DEF Accounted, RunShape, Active
<1>5. DiskOK'
  BY <1>1, <1>2, DiskKept DEF Accounted
<1>6. Position' /\ PendingOK'
  BY <1>1, <1>2, <1>3 DEF Accounted, Position, PendingOK, Early, AtBatch, Talking, Planned, Active,
                          Moves, Grows, Durable
<1>7. CuesOK'
  BY <1>1, <1>3 DEF CuesOK, DoneUpTo, Front, Talking, Moves
<1> QED
  BY <1>4, <1>5, <1>6, <1>7 DEF Accounted

-----------------------------------------------------------------------------
(* A batch, up to its first request. *)

\* The work of a stage that keeps it follows the plan on disk.
LEMMA PlanAtHand ==
    ASSUME Accounted, Durable, run.pc \in Planned
    PROVE  /\ run.batches = disk.plan /\ Whole(run.batches) /\ DOMAIN run.batches \subseteq Cues
           /\ DOMAIN run.batches = 1 .. Len(run.batches) /\ Len(run.batches) \in Nat \ {0}
<1>1. run.batches = disk.plan /\ Whole(run.batches) /\ run.batches \in Seq(Ranges)
  BY DEF Accounted, Position, DiskOK, Whole
<1>2. Len(run.batches) \in Cues
  BY <1>1 DEF Whole
<1> QED
  BY <1>1, <1>2, PipelineAssumption DEF Cues, PipelineAssumption

LEMMA AsksBatch ==
    ASSUME Accounted, run.pc = "Batch", UNCHANGED disk, Grows,
           NEW batches \in Seq(Ranges), InOrder(batches), run.at \in DOMAIN batches,
           batches[run.at][1] = Front, ~Durable => run.at = Len(batches),
           Durable => batches = run.batches /\ disk.results[run.at] = NoResult,
           Ask(batches[run.at], batches)
    PROVE  Accounted'
<1> DEFINE r == batches[run.at]
<1>1. r \in Ranges /\ run.at \in 1 .. Len(batches)
  OBVIOUS
<1> HIDE DEF r
<1>2. /\ DOMAIN run' = RunFields /\ run'.pc = "Check" /\ run'.at = run.at
      /\ run'.batches = batches /\ run'.pending = <<r>>
      /\ run'.semantic = 0 /\ run'.transport = 0
      /\ run'.accepted = run.accepted /\ run'.degraded = run.degraded
  BY DEF Ask, Accounted, RunShape, RunFields, r
<1>3. RunShape'
  BY <1>1, <1>2, PipelineAssumption DEF Accounted, RunShape, Active, InOrder, PipelineAssumption
<1>4. DiskOK'
  BY DiskKept DEF Accounted
<1>5. Position'
  BY <1>2 DEF Accounted, Position, Talking, Early, AtBatch, Planned, Active, Grows, Durable
<1>6. PendingOK'
  <2>1. Chain(<<r>>, r)
    BY <1>1, RangeFacts DEF Chain
  <2> QED
    BY <1>2, <2>1 DEF PendingOK, r
<1>7. CuesOK'
  <2>1. Front' = Front
    BY <1>2 DEF Front, Current, Talking, r
  <2>2. DoneUpTo(Front, run.accepted, run.degraded, seen)
    BY DEF Accounted, CuesOK
  <2> QED
    BY <1>2, <2>1, <2>2 DEF CuesOK, DoneUpTo, Grows
<1> QED
  BY <1>3, <1>4, <1>5, <1>6, <1>7 DEF Accounted

\* After the last batch every cue is done with.
LEMMA GoesToFinish ==
    ASSUME Accounted, run.pc = "Batch", UNCHANGED disk, Grows, Goes("Finish"),
           Front = CueCount + 1
    PROVE  Accounted'
<1>1. Moves("Finish", run.at)
  BY Going DEF Accounted
<1>2. RunShape'
  BY <1>1, MovingKeeps DEF Accounted, RunShape, Active
<1>3. DiskOK'
  BY DiskKept DEF Accounted
<1>4. Position' /\ PendingOK'
  BY <1>1 DEF Accounted, Position, PendingOK, Talking, Early, AtBatch, Planned, Active, Grows,
              Durable, Moves
<1>5. CuesOK'
  <2>1. Front' = Front
    BY <1>1 DEF Front, Talking, Moves
  <2>2. DoneUpTo(Front, run.accepted, run.degraded, seen)
    BY DEF Accounted, CuesOK
  <2> QED
    BY <1>1, <2>1, <2>2 DEF CuesOK, DoneUpTo, Grows, Moves
<1> QED
  BY <1>2, <1>3, <1>4, <1>5 DEF Accounted

\* A batch whose result is on disk is resumed: its cues have their texts, or
\* failed alone in the run that left it.
LEMMA ResumesBatch ==
    ASSUME Accounted, run.pc = "Batch", Durable, UNCHANGED disk, Grows,
           run.at \in DOMAIN run.batches, disk.results[run.at] # NoResult,
           run' = [run EXCEPT !.at = @ + 1, !.accepted = @ \union Loaded(run.at)]
    PROVE  Accounted'
<1> DEFINE at == run.at
           r == run.batches[at]
           loaded == disk.results[at]
<1>1. /\ at \in Cues /\ at \in 1 .. Len(run.batches) /\ Len(run.batches) \in Nat
      /\ run.batches = disk.plan /\ r \in Ranges
  BY PlanAtHand DEF Planned, Whole
<1>2. /\ loaded \subseteq Within(r) /\ loaded \subseteq seen.answered
      /\ Within(r) \ loaded \subseteq seen.alone
  BY <1>1 DEF Accounted, DiskOK
<1>3. ~setup.swept
  BY <1>1 DEF Accounted, Position, Active, RunShape, Cues
<1>4. r[1] \in Nat /\ r[2] \in Nat /\ r[1] <= r[2] /\ Within(r) \subseteq Cues
  BY <1>1, RangeFacts DEF Within, Cues
<1>5. Front = r[1]
  <2>1. CASE at = 1
    <3>1. run.batches # <<>>
      BY <1>1, EmptySeq DEF Accounted, RunShape
    <3> QED
      BY <2>1, <3>1 DEF Front, Accounted, RunShape, InOrder, Talking
  <2>2. CASE at # 1
    <3>1. at - 1 \in 1 .. Len(run.batches) - 1 /\ (at - 1) + 1 = at
      BY <1>1, <2>2
    <3>2. run.batches[(at - 1) + 1][1] = run.batches[at - 1][2] + 1
      BY <3>1 DEF Accounted, RunShape, InOrder
    <3> QED
      BY <2>2, <3>1, <3>2 DEF Front, Talking
  <2> QED
    BY <2>1, <2>2
<1>6. /\ DOMAIN run' = RunFields /\ run'.pc = "Batch" /\ run'.at = at + 1
      /\ run'.batches = run.batches /\ run'.pending = run.pending
      /\ run'.semantic = run.semantic /\ run'.transport = run.transport
      /\ run'.accepted = run.accepted \union loaded /\ run'.degraded = run.degraded
  BY DEF Accounted, RunShape, RunFields, Loaded
<1> HIDE DEF r, loaded, at
<1>7. RunShape'
  <2>1. at + 1 \in 1 .. Len(run.batches) + 1
    BY <1>1
  <2>2. run.accepted \union loaded \subseteq Cues
    BY <1>2, <1>4 DEF Accounted, RunShape
  <2> QED
    BY <1>6, <2>1, <2>2 DEF Accounted, RunShape, Active, InOrder
<1>8. DiskOK'
  BY DiskKept DEF Accounted
<1>9. Position' /\ PendingOK'
  BY <1>1, <1>3, <1>6 DEF Accounted, Position, PendingOK, Talking, Early, AtBatch, Planned, Active,
                          Grows, Durable
<1>10. CuesOK'
  <2>1. Front' = r[2] + 1
    <3>1. (at + 1) - 1 = at /\ at + 1 # 1
      BY <1>1
    <3> QED
      BY <1>6, <3>1 DEF Front, Talking, r
  <2>2. DoneUpTo(r[1], run.accepted, run.degraded, seen)
    BY <1>5 DEF Accounted, CuesOK
  <2>3. /\ (run.accepted \union loaded) \intersect run.degraded = {}
        /\ run.accepted \union loaded \union run.degraded \subseteq 1 .. (r[2] + 1) - 1
    <3>1. /\ 1 .. r[1] - 1 \subseteq 1 .. (r[2] + 1) - 1
          /\ Within(r) \subseteq 1 .. (r[2] + 1) - 1
          /\ Within(r) \intersect 1 .. r[1] - 1 = {}
      BY <1>1, <1>4, RangeFacts DEF Within
    <3> QED
      BY <1>2, <2>2, <3>1 DEF DoneUpTo
  <2>4. \A c \in 1 .. (r[2] + 1) - 1 :
           c \in run.accepted \union loaded \union run.degraded \/ c \in seen.alone
    <3>1. \A c \in 1 .. (r[2] + 1) - 1 : c \in 1 .. r[1] - 1 \/ c \in Within(r)
      BY <1>4 DEF Within
    <3> QED
      BY <1>2, <2>2, <3>1 DEF DoneUpTo
  <2> QED
    BY <1>2, <1>3, <1>6, <2>1, <2>2, <2>3, <2>4 DEF CuesOK, DoneUpTo, Grows
<1> QED
  BY <1>7, <1>8, <1>9, <1>10 DEF Accounted

LEMMA PlannedAccounts ==
    ASSUME Accounted, NextPlanned
    PROVE  Accounted'
<1>1. run.pc = "Batch" /\ Durable /\ UNCHANGED disk /\ Grows
  BY DEF NextPlanned, Grows
<1>2. /\ Whole(run.batches) /\ DOMAIN run.batches = 1 .. Len(run.batches)
      /\ Len(run.batches) \in Nat \ {0} /\ run.at \in 1 .. Len(run.batches) + 1
      /\ run.batches \in Seq(Ranges)
  BY <1>1, PlanAtHand DEF Planned, Accounted, RunShape
<1>3. CASE run.at > Len(run.batches)
  <2>1. run.at - 1 = Len(run.batches) /\ run.at # 1
    BY <1>2, <1>3
  <2>2. Front = CueCount + 1
    BY <1>1, <1>2, <2>1 DEF Front, Talking, Whole
  <2> QED
    BY <1>1, <1>3, <2>2, GoesToFinish DEF NextPlanned
<1>4. CASE ~(run.at > Len(run.batches))
  <2>1. run.at \in 1 .. Len(run.batches)
    BY <1>2, <1>4
  <2>2. CASE cancel
    BY <1>1, <1>4, <2>2, CancelledIsOver DEF NextPlanned, UnlessCancelled
  <2>3. CASE ~cancel /\ disk.results[run.at] = NoResult
    <3>1. Ask(run.batches[run.at], run.batches)
      BY <1>4, <2>3 DEF NextPlanned, UnlessCancelled, Loaded
    <3>2. run.batches[run.at][1] = Front
      BY <1>1, <1>2, <2>1 DEF Front, Talking, Accounted, RunShape, InOrder
    <3> QED
      BY <1>1, <1>2, <2>1, <2>3, <3>1, <3>2, AsksBatch DEF Whole
  <2>4. CASE ~cancel /\ disk.results[run.at] # NoResult
    <3>1. CASE disk.results[run.at] = {}
      BY <1>1, <1>4, <2>4, <3>1, FailedIsOver DEF NextPlanned, UnlessCancelled, Loaded
    <3>2. CASE disk.results[run.at] # {}
      <4>1. run' = [run EXCEPT !.at = @ + 1, !.accepted = @ \union Loaded(run.at)]
        BY <1>4, <2>4, <3>2 DEF NextPlanned, UnlessCancelled, Loaded
      <4> QED
        BY <1>1, <1>2, <2>1, <2>4, <4>1, ResumesBatch
    <3> QED
      BY <3>1, <3>2
  <2> QED
    BY <2>2, <2>3, <2>4
<1> QED
  BY <1>3, <1>4

LEMMA TranslatedAccounts ==
    ASSUME Accounted, NextTranslated
    PROVE  Accounted'
<1> DEFINE n == Len(run.batches)
<1>1. run.pc = "Batch" /\ ~Durable /\ UNCHANGED disk /\ Grows
  BY DEF NextTranslated, Grows
<1>2. /\ n \in Nat /\ run.at = n + 1 /\ run.batches \in Seq(Ranges)
      /\ DOMAIN run.batches = 1 .. n /\ InOrder(run.batches)
  BY <1>1 DEF Accounted, Position, RunShape
<1>3. run.batches = <<>> <=> n = 0
  BY <1>2, EmptySeq
<1>4. Front = NextFirst
  <2>1. (n + 1) - 1 = n /\ (n + 1 = 1 <=> n = 0)
    BY <1>2
  <2> QED
    BY <1>1, <1>2, <1>3, <2>1 DEF Front, Talking, NextFirst
<1>5. PICK context \in 0 .. IF run.batches = <<>> THEN 0 ELSE 1 :
         LET packed == PackOne(NextFirst, context)
         IN  IF NextFirst > CueCount THEN Goes("Finish")
             ELSE UnlessCancelled(
                    IF packed = {} THEN Fails("Context")
                    ELSE \E r \in packed : Ask(r, Append(run.batches, r)))
  BY DEF NextTranslated
<1>6. CASE NextFirst > CueCount
  <2>1. NextFirst = CueCount + 1
    <3>1. CueCount \in Nat \ {0}
      BY PipelineAssumption DEF PipelineAssumption
    <3>2. n # 0 /\ n \in 1 .. n
      BY <1>2, <1>3, <1>6, <3>1 DEF NextFirst
    <3>3. run.batches[n] \in Ranges
      BY <1>2, <3>2, ElementOfSeq
    <3>4. run.batches[n][2] \in 1 .. CueCount
      BY <3>3, RangeFacts
    <3> QED
      BY <1>3, <1>6, <3>1, <3>2, <3>4 DEF NextFirst
  <2> QED
    BY <1>1, <1>4, <1>5, <1>6, <2>1, GoesToFinish
<1>7. CASE ~(NextFirst > CueCount)
  <2>1. CASE cancel
    BY <1>1, <1>5, <1>7, <2>1, CancelledIsOver DEF UnlessCancelled
  <2>2. CASE ~cancel /\ PackOne(NextFirst, context) = {}
    BY <1>1, <1>5, <1>7, <2>2, FailedIsOver DEF UnlessCancelled
  <2>3. CASE ~cancel /\ PackOne(NextFirst, context) # {}
    <3>1. PICK r \in PackOne(NextFirst, context) : Ask(r, Append(run.batches, r))
      BY <1>5, <1>7, <2>3 DEF UnlessCancelled
    <3>2. r \in Ranges /\ r[1] = NextFirst
      BY DEF PackOne
    <3> DEFINE batches == Append(run.batches, r)
    <3>3. /\ batches \in Seq(Ranges) /\ Len(batches) = n + 1 /\ batches[n + 1] = r
          /\ \A i \in 1 .. n : batches[i] = run.batches[i]
          /\ DOMAIN batches = 1 .. n + 1
      BY <1>2, <3>2, AppendProperties
    <3> HIDE DEF batches
    <3>4. InOrder(batches)
      <4>1. batches[1][1] = 1
        <5>1. CASE n = 0
          BY <1>3, <3>2, <3>3, <5>1 DEF NextFirst
        <5>2. CASE n # 0
          <6>1. 1 \in 1 .. n
            BY <1>2, <5>2
          <6> QED
            BY <1>2, <1>3, <3>3, <5>2, <6>1 DEF InOrder
        <5> QED
          BY <5>1, <5>2
      <4>2. ASSUME NEW i \in 1 .. n
            PROVE  batches[i + 1][1] = batches[i][2] + 1
        <5>1. CASE i = n
          <6>1. n # 0
            BY <1>2, <5>1
          <6> QED
            BY <1>3, <3>2, <3>3, <5>1, <6>1 DEF NextFirst
        <5>2. CASE i # n
          <6>1. i + 1 \in 1 .. n /\ i \in 1 .. n - 1
            BY <1>2, <5>2
          <6> QED
            BY <1>2, <3>3, <6>1 DEF InOrder
        <5> QED
          BY <5>1, <5>2
      <4>3. Len(batches) - 1 = n
        BY <1>2, <3>3
      <4> QED
        BY <4>1, <4>2, <4>3 DEF InOrder
    <3>5. run.at \in DOMAIN batches /\ batches[run.at] = r /\ run.at = Len(batches)
      BY <1>2, <3>3
    <3>6. Ask(batches[run.at], batches)
      BY <3>1, <3>5 DEF batches
    <3> QED
      BY <1>1, <1>4, <3>2, <3>3, <3>4, <3>5, <3>6, AsksBatch
  <2> QED
    BY <2>1, <2>2, <2>3
<1> QED
  BY <1>6, <1>7

-----------------------------------------------------------------------------
(* A conversation. *)

\* What is at hand while the run talks to the provider.
LEMMA RangeAtHand ==
    ASSUME Accounted, run.pc \in Talking
    PROVE  /\ run.pending \in Seq(Ranges) /\ run.pending # <<>> /\ Current \in Ranges
           /\ run.at \in DOMAIN run.batches /\ run.batches[run.at] \in Ranges
           /\ Chain(run.pending, run.batches[run.at]) /\ Front = Current[1]
<1>1. run.pending \in Seq(Ranges) /\ run.pending # <<>> /\ run.batches \in Seq(Ranges)
  BY DEF Accounted, RunShape, PendingOK
<1>2. run.at \in DOMAIN run.batches
  BY DEF Accounted, Position, AtBatch
<1>3. Current \in Ranges
  <2>1. 1 \in 1 .. Len(run.pending)
    BY <1>1, EmptySeq, LenProperties
  <2> QED
    BY <1>1, <2>1, ElementOfSeq DEF Current
<1> QED
  BY <1>1, <1>2, <1>3 DEF Accounted, PendingOK, Front

\* The range at hand is done with: its cues have their texts, or failed alone.
LEMMA DoneWithRange ==
    ASSUME Accounted, run.pc \in Talking, UNCHANGED disk, Grows,
           NEW accepted \in SUBSET Within(Current), accepted \subseteq seen'.answered,
           NEW degraded \in SUBSET Within(Current), degraded \subseteq seen'.alone,
           accepted \intersect degraded = {}, accepted \union degraded = Within(Current),
           NEW r, DOMAIN r = RunFields, r.batches = run.batches, r.at = run.at,
           r.accepted = run.accepted \union accepted, r.degraded = run.degraded \union degraded,
           run' = NextAsked(r, Tail(run.pending))
    PROVE  Accounted'
<1> DEFINE p == Tail(run.pending)
           batch == run.batches[run.at]
           front == IF p = <<>> THEN batch[2] + 1 ELSE p[1][1]
           first == Current[1]
           last == Current[2]
<1>1. /\ first \in 1 .. CueCount /\ last \in 1 .. CueCount /\ first <= last /\ CueCount \in Nat
      /\ Front = first
  BY RangeAtHand, RangeFacts
<1>2. /\ p \in Seq(Ranges) /\ (p # <<>> => Chain(p, batch)) /\ front = last + 1
  BY RangeAtHand, ChainTail DEF Current
<1>3. DoneUpTo(first, run.accepted, run.degraded, seen)
  BY <1>1 DEF Accounted, CuesOK, Talking
<1> DEFINE allAccepted == run.accepted \union accepted
           allDegraded == run.degraded \union degraded
<1>4. allAccepted \in SUBSET Cues /\ allDegraded \in SUBSET Cues
  <2>1. Within(Current) \subseteq Cues
    BY <1>1 DEF Within, Cues
  <2> QED
    BY <2>1 DEF Accounted, RunShape
<1>5. DoneUpTo(front, allAccepted, allDegraded, seen')
  <2> HIDE DEF front, first, last
  <2>1. /\ (last + 1) - 1 = last
        /\ 1 .. first - 1 \subseteq 1 .. last /\ Within(Current) \subseteq 1 .. last
        /\ Within(Current) \intersect 1 .. first - 1 = {}
        /\ \A c \in 1 .. last : c \in 1 .. first - 1 \/ c \in Within(Current)
    BY <1>1 DEF Within, first, last
  <2>2. /\ allAccepted \intersect allDegraded = {}
        /\ allAccepted \union allDegraded \subseteq 1 .. last
    BY <1>3, <2>1 DEF DoneUpTo
  <2>3. allAccepted \subseteq seen'.answered /\ allDegraded \subseteq seen'.alone
    BY <1>3 DEF DoneUpTo, Grows
  <2>4. \A c \in 1 .. last :
           c \in allAccepted \union allDegraded \/ (~setup.swept /\ c \in seen'.alone)
    BY <1>3, <2>1 DEF DoneUpTo, Grows
  <2> QED
    BY <1>2, <2>1, <2>2, <2>3, <2>4 DEF DoneUpTo
<1> HIDE DEF p, allAccepted, allDegraded, front
<1>6. run' = NextAsked(r, p)
  BY DEF p
<1>7. r.accepted = allAccepted /\ r.degraded = allDegraded
  BY DEF allAccepted, allDegraded
<1>8. front = IF p = <<>> THEN run.batches[run.at][2] + 1 ELSE p[1][1]
  BY DEF front
<1> QED
  BY <1>2, <1>4, <1>5, <1>6, <1>7, <1>8, NextRange

LEMMA IsolateAccounts ==
    ASSUME Accounted, run.pc \in Talking, UNCHANGED disk, Grows, Isolate,
           Current[1] = Current[2] => Within(Current) \subseteq seen'.alone
    PROVE  Accounted'
<1> DEFINE q == Halved(run.pending)
           batch == run.batches[run.at]
<1>1. /\ Current[1] \in 1 .. CueCount /\ Current[2] \in 1 .. CueCount
      /\ Current[1] <= Current[2] /\ CueCount \in Nat
  BY RangeAtHand, RangeFacts
<1>2. CASE Current[1] < Current[2]
  <2>1. run' = NextAsked(run, q)
    BY <1>2 DEF Isolate, Halved, Middle, Current
  <2>2. q \in Seq(Ranges) /\ q # <<>> /\ Chain(q, batch) /\ q[1][1] = Current[1]
    BY <1>2, RangeAtHand, ChainHalves DEF Current
  <2> HIDE DEF q
  <2>3. DoneUpTo(Current[1], run.accepted, run.degraded, seen')
    <3>1. DoneUpTo(Current[1], run.accepted, run.degraded, seen)
      BY RangeAtHand DEF Accounted, CuesOK, Talking
    <3> QED
      BY <3>1 DEF DoneUpTo, Grows
  <2>4. /\ DOMAIN run = RunFields /\ run.accepted \in SUBSET Cues /\ run.degraded \in SUBSET Cues
    BY DEF Accounted, RunShape
  <2> QED
    BY <2>1, <2>2, <2>3, <2>4, NextRange
<1>3. CASE ~(Current[1] < Current[2])
  <2>1. Current[1] = Current[2] /\ Within(Current) = {Current[1]}
    BY <1>1, <1>3 DEF Within
  <2> DEFINE r == [run EXCEPT !.degraded = @ \union {Current[1]}]
  <2>2. run' = NextAsked(r, Tail(run.pending))
    BY <1>3 DEF Isolate
  <2>3. /\ DOMAIN r = RunFields /\ r.batches = run.batches /\ r.at = run.at
        /\ r.accepted = run.accepted \union {} /\ r.degraded = run.degraded \union {Current[1]}
    BY DEF Accounted, RunShape, RunFields
  <2> HIDE DEF r
  <2>4. /\ {} \in SUBSET Within(Current) /\ {Current[1]} \in SUBSET Within(Current)
        /\ {} \subseteq seen'.answered /\ {Current[1]} \subseteq seen'.alone
        /\ {} \intersect {Current[1]} = {} /\ {} \union {Current[1]} = Within(Current)
    BY <2>1
  <2> QED
    BY <2>2, <2>3, <2>4, DoneWithRange
<1> QED
  BY <1>2, <1>3

LEMMA CheckAccounts ==
    ASSUME Accounted, CheckCancel
    PROVE  Accounted'
<1>1. run.pc = "Check" /\ UNCHANGED disk /\ Grows
  BY DEF CheckCancel, Grows
<1>2. CASE cancel
  BY <1>1, <1>2, CancelledIsOver DEF CheckCancel, UnlessCancelled
<1>3. CASE ~cancel
  <2>1. Goes("Send")
    BY <1>3 DEF CheckCancel, UnlessCancelled
  <2> QED
    BY <1>1, <2>1, TalksOn DEF Talking
<1> QED
  BY <1>2, <1>3

LEMMA ErrorAccounts ==
    ASSUME Accounted, run.pc \in Talking, UNCHANGED disk, Grows, NEW code, NEW wait,
           TransportError(code, wait),
           run.transport + 1 = TransportMax /\ Current[1] = Current[2] /\ code \in Isolable =>
               Within(Current) \subseteq seen'.alone
    PROVE  Accounted'
<1>1. CASE code \in {"Auth", "NotFound"}
  BY <1>1, FailedIsOver DEF TransportError
<1>2. CASE code \notin {"Auth", "NotFound"} /\ run.transport + 1 < TransportMax
  <2>1. run' = [run EXCEPT !.pc = "Sleep", !.transport = run.transport + 1, !.wait = wait]
    BY <1>2 DEF TransportError
  <2>2. /\ run.transport + 1 \in 0 .. TransportMax - 1 /\ run.semantic \in 0 .. SemanticMax - 1
        /\ "Sleep" \in Talking
    BY <1>2, PipelineAssumption DEF Accounted, RunShape, PipelineAssumption, Talking
  <2>3. run' = [run EXCEPT !.pc = "Sleep", !.semantic = run.semantic,
                           !.transport = run.transport + 1, !.wait = wait]
    BY <2>1 DEF Accounted, RunShape, RunFields
  <2> QED
    BY <2>2, <2>3, SameRange
<1>3. CASE code \notin {"Auth", "NotFound"} /\ ~(run.transport + 1 < TransportMax)
  <2>1. run.transport + 1 = TransportMax
    BY <1>3, PipelineAssumption DEF Accounted, RunShape, PipelineAssumption
  <2>2. CASE code \in Isolable
    BY <1>3, <2>1, <2>2, IsolateAccounts DEF TransportError
  <2>3. CASE code \notin Isolable
    BY <1>3, <2>3, FailedIsOver DEF TransportError
  <2> QED
    BY <2>2, <2>3
<1> QED
  BY <1>1, <1>2, <1>3

\* A refusal of the breaker is no word about the cues.
LEMMA SendAccounts ==
    ASSUME Accounted, Send
    PROVE  Accounted'
<1> DEFINE verdict == Verdict(Refresh(breaker))
<1>1. run.pc = "Send" /\ UNCHANGED disk /\ UNCHANGED setup
  BY DEF Send
<1>2. CASE verdict = "Ok"
  <2>1. Goes("Await") /\ seen' = [seen EXCEPT !.late = IF cancel THEN @ + 1 ELSE @]
    BY <1>2 DEF Send
  <2>2. Grows
    BY <1>1, <2>1 DEF Grows
  <2> QED
    BY <1>1, <2>1, <2>2, TalksOn DEF Talking
<1>3. CASE verdict # "Ok"
  <2>1. TransportError(verdict, "Backoff") /\ UNCHANGED seen
    BY <1>3 DEF Send
  <2>2. verdict \notin Isolable
    BY <1>3 DEF Verdict, Isolable
  <2>3. Grows /\ run.pc \in Talking
    BY <1>1, <2>1 DEF Grows, Talking
  <2> HIDE DEF verdict
  <2> QED
    BY <1>1, <2>1, <2>2, <2>3, ErrorAccounts
<1> QED
  BY <1>2, <1>3

LEMMA TextAccounts ==
    ASSUME Accounted, Remembered, AnswerText
    PROVE  Accounted'
<1>1. run.pc = "Await" /\ run.pc \in Talking /\ UNCHANGED disk
  BY DEF AnswerText, Talking
<1>2. PICK text \in Texts :
         /\ text # IF setup.kind = "Split" THEN "Empty" ELSE "Misaligned"
         /\ UnlessCancelled(IF Refused(text) THEN Repair ELSE Accept(text))
         /\ seen' = [seen EXCEPT
                       !.streak = 0,
                       !.answered = IF text \in {"Shape", "Keys", "Empty"} THEN @
                                    ELSE @ \union Within(Current),
                       !.alone = IF run.semantic + 1 = SemanticMax /\ Refused(text)
                                    /\ Current[1] = Current[2]
                                 THEN @ \union Within(Current) ELSE @]
  BY DEF AnswerText
<1>3. /\ Grows
      /\ text \notin {"Shape", "Keys", "Empty"} => Within(Current) \subseteq seen'.answered
      /\ run.semantic + 1 = SemanticMax /\ Refused(text) /\ Current[1] = Current[2] =>
            Within(Current) \subseteq seen'.alone
  <2>1. setup' = setup
    BY DEF AnswerText
  <2> QED
    BY <1>2, <2>1 DEF Grows, Remembered
<1>4. CASE cancel
  BY <1>1, <1>2, <1>3, <1>4, CancelledIsOver DEF UnlessCancelled
<1>5. CASE ~cancel /\ ~Refused(text)
  <2>1. text \notin {"Shape", "Keys", "Empty"}
    BY <1>2, <1>5 DEF Refused, RefusedBySplit, RefusedByText
  <2> DEFINE r == [run EXCEPT !.accepted = @ \union Within(Current),
                              !.misaligned = IF text = "Misaligned"
                                             THEN @ \union Within(Current) ELSE @]
  <2>2. run' = NextAsked(r, Tail(run.pending))
    BY <1>2, <1>5 DEF UnlessCancelled, Accept
  <2>3. /\ DOMAIN r = RunFields /\ r.batches = run.batches /\ r.at = run.at
        /\ r.accepted = run.accepted \union Within(Current)
        /\ r.degraded = run.degraded \union {}
    BY DEF Accounted, RunShape, RunFields
  <2> HIDE DEF r
  <2>4. /\ Within(Current) \in SUBSET Within(Current) /\ {} \in SUBSET Within(Current)
        /\ Within(Current) \subseteq seen'.answered /\ {} \subseteq seen'.alone
        /\ Within(Current) \intersect {} = {} /\ Within(Current) \union {} = Within(Current)
    BY <1>3, <2>1
  <2> QED
    BY <1>1, <1>3, <2>2, <2>3, <2>4, DoneWithRange
<1>6. CASE ~cancel /\ Refused(text)
  <2>1. Repair
    BY <1>2, <1>6 DEF UnlessCancelled
  <2>2. CASE run.semantic + 1 < SemanticMax
    <3>1. run' = [run EXCEPT !.pc = "Check", !.semantic = run.semantic + 1]
      BY <2>1, <2>2 DEF Repair
    <3>2. /\ run.semantic + 1 \in 0 .. SemanticMax - 1
          /\ run.transport \in 0 .. TransportMax - 1 /\ "Check" \in Talking
      BY <2>2, PipelineAssumption DEF Accounted, RunShape, PipelineAssumption, Talking
    <3>3. run' = [run EXCEPT !.pc = "Check", !.semantic = run.semantic + 1,
                             !.transport = run.transport, !.wait = run.wait]
      BY <3>1 DEF Accounted, RunShape, RunFields
    <3> QED
      BY <1>1, <1>3, <3>2, <3>3, SameRange
  <2>3. CASE ~(run.semantic + 1 < SemanticMax)
    <3>1. run.semantic + 1 = SemanticMax
      BY <2>3, PipelineAssumption DEF Accounted, RunShape, PipelineAssumption
    <3>2. Isolate
      BY <2>1, <2>3 DEF Repair
    <3> QED
      BY <1>1, <1>3, <1>6, <3>1, <3>2, IsolateAccounts
  <2> QED
    BY <2>2, <2>3
<1> QED
  BY <1>4, <1>5, <1>6

LEMMA FailureAccounts ==
    ASSUME Accounted, Remembered, AnswerError
    PROVE  Accounted'
<1>1. run.pc \in Talking /\ UNCHANGED disk /\ UNCHANGED setup
  BY DEF AnswerError, Talking
<1>2. PICK failure, wait :
         /\ TransportError(CodeOf(failure), wait)
         /\ seen' = [seen EXCEPT
                       !.streak = IF CodeOf(failure) \in Recoverable THEN @ + 1 ELSE @,
                       !.alone = IF run.transport + 1 = TransportMax
                                    /\ Current[1] = Current[2] /\ CodeOf(failure) \in Isolable
                                 THEN @ \union Within(Current) ELSE @]
  BY DEF AnswerError
<1> DEFINE code == CodeOf(failure)
<1>3. /\ Grows
      /\ run.transport + 1 = TransportMax /\ Current[1] = Current[2] /\ code \in Isolable =>
            Within(Current) \subseteq seen'.alone
  BY <1>1, <1>2 DEF Grows, Remembered
<1> HIDE DEF code
<1> QED
  BY <1>1, <1>2, <1>3, ErrorAccounts DEF code

LEMMA SleepAccounts ==
    ASSUME Accounted, SleepOver
    PROVE  Accounted'
<1>1. run.pc \in Talking /\ UNCHANGED disk /\ Grows /\ "Check" \in Talking
  BY DEF SleepOver, Talking, Grows
<1>2. run.semantic \in 0 .. SemanticMax - 1 /\ run.transport \in 0 .. TransportMax - 1
  BY DEF Accounted, RunShape
<1>3. run' = [run EXCEPT !.pc = "Check", !.semantic = run.semantic,
                         !.transport = run.transport, !.wait = "None"]
  BY DEF SleepOver, Accounted, RunShape, RunFields
<1> QED
  BY <1>1, <1>2, <1>3, SameRange

-----------------------------------------------------------------------------
(* The end of a batch and of the run, and what happens around it. *)

\* The result of a batch that is over goes to disk; what it lacks failed alone.
LEMMA ResultIsOfItsBatch ==
    ASSUME Accounted, run.pc = "Persist", Durable, disk' = PersistResult(run.at), Grows
    PROVE  /\ DiskOK' /\ disk'.prompt = disk.prompt /\ disk'.plan = disk.plan
           /\ \A b \in Cues : b # run.at => disk'.results[b] = disk.results[b]
<1> DEFINE at == run.at
           r == run.batches[at]
           result == run.accepted \intersect Within(r)
<1>1. /\ at \in Cues /\ at \in DOMAIN disk.plan /\ run.batches = disk.plan /\ r \in Ranges
      /\ Whole(disk.plan)
  <2>1. at \in DOMAIN run.batches
    BY DEF Accounted, Position, AtBatch
  <2> QED
    BY <2>1, PlanAtHand DEF Planned, AtBatch, Whole
<1>2. disk' = [disk EXCEPT !.results[at] = result]
  BY DEF PersistResult
<1>3. DoneUpTo(r[2] + 1, run.accepted, run.degraded, seen)
  BY DEF Accounted, CuesOK, Front, Talking
<1>4. Within(r) \subseteq 1 .. (r[2] + 1) - 1
  BY <1>1, RangeFacts DEF Within
<1>5. /\ result \subseteq Within(r) \intersect seen.answered
      /\ Within(r) \ result \subseteq seen.alone /\ result \subseteq Cues
  BY <1>3, <1>4 DEF DoneUpTo, Accounted, RunShape
<1> HIDE DEF result, at
<1>6. /\ DOMAIN disk' = DOMAIN disk /\ disk'.prompt = disk.prompt /\ disk'.plan = disk.plan
      /\ disk'.results = [disk.results EXCEPT ![at] = result]
  BY <1>2 DEF Accounted, DiskOK
<1>7. /\ disk'.results[at] = result
      /\ \A b \in Cues : b # at => disk'.results[b] = disk.results[b]
      /\ disk'.results \in [Cues -> SUBSET (Cues \union NoResult)]
  BY <1>1, <1>5, <1>6 DEF Accounted, DiskOK
<1>8. ASSUME NEW b \in Cues, disk'.results[b] # NoResult
      PROVE  /\ b \in DOMAIN disk'.plan
             /\ disk'.results[b] \subseteq Within(disk'.plan[b]) \intersect seen'.answered
             /\ Within(disk'.plan[b]) \ disk'.results[b] \subseteq seen'.alone
  <2>1. CASE b = at
    BY <1>1, <1>5, <1>6, <1>7, <2>1 DEF Grows
  <2>2. CASE b # at
    <3>1. /\ b \in DOMAIN disk.plan
          /\ disk.results[b] \subseteq Within(disk.plan[b]) \intersect seen.answered
          /\ Within(disk.plan[b]) \ disk.results[b] \subseteq seen.alone
      BY <1>7, <1>8, <2>2 DEF Accounted, DiskOK
    <3> QED
      BY <1>6, <1>7, <2>2, <3>1 DEF Grows
  <2> QED
    BY <2>1, <2>2
<1>9. DiskOK'
  BY <1>1, <1>6, <1>7, <1>8 DEF Accounted, DiskOK
<1> QED
  BY <1>6, <1>7, <1>9 DEF at

LEMMA PersistAccounts ==
    ASSUME Accounted, Persist
    PROVE  Accounted'
<1> DEFINE at == run.at
           n == Len(run.batches)
<1>1. run.pc = "Persist" /\ Grows
  BY DEF Persist, Grows
<1>2. at \in 1 .. n /\ n \in Nat /\ at + 1 \in 1 .. n + 1 /\ at \in 1 .. n + 1
  BY <1>1 DEF Accounted, Position, AtBatch, RunShape
<1>3. /\ DiskOK' /\ disk'.prompt = disk.prompt /\ disk'.plan = disk.plan
      /\ \A b \in Cues : b # at => disk'.results[b] = disk.results[b]
  <2>1. CASE Durable
    BY <1>1, <2>1, ResultIsOfItsBatch DEF Persist
  <2>2. CASE ~Durable
    <3>1. UNCHANGED disk
      BY <2>2 DEF Persist
    <3> QED
      BY <1>1, <3>1, DiskKept DEF Accounted
  <2> QED
    BY <2>1, <2>2
<1>4. CASE Durable /\ setup.wired
  <2>1. Moves("Commit", at)
    BY <1>4, Going DEF Persist, Accounted
  <2>2. RunShape'
    BY <1>2, <2>1, MovingKeeps DEF Accounted, Active
  <2>3. Position' /\ PendingOK'
    BY <1>1, <1>3, <1>4, <2>1 DEF Accounted, Position, PendingOK, Talking, Early, AtBatch, Planned,
                                  Active, Grows, Durable, Moves
  <2>4. CuesOK'
    <3>1. Front' = Front
      BY <1>1, <2>1 DEF Front, Talking, Moves
    <3>2. DoneUpTo(Front, run.accepted, run.degraded, seen)
      BY <1>1 DEF Accounted, CuesOK
    <3> QED
      BY <1>1, <2>1, <3>1, <3>2 DEF CuesOK, DoneUpTo, Grows, Moves
  <2> QED
    BY <1>3, <2>2, <2>3, <2>4 DEF Accounted
<1>5. CASE ~(Durable /\ setup.wired)
  <2> DEFINE pc == IF cancel THEN "Cancelled" ELSE "Batch"
  <2>1. Moves(pc, at + 1)
    BY <1>5 DEF Persist, NextBatch, Moves, Accounted, RunShape, RunFields
  <2>2. RunShape'
    BY <1>2, <2>1, MovingKeeps DEF Accounted, Active, Ended
  <2>3. Position'
    <3>1. \A b \in Cues : b >= at + 1 => b >= at /\ b # at
      BY <1>2 DEF Cues
    <3> QED
      BY <1>1, <1>2, <1>3, <2>1, <3>1 DEF Accounted, Position, Talking, Early, AtBatch, Planned,
                                          Active, Grows, Durable, Moves
  <2>4. PendingOK'
    BY <2>1 DEF PendingOK, Talking, Moves
  <2>5. CuesOK'
    <3>1. CASE cancel
      BY <2>1, <3>1 DEF CuesOK, Moves
    <3>2. CASE ~cancel
      <4>1. (at + 1) - 1 = at /\ at + 1 # 1
        BY <1>2
      <4>2. Front' = Front
        BY <1>1, <2>1, <3>2, <4>1 DEF Front, Talking, Moves
      <4>3. DoneUpTo(Front, run.accepted, run.degraded, seen)
        BY <1>1 DEF Accounted, CuesOK
      <4> QED
        BY <1>1, <2>1, <4>2, <4>3 DEF CuesOK, DoneUpTo, Grows, Moves
    <3> QED
      BY <3>1, <3>2
  <2> QED
    BY <1>3, <2>2, <2>3, <2>4, <2>5 DEF Accounted
<1> QED
  BY <1>4, <1>5

LEMMA EndAccounts ==
    ASSUME Accounted, Commit \/ Finish
    PROVE  Accounted'
<1>1. UNCHANGED disk /\ Grows
  BY DEF Commit, Finish, Grows
<1>2. CASE Commit
  BY <1>1, <1>2, FailedIsOver DEF Commit
<1>3. CASE Finish
  <2>1. CASE setup.kind = "Split" /\ ~AppliesSplit
    BY <1>1, <1>3, <2>1, FailedIsOver DEF Finish
  <2>2. CASE ~(setup.kind = "Split" /\ ~AppliesSplit)
    <3> DEFINE pc == IF run.degraded = {} THEN "Done" ELSE "Degraded"
    <3>1. run.pc = "Finish" /\ Moves(pc, run.at)
      BY <1>3, <2>2, Going DEF Finish, Accounted
    <3>2. RunShape'
      BY <3>1, MovingKeeps DEF Accounted, RunShape, Ended
    <3>3. DiskOK'
      BY <1>1, DiskKept DEF Accounted
    <3>4. Position' /\ PendingOK'
      BY <1>1, <3>1 DEF Accounted, Position, PendingOK, Talking, Early, AtBatch, Planned, Active,
                        Grows, Durable, Moves
    <3>5. CuesOK'
      <4>1. Front' = Front
        BY <3>1 DEF Front, Talking, Moves
      <4>2. DoneUpTo(Front, run.accepted, run.degraded, seen)
        BY <3>1 DEF Accounted, CuesOK
      <4> QED
        BY <1>1, <3>1, <4>1, <4>2 DEF CuesOK, DoneUpTo, Grows, Moves
    <3> QED
      BY <3>2, <3>3, <3>4, <3>5 DEF Accounted
  <2> QED
    BY <2>1, <2>2
<1> QED
  BY <1>2, <1>3

LEMMA FreshAccounts ==
    ASSUME NEW pc \in {"Idle", "Begin"}, run' = [NoRun EXCEPT !.pc = pc], DiskOK',
           UNCHANGED setup, setup.swept /\ pc = "Begin" =>
                                \A b \in Cues : disk'.results[b] = NoResult
    PROVE  Accounted'
<1>1. /\ DOMAIN run' = RunFields /\ run'.pc = pc /\ run'.at = 1 /\ run'.batches = <<>>
      /\ run'.pending = <<>> /\ run'.semantic = 0 /\ run'.transport = 0
      /\ run'.accepted = {} /\ run'.degraded = {}
  BY DEF NoRun, RunFields
<1>2. RunShape'
  <2>1. <<>> \in Seq(Ranges) /\ InOrder(<<>>) /\ 1 \in 1 .. Len(<<>>) + 1
    BY DEF InOrder
  <2>2. 0 \in 0 .. SemanticMax - 1 /\ 0 \in 0 .. TransportMax - 1
    BY PipelineAssumption DEF PipelineAssumption
  <2> QED
    BY <1>1, <2>1, <2>2 DEF RunShape, Active
<1>3. Position' /\ PendingOK'
  BY <1>1 DEF Position, PendingOK, Talking, Early, AtBatch, Planned, Active, Durable
<1>4. CuesOK'
  BY <1>1 DEF CuesOK, DoneUpTo, Front, Talking
<1> QED
  BY <1>2, <1>3, <1>4 DEF Accounted

LEMMA AroundAccounts ==
    ASSUME Accounted, Remembered, Begin \/ Cancel \/ Crash \/ OpenTimeOver \/ RetryAfterOver
    PROVE  Accounted'
<1>1. CASE Begin
  <2>1. run' = [NoRun EXCEPT !.pc = "Begin"] /\ UNCHANGED setup
    BY <1>1 DEF Begin
  <2>2. CASE setup.swept
    <3>1. disk' = Sweep
      BY <1>1, <2>2 DEF Begin
    <3>2. /\ DOMAIN disk' = DOMAIN disk /\ disk'.plan = NoPlan
          /\ disk'.results = [b \in Cues |-> NoResult]
      BY <3>1 DEF Sweep, Accounted, DiskOK
    <3>3. disk'.results \in [Cues -> SUBSET (Cues \union NoResult)]
      BY <3>2
    <3>4. DiskOK' /\ \A b \in Cues : disk'.results[b] = NoResult
      BY <3>2, <3>3 DEF DiskOK, Accounted
    <3> QED
      BY <2>1, <3>4, FreshAccounts
  <2>3. CASE ~setup.swept
    <3>1. UNCHANGED disk /\ Grows
      BY <1>1, <2>1, <2>3 DEF Begin, Grows, Remembered
    <3>2. DiskOK'
      BY <3>1, DiskKept DEF Accounted
    <3> QED
      BY <2>1, <2>3, <3>2, FreshAccounts
  <2> QED
    BY <2>2, <2>3
<1>2. CASE Crash
  <2>1. UNCHANGED disk /\ Grows
    BY <1>2 DEF Crash, Grows, Remembered
  <2>2. DiskOK'
    BY <2>1, DiskKept DEF Accounted
  <2>3. run' = [NoRun EXCEPT !.pc = "Idle"]
    BY <1>2 DEF Crash, NoRun
  <2> QED
    BY <2>1, <2>2, <2>3, FreshAccounts DEF Grows
<1>3. CASE Cancel \/ OpenTimeOver \/ RetryAfterOver
  <2>1. UNCHANGED <<run, disk, setup>> /\ Grows
    BY <1>3 DEF Cancel, OpenTimeOver, RetryAfterOver, Grows, Remembered
  <2>2. DiskOK'
    BY <2>1, DiskKept DEF Accounted
  <2> QED
    BY <2>1, <2>2 DEF Accounted, RunShape, Position, PendingOK, CuesOK, DoneUpTo, Front, Current,
                      Durable, Grows
<1> QED
  BY <1>1, <1>2, <1>3

-----------------------------------------------------------------------------
(* The theorems about the cues. *)

LEMMA AccountedInitially ==
    ASSUME Init
    PROVE  Accounted /\ Remembered
<1>1. /\ run = NoRun /\ disk = NoFiles /\ seen = Unseen
  BY DEF Init
<1>2. /\ DOMAIN run = RunFields /\ run.pc = "Idle" /\ run.at = 1 /\ run.batches = <<>>
      /\ run.pending = <<>> /\ run.semantic = 0 /\ run.transport = 0
      /\ run.accepted = {} /\ run.degraded = {}
  BY <1>1 DEF NoRun, RunFields
<1>3. RunShape
  BY <1>2, PipelineAssumption DEF RunShape, Active, InOrder, PipelineAssumption
<1>4. DiskOK
  BY <1>1 DEF DiskOK, NoFiles
<1>5. Position /\ PendingOK
  BY <1>2 DEF Position, PendingOK, Talking, Early, AtBatch, Planned, Active, Durable
<1>6. CuesOK
  BY <1>2 DEF CuesOK, DoneUpTo, Front, Talking
<1>7. Remembered
  BY <1>1 DEF Remembered, Unseen
<1> QED
  BY <1>3, <1>4, <1>5, <1>6, <1>7 DEF Accounted

LEMMA StillRemembered ==
    ASSUME Remembered, [Next]_vars
    PROVE  Remembered'
<1>1. DOMAIN seen' = DOMAIN seen
  BY DEF Next, Progress, Begin, Cancel, Crash, OpenTimeOver, RetryAfterOver, Execute,
         MaterializePrompt, PlanBatches, EnsureUnits, NextPlanned, NextTranslated, CheckCancel,
         Send, AnswerText, AnswerError, SleepOver, Persist, Commit, Finish, vars
<1> QED
  BY <1>1 DEF Remembered

LEMMA AccountedKept ==
    ASSUME Accounted, Remembered, [Next]_vars
    PROVE  Accounted'
<1>1. CASE Begin \/ Cancel \/ Crash \/ OpenTimeOver \/ RetryAfterOver
  BY <1>1, AroundAccounts
<1>2. CASE Execute \/ MaterializePrompt \/ PlanBatches \/ EnsureUnits
  BY <1>2, ExecuteAccounts, PromptAccounts, PlanAccounts, UnitsAccount
<1>3. CASE NextPlanned \/ NextTranslated
  BY <1>3, PlannedAccounts, TranslatedAccounts
<1>4. CASE CheckCancel \/ Send \/ AnswerText \/ AnswerError \/ SleepOver
  BY <1>4, CheckAccounts, SendAccounts, TextAccounts, FailureAccounts, SleepAccounts
<1>5. CASE Persist \/ Commit \/ Finish
  BY <1>5, PersistAccounts, EndAccounts
<1>6. CASE UNCHANGED vars
  <2>1. UNCHANGED <<run, disk, setup, seen>>
    BY <1>6 DEF vars
  <2> QED
    BY <2>1 DEF Accounted, RunShape, DiskOK, Position, PendingOK, CuesOK, DoneUpTo, Front, Current,
                Durable
<1> QED
  BY <1>1, <1>2, <1>3, <1>4, <1>5, <1>6 DEF Next, Progress

LEMMA AccountedSuffices == Accounted => EveryCueAccounted
<1> SUFFICES ASSUME Accounted, run.pc \in {"Done", "Degraded"}
             PROVE  /\ run.accepted \intersect run.degraded = {}
                    /\ run.accepted \subseteq seen.answered
                    /\ run.degraded \subseteq seen.alone
                    /\ Cues \ (run.accepted \union run.degraded) \subseteq seen.alone
                    /\ setup.swept => Cues = run.accepted \union run.degraded
  BY DEF EveryCueAccounted
<1>1. DoneUpTo(CueCount + 1, run.accepted, run.degraded, seen)
  BY DEF Accounted, CuesOK, Front, Talking
<1>2. 1 .. (CueCount + 1) - 1 = Cues
  BY PipelineAssumption DEF PipelineAssumption, Cues
<1> QED
  BY <1>1, <1>2 DEF DoneUpTo

\* No cue is lost, taken twice or left without a reason on the way to a stage
\* that succeeds, whatever the provider answers, however a batch is halved, and
\* wherever the runs before it ended.
THEOREM EveryCueIsAccounted == Spec => []EveryCueAccounted
<1>1. Init => Accounted /\ Remembered
  BY AccountedInitially
<1>2. Accounted /\ Remembered /\ [Next]_vars => (Accounted /\ Remembered)'
  BY AccountedKept, StillRemembered
<1> QED
  BY <1>1, <1>2, AccountedSuffices, PTL DEF Spec

\* Only Send asks, and it asks for a range of the batch the run is at.
LEMMA AsksForPlanned ==
    ASSUME Accounted, [Next]_vars, run.pc # "Await", run'.pc = "Await"
    PROVE  /\ disk.prompt
           /\ Durable => /\ run.at \in DOMAIN disk.plan
                         /\ Within(Current) \subseteq Within(disk.plan[run.at])
                         /\ disk.results[run.at] = NoResult
<1>1. run.pc = "Send"
  <2>1. "pc" \in DOMAIN run
    BY DEF Accounted, RunShape, RunFields
  <2>2. ~(Begin \/ Cancel \/ Crash \/ OpenTimeOver \/ RetryAfterOver \/ UNCHANGED vars)
    BY DEF Begin, Cancel, Crash, OpenTimeOver, RetryAfterOver, NoRun, vars
  <2>3. ~(\/ Execute \/ MaterializePrompt \/ PlanBatches \/ EnsureUnits \/ NextPlanned
          \/ NextTranslated \/ Persist \/ Commit \/ Finish)
    BY <2>1, QuietStepGoes DEF QuietPcs, Ended
  <2>4. ~CheckCancel
    <3>1. CheckCancel => Goes("Cancelled") \/ Goes("Send")
      BY DEF CheckCancel, UnlessCancelled
    <3> QED
      BY <2>1, <3>1, GoesTo
  <2>5. ~SleepOver
    BY <2>1 DEF SleepOver
  <2>6. ~(AnswerText \/ AnswerError)
    BY DEF AnswerText, AnswerError
  <2>7. Send
    BY <2>2, <2>3, <2>4, <2>5, <2>6 DEF Next, Progress
  <2> QED
    BY <2>7 DEF Send
<1>2. disk.prompt
  BY <1>1 DEF Accounted, Position, Active
<1>3. ASSUME Durable
      PROVE  /\ run.at \in DOMAIN disk.plan
             /\ Within(Current) \subseteq Within(disk.plan[run.at])
             /\ disk.results[run.at] = NoResult
  <2> DEFINE r == run.batches[run.at]
  <2>1. /\ Current \in Ranges /\ r \in Ranges /\ Chain(run.pending, r)
        /\ run.at \in DOMAIN run.batches /\ 1 \in 1 .. Len(run.pending)
    BY <1>1, RangeAtHand, EmptySeq, LenProperties DEF Talking
  <2>2. run.batches = disk.plan
    BY <1>1, <1>3, PlanAtHand DEF Planned, AtBatch, Talking
  <2>3. r[1] <= Current[1] /\ Current[2] <= r[2]
    BY <2>1 DEF Chain, Current
  <2>4. Within(Current) \subseteq Within(r)
    BY <2>1, <2>3, RangeFacts DEF Within
  <2> QED
    BY <1>1, <1>3, <2>1, <2>2, <2>4 DEF Accounted, Position, Talking
<1> QED
  BY <1>2, <1>3

LEMMA PlanStays ==
    ASSUME Accounted, [Next]_vars, disk.plan # NoPlan
    PROVE  disk'.plan \in {disk.plan, NoPlan}
<1>1. CASE Begin
  BY <1>1 DEF Begin, Sweep, Accounted, DiskOK
<1>2. CASE PlanBatches
  BY <1>2 DEF PlanBatches, PersistPlan, MakePlan, Accounted, DiskOK
<1>3. CASE MaterializePrompt \/ EnsureUnits \/ Persist
  BY <1>3 DEF MaterializePrompt, EnsureUnits, Persist, PersistResult, Accounted, DiskOK
<1>4. CASE UNCHANGED disk
  BY <1>4
<1> QED
  BY <1>1, <1>2, <1>3, <1>4
     DEF Next, Progress, Cancel, Crash, OpenTimeOver, RetryAfterOver, Execute, NextPlanned,
         NextTranslated, CheckCancel, Send, AnswerText, AnswerError, SleepOver, Commit, Finish, vars

\* Every request is for a part of a batch that is planned on disk and has no
\* result there, so that a crash never costs more than the batch at hand.
THEOREM WorkIsDurable == Spec => DurableWork
<1>1. Init => Accounted /\ Remembered
  BY AccountedInitially
<1>2. Accounted /\ Remembered /\ [Next]_vars => (Accounted /\ Remembered)'
  BY AccountedKept, StillRemembered
<1>3. Accounted /\ [Next]_vars =>
        [/\ run.pc # "Await" /\ run'.pc = "Await" => disk.prompt
         /\ run.pc # "Await" /\ run'.pc = "Await" /\ Durable
              => /\ run.at \in DOMAIN disk.plan
                 /\ Within(Current) \subseteq Within(disk.plan[run.at])
                 /\ disk.results[run.at] = NoResult
         /\ disk.plan # NoPlan => disk'.plan \in {disk.plan, NoPlan}]_vars
  BY AsksForPlanned, PlanStays
<1> QED
  BY <1>1, <1>2, <1>3, PTL DEF Spec, DurableWork

=============================================================================
