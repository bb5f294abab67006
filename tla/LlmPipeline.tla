----------------------------- MODULE LlmPipeline ------------------------------
(***************************************************************************)
(* One LLM stage of a Job (core/src/use_cases/llm_pipeline): the cues of   *)
(* its transcript are packed into batches, each batch is one conversation  *)
(* with the provider, a batch the provider cannot answer is halved until   *)
(* single cues remain, and those are left as they are and marked.  Split   *)
(* and Correct keep their plan and the answer to every batch on disk, so   *)
(* that another run of the stage goes on where the last one ended;         *)
(* Translate packs one batch after the other, because the translations of  *)
(* a batch are the context of the next, and keeps nothing.                 *)
(*                                                                         *)
(* Every call passes the circuit breaker of the provider.  It ends in one  *)
(* of Failures, or in a text, of which only its first defect is modelled:  *)
(* no items in it ("Shape"), not the cues that were asked for ("Keys"),    *)
(* other words ("Content"), nothing for a cue ("Empty"), hardly the same   *)
(* ("Dissimilar"), left as it was ("Residue"), a break inside a word       *)
(* ("Misaligned"), or "Good".  A batch is a range of cues <<first, last>>. *)
(***************************************************************************)
EXTENDS CircuitBreaker, Integers, Sequences, FiniteSets

CONSTANTS CueCount,
          Costs,           \* what a cue may weigh in tokens
          Limit,           \* what one request may weigh
          MaxItems,        \* LLM_MAX_ITEMS
          SemanticMax,     \* max_semantic_attempts
          TransportMax,    \* MAX_TRANSPORT_ATTEMPTS
          Kinds,           \* the stages of this instance
          Wirings,         \* whether the work units are wired in
          Sweeps,          \* whether recovery precedes a run
          Texts,           \* what the provider may answer
          Errors,          \* how its calls may fail
          MaxRuns          \* bound on the runs of the stage

Defects == {"Shape", "Keys", "Content", "Empty", "Dissimilar", "Residue",
            "Misaligned"}

ASSUME PipelineAssumption ==
    /\ CueCount \in Nat \ {0}
    /\ Costs \subseteq Nat \ {0} /\ Limit \in Nat
    /\ MaxItems \in Nat \ {0}
    /\ SemanticMax \in Nat \ {0} /\ TransportMax \in Nat \ {0}
    /\ Kinds \subseteq {"Split", "Correct", "Translate"}
    /\ Wirings \subseteq BOOLEAN /\ Sweeps \subseteq BOOLEAN
    /\ Texts \subseteq {"Good"} \union Defects /\ Errors \subseteq Failures
    /\ MaxRuns \in Nat

Cues == 1 .. CueCount
Ranges == {r \in Cues \X Cues : r[1] <= r[2]}
Within(r) == r[1] .. r[2]

VARIABLES setup,     \* stage, wiring, and the weight of every cue
          disk,      \* plan, results and rows of work units
          run,       \* the run of the stage
          breaker,
          cancel,    \* the cancellation token of the Job's run
          runs,      \* runs begun so far
          seen       \* what the provider has been through (history)

vars == <<setup, disk, run, breaker, cancel, runs, seen>>

NoPlan == <<>>
NoResult == {0}
NoFiles == [prompt |-> FALSE, plan |-> NoPlan,
            results |-> [b \in Cues |-> NoResult], units |-> {}]
Durable == setup.kind # "Translate"

Active == {"Begin", "Prompt", "Plan", "Units", "Batch", "Check", "Send", "Await", "Sleep",
           "Persist", "Commit", "Finish"}
Ended == {"Done", "Degraded", "Failed", "Cancelled"}
Isolable == {"Validation", "InvalidResponse", "Context"}

\* What the validation of a request refuses: request_split_batch, to which an
\* item without a text is one with other words, and request_text_batch.
RefusedBySplit == {"Shape", "Keys", "Content"}
RefusedByText(kind) == {"Shape", "Keys", "Empty"} \union
                       (IF kind = "Correct" THEN {"Dissimilar"} ELSE {"Residue"})
Refused(text) == text \in IF setup.kind = "Split" THEN RefusedBySplit
                          ELSE RefusedByText(setup.kind)

NoRun == [pc |-> "Idle", batches |-> <<>>, at |-> 1, pending |-> <<>>,
          semantic |-> 0, transport |-> 0, wait |-> "None", accepted |-> {},
          misaligned |-> {}, degraded |-> {}, error |-> "None"]
Unseen == [late |-> 0, streak |-> 0, answered |-> {}, alone |-> {}]

-----------------------------------------------------------------------------
(* Packing. *)

Fits(first, last, context) ==
    LET weight[c \in (first - 1) .. last] ==
            IF c < first THEN context ELSE weight[c - 1] + setup.cost[c]
    IN  weight[last] <= Limit

\* pack_one_batch: what fits, in order; never empty, or there is no batch.
PackOne(first, context) ==
    {r \in Ranges : /\ r[1] = first /\ r[2] < first + MaxItems
                    /\ Fits(first, r[2], context)
                    /\ \/ r[2] = CueCount \/ r[2] + 1 = first + MaxItems
                       \/ ~Fits(first, r[2] + 1, context)}

\* pack_batches: one after the other from the first cue to the last; there is
\* just one such packing, or none because a cue cannot be packed.
CanPack == \A c \in Cues : Fits(c, c, 0)
InOrder(batches) ==
    /\ batches # <<>> => batches[1][1] = 1
    /\ \A i \in 1 .. Len(batches) - 1 : batches[i + 1][1] = batches[i][2] + 1
Packings ==
    {batches \in UNION {[1 .. n -> Ranges] : n \in Cues} :
        /\ InOrder(batches) /\ batches[Len(batches)][2] = CueCount
        /\ \A i \in DOMAIN batches : batches[i] \in PackOne(batches[i][1], 0)}

-----------------------------------------------------------------------------
(* How a run goes on. *)

Goes(pc) == run' = [run EXCEPT !.pc = pc]
Fails(error) == run' = [run EXCEPT !.pc = "Failed", !.error = error]

\* The steps that only look at the token before they go on.
\* Slip: the token is not looked at.
UnlessNever(step) == step
UnlessCancelled(step) == IF cancel THEN Goes("Cancelled") ELSE step

Current == run.pending[1]
NextAsked(r, pending) ==
    [r EXCEPT !.pending = pending, !.semantic = 0, !.transport = 0,
              !.pc = IF pending = <<>> THEN "Persist" ELSE "Check"]

\* A range that failed for its content: halved, the left half first, or a cue
\* alone, which stays as it is.
\* Slip: the right half is forgotten.
IsolateLeft ==
    LET mid == (Current[1] + Current[2]) \div 2
        rest == Tail(run.pending)
    IN  IF Current[1] < Current[2]
        THEN run' = NextAsked(run, <<<<Current[1], mid>>>> \o rest)
        ELSE run' = NextAsked([run EXCEPT !.degraded = @ \union {Current[1]}], rest)
Isolate ==
    LET mid == Current[1] + (Current[2] - Current[1] + 1) \div 2
        rest == Tail(run.pending)
    IN  IF Current[1] < Current[2]
        THEN run' = NextAsked(run, <<<<Current[1], mid - 1>>, <<mid, Current[2]>>>> \o rest)
        ELSE run' = NextAsked([run EXCEPT !.degraded = @ \union {Current[1]}], rest)

\* request_json, on an error: code and whether it told when to come back.
\* Slip: the attempts are not counted.
TransportErrorForever(code, wait) ==
    IF code \in {"Auth", "NotFound"} THEN Fails(code)
    ELSE run' = [run EXCEPT !.pc = "Sleep", !.wait = wait]
TransportError(code, wait) ==
    IF code \in {"Auth", "NotFound"} THEN Fails(code)
    ELSE IF run.transport + 1 < TransportMax
    THEN run' = [run EXCEPT !.pc = "Sleep", !.transport = @ + 1, !.wait = wait]
    ELSE IF code \in Isolable THEN Isolate ELSE Fails(code)

-----------------------------------------------------------------------------
(* A run, up to its first batch. *)

\* Recovery quarantines every file of the Job no artifact row knows.
Sweep == [disk EXCEPT !.prompt = FALSE, !.plan = NoPlan,
                      !.results = [b \in Cues |-> NoResult]]
Begin ==
    /\ run.pc \in {"Idle", "Failed", "Cancelled"} /\ runs < MaxRuns
    /\ run' = [NoRun EXCEPT !.pc = "Begin"]
    /\ runs' = runs + 1 /\ cancel' = FALSE
    /\ IF setup.swept
       THEN disk' = Sweep
            /\ seen' = [seen EXCEPT !.late = 0, !.answered = {}, !.alone = {}]
       ELSE UNCHANGED disk /\ seen' = [seen EXCEPT !.late = 0]
    /\ UNCHANGED <<setup, breaker>>

Execute ==
    /\ run.pc = "Begin"
    /\ UnlessCancelled(Goes("Prompt"))
    /\ UNCHANGED <<setup, disk, breaker, cancel, runs, seen>>

\* The prompt is frozen before any call; it is read back from its file.
MaterializePrompt ==
    /\ run.pc = "Prompt"
    /\ disk' = [disk EXCEPT !.prompt = TRUE]
    /\ Goes(IF Durable THEN "Plan" ELSE "Batch")
    /\ UNCHANGED <<setup, breaker, cancel, runs, seen>>

\* ensure_plan: a plan that is there is used as it is.
\* Slip: the new plan is only kept in memory.
PersistNothing(plan) == disk
PersistPlan(plan) == [disk EXCEPT !.plan = plan]
MakePlan == IF disk.plan # NoPlan THEN {disk.plan} ELSE Packings
PlanBatches ==
    /\ run.pc = "Plan"
    /\ IF ~CanPack THEN Fails("Context") /\ UNCHANGED disk
       ELSE \E plan \in MakePlan : /\ run' = [run EXCEPT !.pc = "Units", !.batches = plan]
                                   /\ disk' = PersistPlan(plan)
    /\ UNCHANGED <<setup, breaker, cancel, runs, seen>>

\* ensure_work_units.  make_plan leaves the revisions of an entry empty, and
\* so the input hash of its unit is that of no revisions.
ExpectedRevisions == "NoRevisions"
EnsureUnits ==
    /\ run.pc = "Units"
    /\ disk' = IF setup.wired
               THEN [disk EXCEPT !.units = @ \union
                        {<<b, ExpectedRevisions>> : b \in DOMAIN run.batches}]
               ELSE disk
    /\ Goes("Batch")
    /\ UNCHANGED <<setup, breaker, cancel, runs, seen>>

-----------------------------------------------------------------------------
(* A batch. *)

Ask(r, batches) ==
    run' = [run EXCEPT !.pc = "Check", !.pending = <<r>>, !.batches = batches,
                       !.semantic = 0, !.transport = 0]

\* load_durable_batch.
Loaded(b) == disk.results[b]

NextPlanned ==
    /\ run.pc = "Batch" /\ Durable
    /\ IF run.at > Len(run.batches) THEN Goes("Finish")
       ELSE UnlessCancelled(
              IF Loaded(run.at) = NoResult
              THEN Ask(run.batches[run.at], run.batches)
              ELSE IF Loaded(run.at) = {} THEN Fails("ArtifactCorrupt")
              ELSE run' = [run EXCEPT !.at = @ + 1,
                                      !.accepted = @ \union Loaded(run.at)])
    /\ UNCHANGED <<setup, disk, breaker, cancel, runs, seen>>

\* The wavefront: what the last batch was translated to is the context.
NextFirst == IF run.batches = <<>> THEN 1
             ELSE run.batches[Len(run.batches)][2] + 1
NextTranslated ==
    /\ run.pc = "Batch" /\ ~Durable
    /\ \E context \in 0 .. IF run.batches = <<>> THEN 0 ELSE 1 :
          LET packed == PackOne(NextFirst, context)
          IN  IF NextFirst > CueCount THEN Goes("Finish")
              ELSE UnlessCancelled(
                     IF packed = {} THEN Fails("Context")
                     ELSE \E r \in packed : Ask(r, Append(run.batches, r)))
    /\ UNCHANGED <<setup, disk, breaker, cancel, runs, seen>>

\* request_json: one turn of its loop, from the look at the token to the answer.
CheckCancel ==
    /\ run.pc = "Check"
    /\ UnlessCancelled(Goes("Send"))
    /\ UNCHANGED <<setup, disk, breaker, cancel, runs, seen>>

\* CircuitLlmProvider: the request leaves, or is refused on the spot.
Send ==
    /\ run.pc = "Send"
    /\ LET b == Refresh(breaker)
       IN  /\ breaker' = Guarded(b)
           /\ IF Verdict(b) = "Ok"
              THEN Goes("Await") /\ seen' = [seen EXCEPT !.late = IF cancel THEN @ + 1 ELSE @]
              ELSE TransportError(Verdict(b), "Backoff") /\ UNCHANGED seen
    /\ UNCHANGED <<setup, disk, cancel, runs>>

Accept(text) ==
    run' = NextAsked([run EXCEPT !.accepted = @ \union Within(Current),
                                 !.misaligned = IF text = "Misaligned"
                                                THEN @ \union Within(Current) ELSE @],
                     Tail(run.pending))
Repair ==
    IF run.semantic + 1 < SemanticMax
    THEN run' = [run EXCEPT !.pc = "Check", !.semantic = @ + 1]
    ELSE Isolate

AnswerText ==
    /\ run.pc = "Await"
    /\ breaker' = RecordSuccess(breaker)
    /\ \E text \in Texts :
          /\ text # IF setup.kind = "Split" THEN "Empty" ELSE "Misaligned"
          /\ UnlessCancelled(IF Refused(text) THEN Repair ELSE Accept(text))
          /\ seen' = [seen EXCEPT
                        !.streak = 0,
                        !.answered = IF text \in {"Shape", "Keys", "Empty"} THEN @
                                     ELSE @ \union Within(Current),
                        !.alone = IF run.semantic + 1 = SemanticMax /\ Refused(text)
                                     /\ Current[1] = Current[2]
                                  THEN @ \union Within(Current) ELSE @]
    /\ UNCHANGED <<setup, disk, cancel, runs>>

\* retry_after_ms: any answer with a status may tell when to come back; a time
\* shorter than the longest sleep is waited for in full.
WaitsTold(failure) ==
    {"Backoff"} \union IF failure \in Statuses THEN {"Short", "Long"} ELSE {}
AnswerError ==
    /\ run.pc = "Await"
    /\ \E failure \in Errors : \E wait \in WaitsTold(failure) :
          LET code == CodeOf(failure)
          IN  /\ breaker' = RecordFailure(breaker, code, wait # "Backoff")
              /\ TransportError(code, wait)
              /\ seen' = [seen EXCEPT
                            !.streak = IF code \in Recoverable THEN @ + 1 ELSE @,
                            !.alone = IF run.transport + 1 = TransportMax
                                         /\ Current[1] = Current[2] /\ code \in Isolable
                                      THEN @ \union Within(Current) ELSE @]
    /\ UNCHANGED <<setup, disk, cancel, runs>>

\* Nothing wakes the sleeper, a cancel request neither.
SleepOver ==
    /\ run.pc = "Sleep"
    /\ run' = [run EXCEPT !.pc = "Check", !.wait = "None"]
    /\ breaker' = IF run.wait = "Short" THEN ElapseRetry(breaker) ELSE breaker
    /\ UNCHANGED <<setup, disk, cancel, runs, seen>>

\* persist_durable_batch: the file first; Translate keeps nothing.
NextBatch == run' = [run EXCEPT !.pc = IF cancel THEN "Cancelled" ELSE "Batch",
                                !.at = @ + 1]
PersistResult(b) ==
    [disk EXCEPT !.results[b] = run.accepted \intersect Within(run.batches[b])]
Persist ==
    /\ run.pc = "Persist"
    /\ IF Durable
       THEN disk' = PersistResult(run.at)
            /\ IF setup.wired THEN Goes("Commit") ELSE NextBatch
       ELSE UNCHANGED disk /\ NextBatch
    /\ UNCHANGED <<setup, breaker, cancel, runs, seen>>

\* ... and then its unit, looked up by a hash that names the revisions of the
\* cues; a unit that is found is Pending, and complete() refuses it.
UnitKey == <<run.at, "Revisions">>
Commit ==
    /\ run.pc = "Commit"
    /\ Fails(IF UnitKey \in disk.units THEN "NotLeased" ELSE "UnitNotFound")
    /\ UNCHANGED <<setup, disk, breaker, cancel, runs, seen>>

\* apply_llm_split refuses a break inside a word, apply_llm_text takes all.
AppliesSplit == run.misaligned = {}
Finish ==
    /\ run.pc = "Finish"
    /\ IF setup.kind = "Split" /\ ~AppliesSplit THEN Fails("Validation")
       ELSE Goes(IF run.degraded = {} THEN "Done" ELSE "Degraded")
    /\ UNCHANGED <<setup, disk, breaker, cancel, runs, seen>>

-----------------------------------------------------------------------------
(* Around the run. *)

Cancel ==
    /\ run.pc \in Active /\ ~cancel
    /\ cancel' = TRUE
    /\ UNCHANGED <<setup, disk, run, breaker, runs, seen>>

\* The process dies: what it had in memory is gone, the breaker too.
Crash ==
    /\ run.pc \in Active
    /\ run' = NoRun /\ breaker' = NewBreaker /\ cancel' = FALSE
    /\ seen' = [seen EXCEPT !.streak = 0]
    /\ UNCHANGED <<setup, disk, runs>>

\* Time: an open circuit may be tried again, once.
OpenTimeOver ==
    /\ breaker.opened = "Running"
    /\ breaker' = ElapseOpen(breaker)
    /\ seen' = [seen EXCEPT !.streak = IF @ = Threshold THEN Threshold - 1 ELSE @]
    /\ UNCHANGED <<setup, disk, run, cancel, runs>>
RetryAfterOver ==
    /\ breaker.retry_after = "Running"
    /\ breaker' = ElapseRetry(breaker)
    /\ UNCHANGED <<setup, disk, run, cancel, runs, seen>>

Init ==
    /\ setup \in [kind : Kinds, wired : Wirings, swept : Sweeps, cost : [Cues -> Costs]]
    /\ disk = NoFiles /\ run = NoRun /\ breaker = NewBreaker /\ cancel = FALSE /\ runs = 0
    /\ seen = Unseen

Progress == \/ Execute \/ MaterializePrompt \/ PlanBatches \/ EnsureUnits \/ NextPlanned
            \/ NextTranslated \/ CheckCancel \/ Send \/ AnswerText \/ AnswerError \/ SleepOver
            \/ Persist \/ Commit \/ Finish
Next == Begin \/ Progress \/ Cancel \/ Crash \/ OpenTimeOver \/ RetryAfterOver

Spec == Init /\ [][Next]_vars
\* A request is answered or times out (reqwest's timeout), a sleep ends.
FairSpec == Spec /\ WF_vars(Progress)

-----------------------------------------------------------------------------

\* The types of the variables; what is being asked for is what is left of the
\* batch at hand, in order.
TypeOK ==
    /\ run.pc \in {"Idle"} \union Active \union Ended
    /\ run.accepted \subseteq Cues /\ run.degraded \subseteq Cues
    /\ run.semantic < SemanticMax /\ run.transport < TransportMax
    /\ breaker \in Breaker /\ cancel \in BOOLEAN /\ runs \in 0 .. MaxRuns
    /\ \A i \in DOMAIN run.pending : run.pending[i] \in Ranges
    /\ \A i \in 1 .. Len(run.pending) - 1 :
          run.pending[i][2] + 1 = run.pending[i + 1][1]
    /\ run.pc \in {"Check", "Send", "Await", "Sleep"} => run.pending # <<>>

\* What the breaker and the looks at the token are for: once cancellation is
\* requested at most one more request of the run leaves, however many retries
\* and halves are still to come; a provider that has refused the key is never
\* called again; one that fails is called Threshold times in a row, and once
\* more whenever the circuit has been open for its time.
ProviderSpared ==
    /\ seen.late <= 1
    /\ seen.streak <= Threshold
    /\ run.pc = "Await" => ~breaker.auth_locked

\* A stage that succeeds has accounted for each cue: it took a validated text
\* for it, or the provider failed on that cue alone, in this run or in the one
\* whose result it resumed.  No cue is both, none is lost by halving a batch,
\* by a retry, by a crash or by the context of a translation.
EveryCueAccounted ==
    run.pc \in {"Done", "Degraded"} =>
        /\ run.accepted \intersect run.degraded = {}
        /\ run.accepted \subseteq seen.answered
        /\ run.degraded \subseteq seen.alone
        /\ Cues \ (run.accepted \union run.degraded) \subseteq seen.alone
        /\ setup.swept => Cues = run.accepted \union run.degraded

\* No request of Split or Correct leaves before the plan it belongs to is on
\* disk, nor for a batch whose answer is; and while the plan is there it never
\* changes.
DurableWork ==
    [][/\ run.pc # "Await" /\ run'.pc = "Await" => disk.prompt
       /\ run.pc # "Await" /\ run'.pc = "Await" /\ Durable
            => /\ run.at \in DOMAIN disk.plan
               /\ Within(Current) \subseteq Within(disk.plan[run.at])
               /\ disk.results[run.at] = NoResult
       /\ disk.plan # NoPlan => disk'.plan \in {disk.plan, NoPlan}]_vars

\* Every run ends, whatever the provider answers: the retries of one kind do
\* not restart those of the other.
RunEnds == run.pc \in Active ~> run.pc \notin Active

\* runtime.rs: "each LlmPlan entry becomes an llm_batch WorkUnit".
BatchHasUnit == run.pc = "Commit" => UnitKey \in disk.units

\* The decisions document: for a content error "split the batch in half", "for
\* a final failed cue, preserve source/existing translation".
ContentNeverFailsStage == run.pc = "Failed" => run.error \notin Isolable

=============================================================================
