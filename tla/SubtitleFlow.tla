----------------------------- MODULE SubtitleFlow -----------------------------
(***************************************************************************)
(* The subtitles of one Job, from the sound to the last transcript: long   *)
(* audio is cut into chunks and their words put together again, rules make *)
(* cues of the words, an LLM splits the cues further, corrects and         *)
(* translates them, and the user edits the latest transcript in between    *)
(* (core/src/use_cases/transcribe_job/service.rs and transcript_editor.rs  *)
(* over the values of ChunkPlan, RuleSplit and Transcript).                *)
(*                                                                         *)
(* How the stages are committed and raced with is StageCommit's subject,   *)
(* how the LLM is asked LlmPipeline's: here a stage commits a transcript   *)
(* or fails, and every cue it asks for is answered or degraded.            *)
(***************************************************************************)
EXTENDS ChunkPlan, RuleSplit, Transcript, FiniteSets

CONSTANTS Routes,          \* where the transcripts of this instance come from
          Durations, Limits, Loudness,             \* for "Chunked"
          RuleWords, RuleTexts, RuleGaps,          \* for "Whole"
          LlmWords, LlmTexts, LlmGaps,             \* those the LLM is asked about
          NoiseTimes,      \* what an engine may say of a time
          FlowWords, FlowTexts,      \* the transcripts that are followed further
          TypedTexts, Corrections, Translations,   \* what is put into the cues
          MaxBreaks, MaxEdits, MaxRetries, MaxBlocks

ASSUME FlowAssumption ==
    /\ Routes \subseteq {"Chunked", "Whole", "Llm", "Noisy", "Srt", "Vtt"}
    /\ {RuleWords, LlmWords, FlowWords, MaxBreaks, MaxEdits, MaxRetries, MaxBlocks} \subseteq Nat
    /\ Durations \union Limits \union Loudness \subseteq Nat
    /\ RuleGaps \union LlmGaps \union NoiseTimes \subseteq Nat
    /\ FlowTexts \subseteq Texts
    /\ RuleTexts \union LlmTexts \subseteq Texts
    /\ Blank \notin TypedTexts \union Corrections \union Translations

Stages == <<"Asr", "Split", "Correct", "Translate">>
Place(stage) == CHOOSE i \in DOMAIN Stages : Stages[i] = stage
StageNames == {"Asr", "Split", "Correct", "Translate"}

VARIABLES source,   \* where the words come from, until the Asr stage is done
          pc,
          heard,    \* the words of the chunks so far
          docs,     \* the committed transcript of every stage
          reply,    \* the split requests of this run
          edits,    \* what the user typed, where, and when (history)
          told,     \* the words of degraded cues, with the stage (history)
          retries
vars == <<source, pc, heard, docs, reply, edits, told, retries>>

NoDoc == NewAsr(<<>>)
NoReply == [base |-> <<>>, ranges |-> <<>>, next |-> 1, failed |-> {},
            asked |-> <<>>, exact |-> TRUE]
NoSource == [route |-> "None"]

Word(start, end, text) == [start |-> start, end |-> end, text |-> text]
\* Words of one unit each with the given gaps before them.
Spread(texts, gaps) ==
    LET Start[i \in 1 .. Len(texts)] == IF i = 1 THEN 0 ELSE Start[i - 1] + 1 + gaps[i]
    IN  [i \in DOMAIN texts |-> Word(Start[i], Start[i] + 1, texts[i])]
SpreadWords(max, texts, gaps) ==
    UNION {{Spread(t, g) : t \in [1 .. n -> texts],
                           g \in {f \in [1 .. n -> gaps] : f[1] = CHOOSE x \in gaps : TRUE}} :
           n \in 1 .. max}

\* One or two words of one or two units in a recording of this length.
Speech(duration) ==
    LET single == {Word(p[1], p[2], "Letter") :
                     p \in {q \in (0 .. duration) \X (0 .. duration) :
                              q[2] - q[1] \in 1 .. 2 * Padding}}
    IN  {<<w>> : w \in single} \union
        {p \in single \X single : p[1].end <= p[2].start}

Followed(words) == Len(words) <= FlowWords /\ \A i \in DOMAIN words : words[i].text \in FlowTexts

-----------------------------------------------------------------------------
(* The source of the words. *)

Init == /\ source = NoSource /\ pc = "Start"
        /\ heard = <<>> /\ docs = [s \in StageNames |-> NoDoc]
        /\ reply = NoReply /\ edits = {} /\ told = {} /\ retries = 0

\* An audio and the engine's limit for it: transcribe_long_audio plans.
Record ==
    /\ pc = "Start" /\ "Chunked" \in Routes
    /\ \E duration \in Durations, limit \in Limits :
       \E loudness \in [1 .. duration -> Loudness] :
          LET max == Smaller(GlobalMax, limit)
              plan == Build(duration, max, Silences(loudness, duration), Samples(loudness))
          IN  IF ValidOptions(duration, max) /\ ValidPlan(plan, duration)
              THEN /\ source' = [route |-> "Chunked", plan |-> plan, duration |-> duration,
                                 spoken |-> <<>>, chunk |-> 0]
                   /\ pc' = "Speak"
              ELSE source' = NoSource /\ pc' = "Refused"
    /\ UNCHANGED <<heard, docs, reply, edits, told, retries>>

\* What is said in it.  Not an operation of the code.
Speak ==
    /\ pc = "Speak"
    /\ \E words \in Speech(source.duration) :
          source' = [source EXCEPT !.spoken = words, !.chunk = 1]
    /\ pc' = "Hear"
    /\ UNCHANGED <<heard, docs, reply, edits, told, retries>>

\* extract_audio_range_wav: the window of a chunk as an audio of its own, whose
\* times start with it.  A word that the window cuts is heard in part or not at
\* all; these are the words an engine may hear.
ExtractRange(spoken, window) ==
    LET Inside(w) == window[1] <= w.start /\ w.end <= window[2]
        Cut(w) == ~Inside(w) /\ w.start < window[2] /\ w.end > window[1]
        Heard(w) == [w EXCEPT !.start = Larger(@, window[1]) - window[1],
                              !.end = Smaller(@, window[2]) - window[1]]
        all == [i \in DOMAIN spoken |-> i]
    IN  {LET indices == Those(all, kept \union {i \in DOMAIN spoken : Inside(spoken[i])})
         IN  [j \in DOMAIN indices |-> Heard(spoken[indices[j]])] :
            kept \in SUBSET {i \in DOMAIN spoken : Cut(spoken[i])}}

\* A chunk is transcribed.
HearChunk ==
    /\ pc = "Hear" /\ source.chunk <= Len(source.plan)
    /\ LET chunk == source.plan[source.chunk]
           window == chunk.read
       IN  \E raw \in ExtractRange(source.spoken, window) :
              IF CanNormalize(raw, window[2] - window[1])
              THEN /\ heard' = AppendChunkWords(heard, Normal(raw, window[2] - window[1]),
                                                chunk)
                   /\ source' = [source EXCEPT !.chunk = @ + 1] /\ pc' = pc
              ELSE pc' = "Refused" /\ UNCHANGED <<heard, source>>
    /\ UNCHANGED <<docs, reply, edits, told, retries>>

\* The words of an audio short enough for the engine, as it gives them.
HearWhole ==
    /\ pc = "Start"
    /\ \E route \in Routes \intersect {"Whole", "Llm", "Noisy"} :
       \E raw \in CASE route = "Whole" -> SpreadWords(RuleWords, RuleTexts, RuleGaps)
                    [] route = "Llm" -> SpreadWords(LlmWords, LlmTexts, LlmGaps)
                    [] route = "Noisy" ->
                         [1 .. 2 -> {Word(s, e, t) : s \in NoiseTimes, e \in NoiseTimes,
                                                     t \in {"Letter", "Blank"}}] :
          LET length == IF route = "Noisy" THEN 2 ELSE raw[Len(raw)].end
          IN  IF CanNormalize(raw, length)
              THEN /\ heard' = Normal(raw, length) /\ pc' = "Hear"
                   /\ source' = [route |-> route, plan |-> <<>>, chunk |-> 1]
              ELSE pc' = "Refused" /\ UNCHANGED <<heard, source>>
    /\ UNCHANGED <<docs, reply, edits, told, retries>>

\* The Asr stage commits its transcript, if it is valid.
EndAsr ==
    /\ pc = "Hear" /\ source.chunk = Len(source.plan) + 1
    /\ IF Valid(NewAsr(heard))
       THEN /\ docs' = [docs EXCEPT !["Asr"] = NewAsr(heard)]
            /\ pc' = IF source.route = "Llm" THEN "LlmSplit" ELSE "Split"
       ELSE pc' = "Refused" /\ UNCHANGED docs
    /\ source' = NoSource /\ heard' = <<>>
    /\ UNCHANGED <<reply, edits, told, retries>>

\* A subtitle file is imported as a Split transcript, the stages around it
\* are skipped.
Import ==
    /\ pc = "Start"
    /\ \E route \in Routes \intersect {"Srt", "Vtt"}, layout \in ImportLayouts,
          n \in 1 .. MaxBlocks :
       \E blocks \in [1 .. n -> Blocks] :
          LET cues == IF route = "Srt" THEN SrtCues(blocks) ELSE VttCues(blocks)
          IN  IF CanImport(cues, layout)
              THEN /\ docs' = [docs EXCEPT !["Split"] =
                                 NewImported(CuesOfBlocks(cues, layout))]
                   /\ source' = [route |-> route, blocks |-> blocks]
                   /\ pc' = "Imported"
              ELSE /\ source' = [route |-> route, blocks |-> blocks]
                   /\ pc' = "Refused" /\ UNCHANGED docs
    /\ UNCHANGED <<heard, reply, edits, told, retries>>

-----------------------------------------------------------------------------
(* The process stages. *)

RuleSplitOf(transcript) ==
    [transcript EXCEPT !.cues = CuesOver(RuleRanges(transcript.words), "RuleSplit"),
                       !.revision = @ + 1]

\* Without an LLM the cues of the rules are the Split stage's, and the other
\* stages are skipped.  These transcripts are not followed further.
SplitByRules ==
    /\ pc = "Split"
    /\ docs' = [docs EXCEPT !["Split"] = RuleSplitOf(docs["Asr"])]
    /\ pc' = "Plain"
    /\ UNCHANGED <<source, heard, reply, edits, told, retries>>

\* With one, its cues are what the LLM is asked about; without words nothing is.
BeginSplit ==
    /\ pc = "LlmSplit"
    /\ LET base == RuleSplitOf(docs["Asr"])
       IN  IF base.cues = <<>>
           THEN pc' = "Stopped" /\ UNCHANGED reply
           ELSE /\ reply' = [NoReply EXCEPT !.base = base.cues]
                /\ pc' = "Reply"
    /\ UNCHANGED <<source, heard, docs, edits, told, retries>>

\* The texts an LLM may send back for these words: some spaces are missing,
\* and there are breaks, in order and perhaps two in one place.
Without(chars, places) ==
    LET kept == SelectSeq([i \in DOMAIN chars |-> i], LAMBDA i : i \notin places)
    IN  [j \in DOMAIN kept |-> chars[kept[j]]]
BreakLists(length) ==
    {b \in UNION {[1 .. n -> 0 .. length] : n \in 0 .. MaxBreaks} :
        \A i \in 1 .. Len(b) - 1 : b[i] <= b[i + 1]}
Replies(words) ==
    LET chars == JoinWords(words)
        spaces == {i \in DOMAIN chars : chars[i] = "Space"}
    IN  UNION {{[clean |-> Without(chars, d), breaks |-> b] :
                   b \in BreakLists(Len(chars) - Cardinality(d))} : d \in SUBSET spaces}

WordsOf(cue, words) == SubSeq(words, cue.range[1] + 1, cue.range[2])

\* An answer that passes validation is mapped to ranges of words, once all
\* are there; a break that is not between words then fails the stage.
AnswerSplit ==
    /\ pc = "Reply" /\ reply.next <= Len(reply.base)
    /\ LET cue == reply.base[reply.next]
           words == WordsOf(cue, docs["Asr"].words)
       IN  \E r \in Replies(words) :
              /\ SameContent(words, r.clean, r.breaks)
              /\ IF AllAligned(words, r.clean, r.breaks)
                 THEN /\ reply' = [reply EXCEPT
                            !.ranges = @ \o RangesFor(words, cue.range[1], r.clean, r.breaks),
                            !.asked = @ \o [b \in DOMAIN r.breaks |->
                                {cue.range[1] + k : k \in WordsAsked(words, r.clean, r.breaks[b])}],
                            !.exact = @ /\ r.clean = JoinWords(words),
                            !.next = @ + 1]
                      /\ pc' = pc
                 ELSE pc' = "Stopped" /\ UNCHANGED reply
    /\ UNCHANGED <<source, heard, docs, edits, told, retries>>

DegradeSplit ==
    /\ pc = "Reply" /\ reply.next <= Len(reply.base)
    /\ LET range == reply.base[reply.next].range
       IN  reply' = [reply EXCEPT !.ranges = Append(@, range),
                                  !.failed = @ \union {range}, !.next = @ + 1]
    /\ UNCHANGED <<source, pc, heard, docs, edits, told, retries>>

\* The split is applied, and the cues within a degraded one are marked.
CuesWithin(transcript, ranges) ==
    {transcript.cues[c].id : c \in {d \in DOMAIN transcript.cues : \E r \in ranges :
        r[1] <= transcript.cues[d].range[1] /\ transcript.cues[d].range[2] <= r[2]}}
EndSplit ==
    /\ pc = "Reply" /\ reply.next = Len(reply.base) + 1
    /\ LET base == RuleSplitOf(docs["Asr"])
           split == ApplySplit(base, reply.ranges)
       IN  IF CanApplySplit(base, reply.ranges)
           THEN /\ docs' = [docs EXCEPT !["Split"] =
                               MarkFailed(split, CuesWithin(split, reply.failed))]
                /\ pc' = IF Followed(base.words) THEN "Correct" ELSE "Done"
                /\ told' = told \union {<<"Split", r>> : r \in reply.failed}
           ELSE pc' = "Stopped" /\ UNCHANGED <<docs, told>>
    /\ UNCHANGED <<source, heard, reply, edits, retries>>

\* Correct and Translate: what is answered is applied, what is degraded marked.
\* An answer is not blank, and may have several lines.
Rewrite(stage, input, field, values) ==
    /\ pc = stage
    /\ \E answered \in SUBSET CueIds(input) : \E updates \in [answered -> values] :
          LET degraded == CueIds(input) \ answered
          IN  /\ CanApplyText(input, input, field, updates)
              /\ docs' = [docs EXCEPT ![stage] =
                             MarkFailed(ApplyText(input, field, updates), degraded)]
              /\ told' = told \union
                     {<<stage, CueOf(input, id).range>> : id \in degraded}
    /\ UNCHANGED <<source, heard, edits, retries>>
Correct == /\ Rewrite("Correct", docs["Split"], "text", Corrections)
           /\ pc' = "Translate" /\ reply' = NoReply
Translate == /\ Rewrite("Translate", docs["Correct"], "translation", Translations)
             /\ pc' = "Done" /\ UNCHANGED reply

\* A provider that cannot be reached, a full disk: the stage fails.
StageFails ==
    /\ pc \in {"Reply", "Correct", "Translate"}
    /\ pc' = "Stopped" /\ reply' = NoReply
    /\ UNCHANGED <<source, heard, docs, edits, told, retries>>

-----------------------------------------------------------------------------
(* The user. *)

Committed(stage) == docs[stage] # NoDoc
\* latest_transcript_artifact.
Latest == CHOOSE s \in StageNames : /\ Committed(s)
                                    /\ \A t \in StageNames : Committed(t) => Place(t) <= Place(s)

\* TranscriptEditor.edit of a transcript that was shown: of the latest, or of
\* one that is no longer it.  An edit is kept until its field is typed into
\* again or its stage is done again.
SameField(e, f) == e.id = f.id /\ e.field = f.field
EditCue ==
    /\ pc \in {"Stopped", "Done", "Imported"} /\ Cardinality(edits) < MaxEdits
    /\ \E s \in StageNames : Committed(s)
    /\ Followed(docs[Latest].words)
    /\ \E shown \in StageNames, field \in Fields, value \in TypedTexts :
       \E id \in CueIds(docs[shown]) :
          LET edit == [stage |-> Latest, id |-> id, field |-> field, value |-> value,
                       read |-> docs[shown].revision, kept |-> TRUE]
              replaced == {e \in edits : e.stage = Latest /\ SameField(e, edit)}
          IN  /\ Committed(shown) /\ CanEdit(docs[Latest], id, edit.read)
              /\ docs' = [docs EXCEPT ![Latest] = Edit(docs[Latest], id, field, value)]
              /\ edits' = {[e EXCEPT !.kept = @ /\ e \notin replaced] : e \in edits}
                              \union {edit}
    /\ UNCHANGED <<source, pc, heard, reply, told, retries>>

\* Retry from a stage: it and those behind it are done again.
Reopened(stage) == {s \in StageNames : Place(s) >= Place(stage)}
Retry ==
    /\ pc \in {"Stopped", "Done"} /\ retries < MaxRetries
    /\ Followed(docs["Asr"].words)
    /\ \E stage \in {"Split", "Correct", "Translate"} :
          /\ Committed(Stages[Place(stage) - 1])
          /\ docs' = [s \in StageNames |-> IF s \in Reopened(stage) THEN NoDoc ELSE docs[s]]
          /\ edits' = {[e EXCEPT !.kept = @ /\ e.stage \notin Reopened(stage)] : e \in edits}
          /\ told' = {t \in told : t[1] \notin Reopened(stage)}
          /\ pc' = IF stage = "Split" THEN "LlmSplit" ELSE stage
    /\ reply' = NoReply /\ retries' = retries + 1
    /\ UNCHANGED <<source, heard>>

Next == \/ Record \/ Speak \/ HearChunk \/ HearWhole \/ EndAsr \/ Import
        \/ SplitByRules \/ BeginSplit \/ AnswerSplit \/ DegradeSplit \/ EndSplit
        \/ Correct \/ Translate \/ StageFails \/ EditCue \/ Retry

Spec == Init /\ [][Next]_vars

-----------------------------------------------------------------------------
(* Every committed transcript is a valid one. *)
TypeOK == /\ \A s \in StageNames : Valid(docs[s])
          /\ edits \subseteq [stage : StageNames, id : Nat, field : Fields,
                              value : TypedTexts, read : Nat, kept : BOOLEAN]
          /\ pc \in {"Start", "Speak", "Hear", "Split", "LlmSplit", "Reply", "Correct",
                     "Translate", "Stopped", "Plain", "Done", "Imported", "Refused"}

\* A word that is no longer than the context on both sides of a chunk is in
\* the transcript exactly once, at its place and in its order, whatever the
\* engine makes of words the edge of a chunk cuts (retain_core_words).
WordsOwnedOnce ==
    pc = "Hear" /\ source.route = "Chunked" /\ source.chunk = Len(source.plan) + 1 =>
        heard = source.spoken

\* The cues of every transcript of recognised words partition its words, one
\* after the other, and none has more than twice the words a cue may have
\* (rule_split, apply_llm_split).
CuesCoverWords ==
    \A s \in StageNames :
        LET cues == docs[s].cues
            words == docs[s].words
        IN  cues # <<>> /\ words # <<>> =>
              /\ cues[1].range[1] = 0 /\ cues[Len(cues)].range[2] = Len(words)
              /\ \A c \in DOMAIN cues :
                    /\ c < Len(cues) => cues[c].range[2] = cues[c + 1].range[1]
                    /\ cues[c].range[2] - cues[c].range[1] <= 2 * MaxWords(words)

\* The places the Split transcript is cut at are those the rules cut at and
\* those a reader of the replies would name.
CutWhereAsked ==
    LET cues == docs["Split"].cues
        ends == {cues[c].range[2] : c \in DOMAIN cues}
        rules == {reply.base[c].range[2] : c \in DOMAIN reply.base}
    IN  /\ \A b \in DOMAIN reply.asked : reply.asked[b] # {}
        /\ ends = rules \union UNION {reply.asked[b] : b \in DOMAIN reply.asked}
Splitted == reply.base # <<>> /\ Committed("Split")

\* So it is when the replies keep the spaces of the cues.
SplitWhereAsked == Splitted /\ reply.exact => CutWhereAsked

\* And so it is, the documents say, of every reply that passes validation:
\* the break offsets are mapped to word boundaries.
EverySplitWhereAsked == Splitted => CutWhereAsked

\* What the user typed last into a field stays in every later transcript, through
\* corrections, translations and retries from a later stage (apply_llm_text
\* passes over the fields that are the user's), also when it was cleared.
TypedLater(e, f) == f.kept /\ SameField(e, f) /\ Place(e.stage) < Place(f.stage)
UserWordsStay ==
    \A e \in edits : e.kept =>
        /\ Place(e.stage) <= Place(Latest)
        /\ \/ \E f \in edits : TypedLater(e, f)
           \/ CueOf(docs[Latest], e.id)[e.field] = e.value

\* The documents say more: an edit of a translation blocks every later
\* automatic translation of that cue.
TypedTranslationBlocks ==
    Committed("Translate") => \A e \in edits :
        e.field = "translation" /\ e.stage = "Translate" =>
            CueOf(docs["Translate"], e.id).translation \in TypedTexts

\* Whoever reads the latest transcript sees which words some stage gave up on.
DegradedIsTold ==
    \A t \in told : \A c \in DOMAIN docs[Latest].cues :
        LET cue == docs[Latest].cues[c]
        IN  t[2][1] <= cue.range[1] /\ cue.range[2] <= t[2][2] => cue.failed

\* A file of the latest transcript, with no empty line inside a cue, reads back
\* as the cues it was written from without those that were cleared, in their order
\* and with their times, whatever was typed or answered; and where the texts of a
\* cue are one line each with these texts, a bilingual file with the translations,
\* also where one is missing or was degraded (render_srt and import_srt,
\* render_vtt and import_vtt, layout by layout).
OneLine(text) == text # Empty /\ LinesOf(text) = <<text>>
Closed(transcript, layout) ==
    \A c \in DOMAIN transcript.cues :
        LET lines == CueLines(transcript.cues[c], layout)
        IN  lines = <<Empty>> \/ Empty \notin Elements(lines)
Shown(transcript, layout) ==
    Those(transcript.cues,
          {q \in Elements(transcript.cues) : CueLines(q, layout) # <<Empty>>})
ReadBack(transcript, shown, blocks, layout, fields) ==
    LET cues == CuesOfBlocks(blocks, layout)
    IN  /\ Len(cues) = Len(shown)
        /\ \A c \in DOMAIN cues :
              /\ cues[c].times = CueTimes(transcript, shown[c])
              /\ (\A f \in fields : OneLine(shown[c][f])) =>
                     \A f \in fields : cues[c][f] = shown[c][f]
Exported(transcript, layout) ==
    {SrtCues(SplitBlocks(RenderSrt(transcript, layout))),
     VttCues(SplitBlocks(RenderVtt(transcript, layout)))}
ReadsBackIn(transcript, layout, reading, fields) ==
    Closed(transcript, layout) =>
        \A blocks \in Exported(transcript, layout) :
            ReadBack(transcript, Shown(transcript, layout), blocks, reading, fields)
ExportReadsBack ==
    (\E s \in StageNames : Committed(s)) =>
        /\ ReadsBackIn(docs[Latest], "SourceOnly", "Mono", {"text"})
        /\ ReadsBackIn(docs[Latest], "SourceFirst", "SourceAbove", Fields)
        /\ ReadsBackIn(docs[Latest], "TranslationFirst", "TranslationAbove", Fields)

\* The documents say that a bilingual cue has its lines in an ASS file with a
\* break between them, and what is in them escaped: the code escapes the break.
AssKeepsBreaks ==
    \A s \in StageNames : \A c \in DOMAIN docs[s].cues :
        LET lines == CueLines(docs[s].cues[c], "SourceFirst")
        IN  Len(lines) = 2 =>
              AssText(lines) = EscapeAss(<<lines[1]>>) \o AssBreak \o EscapeAss(<<lines[2]>>)

\* Every cue of an imported WebVTT document that can be read is in its
\* transcript: the code ends at the first note.
VttKeepsCues ==
    pc = "Imported" /\ source.route = "Vtt" =>
        Len(docs["Split"].cues) = Len(SrtCues(source.blocks))

=============================================================================
