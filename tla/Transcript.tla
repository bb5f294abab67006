------------------------------ MODULE Transcript ------------------------------
(***************************************************************************)
(* The value every process stage hands to the next                         *)
(* (domain/src/subtitle/transcript.rs): words with times that never        *)
(* change, and the cues made of them.  An operation returns a new value;   *)
(* CanX is when the code's X returns one and no error.                     *)
(*                                                                         *)
(* A cue of recognised words has a range of them, 0-based and without its  *)
(* end, and an imported cue has times.  Texts are kinds of text.           *)
(***************************************************************************)
EXTENDS Selection

NoRange == <<0, 0>>
NoTimes == <<-1, -1>>
Blank == "None"

Fields == {"text", "translation"}

NewAsr(words) ==
    [revision |-> 1, words |-> words, cues |-> <<>>, timeline |-> "AsrWords"]
NewImported(cues) ==
    [revision |-> 1, words |-> <<>>, cues |-> cues, timeline |-> "ImportedCue"]

NewCue(id, range, times, text, translation, origin) ==
    [id |-> id, range |-> range, times |-> times, failed |-> FALSE,
     text |-> text, translation |-> translation,
     origin |-> [text |-> origin, translation |-> IF translation = Blank THEN Blank ELSE origin],
     changes |-> [text |-> 0, translation |-> 0]]

\* cue_times.
CueTimes(transcript, cue) ==
    IF transcript.timeline = "AsrWords"
    THEN <<transcript.words[cue.range[1] + 1].start, transcript.words[cue.range[2]].end>>
    ELSE cue.times

\* validate; also what is asked of ranges wherever they are accepted.
RangeIn(range, words) == range[1] < range[2] /\ range[2] <= Len(words)
Valid(transcript) ==
    LET words == transcript.words
        cues == transcript.cues
    IN  /\ \A i \in DOMAIN words : words[i].start <= words[i].end
        /\ \A i \in 1 .. Len(words) - 1 : words[i].start <= words[i + 1].start
        /\ \A c \in DOMAIN cues :
              IF transcript.timeline = "AsrWords"
              THEN /\ RangeIn(cues[c].range, words)
                   /\ c > 1 => cues[c - 1].range[2] <= cues[c].range[1]
              ELSE cues[c].times[1] <= cues[c].times[2]

CueIds(transcript) == {transcript.cues[c].id : c \in DOMAIN transcript.cues}
CueOf(transcript, id) ==
    transcript.cues[CHOOSE c \in DOMAIN transcript.cues : transcript.cues[c].id = id]
Bumped(transcript, cues) ==
    IF cues = transcript.cues THEN transcript
    ELSE [transcript EXCEPT !.cues = cues, !.revision = @ + 1]

\* Cues over ranges, numbered from 1 again (rule_split and apply_llm_split).
CuesOver(ranges, origin) ==
    [c \in DOMAIN ranges |-> NewCue(c, ranges[c], NoTimes, "Joined", Blank, origin)]

-----------------------------------------------------------------------------
\* apply_llm_split: the ranges cover all the words, each once.
CanApplySplit(transcript, ranges) ==
    /\ transcript.timeline = "AsrWords"
    /\ ranges = <<>> => transcript.words = <<>>
    /\ \A c \in DOMAIN ranges :
          /\ RangeIn(ranges[c], transcript.words)
          /\ ranges[c][1] = IF c = 1 THEN 0 ELSE ranges[c - 1][2]
    /\ ranges # <<>> => ranges[Len(ranges)][2] = Len(transcript.words)
ApplySplit(transcript, ranges) ==
    [transcript EXCEPT !.cues = CuesOver(ranges, "Llm"), !.revision = @ + 1]

\* apply_llm_text: updates is a function from some ids to values, read the
\* transcript it was asked for.  A field of the user's is passed over.
CanApplyText(transcript, read, field, updates) ==
    /\ transcript.revision = read.revision
    /\ \A id \in DOMAIN updates :
          /\ id \in CueIds(transcript)
          /\ CueOf(transcript, id).changes[field] = CueOf(read, id).changes[field]
Write(cue, field, value, origin) ==
    [cue EXCEPT ![field] = value, !.origin[field] = origin, !.changes[field] = @ + 1]
\* Slip: a field of the user's is written like any other.
ApplyTextToAll(transcript, field, updates) ==
    Bumped(transcript, [c \in DOMAIN transcript.cues |->
        LET cue == transcript.cues[c]
        IN  IF cue.id \in DOMAIN updates
            THEN Write(cue, field, updates[cue.id], "Llm") ELSE cue])
ApplyText(transcript, field, updates) ==
    Bumped(transcript, [c \in DOMAIN transcript.cues |->
        LET cue == transcript.cues[c]
        IN  IF cue.id \in DOMAIN updates /\ cue.origin[field] # "User"
            THEN Write(cue, field, updates[cue.id], "Llm") ELSE cue])

\* edit_text and edit_translation.
CanEdit(transcript, id, expected) ==
    transcript.revision = expected /\ id \in CueIds(transcript)
Edit(transcript, id, field, value) ==
    Bumped(transcript, [c \in DOMAIN transcript.cues |->
        IF transcript.cues[c].id = id
        THEN Write(transcript.cues[c], field, value, "User") ELSE transcript.cues[c]])

\* mark_llm_failed.
\* Slip: the cues that failed before are no longer marked.
MarkOnly(transcript, ids) ==
    Bumped(transcript, [c \in DOMAIN transcript.cues |->
        [transcript.cues[c] EXCEPT !.failed = transcript.cues[c].id \in ids]])
MarkFailed(transcript, ids) ==
    Bumped(transcript, [c \in DOMAIN transcript.cues |->
        [transcript.cues[c] EXCEPT !.failed = @ \/ transcript.cues[c].id \in ids]])

-----------------------------------------------------------------------------
(* platform/src/subtitle_io.  A document is a sequence of blocks: a cue has *)
(* times and lines, a note and what cannot be read have none.  A text is   *)
(* one line, and some are not: one that was cleared is an empty line, one  *)
(* has two lines, and one has an empty line between them, behind which it  *)
(* looks like a note.  Whitespace alone is as good as an empty line.       *)

Empty == ""
Verses == {"TypedVerse", "CorrectedVerse", "TranslatedVerse"}
Gapped == {"TypedGap", "CorrectedGap", "TranslatedGap"}
LinesOf(text) == CASE text \in Verses -> <<"First", "Last">>
                   [] text \in Gapped -> <<"First", Empty, "NOTE">>
                   [] OTHER -> <<text>>

Block(kind, times, lines) == [kind |-> kind, times |-> times, lines |-> lines]
Blocks == {Block("Cue", <<0, 1>>, <<>>), Block("Cue", <<0, 1>>, <<"Imported">>),
           Block("Cue", <<0, 1>>, <<"Imported", "Second">>),
           Block("Cue", <<0, 1>>, <<"Imported", "Second", "Third">>),
           Block("Cue", <<1, 0>>, <<"Imported">>),
           Block("Note", NoTimes, <<>>), Block("Garbled", NoTimes, <<>>)}
InOrderTimes(block) == block.times[1] <= block.times[2]

\* split_blocks: an empty line ends a block, and the lines behind it, which
\* have no times, are one more.
Pieces(block) ==
    LET lines == block.lines
        end == CHOOSE i \in DOMAIN lines :
                   lines[i] = Empty /\ \A j \in DOMAIN lines : lines[j] = Empty => i <= j
        rest == {lines[i] : i \in {j \in DOMAIN lines : j > end}}
    IN  IF Empty \notin Elements(lines) THEN <<block>>
        ELSE <<[block EXCEPT !.lines = SubSeq(lines, 1, end - 1)],
               Block(IF "NOTE" \in rest THEN "Note" ELSE "Garbled", NoTimes, <<>>)>>
SplitBlocks(blocks) ==
    LET Upto[i \in 0 .. Len(blocks)] ==
            IF i = 0 THEN <<>> ELSE Upto[i - 1] \o Pieces(blocks[i])
    IN  Upto[Len(blocks)]

\* apply_layout: text and translation, the upper and the lower half of the lines.
ImportLayouts == {"Mono", "SourceAbove", "TranslationAbove"}
JoinLines(lines) == IF Len(lines) = 1 THEN lines[1] ELSE "Lines"
Upper(lines) == JoinLines(SubSeq(lines, 1, Len(lines) \div 2))
Lower(lines) == JoinLines(SubSeq(lines, Len(lines) \div 2 + 1, Len(lines)))
\* Slip: where the translation is above, a line that is alone is taken for it.
TakeFirst(lines, layout) ==
    CASE layout = "Mono" -> <<JoinLines(lines), Blank>>
      [] layout = "SourceAbove" ->
            IF Len(lines) = 1 THEN <<lines[1], Blank>> ELSE <<Upper(lines), Lower(lines)>>
      [] layout = "TranslationAbove" ->
            IF Len(lines) = 1 THEN <<Blank, lines[1]>> ELSE <<Lower(lines), Upper(lines)>>
ApplyLayout(lines, layout) ==
    IF Len(lines) = 1 THEN <<lines[1], Blank>>
    ELSE CASE layout = "Mono" -> <<JoinLines(lines), Blank>>
           [] layout = "SourceAbove" -> <<Upper(lines), Lower(lines)>>
           [] layout = "TranslationAbove" -> <<Lower(lines), Upper(lines)>>

CueOfBlock(block, id, layout) ==
    LET texts == ApplyLayout(block.lines, layout)
    IN  NewCue(id, NoRange, block.times, texts[1], texts[2], "Imported")
CuesOfBlocks(blocks, layout) ==
    [c \in DOMAIN blocks |-> CueOfBlock(blocks[c], c, layout)]

\* import_srt: what cannot be used is left out with a warning.
HasLines(block) == block.kind = "Cue" /\ block.lines # <<>>
SrtCues(blocks) == Those(blocks, {b \in Elements(blocks) : HasLines(b) /\ InOrderTimes(b)})

\* import_vtt: after a note, no block is read any more; times the wrong way
\* round are not left out, and validate refuses the whole document.
VttCues(blocks) ==
    LET ended == {n \in 0 .. Len(blocks) : \A i \in 1 .. n : blocks[i].kind # "Note"}
        read == SubSeq(blocks, 1, CHOOSE n \in ended : \A m \in ended : m <= n)
    IN  Those(read, {b \in Elements(read) : HasLines(b)})

CanImport(cues, layout) ==
    cues # <<>> /\ Valid(NewImported(CuesOfBlocks(cues, layout)))

\* cue_text, with the source in place of a translation that is missing or empty.
CueLines(cue, layout) ==
    IF layout = "SourceOnly" \/ cue.translation \in {Blank, Empty} THEN LinesOf(cue.text)
    ELSE CASE layout = "TranslationOnly" -> LinesOf(cue.translation)
           [] layout = "SourceFirst" -> LinesOf(cue.text) \o LinesOf(cue.translation)
           [] layout = "TranslationFirst" -> LinesOf(cue.translation) \o LinesOf(cue.text)

\* render_srt; a cue without a text is passed over.
RenderSrt(transcript, layout) ==
    LET blocks == [c \in DOMAIN transcript.cues |->
                     Block("Cue", CueTimes(transcript, transcript.cues[c]),
                           CueLines(transcript.cues[c], layout))]
    IN  Those(blocks, {b \in Elements(blocks) : b.lines # <<Empty>>})

\* render_vtt: it has no ordinals, and its times another point, which is
\* how the reader wants them.
RenderVtt(transcript, layout) == RenderSrt(transcript, layout)

\* render_ass puts the lines of a cue into one, and escapes the whole.  A line
\* stands for its characters, the others are themselves.
AssBreak == <<"\\", "N">>
EscapeAss(chars) ==
    LET Upto[i \in 0 .. Len(chars)] ==
            IF i = 0 THEN <<>>
            ELSE Upto[i - 1] \o (IF chars[i] \in {"{", "}", "\\"} THEN <<"\\">> ELSE <<>>)
                             \o <<chars[i]>>
    IN  Upto[Len(chars)]
AssText(lines) ==
    LET Upto[i \in 1 .. Len(lines)] ==
            IF i = 1 THEN <<lines[1]>> ELSE Upto[i - 1] \o AssBreak \o <<lines[i]>>
    IN  EscapeAss(Upto[Len(lines)])

=============================================================================
