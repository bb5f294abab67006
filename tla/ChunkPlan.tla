------------------------------ MODULE ChunkPlan -------------------------------
(***************************************************************************)
(* How an audio too long for the engine is cut into chunks, and whose the  *)
(* words are that the engine hears in them (core/src/chunking.rs, with the *)
(* analysis of platform/src/media/extract.rs and the normalizer of         *)
(* asr/src/normalize.rs).  All of it is functions of values.               *)
(*                                                                         *)
(* A chunk owns its core <<first, end>> and reads somewhat more.  Times    *)
(* are whole units, and one frame of the analysis is one unit; a loudness  *)
(* is a natural number per frame.  Ranges exclude their end.               *)
(***************************************************************************)
EXTENDS Selection

CONSTANTS GlobalMax,       \* GLOBAL_MAX_CHUNK_SECS
          MinChunk,        \* MINIMUM_CHUNK_SECS
          Radius,          \* CHUNK_SEARCH_RADIUS_SECS
          Padding,         \* CHUNK_CONTEXT_PADDING_SECS
          MinSilence       \* VAD_MIN_SILENCE_MS

ASSUME ChunkAssumption ==
    /\ {GlobalMax, MinChunk, MinSilence} \subseteq Nat \ {0}
    /\ {Radius, Padding} \subseteq Nat
    /\ MinChunk <= GlobalMax

Minus(a, b) == IF a > b THEN a - b ELSE 0
Distance(a, b) == Minus(a, b) + Minus(b, a)
Smaller(a, b) == IF a < b THEN a ELSE b
Larger(a, b) == IF a > b THEN a ELSE b

-----------------------------------------------------------------------------
(* analyze_pcm_wav: every frame is a sample, every long enough run of      *)
(* frames of at most 0.4 of the peak a silence; one that is not over when  *)
(* the frames are lasts until the end of the audio.                        *)

Peak(loudness) == CHOOSE p \in {loudness[f] : f \in DOMAIN loudness} :
                     \A f \in DOMAIN loudness : loudness[f] <= p
Silent(loudness, frame) == 5 * loudness[frame] <= 2 * Peak(loudness)
Silences(loudness, duration) ==
    LET n == Len(loudness)
        Run(a, b) == /\ \A f \in a .. b - 1 : Silent(loudness, f)
                     /\ a = 1 \/ ~Silent(loudness, a - 1)
                     /\ b = n + 1 \/ ~Silent(loudness, b)
        EndOf(b) == IF b = n + 1 THEN duration ELSE Smaller(b - 1, duration)
        runs == {ab \in (1 .. n) \X (2 .. n + 1) : ab[1] < ab[2] /\ Run(ab[1], ab[2])}
    IN  {r \in {<<ab[1] - 1, EndOf(ab[2])>> : ab \in runs} :
            Minus(r[2], r[1]) >= MinSilence}
Samples(loudness) == {[at |-> f - 1, energy |-> loudness[f]] : f \in DOMAIN loudness}

-----------------------------------------------------------------------------
(* ChunkPlan::build. *)

ValidOptions(duration, max) == /\ max > 0 /\ MinChunk <= max
                               /\ duration > 0 => MinChunk <= duration

\* Of the middles of the silences in the window, that of the longest, then
\* the nearest to the target, then the first; or the quietest sample.
SilentCuts(lower, upper, silences) ==
    {[size |-> Smaller(s[2], upper) - Larger(s[1], lower),
      at   |-> (Larger(s[1], lower) + Smaller(s[2], upper)) \div 2] :
        s \in {r \in silences :
                 Smaller(r[2], upper) - Larger(r[1], lower) >= MinSilence}}
ChooseCut(target, lower, upper, silences, samples) ==
    LET silent == SilentCuts(lower, upper, silences)
        quiet == {q \in samples : lower <= q.at /\ q.at <= upper}
        First(a, b) == \/ Distance(a, target) < Distance(b, target)
                       \/ Distance(a, target) = Distance(b, target) /\ a <= b
    IN  IF silent # {}
        THEN (CHOOSE c \in silent : \A d \in silent :
                 c.size > d.size \/ (c.size = d.size /\ First(c.at, d.at))).at
        ELSE IF quiet # {}
        THEN (CHOOSE c \in quiet : \A d \in quiet :
                 c.energy < d.energy \/ (c.energy = d.energy /\ First(c.at, d.at))).at
        ELSE target

\* Slip: nothing is read after the core.
MakeChunkUnpadded(start, end, duration) ==
    [core |-> <<start, end>>, read |-> <<Minus(start, Padding), end>>]
MakeChunk(start, end, duration) ==
    [core |-> <<start, end>>,
     read |-> <<Minus(start, Padding), Smaller(end + Padding, duration)>>]

Build(duration, max, silences, samples) ==
    LET Cut(start) ==
            LET target == start + max
                lower == Larger(Minus(target, Radius), start + MinChunk)
                upper == Smaller(target + Radius, duration - MinChunk)
            IN  Larger(ChooseCut(target, lower, upper, silences, samples), start + MinChunk)
        From[start \in 0 .. duration] ==
            IF duration - start <= max \/ Cut(start) >= duration
            THEN <<MakeChunk(start, duration, duration)>>
            ELSE <<MakeChunk(start, Cut(start), duration)>> \o From[Cut(start)]
    IN  IF duration = 0 THEN <<>> ELSE From[0]

\* ChunkPlan::validate.
ValidPlan(plan, duration) ==
    /\ \A i \in DOMAIN plan :
          /\ plan[i].core[1] = IF i = 1 THEN 0 ELSE plan[i - 1].core[2]
          /\ plan[i].core[1] < plan[i].core[2] /\ plan[i].core[2] <= duration
          /\ plan[i].read[1] <= plan[i].core[1]
          /\ plan[i].core[2] <= plan[i].read[2] /\ plan[i].read[2] <= duration
    /\ duration # 0 => plan # <<>> /\ plan[Len(plan)].core[2] = duration

-----------------------------------------------------------------------------
(* Words: [start, end, text]; a blank text is no word. *)

\* normalize_asr: times are clipped to the audio, a word that ends one unit
\* before it starts is repaired, one that ends still earlier refused with the
\* whole result, and so is a word that starts before the one before it.
Clipped(word, duration) ==
    [word EXCEPT !.start = Smaller(@, duration), !.end = Smaller(@, duration)]
Inverse(word) == word.start > word.end + 1
InOrder(words) == \A i \in 1 .. Len(words) - 1 : words[i].start <= words[i + 1].start
Normal(raw, duration) ==
    LET clipped == [i \in DOMAIN raw |-> Clipped(raw[i], duration)]
        mended == [i \in DOMAIN raw |->
                     [clipped[i] EXCEPT !.end = Larger(@, clipped[i].start)]]
    IN  Those(mended, {w \in Elements(mended) : w.text # "Blank"})
CanNormalize(raw, duration) ==
    /\ \A i \in DOMAIN raw : ~Inverse(Clipped(raw[i], duration))
    /\ InOrder(Normal(raw, duration))

ApplyChunkOffset(words, offset) ==
    [i \in DOMAIN words |-> [words[i] EXCEPT !.start = @ + offset, !.end = @ + offset]]

\* retain_core_words: a word belongs to the chunk its middle is in.
Center(word) == word.start + (word.end - word.start) \div 2
RetainCoreWords(words, chunk) ==
    Those(words, {w \in Elements(words) : chunk.core[1] <= Center(w) /\ Center(w) < chunk.core[2]})

\* append_chunk_words.
AppendChunkWords(words, heard, chunk) ==
    words \o RetainCoreWords(ApplyChunkOffset(heard, chunk.read[1]), chunk)

=============================================================================
