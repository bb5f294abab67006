------------------------------ MODULE RuleSplit -------------------------------
(***************************************************************************)
(* The rules that make cues out of the words of a transcript               *)
(* (domain/src/subtitle/split.rs), the text of a cue (text_joiner.rs), and *)
(* the mapping of an LLM's reply to ranges of words                        *)
(* (core/src/use_cases/llm_pipeline/split.rs).  Functions of values.       *)
(*                                                                         *)
(* A word has a text, of which the classes of its characters are kept.     *)
(* Ranges are <<first, end>>, 0-based and without their end, as the code   *)
(* has them: <<0, 2>> is the words 1 and 2.                                *)
(***************************************************************************)
EXTENDS Selection

CONSTANTS MaxWordsCjk, MaxWordsLatin,
          RuleSplitGap,          \* RULE_SPLIT_GAP_MS, below MAX_GAP_MS
          MergeShortGap, MergeVeryShortGap, MergeMinWords, MergeVeryShortWords,
          GapWindow, GapMultiplier, UnusualGap

ASSUME RuleAssumption ==
    /\ {MaxWordsCjk, MaxWordsLatin, RuleSplitGap, GapMultiplier} \subseteq Nat \ {0}
    /\ {MergeShortGap, MergeVeryShortGap, MergeMinWords, MergeVeryShortWords,
        GapWindow, UnusualGap} \subseteq Nat

\* The texts there are: a letter, a word of two letters, one a cue may break
\* before, the last word of a sentence, Han characters and a Han full stop.
Chars(text) ==
    CASE text = "Letter" -> <<"Latin">>
      [] text = "Word" -> <<"Latin", "Latin">>
      [] text = "Of" -> <<"Latin", "Latin">>
      [] text = "End" -> <<"Latin", "Closer">>
      [] text = "Han" -> <<"Cjk">>
      [] text = "HanStop" -> <<"Cjk", "CjkCloser">>
SoftBreaks == {"Of"}
SentenceEnds == {"End", "HanStop"}
Texts == {"Letter", "Word", "Of", "End", "Han", "HanStop"}

-----------------------------------------------------------------------------
(* rule_split. *)

CountOf(words, class) ==
    LET Sum[i \in 0 .. Len(words)] ==
            IF i = 0 THEN 0
            ELSE Sum[i - 1] + Len(SelectSeq(Chars(words[i].text), LAMBDA c : c = class))
    IN  Sum[Len(words)]
MaxWords(words) ==
    IF CountOf(words, "Cjk") > CountOf(words, "Latin") THEN MaxWordsCjk ELSE MaxWordsLatin

\* The gap after the first i words.
Gap(words, i) == IF words[i + 1].start > words[i].end
                 THEN words[i + 1].start - words[i].end ELSE 0

\* A gap of several times the average of those around it.
Unusual(words, i) ==
    LET low == IF i > GapWindow THEN i - GapWindow ELSE 1
        high == IF i + GapWindow < Len(words) THEN i + GapWindow ELSE Len(words) - 1
        Sum[j \in low - 1 .. high] == IF j < low THEN 0 ELSE Sum[j - 1] + Gap(words, j)
        average == Sum[high] \div (high - low + 1)
    IN  /\ average > 0
        /\ Gap(words, i) >= average * GapMultiplier /\ Gap(words, i) >= UnusualGap

CutAfter(words, i) ==
    \/ i = Len(words) \/ words[i].text \in SentenceEnds
    \/ Gap(words, i) >= RuleSplitGap \/ Unusual(words, i)

\* split_oversized: before the soft break nearest to the middle of the
\* preferred region, else of the whole group; else at 0.6 of it.
NearestSoft(words, low, high) ==
    LET soft == {i \in low .. high : words[i + 1].text \in SoftBreaks}
        mid == (low + high) \div 2
        Off(i) == IF i < mid THEN mid - i ELSE i - mid
    IN  IF low >= high THEN {}
        ELSE {i \in soft : \A j \in soft : Off(i) < Off(j) \/ (Off(i) = Off(j) /\ i <= j)}
Between(x, low, high) == IF x < low THEN low ELSE IF x > high THEN high ELSE x
OversizedCut(words, s, e) ==
    LET low == Between(s + (2 * (e - s)) \div 5, s + 1, e - 1)
        high == Between(s + (3 * (e - s)) \div 5, low, e - 1)
        soft == IF NearestSoft(words, low, high) # {} THEN NearestSoft(words, low, high)
                ELSE NearestSoft(words, s + 1, e - 1)
        forced == Between(s + (3 * (e - s)) \div 5, s + 1, e - 1)
        cut == IF soft = {} THEN forced ELSE CHOOSE i \in soft : TRUE
    IN  Between(IF words[cut + 1].text \in SoftBreaks THEN cut ELSE cut + 1, s + 1, e - 1)

\* Slip: a group that is cut once is left at that.
SplitOnce(words, range) ==
    IF range[2] - range[1] <= MaxWords(words) THEN <<range>>
    ELSE LET cut == OversizedCut(words, range[1], range[2])
         IN  <<<<range[1], cut>>, <<cut, range[2]>>>>
SplitOversized(words, range) ==
    LET Parts[r \in (0 .. Len(words)) \X (0 .. Len(words))] ==
            IF r[2] - r[1] <= MaxWords(words) THEN <<r>>
            ELSE LET cut == OversizedCut(words, r[1], r[2])
                 IN  Parts[<<r[1], cut>>] \o Parts[<<cut, r[2]>>]
    IN  Parts[range]

Groups(words) ==
    LET From[start \in 0 .. Len(words)] ==
            IF start = Len(words) THEN <<>>
            ELSE LET end == CHOOSE i \in start + 1 .. Len(words) :
                               /\ CutAfter(words, i)
                               /\ \A j \in start + 1 .. i - 1 : ~CutAfter(words, j)
                 IN  SplitOversized(words, <<start, end>>) \o From[end]
    IN  From[0]

\* merge_short_ranges.
CanMerge(words, left, right) ==
    LET shortest == IF left[2] - left[1] < right[2] - right[1]
                    THEN left[2] - left[1] ELSE right[2] - right[1]
        gap == Gap(words, left[2])
    IN  /\ \/ shortest <= MergeVeryShortWords /\ gap <= MergeVeryShortGap
           \/ shortest < MergeMinWords /\ gap <= MergeShortGap
        /\ right[2] - left[1] <= 2 * MaxWords(words)
MergeShort(words, ranges) ==
    LET Merged[i \in 1 .. Len(ranges)] ==
            IF i = 1 THEN <<ranges[1]>>
            ELSE LET done == Merged[i - 1]
                     last == done[Len(done)]
                 IN  IF CanMerge(words, last, ranges[i])
                     THEN [done EXCEPT ![Len(done)] = <<last[1], ranges[i][2]>>]
                     ELSE Append(done, ranges[i])
    IN  IF ranges = <<>> THEN <<>> ELSE Merged[Len(ranges)]

RuleRanges(words) == MergeShort(words, Groups(words))

-----------------------------------------------------------------------------
(* join_words: the characters of a cue. *)

WordChars == {"Latin", "Cjk"}
NeedsSpace(previous, next) ==
    /\ next \notin {"Closer", "CjkCloser"}
    /\ \/ previous \in WordChars /\ next \in WordChars /\ {previous, next} # {"Cjk"}
       \/ previous = "Closer" /\ next \in WordChars
JoinWords(words) ==
    LET Joined[i \in 0 .. Len(words)] ==
            IF i = 0 THEN <<>>
            ELSE LET out == Joined[i - 1]
                     token == Chars(words[i].text)
                 IN  out \o (IF out # <<>> /\ NeedsSpace(out[Len(out)], token[1])
                             THEN <<"Space">> ELSE <<>>) \o token
    IN  Joined[Len(words)]

-----------------------------------------------------------------------------
(* The reply to a split request: the characters that are left when the     *)
(* breaks are taken out, and where these were, in order.                   *)

Visible(chars) == Those(chars, {c \in Elements(chars) : c # "Space"})

\* restore_split_spaces puts a space at every break that has none before it.
RestoreSpaces(clean, breaks) ==
    LET Upto[i \in 0 .. Len(clean)] ==
            IF i = 0 THEN <<>>
            ELSE Upto[i - 1] \o (IF /\ \E b \in DOMAIN breaks : breaks[b] = i - 1
                                    /\ i = 1 \/ clean[i - 1] # "Space"
                                 THEN <<"Space">> ELSE <<>>) \o <<clean[i]>>
    IN  Upto[Len(clean)]
SameContent(words, clean, breaks) ==
    LET original == JoinWords(words)
    IN  clean = original \/ RestoreSpaces(clean, breaks) = original

\* normalized_break_position and boundary_index: the number of words before
\* the break, if it is between words.
\* Slip: a break inside a word is moved behind it.
WordsBeforeRounded(words, clean, position) ==
    LET behind == {k \in 1 .. Len(words) - 1 : position <= Len(JoinWords(SubSeq(words, 1, k)))}
    IN  {k \in behind : \A j \in behind : k <= j}
WordsBefore(words, clean, position) ==
    LET At(p) == {k \in 1 .. Len(words) - 1 : Len(JoinWords(SubSeq(words, 1, k))) = p}
    IN  IF At(position) # {} THEN At(position)
        ELSE IF position \in 1 .. Len(clean) /\ clean[position] = "Space"
        THEN At(position - 1) ELSE {}

\* split_ranges_for_formatted, once the content is the same.
AllAligned(words, clean, breaks) ==
    \A b \in DOMAIN breaks : WordsBefore(words, clean, breaks[b]) # {}
RangesFor(words, first, clean, breaks) ==
    LET At(b) == CHOOSE k \in WordsBefore(words, clean, breaks[b]) :
                    \A j \in WordsBefore(words, clean, breaks[b]) : k <= j
        ends == [b \in 1 .. Len(breaks) + 1 |->
                   first + IF b > Len(breaks) THEN Len(words) ELSE At(b)]
    IN  [b \in DOMAIN ends |-> <<IF b = 1 THEN first ELSE ends[b - 1], ends[b]>>]

\* For comparison: the words before a break as a reader of the reply counts
\* them, by the characters that can be seen.
WordsAsked(words, clean, position) ==
    {k \in 1 .. Len(words) - 1 :
        Len(Visible(SubSeq(clean, 1, position))) =
            Len(Visible(JoinWords(SubSeq(words, 1, k))))}

=============================================================================
