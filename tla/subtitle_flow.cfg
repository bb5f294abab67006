SPECIFICATION Spec
CONSTANTS
    GlobalMax = 5
    MinChunk = 2
    Radius = 2
    Padding = 1
    MinSilence = 2
    MaxWordsCjk = 3
    MaxWordsLatin = 1
    RuleSplitGap = 6
    MergeShortGap = 1
    MergeVeryShortGap = 3
    MergeMinWords = 2
    MergeVeryShortWords = 1
    GapWindow = 2
    GapMultiplier = 2
    UnusualGap = 3
    Routes = {"Chunked", "Whole", "Llm", "Noisy", "Srt", "Vtt"}
    Durations = {0, 1, 4, 8, 9}
    Limits = {1, 4, 5}
    Loudness = {1, 5}
    RuleWords = 4
    RuleTexts = {"Letter", "Of", "End", "Han", "HanStop"}
    RuleGaps = {0, 3, 6}
    LlmWords = 3
    LlmTexts = {"Letter", "Word", "Han"}
    LlmGaps = {0, 6}
    NoiseTimes = {0, 1, 2, 3}
    FlowWords = 2
    FlowTexts = {"Letter"}
    TypedTexts = {"", "TypedVerse"}
    Corrections = {"CorrectedGap"}
    Translations = {"Translated"}
    MaxBreaks = 2
    MaxEdits = 2
    MaxRetries = 2
    MaxBlocks = 2
INVARIANT WordsOwnedOnce
INVARIANT CuesCoverWords
INVARIANT SplitWhereAsked
INVARIANT UserWordsStay
INVARIANT DegradedIsTold
INVARIANT ExportReadsBack
CHECK_DEADLOCK FALSE
