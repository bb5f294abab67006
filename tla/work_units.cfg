SPECIFICATION FairSpec
CONSTANTS
    StageCount = 1
    MaxGeneration = 0
    NoArtifact = 0
    Artifacts = {1}
    LeaseTime = 1
    ChunkCount = 2
    Engines = {1, 2}
    Controllers = {c1}
    MaxMishaps = 2
    Faults = {"Crash", "Work", "Commit", "Lose"}
INVARIANT LeasedUnitIsKept
INVARIANT CancelIsPrompt
PROPERTY TranscriptNeedsEveryChunk
PROPERTY CompletedChunksSurvive
PROPERTY JobGetsTranscribed
CHECK_DEADLOCK FALSE
