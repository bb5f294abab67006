SPECIFICATION Spec
CONSTANTS
    StageCount = 1
    NoArtifact = NoArtifact
    Artifact = art
    Artifacts = {art}
    MaxGeneration = 0
    JobCount = 2
    Controllers = {c1}
    Local = {}
    Commands = {"Pause", "Resume", "Retry"}
    Faults = {"Crash", "Open", "Work", "Commit"}
INVARIANT EndedBatchHasEndedJobs
INVARIANT PausedMeansQuiet
PROPERTY KeepsPromise
CHECK_DEADLOCK FALSE
