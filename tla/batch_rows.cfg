SPECIFICATION Spec
CONSTANTS
    StageCount = 2
    NoArtifact = NoArtifact
    Artifact = art
    Artifacts = {art}
    MaxGeneration = 0
    JobCount = 1
    Controllers = {c1}
    Local = {c1}
    Commands = {"CancelJob", "CancelBatch", "Resume", "Retry"}
    Faults = {"Crash", "Open", "Work", "Commit", "Verify", "Units"}
PROPERTY CancelWins
CHECK_DEADLOCK FALSE
