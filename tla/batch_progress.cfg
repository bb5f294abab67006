SPECIFICATION FairSpec
CONSTANTS
    StageCount = 1
    NoArtifact = NoArtifact
    Artifact = art
    Artifacts = {art}
    MaxGeneration = 0
    JobCount = 2
    Controllers = {c1}
    Local = {}
    Commands = {"CancelJob", "Pause", "Resume"}
    Faults = {}
INVARIANT RecordsAgree
PROPERTY FifoOrder
PROPERTY BatchConcludes
PROPERTY CancelAnswered
PROPERTY PauseObeyed
CHECK_DEADLOCK FALSE
