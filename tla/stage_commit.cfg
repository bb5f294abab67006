SPECIFICATION FairSpec
CONSTANTS
    StageCount = 3
    MaxGeneration = 0
    NoArtifact = 0
    MaxRows = 5
    Artifacts = {1, 2, 3, 4, 5}
    Contents = {x, y}
    NoFile = NoFile
    Sidecar = {}
    Exported = {}
    Varying = {2}
    Editable = {}
    Editors = {}
    MaxRevision = 0
    Faults = {"Crash", "Work", "Commit", "Cancel", "Retry"}
INVARIANT CommittedFilesIntact
INVARIANT RecoveredIsClean
PROPERTY VerifiedJobsKept
PROPERTY RunsEnd
CHECK_DEADLOCK FALSE
