SPECIFICATION Spec
CONSTANTS
    StageCount = 2
    MaxGeneration = 0
    NoArtifact = 0
    MaxRows = 3
    Artifacts = {1, 2, 3}
    Contents = {x, y}
    NoFile = NoFile
    Sidecar = {1}
    Exported = {}
    Varying = {}
    Editable = {}
    Editors = {}
    MaxRevision = 0
    Faults = {"Crash"}
INVARIANT CompletedIsReusable
CHECK_DEADLOCK FALSE
