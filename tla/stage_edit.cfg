SPECIFICATION Spec
CONSTANTS
    StageCount = 2
    MaxGeneration = 0
    NoArtifact = 0
    MaxRows = 3
    Artifacts = {1, 2, 3}
    Contents = {x}
    NoFile = NoFile
    Sidecar = {}
    Exported = {}
    Varying = {}
    Editable = {1}
    Editors = {e1, e2}
    MaxRevision = 2
    Faults = {"Crash", "Work", "Lose"}
INVARIANT ReferencesAreCommitted
PROPERTY NoLostEdit
CHECK_DEADLOCK FALSE
