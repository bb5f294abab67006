SPECIFICATION Spec
CONSTANTS
    NoArtifact = NoArtifact
    StageCount = 3
    MaxGeneration = 2
    Artifacts = {a1, a2}
INVARIANT JobInv
PROPERTY KeepsPromise
