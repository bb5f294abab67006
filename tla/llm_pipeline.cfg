SPECIFICATION FairSpec
CONSTANTS
    Threshold = 2
    CueCount = 3
    Costs = {1, 4, 5}
    Limit = 4
    MaxItems = 2
    SemanticMax = 2
    TransportMax = 2
    Kinds = {"Split", "Translate"}
    Wirings = {TRUE, FALSE}
    Sweeps = {TRUE, FALSE}
    Texts = {"Good", "Misaligned", "Keys"}
    Errors = {"TooMany", "Unauthorized", "Garbled"}
    MaxRuns = 2
INVARIANT ProviderSpared
INVARIANT EveryCueAccounted
PROPERTY DurableWork
PROPERTY RunEnds
CHECK_DEADLOCK FALSE
