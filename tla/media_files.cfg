SPECIFICATION Spec
CONSTANTS
    Media = {m1}
    Policies = {"Rename", "Fail", "Overwrite"}
    MaxJobs = 2
    MaxSuffix = 2
    MaxHeard = 2
    MaxRetries = 1
    MaxChanges = 1
    MaxFaults = 2
INVARIANT GraphWhole
INVARIANT OneSource
INVARIANT CorruptNeedsTwoFaults
PROPERTY ExportsSpareOthers
CHECK_DEADLOCK FALSE
