SPECIFICATION FairSpec
CONSTANTS
    MaxCalls = 2
    MaxPipe = 1
    Numbers = 4
    Workers = {"Helper", "Python"}
    Outcomes = {"Result", "Error", "Panic"}
    Faults = {"Crash", "Timeout", "Cancel"}
INVARIANT AnswerIsItsOwn
INVARIANT OneInference
INVARIANT SessionSurvives
PROPERTY CallReturns
CHECK_DEADLOCK FALSE
