CONSTANTS
    Drivers = {d1}
    MaxActive = 1
    NumSteps = 2
    Deps <- MCIndependent
    Degrade <- MCStrict
    MaxSeq = 0
    MaxReplans = 0
    Changing = {}
    MaxEdits = 0
SPECIFICATION Spec
INVARIANTS FailedStepNeverCompleted
