CONSTANTS
    Drivers = {d1, d2}
    MaxActive = 1
    NumSteps = 3
    Deps <- MCFan
    Degrade <- MCMixed3
    MaxSeq = 2
    MaxReplans = 1
    Changing = {1}
    MaxEdits = 1
SPECIFICATION FairSpec
INVARIANTS RedispatchApproved PlanMatchesJournal ApprovalKeepsStepUnfinished
PROPERTIES DriversEnd
