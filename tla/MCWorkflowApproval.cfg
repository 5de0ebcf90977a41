CONSTANTS
    Drivers = {d1, d2}
    MaxActive = 2
    NumSteps = 1
    Deps <- MCOne
    Degrade <- MCOneStrict
    MaxSeq = 1
    MaxReplans = 0
    Changing = {}
    MaxEdits = 0
SPECIFICATION Spec
INVARIANTS RedispatchApproved
