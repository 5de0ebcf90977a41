CONSTANTS
    Drivers = {d1, d2}
    MaxActive = 2
    NumSteps = 3
    Deps <- MCPhase
    Degrade <- MCMixed3
    MaxSeq = 1
    MaxReplans = 1
    Changing = {1}
    MaxEdits = 1
SPECIFICATION Spec
INVARIANTS TypeOK
PROPERTIES ImplementsJournal HoldsStand
SYMMETRY Symmetry
