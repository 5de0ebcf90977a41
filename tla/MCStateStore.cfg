CONSTANTS
    a = a
    b = b
    Proc = {p1, p2}
    Content <- MCContent
    WithPlan <- MCWithPlan
    Jobs <- MCJobs
    Absent = Absent
    Untracked = Untracked
    Note = Note
    MaxAttempts = 2
    MaxJobs = 2
SPECIFICATION Spec
INVARIANTS TypeOK MutualExclusion LedgerCovers GuardedAllOrNothing
PROPERTIES NoLostUpdate ImplementsAtomicStore
SYMMETRY Symmetry
