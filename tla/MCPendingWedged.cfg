CONSTANTS
    Runs = {r1, r2}
    None = None
    MaxSeq = 2
    MaxApprovals = 0
SPECIFICATION Spec
INVARIANTS PendingCanBeDecided
