CONSTANTS
    Runs = {r1, r2}
    None = None
    MaxSeq = 2
    MaxApprovals = 2
SPECIFICATION Spec
INVARIANTS TypeOK DecidedOnce GateBacked  WaitingHasApproval
 
SYMMETRY Symmetry
