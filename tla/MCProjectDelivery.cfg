CONSTANTS
    Conns = {c1, c2, c3}
    Ids = {d1}
    MaySubmit <- MCShared
    Slots = {s1, s2}
    None = None
    Blank = Blank
SPECIFICATION FairSpec
INVARIANTS TypeOK CommittedIsGenuine SerializedUnlessStolen UnknownKeepsLock
PROPERTIES ImplementsJournal CallsEnd
