SPECIFICATION CloudSpec
CONSTANTS
    Ops = {o1, o2, o3}
    Contents = {c1, c2}
    HistoryLimit = 2
    MaxRevision = 2
    MaxTries = 2
    MaxRetried = 1
    MaxFaults = 1
    None = None
SYMMETRY Symmetry
VIEW View
INVARIANTS
    CloudTypeOK
    PayloadsResolve
    IndexExact
    TruthfulReplies
PROPERTIES
    ImplementsSlot
