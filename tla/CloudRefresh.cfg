SPECIFICATION SyncSpec
CONSTANTS
    d1 = d1
    d2 = d2
    Devices = {d1, d2}
    Ops <- MCOps
    Contents = {c1, c2, c3}
    HistoryLimit = 2
    MaxRevision = 4
    None = None
SYMMETRY Symmetry
VIEW View
PROPERTY PlayerChooses
CHECK_DEADLOCK FALSE
