SPECIFICATION FairCloudSpec
CONSTANTS
    Ops = {o1, o2}
    Contents = {c1, c2}
    HistoryLimit = 2
    MaxRevision = 1
    MaxTries = 2
    MaxRetried = 1
    MaxFaults = 1
    None = None
INVARIANTS
    CurrentIsNewest
    NoneOvertaken
    OnceOnly
PROPERTIES
    ShutdownEnds
