SPECIFICATION FairSchedSpec
CONSTANTS
    Gzip = {g1, g2, g3}
    Raw = {r1, r2, r3}
    Uploads <- AllUploads
    Bytes <- UploadBytes
    Concurrency = 2
    QueueLimit = 3
    MaxBytes = 10
INVARIANTS
    SchedTypeOK
    SlotsExact
PROPERTIES
    Served
CHECK_DEADLOCK FALSE
