SPECIFICATION FairSpec
CONSTANTS
    t1 = t1  t2 = t2
    k1 = k1  k2 = k2
    raw = raw  raw2 = raw2  zip = zip  big = big
    None = None  Garbage = Garbage  Failed = Failed  Nobody = Nobody
    Threads = {t1, t2}
    Keys = {k1, k2}
    Values = {raw, raw2, zip, big}
    Uses <- AllUses
    StoredSize <- SizeOf
    Zipped <- ZippedOf
    BufferSize = 2
    MaxNode = 10
\* Once the calls are made the store is at rest.
CHECK_DEADLOCK FALSE
INVARIANTS
    TypeOK
    GetReturnsCurrent
    StoredIsCurrent
    CacheIsCurrent
    SyncIsWritten
PROPERTIES
    OpsReturn
