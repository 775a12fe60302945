SPECIFICATION Spec
CONSTANTS
    Thread = {t1, t2}
    Block = {0, 2, 3}
    Unreliable = {2}
    DiskSize = 3
    HashValue = 2
    MaxPending = 2
    Value = {0, 1}
    Junk = Junk
INVARIANTS TypeOK CacheConsistent HolderSeesLatest CleanMeansStored ReplyIsMine
CHECK_DEADLOCK FALSE
