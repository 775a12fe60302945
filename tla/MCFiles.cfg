SPECIFICATION Spec
CONSTANTS
    t1 = t1
    t2 = t2
    Thread = {t1, t2}
    NFiles = 3
    owner <- MCOwner
    NInodes = 3
    NBlocks = 8
    BlockSize = 2
    INODE_DIRECT_BLOCKS = 1
    MaxSize <- MCMaxSize
    MaxCalls <- MCMaxCalls
INVARIANTS TypeOK  
CHECK_DEADLOCK FALSE
