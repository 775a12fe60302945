SPECIFICATION FairSpec
CONSTANTS
    Thread = {t1, t2, t3}
    Idle = Idle
    mutex = mutex
    signal = signal
    Sem = {mutex, signal}
    Mutex = {mutex}
    HandlerSem = {signal}
    Masked = {signal}
    InitCount <- MCInitCount
    MaxCount = 1
INVARIANTS TypeOK MutualExclusion HandlerFindsLockFree NoLostWakeup
PROPERTIES ImplementsSemaphore SignalsArrive
