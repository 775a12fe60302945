SPECIFICATION Spec
CONSTANTS
    Thread = {t1, t2}
    Cleaner = Cleaner
    Idle = Idle
    NULL = NULL
INVARIANT OnlyExitedReleased
