SPECIFICATION Spec
CONSTANTS
    h1 = h1
    h2 = h2
    h3 = h3
    t1 = t1
    t2 = t2
    Host = {h1, h2, h3}
    Links <- Line
    Thread = {t1, t2}
    HostOf <- BothOnFirst
    Dest <- Targets
    NoPath = NoPath
    MAX_ROUTE_LENGTH = 2
    SIZE_OF_ROUTE_CACHE = 1
    MaxId = 2
INVARIANTS TypeOK  OnlyOverLinks
  
CHECK_DEADLOCK FALSE
