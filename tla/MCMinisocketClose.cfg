SPECIFICATION Spec
CONSTANTS
    Server = s
    Client = {c, d}
    NoSocket = none
    Talker = {}
    Reader = {s}
    Closer = {c}
    MAX_TRY = 1
    MaxSeq <- Transmissions
    Answers = 1
    Sends = 1
    MaxReceive = 1
    MaxQueue = 2
CHECK_DEADLOCK FALSE
INVARIANT AckNotAhead
PROPERTIES NeverReopened  
