SPECIFICATION Spec
CONSTANTS
    Server = s
    Client = {c}
    NoSocket = none
    Talker = {c}
    Reader = {s}
    Closer = {}
    MAX_TRY = 2
    MaxSeq <- Transmissions
    Answers = 2
    Sends = 3
    MaxReceive = 1
    MaxQueue = 2
CHECK_DEADLOCK FALSE
INVARIANTS TypeOK   DataWakesReceiver
