SPECIFICATION Spec
CONSTANTS
    s1 = s1
    s2 = s2
    s3 = s3
    p1 = p1
    p2 = p2
    p3 = p3
    Null = Null
    SessionActors <- OneSession
    Players <- OnePlayer
    MAX_SESSIONS_NUMBER = 1
    MaxPorts = 1
    MaxCalls = 1
    Calls = {"reliableSync"}
    Duplicates = FALSE
    IDX_WRAP_MODULE = 8
    ACK_HISTORY_SIZE = 3
    MESSSAGES_BUFFER_SIZE = 3
PROPERTIES SyncReachesAll
CHECK_DEADLOCK FALSE
