SPECIFICATION FairSpec
CONSTANTS
    s1 = s1
    s2 = s2
    s3 = s3
    p1 = p1
    p2 = p2
    p3 = p3
    Null = Null
    SessionActors <- OneSession
    Players <- TwoPlayers
    MAX_SESSIONS_NUMBER = 1
    MaxPorts = 2
    MaxCalls = 1
    Calls = {}
    Duplicates = TRUE
    IDX_WRAP_MODULE = 8
    ACK_HISTORY_SIZE = 3
    MESSSAGES_BUFFER_SIZE = 3
INVARIANTS StartedTogether StartedIsServed
PROPERTIES RunningSessionsEnd
CHECK_DEADLOCK FALSE
