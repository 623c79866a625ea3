SPECIFICATION Spec
CONSTANTS
    c1 = c1
    c2 = c2
    n1 = n1
    n2 = n2
    r1 = r1
    r2 = r2
    Null = Null
    Clients <- TwoClients
    Names <- TwoNames
    RoomNames <- OneRoom
    Lobbies = {1, 2}
    Limits <- OneOrTwoPlaces
    LOBBIES_MAX_NUMBER = 2
    ApiCalls <- AllCalls
    MaxCalls = 2
    MaxRead = 2
    SlowServer = FALSE
    CreateWhileJoined = FALSE
    WholeRequests = TRUE
INVARIANTS AllSeeLimits
CHECK_DEADLOCK FALSE
