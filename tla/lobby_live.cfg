SPECIFICATION FairSpec
CONSTANTS
    c1 = c1
    c2 = c2
    n1 = n1
    n2 = n2
    r1 = r1
    r2 = r2
    Null = Null
    Clients <- TwoClients
    Names = {n1}
    RoomNames <- OneRoom
    Lobbies = {1, 2}
    Limits <- TwoPlaces
    LOBBIES_MAX_NUMBER = 2
    ApiCalls = {"createRoom", "joinRoom", "leaveRoom", "closeRoom", "eject"}
    MaxCalls = 2
    MaxRead = 1
    SlowServer = TRUE
    CreateWhileJoined = TRUE
    WholeRequests = FALSE
PROPERTIES DisconnectedLeave
CHECK_DEADLOCK FALSE
