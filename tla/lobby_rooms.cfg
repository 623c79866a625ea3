SPECIFICATION Spec
CONSTANTS
    c1 = c1
    c2 = c2
    n1 = n1
    n2 = n2
    r1 = r1
    r2 = r2
    Null = Null
    Clients <- TwoClients
    Names <- TwoNames
    RoomNames <- TwoRooms
    Lobbies = {1, 2}
    Limits <- TwoPlaces
    LOBBIES_MAX_NUMBER = 2
    ApiCalls = {"createRoom", "joinRoom", "leaveRoom", "closeRoom", "eject"}
    MaxCalls = 2
    MaxRead = 1
    SlowServer = TRUE
    CreateWhileJoined = TRUE
    WholeRequests = TRUE
SYMMETRY Symmetric
INVARIANTS DirectoryExact DirectoryCoversRoom
PROPERTIES OnlyHostCloses
CHECK_DEADLOCK FALSE
