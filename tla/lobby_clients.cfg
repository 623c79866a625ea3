SPECIFICATION Spec
CONSTANTS
    c1 = c1
    c2 = c2
    n1 = n1
    n2 = n2
    r1 = r1
    r2 = r2
    Null = Null
    Clients <- TwoClients
    Names <- TwoNames
    RoomNames <- TwoRooms
    Lobbies = {1, 2}
    Limits <- OneOrTwoPlaces
    LOBBIES_MAX_NUMBER = 1
    ApiCalls <- AllCalls
    MaxCalls = 2
    MaxRead = 1
    SlowServer = FALSE
    CreateWhileJoined = FALSE
    WholeRequests = TRUE
SYMMETRY Symmetric
INVARIANTS TypeOK RoomsSound BeliefTrue ViewsConverge HandlerFollows
PROPERTIES HostSuccession ImplementsRoomService
CHECK_DEADLOCK FALSE
