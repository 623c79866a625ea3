---------------------------- MODULE LobbySystem ----------------------------
(***************************************************************************)
(* The lobby as a whole: C++ clients (class Lobby of Lobby.cpp) talking    *)
(* over TCP to the Client and LobbyActor2 actors of the server.            *)
(*                                                                         *)
(* createRoom and joinRoom block until something comes from the server or  *)
(* DEFAULT_TIMEOUT_MS has passed; the other calls only send.  receive      *)
(* handles what has come.  tryReceive returns all the bytes that are       *)
(* there, and the caller parses the first message of them: the rest is     *)
(* lost.  MaxRead bounds the messages one read may find.                   *)
(***************************************************************************)
EXTENDS ClientActor

CONSTANTS
    ApiCalls,           \* the API calls the clients make
    MaxCalls,           \* how many of them each client makes
    MaxRead,            \* messages that one read of the socket may return
    SlowServer,         \* an answer may come after DEFAULT_TIMEOUT_MS
    CreateWhileJoined   \* clients call createRoom while in a room

ASSUME BoundsAssumption ==
    /\ ApiCalls \subseteq {"createRoom", "joinRoom", "reconfigure", "eject",
                           "closeRoom", "startSession", "say", "leaveRoom"}
    /\ IsFiniteSet(Lobbies)
    /\ MaxCalls \in Nat
    /\ MaxRead \in Nat \ {0}
    /\ SlowServer \in BOOLEAN
    /\ CreateWhileJoined \in BOOLEAN

VARIABLES
    api,         \* api[c]: the Lobby object of client c
    roomsAsked   \* createRoom calls made so far, at most one per actor

vars == <<m_lobbies, lobby, mailbox, online, downstream, upstream, m_handler,
          api, roomsAsked>>

-----------------------------------------------------------------------------
(***************************************************************************)
(* call is the blocking call in progress; asked is its playerName; left is *)
(* set once leaveRoom has been called, after which Lobby.h forbids to use  *)
(* the object for another room; calls counts down the bound MaxCalls.      *)
(***************************************************************************)
ApiState ==
    [call : {"none", "createRoom", "joinRoom", "destroyed"},
     asked : Names \cup {Null}, mIsJoined : BOOLEAN, mIsHost : BOOLEAN,
     mMyRoom : RoomInfos \cup {Null}, mPlayerName : Names \cup {Null},
     left : BOOLEAN, calls : 0..MaxCalls]

TypeOK ==
    /\ LobbyTypeOK
    /\ ClientTypeOK
    /\ api \in [Clients -> ApiState]
    /\ roomsAsked \in 0..Cardinality(Lobbies)

NewApi(call) ==
    [call |-> call, asked |-> Null, mIsJoined |-> FALSE, mIsHost |-> FALSE,
     mMyRoom |-> Null, mPlayerName |-> Null, left |-> FALSE,
     calls |-> MaxCalls]

Init ==
    /\ LobbyInit
    /\ ClientInit
    /\ api = [c \in Clients |-> NewApi("none")]
    /\ roomsAsked = 0

-----------------------------------------------------------------------------
(***************************************************************************)
(* The client calls fn; the new state of its object is what changes makes  *)
(* of the old one.                                                         *)
(***************************************************************************)
MayCall(c, fn) ==
    fn \in ApiCalls /\ api[c].call = "none" /\ api[c].calls > 0

Send(c, request) == upstream' = [upstream EXCEPT ![c] = Append(@, request)]

SendEnvelop(c, mail) ==
    Send(c, [type |-> "Envelop", room |-> api[c].mMyRoom.name, mail |-> mail])

Counted(c) == [api[c] EXCEPT !.calls = @ - 1]

Called(c) == api' = [api EXCEPT ![c] = Counted(c)]

UnchangedButUpstream ==
    UNCHANGED <<m_lobbies, lobby, mailbox, online, downstream, m_handler>>

-----------------------------------------------------------------------------
(***************************************************************************)
(* createRoom does not look at mIsJoined; joinRoom does.                   *)
(***************************************************************************)
CreateRoom(c) ==
    /\ MayCall(c, "createRoom")
    /\ ~api[c].left
    /\ api[c].mIsJoined => CreateWhileJoined
    /\ roomsAsked < Cardinality(Lobbies)
    /\ roomsAsked' = roomsAsked + 1
    /\ \E name \in Names, room \in RoomNames, limits \in Limits :
        /\ Send(c, [type |-> "CreateRoom", name |-> name, room |-> room,
                    limits |-> limits])
        /\ api' = [api EXCEPT ![c] = [Counted(c) EXCEPT
                      !.call = "createRoom", !.asked = name]]
    /\ UnchangedButUpstream

JoinRoom(c) ==
    /\ MayCall(c, "joinRoom")
    /\ ~api[c].left
    /\ ~api[c].mIsJoined
    /\ \E name \in Names, room \in RoomNames :
        /\ Send(c, [type |-> "JoinRoom", name |-> name, room |-> room])
        /\ api' = [api EXCEPT ![c] = [Counted(c) EXCEPT
                      !.call = "joinRoom", !.asked = name]]
    /\ UnchangedButUpstream
    /\ UNCHANGED roomsAsked

(***************************************************************************)
(* tryReceive: n messages have come together, the first one is parsed.     *)
(***************************************************************************)
Reads(c, n) ==
    /\ n <= Len(downstream[c])
    /\ downstream' = [downstream EXCEPT ![c] = SubSeq(@, n + 1, Len(@))]

(***************************************************************************)
(* The blocking call returns.  Any RoomInfo is taken for the answer.       *)
(***************************************************************************)
Answered(c) ==
    LET note == Head(downstream[c])
        before == api[c]
        returned == [before EXCEPT !.call = "none", !.asked = Null]
    IN
    /\ before.call \in {"createRoom", "joinRoom"}
    /\ downstream[c] # << >>
    /\ \E n \in 1..MaxRead : Reads(c, n)
    /\ \/ /\ note.type = "RoomInfo"
          /\ api' = [api EXCEPT ![c] = [returned EXCEPT
                        !.mMyRoom = note.room,
                        !.mPlayerName = before.asked,
                        !.mIsJoined = TRUE,
                        !.mIsHost = (before.call = "createRoom")]]
       \/ /\ note.type # "RoomInfo"
          /\ api' = [api EXCEPT ![c] = returned]
    /\ UNCHANGED <<m_lobbies, lobby, mailbox, online, upstream, m_handler,
                   roomsAsked>>

(***************************************************************************)
(* No answer within DEFAULT_TIMEOUT_MS: the call returns FAIL.  If the     *)
(* server is not slow that is because no answer will ever come.            *)
(***************************************************************************)
NoAnswerComing(c) ==
    /\ upstream[c] = << >>
    /\ \A l \in Lobbies : \A i \in DOMAIN mailbox[l] :
        mailbox[l][i].sender = c => mailbox[l][i].type \notin {"Init", "Join"}

TimedOut(c) ==
    /\ api[c].call \in {"createRoom", "joinRoom"}
    /\ downstream[c] = << >>
    /\ SlowServer \/ NoAnswerComing(c)
    /\ api' = [api EXCEPT ![c].call = "none", ![c].asked = Null]
    /\ UNCHANGED <<m_lobbies, lobby, mailbox, online, downstream, upstream,
                   m_handler, roomsAsked>>

-----------------------------------------------------------------------------
(***************************************************************************)
(* Calls that only send.  The mutant forgets to check mIsHost.             *)
(***************************************************************************)
IsMember(c) == api[c].mIsJoined

IsHost(c) == api[c].mIsJoined /\ api[c].mIsHost

Reconfigure(c) ==
    /\ MayCall(c, "reconfigure")
    /\ IsHost(c)
    /\ \E limits \in Limits :
        SendEnvelop(c, [type |-> "Reconfigure", sender |-> c,
                        limits |-> limits])
    /\ Called(c)
    /\ UnchangedButUpstream
    /\ UNCHANGED roomsAsked

Eject(c) ==
    /\ MayCall(c, "eject")
    /\ IsHost(c)
    /\ \E name \in Names :
        SendEnvelop(c, [type |-> "EjectPlayer", sender |-> c, name |-> name])
    /\ Called(c)
    /\ UnchangedButUpstream
    /\ UNCHANGED roomsAsked

CloseRoom(c) ==
    /\ MayCall(c, "closeRoom")
    /\ IsHost(c)
    /\ Send(c, [type |-> "CloseRoom"])
    /\ Called(c)
    /\ UnchangedButUpstream
    /\ UNCHANGED roomsAsked

(***************************************************************************)
(* No check of mIsJoined or mIsHost; makeEnvelop asserts a room name.      *)
(***************************************************************************)
StartSession(c) ==
    /\ MayCall(c, "startSession")
    /\ api[c].mMyRoom # Null
    /\ SendEnvelop(c, [type |-> "StartSession", sender |-> c])
    /\ Called(c)
    /\ UnchangedButUpstream
    /\ UNCHANGED roomsAsked

Say(c) ==
    /\ MayCall(c, "say")
    /\ api[c].mIsJoined
    /\ \E toSelf \in BOOLEAN :
        SendEnvelop(c, [type |-> "Message", sender |-> c,
                        name |-> api[c].mPlayerName, toSelf |-> toSelf])
    /\ Called(c)
    /\ UnchangedButUpstream
    /\ UNCHANGED roomsAsked

LeaveMail(c) == [type |-> "LeaveRoom", sender |-> c]

(***************************************************************************)
(* Mutant: the client still believes it is in the room.                    *)
(***************************************************************************)
LeaveRoomStillJoined(c) ==
    /\ MayCall(c, "leaveRoom")
    /\ api[c].mIsJoined
    /\ SendEnvelop(c, LeaveMail(c))
    /\ api' = [api EXCEPT ![c] = [Counted(c) EXCEPT !.left = TRUE]]
    /\ UnchangedButUpstream
    /\ UNCHANGED roomsAsked

LeaveRoom(c) ==
    /\ MayCall(c, "leaveRoom")
    /\ api[c].mIsJoined
    /\ SendEnvelop(c, LeaveMail(c))
    /\ api' = [api EXCEPT ![c] = [Counted(c) EXCEPT !.mIsJoined = FALSE,
                                                    !.left = TRUE]]
    /\ UnchangedButUpstream
    /\ UNCHANGED roomsAsked

-----------------------------------------------------------------------------
(***************************************************************************)
(* One turn of the loop of receive.  A message that is none of the known   *)
(* ones makes receive throw; nothing but the message is lost.              *)
(***************************************************************************)
Receive(c) ==
    LET note == Head(downstream[c]) IN
    /\ api[c].call = "none"
    /\ api[c].mIsJoined
    /\ downstream[c] # << >>
    /\ \E n \in 1..MaxRead : Reads(c, n)
    /\ \/ /\ note.type \in {"Update", "ReconfigureSucc"}
          /\ api' = [api EXCEPT ![c].mMyRoom = note.room]
       \/ /\ note.type = "Ejected"
          /\ api' = [api EXCEPT ![c].mIsJoined = FALSE]
       \/ /\ note.type \notin {"Update", "ReconfigureSucc", "Ejected"}
          /\ UNCHANGED api
    /\ UNCHANGED <<m_lobbies, lobby, mailbox, online, upstream, m_handler,
                   roomsAsked>>

-----------------------------------------------------------------------------
(***************************************************************************)
(* The end of a client: the destructor, which leaves the room first, or a  *)
(* crash, which may take with it what was sent last.                       *)
(***************************************************************************)
Gone(c) ==
    /\ online' = [online EXCEPT ![c] = FALSE]
    /\ downstream' = [downstream EXCEPT ![c] = << >>]
    /\ api' = [api EXCEPT ![c] = NewApi("destroyed")]
    /\ UNCHANGED <<m_lobbies, lobby, mailbox, m_handler, roomsAsked>>

Destroy(c) ==
    LET leave == IF api[c].mIsJoined
                 THEN <<[type |-> "Envelop", room |-> api[c].mMyRoom.name,
                         mail |-> LeaveMail(c)]>>
                 ELSE << >>
    IN
    /\ api[c].call = "none"
    /\ upstream' = [upstream EXCEPT ![c] =
                       @ \o leave \o <<[type |-> "PeerClosed"]>>]
    /\ Gone(c)

ConnectionLost(c) ==
    /\ api[c].call # "destroyed"
    /\ \E n \in 0..Len(upstream[c]) :
        upstream' = [upstream EXCEPT ![c] =
                        SubSeq(@, 1, n) \o <<[type |-> "PeerClosed"]>>]
    /\ Gone(c)

-----------------------------------------------------------------------------
ApiStep(c) ==
    \/ CreateRoom(c)
    \/ JoinRoom(c)
    \/ Answered(c)
    \/ TimedOut(c)
    \/ Reconfigure(c)
    \/ Eject(c)
    \/ CloseRoom(c)
    \/ StartSession(c)
    \/ Say(c)
    \/ LeaveRoom(c)
    \/ Receive(c)
    \/ Destroy(c)
    \/ ConnectionLost(c)

ServerClientStep(c) == ClientActorStep(c) /\ UNCHANGED <<api, roomsAsked>>

ServerLobbyStep(l) ==
    LobbyActorStep(l) /\ UNCHANGED <<upstream, m_handler, api, roomsAsked>>

Next ==
    \/ \E c \in Clients : ApiStep(c)
    \/ \E c \in Clients : ServerClientStep(c)
    \/ \E l \in Lobbies : ServerLobbyStep(l)

Spec == Init /\ [][Next]_vars

(***************************************************************************)
(* The dispatcher runs every actor that has a message.                     *)
(***************************************************************************)
Fairness ==
    /\ \A c \in Clients : WF_vars(ServerClientStep(c))
    /\ \A l \in Lobbies : WF_vars(ServerLobbyStep(l))

FairSpec == Spec /\ Fairness

-----------------------------------------------------------------------------
(***************************************************************************)
(* The directory and the running rooms are the same thing: every entry     *)
(* names a running room of that name, and every running room has its       *)
(* entry.  unregisterLobby removes by name only, so this rests on zombies  *)
(* never closing and on a room being registered before it runs.            *)
(***************************************************************************)
DirectoryExact ==
    /\ \A r \in Registered :
        LET l == m_lobbies[r].handler IN Running(l) /\ lobby[l].name = r
    /\ \A l \in Lobbies :
        Running(l) => /\ lobby[l].name \in Registered
                      /\ m_lobbies[lobby[l].name].handler = l

(***************************************************************************)
(* A running room has a host, no more players than the slots that are not  *)
(* reserved, and no two players of one name: getHost never meets an empty  *)
(* list, and Join, Reconfigure and Eject cannot race past the limit.       *)
(***************************************************************************)
RoomsSound ==
    \A l \in Lobbies : Running(l) =>
        /\ Len(lobby[l].players) \in 1..Capacity(lobby[l].limits)
        /\ IsInjective([i \in DOMAIN lobby[l].players |->
                            lobby[l].players[i].name])

(***************************************************************************)
(* What getRooms shows of a room may still list a player that was ejected, *)
(* but never misses one, and its host and its limits are those of now.     *)
(***************************************************************************)
DirectoryCoversRoom ==
    \A r \in Registered :
        LET room == lobby[m_lobbies[r].handler]
            info == m_lobbies[r].info
        IN /\ info.limits = room.limits
           /\ info.host = GetHost(room).name
           /\ NamesOf(room) \subseteq ToSet(info.players)

(***************************************************************************)
(* A client that believes it is in a room (and has no Ejected to read) is  *)
(* in it under the name it took, and if it believes it is the host then it *)
(* is: what Lobby::isJoined, isHost and getRoomInfo say is true.           *)
(* That is so if answers are prompt (~SlowServer), if nobody creates a     *)
(* room while in one, if reads of the clients lose nothing (MaxRead = 1),  *)
(* if requests come to the server one in a chunk (WholeRequests), and if   *)
(* nobody joins again after an ejection with his StartSession still under  *)
(* way: its SUCK is taken for the answer to joinRoom, and the RoomInfo     *)
(* that follows for the answer to the joinRoom after that.  TLC meets this *)
(* last with four calls of each of two clients, and not with three.  Under *)
(* the five conditions BeliefTrue is a theorem for every number of calls   *)
(* (LobbyViews_proofs).                                                    *)
(***************************************************************************)
ToldToLeave(c) ==
    \E i \in DOMAIN downstream[c] : downstream[c][i].type = "Ejected"

BeliefTrue ==
    \A c \in Clients :
        api[c].mIsJoined /\ ~ToldToLeave(c) =>
            LET r == api[c].mMyRoom.name
                me == [actor |-> c, name |-> api[c].mPlayerName]
            IN /\ r \in Registered
               /\ me \in ToSet(lobby[m_lobbies[r].handler].players)
               /\ api[c].mIsHost => me = GetHost(lobby[m_lobbies[r].handler])

(***************************************************************************)
(* Once a client has read everything and its room has no Update left to    *)
(* send, the room it sees is the room as it is: onRoomUpdate has told it   *)
(* of every join, departure, ejection and reconfiguration.  The conditions *)
(* are those of BeliefTrue.                                                *)
(***************************************************************************)
UpdatePending(l) ==
    \E i \in DOMAIN mailbox[l] : mailbox[l][i].type = "Update"

ViewsConverge ==
    \A c \in Clients :
        api[c].mIsJoined /\ downstream[c] = << >> =>
            \A l \in Lobbies :
                /\ Running(l)
                /\ lobby[l].name = api[c].mMyRoom.name
                /\ ~UpdatePending(l)
                => api[c].mMyRoom = MakeRoomInfo(lobby[l])

(***************************************************************************)
(* Only the host of a room can close it, although LobbyActor2 handles a    *)
(* Close without looking at its sender and Client without looking at the   *)
(* room.  That holds with late answers and createRoom in a room too, but   *)
(* needs WholeRequests.  Without it three calls are enough: the answer to  *)
(* a joinRoom that gave up comes, a createRoom cut in two takes it for its *)
(* own, and then a mere member calls closeRoom as the host he is not.      *)
(***************************************************************************)
ClosesNow(l) == Running(l) /\ Gets(l, "Close") /\ lobby'[l].phase = "stopped"

OnlyHostCloses ==
    [][\A l \in Lobbies :
        ClosesNow(l) => Current(l).sender = GetHost(lobby[l]).actor]_vars

(***************************************************************************)
(* A room changes hands by seniority only: a new host was the second       *)
(* player of the list, and the host before it is gone.                     *)
(***************************************************************************)
HostSuccession ==
    [][\A l \in Lobbies :
        /\ Running(l) /\ Running(l)'
        /\ GetHost(lobby[l]) # GetHost(lobby'[l])
        => /\ Len(lobby[l].players) > 1
           /\ GetHost(lobby'[l]) = lobby[l].players[2]
           /\ GetHost(lobby[l]) \notin ToSet(lobby'[l].players)]_vars

(***************************************************************************)
(* The room that lists a player is the one that m_handler of his           *)
(* connection is at, or has a message of his in its mailbox that takes him *)
(* out: so the end of the connection is told to the right room.  The       *)
(* conditions are those of BeliefTrue, for the server does not see to it:  *)
(* TakeCreateRoom and TakeJoinRoom overwrite m_handler, and the room of    *)
(* before, if there is one, keeps the player for ever.                     *)
(***************************************************************************)
HandlerFollows ==
    \A c \in Clients, l \in Lobbies :
        Running(l) /\ c \in ActorsOf(lobby[l]) =>
            \/ m_handler[c] = l
            \/ \E i \in DOMAIN mailbox[l] :
                   /\ mailbox[l][i].sender = c
                   /\ mailbox[l][i].type \in {"Disconnected", "Close"}

(***************************************************************************)
(* When all that a client has sent is handled and only the end of its      *)
(* connection is left, it leaves the room that m_handler is at and does    *)
(* not come back, although that room may not have seen its Init or Join    *)
(* yet.  This needs none of the conditions of HandlerFollows, with which   *)
(* that room is the only one.  It is so if the client has one place there  *)
(* at most: a Disconnected removes the first of two names it has joined    *)
(* under.                                                                  *)
(***************************************************************************)
Places(c, l) ==
    Cardinality({i \in DOMAIN lobby[l].players :
                     lobby[l].players[i].actor = c})
    + Cardinality({i \in DOMAIN mailbox[l] :
                     /\ mailbox[l][i].sender = c
                     /\ mailbox[l][i].type \in {"Init", "Join"}})

EndsAt(c, l) ==
    /\ upstream[c] = <<[type |-> "PeerClosed"]>>
    /\ m_handler[c] = l
    /\ Places(c, l) <= 1

DisconnectedLeave ==
    \A c \in Clients, l \in Lobbies : EndsAt(c, l) ~> Places(c, l) = 0

-----------------------------------------------------------------------------
(***************************************************************************)
(* The server implements RoomService.  The room of a name is what the      *)
(* actor holds that the directory has for it; what is on its way in        *)
(* mailboxes and sockets does not show.                                    *)
(***************************************************************************)
RoomOf(r) ==
    IF m_lobbies[r] = Null THEN [limits |-> Null, players |-> << >>]
    ELSE [limits |-> lobby[m_lobbies[r].handler].limits,
          players |-> lobby[m_lobbies[r].handler].players]

Service ==
    INSTANCE RoomService WITH
        MaxRooms <- LOBBIES_MAX_NUMBER,
        rooms <- [r \in RoomNames |-> RoomOf(r)]

(***************************************************************************)
(* Every step of the server is one step of one room, or none: an actor and *)
(* the directory, which it updates in the middle of its handlers, change   *)
(* as one, and no handler loses, swaps or duplicates a player.             *)
(***************************************************************************)
ImplementsRoomService == Service!Spec

-----------------------------------------------------------------------------
(***************************************************************************)
(* What the headers and the descriptor say and the code does not keep.     *)
(***************************************************************************)
AtRest(l) == Running(l) /\ mailbox[l] = << >>

(***************************************************************************)
(* RoomInfo.scala: playersNumber is the current number of players.  This   *)
(* is about a room with nothing left to handle, after EjectPlayer too.     *)
(***************************************************************************)
PlayersNumberCurrent ==
    \A r \in Registered :
        LET l == m_lobbies[r].handler
        IN AtRest(l) =>
            Len(m_lobbies[r].info.players) = Len(lobby[l].players)

(***************************************************************************)
(* Lobby.h: isHost returns true if the player is host in the current room. *)
(* This is about a player who has read everything his room has sent.       *)
(***************************************************************************)
HostKnows ==
    \A c \in Clients, l \in Lobbies :
        /\ api[c].mIsJoined
        /\ AtRest(l)
        /\ GetHost(lobby[l]).actor = c
        /\ downstream[c] = << >>
        => api[c].mIsHost

(***************************************************************************)
(* Lobby.h, reconfigure: in the case of success all players get            *)
(* onRoomUpdate with the new parameters.                                   *)
(***************************************************************************)
AllSeeLimits ==
    \A c \in Clients, l \in Lobbies :
        /\ api[c].mIsJoined
        /\ AtRest(l)
        /\ c \in ActorsOf(lobby[l])
        /\ downstream[c] = << >>
        => api[c].mMyRoom.limits = lobby[l].limits

=============================================================================
