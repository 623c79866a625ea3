----------------------------- MODULE LobbyActor -----------------------------
(***************************************************************************)
(* LobbyActor2 of LobbyActor2.scala: one actor per room.  An actor handles *)
(* the messages of its mailbox one at a time, in the order in which they   *)
(* were put there; what it forwards to itself goes to the end.  A handler  *)
(* is one action here: it touches the directory at most once and nothing   *)
(* else that another thread sees, apart from the messages it sends.        *)
(*                                                                         *)
(* Players are TCP connections.  What is written to one waits in           *)
(* downstream until the client reads it.                                   *)
(***************************************************************************)
EXTENDS Depot, SequencesExt

CONSTANT Clients  \* TCP connections, one C++ Lobby object each

VARIABLES
    lobby,       \* lobby[l]: phase and fields of the LobbyActor2 l
    mailbox,     \* mailbox[l]: messages waiting for l
    online,      \* online[c]: the server may still write to connection c
    downstream   \* downstream[c]: messages written to c and not yet read

lobbyVars == <<m_lobbies, lobby, mailbox, online, downstream>>

-----------------------------------------------------------------------------
(***************************************************************************)
(* Types.  Phase "initial" is receive, "running" and "zombie" are the      *)
(* behaviours the actor becomes; "unborn" and "stopped" are the actor      *)
(* before actorOf and after context stop self.                             *)
(***************************************************************************)
Flags == {"EJECTED", "JOINED", "LEFT", "NEW_HOST", "ROOM_CLOSED_BY_HOST"}

PlayerInfo == [actor : Clients, name : Names]

Phases == {"unborn", "initial", "running", "zombie", "stopped"}

LobbyState == [phase : Phases, name : RoomNames \cup {Null},
               limits : Limits \cup {Null}, players : Seq(PlayerInfo)]

Mail ==
    [type : {"Init"}, sender : Clients, name : Names, room : RoomNames,
     limits : Limits]
    \cup [type : {"Join", "EjectPlayer"}, sender : Clients, name : Names]
    \cup [type : {"Message"}, sender : Clients, name : Names,
          toSelf : BOOLEAN]
    \cup [type : {"Reconfigure"}, sender : Clients, limits : Limits]
    \cup [type : {"Close", "Disconnected", "LeaveRoom", "StartSession"},
          sender : Clients]
    \cup [type : {"Update"}, sender : Clients, name : Names,
          toSelf : BOOLEAN, flags : SUBSET Flags]

Notes ==
    [type : {"RoomInfo", "ReconfigureSucc"}, room : RoomInfos]
    \cup [type : {"Update"}, room : RoomInfos, name : Names,
          flags : SUBSET Flags]
    \cup [type : {"Ejected"}, flags : SUBSET Flags]
    \cup [type : {"ROOM_EXISTS", "ROOM_IS_FULL", "NAME_EXISTS", "SUCK",
                  "ReconfigureSuck", "SessionStarted", "Message"}]

Unborn == [phase |-> "unborn", name |-> Null, limits |-> Null,
           players |-> << >>]

Stopped == [Unborn EXCEPT !.phase = "stopped"]

LobbyTypeOK ==
    /\ DepotTypeOK
    /\ lobby \in [Lobbies -> LobbyState]
    /\ mailbox \in [Lobbies -> Seq(Mail)]
    /\ online \in [Clients -> BOOLEAN]
    /\ downstream \in [Clients -> Seq(Notes)]

LobbyInit ==
    /\ DepotInit
    /\ lobby = [l \in Lobbies |-> Unborn]
    /\ mailbox = [l \in Lobbies |-> << >>]
    /\ online = [c \in Clients |-> TRUE]
    /\ downstream = [c \in Clients |-> << >>]

-----------------------------------------------------------------------------
(***************************************************************************)
(* Sending.                                                                *)
(***************************************************************************)
Running(l) == lobby[l].phase = "running"

Alive(l) == lobby[l].phase \notin {"unborn", "stopped"}

(***************************************************************************)
(* What is sent to a stopped actor is a dead letter.                       *)
(***************************************************************************)
Enqueue(l, m) ==
    mailbox' = IF Alive(l) THEN [mailbox EXCEPT ![l] = Append(@, m)]
               ELSE mailbox

(***************************************************************************)
(* Tcp.Write: to one connection, or to those of the players at the         *)
(* positions to of a list (a connection that is listed twice gets it       *)
(* twice).  A closed connection drops what is written to it.               *)
(***************************************************************************)
Reply(c, note) ==
    downstream' = IF online[c]
                  THEN [downstream EXCEPT ![c] = Append(@, note)]
                  ELSE downstream

Copies(players, to, c) == Cardinality({i \in to : players[i].actor = c})

WriteTo(players, to, note) ==
    downstream' = [c \in Clients |->
        IF online[c]
        THEN downstream[c] \o [k \in 1..Copies(players, to, c) |-> note]
        ELSE downstream[c]]

Current(l) == Head(mailbox[l])

Gets(l, type) == mailbox[l] # << >> /\ Current(l).type = type

Handled(l) == mailbox' = [mailbox EXCEPT ![l] = Tail(@)]

(***************************************************************************)
(* self forward m: the sender of m is the sender of the current message.   *)
(***************************************************************************)
HandledAndForward(l, m) ==
    mailbox' = [mailbox EXCEPT ![l] = Append(Tail(@), m)]

(***************************************************************************)
(* context stop self: the rest of the mailbox is never handled.            *)
(***************************************************************************)
Shutdown(l) ==
    /\ lobby' = [lobby EXCEPT ![l] = Stopped]
    /\ mailbox' = [mailbox EXCEPT ![l] = << >>]

-----------------------------------------------------------------------------
(***************************************************************************)
(* The players of a room, in the order in which they came: the first one   *)
(* is the host.                                                            *)
(***************************************************************************)
ActorsOf(room) == {room.players[i].actor : i \in DOMAIN room.players}

NamesOf(room) == {room.players[i].name : i \in DOMAIN room.players}

GetHost(room) == Head(room.players)

(***************************************************************************)
(* Mutant: the host is the player, not the name of the player.             *)
(***************************************************************************)
MakeRoomInfoOfPlayer(room) ==
    [name |-> room.name, host |-> GetHost(room), limits |-> room.limits,
     players |-> [i \in DOMAIN room.players |-> room.players[i].name]]

MakeRoomInfo(room) ==
    [name |-> room.name, host |-> GetHost(room).name, limits |-> room.limits,
     players |-> [i \in DOMAIN room.players |-> room.players[i].name]]

(***************************************************************************)
(* The position m_players.find stops at, 0 when it finds nobody.           *)
(***************************************************************************)
IndexOfName(room, name) ==
    SelectInSeq(room.players, LAMBDA p : p.name = name)

IndexOfActor(room, c) ==
    SelectInSeq(room.players, LAMBDA p : p.actor = c)

(***************************************************************************)
(* Mutants: the new player becomes the host; one player too many.          *)
(***************************************************************************)
WithPlayerFirst(room, p) == [room EXCEPT !.players = <<p>> \o @]

HasPlaceOffByOne(room) == Len(room.players) <= Capacity(room.limits)

HasPlace(room) == Len(room.players) < Capacity(room.limits)

WithPlayer(room, p) == [room EXCEPT !.players = Append(@, p)]

WithoutPlayer(room, i) == [room EXCEPT !.players = RemoveAt(@, i)]

(***************************************************************************)
(* Mutant: the sender is never told, not even of an ejection.              *)
(***************************************************************************)
UpdateMailToOthers(sender, name, toSelf, flags) ==
    [type |-> "Update", sender |-> sender, name |-> name, toSelf |-> FALSE,
     flags |-> flags]

UpdateMail(sender, name, toSelf, flags) ==
    [type |-> "Update", sender |-> sender, name |-> name, toSelf |-> toSelf,
     flags |-> flags]

-----------------------------------------------------------------------------
(***************************************************************************)
(* receive: the only message handled before the room runs.                 *)
(***************************************************************************)
HandleInit(l) ==
    LET m == Current(l)
        room == [phase |-> "running", name |-> m.room, limits |-> m.limits,
                 players |-> <<[actor |-> m.sender, name |-> m.name]>>]
        info == MakeRoomInfo(room)
    IN
    /\ lobby[l].phase = "initial"
    /\ Gets(l, "Init")
    /\ RegisterLobby(l, info)
    /\ \/ /\ RegisterStatus(info) = "SUCC"
          /\ lobby' = [lobby EXCEPT ![l] = room]
          /\ Reply(m.sender, [type |-> "RoomInfo", room |-> info])
       \/ /\ RegisterStatus(info) # "SUCC"
          /\ lobby' = [lobby EXCEPT ![l] = [room EXCEPT !.phase = "zombie"]]
          /\ Reply(m.sender, [type |-> RegisterStatus(info)])
    /\ Handled(l)
    /\ UNCHANGED online

(***************************************************************************)
(* running, messages of players.                                           *)
(***************************************************************************)
HandleMessage(l) ==
    LET m == Current(l)
        players == lobby[l].players
        to == {i \in DOMAIN players : m.toSelf \/ players[i].name # m.name}
    IN
    /\ Running(l)
    /\ Gets(l, "Message")
    /\ WriteTo(players, to, [type |-> "Message"])
    /\ Handled(l)
    /\ UNCHANGED <<m_lobbies, lobby, online>>

(***************************************************************************)
(* The actor blocks in Await until the back end has answered with a        *)
(* session id or -1, or FUTURE_TIMEOUT has passed.  It handles nothing     *)
(* meanwhile.                                                              *)
(***************************************************************************)
HandleStartSession(l) ==
    LET players == lobby[l].players IN
    /\ Running(l)
    /\ Gets(l, "StartSession")
    /\ \/ WriteTo(players, DOMAIN players, [type |-> "SessionStarted"])
       \/ Reply(Current(l).sender, [type |-> "SUCK"])
    /\ Handled(l)
    /\ UNCHANGED <<m_lobbies, lobby, online>>

(***************************************************************************)
(* The directory is not told of the player that goes.                      *)
(***************************************************************************)
HandleEjectPlayer(l) ==
    LET m == Current(l)
        room == lobby[l]
        i == IndexOfName(room, m.name)
        ejects == /\ GetHost(room).actor = m.sender
                  /\ GetHost(room).name # m.name
                  /\ i # 0
    IN
    /\ Running(l)
    /\ Gets(l, "EjectPlayer")
    /\ \/ /\ ejects
          /\ Reply(room.players[i].actor,
                   [type |-> "Ejected", flags |-> {"EJECTED"}])
          /\ lobby' = [lobby EXCEPT ![l] = WithoutPlayer(room, i)]
          /\ HandledAndForward(l, UpdateMail(m.sender, m.name, TRUE, {"LEFT"}))
       \/ /\ ~ejects
          /\ Handled(l)
          /\ UNCHANGED <<lobby, downstream>>
    /\ UNCHANGED <<m_lobbies, online>>

HandleReconfigure(l) ==
    LET m == Current(l)
        room == [lobby[l] EXCEPT !.limits = m.limits]
        info == MakeRoomInfo(room)
    IN
    /\ Running(l)
    /\ Gets(l, "Reconfigure")
    /\ \/ /\ GetHost(room).actor # m.sender
          /\ UNCHANGED <<m_lobbies, lobby, downstream>>
       \/ /\ GetHost(room).actor = m.sender
          /\ Len(room.players) > Capacity(m.limits)
          /\ Reply(m.sender, [type |-> "ReconfigureSuck"])
          /\ UNCHANGED <<m_lobbies, lobby>>
       \/ /\ GetHost(room).actor = m.sender
          /\ Len(room.players) <= Capacity(m.limits)
          /\ lobby' = [lobby EXCEPT ![l] = room]
          /\ UpdateRoomInfo(room.name, info)
          /\ WriteTo(room.players, DOMAIN room.players,
                     [type |-> "ReconfigureSucc", room |-> info])
    /\ Handled(l)
    /\ UNCHANGED online

(***************************************************************************)
(* The departure itself is a message of its own, behind what is waiting.   *)
(***************************************************************************)
HandleLeaveRoom(l) ==
    /\ Running(l)
    /\ Gets(l, "LeaveRoom")
    /\ HandledAndForward(l, [type |-> "Disconnected",
                             sender |-> Current(l).sender])
    /\ UNCHANGED <<m_lobbies, lobby, online, downstream>>

(***************************************************************************)
(* running, messages of the Client actors and of the lobby itself.         *)
(* The room that is sent is the room of now, not the one the Update was    *)
(* made for.                                                               *)
(***************************************************************************)
HandleUpdate(l) ==
    LET m == Current(l)
        room == lobby[l]
        to == {i \in DOMAIN room.players :
                  m.toSelf \/ room.players[i].actor # m.sender}
    IN
    /\ Running(l)
    /\ Gets(l, "Update")
    /\ WriteTo(room.players, to,
               [type |-> "Update", room |-> MakeRoomInfo(room),
                name |-> m.name, flags |-> m.flags])
    /\ Handled(l)
    /\ UNCHANGED <<m_lobbies, lobby, online>>

HandleJoin(l) ==
    LET m == Current(l)
        joined == WithPlayer(lobby[l], [actor |-> m.sender, name |-> m.name])
        info == MakeRoomInfo(joined)
        isNew == m.name \notin NamesOf(lobby[l])
    IN
    /\ Running(l)
    /\ Gets(l, "Join")
    /\ \/ /\ HasPlace(lobby[l]) /\ isNew
          /\ lobby' = [lobby EXCEPT ![l] = joined]
          /\ UpdateRoomInfo(joined.name, info)
          /\ Reply(m.sender, [type |-> "RoomInfo", room |-> info])
          /\ HandledAndForward(l, UpdateMail(m.sender, m.name, FALSE,
                                              {"JOINED"}))
       \/ /\ HasPlace(lobby[l]) /\ ~isNew
          /\ Reply(m.sender, [type |-> "NAME_EXISTS"])
          /\ Handled(l)
          /\ UNCHANGED <<m_lobbies, lobby>>
       \/ /\ ~HasPlace(lobby[l])
          /\ Reply(m.sender, [type |-> "ROOM_IS_FULL"])
          /\ Handled(l)
          /\ UNCHANGED <<m_lobbies, lobby>>
    /\ UNCHANGED online

(***************************************************************************)
(* A player leaves or loses its connection.  The last one takes the room   *)
(* with him.                                                               *)
(***************************************************************************)
HandleDisconnected(l) ==
    LET m == Current(l)
        room == lobby[l]
        i == IndexOfActor(room, m.sender)
        left == WithoutPlayer(room, i)
        flags == {"LEFT"} \cup (IF i = 1 THEN {"NEW_HOST"} ELSE {})
    IN
    /\ Running(l)
    /\ Gets(l, "Disconnected")
    /\ \/ /\ i = 0
          /\ Handled(l)
          /\ UNCHANGED <<m_lobbies, lobby>>
       \/ /\ i # 0
          /\ left.players # << >>
          /\ lobby' = [lobby EXCEPT ![l] = left]
          /\ UpdateRoomInfo(room.name, MakeRoomInfo(left))
          /\ HandledAndForward(l, UpdateMail(m.sender, room.players[i].name,
                                             FALSE, flags))
       \/ /\ i # 0
          /\ left.players = << >>
          /\ UnregisterLobby(room.name)
          /\ Shutdown(l)
    /\ UNCHANGED <<online, downstream>>

(***************************************************************************)
(* Close does not look at who sent it.                                     *)
(***************************************************************************)
HandleClose(l) ==
    /\ Running(l)
    /\ Gets(l, "Close")
    /\ WriteTo(lobby[l].players, DOMAIN lobby[l].players,
               [type |-> "Ejected",
                flags |-> {"EJECTED", "ROOM_CLOSED_BY_HOST"}])
    /\ UnregisterLobby(lobby[l].name)
    /\ Shutdown(l)
    /\ UNCHANGED online

(***************************************************************************)
(* zombie: the room could not be registered.                               *)
(***************************************************************************)
HandleAsZombie(l) ==
    /\ lobby[l].phase = "zombie"
    /\ mailbox[l] # << >>
    /\ \/ /\ Gets(l, "Disconnected")
          /\ Shutdown(l)
       \/ /\ ~Gets(l, "Disconnected")
          /\ Handled(l)
          /\ UNCHANGED lobby
    /\ UNCHANGED <<m_lobbies, online, downstream>>

LobbyActorStep(l) ==
    \/ HandleInit(l)
    \/ HandleMessage(l)
    \/ HandleStartSession(l)
    \/ HandleEjectPlayer(l)
    \/ HandleReconfigure(l)
    \/ HandleLeaveRoom(l)
    \/ HandleUpdate(l)
    \/ HandleJoin(l)
    \/ HandleDisconnected(l)
    \/ HandleClose(l)
    \/ HandleAsZombie(l)

=============================================================================
