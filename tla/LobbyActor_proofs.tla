------------------------- MODULE LobbyActor_proofs --------------------------
(***************************************************************************)
(* What the handlers of LobbyActor2 keep true: types and directory,        *)
(* handler by handler (ServerSound), and the ways in which a room changes  *)
(* (RoomTransition). LobbySystem_proofs builds the theorems on these       *)
(* lemmas.                                                                 *)
(***************************************************************************)
EXTENDS LobbySystem, TLAPS, SequenceTheorems, FiniteSetTheorems,
        WellFoundedInduction

(***************************************************************************)
(* A set of naturals that is not empty has a least element.                *)
(***************************************************************************)
LEMMA NatMin ==
    ASSUME NEW T \in SUBSET Nat, T # {}
    PROVE  \E x \in T : \A y \in T : x <= y
<1>1. \E x \in T : \A y \in T : ~(<<y, x>> \in OpToRel(<, Nat))
  BY NatLessThanWellFounded, WFMin, Zenon
<1>2. ASSUME NEW x \in Nat, NEW y \in Nat, ~(<<y, x>> \in OpToRel(<, Nat))
      PROVE x <= y
  BY <1>2 DEF OpToRel
<1> QED BY <1>1, <1>2

(***************************************************************************)
(* The position found by m_players.find is a position of a player on that  *)
(* connection, or 0.                                                       *)
(***************************************************************************)
LEMMA IndexOfActorType ==
    ASSUME NEW room \in LobbyState, NEW c \in Clients
    PROVE  /\ IndexOfActor(room, c) \in 0..Len(room.players)
           /\ IndexOfActor(room, c) # 0 =>
                 room.players[IndexOfActor(room, c)].actor = c
<1> DEFINE I == {i \in 1..Len(room.players) : room.players[i].actor = c}
<1>1. IndexOfActor(room, c) = IF I # {} THEN Min(I) ELSE 0
  BY DEF IndexOfActor, SelectInSeq
<1>2. Len(room.players) \in Nat
  BY DEF LobbyState
<1>3. CASE I # {}
  <2>0. I \in SUBSET Nat
    BY <1>2
  <2>1. PICK x \in I : \A y \in I : x <= y
    BY <2>0, <1>3, NatMin, Zenon
  <2>2. Min(I) \in I
    BY <2>1 DEF Min
  <2> QED BY <1>1, <1>2, <1>3, <2>2
<1>4. CASE I = {}
  BY <1>1, <1>2, <1>4
<1> QED BY <1>3, <1>4

(***************************************************************************)
(* Taking a player out of a room keeps the others, in their order.         *)
(***************************************************************************)
LEMMA WithoutPlayerType ==
    ASSUME NEW room \in LobbyState, NEW i \in 1..Len(room.players)
    PROVE  /\ WithoutPlayer(room, i) \in LobbyState
           /\ Len(WithoutPlayer(room, i).players) = Len(room.players) - 1
           /\ WithoutPlayer(room, i).name = room.name
           /\ WithoutPlayer(room, i).phase = room.phase
           /\ WithoutPlayer(room, i).limits = room.limits
           /\ \A j \in 1..Len(WithoutPlayer(room, i).players) :
                WithoutPlayer(room, i).players[j] = 
                   IF j < i THEN room.players[j] ELSE room.players[j+1]
<1> DEFINE s == room.players
<1>1. s \in Seq(PlayerInfo) /\ Len(s) \in Nat
  BY DEF LobbyState
<1>2. RemoveAt(s, i) = SubSeq(s, 1, i-1) \o SubSeq(s, i+1, Len(s))
  BY DEF RemoveAt
<1>3. /\ SubSeq(s, 1, i-1) \in Seq(PlayerInfo)
      /\ SubSeq(s, i+1, Len(s)) \in Seq(PlayerInfo)
      /\ Len(SubSeq(s, 1, i-1)) = i - 1
      /\ Len(SubSeq(s, i+1, Len(s))) = Len(s) - i
      /\ \A j \in 1..(i-1) : SubSeq(s, 1, i-1)[j] = s[j]
      /\ \A j \in 1..(Len(s) - i) : SubSeq(s, i+1, Len(s))[j] = s[i+j]
  BY <1>1
<1>4. /\ RemoveAt(s, i) \in Seq(PlayerInfo)
      /\ Len(RemoveAt(s, i)) = Len(s) - 1
      /\ \A j \in 1..Len(RemoveAt(s, i)) :
            RemoveAt(s,i)[j] = IF j < i THEN s[j] ELSE s[j+1]
  <2> DEFINE a == SubSeq(s, 1, i-1)
             b == SubSeq(s, i+1, Len(s))
  <2> HIDE DEF s
  <2>1. /\ a \in Seq(PlayerInfo) /\ b \in Seq(PlayerInfo)
        /\ Len(a) = i - 1 /\ Len(b) = Len(s) - i
        /\ \A j \in 1..(i-1) : a[j] = s[j]
        /\ \A j \in 1..(Len(s) - i) : b[j] = s[i+j]
    BY <1>3
  <2> HIDE DEF a, b
  <2>2. /\ a \o b \in Seq(PlayerInfo)
        /\ Len(a \o b) = Len(a) + Len(b)
        /\ \A j \in 1..(Len(a)+Len(b)) : (a \o b)[j] =
              IF j <= Len(a) THEN a[j] ELSE b[j - Len(a)]
    BY <2>1, ConcatProperties
  <2>3. RemoveAt(s, i) = a \o b
    BY <1>2 DEF a, b
  <2>4. i \in Nat /\ Len(s) \in Nat
    BY <1>1
  <2>5. Len(a \o b) = Len(s) - 1
    BY <2>1, <2>2, <2>4
  <2>6. ASSUME NEW j \in 1..(Len(s) - 1)
        PROVE (a \o b)[j] = IF j < i THEN s[j] ELSE s[j+1]
    <3>1. CASE j < i
      BY <2>1, <2>2, <2>4, <3>1
    <3>2. CASE ~(j < i)
      <4>1. (a \o b)[j] = b[j - (i - 1)]
        BY <2>1, <2>2, <2>4, <3>2
      <4>2. j - (i - 1) \in 1..(Len(s) - i) /\ i + (j - (i - 1)) = j + 1
        BY <2>4, <3>2
      <4> QED BY <2>1, <4>1, <4>2, <3>2
    <3> QED BY <3>1, <3>2
  <2> QED BY <2>2, <2>3, <2>5, <2>6
<1>5. WithoutPlayer(room, i) = [room EXCEPT !.players = RemoveAt(s, i)]
  BY DEF WithoutPlayer
<1> HIDE DEF s
<1> QED BY <1>4, <1>5 DEF LobbyState, s

(***************************************************************************)
(* The descriptor made of a room with a host is a RoomInfo of that room.   *)
(***************************************************************************)
LEMMA MakeRoomInfoType ==
    ASSUME NEW room \in LobbyState, room.name # Null, room.limits # Null,
           room.players # << >>
    PROVE  /\ MakeRoomInfo(room) \in RoomInfos
           /\ MakeRoomInfo(room).name = room.name
<1> DEFINE names == [i \in DOMAIN room.players |-> room.players[i].name]
<1>1. /\ room.players \in Seq(PlayerInfo)
      /\ room.name \in RoomNames
      /\ room.limits \in Limits
  BY DEF LobbyState
<1>2. names \in Seq(Names)
  <2>1. DOMAIN room.players = 1..Len(room.players) /\ Len(room.players) \in Nat
    BY <1>1
  <2>2. ASSUME NEW i \in 1..Len(room.players)
        PROVE  room.players[i].name \in Names
    <3>1. room.players[i] \in PlayerInfo
      BY <1>1, ElementOfSeq
    <3> QED BY <3>1 DEF PlayerInfo
  <2>3. [i \in 1..Len(room.players) |-> room.players[i].name] \in Seq(Names)
    BY <2>1, <2>2
  <2>4. names = [i \in 1..Len(room.players) |-> room.players[i].name]
    BY <2>1
  <2> HIDE DEF names
  <2> QED BY <2>3, <2>4
<1>3. GetHost(room).name \in Names
  <2>1. Head(room.players) \in PlayerInfo
    BY <1>1, HeadTailProperties
  <2> QED BY <2>1 DEF GetHost, PlayerInfo
<1> HIDE DEF names
<1>4. MakeRoomInfo(room) = [name |-> room.name, host |-> GetHost(room).name,
                            limits |-> room.limits, players |-> names]
  BY DEF MakeRoomInfo, names
<1> QED BY <1>1, <1>2, <1>3, <1>4 DEF RoomInfos

(***************************************************************************)
(* The same for the search by name.                                        *)
(***************************************************************************)
LEMMA IndexOfNameType ==
    ASSUME NEW room \in LobbyState, NEW name \in Names
    PROVE  /\ IndexOfName(room, name) \in 0..Len(room.players)
           /\ IndexOfName(room, name) # 0 =>
                 room.players[IndexOfName(room, name)].name = name
<1> DEFINE I == {i \in 1..Len(room.players) : room.players[i].name = name}
<1>1. IndexOfName(room, name) = IF I # {} THEN Min(I) ELSE 0
  BY DEF IndexOfName, SelectInSeq
<1>2. Len(room.players) \in Nat
  BY DEF LobbyState
<1>3. CASE I # {}
  <2>0. I \in SUBSET Nat
    BY <1>2
  <2>1. PICK x \in I : \A y \in I : x <= y
    BY <2>0, <1>3, NatMin, Zenon
  <2>2. Min(I) \in I
    BY <2>1 DEF Min
  <2> QED BY <1>1, <1>2, <1>3, <2>2
<1>4. CASE I = {}
  BY <1>1, <1>2, <1>4
<1> QED BY <1>3, <1>4

(***************************************************************************)
(* The fields that a message of a lobby actor has.                         *)
(***************************************************************************)
LEMMA MailFields ==
    ASSUME NEW m \in Mail
    PROVE  /\ m.sender \in Clients
           /\ m.type \in {"Init", "Join", "EjectPlayer", "Message", "Update"}
                => m.name \in Names
           /\ m.type = "Init" => m.room \in RoomNames
           /\ m.type \in {"Init", "Reconfigure"} => m.limits \in Limits
           /\ m.type = "Update" => m.flags \in SUBSET Flags
BY DEF Mail

(***************************************************************************)
(* The fields that a request of a connection has.                          *)
(***************************************************************************)
LEMMA RequestFields ==
    ASSUME NEW r \in Requests
    PROVE  /\ r.type \in {"CreateRoom", "JoinRoom"} => r.name \in Names
           /\ r.type \in {"CreateRoom", "JoinRoom", "Envelop"}
                => r.room \in RoomNames
           /\ r.type = "CreateRoom" => r.limits \in Limits
           /\ r.type = "Envelop" => r.mail \in Mail
BY DEF Requests

(***************************************************************************)
(* The messages to a client that carry a room.                             *)
(***************************************************************************)
LEMMA NoteFields ==
    ASSUME NEW n \in Notes
    PROVE  n.type \in {"RoomInfo", "ReconfigureSucc", "Update"}
               => n.room \in RoomInfos
BY DEF Notes

(***************************************************************************)
(* The message being handled, and those that wait behind it.               *)
(***************************************************************************)
LEMMA CurrentType ==
    ASSUME LobbyTypeOK, NEW l \in Lobbies, mailbox[l] # << >>
    PROVE  /\ Current(l) \in Mail
           /\ Tail(mailbox[l]) \in Seq(Mail)
BY HeadTailProperties DEF LobbyTypeOK, Current

(***************************************************************************)
(* Taking the current message keeps the type of the mailboxes.             *)
(***************************************************************************)
LEMMA HandledType ==
    ASSUME LobbyTypeOK, NEW l \in Lobbies, mailbox[l] # << >>, Handled(l)
    PROVE  mailbox' \in [Lobbies -> Seq(Mail)]
BY CurrentType DEF LobbyTypeOK, Handled

(***************************************************************************)
(* So does taking it and forwarding one to self.                           *)
(***************************************************************************)
LEMMA HandledAndForwardType ==
    ASSUME LobbyTypeOK, NEW l \in Lobbies, mailbox[l] # << >>,
           NEW m \in Mail, HandledAndForward(l, m)
    PROVE  mailbox' \in [Lobbies -> Seq(Mail)]
BY CurrentType, AppendProperties DEF LobbyTypeOK, HandledAndForward

(***************************************************************************)
(* So does sending a message to a lobby actor.                             *)
(***************************************************************************)
LEMMA EnqueueType ==
    ASSUME LobbyTypeOK, NEW l \in Lobbies, NEW m \in Mail, Enqueue(l, m)
    PROVE  mailbox' \in [Lobbies -> Seq(Mail)]
<1>1. Append(mailbox[l], m) \in Seq(Mail)
  BY AppendProperties DEF LobbyTypeOK
<1> QED BY <1>1 DEF LobbyTypeOK, Enqueue

(***************************************************************************)
(* Writing to one connection keeps the type of downstream.                 *)
(***************************************************************************)
LEMMA ReplyType ==
    ASSUME LobbyTypeOK, NEW c \in Clients, NEW note \in Notes, Reply(c, note)
    PROVE  downstream' \in [Clients -> Seq(Notes)]
<1>1. Append(downstream[c], note) \in Seq(Notes)
  BY AppendProperties DEF LobbyTypeOK
<1> QED BY <1>1 DEF LobbyTypeOK, Reply

(***************************************************************************)
(* So does writing to the players at some positions of a list.             *)
(***************************************************************************)
LEMMA WriteToType ==
    ASSUME LobbyTypeOK, NEW players \in Seq(PlayerInfo),
           NEW to \in SUBSET (DOMAIN players), NEW note \in Notes,
           WriteTo(players, to, note)
    PROVE  downstream' \in [Clients -> Seq(Notes)]
<1>1. ASSUME NEW c \in Clients
      PROVE  downstream[c] \o [k \in 1..Copies(players, to, c) |-> note]
                 \in Seq(Notes)
  <2>1. Copies(players, to, c) \in Nat
    <3>1. IsFiniteSet(1..Len(players))
      BY FS_Interval
    <3>2. {i \in to : players[i].actor = c} \subseteq 1..Len(players)
      OBVIOUS
    <3> QED BY <3>1, <3>2, FS_Subset, FS_CardinalityType DEF Copies
  <2>2. [k \in 1..Copies(players, to, c) |-> note] \in Seq(Notes)
    BY <2>1
  <2> QED BY <2>2, ConcatProperties DEF LobbyTypeOK
<1> QED BY <1>1 DEF LobbyTypeOK, WriteTo

(***************************************************************************)
(* A call of the API that sends keeps the type of upstream.                *)
(***************************************************************************)
LEMMA SendType ==
    ASSUME ClientTypeOK, NEW c \in Clients, NEW r \in Requests, Send(c, r)
    PROVE  upstream' \in [Clients -> Seq(Requests)]
<1>1. Append(upstream[c], r) \in Seq(Requests)
  BY AppendProperties DEF ClientTypeOK
<1> QED BY <1>1 DEF ClientTypeOK, Send

(***************************************************************************)
(* So does the Client actor taking a request.                              *)
(***************************************************************************)
LEMMA TakenType ==
    ASSUME ClientTypeOK, NEW c \in Clients, upstream[c] # << >>, Taken(c)
    PROVE  upstream' \in [Clients -> Seq(Requests)]
<1>1. Tail(upstream[c]) \in Seq(Requests)
  BY HeadTailProperties DEF ClientTypeOK
<1> QED BY <1>1 DEF ClientTypeOK, Taken

(***************************************************************************)
(* What the Client actor takes is a request.                               *)
(***************************************************************************)
LEMMA RequestType ==
    ASSUME ClientTypeOK, NEW c \in Clients, upstream[c] # << >>
    PROVE  Request(c) \in Requests
BY HeadTailProperties DEF ClientTypeOK, Request

-----------------------------------------------------------------------------
(***************************************************************************)
(* Every message the handlers write is of type Notes.                      *)
(***************************************************************************)
LEMMA NotesWritten ==
    /\ \A info \in RoomInfos :
        /\ [type |-> "RoomInfo", room |-> info] \in Notes
        /\ [type |-> "ReconfigureSucc", room |-> info] \in Notes
        /\ \A name \in Names, flags \in SUBSET Flags :
            [type |-> "Update", room |-> info, name |-> name,
             flags |-> flags] \in Notes
    /\ \A flags \in SUBSET Flags :
        [type |-> "Ejected", flags |-> flags] \in Notes
    /\ \A type \in {"ROOM_EXISTS", "ROOM_IS_FULL", "NAME_EXISTS", "SUCK",
                    "ReconfigureSuck", "SessionStarted", "Message"} :
        [type |-> type] \in Notes
BY DEF Notes

(***************************************************************************)
(* Every message that is forwarded or made for a lobby is of type Mail.    *)
(***************************************************************************)
LEMMA MailForwarded ==
    ASSUME NEW c \in Clients
    PROVE  /\ [type |-> "Disconnected", sender |-> c] \in Mail
           /\ [type |-> "Close", sender |-> c] \in Mail
           /\ \A name \in Names :
               [type |-> "Join", sender |-> c, name |-> name] \in Mail
           /\ \A name \in Names, toSelf \in BOOLEAN, flags \in SUBSET Flags :
               UpdateMail(c, name, toSelf, flags) \in Mail
BY DEF Mail, UpdateMail

(***************************************************************************)
(* registerLobby adds the entry of the new room, and no other, when it     *)
(* answers SUCC, and changes nothing otherwise.                            *)
(***************************************************************************)
LEMMA RegisterType ==
    ASSUME DepotTypeOK, NEW l \in Lobbies, NEW info \in RoomInfos,
           RegisterLobby(l, info)
    PROVE  /\ DepotTypeOK'
           /\ RegisterStatus(info) = "SUCC" =>
                /\ info.name \in RoomNames \ Registered
                /\ Registered' = Registered \cup {info.name}
                /\ m_lobbies'[info.name].handler = l
                /\ \A r \in Registered : m_lobbies'[r] = m_lobbies[r]
           /\ RegisterStatus(info) # "SUCC" => m_lobbies' = m_lobbies
<1> DEFINE stats == [handler |-> l, info |-> info]
<1>1. stats \in LobbyStats /\ stats.handler = l /\ info.name \in RoomNames
  BY DEF LobbyStats, RoomInfos
<1>2. stats # Null
  BY <1>1, NullAssumption
<1>3. CASE RegisterStatus(info) = "SUCC"
  <2>1. info.name \notin Registered
    BY <1>3 DEF RegisterStatus
  <2>2. m_lobbies' = [m_lobbies EXCEPT ![info.name] = stats]
    BY <1>3 DEF RegisterLobby
  <2> HIDE DEF stats
  <2> QED BY <1>1, <1>2, <1>3, <2>1, <2>2 DEF DepotTypeOK, Registered
<1>4. CASE RegisterStatus(info) # "SUCC"
  BY <1>4 DEF RegisterLobby, DepotTypeOK
<1> QED BY <1>3, <1>4

(***************************************************************************)
(* updateRoomInfo neither adds nor removes an entry, and keeps every       *)
(* handler.                                                                *)
(***************************************************************************)
LEMMA UpdateRoomInfoType ==
    ASSUME DepotTypeOK, NEW room \in RoomNames, NEW info \in RoomInfos,
           UpdateRoomInfo(room, info)
    PROVE  /\ DepotTypeOK'
           /\ Registered' = Registered
           /\ \A r \in Registered :
                m_lobbies'[r].handler = m_lobbies[r].handler
<1>1. CASE m_lobbies[room] = Null
  BY <1>1 DEF UpdateRoomInfo, DepotTypeOK, Registered
<1>2. CASE m_lobbies[room] # Null
  <2> DEFINE stats == [m_lobbies[room] EXCEPT !.info = info]
  <2>1. m_lobbies[room] \in LobbyStats
    BY <1>2 DEF DepotTypeOK
  <2>2. stats \in LobbyStats /\ stats.handler = m_lobbies[room].handler
    BY <2>1 DEF LobbyStats
  <2>3. stats # Null
    BY <2>2, NullAssumption
  <2>4. m_lobbies' = [m_lobbies EXCEPT ![room] = stats]
    BY <1>2 DEF UpdateRoomInfo
  <2> HIDE DEF stats
  <2> QED BY <1>2, <2>2, <2>3, <2>4 DEF DepotTypeOK, Registered
<1> QED BY <1>1, <1>2

-----------------------------------------------------------------------------
(***************************************************************************)
(* The part of RoomsSound that the handlers rely on.                       *)
(***************************************************************************)
RoomsFilled ==
    \A l \in Lobbies :
        Running(l) => /\ lobby[l].name # Null
                      /\ lobby[l].limits # Null
                      /\ lobby[l].players # << >>

(***************************************************************************)
(* The inductive invariant of the lobby actors and the directory.          *)
(***************************************************************************)
ServerSound == LobbyTypeOK /\ RoomsFilled /\ DirectoryExact

(***************************************************************************)
(* What the invariant says of a running room: the directory leads to it.   *)
(***************************************************************************)
LEMMA RunningRoom ==
    ASSUME ServerSound, NEW l \in Lobbies, Running(l)
    PROVE  /\ lobby[l] \in LobbyState
           /\ lobby[l].phase = "running"
           /\ lobby[l].name \in Registered
           /\ m_lobbies[lobby[l].name].handler = l
           /\ lobby[l].players \in Seq(PlayerInfo)
           /\ MakeRoomInfo(lobby[l]) \in RoomInfos
<1>1. lobby[l] \in LobbyState /\ lobby[l].phase = "running"
  BY DEF ServerSound, LobbyTypeOK, Running
<1>2. lobby[l].name \in Registered /\ m_lobbies[lobby[l].name].handler = l
  BY DEF ServerSound, DirectoryExact
<1>3. MakeRoomInfo(lobby[l]) \in RoomInfos
  BY <1>1, MakeRoomInfoType DEF ServerSound, RoomsFilled
<1> QED BY <1>1, <1>2, <1>3 DEF LobbyState

(***************************************************************************)
(* A running room that changes, but keeps its name and some players, keeps *)
(* the directory exact.                                                    *)
(***************************************************************************)
LEMMA RoomChanged ==
    ASSUME ServerSound, NEW l \in Lobbies, Running(l),
           NEW room \in LobbyState,
           room.phase = "running", room.name = lobby[l].name,
           room.limits # Null, room.players # << >>,
           lobby' = [lobby EXCEPT ![l] = room],
           Registered' = Registered,
           \A r \in Registered : m_lobbies'[r].handler = m_lobbies[r].handler
    PROVE  /\ lobby' \in [Lobbies -> LobbyState]
           /\ RoomsFilled'
           /\ DirectoryExact'
<1>1. lobby \in [Lobbies -> LobbyState]
  BY DEF ServerSound, LobbyTypeOK
<1>2. lobby' \in [Lobbies -> LobbyState]
  BY <1>1
<1>3. /\ lobby'[l] = room
      /\ \A k \in Lobbies \ {l} : lobby'[k] = lobby[k]
  BY <1>1
<1>4. \A k \in Lobbies :
        /\ Running(k)' <=> Running(k)
        /\ Running(k) => lobby'[k].name = lobby[k].name
  BY <1>3 DEF Running
<1>5. RoomsFilled'
  BY <1>3 DEF ServerSound, RoomsFilled, Running
<1>6. \A r \in Registered : m_lobbies[r].handler \in Lobbies
  BY DEF ServerSound, LobbyTypeOK, DepotTypeOK, LobbyStats, Registered
<1>7. DirectoryExact'
  BY <1>4, <1>6 DEF ServerSound, DirectoryExact
<1> QED BY <1>2, <1>5, <1>7

(***************************************************************************)
(* So does a running room that unregisters its name and stops: no other    *)
(* running room has that name.                                             *)
(***************************************************************************)
LEMMA RoomGone ==
    ASSUME ServerSound, NEW l \in Lobbies, Running(l),
           UnregisterLobby(lobby[l].name), Shutdown(l)
    PROVE  /\ DepotTypeOK'
           /\ lobby' \in [Lobbies -> LobbyState]
           /\ mailbox' \in [Lobbies -> Seq(Mail)]
           /\ RoomsFilled'
           /\ DirectoryExact'
<1>1. /\ lobby \in [Lobbies -> LobbyState]
      /\ mailbox \in [Lobbies -> Seq(Mail)]
      /\ m_lobbies \in [RoomNames -> LobbyStats \cup {Null}]
  BY DEF ServerSound, LobbyTypeOK, DepotTypeOK
<1>2. Stopped \in LobbyState /\ Stopped.phase = "stopped"
  <2>1. Stopped = [phase |-> "stopped", name |-> Null, limits |-> Null,
                   players |-> << >>]
    BY DEF Stopped, Unborn
  <2>2. << >> \in Seq(PlayerInfo)
    OBVIOUS
  <2> QED BY <2>1, <2>2 DEF LobbyState, Phases
<1>3. /\ lobby' \in [Lobbies -> LobbyState]
      /\ lobby'[l].phase = "stopped"
      /\ \A k \in Lobbies \ {l} : lobby'[k] = lobby[k]
  BY <1>1, <1>2 DEF Shutdown
<1>4. mailbox' \in [Lobbies -> Seq(Mail)]
  BY <1>1 DEF Shutdown
<1>5. /\ lobby[l].name \in Registered
      /\ m_lobbies[lobby[l].name].handler = l
  BY RunningRoom
<1>6. /\ DepotTypeOK'
      /\ Registered' = Registered \ {lobby[l].name}
      /\ \A r \in Registered' : m_lobbies'[r] = m_lobbies[r]
  BY <1>1, <1>5 DEF UnregisterLobby, DepotTypeOK, Registered
<1>7. \A k \in Lobbies : Running(k)' => Running(k) /\ k # l
  BY <1>3 DEF Running
<1>8. RoomsFilled'
  BY <1>3, <1>7 DEF ServerSound, RoomsFilled
<1>9. ASSUME NEW r \in Registered'
      PROVE  /\ lobby'[m_lobbies'[r].handler].phase = "running"
             /\ lobby'[m_lobbies'[r].handler].name = r
  <2>1. r \in Registered /\ r # lobby[l].name /\ m_lobbies'[r] = m_lobbies[r]
    BY <1>6
  <2>2. /\ m_lobbies[r].handler \in Lobbies
        /\ Running(m_lobbies[r].handler)
        /\ lobby[m_lobbies[r].handler].name = r
    BY <1>1, <2>1 DEF ServerSound, DirectoryExact, Registered, LobbyStats
  <2>3. m_lobbies[r].handler # l
    BY <2>1, <2>2
  <2> QED BY <1>3, <2>1, <2>2, <2>3 DEF Running
<1>10. ASSUME NEW k \in Lobbies, Running(k)'
       PROVE  /\ lobby'[k].name \in Registered'
              /\ m_lobbies'[lobby'[k].name].handler = k
  <2>1. Running(k) /\ k # l /\ lobby'[k] = lobby[k]
    BY <1>3, <1>7, <1>10
  <2>2. lobby[k].name \in Registered /\ m_lobbies[lobby[k].name].handler = k
    BY <2>1, RunningRoom
  <2>3. lobby[k].name # lobby[l].name
    BY <1>5, <2>1, <2>2
  <2> QED BY <1>6, <2>1, <2>2, <2>3
<1>11. DirectoryExact'
  BY <1>9, <1>10 DEF DirectoryExact, Running
<1> QED BY <1>3, <1>4, <1>6, <1>8, <1>11

(***************************************************************************)
(* So does an actor that was not running and does not start to.            *)
(***************************************************************************)
LEMMA RoomIdle ==
    ASSUME ServerSound, NEW l \in Lobbies, ~Running(l),
           NEW room \in LobbyState, room.phase # "running",
           lobby' = [lobby EXCEPT ![l] = room],
           m_lobbies' = m_lobbies
    PROVE  /\ lobby' \in [Lobbies -> LobbyState]
           /\ DepotTypeOK'
           /\ RoomsFilled'
           /\ DirectoryExact'
<1>1. lobby \in [Lobbies -> LobbyState]
  BY DEF ServerSound, LobbyTypeOK
<1>2. /\ lobby' \in [Lobbies -> LobbyState]
      /\ lobby'[l] = room
      /\ \A k \in Lobbies \ {l} : lobby'[k] = lobby[k]
  BY <1>1
<1>3. \A k \in Lobbies :
        /\ Running(k)' <=> Running(k)
        /\ Running(k) => lobby'[k] = lobby[k]
  BY <1>2 DEF Running
<1>4. Registered' = Registered
  BY DEF Registered
<1>5. RoomsFilled'
  BY <1>3 DEF ServerSound, RoomsFilled
<1>6. \A r \in Registered : m_lobbies[r].handler \in Lobbies
  BY DEF ServerSound, LobbyTypeOK, DepotTypeOK, LobbyStats, Registered
<1>7. DirectoryExact'
  BY <1>3, <1>4, <1>6 DEF ServerSound, DirectoryExact
<1> QED BY <1>2, <1>5, <1>7 DEF ServerSound, LobbyTypeOK, DepotTypeOK

(***************************************************************************)
(* Nothing is lost by a step that leaves rooms and directory alone.        *)
(***************************************************************************)
LEMMA SameRooms ==
    ASSUME ServerSound, UNCHANGED <<m_lobbies, lobby>>
    PROVE  /\ DepotTypeOK'
           /\ lobby' \in [Lobbies -> LobbyState]
           /\ RoomsFilled'
           /\ DirectoryExact'
BY DEF ServerSound, LobbyTypeOK, DepotTypeOK, RoomsFilled, DirectoryExact,
       Running, Registered

-----------------------------------------------------------------------------
(***************************************************************************)
(* Init: the room runs only after registerLobby has answered SUCC.         *)
(***************************************************************************)
LEMMA InitStep ==
    ASSUME ServerSound, NEW l \in Lobbies, HandleInit(l)
    PROVE  ServerSound'
<1> DEFINE m == Current(l)
           room == [phase |-> "running", name |-> m.room,
                    limits |-> m.limits,
                    players |-> <<[actor |-> m.sender, name |-> m.name]>>]
           info == MakeRoomInfo(room)
           zombie == [room EXCEPT !.phase = "zombie"]
<1>1. /\ LobbyTypeOK
      /\ mailbox[l] # << >>
      /\ m.type = "Init"
      /\ lobby[l].phase = "initial"
  BY DEF ServerSound, HandleInit, Gets
<1>2. /\ m.sender \in Clients /\ m.name \in Names
      /\ m.room \in RoomNames /\ m.limits \in Limits
  BY <1>1, CurrentType, MailFields
<1> HIDE DEF m
<1>3. /\ room \in LobbyState /\ zombie \in LobbyState
      /\ room.name = m.room /\ room.limits = m.limits
      /\ room.phase = "running" /\ zombie.phase = "zombie"
      /\ room.players # << >>
  <2>1. [actor |-> m.sender, name |-> m.name] \in PlayerInfo
    BY <1>2 DEF PlayerInfo
  <2>2. /\ room.players \in Seq(PlayerInfo)
        /\ room.players # << >>
    BY <2>1
  <2> QED BY <1>2, <2>2 DEF LobbyState, Phases
<1> HIDE DEF room
<1>4. room.name # Null /\ room.limits # Null
  BY <1>2, <1>3, NullAssumption
<1>5. info \in RoomInfos /\ info.name = room.name
  BY <1>3, <1>4, MakeRoomInfoType
<1> HIDE DEF info, zombie
<1>6. /\ RegisterLobby(l, info)
      /\ Handled(l)
      /\ UNCHANGED online
      /\ \/ /\ RegisterStatus(info) = "SUCC"
            /\ lobby' = [lobby EXCEPT ![l] = room]
            /\ Reply(m.sender, [type |-> "RoomInfo", room |-> info])
         \/ /\ RegisterStatus(info) # "SUCC"
            /\ lobby' = [lobby EXCEPT ![l] = zombie]
            /\ Reply(m.sender, [type |-> RegisterStatus(info)])
  BY DEF HandleInit, m, room, info, zombie
<1>7. mailbox' \in [Lobbies -> Seq(Mail)] /\ online' \in [Clients -> BOOLEAN]
  BY <1>1, <1>6, HandledType DEF LobbyTypeOK
<1>8. downstream' \in [Clients -> Seq(Notes)]
  <2>1. [type |-> "RoomInfo", room |-> info] \in Notes
    BY <1>5, NotesWritten
  <2>2. RegisterStatus(info) # "SUCC" =>
            [type |-> RegisterStatus(info)] \in Notes
    BY NotesWritten DEF RegisterStatus
  <2> QED BY <1>1, <1>2, <1>6, <2>1, <2>2, ReplyType
<1>9. CASE RegisterStatus(info) = "SUCC"
  <2>1. /\ DepotTypeOK'
        /\ info.name \in RoomNames \ Registered
        /\ Registered' = Registered \cup {info.name}
        /\ m_lobbies'[info.name].handler = l
        /\ \A r \in Registered : m_lobbies'[r] = m_lobbies[r]
    BY <1>1, <1>5, <1>6, <1>9, RegisterType DEF LobbyTypeOK
  <2>2. /\ lobby' \in [Lobbies -> LobbyState]
        /\ lobby'[l] = room
        /\ \A k \in Lobbies \ {l} : lobby'[k] = lobby[k]
    BY <1>1, <1>3, <1>6, <1>9 DEF LobbyTypeOK
  <2>3. RoomsFilled'
    BY <1>3, <1>4, <2>2 DEF ServerSound, RoomsFilled, Running
  <2>4. ASSUME NEW r \in Registered'
        PROVE  /\ lobby'[m_lobbies'[r].handler].phase = "running"
               /\ lobby'[m_lobbies'[r].handler].name = r
    <3>1. CASE r = info.name
      BY <1>3, <1>5, <2>1, <2>2, <3>1
    <3>2. CASE r # info.name
      <4>1. r \in Registered /\ m_lobbies'[r] = m_lobbies[r]
        BY <2>1, <3>2
      <4>2. /\ m_lobbies[r].handler \in Lobbies
            /\ lobby[m_lobbies[r].handler].phase = "running"
            /\ lobby[m_lobbies[r].handler].name = r
        BY <1>1, <4>1 DEF ServerSound, DirectoryExact, Running, LobbyTypeOK,
                          DepotTypeOK, LobbyStats, Registered
      <4> QED BY <1>1, <2>2, <4>1, <4>2
    <3> QED BY <3>1, <3>2
  <2>5. ASSUME NEW k \in Lobbies, lobby'[k].phase = "running"
        PROVE  /\ lobby'[k].name \in Registered'
               /\ m_lobbies'[lobby'[k].name].handler = k
    <3>1. CASE k = l
      BY <1>3, <1>5, <2>1, <2>2, <3>1
    <3>2. CASE k # l
      <4>1. lobby'[k] = lobby[k] /\ Running(k)
        BY <2>2, <2>5, <3>2 DEF Running
      <4>2. lobby[k].name \in Registered
            /\ m_lobbies[lobby[k].name].handler = k
        BY <4>1, RunningRoom
      <4> QED BY <2>1, <4>1, <4>2
    <3> QED BY <3>1, <3>2
  <2>6. DirectoryExact'
    BY <2>4, <2>5 DEF DirectoryExact, Running
  <2> QED BY <1>7, <1>8, <2>1, <2>2, <2>3, <2>6 DEF ServerSound, LobbyTypeOK
<1>10. CASE RegisterStatus(info) # "SUCC"
  <2>1. m_lobbies' = m_lobbies
    BY <1>1, <1>5, <1>6, <1>10, RegisterType DEF LobbyTypeOK
  <2>2. ~Running(l) /\ lobby' = [lobby EXCEPT ![l] = zombie]
    BY <1>1, <1>6, <1>10 DEF Running
  <2>3. /\ lobby' \in [Lobbies -> LobbyState]
        /\ DepotTypeOK' /\ RoomsFilled' /\ DirectoryExact'
    BY <1>3, <2>1, <2>2, RoomIdle
  <2> QED BY <1>7, <1>8, <2>3 DEF ServerSound, LobbyTypeOK
<1> QED BY <1>9, <1>10

(***************************************************************************)
(* Message leaves every room as it is.                                     *)
(***************************************************************************)
LEMMA MessageStep ==
    ASSUME ServerSound, NEW l \in Lobbies, HandleMessage(l)
    PROVE  ServerSound'
<1> DEFINE players == lobby[l].players
           to == {i \in DOMAIN players : \/ Current(l).toSelf
                                         \/ players[i].name # Current(l).name}
<1>1. /\ LobbyTypeOK
      /\ mailbox[l] # << >>
      /\ Running(l)
      /\ WriteTo(players, to, [type |-> "Message"])
      /\ Handled(l)
      /\ UNCHANGED <<m_lobbies, lobby, online>>
  BY DEF ServerSound, HandleMessage, Gets
<1>2. players \in Seq(PlayerInfo) /\ to \in SUBSET (DOMAIN players)
  BY <1>1, RunningRoom
<1> HIDE DEF players, to
<1>3. downstream' \in [Clients -> Seq(Notes)]
  BY <1>1, <1>2, WriteToType, NotesWritten
<1> QED BY <1>1, <1>3, HandledType, SameRooms DEF ServerSound, LobbyTypeOK

(***************************************************************************)
(* StartSession leaves every room as it is.                                *)
(***************************************************************************)
LEMMA StartSessionStep ==
    ASSUME ServerSound, NEW l \in Lobbies, HandleStartSession(l)
    PROVE  ServerSound'
<1> DEFINE players == lobby[l].players
<1>1. /\ LobbyTypeOK
      /\ mailbox[l] # << >>
      /\ Running(l)
      /\ \/ WriteTo(players, DOMAIN players, [type |-> "SessionStarted"])
         \/ Reply(Current(l).sender, [type |-> "SUCK"])
      /\ Handled(l)
      /\ UNCHANGED <<m_lobbies, lobby, online>>
  BY DEF ServerSound, HandleStartSession, Gets
<1>2. players \in Seq(PlayerInfo) /\ Current(l).sender \in Clients
  BY <1>1, RunningRoom, CurrentType, MailFields
<1> HIDE DEF players
<1>3. downstream' \in [Clients -> Seq(Notes)]
  BY <1>1, <1>2, WriteToType, ReplyType, NotesWritten
<1> QED BY <1>1, <1>3, HandledType, SameRooms DEF ServerSound, LobbyTypeOK

(***************************************************************************)
(* EjectPlayer never removes the host, so the room is not left empty.      *)
(***************************************************************************)
LEMMA EjectPlayerStep ==
    ASSUME ServerSound, NEW l \in Lobbies, HandleEjectPlayer(l)
    PROVE  ServerSound'
<1> DEFINE m == Current(l)
           room == lobby[l]
           i == IndexOfName(room, m.name)
           left == WithoutPlayer(room, i)
           ejects == /\ GetHost(room).actor = m.sender
                     /\ GetHost(room).name # m.name
                     /\ i # 0
<1>1. /\ LobbyTypeOK
      /\ mailbox[l] # << >>
      /\ m.type = "EjectPlayer"
      /\ Running(l)
      /\ UNCHANGED <<m_lobbies, online>>
  BY DEF ServerSound, HandleEjectPlayer, Gets
<1>2. m \in Mail /\ m.sender \in Clients /\ m.name \in Names
  BY <1>1, CurrentType, MailFields
<1>3. /\ room \in LobbyState /\ room.phase = "running"
      /\ room.players \in Seq(PlayerInfo)
  BY <1>1, RunningRoom
<1>4. CASE ejects
  <2>1. /\ Reply(room.players[i].actor,
                 [type |-> "Ejected", flags |-> {"EJECTED"}])
        /\ lobby' = [lobby EXCEPT ![l] = left]
        /\ HandledAndForward(l, UpdateMail(m.sender, m.name, TRUE, {"LEFT"}))
    BY <1>4 DEF HandleEjectPlayer
  <2>2. /\ i \in 1..Len(room.players) /\ Len(room.players) \in Nat
        /\ room.players[i].name = m.name
    BY <1>2, <1>3, <1>4, IndexOfNameType
  <2>3. /\ left \in LobbyState
        /\ Len(left.players) = Len(room.players) - 1
        /\ left.name = room.name
        /\ left.phase = room.phase
        /\ left.limits = room.limits
    BY <1>3, <2>2, WithoutPlayerType
  <2>4. i # 1
    BY <1>3, <1>4, <2>2 DEF GetHost
  <2>5. left.players # << >> /\ left.limits # Null
    <3>1. Len(left.players) > 0
      BY <2>2, <2>3, <2>4
    <3>2. room.limits # Null
      BY <1>1 DEF ServerSound, RoomsFilled
    <3> QED BY <2>3, <3>1, <3>2
  <2>6. /\ lobby' \in [Lobbies -> LobbyState]
        /\ RoomsFilled' /\ DirectoryExact' /\ DepotTypeOK'
    <3>1. Registered' = Registered /\ m_lobbies' = m_lobbies
      BY <1>1 DEF Registered
    <3> HIDE DEF left
    <3>2. RoomsFilled' /\ DirectoryExact' /\ lobby' \in [Lobbies -> LobbyState]
      BY <1>1, <1>3, <2>1, <2>3, <2>5, <3>1, RoomChanged
    <3> QED BY <1>1, <3>1, <3>2 DEF LobbyTypeOK, DepotTypeOK
  <2>7. downstream' \in [Clients -> Seq(Notes)]
    <3>1. room.players[i] \in PlayerInfo
      BY <1>3, <2>2, ElementOfSeq
    <3>2. room.players[i].actor \in Clients
      BY <3>1 DEF PlayerInfo
    <3>3. [type |-> "Ejected", flags |-> {"EJECTED"}] \in Notes
      BY NotesWritten DEF Flags
    <3> QED BY <1>1, <2>1, <3>2, <3>3, ReplyType
  <2>8. mailbox' \in [Lobbies -> Seq(Mail)]
    <3>1. UpdateMail(m.sender, m.name, TRUE, {"LEFT"}) \in Mail
      BY <1>2, MailForwarded DEF Flags
    <3> QED BY <1>1, <2>1, <3>1, HandledAndForwardType
  <2> QED BY <1>1, <2>6, <2>7, <2>8 DEF ServerSound, LobbyTypeOK
<1>5. CASE ~ejects
  <2>1. Handled(l) /\ UNCHANGED <<lobby, downstream>>
    BY <1>5 DEF HandleEjectPlayer
  <2> QED BY <1>1, <2>1, HandledType, SameRooms DEF ServerSound, LobbyTypeOK
<1> QED BY <1>4, <1>5

(***************************************************************************)
(* Reconfigure changes the limits, in the room and in its entry.           *)
(***************************************************************************)
LEMMA ReconfigureStep ==
    ASSUME ServerSound, NEW l \in Lobbies, HandleReconfigure(l)
    PROVE  ServerSound'
<1> DEFINE m == Current(l)
           room == [lobby[l] EXCEPT !.limits = m.limits]
           info == MakeRoomInfo(room)
<1>1. /\ LobbyTypeOK
      /\ mailbox[l] # << >>
      /\ m.type = "Reconfigure"
      /\ Running(l)
      /\ Handled(l)
      /\ UNCHANGED online
  BY DEF ServerSound, HandleReconfigure, Gets
<1>2. m.sender \in Clients /\ m.limits \in Limits /\ m.limits # Null
  BY <1>1, CurrentType, MailFields, NullAssumption
<1>3. /\ lobby[l] \in LobbyState /\ lobby[l].phase = "running"
      /\ lobby[l].players \in Seq(PlayerInfo)
      /\ lobby[l].players # << >>
      /\ lobby[l].name # Null
  BY <1>1, RunningRoom DEF ServerSound, RoomsFilled
<1>4. /\ room \in LobbyState
      /\ room.phase = "running"
      /\ room.name = lobby[l].name
      /\ room.players = lobby[l].players
      /\ room.limits = m.limits
  BY <1>2, <1>3 DEF LobbyState
<1>5. \/ UNCHANGED <<m_lobbies, lobby, downstream>>
      \/ /\ Reply(m.sender, [type |-> "ReconfigureSuck"])
         /\ UNCHANGED <<m_lobbies, lobby>>
      \/ /\ lobby' = [lobby EXCEPT ![l] = room]
         /\ UpdateRoomInfo(room.name, info)
         /\ WriteTo(room.players, DOMAIN room.players,
                    [type |-> "ReconfigureSucc", room |-> info])
  BY DEF HandleReconfigure
<1> HIDE DEF m, room
<1>6. info \in RoomInfos
  BY <1>2, <1>3, <1>4, MakeRoomInfoType
<1> HIDE DEF info
<1>7. downstream' \in [Clients -> Seq(Notes)]
  <2>1. CASE UNCHANGED <<m_lobbies, lobby, downstream>>
    BY <1>1, <2>1 DEF LobbyTypeOK
  <2>2. CASE Reply(m.sender, [type |-> "ReconfigureSuck"])
    BY <1>1, <1>2, <2>2, ReplyType, NotesWritten
  <2>3. CASE WriteTo(room.players, DOMAIN room.players,
                     [type |-> "ReconfigureSucc", room |-> info])
    BY <1>1, <1>3, <1>4, <1>6, <2>3, WriteToType, NotesWritten
  <2> QED BY <1>5, <2>1, <2>2, <2>3
<1>8. /\ lobby' \in [Lobbies -> LobbyState]
      /\ DepotTypeOK' /\ RoomsFilled' /\ DirectoryExact'
  <2>1. CASE UNCHANGED <<m_lobbies, lobby>>
    BY <2>1, SameRooms
  <2>2. CASE /\ lobby' = [lobby EXCEPT ![l] = room]
             /\ UpdateRoomInfo(room.name, info)
    <3>1. room.name \in RoomNames
      BY <1>3, <1>4 DEF LobbyState
    <3>2. /\ DepotTypeOK' /\ Registered' = Registered
          /\ \A r \in Registered :
                m_lobbies'[r].handler = m_lobbies[r].handler
      BY <1>1, <1>6, <2>2, <3>1, UpdateRoomInfoType DEF LobbyTypeOK
    <3> QED BY <1>1, <1>2, <1>3, <1>4, <2>2, <3>2, RoomChanged
  <2> QED BY <1>5, <2>1, <2>2
<1> QED BY <1>1, <1>7, <1>8, HandledType DEF ServerSound, LobbyTypeOK

(***************************************************************************)
(* LeaveRoom only forwards a Disconnected.                                 *)
(***************************************************************************)
LEMMA LeaveRoomStep ==
    ASSUME ServerSound, NEW l \in Lobbies, HandleLeaveRoom(l)
    PROVE  ServerSound'
<1>1. /\ LobbyTypeOK
      /\ mailbox[l] # << >>
      /\ HandledAndForward(l, [type |-> "Disconnected",
                               sender |-> Current(l).sender])
      /\ UNCHANGED <<m_lobbies, lobby, online, downstream>>
  BY DEF ServerSound, HandleLeaveRoom, Gets
<1>2. [type |-> "Disconnected", sender |-> Current(l).sender] \in Mail
  BY <1>1, CurrentType, MailFields, MailForwarded
<1>3. mailbox' \in [Lobbies -> Seq(Mail)]
  BY <1>1, <1>2, HandledAndForwardType
<1> QED BY <1>1, <1>3, SameRooms DEF ServerSound, LobbyTypeOK

(***************************************************************************)
(* Update leaves every room as it is.                                      *)
(***************************************************************************)
LEMMA UpdateStep ==
    ASSUME ServerSound, NEW l \in Lobbies, HandleUpdate(l)
    PROVE  ServerSound'
<1> DEFINE m == Current(l)
           room == lobby[l]
           to == {i \in DOMAIN room.players :
                      m.toSelf \/ room.players[i].actor # m.sender}
           note == [type |-> "Update", room |-> MakeRoomInfo(room),
                    name |-> m.name, flags |-> m.flags]
<1>1. /\ LobbyTypeOK
      /\ mailbox[l] # << >>
      /\ m.type = "Update"
      /\ Running(l)
      /\ WriteTo(room.players, to, note)
      /\ Handled(l)
      /\ UNCHANGED <<m_lobbies, lobby, online>>
  BY DEF ServerSound, HandleUpdate, Gets
<1>2. /\ room.players \in Seq(PlayerInfo)
      /\ to \in SUBSET (DOMAIN room.players)
      /\ MakeRoomInfo(room) \in RoomInfos
  BY <1>1, RunningRoom
<1>3. note \in Notes
  <2>1. m.name \in Names /\ m.flags \in SUBSET Flags
    BY <1>1, CurrentType, MailFields
  <2> QED BY <1>2, <2>1, NotesWritten
<1> HIDE DEF room, to, note
<1>4. downstream' \in [Clients -> Seq(Notes)]
  BY <1>1, <1>2, <1>3, WriteToType
<1> QED BY <1>1, <1>4, HandledType, SameRooms DEF ServerSound, LobbyTypeOK

(***************************************************************************)
(* Join adds a player, in the room and in its entry.                       *)
(***************************************************************************)
LEMMA JoinStep ==
    ASSUME ServerSound, NEW l \in Lobbies, HandleJoin(l)
    PROVE  ServerSound'
<1> DEFINE m == Current(l)
           p == [actor |-> m.sender, name |-> m.name]
           joined == WithPlayer(lobby[l], p)
           info == MakeRoomInfo(joined)
           update == UpdateMail(m.sender, m.name, FALSE, {"JOINED"})
<1>1. /\ LobbyTypeOK
      /\ mailbox[l] # << >>
      /\ m.type = "Join"
      /\ Running(l)
      /\ UNCHANGED online
  BY DEF ServerSound, HandleJoin, Gets
<1>2. m.sender \in Clients /\ m.name \in Names
  BY <1>1, CurrentType, MailFields
<1>3. /\ lobby[l] \in LobbyState /\ lobby[l].phase = "running"
      /\ lobby[l].players \in Seq(PlayerInfo)
      /\ lobby[l].name # Null
      /\ lobby[l].limits # Null
  BY <1>1, RunningRoom DEF ServerSound, RoomsFilled
<1>4. /\ joined \in LobbyState
      /\ joined.phase = "running"
      /\ joined.name = lobby[l].name
      /\ joined.limits = lobby[l].limits
      /\ joined.players # << >>
  <2>1. p \in PlayerInfo
    BY <1>2 DEF PlayerInfo
  <2>2. /\ Append(lobby[l].players, p) \in Seq(PlayerInfo)
        /\ Append(lobby[l].players, p) # << >>
    BY <1>3, <2>1, AppendProperties
  <2>3. joined = [lobby[l] EXCEPT !.players = Append(@, p)]
    BY DEF WithPlayer
  <2> HIDE DEF p, joined
  <2> QED BY <1>3, <2>2, <2>3 DEF LobbyState
<1>5. \/ /\ lobby' = [lobby EXCEPT ![l] = joined]
         /\ UpdateRoomInfo(joined.name, info)
         /\ Reply(m.sender, [type |-> "RoomInfo", room |-> info])
         /\ HandledAndForward(l, update)
      \/ /\ \/ Reply(m.sender, [type |-> "NAME_EXISTS"])
            \/ Reply(m.sender, [type |-> "ROOM_IS_FULL"])
         /\ Handled(l)
         /\ UNCHANGED <<m_lobbies, lobby>>
  BY DEF HandleJoin
<1>6. update \in Mail
  BY <1>2, MailForwarded DEF Flags
<1> HIDE DEF m, joined, update
<1>7. info \in RoomInfos
  BY <1>3, <1>4, MakeRoomInfoType
<1> HIDE DEF info
<1>8. CASE /\ lobby' = [lobby EXCEPT ![l] = joined]
           /\ UpdateRoomInfo(joined.name, info)
           /\ Reply(m.sender, [type |-> "RoomInfo", room |-> info])
           /\ HandledAndForward(l, update)
  <2>1. mailbox' \in [Lobbies -> Seq(Mail)]
    BY <1>1, <1>6, <1>8, HandledAndForwardType
  <2>2. downstream' \in [Clients -> Seq(Notes)]
    BY <1>1, <1>2, <1>7, <1>8, ReplyType, NotesWritten
  <2>3. joined.name \in RoomNames
    BY <1>3, <1>4 DEF LobbyState
  <2>4. /\ DepotTypeOK' /\ Registered' = Registered
        /\ \A r \in Registered :
              m_lobbies'[r].handler = m_lobbies[r].handler
    BY <1>1, <1>7, <1>8, <2>3, UpdateRoomInfoType DEF LobbyTypeOK
  <2>5. lobby' \in [Lobbies -> LobbyState] /\ RoomsFilled' /\ DirectoryExact'
    BY <1>1, <1>3, <1>4, <1>8, <2>4, RoomChanged
  <2> QED BY <1>1, <2>1, <2>2, <2>4, <2>5 DEF ServerSound, LobbyTypeOK
<1>9. CASE /\ \/ Reply(m.sender, [type |-> "NAME_EXISTS"])
              \/ Reply(m.sender, [type |-> "ROOM_IS_FULL"])
           /\ Handled(l)
           /\ UNCHANGED <<m_lobbies, lobby>>
  <2>1. downstream' \in [Clients -> Seq(Notes)]
    BY <1>1, <1>2, <1>9, ReplyType, NotesWritten
  <2> QED BY <1>1, <1>9, <2>1, HandledType, SameRooms
          DEF ServerSound, LobbyTypeOK
<1> QED BY <1>5, <1>8, <1>9

(***************************************************************************)
(* Disconnected removes a player, or the last one and the room.            *)
(***************************************************************************)
LEMMA DisconnectedStep ==
    ASSUME ServerSound, NEW l \in Lobbies, HandleDisconnected(l)
    PROVE  ServerSound'
<1> DEFINE m == Current(l)
           room == lobby[l]
           i == IndexOfActor(room, m.sender)
           left == WithoutPlayer(room, i)
           flags == {"LEFT"} \cup (IF i = 1 THEN {"NEW_HOST"} ELSE {})
           update == UpdateMail(m.sender, room.players[i].name, FALSE, flags)
<1>1. /\ LobbyTypeOK
      /\ mailbox[l] # << >>
      /\ Running(l)
      /\ UNCHANGED <<online, downstream>>
  BY DEF ServerSound, HandleDisconnected, Gets
<1>2. m.sender \in Clients
  BY <1>1, CurrentType, MailFields
<1>3. /\ room \in LobbyState /\ room.phase = "running"
      /\ room.players \in Seq(PlayerInfo)
      /\ room.limits # Null /\ room.name # Null
  BY <1>1, RunningRoom DEF ServerSound, RoomsFilled
<1>4. \/ /\ Handled(l)
         /\ UNCHANGED <<m_lobbies, lobby>>
      \/ /\ i # 0
         /\ left.players # << >>
         /\ lobby' = [lobby EXCEPT ![l] = left]
         /\ UpdateRoomInfo(room.name, MakeRoomInfo(left))
         /\ HandledAndForward(l, update)
      \/ /\ UnregisterLobby(room.name)
         /\ Shutdown(l)
  BY DEF HandleDisconnected
<1>5. CASE Handled(l) /\ UNCHANGED <<m_lobbies, lobby>>
  BY <1>1, <1>5, HandledType, SameRooms DEF ServerSound, LobbyTypeOK
<1>6. CASE /\ i # 0
           /\ left.players # << >>
           /\ lobby' = [lobby EXCEPT ![l] = left]
           /\ UpdateRoomInfo(room.name, MakeRoomInfo(left))
           /\ HandledAndForward(l, update)
  <2>1. i \in 1..Len(room.players)
    BY <1>2, <1>3, <1>6, IndexOfActorType
  <2>2. /\ left \in LobbyState
        /\ left.name = room.name
        /\ left.phase = room.phase
        /\ left.limits = room.limits
    BY <1>3, <2>1, WithoutPlayerType
  <2>3. update \in Mail
    <3>1. room.players[i] \in PlayerInfo
      BY <1>3, <2>1, ElementOfSeq
    <3>2. room.players[i].name \in Names
      BY <3>1 DEF PlayerInfo
    <3>3. flags \in SUBSET Flags
      BY DEF Flags
    <3> QED BY <1>2, <3>2, <3>3, MailForwarded
  <2> HIDE DEF left, update
  <2>4. mailbox' \in [Lobbies -> Seq(Mail)]
    BY <1>1, <1>6, <2>3, HandledAndForwardType
  <2>5. MakeRoomInfo(left) \in RoomInfos
    BY <1>3, <1>6, <2>2, MakeRoomInfoType
  <2>6. room.name \in RoomNames
    BY <1>3 DEF LobbyState
  <2>7. /\ DepotTypeOK' /\ Registered' = Registered
        /\ \A r \in Registered :
              m_lobbies'[r].handler = m_lobbies[r].handler
    BY <1>1, <1>6, <2>5, <2>6, UpdateRoomInfoType DEF LobbyTypeOK
  <2>8. lobby' \in [Lobbies -> LobbyState] /\ RoomsFilled' /\ DirectoryExact'
    BY <1>1, <1>3, <1>6, <2>2, <2>7, RoomChanged
  <2> QED BY <1>1, <2>4, <2>7, <2>8 DEF ServerSound, LobbyTypeOK
<1>7. CASE UnregisterLobby(room.name) /\ Shutdown(l)
  BY <1>1, <1>7, RoomGone DEF ServerSound, LobbyTypeOK
<1> QED BY <1>4, <1>5, <1>6, <1>7

(***************************************************************************)
(* Close removes the room.                                                 *)
(***************************************************************************)
LEMMA CloseStep ==
    ASSUME ServerSound, NEW l \in Lobbies, HandleClose(l)
    PROVE  ServerSound'
<1> DEFINE players == lobby[l].players
           note == [type |-> "Ejected",
                    flags |-> {"EJECTED", "ROOM_CLOSED_BY_HOST"}]
<1>1. /\ LobbyTypeOK
      /\ Running(l)
      /\ WriteTo(players, DOMAIN players, note)
      /\ UnregisterLobby(lobby[l].name)
      /\ Shutdown(l)
      /\ UNCHANGED online
  BY DEF ServerSound, HandleClose
<1>2. players \in Seq(PlayerInfo) /\ note \in Notes
  BY <1>1, RunningRoom, NotesWritten DEF Flags
<1> HIDE DEF players, note
<1>3. downstream' \in [Clients -> Seq(Notes)]
  BY <1>1, <1>2, WriteToType
<1> QED BY <1>1, <1>3, RoomGone DEF ServerSound, LobbyTypeOK

(***************************************************************************)
(* A zombie touches neither the directory nor a room.                      *)
(***************************************************************************)
LEMMA ZombieStep ==
    ASSUME ServerSound, NEW l \in Lobbies, HandleAsZombie(l)
    PROVE  ServerSound'
<1>1. /\ LobbyTypeOK
      /\ mailbox[l] # << >>
      /\ ~Running(l)
      /\ UNCHANGED <<m_lobbies, online, downstream>>
  BY DEF ServerSound, HandleAsZombie, Running
<1>2. CASE Shutdown(l)
  <2>1. Stopped \in LobbyState /\ Stopped.phase # "running"
    <3>1. Stopped = [phase |-> "stopped", name |-> Null, limits |-> Null,
                     players |-> << >>]
      BY DEF Stopped, Unborn
    <3>2. << >> \in Seq(PlayerInfo)
      OBVIOUS
    <3> QED BY <3>1, <3>2 DEF LobbyState, Phases
  <2>2. mailbox' \in [Lobbies -> Seq(Mail)]
    BY <1>1, <1>2 DEF Shutdown, LobbyTypeOK
  <2>3. lobby' \in [Lobbies -> LobbyState] /\ RoomsFilled' /\ DirectoryExact'
        /\ DepotTypeOK'
    BY <1>1, <1>2, <2>1, RoomIdle DEF Shutdown
  <2> QED BY <1>1, <2>2, <2>3 DEF ServerSound, LobbyTypeOK
<1>3. CASE Handled(l) /\ UNCHANGED lobby
  BY <1>1, <1>3, HandledType, SameRooms DEF ServerSound, LobbyTypeOK
<1> QED BY <1>2, <1>3 DEF HandleAsZombie

(***************************************************************************)
(* Whatever a lobby actor handles, types and directory stay sound.         *)
(***************************************************************************)
LEMMA LobbyActorSound ==
    ASSUME ServerSound, NEW l \in Lobbies, LobbyActorStep(l)
    PROVE  ServerSound'
BY InitStep, MessageStep, StartSessionStep, EjectPlayerStep, ReconfigureStep,
   LeaveRoomStep, UpdateStep, JoinStep, DisconnectedStep, CloseStep, ZombieStep
   DEF LobbyActorStep

-----------------------------------------------------------------------------
(***************************************************************************)
(* What RoomsSound says of one room.                                       *)
(***************************************************************************)
SoundRoom(room) ==
    /\ Len(room.players) \in 1..Capacity(room.limits)
    /\ \A i, j \in 1..Len(room.players) :
        room.players[i].name = room.players[j].name => i = j

(***************************************************************************)
(* RoomsSound, with the injectivity written out.                           *)
(***************************************************************************)
LEMMA RoomsSoundMeans ==
    ASSUME LobbyTypeOK
    PROVE  RoomsSound <=> \A l \in Lobbies : Running(l) => SoundRoom(lobby[l])
<1> SUFFICES ASSUME NEW l \in Lobbies
             PROVE  SoundRoom(lobby[l]) <=>
                      /\ Len(lobby[l].players) \in 1..Capacity(lobby[l].limits)
                      /\ IsInjective([i \in DOMAIN lobby[l].players |->
                                          lobby[l].players[i].name])
  BY DEF RoomsSound
<1>1. DOMAIN lobby[l].players = 1..Len(lobby[l].players)
  BY DEF LobbyTypeOK, LobbyState
<1> QED BY <1>1 DEF SoundRoom, IsInjective

(***************************************************************************)
(* The pairs that the API accepts leave place for one player at least.     *)
(***************************************************************************)
LEMMA CapacityType ==
    ASSUME NEW limits \in Limits
    PROVE  Capacity(limits) \in Nat \ {0}
BY LimitsAssumption DEF Capacity

(***************************************************************************)
(* A sound room of several players is sound without one of them.           *)
(***************************************************************************)
LEMMA SoundWithout ==
    ASSUME NEW room \in LobbyState, room.limits \in Limits, SoundRoom(room),
           NEW i \in 1..Len(room.players), Len(room.players) > 1
    PROVE  SoundRoom(WithoutPlayer(room, i))
<1> DEFINE left == WithoutPlayer(room, i)
<1>1. /\ Len(left.players) = Len(room.players) - 1
      /\ left.limits = room.limits
      /\ \A j \in 1..Len(left.players) :
            left.players[j] = IF j < i THEN room.players[j]
                              ELSE room.players[j + 1]
  BY WithoutPlayerType
<1>2. Len(room.players) \in Nat /\ Capacity(room.limits) \in Nat
  BY CapacityType DEF LobbyState
<1> HIDE DEF left
<1>3. Len(left.players) \in 1..Capacity(left.limits)
  BY <1>1, <1>2 DEF SoundRoom
<1>4. ASSUME NEW j \in 1..Len(left.players), NEW k \in 1..Len(left.players),
             left.players[j].name = left.players[k].name
      PROVE  j = k
  <2> DEFINE was(x) == IF x < i THEN x ELSE x + 1
  <2>1. /\ was(j) \in 1..Len(room.players)
        /\ was(k) \in 1..Len(room.players)
        /\ was(j) = was(k) => j = k
    BY <1>1, <1>2
  <2>2. /\ left.players[j] = room.players[was(j)]
        /\ left.players[k] = room.players[was(k)]
    BY <1>1
  <2> HIDE DEF was
  <2> QED BY <1>4, <2>1, <2>2 DEF SoundRoom
<1> QED BY <1>3, <1>4 DEF SoundRoom, left

(***************************************************************************)
(* A sound room with a place is sound with a player of a new name.         *)
(***************************************************************************)
LEMMA SoundWith ==
    ASSUME NEW room \in LobbyState, room.limits \in Limits, SoundRoom(room),
           NEW p \in PlayerInfo, HasPlace(room), p.name \notin NamesOf(room)
    PROVE  SoundRoom(WithPlayer(room, p))
<1> DEFINE joined == WithPlayer(room, p)
<1>1. /\ room.players \in Seq(PlayerInfo)
      /\ Len(room.players) \in Nat /\ Capacity(room.limits) \in Nat
  BY CapacityType DEF LobbyState
<1>2. joined.limits = room.limits /\ joined.players = Append(room.players, p)
  BY DEF WithPlayer, LobbyState
<1> HIDE DEF joined
<1>3. /\ Len(joined.players) = Len(room.players) + 1
      /\ \A j \in 1..Len(room.players) : joined.players[j] = room.players[j]
      /\ joined.players[Len(room.players) + 1] = p
  BY <1>1, <1>2, AppendProperties
<1>4. Len(joined.players) \in 1..Capacity(joined.limits)
  BY <1>1, <1>2, <1>3 DEF HasPlace
<1>5. \A j \in 1..Len(room.players) : room.players[j].name # p.name
  BY <1>1 DEF NamesOf
<1>6. ASSUME NEW j \in 1..Len(joined.players),
             NEW k \in 1..Len(joined.players),
             joined.players[j].name = joined.players[k].name
      PROVE  j = k
  <2> DEFINE n == Len(room.players)
  <2>1. j \in 1..(n + 1) /\ k \in 1..(n + 1)
    BY <1>3
  <2>2. CASE j \in 1..n /\ k \in 1..n
    BY <1>3, <1>6, <2>2 DEF SoundRoom
  <2>3. CASE j = n + 1 /\ k \in 1..n
    BY <1>3, <1>5, <1>6, <2>3
  <2>4. CASE k = n + 1 /\ j \in 1..n
    BY <1>3, <1>5, <1>6, <2>4
  <2>5. CASE j = n + 1 /\ k = n + 1
    BY <2>5
  <2> QED BY <1>1, <2>1, <2>2, <2>3, <2>4, <2>5
<1> QED BY <1>4, <1>6 DEF SoundRoom, joined

(***************************************************************************)
(* The ways a room changes: it does not, it stops or waits to run, it      *)
(* starts with its host, a player goes while there are others, a player    *)
(* with a name of its own gets a place, or the limits change.              *)
(***************************************************************************)
RoomTransition(l) ==
    \/ lobby'[l] = lobby[l]
    \/ lobby'[l].phase # "running"
    \/ /\ ~Running(l)
       /\ \E p \in PlayerInfo : lobby'[l].players = <<p>>
       /\ lobby'[l].limits \in Limits
    \/ /\ Running(l)
       /\ Len(lobby[l].players) > 1
       /\ \E i \in 1..Len(lobby[l].players) :
            lobby'[l] = WithoutPlayer(lobby[l], i)
    \/ /\ Running(l)
       /\ HasPlace(lobby[l])
       /\ \E p \in PlayerInfo : /\ p.name \notin NamesOf(lobby[l])
                                /\ lobby'[l] = WithPlayer(lobby[l], p)
    \/ /\ Running(l)
       /\ \E limits \in Limits :
            /\ Len(lobby[l].players) <= Capacity(limits)
            /\ lobby'[l] = [lobby[l] EXCEPT !.limits = limits]

OthersKept(l) == \A k \in Lobbies \ {l} : lobby'[k] = lobby[k]

(***************************************************************************)
(* A handler that leaves the fields of the actors alone.                   *)
(***************************************************************************)
LEMMA UnchangedLobby ==
    ASSUME NEW l \in Lobbies, UNCHANGED lobby
    PROVE  RoomTransition(l) /\ OthersKept(l)
BY DEF RoomTransition, OthersKept

(***************************************************************************)
(* A handler that changes the fields of its own actor only.                *)
(***************************************************************************)
LEMMA ChangedLobby ==
    ASSUME LobbyTypeOK, NEW l \in Lobbies, NEW room,
           lobby' = [lobby EXCEPT ![l] = room]
    PROVE  lobby'[l] = room /\ OthersKept(l)
BY DEF LobbyTypeOK, OthersKept

(***************************************************************************)
(* A handler that stops the actor.                                         *)
(***************************************************************************)
LEMMA ShutLobby ==
    ASSUME LobbyTypeOK, NEW l \in Lobbies, Shutdown(l)
    PROVE  RoomTransition(l) /\ OthersKept(l)
<1>1. lobby'[l] = Stopped /\ OthersKept(l)
  BY ChangedLobby DEF Shutdown
<1>2. Stopped.phase # "running"
  BY DEF Stopped, Unborn
<1> QED BY <1>1, <1>2 DEF RoomTransition

(***************************************************************************)
(* The handlers of LobbyActor2 change a room in one of the ways of         *)
(* RoomTransition, and only their own room.                                *)
(***************************************************************************)
LEMMA LobbyActorTransition ==
    ASSUME ServerSound, NEW l \in Lobbies, LobbyActorStep(l)
    PROVE  RoomTransition(l) /\ OthersKept(l)
<1> DEFINE m == Current(l)
<1>1. LobbyTypeOK
  BY DEF ServerSound
<1>2. CASE HandleInit(l)
  <2> DEFINE p == [actor |-> m.sender, name |-> m.name]
             room == [phase |-> "running", name |-> m.room,
                      limits |-> m.limits, players |-> <<p>>]
             zombie == [room EXCEPT !.phase = "zombie"]
  <2>1. p \in PlayerInfo /\ m.limits \in Limits /\ ~Running(l)
    BY <1>1, <1>2, CurrentType, MailFields
       DEF HandleInit, Gets, PlayerInfo, Running
  <2>2. \/ lobby' = [lobby EXCEPT ![l] = room]
        \/ lobby' = [lobby EXCEPT ![l] = zombie]
    BY <1>2 DEF HandleInit
  <2>3. /\ room.players = <<p>> /\ room.limits = m.limits
        /\ zombie.phase # "running"
    OBVIOUS
  <2> HIDE DEF m, p, room, zombie
  <2>4. /\ OthersKept(l)
        /\ lobby'[l] = room \/ lobby'[l] = zombie
    BY <1>1, <2>2, ChangedLobby
  <2> QED BY <2>1, <2>3, <2>4 DEF RoomTransition
<1>3. CASE HandleEjectPlayer(l)
  <2> DEFINE i == IndexOfName(lobby[l], m.name)
             left == WithoutPlayer(lobby[l], i)
  <2>1. /\ Running(l)
        /\ lobby[l] \in LobbyState /\ lobby[l].players # << >>
        /\ m.name \in Names
    BY <1>1, <1>3, RunningRoom, CurrentType, MailFields
       DEF HandleEjectPlayer, Gets, ServerSound, RoomsFilled
  <2>2. \/ UNCHANGED lobby
        \/ /\ lobby' = [lobby EXCEPT ![l] = left]
           /\ i # 0
           /\ GetHost(lobby[l]).name # m.name
    BY <1>3 DEF HandleEjectPlayer
  <2>3. CASE UNCHANGED lobby
    BY <2>3, UnchangedLobby
  <2>4. CASE /\ lobby' = [lobby EXCEPT ![l] = left]
             /\ i # 0
             /\ GetHost(lobby[l]).name # m.name
    <3>1. i \in 1..Len(lobby[l].players) /\ Len(lobby[l].players) \in Nat
          /\ lobby[l].players[i].name = m.name
      BY <2>1, <2>4, IndexOfNameType DEF LobbyState
    <3>2. Len(lobby[l].players) > 1
      BY <2>1, <2>4, <3>1 DEF GetHost
    <3>3. lobby'[l] = left /\ OthersKept(l)
      BY <1>1, <2>4, ChangedLobby
    <3> QED BY <2>1, <3>1, <3>2, <3>3 DEF RoomTransition
  <2> QED BY <2>2, <2>3, <2>4
<1>4. CASE HandleReconfigure(l)
  <2> DEFINE room == [lobby[l] EXCEPT !.limits = m.limits]
  <2>1. /\ Running(l)
        /\ lobby[l] \in LobbyState
        /\ m.limits \in Limits
    BY <1>1, <1>4, RunningRoom, CurrentType, MailFields
       DEF HandleReconfigure, Gets
  <2>2. \/ UNCHANGED lobby
        \/ /\ lobby' = [lobby EXCEPT ![l] = room]
           /\ Len(lobby[l].players) <= Capacity(m.limits)
    <3>1. room.players = lobby[l].players
      BY <2>1 DEF LobbyState
    <3> QED BY <1>4, <3>1 DEF HandleReconfigure
  <2>3. CASE UNCHANGED lobby
    BY <2>3, UnchangedLobby
  <2>4. CASE /\ lobby' = [lobby EXCEPT ![l] = room]
             /\ Len(lobby[l].players) <= Capacity(m.limits)
    <3>1. lobby'[l] = room /\ OthersKept(l)
      BY <1>1, <2>4, ChangedLobby
    <3> QED BY <2>1, <2>4, <3>1 DEF RoomTransition
  <2> QED BY <2>2, <2>3, <2>4
<1>5. CASE HandleJoin(l)
  <2> DEFINE p == [actor |-> m.sender, name |-> m.name]
             joined == WithPlayer(lobby[l], p)
  <2>1. Running(l) /\ p \in PlayerInfo /\ p.name = m.name
    BY <1>1, <1>5, CurrentType, MailFields DEF HandleJoin, Gets, PlayerInfo
  <2>2. \/ UNCHANGED lobby
        \/ /\ lobby' = [lobby EXCEPT ![l] = joined]
           /\ HasPlace(lobby[l])
           /\ m.name \notin NamesOf(lobby[l])
    BY <1>5 DEF HandleJoin
  <2> HIDE DEF p
  <2>3. CASE UNCHANGED lobby
    BY <2>3, UnchangedLobby
  <2>4. CASE /\ lobby' = [lobby EXCEPT ![l] = joined]
             /\ HasPlace(lobby[l])
             /\ m.name \notin NamesOf(lobby[l])
    <3>1. lobby'[l] = joined /\ OthersKept(l)
      BY <1>1, <2>4, ChangedLobby
    <3> QED BY <2>1, <2>4, <3>1 DEF RoomTransition
  <2> QED BY <2>2, <2>3, <2>4
<1>6. CASE HandleDisconnected(l)
  <2> DEFINE i == IndexOfActor(lobby[l], m.sender)
             left == WithoutPlayer(lobby[l], i)
  <2>1. Running(l) /\ lobby[l] \in LobbyState /\ m.sender \in Clients
    BY <1>1, <1>6, RunningRoom, CurrentType, MailFields
       DEF HandleDisconnected, Gets
  <2>2. \/ UNCHANGED lobby
        \/ /\ lobby' = [lobby EXCEPT ![l] = left]
           /\ i # 0
           /\ left.players # << >>
        \/ Shutdown(l)
    BY <1>6 DEF HandleDisconnected
  <2>3. CASE UNCHANGED lobby
    BY <2>3, UnchangedLobby
  <2>4. CASE /\ lobby' = [lobby EXCEPT ![l] = left]
             /\ i # 0
             /\ left.players # << >>
    <3>1. i \in 1..Len(lobby[l].players) /\ Len(lobby[l].players) \in Nat
      BY <2>1, <2>4, IndexOfActorType DEF LobbyState
    <3>2. left \in LobbyState /\ Len(left.players) = Len(lobby[l].players) - 1
      BY <2>1, <3>1, WithoutPlayerType
    <3>3. Len(left.players) # 0
      <4>1. left.players \in Seq(PlayerInfo)
        BY <3>2 DEF LobbyState
      <4> HIDE DEF left
      <4> QED BY <2>4, <4>1, EmptySeq
    <3>4. Len(lobby[l].players) > 1
      <4> DEFINE n == Len(lobby[l].players)
                 k == Len(left.players)
      <4>1. n \in Nat /\ n >= 1
        BY <3>1
      <4>2. k = n - 1 /\ k # 0
        BY <3>2, <3>3
      <4> HIDE DEF n, k
      <4>3. n > 1
        BY <4>1, <4>2
      <4> QED BY <4>3 DEF n
    <3> HIDE DEF left, i
    <3>5. lobby'[l] = left /\ OthersKept(l)
      BY <1>1, <2>4, ChangedLobby
    <3> QED BY <2>1, <3>1, <3>4, <3>5 DEF RoomTransition, left, i
  <2>5. CASE Shutdown(l)
    BY <1>1, <2>5, ShutLobby
  <2> QED BY <2>2, <2>3, <2>4, <2>5
<1>7. CASE HandleClose(l) \/ HandleAsZombie(l)
  <2>1. Shutdown(l) \/ UNCHANGED lobby
    BY <1>7 DEF HandleClose, HandleAsZombie
  <2>2. CASE Shutdown(l)
    BY <1>1, <2>2, ShutLobby
  <2> QED BY <2>1, <2>2, UnchangedLobby
<1>8. CASE \/ HandleMessage(l) \/ HandleStartSession(l)
           \/ HandleLeaveRoom(l) \/ HandleUpdate(l)
  BY <1>8, UnchangedLobby DEF HandleMessage, HandleStartSession,
                              HandleLeaveRoom, HandleUpdate
<1> QED BY <1>2, <1>3, <1>4, <1>5, <1>6, <1>7, <1>8 DEF LobbyActorStep

(***************************************************************************)
(* A running room has limits.                                              *)
(***************************************************************************)
LEMMA LimitsOf ==
    ASSUME ServerSound, NEW l \in Lobbies, Running(l)
    PROVE  lobby[l] \in LobbyState /\ lobby[l].limits \in Limits
BY RunningRoom DEF ServerSound, RoomsFilled, LobbyState

(***************************************************************************)
(* None of those ways makes a room unsound.                                *)
(***************************************************************************)
LEMMA TransitionSound ==
    ASSUME ServerSound, NEW l \in Lobbies,
           Running(l) => SoundRoom(lobby[l]),
           RoomTransition(l), lobby'[l].phase = "running"
    PROVE  SoundRoom(lobby'[l])
<1>1. Running(l) => lobby[l] \in LobbyState /\ lobby[l].limits \in Limits
  BY LimitsOf
<1>2. CASE lobby'[l] = lobby[l]
  BY <1>2 DEF Running
<1>3. CASE /\ \E p \in PlayerInfo : lobby'[l].players = <<p>>
           /\ lobby'[l].limits \in Limits
  <2>1. /\ Len(lobby'[l].players) = 1
        /\ Capacity(lobby'[l].limits) \in Nat \ {0}
    BY <1>3, CapacityType
  <2> QED BY <2>1 DEF SoundRoom
<1>4. CASE /\ Running(l)
           /\ Len(lobby[l].players) > 1
           /\ \E i \in 1..Len(lobby[l].players) :
                lobby'[l] = WithoutPlayer(lobby[l], i)
  BY <1>1, <1>4, SoundWithout
<1>5. CASE /\ Running(l)
           /\ HasPlace(lobby[l])
           /\ \E p \in PlayerInfo : /\ p.name \notin NamesOf(lobby[l])
                                    /\ lobby'[l] = WithPlayer(lobby[l], p)
  BY <1>1, <1>5, SoundWith
<1>6. CASE /\ Running(l)
           /\ \E limits \in Limits :
                /\ Len(lobby[l].players) <= Capacity(limits)
                /\ lobby'[l] = [lobby[l] EXCEPT !.limits = limits]
  <2>1. PICK limits \in Limits :
            /\ Len(lobby[l].players) <= Capacity(limits)
            /\ lobby'[l] = [lobby[l] EXCEPT !.limits = limits]
    BY <1>6
  <2>2. /\ lobby'[l].players = lobby[l].players
        /\ lobby'[l].limits = limits
    BY <1>1, <1>6, <2>1 DEF LobbyState
  <2>3. Len(lobby[l].players) \in 1..Capacity(limits)
    <3>1. /\ Len(lobby[l].players) \in Nat /\ Capacity(limits) \in Nat
          /\ Len(lobby[l].players) >= 1
      BY <1>1, <1>6, CapacityType DEF LobbyState, SoundRoom
    <3> QED BY <2>1, <3>1
  <2> QED BY <1>6, <2>2, <2>3 DEF SoundRoom
<1> QED BY <1>2, <1>3, <1>4, <1>5, <1>6 DEF RoomTransition

(***************************************************************************)
(* If one of those ways changes the host, the host is gone and the second  *)
(* player takes over.                                                      *)
(***************************************************************************)
LEMMA TransitionSuccession ==
    ASSUME ServerSound, NEW l \in Lobbies, Running(l), SoundRoom(lobby[l]),
           RoomTransition(l), lobby'[l].phase = "running",
           GetHost(lobby[l]) # GetHost(lobby'[l])
    PROVE  /\ Len(lobby[l].players) > 1
           /\ GetHost(lobby'[l]) = lobby[l].players[2]
           /\ GetHost(lobby[l]) \notin ToSet(lobby'[l].players)
<1> DEFINE room == lobby[l]
<1>1. /\ room \in LobbyState
      /\ room.players \in Seq(PlayerInfo)
      /\ Len(room.players) \in Nat
      /\ Len(room.players) >= 1
      /\ GetHost(room) = room.players[1]
  BY RunningRoom DEF LobbyState, SoundRoom, GetHost
<1>2. CASE \E p \in PlayerInfo : lobby'[l] = WithPlayer(room, p)
  <2>1. PICK p \in PlayerInfo : lobby'[l] = WithPlayer(room, p)
    BY <1>2
  <2>2. lobby'[l].players = Append(room.players, p)
    BY <1>1, <2>1 DEF WithPlayer, LobbyState
  <2>3. Append(room.players, p)[1] = room.players[1]
        /\ Append(room.players, p) \in Seq(PlayerInfo)
    BY <1>1, AppendProperties
  <2>4. GetHost(lobby'[l]) = room.players[1]
    BY <2>2, <2>3 DEF GetHost
  <2> QED BY <1>1, <2>4
<1>3. CASE \E limits \in Limits : lobby'[l] = [room EXCEPT !.limits = limits]
  <2>1. lobby'[l].players = room.players
    BY <1>1, <1>3 DEF LobbyState
  <2> QED BY <2>1 DEF GetHost
<1>4. CASE /\ Len(room.players) > 1
           /\ \E i \in 1..Len(room.players) :
                lobby'[l] = WithoutPlayer(room, i)
  <2>1. PICK i \in 1..Len(room.players) : lobby'[l] = WithoutPlayer(room, i)
    BY <1>4
  <2> DEFINE left == WithoutPlayer(room, i)
  <2>2. /\ left.players \in Seq(PlayerInfo)
        /\ Len(left.players) = Len(room.players) - 1
        /\ \A j \in 1..Len(left.players) :
              left.players[j] = IF j < i THEN room.players[j]
                                ELSE room.players[j + 1]
    BY <1>1, WithoutPlayerType DEF LobbyState
  <2> HIDE DEF left
  <2>3. 1 \in 1..Len(left.players)
    BY <1>1, <1>4, <2>2
  <2>4. GetHost(left) = left.players[1]
    BY DEF GetHost
  <2>5. lobby'[l] = left
    BY <2>1 DEF left
  <2>6. CASE i # 1
    <3>1. left.players[1] = room.players[1]
      BY <1>1, <2>2, <2>3, <2>6
    <3> QED BY <1>1, <2>4, <2>5, <3>1
  <2>7. CASE i = 1
    <3>1. left.players[1] = room.players[2]
      BY <1>1, <2>2, <2>3, <2>7
    <3>2. ASSUME NEW j \in DOMAIN left.players,
                 left.players[j] = room.players[1]
          PROVE  FALSE
      <4>1. j \in 1..Len(left.players) /\ left.players[j] = room.players[j + 1]
        BY <2>2, <2>7
      <4>2. /\ j + 1 \in 1..Len(room.players)
            /\ 1 \in 1..Len(room.players) /\ j + 1 # 1
        BY <1>1, <2>2, <4>1
      <4>3. room.players[j + 1].name # room.players[1].name
        BY <4>2 DEF SoundRoom
      <4> QED BY <3>2, <4>1, <4>3
    <3>3. room.players[1] \notin ToSet(left.players)
      BY <3>2 DEF ToSet
    <3> QED BY <1>1, <1>4, <2>4, <2>5, <3>1, <3>3
  <2> QED BY <2>6, <2>7
<1> QED BY <1>2, <1>3, <1>4 DEF RoomTransition

=============================================================================
