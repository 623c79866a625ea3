------------------------- MODULE LobbySystem_proofs -------------------------
(***************************************************************************)
(* Theorems about the lobby for any number of clients, rooms and names.    *)
(* Each invariant of a run that is proved here is the consequence of an    *)
(* inductive one: IInv for types and the directory, AllRoomsSound for the  *)
(* rooms, AllCovered for the players that the directory lists, OrderInv    *)
(* for what a host and its room have sent each other. With IInv, each step *)
(* of the server is one of RoomService.                                    *)
(***************************************************************************)
EXTENDS LobbyActor_proofs

(***************************************************************************)
(* Even the unsynchronized getLobbies.get yields some lobby actor.         *)
(***************************************************************************)
LEMMA LookupType ==
    ASSUME DepotTypeOK, NEW room \in RoomNames, NEW found \in Lookup(room),
           found # Null
    PROVE  found.handler \in Lobbies
<1>1. found \in LobbyStats
  BY DEF DepotTypeOK, Lookup, LookupResults, Registered
<1> QED BY <1>1 DEF LobbyStats

(***************************************************************************)
(* The inductive invariant of the server as a whole.                       *)
(***************************************************************************)
ClientsSound == ServerSound /\ ClientTypeOK

(***************************************************************************)
(* CreateRoom starts an actor that does not run a room yet.                *)
(***************************************************************************)
LEMMA TakeCreateRoomStep ==
    ASSUME ClientsSound, NEW c \in Clients, TakeCreateRoom(c)
    PROVE  ClientsSound'
<1> DEFINE r == Request(c)
           l == CHOOSE k \in Lobbies : lobby[k].phase = "unborn"
           mail == [type |-> "Init", sender |-> c, name |-> r.name,
                    room |-> r.room, limits |-> r.limits]
           room == [lobby[l] EXCEPT !.phase = "initial"]
<1>1. /\ LobbyTypeOK /\ ServerSound /\ ClientTypeOK
      /\ upstream[c] # << >>
      /\ r.type = "CreateRoom"
      /\ \E k \in Lobbies : lobby[k].phase = "unborn"
      /\ lobby' = [lobby EXCEPT ![l].phase = "initial"]
      /\ m_handler' = [m_handler EXCEPT ![c] = l]
      /\ mailbox' = [mailbox EXCEPT ![l] = <<mail>>]
      /\ Taken(c)
      /\ UNCHANGED <<m_lobbies, online, downstream>>
  BY DEF ClientsSound, ServerSound, TakeCreateRoom, Requested
<1>2. mail \in Mail
  <2>1. r.name \in Names /\ r.room \in RoomNames /\ r.limits \in Limits
    BY <1>1, RequestType, RequestFields
  <2> QED BY <2>1 DEF Mail
<1>3. l \in Lobbies /\ lobby[l].phase = "unborn"
  BY <1>1
<1> HIDE DEF l, mail
<1>4. lobby \in [Lobbies -> LobbyState] /\ lobby[l] \in LobbyState
  BY <1>1, <1>3 DEF LobbyTypeOK
<1>5. /\ room \in LobbyState /\ room.phase # "running" /\ ~Running(l)
      /\ lobby' = [lobby EXCEPT ![l] = room]
  BY <1>1, <1>3, <1>4 DEF LobbyState, Phases, Running
<1> HIDE DEF room
<1>6. /\ lobby' \in [Lobbies -> LobbyState]
      /\ DepotTypeOK' /\ RoomsFilled' /\ DirectoryExact'
  BY <1>1, <1>3, <1>5, RoomIdle
<1>7. mailbox' \in [Lobbies -> Seq(Mail)]
  <2>1. <<mail>> \in Seq(Mail)
    BY <1>2
  <2> QED BY <1>1, <1>3, <2>1 DEF LobbyTypeOK
<1>8. upstream' \in [Clients -> Seq(Requests)]
  BY <1>1, TakenType
<1>9. m_handler' \in [Clients -> Lobbies \cup {Null}]
  BY <1>1, <1>3 DEF ClientTypeOK
<1> QED BY <1>1, <1>6, <1>7, <1>8, <1>9
        DEF ClientsSound, ServerSound, ClientTypeOK, LobbyTypeOK

(***************************************************************************)
(* JoinRoom leaves every room as it is.                                    *)
(***************************************************************************)
LEMMA TakeJoinRoomStep ==
    ASSUME ClientsSound, NEW c \in Clients, TakeJoinRoom(c)
    PROVE  ClientsSound'
<1>1. /\ LobbyTypeOK /\ ServerSound /\ ClientTypeOK
      /\ upstream[c] # << >>
      /\ Request(c).type = "JoinRoom"
      /\ Taken(c)
      /\ UNCHANGED <<m_lobbies, lobby, online>>
  BY DEF ClientsSound, ServerSound, TakeJoinRoom, Requested
<1>2. Request(c).name \in Names /\ Request(c).room \in RoomNames
  BY <1>1, RequestType, RequestFields
<1>3. PICK found \in Lookup(Request(c).room) :
        \/ /\ found # Null
           /\ m_handler' = [m_handler EXCEPT ![c] = found.handler]
           /\ Enqueue(found.handler, [type |-> "Join", sender |-> c,
                                      name |-> Request(c).name])
           /\ UNCHANGED downstream
        \/ /\ found = Null
           /\ Reply(c, [type |-> "SUCK"])
           /\ UNCHANGED <<m_handler, mailbox>>
  BY DEF TakeJoinRoom
<1>4. upstream' \in [Clients -> Seq(Requests)]
  BY <1>1, TakenType
<1>5. CASE /\ found # Null
           /\ m_handler' = [m_handler EXCEPT ![c] = found.handler]
           /\ Enqueue(found.handler, [type |-> "Join", sender |-> c,
                                      name |-> Request(c).name])
           /\ UNCHANGED downstream
  <2>1. found.handler \in Lobbies
    BY <1>1, <1>2, <1>5, LookupType DEF LobbyTypeOK
  <2>2. mailbox' \in [Lobbies -> Seq(Mail)]
    BY <1>1, <1>2, <1>5, <2>1, MailForwarded, EnqueueType
  <2>3. m_handler' \in [Clients -> Lobbies \cup {Null}]
    BY <1>1, <1>5, <2>1 DEF ClientTypeOK
  <2> QED BY <1>1, <1>4, <1>5, <2>2, <2>3, SameRooms
          DEF ClientsSound, ServerSound, ClientTypeOK, LobbyTypeOK
<1>6. CASE /\ Reply(c, [type |-> "SUCK"])
           /\ UNCHANGED <<m_handler, mailbox>>
  <2>1. downstream' \in [Clients -> Seq(Notes)]
    BY <1>1, <1>6, ReplyType, NotesWritten
  <2> QED BY <1>1, <1>4, <1>6, <2>1, SameRooms
          DEF ClientsSound, ServerSound, ClientTypeOK, LobbyTypeOK
<1> QED BY <1>3, <1>5, <1>6

(***************************************************************************)
(* So does an Envelop.                                                     *)
(***************************************************************************)
LEMMA TakeEnvelopStep ==
    ASSUME ClientsSound, NEW c \in Clients, TakeEnvelop(c)
    PROVE  ClientsSound'
<1>1. /\ LobbyTypeOK /\ ServerSound /\ ClientTypeOK
      /\ upstream[c] # << >>
      /\ Request(c).type = "Envelop"
      /\ Taken(c)
      /\ UNCHANGED <<m_lobbies, lobby, online, downstream, m_handler>>
  BY DEF ClientsSound, ServerSound, TakeEnvelop, Requested
<1>2. Request(c).mail \in Mail /\ Request(c).room \in RoomNames
  BY <1>1, RequestType, RequestFields
<1>3. PICK found \in Lookup(Request(c).room) :
        \/ found # Null /\ Enqueue(found.handler, Request(c).mail)
        \/ UNCHANGED mailbox
  BY DEF TakeEnvelop
<1>4. mailbox' \in [Lobbies -> Seq(Mail)]
  <2>1. CASE found # Null /\ Enqueue(found.handler, Request(c).mail)
    <3>1. found.handler \in Lobbies
      BY <1>1, <1>2, <2>1, LookupType DEF LobbyTypeOK
    <3> QED BY <1>1, <1>2, <2>1, <3>1, EnqueueType
  <2>2. CASE UNCHANGED mailbox
    BY <1>1, <2>2 DEF LobbyTypeOK
  <2> QED BY <1>3, <2>1, <2>2
<1> QED BY <1>1, <1>4, TakenType, SameRooms
        DEF ClientsSound, ServerSound, ClientTypeOK, LobbyTypeOK

(***************************************************************************)
(* What the Client actor sends through m_handler is of type Mail.          *)
(***************************************************************************)
LEMMA ToHandler ==
    ASSUME ClientsSound, NEW c \in Clients,
           NEW type \in {"Close", "Disconnected"},
           \/ /\ m_handler[c] # Null
              /\ Enqueue(m_handler[c], [type |-> type, sender |-> c])
           \/ UNCHANGED mailbox
    PROVE  mailbox' \in [Lobbies -> Seq(Mail)]
<1>1. LobbyTypeOK /\ m_handler[c] \in Lobbies \cup {Null}
  BY DEF ClientsSound, ServerSound, ClientTypeOK
<1>2. [type |-> type, sender |-> c] \in Mail
  BY MailForwarded
<1>3. CASE /\ m_handler[c] # Null
           /\ Enqueue(m_handler[c], [type |-> type, sender |-> c])
  BY <1>1, <1>2, <1>3, EnqueueType
<1>4. CASE UNCHANGED mailbox
  BY <1>1, <1>4 DEF LobbyTypeOK
<1> QED BY <1>3, <1>4

(***************************************************************************)
(* CloseRoom leaves every room as it is.                                   *)
(***************************************************************************)
LEMMA TakeCloseRoomStep ==
    ASSUME ClientsSound, NEW c \in Clients, TakeCloseRoom(c)
    PROVE  ClientsSound'
<1>1. /\ LobbyTypeOK /\ ServerSound /\ ClientTypeOK
      /\ upstream[c] # << >>
      /\ Taken(c)
      /\ UNCHANGED <<m_lobbies, lobby, online, downstream>>
  BY DEF ClientsSound, ServerSound, TakeCloseRoom, Requested
<1>2. mailbox' \in [Lobbies -> Seq(Mail)]
  BY ToHandler DEF TakeCloseRoom
<1>3. m_handler' \in [Clients -> Lobbies \cup {Null}]
  BY <1>1 DEF TakeCloseRoom, ClientTypeOK
<1> QED BY <1>1, <1>2, <1>3, TakenType, SameRooms
        DEF ClientsSound, ServerSound, ClientTypeOK, LobbyTypeOK

(***************************************************************************)
(* So does the end of the connection.                                      *)
(***************************************************************************)
LEMMA TakePeerClosedStep ==
    ASSUME ClientsSound, NEW c \in Clients, TakePeerClosed(c)
    PROVE  ClientsSound'
<1>1. /\ LobbyTypeOK /\ ServerSound /\ ClientTypeOK
      /\ m_handler' = [m_handler EXCEPT ![c] = Null]
      /\ upstream' = [upstream EXCEPT ![c] = << >>]
      /\ UNCHANGED <<m_lobbies, lobby, online, downstream>>
  BY DEF ClientsSound, ServerSound, TakePeerClosed
<1>2. mailbox' \in [Lobbies -> Seq(Mail)]
  BY ToHandler DEF TakePeerClosed
<1>3. ClientTypeOK'
  BY <1>1 DEF ClientTypeOK
<1> QED BY <1>1, <1>2, <1>3, SameRooms
        DEF ClientsSound, ServerSound, LobbyTypeOK

(***************************************************************************)
(* Requests that come in other chunks than they were sent in.              *)
(***************************************************************************)
ChunkStep(c) == TakeTwo(c) \/ TakeHalf(c) \/ TakeRest(c)

LEMMA ChunkStepSound ==
    ASSUME ClientsSound, NEW c \in Clients, ChunkStep(c)
    PROVE  ClientsSound'
<1>1. /\ LobbyTypeOK /\ ServerSound /\ ClientTypeOK
      /\ UNCHANGED <<m_lobbies, lobby, mailbox, online, m_handler>>
  BY DEF ClientsSound, ServerSound, ChunkStep, TakeTwo, TakeHalf, TakeRest
<1>2. upstream[c] \in Seq(Requests)
  BY <1>1 DEF ClientTypeOK
<1>3. upstream' \in [Clients -> Seq(Requests)]
  <2>1. CASE TakeTwo(c)
    <3>1. PICK i \in 1..2 :
            upstream' = [upstream EXCEPT ![c] = RemoveAt(@, i)]
      BY <2>1 DEF TakeTwo
    <3>2. RemoveAt(upstream[c], i) \in Seq(Requests)
      BY <1>2, <2>1 DEF RemoveAt, TakeTwo
    <3> QED BY <1>1, <3>1, <3>2 DEF ClientTypeOK
  <2>2. CASE TakeHalf(c)
    <3> DEFINE rest == [type |-> "Rest"]
    <3>1. rest \in Requests
      BY DEF Requests
    <3>2. upstream' = [upstream EXCEPT ![c] = <<rest>> \o Tail(@)]
          /\ upstream[c] # << >>
      BY <2>2 DEF TakeHalf
    <3> HIDE DEF rest
    <3>3. <<rest>> \o Tail(upstream[c]) \in Seq(Requests)
      BY <1>2, <3>1, <3>2
    <3> QED BY <1>1, <3>2, <3>3 DEF ClientTypeOK
  <2>3. CASE TakeRest(c)
    BY <1>1, <2>3, TakenType DEF TakeRest, Requested
  <2> QED BY <2>1, <2>2, <2>3 DEF ChunkStep
<1>4. downstream' \in [Clients -> Seq(Notes)]
  <2>1. UNCHANGED downstream \/ Reply(c, [type |-> "SUCK"])
    BY DEF ChunkStep, TakeTwo, TakeHalf, TakeRest
  <2> QED BY <1>1, <2>1, ReplyType, NotesWritten DEF LobbyTypeOK
<1> QED BY <1>1, <1>3, <1>4, SameRooms
        DEF ClientsSound, ServerSound, ClientTypeOK, LobbyTypeOK

(***************************************************************************)
(* Whatever a Client actor handles, types and directory stay sound.        *)
(***************************************************************************)
LEMMA ClientActorSound ==
    ASSUME ClientsSound, NEW c \in Clients, ClientActorStep(c)
    PROVE  ClientsSound'
BY TakeCreateRoomStep, TakeJoinRoomStep, TakeEnvelopStep, TakeCloseRoomStep,
   TakePeerClosedStep, ChunkStepSound DEF ClientActorStep, ChunkStep

-----------------------------------------------------------------------------
(***************************************************************************)
(* What the calls of the API rely on: a name to take when the answer       *)
(* comes, and a room and a name as long as mIsJoined.                      *)
(***************************************************************************)
GoodApi(a) ==
    /\ a.call \in {"createRoom", "joinRoom"} => a.asked # Null
    /\ a.mIsJoined => a.mMyRoom # Null /\ a.mPlayerName # Null

ApiSound == \A c \in Clients : GoodApi(api[c])

(***************************************************************************)
(* The inductive invariant of the system. TypeOK alone is not inductive:   *)
(* the answer to createRoom stores a name that was asked, and calls put    *)
(* mMyRoom.name into an Envelop. RoomsFilled and DirectoryExact need each  *)
(* other.                                                                  *)
(***************************************************************************)
IInv == TypeOK /\ ApiSound /\ RoomsFilled /\ DirectoryExact

(***************************************************************************)
(* What the invariant says of the object of a client.                      *)
(***************************************************************************)
LEMMA ApiOf ==
    ASSUME IInv, NEW c \in Clients
    PROVE  /\ api[c] \in ApiState
           /\ GoodApi(api[c])
           /\ api[c].calls \in Nat
           /\ api[c].mMyRoom # Null =>
                /\ api[c].mMyRoom \in RoomInfos
                /\ api[c].mMyRoom.name \in RoomNames
           /\ api[c].mIsJoined =>
                /\ api[c].mMyRoom # Null
                /\ api[c].mPlayerName \in Names
<1>1. api[c] \in ApiState /\ GoodApi(api[c])
  BY DEF IInv, TypeOK, ApiSound
<1>2. api[c].calls \in Nat
  BY <1>1, BoundsAssumption DEF ApiState
<1> QED BY <1>1, <1>2 DEF ApiState, GoodApi, RoomInfos

(***************************************************************************)
(* A step of the API changes nothing of the server.                        *)
(***************************************************************************)
LEMMA ApiChanged ==
    ASSUME IInv, NEW c \in Clients, NEW a \in ApiState, GoodApi(a),
           api' = [api EXCEPT ![c] = a],
           upstream' \in [Clients -> Seq(Requests)],
           downstream' \in [Clients -> Seq(Notes)],
           online' \in [Clients -> BOOLEAN],
           roomsAsked' \in 0..Cardinality(Lobbies),
           UNCHANGED <<m_lobbies, lobby, mailbox, m_handler>>
    PROVE  IInv'
<1>1. api \in [Clients -> ApiState] /\ ServerSound
  BY DEF IInv, TypeOK, ServerSound
<1>2. api' \in [Clients -> ApiState] /\ ApiSound'
  BY <1>1 DEF IInv, ApiSound
<1>3. LobbyTypeOK' /\ RoomsFilled' /\ DirectoryExact'
  BY <1>1, SameRooms DEF ServerSound, LobbyTypeOK
<1>4. ClientTypeOK'
  BY DEF IInv, TypeOK, ClientTypeOK
<1> QED BY <1>2, <1>3, <1>4 DEF IInv, TypeOK

(***************************************************************************)
(* The object of a client after one more call.                             *)
(***************************************************************************)
LEMMA CountedType ==
    ASSUME IInv, NEW c \in Clients, api[c].calls > 0
    PROVE  Counted(c) \in ApiState /\ GoodApi(Counted(c))
<1>1. /\ api[c] \in ApiState /\ GoodApi(api[c])
      /\ api[c].calls \in 0..MaxCalls
      /\ MaxCalls \in Nat
  BY ApiOf, BoundsAssumption DEF ApiState
<1>2. api[c].calls - 1 \in 0..MaxCalls
  BY <1>1
<1> QED BY <1>1, <1>2 DEF Counted, ApiState, GoodApi

(***************************************************************************)
(* Lobby::createRoom, until it blocks.                                     *)
(***************************************************************************)
LEMMA CreateRoomStep ==
    ASSUME IInv, NEW c \in Clients, CreateRoom(c)
    PROVE  IInv'
<1>1. PICK name \in Names, room \in RoomNames, limits \in Limits :
        /\ Send(c, [type |-> "CreateRoom", name |-> name, room |-> room,
                    limits |-> limits])
        /\ api' = [api EXCEPT ![c] = [Counted(c) EXCEPT
                      !.call = "createRoom", !.asked = name]]
  BY DEF CreateRoom
<1> DEFINE a == [Counted(c) EXCEPT !.call = "createRoom", !.asked = name]
<1>2. a \in ApiState /\ GoodApi(a)
  <2>1. Counted(c) \in ApiState /\ GoodApi(Counted(c))
    BY CountedType DEF CreateRoom, MayCall
  <2> QED BY <2>1, NullAssumption DEF ApiState, GoodApi
<1>3. upstream' \in [Clients -> Seq(Requests)]
  <2>1. [type |-> "CreateRoom", name |-> name, room |-> room,
         limits |-> limits] \in Requests
    BY DEF Requests
  <2> QED BY <1>1, <2>1, SendType DEF IInv, TypeOK
<1>4. roomsAsked' \in 0..Cardinality(Lobbies)
  <2>1. Cardinality(Lobbies) \in Nat
    BY BoundsAssumption, FS_CardinalityType
  <2> QED BY <2>1 DEF CreateRoom, IInv, TypeOK
<1>5. /\ UNCHANGED <<m_lobbies, lobby, mailbox, m_handler>>
      /\ UNCHANGED <<downstream, online>>
  BY DEF CreateRoom, UnchangedButUpstream
<1> HIDE DEF a
<1> QED BY <1>1, <1>2, <1>3, <1>4, <1>5, ApiChanged
        DEF a, IInv, TypeOK, LobbyTypeOK

(***************************************************************************)
(* Lobby::joinRoom, until it blocks.                                       *)
(***************************************************************************)
LEMMA JoinRoomStep ==
    ASSUME IInv, NEW c \in Clients, JoinRoom(c)
    PROVE  IInv'
<1>1. PICK name \in Names, room \in RoomNames :
        /\ Send(c, [type |-> "JoinRoom", name |-> name, room |-> room])
        /\ api' = [api EXCEPT ![c] = [Counted(c) EXCEPT
                      !.call = "joinRoom", !.asked = name]]
  BY DEF JoinRoom
<1> DEFINE a == [Counted(c) EXCEPT !.call = "joinRoom", !.asked = name]
<1>2. a \in ApiState /\ GoodApi(a)
  <2>1. Counted(c) \in ApiState /\ GoodApi(Counted(c))
    BY CountedType DEF JoinRoom, MayCall
  <2> QED BY <2>1, NullAssumption DEF ApiState, GoodApi
<1>3. upstream' \in [Clients -> Seq(Requests)]
  <2>1. [type |-> "JoinRoom", name |-> name, room |-> room] \in Requests
    BY DEF Requests
  <2> QED BY <1>1, <2>1, SendType DEF IInv, TypeOK
<1>4. /\ UNCHANGED <<m_lobbies, lobby, mailbox, m_handler>>
      /\ UNCHANGED <<downstream, online, roomsAsked>>
  BY DEF JoinRoom, UnchangedButUpstream
<1> HIDE DEF a
<1> QED BY <1>1, <1>2, <1>3, <1>4, ApiChanged
        DEF a, IInv, TypeOK, LobbyTypeOK

(***************************************************************************)
(* tryReceive keeps the type of what is left to read.                      *)
(***************************************************************************)
LEMMA ReadsType ==
    ASSUME LobbyTypeOK, NEW c \in Clients, downstream[c] # << >>,
           NEW n \in 1..MaxRead, Reads(c, n)
    PROVE  /\ downstream' \in [Clients -> Seq(Notes)]
           /\ Head(downstream[c]) \in Notes
<1>1. downstream[c] \in Seq(Notes) /\ n \in Nat /\ n <= Len(downstream[c])
  BY BoundsAssumption DEF LobbyTypeOK, Reads
<1>2. SubSeq(downstream[c], n + 1, Len(downstream[c])) \in Seq(Notes)
  BY <1>1
<1>3. Head(downstream[c]) \in Notes
  BY <1>1, HeadTailProperties
<1> QED BY <1>2, <1>3 DEF LobbyTypeOK, Reads

(***************************************************************************)
(* createRoom or joinRoom returns with an answer: mIsJoined is set         *)
(* together with mMyRoom and mPlayerName.                                  *)
(***************************************************************************)
LEMMA AnsweredStep ==
    ASSUME IInv, NEW c \in Clients, Answered(c)
    PROVE  IInv'
<1> DEFINE note == Head(downstream[c])
           returned == [api[c] EXCEPT !.call = "none", !.asked = Null]
           joined == [returned EXCEPT
                        !.mMyRoom = note.room,
                        !.mPlayerName = api[c].asked,
                        !.mIsJoined = TRUE,
                        !.mIsHost = (api[c].call = "createRoom")]
<1>1. /\ LobbyTypeOK
      /\ api[c].call \in {"createRoom", "joinRoom"}
      /\ downstream[c] # << >>
      /\ \E n \in 1..MaxRead : Reads(c, n)
      /\ UNCHANGED <<m_lobbies, lobby, mailbox, m_handler>>
      /\ UNCHANGED <<online, upstream, roomsAsked>>
      /\ \/ /\ note.type = "RoomInfo"
            /\ api' = [api EXCEPT ![c] = joined]
         \/ api' = [api EXCEPT ![c] = returned]
  BY DEF Answered, IInv, TypeOK
<1>2. downstream' \in [Clients -> Seq(Notes)] /\ note \in Notes
  BY <1>1, ReadsType
<1>3. /\ upstream' \in [Clients -> Seq(Requests)]
      /\ online' \in [Clients -> BOOLEAN]
      /\ roomsAsked' \in 0..Cardinality(Lobbies)
  BY <1>1 DEF IInv, TypeOK, ClientTypeOK, LobbyTypeOK
<1>4. api[c] \in ApiState /\ GoodApi(api[c]) /\ api[c].asked \in Names
  <2>1. api[c] \in ApiState /\ GoodApi(api[c])
    BY ApiOf
  <2> QED BY <1>1, <2>1 DEF ApiState, GoodApi
<1>5. returned \in ApiState /\ GoodApi(returned)
  BY <1>4 DEF ApiState, GoodApi
<1>6. CASE note.type = "RoomInfo" /\ api' = [api EXCEPT ![c] = joined]
  <2>1. note.room \in RoomInfos
    BY <1>2, <1>6, NoteFields
  <2> HIDE DEF note
  <2>2. joined \in ApiState
    BY <1>4, <2>1 DEF ApiState
  <2>3. GoodApi(joined)
    BY <1>4, <2>1, NullAssumption DEF ApiState, GoodApi
  <2> HIDE DEF joined
  <2> QED BY <1>1, <1>2, <1>3, <1>6, <2>2, <2>3, ApiChanged
<1>7. CASE api' = [api EXCEPT ![c] = returned]
  <2> HIDE DEF returned
  <2> QED BY <1>1, <1>2, <1>3, <1>5, <1>7, ApiChanged
<1> QED BY <1>1, <1>6, <1>7

(***************************************************************************)
(* createRoom or joinRoom returns without an answer.                       *)
(***************************************************************************)
LEMMA TimedOutStep ==
    ASSUME IInv, NEW c \in Clients, TimedOut(c)
    PROVE  IInv'
<1> DEFINE returned == [api[c] EXCEPT !.call = "none", !.asked = Null]
<1>1. api[c] \in ApiState /\ GoodApi(api[c]) /\ api \in [Clients -> ApiState]
  BY ApiOf DEF IInv, TypeOK
<1>2. returned \in ApiState /\ GoodApi(returned)
  BY <1>1 DEF ApiState, GoodApi
<1>3. api' = [api EXCEPT ![c] = returned]
  BY <1>1 DEF TimedOut, ApiState
<1>4. /\ UNCHANGED <<m_lobbies, lobby, mailbox, m_handler>>
      /\ UNCHANGED <<online, downstream, upstream, roomsAsked>>
  BY DEF TimedOut
<1> HIDE DEF returned
<1> QED BY <1>2, <1>3, <1>4, ApiChanged
        DEF IInv, TypeOK, ClientTypeOK, LobbyTypeOK

(***************************************************************************)
(* A call that only sends.                                                 *)
(***************************************************************************)
LEMMA OnlySent ==
    ASSUME IInv, NEW c \in Clients, api[c].calls > 0,
           NEW r \in Requests, Send(c, r), Called(c),
           UnchangedButUpstream, UNCHANGED roomsAsked
    PROVE  IInv'
<1>1. Counted(c) \in ApiState /\ GoodApi(Counted(c))
  BY CountedType
<1>2. upstream' \in [Clients -> Seq(Requests)]
  BY SendType DEF IInv, TypeOK
<1>3. /\ UNCHANGED <<m_lobbies, lobby, mailbox, m_handler>>
      /\ UNCHANGED <<downstream, online, roomsAsked>>
  BY DEF UnchangedButUpstream
<1> QED BY <1>1, <1>2, <1>3, ApiChanged
        DEF Called, IInv, TypeOK, LobbyTypeOK

(***************************************************************************)
(* An Envelop names the room of the client.                                *)
(***************************************************************************)
LEMMA EnvelopType ==
    ASSUME IInv, NEW c \in Clients, api[c].mMyRoom # Null, NEW mail \in Mail
    PROVE  [type |-> "Envelop", room |-> api[c].mMyRoom.name, mail |-> mail]
               \in Requests
<1>1. api[c].mMyRoom.name \in RoomNames
  BY ApiOf
<1> QED BY <1>1 DEF Requests

(***************************************************************************)
(* A call that only sends an Envelop.                                      *)
(***************************************************************************)
LEMMA EnvelopSent ==
    ASSUME IInv, NEW c \in Clients, api[c].calls > 0, api[c].mMyRoom # Null,
           NEW mail \in Mail, SendEnvelop(c, mail), Called(c),
           UnchangedButUpstream, UNCHANGED roomsAsked
    PROVE  IInv'
BY EnvelopType, OnlySent DEF SendEnvelop

(***************************************************************************)
(* Lobby::reconfigure.                                                     *)
(***************************************************************************)
LEMMA ReconfigureCallStep ==
    ASSUME IInv, NEW c \in Clients, Reconfigure(c)
    PROVE  IInv'
<1>1. PICK limits \in Limits :
        SendEnvelop(c, [type |-> "Reconfigure", sender |-> c,
                        limits |-> limits])
  BY DEF Reconfigure
<1>2. [type |-> "Reconfigure", sender |-> c, limits |-> limits] \in Mail
  BY DEF Mail
<1>3. api[c].calls > 0 /\ api[c].mMyRoom # Null
  BY ApiOf DEF Reconfigure, MayCall, IsHost
<1> QED BY <1>1, <1>2, <1>3, EnvelopSent DEF Reconfigure

(***************************************************************************)
(* Lobby::eject.                                                           *)
(***************************************************************************)
LEMMA EjectStep ==
    ASSUME IInv, NEW c \in Clients, Eject(c)
    PROVE  IInv'
<1>1. PICK name \in Names :
        SendEnvelop(c, [type |-> "EjectPlayer", sender |-> c, name |-> name])
  BY DEF Eject
<1>2. [type |-> "EjectPlayer", sender |-> c, name |-> name] \in Mail
  BY DEF Mail
<1>3. api[c].calls > 0 /\ api[c].mMyRoom # Null
  BY ApiOf DEF Eject, MayCall, IsHost
<1> QED BY <1>1, <1>2, <1>3, EnvelopSent DEF Eject

(***************************************************************************)
(* Lobby::closeRoom.                                                       *)
(***************************************************************************)
LEMMA CloseRoomStep ==
    ASSUME IInv, NEW c \in Clients, CloseRoom(c)
    PROVE  IInv'
<1>1. [type |-> "CloseRoom"] \in Requests
  BY DEF Requests
<1> QED BY <1>1, OnlySent DEF CloseRoom, MayCall

(***************************************************************************)
(* Lobby::startSession.                                                    *)
(***************************************************************************)
LEMMA StartSessionCallStep ==
    ASSUME IInv, NEW c \in Clients, StartSession(c)
    PROVE  IInv'
<1>1. [type |-> "StartSession", sender |-> c] \in Mail
  BY DEF Mail
<1> QED BY <1>1, EnvelopSent DEF StartSession, MayCall

(***************************************************************************)
(* Lobby::say.                                                             *)
(***************************************************************************)
LEMMA SayStep ==
    ASSUME IInv, NEW c \in Clients, Say(c)
    PROVE  IInv'
<1>1. PICK toSelf \in BOOLEAN :
        SendEnvelop(c, [type |-> "Message", sender |-> c,
                        name |-> api[c].mPlayerName, toSelf |-> toSelf])
  BY DEF Say
<1>2. /\ api[c].calls > 0 /\ api[c].mMyRoom # Null
      /\ api[c].mPlayerName \in Names
  BY ApiOf DEF Say, MayCall
<1>3. [type |-> "Message", sender |-> c, name |-> api[c].mPlayerName,
       toSelf |-> toSelf] \in Mail
  BY <1>2 DEF Mail
<1> QED BY <1>1, <1>2, <1>3, EnvelopSent DEF Say

(***************************************************************************)
(* Lobby::leaveRoom.                                                       *)
(***************************************************************************)
LEMMA LeaveRoomCallStep ==
    ASSUME IInv, NEW c \in Clients, LeaveRoom(c)
    PROVE  IInv'
<1> DEFINE a == [Counted(c) EXCEPT !.mIsJoined = FALSE, !.left = TRUE]
<1>1. api[c].calls > 0 /\ api[c].mMyRoom # Null
  BY ApiOf DEF LeaveRoom, MayCall
<1>2. a \in ApiState /\ GoodApi(a)
  <2>1. Counted(c) \in ApiState /\ GoodApi(Counted(c))
    BY <1>1, CountedType
  <2> QED BY <2>1 DEF ApiState, GoodApi
<1>3. upstream' \in [Clients -> Seq(Requests)]
  <2>1. LeaveMail(c) \in Mail
    BY DEF LeaveMail, Mail
  <2> QED BY <1>1, <2>1, EnvelopType, SendType
          DEF LeaveRoom, SendEnvelop, IInv, TypeOK
<1>4. /\ UNCHANGED <<m_lobbies, lobby, mailbox, m_handler>>
      /\ UNCHANGED <<downstream, online, roomsAsked>>
  BY DEF LeaveRoom, UnchangedButUpstream
<1>5. api' = [api EXCEPT ![c] = a]
  BY DEF LeaveRoom
<1> HIDE DEF a
<1> QED BY <1>2, <1>3, <1>4, <1>5, ApiChanged DEF IInv, TypeOK, LobbyTypeOK

(***************************************************************************)
(* Lobby::receive: what changes mMyRoom is a RoomInfo.                     *)
(***************************************************************************)
LEMMA ReceiveStep ==
    ASSUME IInv, NEW c \in Clients, Receive(c)
    PROVE  IInv'
<1> DEFINE note == Head(downstream[c])
           updated == [api[c] EXCEPT !.mMyRoom = note.room]
           ejected == [api[c] EXCEPT !.mIsJoined = FALSE]
<1>1. /\ LobbyTypeOK
      /\ downstream[c] # << >>
      /\ \E n \in 1..MaxRead : Reads(c, n)
      /\ UNCHANGED <<m_lobbies, lobby, mailbox, m_handler>>
      /\ UNCHANGED <<online, upstream, roomsAsked>>
      /\ \/ /\ note.type \in {"Update", "ReconfigureSucc"}
            /\ api' = [api EXCEPT ![c].mMyRoom = note.room]
         \/ api' = [api EXCEPT ![c].mIsJoined = FALSE]
         \/ UNCHANGED api
  BY DEF Receive, IInv, TypeOK
<1>2. downstream' \in [Clients -> Seq(Notes)] /\ note \in Notes
  BY <1>1, ReadsType
<1>3. /\ upstream' \in [Clients -> Seq(Requests)]
      /\ online' \in [Clients -> BOOLEAN]
      /\ roomsAsked' \in 0..Cardinality(Lobbies)
  BY <1>1 DEF IInv, TypeOK, ClientTypeOK, LobbyTypeOK
<1>4. api[c] \in ApiState /\ GoodApi(api[c]) /\ api \in [Clients -> ApiState]
  BY ApiOf DEF IInv, TypeOK
<1>5. CASE /\ note.type \in {"Update", "ReconfigureSucc"}
           /\ api' = [api EXCEPT ![c].mMyRoom = note.room]
  <2>1. note.room \in RoomInfos
    BY <1>2, <1>5, NoteFields
  <2> HIDE DEF note
  <2>2. updated \in ApiState /\ GoodApi(updated)
    BY <1>4, <2>1, NullAssumption DEF ApiState, GoodApi
  <2>3. api' = [api EXCEPT ![c] = updated]
    BY <1>5
  <2> HIDE DEF updated
  <2> QED BY <1>1, <1>2, <1>3, <2>2, <2>3, ApiChanged
<1>6. CASE api' = [api EXCEPT ![c].mIsJoined = FALSE]
  <2>1. ejected \in ApiState /\ GoodApi(ejected)
    BY <1>4 DEF ApiState, GoodApi
  <2>2. api' = [api EXCEPT ![c] = ejected]
    BY <1>6
  <2> HIDE DEF ejected
  <2> QED BY <1>1, <1>2, <1>3, <2>1, <2>2, ApiChanged
<1>7. CASE UNCHANGED api
  <2>1. api' = [api EXCEPT ![c] = api[c]]
    BY <1>4, <1>7
  <2> QED BY <1>1, <1>2, <1>3, <1>4, <2>1, ApiChanged
<1> QED BY <1>1, <1>5, <1>6, <1>7

(***************************************************************************)
(* The end of a client, however it comes.                                  *)
(***************************************************************************)
LEMMA GoneKeeps ==
    ASSUME IInv, NEW c \in Clients, Gone(c),
           upstream' \in [Clients -> Seq(Requests)]
    PROVE  IInv'
<1>1. NewApi("destroyed") \in ApiState /\ GoodApi(NewApi("destroyed"))
  BY BoundsAssumption DEF NewApi, ApiState, GoodApi
<1>2. downstream' \in [Clients -> Seq(Notes)]
  <2>1. << >> \in Seq(Notes)
    OBVIOUS
  <2> QED BY <2>1 DEF Gone, IInv, TypeOK, LobbyTypeOK
<1>3. online' \in [Clients -> BOOLEAN]
  BY DEF Gone, IInv, TypeOK, LobbyTypeOK
<1> QED BY <1>1, <1>2, <1>3, ApiChanged DEF Gone, IInv, TypeOK

(***************************************************************************)
(* The destructor of Lobby.                                                *)
(***************************************************************************)
LEMMA DestroyStep ==
    ASSUME IInv, NEW c \in Clients, Destroy(c)
    PROVE  IInv'
<1> DEFINE leave == IF api[c].mIsJoined
                    THEN <<[type |-> "Envelop", room |-> api[c].mMyRoom.name,
                            mail |-> LeaveMail(c)]>>
                    ELSE << >>
           closed == <<[type |-> "PeerClosed"]>>
<1>1. leave \in Seq(Requests)
  <2>1. CASE api[c].mIsJoined
    <3>1. api[c].mMyRoom # Null /\ LeaveMail(c) \in Mail
      BY <2>1, ApiOf DEF LeaveMail, Mail
    <3> QED BY <2>1, <3>1, EnvelopType
  <2>2. CASE ~api[c].mIsJoined
    BY <2>2
  <2> QED BY <2>1, <2>2
<1>2. closed \in Seq(Requests)
  BY DEF Requests
<1>3. /\ Gone(c)
      /\ upstream' = [upstream EXCEPT ![c] = @ \o leave \o closed]
  BY DEF Destroy
<1> HIDE DEF leave, closed
<1>4. upstream \in [Clients -> Seq(Requests)] /\ upstream[c] \in Seq(Requests)
  BY DEF IInv, TypeOK, ClientTypeOK
<1>5. upstream[c] \o leave \o closed \in Seq(Requests)
  BY <1>1, <1>2, <1>4, ConcatProperties
<1>6. upstream' \in [Clients -> Seq(Requests)]
  BY <1>3, <1>4, <1>5
<1> QED BY <1>3, <1>6, GoneKeeps

(***************************************************************************)
(* A crash of the client.                                                  *)
(***************************************************************************)
LEMMA ConnectionLostStep ==
    ASSUME IInv, NEW c \in Clients, ConnectionLost(c)
    PROVE  IInv'
<1> DEFINE closed == <<[type |-> "PeerClosed"]>>
<1>1. PICK n \in 0..Len(upstream[c]) :
        upstream' = [upstream EXCEPT ![c] = SubSeq(@, 1, n) \o closed]
  BY DEF ConnectionLost
<1>2. closed \in Seq(Requests)
  BY DEF Requests
<1> HIDE DEF closed
<1>3. upstream \in [Clients -> Seq(Requests)] /\ upstream[c] \in Seq(Requests)
  BY DEF IInv, TypeOK, ClientTypeOK
<1>4. SubSeq(upstream[c], 1, n) \in Seq(Requests)
  BY <1>3
<1>5. SubSeq(upstream[c], 1, n) \o closed \in Seq(Requests)
  BY <1>2, <1>4, ConcatProperties
<1>6. upstream' \in [Clients -> Seq(Requests)]
  BY <1>1, <1>3, <1>5
<1> QED BY <1>6, GoneKeeps DEF ConnectionLost

(***************************************************************************)
(* Every step of a client keeps the invariant.                             *)
(***************************************************************************)
LEMMA ApiStepSound ==
    ASSUME IInv, NEW c \in Clients, ApiStep(c)
    PROVE  IInv'
BY CreateRoomStep, JoinRoomStep, AnsweredStep, TimedOutStep,
   ReconfigureCallStep, EjectStep, CloseRoomStep, StartSessionCallStep,
   SayStep, LeaveRoomCallStep, ReceiveStep, DestroyStep, ConnectionLostStep
   DEF ApiStep

(***************************************************************************)
(* The invariant holds at the start.                                       *)
(***************************************************************************)
LEMMA InitSound == Init => IInv
<1> SUFFICES ASSUME Init PROVE IInv
  OBVIOUS
<1>1. << >> \in Seq(Mail) /\ << >> \in Seq(Notes) /\ << >> \in Seq(Requests)
  OBVIOUS
<1>2. Unborn \in LobbyState /\ Unborn.phase = "unborn"
  <2>1. << >> \in Seq(PlayerInfo)
    OBVIOUS
  <2> QED BY <2>1 DEF Unborn, LobbyState, Phases
<1>3. LobbyTypeOK /\ RoomsFilled /\ DirectoryExact
  BY <1>1, <1>2 DEF Init, LobbyInit, DepotInit, LobbyTypeOK, DepotTypeOK,
                    RoomsFilled, DirectoryExact, Running, Registered
<1>4. ClientTypeOK
  BY <1>1 DEF Init, ClientInit, ClientTypeOK
<1>5. NewApi("none") \in ApiState /\ GoodApi(NewApi("none"))
  BY BoundsAssumption DEF NewApi, ApiState, GoodApi
<1>6. api \in [Clients -> ApiState] /\ ApiSound
  BY <1>5 DEF Init, ApiSound
<1>7. roomsAsked \in 0..Cardinality(Lobbies)
  BY BoundsAssumption, FS_CardinalityType DEF Init
<1> QED BY <1>3, <1>4, <1>6, <1>7 DEF IInv, TypeOK

(***************************************************************************)
(* Every step of the system keeps the invariant.                           *)
(***************************************************************************)
LEMMA NextSound == IInv /\ [Next]_vars => IInv'
<1> SUFFICES ASSUME IInv, [Next]_vars PROVE IInv'
  OBVIOUS
<1>1. ASSUME NEW c \in Clients, ApiStep(c) PROVE IInv'
  BY <1>1, ApiStepSound
<1>2. ASSUME NEW c \in Clients, ServerClientStep(c) PROVE IInv'
  <2>1. ClientsSound'
    BY <1>2, ClientActorSound
       DEF ServerClientStep, ClientsSound, ServerSound, IInv, TypeOK
  <2> QED BY <1>2, <2>1 DEF ServerClientStep, ClientsSound, ServerSound,
                            IInv, TypeOK, ApiSound
<1>3. ASSUME NEW l \in Lobbies, ServerLobbyStep(l) PROVE IInv'
  <2>1. ServerSound'
    BY <1>3, LobbyActorSound DEF ServerLobbyStep, ServerSound, IInv, TypeOK
  <2> QED BY <1>3, <2>1 DEF ServerLobbyStep, ServerSound, IInv, TypeOK,
                            ApiSound, ClientTypeOK
<1>4. CASE UNCHANGED vars
  <2>1. DepotTypeOK' /\ RoomsFilled' /\ DirectoryExact'
    BY <1>4, SameRooms DEF vars, ServerSound, IInv, TypeOK
  <2> QED BY <1>4, <2>1 DEF vars, IInv, TypeOK, ApiSound, LobbyTypeOK,
                            ClientTypeOK
<1> QED BY <1>1, <1>2, <1>3, <1>4 DEF Next

(***************************************************************************)
(* The inductive invariant holds in every state: types, the directory, and *)
(* what the handlers rely on.                                              *)
(***************************************************************************)
THEOREM InvariantTheorem == Spec => []IInv
BY InitSound, NextSound, PTL DEF Spec

(***************************************************************************)
(* Every state of the system, whatever the clients, rooms and limits, has  *)
(* the types of TypeOK. In particular the host and the players of every    *)
(* RoomInfo that is sent exist, so getHost and head of LobbyActor2 never   *)
(* meet an empty list.                                                     *)
(***************************************************************************)
THEOREM TypeTheorem == Spec => []TypeOK
<1>1. IInv => TypeOK
  BY DEF IInv
<1> QED BY <1>1, InvariantTheorem, PTL

(***************************************************************************)
(* The directory of Depot.scala and the running LobbyActor2 actors are the *)
(* same thing in every state: no entry outlives its room, no running room  *)
(* lacks its entry, and no room unregisters the entry of another.          *)
(***************************************************************************)
THEOREM DirectoryTheorem == Spec => []DirectoryExact
<1>1. IInv => DirectoryExact
  BY DEF IInv
<1> QED BY <1>1, InvariantTheorem, PTL

-----------------------------------------------------------------------------
(***************************************************************************)
(* In every step of the system a room changes, if at all, in one of the    *)
(* ways of RoomTransition.                                                 *)
(***************************************************************************)
LEMMA StepTransition ==
    ASSUME IInv, [Next]_vars, NEW l \in Lobbies
    PROVE  RoomTransition(l)
<1>0. ServerSound /\ LobbyTypeOK
  BY DEF IInv, TypeOK, ServerSound
<1>1. ASSUME NEW c \in Clients, ApiStep(c) PROVE UNCHANGED lobby
  BY <1>1 DEF ApiStep, CreateRoom, JoinRoom, Answered, TimedOut, Reconfigure,
              Eject, CloseRoom, StartSession, Say, LeaveRoom, Receive,
              Destroy, ConnectionLost, Gone, UnchangedButUpstream
<1>2. ASSUME NEW c \in Clients, ClientActorStep(c) PROVE RoomTransition(l)
  <2>1. CASE TakeCreateRoom(c)
    <3> DEFINE k == CHOOSE k \in Lobbies : lobby[k].phase = "unborn"
    <3>1. k \in Lobbies /\ lobby' = [lobby EXCEPT ![k].phase = "initial"]
      BY <2>1 DEF TakeCreateRoom
    <3> HIDE DEF k
    <3>2. lobby'[l] = lobby[l] \/ lobby'[l].phase = "initial"
      BY <1>0, <3>1 DEF LobbyTypeOK, LobbyState
    <3> QED BY <3>2 DEF RoomTransition
  <2>2. CASE UNCHANGED lobby
    BY <2>2, UnchangedLobby
  <2> QED BY <1>2, <2>1, <2>2 DEF ClientActorStep, TakeJoinRoom, TakeEnvelop,
                                  TakeCloseRoom, TakePeerClosed, TakeTwo,
                                  TakeHalf, TakeRest
<1>3. ASSUME NEW k \in Lobbies, LobbyActorStep(k) PROVE RoomTransition(l)
  <2>1. RoomTransition(k) /\ OthersKept(k)
    BY <1>0, <1>3, LobbyActorTransition
  <2>2. CASE l = k
    BY <2>1, <2>2
  <2>3. CASE l # k
    BY <2>1, <2>3 DEF OthersKept, RoomTransition
  <2> QED BY <2>2, <2>3
<1> QED BY <1>1, <1>2, <1>3, UnchangedLobby
        DEF Next, vars, ServerClientStep, ServerLobbyStep

AllRoomsSound == \A l \in Lobbies : Running(l) => SoundRoom(lobby[l])

(***************************************************************************)
(* So the rooms stay sound.                                                *)
(***************************************************************************)
LEMMA StepSound ==
    ASSUME IInv, AllRoomsSound, [Next]_vars
    PROVE  AllRoomsSound'
<1> SUFFICES ASSUME NEW l \in Lobbies, lobby'[l].phase = "running"
             PROVE  SoundRoom(lobby'[l])
  BY DEF AllRoomsSound, Running, SoundRoom, Capacity
<1> QED BY StepTransition, TransitionSound
        DEF AllRoomsSound, IInv, TypeOK, ServerSound

(***************************************************************************)
(* Every running LobbyActor2 has a host, no more players than the slots    *)
(* that are not reserved, and no two players of one name.                  *)
(***************************************************************************)
THEOREM RoomsTheorem == Spec => []RoomsSound
<1>1. Init => AllRoomsSound
  BY DEF Init, LobbyInit, AllRoomsSound, Running, Unborn
<1>2. IInv /\ AllRoomsSound /\ [Next]_vars => AllRoomsSound'
  BY StepSound
<1>3. IInv /\ AllRoomsSound => RoomsSound
  BY RoomsSoundMeans DEF IInv, TypeOK, AllRoomsSound
<1> QED BY <1>1, <1>2, <1>3, InvariantTheorem, PTL DEF Spec

(***************************************************************************)
(* The host of a LobbyActor2 changes only when it goes, and the second     *)
(* player of the list, the oldest of the others, takes its place.          *)
(***************************************************************************)
THEOREM SuccessionTheorem == Spec => HostSuccession
<1>1. Init => AllRoomsSound
  BY DEF Init, LobbyInit, AllRoomsSound, Running, Unborn
<1>2. IInv /\ AllRoomsSound /\ [Next]_vars => AllRoomsSound'
  BY StepSound
<1>3. ASSUME IInv, AllRoomsSound, [Next]_vars,
             NEW l \in Lobbies, Running(l), lobby'[l].phase = "running",
             GetHost(lobby[l]) # GetHost(lobby'[l])
      PROVE  /\ Len(lobby[l].players) > 1
             /\ GetHost(lobby'[l]) = lobby[l].players[2]
             /\ GetHost(lobby[l]) \notin ToSet(lobby'[l].players)
  BY <1>3, StepTransition, TransitionSuccession
     DEF AllRoomsSound, IInv, TypeOK, ServerSound
<1>4. IInv /\ AllRoomsSound /\ [Next]_vars =>
        [\A l \in Lobbies :
            /\ Running(l) /\ Running(l)'
            /\ GetHost(lobby[l]) # GetHost(lobby'[l])
            => /\ Len(lobby[l].players) > 1
               /\ GetHost(lobby'[l]) = lobby[l].players[2]
               /\ GetHost(lobby[l]) \notin ToSet(lobby'[l].players)]_vars
  BY <1>3 DEF Running
<1> QED BY <1>1, <1>2, <1>4, InvariantTheorem, PTL DEF Spec, HostSuccession


-----------------------------------------------------------------------------
(***************************************************************************)
(* The directory shows of a running room what is so, and perhaps a player  *)
(* more.  The invariant is about the rooms and not about the entries, for  *)
(* a step is about a room; DirectoryExact leads from the one to the other. *)
(***************************************************************************)
Covers(room, info) ==
    /\ info.limits = room.limits
    /\ info.host = GetHost(room).name
    /\ NamesOf(room) \subseteq ToSet(info.players)

InfoOf(l) == m_lobbies[lobby[l].name].info

AllCovered == \A l \in Lobbies : Running(l) => Covers(lobby[l], InfoOf(l))

(***************************************************************************)
(* What a step of the actor l does to the directory: the entries of the    *)
(* other rooms stay as they are, and that of its own room covers it.       *)
(***************************************************************************)
OtherEntriesKept(l) ==
    \A r \in Registered :
        ~(Running(l) /\ r = lobby[l].name) => m_lobbies'[r] = m_lobbies[r]

OwnCovered(l) ==
    lobby'[l].phase = "running" =>
        Covers(lobby'[l], m_lobbies'[lobby'[l].name].info)

(***************************************************************************)
(* RoomInfo as makeRoomInfo makes it covers the room.                      *)
(***************************************************************************)
LEMMA CoversMade ==
    ASSUME NEW room
    PROVE  Covers(room, MakeRoomInfo(room))
BY DEF Covers, MakeRoomInfo, NamesOf, ToSet

(***************************************************************************)
(* When a player other than the first goes, the host is the same.          *)
(***************************************************************************)
LEMMA HostKept ==
    ASSUME NEW room \in LobbyState, NEW i \in 2..Len(room.players)
    PROVE  /\ GetHost(WithoutPlayer(room, i)) = GetHost(room)
           /\ NamesOf(WithoutPlayer(room, i)) \subseteq NamesOf(room)
<1> DEFINE left == WithoutPlayer(room, i)
<1>1. /\ room.players \in Seq(PlayerInfo)
      /\ Len(room.players) \in Nat /\ i \in Nat /\ i >= 2
      /\ i <= Len(room.players) /\ i \in 1..Len(room.players)
  BY DEF LobbyState
<1>2. /\ left \in LobbyState
      /\ Len(left.players) = Len(room.players) - 1
      /\ \A j \in 1..Len(left.players) :
            left.players[j] =
                IF j < i THEN room.players[j] ELSE room.players[j + 1]
  BY <1>1, WithoutPlayerType
<1> HIDE DEF left
<1>3. left.players \in Seq(PlayerInfo) /\ Len(left.players) \in Nat
  BY <1>2 DEF LobbyState
<1>4. left.players[1] = room.players[1]
  <2>1. 1 \in 1..Len(left.players) /\ 1 < i
    BY <1>1, <1>2, <1>3
  <2> QED BY <1>2, <2>1
<1>5. GetHost(left) = GetHost(room)
  BY <1>1, <1>2, <1>3, <1>4 DEF GetHost
<1>6. NamesOf(left) \subseteq NamesOf(room)
  <2> SUFFICES ASSUME NEW j \in DOMAIN left.players
               PROVE  left.players[j].name \in NamesOf(room)
    BY DEF NamesOf
  <2>1. j \in 1..Len(left.players) /\ j \in Nat
    BY <1>3
  <2>2. j \in DOMAIN room.players /\ j + 1 \in DOMAIN room.players
    BY <1>1, <1>2, <2>1
  <2>3. \/ left.players[j] = room.players[j]
        \/ left.players[j] = room.players[j + 1]
    BY <1>2, <2>1
  <2> QED BY <2>2, <2>3 DEF NamesOf
<1> QED BY <1>5, <1>6 DEF left

(***************************************************************************)
(* And the old RoomInfo still covers the room.                             *)
(***************************************************************************)
LEMMA CoversWithout ==
    ASSUME NEW room \in LobbyState, NEW i \in 2..Len(room.players),
           NEW info, Covers(room, info)
    PROVE  Covers(WithoutPlayer(room, i), info)
<1>1. i \in 1..Len(room.players)
  BY DEF LobbyState
<1>2. WithoutPlayer(room, i).limits = room.limits
  BY <1>1, WithoutPlayerType
<1> QED BY <1>2, HostKept DEF Covers

(***************************************************************************)
(* updateRoomInfo puts the new RoomInfo into the entry of that name.       *)
(***************************************************************************)
LEMMA UpdatedEntry ==
    ASSUME DepotTypeOK, NEW room \in Registered, NEW info,
           UpdateRoomInfo(room, info)
    PROVE  /\ m_lobbies'[room].info = info
           /\ \A r \in Registered \ {room} : m_lobbies'[r] = m_lobbies[r]
<1>1. /\ m_lobbies \in [RoomNames -> LobbyStats \cup {Null}]
      /\ room \in RoomNames /\ m_lobbies[room] # Null
      /\ m_lobbies' = [m_lobbies EXCEPT ![room].info = info]
  BY DEF DepotTypeOK, Registered, UpdateRoomInfo
<1>2. m_lobbies[room] \in LobbyStats
  BY <1>1
<1>3. m_lobbies'[room].info = info
  BY <1>1, <1>2 DEF LobbyStats
<1> QED BY <1>1, <1>3 DEF Registered

(***************************************************************************)
(* A handler that gives the room l another content and tells the           *)
(* directory of it.                                                        *)
(***************************************************************************)
LEMMA TellsDirectory ==
    ASSUME ServerSound, NEW l \in Lobbies, Running(l), NEW room,
           room.name = lobby[l].name,
           lobby' = [lobby EXCEPT ![l] = room],
           UpdateRoomInfo(lobby[l].name, MakeRoomInfo(room))
    PROVE  OtherEntriesKept(l) /\ OwnCovered(l)
<1>1. /\ DepotTypeOK /\ LobbyTypeOK /\ lobby[l].name \in Registered
      /\ lobby'[l] = room
  BY RunningRoom, ChangedLobby DEF ServerSound, LobbyTypeOK
<1>2. /\ m_lobbies'[lobby[l].name].info = MakeRoomInfo(room)
      /\ \A r \in Registered \ {lobby[l].name} : m_lobbies'[r] = m_lobbies[r]
  BY <1>1, UpdatedEntry
<1>3. OtherEntriesKept(l)
  BY <1>2 DEF OtherEntriesKept
<1>4. Covers(room, MakeRoomInfo(room))
  BY CoversMade
<1> QED BY <1>1, <1>2, <1>3, <1>4 DEF OwnCovered

(***************************************************************************)
(* A handler that leaves both alone.                                       *)
(***************************************************************************)
LEMMA LeavesDirectory ==
    ASSUME NEW l \in Lobbies, UNCHANGED <<m_lobbies, lobby>>,
           Running(l) => Covers(lobby[l], InfoOf(l))
    PROVE  OtherEntriesKept(l) /\ OwnCovered(l)
BY DEF OtherEntriesKept, OwnCovered, Running, InfoOf

(***************************************************************************)
(* A handler that ends the room, and takes its entry away.                 *)
(***************************************************************************)
LEMMA EndsRoom ==
    ASSUME ServerSound, NEW l \in Lobbies, Running(l),
           UnregisterLobby(lobby[l].name), Shutdown(l)
    PROVE  OtherEntriesKept(l) /\ OwnCovered(l)
<1>1. m_lobbies \in [RoomNames -> LobbyStats \cup {Null}] /\ LobbyTypeOK
  BY DEF ServerSound, LobbyTypeOK, DepotTypeOK
<1>2. OtherEntriesKept(l)
  BY <1>1 DEF OtherEntriesKept, UnregisterLobby, Registered
<1>3. lobby'[l] = Stopped
  BY <1>1, ChangedLobby DEF Shutdown
<1> QED BY <1>2, <1>3 DEF OwnCovered, Stopped, Unborn

(***************************************************************************)
(* Init: the entry is made with the room.                                  *)
(***************************************************************************)
LEMMA InitCovers ==
    ASSUME ServerSound, NEW l \in Lobbies, HandleInit(l)
    PROVE  OtherEntriesKept(l) /\ OwnCovered(l)
<1> DEFINE m == Current(l)
           p == [actor |-> m.sender, name |-> m.name]
           room == [phase |-> "running", name |-> m.room,
                    limits |-> m.limits, players |-> <<p>>]
           info == MakeRoomInfo(room)
           zombie == [room EXCEPT !.phase = "zombie"]
<1>1. LobbyTypeOK /\ DepotTypeOK
  BY DEF ServerSound, LobbyTypeOK
<1>2. m.name \in Names /\ m.room \in RoomNames /\ m.limits \in Limits
      /\ m.sender \in Clients /\ ~Running(l)
  BY <1>1, CurrentType, MailFields DEF HandleInit, Gets, Running
<1>3. room \in LobbyState /\ room.players # << >>
  <2>1. p \in PlayerInfo
    BY <1>2 DEF PlayerInfo
  <2> HIDE DEF p, m
  <2>2. <<p>> \in Seq(PlayerInfo) /\ <<p>> # << >>
    BY <2>1
  <2> QED BY <1>2, <2>2 DEF LobbyState, Phases
<1>4. info \in RoomInfos /\ info.name = room.name
  BY <1>2, <1>3, MakeRoomInfoType, NullAssumption
<1>5. /\ RegisterLobby(l, info)
      /\ \/ /\ RegisterStatus(info) = "SUCC"
            /\ lobby' = [lobby EXCEPT ![l] = room]
         \/ /\ RegisterStatus(info) # "SUCC"
            /\ lobby' = [lobby EXCEPT ![l] = zombie]
  BY DEF HandleInit
<1>6. /\ Covers(room, info)
      /\ room.name = m.room /\ zombie.phase = "zombie"
  BY CoversMade
<1> HIDE DEF info, zombie
<1>7. CASE /\ RegisterStatus(info) = "SUCC"
           /\ lobby' = [lobby EXCEPT ![l] = room]
  <2>1. /\ \A r \in Registered : m_lobbies'[r] = m_lobbies[r]
        /\ info.name \in RoomNames
    BY <1>1, <1>4, <1>5, <1>7, RegisterType
  <2>2. m_lobbies'[info.name].info = info
    BY <1>1, <1>4, <1>5, <1>7, <2>1 DEF RegisterLobby, DepotTypeOK
  <2>3. lobby'[l] = room
    BY <1>1, <1>7, ChangedLobby
  <2> HIDE DEF room
  <2> QED BY <1>4, <1>6, <2>1, <2>2, <2>3
          DEF OtherEntriesKept, OwnCovered
<1>8. CASE /\ RegisterStatus(info) # "SUCC"
           /\ lobby' = [lobby EXCEPT ![l] = zombie]
  <2>1. m_lobbies' = m_lobbies
    BY <1>1, <1>4, <1>5, <1>8, RegisterType
  <2>2. lobby'[l] = zombie
    BY <1>1, <1>8, ChangedLobby
  <2> QED BY <1>6, <2>1, <2>2 DEF OtherEntriesKept, OwnCovered
<1> QED BY <1>5, <1>7, <1>8

(***************************************************************************)
(* EjectPlayer: the directory is not told, and need not be, for the host   *)
(* cannot eject himself.                                                   *)
(***************************************************************************)
LEMMA EjectCovers ==
    ASSUME ServerSound, NEW l \in Lobbies, HandleEjectPlayer(l),
           Covers(lobby[l], InfoOf(l))
    PROVE  OtherEntriesKept(l) /\ OwnCovered(l)
<1> DEFINE m == Current(l)
           i == IndexOfName(lobby[l], m.name)
           left == WithoutPlayer(lobby[l], i)
<1>1. /\ Running(l) /\ LobbyTypeOK
      /\ lobby[l] \in LobbyState
      /\ m.name \in Names
      /\ m_lobbies' = m_lobbies
  BY RunningRoom, CurrentType, MailFields
     DEF HandleEjectPlayer, Gets, ServerSound
<1>2. \/ UNCHANGED lobby
      \/ /\ lobby' = [lobby EXCEPT ![l] = left]
         /\ i # 0
         /\ GetHost(lobby[l]).name # m.name
  BY DEF HandleEjectPlayer
<1>3. CASE UNCHANGED lobby
  BY <1>1, <1>3, LeavesDirectory
<1>4. CASE /\ lobby' = [lobby EXCEPT ![l] = left]
           /\ i # 0
           /\ GetHost(lobby[l]).name # m.name
  <2>1. /\ i \in 1..Len(lobby[l].players)
        /\ Len(lobby[l].players) \in Nat
        /\ lobby[l].players[i].name = m.name
    BY <1>1, <1>4, IndexOfNameType DEF LobbyState
  <2>2. GetHost(lobby[l]) = lobby[l].players[1]
    BY <1>1, <2>1 DEF GetHost, LobbyState
  <2>3. i \in 2..Len(lobby[l].players)
    BY <1>4, <2>1, <2>2
  <2>4. Covers(left, InfoOf(l)) /\ left.name = lobby[l].name
    BY <1>1, <2>1, <2>3, CoversWithout, WithoutPlayerType
  <2>5. lobby'[l] = left
    BY <1>1, <1>4, ChangedLobby
  <2> HIDE DEF left
  <2> QED BY <1>1, <2>4, <2>5 DEF OtherEntriesKept, OwnCovered, InfoOf
<1> QED BY <1>2, <1>3, <1>4

(***************************************************************************)
(* Reconfigure tells the directory what it tells the players.              *)
(***************************************************************************)
LEMMA ReconfigureCovers ==
    ASSUME ServerSound, NEW l \in Lobbies, HandleReconfigure(l),
           Covers(lobby[l], InfoOf(l))
    PROVE  OtherEntriesKept(l) /\ OwnCovered(l)
<1> DEFINE room == [lobby[l] EXCEPT !.limits = Current(l).limits]
<1>1. Running(l) /\ lobby[l] \in LobbyState
  BY RunningRoom DEF HandleReconfigure
<1>2. room.name = lobby[l].name
  BY <1>1 DEF LobbyState
<1>3. \/ UNCHANGED <<m_lobbies, lobby>>
      \/ /\ lobby' = [lobby EXCEPT ![l] = room]
         /\ UpdateRoomInfo(room.name, MakeRoomInfo(room))
  BY DEF HandleReconfigure
<1> HIDE DEF room
<1> QED BY <1>1, <1>2, <1>3, TellsDirectory, LeavesDirectory

(***************************************************************************)
(* So does Join.                                                           *)
(***************************************************************************)
LEMMA JoinCovers ==
    ASSUME ServerSound, NEW l \in Lobbies, HandleJoin(l),
           Covers(lobby[l], InfoOf(l))
    PROVE  OtherEntriesKept(l) /\ OwnCovered(l)
<1> DEFINE m == Current(l)
           joined == WithPlayer(lobby[l],
                                [actor |-> m.sender, name |-> m.name])
<1>1. Running(l) /\ lobby[l] \in LobbyState
  BY RunningRoom DEF HandleJoin
<1>2. joined.name = lobby[l].name
  BY <1>1 DEF LobbyState, WithPlayer
<1>3. \/ UNCHANGED <<m_lobbies, lobby>>
      \/ /\ lobby' = [lobby EXCEPT ![l] = joined]
         /\ UpdateRoomInfo(joined.name, MakeRoomInfo(joined))
  BY DEF HandleJoin
<1> HIDE DEF joined
<1> QED BY <1>1, <1>2, <1>3, TellsDirectory, LeavesDirectory

(***************************************************************************)
(* And Disconnected, unless the room ends with its last player.            *)
(***************************************************************************)
LEMMA DisconnectedCovers ==
    ASSUME ServerSound, NEW l \in Lobbies, HandleDisconnected(l),
           Covers(lobby[l], InfoOf(l))
    PROVE  OtherEntriesKept(l) /\ OwnCovered(l)
<1> DEFINE i == IndexOfActor(lobby[l], Current(l).sender)
           left == WithoutPlayer(lobby[l], i)
<1>1. /\ Running(l) /\ lobby[l] \in LobbyState
      /\ Current(l).sender \in Clients
  BY RunningRoom, CurrentType, MailFields
     DEF HandleDisconnected, Gets, ServerSound
<1>2. \/ UNCHANGED <<m_lobbies, lobby>>
      \/ /\ i # 0
         /\ lobby' = [lobby EXCEPT ![l] = left]
         /\ UpdateRoomInfo(lobby[l].name, MakeRoomInfo(left))
      \/ /\ UnregisterLobby(lobby[l].name)
         /\ Shutdown(l)
  BY DEF HandleDisconnected
<1>3. i # 0 => left.name = lobby[l].name
  <2> SUFFICES ASSUME i # 0 PROVE left.name = lobby[l].name
    OBVIOUS
  <2>1. i \in 1..Len(lobby[l].players)
    BY <1>1, IndexOfActorType DEF LobbyState
  <2> QED BY <1>1, <2>1, WithoutPlayerType
<1> HIDE DEF left, i
<1> QED BY <1>1, <1>2, <1>3, TellsDirectory, LeavesDirectory, EndsRoom

(***************************************************************************)
(* What the actor l handles keeps the directory right.                     *)
(***************************************************************************)
LEMMA ActorCovers ==
    ASSUME ServerSound, NEW l \in Lobbies, LobbyActorStep(l),
           Running(l) => Covers(lobby[l], InfoOf(l))
    PROVE  OtherEntriesKept(l) /\ OwnCovered(l)
<1>1. CASE HandleInit(l)
  BY <1>1, InitCovers
<1>2. CASE HandleEjectPlayer(l)
  BY <1>2, EjectCovers DEF HandleEjectPlayer
<1>3. CASE HandleReconfigure(l)
  BY <1>3, ReconfigureCovers DEF HandleReconfigure
<1>4. CASE HandleJoin(l)
  BY <1>4, JoinCovers DEF HandleJoin
<1>5. CASE HandleDisconnected(l)
  BY <1>5, DisconnectedCovers DEF HandleDisconnected
<1>6. CASE HandleClose(l)
  BY <1>6, EndsRoom DEF HandleClose
<1>7. CASE HandleAsZombie(l)
  <2>1. UNCHANGED m_lobbies /\ ~Running(l)
    BY <1>7 DEF HandleAsZombie, Running
  <2>2. Shutdown(l) \/ UNCHANGED lobby
    BY <1>7 DEF HandleAsZombie
  <2>3. CASE Shutdown(l)
    <3>1. lobby'[l] = Stopped
      BY <2>3, ChangedLobby DEF Shutdown, ServerSound
    <3> QED BY <2>1, <3>1 DEF OtherEntriesKept, OwnCovered, Stopped, Unborn
  <2>4. CASE UNCHANGED lobby
    BY <2>1, <2>4, LeavesDirectory
  <2> QED BY <2>2, <2>3, <2>4
<1>8. CASE \/ HandleMessage(l) \/ HandleStartSession(l)
           \/ HandleLeaveRoom(l) \/ HandleUpdate(l)
  BY <1>8, LeavesDirectory DEF HandleMessage, HandleStartSession,
                               HandleLeaveRoom, HandleUpdate
<1> QED BY <1>1, <1>2, <1>3, <1>4, <1>5, <1>6, <1>7, <1>8 DEF LobbyActorStep

(***************************************************************************)
(* No other step touches the directory or a room that runs.                *)
(***************************************************************************)
LEMMA RoomsUntouched ==
    ASSUME IInv, AllCovered, m_lobbies' = m_lobbies,
           \A l \in Lobbies : \/ lobby'[l] = lobby[l]
                              \/ lobby'[l].phase # "running"
    PROVE  AllCovered'
BY DEF AllCovered, Running, InfoOf, Covers, GetHost, NamesOf

(***************************************************************************)
(* Every step keeps the directory right.                                   *)
(***************************************************************************)
LEMMA StepCovers ==
    ASSUME IInv, AllCovered, [Next]_vars
    PROVE  AllCovered'
<1>0. ServerSound /\ LobbyTypeOK
  BY DEF IInv, TypeOK, ServerSound
<1>1. ASSUME NEW c \in Clients, ApiStep(c)
      PROVE  UNCHANGED <<m_lobbies, lobby>>
  BY <1>1 DEF ApiStep, CreateRoom, JoinRoom, Answered, TimedOut, Reconfigure,
              Eject, CloseRoom, StartSession, Say, LeaveRoom, Receive,
              Destroy, ConnectionLost, Gone, UnchangedButUpstream
<1>2. ASSUME NEW c \in Clients, ClientActorStep(c)
      PROVE  AllCovered'
  <2>1. m_lobbies' = m_lobbies
    BY <1>2 DEF ClientActorStep, TakeCreateRoom, TakeJoinRoom, TakeEnvelop,
                TakeCloseRoom, TakePeerClosed, TakeTwo, TakeHalf, TakeRest
  <2>2. CASE TakeCreateRoom(c)
    <3> DEFINE k == CHOOSE k \in Lobbies : lobby[k].phase = "unborn"
    <3>1. k \in Lobbies /\ lobby' = [lobby EXCEPT ![k].phase = "initial"]
      BY <2>2 DEF TakeCreateRoom
    <3> HIDE DEF k
    <3>2. \A l \in Lobbies : \/ lobby'[l] = lobby[l]
                             \/ lobby'[l].phase # "running"
      BY <1>0, <3>1 DEF LobbyTypeOK, LobbyState
    <3> QED BY <2>1, <3>2, RoomsUntouched
  <2>3. CASE UNCHANGED lobby
    BY <2>1, <2>3, RoomsUntouched
  <2> QED BY <1>2, <2>2, <2>3 DEF ClientActorStep, TakeJoinRoom, TakeEnvelop,
                                  TakeCloseRoom, TakePeerClosed, TakeTwo,
                                  TakeHalf, TakeRest
<1>3. ASSUME NEW k \in Lobbies, LobbyActorStep(k)
      PROVE  AllCovered'
  <2>1. OthersKept(k) /\ OtherEntriesKept(k) /\ OwnCovered(k)
    BY <1>0, <1>3, LobbyActorTransition, ActorCovers DEF AllCovered
  <2> SUFFICES ASSUME NEW l \in Lobbies, lobby'[l].phase = "running"
               PROVE  Covers(lobby'[l], m_lobbies'[lobby'[l].name].info)
    BY DEF AllCovered, Running, InfoOf, Covers, GetHost, NamesOf
  <2>2. CASE l = k
    BY <2>1, <2>2 DEF OwnCovered
  <2>3. CASE l # k
    <3>1. lobby'[l] = lobby[l] /\ Running(l)
      BY <2>1, <2>3 DEF OthersKept, Running
    <3>2. /\ lobby[l].name \in Registered
          /\ m_lobbies[lobby[l].name].handler = l
      BY <1>0, <3>1, RunningRoom
    <3>3. ~(Running(k) /\ lobby[l].name = lobby[k].name)
      BY <1>0, <2>3, <3>2, RunningRoom
    <3>4. m_lobbies'[lobby[l].name] = m_lobbies[lobby[l].name]
      BY <2>1, <3>2, <3>3 DEF OtherEntriesKept
    <3>5. Covers(lobby[l], InfoOf(l))
      BY <3>1 DEF AllCovered
    <3> QED BY <3>1, <3>4, <3>5 DEF InfoOf
  <2> QED BY <2>2, <2>3
<1> QED BY <1>1, <1>2, <1>3, RoomsUntouched
        DEF Next, vars, ServerClientStep, ServerLobbyStep

(***************************************************************************)
(* What getRooms reads in Depot of a room never misses one of its players, *)
(* and its host and limits are those LobbyActor2 has now, although the     *)
(* handlers of all rooms write to one directory and EjectPlayer does not.  *)
(***************************************************************************)
THEOREM CoversTheorem == Spec => []DirectoryCoversRoom
<1>1. Init => AllCovered
  BY DEF Init, LobbyInit, AllCovered, Running, Unborn
<1>2. IInv /\ AllCovered /\ [Next]_vars => AllCovered'
  BY StepCovers
<1>3. IInv /\ AllCovered => DirectoryCoversRoom
  BY DEF IInv, DirectoryExact, AllCovered, DirectoryCoversRoom, Covers,
         InfoOf, DepotTypeOK, TypeOK, LobbyTypeOK, Registered, LobbyStats
<1> QED BY <1>1, <1>2, <1>3, InvariantTheorem, PTL DEF Spec

-----------------------------------------------------------------------------
(***************************************************************************)
(* Why only hosts close rooms.  A Close is sent through m_handler, by a    *)
(* client that believed it was the host when it called closeRoom, and is   *)
(* handled later whoever sent it.  What makes this right is an order:      *)
(* of the requests of a client that create or join a room, the last one    *)
(* before a CloseRoom is a CreateRoom; nothing that makes the client       *)
(* leave comes before its CloseRoom or, in the mailbox, before its Close;  *)
(* and the host of the room that a CreateRoom made is its creator until    *)
(* that one leaves.                                                        *)
(***************************************************************************)
Departs(m) == m.type \in {"LeaveRoom", "Disconnected"}

Leaves(r) == r.type = "PeerClosed" \/ (r.type = "Envelop" /\ Departs(r.mail))

Opens(r) == r.type \in {"CreateRoom", "CloseRoom"}

OwnMail(c, r) ==
    r.type = "Envelop" => r.mail.sender = c /\ r.mail.type # "Close"

(***************************************************************************)
(* A client that is over has left, or is gone, and asks for nothing more.  *)
(***************************************************************************)
Over(c) == api[c].left \/ api[c].call = "destroyed"

Hosting(c) == IsHost(c) \/ api[c].call = "createRoom"

Idle(c) ==
    /\ Over(c) => /\ ~api[c].mIsJoined
                  /\ api[c].call \notin {"createRoom", "joinRoom"}
    /\ api[c].call = "joinRoom" => ~api[c].mIsJoined

Opening(c) == \E i \in DOMAIN upstream[c] : Opens(upstream[c][i])

LeavesLast(c) ==
    \A i \in DOMAIN upstream[c] :
        Leaves(upstream[c][i]) =>
            /\ Over(c)
            /\ \A j \in DOMAIN upstream[c] : Opens(upstream[c][j]) => j < i

(***************************************************************************)
(* The room of the actor l, if there is one, is that of c: c asked for it, *)
(* and is its host if it runs.  Nobody has a room in an unborn actor.      *)
(***************************************************************************)
Owns(c, l) ==
    \/ lobby[l].phase \in {"zombie", "stopped"}
    \/ lobby[l].phase = "initial" /\ Gets(l, "Init") /\ Current(l).sender = c
    \/ Running(l) /\ GetHost(lobby[l]).actor = c

Leads(c) == m_handler[c] # Null => Owns(c, m_handler[c])

(***************************************************************************)
(* When the first n requests of c have been handled, m_handler leads to a  *)
(* room of c: the k-th creates one and none after it joins another, or     *)
(* none joins another and m_handler leads to a room of c now (k = 0).      *)
(***************************************************************************)
CreatesLast(q, k, n) ==
    /\ k # 0 => q[k].type = "CreateRoom"
    /\ \A j \in (k + 1)..n : q[j].type # "JoinRoom"

WillLead(c, n) ==
    \E k \in 0..n : CreatesLast(upstream[c], k, n) /\ (k = 0 => Leads(c))

ClosesOwn(c) ==
    /\ Hosting(c) => WillLead(c, Len(upstream[c]))
    /\ \A i \in DOMAIN upstream[c] :
        upstream[c][i].type = "CloseRoom" => WillLead(c, i - 1)

ClientOrder(c) ==
    /\ Idle(c)
    /\ \A i \in DOMAIN upstream[c] : OwnMail(c, upstream[c][i])
    /\ LeavesLast(c)
    /\ ClosesOwn(c)

DepartsLate(m) == Departs(m) => Over(m.sender) /\ ~Opening(m.sender)

MailOrder(l) ==
    \A i \in DOMAIN mailbox[l] :
        /\ DepartsLate(mailbox[l][i])
        /\ mailbox[l][i].type = "Close" =>
            /\ Owns(mailbox[l][i].sender, l)
            /\ \A j \in DOMAIN mailbox[l] :
                /\ Departs(mailbox[l][j])
                /\ mailbox[l][j].sender = mailbox[l][i].sender
                => i < j

OrderInv ==
    /\ \A c \in Clients : ClientOrder(c)
    /\ \A l \in Lobbies : MailOrder(l)

-----------------------------------------------------------------------------
(***************************************************************************)
(* The requests in front, where they stay as they are.                     *)
(***************************************************************************)
LEMMA CreatesLastKept ==
    ASSUME NEW q, NEW p, NEW n \in Nat, NEW k \in 0..n,
           \A i \in 1..n : p[i] = q[i], CreatesLast(q, k, n)
    PROVE  CreatesLast(p, k, n)
<1>1. k # 0 => k \in 1..n
  OBVIOUS
<1>2. \A j \in (k + 1)..n : j \in 1..n
  OBVIOUS
<1> QED BY <1>1, <1>2 DEF CreatesLast

(***************************************************************************)
(* No step of the API changes what an actor is to a client.                *)
(***************************************************************************)
LEMMA SameOwner ==
    ASSUME UNCHANGED <<lobby, mailbox, m_handler>>, NEW c
    PROVE  /\ \A l : Owns(c, l) <=> Owns(c, l)'
           /\ Leads(c) <=> Leads(c)'
BY DEF Owns, Leads, Running, GetHost, Gets, Current

(***************************************************************************)
(* A call that sends one request.                                          *)
(***************************************************************************)
LEMMA SendOrder ==
    ASSUME IInv, NEW c \in Clients, NEW r \in Requests, ClientOrder(c),
           Send(c, r), UNCHANGED <<lobby, mailbox, m_handler>>,
           OwnMail(c, r), Leaves(r) => Over(c)', Opens(r) => ~Over(c),
           Over(c) => Over(c)', Idle(c)',
           r.type = "CloseRoom" => Hosting(c),
           Hosting(c)' => \/ r.type = "CreateRoom"
                          \/ Hosting(c) /\ r.type # "JoinRoom"
    PROVE  ClientOrder(c)' /\ (Over(c) /\ Opening(c)' => Opening(c))
<1>0. PICK q, p, n : /\ q = upstream[c] /\ n = Len(q)
                     /\ p = Append(q, r)
  OBVIOUS
<1>1. /\ q \in Seq(Requests) /\ n \in Nat
      /\ upstream[c] = q /\ upstream'[c] = p /\ n = Len(q)
  BY <1>0 DEF IInv, TypeOK, ClientTypeOK, Send
<1>2. /\ Len(p) = n + 1 /\ DOMAIN p = 1..(n + 1) /\ DOMAIN q = 1..n
      /\ \A i \in 1..n : p[i] = q[i]
      /\ p[n + 1] = r
  BY <1>0, <1>1
<1>3. \A i \in DOMAIN p : \/ i \in DOMAIN q /\ p[i] = q[i]
                          \/ i = n + 1 /\ p[i] = r
  BY <1>1, <1>2
<1>4. \A i \in DOMAIN p : OwnMail(c, p[i])
  BY <1>1, <1>3 DEF ClientOrder
<1>5. LeavesLast(c)'
  <2> SUFFICES ASSUME NEW i \in DOMAIN p, Leaves(p[i])
               PROVE  /\ Over(c)'
                      /\ \A j \in DOMAIN p : Opens(p[j]) => j < i
    BY <1>1 DEF LeavesLast
  <2>1. CASE i \in DOMAIN q /\ p[i] = q[i]
    <3>1. Over(c) /\ \A j \in DOMAIN q : Opens(q[j]) => j < i
      BY <1>1, <2>1 DEF ClientOrder, LeavesLast
    <3> QED BY <1>3, <3>1
  <2>2. CASE i = n + 1 /\ p[i] = r
    <3>1. ~Opens(r)
      BY <2>2 DEF Leaves, Opens
    <3>2. \A j \in DOMAIN q : j < n + 1
      BY <1>1, <1>2
    <3> QED BY <1>3, <2>2, <3>1, <3>2
  <2> QED BY <1>3, <2>1, <2>2
<1>6. ASSUME NEW m \in 0..n, WillLead(c, m) PROVE WillLead(c, m)'
  <2>1. PICK k \in 0..m : CreatesLast(q, k, m) /\ (k = 0 => Leads(c))
    BY <1>1, <1>6 DEF WillLead
  <2>2. CreatesLast(p, k, m)
    <3>1. m \in Nat /\ \A i \in 1..m : p[i] = q[i]
      BY <1>1, <1>2
    <3> QED BY <2>1, <3>1, CreatesLastKept
  <2>3. k = 0 => Leads(c)'
    BY <2>1, SameOwner
  <2> QED BY <1>1, <2>2, <2>3 DEF WillLead
<1>7. Hosting(c)' => WillLead(c, n + 1)'
  <2>1. CASE r.type = "CreateRoom"
    <3>1. CreatesLast(p, n + 1, n + 1)
      BY <1>1, <1>2, <2>1 DEF CreatesLast
    <3> QED BY <1>1, <3>1 DEF WillLead
  <2>2. CASE Hosting(c) /\ r.type # "JoinRoom"
    <3>1. WillLead(c, n)'
      BY <1>1, <1>6, <2>2 DEF ClientOrder, ClosesOwn
    <3>2. PICK k \in 0..n : CreatesLast(p, k, n) /\ (k = 0 => Leads(c)')
      BY <1>1, <3>1 DEF WillLead
    <3>3. CreatesLast(p, k, n + 1)
      <4>1. \A j \in (k + 1)..(n + 1) : j \in (k + 1)..n \/ j = n + 1
        BY <1>1
      <4> QED BY <1>2, <2>2, <3>2, <4>1 DEF CreatesLast
    <3>4. k \in 0..(n + 1)
      BY <1>1
    <3> QED BY <1>1, <3>2, <3>3, <3>4 DEF WillLead
  <2> QED BY <2>1, <2>2
<1>8. ASSUME NEW i \in DOMAIN p, p[i].type = "CloseRoom"
      PROVE  WillLead(c, i - 1)'
  <2>1. CASE i \in DOMAIN q /\ p[i] = q[i]
    <3>1. WillLead(c, i - 1)
      BY <1>1, <1>8, <2>1 DEF ClientOrder, ClosesOwn
    <3>2. i - 1 \in 0..n
      BY <1>1, <1>2, <2>1
    <3> QED BY <1>6, <3>1, <3>2
  <2>2. CASE i = n + 1 /\ p[i] = r
    <3>1. WillLead(c, n)
      BY <1>1, <1>8, <2>2 DEF ClientOrder, ClosesOwn
    <3>2. n \in 0..n /\ i - 1 = n
      BY <1>1, <2>2
    <3> QED BY <1>6, <3>1, <3>2
  <2> QED BY <1>3, <2>1, <2>2
<1>9. ClosesOwn(c)'
  BY <1>1, <1>2, <1>7, <1>8 DEF ClosesOwn
<1>10. Over(c) /\ Opening(c)' => Opening(c)
  BY <1>1, <1>3 DEF Opening
<1> QED BY <1>1, <1>4, <1>5, <1>9, <1>10 DEF ClientOrder

(***************************************************************************)
(* A client whose requests stay as they are, and who does not become host. *)
(***************************************************************************)
LEMMA QuietOrder ==
    ASSUME NEW c \in Clients, ClientOrder(c),
           UNCHANGED <<upstream, lobby, mailbox, m_handler>>,
           Over(c)' <=> Over(c), Idle(c)', Hosting(c)' => Hosting(c)
    PROVE  ClientOrder(c)' /\ (Over(c) /\ Opening(c)' => Opening(c))
<1>1. \A n : WillLead(c, n) => WillLead(c, n)'
  BY SameOwner DEF WillLead
<1>2. ClosesOwn(c)'
  BY <1>1 DEF ClientOrder, ClosesOwn
<1>3. LeavesLast(c)'
  BY DEF ClientOrder, LeavesLast
<1> QED BY <1>2, <1>3 DEF ClientOrder, Opening

(***************************************************************************)
(* A client that is gone: some of its last requests are lost, and what it  *)
(* still sends opens nothing.                                              *)
(***************************************************************************)
LEMMA GoneOrder ==
    ASSUME IInv, NEW c \in Clients, ClientOrder(c), Gone(c),
           NEW p \in Seq(Requests), NEW n \in 0..Len(upstream[c]),
           upstream'[c] = p,
           \A i \in DOMAIN p :
              \/ i \in 1..n /\ p[i] = upstream[c][i]
              \/ i > n /\ OwnMail(c, p[i]) /\ ~Opens(p[i])
    PROVE  /\ ClientOrder(c)' /\ Over(c)'
           /\ (Over(c) /\ Opening(c)' => Opening(c))
<1>0. PICK q : q = upstream[c]
  OBVIOUS
<1>1. /\ q \in Seq(Requests) /\ Len(q) \in Nat /\ n \in Nat
      /\ \A i \in DOMAIN p : \/ i \in DOMAIN q /\ i <= n /\ p[i] = q[i]
                             \/ i > n /\ OwnMail(c, p[i]) /\ ~Opens(p[i])
      /\ \A i \in DOMAIN p : i \in Nat
      /\ UNCHANGED <<lobby, mailbox, m_handler>>
  BY <1>0 DEF IInv, TypeOK, ClientTypeOK, Gone
<1>2. Over(c)' /\ Idle(c)' /\ ~Hosting(c)'
  BY DEF Gone, Over, Idle, Hosting, IsHost, NewApi, IInv, TypeOK
<1>3. \A i \in DOMAIN p : OwnMail(c, p[i])
  BY <1>0, <1>1 DEF ClientOrder
<1>4. LeavesLast(c)'
  <2> SUFFICES ASSUME NEW i \in DOMAIN p, Leaves(p[i]),
                      NEW j \in DOMAIN p, Opens(p[j])
               PROVE  j < i
    BY <1>2 DEF LeavesLast
  <2>1. j \in DOMAIN q /\ j <= n /\ Opens(q[j])
    BY <1>1
  <2>2. CASE i \in DOMAIN q /\ i <= n /\ p[i] = q[i]
    BY <1>0, <2>1, <2>2 DEF ClientOrder, LeavesLast
  <2>3. CASE i > n
    BY <1>1, <2>1, <2>3
  <2> QED BY <1>1, <2>2, <2>3
<1>5. ASSUME NEW i \in DOMAIN p, p[i].type = "CloseRoom"
      PROVE  WillLead(c, i - 1)'
  <2>1. i \in DOMAIN q /\ i <= n /\ p[i] = q[i] /\ i \in 1..Len(q)
    BY <1>1, <1>5 DEF Opens
  <2>2. WillLead(c, i - 1)
    BY <1>0, <1>5, <2>1 DEF ClientOrder, ClosesOwn
  <2>3. PICK k \in 0..(i - 1) :
            CreatesLast(q, k, i - 1) /\ (k = 0 => Leads(c))
    BY <1>0, <2>2 DEF WillLead
  <2>4. \A j \in 1..(i - 1) : p[j] = q[j]
    <3> SUFFICES ASSUME NEW j \in 1..(i - 1) PROVE p[j] = q[j]
      OBVIOUS
    <3>1. j \in DOMAIN p /\ ~(j > n)
      BY <1>1, <2>1
    <3> QED BY <1>1, <3>1
  <2>5. CreatesLast(p, k, i - 1)
    <3>1. i - 1 \in Nat
      BY <2>1
    <3> QED BY <2>3, <2>4, <3>1, CreatesLastKept
  <2>6. k = 0 => Leads(c)'
    BY <1>1, <2>3, SameOwner
  <2> QED BY <2>5, <2>6 DEF WillLead
<1>6. ClosesOwn(c)'
  BY <1>2, <1>5 DEF ClosesOwn
<1>7. Over(c) /\ Opening(c)' => Opening(c)
  BY <1>0, <1>1 DEF Opening
<1> QED BY <1>2, <1>3, <1>4, <1>6, <1>7 DEF ClientOrder

(***************************************************************************)
(* A client that a step is not about.                                      *)
(***************************************************************************)
LEMMA OtherOrder ==
    ASSUME NEW d \in Clients, ClientOrder(d),
           api'[d] = api[d], upstream'[d] = upstream[d],
           Leads(d) => Leads(d)'
    PROVE  /\ ClientOrder(d)'
           /\ Over(d)' <=> Over(d)
           /\ Opening(d)' <=> Opening(d)
<1>1. \A n : WillLead(d, n) => WillLead(d, n)'
  BY DEF WillLead
<1>2. ClosesOwn(d)'
  BY <1>1 DEF ClientOrder, ClosesOwn, Hosting, IsHost
<1>3. LeavesLast(d)'
  BY DEF ClientOrder, LeavesLast, Over
<1> QED BY <1>2, <1>3 DEF ClientOrder, Opening, Over, Idle

(***************************************************************************)
(* So a step of the API keeps the order, for it is a step of one client.   *)
(***************************************************************************)
LEMMA ApiOrder ==
    ASSUME IInv, OrderInv, NEW c \in Clients,
           UNCHANGED <<lobby, mailbox, m_handler>>,
           ClientOrder(c)', Over(c) => Over(c)',
           Over(c) /\ Opening(c)' => Opening(c),
           \A d \in Clients \ {c} :
              api'[d] = api[d] /\ upstream'[d] = upstream[d]
    PROVE  OrderInv'
<1>1. ASSUME NEW d \in Clients \ {c}
      PROVE  /\ ClientOrder(d)'
             /\ Over(d) => Over(d)'
             /\ Opening(d)' => Opening(d)
  BY SameOwner, OtherOrder DEF OrderInv
<1>2. ASSUME NEW l \in Lobbies PROVE MailOrder(l)'
  <2> SUFFICES ASSUME NEW i \in DOMAIN mailbox[l]
               PROVE  /\ DepartsLate(mailbox[l][i])'
                      /\ mailbox[l][i].type = "Close" =>
                          Owns(mailbox[l][i].sender, l)'
    BY DEF OrderInv, MailOrder
  <2>1. mailbox[l][i].sender \in Clients
    BY MailFields DEF IInv, TypeOK, LobbyTypeOK
  <2>2. /\ DepartsLate(mailbox[l][i])
        /\ mailbox[l][i].type = "Close" => Owns(mailbox[l][i].sender, l)
    BY DEF OrderInv, MailOrder
  <2> QED BY <1>1, <2>1, <2>2, SameOwner DEF DepartsLate
<1> QED BY <1>1, <1>2 DEF OrderInv

(***************************************************************************)
(* A call that sends, for the system.                                      *)
(***************************************************************************)
LEMMA SendKeepsOrder ==
    ASSUME IInv, OrderInv, NEW c \in Clients, NEW r \in Requests, NEW a,
           Send(c, r), UNCHANGED <<lobby, mailbox, m_handler>>,
           api' = [api EXCEPT ![c] = a],
           OwnMail(c, r), Leaves(r) => Over(c)', Opens(r) => ~Over(c),
           Over(c) => Over(c)', Idle(c)',
           r.type = "CloseRoom" => Hosting(c),
           Hosting(c)' => \/ r.type = "CreateRoom"
                          \/ Hosting(c) /\ r.type # "JoinRoom"
    PROVE  OrderInv'
<1>1. ClientOrder(c)
  BY DEF OrderInv
<1>2. ClientOrder(c)' /\ (Over(c) /\ Opening(c)' => Opening(c))
  BY <1>1, SendOrder
<1>3. \A d \in Clients \ {c} :
         api'[d] = api[d] /\ upstream'[d] = upstream[d]
  BY DEF Send, IInv, TypeOK, ClientTypeOK
<1> QED BY <1>2, <1>3, ApiOrder

(***************************************************************************)
(* And one that does not.                                                  *)
(***************************************************************************)
LEMMA QuietKeepsOrder ==
    ASSUME IInv, OrderInv, NEW c \in Clients, NEW a,
           UNCHANGED <<upstream, lobby, mailbox, m_handler>>,
           api' = [api EXCEPT ![c] = a],
           Over(c)' <=> Over(c), Idle(c)', Hosting(c)' => Hosting(c)
    PROVE  OrderInv'
<1>1. ClientOrder(c)
  BY DEF OrderInv
<1>2. ClientOrder(c)' /\ (Over(c) /\ Opening(c)' => Opening(c))
  BY <1>1, QuietOrder
<1>3. \A d \in Clients \ {c} :
         api'[d] = api[d] /\ upstream'[d] = upstream[d]
  BY DEF IInv, TypeOK
<1> QED BY <1>2, <1>3, ApiOrder

(***************************************************************************)
(* createRoom: the client becomes the host of the room it asks for.        *)
(***************************************************************************)
LEMMA CreateRoomOrder ==
    ASSUME IInv, OrderInv, NEW c \in Clients, CreateRoom(c)
    PROVE  OrderInv'
<1>1. PICK name \in Names, room \in RoomNames, limits \in Limits :
        /\ Send(c, [type |-> "CreateRoom", name |-> name, room |-> room,
                    limits |-> limits])
        /\ api' = [api EXCEPT ![c] = [Counted(c) EXCEPT
                      !.call = "createRoom", !.asked = name]]
  BY DEF CreateRoom
<1>2. PICK r, a :
        /\ r = [type |-> "CreateRoom", name |-> name, room |-> room,
                limits |-> limits]
        /\ a = [Counted(c) EXCEPT !.call = "createRoom", !.asked = name]
  OBVIOUS
<1>3. r \in Requests /\ r.type = "CreateRoom" /\ Send(c, r)
  BY <1>1, <1>2 DEF Requests
<1>4. /\ api[c] \in ApiState /\ api \in [Clients -> ApiState]
      /\ api[c].call = "none" /\ ~api[c].left
  BY DEF IInv, TypeOK, CreateRoom, MayCall
<1>5. /\ api' = [api EXCEPT ![c] = a] /\ api'[c] = a
      /\ a.call = "createRoom" /\ ~a.left
  BY <1>1, <1>2, <1>4 DEF Counted, ApiState
<1>6. UNCHANGED <<lobby, mailbox, m_handler>>
  BY DEF CreateRoom, UnchangedButUpstream
<1>7. ~Over(c) /\ ~Over(c)' /\ Idle(c)'
  BY <1>4, <1>5 DEF Over, Idle
<1>8. OwnMail(c, r) /\ ~Leaves(r)
  BY <1>3 DEF OwnMail, Leaves
<1> QED BY <1>3, <1>5, <1>6, <1>7, <1>8, SendKeepsOrder

(***************************************************************************)
(* joinRoom: the client is in no room, and so no host.                     *)
(***************************************************************************)
LEMMA JoinRoomOrder ==
    ASSUME IInv, OrderInv, NEW c \in Clients, JoinRoom(c)
    PROVE  OrderInv'
<1>1. PICK name \in Names, room \in RoomNames :
        /\ Send(c, [type |-> "JoinRoom", name |-> name, room |-> room])
        /\ api' = [api EXCEPT ![c] = [Counted(c) EXCEPT
                      !.call = "joinRoom", !.asked = name]]
  BY DEF JoinRoom
<1>2. PICK r, a :
        /\ r = [type |-> "JoinRoom", name |-> name, room |-> room]
        /\ a = [Counted(c) EXCEPT !.call = "joinRoom", !.asked = name]
  OBVIOUS
<1>3. r \in Requests /\ r.type = "JoinRoom" /\ Send(c, r)
  BY <1>1, <1>2 DEF Requests
<1>4. /\ api[c] \in ApiState /\ api \in [Clients -> ApiState]
      /\ api[c].call = "none" /\ ~api[c].left /\ ~api[c].mIsJoined
  BY DEF IInv, TypeOK, JoinRoom, MayCall
<1>5. /\ api' = [api EXCEPT ![c] = a] /\ api'[c] = a
      /\ a.call = "joinRoom" /\ ~a.left /\ ~a.mIsJoined
  BY <1>1, <1>2, <1>4 DEF Counted, ApiState
<1>6. UNCHANGED <<lobby, mailbox, m_handler>>
  BY DEF JoinRoom, UnchangedButUpstream
<1>7. ~Over(c) /\ ~Over(c)' /\ Idle(c)' /\ ~Hosting(c)'
  BY <1>4, <1>5 DEF Over, Idle, Hosting, IsHost
<1>8. OwnMail(c, r) /\ ~Leaves(r) /\ r.type # "CloseRoom"
  BY <1>3 DEF OwnMail, Leaves
<1> QED BY <1>3, <1>5, <1>6, <1>7, <1>8, SendKeepsOrder

(***************************************************************************)
(* An envelop of c that is not a LeaveRoom; c stays what it is.            *)
(***************************************************************************)
LEMMA EnvelopOrder ==
    ASSUME IInv, OrderInv, NEW c \in Clients, NEW mail \in Mail,
           mail.sender = c, mail.type \notin {"Close", "Disconnected"},
           api[c].mMyRoom # Null, SendEnvelop(c, mail),
           UNCHANGED <<lobby, mailbox, m_handler>>,
           NEW a \in ApiState, api' = [api EXCEPT ![c] = a],
           mail.type = "LeaveRoom" => a.left,
           Over(c) => Over(c)', Idle(c)', Hosting(c)' => Hosting(c)
    PROVE  OrderInv'
<1>1. PICK r : r = [type |-> "Envelop", room |-> api[c].mMyRoom.name,
                    mail |-> mail]
  OBVIOUS
<1>2. Send(c, r) /\ r.type = "Envelop" /\ r.mail = mail
  BY <1>1 DEF SendEnvelop
<1>3. r \in Requests
  BY <1>1, ApiOf DEF Requests
<1>4. OwnMail(c, r) /\ ~Opens(r)
  BY <1>2 DEF OwnMail, Opens
<1>5. Leaves(r) => Over(c)'
  <2>1. api'[c] = a
    BY DEF IInv, TypeOK
  <2> QED BY <1>2, <2>1 DEF Leaves, Departs, Over
<1> QED BY <1>2, <1>3, <1>4, <1>5, SendKeepsOrder

(***************************************************************************)
(* A call that is only counted changes nothing that matters here.          *)
(***************************************************************************)
LEMMA CalledOrder ==
    ASSUME IInv, OrderInv, NEW c \in Clients, Called(c), api[c].calls > 0
    PROVE  /\ Counted(c) \in ApiState
           /\ api' = [api EXCEPT ![c] = Counted(c)]
           /\ Over(c)' <=> Over(c)
           /\ Idle(c)'
           /\ Hosting(c)' <=> Hosting(c)
<1>1. Counted(c) \in ApiState /\ api \in [Clients -> ApiState]
  BY CountedType DEF IInv, TypeOK
<1>2. api'[c] = Counted(c) /\ api[c] \in ApiState
  BY <1>1 DEF Called
<1>3. /\ api'[c].call = api[c].call /\ api'[c].left = api[c].left
      /\ api'[c].mIsJoined = api[c].mIsJoined
      /\ api'[c].mIsHost = api[c].mIsHost
  BY <1>2 DEF Counted, ApiState
<1>4. Idle(c)
  BY DEF OrderInv, ClientOrder
<1> QED BY <1>1, <1>3, <1>4 DEF Called, Over, Idle, Hosting, IsHost

(***************************************************************************)
(* The calls that send an Envelop and are not leaveRoom.                   *)
(***************************************************************************)
LEMMA EnvelopCallOrder ==
    ASSUME IInv, OrderInv, NEW c \in Clients,
           \/ Reconfigure(c) \/ Eject(c) \/ StartSession(c) \/ Say(c)
    PROVE  OrderInv'
<1>1. PICK mail \in Mail :
        /\ mail.sender = c
        /\ mail.type \notin {"Close", "Disconnected", "LeaveRoom"}
        /\ SendEnvelop(c, mail)
  <2>1. CASE Reconfigure(c)
    <3>1. PICK limits \in Limits :
            SendEnvelop(c, [type |-> "Reconfigure", sender |-> c,
                            limits |-> limits])
      BY <2>1 DEF Reconfigure
    <3> QED BY <3>1 DEF Mail
  <2>2. CASE Eject(c)
    <3>1. PICK name \in Names :
            SendEnvelop(c, [type |-> "EjectPlayer", sender |-> c,
                            name |-> name])
      BY <2>2 DEF Eject
    <3> QED BY <3>1 DEF Mail
  <2>3. CASE StartSession(c)
    BY <2>3 DEF StartSession, Mail
  <2>4. CASE Say(c)
    <3>1. PICK toSelf \in BOOLEAN :
            SendEnvelop(c, [type |-> "Message", sender |-> c,
                            name |-> api[c].mPlayerName, toSelf |-> toSelf])
      BY <2>4 DEF Say
    <3>2. api[c].mPlayerName \in Names
      BY <2>4, ApiOf DEF Say
    <3> QED BY <3>1, <3>2 DEF Mail
  <2> QED BY <2>1, <2>2, <2>3, <2>4
<1>2. /\ Called(c) /\ api[c].calls > 0
      /\ UNCHANGED <<lobby, mailbox, m_handler>>
  BY DEF Reconfigure, Eject, StartSession, Say, MayCall, UnchangedButUpstream
<1>3. api[c].mMyRoom # Null
  BY ApiOf DEF Reconfigure, Eject, StartSession, Say, IsHost
<1> QED BY <1>1, <1>2, <1>3, CalledOrder, EnvelopOrder

(***************************************************************************)
(* closeRoom checks that the client believes it is the host.               *)
(***************************************************************************)
LEMMA CloseRoomOrder ==
    ASSUME IInv, OrderInv, NEW c \in Clients, CloseRoom(c)
    PROVE  OrderInv'
<1>1. PICK r : r = [type |-> "CloseRoom"]
  OBVIOUS
<1>2. r \in Requests /\ r.type = "CloseRoom" /\ Send(c, r)
  BY <1>1 DEF CloseRoom, Requests
<1>3. /\ Called(c) /\ api[c].calls > 0 /\ IsHost(c)
      /\ UNCHANGED <<lobby, mailbox, m_handler>>
  BY DEF CloseRoom, MayCall, UnchangedButUpstream
<1>4. /\ api' = [api EXCEPT ![c] = Counted(c)]
      /\ Over(c)' <=> Over(c)
      /\ Idle(c)'
      /\ Hosting(c)' <=> Hosting(c)
  BY <1>3, CalledOrder
<1>5. Hosting(c) /\ ~Over(c)
  BY <1>3 DEF IsHost, Hosting, OrderInv, ClientOrder, Idle
<1>6. OwnMail(c, r) /\ ~Leaves(r)
  BY <1>2 DEF OwnMail, Leaves
<1> QED BY <1>2, <1>3, <1>4, <1>5, <1>6, SendKeepsOrder

(***************************************************************************)
(* After leaveRoom the client is over.                                     *)
(***************************************************************************)
LEMMA LeaveRoomOrder ==
    ASSUME IInv, OrderInv, NEW c \in Clients, LeaveRoom(c)
    PROVE  OrderInv'
<1>1. PICK a : a = [Counted(c) EXCEPT !.mIsJoined = FALSE, !.left = TRUE]
  OBVIOUS
<1>2. /\ api[c].calls > 0 /\ api[c].mIsJoined /\ api[c].call = "none"
      /\ SendEnvelop(c, LeaveMail(c))
      /\ api' = [api EXCEPT ![c] = a]
      /\ UNCHANGED <<lobby, mailbox, m_handler>>
  BY <1>1 DEF LeaveRoom, MayCall, UnchangedButUpstream
<1>3. Counted(c) \in ApiState /\ Counted(c).call = "none"
  BY <1>2, CountedType, ApiOf DEF Counted, ApiState
<1>4. /\ a \in ApiState /\ a.left /\ ~a.mIsJoined /\ a.call = "none"
      /\ api'[c] = a
  BY <1>1, <1>2, <1>3 DEF ApiState, IInv, TypeOK
<1>5. Over(c)' /\ Idle(c)' /\ ~Hosting(c)'
  BY <1>4 DEF Over, Idle, Hosting, IsHost
<1>6. /\ LeaveMail(c) \in Mail /\ LeaveMail(c).sender = c
      /\ LeaveMail(c).type = "LeaveRoom"
  BY DEF LeaveMail, Mail
<1>7. api[c].mMyRoom # Null
  BY <1>2, ApiOf
<1> QED BY <1>2, <1>4, <1>5, <1>6, <1>7, EnvelopOrder

(***************************************************************************)
(* The answer to createRoom, and only that, makes the client a host.       *)
(***************************************************************************)
LEMMA AnsweredOrder ==
    ASSUME IInv, OrderInv, NEW c \in Clients, Answered(c) \/ TimedOut(c)
    PROVE  OrderInv'
<1>1. /\ api \in [Clients -> ApiState] /\ api[c] \in ApiState
      /\ Idle(c)
  BY DEF IInv, TypeOK, OrderInv, ClientOrder
<1>2. /\ api[c].call \in {"createRoom", "joinRoom"}
      /\ UNCHANGED <<upstream, lobby, mailbox, m_handler>>
  BY DEF Answered, TimedOut
<1>3. PICK a : /\ api' = [api EXCEPT ![c] = a]
               /\ a.call = "none" /\ a.left = api[c].left
               /\ \/ /\ a.mIsJoined = api[c].mIsJoined
                     /\ a.mIsHost = api[c].mIsHost
                  \/ a.mIsHost = (api[c].call = "createRoom")
  <2>1. CASE Answered(c)
    <3> DEFINE note == Head(downstream[c])
               returned == [api[c] EXCEPT !.call = "none", !.asked = Null]
               taken == [returned EXCEPT
                            !.mMyRoom = note.room,
                            !.mPlayerName = api[c].asked,
                            !.mIsJoined = TRUE,
                            !.mIsHost = (api[c].call = "createRoom")]
    <3>1. \/ api' = [api EXCEPT ![c] = taken]
          \/ api' = [api EXCEPT ![c] = returned]
      BY <2>1 DEF Answered
    <3>2. /\ returned.call = "none" /\ returned.left = api[c].left
          /\ returned.mIsJoined = api[c].mIsJoined
          /\ returned.mIsHost = api[c].mIsHost
      BY <1>1 DEF ApiState
    <3>3. /\ taken.call = "none" /\ taken.left = api[c].left
          /\ taken.mIsHost = (api[c].call = "createRoom")
      BY <1>1 DEF ApiState
    <3> HIDE DEF returned, taken
    <3> QED BY <3>1, <3>2, <3>3
  <2>2. CASE TimedOut(c)
    <3> DEFINE a == [api[c] EXCEPT !.call = "none", !.asked = Null]
    <3>1. api' = [api EXCEPT ![c] = a]
      BY <1>1, <2>2 DEF TimedOut
    <3>2. /\ a.call = "none" /\ a.left = api[c].left
          /\ a.mIsJoined = api[c].mIsJoined
          /\ a.mIsHost = api[c].mIsHost
      BY <1>1 DEF ApiState
    <3> HIDE DEF a
    <3> QED BY <3>1, <3>2
  <2> QED BY <2>1, <2>2
<1>4. api'[c] = a /\ ~api[c].left /\ ~Over(c)
  BY <1>1, <1>2, <1>3 DEF Idle, Over
<1>5. (Over(c)' <=> Over(c)) /\ Idle(c)'
  BY <1>3, <1>4 DEF Over, Idle
<1>6. Hosting(c)' => Hosting(c)
  BY <1>3, <1>4 DEF Hosting, IsHost
<1> QED BY <1>2, <1>3, <1>5, <1>6, QuietKeepsOrder

(***************************************************************************)
(* receive makes nobody a host.                                            *)
(***************************************************************************)
LEMMA ReceiveOrder ==
    ASSUME IInv, OrderInv, NEW c \in Clients, Receive(c)
    PROVE  OrderInv'
<1>1. /\ api \in [Clients -> ApiState] /\ api[c] \in ApiState
      /\ Idle(c) /\ api[c].mIsJoined /\ api[c].call = "none"
      /\ UNCHANGED <<upstream, lobby, mailbox, m_handler>>
  BY DEF IInv, TypeOK, OrderInv, ClientOrder, Receive
<1>2. PICK a : /\ api' = [api EXCEPT ![c] = a]
               /\ a.call = "none" /\ a.left = api[c].left
               /\ a.mIsJoined => api[c].mIsJoined
               /\ a.mIsHost = api[c].mIsHost
  <2> DEFINE note == Head(downstream[c])
             updated == [api[c] EXCEPT !.mMyRoom = note.room]
             ejected == [api[c] EXCEPT !.mIsJoined = FALSE]
  <2>1. \/ api' = [api EXCEPT ![c] = updated]
        \/ api' = [api EXCEPT ![c] = ejected]
        \/ api' = [api EXCEPT ![c] = api[c]]
    BY <1>1 DEF Receive
  <2>2. /\ updated.call = "none" /\ updated.left = api[c].left
        /\ updated.mIsHost = api[c].mIsHost
        /\ ejected.call = "none" /\ ejected.left = api[c].left
        /\ ejected.mIsHost = api[c].mIsHost
    BY <1>1 DEF ApiState
  <2> HIDE DEF updated, ejected
  <2> QED BY <1>1, <2>1, <2>2
<1>3. api'[c] = a /\ ~Over(c)
  BY <1>1, <1>2 DEF Idle, Over
<1>4. (Over(c)' <=> Over(c)) /\ Idle(c)' /\ (Hosting(c)' => Hosting(c))
  BY <1>1, <1>2, <1>3 DEF Over, Idle, Hosting, IsHost
<1> QED BY <1>1, <1>2, <1>4, QuietKeepsOrder

(***************************************************************************)
(* The end of a client, for the system.                                    *)
(***************************************************************************)
LEMMA GoneKeepsOrder ==
    ASSUME IInv, OrderInv, NEW c \in Clients, Gone(c),
           NEW n \in 0..Len(upstream[c]), NEW last \in Seq(Requests),
           \A i \in DOMAIN last : OwnMail(c, last[i]) /\ ~Opens(last[i]),
           upstream' = [upstream EXCEPT ![c] = SubSeq(@, 1, n) \o last]
    PROVE  OrderInv'
<1>0. PICK q : q = upstream[c]
  OBVIOUS
<1>1. PICK p : p = SubSeq(q, 1, n) \o last
  OBVIOUS
<1>2. /\ q \in Seq(Requests) /\ Len(q) \in Nat /\ n \in Nat /\ n <= Len(q)
      /\ upstream'[c] = p
      /\ \A d \in Clients \ {c} : upstream'[d] = upstream[d]
  BY <1>0, <1>1 DEF IInv, TypeOK, ClientTypeOK
<1>3. /\ SubSeq(q, 1, n) \in Seq(Requests)
      /\ Len(SubSeq(q, 1, n)) = n
      /\ \A i \in 1..n : SubSeq(q, 1, n)[i] = q[i]
  BY <1>2
<1>4. /\ p \in Seq(Requests) /\ Len(p) = n + Len(last)
      /\ \A i \in 1..n : p[i] = q[i]
      /\ \A i \in DOMAIN p : i \in 1..n \/ i - n \in DOMAIN last
      /\ \A i \in DOMAIN p : i > n => p[i] = last[i - n]
  <2> DEFINE s == SubSeq(q, 1, n)
  <2>1. s \in Seq(Requests) /\ Len(s) = n /\ p = s \o last
    BY <1>1, <1>3
  <2> HIDE DEF s
  <2>2. /\ p \in Seq(Requests) /\ Len(p) = n + Len(last)
        /\ \A i \in 1..(n + Len(last)) :
              p[i] = IF i <= n THEN s[i] ELSE last[i - n]
    BY <2>1, ConcatProperties
  <2>3. \A i \in 1..n : p[i] = q[i]
    BY <1>2, <1>3, <2>2 DEF s
  <2> QED BY <1>2, <2>2, <2>3
<1>5. \A i \in DOMAIN p :
         \/ i \in 1..n /\ p[i] = upstream[c][i]
         \/ i > n /\ OwnMail(c, p[i]) /\ ~Opens(p[i])
  BY <1>0, <1>2, <1>4
<1>6. ClientOrder(c)
  BY DEF OrderInv
<1>7. /\ ClientOrder(c)' /\ Over(c)'
      /\ (Over(c) /\ Opening(c)' => Opening(c))
  BY <1>2, <1>4, <1>5, <1>6, GoneOrder
<1>8. \A d \in Clients \ {c} : api'[d] = api[d]
  BY DEF Gone, IInv, TypeOK
<1> QED BY <1>2, <1>7, <1>8, ApiOrder DEF Gone

(***************************************************************************)
(* The destructor sends a LeaveRoom behind everything else.                *)
(***************************************************************************)
LEMMA DestroyOrder ==
    ASSUME IInv, OrderInv, NEW c \in Clients, Destroy(c)
    PROVE  OrderInv'
<1> DEFINE envelop == [type |-> "Envelop", room |-> api[c].mMyRoom.name,
                       mail |-> LeaveMail(c)]
           leave == IF api[c].mIsJoined THEN <<envelop>> ELSE << >>
           closed == [type |-> "PeerClosed"]
           q == upstream[c]
<1>1. Gone(c) /\ upstream' = [upstream EXCEPT ![c] = @ \o leave \o <<closed>>]
  BY DEF Destroy
<1>2. upstream \in [Clients -> Seq(Requests)] /\ q \in Seq(Requests)
  BY DEF IInv, TypeOK, ClientTypeOK
<1>3. closed \in Requests /\ OwnMail(c, closed) /\ ~Opens(closed)
  BY DEF Requests, OwnMail, Opens
<1>4. OwnMail(c, envelop) /\ ~Opens(envelop)
  BY DEF OwnMail, Opens, LeaveMail
<1> HIDE DEF closed
<1>5. PICK last \in Seq(Requests) :
        /\ \A i \in DOMAIN last : OwnMail(c, last[i]) /\ ~Opens(last[i])
        /\ upstream' = [upstream EXCEPT ![c] = @ \o last]
  <2>1. CASE api[c].mIsJoined
    <3>1. envelop \in Requests
      <4>1. api[c].mMyRoom # Null /\ LeaveMail(c) \in Mail
        BY <2>1, ApiOf DEF LeaveMail, Mail
      <4> QED BY <4>1, ApiOf DEF Requests
    <3>2. leave = <<envelop>>
      BY <2>1
    <3> HIDE DEF envelop, leave
    <3>3. q \o <<envelop>> \o <<closed>> = q \o <<envelop, closed>>
      BY <1>2, <1>3, <3>1
    <3>4. <<envelop, closed>> \in Seq(Requests)
      BY <1>3, <3>1
    <3>5. \A i \in DOMAIN <<envelop, closed>> :
             /\ OwnMail(c, <<envelop, closed>>[i])
             /\ ~Opens(<<envelop, closed>>[i])
      BY <1>3, <1>4
    <3>6. upstream' = [upstream EXCEPT ![c] = @ \o <<envelop, closed>>]
      BY <1>1, <1>2, <3>2, <3>3
    <3> QED BY <3>4, <3>5, <3>6
  <2>2. CASE ~api[c].mIsJoined
    <3>1. q \o leave = q
      BY <1>2, <2>2
    <3>2. upstream' = [upstream EXCEPT ![c] = @ \o <<closed>>]
      BY <1>1, <1>2, <3>1
    <3>3. <<closed>> \in Seq(Requests)
      BY <1>3
    <3>4. \A i \in DOMAIN <<closed>> :
             OwnMail(c, <<closed>>[i]) /\ ~Opens(<<closed>>[i])
      BY <1>3
    <3> QED BY <3>2, <3>3, <3>4
  <2> QED BY <2>1, <2>2
<1>6. Len(q) \in 0..Len(q) /\ SubSeq(q, 1, Len(q)) = q
  BY <1>2
<1>7. upstream' = [upstream EXCEPT ![c] = SubSeq(@, 1, Len(q)) \o last]
  BY <1>2, <1>5, <1>6
<1> QED BY <1>1, <1>5, <1>6, <1>7, GoneKeepsOrder

(***************************************************************************)
(* A crash sends nothing.                                                  *)
(***************************************************************************)
LEMMA ConnectionLostOrder ==
    ASSUME IInv, OrderInv, NEW c \in Clients, ConnectionLost(c)
    PROVE  OrderInv'
<1>1. PICK r : r = [type |-> "PeerClosed"]
  OBVIOUS
<1>2. r \in Requests /\ OwnMail(c, r) /\ ~Opens(r)
  BY <1>1 DEF Requests, OwnMail, Opens
<1>3. PICK n \in 0..Len(upstream[c]) :
        upstream' = [upstream EXCEPT ![c] = SubSeq(@, 1, n) \o <<r>>]
  BY <1>1 DEF ConnectionLost
<1>4. /\ <<r>> \in Seq(Requests)
      /\ \A i \in DOMAIN <<r>> : OwnMail(c, <<r>>[i]) /\ ~Opens(<<r>>[i])
  BY <1>2
<1> QED BY <1>3, <1>4, GoneKeepsOrder DEF ConnectionLost

(***************************************************************************)
(* Whatever a client does keeps the order.                                 *)
(***************************************************************************)
LEMMA ApiStepOrder ==
    ASSUME IInv, OrderInv, NEW c \in Clients, ApiStep(c)
    PROVE  OrderInv'
BY CreateRoomOrder, JoinRoomOrder, AnsweredOrder, EnvelopCallOrder,
   CloseRoomOrder, LeaveRoomOrder, ReceiveOrder, DestroyOrder,
   ConnectionLostOrder DEF ApiStep

-----------------------------------------------------------------------------
(***************************************************************************)
(* A request of c is taken: m_handler leads to a room of c if the request  *)
(* has created it, or if it did before and the request joins no other.     *)
(***************************************************************************)
LEMMA TakenOrder ==
    ASSUME IInv, NEW c \in Clients, ClientOrder(c), upstream[c] # << >>,
           Taken(c), UNCHANGED api,
           Request(c).type = "CreateRoom" => Leads(c)',
           Request(c).type # "JoinRoom" /\ Leads(c) => Leads(c)'
    PROVE  /\ ClientOrder(c)'
           /\ Opening(c)' => Opening(c)
           /\ Leaves(Request(c)) => Over(c) /\ ~Opening(c)'
<1>0. PICK q, p : q = upstream[c] /\ p = Tail(q)
  OBVIOUS
<1>1. /\ q \in Seq(Requests) /\ q # << >> /\ upstream'[c] = p
      /\ Request(c) = q[1]
  BY <1>0 DEF IInv, TypeOK, ClientTypeOK, Taken, Request
<1>2. PICK n \in Nat : Len(q) = n + 1
  <2>1. Len(q) \in Nat /\ Len(q) # 0
    BY <1>1
  <2>2. Len(q) - 1 \in Nat /\ Len(q) = (Len(q) - 1) + 1
    BY <2>1
  <2> QED BY <2>2
<1>3. /\ p \in Seq(Requests) /\ Len(p) = n
      /\ DOMAIN p = 1..n /\ DOMAIN q = 1..(n + 1)
      /\ \A i \in 1..n : p[i] = q[i + 1]
  BY <1>0, <1>1, <1>2
<1>4. \A i \in DOMAIN p : i + 1 \in DOMAIN q /\ p[i] = q[i + 1]
  BY <1>3
<1>5. \A i \in DOMAIN p : OwnMail(c, p[i])
  BY <1>0, <1>4 DEF ClientOrder
<1>6. (Over(c)' <=> Over(c)) /\ Idle(c)' /\ (Hosting(c)' <=> Hosting(c))
  BY DEF Over, Idle, Hosting, IsHost, ClientOrder
<1>7. LeavesLast(c)'
  <2> SUFFICES ASSUME NEW i \in DOMAIN p, Leaves(p[i])
               PROVE  Over(c) /\ \A j \in DOMAIN p : Opens(p[j]) => j < i
    BY <1>1, <1>6 DEF LeavesLast
  <2>1. /\ Over(c)
        /\ \A j \in DOMAIN q : Opens(q[j]) => j < i + 1
    BY <1>0, <1>4 DEF ClientOrder, LeavesLast
  <2>2. ASSUME NEW j \in DOMAIN p, Opens(p[j]) PROVE j < i
    <3>1. j + 1 < i + 1
      BY <1>4, <2>1, <2>2
    <3>2. i \in Nat /\ j \in Nat
      BY <1>3
    <3> QED BY <3>1, <3>2
  <2> QED BY <2>1, <2>2
<1>8. ASSUME NEW m \in 0..n, WillLead(c, m + 1)
      PROVE  WillLead(c, m)'
  <2>1. PICK k \in 0..(m + 1) :
            CreatesLast(q, k, m + 1) /\ (k = 0 => Leads(c))
    BY <1>0, <1>8 DEF WillLead
  <2>2. CASE k \in {0, 1}
    <3>1. CreatesLast(p, 0, m)
      <4> SUFFICES ASSUME NEW j \in 1..m PROVE p[j].type # "JoinRoom"
        BY DEF CreatesLast
      <4>1. j \in 1..n /\ j + 1 \in (k + 1)..(m + 1)
        BY <2>2
      <4> QED BY <1>3, <2>1, <4>1 DEF CreatesLast
    <3>2. Leads(c)'
      <4>1. CASE k = 1
        BY <1>1, <2>1, <4>1 DEF CreatesLast
      <4>2. CASE k = 0
        <5>1. 1 \in (k + 1)..(m + 1)
          BY <4>2
        <5> QED BY <1>1, <2>1, <4>2, <5>1 DEF CreatesLast
      <4> QED BY <2>2, <4>1, <4>2
    <3> QED BY <1>1, <3>1, <3>2 DEF WillLead
  <2>3. CASE k \notin {0, 1}
    <3>1. k - 1 \in 1..m /\ k - 1 \in 1..n /\ (k - 1) + 1 = k
      BY <2>3
    <3>2. p[k - 1].type = "CreateRoom"
      BY <1>3, <2>1, <2>3, <3>1 DEF CreatesLast
    <3>3. ASSUME NEW j \in ((k - 1) + 1)..m PROVE p[j].type # "JoinRoom"
      <4>1. j \in 1..n /\ j + 1 \in (k + 1)..(m + 1)
        BY <2>3
      <4> QED BY <1>3, <2>1, <4>1 DEF CreatesLast
    <3>4. CreatesLast(p, k - 1, m)
      BY <3>2, <3>3 DEF CreatesLast
    <3>5. k - 1 \in 0..m /\ k - 1 # 0
      BY <3>1
    <3> QED BY <1>1, <3>4, <3>5 DEF WillLead
  <2> QED BY <2>2, <2>3
<1>9. ClosesOwn(c)'
  <2>1. Hosting(c)' => WillLead(c, n)'
    <3>1. Hosting(c) => WillLead(c, n + 1)
      BY <1>0, <1>2 DEF ClientOrder, ClosesOwn
    <3> QED BY <1>6, <1>8, <3>1
  <2>2. ASSUME NEW i \in DOMAIN p, p[i].type = "CloseRoom"
        PROVE  WillLead(c, i - 1)'
    <3>1. WillLead(c, (i + 1) - 1)
      BY <1>0, <1>4, <2>2 DEF ClientOrder, ClosesOwn
    <3>2. (i + 1) - 1 = (i - 1) + 1 /\ i - 1 \in 0..n
      BY <1>3
    <3>3. WillLead(c, (i - 1) + 1)
      BY <3>1, <3>2
    <3> QED BY <1>8, <3>2, <3>3
  <2> QED BY <1>1, <1>3, <2>1, <2>2 DEF ClosesOwn
<1>10. Opening(c)' => Opening(c)
  BY <1>0, <1>1, <1>4 DEF Opening
<1>11. Leaves(Request(c)) => Over(c) /\ ~Opening(c)'
  <2> SUFFICES ASSUME Leaves(q[1]) PROVE Over(c) /\ ~Opening(c)'
    BY <1>1
  <2>1. 1 \in DOMAIN q
    BY <1>3
  <2>2. Over(c) /\ \A j \in DOMAIN q : Opens(q[j]) => j < 1
    BY <1>0, <2>1 DEF ClientOrder, LeavesLast
  <2>3. \A j \in DOMAIN p : ~Opens(p[j])
    <3> SUFFICES ASSUME NEW j \in DOMAIN p, Opens(p[j]) PROVE FALSE
      OBVIOUS
    <3>1. j + 1 < 1 /\ j \in 1..n
      BY <1>3, <1>4, <2>2
    <3> QED BY <3>1
  <2> QED BY <1>1, <2>2, <2>3 DEF Opening
<1> QED BY <1>1, <1>5, <1>6, <1>7, <1>9, <1>10, <1>11 DEF ClientOrder

(***************************************************************************)
(* The same for all clients: a step of the Client actor of c takes no room *)
(* from anybody.                                                           *)
(***************************************************************************)
LEMMA TakenKeepsClients ==
    ASSUME IInv, OrderInv, NEW c \in Clients, upstream[c] # << >>,
           Taken(c), UNCHANGED api,
           \A d \in Clients, l \in Lobbies : Owns(d, l) => Owns(d, l)',
           \A d \in Clients \ {c} : m_handler'[d] = m_handler[d],
           Request(c).type = "CreateRoom" => Leads(c)',
           Request(c).type # "JoinRoom" /\ Leads(c) => Leads(c)'
    PROVE  /\ \A d \in Clients : ClientOrder(d)'
           /\ \A d \in Clients : Opening(d)' => Opening(d)
           /\ Leaves(Request(c)) => Over(c) /\ ~Opening(c)'
<1>1. /\ ClientOrder(c)'
      /\ Opening(c)' => Opening(c)
      /\ Leaves(Request(c)) => Over(c) /\ ~Opening(c)'
  BY TakenOrder DEF OrderInv
<1>2. ASSUME NEW d \in Clients \ {c}
      PROVE  ClientOrder(d)' /\ (Opening(d)' => Opening(d))
  <2>1. upstream'[d] = upstream[d] /\ ClientOrder(d)
    BY DEF Taken, IInv, TypeOK, ClientTypeOK, OrderInv
  <2>2. m_handler[d] \in Lobbies \cup {Null}
    BY DEF IInv, TypeOK, ClientTypeOK
  <2>3. Leads(d) => Leads(d)'
    BY <2>2 DEF Leads, Owns, Running, Gets, Current, GetHost
  <2> QED BY <2>1, <2>3, OtherOrder
<1> QED BY <1>1, <1>2

(***************************************************************************)
(* A message behind the others changes nobody's room.                      *)
(***************************************************************************)
LEMMA EnqueueOwns ==
    ASSUME LobbyTypeOK, NEW l \in Lobbies, NEW m, Enqueue(l, m),
           UNCHANGED lobby, NEW d, NEW k \in Lobbies
    PROVE  Owns(d, k) => Owns(d, k)'
<1>1. mailbox[k] \in Seq(Mail) /\ mailbox \in [Lobbies -> Seq(Mail)]
  BY DEF LobbyTypeOK
<1>2. \/ mailbox'[k] = mailbox[k]
      \/ mailbox'[k] = Append(mailbox[k], m)
  BY <1>1 DEF Enqueue
<1>3. Gets(k, "Init") => Gets(k, "Init")' /\ Current(k)' = Current(k)
  BY <1>1, <1>2 DEF Gets, Current
<1> QED BY <1>3 DEF Owns, Running, GetHost

(***************************************************************************)
(* A message put behind the others of a mailbox.                           *)
(***************************************************************************)
LEMMA EnqueueOrder ==
    ASSUME IInv, OrderInv, NEW l \in Lobbies, NEW m \in Mail, Enqueue(l, m),
           UNCHANGED <<lobby, api>>,
           \A d \in Clients : Opening(d)' => Opening(d),
           Departs(m) => Over(m.sender) /\ ~Opening(m.sender)',
           m.type = "Close" => Owns(m.sender, l) /\ Opening(m.sender),
           NEW k \in Lobbies
    PROVE  MailOrder(k)'
<1>0. PICK q, p : q = mailbox[k] /\ p = mailbox'[k]
  OBVIOUS
<1>1. /\ LobbyTypeOK /\ mailbox \in [Lobbies -> Seq(Mail)]
      /\ q \in Seq(Mail) /\ Len(q) \in Nat
      /\ mailbox[k] = q /\ mailbox'[k] = p
      /\ MailOrder(k)
  BY <1>0 DEF IInv, TypeOK, LobbyTypeOK, OrderInv
<1>2. p = q \/ (k = l /\ p = Append(q, m))
  BY <1>1 DEF Enqueue
<1>3. \A i \in DOMAIN p :
         \/ i \in DOMAIN q /\ p[i] = q[i] /\ i < Len(q) + 1
         \/ k = l /\ i = Len(q) + 1 /\ p[i] = m
  BY <1>1, <1>2
<1>4. \A d \in Clients : Owns(d, k) => Owns(d, k)'
  BY <1>1, EnqueueOwns
<1>5. \A i \in DOMAIN q : q[i] \in Mail /\ q[i].sender \in Clients
  BY <1>1, MailFields
<1>6. ASSUME NEW i \in DOMAIN p
      PROVE  Departs(p[i]) => Over(p[i].sender)' /\ ~Opening(p[i].sender)'
  <2>1. CASE i \in DOMAIN q /\ p[i] = q[i]
    BY <1>1, <1>5, <2>1 DEF MailOrder, DepartsLate, Over
  <2>2. CASE p[i] = m
    BY <2>2 DEF Over
  <2> QED BY <1>3, <2>1, <2>2
<1>7. ASSUME NEW i \in DOMAIN p, p[i].type = "Close"
      PROVE  Owns(p[i].sender, k)'
  <2>1. CASE i \in DOMAIN q /\ p[i] = q[i]
    BY <1>1, <1>4, <1>5, <1>7, <2>1 DEF MailOrder
  <2>2. CASE k = l /\ p[i] = m
    BY <1>4, <1>7, <2>2, MailFields
  <2> QED BY <1>3, <2>1, <2>2
<1>8. ASSUME NEW i \in DOMAIN p, p[i].type = "Close",
             NEW j \in DOMAIN p, Departs(p[j]), p[j].sender = p[i].sender
      PROVE  i < j
  <2>1. CASE /\ i \in DOMAIN q /\ p[i] = q[i]
             /\ j \in DOMAIN q /\ p[j] = q[j]
    BY <1>1, <1>8, <2>1 DEF MailOrder
  <2>2. CASE /\ i \in DOMAIN q /\ i < Len(q) + 1
             /\ j = Len(q) + 1
    BY <2>2
  <2>3. CASE p[i] = m /\ j \in DOMAIN q /\ p[j] = q[j]
    BY <1>1, <1>8, <2>3 DEF MailOrder, DepartsLate
  <2>4. CASE p[i] = m /\ p[j] = m
    BY <1>8, <2>4 DEF Departs
  <2> QED BY <1>3, <2>1, <2>2, <2>3, <2>4
<1>9. ASSUME NEW i \in DOMAIN p
      PROVE  DepartsLate(mailbox[k][i])'
  BY <1>1, <1>6, <1>9 DEF DepartsLate
<1> QED BY <1>1, <1>7, <1>8, <1>9 DEF MailOrder

(***************************************************************************)
(* No message at all.                                                      *)
(***************************************************************************)
LEMMA NoMailOrder ==
    ASSUME IInv, OrderInv, UNCHANGED <<lobby, mailbox, api>>,
           \A d \in Clients : Opening(d)' => Opening(d),
           NEW k \in Lobbies
    PROVE  MailOrder(k)'
<1>1. MailOrder(k) /\ mailbox[k] \in Seq(Mail)
  BY DEF OrderInv, IInv, TypeOK, LobbyTypeOK
<1>2. \A i \in DOMAIN mailbox[k] : mailbox[k][i].sender \in Clients
  BY <1>1, MailFields
<1>3. \A d : Owns(d, k) => Owns(d, k)'
  BY DEF Owns, Running, GetHost, Gets, Current
<1>4. \A i \in DOMAIN mailbox[k] : DepartsLate(mailbox[k][i])'
  BY <1>1, <1>2 DEF MailOrder, DepartsLate, Over
<1> QED BY <1>1, <1>3, <1>4 DEF MailOrder

(***************************************************************************)
(* CreateRoom: m_handler leads to the new actor, whose first message is    *)
(* the Init of this client.                                                *)
(***************************************************************************)
LEMMA TakeCreateRoomOrder ==
    ASSUME IInv, OrderInv, NEW c \in Clients, TakeCreateRoom(c),
           UNCHANGED api
    PROVE  OrderInv'
<1>0. PICK l, mail :
        /\ l = CHOOSE k \in Lobbies : lobby[k].phase = "unborn"
        /\ mail = [type |-> "Init", sender |-> c, name |-> Request(c).name,
                   room |-> Request(c).room, limits |-> Request(c).limits]
  OBVIOUS
<1>1. /\ upstream[c] # << >> /\ Request(c).type = "CreateRoom"
      /\ Taken(c)
      /\ l \in Lobbies /\ lobby[l].phase = "unborn"
      /\ lobby' = [lobby EXCEPT ![l].phase = "initial"]
      /\ m_handler' = [m_handler EXCEPT ![c] = l]
      /\ mailbox' = [mailbox EXCEPT ![l] = <<mail>>]
  BY <1>0 DEF TakeCreateRoom, Requested
<1>2. /\ lobby \in [Lobbies -> LobbyState]
      /\ mailbox \in [Lobbies -> Seq(Mail)]
      /\ m_handler \in [Clients -> Lobbies \cup {Null}]
  BY DEF IInv, TypeOK, LobbyTypeOK, ClientTypeOK
<1>3. /\ lobby'[l].phase = "initial" /\ mailbox'[l] = <<mail>>
      /\ m_handler'[c] = l
      /\ mail.type = "Init" /\ mail.sender = c
  BY <1>0, <1>1, <1>2 DEF LobbyState
<1>4. \A k \in Lobbies \ {l} :
         lobby'[k] = lobby[k] /\ mailbox'[k] = mailbox[k]
  BY <1>1, <1>2
<1>5. \A d \in Clients \ {c} : m_handler'[d] = m_handler[d]
  BY <1>1, <1>2
<1>6. \A d, k : k \in Lobbies /\ Owns(d, k) => Owns(d, k)'
  <2> SUFFICES ASSUME NEW d, NEW k \in Lobbies, Owns(d, k)
               PROVE  Owns(d, k)'
    OBVIOUS
  <2>1. k # l
    BY <1>1 DEF Owns, Running
  <2> QED BY <1>4, <2>1 DEF Owns, Running, GetHost, Gets, Current
<1>7. Leads(c)'
  <2>1. Gets(l, "Init")' /\ Current(l)'.sender = c
    BY <1>3 DEF Gets, Current
  <2> QED BY <1>3, <2>1 DEF Leads, Owns
<1>8. /\ \A d \in Clients : ClientOrder(d)'
      /\ \A d \in Clients : Opening(d)' => Opening(d)
  BY <1>1, <1>5, <1>6, <1>7, TakenKeepsClients
<1>9. ASSUME NEW k \in Lobbies PROVE MailOrder(k)'
  <2>1. CASE k = l
    <3>1. \A i \in DOMAIN mailbox'[l] : mailbox'[l][i] = mail
      BY <1>3
    <3> QED BY <1>3, <2>1, <3>1 DEF MailOrder, DepartsLate, Departs
  <2>2. CASE k # l
    <3>1. MailOrder(k) /\ mailbox[k] \in Seq(Mail) /\ mailbox'[k] = mailbox[k]
      BY <1>2, <1>4, <2>2 DEF OrderInv
    <3>2. \A i \in DOMAIN mailbox[k] : mailbox[k][i].sender \in Clients
      BY <3>1, MailFields
    <3>3. \A i \in DOMAIN mailbox[k] : DepartsLate(mailbox[k][i])'
      BY <1>8, <3>1, <3>2 DEF MailOrder, DepartsLate, Over
    <3> QED BY <1>6, <3>1, <3>3 DEF MailOrder
  <2> QED BY <2>1, <2>2
<1> QED BY <1>8, <1>9 DEF OrderInv

(***************************************************************************)
(* JoinRoom: m_handler may lead elsewhere now.                             *)
(***************************************************************************)
LEMMA TakeJoinRoomOrder ==
    ASSUME IInv, OrderInv, NEW c \in Clients, TakeJoinRoom(c),
           UNCHANGED api
    PROVE  OrderInv'
<1>1. /\ upstream[c] # << >> /\ Request(c).type = "JoinRoom"
      /\ Taken(c) /\ UNCHANGED <<lobby, api>>
      /\ LobbyTypeOK /\ ClientTypeOK
  BY DEF TakeJoinRoom, Requested, IInv, TypeOK
<1>2. Request(c).name \in Names /\ Request(c).room \in RoomNames
  BY <1>1, RequestType, RequestFields
<1>3. PICK found \in Lookup(Request(c).room) :
        \/ /\ found # Null
           /\ m_handler' = [m_handler EXCEPT ![c] = found.handler]
           /\ Enqueue(found.handler, [type |-> "Join", sender |-> c,
                                      name |-> Request(c).name])
        \/ UNCHANGED <<m_handler, mailbox>>
  BY DEF TakeJoinRoom
<1>4. \A d \in Clients \ {c} : m_handler'[d] = m_handler[d]
  BY <1>1, <1>3 DEF ClientTypeOK
<1>5. PICK m : m = [type |-> "Join", sender |-> c, name |-> Request(c).name]
  OBVIOUS
<1>6. m \in Mail /\ m.type = "Join"
  BY <1>2, <1>5, MailForwarded
<1>7. CASE found # Null /\ Enqueue(found.handler, m)
  <2>1. found.handler \in Lobbies
    BY <1>1, <1>2, <1>7, LookupType DEF LobbyTypeOK
  <2>2. \A d \in Clients, k \in Lobbies : Owns(d, k) => Owns(d, k)'
    BY <1>1, <1>7, <2>1, EnqueueOwns
  <2>3. /\ \A d \in Clients : ClientOrder(d)'
        /\ \A d \in Clients : Opening(d)' => Opening(d)
    BY <1>1, <1>4, <2>2, TakenKeepsClients
  <2>4. \A k \in Lobbies : MailOrder(k)'
    BY <1>1, <1>6, <1>7, <2>1, <2>3, EnqueueOrder DEF Departs
  <2> QED BY <2>3, <2>4 DEF OrderInv
<1>8. CASE UNCHANGED <<m_handler, mailbox>>
  <2>1. \A d \in Clients, k \in Lobbies : Owns(d, k) => Owns(d, k)'
    BY <1>1, <1>8 DEF Owns, Running, GetHost, Gets, Current
  <2>2. /\ \A d \in Clients : ClientOrder(d)'
        /\ \A d \in Clients : Opening(d)' => Opening(d)
    BY <1>1, <1>4, <2>1, TakenKeepsClients
  <2>3. \A k \in Lobbies : MailOrder(k)'
    BY <1>1, <1>8, <2>2, NoMailOrder
  <2> QED BY <2>2, <2>3 DEF OrderInv
<1> QED BY <1>3, <1>5, <1>7, <1>8

(***************************************************************************)
(* An Envelop: a LeaveRoom in it is behind every request to close.         *)
(***************************************************************************)
LEMMA TakeEnvelopOrder ==
    ASSUME IInv, OrderInv, NEW c \in Clients, TakeEnvelop(c),
           UNCHANGED api
    PROVE  OrderInv'
<1>1. /\ upstream[c] # << >> /\ Request(c).type = "Envelop"
      /\ Taken(c) /\ UNCHANGED <<lobby, api, m_handler>>
      /\ LobbyTypeOK /\ ClientTypeOK
  BY DEF TakeEnvelop, Requested, IInv, TypeOK
<1>2. PICK m : m = Request(c).mail
  OBVIOUS
<1>3. m \in Mail /\ Request(c).room \in RoomNames
  BY <1>1, <1>2, RequestType, RequestFields
<1>4. m.sender = c /\ m.type # "Close"
  <2>1. 1 \in DOMAIN upstream[c] /\ Request(c) = upstream[c][1]
    BY <1>1 DEF ClientTypeOK, Request
  <2>2. OwnMail(c, Request(c))
    BY <2>1 DEF OrderInv, ClientOrder
  <2> QED BY <1>1, <1>2, <2>2 DEF OwnMail
<1>5. PICK found \in Lookup(Request(c).room) :
        \/ found # Null /\ Enqueue(found.handler, m)
        \/ UNCHANGED mailbox
  BY <1>2 DEF TakeEnvelop
<1>6. CASE found # Null /\ Enqueue(found.handler, m)
  <2>1. found.handler \in Lobbies
    BY <1>1, <1>3, <1>6, LookupType DEF LobbyTypeOK
  <2>2. \A d \in Clients, k \in Lobbies : Owns(d, k) => Owns(d, k)'
    BY <1>1, <1>6, <2>1, EnqueueOwns
  <2>3. Leads(c) => Leads(c)'
    BY <1>1, <2>2 DEF Leads, ClientTypeOK
  <2>4. /\ \A d \in Clients : ClientOrder(d)'
        /\ \A d \in Clients : Opening(d)' => Opening(d)
        /\ Leaves(Request(c)) => Over(c) /\ ~Opening(c)'
    BY <1>1, <2>2, <2>3, TakenKeepsClients
  <2>5. Departs(m) => Over(m.sender) /\ ~Opening(m.sender)'
    BY <1>1, <1>2, <1>4, <2>4 DEF Leaves
  <2>6. \A k \in Lobbies : MailOrder(k)'
    BY <1>1, <1>3, <1>4, <1>6, <2>1, <2>4, <2>5, EnqueueOrder
  <2> QED BY <2>4, <2>6 DEF OrderInv
<1>7. CASE UNCHANGED mailbox
  <2>1. \A d \in Clients, k \in Lobbies : Owns(d, k) => Owns(d, k)'
    BY <1>1, <1>7 DEF Owns, Running, GetHost, Gets, Current
  <2>2. Leads(c) => Leads(c)'
    BY <1>1, <2>1 DEF Leads, ClientTypeOK
  <2>3. /\ \A d \in Clients : ClientOrder(d)'
        /\ \A d \in Clients : Opening(d)' => Opening(d)
    BY <1>1, <2>1, <2>2, TakenKeepsClients
  <2>4. \A k \in Lobbies : MailOrder(k)'
    BY <1>1, <1>7, <2>3, NoMailOrder
  <2> QED BY <2>3, <2>4 DEF OrderInv
<1> QED BY <1>5, <1>6, <1>7

(***************************************************************************)
(* CloseRoom: m_handler leads to a room of the client, and nothing it sent *)
(* before makes it leave.                                                  *)
(***************************************************************************)
LEMMA TakeCloseRoomOrder ==
    ASSUME IInv, OrderInv, NEW c \in Clients, TakeCloseRoom(c),
           UNCHANGED api
    PROVE  OrderInv'
<1>1. /\ upstream[c] # << >> /\ Request(c).type = "CloseRoom"
      /\ Taken(c) /\ UNCHANGED <<lobby, api>>
      /\ LobbyTypeOK /\ ClientTypeOK
  BY DEF TakeCloseRoom, Requested, IInv, TypeOK
<1>2. PICK m : m = [type |-> "Close", sender |-> c]
  OBVIOUS
<1>3. m \in Mail /\ m.type = "Close" /\ m.sender = c
  BY <1>2, MailForwarded
<1>4. \/ /\ m_handler[c] # Null
         /\ Enqueue(m_handler[c], m)
         /\ m_handler' = [m_handler EXCEPT ![c] = Null]
      \/ m_handler[c] = Null /\ UNCHANGED <<mailbox, m_handler>>
  BY <1>2 DEF TakeCloseRoom
<1>5. /\ m_handler'[c] = Null
      /\ \A d \in Clients \ {c} : m_handler'[d] = m_handler[d]
  BY <1>1, <1>4 DEF ClientTypeOK
<1>6. Leads(c)'
  BY <1>5 DEF Leads
<1>7. CASE m_handler[c] # Null /\ Enqueue(m_handler[c], m)
  <2>1. PICK l \in Lobbies : l = m_handler[c]
    BY <1>1, <1>7 DEF ClientTypeOK
  <2>2. \A d \in Clients, k \in Lobbies : Owns(d, k) => Owns(d, k)'
    BY <1>1, <1>7, <2>1, EnqueueOwns
  <2>3. /\ \A d \in Clients : ClientOrder(d)'
        /\ \A d \in Clients : Opening(d)' => Opening(d)
    BY <1>1, <1>5, <1>6, <2>2, TakenKeepsClients
  <2>4. 1 \in DOMAIN upstream[c] /\ Request(c) = upstream[c][1]
    BY <1>1 DEF ClientTypeOK, Request
  <2>5. Opening(c)
    BY <1>1, <2>4 DEF Opening, Opens
  <2>6. Owns(c, l)
    <3>1. WillLead(c, 1 - 1)
      BY <1>1, <2>4 DEF OrderInv, ClientOrder, ClosesOwn
    <3>2. PICK k \in 0..(1 - 1) : k = 0 => Leads(c)
      BY <3>1 DEF WillLead
    <3>3. k = 0
      OBVIOUS
    <3> QED BY <1>7, <2>1, <3>2, <3>3 DEF Leads
  <2>7. \A k \in Lobbies : MailOrder(k)'
    BY <1>1, <1>3, <1>7, <2>1, <2>3, <2>5, <2>6, EnqueueOrder DEF Departs
  <2> QED BY <2>3, <2>7 DEF OrderInv
<1>8. CASE UNCHANGED <<mailbox, m_handler>>
  <2>1. \A d \in Clients, k \in Lobbies : Owns(d, k) => Owns(d, k)'
    BY <1>1, <1>8 DEF Owns, Running, GetHost, Gets, Current
  <2>2. /\ \A d \in Clients : ClientOrder(d)'
        /\ \A d \in Clients : Opening(d)' => Opening(d)
    BY <1>1, <1>5, <1>6, <2>1, TakenKeepsClients
  <2>3. \A k \in Lobbies : MailOrder(k)'
    BY <1>1, <1>8, <2>2, NoMailOrder
  <2> QED BY <2>2, <2>3 DEF OrderInv
<1> QED BY <1>4, <1>7, <1>8

(***************************************************************************)
(* The end of the connection: whoever it was of is gone.                   *)
(***************************************************************************)
LEMMA TakePeerClosedOrder ==
    ASSUME IInv, OrderInv, NEW c \in Clients, TakePeerClosed(c),
           UNCHANGED api
    PROVE  OrderInv'
<1>1. /\ upstream[c] # << >> /\ Request(c).type = "PeerClosed"
      /\ UNCHANGED <<lobby, api>>
      /\ LobbyTypeOK /\ ClientTypeOK
      /\ upstream' = [upstream EXCEPT ![c] = << >>]
      /\ m_handler' = [m_handler EXCEPT ![c] = Null]
  BY DEF TakePeerClosed, Requested, IInv, TypeOK
<1>2. PICK m : m = [type |-> "Disconnected", sender |-> c]
  OBVIOUS
<1>3. m \in Mail /\ m.type = "Disconnected" /\ m.sender = c
  BY <1>2, MailForwarded
<1>4. \/ m_handler[c] # Null /\ Enqueue(m_handler[c], m)
      \/ UNCHANGED mailbox
  BY <1>2 DEF TakePeerClosed
<1>5. Over(c) /\ Idle(c)
  <2>1. 1 \in DOMAIN upstream[c] /\ Request(c) = upstream[c][1]
    BY <1>1 DEF ClientTypeOK, Request
  <2> QED BY <1>1, <2>1 DEF OrderInv, ClientOrder, LeavesLast, Leaves
<1>6. /\ upstream'[c] = << >> /\ m_handler'[c] = Null
      /\ \A d \in Clients \ {c} :
            upstream'[d] = upstream[d] /\ m_handler'[d] = m_handler[d]
  BY <1>1 DEF ClientTypeOK
<1>7. ClientOrder(c)' /\ ~Opening(c)'
  <2>1. Idle(c)' /\ ~Hosting(c)'
    BY <1>1, <1>5 DEF Idle, Over, Hosting, IsHost
  <2> QED BY <1>6, <2>1 DEF ClientOrder, LeavesLast, ClosesOwn, Opening
<1>8. \A d \in Clients, k \in Lobbies : Owns(d, k) => Owns(d, k)'
  <2>1. CASE m_handler[c] # Null /\ Enqueue(m_handler[c], m)
    <3>1. m_handler[c] \in Lobbies
      BY <1>1, <2>1 DEF ClientTypeOK
    <3> QED BY <1>1, <2>1, <3>1, EnqueueOwns
  <2>2. CASE UNCHANGED mailbox
    BY <1>1, <2>2 DEF Owns, Running, GetHost, Gets, Current
  <2> QED BY <1>4, <2>1, <2>2
<1>9. ASSUME NEW d \in Clients \ {c}
      PROVE  ClientOrder(d)' /\ (Opening(d)' => Opening(d))
  <2>1. Leads(d) => Leads(d)'
    BY <1>1, <1>6, <1>8 DEF Leads, ClientTypeOK
  <2> QED BY <1>1, <1>6, <2>1, OtherOrder DEF OrderInv
<1>10. \A k \in Lobbies : MailOrder(k)'
  <2>1. CASE m_handler[c] # Null /\ Enqueue(m_handler[c], m)
    <3>1. m_handler[c] \in Lobbies
      BY <1>1, <2>1 DEF ClientTypeOK
    <3> QED BY <1>1, <1>3, <1>5, <1>7, <1>9, <2>1, <3>1, EnqueueOrder
  <2>2. CASE UNCHANGED mailbox
    BY <1>1, <1>7, <1>9, <2>2, NoMailOrder
  <2> QED BY <1>4, <2>1, <2>2
<1> QED BY <1>7, <1>9, <1>10 DEF OrderInv

(***************************************************************************)
(* Whatever a Client actor handles keeps the order, if chunks are requests.*)
(***************************************************************************)
LEMMA ClientActorOrder ==
    ASSUME WholeRequests, IInv, OrderInv, NEW c \in Clients, ClientActorStep(c),
           UNCHANGED api
    PROVE  OrderInv'
BY TakeCreateRoomOrder, TakeJoinRoomOrder, TakeEnvelopOrder,
   TakeCloseRoomOrder, TakePeerClosedOrder DEF ClientActorStep

-----------------------------------------------------------------------------
(***************************************************************************)
(* A room stays its owner's while he does not leave it.                    *)
(***************************************************************************)
LEMMA OwnsStep ==
    ASSUME ServerSound, NEW l \in Lobbies, LobbyActorStep(l),
           NEW d \in Clients, Owns(d, l),
           ~(Gets(l, "Disconnected") /\ Current(l).sender = d)
    PROVE  Owns(d, l)'
<1>0. LobbyTypeOK
  BY DEF ServerSound
<1> DEFINE m == Current(l)
<1> SUFFICES \/ lobby'[l].phase \in {"zombie", "stopped"}
             \/ lobby'[l].phase = "running" /\ GetHost(lobby'[l]).actor = d
  BY DEF Owns, Running, GetHost
<1>1. CASE HandleInit(l)
  <2> DEFINE p == [actor |-> m.sender, name |-> m.name]
             room == [phase |-> "running", name |-> m.room,
                      limits |-> m.limits, players |-> <<p>>]
             zombie == [room EXCEPT !.phase = "zombie"]
  <2>1. \/ lobby' = [lobby EXCEPT ![l] = room]
        \/ lobby' = [lobby EXCEPT ![l] = zombie]
    BY <1>1 DEF HandleInit
  <2>2. m.sender = d
    BY <1>1 DEF HandleInit, Owns, Running
  <2>3. room.phase = "running" /\ GetHost(room).actor = d
    BY <2>2 DEF GetHost
  <2>4. zombie.phase = "zombie"
    OBVIOUS
  <2> HIDE DEF room, zombie
  <2> QED BY <1>0, <2>1, <2>3, <2>4, ChangedLobby
<1>2. ASSUME Running(l)
      PROVE  /\ lobby[l] \in LobbyState /\ lobby[l].phase = "running"
             /\ lobby[l].players \in Seq(PlayerInfo)
             /\ GetHost(lobby[l]).actor = d
             /\ lobby[l].players # << >>
             /\ GetHost(lobby[l]) = lobby[l].players[1]
  <2>1. lobby[l] \in LobbyState /\ lobby[l].players \in Seq(PlayerInfo)
        /\ lobby[l].players # << >>
    BY <1>2, RunningRoom DEF ServerSound, RoomsFilled
  <2>2. lobby[l].phase = "running" /\ GetHost(lobby[l]).actor = d
    BY <1>2 DEF Owns, Running
  <2> QED BY <2>1, <2>2 DEF GetHost
<1>3. CASE HandleEjectPlayer(l)
  <2> DEFINE i == IndexOfName(lobby[l], m.name)
             left == WithoutPlayer(lobby[l], i)
  <2>1. Running(l) /\ m.name \in Names
    BY <1>0, <1>3, CurrentType, MailFields DEF HandleEjectPlayer, Gets
  <2>2. \/ UNCHANGED lobby
        \/ /\ lobby' = [lobby EXCEPT ![l] = left]
           /\ i # 0
           /\ GetHost(lobby[l]).name # m.name
    BY <1>3 DEF HandleEjectPlayer
  <2>3. CASE UNCHANGED lobby
    BY <1>2, <2>1, <2>3
  <2>4. CASE /\ lobby' = [lobby EXCEPT ![l] = left]
             /\ i # 0
             /\ GetHost(lobby[l]).name # m.name
    <3>1. /\ i \in 1..Len(lobby[l].players)
          /\ Len(lobby[l].players) \in Nat
          /\ lobby[l].players[i].name = m.name
      BY <1>2, <2>1, <2>4, IndexOfNameType DEF LobbyState
    <3>2. i \in 2..Len(lobby[l].players)
      BY <1>2, <2>1, <2>4, <3>1
    <3>3. GetHost(left) = GetHost(lobby[l]) /\ left.phase = "running"
      BY <1>2, <2>1, <3>1, <3>2, HostKept, WithoutPlayerType
    <3>4. lobby'[l] = left
      BY <1>0, <2>4, ChangedLobby
    <3> HIDE DEF left
    <3> QED BY <1>2, <2>1, <3>3, <3>4
  <2> QED BY <2>2, <2>3, <2>4
<1>4. CASE HandleReconfigure(l)
  <2> DEFINE room == [lobby[l] EXCEPT !.limits = m.limits]
  <2>1. Running(l)
    BY <1>4 DEF HandleReconfigure
  <2>2. UNCHANGED lobby \/ lobby' = [lobby EXCEPT ![l] = room]
    BY <1>4 DEF HandleReconfigure
  <2>3. room.phase = "running" /\ GetHost(room) = GetHost(lobby[l])
    BY <1>2, <2>1 DEF LobbyState, GetHost
  <2> HIDE DEF room
  <2> QED BY <1>0, <1>2, <2>1, <2>2, <2>3, ChangedLobby
<1>5. CASE HandleJoin(l)
  <2>1. PICK p, joined :
          /\ p = [actor |-> m.sender, name |-> m.name]
          /\ joined = WithPlayer(lobby[l], p)
    OBVIOUS
  <2>2. Running(l) /\ p \in PlayerInfo
    BY <1>0, <1>5, <2>1, CurrentType, MailFields
       DEF HandleJoin, Gets, PlayerInfo
  <2>3. UNCHANGED lobby \/ lobby' = [lobby EXCEPT ![l] = joined]
    BY <1>5, <2>1 DEF HandleJoin
  <2>4. /\ joined.phase = "running"
        /\ joined.players = Append(lobby[l].players, p)
    BY <1>2, <2>1, <2>2 DEF LobbyState, WithPlayer
  <2>5. GetHost(joined) = GetHost(lobby[l])
    <3>1. joined.players \in Seq(PlayerInfo) /\ joined.players # << >>
          /\ joined.players[1] = lobby[l].players[1]
      BY <1>2, <2>2, <2>4
    <3> QED BY <1>2, <2>2, <3>1 DEF GetHost
  <2> QED BY <1>0, <1>2, <2>2, <2>3, <2>4, <2>5, ChangedLobby
<1>6. CASE HandleDisconnected(l)
  <2> DEFINE i == IndexOfActor(lobby[l], m.sender)
             left == WithoutPlayer(lobby[l], i)
  <2>1. Running(l) /\ m.sender \in Clients /\ m.sender # d
    BY <1>0, <1>6, CurrentType, MailFields DEF HandleDisconnected, Gets
  <2>2. \/ UNCHANGED lobby
        \/ lobby' = [lobby EXCEPT ![l] = left] /\ i # 0
        \/ Shutdown(l)
    BY <1>6 DEF HandleDisconnected
  <2>3. CASE UNCHANGED lobby
    BY <1>2, <2>1, <2>3
  <2>4. CASE lobby' = [lobby EXCEPT ![l] = left] /\ i # 0
    <3>1. /\ i \in 1..Len(lobby[l].players)
          /\ Len(lobby[l].players) \in Nat
          /\ lobby[l].players[i].actor = m.sender
      BY <1>2, <2>1, <2>4, IndexOfActorType DEF LobbyState
    <3>2. i \in 2..Len(lobby[l].players)
      BY <1>2, <2>1, <3>1
    <3>3. GetHost(left) = GetHost(lobby[l]) /\ left.phase = "running"
      BY <1>2, <2>1, <3>1, <3>2, HostKept, WithoutPlayerType
    <3>4. lobby'[l] = left
      BY <1>0, <2>4, ChangedLobby
    <3> HIDE DEF left
    <3> QED BY <1>2, <2>1, <3>3, <3>4
  <2>5. CASE Shutdown(l)
    <3>1. lobby'[l] = Stopped
      BY <1>0, <2>5, ChangedLobby DEF Shutdown
    <3> QED BY <3>1 DEF Stopped, Unborn
  <2> QED BY <2>2, <2>3, <2>4, <2>5
<1>7. CASE HandleClose(l) \/ HandleAsZombie(l)
  <2>1. CASE Shutdown(l)
    <3>1. lobby'[l] = Stopped
      BY <1>0, <2>1, ChangedLobby DEF Shutdown
    <3> QED BY <3>1 DEF Stopped, Unborn
  <2> QED BY <1>7, <2>1 DEF HandleClose, HandleAsZombie
<1>8. CASE \/ HandleMessage(l) \/ HandleStartSession(l)
           \/ HandleLeaveRoom(l) \/ HandleUpdate(l)
  BY <1>2, <1>8 DEF HandleMessage, HandleStartSession, HandleLeaveRoom,
                    HandleUpdate
<1> QED BY <1>1, <1>3, <1>4, <1>5, <1>6, <1>7, <1>8 DEF LobbyActorStep

(***************************************************************************)
(* What a handler does to the mailboxes: it takes the first message of its *)
(* own, and may forward an Update, or a LeaveRoom as a Disconnected.       *)
(***************************************************************************)
LEMMA MailboxStep ==
    ASSUME LobbyTypeOK, NEW l \in Lobbies, LobbyActorStep(l)
    PROVE  /\ mailbox[l] # << >>
           /\ \A k \in Lobbies \ {l} : mailbox'[k] = mailbox[k]
           /\ \/ mailbox'[l] = Tail(mailbox[l])
              \/ mailbox'[l] = << >>
              \/ \E m : /\ mailbox'[l] = Append(Tail(mailbox[l]), m)
                        /\ \/ m.type = "Update"
                           \/ /\ m.type = "Disconnected"
                              /\ Current(l).type = "LeaveRoom"
                              /\ m.sender = Current(l).sender
<1>1. mailbox \in [Lobbies -> Seq(Mail)]
  BY DEF LobbyTypeOK
<1>2. mailbox[l] # << >>
  BY DEF LobbyActorStep, HandleInit, HandleMessage, HandleStartSession,
         HandleEjectPlayer, HandleReconfigure, HandleLeaveRoom, HandleUpdate,
         HandleJoin, HandleDisconnected, HandleClose, HandleAsZombie, Gets
<1>3. CASE Handled(l)
  BY <1>1, <1>2, <1>3 DEF Handled
<1>4. CASE Shutdown(l)
  BY <1>1, <1>2, <1>4 DEF Shutdown
<1>5. CASE HandleLeaveRoom(l)
  <2>1. PICK m : m = [type |-> "Disconnected", sender |-> Current(l).sender]
    OBVIOUS
  <2>2. /\ Current(l).type = "LeaveRoom"
        /\ mailbox' = [mailbox EXCEPT ![l] = Append(Tail(@), m)]
    BY <1>5, <2>1 DEF HandleLeaveRoom, HandledAndForward, Gets
  <2> QED BY <1>1, <1>2, <2>1, <2>2
<1>6. ASSUME NEW sender, NEW name, NEW toSelf, NEW flags,
             HandledAndForward(l, UpdateMail(sender, name, toSelf, flags))
      PROVE  /\ \A k \in Lobbies \ {l} : mailbox'[k] = mailbox[k]
             /\ \E m : /\ mailbox'[l] = Append(Tail(mailbox[l]), m)
                       /\ m.type = "Update"
  <2>1. PICK m : m = UpdateMail(sender, name, toSelf, flags)
    OBVIOUS
  <2>2. mailbox' = [mailbox EXCEPT ![l] = Append(Tail(@), m)]
    BY <1>6, <2>1 DEF HandledAndForward
  <2>3. m.type = "Update"
    BY <2>1 DEF UpdateMail
  <2> QED BY <1>1, <2>2, <2>3
<1>7. CASE HandleEjectPlayer(l)
  BY <1>2, <1>3, <1>6, <1>7 DEF HandleEjectPlayer
<1>8. CASE HandleJoin(l)
  BY <1>2, <1>3, <1>6, <1>8 DEF HandleJoin
<1>9. CASE HandleDisconnected(l)
  <2>1. \/ Handled(l) \/ Shutdown(l)
        \/ \E sender, name, flags :
              HandledAndForward(l, UpdateMail(sender, name, FALSE, flags))
    BY <1>9 DEF HandleDisconnected
  <2> QED BY <1>2, <1>3, <1>4, <1>6, <2>1
<1> QED BY <1>3, <1>4, <1>5, <1>7, <1>8, <1>9
        DEF LobbyActorStep, HandleInit, HandleMessage, HandleStartSession,
            HandleReconfigure, HandleUpdate, HandleClose, HandleAsZombie

(***************************************************************************)
(* The order in the mailbox of the actor that handles a message.           *)
(***************************************************************************)
LEMMA OwnMailOrder ==
    ASSUME IInv, OrderInv, NEW l \in Lobbies, LobbyActorStep(l),
           UNCHANGED <<upstream, api>>
    PROVE  MailOrder(l)'
<1>0. PICK q, p : q = mailbox[l] /\ p = mailbox'[l]
  OBVIOUS
<1>1. /\ LobbyTypeOK /\ ServerSound /\ q \in Seq(Mail) /\ q # << >>
      /\ MailOrder(l) /\ mailbox'[l] = p
      /\ Current(l) = q[1]
  <2>1. LobbyTypeOK /\ ServerSound /\ MailOrder(l)
    BY DEF IInv, TypeOK, ServerSound, OrderInv
  <2>2. q \in Seq(Mail) /\ q # << >>
    BY <1>0, <2>1, MailboxStep DEF LobbyTypeOK
  <2> QED BY <1>0, <2>1, <2>2 DEF Current
<1>2. \A i \in DOMAIN q : q[i] \in Mail /\ q[i].sender \in Clients
  BY <1>1, MailFields
<1>3. \A i \in DOMAIN q : DepartsLate(q[i])
  BY <1>0, <1>1 DEF MailOrder
<1>4. 1 \in DOMAIN q
  BY <1>1
<1>5. \A i \in DOMAIN p :
         \/ /\ i + 1 \in DOMAIN q /\ p[i] = q[i + 1]
            /\ i \in Nat /\ i < Len(q)
         \/ /\ i = Len(q)
            /\ \/ p[i].type = "Update"
               \/ /\ p[i].type = "Disconnected"
                  /\ q[1].type = "LeaveRoom"
                  /\ p[i].sender = q[1].sender
  <2>1. \/ p = Tail(q)
        \/ p = << >>
        \/ \E m : /\ p = Append(Tail(q), m)
                  /\ \/ m.type = "Update"
                     \/ /\ m.type = "Disconnected"
                        /\ q[1].type = "LeaveRoom"
                        /\ m.sender = q[1].sender
    BY <1>0, <1>1, MailboxStep
  <2>2. CASE p = Tail(q)
    BY <1>1, <2>2
  <2>3. CASE p = << >>
    BY <2>3
  <2>4. ASSUME NEW m, p = Append(Tail(q), m),
               \/ m.type = "Update"
               \/ /\ m.type = "Disconnected"
                  /\ q[1].type = "LeaveRoom"
                  /\ m.sender = q[1].sender
        PROVE  \A i \in DOMAIN p :
                 \/ /\ i + 1 \in DOMAIN q /\ p[i] = q[i + 1]
                    /\ i \in Nat /\ i < Len(q)
                 \/ i = Len(q) /\ p[i] = m
    <3>1. PICK t : t = Tail(q)
      OBVIOUS
    <3>2. PICK n \in Nat : Len(q) = n + 1
      <4>1. Len(q) \in Nat /\ Len(q) # 0
        BY <1>1
      <4>2. Len(q) - 1 \in Nat /\ Len(q) = (Len(q) - 1) + 1
        BY <4>1
      <4> QED BY <4>2
    <3>3. /\ t \in Seq(Mail) /\ Len(t) = n /\ DOMAIN q = 1..(n + 1)
          /\ \A i \in 1..n : t[i] = q[i + 1]
      BY <1>1, <3>1, <3>2
    <3>4. /\ DOMAIN p = 1..(n + 1)
          /\ \A i \in 1..n : p[i] = t[i]
          /\ p[n + 1] = m
      BY <2>4, <3>1, <3>3
    <3> SUFFICES ASSUME NEW i \in 1..(n + 1)
                 PROVE  \/ /\ i + 1 \in DOMAIN q /\ p[i] = q[i + 1]
                           /\ i \in Nat /\ i < Len(q)
                        \/ i = Len(q) /\ p[i] = m
      BY <3>4
    <3>5. CASE i \in 1..n
      BY <3>2, <3>3, <3>4, <3>5
    <3>6. CASE i = n + 1
      BY <3>2, <3>4, <3>6
    <3> QED BY <3>5, <3>6
  <2> QED BY <2>1, <2>2, <2>3, <2>4
<1>6. \A d : Opening(d)' <=> Opening(d)
  BY DEF Opening
<1>7. ASSUME NEW i \in DOMAIN p, Departs(p[i])
      PROVE  Over(p[i].sender) /\ ~Opening(p[i].sender)
  <2>1. CASE i + 1 \in DOMAIN q /\ p[i] = q[i + 1]
    BY <1>3, <1>7, <2>1 DEF DepartsLate
  <2>2. CASE q[1].type = "LeaveRoom" /\ p[i].sender = q[1].sender
    BY <1>3, <1>4, <2>2 DEF DepartsLate, Departs
  <2> QED BY <1>5, <1>7, <2>1, <2>2 DEF Departs
<1>8. ASSUME NEW i \in DOMAIN p, p[i].type = "Close"
      PROVE  /\ i + 1 \in DOMAIN q /\ p[i] = q[i + 1]
             /\ i \in Nat /\ i < Len(q)
  BY <1>5, <1>8
<1>9. ASSUME NEW i \in DOMAIN p, p[i].type = "Close"
      PROVE  Owns(p[i].sender, l)'
  <2>1. i + 1 \in DOMAIN q /\ p[i] = q[i + 1] /\ i \in Nat
    BY <1>8, <1>9
  <2>2. /\ Owns(q[i + 1].sender, l)
        /\ \A j \in DOMAIN q :
              Departs(q[j]) /\ q[j].sender = q[i + 1].sender => i + 1 < j
    BY <1>0, <1>1, <1>9, <2>1 DEF MailOrder
  <2>3. ~(Gets(l, "Disconnected") /\ Current(l).sender = q[i + 1].sender)
    BY <1>1, <1>4, <2>1, <2>2 DEF Gets, Departs
  <2>4. q[i + 1].sender \in Clients
    BY <1>2, <2>1
  <2> QED BY <1>1, <2>1, <2>2, <2>3, <2>4, OwnsStep
<1>10. ASSUME NEW i \in DOMAIN p, p[i].type = "Close",
              NEW j \in DOMAIN p, Departs(p[j]), p[j].sender = p[i].sender
       PROVE  i < j
  <2>1. i + 1 \in DOMAIN q /\ p[i] = q[i + 1] /\ i \in Nat /\ i < Len(q)
    BY <1>8, <1>10
  <2>2. CASE j + 1 \in DOMAIN q /\ p[j] = q[j + 1] /\ j \in Nat
    <3>1. i + 1 < j + 1
      BY <1>0, <1>1, <1>10, <2>1, <2>2 DEF MailOrder
    <3> QED BY <2>1, <2>2, <3>1
  <2>3. CASE j = Len(q)
    BY <2>1, <2>3
  <2> QED BY <1>5, <2>2, <2>3
<1>11. \A i \in DOMAIN p : DepartsLate(mailbox[l][i])'
  BY <1>1, <1>6, <1>7 DEF DepartsLate, Over
<1> QED BY <1>1, <1>9, <1>10, <1>11 DEF MailOrder

(***************************************************************************)
(* Whatever an actor handles keeps the order.  Only a client that is over  *)
(* may lose its room, and that one closes nothing any more.                *)
(***************************************************************************)
LEMMA LobbyActorOrder ==
    ASSUME IInv, OrderInv, NEW l \in Lobbies, LobbyActorStep(l),
           UNCHANGED <<upstream, api, m_handler>>
    PROVE  OrderInv'
<1>1. /\ LobbyTypeOK /\ ServerSound /\ OthersKept(l)
      /\ mailbox[l] # << >>
      /\ \A k \in Lobbies \ {l} : mailbox'[k] = mailbox[k]
  BY LobbyActorTransition, MailboxStep DEF IInv, TypeOK, ServerSound
<1>2. ASSUME NEW d \in Clients, NEW k \in Lobbies \ {l}
      PROVE  Owns(d, k) => Owns(d, k)'
  BY <1>1 DEF OthersKept, Owns, Running, GetHost, Gets, Current
<1>3. ASSUME NEW d \in Clients PROVE ClientOrder(d)'
  <2>1. ClientOrder(d) /\ api'[d] = api[d] /\ upstream'[d] = upstream[d]
    BY DEF OrderInv
  <2>2. CASE Gets(l, "Disconnected") /\ Current(l).sender = d
    <3>1. 1 \in DOMAIN mailbox[l] /\ Current(l) = mailbox[l][1]
      BY <1>1 DEF Current, LobbyTypeOK
    <3>2. DepartsLate(Current(l))
      BY <3>1 DEF OrderInv, MailOrder
    <3>3. Over(d) /\ ~Opening(d)
      BY <2>2, <3>2 DEF DepartsLate, Departs, Gets
    <3>4. ~Hosting(d)
      BY <2>1, <3>3 DEF ClientOrder, Idle, Hosting, IsHost
    <3>5. ClosesOwn(d)'
      BY <2>1, <3>3, <3>4 DEF ClosesOwn, Hosting, IsHost, Opening, Opens
    <3>6. LeavesLast(d)'
      BY <2>1 DEF ClientOrder, LeavesLast, Over
    <3> QED BY <2>1, <3>5, <3>6 DEF ClientOrder, Idle, Over
  <2>3. CASE ~(Gets(l, "Disconnected") /\ Current(l).sender = d)
    <3>1. Owns(d, l) => Owns(d, l)'
      BY <1>1, <2>3, OwnsStep
    <3>2. m_handler[d] \in Lobbies \cup {Null}
      BY DEF IInv, TypeOK, ClientTypeOK
    <3>3. m_handler'[d] = m_handler[d]
      OBVIOUS
    <3>4. Leads(d) => Leads(d)'
      BY <1>2, <3>1, <3>2, <3>3 DEF Leads
    <3> QED BY <2>1, <3>4, OtherOrder
  <2> QED BY <2>2, <2>3
<1>4. ASSUME NEW k \in Lobbies PROVE MailOrder(k)'
  <2>1. CASE k = l
    BY <2>1, OwnMailOrder
  <2>2. CASE k # l
    <3>1. MailOrder(k) /\ mailbox[k] \in Seq(Mail) /\ mailbox'[k] = mailbox[k]
      BY <1>1, <2>2 DEF OrderInv, LobbyTypeOK
    <3>2. \A i \in DOMAIN mailbox[k] : mailbox[k][i].sender \in Clients
      BY <3>1, MailFields
    <3>3. \A i \in DOMAIN mailbox[k] : DepartsLate(mailbox[k][i])'
      BY <3>1, <3>2 DEF MailOrder, DepartsLate, Over, Opening
    <3>4. \A d \in Clients : Owns(d, k) => Owns(d, k)'
      BY <1>2, <2>2
    <3> QED BY <3>1, <3>2, <3>3, <3>4 DEF MailOrder
  <2> QED BY <2>1, <2>2
<1> QED BY <1>3, <1>4 DEF OrderInv

(***************************************************************************)
(* Every step of the system keeps the order.                               *)
(***************************************************************************)
LEMMA StepOrder ==
    ASSUME WholeRequests, IInv, OrderInv, [Next]_vars
    PROVE  OrderInv'
<1>1. CASE UNCHANGED vars
  <2>1. \A d : Leads(d) => Leads(d)'
    BY <1>1, SameOwner DEF vars
  <2>2. \A d \in Clients : ClientOrder(d)'
    BY <1>1, <2>1, OtherOrder DEF vars, OrderInv
  <2>3. \A k \in Lobbies : MailOrder(k)'
    BY <1>1, NoMailOrder DEF vars, Opening
  <2> QED BY <2>2, <2>3 DEF OrderInv
<1> QED BY <1>1, ApiStepOrder, ClientActorOrder, LobbyActorOrder
        DEF Next, ServerClientStep, ServerLobbyStep

(***************************************************************************)
(* It holds at the start, when there is nothing to be in order.            *)
(***************************************************************************)
LEMMA InitOrder == Init => OrderInv
<1> SUFFICES ASSUME Init PROVE OrderInv
  OBVIOUS
<1>1. ASSUME NEW c \in Clients PROVE ClientOrder(c)
  <2>1. /\ api[c] = NewApi("none") /\ upstream[c] = << >>
    BY DEF Init, ClientInit
  <2>2. Idle(c) /\ ~Hosting(c)
    BY <2>1 DEF NewApi, Idle, Over, Hosting, IsHost
  <2> QED BY <2>1, <2>2 DEF ClientOrder, LeavesLast, ClosesOwn
<1>2. ASSUME NEW l \in Lobbies PROVE MailOrder(l)
  BY DEF Init, LobbyInit, MailOrder
<1> QED BY <1>1, <1>2 DEF OrderInv

(***************************************************************************)
(* A LobbyActor2 that is closed is closed by its host, however late the    *)
(* answers and however many rooms the clients ask for, as long as each     *)
(* chunk the server reads is one request: the checks of Lobby::closeRoom,  *)
(* the order of TCP and mailboxes and the m_handler of Client make up for  *)
(* the check that LobbyActor2 does not do.                                 *)
(***************************************************************************)
THEOREM CloseTheorem == ASSUME WholeRequests PROVE Spec => OnlyHostCloses
<1>1. IInv /\ OrderInv /\ [Next]_vars => OrderInv'
  BY StepOrder
<1>2. ASSUME IInv, OrderInv, NEW l \in Lobbies, ClosesNow(l)
      PROVE  Current(l).sender = GetHost(lobby[l]).actor
  <2>1. /\ Running(l) /\ Current(l).type = "Close" /\ mailbox[l] # << >>
        /\ mailbox[l] \in Seq(Mail)
    BY <1>2 DEF ClosesNow, Gets, IInv, TypeOK, LobbyTypeOK
  <2>2. 1 \in DOMAIN mailbox[l] /\ Current(l) = mailbox[l][1]
    BY <2>1 DEF Current
  <2>3. Owns(Current(l).sender, l)
    BY <1>2, <2>1, <2>2 DEF OrderInv, MailOrder
  <2> QED BY <2>1, <2>3 DEF Owns, Running
<1>3. IInv /\ OrderInv =>
        [\A l \in Lobbies :
            ClosesNow(l) => Current(l).sender = GetHost(lobby[l]).actor]_vars
  BY <1>2
<1> QED BY <1>1, <1>3, InitOrder, InvariantTheorem, PTL
        DEF Spec, OnlyHostCloses

-----------------------------------------------------------------------------
(***************************************************************************)
(* The server implements RoomService.  RoomTransition says how the fields  *)
(* of an actor change; DirectoryExact, before and after a step, that the   *)
(* directory changes with them.                                            *)
(***************************************************************************)
Rooms == [r \in RoomNames |-> RoomOf(r)]

Seen(room) == [limits |-> room.limits, players |-> room.players]

Empty == [limits |-> Null, players |-> << >>]

(***************************************************************************)
(* The actor l is the running room of name r.                              *)
(***************************************************************************)
Holds(l, r) == Running(l) /\ lobby[l].name = r

(***************************************************************************)
(* What a name shows is the room that holds it, or nothing.                *)
(***************************************************************************)
LEMMA RoomOfHeld ==
    ASSUME ServerSound, NEW l \in Lobbies, NEW r \in RoomNames, Holds(l, r)
    PROVE  RoomOf(r) = Seen(lobby[l]) /\ r \in Registered
<1>1. r \in Registered /\ m_lobbies[r].handler = l
  BY DEF ServerSound, DirectoryExact, Holds
<1> QED BY <1>1 DEF RoomOf, Seen, Registered

(***************************************************************************)
(* A name that no running actor holds has no room, and is not in the       *)
(* directory.                                                              *)
(***************************************************************************)
LEMMA RoomOfNone ==
    ASSUME ServerSound, NEW r \in RoomNames,
           \A l \in Lobbies : ~Holds(l, r)
    PROVE  RoomOf(r) = Empty /\ r \notin Registered
<1>1. \A s \in Registered : m_lobbies[s].handler \in Lobbies
  BY DEF ServerSound, LobbyTypeOK, DepotTypeOK, LobbyStats, Registered
<1>2. r \notin Registered
  BY <1>1 DEF ServerSound, DirectoryExact, Holds
<1> QED BY <1>2 DEF RoomOf, Registered, Empty

(***************************************************************************)
(* The same, after a step.                                                 *)
(***************************************************************************)
LEMMA NextRoomOfHeld ==
    ASSUME ServerSound', NEW l \in Lobbies, NEW r \in RoomNames,
           Holds(l, r)'
    PROVE  RoomOf(r)' = Seen(lobby'[l])
<1>1. r \in Registered' /\ m_lobbies'[r].handler = l
  BY DEF ServerSound, DirectoryExact, Holds
<1> QED BY <1>1 DEF RoomOf, Seen, Registered

(***************************************************************************)
(* The same after the step.                                                *)
(***************************************************************************)
LEMMA NextRoomOfNone ==
    ASSUME ServerSound', NEW r \in RoomNames,
           \A l \in Lobbies : ~Holds(l, r)'
    PROVE  RoomOf(r)' = Empty
<1>1. \A s \in Registered' : m_lobbies'[s].handler \in Lobbies
  BY DEF ServerSound, LobbyTypeOK, DepotTypeOK, LobbyStats, Registered
<1>2. r \notin Registered'
  BY <1>1 DEF ServerSound, DirectoryExact, Holds
<1> QED BY <1>2 DEF RoomOf, Registered, Empty

(***************************************************************************)
(* A step of one actor changes no room but its own: names that the actor   *)
(* does not hold, before or after, show what they showed.                  *)
(***************************************************************************)
LEMMA OtherNames ==
    ASSUME ServerSound, ServerSound', NEW l \in Lobbies, OthersKept(l),
           NEW r \in RoomNames, ~Holds(l, r), ~Holds(l, r)'
    PROVE  RoomOf(r)' = RoomOf(r)
<1>1. \A k \in Lobbies : Holds(k, r)' <=> Holds(k, r)
  BY DEF OthersKept, Holds, Running
<1>2. CASE \E k \in Lobbies : Holds(k, r)
  <2>1. PICK k \in Lobbies : Holds(k, r)
    BY <1>2
  <2>2. lobby'[k] = lobby[k]
    BY <2>1 DEF OthersKept
  <2> QED BY <1>1, <2>1, <2>2, RoomOfHeld, NextRoomOfHeld
<1>3. CASE \A k \in Lobbies : ~Holds(k, r)
  BY <1>1, <1>3, RoomOfNone, NextRoomOfNone
<1> QED BY <1>2, <1>3

(***************************************************************************)
(* So the rooms change at one name at most.                                *)
(***************************************************************************)
LEMMA OneName ==
    ASSUME ServerSound, ServerSound', NEW l \in Lobbies, OthersKept(l),
           NEW n \in RoomNames,
           \A r \in RoomNames \ {n} : ~Holds(l, r) /\ ~Holds(l, r)'
    PROVE  Rooms' = [Rooms EXCEPT ![n] = RoomOf(n)']
<1>1. \A r \in RoomNames \ {n} : RoomOf(r)' = RoomOf(r)
  BY OtherNames
<1> QED BY <1>1 DEF Rooms

(***************************************************************************)
(* A step of an actor that holds no name before and after it changes no    *)
(* room.                                                                   *)
(***************************************************************************)
LEMMA NoName ==
    ASSUME ServerSound, ServerSound', NEW l \in Lobbies, OthersKept(l),
           \A r \in RoomNames : ~Holds(l, r) /\ ~Holds(l, r)'
    PROVE  Rooms' = Rooms
<1>1. \A r \in RoomNames : RoomOf(r)' = RoomOf(r)
  BY OtherNames
<1> QED BY <1>1 DEF Rooms

-----------------------------------------------------------------------------
(***************************************************************************)
(* The open rooms of the service are the names in the directory: a room    *)
(* that runs has players.                                                  *)
(***************************************************************************)
LEMMA OpenIsRegistered ==
    ASSUME ServerSound
    PROVE  Service!OpenRooms = Registered
<1>1. ASSUME NEW r \in RoomNames
      PROVE  RoomOf(r).players # << >> <=> r \in Registered
  <2>1. CASE \E l \in Lobbies : Holds(l, r)
    <3>1. PICK l \in Lobbies : Holds(l, r)
      BY <2>1
    <3>2. lobby[l].players # << >>
      BY <3>1 DEF ServerSound, RoomsFilled, Holds
    <3> QED BY <3>1, <3>2, RoomOfHeld DEF Seen
  <2>2. CASE \A l \in Lobbies : ~Holds(l, r)
    BY <2>2, RoomOfNone DEF Empty
  <2> QED BY <2>1, <2>2
<1>2. Service!OpenRooms = {r \in RoomNames : RoomOf(r).players # << >>}
  BY DEF Service!OpenRooms
<1> QED BY <1>1, <1>2 DEF Registered

(***************************************************************************)
(* There are no more names in the directory than actors, however many      *)
(* names there are.                                                        *)
(***************************************************************************)
LEMMA RegisteredFinite ==
    ASSUME ServerSound
    PROVE  IsFiniteSet(Registered) /\ Cardinality(Registered) \in Nat
<1> DEFINE f == [r \in Registered |-> m_lobbies[r].handler]
<1>1. f \in [Registered -> Lobbies]
  BY DEF ServerSound, LobbyTypeOK, DepotTypeOK, LobbyStats, Registered
<1>2. \A r \in Registered : lobby[f[r]].name = r
  BY DEF ServerSound, DirectoryExact
<1>3. f \in Injection(Registered, Lobbies)
  BY <1>1, <1>2 DEF Injection, IsInjective
<1>4. IsFiniteSet(Registered)
  BY <1>3, FS_Injection, BoundsAssumption
<1> QED BY <1>4, FS_CardinalityType

(***************************************************************************)
(* An actor starts to run with a name that is free, and only if there is   *)
(* room for one more: registerLobby has answered SUCC.                     *)
(***************************************************************************)
StartsFresh(l) ==
    ~Running(l) /\ lobby'[l].phase = "running" =>
        /\ lobby'[l].name \in RoomNames \ Registered
        /\ Cardinality(Registered) < LOBBIES_MAX_NUMBER

(***************************************************************************)
(* An actor starts running only with a name that nobody holds and below    *)
(* the limit of rooms.                                                     *)
(***************************************************************************)
LEMMA StartIsFresh ==
    ASSUME ServerSound, NEW l \in Lobbies, LobbyActorStep(l)
    PROVE  StartsFresh(l)
<1> DEFINE m == Current(l)
           room == [phase |-> "running", name |-> m.room,
                    limits |-> m.limits,
                    players |-> <<[actor |-> m.sender, name |-> m.name]>>]
           info == MakeRoomInfo(room)
<1>1. LobbyTypeOK
  BY DEF ServerSound
<1>2. CASE HandleInit(l)
  <2>1. m.room \in RoomNames
    BY <1>1, <1>2, CurrentType, MailFields DEF HandleInit, Gets
  <2>2. info.name = m.room /\ room.name = m.room
    BY DEF MakeRoomInfo
  <2>3. \/ /\ RegisterStatus(info) = "SUCC"
           /\ lobby' = [lobby EXCEPT ![l] = room]
        \/ lobby' = [lobby EXCEPT ![l] = [room EXCEPT !.phase = "zombie"]]
    BY <1>2 DEF HandleInit
  <2>4. [room EXCEPT !.phase = "zombie"].phase # "running"
    OBVIOUS
  <2> HIDE DEF room, info
  <2>5. CASE /\ RegisterStatus(info) = "SUCC"
             /\ lobby' = [lobby EXCEPT ![l] = room]
    <3>1. /\ info.name \notin Registered
          /\ ~(Cardinality(Registered) >= LOBBIES_MAX_NUMBER)
      BY <2>5 DEF RegisterStatus
    <3>2. Cardinality(Registered) < LOBBIES_MAX_NUMBER
      BY <3>1, RegisteredFinite, CapacityAssumption
    <3>3. lobby'[l] = room
      BY <1>1, <2>5, ChangedLobby
    <3> QED BY <2>1, <2>2, <3>1, <3>2, <3>3 DEF StartsFresh
  <2>6. CASE lobby' = [lobby EXCEPT ![l] = [room EXCEPT !.phase = "zombie"]]
    <3>1. lobby'[l] = [room EXCEPT !.phase = "zombie"]
      BY <1>1, <2>6, ChangedLobby
    <3> QED BY <2>4, <3>1 DEF StartsFresh
  <2> QED BY <2>3, <2>5, <2>6
<1>3. CASE HandleAsZombie(l)
  <2>1. CASE Shutdown(l)
    <3>1. lobby'[l] = Stopped
      BY <1>1, <2>1, ChangedLobby DEF Shutdown
    <3> QED BY <3>1 DEF StartsFresh, Stopped, Unborn
  <2>2. CASE UNCHANGED lobby
    BY <2>2 DEF StartsFresh, Running
  <2> QED BY <1>3, <2>1, <2>2 DEF HandleAsZombie
<1>4. CASE Running(l)
  BY <1>4 DEF StartsFresh
<1> QED BY <1>2, <1>3, <1>4
        DEF LobbyActorStep, HandleMessage, HandleStartSession,
            HandleEjectPlayer, HandleReconfigure, HandleLeaveRoom,
            HandleUpdate, HandleJoin, HandleDisconnected, HandleClose

-----------------------------------------------------------------------------
(***************************************************************************)
(* One field of what is shown changes, the other stays.                    *)
(***************************************************************************)
LEMMA SeenWith ==
    ASSUME NEW limits, NEW players
    PROVE  LET seen == [limits |-> limits, players |-> players] IN
           /\ \A new : [seen EXCEPT !.players = new]
                          = [limits |-> limits, players |-> new]
           /\ \A new : [seen EXCEPT !.limits = new]
                          = [limits |-> new, players |-> players]
OBVIOUS

(***************************************************************************)
(* An actor that runs a room, and goes on to, changes what its name shows. *)
(***************************************************************************)
LEMMA GoesOn ==
    ASSUME ServerSound, ServerSound', NEW l \in Lobbies, OthersKept(l),
           Running(l), lobby'[l].phase = "running",
           NEW n, n = lobby[l].name, lobby'[l].name = n
    PROVE  /\ n \in RoomNames
           /\ n \in Service!OpenRooms
           /\ Rooms[n] = Seen(lobby[l])
           /\ Rooms' = [Rooms EXCEPT ![n] = Seen(lobby'[l])]
<1>1. n \in Registered /\ n \in RoomNames
  BY RunningRoom DEF Registered
<1>2. n \in Service!OpenRooms
  BY <1>1, OpenIsRegistered
<1>3. Holds(l, n) /\ Holds(l, n)'
  BY DEF Holds, Running
<1>4. \A r \in RoomNames \ {n} : ~Holds(l, r) /\ ~Holds(l, r)'
  BY DEF Holds
<1>5. Rooms' = [Rooms EXCEPT ![n] = RoomOf(n)']
  BY <1>1, <1>4, OneName
<1>6. RoomOf(n) = Seen(lobby[l]) /\ RoomOf(n)' = Seen(lobby'[l])
  BY <1>1, <1>3, RoomOfHeld, NextRoomOfHeld
<1> QED BY <1>1, <1>2, <1>5, <1>6 DEF Rooms

(***************************************************************************)
(* An actor that stops, or never ran, closes its room or changes nothing.  *)
(***************************************************************************)
LEMMA NotRunningServes ==
    ASSUME ServerSound, ServerSound', NEW l \in Lobbies, OthersKept(l),
           lobby'[l].phase # "running"
    PROVE  [Service!Next]_Rooms
<1>1. \A r \in RoomNames : ~Holds(l, r)'
  BY DEF Holds, Running
<1>2. CASE Running(l)
  <2>0. PICK n : n = lobby[l].name
    OBVIOUS
  <2>1. n \in Registered /\ n \in RoomNames /\ m_lobbies[n].handler = l
    BY <1>2, <2>0, RunningRoom DEF Registered
  <2>2. ASSUME NEW k \in Lobbies, Holds(k, n)' PROVE FALSE
    <3>1. k # l /\ Holds(k, n)
      BY <1>1, <2>1, <2>2 DEF OthersKept, Holds, Running
    <3>2. m_lobbies[n].handler = k
      BY <3>1 DEF ServerSound, DirectoryExact, Holds
    <3> QED BY <2>1, <3>1, <3>2
  <2>3. RoomOf(n)' = Empty
    BY <2>1, <2>2, NextRoomOfNone
  <2>4. \A r \in RoomNames \ {n} : ~Holds(l, r) /\ ~Holds(l, r)'
    BY <1>1, <2>0 DEF Holds
  <2>5. Rooms' = [Rooms EXCEPT ![n] = RoomOf(n)']
    BY <2>1, <2>4, OneName
  <2>6. n \in Service!OpenRooms
    BY <2>1, OpenIsRegistered
  <2>7. Service!Close(n)
    BY <2>3, <2>5, <2>6 DEF Service!Close, Service!NoRoom, Rooms, Empty
  <2> QED BY <2>1, <2>7 DEF Service!Next
<1>3. CASE ~Running(l)
  <2>1. Rooms' = Rooms
    BY <1>1, <1>3, NoName DEF Holds
  <2> QED BY <2>1
<1> QED BY <1>2, <1>3

(***************************************************************************)
(* An actor that starts to run creates the room.                           *)
(***************************************************************************)
LEMMA StartServes ==
    ASSUME ServerSound, ServerSound', NEW l \in Lobbies, OthersKept(l),
           StartsFresh(l), ~Running(l), lobby'[l].phase = "running",
           NEW p \in PlayerInfo, lobby'[l].players = <<p>>,
           lobby'[l].limits \in Limits
    PROVE  Service!Next
<1>0. PICK n : n = lobby'[l].name
  OBVIOUS
<1>1. /\ n \in RoomNames \ Registered
      /\ Cardinality(Registered) < LOBBIES_MAX_NUMBER
  BY <1>0 DEF StartsFresh
<1>2. Holds(l, n)' /\ \A r \in RoomNames : ~Holds(l, r)
  BY <1>0 DEF Holds, Running
<1>3. \A r \in RoomNames \ {n} : ~Holds(l, r) /\ ~Holds(l, r)'
  BY <1>0, <1>2 DEF Holds
<1>4. RoomOf(n)' = Seen(lobby'[l])
  BY <1>1, <1>2, NextRoomOfHeld
<1>5. Rooms' = [Rooms EXCEPT ![n] = [limits |-> lobby'[l].limits,
                                     players |-> <<p>>]]
  BY <1>1, <1>3, <1>4, OneName DEF Seen
<1>6. p \in Service!Players
  BY DEF Service!Players, PlayerInfo
<1>7. n \notin Service!OpenRooms
  BY <1>1, OpenIsRegistered
<1>8. Service!Cardinality(Service!OpenRooms) < LOBBIES_MAX_NUMBER
  <2>1. Service!Cardinality(Registered) = Cardinality(Registered)
    BY DEF Service!Cardinality, Cardinality
  <2> QED BY <1>1, <2>1, OpenIsRegistered
<1>9. Service!Create(n)
  BY <1>5, <1>6, <1>7, <1>8, Zenon DEF Service!Create, Rooms
<1> QED BY <1>1, <1>9 DEF Service!Next

(***************************************************************************)
(* A player who goes departs, a player who comes enters, and limits that   *)
(* are changed change.                                                     *)
(***************************************************************************)
LEMMA DepartServes ==
    ASSUME ServerSound, ServerSound', NEW l \in Lobbies, OthersKept(l),
           Running(l), Len(lobby[l].players) > 1,
           NEW i \in 1..Len(lobby[l].players),
           lobby'[l] = WithoutPlayer(lobby[l], i)
    PROVE  Service!Next
<1> DEFINE s == lobby[l].players
<1>0. PICK n : n = lobby[l].name
  OBVIOUS
<1>1. lobby[l] \in LobbyState /\ s \in Seq(PlayerInfo)
  BY RunningRoom
<1>2. lobby'[l].phase = "running" /\ lobby'[l].name = n
  BY <1>0, <1>1, WithoutPlayerType DEF Running
<1>3. /\ n \in RoomNames
      /\ Rooms[n] = Seen(lobby[l])
      /\ Rooms' = [Rooms EXCEPT ![n] = Seen(lobby'[l])]
  BY <1>0, <1>2, GoesOn
<1>4. /\ lobby'[l].players = Service!Without(s, i)
      /\ lobby'[l].limits = lobby[l].limits
  BY <1>1 DEF WithoutPlayer, RemoveAt, Service!Without, LobbyState
<1>5. i \in DOMAIN s
  BY <1>1
<1>6. /\ Rooms[n].players = s
      /\ Rooms' = [Rooms EXCEPT ![n].players = Service!Without(@, i)]
  <2>1. Rooms[n].players = s
    BY <1>3 DEF Seen
  <2>2. Seen(lobby'[l]) =
            [Rooms[n] EXCEPT !.players = Service!Without(s, i)]
    BY <1>3, <1>4, SeenWith DEF Seen
  <2> QED BY <1>3, <2>1, <2>2, Zenon
<1>7. Service!Depart(n)
  BY <1>3, <1>5, <1>6 DEF Service!Depart, Rooms
<1> QED BY <1>3, <1>7 DEF Service!Next

(***************************************************************************)
(* A player who is added to a running room enters it.                      *)
(***************************************************************************)
LEMMA EnterServes ==
    ASSUME ServerSound, ServerSound', NEW l \in Lobbies, OthersKept(l),
           Running(l), HasPlace(lobby[l]),
           NEW p \in PlayerInfo, p.name \notin NamesOf(lobby[l]),
           lobby'[l] = WithPlayer(lobby[l], p)
    PROVE  Service!Next
<1> DEFINE s == lobby[l].players
<1>0. PICK n : n = lobby[l].name
  OBVIOUS
<1>1. lobby[l] \in LobbyState
  BY RunningRoom
<1>2. /\ lobby'[l].phase = "running" /\ lobby'[l].name = n
      /\ lobby'[l].players = Append(s, p)
      /\ lobby'[l].limits = lobby[l].limits
  BY <1>0, <1>1 DEF Running, WithPlayer, LobbyState
<1>3. /\ n \in RoomNames
      /\ n \in Service!OpenRooms
      /\ Rooms[n] = Seen(lobby[l])
      /\ Rooms' = [Rooms EXCEPT ![n] = Seen(lobby'[l])]
  BY <1>0, <1>2, GoesOn
<1>4. /\ Len(s) < Service!Places(lobby[l].limits)
      /\ p.name \notin Service!NamesIn(Seen(lobby[l]))
      /\ p \in Service!Players
  BY DEF HasPlace, Capacity, Service!Places, NamesOf, Service!NamesIn, Seen,
         Service!Players, PlayerInfo
<1>5. /\ Rooms[n].players = s /\ Rooms[n].limits = lobby[l].limits
      /\ Rooms' = [Rooms EXCEPT ![n].players = Append(@, p)]
  <2>1. Rooms[n].players = s /\ Rooms[n].limits = lobby[l].limits
    BY <1>3 DEF Seen
  <2>2. Seen(lobby'[l]) = [Rooms[n] EXCEPT !.players = Append(s, p)]
    <3>1. PICK longer : longer = Append(s, p)
      OBVIOUS
    <3>2. Seen(lobby'[l]) = [limits |-> lobby[l].limits, players |-> longer]
      BY <1>2, <3>1 DEF Seen
    <3>3. [Rooms[n] EXCEPT !.players = longer] =
            [limits |-> lobby[l].limits, players |-> longer]
      BY <1>3, SeenWith DEF Seen
    <3> QED BY <3>1, <3>2, <3>3, Zenon
  <2> QED BY <1>3, <2>1, <2>2, Zenon
<1>6. Service!Enter(n)
  BY <1>3, <1>4, <1>5 DEF Service!Enter, Rooms
<1> QED BY <1>3, <1>6 DEF Service!Next

(***************************************************************************)
(* New limits that the players of the room fit into change it.             *)
(***************************************************************************)
LEMMA ChangeServes ==
    ASSUME ServerSound, ServerSound', NEW l \in Lobbies, OthersKept(l),
           Running(l), NEW limits \in Limits,
           Len(lobby[l].players) <= Capacity(limits),
           lobby'[l] = [lobby[l] EXCEPT !.limits = limits]
    PROVE  Service!Next
<1> DEFINE s == lobby[l].players
<1>0. PICK n : n = lobby[l].name
  OBVIOUS
<1>1. lobby[l] \in LobbyState
  BY RunningRoom
<1>2. /\ lobby'[l].phase = "running" /\ lobby'[l].name = n
      /\ lobby'[l].players = s
      /\ lobby'[l].limits = limits
  BY <1>0, <1>1 DEF Running, LobbyState
<1>3. /\ n \in RoomNames
      /\ n \in Service!OpenRooms
      /\ Rooms[n] = Seen(lobby[l])
      /\ Rooms' = [Rooms EXCEPT ![n] = Seen(lobby'[l])]
  BY <1>0, <1>2, GoesOn
<1>4. Len(s) <= Service!Places(limits)
  BY DEF Capacity, Service!Places
<1>5. /\ Rooms[n].players = s
      /\ Rooms' = [Rooms EXCEPT ![n].limits = limits]
  <2>1. Rooms[n].players = s
    BY <1>3 DEF Seen
  <2>2. Seen(lobby'[l]) = [Rooms[n] EXCEPT !.limits = limits]
    BY <1>2, <1>3, SeenWith DEF Seen
  <2> QED BY <1>3, <2>1, <2>2, Zenon
<1>6. Service!Change(n)
  BY <1>3, <1>4, <1>5 DEF Service!Change, Rooms
<1> QED BY <1>3, <1>6 DEF Service!Next

(***************************************************************************)
(* An actor that keeps its fields changes nothing.                         *)
(***************************************************************************)
LEMMA SameServes ==
    ASSUME ServerSound, ServerSound', NEW l \in Lobbies, OthersKept(l),
           lobby'[l] = lobby[l]
    PROVE  Rooms' = Rooms
<1>1. \A k \in Lobbies, r \in RoomNames : Holds(k, r)' <=> Holds(k, r)
  BY DEF OthersKept, Holds, Running
<1>2. ASSUME NEW r \in RoomNames PROVE RoomOf(r)' = RoomOf(r)
  <2>1. CASE \E k \in Lobbies : Holds(k, r)
    <3>1. PICK k \in Lobbies : Holds(k, r)
      BY <2>1
    <3>2. lobby'[k] = lobby[k]
      BY DEF OthersKept
    <3> QED BY <1>1, <3>1, <3>2, RoomOfHeld, NextRoomOfHeld
  <2>2. CASE \A k \in Lobbies : ~Holds(k, r)
    BY <1>1, <2>2, RoomOfNone, NextRoomOfNone
  <2> QED BY <2>1, <2>2
<1> QED BY <1>2 DEF Rooms

-----------------------------------------------------------------------------
(***************************************************************************)
(* Every way in which a room changes is a step of the service, or none.    *)
(***************************************************************************)
LEMMA TransitionServes ==
    ASSUME ServerSound, ServerSound', NEW l \in Lobbies,
           RoomTransition(l), OthersKept(l), StartsFresh(l)
    PROVE  [Service!Next]_Rooms
<1>1. CASE lobby'[l] = lobby[l]
  BY <1>1, SameServes
<1>2. CASE lobby'[l].phase # "running"
  BY <1>2, NotRunningServes
<1>3. CASE /\ lobby'[l].phase = "running"
           /\ ~Running(l)
           /\ \E p \in PlayerInfo : lobby'[l].players = <<p>>
           /\ lobby'[l].limits \in Limits
  BY <1>3, StartServes
<1>4. CASE /\ Running(l)
           /\ Len(lobby[l].players) > 1
           /\ \E i \in 1..Len(lobby[l].players) :
                lobby'[l] = WithoutPlayer(lobby[l], i)
  BY <1>4, DepartServes
<1>5. CASE /\ Running(l)
           /\ HasPlace(lobby[l])
           /\ \E p \in PlayerInfo : /\ p.name \notin NamesOf(lobby[l])
                                    /\ lobby'[l] = WithPlayer(lobby[l], p)
  BY <1>5, EnterServes
<1>6. CASE /\ Running(l)
           /\ \E limits \in Limits :
                /\ Len(lobby[l].players) <= Capacity(limits)
                /\ lobby'[l] = [lobby[l] EXCEPT !.limits = limits]
  BY <1>6, ChangeServes
<1> QED BY <1>1, <1>2, <1>3, <1>4, <1>5, <1>6 DEF RoomTransition

(***************************************************************************)
(* What clients do, and what their Client actors do, shows in no room.     *)
(***************************************************************************)
LEMMA ApiKeepsRooms ==
    ASSUME NEW c \in Clients, ApiStep(c)
    PROVE  Rooms' = Rooms
<1>1. UNCHANGED <<m_lobbies, lobby>>
  BY Zenon
     DEF ApiStep, CreateRoom, JoinRoom, Answered, TimedOut,
         Reconfigure, Eject, CloseRoom, StartSession, Say, LeaveRoom,
         Receive, Destroy, ConnectionLost, Gone, UnchangedButUpstream
<1> QED BY <1>1, Zenon DEF Rooms, RoomOf

(***************************************************************************)
(* Connection actors change no room.                                       *)
(***************************************************************************)
LEMMA ClientActorServes ==
    ASSUME ServerSound, ServerSound', NEW c \in Clients, ClientActorStep(c)
    PROVE  [Service!Next]_Rooms
<1>1. CASE TakeCreateRoom(c)
  <2> DEFINE k == CHOOSE k \in Lobbies : lobby[k].phase = "unborn"
  <2>1. k \in Lobbies /\ lobby' = [lobby EXCEPT ![k].phase = "initial"]
    BY <1>1 DEF TakeCreateRoom
  <2>2. PICK l \in Lobbies : lobby' = [lobby EXCEPT ![l].phase = "initial"]
    BY <2>1
  <2>3. OthersKept(l) /\ lobby'[l].phase # "running"
    BY <2>2 DEF ServerSound, LobbyTypeOK, LobbyState, OthersKept
  <2> QED BY <2>3, NotRunningServes
<1>2. CASE UNCHANGED <<m_lobbies, lobby>>
  BY <1>2 DEF Rooms, RoomOf
<1> QED BY <1>1, <1>2 DEF ClientActorStep, TakeJoinRoom, TakeEnvelop,
                          TakeCloseRoom, TakePeerClosed, TakeTwo, TakeHalf,
                          TakeRest

(***************************************************************************)
(* Every step of the system is one step of the service, or none.           *)
(***************************************************************************)
LEMMA StepServes ==
    ASSUME IInv, IInv', [Next]_vars
    PROVE  [Service!Next]_Rooms
<1>1. ServerSound /\ ServerSound'
  BY DEF IInv, TypeOK, ServerSound
<1>2. ASSUME NEW c \in Clients, ApiStep(c) PROVE [Service!Next]_Rooms
  BY <1>2, ApiKeepsRooms
<1>3. ASSUME NEW c \in Clients, ServerClientStep(c)
      PROVE  [Service!Next]_Rooms
  BY <1>1, <1>3, ClientActorServes DEF ServerClientStep
<1>4. ASSUME NEW l \in Lobbies, ServerLobbyStep(l)
      PROVE  [Service!Next]_Rooms
  BY <1>1, <1>4, LobbyActorTransition, StartIsFresh, TransitionServes
     DEF ServerLobbyStep
<1>5. CASE UNCHANGED vars
  BY <1>5 DEF vars, Rooms, RoomOf
<1> QED BY <1>2, <1>3, <1>4, <1>5 DEF Next

(***************************************************************************)
(* The actors, the directory and the clients implement RoomService: each   *)
(* step of the server creates, changes or closes one room as the service   *)
(* allows, or shows in none.  This covers every handler of LobbyActor2     *)
(* with the calls it makes to Depot.                                       *)
(***************************************************************************)
THEOREM ServiceTheorem == Spec => ImplementsRoomService
<1>1. Init => Service!Init
  <2>1. ASSUME Init PROVE Rooms = [r \in RoomNames |-> Empty]
    BY <2>1 DEF Init, LobbyInit, DepotInit, Rooms, RoomOf, Empty
  <2> QED BY <2>1 DEF Service!Init, Service!NoRoom, Rooms, Empty
<1>2. IInv /\ IInv' /\ [Next]_vars => [Service!Next]_Rooms
  BY StepServes
<1> QED BY <1>1, <1>2, InvariantTheorem, PTL
        DEF Spec, ImplementsRoomService, Service!Spec, Rooms

=============================================================================
