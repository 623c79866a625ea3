---------------------------- MODULE ClientActor ----------------------------
(***************************************************************************)
(* Client of Client.scala: the actor the front end registers for a TCP     *)
(* connection.  It takes the messages of the connection in order and       *)
(* forwards them to lobby actors, which see the connection as the sender.  *)
(* It parses each chunk of bytes that comes as one message, although TCP   *)
(* may put two requests into a chunk or cut one in two.                    *)
(***************************************************************************)
EXTENDS LobbyActor

CONSTANT WholeRequests   \* every chunk is exactly one request

ASSUME ChunksAssumption == WholeRequests \in BOOLEAN

VARIABLES
    upstream,   \* upstream[c]: what came on connection c, not yet handled
    m_handler   \* m_handler[c]: the lobby actor connection c belongs to

serverVars == <<m_lobbies, lobby, mailbox, online, downstream, upstream,
                m_handler>>

-----------------------------------------------------------------------------
(***************************************************************************)
(* An Envelop carries the lobby message with its sender, since the actor   *)
(* forwards it for the connection it came from.  PeerClosed stands for     *)
(* ErrorClosed too.  A Rest is the second half of a request.               *)
(***************************************************************************)
Requests ==
    [type : {"CreateRoom"}, name : Names, room : RoomNames, limits : Limits]
    \cup [type : {"JoinRoom"}, name : Names, room : RoomNames]
    \cup [type : {"Envelop"}, room : RoomNames, mail : Mail]
    \cup [type : {"CloseRoom", "PeerClosed", "Rest"}]

ClientTypeOK ==
    /\ upstream \in [Clients -> Seq(Requests)]
    /\ m_handler \in [Clients -> Lobbies \cup {Null}]

ClientInit ==
    /\ upstream = [c \in Clients |-> << >>]
    /\ m_handler = [c \in Clients |-> Null]

-----------------------------------------------------------------------------
Request(c) == Head(upstream[c])

Requested(c, type) == upstream[c] # << >> /\ Request(c).type = type

Taken(c) == upstream' = [upstream EXCEPT ![c] = Tail(@)]

(***************************************************************************)
(* The keys of the directory that handlers, which run on other threads,    *)
(* may be adding or removing just now.                                     *)
(***************************************************************************)
Adding == {Current(l).room : l \in {k \in Lobbies : Gets(k, "Init")}}

Removing ==
    {lobby[l].name : l \in {k \in Lobbies :
        /\ Running(k)
        /\ \/ Gets(k, "Close")
           \/ /\ Gets(k, "Disconnected")
              /\ Len(lobby[k].players) = 1}}

Lookup(room) == LookupResults(room, Adding \cup Removing, Removing)

-----------------------------------------------------------------------------
(***************************************************************************)
(* A new actor is created whether or not the room will exist, and the      *)
(* handler of a previous room is forgotten.                                *)
(***************************************************************************)
TakeCreateRoom(c) ==
    LET r == Request(c)
        l == CHOOSE k \in Lobbies : lobby[k].phase = "unborn"
    IN
    /\ Requested(c, "CreateRoom")
    /\ \E k \in Lobbies : lobby[k].phase = "unborn"
    /\ lobby' = [lobby EXCEPT ![l].phase = "initial"]
    /\ m_handler' = [m_handler EXCEPT ![c] = l]
    /\ mailbox' = [mailbox EXCEPT ![l] =
                      <<[type |-> "Init", sender |-> c, name |-> r.name,
                         room |-> r.room, limits |-> r.limits]>>]
    /\ Taken(c)
    /\ UNCHANGED <<m_lobbies, online, downstream>>

(***************************************************************************)
(* Mutant: the handler of a previous room is kept.                         *)
(***************************************************************************)
TakeJoinRoomStale(c) ==
    /\ Requested(c, "JoinRoom")
    /\ \E found \in Lookup(Request(c).room) :
        \/ /\ found # Null
           /\ m_handler' = [m_handler EXCEPT ![c] =
                               IF @ = Null THEN found.handler ELSE @]
           /\ Enqueue(found.handler, [type |-> "Join", sender |-> c,
                                      name |-> Request(c).name])
           /\ UNCHANGED downstream
        \/ /\ found = Null
           /\ Reply(c, [type |-> "SUCK"])
           /\ UNCHANGED <<m_handler, mailbox>>
    /\ Taken(c)
    /\ UNCHANGED <<m_lobbies, lobby, online>>

(***************************************************************************)
(* The handler is set before the lobby has accepted the player.            *)
(***************************************************************************)
TakeJoinRoom(c) ==
    /\ Requested(c, "JoinRoom")
    /\ \E found \in Lookup(Request(c).room) :
        \/ /\ found # Null
           /\ m_handler' = [m_handler EXCEPT ![c] = found.handler]
           /\ Enqueue(found.handler, [type |-> "Join", sender |-> c,
                                      name |-> Request(c).name])
           /\ UNCHANGED downstream
        \/ /\ found = Null
           /\ Reply(c, [type |-> "SUCK"])
           /\ UNCHANGED <<m_handler, mailbox>>
    /\ Taken(c)
    /\ UNCHANGED <<m_lobbies, lobby, online>>

(***************************************************************************)
(* The lobby is found by the name on the envelop, not through m_handler.   *)
(***************************************************************************)
TakeEnvelop(c) ==
    /\ Requested(c, "Envelop")
    /\ \E found \in Lookup(Request(c).room) :
        \/ /\ found # Null
           /\ Enqueue(found.handler, Request(c).mail)
        \/ /\ found = Null
           /\ UNCHANGED mailbox
    /\ Taken(c)
    /\ UNCHANGED <<m_lobbies, lobby, online, downstream, m_handler>>

(***************************************************************************)
(* Whoever the host is: Close goes to the lobby this client came to last.  *)
(***************************************************************************)
TakeCloseRoom(c) ==
    /\ Requested(c, "CloseRoom")
    /\ \/ /\ m_handler[c] # Null
          /\ Enqueue(m_handler[c], [type |-> "Close", sender |-> c])
          /\ m_handler' = [m_handler EXCEPT ![c] = Null]
       \/ /\ m_handler[c] = Null
          /\ UNCHANGED <<mailbox, m_handler>>
    /\ Taken(c)
    /\ UNCHANGED <<m_lobbies, lobby, online, downstream>>

(***************************************************************************)
(* Mutant: the actor stops without telling its lobby.                      *)
(***************************************************************************)
TakePeerClosedSilently(c) ==
    /\ Requested(c, "PeerClosed")
    /\ m_handler' = [m_handler EXCEPT ![c] = Null]
    /\ upstream' = [upstream EXCEPT ![c] = << >>]
    /\ UNCHANGED <<m_lobbies, lobby, mailbox, online, downstream>>

(***************************************************************************)
(* shutdown: the actor tells its lobby, and stops.                         *)
(***************************************************************************)
TakePeerClosed(c) ==
    /\ Requested(c, "PeerClosed")
    /\ \/ /\ m_handler[c] # Null
          /\ Enqueue(m_handler[c], [type |-> "Disconnected", sender |-> c])
       \/ /\ m_handler[c] = Null
          /\ UNCHANGED mailbox
    /\ m_handler' = [m_handler EXCEPT ![c] = Null]
    /\ upstream' = [upstream EXCEPT ![c] = << >>]
    /\ UNCHANGED <<m_lobbies, lobby, online, downstream>>

-----------------------------------------------------------------------------
(***************************************************************************)
(* Two requests, or a Rest and a request, in one chunk: the parser, which  *)
(* is external, makes one message of them, and the other is lost.  Then    *)
(* the one that is left is taken as if it had come alone.                  *)
(***************************************************************************)
TakeTwo(c) ==
    /\ Len(upstream[c]) > 1
    /\ \A i \in 1..2 : upstream[c][i].type # "PeerClosed"
    /\ \E i \in 1..2 : upstream' = [upstream EXCEPT ![c] = RemoveAt(@, i)]
    /\ UNCHANGED <<m_lobbies, lobby, mailbox, online, downstream, m_handler>>

(***************************************************************************)
(* A request in two chunks: neither can be parsed, and each of them is     *)
(* answered.                                                               *)
(***************************************************************************)
TakeHalf(c) ==
    /\ upstream[c] # << >>
    /\ Request(c).type \notin {"PeerClosed", "Rest"}
    /\ Reply(c, [type |-> "SUCK"])
    /\ upstream' = [upstream EXCEPT ![c] = <<[type |-> "Rest"]>> \o Tail(@)]
    /\ UNCHANGED <<m_lobbies, lobby, mailbox, online, m_handler>>

TakeRest(c) ==
    /\ Requested(c, "Rest")
    /\ Reply(c, [type |-> "SUCK"])
    /\ Taken(c)
    /\ UNCHANGED <<m_lobbies, lobby, mailbox, online, m_handler>>

ClientActorStep(c) ==
    \/ TakeCreateRoom(c)
    \/ TakeJoinRoom(c)
    \/ TakeEnvelop(c)
    \/ TakeCloseRoom(c)
    \/ TakePeerClosed(c)
    \/ ~WholeRequests /\ TakeTwo(c)
    \/ ~WholeRequests /\ TakeHalf(c)
    \/ ~WholeRequests /\ TakeRest(c)

=============================================================================
