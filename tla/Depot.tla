------------------------------- MODULE Depot -------------------------------
(***************************************************************************)
(* The directory of rooms that all actors of the server share: the object  *)
(* Depot of Depot.scala and the room descriptor of RoomInfo.scala.         *)
(*                                                                         *)
(* Every update of the directory runs under m_lock, so it is one step.     *)
(* Reads go through getLobbies, which hands out the TreeMap itself: they   *)
(* take no lock.  LookupResults says what such a read may return.          *)
(***************************************************************************)
EXTENDS Naturals, Sequences, FiniteSets

CONSTANTS
    RoomNames,           \* names a room may be given
    Names,               \* names a player may take
    Lobbies,             \* identities of LobbyActor2 actors
    Limits,              \* <<playersLimit, playersReserved>> pairs in use
    LOBBIES_MAX_NUMBER,  \* Depot.LOBBIES_MAX_NUMBER (256 in the code)
    Null                 \* null of the code

(***************************************************************************)
(* Lobby::createRoom and Lobby::reconfigure refuse any other pair.         *)
(***************************************************************************)
ASSUME LimitsAssumption ==
    Limits \subseteq {p \in Nat \X Nat : p[1] >= 1 /\ p[2] < p[1]}

ASSUME CapacityAssumption == LOBBIES_MAX_NUMBER \in Nat

VARIABLE m_lobbies  \* room name -> LobbyStats(handler, info), or Null

-----------------------------------------------------------------------------
(***************************************************************************)
(* RoomInfo: description and userParam are carried around untouched and    *)
(* left out; playersNumber is Len(players) wherever the code builds one.   *)
(***************************************************************************)
RoomInfos == [name : RoomNames, host : Names, limits : Limits,
              players : Seq(Names)]

Capacity(limits) == limits[1] - limits[2]

LobbyStats == [handler : Lobbies, info : RoomInfos]

ASSUME NullAssumption ==
    /\ Null \notin RoomNames
    /\ Null \notin Names
    /\ Null \notin Lobbies
    /\ Null \notin Limits
    /\ Null \notin RoomInfos
    /\ Null \notin LobbyStats

Registered == {r \in RoomNames : m_lobbies[r] # Null}

DepotTypeOK == m_lobbies \in [RoomNames -> LobbyStats \cup {Null}]

DepotInit == m_lobbies = [r \in RoomNames |-> Null]

-----------------------------------------------------------------------------
(***************************************************************************)
(* Mutants: put without looking for a room of that name, or for a place.   *)
(***************************************************************************)
RegisterStatusUnchecked(info) ==
    IF Cardinality(Registered) >= LOBBIES_MAX_NUMBER THEN "SUCK" ELSE "SUCC"

RegisterStatusUnlimited(info) ==
    IF info.name \in Registered THEN "ROOM_EXISTS" ELSE "SUCC"

RegisterStatus(info) ==
    IF info.name \in Registered THEN "ROOM_EXISTS"
    ELSE IF Cardinality(Registered) >= LOBBIES_MAX_NUMBER THEN "SUCK"
    ELSE "SUCC"

RegisterLobby(handler, info) ==
    m_lobbies' = IF RegisterStatus(info) = "SUCC"
                 THEN [m_lobbies EXCEPT ![info.name] =
                           [handler |-> handler, info |-> info]]
                 ELSE m_lobbies

(***************************************************************************)
(* The entry is removed by name, whoever's it is.                          *)
(***************************************************************************)
UnregisterLobby(room) == m_lobbies' = [m_lobbies EXCEPT ![room] = Null]

(***************************************************************************)
(* Mutant: the new info is not put back.                                   *)
(***************************************************************************)
UpdateRoomInfoLost(room, info) == m_lobbies' = m_lobbies

(***************************************************************************)
(* An entry that is gone is not brought back; the handler is kept.         *)
(***************************************************************************)
UpdateRoomInfo(room, info) ==
    m_lobbies' = IF m_lobbies[room] # Null
                 THEN [m_lobbies EXCEPT ![room].info = info]
                 ELSE m_lobbies

(***************************************************************************)
(* getLobbies.get(room) without the lock.  While other threads add or      *)
(* remove the keys changing, the unsynchronized search of the tree may     *)
(* miss a key that is there.  The search may also have found the node of   *)
(* a room of removing when TreeMap.deleteEntry, removing a node with two   *)
(* children, copies the entry of another room into that node.              *)
(***************************************************************************)
LookupResults(room, changing, removing) ==
    {m_lobbies[room]}
    \cup (IF changing # {} THEN {Null} ELSE {})
    \cup (IF room \in removing /\ Cardinality(Registered) >= 3
          THEN {m_lobbies[r] : r \in Registered} ELSE {})

=============================================================================
