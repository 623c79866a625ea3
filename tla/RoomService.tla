---------------------------- MODULE RoomService ----------------------------
(***************************************************************************)
(* What the lobby server promises, without actors, mailboxes, sockets and  *)
(* a directory: rooms that are created, entered, left, changed and closed, *)
(* each in one step.  A room is the list of its players, the first being   *)
(* its host, and its limits; without players there is no room.             *)
(***************************************************************************)
EXTENDS Naturals, Sequences, FiniteSets

CONSTANTS
    RoomNames, Names, Clients,
    Limits,       \* <<playersLimit, playersReserved>> pairs in use
    MaxRooms,     \* rooms at a time
    Null          \* the limits of no room

VARIABLE rooms

NoRoom == [limits |-> Null, players |-> << >>]

OpenRooms == {r \in RoomNames : rooms[r].players # << >>}

Places(limits) == limits[1] - limits[2]

NamesIn(room) == {room.players[i].name : i \in DOMAIN room.players}

Players == [actor : Clients, name : Names]

Init == rooms = [r \in RoomNames |-> NoRoom]

-----------------------------------------------------------------------------
Create(r) ==
    /\ r \notin OpenRooms
    /\ Cardinality(OpenRooms) < MaxRooms
    /\ \E p \in Players, limits \in Limits :
        rooms' = [rooms EXCEPT ![r] = [limits |-> limits, players |-> <<p>>]]

(***************************************************************************)
(* A player comes as the last one, if there is a place and nobody of that  *)
(* name.                                                                   *)
(***************************************************************************)
Enter(r) ==
    /\ r \in OpenRooms
    /\ Len(rooms[r].players) < Places(rooms[r].limits)
    /\ \E p \in Players :
        /\ p.name \notin NamesIn(rooms[r])
        /\ rooms' = [rooms EXCEPT ![r].players = Append(@, p)]

(***************************************************************************)
(* A player goes, of his own or by ejection; the others keep their order.  *)
(***************************************************************************)
Without(players, i) ==
    SubSeq(players, 1, i - 1) \o SubSeq(players, i + 1, Len(players))

Depart(r) ==
    /\ Len(rooms[r].players) > 1
    /\ \E i \in DOMAIN rooms[r].players :
        rooms' = [rooms EXCEPT ![r].players = Without(@, i)]

(***************************************************************************)
(* The limits change to ones that leave a place for everybody.             *)
(***************************************************************************)
Change(r) ==
    /\ r \in OpenRooms
    /\ \E limits \in Limits :
        /\ Len(rooms[r].players) <= Places(limits)
        /\ rooms' = [rooms EXCEPT ![r].limits = limits]

(***************************************************************************)
(* The host closes the room, or the last player goes.                      *)
(***************************************************************************)
Close(r) ==
    /\ r \in OpenRooms
    /\ rooms' = [rooms EXCEPT ![r] = NoRoom]

Next ==
    \E r \in RoomNames :
        Create(r) \/ Enter(r) \/ Depart(r) \/ Change(r) \/ Close(r)

Spec == Init /\ [][Next]_rooms
=============================================================================
