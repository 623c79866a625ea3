--------------------------- MODULE MCLobbySystem ---------------------------
(***************************************************************************)
(* Instances of LobbySystem for TLC.                                       *)
(***************************************************************************)
EXTENDS LobbySystem

CONSTANTS c1, c2, n1, n2, r1, r2

TwoClients == {c1, c2}
TwoNames == {n1, n2}
OneRoom == {r1}
TwoRooms == {r1, r2}

(***************************************************************************)
(* The limits a room may be given: two places, of which one may be         *)
(* reserved.                                                               *)
(***************************************************************************)
TwoPlaces == {<<2, 0>>}
OneOrTwoPlaces == {<<2, 0>>, <<2, 1>>}

AllCalls == {"createRoom", "joinRoom", "reconfigure", "eject", "closeRoom",
             "startSession", "say", "leaveRoom"}

Symmetric == Permutations(Clients) \cup Permutations(Names)

=============================================================================
