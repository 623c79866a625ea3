-------------------------- MODULE MCSessionSystem --------------------------
(***************************************************************************)
(* Instances of SessionSystem for TLC.                                     *)
(***************************************************************************)
EXTENDS SessionSystem

CONSTANTS s1, s2, s3, p1, p2, p3

OneSession == {s1}
TwoSessions == {s1, s2}
ThreeSessions == {s1, s2, s3}
OnePlayer == {p1}
TwoPlayers == {p1, p2}
ThreePlayers == {p1, p2, p3}

AllCalls == {"broadcast", "say", "sync", "reliableSync", "keepAlive"}

Interchangeable == Permutations(SessionActors)

=============================================================================
