------------------------------ MODULE Backend ------------------------------
(***************************************************************************)
(* Backend of Backend.scala: the actor that owns the UDP socket and the    *)
(* table of sessions.  It makes session actors for the lobbies, frees      *)
(* their slots when they close, and routes datagrams by session id.        *)
(*                                                                         *)
(* A datagram is routed and handled in one step: the time it waits in the  *)
(* mailboxes counts as time on the network, which keeps no order.          *)
(***************************************************************************)
EXTENDS SessionActor

VARIABLES
    m_sessions,      \* session id -> SessionActor, or Null
    m_freeSessions   \* the stack of free ids, its top first

backendVars == <<session, actor, task, due, requests, uplink, downlink,
                 m_sessions, m_freeSessions>>

-----------------------------------------------------------------------------
BackendTypeOK ==
    /\ m_sessions \in [Ids -> SessionActors \cup {Null}]
    /\ m_freeSessions \in Seq(Ids)

BackendInit ==
    /\ m_sessions = [id \in Ids |-> Null]
    /\ m_freeSessions = [i \in 1..MAX_SESSIONS_NUMBER |-> i - 1]

Gets(type) == requests # << >> /\ Head(requests).type = type

(***************************************************************************)
(* The new session gets the id that was freed last.  Without a free id the *)
(* lobby is answered -1.                                                   *)
(***************************************************************************)
TakeCreateSession ==
    LET id == Head(m_freeSessions) IN
    /\ Gets("CreateSession")
    /\ \/ /\ m_freeSessions # << >>
          /\ m_freeSessions' = Tail(m_freeSessions)
          /\ \E s \in SessionActors :
                /\ session[s].m_state = "unborn"
                /\ m_sessions' = [m_sessions EXCEPT ![id] = s]
                /\ session' = [session EXCEPT ![s] =
                       [Unborn EXCEPT !.m_state = "Waiting", !.m_id = id,
                                      !.players = Head(requests).players]]
       \/ /\ m_freeSessions = << >>
          /\ UNCHANGED <<m_sessions, m_freeSessions, session>>
    /\ requests' = Tail(requests)
    /\ UNCHANGED <<actor, task, due, uplink, downlink>>

(***************************************************************************)
(* Mutant: the id is pushed whether or not the slot is in use.             *)
(***************************************************************************)
TakeCloseSessionUnchecked ==
    LET id == Head(requests).id IN
    /\ Gets("CloseSession")
    /\ m_sessions' = [m_sessions EXCEPT ![id] = Null]
    /\ m_freeSessions' = <<id>> \o m_freeSessions
    /\ requests' = Tail(requests)
    /\ UNCHANGED <<session, actor, task, due, uplink, downlink>>

(***************************************************************************)
(* Whichever session has the slot now loses it.                            *)
(***************************************************************************)
TakeCloseSession ==
    LET id == Head(requests).id IN
    /\ Gets("CloseSession")
    /\ \/ /\ m_sessions[id] # Null
          /\ m_sessions' = [m_sessions EXCEPT ![id] = Null]
          /\ m_freeSessions' = <<id>> \o m_freeSessions
       \/ /\ m_sessions[id] = Null
          /\ UNCHANGED <<m_sessions, m_freeSessions>>
    /\ requests' = Tail(requests)
    /\ UNCHANGED <<session, actor, task, due, uplink, downlink>>

TakeEnvelop ==
    \E d \in uplink :
        /\ m_sessions[d.id] # Null
        /\ TakeDatagram(m_sessions[d.id], d)
        /\ UNCHANGED <<m_sessions, m_freeSessions>>

BackendStep == TakeCreateSession \/ TakeCloseSession \/ TakeEnvelop

=============================================================================
