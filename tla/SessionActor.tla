---------------------------- MODULE SessionActor ----------------------------
(***************************************************************************)
(* SessionActor of SessionActor.scala: one actor per game session.  Two    *)
(* threads work on its fields without a lock: the actor, which handles one *)
(* datagram at a time, and the keep-alive task of the scheduler, which     *)
(* drops the players that were silent for too long.  Both may call         *)
(* quitImpl.  A step is a piece of code between two accesses to m_stats    *)
(* that the other thread could notice; accesses are atomic.                *)
(*                                                                         *)
(* lastPingTime is left out: whether a player was silent for too long when *)
(* the task looks is a free choice.  So are weakConnection, the data of    *)
(* updates, and what a SessionState tells of them.                         *)
(***************************************************************************)
EXTENDS SeqIndex, SequencesExt, FiniteSets

CONSTANTS
    SessionActors,         \* identities of SessionActor actors
    Players,               \* names of players
    MAX_SESSIONS_NUMBER,   \* slots of Backend.m_sessions (256)
    MaxPorts,              \* how many sockets one Session object may open
    MaxCalls,              \* API calls that one Session object makes
    Duplicates,            \* the network may deliver a datagram again
    Null                   \* null of the code

VARIABLES
    session,    \* session[s]: the fields of the SessionActor s
    actor,      \* actor[s]: where its thread is in the handler of a datagram
    task,       \* task[s]: where its keep-alive task is
    due,        \* due[s]: Sync messages the scheduler holds back
    requests,   \* the mailbox of the Backend actor, but for datagrams
    uplink,     \* UDP datagrams on their way to the server
    downlink    \* UDP datagrams on their way to the clients

sessionVars == <<session, actor, task, due, requests, uplink, downlink>>

-----------------------------------------------------------------------------
(***************************************************************************)
(* The address of a Session object: one per socket it opens.  s stands for *)
(* the session it was made for.                                            *)
(***************************************************************************)
Addresses == [s : SessionActors, name : Players, port : 1..MaxPorts]

(***************************************************************************)
(* A request for synchronization is known by who made it and by its number *)
(* among the requests of that player.                                      *)
(***************************************************************************)
SyncRequests == [name : Players, number : 1..MaxCalls]

SeqIdxs == Indices \cup {Unreliable}

Ids == 0..(MAX_SESSIONS_NUMBER - 1)

ToServer ==
    [type : {"Ready", "KeepAlive", "Message", "Quit"}, id : Ids,
     from : Addresses, name : Players]
    \cup [type : {"Update"}, id : Ids, from : Addresses, name : Players,
          timestamp : 1..MaxCalls, forceBroadcast : BOOLEAN,
          shares : BOOLEAN]
    \cup [type : {"RequestSync"}, id : Ids, from : Addresses, name : Players,
          request : SyncRequests, seqIdx : SeqIdxs]

ToClient ==
    [to : Addresses,
     type : {"SUCC", "SUCK", "Start", "SessionState"}]
    \cup [to : Addresses, type : {"Message", "Quit"}, name : Players]
    \cup [to : Addresses, type : {"Sync"}, request : SyncRequests,
          seqIdx : SeqIdxs]
    \cup [to : Addresses, type : {"Ack"}, seqIdx : Indices]

(***************************************************************************)
(* A PlayerStatistics object is made by Ready, at most once after the      *)
(* session runs, and changed in place: player holds the object of a name,  *)
(* and m_stats the names whose entry in the map is not null.               *)
(***************************************************************************)
PlayerStatistics == [address : Addresses, updateTimestamp : 0..MaxCalls]

MessagesSequenceInfo == [localSeqIdx : Indices, remoteSeqIdx : Indices]

ASSUME NullAssumption ==
    Null \notin SessionActors \cup PlayerStatistics \cup MessagesSequenceInfo

SessionState ==
    [m_state : {"unborn", "Waiting", "Running", "stopped"},
     m_id : Ids \cup {Null}, players : SUBSET Players,
     m_stats : SUBSET Players,
     player : [Players -> PlayerStatistics \cup {Null}],
     m_shared : 0..MaxCalls,
     m_seqStats : [Players -> MessagesSequenceInfo \cup {Null}]]

ActorStates ==
    [at : {"idle"}]
    \cup [at : {"updating", "quitting", "checking"}, datagram : ToServer]

TaskStates ==
    [at : {"idle"}]
    \cup [at : {"visiting"}, todo : SUBSET Players]
    \cup [at : {"touching", "quitting", "checking"}, todo : SUBSET Players,
          name : Players]

BackendRequests ==
    [type : {"CreateSession"}, players : SUBSET Players]
    \cup [type : {"CloseSession"}, id : Ids]

SessionTypeOK ==
    /\ session \in [SessionActors -> SessionState]
    /\ actor \in [SessionActors -> ActorStates]
    /\ task \in [SessionActors -> TaskStates]
    /\ due \in [SessionActors ->
                   SUBSET [request : SyncRequests, seqIdx : SeqIdxs]]
    /\ requests \in Seq(BackendRequests)
    /\ uplink \subseteq ToServer
    /\ downlink \subseteq ToClient

Unborn ==
    [m_state |-> "unborn", m_id |-> Null, players |-> {}, m_stats |-> {},
     player |-> [p \in Players |-> Null], m_shared |-> 0,
     m_seqStats |-> [p \in Players |-> Null]]

Idle == [at |-> "idle"]

SessionInit ==
    /\ session = [s \in SessionActors |-> Unborn]
    /\ actor = [s \in SessionActors |-> Idle]
    /\ task = [s \in SessionActors |-> Idle]
    /\ due = [s \in SessionActors |-> {}]
    /\ requests = << >>
    /\ uplink = {}
    /\ downlink = {}

-----------------------------------------------------------------------------
(***************************************************************************)
(* The handler of datagram d takes it off the network, if it can come but  *)
(* once, and sends replies.                                                *)
(* Equal datagrams that are on their way at once count as one: the network *)
(* may lose any.                                                           *)
(***************************************************************************)
Sent(datagrams) == downlink' = downlink \cup datagrams

Exchanged(d, replies) ==
    /\ uplink' = IF Duplicates THEN uplink ELSE uplink \ {d}
    /\ Sent(replies)

To(address, type) == [to |-> address, type |-> type]

Addressed(state, names) == {state.player[p].address : p \in names}

Takes(s, d, state, type) ==
    /\ session[s].m_state = state
    /\ actor[s] = Idle
    /\ d.type = type

(***************************************************************************)
(* The handler does nothing but, perhaps, answer.                          *)
(***************************************************************************)
OnlyReplies(d, replies) ==
    Exchanged(d, replies) /\ UNCHANGED <<session, actor, task, due, requests>>

(***************************************************************************)
(* for(stat <- m_stats.values) send to stat.address: a null among the      *)
(* values ends it with an exception, after some of the others have been    *)
(* served (the order of a HashMap is arbitrary), and the catch clause      *)
(* answers SUCK.  reply is what the sender of the datagram would get.      *)
(***************************************************************************)
LoopReplies(state, names, reply) ==
    LET Served(some) ==
            {[reply EXCEPT !.to = a] : a \in Addressed(state, some)}
    IN IF names \subseteq state.m_stats
       THEN {Served(names)}
       ELSE {Served(some) \cup {To(reply.to, "SUCK")} :
                 some \in SUBSET (names \cap state.m_stats)}

-----------------------------------------------------------------------------
(***************************************************************************)
(* Waiting.                                                                *)
(***************************************************************************)
WithReady(state, d) ==
    [state EXCEPT
        !.m_stats = @ \cup {d.name},
        !.player[d.name] = [address |-> d.from, updateTimestamp |-> 0],
        !.m_seqStats[d.name] = [localSeqIdx |-> 1, remoteSeqIdx |-> 0]]

(***************************************************************************)
(* Mutant: the session starts with the first player.                       *)
(***************************************************************************)
AnyReady(state) == state.m_stats # {}

AllReady(state) == state.m_stats = state.players

TakeReady(s, d) ==
    LET after == WithReady(session[s], d)
        starts == {To(after.player[p].address, "Start") : p \in after.m_stats}
    IN
    /\ Takes(s, d, "Waiting", "Ready")
    /\ \/ /\ d.name \notin session[s].players
          /\ UNCHANGED session
          /\ Exchanged(d, {To(d.from, "SUCK")})
       \/ /\ d.name \in session[s].players
          /\ ~AllReady(after)
          /\ session' = [session EXCEPT ![s] = after]
          /\ Exchanged(d, {To(d.from, "SUCC")})
       \/ /\ d.name \in session[s].players
          /\ AllReady(after)
          /\ session' = [session EXCEPT ![s] =
                            [after EXCEPT !.m_state = "Running"]]
          /\ Exchanged(d, starts)
    /\ UNCHANGED <<actor, task, due, requests>>

(***************************************************************************)
(* player.get.lastPingTime fails when the entry is null, in both states.   *)
(***************************************************************************)
TakeKeepAlive(s, d) ==
    LET fails == /\ d.name \in session[s].players
                 /\ d.name \notin session[s].m_stats
    IN
    /\ \E state \in {"Waiting", "Running"} : Takes(s, d, state, "KeepAlive")
    /\ OnlyReplies(d, IF fails THEN {To(d.from, "SUCK")} ELSE {})

(***************************************************************************)
(* Mutant: a Ready that comes late is answered with another Start.         *)
(***************************************************************************)
TakeUnexpectedAnswers(s, d) ==
    \/ /\ Takes(s, d, "Running", "Ready")
       /\ OnlyReplies(d, {To(d.from, "Start")})
    \/ /\ \E type \in {"Update", "Message", "RequestSync", "Quit"} :
            Takes(s, d, "Waiting", type)
       /\ OnlyReplies(d, {})

(***************************************************************************)
(* Ready in Running, and all but Ready and KeepAlive in Waiting.           *)
(***************************************************************************)
TakeUnexpected(s, d) ==
    /\ \/ Takes(s, d, "Running", "Ready")
       \/ \E type \in {"Update", "Message", "RequestSync", "Quit"} :
            Takes(s, d, "Waiting", type)
    /\ OnlyReplies(d, {})

-----------------------------------------------------------------------------
(***************************************************************************)
(* Running, Update.  The entry of the player is read and later put back:   *)
(* by then the task may have removed it.                                   *)
(***************************************************************************)
IsNews(s, d) ==
    /\ d.name \in session[s].m_stats
    /\ session[s].player[d.name].updateTimestamp < d.timestamp

BeginUpdate(s, d) ==
    /\ Takes(s, d, "Running", "Update")
    /\ \/ /\ IsNews(s, d)
          /\ actor' = [actor EXCEPT ![s] = [at |-> "updating", datagram |-> d]]
       \/ /\ ~IsNews(s, d)
          /\ UNCHANGED actor
    /\ Exchanged(d, {})
    /\ UNCHANGED <<session, task, due, requests>>

EndUpdate(s) ==
    LET d == actor[s].datagram
        reply == To(d.from, "SessionState")
        newShared == d.shares /\ session[s].m_shared < d.timestamp
        after == [session[s] EXCEPT
                     !.player[d.name].updateTimestamp = d.timestamp,
                     !.m_stats = @ \cup {d.name},
                     !.m_shared = IF newShared THEN d.timestamp ELSE @]
    IN
    /\ actor[s].at = "updating"
    /\ session' = [session EXCEPT ![s] = after]
    /\ \/ /\ d.forceBroadcast
          /\ \E replies \in LoopReplies(after, after.players, reply) :
                Sent(replies)
       \/ /\ ~d.forceBroadcast
          /\ Sent({reply})
    /\ actor' = [actor EXCEPT ![s] = Idle]
    /\ UNCHANGED <<task, due, requests, uplink>>

(***************************************************************************)
(* Running, Message: to all players but the sender.                        *)
(***************************************************************************)
TakeMessage(s, d) ==
    LET said == [to |-> d.from, type |-> "Message", name |-> d.name] IN
    /\ Takes(s, d, "Running", "Message")
    /\ \E replies \in LoopReplies(session[s],
                                  session[s].players \ {d.name}, said) :
          OnlyReplies(d, replies)

(***************************************************************************)
(* Running, RequestSync.  A reliable request is acknowledged when it is    *)
(* accepted, and only then; its Sync bears the player's local index.       *)
(***************************************************************************)
IsReliable(d) == d.seqIdx < IDX_WRAP_MODULE

(***************************************************************************)
(* Mutant: what comes again is carried out again.                          *)
(***************************************************************************)
AcceptsAnyRequest(s, d) == session[s].m_seqStats[d.name] # Null

AcceptsRequest(s, d) ==
    LET info == session[s].m_seqStats[d.name]
    IN /\ info # Null
       /\ Accepts(ACK_HISTORY_SIZE, info.remoteSeqIdx, d.seqIdx)

TakeRequestSync(s, d) ==
    LET info == session[s].m_seqStats[d.name]
        Scheduled(idx) == due' = [due EXCEPT ![s] =
                              @ \cup {[request |-> d.request, seqIdx |-> idx]}]
    IN
    /\ Takes(s, d, "Running", "RequestSync")
    /\ \/ /\ IsReliable(d)
          /\ AcceptsRequest(s, d)
          /\ session' = [session EXCEPT ![s].m_seqStats[d.name] =
                 [localSeqIdx |-> NextIdx(info.localSeqIdx),
                  remoteSeqIdx |-> d.seqIdx]]
          /\ Scheduled(info.localSeqIdx)
          /\ Exchanged(d, {[to |-> d.from, type |-> "Ack",
                            seqIdx |-> d.seqIdx]})
       \/ /\ IsReliable(d)
          /\ ~AcceptsRequest(s, d)
          /\ Exchanged(d, {})
          /\ UNCHANGED <<session, due>>
       \/ /\ ~IsReliable(d)
          /\ Scheduled(Unreliable)
          /\ Exchanged(d, {})
          /\ UNCHANGED session
    /\ UNCHANGED <<actor, task, requests>>

(***************************************************************************)
(* scheduleOnce: the delay is over.  The session may have ended meanwhile. *)
(***************************************************************************)
SendSync(s) ==
    \E sync \in due[s] :
        /\ due' = [due EXCEPT ![s] = @ \ {sync}]
        /\ Sent({[to |-> a, type |-> "Sync", request |-> sync.request,
                  seqIdx |-> sync.seqIdx] :
                     a \in Addressed(session[s], session[s].m_stats)})
        /\ UNCHANGED <<session, actor, task, requests, uplink>>

-----------------------------------------------------------------------------
(***************************************************************************)
(* quitImpl, on either thread: the entry is seen not to be null, then it   *)
(* is set to null, then all entries are looked at.                         *)
(***************************************************************************)
Removed(s, name) ==
    session' = [session EXCEPT ![s].m_stats = @ \ {name}]

(***************************************************************************)
(* Mutant: the back end is not told.                                       *)
(***************************************************************************)
ClosedSilently(s) ==
    \/ /\ session[s].m_stats = {}
       /\ session' = [session EXCEPT ![s].m_state = "stopped"]
       /\ UNCHANGED requests
    \/ /\ session[s].m_stats # {}
       /\ UNCHANGED <<session, requests>>

ClosedIfLeft(s) ==
    \/ /\ session[s].m_stats = {}
       /\ session' = [session EXCEPT ![s].m_state = "stopped"]
       /\ requests' = Append(requests, [type |-> "CloseSession",
                                        id |-> session[s].m_id])
    \/ /\ session[s].m_stats # {}
       /\ UNCHANGED <<session, requests>>

(***************************************************************************)
(* Running, Quit.  The other players are told in any case.                 *)
(***************************************************************************)
QuitNotes(s, d) ==
    {[to |-> a, type |-> "Quit", name |-> d.name] :
        a \in Addressed(session[s], session[s].m_stats) \ {d.from}}

BeginQuit(s, d) ==
    /\ Takes(s, d, "Running", "Quit")
    /\ \/ /\ d.name \in session[s].m_stats
          /\ actor' = [actor EXCEPT ![s] = [at |-> "quitting", datagram |-> d]]
          /\ Exchanged(d, {})
       \/ /\ d.name \notin session[s].m_stats
          /\ Exchanged(d, QuitNotes(s, d))
          /\ UNCHANGED actor
    /\ UNCHANGED <<session, task, due, requests>>

RemoveQuitter(s) ==
    /\ actor[s].at = "quitting"
    /\ Removed(s, actor[s].datagram.name)
    /\ actor' = [actor EXCEPT ![s].at = "checking"]
    /\ UNCHANGED <<task, due, requests, uplink, downlink>>

EndQuit(s) ==
    /\ actor[s].at = "checking"
    /\ ClosedIfLeft(s)
    /\ Sent(QuitNotes(s, actor[s].datagram))
    /\ actor' = [actor EXCEPT ![s] = Idle]
    /\ UNCHANGED <<task, due, uplink>>

-----------------------------------------------------------------------------
(***************************************************************************)
(* The keep-alive task, once a second while the session runs.  A run that  *)
(* has begun goes on when the session stops.                               *)
(***************************************************************************)
BeginCheck(s) ==
    /\ session[s].m_state = "Running"
    /\ task[s] = Idle
    /\ task' = [task EXCEPT ![s] = [at |-> "visiting",
                                    todo |-> session[s].players]]
    /\ UNCHANGED <<session, actor, due, requests, uplink, downlink>>

Visit(s, p, at) ==
    /\ task[s].at = "visiting"
    /\ p \in task[s].todo
    /\ p \in session[s].m_stats
    /\ task' = [task EXCEPT ![s] = [at |-> at, todo |-> task[s].todo \ {p},
                                    name |-> p]]
    /\ UNCHANGED <<session, actor, due, requests, uplink, downlink>>

(***************************************************************************)
(* There is no entry, or it was renewed in this very millisecond.          *)
(***************************************************************************)
PassBy(s, p) ==
    /\ task[s].at = "visiting"
    /\ p \in task[s].todo
    /\ task' = [task EXCEPT ![s].todo = @ \ {p}]
    /\ UNCHANGED <<session, actor, due, requests, uplink, downlink>>

VisitHeard(s, p) == Visit(s, p, "touching")

VisitSilent(s, p) == Visit(s, p, "quitting")

GoOn(s) == task' = [task EXCEPT ![s] = [at |-> "visiting",
                                        todo |-> task[s].todo]]

(***************************************************************************)
(* m_stats.update(name, player) puts back what was read before.            *)
(***************************************************************************)
Touch(s) ==
    /\ task[s].at = "touching"
    /\ session' = [session EXCEPT ![s].m_stats = @ \cup {task[s].name}]
    /\ GoOn(s)
    /\ UNCHANGED <<actor, due, requests, uplink, downlink>>

RemoveSilent(s) ==
    /\ task[s].at = "quitting"
    /\ Removed(s, task[s].name)
    /\ task' = [task EXCEPT ![s].at = "checking"]
    /\ UNCHANGED <<actor, due, requests, uplink, downlink>>

(***************************************************************************)
(* Mutant: the task drops players and never looks who is left.             *)
(***************************************************************************)
CheckNobody(s) ==
    /\ task[s].at = "checking"
    /\ GoOn(s)
    /\ UNCHANGED <<session, requests, actor, due, uplink, downlink>>

CheckLeft(s) ==
    /\ task[s].at = "checking"
    /\ ClosedIfLeft(s)
    /\ GoOn(s)
    /\ UNCHANGED <<actor, due, uplink, downlink>>

(***************************************************************************)
(* The KeepAlive that all players are sent now is left out: it renews the  *)
(* timeout of a client, which is a free choice, or makes startup throw,    *)
(* which is the same as giving up.                                         *)
(***************************************************************************)
EndCheck(s) ==
    /\ task[s].at = "visiting"
    /\ task[s].todo = {}
    /\ task' = [task EXCEPT ![s] = Idle]
    /\ UNCHANGED <<session, actor, due, requests, uplink, downlink>>

-----------------------------------------------------------------------------
TakeDatagram(s, d) ==
    \/ TakeReady(s, d)
    \/ TakeKeepAlive(s, d)
    \/ TakeUnexpected(s, d)
    \/ BeginUpdate(s, d)
    \/ TakeMessage(s, d)
    \/ TakeRequestSync(s, d)
    \/ BeginQuit(s, d)

ActorStep(s) == EndUpdate(s) \/ RemoveQuitter(s) \/ EndQuit(s)

TaskStep(s) ==
    \/ BeginCheck(s)
    \/ \E p \in Players :
          PassBy(s, p) \/ VisitHeard(s, p) \/ VisitSilent(s, p)
    \/ Touch(s)
    \/ RemoveSilent(s)
    \/ CheckLeft(s)
    \/ EndCheck(s)

SessionActorStep(s) == ActorStep(s) \/ TaskStep(s) \/ SendSync(s)

=============================================================================
