--------------------------- MODULE SessionSystem ---------------------------
(***************************************************************************)
(* Game sessions as a whole: C++ clients (class Session of Session.cpp)    *)
(* talking over UDP to the Backend and SessionActor actors of the server.  *)
(*                                                                         *)
(* A client calls startup, which sends Ready and blocks until Start comes, *)
(* resending Ready when nothing comes for DEFAULT_TIMEOUT_MS.  Then it may *)
(* broadcast, say, synchronize, and receive, until it quits or hears       *)
(* nothing for KEEP_ALIVE_LIMIT.  Clock synchronization is left out.       *)
(***************************************************************************)
EXTENDS Backend

CONSTANTS
    Calls,                   \* the API calls that clients make
    MESSSAGES_BUFFER_SIZE    \* room in mOutputQueue, and the window (32)

ASSUME CallsAssumption ==
    /\ Calls \subseteq {"broadcast", "say", "sync", "reliableSync",
                        "keepAlive"}
    /\ MESSSAGES_BUFFER_SIZE \in Nat
    /\ Duplicates \in BOOLEAN
    /\ MaxPorts \in Nat \ {0}
    /\ MaxCalls \in Nat \ {0}
    /\ MAX_SESSIONS_NUMBER \in Nat \ {0}

VARIABLES
    client,   \* client[c]: the Session object of player c[2] for session c[1]
    heard     \* heard[c]: the reliable requests onSync was called for

vars == <<session, actor, task, due, requests, uplink, downlink, m_sessions,
          m_freeSessions, client, heard>>

serverVars == <<session, actor, task, due, requests, m_sessions,
                m_freeSessions>>

-----------------------------------------------------------------------------
Clients == SessionActors \X Players

(***************************************************************************)
(* ready and granted: startup waits for a first answer, or for Start after *)
(* SUCC.  ended: mStarted is false again, or startup threw.  calls counts  *)
(* down the bound MaxCalls; syncs and updates count the requests and the   *)
(* broadcasts made.                                                        *)
(***************************************************************************)
Phases == {"none", "created", "ready", "granted", "started", "ended"}

ClientState ==
    [phase : Phases, port : 0..MaxPorts, mLocalSeqIdx : Indices,
     mRemoteSeqIdx : Indices,
     mOutputQueue : Seq([request : SyncRequests, seqIdx : Indices]),
     calls : 0..MaxCalls, syncs : 0..MaxCalls, updates : 0..MaxCalls]

TypeOK ==
    /\ SessionTypeOK
    /\ BackendTypeOK
    /\ client \in [Clients -> ClientState]
    /\ heard \in [Clients -> Seq(SyncRequests)]

NewClient(phase) ==
    [phase |-> phase, port |-> 0, mLocalSeqIdx |-> 1, mRemoteSeqIdx |-> 0,
     mOutputQueue |-> << >>, calls |-> MaxCalls, syncs |-> 0, updates |-> 0]

Init ==
    /\ SessionInit
    /\ BackendInit
    /\ client = [c \in Clients |-> NewClient("none")]
    /\ heard = [c \in Clients |-> << >>]

-----------------------------------------------------------------------------
(***************************************************************************)
(* The server.  A lobby asks for a session of its players; when the        *)
(* session is there, each of them gets a Session object (SessionStarted).  *)
(***************************************************************************)
Unborns == {s \in SessionActors : session[s].m_state = "unborn"}

AskSession ==
    /\ Cardinality({i \in DOMAIN requests :
                        requests[i].type = "CreateSession"})
           < Cardinality(Unborns)
    /\ \E players \in SUBSET Players \ {{}} :
        requests' = Append(requests, [type |-> "CreateSession",
                                      players |-> players])
    /\ UNCHANGED <<session, actor, task, due, uplink, downlink, m_sessions,
                   m_freeSessions, client, heard>>

CreateSession ==
    /\ TakeCreateSession
    /\ client' = [c \in Clients |->
           IF c[1] \in Unborns /\ c[2] \in session'[c[1]].players
           THEN NewClient("created") ELSE client[c]]
    /\ UNCHANGED heard

CloseSession == TakeCloseSession /\ UNCHANGED <<client, heard>>

Datagram == TakeEnvelop /\ UNCHANGED <<client, heard>>

ServerThreads(s) ==
    /\ SessionActorStep(s)
    /\ UNCHANGED <<m_sessions, m_freeSessions, client, heard>>

-----------------------------------------------------------------------------
(***************************************************************************)
(* What a client sends and reads.  A socket reads only what was sent to    *)
(* its own port.                                                           *)
(***************************************************************************)
Address(c) == [s |-> c[1], name |-> c[2], port |-> client[c].port]

Datagram0(c, type) ==
    [type |-> type, id |-> session[c[1]].m_id, from |-> Address(c),
     name |-> c[2]]

Sends(d) == uplink' = uplink \cup {d} /\ UNCHANGED downlink

Reads(d) ==
    /\ downlink' = IF Duplicates THEN downlink ELSE downlink \ {d}
    /\ UNCHANGED uplink

(***************************************************************************)
(* Mutant: Ready goes out from the socket of the call before.              *)
(***************************************************************************)
StartupFromOldSocket(c) ==
    LET opened == [client[c] EXCEPT !.phase = "ready", !.port = @ + 1] IN
    /\ client[c].phase \in {"created", "ended"}
    /\ client[c].port < MaxPorts
    /\ client' = [client EXCEPT ![c] = opened]
    /\ Sends(Datagram0(c, "Ready"))
    /\ UNCHANGED <<serverVars, heard>>

(***************************************************************************)
(* startup opens a new socket each time it is called.                      *)
(***************************************************************************)
Startup(c) ==
    LET opened == [client[c] EXCEPT !.phase = "ready", !.port = @ + 1] IN
    /\ client[c].phase \in {"created", "ended"}
    /\ client[c].port < MaxPorts
    /\ client' = [client EXCEPT ![c] = opened]
    /\ Sends([Datagram0(c, "Ready") EXCEPT !.from.port = opened.port])
    /\ UNCHANGED <<serverVars, heard>>

Starting(c) == client[c].phase \in {"ready", "granted"}

ResendReady(c) ==
    /\ Starting(c)
    /\ Sends(Datagram0(c, "Ready"))
    /\ UNCHANGED <<serverVars, client, heard>>

(***************************************************************************)
(* Start ends startup, the first SUCC makes it wait on, anything else (a   *)
(* second SUCC after a resent Ready, a KeepAlive that overtook Start)      *)
(* makes it throw.                                                         *)
(***************************************************************************)
AfterAnswer(phase, type) ==
    IF type = "Start" THEN "started"
    ELSE IF phase = "ready" /\ type = "SUCC" THEN "granted"
    ELSE "ended"

ReadAnswer(c, d) ==
    /\ Starting(c)
    /\ d.to = Address(c)
    /\ Reads(d)
    /\ client' = [client EXCEPT ![c].phase = AfterAnswer(@, d.type)]
    /\ UNCHANGED <<serverVars, heard>>

(***************************************************************************)
(* startup has waited for timeout; or receive has heard nothing for        *)
(* KEEP_ALIVE_LIMIT.  A process that is killed looks the same to everybody *)
(* else.                                                                   *)
(***************************************************************************)
TimeOut(c) ==
    /\ Starting(c) \/ client[c].phase = "started"
    /\ client' = [client EXCEPT ![c].phase = "ended"]
    /\ UNCHANGED <<serverVars, uplink, downlink, heard>>

-----------------------------------------------------------------------------
(***************************************************************************)
(* Calls of a started client.                                              *)
(***************************************************************************)
MayCall(c, fn) ==
    fn \in Calls /\ client[c].phase = "started" /\ client[c].calls > 0

Counted(c) == [client[c] EXCEPT !.calls = @ - 1]

Quit(c) ==
    /\ client[c].phase = "started"
    /\ client' = [client EXCEPT ![c].phase = "ended"]
    /\ Sends(Datagram0(c, "Quit"))
    /\ UNCHANGED <<serverVars, heard>>

KeepAlive(c) ==
    /\ MayCall(c, "keepAlive")
    /\ client' = [client EXCEPT ![c] = Counted(c)]
    /\ Sends(Datagram0(c, "KeepAlive"))
    /\ UNCHANGED <<serverVars, heard>>

Say(c) ==
    /\ MayCall(c, "say")
    /\ client' = [client EXCEPT ![c] = Counted(c)]
    /\ Sends(Datagram0(c, "Message"))
    /\ UNCHANGED <<serverVars, heard>>

(***************************************************************************)
(* The clock is taken to have gone on between two broadcasts.              *)
(***************************************************************************)
Broadcast(c) ==
    LET timestamp == client[c].updates + 1 IN
    /\ MayCall(c, "broadcast")
    /\ client' = [client EXCEPT ![c] = [Counted(c) EXCEPT
                                           !.updates = timestamp]]
    /\ \E forced, shares \in BOOLEAN :
        Sends([type |-> "Update", id |-> session[c[1]].m_id,
               from |-> Address(c), name |-> c[2], timestamp |-> timestamp,
               forceBroadcast |-> forced, shares |-> shares])
    /\ UNCHANGED <<serverVars, heard>>

SyncDatagram(c, request, seqIdx) ==
    [type |-> "RequestSync", id |-> session[c[1]].m_id, from |-> Address(c),
     name |-> c[2], request |-> request, seqIdx |-> seqIdx]

NextRequest(c) == [name |-> c[2], number |-> client[c].syncs + 1]

Sync(c) ==
    /\ MayCall(c, "sync")
    /\ client' = [client EXCEPT ![c] = [Counted(c) EXCEPT !.syncs = @ + 1]]
    /\ Sends(SyncDatagram(c, NextRequest(c), Unreliable))
    /\ UNCHANGED <<serverVars, heard>>

(***************************************************************************)
(* With the queue full the call returns false and sends nothing.           *)
(***************************************************************************)
ReliableSync(c) ==
    LET seqIdx == client[c].mLocalSeqIdx
        request == NextRequest(c)
    IN
    /\ MayCall(c, "reliableSync")
    /\ Len(client[c].mOutputQueue) < MESSSAGES_BUFFER_SIZE
    /\ client' = [client EXCEPT ![c] = [Counted(c) EXCEPT
           !.syncs = @ + 1,
           !.mLocalSeqIdx = NextIdx(seqIdx),
           !.mOutputQueue = Append(@, [request |-> request,
                                       seqIdx |-> seqIdx])]]
    /\ Sends(SyncDatagram(c, request, seqIdx))
    /\ UNCHANGED <<serverVars, heard>>

(***************************************************************************)
(* receive, last part: what waits for its Ack is sent again.               *)
(***************************************************************************)
ResendSync(c) ==
    /\ client[c].phase = "started"
    /\ \E i \in DOMAIN client[c].mOutputQueue :
        LET msg == client[c].mOutputQueue[i]
        IN Sends(SyncDatagram(c, msg.request, msg.seqIdx))
    /\ UNCHANGED <<serverVars, client, heard>>

-----------------------------------------------------------------------------
(***************************************************************************)
(* receive, one datagram.  Acks and Syncs share mRemoteSeqIdx, and either  *)
(* takes the request of that index off the queue.                          *)
(***************************************************************************)
IsAckOrSync(d) == d.type \in {"Ack", "Sync"} /\ d.seqIdx # Unreliable

Acknowledges(c, d) ==
    /\ IsAckOrSync(d)
    /\ Accepts(MESSSAGES_BUFFER_SIZE, client[c].mRemoteSeqIdx, d.seqIdx)

Acknowledged(c, idx) ==
    LET queue == client[c].mOutputQueue
        i == SelectInSeq(queue, LAMBDA msg : msg.seqIdx = idx)
    IN [client[c] EXCEPT
           !.mRemoteSeqIdx = idx,
           !.mOutputQueue = IF i = 0 THEN queue ELSE RemoveAt(queue, i)]

OnSync(c, d) ==
    IF d.type = "Sync" /\ Acknowledges(c, d)
    THEN heard' = [heard EXCEPT ![c] = Append(@, d.request)]
    ELSE UNCHANGED heard

Receive(c, d) ==
    /\ client[c].phase = "started"
    /\ d.to = Address(c)
    /\ Reads(d)
    /\ \/ /\ Acknowledges(c, d)
          /\ client' = [client EXCEPT ![c] = Acknowledged(c, d.seqIdx)]
       \/ /\ d.type = "Quit" /\ d.name = c[2]
          /\ client' = [client EXCEPT ![c].phase = "ended"]
       \/ /\ ~Acknowledges(c, d)
          /\ ~(d.type = "Quit" /\ d.name = c[2])
          /\ UNCHANGED client
    /\ OnSync(c, d)
    /\ UNCHANGED serverVars

-----------------------------------------------------------------------------
ClientStep(c) ==
    \/ Startup(c)
    \/ ResendReady(c)
    \/ TimeOut(c)
    \/ Quit(c)
    \/ KeepAlive(c)
    \/ Say(c)
    \/ Broadcast(c)
    \/ Sync(c)
    \/ ReliableSync(c)
    \/ ResendSync(c)
    \/ \E d \in downlink : ReadAnswer(c, d) \/ Receive(c, d)

Next ==
    \/ AskSession
    \/ CreateSession
    \/ CloseSession
    \/ Datagram
    \/ \E s \in SessionActors : ServerThreads(s)
    \/ \E c \in Clients : ClientStep(c)

Spec == Init /\ [][Next]_vars

(***************************************************************************)
(* Every thread of the server runs on.  The keep-alive task looks at each  *)
(* player once a second, and one that has not started, or not any longer,  *)
(* sends nothing that renews its lastPingTime: after KEEP_ALIVE_LIMIT the  *)
(* task finds it silent each time.                                         *)
(***************************************************************************)
VisitGone(s, p) ==
    /\ client[<<s, p>>].phase # "started"
    /\ VisitSilent(s, p)
    /\ UNCHANGED <<m_sessions, m_freeSessions, client, heard>>

Fairness ==
    /\ WF_vars(CreateSession)
    /\ WF_vars(CloseSession)
    /\ \A s \in SessionActors :
        /\ WF_vars(ActorStep(s) /\ ServerThreads(s))
        /\ WF_vars(TaskStep(s) /\ ServerThreads(s))
        /\ \A p \in Players : SF_vars(VisitGone(s, p))

FairSpec == Spec /\ Fairness

-----------------------------------------------------------------------------
(***************************************************************************)
(* The stack of free ids and the table never disagree: an id is on the     *)
(* stack once if its slot is empty and not at all otherwise, although both *)
(* threads of a session may send a CloseSession for it.                    *)
(***************************************************************************)
FreeExact ==
    /\ IsInjective(m_freeSessions)
    /\ \A id \in Ids : m_sessions[id] = Null <=> id \in ToSet(m_freeSessions)

(***************************************************************************)
(* A slot does not stay with a session that has stopped: a CloseSession    *)
(* for it is under way.  Sessions whose slot another one's second          *)
(* CloseSession took away do not disturb this.                             *)
(***************************************************************************)
SlotsComeBack ==
    \A id \in Ids :
        LET s == m_sessions[id] IN
        /\ s # Null
        /\ session[s].m_state = "stopped"
        => [type |-> "CloseSession", id |-> id] \in ToSet(requests)

(***************************************************************************)
(* Whoever holds an id for the first time need not fear datagrams of an    *)
(* earlier session of that id.                                             *)
(***************************************************************************)
FirstOwner(s) ==
    \A t \in SessionActors \ {s} : session[t].m_id # session[s].m_id

(***************************************************************************)
(* onStart comes when all players are ready: none of the clients of a      *)
(* started one has not called startup yet, whatever the network lost,      *)
(* repeated or delayed.                                                    *)
(***************************************************************************)
StartedTogether ==
    \A c \in Clients :
        client[c].phase = "started" /\ FirstOwner(c[1]) =>
            \A p \in session[c[1]].players : client[<<c[1], p>>].port > 0

(***************************************************************************)
(* What the session sends to a started client goes to the socket the       *)
(* client listens to, however often it called startup and however late its *)
(* Readys came.                                                            *)
(***************************************************************************)
StartedIsServed ==
    \A c \in Clients :
        client[c].phase = "started" /\ FirstOwner(c[1]) =>
            /\ session[c[1]].m_state \in {"Running", "stopped"}
            /\ session[c[1]].player[c[2]].address = Address(c)

(***************************************************************************)
(* onSync is called at most once for a reliable request, however often the *)
(* request is sent again and whatever the network repeats: as long as the  *)
(* player makes fewer than IDX_WRAP_MODULE - ACK_HISTORY_SIZE of them, for *)
(* then indices come around and repeats of old requests are new again.     *)
(* Two sessions of one id would both carry out a request that reaches      *)
(* both.                                                                   *)
(***************************************************************************)
HeardOnce ==
    \A c \in Clients : FirstOwner(c[1]) => IsInjective(heard[c])

(***************************************************************************)
(* The last index that a session has accepted from a player, and the one   *)
(* that a client has accepted from its session, only move on, by less than *)
(* the window: no repeated, delayed or resent datagram sets them back.     *)
(***************************************************************************)
IndicesMoveOn ==
    [][/\ \A s \in SessionActors, p \in Players :
            LET before == session[s].m_seqStats[p]
                after == session'[s].m_seqStats[p]
            IN before # Null /\ after # before =>
                  Ahead(before.remoteSeqIdx, after.remoteSeqIdx)
                      \in 1..(ACK_HISTORY_SIZE - 1)
       /\ \A c \in Clients :
            LET before == client[c].mRemoteSeqIdx
                after == client'[c].mRemoteSeqIdx
            IN after # before =>
                  Ahead(before, after)
                      \in 1..(MESSSAGES_BUFFER_SIZE - 1)]_vars

(***************************************************************************)
(* A running session that all its players have left, with a Quit or        *)
(* without a word, is destroyed and gives its slot back, although the      *)
(* keep-alive task may put back a player who has quit.                     *)
(***************************************************************************)
AllLeft(s) ==
    /\ session[s].m_state = "Running"
    /\ \A p \in session[s].players :
          client[<<s, p>>].phase = "ended"

RunningSessionsEnd ==
    \A s \in SessionActors :
        AllLeft(s) ~> /\ session[s].m_state = "stopped"
                      /\ m_sessions[session[s].m_id] # s

-----------------------------------------------------------------------------
(***************************************************************************)
(* What the headers say and the code does not keep.                        *)
(***************************************************************************)
(***************************************************************************)
(* SessionCallback.h: onMessage is called for each message from say().     *)
(* This is about the session sending it on to the players it still has.    *)
(***************************************************************************)
SayReachesAll ==
    [][\A d \in uplink \ uplink' :
        LET s == m_sessions[d.id] IN
        /\ d.type = "Message"
        /\ session[s].m_state = "Running"
        /\ d.name \in session[s].m_stats
        => \A p \in session[s].m_stats \ {d.name} :
              [to |-> session[s].player[p].address, type |-> "Message",
               name |-> d.name] \in downlink']_vars

(***************************************************************************)
(* Session.h: sync sends a synchronization message to all players, and     *)
(* SessionCallback.h: onSync is called as soon as it is got.  This is      *)
(* about a client that reads a Sync of a reliable request.                 *)
(***************************************************************************)
SyncReachesAll ==
    [][\A d \in downlink \ downlink' :
        d.type = "Sync" /\ d.seqIdx # Unreliable =>
            d.request \in ToSet(heard'[<<d.to.s, d.to.name>>])]_vars

=============================================================================
