-------------------------- MODULE SessionPlay_proofs --------------------------
(***************************************************************************)
(* Theorems about what clients and sessions know of each other: the        *)
(* addresses that a session keeps, what a started client may rely on, and  *)
(* the requests for synchronization that it hears.                         *)
(***************************************************************************)
EXTENDS SessionSystem_proofs

-----------------------------------------------------------------------------
(***************************************************************************)
(* What a session keeps.                                                   *)
(***************************************************************************)
Born(s) == session[s].m_state # "unborn"

(***************************************************************************)
(* y is a later state of the session x: the id and the players stay, the   *)
(* session does not go back, nobody who sent Ready is forgotten, and after *)
(* the start nobody's address changes.                                     *)
(***************************************************************************)
Continues(x, y) ==
    /\ y.m_state # "unborn" /\ y.m_id = x.m_id /\ y.players = x.players
    /\ Begun(x) => Begun(y)
    /\ \A p \in Players : Joined(x, p) => Joined(y, p)
    /\ Begun(x) => \A p \in Players : Joined(y, p) =>
          Joined(x, p) /\ y.player[p].address = x.player[p].address

SamePlayers(x, y) == y.player = x.player

(***************************************************************************)
(* A session of which no player has changed continues.                     *)
(***************************************************************************)
LEMMA ContinuesPlain ==
    ASSUME NEW x, NEW y, y.m_state # "unborn", y.m_id = x.m_id,
           y.players = x.players, Begun(x) => Begun(y), SamePlayers(x, y)
    PROVE  Continues(x, y)
  BY DEF Continues, SamePlayers, Joined

(***************************************************************************)
(* The addresses of y are those of x, or came with a Ready of that player. *)
(***************************************************************************)
AddressesFrom(s) ==
    \A p \in Players : Joined(session'[s], p) =>
        \/ /\ Joined(session[s], p)
           /\ session'[s].player[p].address = session[s].player[p].address
        \/ \E d \in uplink :
              /\ m_sessions[d.id] = s /\ d.name = p
              /\ session'[s].player[p].address = d.from

(***************************************************************************)
(* Ready continues the session with the address of its sender.             *)
(***************************************************************************)
LEMMA ReadyContinues ==
    ASSUME IInv, NEW s \in SessionActors, GetsReady(s)
    PROVE  Continues(session[s], session'[s]) /\ AddressesFrom(s)
<1> DEFINE x == session[s]
           y == session'[s]
<1>1. PICK d \in uplink :
         /\ m_sessions[d.id] = s /\ x.m_state = "Waiting"
         /\ y = IF AllReady(WithReady(x, d)) THEN Running(WithReady(x, d))
                ELSE WithReady(x, d)
  BY DEF GetsReady
<1>2. /\ x \in SessionState /\ d \in ToServer /\ d.name \in Players
      /\ \A p \in x.m_stats : Joined(x, p)
  BY <1>1, Before, ToServerFields DEF IInv, TypeOK, SessionTypeOK, Sane
<1> DEFINE w == WithReady(x, d)
           r == [address |-> d.from, updateTimestamp |-> 0]
<1>3. /\ w \in SessionState /\ w.m_state = "Waiting" /\ w.m_id = x.m_id
      /\ w.players = x.players
      /\ w.player = [x.player EXCEPT ![d.name] = r]
      /\ \A p \in Players : Joined(x, p) => Joined(w, p)
  BY <1>1, <1>2, WithReadyType, WithReadyJoined
<1>4. r.address = d.from
  OBVIOUS
<1>5. y = Running(w) \/ y = w
  BY <1>1
<1> HIDE DEF x, y, w, r
<1>6. /\ y.m_state \in {"Waiting", "Running"} /\ y.m_id = x.m_id
      /\ y.players = x.players /\ y.player = w.player
  BY <1>3, <1>5 DEF Running, SessionState
<1>7. x.player \in [Players -> PlayerStatistics \cup {Null}]
  BY <1>2 DEF SessionState
<1>8. \A p \in Players : y.player[p] = IF p = d.name THEN r ELSE x.player[p]
  BY <1>2, <1>3, <1>6, <1>7
<1>9. Continues(x, y)
  BY <1>1, <1>3, <1>6 DEF Continues, Begun, Joined, x
<1>10. \A p \in Players : Joined(y, p) =>
          \/ Joined(x, p) /\ y.player[p].address = x.player[p].address
          \/ p = d.name /\ y.player[p].address = d.from
  BY <1>4, <1>8 DEF Joined
<1> QED BY <1>1, <1>9, <1>10 DEF AddressesFrom, x, y

(***************************************************************************)
(* So does the end of Update.                                              *)
(***************************************************************************)
LEMMA UpdatedContinues ==
    ASSUME IInv, NEW s \in SessionActors, IsUpdated(s)
    PROVE  Continues(session[s], session'[s]) /\ AddressesFrom(s)
<1> DEFINE x == session[s]
           y == session'[s]
<1>1. PICK q \in Players, r \in PlayerStatistics, shared \in 0..MaxCalls :
         /\ Joined(x, q) /\ r.address = x.player[q].address
         /\ y = Updated(x, q, r, shared)
  BY DEF IsUpdated
<1>2. x \in SessionState /\ Begun(x)
  BY Before DEF IsUpdated
<1> HIDE DEF x, y
<1>3. /\ y.m_state = x.m_state /\ y.m_id = x.m_id
      /\ y.players = x.players /\ y.player = [x.player EXCEPT ![q] = r]
  BY <1>1, <1>2 DEF Updated, SessionState
<1>4. r # Null /\ x.player \in [Players -> PlayerStatistics \cup {Null}]
  BY <1>1, <1>2, NullAssumption DEF SessionState
<1>5. \A p \in Players : y.player[p] = IF p = q THEN r ELSE x.player[p]
  BY <1>3, <1>4
<1>6. \A p \in Players :
         /\ Joined(y, p) <=> Joined(x, p)
         /\ y.player[p].address = x.player[p].address
  BY <1>1, <1>4, <1>5 DEF Joined
<1>7. Continues(x, y)
  BY <1>2, <1>3, <1>6 DEF Continues, Begun
<1> QED BY <1>6, <1>7 DEF AddressesFrom, x, y

(***************************************************************************)
(* Every step continues every session that was born, with addresses that   *)
(* senders had.                                                            *)
(***************************************************************************)
LEMMA SessionContinues ==
    ASSUME IInv, [Next]_vars, NEW s \in SessionActors
    PROVE  /\ Born(s) => Continues(session[s], session'[s])
           /\ AddressesFrom(s)
<1> DEFINE x == session[s]
           y == session'[s]
<1>1. x \in SessionState /\ SessionTransition(s)
  BY Before, EveryTransition
<1>2. CASE IsMade(s)
  <2>1. y.player = [p \in Players |-> Null]
    BY <1>2, MadeType DEF IsMade
  <2> QED BY <1>2, <2>1 DEF IsMade, Born, AddressesFrom, Joined
<1>3. CASE SamePlayers(x, y) /\ (Born(s) => /\ y.m_state # "unborn"
                                            /\ y.m_id = x.m_id
                                            /\ y.players = x.players
                                            /\ Begun(x) => Begun(y))
  BY <1>3, ContinuesPlain DEF SamePlayers, AddressesFrom, Joined
<1>4. CASE y = x
  BY <1>3, <1>4 DEF SamePlayers, Born
<1>5. CASE IsStopped(s)
  BY <1>1, <1>3, <1>5, StoppedType DEF IsStopped, SamePlayers, Begun
<1>6. CASE LosesOrKeeps(s)
  BY <1>1, <1>3, <1>6, HoldingType
     DEF LosesOrKeeps, SamePlayers, Begun, Born
<1>7. CASE GetsRequest(s)
  <2> HIDE DEF x, y
  <2>1. /\ y.m_state = x.m_state /\ y.m_id = x.m_id
        /\ y.players = x.players /\ y.player = x.player
    BY <1>1, <1>7 DEF GetsRequest, Indexed, SessionState, x, y
  <2> QED BY <1>3, <2>1 DEF SamePlayers, Born, Begun, x
<1> QED BY <1>1, <1>2, <1>4, <1>5, <1>6, <1>7, ReadyContinues,
           UpdatedContinues DEF SessionTransition, Born


-----------------------------------------------------------------------------
(***************************************************************************)
(* What the server sends.                                                  *)
(***************************************************************************)
PlainReplies == {"SUCC", "SUCK", "SessionState", "Message", "Quit"}

(***************************************************************************)
(* Start goes to the address of a player, when the session has begun.      *)
(***************************************************************************)
SendsStart(d) ==
    \E s \in SessionActors, p \in Players :
        /\ Begun(session'[s]) /\ Joined(session'[s], p)
        /\ d.to = session'[s].player[p].address

(***************************************************************************)
(* s accepts e, and acknowledges that.                                     *)
(***************************************************************************)
SendsAck(d) ==
    \E s \in SessionActors, e \in uplink :
        /\ m_sessions[e.id] = s /\ session[s].m_state = "Running"
        /\ e.type = "RequestSync" /\ IsReliable(e) /\ AcceptsRequest(s, e)
        /\ session'[s] = Indexed(session[s], e.name,
              AfterRequest(session[s].m_seqStats[e.name], e))
        /\ d = [to |-> e.from, type |-> "Ack", seqIdx |-> e.seqIdx]

(***************************************************************************)
(* The delay of a Sync is over.                                            *)
(***************************************************************************)
SendsSync(d) ==
    \E s \in SessionActors : \E sync \in due[s] : \E p \in Players :
        /\ Joined(session[s], p)
        /\ d = [to |-> session[s].player[p].address, type |-> "Sync",
                request |-> sync.request, seqIdx |-> sync.seqIdx]

Answers(d) ==
    \/ d \in downlink
    \/ d.type \in PlainReplies
    \/ d.type = "Start" /\ SendsStart(d)
    \/ SendsAck(d)
    \/ SendsSync(d)

(***************************************************************************)
(* What a datagram makes the server send is an answer to an address that   *)
(* the session serves.                                                     *)
(***************************************************************************)
LEMMA DatagramAnswers ==
    ASSUME IInv, Datagram, NEW d \in downlink'
    PROVE  Answers(d)
<1>1. PICK e \in uplink : /\ m_sessions[e.id] # Null
                          /\ TakeDatagram(m_sessions[e.id], e)
  BY DEF Datagram, TakeEnvelop
<1> DEFINE s == m_sessions[e.id]
<1>2. /\ e \in ToServer /\ s \in SessionActors
      /\ e.from \in Addresses /\ e.name \in Players
  BY <1>1, ToServerFields DEF IInv, TypeOK, SessionTypeOK, BackendTypeOK
<1>3. s = m_sessions[e.id]
  OBVIOUS
<1> HIDE DEF s
<1>4. /\ session[s] \in SessionState
      /\ \A p \in session[s].m_stats : Joined(session[s], p)
      /\ session \in [SessionActors -> SessionState]
  BY <1>2, Before DEF Sane
<1>5. ASSUME NEW replies, Exchanged(e, replies),
             \A r \in replies : Answers(r)
      PROVE  Answers(d)
  BY <1>5 DEF Exchanged, Sent, Answers
<1>6. ASSUME NEW a \in Addresses,
             NEW type \in {"SUCC", "SUCK", "SessionState"}
      PROVE  Answers(To(a, type))
  BY ToType DEF Answers, PlainReplies
<1>7. CASE TakeReady(s, e)
  <2> DEFINE after == WithReady(session[s], e)
             starts == {To(after.player[p].address, "Start") :
                           p \in after.m_stats}
  <2>1. \/ Exchanged(e, {To(e.from, "SUCK")})
        \/ Exchanged(e, {To(e.from, "SUCC")})
        \/ /\ session' = [session EXCEPT ![s] = Running(after)]
           /\ Exchanged(e, starts)
    BY <1>7 DEF TakeReady, Running
  <2>2. CASE Exchanged(e, {To(e.from, "SUCK")})
             \/ Exchanged(e, {To(e.from, "SUCC")})
    BY <1>2, <1>5, <1>6, <2>2
  <2>3. CASE /\ session' = [session EXCEPT ![s] = Running(after)]
             /\ Exchanged(e, starts)
    <3>1. /\ after \in SessionState
          /\ \A p \in after.m_stats : Joined(after, p)
      BY <1>2, <1>4, WithReadyType, WithReadyJoined
    <3>2. session'[s] = Running(after)
      BY <1>2, <1>4, <2>3
    <3> HIDE DEF after
    <3>3. /\ session'[s].m_state = "Running"
          /\ session'[s].player = after.player
          /\ after.m_stats \subseteq Players
      BY <3>1, <3>2 DEF Running, SessionState
    <3>4. ASSUME NEW p \in after.m_stats
          PROVE  Answers(To(after.player[p].address, "Start"))
      <4>1. /\ To(after.player[p].address, "Start").type = "Start"
            /\ To(after.player[p].address, "Start").to =
                  session'[s].player[p].address
        BY <3>3 DEF To
      <4>2. Joined(session'[s], p) /\ Begun(session'[s]) /\ p \in Players
        BY <3>1, <3>3 DEF Joined, Begun
      <4> QED BY <1>2, <4>1, <4>2 DEF Answers, SendsStart
    <3>5. \A r \in starts : Answers(r)
      BY <3>4
    <3> QED BY <1>5, <2>3, <3>5
  <2> QED BY <2>1, <2>2, <2>3
<1>8. CASE TakeKeepAlive(s, e) \/ TakeUnexpected(s, e) \/ BeginUpdate(s, e)
  <2>1. Exchanged(e, {To(e.from, "SUCK")}) \/ Exchanged(e, {})
    BY <1>8 DEF TakeKeepAlive, TakeUnexpected, BeginUpdate, OnlyReplies
  <2> QED BY <1>2, <1>5, <1>6, <2>1
<1>9. CASE TakeMessage(s, e)
  <2> DEFINE said == [to |-> e.from, type |-> "Message", name |-> e.name]
             names == session[s].players \ {e.name}
  <2>1. PICK replies \in LoopReplies(session[s], names, said) :
            Exchanged(e, replies)
    BY <1>9 DEF TakeMessage, OnlyReplies
  <2>2. said \in ToClient /\ names \in SUBSET Players
    BY <1>2, <1>4, ToNamed DEF SessionState
  <2>3. said.to = e.from /\ said.type = "Message"
    OBVIOUS
  <2> HIDE DEF said, names
  <2>4. \A r \in replies : r = To(e.from, "SUCK") \/ r.type = "Message"
    BY <1>4, <2>1, <2>2, <2>3, LoopRepliesType
  <2>5. \A r \in replies : Answers(r)
    BY <1>2, <1>6, <2>4 DEF Answers, PlainReplies
  <2> QED BY <1>5, <2>1, <2>5
<1>10. CASE TakeRequestSync(s, e)
  <2> DEFINE ack == [to |-> e.from, type |-> "Ack", seqIdx |-> e.seqIdx]
  <2>1. CASE Exchanged(e, {})
    BY <1>5, <2>1
  <2>2. CASE ~Exchanged(e, {})
    <3>1. /\ session[s].m_state = "Running" /\ e.type = "RequestSync"
          /\ IsReliable(e) /\ AcceptsRequest(s, e)
          /\ session' = [session EXCEPT ![s] =
                Indexed(session[s], e.name,
                        AfterRequest(session[s].m_seqStats[e.name], e))]
          /\ Exchanged(e, {ack})
      BY <1>10, <2>2 DEF TakeRequestSync, Takes, Indexed, AfterRequest
    <3>2. session'[s] =
             Indexed(session[s], e.name,
                     AfterRequest(session[s].m_seqStats[e.name], e))
      BY <1>2, <1>4, <3>1
    <3>3. SendsAck(ack)
      BY <1>2, <1>3, <3>1, <3>2 DEF SendsAck
    <3> QED BY <1>5, <3>1, <3>3 DEF Answers
  <2> QED BY <2>1, <2>2
<1>11. CASE BeginQuit(s, e)
  <2>1. Exchanged(e, QuitNotes(s, e)) \/ Exchanged(e, {})
    BY <1>11 DEF BeginQuit
  <2>2. \A r \in QuitNotes(s, e) : r.type = "Quit"
    BY DEF QuitNotes
  <2> QED BY <1>5, <2>1, <2>2 DEF Answers, PlainReplies
<1> QED BY <1>1, <1>3, <1>7, <1>8, <1>9, <1>10, <1>11 DEF TakeDatagram

(***************************************************************************)
(* So is what the two threads send.                                        *)
(***************************************************************************)
LEMMA ThreadAnswers ==
    ASSUME IInv, NEW s \in SessionActors, ServerThreads(s),
           NEW d \in downlink'
    PROVE  Answers(d)
<1> DEFINE x == session[s]
           e == actor[s].datagram
<1>1. /\ x \in SessionState /\ actor[s] \in ActorStates
      /\ Sane(x, actor[s], task[s])
      /\ x.m_stats \subseteq Players /\ x.players \subseteq Players
  BY Before DEF SessionState
<1>2. CASE downlink' = downlink
  BY <1>2 DEF Answers
<1>3. CASE EndQuit(s)
  <2>1. d \in downlink \/ d.type = "Quit"
    BY <1>3 DEF EndQuit, Sent, QuitNotes
  <2> QED BY <2>1 DEF Answers, PlainReplies
<1>4. CASE SendSync(s)
  <2>1. PICK sync \in due[s] :
           downlink' = downlink \cup
             {[to |-> a, type |-> "Sync", request |-> sync.request,
               seqIdx |-> sync.seqIdx] : a \in Addressed(x, x.m_stats)}
    BY <1>4 DEF SendSync, Sent
  <2>2. CASE d \in downlink
    BY <2>2 DEF Answers
  <2>3. CASE d \notin downlink
    <3>1. PICK p \in x.m_stats :
             d = [to |-> x.player[p].address, type |-> "Sync",
                  request |-> sync.request, seqIdx |-> sync.seqIdx]
      BY <2>1, <2>3 DEF Addressed
    <3>2. p \in Players /\ Joined(x, p)
      BY <1>1 DEF Sane
    <3>3. SendsSync(d)
      BY <3>1, <3>2 DEF SendsSync
    <3> QED BY <3>3 DEF Answers
  <2> QED BY <2>2, <2>3
<1>5. CASE EndUpdate(s)
  <2> DEFINE reply == To(e.from, "SessionState")
  <2>1. actor[s].at = "updating"
    BY <1>5 DEF EndUpdate
  <2>2. e \in ToServer
    BY <1>1, <2>1 DEF ActorStates
  <2>3. reply \in ToClient /\ reply.type = "SessionState"
    BY <2>2, ToServerFields, ToType
  <2>4. PICK replies : /\ downlink' = downlink \cup replies
                       /\ \/ replies = {reply}
                          \/ replies \in LoopReplies(session'[s],
                                           session'[s].players, reply)
    <3>1. CASE ~e.forceBroadcast
      BY <1>5, <3>1 DEF EndUpdate, Sent
    <3>2. CASE e.forceBroadcast
      <4> DEFINE shared == IF e.shares /\ x.m_shared < e.timestamp
                           THEN e.timestamp ELSE x.m_shared
                 after == [x EXCEPT
                     !.player[e.name].updateTimestamp = e.timestamp,
                     !.m_stats = @ \cup {e.name},
                     !.m_shared = shared]
      <4>1. /\ session' = [session EXCEPT ![s] = after]
            /\ \E replies \in LoopReplies(after, after.players, reply) :
                  Sent(replies)
        BY <1>5, <3>2 DEF EndUpdate
      <4> HIDE DEF after, reply
      <4>2. session'[s] = after
        BY <4>1, OthersStay
      <4> QED BY <4>1, <4>2 DEF Sent
    <3> QED BY <3>1, <3>2
  <2>5. IInv'
    BY EndUpdateStep, <1>5 DEF ServerThreads
  <2>6. /\ session'[s] \in SessionState
        /\ \A p \in session'[s].m_stats : Joined(session'[s], p)
    BY <2>5 DEF IInv, TypeOK, SessionTypeOK, SessionsSane, Sane
  <2>7. session'[s].players \in SUBSET Players
    BY <2>6 DEF SessionState
  <2> HIDE DEF reply
  <2>8. \A r \in replies : r.type = "SessionState" \/ r.type = "SUCK"
    <3>1. ASSUME NEW r \in replies,
                 replies \in LoopReplies(session'[s],
                                         session'[s].players, reply)
          PROVE  r = To(reply.to, "SUCK") \/ r.type = "SessionState"
      BY <2>3, <2>6, <2>7, <3>1, LoopRepliesType
    <3>2. reply.to \in Addresses
      BY <2>3 DEF ToClient
    <3> QED BY <2>3, <2>4, <3>1, <3>2, ToType
  <2> QED BY <2>4, <2>8 DEF Answers, PlainReplies
<1>6. CASE ~(EndQuit(s) \/ SendSync(s) \/ EndUpdate(s))
  BY <1>2, <1>6
     DEF ServerThreads, SessionActorStep, ActorStep, TaskStep,
         RemoveQuitter, BeginCheck, VisitHeard, VisitSilent, Visit, PassBy,
         Touch, RemoveSilent, CheckLeft, EndCheck
<1> QED BY <1>3, <1>4, <1>5, <1>6

(***************************************************************************)
(* Clients send nothing to clients.                                        *)
(***************************************************************************)
LEMMA ClientAnswers ==
    ASSUME NEW c \in Clients, ClientStep(c)
    PROVE  downlink' \subseteq downlink
  BY DEF ClientStep, Startup, ResendReady, TimeOut, Quit, KeepAlive, Say,
         Broadcast, Sync, ReliableSync, ResendSync, ReadAnswer, Receive,
         Sends, Reads

(***************************************************************************)
(* Whatever is on its way to clients after a step was there before or is   *)
(* an answer.                                                              *)
(***************************************************************************)
LEMMA EveryAnswer ==
    ASSUME IInv, [Next]_vars, NEW d \in downlink'
    PROVE  Answers(d)
<1>1. CASE downlink' \subseteq downlink
  BY <1>1 DEF Answers
<1>2. AskSession \/ CreateSession \/ CloseSession \/ UNCHANGED vars
          => downlink' = downlink
  BY DEF AskSession, CreateSession, TakeCreateSession, CloseSession,
         TakeCloseSession, vars
<1> QED BY <1>1, <1>2, DatagramAnswers, ThreadAnswers, ClientAnswers
        DEF Next

-----------------------------------------------------------------------------
(***************************************************************************)
(* What clients send, and what becomes of them.                            *)
(***************************************************************************)
Mine(c, d) ==
    /\ d.id = session[c[1]].m_id /\ d.name = c[2]
    /\ d.from = [s |-> c[1], name |-> c[2], port |-> client'[c].port]

PairOf(d) == [request |-> d.request, seqIdx |-> d.seqIdx]

(***************************************************************************)
(* A request is new, or it is one that still waits for its Ack.            *)
(***************************************************************************)
Requests(c, d) ==
    \/ Sync(c) /\ PairOf(d) = [request |-> NextRequest(c),
                               seqIdx |-> Unreliable]
    \/ ReliableSync(c) /\ PairOf(d) = [request |-> NextRequest(c),
                                       seqIdx |-> client[c].mLocalSeqIdx]
    \/ ResendSync(c) /\ PairOf(d) \in ToSet(client[c].mOutputQueue)

SentBy(c, d) ==
    /\ client[c].phase # "none"
    /\ Mine(c, d)
    /\ d.type = "RequestSync" => Requests(c, d)

(***************************************************************************)
(* What a client adds to the wire carries its own id, address and name.    *)
(***************************************************************************)
LEMMA ClientSends ==
    ASSUME IInv, NEW c \in Clients, ClientStep(c), NEW d \in uplink'
    PROVE  d \in uplink \/ SentBy(c, d)
<1> DEFINE k == client[c]
<1>1. /\ client \in [Clients -> ClientState] /\ k \in ClientState
  BY DEF IInv, TypeOK
<1>2. ASSUME NEW e, Sends(e), SentBy(c, e)
      PROVE  d \in uplink \/ SentBy(c, d)
  BY <1>2 DEF Sends
<1>3. CASE Startup(c)
  <2> DEFINE port == k.port + 1
             opened == [k EXCEPT !.phase = "ready", !.port = port]
             e == [Datagram0(c, "Ready") EXCEPT !.from.port = port]
  <2>1. Sends(e) /\ client' = [client EXCEPT ![c] = opened]
        /\ k.phase # "none"
    BY <1>3 DEF Startup
  <2>2. client'[c] = opened
    BY <2>1, NewFields
  <2> HIDE DEF port
  <2>3. client'[c].port = port
    BY <1>1, <2>2 DEF ClientState
  <2>4. e.type = "Ready" /\ Mine(c, e)
    BY <2>3 DEF Datagram0, Address, Mine
  <2> QED BY <1>2, <2>1, <2>4 DEF SentBy
<1>4. ASSUME client'[c].port = k.port, NEW type,
             type # "RequestSync", Sends(Datagram0(c, type)),
             k.phase # "none"
      PROVE  d \in uplink \/ SentBy(c, d)
  <2>1. Datagram0(c, type).type = type /\ Mine(c, Datagram0(c, type))
    BY <1>4 DEF Datagram0, Address, Mine
  <2> QED BY <1>2, <1>4, <2>1 DEF SentBy
<1>5. CASE ResendReady(c)
  BY <1>4, <1>5 DEF ResendReady, Starting
<1>6. CASE Quit(c)
  <2>1. client' = [client EXCEPT ![c].phase = "ended"]
        /\ k.phase = "started"
    BY <1>6 DEF Quit
  <2>2. client'[c].port = k.port
    BY <1>1, <2>1 DEF ClientState
  <2> QED BY <1>4, <1>6, <2>1, <2>2 DEF Quit
<1>7. CASE KeepAlive(c) \/ Say(c)
  <2>1. client'[c].port = k.port
    BY <1>7, PlainCallShape DEF Same
  <2> QED BY <1>4, <1>7, <2>1 DEF KeepAlive, Say, MayCall
<1>8. CASE Broadcast(c)
  <2>1. client'[c].port = k.port
    BY <1>8, PlainCallShape DEF Same
  <2>2. PICK forced \in BOOLEAN, shares \in BOOLEAN :
          Sends([type |-> "Update", id |-> session[c[1]].m_id,
                 from |-> Address(c), name |-> c[2],
                 timestamp |-> k.updates + 1,
                 forceBroadcast |-> forced, shares |-> shares])
    BY <1>8 DEF Broadcast
  <2> DEFINE e == [type |-> "Update", id |-> session[c[1]].m_id,
                   from |-> Address(c), name |-> c[2],
                   timestamp |-> k.updates + 1,
                   forceBroadcast |-> forced, shares |-> shares]
  <2>3. e.type = "Update" /\ Mine(c, e) /\ k.phase # "none"
    BY <1>8, <2>1 DEF Mine, Address, Broadcast, MayCall
  <2> QED BY <1>2, <2>2, <2>3 DEF SentBy
<1>9. ASSUME client'[c].port = k.port, NEW request, NEW seqIdx,
             Sends(SyncDatagram(c, request, seqIdx)),
             Requests(c, SyncDatagram(c, request, seqIdx)),
             k.phase # "none"
      PROVE  d \in uplink \/ SentBy(c, d)
  <2>1. Mine(c, SyncDatagram(c, request, seqIdx))
    BY <1>9 DEF SyncDatagram, Address, Mine
  <2> QED BY <1>2, <1>9, <2>1 DEF SentBy
<1>10. \A request, seqIdx :
          PairOf(SyncDatagram(c, request, seqIdx)) =
             [request |-> request, seqIdx |-> seqIdx]
  BY DEF PairOf, SyncDatagram
<1>11. CASE Sync(c)
  <2>1. client'[c].port = k.port
    BY <1>11, SyncShape DEF Same
  <2>2. Sends(SyncDatagram(c, NextRequest(c), Unreliable))
        /\ k.phase # "none"
    BY <1>11 DEF Sync, MayCall
  <2>3. Requests(c, SyncDatagram(c, NextRequest(c), Unreliable))
    BY <1>10, <1>11 DEF Requests
  <2> QED BY <1>9, <2>1, <2>2, <2>3
<1>12. CASE ReliableSync(c)
  <2>1. client'[c].port = k.port
    BY <1>12, ReliableSyncShape DEF Same
  <2>2. Sends(SyncDatagram(c, NextRequest(c), k.mLocalSeqIdx))
        /\ k.phase # "none"
    BY <1>12 DEF ReliableSync, MayCall
  <2>3. Requests(c, SyncDatagram(c, NextRequest(c), k.mLocalSeqIdx))
    BY <1>10, <1>12 DEF Requests
  <2> QED BY <1>9, <2>1, <2>2, <2>3
<1>13. CASE ResendSync(c)
  <2>1. PICK i \in DOMAIN k.mOutputQueue :
          Sends(SyncDatagram(c, k.mOutputQueue[i].request,
                             k.mOutputQueue[i].seqIdx))
    BY <1>13 DEF ResendSync
  <2>2. k.mOutputQueue \in Seq(Outputs)
    BY <1>1 DEF ClientState, Outputs
  <2>3. k.mOutputQueue[i] \in Outputs
    BY <2>2, LenProperties, ElementOfSeq
  <2>4. [request |-> k.mOutputQueue[i].request,
         seqIdx |-> k.mOutputQueue[i].seqIdx] = k.mOutputQueue[i]
    BY <2>3 DEF Outputs
  <2>5. Requests(c, SyncDatagram(c, k.mOutputQueue[i].request,
                                 k.mOutputQueue[i].seqIdx))
    BY <1>10, <1>13, <2>4 DEF Requests, ToSet
  <2>6. client'[c].port = k.port /\ k.phase # "none"
    BY <1>13 DEF ResendSync
  <2> QED BY <1>9, <2>1, <2>5, <2>6
<1>14. CASE uplink' = uplink
  BY <1>14
<1>15. TimeOut(c) => uplink' = uplink
  BY DEF TimeOut
<1>16. (\E e \in downlink : ReadAnswer(c, e) \/ Receive(c, e))
           => uplink' = uplink
  BY DEF ReadAnswer, Receive, Reads
<1> QED BY <1>3, <1>5, <1>6, <1>7, <1>8, <1>11, <1>12, <1>13, <1>14,
           <1>15, <1>16 DEF ClientStep

(***************************************************************************)
(* The other steps add nothing to that wire.                               *)
(***************************************************************************)
LEMMA ServerTakes ==
    ASSUME [Next]_vars, \A c \in Clients : ~ClientStep(c)
    PROVE  uplink' \subseteq uplink
  BY DEF Next, AskSession, CreateSession, TakeCreateSession, CloseSession,
         TakeCloseSession, Datagram, TakeEnvelop, TakeDatagram, TakeReady,
         TakeKeepAlive, TakeUnexpected, BeginUpdate, TakeMessage,
         TakeRequestSync, BeginQuit, OnlyReplies, Exchanged, ServerThreads,
         SessionActorStep, ActorStep, TaskStep, EndUpdate, RemoveQuitter,
         EndQuit, SendSync, BeginCheck, VisitHeard, VisitSilent, Visit,
         PassBy, Touch, RemoveSilent, CheckLeft, EndCheck, vars

(***************************************************************************)
(* receive accepts d.                                                      *)
(***************************************************************************)
Hears(c, d) ==
    /\ d.to = Address(c) /\ Acknowledges(c, d)
    /\ client'[c].mRemoteSeqIdx = d.seqIdx
    /\ client'[c].mLocalSeqIdx = client[c].mLocalSeqIdx
    /\ client'[c].syncs = client[c].syncs
    /\ ToSet(client'[c].mOutputQueue) \subseteq ToSet(client[c].mOutputQueue)
    /\ IF d.type = "Sync"
       THEN heard' = [heard EXCEPT ![c] = Append(@, d.request)]
       ELSE heard' = heard

(***************************************************************************)
(* The indices, the queue and the count of requests, in a step.            *)
(***************************************************************************)
NoIndexMoves(c) ==
    /\ client'[c].mRemoteSeqIdx = client[c].mRemoteSeqIdx
    /\ SameQueue(client[c], client'[c])
    /\ client'[c].syncs = client[c].syncs
    /\ heard' = heard

IndexStep(c) ==
    \/ NoIndexMoves(c)
    \/ Sync(c) /\ heard' = heard
    \/ ReliableSync(c) /\ heard' = heard
    \/ \E d \in downlink : Hears(c, d)

(***************************************************************************)
(* A client keeps its socket until it calls startup, and starts when Start *)
(* comes to its socket.                                                    *)
(***************************************************************************)
PlayStep(c) ==
    /\ client[c].phase # "none" /\ client'[c].phase # "none"
    /\ client'[c].port >= client[c].port
    /\ client'[c].phase = "started" =>
          /\ client'[c].port = client[c].port
          /\ \/ client[c].phase = "started"
             \/ \E d \in downlink : d.type = "Start" /\ d.to = Address(c)

(***************************************************************************)
(* What a step of a client may do to its object.                           *)
(***************************************************************************)
LEMMA ClientFields ==
    ASSUME IInv, NEW c \in Clients, ClientStep(c)
    PROVE  /\ client' = [client EXCEPT ![c] = client'[c]]
           /\ PlayStep(c) /\ IndexStep(c)
<1> DEFINE k == client[c]
<1>1. /\ client \in [Clients -> ClientState] /\ k \in ClientState
      /\ k.port \in Int
  <2>1. client \in [Clients -> ClientState] /\ k \in ClientState
    BY DEF IInv, TypeOK
  <2>2. k.port \in 0..MaxPorts
    BY <2>1 DEF ClientState
  <2>3. k.port \in Int
    BY <2>2
  <2> QED BY <2>1, <2>3
<1>2. ASSUME NEW phase, phase # "none", k.phase # "none", heard' = heard,
             client' = [client EXCEPT ![c].phase = phase],
             phase = "started" =>
                \/ k.phase = "started"
                \/ \E d \in downlink : d.type = "Start" /\ d.to = Address(c)
      PROVE  /\ client' = [client EXCEPT ![c] = client'[c]]
             /\ PlayStep(c) /\ NoIndexMoves(c)
  <2> DEFINE j == [k EXCEPT !.phase = phase]
  <2>1. client'[c] = j /\ client' = [client EXCEPT ![c] = client'[c]]
    BY <1>2, NewFields
  <2> HIDE DEF k
  <2>2. /\ j.phase = phase /\ j.port = k.port
        /\ j.mRemoteSeqIdx = k.mRemoteSeqIdx /\ SameQueue(k, j)
        /\ j.syncs = k.syncs
    BY <1>1 DEF ClientState, SameQueue
  <2> QED BY <1>1, <1>2, <2>1, <2>2 DEF PlayStep, NoIndexMoves, k
<1>3. ASSUME client' = client, heard' = heard, k.phase # "none"
      PROVE  /\ client' = [client EXCEPT ![c] = client'[c]]
             /\ PlayStep(c) /\ NoIndexMoves(c)
  BY <1>1, <1>3 DEF PlayStep, NoIndexMoves, SameQueue
<1>4. CASE Startup(c)
  <2> DEFINE port == k.port + 1
             j == [k EXCEPT !.phase = "ready", !.port = port]
  <2>1. client' = [client EXCEPT ![c] = j] /\ k.phase # "none"
        /\ heard' = heard
    BY <1>4 DEF Startup
  <2>2. client'[c] = j /\ client' = [client EXCEPT ![c] = client'[c]]
    BY <2>1, NewFields
  <2> HIDE DEF k, port
  <2>3. /\ j.phase = "ready" /\ j.port = port
        /\ j.mRemoteSeqIdx = k.mRemoteSeqIdx /\ SameQueue(k, j)
        /\ j.syncs = k.syncs
    BY <1>1 DEF ClientState, SameQueue
  <2>4. port >= k.port
    BY <1>1 DEF port
  <2> QED BY <2>1, <2>2, <2>3, <2>4
          DEF PlayStep, NoIndexMoves, IndexStep, k
<1>5. CASE ResendReady(c) \/ ResendSync(c)
  BY <1>3, <1>5 DEF ResendReady, ResendSync, Starting, IndexStep
<1>6. CASE TimeOut(c) \/ Quit(c)
  BY <1>2, <1>6 DEF TimeOut, Quit, Starting, IndexStep
<1>7. ASSUME KeepAlive(c) \/ Say(c) \/ Broadcast(c) \/ Sync(c)
             \/ ReliableSync(c)
      PROVE  k.phase = "started" /\ heard' = heard
  BY <1>7 DEF KeepAlive, Say, Broadcast, Sync, ReliableSync, MayCall
<1>8. ASSUME Same(k, client'[c]), k.phase = "started" PROVE PlayStep(c)
  BY <1>1, <1>8 DEF Same, PlayStep
<1>9. CASE KeepAlive(c) \/ Say(c) \/ Broadcast(c)
  BY <1>7, <1>8, <1>9, PlainCallShape DEF Same, NoIndexMoves, IndexStep
<1>10. CASE Sync(c)
  BY <1>7, <1>8, <1>10, SyncShape DEF IndexStep
<1>11. CASE ReliableSync(c)
  BY <1>7, <1>8, <1>11, ReliableSyncShape DEF IndexStep
<1>12. ASSUME NEW d \in downlink, ReadAnswer(c, d)
       PROVE  /\ client' = [client EXCEPT ![c] = client'[c]]
              /\ PlayStep(c) /\ IndexStep(c)
  <2> DEFINE phase == AfterAnswer(k.phase, d.type)
  <2>1. /\ client' = [client EXCEPT ![c].phase = phase]
        /\ k.phase \in {"ready", "granted"} /\ heard' = heard
        /\ d.to = Address(c)
    BY <1>12 DEF ReadAnswer, Starting
  <2>2. phase # "none" /\ (phase = "started" => d.type = "Start")
    BY <2>1 DEF AfterAnswer
  <2> HIDE DEF phase
  <2> QED BY <1>2, <2>1, <2>2 DEF IndexStep
<1>13. ASSUME NEW d \in downlink, Receive(c, d)
       PROVE  /\ client' = [client EXCEPT ![c] = client'[c]]
              /\ PlayStep(c) /\ IndexStep(c)
  <2>1. k.phase = "started" /\ d.to = Address(c) /\ d \in ToClient
    BY <1>13 DEF Receive, IInv, TypeOK, SessionTypeOK
  <2>2. CASE /\ ~Acknowledges(c, d)
    <3>1. heard' = heard
      BY <1>13, <2>2 DEF Receive, OnSync
    <3> QED BY <1>2, <1>3, <1>13, <2>1, <2>2, <3>1 DEF Receive, IndexStep
  <2>3. CASE /\ Acknowledges(c, d) /\ d.type = "Quit"
    BY <2>3 DEF Acknowledges, IsAckOrSync
  <2>4. CASE /\ Acknowledges(c, d) /\ d.type # "Quit"
    <3> DEFINE after == Acknowledged(c, d.seqIdx)
               queue == after.mOutputQueue
    <3>1. client' = [client EXCEPT ![c] = after]
      BY <1>13, <2>4 DEF Receive
    <3>2. d.seqIdx \in Indices
      BY <2>1, <2>4, AcknowledgesType
    <3>3. /\ after = [k EXCEPT !.mRemoteSeqIdx = d.seqIdx,
                               !.mOutputQueue = queue]
          /\ ToSet(queue) \subseteq ToSet(k.mOutputQueue)
      BY <1>1, <3>2, AcknowledgedType
    <3>4. client'[c] = after /\ client' = [client EXCEPT ![c] = client'[c]]
      BY <3>1, NewFields
    <3> HIDE DEF after, queue, k
    <3>5. /\ after.phase = k.phase /\ after.port = k.port
          /\ after.mRemoteSeqIdx = d.seqIdx /\ after.syncs = k.syncs
          /\ after.mLocalSeqIdx = k.mLocalSeqIdx
          /\ after.mOutputQueue = queue
      BY <1>1, <3>3 DEF ClientState
    <3>6. IF d.type = "Sync"
          THEN heard' = [heard EXCEPT ![c] = Append(@, d.request)]
          ELSE heard' = heard
      BY <1>13, <2>4 DEF Receive, OnSync
    <3>7. Hears(c, d)
      BY <2>1, <2>4, <3>3, <3>4, <3>5, <3>6 DEF Hears, k
    <3>8. PlayStep(c)
      BY <1>1, <2>1, <3>4, <3>5 DEF PlayStep, k
    <3> QED BY <3>4, <3>7, <3>8 DEF IndexStep
  <2> QED BY <2>2, <2>3, <2>4
<1> QED BY <1>4, <1>5, <1>6, <1>9, <1>10, <1>11, <1>12, <1>13
        DEF ClientStep

-----------------------------------------------------------------------------
(***************************************************************************)
(* Addresses.                                                              *)
(***************************************************************************)
(***************************************************************************)
(* A client's phase and socket in any step of the system.                  *)
(***************************************************************************)
LEMMA ClientsPlay ==
    ASSUME IInv, [Next]_vars, NEW c \in Clients
    PROVE  /\ client'[c].port >= client[c].port
           /\ client'[c].phase = "started" =>
                 /\ client'[c].port = client[c].port
                 /\ \/ client[c].phase = "started"
                    \/ \E d \in downlink :
                          d.type = "Start" /\ d.to = Address(c)
<1>1. /\ client \in [Clients -> ClientState] /\ client[c] \in ClientState
      /\ client[c].port \in Int
  <2>1. client \in [Clients -> ClientState] /\ client[c] \in ClientState
    BY DEF IInv, TypeOK
  <2>2. client[c].port \in 0..MaxPorts
    BY <2>1 DEF ClientState
  <2> QED BY <2>1, <2>2
<1>2. CASE client'[c] = client[c]
  BY <1>1, <1>2
<1>3. CASE CreateSession
  <2>1. CASE c[1] \in Unborns /\ c[2] \in session'[c[1]].players
    <3>1. client'[c] = NewClient("created")
      BY <1>3, <2>1 DEF CreateSession
    <3>2. session[c[1]].m_state = "unborn"
      BY <2>1 DEF Unborns
    <3>3. client[c] = NewClient("none")
      BY <3>2 DEF IInv, ClientsSane, ClientSane
    <3> QED BY <3>1, <3>3 DEF NewClient
  <2>2. CASE ~(c[1] \in Unborns /\ c[2] \in session'[c[1]].players)
    BY <1>2, <1>3, <2>2 DEF CreateSession
  <2> QED BY <2>1, <2>2
<1>4. ASSUME NEW u \in Clients, ClientStep(u), client'[c] # client[c]
      PROVE  u = c
  BY <1>1, <1>4, ClientFields
<1>5. ASSUME ClientStep(c)
      PROVE  PlayStep(c)
  BY <1>5, ClientFields
<1>6. AskSession \/ CloseSession \/ Datagram \/ UNCHANGED vars
         \/ (\E s \in SessionActors : ServerThreads(s))
           => client'[c] = client[c]
  BY DEF AskSession, CloseSession, Datagram, ServerThreads, vars
<1> QED BY <1>2, <1>3, <1>4, <1>5, <1>6 DEF Next, PlayStep

(***************************************************************************)
(* a is an address that a client of a session has had.                     *)
(***************************************************************************)
Socket(sessions, clients, a) ==
    /\ sessions[a.s].m_state # "unborn"
    /\ a.port <= clients[<<a.s, a.name>>].port

(***************************************************************************)
(* Some session of that id has begun, and has a for its player's address.  *)
(***************************************************************************)
Serves(sessions, a) ==
    \E t \in SessionActors :
        /\ sessions[a.s].m_id = sessions[t].m_id
        /\ Begun(sessions[t]) /\ Joined(sessions[t], a.name)
        /\ sessions[t].player[a.name].address = a

(***************************************************************************)
(* A datagram bears the id of its sender's session, and comes from one of  *)
(* its sockets.                                                            *)
(***************************************************************************)
UplinkFits ==
    \A d \in uplink :
        /\ Socket(session, client, d.from) /\ d.from.name = d.name
        /\ session[d.from.s].m_id = d.id

(***************************************************************************)
(* The address of a player was a socket of that player, for this session   *)
(* or another one of its id.                                               *)
(***************************************************************************)
PlayersFit ==
    \A s \in SessionActors, p \in Players : Joined(session[s], p) =>
        /\ Socket(session, client, session[s].player[p].address)
        /\ session[s].player[p].address.name = p
        /\ session[session[s].player[p].address.s].m_id = session[s].m_id

(***************************************************************************)
(* Start on its way, and a client that has started, tell of a session that *)
(* has begun and will go on sending to that address.                       *)
(***************************************************************************)
StartsFit ==
    \A d \in downlink : d.type = "Start" => Serves(session, d.to)

ClientsFit ==
    \A c \in Clients :
        client[c].phase = "started" => Serves(session, Address(c))

PlayInv == UplinkFits /\ PlayersFit /\ StartsFit /\ ClientsFit

(***************************************************************************)
(* A socket that a client has opened stays one of this client.             *)
(***************************************************************************)
LEMMA SocketStays ==
    ASSUME IInv, [Next]_vars, NEW a \in Addresses,
           Socket(session, client, a)
    PROVE  /\ Socket(session', client', a)
           /\ session'[a.s].m_id = session[a.s].m_id
<1>1. a.s \in SessionActors /\ <<a.s, a.name>> \in Clients
      /\ a.port \in Int
  BY DEF Addresses, Clients
<1>2. Continues(session[a.s], session'[a.s])
  BY <1>1, SessionContinues DEF Socket, Born
<1>3. client'[<<a.s, a.name>>].port >= client[<<a.s, a.name>>].port
  BY <1>1, ClientsPlay
<1>4. /\ client[<<a.s, a.name>>].port \in Int
      /\ client'[<<a.s, a.name>>].port \in Int
  <2>1. /\ client[<<a.s, a.name>>].port \in 0..MaxPorts
        /\ client'[<<a.s, a.name>>].port \in 0..MaxPorts
    <3>1. client'[<<a.s, a.name>>] \in ClientState
      BY <1>1, NextInvariant DEF IInv, TypeOK
    <3>2. client[<<a.s, a.name>>] \in ClientState
      BY <1>1 DEF IInv, TypeOK
    <3> QED BY <3>1, <3>2 DEF ClientState
  <2> QED BY <2>1
<1> QED BY <1>1, <1>2, <1>3, <1>4 DEF Socket, Continues

(***************************************************************************)
(* An address that a session serves is served after every step.            *)
(***************************************************************************)
LEMMA ServesStays ==
    ASSUME IInv, PlayersFit, [Next]_vars, NEW a \in Addresses,
           Serves(session, a)
    PROVE  Serves(session', a)
<1>1. PICK t \in SessionActors :
        /\ session[a.s].m_id = session[t].m_id
        /\ Begun(session[t]) /\ Joined(session[t], a.name)
        /\ session[t].player[a.name].address = a
  BY DEF Serves
<1>2. a.s \in SessionActors /\ a.name \in Players
  BY DEF Addresses
<1>3. Socket(session, client, a)
  BY <1>1, <1>2 DEF PlayersFit
<1>4. session'[a.s].m_id = session[a.s].m_id
  BY <1>3, SocketStays
<1>5. Continues(session[t], session'[t])
  BY <1>1, SessionContinues DEF Begun, Born
<1> QED BY <1>1, <1>2, <1>4, <1>5 DEF Serves, Continues

(***************************************************************************)
(* Every step keeps UplinkFits.                                            *)
(***************************************************************************)
LEMMA UplinkFitsStep ==
    ASSUME IInv, UplinkFits, [Next]_vars
    PROVE  UplinkFits'
<1> SUFFICES ASSUME NEW d \in uplink'
             PROVE  /\ Socket(session', client', d.from)
                    /\ d.from.name = d.name
                    /\ session'[d.from.s].m_id = d.id
  BY DEF UplinkFits
<1>1. CASE d \in uplink
  <2>1. d.from \in Addresses
    BY <1>1, ToServerFields DEF IInv, TypeOK, SessionTypeOK
  <2> QED BY <1>1, <2>1, SocketStays DEF UplinkFits
<1>2. CASE d \notin uplink
  <2>1. PICK c \in Clients : ClientStep(c)
    BY <1>2, ServerTakes
  <2>2. SentBy(c, d)
    BY <1>2, <2>1, ClientSends
  <2>3. /\ d.id = session[c[1]].m_id /\ d.name = c[2]
        /\ d.from = [s |-> c[1], name |-> c[2], port |-> client'[c].port]
        /\ client[c].phase # "none"
    BY <2>2 DEF SentBy, Mine
  <2>4. c = <<c[1], c[2]>> /\ session[c[1]].m_state # "unborn"
    BY <2>3, ClientBefore DEF Clients
  <2>5. session' = session
    BY <2>1, ClientsOnly DEF serverVars
  <2>6. client'[c].port <= client'[c].port
    <3>1. client'[c] \in ClientState
      BY NextInvariant DEF IInv, TypeOK
    <3>2. client'[c].port \in 0..MaxPorts
      BY <3>1 DEF ClientState
    <3> QED BY <3>2
  <2> QED BY <2>3, <2>4, <2>5, <2>6 DEF Socket
<1> QED BY <1>1, <1>2

(***************************************************************************)
(* Every step keeps PlayersFit.                                            *)
(***************************************************************************)
LEMMA PlayersFitStep ==
    ASSUME IInv, UplinkFits, PlayersFit, [Next]_vars
    PROVE  PlayersFit'
<1> SUFFICES ASSUME NEW s \in SessionActors, NEW p \in Players,
                    Joined(session'[s], p)
             PROVE  /\ Socket(session', client',
                              session'[s].player[p].address)
                    /\ session'[s].player[p].address.name = p
                    /\ session'[session'[s].player[p].address.s].m_id
                          = session'[s].m_id
  BY DEF PlayersFit
<1> DEFINE a == session'[s].player[p].address
<1>1. \/ Joined(session[s], p) /\ a = session[s].player[p].address
      \/ \E d \in uplink :
            m_sessions[d.id] = s /\ d.name = p /\ a = d.from
  BY SessionContinues DEF AddressesFrom
<1>2. Born(s)
  <2>1. CASE Joined(session[s], p)
    <3>1. session[s] # Unborn
      BY <2>1 DEF Joined, Unborn
    <3> QED BY <3>1, Before DEF Sane, Born
  <2>2. CASE \E d \in uplink : m_sessions[d.id] = s
    <3>1. s # Null
      BY NullAssumption
    <3> QED BY <2>2, <3>1, ToServerFields
            DEF IInv, TypeOK, SessionTypeOK, TableSane, Born
  <2> QED BY <1>1, <2>1, <2>2
<1>3. session'[s].m_id = session[s].m_id
  BY <1>2, SessionContinues DEF Continues
<1> HIDE DEF a
<1>4. /\ a \in Addresses /\ a.name = p /\ Socket(session, client, a)
      /\ session[a.s].m_id = session[s].m_id
  <2>1. CASE Joined(session[s], p) /\ a = session[s].player[p].address
    <3>1. session[s] \in SessionState
      BY Before
    <3> QED BY <2>1, <3>1, JoinedType DEF PlayersFit
  <2>2. ASSUME NEW d \in uplink, m_sessions[d.id] = s, d.name = p,
               a = d.from
        PROVE  /\ a \in Addresses /\ a.name = p
               /\ Socket(session, client, a)
               /\ session[a.s].m_id = session[s].m_id
    <3>1. a \in Addresses /\ d.id \in Ids /\ s # Null
      BY <2>2, ToServerFields, NullAssumption
         DEF IInv, TypeOK, SessionTypeOK
    <3>2. session[s].m_id = d.id
      BY <2>2, <3>1 DEF IInv, TableSane
    <3> QED BY <2>2, <3>1, <3>2 DEF UplinkFits
  <2> QED BY <1>1, <2>1, <2>2
<1>5. Socket(session', client', a) /\ session'[a.s].m_id = session[a.s].m_id
  BY <1>4, SocketStays
<1> QED BY <1>3, <1>4, <1>5 DEF a

(***************************************************************************)
(* Every step keeps StartsFit.                                             *)
(***************************************************************************)
LEMMA StartsFitStep ==
    ASSUME IInv, UplinkFits, PlayersFit, StartsFit, [Next]_vars
    PROVE  StartsFit'
<1> SUFFICES ASSUME NEW d \in downlink', d.type = "Start"
             PROVE  Serves(session', d.to)
  BY DEF StartsFit
<1>1. d \in downlink \/ SendsStart(d)
  BY EveryAnswer DEF Answers, PlainReplies, SendsAck, SendsSync
<1>2. CASE d \in downlink
  <2>1. d.to \in Addresses
    BY <1>2 DEF IInv, TypeOK, SessionTypeOK, ToClient
  <2> QED BY <1>2, <2>1, ServesStays DEF StartsFit
<1>3. CASE SendsStart(d)
  <2>1. PICK s \in SessionActors, p \in Players :
           /\ Begun(session'[s]) /\ Joined(session'[s], p)
           /\ d.to = session'[s].player[p].address
    BY <1>3 DEF SendsStart
  <2>2. /\ d.to.name = p
        /\ session'[d.to.s].m_id = session'[s].m_id
    BY <2>1, PlayersFitStep DEF PlayersFit
  <2> QED BY <2>1, <2>2 DEF Serves
<1> QED BY <1>1, <1>2, <1>3

(***************************************************************************)
(* Every step keeps ClientsFit.                                            *)
(***************************************************************************)
LEMMA ClientsFitStep ==
    ASSUME IInv, PlayersFit, StartsFit, ClientsFit, [Next]_vars
    PROVE  ClientsFit'
<1> SUFFICES ASSUME NEW c \in Clients, client'[c].phase = "started"
             PROVE  Serves(session', [s |-> c[1], name |-> c[2],
                                      port |-> client'[c].port])
  BY DEF ClientsFit, Address
<1>1. client'[c].port = client[c].port
  BY ClientsPlay
<1>2. client[c].phase = "started"
         \/ \E d \in downlink : d.type = "Start" /\ d.to = Address(c)
  BY ClientsPlay
<1>3. Serves(session, Address(c)) /\ Address(c) \in Addresses
  <2>1. CASE client[c].phase = "started"
    BY <2>1, ClientBefore DEF ClientsFit
  <2>2. CASE \E d \in downlink : d.type = "Start" /\ d.to = Address(c)
    BY <2>2 DEF StartsFit, IInv, TypeOK, SessionTypeOK, ToClient
  <2> QED BY <1>2, <2>1, <2>2
<1>4. Serves(session', [s |-> c[1], name |-> c[2], port |-> client[c].port])
  BY <1>3, ServesStays DEF Address
<1> QED BY <1>1, <1>4

(***************************************************************************)
(* PlayInv is an invariant.                                                *)
(***************************************************************************)
LEMMA PlayInvariant == Spec => []PlayInv
<1>1. Init => PlayInv
  BY DEF Init, SessionInit, Unborn, NewClient, PlayInv, UplinkFits,
         PlayersFit, StartsFit, ClientsFit, Joined
<1>2. IInv /\ PlayInv /\ [Next]_vars => PlayInv'
  BY UplinkFitsStep, PlayersFitStep, StartsFitStep, ClientsFitStep
     DEF PlayInv
<1> QED BY <1>1, <1>2, SessionInvariant, PTL DEF Spec

(***************************************************************************)
(* For any number of players and sessions, whatever the network loses,     *)
(* repeats or delays: the session of a client that has started has begun,  *)
(* and sends to the socket that the client listens to.                     *)
(***************************************************************************)
THEOREM ServedTheorem == Spec => []StartedIsServed
<1>1. IInv /\ PlayInv => StartedIsServed
  <2> SUFFICES ASSUME IInv, PlayInv, NEW c \in Clients,
                      client[c].phase = "started", FirstOwner(c[1])
               PROVE  /\ session[c[1]].m_state \in {"Running", "stopped"}
                      /\ session[c[1]].player[c[2]].address = Address(c)
    BY DEF StartedIsServed
  <2>1. PICK t \in SessionActors :
          /\ session[c[1]].m_id = session[t].m_id
          /\ Begun(session[t])
          /\ session[t].player[c[2]].address = Address(c)
    BY DEF PlayInv, ClientsFit, Serves, Address
  <2>2. t = c[1]
    BY <2>1 DEF FirstOwner
  <2> QED BY <2>1, <2>2 DEF Begun
<1> QED BY <1>1, SessionInvariant, PlayInvariant, PTL

(***************************************************************************)
(* When a client has started, every player of its session has called       *)
(* startup: no Ready of another session, none that came twice and none     *)
(* from an older socket stands for a player who is not there.              *)
(***************************************************************************)
THEOREM TogetherTheorem == Spec => []StartedTogether
<1>1. IInv /\ PlayInv => StartedTogether
  <2> SUFFICES ASSUME IInv, PlayInv, NEW c \in Clients,
                      client[c].phase = "started", FirstOwner(c[1]),
                      NEW p \in session[c[1]].players
               PROVE  client[<<c[1], p>>].port > 0
    BY DEF StartedTogether
  <2> DEFINE s == c[1]
             a == session[s].player[p].address
  <2>1. PICK t \in SessionActors :
          session[s].m_id = session[t].m_id /\ Begun(session[t])
    BY DEF PlayInv, ClientsFit, Serves, Address
  <2>2. t = s /\ s \in SessionActors
    BY <2>1 DEF FirstOwner, Clients
  <2>3. session[s] \in SessionState /\ Joined(session[s], p)
    BY <2>1, <2>2, Before DEF Sane
  <2>4. p \in Players
    BY <2>3 DEF SessionState
  <2>5. /\ a \in Addresses /\ Socket(session, client, a) /\ a.name = p
        /\ session[a.s].m_id = session[s].m_id
    BY <2>2, <2>3, <2>4, JoinedType DEF PlayInv, PlayersFit
  <2>6. a.s \in SessionActors /\ a.port \in 1..MaxPorts
    BY <2>5 DEF Addresses
  <2>7. a.s = s
    BY <2>5, <2>6 DEF FirstOwner
  <2>8. a.port <= client[<<s, p>>].port
    BY <2>5, <2>7 DEF Socket
  <2>9. client[<<s, p>>].port \in 0..MaxPorts
    <3>1. client[<<s, p>>] \in ClientState
      BY <2>2, <2>4 DEF IInv, TypeOK, Clients
    <3> QED BY <3>1 DEF ClientState
  <2> QED BY <2>6, <2>8, <2>9
<1> QED BY <1>1, SessionInvariant, PlayInvariant, PTL

-----------------------------------------------------------------------------
(***************************************************************************)
(* Requests for synchronization.                                           *)
(***************************************************************************)
(***************************************************************************)
(* The requests that client c has on their way, with their indices.        *)
(***************************************************************************)
RequestsOf(c) ==
    {d \in uplink :
        d.type = "RequestSync" /\ d.from.s = c[1] /\ d.name = c[2]}

Pairs(c) ==
    {PairOf(d) : d \in RequestsOf(c)} \cup ToSet(client[c].mOutputQueue)

(***************************************************************************)
(* The requests that session s has carried out, or is about to.            *)
(***************************************************************************)
SyncsTo(s) == {d \in downlink : d.type = "Sync" /\ d.to.s = s}

Synced(s) == due[s] \cup {PairOf(d) : d \in SyncsTo(s)}

(***************************************************************************)
(* Requests of a client, in its queue and on the wire, are well typed.     *)
(***************************************************************************)
LEMMA PairsType ==
    ASSUME IInv, NEW c \in Clients, NEW x \in Pairs(c)
    PROVE  x.request \in SyncRequests /\ x.seqIdx \in SeqIdxs
<1>1. CASE x \in ToSet(client[c].mOutputQueue)
  <2>1. client[c].mOutputQueue \in Seq(Outputs)
    BY DEF IInv, TypeOK, ClientState, Outputs
  <2>2. x \in Outputs
    BY <1>1, <2>1, LenProperties, ElementOfSeq DEF ToSet
  <2> QED BY <2>2 DEF Outputs, SeqIdxs
<1>2. CASE \E d \in RequestsOf(c) : x = PairOf(d)
  BY <1>2, ToServerFields
     DEF RequestsOf, PairOf, IInv, TypeOK, SessionTypeOK
<1> QED BY <1>1, <1>2 DEF Pairs

(***************************************************************************)
(* So are the Syncs of a session.                                          *)
(***************************************************************************)
LEMMA SyncedType ==
    ASSUME IInv, NEW s \in SessionActors, NEW x \in Synced(s)
    PROVE  x.request \in SyncRequests /\ x.seqIdx \in SeqIdxs
<1>1. CASE x \in due[s]
  BY <1>1 DEF IInv, TypeOK, SessionTypeOK
<1>2. CASE \E d \in SyncsTo(s) : x = PairOf(d)
  <2>1. PICK d \in SyncsTo(s) : x = PairOf(d)
    BY <1>2
  <2>2. d \in ToClient /\ d.type = "Sync"
    BY DEF SyncsTo, IInv, TypeOK, SessionTypeOK
  <2>3. d.request \in SyncRequests /\ d.seqIdx \in SeqIdxs
    BY <2>2 DEF ToClient
  <2> QED BY <2>1, <2>3 DEF PairOf
<1> QED BY <1>1, <1>2 DEF Synced

(***************************************************************************)
(* The numbers of a client's state.                                        *)
(***************************************************************************)
LEMMA ClientNumbers ==
    ASSUME IInv, NEW c \in Clients
    PROVE  /\ client[c].mLocalSeqIdx \in Indices
           /\ client[c].mRemoteSeqIdx \in Indices
           /\ client[c].syncs \in 0..MaxCalls
  BY DEF IInv, TypeOK, ClientState

(***************************************************************************)
(* A client's indices in any step of the system.                           *)
(***************************************************************************)
SameIndices(c) ==
    /\ client'[c].mRemoteSeqIdx = client[c].mRemoteSeqIdx
    /\ SameQueue(client[c], client'[c])
    /\ client'[c].syncs = client[c].syncs
    /\ heard'[c] = heard[c]

(***************************************************************************)
(* What a step may do to the indices of a client.                          *)
(***************************************************************************)
LEMMA ClientsIndex ==
    ASSUME IInv, [Next]_vars, NEW c \in Clients
    PROVE  \/ SameIndices(c)
           \/ Sync(c) /\ heard'[c] = heard[c]
           \/ ReliableSync(c) /\ heard'[c] = heard[c]
           \/ \E d \in downlink : ClientStep(c) /\ Hears(c, d)
<1>1. client \in [Clients -> ClientState]
  BY DEF IInv, TypeOK
<1>2. CASE client'[c] = client[c] /\ heard'[c] = heard[c]
  BY <1>2 DEF SameIndices, SameQueue
<1>3. CASE CreateSession
  <2>1. CASE c[1] \in Unborns /\ c[2] \in session'[c[1]].players
    <3>1. client'[c] = NewClient("created") /\ heard' = heard
      BY <1>3, <2>1 DEF CreateSession
    <3>2. session[c[1]].m_state = "unborn"
      BY <2>1 DEF Unborns
    <3>3. client[c] = NewClient("none")
      BY <3>2 DEF IInv, ClientsSane, ClientSane
    <3> QED BY <3>1, <3>3 DEF NewClient, SameIndices, SameQueue
  <2>2. CASE ~(c[1] \in Unborns /\ c[2] \in session'[c[1]].players)
    BY <1>2, <1>3, <2>2 DEF CreateSession
  <2> QED BY <2>1, <2>2
<1>4. ASSUME NEW u \in Clients, ClientStep(u), u # c
      PROVE  client'[c] = client[c] /\ heard'[c] = heard[c]
  <2>1. client'[c] = client[c]
    BY <1>1, <1>4, ClientFields
  <2>2. IndexStep(u)
    BY <1>4, ClientFields
  <2>3. CASE \E d \in downlink : Hears(u, d)
    <3>1. PICK d \in downlink :
             \/ heard' = [heard EXCEPT ![u] = Append(@, d.request)]
             \/ heard' = heard
      BY <2>3 DEF Hears
    <3>2. heard \in [Clients -> Seq(SyncRequests)]
      BY DEF IInv, TypeOK
    <3>3. heard'[c] = heard[c]
      BY <1>4, <3>1, <3>2
    <3> QED BY <2>1, <3>3
  <2> QED BY <2>1, <2>2, <2>3 DEF IndexStep, NoIndexMoves
<1>5. ASSUME ClientStep(c)
      PROVE  IndexStep(c)
  BY <1>5, ClientFields
<1>6. AskSession \/ CloseSession \/ Datagram \/ UNCHANGED vars
         \/ (\E s \in SessionActors : ServerThreads(s))
           => client'[c] = client[c] /\ heard'[c] = heard[c]
  BY DEF AskSession, CloseSession, Datagram, ServerThreads, vars
<1> QED BY <1>2, <1>3, <1>4, <1>5, <1>6
        DEF Next, IndexStep, NoIndexMoves, SameIndices

(***************************************************************************)
(* A pair of request and index that is new was made by sync in this step.  *)
(***************************************************************************)
LEMMA PairsStep ==
    ASSUME IInv, [Next]_vars, NEW c \in Clients, NEW y \in Pairs(c)'
    PROVE  \/ y \in Pairs(c)
           \/ Sync(c) /\ y = [request |-> NextRequest(c),
                              seqIdx |-> Unreliable]
           \/ ReliableSync(c) /\ y = [request |-> NextRequest(c),
                                      seqIdx |-> client[c].mLocalSeqIdx]
<1>1. CASE y \in ToSet(client'[c].mOutputQueue)
  <2>1. CASE SameIndices(c)
    BY <1>1, <2>1 DEF SameIndices, SameQueue, Pairs
  <2>2. CASE Sync(c)
    BY <1>1, <2>2, SyncShape DEF SameQueue, Pairs
  <2>3. CASE ReliableSync(c)
    <3> DEFINE x == [request |-> NextRequest(c),
                     seqIdx |-> client[c].mLocalSeqIdx]
               queue == client[c].mOutputQueue
    <3>1. queue \in Seq(Outputs)
      BY DEF IInv, TypeOK, ClientState, Outputs
    <3>2. x \in Outputs
      <4>1. NextRequest(c) \in SyncRequests
        BY <2>3, NextRequestType DEF ReliableSync, MayCall
      <4> QED BY <4>1, ClientNumbers DEF Outputs
    <3>3. client'[c].mOutputQueue = Append(queue, x)
      BY <2>3, ReliableSyncShape
    <3> HIDE DEF x, queue
    <3>4. y \in ToSet(queue) \cup {x}
      BY <1>1, <3>1, <3>2, <3>3, AppendSet
    <3> QED BY <2>3, <3>4 DEF Pairs, x, queue
  <2>4. CASE \E d \in downlink : Hears(c, d)
    BY <1>1, <2>4 DEF Hears, Pairs
  <2> QED BY <2>1, <2>2, <2>3, <2>4, ClientsIndex
<1>2. CASE y \notin ToSet(client'[c].mOutputQueue)
  <2>1. PICK d \in uplink' :
           /\ d.type = "RequestSync" /\ d.from.s = c[1] /\ d.name = c[2]
           /\ y = PairOf(d)
    BY <1>2 DEF Pairs, RequestsOf
  <2>2. CASE d \in uplink
    BY <2>1, <2>2 DEF Pairs, RequestsOf
  <2>3. CASE d \notin uplink
    <3>1. PICK u \in Clients : ClientStep(u)
      BY <2>3, ServerTakes
    <3>2. SentBy(u, d)
      BY <2>3, <3>1, ClientSends
    <3>3. u = c
      <4>1. u[1] = c[1] /\ u[2] = c[2]
        BY <2>1, <3>2 DEF SentBy, Mine
      <4>2. u = <<u[1], u[2]>> /\ c = <<c[1], c[2]>>
        BY DEF Clients
      <4> QED BY <4>1, <4>2
    <3> QED BY <2>1, <3>2, <3>3 DEF SentBy, Requests, Pairs
  <2> QED BY <2>2, <2>3
<1> QED BY <1>1, <1>2

-----------------------------------------------------------------------------
(***************************************************************************)
(* As long as a player makes few requests, indices do not come around.     *)
(***************************************************************************)
FewCalls ==
    /\ MaxCalls + ACK_HISTORY_SIZE < IDX_WRAP_MODULE
    /\ MaxCalls + MESSSAGES_BUFFER_SIZE < IDX_WRAP_MODULE

(***************************************************************************)
(* Before the indices wrap, the index that is accepted is a later one.     *)
(***************************************************************************)
LEMMA AcceptsLater ==
    ASSUME NEW window \in Nat, NEW last \in Indices, NEW idx \in Indices,
           last <= MaxCalls, MaxCalls + window < IDX_WRAP_MODULE,
           Accepts(window, last, idx)
    PROVE  idx > last
  BY IndexAssumption, CallsAssumption DEF Accepts, Indices

(***************************************************************************)
(* A client numbers its requests one by one, and gives each reliable one   *)
(* an index of its own.                                                    *)
(***************************************************************************)
Numbered(c) ==
    /\ client[c].mLocalSeqIdx \in 1..(client[c].syncs + 1)
    /\ \A x \in Pairs(c) :
          /\ x.request.name = c[2]
          /\ x.request.number <= client[c].syncs
          /\ IsReliable(x) => x.seqIdx \in 1..(client[c].mLocalSeqIdx - 1)
    /\ \A x, y \in Pairs(c) : x.request = y.request => x = y

AllNumbered == \A c \in Clients : Numbered(c)

(***************************************************************************)
(* The counters in a step.                                                 *)
(***************************************************************************)
LEMMA CountersGrow ==
    ASSUME IInv, FewCalls, NEW c \in Clients, Numbered(c), [Next]_vars
    PROVE  /\ client'[c].syncs >= client[c].syncs
           /\ client'[c].mLocalSeqIdx >= client[c].mLocalSeqIdx
           /\ client'[c].mLocalSeqIdx \in 1..(client'[c].syncs + 1)
           /\ Sync(c) => client'[c].syncs = client[c].syncs + 1
           /\ ReliableSync(c) =>
                 /\ client'[c].syncs = client[c].syncs + 1
                 /\ client'[c].mLocalSeqIdx = client[c].mLocalSeqIdx + 1
<1> DEFINE n == client[c].syncs
           i == client[c].mLocalSeqIdx
<1>1. n \in 0..MaxCalls /\ i \in 1..(n + 1) /\ i \in Indices
  BY ClientNumbers DEF Numbered
<1>2. ASSUME client'[c].syncs = n, client'[c].mLocalSeqIdx = i
      PROVE  /\ client'[c].syncs >= n /\ client'[c].mLocalSeqIdx >= i
             /\ client'[c].mLocalSeqIdx \in 1..(client'[c].syncs + 1)
  BY <1>1, <1>2
<1>3. ASSUME Sync(c)
      PROVE  client'[c].syncs = n + 1 /\ client'[c].mLocalSeqIdx = i
  BY <1>3, SyncShape DEF SameQueue
<1>4. ASSUME ReliableSync(c)
      PROVE  client'[c].syncs = n + 1 /\ client'[c].mLocalSeqIdx = i + 1
  <2>1. client'[c].syncs = n + 1 /\ client'[c].mLocalSeqIdx = NextIdx(i)
    BY <1>4, ReliableSyncShape
  <2>2. n + 1 <= MaxCalls
    <3>1. client[c].phase = "started" /\ client[c].calls > 0
      BY <1>4 DEF ReliableSync, MayCall
    <3>2. NextRequest(c) \in SyncRequests
      BY <3>1, NextRequestType
    <3>3. n + 1 \in 1..MaxCalls
      BY <3>2 DEF NextRequest, SyncRequests
    <3> QED BY <1>1, <3>3, CallsAssumption
  <2>3. i < IDX_WRAP_MODULE - 1
    BY <1>1, <2>2, IndexAssumption, CallsAssumption DEF FewCalls
  <2> QED BY <2>1, <2>3 DEF NextIdx
<1>5. CASE SameIndices(c) \/ \E d \in downlink : Hears(c, d)
  <2>1. client'[c].syncs = n /\ client'[c].mLocalSeqIdx = i
    BY <1>5 DEF SameIndices, SameQueue, Hears
  <2> HIDE DEF n, i
  <2>2. ~Sync(c) /\ ~ReliableSync(c)
    BY <1>1, <1>3, <1>4, <2>1
  <2> QED BY <1>2, <2>1, <2>2 DEF n, i
<1>6. CASE Sync(c)
  <2>1. ~ReliableSync(c)
    BY <1>1, <1>3, <1>4, <1>6
  <2> QED BY <1>1, <1>3, <1>6, <2>1
<1>7. CASE ReliableSync(c)
  <2>1. ~Sync(c)
    BY <1>1, <1>3, <1>4, <1>7
  <2> QED BY <1>1, <1>4, <1>7, <2>1
<1> QED BY <1>5, <1>6, <1>7, ClientsIndex

(***************************************************************************)
(* A request that is made is a new one.                                    *)
(***************************************************************************)
LEMMA NewPair ==
    ASSUME IInv, FewCalls, NEW c \in Clients, Numbered(c), [Next]_vars,
           NEW y \in Pairs(c)', y \notin Pairs(c)
    PROVE  /\ y.request = [name |-> c[2], number |-> client[c].syncs + 1]
           /\ client'[c].syncs = client[c].syncs + 1
           /\ IsReliable(y) => /\ y.seqIdx = client[c].mLocalSeqIdx
                               /\ client'[c].mLocalSeqIdx =
                                     client[c].mLocalSeqIdx + 1
<1>1. ~(Unreliable < IDX_WRAP_MODULE)
  BY IndexAssumption DEF Unreliable
<1>2. CASE Sync(c) /\ y = [request |-> NextRequest(c),
                           seqIdx |-> Unreliable]
  BY <1>1, <1>2, CountersGrow DEF NextRequest, IsReliable
<1>3. CASE ReliableSync(c) /\ y = [request |-> NextRequest(c),
                                   seqIdx |-> client[c].mLocalSeqIdx]
  BY <1>3, CountersGrow DEF NextRequest
<1> QED BY <1>2, <1>3, PairsStep

(***************************************************************************)
(* Every step keeps Numbered.                                              *)
(***************************************************************************)
LEMMA NumberedStep ==
    ASSUME IInv, FewCalls, NEW c \in Clients, Numbered(c), [Next]_vars
    PROVE  Numbered(c)'
<1> DEFINE n == client[c].syncs
           i == client[c].mLocalSeqIdx
           m == client'[c].syncs
           j == client'[c].mLocalSeqIdx
<1>1. /\ n \in Nat /\ i \in Nat /\ i >= 1 /\ j \in Nat /\ m \in Nat
      /\ m >= n /\ j >= i /\ j \in 1..(m + 1)
  <2>1. IInv'
    BY NextInvariant
  <2>2. m \in 0..MaxCalls /\ j \in Indices
    BY <2>1 DEF IInv, TypeOK, ClientState
  <2>3. n \in 0..MaxCalls /\ i \in Indices /\ i \in 1..(n + 1)
    BY ClientNumbers DEF Numbered
  <2> QED BY <2>2, <2>3, CountersGrow DEF Indices
<1>2. ASSUME NEW x \in Pairs(c)
      PROVE  /\ x.request.name = c[2] /\ x.request.number \in Nat
             /\ x.request.number <= n
             /\ IsReliable(x) => x.seqIdx \in 1..(i - 1)
  BY PairsType DEF Numbered, SyncRequests
<1>3. ASSUME NEW x \in Pairs(c)', x \notin Pairs(c)
      PROVE  /\ x.request.name = c[2] /\ x.request.number = n + 1
             /\ m = n + 1
             /\ IsReliable(x) => x.seqIdx = i /\ j = i + 1
  <2> HIDE DEF n, i, m, j
  <2>1. /\ x.request = [name |-> c[2], number |-> n + 1]
        /\ m = n + 1
        /\ IsReliable(x) => x.seqIdx = i /\ j = i + 1
    BY <1>3, NewPair DEF n, i, m, j
  <2> QED BY <2>1
<1> HIDE DEF n, i, m, j
<1>4. ASSUME NEW x \in Pairs(c)'
      PROVE  /\ x.request.name = c[2] /\ x.request.number <= m
             /\ IsReliable(x) => x.seqIdx \in 1..(j - 1)
  <2>1. CASE x \in Pairs(c)
    BY <1>1, <1>2, <2>1
  <2>2. CASE x \notin Pairs(c)
    BY <1>1, <1>3, <2>2
  <2> QED BY <2>1, <2>2
<1>5. ASSUME NEW x \in Pairs(c)', NEW y \in Pairs(c)',
             x.request = y.request
      PROVE  x = y
  <2>1. CASE x \in Pairs(c) /\ y \in Pairs(c)
    BY <1>5, <2>1 DEF Numbered
  <2>2. CASE x \in Pairs(c) /\ y \notin Pairs(c)
    BY <1>1, <1>2, <1>3, <1>5, <2>2
  <2>3. CASE x \notin Pairs(c) /\ y \in Pairs(c)
    BY <1>1, <1>2, <1>3, <1>5, <2>3
  <2>4. CASE x \notin Pairs(c) /\ y \notin Pairs(c)
    <3>1. /\ \/ Sync(c) /\ x = [request |-> NextRequest(c),
                                seqIdx |-> Unreliable]
             \/ ReliableSync(c) /\ x = [request |-> NextRequest(c),
                                        seqIdx |-> client[c].mLocalSeqIdx]
          /\ \/ Sync(c) /\ y = [request |-> NextRequest(c),
                                seqIdx |-> Unreliable]
             \/ ReliableSync(c) /\ y = [request |-> NextRequest(c),
                                        seqIdx |-> client[c].mLocalSeqIdx]
      BY <2>4, PairsStep
    <3>2. ~(Sync(c) /\ ReliableSync(c))
      <4>1. Sync(c) => j = i
        BY SyncShape DEF SameQueue, i, j
      <4>2. ReliableSync(c) => j = i + 1
        BY CountersGrow DEF i, j
      <4> QED BY <1>1, <4>1, <4>2
    <3> QED BY <3>1, <3>2
  <2> QED BY <2>1, <2>2, <2>3, <2>4
<1> QED BY <1>1, <1>4, <1>5 DEF Numbered, m, j

-----------------------------------------------------------------------------
(***************************************************************************)
(* A session that is the only one of its id so far deals with its own      *)
(* clients alone.                                                          *)
(***************************************************************************)
FirstBorn(s) ==
    /\ Born(s)
    /\ \A t \in SessionActors \ {s} :
          Born(t) => session[t].m_id # session[s].m_id

(***************************************************************************)
(* The datagrams for a session whose id nobody had before are those of its *)
(* own players,                                                            *)
(***************************************************************************)
LEMMA OwnSenders ==
    ASSUME IInv, UplinkFits, NEW s \in SessionActors, FirstBorn(s),
           NEW t \in SessionActors, NEW d \in uplink, m_sessions[d.id] = t
    PROVE  d.from.s = s <=> t = s
<1>1. d.from.s \in SessionActors /\ d.id \in Ids /\ t # Null
  BY ToServerFields, NullAssumption
     DEF IInv, TypeOK, SessionTypeOK, Addresses
<1>2. Born(d.from.s) /\ session[d.from.s].m_id = d.id
  BY DEF UplinkFits, Socket, Born
<1>3. Born(t) /\ session[t].m_id = d.id
  BY <1>1 DEF IInv, TableSane, Born
<1> QED BY <1>1, <1>2, <1>3 DEF FirstBorn

(***************************************************************************)
(* and its players joined from their own sockets.                          *)
(***************************************************************************)
LEMMA OwnPlayers ==
    ASSUME IInv, PlayersFit, NEW s \in SessionActors, FirstBorn(s),
           NEW t \in SessionActors, NEW p \in Players,
           Joined(session[t], p), session[t].player[p].address.s = s
    PROVE  t = s
<1>1. session[s].m_id = session[t].m_id
  BY DEF PlayersFit
<1>2. Born(t)
  <2>1. session[t] # Unborn
    BY DEF Joined, Unborn
  <2> QED BY <2>1, Before DEF Sane, Born
<1> QED BY <1>1, <1>2 DEF FirstBorn

(***************************************************************************)
(* A session that is the first owner of its id was so before the step.     *)
(***************************************************************************)
LEMMA FirstBornBefore ==
    ASSUME IInv, [Next]_vars, NEW s \in SessionActors, FirstBorn(s)', Born(s)
    PROVE  FirstBorn(s)
<1>1. \A t \in SessionActors :
         Born(t) => /\ session'[t].m_state # "unborn"
                    /\ session'[t].m_id = session[t].m_id
  BY SessionContinues DEF Continues
<1> QED BY <1>1 DEF FirstBorn, Born

-----------------------------------------------------------------------------
(***************************************************************************)
(* What a session does with requests.                                      *)
(***************************************************************************)
Accepted(s, e) ==
    /\ m_sessions[e.id] = s
    /\ session[s].m_state = "Running" /\ e.type = "RequestSync"
    /\ IsReliable(e) /\ AcceptsRequest(s, e)
    /\ session'[s].m_seqStats =
          [session[s].m_seqStats EXCEPT ![e.name] =
              AfterRequest(session[s].m_seqStats[e.name], e)]

(***************************************************************************)
(* A Sync that is new among the delayed ones comes from a request that was *)
(* accepted in this step.                                                  *)
(***************************************************************************)
LEMMA DueStep ==
    ASSUME IInv, [Next]_vars, NEW s \in SessionActors,
           NEW x \in due'[s], IsReliable(x)
    PROVE  \/ x \in due[s]
           \/ \E e \in uplink :
                 /\ Accepted(s, e)
                 /\ x = Kept(e, session[s].m_seqStats[e.name].localSeqIdx)
<1>1. due \in [SessionActors ->
                  SUBSET [request : SyncRequests, seqIdx : SeqIdxs]]
  BY DEF IInv, TypeOK, SessionTypeOK
<1>2. CASE due' = due
  BY <1>2
<1>3. CASE Datagram
  <2>1. PICK e \in uplink : /\ m_sessions[e.id] # Null
                            /\ TakeDatagram(m_sessions[e.id], e)
    BY <1>3 DEF Datagram, TakeEnvelop
  <2> DEFINE u == m_sessions[e.id]
  <2>2. u \in SessionActors /\ u = m_sessions[e.id]
    BY <2>1, ToServerFields
       DEF IInv, TypeOK, SessionTypeOK, BackendTypeOK
  <2> HIDE DEF u
  <2>3. CASE TakeRequestSync(u, e)
    <3> DEFINE info == session[u].m_seqStats[e.name]
    <3>1. CASE due' = [due EXCEPT ![u] = @ \cup {Kept(e, Unreliable)}]
      <4>1. x \in due[s] \/ x = Kept(e, Unreliable)
        BY <1>1, <2>2, <3>1
      <4>2. ~IsReliable(Kept(e, Unreliable))
        BY IndexAssumption DEF Kept, IsReliable, Unreliable
      <4> QED BY <4>1, <4>2
    <3>2. CASE /\ IsReliable(e) /\ AcceptsRequest(u, e)
               /\ session' = [session EXCEPT ![u] =
                     Indexed(session[u], e.name, AfterRequest(info, e))]
               /\ due' = [due EXCEPT ![u] =
                     @ \cup {Kept(e, info.localSeqIdx)}]
      <4>1. x \in due[s] \/ (s = u /\ x = Kept(e, info.localSeqIdx))
        BY <1>1, <2>2, <3>2
      <4>2. session'[u] =
               Indexed(session[u], e.name, AfterRequest(info, e))
        BY <2>2, <3>2 DEF IInv, TypeOK, SessionTypeOK
      <4>3. session[u] \in SessionState
        BY <2>2, Before
      <4>4. session'[u].m_seqStats =
               [session[u].m_seqStats EXCEPT ![e.name] =
                   AfterRequest(info, e)]
        <5> DEFINE y == session[u] i == AfterRequest(info, e)
        <5>1. session'[u] = Indexed(y, e.name, i) /\ y \in SessionState
          BY <4>2, <4>3
        <5> HIDE DEF y, i
        <5>2. session'[u].m_seqStats = [y.m_seqStats EXCEPT ![e.name] = i]
          BY <5>1 DEF Indexed, SessionState
        <5> QED BY <5>2 DEF y, i
      <4>5. Accepted(u, e)
        BY <2>2, <2>3, <3>2, <4>4 DEF Accepted, TakeRequestSync, Takes
      <4> QED BY <4>1, <4>5
    <3>3. CASE due' = due
      BY <1>2, <3>3
    <3> QED BY <2>3, <3>1, <3>2, <3>3
            DEF TakeRequestSync, Kept, Indexed, AfterRequest
  <2>4. CASE ~TakeRequestSync(u, e)
    <3>1. due' = due
      BY <2>1, <2>4
         DEF u, TakeDatagram, TakeReady, TakeKeepAlive, TakeUnexpected,
             BeginUpdate, TakeMessage, BeginQuit, OnlyReplies
    <3> QED BY <1>2, <3>1
  <2> QED BY <2>3, <2>4
<1>4. ASSUME NEW u \in SessionActors, ServerThreads(u)
      PROVE  x \in due[s]
  <2>1. CASE SendSync(u)
    <3>1. PICK sync \in due[u] : due' = [due EXCEPT ![u] = @ \ {sync}]
      BY <2>1 DEF SendSync
    <3> QED BY <1>1, <3>1
  <2>2. CASE ~SendSync(u)
    BY <1>4, <2>2
       DEF ServerThreads, SessionActorStep, ActorStep, TaskStep, EndUpdate,
           RemoveQuitter, EndQuit, BeginCheck, VisitHeard, VisitSilent,
           Visit, PassBy, Touch, RemoveSilent, CheckLeft, EndCheck
  <2> QED BY <2>1, <2>2
<1>5. AskSession \/ CreateSession \/ CloseSession \/ UNCHANGED vars
         \/ (\E c \in Clients : ClientStep(c)) => due' = due
  BY ClientsOnly DEF AskSession, CreateSession, TakeCreateSession,
                     CloseSession, TakeCloseSession, vars, serverVars
<1> QED BY <1>2, <1>3, <1>4, <1>5 DEF Next

(***************************************************************************)
(* The requests that a session carries out: those it had, and the one that *)
(* it accepts now.                                                         *)
(***************************************************************************)
LEMMA SyncedStep ==
    ASSUME IInv, PlayersFit, [Next]_vars, NEW s \in SessionActors,
           FirstBorn(s), NEW x \in Synced(s)', IsReliable(x)
    PROVE  \/ x \in Synced(s)
           \/ \E e \in uplink :
                 /\ Accepted(s, e)
                 /\ x = Kept(e, session[s].m_seqStats[e.name].localSeqIdx)
<1>1. CASE x \in due'[s]
  BY <1>1, DueStep DEF Synced
<1>2. CASE x \notin due'[s]
  <2>1. PICK d \in downlink' :
           d.type = "Sync" /\ d.to.s = s /\ x = PairOf(d)
    BY <1>2 DEF Synced, SyncsTo
  <2>2. CASE d \in downlink
    BY <2>1, <2>2 DEF Synced, SyncsTo
  <2>3. CASE d \notin downlink
    <3>1. SendsSync(d)
      BY <2>1, <2>3, EveryAnswer DEF Answers, PlainReplies, SendsAck
    <3>2. PICK t \in SessionActors : \E sync \in due[t] :
             \E p \in Players :
                /\ Joined(session[t], p)
                /\ d = [to |-> session[t].player[p].address,
                        type |-> "Sync", request |-> sync.request,
                        seqIdx |-> sync.seqIdx]
      BY <3>1 DEF SendsSync
    <3>3. PICK sync \in due[t], p \in Players :
             /\ Joined(session[t], p)
             /\ d = [to |-> session[t].player[p].address, type |-> "Sync",
                     request |-> sync.request, seqIdx |-> sync.seqIdx]
      BY <3>2
    <3>4. session[t].player[p].address.s = s
      BY <2>1, <3>3
    <3>5. t = s
      BY <3>3, <3>4, OwnPlayers
    <3>6. sync \in [request : SyncRequests, seqIdx : SeqIdxs]
      BY <3>3 DEF IInv, TypeOK, SessionTypeOK
    <3>7. x = sync
      BY <2>1, <3>3, <3>6 DEF PairOf
    <3> QED BY <3>5, <3>7 DEF Synced
  <2> QED BY <2>2, <2>3
<1> QED BY <1>1, <1>2

(***************************************************************************)
(* The Acks for the clients of a session come from their requests.         *)
(***************************************************************************)
LEMMA AcksStep ==
    ASSUME IInv, UplinkFits, [Next]_vars, NEW d \in downlink',
           d.type = "Ack", d \notin downlink
    PROVE  \E e \in uplink :
              /\ e.type = "RequestSync" /\ IsReliable(e)
              /\ d.to = e.from /\ d.seqIdx = e.seqIdx
<1>1. SendsAck(d)
  BY EveryAnswer DEF Answers, PlainReplies, SendsSync
<1> QED BY <1>1 DEF SendsAck

-----------------------------------------------------------------------------
(***************************************************************************)
(* A request is carried out once.                                          *)
(***************************************************************************)
Info(s, q) == session[s].m_seqStats[q]

(***************************************************************************)
(* The indices of a player at the session: its own run behind those it has *)
(* accepted, and those behind what the player has made.                    *)
(***************************************************************************)
InfoFits(s, q) ==
    Info(s, q) # Null =>
        /\ Info(s, q).localSeqIdx \in 1..(Info(s, q).remoteSeqIdx + 1)
        /\ Info(s, q).remoteSeqIdx < client[<<s, q>>].mLocalSeqIdx

(***************************************************************************)
(* r was accepted: the player has made it, and whatever of it is still on  *)
(* its way has an index that is not accepted any more.                     *)
(***************************************************************************)
Taken(s, r) ==
    /\ r.number <= client[<<s, r.name>>].syncs
    /\ Info(s, r.name) # Null
    /\ \A y \in Pairs(<<s, r.name>>) :
          y.request = r => y.seqIdx <= Info(s, r.name).remoteSeqIdx

SyncedFits(s) ==
    \A x \in Synced(s) : IsReliable(x) =>
        /\ Taken(s, x.request)
        /\ x.seqIdx \in 1..(Info(s, x.request.name).localSeqIdx - 1)
        /\ \A y \in Synced(s) :
              IsReliable(y) /\ y.request = x.request => y = x

AcksFit(s) ==
    \A d \in downlink : d.type = "Ack" /\ d.to.s = s =>
        d.seqIdx \in 1..(client[<<s, d.to.name>>].mLocalSeqIdx - 1)

(***************************************************************************)
(* What a client has heard does not come with a later index again.         *)
(***************************************************************************)
HeardFits(s, p) ==
    /\ client[<<s, p>>].mRemoteSeqIdx <= MaxCalls
    /\ IsInjective(heard[<<s, p>>])
    /\ \A r \in ToSet(heard[<<s, p>>]) :
          /\ Taken(s, r)
          /\ \A y \in Synced(s) : IsReliable(y) /\ y.request = r =>
                y.seqIdx <= client[<<s, p>>].mRemoteSeqIdx

Carried(s) ==
    /\ \A p \in Players : InfoFits(s, p) /\ HeardFits(s, p)
    /\ SyncedFits(s) /\ AcksFit(s)

(***************************************************************************)
(* Nothing was sent by or for a session before it is made.                 *)
(***************************************************************************)
Blank(s) ==
    /\ due[s] = {}
    /\ \A d \in downlink : d.type \in {"Ack", "Sync"} => d.to.s # s

OnceInv ==
    \A s \in SessionActors :
        /\ ~Born(s) => Blank(s)
        /\ FirstBorn(s) => Carried(s)

(***************************************************************************)
(* All that the steps below start from.                                    *)
(***************************************************************************)
Ground == IInv /\ IndicesFresh /\ PlayInv /\ AllNumbered /\ FewCalls

(***************************************************************************)
(* The indices that a session keeps of a player are numbers.               *)
(***************************************************************************)
LEMMA InfoNumbers ==
    ASSUME Ground, NEW s \in SessionActors, NEW q \in Players,
           Info(s, q) # Null
    PROVE  /\ Info(s, q) \in MessagesSequenceInfo
           /\ Info(s, q).localSeqIdx \in Indices
           /\ Info(s, q).remoteSeqIdx \in Indices
<1>1. Info(s, q) \in MessagesSequenceInfo
  BY Before DEF Ground, Info, SessionState
<1> QED BY <1>1 DEF MessagesSequenceInfo

(***************************************************************************)
(* The indices of a client are bounded by the requests it has made.        *)
(***************************************************************************)
LEMMA Counts ==
    ASSUME Ground, NEW s \in SessionActors, NEW q \in Players
    PROVE  /\ <<s, q>> \in Clients /\ Numbered(<<s, q>>)
           /\ client[<<s, q>>].syncs \in 0..MaxCalls
           /\ client[<<s, q>>].mLocalSeqIdx \in
                 1..(client[<<s, q>>].syncs + 1)
           /\ client[<<s, q>>].mLocalSeqIdx \in Indices
           /\ client[<<s, q>>].mRemoteSeqIdx \in Indices
<1>1. <<s, q>> \in Clients
  BY DEF Clients
<1> QED BY <1>1, ClientNumbers DEF Ground, AllNumbered, Numbered

(***************************************************************************)
(* Accepting a request moves the player's indices on.                      *)
(***************************************************************************)
LEMMA AcceptFacts ==
    ASSUME Ground, NEW s \in SessionActors, FirstBorn(s),
           \A p \in Players : InfoFits(s, p),
           NEW e \in uplink, Accepted(s, e)
    PROVE  /\ e.name \in Players /\ e.request \in SyncRequests
           /\ Info(s, e.name) # Null
           /\ PairOf(e) \in Pairs(<<s, e.name>>)
           /\ e.request.name = e.name
           /\ e.request.number <= client[<<s, e.name>>].syncs
           /\ e.seqIdx \in 1..(client[<<s, e.name>>].mLocalSeqIdx - 1)
           /\ e.seqIdx > Info(s, e.name).remoteSeqIdx
           /\ Info(s, e.name)' =
                 [localSeqIdx |-> Info(s, e.name).localSeqIdx + 1,
                  remoteSeqIdx |-> e.seqIdx]
           /\ \A p \in Players : p # e.name => Info(s, p)' = Info(s, p)
<1> DEFINE q == e.name
           info == Info(s, q)
           k == client[<<s, q>>]
<1>1. /\ e \in ToServer /\ q \in Players /\ e.request \in SyncRequests
      /\ e.seqIdx \in SeqIdxs /\ e.type = "RequestSync"
  BY ToServerFields DEF Accepted, Ground, IInv, TypeOK, SessionTypeOK
<1>2. e.seqIdx \in Indices
  BY <1>1, ReliableType DEF Accepted, IsReliable
<1>3. /\ info # Null
      /\ Accepts(ACK_HISTORY_SIZE, info.remoteSeqIdx, e.seqIdx)
  BY DEF Accepted, AcceptsRequest, Info
<1>4. /\ info \in MessagesSequenceInfo
      /\ info.localSeqIdx \in Indices /\ info.remoteSeqIdx \in Indices
  BY <1>1, <1>3, InfoNumbers
<1>5. e.from.s = s
  BY OwnSenders DEF Accepted, Ground, PlayInv
<1>6. PairOf(e) \in Pairs(<<s, q>>)
  BY <1>1, <1>5 DEF Pairs, RequestsOf
<1>7. PairOf(e).request = e.request /\ PairOf(e).seqIdx = e.seqIdx
      /\ IsReliable(PairOf(e))
  BY DEF PairOf, Accepted, IsReliable
<1>8. /\ e.request.name = q /\ e.request.number <= k.syncs
      /\ e.seqIdx \in 1..(k.mLocalSeqIdx - 1)
  <2>1. Numbered(<<s, q>>)
    BY <1>1, Counts
  <2> QED BY <1>6, <1>7, <2>1 DEF Numbered
<1>9. /\ k.syncs \in 0..MaxCalls /\ k.mLocalSeqIdx \in 1..(k.syncs + 1)
  BY <1>1, Counts
<1>10. /\ info.localSeqIdx \in 1..(info.remoteSeqIdx + 1)
       /\ info.remoteSeqIdx < k.mLocalSeqIdx
  BY <1>1, <1>3 DEF InfoFits
<1>11. MaxCalls \in Nat /\ IDX_WRAP_MODULE \in Nat
       /\ ACK_HISTORY_SIZE \in Nat /\ ACK_HISTORY_SIZE > 0
       /\ MaxCalls + ACK_HISTORY_SIZE < IDX_WRAP_MODULE
  BY CallsAssumption, IndexAssumption DEF Ground, FewCalls
<1> HIDE DEF info, k, q
<1>12. info.remoteSeqIdx <= MaxCalls
  BY <1>4, <1>9, <1>10, <1>11 DEF Indices
<1>13. e.seqIdx > info.remoteSeqIdx
  BY <1>2, <1>3, <1>4, <1>11, <1>12, AcceptsLater
<1>14. NextIdx(info.localSeqIdx) = info.localSeqIdx + 1
  <2>1. info.localSeqIdx < IDX_WRAP_MODULE - 1
    BY <1>2, <1>4, <1>8, <1>9, <1>10, <1>11, <1>13 DEF Indices
  <2> QED BY <2>1 DEF NextIdx
<1>15. session[s].m_seqStats \in [Players -> MessagesSequenceInfo \cup {Null}]
  BY Before DEF Ground, SessionState
<1>16. session'[s].m_seqStats =
          [session[s].m_seqStats EXCEPT ![q] = AfterRequest(info, e)]
  BY DEF Accepted, Info, info, q
<1>17. AfterRequest(info, e) = [localSeqIdx |-> info.localSeqIdx + 1,
                                remoteSeqIdx |-> e.seqIdx]
  BY <1>14 DEF AfterRequest
<1>18. /\ Info(s, q)' = AfterRequest(info, e)
       /\ \A p \in Players : p # q => Info(s, p)' = Info(s, p)
  BY <1>1, <1>15, <1>16 DEF Info, q
<1> QED BY <1>1, <1>3, <1>6, <1>8, <1>13, <1>17, <1>18 DEF info, k, q

(***************************************************************************)
(* The indices of a player at its session in any step.                     *)
(***************************************************************************)
LEMMA InfoStep ==
    ASSUME Ground, [Next]_vars, NEW s \in SessionActors, FirstBorn(s),
           \A p \in Players : InfoFits(s, p), NEW q \in Players
    PROVE  /\ InfoFits(s, q)'
           /\ Info(s, q) # Null =>
                 /\ Info(s, q)' # Null
                 /\ Info(s, q)'.localSeqIdx >= Info(s, q).localSeqIdx
                 /\ Info(s, q)'.remoteSeqIdx >= Info(s, q).remoteSeqIdx
<1> DEFINE a == Info(s, q)
           b == Info(s, q)'
           i == client[<<s, q>>].mLocalSeqIdx
           j == client'[<<s, q>>].mLocalSeqIdx
<1>1. i \in Nat /\ i >= 1 /\ j \in Nat /\ j >= i
  <2>1. i \in Indices /\ i \in 1..(client[<<s, q>>].syncs + 1)
        /\ <<s, q>> \in Clients /\ Numbered(<<s, q>>)
    BY Counts
  <2>2. j >= i
    BY <2>1, CountersGrow DEF Ground
  <2>3. j \in Indices
    BY <2>1, NextInvariant DEF Ground, IInv, TypeOK, ClientState
  <2> QED BY <2>1, <2>2, <2>3 DEF Indices
<1>2. /\ a # Null => /\ a.localSeqIdx \in Nat /\ a.remoteSeqIdx \in Nat
                     /\ a.localSeqIdx \in 1..(a.remoteSeqIdx + 1)
                     /\ a.remoteSeqIdx < i
  BY InfoNumbers DEF InfoFits, Indices
<1>3. CASE b = a
  <2>1. InfoFits(s, q)'
    <3> SUFFICES a # Null => /\ a.localSeqIdx \in 1..(a.remoteSeqIdx + 1)
                             /\ a.remoteSeqIdx < j
      BY <1>3 DEF InfoFits
    <3> HIDE DEF a, i, j
    <3> QED BY <1>1, <1>2
  <2> HIDE DEF a, b
  <2>2. a # Null => /\ b # Null /\ b.localSeqIdx >= a.localSeqIdx
                    /\ b.remoteSeqIdx >= a.remoteSeqIdx
    BY <1>2, <1>3
  <2> QED BY <2>1, <2>2 DEF a, b
<1>4. CASE /\ session[s].m_state = "Waiting"
           /\ \E p \in Players : session'[s].m_seqStats =
                 [session[s].m_seqStats EXCEPT ![p] = FirstInfo]
  <2>1. a \in {Null, FirstInfo}
    BY <1>4 DEF Ground, IndicesFresh, Begun, Info
  <2>2. session[s].m_seqStats
            \in [Players -> MessagesSequenceInfo \cup {Null}]
    BY Before DEF Ground, SessionState
  <2>3. b = a \/ b = FirstInfo
    BY <1>4, <2>2 DEF Info
  <2>4. CASE b = FirstInfo /\ a = Null
    <3>1. b.localSeqIdx = 1 /\ b.remoteSeqIdx = 0
      BY <2>4 DEF FirstInfo
    <3>2. InfoFits(s, q)'
      <4> SUFFICES 1 \in 1..(0 + 1) /\ 0 < j
        BY <3>1 DEF InfoFits
      <4> QED BY <1>1
    <3> QED BY <2>4, <3>2
  <2> QED BY <1>3, <2>1, <2>3, <2>4
<1>5. ASSUME NEW e \in uplink, Accepted(s, e), b # a
      PROVE  /\ InfoFits(s, q)'
             /\ a # Null => /\ b # Null /\ b.localSeqIdx >= a.localSeqIdx
                            /\ b.remoteSeqIdx >= a.remoteSeqIdx
  <2>1. /\ e.name = q /\ a # Null /\ e.seqIdx \in 1..(i - 1)
        /\ e.seqIdx > a.remoteSeqIdx
        /\ b = [localSeqIdx |-> a.localSeqIdx + 1,
                remoteSeqIdx |-> e.seqIdx]
    BY <1>5, AcceptFacts
  <2>2. b.localSeqIdx = a.localSeqIdx + 1 /\ b.remoteSeqIdx = e.seqIdx
    BY <2>1
  <2>3. b # Null
    <3>1. e.seqIdx \in Indices /\ a.localSeqIdx + 1 \in Indices
      <4> HIDE DEF a, i
      <4>1. i \in Indices
        BY Counts DEF i
      <4> QED BY <1>1, <1>2, <2>1, <4>1, IndexAssumption DEF Indices
    <3>2. b \in MessagesSequenceInfo
      BY <2>1, <3>1 DEF MessagesSequenceInfo
    <3> QED BY <3>2, NullAssumption
  <2>4. /\ b.localSeqIdx \in 1..(b.remoteSeqIdx + 1)
        /\ b.remoteSeqIdx < j
        /\ b.localSeqIdx >= a.localSeqIdx
        /\ b.remoteSeqIdx >= a.remoteSeqIdx
    <3> HIDE DEF a, b, i, j
    <3> QED BY <1>1, <1>2, <2>1, <2>2
  <2> QED BY <2>3, <2>4 DEF InfoFits
<1>6. ~IsMade(s)
  BY DEF FirstBorn, Born, IsMade
<1>7. CASE session'[s].m_seqStats = session[s].m_seqStats
  <2>1. b = a
    BY <1>7 DEF Info
  <2> QED BY <1>3, <2>1
<1>8. CASE \E e \in uplink : Accepted(s, e)
  BY <1>3, <1>5, <1>8
<1> HIDE DEF a, b, i, j
<1>9. \/ session'[s].m_seqStats = session[s].m_seqStats
      \/ /\ session[s].m_state = "Waiting"
         /\ \E p \in Players : session'[s].m_seqStats =
               [session[s].m_seqStats EXCEPT ![p] = FirstInfo]
      \/ \E e \in uplink : Accepted(s, e)
  BY <1>6, SeqStatsStep DEF Ground, Accepted
<1> QED BY <1>4, <1>7, <1>8, <1>9 DEF a, b

(***************************************************************************)
(* What a session has taken stays taken.                                   *)
(***************************************************************************)
LEMMA TakenStays ==
    ASSUME Ground, [Next]_vars, NEW s \in SessionActors, FirstBorn(s),
           \A p \in Players : InfoFits(s, p),
           NEW r \in SyncRequests, Taken(s, r)
    PROVE  Taken(s, r)'
<1> DEFINE q == r.name
           c == <<s, q>>
           n == client[c].syncs
           m == client'[c].syncs
           a == Info(s, q)
           b == Info(s, q)'
<1>1. r.name \in Players /\ r.number \in Nat
  BY DEF SyncRequests
<1>2. /\ c \in Clients /\ Numbered(c) /\ n \in Nat /\ m >= n
  <2>1. c \in Clients /\ Numbered(c) /\ n \in 0..MaxCalls
    BY <1>1, Counts
  <2> HIDE DEF c
  <2> QED BY <2>1, CountersGrow DEF Ground
<1>3. m \in Nat
  <2>1. client' \in [Clients -> ClientState]
    BY NextInvariant DEF Ground, IInv, TypeOK
  <2>2. m \in 0..MaxCalls
    BY <1>2, <2>1 DEF ClientState
  <2> QED BY <2>2
<1>4. /\ r.number <= n /\ a # Null
      /\ \A y \in Pairs(c) : y.request = r => y.seqIdx <= a.remoteSeqIdx
  BY DEF Taken
<1>5. /\ b # Null /\ b.remoteSeqIdx >= a.remoteSeqIdx
      /\ a.remoteSeqIdx \in Nat /\ b.remoteSeqIdx \in Nat
  <2>1. b # Null /\ b.remoteSeqIdx >= a.remoteSeqIdx
    BY <1>1, <1>4, InfoStep
  <2>2. a.remoteSeqIdx \in Indices
    BY <1>1, <1>4, InfoNumbers
  <2>3. b.remoteSeqIdx \in Indices
    <3>1. session' \in [SessionActors -> SessionState]
      BY NextInvariant DEF Ground, IInv, TypeOK, SessionTypeOK
    <3>2. b \in MessagesSequenceInfo
      BY <1>1, <2>1, <3>1 DEF Info, SessionState
    <3> QED BY <3>2 DEF MessagesSequenceInfo
  <2> HIDE DEF a, b
  <2> QED BY <2>1, <2>2, <2>3 DEF Indices
<1>6. ASSUME NEW y \in Pairs(c)', y.request = r
      PROVE  y.seqIdx <= b.remoteSeqIdx
  <2>1. CASE y \in Pairs(c)
    <3>1. y.seqIdx <= a.remoteSeqIdx
      BY <1>4, <1>6, <2>1
    <3>2. y.seqIdx \in Nat
      <4>1. y.seqIdx \in SeqIdxs
        BY <1>2, <2>1, PairsType DEF Ground
      <4> QED BY <4>1, IndexAssumption DEF SeqIdxs, Indices, Unreliable
    <3> HIDE DEF a, b
    <3> QED BY <1>5, <3>1, <3>2
  <2>2. CASE y \notin Pairs(c)
    <3>1. y.request = [name |-> c[2], number |-> n + 1]
      BY <1>2, <2>2, NewPair DEF Ground
    <3>2. r.number = n + 1
      BY <1>6, <3>1
    <3> HIDE DEF n
    <3> QED BY <1>1, <1>2, <1>4, <3>2
  <2> QED BY <2>1, <2>2
<1>7. r.number <= m
  <2> HIDE DEF n, m
  <2> QED BY <1>1, <1>2, <1>3, <1>4
<1> QED BY <1>5, <1>6, <1>7 DEF Taken

(***************************************************************************)
(* The request that a session accepts is taken, and was not before.        *)
(***************************************************************************)
LEMMA TakesRequest ==
    ASSUME Ground, [Next]_vars, NEW s \in SessionActors, FirstBorn(s),
           \A p \in Players : InfoFits(s, p),
           NEW e \in uplink, Accepted(s, e)
    PROVE  /\ ~Taken(s, e.request)
           /\ Taken(s, e.request)'
<1> DEFINE q == e.name
           r == e.request
           c == <<s, q>>
<1>1. /\ q \in Players /\ r \in SyncRequests /\ Info(s, q) # Null
      /\ PairOf(e) \in Pairs(c) /\ r.name = q
      /\ r.number <= client[c].syncs
      /\ e.seqIdx \in 1..(client[c].mLocalSeqIdx - 1)
      /\ e.seqIdx > Info(s, q).remoteSeqIdx
      /\ Info(s, q)' = [localSeqIdx |-> Info(s, q).localSeqIdx + 1,
                        remoteSeqIdx |-> e.seqIdx]
  BY AcceptFacts
<1>2. PairOf(e).request = r /\ PairOf(e).seqIdx = e.seqIdx
  BY DEF PairOf
<1>3. Info(s, q).remoteSeqIdx \in Nat /\ e.seqIdx \in Nat
  <2>1. Info(s, q).remoteSeqIdx \in Indices
    BY <1>1, InfoNumbers
  <2> QED BY <1>1, <2>1 DEF Indices
<1>4. ~Taken(s, r)
  <2> SUFFICES ASSUME Taken(s, r)
               PROVE  FALSE
    OBVIOUS
  <2>1. e.seqIdx <= Info(s, q).remoteSeqIdx
    BY <1>1, <1>2 DEF Taken
  <2> QED BY <1>1, <1>3, <2>1
<1>5. /\ c \in Clients /\ Numbered(c) /\ Numbered(c)'
      /\ client[c].syncs \in Nat
  <2>1. c \in Clients /\ Numbered(c) /\ client[c].syncs \in 0..MaxCalls
    BY <1>1, Counts
  <2> HIDE DEF c
  <2> QED BY <2>1, NumberedStep DEF Ground
<1>6. client'[c].syncs >= client[c].syncs /\ client'[c].syncs \in Nat
  <2>1. client'[c].syncs >= client[c].syncs
    BY <1>5, CountersGrow DEF Ground
  <2>2. client' \in [Clients -> ClientState]
    BY NextInvariant DEF Ground, IInv, TypeOK
  <2>3. client'[c].syncs \in 0..MaxCalls
    BY <1>5, <2>2 DEF ClientState
  <2> QED BY <2>1, <2>3
<1>7. r.number \in Nat /\ r.number <= client'[c].syncs
  <2>1. r.number \in Nat
    BY <1>1 DEF SyncRequests
  <2> HIDE DEF c, r
  <2> QED BY <1>1, <1>5, <1>6, <2>1
<1>8. Info(s, q)' # Null /\ Info(s, q)'.remoteSeqIdx = e.seqIdx
  <2>1. Info(s, q)'.remoteSeqIdx = e.seqIdx
    BY <1>1
  <2>2. Info(s, q)' # Null
    BY <1>1, InfoStep
  <2> QED BY <2>1, <2>2
<1>9. ASSUME NEW y \in Pairs(c)', y.request = r
      PROVE  y.seqIdx <= e.seqIdx
  <2>1. CASE y \in Pairs(c)
    <3>1. y = PairOf(e)
      BY <1>1, <1>2, <1>5, <1>9, <2>1 DEF Numbered
    <3> QED BY <1>2, <1>3, <3>1
  <2>2. CASE y \notin Pairs(c)
    <3>1. y.request = [name |-> c[2], number |-> client[c].syncs + 1]
      BY <1>5, <2>2, NewPair DEF Ground
    <3>2. r.number = client[c].syncs + 1
      BY <1>9, <3>1
    <3> QED BY <1>1, <1>5, <1>7, <3>2
  <2> QED BY <2>1, <2>2
<1>10. Taken(s, r)'
  BY <1>1, <1>7, <1>8, <1>9 DEF Taken
<1> QED BY <1>4, <1>10

(***************************************************************************)
(* Another element keeps a sequence free of repetitions.                   *)
(***************************************************************************)
LEMMA AppendNew ==
    ASSUME NEW S, NEW q \in Seq(S), NEW e \in S, IsInjective(q),
           e \notin ToSet(q)
    PROVE  IsInjective(Append(q, e))
<1>1. PICK n \in Nat :
         /\ DOMAIN q = 1..n /\ DOMAIN Append(q, e) = 1..(n + 1)
         /\ \A i \in 1..n : Append(q, e)[i] = q[i]
         /\ Append(q, e)[n + 1] = e
  <2>1. /\ Len(q) \in Nat /\ DOMAIN q = 1..Len(q)
        /\ DOMAIN Append(q, e) = 1..(Len(q) + 1)
        /\ \A i \in 1..Len(q) : Append(q, e)[i] = q[i]
        /\ Append(q, e)[Len(q) + 1] = e
    OBVIOUS
  <2> QED BY <2>1
<1>2. 1..(n + 1) = 1..n \cup {n + 1}
  OBVIOUS
<1>3. \A i \in 1..n : q[i] # e
  BY <1>1 DEF ToSet
<1>4. ASSUME NEW i \in 1..(n + 1), NEW j \in 1..(n + 1),
             Append(q, e)[i] = Append(q, e)[j]
      PROVE  i = j
  <2>1. CASE i \in 1..n /\ j \in 1..n
    <3>1. q[i] = q[j]
      BY <1>1, <1>4, <2>1
    <3> QED BY <1>1, <2>1, <3>1 DEF IsInjective
  <2>2. CASE i = n + 1 \/ j = n + 1
    BY <1>1, <1>2, <1>3, <1>4, <2>2
  <2> QED BY <1>2, <2>1, <2>2
<1> QED BY <1>1, <1>4 DEF IsInjective

(***************************************************************************)
(* The requests of s in a step, once more, with what is known of them.     *)
(***************************************************************************)
NewSync(s, x) ==
    \E e \in uplink :
        /\ Accepted(s, e)
        /\ x.request = e.request
        /\ x = Kept(e, session[s].m_seqStats[e.name].localSeqIdx)

(***************************************************************************)
(* A reliable Sync was there before, and its request taken, or its request *)
(* is taken in this step.                                                  *)
(***************************************************************************)
LEMMA OldOrNew ==
    ASSUME Ground, [Next]_vars, NEW s \in SessionActors, FirstBorn(s),
           Carried(s), NEW x \in Synced(s)', IsReliable(x)
    PROVE  /\ x.request \in SyncRequests /\ x.request.name \in Players
           /\ x \in Synced(s) \/ NewSync(s, x)
           /\ x \in Synced(s) => Taken(s, x.request)
           /\ NewSync(s, x) => ~Taken(s, x.request)
           /\ Taken(s, x.request)'
<1>1. x \in Synced(s) \/ NewSync(s, x)
  <2>1. CASE x \notin Synced(s)
    <3>1. PICK e \in uplink :
             /\ Accepted(s, e)
             /\ x = Kept(e, session[s].m_seqStats[e.name].localSeqIdx)
      BY <2>1, SyncedStep DEF Ground, PlayInv
    <3>2. x.request = e.request
      BY <3>1 DEF Kept
    <3> QED BY <3>1, <3>2 DEF NewSync
  <2> QED BY <2>1
<1>2. ASSUME x \in Synced(s)
      PROVE  /\ x.request \in SyncRequests /\ Taken(s, x.request)
             /\ Taken(s, x.request)'
  <2>1. x.request \in SyncRequests /\ Taken(s, x.request)
    BY <1>2, SyncedType DEF Ground, Carried, SyncedFits
  <2> QED BY <2>1, TakenStays DEF Carried
<1>3. ASSUME NewSync(s, x)
      PROVE  /\ x.request \in SyncRequests /\ ~Taken(s, x.request)
             /\ Taken(s, x.request)'
  <2>1. PICK e \in uplink : Accepted(s, e) /\ x.request = e.request
    BY <1>3 DEF NewSync
  <2>2. e.request \in SyncRequests /\ ~Taken(s, e.request)
        /\ Taken(s, e.request)'
    BY <2>1, AcceptFacts, TakesRequest DEF Carried
  <2> QED BY <2>1, <2>2
<1>4. x.request \in SyncRequests
  BY <1>1, <1>2, <1>3
<1>5. x.request.name \in Players
  BY <1>4 DEF SyncRequests
<1> QED BY <1>1, <1>2, <1>3, <1>4, <1>5

(***************************************************************************)
(* Every step keeps SyncedFits.                                            *)
(***************************************************************************)
LEMMA SyncedFitsStep ==
    ASSUME Ground, [Next]_vars, NEW s \in SessionActors, FirstBorn(s),
           Carried(s)
    PROVE  SyncedFits(s)'
<1>1. ASSUME NEW x \in Synced(s)', IsReliable(x)
      PROVE  x.seqIdx \in 1..(Info(s, x.request.name)'.localSeqIdx - 1)
  <2> DEFINE q == x.request.name
             a == Info(s, q)
             b == Info(s, q)'
  <2>1. q \in Players /\ (x \in Synced(s) \/ NewSync(s, x))
    BY <1>1, OldOrNew
  <2>2. CASE x \in Synced(s)
    <3>1. x.seqIdx \in 1..(a.localSeqIdx - 1) /\ a # Null
      BY <1>1, <2>2 DEF Carried, SyncedFits, Taken
    <3>2. b # Null /\ b.localSeqIdx >= a.localSeqIdx
      BY <2>1, <3>1, InfoStep DEF Carried
    <3>3. a.localSeqIdx \in Indices /\ b.localSeqIdx \in Indices
      <4>1. session' \in [SessionActors -> SessionState]
        BY NextInvariant DEF Ground, IInv, TypeOK, SessionTypeOK
      <4>2. b \in MessagesSequenceInfo
        BY <2>1, <3>2, <4>1 DEF Info, SessionState
      <4> QED BY <2>1, <3>1, <4>2, InfoNumbers DEF MessagesSequenceInfo
    <3> HIDE DEF a, b
    <3> QED BY <3>1, <3>2, <3>3 DEF Indices, b
  <2>3. CASE NewSync(s, x)
    <3>1. PICK e \in uplink :
             /\ Accepted(s, e) /\ x.request = e.request
             /\ x = Kept(e, session[s].m_seqStats[e.name].localSeqIdx)
      BY <2>3 DEF NewSync
    <3>2. /\ Info(s, e.name) # Null /\ e.request.name = e.name
          /\ Info(s, e.name)' =
                [localSeqIdx |-> Info(s, e.name).localSeqIdx + 1,
                 remoteSeqIdx |-> e.seqIdx]
      BY <3>1, AcceptFacts DEF Carried
    <3>3. e.name = q
      BY <3>1, <3>2
    <3>4. x.seqIdx = a.localSeqIdx
      BY <3>1, <3>3 DEF Kept, Info
    <3>5. b.localSeqIdx = a.localSeqIdx + 1
      BY <3>2, <3>3
    <3>6. a.localSeqIdx \in 1..(a.remoteSeqIdx + 1)
          /\ a.localSeqIdx \in Indices
      BY <2>1, <3>2, <3>3, InfoNumbers DEF Carried, InfoFits
    <3> HIDE DEF a, b
    <3> QED BY <3>4, <3>5, <3>6 DEF Indices, b
  <2> QED BY <2>1, <2>2, <2>3
<1>2. ASSUME NEW x \in Synced(s)', NEW y \in Synced(s)', IsReliable(x),
             IsReliable(y), y.request = x.request
      PROVE  y = x
  <2>1. CASE x \in Synced(s)
    <3>1. y \in Synced(s)
      BY <1>2, <2>1, OldOrNew
    <3> QED BY <1>2, <2>1, <3>1 DEF Carried, SyncedFits
  <2>2. CASE x \notin Synced(s)
    <3>1. NewSync(s, x) /\ NewSync(s, y)
      BY <1>2, <2>2, OldOrNew
    <3>2. PICK d \in uplink :
             /\ Accepted(s, d) /\ x.request = d.request
             /\ x = Kept(d, session[s].m_seqStats[d.name].localSeqIdx)
      BY <3>1 DEF NewSync
    <3>3. PICK e \in uplink :
             /\ Accepted(s, e) /\ y.request = e.request
             /\ y = Kept(e, session[s].m_seqStats[e.name].localSeqIdx)
      BY <3>1 DEF NewSync
    <3>4. d.request.name = d.name /\ e.request.name = e.name
      BY <3>2, <3>3, AcceptFacts DEF Carried
    <3>5. d.request = e.request /\ d.name = e.name
      BY <1>2, <3>2, <3>3, <3>4
    <3> QED BY <3>2, <3>3, <3>5 DEF Kept
  <2> QED BY <2>1, <2>2
<1>3. \A x \in Synced(s)' : IsReliable(x) => Taken(s, x.request)'
  BY OldOrNew
<1> QED BY <1>1, <1>2, <1>3 DEF SyncedFits, IsReliable

(***************************************************************************)
(* Every step keeps AcksFit.                                               *)
(***************************************************************************)
LEMMA AcksFitStep ==
    ASSUME Ground, [Next]_vars, NEW s \in SessionActors, FirstBorn(s),
           Carried(s)
    PROVE  AcksFit(s)'
<1> SUFFICES ASSUME NEW d \in downlink', d.type = "Ack", d.to.s = s
             PROVE  d.seqIdx \in
                        1..(client'[<<s, d.to.name>>].mLocalSeqIdx - 1)
  BY DEF AcksFit
<1> DEFINE q == d.to.name
           c == <<s, q>>
           i == client[c].mLocalSeqIdx
           j == client'[c].mLocalSeqIdx
<1>1. q \in Players
  <2>1. downlink' \subseteq ToClient
    BY NextInvariant DEF Ground, IInv, TypeOK, SessionTypeOK
  <2>2. d.to \in Addresses
    BY <2>1 DEF ToClient
  <2> QED BY <2>2 DEF Addresses
<1>2. i \in Nat /\ j \in Nat /\ j >= i
  <2>1. c \in Clients /\ Numbered(c) /\ i \in Indices
    BY <1>1, Counts
  <2>2. client' \in [Clients -> ClientState]
    BY NextInvariant DEF Ground, IInv, TypeOK
  <2>3. j \in Indices
    BY <2>1, <2>2 DEF ClientState
  <2> HIDE DEF c
  <2>4. j >= i
    BY <2>1, CountersGrow DEF Ground
  <2> QED BY <2>1, <2>3, <2>4 DEF Indices
<1>3. d.seqIdx \in 1..(i - 1)
  <2>1. CASE d \in downlink
    BY <2>1 DEF Carried, AcksFit
  <2>2. CASE d \notin downlink
    <3>1. PICK e \in uplink :
             /\ e.type = "RequestSync" /\ IsReliable(e)
             /\ d.to = e.from /\ d.seqIdx = e.seqIdx
      BY <2>2, AcksStep DEF Ground, PlayInv
    <3>2. e.from.name = e.name
      BY DEF Ground, PlayInv, UplinkFits
    <3>3. PairOf(e) \in Pairs(c)
      BY <3>1, <3>2 DEF Pairs, RequestsOf
    <3>4. PairOf(e).seqIdx = e.seqIdx
      BY DEF PairOf
    <3>5. IsReliable(PairOf(e))
      BY <3>1, <3>4 DEF IsReliable
    <3>6. Numbered(c)
      BY <1>1, Counts
    <3>7. PairOf(e).seqIdx \in 1..(i - 1)
      BY <3>3, <3>5, <3>6 DEF Numbered
    <3> QED BY <3>1, <3>4, <3>7
  <2> QED BY <2>1, <2>2
<1> HIDE DEF i, j
<1>4. d.seqIdx \in 1..(j - 1)
  BY <1>2, <1>3
<1> QED BY <1>4 DEF j

(***************************************************************************)
(* A client hears d: its index is later than what was heard before, and    *)
(* within the bound.                                                       *)
(***************************************************************************)
LEMMA HearsLater ==
    ASSUME Ground, NEW s \in SessionActors, NEW p \in Players, Carried(s),
           NEW d \in downlink, Hears(<<s, p>>, d)
    PROVE  /\ d.seqIdx \in Nat /\ client[<<s, p>>].mRemoteSeqIdx \in Nat
           /\ d.seqIdx > client[<<s, p>>].mRemoteSeqIdx
           /\ d.seqIdx <= MaxCalls
           /\ d.type = "Sync" =>
                 /\ PairOf(d) \in Synced(s) /\ IsReliable(PairOf(d))
                 /\ PairOf(d).request = d.request
                 /\ PairOf(d).seqIdx = d.seqIdx
<1> DEFINE c == <<s, p>>
           last == client[c].mRemoteSeqIdx
<1>1. /\ c \in Clients /\ last \in Indices
      /\ client[c].mLocalSeqIdx \in 1..(client[c].syncs + 1)
      /\ client[c].syncs \in 0..MaxCalls
  BY Counts
<1>2. /\ d.to.s = s /\ d.to.name = p
      /\ d.type \in {"Ack", "Sync"}
      /\ Accepts(MESSSAGES_BUFFER_SIZE, last, d.seqIdx)
  BY DEF Hears, Address, Acknowledges, IsAckOrSync
<1>3. d \in ToClient
  BY DEF Ground, IInv, TypeOK, SessionTypeOK
<1>4. d.seqIdx \in Indices
  BY <1>1, <1>3, AcknowledgesType DEF Hears
<1>5. last <= MaxCalls
  BY DEF Carried, HeardFits
<1>6. /\ MaxCalls + MESSSAGES_BUFFER_SIZE < IDX_WRAP_MODULE
      /\ MESSSAGES_BUFFER_SIZE \in Nat /\ MaxCalls \in Nat
  BY CallsAssumption DEF Ground, FewCalls
<1> HIDE DEF last, c
<1>7. d.seqIdx > last
  BY <1>1, <1>2, <1>4, <1>5, <1>6, AcceptsLater
<1>8. d.seqIdx \in Nat /\ last \in Nat
  BY <1>1, <1>4 DEF Indices
<1>9. PairOf(d).request = d.request /\ PairOf(d).seqIdx = d.seqIdx
  BY DEF PairOf
<1>10. IsReliable(PairOf(d))
  BY <1>4, <1>9, IndexAssumption DEF IsReliable, Indices
<1>11. CASE d.type = "Ack"
  <2>1. d.seqIdx \in 1..(client[c].mLocalSeqIdx - 1)
    BY <1>2, <1>11 DEF Carried, AcksFit, c
  <2>2. d.seqIdx <= MaxCalls
    BY <1>1, <1>6, <2>1
  <2> QED BY <1>7, <1>8, <1>11, <2>2 DEF last, c
<1>12. CASE d.type = "Sync"
  <2>1. PairOf(d) \in Synced(s)
    BY <1>2, <1>12 DEF Synced, SyncsTo
  <2> DEFINE q == d.request.name
             info == Info(s, q)
             k == client[<<s, q>>]
  <2>2. /\ info # Null
        /\ d.seqIdx \in 1..(info.localSeqIdx - 1)
    BY <1>9, <1>10, <2>1 DEF Carried, SyncedFits, Taken
  <2>3. q \in Players
    <3>1. d.request \in SyncRequests
      BY <1>9, <2>1, SyncedType DEF Ground
    <3> QED BY <3>1 DEF SyncRequests
  <2>4. /\ info.localSeqIdx \in 1..(info.remoteSeqIdx + 1)
        /\ info.remoteSeqIdx < k.mLocalSeqIdx
        /\ info.localSeqIdx \in Indices /\ info.remoteSeqIdx \in Indices
    BY <2>2, <2>3, InfoNumbers DEF Carried, InfoFits
  <2>5. /\ k.mLocalSeqIdx \in 1..(k.syncs + 1)
        /\ k.syncs \in 0..MaxCalls
    BY <2>3, Counts
  <2> HIDE DEF info, k
  <2>6. info.localSeqIdx \in Nat /\ info.remoteSeqIdx \in Nat
    BY <2>4 DEF Indices
  <2>7. info.remoteSeqIdx <= MaxCalls
    BY <1>6, <2>4, <2>5, <2>6
  <2>8. d.seqIdx <= MaxCalls
    BY <1>6, <1>8, <2>2, <2>4, <2>6, <2>7
  <2> QED BY <1>7, <1>8, <1>9, <1>10, <1>12, <2>1, <2>8 DEF last, c
<1> QED BY <1>2, <1>11, <1>12

(***************************************************************************)
(* Every step keeps HeardFits.                                             *)
(***************************************************************************)
LEMMA HeardFitsStep ==
    ASSUME Ground, [Next]_vars, NEW s \in SessionActors, FirstBorn(s),
           Carried(s), NEW p \in Players
    PROVE  HeardFits(s, p)'
<1> DEFINE c == <<s, p>>
           last == client[c].mRemoteSeqIdx
           next == client'[c].mRemoteSeqIdx
<1>1. /\ c \in Clients /\ last \in Indices /\ c[1] = s /\ c[2] = p
      /\ last <= MaxCalls /\ IsInjective(heard[c])
      /\ heard[c] \in Seq(SyncRequests)
      /\ heard \in [Clients -> Seq(SyncRequests)]
  BY Counts DEF Carried, HeardFits, Ground, IInv, TypeOK
<1>2. ASSUME NEW r \in ToSet(heard[c])
      PROVE  /\ r \in SyncRequests /\ Taken(s, r) /\ Taken(s, r)'
             /\ \A y \in Synced(s)' : IsReliable(y) /\ y.request = r =>
                   y \in Synced(s) /\ y.seqIdx <= last
  <2>1. r \in SyncRequests
    BY <1>1, ElementOfSeq, LenProperties DEF ToSet
  <2>2. Taken(s, r) /\ Taken(s, r)'
    BY <2>1, TakenStays DEF Carried, HeardFits
  <2>3. ASSUME NEW y \in Synced(s)', IsReliable(y), y.request = r
        PROVE  y \in Synced(s) /\ y.seqIdx <= last
    <3>1. y \in Synced(s)
      BY <2>2, <2>3, OldOrNew
    <3> QED BY <2>3, <3>1 DEF Carried, HeardFits
  <2> QED BY <2>1, <2>2, <2>3
<1>3. CASE next = last /\ heard'[c] = heard[c]
  <2>1. \A r \in ToSet(heard'[c]) :
           /\ Taken(s, r)'
           /\ \A y \in Synced(s)' : IsReliable(y) /\ y.request = r =>
                 y.seqIdx <= next
    BY <1>2, <1>3
  <2>2. IsInjective(heard'[c]) /\ next <= MaxCalls
    BY <1>1, <1>3
  <2> QED BY <2>1, <2>2 DEF HeardFits, IsReliable
<1>4. ASSUME NEW d \in downlink, Hears(c, d)
      PROVE  HeardFits(s, p)'
  <2>1. /\ d.seqIdx \in Nat /\ last \in Nat
        /\ d.seqIdx > last /\ d.seqIdx <= MaxCalls
        /\ d.type = "Sync" =>
              /\ PairOf(d) \in Synced(s) /\ IsReliable(PairOf(d))
              /\ PairOf(d).request = d.request
              /\ PairOf(d).seqIdx = d.seqIdx
    BY <1>4, HearsLater
  <2>2. next = d.seqIdx
    BY <1>4 DEF Hears
  <2>3. ASSUME NEW r \in ToSet(heard[c]), NEW y \in Synced(s)',
               IsReliable(y), y.request = r
        PROVE  y.seqIdx <= next
    <3>1. y \in Synced(s) /\ y.seqIdx <= last
      BY <1>2, <2>3
    <3>2. y.seqIdx \in Nat
      <4>1. y.seqIdx \in SeqIdxs
        BY <3>1, SyncedType DEF Ground
      <4> QED BY <4>1, IndexAssumption DEF SeqIdxs, Indices, Unreliable
    <3> HIDE DEF last, next
    <3> QED BY <2>1, <2>2, <3>1, <3>2
  <2>4. CASE heard' = heard
    <3>1. IsInjective(heard'[c]) /\ next <= MaxCalls
      BY <1>1, <2>1, <2>2, <2>4
    <3>2. \A r \in ToSet(heard'[c]) :
             /\ Taken(s, r)'
             /\ \A y \in Synced(s)' : IsReliable(y) /\ y.request = r =>
                   y.seqIdx <= next
      BY <1>2, <2>3, <2>4
    <3> QED BY <3>1, <3>2 DEF HeardFits, IsReliable
  <2>5. CASE /\ d.type = "Sync"
             /\ heard' = [heard EXCEPT ![c] = Append(@, d.request)]
    <3>1. heard'[c] = Append(heard[c], d.request)
      BY <1>1, <2>5
    <3>2. /\ d.request \in SyncRequests /\ Taken(s, d.request)
          /\ Taken(s, d.request)'
      <4>1. /\ d.request \in SyncRequests /\ Taken(s, d.request)
        BY <2>1, <2>5, SyncedType DEF Ground, Carried, SyncedFits
      <4> QED BY <4>1, TakenStays DEF Carried
    <3>3. d.request \notin ToSet(heard[c])
      <4> SUFFICES ASSUME d.request \in ToSet(heard[c])
                   PROVE  FALSE
        OBVIOUS
      <4>1. PairOf(d).seqIdx <= last
        BY <2>1, <2>5 DEF Carried, HeardFits
      <4>2. d.seqIdx <= last
        BY <2>1, <2>5, <4>1
      <4> HIDE DEF last
      <4> QED BY <2>1, <4>2
    <3>4. ToSet(heard'[c]) = ToSet(heard[c]) \cup {d.request}
      BY <1>1, <3>1, <3>2, AppendSet
    <3>5. IsInjective(heard'[c])
      <4>1. IsInjective(Append(heard[c], d.request))
        BY <1>1, <3>2, <3>3, AppendNew
      <4> QED BY <3>1, <4>1
    <3>6. ASSUME NEW y \in Synced(s)', IsReliable(y),
                 y.request = d.request
          PROVE  y.seqIdx <= next
      <4>1. y \in Synced(s)
        BY <3>2, <3>6, OldOrNew
      <4>2. y = PairOf(d)
        BY <2>1, <2>5, <3>6, <4>1 DEF Carried, SyncedFits
      <4>3. y.seqIdx = next
        BY <2>1, <2>2, <2>5, <4>2
      <4> HIDE DEF next
      <4> QED BY <2>1, <2>2, <4>3
    <3>7. \A r \in ToSet(heard'[c]) :
             /\ Taken(s, r)'
             /\ \A y \in Synced(s)' : IsReliable(y) /\ y.request = r =>
                   y.seqIdx <= next
      BY <1>2, <2>3, <3>2, <3>4, <3>6
    <3>8. next <= MaxCalls
      BY <2>1, <2>2
    <3> QED BY <3>5, <3>7, <3>8 DEF HeardFits, IsReliable
  <2> QED BY <1>4, <2>4, <2>5 DEF Hears
<1>5. CASE SameIndices(c)
  BY <1>3, <1>5 DEF SameIndices
<1>6. CASE (Sync(c) \/ ReliableSync(c)) /\ heard'[c] = heard[c]
  <2>1. next = last
    BY <1>1, <1>6, SyncShape, ReliableSyncShape DEF Same, Ground
  <2> QED BY <1>3, <1>6, <2>1
<1> HIDE DEF c, last, next
<1>7. \/ SameIndices(c)
      \/ Sync(c) /\ heard'[c] = heard[c]
      \/ ReliableSync(c) /\ heard'[c] = heard[c]
      \/ \E d \in downlink : ClientStep(c) /\ Hears(c, d)
  BY <1>1, ClientsIndex DEF Ground
<1> QED BY <1>4, <1>5, <1>6, <1>7

(***************************************************************************)
(* Before a session is made, nobody sends to or for its clients.           *)
(***************************************************************************)
LEMMA DueBlank ==
    ASSUME IInv, [Next]_vars, NEW s \in SessionActors, ~Born(s)
    PROVE  due'[s] \subseteq due[s]
<1>1. due \in [SessionActors ->
                  SUBSET [request : SyncRequests, seqIdx : SeqIdxs]]
  BY DEF IInv, TypeOK, SessionTypeOK
<1>2. CASE due' = due
  BY <1>2
<1>3. CASE Datagram
  <2>1. PICK e \in uplink : /\ m_sessions[e.id] # Null
                            /\ TakeDatagram(m_sessions[e.id], e)
    BY <1>3 DEF Datagram, TakeEnvelop
  <2> DEFINE u == m_sessions[e.id]
  <2>2. u \in SessionActors /\ u # s
    <3>1. u \in SessionActors /\ e.id \in Ids
      BY <2>1, ToServerFields
         DEF IInv, TypeOK, SessionTypeOK, BackendTypeOK
    <3>2. Born(u)
      BY <2>1, <3>1 DEF IInv, TableSane, Born
    <3> QED BY <3>1, <3>2
  <2> HIDE DEF u
  <2>3. CASE TakeRequestSync(u, e)
    <3>1. due' = due \/ \E idx : due' = [due EXCEPT ![u] =
                           @ \cup {[request |-> e.request, seqIdx |-> idx]}]
      BY <2>3 DEF TakeRequestSync
    <3> QED BY <1>1, <2>2, <3>1
  <2>4. CASE ~TakeRequestSync(u, e)
    <3>1. due' = due
      BY <2>1, <2>4
         DEF u, TakeDatagram, TakeReady, TakeKeepAlive, TakeUnexpected,
             BeginUpdate, TakeMessage, BeginQuit, OnlyReplies
    <3> QED BY <1>2, <3>1
  <2> QED BY <2>3, <2>4
<1>4. ASSUME NEW u \in SessionActors, ServerThreads(u)
      PROVE  due'[s] \subseteq due[s]
  <2>1. CASE SendSync(u)
    <3>1. PICK sync \in due[u] : due' = [due EXCEPT ![u] = @ \ {sync}]
      BY <2>1 DEF SendSync
    <3> QED BY <1>1, <3>1
  <2>2. CASE ~SendSync(u)
    BY <1>4, <2>2
       DEF ServerThreads, SessionActorStep, ActorStep, TaskStep, EndUpdate,
           RemoveQuitter, EndQuit, BeginCheck, VisitHeard, VisitSilent,
           Visit, PassBy, Touch, RemoveSilent, CheckLeft, EndCheck
  <2> QED BY <2>1, <2>2
<1>5. AskSession \/ CreateSession \/ CloseSession \/ UNCHANGED vars
         \/ (\E c \in Clients : ClientStep(c)) => due' = due
  BY ClientsOnly DEF AskSession, CreateSession, TakeCreateSession,
                     CloseSession, TakeCloseSession, vars, serverVars
<1> QED BY <1>2, <1>3, <1>4, <1>5 DEF Next

(***************************************************************************)
(* A session that is not born stays blank.                                 *)
(***************************************************************************)
LEMMA BlankStep ==
    ASSUME Ground, [Next]_vars, NEW s \in SessionActors, ~Born(s), Blank(s)
    PROVE  Blank(s)'
<1>1. due'[s] = {}
  BY DueBlank DEF Ground, Blank
<1>2. ASSUME NEW d \in downlink', d.type \in {"Ack", "Sync"}
      PROVE  d.to.s # s
  <2>1. CASE d \in downlink
    BY <1>2, <2>1 DEF Blank
  <2>2. CASE d \notin downlink /\ d.type = "Ack"
    <3>1. PICK e \in uplink : d.to = e.from
      BY <2>2, AcksStep DEF Ground, PlayInv
    <3>2. Born(e.from.s)
      BY DEF Ground, PlayInv, UplinkFits, Socket, Born
    <3> QED BY <3>1, <3>2
  <2>3. CASE d \notin downlink /\ d.type = "Sync"
    <3>1. SendsSync(d)
      BY <2>3, EveryAnswer DEF Ground, Answers, PlainReplies, SendsAck
    <3>2. PICK t \in SessionActors, p \in Players :
             /\ Joined(session[t], p)
             /\ d.to = session[t].player[p].address
      BY <3>1 DEF SendsSync
    <3>3. Born(d.to.s)
      <4>1. Socket(session, client, session[t].player[p].address)
        BY <3>2 DEF Ground, PlayInv, PlayersFit
      <4> QED BY <3>2, <4>1 DEF Socket, Born
    <3> QED BY <3>3
  <2> QED BY <1>2, <2>1, <2>2, <2>3
<1> QED BY <1>1, <1>2 DEF Blank

(***************************************************************************)
(* A session that is born in this step carries what it must.               *)
(***************************************************************************)
LEMMA MadeCarried ==
    ASSUME Ground, [Next]_vars, NEW s \in SessionActors, ~Born(s), Blank(s)
    PROVE  Carried(s)'
<1>1. session[s].m_state = "unborn" /\ session[s] = Unborn
  BY Before DEF Ground, Sane, Born
<1>2. \A q \in Players : Info(s, q)' = Null
  <2>1. session'[s].m_seqStats = session[s].m_seqStats \/ IsMade(s)
    BY <1>1, SeqStatsStep DEF Ground
  <2>2. IsMade(s) => session'[s].m_seqStats = [p \in Players |-> Null]
    BY MadeType DEF IsMade
  <2>3. session[s].m_seqStats = [p \in Players |-> Null]
    BY <1>1 DEF Unborn
  <2> QED BY <2>1, <2>2, <2>3 DEF Info
<1>3. Blank(s)'
  BY BlankStep
<1>4. Synced(s)' = {}
  BY <1>3 DEF Blank, Synced, SyncsTo
<1>5. SyncedFits(s)' /\ AcksFit(s)'
  BY <1>3, <1>4 DEF SyncedFits, AcksFit, Blank
<1>6. ASSUME NEW p \in Players
      PROVE  HeardFits(s, p)'
  <2> DEFINE c == <<s, p>>
  <2>1. /\ c \in Clients /\ c[1] = s
        /\ client[c].phase = "none"
        /\ client[c] = NewClient("none") /\ heard[c] = << >>
    <3>1. c \in Clients /\ c[1] = s
      BY DEF Clients
    <3>2. ClientSane(c)
      BY <3>1 DEF Ground, IInv, ClientsSane
    <3> QED BY <1>1, <3>1, <3>2 DEF ClientSane
  <2> HIDE DEF c
  <2>2. client[c].mRemoteSeqIdx = 0
    BY <2>1 DEF NewClient
  <2>3. ~Sync(c) /\ ~ReliableSync(c)
    BY <2>1 DEF Sync, ReliableSync, MayCall
  <2>4. ~ClientStep(c)
    <3>1. ClientStep(c) => PlayStep(c)
      BY <2>1, ClientFields DEF Ground
    <3> QED BY <2>1, <3>1 DEF PlayStep
  <2>5. SameIndices(c)
    BY <2>1, <2>3, <2>4, ClientsIndex DEF Ground
  <2>6. client'[c].mRemoteSeqIdx = 0 /\ heard'[c] = << >>
    BY <2>1, <2>2, <2>5 DEF SameIndices
  <2>7. IsInjective(heard'[c]) /\ ToSet(heard'[c]) = {}
    BY <2>6 DEF IsInjective, ToSet
  <2>8. client'[c].mRemoteSeqIdx <= MaxCalls
    BY <2>6, CallsAssumption
  <2> QED BY <2>7, <2>8 DEF HeardFits, c
<1> QED BY <1>2, <1>5, <1>6 DEF Carried, InfoFits

(***************************************************************************)
(* The conjunction is inductive.                                           *)
(***************************************************************************)
LEMMA OnceStep ==
    ASSUME Ground, OnceInv, [Next]_vars
    PROVE  AllNumbered' /\ OnceInv'
<1>1. AllNumbered'
  BY NumberedStep DEF Ground, AllNumbered
<1>2. ASSUME NEW s \in SessionActors
      PROVE  /\ ~Born(s)' => Blank(s)'
             /\ FirstBorn(s)' => Carried(s)'
  <2>1. CASE ~Born(s)
    BY <2>1, BlankStep, MadeCarried DEF OnceInv
  <2>2. CASE Born(s)
    <3>1. Born(s)'
      BY <2>2, SessionContinues DEF Ground, Continues, Born
    <3>2. ASSUME FirstBorn(s)'
          PROVE  Carried(s)'
      <4>1. FirstBorn(s) /\ Carried(s)
        BY <2>2, <3>2, FirstBornBefore DEF Ground, OnceInv
      <4>2. SyncedFits(s)' /\ AcksFit(s)'
        BY <4>1, SyncedFitsStep, AcksFitStep
      <4>3. \A p \in Players : InfoFits(s, p)' /\ HeardFits(s, p)'
        BY <4>1, InfoStep, HeardFitsStep DEF Carried
      <4> QED BY <4>2, <4>3 DEF Carried
    <3> QED BY <3>1, <3>2
  <2> QED BY <2>1, <2>2
<1> QED BY <1>1, <1>2 DEF OnceInv

(***************************************************************************)
(* The conjunction is an invariant, as long as the indices do not wrap.    *)
(***************************************************************************)
LEMMA OnceInvariant ==
    ASSUME FewCalls
    PROVE  Spec => [](AllNumbered /\ OnceInv)
<1>1. Init => AllNumbered
  <2> SUFFICES ASSUME Init, NEW c \in Clients
               PROVE  Numbered(c)
    BY DEF AllNumbered
  <2>1. client[c] = NewClient("none") /\ uplink = {}
    BY DEF Init, SessionInit
  <2>2. /\ client[c].mLocalSeqIdx = 1 /\ client[c].syncs = 0
        /\ client[c].mOutputQueue = << >>
    BY <2>1 DEF NewClient
  <2>3. Pairs(c) = {}
    BY <2>1, <2>2 DEF Pairs, RequestsOf, ToSet
  <2> QED BY <2>2, <2>3 DEF Numbered
<1>2. Init => OnceInv
  BY DEF Init, SessionInit, Unborn, OnceInv, Born, FirstBorn, Blank
<1>3. /\ IInv /\ IndicesFresh /\ PlayInv /\ AllNumbered /\ OnceInv
      /\ [Next]_vars
      => AllNumbered' /\ OnceInv'
  BY OnceStep DEF Ground
<1> QED BY <1>1, <1>2, <1>3, SessionInvariant, FreshInvariant,
           PlayInvariant, PTL DEF Spec

(***************************************************************************)
(* For any number of players and sessions, whatever the network loses,     *)
(* repeats or delays and however often a request is sent again: onSync is  *)
(* called at most once for it, as long as the requests of a player are so  *)
(* few that their indices do not come around.                              *)
(***************************************************************************)
THEOREM HeardOnceTheorem ==
    ASSUME FewCalls
    PROVE  Spec => []HeardOnce
<1>1. IInv /\ OnceInv => HeardOnce
  <2> SUFFICES ASSUME IInv, OnceInv, NEW c \in Clients, FirstOwner(c[1])
               PROVE  IsInjective(heard[c])
    BY DEF HeardOnce
  <2>1. /\ c[1] \in SessionActors /\ c[2] \in Players
        /\ c = <<c[1], c[2]>>
    BY DEF Clients
  <2>2. CASE Born(c[1])
    <3>1. FirstBorn(c[1])
      BY <2>1, <2>2 DEF FirstBorn, FirstOwner
    <3>2. HeardFits(c[1], c[2])
      BY <2>1, <3>1 DEF OnceInv, Carried
    <3> QED BY <2>1, <3>2 DEF HeardFits
  <2>3. CASE ~Born(c[1])
    <3>1. heard[c] = << >>
      BY <2>3 DEF IInv, ClientsSane, ClientSane, Born
    <3> QED BY <3>1 DEF IsInjective
  <2> QED BY <2>2, <2>3
<1> QED BY <1>1, SessionInvariant, OnceInvariant, PTL
=============================================================================
