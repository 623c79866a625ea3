------------------------ MODULE SessionSystem_proofs ------------------------
(***************************************************************************)
(* Theorems about game sessions for any number of sessions, players, ids   *)
(* and calls: what checkAcknowledgement accepts, the types, the table of   *)
(* sessions, and the indices of reliable requests.                         *)
(***************************************************************************)
EXTENDS SessionSystem, TLAPS, SequenceTheorems, WellFoundedInduction

-----------------------------------------------------------------------------
(***************************************************************************)
(* The remainders of the sums of an index and the modulus.                 *)
(***************************************************************************)
LEMMA Remainders ==
    ASSUME NEW n \in Nat, n > 0, NEW x \in 0..(n - 1)
    PROVE  /\ x % n = x
           /\ (n + x) % n = x
  BY SMTT(30)

(***************************************************************************)
(* Ahead without the remainder: straight on, or across the wrap.           *)
(***************************************************************************)
LEMMA AheadIs ==
    ASSUME NEW last \in Indices, NEW idx \in Indices
    PROVE  /\ idx >= last => Ahead(last, idx) = idx - last
           /\ idx < last => Ahead(last, idx) = IDX_WRAP_MODULE + idx - last
<1>1. /\ IDX_WRAP_MODULE \in Nat
      /\ IDX_WRAP_MODULE > 0
  BY IndexAssumption
<1>2. CASE idx >= last
  <2>1. idx - last \in 0..(IDX_WRAP_MODULE - 1)
    BY <1>1, <1>2 DEF Indices
  <2>2. IDX_WRAP_MODULE + idx - last = IDX_WRAP_MODULE + (idx - last)
    BY <1>1 DEF Indices
  <2>3. (IDX_WRAP_MODULE + (idx - last)) % IDX_WRAP_MODULE = idx - last
    BY <1>1, <2>1, Remainders
  <2> QED BY <1>1, <1>2, <2>2, <2>3 DEF Ahead, Indices
<1>3. CASE idx < last
  <2>1. IDX_WRAP_MODULE + idx - last \in 0..(IDX_WRAP_MODULE - 1)
    BY <1>1, <1>3 DEF Indices
  <2>2. Ahead(last, idx) = IDX_WRAP_MODULE + idx - last
    BY <1>1, <2>1, Remainders DEF Ahead
  <2> QED BY <1>1, <1>3, <2>2 DEF Indices
<1> QED BY <1>1, <1>2, <1>3 DEF Indices

(***************************************************************************)
(* For every modulus, every window up to it and every two indices, the     *)
(* comparisons of checkAcknowledgement (SessionActor.scala, Session.cpp)   *)
(* accept exactly the indices that are ahead by less than the window.      *)
(***************************************************************************)
THEOREM WindowTheorem == AcceptsWindow
<1> SUFFICES ASSUME NEW window \in 1..IDX_WRAP_MODULE,
                    NEW last \in Indices, NEW idx \in Indices
             PROVE  Accepts(window, last, idx)
                        <=> Ahead(last, idx) \in 1..(window - 1)
  BY DEF AcceptsWindow
<1>1. /\ IDX_WRAP_MODULE \in Nat
      /\ window \in Nat
      /\ last \in Int
      /\ idx \in Int
  BY IndexAssumption DEF Indices
<1>2. CASE idx >= last
  <2>1. Ahead(last, idx) = idx - last
    BY <1>2, AheadIs
  <2>2. Accepts(window, last, idx) <=> idx # last /\ idx - last < window
    BY <1>1, <1>2 DEF Accepts, Indices
  <2> QED BY <1>1, <1>2, <2>1, <2>2
<1>3. CASE idx < last
  <2>1. Ahead(last, idx) = IDX_WRAP_MODULE + idx - last
    BY <1>3, AheadIs
  <2>2. Accepts(window, last, idx) <=> IDX_WRAP_MODULE + idx - last < window
    BY <1>1, <1>3 DEF Accepts, Indices
  <2> QED BY <1>1, <1>3, <2>1, <2>2 DEF Indices
<1> QED BY <1>1, <1>2, <1>3

-----------------------------------------------------------------------------
(***************************************************************************)
(* The inductive invariant.                                                *)
(***************************************************************************)
Begun(x) == x.m_state \in {"Running", "stopped"}

Joined(x, p) == x.player[p] # Null

(***************************************************************************)
(* x, a and t are the fields, the thread and the keep-alive task of one    *)
(* session.  Threads only work on a session that has begun; what they put  *)
(* back into m_stats was there before, and an entry of m_stats always      *)
(* stands for a player who has sent Ready.                                 *)
(***************************************************************************)
Sane(x, a, t) ==
    /\ x.m_state = "unborn" => x = Unborn
    /\ x.m_state # "unborn" => x.m_id \in Ids
    /\ \A p \in x.m_stats : Joined(x, p)
    /\ Begun(x) => \A p \in x.players : Joined(x, p)
    /\ ~Begun(x) => a = Idle /\ t = Idle
    /\ a.at = "updating" =>
          a.datagram.type = "Update" /\ Joined(x, a.datagram.name)
    /\ t.at = "touching" => Joined(x, t.name)

SessionsSane ==
    \A s \in SessionActors : Sane(session[s], actor[s], task[s])

(***************************************************************************)
(* The session that holds a slot bears its id.                             *)
(***************************************************************************)
TableSane ==
    \A id \in Ids :
        m_sessions[id] # Null =>
            /\ session[m_sessions[id]].m_state # "unborn"
            /\ session[m_sessions[id]].m_id = id

(***************************************************************************)
(* A Session object exists for a session only; one that has called startup *)
(* has a socket.  calls bounds what it has counted.                        *)
(***************************************************************************)
ClientSane(c) ==
    /\ client[c].phase = "none" =>
          client[c] = NewClient("none") /\ heard[c] = << >>
    /\ client[c].phase # "none" => session[c[1]].m_state # "unborn"
    /\ client[c].phase \in {"ready", "granted", "started"} =>
          client[c].port > 0
    /\ client[c].calls + client[c].syncs <= MaxCalls
    /\ client[c].calls + client[c].updates <= MaxCalls

ClientsSane == \A c \in Clients : ClientSane(c)

IInv == TypeOK /\ SessionsSane /\ TableSane /\ ClientsSane

-----------------------------------------------------------------------------
(***************************************************************************)
(* Data.                                                                   *)
(***************************************************************************)
(***************************************************************************)
(* The state of a session before it is made, and of a thread at rest.      *)
(***************************************************************************)
LEMMA BlankType ==
    /\ Unborn \in SessionState
    /\ Idle \in ActorStates
    /\ Idle \in TaskStates
<1>1. 0 \in 0..MaxCalls
  BY CallsAssumption
<1> QED BY <1>1
        DEF Unborn, SessionState, Idle, ActorStates, TaskStates

(***************************************************************************)
(* What every datagram to the server has, and what some have.              *)
(***************************************************************************)
LEMMA ToServerFields ==
    ASSUME NEW d \in ToServer
    PROVE  /\ d.id \in Ids /\ d.from \in Addresses /\ d.name \in Players
           /\ d.type = "Update" => d.timestamp \in 1..MaxCalls
           /\ d.type = "RequestSync" =>
                 d.request \in SyncRequests /\ d.seqIdx \in SeqIdxs
  BY DEF ToServer

(***************************************************************************)
(* A datagram to the server that has no more than a name is well typed.    *)
(***************************************************************************)
LEMMA ToServerPlain ==
    ASSUME NEW type \in {"Ready", "KeepAlive", "Message", "Quit"},
           NEW id \in Ids, NEW a \in Addresses, NEW p \in Players
    PROVE  [type |-> type, id |-> id, from |-> a, name |-> p] \in ToServer
  BY DEF ToServer

(***************************************************************************)
(* Replies that bear no data.                                              *)
(***************************************************************************)
LEMMA ToType ==
    ASSUME NEW a \in Addresses,
           NEW type \in {"SUCC", "SUCK", "Start", "SessionState"}
    PROVE  /\ To(a, type) \in ToClient
           /\ To(a, type).to = a /\ To(a, type).type = type
  BY DEF To, ToClient

(***************************************************************************)
(* So is one to a client.                                                  *)
(***************************************************************************)
LEMMA ToNamed ==
    ASSUME NEW a \in Addresses, NEW type \in {"Message", "Quit"},
           NEW p \in Players
    PROVE  [to |-> a, type |-> type, name |-> p] \in ToClient
  BY DEF ToClient

(***************************************************************************)
(* A reply to another address is well typed and differs in nothing else.   *)
(***************************************************************************)
LEMMA Redirected ==
    ASSUME NEW reply \in ToClient, NEW a \in Addresses
    PROVE  /\ [reply EXCEPT !.to = a] \in ToClient
           /\ [reply EXCEPT !.to = a].to = a
           /\ [reply EXCEPT !.to = a].type = reply.type
  BY DEF ToClient

(***************************************************************************)
(* A player who has joined has an address.                                 *)
(***************************************************************************)
LEMMA JoinedType ==
    ASSUME NEW x \in SessionState, NEW p \in Players, Joined(x, p)
    PROVE  /\ x.player[p] \in PlayerStatistics
           /\ x.player[p].address \in Addresses
  BY DEF SessionState, Joined, PlayerStatistics

(***************************************************************************)
(* Whoever is served by a loop over m_stats is a player of the session, or *)
(* the sender, who may be told of a failure.                               *)
(***************************************************************************)
LEMMA LoopRepliesType ==
    ASSUME NEW x \in SessionState, \A p \in x.m_stats : Joined(x, p),
           NEW names \in SUBSET Players, NEW reply \in ToClient,
           NEW replies \in LoopReplies(x, names, reply), NEW r \in replies
    PROVE  /\ r \in ToClient
           /\ \/ r = To(reply.to, "SUCK")
              \/ r.type = reply.type
<1>1. /\ x.m_stats \subseteq Players
      /\ reply.to \in Addresses
  BY DEF SessionState, ToClient
<1>2. ASSUME NEW some \in SUBSET x.m_stats,
             r \in {[reply EXCEPT !.to = a] : a \in Addressed(x, some)}
      PROVE r \in ToClient /\ r.type = reply.type
  <2>1. PICK p \in some : r = [reply EXCEPT !.to = x.player[p].address]
    BY <1>2 DEF Addressed
  <2>2. x.player[p].address \in Addresses
    BY <1>1, JoinedType
  <2> QED BY <2>1, <2>2, Redirected
<1>3. CASE names \subseteq x.m_stats
  BY <1>2, <1>3 DEF LoopReplies
<1>4. CASE ~(names \subseteq x.m_stats)
  <2>1. PICK some \in SUBSET (names \cap x.m_stats) :
            r \in {[reply EXCEPT !.to = a] : a \in Addressed(x, some)}
                  \cup {To(reply.to, "SUCK")}
    BY <1>4 DEF LoopReplies
  <2> QED BY <1>1, <1>2, <2>1, ToType
<1> QED BY <1>3, <1>4

(***************************************************************************)
(* A set of naturals that is not empty has a least element.                *)
(***************************************************************************)
LEMMA NatMin ==
    ASSUME NEW T \in SUBSET Nat, T # {}
    PROVE  \E x \in T : \A y \in T : x <= y
<1>1. \E x \in T : \A y \in T : ~(<<y, x>> \in OpToRel(<, Nat))
  BY NatLessThanWellFounded, WFMin, Zenon
<1>2. ASSUME NEW x \in Nat, NEW y \in Nat, ~(<<y, x>> \in OpToRel(<, Nat))
      PROVE x <= y
  BY <1>2 DEF OpToRel
<1> QED BY <1>1, <1>2

(***************************************************************************)
(* Taking an element out of a sequence leaves others of it.                *)
(***************************************************************************)
LEMMA RemoveAtType ==
    ASSUME NEW S, NEW q \in Seq(S), NEW i \in 1..Len(q)
    PROVE  /\ RemoveAt(q, i) \in Seq(S)
           /\ ToSet(RemoveAt(q, i)) \subseteq ToSet(q)
<1> DEFINE a == SubSeq(q, 1, i - 1)
           b == SubSeq(q, i + 1, Len(q))
<1>0. Len(q) \in Nat
  OBVIOUS
<1>1. /\ Len(q) \in Nat /\ i \in Nat /\ i <= Len(q)
      /\ \A j \in 1..Len(q) : q[j] \in S
      /\ DOMAIN q = 1..Len(q)
  BY ElementOfSeq
<1>2. /\ a \in Seq(S) /\ Len(a) = i - 1
      /\ \A j \in 1..(i - 1) : a[j] = q[j]
  BY <1>0
<1>3. /\ b \in Seq(S) /\ Len(b) = Len(q) - i
      /\ \A j \in 1..(Len(q) - i) : b[j] = q[i + j]
  BY <1>0
<1> HIDE DEF a, b
<1>4. /\ a \o b \in Seq(S) /\ Len(a \o b) = Len(q) - 1
      /\ \A j \in 1..(Len(q) - 1) :
            (a \o b)[j] = IF j <= i - 1 THEN a[j] ELSE b[j - (i - 1)]
  <2>1. /\ a \o b \in Seq(S)
        /\ Len(a \o b) = Len(a) + Len(b)
        /\ \A j \in 1..(Len(a) + Len(b)) : (a \o b)[j] =
              IF j <= Len(a) THEN a[j] ELSE b[j - Len(a)]
    BY <1>2, <1>3, ConcatProperties
  <2>2. Len(a) + Len(b) = Len(q) - 1
    BY <1>1, <1>2, <1>3
  <2> QED BY <1>2, <2>1, <2>2
<1>5. RemoveAt(q, i) = a \o b
  BY DEF RemoveAt, a, b
<1>6. ASSUME NEW j \in 1..(Len(q) - 1) PROVE (a \o b)[j] \in ToSet(q)
  <2>1. CASE j <= i - 1
    <3>1. (a \o b)[j] = q[j] /\ j \in 1..Len(q)
      BY <1>1, <1>2, <1>4, <2>1
    <3> QED BY <1>1, <3>1 DEF ToSet
  <2>2. CASE ~(j <= i - 1)
    <3>1. (a \o b)[j] = b[j - (i - 1)]
      BY <1>1, <1>4, <2>2
    <3>2. j - (i - 1) \in 1..(Len(q) - i) /\ i + (j - (i - 1)) = j + 1
      BY <1>1, <2>2
    <3>3. (a \o b)[j] = q[j + 1] /\ j + 1 \in 1..Len(q)
      BY <1>1, <1>3, <3>1, <3>2
    <3> QED BY <1>1, <3>3 DEF ToSet
  <2> QED BY <2>1, <2>2
<1>7. DOMAIN (a \o b) = 1..(Len(q) - 1)
  BY <1>4, LenProperties
<1>8. \A z \in ToSet(a \o b) : z \in ToSet(q)
  BY <1>6, <1>7 DEF ToSet
<1> QED BY <1>4, <1>5, <1>8

(***************************************************************************)
(* The output queue, when an index has been acknowledged.                  *)
(***************************************************************************)
Outputs == [request : SyncRequests, seqIdx : Indices]

(***************************************************************************)
(* checkAcknowledgement of the client sets the remote index and takes      *)
(* requests out of the queue.                                              *)
(***************************************************************************)
LEMMA AcknowledgedType ==
    ASSUME NEW c \in Clients, client[c] \in ClientState, NEW idx \in Indices
    PROVE  /\ Acknowledged(c, idx) \in ClientState
           /\ Acknowledged(c, idx) =
                 [client[c] EXCEPT
                    !.mRemoteSeqIdx = idx,
                    !.mOutputQueue = Acknowledged(c, idx).mOutputQueue]
           /\ ToSet(Acknowledged(c, idx).mOutputQueue)
                 \subseteq ToSet(client[c].mOutputQueue)
<1> DEFINE q == client[c].mOutputQueue
           I == {i \in 1..Len(q) : q[i].seqIdx = idx}
           i == IF I # {} THEN Min(I) ELSE 0
           rest == IF i = 0 THEN q ELSE RemoveAt(q, i)
<1>1. q \in Seq(Outputs) /\ Len(q) \in Nat
  BY DEF ClientState, Outputs
<1>2. Acknowledged(c, idx) =
          [client[c] EXCEPT !.mRemoteSeqIdx = idx, !.mOutputQueue = rest]
  BY DEF Acknowledged, SelectInSeq
<1>3. i = 0 \/ i \in 1..Len(q)
  <2>1. CASE I # {}
    <3>1. I \in SUBSET Nat
      BY <1>1
    <3>2. PICK x \in I : \A y \in I : x <= y
      BY <2>1, <3>1, NatMin, Zenon
    <3>3. Min(I) \in I
      BY <3>2 DEF Min
    <3> QED BY <2>1, <3>3
  <2> QED BY <2>1
<1> HIDE DEF i
<1>4. rest \in Seq(Outputs) /\ ToSet(rest) \subseteq ToSet(q)
  BY <1>1, <1>3, RemoveAtType
<1> HIDE DEF rest
<1>5. Acknowledged(c, idx) \in ClientState
  BY <1>2, <1>4 DEF ClientState, Outputs
<1>6. Acknowledged(c, idx).mOutputQueue = rest
  BY <1>2 DEF ClientState
<1> QED BY <1>2, <1>4, <1>5, <1>6

-----------------------------------------------------------------------------
(***************************************************************************)
(* Steps of the server.                                                    *)
(***************************************************************************)
WiresOK ==
    /\ due \in [SessionActors ->
                   SUBSET [request : SyncRequests, seqIdx : SeqIdxs]]
    /\ requests \in Seq(BackendRequests)
    /\ uplink \subseteq ToServer
    /\ downlink \subseteq ToClient

(***************************************************************************)
(* A step of session s alone.                                              *)
(***************************************************************************)
LEMMA Moved ==
    ASSUME IInv, NEW s \in SessionActors, NEW x \in SessionState,
           NEW a \in ActorStates, NEW t \in TaskStates, Sane(x, a, t),
           session' = [session EXCEPT ![s] = x],
           actor' = [actor EXCEPT ![s] = a],
           task' = [task EXCEPT ![s] = t],
           session[s].m_state # "unborn", x.m_state # "unborn",
           x.m_id = session[s].m_id, WiresOK',
           UNCHANGED <<m_sessions, m_freeSessions, client, heard>>
    PROVE  IInv'
<1>1. /\ session \in [SessionActors -> SessionState]
      /\ actor \in [SessionActors -> ActorStates]
      /\ task \in [SessionActors -> TaskStates]
  BY DEF IInv, TypeOK, SessionTypeOK
<1>2. TypeOK'
  BY <1>1 DEF IInv, TypeOK, SessionTypeOK, BackendTypeOK, WiresOK
<1>3. SessionsSane'
  BY <1>1 DEF IInv, SessionsSane
<1>4. \A u \in SessionActors :
         /\ session'[u].m_id = session[u].m_id
         /\ session[u].m_state # "unborn" => session'[u].m_state # "unborn"
  BY <1>1
<1>5. TableSane'
  BY <1>4 DEF IInv, TypeOK, BackendTypeOK, TableSane
<1>6. ClientsSane'
  BY <1>4 DEF IInv, ClientsSane, ClientSane, Clients
<1> QED BY <1>2, <1>3, <1>5, <1>6 DEF IInv

(***************************************************************************)
(* A step that only sends or takes messages.                               *)
(***************************************************************************)
LEMMA OnlyWires ==
    ASSUME IInv, WiresOK',
           UNCHANGED <<session, actor, task, m_sessions, m_freeSessions,
                       client, heard>>
    PROVE  IInv'
<1>1. TypeOK'
  BY DEF IInv, TypeOK, SessionTypeOK, BackendTypeOK, WiresOK
<1> QED BY <1>1 DEF IInv, SessionsSane, TableSane, ClientsSane, ClientSane

(***************************************************************************)
(* What holds of a session before a step.                                  *)
(***************************************************************************)
LEMMA Before ==
    ASSUME IInv, NEW s \in SessionActors
    PROVE  /\ session \in [SessionActors -> SessionState]
           /\ actor \in [SessionActors -> ActorStates]
           /\ task \in [SessionActors -> TaskStates]
           /\ session[s] \in SessionState /\ actor[s] \in ActorStates
           /\ task[s] \in TaskStates
           /\ Sane(session[s], actor[s], task[s])
           /\ WiresOK
  BY DEF IInv, TypeOK, SessionTypeOK, SessionsSane, WiresOK

(***************************************************************************)
(* Reading a datagram and sending typed replies keeps the wires typed.     *)
(***************************************************************************)
LEMMA Delivered ==
    ASSUME WiresOK, NEW d, NEW replies, Exchanged(d, replies),
           replies \subseteq ToClient, UNCHANGED <<due, requests>>
    PROVE  WiresOK'
  BY DEF WiresOK, Exchanged, Sent

(***************************************************************************)
(* A handler that answers and changes nothing.                             *)
(***************************************************************************)
LEMMA OnlyRepliesStep ==
    ASSUME IInv, NEW d, NEW replies, OnlyReplies(d, replies),
           replies \subseteq ToClient,
           UNCHANGED <<m_sessions, m_freeSessions, client, heard>>
    PROVE  IInv'
<1>1. WiresOK
  BY DEF IInv, TypeOK, SessionTypeOK, WiresOK
<1>2. WiresOK'
  BY <1>1, Delivered DEF OnlyReplies
<1> QED BY <1>2, OnlyWires DEF OnlyReplies

(***************************************************************************)
(* What Ready makes of the session: the player with the address it came    *)
(* from and fresh indices.                                                 *)
(***************************************************************************)
LEMMA WithReadyType ==
    ASSUME NEW x \in SessionState, NEW d \in ToServer
    PROVE  LET after == WithReady(x, d) IN
           /\ after \in SessionState
           /\ after.m_stats = x.m_stats \cup {d.name}
           /\ after.player = [x.player EXCEPT ![d.name] =
                  [address |-> d.from, updateTimestamp |-> 0]]
           /\ after.m_seqStats = [x.m_seqStats EXCEPT ![d.name] =
                  [localSeqIdx |-> 1, remoteSeqIdx |-> 0]]
           /\ after.m_state = x.m_state /\ after.m_id = x.m_id
           /\ after.players = x.players /\ after.m_shared = x.m_shared
<1>1. d.from \in Addresses /\ d.name \in Players
  BY ToServerFields
<1>2. 0 \in 0..MaxCalls /\ 0 \in Indices /\ 1 \in Indices
  BY CallsAssumption, IndexAssumption DEF Indices
<1>3. [address |-> d.from, updateTimestamp |-> 0] \in PlayerStatistics
  BY <1>1, <1>2 DEF PlayerStatistics
<1>4. [localSeqIdx |-> 1, remoteSeqIdx |-> 0] \in MessagesSequenceInfo
  BY <1>2 DEF MessagesSequenceInfo
<1> QED BY <1>1, <1>3, <1>4 DEF WithReady, SessionState

(***************************************************************************)
(* Ready of a player of the session.                                       *)
(***************************************************************************)
LEMMA WithReadyJoined ==
    ASSUME NEW x \in SessionState, NEW d \in ToServer,
           \A p \in x.m_stats : Joined(x, p)
    PROVE  /\ \A p \in WithReady(x, d).m_stats : Joined(WithReady(x, d), p)
           /\ Joined(WithReady(x, d), d.name)
           /\ \A p \in Players :
                 Joined(x, p) => Joined(WithReady(x, d), p)
<1>1. d.from \in Addresses /\ d.name \in Players
  BY ToServerFields
<1>2. x.player \in [Players -> PlayerStatistics \cup {Null}]
      /\ x.m_stats \subseteq Players
  BY DEF SessionState
<1>3. [address |-> d.from, updateTimestamp |-> 0] \in PlayerStatistics
  BY <1>1, CallsAssumption DEF PlayerStatistics
<1> DEFINE r == [address |-> d.from, updateTimestamp |-> 0]
           after == WithReady(x, d)
<1>4. r # Null
  BY <1>3, NullAssumption
<1>5. /\ after.m_stats = x.m_stats \cup {d.name}
      /\ after.player = [x.player EXCEPT ![d.name] = r]
  BY WithReadyType
<1> HIDE DEF r, after
<1>6. \A p \in Players :
         after.player[p] = IF p = d.name THEN r ELSE x.player[p]
  BY <1>1, <1>2, <1>5
<1>7. /\ \A p \in after.m_stats : Joined(after, p)
      /\ Joined(after, d.name)
      /\ \A p \in Players : Joined(x, p) => Joined(after, p)
  BY <1>1, <1>2, <1>4, <1>5, <1>6 DEF Joined
<1> QED BY <1>7 DEF after

(***************************************************************************)
(* Waiting: Ready.                                                         *)
(***************************************************************************)
LEMMA TakeReadyStep ==
    ASSUME IInv, NEW s \in SessionActors, NEW d \in uplink, TakeReady(s, d),
           UNCHANGED <<m_sessions, m_freeSessions, client, heard>>
    PROVE  IInv'
<1> DEFINE x == session[s]
           after == WithReady(x, d)
           starts == {To(after.player[p].address, "Start") :
                         p \in after.m_stats}
           running == [after EXCEPT !.m_state = "Running"]
<1>1. /\ session \in [SessionActors -> SessionState]
      /\ actor \in [SessionActors -> ActorStates]
      /\ task \in [SessionActors -> TaskStates]
      /\ x \in SessionState /\ actor[s] \in ActorStates
      /\ task[s] \in TaskStates
      /\ Sane(x, actor[s], task[s])
      /\ WiresOK /\ d \in ToServer
  BY Before DEF WiresOK
<1>2. /\ x.m_state = "Waiting"
      /\ UNCHANGED <<actor, task, due, requests>>
      /\ d.from \in Addresses
  BY <1>1, ToServerFields DEF TakeReady, Takes
<1>3. CASE d.name \notin x.players /\ OnlyReplies(d, {To(d.from, "SUCK")})
  BY <1>2, <1>3, ToType, OnlyRepliesStep
<1>4. /\ after \in SessionState
      /\ after.m_state = "Waiting" /\ after.m_id = x.m_id
      /\ \A p \in after.m_stats : Joined(after, p)
  BY <1>1, <1>2, WithReadyType, WithReadyJoined DEF Sane
<1>5. CASE /\ session' = [session EXCEPT ![s] = after]
           /\ Exchanged(d, {To(d.from, "SUCC")})
  <2>1. Sane(after, actor[s], task[s])
    BY <1>1, <1>2, <1>4 DEF Sane, Begun, Idle
  <2>2. WiresOK'
    BY <1>1, <1>2, <1>5, ToType, Delivered
  <2>3. actor' = [actor EXCEPT ![s] = actor[s]]
        /\ task' = [task EXCEPT ![s] = task[s]]
    BY <1>1, <1>2
  <2> QED BY <1>1, <1>2, <1>4, <1>5, <2>1, <2>2, <2>3, Moved
<1>6. CASE /\ AllReady(after)
           /\ session' = [session EXCEPT ![s] = running]
           /\ Exchanged(d, starts)
  <2>1. /\ running \in SessionState
        /\ running.m_state = "Running" /\ running.m_id = x.m_id
        /\ running.players = after.players
        /\ running.player = after.player
        /\ running.m_stats = after.m_stats
    BY <1>4 DEF SessionState
  <2>2. Sane(running, actor[s], task[s])
    BY <1>1, <1>2, <1>4, <1>6, <2>1
       DEF Sane, Begun, Idle, Joined, AllReady
  <2>3. starts \subseteq ToClient
    <3>1. ASSUME NEW p \in after.m_stats
          PROVE To(after.player[p].address, "Start") \in ToClient
      BY <1>4, JoinedType, ToType DEF SessionState
    <3> QED BY <3>1
  <2> HIDE DEF starts, running
  <2>4. WiresOK'
    BY <1>1, <1>2, <1>6, <2>3, Delivered
  <2>5. actor' = [actor EXCEPT ![s] = actor[s]]
        /\ task' = [task EXCEPT ![s] = task[s]]
    BY <1>1, <1>2
  <2>6. /\ session' = [session EXCEPT ![s] = running]
        /\ running.m_state # "unborn" /\ running.m_id = session[s].m_id
        /\ session[s].m_state # "unborn"
        /\ Sane(running, actor[s], task[s])
    BY <1>2, <1>6, <2>1, <2>2
  <2> QED BY <1>1, <2>1, <2>4, <2>5, <2>6, Moved
<1> QED BY <1>2, <1>3, <1>5, <1>6 DEF TakeReady, OnlyReplies

(***************************************************************************)
(* KeepAlive, and what is not expected in the state of the session.        *)
(***************************************************************************)
LEMMA TakePlainStep ==
    ASSUME IInv, NEW s \in SessionActors, NEW d \in uplink,
           TakeKeepAlive(s, d) \/ TakeUnexpected(s, d),
           UNCHANGED <<m_sessions, m_freeSessions, client, heard>>
    PROVE  IInv'
<1>1. WiresOK /\ d \in ToServer
  BY Before DEF WiresOK
<1>2. d.from \in Addresses
  BY <1>1, ToServerFields
<1>3. PICK replies : /\ OnlyReplies(d, replies)
                     /\ replies \in {{}, {To(d.from, "SUCK")}}
  BY DEF TakeKeepAlive, TakeUnexpected
<1>4. replies \subseteq ToClient
  BY <1>2, <1>3, ToType
<1> QED BY <1>3, <1>4, OnlyRepliesStep

(***************************************************************************)
(* The players whom a session serves have addresses.                       *)
(***************************************************************************)
LEMMA AddressedType ==
    ASSUME NEW x \in SessionState, \A p \in x.m_stats : Joined(x, p),
           NEW a \in Addressed(x, x.m_stats)
    PROVE  a \in Addresses
<1>1. PICK p \in x.m_stats : a = x.player[p].address
  BY DEF Addressed
<1>2. p \in Players
  BY DEF SessionState
<1> QED BY <1>1, <1>2, JoinedType

(***************************************************************************)
(* The notes that a player has quit are well typed.                        *)
(***************************************************************************)
LEMMA QuitNotesType ==
    ASSUME IInv, NEW s \in SessionActors, NEW d \in ToServer
    PROVE  QuitNotes(s, d) \subseteq ToClient
<1>1. /\ session[s] \in SessionState
      /\ \A p \in session[s].m_stats : Joined(session[s], p)
      /\ d.name \in Players
  BY Before, ToServerFields DEF Sane
<1>2. ASSUME NEW a \in Addressed(session[s], session[s].m_stats) \ {d.from}
      PROVE  [to |-> a, type |-> "Quit", name |-> d.name] \in ToClient
  <2>1. a \in Addresses
    BY <1>1, AddressedType
  <2> QED BY <1>1, <2>1, ToNamed
<1> QED BY <1>2 DEF QuitNotes

(***************************************************************************)
(* Running: Update.                                                        *)
(***************************************************************************)
LEMMA BeginUpdateStep ==
    ASSUME IInv, NEW s \in SessionActors, NEW d \in uplink,
           BeginUpdate(s, d),
           UNCHANGED <<m_sessions, m_freeSessions, client, heard>>
    PROVE  IInv'
<1> DEFINE x == session[s]
           busy == [at |-> "updating", datagram |-> d]
<1>1. /\ session \in [SessionActors -> SessionState]
      /\ actor \in [SessionActors -> ActorStates]
      /\ task \in [SessionActors -> TaskStates]
      /\ x \in SessionState /\ actor[s] \in ActorStates
      /\ task[s] \in TaskStates
      /\ Sane(x, actor[s], task[s])
      /\ WiresOK /\ d \in ToServer
  BY Before DEF WiresOK
<1>2. /\ x.m_state = "Running" /\ d.type = "Update"
      /\ UNCHANGED <<session, task, due, requests>>
      /\ Exchanged(d, {})
  BY DEF BeginUpdate, Takes
<1>3. WiresOK'
  BY <1>1, <1>2, Delivered
<1>4. CASE UNCHANGED actor
  BY <1>2, <1>3, <1>4, OnlyWires
<1>5. CASE IsNews(s, d) /\ actor' = [actor EXCEPT ![s] = busy]
  <2>1. busy \in ActorStates
    BY <1>1 DEF ActorStates
  <2>2. Joined(x, d.name)
    BY <1>1, <1>5 DEF IsNews, Sane
  <2>3. Sane(x, busy, task[s])
    BY <1>1, <1>2, <2>2 DEF Sane, Begun
  <2>4. session' = [session EXCEPT ![s] = x]
        /\ task' = [task EXCEPT ![s] = task[s]]
    BY <1>1, <1>2
  <2> HIDE DEF busy
  <2> QED BY <1>1, <1>2, <1>3, <1>5, <2>1, <2>3, <2>4, Moved
<1> QED BY <1>4, <1>5 DEF BeginUpdate

(***************************************************************************)
(* The fields of a session when what an Update told of player p is kept: r *)
(* is the object of the player, and p is in m_stats again.                 *)
(***************************************************************************)
Updated(x, p, r, shared) ==
    [x EXCEPT !.player = [x.player EXCEPT ![p] = r],
              !.m_stats = x.m_stats \cup {p},
              !.m_shared = shared]

(***************************************************************************)
(* What the end of Update makes of the session.                            *)
(***************************************************************************)
LEMMA UpdatedType ==
    ASSUME NEW x \in SessionState, NEW p \in Players, Joined(x, p),
           NEW r \in PlayerStatistics, r.address = x.player[p].address,
           NEW shared \in 0..MaxCalls, NEW after,
           after = Updated(x, p, r, shared),
           \A q \in x.m_stats : Joined(x, q)
    PROVE  /\ after \in SessionState
           /\ after.m_state = x.m_state /\ after.m_id = x.m_id
           /\ after.players = x.players
           /\ after.m_stats = x.m_stats \cup {p}
           /\ after.m_seqStats = x.m_seqStats
           /\ \A q \in Players :
                 /\ Joined(x, q) <=> Joined(after, q)
                 /\ Joined(x, q) =>
                      after.player[q].address = x.player[q].address
           /\ \A q \in after.m_stats : Joined(after, q)
<1>1. /\ x.player \in [Players -> PlayerStatistics \cup {Null}]
      /\ x.m_stats \subseteq Players
  BY DEF SessionState
<1>2. r # Null
  BY NullAssumption
<1>3. [x.player EXCEPT ![p] = r]
          \in [Players -> PlayerStatistics \cup {Null}]
  BY <1>1
<1>4. /\ after \in SessionState
      /\ after.m_state = x.m_state /\ after.m_id = x.m_id
      /\ after.players = x.players
      /\ after.m_stats = x.m_stats \cup {p}
      /\ after.m_seqStats = x.m_seqStats
      /\ after.player = [x.player EXCEPT ![p] = r]
  BY <1>1, <1>3 DEF SessionState, Updated
<1>5. \A q \in Players :
         after.player[q] = IF q = p THEN r ELSE x.player[q]
  BY <1>1, <1>4
<1>6. \A q \in Players :
         /\ Joined(x, q) <=> Joined(after, q)
         /\ Joined(x, q) => after.player[q].address = x.player[q].address
  BY <1>2, <1>5 DEF Joined
<1>7. \A q \in after.m_stats : Joined(after, q)
  BY <1>1, <1>4, <1>6
<1> QED BY <1>4, <1>6, <1>7

(***************************************************************************)
(* The second half of Update.                                              *)
(***************************************************************************)
LEMMA EndUpdateStep ==
    ASSUME IInv, NEW s \in SessionActors, EndUpdate(s),
           UNCHANGED <<m_sessions, m_freeSessions, client, heard>>
    PROVE  IInv'
<1> DEFINE x == session[s]
           d == actor[s].datagram
           reply == To(d.from, "SessionState")
           newShared == d.shares /\ x.m_shared < d.timestamp
           shared == IF newShared THEN d.timestamp ELSE x.m_shared
           after == [x EXCEPT
                        !.player[d.name].updateTimestamp = d.timestamp,
                        !.m_stats = @ \cup {d.name},
                        !.m_shared = shared]
<1>1. /\ session \in [SessionActors -> SessionState]
      /\ actor \in [SessionActors -> ActorStates]
      /\ task \in [SessionActors -> TaskStates]
      /\ x \in SessionState /\ task[s] \in TaskStates
      /\ actor[s] \in ActorStates
      /\ Sane(x, actor[s], task[s]) /\ WiresOK
  BY Before
<1>2. /\ actor[s].at = "updating"
      /\ session' = [session EXCEPT ![s] = after]
      /\ actor' = [actor EXCEPT ![s] = Idle]
      /\ UNCHANGED <<task, due, requests, uplink>>
      /\ \/ \E replies \in LoopReplies(after, after.players, reply) :
                Sent(replies)
         \/ Sent({reply})
  BY DEF EndUpdate
<1>3. d \in ToServer /\ d.type = "Update" /\ Joined(x, d.name)
  BY <1>1, <1>2 DEF ActorStates, Idle, Sane
<1>4. /\ d.from \in Addresses /\ d.name \in Players
      /\ d.timestamp \in 1..MaxCalls
  BY <1>3, ToServerFields
<1>5. x.m_shared \in 0..MaxCalls /\ x.m_stats \subseteq Players
      /\ x.players \subseteq Players
  BY <1>1 DEF SessionState
<1>6. shared \in 0..MaxCalls
  BY <1>4, <1>5, CallsAssumption
<1>7. /\ after \in SessionState
      /\ after.m_state = x.m_state /\ after.m_id = x.m_id
      /\ after.players = x.players
      /\ \A q \in Players : Joined(x, q) <=> Joined(after, q)
      /\ \A q \in after.m_stats : Joined(after, q)
  <2>1. \A q \in x.m_stats : Joined(x, q)
    BY <1>1 DEF Sane
  <2>2. x \in SessionState
    BY <1>1
  <2> DEFINE p == d.name
             r == [x.player[p] EXCEPT !.updateTimestamp = d.timestamp]
  <2>3. r \in PlayerStatistics /\ r.address = x.player[p].address
    <3>1. x.player[p] \in PlayerStatistics
      BY <1>3, <1>4, <2>2, JoinedType
    <3>2. d.timestamp \in 0..MaxCalls
      BY <1>4, CallsAssumption
    <3> HIDE DEF x, d, p
    <3> QED BY <3>1, <3>2 DEF PlayerStatistics
  <2>4. after = Updated(x, p, r, shared)
    BY DEF Updated
  <2>5. p \in Players /\ Joined(x, p)
    BY <1>3, <1>4
  <2> HIDE DEF x, d, p, r, shared, after
  <2> QED BY <1>6, <2>1, <2>2, <2>3, <2>4, <2>5, UpdatedType
<1> HIDE DEF after
<1>8. reply \in ToClient
  BY <1>4, ToType
<1> HIDE DEF reply
<1>9. downlink' \subseteq ToClient
  <2>1. CASE Sent({reply})
    BY <1>1, <1>8, <2>1 DEF Sent, WiresOK
  <2>2. ASSUME NEW replies \in LoopReplies(after, after.players, reply),
               Sent(replies)
        PROVE  downlink' \subseteq ToClient
    <3>1. replies \subseteq ToClient
      BY <1>5, <1>7, <1>8, LoopRepliesType
    <3> QED BY <1>1, <2>2, <3>1 DEF Sent, WiresOK
  <2> QED BY <1>2, <2>1, <2>2
<1>10. WiresOK'
  BY <1>1, <1>2, <1>9 DEF WiresOK
<1>11. Begun(x)
  BY <1>1, <1>2 DEF Sane, Idle
<1>12. Sane(after, Idle, task[s])
  <2>1. task[s].at = "touching" => task[s].name \in Players
    BY <1>1 DEF TaskStates, Idle
  <2> QED BY <1>1, <1>5, <1>7, <1>11, <2>1 DEF Sane, Begun, Idle
<1>13. task' = [task EXCEPT ![s] = task[s]]
  BY <1>1, <1>2
<1> QED BY <1>1, <1>2, <1>7, <1>10, <1>11, <1>12, <1>13, Moved, BlankType
        DEF Begun

(***************************************************************************)
(* Running: Message.                                                       *)
(***************************************************************************)
LEMMA TakeMessageStep ==
    ASSUME IInv, NEW s \in SessionActors, NEW d \in uplink,
           TakeMessage(s, d),
           UNCHANGED <<m_sessions, m_freeSessions, client, heard>>
    PROVE  IInv'
<1> DEFINE x == session[s]
           said == [to |-> d.from, type |-> "Message", name |-> d.name]
<1>1. /\ x \in SessionState
      /\ \A p \in x.m_stats : Joined(x, p)
      /\ d \in ToServer
  BY Before DEF WiresOK, Sane
<1>2. said \in ToClient
  BY <1>1, ToServerFields, ToNamed
<1> HIDE DEF said
<1>3. PICK replies \in LoopReplies(x, x.players \ {d.name}, said) :
          OnlyReplies(d, replies)
  BY DEF TakeMessage, said
<1>4. x.players \ {d.name} \in SUBSET Players
  BY <1>1 DEF SessionState
<1>5. replies \subseteq ToClient
  BY <1>1, <1>2, <1>3, <1>4, LoopRepliesType
<1> QED BY <1>3, <1>5, OnlyRepliesStep

(***************************************************************************)
(* Running: RequestSync.                                                   *)
(***************************************************************************)
LEMMA NextIdxType ==
    ASSUME NEW idx \in Indices
    PROVE  NextIdx(idx) \in Indices
  BY IndexAssumption DEF NextIdx, Indices

(***************************************************************************)
(* The index of a reliable request is one of the ring.                     *)
(***************************************************************************)
LEMMA ReliableType ==
    ASSUME NEW idx \in SeqIdxs
    PROVE  /\ idx < IDX_WRAP_MODULE => idx \in Indices
           /\ idx # Unreliable => idx \in Indices
           /\ idx \in Indices => idx # Unreliable
  BY IndexAssumption DEF SeqIdxs, Indices, Unreliable

(***************************************************************************)
(* Only the indices of a player change.                                    *)
(***************************************************************************)
Indexed(x, p, info) ==
    [x EXCEPT !.m_seqStats = [x.m_seqStats EXCEPT ![p] = info]]

(***************************************************************************)
(* A session that has stored new indices of a player.                      *)
(***************************************************************************)
LEMMA IndexedType ==
    ASSUME NEW x \in SessionState, NEW p \in Players,
           NEW info \in MessagesSequenceInfo
    PROVE  /\ Indexed(x, p, info) \in SessionState
           /\ Indexed(x, p, info).m_seqStats =
                 [x.m_seqStats EXCEPT ![p] = info]
           /\ \A a, t :
                 x.m_state # "unborn" /\ Sane(x, a, t) =>
                    Sane(Indexed(x, p, info), a, t)
           /\ Indexed(x, p, info).m_state = x.m_state
           /\ Indexed(x, p, info).m_id = x.m_id
           /\ Indexed(x, p, info).players = x.players
           /\ Indexed(x, p, info).player = x.player
           /\ Indexed(x, p, info).m_stats = x.m_stats
<1>1. /\ Indexed(x, p, info) \in SessionState
      /\ Indexed(x, p, info).m_seqStats =
            [x.m_seqStats EXCEPT ![p] = info]
      /\ Indexed(x, p, info).m_state = x.m_state
      /\ Indexed(x, p, info).m_id = x.m_id
      /\ Indexed(x, p, info).players = x.players
      /\ Indexed(x, p, info).player = x.player
      /\ Indexed(x, p, info).m_stats = x.m_stats
  BY DEF SessionState, Indexed
<1>2. ASSUME NEW a, NEW t, x.m_state # "unborn", Sane(x, a, t)
      PROVE  Sane(Indexed(x, p, info), a, t)
  BY <1>1, <1>2 DEF Sane, Begun, Joined
<1> QED BY <1>1, <1>2

(***************************************************************************)
(* The effect of RequestSync.                                              *)
(***************************************************************************)
Kept(d, idx) == [request |-> d.request, seqIdx |-> idx]

(***************************************************************************)
(* RequestSync.                                                            *)
(***************************************************************************)
LEMMA TakeRequestSyncStep ==
    ASSUME IInv, NEW s \in SessionActors, NEW d \in uplink,
           TakeRequestSync(s, d),
           UNCHANGED <<m_sessions, m_freeSessions, client, heard>>
    PROVE  IInv'
<1> DEFINE x == session[s]
           info == x.m_seqStats[d.name]
           ack == [to |-> d.from, type |-> "Ack", seqIdx |-> d.seqIdx]
           new == [localSeqIdx |-> NextIdx(info.localSeqIdx),
                   remoteSeqIdx |-> d.seqIdx]
           after == Indexed(x, d.name, new)
<1>1. /\ session \in [SessionActors -> SessionState]
      /\ actor \in [SessionActors -> ActorStates]
      /\ task \in [SessionActors -> TaskStates]
      /\ x \in SessionState /\ actor[s] \in ActorStates
      /\ task[s] \in TaskStates
      /\ Sane(x, actor[s], task[s])
      /\ WiresOK /\ d \in ToServer
  BY Before DEF WiresOK
<1>2. /\ x.m_state = "Running" /\ d.type = "RequestSync"
      /\ UNCHANGED <<actor, task, requests>>
  BY DEF TakeRequestSync, Takes
<1>3. /\ d.from \in Addresses /\ d.name \in Players
      /\ d.request \in SyncRequests /\ d.seqIdx \in SeqIdxs
  BY <1>1, <1>2, ToServerFields
<1>4. ASSUME NEW idx \in SeqIdxs,
             due' = [due EXCEPT ![s] = @ \cup {Kept(d, idx)}]
      PROVE  due' \in [SessionActors ->
                          SUBSET [request : SyncRequests, seqIdx : SeqIdxs]]
  <2>1. Kept(d, idx) \in [request : SyncRequests, seqIdx : SeqIdxs]
    BY <1>3 DEF Kept
  <2> QED BY <1>1, <1>4, <2>1 DEF WiresOK
<1>5. CASE /\ Exchanged(d, {})
           /\ UNCHANGED <<session, due>>
  <2>1. WiresOK'
    BY <1>1, <1>2, <1>5, Delivered
  <2> QED BY <1>2, <1>5, <2>1, OnlyWires
<1>6. CASE /\ due' = [due EXCEPT ![s] = @ \cup {Kept(d, Unreliable)}]
           /\ Exchanged(d, {})
           /\ UNCHANGED session
  <2>1. WiresOK'
    BY <1>1, <1>2, <1>4, <1>6 DEF SeqIdxs, WiresOK, Exchanged, Sent
  <2> QED BY <1>2, <1>6, <2>1, OnlyWires
<1>7. CASE /\ IsReliable(d)
           /\ AcceptsRequest(s, d)
           /\ session' = [session EXCEPT ![s] = after]
           /\ due' = [due EXCEPT ![s] = @ \cup {Kept(d, info.localSeqIdx)}]
           /\ Exchanged(d, {ack})
  <2>1. d.seqIdx \in Indices
    BY <1>3, <1>7, ReliableType DEF IsReliable
  <2>2. info \in MessagesSequenceInfo
    BY <1>1, <1>3, <1>7 DEF AcceptsRequest, SessionState
  <2>3. info.localSeqIdx \in Indices
    BY <2>2 DEF MessagesSequenceInfo
  <2>4. new \in MessagesSequenceInfo
    BY <2>1, <2>3, NextIdxType DEF MessagesSequenceInfo
  <2>5. ack \in ToClient
    BY <1>3, <2>1 DEF ToClient
  <2>6. WiresOK'
    BY <1>1, <1>2, <1>4, <1>7, <2>3, <2>5
       DEF SeqIdxs, WiresOK, Exchanged, Sent
  <2> HIDE DEF info, new
  <2>7. /\ after \in SessionState /\ after.m_state = x.m_state
        /\ after.m_id = x.m_id /\ Sane(after, actor[s], task[s])
    BY <1>1, <1>2, <1>3, <2>4, IndexedType
  <2>8. actor' = [actor EXCEPT ![s] = actor[s]]
        /\ task' = [task EXCEPT ![s] = task[s]]
    BY <1>1, <1>2
  <2>9. /\ session' = [session EXCEPT ![s] = after]
        /\ after.m_state # "unborn" /\ after.m_id = session[s].m_id
        /\ session[s].m_state # "unborn"
    BY <1>2, <1>7, <2>7
  <2> HIDE DEF after
  <2> QED BY <1>1, <2>6, <2>7, <2>8, <2>9, Moved
<1> QED BY <1>5, <1>6, <1>7 DEF TakeRequestSync, Kept, Indexed

(***************************************************************************)
(* The delay of a Sync is over.                                            *)
(***************************************************************************)
LEMMA SendSyncStep ==
    ASSUME IInv, NEW s \in SessionActors, SendSync(s),
           UNCHANGED <<m_sessions, m_freeSessions, client, heard>>
    PROVE  IInv'
<1> DEFINE x == session[s]
<1>1. /\ x \in SessionState
      /\ \A p \in x.m_stats : Joined(x, p)
      /\ WiresOK
  BY Before DEF Sane
<1>2. PICK sync \in due[s] :
        /\ due' = [due EXCEPT ![s] = @ \ {sync}]
        /\ Sent({[to |-> a, type |-> "Sync", request |-> sync.request,
                  seqIdx |-> sync.seqIdx] : a \in Addressed(x, x.m_stats)})
        /\ UNCHANGED <<session, actor, task, requests, uplink>>
  BY DEF SendSync
<1>3. sync.request \in SyncRequests /\ sync.seqIdx \in SeqIdxs
  BY <1>1, <1>2 DEF WiresOK
<1>4. ASSUME NEW a \in Addressed(x, x.m_stats)
      PROVE  [to |-> a, type |-> "Sync", request |-> sync.request,
              seqIdx |-> sync.seqIdx] \in ToClient
  <2>1. a \in Addresses
    BY <1>1, AddressedType
  <2> QED BY <1>3, <2>1 DEF ToClient
<1>5. due' \in [SessionActors ->
                   SUBSET [request : SyncRequests, seqIdx : SeqIdxs]]
  BY <1>1, <1>2 DEF WiresOK
<1>6. WiresOK'
  BY <1>1, <1>2, <1>4, <1>5 DEF WiresOK, Sent
<1> QED BY <1>2, <1>6, OnlyWires

-----------------------------------------------------------------------------
(***************************************************************************)
(* quitImpl and the keep-alive task.                                       *)
(***************************************************************************)
(***************************************************************************)
(* A session with other names in m_stats.                                  *)
(***************************************************************************)
Holding(x, names) == [x EXCEPT !.m_stats = names]

(***************************************************************************)
(* A session of which only the given names are left.                       *)
(***************************************************************************)
LEMMA HoldingType ==
    ASSUME NEW x \in SessionState, NEW names \in SUBSET Players,
           \A p \in names : Joined(x, p)
    PROVE  /\ Holding(x, names) \in SessionState
           /\ Holding(x, names).m_stats = names
           /\ Holding(x, names).m_state = x.m_state
           /\ Holding(x, names).m_id = x.m_id
           /\ Holding(x, names).players = x.players
           /\ Holding(x, names).player = x.player
           /\ Holding(x, names).m_seqStats = x.m_seqStats
           /\ \A a, t :
                 x.m_state # "unborn" /\ Sane(x, a, t) =>
                    Sane(Holding(x, names), a, t)
<1>1. /\ Holding(x, names) \in SessionState
      /\ Holding(x, names).m_stats = names
      /\ Holding(x, names).m_state = x.m_state
      /\ Holding(x, names).m_id = x.m_id
      /\ Holding(x, names).players = x.players
      /\ Holding(x, names).player = x.player
      /\ Holding(x, names).m_seqStats = x.m_seqStats
  BY DEF SessionState, Holding
<1>2. ASSUME NEW a, NEW t, x.m_state # "unborn", Sane(x, a, t)
      PROVE  Sane(Holding(x, names), a, t)
  BY <1>1, <1>2 DEF Sane, Begun, Joined
<1> QED BY <1>1, <1>2

Stopped(x) == [x EXCEPT !.m_state = "stopped"]

(***************************************************************************)
(* A session that has stopped.                                             *)
(***************************************************************************)
LEMMA StoppedType ==
    ASSUME NEW x \in SessionState, Begun(x)
    PROVE  /\ Stopped(x) \in SessionState
           /\ Stopped(x).m_state = "stopped"
           /\ Stopped(x).m_id = x.m_id
           /\ Stopped(x).players = x.players
           /\ Stopped(x).player = x.player
           /\ Stopped(x).m_stats = x.m_stats
           /\ Stopped(x).m_seqStats = x.m_seqStats
           /\ \A a, t : Sane(x, a, t) => Sane(Stopped(x), a, t)
<1>1. /\ Stopped(x) \in SessionState
      /\ Stopped(x).m_state = "stopped"
      /\ Stopped(x).m_id = x.m_id
      /\ Stopped(x).players = x.players
      /\ Stopped(x).player = x.player
      /\ Stopped(x).m_stats = x.m_stats
      /\ Stopped(x).m_seqStats = x.m_seqStats
  BY DEF SessionState, Stopped
<1>2. ASSUME NEW a, NEW t, Sane(x, a, t) PROVE Sane(Stopped(x), a, t)
  BY <1>1, <1>2 DEF Sane, Begun, Joined
<1> QED BY <1>1, <1>2

(***************************************************************************)
(* A session whose thread or task is at work has begun.                    *)
(***************************************************************************)
LEMMA Working ==
    ASSUME IInv, NEW s \in SessionActors,
           actor[s].at # "idle" \/ task[s].at # "idle"
    PROVE  Begun(session[s]) /\ session[s].m_state # "unborn"
  BY Before DEF Sane, Begun, Idle

(***************************************************************************)
(* m_stats is looked at, after an entry has been set to null.              *)
(***************************************************************************)
LEMMA ClosedIfLeftType ==
    ASSUME IInv, NEW s \in SessionActors, Begun(session[s]),
           ClosedIfLeft(s)
    PROVE  /\ requests' \in Seq(BackendRequests)
           /\ \E x \in {session[s], Stopped(session[s])} :
                session' = [session EXCEPT ![s] = x]
<1>1. /\ session \in [SessionActors -> SessionState]
      /\ requests \in Seq(BackendRequests)
      /\ Sane(session[s], actor[s], task[s])
  BY Before DEF WiresOK
<1>2. CASE UNCHANGED <<session, requests>>
  BY <1>1, <1>2
<1>3. CASE /\ session' = [session EXCEPT ![s].m_state = "stopped"]
           /\ requests' = Append(requests, [type |-> "CloseSession",
                                            id |-> session[s].m_id])
  <2>1. session[s].m_id \in Ids
    BY <1>1 DEF Sane, Begun
  <2>2. [type |-> "CloseSession", id |-> session[s].m_id]
            \in BackendRequests
    BY <2>1 DEF BackendRequests
  <2>3. requests' \in Seq(BackendRequests)
    BY <1>1, <1>3, <2>2
  <2>4. session' = [session EXCEPT ![s] = Stopped(session[s])]
    BY <1>3 DEF Stopped
  <2> QED BY <2>3, <2>4
<1> QED BY <1>2, <1>3 DEF ClosedIfLeft

(***************************************************************************)
(* Running: Quit.                                                          *)
(***************************************************************************)
LEMMA BeginQuitStep ==
    ASSUME IInv, NEW s \in SessionActors, NEW d \in uplink,
           BeginQuit(s, d),
           UNCHANGED <<m_sessions, m_freeSessions, client, heard>>
    PROVE  IInv'
<1> DEFINE x == session[s]
           busy == [at |-> "quitting", datagram |-> d]
<1>1. /\ session \in [SessionActors -> SessionState]
      /\ actor \in [SessionActors -> ActorStates]
      /\ task \in [SessionActors -> TaskStates]
      /\ x \in SessionState /\ actor[s] \in ActorStates
      /\ task[s] \in TaskStates
      /\ Sane(x, actor[s], task[s])
      /\ WiresOK /\ d \in ToServer
  BY Before DEF WiresOK
<1>2. /\ x.m_state = "Running"
      /\ UNCHANGED <<session, task, due, requests>>
  BY DEF BeginQuit, Takes
<1>3. CASE Exchanged(d, QuitNotes(s, d)) /\ UNCHANGED actor
  <2>1. WiresOK'
    BY <1>1, <1>2, <1>3, Delivered, QuitNotesType
  <2> QED BY <1>2, <1>3, <2>1, OnlyWires
<1>4. CASE /\ actor' = [actor EXCEPT ![s] = busy]
           /\ Exchanged(d, {})
  <2>1. WiresOK'
    BY <1>1, <1>2, <1>4, Delivered
  <2>2. busy \in ActorStates
    BY <1>1 DEF ActorStates
  <2>3. Sane(x, busy, task[s])
    BY <1>1, <1>2 DEF Sane, Begun
  <2>4. session' = [session EXCEPT ![s] = x]
        /\ task' = [task EXCEPT ![s] = task[s]]
    BY <1>1, <1>2
  <2> HIDE DEF busy
  <2> QED BY <1>1, <1>2, <1>4, <2>1, <2>2, <2>3, <2>4, Moved
<1> QED BY <1>3, <1>4 DEF BeginQuit

(***************************************************************************)
(* Quit: the player is removed.                                            *)
(***************************************************************************)
LEMMA RemoveQuitterStep ==
    ASSUME IInv, NEW s \in SessionActors, RemoveQuitter(s),
           UNCHANGED <<m_sessions, m_freeSessions, client, heard>>
    PROVE  IInv'
<1> DEFINE x == session[s]
           names == x.m_stats \ {actor[s].datagram.name}
           after == Holding(x, names)
           busy == [actor[s] EXCEPT !.at = "checking"]
<1>1. /\ session \in [SessionActors -> SessionState]
      /\ actor \in [SessionActors -> ActorStates]
      /\ task \in [SessionActors -> TaskStates]
      /\ x \in SessionState /\ actor[s] \in ActorStates
      /\ task[s] \in TaskStates
      /\ Sane(x, actor[s], task[s]) /\ WiresOK
  BY Before
<1>2. /\ actor[s].at = "quitting"
      /\ session' = [session EXCEPT ![s] = after]
      /\ actor' = [actor EXCEPT ![s] = busy]
      /\ UNCHANGED <<task, due, requests, uplink, downlink>>
  BY DEF RemoveQuitter, Removed, Holding
<1>3. Begun(x) /\ x.m_state # "unborn"
  BY <1>2, Working
<1>4. busy \in ActorStates /\ busy.at = "checking"
  BY <1>1, <1>2 DEF ActorStates
<1>5. names \in SUBSET Players /\ \A p \in names : Joined(x, p)
  BY <1>1 DEF SessionState, Sane
<1> HIDE DEF names, busy
<1>6. /\ after \in SessionState /\ after.m_state = x.m_state
      /\ after.m_id = x.m_id /\ Sane(after, actor[s], task[s])
      /\ \A p : Joined(after, p) <=> Joined(x, p)
  BY <1>1, <1>3, <1>5, HoldingType DEF Joined
<1> HIDE DEF after
<1>7. Sane(after, busy, task[s])
  BY <1>3, <1>4, <1>6 DEF Sane, Begun
<1>8. WiresOK'
  BY <1>1, <1>2 DEF WiresOK
<1>9. task' = [task EXCEPT ![s] = task[s]]
  BY <1>1, <1>2
<1>10. after.m_state # "unborn" /\ session[s].m_state # "unborn"
       /\ after.m_id = session[s].m_id
  BY <1>3, <1>6
<1> QED BY <1>1, <1>2, <1>4, <1>6, <1>7, <1>8, <1>9, <1>10, Moved

(***************************************************************************)
(* Quit: the session is closed if nobody is left.                          *)
(***************************************************************************)
LEMMA EndQuitStep ==
    ASSUME IInv, NEW s \in SessionActors, EndQuit(s),
           UNCHANGED <<m_sessions, m_freeSessions, client, heard>>
    PROVE  IInv'
<1> DEFINE x == session[s]
           d == actor[s].datagram
<1>1. /\ session \in [SessionActors -> SessionState]
      /\ actor \in [SessionActors -> ActorStates]
      /\ task \in [SessionActors -> TaskStates]
      /\ x \in SessionState /\ actor[s] \in ActorStates
      /\ task[s] \in TaskStates
      /\ Sane(x, actor[s], task[s]) /\ WiresOK
  BY Before
<1>2. /\ actor[s].at = "checking" /\ ClosedIfLeft(s)
      /\ Sent(QuitNotes(s, d))
      /\ actor' = [actor EXCEPT ![s] = Idle]
      /\ UNCHANGED <<task, due, uplink>>
  BY DEF EndQuit
<1>3. Begun(x) /\ x.m_state # "unborn"
  BY <1>2, Working
<1>4. d \in ToServer
  BY <1>1, <1>2 DEF ActorStates
<1>5. PICK after \in {x, Stopped(x)} :
          /\ session' = [session EXCEPT ![s] = after]
          /\ requests' \in Seq(BackendRequests)
  BY <1>2, <1>3, ClosedIfLeftType
<1>6. WiresOK'
  BY <1>1, <1>2, <1>4, <1>5, QuitNotesType DEF WiresOK, Sent
<1>7. /\ after \in SessionState /\ after.m_state # "unborn"
      /\ after.m_id = session[s].m_id /\ Sane(after, actor[s], task[s])
      /\ session[s].m_state # "unborn" /\ Begun(after)
  BY <1>1, <1>3, <1>5, StoppedType DEF Begun
<1>8. Sane(after, Idle, task[s])
  BY <1>7 DEF Sane, Idle
<1>9. task' = [task EXCEPT ![s] = task[s]]
  BY <1>1, <1>2
<1> QED BY <1>1, <1>2, <1>5, <1>6, <1>7, <1>8, <1>9, BlankType, Moved

(***************************************************************************)
(* The task moves on and touches nothing.                                  *)
(***************************************************************************)
LEMMA OnlyTask ==
    ASSUME IInv, NEW s \in SessionActors, NEW t \in TaskStates,
           task' = [task EXCEPT ![s] = t],
           session[s].m_state # "unborn", Begun(session[s]),
           t.at = "touching" => Joined(session[s], t.name),
           UNCHANGED <<session, actor, due, requests, uplink, downlink,
                       m_sessions, m_freeSessions, client, heard>>
    PROVE  IInv'
<1>1. /\ session \in [SessionActors -> SessionState]
      /\ actor \in [SessionActors -> ActorStates]
      /\ task \in [SessionActors -> TaskStates]
      /\ session[s] \in SessionState /\ actor[s] \in ActorStates
      /\ Sane(session[s], actor[s], task[s]) /\ WiresOK
  BY Before
<1>2. Sane(session[s], actor[s], t)
  BY <1>1 DEF Sane
<1>3. session' = [session EXCEPT ![s] = session[s]]
      /\ actor' = [actor EXCEPT ![s] = actor[s]]
  BY <1>1
<1>4. WiresOK'
  BY <1>1 DEF WiresOK
<1> QED BY <1>1, <1>2, <1>3, <1>4, Moved

(***************************************************************************)
(* The states of the task.                                                 *)
(***************************************************************************)
LEMMA TaskFields ==
    ASSUME NEW t \in TaskStates, t.at # "idle"
    PROVE  /\ t.todo \in SUBSET Players
           /\ t.at # "visiting" => t.name \in Players
  BY DEF TaskStates

Visiting(todo) == [at |-> "visiting", todo |-> todo]

(***************************************************************************)
(* The task that has the given players before it is well typed.            *)
(***************************************************************************)
LEMMA VisitingType ==
    ASSUME NEW todo \in SUBSET Players
    PROVE  Visiting(todo) \in TaskStates /\ Visiting(todo).at = "visiting"
  BY DEF Visiting, TaskStates

(***************************************************************************)
(* The keep-alive task, from player to player.                             *)
(***************************************************************************)
LEMMA WalkStep ==
    ASSUME IInv, NEW s \in SessionActors,
           \/ BeginCheck(s) \/ EndCheck(s)
           \/ \E p \in Players :
                 PassBy(s, p) \/ VisitHeard(s, p) \/ VisitSilent(s, p),
           UNCHANGED <<m_sessions, m_freeSessions, client, heard>>
    PROVE  IInv'
<1>1. /\ session[s] \in SessionState /\ task[s] \in TaskStates
      /\ Sane(session[s], actor[s], task[s])
  BY Before
<1>2. CASE BeginCheck(s)
  <2>1. session[s].players \in SUBSET Players
    BY <1>1 DEF SessionState
  <2>2. task' = [task EXCEPT ![s] = Visiting(session[s].players)]
    BY <1>2 DEF BeginCheck, Visiting
  <2>3. session[s].m_state = "Running"
        /\ UNCHANGED <<session, actor, due, requests, uplink, downlink>>
    BY <1>2 DEF BeginCheck
  <2> QED BY <2>1, <2>2, <2>3, VisitingType, OnlyTask DEF Begun
<1>3. ASSUME NEW p \in Players, PassBy(s, p) PROVE IInv'
  <2> DEFINE t == [task[s] EXCEPT !.todo = @ \ {p}]
  <2>1. /\ task' = [task EXCEPT ![s] = t]
        /\ task[s].at = "visiting"
        /\ UNCHANGED <<session, actor, due, requests, uplink, downlink>>
    BY <1>3 DEF PassBy
  <2>2. t \in TaskStates /\ t.at = "visiting"
    BY <1>1, <2>1 DEF TaskStates
  <2> HIDE DEF t
  <2> QED BY <2>1, <2>2, Working, OnlyTask
<1>4. ASSUME NEW p \in Players, VisitHeard(s, p) \/ VisitSilent(s, p)
      PROVE  IInv'
  <2>1. PICK at \in {"touching", "quitting"} : Visit(s, p, at)
    BY <1>4 DEF VisitHeard, VisitSilent
  <2> DEFINE t == [at |-> at, todo |-> task[s].todo \ {p}, name |-> p]
  <2>2. /\ task' = [task EXCEPT ![s] = t]
        /\ task[s].at = "visiting" /\ p \in session[s].m_stats
        /\ UNCHANGED <<session, actor, due, requests, uplink, downlink>>
    BY <2>1 DEF Visit
  <2>3. t \in TaskStates /\ t.name = p
    <3>1. task[s].todo \in SUBSET Players
      BY <1>1, <2>2, TaskFields
    <3> QED BY <2>1, <3>1 DEF TaskStates
  <2>4. Joined(session[s], p)
    BY <1>1, <2>2 DEF Sane
  <2> HIDE DEF t
  <2> QED BY <2>2, <2>3, <2>4, Working, OnlyTask
<1>5. CASE EndCheck(s)
  <2>1. /\ task[s].at = "visiting"
        /\ task' = [task EXCEPT ![s] = Idle]
        /\ UNCHANGED <<session, actor, due, requests, uplink, downlink>>
    BY <1>5 DEF EndCheck
  <2> QED BY <2>1, Working, OnlyTask, BlankType DEF Idle
<1> QED BY <1>2, <1>3, <1>4, <1>5

(***************************************************************************)
(* The task puts back the entry of a player, or takes it out.              *)
(***************************************************************************)
LEMMA TouchStep ==
    ASSUME IInv, NEW s \in SessionActors, Touch(s) \/ RemoveSilent(s),
           UNCHANGED <<m_sessions, m_freeSessions, client, heard>>
    PROVE  IInv'
<1> DEFINE x == session[s]
<1>1. /\ session \in [SessionActors -> SessionState]
      /\ actor \in [SessionActors -> ActorStates]
      /\ task \in [SessionActors -> TaskStates]
      /\ x \in SessionState /\ actor[s] \in ActorStates
      /\ task[s] \in TaskStates
      /\ Sane(x, actor[s], task[s]) /\ WiresOK
  BY Before
<1>2. /\ task[s].at \in {"touching", "quitting"}
      /\ UNCHANGED <<actor, due, requests, uplink, downlink>>
  BY DEF Touch, RemoveSilent
<1>3. /\ Begun(x) /\ x.m_state # "unborn"
      /\ task[s].name \in Players /\ task[s].todo \in SUBSET Players
  BY <1>1, <1>2, Working, TaskFields
<1>4. x.m_stats \subseteq Players /\ \A p \in x.m_stats : Joined(x, p)
  BY <1>1 DEF SessionState, Sane
<1>5. PICK names \in SUBSET Players, t \in TaskStates :
         /\ session' = [session EXCEPT ![s] = Holding(x, names)]
         /\ task' = [task EXCEPT ![s] = t]
         /\ t.at # "touching"
         /\ \A p \in names : Joined(x, p)
  <2>1. CASE Touch(s)
    <3>1. session' = [session EXCEPT ![s] =
                         Holding(x, x.m_stats \cup {task[s].name})]
          /\ task' = [task EXCEPT ![s] = Visiting(task[s].todo)]
      BY <2>1 DEF Touch, GoOn, Holding, Visiting
    <3>2. Joined(x, task[s].name)
      BY <1>1, <2>1 DEF Touch, Sane
    <3> QED BY <1>3, <1>4, <3>1, <3>2, VisitingType
  <2>2. CASE RemoveSilent(s)
    <3> DEFINE t == [task[s] EXCEPT !.at = "checking"]
    <3>1. session' = [session EXCEPT ![s] =
                         Holding(x, x.m_stats \ {task[s].name})]
          /\ task' = [task EXCEPT ![s] = t] /\ task[s].at = "quitting"
      BY <2>2 DEF RemoveSilent, Removed, Holding
    <3>2. t \in TaskStates /\ t.at = "checking"
      BY <1>1, <3>1 DEF TaskStates
    <3> QED BY <1>4, <3>1, <3>2
  <2> QED BY <2>1, <2>2
<1> DEFINE after == Holding(x, names)
<1>6. /\ after \in SessionState /\ after.m_state = x.m_state
      /\ after.m_id = x.m_id /\ Sane(after, actor[s], task[s])
  BY <1>1, <1>3, <1>5, HoldingType
<1> HIDE DEF after
<1>7. Sane(after, actor[s], t)
  BY <1>3, <1>5, <1>6 DEF Sane, Begun
<1>8. WiresOK'
  BY <1>1, <1>2 DEF WiresOK
<1>9. actor' = [actor EXCEPT ![s] = actor[s]]
  BY <1>1, <1>2
<1>10. /\ session' = [session EXCEPT ![s] = after]
       /\ after.m_state # "unborn" /\ session[s].m_state # "unborn"
       /\ after.m_id = session[s].m_id
  BY <1>3, <1>5, <1>6 DEF after
<1> QED BY <1>1, <1>5, <1>6, <1>7, <1>8, <1>9, <1>10, Moved

(***************************************************************************)
(* The keep-alive task closes the session if nobody is left.               *)
(***************************************************************************)
LEMMA CheckLeftStep ==
    ASSUME IInv, NEW s \in SessionActors, CheckLeft(s),
           UNCHANGED <<m_sessions, m_freeSessions, client, heard>>
    PROVE  IInv'
<1> DEFINE x == session[s]
           t == Visiting(task[s].todo)
<1>1. /\ session \in [SessionActors -> SessionState]
      /\ actor \in [SessionActors -> ActorStates]
      /\ x \in SessionState /\ actor[s] \in ActorStates
      /\ task[s] \in TaskStates
      /\ Sane(x, actor[s], task[s]) /\ WiresOK
  BY Before
<1>2. /\ task[s].at = "checking" /\ ClosedIfLeft(s)
      /\ task' = [task EXCEPT ![s] = t]
      /\ UNCHANGED <<actor, due, uplink, downlink>>
  BY DEF CheckLeft, GoOn, Visiting
<1>3. Begun(x) /\ x.m_state # "unborn"
  BY <1>2, Working
<1>4. t \in TaskStates /\ t.at = "visiting"
  BY <1>1, <1>2, TaskFields, VisitingType
<1> HIDE DEF t
<1>5. PICK after \in {x, Stopped(x)} :
          /\ session' = [session EXCEPT ![s] = after]
          /\ requests' \in Seq(BackendRequests)
  BY <1>2, <1>3, ClosedIfLeftType
<1>6. WiresOK'
  BY <1>1, <1>2, <1>5 DEF WiresOK
<1>7. /\ after \in SessionState /\ after.m_state # "unborn"
      /\ after.m_id = session[s].m_id /\ Sane(after, actor[s], task[s])
      /\ session[s].m_state # "unborn" /\ Begun(after)
  BY <1>1, <1>3, <1>5, StoppedType DEF Begun
<1>8. Sane(after, actor[s], t)
  BY <1>4, <1>7 DEF Sane
<1>9. actor' = [actor EXCEPT ![s] = actor[s]]
  BY <1>1, <1>2
<1> QED BY <1>1, <1>2, <1>4, <1>5, <1>6, <1>7, <1>8, <1>9, Moved

(***************************************************************************)
(* What the threads of the server do keeps the invariant.                  *)
(***************************************************************************)
LEMMA DatagramStep ==
    ASSUME IInv, Datagram
    PROVE  IInv'
<1>1. PICK d \in uplink : /\ m_sessions[d.id] # Null
                          /\ TakeDatagram(m_sessions[d.id], d)
                          /\ UNCHANGED <<m_sessions, m_freeSessions>>
  BY DEF Datagram, TakeEnvelop
<1>2. d \in ToServer
  BY DEF IInv, TypeOK, SessionTypeOK
<1>3. m_sessions[d.id] \in SessionActors
  BY <1>1, <1>2, ToServerFields DEF IInv, TypeOK, BackendTypeOK
<1>4. UNCHANGED <<m_sessions, m_freeSessions, client, heard>>
  BY <1>1 DEF Datagram
<1> QED BY <1>1, <1>3, <1>4, TakeReadyStep, TakePlainStep, BeginUpdateStep,
           TakeMessageStep, TakeRequestSyncStep, BeginQuitStep
        DEF TakeDatagram

(***************************************************************************)
(* All steps of the two threads of a session.                              *)
(***************************************************************************)
LEMMA ServerThreadsStep ==
    ASSUME IInv, NEW s \in SessionActors, ServerThreads(s)
    PROVE  IInv'
<1>1. UNCHANGED <<m_sessions, m_freeSessions, client, heard>>
      /\ SessionActorStep(s)
  BY DEF ServerThreads
<1>2. CASE ActorStep(s)
  BY <1>1, <1>2, EndUpdateStep, RemoveQuitterStep, EndQuitStep
     DEF ActorStep
<1>3. CASE TaskStep(s)
  <2>1. \/ Touch(s) \/ RemoveSilent(s) \/ CheckLeft(s)
        \/ BeginCheck(s) \/ EndCheck(s)
        \/ \E p \in Players :
              PassBy(s, p) \/ VisitHeard(s, p) \/ VisitSilent(s, p)
    BY <1>3 DEF TaskStep
  <2> QED BY <1>1, <2>1, WalkStep, TouchStep, CheckLeftStep
<1>4. CASE SendSync(s)
  BY <1>1, <1>4, SendSyncStep
<1> QED BY <1>1, <1>2, <1>3, <1>4 DEF SessionActorStep

-----------------------------------------------------------------------------
(***************************************************************************)
(* Steps of the table of sessions.                                         *)
(***************************************************************************)
(***************************************************************************)
(* The first of the requests is taken off the mailbox.                     *)
(***************************************************************************)
LEMMA RequestTaken ==
    ASSUME IInv, NEW type, Gets(type), requests' = Tail(requests)
    PROVE  /\ Head(requests) \in BackendRequests
           /\ Head(requests).type = type
           /\ requests' \in Seq(BackendRequests)
  BY DEF IInv, TypeOK, SessionTypeOK, Gets

(***************************************************************************)
(* A room asks for a session.                                              *)
(***************************************************************************)
LEMMA AskSessionStep ==
    ASSUME IInv, AskSession
    PROVE  IInv'
<1>1. PICK players \in SUBSET Players \ {{}} :
        requests' = Append(requests, [type |-> "CreateSession",
                                      players |-> players])
  BY DEF AskSession
<1>2. [type |-> "CreateSession", players |-> players] \in BackendRequests
  BY DEF BackendRequests
<1>3. WiresOK'
  BY <1>1, <1>2
     DEF IInv, TypeOK, SessionTypeOK, WiresOK, AskSession
<1> QED BY <1>3, OnlyWires DEF AskSession

(***************************************************************************)
(* A Session object that was just created.                                 *)
(***************************************************************************)
LEMMA NewClientType ==
    ASSUME NEW phase \in Phases
    PROVE  /\ NewClient(phase) \in ClientState
           /\ NewClient(phase).phase = phase
           /\ NewClient(phase).port = 0
           /\ NewClient(phase).calls = MaxCalls
           /\ NewClient(phase).syncs = 0 /\ NewClient(phase).updates = 0
<1>1. /\ 0 \in 0..MaxPorts /\ 0 \in 0..MaxCalls /\ MaxCalls \in 0..MaxCalls
      /\ 0 \in Indices /\ 1 \in Indices
  BY CallsAssumption, IndexAssumption DEF Indices
<1> QED BY <1>1 DEF NewClient, ClientState

(***************************************************************************)
(* A session as it is made.                                                *)
(***************************************************************************)
Made(id, players) ==
    [Unborn EXCEPT !.m_state = "Waiting", !.m_id = id, !.players = players]

(***************************************************************************)
(* A session actor that was just created.                                  *)
(***************************************************************************)
LEMMA MadeType ==
    ASSUME NEW id \in Ids, NEW players \in SUBSET Players
    PROVE  /\ Made(id, players) \in SessionState
           /\ Made(id, players).m_state = "Waiting"
           /\ Made(id, players).m_id = id
           /\ Made(id, players).players = players
           /\ Made(id, players).m_stats = {}
           /\ Made(id, players).player = [p \in Players |-> Null]
           /\ Made(id, players).m_seqStats = [p \in Players |-> Null]
<1>1. 0 \in 0..MaxCalls
  BY CallsAssumption
<1> QED BY <1>1 DEF Made, Unborn, SessionState

(***************************************************************************)
(* Backend creates a session.                                              *)
(***************************************************************************)
LEMMA CreateSessionStep ==
    ASSUME IInv, CreateSession
    PROVE  IInv'
<1> DEFINE id == Head(m_freeSessions)
           players == Head(requests).players
<1>1. /\ TypeOK /\ SessionsSane /\ TableSane /\ ClientsSane
      /\ session \in [SessionActors -> SessionState]
      /\ m_sessions \in [Ids -> SessionActors \cup {Null}]
      /\ m_freeSessions \in Seq(Ids)
      /\ client \in [Clients -> ClientState]
  BY DEF IInv, TypeOK, SessionTypeOK, BackendTypeOK
<1>2. /\ Gets("CreateSession")
      /\ requests' = Tail(requests)
      /\ UNCHANGED <<actor, task, due, uplink, downlink, heard>>
      /\ client' = [c \in Clients |->
           IF c[1] \in Unborns /\ c[2] \in session'[c[1]].players
           THEN NewClient("created") ELSE client[c]]
  BY DEF CreateSession, TakeCreateSession
<1>3. /\ players \in SUBSET Players
      /\ requests' \in Seq(BackendRequests)
  BY <1>2, RequestTaken DEF BackendRequests
<1>4. client' \in [Clients -> ClientState]
  BY <1>1, <1>2, NewClientType DEF Phases
<1>5. CASE UNCHANGED <<m_sessions, m_freeSessions, session>>
  <2>1. ASSUME NEW c \in Clients PROVE client'[c] = client[c]
    <3>1. c[1] \in SessionActors
      BY DEF Clients
    <3>2. c[1] \in Unborns => session'[c[1]].players = {}
      BY <1>1, <1>5, <3>1 DEF Unborns, SessionsSane, Sane, Unborn
    <3> QED BY <1>2, <3>2
  <2>2. UNCHANGED client
    BY <1>1, <1>4, <2>1
  <2>3. WiresOK'
    BY <1>2, <1>3, Before
       DEF IInv, TypeOK, SessionTypeOK, WiresOK
  <2> QED BY <1>2, <1>5, <2>2, <2>3, OnlyWires
<1>6. ASSUME NEW s \in SessionActors,
             m_freeSessions # << >>,
             m_freeSessions' = Tail(m_freeSessions),
             session[s].m_state = "unborn",
             m_sessions' = [m_sessions EXCEPT ![id] = s],
             session' = [session EXCEPT ![s] = Made(id, players)]
      PROVE  IInv'
  <2> DEFINE x == Made(id, players)
  <2>1. id \in Ids /\ m_freeSessions' \in Seq(Ids)
    BY <1>1, <1>6
  <2>2. /\ x \in SessionState /\ x.m_state = "Waiting" /\ x.m_id = id
        /\ x.m_stats = {} /\ x.players = players
    BY <1>3, <2>1, MadeType
  <2> HIDE DEF x
  <2>3. session' \in [SessionActors -> SessionState] /\ session'[s] = x
        /\ \A u \in SessionActors \ {s} : session'[u] = session[u]
    BY <1>1, <1>6, <2>2 DEF x
  <2> HIDE DEF id, players
  <2>4. m_sessions' \in [Ids -> SessionActors \cup {Null}]
    BY <1>1, <1>6, <2>1
  <2>5. TypeOK'
    BY <1>1, <1>2, <1>3, <1>4, <2>1, <2>3, <2>4
       DEF TypeOK, SessionTypeOK, BackendTypeOK
  <2>6. SessionsSane'
    <3> SUFFICES ASSUME NEW u \in SessionActors
                 PROVE  Sane(session'[u], actor[u], task[u])
      BY <1>2 DEF SessionsSane
    <3>1. CASE u # s
      BY <1>1, <2>3, <3>1 DEF SessionsSane
    <3>2. actor[s] = Idle /\ task[s] = Idle
      BY <1>1, <1>6 DEF SessionsSane, Sane, Begun
    <3>3. Sane(x, Idle, Idle)
      BY <2>1, <2>2 DEF Sane, Begun, Idle
    <3> QED BY <2>3, <3>1, <3>2, <3>3
  <2>7. TableSane'
    <3> SUFFICES ASSUME NEW i \in Ids, m_sessions'[i] # Null
                 PROVE  /\ session'[m_sessions'[i]].m_state # "unborn"
                        /\ session'[m_sessions'[i]].m_id = i
      BY DEF TableSane
    <3>1. CASE i = id
      BY <1>1, <1>6, <2>1, <2>2, <2>3, <3>1
    <3>2. CASE i # id
      <4>1. m_sessions'[i] = m_sessions[i]
        BY <1>1, <1>6, <3>2
      <4>2. /\ session[m_sessions[i]].m_state # "unborn"
            /\ session[m_sessions[i]].m_id = i
            /\ m_sessions[i] \in SessionActors
        BY <1>1, <4>1 DEF TableSane
      <4>3. m_sessions[i] # s
        BY <1>6, <4>2
      <4> QED BY <2>3, <4>1, <4>2, <4>3
    <3> QED BY <3>1, <3>2
  <2>8. ClientsSane'
    <3> SUFFICES ASSUME NEW c \in Clients PROVE ClientSane(c)'
      BY DEF ClientsSane
    <3>1. c[1] \in SessionActors /\ c[2] \in Players
      BY DEF Clients
    <3>2. CASE client'[c] = client[c]
      <4>1. session[c[1]].m_state # "unborn" =>
               session'[c[1]].m_state # "unborn"
        BY <1>6, <2>3, <3>1
      <4> QED BY <1>1, <1>2, <3>2, <4>1 DEF ClientsSane, ClientSane
    <3>3. CASE /\ c[1] \in Unborns /\ c[2] \in session'[c[1]].players
               /\ client'[c] = NewClient("created")
      <4>1. c[1] = s
        <5>1. c[1] # s => session'[c[1]] = Unborn
          BY <1>1, <2>3, <3>1, <3>3 DEF Unborns, SessionsSane, Sane
        <5> QED BY <3>3, <5>1 DEF Unborn
      <4>2. session'[c[1]].m_state = "Waiting"
        BY <2>2, <2>3, <4>1
      <4> QED BY <3>3, <4>2, NewClientType, CallsAssumption
              DEF ClientSane, Phases
    <3> QED BY <1>2, <3>2, <3>3
  <2> QED BY <2>5, <2>6, <2>7, <2>8 DEF IInv
<1> QED BY <1>5, <1>6 DEF CreateSession, TakeCreateSession, Made

(***************************************************************************)
(* Backend closes a session.                                               *)
(***************************************************************************)
LEMMA CloseSessionStep ==
    ASSUME IInv, CloseSession
    PROVE  IInv'
<1> DEFINE id == Head(requests).id
<1>1. /\ TypeOK /\ TableSane
      /\ m_sessions \in [Ids -> SessionActors \cup {Null}]
      /\ m_freeSessions \in Seq(Ids)
  BY DEF IInv, TypeOK, BackendTypeOK
<1>2. /\ Gets("CloseSession")
      /\ requests' = Tail(requests)
      /\ UNCHANGED <<session, actor, task, due, uplink, downlink, client,
                     heard>>
  BY DEF CloseSession, TakeCloseSession
<1>3. id \in Ids /\ requests' \in Seq(BackendRequests)
  BY <1>2, RequestTaken DEF BackendRequests
<1>4. /\ m_sessions' \in [Ids -> SessionActors \cup {Null}]
      /\ m_freeSessions' \in Seq(Ids)
      /\ \A i \in Ids : m_sessions'[i] \in {m_sessions[i], Null}
  <2> HIDE DEF id
  <2>1. CASE UNCHANGED <<m_sessions, m_freeSessions>>
    BY <1>1, <2>1
  <2>2. CASE /\ m_sessions' = [m_sessions EXCEPT ![id] = Null]
             /\ m_freeSessions' = <<id>> \o m_freeSessions
    <3>1. <<id>> \in Seq(Ids)
      BY <1>3
    <3> QED BY <1>1, <1>3, <2>2, <3>1
  <2> QED BY <2>1, <2>2 DEF CloseSession, TakeCloseSession, id
<1>5. TypeOK'
  BY <1>1, <1>2, <1>3, <1>4 DEF TypeOK, SessionTypeOK, BackendTypeOK
<1>6. TableSane'
  BY <1>1, <1>2, <1>4 DEF TableSane
<1> QED BY <1>2, <1>5, <1>6
        DEF IInv, SessionsSane, ClientsSane, ClientSane

-----------------------------------------------------------------------------
(***************************************************************************)
(* Steps of a client.                                                      *)
(***************************************************************************)
(***************************************************************************)
(* What a Session object of a session keeps of its counters and socket.    *)
(***************************************************************************)
Fit(k) ==
    /\ k.phase # "none"
    /\ k.phase \in {"ready", "granted", "started"} => k.port > 0
    /\ k.calls + k.syncs <= MaxCalls
    /\ k.calls + k.updates <= MaxCalls

(***************************************************************************)
(* A step that changes one Session object, to one that fits, and sends     *)
(* typed datagrams, keeps the invariant.                                   *)
(***************************************************************************)
LEMMA ClientMoved ==
    ASSUME IInv, NEW c \in Clients, client[c].phase # "none",
           NEW k \in ClientState, Fit(k),
           client' = [client EXCEPT ![c] = k],
           heard' \in [Clients -> Seq(SyncRequests)],
           \A u \in Clients \ {c} : heard'[u] = heard[u],
           uplink' \subseteq ToServer, downlink' \subseteq ToClient,
           UNCHANGED serverVars
    PROVE  IInv'
<1>1. /\ client \in [Clients -> ClientState]
      /\ UNCHANGED <<session, actor, task, due, requests, m_sessions,
                     m_freeSessions>>
  BY DEF IInv, TypeOK, serverVars
<1>2. TypeOK'
  BY <1>1 DEF IInv, TypeOK, SessionTypeOK, BackendTypeOK
<1>3. SessionsSane' /\ TableSane'
  BY <1>1 DEF IInv, SessionsSane, TableSane
<1>4. ASSUME NEW u \in Clients PROVE ClientSane(u)'
  <2>1. ClientSane(u) /\ ClientSane(c)
    BY DEF IInv, ClientsSane
  <2>2. CASE u = c
    BY <1>1, <2>1, <2>2 DEF ClientSane, Fit
  <2>3. CASE u # c
    <3>1. client'[u] = client[u] /\ heard'[u] = heard[u]
      BY <1>1, <2>3
    <3> QED BY <1>1, <2>1, <3>1 DEF ClientSane
  <2> QED BY <2>2, <2>3
<1> QED BY <1>2, <1>3, <1>4 DEF IInv, ClientsSane

(***************************************************************************)
(* What holds of a client before a step.                                   *)
(***************************************************************************)
LEMMA ClientBefore ==
    ASSUME IInv, NEW c \in Clients, client[c].phase # "none"
    PROVE  /\ client \in [Clients -> ClientState]
           /\ client[c] \in ClientState /\ Fit(client[c])
           /\ heard \in [Clients -> Seq(SyncRequests)]
           /\ c[1] \in SessionActors /\ c[2] \in Players
           /\ session[c[1]].m_id \in Ids
           /\ session[c[1]].m_state # "unborn"
           /\ uplink \subseteq ToServer /\ downlink \subseteq ToClient
           /\ client[c].phase \in {"ready", "granted", "started"} =>
                 Address(c) \in Addresses
<1>1. /\ client \in [Clients -> ClientState] /\ client[c] \in ClientState
      /\ heard \in [Clients -> Seq(SyncRequests)]
      /\ c[1] \in SessionActors /\ c[2] \in Players
      /\ uplink \subseteq ToServer /\ downlink \subseteq ToClient
  BY DEF IInv, TypeOK, SessionTypeOK, Clients
<1>2. ClientSane(c)
  BY DEF IInv, ClientsSane
<1>3. session[c[1]].m_id \in Ids /\ session[c[1]].m_state # "unborn"
  BY <1>1, <1>2 DEF IInv, SessionsSane, Sane, ClientSane
<1>4. Fit(client[c])
  BY <1>2 DEF ClientSane, Fit
<1>5. client[c].phase \in {"ready", "granted", "started"} =>
         client[c].port \in 1..MaxPorts
  BY <1>1, <1>4, CallsAssumption DEF ClientState, Fit
<1> QED BY <1>1, <1>3, <1>4, <1>5 DEF Address, Addresses

(***************************************************************************)
(* A datagram of a client is well typed.                                   *)
(***************************************************************************)
LEMMA Datagram0Type ==
    ASSUME IInv, NEW c \in Clients,
           client[c].phase \in {"ready", "granted", "started"},
           NEW type \in {"Ready", "KeepAlive", "Message", "Quit"}
    PROVE  Datagram0(c, type) \in ToServer
<1>1. /\ session[c[1]].m_id \in Ids /\ Address(c) \in Addresses
      /\ c[2] \in Players
  BY ClientBefore
<1> QED BY <1>1, ToServerPlain DEF Datagram0

(***************************************************************************)
(* So is a request for a sync.                                             *)
(***************************************************************************)
LEMMA SyncDatagramType ==
    ASSUME IInv, NEW c \in Clients,
           client[c].phase \in {"ready", "granted", "started"},
           NEW request \in SyncRequests, NEW idx \in SeqIdxs
    PROVE  SyncDatagram(c, request, idx) \in ToServer
<1>1. /\ session[c[1]].m_id \in Ids /\ Address(c) \in Addresses
      /\ c[2] \in Players
  BY ClientBefore
<1> QED BY <1>1 DEF SyncDatagram, ToServer

(***************************************************************************)
(* Sending a datagram keeps the wires typed.                               *)
(***************************************************************************)
LEMMA SendsType ==
    ASSUME IInv, NEW d \in ToServer, Sends(d)
    PROVE  uplink' \subseteq ToServer /\ downlink' \subseteq ToClient
  BY DEF IInv, TypeOK, SessionTypeOK, Sends

(***************************************************************************)
(* So does reading one.                                                    *)
(***************************************************************************)
LEMMA ReadsType ==
    ASSUME IInv, NEW d, Reads(d)
    PROVE  uplink' \subseteq ToServer /\ downlink' \subseteq ToClient
  BY DEF IInv, TypeOK, SessionTypeOK, Reads

(***************************************************************************)
(* startup.                                                                *)
(***************************************************************************)
LEMMA StartupStep ==
    ASSUME IInv, NEW c \in Clients, Startup(c)
    PROVE  IInv'
<1> DEFINE port == client[c].port + 1
           opened == [client[c] EXCEPT !.phase = "ready", !.port = port]
           d == [Datagram0(c, "Ready") EXCEPT !.from.port = port]
<1>1. /\ client[c].phase \in {"created", "ended"}
      /\ client[c].port < MaxPorts
      /\ client' = [client EXCEPT ![c] = opened]
      /\ Sends(d)
      /\ UNCHANGED <<serverVars, heard>>
  BY DEF Startup
<1>2. /\ client[c] \in ClientState /\ Fit(client[c])
      /\ heard \in [Clients -> Seq(SyncRequests)]
      /\ c[1] \in SessionActors /\ c[2] \in Players
      /\ session[c[1]].m_id \in Ids
  BY <1>1, ClientBefore
<1>3. port \in 1..MaxPorts
  BY <1>1, <1>2, CallsAssumption DEF ClientState
<1>4. opened \in ClientState /\ Fit(opened)
  <2>1. port \in 0..MaxPorts /\ port > 0
    BY <1>3, CallsAssumption
  <2> HIDE DEF port
  <2> QED BY <1>2, <2>1 DEF ClientState, Phases, Fit
<1>5. d \in ToServer
  <2> HIDE DEF port
  <2>1. d = [type |-> "Ready", id |-> session[c[1]].m_id,
             from |-> [s |-> c[1], name |-> c[2], port |-> port],
             name |-> c[2]]
    BY DEF Datagram0, Address
  <2>2. [s |-> c[1], name |-> c[2], port |-> port] \in Addresses
    BY <1>2, <1>3 DEF Addresses
  <2> QED BY <1>2, <2>1, <2>2, ToServerPlain
<1> HIDE DEF opened, d
<1>6. uplink' \subseteq ToServer /\ downlink' \subseteq ToClient
  BY <1>1, <1>5, SendsType
<1> QED BY <1>1, <1>2, <1>4, <1>6, ClientMoved

(***************************************************************************)
(* The client is as it was, or its phase is another one.                   *)
(***************************************************************************)
LEMMA PhaseMoved ==
    ASSUME IInv, NEW c \in Clients, client[c].phase # "none",
           NEW phase \in Phases \ {"none"},
           phase \in {"ready", "granted", "started"} => client[c].port > 0,
           client' = [client EXCEPT ![c].phase = phase],
           uplink' \subseteq ToServer, downlink' \subseteq ToClient,
           UNCHANGED serverVars, UNCHANGED heard
    PROVE  IInv'
<1> DEFINE k == [client[c] EXCEPT !.phase = phase]
<1>1. /\ client[c] \in ClientState /\ Fit(client[c])
      /\ heard \in [Clients -> Seq(SyncRequests)]
  BY ClientBefore
<1>2. k \in ClientState /\ Fit(k)
  BY <1>1 DEF ClientState, Fit
<1>3. client' = [client EXCEPT ![c] = k]
  OBVIOUS
<1> HIDE DEF k
<1> QED BY <1>1, <1>2, <1>3, ClientMoved

(***************************************************************************)
(* Requests that are sent again.                                           *)
(***************************************************************************)
LEMMA ResendStep ==
    ASSUME IInv, NEW c \in Clients, ResendReady(c) \/ ResendSync(c)
    PROVE  IInv'
<1>1. client[c].phase \in {"ready", "granted", "started"}
      /\ UNCHANGED <<serverVars, client, heard>>
  BY DEF ResendReady, ResendSync, Starting
<1>2. PICK d \in ToServer : Sends(d)
  <2>1. CASE ResendReady(c)
    BY <1>1, <2>1, Datagram0Type DEF ResendReady
  <2>2. CASE ResendSync(c)
    <3>1. PICK i \in DOMAIN client[c].mOutputQueue :
            Sends(SyncDatagram(c, client[c].mOutputQueue[i].request,
                               client[c].mOutputQueue[i].seqIdx))
      BY <2>2 DEF ResendSync
    <3>2. client[c].mOutputQueue \in Seq(Outputs)
      BY <1>1, ClientBefore DEF ClientState, Outputs
    <3>3. client[c].mOutputQueue[i] \in Outputs
      BY <3>2, LenProperties, ElementOfSeq
    <3>4. /\ client[c].mOutputQueue[i].request \in SyncRequests
          /\ client[c].mOutputQueue[i].seqIdx \in SeqIdxs
      BY <3>3 DEF Outputs, SeqIdxs
    <3> QED BY <1>1, <3>1, <3>4, SyncDatagramType
  <2> QED BY <2>1, <2>2
<1>3. WiresOK'
  BY <1>1, <1>2, SendsType
     DEF IInv, TypeOK, SessionTypeOK, WiresOK, serverVars
<1> QED BY <1>1, <1>3, OnlyWires DEF serverVars

(***************************************************************************)
(* startup gives up.                                                       *)
(***************************************************************************)
LEMMA TimeOutStep ==
    ASSUME IInv, NEW c \in Clients, TimeOut(c)
    PROVE  IInv'
<1>1. /\ client[c].phase \in {"ready", "granted", "started"}
      /\ client' = [client EXCEPT ![c].phase = "ended"]
      /\ UNCHANGED <<serverVars, uplink, downlink, heard>>
  BY DEF TimeOut, Starting
<1>2. uplink' \subseteq ToServer /\ downlink' \subseteq ToClient
  BY <1>1, ClientBefore
<1> QED BY <1>1, <1>2, PhaseMoved DEF Phases

(***************************************************************************)
(* quit.                                                                   *)
(***************************************************************************)
LEMMA QuitStep ==
    ASSUME IInv, NEW c \in Clients, Quit(c)
    PROVE  IInv'
<1>1. /\ client[c].phase = "started"
      /\ client' = [client EXCEPT ![c].phase = "ended"]
      /\ Sends(Datagram0(c, "Quit"))
      /\ UNCHANGED <<serverVars, heard>>
  BY DEF Quit
<1>2. uplink' \subseteq ToServer /\ downlink' \subseteq ToClient
  BY <1>1, Datagram0Type, SendsType
<1> QED BY <1>1, <1>2, PhaseMoved DEF Phases

(***************************************************************************)
(* startup reads an answer.                                                *)
(***************************************************************************)
LEMMA ReadAnswerStep ==
    ASSUME IInv, NEW c \in Clients, NEW d \in downlink, ReadAnswer(c, d)
    PROVE  IInv'
<1> DEFINE phase == AfterAnswer(client[c].phase, d.type)
<1>1. /\ client[c].phase \in {"ready", "granted"} /\ Reads(d)
      /\ client' = [client EXCEPT ![c].phase = phase]
      /\ UNCHANGED <<serverVars, heard>>
  BY DEF ReadAnswer, Starting
<1>2. phase \in Phases \ {"none"}
  BY DEF AfterAnswer, Phases
<1>3. client[c].port > 0
  BY <1>1, ClientBefore DEF Fit
<1> HIDE DEF phase
<1> QED BY <1>1, <1>2, <1>3, ReadsType, PhaseMoved

(***************************************************************************)
(* Calls that count down: the counters, what the client sends and keeps.   *)
(***************************************************************************)
LEMMA Counters ==
    ASSUME NEW k \in ClientState, Fit(k), k.calls > 0,
           NEW syncs \in {k.syncs, k.syncs + 1},
           NEW updates \in {k.updates, k.updates + 1}
    PROVE  /\ k.calls - 1 \in 0..MaxCalls /\ syncs \in 0..MaxCalls
           /\ updates \in 0..MaxCalls
           /\ k.calls - 1 + syncs <= MaxCalls
           /\ k.calls - 1 + updates <= MaxCalls
<1>1. /\ k.calls \in 0..MaxCalls /\ k.syncs \in 0..MaxCalls
      /\ k.updates \in 0..MaxCalls /\ MaxCalls \in Nat
  BY CallsAssumption DEF ClientState
<1>2. k.calls + k.syncs <= MaxCalls /\ k.calls + k.updates <= MaxCalls
  BY DEF Fit
<1> QED BY <1>1, <1>2

(***************************************************************************)
(* A call that counts what it has sent keeps the invariant.                *)
(***************************************************************************)
LEMMA CountedStep ==
    ASSUME IInv, NEW c \in Clients, client[c].phase = "started",
           client[c].calls > 0, NEW syncs, NEW updates, NEW local,
           NEW queue \in Seq(Outputs), local \in Indices,
           syncs \in {client[c].syncs, client[c].syncs + 1},
           updates \in {client[c].updates, client[c].updates + 1},
           client' = [client EXCEPT ![c] =
               [client[c] EXCEPT !.calls = client[c].calls - 1,
                                 !.syncs = syncs, !.updates = updates,
                                 !.mLocalSeqIdx = local,
                                 !.mOutputQueue = queue]],
           NEW d \in ToServer, Sends(d), UNCHANGED <<serverVars, heard>>
    PROVE  IInv'
<1> DEFINE calls == client[c].calls - 1
           k == [client[c] EXCEPT !.calls = calls,
                                  !.syncs = syncs, !.updates = updates,
                                  !.mLocalSeqIdx = local,
                                  !.mOutputQueue = queue]
<1>1. /\ client[c] \in ClientState /\ Fit(client[c])
      /\ heard \in [Clients -> Seq(SyncRequests)]
  BY ClientBefore
<1>2. /\ calls \in 0..MaxCalls /\ syncs \in 0..MaxCalls
      /\ updates \in 0..MaxCalls
      /\ calls + syncs <= MaxCalls /\ calls + updates <= MaxCalls
  BY <1>1, Counters
<1>3. client' = [client EXCEPT ![c] = k]
  OBVIOUS
<1> HIDE DEF calls
<1>4. k \in ClientState /\ Fit(k)
  BY <1>1, <1>2 DEF ClientState, Outputs, Fit
<1> HIDE DEF k
<1>5. uplink' \subseteq ToServer /\ downlink' \subseteq ToClient
  BY SendsType
<1> QED BY <1>1, <1>3, <1>4, <1>5, ClientMoved

(***************************************************************************)
(* The next request of a client is well typed.                             *)
(***************************************************************************)
LEMMA NextRequestType ==
    ASSUME IInv, NEW c \in Clients, client[c].phase = "started",
           client[c].calls > 0
    PROVE  NextRequest(c) \in SyncRequests
<1>1. client[c] \in ClientState /\ Fit(client[c]) /\ c[2] \in Players
  BY ClientBefore
<1>2. client[c].syncs + 1 \in 1..MaxCalls
  BY <1>1, CallsAssumption DEF ClientState, Fit
<1> QED BY <1>1, <1>2 DEF NextRequest, SyncRequests

(***************************************************************************)
(* keepAlive, say, broadcast and sync.                                     *)
(***************************************************************************)
LEMMA CallStep ==
    ASSUME IInv, NEW c \in Clients,
           \/ KeepAlive(c) \/ Say(c) \/ Broadcast(c) \/ Sync(c)
           \/ ReliableSync(c)
    PROVE  IInv'
<1> DEFINE k == client[c]
           timestamp == k.updates + 1
           msg == [request |-> NextRequest(c), seqIdx |-> k.mLocalSeqIdx]
<1>1. /\ k.phase = "started" /\ k.calls > 0
      /\ UNCHANGED <<serverVars, heard>>
  BY DEF KeepAlive, Say, Broadcast, Sync, ReliableSync, MayCall
<1>2. /\ client \in [Clients -> ClientState]
      /\ k \in ClientState /\ Fit(k) /\ Address(c) \in Addresses
      /\ session[c[1]].m_id \in Ids /\ c[2] \in Players
  BY <1>1, ClientBefore
<1>3. k.mLocalSeqIdx \in Indices /\ k.mOutputQueue \in Seq(Outputs)
  BY <1>2 DEF ClientState, Outputs
<1>4. NextRequest(c) \in SyncRequests
  BY <1>1, NextRequestType
<1>5. CASE KeepAlive(c) \/ Say(c)
  <2>1. PICK type \in {"KeepAlive", "Message"} : Sends(Datagram0(c, type))
    BY <1>5 DEF KeepAlive, Say
  <2>2. client' = [client EXCEPT ![c] =
          [k EXCEPT !.calls = k.calls - 1,
                    !.syncs = k.syncs, !.updates = k.updates,
                    !.mLocalSeqIdx = k.mLocalSeqIdx,
                    !.mOutputQueue = k.mOutputQueue]]
    <3>1. client' = [client EXCEPT ![c] = [k EXCEPT !.calls = k.calls - 1]]
      BY <1>5 DEF KeepAlive, Say, Counted
    <3>2. [k EXCEPT !.calls = k.calls - 1] =
             [k EXCEPT !.calls = k.calls - 1,
                       !.syncs = k.syncs, !.updates = k.updates,
                       !.mLocalSeqIdx = k.mLocalSeqIdx,
                       !.mOutputQueue = k.mOutputQueue]
      BY <1>2 DEF ClientState
    <3> QED BY <3>1, <3>2
  <2>3. Datagram0(c, type) \in ToServer
    BY <1>1, Datagram0Type
  <2> QED BY <1>1, <1>3, <2>1, <2>2, <2>3, CountedStep
<1>6. CASE Broadcast(c)
  <2>1. timestamp \in 1..MaxCalls
    BY <1>1, <1>2, CallsAssumption DEF ClientState, Fit
  <2>2. PICK forced \in BOOLEAN, shares \in BOOLEAN :
          Sends([type |-> "Update", id |-> session[c[1]].m_id,
                 from |-> Address(c), name |-> c[2],
                 timestamp |-> timestamp,
                 forceBroadcast |-> forced, shares |-> shares])
    BY <1>6 DEF Broadcast
  <2>3. [type |-> "Update", id |-> session[c[1]].m_id,
         from |-> Address(c), name |-> c[2], timestamp |-> timestamp,
         forceBroadcast |-> forced, shares |-> shares] \in ToServer
    BY <1>2, <2>1 DEF ToServer
  <2>4. client' = [client EXCEPT ![c] =
          [k EXCEPT !.calls = k.calls - 1,
                    !.syncs = k.syncs, !.updates = timestamp,
                    !.mLocalSeqIdx = k.mLocalSeqIdx,
                    !.mOutputQueue = k.mOutputQueue]]
    <3>1. client' = [client EXCEPT ![c] =
                       [k EXCEPT !.calls = k.calls - 1,
                                 !.updates = timestamp]]
      BY <1>6 DEF Broadcast, Counted
    <3>2. [k EXCEPT !.calls = k.calls - 1, !.updates = timestamp] =
             [k EXCEPT !.calls = k.calls - 1,
                       !.syncs = k.syncs, !.updates = timestamp,
                       !.mLocalSeqIdx = k.mLocalSeqIdx,
                       !.mOutputQueue = k.mOutputQueue]
      BY <1>2 DEF ClientState
    <3> QED BY <3>1, <3>2
  <2> QED BY <1>1, <1>3, <2>2, <2>3, <2>4, CountedStep
<1>7. CASE Sync(c)
  <2>1. client' = [client EXCEPT ![c] =
          [k EXCEPT !.calls = k.calls - 1,
                    !.syncs = k.syncs + 1, !.updates = k.updates,
                    !.mLocalSeqIdx = k.mLocalSeqIdx,
                    !.mOutputQueue = k.mOutputQueue]]
    <3>1. client' = [client EXCEPT ![c] =
                       [k EXCEPT !.calls = k.calls - 1,
                                 !.syncs = k.syncs + 1]]
      BY <1>7 DEF Sync, Counted
    <3>2. [k EXCEPT !.calls = k.calls - 1, !.syncs = k.syncs + 1] =
             [k EXCEPT !.calls = k.calls - 1,
                       !.syncs = k.syncs + 1, !.updates = k.updates,
                       !.mLocalSeqIdx = k.mLocalSeqIdx,
                       !.mOutputQueue = k.mOutputQueue]
      BY <1>2 DEF ClientState
    <3> QED BY <3>1, <3>2
  <2>2. SyncDatagram(c, NextRequest(c), Unreliable) \in ToServer
    BY <1>1, <1>4, SyncDatagramType DEF SeqIdxs
  <2>3. Sends(SyncDatagram(c, NextRequest(c), Unreliable))
    BY <1>7 DEF Sync
  <2> QED BY <1>1, <1>3, <2>1, <2>2, <2>3, CountedStep
<1>8. CASE ReliableSync(c)
  <2>1. client' = [client EXCEPT ![c] =
          [k EXCEPT !.calls = k.calls - 1,
                    !.syncs = k.syncs + 1, !.updates = k.updates,
                    !.mLocalSeqIdx = NextIdx(k.mLocalSeqIdx),
                    !.mOutputQueue = Append(k.mOutputQueue, msg)]]
    <3> DEFINE next == NextIdx(k.mLocalSeqIdx)
               queue == Append(k.mOutputQueue, msg)
    <3>1. client' = [client EXCEPT ![c] =
                       [k EXCEPT !.calls = k.calls - 1,
                                 !.syncs = k.syncs + 1,
                                 !.mLocalSeqIdx = next,
                                 !.mOutputQueue = queue]]
      BY <1>8 DEF ReliableSync, Counted
    <3> HIDE DEF next, queue
    <3>2. [k EXCEPT !.calls = k.calls - 1, !.syncs = k.syncs + 1,
                    !.mLocalSeqIdx = next, !.mOutputQueue = queue] =
             [k EXCEPT !.calls = k.calls - 1,
                       !.syncs = k.syncs + 1, !.updates = k.updates,
                       !.mLocalSeqIdx = next, !.mOutputQueue = queue]
      BY <1>2 DEF ClientState
    <3>3. client' = [client EXCEPT ![c] =
             [k EXCEPT !.calls = k.calls - 1,
                       !.syncs = k.syncs + 1, !.updates = k.updates,
                       !.mLocalSeqIdx = next, !.mOutputQueue = queue]]
      BY <3>1, <3>2
    <3> QED BY <3>3 DEF next, queue
  <2>2. SyncDatagram(c, NextRequest(c), k.mLocalSeqIdx) \in ToServer
    BY <1>1, <1>3, <1>4, SyncDatagramType DEF SeqIdxs
  <2>3. Sends(SyncDatagram(c, NextRequest(c), k.mLocalSeqIdx))
    BY <1>8 DEF ReliableSync
  <2>4. Append(k.mOutputQueue, msg) \in Seq(Outputs)
    <3>1. msg \in Outputs
      BY <1>3, <1>4 DEF Outputs
    <3> QED BY <1>3, <3>1
  <2>5. NextIdx(k.mLocalSeqIdx) \in Indices
    BY <1>3, NextIdxType
  <2> HIDE DEF msg
  <2> QED BY <1>1, <2>1, <2>2, <2>3, <2>4, <2>5, CountedStep
<1> QED BY <1>5, <1>6, <1>7, <1>8

(***************************************************************************)
(* receive.                                                                *)
(***************************************************************************)
LEMMA AcknowledgesType ==
    ASSUME NEW c \in Clients, NEW d \in ToClient, Acknowledges(c, d)
    PROVE  /\ d.seqIdx \in Indices
           /\ d.type = "Sync" => d.request \in SyncRequests
  BY ReliableType DEF Acknowledges, IsAckOrSync, ToClient

(***************************************************************************)
(* receive.                                                                *)
(***************************************************************************)
LEMMA ReceiveStep ==
    ASSUME IInv, NEW c \in Clients, NEW d \in downlink, Receive(c, d)
    PROVE  IInv'
<1> DEFINE k == client[c]
           after == Acknowledged(c, d.seqIdx)
<1>1. /\ k.phase = "started" /\ Reads(d) /\ OnSync(c, d)
      /\ UNCHANGED serverVars
  BY DEF Receive
<1>2. /\ client \in [Clients -> ClientState]
      /\ k \in ClientState /\ Fit(k)
      /\ heard \in [Clients -> Seq(SyncRequests)]
      /\ d \in ToClient
  BY <1>1, ClientBefore
<1>3. /\ heard' \in [Clients -> Seq(SyncRequests)]
      /\ \A u \in Clients \ {c} : heard'[u] = heard[u]
  <2>1. CASE UNCHANGED heard
    BY <1>2, <2>1
  <2>2. CASE /\ d.type = "Sync" /\ Acknowledges(c, d)
             /\ heard' = [heard EXCEPT ![c] = Append(@, d.request)]
    <3>1. d.request \in SyncRequests
      BY <1>2, <2>2, AcknowledgesType
    <3> QED BY <1>2, <2>2, <3>1
  <2> QED BY <1>1, <2>1, <2>2 DEF OnSync
<1>4. uplink' \subseteq ToServer /\ downlink' \subseteq ToClient
  BY <1>1, ReadsType
<1>5. PICK j \in ClientState : /\ Fit(j)
                               /\ client' = [client EXCEPT ![c] = j]
  <2>1. CASE /\ Acknowledges(c, d)
             /\ client' = [client EXCEPT ![c] = after]
    <3>1. d.seqIdx \in Indices
      BY <1>2, <2>1, AcknowledgesType
    <3>2. /\ after \in ClientState
          /\ after = [k EXCEPT !.mRemoteSeqIdx = d.seqIdx,
                               !.mOutputQueue = after.mOutputQueue]
      BY <1>2, <3>1, AcknowledgedType
    <3>3. /\ after.phase = k.phase /\ after.port = k.port
          /\ after.calls = k.calls /\ after.syncs = k.syncs
          /\ after.updates = k.updates
      <4> DEFINE queue == after.mOutputQueue
      <4>1. after = [k EXCEPT !.mRemoteSeqIdx = d.seqIdx,
                              !.mOutputQueue = queue]
        BY <3>2
      <4> HIDE DEF after, queue
      <4> QED BY <1>2, <4>1 DEF ClientState
    <3>4. Fit(after)
      BY <1>2, <3>3 DEF Fit
    <3> QED BY <2>1, <3>2, <3>4
  <2>2. CASE client' = [client EXCEPT ![c].phase = "ended"]
    <3>1. [k EXCEPT !.phase = "ended"] \in ClientState
          /\ Fit([k EXCEPT !.phase = "ended"])
      BY <1>2 DEF ClientState, Phases, Fit
    <3> QED BY <2>2, <3>1
  <2>3. CASE UNCHANGED client
    <3>1. client' = [client EXCEPT ![c] = k]
      BY <1>2, <2>3
    <3> QED BY <1>2, <3>1
  <2> QED BY <2>1, <2>2, <2>3 DEF Receive
<1> QED BY <1>1, <1>3, <1>4, <1>5, ClientMoved

-----------------------------------------------------------------------------
(***************************************************************************)
(* The invariant holds at first, and every step keeps it.                  *)
(***************************************************************************)
LEMMA InitInvariant ==
    ASSUME Init
    PROVE  IInv
<1>1. SessionTypeOK
  <2>1. << >> \in Seq(BackendRequests)
    OBVIOUS
  <2> QED BY <2>1, BlankType DEF Init, SessionInit, SessionTypeOK
<1>2. BackendTypeOK
  <2>1. [i \in 1..MAX_SESSIONS_NUMBER |-> i - 1] \in Seq(Ids)
    <3>1. \A i \in 1..MAX_SESSIONS_NUMBER : i - 1 \in Ids
      BY CallsAssumption DEF Ids
    <3> QED BY <3>1, CallsAssumption, IsASeq
  <2> QED BY <2>1 DEF Init, BackendInit, BackendTypeOK
<1>3. /\ client \in [Clients -> ClientState]
      /\ heard \in [Clients -> Seq(SyncRequests)]
  BY NewClientType DEF Init, Phases
<1>4. SessionsSane
  BY DEF Init, SessionInit, SessionsSane, Sane, Unborn, Begun, Idle
<1>5. TableSane
  BY DEF Init, BackendInit, TableSane
<1>6. ClientsSane
  BY NewClientType, CallsAssumption
     DEF Init, ClientsSane, ClientSane, Phases
<1> QED BY <1>1, <1>2, <1>3, <1>4, <1>5, <1>6 DEF IInv, TypeOK

(***************************************************************************)
(* All steps of a client.                                                  *)
(***************************************************************************)
LEMMA ClientStepInvariant ==
    ASSUME IInv, NEW c \in Clients, ClientStep(c)
    PROVE  IInv'
  BY StartupStep, ResendStep, TimeOutStep, QuitStep, CallStep,
     ReadAnswerStep, ReceiveStep
     DEF ClientStep

(***************************************************************************)
(* IInv is inductive.                                                      *)
(***************************************************************************)
LEMMA NextInvariant ==
    ASSUME IInv, [Next]_vars
    PROVE  IInv'
<1>1. CASE UNCHANGED vars
  <2>1. WiresOK'
    BY <1>1 DEF vars, IInv, TypeOK, SessionTypeOK, WiresOK
  <2> QED BY <1>1, <2>1, OnlyWires DEF vars
<1> QED BY <1>1, AskSessionStep, CreateSessionStep, CloseSessionStep,
           DatagramStep, ServerThreadsStep, ClientStepInvariant DEF Next

(***************************************************************************)
(* For any number of sessions, players, sockets and calls: the fields of   *)
(* the actors, threads and clients keep their types, a session's threads   *)
(* only run once it has begun, whatever the keep-alive task puts back      *)
(* belongs to a player who is known, and the slot of an id holds a session *)
(* of that id.                                                             *)
(***************************************************************************)
THEOREM SessionInvariant == Spec => []IInv
<1>1. Init => IInv
  BY InitInvariant
<1>2. IInv /\ [Next]_vars => IInv'
  BY NextInvariant
<1> QED BY <1>1, <1>2, PTL DEF Spec

(***************************************************************************)
(* Types hold throughout.                                                  *)
(***************************************************************************)
THEOREM SessionTypeTheorem == Spec => []TypeOK
<1>1. IInv => TypeOK
  BY DEF IInv
<1> QED BY <1>1, SessionInvariant, PTL

-----------------------------------------------------------------------------
(***************************************************************************)
(* How a session changes in one step of the system.                        *)
(***************************************************************************)
ClosingOf(s) == [type |-> "CloseSession", id |-> session[s].m_id]

Running(x) == [x EXCEPT !.m_state = "Running"]

(***************************************************************************)
(* The index info is what a player's info becomes when d is accepted.      *)
(***************************************************************************)
AfterRequest(info, d) ==
    [localSeqIdx |-> NextIdx(info.localSeqIdx), remoteSeqIdx |-> d.seqIdx]

IsMade(s) ==
    /\ session[s].m_state = "unborn"
    /\ \E id \in Ids, players \in SUBSET Players :
          session'[s] = Made(id, players)

GetsReady(s) ==
    \E d \in uplink :
        /\ m_sessions[d.id] = s /\ TakeReady(s, d)
        /\ session[s].m_state = "Waiting" /\ d.name \in session[s].players
        /\ session'[s] = IF AllReady(WithReady(session[s], d))
                         THEN Running(WithReady(session[s], d))
                         ELSE WithReady(session[s], d)

IsUpdated(s) ==
    /\ Begun(session[s])
    /\ \E p \in Players, r \in PlayerStatistics, shared \in 0..MaxCalls :
          /\ Joined(session[s], p)
          /\ r.address = session[s].player[p].address
          /\ session'[s] = Updated(session[s], p, r, shared)

GetsRequest(s) ==
    \E d \in uplink :
        /\ m_sessions[d.id] = s /\ TakeRequestSync(s, d)
        /\ session[s].m_state = "Running" /\ d.type = "RequestSync"
        /\ IsReliable(d) /\ AcceptsRequest(s, d)
        /\ session'[s] =
              Indexed(session[s], d.name,
                      AfterRequest(session[s].m_seqStats[d.name], d))

LosesOrKeeps(s) ==
    /\ Begun(session[s])
    /\ \E names \in SUBSET Players :
          /\ \A p \in names : Joined(session[s], p)
          /\ session'[s] = Holding(session[s], names)

IsStopped(s) ==
    /\ Begun(session[s])
    /\ session'[s] = Stopped(session[s])
    /\ requests' = Append(requests, ClosingOf(s))

SessionTransition(s) ==
    \/ session'[s] = session[s]
    \/ IsMade(s) \/ GetsReady(s) \/ IsUpdated(s) \/ GetsRequest(s)
    \/ LosesOrKeeps(s) \/ IsStopped(s)

(***************************************************************************)
(* A step of another session leaves this one alone.                        *)
(***************************************************************************)
LEMMA OthersStay ==
    ASSUME IInv, NEW u \in SessionActors, NEW s \in SessionActors, NEW x,
           session' = [session EXCEPT ![u] = x]
    PROVE  session'[s] = IF s = u THEN x ELSE session[s]
  BY DEF IInv, TypeOK, SessionTypeOK

(***************************************************************************)
(* Closing a session that everybody has left is a transition.              *)
(***************************************************************************)
LEMMA ClosedTransition ==
    ASSUME IInv, NEW u \in SessionActors, Begun(session[u]),
           ClosedIfLeft(u), NEW s \in SessionActors
    PROVE  SessionTransition(s)
<1>1. CASE UNCHANGED session
  BY <1>1 DEF SessionTransition
<1>2. CASE /\ session' = [session EXCEPT ![u].m_state = "stopped"]
           /\ requests' = Append(requests, ClosingOf(u))
  <2>1. session' = [session EXCEPT ![u] = Stopped(session[u])]
    BY <1>2 DEF Stopped
  <2> QED BY <1>2, <2>1, OthersStay DEF SessionTransition, IsStopped
<1> QED BY <1>1, <1>2 DEF ClosedIfLeft, ClosingOf

(***************************************************************************)
(* So is the removal of players,                                           *)
(***************************************************************************)
LEMMA HoldingTransition ==
    ASSUME IInv, NEW u \in SessionActors, Begun(session[u]),
           NEW names \in SUBSET Players,
           \A p \in names : Joined(session[u], p),
           session' = [session EXCEPT ![u] = Holding(session[u], names)],
           NEW s \in SessionActors
    PROVE  SessionTransition(s)
  BY OthersStay DEF SessionTransition, LosesOrKeeps

(***************************************************************************)
(* and whatever a datagram does,                                           *)
(***************************************************************************)
LEMMA DatagramTransition ==
    ASSUME IInv, Datagram, NEW s \in SessionActors
    PROVE  SessionTransition(s)
<1>1. PICK d \in uplink : /\ m_sessions[d.id] # Null
                          /\ TakeDatagram(m_sessions[d.id], d)
  BY DEF Datagram, TakeEnvelop
<1> DEFINE u == m_sessions[d.id]
<1>2. d \in ToServer /\ u \in SessionActors
  BY <1>1, ToServerFields DEF IInv, TypeOK, SessionTypeOK, BackendTypeOK
<1>3. CASE UNCHANGED session
  BY <1>3 DEF SessionTransition
<1>4. CASE TakeReady(u, d)
  <2> DEFINE after == WithReady(session[u], d)
  <2>1. /\ session[u].m_state = "Waiting"
        /\ \/ UNCHANGED session
           \/ /\ d.name \in session[u].players
              /\ session' = [session EXCEPT ![u] =
                    IF AllReady(after) THEN Running(after) ELSE after]
    BY <1>4 DEF TakeReady, Takes, Running
  <2>2. CASE s = u
    BY <1>2, <1>3, <1>4, <2>1, <2>2, OthersStay
       DEF SessionTransition, GetsReady
  <2>3. CASE s # u
    <3>1. session'[s] = session[s]
      BY <1>2, <2>1, <2>3, OthersStay
    <3> QED BY <3>1 DEF SessionTransition
  <2> QED BY <2>2, <2>3
<1>5. CASE TakeRequestSync(u, d)
  <2>1. /\ session[u].m_state = "Running" /\ d.type = "RequestSync"
        /\ \/ UNCHANGED session
           \/ /\ IsReliable(d) /\ AcceptsRequest(u, d)
              /\ session' = [session EXCEPT ![u] =
                    Indexed(session[u], d.name,
                       AfterRequest(session[u].m_seqStats[d.name], d))]
    BY <1>5 DEF TakeRequestSync, Takes, Indexed, AfterRequest
  <2>2. CASE s = u
    BY <1>2, <1>3, <1>5, <2>1, <2>2, OthersStay
       DEF SessionTransition, GetsRequest
  <2>3. CASE s # u
    <3>1. session'[s] = session[s]
      BY <1>2, <2>1, <2>3, OthersStay
    <3> QED BY <3>1 DEF SessionTransition
  <2> QED BY <2>2, <2>3
<1> QED BY <1>1, <1>3, <1>4, <1>5
        DEF TakeDatagram, TakeKeepAlive, TakeUnexpected, OnlyReplies,
            BeginUpdate, TakeMessage, BeginQuit

(***************************************************************************)
(* and the end of Update,                                                  *)
(***************************************************************************)
LEMMA EndUpdateTransition ==
    ASSUME IInv, NEW u \in SessionActors, EndUpdate(u),
           NEW s \in SessionActors
    PROVE  SessionTransition(s)
<1> DEFINE x == session[u]
           d == actor[u].datagram
           newShared == d.shares /\ x.m_shared < d.timestamp
           shared == IF newShared THEN d.timestamp ELSE x.m_shared
           r == [x.player[d.name] EXCEPT !.updateTimestamp = d.timestamp]
<1>1. /\ x \in SessionState /\ actor[u] \in ActorStates
      /\ Sane(x, actor[u], task[u])
  BY Before
<1>2. /\ actor[u].at = "updating"
      /\ session' = [session EXCEPT ![u] = Updated(x, d.name, r, shared)]
  BY DEF EndUpdate, Updated
<1>3. Begun(x)
  BY <1>2, Working
<1>4. d \in ToServer /\ d.type = "Update" /\ Joined(x, d.name)
  BY <1>1, <1>2 DEF ActorStates, Sane
<1>5. d.name \in Players /\ d.timestamp \in 0..MaxCalls
  <2>1. d.name \in Players /\ d.timestamp \in 1..MaxCalls
    BY <1>4, ToServerFields
  <2> QED BY <2>1, CallsAssumption
<1>6. shared \in 0..MaxCalls
  BY <1>1, <1>5 DEF SessionState
<1>7. r \in PlayerStatistics /\ r.address = x.player[d.name].address
  <2>1. x.player[d.name] \in PlayerStatistics
    BY <1>1, <1>4, <1>5, JoinedType
  <2> HIDE DEF x, d
  <2> QED BY <1>5, <2>1 DEF PlayerStatistics
<1> DEFINE y == Updated(x, d.name, r, shared)
<1>10. y = Updated(x, d.name, r, shared)
  OBVIOUS
<1> HIDE DEF y, r, shared
<1>11. session' = [session EXCEPT ![u] = y]
  BY <1>2, <1>10
<1>12. session'[s] = IF s = u THEN y ELSE session[s]
  BY <1>11, OthersStay
<1>8. CASE s = u
  <2>1. session'[s] = Updated(x, d.name, r, shared)
    BY <1>8, <1>10, <1>12
  <2>2. IsUpdated(s)
    BY <1>3, <1>4, <1>5, <1>6, <1>7, <1>8, <2>1 DEF IsUpdated
  <2> QED BY <2>2 DEF SessionTransition
<1>9. CASE s # u
  BY <1>9, <1>12 DEF SessionTransition
<1> QED BY <1>8, <1>9

(***************************************************************************)
(* and every step of the two threads.                                      *)
(***************************************************************************)
LEMMA ThreadTransition ==
    ASSUME IInv, NEW u \in SessionActors, ServerThreads(u),
           NEW s \in SessionActors
    PROVE  SessionTransition(s)
<1> DEFINE x == session[u]
<1>1. /\ x \in SessionState /\ actor[u] \in ActorStates
      /\ task[u] \in TaskStates /\ Sane(x, actor[u], task[u])
  BY Before
<1>2. x.m_stats \subseteq Players /\ \A p \in x.m_stats : Joined(x, p)
  BY <1>1 DEF SessionState, Sane
<1>3. CASE UNCHANGED session
  BY <1>3 DEF SessionTransition
<1>4. ASSUME NEW name, Removed(u, name), Begun(x)
      PROVE  SessionTransition(s)
  <2> DEFINE names == x.m_stats \ {name}
  <2>1. session' = [session EXCEPT ![u] = Holding(x, names)]
    BY <1>4 DEF Removed, Holding
  <2>2. names \in SUBSET Players /\ \A p \in names : Joined(x, p)
    BY <1>2
  <2> HIDE DEF names
  <2> QED BY <1>4, <2>1, <2>2, HoldingTransition
<1>5. CASE RemoveQuitter(u) \/ RemoveSilent(u)
  BY <1>4, <1>5, Working DEF RemoveQuitter, RemoveSilent
<1>6. CASE EndQuit(u) \/ CheckLeft(u)
  BY <1>6, Working, ClosedTransition DEF EndQuit, CheckLeft
<1>7. CASE Touch(u)
  <2> DEFINE names == x.m_stats \cup {task[u].name}
  <2>1. session' = [session EXCEPT ![u] = Holding(x, names)]
        /\ task[u].at = "touching"
    BY <1>7 DEF Touch, Holding
  <2>2. task[u].name \in Players /\ Joined(x, task[u].name)
    BY <1>1, <2>1, TaskFields DEF Sane
  <2>3. names \in SUBSET Players /\ \A p \in names : Joined(x, p)
    BY <1>2, <2>2
  <2>4. Begun(x)
    BY <2>1, Working
  <2> HIDE DEF names
  <2> QED BY <2>1, <2>3, <2>4, HoldingTransition
<1>8. CASE EndUpdate(u)
  BY <1>8, EndUpdateTransition
<1>9. ASSUME NEW p \in Players,
             PassBy(u, p) \/ VisitHeard(u, p) \/ VisitSilent(u, p)
      PROVE  UNCHANGED session
  BY <1>9 DEF PassBy, VisitHeard, VisitSilent, Visit
<1>10. BeginCheck(u) \/ EndCheck(u) \/ SendSync(u) => UNCHANGED session
  BY DEF BeginCheck, EndCheck, SendSync
<1> QED BY <1>3, <1>5, <1>6, <1>7, <1>8, <1>9, <1>10
        DEF ServerThreads, SessionActorStep, ActorStep, TaskStep

(***************************************************************************)
(* A client changes nothing on the server.                                 *)
(***************************************************************************)
LEMMA ClientsOnly ==
    ASSUME NEW c \in Clients, ClientStep(c)
    PROVE  UNCHANGED serverVars
  BY DEF ClientStep, Startup, ResendReady, TimeOut, Quit, KeepAlive, Say,
         Broadcast, Sync, ReliableSync, ResendSync, ReadAnswer, Receive

(***************************************************************************)
(* Every step takes each session through one of the transitions.           *)
(***************************************************************************)
LEMMA EveryTransition ==
    ASSUME IInv, [Next]_vars, NEW s \in SessionActors
    PROVE  SessionTransition(s)
<1>1. CASE UNCHANGED session
  BY <1>1 DEF SessionTransition
<1>2. CASE CreateSession
  <2> DEFINE id == Head(m_freeSessions)
             players == Head(requests).players
  <2>1. CASE UNCHANGED <<m_sessions, m_freeSessions, session>>
    BY <1>1, <2>1
  <2>2. ASSUME NEW u \in SessionActors, m_freeSessions # << >>,
               session[u].m_state = "unborn",
               session' = [session EXCEPT ![u] = Made(id, players)]
        PROVE  SessionTransition(s)
    <3>1. id \in Ids
      BY <2>2 DEF IInv, TypeOK, BackendTypeOK
    <3>2. players \in SUBSET Players
      BY <1>2, RequestTaken
         DEF CreateSession, TakeCreateSession, BackendRequests
    <3> HIDE DEF id, players
    <3> QED BY <2>2, <3>1, <3>2, OthersStay
            DEF SessionTransition, IsMade
  <2> QED BY <1>2, <2>1, <2>2
          DEF CreateSession, TakeCreateSession, Made
<1>3. AskSession \/ CloseSession \/ UNCHANGED vars
          \/ (\E c \in Clients : ClientStep(c)) => UNCHANGED session
  BY ClientsOnly DEF AskSession, CloseSession, TakeCloseSession, vars,
                     serverVars
<1> QED BY <1>1, <1>2, <1>3, DatagramTransition, ThreadTransition DEF Next


-----------------------------------------------------------------------------
(***************************************************************************)
(* Sequences used as queues and stacks.                                    *)
(***************************************************************************)
LEMMA AppendSet ==
    ASSUME NEW S, NEW q \in Seq(S), NEW e \in S
    PROVE  ToSet(Append(q, e)) = ToSet(q) \cup {e}
<1>1. /\ Len(q) \in Nat /\ DOMAIN q = 1..Len(q)
      /\ DOMAIN Append(q, e) = 1..(Len(q) + 1)
      /\ \A i \in 1..Len(q) : Append(q, e)[i] = q[i]
      /\ Append(q, e)[Len(q) + 1] = e
  OBVIOUS
<1>2. 1..(Len(q) + 1) = 1..Len(q) \cup {Len(q) + 1}
  BY <1>1
<1> QED BY <1>1, <1>2 DEF ToSet

(***************************************************************************)
(* The stack without its top: the same ids but one.                        *)
(***************************************************************************)
LEMMA TailFacts ==
    ASSUME NEW S, NEW q \in Seq(S), q # << >>
    PROVE  /\ Head(q) \in S /\ Tail(q) \in Seq(S)
           /\ ToSet(q) = {Head(q)} \cup ToSet(Tail(q))
           /\ IsInjective(q) =>
                 IsInjective(Tail(q)) /\ Head(q) \notin ToSet(Tail(q))
<1>1. /\ Len(q) \in Nat \ {0} /\ DOMAIN q = 1..Len(q) /\ Head(q) = q[1]
      /\ Tail(q) \in Seq(S) /\ DOMAIN Tail(q) = 1..(Len(q) - 1)
      /\ \A i \in 1..(Len(q) - 1) : Tail(q)[i] = q[i + 1]
      /\ Head(q) \in S
  OBVIOUS
<1>2. ASSUME NEW e \in ToSet(q) PROVE e \in {Head(q)} \cup ToSet(Tail(q))
  <2>1. PICK i \in 1..Len(q) : e = q[i]
    BY <1>1 DEF ToSet
  <2>2. CASE i = 1
    BY <1>1, <2>1, <2>2
  <2>3. CASE i # 1
    <3>1. i - 1 \in 1..(Len(q) - 1) /\ (i - 1) + 1 = i
      BY <1>1, <2>3
    <3>2. e = Tail(q)[i - 1]
      BY <1>1, <2>1, <3>1
    <3> QED BY <1>1, <3>1, <3>2 DEF ToSet
  <2> QED BY <2>2, <2>3
<1>3. ASSUME NEW e \in ToSet(Tail(q))
      PROVE \E i \in 1..Len(q) : i > 1 /\ q[i] = e
  <2>1. PICK i \in 1..(Len(q) - 1) : e = Tail(q)[i]
    BY <1>1 DEF ToSet
  <2>2. i + 1 \in 1..Len(q) /\ i + 1 > 1 /\ q[i + 1] = e
    BY <1>1, <2>1
  <2> QED BY <2>2
<1>4. Head(q) \in ToSet(q)
  BY <1>1 DEF ToSet
<1>5. ToSet(q) = {Head(q)} \cup ToSet(Tail(q))
  BY <1>1, <1>2, <1>3, <1>4 DEF ToSet
<1>6. ASSUME IsInjective(q), NEW i \in 1..(Len(q) - 1),
             NEW j \in 1..(Len(q) - 1), Tail(q)[i] = Tail(q)[j]
      PROVE i = j
  <2>1. i + 1 \in 1..Len(q) /\ j + 1 \in 1..Len(q) /\ q[i + 1] = q[j + 1]
    BY <1>1, <1>6
  <2>2. i + 1 = j + 1
    BY <1>1, <1>6, <2>1 DEF IsInjective
  <2> QED BY <1>1, <2>2
<1>7. IsInjective(q) => IsInjective(Tail(q))
  BY <1>1, <1>6 DEF IsInjective
<1>8. IsInjective(q) => Head(q) \notin ToSet(Tail(q))
  <2> SUFFICES ASSUME IsInjective(q), Head(q) \in ToSet(Tail(q))
               PROVE FALSE
    OBVIOUS
  <2>1. PICK i \in 1..Len(q) : i > 1 /\ q[i] = Head(q)
    BY <1>3
  <2>2. 1 \in 1..Len(q) /\ q[1] = q[i]
    BY <1>1, <2>1
  <2>3. i = 1
    BY <1>1, <2>2 DEF IsInjective
  <2> QED BY <2>1, <2>3
<1> QED BY <1>1, <1>5, <1>7, <1>8

(***************************************************************************)
(* The stack with one id more.                                             *)
(***************************************************************************)
LEMMA PushFacts ==
    ASSUME NEW S, NEW q \in Seq(S), NEW e \in S
    PROVE  /\ ToSet(<<e>> \o q) = {e} \cup ToSet(q)
           /\ IsInjective(q) /\ e \notin ToSet(q) => IsInjective(<<e>> \o q)
<1> DEFINE p == <<e>> \o q
<1>1. /\ Len(q) \in Nat /\ DOMAIN q = 1..Len(q)
      /\ p # << >> /\ p \in Seq(S)
      /\ Head(p) = e /\ Tail(p) = q
  OBVIOUS
<1>2. /\ Len(p) = Len(q) + 1 /\ DOMAIN p = 1..(Len(q) + 1)
      /\ p[1] = e /\ \A i \in 2..(Len(q) + 1) : p[i] = q[i - 1]
  OBVIOUS
<1> HIDE DEF p
<1>3. ToSet(p) = {e} \cup ToSet(q)
  BY <1>1, TailFacts
<1>4. ASSUME IsInjective(q), e \notin ToSet(q),
             NEW i \in 1..(Len(q) + 1), NEW j \in 1..(Len(q) + 1),
             p[i] = p[j]
      PROVE i = j
  <2>1. \A k \in 2..(Len(q) + 1) : k - 1 \in 1..Len(q)
    BY <1>1
  <2>2. \A k \in 2..(Len(q) + 1) : p[k] \in ToSet(q)
    BY <1>1, <1>2, <2>1 DEF ToSet
  <2>3. CASE i = 1 \/ j = 1
    <3>1. i = 1 /\ j = 1
      BY <1>1, <1>2, <1>4, <2>2, <2>3
    <3> QED BY <3>1
  <2>4. CASE i # 1 /\ j # 1
    <3>1. i \in 2..(Len(q) + 1) /\ j \in 2..(Len(q) + 1)
      BY <1>1, <2>4
    <3>2. q[i - 1] = q[j - 1] /\ i - 1 \in DOMAIN q /\ j - 1 \in DOMAIN q
      BY <1>1, <1>2, <1>4, <2>1, <3>1
    <3>3. i - 1 = j - 1
      BY <1>4, <3>2 DEF IsInjective
    <3> QED BY <1>1, <3>1, <3>3
  <2> QED BY <2>3, <2>4
<1>5. IsInjective(q) /\ e \notin ToSet(q) => IsInjective(p)
  BY <1>2, <1>4 DEF IsInjective
<1> QED BY <1>3, <1>5 DEF p

-----------------------------------------------------------------------------
(***************************************************************************)
(* The table of sessions and the mailbox of Backend.                       *)
(***************************************************************************)
(***************************************************************************)
(* Only CreateSession and CloseSession touch the table.                    *)
(***************************************************************************)
TableStays == UNCHANGED <<m_sessions, m_freeSessions>>

(***************************************************************************)
(* What may become of the mailbox while the table stays as it is.          *)
(***************************************************************************)
LEMMA MailboxStep ==
    ASSUME IInv, [Next]_vars
    PROVE  \/ CreateSession \/ CloseSession
           \/ /\ TableStays
              /\ \/ requests' = requests
                 \/ \E r \in BackendRequests : requests' = Append(requests, r)
<1>1. CASE AskSession
  <2>1. PICK players \in SUBSET Players :
            requests' = Append(requests, [type |-> "CreateSession",
                                          players |-> players])
    BY <1>1 DEF AskSession
  <2>2. [type |-> "CreateSession", players |-> players] \in BackendRequests
    BY DEF BackendRequests
  <2> QED BY <1>1, <2>1, <2>2 DEF AskSession, TableStays
<1>2. CASE Datagram
  BY <1>2 DEF Datagram, TakeEnvelop, TableStays, TakeDatagram, TakeReady,
              TakeKeepAlive, TakeUnexpected, BeginUpdate, TakeMessage,
              TakeRequestSync, BeginQuit, OnlyReplies
<1>3. ASSUME NEW s \in SessionActors, ServerThreads(s)
      PROVE  /\ TableStays
             /\ \/ requests' = requests
                \/ \E r \in BackendRequests : requests' = Append(requests, r)
  <2>1. TableStays
    BY <1>3 DEF ServerThreads, TableStays
  <2>2. ASSUME ClosedIfLeft(s), Begun(session[s])
        PROVE \/ requests' = requests
              \/ \E r \in BackendRequests : requests' = Append(requests, r)
    <3>1. session[s].m_id \in Ids
      BY <2>2, Before DEF Sane, Begun
    <3>2. ClosingOf(s) \in BackendRequests
      BY <3>1 DEF ClosingOf, BackendRequests
    <3> QED BY <2>2, <3>2 DEF ClosedIfLeft, ClosingOf
  <2>3. CASE EndQuit(s) \/ CheckLeft(s)
    BY <2>1, <2>2, <2>3, Working DEF EndQuit, CheckLeft
  <2>4. CASE ~(EndQuit(s) \/ CheckLeft(s))
    BY <1>3, <2>1, <2>4
       DEF ServerThreads, SessionActorStep, ActorStep, TaskStep, EndUpdate,
           RemoveQuitter, SendSync, BeginCheck, VisitHeard, VisitSilent,
           Visit, PassBy, Touch, RemoveSilent, EndCheck
  <2> QED BY <2>3, <2>4
<1>4. ASSUME NEW c \in Clients, ClientStep(c)
      PROVE  TableStays /\ requests' = requests
  BY <1>4, ClientsOnly DEF serverVars, TableStays
<1>5. CASE UNCHANGED vars
  BY <1>5 DEF vars, TableStays
<1> QED BY <1>1, <1>2, <1>3, <1>4, <1>5 DEF Next

(***************************************************************************)
(* Every step keeps FreeExact.                                             *)
(***************************************************************************)
LEMMA FreeExactStep ==
    ASSUME IInv, FreeExact, [Next]_vars
    PROVE  FreeExact'
<1>1. /\ m_sessions \in [Ids -> SessionActors \cup {Null}]
      /\ m_freeSessions \in Seq(Ids)
  BY DEF IInv, TypeOK, BackendTypeOK
<1>2. CASE CreateSession
  <2>1. CASE TableStays
    BY <2>1 DEF TableStays, FreeExact
  <2>2. ASSUME NEW s \in SessionActors, m_freeSessions # << >>,
               m_freeSessions' = Tail(m_freeSessions),
               m_sessions' = [m_sessions EXCEPT ![Head(m_freeSessions)] = s]
        PROVE  FreeExact'
    <3> DEFINE id == Head(m_freeSessions)
               rest == Tail(m_freeSessions)
    <3>1. /\ id \in Ids /\ IsInjective(rest) /\ id \notin ToSet(rest)
          /\ ToSet(m_freeSessions) = {id} \cup ToSet(rest)
      BY <1>1, <2>2, TailFacts DEF FreeExact
    <3>2. s # Null
      BY NullAssumption
    <3> HIDE DEF id, rest
    <3>3. /\ m_freeSessions' = rest
          /\ m_sessions' = [m_sessions EXCEPT ![id] = s]
      BY <2>2 DEF id, rest
    <3>4. ASSUME NEW k \in Ids
          PROVE m_sessions'[k] = Null <=> k \in ToSet(rest)
      BY <1>1, <3>1, <3>2, <3>3 DEF FreeExact
    <3> QED BY <3>1, <3>3, <3>4 DEF FreeExact
  <2> QED BY <1>2, <2>1, <2>2
          DEF CreateSession, TakeCreateSession, TableStays
<1>3. CASE CloseSession
  <2> DEFINE id == Head(requests).id
  <2>1. id \in Ids
    BY <1>3, RequestTaken
       DEF CloseSession, TakeCloseSession, BackendRequests
  <2> HIDE DEF id
  <2>2. CASE TableStays
    BY <2>2 DEF TableStays, FreeExact
  <2>3. CASE /\ m_sessions[id] # Null
             /\ m_sessions' = [m_sessions EXCEPT ![id] = Null]
             /\ m_freeSessions' = <<id>> \o m_freeSessions
    <3>1. id \notin ToSet(m_freeSessions)
      BY <2>1, <2>3 DEF FreeExact
    <3>2. /\ IsInjective(m_freeSessions')
          /\ ToSet(m_freeSessions)' = {id} \cup ToSet(m_freeSessions)
      BY <1>1, <2>1, <2>3, <3>1, PushFacts DEF FreeExact
    <3>3. ASSUME NEW k \in Ids
          PROVE m_sessions'[k] = Null <=> k \in ToSet(m_freeSessions)'
      BY <1>1, <2>1, <2>3, <3>2 DEF FreeExact
    <3> QED BY <3>2, <3>3 DEF FreeExact
  <2> QED BY <1>3, <2>2, <2>3
          DEF CloseSession, TakeCloseSession, TableStays, id
<1>4. CASE TableStays
  BY <1>4 DEF TableStays, FreeExact
<1> QED BY <1>2, <1>3, <1>4, MailboxStep

(***************************************************************************)
(* The stack of free ids and the table agree, for any number of ids: no    *)
(* CloseSession that comes twice, or for a slot that has another owner by  *)
(* now, frees an id that is free already.                                  *)
(***************************************************************************)
THEOREM FreeExactTheorem == Spec => []FreeExact
<1> DEFINE all == [i \in 1..MAX_SESSIONS_NUMBER |-> i - 1]
<1>1. Init => FreeExact
  <2> SUFFICES ASSUME Init PROVE FreeExact
    OBVIOUS
  <2>1. m_freeSessions = all /\ m_sessions = [id \in Ids |-> Null]
    BY DEF Init, BackendInit
  <2>2. IsInjective(all)
    BY CallsAssumption DEF IsInjective
  <2>3. ASSUME NEW id \in Ids PROVE id \in ToSet(all)
    <3>1. id + 1 \in 1..MAX_SESSIONS_NUMBER /\ (id + 1) - 1 = id
      BY CallsAssumption DEF Ids
    <3>2. all[id + 1] = id
      BY <3>1
    <3> QED BY <3>1, <3>2 DEF ToSet
  <2> QED BY <2>1, <2>2, <2>3 DEF FreeExact
<1>2. IInv /\ FreeExact /\ [Next]_vars => FreeExact'
  BY FreeExactStep
<1> QED BY <1>1, <1>2, SessionInvariant, PTL DEF Spec

-----------------------------------------------------------------------------
(***************************************************************************)
(* A step does not take the CloseSession of id from the mailbox and leave  *)
(* a session in the slot.                                                  *)
(***************************************************************************)
Closing(id) == [type |-> "CloseSession", id |-> id]

(***************************************************************************)
(* A request to close an id is in the mailbox until the slot is free.      *)
(***************************************************************************)
LEMMA ClosingStays ==
    ASSUME IInv, [Next]_vars, NEW id \in Ids,
           Closing(id) \in ToSet(requests)
    PROVE  m_sessions'[id] = Null \/ Closing(id) \in ToSet(requests')
<1>1. /\ m_sessions \in [Ids -> SessionActors \cup {Null}]
      /\ requests \in Seq(BackendRequests)
  BY DEF IInv, TypeOK, SessionTypeOK, BackendTypeOK
<1>2. ASSUME NEW type, Gets(type), requests' = Tail(requests),
             Closing(id) # Head(requests)
      PROVE  Closing(id) \in ToSet(requests')
  BY <1>1, <1>2, TailFacts DEF Gets
<1>3. CASE CreateSession
  <2>1. Gets("CreateSession") /\ requests' = Tail(requests)
    BY <1>3 DEF CreateSession, TakeCreateSession
  <2>2. Closing(id) # Head(requests)
    BY <2>1 DEF Gets, Closing
  <2> QED BY <1>2, <2>1, <2>2
<1>4. CASE CloseSession
  <2>1. Gets("CloseSession") /\ requests' = Tail(requests)
    BY <1>4 DEF CloseSession, TakeCloseSession
  <2>2. CASE Closing(id) # Head(requests)
    BY <1>2, <2>1, <2>2
  <2>3. CASE Closing(id) = Head(requests)
    <3>1. Head(requests).id = id
      BY <2>3 DEF Closing
    <3>2. m_sessions'[id] = Null
      BY <1>1, <1>4, <3>1 DEF CloseSession, TakeCloseSession
    <3> QED BY <3>2
  <2> QED BY <2>2, <2>3
<1>5. ASSUME NEW r \in BackendRequests, requests' = Append(requests, r)
      PROVE  Closing(id) \in ToSet(requests')
  BY <1>1, <1>5, AppendSet
<1> QED BY <1>3, <1>4, <1>5, MailboxStep

(***************************************************************************)
(* Every step keeps SlotsComeBack.                                         *)
(***************************************************************************)
LEMMA SlotsComeBackStep ==
    ASSUME IInv, SlotsComeBack, [Next]_vars
    PROVE  SlotsComeBack'
<1>1. /\ m_sessions \in [Ids -> SessionActors \cup {Null}]
      /\ requests \in Seq(BackendRequests)
      /\ session \in [SessionActors -> SessionState]
  BY DEF IInv, TypeOK, SessionTypeOK, BackendTypeOK
<1> SUFFICES ASSUME NEW id \in Ids, m_sessions'[id] # Null,
                    session'[m_sessions'[id]].m_state = "stopped"
             PROVE  Closing(id) \in ToSet(requests')
  BY DEF SlotsComeBack, Closing
<1> DEFINE s == m_sessions'[id]
<1>2. CASE m_sessions'[id] = m_sessions[id]
  <2>1. s \in SessionActors /\ m_sessions[id] = s
    BY <1>1, <1>2
  <2> HIDE DEF s
  <2>2. session[s].m_id = id /\ session[s] \in SessionState
    BY <1>1, <1>2, <2>1 DEF IInv, TableSane, s
  <2>3. CASE session[s].m_state = "stopped"
    <3>1. Closing(id) \in ToSet(requests)
      BY <1>2, <2>1, <2>3 DEF SlotsComeBack, Closing, s
    <3> QED BY <3>1, ClosingStays
  <2>4. CASE session[s].m_state # "stopped"
    <3>1. SessionTransition(s)
      BY <2>1, EveryTransition
    <3>2. session'[s] # session[s] /\ session'[s].m_state = "stopped"
      BY <2>1, <2>4 DEF s
    <3>3. ~IsMade(s)
      BY <3>2, MadeType DEF IsMade
    <3>4. ~GetsReady(s)
      <4> SUFFICES ASSUME GetsReady(s) PROVE FALSE
        OBVIOUS
      <4>1. PICK d \in uplink :
               session'[s] = IF AllReady(WithReady(session[s], d))
                             THEN Running(WithReady(session[s], d))
                             ELSE WithReady(session[s], d)
        BY DEF GetsReady
      <4>2. d \in ToServer /\ session[s].m_state = "Waiting"
        BY DEF IInv, TypeOK, SessionTypeOK, GetsReady
      <4>3. /\ WithReady(session[s], d) \in SessionState
            /\ WithReady(session[s], d).m_state = "Waiting"
        BY <2>2, <4>2, WithReadyType
      <4> HIDE DEF WithReady
      <4>4. Running(WithReady(session[s], d)).m_state = "Running"
        BY <4>3 DEF Running, SessionState
      <4> QED BY <3>2, <4>1, <4>3, <4>4
    <3>5. ~IsUpdated(s)
      BY <2>2, <2>4, <3>2 DEF IsUpdated, Updated, SessionState
    <3>6. ~GetsRequest(s)
      BY <2>2, <2>4, <3>2 DEF GetsRequest, Indexed, SessionState
    <3>7. ~LosesOrKeeps(s)
      BY <2>2, <2>4, <3>2 DEF LosesOrKeeps, Holding, SessionState
    <3>8. requests' = Append(requests, Closing(id))
      BY <2>2, <3>1, <3>2, <3>3, <3>4, <3>5, <3>6, <3>7
         DEF SessionTransition, IsStopped, ClosingOf, Closing
    <3>9. Closing(id) \in BackendRequests
      BY DEF Closing, BackendRequests
    <3> QED BY <1>1, <3>8, <3>9, AppendSet
  <2> QED BY <2>3, <2>4
<1>3. CASE m_sessions'[id] # m_sessions[id]
  <2>1. ~CloseSession
    <3> SUFFICES ASSUME CloseSession PROVE FALSE
      OBVIOUS
    <3>1. \/ m_sessions' = m_sessions
          \/ m_sessions' = [m_sessions EXCEPT ![Head(requests).id] = Null]
      BY DEF CloseSession, TakeCloseSession
    <3> QED BY <1>1, <1>3, <3>1
  <2>2. CreateSession
    BY <1>3, <2>1, MailboxStep DEF TableStays
  <2>3. PICK u \in SessionActors :
           /\ m_sessions' = [m_sessions EXCEPT ![Head(m_freeSessions)] = u]
           /\ session' = [session EXCEPT ![u] =
                 Made(Head(m_freeSessions), Head(requests).players)]
    BY <1>3, <2>2 DEF CreateSession, TakeCreateSession, Made
  <2>4. s = u
    BY <1>1, <1>3, <2>3
  <2>5. session'[u] = Made(Head(m_freeSessions), Head(requests).players)
    BY <1>1, <2>3
  <2>6. session'[u].m_state = "Waiting"
    BY <2>5 DEF Made, Unborn
  <2> QED BY <2>4, <2>6
<1> QED BY <1>2, <1>3

(***************************************************************************)
(* A session that has stopped and still holds its slot has its             *)
(* CloseSession in the mailbox of Backend, whichever of its two threads    *)
(* saw the last player go.                                                 *)
(***************************************************************************)
THEOREM SlotsTheorem == Spec => []SlotsComeBack
<1>1. Init => SlotsComeBack
  BY DEF Init, BackendInit, SlotsComeBack
<1>2. IInv /\ SlotsComeBack /\ [Next]_vars => SlotsComeBack'
  BY SlotsComeBackStep
<1> QED BY <1>1, <1>2, SessionInvariant, PTL DEF Spec

-----------------------------------------------------------------------------
(***************************************************************************)
(* The indices.                                                            *)
(***************************************************************************)
FirstInfo == [localSeqIdx |-> 1, remoteSeqIdx |-> 0]

(***************************************************************************)
(* Before a session runs, Ready is all that it has from its players.       *)
(***************************************************************************)
IndicesFresh ==
    \A s \in SessionActors : ~Begun(session[s]) =>
        \A p \in Players : session[s].m_seqStats[p] \in {Null, FirstInfo}

(***************************************************************************)
(* Whatever the window, an index that is accepted is ahead by less.        *)
(***************************************************************************)
LEMMA AcceptsAhead ==
    ASSUME NEW window \in Nat, NEW last \in Indices, NEW idx \in Indices,
           Accepts(window, last, idx)
    PROVE  Ahead(last, idx) \in 1..(window - 1)
<1>1. IDX_WRAP_MODULE \in Nat /\ last \in Int /\ idx \in Int
  BY IndexAssumption DEF Indices
<1>2. CASE idx >= last
  BY <1>1, <1>2, AheadIs DEF Accepts
<1>3. CASE idx < last
  BY <1>1, <1>3, AheadIs DEF Accepts, Indices
<1> QED BY <1>1, <1>2, <1>3

(***************************************************************************)
(* What the steps of a session do to its m_seqStats.                       *)
(***************************************************************************)
LEMMA SeqStatsStep ==
    ASSUME IInv, [Next]_vars, NEW s \in SessionActors
    PROVE  \/ session'[s].m_seqStats = session[s].m_seqStats
           \/ IsMade(s)
           \/ /\ session[s].m_state = "Waiting"
              /\ \E p \in Players : session'[s].m_seqStats =
                    [session[s].m_seqStats EXCEPT ![p] = FirstInfo]
           \/ /\ session[s].m_state = "Running"
              /\ \E d \in uplink :
                    /\ m_sessions[d.id] = s
                    /\ d.type = "RequestSync" /\ IsReliable(d)
                    /\ AcceptsRequest(s, d)
                    /\ session'[s].m_seqStats =
                          [session[s].m_seqStats EXCEPT ![d.name] =
                             AfterRequest(session[s].m_seqStats[d.name], d)]
<1> DEFINE x == session[s]
<1>1. x \in SessionState /\ uplink \subseteq ToServer
  BY DEF IInv, TypeOK, SessionTypeOK
<1> HIDE DEF x
<1>2. CASE IsUpdated(s)
  BY <1>1, <1>2 DEF IsUpdated, Updated, SessionState, x
<1>3. CASE LosesOrKeeps(s)
  BY <1>1, <1>3 DEF LosesOrKeeps, Holding, SessionState, x
<1>4. CASE IsStopped(s)
  BY <1>1, <1>4 DEF IsStopped, Stopped, SessionState, x
<1>5. CASE GetsReady(s)
  <2>1. PICK d \in uplink :
           /\ x.m_state = "Waiting"
           /\ session'[s] = IF AllReady(WithReady(x, d))
                            THEN Running(WithReady(x, d))
                            ELSE WithReady(x, d)
    BY <1>5 DEF GetsReady, x
  <2>2. /\ d.name \in Players /\ WithReady(x, d) \in SessionState
        /\ WithReady(x, d).m_seqStats =
              [x.m_seqStats EXCEPT ![d.name] = FirstInfo]
    BY <1>1, WithReadyType, ToServerFields DEF FirstInfo
  <2> HIDE DEF WithReady
  <2>3. Running(WithReady(x, d)).m_seqStats = WithReady(x, d).m_seqStats
    BY <2>2 DEF Running, SessionState
  <2> QED BY <2>1, <2>2, <2>3 DEF x
<1>6. CASE GetsRequest(s)
  BY <1>1, <1>6 DEF GetsRequest, Indexed, SessionState, x
<1> QED BY <1>2, <1>3, <1>4, <1>5, <1>6, EveryTransition
        DEF SessionTransition, x

(***************************************************************************)
(* Every step keeps IndicesFresh.                                          *)
(***************************************************************************)
LEMMA IndicesFreshStep ==
    ASSUME IInv, IndicesFresh, [Next]_vars
    PROVE  IndicesFresh'
<1> SUFFICES ASSUME NEW s \in SessionActors, ~Begun(session'[s]),
                    NEW p \in Players
             PROVE  session'[s].m_seqStats[p] \in {Null, FirstInfo}
  BY DEF IndicesFresh
<1>1. session[s] \in SessionState /\ SessionTransition(s)
  BY EveryTransition DEF IInv, TypeOK, SessionTypeOK
<1>2. CASE IsMade(s)
  <2>1. session'[s].m_seqStats = [q \in Players |-> Null]
    BY <1>2, MadeType DEF IsMade
  <2> QED BY <2>1
<1>3. CASE ~Begun(session[s])
  <2>1. session[s].m_seqStats[p] \in {Null, FirstInfo}
    BY <1>3 DEF IndicesFresh
  <2>2. session[s].m_seqStats
            \in [Players -> MessagesSequenceInfo \cup {Null}]
    BY <1>1 DEF SessionState
  <2> QED BY <1>2, <1>3, <2>1, <2>2, SeqStatsStep DEF Begun
<1>4. CASE Begun(session[s])
  <2>1. CASE IsUpdated(s)
    BY <1>1, <1>4, <2>1 DEF IsUpdated, Updated, SessionState, Begun
  <2>2. CASE GetsRequest(s)
    BY <1>1, <1>4, <2>2 DEF GetsRequest, Indexed, SessionState, Begun
  <2>3. CASE LosesOrKeeps(s)
    BY <1>1, <1>4, <2>3 DEF LosesOrKeeps, Holding, SessionState, Begun
  <2>4. CASE IsStopped(s)
    BY <1>1, <1>4, <2>4 DEF IsStopped, Stopped, SessionState, Begun
  <2>5. ~GetsReady(s)
    BY <1>4 DEF GetsReady, Begun
  <2> QED BY <1>1, <1>2, <1>4, <2>1, <2>2, <2>3, <2>4, <2>5
          DEF SessionTransition
<1> QED BY <1>3, <1>4

(***************************************************************************)
(* The indices of a Session object are those of the requests it has made,  *)
(* and its queue holds earlier ones.                                       *)
(***************************************************************************)
LEMMA FreshInvariant == Spec => []IndicesFresh
<1>1. Init => IndicesFresh
  BY DEF Init, SessionInit, Unborn, IndicesFresh
<1>2. IInv /\ IndicesFresh /\ [Next]_vars => IndicesFresh'
  BY IndicesFreshStep
<1> QED BY <1>1, <1>2, SessionInvariant, PTL DEF Spec

(***************************************************************************)
(* What the calls of a client do to its fields.                            *)
(***************************************************************************)
Same(k, j) ==
    /\ j.phase = k.phase /\ j.port = k.port
    /\ j.mRemoteSeqIdx = k.mRemoteSeqIdx

SameQueue(k, j) ==
    /\ j.mLocalSeqIdx = k.mLocalSeqIdx
    /\ j.mOutputQueue = k.mOutputQueue

(***************************************************************************)
(* The Session object that a step has changed.                             *)
(***************************************************************************)
LEMMA NewFields ==
    ASSUME IInv, NEW c \in Clients, NEW x,
           client' = [client EXCEPT ![c] = x]
    PROVE  /\ client[c] \in ClientState
           /\ client'[c] = x
           /\ client' = [client EXCEPT ![c] = client'[c]]
  BY DEF IInv, TypeOK

(***************************************************************************)
(* Calls other than sync leave indices and queue alone.                    *)
(***************************************************************************)
LEMMA PlainCallShape ==
    ASSUME IInv, NEW c \in Clients, KeepAlive(c) \/ Say(c) \/ Broadcast(c)
    PROVE  /\ client' = [client EXCEPT ![c] = client'[c]]
           /\ Same(client[c], client'[c])
           /\ SameQueue(client[c], client'[c])
           /\ client'[c].syncs = client[c].syncs
<1> DEFINE k == client[c]
           calls == k.calls - 1
           updates == k.updates + 1
<1>1. ASSUME NEW j, j \in {[k EXCEPT !.calls = calls],
                           [k EXCEPT !.calls = calls, !.updates = updates]},
             client' = [client EXCEPT ![c] = j]
      PROVE  /\ client' = [client EXCEPT ![c] = client'[c]]
             /\ Same(k, client'[c]) /\ SameQueue(k, client'[c])
             /\ client'[c].syncs = k.syncs
  <2>1. /\ k \in ClientState /\ client'[c] = j
        /\ client' = [client EXCEPT ![c] = client'[c]]
    BY <1>1, NewFields
  <2> HIDE DEF k, calls, updates
  <2>2. Same(k, j) /\ SameQueue(k, j) /\ j.syncs = k.syncs
    BY <1>1, <2>1 DEF ClientState, Same, SameQueue
  <2> QED BY <2>1, <2>2
<1>2. CASE KeepAlive(c) \/ Say(c)
  BY <1>1, <1>2 DEF KeepAlive, Say, Counted
<1>3. CASE Broadcast(c)
  BY <1>1, <1>3 DEF Broadcast, Counted
<1> QED BY <1>2, <1>3

(***************************************************************************)
(* An unreliable sync only counts.                                         *)
(***************************************************************************)
LEMMA SyncShape ==
    ASSUME IInv, NEW c \in Clients, Sync(c)
    PROVE  /\ client' = [client EXCEPT ![c] = client'[c]]
           /\ Same(client[c], client'[c])
           /\ SameQueue(client[c], client'[c])
           /\ client'[c].syncs = client[c].syncs + 1
<1> DEFINE k == client[c]
           calls == k.calls - 1
           syncs == k.syncs + 1
           j == [k EXCEPT !.calls = calls, !.syncs = syncs]
<1>1. client' = [client EXCEPT ![c] = j]
  BY DEF Sync, Counted
<1>2. /\ k \in ClientState /\ client'[c] = j
      /\ client' = [client EXCEPT ![c] = client'[c]]
  BY <1>1, NewFields
<1> HIDE DEF k, calls, syncs
<1>3. Same(k, j) /\ SameQueue(k, j) /\ j.syncs = syncs
  BY <1>2 DEF ClientState, Same, SameQueue
<1> QED BY <1>2, <1>3 DEF k, syncs

(***************************************************************************)
(* A reliable sync takes the next index and is appended to the queue.      *)
(***************************************************************************)
LEMMA ReliableSyncShape ==
    ASSUME IInv, NEW c \in Clients, ReliableSync(c)
    PROVE  /\ client' = [client EXCEPT ![c] = client'[c]]
           /\ Same(client[c], client'[c])
           /\ client'[c].syncs = client[c].syncs + 1
           /\ client'[c].mLocalSeqIdx = NextIdx(client[c].mLocalSeqIdx)
           /\ client'[c].mOutputQueue =
                 Append(client[c].mOutputQueue,
                        [request |-> NextRequest(c),
                         seqIdx |-> client[c].mLocalSeqIdx])
<1> DEFINE k == client[c]
           calls == k.calls - 1
           syncs == k.syncs + 1
           local == NextIdx(k.mLocalSeqIdx)
           queue == Append(k.mOutputQueue, [request |-> NextRequest(c),
                                            seqIdx |-> k.mLocalSeqIdx])
           j == [k EXCEPT !.calls = calls, !.syncs = syncs,
                          !.mLocalSeqIdx = local, !.mOutputQueue = queue]
<1>1. client' = [client EXCEPT ![c] = j]
  BY DEF ReliableSync, Counted
<1>2. /\ k \in ClientState /\ client'[c] = j
      /\ client' = [client EXCEPT ![c] = client'[c]]
  BY <1>1, NewFields
<1> HIDE DEF k, calls, syncs, local, queue
<1>3. /\ Same(k, j) /\ j.syncs = syncs
      /\ j.mLocalSeqIdx = local /\ j.mOutputQueue = queue
  BY <1>2 DEF ClientState, Same
<1> QED BY <1>2, <1>3 DEF k, syncs, local, queue

(***************************************************************************)
(* The client's mRemoteSeqIdx is set by receive alone, to what it accepts. *)
(***************************************************************************)
LEMMA RemoteIdxStep ==
    ASSUME IInv, [Next]_vars, NEW c \in Clients,
           client'[c].mRemoteSeqIdx # client[c].mRemoteSeqIdx
    PROVE  \E d \in downlink :
              /\ Acknowledges(c, d)
              /\ client'[c].mRemoteSeqIdx = d.seqIdx
<1>1. /\ client \in [Clients -> ClientState] /\ client[c] \in ClientState
      /\ downlink \subseteq ToClient
  BY DEF IInv, TypeOK, SessionTypeOK
<1>2. ~CreateSession
  <2> SUFFICES ASSUME CreateSession PROVE FALSE
    OBVIOUS
  <2>1. /\ client'[c] = NewClient("created")
        /\ session[c[1]].m_state = "unborn"
    BY DEF CreateSession, Unborns
  <2>2. client[c] = NewClient("none")
    BY <2>1 DEF IInv, ClientsSane, ClientSane
  <2> QED BY <2>1, <2>2 DEF NewClient
<1>3. client' # client
  OBVIOUS
<1>4. PICK u \in Clients : ClientStep(u)
  BY <1>2, <1>3 DEF Next, AskSession, CloseSession, Datagram, ServerThreads,
                    vars
<1>5. ASSUME NEW k \in ClientState,
             k.mRemoteSeqIdx = client[u].mRemoteSeqIdx,
             client' = [client EXCEPT ![u] = k]
      PROVE  FALSE
  BY <1>1, <1>5
<1>6. client[u] \in ClientState
  BY <1>1
<1>7. ~(Startup(u) \/ TimeOut(u) \/ Quit(u))
  <2>1. ASSUME NEW phase, NEW port,
               client' = [client EXCEPT ![u] =
                   [client[u] EXCEPT !.phase = phase, !.port = port]]
        PROVE  FALSE
    BY <1>1, <1>6, <2>1 DEF ClientState
  <2>2. ASSUME NEW phase, client' = [client EXCEPT ![u].phase = phase]
        PROVE  FALSE
    BY <1>1, <1>6, <2>2 DEF ClientState
  <2> QED BY <2>1, <2>2 DEF Startup, TimeOut, Quit
<1>8. ~(KeepAlive(u) \/ Say(u) \/ Broadcast(u) \/ Sync(u)
           \/ ReliableSync(u))
  <2> SUFFICES ASSUME client' = [client EXCEPT ![u] = client'[u]],
                      Same(client[u], client'[u])
               PROVE  FALSE
    BY PlainCallShape, SyncShape, ReliableSyncShape
  <2> QED BY <1>1 DEF Same
<1>10. ~(ResendReady(u) \/ ResendSync(u))
  BY <1>3 DEF ResendReady, ResendSync
<1>11. PICK d \in downlink : ReadAnswer(u, d) \/ Receive(u, d)
  BY <1>4, <1>7, <1>8, <1>10 DEF ClientStep
<1>12. ASSUME NEW phase, client' = [client EXCEPT ![u].phase = phase]
       PROVE  FALSE
  BY <1>1, <1>6, <1>12 DEF ClientState
<1>13. /\ Acknowledges(u, d)
       /\ client' = [client EXCEPT ![u] = Acknowledged(u, d.seqIdx)]
  BY <1>3, <1>11, <1>12 DEF ReadAnswer, Receive
<1>14. u = c
  BY <1>1, <1>13
<1> DEFINE after == Acknowledged(c, d.seqIdx)
           queue == after.mOutputQueue
<1>15. d.seqIdx \in Indices
  BY <1>1, <1>13, AcknowledgesType
<1>16. after = [client[c] EXCEPT !.mRemoteSeqIdx = d.seqIdx,
                                 !.mOutputQueue = queue]
  BY <1>1, <1>15, AcknowledgedType
<1>17. client'[c] = after
  BY <1>1, <1>13, <1>14
<1> HIDE DEF after, queue
<1>18. client'[c].mRemoteSeqIdx = d.seqIdx
  BY <1>1, <1>16, <1>17 DEF ClientState
<1> QED BY <1>13, <1>14, <1>18

(***************************************************************************)
(* No datagram that is repeated, delayed or sent again sets back the index *)
(* that a session has accepted last, or a client: each step moves it on by *)
(* less than the window, for any modulus, windows and number of players.   *)
(***************************************************************************)
IndicesAdvance ==
    /\ \A s \in SessionActors, p \in Players :
        LET before == session[s].m_seqStats[p]
            after == session'[s].m_seqStats[p]
        IN before # Null /\ after # before =>
              Ahead(before.remoteSeqIdx, after.remoteSeqIdx)
                  \in 1..(ACK_HISTORY_SIZE - 1)
    /\ \A c \in Clients :
        LET before == client[c].mRemoteSeqIdx
            after == client'[c].mRemoteSeqIdx
        IN after # before =>
              Ahead(before, after) \in 1..(MESSSAGES_BUFFER_SIZE - 1)

(***************************************************************************)
(* Every step advances the indices as IndicesMoveOn says.                  *)
(***************************************************************************)
LEMMA IndicesAdvanceStep ==
    ASSUME IInv, IndicesFresh, [Next]_vars
    PROVE  IndicesAdvance
<1>1. ASSUME NEW s \in SessionActors, NEW p \in Players,
             session[s].m_seqStats[p] # Null,
             session'[s].m_seqStats[p] # session[s].m_seqStats[p]
      PROVE  Ahead(session[s].m_seqStats[p].remoteSeqIdx,
                   session'[s].m_seqStats[p].remoteSeqIdx)
                 \in 1..(ACK_HISTORY_SIZE - 1)
  <2> DEFINE stats == session[s].m_seqStats
  <2>1. stats \in [Players -> MessagesSequenceInfo \cup {Null}]
        /\ uplink \subseteq ToServer
    BY DEF IInv, TypeOK, SessionTypeOK, SessionState
  <2>2. ~IsMade(s)
    <3>1. session[s].m_state = "unborn" => session[s] = Unborn
      BY DEF IInv, SessionsSane, Sane
    <3>2. session[s].m_state = "unborn" => stats[p] = Null
      BY <3>1 DEF Unborn
    <3> QED BY <1>1, <3>2 DEF IsMade
  <2>3. ASSUME session[s].m_state = "Waiting", NEW q \in Players,
               session'[s].m_seqStats = [stats EXCEPT ![q] = FirstInfo]
        PROVE  FALSE
    <3>1. stats[p] = FirstInfo
      BY <1>1, <2>3 DEF IndicesFresh, Begun
    <3> QED BY <1>1, <2>1, <2>3, <3>1
  <2>4. PICK d \in uplink :
           /\ m_sessions[d.id] = s
           /\ d.type = "RequestSync" /\ IsReliable(d)
           /\ AcceptsRequest(s, d)
           /\ session'[s].m_seqStats =
                [stats EXCEPT ![d.name] = AfterRequest(stats[d.name], d)]
    <3>1. session'[s].m_seqStats # stats
      BY <1>1
    <3> QED BY <2>2, <2>3, <3>1, SeqStatsStep
  <2>5. d.name = p
    BY <1>1, <2>1, <2>4
  <2>6. session'[s].m_seqStats[p] = AfterRequest(stats[p], d)
    BY <2>1, <2>4, <2>5
  <2>7. session'[s].m_seqStats[p].remoteSeqIdx = d.seqIdx
    BY <2>6 DEF AfterRequest
  <2>8. /\ d.seqIdx \in Indices
        /\ stats[p].remoteSeqIdx \in Indices
    <3>1. d.seqIdx \in SeqIdxs
      BY <2>1, <2>4, ToServerFields
    <3>2. stats[p] \in MessagesSequenceInfo
      BY <1>1, <2>1
    <3> QED BY <2>4, <3>1, <3>2, ReliableType
            DEF IsReliable, MessagesSequenceInfo
  <2>9. Accepts(ACK_HISTORY_SIZE, stats[p].remoteSeqIdx, d.seqIdx)
    BY <2>4, <2>5 DEF AcceptsRequest
  <2> QED BY <2>7, <2>8, <2>9, AcceptsAhead, IndexAssumption
<1>2. ASSUME NEW c \in Clients,
             client'[c].mRemoteSeqIdx # client[c].mRemoteSeqIdx
      PROVE  Ahead(client[c].mRemoteSeqIdx, client'[c].mRemoteSeqIdx)
                 \in 1..(MESSSAGES_BUFFER_SIZE - 1)
  <2>1. PICK d \in downlink : /\ Acknowledges(c, d)
                              /\ client'[c].mRemoteSeqIdx = d.seqIdx
    BY <1>2, RemoteIdxStep
  <2>2. d.seqIdx \in Indices /\ client[c].mRemoteSeqIdx \in Indices
    BY <2>1, AcknowledgesType
       DEF IInv, TypeOK, SessionTypeOK, ClientState
  <2> QED BY <2>1, <2>2, AcceptsAhead, CallsAssumption DEF Acknowledges
<1> QED BY <1>1, <1>2 DEF IndicesAdvance

(***************************************************************************)
(* The last index that a session has accepted from a player, and the one   *)
(* that a client has accepted, only move on, by less than the window       *)
(* (checkAcknowledgement on both sides).                                   *)
(***************************************************************************)
THEOREM IndicesTheorem == Spec => IndicesMoveOn
<1>1. IInv /\ IndicesFresh /\ [Next]_vars => [IndicesAdvance]_vars
  BY IndicesAdvanceStep
<1>2. [][IndicesAdvance]_vars => IndicesMoveOn
  BY DEF IndicesAdvance, IndicesMoveOn
<1> QED BY <1>1, <1>2, SessionInvariant, FreshInvariant, PTL DEF Spec
=============================================================================
