-------------------------- MODULE LobbyViews_proofs --------------------------
(***************************************************************************)
(* What a client believes of its room is true, and what it sees of the     *)
(* room becomes the room: theorems about BeliefTrue and ViewsConverge, for *)
(* every number of clients, calls, actors and rooms.                       *)
(*                                                                         *)
(* They need what the comment of BeliefTrue names (Orderly, EntersClean).  *)
(* The invariant follows a client that has not left from outside any room  *)
(* to an answer, into a room and out of it again: what is in its socket,   *)
(* in the mailboxes and in the room at each of these stages (Life).        *)
(***************************************************************************)
EXTENDS LobbySystem_proofs

(***************************************************************************)
(* Answers are prompt, nobody creates a room while in one, reads lose      *)
(* nothing, neither those of the client nor those of the server.           *)
(***************************************************************************)
Orderly ==
    ~SlowServer /\ ~CreateWhileJoined /\ MaxRead = 1 /\ WholeRequests

-----------------------------------------------------------------------------
(***************************************************************************)
(* What may be under way.                                                  *)
(***************************************************************************)
Asks(r) == r.type \in {"CreateRoom", "JoinRoom"}

Enters(m) == m.type \in {"Init", "Join"}

AllowedRequest(r) == r.type = "Envelop" => ~Enters(r.mail)

AllowedApi(c) ==
    /\ api[c].call # "destroyed" => online[c]
    /\ api[c].call # "none" => ~api[c].mIsJoined

Allowed ==
    \A c \in Clients :
        /\ AllowedApi(c)
        /\ \A i \in DOMAIN upstream[c] : AllowedRequest(upstream[c][i])

-----------------------------------------------------------------------------
(***************************************************************************)
(* What a client asked for is its last request, or one message of one      *)
(* mailbox, and nothing else of it is under way then.                      *)
(***************************************************************************)
Blocked(c) == api[c].call \in {"createRoom", "joinRoom"}

Matches(c, x, creates) ==
    /\ Blocked(c)
    /\ x.name = api[c].asked
    /\ x.type = creates <=> api[c].call = "createRoom"

Entering(c, m) == m.sender = c /\ Enters(m)

NoMail(c) ==
    \A l \in Lobbies : \A i \in DOMAIN mailbox[l] :
        ~Entering(c, mailbox[l][i])

Settled(c) ==
    NoMail(c) /\ \A i \in DOMAIN upstream[c] : ~Asks(upstream[c][i])

AskedUp(c) ==
    \A i \in DOMAIN upstream[c] :
        Asks(upstream[c][i]) =>
            /\ i = Len(upstream[c])
            /\ Matches(c, upstream[c][i], "CreateRoom")
            /\ NoMail(c)

AskedMail(c) ==
    \A l \in Lobbies : \A i \in DOMAIN mailbox[l] :
        Entering(c, mailbox[l][i]) =>
            /\ upstream[c] = << >>
            /\ Matches(c, mailbox[l][i], "Init")
            /\ \A k \in Lobbies : \A j \in DOMAIN mailbox[k] :
                Entering(c, mailbox[k][j]) => k = l /\ j = i

(***************************************************************************)
(* A StartSession that is under way.  Whoever has asked for a room has     *)
(* none, for the SUCK that may answer it would be taken for the answer to  *)
(* the call that waits.                                                    *)
(***************************************************************************)
Starts(r) == r.type = "Envelop" /\ r.mail.type = "StartSession"

Starting(c, m) == m.sender = c /\ m.type = "StartSession"

NoStart(c) ==
    /\ \A i \in DOMAIN upstream[c] : ~Starts(upstream[c][i])
    /\ \A l \in Lobbies : \A i \in DOMAIN mailbox[l] :
        ~Starting(c, mailbox[l][i])

Unstarted(c) == Blocked(c) => NoStart(c)

Asked(c) == AskedUp(c) /\ AskedMail(c) /\ Unstarted(c)

(***************************************************************************)
(* That is the condition on the clients: none asks for a room while a      *)
(* StartSession of its own, or the SUCK that answered one, is still under  *)
(* way.                                                                    *)
(***************************************************************************)
StartPending(c) ==
    \/ ~NoStart(c)
    \/ \E i \in DOMAIN downstream[c] : downstream[c][i].type = "SUCK"

AsksClean ==
    \A c \in Clients : ~Blocked(c) /\ Blocked(c)' => ~StartPending(c)

EntersClean == [][AsksClean]_vars

-----------------------------------------------------------------------------
(***************************************************************************)
(* Where a client is, and what it takes itself to be once it has read the  *)
(* answer that is waiting for it.                                          *)
(***************************************************************************)
In(c, l) == Running(l) /\ c \in ActorsOf(lobby[l])

NoRoom(c) == \A l \in Lobbies : ~In(c, l)

Returned(c) == api[c].call = "none"

Joined(c) ==
    IF Returned(c) THEN api[c].mIsJoined
    ELSE /\ Blocked(c)
         /\ downstream[c] # << >>
         /\ downstream[c][1].type = "RoomInfo"

Hosts(c) ==
    IF Returned(c) THEN api[c].mIsHost ELSE api[c].call = "createRoom"

MyName(c) == IF Returned(c) THEN api[c].mPlayerName ELSE api[c].asked

AnswerFirst(c) ==
    \A i \in DOMAIN downstream[c] :
        downstream[c][i].type = "RoomInfo" => i = 1 /\ ~Returned(c)

(***************************************************************************)
(* The client is in no room: it may have asked, and nothing has come but   *)
(* what answers a StartSession of before; a refusal has come; or it was    *)
(* put out of its room, and an Ejected is waiting for it, behind which     *)
(* nothing comes but such answers.                                         *)
(***************************************************************************)
Outside(c) ==
    /\ NoRoom(c)
    /\ ~api[c].mIsJoined
    /\ \A i \in DOMAIN downstream[c] : downstream[c][i].type = "SUCK"
    /\ Blocked(c) => downstream[c] = << >>
    /\ Blocked(c) \/ Settled(c)

Refused(c) ==
    /\ NoRoom(c)
    /\ Settled(c)
    /\ Blocked(c)
    /\ \E n : downstream[c] = <<n>> /\ n.type # "RoomInfo"

Told(c) ==
    /\ NoRoom(c)
    /\ Settled(c)
    /\ Joined(c)
    /\ AnswerFirst(c)
    /\ \E e \in DOMAIN downstream[c] : \A i \in DOMAIN downstream[c] :
        /\ downstream[c][i].type = "Ejected" <=> i = e
        /\ i > e => downstream[c][i].type = "SUCK"

(***************************************************************************)
(* The client will see the room l as it is: an Update to it is still to    *)
(* be made, or the last room it was sent, or has read, is that of now.     *)
(***************************************************************************)
Carries(n) == n.type \in {"RoomInfo", "Update", "ReconfigureSucc"}

Tells(m, c) == m.type = "Update" /\ (m.toSelf \/ m.sender # c)

Telling(c, l) == \E i \in DOMAIN mailbox[l] : Tells(mailbox[l][i], c)

LastSent(c, info) ==
    \E i \in DOMAIN downstream[c] :
        /\ Carries(downstream[c][i])
        /\ downstream[c][i].room = info
        /\ \A j \in DOMAIN downstream[c] : Carries(downstream[c][j]) => j <= i

LastRead(c, info) ==
    /\ Returned(c)
    /\ api[c].mMyRoom = info
    /\ \A j \in DOMAIN downstream[c] : ~Carries(downstream[c][j])

Fresh(c, l) ==
    \/ Telling(c, l)
    \/ LastSent(c, MakeRoomInfo(lobby[l]))
    \/ LastRead(c, MakeRoomInfo(lobby[l]))

(***************************************************************************)
(* Its place in the room: under its name, once, and at the head if it is   *)
(* host.                                                                   *)
(***************************************************************************)
Seat(c, players, p) ==
    /\ p \in DOMAIN players
    /\ players[p] = [actor |-> c, name |-> MyName(c)]
    /\ \A i \in DOMAIN players : players[i].actor = c => i = p
    /\ Hosts(c) => p = 1

Seated(c, l) == \E p : Seat(c, lobby[l].players, p)

Heard(n, name) ==
    /\ n.type # "Ejected"
    /\ Carries(n) => n.room.name = name

Inside(c, l) ==
    /\ Running(l)
    /\ Settled(c)
    /\ Joined(c)
    /\ AnswerFirst(c)
    /\ Seated(c, l)
    /\ \A k \in Lobbies : In(c, k) => k = l
    /\ \A i \in DOMAIN downstream[c] :
        Heard(downstream[c][i], lobby[l].name)
    /\ Returned(c) => api[c].mMyRoom.name = lobby[l].name
    /\ Fresh(c, l)

Life(c) ==
    \/ Outside(c)
    \/ Refused(c)
    \/ Told(c)
    \/ \E l \in Lobbies : Inside(c, l)

ClientView(c) == Over(c) \/ (Asked(c) /\ Life(c))

ViewInv == Allowed /\ \A c \in Clients : ClientView(c)

-----------------------------------------------------------------------------
(***************************************************************************)
(* A sequence with one element more at its end.                            *)
(***************************************************************************)
LEMMA AppendAt ==
    ASSUME NEW S, NEW q \in Seq(S), NEW x, NEW p, p = Append(q, x)
    PROVE  /\ Len(q) \in Nat
           /\ Len(p) = Len(q) + 1
           /\ DOMAIN p = 1..(Len(q) + 1)
           /\ p # << >>
           /\ \A i \in DOMAIN q : i \in DOMAIN p /\ p[i] = q[i]
           /\ p[Len(q) + 1] = x
           /\ \A i \in DOMAIN p :
                \/ i \in DOMAIN q /\ p[i] = q[i]
                \/ i = Len(q) + 1 /\ p[i] = x
<1>1. /\ Len(q) \in Nat /\ DOMAIN q = 1..Len(q)
      /\ Len(p) = Len(q) + 1 /\ DOMAIN p = 1..(Len(q) + 1)
      /\ \A i \in 1..Len(q) : p[i] = q[i]
      /\ p[Len(q) + 1] = x
  OBVIOUS
<1>2. p # << >>
  BY <1>1
<1>3. \A i \in 1..(Len(q) + 1) : i \in 1..Len(q) \/ i = Len(q) + 1
  BY <1>1
<1> QED BY <1>1, <1>2, <1>3

(***************************************************************************)
(* A sequence without its first element.                                   *)
(***************************************************************************)
LEMMA TailAt ==
    ASSUME NEW S, NEW q \in Seq(S), q # << >>, NEW p, p = Tail(q)
    PROVE  /\ p \in Seq(S)
           /\ Len(q) \in Nat
           /\ Len(p) = Len(q) - 1
           /\ 1 \in DOMAIN q
           /\ Head(q) = q[1]
           /\ \A i \in DOMAIN p : i + 1 \in DOMAIN q /\ p[i] = q[i + 1]
           /\ \A i \in DOMAIN q :
                i = 1 \/ (i - 1 \in DOMAIN p /\ p[i - 1] = q[i])
<1>1. /\ p \in Seq(S) /\ Len(q) \in Nat /\ Len(q) # 0
      /\ DOMAIN q = 1..Len(q)
      /\ Len(p) = Len(q) - 1 /\ DOMAIN p = 1..(Len(q) - 1)
      /\ \A i \in 1..(Len(q) - 1) : p[i] = q[i + 1]
      /\ Head(q) = q[1]
  OBVIOUS
<1>2. \A i \in DOMAIN p : i + 1 \in DOMAIN q /\ p[i] = q[i + 1]
  BY <1>1
<1>3. ASSUME NEW i \in DOMAIN q, i # 1
      PROVE  i - 1 \in DOMAIN p /\ p[i - 1] = q[i]
  <2>1. i - 1 \in 1..(Len(q) - 1) /\ (i - 1) + 1 = i
    BY <1>1, <1>3
  <2> QED BY <1>1, <2>1
<1>4. 1 \in DOMAIN q
  BY <1>1
<1> QED BY <1>1, <1>2, <1>3, <1>4

(***************************************************************************)
(* What the mailbox of an actor holds after a handler: what was behind the *)
(* message handled, in its order, and perhaps an Update, or a LeaveRoom    *)
(* turned into a Disconnected.                                             *)
(***************************************************************************)
LEMMA MailLeft ==
    ASSUME LobbyTypeOK, NEW l \in Lobbies, LobbyActorStep(l)
    PROVE  \A i \in DOMAIN mailbox'[l] :
             \/ /\ i + 1 \in DOMAIN mailbox[l]
                /\ mailbox'[l][i] = mailbox[l][i + 1]
             \/ mailbox'[l][i].type \in {"Update", "Disconnected"}
<1>0. PICK q, p, t : q = mailbox[l] /\ p = mailbox'[l] /\ t = Tail(q)
  OBVIOUS
<1>1. q \in Seq(Mail) /\ q # << >>
  BY <1>0, MailboxStep DEF LobbyTypeOK
<1>2. /\ t \in Seq(Mail)
      /\ \A i \in DOMAIN t : i + 1 \in DOMAIN q /\ t[i] = q[i + 1]
  BY <1>0, <1>1, TailAt
<1>3. \/ p = t
      \/ p = << >>
      \/ \E m : /\ p = Append(t, m)
                /\ m.type \in {"Update", "Disconnected"}
  BY <1>0, MailboxStep
<1>4. ASSUME NEW m, p = Append(t, m), m.type \in {"Update", "Disconnected"}
      PROVE  \A i \in DOMAIN p :
                \/ i + 1 \in DOMAIN q /\ p[i] = q[i + 1]
                \/ p[i].type \in {"Update", "Disconnected"}
  <2>1. \A i \in DOMAIN p : (i \in DOMAIN t /\ p[i] = t[i]) \/ p[i] = m
    BY <1>2, <1>4, AppendAt
  <2> QED BY <1>2, <1>4, <2>1
<1>5. \A i \in DOMAIN p :
         \/ i + 1 \in DOMAIN q /\ p[i] = q[i + 1]
         \/ p[i].type \in {"Update", "Disconnected"}
  <2>1. CASE p = << >>
    BY <2>1
  <2> QED BY <1>2, <1>3, <1>4, <2>1
<1> QED BY <1>0, <1>5, Zenon

(***************************************************************************)
(* An Update that is still to be made is still to be made after a handler  *)
(* of a room that does not end, unless it is the one that was handled.     *)
(***************************************************************************)
LEMMA TellingLeft ==
    ASSUME LobbyTypeOK, NEW l \in Lobbies, mailbox[l] # << >>, NEW c,
           \/ mailbox'[l] = Tail(mailbox[l])
           \/ \E m : mailbox'[l] = Append(Tail(mailbox[l]), m),
           ~Tells(Current(l), c), Telling(c, l)
    PROVE  Telling(c, l)'
<1>0. PICK q, p, t : q = mailbox[l] /\ p = mailbox'[l] /\ t = Tail(q)
  OBVIOUS
<1>1. q \in Seq(Mail) /\ q # << >>
  BY <1>0 DEF LobbyTypeOK
<1>2. /\ t \in Seq(Mail)
      /\ Head(q) = q[1]
      /\ \A i \in DOMAIN q :
            i = 1 \/ (i - 1 \in DOMAIN t /\ t[i - 1] = q[i])
  BY <1>0, <1>1, TailAt
<1>3. \A i \in DOMAIN t : i \in DOMAIN p /\ p[i] = t[i]
  <2>1. p = t \/ \E m : p = Append(t, m)
    BY <1>0
  <2>2. ASSUME NEW m, p = Append(t, m)
        PROVE  \A i \in DOMAIN t : i \in DOMAIN p /\ p[i] = t[i]
    BY <1>2, <2>2, AppendAt
  <2> QED BY <2>1, <2>2
<1>4. PICK i \in DOMAIN q : Tells(q[i], c)
  BY <1>0 DEF Telling
<1>5. i # 1
  BY <1>0, <1>2, <1>4 DEF Current
<1>6. i - 1 \in DOMAIN p /\ p[i - 1] = q[i]
  BY <1>2, <1>3, <1>5
<1> QED BY <1>0, <1>4, <1>6 DEF Telling

-----------------------------------------------------------------------------
(***************************************************************************)
(* Nothing new is asked for: what a mailbox holds of it was there before,  *)
(* s[k] places further back.                                               *)
(***************************************************************************)
LEMMA AskedKept ==
    ASSUME LobbyTypeOK', NEW c, Asked(c), api'[c] = api[c],
           upstream'[c] = upstream[c], NEW s \in [Lobbies -> Nat],
           \A k \in Lobbies : \A i \in DOMAIN mailbox'[k] :
              Entering(c, mailbox'[k][i]) \/ Starting(c, mailbox'[k][i]) =>
                 /\ i + s[k] \in DOMAIN mailbox[k]
                 /\ mailbox'[k][i] = mailbox[k][i + s[k]]
    PROVE  Asked(c)' /\ (Settled(c) => Settled(c)')
<1>1. NoMail(c) => NoMail(c)'
  BY DEF NoMail
<1>2. \A x, type : Matches(c, x, type) => Matches(c, x, type)'
  BY DEF Matches, Blocked
<1>3. AskedUp(c)'
  BY <1>1, <1>2 DEF Asked, AskedUp
<1>4. AskedMail(c)'
  <2> SUFFICES ASSUME NEW l \in Lobbies, NEW i \in DOMAIN mailbox'[l],
                      Entering(c, mailbox'[l][i])
               PROVE  /\ upstream[c] = << >>
                      /\ Matches(c, mailbox'[l][i], "Init")
                      /\ \A k \in Lobbies : \A j \in DOMAIN mailbox'[k] :
                          Entering(c, mailbox'[k][j]) => k = l /\ j = i
    BY <1>2 DEF AskedMail
  <2>1. /\ i + s[l] \in DOMAIN mailbox[l]
        /\ mailbox'[l][i] = mailbox[l][i + s[l]]
    OBVIOUS
  <2>2. /\ upstream[c] = << >>
        /\ Matches(c, mailbox[l][i + s[l]], "Init")
        /\ \A k \in Lobbies : \A j \in DOMAIN mailbox[k] :
            Entering(c, mailbox[k][j]) => k = l /\ j = i + s[l]
    BY <2>1 DEF Asked, AskedMail
  <2>3. ASSUME NEW k \in Lobbies, NEW j \in DOMAIN mailbox'[k],
               Entering(c, mailbox'[k][j])
        PROVE  k = l /\ j = i
    <3>1. k = l /\ j + s[k] = i + s[l]
      BY <2>2, <2>3
    <3>2. i \in Nat /\ j \in Nat /\ s[l] \in Nat
      BY DEF LobbyTypeOK
    <3> QED BY <3>1, <3>2
  <2> QED BY <2>1, <2>2, <2>3
<1>5. Unstarted(c)'
  BY DEF Asked, Unstarted, NoStart, Blocked
<1> QED BY <1>1, <1>3, <1>4, <1>5 DEF Asked, Settled

(***************************************************************************)
(* A handler keeps what a client asked for, and what it handled of it is   *)
(* no longer under way.                                                    *)
(***************************************************************************)
LEMMA ActorAsked ==
    ASSUME LobbyTypeOK, LobbyTypeOK', NEW l \in Lobbies, LobbyActorStep(l),
           NEW c, Asked(c), api'[c] = api[c], upstream'[c] = upstream[c]
    PROVE  /\ Asked(c)'
           /\ Settled(c) => Settled(c)'
           /\ Entering(c, Current(l)) => Settled(c)'
<1> DEFINE s == [k \in Lobbies |-> IF k = l THEN 1 ELSE 0]
<1>1. /\ s \in [Lobbies -> Nat] /\ s[l] = 1
      /\ \A k \in Lobbies \ {l} : s[k] = 0
  OBVIOUS
<1>2. ASSUME NEW k \in Lobbies, NEW i \in DOMAIN mailbox'[k],
             Entering(c, mailbox'[k][i]) \/ Starting(c, mailbox'[k][i])
      PROVE  /\ i + s[k] \in DOMAIN mailbox[k]
             /\ mailbox'[k][i] = mailbox[k][i + s[k]]
             /\ i + s[k] = 1 => k # l
  <2>1. i \in Nat /\ i >= 1
    BY DEF LobbyTypeOK
  <2>2. CASE k = l
    <3>1. mailbox'[k][i].type \notin {"Update", "Disconnected"}
      BY <1>2 DEF Entering, Enters, Starting
    <3>2. i + 1 \in DOMAIN mailbox[l] /\ mailbox'[l][i] = mailbox[l][i + 1]
      BY <2>2, <3>1, MailLeft
    <3> QED BY <1>1, <2>1, <2>2, <3>2
  <2>3. CASE k # l
    <3>1. mailbox'[k] = mailbox[k] /\ i + s[k] = i
      BY <1>1, <2>1, <2>3, MailboxStep
    <3> QED BY <2>3, <3>1
  <2> QED BY <2>2, <2>3
<1> HIDE DEF s
<1>3. Asked(c)' /\ (Settled(c) => Settled(c)')
  BY <1>1, <1>2, AskedKept
<1>4. ASSUME Entering(c, Current(l)) PROVE Settled(c)'
  <2>1. 1 \in DOMAIN mailbox[l] /\ Current(l) = mailbox[l][1]
    BY MailboxStep DEF LobbyTypeOK, Current
  <2>2. /\ upstream[c] = << >>
        /\ \A k \in Lobbies : \A j \in DOMAIN mailbox[k] :
            Entering(c, mailbox[k][j]) => k = l /\ j = 1
    BY <1>4, <2>1 DEF Asked, AskedMail
  <2>3. NoMail(c)'
    BY <1>2, <2>2 DEF NoMail
  <2> QED BY <2>2, <2>3 DEF Settled
<1> QED BY <1>3, <1>4

(***************************************************************************)
(* A handler changes nothing of that.                                      *)
(***************************************************************************)
LEMMA ActorAllowed ==
    ASSUME Allowed, NEW l \in Lobbies, LobbyActorStep(l),
           UNCHANGED <<upstream, api>>
    PROVE  Allowed'
<1>1. UNCHANGED online
  BY DEF LobbyActorStep, HandleInit, HandleMessage, HandleStartSession,
         HandleEjectPlayer, HandleReconfigure, HandleLeaveRoom, HandleUpdate,
         HandleJoin, HandleDisconnected, HandleClose, HandleAsZombie
<1> QED BY <1>1 DEF Allowed, AllowedApi

-----------------------------------------------------------------------------
(***************************************************************************)
(* A client that a room lists is inside that room.                         *)
(***************************************************************************)
LEMMA InsideOf ==
    ASSUME NEW c, NEW l \in Lobbies, Life(c), In(c, l)
    PROVE  Inside(c, l)
BY DEF Life, Outside, Refused, Told, NoRoom, Inside

(***************************************************************************)
(* And the other way round.                                                *)
(***************************************************************************)
LEMMA InsideIn ==
    ASSUME NEW c, NEW l \in Lobbies, Inside(c, l)
    PROVE  In(c, l)
<1>1. PICK p : Seat(c, lobby[l].players, p)
  BY DEF Inside, Seated
<1>2. p \in DOMAIN lobby[l].players /\ lobby[l].players[p].actor = c
  BY <1>1 DEF Seat
<1> QED BY <1>2 DEF Inside, In, ActorsOf

(***************************************************************************)
(* A step that neither speaks to a client nor touches its room.            *)
(***************************************************************************)
LEMMA LifeKept ==
    ASSUME NEW c, Life(c), api'[c] = api[c], downstream'[c] = downstream[c],
           Settled(c) => Settled(c)',
           \A k \in Lobbies : In(c, k)' => In(c, k),
           \A k \in Lobbies : In(c, k) =>
              lobby'[k] = lobby[k] /\ (Telling(c, k) => Telling(c, k)')
    PROVE  Life(c)'
<1>1. NoRoom(c) => NoRoom(c)'
  BY DEF NoRoom
<1>2. /\ Joined(c) <=> Joined(c)'
      /\ AnswerFirst(c) <=> AnswerFirst(c)'
      /\ Returned(c) <=> Returned(c)'
      /\ Blocked(c) <=> Blocked(c)'
  BY DEF Joined, AnswerFirst, Returned, Blocked
<1>3. Outside(c) => Outside(c)'
  BY <1>1, <1>2 DEF Outside
<1>4. Refused(c) => Refused(c)'
  BY <1>1, <1>2 DEF Refused
<1>5. Told(c) => Told(c)'
  BY <1>1, <1>2 DEF Told
<1>6. ASSUME NEW l \in Lobbies, Inside(c, l) PROVE Inside(c, l)'
  <2>1. In(c, l)
    BY <1>6, InsideIn
  <2>2. lobby'[l] = lobby[l] /\ (Telling(c, l) => Telling(c, l)')
    BY <2>1
  <2>3. Fresh(c, l)'
    BY <1>2, <1>6, <2>2 DEF Inside, Fresh, LastSent, LastRead
  <2>4. Seated(c, l)'
    BY <1>2, <1>6, <2>2 DEF Inside, Seated, Seat, Hosts, MyName
  <2>5. Running(l)'
    BY <1>6, <2>2 DEF Inside, Running
  <2> QED BY <1>2, <1>6, <2>2, <2>3, <2>4, <2>5 DEF Inside
<1> QED BY <1>3, <1>4, <1>5, <1>6 DEF Life

(***************************************************************************)
(* What a client in a room may be written while it stays there.            *)
(***************************************************************************)
Hears(c, name) ==
    \/ downstream'[c] = downstream[c]
    \/ \E n : /\ downstream'[c] = Append(downstream[c], n)
              /\ Heard(n, name)
              /\ n.type # "RoomInfo"

(***************************************************************************)
(* What was true of the first message is still, when one more is written.  *)
(***************************************************************************)
LEMMA HearsMeans ==
    ASSUME NEW c, NEW name, downstream[c] \in Seq(Notes), Hears(c, name)
    PROVE  /\ downstream[c] # << >> =>
                /\ downstream'[c] # << >>
                /\ downstream'[c][1] = downstream[c][1]
           /\ \A i \in DOMAIN downstream'[c] :
                \/ /\ i \in DOMAIN downstream[c]
                   /\ downstream'[c][i] = downstream[c][i]
                \/ /\ Heard(downstream'[c][i], name)
                   /\ downstream'[c][i].type # "RoomInfo"
<1>0. PICK q, p : q = downstream[c] /\ p = downstream'[c]
  OBVIOUS
<1>1. CASE p = q
  BY <1>0, <1>1
<1>2. ASSUME NEW n, p = Append(q, n), Heard(n, name), n.type # "RoomInfo"
      PROVE  /\ q # << >> => p # << >> /\ p[1] = q[1]
             /\ \A i \in DOMAIN p :
                  \/ i \in DOMAIN q /\ p[i] = q[i]
                  \/ Heard(p[i], name) /\ p[i].type # "RoomInfo"
  <2>1. /\ p # << >>
        /\ \A i \in DOMAIN q : i \in DOMAIN p /\ p[i] = q[i]
        /\ \A i \in DOMAIN p : \/ i \in DOMAIN q /\ p[i] = q[i]
                               \/ p[i] = n
    BY <1>0, <1>2, AppendAt
  <2>2. q # << >> => 1 \in DOMAIN q
    BY <1>0
  <2> QED BY <1>2, <2>1, <2>2
<1> QED BY <1>0, <1>1, <1>2 DEF Hears

(***************************************************************************)
(* A client that stays in the room that a handler is about.                *)
(***************************************************************************)
LEMMA LifeInside ==
    ASSUME NEW c, NEW l \in Lobbies, Inside(c, l), api'[c] = api[c],
           downstream[c] \in Seq(Notes), Settled(c)', Running(l)',
           lobby'[l].name = lobby[l].name, Seated(c, l)', OthersKept(l),
           Hears(c, lobby[l].name), Fresh(c, l)'
    PROVE  Life(c)'
<1>1. /\ Joined(c) /\ AnswerFirst(c)
      /\ \A i \in DOMAIN downstream[c] :
            Heard(downstream[c][i], lobby[l].name)
      /\ Returned(c) => api[c].mMyRoom.name = lobby[l].name
      /\ \A k \in Lobbies : In(c, k) => k = l
  BY DEF Inside
<1>2. Joined(c)' /\ (Returned(c)' <=> Returned(c))
  BY <1>1, HearsMeans DEF Joined, Returned, Blocked
<1>3. AnswerFirst(c)'
  BY <1>1, <1>2, HearsMeans DEF AnswerFirst
<1>4. \A i \in DOMAIN downstream'[c] :
         Heard(downstream'[c][i], lobby[l].name)
  BY <1>1, HearsMeans
<1>5. \A k \in Lobbies : In(c, k)' => k = l
  BY <1>1 DEF OthersKept, In, Running
<1>6. Inside(c, l)'
  BY <1>1, <1>2, <1>3, <1>4, <1>5 DEF Inside
<1> QED BY <1>6 DEF Life

(***************************************************************************)
(* Three ways to be up to date: the client is sent the room of now, it is  *)
(* about to be, or nothing of the room changed.                            *)
(***************************************************************************)
LEMMA SentFresh ==
    ASSUME NEW c, NEW l, downstream[c] \in Seq(Notes), NEW n, Carries(n),
           downstream'[c] = Append(downstream[c], n),
           n.room = MakeRoomInfo(lobby'[l])
    PROVE  Fresh(c, l)'
<1>0. PICK q, p : q = downstream[c] /\ p = downstream'[c]
  OBVIOUS
<1>1. /\ Len(q) \in Nat /\ DOMAIN p = 1..(Len(q) + 1)
      /\ p[Len(q) + 1] = n
  BY <1>0, AppendAt
<1>2. Len(q) + 1 \in DOMAIN p /\ \A j \in DOMAIN p : j <= Len(q) + 1
  BY <1>1
<1>3. \E i \in DOMAIN p : /\ Carries(p[i])
                          /\ p[i].room = MakeRoomInfo(lobby'[l])
                          /\ \A j \in DOMAIN p : Carries(p[j]) => j <= i
  BY <1>1, <1>2
<1> QED BY <1>0, <1>3 DEF Fresh, LastSent

(***************************************************************************)
(* An Update that is made up now tells the client of the room as it will   *)
(* be when that is handled.                                                *)
(***************************************************************************)
LEMMA TellFresh ==
    ASSUME LobbyTypeOK, NEW c, NEW l \in Lobbies, mailbox[l] # << >>, NEW m,
           mailbox'[l] = Append(Tail(mailbox[l]), m), Tells(m, c)
    PROVE  Fresh(c, l)'
<1>0. PICK q, t, p : q = mailbox[l] /\ t = Tail(q) /\ p = mailbox'[l]
  OBVIOUS
<1>1. t \in Seq(Mail)
  BY <1>0, TailAt DEF LobbyTypeOK
<1>2. Len(t) + 1 \in DOMAIN p /\ p[Len(t) + 1] = m
  <2>1. /\ Len(t) \in Nat /\ DOMAIN p = 1..(Len(t) + 1)
        /\ p[Len(t) + 1] = m
    BY <1>0, <1>1, AppendAt
  <2> QED BY <2>1
<1> QED BY <1>0, <1>2 DEF Fresh, Telling

(***************************************************************************)
(* Whoever was up to date still is, if the room stays as it is and nothing *)
(* that comes says anything of it.                                         *)
(***************************************************************************)
LEMMA SameFresh ==
    ASSUME NEW c, NEW l, Fresh(c, l), api'[c] = api[c],
           downstream[c] \in Seq(Notes), lobby'[l] = lobby[l],
           Telling(c, l) => Telling(c, l)',
           \/ downstream'[c] = downstream[c]
           \/ \E n : /\ downstream'[c] = Append(downstream[c], n)
                     /\ ~Carries(n)
    PROVE  Fresh(c, l)'
<1>0. PICK q, p, info : /\ q = downstream[c] /\ p = downstream'[c]
                        /\ info = MakeRoomInfo(lobby[l])
  OBVIOUS
<1>1. /\ \A i \in DOMAIN q : i \in DOMAIN p /\ p[i] = q[i]
      /\ \A i \in DOMAIN p : \/ i \in DOMAIN q /\ p[i] = q[i]
                             \/ ~Carries(p[i])
  <2>1. p = q \/ \E n : p = Append(q, n) /\ ~Carries(n)
    BY <1>0
  <2>2. CASE p = q
    BY <2>2
  <2>3. ASSUME NEW n, p = Append(q, n), ~Carries(n)
        PROVE  /\ \A i \in DOMAIN q : i \in DOMAIN p /\ p[i] = q[i]
               /\ \A i \in DOMAIN p : \/ i \in DOMAIN q /\ p[i] = q[i]
                                      \/ ~Carries(p[i])
    <3>1. /\ \A i \in DOMAIN q : i \in DOMAIN p /\ p[i] = q[i]
          /\ \A i \in DOMAIN p : \/ i \in DOMAIN q /\ p[i] = q[i]
                                 \/ p[i] = n
      BY <1>0, <2>3, AppendAt
    <3> QED BY <2>3, <3>1
  <2> QED BY <2>1, <2>2, <2>3
<1>2. CASE Telling(c, l)
  BY <1>2 DEF Fresh
<1>3. CASE LastSent(c, info)
  <2>1. PICK i \in DOMAIN q :
          /\ Carries(q[i])
          /\ q[i].room = info
          /\ \A j \in DOMAIN q : Carries(q[j]) => j <= i
    BY <1>0, <1>3 DEF LastSent
  <2>2. /\ i \in DOMAIN p /\ Carries(p[i]) /\ p[i].room = info
        /\ \A j \in DOMAIN p : Carries(p[j]) => j <= i
    BY <1>1, <2>1
  <2> QED BY <1>0, <2>2 DEF Fresh, LastSent
<1>4. CASE LastRead(c, info)
  BY <1>0, <1>1, <1>4 DEF Fresh, LastRead, Returned
<1> QED BY <1>0, <1>2, <1>3, <1>4 DEF Fresh

(***************************************************************************)
(* A message to the players at some positions leaves the others alone.     *)
(***************************************************************************)
LEMMA Spared ==
    ASSUME NEW c \in Clients, downstream[c] \in Seq(Notes), NEW players,
           NEW to, NEW note, WriteTo(players, to, note),
           \A i \in to : players[i].actor # c
    PROVE  downstream'[c] = downstream[c]
<1>1. {i \in to : players[i].actor = c} = {}
  OBVIOUS
<1>2. Copies(players, to, c) = 0
  BY <1>1, FS_EmptySet DEF Copies
<1>3. PICK q : q = downstream[c] /\ q \in Seq(Notes)
  OBVIOUS
<1>4. [k \in 1..0 |-> note] = << >> /\ q \o << >> = q
  BY <1>3
<1>5. downstream'[c] = q \/ downstream'[c] = q \o [k \in 1..0 |-> note]
  BY <1>2, <1>3 DEF WriteTo
<1> QED BY <1>3, <1>4, <1>5

(***************************************************************************)
(* A player that is listed once gets it once.                              *)
(***************************************************************************)
LEMMA Reached ==
    ASSUME NEW c \in Clients, downstream[c] \in Seq(Notes), online[c],
           NEW players, NEW to, NEW note, WriteTo(players, to, note),
           NEW p \in to, players[p].actor = c,
           \A i \in to : players[i].actor = c => i = p
    PROVE  downstream'[c] = Append(downstream[c], note)
<1>1. {i \in to : players[i].actor = c} = {p}
  OBVIOUS
<1>2. Copies(players, to, c) = 1
  BY <1>1, FS_Singleton DEF Copies
<1>3. PICK q : q = downstream[c] /\ q \in Seq(Notes)
  OBVIOUS
<1>4. [k \in 1..1 |-> note] = <<note>>
  OBVIOUS
<1>5. q \o <<note>> = Append(q, note)
  BY <1>3
<1>6. downstream'[c] = q \o [k \in 1..1 |-> note]
  BY <1>2, <1>3 DEF WriteTo
<1> QED BY <1>3, <1>4, <1>5, <1>6

(***************************************************************************)
(* A reply goes to one client.                                             *)
(***************************************************************************)
LEMMA Replied ==
    ASSUME LobbyTypeOK, NEW c \in Clients, NEW d \in Clients, NEW note,
           Reply(d, note)
    PROVE  /\ c # d => downstream'[c] = downstream[c]
           /\ c = d /\ online[c] =>
                downstream'[c] = Append(downstream[c], note)
BY DEF LobbyTypeOK, Reply

-----------------------------------------------------------------------------
(***************************************************************************)
(* A client that asked for something is outside; an answer brings it into  *)
(* a room, or does not.                                                    *)
(***************************************************************************)
LEMMA WasOutside ==
    ASSUME NEW c, Life(c), ~Settled(c)
    PROVE  Outside(c)
BY DEF Life, Refused, Told, Inside

(***************************************************************************)
(* The client is let into the room l: the RoomInfo is the one message it   *)
(* has to read.                                                            *)
(***************************************************************************)
LEMMA Arrives ==
    ASSUME NEW c, NEW l \in Lobbies, Outside(c), Blocked(c),
           api'[c] = api[c], NEW info,
           downstream'[c] = Append(downstream[c],
                                   [type |-> "RoomInfo", room |-> info]),
           info = MakeRoomInfo(lobby'[l]), Settled(c)', Running(l)',
           OthersKept(l), Seated(c, l)'
    PROVE  Life(c)'
<1>0. PICK n : n = [type |-> "RoomInfo", room |-> info]
  OBVIOUS
<1>1. /\ downstream[c] = << >> /\ downstream'[c] = <<n>>
      /\ n.type = "RoomInfo" /\ n.room = info /\ Carries(n)
  <2>1. downstream[c] = << >>
    BY DEF Outside
  <2> QED BY <1>0, <2>1 DEF Carries
<1>2. /\ downstream'[c] # << >> /\ downstream'[c][1] = n
      /\ \A i \in DOMAIN downstream'[c] : i = 1
  BY <1>1
<1>3. ~Returned(c)' /\ Blocked(c)'
  BY DEF Returned, Blocked
<1>4. Joined(c)' /\ AnswerFirst(c)'
  BY <1>1, <1>2, <1>3 DEF Joined, AnswerFirst
<1>5. \A k \in Lobbies : In(c, k)' => k = l
  BY DEF Outside, NoRoom, OthersKept, In, Running
<1>6. \A i \in DOMAIN downstream'[c] :
         Heard(downstream'[c][i], lobby'[l].name)
  BY <1>1, <1>2 DEF Heard, MakeRoomInfo
<1>7. Fresh(c, l)'
  <2>1. LastSent(c, MakeRoomInfo(lobby[l]))'
    <3>1. 1 \in DOMAIN downstream'[c]
      BY <1>1
    <3> QED BY <1>1, <1>2, <3>1 DEF LastSent
  <2> QED BY <2>1 DEF Fresh
<1>8. Inside(c, l)'
  BY <1>3, <1>4, <1>5, <1>6, <1>7 DEF Inside
<1> QED BY <1>8 DEF Life

(***************************************************************************)
(* The client is refused: any other message is the one it has to read.     *)
(***************************************************************************)
LEMMA TurnedDown ==
    ASSUME NEW c, Outside(c), Blocked(c), api'[c] = api[c], NEW n,
           downstream'[c] = Append(downstream[c], n), n.type # "RoomInfo",
           Settled(c)', NoRoom(c)'
    PROVE  Life(c)'
<1>1. downstream'[c] = <<n>>
  <2>1. downstream[c] = << >>
    BY DEF Outside
  <2> QED BY <2>1
<1>2. Blocked(c)'
  BY DEF Blocked
<1> QED BY <1>1, <1>2 DEF Life, Refused

(***************************************************************************)
(* A client that is put out of its room.                                   *)
(***************************************************************************)
LEMMA PutOut ==
    ASSUME NEW c, NEW l \in Lobbies, Inside(c, l), api'[c] = api[c],
           downstream[c] \in Seq(Notes), NEW n,
           downstream'[c] = Append(downstream[c], n), n.type = "Ejected",
           Settled(c)', NoRoom(c)'
    PROVE  Life(c)'
<1>0. PICK q, p : q = downstream[c] /\ p = downstream'[c]
  OBVIOUS
<1>1. /\ q \in Seq(Notes) /\ Len(q) \in Nat /\ DOMAIN q = 1..Len(q)
      /\ p # << >> /\ Len(p) = Len(q) + 1 /\ DOMAIN p = 1..(Len(q) + 1)
      /\ \A i \in DOMAIN q : i \in DOMAIN p /\ p[i] = q[i]
      /\ p[Len(q) + 1] = n
      /\ \A i \in DOMAIN p : \/ i \in DOMAIN q /\ p[i] = q[i]
                             \/ i = Len(q) + 1 /\ p[i] = n
  <2>1. q \in Seq(Notes) /\ p = Append(q, n)
    BY <1>0
  <2>2. DOMAIN q = 1..Len(q)
    BY <2>1
  <2> QED BY <2>1, <2>2, AppendAt
<1>2. /\ Joined(c) /\ AnswerFirst(c)
      /\ \A i \in DOMAIN q : q[i].type # "Ejected"
  BY <1>0 DEF Inside, Heard
<1>3. q # << >> => p[1] = q[1]
  BY <1>1
<1>4. Joined(c)' /\ AnswerFirst(c)'
  BY <1>0, <1>1, <1>2, <1>3 DEF Joined, AnswerFirst, Returned, Blocked
<1>5. \A i \in DOMAIN p : p[i].type = "Ejected" <=> i = Len(p)
  <2> SUFFICES ASSUME NEW i \in DOMAIN p
               PROVE  p[i].type = "Ejected" <=> i = Len(p)
    OBVIOUS
  <2>1. CASE i \in DOMAIN q /\ p[i] = q[i]
    <3>1. i # Len(q) + 1
      BY <1>1, <2>1
    <3> QED BY <1>1, <1>2, <2>1, <3>1
  <2>2. CASE i = Len(q) + 1 /\ p[i] = n
    BY <1>1, <2>2
  <2> QED BY <1>1, <2>1, <2>2
<1>6. Told(c)'
  <2>1. /\ Len(p) \in DOMAIN p
        /\ \A i \in DOMAIN p : ~(i > Len(p))
    BY <1>1
  <2> QED BY <1>0, <1>1, <1>4, <1>5, <2>1 DEF Told
<1> QED BY <1>6 DEF Life

-----------------------------------------------------------------------------
(***************************************************************************)
(* What the proofs about the handlers know of a client that is not over.   *)
(***************************************************************************)
LEMMA HandlerFacts ==
    ASSUME IInv, IInv', OrderInv, ViewInv, NEW l \in Lobbies,
           LobbyActorStep(l), UNCHANGED <<upstream, api>>,
           NEW c \in Clients, ~Over(c)
    PROVE  /\ LobbyTypeOK /\ ServerSound /\ OthersKept(l)
           /\ downstream[c] \in Seq(Notes) /\ online[c]
           /\ Life(c) /\ Asked(c) /\ AllowedApi(c) /\ api'[c] = api[c]
           /\ Settled(c) => Settled(c)'
           /\ Entering(c, Current(l)) => Settled(c)'
           /\ mailbox[l] # << >>
           /\ \A k \in Lobbies \ {l} : mailbox'[k] = mailbox[k]
           /\ Current(l) \in Mail /\ Current(l).sender \in Clients
           /\ Starting(c, Current(l)) => ~Blocked(c)
           /\ Departs(Current(l)) => Current(l).sender # c
<1>1. LobbyTypeOK /\ ServerSound /\ LobbyTypeOK' /\ OthersKept(l)
  BY LobbyActorTransition DEF IInv, TypeOK, ServerSound
<1>2. /\ mailbox[l] # << >>
      /\ \A k \in Lobbies \ {l} : mailbox'[k] = mailbox[k]
  BY <1>1, MailboxStep
<1>3. 1 \in DOMAIN mailbox[l] /\ Current(l) = mailbox[l][1]
  BY <1>1, <1>2 DEF LobbyTypeOK, Current
<1>4. Current(l) \in Mail /\ Current(l).sender \in Clients
  BY <1>1, <1>2, CurrentType, MailFields
<1>5. /\ Starting(c, Current(l)) => ~Blocked(c)
      /\ Departs(Current(l)) => Current(l).sender # c
  BY <1>3 DEF ViewInv, ClientView, Asked, Unstarted, NoStart, OrderInv,
              MailOrder, DepartsLate
<1>6. Life(c) /\ Asked(c) /\ AllowedApi(c) /\ api'[c] = api[c]
  BY DEF ViewInv, ClientView, Allowed
<1>7. downstream[c] \in Seq(Notes) /\ online[c]
  BY <1>1, <1>6 DEF LobbyTypeOK, AllowedApi, Over
<1>8. /\ Settled(c) => Settled(c)'
      /\ Entering(c, Current(l)) => Settled(c)'
  BY <1>1, <1>6, ActorAsked
<1> QED BY <1>1, <1>2, <1>4, <1>5, <1>6, <1>7, <1>8

(***************************************************************************)
(* A client that is not in the room and is not answered.                   *)
(***************************************************************************)
LEMMA NotInRoom ==
    ASSUME IInv, IInv', OrderInv, ViewInv, NEW l \in Lobbies,
           LobbyActorStep(l), UNCHANGED <<upstream, api>>,
           NEW c \in Clients, ~Over(c),
           ~In(c, l), ~In(c, l)', downstream'[c] = downstream[c]
    PROVE  Life(c)'
<1>1. /\ Life(c) /\ api'[c] = api[c] /\ (Settled(c) => Settled(c)')
      /\ OthersKept(l)
      /\ \A k \in Lobbies \ {l} : mailbox'[k] = mailbox[k]
  BY HandlerFacts
<1>2. \A k \in Lobbies : In(c, k)' => In(c, k)
  BY <1>1 DEF OthersKept, In, Running
<1>3. \A k \in Lobbies : In(c, k) =>
         lobby'[k] = lobby[k] /\ (Telling(c, k) => Telling(c, k)')
  BY <1>1 DEF OthersKept, Telling
<1> QED BY <1>1, <1>2, <1>3, LifeKept

(***************************************************************************)
(* A handler that changes no room and makes no Update, when a client in    *)
(* the room may be sent something that says nothing of the room.           *)
(***************************************************************************)
LEMMA QuietLife ==
    ASSUME IInv, IInv', OrderInv, ViewInv, NEW l \in Lobbies,
           LobbyActorStep(l), UNCHANGED <<upstream, api>>,
           NEW c \in Clients, ~Over(c),
           lobby' = lobby, ~Tells(Current(l), c),
           Running(l) => \/ mailbox'[l] = Tail(mailbox[l])
                         \/ \E m : mailbox'[l] = Append(Tail(mailbox[l]), m),
           \/ downstream'[c] = downstream[c]
           \/ /\ \E k \in Lobbies : In(c, k)
              /\ \E n : /\ downstream'[c] = Append(downstream[c], n)
                        /\ ~Carries(n) /\ n.type # "Ejected"
    PROVE  Life(c)'
<1>1. /\ Life(c) /\ api'[c] = api[c] /\ (Settled(c) => Settled(c)')
      /\ LobbyTypeOK /\ downstream[c] \in Seq(Notes)
      /\ mailbox[l] # << >>
      /\ \A k \in Lobbies \ {l} : mailbox'[k] = mailbox[k]
  BY HandlerFacts
<1>2. \A k : In(c, k)' <=> In(c, k)
  BY DEF In, Running
<1>3. ASSUME NEW k \in Lobbies, In(c, k)
      PROVE  Telling(c, k) => Telling(c, k)'
  <2>1. CASE k = l
    BY <1>1, <1>3, <2>1, TellingLeft DEF In
  <2>2. CASE k # l
    BY <1>1, <2>2 DEF Telling
  <2> QED BY <2>1, <2>2
<1>4. CASE downstream'[c] = downstream[c]
  BY <1>1, <1>2, <1>3, <1>4, LifeKept
<1>5. ASSUME NEW k \in Lobbies, In(c, k), NEW n,
             downstream'[c] = Append(downstream[c], n),
             ~Carries(n), n.type # "Ejected"
      PROVE  Life(c)'
  <2>1. Inside(c, k)
    BY <1>1, <1>5, InsideOf
  <2>2. Settled(c)' /\ Running(k)' /\ Seated(c, k)'
    BY <1>1, <2>1 DEF Inside, Running, Seated, Seat, MyName, Hosts, Returned
  <2>3. Fresh(c, k)'
    BY <1>1, <1>3, <1>5, <2>1, SameFresh DEF Inside
  <2>4. Hears(c, lobby[k].name) /\ OthersKept(k)
    BY <1>5 DEF Hears, Heard, Carries, OthersKept
  <2> QED BY <1>1, <2>1, <2>2, <2>3, <2>4, LifeInside
<1> QED BY <1>4, <1>5

(***************************************************************************)
(* What the players at some positions of a room are written.               *)
(***************************************************************************)
LEMMA RoomWritten ==
    ASSUME NEW c \in Clients, NEW l \in Lobbies, Life(c), Running(l),
           downstream[c] \in Seq(Notes), online[c],
           NEW to \in SUBSET (DOMAIN lobby[l].players), NEW note,
           WriteTo(lobby[l].players, to, note)
    PROVE  \/ downstream'[c] = downstream[c]
              /\ \A i \in to : lobby[l].players[i].actor # c
           \/ /\ In(c, l)
              /\ downstream'[c] = Append(downstream[c], note)
<1>1. CASE \A i \in to : lobby[l].players[i].actor # c
  BY <1>1, Spared
<1>2. ASSUME NEW p \in to, lobby[l].players[p].actor = c
      PROVE  In(c, l) /\ downstream'[c] = Append(downstream[c], note)
  <2>1. In(c, l)
    BY <1>2 DEF In, ActorsOf
  <2>2. PICK s : Seat(c, lobby[l].players, s)
    BY <2>1, InsideOf DEF Inside, Seated
  <2>3. \A i \in to : lobby[l].players[i].actor = c => i = p
    BY <1>2, <2>2 DEF Seat
  <2>4. downstream'[c] = Append(downstream[c], note)
    BY <1>2, <2>3, Reached
  <2> QED BY <2>1, <2>4
<1> QED BY <1>1, <1>2

-----------------------------------------------------------------------------
(***************************************************************************)
(* Handlers that leave the room as it is.                                  *)
(***************************************************************************)
LEMMA MessageLife ==
    ASSUME IInv, IInv', OrderInv, ViewInv, NEW l \in Lobbies,
           HandleMessage(l), UNCHANGED <<upstream, api>>,
           NEW c \in Clients, ~Over(c)
    PROVE  Life(c)'
<1>0. PICK n : n = [type |-> "Message"]
  OBVIOUS
<1>1. LobbyActorStep(l)
  BY DEF LobbyActorStep
<1>2. /\ Life(c) /\ downstream[c] \in Seq(Notes) /\ online[c]
      /\ LobbyTypeOK
  BY <1>1, HandlerFacts
<1>3. PICK to \in SUBSET (DOMAIN lobby[l].players) :
          WriteTo(lobby[l].players, to, n)
  BY <1>0 DEF HandleMessage
<1>4. \/ downstream'[c] = downstream[c]
      \/ In(c, l) /\ downstream'[c] = Append(downstream[c], n)
  BY <1>2, <1>3, RoomWritten DEF HandleMessage
<1>5. ~Carries(n) /\ n.type # "Ejected" /\ ~Tells(Current(l), c)
  BY <1>0 DEF Carries, Tells, HandleMessage, Gets
<1>6. lobby' = lobby /\ mailbox'[l] = Tail(mailbox[l])
  BY <1>2 DEF HandleMessage, Handled, LobbyTypeOK
<1> QED BY <1>1, <1>4, <1>5, <1>6, QuietLife

(***************************************************************************)
(* A client that is in no room may still be answered a StartSession of     *)
(* before.                                                                 *)
(***************************************************************************)
LEMMA AnswerOutside ==
    ASSUME NEW c, Life(c), NoRoom(c), ~Blocked(c), UNCHANGED lobby,
           api'[c] = api[c], downstream[c] \in Seq(Notes), NEW n,
           downstream'[c] = Append(downstream[c], n), n.type = "SUCK",
           Settled(c) => Settled(c)'
    PROVE  Life(c)'
<1>0. PICK q, p : q = downstream[c] /\ p = downstream'[c]
  OBVIOUS
<1>1. /\ DOMAIN q = 1..Len(q) /\ Len(q) \in Nat /\ p # << >>
      /\ \A i \in DOMAIN q : i \in DOMAIN p /\ p[i] = q[i]
      /\ \A i \in DOMAIN p : \/ i \in DOMAIN q /\ p[i] = q[i]
                             \/ i = Len(q) + 1 /\ p[i] = n
  <2>1. q \in Seq(Notes) /\ p = Append(q, n)
    BY <1>0
  <2> QED BY <2>1, AppendAt
<1>2. NoRoom(c)' /\ ~Blocked(c)'
  BY DEF NoRoom, In, Running, Blocked
<1>3. CASE Outside(c)
  <2>1. \A i \in DOMAIN p : p[i].type = "SUCK"
    BY <1>0, <1>1, <1>3 DEF Outside
  <2>2. Outside(c)'
    BY <1>0, <1>2, <1>3, <2>1 DEF Outside
  <2> QED BY <2>2 DEF Life
<1>4. CASE Told(c)
  <2>1. PICK e \in DOMAIN q : \A i \in DOMAIN q :
          /\ q[i].type = "Ejected" <=> i = e
          /\ i > e => q[i].type = "SUCK"
    BY <1>0, <1>4 DEF Told
  <2>2. e \in DOMAIN p /\ \A i \in DOMAIN p :
          /\ p[i].type = "Ejected" <=> i = e
          /\ i > e => p[i].type = "SUCK"
    <3>1. e # Len(q) + 1
      BY <1>1, <2>1
    <3> QED BY <1>1, <2>1, <3>1
  <2>3. Joined(c)'
    BY <1>2, <1>4 DEF Told, Joined, Returned, Blocked
  <2>4. AnswerFirst(c)'
    BY <1>0, <1>1, <1>4 DEF Told, AnswerFirst, Returned
  <2>5. Told(c)'
    BY <1>0, <1>2, <1>4, <2>2, <2>3, <2>4 DEF Told
  <2> QED BY <2>5 DEF Life
<1>5. ~Refused(c)
  BY DEF Refused
<1>6. \A l \in Lobbies : ~Inside(c, l)
  BY InsideIn DEF NoRoom
<1> QED BY <1>3, <1>4, <1>5, <1>6 DEF Life

(***************************************************************************)
(* StartSession: what is written about the session says nothing of the     *)
(* room, and nobody takes it for an answer to something else.              *)
(***************************************************************************)
LEMMA StartSessionLife ==
    ASSUME IInv, IInv', OrderInv, ViewInv, NEW l \in Lobbies,
           HandleStartSession(l), UNCHANGED <<upstream, api>>,
           NEW c \in Clients, ~Over(c)
    PROVE  Life(c)'
<1>0. PICK n, s : n = [type |-> "SessionStarted"] /\ s = [type |-> "SUCK"]
  OBVIOUS
<1>1. LobbyActorStep(l)
  BY DEF LobbyActorStep
<1>2. /\ Life(c) /\ downstream[c] \in Seq(Notes) /\ online[c]
      /\ LobbyTypeOK /\ Current(l).sender \in Clients
      /\ api'[c] = api[c] /\ (Settled(c) => Settled(c)')
      /\ Starting(c, Current(l)) => ~Blocked(c)
  BY <1>1, HandlerFacts
<1>3. ~Tells(Current(l), c) /\ Running(l) /\ Current(l).type = "StartSession"
  BY DEF Tells, HandleStartSession, Gets
<1>4. lobby' = lobby /\ mailbox'[l] = Tail(mailbox[l])
  BY <1>2 DEF HandleStartSession, Handled, LobbyTypeOK
<1>5. /\ ~Carries(n) /\ n.type # "Ejected"
      /\ ~Carries(s) /\ s.type # "Ejected"
  BY <1>0 DEF Carries
<1>6. CASE WriteTo(lobby[l].players, DOMAIN lobby[l].players, n)
  <2>1. \/ downstream'[c] = downstream[c]
        \/ In(c, l) /\ downstream'[c] = Append(downstream[c], n)
    BY <1>2, <1>3, <1>6, RoomWritten
  <2> QED BY <1>1, <1>3, <1>4, <1>5, <2>1, QuietLife
<1>7. CASE Reply(Current(l).sender, s)
  <2>1. CASE Current(l).sender = c
    <3>1. downstream'[c] = Append(downstream[c], s)
      BY <1>2, <1>7, <2>1, Replied
    <3>2. CASE \E k \in Lobbies : In(c, k)
      BY <1>1, <1>3, <1>4, <1>5, <3>1, <3>2, QuietLife
    <3>3. CASE NoRoom(c)
      <4>1. ~Blocked(c)
        BY <1>2, <1>3, <2>1 DEF Starting
      <4> QED BY <1>0, <1>2, <1>4, <3>1, <3>3, <4>1, AnswerOutside
    <3> QED BY <3>2, <3>3 DEF NoRoom
  <2>2. CASE Current(l).sender # c
    <3>1. downstream'[c] = downstream[c]
      BY <1>2, <1>7, <2>2, Replied
    <3> QED BY <1>1, <1>3, <1>4, <3>1, QuietLife
  <2> QED BY <2>1, <2>2
<1> QED BY <1>0, <1>6, <1>7 DEF HandleStartSession

(***************************************************************************)
(* LeaveRoom becomes a Disconnected behind the other messages; that        *)
(* changes no room.                                                        *)
(***************************************************************************)
LEMMA LeaveRoomLife ==
    ASSUME IInv, IInv', OrderInv, ViewInv, NEW l \in Lobbies,
           HandleLeaveRoom(l), UNCHANGED <<upstream, api>>,
           NEW c \in Clients, ~Over(c)
    PROVE  Life(c)'
<1>1. LobbyActorStep(l)
  BY DEF LobbyActorStep
<1>2. LobbyTypeOK
  BY <1>1, HandlerFacts
<1>3. /\ lobby' = lobby /\ downstream' = downstream
      /\ \E m : mailbox'[l] = Append(Tail(mailbox[l]), m)
      /\ ~Tells(Current(l), c)
  BY <1>2 DEF HandleLeaveRoom, HandledAndForward, LobbyTypeOK, Gets, Tells
<1> QED BY <1>1, <1>3, QuietLife

(***************************************************************************)
(* A zombie has no room and writes to nobody.                              *)
(***************************************************************************)
LEMMA ZombieLife ==
    ASSUME IInv, IInv', OrderInv, ViewInv, NEW l \in Lobbies,
           HandleAsZombie(l), UNCHANGED <<upstream, api>>,
           NEW c \in Clients, ~Over(c)
    PROVE  Life(c)'
<1>1. LobbyActorStep(l)
  BY DEF LobbyActorStep
<1>2. LobbyTypeOK
  BY <1>1, HandlerFacts
<1>3. /\ lobby[l].phase # "running" /\ lobby'[l].phase # "running"
      /\ downstream' = downstream
  BY <1>2 DEF HandleAsZombie, Shutdown, LobbyTypeOK, Stopped, Unborn
<1> QED BY <1>1, <1>3, NotInRoom DEF In, Running

(***************************************************************************)
(* An Update of the room as it is, to those it is for.                     *)
(***************************************************************************)
LEMMA UpdateLife ==
    ASSUME IInv, IInv', OrderInv, ViewInv, NEW l \in Lobbies,
           HandleUpdate(l), UNCHANGED <<upstream, api>>,
           NEW c \in Clients, ~Over(c)
    PROVE  Life(c)'
<1>0. PICK m, n, to :
        /\ m = Current(l)
        /\ n = [type |-> "Update", room |-> MakeRoomInfo(lobby[l]),
                name |-> m.name, flags |-> m.flags]
        /\ to = {i \in DOMAIN lobby[l].players :
                   m.toSelf \/ lobby[l].players[i].actor # m.sender}
  OBVIOUS
<1>1. LobbyActorStep(l)
  BY DEF LobbyActorStep
<1>2. /\ Life(c) /\ downstream[c] \in Seq(Notes) /\ online[c]
      /\ LobbyTypeOK /\ OthersKept(l) /\ api'[c] = api[c]
      /\ Settled(c) => Settled(c)'
  BY <1>1, HandlerFacts
<1>3. /\ Running(l) /\ m.type = "Update"
      /\ WriteTo(lobby[l].players, to, n)
      /\ lobby' = lobby /\ mailbox'[l] = Tail(mailbox[l])
      /\ to \in SUBSET (DOMAIN lobby[l].players)
  BY <1>0, <1>2 DEF HandleUpdate, Handled, LobbyTypeOK, Gets
<1>4. CASE /\ downstream'[c] = downstream[c]
           /\ \A i \in to : lobby[l].players[i].actor # c
  <2>1. CASE In(c, l)
    <3>1. PICK i \in DOMAIN lobby[l].players : lobby[l].players[i].actor = c
      BY <2>1 DEF In, ActorsOf
    <3>2. i \notin to
      BY <1>4, <3>1
    <3>3. ~Tells(Current(l), c)
      BY <1>0, <3>1, <3>2 DEF Tells
    <3> QED BY <1>1, <1>3, <1>4, <3>3, QuietLife
  <2>2. CASE ~In(c, l)
    <3>1. ~In(c, l)'
      BY <1>3, <2>2 DEF In, Running
    <3> QED BY <1>1, <1>4, <2>2, <3>1, NotInRoom
  <2> QED BY <2>1, <2>2
<1>5. CASE In(c, l) /\ downstream'[c] = Append(downstream[c], n)
  <2>1. Inside(c, l)
    BY <1>2, <1>5, InsideOf
  <2>2. Settled(c)' /\ Running(l)' /\ Seated(c, l)'
    BY <1>2, <1>3, <2>1
       DEF Inside, Running, Seated, Seat, MyName, Hosts, Returned
  <2>3. n.type = "Update" /\ n.room = MakeRoomInfo(lobby[l])
    BY <1>0
  <2>4. n.room.name = lobby[l].name
    BY <2>3 DEF MakeRoomInfo
  <2>5. Fresh(c, l)'
    BY <1>2, <1>3, <1>5, <2>3, SentFresh DEF Carries
  <2>6. Hears(c, lobby[l].name)
    BY <1>5, <2>3, <2>4 DEF Hears, Heard
  <2> QED BY <1>2, <1>3, <2>1, <2>2, <2>5, <2>6, LifeInside
<1> QED BY <1>2, <1>3, <1>4, <1>5, RoomWritten

-----------------------------------------------------------------------------
(***************************************************************************)
(* The answer to createRoom: the client is the host of a new room, or is   *)
(* refused.                                                                *)
(***************************************************************************)
LEMMA InitLife ==
    ASSUME IInv, IInv', OrderInv, ViewInv, NEW l \in Lobbies,
           HandleInit(l), UNCHANGED <<upstream, api>>,
           NEW c \in Clients, ~Over(c)
    PROVE  Life(c)'
<1>0. PICK m, p, room, info, n, s :
        /\ m = Current(l)
        /\ p = [actor |-> m.sender, name |-> m.name]
        /\ room = [phase |-> "running", name |-> m.room,
                   limits |-> m.limits, players |-> <<p>>]
        /\ info = MakeRoomInfo(room)
        /\ n = [type |-> "RoomInfo", room |-> info]
        /\ s = [type |-> RegisterStatus(info)]
  OBVIOUS
<1>1. LobbyActorStep(l)
  BY DEF LobbyActorStep
<1>2. /\ Life(c) /\ Asked(c) /\ downstream[c] \in Seq(Notes) /\ online[c]
      /\ LobbyTypeOK /\ OthersKept(l) /\ api'[c] = api[c]
      /\ Settled(c) => Settled(c)'
      /\ Entering(c, Current(l)) => Settled(c)'
      /\ m.sender \in Clients
  BY <1>0, <1>1, HandlerFacts
<1>3. /\ ~Running(l) /\ m.type = "Init" /\ mailbox[l] # << >>
      /\ \/ /\ lobby' = [lobby EXCEPT ![l] = room]
            /\ Reply(m.sender, n)
         \/ /\ lobby' = [lobby EXCEPT ![l] = [room EXCEPT !.phase = "zombie"]]
            /\ Reply(m.sender, s)
            /\ RegisterStatus(info) # "SUCC"
  BY <1>0 DEF HandleInit, Gets, Running
<1>4. \/ lobby'[l] = room /\ Reply(m.sender, n)
      \/ /\ lobby'[l] = [room EXCEPT !.phase = "zombie"]
         /\ Reply(m.sender, s)
         /\ s.type # "RoomInfo"
  BY <1>0, <1>2, <1>3 DEF LobbyTypeOK, RegisterStatus
<1>5. room.players[1] = p /\ DOMAIN room.players = {1}
  BY <1>0
<1>6. CASE m.sender # c
  <2>1. downstream'[c] = downstream[c]
    BY <1>2, <1>4, <1>6, Replied
  <2>2. ~In(c, l)'
    BY <1>0, <1>4, <1>5, <1>6 DEF In, ActorsOf, Running
  <2> QED BY <1>1, <1>3, <2>1, <2>2, NotInRoom DEF In
<1>7. CASE m.sender = c
  <2>1. 1 \in DOMAIN mailbox[l] /\ m = mailbox[l][1]
    BY <1>0, <1>2, <1>3 DEF LobbyTypeOK, Current
  <2>2. Entering(c, m) /\ Matches(c, m, "Init") /\ ~Settled(c)
    BY <1>2, <1>3, <1>7, <2>1
       DEF Entering, Enters, Asked, AskedMail, Settled, NoMail
  <2>3. Outside(c) /\ Blocked(c) /\ Settled(c)'
    BY <1>0, <1>2, <2>2, WasOutside DEF Matches
  <2>4. /\ m.name = api[c].asked /\ api[c].call = "createRoom"
    BY <1>3, <2>2 DEF Matches
  <2>5. CASE lobby'[l] = room /\ Reply(m.sender, n)
    <3>1. downstream'[c] = Append(downstream[c], n)
      BY <1>2, <1>7, <2>5, Replied
    <3>2. Running(l)'
      BY <1>0, <2>5 DEF Running
    <3>3. Seated(c, l)'
      <4>1. p = [actor |-> c, name |-> MyName(c)]
        BY <1>0, <1>7, <2>4 DEF MyName, Returned
      <4>2. MyName(c)' = MyName(c)
        BY <1>2 DEF MyName, Returned
      <4>3. Seat(c, room.players, 1)'
        BY <1>5, <4>1, <4>2 DEF Seat
      <4> QED BY <2>5, <4>3, <1>0 DEF Seated
    <3> QED BY <1>0, <1>2, <2>3, <2>5, <3>1, <3>2, <3>3, Arrives
  <2>6. CASE /\ lobby'[l] = [room EXCEPT !.phase = "zombie"]
             /\ Reply(m.sender, s)
             /\ s.type # "RoomInfo"
    <3>1. downstream'[c] = Append(downstream[c], s)
      BY <1>2, <1>7, <2>6, Replied
    <3>2. NoRoom(c)'
      BY <1>0, <1>2, <2>3, <2>6
         DEF Outside, NoRoom, In, Running, OthersKept
    <3> QED BY <1>2, <2>3, <2>6, <3>1, <3>2, TurnedDown
  <2> QED BY <1>4, <2>5, <2>6
<1> QED BY <1>6, <1>7

(***************************************************************************)
(* reconfigure: everybody in the room is sent the new limits, or only the  *)
(* host is told that they will not do.                                     *)
(***************************************************************************)
LEMMA ReconfigureLife ==
    ASSUME IInv, IInv', OrderInv, ViewInv, NEW l \in Lobbies,
           HandleReconfigure(l), UNCHANGED <<upstream, api>>,
           NEW c \in Clients, ~Over(c)
    PROVE  Life(c)'
<1>0. PICK m, room, info, n, s :
        /\ m = Current(l)
        /\ room = [lobby[l] EXCEPT !.limits = m.limits]
        /\ info = MakeRoomInfo(room)
        /\ n = [type |-> "ReconfigureSucc", room |-> info]
        /\ s = [type |-> "ReconfigureSuck"]
  OBVIOUS
<1>1. LobbyActorStep(l)
  BY DEF LobbyActorStep
<1>2. /\ Life(c) /\ downstream[c] \in Seq(Notes) /\ online[c]
      /\ LobbyTypeOK /\ ServerSound /\ OthersKept(l) /\ api'[c] = api[c]
      /\ Settled(c) => Settled(c)'
      /\ m.sender \in Clients
  BY <1>0, <1>1, HandlerFacts
<1>3. /\ Running(l) /\ ~Tells(Current(l), c)
      /\ mailbox'[l] = Tail(mailbox[l])
  BY <1>2 DEF HandleReconfigure, Gets, Tells, Handled, LobbyTypeOK
<1>4. lobby[l] \in LobbyState /\ lobby[l].players # << >>
  BY <1>2, <1>3 DEF LobbyTypeOK, ServerSound, RoomsFilled
<1>5. /\ room.players = lobby[l].players /\ room.name = lobby[l].name
      /\ room.phase = lobby[l].phase
  BY <1>0, <1>4 DEF LobbyState
<1>6. \/ UNCHANGED <<lobby, downstream>>
      \/ /\ GetHost(lobby[l]).actor = m.sender
         /\ Reply(m.sender, s)
         /\ lobby' = lobby
      \/ /\ lobby' = [lobby EXCEPT ![l] = room]
         /\ WriteTo(room.players, DOMAIN room.players, n)
  BY <1>0, <1>5 DEF HandleReconfigure, GetHost
<1>7. CASE UNCHANGED <<lobby, downstream>>
  BY <1>1, <1>3, <1>7, QuietLife
<1>8. CASE /\ GetHost(lobby[l]).actor = m.sender
           /\ Reply(m.sender, s)
           /\ lobby' = lobby
  <2>1. CASE m.sender # c
    <3>1. downstream'[c] = downstream[c]
      BY <1>2, <1>8, <2>1, Replied
    <3> QED BY <1>1, <1>3, <1>8, <3>1, QuietLife
  <2>2. CASE m.sender = c
    <3>1. downstream'[c] = Append(downstream[c], s)
      BY <1>2, <1>8, <2>2, Replied
    <3>2. In(c, l)
      <4>1. /\ 1 \in DOMAIN lobby[l].players
            /\ GetHost(lobby[l]) = lobby[l].players[1]
        BY <1>4 DEF LobbyState, GetHost
      <4> QED BY <1>3, <1>8, <2>2, <4>1 DEF In, ActorsOf
    <3>3. ~Carries(s) /\ s.type # "Ejected"
      BY <1>0 DEF Carries
    <3> QED BY <1>1, <1>3, <1>8, <3>1, <3>2, <3>3, QuietLife
  <2> QED BY <2>1, <2>2
<1>9. CASE /\ lobby' = [lobby EXCEPT ![l] = room]
           /\ WriteTo(room.players, DOMAIN room.players, n)
  <2>1. lobby'[l] = room
    BY <1>2, <1>9 DEF LobbyTypeOK
  <2>2. In(c, l)' <=> In(c, l)
    BY <1>3, <1>5, <2>1 DEF In, Running, ActorsOf
  <2>3. CASE ~In(c, l)
    <3>1. downstream'[c] = downstream[c]
      BY <1>2, <1>3, <1>5, <1>9, <2>3, RoomWritten
    <3> QED BY <1>1, <2>2, <2>3, <3>1, NotInRoom
  <2>4. CASE In(c, l)
    <3>1. Inside(c, l)
      BY <1>2, <2>4, InsideOf
    <3>2. downstream'[c] = Append(downstream[c], n)
      <4>1. PICK i \in DOMAIN lobby[l].players :
                    lobby[l].players[i].actor = c
        BY <2>4 DEF In, ActorsOf
      <4>2. PICK to \in SUBSET (DOMAIN lobby[l].players) :
                /\ to = DOMAIN lobby[l].players
                /\ WriteTo(lobby[l].players, to, n)
        BY <1>5, <1>9
      <4>3. \/ \A j \in to : lobby[l].players[j].actor # c
            \/ downstream'[c] = Append(downstream[c], n)
        BY <1>2, <1>3, <4>2, RoomWritten
      <4> QED BY <4>1, <4>2, <4>3
    <3>3. Settled(c)' /\ Running(l)' /\ Seated(c, l)'
      BY <1>2, <1>5, <2>1, <3>1
         DEF Inside, Running, Seated, Seat, MyName, Hosts, Returned
    <3>4. /\ Carries(n) /\ n.type \notin {"Ejected", "RoomInfo"}
          /\ n.room = MakeRoomInfo(lobby'[l]) /\ n.room.name = lobby[l].name
      BY <1>0, <1>5, <2>1 DEF Carries, MakeRoomInfo
    <3>5. Fresh(c, l)' /\ Hears(c, lobby[l].name)
      BY <1>2, <3>2, <3>4, SentFresh DEF Hears, Heard
    <3> QED BY <1>2, <1>5, <2>1, <3>1, <3>3, <3>5, LifeInside
  <2> QED BY <2>3, <2>4
<1> QED BY <1>6, <1>7, <1>8, <1>9

-----------------------------------------------------------------------------
(***************************************************************************)
(* Where a player sits when another one goes, and nobody sits where the    *)
(* only seat was taken away.                                               *)
(***************************************************************************)
LEMMA SeatWithout ==
    ASSUME NEW room \in LobbyState, NEW i \in 1..Len(room.players),
           NEW c, NEW p, Seat(c, room.players, p), p # i
    PROVE  \E s : Seat(c, WithoutPlayer(room, i).players, s)
<1>0. PICK q, t : /\ q = room.players
                  /\ t = WithoutPlayer(room, i).players
  OBVIOUS
<1>1. /\ q \in Seq(PlayerInfo) /\ t \in Seq(PlayerInfo)
      /\ Len(t) = Len(q) - 1
      /\ \A j \in 1..Len(t) : t[j] = IF j < i THEN q[j] ELSE q[j + 1]
  BY <1>0, WithoutPlayerType DEF LobbyState
<1>2. /\ Len(q) \in Nat /\ DOMAIN q = 1..Len(q)
      /\ DOMAIN t = 1..(Len(q) - 1) /\ i \in 1..Len(q)
  BY <1>0, <1>1
<1>3. /\ p \in DOMAIN q
      /\ q[p] = [actor |-> c, name |-> MyName(c)]
      /\ \A j \in DOMAIN q : q[j].actor = c => j = p
      /\ Hosts(c) => p = 1
  BY <1>0 DEF Seat
<1>4. CASE p < i
  <2>1. p \in DOMAIN t /\ t[p] = q[p]
    BY <1>1, <1>2, <1>3, <1>4
  <2>2. ASSUME NEW j \in DOMAIN t, t[j].actor = c PROVE j = p
    <3>1. CASE j < i
      BY <1>1, <1>2, <1>3, <2>2, <3>1
    <3>2. CASE ~(j < i)
      <4>1. j + 1 \in DOMAIN q /\ t[j] = q[j + 1]
        BY <1>1, <1>2, <3>2
      <4>2. j + 1 = p
        BY <1>3, <2>2, <4>1
      <4> QED BY <1>2, <1>4, <3>2, <4>2
    <3> QED BY <3>1, <3>2
  <2>3. Seat(c, t, p)
    BY <1>3, <2>1, <2>2 DEF Seat
  <2> QED BY <1>0, <2>3
<1>5. CASE i < p
  <2>1. p - 1 \in DOMAIN t /\ t[p - 1] = q[p]
    <3>1. p - 1 \in 1..(Len(q) - 1) /\ ~(p - 1 < i) /\ (p - 1) + 1 = p
      BY <1>2, <1>3, <1>5
    <3> QED BY <1>1, <1>2, <3>1
  <2>2. ASSUME NEW j \in DOMAIN t, t[j].actor = c PROVE j = p - 1
    <3>1. CASE j < i
      <4>1. j = p
        BY <1>1, <1>2, <1>3, <2>2, <3>1
      <4> QED BY <1>2, <1>5, <3>1, <4>1
    <3>2. CASE ~(j < i)
      <4>1. j + 1 \in DOMAIN q /\ t[j] = q[j + 1]
        BY <1>1, <1>2, <3>2
      <4>2. j + 1 = p
        BY <1>3, <2>2, <4>1
      <4> QED BY <1>2, <4>2
    <3> QED BY <3>1, <3>2
  <2>3. ~Hosts(c)
    BY <1>2, <1>3, <1>5
  <2>4. Seat(c, t, p - 1)
    BY <1>3, <2>1, <2>2, <2>3 DEF Seat
  <2> QED BY <1>0, <2>4
<1>6. p < i \/ i < p
  BY <1>2, <1>3
<1> QED BY <1>4, <1>5, <1>6

(***************************************************************************)
(* Whoever was listed nowhere but at the place that is removed is not      *)
(* listed any more.                                                        *)
(***************************************************************************)
LEMMA NobodyLeft ==
    ASSUME NEW room \in LobbyState, NEW i \in 1..Len(room.players),
           NEW c, \A j \in DOMAIN room.players :
                     room.players[j].actor = c => j = i
    PROVE  c \notin ActorsOf(WithoutPlayer(room, i))
<1>0. PICK q, t : /\ q = room.players
                  /\ t = WithoutPlayer(room, i).players
  OBVIOUS
<1>1. /\ q \in Seq(PlayerInfo) /\ t \in Seq(PlayerInfo)
      /\ Len(t) = Len(q) - 1
      /\ \A j \in 1..Len(t) : t[j] = IF j < i THEN q[j] ELSE q[j + 1]
  BY <1>0, WithoutPlayerType DEF LobbyState
<1>2. /\ Len(q) \in Nat /\ DOMAIN q = 1..Len(q)
      /\ DOMAIN t = 1..(Len(q) - 1) /\ i \in 1..Len(q)
  BY <1>0, <1>1
<1>3. ASSUME NEW j \in DOMAIN t PROVE t[j].actor # c
  <2>1. CASE j < i
    BY <1>0, <1>1, <1>2, <2>1
  <2>2. CASE ~(j < i)
    <3>1. j + 1 \in DOMAIN q /\ t[j] = q[j + 1] /\ j + 1 # i
      BY <1>1, <1>2, <2>2
    <3> QED BY <1>0, <3>1
  <2> QED BY <2>1, <2>2
<1> QED BY <1>0, <1>3 DEF ActorsOf

(***************************************************************************)
(* And when one comes, who sits behind all the others.                     *)
(***************************************************************************)
LEMMA SeatWith ==
    ASSUME NEW room \in LobbyState, NEW x, NEW c
    PROVE  /\ \A p : Seat(c, room.players, p) /\ x.actor # c =>
                Seat(c, WithPlayer(room, x).players, p)
           /\ /\ c \notin ActorsOf(room) /\ ~Hosts(c)
              /\ x = [actor |-> c, name |-> MyName(c)]
              => \E p : Seat(c, WithPlayer(room, x).players, p)
           /\ c \notin ActorsOf(room) /\ x.actor # c =>
                c \notin ActorsOf(WithPlayer(room, x))
<1>0. PICK q, t : q = room.players /\ t = WithPlayer(room, x).players
  OBVIOUS
<1>1. q \in Seq(PlayerInfo) /\ t = Append(q, x)
  BY <1>0 DEF LobbyState, WithPlayer
<1>2. /\ Len(q) \in Nat /\ DOMAIN t = 1..(Len(q) + 1)
      /\ \A i \in DOMAIN q : i \in DOMAIN t /\ t[i] = q[i]
      /\ t[Len(q) + 1] = x
      /\ \A i \in DOMAIN t : \/ i \in DOMAIN q /\ t[i] = q[i]
                             \/ i = Len(q) + 1 /\ t[i] = x
  BY <1>1, AppendAt
<1>3. ASSUME NEW p, Seat(c, q, p), x.actor # c
      PROVE  Seat(c, t, p)
  BY <1>2, <1>3 DEF Seat
<1>4. ASSUME c \notin ActorsOf(room), ~Hosts(c),
             x = [actor |-> c, name |-> MyName(c)]
      PROVE  Seat(c, t, Len(q) + 1)
  <2>1. \A i \in DOMAIN q : q[i].actor # c
    BY <1>0, <1>4 DEF ActorsOf
  <2>2. Len(q) + 1 \in DOMAIN t
    BY <1>2
  <2> QED BY <1>2, <1>4, <2>1, <2>2 DEF Seat
<1>5. ASSUME c \notin ActorsOf(room), x.actor # c
      PROVE  c \notin ActorsOf(WithPlayer(room, x))
  BY <1>0, <1>2, <1>5 DEF ActorsOf
<1> QED BY <1>0, <1>3, <1>4, <1>5

(***************************************************************************)
(* A client that stays in its room while another one comes or goes: it is  *)
(* written nothing yet, but an Update is made.                             *)
(***************************************************************************)
LEMMA StaysTold ==
    ASSUME IInv, IInv', OrderInv, ViewInv, NEW l \in Lobbies,
           LobbyActorStep(l), UNCHANGED <<upstream, api>>,
           NEW c \in Clients, ~Over(c), In(c, l), Running(l)',
           lobby'[l].name = lobby[l].name,
           \E p : Seat(c, lobby'[l].players, p),
           downstream'[c] = downstream[c],
           NEW m, mailbox'[l] = Append(Tail(mailbox[l]), m), Tells(m, c)
    PROVE  Life(c)'
<1>1. /\ Life(c) /\ downstream[c] \in Seq(Notes)
      /\ LobbyTypeOK /\ OthersKept(l) /\ api'[c] = api[c]
      /\ Settled(c) => Settled(c)'
      /\ mailbox[l] # << >>
  BY HandlerFacts
<1>2. Inside(c, l)
  BY <1>1, InsideOf
<1>3. Settled(c)' /\ Seated(c, l)'
  BY <1>1, <1>2 DEF Inside, Seated, Seat, MyName, Hosts, Returned
<1>4. Fresh(c, l)' /\ Hears(c, lobby[l].name)
  BY <1>1, TellFresh DEF Hears
<1> QED BY <1>1, <1>2, <1>3, <1>4, LifeInside

-----------------------------------------------------------------------------
(***************************************************************************)
(* The host puts a player out: that one is told, and the others are to be. *)
(***************************************************************************)
LEMMA EjectLife ==
    ASSUME IInv, IInv', OrderInv, ViewInv, NEW l \in Lobbies,
           HandleEjectPlayer(l), UNCHANGED <<upstream, api>>,
           NEW c \in Clients, ~Over(c)
    PROVE  Life(c)'
<1>0. PICK m, room, i, n, u :
        /\ m = Current(l)
        /\ room = lobby[l]
        /\ i = IndexOfName(room, m.name)
        /\ n = [type |-> "Ejected", flags |-> {"EJECTED"}]
        /\ u = UpdateMail(m.sender, m.name, TRUE, {"LEFT"})
  OBVIOUS
<1>1. LobbyActorStep(l)
  BY DEF LobbyActorStep
<1>2. /\ Life(c) /\ downstream[c] \in Seq(Notes) /\ online[c]
      /\ LobbyTypeOK /\ OthersKept(l) /\ api'[c] = api[c]
      /\ Settled(c) => Settled(c)'
      /\ m \in Mail
  BY <1>0, <1>1, HandlerFacts
<1>3. /\ Running(l) /\ m.type = "EjectPlayer" /\ ~Tells(Current(l), c)
      /\ room \in LobbyState
  BY <1>0, <1>2 DEF HandleEjectPlayer, Gets, Tells, LobbyTypeOK
<1>4. CASE Handled(l) /\ UNCHANGED <<lobby, downstream>>
  <2>1. mailbox'[l] = Tail(mailbox[l])
    BY <1>2, <1>4 DEF Handled, LobbyTypeOK
  <2> QED BY <1>1, <1>3, <1>4, <2>1, QuietLife
<1>5. CASE /\ i # 0
           /\ Reply(room.players[i].actor, n)
           /\ lobby' = [lobby EXCEPT ![l] = WithoutPlayer(room, i)]
           /\ HandledAndForward(l, u)
  <2>1. /\ lobby'[l] = WithoutPlayer(room, i)
        /\ mailbox'[l] = Append(Tail(mailbox[l]), u)
    BY <1>2, <1>5 DEF LobbyTypeOK, HandledAndForward
  <2>2. i \in 1..Len(room.players) /\ room.players[i].actor \in Clients
    <3>1. i \in 1..Len(room.players) /\ i \in DOMAIN room.players
      BY <1>0, <1>2, <1>3, <1>5, IndexOfNameType, MailFields DEF LobbyState
    <3>2. room.players \in Seq(PlayerInfo)
      BY <1>3 DEF LobbyState
    <3>3. room.players[i] \in PlayerInfo
      BY <3>1, <3>2
    <3> QED BY <3>1, <3>3 DEF PlayerInfo
  <2>3. Tells(u, c)
    BY <1>0 DEF Tells, UpdateMail
  <2>4. Running(l)' /\ lobby'[l].name = lobby[l].name
    BY <1>0, <1>3, <2>1, <2>2, WithoutPlayerType DEF Running
  <2>5. CASE In(c, l)
    <3>1. Inside(c, l)
      BY <1>2, <2>5, InsideOf
    <3>2. PICK p : Seat(c, room.players, p)
      BY <1>0, <3>1 DEF Inside, Seated
    <3>3. /\ p \in DOMAIN room.players /\ room.players[p].actor = c
          /\ \A j \in DOMAIN room.players :
                room.players[j].actor = c => j = p
      BY <3>2 DEF Seat
    <3>4. CASE p = i
      <4>1. downstream'[c] = Append(downstream[c], n)
        BY <1>2, <1>5, <3>3, <3>4, Replied
      <4>2. ~In(c, l)'
        BY <1>3, <2>1, <2>2, <3>3, <3>4, NobodyLeft DEF In
      <4>3. NoRoom(c)'
        BY <1>2, <3>1, <4>2 DEF NoRoom, Inside, In, Running, OthersKept
      <4>4. n.type = "Ejected" /\ Settled(c)'
        BY <1>0, <1>2, <3>1 DEF Inside
      <4> QED BY <1>2, <3>1, <4>1, <4>3, <4>4, PutOut
    <3>5. CASE p # i
      <4>1. room.players[i].actor # c
        BY <2>2, <3>3, <3>5
      <4>2. downstream'[c] = downstream[c]
        BY <1>2, <1>5, <2>2, <4>1, Replied
      <4>3. \E s : Seat(c, lobby'[l].players, s)
        BY <1>3, <2>1, <2>2, <3>2, <3>5, SeatWithout
      <4> QED BY <1>1, <2>1, <2>3, <2>4, <2>5, <4>2, <4>3, StaysTold
    <3> QED BY <3>4, <3>5
  <2>6. CASE ~In(c, l)
    <3>1. \A j \in DOMAIN room.players : room.players[j].actor # c
      BY <1>0, <1>3, <2>6 DEF In, ActorsOf
    <3>2. room.players[i].actor # c
      BY <2>2, <3>1
    <3>3. downstream'[c] = downstream[c]
      BY <1>2, <1>5, <2>2, <3>2, Replied
    <3>4. ~In(c, l)'
      BY <1>3, <2>1, <2>2, <3>1, NobodyLeft DEF In
    <3> QED BY <1>1, <2>6, <3>3, <3>4, NotInRoom
  <2> QED BY <2>5, <2>6
<1>6. \/ Handled(l) /\ UNCHANGED <<lobby, downstream>>
      \/ /\ i # 0
         /\ Reply(room.players[i].actor, n)
         /\ lobby' = [lobby EXCEPT ![l] = WithoutPlayer(room, i)]
         /\ HandledAndForward(l, u)
  BY <1>0 DEF HandleEjectPlayer
<1> QED BY <1>4, <1>5, <1>6

(***************************************************************************)
(* The answer to joinRoom, of which the others are to be told.             *)
(***************************************************************************)
LEMMA JoinLife ==
    ASSUME IInv, IInv', OrderInv, ViewInv, NEW l \in Lobbies,
           HandleJoin(l), UNCHANGED <<upstream, api>>,
           NEW c \in Clients, ~Over(c)
    PROVE  Life(c)'
<1>0. PICK m, x, joined, info, n, u :
        /\ m = Current(l)
        /\ x = [actor |-> m.sender, name |-> m.name]
        /\ joined = WithPlayer(lobby[l], x)
        /\ info = MakeRoomInfo(joined)
        /\ n = [type |-> "RoomInfo", room |-> info]
        /\ u = UpdateMail(m.sender, m.name, FALSE, {"JOINED"})
  OBVIOUS
<1>1. LobbyActorStep(l)
  BY DEF LobbyActorStep
<1>2. /\ Life(c) /\ Asked(c) /\ downstream[c] \in Seq(Notes) /\ online[c]
      /\ LobbyTypeOK /\ OthersKept(l) /\ api'[c] = api[c]
      /\ Settled(c) => Settled(c)'
      /\ Entering(c, Current(l)) => Settled(c)'
      /\ m.sender \in Clients /\ mailbox[l] # << >>
  BY <1>0, <1>1, HandlerFacts
<1>3. /\ Running(l) /\ m.type = "Join" /\ ~Tells(Current(l), c)
      /\ lobby[l] \in LobbyState
  BY <1>0, <1>2 DEF HandleJoin, Gets, Tells, LobbyTypeOK
<1>4. ASSUME m.sender = c
      PROVE  /\ Outside(c) /\ Blocked(c) /\ Settled(c)'
             /\ m.name = MyName(c) /\ ~Hosts(c)
  <2>1. 1 \in DOMAIN mailbox[l] /\ m = mailbox[l][1]
    BY <1>0, <1>2 DEF LobbyTypeOK, Current
  <2>2. Entering(c, m) /\ Matches(c, m, "Init") /\ ~Settled(c)
    BY <1>2, <1>3, <1>4, <2>1
       DEF Entering, Enters, Asked, AskedMail, Settled, NoMail
  <2>3. Outside(c) /\ Blocked(c) /\ Settled(c)'
    BY <1>0, <1>2, <2>2, WasOutside DEF Matches
  <2>4. m.name = MyName(c) /\ ~Hosts(c)
    BY <1>3, <2>2, <2>3 DEF Matches, MyName, Hosts, Returned, Blocked
  <2> QED BY <2>3, <2>4
<1>5. CASE /\ lobby' = [lobby EXCEPT ![l] = joined]
           /\ Reply(m.sender, n)
           /\ HandledAndForward(l, u)
  <2>1. lobby'[l] = joined /\ mailbox'[l] = Append(Tail(mailbox[l]), u)
    BY <1>2, <1>5 DEF LobbyTypeOK, HandledAndForward
  <2>2. Running(l)' /\ lobby'[l].name = lobby[l].name
    BY <1>0, <1>3, <2>1 DEF Running, WithPlayer, LobbyState
  <2>3. CASE m.sender = c
    <3>1. c \notin ActorsOf(lobby[l])
      BY <1>3, <1>4, <2>3 DEF Outside, NoRoom, In
    <3>2. x = [actor |-> c, name |-> MyName(c)]
      BY <1>0, <1>4, <2>3
    <3>3. \E p : Seat(c, joined.players, p)
      BY <1>0, <1>3, <1>4, <2>3, <3>1, <3>2, SeatWith
    <3>4. Seated(c, l)'
      BY <1>2, <2>1, <3>3 DEF Seated, Seat, MyName, Hosts, Returned
    <3>5. downstream'[c] = Append(downstream[c], n)
      BY <1>2, <1>5, <2>3, Replied
    <3> QED BY <1>0, <1>2, <1>4, <2>1, <2>2, <2>3, <3>4, <3>5, Arrives
  <2>4. CASE m.sender # c
    <3>1. downstream'[c] = downstream[c]
      BY <1>2, <1>5, <2>4, Replied
    <3>2. x.actor # c /\ Tells(u, c)
      BY <1>0, <2>4 DEF Tells, UpdateMail
    <3>3. CASE In(c, l)
      <4>1. \E p : Seat(c, lobby[l].players, p)
        BY <1>2, <3>3, InsideOf DEF Inside, Seated
      <4>2. \E p : Seat(c, lobby'[l].players, p)
        BY <1>0, <1>3, <2>1, <3>2, <4>1, SeatWith
      <4> QED BY <1>1, <2>1, <2>2, <3>1, <3>2, <3>3, <4>2, StaysTold
    <3>4. CASE ~In(c, l)
      <4>1. ~In(c, l)'
        BY <1>0, <1>3, <2>1, <3>2, <3>4, SeatWith DEF In
      <4> QED BY <1>1, <3>1, <3>4, <4>1, NotInRoom
    <3> QED BY <3>3, <3>4
  <2> QED BY <2>3, <2>4
<1>6. ASSUME NEW s, Reply(m.sender, s), s.type # "RoomInfo", Handled(l),
             UNCHANGED lobby
      PROVE  Life(c)'
  <2>1. CASE m.sender = c
    <3>1. downstream'[c] = Append(downstream[c], s)
      BY <1>2, <1>6, <2>1, Replied
    <3>2. NoRoom(c)'
      BY <1>4, <1>6, <2>1 DEF Outside, NoRoom, In, Running
    <3> QED BY <1>2, <1>4, <1>6, <2>1, <3>1, <3>2, TurnedDown
  <2>2. CASE m.sender # c
    <3>1. downstream'[c] = downstream[c]
      BY <1>2, <1>6, <2>2, Replied
    <3>2. mailbox'[l] = Tail(mailbox[l])
      BY <1>2, <1>6 DEF Handled, LobbyTypeOK
    <3> QED BY <1>1, <1>3, <1>6, <3>1, <3>2, QuietLife
  <2> QED BY <2>1, <2>2
<1>7. \/ /\ lobby' = [lobby EXCEPT ![l] = joined]
         /\ Reply(m.sender, n)
         /\ HandledAndForward(l, u)
      \/ \E s : /\ Reply(m.sender, s) /\ s.type # "RoomInfo"
                /\ Handled(l)
                /\ UNCHANGED lobby
  <2>1. /\ [type |-> "NAME_EXISTS"].type # "RoomInfo"
        /\ [type |-> "ROOM_IS_FULL"].type # "RoomInfo"
    OBVIOUS
  <2> QED BY <1>0, <2>1 DEF HandleJoin
<1> QED BY <1>5, <1>6, <1>7

(***************************************************************************)
(* Somebody else leaves: a room that a client is in does not end by it.    *)
(***************************************************************************)
LEMMA DisconnectedLife ==
    ASSUME IInv, IInv', OrderInv, ViewInv, NEW l \in Lobbies,
           HandleDisconnected(l), UNCHANGED <<upstream, api>>,
           NEW c \in Clients, ~Over(c)
    PROVE  Life(c)'
<1>0. PICK m, room, i, left, flags, u :
        /\ m = Current(l)
        /\ room = lobby[l]
        /\ i = IndexOfActor(room, m.sender)
        /\ left = WithoutPlayer(room, i)
        /\ flags = {"LEFT"} \cup (IF i = 1 THEN {"NEW_HOST"} ELSE {})
        /\ u = UpdateMail(m.sender, room.players[i].name, FALSE, flags)
  OBVIOUS
<1>1. LobbyActorStep(l)
  BY DEF LobbyActorStep
<1>2. /\ Life(c) /\ LobbyTypeOK /\ OthersKept(l)
      /\ m.sender \in Clients
      /\ Departs(m) => m.sender # c
  BY <1>0, <1>1, HandlerFacts
<1>3. /\ Running(l) /\ m.type = "Disconnected" /\ ~Tells(Current(l), c)
      /\ room \in LobbyState /\ downstream'[c] = downstream[c]
  BY <1>0, <1>2 DEF HandleDisconnected, Gets, Tells, LobbyTypeOK
<1>4. m.sender # c
  BY <1>2, <1>3 DEF Departs
<1>5. CASE Handled(l) /\ UNCHANGED lobby
  <2>1. mailbox'[l] = Tail(mailbox[l])
    BY <1>2, <1>5 DEF Handled, LobbyTypeOK
  <2> QED BY <1>1, <1>3, <1>5, <2>1, QuietLife
<1>6. ASSUME i # 0
      PROVE  /\ i \in 1..Len(room.players)
             /\ \A p : Seat(c, room.players, p) =>
                  \E s : Seat(c, left.players, s)
             /\ ~In(c, l) => c \notin ActorsOf(left)
  <2>1. i \in 1..Len(room.players) /\ room.players[i].actor = m.sender
    BY <1>0, <1>2, <1>3, <1>6, IndexOfActorType DEF LobbyState
  <2>2. ASSUME NEW p, Seat(c, room.players, p)
        PROVE  \E s : Seat(c, left.players, s)
    <3>1. p # i
      BY <1>4, <2>1, <2>2 DEF Seat
    <3> QED BY <1>0, <1>3, <2>1, <2>2, <3>1, SeatWithout
  <2>3. ASSUME ~In(c, l) PROVE c \notin ActorsOf(left)
    <3>1. \A j \in DOMAIN room.players : room.players[j].actor # c
      BY <1>0, <1>3, <2>3 DEF In, ActorsOf
    <3> QED BY <1>0, <1>3, <2>1, <3>1, NobodyLeft
  <2> QED BY <2>1, <2>2, <2>3
<1>7. CASE /\ i # 0
           /\ lobby' = [lobby EXCEPT ![l] = left]
           /\ HandledAndForward(l, u)
  <2>1. lobby'[l] = left /\ mailbox'[l] = Append(Tail(mailbox[l]), u)
    BY <1>2, <1>7 DEF LobbyTypeOK, HandledAndForward
  <2>2. CASE In(c, l)
    <3>1. \E p : Seat(c, room.players, p)
      BY <1>0, <1>2, <2>2, InsideOf DEF Inside, Seated
    <3>2. \E s : Seat(c, lobby'[l].players, s)
      BY <1>6, <1>7, <2>1, <3>1
    <3>3. Running(l)' /\ lobby'[l].name = lobby[l].name
      BY <1>0, <1>3, <1>6, <1>7, <2>1, WithoutPlayerType DEF Running
    <3>4. Tells(u, c)
      BY <1>0, <1>4 DEF Tells, UpdateMail
    <3> QED BY <1>1, <1>3, <2>1, <2>2, <3>2, <3>3, <3>4, StaysTold
  <2>3. CASE ~In(c, l)
    <3>1. ~In(c, l)'
      BY <1>6, <1>7, <2>1, <2>3 DEF In
    <3> QED BY <1>1, <1>3, <2>3, <3>1, NotInRoom
  <2> QED BY <2>2, <2>3
<1>8. CASE i # 0 /\ left.players = << >> /\ Shutdown(l)
  <2>1. ~In(c, l)
    <3> SUFFICES ASSUME In(c, l) PROVE FALSE
      OBVIOUS
    <3>1. PICK p : Seat(c, room.players, p)
      BY <1>0, <1>2, InsideOf DEF Inside, Seated
    <3>2. PICK s : Seat(c, left.players, s)
      BY <1>6, <1>8, <3>1
    <3> QED BY <1>8, <3>2 DEF Seat
  <2>2. ~In(c, l)'
    BY <1>2, <1>8 DEF Shutdown, LobbyTypeOK, Stopped, Unborn, In, Running
  <2> QED BY <1>1, <1>3, <2>1, <2>2, NotInRoom
<1>9. \/ Handled(l) /\ UNCHANGED lobby
      \/ /\ i # 0
         /\ lobby' = [lobby EXCEPT ![l] = left]
         /\ HandledAndForward(l, u)
      \/ i # 0 /\ left.players = << >> /\ Shutdown(l)
  BY <1>0 DEF HandleDisconnected
<1> QED BY <1>5, <1>7, <1>8, <1>9

(***************************************************************************)
(* The room is closed, and everybody in it is told.                        *)
(***************************************************************************)
LEMMA CloseLife ==
    ASSUME IInv, IInv', OrderInv, ViewInv, NEW l \in Lobbies,
           HandleClose(l), UNCHANGED <<upstream, api>>,
           NEW c \in Clients, ~Over(c)
    PROVE  Life(c)'
<1>0. PICK n, to :
        /\ n = [type |-> "Ejected",
                flags |-> {"EJECTED", "ROOM_CLOSED_BY_HOST"}]
        /\ to = DOMAIN lobby[l].players
  OBVIOUS
<1>1. LobbyActorStep(l)
  BY DEF LobbyActorStep
<1>2. /\ Life(c) /\ downstream[c] \in Seq(Notes) /\ online[c]
      /\ LobbyTypeOK /\ OthersKept(l) /\ api'[c] = api[c]
      /\ Settled(c) => Settled(c)'
  BY <1>1, HandlerFacts
<1>3. /\ Running(l) /\ Current(l).type = "Close"
      /\ to \in SUBSET (DOMAIN lobby[l].players)
      /\ WriteTo(lobby[l].players, to, n)
      /\ Shutdown(l)
  BY <1>0 DEF HandleClose, Gets
<1>4. ~In(c, l)'
  BY <1>2, <1>3 DEF Shutdown, LobbyTypeOK, Stopped, Unborn, In, Running
<1>5. CASE In(c, l)
  <2>1. Inside(c, l)
    BY <1>2, <1>5, InsideOf
  <2>2. PICK i \in to : lobby[l].players[i].actor = c
    BY <1>0, <1>5 DEF In, ActorsOf
  <2>3. downstream'[c] = Append(downstream[c], n)
    <3>1. \/ /\ downstream'[c] = downstream[c]
             /\ \A j \in to : lobby[l].players[j].actor # c
          \/ downstream'[c] = Append(downstream[c], n)
      BY <1>2, <1>3, RoomWritten
    <3> QED BY <2>2, <3>1
  <2>4. NoRoom(c)'
    BY <1>2, <1>4, <2>1 DEF NoRoom, Inside, In, Running, OthersKept
  <2>5. n.type = "Ejected" /\ Settled(c)'
    BY <1>0, <1>2, <2>1 DEF Inside
  <2> QED BY <1>2, <2>1, <2>3, <2>4, <2>5, PutOut
<1>6. CASE ~In(c, l)
  <2>1. downstream'[c] = downstream[c]
    BY <1>2, <1>3, <1>6, RoomWritten
  <2> QED BY <1>1, <1>4, <1>6, <2>1, NotInRoom
<1> QED BY <1>5, <1>6

(***************************************************************************)
(* So every handler keeps the invariant.                                   *)
(***************************************************************************)
LEMMA LobbyActorView ==
    ASSUME IInv, IInv', OrderInv, ViewInv, NEW l \in Lobbies,
           LobbyActorStep(l), UNCHANGED <<upstream, api>>
    PROVE  ViewInv'
<1>1. Allowed'
  BY ActorAllowed DEF ViewInv
<1>2. ASSUME NEW c \in Clients PROVE ClientView(c)'
  <2>1. CASE Over(c)
    BY <2>1 DEF ClientView, Over
  <2>2. CASE ~Over(c)
    <3>1. Asked(c)'
      <4>1. LobbyTypeOK /\ LobbyTypeOK' /\ Asked(c)
        BY <2>2 DEF IInv, TypeOK, ViewInv, ClientView
      <4> QED BY <4>1, ActorAsked
    <3>2. Life(c)'
      BY <2>2, InitLife, MessageLife, StartSessionLife, EjectLife,
         ReconfigureLife, LeaveRoomLife, UpdateLife, JoinLife,
         DisconnectedLife, CloseLife, ZombieLife DEF LobbyActorStep
    <3> QED BY <3>1, <3>2 DEF ClientView
  <2> QED BY <2>1, <2>2
<1> QED BY <1>1, <1>2 DEF ViewInv

-----------------------------------------------------------------------------
(***************************************************************************)
(* What a Client actor does: it takes one request, puts at most one        *)
(* message m behind those of an actor, and leaves every room as it is.     *)
(***************************************************************************)
Added(m) ==
    \E l, n : \A k \in Lobbies : \A i \in DOMAIN mailbox'[k] :
        \/ i \in DOMAIN mailbox[k] /\ mailbox'[k][i] = mailbox[k][i]
        \/ k = l /\ i = n /\ mailbox'[k][i] = m

MailKept ==
    \A k \in Lobbies : Running(k) =>
        \A i \in DOMAIN mailbox[k] :
            i \in DOMAIN mailbox'[k] /\ mailbox'[k][i] = mailbox[k][i]

RoomsKept ==
    \A k \in Lobbies : /\ Running(k)' => Running(k)
                       /\ Running(k) => lobby'[k] = lobby[k]

TakesOne(c) ==
    \A i \in DOMAIN upstream'[c] :
        /\ i + 1 \in DOMAIN upstream[c]
        /\ upstream'[c][i] = upstream[c][i + 1]

OthersWait(c) ==
    \A d \in Clients \ {c} :
        upstream'[d] = upstream[d] /\ downstream'[d] = downstream[d]

(***************************************************************************)
(* Only what asked for a room becomes a message that enters one, under the *)
(* name that was asked, and only what was sent as one a StartSession.      *)
(***************************************************************************)
Passes(c, m) ==
    /\ m.sender = c
    /\ m.type = "StartSession" => Starts(Request(c))
    /\ Enters(m) => /\ Asks(Request(c))
                    /\ m.name = Request(c).name
                    /\ m.type = "Init" <=> Request(c).type = "CreateRoom"

TurnsDown(c, m) ==
    /\ Asks(Request(c))
    /\ ~Enters(m)
    /\ \E n : /\ downstream'[c] = Append(downstream[c], n)
              /\ n.type # "RoomInfo"

Takes(c, m) ==
    /\ upstream[c] # << >>
    /\ Added(m) /\ MailKept /\ RoomsKept /\ OthersWait(c)
    /\ Passes(c, m)
    /\ TakesOne(c)
    /\ ~Over(c) => Taken(c)
    /\ downstream'[c] = downstream[c] \/ (~Over(c) => TurnsDown(c, m))
    /\ UNCHANGED <<online, api>>

(***************************************************************************)
(* The other clients do not notice.                                        *)
(***************************************************************************)
LEMMA TakesOthers ==
    ASSUME IInv, IInv', ViewInv, NEW c \in Clients, NEW m, Takes(c, m),
           NEW d \in Clients \ {c}
    PROVE  ClientView(d)'
<1>1. CASE Over(d)
  BY <1>1 DEF ClientView, Over, Takes
<1>2. CASE ~Over(d)
  <2>1. /\ Asked(d) /\ Life(d) /\ api'[d] = api[d]
        /\ upstream'[d] = upstream[d] /\ downstream'[d] = downstream[d]
        /\ LobbyTypeOK /\ LobbyTypeOK'
    BY <1>2 DEF ViewInv, ClientView, Takes, OthersWait, IInv, TypeOK
  <2>2. PICK s : s = [k \in Lobbies |-> 0]
    OBVIOUS
  <2>3. s \in [Lobbies -> Nat] /\ \A k \in Lobbies : s[k] = 0
    BY <2>2
  <2>4. ASSUME NEW k \in Lobbies, NEW i \in DOMAIN mailbox'[k],
               Entering(d, mailbox'[k][i]) \/ Starting(d, mailbox'[k][i])
        PROVE  /\ i + s[k] \in DOMAIN mailbox[k]
               /\ mailbox'[k][i] = mailbox[k][i + s[k]]
    <3>1. mailbox'[k][i] # m
      BY <2>4 DEF Takes, Passes, Entering, Starting
    <3>2. i \in DOMAIN mailbox[k] /\ mailbox'[k][i] = mailbox[k][i]
      BY <3>1 DEF Takes, Added
    <3>3. i + s[k] = i
      BY <2>1, <2>3 DEF LobbyTypeOK
    <3> QED BY <3>2, <3>3
  <2>5. Asked(d)' /\ (Settled(d) => Settled(d)')
    BY <2>1, <2>3, <2>4, AskedKept
  <2>6. \A k \in Lobbies : In(d, k)' => In(d, k)
    BY DEF Takes, RoomsKept, In
  <2>7. \A k \in Lobbies : In(d, k) =>
           lobby'[k] = lobby[k] /\ (Telling(d, k) => Telling(d, k)')
    BY DEF Takes, RoomsKept, MailKept, In, Telling
  <2>8. Life(d)'
    BY <2>1, <2>5, <2>6, <2>7, LifeKept
  <2> QED BY <2>5, <2>8 DEF ClientView
<1> QED BY <1>1, <1>2

(***************************************************************************)
(* The client whose request it was, and who asked for nothing.             *)
(***************************************************************************)
LEMMA TakesQuietly ==
    ASSUME IInv, ViewInv, NEW c \in Clients, ~Over(c), NEW m, Takes(c, m),
           ~Asks(Request(c))
    PROVE  Asked(c)' /\ (Settled(c) => Settled(c)')
<1>1. /\ Asked(c) /\ upstream[c] # << >> /\ ~Enters(m)
      /\ upstream[c] \in Seq(Requests) /\ upstream'[c] = Tail(upstream[c])
      /\ api'[c] = api[c]
  BY DEF ViewInv, ClientView, Takes, Passes, Taken, IInv, TypeOK,
         ClientTypeOK
<1>2. NoMail(c)
  BY <1>1 DEF Asked, AskedMail, NoMail
<1>3. NoMail(c)'
  BY <1>1, <1>2 DEF NoMail, Entering, Takes, Added
<1>4. AskedUp(c)'
  <2>0. PICK q, p : q = upstream[c] /\ p = upstream'[c]
    OBVIOUS
  <2>1. /\ Len(q) \in Nat /\ Len(p) = Len(q) - 1 /\ p \in Seq(Requests)
        /\ \A i \in DOMAIN p : i + 1 \in DOMAIN q /\ p[i] = q[i + 1]
    BY <1>1, <2>0, TailAt
  <2>2. ASSUME NEW i \in DOMAIN p, Asks(p[i])
        PROVE  i = Len(p) /\ Matches(c, p[i], "CreateRoom")
    <3>1. i + 1 = Len(q) /\ Matches(c, q[i + 1], "CreateRoom")
      BY <1>1, <2>0, <2>1, <2>2 DEF Asked, AskedUp
    <3>2. i \in Nat
      BY <2>1
    <3> QED BY <2>1, <3>1, <3>2
  <2>3. \A x : Matches(c, x, "CreateRoom") => Matches(c, x, "CreateRoom")'
    BY <1>1 DEF Matches, Blocked
  <2> QED BY <1>3, <2>0, <2>2, <2>3 DEF AskedUp
<1>5. AskedMail(c)'
  BY <1>3 DEF AskedMail, NoMail
<1>6. Settled(c) => Settled(c)'
  BY <1>3 DEF Settled, Takes, TakesOne
<1>7. Unstarted(c)'
  <2> SUFFICES ASSUME NoStart(c) PROVE NoStart(c)'
    BY <1>1 DEF Asked, Unstarted, Blocked
  <2>1. 1 \in DOMAIN upstream[c] /\ Request(c) = upstream[c][1]
    BY <1>1 DEF Request
  <2>2. m.type # "StartSession"
    BY <2>1 DEF Takes, Passes, NoStart
  <2>3. \A l \in Lobbies : \A i \in DOMAIN mailbox'[l] :
           ~Starting(c, mailbox'[l][i])
    BY <2>2 DEF NoStart, Starting, Takes, Added
  <2>4. \A i \in DOMAIN upstream'[c] : ~Starts(upstream'[c][i])
    BY DEF NoStart, Takes, TakesOne
  <2> QED BY <2>3, <2>4 DEF NoStart
<1> QED BY <1>4, <1>5, <1>6, <1>7 DEF Asked

(***************************************************************************)
(* The client who asked for a room: that was its last request, and what    *)
(* becomes of it is the one message of it.                                 *)
(***************************************************************************)
LEMMA TakesAnswer ==
    ASSUME IInv, ViewInv, NEW c \in Clients, ~Over(c), NEW m, Takes(c, m),
           Asks(Request(c))
    PROVE  /\ Asked(c)' /\ Blocked(c) /\ ~Settled(c)
           /\ ~Enters(m) => Settled(c)'
<1>1. /\ Asked(c) /\ upstream[c] # << >> /\ api'[c] = api[c]
      /\ upstream[c] \in Seq(Requests) /\ upstream'[c] = Tail(upstream[c])
  BY DEF ViewInv, ClientView, Takes, Taken, IInv, TypeOK, ClientTypeOK
<1>2. 1 \in DOMAIN upstream[c] /\ Request(c) = upstream[c][1]
  BY <1>1 DEF Request
<1>3. /\ 1 = Len(upstream[c]) /\ NoMail(c)
      /\ Matches(c, Request(c), "CreateRoom")
  BY <1>1, <1>2 DEF Asked, AskedUp
<1>4. upstream'[c] = << >>
  <2>1. upstream'[c] \in Seq(Requests) /\ Len(upstream'[c]) = 0
    BY <1>1, <1>3, TailAt
  <2> QED BY <2>1
<1>5. \A k \in Lobbies : \A i \in DOMAIN mailbox'[k] :
         Entering(c, mailbox'[k][i]) => mailbox'[k][i] = m /\ Enters(m)
  BY <1>3 DEF NoMail, Takes, Added, Entering
<1>6. AskedMail(c)'
  <2> SUFFICES ASSUME NEW l \in Lobbies, NEW i \in DOMAIN mailbox'[l],
                      Entering(c, mailbox'[l][i])
               PROVE  /\ Matches(c, m, "Init")'
                      /\ \A k \in Lobbies : \A j \in DOMAIN mailbox'[k] :
                          Entering(c, mailbox'[k][j]) => k = l /\ j = i
    BY <1>4, <1>5 DEF AskedMail, Matches
  <2>1. Enters(m)
    BY <1>5
  <2>2. Matches(c, m, "Init")'
    BY <1>1, <1>3, <2>1 DEF Takes, Passes, Matches, Blocked
  <2>3. PICK h, n : \A k \in Lobbies : \A j \in DOMAIN mailbox'[k] :
          Entering(c, mailbox'[k][j]) => k = h /\ j = n
    BY <1>3 DEF NoMail, Takes, Added
  <2> QED BY <2>2, <2>3
<1>7. AskedUp(c)'
  BY <1>4 DEF AskedUp
<1>8. Blocked(c) /\ ~Settled(c)
  BY <1>2, <1>3 DEF Matches, Settled
<1>9. ~Enters(m) => Settled(c)'
  BY <1>4, <1>5 DEF Settled, NoMail
<1>10. Unstarted(c)'
  <2>1. NoStart(c)
    BY <1>1, <1>8 DEF Asked, Unstarted
  <2>2. m.type # "StartSession"
    BY DEF Takes, Passes, Asks, Starts
  <2>3. \A l \in Lobbies : \A i \in DOMAIN mailbox'[l] :
           ~Starting(c, mailbox'[l][i])
    BY <2>1, <2>2 DEF NoStart, Starting, Takes, Added
  <2> QED BY <1>4, <2>3 DEF Unstarted, NoStart
<1> QED BY <1>6, <1>7, <1>8, <1>9, <1>10 DEF Asked

(***************************************************************************)
(* So such a step keeps the invariant.                                     *)
(***************************************************************************)
LEMMA TakesView ==
    ASSUME IInv, IInv', ViewInv, NEW c \in Clients, NEW m, Takes(c, m)
    PROVE  ViewInv'
<1>1. Allowed'
  <2>1. \A d \in Clients : \A i \in DOMAIN upstream'[d] :
           AllowedRequest(upstream'[d][i])
    BY DEF Takes, TakesOne, OthersWait, ViewInv, Allowed
  <2>2. \A d \in Clients : AllowedApi(d)'
    BY DEF Takes, ViewInv, Allowed, AllowedApi
  <2> QED BY <2>1, <2>2 DEF Allowed, AllowedRequest, Enters
<1>2. CASE Over(c)
  <2>1. ClientView(c)'
    BY <1>2 DEF ClientView, Over, Takes
  <2> QED BY <1>1, <2>1, TakesOthers DEF ViewInv
<1>3. CASE ~Over(c)
  <2>1. /\ Life(c) /\ api'[c] = api[c]
        /\ \A k \in Lobbies : In(c, k)' => In(c, k)
        /\ \A k \in Lobbies : In(c, k) =>
             lobby'[k] = lobby[k] /\ (Telling(c, k) => Telling(c, k)')
    BY <1>3 DEF ViewInv, ClientView, Takes, RoomsKept, MailKept, In, Telling
  <2>2. Asked(c)' /\ (Settled(c) => Settled(c)')
    BY <1>3, TakesQuietly, TakesAnswer
  <2>3. Life(c)'
    <3>1. CASE downstream'[c] = downstream[c]
      BY <2>1, <2>2, <3>1, LifeKept
    <3>2. CASE TurnsDown(c, m)
      <4>1. /\ Blocked(c) /\ ~Settled(c) /\ Settled(c)'
        BY <1>3, <3>2, TakesAnswer DEF TurnsDown
      <4>2. Outside(c)
        BY <2>1, <4>1, WasOutside
      <4>3. NoRoom(c)'
        BY <2>1, <4>2 DEF Outside, NoRoom
      <4> QED BY <2>1, <3>2, <4>1, <4>2, <4>3, TurnedDown DEF TurnsDown
    <3> QED BY <1>3, <3>1, <3>2 DEF Takes
  <2> QED BY <1>1, <2>2, <2>3, TakesOthers DEF ViewInv, ClientView
<1> QED BY <1>2, <1>3

(***************************************************************************)
(* What is put into a mailbox goes behind the rest of it, or is lost.      *)
(***************************************************************************)
LEMMA EnqueueAdds ==
    ASSUME LobbyTypeOK, NEW l \in Lobbies, NEW m, Enqueue(l, m)
    PROVE  Added(m) /\ MailKept
<1>1. PICK q : q = mailbox[l] /\ q \in Seq(Mail)
  BY DEF LobbyTypeOK
<1>2. \/ mailbox' = mailbox
      \/ mailbox' = [mailbox EXCEPT ![l] = Append(q, m)]
  BY <1>1 DEF Enqueue
<1>3. CASE mailbox' = mailbox
  BY <1>3 DEF Added, MailKept
<1>4. CASE mailbox' = [mailbox EXCEPT ![l] = Append(q, m)]
  <2>1. PICK p : p = Append(q, m)
    OBVIOUS
  <2>2. /\ mailbox'[l] = p
        /\ \A k \in Lobbies \ {l} : mailbox'[k] = mailbox[k]
    BY <1>4, <2>1 DEF LobbyTypeOK
  <2>3. /\ \A i \in DOMAIN q : i \in DOMAIN p /\ p[i] = q[i]
        /\ \A i \in DOMAIN p : \/ i \in DOMAIN q /\ p[i] = q[i]
                               \/ i = Len(q) + 1 /\ p[i] = m
    BY <1>1, <2>1, AppendAt
  <2>4. Added(m)
    <3>1. PICK n : n = Len(q) + 1
      OBVIOUS
    <3>2. \A k \in Lobbies : \A i \in DOMAIN mailbox'[k] :
            \/ i \in DOMAIN mailbox[k] /\ mailbox'[k][i] = mailbox[k][i]
            \/ k = l /\ i = n /\ mailbox'[k][i] = m
      BY <1>1, <2>2, <2>3, <3>1
    <3>3. \E h, o : \A k \in Lobbies : \A i \in DOMAIN mailbox'[k] :
            \/ i \in DOMAIN mailbox[k] /\ mailbox'[k][i] = mailbox[k][i]
            \/ k = h /\ i = o /\ mailbox'[k][i] = m
      <4> WITNESS l, n
      <4> QED BY <3>2
    <3> QED BY <3>3 DEF Added
  <2>5. MailKept
    BY <1>1, <2>2, <2>3 DEF MailKept
  <2> QED BY <2>4, <2>5
<1> QED BY <1>2, <1>3, <1>4

(***************************************************************************)
(* The request that is taken is the first one, and was allowed.            *)
(***************************************************************************)
LEMMA TakenFacts ==
    ASSUME IInv, OrderInv, ViewInv, NEW c \in Clients, upstream[c] # << >>
    PROVE  /\ LobbyTypeOK /\ ClientTypeOK
           /\ Request(c) \in Requests
           /\ AllowedRequest(Request(c))
           /\ OwnMail(c, Request(c))
           /\ Leaves(Request(c)) => Over(c)
           /\ Taken(c) => TakesOne(c)
           /\ Taken(c) => \A d \in Clients \ {c} : upstream'[d] = upstream[d]
<1>1. /\ LobbyTypeOK /\ ClientTypeOK
      /\ upstream \in [Clients -> Seq(Requests)]
      /\ upstream[c] \in Seq(Requests)
  BY DEF IInv, TypeOK, ClientTypeOK
<1>2. 1 \in DOMAIN upstream[c] /\ Request(c) = upstream[c][1]
  BY <1>1 DEF Request
<1>3. Request(c) \in Requests
  BY <1>1, RequestType
<1>4. AllowedRequest(Request(c)) /\ OwnMail(c, Request(c))
      /\ (Leaves(Request(c)) => Over(c))
  BY <1>2 DEF ViewInv, Allowed, OrderInv, ClientOrder, LeavesLast
<1>5. ASSUME Taken(c)
      PROVE  /\ TakesOne(c)
             /\ \A d \in Clients \ {c} : upstream'[d] = upstream[d]
  <2>1. upstream'[c] = Tail(upstream[c])
        /\ \A d \in Clients \ {c} : upstream'[d] = upstream[d]
    BY <1>1, <1>5 DEF Taken
  <2>2. TakesOne(c)
    BY <1>1, <2>1, TailAt DEF TakesOne
  <2> QED BY <2>1, <2>2
<1> QED BY <1>1, <1>3, <1>4, <1>5

(***************************************************************************)
(* CreateRoom: an actor that no room had gets the one Init.                *)
(***************************************************************************)
LEMMA TakeCreateRoomView ==
    ASSUME IInv, IInv', OrderInv, ViewInv, NEW c \in Clients,
           TakeCreateRoom(c), UNCHANGED api
    PROVE  ViewInv'
<1>0. PICK r, l, m :
        /\ r = Request(c)
        /\ l = CHOOSE k \in Lobbies : lobby[k].phase = "unborn"
        /\ m = [type |-> "Init", sender |-> c, name |-> r.name,
                room |-> r.room, limits |-> r.limits]
  OBVIOUS
<1>1. /\ upstream[c] # << >> /\ r.type = "CreateRoom"
      /\ \E k \in Lobbies : lobby[k].phase = "unborn"
      /\ lobby' = [lobby EXCEPT ![l].phase = "initial"]
      /\ mailbox' = [mailbox EXCEPT ![l] = <<m>>]
      /\ Taken(c)
      /\ UNCHANGED <<online, downstream, api>>
  BY <1>0 DEF TakeCreateRoom, Requested
<1>2. l \in Lobbies /\ lobby[l].phase = "unborn"
  BY <1>0, <1>1
<1>3. LobbyTypeOK /\ TakesOne(c)
      /\ \A d \in Clients \ {c} : upstream'[d] = upstream[d]
  BY <1>1, TakenFacts
<1>4. /\ mailbox'[l] = <<m>> /\ ~Running(l)
      /\ \A k \in Lobbies \ {l} : mailbox'[k] = mailbox[k]
      /\ \A k \in Lobbies \ {l} : lobby'[k] = lobby[k]
      /\ lobby'[l].phase = "initial"
  BY <1>1, <1>2, <1>3 DEF LobbyTypeOK, LobbyState, Running
<1>5. Added(m)
  <2>1. \A i \in DOMAIN <<m>> : i = 1 /\ <<m>>[i] = m
    OBVIOUS
  <2> QED BY <1>4, <2>1 DEF Added
<1>6. MailKept /\ RoomsKept
  BY <1>4 DEF MailKept, RoomsKept, Running
<1>7. Passes(c, m)
  BY <1>0, <1>1 DEF Passes, Asks
<1>8. Takes(c, m)
  BY <1>1, <1>3, <1>5, <1>6, <1>7 DEF Takes, OthersWait
<1> QED BY <1>8, TakesView

(***************************************************************************)
(* JoinRoom: a Join for the room, or SUCK at once.                         *)
(***************************************************************************)
LEMMA TakeJoinRoomView ==
    ASSUME IInv, IInv', OrderInv, ViewInv, NEW c \in Clients,
           TakeJoinRoom(c), UNCHANGED api
    PROVE  ViewInv'
<1>1. /\ upstream[c] # << >> /\ Request(c).type = "JoinRoom"
      /\ Taken(c)
      /\ UNCHANGED <<lobby, online, api>>
  BY DEF TakeJoinRoom, Requested
<1>2. /\ LobbyTypeOK /\ TakesOne(c) /\ Request(c) \in Requests
      /\ \A d \in Clients \ {c} : upstream'[d] = upstream[d]
  BY <1>1, TakenFacts
<1>3. PICK j, n, m : /\ j = [type |-> "Join", sender |-> c,
                             name |-> Request(c).name]
                     /\ n = [type |-> "SUCK"]
                     /\ m = [type |-> "LeaveRoom", sender |-> c]
  OBVIOUS
<1>4. PICK found \in Lookup(Request(c).room) :
        \/ /\ found # Null
           /\ Enqueue(found.handler, j)
           /\ UNCHANGED downstream
        \/ Reply(c, n) /\ UNCHANGED mailbox
  BY <1>3 DEF TakeJoinRoom
<1>5. RoomsKept
  BY <1>1 DEF RoomsKept, Running
<1>6. CASE /\ found # Null
           /\ Enqueue(found.handler, j)
           /\ UNCHANGED downstream
  <2>1. Request(c).room \in RoomNames
    BY <1>1, <1>2, RequestFields
  <2>2. found.handler \in Lobbies
    BY <1>2, <1>6, <2>1, LookupType DEF LobbyTypeOK
  <2>3. Added(j) /\ MailKept
    BY <1>2, <1>6, <2>2, EnqueueAdds
  <2>4. Passes(c, j)
    BY <1>1, <1>3 DEF Passes, Asks
  <2>5. Takes(c, j)
    BY <1>1, <1>2, <1>5, <1>6, <2>3, <2>4 DEF Takes, OthersWait
  <2> QED BY <2>5, TakesView
<1>7. CASE Reply(c, n) /\ UNCHANGED mailbox
  <2>1. Added(m) /\ MailKept
    BY <1>7 DEF Added, MailKept
  <2>2. Passes(c, m) /\ ~Enters(m)
    BY <1>3 DEF Passes, Enters
  <2>3. \A d \in Clients \ {c} : downstream'[d] = downstream[d]
    BY <1>2, <1>7, Replied
  <2>4. ~Over(c) => TurnsDown(c, m)
    <3>1. ~Over(c) => online[c]
      BY DEF ViewInv, Allowed, AllowedApi, Over
    <3>2. ~Over(c) => downstream'[c] = Append(downstream[c], n)
      BY <1>2, <1>7, <3>1, Replied
    <3> QED BY <1>1, <1>3, <2>2, <3>2 DEF TurnsDown, Asks
  <2>5. Takes(c, m)
    BY <1>1, <1>2, <1>5, <2>1, <2>2, <2>3, <2>4 DEF Takes, OthersWait
  <2> QED BY <2>5, TakesView
<1> QED BY <1>4, <1>6, <1>7

(***************************************************************************)
(* Envelop: what is in it goes to the room it names.                       *)
(***************************************************************************)
LEMMA TakeEnvelopView ==
    ASSUME IInv, IInv', OrderInv, ViewInv, NEW c \in Clients,
           TakeEnvelop(c), UNCHANGED api
    PROVE  ViewInv'
<1>1. /\ upstream[c] # << >> /\ Request(c).type = "Envelop"
      /\ Taken(c)
      /\ UNCHANGED <<lobby, online, downstream, api>>
  BY DEF TakeEnvelop, Requested
<1>2. /\ LobbyTypeOK /\ TakesOne(c) /\ Request(c) \in Requests
      /\ \A d \in Clients \ {c} : upstream'[d] = upstream[d]
      /\ AllowedRequest(Request(c)) /\ OwnMail(c, Request(c))
  BY <1>1, TakenFacts
<1>3. PICK m : m = Request(c).mail
  OBVIOUS
<1>4. PICK found \in Lookup(Request(c).room) :
        \/ found # Null /\ Enqueue(found.handler, m)
        \/ UNCHANGED mailbox
  BY <1>3 DEF TakeEnvelop
<1>5. Added(m) /\ MailKept
  <2>1. CASE UNCHANGED mailbox
    BY <2>1 DEF Added, MailKept
  <2>2. CASE found # Null /\ Enqueue(found.handler, m)
    <3>1. Request(c).room \in RoomNames
      BY <1>1, <1>2, RequestFields
    <3>2. found.handler \in Lobbies
      BY <1>2, <2>2, <3>1, LookupType DEF LobbyTypeOK
    <3> QED BY <1>2, <2>2, <3>2, EnqueueAdds
  <2> QED BY <1>4, <2>1, <2>2
<1>6. Passes(c, m)
  BY <1>1, <1>2, <1>3 DEF Passes, AllowedRequest, OwnMail, Starts
<1>7. Takes(c, m)
  BY <1>1, <1>2, <1>5, <1>6 DEF Takes, OthersWait, RoomsKept, Running
<1> QED BY <1>7, TakesView

(***************************************************************************)
(* CloseRoom and the end of a connection: m_handler says whom to tell.     *)
(***************************************************************************)
LEMMA HandlerAdds ==
    ASSUME LobbyTypeOK, ClientTypeOK, NEW c \in Clients, NEW m,
           \/ m_handler[c] # Null /\ Enqueue(m_handler[c], m)
           \/ UNCHANGED mailbox
    PROVE  Added(m) /\ MailKept
<1>1. CASE UNCHANGED mailbox
  BY <1>1 DEF Added, MailKept
<1>2. CASE m_handler[c] # Null /\ Enqueue(m_handler[c], m)
  <2>1. m_handler[c] \in Lobbies
    BY <1>2 DEF ClientTypeOK
  <2> QED BY <1>2, <2>1, EnqueueAdds
<1> QED BY <1>1, <1>2

(***************************************************************************)
(* CloseRoom: a Close for the room m_handler leads to.                     *)
(***************************************************************************)
LEMMA TakeCloseRoomView ==
    ASSUME IInv, IInv', OrderInv, ViewInv, NEW c \in Clients,
           TakeCloseRoom(c), UNCHANGED api
    PROVE  ViewInv'
<1>1. /\ upstream[c] # << >> /\ Request(c).type = "CloseRoom"
      /\ Taken(c)
      /\ UNCHANGED <<lobby, online, downstream, api>>
  BY DEF TakeCloseRoom, Requested
<1>2. /\ LobbyTypeOK /\ ClientTypeOK /\ TakesOne(c)
      /\ \A d \in Clients \ {c} : upstream'[d] = upstream[d]
  BY <1>1, TakenFacts
<1>3. PICK m : m = [type |-> "Close", sender |-> c]
  OBVIOUS
<1>4. Added(m) /\ MailKept
  BY <1>2, <1>3, HandlerAdds DEF TakeCloseRoom
<1>5. Passes(c, m)
  BY <1>3 DEF Passes, Enters
<1>6. Takes(c, m)
  BY <1>1, <1>2, <1>4, <1>5 DEF Takes, OthersWait, RoomsKept, Running
<1> QED BY <1>6, TakesView

(***************************************************************************)
(* Only a client that is over closes its connection.                       *)
(***************************************************************************)
LEMMA TakePeerClosedView ==
    ASSUME IInv, IInv', OrderInv, ViewInv, NEW c \in Clients,
           TakePeerClosed(c), UNCHANGED api
    PROVE  ViewInv'
<1>1. /\ upstream[c] # << >> /\ Request(c).type = "PeerClosed"
      /\ upstream' = [upstream EXCEPT ![c] = << >>]
      /\ UNCHANGED <<lobby, online, downstream, api>>
  BY DEF TakePeerClosed, Requested
<1>2. /\ LobbyTypeOK /\ ClientTypeOK
      /\ Leaves(Request(c)) => Over(c)
  BY <1>1, TakenFacts
<1>3. PICK m : m = [type |-> "Disconnected", sender |-> c]
  OBVIOUS
<1>4. Added(m) /\ MailKept
  BY <1>2, <1>3, HandlerAdds DEF TakePeerClosed
<1>5. Passes(c, m)
  BY <1>3 DEF Passes, Enters
<1>6. /\ upstream'[c] = << >>
      /\ \A d \in Clients \ {c} : upstream'[d] = upstream[d]
  BY <1>1, <1>2 DEF ClientTypeOK
<1>7. Over(c)
  BY <1>1, <1>2 DEF Leaves
<1>8. Takes(c, m)
  BY <1>1, <1>4, <1>5, <1>6, <1>7
     DEF Takes, TakesOne, OthersWait, RoomsKept, Running
<1> QED BY <1>8, TakesView

(***************************************************************************)
(* So every step of a Client actor keeps the invariant.                    *)
(***************************************************************************)
LEMMA ClientActorView ==
    ASSUME WholeRequests, IInv, IInv', OrderInv, ViewInv, NEW c \in Clients,
           ClientActorStep(c), UNCHANGED api
    PROVE  ViewInv'
BY TakeCreateRoomView, TakeJoinRoomView, TakeEnvelopView, TakeCloseRoomView,
   TakePeerClosedView DEF ClientActorStep

-----------------------------------------------------------------------------
(***************************************************************************)
(* A step of the API of c touches nothing of the server, and nothing of    *)
(* the others.                                                             *)
(***************************************************************************)
Calls(c) ==
    /\ UNCHANGED <<lobby, mailbox>>
    /\ \A d \in Clients \ {c} :
        /\ api'[d] = api[d] /\ online'[d] = online[d]
        /\ upstream'[d] = upstream[d] /\ downstream'[d] = downstream[d]

(***************************************************************************)
(* So what remains to be seen is what becomes of c.                        *)
(***************************************************************************)
LEMMA CallView ==
    ASSUME IInv, IInv', ViewInv, NEW c \in Clients, Calls(c),
           AllowedApi(c)',
           \A i \in DOMAIN upstream'[c] : AllowedRequest(upstream'[c][i]),
           ClientView(c)'
    PROVE  ViewInv'
<1>1. ASSUME NEW d \in Clients \ {c} PROVE ClientView(d)'
  <2>1. CASE Over(d)
    BY <2>1 DEF ClientView, Over, Calls
  <2>2. CASE ~Over(d)
    <3>1. /\ Asked(d) /\ Life(d) /\ api'[d] = api[d]
          /\ upstream'[d] = upstream[d] /\ downstream'[d] = downstream[d]
          /\ UNCHANGED <<lobby, mailbox>>
      BY <2>2 DEF ViewInv, ClientView, Calls
    <3>2. Asked(d)' /\ (Settled(d) => Settled(d)')
      BY <3>1 DEF Asked, AskedUp, AskedMail, Settled, NoMail, Matches,
                  Blocked, Unstarted, NoStart
    <3>3. /\ \A k \in Lobbies : In(d, k)' => In(d, k)
          /\ \A k \in Lobbies : In(d, k) =>
               lobby'[k] = lobby[k] /\ (Telling(d, k) => Telling(d, k)')
      BY <3>1 DEF In, Running, Telling
    <3>4. Life(d)'
      BY <3>1, <3>2, <3>3, LifeKept
    <3> QED BY <3>2, <3>4 DEF ClientView
  <2> QED BY <2>1, <2>2
<1>2. Allowed'
  <2>1. \A d \in Clients : AllowedApi(d)'
    BY DEF Calls, ViewInv, Allowed, AllowedApi
  <2>2. \A d \in Clients : \A i \in DOMAIN upstream'[d] :
           AllowedRequest(upstream'[d][i])
    BY DEF Calls, ViewInv, Allowed
  <2> QED BY <2>1, <2>2 DEF Allowed, AllowedRequest, Enters
<1> QED BY <1>1, <1>2 DEF ViewInv

(***************************************************************************)
(* What is known of a client that is not over, before it does something.   *)
(***************************************************************************)
LEMMA CallFacts ==
    ASSUME IInv, OrderInv, ViewInv, NEW c \in Clients
    PROVE  /\ upstream[c] \in Seq(Requests)
           /\ downstream[c] \in Seq(Notes)
           /\ AllowedApi(c)
           /\ \A i \in DOMAIN upstream[c] : AllowedRequest(upstream[c][i])
           /\ api[c].mIsJoined => api[c].mMyRoom # Null
           /\ api[c].mIsJoined \/ Blocked(c) => ~Over(c)
           /\ ~Over(c) => Asked(c) /\ Life(c)
<1>1. /\ upstream[c] \in Seq(Requests) /\ downstream[c] \in Seq(Notes)
      /\ api[c].mIsJoined => api[c].mMyRoom # Null
  BY ApiOf DEF IInv, TypeOK, LobbyTypeOK, ClientTypeOK
<1>2. /\ AllowedApi(c)
      /\ \A i \in DOMAIN upstream[c] : AllowedRequest(upstream[c][i])
      /\ ~Over(c) => Asked(c) /\ Life(c)
  BY DEF ViewInv, Allowed, ClientView
<1>3. api[c].mIsJoined \/ Blocked(c) => ~Over(c)
  BY DEF OrderInv, ClientOrder, Idle, Blocked
<1> QED BY <1>1, <1>2, <1>3

(***************************************************************************)
(* A client that waits for nothing is where it takes itself to be, or has  *)
(* still to read that it is no longer there.                               *)
(***************************************************************************)
LEMMA AtEase ==
    ASSUME NEW c, Life(c), Returned(c)
    PROVE  /\ Settled(c)
           /\ api[c].mIsJoined => Told(c) \/ \E l \in Lobbies : Inside(c, l)
           /\ ~api[c].mIsJoined => Outside(c)
<1>1. CASE Outside(c)
  BY <1>1 DEF Outside, Returned, Blocked
<1>2. CASE Refused(c)
  BY <1>2 DEF Refused, Returned, Blocked
<1>3. CASE Told(c)
  BY <1>3 DEF Told, Joined
<1>4. CASE \E l \in Lobbies : Inside(c, l)
  BY <1>4 DEF Inside, Joined
<1> QED BY <1>1, <1>2, <1>3, <1>4 DEF Life

(***************************************************************************)
(* A request more.                                                         *)
(***************************************************************************)
LEMMA SentRequests ==
    ASSUME IInv, NEW c \in Clients, NEW r, Send(c, r)
    PROVE  /\ Len(upstream'[c]) \in DOMAIN upstream'[c]
           /\ upstream'[c][Len(upstream'[c])] = r
           /\ \A i \in DOMAIN upstream'[c] :
                \/ /\ i \in DOMAIN upstream[c]
                   /\ upstream'[c][i] = upstream[c][i]
                \/ i = Len(upstream'[c]) /\ upstream'[c][i] = r
           /\ \A d \in Clients \ {c} : upstream'[d] = upstream[d]
<1>1. PICK q, p : q = upstream[c] /\ p = upstream'[c]
  OBVIOUS
<1>2. /\ q \in Seq(Requests) /\ p = Append(q, r)
      /\ \A d \in Clients \ {c} : upstream'[d] = upstream[d]
  BY <1>1 DEF Send, IInv, TypeOK, ClientTypeOK
<1>3. /\ Len(q) \in Nat /\ Len(p) = Len(q) + 1
      /\ DOMAIN p = 1..(Len(q) + 1) /\ p[Len(q) + 1] = r
      /\ \A i \in DOMAIN p : \/ i \in DOMAIN q /\ p[i] = q[i]
                             \/ i = Len(q) + 1 /\ p[i] = r
  BY <1>2, AppendAt
<1>4. Len(p) \in DOMAIN p
  BY <1>3
<1> QED BY <1>1, <1>2, <1>3, <1>4

-----------------------------------------------------------------------------
(***************************************************************************)
(* createRoom and joinRoom: whoever calls them is outside, with nothing    *)
(* under way, a StartSession included.                                     *)
(***************************************************************************)
LEMMA AskView ==
    ASSUME IInv, IInv', OrderInv, ViewInv, NEW c \in Clients, ~Over(c),
           Returned(c), ~api[c].mIsJoined, NEW r, Asks(r), Send(c, r), NEW a,
           api' = [api EXCEPT ![c] = a], UnchangedButUpstream,
           a.call \in {"createRoom", "joinRoom"}, a.asked = r.name,
           r.type = "CreateRoom" <=> a.call = "createRoom",
           ~a.mIsJoined, ~a.left, AsksClean
    PROVE  ViewInv'
<1>1. /\ AllowedApi(c) /\ Outside(c) /\ Settled(c)
      /\ \A i \in DOMAIN upstream[c] : AllowedRequest(upstream[c][i])
  BY CallFacts, AtEase
<1>2. /\ Len(upstream'[c]) \in DOMAIN upstream'[c]
      /\ \A i \in DOMAIN upstream'[c] :
           \/ /\ i \in DOMAIN upstream[c]
              /\ upstream'[c][i] = upstream[c][i]
           \/ i = Len(upstream'[c]) /\ upstream'[c][i] = r
      /\ \A d \in Clients \ {c} : upstream'[d] = upstream[d]
  BY SentRequests
<1>3. /\ api'[c] = a /\ \A d \in Clients \ {c} : api'[d] = api[d]
      /\ UNCHANGED <<lobby, mailbox, online, downstream>>
  BY DEF IInv, TypeOK, UnchangedButUpstream
<1>4. Calls(c)
  BY <1>2, <1>3 DEF Calls
<1>5. Blocked(c)' /\ NoMail(c)' /\ ~Blocked(c)
  BY <1>1, <1>3 DEF Blocked, Settled, NoMail, Returned
<1>6. AllowedApi(c)'
  BY <1>1, <1>3 DEF AllowedApi, Returned
<1>7. \A i \in DOMAIN upstream'[c] : AllowedRequest(upstream'[c][i])
  BY <1>1, <1>2 DEF AllowedRequest, Asks
<1>8. NoStart(c) /\ downstream[c] = << >>
  <2>1. ~StartPending(c)
    BY <1>5 DEF AsksClean
  <2>2. \A i \in DOMAIN downstream[c] : FALSE
    BY <1>1, <2>1 DEF StartPending, Outside
  <2>3. PICK q \in Seq(Notes) : q = downstream[c]
    BY CallFacts
  <2>4. q = << >>
    <3>1. DOMAIN q = 1..Len(q) /\ Len(q) \in Nat
      BY <2>3
    <3>2. 1 \notin DOMAIN q
      BY <2>2, <2>3, Zenon
    <3> QED BY <2>3, <3>1, <3>2
  <2> QED BY <2>1, <2>3, <2>4 DEF StartPending
<1>9. AskedUp(c)'
  <2> SUFFICES ASSUME NEW i \in DOMAIN upstream'[c], Asks(upstream'[c][i])
               PROVE  /\ i = Len(upstream'[c])
                      /\ Matches(c, upstream[c][i], "CreateRoom")'
    BY <1>5 DEF AskedUp
  <2>1. i = Len(upstream'[c]) /\ upstream'[c][i] = r
    BY <1>1, <1>2 DEF Settled
  <2>2. Matches(c, r, "CreateRoom")'
    BY <1>3, <1>5 DEF Matches
  <2> QED BY <2>1, <2>2 DEF Matches
<1>10. AskedMail(c)'
  BY <1>5 DEF AskedMail, NoMail
<1>11. Outside(c)'
  BY <1>1, <1>3, <1>5, <1>8 DEF Outside, NoRoom, In, Running
<1>12. Unstarted(c)'
  <2>1. ~Starts(r)
    BY DEF Asks, Starts
  <2> QED BY <1>2, <1>3, <1>8, <2>1 DEF Unstarted, NoStart
<1>13. ClientView(c)'
  BY <1>9, <1>10, <1>11, <1>12 DEF ClientView, Asked, Life
<1> QED BY <1>4, <1>6, <1>7, <1>13, CallView

(***************************************************************************)
(* Lobby::createRoom, by a client that is in no room.                      *)
(***************************************************************************)
LEMMA CreateRoomView ==
    ASSUME Orderly, IInv, IInv', OrderInv, ViewInv, NEW c \in Clients,
           CreateRoom(c), AsksClean
    PROVE  ViewInv'
<1>1. PICK name \in Names, room \in RoomNames, limits \in Limits :
        /\ Send(c, [type |-> "CreateRoom", name |-> name, room |-> room,
                    limits |-> limits])
        /\ api' = [api EXCEPT ![c] = [Counted(c) EXCEPT
                      !.call = "createRoom", !.asked = name]]
  BY DEF CreateRoom
<1>2. PICK r, a : /\ r = [type |-> "CreateRoom", name |-> name,
                          room |-> room, limits |-> limits]
                  /\ a = [Counted(c) EXCEPT !.call = "createRoom",
                                            !.asked = name]
  OBVIOUS
<1>3. /\ Returned(c) /\ ~Over(c) /\ ~api[c].mIsJoined /\ ~api[c].left
      /\ UnchangedButUpstream /\ api[c] \in ApiState
  BY ApiOf DEF CreateRoom, MayCall, Orderly, Returned, Over
<1>4. a.call = "createRoom" /\ a.asked = name /\ ~a.mIsJoined /\ ~a.left
  BY <1>2, <1>3 DEF Counted, ApiState
<1>5. Asks(r) /\ r.type = "CreateRoom" /\ r.name = name
  BY <1>2 DEF Asks
<1> QED BY <1>1, <1>2, <1>3, <1>4, <1>5, AskView

(***************************************************************************)
(* Lobby::joinRoom.                                                        *)
(***************************************************************************)
LEMMA JoinRoomView ==
    ASSUME IInv, IInv', OrderInv, ViewInv, NEW c \in Clients, JoinRoom(c),
           AsksClean
    PROVE  ViewInv'
<1>1. PICK name \in Names, room \in RoomNames :
        /\ Send(c, [type |-> "JoinRoom", name |-> name, room |-> room])
        /\ api' = [api EXCEPT ![c] = [Counted(c) EXCEPT
                      !.call = "joinRoom", !.asked = name]]
  BY DEF JoinRoom
<1>2. PICK r, a : /\ r = [type |-> "JoinRoom", name |-> name, room |-> room]
                  /\ a = [Counted(c) EXCEPT !.call = "joinRoom",
                                            !.asked = name]
  OBVIOUS
<1>3. /\ Returned(c) /\ ~Over(c) /\ ~api[c].mIsJoined /\ ~api[c].left
      /\ UnchangedButUpstream /\ api[c] \in ApiState
  BY ApiOf DEF JoinRoom, MayCall, Returned, Over
<1>4. a.call = "joinRoom" /\ a.asked = name /\ ~a.mIsJoined /\ ~a.left
  BY <1>2, <1>3 DEF Counted, ApiState
<1>5. Asks(r) /\ r.type = "JoinRoom" /\ r.name = name
  BY <1>2 DEF Asks
<1> QED BY <1>1, <1>2, <1>3, <1>4, <1>5, AskView

-----------------------------------------------------------------------------
(***************************************************************************)
(* A call that only sends leaves the client where it is.                   *)
(***************************************************************************)
LEMMA LifeCounted ==
    ASSUME NEW c, Life(c), UNCHANGED <<lobby, mailbox>>, Settled(c)',
           downstream'[c] = downstream[c],
           api'[c].call = api[c].call, api'[c].asked = api[c].asked,
           api'[c].mIsJoined = api[c].mIsJoined,
           api'[c].mIsHost = api[c].mIsHost,
           api'[c].mMyRoom = api[c].mMyRoom,
           api'[c].mPlayerName = api[c].mPlayerName
    PROVE  Life(c)'
<1>1. /\ NoRoom(c) => NoRoom(c)'
      /\ Joined(c) <=> Joined(c)'
      /\ AnswerFirst(c) <=> AnswerFirst(c)'
      /\ Returned(c) <=> Returned(c)'
      /\ Blocked(c) <=> Blocked(c)'
  BY DEF NoRoom, In, Running, Joined, AnswerFirst, Returned, Blocked
<1>2. Outside(c) => Outside(c)'
  BY <1>1 DEF Outside
<1>3. Refused(c) => Refused(c)'
  BY <1>1 DEF Refused
<1>4. Told(c) => Told(c)'
  BY <1>1 DEF Told
<1>5. ASSUME NEW l \in Lobbies, Inside(c, l) PROVE Inside(c, l)'
  <2>1. Fresh(c, l)'
    BY <1>1, <1>5 DEF Inside, Fresh, Telling, LastSent, LastRead
  <2>2. Seated(c, l)'
    BY <1>1, <1>5 DEF Inside, Seated, Seat, Hosts, MyName
  <2>3. Running(l)' /\ \A k \in Lobbies : In(c, k)' => k = l
    BY <1>5 DEF Inside, Running, In
  <2> QED BY <1>1, <1>5, <2>1, <2>2, <2>3 DEF Inside
<1> QED BY <1>2, <1>3, <1>4, <1>5 DEF Life

(***************************************************************************)
(* The calls that send what needs no answer.                               *)
(***************************************************************************)
LEMMA SendView ==
    ASSUME IInv, IInv', OrderInv, ViewInv, NEW c \in Clients, Returned(c),
           NEW r, ~Asks(r), AllowedRequest(r), Send(c, r), Called(c),
           UnchangedButUpstream
    PROVE  ViewInv'
<1>1. /\ AllowedApi(c) /\ (~Over(c) => Asked(c) /\ Life(c))
      /\ \A i \in DOMAIN upstream[c] : AllowedRequest(upstream[c][i])
  BY CallFacts
<1>2. /\ \A i \in DOMAIN upstream'[c] :
           \/ /\ i \in DOMAIN upstream[c]
              /\ upstream'[c][i] = upstream[c][i]
           \/ upstream'[c][i] = r
      /\ \A d \in Clients \ {c} : upstream'[d] = upstream[d]
  BY SentRequests
<1>3. /\ api'[c] = Counted(c) /\ \A d \in Clients \ {c} : api'[d] = api[d]
      /\ UNCHANGED <<lobby, mailbox, online, downstream>>
  BY DEF IInv, TypeOK, UnchangedButUpstream, Called
<1>4. /\ api'[c].call = api[c].call /\ api'[c].asked = api[c].asked
      /\ api'[c].mIsJoined = api[c].mIsJoined
      /\ api'[c].mIsHost = api[c].mIsHost
      /\ api'[c].mMyRoom = api[c].mMyRoom
      /\ api'[c].mPlayerName = api[c].mPlayerName
      /\ api'[c].left = api[c].left
  <2>1. api[c] \in ApiState
    BY ApiOf
  <2> QED BY <1>3, <2>1 DEF Counted, ApiState
<1>5. Calls(c)
  BY <1>2, <1>3 DEF Calls
<1>6. Over(c)' <=> Over(c)
  BY <1>4 DEF Over
<1>7. AllowedApi(c)'
  BY <1>1, <1>3, <1>4 DEF AllowedApi
<1>8. \A i \in DOMAIN upstream'[c] : AllowedRequest(upstream'[c][i])
  BY <1>1, <1>2
<1>9. CASE Over(c)
  BY <1>5, <1>6, <1>7, <1>8, <1>9, CallView DEF ClientView
<1>10. CASE ~Over(c)
  <2>1. Settled(c)
    BY <1>1, <1>10, AtEase
  <2>2. Settled(c)'
    BY <1>2, <1>3, <2>1 DEF Settled, NoMail
  <2>3. Asked(c)'
    BY <1>4, <2>2 DEF Asked, AskedUp, AskedMail, Settled, NoMail, Unstarted,
                      Blocked, Returned
  <2>4. Life(c)'
    BY <1>1, <1>3, <1>4, <1>10, <2>2, LifeCounted
  <2>5. ClientView(c)'
    BY <2>3, <2>4 DEF ClientView
  <2> QED BY <1>5, <1>6, <1>7, <1>8, <2>5, CallView
<1> QED BY <1>9, <1>10

(***************************************************************************)
(* A message for the room.                                                 *)
(***************************************************************************)
LEMMA EnvelopView ==
    ASSUME IInv, IInv', OrderInv, ViewInv, NEW c \in Clients, Returned(c),
           NEW m, ~Enters(m), SendEnvelop(c, m), Called(c),
           UnchangedButUpstream
    PROVE  ViewInv'
<1>1. PICK r : r = [type |-> "Envelop", room |-> api[c].mMyRoom.name,
                    mail |-> m]
  OBVIOUS
<1>2. Send(c, r) /\ ~Asks(r) /\ AllowedRequest(r)
  BY <1>1 DEF SendEnvelop, Asks, AllowedRequest
<1> QED BY <1>2, SendView

(***************************************************************************)
(* None of them asks for a room.                                           *)
(***************************************************************************)
LEMMA CallsThatSend ==
    ASSUME IInv, IInv', OrderInv, ViewInv, NEW c \in Clients,
           \/ Reconfigure(c) \/ Eject(c) \/ CloseRoom(c) \/ StartSession(c)
           \/ Say(c)
    PROVE  ViewInv'
<1>1. CASE Reconfigure(c)
  <2>1. PICK limits \in Limits :
          SendEnvelop(c, [type |-> "Reconfigure", sender |-> c,
                          limits |-> limits])
    BY <1>1 DEF Reconfigure
  <2>2. PICK m : m = [type |-> "Reconfigure", sender |-> c,
                      limits |-> limits]
    OBVIOUS
  <2>3. ~Enters(m)
    BY <2>2 DEF Enters
  <2> QED BY <1>1, <2>1, <2>2, <2>3, EnvelopView
          DEF Reconfigure, MayCall, Returned
<1>2. CASE Eject(c)
  <2>1. PICK name \in Names :
          SendEnvelop(c, [type |-> "EjectPlayer", sender |-> c,
                          name |-> name])
    BY <1>2 DEF Eject
  <2>2. PICK m : m = [type |-> "EjectPlayer", sender |-> c, name |-> name]
    OBVIOUS
  <2>3. ~Enters(m)
    BY <2>2 DEF Enters
  <2> QED BY <1>2, <2>1, <2>2, <2>3, EnvelopView DEF Eject, MayCall, Returned
<1>3. CASE CloseRoom(c)
  <2>1. PICK r : r = [type |-> "CloseRoom"]
    OBVIOUS
  <2>2. ~Asks(r) /\ AllowedRequest(r)
    BY <2>1 DEF Asks, AllowedRequest
  <2> QED BY <1>3, <2>1, <2>2, SendView DEF CloseRoom, MayCall, Returned
<1>4. CASE StartSession(c)
  <2>1. PICK m : m = [type |-> "StartSession", sender |-> c]
    OBVIOUS
  <2>2. ~Enters(m)
    BY <2>1 DEF Enters
  <2> QED BY <1>4, <2>1, <2>2, EnvelopView
          DEF StartSession, MayCall, Returned
<1>5. CASE Say(c)
  <2>1. PICK toSelf \in BOOLEAN :
          SendEnvelop(c, [type |-> "Message", sender |-> c,
                          name |-> api[c].mPlayerName, toSelf |-> toSelf])
    BY <1>5 DEF Say
  <2>2. PICK m : m = [type |-> "Message", sender |-> c,
                      name |-> api[c].mPlayerName, toSelf |-> toSelf]
    OBVIOUS
  <2>3. ~Enters(m)
    BY <2>2 DEF Enters
  <2> QED BY <1>5, <2>1, <2>2, <2>3, EnvelopView DEF Say, MayCall, Returned
<1> QED BY <1>1, <1>2, <1>3, <1>4, <1>5

-----------------------------------------------------------------------------
(***************************************************************************)
(* A client that leaves, or is gone, is over.                              *)
(***************************************************************************)
LEMMA OverView ==
    ASSUME IInv, IInv', ViewInv, NEW c \in Clients, Calls(c), Over(c)',
           api'[c].call = "none" \/ ~api'[c].mIsJoined,
           api'[c].call # "destroyed" => online'[c],
           \A i \in DOMAIN upstream'[c] : AllowedRequest(upstream'[c][i])
    PROVE  ViewInv'
<1>1. AllowedApi(c)' /\ ClientView(c)'
  BY DEF AllowedApi, ClientView
<1> QED BY <1>1, CallView

(***************************************************************************)
(* Lobby::leaveRoom.                                                       *)
(***************************************************************************)
LEMMA LeaveRoomView ==
    ASSUME IInv, IInv', OrderInv, ViewInv, NEW c \in Clients, LeaveRoom(c)
    PROVE  ViewInv'
<1>1. PICK r, a :
        /\ r = [type |-> "Envelop", room |-> api[c].mMyRoom.name,
                mail |-> LeaveMail(c)]
        /\ a = [Counted(c) EXCEPT !.mIsJoined = FALSE, !.left = TRUE]
  OBVIOUS
<1>2. /\ Send(c, r) /\ UnchangedButUpstream /\ api[c].call = "none"
      /\ api' = [api EXCEPT ![c] = a] /\ api[c] \in ApiState
  BY <1>1, ApiOf DEF LeaveRoom, SendEnvelop, MayCall
<1>3. AllowedRequest(r)
  BY <1>1 DEF AllowedRequest, Enters, LeaveMail
<1>4. a.call = "none" /\ a.left
  BY <1>1, <1>2 DEF Counted, ApiState
<1>5. /\ api'[c] = a /\ \A d \in Clients \ {c} : api'[d] = api[d]
      /\ UNCHANGED <<lobby, mailbox, online, downstream>>
  BY <1>2 DEF IInv, TypeOK, UnchangedButUpstream
<1>6. /\ \A i \in DOMAIN upstream'[c] : AllowedRequest(upstream'[c][i])
      /\ \A d \in Clients \ {c} : upstream'[d] = upstream[d]
  BY <1>2, <1>3, CallFacts, SentRequests
<1>7. online'[c]
  BY <1>2, <1>5, CallFacts DEF AllowedApi
<1>8. Calls(c) /\ Over(c)'
  BY <1>4, <1>5, <1>6 DEF Calls, Over
<1> QED BY <1>4, <1>5, <1>6, <1>7, <1>8, OverView

(***************************************************************************)
(* The destructor and a crash: some requests, and allowed ones behind.     *)
(***************************************************************************)
LEMMA GoneView ==
    ASSUME IInv, IInv', OrderInv, ViewInv, NEW c \in Clients, Gone(c),
           \A i \in DOMAIN upstream'[c] : AllowedRequest(upstream'[c][i]),
           \A d \in Clients \ {c} : upstream'[d] = upstream[d]
    PROVE  ViewInv'
<1>1. /\ api'[c] = NewApi("destroyed")
      /\ \A d \in Clients \ {c} : api'[d] = api[d] /\ online'[d] = online[d]
      /\ \A d \in Clients \ {c} : downstream'[d] = downstream[d]
      /\ UNCHANGED <<lobby, mailbox>>
  BY DEF Gone, IInv, TypeOK, LobbyTypeOK
<1>2. api'[c].call = "destroyed" /\ ~api'[c].mIsJoined
  BY <1>1 DEF NewApi
<1>3. Calls(c) /\ Over(c)'
  BY <1>1, <1>2 DEF Calls, Over
<1> QED BY <1>2, <1>3, OverView

(***************************************************************************)
(* Sequences put together.                                                 *)
(***************************************************************************)
LEMMA JoinedSeqs ==
    ASSUME NEW S, NEW q \in Seq(S), NEW s \in Seq(S), NEW p, p = q \o s
    PROVE  \A i \in DOMAIN p : \/ \E j \in DOMAIN q : p[i] = q[j]
                               \/ \E j \in DOMAIN s : p[i] = s[j]
<1>1. /\ Len(q) \in Nat /\ Len(s) \in Nat
      /\ DOMAIN q = 1..Len(q) /\ DOMAIN s = 1..Len(s)
      /\ DOMAIN p = 1..(Len(q) + Len(s))
      /\ \A i \in 1..(Len(q) + Len(s)) :
            p[i] = IF i <= Len(q) THEN q[i] ELSE s[i - Len(q)]
  BY ConcatProperties
<1> SUFFICES ASSUME NEW i \in DOMAIN p
             PROVE  \/ \E j \in DOMAIN q : p[i] = q[j]
                    \/ \E j \in DOMAIN s : p[i] = s[j]
  OBVIOUS
<1>2. CASE i <= Len(q)
  <2>1. i \in DOMAIN q /\ p[i] = q[i]
    BY <1>1, <1>2
  <2> QED BY <2>1
<1>3. CASE ~(i <= Len(q))
  <2>1. i - Len(q) \in DOMAIN s /\ p[i] = s[i - Len(q)]
    BY <1>1, <1>3
  <2> QED BY <2>1
<1> QED BY <1>2, <1>3

(***************************************************************************)
(* The destructor.                                                         *)
(***************************************************************************)
LEMMA DestroyView ==
    ASSUME IInv, IInv', OrderInv, ViewInv, NEW c \in Clients, Destroy(c)
    PROVE  ViewInv'
<1>1. PICK q, p, x, y, leave :
        /\ q = upstream[c] /\ p = upstream'[c]
        /\ x = [type |-> "Envelop", room |-> api[c].mMyRoom.name,
                mail |-> LeaveMail(c)]
        /\ y = [type |-> "PeerClosed"]
        /\ leave = IF api[c].mIsJoined THEN <<x>> ELSE << >>
  OBVIOUS
<1>2. /\ Gone(c) /\ upstream \in [Clients -> Seq(Requests)]
      /\ upstream' = [upstream EXCEPT ![c] = @ \o leave \o <<y>>]
  BY <1>1 DEF Destroy, IInv, TypeOK, ClientTypeOK
<1>3. /\ q \in Seq(Requests) /\ p = (q \o leave) \o <<y>>
      /\ \A d \in Clients \ {c} : upstream'[d] = upstream[d]
  BY <1>1, <1>2
<1>4. AllowedRequest(x) /\ AllowedRequest(y) /\ y \in Requests
  BY <1>1 DEF AllowedRequest, Enters, LeaveMail, Requests
<1>5. leave \in Seq(Requests)
  <2>1. CASE api[c].mIsJoined
    <3>1. api[c].mMyRoom # Null /\ LeaveMail(c) \in Mail
      BY <2>1, ApiOf DEF LeaveMail, Mail
    <3>2. x \in Requests
      BY <1>1, <3>1, EnvelopType
    <3> QED BY <1>1, <2>1, <3>2
  <2>2. CASE ~api[c].mIsJoined
    BY <1>1, <2>2
  <2> QED BY <2>1, <2>2
<1>6. \A j \in DOMAIN leave : leave[j] = x
  <2>1. \A j \in DOMAIN <<x>> : <<x>>[j] = x
    OBVIOUS
  <2>2. leave = <<x>> \/ leave = << >>
    BY <1>1
  <2> QED BY <2>1, <2>2
<1>7. PICK s : s = q \o leave /\ s \in Seq(Requests)
  BY <1>3, <1>5, ConcatProperties
<1>8. /\ <<y>> \in Seq(Requests) /\ p = s \o <<y>>
      /\ \A j \in DOMAIN <<y>> : <<y>>[j] = y
  BY <1>3, <1>4, <1>7
<1>9. \A i \in DOMAIN s : AllowedRequest(s[i])
  <2>1. \A i \in DOMAIN q : AllowedRequest(q[i])
    BY <1>1, CallFacts
  <2> QED BY <1>3, <1>4, <1>5, <1>6, <1>7, <2>1, JoinedSeqs
<1>10. \A i \in DOMAIN p : AllowedRequest(p[i])
  BY <1>4, <1>7, <1>8, <1>9, JoinedSeqs
<1> QED BY <1>1, <1>2, <1>3, <1>10, GoneView

(***************************************************************************)
(* A crash.                                                                *)
(***************************************************************************)
LEMMA ConnectionLostView ==
    ASSUME IInv, IInv', OrderInv, ViewInv, NEW c \in Clients,
           ConnectionLost(c)
    PROVE  ViewInv'
<1>1. PICK q, p, y : /\ q = upstream[c] /\ p = upstream'[c]
                     /\ y = [type |-> "PeerClosed"]
  OBVIOUS
<1>2. PICK n \in 0..Len(q) :
        upstream' = [upstream EXCEPT ![c] = SubSeq(@, 1, n) \o <<y>>]
  BY <1>1 DEF ConnectionLost
<1>3. PICK s : s = SubSeq(q, 1, n)
  OBVIOUS
<1>4. /\ q \in Seq(Requests) /\ p = s \o <<y>>
      /\ \A d \in Clients \ {c} : upstream'[d] = upstream[d]
  BY <1>1, <1>2, <1>3 DEF IInv, TypeOK, ClientTypeOK
<1>5. /\ s \in Seq(Requests)
      /\ \A i \in DOMAIN s : i \in DOMAIN q /\ s[i] = q[i]
  BY <1>3, <1>4
<1>6. AllowedRequest(y) /\ y \in Requests
  BY <1>1 DEF AllowedRequest, Requests
<1>7. <<y>> \in Seq(Requests) /\ \A j \in DOMAIN <<y>> : <<y>>[j] = y
  BY <1>6
<1>8. \A i \in DOMAIN s : AllowedRequest(s[i])
  BY <1>1, <1>5, CallFacts
<1>9. \A i \in DOMAIN p : AllowedRequest(p[i])
  BY <1>4, <1>5, <1>6, <1>7, <1>8, JoinedSeqs
<1> QED BY <1>1, <1>4, <1>9, GoneView DEF ConnectionLost

-----------------------------------------------------------------------------
(***************************************************************************)
(* A read takes the first message, and no other one (MaxRead = 1).         *)
(***************************************************************************)
ReadsFirst(c) ==
    /\ 1 \in DOMAIN downstream[c]
    /\ Len(downstream[c]) \in Nat
    /\ Len(downstream'[c]) = Len(downstream[c]) - 1
    /\ \A i \in DOMAIN downstream'[c] :
        /\ i \in Nat \ {0}
        /\ i + 1 \in DOMAIN downstream[c]
        /\ downstream'[c][i] = downstream[c][i + 1]
    /\ \A i \in DOMAIN downstream[c] :
        \/ i = 1
        \/ /\ i \in Nat
           /\ i - 1 \in DOMAIN downstream'[c]
           /\ downstream'[c][i - 1] = downstream[c][i]

(***************************************************************************)
(* What Reads makes of the socket.                                         *)
(***************************************************************************)
LEMMA ReadOne ==
    ASSUME IInv, Orderly, NEW c \in Clients, downstream[c] # << >>,
           \E n \in 1..MaxRead : Reads(c, n)
    PROVE  /\ ReadsFirst(c)
           /\ Head(downstream[c]) = downstream[c][1]
           /\ Head(downstream[c]) \in Notes
           /\ \A d \in Clients \ {c} : downstream'[d] = downstream[d]
           /\ Len(downstream[c]) = 1 => downstream'[c] = << >>
           /\ Len(downstream[c]) # 1 => downstream'[c] # << >>
<1>1. PICK q, p : q = downstream[c] /\ p = downstream'[c]
  OBVIOUS
<1>2. 1..MaxRead = {1}
  BY DEF Orderly
<1>3. Reads(c, 1) /\ 1 \in 1..MaxRead
  BY <1>2
<1>4. /\ q \in Seq(Notes) /\ q # << >> /\ Head(q) \in Notes
      /\ p = SubSeq(q, 2, Len(q))
      /\ \A d \in Clients \ {c} : downstream'[d] = downstream[d]
  BY <1>1, <1>3, ReadsType DEF IInv, TypeOK, LobbyTypeOK, Reads
<1>5. /\ Len(q) \in Nat /\ Len(q) # 0 /\ DOMAIN q = 1..Len(q)
      /\ Head(q) = q[1]
  BY <1>4
<1>6. /\ p \in Seq(Notes) /\ Len(p) = Len(q) - 1
      /\ DOMAIN p = 1..(Len(q) - 1)
      /\ \A i \in 1..(Len(q) - 1) : p[i] = q[i + 1]
  BY <1>4, <1>5
<1>7. /\ Len(q) = 1 => p = << >>
      /\ Len(q) # 1 => p # << >>
  BY <1>6
<1>8. \A i \in DOMAIN p : /\ i \in Nat \ {0}
                          /\ i + 1 \in DOMAIN q
                          /\ p[i] = q[i + 1]
  BY <1>5, <1>6
<1>9. ASSUME NEW i \in DOMAIN q, i # 1
      PROVE  i \in Nat /\ i - 1 \in DOMAIN p /\ p[i - 1] = q[i]
  <2>1. i \in Nat /\ i - 1 \in 1..(Len(q) - 1) /\ (i - 1) + 1 = i
    BY <1>5, <1>9
  <2> QED BY <1>6, <2>1
<1>10. ReadsFirst(c)
  BY <1>1, <1>5, <1>6, <1>8, <1>9 DEF ReadsFirst
<1> QED BY <1>1, <1>4, <1>5, <1>7, <1>10

(***************************************************************************)
(* A client in a room reads: the room it sees is that of the last message  *)
(* that carried one.                                                       *)
(***************************************************************************)
LEMMA ReadInside ==
    ASSUME NEW c, NEW l, Inside(c, l), UNCHANGED <<lobby, mailbox>>,
           Settled(c)', ReadsFirst(c), Returned(c)', api'[c].mIsJoined,
           api'[c].mIsHost = Hosts(c), api'[c].mPlayerName = MyName(c),
           \/ /\ Carries(downstream[c][1])
              /\ api'[c].mMyRoom = downstream[c][1].room
           \/ /\ ~Carries(downstream[c][1])
              /\ Returned(c)
              /\ api'[c].mMyRoom = api[c].mMyRoom
    PROVE  Inside(c, l)'
<1>1. PICK q, p, info : /\ q = downstream[c] /\ p = downstream'[c]
                        /\ info = MakeRoomInfo(lobby[l])
  OBVIOUS
<1>2. /\ 1 \in DOMAIN q
      /\ \A i \in DOMAIN p : /\ i \in Nat \ {0}
                             /\ i + 1 \in DOMAIN q
                             /\ p[i] = q[i + 1]
      /\ \A i \in DOMAIN q :
           \/ i = 1
           \/ i \in Nat /\ i - 1 \in DOMAIN p /\ p[i - 1] = q[i]
  BY <1>1 DEF ReadsFirst
<1>3. /\ \A i \in DOMAIN q : Heard(q[i], lobby[l].name)
      /\ \A i \in DOMAIN q : q[i].type = "RoomInfo" => i = 1
      /\ Returned(c) => api[c].mMyRoom.name = lobby[l].name
  BY <1>1 DEF Inside, AnswerFirst
<1>4. \A i \in DOMAIN p : Heard(p[i], lobby[l].name)
  BY <1>2, <1>3
<1>5. AnswerFirst(c)'
  <2>1. \A i \in DOMAIN p : p[i].type # "RoomInfo"
    BY <1>2, <1>3
  <2> QED BY <1>1, <2>1 DEF AnswerFirst
<1>6. api'[c].mMyRoom.name = lobby[l].name
  BY <1>1, <1>2, <1>3 DEF Heard
<1>7. Fresh(c, l)'
  <2>1. CASE Telling(c, l)
    BY <2>1 DEF Fresh, Telling
  <2>2. CASE LastSent(c, info)
    <3>1. PICK i \in DOMAIN q : /\ Carries(q[i]) /\ q[i].room = info
                                /\ \A j \in DOMAIN q : Carries(q[j]) => j <= i
      BY <1>1, <2>2 DEF LastSent
    <3>2. \A j \in DOMAIN p : Carries(p[j]) => j + 1 <= i
      BY <1>2, <3>1
    <3>3. CASE i = 1
      <4>1. \A j \in DOMAIN p : ~Carries(p[j])
        BY <1>2, <3>2, <3>3
      <4>2. api'[c].mMyRoom = info
        BY <1>1, <3>1, <3>3
      <4>3. LastRead(c, MakeRoomInfo(lobby[l]))'
        BY <1>1, <4>1, <4>2 DEF LastRead
      <4> QED BY <4>3 DEF Fresh
    <3>4. CASE i # 1
      <4>1. /\ i \in Nat /\ i - 1 \in DOMAIN p
            /\ Carries(p[i - 1]) /\ p[i - 1].room = info
        BY <1>2, <3>1, <3>4
      <4>2. \A j \in DOMAIN p : Carries(p[j]) => j <= i - 1
        BY <1>2, <3>2, <4>1
      <4>3. LastSent(c, MakeRoomInfo(lobby[l]))'
        BY <1>1, <4>1, <4>2 DEF LastSent
      <4> QED BY <4>3 DEF Fresh
    <3> QED BY <3>3, <3>4
  <2>3. CASE LastRead(c, info)
    <3>1. /\ Returned(c) /\ api[c].mMyRoom = info
          /\ \A j \in DOMAIN q : ~Carries(q[j])
      BY <1>1, <2>3 DEF LastRead
    <3>2. api'[c].mMyRoom = info /\ \A j \in DOMAIN p : ~Carries(p[j])
      BY <1>1, <1>2, <3>1
    <3>3. LastRead(c, MakeRoomInfo(lobby[l]))'
      BY <1>1, <3>2 DEF LastRead
    <3> QED BY <3>3 DEF Fresh
  <2> QED BY <1>1, <2>1, <2>2, <2>3 DEF Inside, Fresh
<1>8. Seated(c, l)'
  <2>1. MyName(c)' = MyName(c) /\ (Hosts(c)' <=> Hosts(c))
    BY DEF MyName, Hosts
  <2> QED BY <2>1 DEF Inside, Seated, Seat
<1>9. /\ Running(l)' /\ Joined(c)'
      /\ \A k \in Lobbies : In(c, k)' => k = l
  BY DEF Inside, Running, In, Joined
<1> QED BY <1>1, <1>4, <1>5, <1>6, <1>7, <1>8, <1>9 DEF Inside

(***************************************************************************)
(* A client that was put out reads what is before the Ejected.             *)
(***************************************************************************)
LEMMA ReadTold ==
    ASSUME NEW c, Told(c), UNCHANGED lobby, Settled(c)', ReadsFirst(c),
           Returned(c)', api'[c].mIsJoined,
           downstream[c][1].type # "Ejected"
    PROVE  Told(c)'
<1>1. PICK q, p : q = downstream[c] /\ p = downstream'[c]
  OBVIOUS
<1>2. /\ \A i \in DOMAIN p : /\ i \in Nat \ {0}
                             /\ i + 1 \in DOMAIN q
                             /\ p[i] = q[i + 1]
      /\ \A i \in DOMAIN q :
           \/ i = 1
           \/ i \in Nat /\ i - 1 \in DOMAIN p /\ p[i - 1] = q[i]
  BY <1>1 DEF ReadsFirst
<1>3. \A i \in DOMAIN q : q[i].type = "RoomInfo" => i = 1
  BY <1>1 DEF Told, AnswerFirst
<1>4. PICK e \in DOMAIN q : \A i \in DOMAIN q :
        /\ q[i].type = "Ejected" <=> i = e
        /\ i > e => q[i].type = "SUCK"
  BY <1>1 DEF Told
<1>5. e \in Nat /\ e - 1 \in DOMAIN p
  BY <1>1, <1>2, <1>4
<1>6. ASSUME NEW i \in DOMAIN p
      PROVE  /\ p[i].type = "Ejected" <=> i = e - 1
             /\ i > e - 1 => p[i].type = "SUCK"
             /\ p[i].type # "RoomInfo"
  <2>1. i \in Nat \ {0} /\ i + 1 \in DOMAIN q /\ p[i] = q[i + 1]
    BY <1>2
  <2> QED BY <1>3, <1>4, <1>5, <2>1
<1>7. Joined(c)' /\ NoRoom(c)'
  BY DEF Told, Joined, NoRoom, In, Running
<1>8. AnswerFirst(c)'
  BY <1>1, <1>6 DEF AnswerFirst
<1> QED BY <1>1, <1>5, <1>6, <1>7, <1>8 DEF Told

(***************************************************************************)
(* What the steps that only read have in common.                           *)
(***************************************************************************)
LEMMA ReadView ==
    ASSUME IInv, IInv', OrderInv, ViewInv, NEW c \in Clients, ~Over(c),
           UNCHANGED <<lobby, mailbox, online, upstream>>,
           \A d \in Clients \ {c} : downstream'[d] = downstream[d], NEW a,
           api' = [api EXCEPT ![c] = a], a.call = "none",
           Settled(c), Life(c)'
    PROVE  ViewInv'
<1>1. /\ AllowedApi(c) /\ Asked(c)
      /\ \A i \in DOMAIN upstream[c] : AllowedRequest(upstream[c][i])
  BY CallFacts
<1>2. api'[c] = a /\ \A d \in Clients \ {c} : api'[d] = api[d]
  BY DEF IInv, TypeOK
<1>3. Calls(c)
  BY <1>2 DEF Calls
<1>4. AllowedApi(c)' /\ ~Blocked(c)'
  BY <1>1, <1>2 DEF AllowedApi, Blocked, Over
<1>5. Asked(c)'
  BY <1>4 DEF Asked, AskedUp, AskedMail, Settled, NoMail, Unstarted
<1>6. ClientView(c)'
  BY <1>5 DEF ClientView
<1> QED BY <1>1, <1>3, <1>4, <1>6, CallView

(***************************************************************************)
(* createRoom or joinRoom returns: what comes is the answer.               *)
(***************************************************************************)
LEMMA AnsweredView ==
    ASSUME Orderly, IInv, IInv', OrderInv, ViewInv, NEW c \in Clients,
           Answered(c)
    PROVE  ViewInv'
<1>1. PICK note, back : /\ note = Head(downstream[c])
                        /\ back = [api[c] EXCEPT !.call = "none",
                                                 !.asked = Null]
  OBVIOUS
<1>2. /\ Blocked(c) /\ downstream[c] # << >>
      /\ \E n \in 1..MaxRead : Reads(c, n)
      /\ UNCHANGED <<m_lobbies, lobby, mailbox, online, upstream>>
  BY DEF Answered, Blocked
<1>3. PICK a :
        /\ api' = [api EXCEPT ![c] = a]
        /\ \/ /\ note.type = "RoomInfo"
              /\ a = [back EXCEPT !.mMyRoom = note.room,
                                  !.mPlayerName = api[c].asked,
                                  !.mIsJoined = TRUE,
                                  !.mIsHost = (api[c].call = "createRoom")]
           \/ note.type # "RoomInfo" /\ a = back
  BY <1>1 DEF Answered
<1>4. /\ ~Over(c) /\ AllowedApi(c) /\ Life(c)
      /\ ~Returned(c) /\ ~api[c].mIsJoined
      /\ api[c] \in ApiState
  BY <1>2, CallFacts, ApiOf DEF AllowedApi, Returned, Blocked
<1>5. /\ ReadsFirst(c) /\ note = downstream[c][1] /\ note \in Notes
      /\ \A d \in Clients \ {c} : downstream'[d] = downstream[d]
      /\ Len(downstream[c]) = 1 => downstream'[c] = << >>
      /\ Len(downstream[c]) # 1 => downstream'[c] # << >>
  BY <1>1, <1>2, ReadOne
<1>6. /\ a.call = "none"
      /\ note.type = "RoomInfo" =>
           /\ a.mIsJoined /\ a.mMyRoom = note.room
           /\ a.mPlayerName = api[c].asked
           /\ a.mIsHost = (api[c].call = "createRoom")
      /\ note.type # "RoomInfo" =>
           ~a.mIsJoined /\ a.mMyRoom = api[c].mMyRoom
  BY <1>1, <1>3, <1>4 DEF ApiState
<1>7. api'[c] = a /\ Returned(c)'
  BY <1>3, <1>6 DEF Returned, IInv, TypeOK
<1>9. Settled(c) /\ Life(c)'
  <2>1. ~Outside(c)
    BY <1>2 DEF Outside
  <2>2. ASSUME Refused(c) PROVE Settled(c) /\ Life(c)'
    <3>1. PICK n : downstream[c] = <<n>> /\ n.type # "RoomInfo"
      BY <2>2 DEF Refused
    <3>2. downstream'[c] = << >> /\ note.type # "RoomInfo"
      BY <1>5, <3>1
    <3>3. NoRoom(c)' /\ Settled(c)'
      BY <1>2, <2>2 DEF Refused, NoRoom, In, Running, Settled, NoMail
    <3>4. Outside(c)'
      BY <1>6, <1>7, <3>2, <3>3 DEF Outside, Blocked, Returned
    <3> QED BY <2>2, <3>4 DEF Refused, Life
  <2>3. ASSUME Told(c) PROVE Settled(c) /\ Life(c)'
    <3>1. note.type = "RoomInfo"
      BY <1>4, <1>5, <2>3 DEF Told, Joined
    <3>3. Settled(c)'
      BY <1>2, <2>3 DEF Told, Settled, NoMail
    <3>4. Told(c)'
      BY <1>2, <1>5, <1>6, <1>7, <2>3, <3>1, <3>3, ReadTold
    <3> QED BY <2>3, <3>4 DEF Told, Life
  <2>4. ASSUME NEW l \in Lobbies, Inside(c, l)
        PROVE  Settled(c) /\ Life(c)'
    <3>1. note.type = "RoomInfo"
      BY <1>4, <1>5, <2>4 DEF Inside, Joined
    <3>2. Settled(c)'
      BY <1>2, <2>4 DEF Inside, Settled, NoMail
    <3>3. a.mIsHost = Hosts(c) /\ a.mPlayerName = MyName(c)
      BY <1>4, <1>6, <3>1 DEF Hosts, MyName
    <3>4. Carries(downstream[c][1]) /\ a.mMyRoom = downstream[c][1].room
      BY <1>5, <1>6, <3>1 DEF Carries
    <3>5. Inside(c, l)'
      BY <1>2, <1>5, <1>6, <1>7, <2>4, <3>1, <3>2, <3>3, <3>4, ReadInside
    <3> QED BY <2>4, <3>5 DEF Inside, Life
  <2> QED BY <1>4, <2>1, <2>2, <2>3, <2>4 DEF Life
<1> QED BY <1>2, <1>3, <1>4, <1>5, <1>6, <1>9, ReadView

(***************************************************************************)
(* No answer will ever come: nothing is under way.                         *)
(***************************************************************************)
LEMMA TimedOutView ==
    ASSUME Orderly, IInv, IInv', OrderInv, ViewInv, NEW c \in Clients,
           TimedOut(c)
    PROVE  ViewInv'
<1>1. PICK a : a = [api[c] EXCEPT !.call = "none", !.asked = Null]
  OBVIOUS
<1>2. /\ Blocked(c) /\ downstream[c] = << >> /\ NoAnswerComing(c)
      /\ api' = [api EXCEPT ![c].call = "none", ![c].asked = Null]
      /\ UNCHANGED <<m_lobbies, lobby, mailbox, online, downstream,
                     upstream>>
  BY DEF TimedOut, Blocked, Orderly
<1>3. /\ ~Over(c) /\ AllowedApi(c) /\ Life(c)
      /\ ~api[c].mIsJoined /\ api[c] \in ApiState
  BY <1>2, CallFacts, ApiOf DEF AllowedApi, Blocked
<1>4. /\ a.call = "none" /\ ~a.mIsJoined /\ a.mMyRoom = api[c].mMyRoom
      /\ api' = [api EXCEPT ![c] = a] /\ api'[c] = a
  BY <1>1, <1>2, <1>3 DEF ApiState, IInv, TypeOK
<1>5. Settled(c)
  BY <1>2 DEF NoAnswerComing, Settled, NoMail, Entering, Enters
<1>6. Outside(c)
  BY <1>2, <1>3
     DEF Life, Refused, Told, Inside, Joined, Returned, Blocked
<1>7. Outside(c)'
  BY <1>2, <1>4, <1>5, <1>6
     DEF Outside, NoRoom, In, Running, Settled, NoMail, Blocked
<1>9. Life(c)'
  BY <1>7 DEF Life
<1> QED BY <1>2, <1>3, <1>4, <1>5, <1>9, ReadView

(***************************************************************************)
(* One message that a joined client reads.                                 *)
(***************************************************************************)
LEMMA ReceiveView ==
    ASSUME Orderly, IInv, IInv', OrderInv, ViewInv, NEW c \in Clients,
           Receive(c)
    PROVE  ViewInv'
<1>1. PICK note : note = Head(downstream[c])
  OBVIOUS
<1>2. /\ Returned(c) /\ api[c].mIsJoined /\ downstream[c] # << >>
      /\ \E n \in 1..MaxRead : Reads(c, n)
      /\ UNCHANGED <<m_lobbies, lobby, mailbox, online, upstream>>
  BY DEF Receive, Returned
<1>3. /\ ~Over(c) /\ AllowedApi(c) /\ Life(c)
      /\ api[c] \in ApiState /\ api \in [Clients -> ApiState]
  BY <1>2, CallFacts, ApiOf DEF IInv, TypeOK
<1>4. PICK a :
        /\ api' = [api EXCEPT ![c] = a]
        /\ a = api'[c]
        /\ \/ /\ note.type \in {"Update", "ReconfigureSucc"}
              /\ a = [api[c] EXCEPT !.mMyRoom = note.room]
           \/ /\ note.type = "Ejected"
              /\ a = [api[c] EXCEPT !.mIsJoined = FALSE]
           \/ /\ note.type \notin {"Update", "ReconfigureSucc", "Ejected"}
              /\ a = api[c]
  <2>1. CASE /\ note.type \in {"Update", "ReconfigureSucc"}
             /\ api' = [api EXCEPT ![c].mMyRoom = note.room]
    BY <1>3, <2>1
  <2>2. CASE /\ note.type = "Ejected"
             /\ api' = [api EXCEPT ![c].mIsJoined = FALSE]
    BY <1>3, <2>2
  <2>3. CASE /\ note.type \notin {"Update", "ReconfigureSucc", "Ejected"}
             /\ UNCHANGED api
    BY <1>3, <2>3
  <2> QED BY <1>1, <2>1, <2>2, <2>3 DEF Receive
<1>5. /\ ReadsFirst(c) /\ note = downstream[c][1] /\ note \in Notes
      /\ \A d \in Clients \ {c} : downstream'[d] = downstream[d]
      /\ Len(downstream[c]) = 1 => downstream'[c] = << >>
      /\ Len(downstream[c]) # 1 => downstream'[c] # << >>
  BY <1>1, <1>2, ReadOne
<1>6. /\ a.call = "none" /\ a.mIsHost = api[c].mIsHost
      /\ a.mPlayerName = api[c].mPlayerName
      /\ a.mIsJoined <=> note.type # "Ejected"
      /\ note.type \in {"Update", "ReconfigureSucc"} =>
           a.mMyRoom = note.room
      /\ note.type \notin {"Update", "ReconfigureSucc"} =>
           a.mMyRoom = api[c].mMyRoom
  BY <1>2, <1>3, <1>4 DEF ApiState, Returned
<1>7. Returned(c)'
  BY <1>4, <1>6 DEF Returned
<1>9. Settled(c) /\ Settled(c)'
  BY <1>2, <1>3, AtEase DEF Settled, NoMail
<1>10. ASSUME Told(c) PROVE Life(c)'
  <2>1. CASE note.type = "Ejected"
    <3>1. PICK e \in DOMAIN downstream[c] : \A i \in DOMAIN downstream[c] :
            /\ downstream[c][i].type = "Ejected" <=> i = e
            /\ i > e => downstream[c][i].type = "SUCK"
      BY <1>10 DEF Told
    <3>2. e = 1
      BY <1>5, <2>1, <3>1 DEF ReadsFirst
    <3>3. \A i \in DOMAIN downstream'[c] : downstream'[c][i].type = "SUCK"
      BY <1>5, <3>1, <3>2 DEF ReadsFirst
    <3>4. NoRoom(c)' /\ ~Blocked(c)'
      BY <1>2, <1>7, <1>10
         DEF Told, NoRoom, In, Running, Blocked, Returned
    <3>5. Outside(c)'
      BY <1>4, <1>6, <1>9, <2>1, <3>3, <3>4 DEF Outside
    <3> QED BY <3>5 DEF Life
  <2>2. CASE note.type # "Ejected"
    <3>1. Told(c)'
      BY <1>2, <1>4, <1>5, <1>6, <1>7, <1>9, <1>10, <2>2, ReadTold
    <3> QED BY <3>1 DEF Life
  <2> QED BY <2>1, <2>2
<1>11. ASSUME NEW l \in Lobbies, Inside(c, l)
       PROVE  Life(c)'
  <2>1. note.type # "Ejected" /\ note.type # "RoomInfo"
    BY <1>2, <1>5, <1>11 DEF Inside, Heard, AnswerFirst, ReadsFirst
  <2>2. Inside(c, l)'
    BY <1>2, <1>4, <1>5, <1>6, <1>7, <1>9, <1>11, <2>1, ReadInside
       DEF Hosts, MyName, Carries
  <2> QED BY <2>2 DEF Life
<1>12. Life(c)'
  BY <1>2, <1>3, <1>10, <1>11, AtEase
<1> QED BY <1>2, <1>3, <1>4, <1>5, <1>6, <1>9, <1>12, ReadView

(***************************************************************************)
(* So every call of the API keeps the invariant.                           *)
(***************************************************************************)
LEMMA ApiView ==
    ASSUME Orderly, IInv, IInv', OrderInv, ViewInv, NEW c \in Clients,
           ApiStep(c), AsksClean
    PROVE  ViewInv'
BY CreateRoomView, JoinRoomView, AnsweredView, TimedOutView, CallsThatSend,
   LeaveRoomView, ReceiveView, DestroyView, ConnectionLostView DEF ApiStep

-----------------------------------------------------------------------------
(***************************************************************************)
(* Every step keeps it.                                                    *)
(***************************************************************************)
LEMMA StepView ==
    ASSUME Orderly, IInv, OrderInv, ViewInv, [Next]_vars, [AsksClean]_vars
    PROVE  ViewInv'
<1>1. IInv'
  BY NextSound
<1>2. CASE UNCHANGED vars
  <2>1. Allowed'
    BY <1>2 DEF vars, ViewInv, Allowed, AllowedRequest, AllowedApi, Enters
  <2>2. ASSUME NEW c \in Clients PROVE ClientView(c)'
    <3>1. CASE Over(c)
      BY <1>2, <3>1 DEF vars, ClientView, Over
    <3>2. CASE ~Over(c)
      <4>1. /\ Asked(c) /\ Life(c)
            /\ UNCHANGED <<lobby, mailbox, upstream, downstream, api>>
        BY <1>2, <3>2 DEF vars, ViewInv, ClientView
      <4>2. Asked(c)' /\ (Settled(c) => Settled(c)')
        BY <4>1 DEF Asked, AskedUp, AskedMail, Settled, NoMail, Matches,
                    Blocked, Unstarted, NoStart
      <4>3. /\ \A k \in Lobbies : In(c, k)' => In(c, k)
            /\ \A k \in Lobbies : In(c, k) =>
                 lobby'[k] = lobby[k] /\ (Telling(c, k) => Telling(c, k)')
        BY <4>1 DEF In, Running, Telling
      <4>4. Life(c)'
        BY <4>1, <4>2, <4>3, LifeKept
      <4> QED BY <4>2, <4>4 DEF ClientView
    <3> QED BY <3>1, <3>2
  <2> QED BY <2>1, <2>2 DEF ViewInv
<1>3. ASSUME NEW c \in Clients, ApiStep(c), AsksClean PROVE ViewInv'
  BY <1>1, <1>3, ApiView
<1>4. CASE \E c \in Clients : ServerClientStep(c)
  BY <1>1, <1>4, ClientActorView DEF ServerClientStep, Orderly
<1>5. CASE \E l \in Lobbies : ServerLobbyStep(l)
  BY <1>1, <1>5, LobbyActorView DEF ServerLobbyStep
<1> QED BY <1>2, <1>3, <1>4, <1>5 DEF Next

(***************************************************************************)
(* At the start everybody is outside.                                      *)
(***************************************************************************)
LEMMA InitView == Init => ViewInv
<1> SUFFICES ASSUME Init PROVE ViewInv
  OBVIOUS
<1>1. /\ \A l \in Lobbies : mailbox[l] = << >> /\ ~Running(l)
      /\ \A c \in Clients : upstream[c] = << >> /\ downstream[c] = << >>
      /\ \A c \in Clients : online[c] /\ api[c] = NewApi("none")
  BY DEF Init, LobbyInit, ClientInit, Running, Unborn
<1>2. \A c \in Clients :
         /\ api[c].call = "none" /\ ~api[c].mIsJoined
         /\ api[c].mMyRoom = Null
  BY <1>1 DEF NewApi
<1>3. Allowed
  BY <1>1, <1>2 DEF Allowed, AllowedApi
<1>4. ASSUME NEW c \in Clients PROVE ClientView(c)
  <2>1. NoMail(c) /\ Settled(c) /\ NoRoom(c)
    BY <1>1 DEF NoMail, Settled, NoRoom, In
  <2>2. Asked(c)
    BY <1>1 DEF Asked, AskedUp, AskedMail, Unstarted, NoStart
  <2>3. Outside(c)
    BY <1>1, <1>2, <2>1 DEF Outside
  <2> QED BY <2>2, <2>3 DEF ClientView, Life
<1> QED BY <1>3, <1>4 DEF ViewInv

(***************************************************************************)
(* So it always holds.                                                     *)
(***************************************************************************)
LEMMA AlwaysView ==
    ASSUME Orderly
    PROVE  Spec /\ EntersClean => [](IInv /\ OrderInv /\ ViewInv)
<1>1. Init => OrderInv /\ ViewInv
  BY InitOrder, InitView
<1>2. IInv /\ OrderInv /\ ViewInv /\ [Next]_vars /\ [AsksClean]_vars
      => OrderInv' /\ ViewInv'
  BY StepOrder, StepView DEF Orderly
<1> QED BY <1>1, <1>2, InvariantTheorem, PTL DEF Spec, EntersClean

(***************************************************************************)
(* A client that takes itself to be in a room is inside the room it names, *)
(* or has an Ejected to read.                                              *)
(***************************************************************************)
LEMMA JoinedInside ==
    ASSUME IInv, OrderInv, ViewInv, NEW c \in Clients, api[c].mIsJoined
    PROVE  /\ Returned(c)
           /\ downstream[c] \in Seq(Notes)
           /\ \/ Told(c)
              \/ \E l \in Lobbies : /\ Inside(c, l)
                                    /\ lobby[l].name = api[c].mMyRoom.name
<1>1. /\ Life(c) /\ AllowedApi(c) /\ downstream[c] \in Seq(Notes)
  BY CallFacts
<1>2. Returned(c)
  BY <1>1 DEF AllowedApi, Returned
<1>3. \A l \in Lobbies :
         Inside(c, l) => lobby[l].name = api[c].mMyRoom.name
  BY <1>2 DEF Inside
<1> QED BY <1>1, <1>2, <1>3, AtEase

(***************************************************************************)
(* What Lobby::isJoined, isHost and getRoomInfo say is true: the server    *)
(* has the room, with the client in it under the name it took, and at its  *)
(* head if it takes itself to be the host; unless an Ejected is waiting.   *)
(* The code promises this of clients and servers that behave as Orderly    *)
(* and EntersClean say; the comment of BeliefTrue says what happens with   *)
(* others.                                                                 *)
(***************************************************************************)
THEOREM BeliefTheorem ==
    ASSUME Orderly PROVE Spec /\ EntersClean => []BeliefTrue
<1>1. ASSUME IInv, OrderInv, ViewInv PROVE BeliefTrue
  <2> SUFFICES ASSUME NEW c \in Clients, api[c].mIsJoined, ~ToldToLeave(c)
               PROVE  LET r == api[c].mMyRoom.name
                          me == [actor |-> c, name |-> api[c].mPlayerName]
                          room == lobby[m_lobbies[r].handler]
                      IN /\ r \in Registered
                         /\ me \in ToSet(room.players)
                         /\ api[c].mIsHost => me = GetHost(room)
    BY DEF BeliefTrue
  <2>1. ~Told(c)
    BY DEF Told, ToldToLeave
  <2>2. PICK l \in Lobbies : /\ Inside(c, l)
                             /\ lobby[l].name = api[c].mMyRoom.name
    BY <1>1, <2>1, JoinedInside
  <2>3. Returned(c)
    BY <1>1, JoinedInside
  <2>4. /\ lobby[l].name \in Registered
        /\ m_lobbies[lobby[l].name].handler = l
    BY <1>1, <2>2 DEF IInv, DirectoryExact, Inside
  <2>5. PICK p \in DOMAIN lobby[l].players :
          /\ lobby[l].players[p] = [actor |-> c, name |-> api[c].mPlayerName]
          /\ api[c].mIsHost => p = 1
    BY <2>2, <2>3 DEF Inside, Seated, Seat, MyName, Hosts
  <2>6. lobby[l].players \in Seq(PlayerInfo)
    BY <1>1 DEF IInv, TypeOK, LobbyTypeOK, LobbyState
  <2>7. /\ lobby[l].players[p] \in ToSet(lobby[l].players)
        /\ p = 1 => GetHost(lobby[l]) = lobby[l].players[p]
    BY <2>5, <2>6 DEF ToSet, GetHost
  <2> QED BY <2>2, <2>4, <2>5, <2>7
<1> QED BY <1>1, AlwaysView, PTL

(***************************************************************************)
(* onRoomUpdate has told a client of every change of its room, once it has *)
(* read everything and the room has no Update to send: what it sees is the *)
(* room as LobbyActor2 has it.                                             *)
(***************************************************************************)
THEOREM ViewsTheorem ==
    ASSUME Orderly PROVE Spec /\ EntersClean => []ViewsConverge
<1>1. ASSUME IInv, OrderInv, ViewInv PROVE ViewsConverge
  <2> SUFFICES ASSUME NEW c \in Clients, api[c].mIsJoined,
                      downstream[c] = << >>, NEW l \in Lobbies,
                      Running(l), lobby[l].name = api[c].mMyRoom.name,
                      ~UpdatePending(l)
               PROVE  api[c].mMyRoom = MakeRoomInfo(lobby[l])
    BY DEF ViewsConverge
  <2>1. PICK k \in Lobbies : /\ Inside(c, k)
                             /\ lobby[k].name = api[c].mMyRoom.name
    BY <1>1, JoinedInside DEF Told
  <2>2. k = l
    BY <1>1, <2>1 DEF IInv, DirectoryExact, Inside
  <2>3. ~Telling(c, l)
    BY DEF UpdatePending, Telling, Tells
  <2>4. \A info : ~LastSent(c, info)
    BY DEF LastSent
  <2> QED BY <2>1, <2>2, <2>3, <2>4 DEF Inside, Fresh, LastRead
<1> QED BY <1>1, AlwaysView, PTL

=============================================================================
