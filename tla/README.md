# MultiSlider: specifications, model checking and proofs

MultiSlider is a server (Scala, Akka) with a C++ client library for small
multiplayer games. Players meet in *rooms* (the lobby, over TCP) and then play in
*sessions* (over UDP). A web page, the watchdog, shows whether the server answers; its
widgets are the JavaScript plugins of Bootstrap 3 and a confirmation plugin. This
directory holds TLA+ specifications of both protocols, server and client side, and of the
plugins, the TLC configurations that check them, and TLAPS proofs.

All paths below are relative to the repository. `server/` stands for
`server/src/main/scala/amaze/soft/`, `client/` for `client/source/`, `bootstrap.js` and
`bootstrap-confirmation.js` for the files in `watchdog/public/javascripts/`.

## 1. Inventory

| component | state | operations | talks to |
|---|---|---|---|
| `Depot` (`server/Depot.scala`) | `m_lobbies`: room name to actor and `RoomInfo`, at most 256 | `registerLobby`, `unregisterLobby`, `updateRoomInfo` under a lock; `getLobbies` without | called by room actors, clients and frontend on their own threads |
| `LobbyActor2` (one per room) | players in order (the head is the host), limits, behaviour *receive / running / zombie* | Init, Join, Update, Disconnected, Close; as text: Message, StartSession, EjectPlayer, Reconfigure, LeaveRoom, Update | Depot; TCP connections of the players; Backend (asks for a session, blocking) |
| `Client` (one per connection) | `m_handler`: the room it believes to belong to | CreateRoom, JoinRoom, Envelop, CloseRoom, PeerClosed, ErrorClosed | Depot, rooms, Frontend |
| `Lobby` (`client/Lobby.cpp`, `TcpInterface.h`) | `mIsJoined`, `mIsHost`, `mMyRoom`, `mPlayerName` | createRoom, joinRoom (blocking), reconfigure, eject, closeRoom, startSession, say, leaveRoom, receive, destructor | its `Client` actor |
| `Backend` | `m_sessions` (256 slots), `m_freeSessions` (stack) | CreateSession, CloseSession, routing of datagrams | rooms, session actors, UDP |
| `SessionActor` (one per session) | `m_stats` (a player or null per name), `m_seqStats`, `m_state` | Ready, KeepAlive, Update, Message, RequestSync, Quit, ClockSync; the keep-alive task and delayed Syncs on scheduler threads | Backend, UDP |
| `Session` (`client/Session.cpp`, `UdpInterface.h`) | `mStarted`, indices, `mOutputQueue`, clock shift | startup, quit, broadcast, say, sync, keepAlive, receive | its session actor |
| `Frontend` | number of clients | accepts connections, GetRooms | Depot, `Client` |
| Widgets (`bootstrap.js`, `bootstrap-confirmation.js`) | one object per element: what is open, in transition, asked for; timers; callbacks that wait for the end of a transition | Tooltip, Popover, Confirmation; Modal; Collapse; Carousel; Tab; ScrollSpy; Affix; Dropdown; Button; Alert | the user, scripts of the page, the browser's timers and transitions |
| `DogApi`, watchdog application | none | Hello / Identity | - |
| `RoomInfo`, `Utility`, jsonxx | none | data, JSON | - |
| TickTackToe, tests, scripts | - | users of the library | - |

### What is hard here

* Rooms and connections are actors: each handles one message at a time, but a client
  acts on a lookup of the directory that may be stale when its message is handled, and
  rooms send messages to themselves that queue up behind others.
* `getLobbies` is read without the lock.
* The C++ client changes its own view (`mIsJoined`, `mIsHost`) from messages sent
  before it left, and gives up a blocking call while the answer is on its way. Nobody on
  the server checks who sends `CloseRoom`.
* One read of the TCP socket may return several messages, of which only the first is
  parsed; and the server parses each chunk that TCP delivers as one message, although two
  requests may come in one chunk, or one in two.
* A session actor's fields are changed by two threads without a lock: the handler of
  datagrams and the keep-alive task. Both may remove the last player.
* UDP loses, delays and repeats datagrams; session ids are used again; requests are sent
  again until they are acknowledged, by indices that wrap.
* The plugins run one handler at a time, but a call ends long after it has begun: with a
  CSS transition of 150 to 600 ms, and with timers. Other calls come between, look at state
  that a callback is about to change, and add callbacks of their own, which one event ends
  together.
* Sizes and positions in the page depend on each other: a tip changes its size when it
  is moved, an affixed element its position when its state changes.

Correct means: the directory and the running rooms agree; rooms keep their limits and
always have a host; the host role is inherited by seniority; what a client believes
is true once it has read everything; a player who has gone stays in no room (all this of clients that
are in one room at a time, section 6); ids of sessions
are neither handed out twice nor lost; a session starts when all are ready and answers the
socket the client reads; a session that everybody has left ends; a reliable sync is
carried out once. A widget that is closed leaves nothing on the page; none is stuck; the
last thing asked for is what is there in the end. `PROJECT.json` lists each hazard at its line with the properties about it.

## 2. Modules

```
Depot <- LobbyActor <- ClientActor <- LobbySystem <- MCLobbySystem
LobbyActor_proofs <- LobbySystem_proofs <- LobbyViews_proofs
RoomService                 (instantiated by LobbySystem: what the server promises)

SeqIndex <- SessionActor <- Backend <- SessionSystem <- MCSessionSystem
SessionSystem_proofs <- SessionPlay_proofs

Transition <- Tooltip, Modal, Collapse, Tab, Alert
Placement, Carousel, ScrollSpy, Affix, Dropdown, Button
Page <- MCPage              (instantiates one module per plugin)
Placement_proofs            (instantiated by Page_proofs)
Page_proofs <- ModalCollapse_proofs
```

In the first two groups each module extends the one before: an actor's module adds its
variables and actions, and the last one adds the client library and the specification of the
whole. In the third, each plugin is a module with one variable of its own.

### Lobby

* **Depot**: `m_lobbies` is a function from room names; `RegisterLobby`,
  `UnregisterLobby`, `UpdateRoomInfo` are what the methods do to it. `LookupResults`
  is what a lookup without the lock may return while another thread changes the map.
* **LobbyActor**: `lobby[l]` is the state of a room actor, `mailbox[l]` its queue,
  `downstream[c]` the TCP stream to a client, `online` the connections that are still up. One
  action per message (`HandleJoin`, `HandleDisconnected`, ...). A handler is one step
  with everything it does: changing players, updating the directory, writing to
  connections, and forwarding to itself (`HandledAndForward` appends behind what is in the
  mailbox). `HandleAsZombie` is the behaviour of a room that was refused.
* **ClientActor**: `upstream[c]` is what the client has sent, `m_handler[c]` the field.
  `TakeJoinRoom` and `TakeEnvelop` look the room up as the code does. `TakeTwo`, `TakeHalf` and
  `TakeRest` are chunks that are not one request each: of two in one chunk one is lost, and each half of a
  request is answered SUCK. `WholeRequests` excludes them.
* **LobbySystem**: `api[c]` is the `Lobby` object. `createRoom` and `joinRoom` are two
  steps, the request and what ends the wait (`Answered`, `TimedOut`); the others send
  and return. `Receive` reads up to `MaxRead` messages and handles the first.
  `Destroy` and `ConnectionLost` end the connection; what was sent before may be lost.

* **RoomService** is the abstract specification: rooms with limits and a list of
  players, which are created, entered, left, changed and closed, each in one step and with the
  condition that makes it legal. `LobbySystem.Service` maps it:
  the room of a name is what the actor holds that the directory lists under it. Mailboxes,
  streams, refused rooms and the views of clients do not show.

### Sessions

* **SeqIndex**: the comparisons of `checkAcknowledgement`, which server and client share,
  and the index arithmetic, without any state.
* **SessionActor**: `session[s]` holds the fields; `actor[s]` and `task[s]` say where the
  two threads are. A step ends where the other thread could notice: `BeginUpdate` and
  `EndUpdate`, `BeginQuit`, `RemoveQuitter` and `EndQuit`; for the task `BeginCheck`, `Visit...`,
  `Touch` or `RemoveSilent` and `CheckLeft`, `EndCheck`. `LoopReplies` is the loop over
  the players that fails on a null after having served some of them, with the SUCK of the
  catch clause.
* **Backend**: the table, the stack of ids and the mailbox `requests`. A datagram
  is routed and handled in one step; the time it spends in mailboxes counts as
  time on the network.
* **SessionSystem**: `client[c]` is the `Session` object of a player of a session, `uplink` and
  `downlink` are sets of datagrams. `heard` records the reliable requests for which
  `onSync` was called. A room is only what it asks for (`AskSession`).

### Widgets

A handler is a function from the state of a widget to the state after it, so that handlers can
call each other as in the code (`Show` calls `ShowDone`, `Toggle` calls `Enter` or `Leave`);
an action is an event that runs one: a click, a move of the pointer, a call of a script, a
timer, the end of a transition.

* **Transition**: `one('bsTransitionEnd', callback)` with `emulateTransitionEnd`. The
  callbacks that wait on an element are a sequence, and the end of the transition runs all
  of them in order.
* **Tooltip**: `enter`, `leave`, `show`, `hide`, `toggle`, `destroy` with `hoverState`, `inState` and the
  two timers, with and without delay and animation, for the trigger sets of tooltip, popover
  and confirmation. `Bound` has the two instances that the confirmation plugin makes by
  storing its own under another name.
* **Placement**: `getPosition`, `getCalculatedOffset`, the turn of `auto`, `applyPlacement` with
  the reflow of a tip that gets too little width, `getViewportAdjustedDelta` and
  `replaceArrow`, in integers. `page` is where the element is and how far the page was
  scrolled; coordinates of page and window are kept apart as in the code, which
  mixes them on purpose.
* **Modal**: `show`, `hide`, `backdrop`, `hideModal`, the trap of the focus, the body's class, and
  `mousedown`, `mouseup` and `click` of a drag that must not close the dialog. `clicks` counts the handlers
  of a click that `backdrop` has bound, each of which runs (`Clicked`). `patient` is a page that
  waits for the effect of a call before the next, and calls nothing while the button of the mouse is down.
* **Collapse**: panels of an accordion; instances that `show` throws away while their callbacks
  wait (`Forget`). `data-parent` is an attribute of the trigger, so that an instance which a click makes has the
  option `parent` and one that a call with a string makes (`Script`, `HideActives`) has not: `grouped`.
* **Carousel**: slides, positions asked for during a slide (`deferred`), the event `slid` that a
  timer triggers after it, the interval, a listener that vetoes. Two history variables, `asked` and
  `overtaken`, say what the user asked for last and what that has overtaken (`InGap`).
* **Tab**: headers change at once, panes when they have faded.
* **ScrollSpy**: `process`, `refresh`, `activate` over a page whose layout changes.
* **Affix**: `getState` and `checkPosition` with the position that follows from the state, and the css
  `top` (`placed`) that is cleared before a listener may cancel the change.
* **Dropdown**: `toggle`, `clearMenus` with the event it overwrites, the keys.
* **Button**, **Alert**: `setState` with its timer, radio groups; `close` and `removeElement`.
* **Page**: `kind` and `widget`: one widget of any kind. The plugins share no data, so the
  behaviours of a page are those of its widgets side by side, and a product of them
  would show nothing more.

### What the models leave out

Payloads, descriptions, user parameters, names of messages, logging and JSON. Wall clocks: that a
player was silent for too long, or a wait too long, is a choice that is always possible. The
timestamps of a client's updates are taken to grow (the code uses the time of day, which
starts again at midnight). Clock synchronization (`ClockSync`, `mTimeShift`, ping). The
KeepAlive datagrams of the server to clients: they renew a timeout that is a free
choice, or make `startup` throw, which is `TimeOut`. `weakConnection`. Java's memory model:
accesses of the two threads of a session are taken to be atomic and seen at once. Calls that
`Lobby.h` forbids (reuse after `leaveRoom`).

Of the widgets: texts and HTML, attributes for screen readers, sizes other than those of
Placement, `options.selector`, touch screens, check boxes, modals with remote content, menus of
tabs, indicators of the carousel, viewports other than the body, margins of a tip. Of
`bootstrap-confirmation.js` the buttons' texts, links and classes; its options `singleton` and
`popout` work in handlers of `show` and `shown` without a namespace, which the namespaced
events of Bootstrap 3 never run.

Not modelled: `Frontend` (one counter under a lock, `GetRooms`: a read of the directory that
answers and changes nothing), clock synchronization (arithmetic on two wall clocks), `DogApi`
and the watchdog application (stateless requests), the data classes, jsonxx, the sample, the
tests.

## 3. Runs

All runs set `CHECK_DEADLOCK FALSE`: clients make a bounded number of calls, and a system
whose clients have all gone stands still; a widget that was destroyed does so too.

| run | instance | states (about) | shows |
|---|---|---|---|
| `lobby_rooms` | 2 clients, 2 rooms, 2 room actors, 2 calls each, late answers, createRoom while in a room, whole requests | 1.6 M | `DirectoryExact`, `DirectoryCoversRoom`, `OnlyHostCloses` |
| `lobby_clients` | 2 clients, 2 rooms, all calls, 1 or 2 places, at most 1 room registered | 640 k | `TypeOK`, `RoomsSound`, `BeliefTrue`, `ViewsConverge`, `HandlerFollows`, `HostSuccession`, and that the server implements RoomService (`ImplementsRoomService`) |
| `lobby_live` | 2 clients, 1 name, 1 room, 2 room actors, calls that enter, leave, close and eject, fair actors, late answers, createRoom while in a room, requests merged or cut | 126 k | `DisconnectedLeave` |
| `session_table` | 3 sessions, 1 slot | 1.1 M | `FreeExact`, `SlotsComeBack` |
| `session_start` | 1 session, 2 players, 2 sockets each, repeated datagrams, fair threads | 146 k | `StartedTogether`, `StartedIsServed`, `RunningSessionsEnd` |
| `session_sync` | 1 session, 1 player, 3 calls of any kind, repeated datagrams | 408 k | `TypeOK`, `HeardOnce`, `IndicesMoveOn` |
| `page_widgets` | one widget of each kind (bounds below) | 182 k | `TypeOK` and the properties of the next table |

| plugin | properties in `page_widgets` |
|---|---|
| tooltip, popover, confirmation | `NoTipLeftBehind`, `TipFollowsPointer`, `DestroyedStaysGone` |
| placement of a tip | `TipAtElement`, `TipInWindow` (`AutoFindsSpace` is proved, not run) |
| modal | `ClosedLeavesNothing`, `ClosedFreesBody`, `OpenIsOnScreen`, `DragNeverCloses` |
| collapse | `AccordionOne`, `NoPanelStuck` |
| carousel | `LastAskedWins`, `AskedIsReached` (liveness) |
| tab | `HeaderIsShown`, `LeftoversFade` |
| scroll spy, affix | `SpyCatchesUp`, `NoFlicker` |
| dropdown, button, alert | `OneMenuOpen`, `LastStateHolds`, `ClosedOnce` |

Five runs state what a header or a comment of the repository says and end with a
counterexample:

* `lobby_count`: a host ejects a player. `EjectPlayer` is the only handler that changes
  the players without `updateRoomInfo`, so the directory goes on counting the player.
* `lobby_host`: a host leaves. The next player is host for the server but its `mIsHost` stays
  false: it cannot reconfigure, eject or close.
* `lobby_read`: an Update and a ReconfigureSucc are read at once (`MaxRead = 2`), and the
  second is lost.
* `session_say`: of three players one has quit; the message of another may miss the third.
* `session_echo`: the Ack of a reliable sync arrives, and then the Sync of the same
  request, which `onSync` is not called for.

A player whose connection is gone leaves every room, and two properties say why. `DisconnectedLeave`: once all that
a client sent is handled and only the end of its connection remains, it leaves the room that `m_handler` is at and
does not come back, although the `Init` or `Join` of that room may still be in its mailbox. This needs no condition
on the client or the network. `HandlerFollows`: that room is the only one that lists the client. This needs the conditions of
`BeliefTrue`: with a `createRoom` in a room, with an answer after the client's timeout, or with a request cut in
two, `m_handler` goes on to another room while the old one still has the player, and keeps him for ever.

Without `WholeRequests` `OnlyHostCloses` fails with three calls: a `joinRoom` gives up and its answer comes
late, a `createRoom` is cut in two and takes that answer for its own, and then a mere member calls
`closeRoom` as the host it is not.

With `SlowServer` (answers after the client's timeout) `BeliefTrue` fails as well: the late answer
to one call is taken for the answer to the next. The runs of `BeliefTrue`
exclude that, those of the directory do not. Even without, there is a way to it that takes four
calls of a client: it starts a session, is ejected, joins again, and the room's late answer
to `startSession` (SUCK) is taken for the answer to `joinRoom`. TLC finds it with `MaxCalls` 4 and
finds none with 3. `BeliefTrue` and `ViewsConverge` are therefore theorems about behaviours in which this
does not happen (`EntersClean`, section 4). `startSession` is not restricted to the host,
neither in `Lobby.cpp` nor in `LobbyActor2.scala`, although `Lobby.h` lists it under "Host specific functions".

### Bounds

* `MaxCalls`: API calls per client. Two are enough for create or join followed by any other
  call, from each of two clients, with departures and lost connections free in addition.
* `Lobbies`: room actors; two let a room be closed and another of its name be created.
* `LOBBIES_MAX_NUMBER` is 1 in `lobby_clients`, so that the refusal occurs.
* `lobby_live` has one name, so that its two clients meet over a room (one is refused, or comes when the other has left)
  but are never in it together; `lobby_clients` has two names. With two names and late answers the
  state space is beyond what liveness checking takes in minutes.
* `MaxRead` is 1 in the passing runs: what is lost with one read is the subject of
  `lobby_read`, and every property of what clients know depends on it.
* `WholeRequests` is TRUE but in `lobby_live`: `OnlyHostCloses`, `BeliefTrue`,
  `ViewsConverge` and `HandlerFollows` depend on it; the properties of the server alone do not, and are proved without.
* `MAX_SESSIONS_NUMBER` is 1, so that sessions use the id of another at once; three
  sessions show a second `CloseSession` that takes the slot of a running one.
* `MaxPorts` sockets per client: two let a client give up and start again.
* `IDX_WRAP_MODULE` is 8 and the windows 3 in place of 1024 and 32; `MaxCalls` stays
  below their difference, for `HeardOnce` is not true beyond the wrap (section 6).
  The comparisons themselves, wrap included, are proved right for all values (`WindowTheorem`).
* `page_widgets`: `MaxTipWaiting` 4 and the other `Max...Waiting` 2 or 3 callbacks that wait for one
  transition (a second call within a fade, and one on top of it); `MaxBackdrops` 3; three
  `Panels`, `Tabs`, `Menus` and `Slides`, so that one is neither the old nor the new one;
  `MaxDeferred` 3 positions that wait; `MaxTimers` 3; four layouts, among them two sections with the same
  top and one at the top of the page.
* Placement in that run: a window of 12 by 8 on a page of 14, an element of 2 by 2 at every place, tips of 6
  by 2 that wrap to at least 4 by 4, padding 0 or 1, in half pixels. Tips overflow at each
  edge, wrap, and wrap again after the shift. For other sizes the three properties of placement are proved.

One branch of the session actor is reached by no passing run: the SUCK for a Ready of a
player the session does not know, which takes two sessions of different players that
share an id. It sends a reply and changes nothing else.

### Fairness

`FairSpec` of LobbySystem: every actor that has a message handles one (the Akka
dispatcher runs it). Clients need not do anything. `FairSpec` of SessionSystem: Backend
handles its requests, and the two threads of a session go on; in addition strong fairness of finding
silent a player whose client is not started: such a client sends nothing that renews
`lastPingTime`, so every run of the task after ten seconds finds it silent. The network is
not fair: datagrams may all be lost.

`Fairness` of Page is about the carousel: a transition ends (the timer of
`emulateTransitionEnd` sees to it) and the handlers of `slid` run. That the 0 ms timer of `slid`
finds the carousel at rest is strong fairness: a user who clicks in that gap time after
time can keep it from being so, but no hand does so for ever. Nobody is obliged to click.

### Symmetry

`lobby_rooms` and `lobby_clients` use permutations of clients and names, `session_table` of
session actors: no definition distinguishes between them. The properties of `lobby_clients` that relate two states mention no particular client or name either. The liveness
runs use none.

## 4. Proofs

Run `tlapm` on each module whose name ends in `_proofs`.

Of the rooms, for all clients, names, rooms, limits and numbers of calls:

| theorem | states |
|---|---|
| `TypeTheorem` | `Spec => []TypeOK` |
| `DirectoryTheorem` | `Spec => []DirectoryExact` |
| `RoomsTheorem` | `Spec => []RoomsSound` |
| `CoversTheorem` | `Spec => []DirectoryCoversRoom` |
| `SuccessionTheorem` | `Spec => HostSuccession` |
| `CloseTheorem` | `WholeRequests => (Spec => OnlyHostCloses)` |
| `InvariantTheorem` | `Spec => []IInv`, on which these rest |
| `ServiceTheorem` | `Spec => ImplementsRoomService`: the refinement |
| `BeliefTheorem` | `Orderly => (Spec /\ EntersClean => []BeliefTrue)` |
| `ViewsTheorem` | `Orderly => (Spec /\ EntersClean => []ViewsConverge)` |

Of the sessions, for all players, session actors, slots, sockets and windows:

| theorem | states |
|---|---|
| `SessionTypeTheorem` | `Spec => []TypeOK` |
| `FreeExactTheorem` | `Spec => []FreeExact` |
| `SlotsTheorem` | `Spec => []SlotsComeBack` |
| `IndicesTheorem` | `Spec => IndicesMoveOn` |
| `ServedTheorem`, `TogetherTheorem` | `Spec => []StartedIsServed`, `Spec => []StartedTogether` |
| `HeardOnceTheorem` | `FewCalls => (Spec => []HeardOnce)` |
| `SessionInvariant` | `Spec => []IInv`, on which these rest |
| `WindowTheorem` | `AcceptsWindow`, for every modulus and window |

Of the widgets, for any numbers of elements, callbacks and timers and all lengths:

| theorem | states `[]` of (`AffixTheorem`, `DragTheorem`, `LeftoversTheorem`: the action property) |
|---|---|
| `TipTheorem`, `WindowedTheorem`, `AutoTheorem` | `TipAtElement`, `TipInWindow`, `AutoFindsSpace` |
| `LeftBehindTheorem`, `FollowsTheorem`, `DestroyedTheorem` | `NoTipLeftBehind`, `TipFollowsPointer`, `DestroyedStaysGone` |
| `CarouselTheorem` | `LastAskedWins` |
| `HeaderTheorem`, `LeftoversTheorem` | `HeaderIsShown`, `LeftoversFade` |
| `AffixTheorem`, `SpyTheorem` | `NoFlicker`, `SpyCatchesUp` |
| `FreesTheorem`, `LeavesTheorem`, `OnScreenTheorem` | `ClosedFreesBody`, `ClosedLeavesNothing`, `OpenIsOnScreen` |
| `DragTheorem` | `DragNeverCloses` |
| `AccordionTheorem`, `StuckTheorem` | `AccordionOne`, `NoPanelStuck` |
| `MenuTheorem`, `ButtonTheorem`, `ClosedTheorem` | `OneMenuOpen`, `LastStateHolds`, `ClosedOnce` |
| `PageTypeTheorem` | `TypeOK` |

### Rooms

The inductive invariant `IInv` is `TypeOK /\ ApiSound /\ RoomsFilled /\ DirectoryExact`.
`DirectoryExact` alone is not inductive: a room's handlers write its info to the
directory, so one must know that a running room has players (`RoomsFilled`; `makeRoomInfo`
takes the head of the list), and that a client that is joined has a room and a name to put into
its messages (`ApiSound`), or the mailboxes would leave their types. `LobbyActor_proofs` has one
lemma per handler of the room, `LobbySystem_proofs` one per action of client and connection.
`RoomsSound` is then proved from `IInv` as a second invariant (`AllRoomsSound`), with
capacity and distinct names preserved by Join, Reconfigure and Init, and
`HostSuccession` step by step from both. `AllCovered` is the third: the entry of a running room
covers what the room has, because every handler but `EjectPlayer` writes the entry after its
change, and `EjectPlayer` only makes the room smaller.

`CloseTheorem` needs to know what can be under way when a room is closed. `OrderInv` says where
the `CloseRoom` requests of a client will go: once the requests before one have been handled, `m_handler`
leads to a room which this client has opened or hosts, or to none (`ClosesOwn`); and a Close in a
mailbox is from the owner of the room and comes before that client's departure. A request that is lost in a
chunk would break that order, so that the theorem assumes `WholeRequests`; late answers do not.

`ServiceTheorem` rests on two facts. `RoomTransition` (LobbyActor_proofs) lists the ways in which
a handler may change the fields of its actor, and `LobbyActorTransition` shows that each handler is
one of them. `DirectoryExact`, in the state before a step and in the one after, ties the
directory to the actors that run: so the room of every other name is what it was, the
room of the actor is what the transition says, and it shows exactly while the actor runs.
That a room is created only under the limit of rooms needs `registerLobby`'s own count
(`StartIsFresh`) and that the registered names are finitely many. `HostSuccession` and the refinement
are checked with two clients and proved for any number.

`LobbyViews_proofs` is about what clients believe. Neither property is inductive: whether a client
is right depends on what is still in its socket, in the mailboxes and on its way to the server. The invariant
`ViewInv` follows a client through its life (`Life`), until its connection ends. It is
`Outside` of every room; or a refusal is the only thing it will read (`Refused`); or it was put out, and an Ejected
waits for it, behind which only answers to an earlier StartSession come (`Told`); or it is `Inside` one room, where it sits under the name it
took, at the head of the players if it takes itself for the host or will when it has read its answer (`Seated`), and where the last
thing that was sent to it, or that the room still has to tell it, is the room of now (`Fresh`).
`Asked` says that the request a client waits for is its last one, in the stream or in one mailbox
and nowhere twice, and that no StartSession of its own is under way, so that an answer is always to
the call that waits; and `Allowed` that an envelope holds no Join and a client that waits is in no room. There is a
lemma per message of a room (`JoinLife`, `EjectLife`, ...), per action of a connection (`TakeJoinRoomView`,
...) and per call (`ReceiveView`, ...).

The hypotheses are the five conditions that the comment of `BeliefTrue` names. `Orderly` is about the constants, which
`lobby_clients` has so: prompt answers (`~SlowServer`), no `createRoom` in a room, one message per read of a client, one
request per chunk at the server. `EntersClean`
is about the steps: no client asks for a room while a StartSession of its own is on its way to the room, or the SUCK
that answered one is in its socket. It does not restrict which calls there are. In `lobby_clients` every behaviour
is such, for to get into a room, start a session and ask for a room again takes three calls.

### Sessions

The invariant `IInv` of `SessionSystem_proofs` is `TypeOK /\ SessionsSane /\ TableSane /\
ClientsSane`: besides the types, that the two threads of a session work only once it has begun and
that the player whose Update or touch they have in hand has joined (`SessionsSane`), that the session
that holds a slot bears its id (`TableSane`), and that a client's fields fit its phase. `FreeExact` and
`SlotsComeBack` are preserved step by step on top of it. `IndicesMoveOn` needs that nobody has an
index before the session has begun (`IndicesFresh`) and the arithmetic of the comparisons
(`AheadIs`).

`SessionPlay_proofs` is about sessions in which datagrams can be lost, delayed and repeated.
`PlayInv` says that every datagram under way bears the id of its sender's session and comes from one
of that client's sockets (`UplinkFits`), that the address a session has of a player is a socket of that
player for a session of that id (`PlayersFit`), and that a Start under way, or one that a client has read, is
for a session of that id which has begun and has that client's address (`StartsFit`,
`ClientsFit`). `StartedIsServed` and `StartedTogether` follow. For `HeardOnce`, `AllNumbered` numbers the reliable requests
of a client one after another, and `OnceInv` says which numbers the session has taken and which
each client has heard: a request that was taken is behind the last index, so its repetition is
not accepted, and what was heard is behind the client's own.

`FewCalls` is the hypothesis of `HeardOnceTheorem`: the calls of a client and the greater of the two windows
stay below the modulus. In the code these are 1024 and 32. `session_sync` satisfies it.

### Widgets

`TipTheorem`: a tip that is shown is the outcome of `applyPlacement` on the present page
(`PlacementInv`), for the page does not scroll under it. Then the correction for the new
height and the halves in offset and arrow cancel out, for every length (`PlacedTip`). A tip
must fit into the width of the window (`LengthsOK`), or one on the left would be measured narrower than it is
shown. `Placement_proofs` has the lemmas about the module alone, and `Page_proofs` carries them
over to the widget of a page, with `TipInWindow` and `AutoFindsSpace`.

A handler is a function on records, so that an invariant of a widget is a set of states that
no handler leaves (`AlertStates`, `TabStates`, `MenusStates`, `ButtonStates`, `AffixStates`,
`CarouselStates`, `SpyStates`, `TipStates`, `ModalStates`, `CollapseStates`).

* Callbacks that wait for one transition are folded over the state. The induction theorems of the
  library take an operator as a parameter and cannot be used, so `FoldExists` and `FoldStays` prove
  once, by the least counterexample, that a recursion on the callbacks that have run has
  a solution, and that it stays in every set that no callback leaves; its last value is that of
  the last callback. `AlertFold`, `TabFold`, `TipFold`, `ModalTrace` and `PanelFold`
  are these facts for the operator that each plugin folds.
* Carousel: `Goal` is the position a carousel will show when nothing more is asked: the last one deferred,
  or the one it moves to, or the active one. `OnItsWay` says that this is what is `Wanted`: what was asked for
  last, or, if that was asked for in the gap between the end of a slide and its `slid`, the last of those it overtook.
* Tab: the last callback that waits is the one for the header that is marked, and each that waits
  takes exactly the panes that are active then (`TabStates`). So the calls that wait put out all that were active,
  and once they have run only the panes of the headers they were made for are there (`LeftoversTheorem`).
* Affix: `Rests` says that `getState` finds the state again, or one that a listener vetoes; two
  checks lead there from anywhere off the edges. `PlacedRight` says that the css `top` is there at the bottom and
  nowhere else, unless a listener cancels the change back from the bottom, which takes the `top` away all the same.
* Scroll spy: the tops it keeps are those of some layout, and once it has run after a change those of the
  page (`SpyStates`). The sections that begin above a position are the first few, for the tops are sorted
  (`SomeAbove`), so that the comparison of neighbours in `process` finds the last of them.
* Tooltip: a tip that nothing holds is not in the state `in`, and if it is in the document, a timer is
  set that will hide it or the last callback that waits is that of `hide` (`Followed`). The
  callbacks before the last are not known, so the fold is used with two sets: tips that are left, and
  those that are followed too. Without animation `InStep` lists the four situations of a tip: shown, to be
  shown, hidden, to be hidden. A tip whose element was destroyed has no timer that shows it and is out of
  the document (`Gone`).
* Types: most are part of the sets above. For the callbacks that wait on a tip there is a
  bound only together with the timers, which call `show` or `hide` once more (`Load`): a handler adds at most one, clicks and pointers
  look at the bound first, and of the callbacks that one transition ends together only one can add a hide, for
  `complete` sets `hoverState` back (`OnceMore`). So there are never more than `2 * MaxTipWaiting`.
* Modal: the callbacks on the element that one transition ends may each put up a backdrop, so the invariant
  counts the backdrops together with the callbacks that are left (`Fits`), and the fold is proved for a family
  of sets, one for each number of callbacks that have run (`ModalRan`). A modal that is closed has a callback
  on its element or on the backdrop it points to that will take the backdrop away, or is rid of it already (`Freed`).
  On a page that waits for the effect of its calls a modal is in one of five phases (`Closed`, `Opening`, `Open`,
  `Closing`, `Fading`), each with the callback that leads to the next; `ClosedLeavesNothing` and
  `OpenIsOnScreen` are about the two in which nothing waits. On such a page a shown modal has one handler of a
  click at most, and the one of `mouseup` is bound while the button that went down in the dialog is down (`Guarded`), which is what `DragTheorem`
  needs; on other pages there may be two of the first and none of the second.
* Collapse: a panel that refuses calls has a callback of its own instance, and it is the last that waits
  (`PanelRuns`, `OwnBusy`); those of instances that were thrown away come before it (`RunStates`). `CollapseStates`
  adds what holds of an accordion that `AccordionOne` is about (`Strict`: panels fold when asked, the script calls none that has no
  instance, and all were folded at first or the page is patient): every instance has the option `parent`, and one
  panel at most opens or is open (`OneShows`). If all were folded at first, a panel that is not folded has an
  instance, and one in transition refuses calls (`PanelKnown`), so that `show` finds the one that is open and
  hides it, or is refused while that one moves; on a patient page nothing moves when `show` is called. `show` looks at all panels that are
  active, but what it does to one of them depends on no other, so the fold over them is described panel by panel.

### Assumptions

Those of the modules (`ASSUME`), which TLC evaluates in every run:
finite sets of lobbies, natural bounds, `Null` outside of the sets it is compared with, limits with at least
one place. `SeqIndex`: the window of the server is positive and below the modulus. `Page`: lengths are natural numbers, there is
a slide, `MaxBackdrops` and `MaxTipWaiting` are natural numbers, panels are numbered, lines of a tip are no wider than the tip and tips no wider than the window, the two edges
of an affixed element do not meet, a page has sections whose tops are sorted (`refresh` sorts them), and layouts
differ in height (`process` notices no other change). Besides these only `FewCalls`, `WholeRequests`, `Orderly` and
`EntersClean`, each in the theorems that name it.

### Only model-checked

`DisconnectedLeave`, `RunningSessionsEnd` and `AskedIsReached`: liveness, where fairness and `ENABLED` are
beyond the prover; and `HandlerFollows`. Every other property of the runs that pass is a theorem.

## 5. Plan

1. Done: the lobby, its checks, theorems, and the refinement of RoomService with its proof;
   sessions and their checks; the window theorem; the widgets of the page with their checks,
   and the placement of tips with its theorem.
2. Model next: `Frontend` with the life cycle of connections (the counter of clients), an
   abstract pool of ids that Backend implements, and reliable sync as a liveness property
   under fair delivery (overtaken requests are never accepted).
3. Done: theorems about all safety properties of the rooms, the sessions and the plugins.

## 6. Known limits of the properties

* A client that enters a second room without leaving the first stays there for ever: the server keeps one
  `m_handler` per connection and forgets the one before. `HandlerFollows` is about clients to which this does
  not happen (its comment names the conditions), `DisconnectedLeave` about the last room of all of them, where the
  client has one place (one that joined twice under two names keeps the second).
* `OnlyHostCloses`, `BeliefTrue` and `ViewsConverge` assume that each chunk the server reads is one request.
* `StartedTogether` and `StartedIsServed` are about sessions whose id nobody had before
  (`FirstOwner`): datagrams carry only the id, and a delayed Ready of an earlier session with a
  player of the same name counts for the next one.
* `HeardOnce` holds for as long as a player makes fewer than `IDX_WRAP_MODULE - ACK_HISTORY_SIZE` reliable
  requests: a request that is stuck in the queue and sent again is new for the
  server once the indices have come round. It too is about sessions whose id nobody had before: with two that
  share an id and two calls of a client, TLC finds a Sync of the earlier one that is heard in the later one.
* `SlotsComeBack` is about sessions that have stopped. One whose players never are all ready has no
  keep-alive task and keeps its slot.
* `DirectoryCoversRoom` allows the directory to list players that were ejected (`lobby_count`).
* `ClosedLeavesNothing` and `OpenIsOnScreen` are about pages that wait for the effect of a call
  before the next one. Without, a backdrop may stay, or the trap of the focus of a modal
  that is closed; `ClosedFreesBody` holds all the same. `DragNeverCloses` is about such pages too, for without
  the wait `hideModal` may bind a second handler of the click, which closes the modal that the first one has
  spared; and it takes pages that call nothing while the button is down, as `hide` drops the handler of `mouseup`.
* `DestroyedStaysGone` leaves out a tooltip with `delay.show`: a pointer that enters while `destroy`
  fades starts a timer that nobody clears, and the tip comes back.
* `AccordionOne` leaves out scripts that call `collapse('show')` or `collapse('hide')` on a panel without an
  instance: what they make has no parent, and shows its panel beside the open one, at later clicks too. With a panel
  that the page marks as open, it is about pages that wait for transitions. Where a listener cancels `hide` the
  old panel stays open of course.
* `LastAskedWins` and `AskedIsReached`: what is asked for between the end of a slide and its `slid`, while positions wait, is slid
  to at once, and the last of those that wait is shown in the end.
* `LeftoversFade`: panes of headers between the first and the last of several quick clicks stay on
  the screen until the next switch.
* `NoFlicker` is about positions off the two edges; at them an affixed element changes its state with
  every event. It also leaves out a listener that cancels the change back from the bottom: `checkPosition` clears `top`
  before it asks, and sets it again at the next check, so that the element moves to and fro.
* `TipAtElement` leaves out tips whose last move changes their size again: the arrow is then
  computed for the size before, and a tip above its element may overlap it or stand off.
* A confirmation opens once: its events reach a second instance (`Bound`), and later clicks run
  `toggle` twice.
