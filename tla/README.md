# IV:Network in TLA+

IV:Network is a multiplayer modification of GTA IV: a dedicated server, a client
that is loaded into the game, and scripts on both sides. The server and its
clients keep tables of the same entities (players, checkpoints, blips,
vehicles) and keep them alike with remote calls over RakNet. This directory
models that core: how a connection becomes a player and stops being one, how a
client gets, loses and regains its server, how an entity that scripts create
comes to be shown on every client, how a player's seat in a vehicle is kept
alike on all of them, and how the scripts' timers, events and resources work.

## The system

| component | source | state | operations | interacts with |
|---|---|---|---|---|
| Entity manager | `Server/Entity/CEntityManager.h`, the same template under `Client/Core/Game/Entity` | an array of pointers, the index is the entity's id | `FindFreeSlot`, `Add` (with and without an id), `Set`, `Delete`, `Exists`, `Reset` | every table below is one |
| Server network module | `Server/Network/CNetworkModule.cpp` | RakNet's peer: connections by system index, a queue of packets | `UpdateNetwork` (losses, RPCs), `Call`, `KickPlayer` | RakNet's thread; the RPC handlers |
| Server RPC handlers | `Server/Network/CNetworkRPC.cpp` | the player manager and the other managers | `InitialData`, `DownloadFinished`, `PlayerChat`, `PlayerChangeName`, `PlayerSync`, `PlayerDeath`, `PlayerRequestSpawn`, `CheckpointEnter`, ... | clients, scripts (events) |
| Client network manager | `Client/Core/Network/CNetworkManager.cpp` | `m_eNetworkState`, the time of the last try, RakNet's peer | `Connect`, `Disconnect`, `Shutdown`, `Pulse`, `UpdateNetwork` | the menu, RakNet's thread, `CGame::Reset` |
| Client RPC handlers | `Client/Core/Network/CNetworkRPC.cpp` | the client's managers, the local player | `DownloadStart`, `InitialData`, `GetPlayers`, `PlayerJoin`, `PlayerLeave`, the checkpoint, blip and vehicle handlers | the server |
| Checkpoints (blips alike) | `Server/Entity/CCheckpointEntity.cpp`, `Client/Core/Game/Entity/CCheckpointEntity.cpp` | spot, type, radius, visibility; the marker in the game | create, delete, set, show, hide; `Pulse` reports entering and leaving | scripts, the joiner's snapshot |
| Players, vehicles | `Server/Entity/CPlayerEntity.cpp`, `CVehicleEntity.cpp` | position, weapons, occupants, last sync package | setters, `Serialize`, `Deserialize`, `Pulse`, seats | sync RPCs at the sync rate |
| Timers | `Server/CTimer.cpp`, `CTimerManager.cpp` | a list of timers; interval, repetitions, paused, running | `Start`, `Stop`, `Pause`, `Resume`, `Pulse` | callbacks into scripts |
| Events, script VMs | `Shared/Scripting` | handlers per event name and resource | `Add`, `Remove`, `Call` | resources, every native event |
| Resources | `Shared/Scripting/ResourceSystem` | the list of resources, their VMs and dependants | load, start, stop, reload, unload | the console thread |
| Threads, mutexes | `Shared/Threading` | the flags of a thread | `Start`, `Stop`, `TryLock` | the console and HTTP threads |
| Downloads, HTTP, master list | `CDownloadManager.cpp`, `CHttpClient.cpp`, `CMasterList.cpp` | requests | pure input and output | none of the tables |
| Game hooks, GUI, graphics, audio | `Client/Core` | the game's own | drawing, calls into the game's binary | the menu calls `Connect` and `Disconnect` |

The server runs one loop (`CServer::Process`): it drains RakNet's queue, running
each handler to its end, then pulses the managers and the timers. Scripts run
inside that loop, called by events. Only RakNet's thread, and the console
thread, run beside it. The client is alike: the game calls `Pulse` once a frame,
and RakNet's thread works beside it.

What is hard, and hard to test, is where these meet: two clients that join at
once; a loss that is reported behind the packets of a connection that has taken
its place; a snapshot that must add up with the broadcasts before and after it;
a retry that races an answer; a table whose slots change hands while a message
about a slot is on its way. `PROJECT.json` lists these hazards line by line.

### What makes each component correct

- *Sessions*: the number a player has is the number its connection has (the code
  uses one for the other everywhere); one player per connection; a joined client
  shows just the server's players; nobody's player is removed by another's
  departure; a joiner is let in or closed; a departed player goes.
- *Connection*: RakNet is polled whenever it holds something; nothing late
  reaches a new session; a timeout is followed by a retry, and a client that is
  connecting has something to wait for; the local player outlives every session.
- *Checkpoints*: a client has a copy of the checkpoints it was told of, as the
  server has them, and no other but what a former connection left; a marker in the
  game has a copy that owns it; an id is a slot.
- *Timers*: the pulse's iterator stays on the list while callbacks change it; a
  timer fires as often as it was asked to, its interval apart, and goes on firing
  when the clock wraps.
- *Scripts and resources*: a handler does not outlive its VM; a listed resource
  has a VM; a call of an event reaches every handler it should, although handlers
  add and remove handlers.
- *Seats*: the vehicles list a player where the player says it sits; the pointer
  to the player's vehicle is set whenever its ped sits in one; a watcher comes to
  see the player where it is, whatever packets are lost.

## The modules

**EntityManager** — the table as a function from slots to entities, and its
operations as operators on it. `Table == INSTANCE EntityManager` is how the
other modules own one.

**PlayerSession** — the server and all its clients. `peer` is RakNet's list of
remote systems, `inbox` its receive queue, `players` the server's player
manager; `chan[c]` is what is on its way to client `c`, `view[c]` the client's
player manager and `self[c]` its local player's id. An action of the server is
one turn of the loop in `UpdateNetwork` with the handler it calls; an action of
a client is one RPC it handles, or something its user does. RakNet is external:
it gives a connection the lowest free index, and queues the report of a loss
behind what it has already queued. A client here is one connection: one that
connects again is another member of `Client`. The `conn` field of packets and
players is a history field, which no handler reads, except that the version and
the routing of a message are looked up with it.

`Namesakes` is the setting of that name. `Quiet` is a restriction on the
environment, not on the code: with `Quiet = TRUE` no connection opens or closes
while a join is pending, which is the only way to run the server in which its
ids are right, as `session_index` shows.

**Membership** and **SessionMembership** — the abstract session and the
refinement. `Membership` has no slots, indices or packets: a client that becomes
a member is shown itself, then the members of that moment, then every arrival
and departure since, each once and in order; the server may tell its clients
something else as well (`Tell`), which shows them nothing. `SessionMembership` maps
`PlayerSession` to it: the members are the players in the server's table
(`players[s].conn`), the linked clients those with a system index, `shown` the
players in a client's table, and `due` what each RPC on its way to it is meant to
tell of the members: for a `DOWNLOAD_START`, a chat line or a rename, nothing. That the session implements it (`ImplementsMembership`) says at once that
the snapshot and the broadcasts of a join add up, that a slot taken again is not
mistaken for its former player, and that only a player whose connection is gone
is ever removed. It does with `Quiet` only.

**ClientConnection** — one client through any number of sessions. `state` and
`waited` are `m_eNetworkState` and the time since `m_uiLastConnectionTry`;
`pulsing` separates the game thread's loop in `UpdateNetwork` from RakNet's
thread, which may move `link` and append to `queue` between two turns of that
loop. `known` is what the server holds of this client: after a loss on one side
only, an attempt is answered with `ID_ALREADY_CONNECTED`. The table says of each
slot whether it is empty or points at the local player, at a player of this
connection or at one left over from a former one. After `freed` (the local
player deleted) the code's behaviour is undefined and the model stops.

**Checkpoint** — the checkpoint manager of the server and its copies. Position,
target, type and radius are one value, `spot`, as their setters are alike.
`told[c]` is a history variable: what the calls said to client `c` on this
connection, against which `CopiesConverge` compares what it has. `calm` is
another: no script did anything while a client was joining, the condition under
which no copy is sent twice. The client's process outlives its connections: the
menu's button, a `Connect` while connected and `ID_DISCONNECTION_NOTIFICATION`
keep the copies for the next one (`Disconnect`), `ID_CONNECTION_LOST` runs
`CGame::Reset`, which deletes them without hiding their markers (`Lose`), and only
the end of the process takes everything away (`Restart`). `leaked[c]` are the
markers in the game that no copy owns any more, and the history `leftover[c]` the
slots whose copy a former connection left. A connection ends on both sides at once
here, with what is under way to the client, and the server's process does not
restart; `ClientConnection` has the losses on one side. A client reports (`Pulse`) entering and leaving its own copies; the server
looks the id up and passes on what it finds, and `down` records that it found
nothing. Scripts keep to handles of checkpoints that exist.

**Timers** — the manager's list, its pulse and the clock. A timer is its place
in the order of creation, which is the list's order too, so the list is a set of
numbers and the iterator one of them. `BeginPulse`, `VisitSilent`, `VisitEarly`,
`Fire`, `NextVM`, `Return` and `EndPulse` are the stations of
`CTimerManager::Pulse` and `CTimer::Pulse`; between `Fire` and `Return` the
callback runs, once in each VM, and may do what a script may do, to the timer
that is firing too. The clock counts to `Modulus` (2^32 in the code) and wraps,
and `Due` compares as the code does, with the sum taken to that width. The tick
of the model's clock is no shorter than a lap of the main loop (`lap`): time the
code measures in milliseconds passes in steps that some pulse sees, so a due time
at the very end of the clock is not skipped. `Careful` restricts scripts: they let
go of the handle of a timer that is gone, and stop none in its own callback. Both
are undefined behaviour (`broken`), which nothing in the code prevents.

**ScriptHost** — events, their calls, the VMs and the resources. A handler is
its number in the order of addition, so the list of an event is a set;
a function is the number of the run of the script that made it, which is what
two comparable references differ by. `frames` is the stack of `CEvents::Call`s
under way, each with its iterator; `task` is a resource being started.
`LoadResource`, `ReloadResource`, `UnloadResource` and the steps of `Start` are
the console's commands. `stopped` is why the server can no longer be described:
which pointer it used that was null or freed, or `race`. `Race` is the console's
thread: nothing is locked, so a command that arrives in the middle of a call, or
a call made in the middle of a command, has no defined outcome, and the model
ends there; all properties are about everything before that. `hollow` is a
history variable: the resources whose last load found no script or failed, and
that the manager lists without a VM; `loaded` is `m_bLoaded`, which a failed reload
leaves false, so that the next `Stop` removes no events.

**Seats** — one player, its own client and a watcher. `player[c]` is a client's
`CPlayerEntity` with the part of the game's ped that matters (the vehicle it sits
in, its vehicle task); `occupants[c]` are the seats of vehicles that point at it.
The operations of `CPlayerEntity` are operators on a *view*, the pair of those
two, because the code calls them from one another; the handlers and
`CLocalPlayer::Pulse` are actions that apply them in the code's order. All
messages here are `UNRELIABLE_SEQUENCED`: one that does not arrive is lost as it
is sent, a full queue loses its oldest. The game is external: a ped gets in and
out by tasks (`Sit`, `Rise`, `EndTask`, `CancelEntry`), and is warped at once.
The histories `calm` and `doubled` say that no script has moved the player, and
that a key was pressed before an exit had ended. Scripts that move the player do
make a client's pointers disagree with its ped (an order that arrives while the
ped is still getting out of another vehicle is obeyed by the game alone), so
`SeatedIsKnown`, `WatcherUp` and `WatcherCatchesUp` are stated under `calm`;
`OccupantsHeld` is not.

**MC*** — the instances for TLC, with the symmetry sets.

***_proofs** — the theorems (below). `PlayerSession_proofs` is about seats and
connections, `SessionViews_proofs` about what the clients show and about the
refinement; each other module has one.

A definition marked *a mutant* is not used by the specifications: it is the code
with a plausible error, put in the place of the definition it precedes to see
that a property notices.

## The runs

| run | instance | what it shows |
|---|---|---|
| `session_quiet` | 3 connections, 2 slots, 2 names, 1 chat line or rename, `Quiet` | ids are system indices, one player per connection, rosters converge, no client crashes, chat is shown under its author, no live player is dropped |
| `session_live` | 3 connections, one of another version, unique names, `Quiet`, fair | names are unique, a join completes, the departed are removed, and the session implements `Membership` |
| `session_index` | as above without `Quiet` | **violated**: `SlotIsSystemIndex` |
| `connection` | 2 slots, timeout of 2 ticks, 3 queued events, fair | types, `LinkIsPolled`, `QueueIsCurrent`, `RosterHeld`, a retry after every timeout, `StuckExplained` |
| `connection_local` | the same | **violated**: `LocalPlayerKept` |
| `connection_stuck` | the same | **violated**: `RetryStarts` |
| `checkpoint` | 1 client, any number of connections, 2 slots, 3 creations, 2 other calls, 2 messages and 1 report under way | types, `CopiesConverge` under every interleaving of scripts, joins and ends of connections, `NoMarkerLeaks`: how a marker may lose its copy |
| `checkpoint_overrun` | the same | **violated**: `IdIsSlot` |
| `timers` | 2 timers, 2 VMs, intervals 1 and 3 on a clock of 4, for ever or twice, 3 calls by scripts, `Careful`, fair | types, `IteratorHeld`, `FiresExactly`, `GapKept`, a counted timer ends, a timer goes on firing |
| `scripts` | a resource in Lua and one in Squirrel, 2 events, 3 VMs, 2 handlers, calls 2 deep | types, `HandlersLive`, `StopsExplained`, `ListedHaveVM`, `CallsComplete` |
| `scripts_trigger` | the same | **violated**: `TriggersReachLua` |
| `seats` | 2 vehicles with a driver's and a passenger's seat, 1 script call, 3 moves in all, 1 message under way in each direction, fair | types, `SeatedIsKnown`, `WatcherUp`, `OccupantsHeld`, the watcher catches up |

`timers` and `seats` check for deadlock: their loops always go on. The other
systems really may stop: their bounds are used up, a client may stay
disconnected for good, or the server has stopped over misused memory.

### The bounds

Two slots and three connections are the least with which a slot is freed and
taken again by a third party while the second is still there; every property of
the sessions is about two parties and a slot. One act is enough for a chat line
or a rename to be under way in every state of a join or a departure; it is a
bound on a counter (`acts`), not on the queues. In `ClientConnection` three
queued events hold a loss, an acceptance and an RPC at once, and two ticks
distinguish a timeout that has just begun from one that has not passed yet.
`MaxPlayers = 2` there lets a new session's id differ from the old one's. In
`Checkpoint` three creations on two slots fill the manager, take a slot again,
and overrun it; with two messages under way a broadcast can stand before and
after a snapshot, and one report can be under way while anything else happens.
How often the client connects, disconnects, loses its connection or starts again
has no bound. Clients do not meet but through the server, and one shows every
interleaving with it.

In `Timers` an interval of 1 is due twice within one turn of a clock of 4 and one
of 3 crosses its end; two timers are the least that act on each other in a
callback, and on either side of the iterator; two VMs make a callback act between
the two calls of one firing. Three calls of scripts are a start of each and a
pause, resume or stop, at any point. In `ScriptHost` three VMs are two loads and
a reload; two handlers are the least of which one can be removed while the other
is called, and two calls the least that nest. In `Seats` two vehicles let a packet
name one while the ped is busy with the other; one script call and two keys, or
three keys, get in, out and in again while an exit has not ended. A queue of one
message, which a later one replaces, is every loss and every overtaking of the
sequenced channel; more would only delay. The proofs below do not depend on any of
these bounds.

### The fairness

`PlayerSession` assumes weak fairness of the server's step and of each client's
delivery: the server's main loop comes back to `UpdateNetwork` every frame and
drains the queue, and RakNet delivers reliable ordered messages as long as the
connection is up. Nothing makes a client connect, quit, chat, or be kicked.
`ClientConnection` assumes weak fairness of the game thread (`Pulse` is called
each frame), of the clock, and of an answer to an attempt (RakNet gives up by
itself and posts `ID_CONNECTION_ATTEMPT_FAILED`). `Timers` assumes it of the main
loop, whose callbacks return, and of the clock; nothing makes a script act.
`Seats` assumes it of the player's pulse with a packet that arrives (the client
sends at its sync rate for as long as it plays, and a channel that loses
everything is a lost connection), of the server's handler and its relay at the
same rate, of the watcher's handlers, and of the end of getting out of a vehicle
in the watcher's game. `Checkpoint` and `ScriptHost` claim no liveness.

## What the violated runs show

1. **A player's id is not its connection's index** (`session_index`). The id is
   the lowest free slot when the *download* has finished, the index the lowest
   free one when the connection was *accepted*. Two clients whose downloads
   finish in the other order get each other's `INITIAL_DATA`, and each one's
   packets act on the other's player. The theorems below show that the code is
   right when joins do not overlap with connections opening and closing.
2. **A lost connection deletes the local player** (`connection_local`), as
   `CGame::Reset` resets the player manager, in which `INITIAL_DATA` put it.
3. **A retry may be the last** (`connection_stuck`): an attempt fails, the timeout
   passes, `Connect` fails at once (`DISCONNECTED`), and `Pulse` overwrites that
   with `CONNECTING`, a state in which nothing is tried again. `StuckExplained`
   says that the only other way to wait for nothing is `ID_ALREADY_CONNECTED`, of
   which `UpdateNetwork` has no case.
4. **A full manager is written past its end** (`checkpoint_overrun`).
5. **A triggered event does not reach Lua** (`scripts_trigger`): `triggerEvent`
   and `triggerGlobalEvent` pass a null pointer for the arguments, which
   `CEventHandler::Call` tests for Squirrel and dereferences for Lua.

Met while modelling, and stated nowhere in the repository as a promise, hence
without a run of their own:

- *Session*: a rename is not checked against the names in use (so `NamesUnique`
  is checked without renames); the menu's disconnect leaves the players of the
  session in the table.
- *Checkpoints*: a report about a checkpoint that was deleted while it was on its
  way has its null pointer dereferenced (`down`); one created before a client's
  snapshot is broadcast to it *and* in the snapshot, and the second copy replaces
  the first, whose marker stays in the game (so `NoMarkerLeaks` has `calm`); one
  hidden while a client joins never appears for it, as the snapshot leaves it out
  and `SHOW` finds no copy. After a disconnection by the menu or by the server the
  copies of that session stay, and are still there in the next one in the slots it
  is told nothing of (`leftover`); where it is told of a checkpoint, the copy is
  replaced and its marker stays in the game, as all visible ones do when
  `CGame::Reset` deletes the copies of a lost connection: `NoMarkerLeaks` names
  these ways, and says that there is no other.
- *Timers*: a timer that is paused, or not started yet, at a pulse is deleted for
  good, and its script's handle dangles; stopping a timer in its own callback
  erases it under the iterator (both are what `Careful` leaves out); a timer whose
  due time wraps fires at every pulse until the clock wraps too (`GapKept` says so).
- *Scripts*: unloading a resource leaves its handlers in Lua behind, with a VM
  that is gone; a resource whose load found no script, or whose reload failed,
  stays listed with a null VM, which the next native call of a script listed
  after it uses; a reload runs its scripts once more for each load before it;
  `removeGlobalEvent` removes the first handler of that name, whosever it is;
  `reloadresource` of a name that is not loaded starts null; `Unload` ends by
  logging the name it has freed; the loop that removes a resource's events goes on
  with the iterator of an event it has erased; a handler that removes itself is
  erased under the loop that called it.
- *Seats*: the packet of a driver whom a script has taken out is relayed with a
  vehicle id that was never written; a key pressed before an exit has ended leaves
  the old vehicle with a stale driver; a packet that names the vehicle the
  watcher's ped is in does not move it to another seat.
- *Console*: `setSyncRate` takes 0, by which the players' pulse then divides.

## What is proved

TLAPS checks the following for every value of the constants that satisfies the
modules' assumptions (`SessionAssumption`, `ConnectionAssumption`,
`CheckpointAssumption`, `TimersAssumption`, `ScriptHostAssumption`,
`SeatsAssumption`, and `NullAssumption` in `Checkpoint`): any number of clients,
names and slots below `INVALID_ENTITY_ID`, any timeout, any width of the clock,
any resources, events, vehicles and bounds. The assumptions say what the constants
are: the null pointer and "no connection" are not players, clients or
checkpoints, the kinds of table entries differ, an interval fits the clock, and a
table has no more slots than an id has values.

**The table.** `FindFreeSlotIsFirstFree`: the slot `FindFreeSlot` returns is
free and none below it is, or every slot is taken and it returns
`INVALID_ENTITY_ID`. The argument is that a nonempty set of naturals has a least
element, from the well-foundedness of `<`.

**The connection.** `LinkAlwaysPolled` and `QueueAlwaysCurrent` follow from
`LinkInvariant`, whose invariant `LinkInv` adds two facts to the two properties
and the types: once the game thread has left the loop of a client that is not
connected, the queue is empty (`DrainedWhenDown`), and an event that ends a link
is queued only while there is none (`EndingMeansIdle`). `QueueIsCurrent` is not
inductive alone: `Connect` opens a new connection over whatever is queued, and
only because the former one's queue was drained first does nothing of it remain.

`RosterAlwaysHeld` adds two parts to it (`RosterInv`). `LastWord`: for each slot,
the last message in the queue that is about it says what the server has told of
it, and where none is queued the client's table has it already; handling the
queue's head, appending to it and emptying it each keep that. `IdFirst`: a server
that has told anything has first told the client its own id, and says nothing
else about that slot, so nothing is written over the local player.

`StuckAlwaysExplained` rests on `WaitInv`: when RakNet holds no link, the last
event it has queued is the one that ended it (`EndingIsLast`), and of those only
`ID_ALREADY_CONNECTED` leaves the client `CONNECTING`.

**The session.** `SessionTypeOK` holds with and without `Quiet`; its one
delicate step is that the slot of a joiner is a natural number even when the
table is full. With `Quiet`, `QuietInvariant` is inductive, and
`QuietSlotIsSystemIndex`, `QuietOnePlayerPerConnection` and
`QuietNoLivePlayerDropped` follow from it. The three properties are about seats
and connections only; what keeps them is what is still queued. `QuietInv` says so:

- two indices never have one connection, a client that has not connected is
  nowhere, and one whose departure is queued has no connection, nor a second
  departure at another index (`PeersDistinct`, `NewUnknown`, `LeaversGone`);
- a join under way (an `INITIAL_DATA` or `DOWNLOAD_FINISH` in the server's queue,
  or a `DOWNLOAD_START` to a client) is that of a connection that is up, and the
  only one; a departure queued in front of it is handled before its download
  starts (`JoinersLinked`, `OneJoiner`);
- all indices below the joiner's are in use, and it has no player
  (`JoinerNext`); a connection that is up and not joining has its player in the
  slot of its index (`MembersSeated`); and a player in a slot is that of the
  connection, or of a departure queued for that index (`PlayersLinked`,
  `LeaversSeated`).

When `DOWNLOAD_FINISH` is handled, no departure is queued, so the slots below the
joiner's index are taken and its own is free: the first free slot is its index.
When a departure is handled, the player in the slot is that of the connection
that left, which is not up: no live player is removed. TLC checked every part of
`QuietInv` on two small instances before it was proved. `Frame`, `Unlink`,
`JoinGoesOn` and `SeatTaken` are the four kinds of step, and each action is
shown to be one of them.

**What the clients show.** The rest is about the clients' tables, which lag behind
the server's by what is on its way. `ViewInvariant` (`ViewInv`) is inductive on top
of `QuietInv`; `QuietNoClientCrash`, `QuietChatUnderAuthor` and
`QuietRosterConverges` follow from it. None of the three is inductive: whether
handling a message goes wrong depends on all the messages in front of it. So the
invariant speaks of every position of a queue: `Told` and `Silent` say what the
last message before it is about a slot, and `Learns` what the client shows there
by the time it has come that far.

- At the end of the queue of a client that has a connection (`InStep`), each slot
  shows what the server has in it (`SeatsLearned`), under its name
  (`NamesLearned`), the client's own slot is the one where the server has it
  (`OwnSlotGiven`), and nothing is shown to one that has not joined.
- At every position (`Sane`), a message that puts somebody into a slot or takes
  somebody out is not about the client's own, and `GET_PLAYERS` and `NEW_PLAYER`
  come behind its id: the head of the queue can always be handled.
- A chat line is behind the arrival of its author and in front of that slot's next
  change (`ChatSeated`). It is, because of the server's own queue: a packet's
  sender still has its index, or its departure is queued behind (`AuthorsFollowed`),
  and a departure is in front of the packets of the index's next holder
  (`PresentLast`), so a line handled in time is attributed to who wrote it.
- The last name a client has sent and the server has not handled, or the one in its
  table, is the client's nickname (`NickLearned`).

Each action appends at most two messages to a channel, or handles its head; the
lemmas on queues say what either does to the last word.

**The refinement.** `QuietImplementsMembership` states that the session implements
`Membership`: the first states map to a first state, and every step to a step of
the abstract session or to none. The handling of an RPC must then do to the set of
members a client shows what the RPC was meant to tell, and `ViewInv` does not say
so: a `DELETE_PLAYER` takes out whoever is in the slot, and a `NEW_PLAYER` replaces
whoever is. `NewsInvariant` (`NewsInv`) adds that

- nobody has two slots: those where the server, its list of connections, a client's
  table and the messages on their way to it have a client are one (`OneSeat`), and
  one that has not connected is in none (`Unheard`);
- the messages about a slot take turns (`TurnsTaken`): one that seats somebody
  comes when the slot is empty, as the client will show it, and a `DELETE_PLAYER`
  names who is in it, or comes when it is empty: a client that connects while the
  report of a loss is queued is told of the departure of somebody it never saw.

The lemmas `Follows...`, one per action, name the abstract step of each: letting a
joiner in is `Enter` and handling a loss `Remove`, unless the slot has no player;
disconnecting and noticing the end are `Quit`, a refusal and a kick `CutOff`, a
download's start, a chat line and a rename `Tell`, and handling an RPC `Show`.

`NamesStayUnique` needs no `Quiet`, but that nobody renames (`MaxActs = 0`): then
no rename is ever queued (`NoRename`), and the one step that puts a player into the
table looks its name up in the same turn of the loop.

**The checkpoints.** `CopiesFollow` and `MarkersOwned` rest on `CopyInv`, about
what is still on its way to a client. A copy that a former connection left does not
count (`Own`). For each client and slot (`WordInv`), what
the client was told of the slot, as the server has it now, is what the last
relevant message in `chan[c]` says, or its own copy if there is none: a `DELETE`
behind every message that makes a copy, for a slot it was told nothing of; else the
`CREATE` or snapshot that makes the present checkpoint, the last message that
places it, and the last that shows or hides it. `Last` states "the last word" once,
for the four facts, with lemmas for a message appended and a message delivered.
A script's call appends one message and changes `told` and the server's table
alike; a join appends the snapshot behind the broadcasts it repeats; a message that
makes or deletes a copy ends what was left over in its slot; and an end of a
connection leaves nothing told and no copy of its own (`OutInv`), whether the copies
stay, as leftovers, or go. `CalmInv` adds that, while `calm`, every message that
makes a copy comes when its slot has no copy of this connection. `MarkersOwned` is
about steps: a copy loses its marker only where `Add` replaces it or `Reset` deletes
it.

**The timers.** `IteratorStays` (`HeldInv`): with `Careful` scripts the list is the
set of living timers, and while a callback runs the iterator is on the timer that
fires, which no script stops; any other change of the list leaves it there.
`CountsExact` (`CountInv`): the firings and the repetitions left add up to those
asked for, one more while the callback runs. `GapsKept` (`GapInv`) needs no such
restriction: a firing less than a turn of the clock ago lies `since` ticks before
the clock, or before the clock and a turn.

**The scripts.** `HandlersStayLive`, `ListedKeepVMs` and `StopsAreExplained` rest
on `HostInv`: a VM that lives is that of a listed resource and of no other, a
resource has no VM or a living one, and none when it has no script files
(`VMInv`) or is not loaded, when `Stop` passes it over (`LoadedInv`); a handler in Squirrel has a living VM (`HandlerInv`); and while the
server runs so do the VMs of the scripts that have been called (`FrameInv`).
Each command is shown to keep it whether it succeeds or fails half-way.
`CallsStayComplete` (`CallInv`): the wanted handlers up to a call's iterator have
been called, and every handler added later is ahead of every iterator.

**The seats.** `SeatsHeld` is about the operators first: each is `Safe` (a view
keeps its vehicle among the seats that list it, keeps that the only one, and
knows where it is getting in), and safety composes; the actions are compositions of
safe operators, but for the key pressed during an exit, which `doubled` records.
`SeatKnown` and `WatcherStaysUp` (`CalmInv`): without scripts only packets are
under way, each about a known vehicle; the local ped is where its client says
unless it is getting in (`OwnSeat`); and a watcher's ped never gets in by itself,
so the vehicle it was put into stays known for as long as it sits (`WatcherSeat`).

**Only model-checked**: all of the liveness (`JoinCompletes`, `DepartedRemoved`,
`RetriesAfterTimeout`, `CountedFinish`, `KeepsFiring`, `WatcherCatchesUp`), as
TLAPS proves nothing about fairness or `ENABLED`. Every other property of a passing
run is a theorem. No definition of the models is recursive, and no theorem is about
one. The theorems that assume `Quiet` do so because the code does not have the
properties otherwise: with the constants of `session_index`, which has `Quiet = FALSE`,
and `MaxActs = 1`, TLC finds each of them violated.

## What is not modelled

- *Vendored libraries*: nearly all of the lines of the repository are copies of
  CEGUI, gwen, the DirectX SDK, RakNet, SQLite, expat, Lua, Squirrel and others
  under `src/Libraries`. They are not the project's own; RakNet is modelled from
  what the code relies on, as is the game.
- *Spawn and death* of players: `PlayerRequestSpawn`, `PlayerDeath` and the local
  player's check for its own death. Players in `Seats` are alive and spawned.
- *Contents of packets*: positions, weapons, health, colours, models, the wire
  format and what is printed are data no property tells apart. The sync rate only
  says how often the packets go out.
- *Blips* repeat the pattern of the checkpoints, and vehicles are created in that
  of the players; `deleteVehicle` is commented out in the source. The snapshot
  of blips and vehicles at a join is not modelled. Actors, objects, pickups, fires
  and labels are stubs.
- *Events*: `CEvents::Remove` has no caller and `Clear` runs at shutdown alone.
- *Resources*: a load finds one script file or none; parsing `meta.xml`, the files
  for clients and their broadcast, and includes (never linked to a resource) are
  left out. Scripts are nondeterministic within the constraints named above.
- *Threads*: that the console's thread meets the main loop without a lock is in
  `ScriptHost`, what comes of it is not; nor is the writer of crash snapshots.
  The wrapper's start and stop are two flags.
- *Downloads, HTTP and the master list* are input and output. *Game hooks, GUI,
  graphics and audio* are calls into another program's binary. *Settings, strings,
  logs and maths* are sequential helpers.

## The plan

1. *Done*: `EntityManager`, `PlayerSession`, `ClientConnection`, `Checkpoint`;
   `Timers`, `ScriptHost`, `Seats`; the abstract session and its refinement;
   their runs, and the theorems above.
2. *Done*: the theorems about what the clients show, and the proof of the
   refinement of `Membership`.
3. *Spawn and death*: `PlayerDeath`, `PlayerRequestSpawn` and the local player's
   death check, with the seat of a player that dies in a vehicle.
4. *The joiner's snapshot as a whole*: players, checkpoints, blips and vehicles
   in the order `DownloadFinished` sends them.
