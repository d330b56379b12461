--------------------------- MODULE PlayerSession ---------------------------
(***************************************************************************)
(* How a player joins, is seen by the others and leaves: the server's      *)
(* network loop and join handlers, its player table, and the player table  *)
(* every client keeps.                                                     *)
(*                                                                         *)
(* Two numbers name a player.  RakNet gives a connection the lowest free   *)
(* system index when it is accepted; CPlayerManager::Add gives the player  *)
(* the lowest free slot when its download has finished.  The code uses one *)
(* for the other everywhere: a packet's system index looks up the player,  *)
(* a player's id addresses the connection.  The properties below say what  *)
(* that costs and when it is right.                                        *)
(*                                                                         *)
(* A client here is one connection: a process that connects again is       *)
(* another client (ClientConnection models reconnecting).                  *)
(***************************************************************************)
EXTENDS Naturals, Sequences, FiniteSets

CONSTANTS
  Client,      \* the connections there will ever be
  Name,        \* the nicknames
  MaxPlayers,  \* "maxplayers", the RakNet peers and the slots of the table
  Outdated,    \* the clients whose NETWORK_VERSION is not the server's
  UnsetId,     \* the id of a local player that has not been given one
  Namesakes,   \* the setting "namesakes"
  Quiet,       \* TRUE: no connection opens or closes while a join is pending
  MaxActs,     \* bound: chat lines and renames, of all clients together
  NoClient, NoPlayer, Local

VARIABLES
  peer,     \* RakNet: the connection behind each system index
  inbox,    \* RakNet: packets the server has not received yet, in order
  players,  \* CServer::m_pPlayerManager
  chan,     \* the reliable ordered RPCs on their way to each client
  phase,    \* "new", "up", "gone" or, after undefined behaviour, "crashed"
  nick,     \* the client's own nickname
  self,     \* the id of the client's local player
  view,     \* the client's CPlayerManager
  acts      \* bound: the chat lines and renames sent so far

vars == <<peer, inbox, players, chan, phase, nick, self, view, acts>>
serverVars == <<peer, inbox, players>>
clientVars == <<phase, nick, self, view, acts>>

(* The table of players; system indices are drawn from the same range.     *)
Table == INSTANCE EntityManager
           WITH MaxEntities <- MaxPlayers, NoEntity <- NoPlayer

Slot == Table!Slot
Index == Slot
InvalidId == Table!INVALID_ENTITY_ID

ASSUME SessionAssumption ==
  /\ MaxPlayers \in 1 .. InvalidId
  /\ Outdated \subseteq Client
  /\ UnsetId \in Nat
  /\ Namesakes \in BOOLEAN /\ Quiet \in BOOLEAN
  /\ MaxActs \in Nat
  /\ NoClient \notin Client
  /\ NoPlayer \notin [name : Name, conn : Client]
  /\ Local \notin [name : Name, conn : Client] \cup {NoPlayer}
-----------------------------------------------------------------------------
(* Values.  The conn field of a player, packet or message is a history     *)
(* field: the client it is about, which the code does not know.            *)

Player == [name : Name, conn : Client]

JoinRpc == {"INITIAL_DATA", "DOWNLOAD_FINISH"}

Packet ==
  [rpc : JoinRpc \cup {"PLAYER_CHAT", "NAME_CHANGE", "LEFT"},
   index : Index, conn : Client, name : Name]

Message ==
       [rpc : {"DOWNLOAD_START"}]
  \cup [rpc : {"INITIAL_DATA"}, id : Nat]
  \cup [rpc : {"DELETE_PLAYER"}, id : Nat, conn : Client]
  \cup [rpc : {"NEW_PLAYER", "NAME_CHANGE", "PLAYER_CHAT"},
        id : Nat, player : Player]
  \cup [rpc : {"GET_PLAYERS"}, roster : [Slot -> Player \cup {NoPlayer}]]

TypeOK ==
  /\ peer \in [Index -> Client \cup {NoClient}]
  /\ inbox \in Seq(Packet)
  /\ players \in [Slot -> Player \cup {NoPlayer}]
  /\ chan \in [Client -> Seq(Message)]
  /\ phase \in [Client -> {"new", "up", "gone", "crashed"}]
  /\ nick \in [Client -> Name]
  /\ self \in [Client -> Nat]
  /\ view \in [Client -> [Slot -> Player \cup {NoPlayer, Local}]]
  /\ acts \in 0 .. MaxActs
-----------------------------------------------------------------------------
(* Sending.                                                                *)

Linked(c) == \E k \in Index : peer[k] = c

(* A packet of client c, tagged with the index its connection has.         *)
PacketOf(c, k, rpc) == [rpc |-> rpc, index |-> k, conn |-> c, name |-> nick[c]]

(* A client's RPC reaches the server's queue while the server knows the    *)
(* connection; otherwise it is lost with the connection.                   *)
Upload(c, rpc, name) ==
  \/ \E k \in Index :
       /\ peer[k] = c
       /\ inbox' = Append(inbox, [PacketOf(c, k, rpc) EXCEPT !.name = name])
  \/ ~ Linked(c) /\ UNCHANGED inbox

(* A mutant: the id is dropped, and the call goes to every connection.     *)
SendToAll(k, messages) ==
  chan' = [c \in Client |-> IF Linked(c) THEN chan[c] \o messages ELSE chan[c]]

(* CNetworkModule::Call to one id: the connection at that system index.    *)
SendTo(k, messages) ==
  chan' = [c \in Client |-> IF k \in Index /\ peer[k] = c
                            THEN chan[c] \o messages ELSE chan[c]]

(* CNetworkModule::Call with bBroadCast: every connection but the one at   *)
(* the given index, joined or not.                                         *)
Broadcast(except, message) ==
  chan' = [c \in Client |-> IF \E k \in Index \ {except} : peer[k] = c
                            THEN Append(chan[c], message) ELSE chan[c]]
-----------------------------------------------------------------------------
Init ==
  /\ peer = [k \in Index |-> NoClient]
  /\ inbox = <<>>
  /\ players = Table!EmptyTable
  /\ chan = [c \in Client |-> <<>>]
  /\ phase = [c \in Client |-> "new"]
  /\ nick \in [Client -> Name]
  /\ self = [c \in Client |-> UnsetId]
  /\ view = [c \in Client |-> Table!EmptyTable]
  /\ acts = 0

(* A join is pending from the client's first packet until the server has   *)
(* handled its DOWNLOAD_FINISH.                                            *)
JoinPending ==
  \/ \E i \in DOMAIN inbox : inbox[i].rpc \in JoinRpc
  \/ \E c \in Client : \E i \in DOMAIN chan[c] :
       chan[c][i].rpc = "DOWNLOAD_START"

MayRelink == Quiet => ~ JoinPending

(* RakNet accepts a connection on the lowest free system index and the     *)
(* client answers the acceptance with its version.                         *)
Connect(c) ==
  /\ MayRelink
  /\ phase[c] = "new"
  /\ \E k \in Index :
       /\ peer[k] = NoClient
       /\ \A lower \in Index : lower < k => peer[lower] # NoClient
       /\ peer' = [peer EXCEPT ![k] = c]
       /\ inbox' = Append(inbox, PacketOf(c, k, "INITIAL_DATA"))
  /\ phase' = [phase EXCEPT ![c] = "up"]
  /\ UNCHANGED <<players, chan, nick, self, view, acts>>

(* The process of a client ends, and its tables with it.                   *)
Exit(c) ==
  /\ phase' = [phase EXCEPT ![c] = "gone"]
  /\ chan' = [chan EXCEPT ![c] = <<>>]
  /\ self' = [self EXCEPT ![c] = UnsetId]
  /\ view' = [view EXCEPT ![c] = Table!EmptyTable]

(* The client quits, crashes or falls silent: the server's RakNet frees    *)
(* the index and queues ID_DISCONNECTION_NOTIFICATION or                   *)
(* ID_CONNECTION_LOST, which the server handles alike.                     *)
Disconnect(c) ==
  /\ MayRelink
  /\ \E k \in Index :
       /\ peer[k] = c
       /\ peer' = [peer EXCEPT ![k] = NoClient]
       /\ inbox' = Append(inbox, PacketOf(c, k, "LEFT"))
  /\ Exit(c)
  /\ UNCHANGED <<players, nick, acts>>

(* A client notices that the server closed its connection.                 *)
NoticeClosed(c) ==
  /\ phase[c] \in {"up", "crashed"} /\ ~ Linked(c)
  /\ Exit(c)
  /\ UNCHANGED <<peer, inbox, players, nick, acts>>
-----------------------------------------------------------------------------
(* The server.  UpdateNetwork takes one packet at a time off the queue and *)
(* runs its handler to the end.                                            *)

Receive(rpc) == inbox # <<>> /\ Head(inbox).rpc = rpc

(* A mutant: the report of the loss comes without the index.               *)
CloseConnectionForgotten(k, queue) ==
  IF k \in Index /\ peer[k] # NoClient
  THEN /\ peer' = [peer EXCEPT ![k] = NoClient]
       /\ inbox' = Append(queue, PacketOf(peer[k], InvalidId, "LEFT"))
  ELSE peer' = peer /\ inbox' = queue

(* CNetworkModule::KickPlayer: RakNet drops the connection at that index   *)
(* and reports the loss on the server's own queue, after queue.            *)
CloseConnection(k, queue) ==
  IF k \in Index /\ peer[k] # NoClient
  THEN /\ peer' = [peer EXCEPT ![k] = NoClient]
       /\ inbox' = Append(queue, PacketOf(peer[k], k, "LEFT"))
  ELSE peer' = peer /\ inbox' = queue

(* A mutant: a client of another version is told, but not disconnected.    *)
InitialDataLenient ==
  /\ Receive("INITIAL_DATA")
  /\ LET p == Head(inbox) IN
     \/ p.conn \in Outdated /\ UNCHANGED chan
     \/ /\ p.conn \notin Outdated
        /\ SendTo(p.index, <<[rpc |-> "DOWNLOAD_START"]>>)
  /\ inbox' = Tail(inbox)
  /\ UNCHANGED <<peer, players, phase, nick, self, view, acts>>

InitialData ==
  /\ Receive("INITIAL_DATA")
  /\ LET p == Head(inbox) IN
     \/ /\ p.conn \in Outdated
        /\ CloseConnection(p.index, Tail(inbox))
        /\ UNCHANGED chan
     \/ /\ p.conn \notin Outdated
        /\ SendTo(p.index, <<[rpc |-> "DOWNLOAD_START"]>>)
        /\ inbox' = Tail(inbox)
        /\ UNCHANGED peer
  /\ UNCHANGED <<players, phase, nick, self, view, acts>>

(* A mutant: the search for the name starts at slot 1.                     *)
NameInUseFromOne(name) ==
  \E s \in Table!Occupied(players) \ {0} : players[s].name = name

NameInUse(name) ==
  \E s \in Table!Occupied(players) : players[s].name = name

(* A mutant: the others are not told of the joiner.                        *)
JoinMessagesSilent(id, joiner, c) ==
  LET others == [players EXCEPT ![id] = NoPlayer] IN
  IF id \in Index /\ peer[id] = c
  THEN <<[rpc |-> "INITIAL_DATA", id |-> id]>>
         \o (IF others = Table!EmptyTable THEN <<>>
             ELSE <<[rpc |-> "GET_PLAYERS", roster |-> others]>>)
  ELSE <<>>

(* A mutant: the joiner is not told of the others.                         *)
JoinMessagesNoRoster(id, joiner, c) ==
  IF id \in Index /\ peer[id] = c
  THEN <<[rpc |-> "INITIAL_DATA", id |-> id]>>
  ELSE IF \E s \in Table!Occupied(players) \ {id} : peer[s] = c
  THEN <<[rpc |-> "NEW_PLAYER", id |-> id, player |-> joiner]>>
  ELSE <<>>

(* What a joiner is sent (its id, then everyone else) and what the others  *)
(* are.  Every address is a player id used as a system index.              *)
JoinMessages(id, joiner, c) ==
  LET others == [players EXCEPT ![id] = NoPlayer] IN
  IF id \in Index /\ peer[id] = c
  THEN <<[rpc |-> "INITIAL_DATA", id |-> id]>>
         \o (IF others = Table!EmptyTable THEN <<>>
             ELSE <<[rpc |-> "GET_PLAYERS", roster |-> others]>>)
  ELSE IF \E s \in Table!Occupied(players) \ {id} : peer[s] = c
  THEN <<[rpc |-> "NEW_PLAYER", id |-> id, player |-> joiner]>>
  ELSE <<>>

DownloadFinished ==
  /\ Receive("DOWNLOAD_FINISH")
  /\ LET p == Head(inbox)
         joiner == [name |-> p.name, conn |-> p.conn]
         id == Table!FindFreeSlot(players)
     IN
     \/ /\ ~ Namesakes /\ NameInUse(p.name)
        /\ CloseConnection(p.index, Tail(inbox))
        /\ UNCHANGED <<players, chan>>
     \/ /\ Namesakes \/ ~ NameInUse(p.name)
        /\ players' = Table!Put(players, id, joiner)
        /\ chan' = [c \in Client |-> chan[c] \o JoinMessages(id, joiner, c)]
        /\ inbox' = Tail(inbox)
        /\ UNCHANGED peer
  /\ UNCHANGED <<phase, nick, self, view, acts>>

(* A mutant: the others are told, but the player stays in the table.       *)
PlayerLeftKept ==
  /\ Receive("LEFT")
  /\ LET k == Head(inbox).index IN
     IF Table!Exists(players, k)
     THEN Broadcast(InvalidId, [rpc |-> "DELETE_PLAYER", id |-> k,
                                conn |-> players[k].conn])
     ELSE UNCHANGED chan
  /\ inbox' = Tail(inbox)
  /\ UNCHANGED <<peer, players, phase, nick, self, view, acts>>

(* ID_DISCONNECTION_NOTIFICATION and ID_CONNECTION_LOST: the player at     *)
(* the packet's system index leaves.                                       *)
PlayerLeft ==
  /\ Receive("LEFT")
  /\ LET k == Head(inbox).index IN
     IF Table!Exists(players, k)
     THEN /\ Broadcast(InvalidId, [rpc |-> "DELETE_PLAYER", id |-> k,
                                   conn |-> players[k].conn])
          /\ players' = Table!Delete(players, k)
     ELSE UNCHANGED <<chan, players>>
  /\ inbox' = Tail(inbox)
  /\ UNCHANGED <<peer, phase, nick, self, view, acts>>

(* The line is shown to everyone unless a "playerChat" handler takes it.   *)
PlayerChat ==
  /\ Receive("PLAYER_CHAT")
  /\ LET p == Head(inbox)
         line == [rpc |-> "PLAYER_CHAT", id |-> p.index,
                  player |-> [name |-> p.name, conn |-> p.conn]]
     IN \/ Table!Exists(players, p.index) /\ Broadcast(InvalidId, line)
        \/ UNCHANGED chan
  /\ inbox' = Tail(inbox)
  /\ UNCHANGED <<peer, players, phase, nick, self, view, acts>>

PlayerChangeName ==
  /\ Receive("NAME_CHANGE")
  /\ LET p == Head(inbox) IN
     IF Table!Exists(players, p.index)
     THEN /\ players' = [players EXCEPT ![p.index].name = p.name]
          /\ Broadcast(p.index,
                       [rpc |-> "NAME_CHANGE", id |-> p.index,
                        player |-> [name |-> p.name, conn |-> p.conn]])
     ELSE UNCHANGED <<players, chan>>
  /\ inbox' = Tail(inbox)
  /\ UNCHANGED <<peer, phase, nick, self, view, acts>>

(* A script kicks the player in slot s, with a notification.               *)
Kick(s) ==
  /\ MayRelink
  /\ Table!Exists(players, s) /\ peer[s] # NoClient
  /\ CloseConnection(s, inbox)
  /\ UNCHANGED <<players, chan, phase, nick, self, view, acts>>

ServerStep ==
  \/ InitialData \/ DownloadFinished \/ PlayerLeft
  \/ PlayerChat \/ PlayerChangeName
-----------------------------------------------------------------------------
(* The clients.  Each handles the RPCs of its connection in order.         *)

(* A client whose player manager deletes its own local player, or writes   *)
(* past the table, goes on with freed memory: it is counted as crashed.    *)
Crash(c) ==
  /\ phase' = [phase EXCEPT ![c] = "crashed"]
  /\ UNCHANGED <<nick, self, view>>

(* CPlayerManager::Add of remote players: what a slot held is deleted.     *)
AddRemote(c, remotes) ==
  \/ /\ \A s \in DOMAIN remotes : s \in Slot /\ view[c][s] # Local
     /\ view' = [view EXCEPT ![c] =
          [s \in Slot |-> IF s \in DOMAIN remotes THEN remotes[s] ELSE @[s]]]
     /\ UNCHANGED <<phase, nick, self>>
  \/ /\ \E s \in DOMAIN remotes : s \notin Slot \/ view[c][s] = Local
     /\ Crash(c)

Pop(c) == chan' = [chan EXCEPT ![c] = Tail(chan[c])]

OnDownloadStart(c) ==
  /\ Upload(c, "DOWNLOAD_FINISH", nick[c])
  /\ UNCHANGED <<phase, nick, self, view>>

(* The local player takes its id and its slot; a remote player in that     *)
(* slot is deleted, and a slot it had before keeps pointing at it.         *)
OnInitialData(c, m) ==
  /\ self' = [self EXCEPT ![c] = m.id]
  /\ view' = [view EXCEPT ![c] = Table!Put(view[c], m.id, Local)]
  /\ UNCHANGED <<inbox, phase, nick>>

(* The list is read in slot order, up to the client's own id if it is in.  *)
OnGetPlayers(c, m) ==
  LET listed == Table!Occupied(m.roster)
      read == {s \in listed : self[c] \in listed => s < self[c]}
  IN AddRemote(c, [s \in read |-> m.roster[s]]) /\ UNCHANGED inbox

OnNewPlayer(c, m) ==
  /\ \/ m.id = self[c] /\ UNCHANGED <<phase, nick, self, view>>
     \/ m.id # self[c] /\ AddRemote(c, [s \in {m.id} |-> m.player])
  /\ UNCHANGED inbox

OnDeletePlayer(c, m) ==
  /\ \/ view[c][m.id] = Local /\ Crash(c)
     \/ /\ view[c][m.id] # Local
        /\ view' = [view EXCEPT ![c] = Table!Delete(view[c], m.id)]
        /\ UNCHANGED <<phase, nick, self>>
  /\ UNCHANGED inbox

OnNameChange(c, m) ==
  /\ \/ view[c][m.id] = NoPlayer /\ UNCHANGED <<nick, view>>
     \/ /\ view[c][m.id] = Local
        /\ nick' = [nick EXCEPT ![c] = m.player.name]
        /\ UNCHANGED view
     \/ /\ view[c][m.id] \notin {NoPlayer, Local}
        /\ view' = [view EXCEPT ![c][m.id].name = m.player.name]
        /\ UNCHANGED nick
  /\ UNCHANGED <<inbox, phase, self>>

(* The line is printed under the player the client has in that slot.       *)
OnChat(c) == UNCHANGED <<inbox, phase, nick, self, view>>

Deliver(c) ==
  /\ phase[c] = "up" /\ chan[c] # <<>>
  /\ Pop(c)
  /\ LET m == Head(chan[c]) IN
     \/ m.rpc = "DOWNLOAD_START" /\ OnDownloadStart(c)
     \/ m.rpc = "INITIAL_DATA" /\ OnInitialData(c, m)
     \/ m.rpc = "GET_PLAYERS" /\ OnGetPlayers(c, m)
     \/ m.rpc = "NEW_PLAYER" /\ OnNewPlayer(c, m)
     \/ m.rpc = "DELETE_PLAYER" /\ OnDeletePlayer(c, m)
     \/ m.rpc = "NAME_CHANGE" /\ OnNameChange(c, m)
     \/ m.rpc = "PLAYER_CHAT" /\ OnChat(c)
  /\ UNCHANGED <<peer, players, acts>>

MayAct(c) ==
  /\ phase[c] = "up" /\ acts < MaxActs
  /\ acts' = acts + 1

Chat(c) ==
  /\ MayAct(c)
  /\ Upload(c, "PLAYER_CHAT", nick[c])
  /\ UNCHANGED <<peer, players, chan, phase, nick, self, view>>

ChangeNick(c, name) ==
  /\ MayAct(c)
  /\ nick' = [nick EXCEPT ![c] = name]
  /\ Upload(c, "NAME_CHANGE", name)
  /\ UNCHANGED <<peer, players, chan, phase, self, view>>
-----------------------------------------------------------------------------
ClientStep(c) ==
  \/ Connect(c) \/ Disconnect(c) \/ NoticeClosed(c)
  \/ Deliver(c) \/ Chat(c)
  \/ \E name \in Name : ChangeNick(c, name)

Next ==
  \/ ServerStep
  \/ \E s \in Slot : Kick(s)
  \/ \E c \in Client : ClientStep(c)

Spec == Init /\ [][Next]_vars

(* The server's main loop always comes back to the network, and a client   *)
(* handles what has reached it.                                            *)
Fairness == WF_vars(ServerStep) /\ \A c \in Client : WF_vars(Deliver(c))

FairSpec == Spec /\ Fairness
-----------------------------------------------------------------------------
(* Properties.                                                             *)

Joined(c) == \E s \in Slot : view[c][s] = Local

Settled(c) == inbox = <<>> /\ chan[c] = <<>> /\ phase[c] = "up" /\ Linked(c)

(* A player sits in the slot with its connection's system index, or its    *)
(* departure is still queued: the lookups by guid.systemIndex and the      *)
(* sends to GetId() reach the right client (CNetworkRPC.cpp,               *)
(* CNetworkModule.cpp).                                                    *)
SlotIsSystemIndex ==
  \A s \in Table!Occupied(players) :
    \/ peer[s] = players[s].conn
    \/ \E i \in DOMAIN inbox :
         inbox[i].rpc = "LEFT" /\ inbox[i].index = s
         /\ inbox[i].conn = players[s].conn

(* One connection never has two players (DownloadFinished has no guard     *)
(* against being called twice).                                            *)
OnePlayerPerConnection ==
  \A s, t \in Table!Occupied(players) :
    players[s].conn = players[t].conn => s = t

(* With nothing on its way, a joined client shows exactly the server's     *)
(* players, under their current names, and itself as the server knows it:  *)
(* the snapshot of GET_PLAYERS and the later RPCs leave no gap.            *)
RosterConverges ==
  \A c \in Client : Settled(c) /\ Joined(c) =>
    /\ players[self[c]] = [name |-> nick[c], conn |-> c]
    /\ \A s \in Slot \ {self[c]} : view[c][s] = players[s]
    /\ view[c][self[c]] = Local

(* No sequence of server messages makes a client delete its own local      *)
(* player or write past its table.                                         *)
NoClientCrash == \A c \in Client : phase[c] # "crashed"

(* When a chat line reaches a client that has joined, the player it is     *)
(* printed under is its author.                                            *)
ChatUnderAuthor ==
  \A c \in Client :
    chan[c] # <<>> /\ phase[c] = "up" /\ Joined(c) =>
      LET m == Head(chan[c]) IN
        m.rpc = "PLAYER_CHAT" =>
          LET shown == view[c][m.id] IN
            \/ shown = Local /\ m.player.conn = c
            \/ shown \notin {Local, NoPlayer} /\ shown.conn = m.player.conn

(* A player whose connection is up is never taken out of the table or      *)
(* replaced by another's.                                                  *)
NoLivePlayerDropped ==
  [][\A s \in Table!Occupied(players) : Linked(players[s].conn) =>
       players'[s] # NoPlayer /\ players'[s].conn = players[s].conn]_vars

(* With namesakes off, two players never have the same name.               *)
NamesUnique ==
  ~ Namesakes =>
    \A s, t \in Table!Occupied(players) :
      players[s].name = players[t].name => s = t

(* A client that is let in gets its id: every connection is refused,       *)
(* closed, or told who it is.                                              *)
JoinCompletes ==
  \A c \in Client :
    (phase[c] = "up") ~> (Joined(c) \/ phase[c] # "up" \/ ~ Linked(c))

(* A player whose connection is gone leaves the table.                     *)
DepartedRemoved ==
  \A c \in Client :
    (phase[c] = "gone") ~>
      [](\A s \in Table!Occupied(players) : players[s].conn # c)
=============================================================================
