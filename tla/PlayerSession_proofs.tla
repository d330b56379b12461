------------------------- MODULE PlayerSession_proofs -------------------------
(***************************************************************************)
(* Proofs about PlayerSession: every variable keeps to its type and names  *)
(* stay unique, whatever the order in which connections open, close and    *)
(* join; and, when joins do not overlap with that, connections and seats   *)
(* stay in step.  SessionViews_proofs goes on to what the clients show.    *)
(***************************************************************************)
EXTENDS PlayerSession, TLAPS

Facts == INSTANCE EntityManager_proofs
           WITH MaxEntities <- MaxPlayers, NoEntity <- NoPlayer

Roster == [Slot -> Player \cup {NoPlayer}]
-----------------------------------------------------------------------------
(* Sequences.                                                              *)

LEMMA AppendFacts ==
  ASSUME NEW S, NEW s \in Seq(S), NEW e \in S
  PROVE  /\ Append(s, e) \in Seq(S)
         /\ DOMAIN s \subseteq DOMAIN Append(s, e)
         /\ Len(s) + 1 \in DOMAIN Append(s, e)
         /\ Append(s, e)[Len(s) + 1] = e
         /\ \A i \in DOMAIN s : i <= Len(s) /\ Append(s, e)[i] = s[i]
         /\ \A i \in DOMAIN Append(s, e) : i \in DOMAIN s \/ i = Len(s) + 1
OBVIOUS

LEMMA TailFacts ==
  ASSUME NEW S, NEW s \in Seq(S), s # <<>>
  PROVE  /\ Head(s) \in S /\ 1 \in DOMAIN s /\ Head(s) = s[1]
         /\ Tail(s) \in Seq(S)
         /\ \A i \in DOMAIN Tail(s) : i \in Nat /\ i + 1 \in DOMAIN s
                                      /\ Tail(s)[i] = s[i + 1]
         /\ \A i \in DOMAIN s : i = 1 \/ \E j \in DOMAIN Tail(s) :
                                           j + 1 = i /\ Tail(s)[j] = s[i]
<1>1. Len(s) \in Nat \ {0} /\ DOMAIN s = 1 .. Len(s)
  OBVIOUS
<1>2. Head(s) = s[1] /\ s[1] \in S
  BY <1>1
<1>3. Tail(s) \in Seq(S) /\ Len(Tail(s)) = Len(s) - 1
  BY <1>1
<1>4. DOMAIN Tail(s) = 1 .. Len(s) - 1
  BY <1>3
<1>5. \A i \in 1 .. Len(s) - 1 : Tail(s)[i] = s[i + 1]
  BY <1>1
<1>6. \A i \in DOMAIN s : i # 1 => i - 1 \in 1 .. Len(s) - 1 /\ (i - 1) + 1 = i
  BY <1>1
<1> QED BY <1>1, <1>2, <1>3, <1>4, <1>5, <1>6

LEMMA ConcatFacts ==
  ASSUME NEW S, NEW s \in Seq(S), NEW t \in Seq(S)
  PROVE  /\ s \o t \in Seq(S)
         /\ DOMAIN s \subseteq DOMAIN (s \o t)
         /\ \A i \in DOMAIN s : (s \o t)[i] = s[i]
         /\ \A i \in DOMAIN (s \o t) :
              \/ i \in DOMAIN s
              \/ \E j \in DOMAIN t : i = Len(s) + j /\ (s \o t)[i] = t[j]
<1>1. /\ Len(s) \in Nat /\ DOMAIN s = 1 .. Len(s)
      /\ Len(t) \in Nat /\ DOMAIN t = 1 .. Len(t)
  OBVIOUS
<1>2. s \o t \in Seq(S) /\ Len(s \o t) = Len(s) + Len(t)
  OBVIOUS
<1>3. DOMAIN (s \o t) = 1 .. Len(s) + Len(t)
  BY <1>2
<1>4. \A i \in 1 .. Len(s) : (s \o t)[i] = s[i]
  OBVIOUS
<1>5. ASSUME NEW i \in DOMAIN (s \o t), i \notin DOMAIN s
      PROVE  /\ i - Len(s) \in DOMAIN t /\ i = Len(s) + (i - Len(s))
             /\ (s \o t)[i] = t[i - Len(s)]
  <2>1. /\ i \in Nat /\ i <= Len(s) + Len(t) /\ i > Len(s)
        /\ i - Len(s) \in 1 .. Len(t) /\ i = Len(s) + (i - Len(s))
    BY <1>1, <1>3, <1>5
  <2> QED BY <2>1, <1>1, SMTT(30)
<1> QED BY <1>1, <1>2, <1>3, <1>4, <1>5

LEMMA UpdateOutside ==
  ASSUME NEW S, NEW T, NEW f \in [S -> T], NEW x, x \notin S, NEW y
  PROVE  [f EXCEPT ![x] = y] \in [S -> T]
OBVIOUS

LEMMA OneFacts ==
  ASSUME NEW S, NEW e \in S
  PROVE  <<e>> \in Seq(S) /\ DOMAIN <<e>> = {1} /\ <<e>>[1] = e
OBVIOUS
-----------------------------------------------------------------------------
(* Constants and values.                                                   *)

LEMMA SlotsAreNat ==
  /\ MaxPlayers \in Nat /\ Slot = 0 .. MaxPlayers - 1 /\ Slot \subseteq Nat
  /\ InvalidId \in Nat /\ InvalidId \notin Slot
<1>1. InvalidId \in Nat
  BY DEF InvalidId, Table!INVALID_ENTITY_ID
<1>2. MaxPlayers \in 1 .. InvalidId
  BY SessionAssumption DEF SessionAssumption
<1>3. MaxPlayers \in Nat /\ MaxPlayers <= InvalidId
  BY <1>1, <1>2
<1>4. Slot = 0 .. MaxPlayers - 1
  BY DEF Slot, Table!Slot
<1> QED BY <1>1, <1>3, <1>4

(* The joiner gets the first free slot, or none is free.                   *)
LEMMA FreeSlot ==
  \/ /\ Table!FindFreeSlot(players) \in Slot
     /\ Table!IsFirstFree(players, Table!FindFreeSlot(players))
  \/ /\ \A id \in Slot : players[id] # NoPlayer
     /\ Table!FindFreeSlot(players) = InvalidId
<1>1. /\ \/ /\ Facts!FindFreeSlot(players) \in Facts!Slot
            /\ Facts!IsFirstFree(players, Facts!FindFreeSlot(players))
         \/ /\ \A id \in Facts!Slot : players[id] # NoPlayer
            /\ Facts!FindFreeSlot(players) = Facts!INVALID_ENTITY_ID
  BY SlotsAreNat, Facts!FindFreeSlotIsFirstFree
<1>2. Facts!Slot = Slot /\ Facts!INVALID_ENTITY_ID = InvalidId
  BY DEF Facts!Slot, Slot, Table!Slot, Facts!INVALID_ENTITY_ID, InvalidId,
         Table!INVALID_ENTITY_ID
<1>3. \A id : Facts!IsFirstFree(players, id) <=> Table!IsFirstFree(players, id)
  BY DEF Facts!IsFirstFree, Table!IsFirstFree, Facts!Slot, Table!Slot
<1>4. Facts!FindFreeSlot(players) = Table!FindFreeSlot(players)
  BY DEF Facts!FindFreeSlot, Table!FindFreeSlot, Facts!IsFirstFree,
         Table!IsFirstFree, Facts!Slot, Table!Slot, Facts!INVALID_ENTITY_ID,
         Table!INVALID_ENTITY_ID
<1> QED BY <1>1, <1>2, <1>3, <1>4

LEMMA MessageFields ==
  ASSUME NEW m \in Message
  PROVE  /\ m.rpc \in {"INITIAL_DATA", "DELETE_PLAYER", "NEW_PLAYER",
                       "NAME_CHANGE", "PLAYER_CHAT"} => m.id \in Nat
         /\ m.rpc \in {"NEW_PLAYER", "NAME_CHANGE", "PLAYER_CHAT"} =>
              m.player \in Player
         /\ m.rpc = "GET_PLAYERS" => m.roster \in Roster
BY DEF Message, Roster

LEMMA PlayerFields ==
  ASSUME NEW p \in Player
  PROVE  p.name \in Name /\ p.conn \in Client
BY DEF Player

LEMMA PacketTyped ==
  ASSUME TypeOK, NEW c \in Client, NEW k \in Index, NEW rpc, NEW name \in Name,
         rpc \in JoinRpc \cup {"PLAYER_CHAT", "NAME_CHANGE", "LEFT"}
  PROVE  /\ PacketOf(c, k, rpc) \in Packet
         /\ [PacketOf(c, k, rpc) EXCEPT !.name = name] \in Packet
BY DEF TypeOK, PacketOf, Packet
-----------------------------------------------------------------------------
(* Types: one step per action.                                             *)

LEMMA SendToTyped ==
  ASSUME TypeOK, NEW k, NEW messages \in Seq(Message), SendTo(k, messages)
  PROVE  chan' \in [Client -> Seq(Message)]
<1>1. \A c \in Client : chan[c] \in Seq(Message)
                       /\ chan[c] \o messages \in Seq(Message)
  BY ConcatFacts DEF TypeOK
<1> QED BY <1>1 DEF SendTo

LEMMA BroadcastTyped ==
  ASSUME TypeOK, NEW k, NEW message \in Message, Broadcast(k, message)
  PROVE  chan' \in [Client -> Seq(Message)]
<1>1. \A c \in Client : chan[c] \in Seq(Message)
                       /\ Append(chan[c], message) \in Seq(Message)
  BY AppendFacts DEF TypeOK
<1> QED BY <1>1 DEF Broadcast

LEMMA UploadTyped ==
  ASSUME TypeOK, NEW c \in Client, NEW rpc, NEW name \in Name, Upload(c, rpc, name),
         rpc \in JoinRpc \cup {"PLAYER_CHAT", "NAME_CHANGE", "LEFT"}
  PROVE  inbox' \in Seq(Packet)
<1>1. inbox \in Seq(Packet)
  BY DEF TypeOK
<1>2. ASSUME NEW k \in Index
      PROVE  Append(inbox, [PacketOf(c, k, rpc) EXCEPT !.name = name]) \in Seq(Packet)
  <2>1. [PacketOf(c, k, rpc) EXCEPT !.name = name] \in Packet
    BY PacketTyped
  <2> QED BY <1>1, <2>1, AppendFacts
<1> QED BY <1>1, <1>2 DEF Upload

LEMMA CloseTyped ==
  ASSUME TypeOK, NEW k, NEW queue \in Seq(Packet), CloseConnection(k, queue)
  PROVE  peer' \in [Index -> Client \cup {NoClient}] /\ inbox' \in Seq(Packet)
<1>1. CASE k \in Index /\ peer[k] # NoClient
  <2>1. peer[k] \in Client
    BY <1>1 DEF TypeOK
  <2>2. Append(queue, PacketOf(peer[k], k, "LEFT")) \in Seq(Packet)
    <3>1. PacketOf(peer[k], k, "LEFT") \in Packet
      BY <1>1, <2>1 DEF TypeOK, PacketOf, Packet
    <3> QED BY <3>1, AppendFacts
  <2>3. /\ peer' = [peer EXCEPT ![k] = NoClient]
        /\ inbox' = Append(queue, PacketOf(peer[k], k, "LEFT"))
    BY <1>1 DEF CloseConnection
  <2>4. peer' \in [Index -> Client \cup {NoClient}]
    BY <1>1, <2>3 DEF TypeOK
  <2> QED BY <2>2, <2>3, <2>4
<1>2. CASE ~ (k \in Index /\ peer[k] # NoClient)
  BY <1>2 DEF CloseConnection, TypeOK
<1> QED BY <1>1, <1>2

LEMMA InitTyped == Init => TypeOK
<1> SUFFICES ASSUME Init PROVE TypeOK
  OBVIOUS
<1>1. inbox \in Seq(Packet) /\ chan \in [Client -> Seq(Message)]
  BY DEF Init
<1>2. Table!EmptyTable \in [Slot -> {NoPlayer}]
  BY DEF Table!EmptyTable, Slot
<1>3. UnsetId \in Nat /\ acts \in 0 .. MaxActs
  <2>1. UnsetId \in Nat /\ MaxActs \in Nat
    BY SessionAssumption DEF SessionAssumption
  <2> QED BY <2>1 DEF Init
<1> QED BY <1>1, <1>2, <1>3 DEF Init, TypeOK

LEMMA ExitTyped ==
  ASSUME TypeOK, NEW c \in Client, Exit(c)
  PROVE  /\ phase' \in [Client -> {"new", "up", "gone", "crashed"}]
         /\ chan' \in [Client -> Seq(Message)]
         /\ self' \in [Client -> Nat]
         /\ view' \in [Client -> [Slot -> Player \cup {NoPlayer, Local}]]
<1>1. Table!EmptyTable \in [Slot -> {NoPlayer}]
  BY DEF Table!EmptyTable, Slot
<1>2. UnsetId \in Nat /\ <<>> \in Seq(Message)
  <2>1. UnsetId \in Nat
    BY SessionAssumption DEF SessionAssumption
  <2>2. <<>> \in Seq(Message)
    OBVIOUS
  <2> QED BY <2>1, <2>2
<1>3. phase' \in [Client -> {"new", "up", "gone", "crashed"}]
  BY DEF Exit, TypeOK
<1>4. chan' \in [Client -> Seq(Message)] /\ self' \in [Client -> Nat]
  BY <1>2 DEF Exit, TypeOK
<1>5. view' \in [Client -> [Slot -> Player \cup {NoPlayer, Local}]]
  BY <1>1 DEF Exit, TypeOK
<1> QED BY <1>3, <1>4, <1>5

LEMMA ConnectTyped ==
  ASSUME TypeOK, NEW c \in Client, Connect(c)
  PROVE  TypeOK'
<1>1. PICK k \in Index : peer' = [peer EXCEPT ![k] = c]
                        /\ inbox' = Append(inbox, PacketOf(c, k, "INITIAL_DATA"))
  BY DEF Connect
<1>2. peer' \in [Index -> Client \cup {NoClient}]
  BY <1>1 DEF TypeOK
<1>3. inbox' \in Seq(Packet)
  <2>1. PacketOf(c, k, "INITIAL_DATA") \in Packet
    BY DEF TypeOK, PacketOf, Packet, JoinRpc
  <2> QED BY <1>1, <2>1, AppendFacts DEF TypeOK
<1>4. phase' \in [Client -> {"new", "up", "gone", "crashed"}]
  BY DEF Connect, TypeOK
<1> QED BY <1>2, <1>3, <1>4 DEF Connect, TypeOK

LEMMA DisconnectTyped ==
  ASSUME TypeOK, NEW c \in Client, Disconnect(c)
  PROVE  TypeOK'
<1>1. PICK k \in Index : peer' = [peer EXCEPT ![k] = NoClient]
                        /\ inbox' = Append(inbox, PacketOf(c, k, "LEFT"))
  BY DEF Disconnect
<1>2. peer' \in [Index -> Client \cup {NoClient}]
  BY <1>1 DEF TypeOK
<1>3. inbox' \in Seq(Packet)
  <2>1. PacketOf(c, k, "LEFT") \in Packet
    BY DEF TypeOK, PacketOf, Packet
  <2> QED BY <1>1, <2>1, AppendFacts DEF TypeOK
<1>4. Exit(c) /\ UNCHANGED <<players, nick, acts>>
  BY DEF Disconnect
<1> QED BY <1>2, <1>3, <1>4, ExitTyped DEF TypeOK

LEMMA NoticeClosedTyped ==
  ASSUME TypeOK, NEW c \in Client, NoticeClosed(c)
  PROVE  TypeOK'
<1>1. Exit(c) /\ UNCHANGED <<peer, inbox, players, nick, acts>>
  BY DEF NoticeClosed
<1> QED BY <1>1, ExitTyped DEF TypeOK

LEMMA ReceivedTyped ==
  ASSUME TypeOK, inbox # <<>>
  PROVE  /\ Tail(inbox) \in Seq(Packet) /\ Head(inbox) \in Packet
         /\ Head(inbox).index \in Index /\ Head(inbox).conn \in Client
         /\ Head(inbox).name \in Name
<1>1. Tail(inbox) \in Seq(Packet) /\ Head(inbox) \in Packet
  BY TailFacts DEF TypeOK
<1> QED BY <1>1 DEF Packet

LEMMA InitialDataTyped == TypeOK /\ InitialData => TypeOK'
<1> SUFFICES ASSUME TypeOK, InitialData PROVE TypeOK'
  OBVIOUS
<1> DEFINE k == Head(inbox).index
<1>1. Tail(inbox) \in Seq(Packet) /\ UNCHANGED <<players, phase, nick, self, view, acts>>
  BY ReceivedTyped DEF InitialData, Receive
<1>2. CASE CloseConnection(k, Tail(inbox)) /\ UNCHANGED chan
  <2>1. peer' \in [Index -> Client \cup {NoClient}] /\ inbox' \in Seq(Packet)
    BY <1>1, <1>2, CloseTyped
  <2> QED BY <1>1, <1>2, <2>1 DEF TypeOK
<1>3. CASE SendTo(k, <<[rpc |-> "DOWNLOAD_START"]>>) /\ inbox' = Tail(inbox)
           /\ UNCHANGED peer
  <2>1. [rpc |-> "DOWNLOAD_START"] \in Message
    BY DEF Message
  <2>2. <<[rpc |-> "DOWNLOAD_START"]>> \in Seq(Message)
    BY <2>1, OneFacts
  <2>3. chan' \in [Client -> Seq(Message)]
    BY <1>3, <2>2, SendToTyped
  <2> QED BY <1>1, <1>3, <2>3 DEF TypeOK
<1> QED BY <1>2, <1>3 DEF InitialData

LEMMA JoinMessagesTyped ==
  ASSUME TypeOK, NEW id \in Nat, NEW joiner \in Player, NEW c \in Client
  PROVE  JoinMessages(id, joiner, c) \in Seq(Message)
<1> DEFINE others == [players EXCEPT ![id] = NoPlayer]
           given == <<[rpc |-> "INITIAL_DATA", id |-> id]>>
           listed == <<[rpc |-> "GET_PLAYERS", roster |-> others]>>
           told == <<[rpc |-> "NEW_PLAYER", id |-> id, player |-> joiner]>>
<1>1. others \in Roster
  BY DEF TypeOK, Roster
<1>2. given \in Seq(Message) /\ told \in Seq(Message) /\ <<>> \in Seq(Message)
  BY OneFacts DEF Message
<1>3. listed \in Seq(Message)
  <2>1. [rpc |-> "GET_PLAYERS", roster |-> others] \in Message
    BY <1>1 DEF Message, Roster
  <2> QED BY <2>1, OneFacts
<1>4. given \o listed \in Seq(Message) /\ given \o <<>> \in Seq(Message)
  BY <1>2, <1>3, ConcatFacts
<1> HIDE DEF given, listed, told
<1> QED BY <1>2, <1>4 DEF JoinMessages, given, listed, told

LEMMA DownloadFinishedTyped == TypeOK /\ DownloadFinished => TypeOK'
<1> SUFFICES ASSUME TypeOK, DownloadFinished PROVE TypeOK'
  OBVIOUS
<1> DEFINE p == Head(inbox)
           joiner == [name |-> p.name, conn |-> p.conn]
           id == Table!FindFreeSlot(players)
<1>1. /\ Tail(inbox) \in Seq(Packet) /\ p.name \in Name /\ p.conn \in Client
      /\ UNCHANGED <<phase, nick, self, view, acts>>
  BY ReceivedTyped DEF DownloadFinished, Receive
<1>2. CASE CloseConnection(p.index, Tail(inbox)) /\ UNCHANGED <<players, chan>>
  <2>1. peer' \in [Index -> Client \cup {NoClient}] /\ inbox' \in Seq(Packet)
    BY <1>1, <1>2, CloseTyped
  <2> QED BY <1>1, <1>2, <2>1 DEF TypeOK
<1>3. CASE /\ players' = Table!Put(players, id, joiner)
           /\ chan' = [c \in Client |-> chan[c] \o JoinMessages(id, joiner, c)]
           /\ inbox' = Tail(inbox) /\ UNCHANGED peer
  <2>1. joiner \in Player
    BY <1>1 DEF Player
  <2>2. id \in Nat
    BY FreeSlot, SlotsAreNat
  <2> HIDE DEF joiner, id
  <2>3. players' \in [Slot -> Player \cup {NoPlayer}]
    BY <1>3, <2>1 DEF Table!Put, TypeOK
  <2>4. \A c \in Client : chan[c] \o JoinMessages(id, joiner, c) \in Seq(Message)
    BY <2>1, <2>2, JoinMessagesTyped, ConcatFacts DEF TypeOK
  <2>5. chan' \in [Client -> Seq(Message)]
    BY <1>3, <2>4
  <2> QED BY <1>1, <1>3, <2>3, <2>5 DEF TypeOK
<1> QED BY <1>2, <1>3 DEF DownloadFinished

LEMMA PlayerLeftTyped == TypeOK /\ PlayerLeft => TypeOK'
<1> SUFFICES ASSUME TypeOK, PlayerLeft PROVE TypeOK'
  OBVIOUS
<1> DEFINE k == Head(inbox).index
           gone == [rpc |-> "DELETE_PLAYER", id |-> k, conn |-> players[k].conn]
<1>1. /\ inbox' = Tail(inbox) /\ inbox' \in Seq(Packet) /\ k \in Index
      /\ UNCHANGED <<peer, phase, nick, self, view, acts>>
  BY ReceivedTyped DEF PlayerLeft, Receive
<1>2. CASE /\ Table!Exists(players, k)
           /\ Broadcast(InvalidId, gone)
           /\ players' = Table!Delete(players, k)
  <2>1. gone \in Message
    <3>1. players[k] \in Player
      BY <1>2 DEF TypeOK, Table!Exists, Slot, Table!Slot
    <3> QED BY <1>1, <3>1, SlotsAreNat DEF Message, Index, Player
  <2>2. chan' \in [Client -> Seq(Message)]
    BY <1>2, <2>1, BroadcastTyped
  <2>3. players' \in [Slot -> Player \cup {NoPlayer}]
    BY <1>2 DEF Table!Delete, TypeOK
  <2> QED BY <1>1, <2>2, <2>3 DEF TypeOK
<1>3. CASE UNCHANGED <<chan, players>>
  BY <1>1, <1>3 DEF TypeOK
<1> QED BY <1>2, <1>3 DEF PlayerLeft

LEMMA PlayerChatTyped == TypeOK /\ PlayerChat => TypeOK'
<1> SUFFICES ASSUME TypeOK, PlayerChat PROVE TypeOK'
  OBVIOUS
<1> DEFINE p == Head(inbox)
           line == [rpc |-> "PLAYER_CHAT", id |-> p.index,
                    player |-> [name |-> p.name, conn |-> p.conn]]
<1>1. /\ inbox' = Tail(inbox) /\ inbox' \in Seq(Packet)
      /\ p.index \in Index /\ p.name \in Name /\ p.conn \in Client
      /\ UNCHANGED <<peer, players, phase, nick, self, view, acts>>
  BY ReceivedTyped DEF PlayerChat, Receive
<1>2. line \in Message
  BY <1>1, SlotsAreNat DEF Message, Player, Index
<1>3. chan' \in [Client -> Seq(Message)]
  <2>1. Broadcast(InvalidId, line) \/ UNCHANGED chan
    BY DEF PlayerChat
  <2> HIDE DEF line
  <2> QED BY <1>2, <2>1, BroadcastTyped DEF TypeOK
<1> QED BY <1>1, <1>3 DEF TypeOK

LEMMA PlayerChangeNameTyped == TypeOK /\ PlayerChangeName => TypeOK'
<1> SUFFICES ASSUME TypeOK, PlayerChangeName PROVE TypeOK'
  OBVIOUS
<1> DEFINE p == Head(inbox)
           news == [rpc |-> "NAME_CHANGE", id |-> p.index,
                    player |-> [name |-> p.name, conn |-> p.conn]]
<1>1. /\ inbox' = Tail(inbox) /\ inbox' \in Seq(Packet)
      /\ p.index \in Index /\ p.name \in Name /\ p.conn \in Client
      /\ UNCHANGED <<peer, phase, nick, self, view, acts>>
  BY ReceivedTyped DEF PlayerChangeName, Receive
<1>2. news \in Message
  BY <1>1, SlotsAreNat DEF Message, Player, Index
<1>3. CASE /\ Table!Exists(players, p.index)
           /\ players' = [players EXCEPT ![p.index].name = p.name]
           /\ Broadcast(p.index, news)
  <2> HIDE DEF news
  <2>1. chan' \in [Client -> Seq(Message)]
    BY <1>2, <1>3, BroadcastTyped
  <2>2. players[p.index] \in Player
    BY <1>3 DEF TypeOK, Table!Exists, Slot
  <2>3. [players[p.index] EXCEPT !.name = p.name] \in Player
    BY <1>1, <2>2 DEF Player
  <2>4. players' \in [Slot -> Player \cup {NoPlayer}]
    BY <1>3, <2>3 DEF TypeOK
  <2> QED BY <1>1, <2>1, <2>4 DEF TypeOK
<1>4. CASE UNCHANGED <<players, chan>>
  BY <1>1, <1>4 DEF TypeOK
<1> QED BY <1>3, <1>4 DEF PlayerChangeName

LEMMA KickTyped ==
  ASSUME TypeOK, NEW s \in Slot, Kick(s)
  PROVE  TypeOK'
<1>1. CloseConnection(s, inbox) /\ inbox \in Seq(Packet)
      /\ UNCHANGED <<players, chan, phase, nick, self, view, acts>>
  BY DEF Kick, TypeOK
<1>2. peer' \in [Index -> Client \cup {NoClient}] /\ inbox' \in Seq(Packet)
  BY <1>1, CloseTyped
<1> QED BY <1>1, <1>2 DEF TypeOK

(* What a client's handlers do to its own variables.                       *)
ClientTyped ==
  /\ phase \in [Client -> {"new", "up", "gone", "crashed"}]
  /\ nick \in [Client -> Name]
  /\ self \in [Client -> Nat]
  /\ view \in [Client -> [Slot -> Player \cup {NoPlayer, Local}]]

LEMMA CrashTyped ==
  ASSUME TypeOK, NEW c \in Client, Crash(c)
  PROVE  ClientTyped'
BY DEF TypeOK, Crash, ClientTyped

LEMMA AddRemoteTyped ==
  ASSUME TypeOK, NEW c \in Client, NEW T \in SUBSET Nat,
         NEW remotes \in [T -> Player], AddRemote(c, remotes)
  PROVE  ClientTyped'
<1>1. CASE /\ view' = [view EXCEPT ![c] =
                [s \in Slot |-> IF s \in DOMAIN remotes THEN remotes[s] ELSE @[s]]]
           /\ UNCHANGED <<phase, nick, self>>
  <2>1. [s \in Slot |-> IF s \in DOMAIN remotes THEN remotes[s] ELSE view[c][s]]
          \in [Slot -> Player \cup {NoPlayer, Local}]
    <3>1. view[c] \in [Slot -> Player \cup {NoPlayer, Local}]
      BY DEF TypeOK
    <3>2. ASSUME NEW s \in Slot
          PROVE  (IF s \in DOMAIN remotes THEN remotes[s] ELSE view[c][s])
                   \in Player \cup {NoPlayer, Local}
      BY <3>1
    <3> QED BY <3>2
  <2>2. view' \in [Client -> [Slot -> Player \cup {NoPlayer, Local}]]
    BY <1>1, <2>1 DEF TypeOK
  <2> QED BY <1>1, <2>2 DEF TypeOK, ClientTyped
<1>2. CASE Crash(c)
  BY <1>2, CrashTyped
<1> QED BY <1>1, <1>2 DEF AddRemote

LEMMA OnInitialDataTyped ==
  ASSUME TypeOK, NEW c \in Client, NEW m \in Message, m.rpc = "INITIAL_DATA",
         OnInitialData(c, m)
  PROVE  ClientTyped' /\ inbox' = inbox
<1>1. m.id \in Nat
  BY MessageFields
<1>2. view' \in [Client -> [Slot -> Player \cup {NoPlayer, Local}]]
  BY DEF OnInitialData, Table!Put, TypeOK
<1>3. self' \in [Client -> Nat]
  BY <1>1 DEF OnInitialData, TypeOK
<1> QED BY <1>2, <1>3 DEF OnInitialData, TypeOK, ClientTyped

LEMMA OnGetPlayersTyped ==
  ASSUME TypeOK, NEW c \in Client, NEW m \in Message, m.rpc = "GET_PLAYERS",
         OnGetPlayers(c, m)
  PROVE  ClientTyped' /\ inbox' = inbox
<1> DEFINE listed == Table!Occupied(m.roster)
           read == {s \in listed : self[c] \in listed => s < self[c]}
           remotes == [s \in read |-> m.roster[s]]
<1>1. m.roster \in Roster
  BY MessageFields
<1>2. read \in SUBSET Nat /\ \A s \in read : m.roster[s] \in Player
  BY <1>1, SlotsAreNat DEF Table!Occupied, Roster, Slot
<1>3. remotes \in [read -> Player]
  BY <1>2
<1>4. AddRemote(c, remotes) /\ inbox' = inbox
  BY DEF OnGetPlayers
<1> HIDE DEF remotes, read
<1> QED BY <1>2, <1>3, <1>4, AddRemoteTyped

LEMMA OnNewPlayerTyped ==
  ASSUME TypeOK, NEW c \in Client, NEW m \in Message, m.rpc = "NEW_PLAYER",
         OnNewPlayer(c, m)
  PROVE  ClientTyped' /\ inbox' = inbox
<1>1. CASE UNCHANGED <<phase, nick, self, view>>
  BY <1>1 DEF OnNewPlayer, TypeOK, ClientTyped
<1>2. CASE AddRemote(c, [s \in {m.id} |-> m.player])
  <2>1. m.id \in Nat /\ m.player \in Player
    BY MessageFields
  <2>2. {m.id} \in SUBSET Nat /\ [s \in {m.id} |-> m.player] \in [{m.id} -> Player]
    BY <2>1
  <2>3. ClientTyped'
    BY <1>2, <2>2, AddRemoteTyped
  <2> QED BY <2>3 DEF OnNewPlayer
<1> QED BY <1>1, <1>2 DEF OnNewPlayer

LEMMA OnDeletePlayerTyped ==
  ASSUME TypeOK, NEW c \in Client, NEW m \in Message, OnDeletePlayer(c, m)
  PROVE  ClientTyped' /\ inbox' = inbox
<1>1. CASE Crash(c)
  BY <1>1, CrashTyped DEF OnDeletePlayer
<1>2. CASE /\ view' = [view EXCEPT ![c] = Table!Delete(view[c], m.id)]
           /\ UNCHANGED <<phase, nick, self>>
  <2>1. view' \in [Client -> [Slot -> Player \cup {NoPlayer, Local}]]
    BY <1>2 DEF Table!Delete, TypeOK
  <2> QED BY <1>2, <2>1 DEF OnDeletePlayer, TypeOK, ClientTyped
<1> QED BY <1>1, <1>2 DEF OnDeletePlayer

LEMMA OnNameChangeTyped ==
  ASSUME TypeOK, NEW c \in Client, NEW m \in Message, m.rpc = "NAME_CHANGE",
         OnNameChange(c, m)
  PROVE  ClientTyped' /\ inbox' = inbox
<1>1. m.player.name \in Name
  BY MessageFields, PlayerFields
<1>2. nick' \in [Client -> Name]
  BY <1>1 DEF OnNameChange, TypeOK
<1>3. view' \in [Client -> [Slot -> Player \cup {NoPlayer, Local}]]
  <2>1. CASE UNCHANGED view
    BY <2>1 DEF TypeOK
  <2>2. CASE /\ view[c][m.id] \notin {NoPlayer, Local}
             /\ view' = [view EXCEPT ![c][m.id].name = m.player.name]
    <3>1. CASE m.id \in Slot
      <4>1. view[c][m.id] \in Player
        BY <2>2, <3>1 DEF TypeOK
      <4>2. [view[c][m.id] EXCEPT !.name = m.player.name] \in Player
        BY <1>1, <4>1 DEF Player
      <4>3. [view[c] EXCEPT ![m.id] = [view[c][m.id] EXCEPT !.name = m.player.name]]
              \in [Slot -> Player \cup {NoPlayer, Local}]
        BY <4>2 DEF TypeOK
      <4> QED BY <2>2, <4>3 DEF TypeOK
    <3>2. CASE m.id \notin Slot
      <4>1. [view[c] EXCEPT ![m.id] = [view[c][m.id] EXCEPT !.name = m.player.name]]
              \in [Slot -> Player \cup {NoPlayer, Local}]
        <5>1. view[c] \in [Slot -> Player \cup {NoPlayer, Local}]
          BY DEF TypeOK
        <5> QED BY <3>2, <5>1, UpdateOutside
      <4> QED BY <2>2, <4>1 DEF TypeOK
    <3> QED BY <3>1, <3>2
  <2> QED BY <2>1, <2>2 DEF OnNameChange
<1> QED BY <1>2, <1>3 DEF OnNameChange, TypeOK, ClientTyped

LEMMA DeliverTyped ==
  ASSUME TypeOK, NEW c \in Client, Deliver(c)
  PROVE  TypeOK'
<1> DEFINE m == Head(chan[c])
<1>1. chan[c] \in Seq(Message) /\ chan[c] # <<>>
  BY DEF Deliver, TypeOK
<1>2. m \in Message /\ Tail(chan[c]) \in Seq(Message)
  BY <1>1, TailFacts
<1>3. chan' \in [Client -> Seq(Message)] /\ UNCHANGED <<peer, players, acts>>
  BY <1>2 DEF Deliver, Pop, TypeOK
<1>4. ClientTyped' /\ inbox' \in Seq(Packet)
  <2>1. CASE OnDownloadStart(c)
    <3>1. "DOWNLOAD_FINISH" \in JoinRpc \cup {"PLAYER_CHAT", "NAME_CHANGE", "LEFT"}
      BY DEF JoinRpc
    <3>2. nick[c] \in Name
      BY DEF TypeOK
    <3>3. inbox' \in Seq(Packet)
      BY <2>1, <3>1, <3>2, UploadTyped DEF OnDownloadStart
    <3> QED BY <2>1, <3>3 DEF OnDownloadStart, TypeOK, ClientTyped
  <2>2. CASE m.rpc = "INITIAL_DATA" /\ OnInitialData(c, m)
    BY <1>2, <2>2, OnInitialDataTyped DEF TypeOK
  <2>3. CASE m.rpc = "GET_PLAYERS" /\ OnGetPlayers(c, m)
    BY <1>2, <2>3, OnGetPlayersTyped DEF TypeOK
  <2>4. CASE m.rpc = "NEW_PLAYER" /\ OnNewPlayer(c, m)
    BY <1>2, <2>4, OnNewPlayerTyped DEF TypeOK
  <2>5. CASE OnDeletePlayer(c, m)
    BY <1>2, <2>5, OnDeletePlayerTyped DEF TypeOK
  <2>6. CASE m.rpc = "NAME_CHANGE" /\ OnNameChange(c, m)
    BY <1>2, <2>6, OnNameChangeTyped DEF TypeOK
  <2>7. CASE OnChat(c)
    BY <2>7 DEF OnChat, TypeOK, ClientTyped
  <2> QED BY <2>1, <2>2, <2>3, <2>4, <2>5, <2>6, <2>7 DEF Deliver
<1> QED BY <1>3, <1>4 DEF TypeOK, ClientTyped

LEMMA OneMoreAct ==
  ASSUME NEW n \in 0 .. MaxActs, n < MaxActs
  PROVE  n + 1 \in 0 .. MaxActs
<1>1. MaxActs \in Nat
  BY SessionAssumption DEF SessionAssumption
<1> QED BY <1>1

LEMMA ChatTyped ==
  ASSUME TypeOK, NEW c \in Client, Chat(c)
  PROVE  TypeOK'
<1>1. inbox' \in Seq(Packet)
  <2>1. nick[c] \in Name /\ Upload(c, "PLAYER_CHAT", nick[c])
    BY DEF Chat, TypeOK
  <2> QED BY <2>1, UploadTyped
<1>2. acts' \in 0 .. MaxActs
  BY OneMoreAct DEF Chat, MayAct, TypeOK
<1> QED BY <1>1, <1>2 DEF Chat, TypeOK

LEMMA ChangeNickTyped ==
  ASSUME TypeOK, NEW c \in Client, NEW name \in Name, ChangeNick(c, name)
  PROVE  TypeOK'
<1>1. inbox' \in Seq(Packet)
  <2>1. Upload(c, "NAME_CHANGE", name)
    BY DEF ChangeNick
  <2> QED BY <2>1, UploadTyped
<1>2. acts' \in 0 .. MaxActs
  BY OneMoreAct DEF ChangeNick, MayAct, TypeOK
<1>3. nick' \in [Client -> Name]
  BY DEF ChangeNick, TypeOK
<1> QED BY <1>1, <1>2, <1>3 DEF ChangeNick, TypeOK

LEMMA NextTyped == TypeOK /\ [Next]_vars => TypeOK'
<1> SUFFICES ASSUME TypeOK, [Next]_vars PROVE TypeOK'
  OBVIOUS
<1>1. CASE ServerStep
  BY <1>1, InitialDataTyped, DownloadFinishedTyped, PlayerLeftTyped,
     PlayerChatTyped, PlayerChangeNameTyped DEF ServerStep
<1>2. CASE \E s \in Slot : Kick(s)
  BY <1>2, KickTyped
<1>3. CASE \E c \in Client : ClientStep(c)
  BY <1>3, ConnectTyped, DisconnectTyped, NoticeClosedTyped, DeliverTyped,
     ChatTyped, ChangeNickTyped DEF ClientStep
<1>4. CASE UNCHANGED vars
  BY <1>4 DEF vars, TypeOK
<1> QED BY <1>1, <1>2, <1>3, <1>4 DEF Next

(* Every variable of the server, of RakNet and of the clients keeps to its *)
(* type, for any number of clients, names and slots, in both modes.        *)
THEOREM SessionTypeOK == Spec => []TypeOK
<1>1. Init => TypeOK
  BY InitTyped
<1>2. TypeOK /\ [Next]_vars => TypeOK'
  BY NextTyped
<1> QED BY <1>1, <1>2, PTL DEF Spec
-----------------------------------------------------------------------------
(* Names.  A name is looked up before it is taken by a joiner, and a       *)
(* rename is the one thing that takes it without: with none on its way,    *)
(* names stay unique however joins overlap.                                *)

NoRename(q) == \A i \in DOMAIN q : q[i].rpc # "NAME_CHANGE"

NameInv == NoRename(inbox) /\ NamesUnique

LEMMA NoRenameAppended ==
  ASSUME NEW q \in Seq(Packet), NoRename(q),
         NEW p \in Packet, p.rpc # "NAME_CHANGE"
  PROVE  NoRename(Append(q, p))
BY DEF NoRename

LEMMA NoRenameTail ==
  ASSUME NEW q \in Seq(Packet), NoRename(q), q # <<>>
  PROVE  /\ Tail(q) \in Seq(Packet) /\ NoRename(Tail(q))
         /\ Head(q).rpc # "NAME_CHANGE"
<1>1. Tail(q) \in Seq(Packet) /\ Len(q) \in Nat /\ Len(q) > 0
  OBVIOUS
<1>2. Len(Tail(q)) = Len(q) - 1 /\ Head(q) = q[1]
  BY <1>1
<1>3. ASSUME NEW i \in DOMAIN Tail(q)
      PROVE  i + 1 \in DOMAIN q /\ Tail(q)[i] = q[i + 1]
  BY <1>1, <1>2, <1>3
<1>4. 1 \in DOMAIN q
  BY <1>1
<1> QED BY <1>1, <1>2, <1>3, <1>4 DEF NoRename

LEMMA UploadNamed ==
  ASSUME TypeOK, NoRename(inbox), NEW c \in Client, NEW rpc, NEW name \in Name,
         rpc \in JoinRpc \cup {"PLAYER_CHAT", "LEFT"}, Upload(c, rpc, name)
  PROVE  NoRename(inbox')
<1>1. ASSUME NEW k \in Index
      PROVE  LET p == [PacketOf(c, k, rpc) EXCEPT !.name = name]
             IN  p \in Packet /\ p.rpc # "NAME_CHANGE"
  BY <1>1 DEF PacketOf, Packet, TypeOK, JoinRpc
<1>2. CASE ~ Linked(c) /\ UNCHANGED inbox
  BY <1>2
<1>3. ASSUME NEW k \in Index,
             inbox' = Append(inbox, [PacketOf(c, k, rpc) EXCEPT !.name = name])
      PROVE  NoRename(inbox')
  BY <1>1, <1>3, NoRenameAppended DEF TypeOK
<1> QED BY <1>2, <1>3 DEF Upload

LEMMA CloseNamed ==
  ASSUME TypeOK, NEW k, NEW q \in Seq(Packet), NoRename(q),
         CloseConnection(k, q)
  PROVE  NoRename(inbox')
<1>1. CASE k \in Index /\ peer[k] # NoClient
  <2>1. PacketOf(peer[k], k, "LEFT") \in Packet
    BY <1>1 DEF PacketOf, Packet, TypeOK
  <2>2. PacketOf(peer[k], k, "LEFT").rpc # "NAME_CHANGE"
    BY DEF PacketOf
  <2> QED BY <1>1, <2>1, <2>2, NoRenameAppended DEF CloseConnection
<1>2. CASE ~ (k \in Index /\ peer[k] # NoClient)
  BY <1>2 DEF CloseConnection
<1> QED BY <1>1, <1>2

(* Steps that leave the server's table alone or take players out of it.    *)
LEMMA FewerNames ==
  ASSUME NamesUnique, Table!Occupied(players)' \subseteq Table!Occupied(players),
         \A s \in Table!Occupied(players)' : players'[s] = players[s]
  PROVE  NamesUnique'
BY DEF NamesUnique

LEMMA DownloadFinishedNamed ==
  ASSUME TypeOK, NameInv, DownloadFinished
  PROVE  NameInv'
<1> DEFINE p == Head(inbox)
           joiner == [name |-> p.name, conn |-> p.conn]
           id == Table!FindFreeSlot(players)
<1>1. inbox \in Seq(Packet) /\ inbox # <<>>
  BY DEF TypeOK, DownloadFinished, Receive
<1>2. Tail(inbox) \in Seq(Packet) /\ NoRename(Tail(inbox))
  BY <1>1, NoRenameTail DEF NameInv
<1>3. CASE CloseConnection(p.index, Tail(inbox)) /\ UNCHANGED <<players, chan>>
  <2>1. NoRename(inbox')
    BY <1>2, <1>3, CloseNamed
  <2> QED BY <1>3, <2>1 DEF NameInv, NamesUnique, Table!Occupied
<1>4. CASE /\ Namesakes \/ ~ NameInUse(p.name)
           /\ players' = Table!Put(players, id, joiner)
           /\ inbox' = Tail(inbox)
  <2>1. ASSUME ~ Namesakes,
               NEW s \in Table!Occupied(players)', NEW t \in Table!Occupied(players)',
               players'[s].name = players'[t].name
        PROVE  s = t
    <3>1. ASSUME NEW u \in Table!Occupied(players)', u # id
          PROVE  /\ u \in Table!Occupied(players)
                 /\ players'[u] = players[u] /\ players'[u].name # p.name
      <4>1. u \in Slot /\ players'[u] # NoPlayer
        BY DEF Table!Occupied, Slot
      <4>2. players'[u] = players[u]
        BY <1>4, <3>1, <4>1 DEF Table!Put, TypeOK
      <4>3. u \in Table!Occupied(players)
        BY <4>1, <4>2 DEF Table!Occupied, Slot
      <4> QED BY <1>4, <2>1, <4>2, <4>3 DEF NameInUse
    <3>2. ASSUME NEW u \in Table!Occupied(players)', u = id
          PROVE  players'[u].name = p.name
      <4>1. u \in Slot
        BY DEF Table!Occupied, Slot
      <4>2. players'[u] = joiner
        BY <1>4, <3>2, <4>1 DEF Table!Put, TypeOK
      <4> QED BY <4>2
    <3>3. CASE s # id /\ t # id
      BY <2>1, <3>1, <3>3 DEF NameInv, NamesUnique
    <3>4. CASE s = id \/ t = id
      BY <2>1, <3>1, <3>2, <3>4
    <3> QED BY <3>3, <3>4
  <2>2. NamesUnique'
    BY <2>1 DEF NamesUnique
  <2> QED BY <1>2, <1>4, <2>2 DEF NameInv
<1> QED BY <1>3, <1>4 DEF DownloadFinished

LEMMA PlayerLeftNamed ==
  ASSUME TypeOK, NameInv, PlayerLeft
  PROVE  NameInv'
<1>1. inbox \in Seq(Packet) /\ inbox # <<>> /\ inbox' = Tail(inbox)
  BY DEF TypeOK, PlayerLeft, Receive
<1>2. NoRename(inbox')
  BY <1>1, NoRenameTail DEF NameInv
<1>3. players' = players \/ players' = Table!Delete(players, Head(inbox).index)
  BY DEF PlayerLeft
<1>4. ASSUME NEW s \in Table!Occupied(players)'
      PROVE  s \in Table!Occupied(players) /\ players'[s] = players[s]
  BY <1>3 DEF Table!Occupied, Table!Delete, TypeOK, Slot
<1>5. NamesUnique'
  BY <1>4, FewerNames DEF NameInv
<1> QED BY <1>2, <1>5 DEF NameInv

LEMMA SamePlayersNamed ==
  ASSUME NameInv, UNCHANGED players, NoRename(inbox')
  PROVE  NameInv'
BY DEF NameInv, NamesUnique, Table!Occupied

LEMMA DeliverNamed ==
  ASSUME TypeOK, NameInv, NEW c \in Client, Deliver(c)
  PROVE  NameInv'
<1>1. UNCHANGED players /\ NoRename(inbox)
  BY DEF Deliver, NameInv
<1>2. CASE OnDownloadStart(c)
  <2>1. nick[c] \in Name /\ "DOWNLOAD_FINISH" \in JoinRpc \cup {"PLAYER_CHAT", "LEFT"}
    BY DEF TypeOK, JoinRpc
  <2>2. Upload(c, "DOWNLOAD_FINISH", nick[c])
    BY <1>2 DEF OnDownloadStart
  <2>3. NoRename(inbox')
    BY <1>1, <2>1, <2>2, UploadNamed
  <2> QED BY <1>1, <2>3, SamePlayersNamed
<1>3. CASE UNCHANGED inbox
  BY <1>1, <1>3, SamePlayersNamed
<1> QED BY <1>2, <1>3 DEF Deliver, OnInitialData, OnGetPlayers, OnNewPlayer,
                          OnDeletePlayer, OnNameChange, OnChat

LEMMA NameStep ==
  ASSUME MaxActs = 0, TypeOK, NameInv, [Next]_vars
  PROVE  NameInv'
<1>1. inbox \in Seq(Packet) /\ NoRename(inbox)
  BY DEF TypeOK, NameInv
<1>2. ASSUME inbox # <<>>
      PROVE  Tail(inbox) \in Seq(Packet) /\ NoRename(Tail(inbox))
             /\ Head(inbox).rpc # "NAME_CHANGE"
  BY <1>1, <1>2, NoRenameTail
<1>3. CASE InitialData
  <2>1. inbox # <<>> /\ UNCHANGED players
    BY <1>3 DEF InitialData, Receive
  <2>2. CASE CloseConnection(Head(inbox).index, Tail(inbox))
    BY <1>2, <2>1, <2>2, CloseNamed, SamePlayersNamed
  <2>3. CASE inbox' = Tail(inbox)
    BY <1>2, <2>1, <2>3, SamePlayersNamed
  <2> QED BY <1>3, <2>2, <2>3 DEF InitialData
<1>4. CASE DownloadFinished
  BY <1>4, DownloadFinishedNamed
<1>5. CASE PlayerLeft
  BY <1>5, PlayerLeftNamed
<1>6. CASE PlayerChat
  BY <1>2, <1>6, SamePlayersNamed DEF PlayerChat, Receive
<1>7. CASE PlayerChangeName
  BY <1>2, <1>7 DEF PlayerChangeName, Receive
<1>8. ASSUME NEW s \in Slot, Kick(s) PROVE NameInv'
  BY <1>1, <1>8, CloseNamed, SamePlayersNamed DEF Kick
<1>9. ASSUME NEW c \in Client, ClientStep(c) PROVE NameInv'
  <2>1. CASE Connect(c)
    <3>1. PICK k \in Index : inbox' = Append(inbox, PacketOf(c, k, "INITIAL_DATA"))
      BY <2>1 DEF Connect
    <3>2. PacketOf(c, k, "INITIAL_DATA") \in Packet
      BY DEF PacketOf, Packet, TypeOK, JoinRpc
    <3>3. PacketOf(c, k, "INITIAL_DATA").rpc # "NAME_CHANGE"
      BY DEF PacketOf
    <3>4. NoRename(inbox')
      BY <1>1, <3>1, <3>2, <3>3, NoRenameAppended
    <3> QED BY <2>1, <3>4, SamePlayersNamed DEF Connect
  <2>2. CASE Disconnect(c)
    <3>1. PICK k \in Index : inbox' = Append(inbox, PacketOf(c, k, "LEFT"))
      BY <2>2 DEF Disconnect
    <3>2. PacketOf(c, k, "LEFT") \in Packet
      BY DEF PacketOf, Packet, TypeOK
    <3>3. PacketOf(c, k, "LEFT").rpc # "NAME_CHANGE"
      BY DEF PacketOf
    <3>4. NoRename(inbox')
      BY <1>1, <3>1, <3>2, <3>3, NoRenameAppended
    <3> QED BY <2>2, <3>4, SamePlayersNamed DEF Disconnect
  <2>3. CASE NoticeClosed(c)
    BY <1>1, <2>3, SamePlayersNamed DEF NoticeClosed
  <2>4. CASE Deliver(c)
    BY <2>4, DeliverNamed
  <2>5. ~ MayAct(c)
    BY DEF MayAct, TypeOK
  <2> QED BY <1>9, <2>1, <2>2, <2>3, <2>4, <2>5 DEF ClientStep, Chat, ChangeNick
<1>10. CASE UNCHANGED vars
  BY <1>1, <1>10, SamePlayersNamed DEF vars
<1> QED BY <1>3, <1>4, <1>5, <1>6, <1>7, <1>8, <1>9, <1>10 DEF Next, ServerStep

(* With namesakes off and nobody renaming, no two players ever have one    *)
(* name, even if joins overlap with each other and with departures: a name *)
(* is looked up in the same turn of the loop in which it is taken          *)
(* (DownloadFinished).                                                     *)
THEOREM NamesStayUnique ==
  ASSUME MaxActs = 0
  PROVE  Spec => []NamesUnique
<1>1. Init => TypeOK /\ NameInv
  <2> SUFFICES ASSUME Init PROVE TypeOK /\ NameInv
    OBVIOUS
  <2>1. inbox = <<>> /\ Table!Occupied(players) = {}
    BY DEF Init, Table!Occupied, Table!EmptyTable
  <2> QED BY <2>1, InitTyped DEF NameInv, NoRename, NamesUnique
<1>2. TypeOK /\ NameInv /\ [Next]_vars => (TypeOK /\ NameInv)'
  BY NextTyped, NameStep
<1>3. NameInv => NamesUnique
  BY DEF NameInv
<1> QED BY <1>1, <1>2, <1>3, PTL DEF Spec
-----------------------------------------------------------------------------
(***************************************************************************)
(* The session when no connection opens or closes while a join is pending: *)
(* a player always sits in the slot that has the system index of its       *)
(* connection, no connection has two players, and no player whose          *)
(* connection is up is ever dropped.                                       *)
(*                                                                         *)
(* The invariant speaks of three relations only: who is joining, who is    *)
(* starting its download, and who is leaving.  The first part of the proof *)
(* says what adding and taking a packet does to them, the second what each *)
(* action does.                                                            *)
(***************************************************************************)

(* The positions of a queue of packets.                                    *)
JoinIn(q, k, c) ==
  \E i \in DOMAIN q : q[i].rpc \in JoinRpc /\ q[i].index = k /\ q[i].conn = c

LeftIn(q, k, c) ==
  \E i \in DOMAIN q : q[i].rpc = "LEFT" /\ q[i].index = k /\ q[i].conn = c

StartIn(ms) == \E i \in DOMAIN ms : ms[i].rpc = "DOWNLOAD_START"

(* One packet of a join at most, and departures are before the first.      *)
Ordered(q) ==
  \A i, j \in DOMAIN q :
    q[j].rpc \in JoinRpc =>
      /\ q[i].rpc \in JoinRpc => i = j
      /\ q[i].rpc = "LEFT" => i < j /\ q[j].rpc = "INITIAL_DATA"

OneStart(ms) ==
  \A i, j \in DOMAIN ms :
    ms[i].rpc = "DOWNLOAD_START" /\ ms[j].rpc = "DOWNLOAD_START" => i = j

Joining(k, c) == JoinIn(inbox, k, c)
Leaving(k, c) == LeftIn(inbox, k, c)
Starting(c) == StartIn(chan[c])

(* The parts of the invariant.                                             *)
PeersDistinct ==
  \A j, k \in Index : peer[j] = peer[k] /\ peer[j] # NoClient => j = k

NewUnknown ==
  \A c \in Client : phase[c] = "new" =>
    /\ \A k \in Index : peer[k] # c /\ ~ Leaving(k, c)
    /\ \A s \in Slot : players[s] # NoPlayer => players[s].conn # c

LeaversGone ==
  \A c \in Client : \A k \in Index : Leaving(k, c) =>
    \A j \in Index : peer[j] # c /\ (Leaving(j, c) => j = k)

JoinersLinked ==
  \A c \in Client :
    /\ \A k \in Index : Joining(k, c) => peer[k] = c
    /\ Starting(c) => \E k \in Index : peer[k] = c

OneJoiner ==
  /\ Ordered(inbox)
  /\ \A c \in Client :
       /\ OneStart(chan[c])
       /\ Starting(c) =>
            /\ \A d \in Client : Starting(d) => d = c
            /\ \A d \in Client : \A k \in Index :
                 ~ Joining(k, d) /\ ~ Leaving(k, d)

JoinerNext ==
  \A c \in Client : \A k \in Index :
    peer[k] = c /\ (Joining(k, c) \/ Starting(c)) =>
      /\ \A lower \in Index : lower < k => peer[lower] # NoClient
      /\ \A s \in Slot : players[s] # NoPlayer => players[s].conn # c

MembersSeated ==
  \A c \in Client : \A k \in Index :
    peer[k] = c /\ ~ Joining(k, c) /\ ~ Starting(c) =>
      players[k] # NoPlayer /\ players[k].conn = c

PlayersLinked ==
  \A s \in Slot : players[s] # NoPlayer =>
    peer[s] = players[s].conn \/ Leaving(s, players[s].conn)

LeaversSeated ==
  \A c \in Client : \A k \in Index :
    Leaving(k, c) /\ players[k] # NoPlayer => players[k].conn = c

QuietInv ==
  /\ PeersDistinct /\ NewUnknown /\ LeaversGone /\ JoinersLinked
  /\ OneJoiner /\ JoinerNext /\ MembersSeated /\ PlayersLinked /\ LeaversSeated
-----------------------------------------------------------------------------
(* Queues.                                                                 *)

LEMMA AppendedIn ==
  ASSUME NEW q \in Seq(Packet), NEW p \in Packet, NEW k, NEW c
  PROVE  /\ JoinIn(Append(q, p), k, c) <=>
              JoinIn(q, k, c) \/ (p.rpc \in JoinRpc /\ p.index = k /\ p.conn = c)
         /\ LeftIn(Append(q, p), k, c) <=>
              LeftIn(q, k, c) \/ (p.rpc = "LEFT" /\ p.index = k /\ p.conn = c)
<1> DEFINE r == Append(q, p)
<1>1. /\ DOMAIN q \subseteq DOMAIN r /\ Len(q) + 1 \in DOMAIN r
      /\ r[Len(q) + 1] = p
      /\ \A i \in DOMAIN q : r[i] = q[i]
      /\ \A i \in DOMAIN r : i \in DOMAIN q \/ i = Len(q) + 1
  BY AppendFacts
<1> HIDE DEF r
<1> QED BY <1>1 DEF JoinIn, LeftIn, r

LEMMA TakenIn ==
  ASSUME NEW q \in Seq(Packet), q # <<>>, NEW k, NEW c
  PROVE  /\ JoinIn(q, k, c) <=>
              \/ JoinIn(Tail(q), k, c)
              \/ Head(q).rpc \in JoinRpc /\ Head(q).index = k /\ Head(q).conn = c
         /\ LeftIn(q, k, c) <=>
              \/ LeftIn(Tail(q), k, c)
              \/ Head(q).rpc = "LEFT" /\ Head(q).index = k /\ Head(q).conn = c
<1> DEFINE t == Tail(q)
<1>1. /\ 1 \in DOMAIN q /\ Head(q) = q[1]
      /\ \A i \in DOMAIN t : i + 1 \in DOMAIN q /\ t[i] = q[i + 1]
      /\ \A i \in DOMAIN q : i = 1 \/ \E j \in DOMAIN t : t[j] = q[i]
  BY TailFacts
<1> HIDE DEF t
<1> QED BY <1>1 DEF JoinIn, LeftIn, t

LEMMA AppendedOrder ==
  ASSUME NEW q \in Seq(Packet), NEW p \in Packet, Ordered(q),
         p.rpc \in JoinRpc \cup {"LEFT"} =>
           \A c \in Client : \A k \in Index : ~ JoinIn(q, k, c),
         p.rpc = "DOWNLOAD_FINISH" =>
           \A c \in Client : \A k \in Index : ~ LeftIn(q, k, c)
  PROVE  Ordered(Append(q, p))
<1> DEFINE r == Append(q, p)  n == Len(q) + 1
<1>1. /\ DOMAIN q \subseteq DOMAIN r /\ n \in DOMAIN r /\ r[n] = p
      /\ \A i \in DOMAIN q : i <= Len(q) /\ r[i] = q[i]
      /\ \A i \in DOMAIN r : i \in DOMAIN q \/ i = n
  BY AppendFacts
<1>2. /\ Len(q) \in Nat /\ \A i \in DOMAIN q : i \in Nat /\ q[i] \in Packet
  OBVIOUS
<1>3. \A i \in DOMAIN q : i < n
  BY <1>1, <1>2
<1>4. \A i \in DOMAIN q : q[i].index \in Index /\ q[i].conn \in Client
  BY <1>2 DEF Packet
<1>5. p.rpc \in JoinRpc \cup {"LEFT"} => \A i \in DOMAIN q : q[i].rpc \notin JoinRpc
  BY <1>4 DEF JoinIn
<1>6. p.rpc = "DOWNLOAD_FINISH" => \A i \in DOMAIN q : q[i].rpc # "LEFT"
  BY <1>4 DEF LeftIn
<1> HIDE DEF r, n
<1>7. SUFFICES ASSUME NEW i \in DOMAIN r, NEW j \in DOMAIN r, r[j].rpc \in JoinRpc
               PROVE  /\ r[i].rpc \in JoinRpc => i = j
                      /\ r[i].rpc = "LEFT" => i < j /\ r[j].rpc = "INITIAL_DATA"
  BY DEF Ordered, r
<1>8. CASE i \in DOMAIN q /\ j \in DOMAIN q
  BY <1>1, <1>7, <1>8 DEF Ordered
<1>9. CASE i \in DOMAIN q /\ j = n
  BY <1>1, <1>3, <1>5, <1>6, <1>7, <1>9 DEF JoinRpc
<1>10. CASE i = n /\ j \in DOMAIN q
  BY <1>1, <1>5, <1>7, <1>10
<1>11. CASE i = n /\ j = n
  BY <1>1, <1>7, <1>11 DEF JoinRpc
<1> QED BY <1>1, <1>8, <1>9, <1>10, <1>11

LEMMA TakenOrder ==
  ASSUME NEW q \in Seq(Packet), q # <<>>, Ordered(q)
  PROVE  /\ Ordered(Tail(q))
         /\ Head(q).rpc \in JoinRpc =>
              \A k, c : ~ JoinIn(Tail(q), k, c) /\ ~ LeftIn(Tail(q), k, c)
         /\ Head(q).rpc = "DOWNLOAD_FINISH" => \A k, c : ~ LeftIn(q, k, c)
<1> DEFINE t == Tail(q)
<1>1. /\ 1 \in DOMAIN q /\ Head(q) = q[1]
      /\ \A i \in DOMAIN t : i \in Nat /\ i + 1 \in DOMAIN q /\ t[i] = q[i + 1]
  BY TailFacts
<1>2. \A i \in DOMAIN t : i \in Nat \ {0}
  BY TailFacts
<1> HIDE DEF t
<1>3. Ordered(t)
  <2>1. SUFFICES ASSUME NEW i \in DOMAIN t, NEW j \in DOMAIN t, t[j].rpc \in JoinRpc
                 PROVE  /\ t[i].rpc \in JoinRpc => i = j
                        /\ t[i].rpc = "LEFT" => i < j /\ t[j].rpc = "INITIAL_DATA"
    BY DEF Ordered
  <2>2. /\ t[i].rpc \in JoinRpc => i + 1 = j + 1
        /\ t[i].rpc = "LEFT" => i + 1 < j + 1 /\ t[j].rpc = "INITIAL_DATA"
    BY <1>1, <2>1 DEF Ordered
  <2> QED BY <1>1, <2>2
<1>4. ASSUME Head(q).rpc \in JoinRpc, NEW i \in DOMAIN t
      PROVE  t[i].rpc \notin JoinRpc /\ t[i].rpc # "LEFT"
  <2>1. i + 1 # 1 /\ ~ (i + 1 < 1)
    BY <1>2
  <2> QED BY <1>1, <1>4, <2>1 DEF Ordered
<1>5. ASSUME Head(q).rpc = "DOWNLOAD_FINISH", NEW i \in DOMAIN q
      PROVE  q[i].rpc # "LEFT"
  BY <1>1, <1>5 DEF Ordered, JoinRpc
<1> QED BY <1>3, <1>4, <1>5 DEF JoinIn, LeftIn, t

LEMMA AppendedStart ==
  ASSUME NEW ms \in Seq(Message), NEW m \in Message
  PROVE  /\ StartIn(Append(ms, m)) <=> StartIn(ms) \/ m.rpc = "DOWNLOAD_START"
         /\ OneStart(ms) /\ (m.rpc = "DOWNLOAD_START" => ~ StartIn(ms)) =>
              OneStart(Append(ms, m))
<1> DEFINE r == Append(ms, m)  n == Len(ms) + 1
<1>1. /\ DOMAIN ms \subseteq DOMAIN r /\ n \in DOMAIN r /\ r[n] = m
      /\ \A i \in DOMAIN ms : r[i] = ms[i]
      /\ \A i \in DOMAIN r : i \in DOMAIN ms \/ i = n
  BY AppendFacts
<1> HIDE DEF r, n
<1>2. StartIn(r) <=> StartIn(ms) \/ m.rpc = "DOWNLOAD_START"
  BY <1>1 DEF StartIn
<1>3. OneStart(ms) /\ (m.rpc = "DOWNLOAD_START" => ~ StartIn(ms)) => OneStart(r)
  BY <1>1 DEF OneStart, StartIn
<1> QED BY <1>2, <1>3 DEF r

(* Messages none of which is a DOWNLOAD_START.                             *)
LEMMA ConcatStart ==
  ASSUME NEW ms \in Seq(Message), NEW more \in Seq(Message), ~ StartIn(more)
  PROVE  /\ StartIn(ms \o more) <=> StartIn(ms)
         /\ OneStart(ms) => OneStart(ms \o more)
<1> DEFINE r == ms \o more
<1>1. /\ DOMAIN ms \subseteq DOMAIN r
      /\ \A i \in DOMAIN ms : r[i] = ms[i]
      /\ \A i \in DOMAIN r :
           i \in DOMAIN ms \/ \E j \in DOMAIN more : r[i] = more[j]
  BY ConcatFacts
<1> HIDE DEF r
<1>2. \A i \in DOMAIN r : r[i].rpc = "DOWNLOAD_START" => i \in DOMAIN ms
  BY <1>1 DEF StartIn
<1> QED BY <1>1, <1>2 DEF StartIn, OneStart, r

LEMMA TakenStart ==
  ASSUME NEW ms \in Seq(Message), ms # <<>>
  PROVE  /\ StartIn(ms) <=> StartIn(Tail(ms)) \/ Head(ms).rpc = "DOWNLOAD_START"
         /\ OneStart(ms) => OneStart(Tail(ms))
         /\ OneStart(ms) /\ Head(ms).rpc = "DOWNLOAD_START" => ~ StartIn(Tail(ms))
<1> DEFINE t == Tail(ms)
<1>1. /\ 1 \in DOMAIN ms /\ Head(ms) = ms[1]
      /\ \A i \in DOMAIN t : i \in Nat /\ i + 1 \in DOMAIN ms /\ t[i] = ms[i + 1]
      /\ \A i \in DOMAIN ms : i = 1 \/ \E j \in DOMAIN t : t[j] = ms[i]
  BY TailFacts
<1>2. \A i \in DOMAIN t : i + 1 # 1
  BY TailFacts
<1> HIDE DEF t
<1>3. StartIn(ms) <=> StartIn(t) \/ Head(ms).rpc = "DOWNLOAD_START"
  BY <1>1 DEF StartIn
<1>4. ASSUME OneStart(ms), NEW i \in DOMAIN t, NEW j \in DOMAIN t,
             t[i].rpc = "DOWNLOAD_START", t[j].rpc = "DOWNLOAD_START"
      PROVE  i = j
  <2>1. i + 1 = j + 1
    BY <1>1, <1>4 DEF OneStart
  <2> QED BY <1>1, <2>1
<1>5. ASSUME OneStart(ms), Head(ms).rpc = "DOWNLOAD_START", NEW i \in DOMAIN t
      PROVE  t[i].rpc # "DOWNLOAD_START"
  BY <1>1, <1>2, <1>5 DEF OneStart
<1> QED BY <1>3, <1>4, <1>5 DEF StartIn, OneStart, t
-----------------------------------------------------------------------------
(* Steps, by what they do to the three relations.                          *)

SamePeople ==
  /\ \A c \in Client : phase'[c] = "new" => phase[c] = "new"
  /\ \A s \in Slot :
       /\ players'[s] # NoPlayer <=> players[s] # NoPlayer
       /\ players[s] # NoPlayer => players'[s].conn = players[s].conn

SameQueues ==
  /\ Ordered(inbox') /\ \A c \in Client : OneStart(chan'[c])
  /\ \A c \in Client :
       /\ \A k \in Index : /\ JoinIn(inbox', k, c) <=> JoinIn(inbox, k, c)
                           /\ LeftIn(inbox', k, c) <=> LeftIn(inbox, k, c)
       /\ StartIn(chan'[c]) <=> StartIn(chan[c])

LEMMA NobodyIsNobody == NoClient \notin Client /\ NoPlayer \notin Player
BY SessionAssumption DEF SessionAssumption, Player

LEMMA PlayersTyped ==
  ASSUME TypeOK
  PROVE  \A s \in Slot : players[s] # NoPlayer =>
           players[s] \in Player /\ players[s].conn \in Client
<1>1. players \in [Slot -> Player \cup {NoPlayer}]
  BY DEF TypeOK
<1>2. \A s \in Slot : players[s] # NoPlayer => players[s] \in Player
  BY <1>1
<1> QED BY <1>2, PlayerFields

(* A step that opens and closes nothing, and moves no join and no          *)
(* departure on.                                                           *)
LEMMA Frame ==
  ASSUME TypeOK, QuietInv, peer' = peer, SamePeople, SameQueues
  PROVE  QuietInv'
<1> USE DEF Joining, Leaving, Starting
<1>1. \A s \in Slot : players[s] # NoPlayer => players[s].conn \in Client
  BY PlayersTyped
<1>2. PeersDistinct'
  BY DEF QuietInv, PeersDistinct
<1>3. NewUnknown'
  BY DEF QuietInv, NewUnknown, SamePeople, SameQueues
<1>4. LeaversGone' /\ JoinersLinked'
  BY DEF QuietInv, LeaversGone, JoinersLinked, SameQueues
<1>5. OneJoiner'
  BY DEF QuietInv, OneJoiner, SameQueues
<1>6. JoinerNext'
  BY DEF QuietInv, JoinerNext, SamePeople, SameQueues, Index
<1>7. MembersSeated'
  BY DEF QuietInv, MembersSeated, SamePeople, SameQueues, Index
<1>8. PlayersLinked'
  BY <1>1 DEF QuietInv, PlayersLinked, SamePeople, SameQueues, Index
<1>9. LeaversSeated'
  BY DEF QuietInv, LeaversSeated, SamePeople, SameQueues, Index
<1> QED BY <1>2, <1>3, <1>4, <1>5, <1>6, <1>7, <1>8, <1>9 DEF QuietInv

NoJoins ==
  \A c \in Client : ~ StartIn(chan[c]) /\ \A k \in Index : ~ JoinIn(inbox, k, c)

(* A connection closes, and its loss is queued: it is nobody's who joins,  *)
(* or that of the only client who does.                                    *)
LEMMA Unlink ==
  ASSUME TypeOK, QuietInv, SamePeople,
         NEW k \in Index, NEW c \in Client,
         peer[k] = c, peer' = [peer EXCEPT ![k] = NoClient],
         players[k] # NoPlayer => players[k].conn = c,
         \A d \in Client : d # c =>
           ~ StartIn(chan[d]) /\ \A j \in Index : ~ JoinIn(inbox, j, d),
         NoJoins', Ordered(inbox'), \A d \in Client : OneStart(chan'[d]),
         \A j \in Index : \A d \in Client :
           LeftIn(inbox', j, d) <=> LeftIn(inbox, j, d) \/ (j = k /\ d = c)
  PROVE  QuietInv'
<1> USE DEF Joining, Leaving, Starting
<1>1. \A s \in Slot : players[s] # NoPlayer => players[s].conn \in Client
  BY PlayersTyped
<1>2. /\ \A j \in Index : peer'[j] = IF j = k THEN NoClient ELSE peer[j]
      /\ NoClient \notin Client
  BY NobodyIsNobody DEF TypeOK
<1>3. \A j \in Index : peer'[j] # c
  BY <1>2 DEF QuietInv, PeersDistinct
<1>4. PeersDistinct'
  BY <1>2 DEF QuietInv, PeersDistinct
<1>5. phase[c] # "new"
  BY DEF QuietInv, NewUnknown
<1>6. NewUnknown'
  BY <1>2, <1>5 DEF QuietInv, NewUnknown, SamePeople
<1>7. LeaversGone'
  <2>1. \A j \in Index : ~ LeftIn(inbox, j, c)
    BY DEF QuietInv, LeaversGone
  <2> QED BY <1>2, <1>3, <2>1 DEF QuietInv, LeaversGone
<1>8. JoinersLinked' /\ JoinerNext'
  BY DEF NoJoins, JoinersLinked, JoinerNext
<1>9. OneJoiner'
  BY DEF NoJoins, OneJoiner
<1>10. MembersSeated'
  BY <1>2, <1>3 DEF QuietInv, MembersSeated, SamePeople, Index
<1>11. PlayersLinked'
  <2>1. SUFFICES ASSUME NEW s \in Slot, players'[s] # NoPlayer
                 PROVE  \/ peer'[s] = players'[s].conn
                        \/ LeftIn(inbox', s, players'[s].conn)
    BY DEF PlayersLinked
  <2>2. players[s] # NoPlayer /\ players'[s].conn = players[s].conn
    BY <2>1 DEF SamePeople
  <2>3. CASE s = k
    BY <2>2, <2>3
  <2>4. CASE s # k
    BY <1>1, <1>2, <2>2, <2>4 DEF QuietInv, PlayersLinked, Index
  <2> QED BY <2>3, <2>4
<1>12. LeaversSeated'
  BY DEF QuietInv, LeaversSeated, SamePeople, Index
<1> QED BY <1>4, <1>6, <1>7, <1>8, <1>9, <1>10, <1>11, <1>12 DEF QuietInv
-----------------------------------------------------------------------------
(* Connections that open and close.                                        *)

LEMMA NothingPending == Quiet /\ MayRelink => NoJoins
BY DEF MayRelink, JoinPending, NoJoins, JoinIn, StartIn

LEMMA EmptyChan == ~ StartIn(<<>>) /\ OneStart(<<>>)
BY DEF StartIn, OneStart

LEMMA LinkOpens ==
  ASSUME TypeOK, QuietInv, Quiet, NEW c \in Client, Connect(c)
  PROVE  QuietInv'
<1> USE DEF Joining, Leaving, Starting
<1>1. NoJoins
  BY NothingPending DEF Connect
<1>2. PICK k \in Index :
        /\ peer[k] = NoClient
        /\ \A lower \in Index : lower < k => peer[lower] # NoClient
        /\ peer' = [peer EXCEPT ![k] = c]
        /\ inbox' = Append(inbox, PacketOf(c, k, "INITIAL_DATA"))
  BY DEF Connect
<1>3. /\ phase[c] = "new" /\ phase' = [phase EXCEPT ![c] = "up"]
      /\ UNCHANGED <<players, chan>>
  BY DEF Connect
<1>4. /\ \A j \in Index : peer'[j] = IF j = k THEN c ELSE peer[j]
      /\ NoClient \notin Client /\ k \in Nat /\ Index \subseteq Nat
  BY <1>2, NobodyIsNobody, SlotsAreNat DEF TypeOK, Index
<1>5. /\ \A d \in Client : phase'[d] = "new" => phase[d] = "new" /\ d # c
      /\ \A s \in Slot : players[s] # NoPlayer => players[s].conn \in Client
  BY <1>3, PlayersTyped DEF TypeOK
<1>6. /\ inbox \in Seq(Packet) /\ PacketOf(c, k, "INITIAL_DATA") \in Packet
      /\ PacketOf(c, k, "INITIAL_DATA").rpc = "INITIAL_DATA"
      /\ PacketOf(c, k, "INITIAL_DATA").index = k
      /\ PacketOf(c, k, "INITIAL_DATA").conn = c
  BY DEF TypeOK, PacketOf, Packet, JoinRpc
<1>7. \A j \in Index : \A d \in Client :
        /\ JoinIn(inbox', j, d) <=> j = k /\ d = c
        /\ LeftIn(inbox', j, d) <=> LeftIn(inbox, j, d)
  BY <1>1, <1>2, <1>6, AppendedIn DEF NoJoins, JoinRpc
<1>8. Ordered(inbox')
  BY <1>1, <1>2, <1>6, AppendedOrder DEF NoJoins, QuietInv, OneJoiner
<1>9. \A j \in Index : peer[j] # c /\ ~ LeftIn(inbox, j, c)
  BY <1>3 DEF QuietInv, NewUnknown
<1>10. \A s \in Slot : players[s] # NoPlayer => players[s].conn # c
  BY <1>3 DEF QuietInv, NewUnknown
<1>11. PeersDistinct'
  BY <1>4, <1>9 DEF QuietInv, PeersDistinct
<1>12. NewUnknown'
  BY <1>3, <1>4, <1>5, <1>7 DEF QuietInv, NewUnknown
<1>13. LeaversGone'
  BY <1>4, <1>7, <1>9 DEF QuietInv, LeaversGone
<1>14. JoinersLinked'
  BY <1>1, <1>3, <1>4, <1>7 DEF JoinersLinked, NoJoins
<1>15. OneJoiner'
  BY <1>1, <1>3, <1>8 DEF QuietInv, OneJoiner, NoJoins
<1>16. JoinerNext'
  <2>1. SUFFICES ASSUME NEW d \in Client, NEW j \in Index, peer'[j] = d,
                        JoinIn(inbox', j, d) \/ StartIn(chan'[d])
                 PROVE  /\ \A lower \in Index : lower < j => peer'[lower] # NoClient
                        /\ \A s \in Slot : players'[s] # NoPlayer =>
                                             players'[s].conn # d
    BY DEF JoinerNext
  <2>2. j = k /\ d = c
    BY <1>1, <1>3, <1>7, <2>1 DEF NoJoins
  <2>3. \A lower \in Index : lower < k => peer'[lower] # NoClient
    BY <1>2, <1>4
  <2> QED BY <1>3, <1>10, <2>2, <2>3
<1>17. MembersSeated'
  BY <1>1, <1>3, <1>4, <1>7 DEF QuietInv, MembersSeated, NoJoins, Index
<1>18. PlayersLinked'
  BY <1>2, <1>3, <1>4, <1>5, <1>7 DEF QuietInv, PlayersLinked, Index
<1>19. LeaversSeated'
  BY <1>3, <1>7 DEF QuietInv, LeaversSeated
<1> QED BY <1>11, <1>12, <1>13, <1>14, <1>15, <1>16, <1>17, <1>18, <1>19
        DEF QuietInv

(* A connection closes while nobody joins.                                 *)
LEMMA CloseQuietly ==
  ASSUME TypeOK, QuietInv, NoJoins, SamePeople,
         NEW k \in Index, NEW c \in Client, peer[k] = c,
         peer' = [peer EXCEPT ![k] = NoClient],
         inbox' = Append(inbox, PacketOf(c, k, "LEFT")),
         \A d \in Client : chan'[d] = chan[d] \/ chan'[d] = <<>>
  PROVE  QuietInv'
<1>1. /\ inbox \in Seq(Packet) /\ PacketOf(c, k, "LEFT") \in Packet
      /\ PacketOf(c, k, "LEFT").rpc = "LEFT"
      /\ PacketOf(c, k, "LEFT").index = k /\ PacketOf(c, k, "LEFT").conn = c
  BY DEF TypeOK, PacketOf, Packet
<1>2. \A j \in Index : \A d \in Client :
        /\ ~ JoinIn(inbox', j, d)
        /\ LeftIn(inbox', j, d) <=> LeftIn(inbox, j, d) \/ (j = k /\ d = c)
  BY <1>1, AppendedIn DEF NoJoins, JoinRpc
<1>3. Ordered(inbox')
  BY <1>1, AppendedOrder DEF NoJoins, QuietInv, OneJoiner
<1>4. \A d \in Client : OneStart(chan'[d]) /\ ~ StartIn(chan'[d])
  BY EmptyChan DEF NoJoins, QuietInv, OneJoiner
<1>5. players[k] # NoPlayer => players[k].conn = c
  BY DEF NoJoins, QuietInv, MembersSeated, Joining, Starting
<1>6. NoJoins'
  BY <1>2, <1>4 DEF NoJoins
<1>7. \A d \in Client : d # c =>
        ~ StartIn(chan[d]) /\ \A j \in Index : ~ JoinIn(inbox, j, d)
  BY DEF NoJoins
<1>8. \A j \in Index : \A d \in Client :
        LeftIn(inbox', j, d) <=> LeftIn(inbox, j, d) \/ (j = k /\ d = c)
  BY <1>2
<1>9. \A d \in Client : OneStart(chan'[d])
  BY <1>4
<1> QED BY <1>3, <1>5, <1>6, <1>7, <1>8, <1>9, Unlink

LEMMA LinkCloses ==
  ASSUME TypeOK, QuietInv, Quiet, NEW c \in Client, Disconnect(c)
  PROVE  QuietInv'
<1>1. PICK k \in Index : /\ peer[k] = c /\ peer' = [peer EXCEPT ![k] = NoClient]
                         /\ inbox' = Append(inbox, PacketOf(c, k, "LEFT"))
  BY DEF Disconnect
<1>2. SamePeople /\ \A d \in Client : chan'[d] = chan[d] \/ chan'[d] = <<>>
  BY DEF Disconnect, Exit, SamePeople, TypeOK
<1>3. NoJoins
  BY NothingPending DEF Disconnect
<1> QED BY <1>1, <1>2, <1>3, CloseQuietly

LEMMA KickCloses ==
  ASSUME TypeOK, QuietInv, Quiet, NEW s \in Slot, Kick(s)
  PROVE  QuietInv'
<1>1. /\ s \in Index /\ peer[s] \in Client
      /\ peer' = [peer EXCEPT ![s] = NoClient]
      /\ inbox' = Append(inbox, PacketOf(peer[s], s, "LEFT"))
  BY DEF Kick, CloseConnection, Index, TypeOK
<1>2. SamePeople /\ \A d \in Client : chan'[d] = chan[d]
  BY DEF Kick, SamePeople
<1>3. NoJoins
  BY NothingPending DEF Kick
<1> QED BY <1>1, <1>2, <1>3, CloseQuietly

LEMMA NoticeFrames ==
  ASSUME TypeOK, QuietInv, NEW c \in Client, NoticeClosed(c)
  PROVE  QuietInv'
<1>1. /\ peer' = peer /\ inbox' = inbox /\ SamePeople
      /\ chan' = [chan EXCEPT ![c] = <<>>]
  BY DEF NoticeClosed, Exit, SamePeople, TypeOK
<1>2. ~ StartIn(chan[c])
  BY DEF NoticeClosed, Linked, QuietInv, JoinersLinked, Starting
<1>3. \A d \in Client : chan'[d] = IF d = c THEN <<>> ELSE chan[d]
  BY <1>1 DEF TypeOK
<1>4. SameQueues
  BY <1>1, <1>2, <1>3, EmptyChan DEF SameQueues, QuietInv, OneJoiner
<1> QED BY <1>1, <1>4, Frame
-----------------------------------------------------------------------------
(* The steps of a join.                                                    *)

(* The packet of a join at the head of the queue is the only sign of it,   *)
(* and no departure is queued: its slot is free, those below are taken.    *)
LEMMA HeadJoins ==
  ASSUME TypeOK, QuietInv, inbox # <<>>, Head(inbox).rpc \in JoinRpc,
         NEW k, NEW c, k = Head(inbox).index, c = Head(inbox).conn
  PROVE  /\ k \in Index /\ c \in Client /\ peer[k] = c
         /\ Ordered(Tail(inbox))
         /\ \A d \in Client : /\ ~ StartIn(chan[d]) /\ OneStart(chan[d])
                              /\ \A j \in Index :
                                   /\ JoinIn(inbox, j, d) <=> j = k /\ d = c
                                   /\ ~ JoinIn(Tail(inbox), j, d)
                                   /\ ~ LeftIn(Tail(inbox), j, d)
                                   /\ ~ LeftIn(inbox, j, d)
         /\ \A lower \in Index : lower < k => players[lower] # NoPlayer
         /\ players[k] = NoPlayer
         /\ \A s \in Slot : players[s] # NoPlayer => players[s].conn # c
<1> USE DEF Joining, Leaving, Starting
<1>1. k \in Index /\ c \in Client /\ inbox \in Seq(Packet)
  BY ReceivedTyped DEF TypeOK
<1>2. /\ Ordered(Tail(inbox))
      /\ \A j, d : ~ JoinIn(Tail(inbox), j, d) /\ ~ LeftIn(Tail(inbox), j, d)
  BY <1>1, TakenOrder DEF QuietInv, OneJoiner
<1>3. \A j, d : /\ JoinIn(inbox, j, d) <=> j = k /\ d = c
                /\ ~ LeftIn(inbox, j, d)
  BY <1>1, <1>2, TakenIn DEF JoinRpc
<1>4. \A d \in Client : ~ StartIn(chan[d]) /\ OneStart(chan[d])
  BY <1>1, <1>3 DEF QuietInv, OneJoiner
<1>5. peer[k] = c
  BY <1>1, <1>3 DEF QuietInv, JoinersLinked
<1>6. /\ \A lower \in Index : lower < k => peer[lower] # NoClient
      /\ \A s \in Slot : players[s] # NoPlayer => players[s].conn # c
  BY <1>1, <1>3, <1>5 DEF QuietInv, JoinerNext
<1>7. players[k] = NoPlayer
  BY <1>1, <1>3, <1>5, <1>6 DEF QuietInv, PlayersLinked, Index
<1>8. ASSUME NEW lower \in Index, lower < k PROVE players[lower] # NoPlayer
  <2>1. peer[lower] \in Client
    BY <1>6, <1>8 DEF TypeOK
  <2>2. lower # k
    BY <1>1, <1>8, SlotsAreNat DEF Index
  <2>3. ~ JoinIn(inbox, lower, peer[lower]) /\ ~ StartIn(chan[peer[lower]])
    BY <1>3, <1>4, <2>1, <2>2
  <2> QED BY <2>1, <2>3 DEF QuietInv, MembersSeated
<1> QED BY <1>1, <1>2, <1>3, <1>4, <1>5, <1>6, <1>7, <1>8

(* A client that is refused.                                               *)
LEMMA RefuseCloses ==
  ASSUME TypeOK, QuietInv, inbox # <<>>, Head(inbox).rpc \in JoinRpc,
         CloseConnection(Head(inbox).index, Tail(inbox)),
         UNCHANGED <<players, chan, phase>>
  PROVE  QuietInv'
<1> DEFINE k == Head(inbox).index
           c == Head(inbox).conn
<1>1. /\ k \in Index /\ c \in Client /\ peer[k] = c /\ Ordered(Tail(inbox))
      /\ \A d \in Client : /\ ~ StartIn(chan[d]) /\ OneStart(chan[d])
                           /\ \A j \in Index : /\ JoinIn(inbox, j, d) <=> j = k /\ d = c
                                               /\ ~ JoinIn(Tail(inbox), j, d)
                                               /\ ~ LeftIn(Tail(inbox), j, d)
                                               /\ ~ LeftIn(inbox, j, d)
      /\ players[k] = NoPlayer
  BY HeadJoins
<1> HIDE DEF k, c
<1>2. /\ peer' = [peer EXCEPT ![k] = NoClient]
      /\ inbox' = Append(Tail(inbox), PacketOf(c, k, "LEFT"))
  BY <1>1, NobodyIsNobody DEF CloseConnection, k
<1>3. /\ Tail(inbox) \in Seq(Packet) /\ PacketOf(c, k, "LEFT") \in Packet
      /\ PacketOf(c, k, "LEFT").rpc = "LEFT"
      /\ PacketOf(c, k, "LEFT").index = k /\ PacketOf(c, k, "LEFT").conn = c
  BY <1>1, ReceivedTyped DEF TypeOK, PacketOf, Packet
<1>4. \A j \in Index : \A d \in Client :
        /\ ~ JoinIn(inbox', j, d)
        /\ LeftIn(inbox', j, d) <=> j = k /\ d = c
  <2> SUFFICES ASSUME NEW j \in Index, NEW d \in Client
               PROVE  /\ ~ JoinIn(inbox', j, d)
                      /\ LeftIn(inbox', j, d) <=> j = k /\ d = c
    OBVIOUS
  <2>1. ~ JoinIn(Tail(inbox), j, d) /\ ~ LeftIn(Tail(inbox), j, d)
    BY <1>1
  <2> DEFINE q == Tail(inbox)  p == PacketOf(c, k, "LEFT")
  <2>2. /\ JoinIn(Append(q, p), j, d) <=>
              JoinIn(q, j, d) \/ (p.rpc \in JoinRpc /\ p.index = j /\ p.conn = d)
        /\ LeftIn(Append(q, p), j, d) <=>
              LeftIn(q, j, d) \/ (p.rpc = "LEFT" /\ p.index = j /\ p.conn = d)
    BY <1>3, AppendedIn
  <2> QED BY <1>2, <1>3, <2>1, <2>2 DEF JoinRpc
<1>5. Ordered(inbox')
  BY <1>1, <1>2, <1>3, AppendedOrder
<1>6. NoJoins' /\ SamePeople /\ \A d \in Client : OneStart(chan'[d])
  BY <1>1, <1>4 DEF NoJoins, SamePeople
<1>7. \A d \in Client : d # c =>
        ~ StartIn(chan[d]) /\ \A j \in Index : ~ JoinIn(inbox, j, d)
  BY <1>1
<1>8. \A j \in Index : \A d \in Client :
        LeftIn(inbox', j, d) <=> LeftIn(inbox, j, d) \/ (j = k /\ d = c)
  BY <1>1, <1>4
<1> QED BY <1>1, <1>2, <1>5, <1>6, <1>7, <1>8, Unlink

(* Only one client joins at a time.                                        *)
LEMMA JoinersApart ==
  ASSUME QuietInv, NEW c \in Client, NEW d \in Client, c # d,
         NEW k \in Index, NEW j \in Index, JoinIn(inbox, k, c) \/ StartIn(chan[c])
  PROVE  ~ JoinIn(inbox, j, d)
<1>1. CASE StartIn(chan[c])
  BY <1>1 DEF QuietInv, OneJoiner, Joining, Starting
<1>2. CASE JoinIn(inbox, k, c)
  BY <1>2 DEF QuietInv, OneJoiner, Ordered, JoinIn
<1> QED BY <1>1, <1>2

(* INITIAL_DATA of a client that is let in becomes its DOWNLOAD_START, and *)
(* that its DOWNLOAD_FINISH: the join goes on, of the same client.         *)
LEMMA JoinGoesOn ==
  ASSUME TypeOK, QuietInv, NEW k \in Index, NEW c \in Client, peer[k] = c,
         JoinIn(inbox, k, c) \/ StartIn(chan[c]),
         peer' = peer, UNCHANGED <<players, phase>>,
         \A d \in Client : \A j \in Index :
           ~ LeftIn(inbox, j, d) /\ ~ LeftIn(inbox', j, d),
         \A d \in Client : \A j \in Index : JoinIn(inbox', j, d) => j = k /\ d = c,
         \A d \in Client : OneStart(chan'[d]) /\ (StartIn(chan'[d]) => d = c),
         JoinIn(inbox', k, c) <=> ~ StartIn(chan'[c]), Ordered(inbox')
  PROVE  QuietInv'
<1> USE DEF Joining, Leaving, Starting
<1>1. PeersDistinct'
  BY DEF QuietInv, PeersDistinct
<1>2. NewUnknown'
  BY DEF QuietInv, NewUnknown
<1>3. LeaversGone' /\ LeaversSeated'
  BY DEF LeaversGone, LeaversSeated
<1>4. JoinersLinked'
  BY DEF JoinersLinked
<1>5. OneJoiner'
  BY DEF OneJoiner
<1>6. JoinerNext'
  <2>1. \A d \in Client : \A j \in Index :
          peer[j] = d /\ (JoinIn(inbox', j, d) \/ StartIn(chan'[d])) =>
            j = k /\ d = c
    BY NobodyIsNobody DEF QuietInv, PeersDistinct
  <2>2. /\ \A lower \in Index : lower < k => peer[lower] # NoClient
        /\ \A s \in Slot : players[s] # NoPlayer => players[s].conn # c
    BY DEF QuietInv, JoinerNext
  <2> QED BY <2>1, <2>2 DEF JoinerNext
<1>7. MembersSeated'
  <2>1. SUFFICES ASSUME NEW d \in Client, NEW j \in Index, peer[j] = d,
                        ~ JoinIn(inbox', j, d), ~ StartIn(chan'[d])
                 PROVE  players[j] # NoPlayer /\ players[j].conn = d
    BY DEF MembersSeated
  <2>2. CASE j = k
    <3>1. d = c
      BY <2>1, <2>2
    <3> QED BY <2>1, <2>2, <3>1
  <2>3. CASE j # k
    <3>1. d # c
      BY <2>1, <2>3, NobodyIsNobody DEF QuietInv, PeersDistinct
    <3>2. ~ StartIn(chan[d])
      BY <3>1 DEF QuietInv, OneJoiner
    <3>3. ~ JoinIn(inbox, j, d)
      BY <3>1, JoinersApart
    <3> QED BY <2>1, <3>2, <3>3 DEF QuietInv, MembersSeated
  <2> QED BY <2>2, <2>3
<1>8. PlayersLinked'
  BY PlayersTyped DEF QuietInv, PlayersLinked, Index
<1> QED BY <1>1, <1>2, <1>3, <1>4, <1>5, <1>6, <1>7, <1>8 DEF QuietInv

LEMMA StartSent ==
  ASSUME NEW ms \in Seq(Message), ~ StartIn(ms), OneStart(ms)
  PROVE  /\ StartIn(ms \o <<[rpc |-> "DOWNLOAD_START"]>>)
         /\ OneStart(ms \o <<[rpc |-> "DOWNLOAD_START"]>>)
<1> DEFINE m == [rpc |-> "DOWNLOAD_START"]
<1>1. m \in Message /\ m.rpc = "DOWNLOAD_START"
  BY DEF Message
<1> HIDE DEF m
<1>2. ms \o <<m>> = Append(ms, m)
  BY <1>1
<1> QED BY <1>1, <1>2, AppendedStart DEF m

LEMMA InitialDataKeeps ==
  ASSUME TypeOK, QuietInv, InitialData
  PROVE  QuietInv'
<1> DEFINE k == Head(inbox).index
           c == Head(inbox).conn
<1>1. /\ inbox # <<>> /\ Head(inbox).rpc \in JoinRpc
      /\ UNCHANGED <<players, phase>>
  BY DEF InitialData, Receive, JoinRpc
<1>2. CASE CloseConnection(k, Tail(inbox)) /\ UNCHANGED chan
  BY <1>1, <1>2, RefuseCloses
<1>3. CASE SendTo(k, <<[rpc |-> "DOWNLOAD_START"]>>) /\ inbox' = Tail(inbox)
           /\ UNCHANGED peer
  <2>1. /\ k \in Index /\ c \in Client /\ peer[k] = c /\ Ordered(Tail(inbox))
        /\ \A d \in Client : /\ ~ StartIn(chan[d]) /\ OneStart(chan[d])
                             /\ \A j \in Index : /\ JoinIn(inbox, j, d) <=> j = k /\ d = c
                                                 /\ ~ JoinIn(Tail(inbox), j, d)
                                                 /\ ~ LeftIn(Tail(inbox), j, d)
                                                 /\ ~ LeftIn(inbox, j, d)
    BY <1>1, HeadJoins
  <2> HIDE DEF k, c
  <2>2. \A d \in Client :
          chan'[d] = IF d = c THEN chan[d] \o <<[rpc |-> "DOWNLOAD_START"]>>
                              ELSE chan[d]
    BY <1>3, <2>1 DEF SendTo
  <2>3. \A d \in Client : OneStart(chan'[d]) /\ (StartIn(chan'[d]) <=> d = c)
    BY <2>1, <2>2, StartSent DEF TypeOK
  <2>4. \A d \in Client : \A j \in Index :
          /\ ~ LeftIn(inbox, j, d) /\ ~ LeftIn(inbox', j, d)
          /\ ~ JoinIn(inbox', j, d)
    BY <1>3, <2>1
  <2>5. JoinIn(inbox, k, c) /\ Ordered(inbox')
    BY <1>3, <2>1
  <2> QED BY <1>1, <1>3, <2>1, <2>3, <2>4, <2>5, JoinGoesOn
<1> QED BY <1>2, <1>3 DEF InitialData
-----------------------------------------------------------------------------
(* Chat lines, renames and news: packets and messages of no join.          *)

SameStarts ==
  \A c \in Client : /\ OneStart(chan'[c])
                    /\ StartIn(chan'[c]) <=> StartIn(chan[c])

SamePackets ==
  /\ Ordered(inbox')
  /\ \A c \in Client : \A k \in Index :
       /\ JoinIn(inbox', k, c) <=> JoinIn(inbox, k, c)
       /\ LeftIn(inbox', k, c) <=> LeftIn(inbox, k, c)

LEMMA BroadcastStarts ==
  ASSUME TypeOK, QuietInv, NEW k, NEW m \in Message, m.rpc # "DOWNLOAD_START",
         Broadcast(k, m)
  PROVE  SameStarts
<1>1. \A c \in Client : chan[c] \in Seq(Message) /\ OneStart(chan[c])
  BY DEF TypeOK, QuietInv, OneJoiner
<1>2. \A c \in Client : chan'[c] = chan[c] \/ chan'[c] = Append(chan[c], m)
  BY DEF Broadcast
<1>3. ASSUME NEW c \in Client
      PROVE  OneStart(chan'[c]) /\ (StartIn(chan'[c]) <=> StartIn(chan[c]))
  <2>1. CASE chan'[c] = chan[c]
    BY <1>1, <2>1
  <2>2. CASE chan'[c] = Append(chan[c], m)
    BY <1>1, <2>2, AppendedStart
  <2> QED BY <1>2, <2>1, <2>2
<1> QED BY <1>3 DEF SameStarts

LEMMA UnchangedStarts ==
  ASSUME QuietInv, chan' = chan
  PROVE  SameStarts
BY DEF SameStarts, QuietInv, OneJoiner

LEMMA PlainTaken ==
  ASSUME TypeOK, QuietInv, inbox # <<>>,
         Head(inbox).rpc \notin JoinRpc \cup {"LEFT"}, inbox' = Tail(inbox)
  PROVE  SamePackets
<1>1. inbox \in Seq(Packet) /\ Ordered(inbox)
  BY DEF TypeOK, QuietInv, OneJoiner
<1>2. Ordered(inbox')
  BY <1>1, TakenOrder
<1>3. ASSUME NEW c, NEW k
      PROVE  /\ JoinIn(inbox', k, c) <=> JoinIn(inbox, k, c)
             /\ LeftIn(inbox', k, c) <=> LeftIn(inbox, k, c)
  BY <1>1, TakenIn
<1> QED BY <1>2, <1>3 DEF SamePackets

LEMMA PlainUploaded ==
  ASSUME TypeOK, QuietInv, NEW c \in Client, NEW name \in Name,
         NEW rpc \in {"PLAYER_CHAT", "NAME_CHANGE"}, Upload(c, rpc, name)
  PROVE  SamePackets
<1>1. inbox \in Seq(Packet) /\ Ordered(inbox)
  BY DEF TypeOK, QuietInv, OneJoiner
<1>2. CASE UNCHANGED inbox
  BY <1>1, <1>2 DEF SamePackets
<1>3. ASSUME NEW k \in Index, NEW p \in Packet, inbox' = Append(inbox, p),
             p.rpc \notin JoinRpc \cup {"LEFT"}
      PROVE  SamePackets
  <2>1. Ordered(inbox')
    BY <1>1, <1>3, AppendedOrder DEF JoinRpc
  <2>2. ASSUME NEW d, NEW j
        PROVE  /\ JoinIn(inbox', j, d) <=> JoinIn(inbox, j, d)
               /\ LeftIn(inbox', j, d) <=> LeftIn(inbox, j, d)
    BY <1>1, <1>3, AppendedIn
  <2> QED BY <2>1, <2>2 DEF SamePackets
<1>4. ASSUME NEW k \in Index
      PROVE  LET p == [PacketOf(c, k, rpc) EXCEPT !.name = name] IN
               p \in Packet /\ p.rpc \notin JoinRpc \cup {"LEFT"}
  BY PacketTyped DEF PacketOf, JoinRpc
<1> QED BY <1>2, <1>3, <1>4 DEF Upload

LEMMA QueuesKept == SamePackets /\ SameStarts => SameQueues
BY DEF SamePackets, SameStarts, SameQueues

LEMMA Renamed ==
  ASSUME TypeOK, NEW s \in Slot, players[s] # NoPlayer, NEW name \in Name,
         players' = [players EXCEPT ![s].name = name]
  PROVE  \A t \in Slot : /\ players'[t] # NoPlayer <=> players[t] # NoPlayer
                         /\ players[t] # NoPlayer =>
                              players'[t].conn = players[t].conn
<1>1. players[s] \in Player /\ players \in [Slot -> Player \cup {NoPlayer}]
  BY DEF TypeOK
<1>2. /\ [players[s] EXCEPT !.name = name] \in Player
      /\ [players[s] EXCEPT !.name = name].conn = players[s].conn
  BY <1>1 DEF Player
<1>3. \A t \in Slot : players'[t] = IF t = s THEN [players[s] EXCEPT !.name = name]
                                             ELSE players[t]
  BY <1>1
<1> QED BY <1>2, <1>3, NobodyIsNobody

LEMMA PlayerChatKeeps ==
  ASSUME TypeOK, QuietInv, PlayerChat
  PROVE  QuietInv'
<1>1. /\ inbox # <<>> /\ Head(inbox).rpc = "PLAYER_CHAT"
      /\ inbox' = Tail(inbox) /\ UNCHANGED <<peer, players, phase>>
  BY DEF PlayerChat, Receive
<1>2. SamePackets
  BY <1>1, PlainTaken DEF JoinRpc
<1>3. SameStarts
  <2> DEFINE line == [rpc |-> "PLAYER_CHAT", id |-> Head(inbox).index,
                      player |-> [name |-> Head(inbox).name,
                                  conn |-> Head(inbox).conn]]
  <2>1. line \in Message /\ line.rpc # "DOWNLOAD_START"
    BY <1>1, ReceivedTyped, SlotsAreNat DEF Message, Player, Index
  <2>2. UNCHANGED chan \/ Broadcast(InvalidId, line)
    BY DEF PlayerChat
  <2> HIDE DEF line
  <2> QED BY <2>1, <2>2, BroadcastStarts, UnchangedStarts
<1> QED BY <1>1, <1>2, <1>3, QueuesKept, Frame DEF SamePeople

LEMMA PlayerChangeNameKeeps ==
  ASSUME TypeOK, QuietInv, PlayerChangeName
  PROVE  QuietInv'
<1> DEFINE p == Head(inbox)
           news == [rpc |-> "NAME_CHANGE", id |-> p.index,
                    player |-> [name |-> p.name, conn |-> p.conn]]
<1>1. /\ inbox # <<>> /\ p.rpc = "NAME_CHANGE"
      /\ inbox' = Tail(inbox) /\ UNCHANGED <<peer, phase>>
  BY DEF PlayerChangeName, Receive
<1>2. SamePackets
  BY <1>1, PlainTaken DEF JoinRpc
<1>3. CASE UNCHANGED <<players, chan>>
  BY <1>1, <1>2, <1>3, UnchangedStarts, QueuesKept, Frame DEF SamePeople
<1>4. CASE /\ Table!Exists(players, p.index) /\ Broadcast(p.index, news)
           /\ players' = [players EXCEPT ![p.index].name = p.name]
  <2>1. p.index \in Slot /\ players[p.index] # NoPlayer /\ p.name \in Name
    BY <1>1, <1>4, ReceivedTyped DEF Table!Exists, Slot
  <2>2. news \in Message /\ news.rpc # "DOWNLOAD_START"
    BY <1>1, ReceivedTyped, SlotsAreNat DEF Message, Player, Index
  <2> HIDE DEF p, news
  <2>3. SameStarts
    BY <1>4, <2>2, BroadcastStarts
  <2>4. SamePeople
    BY <1>1, <1>4, <2>1, Renamed DEF SamePeople
  <2> QED BY <1>1, <1>2, <2>3, <2>4, QueuesKept, Frame
<1> QED BY <1>3, <1>4 DEF PlayerChangeName
-----------------------------------------------------------------------------
(* The clients' steps.                                                     *)

LEMMA ChatKeeps ==
  ASSUME TypeOK, QuietInv, NEW c \in Client, Chat(c)
  PROVE  QuietInv'
<1>1. nick[c] \in Name
  BY DEF TypeOK
<1>2. SamePackets
  BY <1>1, PlainUploaded DEF Chat
<1>3. UNCHANGED <<peer, players, chan, phase>>
  BY DEF Chat
<1> QED BY <1>2, <1>3, UnchangedStarts, QueuesKept, Frame DEF SamePeople

LEMMA ChangeNickKeeps ==
  ASSUME TypeOK, QuietInv, NEW c \in Client, NEW name \in Name, ChangeNick(c, name)
  PROVE  QuietInv'
<1>1. SamePackets
  BY PlainUploaded DEF ChangeNick
<1>2. UNCHANGED <<peer, players, chan, phase>>
  BY DEF ChangeNick
<1> QED BY <1>1, <1>2, UnchangedStarts, QueuesKept, Frame DEF SamePeople

(* The client answers DOWNLOAD_START.                                      *)
LEMMA DownloadStartKeeps ==
  ASSUME TypeOK, QuietInv, NEW c \in Client, chan[c] # <<>>,
         Head(chan[c]).rpc = "DOWNLOAD_START", Pop(c), OnDownloadStart(c),
         UNCHANGED <<peer, players>>
  PROVE  QuietInv'
<1> USE DEF Joining, Leaving, Starting
<1>1. /\ chan[c] \in Seq(Message) /\ OneStart(chan[c])
      /\ StartIn(chan[c]) /\ ~ StartIn(Tail(chan[c])) /\ OneStart(Tail(chan[c]))
  BY TakenStart DEF TypeOK, QuietInv, OneJoiner
<1>2. /\ \A d \in Client : StartIn(chan[d]) => d = c
      /\ \A d \in Client : \A j \in Index :
           ~ JoinIn(inbox, j, d) /\ ~ LeftIn(inbox, j, d)
  BY <1>1 DEF QuietInv, OneJoiner
<1>3. \A d \in Client : ~ StartIn(chan'[d]) /\ OneStart(chan'[d])
  <2>1. \A d \in Client : chan'[d] = IF d = c THEN Tail(chan[c]) ELSE chan[d]
    BY DEF Pop, TypeOK
  <2> QED BY <1>1, <1>2, <2>1 DEF QuietInv, OneJoiner
<1>4. PICK k \in Index : /\ peer[k] = c
                         /\ inbox' = Append(inbox,
                              [PacketOf(c, k, "DOWNLOAD_FINISH") EXCEPT !.name = nick[c]])
  <2>1. Linked(c)
    BY <1>1 DEF QuietInv, JoinersLinked, Linked
  <2> QED BY <2>1 DEF OnDownloadStart, Upload
<1> DEFINE p == [PacketOf(c, k, "DOWNLOAD_FINISH") EXCEPT !.name = nick[c]]
<1>5. /\ p \in Packet /\ p.rpc = "DOWNLOAD_FINISH" /\ p.index = k /\ p.conn = c
      /\ inbox \in Seq(Packet) /\ Ordered(inbox)
  BY PacketTyped DEF TypeOK, JoinRpc, PacketOf, QuietInv, OneJoiner
<1> HIDE DEF p
<1>6. \A d \in Client : \A j \in Index :
        /\ JoinIn(inbox', j, d) <=> j = k /\ d = c
        /\ ~ LeftIn(inbox', j, d)
  <2> SUFFICES ASSUME NEW d \in Client, NEW j \in Index
               PROVE  /\ JoinIn(Append(inbox, p), j, d) <=> j = k /\ d = c
                      /\ ~ LeftIn(Append(inbox, p), j, d)
    BY <1>4 DEF p
  <2>1. ~ JoinIn(inbox, j, d) /\ ~ LeftIn(inbox, j, d)
    BY <1>2
  <2> QED BY <1>5, <2>1, AppendedIn DEF JoinRpc
<1>7. Ordered(Append(inbox, p))
  BY <1>2, <1>5, AppendedOrder
<1>8. inbox' = Append(inbox, p) /\ phase' = phase
  BY <1>4 DEF p, OnDownloadStart
<1> QED BY <1>1, <1>2, <1>3, <1>4, <1>6, <1>7, <1>8, JoinGoesOn

LEMMA HandlersPhase ==
  ASSUME NEW c, NEW m,
         \/ OnInitialData(c, m) \/ OnGetPlayers(c, m) \/ OnNewPlayer(c, m)
         \/ OnDeletePlayer(c, m) \/ OnNameChange(c, m) \/ OnChat(c)
  PROVE  phase' = phase \/ phase' = [phase EXCEPT ![c] = "crashed"]
<1>1. \A remotes : AddRemote(c, remotes) => UNCHANGED phase \/ Crash(c)
  BY DEF AddRemote
<1>2. UNCHANGED phase \/ Crash(c)
  <2>1. OnInitialData(c, m) \/ OnNameChange(c, m) \/ OnChat(c) => UNCHANGED phase
    BY DEF OnInitialData, OnNameChange, OnChat
  <2>2. OnDeletePlayer(c, m) => UNCHANGED phase \/ Crash(c)
    BY DEF OnDeletePlayer
  <2>3. OnGetPlayers(c, m) => UNCHANGED phase \/ Crash(c)
    BY <1>1 DEF OnGetPlayers
  <2>4. OnNewPlayer(c, m) => UNCHANGED phase \/ Crash(c)
    BY <1>1 DEF OnNewPlayer
  <2> QED BY <2>1, <2>2, <2>3, <2>4
<1> QED BY <1>2 DEF Crash

LEMMA DeliverKeeps ==
  ASSUME TypeOK, QuietInv, NEW c \in Client, Deliver(c)
  PROVE  QuietInv'
<1>1. /\ chan[c] # <<>> /\ Pop(c) /\ UNCHANGED <<peer, players>>
      /\ chan[c] \in Seq(Message) /\ phase[c] = "up"
  BY DEF Deliver, TypeOK
<1>2. CASE Head(chan[c]).rpc = "DOWNLOAD_START"
  BY <1>1, <1>2, DownloadStartKeeps DEF Deliver
<1>3. CASE Head(chan[c]).rpc # "DOWNLOAD_START"
  <2>1. inbox' = inbox
    BY <1>3 DEF Deliver, OnInitialData, OnGetPlayers, OnNewPlayer,
                OnDeletePlayer, OnNameChange, OnChat
  <2>2. phase' = phase \/ phase' = [phase EXCEPT ![c] = "crashed"]
    BY <1>3, HandlersPhase DEF Deliver
  <2>3. SamePeople
    BY <1>1, <2>2 DEF SamePeople, TypeOK
  <2>4. SameStarts
    <3>1. \A d \in Client : chan'[d] = IF d = c THEN Tail(chan[c]) ELSE chan[d]
      BY <1>1 DEF Pop, TypeOK
    <3>2. /\ OneStart(Tail(chan[c]))
          /\ StartIn(Tail(chan[c])) <=> StartIn(chan[c])
      BY <1>1, <1>3, TakenStart DEF QuietInv, OneJoiner
    <3> QED BY <3>1, <3>2 DEF SameStarts, QuietInv, OneJoiner
  <2>5. SamePackets
    BY <2>1 DEF SamePackets, QuietInv, OneJoiner
  <2>6. SameQueues
    BY <2>4, <2>5, QueuesKept
  <2>7. peer' = peer
    BY <1>1
  <2> QED BY <2>3, <2>6, <2>7, Frame
<1> QED BY <1>2, <1>3
-----------------------------------------------------------------------------
(* The joiner sits down, and the leaver's seat is cleared.                 *)

LEMMA JoinMessagesStart ==
  ASSUME TypeOK, NEW id \in Nat, NEW joiner \in Player, NEW c \in Client
  PROVE  ~ StartIn(JoinMessages(id, joiner, c))
<1> DEFINE others == [players EXCEPT ![id] = NoPlayer]
           ms == JoinMessages(id, joiner, c)
<1>1. \/ ms = <<[rpc |-> "INITIAL_DATA", id |-> id]>> \o <<>>
      \/ ms = <<[rpc |-> "INITIAL_DATA", id |-> id]>>
                \o <<[rpc |-> "GET_PLAYERS", roster |-> others]>>
      \/ ms = <<[rpc |-> "NEW_PLAYER", id |-> id, player |-> joiner]>>
      \/ ms = <<>>
  BY DEF JoinMessages
<1> HIDE DEF ms, others
<1>2. \A i \in DOMAIN ms : ms[i].rpc # "DOWNLOAD_START"
  BY <1>1
<1> QED BY <1>2 DEF StartIn, ms

(* The slot the joiner gets is the index its connection has.               *)
LEMMA SlotOfJoiner ==
  ASSUME NEW k \in Index, players[k] = NoPlayer,
         \A lower \in Index : lower < k => players[lower] # NoPlayer
  PROVE  Table!FindFreeSlot(players) = k
<1> DEFINE id == Table!FindFreeSlot(players)
<1>1. Index = Slot /\ Slot \subseteq Nat /\ Table!Slot = Slot
  BY SlotsAreNat DEF Index, Slot
<1>2. id \in Slot /\ Table!IsFirstFree(players, id)
  BY <1>1, FreeSlot
<1> HIDE DEF id
<1>3. /\ players[id] = NoPlayer
      /\ \A lower \in Slot : lower < id => players[lower] # NoPlayer
  BY <1>1, <1>2 DEF Table!IsFirstFree
<1>4. ~ (id < k) /\ ~ (k < id) /\ id \in Nat /\ k \in Nat
  BY <1>1, <1>2, <1>3
<1>5. id = k
  BY <1>4
<1> QED BY <1>5 DEF id

LEMMA SeatTaken ==
  ASSUME TypeOK, QuietInv, inbox # <<>>, Head(inbox).rpc \in JoinRpc,
         NEW joiner \in Player, joiner.conn = Head(inbox).conn,
         players' = Table!Put(players, Table!FindFreeSlot(players), joiner),
         chan' = [c \in Client |->
                    chan[c] \o JoinMessages(Table!FindFreeSlot(players), joiner, c)],
         inbox' = Tail(inbox), UNCHANGED <<peer, phase>>
  PROVE  /\ players[Head(inbox).index] = NoPlayer
         /\ players' = [players EXCEPT ![Head(inbox).index] = joiner]
         /\ QuietInv'
<1> USE DEF Joining, Leaving, Starting
<1> DEFINE k == Head(inbox).index
           c == Head(inbox).conn
<1>1. /\ k \in Index /\ c \in Client /\ peer[k] = c /\ Ordered(Tail(inbox))
      /\ \A d \in Client : /\ ~ StartIn(chan[d]) /\ OneStart(chan[d])
                           /\ \A j \in Index : /\ JoinIn(inbox, j, d) <=> j = k /\ d = c
                                               /\ ~ JoinIn(Tail(inbox), j, d)
                                               /\ ~ LeftIn(Tail(inbox), j, d)
                                               /\ ~ LeftIn(inbox, j, d)
      /\ \A lower \in Index : lower < k => players[lower] # NoPlayer
      /\ players[k] = NoPlayer
      /\ \A s \in Slot : players[s] # NoPlayer => players[s].conn # c
  BY HeadJoins
<1>2. joiner.conn = c
  OBVIOUS
<1> HIDE DEF k, c
<1>3. Table!FindFreeSlot(players) = k
  BY <1>1, SlotOfJoiner
<1>4. players' = [players EXCEPT ![k] = joiner]
  BY <1>3 DEF Table!Put
<1>5. \A s \in Slot : players'[s] = IF s = k THEN joiner ELSE players[s]
  BY <1>4 DEF TypeOK
<1>6. joiner # NoPlayer
  BY NobodyIsNobody
<1>7. \A d \in Client : ~ StartIn(chan'[d]) /\ OneStart(chan'[d])
  <2> SUFFICES ASSUME NEW d \in Client
               PROVE  ~ StartIn(chan'[d]) /\ OneStart(chan'[d])
    OBVIOUS
  <2>1. chan'[d] = chan[d] \o JoinMessages(k, joiner, d) /\ chan[d] \in Seq(Message)
    BY <1>3 DEF TypeOK
  <2>2. k \in Nat
    BY <1>1, SlotsAreNat DEF Index
  <2>3. /\ JoinMessages(k, joiner, d) \in Seq(Message)
        /\ ~ StartIn(JoinMessages(k, joiner, d))
    BY <2>2, JoinMessagesTyped, JoinMessagesStart
  <2> QED BY <1>1, <2>1, <2>3, ConcatStart
<1>8. /\ \A d \in Client : \A j \in Index :
           ~ JoinIn(inbox', j, d) /\ ~ LeftIn(inbox', j, d)
      /\ Ordered(inbox')
  BY <1>1
<1>9. PeersDistinct' /\ LeaversGone' /\ JoinersLinked' /\ JoinerNext' /\ LeaversSeated'
  BY <1>7, <1>8 DEF QuietInv, PeersDistinct, LeaversGone, JoinersLinked,
                    JoinerNext, LeaversSeated
<1>10. NewUnknown'
  <2>1. phase[c] # "new"
    BY <1>1 DEF QuietInv, NewUnknown
  <2> QED BY <1>2, <1>5, <1>8, <2>1 DEF QuietInv, NewUnknown
<1>11. OneJoiner'
  BY <1>7, <1>8 DEF OneJoiner
<1>12. MembersSeated'
  BY <1>1, <1>2, <1>5, <1>6 DEF QuietInv, MembersSeated, Index
<1>13. PlayersLinked'
  <2> SUFFICES ASSUME NEW s \in Slot, players'[s] # NoPlayer
               PROVE  peer[s] = players'[s].conn
    BY DEF PlayersLinked
  <2>1. CASE s = k
    BY <1>1, <1>2, <1>5, <2>1
  <2>2. CASE s # k
    <3>1. players[s].conn \in Client /\ ~ LeftIn(inbox, s, players[s].conn)
      BY <1>1, <1>5, <2>2, PlayersTyped DEF Index
    <3> QED BY <1>5, <2>2, <3>1 DEF QuietInv, PlayersLinked
  <2> QED BY <2>1, <2>2
<1>14. QuietInv'
  BY <1>9, <1>10, <1>11, <1>12, <1>13 DEF QuietInv
<1> QED BY <1>1, <1>4, <1>14 DEF k

LEMMA DownloadFinishedKeeps ==
  ASSUME TypeOK, QuietInv, DownloadFinished
  PROVE  QuietInv'
<1> DEFINE p == Head(inbox)
           joiner == [name |-> p.name, conn |-> p.conn]
           id == Table!FindFreeSlot(players)
<1>1. /\ inbox # <<>> /\ p.rpc \in JoinRpc /\ UNCHANGED phase
  BY DEF DownloadFinished, Receive, JoinRpc
<1>2. CASE CloseConnection(p.index, Tail(inbox)) /\ UNCHANGED <<players, chan>>
  BY <1>1, <1>2, RefuseCloses
<1>3. CASE /\ players' = Table!Put(players, id, joiner)
           /\ chan' = [c \in Client |-> chan[c] \o JoinMessages(id, joiner, c)]
           /\ inbox' = Tail(inbox) /\ UNCHANGED peer
  <2>1. joiner \in Player /\ joiner.conn = p.conn
    BY <1>1, ReceivedTyped DEF Player
  <2> HIDE DEF joiner
  <2> QED BY <1>1, <1>3, <2>1, SeatTaken
<1> QED BY <1>2, <1>3 DEF DownloadFinished

(* The departure at the head of the queue is that of the player at its     *)
(* index, whose connection is gone.                                        *)
LEMMA SeatCleared ==
  ASSUME TypeOK, QuietInv, PlayerLeft
  PROVE  LET k == Head(inbox).index
             c == Head(inbox).conn
         IN /\ k \in Index /\ c \in Client
            /\ LeftIn(inbox, k, c) /\ \A j \in Index : peer[j] # c
            /\ players[k] # NoPlayer => players[k].conn = c
            /\ \A s \in Slot : players'[s] = IF s = k THEN NoPlayer ELSE players[s]
<1> DEFINE k == Head(inbox).index
           c == Head(inbox).conn
<1>1. /\ inbox # <<>> /\ Head(inbox).rpc = "LEFT" /\ inbox \in Seq(Packet)
      /\ k \in Index /\ c \in Client
  BY ReceivedTyped DEF PlayerLeft, Receive, TypeOK
<1>2. LeftIn(inbox, k, c)
  BY <1>1, TakenIn
<1>3. /\ \A j \in Index : peer[j] # c
      /\ players[k] # NoPlayer => players[k].conn = c
  BY <1>1, <1>2 DEF QuietInv, LeaversGone, LeaversSeated, Leaving
<1>4. \A s \in Slot : players'[s] = IF s = k THEN NoPlayer ELSE players[s]
  <2>1. CASE Table!Exists(players, k)
    BY <2>1 DEF PlayerLeft, Table!Delete, TypeOK
  <2>2. CASE ~ Table!Exists(players, k)
    <3>1. players[k] = NoPlayer /\ players' = players
      BY <1>1, <2>2 DEF PlayerLeft, Table!Exists, Slot, Index
    <3> QED BY <3>1
  <2> QED BY <2>1, <2>2
<1> QED BY <1>1, <1>2, <1>3, <1>4

LEMMA PlayerLeftKeeps ==
  ASSUME TypeOK, QuietInv, PlayerLeft
  PROVE  QuietInv'
<1> USE DEF Joining, Leaving, Starting
<1> DEFINE k == Head(inbox).index
           c == Head(inbox).conn
<1>1. /\ k \in Index /\ c \in Client
      /\ LeftIn(inbox, k, c) /\ \A j \in Index : peer[j] # c
      /\ players[k] # NoPlayer => players[k].conn = c
      /\ \A s \in Slot : players'[s] = IF s = k THEN NoPlayer ELSE players[s]
  BY SeatCleared
<1>2. /\ inbox # <<>> /\ Head(inbox).rpc = "LEFT" /\ inbox \in Seq(Packet)
      /\ inbox' = Tail(inbox) /\ UNCHANGED <<peer, phase>>
  BY DEF PlayerLeft, Receive, TypeOK
<1>3. \A d, j : /\ JoinIn(inbox', j, d) <=> JoinIn(inbox, j, d)
                /\ LeftIn(inbox', j, d) => LeftIn(inbox, j, d)
                /\ LeftIn(inbox, j, d) /\ j # k => LeftIn(inbox', j, d)
  BY <1>2, TakenIn DEF JoinRpc
<1>4. Ordered(inbox')
  BY <1>2, TakenOrder DEF QuietInv, OneJoiner
<1>5. \A d \in Client : OneStart(chan'[d]) /\ (StartIn(chan'[d]) <=> StartIn(chan[d]))
  <2> DEFINE m == [rpc |-> "DELETE_PLAYER", id |-> k, conn |-> players[k].conn]
  <2>1. CASE Table!Exists(players, k)
    <3>1. m \in Message /\ m.rpc # "DOWNLOAD_START"
      <4>1. players[k] \in Player
        BY <2>1 DEF TypeOK, Table!Exists, Slot, Table!Slot
      <4> QED BY <1>1, <4>1, SlotsAreNat DEF Message, Index, Player
    <3>2. Broadcast(InvalidId, m)
      BY <2>1 DEF PlayerLeft
    <3> HIDE DEF m
    <3> QED BY <3>1, <3>2, BroadcastStarts DEF SameStarts
  <2>2. CASE ~Table!Exists(players, k)
    <3>1. UNCHANGED chan
      BY <2>2 DEF PlayerLeft
    <3> QED BY <3>1, UnchangedStarts DEF SameStarts
  <2> QED BY <2>1, <2>2
<1> HIDE DEF k, c
<1>6. PeersDistinct' /\ NewUnknown' /\ LeaversGone' /\ JoinersLinked'
  BY <1>1, <1>2, <1>3, <1>5
     DEF QuietInv, PeersDistinct, NewUnknown, LeaversGone, JoinersLinked
<1>7. OneJoiner'
  BY <1>3, <1>4, <1>5 DEF QuietInv, OneJoiner
<1>8. JoinerNext' /\ LeaversSeated'
  BY <1>1, <1>2, <1>3, <1>5 DEF QuietInv, JoinerNext, LeaversSeated, Index
<1>9. MembersSeated'
  BY <1>1, <1>2, <1>3, <1>5 DEF QuietInv, MembersSeated, Index
<1>10. PlayersLinked'
  BY <1>1, <1>2, <1>3 DEF QuietInv, PlayersLinked, Index
<1> QED BY <1>6, <1>7, <1>8, <1>9, <1>10 DEF QuietInv
-----------------------------------------------------------------------------
(* The invariant.                                                          *)

LEMMA QuietInit == Init => QuietInv
<1> SUFFICES ASSUME Init PROVE QuietInv
  OBVIOUS
<1>1. /\ \A k \in Index : peer[k] = NoClient
      /\ \A s \in Slot : players[s] = NoPlayer
      /\ \A k, c : ~ JoinIn(inbox, k, c) /\ ~ LeftIn(inbox, k, c)
      /\ \A c \in Client : ~ StartIn(chan[c]) /\ OneStart(chan[c])
      /\ Ordered(inbox) /\ NoClient \notin Client
  BY EmptyChan, NobodyIsNobody
     DEF Init, Table!EmptyTable, Slot, JoinIn, LeftIn, Ordered
<1> QED BY <1>1 DEF QuietInv, PeersDistinct, NewUnknown, LeaversGone, JoinersLinked,
        OneJoiner, JoinerNext, MembersSeated, PlayersLinked, LeaversSeated,
        Joining, Leaving, Starting

LEMMA QuietNext ==
  ASSUME Quiet, TypeOK, QuietInv, [Next]_vars
  PROVE  QuietInv'
<1>1. CASE ServerStep
  BY <1>1, InitialDataKeeps, DownloadFinishedKeeps, PlayerLeftKeeps,
     PlayerChatKeeps, PlayerChangeNameKeeps DEF ServerStep
<1>2. CASE \E s \in Slot : Kick(s)
  BY <1>2, KickCloses
<1>3. CASE \E c \in Client : ClientStep(c)
  BY <1>3, LinkOpens, LinkCloses, NoticeFrames, DeliverKeeps, ChatKeeps,
     ChangeNickKeeps DEF ClientStep
<1>4. CASE UNCHANGED vars
  <2>1. SameQueues
    BY <1>4 DEF vars, SameQueues, QuietInv, OneJoiner
  <2> QED BY <1>4, <2>1, Frame DEF vars, SamePeople
<1> QED BY <1>1, <1>2, <1>3, <1>4 DEF Next

(* When no connection opens or closes while a join is pending, the         *)
(* relations between connections, seats and queued departures hold for any *)
(* number of clients, names and slots.                                     *)
THEOREM QuietInvariant ==
  ASSUME Quiet
  PROVE  Spec => [](TypeOK /\ QuietInv)
<1>1. Init => TypeOK /\ QuietInv
  BY InitTyped, QuietInit
<1>2. TypeOK /\ QuietInv /\ [Next]_vars => (TypeOK /\ QuietInv)'
  BY NextTyped, QuietNext
<1> QED BY <1>1, <1>2, PTL DEF Spec

(* Quietly, a player sits in the slot that is its connection's system      *)
(* index until its departure is handled: CNetworkRPC.cpp may look a player *)
(* up by guid.systemIndex and address a connection by GetId().             *)
THEOREM QuietSlotIsSystemIndex ==
  ASSUME Quiet
  PROVE  Spec => []SlotIsSystemIndex
<1>1. TypeOK /\ QuietInv => SlotIsSystemIndex
  <2> SUFFICES ASSUME TypeOK, QuietInv, NEW s \in Table!Occupied(players)
               PROVE  \/ peer[s] = players[s].conn
                      \/ \E i \in DOMAIN inbox :
                           inbox[i].rpc = "LEFT" /\ inbox[i].index = s
                           /\ inbox[i].conn = players[s].conn
    BY DEF SlotIsSystemIndex
  <2>1. s \in Slot /\ players[s] # NoPlayer
    BY DEF Table!Occupied, Slot
  <2> QED BY <2>1 DEF QuietInv, PlayersLinked, Leaving, LeftIn
<1> QED BY <1>1, QuietInvariant, PTL

(* Quietly, one connection never has two players: DOWNLOAD_FINISH is       *)
(* handled once for a connection.                                          *)
THEOREM QuietOnePlayerPerConnection ==
  ASSUME Quiet
  PROVE  Spec => []OnePlayerPerConnection
<1>1. TypeOK /\ QuietInv => OnePlayerPerConnection
  <2> SUFFICES ASSUME TypeOK, QuietInv,
                      NEW s \in Table!Occupied(players),
                      NEW t \in Table!Occupied(players),
                      players[s].conn = players[t].conn
               PROVE  s = t
    BY DEF OnePlayerPerConnection
  <2> DEFINE c == players[s].conn
  <2>1. /\ s \in Index /\ players[s] # NoPlayer
        /\ t \in Index /\ players[t] # NoPlayer
    BY DEF Table!Occupied, Index, Slot
  <2>2. c \in Client /\ players[t].conn = c /\ c # NoClient
    BY <2>1, PlayersTyped, NobodyIsNobody DEF Index
  <2> HIDE DEF c
  <2>3. /\ peer[s] = c \/ Leaving(s, c)
        /\ peer[t] = c \/ Leaving(t, c)
    BY <2>1, <2>2 DEF QuietInv, PlayersLinked, Index, c
  <2>4. CASE peer[s] = c /\ peer[t] = c
    BY <2>1, <2>2, <2>4 DEF QuietInv, PeersDistinct
  <2>5. CASE Leaving(s, c) \/ Leaving(t, c)
    BY <2>1, <2>2, <2>3, <2>5 DEF QuietInv, LeaversGone
  <2> QED BY <2>3, <2>4, <2>5
<1> QED BY <1>1, QuietInvariant, PTL

LEMMA LivePlayersKept ==
  ASSUME TypeOK, QuietInv, [Next]_vars,
         NEW s \in Slot, players[s] # NoPlayer, Linked(players[s].conn)
  PROVE  players'[s] # NoPlayer /\ players'[s].conn = players[s].conn
<1>1. CASE players' = players
  BY <1>1
<1>2. CASE DownloadFinished
  <2> DEFINE p == Head(inbox)
             joiner == [name |-> p.name, conn |-> p.conn]
             id == Table!FindFreeSlot(players)
  <2>1. CASE /\ players' = Table!Put(players, id, joiner)
             /\ chan' = [c \in Client |-> chan[c] \o JoinMessages(id, joiner, c)]
             /\ inbox' = Tail(inbox) /\ UNCHANGED peer
    <3>1. inbox # <<>> /\ p.rpc \in JoinRpc /\ UNCHANGED phase
      BY <1>2 DEF DownloadFinished, Receive, JoinRpc
    <3>2. joiner \in Player /\ joiner.conn = p.conn
      BY <3>1, ReceivedTyped DEF Player
    <3> HIDE DEF joiner
    <3>3. /\ players[p.index] = NoPlayer
          /\ players' = [players EXCEPT ![p.index] = joiner]
      BY <2>1, <3>1, <3>2, SeatTaken
    <3> QED BY <3>3 DEF TypeOK
  <2> QED BY <1>1, <1>2, <2>1 DEF DownloadFinished
<1>3. CASE PlayerLeft
  BY <1>3, SeatCleared DEF Linked
<1>4. CASE PlayerChangeName
  <2> DEFINE p == Head(inbox)
  <2>1. CASE /\ Table!Exists(players, p.index)
             /\ players' = [players EXCEPT ![p.index].name = p.name]
    <3>1. p.index \in Slot /\ players[p.index] # NoPlayer /\ p.name \in Name
      BY <1>4, <2>1, ReceivedTyped
         DEF Table!Exists, Slot, PlayerChangeName, Receive
    <3> HIDE DEF p
    <3> QED BY <2>1, <3>1, Renamed
  <2> QED BY <1>1, <1>4, <2>1 DEF PlayerChangeName
<1>5. CASE InitialData \/ PlayerChat
  BY <1>1, <1>5 DEF InitialData, PlayerChat
<1>6. CASE \E k \in Slot : Kick(k)
  BY <1>1, <1>6 DEF Kick
<1>7. CASE \E c \in Client : ClientStep(c)
  BY <1>1, <1>7 DEF ClientStep, Connect, Disconnect, NoticeClosed, Deliver,
                    Chat, ChangeNick
<1>8. CASE UNCHANGED vars
  BY <1>1, <1>8 DEF vars
<1> QED BY <1>2, <1>3, <1>4, <1>5, <1>6, <1>7, <1>8 DEF Next, ServerStep

(* Quietly, no step takes a player whose connection is up out of the table *)
(* or puts another in its slot, DownloadFinished's Add and the deletion in *)
(* the handler of ID_CONNECTION_LOST among them.                           *)
THEOREM QuietNoLivePlayerDropped ==
  ASSUME Quiet
  PROVE  Spec => NoLivePlayerDropped
<1>1. TypeOK /\ QuietInv /\ [Next]_vars =>
        [\A s \in Table!Occupied(players) : Linked(players[s].conn) =>
           players'[s] # NoPlayer /\ players'[s].conn = players[s].conn]_vars
  BY LivePlayersKept DEF Table!Occupied, Slot
<1> QED BY <1>1, QuietInvariant, PTL DEF Spec, NoLivePlayerDropped
=============================================================================
