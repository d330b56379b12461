------------------------- MODULE SessionViews_proofs -------------------------
(***************************************************************************)
(* Proofs about what the clients of PlayerSession show when no connection  *)
(* opens or closes while a join is pending: no client ever deletes its own *)
(* local player, a chat line is shown under its author, and with nothing   *)
(* on its way a client shows exactly the players of the server.            *)
(*                                                                         *)
(* A client's table lags behind the server's by the RPCs on their way to   *)
(* it.  The invariant says of each slot that the last RPC about it that is *)
(* on its way says what the server's table has there, and if none is, that *)
(* the client's table has it already.                                      *)
(*                                                                         *)
(* Then, that the session implements Membership.  For this the invariant   *)
(* says as well that nobody is heard of in two slots, and that the RPCs on *)
(* their way tell of each slot's players in turn.                          *)
(***************************************************************************)
EXTENDS PlayerSession_proofs, SessionMembership

(* The last word.  End(q) is the position after the last of queue q; the   *)
(* news in set A that come before position n end with one of set G, or     *)
(* there are none.                                                         *)
End(q) == Len(q) + 1

Silent(q, n, A) == \A i \in DOMAIN q : i < n => q[i] \notin A

Told(q, n, A, G) ==
  \E i \in DOMAIN q : /\ i < n /\ q[i] \in G
                      /\ \A j \in DOMAIN q : i < j /\ j < n => q[j] \notin A

(* RPCs by what they say about slot s: who is in it, as read by client c,  *)
(* and under which name.                                                   *)
SeatNews(s) ==
  {m \in Message :
     \/ m.rpc \in {"INITIAL_DATA", "NEW_PLAYER", "DELETE_PLAYER"} /\ m.id = s
     \/ m.rpc = "GET_PLAYERS" /\ m.roster[s] # NoPlayer}

Seats(c, s, who) ==
  {m \in SeatNews(s) :
     \/ m.rpc = "INITIAL_DATA" /\ who = c
     \/ m.rpc = "NEW_PLAYER" /\ who = m.player.conn
     \/ m.rpc = "GET_PLAYERS" /\ who = m.roster[s].conn
     \/ m.rpc = "DELETE_PLAYER" /\ who = NoClient}

NameNews(s) ==
  {m \in Message :
     \/ m.rpc \in {"NEW_PLAYER", "NAME_CHANGE"} /\ m.id = s
     \/ m.rpc = "GET_PLAYERS" /\ m.roster[s] # NoPlayer}

Names(s, name) ==
  {m \in NameNews(s) :
     \/ m.rpc \in {"NEW_PLAYER", "NAME_CHANGE"} /\ name = m.player.name
     \/ m.rpc = "GET_PLAYERS" /\ name = m.roster[s].name}

IdNews(s) == {m \in Message : m.rpc = "INITIAL_DATA" /\ m.id = s}

(* News a client must not get once slot s is its own.                      *)
Unseats(s) == SeatNews(s) \cup {m \in Message : m.rpc = "INITIAL_DATA"}

(* Who client c shows in slot s of its table v.                            *)
Shows(c, v, s) ==
  IF v[s] = Local THEN c ELSE IF v[s] = NoPlayer THEN NoClient ELSE v[s].conn

(* A client with table v that has handled the RPCs of queue q before n     *)
(* has been given slot s for its own, or shows who in it.                  *)
Given(q, v, s, n) == v[s] = Local \/ ~ Silent(q, n, IdNews(s))

Learns(c, q, v, s, who, n) ==
  \/ Told(q, n, SeatNews(s), Seats(c, s, who))
  \/ Silent(q, n, SeatNews(s)) /\ Shows(c, v, s) = who

LearnsName(q, v, s, name, n) ==
  \/ Told(q, n, NameNews(s), Names(s, name))
  \/ Silent(q, n, NameNews(s)) /\ v[s].name = name

(* A client with table v and id me can handle the RPCs of queue q: it is   *)
(* given one id, before it hears of others, and never loses its own slot.  *)
Sane(q, v, me) ==
  /\ \A i \in DOMAIN q : q[i].rpc \in {"DOWNLOAD_START", "GET_PLAYERS"} \/ q[i].id \in Slot
  /\ \A s \in Slot : \A i \in DOMAIN q : Given(q, v, s, i) => q[i] \notin Unseats(s)
  /\ \A i \in DOMAIN q : q[i].rpc \in {"GET_PLAYERS", "NEW_PLAYER"} =>
       \E s \in Slot : Given(q, v, s, i)
  /\ \A t \in Slot : v[t] # NoPlayer => \E s \in Slot : v[s] = Local
  /\ \A s \in Slot : v[s] = Local => s = me

(* It learns who the author of a line is before it shows it.               *)
ChatSeated(c, q, v) ==
  \A i \in DOMAIN q :
    q[i].rpc = "PLAYER_CHAT" /\ (\E s \in Slot : Given(q, v, s, i)) =>
      Learns(c, q, v, q[i].id, q[i].player.conn, i)

(* The server's side: who is in slot s, which clients are in the session,  *)
(* and who client c should show in slot s.                                 *)
SeatOf(s) == IF players[s] = NoPlayer THEN NoClient ELSE players[s].conn

Member(k, c) == peer[k] = c /\ SeatOf(k) = c

Owed(c, s) == IF \E k \in Index : Member(k, c) THEN SeatOf(s) ELSE NoClient

Alive(c) ==
  /\ phase[c] # "crashed" /\ (Linked(c) => phase[c] = "up")
  /\ phase[c] = "new" => chan[c] = <<>> /\ view[c] = Table!EmptyTable

(* What is true of a client whose connection is up.                        *)
OwnSlotGiven(c) ==
  \A s \in Slot : Given(chan[c], view[c], s, End(chan[c])) <=> Member(s, c)

SeatsLearned(c) ==
  \A s \in Slot : Learns(c, chan[c], view[c], s, Owed(c, s), End(chan[c]))

NamesLearned(c) ==
  \A k, s \in Slot : Member(k, c) /\ s # k /\ players[s] # NoPlayer =>
    LearnsName(chan[c], view[c], s, players[s].name, End(chan[c]))

OwnNameUnsent(c) ==
  \A k \in Slot : peer[k] = c =>
    \A i \in DOMAIN chan[c] : ~ (chan[c][i].rpc = "NAME_CHANGE" /\ chan[c][i].id = k)

InStep(c) ==
  OwnSlotGiven(c) /\ SeatsLearned(c) /\ NamesLearned(c) /\ OwnNameUnsent(c)

ViewOk(c) ==
  /\ Alive(c)
  /\ Sane(chan[c], view[c], self[c]) /\ ChatSeated(c, chan[c], view[c])
  /\ Linked(c) => InStep(c)

(* The packets queued at the server: their senders are connected or their  *)
(* departure is queued behind, a departure comes before the packets of who *)
(* has the index now, and the last name of a client that is queued is the  *)
(* one it has.                                                             *)
AuthorsFollowed(q) ==
  \A i \in DOMAIN q :
    \/ peer[q[i].index] = q[i].conn
    \/ \E j \in DOMAIN q : /\ i <= j /\ q[j].rpc = "LEFT"
                           /\ q[j].index = q[i].index /\ q[j].conn = q[i].conn

PresentLast(q) ==
  \A i, j \in DOMAIN q :
    q[j].rpc = "LEFT" /\ q[i].index = q[j].index /\ peer[q[i].index] = q[i].conn => j < i

NamePackets(c) ==
  {p \in Packet : p.conn = c /\ p.rpc \in {"NAME_CHANGE", "DOWNLOAD_FINISH"}}

NameGiven(c, name) == {p \in NamePackets(c) : p.name = name}

NickLearned(q, k, c) ==
  \/ Told(q, End(q), NamePackets(c), NameGiven(c, nick[c]))
  \/ /\ Silent(q, End(q), NamePackets(c))
     /\ SeatOf(k) = c => players[k].name = nick[c]

PacketsOk(q) ==
  /\ AuthorsFollowed(q) /\ PresentLast(q)
  /\ \A c \in Client : \A k \in Index : peer[k] = c => NickLearned(q, k, c)

Views == \A c \in Client : ViewOk(c)

ViewInv == Views /\ PacketsOk(inbox)
-----------------------------------------------------------------------------
(* Queues.                                                                 *)

LEMMA Appended ==
  ASSUME NEW S, NEW q \in Seq(S), NEW e \in S, NEW A, NEW G
  PROVE  LET r == Append(q, e) IN
         /\ e \in G => Told(r, End(r), A, G)
         /\ e \notin A /\ Told(q, End(q), A, G) => Told(r, End(r), A, G)
         /\ Silent(r, End(r), A) <=> Silent(q, End(q), A) /\ e \notin A
<1> DEFINE r == Append(q, e)
<1>1. /\ DOMAIN q = 1 .. Len(q) /\ DOMAIN r = 1 .. Len(q) + 1
      /\ Len(r) = Len(q) + 1 /\ Len(q) \in Nat
      /\ r[Len(q) + 1] = e /\ \A i \in DOMAIN q : r[i] = q[i]
  BY AppendFacts
<1> HIDE DEF r
<1>2. \A i : i \in DOMAIN r <=> i \in DOMAIN q \/ i = Len(q) + 1
  BY <1>1
<1>3. /\ \A i \in DOMAIN q : i < End(q) /\ i < End(r) /\ i < Len(q) + 1
      /\ Len(q) + 1 < End(r) /\ Len(q) + 1 \in Nat
  BY <1>1 DEF End
<1>4. e \in G => Told(r, End(r), A, G)
  <2>1. \A j \in DOMAIN r : ~ (Len(q) + 1 < j)
    BY <1>1
  <2> QED BY <1>1, <1>2, <1>3, <2>1 DEF Told
<1>5. e \notin A /\ Told(q, End(q), A, G) => Told(r, End(r), A, G)
  BY <1>1, <1>2, <1>3 DEF Told
<1>6. Silent(r, End(r), A) <=> Silent(q, End(q), A) /\ e \notin A
  BY <1>1, <1>2, <1>3 DEF Silent
<1> QED BY <1>4, <1>5, <1>6 DEF r

(* What was appended is after every position there was.                    *)
LEMMA AppendedBefore ==
  ASSUME NEW S, NEW q \in Seq(S), NEW e \in S, NEW A, NEW G, NEW n \in Nat, n <= End(q)
  PROVE  LET r == Append(q, e) IN
         /\ Told(r, n, A, G) <=> Told(q, n, A, G)
         /\ Silent(r, n, A) <=> Silent(q, n, A)
<1> DEFINE r == Append(q, e)
<1>1. /\ DOMAIN q = 1 .. Len(q) /\ DOMAIN r = 1 .. Len(q) + 1 /\ Len(q) \in Nat
      /\ \A i \in DOMAIN q : r[i] = q[i]
  BY AppendFacts
<1> HIDE DEF r
<1>2. \A i : i \in DOMAIN r /\ i < n <=> i \in DOMAIN q /\ i < n
  BY <1>1 DEF End
<1> QED BY <1>1, <1>2 DEF Told, Silent, r

LEMMA Taken ==
  ASSUME NEW S, NEW q \in Seq(S), q # <<>>, NEW A, NEW G, NEW n \in Nat \ {0}
  PROVE  /\ Told(q, n + 1, A, G) =>
              \/ Told(Tail(q), n, A, G)
              \/ Head(q) \in G /\ Silent(Tail(q), n, A)
         /\ Silent(q, n + 1, A) <=> Head(q) \notin A /\ Silent(Tail(q), n, A)
<1> DEFINE t == Tail(q)
<1>1. /\ 1 \in DOMAIN q /\ Head(q) = q[1]
      /\ \A i \in DOMAIN t : i \in Nat \ {0} /\ i + 1 \in DOMAIN q /\ t[i] = q[i + 1]
      /\ \A i \in DOMAIN q : i = 1 \/ \E j \in DOMAIN t : j + 1 = i /\ t[j] = q[i]
  BY TailFacts
<1> HIDE DEF t
<1>2. /\ \A i \in DOMAIN t : /\ i + 1 < n + 1 <=> i < n
                             /\ 1 < i + 1
                             /\ \A j \in DOMAIN t : i + 1 < j + 1 <=> i < j
      /\ 1 < n + 1
  BY <1>1
<1>3. Silent(q, n + 1, A) <=> Head(q) \notin A /\ Silent(t, n, A)
  BY <1>1, <1>2 DEF Silent
<1>4. ASSUME Told(q, n + 1, A, G)
      PROVE  Told(t, n, A, G) \/ (Head(q) \in G /\ Silent(t, n, A))
  <2>1. PICK i \in DOMAIN q : /\ i < n + 1 /\ q[i] \in G
          /\ \A j \in DOMAIN q : i < j /\ j < n + 1 => q[j] \notin A
    BY <1>4 DEF Told
  <2>2. CASE i = 1
    <3>1. \A j \in DOMAIN t : j < n => t[j] \notin A
      BY <1>1, <1>2, <2>1, <2>2
    <3> QED BY <1>1, <2>1, <2>2, <3>1 DEF Silent
  <2>3. CASE i # 1
    <3>1. PICK h \in DOMAIN t : h + 1 = i /\ t[h] = q[i]
      BY <1>1, <2>3
    <3>2. \A j \in DOMAIN t : h < j /\ j < n => t[j] \notin A
      BY <1>1, <1>2, <2>1, <3>1
    <3> QED BY <1>2, <2>1, <3>1, <3>2 DEF Told
  <2> QED BY <2>2, <2>3
<1> QED BY <1>3, <1>4 DEF t

LEMMA EndTaken ==
  ASSUME NEW S, NEW q \in Seq(S), q # <<>>
  PROVE  /\ End(Tail(q)) + 1 = End(q) /\ End(Tail(q)) \in Nat \ {0}
         /\ \A i \in DOMAIN Tail(q) : i \in Nat \ {0} /\ i + 1 \in DOMAIN q
                                      /\ Tail(q)[i] = q[i + 1]
BY TailFacts DEF End
-----------------------------------------------------------------------------
(* What an RPC that is sent does to what the client will learn.            *)

LEMMA NewsAppended ==
  ASSUME NEW q \in Seq(Message), NEW m \in Message, NEW v, NEW c, NEW s
  PROVE  LET r == Append(q, m) IN
         /\ Given(r, v, s, End(r)) <=> Given(q, v, s, End(q)) \/ m \in IdNews(s)
         /\ \A who : /\ m \in Seats(c, s, who) => Learns(c, r, v, s, who, End(r))
                     /\ m \notin SeatNews(s) /\ Learns(c, q, v, s, who, End(q)) =>
                          Learns(c, r, v, s, who, End(r))
         /\ \A name : /\ m \in Names(s, name) => LearnsName(r, v, s, name, End(r))
                      /\ m \notin NameNews(s) /\ LearnsName(q, v, s, name, End(q)) =>
                           LearnsName(r, v, s, name, End(r))
<1> DEFINE r == Append(q, m)
<1>1. \A A, G : /\ m \in G => Told(r, End(r), A, G)
                /\ m \notin A /\ Told(q, End(q), A, G) => Told(r, End(r), A, G)
                /\ Silent(r, End(r), A) <=> Silent(q, End(q), A) /\ m \notin A
  BY Appended
<1> HIDE DEF r
<1>2. Given(r, v, s, End(r)) <=> Given(q, v, s, End(q)) \/ m \in IdNews(s)
  BY <1>1 DEF Given
<1>3. ASSUME NEW who
      PROVE  /\ m \in Seats(c, s, who) => Learns(c, r, v, s, who, End(r))
             /\ m \notin SeatNews(s) /\ Learns(c, q, v, s, who, End(q)) =>
                  Learns(c, r, v, s, who, End(r))
  BY <1>1 DEF Learns
<1>4. ASSUME NEW name
      PROVE  /\ m \in Names(s, name) => LearnsName(r, v, s, name, End(r))
             /\ m \notin NameNews(s) /\ LearnsName(q, v, s, name, End(q)) =>
                  LearnsName(r, v, s, name, End(r))
  BY <1>1 DEF LearnsName
<1> QED BY <1>2, <1>3, <1>4 DEF r

LEMMA NewsBefore ==
  ASSUME NEW q \in Seq(Message), NEW m \in Message, NEW v, NEW c, NEW s,
         NEW n \in Nat, n <= End(q)
  PROVE  /\ Given(Append(q, m), v, s, n) <=> Given(q, v, s, n)
         /\ \A who : Learns(c, q, v, s, who, n) =>
                       Learns(c, Append(q, m), v, s, who, n)
<1>1. \A A, G : /\ Told(Append(q, m), n, A, G) <=> Told(q, n, A, G)
                /\ Silent(Append(q, m), n, A) <=> Silent(q, n, A)
  BY AppendedBefore
<1> QED BY <1>1 DEF Given, Learns

LEMMA SaneGrows ==
  ASSUME NEW q \in Seq(Message), NEW m \in Message, NEW v, NEW me, Sane(q, v, me),
         m.rpc \in {"DOWNLOAD_START", "GET_PLAYERS"} \/ m.id \in Slot,
         \A s \in Slot : Given(q, v, s, End(q)) => m \notin Unseats(s),
         m.rpc \in {"GET_PLAYERS", "NEW_PLAYER"} =>
           \E s \in Slot : Given(q, v, s, End(q))
  PROVE  Sane(Append(q, m), v, me)
<1> DEFINE r == Append(q, m)
<1>1. /\ \A i \in DOMAIN q : i <= Len(q) /\ r[i] = q[i] /\ i \in Nat
      /\ \A i \in DOMAIN r : i \in DOMAIN q \/ i = Len(q) + 1
      /\ r[Len(q) + 1] = m /\ Len(q) + 1 \in Nat /\ Len(q) \in Nat
  BY AppendFacts
<1>2. /\ \A i \in DOMAIN q : i <= End(q)
      /\ End(q) = Len(q) + 1 /\ End(q) \in Nat /\ End(q) <= End(q)
  BY <1>1 DEF End
<1>3. \A s : \A n \in Nat : n <= End(q) => (Given(r, v, s, n) <=> Given(q, v, s, n))
  BY NewsBefore
<1> HIDE DEF r
<1>4. \A i \in DOMAIN r : \/ i \in DOMAIN q /\ r[i] = q[i]
                             /\ \A s : Given(r, v, s, i) <=> Given(q, v, s, i)
                          \/ r[i] = m /\ \A s : Given(r, v, s, i) <=> Given(q, v, s, End(q))
  BY <1>1, <1>2, <1>3
<1>5. ASSUME NEW i \in DOMAIN r
      PROVE  /\ r[i].rpc \in {"DOWNLOAD_START", "GET_PLAYERS"} \/ r[i].id \in Slot
             /\ \A s \in Slot : Given(r, v, s, i) => r[i] \notin Unseats(s)
             /\ r[i].rpc \in {"GET_PLAYERS", "NEW_PLAYER"} =>
                  \E s \in Slot : Given(r, v, s, i)
  BY <1>4 DEF Sane
<1> QED BY <1>5 DEF Sane, r

LEMMA ChatGrows ==
  ASSUME NEW q \in Seq(Message), NEW m \in Message, NEW v, NEW c, ChatSeated(c, q, v),
         m.rpc = "PLAYER_CHAT" /\ (\E s \in Slot : Given(q, v, s, End(q))) =>
           Learns(c, q, v, m.id, m.player.conn, End(q))
  PROVE  ChatSeated(c, Append(q, m), v)
<1> DEFINE r == Append(q, m)
<1>1. /\ \A i \in DOMAIN q : i <= Len(q) /\ r[i] = q[i] /\ i \in Nat
      /\ \A i \in DOMAIN r : i \in DOMAIN q \/ i = Len(q) + 1
      /\ r[Len(q) + 1] = m /\ Len(q) \in Nat
  BY AppendFacts
<1>2. \A i \in DOMAIN r : i \in Nat /\ i <= End(q)
  BY <1>1 DEF End
<1>3. \A s : \A n \in Nat : n <= End(q) =>
        /\ Given(r, v, s, n) <=> Given(q, v, s, n)
        /\ \A who : Learns(c, q, v, s, who, n) => Learns(c, r, v, s, who, n)
  BY NewsBefore
<1> HIDE DEF r
<1>4. SUFFICES ASSUME NEW i \in DOMAIN r, r[i].rpc = "PLAYER_CHAT",
                      NEW s \in Slot, Given(r, v, s, i)
               PROVE  Learns(c, r, v, r[i].id, r[i].player.conn, i)
  BY DEF ChatSeated, r
<1>5. Given(q, v, s, i)
  BY <1>2, <1>3, <1>4
<1>6. Learns(c, q, v, r[i].id, r[i].player.conn, i)
  <2>1. CASE i \in DOMAIN q
    BY <1>1, <1>4, <1>5, <2>1 DEF ChatSeated
  <2>2. CASE i = Len(q) + 1
    BY <1>1, <1>4, <1>5, <2>2 DEF End
  <2> QED BY <1>1, <2>1, <2>2
<1> QED BY <1>2, <1>3, <1>6
-----------------------------------------------------------------------------
(* What an RPC that is handled does to it: table v of client c becomes w.  *)

Handled(c, m, v, w) ==
  \A s \in Slot :
    /\ w[s] = Local <=> v[s] = Local \/ m \in IdNews(s)
    /\ w[s] = NoPlayer <=> Shows(c, w, s) = NoClient
    /\ \A who : m \in Seats(c, s, who) => Shows(c, w, s) = who
    /\ m \notin SeatNews(s) => Shows(c, w, s) = Shows(c, v, s)
    /\ w[s] \notin {NoPlayer, Local} =>
         /\ \A name : m \in Names(s, name) => w[s].name = name
         /\ m \notin NameNews(s) => w[s].name = v[s].name

LEMMA GivenHandled ==
  ASSUME NEW q \in Seq(Message), q # <<>>, NEW v, NEW w, NEW c,
         Handled(c, Head(q), v, w), NEW s \in Slot, NEW n \in Nat \ {0}
  PROVE  /\ Given(Tail(q), w, s, n) <=> Given(q, v, s, n + 1)
         /\ Given(q, v, s, 1) <=> v[s] = Local
<1>1. Silent(q, n + 1, IdNews(s)) <=>
        Head(q) \notin IdNews(s) /\ Silent(Tail(q), n, IdNews(s))
  BY Taken
<1>2. Silent(q, 1, IdNews(s))
  BY DEF Silent
<1> QED BY <1>1, <1>2 DEF Given, Handled

LEMMA LearnsHandled ==
  ASSUME NEW q \in Seq(Message), q # <<>>, NEW v, NEW w, NEW c,
         Handled(c, Head(q), v, w), NEW s \in Slot, NEW who, NEW n \in Nat \ {0},
         Learns(c, q, v, s, who, n + 1)
  PROVE  Learns(c, Tail(q), w, s, who, n)
<1>1. /\ Told(q, n + 1, SeatNews(s), Seats(c, s, who)) =>
           \/ Told(Tail(q), n, SeatNews(s), Seats(c, s, who))
           \/ Head(q) \in Seats(c, s, who) /\ Silent(Tail(q), n, SeatNews(s))
      /\ Silent(q, n + 1, SeatNews(s)) <=>
           Head(q) \notin SeatNews(s) /\ Silent(Tail(q), n, SeatNews(s))
  BY Taken
<1> QED BY <1>1 DEF Learns, Handled

(* Who is shown in a slot bears the name that is learned for it.           *)
LEMMA NameHandled ==
  ASSUME NEW q \in Seq(Message), q # <<>>, NEW v, NEW w, NEW c,
         Handled(c, Head(q), v, w), NEW s \in Slot, NEW who, NEW name,
         who # NoClient, who # c, Learns(c, q, v, s, who, End(q)),
         LearnsName(q, v, s, name, End(q))
  PROVE  LearnsName(Tail(q), w, s, name, End(Tail(q)))
<1> DEFINE t == Tail(q)
           n == End(Tail(q))
<1>1. n \in Nat \ {0} /\ n + 1 = End(q)
  BY EndTaken
<1> HIDE DEF n
<1>2. Learns(c, t, w, s, who, n)
  BY <1>1, LearnsHandled
<1>3. /\ Told(q, n + 1, NameNews(s), Names(s, name)) =>
           \/ Told(t, n, NameNews(s), Names(s, name))
           \/ Head(q) \in Names(s, name) /\ Silent(t, n, NameNews(s))
      /\ Silent(q, n + 1, NameNews(s)) <=>
           Head(q) \notin NameNews(s) /\ Silent(t, n, NameNews(s))
  BY <1>1, Taken
<1> HIDE DEF t
<1>4. ASSUME Silent(t, n, NameNews(s))
      PROVE  w[s] \notin {NoPlayer, Local}
  <2>1. Seats(c, s, who) \subseteq NameNews(s)
    BY DEF Seats, SeatNews, NameNews
  <2>2. ~ Told(t, n, SeatNews(s), Seats(c, s, who))
    BY <1>4, <2>1 DEF Told, Silent
  <2>3. Shows(c, w, s) = who
    BY <1>2, <2>2 DEF Learns
  <2> QED BY <2>3 DEF Shows
<1>5. CASE Told(q, n + 1, NameNews(s), Names(s, name))
  BY <1>3, <1>4, <1>5 DEF LearnsName, Handled, t, n
<1>6. CASE Silent(q, n + 1, NameNews(s)) /\ v[s].name = name
  BY <1>3, <1>4, <1>6 DEF LearnsName, Handled, t, n
<1> QED BY <1>1, <1>5, <1>6 DEF LearnsName

LEMMA SaneHandled ==
  ASSUME NEW q \in Seq(Message), q # <<>>, NEW v, NEW w, NEW c, NEW me, NEW now,
         Handled(c, Head(q), v, w), Sane(q, v, me),
         now = IF Head(q).rpc = "INITIAL_DATA" THEN Head(q).id ELSE me
  PROVE  Sane(Tail(q), w, now)
<1> DEFINE t == Tail(q)
           m == Head(q)
<1>1. /\ m \in Message /\ 1 \in DOMAIN q /\ m = q[1]
      /\ \A i \in DOMAIN t : i \in Nat \ {0} /\ i + 1 \in DOMAIN q /\ t[i] = q[i + 1]
  BY TailFacts, EndTaken
<1>2. \A s \in Slot : \A n \in Nat \ {0} :
        /\ Given(t, w, s, n) <=> Given(q, v, s, n + 1)
        /\ Given(q, v, s, 1) <=> v[s] = Local
  BY GivenHandled
<1>3. \A s \in Slot : Given(q, v, s, 1) <=> v[s] = Local
  <2>1. 1 \in Nat \ {0}
    OBVIOUS
  <2> QED BY <1>2, <2>1
<1> HIDE DEF t, m
<1>4. ASSUME NEW i \in DOMAIN t
      PROVE  /\ t[i].rpc \in {"DOWNLOAD_START", "GET_PLAYERS"} \/ t[i].id \in Slot
             /\ \A s \in Slot : Given(t, w, s, i) => t[i] \notin Unseats(s)
             /\ t[i].rpc \in {"GET_PLAYERS", "NEW_PLAYER"} =>
                  \E s \in Slot : Given(t, w, s, i)
  BY <1>1, <1>2 DEF Sane
<1>5. \A s \in Slot : v[s] = Local => m \notin Unseats(s)
  BY <1>1, <1>3 DEF Sane
<1>6. m.rpc \in {"GET_PLAYERS", "NEW_PLAYER"} => \E s \in Slot : v[s] = Local
  BY <1>1, <1>3 DEF Sane
<1>7. ASSUME NEW k \in Slot, w[k] # NoPlayer
      PROVE  \E s \in Slot : w[s] = Local
  <2>1. CASE m \in SeatNews(k)
    <3>1. m.rpc = "INITIAL_DATA" => m \in IdNews(k)
      BY <1>1, <2>1 DEF SeatNews, IdNews
    <3>2. m.rpc = "DELETE_PLAYER" => m \in Seats(c, k, NoClient)
      BY <2>1 DEF Seats
    <3>3. m.rpc \in {"INITIAL_DATA", "DELETE_PLAYER", "GET_PLAYERS", "NEW_PLAYER"}
      BY <2>1 DEF SeatNews
    <3> QED BY <1>6, <1>7, <3>1, <3>2, <3>3 DEF Handled, m
  <2>2. CASE m \notin SeatNews(k)
    <3>1. v[k] # NoPlayer
      BY <1>7, <2>2 DEF Handled, Shows, m
    <3> QED BY <3>1 DEF Sane, Handled
  <2> QED BY <2>1, <2>2
<1>8. ASSUME NEW s \in Slot, w[s] = Local
      PROVE  s = now
  <2>1. CASE m \in IdNews(s)
    BY <2>1 DEF IdNews, m
  <2>2. CASE v[s] = Local
    <3>1. s = me /\ m.rpc # "INITIAL_DATA"
      BY <1>1, <1>5, <2>2 DEF Sane, Unseats
    <3> QED BY <3>1 DEF m
  <2> QED BY <1>8, <2>1, <2>2 DEF Handled, m
<1> QED BY <1>4, <1>7, <1>8 DEF Sane, t

LEMMA ChatHandled ==
  ASSUME NEW q \in Seq(Message), q # <<>>, NEW v, NEW w, NEW c, NEW me,
         Handled(c, Head(q), v, w), Sane(q, v, me), ChatSeated(c, q, v)
  PROVE  ChatSeated(c, Tail(q), w)
<1> DEFINE t == Tail(q)
<1>1. \A i \in DOMAIN t : i \in Nat \ {0} /\ i + 1 \in DOMAIN q /\ t[i] = q[i + 1]
  BY EndTaken
<1>2. SUFFICES ASSUME NEW i \in DOMAIN t, t[i].rpc = "PLAYER_CHAT",
                      NEW s \in Slot, Given(t, w, s, i)
               PROVE  Learns(c, t, w, t[i].id, t[i].player.conn, i)
  BY DEF ChatSeated
<1>3. Given(q, v, s, i + 1)
  BY <1>1, <1>2, GivenHandled
<1>4. Learns(c, q, v, t[i].id, t[i].player.conn, i + 1) /\ t[i].id \in Slot
  BY <1>1, <1>2, <1>3 DEF ChatSeated, Sane
<1> QED BY <1>1, <1>4, LearnsHandled
-----------------------------------------------------------------------------
(* The handlers of the client.                                             *)

View == [Slot -> Player \cup {NoPlayer, Local}]

LEMMA LocalIsLocal == Local \notin Player /\ Local # NoPlayer
BY SessionAssumption DEF SessionAssumption, Player

LEMMA ShowsNobody ==
  ASSUME NEW v \in View, NEW c \in Client, NEW s \in Slot
  PROVE  v[s] = NoPlayer <=> Shows(c, v, s) = NoClient
<1>1. v[s] \in Player \cup {NoPlayer, Local}
  BY DEF View
<1> QED BY <1>1, PlayerFields, NobodyIsNobody, LocalIsLocal DEF Shows

(* A message in a client's queue that says nothing of seats or names.      *)
LEMMA PlainHandled ==
  ASSUME NEW v \in View, NEW c \in Client, NEW m \in Message,
         m.rpc \in {"DOWNLOAD_START", "PLAYER_CHAT"}
  PROVE  Handled(c, m, v, v)
<1>1. \A s : m \notin IdNews(s) /\ m \notin SeatNews(s) /\ m \notin NameNews(s)
  BY DEF IdNews, SeatNews, NameNews
<1>2. \A s, x : m \notin Seats(c, s, x) /\ m \notin Names(s, x)
  BY <1>1 DEF Seats, Names
<1> QED BY <1>1, <1>2, ShowsNobody DEF Handled

LEMMA IdHandled ==
  ASSUME NEW v \in View, NEW c \in Client, NEW m \in Message, m.id \in Slot,
         m.rpc = "INITIAL_DATA", NEW w, w = Table!Put(v, m.id, Local)
  PROVE  Handled(c, m, v, w)
<1>1. w \in View /\ \A s \in Slot : w[s] = IF s = m.id THEN Local ELSE v[s]
  BY DEF View, Table!Put
<1>2. \A s \in Slot : /\ m \in IdNews(s) <=> s = m.id
                      /\ m \in SeatNews(s) <=> s = m.id
                      /\ m \notin NameNews(s)
                      /\ \A who : m \in Seats(c, s, who) => s = m.id /\ who = c
                      /\ \A name : m \notin Names(s, name)
  BY DEF IdNews, SeatNews, NameNews, Seats, Names
<1> SUFFICES ASSUME NEW s \in Slot
             PROVE  /\ w[s] = Local <=> v[s] = Local \/ m \in IdNews(s)
                    /\ w[s] = NoPlayer <=> Shows(c, w, s) = NoClient
                    /\ \A who : m \in Seats(c, s, who) => Shows(c, w, s) = who
                    /\ m \notin SeatNews(s) => Shows(c, w, s) = Shows(c, v, s)
                    /\ w[s] \notin {NoPlayer, Local} =>
                         /\ \A name : m \in Names(s, name) => w[s].name = name
                         /\ m \notin NameNews(s) => w[s].name = v[s].name
  BY DEF Handled
<1>3. w[s] = NoPlayer <=> Shows(c, w, s) = NoClient
  BY <1>1, ShowsNobody
<1> QED BY <1>1, <1>2, <1>3 DEF Shows

(* CPlayerManager::Add of remote players, none of them in the own slot.    *)
LEMMA RemotesHandled ==
  ASSUME NEW v \in View, NEW c \in Client, NEW m \in Message,
         NEW added \in SUBSET Slot, NEW who \in [added -> Player],
         \A s \in added : v[s] # Local,
         \/ m.rpc = "NEW_PLAYER" /\ added = {m.id} /\ who[m.id] = m.player
         \/ /\ m.rpc = "GET_PLAYERS" /\ \A s \in added : who[s] = m.roster[s]
            /\ added = {s \in Slot : m.roster[s] # NoPlayer},
         NEW w, w = [s \in Slot |-> IF s \in added THEN who[s] ELSE v[s]]
  PROVE  Handled(c, m, v, w)
<1>1. w \in View /\ \A s \in Slot : w[s] = IF s \in added THEN who[s] ELSE v[s]
  BY DEF View
<1>2. \A s \in Slot : /\ m \notin IdNews(s)
                      /\ m \in SeatNews(s) <=> s \in added
                      /\ m \in NameNews(s) <=> s \in added
                      /\ \A x : m \in Seats(c, s, x) => s \in added /\ x = who[s].conn
                      /\ \A x : m \in Names(s, x) => s \in added /\ x = who[s].name
  BY DEF IdNews, SeatNews, NameNews, Seats, Names
<1>3. \A s \in added : who[s] \in Player /\ who[s] # NoPlayer /\ who[s] # Local
  BY NobodyIsNobody, LocalIsLocal
<1> SUFFICES ASSUME NEW s \in Slot
             PROVE  /\ w[s] = Local <=> v[s] = Local \/ m \in IdNews(s)
                    /\ w[s] = NoPlayer <=> Shows(c, w, s) = NoClient
                    /\ \A x : m \in Seats(c, s, x) => Shows(c, w, s) = x
                    /\ m \notin SeatNews(s) => Shows(c, w, s) = Shows(c, v, s)
                    /\ w[s] \notin {NoPlayer, Local} =>
                         /\ \A name : m \in Names(s, name) => w[s].name = name
                         /\ m \notin NameNews(s) => w[s].name = v[s].name
  BY DEF Handled
<1>4. w[s] = NoPlayer <=> Shows(c, w, s) = NoClient
  BY <1>1, ShowsNobody
<1> QED BY <1>1, <1>2, <1>3, <1>4 DEF Shows

LEMMA DeleteHandled ==
  ASSUME NEW v \in View, NEW c \in Client, NEW m \in Message, m.id \in Slot,
         m.rpc = "DELETE_PLAYER", v[m.id] # Local, NEW w, w = Table!Delete(v, m.id)
  PROVE  Handled(c, m, v, w)
<1>1. w \in View /\ \A s \in Slot : w[s] = IF s = m.id THEN NoPlayer ELSE v[s]
  BY DEF View, Table!Delete
<1>2. \A s \in Slot : /\ m \notin IdNews(s)
                      /\ m \in SeatNews(s) <=> s = m.id
                      /\ m \notin NameNews(s)
                      /\ \A x : m \in Seats(c, s, x) => s = m.id /\ x = NoClient
                      /\ \A x : m \notin Names(s, x)
  BY DEF IdNews, SeatNews, NameNews, Seats, Names
<1> SUFFICES ASSUME NEW s \in Slot
             PROVE  /\ w[s] = Local <=> v[s] = Local \/ m \in IdNews(s)
                    /\ w[s] = NoPlayer <=> Shows(c, w, s) = NoClient
                    /\ \A who : m \in Seats(c, s, who) => Shows(c, w, s) = who
                    /\ m \notin SeatNews(s) => Shows(c, w, s) = Shows(c, v, s)
                    /\ w[s] \notin {NoPlayer, Local} =>
                         /\ \A name : m \in Names(s, name) => w[s].name = name
                         /\ m \notin NameNews(s) => w[s].name = v[s].name
  BY DEF Handled
<1>3. w[s] = NoPlayer <=> Shows(c, w, s) = NoClient
  BY <1>1, ShowsNobody
<1> QED BY <1>1, <1>2, <1>3, LocalIsLocal DEF Shows

(* OnNameChange: a remote player is renamed, or none is.                   *)
LEMMA NameChangeHandled ==
  ASSUME NEW v \in View, NEW c \in Client, NEW m \in Message, m.id \in Slot,
         m.rpc = "NAME_CHANGE", NEW w,
         \/ v[m.id] \in {NoPlayer, Local} /\ w = v
         \/ /\ v[m.id] \notin {NoPlayer, Local}
            /\ w = [v EXCEPT ![m.id] = [v[m.id] EXCEPT !.name = m.player.name]]
  PROVE  Handled(c, m, v, w)
<1>1. \A s \in Slot : /\ m \notin IdNews(s)
                      /\ m \notin SeatNews(s)
                      /\ m \in NameNews(s) <=> s = m.id
                      /\ \A x : m \notin Seats(c, s, x)
                      /\ \A x : m \in Names(s, x) => s = m.id /\ x = m.player.name
  BY DEF IdNews, SeatNews, NameNews, Seats, Names
<1>2. m.player.name \in Name
  BY MessageFields, PlayerFields
<1>3. v[m.id] \notin {NoPlayer, Local} =>
        LET p == [v[m.id] EXCEPT !.name = m.player.name] IN
          /\ p \in Player /\ p # NoPlayer /\ p # Local
          /\ p.name = m.player.name /\ p.conn = v[m.id].conn
  <2> SUFFICES ASSUME v[m.id] \in Player
               PROVE  LET p == [v[m.id] EXCEPT !.name = m.player.name] IN
                        /\ p \in Player
                        /\ p.name = m.player.name /\ p.conn = v[m.id].conn
    BY NobodyIsNobody, LocalIsLocal DEF View
  <2> QED BY <1>2 DEF Player
<1> SUFFICES ASSUME NEW s \in Slot
             PROVE  /\ w[s] = Local <=> v[s] = Local \/ m \in IdNews(s)
                    /\ w[s] = NoPlayer <=> Shows(c, w, s) = NoClient
                    /\ \A who : m \in Seats(c, s, who) => Shows(c, w, s) = who
                    /\ m \notin SeatNews(s) => Shows(c, w, s) = Shows(c, v, s)
                    /\ w[s] \notin {NoPlayer, Local} =>
                         /\ \A name : m \in Names(s, name) => w[s].name = name
                         /\ m \notin NameNews(s) => w[s].name = v[s].name
  BY DEF Handled
<1>4. CASE v[m.id] \in {NoPlayer, Local} /\ w = v
  BY <1>1, <1>4, ShowsNobody
<1>5. CASE v[m.id] \notin {NoPlayer, Local}
  <2> DEFINE p == [v[m.id] EXCEPT !.name = m.player.name]
  <2>1. /\ p \in Player /\ p # NoPlayer /\ p # Local
        /\ p.name = m.player.name /\ p.conn = v[m.id].conn
        /\ w = [v EXCEPT ![m.id] = p]
    BY <1>3, <1>5
  <2> HIDE DEF p
  <2>2. w \in View /\ \A t \in Slot : w[t] = IF t = m.id THEN p ELSE v[t]
    BY <2>1 DEF View
  <2>3. w[s] = NoPlayer <=> Shows(c, w, s) = NoClient
    BY <2>2, ShowsNobody
  <2> QED BY <1>1, <1>5, <2>1, <2>2, <2>3 DEF Shows
<1> QED BY <1>4, <1>5

(* The first RPC of a queue a client can handle.                           *)
LEMMA HeadSane ==
  ASSUME NEW q \in Seq(Message), q # <<>>, NEW v \in View, NEW me, Sane(q, v, me)
  PROVE  LET m == Head(q) IN
         /\ m \in Message
         /\ m.rpc \notin {"DOWNLOAD_START", "GET_PLAYERS"} => m.id \in Slot
         /\ \A s \in Slot : v[s] = Local => s = me /\ m \notin Unseats(s)
         /\ m.rpc \in {"GET_PLAYERS", "NEW_PLAYER"} => me \in Slot /\ v[me] = Local
<1> DEFINE m == Head(q)
<1>1. m \in Message /\ 1 \in DOMAIN q /\ m = q[1]
  BY TailFacts
<1>2. \A s : Given(q, v, s, 1) <=> v[s] = Local
  BY DEF Given, Silent
<1> HIDE DEF m
<1> QED BY <1>1, <1>2 DEF Sane, m

LEMMA GetPlayersHandled ==
  ASSUME TypeOK, NEW c \in Client, NEW m \in Message, m.rpc = "GET_PLAYERS",
         \A s \in Slot : view[c][s] = Local => s = self[c] /\ m \notin Unseats(s),
         self[c] \in Slot /\ view[c][self[c]] = Local, OnGetPlayers(c, m)
  PROVE  Handled(c, m, view[c], view'[c]) /\ UNCHANGED <<phase, nick, self, inbox>>
         /\ \A d \in Client \ {c} : view'[d] = view[d]
<1> DEFINE listed == Table!Occupied(m.roster)
           read == {s \in listed : self[c] \in listed => s < self[c]}
           remotes == [s \in read |-> m.roster[s]]
<1>1. /\ listed = {s \in Slot : m.roster[s] # NoPlayer}
      /\ m.roster \in [Slot -> Player \cup {NoPlayer}]
  BY MessageFields DEF Table!Occupied, Slot, Roster
<1>2. \A s \in Slot : view[c][s] = Local => m.roster[s] = NoPlayer
  BY DEF Unseats, SeatNews
<1>3. read = listed /\ \A s \in listed : view[c][s] # Local
  BY <1>1, <1>2
<1>4. remotes \in [listed -> Player] /\ \A s \in listed : remotes[s] = m.roster[s]
  BY <1>1, <1>3
<1>5. AddRemote(c, remotes) /\ UNCHANGED inbox
  BY DEF OnGetPlayers
<1>6. DOMAIN remotes = listed /\ listed \in SUBSET Slot
  BY <1>1, <1>3
<1> HIDE DEF listed, read, remotes
<1>7. /\ view' = [view EXCEPT ![c] =
                    [s \in Slot |-> IF s \in listed THEN remotes[s] ELSE view[c][s]]]
      /\ UNCHANGED <<phase, nick, self>>
  BY <1>3, <1>5, <1>6 DEF AddRemote
<1>8. /\ view'[c] = [s \in Slot |-> IF s \in listed THEN remotes[s] ELSE view[c][s]]
      /\ view[c] \in View /\ \A d \in Client \ {c} : view'[d] = view[d]
  BY <1>7 DEF TypeOK, View
<1> QED BY <1>1, <1>3, <1>4, <1>5, <1>6, <1>7, <1>8, RemotesHandled

LEMMA NewPlayerHandled ==
  ASSUME TypeOK, NEW c \in Client, NEW m \in Message, m.rpc = "NEW_PLAYER", m.id \in Slot,
         \A s \in Slot : view[c][s] = Local => s = self[c] /\ m \notin Unseats(s),
         self[c] \in Slot /\ view[c][self[c]] = Local, OnNewPlayer(c, m)
  PROVE  Handled(c, m, view[c], view'[c]) /\ UNCHANGED <<phase, nick, self, inbox>>
         /\ \A d \in Client \ {c} : view'[d] = view[d]
<1> DEFINE remotes == [s \in {m.id} |-> m.player]
<1>1. \A s \in Slot : view[c][s] = Local => s # m.id
  BY DEF Unseats, SeatNews
<1>2. /\ remotes \in [{m.id} -> Player] /\ remotes[m.id] = m.player
      /\ DOMAIN remotes = {m.id}
  BY MessageFields
<1>3. AddRemote(c, remotes) /\ UNCHANGED inbox
  BY <1>1 DEF OnNewPlayer
<1> HIDE DEF remotes
<1>4. /\ view' = [view EXCEPT ![c] =
                    [s \in Slot |-> IF s \in {m.id} THEN remotes[s] ELSE view[c][s]]]
      /\ UNCHANGED <<phase, nick, self>>
  BY <1>1, <1>2, <1>3 DEF AddRemote
<1>5. /\ view'[c] = [s \in Slot |-> IF s \in {m.id} THEN remotes[s] ELSE view[c][s]]
      /\ view[c] \in View /\ \A d \in Client \ {c} : view'[d] = view[d]
  BY <1>4 DEF TypeOK, View
<1> QED BY <1>1, <1>2, <1>3, <1>4, <1>5, RemotesHandled

(* No RPC makes a client with a sane queue crash, and each does to its     *)
(* table what it says.                                                     *)
LEMMA DeliverHandles ==
  ASSUME TypeOK, NEW c \in Client, Deliver(c), Sane(chan[c], view[c], self[c])
  PROVE  LET m == Head(chan[c]) IN
         /\ chan[c] \in Seq(Message) /\ chan[c] # <<>>
         /\ \A d \in Client : chan'[d] = IF d = c THEN Tail(chan[c]) ELSE chan[d]
         /\ Handled(c, m, view[c], view'[c])
         /\ self'[c] = IF m.rpc = "INITIAL_DATA" THEN m.id ELSE self[c]
         /\ \A d \in Client \ {c} : view'[d] = view[d] /\ self'[d] = self[d]
         /\ UNCHANGED <<peer, players, phase>>
         /\ \/ nick' = nick
            \/ /\ m.rpc = "NAME_CHANGE" /\ view[c][m.id] = Local
               /\ \A d \in Client \ {c} : nick'[d] = nick[d]
         /\ m.rpc # "DOWNLOAD_START" => inbox' = inbox
<1> DEFINE m == Head(chan[c])
<1>1. /\ chan[c] \in Seq(Message) /\ chan[c] # <<>>
      /\ \A d \in Client : chan'[d] = IF d = c THEN Tail(chan[c]) ELSE chan[d]
      /\ UNCHANGED <<peer, players>> /\ view[c] \in View
  BY DEF Deliver, Pop, TypeOK, View
<1>2. /\ m \in Message
      /\ m.rpc \notin {"DOWNLOAD_START", "GET_PLAYERS"} => m.id \in Slot
      /\ \A s \in Slot : view[c][s] = Local => s = self[c] /\ m \notin Unseats(s)
      /\ m.rpc \in {"GET_PLAYERS", "NEW_PLAYER"} =>
           self[c] \in Slot /\ view[c][self[c]] = Local
  BY <1>1, HeadSane
<1> SUFFICES /\ Handled(c, m, view[c], view'[c])
             /\ self'[c] = IF m.rpc = "INITIAL_DATA" THEN m.id ELSE self[c]
             /\ \A d \in Client \ {c} : view'[d] = view[d] /\ self'[d] = self[d]
             /\ UNCHANGED phase
             /\ \/ nick' = nick
                \/ /\ m.rpc = "NAME_CHANGE" /\ view[c][m.id] = Local
                   /\ \A d \in Client \ {c} : nick'[d] = nick[d]
             /\ m.rpc # "DOWNLOAD_START" => inbox' = inbox
  BY <1>1
<1>3. \/ m.rpc = "DOWNLOAD_START" /\ OnDownloadStart(c)
      \/ m.rpc = "INITIAL_DATA" /\ OnInitialData(c, m)
      \/ m.rpc = "GET_PLAYERS" /\ OnGetPlayers(c, m)
      \/ m.rpc = "NEW_PLAYER" /\ OnNewPlayer(c, m)
      \/ m.rpc = "DELETE_PLAYER" /\ OnDeletePlayer(c, m)
      \/ m.rpc = "NAME_CHANGE" /\ OnNameChange(c, m)
      \/ m.rpc = "PLAYER_CHAT" /\ OnChat(c)
  BY DEF Deliver
<1> HIDE DEF m
<1>4. CASE m.rpc = "DOWNLOAD_START" /\ OnDownloadStart(c)
  BY <1>1, <1>2, <1>4, PlainHandled DEF OnDownloadStart
<1>5. CASE m.rpc = "INITIAL_DATA" /\ OnInitialData(c, m)
  <2>1. /\ view'[c] = Table!Put(view[c], m.id, Local) /\ self'[c] = m.id
        /\ \A d \in Client \ {c} : view'[d] = view[d] /\ self'[d] = self[d]
        /\ UNCHANGED <<inbox, phase, nick>>
    BY <1>5 DEF OnInitialData, TypeOK
  <2> QED BY <1>1, <1>2, <1>5, <2>1, IdHandled
<1>6. CASE m.rpc = "GET_PLAYERS" /\ OnGetPlayers(c, m)
  BY <1>2, <1>6, GetPlayersHandled
<1>7. CASE m.rpc = "NEW_PLAYER" /\ OnNewPlayer(c, m)
  BY <1>2, <1>7, NewPlayerHandled
<1>8. CASE m.rpc = "DELETE_PLAYER" /\ OnDeletePlayer(c, m)
  <2>1. m.id \in Slot /\ view[c][m.id] # Local
    BY <1>2, <1>8 DEF Unseats, SeatNews
  <2>2. /\ view'[c] = Table!Delete(view[c], m.id)
        /\ \A d \in Client \ {c} : view'[d] = view[d]
        /\ UNCHANGED <<inbox, phase, nick, self>>
    BY <1>8, <2>1 DEF OnDeletePlayer, TypeOK
  <2> QED BY <1>1, <1>2, <1>8, <2>1, <2>2, DeleteHandled
<1>9. CASE m.rpc = "NAME_CHANGE" /\ OnNameChange(c, m)
  <2>1. m.id \in Slot /\ UNCHANGED <<inbox, phase, self>>
    BY <1>2, <1>9 DEF OnNameChange
  <2>2. CASE view[c][m.id] = NoPlayer /\ UNCHANGED <<nick, view>>
    BY <1>1, <1>2, <1>9, <2>1, <2>2, NameChangeHandled
  <2>3. CASE /\ view[c][m.id] = Local /\ UNCHANGED view
             /\ nick' = [nick EXCEPT ![c] = m.player.name]
    <3>1. \A d \in Client \ {c} : nick'[d] = nick[d]
      BY <2>3 DEF TypeOK
    <3> QED BY <1>1, <1>2, <1>9, <2>1, <2>3, <3>1, NameChangeHandled
  <2>4. CASE /\ view[c][m.id] \notin {NoPlayer, Local} /\ UNCHANGED nick
             /\ view' = [view EXCEPT ![c][m.id].name = m.player.name]
    <3>1. /\ view'[c] = [view[c] EXCEPT ![m.id] =
                           [view[c][m.id] EXCEPT !.name = m.player.name]]
          /\ \A d \in Client \ {c} : view'[d] = view[d]
      BY <2>4 DEF TypeOK
    <3> QED BY <1>1, <1>2, <1>9, <2>1, <2>4, <3>1, NameChangeHandled
  <2> QED BY <1>9, <2>2, <2>3, <2>4 DEF OnNameChange
<1>10. CASE m.rpc = "PLAYER_CHAT" /\ OnChat(c)
  BY <1>1, <1>2, <1>10, PlainHandled DEF OnChat
<1> QED BY <1>3, <1>4, <1>5, <1>6, <1>7, <1>8, <1>9, <1>10
-----------------------------------------------------------------------------
(* A client that nothing happens to, hears an RPC, handles one, or begins  *)
(* or ends.                                                                *)

LEMMA StaysInStep ==
  ASSUME TypeOK, QuietInv, NEW c \in Client, ViewOk(c), phase'[c] = phase[c],
         chan'[c] = chan[c], view'[c] = view[c], self'[c] = self[c],
         ASSUME Linked(c)', NEW k \in Index
         PROVE  /\ peer'[k] = c <=> peer[k] = c
                /\ SeatOf(k)' = SeatOf(k)
                /\ peer[k] # c => players'[k] = players[k]
  PROVE  ViewOk(c)'
<1>1. Alive(c)'
  BY DEF ViewOk, Alive, Linked
<1>2. Sane(chan[c], view[c], self[c])' /\ ChatSeated(c, chan[c], view[c])'
  BY DEF ViewOk
<1>3. ASSUME Linked(c)'
      PROVE  InStep(c)'
  <2>1. /\ \A k \in Index : /\ peer'[k] = c <=> peer[k] = c
                            /\ SeatOf(k)' = SeatOf(k)
                            /\ peer[k] # c => players'[k] = players[k]
        /\ Index = Slot
    BY <1>3 DEF Index
  <2>2. /\ \A k \in Index : Member(k, c)' <=> Member(k, c)
        /\ \A s \in Slot : Owed(c, s)' = Owed(c, s)
    BY <2>1 DEF Member, Owed
  <2>3. InStep(c)
    BY <1>3, <2>1 DEF ViewOk, Linked
  <2>4. OwnSlotGiven(c)' /\ SeatsLearned(c)'
    BY <2>1, <2>2, <2>3 DEF InStep, OwnSlotGiven, SeatsLearned
  <2>5. NamesLearned(c)'
    <3> SUFFICES ASSUME NEW k \in Slot, NEW s \in Slot, Member(k, c)', s # k,
                        players'[s] # NoPlayer
                 PROVE  LearnsName(chan[c], view[c], s, players'[s].name, End(chan[c]))
      BY DEF NamesLearned
    <3>1. Member(k, c)
      BY <2>1, <2>2
    <3>2. peer[s] # c
      BY <2>1, <3>1, NobodyIsNobody DEF QuietInv, PeersDistinct, Member
    <3> QED BY <2>1, <2>3, <3>1, <3>2 DEF InStep, NamesLearned
  <2>6. OwnNameUnsent(c)'
    BY <2>1, <2>3 DEF InStep, OwnNameUnsent
  <2> QED BY <2>4, <2>5, <2>6 DEF InStep
<1> QED BY <1>1, <1>2, <1>3 DEF ViewOk

(* RPCs that give no id and list nobody.                                   *)
LEMMA Hears ==
  ASSUME TypeOK, NEW c \in Client, ViewOk(c), Linked(c), peer' = peer,
         phase'[c] = phase[c], view'[c] = view[c], self'[c] = self[c],
         NEW m \in Message, chan'[c] = Append(chan[c], m),
         m.rpc \notin {"INITIAL_DATA", "GET_PLAYERS"},
         m.rpc = "DOWNLOAD_START" \/ m.id \in Slot,
         \A k \in Slot : (Member(k, c)' <=> Member(k, c)),
         \A k \in Slot : Member(k, c) => m \notin SeatNews(k),
         m.rpc = "NEW_PLAYER" => \E k \in Slot : Member(k, c),
         m.rpc = "PLAYER_CHAT" => SeatOf(m.id) = m.player.conn,
         m.rpc = "NAME_CHANGE" => peer[m.id] # c,
         \A s \in Slot : \/ m \in Seats(c, s, Owed(c, s)')
                         \/ m \notin SeatNews(s) /\ Owed(c, s)' = Owed(c, s),
         \A k, s \in Slot : Member(k, c) /\ s # k /\ players'[s] # NoPlayer =>
           \/ m \in Names(s, players'[s].name)
           \/ /\ m \notin NameNews(s) /\ players[s] # NoPlayer
              /\ players'[s].name = players[s].name
  PROVE  ViewOk(c)'
<1> DEFINE q == chan[c]
           v == view[c]
           r == Append(q, m)
<1>1. /\ chan'[c] = r /\ view'[c] = v /\ self'[c] = self[c] /\ Linked(c)'
      /\ q \in Seq(Message)
  BY DEF Linked, TypeOK
<1>2. /\ Alive(c) /\ Sane(q, v, self[c]) /\ ChatSeated(c, q, v) /\ InStep(c)
      /\ phase[c] = "up"
  BY DEF ViewOk, Alive
<1>3. \A s \in Slot : Given(q, v, s, End(q)) <=> Member(s, c)
  BY <1>2 DEF InStep, OwnSlotGiven
<1>4. \A s \in Slot : Learns(c, q, v, s, Owed(c, s), End(q))
  BY <1>2 DEF InStep, SeatsLearned
<1>5. \A s : m \notin IdNews(s)
  BY DEF IdNews
<1>6. \A s : /\ Given(r, v, s, End(r)) <=> Given(q, v, s, End(q)) \/ m \in IdNews(s)
             /\ \A who : /\ m \in Seats(c, s, who) => Learns(c, r, v, s, who, End(r))
                         /\ m \notin SeatNews(s) /\ Learns(c, q, v, s, who, End(q)) =>
                              Learns(c, r, v, s, who, End(r))
             /\ \A name : /\ m \in Names(s, name) => LearnsName(r, v, s, name, End(r))
                          /\ m \notin NameNews(s) /\ LearnsName(q, v, s, name, End(q)) =>
                               LearnsName(r, v, s, name, End(r))
  BY <1>1, NewsAppended
<1>7. Sane(r, v, self[c])
  <2>1. \A s \in Slot : Given(q, v, s, End(q)) => m \notin Unseats(s)
    BY <1>3 DEF Unseats
  <2>2. m.rpc \in {"GET_PLAYERS", "NEW_PLAYER"} => \E s \in Slot : Given(q, v, s, End(q))
    BY <1>3
  <2> HIDE DEF q, v
  <2> QED BY <1>1, <1>2, <2>1, <2>2, SaneGrows
<1>8. ChatSeated(c, r, v)
  <2>1. m.rpc = "PLAYER_CHAT" /\ (\E s \in Slot : Given(q, v, s, End(q))) =>
          Learns(c, q, v, m.id, m.player.conn, End(q))
    <3> SUFFICES ASSUME m.rpc = "PLAYER_CHAT", NEW s \in Slot, Given(q, v, s, End(q))
                 PROVE  Owed(c, m.id) = m.player.conn /\ m.id \in Slot
      BY <1>4
    <3>1. Member(s, c)
      BY <1>3
    <3> QED BY <3>1 DEF Owed, Index
  <2> HIDE DEF q, v
  <2> QED BY <1>1, <1>2, <2>1, ChatGrows
<1> HIDE DEF r, q, v
<1>9. OwnSlotGiven(c)'
  BY <1>1, <1>3, <1>5, <1>6 DEF OwnSlotGiven
<1>10. SeatsLearned(c)'
  BY <1>1, <1>4, <1>6 DEF SeatsLearned
<1>11. NamesLearned(c)'
  <2> SUFFICES ASSUME NEW k \in Slot, NEW s \in Slot, Member(k, c)', s # k,
                      players'[s] # NoPlayer
               PROVE  LearnsName(r, v, s, players'[s].name, End(r))
    BY <1>1 DEF NamesLearned
  <2>1. Member(k, c)
    OBVIOUS
  <2>2. players[s] # NoPlayer => LearnsName(q, v, s, players[s].name, End(q))
    BY <1>2, <2>1 DEF InStep, NamesLearned, q, v
  <2> QED BY <1>6, <2>1, <2>2
<1>12. OwnNameUnsent(c)'
  <2>1. \A i \in DOMAIN r : (i \in DOMAIN q /\ r[i] = q[i]) \/ r[i] = m
    BY <1>1, AppendFacts DEF r
  <2> QED BY <1>1, <1>2, <2>1 DEF InStep, OwnNameUnsent, q
<1>13. Alive(c)'
  BY <1>2 DEF Alive
<1> QED BY <1>1, <1>7, <1>8, <1>9, <1>10, <1>11, <1>12, <1>13 DEF ViewOk, InStep

LEMMA StartsAnew == \A v, me, c : Sane(<<>>, Table!EmptyTable, me) /\ ChatSeated(c, <<>>, v)
<1>1. \A t \in Slot : Table!EmptyTable[t] = NoPlayer
  BY DEF Table!EmptyTable, Slot
<1> QED BY <1>1, LocalIsLocal DEF Sane, ChatSeated

LEMMA Ends ==
  ASSUME NEW c \in Client, phase'[c] = "gone", chan'[c] = <<>>,
         view'[c] = Table!EmptyTable, ~ Linked(c)'
  PROVE  ViewOk(c)'
BY StartsAnew DEF ViewOk, Alive

LEMMA Begins ==
  ASSUME NEW c \in Client, phase'[c] = "up", chan'[c] = <<>>,
         view'[c] = Table!EmptyTable, \A k \in Slot : ~ Member(k, c)'
  PROVE  ViewOk(c)'
<1>1. \A t \in Slot : view'[c][t] = NoPlayer
  BY DEF Table!EmptyTable, Slot
<1>2. \A n, A : Silent(<<>>, n, A)
  BY DEF Silent
<1>3. \A s \in Slot : Owed(c, s)' = NoClient
  BY DEF Owed, Index
<1>4. InStep(c)'
  BY <1>1, <1>2, <1>3, LocalIsLocal
     DEF InStep, OwnSlotGiven, SeatsLearned, NamesLearned, OwnNameUnsent,
         Given, Learns, Shows
<1> QED BY <1>4, StartsAnew DEF ViewOk, Alive

(* Nobody in the session has another seat besides.                         *)
LEMMA SeatsApart ==
  ASSUME TypeOK, QuietInv, NEW c \in Client, NEW k \in Slot, Member(k, c),
         NEW s \in Slot, s # k
  PROVE  SeatOf(s) # c /\ peer[s] # c
<1>1. Index = Slot /\ c # NoClient /\ peer[k] = c
  BY NobodyIsNobody DEF Index, Member
<1>2. peer[s] # c
  BY <1>1 DEF QuietInv, PeersDistinct
<1>3. ~ Leaving(s, c)
  BY <1>1 DEF QuietInv, LeaversGone
<1> QED BY <1>1, <1>2, <1>3 DEF QuietInv, PlayersLinked, SeatOf

LEMMA Delivers ==
  ASSUME TypeOK, QuietInv, NEW c \in Client, Deliver(c), ViewOk(c)
  PROVE  ViewOk(c)'
<1> DEFINE q == chan[c]
           v == view[c]
           w == view'[c]
<1>1. /\ Alive(c) /\ Sane(q, v, self[c]) /\ ChatSeated(c, q, v)
      /\ Linked(c) => InStep(c)
  BY DEF ViewOk
<1>2. /\ q \in Seq(Message) /\ q # <<>> /\ chan'[c] = Tail(q)
      /\ Handled(c, Head(q), v, w)
      /\ self'[c] = IF Head(q).rpc = "INITIAL_DATA" THEN Head(q).id ELSE self[c]
      /\ UNCHANGED <<peer, players, phase>>
  BY <1>1, DeliverHandles
<1>3. phase[c] = "up"
  BY DEF Deliver
<1> HIDE DEF q, v, w
<1>4. Sane(Tail(q), w, self'[c]) /\ ChatSeated(c, Tail(q), w)
  BY <1>1, <1>2, SaneHandled, ChatHandled
<1>5. End(Tail(q)) + 1 = End(q) /\ End(Tail(q)) \in Nat \ {0}
  BY <1>2, EndTaken
<1>6. ASSUME Linked(c)
      PROVE  InStep(c)'
  <2>1. /\ \A k : Member(k, c)' <=> Member(k, c)
        /\ \A s : Owed(c, s)' = Owed(c, s)
    BY <1>2 DEF Member, Owed, SeatOf
  <2>2. InStep(c)
    BY <1>1, <1>6
  <2>3. OwnSlotGiven(c)'
    <3>1. ASSUME NEW s \in Slot
          PROVE  Given(Tail(q), w, s, End(Tail(q))) <=> Given(q, v, s, End(q))
      <4>1. Given(Tail(q), w, s, End(Tail(q))) <=> Given(q, v, s, End(Tail(q)) + 1)
        BY <1>2, <1>5, GivenHandled
      <4> QED BY <1>5, <4>1
    <3> QED BY <1>2, <2>1, <2>2, <3>1 DEF InStep, OwnSlotGiven, q, v, w
  <2>4. SeatsLearned(c)'
    <3>1. ASSUME NEW s \in Slot
          PROVE  Learns(c, Tail(q), w, s, Owed(c, s), End(Tail(q)))
      <4>1. Learns(c, q, v, s, Owed(c, s), End(Tail(q)) + 1)
        BY <1>5, <2>2 DEF InStep, SeatsLearned, q, v
      <4> QED BY <1>2, <1>5, <4>1, LearnsHandled
    <3> QED BY <1>2, <2>1, <3>1 DEF SeatsLearned, w
  <2>5. NamesLearned(c)'
    <3> SUFFICES ASSUME NEW k \in Slot, NEW s \in Slot, Member(k, c), s # k,
                        players[s] # NoPlayer
                 PROVE  LearnsName(Tail(q), w, s, players[s].name, End(Tail(q)))
      BY <1>2, <2>1 DEF NamesLearned, w
    <3> DEFINE who == SeatOf(s)
    <3>1. /\ Owed(c, s) = who
          /\ who # NoClient
      BY PlayersTyped, NobodyIsNobody DEF Owed, SeatOf, Index
    <3>2. who # c
      BY SeatsApart
    <3>3. Learns(c, q, v, s, who, End(q))
      BY <2>2, <3>1 DEF InStep, SeatsLearned, q, v
    <3>4. LearnsName(q, v, s, players[s].name, End(q))
      BY <2>2 DEF InStep, NamesLearned, q, v
    <3> HIDE DEF who
    <3> QED BY <1>2, <3>1, <3>2, <3>3, <3>4, NameHandled
  <2>6. OwnNameUnsent(c)'
    <3>1. \A i \in DOMAIN Tail(q) : i + 1 \in DOMAIN q /\ Tail(q)[i] = q[i + 1]
      BY <1>2, EndTaken
    <3> QED BY <1>2, <2>2, <3>1 DEF InStep, OwnNameUnsent, q
  <2> QED BY <2>3, <2>4, <2>5, <2>6 DEF InStep
<1>7. Alive(c)'
  BY <1>1, <1>2, <1>3 DEF Alive, Linked
<1> QED BY <1>2, <1>4, <1>6, <1>7 DEF ViewOk, Linked, w
-----------------------------------------------------------------------------
(* The steps, by what the clients see of them.                             *)

LEMMA OneAppended ==
  ASSUME NEW S, NEW q \in Seq(S), NEW e \in S
  PROVE  q \o <<e>> = Append(q, e)
<1>1. /\ q \o <<e>> \in Seq(S) /\ Append(q, e) \in Seq(S)
      /\ Len(q \o <<e>>) = Len(Append(q, e))
  OBVIOUS
<1>2. \A i \in 1 .. Len(q) + 1 : (q \o <<e>>)[i] = Append(q, e)[i]
  OBVIOUS
<1> QED BY <1>1, <1>2

(* Connections and seats stay, and nothing is sent.                        *)
LEMMA NothingSent ==
  ASSUME TypeOK, QuietInv, Views, UNCHANGED <<peer, players, chan, phase, self, view>>
  PROVE  Views'
<1> SUFFICES ASSUME NEW c \in Client PROVE ViewOk(c)'
  BY DEF Views
<1>1. \A k \in Index : SeatOf(k)' = SeatOf(k)
  BY DEF SeatOf
<1> QED BY <1>1, StaysInStep DEF Views

(* A connection closes, and nothing is sent.                               *)
LEMMA LinkLost ==
  ASSUME TypeOK, QuietInv, Views, NEW k \in Index, NEW c \in Client, peer[k] = c,
         peer' = [peer EXCEPT ![k] = NoClient], players' = players,
         NEW d \in Client, chan'[d] = chan[d], phase'[d] = phase[d],
         view'[d] = view[d], self'[d] = self[d]
  PROVE  ViewOk(d)'
<1>1. /\ \A j \in Index : peer'[j] = IF j = k THEN NoClient ELSE peer[j]
      /\ d # NoClient
  BY NobodyIsNobody DEF TypeOK
<1>2. Linked(d)' => \A j \in Index : peer'[j] = d <=> peer[j] = d
  BY <1>1 DEF QuietInv, PeersDistinct, Linked
<1>3. \A j \in Index : SeatOf(j)' = SeatOf(j)
  BY DEF SeatOf
<1> QED BY <1>2, <1>3, StaysInStep DEF Views

LEMMA RefuseViews ==
  ASSUME TypeOK, QuietInv, Views, inbox # <<>>, Head(inbox).rpc \in JoinRpc,
         CloseConnection(Head(inbox).index, Tail(inbox)),
         UNCHANGED <<players, chan, phase, view, self>>
  PROVE  Views'
<1> DEFINE k == Head(inbox).index
           c == Head(inbox).conn
<1>1. k \in Index /\ c \in Client /\ peer[k] = c
  BY HeadJoins
<1> HIDE DEF c
<1>2. peer' = [peer EXCEPT ![k] = NoClient]
  BY <1>1, NobodyIsNobody DEF CloseConnection
<1> HIDE DEF k
<1> QED BY <1>1, <1>2, LinkLost DEF Views

(* The client behind index k joins: the server knows its name, but not     *)
(* yet as a player's.                                                      *)
LEMMA InitialDataViews ==
  ASSUME TypeOK, QuietInv, Views, InitialData
  PROVE  Views'
<1> DEFINE k == Head(inbox).index
           c == Head(inbox).conn
           m == [rpc |-> "DOWNLOAD_START"]
<1>1. /\ inbox # <<>> /\ Head(inbox).rpc \in JoinRpc
      /\ UNCHANGED <<players, phase, view, self>>
  BY DEF InitialData, Receive, JoinRpc
<1>2. CASE CloseConnection(k, Tail(inbox)) /\ UNCHANGED chan
  BY <1>1, <1>2, RefuseViews
<1>3. CASE SendTo(k, <<m>>) /\ UNCHANGED peer
  <2>1. k \in Index /\ c \in Client /\ peer[k] = c
    BY <1>1, HeadJoins
  <2>2. /\ m \in Message /\ m.rpc = "DOWNLOAD_START"
        /\ \A s, x : m \notin SeatNews(s) /\ m \notin NameNews(s) /\ m \notin Seats(c, s, x)
    BY DEF Message, SeatNews, NameNews, Seats
  <2> HIDE DEF k, c, m
  <2>3. \A d \in Client :
          chan'[d] = IF d = c THEN chan[d] \o <<m>> ELSE chan[d]
    BY <1>3, <2>1 DEF SendTo
  <2>4. chan[c] \o <<m>> = Append(chan[c], m)
    BY <2>1, <2>2, OneAppended DEF TypeOK
  <2>5. /\ \A j, d : Member(j, d)' <=> Member(j, d)
        /\ \A d, s : Owed(d, s)' = Owed(d, s)
        /\ \A s : SeatOf(s)' = SeatOf(s)
    BY <1>1, <1>3 DEF Member, Owed, SeatOf
  <2>6. ASSUME NEW d \in Client, d = c
        PROVE  ViewOk(d)'
    <3>1. ViewOk(d) /\ Linked(d) /\ chan'[d] = Append(chan[d], m)
      BY <2>1, <2>3, <2>4, <2>6 DEF Views, Linked
    <3>2. \A s, x : m \notin Seats(d, s, x)
      BY <2>2, <2>6
    <3> QED BY <1>1, <1>3, <2>2, <2>5, <3>1, <3>2, Hears
  <2>7. ASSUME NEW d \in Client, d # c
        PROVE  ViewOk(d)'
    <3>1. ViewOk(d) /\ chan'[d] = chan[d]
      BY <2>3, <2>7 DEF Views
    <3> QED BY <1>1, <1>3, <2>5, <3>1, StaysInStep
  <2> QED BY <2>6, <2>7 DEF Views
<1> QED BY <1>2, <1>3 DEF InitialData

(* Who hears a broadcast, and who does not.                                *)
LEMMA Heard ==
  ASSUME TypeOK, NEW except, NEW m \in Message, Broadcast(except, m), NEW c \in Client
  PROVE  \/ /\ Linked(c) /\ chan'[c] = Append(chan[c], m)
            /\ \E k \in Index : k # except /\ peer[k] = c
         \/ /\ chan'[c] = chan[c]
            /\ \A k \in Index : peer[k] = c => k = except
BY DEF Broadcast, Linked

LEMMA HeadAuthor ==
  ASSUME TypeOK, QuietInv, AuthorsFollowed(inbox), PresentLast(inbox), inbox # <<>>,
         Head(inbox).rpc # "LEFT", SeatOf(Head(inbox).index) # NoClient
  PROVE  SeatOf(Head(inbox).index) = Head(inbox).conn
<1> DEFINE k == Head(inbox).index
           c == Head(inbox).conn
           d == SeatOf(k)
<1>1. k \in Index /\ c \in Client /\ inbox[1] = Head(inbox) /\ 1 \in DOMAIN inbox
  BY ReceivedTyped, TailFacts DEF TypeOK
<1>2. players[k] # NoPlayer /\ d = players[k].conn /\ d \in Client
  BY <1>1, PlayersTyped DEF SeatOf, Index
<1> HIDE DEF d
<1>3. CASE peer[k] = c
  <2>1. ASSUME Leaving(k, d) PROVE FALSE
    <3>1. PICK j \in DOMAIN inbox :
            inbox[j].rpc = "LEFT" /\ inbox[j].index = k /\ inbox[j].conn = d
      BY <2>1 DEF Leaving, LeftIn
    <3>2. j < 1
      BY <1>1, <1>3, <3>1 DEF PresentLast
    <3>3. j \in Nat \ {0}
      BY DEF TypeOK
    <3> QED BY <3>2, <3>3
  <2> QED BY <1>1, <1>2, <1>3, <2>1 DEF QuietInv, PlayersLinked, Index, d
<1>4. CASE peer[k] # c
  <2>1. Leaving(k, c)
    BY <1>1, <1>4 DEF AuthorsFollowed, Leaving, LeftIn
  <2> QED BY <1>1, <1>2, <2>1 DEF QuietInv, LeaversSeated, d
<1> QED BY <1>3, <1>4 DEF d

LEMMA PlayerChatViews ==
  ASSUME TypeOK, QuietInv, Views, AuthorsFollowed(inbox), PresentLast(inbox), PlayerChat
  PROVE  Views'
<1> DEFINE p == Head(inbox)
           m == [rpc |-> "PLAYER_CHAT", id |-> p.index,
                 player |-> [name |-> p.name, conn |-> p.conn]]
<1>1. /\ inbox # <<>> /\ p.rpc = "PLAYER_CHAT"
      /\ UNCHANGED <<peer, players, phase, view, self>>
  BY DEF PlayerChat, Receive
<1>2. /\ m \in Message /\ m.rpc = "PLAYER_CHAT" /\ m.id = p.index /\ m.id \in Slot
      /\ m.player.conn = p.conn
  BY <1>1, ReceivedTyped, SlotsAreNat DEF Message, Player, Index
<1>3. CASE UNCHANGED chan
  BY <1>1, <1>3, NothingSent
<1>4. CASE Table!Exists(players, p.index) /\ Broadcast(InvalidId, m)
  <2>1. SeatOf(p.index) # NoClient
    BY <1>4, PlayersTyped, NobodyIsNobody DEF Table!Exists, SeatOf, Slot
  <2>2. SeatOf(m.id) = m.player.conn
    BY <1>1, <1>2, <2>1, HeadAuthor
  <2> HIDE DEF m, p
  <2>3. /\ \A j, d : Member(j, d)' <=> Member(j, d)
        /\ \A d, s : Owed(d, s)' = Owed(d, s)
        /\ \A s : SeatOf(s)' = SeatOf(s)
    BY <1>1 DEF Member, Owed, SeatOf
  <2>4. \A s, d, x : m \notin SeatNews(s) /\ m \notin NameNews(s) /\ m \notin Seats(d, s, x)
    BY <1>2 DEF SeatNews, NameNews, Seats
  <2>5. ASSUME NEW c \in Client
        PROVE  ViewOk(c)'
    <3>1. CASE Linked(c) /\ chan'[c] = Append(chan[c], m)
      <4>1. ViewOk(c)
        BY DEF Views
      <4> QED BY <1>1, <1>2, <2>2, <2>3, <2>4, <3>1, <4>1, Hears
    <3>2. CASE chan'[c] = chan[c]
      BY <1>1, <2>3, <3>2, StaysInStep DEF Views
    <3> QED BY <1>2, <1>4, <3>1, <3>2, Heard
  <2> QED BY <2>5 DEF Views
<1> QED BY <1>3, <1>4 DEF PlayerChat

LEMMA PlayerChangeNameViews ==
  ASSUME TypeOK, QuietInv, Views, PlayerChangeName
  PROVE  Views'
<1> DEFINE p == Head(inbox)
           k == p.index
           m == [rpc |-> "NAME_CHANGE", id |-> k,
                 player |-> [name |-> p.name, conn |-> p.conn]]
<1>1. /\ inbox # <<>> /\ UNCHANGED <<peer, phase, view, self>>
      /\ k \in Slot /\ k \in Index /\ p.name \in Name
  BY ReceivedTyped DEF PlayerChangeName, Receive, Index
<1>2. /\ m \in Message /\ m.rpc = "NAME_CHANGE" /\ m.id = k
      /\ m.player.name = p.name
  BY <1>1, ReceivedTyped, SlotsAreNat DEF Message, Player, Index
<1>3. CASE UNCHANGED <<players, chan>>
  BY <1>1, <1>3, NothingSent
<1>4. CASE /\ Table!Exists(players, k) /\ Broadcast(k, m)
           /\ players' = [players EXCEPT ![k].name = p.name]
  <2>1. players[k] # NoPlayer
    BY <1>4 DEF Table!Exists
  <2>2. \A t \in Slot : /\ players'[t] # NoPlayer <=> players[t] # NoPlayer
                        /\ players[t] # NoPlayer => players'[t].conn = players[t].conn
    BY <1>1, <1>4, <2>1, Renamed
  <2>3. /\ players'[k].name = p.name
        /\ \A t \in Slot : t # k => players'[t] = players[t]
    <3>1. players[k] \in Player /\ players \in [Slot -> Player \cup {NoPlayer}]
      BY <1>1, <2>1 DEF TypeOK
    <3>2. [players[k] EXCEPT !.name = p.name].name = p.name
      BY <3>1 DEF Player
    <3> QED BY <1>1, <1>4, <3>1, <3>2
  <2> HIDE DEF m, k, p
  <2>4. /\ \A t \in Slot : SeatOf(t)' = SeatOf(t)
        /\ \A t \in Slot : \A c \in Client : Member(t, c)' <=> Member(t, c)
    BY <1>1, <2>2 DEF SeatOf, Member
  <2>5. \A t \in Slot : \A c \in Client : Owed(c, t)' = Owed(c, t)
    BY <2>4 DEF Owed, Index
  <2>6. \A s \in Slot : /\ m \notin SeatNews(s) /\ (m \in NameNews(s) <=> s = k)
                        /\ m \in Names(k, players'[k].name)
    BY <1>2, <2>3 DEF SeatNews, NameNews, Names
  <2>7. ASSUME NEW c \in Client
        PROVE  ViewOk(c)'
    <3>1. CASE /\ Linked(c) /\ chan'[c] = Append(chan[c], m)
               /\ \E j \in Index : j # k /\ peer[j] = c
      <4>1. ViewOk(c)
        BY DEF Views
      <4>2. peer[m.id] # c
        BY <1>1, <1>2, <3>1, NobodyIsNobody DEF QuietInv, PeersDistinct
      <4>3. \A s \in Slot : players'[s] # NoPlayer =>
              \/ m \in Names(s, players'[s].name)
              \/ /\ m \notin NameNews(s) /\ players[s] # NoPlayer
                 /\ players'[s].name = players[s].name
        BY <2>3, <2>6
      <4> QED BY <1>1, <1>2, <2>4, <2>5, <2>6, <3>1, <4>1, <4>2, <4>3, Hears
    <3>2. CASE chan'[c] = chan[c] /\ \A j \in Index : peer[j] = c => j = k
      <4>1. ASSUME Linked(c)', NEW j \in Index
            PROVE  /\ peer'[j] = c <=> peer[j] = c
                   /\ SeatOf(j)' = SeatOf(j)
                   /\ peer[j] # c => players'[j] = players[j]
        <5>1. peer[k] = c
          BY <1>1, <3>2, <4>1 DEF Linked
        <5> QED BY <1>1, <2>3, <2>4, <5>1 DEF Index
      <4> QED BY <1>1, <3>2, <4>1, StaysInStep DEF Views
    <3> QED BY <1>2, <1>4, <3>1, <3>2, Heard
  <2> QED BY <2>7 DEF Views
<1> QED BY <1>3, <1>4 DEF PlayerChangeName

(* A client that is let in is given its slot and told of everyone in it.   *)
LEMMA Joins ==
  ASSUME TypeOK, NEW c \in Client, NEW k \in Slot, NEW joiner \in Player,
         joiner.conn = c, ViewOk(c), peer[k] = c, players[k] = NoPlayer,
         \A s \in Slot : players[s] # NoPlayer => players[s].conn # c,
         peer' = peer, players' = [players EXCEPT ![k] = joiner],
         phase'[c] = phase[c], view'[c] = view[c], self'[c] = self[c],
         chan'[c] = chan[c] \o JoinMessages(k, joiner, c)
  PROVE  ViewOk(c)'
<1> DEFINE q == chan[c]
           v == view[c]
           me == self[c]
           others == [players EXCEPT ![k] = NoPlayer]
           m == [rpc |-> "INITIAL_DATA", id |-> k]
           l == [rpc |-> "GET_PLAYERS", roster |-> others]
           r == Append(q, m)
<1>1. /\ q \in Seq(Message) /\ Index = Slot
      /\ others \in [Slot -> Player \cup {NoPlayer}]
      /\ \A s \in Slot : others[s] = IF s = k THEN NoPlayer ELSE players[s]
      /\ \A s \in Slot : players'[s] = IF s = k THEN joiner ELSE players[s]
  BY DEF TypeOK, Index
<1>2. m \in Message /\ l \in Message
  BY <1>1, SlotsAreNat DEF Message
<1>3. r \in Seq(Message)
  BY <1>1, <1>2, AppendFacts
<1>4. chan'[c] = r \/ chan'[c] = Append(r, l)
  <2> DEFINE tail == IF others = Table!EmptyTable THEN <<>> ELSE <<l>>
  <2>1. chan'[c] = q \o (<<m>> \o tail)
    BY <1>1 DEF JoinMessages
  <2>2. <<m>> \in Seq(Message) /\ <<l>> \in Seq(Message) /\ <<>> \in Seq(Message)
    BY <1>2, OneFacts
  <2> HIDE DEF m, l, q
  <2>3. q \o <<m>> = Append(q, m)
    BY <1>1, <1>2, OneAppended
  <2>4. CASE others = Table!EmptyTable
    <3>1. <<m>> \o tail = <<m>>
      BY <2>2, <2>4
    <3> QED BY <2>1, <2>3, <3>1
  <2>5. CASE others # Table!EmptyTable
    <3>1. q \o (<<m>> \o <<l>>) = (q \o <<m>>) \o <<l>>
      BY <1>1, <2>2
    <3>2. r \o <<l>> = Append(r, l)
      BY <1>2, <1>3, OneAppended
    <3> QED BY <2>1, <2>3, <2>5, <3>1, <3>2
  <2> QED BY <2>4, <2>5
<1>5. chan'[c] = r => \A s \in Slot : others[s] = NoPlayer
  <2>1. CASE others = Table!EmptyTable
    BY <2>1 DEF Table!EmptyTable, Slot
  <2>2. CASE others # Table!EmptyTable
    <3>1. chan'[c] = q \o (<<m>> \o <<l>>)
      BY <1>1, <2>2 DEF JoinMessages
    <3>2. Len(<<m>> \o <<l>>) = 2 /\ <<m>> \o <<l>> \in Seq(Message)
      BY <1>2, OneFacts
    <3>3. Len(chan'[c]) = Len(q) + 2 /\ Len(q) \in Nat
      BY <1>1, <3>1, <3>2
    <3>4. Len(r) = Len(q) + 1
      BY <1>1, <1>2
    <3> QED BY <3>3, <3>4
  <2> QED BY <2>1, <2>2
<1>6. /\ Alive(c) /\ Sane(q, v, me) /\ ChatSeated(c, q, v) /\ InStep(c)
  BY DEF ViewOk, Linked, Index
<1>7. \A s \in Slot : /\ ~ Member(s, c) /\ Owed(c, s) = NoClient
                      /\ Member(s, c)' <=> s = k
                      /\ Owed(c, s)' = IF s = k THEN c
                                      ELSE IF others[s] = NoPlayer THEN NoClient
                                      ELSE others[s].conn
  <2>1. c # NoClient /\ joiner # NoPlayer
    BY NobodyIsNobody
  <2>2. \A s \in Slot : SeatOf(s) # c /\ (SeatOf(s)' = c <=> s = k)
    BY <1>1, <2>1 DEF SeatOf
  <2>3. \A s \in Slot : ~ Member(s, c) /\ (Member(s, c)' <=> s = k)
    BY <2>2 DEF Member
  <2>4. \A s \in Slot : SeatOf(s)' = IF s = k THEN c
                                     ELSE IF others[s] = NoPlayer THEN NoClient
                                     ELSE others[s].conn
    BY <1>1, <2>1 DEF SeatOf
  <2> QED BY <1>1, <2>3, <2>4 DEF Owed
<1> HIDE DEF q, v, me, m, l, r, others
<1>8. \A s \in Slot : /\ ~ Given(q, v, s, End(q))
                      /\ Learns(c, q, v, s, NoClient, End(q))
  BY <1>6, <1>7 DEF InStep, OwnSlotGiven, SeatsLearned, q, v
<1>9. \A s \in Slot : /\ m \in IdNews(s) <=> s = k
                      /\ m \in SeatNews(s) <=> s = k
                      /\ m \in Seats(c, k, c)
                      /\ l \notin IdNews(s)
                      /\ l \in SeatNews(s) <=> others[s] # NoPlayer
                      /\ others[s] # NoPlayer =>
                           l \in Seats(c, s, others[s].conn) /\ l \in Names(s, others[s].name)
  BY <1>2 DEF IdNews, SeatNews, NameNews, Seats, Names, m, l
<1>10. /\ m.rpc = "INITIAL_DATA" /\ m.id = k
       /\ l.rpc = "GET_PLAYERS" /\ l \notin Unseats(k)
  BY <1>1 DEF Unseats, SeatNews, m, l
<1>11. Sane(r, v, me) /\ ChatSeated(c, r, v)
  BY <1>1, <1>2, <1>6, <1>8, <1>10, SaneGrows, ChatGrows DEF r
<1>12. \A s \in Slot : /\ Given(r, v, s, End(r)) <=> s = k
                       /\ Learns(c, r, v, s, IF s = k THEN c ELSE NoClient, End(r))
  <2> TAKE s \in Slot
  <2>1. /\ Given(r, v, s, End(r)) <=> Given(q, v, s, End(q)) \/ m \in IdNews(s)
        /\ \A who : /\ m \in Seats(c, s, who) => Learns(c, r, v, s, who, End(r))
                    /\ m \notin SeatNews(s) /\ Learns(c, q, v, s, who, End(q)) =>
                         Learns(c, r, v, s, who, End(r))
    BY <1>1, <1>2, NewsAppended DEF r
  <2> QED BY <1>8, <1>9, <2>1
<1>13. chan'[c] = Append(r, l) =>
         /\ Sane(chan'[c], v, me) /\ ChatSeated(c, chan'[c], v)
         /\ \A s \in Slot :
              /\ Given(chan'[c], v, s, End(chan'[c])) <=> s = k
              /\ Learns(c, chan'[c], v, s, Owed(c, s)', End(chan'[c]))
              /\ others[s] # NoPlayer =>
                   LearnsName(chan'[c], v, s, others[s].name, End(chan'[c]))
  <2> DEFINE t == Append(r, l)
  <2>1. Sane(t, v, me) /\ ChatSeated(c, t, v)
    BY <1>2, <1>3, <1>10, <1>11, <1>12, SaneGrows, ChatGrows
  <2>2. ASSUME NEW s \in Slot
        PROVE  /\ Given(t, v, s, End(t)) <=> s = k
               /\ Learns(c, t, v, s, Owed(c, s)', End(t))
               /\ others[s] # NoPlayer => LearnsName(t, v, s, others[s].name, End(t))
    <3>1. /\ Given(t, v, s, End(t)) <=> Given(r, v, s, End(r)) \/ l \in IdNews(s)
          /\ \A who : /\ l \in Seats(c, s, who) => Learns(c, t, v, s, who, End(t))
                      /\ l \notin SeatNews(s) /\ Learns(c, r, v, s, who, End(r)) =>
                           Learns(c, t, v, s, who, End(t))
          /\ \A name : l \in Names(s, name) => LearnsName(t, v, s, name, End(t))
      BY <1>2, <1>3, NewsAppended
    <3> HIDE DEF t
    <3>2. s = k => others[s] = NoPlayer
      BY <1>1
    <3> QED BY <1>7, <1>9, <1>12, <3>1, <3>2
  <2> QED BY <2>1, <2>2
<1>14. /\ Sane(chan'[c], v, me) /\ ChatSeated(c, chan'[c], v)
       /\ \A s \in Slot :
            /\ Given(chan'[c], v, s, End(chan'[c])) <=> s = k
            /\ Learns(c, chan'[c], v, s, Owed(c, s)', End(chan'[c]))
            /\ others[s] # NoPlayer =>
                 LearnsName(chan'[c], v, s, others[s].name, End(chan'[c]))
  <2>1. CASE chan'[c] = r
    BY <1>5, <1>7, <1>11, <1>12, <2>1
  <2> QED BY <1>4, <1>13, <2>1
<1>15. OwnSlotGiven(c)' /\ SeatsLearned(c)' /\ NamesLearned(c)'
  <2>1. view'[c] = v
    BY DEF v
  <2>2. \A s \in Slot : s # k => players'[s] = others[s]
    BY <1>1
  <2> QED BY <1>7, <1>14, <2>1, <2>2 DEF OwnSlotGiven, SeatsLearned, NamesLearned
<1>16. OwnNameUnsent(c)'
  <2>1. \A i \in DOMAIN r : (i \in DOMAIN q /\ r[i] = q[i]) \/ r[i] = m
    BY <1>1, <1>2, AppendFacts DEF r
  <2>2. \A i \in DOMAIN Append(r, l) :
          (i \in DOMAIN r /\ Append(r, l)[i] = r[i]) \/ Append(r, l)[i] = l
    BY <1>2, <1>3, AppendFacts
  <2>3. \A i \in DOMAIN chan'[c] :
          chan'[c][i].rpc = "NAME_CHANGE" => \E j \in DOMAIN q : q[j] = chan'[c][i]
    BY <1>4, <1>10, <2>1, <2>2
  <2> QED BY <1>6, <2>3 DEF InStep, OwnNameUnsent, q
<1>17. Alive(c)'
  <2>1. Linked(c)' <=> Linked(c)
    BY DEF Linked
  <2>2. phase[c] # "new"
    BY <1>6, <1>1 DEF Alive, Linked
  <2> QED BY <1>6, <2>1, <2>2 DEF Alive
<1> QED BY <1>14, <1>15, <1>16, <1>17 DEF ViewOk, InStep, v, me

(* A download has finished: the client is refused, or its player takes     *)
(* the slot of its connection's index, it is sent what a joiner is sent,   *)
(* and every other connection, a member's, hears of it.                    *)
AllHear(m) ==
  \A d \in Client : chan'[d] = IF Linked(d) THEN Append(chan[d], m) ELSE chan[d]

LetIn(k, c, j) ==
  LET m == [rpc |-> "NEW_PLAYER", id |-> k, player |-> j] IN
  /\ j.conn = c /\ peer[k] = c /\ players[k] = NoPlayer
  /\ \A s \in Slot : players[s] # NoPlayer => players[s].conn # c
  /\ players' = [players EXCEPT ![k] = j]
  /\ \A s \in Slot : players'[s] = IF s = k THEN j ELSE players[s]
  /\ chan'[c] = chan[c] \o JoinMessages(k, j, c)
  /\ \A d \in Client : d # c =>
       /\ chan'[d] = IF Linked(d) THEN Append(chan[d], m) ELSE chan[d]
       /\ Linked(d) => \E i \in Slot : i # k /\ Member(i, d)
  /\ UNCHANGED <<peer, phase, view, self>>

LEMMA DownloadFinishedStep ==
  ASSUME TypeOK, QuietInv, DownloadFinished
  PROVE  \/ /\ inbox # <<>> /\ Head(inbox).rpc \in JoinRpc
            /\ CloseConnection(Head(inbox).index, Tail(inbox))
            /\ UNCHANGED <<players, chan, phase, view, self>>
         \/ \E k \in Slot, c \in Client, j \in Player : LetIn(k, c, j)
<1> DEFINE p == Head(inbox)
           joiner == [name |-> p.name, conn |-> p.conn]
           id == Table!FindFreeSlot(players)
<1>1. /\ inbox # <<>> /\ p.rpc \in JoinRpc /\ UNCHANGED <<phase, view, self>>
  BY DEF DownloadFinished, Receive, JoinRpc
<1>2. CASE CloseConnection(p.index, Tail(inbox)) /\ UNCHANGED <<players, chan>>
  BY <1>1, <1>2
<1>3. CASE /\ players' = Table!Put(players, id, joiner)
           /\ chan' = [d \in Client |-> chan[d] \o JoinMessages(id, joiner, d)]
           /\ inbox' = Tail(inbox) /\ UNCHANGED peer
  <2>1. PICK k \in Index, c \in Client, j \in Player :
          k = p.index /\ c = p.conn /\ j = joiner
    BY <1>1, ReceivedTyped DEF Player
  <2>2. /\ peer[k] = c /\ players[k] = NoPlayer
        /\ \A d \in Client : ~ StartIn(chan[d])
        /\ \A d \in Client : \A i \in Index : JoinIn(inbox, i, d) <=> i = k /\ d = c
        /\ \A lower \in Index : lower < k => players[lower] # NoPlayer
        /\ \A s \in Slot : players[s] # NoPlayer => players[s].conn # c
    BY <1>1, <2>1, HeadJoins
  <2>3. id = k /\ j.conn = c /\ Index = Slot /\ j # NoPlayer /\ c # NoClient
    BY <2>1, <2>2, SlotOfJoiner, NobodyIsNobody DEF Index
  <2>4. /\ players' = [players EXCEPT ![k] = j]
        /\ \A s \in Slot : players'[s] = IF s = k THEN j ELSE players[s]
        /\ \A d \in Client : chan'[d] = chan[d] \o JoinMessages(k, j, d)
    BY <1>3, <2>1, <2>3 DEF Table!Put, TypeOK
  <2> HIDE DEF joiner, id, p
  <2> DEFINE m == [rpc |-> "NEW_PLAYER", id |-> k, player |-> j]
  <2>5. ASSUME NEW d \in Client, d # c
        PROVE  /\ chan'[d] = IF Linked(d) THEN Append(chan[d], m) ELSE chan[d]
               /\ Linked(d) => \E i \in Slot : i # k /\ Member(i, d)
    <3>1. chan[d] \in Seq(Message)
      BY DEF TypeOK
    <3>2. JoinMessages(k, j, d) =
            IF \E s \in Table!Occupied(players) \ {k} : peer[s] = d THEN <<m>> ELSE <<>>
      BY <2>2, <2>5 DEF JoinMessages
    <3>3. CASE Linked(d)
      <4>1. PICK i \in Index : peer[i] = d
        BY <3>3 DEF Linked
      <4>2. players[i] # NoPlayer /\ players[i].conn = d
        BY <2>2, <2>5, <4>1 DEF QuietInv, MembersSeated, Joining, Starting
      <4>3. i # k /\ i \in Slot /\ Member(i, d)
        BY <2>2, <2>3, <4>1, <4>2 DEF Member, SeatOf
      <4>4. i \in Table!Occupied(players) \ {k}
        BY <4>2, <4>3 DEF Table!Occupied, Slot
      <4>5. m \in Message
        BY <2>3, SlotsAreNat DEF Message
      <4> HIDE DEF m
      <4>6. JoinMessages(k, j, d) = <<m>>
        BY <3>2, <4>1, <4>4
      <4>7. chan[d] \o <<m>> = Append(chan[d], m)
        BY <3>1, <4>5, OneAppended
      <4> QED BY <2>4, <3>3, <4>3, <4>6, <4>7
    <3>4. CASE ~ Linked(d)
      <4>1. ~ \E s \in Table!Occupied(players) \ {k} : peer[s] = d
        BY <2>3, <3>4 DEF Linked, Table!Occupied, Slot
      <4>2. JoinMessages(k, j, d) = <<>>
        BY <3>2, <4>1
      <4>3. chan[d] \o <<>> = chan[d]
        BY <3>1
      <4> QED BY <2>4, <3>4, <4>2, <4>3
    <3> QED BY <3>3, <3>4
  <2>6. LetIn(k, c, j)
    BY <1>1, <1>3, <2>2, <2>3, <2>4, <2>5 DEF LetIn
  <2> QED BY <2>3, <2>6
<1> QED BY <1>2, <1>3 DEF DownloadFinished

LEMMA DownloadFinishedViews ==
  ASSUME TypeOK, QuietInv, Views, DownloadFinished
  PROVE  Views'
<1>1. ASSUME NEW k \in Slot, NEW c \in Client, NEW j \in Player, LetIn(k, c, j)
      PROVE  Views'
  <2> DEFINE m == [rpc |-> "NEW_PLAYER", id |-> k, player |-> j]
  <2>1. /\ j.conn = c /\ peer[k] = c /\ players[k] = NoPlayer /\ Index = Slot
        /\ \A s \in Slot : players[s] # NoPlayer => players[s].conn # c
        /\ players' = [players EXCEPT ![k] = j] /\ j # NoPlayer /\ c # NoClient
        /\ \A s \in Slot : players'[s] = IF s = k THEN j ELSE players[s]
        /\ chan'[c] = chan[c] \o JoinMessages(k, j, c)
        /\ UNCHANGED <<peer, phase, view, self>>
    BY <1>1, NobodyIsNobody DEF LetIn, Index
  <2>2. ViewOk(c)'
    <3>1. ViewOk(c)
      BY DEF Views
    <3> QED BY <2>1, <3>1, Joins
  <2>3. ASSUME NEW d \in Client, d # c, Linked(d)
        PROVE  ViewOk(d)'
    <3>1. /\ ViewOk(d) /\ chan'[d] = Append(chan[d], m)
          /\ \E i \in Slot : Member(i, d)
      BY <1>1, <2>3 DEF Views, LetIn
    <3>2. /\ m \in Message /\ m.rpc = "NEW_PLAYER" /\ m.id = k /\ m.id \in Slot
          /\ m.player = j
      BY SlotsAreNat DEF Message
    <3> HIDE DEF m
    <3>3. \A s \in Slot : SeatOf(s)' = IF s = k THEN c ELSE SeatOf(s)
      BY <2>1 DEF SeatOf
    <3>4. SeatOf(k) = NoClient /\ d # NoClient
      BY <2>1, NobodyIsNobody DEF SeatOf
    <3>5. \A s \in Slot : /\ Member(s, d)' <=> Member(s, d)
                          /\ Member(s, d) => s # k
      BY <2>1, <2>3, <3>3, <3>4 DEF Member
    <3>6. \A s \in Slot : Owed(d, s)' = SeatOf(s)' /\ Owed(d, s) = SeatOf(s)
      BY <2>1, <3>1, <3>5 DEF Owed
    <3>7. \A s \in Slot : /\ m \in SeatNews(s) <=> s = k
                          /\ m \in NameNews(s) <=> s = k
                          /\ m \in Seats(d, k, c) /\ m \in Names(k, j.name)
      BY <2>1, <3>2 DEF SeatNews, NameNews, Seats, Names
    <3>8. \A s \in Slot : players'[s] # NoPlayer =>
            \/ m \in Names(s, players'[s].name)
            \/ /\ m \notin NameNews(s) /\ players[s] # NoPlayer
               /\ players'[s].name = players[s].name
      BY <2>1, <3>7
    <3>9. \A s \in Slot : \/ m \in Seats(d, s, Owed(d, s)')
                          \/ m \notin SeatNews(s) /\ Owed(d, s)' = Owed(d, s)
      BY <3>3, <3>6, <3>7
    <3> QED BY <2>1, <2>3, <3>1, <3>2, <3>5, <3>7, <3>8, <3>9, Hears
  <2>4. ASSUME NEW d \in Client, d # c, ~ Linked(d)
        PROVE  ViewOk(d)'
    <3>1. chan'[d] = chan[d] /\ ~ Linked(d)' /\ ViewOk(d)
      BY <1>1, <2>1, <2>4 DEF LetIn, Linked, Views
    <3> QED BY <2>1, <3>1, StaysInStep
  <2> QED BY <2>2, <2>3, <2>4 DEF Views
<1> QED BY <1>1, DownloadFinishedStep, RefuseViews

LEMMA PlayerLeftViews ==
  ASSUME TypeOK, QuietInv, Views, PlayerLeft
  PROVE  Views'
<1> DEFINE gone == Head(inbox)
<1>1. PICK k \in Index, c \in Client : k = gone.index /\ c = gone.conn
  BY ReceivedTyped DEF PlayerLeft, Receive
<1>2. /\ \A j \in Index : peer[j] # c
      /\ players[k] # NoPlayer => players[k].conn = c
      /\ \A s \in Slot : players'[s] = IF s = k THEN NoPlayer ELSE players[s]
  BY <1>1, SeatCleared
<1>3. UNCHANGED <<peer, phase, view, self>> /\ Index = Slot
  BY DEF PlayerLeft, Index
<1> DEFINE m == [rpc |-> "DELETE_PLAYER", id |-> k, conn |-> players[k].conn]
<1>4. CASE UNCHANGED <<chan, players>>
  BY <1>3, <1>4, NothingSent
<1>5. CASE Table!Exists(players, k) /\ Broadcast(InvalidId, m)
  <2>1. players[k] # NoPlayer /\ players[k].conn = c
    BY <1>2, <1>5 DEF Table!Exists
  <2>2. m \in Message /\ m.rpc = "DELETE_PLAYER" /\ m.id = k /\ m.id \in Slot
    BY <1>3, <2>1, SlotsAreNat DEF Message
  <2> HIDE DEF m
  <2>3. /\ SeatOf(k) = c /\ c # NoClient
        /\ \A s \in Slot : SeatOf(s)' = IF s = k THEN NoClient ELSE SeatOf(s)
    BY <1>2, <2>1, NobodyIsNobody DEF SeatOf
  <2>4. \A s \in Slot : \A d : /\ m \in SeatNews(s) <=> s = k
                               /\ m \in Seats(d, k, NoClient)
                               /\ m \notin NameNews(s)
    BY <2>2 DEF SeatNews, NameNews, Seats
  <2>5. ASSUME NEW d \in Client
        PROVE  ViewOk(d)'
    <3>1. ViewOk(d)
      BY DEF Views
    <3>2. CASE Linked(d) /\ chan'[d] = Append(chan[d], m)
      <4>1. d # c /\ d # NoClient
        BY <1>2, <3>2, NobodyIsNobody DEF Linked
      <4>2. \A s \in Slot : /\ Member(s, d)' <=> Member(s, d)
                            /\ Member(s, d) => s # k
        BY <1>3, <2>3, <4>1 DEF Member
      <4>3. \A s \in Slot : Owed(d, s)' = IF s = k THEN NoClient ELSE Owed(d, s)
        BY <1>3, <2>3, <4>2 DEF Owed
      <4>4. \A s \in Slot : /\ \/ m \in Seats(d, s, Owed(d, s)')
                               \/ m \notin SeatNews(s) /\ Owed(d, s)' = Owed(d, s)
                            /\ Member(s, d) => m \notin SeatNews(s)
        BY <2>4, <4>2, <4>3
      <4>5. \A s \in Slot : players'[s] # NoPlayer =>
              m \notin NameNews(s) /\ players[s] # NoPlayer /\ players'[s].name = players[s].name
        BY <1>2, <2>4
      <4> QED BY <1>3, <2>2, <3>1, <3>2, <4>2, <4>4, <4>5, Hears
    <3>3. CASE chan'[d] = chan[d] /\ \A j \in Index : peer[j] = d => j = InvalidId
      <4>1. ~ Linked(d)'
        BY <1>3, <3>3, SlotsAreNat DEF Linked
      <4> QED BY <1>3, <3>1, <3>3, <4>1, StaysInStep
    <3> QED BY <1>5, <2>2, <3>2, <3>3, Heard
  <2> QED BY <2>5 DEF Views
<1> QED BY <1>1, <1>4, <1>5 DEF PlayerLeft

LEMMA KickViews ==
  ASSUME TypeOK, QuietInv, Views, NEW s \in Slot, Kick(s)
  PROVE  Views'
<1>1. PICK k \in Index, c \in Client : k = s /\ c = peer[s]
  BY DEF Kick, TypeOK, Index
<1>2. peer' = [peer EXCEPT ![k] = NoClient] /\ UNCHANGED <<players, chan, phase, view, self>>
  BY <1>1, NobodyIsNobody DEF Kick, CloseConnection
<1> QED BY <1>1, <1>2, LinkLost DEF Views

LEMMA ConnectViews ==
  ASSUME TypeOK, QuietInv, Views, NEW c \in Client, Connect(c)
  PROVE  Views'
<1>1. PICK k \in Index : peer[k] = NoClient /\ peer' = [peer EXCEPT ![k] = c]
  BY DEF Connect
<1>2. /\ phase[c] = "new" /\ phase' = [phase EXCEPT ![c] = "up"]
      /\ UNCHANGED <<players, chan, self, view>>
  BY DEF Connect
<1>3. \A j \in Index : peer'[j] = IF j = k THEN c ELSE peer[j]
  BY <1>1 DEF TypeOK
<1>4. ViewOk(c)'
  <2>1. chan'[c] = <<>> /\ view'[c] = Table!EmptyTable /\ phase'[c] = "up"
    BY <1>2 DEF Views, ViewOk, Alive, TypeOK
  <2>2. \A s \in Slot : SeatOf(s)' # c
    BY <1>2, NobodyIsNobody DEF QuietInv, NewUnknown, SeatOf
  <2> QED BY <2>1, <2>2, Begins DEF Member
<1>5. ASSUME NEW d \in Client, d # c
      PROVE  ViewOk(d)'
  <2>1. \A j \in Index : (peer'[j] = d <=> peer[j] = d) /\ SeatOf(j)' = SeatOf(j)
    BY <1>1, <1>2, <1>3, <1>5, NobodyIsNobody DEF SeatOf
  <2>2. phase'[d] = phase[d] /\ ViewOk(d)
    BY <1>2, <1>5 DEF TypeOK, Views
  <2> QED BY <1>2, <2>1, <2>2, StaysInStep
<1> QED BY <1>4, <1>5 DEF Views

LEMMA DisconnectViews ==
  ASSUME TypeOK, QuietInv, Views, NEW c \in Client, Disconnect(c)
  PROVE  Views'
<1>1. PICK k \in Index : peer[k] = c /\ peer' = [peer EXCEPT ![k] = NoClient]
  BY DEF Disconnect
<1>2. /\ phase'[c] = "gone" /\ chan'[c] = <<>> /\ view'[c] = Table!EmptyTable
      /\ players' = players
      /\ \A d \in Client : d # c => /\ phase'[d] = phase[d] /\ chan'[d] = chan[d]
                                    /\ view'[d] = view[d] /\ self'[d] = self[d]
  BY DEF Disconnect, Exit, TypeOK
<1>3. ~ Linked(c)'
  BY <1>1, NobodyIsNobody DEF QuietInv, PeersDistinct, Linked, TypeOK
<1>4. ViewOk(c)'
  BY <1>2, <1>3, Ends
<1>5. \A d \in Client : d # c => ViewOk(d)'
  BY <1>1, <1>2, LinkLost
<1> QED BY <1>4, <1>5 DEF Views

LEMMA NoticeViews ==
  ASSUME TypeOK, QuietInv, Views, NEW c \in Client, NoticeClosed(c)
  PROVE  Views'
<1>1. /\ phase'[c] = "gone" /\ chan'[c] = <<>> /\ view'[c] = Table!EmptyTable
      /\ UNCHANGED <<peer, players>>
      /\ \A d \in Client : d # c => /\ phase'[d] = phase[d] /\ chan'[d] = chan[d]
                                    /\ view'[d] = view[d] /\ self'[d] = self[d]
  BY DEF NoticeClosed, Exit, TypeOK
<1>2. ViewOk(c)'
  <2>1. ~ Linked(c)'
    BY <1>1 DEF NoticeClosed, Linked
  <2> QED BY <1>1, <2>1, Ends
<1>3. \A s \in Slot : SeatOf(s)' = SeatOf(s)
  BY <1>1 DEF SeatOf
<1>4. ASSUME NEW d \in Client, d # c
      PROVE  ViewOk(d)'
  <2>1. ViewOk(d)
    BY DEF Views
  <2> QED BY <1>1, <1>3, <1>4, <2>1, StaysInStep DEF Index
<1> QED BY <1>2, <1>4 DEF Views

LEMMA DeliverViews ==
  ASSUME TypeOK, QuietInv, Views, NEW c \in Client, Deliver(c)
  PROVE  Views'
<1>1. ViewOk(c) /\ Sane(chan[c], view[c], self[c])
  BY DEF Views, ViewOk
<1>2. ViewOk(c)'
  BY <1>1, Delivers
<1>3. /\ UNCHANGED <<peer, players, phase>>
      /\ \A d \in Client : d # c =>
           chan'[d] = chan[d] /\ view'[d] = view[d] /\ self'[d] = self[d]
  BY <1>1, DeliverHandles
<1>4. \A s \in Slot : SeatOf(s)' = SeatOf(s)
  BY <1>3 DEF SeatOf
<1>5. ASSUME NEW d \in Client, d # c
      PROVE  ViewOk(d)'
  <2>1. ViewOk(d)
    BY DEF Views
  <2> QED BY <1>3, <1>4, <1>5, <2>1, StaysInStep DEF Index
<1> QED BY <1>2, <1>5 DEF Views

LEMMA ViewsNext ==
  ASSUME TypeOK, QuietInv, Views, AuthorsFollowed(inbox), PresentLast(inbox), [Next]_vars
  PROVE  Views'
<1>1. CASE ServerStep
  BY <1>1, InitialDataViews, DownloadFinishedViews, PlayerLeftViews,
     PlayerChatViews, PlayerChangeNameViews DEF ServerStep
<1>2. CASE \E s \in Slot : Kick(s)
  BY <1>2, KickViews
<1>3. CASE \E c \in Client : ClientStep(c)
  <2>1. PICK c \in Client : ClientStep(c)
    BY <1>3
  <2>2. CASE Chat(c) \/ \E name \in Name : ChangeNick(c, name)
    BY <2>2, NothingSent DEF Chat, ChangeNick
  <2> QED BY <2>1, <2>2, ConnectViews, DisconnectViews, NoticeViews, DeliverViews
          DEF ClientStep
<1>4. CASE UNCHANGED vars
  BY <1>4, NothingSent DEF vars
<1> QED BY <1>1, <1>2, <1>3, <1>4 DEF Next
-----------------------------------------------------------------------------
(* The packets queued at the server.                                       *)

LEMMA NoLeft ==
  ASSUME TypeOK, QuietInv, NEW k \in Index, NEW c \in Client, peer[k] = c,
         NEW i \in DOMAIN inbox, AuthorsFollowed(inbox), inbox[i].conn = c
  PROVE  inbox[i].index = k
<1>1. inbox[i].index \in Index
  <2>1. inbox[i] \in Packet
    BY DEF TypeOK
  <2> QED BY <2>1 DEF Packet
<1>2. CASE peer[inbox[i].index] = c
  BY <1>1, <1>2, NobodyIsNobody DEF QuietInv, PeersDistinct
<1>3. CASE Leaving(inbox[i].index, c)
  BY <1>1, <1>3 DEF QuietInv, LeaversGone
<1>4. peer[inbox[i].index] = c \/ Leaving(inbox[i].index, c)
  BY DEF AuthorsFollowed, Leaving, LeftIn
<1> QED BY <1>2, <1>3, <1>4

LEMMA PacketsTaken ==
  ASSUME NEW q \in Seq(Packet), q # <<>>, AuthorsFollowed(q), PresentLast(q)
  PROVE  AuthorsFollowed(Tail(q)) /\ PresentLast(Tail(q))
<1> DEFINE t == Tail(q)
<1>1. /\ \A i \in DOMAIN t : i \in Nat /\ i + 1 \in DOMAIN q /\ t[i] = q[i + 1]
      /\ \A i \in DOMAIN q : i = 1 \/ \E j \in DOMAIN t : j + 1 = i /\ t[j] = q[i]
  BY TailFacts
<1>2. \A i \in DOMAIN t : i \in Nat \ {0}
  BY TailFacts
<1> HIDE DEF t
<1>3. ASSUME NEW i \in DOMAIN t, peer[t[i].index] # t[i].conn
      PROVE  \E j \in DOMAIN t : /\ i <= j /\ t[j].rpc = "LEFT"
                                 /\ t[j].index = t[i].index /\ t[j].conn = t[i].conn
  <2>1. PICK h \in DOMAIN q : /\ i + 1 <= h /\ q[h].rpc = "LEFT"
                              /\ q[h].index = t[i].index /\ q[h].conn = t[i].conn
    BY <1>1, <1>3 DEF AuthorsFollowed
  <2>2. h # 1
    BY <1>2, <2>1
  <2>3. PICK j \in DOMAIN t : j + 1 = h /\ t[j] = q[h]
    BY <1>1, <2>2
  <2>4. i <= j
    BY <1>2, <2>1, <2>3
  <2> QED BY <2>1, <2>3, <2>4
<1>4. ASSUME NEW i \in DOMAIN t, NEW j \in DOMAIN t, t[j].rpc = "LEFT",
             t[i].index = t[j].index, peer[t[i].index] = t[i].conn
      PROVE  j < i
  <2>1. j + 1 < i + 1
    BY <1>1, <1>4 DEF PresentLast
  <2> QED BY <1>2, <2>1
<1> QED BY <1>3, <1>4 DEF AuthorsFollowed, PresentLast, t

LEMMA PacketsGrow ==
  ASSUME NEW q \in Seq(Packet), NEW p \in Packet, AuthorsFollowed(q), PresentLast(q),
         p.rpc # "LEFT", peer[p.index] = p.conn
  PROVE  AuthorsFollowed(Append(q, p)) /\ PresentLast(Append(q, p))
<1> DEFINE r == Append(q, p)
<1>1. /\ DOMAIN q \subseteq DOMAIN r /\ r[Len(q) + 1] = p
      /\ \A i \in DOMAIN q : i < Len(q) + 1 /\ r[i] = q[i]
      /\ \A i \in DOMAIN r : i \in DOMAIN q \/ i = Len(q) + 1
  BY AppendFacts
<1> HIDE DEF r
<1>2. AuthorsFollowed(r)
  BY <1>1 DEF AuthorsFollowed
<1>3. PresentLast(r)
  BY <1>1 DEF PresentLast
<1> QED BY <1>2, <1>3 DEF r

LEMMA NickKept ==
  ASSUME NEW q \in Seq(Packet), NEW k, NEW c, NickLearned(q, k, c)
  PROVE  /\ \A p \in Packet : p \notin NamePackets(c) => NickLearned(Append(q, p), k, c)
         /\ q # <<>> /\ Head(q) \notin NamePackets(c) => NickLearned(Tail(q), k, c)
<1> DEFINE A == NamePackets(c)
           G == NameGiven(c, nick[c])
<1>1. ASSUME NEW p \in Packet, p \notin A
      PROVE  /\ Told(q, End(q), A, G) => Told(Append(q, p), End(Append(q, p)), A, G)
             /\ Silent(q, End(q), A) => Silent(Append(q, p), End(Append(q, p)), A)
  <2> HIDE DEF A, G
  <2> QED BY <1>1, Appended
<1>2. ASSUME q # <<>>, Head(q) \notin A
      PROVE  /\ Told(q, End(q), A, G) => Told(Tail(q), End(Tail(q)), A, G)
             /\ Silent(q, End(q), A) => Silent(Tail(q), End(Tail(q)), A)
  <2>1. Head(q) \notin G
    BY <1>2 DEF NameGiven
  <2>2. End(Tail(q)) + 1 = End(q) /\ End(Tail(q)) \in Nat \ {0}
    BY <1>2, EndTaken
  <2> HIDE DEF A, G
  <2>3. /\ Told(q, End(Tail(q)) + 1, A, G) =>
             \/ Told(Tail(q), End(Tail(q)), A, G)
             \/ Head(q) \in G /\ Silent(Tail(q), End(Tail(q)), A)
        /\ Silent(q, End(Tail(q)) + 1, A) <=>
             Head(q) \notin A /\ Silent(Tail(q), End(Tail(q)), A)
    BY <1>2, <2>2, Taken
  <2> QED BY <2>1, <2>2, <2>3
<1> QED BY <1>1, <1>2 DEF NickLearned

(* The connection behind an index closes: its departure is queued last.    *)
LEMMA ClosePackets ==
  ASSUME TypeOK, NEW q \in Seq(Packet), NEW k \in Index, NEW c \in Client, peer[k] = c,
         AuthorsFollowed(q), PresentLast(q),
         \A d \in Client \ {c} : \A j \in Index : peer[j] = d => NickLearned(q, j, d),
         \A j \in Index : peer[j] = c => j = k,
         peer' = [peer EXCEPT ![k] = NoClient], inbox' = Append(q, PacketOf(c, k, "LEFT")),
         UNCHANGED <<players, nick>>
  PROVE  PacketsOk(inbox)'
<1> DEFINE p == PacketOf(c, k, "LEFT")
           r == Append(q, p)
           n == Len(q) + 1
<1>1. p \in Packet /\ p.rpc = "LEFT" /\ p.index = k /\ p.conn = c
  BY DEF TypeOK, PacketOf, Packet
<1> HIDE DEF p
<1>2. /\ n \in DOMAIN r /\ r[n] = p /\ DOMAIN q \subseteq DOMAIN r
      /\ \A i \in DOMAIN q : i <= n /\ r[i] = q[i]
      /\ \A i \in DOMAIN r : i \in DOMAIN q \/ i = n
      /\ n <= n /\ \A i \in DOMAIN q : q[i].conn \in Client /\ q[i].index \in Index
  <2>1. \A i \in DOMAIN q : q[i] \in Packet
    OBVIOUS
  <2> QED BY <1>1, <2>1, AppendFacts DEF Packet
<1> HIDE DEF n, r
<1>3. /\ inbox' = r /\ NoClient \notin Client
      /\ \A j \in Index : peer'[j] = IF j = k THEN NoClient ELSE peer[j]
  BY NobodyIsNobody DEF TypeOK, r, p
<1>4. AuthorsFollowed(inbox)'
  <2> SUFFICES ASSUME NEW i \in DOMAIN inbox', peer'[inbox'[i].index] # inbox'[i].conn
               PROVE  \E j \in DOMAIN inbox' : /\ i <= j /\ inbox'[j].rpc = "LEFT"
                                               /\ inbox'[j].index = inbox'[i].index
                                               /\ inbox'[j].conn = inbox'[i].conn
    BY DEF AuthorsFollowed
  <2>1. CASE r[i].index = k /\ r[i].conn = c
    BY <1>1, <1>2, <1>3, <2>1
  <2>2. CASE i \in DOMAIN q /\ ~ (q[i].index = k /\ q[i].conn = c)
    <3>1. \/ peer[q[i].index] = q[i].conn
          \/ \E j \in DOMAIN q : /\ i <= j /\ q[j].rpc = "LEFT"
                                 /\ q[j].index = q[i].index /\ q[j].conn = q[i].conn
      BY <2>2 DEF AuthorsFollowed
    <3> QED BY <1>2, <1>3, <2>2, <3>1
  <2> QED BY <1>1, <1>2, <1>3, <2>1, <2>2
<1>5. PresentLast(inbox)'
  <2> SUFFICES ASSUME NEW i \in DOMAIN r, NEW j \in DOMAIN r, r[j].rpc = "LEFT",
                      r[i].index = r[j].index, peer'[r[i].index] = r[i].conn
               PROVE  j < i
    BY <1>3 DEF PresentLast
  <2>1. r[i].index # k /\ i \in DOMAIN q /\ j \in DOMAIN q
    BY <1>1, <1>2, <1>3
  <2> QED BY <1>2, <1>3, <2>1 DEF PresentLast
<1>6. ASSUME NEW d \in Client, NEW j \in Index, peer'[j] = d
      PROVE  NickLearned(inbox, j, d)'
  <2>1. d # c /\ peer[j] = d
    BY <1>3, <1>6
  <2>2. NickLearned(r, j, d)
    BY <1>1, <2>1, NickKept DEF NamePackets, r
  <2> QED BY <1>3, <2>2 DEF NickLearned, SeatOf
<1> QED BY <1>4, <1>5, <1>6 DEF PacketsOk

LEMMA KickPackets ==
  ASSUME TypeOK, QuietInv, PacketsOk(inbox), NEW s \in Slot, Kick(s)
  PROVE  PacketsOk(inbox)'
<1>1. PICK k \in Index, c \in Client : k = s /\ c = peer[s]
  BY DEF Kick, TypeOK, Index
<1>2. /\ peer' = [peer EXCEPT ![k] = NoClient] /\ UNCHANGED <<players, nick>>
      /\ inbox' = Append(inbox, PacketOf(c, k, "LEFT"))
  BY <1>1, NobodyIsNobody DEF Kick, CloseConnection
<1>3. \A j \in Index : peer[j] = c => j = k
  BY <1>1, NobodyIsNobody DEF QuietInv, PeersDistinct
<1>4. inbox \in Seq(Packet)
  BY DEF TypeOK
<1> QED BY <1>1, <1>2, <1>3, <1>4, ClosePackets DEF PacketsOk

LEMMA DisconnectPackets ==
  ASSUME TypeOK, QuietInv, PacketsOk(inbox), NEW c \in Client, Disconnect(c)
  PROVE  PacketsOk(inbox)'
<1>1. PICK k \in Index : /\ peer[k] = c /\ peer' = [peer EXCEPT ![k] = NoClient]
                         /\ inbox' = Append(inbox, PacketOf(c, k, "LEFT"))
  BY DEF Disconnect
<1>2. UNCHANGED <<players, nick>>
  BY DEF Disconnect
<1>3. \A j \in Index : peer[j] = c => j = k
  BY <1>1, NobodyIsNobody DEF QuietInv, PeersDistinct
<1>4. inbox \in Seq(Packet)
  BY DEF TypeOK
<1> QED BY <1>1, <1>2, <1>3, <1>4, ClosePackets DEF PacketsOk

LEMMA RefusePackets ==
  ASSUME TypeOK, QuietInv, PacketsOk(inbox), inbox # <<>>, Head(inbox).rpc \in JoinRpc,
         CloseConnection(Head(inbox).index, Tail(inbox)), UNCHANGED <<players, nick>>
  PROVE  PacketsOk(inbox)'
<1>1. PICK k \in Index, c \in Client : k = Head(inbox).index /\ c = Head(inbox).conn
  BY ReceivedTyped
<1>2. peer[k] = c /\ inbox \in Seq(Packet) /\ Tail(inbox) \in Seq(Packet)
  BY <1>1, HeadJoins, ReceivedTyped DEF TypeOK
<1>3. /\ peer' = [peer EXCEPT ![k] = NoClient]
      /\ inbox' = Append(Tail(inbox), PacketOf(c, k, "LEFT"))
  BY <1>1, <1>2, NobodyIsNobody DEF CloseConnection
<1>4. \A j \in Index : peer[j] = c => j = k
  BY <1>2, NobodyIsNobody DEF QuietInv, PeersDistinct
<1>5. AuthorsFollowed(Tail(inbox)) /\ PresentLast(Tail(inbox))
  BY <1>2, PacketsTaken DEF PacketsOk
<1>6. \A d \in Client \ {c} : \A j \in Index :
        peer[j] = d => NickLearned(Tail(inbox), j, d)
  BY <1>1, <1>2, NickKept DEF PacketsOk, NamePackets
<1> QED BY <1>2, <1>3, <1>4, <1>5, <1>6, ClosePackets

(* The server takes a packet: a name in it is given to its sender's seat,  *)
(* and no other client's player is renamed.                                *)
LEMMA TakePackets ==
  ASSUME TypeOK, inbox # <<>>, PacketsOk(inbox), inbox' = Tail(inbox), UNCHANGED <<peer, nick>>,
         \A c \in Client : \A k \in Index : peer[k] = c =>
           \/ /\ Head(inbox) \notin NamePackets(c)
              /\ SeatOf(k)' = c => SeatOf(k) = c /\ players'[k].name = players[k].name
           \/ /\ Head(inbox) \in NamePackets(c)
              /\ SeatOf(k)' = c => players'[k].name = Head(inbox).name
  PROVE  PacketsOk(inbox)'
<1> DEFINE q == inbox
           t == Tail(inbox)
<1>1. /\ q \in Seq(Packet) /\ q # <<>> /\ inbox' = t
      /\ AuthorsFollowed(t) /\ PresentLast(t)
  BY PacketsTaken DEF TypeOK, PacketsOk
<1>2. AuthorsFollowed(inbox)' /\ PresentLast(inbox)'
  BY <1>1 DEF AuthorsFollowed, PresentLast
<1>3. ASSUME NEW c \in Client, NEW k \in Index, peer[k] = c
      PROVE  NickLearned(inbox, k, c)'
  <2>1. NickLearned(q, k, c)
    BY <1>3 DEF PacketsOk
  <2>2. CASE /\ Head(q) \notin NamePackets(c)
             /\ SeatOf(k)' = c => SeatOf(k) = c /\ players'[k].name = players[k].name
    <3>1. NickLearned(t, k, c)
      BY <1>1, <2>1, <2>2, NickKept
    <3> HIDE DEF t
    <3> QED BY <1>1, <2>2, <3>1 DEF NickLearned
  <2>3. CASE /\ Head(q) \in NamePackets(c)
             /\ SeatOf(k)' = c => players'[k].name = Head(q).name
    <3> DEFINE A == NamePackets(c)
               G == NameGiven(c, nick[c])
    <3>1. /\ Told(q, End(t) + 1, A, G) =>
               Told(t, End(t), A, G) \/ (Head(q) \in G /\ Silent(t, End(t), A))
          /\ Silent(q, End(t) + 1, A) <=> Head(q) \notin A /\ Silent(t, End(t), A)
          /\ End(t) + 1 = End(q)
      <4>1. End(t) + 1 = End(q) /\ End(t) \in Nat \ {0}
        BY <1>1, EndTaken
      <4> HIDE DEF A, G
      <4> QED BY <1>1, <4>1, Taken
    <3>2. Told(q, End(q), A, G)
      BY <2>1, <2>3, <3>1 DEF NickLearned
    <3>3. Told(t, End(t), A, G) \/ (Head(q).name = nick[c] /\ Silent(t, End(t), A))
      BY <3>1, <3>2 DEF NameGiven
    <3> HIDE DEF t
    <3> QED BY <1>1, <2>3, <3>3 DEF NickLearned
  <2> QED BY <1>3, <2>2, <2>3, <2>1
<1> QED BY <1>2, <1>3 DEF PacketsOk

(* A client sends a packet, or the packet is lost.                         *)
LEMMA UploadPackets ==
  ASSUME TypeOK, QuietInv, PacketsOk(inbox), NEW c \in Client, NEW name \in Name,
         NEW rpc \in {"PLAYER_CHAT", "NAME_CHANGE", "DOWNLOAD_FINISH"},
         Upload(c, rpc, name), UNCHANGED <<peer, players>>,
         \A d \in Client : d # c => nick'[d] = nick[d],
         IF rpc = "PLAYER_CHAT" THEN nick'[c] = nick[c] ELSE nick'[c] = name
  PROVE  PacketsOk(inbox)'
<1>1. inbox \in Seq(Packet)
  BY DEF TypeOK
<1>2. ASSUME ~ Linked(c), inbox' = inbox
      PROVE  PacketsOk(inbox)'
  <2>1. AuthorsFollowed(inbox)' /\ PresentLast(inbox)'
    BY <1>2 DEF PacketsOk, AuthorsFollowed, PresentLast
  <2>2. ASSUME NEW d \in Client, NEW k \in Index, peer[k] = d
        PROVE  NickLearned(inbox, k, d)'
    <3>1. nick'[d] = nick[d] /\ NickLearned(inbox, k, d)
      BY <1>2, <2>2 DEF Linked, PacketsOk
    <3> QED BY <1>2, <3>1 DEF NickLearned, SeatOf
  <2> QED BY <2>1, <2>2 DEF PacketsOk
<1>3. ASSUME NEW k \in Index, peer[k] = c, NEW p,
             p = [PacketOf(c, k, rpc) EXCEPT !.name = name], inbox' = Append(inbox, p)
      PROVE  PacketsOk(inbox)'
  <2>1. /\ p \in Packet /\ p.rpc = rpc /\ p.index = k /\ p.conn = c /\ p.name = name
    BY <1>3 DEF PacketOf, Packet, JoinRpc, TypeOK
  <2>2. AuthorsFollowed(Append(inbox, p)) /\ PresentLast(Append(inbox, p))
    BY <1>1, <1>3, <2>1, PacketsGrow DEF PacketsOk
  <2> DEFINE r == Append(inbox, p)
  <2> HIDE DEF r
  <2>3. AuthorsFollowed(inbox)' /\ PresentLast(inbox)'
    BY <1>3, <2>2 DEF AuthorsFollowed, PresentLast
  <2>4. ASSUME NEW d \in Client, NEW j \in Index, peer[j] = d
        PROVE  NickLearned(inbox, j, d)'
    <3>1. CASE d = c /\ rpc # "PLAYER_CHAT"
      <4>1. p \in NameGiven(c, nick'[c])
        BY <2>1, <3>1 DEF NameGiven, NamePackets
      <4>2. Told(r, End(r), NamePackets(c), NameGiven(c, nick'[c]))
        <5> DEFINE A == NamePackets(c)
                   G == NameGiven(c, nick'[c])
        <5> HIDE DEF A, G
        <5>1. p \in G
          BY <4>1 DEF G
        <5>2. Told(r, End(r), A, G)
          BY <1>1, <2>1, <5>1, Appended DEF r
        <5> QED BY <5>2 DEF A, G
      <4>3. inbox' = r
        BY <1>3 DEF r
      <4> QED BY <3>1, <4>2, <4>3 DEF NickLearned
    <3>2. CASE d # c \/ rpc = "PLAYER_CHAT"
      <4>1. p \notin NamePackets(d) /\ nick'[d] = nick[d]
        BY <2>1, <3>2 DEF NamePackets
      <4>2. NickLearned(r, j, d)
        BY <1>1, <2>1, <2>4, <4>1, NickKept DEF PacketsOk, r
      <4>3. inbox' = r
        BY <1>3 DEF r
      <4> QED BY <4>1, <4>2, <4>3 DEF NickLearned, SeatOf
    <3> QED BY <3>1, <3>2
  <2> QED BY <2>3, <2>4 DEF PacketsOk
<1> QED BY <1>2, <1>3 DEF Upload

LEMMA ConnectPackets ==
  ASSUME TypeOK, QuietInv, PacketsOk(inbox), NEW c \in Client, Connect(c)
  PROVE  PacketsOk(inbox)'
<1>1. PICK k \in Index : /\ peer[k] = NoClient /\ peer' = [peer EXCEPT ![k] = c]
                         /\ inbox' = Append(inbox, PacketOf(c, k, "INITIAL_DATA"))
  BY DEF Connect
<1>2. phase[c] = "new" /\ UNCHANGED <<players, nick>> /\ inbox \in Seq(Packet)
  BY DEF Connect, TypeOK
<1> DEFINE p == PacketOf(c, k, "INITIAL_DATA")
           r == Append(inbox, p)
           n == Len(inbox) + 1
<1>3. p \in Packet /\ p.rpc = "INITIAL_DATA" /\ p.index = k /\ p.conn = c
  BY DEF TypeOK, PacketOf, Packet, JoinRpc
<1> HIDE DEF p
<1>4. /\ n \in DOMAIN r /\ r[n] = p /\ DOMAIN inbox \subseteq DOMAIN r
      /\ \A i \in DOMAIN inbox : i < n /\ r[i] = inbox[i]
      /\ \A i \in DOMAIN r : i \in DOMAIN inbox \/ i = n
      /\ \A i \in DOMAIN inbox : inbox[i].conn \in Client /\ inbox[i].index \in Index
  <2>1. \A i \in DOMAIN inbox : inbox[i] \in Packet
    BY <1>2
  <2> QED BY <1>2, <1>3, <2>1, AppendFacts DEF Packet
<1> HIDE DEF n, r
<1>5. /\ inbox' = r /\ NoClient \notin Client
      /\ \A j \in Index : peer'[j] = IF j = k THEN c ELSE peer[j]
  BY <1>1, NobodyIsNobody DEF TypeOK, r, p
<1>6. \A i \in DOMAIN inbox : inbox[i].conn # c
  <2> SUFFICES ASSUME NEW i \in DOMAIN inbox, inbox[i].conn = c PROVE FALSE
    OBVIOUS
  <2>1. peer[inbox[i].index] = c \/ Leaving(inbox[i].index, c)
    BY DEF PacketsOk, AuthorsFollowed, Leaving, LeftIn
  <2> QED BY <1>2, <1>4, <2>1 DEF QuietInv, NewUnknown
<1>7. AuthorsFollowed(inbox)'
  <2> SUFFICES ASSUME NEW i \in DOMAIN inbox', peer'[inbox'[i].index] # inbox'[i].conn
               PROVE  \E j \in DOMAIN inbox' : /\ i <= j /\ inbox'[j].rpc = "LEFT"
                                               /\ inbox'[j].index = inbox'[i].index
                                               /\ inbox'[j].conn = inbox'[i].conn
    BY DEF AuthorsFollowed
  <2>1. i \in DOMAIN inbox /\ peer[inbox[i].index] # inbox[i].conn
    BY <1>1, <1>3, <1>4, <1>5
  <2> QED BY <1>4, <1>5, <2>1 DEF PacketsOk, AuthorsFollowed
<1>8. PresentLast(inbox)'
  <2> SUFFICES ASSUME NEW i \in DOMAIN r, NEW j \in DOMAIN r, r[j].rpc = "LEFT",
                      r[i].index = r[j].index, peer'[r[i].index] = r[i].conn
               PROVE  j < i
    BY <1>5 DEF PresentLast
  <2>1. j \in DOMAIN inbox
    BY <1>3, <1>4
  <2>2. CASE i = n
    BY <1>4, <2>1, <2>2
  <2>3. CASE i \in DOMAIN inbox
    <3>1. peer[inbox[i].index] = inbox[i].conn
      BY <1>4, <1>5, <1>6, <2>3
    <3> QED BY <1>4, <2>1, <2>3, <3>1 DEF PacketsOk, PresentLast
  <2> QED BY <1>4, <2>2, <2>3
<1>9. ASSUME NEW d \in Client, NEW j \in Index, peer'[j] = d
      PROVE  NickLearned(inbox, j, d)'
  <2>1. NickLearned(inbox, j, d)
    <3>1. CASE d = c
      <4>1. Silent(inbox, End(inbox), NamePackets(c))
        BY <1>6 DEF Silent, NamePackets
      <4>2. SeatOf(j) # c
        BY <1>2, NobodyIsNobody DEF QuietInv, NewUnknown, SeatOf, Index
      <4> QED BY <3>1, <4>1, <4>2 DEF NickLearned
    <3>2. CASE d # c
      BY <1>5, <1>9, <3>2 DEF PacketsOk
    <3> QED BY <3>1, <3>2
  <2>2. NickLearned(r, j, d)
    BY <1>2, <1>3, <2>1, NickKept DEF NamePackets, r
  <2> QED BY <1>2, <1>5, <2>2 DEF NickLearned, SeatOf
<1> QED BY <1>7, <1>8, <1>9 DEF PacketsOk

LEMMA InitialDataPackets ==
  ASSUME TypeOK, QuietInv, PacketsOk(inbox), InitialData
  PROVE  PacketsOk(inbox)'
<1>1. /\ inbox # <<>> /\ Head(inbox).rpc = "INITIAL_DATA" /\ UNCHANGED <<players, nick>>
  BY DEF InitialData, Receive
<1>2. CASE CloseConnection(Head(inbox).index, Tail(inbox))
  BY <1>1, <1>2, RefusePackets DEF JoinRpc
<1>3. CASE inbox' = Tail(inbox) /\ UNCHANGED peer
  <2>1. \A c : Head(inbox) \notin NamePackets(c)
    BY <1>1 DEF NamePackets
  <2> QED BY <1>1, <1>3, <2>1, TakePackets DEF SeatOf
<1> QED BY <1>2, <1>3 DEF InitialData

LEMMA DownloadFinishedPackets ==
  ASSUME TypeOK, QuietInv, PacketsOk(inbox), DownloadFinished
  PROVE  PacketsOk(inbox)'
<1> DEFINE p == Head(inbox)
           joiner == [name |-> p.name, conn |-> p.conn]
           id == Table!FindFreeSlot(players)
<1>1. /\ inbox # <<>> /\ p.rpc = "DOWNLOAD_FINISH" /\ p.rpc \in JoinRpc
      /\ UNCHANGED <<nick, phase>>
  BY DEF DownloadFinished, Receive, JoinRpc
<1>2. CASE CloseConnection(p.index, Tail(inbox)) /\ UNCHANGED players
  BY <1>1, <1>2, RefusePackets
<1>3. CASE /\ players' = Table!Put(players, id, joiner)
           /\ chan' = [c \in Client |-> chan[c] \o JoinMessages(id, joiner, c)]
           /\ inbox' = Tail(inbox) /\ UNCHANGED peer
  <2>1. joiner \in Player /\ joiner.conn = p.conn /\ joiner.name = p.name
    BY <1>1, ReceivedTyped DEF Player
  <2>2. p.index \in Index /\ peer[p.index] = p.conn /\ p.conn \in Client
    BY <1>1, HeadJoins, ReceivedTyped
  <2> HIDE DEF joiner
  <2>3. players' = [players EXCEPT ![p.index] = joiner]
    BY <1>1, <1>3, <2>1, SeatTaken
  <2>4. \A k \in Index : players'[k] = IF k = p.index THEN joiner ELSE players[k]
    BY <2>3 DEF TypeOK, Index
  <2>5. ASSUME NEW c \in Client, NEW k \in Index, peer[k] = c
        PROVE  \/ /\ p \notin NamePackets(c)
                  /\ SeatOf(k)' = c => SeatOf(k) = c /\ players'[k].name = players[k].name
               \/ /\ p \in NamePackets(c)
                  /\ SeatOf(k)' = c => players'[k].name = p.name
    <3>1. CASE k = p.index
      <4>1. c = p.conn /\ p \in Packet
        BY <1>1, <2>2, <2>5, <3>1, ReceivedTyped
      <4>2. p \in NamePackets(c)
        BY <1>1, <4>1 DEF NamePackets
      <4> QED BY <2>1, <2>4, <3>1, <4>2
    <3>2. CASE k # p.index
      <4>1. c # p.conn
        BY <2>2, <2>5, <3>2, NobodyIsNobody DEF QuietInv, PeersDistinct
      <4>2. p \notin NamePackets(c)
        BY <4>1 DEF NamePackets
      <4>3. players'[k] = players[k]
        BY <2>4, <3>2
      <4> QED BY <4>2, <4>3 DEF SeatOf
    <3> QED BY <3>1, <3>2
  <2> QED BY <1>1, <1>3, <2>5, TakePackets
<1> QED BY <1>2, <1>3 DEF DownloadFinished

LEMMA PlayerLeftPackets ==
  ASSUME TypeOK, QuietInv, PacketsOk(inbox), PlayerLeft
  PROVE  PacketsOk(inbox)'
<1>1. /\ inbox # <<>> /\ Head(inbox).rpc = "LEFT" /\ inbox' = Tail(inbox)
      /\ UNCHANGED <<peer, nick>>
  BY DEF PlayerLeft, Receive
<1>2. \A c : Head(inbox) \notin NamePackets(c)
  BY <1>1 DEF NamePackets
<1>3. \A s \in Slot : players'[s] = NoPlayer \/ players'[s] = players[s]
  BY SeatCleared
<1>4. \A c \in Client : \A k \in Index :
        SeatOf(k)' = c => SeatOf(k) = c /\ players'[k].name = players[k].name
  BY <1>3, NobodyIsNobody DEF SeatOf, Index
<1> QED BY <1>1, <1>2, <1>4, TakePackets

LEMMA PlayerChatPackets ==
  ASSUME TypeOK, QuietInv, PacketsOk(inbox), PlayerChat
  PROVE  PacketsOk(inbox)'
<1>1. /\ inbox # <<>> /\ Head(inbox).rpc = "PLAYER_CHAT" /\ inbox' = Tail(inbox)
      /\ UNCHANGED <<peer, nick, players>>
  BY DEF PlayerChat, Receive
<1>2. \A c : Head(inbox) \notin NamePackets(c)
  BY <1>1 DEF NamePackets
<1> QED BY <1>1, <1>2, TakePackets DEF SeatOf

LEMMA PlayerChangeNamePackets ==
  ASSUME TypeOK, QuietInv, PacketsOk(inbox), PlayerChangeName
  PROVE  PacketsOk(inbox)'
<1> DEFINE p == Head(inbox)
<1>1. /\ inbox # <<>> /\ p.rpc = "NAME_CHANGE" /\ inbox' = Tail(inbox)
      /\ UNCHANGED <<peer, nick>> /\ p.index \in Slot /\ Index = Slot
  BY ReceivedTyped DEF PlayerChangeName, Receive, Index
<1>2. /\ p.name \in Name /\ inbox[1] = p /\ 1 \in DOMAIN inbox
      /\ inbox \in Seq(Packet) /\ p \in Packet
  BY <1>1, ReceivedTyped, TailFacts DEF TypeOK
<1>3. SeatOf(p.index) # NoClient => SeatOf(p.index) = p.conn
  BY <1>1, HeadAuthor DEF PacketsOk
<1>4. \A c \in Client : \A k \in Index : peer[k] = c /\ p.conn = c => p.index = k
  BY <1>2, NoLeft DEF PacketsOk
<1>5. /\ \A k \in Slot : SeatOf(k)' = SeatOf(k)
      /\ \A k \in Slot : k # p.index => players'[k] = players[k]
      /\ players[p.index] # NoPlayer => players'[p.index].name = p.name
  <2>1. CASE Table!Exists(players, p.index)
    <3>1. players[p.index] # NoPlayer
      BY <2>1 DEF Table!Exists
    <3>2. players' = [players EXCEPT ![p.index].name = p.name]
      BY <2>1 DEF PlayerChangeName
    <3> HIDE DEF p
    <3>3. \A t \in Slot : /\ players'[t] # NoPlayer <=> players[t] # NoPlayer
                          /\ players[t] # NoPlayer => players'[t].conn = players[t].conn
      BY <1>1, <1>2, <3>1, <3>2, Renamed
    <3>4. players[p.index] \in Player /\ players \in [Slot -> Player \cup {NoPlayer}]
      BY <1>1, <3>1 DEF TypeOK
    <3>5. [players[p.index] EXCEPT !.name = p.name].name = p.name
      BY <3>4 DEF Player
    <3> QED BY <1>1, <3>2, <3>3, <3>4, <3>5 DEF SeatOf
  <2>2. CASE ~ Table!Exists(players, p.index)
    <3>1. players' = players
      BY <2>2 DEF PlayerChangeName
    <3>2. players[p.index] = NoPlayer
      BY <1>1, <2>2 DEF Table!Exists, Slot
    <3> QED BY <3>1, <3>2 DEF SeatOf
  <2> QED BY <2>1, <2>2
<1>6. ASSUME NEW c \in Client, NEW k \in Index, peer[k] = c
      PROVE  \/ /\ p \notin NamePackets(c)
                /\ SeatOf(k)' = c => SeatOf(k) = c /\ players'[k].name = players[k].name
             \/ /\ p \in NamePackets(c)
                /\ SeatOf(k)' = c => players'[k].name = p.name
  <2> HIDE DEF p
  <2>1. c # NoClient
    BY NobodyIsNobody
  <2>2. CASE k = p.index /\ SeatOf(k)' = c
    <3>1. SeatOf(k) = c /\ players[k] # NoPlayer
      BY <1>1, <1>5, <2>1, <2>2 DEF SeatOf
    <3>2. p.conn = c
      BY <1>3, <2>1, <2>2, <3>1
    <3>3. p \in NamePackets(c)
      BY <1>1, <1>2, <3>2 DEF NamePackets
    <3> QED BY <1>5, <2>2, <3>1, <3>3
  <2>4. CASE k = p.index /\ SeatOf(k)' # c
    BY <2>4
  <2>3. CASE k # p.index
    <3>1. p \notin NamePackets(c)
      BY <1>4, <1>6, <2>3 DEF NamePackets
    <3> QED BY <1>1, <1>5, <2>3, <3>1
  <2> QED BY <2>2, <2>3, <2>4
<1> QED BY <1>1, <1>6, TakePackets

(* Nothing is taken, sent, opened or closed, and no linked client renamed. *)
LEMMA PacketsRest ==
  ASSUME PacketsOk(inbox), UNCHANGED <<inbox, peer, players>>,
         \A c \in Client : Linked(c) => nick'[c] = nick[c]
  PROVE  PacketsOk(inbox)'
<1>1. AuthorsFollowed(inbox)' /\ PresentLast(inbox)'
  BY DEF PacketsOk, AuthorsFollowed, PresentLast
<1>2. ASSUME NEW d \in Client, NEW k \in Index, peer[k] = d
      PROVE  NickLearned(inbox, k, d)'
  <2>1. nick'[d] = nick[d] /\ NickLearned(inbox, k, d)
    BY <1>2 DEF Linked, PacketsOk
  <2> QED BY <2>1 DEF NickLearned, SeatOf
<1> QED BY <1>1, <1>2 DEF PacketsOk

LEMMA DeliverPackets ==
  ASSUME TypeOK, QuietInv, Views, PacketsOk(inbox), NEW c \in Client, Deliver(c)
  PROVE  PacketsOk(inbox)'
<1> DEFINE m == Head(chan[c])
           q == chan[c]
<1>1. ViewOk(c) /\ Sane(chan[c], view[c], self[c])
  BY DEF Views, ViewOk
<1>2. /\ q \in Seq(Message) /\ q # <<>> /\ UNCHANGED <<peer, players>>
      /\ \/ nick' = nick
         \/ /\ m.rpc = "NAME_CHANGE" /\ view[c][m.id] = Local
            /\ \A d \in Client \ {c} : nick'[d] = nick[d]
      /\ m.rpc # "DOWNLOAD_START" => inbox' = inbox
  BY <1>1, DeliverHandles
<1>3. CASE m.rpc = "DOWNLOAD_START"
  <2>1. Upload(c, "DOWNLOAD_FINISH", nick[c])
    BY <1>3 DEF Deliver, OnDownloadStart
  <2>2. nick' = nick /\ nick[c] \in Name
    BY <1>2, <1>3 DEF TypeOK
  <2> QED BY <1>2, <2>1, <2>2, UploadPackets
<1>4. CASE m.rpc # "DOWNLOAD_START"
  <2>1. ASSUME Linked(c), nick' # nick
        PROVE  FALSE
    <3>1. InStep(c) /\ m.rpc = "NAME_CHANGE" /\ view[c][m.id] = Local
      BY <1>1, <1>2, <2>1 DEF ViewOk
    <3>2. m.id \in Slot /\ 1 \in DOMAIN q /\ q[1] = m
      <4>1. view[c] \in View
        BY DEF TypeOK, View
      <4> QED BY <1>1, <1>2, <3>1, <4>1, HeadSane, TailFacts
    <3> HIDE DEF m, q
    <3>3. Given(q, view[c], m.id, End(q))
      BY <3>1 DEF Given
    <3>4. Member(m.id, c)
      BY <3>1, <3>2, <3>3 DEF InStep, OwnSlotGiven, q
    <3> QED BY <3>1, <3>2, <3>4 DEF InStep, OwnNameUnsent, Member, q
  <2>2. \A d \in Client : Linked(d) => nick'[d] = nick[d]
    BY <1>2, <2>1
  <2> QED BY <1>2, <1>4, <2>2, PacketsRest
<1> QED BY <1>3, <1>4

LEMMA PacketsNext ==
  ASSUME TypeOK, QuietInv, Views, PacketsOk(inbox), [Next]_vars
  PROVE  PacketsOk(inbox)'
<1>1. CASE ServerStep
  BY <1>1, InitialDataPackets, DownloadFinishedPackets, PlayerLeftPackets,
     PlayerChatPackets, PlayerChangeNamePackets DEF ServerStep
<1>2. CASE \E s \in Slot : Kick(s)
  BY <1>2, KickPackets
<1>3. CASE \E c \in Client : ClientStep(c)
  <2>1. PICK c \in Client : ClientStep(c)
    BY <1>3
  <2>2. CASE Chat(c)
    <3>1. nick[c] \in Name /\ nick' = nick
      BY <2>2 DEF TypeOK, Chat
    <3> QED BY <2>2, <3>1, UploadPackets DEF Chat
  <2>3. ASSUME NEW name \in Name, ChangeNick(c, name)
        PROVE  PacketsOk(inbox)'
    <3>1. nick'[c] = name /\ \A d \in Client : d # c => nick'[d] = nick[d]
      BY <2>3 DEF TypeOK, ChangeNick
    <3> QED BY <2>3, <3>1, UploadPackets DEF ChangeNick
  <2>4. CASE NoticeClosed(c)
    BY <2>4, PacketsRest DEF NoticeClosed
  <2> QED BY <2>1, <2>2, <2>3, <2>4, ConnectPackets, DisconnectPackets, DeliverPackets
          DEF ClientStep
<1>4. CASE UNCHANGED vars
  BY <1>4, PacketsRest DEF vars
<1> QED BY <1>1, <1>2, <1>3, <1>4 DEF Next
-----------------------------------------------------------------------------
(* The invariant.                                                          *)

LEMMA ViewInit == Init => ViewInv
<1> SUFFICES ASSUME Init PROVE ViewInv
  OBVIOUS
<1>1. /\ \A k \in Index : \A c \in Client : peer[k] # c
      /\ inbox = <<>> /\ \A c \in Client : /\ chan[c] = <<>> /\ phase[c] = "new"
                                           /\ view[c] = Table!EmptyTable
  BY NobodyIsNobody DEF Init
<1>2. ASSUME NEW c \in Client
      PROVE  ViewOk(c)
  <2>1. ~ Linked(c)
    BY <1>1 DEF Linked
  <2> QED BY <1>1, <2>1, StartsAnew DEF ViewOk, Alive
<1>3. PacketsOk(inbox)
  BY <1>1 DEF PacketsOk, AuthorsFollowed, PresentLast
<1> QED BY <1>2, <1>3 DEF ViewInv, Views

(* What a client has been sent and has not handled yet makes up for what   *)
(* its table is behind the server's: whatever the order in which joins,    *)
(* departures, renames and chat lines meet in the server's queue and in    *)
(* the clients', the last RPC about each slot says who is in it and under  *)
(* which name (the handlers of CNetworkRPC.cpp on both sides, and the      *)
(* joining of a player in CPlayerManager::Add and CPlayer::AddForPlayer).  *)
THEOREM ViewInvariant ==
  ASSUME Quiet
  PROVE  Spec => [](TypeOK /\ QuietInv /\ ViewInv)
<1>1. Init => ViewInv
  BY ViewInit
<1>2. TypeOK /\ QuietInv /\ ViewInv /\ [Next]_vars => ViewInv'
  <2> SUFFICES ASSUME TypeOK, QuietInv, ViewInv, [Next]_vars PROVE ViewInv'
    OBVIOUS
  <2>1. Views /\ PacketsOk(inbox) /\ AuthorsFollowed(inbox) /\ PresentLast(inbox)
    BY DEF ViewInv, PacketsOk
  <2>2. Views'
    BY <2>1, ViewsNext
  <2>3. PacketsOk(inbox)'
    BY <2>1, PacketsNext
  <2> QED BY <2>2, <2>3 DEF ViewInv
<1>3. Spec => [](TypeOK /\ QuietInv)
  BY QuietInvariant
<1> QED BY <1>1, <1>2, <1>3, PTL DEF Spec
-----------------------------------------------------------------------------
(* What it is for.                                                         *)

LEMMA ViewsCrashFree == Views => NoClientCrash
BY DEF Views, ViewOk, Alive, NoClientCrash

LEMMA ViewsAttribute == TypeOK /\ Views => ChatUnderAuthor
<1> SUFFICES ASSUME TypeOK, Views, NEW c \in Client, chan[c] # <<>>, Joined(c),
                    Head(chan[c]).rpc = "PLAYER_CHAT"
             PROVE  LET m == Head(chan[c])
                        shown == view[c][m.id]
                    IN \/ shown = Local /\ m.player.conn = c
                       \/ shown \notin {Local, NoPlayer} /\ shown.conn = m.player.conn
  BY DEF ChatUnderAuthor
<1> DEFINE q == chan[c]
           v == view[c]
           m == Head(q)
<1>1. /\ q \in Seq(Message) /\ 1 \in DOMAIN q /\ q[1] = m /\ m \in Message
      /\ \A i \in DOMAIN q : ~ (i < 1)
  BY TailFacts DEF TypeOK
<1>2. PICK s \in Slot : v[s] = Local
  BY DEF Joined
<1> HIDE DEF q, v, m
<1>3. Sane(q, v, self[c]) /\ ChatSeated(c, q, v)
  BY DEF Views, ViewOk, q, v
<1>4. m.rpc = "PLAYER_CHAT"
  BY DEF m, q
<1>5. Learns(c, q, v, m.id, m.player.conn, 1)
  BY <1>1, <1>2, <1>3, <1>4 DEF ChatSeated, Given
<1>6. Shows(c, v, m.id) = m.player.conn
  BY <1>1, <1>5 DEF Learns, Told
<1>7. m.player.conn # NoClient
  BY <1>1, <1>4, MessageFields, PlayerFields, NobodyIsNobody
<1> QED BY <1>6, <1>7, LocalIsLocal DEF Shows, m, q, v

LEMMA ViewsConverge == TypeOK /\ QuietInv /\ ViewInv => RosterConverges
<1> SUFFICES ASSUME TypeOK, QuietInv, ViewInv, NEW c \in Client, Settled(c), Joined(c)
             PROVE  /\ players[self[c]] = [name |-> nick[c], conn |-> c]
                    /\ \A s \in Slot \ {self[c]} : view[c][s] = players[s]
                    /\ view[c][self[c]] = Local
  BY DEF RosterConverges
<1> DEFINE k == self[c]
           v == view[c]
<1>1. /\ inbox = <<>> /\ chan[c] = <<>> /\ Linked(c) /\ Index = Slot
      /\ v \in View /\ c # NoClient
  BY NobodyIsNobody DEF Settled, TypeOK, View, Index
<1>2. /\ Sane(<<>>, v, k) /\ InStep(c) /\ PacketsOk(<<>>)
  BY <1>1 DEF ViewInv, Views, ViewOk
<1> HIDE DEF k, v
<1>3. \A n, A, G : Silent(<<>>, n, A) /\ ~ Told(<<>>, n, A, G)
  BY DEF Silent, Told
<1>4. /\ k \in Slot /\ v[k] = Local /\ \A s \in Slot : v[s] = Local => s = k
  BY <1>2 DEF Joined, Sane, v
<1>5. Member(k, c)
  BY <1>1, <1>2, <1>4 DEF InStep, OwnSlotGiven, Given, v
<1>6. \A s \in Slot : Shows(c, v, s) = SeatOf(s)
  BY <1>1, <1>2, <1>3, <1>4, <1>5 DEF InStep, SeatsLearned, Learns, Owed, v
<1>7. players[k] = [name |-> nick[c], conn |-> c]
  <2>1. players[k] # NoPlayer /\ players[k].conn = c /\ peer[k] = c
    BY <1>1, <1>5 DEF Member, SeatOf
  <2>2. players[k] \in Player
    BY <1>4, <2>1, PlayersTyped
  <2>3. NickLearned(<<>>, k, c)
    BY <1>1, <1>2, <1>4, <2>1 DEF PacketsOk
  <2>4. players[k].name = nick[c]
    BY <1>3, <1>5, <2>3 DEF NickLearned, Member
  <2> QED BY <2>1, <2>2, <2>4 DEF Player
<1>8. ASSUME NEW s \in Slot, s # k
      PROVE  v[s] = players[s]
  <2>1. v[s] # Local /\ v[s] \in Player \cup {NoPlayer, Local}
    BY <1>1, <1>4, <1>8 DEF View
  <2>2. CASE players[s] = NoPlayer
    BY <1>1, <1>6, <2>2, ShowsNobody DEF SeatOf
  <2>3. CASE players[s] # NoPlayer
    <3>1. players[s] \in Player /\ SeatOf(s) = players[s].conn /\ SeatOf(s) # NoClient
      BY <2>3, PlayersTyped, NobodyIsNobody DEF SeatOf
    <3>2. v[s] \in Player /\ v[s].conn = players[s].conn
      BY <1>6, <2>1, <3>1 DEF Shows
    <3>3. v[s].name = players[s].name
      BY <1>1, <1>2, <1>3, <1>4, <1>5, <1>8, <2>3 DEF InStep, NamesLearned, LearnsName, v
    <3> QED BY <3>1, <3>2, <3>3 DEF Player
  <2> QED BY <2>2, <2>3
<1> QED BY <1>4, <1>7, <1>8 DEF k, v

(* When no connection opens or closes while a join is pending, no client   *)
(* ever deletes its own local player or writes past its table: no          *)
(* DELETE_PLAYER, NEW_PLAYER or GET_PLAYERS about a client's own slot      *)
(* reaches it once it has its id, and none comes before (Add and Delete of *)
(* the client's CEntityManager.h free what a slot held without asking      *)
(* whose it is).                                                           *)
THEOREM QuietNoClientCrash ==
  ASSUME Quiet
  PROVE  Spec => []NoClientCrash
<1>1. ViewInv => NoClientCrash
  BY ViewsCrashFree DEF ViewInv
<1> QED BY <1>1, ViewInvariant, PTL

(* Under the same condition a chat line is printed under its author: the   *)
(* id the server puts in PLAYER_CHAT, the system index the packet came     *)
(* from, is the slot where the receiver shows that client when it handles  *)
(* the line, however many joins and departures are queued behind it        *)
(* (PlayerChat in CNetworkRPC.cpp on both sides).                          *)
THEOREM QuietChatUnderAuthor ==
  ASSUME Quiet
  PROVE  Spec => []ChatUnderAuthor
<1>1. TypeOK /\ ViewInv => ChatUnderAuthor
  BY ViewsAttribute DEF ViewInv
<1> QED BY <1>1, ViewInvariant, PTL

(* Under the same condition, a client that has joined and has nothing on   *)
(* its way shows exactly the server's players, each in its slot and under  *)
(* its current name, and the server knows it in the slot it believes is    *)
(* its own and under its own nickname: no RPC is missing between the       *)
(* GET_PLAYERS snapshot and the later NEW_PLAYER, DELETE_PLAYER and        *)
(* NAME_CHANGE.                                                            *)
THEOREM QuietRosterConverges ==
  ASSUME Quiet
  PROVE  Spec => []RosterConverges
<1>1. TypeOK /\ QuietInv /\ ViewInv => RosterConverges
  BY ViewsConverge
<1> QED BY <1>1, ViewInvariant, PTL
-----------------------------------------------------------------------------
(* What clients hear of each other: the second half of the invariant, for  *)
(* the refinement of Membership.                                           *)

(* What client c, with table v and queue q, hears of x: an RPC m on its    *)
(* way puts it in slot s or takes it from there, or the table shows it.    *)
About(c, m, s, x) ==
  \/ m \in Seats(c, s, x)
  \/ m.rpc = "DELETE_PLAYER" /\ m.id = s /\ m.conn = x

Mentions(c, q, v, s, x) ==
  Shows(c, v, s) = x \/ \E i \in DOMAIN q : About(c, q[i], s, x)

Seated(s, x) == SeatOf(s) = x \/ peer[s] = x

Place(c, s, x) == Mentions(c, chan[c], view[c], s, x) \/ Seated(s, x)

(* A client has one place from the start to the end of its connection, as  *)
(* the server and every client know it, and none before.                   *)
OneSeat(c) ==
  \A x \in Client : \A s, t \in Slot : Place(c, s, x) /\ Place(c, t, x) => s = t

Unheard(c) == \A x \in Client : \A s \in Slot : phase[x] = "new" => ~ Place(c, s, x)

(* Whoever takes a slot finds it free, and whoever is taken out was in it  *)
(* or was never shown there.                                               *)
TurnsTaken(c, q, v) ==
  \A i \in DOMAIN q : \A s \in Slot : \A x \in Client :
    About(c, q[i], s, x) =>
      \/ Learns(c, q, v, s, NoClient, i)
      \/ q[i].rpc = "DELETE_PLAYER" /\ Learns(c, q, v, s, x, i)

NewsOk(c) == OneSeat(c) /\ Unheard(c) /\ TurnsTaken(c, chan[c], view[c])

NewsInv == \A c \in Client : NewsOk(c)
-----------------------------------------------------------------------------
LEMMA MentionsGrow ==
  ASSUME NEW q \in Seq(Message), NEW m \in Message, NEW v, NEW c, NEW s, NEW x,
         Mentions(c, Append(q, m), v, s, x)
  PROVE  Mentions(c, q, v, s, x) \/ About(c, m, s, x)
BY AppendFacts DEF Mentions

LEMMA TurnsGrow ==
  ASSUME NEW q \in Seq(Message), NEW m \in Message, NEW v, NEW c, TurnsTaken(c, q, v),
         \A s \in Slot : \A x \in Client : About(c, m, s, x) =>
           \/ Learns(c, q, v, s, NoClient, End(q))
           \/ m.rpc = "DELETE_PLAYER" /\ Learns(c, q, v, s, x, End(q))
  PROVE  TurnsTaken(c, Append(q, m), v)
<1> DEFINE r == Append(q, m)
<1>1. /\ \A i \in DOMAIN q : i <= Len(q) /\ r[i] = q[i] /\ i \in Nat
      /\ \A i \in DOMAIN r : i \in DOMAIN q \/ i = Len(q) + 1
      /\ r[Len(q) + 1] = m /\ Len(q) \in Nat
  BY AppendFacts
<1>2. \A i \in DOMAIN r : i \in Nat /\ i <= End(q)
  BY <1>1 DEF End
<1>3. \A s : \A n \in Nat : n <= End(q) =>
        \A who : Learns(c, q, v, s, who, n) => Learns(c, r, v, s, who, n)
  BY NewsBefore
<1> HIDE DEF r
<1>4. SUFFICES ASSUME NEW i \in DOMAIN r, NEW s \in Slot, NEW x \in Client,
                      About(c, r[i], s, x)
               PROVE  \/ Learns(c, r, v, s, NoClient, i)
                      \/ r[i].rpc = "DELETE_PLAYER" /\ Learns(c, r, v, s, x, i)
  BY DEF TurnsTaken, r
<1>5. \/ Learns(c, q, v, s, NoClient, i)
      \/ r[i].rpc = "DELETE_PLAYER" /\ Learns(c, q, v, s, x, i)
  <2>1. CASE i \in DOMAIN q
    BY <1>1, <1>4, <2>1 DEF TurnsTaken
  <2>2. CASE i = Len(q) + 1
    BY <1>1, <1>4, <2>2 DEF End
  <2> QED BY <1>1, <2>1, <2>2
<1> QED BY <1>2, <1>3, <1>5

LEMMA SeatsSomebody ==
  ASSUME NEW c, NEW s, NEW m \in SeatNews(s)
  PROVE  \E who : m \in Seats(c, s, who)
<1>1. m.rpc \in {"INITIAL_DATA", "NEW_PLAYER", "DELETE_PLAYER", "GET_PLAYERS"}
  BY DEF SeatNews
<1> QED BY <1>1 DEF Seats

LEMMA MentionsHandled ==
  ASSUME NEW q \in Seq(Message), q # <<>>, NEW v, NEW w, NEW c, NEW s \in Slot,
         NEW x, Handled(c, Head(q), v, w), Mentions(c, Tail(q), w, s, x)
  PROVE  Mentions(c, q, v, s, x)
<1>1. /\ 1 \in DOMAIN q /\ Head(q) = q[1]
      /\ \A i \in DOMAIN Tail(q) : i + 1 \in DOMAIN q /\ Tail(q)[i] = q[i + 1]
  BY TailFacts
<1>2. CASE Shows(c, w, s) = x
  <2>1. CASE Head(q) \in SeatNews(s)
    <3>1. PICK who : Head(q) \in Seats(c, s, who)
      BY <2>1, SeatsSomebody
    <3>2. Shows(c, w, s) = who
      BY <3>1 DEF Handled
    <3> QED BY <1>1, <1>2, <3>1, <3>2 DEF Mentions, About
  <2>2. CASE Head(q) \notin SeatNews(s)
    BY <1>2, <2>2 DEF Handled, Mentions
  <2> QED BY <2>1, <2>2
<1>3. CASE \E i \in DOMAIN Tail(q) : About(c, Tail(q)[i], s, x)
  BY <1>1, <1>3 DEF Mentions
<1> QED BY <1>2, <1>3 DEF Mentions

LEMMA TurnsHandled ==
  ASSUME NEW q \in Seq(Message), q # <<>>, NEW v, NEW w, NEW c,
         Handled(c, Head(q), v, w), TurnsTaken(c, q, v)
  PROVE  TurnsTaken(c, Tail(q), w)
<1> DEFINE t == Tail(q)
<1>1. \A i \in DOMAIN t : i \in Nat \ {0} /\ i + 1 \in DOMAIN q /\ t[i] = q[i + 1]
  BY EndTaken
<1>2. \A s \in Slot : \A who : \A n \in Nat \ {0} :
        Learns(c, q, v, s, who, n + 1) => Learns(c, t, w, s, who, n)
  BY LearnsHandled
<1> HIDE DEF t
<1> QED BY <1>1, <1>2 DEF TurnsTaken, t

(* Nothing is heard of anyone but what the server has heard.               *)
LEMMA NewsKept ==
  ASSUME NEW c \in Client, NewsOk(c),
         \A s \in Slot : \A x \in Client : Place(c, s, x)' => Place(c, s, x),
         \A x \in Client : phase'[x] = "new" => phase[x] = "new",
         TurnsTaken(c, chan[c], view[c])'
  PROVE  NewsOk(c)'
<1>1. OneSeat(c)'
  BY DEF NewsOk, OneSeat
<1>2. Unheard(c)'
  BY DEF NewsOk, Unheard
<1> QED BY <1>1, <1>2 DEF NewsOk

LEMMA NewsStays ==
  ASSUME NEW c \in Client, NewsOk(c), chan'[c] = chan[c], view'[c] = view[c],
         \A s \in Slot : \A x \in Client : Seated(s, x)' => Seated(s, x),
         \A x \in Client : phase'[x] = "new" => phase[x] = "new"
  PROVE  NewsOk(c)'
<1>1. \A s \in Slot : \A x \in Client : Place(c, s, x)' => Place(c, s, x)
  BY DEF Place
<1>2. TurnsTaken(c, chan[c], view[c])'
  BY DEF NewsOk
<1> QED BY <1>1, <1>2, NewsKept

LEMMA NewsHeard ==
  ASSUME TypeOK, NEW c \in Client, NewsOk(c), NEW m \in Message,
         chan'[c] = Append(chan[c], m), view'[c] = view[c],
         \A s \in Slot : \A x \in Client : Seated(s, x)' => Seated(s, x),
         \A x \in Client : phase'[x] = "new" => phase[x] = "new",
         \A s \in Slot : \A x \in Client : About(c, m, s, x) =>
           /\ Seated(s, x)
           /\ \/ Learns(c, chan[c], view[c], s, NoClient, End(chan[c]))
              \/ /\ m.rpc = "DELETE_PLAYER"
                 /\ Learns(c, chan[c], view[c], s, x, End(chan[c]))
  PROVE  NewsOk(c)'
<1>0. chan[c] \in Seq(Message)
  BY DEF TypeOK
<1>1. ASSUME NEW s \in Slot, NEW x \in Client, Place(c, s, x)' PROVE Place(c, s, x)
  <2>1. CASE Seated(s, x)'
    BY <2>1 DEF Place
  <2>2. CASE Mentions(c, Append(chan[c], m), view[c], s, x)
    BY <1>0, <2>2, MentionsGrow DEF Place
  <2> QED BY <1>1, <2>1, <2>2 DEF Place
<1>2. TurnsTaken(c, chan[c], view[c])'
  <2>1. TurnsTaken(c, Append(chan[c], m), view[c])
    BY <1>0, TurnsGrow DEF NewsOk
  <2> QED BY <2>1
<1> QED BY <1>1, <1>2, NewsKept

(* A connection closes or nothing is sent: nobody takes a seat.            *)
LEMMA NoNews ==
  ASSUME NewsInv, UNCHANGED <<chan, view>>,
         \A s \in Slot : \A x \in Client : Seated(s, x)' => Seated(s, x),
         \A x \in Client : phase'[x] = "new" => phase[x] = "new"
  PROVE  NewsInv'
BY NewsStays DEF NewsInv

LEMMA ClosedUnseats ==
  ASSUME TypeOK, NEW k \in Index, peer' = [peer EXCEPT ![k] = NoClient],
         players' = players
  PROVE  \A s \in Slot : \A x \in Client : Seated(s, x)' => Seated(s, x)
<1>1. \A s \in Slot : peer'[s] = IF s = k THEN NoClient ELSE peer[s]
  BY DEF TypeOK, Index
<1> QED BY <1>1, NobodyIsNobody DEF Seated, SeatOf

LEMMA RefuseNews ==
  ASSUME TypeOK, QuietInv, NewsInv, inbox # <<>>, Head(inbox).rpc \in JoinRpc,
         CloseConnection(Head(inbox).index, Tail(inbox)),
         UNCHANGED <<players, chan, phase, view, self>>
  PROVE  NewsInv'
<1>1. PICK k \in Index : k = Head(inbox).index
  BY HeadJoins
<1>2. peer' = [peer EXCEPT ![k] = NoClient]
  BY <1>1, HeadJoins, NobodyIsNobody DEF CloseConnection
<1> QED BY <1>2, ClosedUnseats, NoNews

LEMMA KickNews ==
  ASSUME TypeOK, NewsInv, NEW s \in Slot, Kick(s)
  PROVE  NewsInv'
<1>1. PICK k \in Index : k = s
  BY DEF Index
<1>2. peer' = [peer EXCEPT ![k] = NoClient] /\ UNCHANGED <<players, chan, phase, view>>
  BY <1>1 DEF Kick, CloseConnection
<1> QED BY <1>2, ClosedUnseats, NoNews

LEMMA InitialDataNews ==
  ASSUME TypeOK, QuietInv, NewsInv, InitialData
  PROVE  NewsInv'
<1> DEFINE k == Head(inbox).index
           c == Head(inbox).conn
           m == [rpc |-> "DOWNLOAD_START"]
<1>1. /\ inbox # <<>> /\ Head(inbox).rpc \in JoinRpc
      /\ UNCHANGED <<players, phase, view, self>>
  BY DEF InitialData, Receive, JoinRpc
<1>2. CASE CloseConnection(k, Tail(inbox)) /\ UNCHANGED chan
  BY <1>1, <1>2, RefuseNews
<1>3. CASE SendTo(k, <<m>>) /\ UNCHANGED peer
  <2>1. m \in Message /\ \A d, s, x : ~ About(d, m, s, x)
    BY DEF Message, About, Seats, SeatNews
  <2> HIDE DEF k, c, m
  <2>2. \A s \in Slot : \A x \in Client : Seated(s, x)' => Seated(s, x)
    BY <1>1, <1>3 DEF Seated, SeatOf
  <2>3. ASSUME NEW d \in Client PROVE NewsOk(d)'
    <3>1. chan'[d] = chan[d] \/ chan'[d] = chan[d] \o <<m>>
      BY <1>3 DEF SendTo
    <3>2. chan[d] \o <<m>> = Append(chan[d], m)
      BY <2>1, OneAppended DEF TypeOK
    <3>3. NewsOk(d) /\ view'[d] = view[d] /\ \A x \in Client : phase'[x] = phase[x]
      BY <1>1 DEF NewsInv
    <3> QED BY <2>1, <2>2, <3>1, <3>2, <3>3, NewsStays, NewsHeard
  <2> QED BY <2>3 DEF NewsInv
<1> QED BY <1>2, <1>3 DEF InitialData

LEMMA PlayerChatNews ==
  ASSUME TypeOK, NewsInv, PlayerChat
  PROVE  NewsInv'
<1> DEFINE p == Head(inbox)
           m == [rpc |-> "PLAYER_CHAT", id |-> p.index,
                 player |-> [name |-> p.name, conn |-> p.conn]]
<1>1. inbox # <<>> /\ UNCHANGED <<peer, players, phase, view>>
  BY DEF PlayerChat, Receive
<1>2. m \in Message /\ \A d, s, x : ~ About(d, m, s, x)
  BY <1>1, ReceivedTyped, SlotsAreNat DEF Message, Player, Index, About, Seats, SeatNews
<1>3. UNCHANGED chan \/ Broadcast(InvalidId, m)
  BY DEF PlayerChat
<1> HIDE DEF m, p
<1>4. \A s \in Slot : \A x \in Client : Seated(s, x)' => Seated(s, x)
  BY <1>1 DEF Seated, SeatOf
<1>5. ASSUME NEW d \in Client PROVE NewsOk(d)'
  <2>1. chan'[d] = chan[d] \/ chan'[d] = Append(chan[d], m)
    BY <1>2, <1>3, Heard
  <2>2. NewsOk(d) /\ view'[d] = view[d] /\ \A x \in Client : phase'[x] = phase[x]
    BY <1>1 DEF NewsInv
  <2> QED BY <1>2, <1>4, <2>1, <2>2, NewsStays, NewsHeard
<1> QED BY <1>5 DEF NewsInv

LEMMA PlayerChangeNameNews ==
  ASSUME TypeOK, NewsInv, PlayerChangeName
  PROVE  NewsInv'
<1> DEFINE p == Head(inbox)
           k == p.index
           m == [rpc |-> "NAME_CHANGE", id |-> k,
                 player |-> [name |-> p.name, conn |-> p.conn]]
<1>1. /\ inbox # <<>> /\ UNCHANGED <<peer, phase, view>>
      /\ k \in Slot /\ p.name \in Name
  BY ReceivedTyped DEF PlayerChangeName, Receive, Index
<1>2. m \in Message /\ \A d, s, x : ~ About(d, m, s, x)
  BY <1>1, ReceivedTyped, SlotsAreNat DEF Message, Player, Index, About, Seats, SeatNews
<1>3. \/ UNCHANGED <<players, chan>>
      \/ /\ Table!Exists(players, k) /\ Broadcast(k, m)
         /\ players' = [players EXCEPT ![k].name = p.name]
  BY DEF PlayerChangeName
<1>4. players[k] # NoPlayer /\ players' = [players EXCEPT ![k].name = p.name] =>
        \A t \in Slot : SeatOf(t)' = SeatOf(t)
  BY <1>1, Renamed DEF SeatOf
<1> HIDE DEF m, k, p
<1>5. \A s \in Slot : \A x \in Client : Seated(s, x)' => Seated(s, x)
  BY <1>1, <1>3, <1>4 DEF Seated, SeatOf, Table!Exists
<1>6. ASSUME NEW d \in Client PROVE NewsOk(d)'
  <2>1. chan'[d] = chan[d] \/ chan'[d] = Append(chan[d], m)
    BY <1>2, <1>3, Heard
  <2>2. NewsOk(d) /\ view'[d] = view[d] /\ \A x \in Client : phase'[x] = phase[x]
    BY <1>1 DEF NewsInv
  <2> QED BY <1>2, <1>5, <2>1, <2>2, NewsStays, NewsHeard
<1> QED BY <1>6 DEF NewsInv

(* What a client that is let in is sent.                                   *)
LEMMA JoinQueue ==
  ASSUME TypeOK, NEW q \in Seq(Message), NEW c \in Client, NEW k \in Slot, peer[k] = c, NEW j
  PROVE  LET others == [players EXCEPT ![k] = NoPlayer]
             m == [rpc |-> "INITIAL_DATA", id |-> k]
             l == [rpc |-> "GET_PLAYERS", roster |-> others]
         IN /\ m \in Message /\ l \in Message
            /\ q \o JoinMessages(k, j, c) =
                 IF others = Table!EmptyTable THEN Append(q, m) ELSE Append(Append(q, m), l)
<1> DEFINE others == [players EXCEPT ![k] = NoPlayer]
           m == [rpc |-> "INITIAL_DATA", id |-> k]
           l == [rpc |-> "GET_PLAYERS", roster |-> others]
           tail == IF others = Table!EmptyTable THEN <<>> ELSE <<l>>
<1>1. JoinMessages(k, j, c) = <<m>> \o tail
  BY DEF JoinMessages, Index
<1>2. m \in Message /\ l \in Message
  <2>1. others \in [Slot -> Player \cup {NoPlayer}]
    BY DEF TypeOK
  <2> QED BY <2>1, SlotsAreNat DEF Message
<1> HIDE DEF others, m, l
<1>3. <<m>> \in Seq(Message) /\ <<l>> \in Seq(Message) /\ Append(q, m) \in Seq(Message)
  BY <1>2, OneFacts, AppendFacts
<1>4. q \o <<m>> = Append(q, m) /\ Append(q, m) \o <<l>> = Append(Append(q, m), l)
  BY <1>2, <1>3, OneAppended
<1>5. <<m>> \o <<>> = <<m>> /\ q \o (<<m>> \o <<l>>) = (q \o <<m>>) \o <<l>>
  BY <1>3
<1>6. q \o JoinMessages(k, j, c) =
        IF others = Table!EmptyTable THEN Append(q, m) ELSE Append(Append(q, m), l)
  BY <1>1, <1>4, <1>5
<1> QED BY <1>2, <1>6 DEF others, m, l

LEMMA JoinerNews ==
  ASSUME TypeOK, NEW c \in Client, NEW k \in Slot, NEW j \in Player, j.conn = c,
         ViewOk(c), NewsOk(c), peer[k] = c, players[k] = NoPlayer,
         \A s \in Slot : players[s] # NoPlayer => players[s].conn # c,
         \A s \in Slot : \A x \in Client : Seated(s, x)' => Seated(s, x),
         phase' = phase, view'[c] = view[c], chan'[c] = chan[c] \o JoinMessages(k, j, c)
  PROVE  NewsOk(c)'
<1> DEFINE q == chan[c]
           v == view[c]
           others == [players EXCEPT ![k] = NoPlayer]
           m == [rpc |-> "INITIAL_DATA", id |-> k]
           l == [rpc |-> "GET_PLAYERS", roster |-> others]
           r == Append(q, m)
<1>1. /\ q \in Seq(Message) /\ others \in [Slot -> Player \cup {NoPlayer}]
      /\ \A s \in Slot : others[s] = IF s = k THEN NoPlayer ELSE players[s]
  BY DEF TypeOK
<1>2. /\ m \in Message /\ l \in Message
      /\ chan'[c] = r \/ chan'[c] = Append(r, l)
  <2>1. /\ m \in Message /\ l \in Message
        /\ q \o JoinMessages(k, j, c) =
             IF others = Table!EmptyTable THEN Append(q, m) ELSE Append(Append(q, m), l)
    <3>1. q \in Seq(Message)
      BY <1>1
    <3> HIDE DEF q
    <3> QED BY <3>1, JoinQueue
  <2>2. chan'[c] = q \o JoinMessages(k, j, c)
    OBVIOUS
  <2> HIDE DEF q, m, l, others
  <2> QED BY <2>1, <2>2
<1>3. r \in Seq(Message)
  BY <1>1, <1>2, AppendFacts
<1>4. \A s \in Slot : \A x \in Client :
        /\ About(c, m, s, x) => s = k /\ x = c
        /\ About(c, l, s, x) => s # k /\ SeatOf(s) = x
        /\ m \in SeatNews(s) => s = k
  BY <1>1 DEF About, Seats, SeatNews, SeatOf
<1>5. \A s \in Slot : Learns(c, q, v, s, NoClient, End(q))
  <2>1. \A s \in Slot : Owed(c, s) = NoClient
    BY NobodyIsNobody DEF Owed, Member, SeatOf, Index
  <2> QED BY <2>1 DEF ViewOk, Linked, Index, InStep, SeatsLearned
<1> HIDE DEF q, v, m, l, others, r
<1>6. \A s \in Slot : s # k => Learns(c, r, v, s, NoClient, End(r))
  <2> TAKE s \in Slot
  <2>1. \A who : m \notin SeatNews(s) /\ Learns(c, q, v, s, who, End(q)) =>
                   Learns(c, r, v, s, who, End(r))
    BY <1>1, <1>2, NewsAppended DEF r
  <2> QED BY <1>4, <1>5, <2>1
<1>7. TurnsTaken(c, r, v)
  <2>1. TurnsTaken(c, q, v)
    BY DEF NewsOk, q, v
  <2> QED BY <1>1, <1>2, <1>4, <1>5, <2>1, TurnsGrow DEF r
<1>8. TurnsTaken(c, Append(r, l), v)
  BY <1>2, <1>3, <1>4, <1>6, <1>7, TurnsGrow
<1>9. ASSUME NEW s \in Slot, NEW x \in Client, Place(c, s, x)'
      PROVE  Place(c, s, x)
  <2>1. \/ Seated(s, x)'
        \/ Mentions(c, r, v, s, x)
        \/ Mentions(c, Append(r, l), v, s, x)
    BY <1>2, <1>9 DEF Place, v
  <2>2. Mentions(c, Append(r, l), v, s, x) => Mentions(c, r, v, s, x) \/ About(c, l, s, x)
    BY <1>2, <1>3, MentionsGrow
  <2>3. Mentions(c, r, v, s, x) => Mentions(c, q, v, s, x) \/ About(c, m, s, x)
    BY <1>1, <1>2, MentionsGrow DEF r
  <2> QED BY <1>4, <2>1, <2>2, <2>3 DEF Place, Seated, q, v
<1>10. TurnsTaken(c, chan[c], view[c])'
  BY <1>2, <1>7, <1>8 DEF v
<1> QED BY <1>9, <1>10, NewsKept

LEMMA DownloadFinishedNews ==
  ASSUME TypeOK, QuietInv, Views, NewsInv, DownloadFinished
  PROVE  NewsInv'
<1>1. ASSUME NEW k \in Slot, NEW c \in Client, NEW j \in Player, LetIn(k, c, j)
      PROVE  NewsInv'
  <2> DEFINE m == [rpc |-> "NEW_PLAYER", id |-> k, player |-> j]
  <2>1. /\ j.conn = c /\ peer[k] = c /\ players[k] = NoPlayer /\ Index = Slot
        /\ \A s \in Slot : players[s] # NoPlayer => players[s].conn # c
        /\ \A s \in Slot : players'[s] = IF s = k THEN j ELSE players[s]
        /\ chan'[c] = chan[c] \o JoinMessages(k, j, c)
        /\ UNCHANGED <<peer, phase, view>>
    BY <1>1 DEF LetIn, Index
  <2>2. m \in Message /\ \A d, s, x : About(d, m, s, x) <=> s = k /\ x = c
    BY <2>1, SlotsAreNat DEF Message, About, Seats, SeatNews
  <2> HIDE DEF m
  <2>3. \A s \in Slot : \A x \in Client : Seated(s, x)' => Seated(s, x)
    BY <2>1, NobodyIsNobody DEF Seated, SeatOf
  <2>4. NewsOk(c)'
    <3>1. ViewOk(c) /\ NewsOk(c)
      BY DEF Views, NewsInv
    <3> QED BY <2>1, <2>3, <3>1, JoinerNews
  <2>5. ASSUME NEW d \in Client, d # c, Linked(d)
        PROVE  NewsOk(d)'
    <3>1. /\ ViewOk(d) /\ NewsOk(d) /\ chan'[d] = Append(chan[d], m)
          /\ \E i \in Slot : Member(i, d)
      BY <1>1, <2>5 DEF Views, NewsInv, LetIn, m
    <3>2. Owed(d, k) = NoClient
      BY <2>1, <3>1 DEF Owed, SeatOf
    <3>3. Learns(d, chan[d], view[d], k, NoClient, End(chan[d]))
      BY <2>5, <3>1, <3>2 DEF ViewOk, InStep, SeatsLearned
    <3>4. Seated(k, c)
      BY <2>1 DEF Seated
    <3> QED BY <2>1, <2>2, <2>3, <3>1, <3>3, <3>4, NewsHeard
  <2>6. ASSUME NEW d \in Client, d # c, ~ Linked(d)
        PROVE  NewsOk(d)'
    <3>1. chan'[d] = chan[d] /\ NewsOk(d)
      BY <1>1, <2>6 DEF LetIn, NewsInv
    <3> QED BY <2>1, <2>3, <3>1, NewsStays
  <2> QED BY <2>4, <2>5, <2>6 DEF NewsInv
<1> QED BY <1>1, DownloadFinishedStep, RefuseNews

LEMMA PlayerLeftNews ==
  ASSUME TypeOK, QuietInv, Views, NewsInv, PlayerLeft
  PROVE  NewsInv'
<1> DEFINE gone == Head(inbox)
<1>1. PICK k \in Index, c \in Client : k = gone.index /\ c = gone.conn
  BY ReceivedTyped DEF PlayerLeft, Receive
<1>2. /\ \A i \in Index : peer[i] # c
      /\ players[k] # NoPlayer => players[k].conn = c
      /\ \A s \in Slot : players'[s] = IF s = k THEN NoPlayer ELSE players[s]
  BY <1>1, SeatCleared
<1>3. UNCHANGED <<peer, phase, view>> /\ Index = Slot
  BY DEF PlayerLeft, Index
<1>4. \A s \in Slot : \A x \in Client : Seated(s, x)' => Seated(s, x)
  BY <1>2, <1>3, NobodyIsNobody DEF Seated, SeatOf
<1> DEFINE m == [rpc |-> "DELETE_PLAYER", id |-> k, conn |-> players[k].conn]
<1>5. CASE UNCHANGED chan
  BY <1>3, <1>4, <1>5, NoNews
<1>6. CASE Table!Exists(players, k) /\ Broadcast(InvalidId, m)
  <2>1. players[k] # NoPlayer /\ players[k].conn = c
    BY <1>2, <1>6 DEF Table!Exists
  <2>2. /\ m \in Message /\ m.rpc = "DELETE_PLAYER"
        /\ \A d \in Client : \A s : \A x \in Client : About(d, m, s, x) => s = k /\ x = c
    BY <1>3, <2>1, SlotsAreNat, NobodyIsNobody DEF Message, About, Seats, SeatNews
  <2> HIDE DEF m
  <2>3. SeatOf(k) = c
    BY <2>1 DEF SeatOf
  <2>4. ASSUME NEW d \in Client
        PROVE  NewsOk(d)'
    <3>1. NewsOk(d) /\ ViewOk(d)
      BY DEF NewsInv, Views
    <3>2. CASE Linked(d) /\ chan'[d] = Append(chan[d], m)
      <4>1. Owed(d, k) = c \/ Owed(d, k) = NoClient
        BY <2>3 DEF Owed
      <4>2. Learns(d, chan[d], view[d], k, Owed(d, k), End(chan[d]))
        BY <1>3, <3>1, <3>2 DEF ViewOk, InStep, SeatsLearned
      <4>3. Seated(k, c)
        BY <2>3 DEF Seated
      <4> QED BY <1>3, <1>4, <2>2, <3>1, <3>2, <4>1, <4>2, <4>3, NewsHeard
    <3>3. CASE chan'[d] = chan[d]
      BY <1>3, <1>4, <3>1, <3>3, NewsStays
    <3> QED BY <1>6, <2>2, <3>2, <3>3, Heard
  <2> QED BY <2>4 DEF NewsInv
<1> QED BY <1>1, <1>5, <1>6 DEF PlayerLeft

LEMMA ConnectNews ==
  ASSUME TypeOK, QuietInv, NewsInv, NEW c \in Client, Connect(c)
  PROVE  NewsInv'
<1>1. PICK k \in Index : peer[k] = NoClient /\ peer' = [peer EXCEPT ![k] = c]
  BY DEF Connect
<1>2. /\ phase[c] = "new" /\ phase' = [phase EXCEPT ![c] = "up"]
      /\ UNCHANGED <<players, chan, view>>
  BY DEF Connect
<1>3. \A s \in Slot : \A x \in Client : Seated(s, x)' => Seated(s, x) \/ (s = k /\ x = c)
  BY <1>1, <1>2 DEF TypeOK, Index, Seated, SeatOf
<1>4. \A x \in Client : phase'[x] = "new" => phase[x] = "new" /\ x # c
  BY <1>2 DEF TypeOK
<1>5. ASSUME NEW d \in Client PROVE NewsOk(d)'
  <2>1. NewsOk(d) /\ chan'[d] = chan[d] /\ view'[d] = view[d]
    BY <1>2 DEF NewsInv
  <2>2. \A s \in Slot : \A x \in Client :
          Place(d, s, x)' => Place(d, s, x) \/ (s = k /\ x = c)
    BY <1>3, <2>1 DEF Place
  <2>3. \A s \in Slot : ~ Place(d, s, c)
    BY <1>2, <2>1 DEF NewsOk, Unheard
  <2>4. OneSeat(d)'
    BY <2>1, <2>2, <2>3 DEF NewsOk, OneSeat
  <2>5. Unheard(d)'
    BY <1>4, <2>1, <2>2 DEF NewsOk, Unheard
  <2>6. TurnsTaken(d, chan[d], view[d])'
    BY <2>1 DEF NewsOk
  <2> QED BY <2>4, <2>5, <2>6 DEF NewsOk
<1> QED BY <1>5 DEF NewsInv

(* A client that ends forgets what it heard.                               *)
LEMMA ForgottenNews ==
  ASSUME NEW c \in Client, NewsOk(c), chan'[c] = <<>>, view'[c] = Table!EmptyTable,
         \A s \in Slot : \A x \in Client : Seated(s, x)' => Seated(s, x),
         \A x \in Client : phase'[x] = "new" => phase[x] = "new"
  PROVE  NewsOk(c)'
<1>1. \A s \in Slot : \A x \in Client : ~ Mentions(c, chan'[c], view'[c], s, x)
  BY NobodyIsNobody, LocalIsLocal DEF Mentions, Shows, Table!EmptyTable, Slot
<1>2. \A s \in Slot : \A x \in Client : Place(c, s, x)' => Place(c, s, x)
  BY <1>1 DEF Place
<1>3. TurnsTaken(c, chan[c], view[c])'
  BY DEF TurnsTaken
<1> QED BY <1>2, <1>3, NewsKept

LEMMA DisconnectNews ==
  ASSUME TypeOK, NewsInv, NEW c \in Client, Disconnect(c)
  PROVE  NewsInv'
<1>1. PICK k \in Index : peer' = [peer EXCEPT ![k] = NoClient]
  BY DEF Disconnect
<1>2. /\ chan'[c] = <<>> /\ view'[c] = Table!EmptyTable /\ players' = players
      /\ \A d \in Client : d # c => chan'[d] = chan[d] /\ view'[d] = view[d]
      /\ \A x \in Client : phase'[x] = "new" => phase[x] = "new"
  BY DEF Disconnect, Exit, TypeOK
<1>3. \A s \in Slot : \A x \in Client : Seated(s, x)' => Seated(s, x)
  BY <1>1, <1>2, ClosedUnseats
<1> QED BY <1>2, <1>3, ForgottenNews, NewsStays DEF NewsInv

LEMMA NoticeNews ==
  ASSUME TypeOK, NewsInv, NEW c \in Client, NoticeClosed(c)
  PROVE  NewsInv'
<1>1. /\ chan'[c] = <<>> /\ view'[c] = Table!EmptyTable /\ UNCHANGED <<peer, players>>
      /\ \A d \in Client : d # c => chan'[d] = chan[d] /\ view'[d] = view[d]
      /\ \A x \in Client : phase'[x] = "new" => phase[x] = "new"
  BY DEF NoticeClosed, Exit, TypeOK
<1>2. \A s \in Slot : \A x \in Client : Seated(s, x)' => Seated(s, x)
  BY <1>1 DEF Seated, SeatOf
<1> QED BY <1>1, <1>2, ForgottenNews, NewsStays DEF NewsInv

LEMMA DeliverNews ==
  ASSUME TypeOK, Views, NewsInv, NEW c \in Client, Deliver(c)
  PROVE  NewsInv'
<1> DEFINE q == chan[c]
<1>1. Sane(chan[c], view[c], self[c]) /\ NewsOk(c)
  BY DEF Views, ViewOk, NewsInv
<1>2. /\ q \in Seq(Message) /\ q # <<>> /\ chan'[c] = Tail(q)
      /\ Handled(c, Head(q), view[c], view'[c])
      /\ \A d \in Client : d # c => chan'[d] = chan[d] /\ view'[d] = view[d]
      /\ UNCHANGED <<peer, players, phase>>
  BY <1>1, DeliverHandles
<1>3. \A s \in Slot : \A x \in Client : Seated(s, x)' => Seated(s, x)
  BY <1>2 DEF Seated, SeatOf
<1> HIDE DEF q
<1>4. \A s \in Slot : \A x \in Client : Place(c, s, x)' => Place(c, s, x)
  BY <1>2, <1>3, MentionsHandled DEF Place, q
<1>5. TurnsTaken(c, chan[c], view[c])'
  <2>1. TurnsTaken(c, Tail(q), view'[c])
    BY <1>1, <1>2, TurnsHandled DEF NewsOk, q
  <2> QED BY <1>2, <2>1
<1>6. NewsOk(c)'
  BY <1>1, <1>2, <1>4, <1>5, NewsKept
<1> QED BY <1>2, <1>3, <1>6, NewsStays DEF NewsInv

LEMMA NewsNext ==
  ASSUME TypeOK, QuietInv, Views, NewsInv, [Next]_vars
  PROVE  NewsInv'
<1>1. CASE ServerStep
  BY <1>1, InitialDataNews, DownloadFinishedNews, PlayerLeftNews,
     PlayerChatNews, PlayerChangeNameNews DEF ServerStep
<1>2. CASE \E s \in Slot : Kick(s)
  BY <1>2, KickNews
<1>3. CASE \E c \in Client : ClientStep(c)
  <2>1. PICK c \in Client : ClientStep(c)
    BY <1>3
  <2>2. CASE Chat(c) \/ \E name \in Name : ChangeNick(c, name)
    <3>1. UNCHANGED <<peer, players, chan, phase, view>>
      BY <2>2 DEF Chat, ChangeNick
    <3> QED BY <3>1, NoNews DEF Seated, SeatOf
  <2> QED BY <2>1, <2>2, ConnectNews, DisconnectNews, NoticeNews, DeliverNews
          DEF ClientStep
<1>4. CASE UNCHANGED vars
  <2>1. UNCHANGED <<peer, players, chan, phase, view>>
    BY <1>4 DEF vars
  <2> QED BY <2>1, NoNews DEF Seated, SeatOf
<1> QED BY <1>1, <1>2, <1>3, <1>4 DEF Next

LEMMA NewsInit == Init => NewsInv
<1> SUFFICES ASSUME Init, NEW c \in Client PROVE NewsOk(c)
  BY DEF NewsInv
<1>1. /\ \A s \in Slot : SeatOf(s) = NoClient /\ peer[s] = NoClient
      /\ chan[c] = <<>> /\ \A s \in Slot : view[c][s] = NoPlayer
  BY DEF Init, SeatOf, Table!EmptyTable, Slot, Index
<1>2. \A s \in Slot : \A x \in Client : ~ Place(c, s, x)
  BY <1>1, NobodyIsNobody, LocalIsLocal DEF Place, Seated, Mentions, Shows
<1> QED BY <1>1, <1>2 DEF NewsOk, OneSeat, Unheard, TurnsTaken

-----------------------------------------------------------------------------
(* The news of a queue.                                                    *)

LEMMA NewsOfNone == ASSUME NEW c PROVE NewsOf(c, <<>>) = <<>>
<1>1. 1 .. Len(<<>>) = {}
  OBVIOUS
<1> QED BY <1>1 DEF NewsOf

LEMMA NewsOfAppend ==
  ASSUME NEW c, NEW q \in Seq(Message), NEW m \in Message
  PROVE  NewsOf(c, Append(q, m)) = NewsOf(c, q) \o <<Says(c, m)>>
<1> DEFINE S == {Says(c, n) : n \in Message}
           r == Append(q, m)
<1>1. /\ Len(q) \in Nat /\ Len(r) = Len(q) + 1
      /\ \A i \in 1 .. Len(q) : q[i] \in Message /\ r[i] = q[i]
      /\ r[Len(q) + 1] = m
  OBVIOUS
<1>2. /\ NewsOf(c, q) \in Seq(S) /\ Len(NewsOf(c, q)) = Len(q)
      /\ \A i \in 1 .. Len(q) : NewsOf(c, q)[i] = Says(c, q[i])
  <2>1. NewsOf(c, q) \in [1 .. Len(q) -> S]
    BY <1>1 DEF NewsOf
  <2> HIDE DEF S
  <2> QED BY <1>1, <2>1 DEF NewsOf
<1>3. <<Says(c, m)>> \in Seq(S) /\ Len(<<Says(c, m)>>) = 1 /\ <<Says(c, m)>>[1] = Says(c, m)
  OBVIOUS
<1> HIDE DEF S, r
<1>4. /\ NewsOf(c, r) = [i \in 1 .. Len(q) + 1 |-> Says(c, r[i])]
      /\ \A i \in 1 .. Len(q) + 1 : i \in 1 .. Len(q) \/ i = Len(q) + 1
  BY <1>1 DEF NewsOf
<1> DEFINE a == NewsOf(c, q)
           b == <<Says(c, m)>>
<1> HIDE DEF a, b
<1>5. a \o b = [i \in 1 .. Len(a) + Len(b) |-> IF i <= Len(a) THEN a[i] ELSE b[i - Len(a)]]
  BY <1>2, <1>3 DEF a, b
<1>6. Len(a) = Len(q) /\ Len(b) = 1
  BY <1>2, <1>3 DEF a, b
<1>7. \A i \in 1 .. Len(q) + 1 :
        Says(c, r[i]) = IF i <= Len(a) THEN a[i] ELSE b[i - Len(a)]
  <2>1. /\ \A i \in 1 .. Len(q) : Says(c, r[i]) = a[i]
        /\ Says(c, r[Len(q) + 1]) = b[1]
    BY <1>1, <1>2, <1>3 DEF a, b, r
  <2>2. ASSUME NEW i \in 1 .. Len(q) + 1
        PROVE  Says(c, r[i]) = IF i <= Len(a) THEN a[i] ELSE b[i - Len(a)]
    <3>1. CASE i \in 1 .. Len(q)
      BY <1>1, <1>6, <2>1, <3>1
    <3>2. CASE i = Len(q) + 1
      <4>1. ~ (i <= Len(a)) /\ i - Len(a) = 1
        BY <1>1, <1>6, <3>2
      <4> QED BY <2>1, <3>2, <4>1
    <3> QED BY <1>4, <3>1, <3>2
  <2> QED BY <2>2
<1> QED BY <1>4, <1>5, <1>6, <1>7 DEF a, b, r

LEMMA NewsOfWhole ==
  ASSUME NEW c, NEW q \in Seq(Message)
  PROVE  NewsOf(c, q) \o <<>> = NewsOf(c, q)
<1> DEFINE S == {Says(c, n) : n \in Message}
           a == NewsOf(c, q)
<1>1. Len(q) \in Nat /\ \A i \in 1 .. Len(q) : q[i] \in Message
  OBVIOUS
<1>2. a \in [1 .. Len(q) -> S]
  BY <1>1 DEF NewsOf
<1> HIDE DEF S, a
<1>3. a \in Seq(S)
  BY <1>1, <1>2
<1> QED BY <1>3 DEF a

LEMMA NewsOfTail ==
  ASSUME NEW c, NEW q \in Seq(Message), q # <<>>
  PROVE  /\ NewsOf(c, q) # <<>> /\ Head(NewsOf(c, q)) = Says(c, Head(q))
         /\ Tail(NewsOf(c, q)) = NewsOf(c, Tail(q))
<1> DEFINE S == {Says(c, n) : n \in Message}
           a == NewsOf(c, q)
<1>1. /\ Len(q) \in Nat \ {0} /\ Head(q) = q[1]
      /\ \A i \in 1 .. Len(q) : q[i] \in Message
      /\ Len(Tail(q)) = Len(q) - 1
      /\ \A i \in 1 .. Len(q) - 1 : Tail(q)[i] = q[i + 1]
  OBVIOUS
<1>2. /\ a \in Seq(S) /\ Len(a) = Len(q)
      /\ \A i \in 1 .. Len(q) : a[i] = Says(c, q[i])
  <2>1. a \in [1 .. Len(q) -> S]
    BY <1>1 DEF NewsOf
  <2> HIDE DEF S
  <2> QED BY <1>1, <2>1 DEF NewsOf
<1> HIDE DEF S, a
<1>3. a # <<>> /\ Head(a) = a[1] /\ a[1] = Says(c, Head(q))
  BY <1>1, <1>2
<1> DEFINE b == NewsOf(c, Tail(q))
<1>4. /\ Tail(a) \in Seq(S) /\ Len(Tail(a)) = Len(q) - 1
      /\ \A i \in 1 .. Len(q) - 1 : Tail(a)[i] = a[i + 1]
  BY <1>1, <1>2
<1>5. /\ b \in Seq(S) /\ Len(b) = Len(q) - 1
      /\ \A i \in 1 .. Len(q) - 1 : b[i] = Says(c, Tail(q)[i])
  <2>1. \A i \in 1 .. Len(q) - 1 : Tail(q)[i] \in Message
    BY <1>1
  <2>2. b \in [1 .. Len(q) - 1 -> S]
    BY <1>1, <2>1 DEF NewsOf, S
  <2>3. Len(q) - 1 \in Nat
    BY <1>1
  <2>4. \A i \in 1 .. Len(q) - 1 : b[i] = Says(c, Tail(q)[i])
    BY <1>1 DEF NewsOf
  <2> HIDE DEF b
  <2> QED BY <2>2, <2>3, <2>4
<1>6. \A i \in 1 .. Len(q) - 1 : Tail(a)[i] = b[i]
  BY <1>1, <1>2, <1>4, <1>5
<1> HIDE DEF b
<1>7. Tail(a) = b
  BY <1>4, <1>5, <1>6
<1> QED BY <1>3, <1>7 DEF a, b

-----------------------------------------------------------------------------
(* Who is in a table, and what an RPC says of them.                        *)

LEMMA InTableFacts ==
  ASSUME NEW table \in Roster
  PROVE  \A x : x \in InTable(table) <=>
           x \in Client /\ \E s \in Slot : table[s] # NoPlayer /\ table[s].conn = x
<1>1. \A s \in Slot : table[s] # NoPlayer => table[s].conn \in Client
  BY PlayerFields DEF Roster
<1> QED BY <1>1 DEF InTable, Table!Occupied, Slot

LEMMA ShownByFacts ==
  ASSUME NEW c \in Client, NEW v \in View
  PROVE  \A x : x \in ShownBy(c, v) <=> x \in Client /\ \E s \in Slot : Shows(c, v, s) = x
<1>1. \A s \in Slot : v[s] # NoPlayer /\ v[s] # Local => v[s].conn \in Client
  BY PlayerFields DEF View
<1>2. \A x : x \in ShownBy(c, v) <=>
        \E s \in Slot : v[s] # NoPlayer /\ x = IF v[s] = Local THEN c ELSE v[s].conn
  BY DEF ShownBy, Table!Occupied, Slot
<1> QED BY <1>1, <1>2, NobodyIsNobody, LocalIsLocal DEF Shows

LEMMA SaysFacts ==
  ASSUME NEW c \in Client, NEW m \in Message,
         m.rpc \in {"DOWNLOAD_START", "GET_PLAYERS"} \/ m.id \in Slot
  PROVE  /\ \A x : x \in Came(c, m) <=> x \in Client /\ \E s \in Slot : m \in Seats(c, s, x)
         /\ \A x : x \in Left(m) <=> m.rpc = "DELETE_PLAYER" /\ m.conn = x
         /\ Says(c, m).came = Came(c, m) /\ Says(c, m).left = Left(m)
<1>1. CASE m.rpc = "GET_PLAYERS"
  <2>1. /\ Came(c, m) = InTable(m.roster) /\ m.roster \in Roster
    BY <1>1, MessageFields DEF Came
  <2>2. \A s, x : m \in Seats(c, s, x) <=> m.roster[s] # NoPlayer /\ x = m.roster[s].conn
    BY <1>1 DEF Seats, SeatNews
  <2> QED BY <1>1, <2>1, <2>2, InTableFacts DEF Left, Says
<1>2. CASE m.rpc = "INITIAL_DATA"
  BY <1>2 DEF Came, Left, Says, Seats, SeatNews
<1>3. CASE m.rpc = "NEW_PLAYER"
  BY <1>3, MessageFields, PlayerFields DEF Came, Left, Says, Seats, SeatNews
<1>4. CASE m.rpc = "DELETE_PLAYER"
  BY <1>4, NobodyIsNobody DEF Came, Left, Says, Seats, SeatNews
<1>5. CASE m.rpc \notin {"GET_PLAYERS", "INITIAL_DATA", "NEW_PLAYER", "DELETE_PLAYER"}
  BY <1>5 DEF Came, Left, Says, Seats, SeatNews
<1> QED BY <1>1, <1>2, <1>3, <1>4, <1>5

(* What the first RPC of a queue does to a client's table is what it is    *)
(* meant to tell.                                                          *)
LEMMA ShowsNews ==
  ASSUME NEW c \in Client, NEW q \in Seq(Message), q # <<>>, NEW v \in View, NEW w \in View,
         NEW me, Sane(q, v, me), Handled(c, Head(q), v, w), TurnsTaken(c, q, v),
         \A x \in Client : \A s, t \in Slot :
           Mentions(c, q, v, s, x) /\ Mentions(c, q, v, t, x) => s = t
  PROVE  ShownBy(c, w) = (ShownBy(c, v) \cup Came(c, Head(q))) \ Left(Head(q))
<1> DEFINE m == Head(q)
<1>1. /\ m \in Message /\ 1 \in DOMAIN q /\ m = q[1]
      /\ m.rpc \in {"DOWNLOAD_START", "GET_PLAYERS"} \/ m.id \in Slot
  BY TailFacts DEF Sane
<1>2. /\ \A x : x \in Came(c, m) <=> x \in Client /\ \E s \in Slot : m \in Seats(c, s, x)
      /\ \A x : x \in Left(m) <=> m.rpc = "DELETE_PLAYER" /\ m.conn = x
  BY <1>1, SaysFacts
<1>3. /\ \A x : x \in ShownBy(c, v) <=> x \in Client /\ \E s \in Slot : Shows(c, v, s) = x
      /\ \A x : x \in ShownBy(c, w) <=> x \in Client /\ \E s \in Slot : Shows(c, w, s) = x
  BY ShownByFacts
<1> HIDE DEF m
<1>4. \A s \in Slot : /\ \A x : m \in Seats(c, s, x) => Shows(c, w, s) = x
                      /\ m \notin SeatNews(s) => Shows(c, w, s) = Shows(c, v, s)
  BY DEF Handled, m
<1>5. \A s \in Slot : \A x \in Client : About(c, m, s, x) =>
        \/ Shows(c, v, s) = NoClient
        \/ m.rpc = "DELETE_PLAYER" /\ Shows(c, v, s) = x
  <2>1. \A A, G : ~ Told(q, 1, A, G)
    <3>1. \A i \in DOMAIN q : ~ (i < 1)
      OBVIOUS
    <3> QED BY <3>1 DEF Told
  <2>2. \A s, x : Learns(c, q, v, s, x, 1) => Shows(c, v, s) = x
    BY <2>1 DEF Learns
  <2> QED BY <1>1, <2>2 DEF TurnsTaken
<1>6. \A x \in Client : \A s, t \in Slot :
        (Shows(c, v, s) = x \/ About(c, m, s, x)) /\ About(c, m, t, x) => s = t
  BY <1>1 DEF Mentions
<1>7. \A s \in Slot : m \in SeatNews(s) => \E x : m \in Seats(c, s, x)
  BY SeatsSomebody
<1>8. \A s \in Slot : \A x \in Client : m \in Seats(c, s, x) => m.rpc # "DELETE_PLAYER"
  BY NobodyIsNobody DEF Seats
<1>9. m.rpc = "DELETE_PLAYER" => /\ m.id \in Slot /\ m \in SeatNews(m.id)
                                 /\ m \in Seats(c, m.id, NoClient)
                                 /\ \A x : m.conn = x => About(c, m, m.id, x)
                                 /\ \A s \in Slot : m \in SeatNews(s) => s = m.id
  BY <1>1 DEF About, SeatNews, Seats
<1>10. ASSUME NEW x \in Client, NEW s \in Slot, Shows(c, w, s) = x
       PROVE  x \in ShownBy(c, v) \cup Came(c, m) /\ x \notin Left(m)
  <2>1. CASE m \in SeatNews(s)
    <3>1. m \in Seats(c, s, x)
      BY <1>4, <1>7, <1>10, <2>1
    <3> QED BY <1>2, <1>8, <3>1
  <2>2. CASE m \notin SeatNews(s)
    <3>1. Shows(c, v, s) = x
      BY <1>4, <1>10, <2>2
    <3>2. x \notin Left(m)
      BY <1>2, <1>6, <1>9, <2>2, <3>1
    <3> QED BY <1>3, <3>1, <3>2
  <2> QED BY <2>1, <2>2
<1>11. ASSUME NEW x \in Client, x \in ShownBy(c, v) \cup Came(c, m), x \notin Left(m)
       PROVE  \E s \in Slot : Shows(c, w, s) = x
  <2>1. CASE x \in Came(c, m)
    BY <1>2, <1>4, <2>1
  <2>2. CASE x \in ShownBy(c, v)
    <3>1. PICK s \in Slot : Shows(c, v, s) = x
      BY <1>3, <2>2
    <3>2. CASE m \notin SeatNews(s)
      BY <1>4, <3>1, <3>2
    <3>3. CASE m \in SeatNews(s) /\ m.rpc = "DELETE_PLAYER"
      <4>1. s = m.id /\ m.conn \in Client /\ m.conn # x
        BY <1>1, <1>2, <1>9, <1>11, <3>3 DEF Message
      <4>2. Shows(c, v, s) = NoClient \/ Shows(c, v, s) = m.conn
        BY <1>5, <1>9, <3>3, <4>1
      <4> QED BY <3>1, <4>1, <4>2, NobodyIsNobody
    <3>4. CASE m \in SeatNews(s) /\ m.rpc # "DELETE_PLAYER"
      <4>1. PICK y : m \in Seats(c, s, y)
        BY <1>7, <3>4
      <4>2. y \in Client
        BY <1>1, <3>4, <4>1, MessageFields, PlayerFields DEF Seats, SeatNews, Roster
      <4>3. Shows(c, v, s) = NoClient
        BY <1>5, <3>4, <4>1, <4>2 DEF About
      <4> QED BY <3>1, <4>3, NobodyIsNobody
    <3> QED BY <3>2, <3>3, <3>4
  <2> QED BY <1>11, <2>1, <2>2
<1>12. \A x : x \in ShownBy(c, v) \cup Came(c, m) => x \in Client
  BY <1>2, <1>3
<1> QED BY <1>3, <1>10, <1>11, <1>12 DEF m

-----------------------------------------------------------------------------
(* Every step is one of the abstract session, or changes nothing in it.    *)

Follows == [Abstract!Next]_(Abstract!vars)

LEMMA SeatedMembers ==
  /\ TypeOK => \A x : x \in Members <=> x \in Client /\ \E s \in Slot : SeatOf(s) = x
  /\ TypeOK' => \A x : x \in Members' <=> x \in Client /\ \E s \in Slot : SeatOf(s)' = x
<1>1. ASSUME NEW table \in Roster
      PROVE  \A x : x \in InTable(table) <=>
               /\ x \in Client
               /\ \E s \in Slot : x = IF table[s] = NoPlayer THEN NoClient ELSE table[s].conn
  BY InTableFacts, NobodyIsNobody
<1>2. (TypeOK => players \in Roster) /\ (TypeOK' => players' \in Roster)
  BY DEF TypeOK, Roster
<1>3. TypeOK => \A x : x \in Members <=> x \in Client /\ \E s \in Slot : SeatOf(s) = x
  BY <1>1, <1>2 DEF Members, SeatOf
<1>4. TypeOK' => \A x : x \in Members' <=> x \in Client /\ \E s \in Slot : SeatOf(s)' = x
  BY <1>1, <1>2 DEF Members, SeatOf
<1> QED BY <1>3, <1>4

LEMMA LinkedConnected ==
  /\ \A x : x \in Connected <=> x \in Client /\ Linked(x)
  /\ \A x : x \in Connected' <=> x \in Client /\ Linked(x)'
BY DEF Connected

LEMMA SessionKept ==
  /\ players' = players => Members' = Members
  /\ peer' = peer => Connected' = Connected
  /\ view' = view => Shown' = Shown
  /\ chan' = chan => Due' = Due
BY DEF Members, Connected, Linked, Shown, Due

LEMMA Nothing ==
  ASSUME UNCHANGED <<peer, players, chan, view>>
  PROVE  Follows
BY SessionKept DEF Follows, Abstract!vars

LEMMA FollowsCutOff ==
  ASSUME TypeOK, QuietInv, NEW k \in Index, NEW c \in Client, peer[k] = c,
         peer' = [peer EXCEPT ![k] = NoClient], UNCHANGED <<players, chan, view>>
  PROVE  Follows
<1>1. \A j \in Index : peer'[j] = IF j = k THEN NoClient ELSE peer[j]
  BY DEF TypeOK
<1>2. \A d \in Client : Linked(d)' <=> Linked(d) /\ d # c
  BY <1>1, NobodyIsNobody DEF Linked, QuietInv, PeersDistinct
<1>3. c \in Connected /\ Connected' = Connected \ {c}
  BY <1>2, LinkedConnected DEF Linked
<1>4. Abstract!CutOff(c)
  BY <1>3, SessionKept DEF Abstract!CutOff
<1> QED BY <1>4 DEF Follows, Abstract!Next

LEMMA FollowsRefuse ==
  ASSUME TypeOK, QuietInv, inbox # <<>>, Head(inbox).rpc \in JoinRpc,
         CloseConnection(Head(inbox).index, Tail(inbox)),
         UNCHANGED <<players, chan, phase, view, self>>
  PROVE  Follows
<1>1. PICK k \in Index, c \in Client : k = Head(inbox).index /\ c = Head(inbox).conn
  BY ReceivedTyped
<1>2. peer[k] = c
  BY <1>1, HeadJoins
<1>3. peer' = [peer EXCEPT ![k] = NoClient]
  BY <1>1, <1>2, NobodyIsNobody DEF CloseConnection
<1> QED BY <1>2, <1>3, FollowsCutOff

LEMMA FollowsKick ==
  ASSUME TypeOK, QuietInv, NEW s \in Slot, Kick(s)
  PROVE  Follows
<1>1. PICK k \in Index, c \in Client : k = s /\ c = peer[s]
  BY DEF Kick, TypeOK, Index
<1>2. peer' = [peer EXCEPT ![k] = NoClient] /\ UNCHANGED <<players, chan, view>>
  BY <1>1, NobodyIsNobody DEF Kick, CloseConnection
<1> QED BY <1>1, <1>2, FollowsCutOff

LEMMA FollowsConnect ==
  ASSUME TypeOK, QuietInv, Views, NEW c \in Client, Connect(c)
  PROVE  Follows
<1>1. PICK k \in Index : peer[k] = NoClient /\ peer' = [peer EXCEPT ![k] = c]
  BY DEF Connect
<1>2. phase[c] = "new" /\ UNCHANGED <<players, chan, view>>
  BY DEF Connect
<1>3. \A j \in Index : peer'[j] = IF j = k THEN c ELSE peer[j]
  BY <1>1 DEF TypeOK
<1>4. \A d \in Client : Linked(d)' <=> Linked(d) \/ d = c
  BY <1>1, <1>3, NobodyIsNobody DEF Linked
<1>5. c \notin Connected /\ Connected' = Connected \cup {c}
  BY <1>2, <1>4, LinkedConnected DEF QuietInv, NewUnknown, Linked
<1>6. c \notin Members
  BY <1>2, SeatedMembers, NobodyIsNobody DEF QuietInv, NewUnknown, SeatOf
<1>7. Shown[c] = {} /\ Due[c] = <<>>
  <2>1. chan[c] = <<>> /\ view[c] = Table!EmptyTable
    BY <1>2 DEF Views, ViewOk, Alive
  <2>2. ShownBy(c, view[c]) = {}
    BY <2>1 DEF ShownBy, Table!Occupied, Table!EmptyTable
  <2> QED BY <2>1, <2>2, NewsOfNone DEF Shown, Due
<1>8. Abstract!Link(c)
  BY <1>2, <1>5, <1>6, <1>7, SessionKept DEF Abstract!Link
<1> QED BY <1>8 DEF Follows, Abstract!Next

LEMMA FollowsExit ==
  ASSUME TypeOK, NEW c \in Client, players' = players, Connected' = Connected \ {c},
         chan' = [chan EXCEPT ![c] = <<>>], view' = [view EXCEPT ![c] = Table!EmptyTable]
  PROVE  Follows
<1>1. ShownBy(c, Table!EmptyTable) = {}
  BY DEF ShownBy, Table!Occupied, Table!EmptyTable
<1>2. Shown' = [Shown EXCEPT ![c] = {}]
  BY <1>1 DEF Shown, TypeOK
<1>3. Due' = [Due EXCEPT ![c] = <<>>]
  BY NewsOfNone DEF Due, TypeOK
<1>4. CASE c \in Connected \/ Shown[c] # {} \/ Due[c] # <<>>
  <2>1. Abstract!Quit(c)
    BY <1>2, <1>3, <1>4, SessionKept DEF Abstract!Quit
  <2> QED BY <2>1 DEF Follows, Abstract!Next
<1>5. CASE ~ (c \in Connected \/ Shown[c] # {} \/ Due[c] # <<>>)
  <2>1. Connected' = Connected
    BY <1>5
  <2>2. Shown' = Shown /\ Due' = Due
    BY <1>2, <1>3, <1>5 DEF Shown, Due
  <2> QED BY <2>1, <2>2, SessionKept DEF Follows, Abstract!vars
<1> QED BY <1>4, <1>5

LEMMA FollowsDisconnect ==
  ASSUME TypeOK, QuietInv, NEW c \in Client, Disconnect(c)
  PROVE  Follows
<1>1. PICK k \in Index : peer[k] = c /\ peer' = [peer EXCEPT ![k] = NoClient]
  BY DEF Disconnect
<1>2. \A j \in Index : peer'[j] = IF j = k THEN NoClient ELSE peer[j]
  BY <1>1 DEF TypeOK
<1>3. \A d \in Client : Linked(d)' <=> Linked(d) /\ d # c
  BY <1>1, <1>2, NobodyIsNobody DEF Linked, QuietInv, PeersDistinct
<1>4. Connected' = Connected \ {c}
  BY <1>3, LinkedConnected
<1> QED BY <1>4, FollowsExit DEF Disconnect, Exit

LEMMA FollowsNotice ==
  ASSUME TypeOK, NEW c \in Client, NoticeClosed(c)
  PROVE  Follows
<1>1. c \notin Connected /\ Connected' = Connected
  BY LinkedConnected, SessionKept DEF NoticeClosed
<1> QED BY <1>1, FollowsExit DEF NoticeClosed, Exit

(* What is sent is due.                                                    *)
LEMMA DueGrows ==
  ASSUME TypeOK
  PROVE  /\ Due' = [d \in Client |-> Due'[d]]
         /\ \A d \in Client : \A m \in Message :
              chan'[d] = Append(chan[d], m) => Due'[d] = Due[d] \o <<Says(d, m)>>
         /\ \A d \in Client : chan'[d] = chan[d] => Due'[d] = Due[d] \o <<>>
<1>1. \A d \in Client : /\ Due[d] = NewsOf(d, chan[d]) /\ Due'[d] = NewsOf(d, chan'[d])
                        /\ chan[d] \in Seq(Message)
  BY DEF Due, TypeOK
<1>2. Due' = [d \in Client |-> Due'[d]]
  BY DEF Due
<1> QED BY <1>1, <1>2, NewsOfAppend, NewsOfWhole

LEMMA FollowsTell ==
  ASSUME TypeOK, NEW heard \in SUBSET Client, \A d \in heard : Linked(d),
         NEW m \in Message, m.rpc \in {"DOWNLOAD_START", "PLAYER_CHAT", "NAME_CHANGE"},
         \A d \in Client :
           chan'[d] = IF d \in heard THEN Append(chan[d], m) ELSE chan[d],
         Members' = Members, UNCHANGED <<peer, view>>
  PROVE  Follows
<1>1. \A d : <<Says(d, m)>> = Abstract!Other
  BY DEF Says, Came, Left, Abstract!Other
<1>2. ASSUME NEW d \in Client
      PROVE  Due'[d] = Due[d] \o IF d \in heard THEN Abstract!Other ELSE <<>>
  <2>1. CASE d \in heard
    <3>1. Due'[d] = Due[d] \o <<Says(d, m)>>
      BY <2>1, DueGrows
    <3> QED BY <1>1, <2>1, <3>1
  <2>2. CASE d \notin heard
    <3>1. Due'[d] = Due[d] \o <<>>
      BY <2>2, DueGrows
    <3> QED BY <2>2, <3>1
  <2> QED BY <2>1, <2>2
<1>3. Due' = [d \in Client |-> Due[d] \o IF d \in heard THEN Abstract!Other ELSE <<>>]
  BY <1>2, DueGrows
<1>4. heard \subseteq Connected
  BY LinkedConnected
<1>5. Abstract!Tell(heard)
  BY <1>3, <1>4, SessionKept DEF Abstract!Tell
<1> QED BY <1>5 DEF Follows, Abstract!Next

LEMMA FollowsInitialData ==
  ASSUME TypeOK, QuietInv, InitialData
  PROVE  Follows
<1> DEFINE k == Head(inbox).index
           c == Head(inbox).conn
           m == [rpc |-> "DOWNLOAD_START"]
<1>1. /\ inbox # <<>> /\ Head(inbox).rpc \in JoinRpc
      /\ UNCHANGED <<players, phase, view, self>>
  BY DEF InitialData, Receive, JoinRpc
<1>2. CASE CloseConnection(k, Tail(inbox)) /\ UNCHANGED chan
  BY <1>1, <1>2, FollowsRefuse
<1>3. CASE SendTo(k, <<m>>) /\ UNCHANGED peer
  <2>1. k \in Index /\ c \in Client /\ peer[k] = c
    BY <1>1, HeadJoins
  <2>2. m \in Message /\ m.rpc = "DOWNLOAD_START"
    BY DEF Message
  <2> HIDE DEF k, c, m
  <2>3. \A d \in Client : chan'[d] = IF d = c THEN chan[d] \o <<m>> ELSE chan[d]
    BY <1>3, <2>1 DEF SendTo
  <2>4. chan[c] \o <<m>> = Append(chan[c], m)
    BY <2>1, <2>2, OneAppended DEF TypeOK
  <2>5. \A d \in Client : chan'[d] = IF d \in {c} THEN Append(chan[d], m) ELSE chan[d]
    BY <2>3, <2>4
  <2>6. {c} \in SUBSET Client /\ \A d \in {c} : Linked(d)
    BY <2>1 DEF Linked
  <2> QED BY <1>1, <1>3, <2>2, <2>5, <2>6, SessionKept, FollowsTell
<1> QED BY <1>2, <1>3 DEF InitialData

LEMMA FollowsBroadcast ==
  ASSUME TypeOK, NEW except, NEW m \in Message, Broadcast(except, m),
         m.rpc \in {"PLAYER_CHAT", "NAME_CHANGE"}, Members' = Members, UNCHANGED <<peer, view>>
  PROVE  Follows
<1> DEFINE heard == {d \in Client : \E k \in Index \ {except} : peer[k] = d}
<1>1. \A d \in heard : Linked(d)
  BY DEF Linked
<1>2. \A d \in Client : chan'[d] = IF d \in heard THEN Append(chan[d], m) ELSE chan[d]
  BY DEF Broadcast
<1>3. heard \in SUBSET Client
  OBVIOUS
<1> HIDE DEF heard
<1> QED BY <1>1, <1>2, <1>3, FollowsTell

LEMMA FollowsChat ==
  ASSUME TypeOK, PlayerChat
  PROVE  Follows
<1> DEFINE p == Head(inbox)
           m == [rpc |-> "PLAYER_CHAT", id |-> p.index,
                 player |-> [name |-> p.name, conn |-> p.conn]]
<1>1. inbox # <<>> /\ UNCHANGED <<peer, players, view>>
  BY DEF PlayerChat, Receive
<1>2. m \in Message /\ m.rpc = "PLAYER_CHAT"
  BY <1>1, ReceivedTyped, SlotsAreNat DEF Message, Player, Index
<1>3. UNCHANGED chan \/ Broadcast(InvalidId, m)
  BY DEF PlayerChat
<1> HIDE DEF m, p
<1> QED BY <1>1, <1>2, <1>3, SessionKept, Nothing, FollowsBroadcast

LEMMA FollowsChangeName ==
  ASSUME TypeOK, TypeOK', PlayerChangeName
  PROVE  Follows
<1> DEFINE p == Head(inbox)
           k == p.index
           m == [rpc |-> "NAME_CHANGE", id |-> k,
                 player |-> [name |-> p.name, conn |-> p.conn]]
<1>1. /\ inbox # <<>> /\ UNCHANGED <<peer, view>>
      /\ k \in Slot /\ p.name \in Name
  BY ReceivedTyped DEF PlayerChangeName, Receive, Index
<1>2. m \in Message /\ m.rpc = "NAME_CHANGE"
  BY <1>1, ReceivedTyped, SlotsAreNat DEF Message, Player, Index
<1>3. \/ UNCHANGED <<players, chan>>
      \/ /\ Table!Exists(players, k) /\ Broadcast(k, m)
         /\ players' = [players EXCEPT ![k].name = p.name]
  BY DEF PlayerChangeName
<1>4. players[k] # NoPlayer /\ players' = [players EXCEPT ![k].name = p.name] =>
        \A t \in Slot : SeatOf(t)' = SeatOf(t)
  BY <1>1, Renamed DEF SeatOf
<1> HIDE DEF m, k, p
<1>5. CASE UNCHANGED <<players, chan>>
  BY <1>1, <1>5, Nothing
<1>6. CASE /\ Table!Exists(players, k) /\ Broadcast(k, m)
           /\ players' = [players EXCEPT ![k].name = p.name]
  <2>1. \A t \in Slot : SeatOf(t)' = SeatOf(t)
    BY <1>4, <1>6 DEF Table!Exists
  <2>2. Members' = Members
    BY <2>1, SeatedMembers
  <2> QED BY <1>1, <1>2, <1>6, <2>2, FollowsBroadcast
<1> QED BY <1>3, <1>5, <1>6

LEMMA FollowsLetIn ==
  ASSUME TypeOK, TypeOK', Views, NEW k \in Slot, NEW c \in Client, NEW j \in Player,
         LetIn(k, c, j)
  PROVE  Follows
<1> DEFINE m == [rpc |-> "NEW_PLAYER", id |-> k, player |-> j]
           i == [rpc |-> "INITIAL_DATA", id |-> k]
           l == [rpc |-> "GET_PLAYERS", roster |-> players]
           q == chan[c]
<1>1. /\ j.conn = c /\ peer[k] = c /\ players[k] = NoPlayer /\ Index = Slot
      /\ \A s \in Slot : players[s] # NoPlayer => players[s].conn # c
      /\ \A s \in Slot : players'[s] = IF s = k THEN j ELSE players[s]
      /\ chan'[c] = chan[c] \o JoinMessages(k, j, c)
      /\ UNCHANGED <<peer, phase, view>>
  BY DEF LetIn, Index
<1>2. \A s \in Slot : SeatOf(s)' = IF s = k THEN c ELSE SeatOf(s)
  BY <1>1, NobodyIsNobody DEF SeatOf
<1>3. /\ c \in Connected \ Members /\ Members' = Members \cup {c}
      /\ Connected' = Connected /\ Shown' = Shown
  <2>1. \A s \in Slot : SeatOf(s) # c
    BY <1>1, NobodyIsNobody DEF SeatOf
  <2>2. SeatOf(k) = NoClient
    BY <1>1 DEF SeatOf
  <2>3. c \in Connected /\ c \notin Members
    BY <1>1, <2>1, SeatedMembers, LinkedConnected DEF Linked
  <2>4. \A x : x \in Members' <=> x \in Members \/ x = c
    BY <1>2, <2>2, SeatedMembers, NobodyIsNobody
  <2> QED BY <1>1, <2>3, <2>4, SessionKept
<1>4. Shown[c] = {}
  <2>1. ViewOk(c) /\ Linked(c)
    BY <1>1 DEF Views, Linked
  <2>2. \A s \in Slot : ~ Member(s, c)
    BY <1>1, NobodyIsNobody DEF Member, SeatOf
  <2>3. \A s \in Slot : view[c][s] # Local
    BY <2>1, <2>2 DEF ViewOk, InStep, OwnSlotGiven, Given
  <2>4. \A s \in Slot : view[c][s] = NoPlayer
    BY <2>1, <2>3 DEF ViewOk, Sane
  <2>5. ShownBy(c, view[c]) = {}
    BY <2>4 DEF ShownBy, Table!Occupied, Slot
  <2> QED BY <2>5 DEF Shown
<1>5. /\ players = [players EXCEPT ![k] = NoPlayer]
      /\ players = Table!EmptyTable <=> Members = {}
  <2>1. players \in Roster /\ players \in [Slot -> Player \cup {NoPlayer}]
    BY DEF TypeOK, Roster
  <2>2. players = [players EXCEPT ![k] = NoPlayer]
    BY <1>1, <2>1
  <2>3. players = Table!EmptyTable <=> \A s \in Slot : players[s] = NoPlayer
    BY <2>1 DEF Table!EmptyTable, Slot
  <2>4. Members = {} <=> \A s \in Slot : players[s] = NoPlayer
    BY <2>1, InTableFacts, PlayersTyped, PlayerFields DEF Members
  <2> QED BY <2>2, <2>3, <2>4
<1>6. Due'[c] = (Due[c] \o Abstract!Came({c})) \o
                  IF Members = {} THEN <<>> ELSE Abstract!Came(Members)
  <2>1. q \in Seq(Message)
    BY DEF TypeOK
  <2>2. /\ i \in Message /\ l \in Message
        /\ q \o JoinMessages(k, j, c) =
             IF players = Table!EmptyTable THEN Append(q, i) ELSE Append(Append(q, i), l)
    <3> DEFINE others == [players EXCEPT ![k] = NoPlayer]
               g == [rpc |-> "GET_PLAYERS", roster |-> others]
    <3>1. others = players /\ g = l
      BY <1>5
    <3>2. /\ i \in Message /\ g \in Message
          /\ q \o JoinMessages(k, j, c) =
               IF others = Table!EmptyTable THEN Append(q, i) ELSE Append(Append(q, i), g)
      <4> HIDE DEF q
      <4> QED BY <1>1, <2>1, JoinQueue
    <3> HIDE DEF q, i, l, g, others
    <3> QED BY <3>1, <3>2
  <2>3. <<Says(c, i)>> = Abstract!Came({c}) /\ <<Says(c, l)>> = Abstract!Came(Members)
    BY DEF Says, Came, Left, Abstract!Came, Members
  <2> HIDE DEF i, l
  <2>4. Append(q, i) \in Seq(Message)
    BY <2>1, <2>2, AppendFacts
  <2>5. /\ NewsOf(c, Append(q, i)) = Due[c] \o <<Says(c, i)>>
        /\ NewsOf(c, Append(q, i)) \o <<>> = NewsOf(c, Append(q, i))
        /\ NewsOf(c, Append(Append(q, i), l)) = NewsOf(c, Append(q, i)) \o <<Says(c, l)>>
    BY <2>1, <2>2, <2>4, NewsOfAppend, NewsOfWhole DEF Due
  <2>6. Due'[c] = NewsOf(c, chan'[c])
    BY DEF Due
  <2>7. CASE Members = {}
    <3>1. chan'[c] = Append(q, i)
      BY <1>1, <1>5, <2>2, <2>7
    <3>2. Due'[c] = (Due[c] \o <<Says(c, i)>>) \o <<>>
      BY <2>5, <2>6, <3>1
    <3> QED BY <2>3, <2>7, <3>2
  <2>8. CASE Members # {}
    <3>1. chan'[c] = Append(Append(q, i), l)
      BY <1>1, <1>5, <2>2, <2>8
    <3>2. Due'[c] = (Due[c] \o <<Says(c, i)>>) \o <<Says(c, l)>>
      BY <2>5, <2>6, <3>1
    <3> QED BY <2>3, <2>8, <3>2
  <2> QED BY <2>7, <2>8
<1>7. ASSUME NEW d \in Client, d # c
      PROVE  Due'[d] = Due[d] \o IF d \in Connected \cap Members THEN Abstract!Came({c})
                                ELSE <<>>
  <2>1. m \in Message /\ <<Says(d, m)>> = Abstract!Came({c})
    BY <1>1, SlotsAreNat DEF Message, Says, Came, Left, Abstract!Came
  <2>2. CASE Linked(d)
    <3>1. chan'[d] = Append(chan[d], m) /\ \E s \in Slot : Member(s, d)
      BY <1>7, <2>2 DEF LetIn
    <3>2. d \in Connected \cap Members
      BY <2>2, <3>1, SeatedMembers, LinkedConnected DEF Member
    <3> HIDE DEF m
    <3>3. Due'[d] = Due[d] \o <<Says(d, m)>>
      BY <2>1, <3>1, DueGrows
    <3> QED BY <2>1, <3>2, <3>3
  <2>3. CASE ~ Linked(d)
    <3>1. chan'[d] = chan[d] /\ d \notin Connected
      BY <1>7, <2>3, LinkedConnected DEF LetIn
    <3>2. Due'[d] = Due[d] \o <<>>
      BY <3>1, DueGrows
    <3> QED BY <3>1, <3>2
  <2> QED BY <2>2, <2>3
<1>8. Due' = [d \in Client |->
        IF d = c THEN (Due[c] \o Abstract!Came({c})) \o
                        IF Members = {} THEN <<>> ELSE Abstract!Came(Members)
        ELSE Due[d] \o IF d \in Connected \cap Members THEN Abstract!Came({c}) ELSE <<>>]
  BY <1>6, <1>7, DueGrows
<1>9. Abstract!Enter(c)
  BY <1>3, <1>4, <1>8 DEF Abstract!Enter
<1> QED BY <1>9 DEF Follows, Abstract!Next

LEMMA FollowsDownloadFinished ==
  ASSUME TypeOK, TypeOK', QuietInv, Views, DownloadFinished
  PROVE  Follows
BY DownloadFinishedStep, FollowsRefuse, FollowsLetIn

LEMMA FollowsLeft ==
  ASSUME TypeOK, TypeOK', QuietInv, NewsInv, PlayerLeft
  PROVE  Follows
<1> DEFINE gone == Head(inbox)
<1>1. PICK k \in Index, c \in Client : k = gone.index /\ c = gone.conn
  BY ReceivedTyped DEF PlayerLeft, Receive
<1>2. /\ \A i \in Index : peer[i] # c
      /\ players[k] # NoPlayer => players[k].conn = c
      /\ \A s \in Slot : players'[s] = IF s = k THEN NoPlayer ELSE players[s]
  BY <1>1, SeatCleared
<1>3. UNCHANGED <<peer, phase, view>> /\ Index = Slot
  BY DEF PlayerLeft, Index
<1> DEFINE m == [rpc |-> "DELETE_PLAYER", id |-> k, conn |-> players[k].conn]
<1>4. CASE UNCHANGED <<chan, players>>
  BY <1>3, <1>4, Nothing
<1>5. CASE Table!Exists(players, k) /\ Broadcast(InvalidId, m)
  <2>1. players[k] # NoPlayer /\ players[k].conn = c /\ SeatOf(k) = c
    BY <1>2, <1>5 DEF Table!Exists, SeatOf
  <2>2. m \in Message /\ \A d : <<Says(d, m)>> = Abstract!Left({c})
    BY <1>3, <2>1, SlotsAreNat DEF Message, Says, Came, Left, Abstract!Left
  <2>3. \A s \in Slot : SeatOf(s) = c => s = k
    BY <1>3, <2>1 DEF NewsInv, NewsOk, OneSeat, Place, Seated
  <2>4. \A s \in Slot : SeatOf(s)' = IF s = k THEN NoClient ELSE SeatOf(s)
    BY <1>2 DEF SeatOf
  <2>5. /\ c \in Members \ Connected /\ Members' = Members \ {c}
        /\ Connected' = Connected /\ Shown' = Shown
    <3>1. c \in Members /\ c \notin Connected
      BY <1>2, <1>3, <2>1, SeatedMembers, LinkedConnected DEF Linked
    <3>2. \A x : x \in Members' <=> x \in Members /\ x # c
      BY <1>3, <2>1, <2>3, <2>4, SeatedMembers, NobodyIsNobody
    <3> QED BY <1>3, <3>1, <3>2, SessionKept
  <2> HIDE DEF m
  <2>6. ASSUME NEW d \in Client
        PROVE  Due'[d] = Due[d] \o IF d \in Connected THEN Abstract!Left({c}) ELSE <<>>
    <3>1. CASE Linked(d) /\ chan'[d] = Append(chan[d], m)
      <4>1. Due'[d] = Due[d] \o <<Says(d, m)>> /\ d \in Connected
        BY <2>2, <3>1, DueGrows, LinkedConnected
      <4> QED BY <2>2, <4>1
    <3>2. CASE chan'[d] = chan[d] /\ \A i \in Index : peer[i] = d => i = InvalidId
      <4>1. Due'[d] = Due[d] \o <<>> /\ d \notin Connected
        BY <1>3, <3>2, DueGrows, LinkedConnected, SlotsAreNat DEF Linked
      <4> QED BY <4>1
    <3>3. \/ Linked(d) /\ chan'[d] = Append(chan[d], m)
          \/ chan'[d] = chan[d] /\ \A i \in Index : peer[i] = d => i = InvalidId
      BY <1>5, <2>2, Heard
    <3> QED BY <3>1, <3>2, <3>3
  <2>7. Due' = [d \in Client |->
                  Due[d] \o IF d \in Connected THEN Abstract!Left({c}) ELSE <<>>]
    BY <2>6, DueGrows
  <2>8. Abstract!Remove(c)
    BY <2>5, <2>7 DEF Abstract!Remove
  <2> QED BY <2>8 DEF Follows, Abstract!Next
<1> QED BY <1>1, <1>4, <1>5 DEF PlayerLeft

LEMMA FollowsDeliver ==
  ASSUME TypeOK, TypeOK', Views, NewsInv, NEW c \in Client, Deliver(c)
  PROVE  Follows
<1> DEFINE q == chan[c]
           v == view[c]
           w == view'[c]
<1>1. Sane(q, v, self[c]) /\ NewsOk(c)
  BY DEF Views, ViewOk, NewsInv
<1>2. /\ q \in Seq(Message) /\ q # <<>> /\ UNCHANGED <<peer, players>>
      /\ \A d \in Client : chan'[d] = IF d = c THEN Tail(q) ELSE chan[d]
      /\ Handled(c, Head(q), v, w)
      /\ \A d \in Client \ {c} : view'[d] = view[d]
  BY <1>1, DeliverHandles
<1>3. v \in View /\ w \in View
  BY DEF TypeOK, View
<1>4. TurnsTaken(c, q, v) /\ \A x \in Client : \A s, t \in Slot :
        Mentions(c, q, v, s, x) /\ Mentions(c, q, v, t, x) => s = t
  BY <1>1 DEF NewsOk, OneSeat, Place
<1> DEFINE m == Head(q)
<1>5. m \in Message /\ (m.rpc \in {"DOWNLOAD_START", "GET_PLAYERS"} \/ m.id \in Slot)
  <2>1. 1 \in DOMAIN q /\ m = q[1] /\ m \in Message
    BY <1>2, TailFacts
  <2> HIDE DEF q, v, m
  <2> QED BY <1>1, <2>1 DEF Sane
<1> HIDE DEF q, v, w, m
<1>6. ShownBy(c, w) = (ShownBy(c, v) \cup Came(c, m)) \ Left(m)
  BY <1>1, <1>2, <1>3, <1>4, ShowsNews DEF m
<1>7. Says(c, m).came = Came(c, m) /\ Says(c, m).left = Left(m)
  BY <1>5, SaysFacts
<1>8. /\ Due[c] # <<>> /\ Head(Due[c]) = Says(c, m)
      /\ Tail(Due[c]) = NewsOf(c, Tail(q))
  <2>1. Due[c] = NewsOf(c, q)
    BY DEF Due, q
  <2> QED BY <1>2, <2>1, NewsOfTail DEF m
<1>9. Shown' = [Shown EXCEPT ![c] = (Shown[c] \cup Says(c, m).came) \ Says(c, m).left]
  BY <1>2, <1>6, <1>7 DEF Shown, v, w
<1>10. Due' = [Due EXCEPT ![c] = Tail(Due[c])]
  BY <1>2, <1>8 DEF Due
<1>11. Abstract!Show(c)
  BY <1>2, <1>8, <1>9, <1>10, SessionKept DEF Abstract!Show
<1> QED BY <1>11 DEF Follows, Abstract!Next

LEMMA FollowsNext ==
  ASSUME TypeOK, TypeOK', QuietInv, Views, NewsInv, [Next]_vars
  PROVE  Follows
<1>1. CASE ServerStep
  BY <1>1, FollowsInitialData, FollowsDownloadFinished, FollowsLeft,
     FollowsChat, FollowsChangeName DEF ServerStep
<1>2. CASE \E s \in Slot : Kick(s)
  BY <1>2, FollowsKick
<1>3. CASE \E c \in Client : ClientStep(c)
  <2>1. PICK c \in Client : ClientStep(c)
    BY <1>3
  <2>2. CASE Chat(c) \/ \E name \in Name : ChangeNick(c, name)
    <3>1. UNCHANGED <<peer, players, chan, view>>
      BY <2>2 DEF Chat, ChangeNick
    <3> QED BY <3>1, Nothing
  <2> QED BY <2>1, <2>2, FollowsConnect, FollowsDisconnect, FollowsNotice, FollowsDeliver
          DEF ClientStep
<1>4. CASE UNCHANGED vars
  BY <1>4, Nothing DEF vars
<1> QED BY <1>1, <1>2, <1>3, <1>4 DEF Next

LEMMA StartsEmpty == Init => Abstract!Init
<1> SUFFICES ASSUME Init PROVE Abstract!Init
  OBVIOUS
<1>1. players = Table!EmptyTable /\ \A k \in Index : peer[k] = NoClient
  BY DEF Init
<1>2. InTable(Table!EmptyTable) = {} /\ \A c : ShownBy(c, Table!EmptyTable) = {}
  BY DEF InTable, ShownBy, Table!Occupied, Table!EmptyTable
<1>3. Members = {} /\ Connected = {}
  BY <1>1, <1>2, NobodyIsNobody DEF Members, Connected, Linked
<1>4. Shown = [c \in Client |-> {}] /\ Due = [c \in Client |-> <<>>]
  BY <1>2, NewsOfNone DEF Init, Shown, Due
<1> QED BY <1>3, <1>4 DEF Abstract!Init

(* Under the same condition nobody has two places: the slot the server     *)
(* gives a client in DownloadFinished (CNetworkRPC.cpp) or still holds its *)
(* connection in, the slots the RPCs on their way to any client name for   *)
(* it, and the slot it is shown in are one and the same, from its join to  *)
(* the end of its departure.  And each client hears of a slot's players in *)
(* turn: a slot is free, as its news have it, when NEW_PLAYER, GET_PLAYERS *)
(* or INITIAL_DATA fills it, and DELETE_PLAYER takes out who was there.    *)
THEOREM NewsInvariant ==
  ASSUME Quiet
  PROVE  Spec => []NewsInv
<1>1. TypeOK /\ QuietInv /\ ViewInv /\ NewsInv /\ [Next]_vars => NewsInv'
  BY NewsNext DEF ViewInv
<1> QED BY <1>1, NewsInit, ViewInvariant, PTL DEF Spec

(* Under the same condition the session implements Membership: whatever    *)
(* the table's slots, the index RakNet finds a connection in and the order *)
(* of the packets, a client that DownloadFinished (CNetworkRPC.cpp) lets   *)
(* in is shown itself, the members of that moment, and then each later     *)
(* NEW_PLAYER and DELETE_PLAYER once and in order; only who has lost its   *)
(* connection is taken out (UpdateNetwork, CNetworkModule.cpp).            *)
THEOREM QuietImplementsMembership ==
  ASSUME Quiet
  PROVE  Spec => ImplementsMembership
<1>1. /\ TypeOK /\ TypeOK' /\ QuietInv /\ ViewInv /\ NewsInv /\ [Next]_vars
      => [Abstract!Next]_(Abstract!vars)
  BY FollowsNext DEF ViewInv, Follows
<1> QED BY <1>1, StartsEmpty, ViewInvariant, NewsInvariant, PTL
        DEF Spec, ImplementsMembership, Abstract!Spec
=============================================================================
