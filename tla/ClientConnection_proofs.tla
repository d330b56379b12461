----------------------- MODULE ClientConnection_proofs -----------------------
(***************************************************************************)
(* Proofs about ClientConnection: that the game thread always polls a link *)
(* RakNet holds, and that it never receives an event of a connection       *)
(* before the present one, that its table follows the server, and how it   *)
(* may come to wait for nothing, whatever the order in which the two       *)
(* threads and the menu act.                                               *)
(***************************************************************************)
EXTENDS ClientConnection, TLAPS

(* The events after which RakNet on this side holds no link.               *)
Ending == Refusal \cup {"CLOSED", "LOST"}

Kind == LinkEvent \cup {"INITIAL_DATA", "NEW_PLAYER", "DELETE_PLAYER"}

(* The queue is drained before the game thread leaves the loop, and        *)
(* nothing arrives when there is no link.                                  *)
DrainedWhenDown == ~ pulsing /\ ~ IsConnected => queue = <<>>

(* An event that ends a link is queued only while there is none.           *)
EndingMeansIdle ==
  \A i \in DOMAIN queue : queue[i].kind \in Ending => link = "idle"

LinkInv ==
  TypeOK /\ LinkIsPolled /\ DrainedWhenDown /\ EndingMeansIdle /\ QueueIsCurrent
-----------------------------------------------------------------------------
LEMMA Bounds == 0 \in 0 .. RetryTicks /\ MaxQueue \in Nat /\ 0 <= MaxQueue
BY ConnectionAssumption DEF ConnectionAssumption

LEMMA EmptyAged ==
  ASSUME Kept = <<>>
  PROVE  [i \in DOMAIN Kept |-> [Kept[i] EXCEPT !.of = Aged(@)]] = <<>>
<1>1. DOMAIN <<>> = {}
  OBVIOUS
<1>2. \A f : (f = [i \in {} |-> f[i]]) => f = <<>>
  OBVIOUS
<1> QED BY <1>1, <1>2

(* Between two pulses the queue a closed link leaves behind is empty.      *)
LEMMA NothingKept ==
  ASSUME LinkInv, ~ pulsing
  PROVE  Kept = <<>>
BY DEF LinkInv, DrainedWhenDown, Kept

(* An attempt starts with an empty queue, from an idle link.               *)
LEMMA AttemptStartsClean ==
  ASSUME LinkInv, ~ pulsing, NEW started \in BOOLEAN, Attempt(started)
  PROVE  /\ queue' = <<>>
         /\ link' = IF started THEN "trying" ELSE "idle"
         /\ known' \in BOOLEAN
         /\ roster' \in [Slot -> {Empty, Local, Current}]
         /\ table' \in [Slot -> {Empty, Local, Current, Former}]
<1>1. queue' = <<>>
  BY NothingKept, EmptyAged DEF Attempt
<1>2. link' = IF started THEN "trying" ELSE "idle"
  BY DEF Attempt, LinkInv, LinkIsPolled
<1>3. known' \in BOOLEAN /\ roster' \in [Slot -> {Empty, Local, Current}]
  BY DEF Attempt, LinkInv, TypeOK, EmptyTable
<1>4. table' \in [Slot -> {Empty, Local, Current, Former}]
  BY DEF Attempt, LinkInv, TypeOK, Aged
<1> QED BY <1>1, <1>2, <1>3, <1>4

(* What RakNet queues is well formed, comes last, and leaves the game      *)
(* thread's variables alone.                                               *)
LEMMA PostAppends ==
  ASSUME LinkInv, NEW kind \in Kind, NEW id \in Slot, Post(kind, id)
  PROVE  /\ queue' \in Seq(Event) /\ Len(queue') <= MaxQueue
         /\ queue' # <<>>
         /\ \A i \in DOMAIN queue' :
              \/ i \in DOMAIN queue /\ queue'[i] = queue[i]
              \/ queue'[i].kind = kind /\ queue'[i].of = Current
<1> DEFINE e == [kind |-> kind, id |-> id, of |-> Current]
<1>1. e \in Event /\ e.kind = kind /\ e.of = Current
  BY DEF Event, Kind
<1>2. queue \in Seq(Event) /\ queue' = Append(queue, e) /\ Len(queue) < MaxQueue
  BY DEF Post, LinkInv, TypeOK
<1> HIDE DEF e
<1>3. queue' \in Seq(Event) /\ Len(queue') = Len(queue) + 1
  BY <1>1, <1>2
<1>4. Len(queue') <= MaxQueue /\ queue' # <<>>
  <2>1. Len(queue) \in Nat /\ MaxQueue \in Nat
    BY <1>2, Bounds
  <2>2. Len(queue') # 0
    BY <2>1, <1>3
  <2> QED BY <2>1, <2>2, <1>2, <1>3
<1>5. ASSUME NEW i \in DOMAIN queue'
      PROVE  \/ i \in DOMAIN queue /\ queue'[i] = queue[i]
             \/ queue'[i] = e
  BY <1>1, <1>2
<1>6. \A i \in DOMAIN queue' :
        \/ i \in DOMAIN queue /\ queue'[i] = queue[i]
        \/ queue'[i].kind = kind /\ queue'[i].of = Current
  BY <1>1, <1>5
<1> QED BY <1>3, <1>4, <1>6

(* What is left after one event is received was there before.              *)
LEMMA TailKeeps ==
  ASSUME LinkInv, queue # <<>>, queue' = Tail(queue)
  PROVE  /\ Head(queue) \in Event
         /\ queue' \in Seq(Event) /\ Len(queue') <= MaxQueue
         /\ \A i \in DOMAIN queue' : i + 1 \in DOMAIN queue /\ queue'[i] = queue[i + 1]
         /\ 1 \in DOMAIN queue /\ Head(queue) = queue[1]
<1>1. queue \in Seq(Event) /\ Len(queue) <= MaxQueue /\ MaxQueue \in Nat
  BY Bounds DEF LinkInv, TypeOK
<1>2. Len(queue) \in Nat \ {0} /\ DOMAIN queue = 1 .. Len(queue)
  BY <1>1
<1>3. Head(queue) = queue[1] /\ queue[1] \in Event
  BY <1>1, <1>2
<1>4. queue' \in Seq(Event) /\ Len(queue') = Len(queue) - 1
  BY <1>1, <1>2
<1>5. \A i \in DOMAIN queue' : i + 1 \in DOMAIN queue /\ queue'[i] = queue[i + 1]
  BY <1>1, <1>2, <1>4
<1> QED BY <1>1, <1>2, <1>3, <1>4, <1>5
-----------------------------------------------------------------------------
(* Each action of the game thread and of the menu keeps the invariant.     *)

LEMMA InitLink == Init => LinkInv
<1> SUFFICES ASSUME Init PROVE LinkInv
  OBVIOUS
<1>1. queue = <<>> /\ DOMAIN queue = {} /\ queue \in Seq(Event) /\ Len(queue) = 0
  BY DEF Init
<1>2. TypeOK
  <2>1. UnsetId \in Slot \cup {UnsetId} /\ EmptyTable \in [Slot -> {Empty}]
    BY DEF EmptyTable
  <2>2. Len(queue) <= MaxQueue
    BY <1>1, Bounds
  <2> QED BY <1>1, <2>1, <2>2, Bounds DEF Init, TypeOK
<1> QED BY <1>1, <1>2
      DEF Init, LinkInv, LinkIsPolled, DrainedWhenDown, EndingMeansIdle,
          QueueIsCurrent

LEMMA MenuDisconnectLink == LinkInv /\ MenuDisconnect => LinkInv'
<1> SUFFICES ASSUME LinkInv, MenuDisconnect PROVE LinkInv'
  OBVIOUS
<1>1. queue' = <<>> /\ link' = "idle"
  BY NothingKept DEF MenuDisconnect
<1>2. DOMAIN queue' = {} /\ queue' \in Seq(Event) /\ Len(queue') = 0
  BY <1>1
<1>3. TypeOK'
  <2>1. Len(queue') <= MaxQueue
    BY <1>2, Bounds
  <2>2. known' \in BOOLEAN /\ roster' \in [Slot -> {Empty, Local, Current}]
    BY DEF LinkInv, TypeOK, MenuDisconnect, EmptyTable
  <2> QED BY <1>1, <1>2, <2>1, <2>2 DEF LinkInv, TypeOK, MenuDisconnect
<1> QED BY <1>1, <1>2, <1>3
      DEF LinkInv, LinkIsPolled, DrainedWhenDown, EndingMeansIdle, QueueIsCurrent

LEMMA AttemptLink ==
  ASSUME LinkInv, ~ pulsing, NEW started \in BOOLEAN, Attempt(started),
         started => state' = "CONNECTING",
         state' \in {"CONNECTING", "DISCONNECTED"},
         pulsing' \in BOOLEAN, waited' \in 0 .. RetryTicks,
         UNCHANGED <<self, freed>>
  PROVE  LinkInv'
<1>1. /\ queue' = <<>> /\ link' = IF started THEN "trying" ELSE "idle"
      /\ known' \in BOOLEAN
      /\ roster' \in [Slot -> {Empty, Local, Current}]
      /\ table' \in [Slot -> {Empty, Local, Current, Former}]
  BY AttemptStartsClean
<1>2. DOMAIN queue' = {} /\ queue' \in Seq(Event) /\ Len(queue') = 0
  BY <1>1
<1>3. TypeOK'
  <2>1. Len(queue') <= MaxQueue
    BY <1>2, Bounds
  <2>2. self' \in Slot \cup {UnsetId} /\ freed' \in BOOLEAN
    BY DEF LinkInv, TypeOK
  <2>3. link' \in {"idle", "trying", "up"}
    BY <1>1
  <2> QED BY <1>1, <1>2, <2>1, <2>2, <2>3 DEF TypeOK
<1> QED BY <1>1, <1>2, <1>3
      DEF LinkInv, LinkIsPolled, IsConnected, DrainedWhenDown, EndingMeansIdle,
          QueueIsCurrent

LEMMA MenuConnectLink == LinkInv /\ MenuConnect => LinkInv'
<1> SUFFICES ASSUME LinkInv, MenuConnect PROVE LinkInv'
  OBVIOUS
<1>1. waited' \in 0 .. RetryTicks /\ pulsing' \in BOOLEAN
  BY Bounds DEF MenuConnect, LinkInv, TypeOK
<1>2. CASE Attempt(TRUE) /\ state' = "CONNECTING"
  BY <1>1, <1>2, AttemptLink DEF MenuConnect
<1>3. CASE Attempt(FALSE) /\ state' = "DISCONNECTED"
  BY <1>1, <1>3, AttemptLink DEF MenuConnect
<1> QED BY <1>2, <1>3 DEF MenuConnect

(* What the game thread does without a look at RakNet.                     *)
LEMMA GameOnlyLink ==
  ASSUME LinkInv, UNCHANGED <<state, table, self, freed, rakVars>>,
         waited' \in 0 .. RetryTicks, pulsing' \in BOOLEAN,
         pulsing' = FALSE => pulsing = FALSE \/ queue = <<>>
  PROVE  LinkInv'
<1>1. /\ state' = state /\ table' = table /\ self' = self /\ freed' = freed
      /\ link' = link /\ queue' = queue /\ known' = known /\ roster' = roster
  BY DEF rakVars
<1>2. TypeOK'
  BY <1>1 DEF LinkInv, TypeOK
<1>3. LinkIsPolled' /\ EndingMeansIdle' /\ QueueIsCurrent'
  BY <1>1 DEF LinkInv, LinkIsPolled, IsConnected, EndingMeansIdle, QueueIsCurrent
<1>4. DrainedWhenDown'
  BY <1>1 DEF LinkInv, DrainedWhenDown, IsConnected
<1> QED BY <1>2, <1>3, <1>4 DEF LinkInv

LEMMA PulseLink == LinkInv /\ Pulse => LinkInv'
<1> SUFFICES ASSUME LinkInv, Pulse PROVE LinkInv'
  OBVIOUS
<1>1. ASSUME NEW started \in BOOLEAN, Attempt(started), state' = "CONNECTING",
             waited' = 0
      PROVE  LinkInv'
  <2>1. waited' \in 0 .. RetryTicks
    BY <1>1, Bounds
  <2>2. ~ pulsing /\ pulsing' \in BOOLEAN /\ UNCHANGED <<self, freed>>
    BY DEF Pulse
  <2> QED BY <1>1, <2>1, <2>2, AttemptLink
<1>2. CASE UNCHANGED <<state, waited, table, rakVars>>
  <2>1. waited' \in 0 .. RetryTicks
    BY <1>2 DEF LinkInv, TypeOK
  <2>2. pulsing' = TRUE /\ UNCHANGED <<state, table, self, freed, rakVars>>
    BY <1>2 DEF Pulse
  <2> QED BY <2>1, <2>2, GameOnlyLink
<1>3. \/ \E started \in BOOLEAN :
           Attempt(started) /\ state' = "CONNECTING" /\ waited' = 0
      \/ UNCHANGED <<state, waited, table, rakVars>>
  BY DEF Pulse
<1> QED BY <1>1, <1>2, <1>3

LEMMA EndPulseLink == LinkInv /\ EndPulse => LinkInv'
<1> SUFFICES ASSUME LinkInv, EndPulse PROVE LinkInv'
  OBVIOUS
<1>1. waited' \in 0 .. RetryTicks
  BY DEF EndPulse, LinkInv, TypeOK
<1>2. queue = <<>> /\ pulsing' = FALSE /\ UNCHANGED <<state, table, self, freed, rakVars>>
  BY DEF EndPulse
<1> QED BY <1>1, <1>2, GameOnlyLink

LEMMA TickBound ==
  ASSUME NEW n \in 0 .. RetryTicks, n < RetryTicks
  PROVE  n + 1 \in 0 .. RetryTicks
<1>1. RetryTicks \in Nat
  BY ConnectionAssumption DEF ConnectionAssumption
<1> QED BY <1>1

LEMMA TickLink == LinkInv /\ Tick => LinkInv'
<1> SUFFICES ASSUME LinkInv, Tick PROVE LinkInv'
  OBVIOUS
<1>1. waited' \in 0 .. RetryTicks
  BY TickBound DEF Tick, LinkInv, TypeOK
<1>2. pulsing' = pulsing /\ pulsing \in BOOLEAN
      /\ UNCHANGED <<state, table, self, freed, rakVars>>
  BY DEF Tick, LinkInv, TypeOK
<1> QED BY <1>1, <1>2, GameOnlyLink

(* Only an event that ended the link takes the game thread off the link.   *)
LEMMA ReceiveLink == LinkInv /\ Receive => LinkInv'
<1> SUFFICES ASSUME LinkInv, Receive PROVE LinkInv'
  OBVIOUS
<1> DEFINE e == Head(queue)
<1>1. queue # <<>> /\ queue' = Tail(queue) /\ pulsing /\ pulsing'
      /\ link' = link /\ known' = known /\ roster' = roster
  BY DEF Receive, LinkInv, TypeOK
<1>2. /\ e \in Event /\ queue' \in Seq(Event) /\ Len(queue') <= MaxQueue
      /\ \A i \in DOMAIN queue' : i + 1 \in DOMAIN queue /\ queue'[i] = queue[i + 1]
      /\ 1 \in DOMAIN queue /\ e = queue[1]
  BY <1>1, TailKeeps
<1>3. e.kind \in Kind /\ e.id \in Slot /\ e.of \in {Current, Former}
  BY <1>2 DEF Event, Kind
<1>4. e.kind \in Ending => link = "idle"
  BY <1>2 DEF LinkInv, EndingMeansIdle
<1> HIDE DEF e
<1>5. ASSUME NEW what \in {Empty, Current, Former}, Replace(e.id, what)
      PROVE  table' \in [Slot -> {Empty, Local, Current, Former}]
             /\ freed' \in BOOLEAN
  BY <1>3, <1>5 DEF Replace, LinkInv, TypeOK
<1>6. /\ table' \in [Slot -> {Empty, Local, Current, Former}]
      /\ freed' \in BOOLEAN /\ waited' \in 0 .. RetryTicks
      /\ self' \in Slot \cup {UnsetId}
      /\ state' \in {"NONE", "CONNECTING", "CONNECTED", "DISCONNECTED", "TIMEOUT"}
      /\ (link # "idle" => state' \in {"CONNECTED", "CONNECTING"})
  <2>1. CASE OnLink(e.kind) /\ UNCHANGED self
    <3>1. /\ waited' = 0 \/ waited' = waited
          /\ self' \in Slot \cup {UnsetId}
          /\ state' \in {"NONE", "CONNECTING", "CONNECTED", "DISCONNECTED", "TIMEOUT"}
      BY <2>1 DEF OnLink, LinkInv, TypeOK
    <3>2. /\ table' \in [Slot -> {Empty, Local, Current, Former}]
          /\ freed' \in BOOLEAN
      BY <2>1 DEF OnLink, Reset, EmptyTable, LinkInv, TypeOK
    <3>3. link # "idle" => state' \in {"CONNECTED", "CONNECTING"}
      BY <1>4, <2>1 DEF OnLink, Ending, Refusal, LinkInv, LinkIsPolled, IsConnected
    <3> QED BY <3>1, <3>2, <3>3, Bounds DEF LinkInv, TypeOK
  <2>2. CASE OnInitialData(e.id) /\ UNCHANGED waited
    BY <1>3, <2>2 DEF OnInitialData, LinkInv, TypeOK
  <2>3. CASE UNCHANGED <<state, waited, table, self, freed>>
    BY <2>3 DEF LinkInv, TypeOK, LinkIsPolled, IsConnected
  <2>4. CASE Replace(e.id, e.of) /\ UNCHANGED <<state, waited, self>>
    BY <1>3, <1>5, <2>4 DEF LinkInv, TypeOK, LinkIsPolled, IsConnected
  <2>5. CASE Replace(e.id, Empty) /\ UNCHANGED <<state, waited, self>>
    BY <1>5, <2>5 DEF LinkInv, TypeOK, LinkIsPolled, IsConnected
  <2> QED BY <2>1, <2>2, <2>3, <2>4, <2>5 DEF Receive, e
<1>7. TypeOK'
  BY <1>1, <1>2, <1>6 DEF LinkInv, TypeOK
<1>8. LinkIsPolled' /\ DrainedWhenDown'
  BY <1>1, <1>6 DEF LinkIsPolled, IsConnected, DrainedWhenDown
<1>9. EndingMeansIdle' /\ QueueIsCurrent'
  BY <1>1, <1>2 DEF LinkInv, EndingMeansIdle, QueueIsCurrent
<1> QED BY <1>7, <1>8, <1>9 DEF LinkInv
-----------------------------------------------------------------------------
(* RakNet's thread posts one event per step.                               *)

LEMMA PostLink ==
  ASSUME LinkInv, NEW kind \in Kind, NEW id \in Slot, Post(kind, id),
         UNCHANGED gameVars,
         link # "idle", link' \in {"idle", "up"}, kind \in Ending => link' = "idle",
         known' \in BOOLEAN, roster' \in [Slot -> {Empty, Local, Current}]
  PROVE  LinkInv'
<1>1. /\ queue' \in Seq(Event) /\ Len(queue') <= MaxQueue
      /\ \A i \in DOMAIN queue' :
           \/ i \in DOMAIN queue /\ queue'[i] = queue[i]
           \/ queue'[i].kind = kind /\ queue'[i].of = Current
  BY PostAppends
<1>2. /\ state' = state /\ waited' = waited /\ pulsing' = pulsing
      /\ table' = table /\ self' = self /\ freed' = freed
  BY DEF gameVars
<1>3. TypeOK'
  BY <1>1, <1>2 DEF LinkInv, TypeOK
<1>4. IsConnected /\ IsConnected'
  BY <1>2 DEF LinkInv, LinkIsPolled, IsConnected
<1>5. EndingMeansIdle' /\ QueueIsCurrent'
  BY <1>1 DEF LinkInv, EndingMeansIdle, QueueIsCurrent
<1> QED BY <1>3, <1>4, <1>5 DEF LinkInv, LinkIsPolled, DrainedWhenDown

LEMMA ZeroIsSlot == 0 \in Slot
BY ConnectionAssumption DEF ConnectionAssumption, Slot

LEMMA AnswerLink == LinkInv /\ Answer => LinkInv'
<1> SUFFICES ASSUME LinkInv, Answer PROVE LinkInv'
  OBVIOUS
<1>1. /\ link # "idle" /\ UNCHANGED gameVars
      /\ roster' \in [Slot -> {Empty, Local, Current}]
  BY DEF Answer, EmptyTable
<1>2. known' \in BOOLEAN
  BY DEF Answer, LinkInv, TypeOK
<1>3. \E kind \in Kind : Post(kind, 0) /\ link' \in {"idle", "up"}
                         /\ (kind \in Ending => link' = "idle")
  BY DEF Answer, Kind, LinkEvent, Refusal, Ending
<1> QED BY <1>1, <1>2, <1>3, PostLink, ZeroIsSlot

LEMMA LoseLink == LinkInv /\ Lose => LinkInv'
<1> SUFFICES ASSUME LinkInv, Lose PROVE LinkInv'
  OBVIOUS
<1>1. /\ link # "idle" /\ link' = "idle" /\ UNCHANGED gameVars /\ Post("LOST", 0)
      /\ roster' \in [Slot -> {Empty, Local, Current}] /\ "LOST" \in Kind
  BY DEF Lose, EmptyTable, Kind, LinkEvent
<1>2. known' \in BOOLEAN
  BY DEF Lose, LinkInv, TypeOK
<1> QED BY <1>1, <1>2, PostLink, ZeroIsSlot

LEMMA CloseByServerLink == LinkInv /\ CloseByServer => LinkInv'
<1> SUFFICES ASSUME LinkInv, CloseByServer PROVE LinkInv'
  OBVIOUS
<1>1. /\ link # "idle" /\ link' = "idle" /\ UNCHANGED gameVars
      /\ Post("CLOSED", 0) /\ known' \in BOOLEAN
      /\ roster' \in [Slot -> {Empty, Local, Current}] /\ "CLOSED" \in Kind
  BY DEF CloseByServer, EmptyTable, Kind, LinkEvent
<1> QED BY <1>1, PostLink, ZeroIsSlot

LEMMA ForgetLink == LinkInv /\ Forget => LinkInv'
<1> SUFFICES ASSUME LinkInv, Forget PROVE LinkInv'
  OBVIOUS
<1>1. /\ state' = state /\ waited' = waited /\ pulsing' = pulsing
      /\ table' = table /\ self' = self /\ freed' = freed
      /\ link' = link /\ queue' = queue /\ known' = FALSE /\ roster' = roster
  BY DEF Forget, gameVars
<1>2. TypeOK'
  BY <1>1 DEF LinkInv, TypeOK
<1>3. LinkIsPolled' /\ DrainedWhenDown'
  BY <1>1 DEF LinkInv, LinkIsPolled, IsConnected, DrainedWhenDown
<1>4. EndingMeansIdle' /\ QueueIsCurrent'
  BY <1>1 DEF LinkInv, EndingMeansIdle, QueueIsCurrent
<1> QED BY <1>2, <1>3, <1>4 DEF LinkInv

LEMMA WelcomeLink ==
  ASSUME LinkInv, NEW id \in Slot, Welcome(id)
  PROVE  LinkInv'
<1>1. /\ link # "idle" /\ link' = "up" /\ UNCHANGED gameVars
      /\ Post("INITIAL_DATA", id) /\ "INITIAL_DATA" \in Kind \ Ending
  BY DEF Welcome, Kind, LinkEvent, Refusal, Ending
<1>2. known' \in BOOLEAN /\ roster' \in [Slot -> {Empty, Local, Current}]
  BY DEF Welcome, LinkInv, TypeOK
<1> QED BY <1>1, <1>2, PostLink

LEMMA AnnounceLink ==
  ASSUME LinkInv, NEW id \in Slot, Announce(id)
  PROVE  LinkInv'
<1>1. link # "idle" /\ link' = "up" /\ UNCHANGED gameVars
  BY DEF Announce
<1>2. known' \in BOOLEAN /\ roster' \in [Slot -> {Empty, Local, Current}]
  BY DEF Announce, LinkInv, TypeOK
<1>3. \E kind \in {"NEW_PLAYER", "DELETE_PLAYER"} : Post(kind, id)
  BY DEF Announce
<1>4. {"NEW_PLAYER", "DELETE_PLAYER"} \subseteq Kind \ Ending
  BY DEF Kind, LinkEvent, Refusal, Ending
<1> QED BY <1>1, <1>2, <1>3, <1>4, PostLink
-----------------------------------------------------------------------------
LEMMA StutterLink == LinkInv /\ UNCHANGED vars => LinkInv'
<1> SUFFICES ASSUME LinkInv, UNCHANGED vars PROVE LinkInv'
  OBVIOUS
<1>1. UNCHANGED <<state, table, self, freed, rakVars>>
      /\ waited' = waited /\ pulsing' = pulsing
  BY DEF vars, gameVars
<1>2. waited' \in 0 .. RetryTicks /\ pulsing' \in BOOLEAN
  BY <1>1 DEF LinkInv, TypeOK
<1> QED BY <1>1, <1>2, GameOnlyLink

LEMMA NextLink == LinkInv /\ [Next]_vars => LinkInv'
<1> SUFFICES ASSUME LinkInv, [Next]_vars PROVE LinkInv'
  OBVIOUS
<1>1. CASE MenuConnect
  BY <1>1, MenuConnectLink
<1>2. CASE MenuDisconnect
  BY <1>2, MenuDisconnectLink
<1>3. CASE GameStep
  BY <1>3, PulseLink, ReceiveLink, EndPulseLink DEF GameStep
<1>4. CASE Tick
  BY <1>4, TickLink
<1>5. CASE RakNetStep
  BY <1>5, AnswerLink, LoseLink, ForgetLink, CloseByServerLink, WelcomeLink,
     AnnounceLink DEF RakNetStep
<1>6. CASE UNCHANGED vars
  BY <1>6, StutterLink
<1> QED BY <1>1, <1>2, <1>3, <1>4, <1>5, <1>6 DEF Next

(* The invariant of the client's network manager and RakNet's queue.       *)
THEOREM LinkInvariant == Spec => []LinkInv
<1>1. Init => LinkInv
  BY InitLink
<1>2. LinkInv /\ [Next]_vars => LinkInv'
  BY NextLink
<1> QED BY <1>1, <1>2, PTL DEF Spec

(* Every variable of the network manager and of RakNet's side keeps to its *)
(* type, for any number of slots, any timeout and any length of the queue. *)
THEOREM ConnectionTypeOK == Spec => []TypeOK
<1>1. LinkInv => TypeOK
  BY DEF LinkInv
<1> QED BY <1>1, LinkInvariant, PTL

(* A link or an attempt RakNet holds is always polled by CNetworkManager:: *)
(* Pulse, and closed by the next Connect.                                  *)
THEOREM LinkAlwaysPolled == Spec => []LinkIsPolled
<1>1. LinkInv => LinkIsPolled
  BY DEF LinkInv
<1> QED BY <1>1, LinkInvariant, PTL

(* UpdateNetwork never takes an event of an earlier connection off the     *)
(* queue: the shutdown in Disconnect and the drained loop leave none.      *)
THEOREM QueueAlwaysCurrent == Spec => []QueueIsCurrent
<1>1. LinkInv => QueueIsCurrent
  BY DEF LinkInv
<1> QED BY <1>1, LinkInvariant, PTL
-----------------------------------------------------------------------------
(* The table follows the server.                                           *)

Roster == {"INITIAL_DATA", "NEW_PLAYER", "DELETE_PLAYER"}

(* The event e is the server's word about slot s.                          *)
About(e, s) == e.kind \in Roster /\ e.id = s

Says(e) == CASE e.kind = "INITIAL_DATA" -> Local
             [] e.kind = "NEW_PLAYER" -> Current
             [] e.kind = "DELETE_PLAYER" -> Empty

Held(s) == IF roster[s] = Empty THEN table[s] # Current ELSE table[s] = roster[s]

(* The last word under way about a slot is what the server has told; where *)
(* none is under way, the client's table has it already.                   *)
LastWord ==
  link # "idle" /\ ~ freed =>
    \A s \in Slot :
      \/ Held(s) /\ \A i \in DOMAIN queue : ~ About(queue[i], s)
      \/ \E i \in DOMAIN queue :
           /\ About(queue[i], s) /\ roster[s] = Says(queue[i])
           /\ \A j \in DOMAIN queue : j > i => ~ About(queue[j], s)

(* A server that has told anything has first told this client its id.      *)
Welcomed(s) ==
  /\ roster[s] = Local
  /\ \A t \in Slot : roster[t] = Local => t = s
  /\ self = s \/ \E i \in DOMAIN queue : queue[i].kind = "INITIAL_DATA"
  /\ \A i \in DOMAIN queue :
       /\ queue[i].kind = "INITIAL_DATA" =>
            /\ queue[i].id = s
            /\ \A j \in DOMAIN queue : queue[j].kind \in Roster => i <= j
       /\ queue[i].kind \in Roster \ {"INITIAL_DATA"} => queue[i].id # s

NotWelcomed ==
  roster = EmptyTable /\ \A i \in DOMAIN queue : queue[i].kind \notin Roster

IdFirst ==
  /\ link = "trying" => NotWelcomed
  /\ link = "up" => NotWelcomed \/ \E s \in Slot : Welcomed(s)

RosterInv == LinkInv /\ LastWord /\ IdFirst

LEMMA Distinct ==
  /\ Empty # Local /\ Empty # Current /\ Local # Current /\ Current # Former
  /\ Empty # Former /\ Local # Former
BY ConnectionAssumption DEF ConnectionAssumption

LEMMA PostAt ==
  ASSUME LinkInv, NEW kind \in Kind, NEW id \in Slot, Post(kind, id)
  PROVE  \E n \in Nat :
           /\ n \in DOMAIN queue' /\ queue'[n].kind = kind /\ queue'[n].id = id
           /\ \A i \in DOMAIN queue' : i = n \/ i \in DOMAIN queue
           /\ \A i \in DOMAIN queue :
                /\ i \in DOMAIN queue' /\ i \in Nat /\ i < n
                /\ queue'[i] = queue[i]
<1> DEFINE e == [kind |-> kind, id |-> id, of |-> Current]
           n == Len(queue) + 1
<1>1. e \in Event /\ e.kind = kind /\ e.id = id
  BY DEF Event, Kind
<1>2. queue \in Seq(Event) /\ queue' = Append(queue, e)
  BY DEF Post, LinkInv, TypeOK
<1> HIDE DEF e
<1>3. Len(queue) \in Nat /\ DOMAIN queue = 1 .. Len(queue)
  BY <1>2
<1>4. DOMAIN queue' = 1 .. n /\ queue'[n] = e
  BY <1>1, <1>2, <1>3
<1>5. \A i \in DOMAIN queue : queue'[i] = queue[i]
  BY <1>1, <1>2, <1>3
<1>6. \A i \in DOMAIN queue' : i = n \/ i \in DOMAIN queue
  BY <1>3, <1>4
<1>7. \A i \in DOMAIN queue : i \in DOMAIN queue' /\ i \in Nat /\ i < n
  BY <1>3, <1>4
<1>8. n \in Nat /\ n \in DOMAIN queue'
  BY <1>3, <1>4
<1> HIDE DEF n
<1>9. queue'[n].kind = kind /\ queue'[n].id = id
  BY <1>1, <1>4
<1> QED BY <1>5, <1>6, <1>7, <1>8, <1>9

LEMMA TailStarts ==
  ASSUME LinkInv, queue # <<>>, queue' = Tail(queue), NEW k \in DOMAIN queue'
  PROVE  k \in Nat /\ k >= 1
<1>1. queue \in Seq(Event)
  BY DEF LinkInv, TypeOK
<1>2. queue' \in Seq(Event)
  BY <1>1
<1> QED BY <1>2

LEMMA TailAt ==
  ASSUME LinkInv, queue # <<>>, queue' = Tail(queue)
  PROVE  /\ Head(queue) \in Event
         /\ 1 \in DOMAIN queue /\ Head(queue) = queue[1]
         /\ \A i \in DOMAIN queue :
              /\ i \in Nat /\ i >= 1
              /\ i = 1 \/ (i - 1 \in DOMAIN queue' /\ queue'[i - 1] = queue[i])
         /\ \A i \in DOMAIN queue' :
              i \in Nat /\ i + 1 \in DOMAIN queue /\ queue'[i] = queue[i + 1]
<1>1. queue \in Seq(Event)
  BY DEF LinkInv, TypeOK
<1>2. Len(queue) \in Nat \ {0} /\ DOMAIN queue = 1 .. Len(queue)
  BY <1>1
<1>3. Head(queue) = queue[1] /\ queue[1] \in Event
  BY <1>1, <1>2
<1>4. queue' \in Seq(Event) /\ Len(queue') = Len(queue) - 1
  BY <1>1, <1>2
<1>5. DOMAIN queue' = 1 .. Len(queue) - 1
  BY <1>2, <1>4
<1>6. \A i \in DOMAIN queue' :
        i \in Nat /\ i + 1 \in DOMAIN queue /\ queue'[i] = queue[i + 1]
  BY <1>1, <1>2, <1>5
<1>7. \A i \in DOMAIN queue :
        i \in Nat /\ i >= 1 /\ (i = 1 \/ i - 1 \in DOMAIN queue')
  BY <1>2, <1>5
<1>8. \A i \in DOMAIN queue : i = 1 \/ queue'[i - 1] = queue[i]
  <2> SUFFICES ASSUME NEW i \in DOMAIN queue, i # 1
               PROVE  queue'[i - 1] = queue[i]
    OBVIOUS
  <2>1. i - 1 \in DOMAIN queue' /\ (i - 1) + 1 = i
    BY <1>7
  <2> QED BY <2>1, <1>6
<1> QED BY <1>2, <1>3, <1>6, <1>7, <1>8

(* An attempt begins with nothing of the former session in sight.          *)
LEMMA FreshRoster ==
  ASSUME LinkInv, ~ pulsing, NEW started \in BOOLEAN, Attempt(started)
  PROVE  LastWord' /\ IdFirst'
<1>1. queue' = <<>> /\ link' \in {"trying", "idle"}
  BY AttemptStartsClean
<1>2. DOMAIN queue' = {}
  BY <1>1
<1>3. roster' = EmptyTable /\ table' = [s \in Slot |-> Aged(table[s])]
  BY DEF Attempt
<1>4. \A s \in Slot : roster'[s] = Empty /\ table'[s] # Current
  BY <1>3, Distinct DEF EmptyTable, Aged
<1>5. LastWord'
  BY <1>2, <1>4 DEF LastWord, Held
<1>6. IdFirst'
  BY <1>1, <1>2, <1>3 DEF IdFirst, NotWelcomed
<1> QED BY <1>5, <1>6

LEMMA IdleRoster ==
  ASSUME link' = "idle"
  PROVE  LastWord' /\ IdFirst'
BY DEF LastWord, IdFirst

LEMMA SameRoster ==
  ASSUME LastWord, IdFirst,
         UNCHANGED <<table, self, freed, link, queue, roster>>
  PROVE  LastWord' /\ IdFirst'
<1>1. /\ table' = table /\ self' = self /\ freed' = freed /\ link' = link
      /\ queue' = queue /\ roster' = roster
  OBVIOUS
<1>2. LastWord'
  BY <1>1 DEF LastWord, Held
<1>3. IdFirst'
  BY <1>1 DEF IdFirst, NotWelcomed, Welcomed
<1> QED BY <1>2, <1>3

(* Receiving the first event.                                              *)

(* What an event does to the table and to the client's id: an RPC about    *)
(* the roster does as it says.                                             *)
LEMMA ReceiveDoes ==
  ASSUME RosterInv, Receive, link # "idle"
  PROVE  LET e == Head(queue) IN
         /\ e.kind \notin Roster => UNCHANGED <<table, self>>
         /\ e.kind \in Roster =>
              table'[e.id] = Says(e)
              /\ \A s \in Slot \ {e.id} : table'[s] = table[s]
         /\ self' = IF e.kind = "INITIAL_DATA" THEN e.id ELSE self
<1> DEFINE e == Head(queue)
<1>1. queue # <<>> /\ queue' = Tail(queue) /\ ~ freed
  BY DEF Receive
<1>2. /\ e \in Event /\ 1 \in DOMAIN queue /\ e = queue[1]
      /\ \A i \in DOMAIN queue : i \in Nat /\ i >= 1
  BY <1>1, TailAt DEF RosterInv
<1>3. /\ e.id \in Slot /\ e.of = Current /\ e.kind \notin Ending
      /\ table \in [Slot -> {Empty, Local, Current, Former}]
  BY <1>2 DEF RosterInv, LinkInv, TypeOK, QueueIsCurrent, EndingMeansIdle, Event
<1>4. e.kind \in Roster \ {"INITIAL_DATA"} => e.id # self
  <2> SUFFICES ASSUME e.kind \in Roster \ {"INITIAL_DATA"} PROVE e.id # self
    OBVIOUS
  <2>1. link \in {"trying", "up"} /\ ~ NotWelcomed
    BY <1>2 DEF RosterInv, LinkInv, TypeOK, NotWelcomed
  <2>2. PICK s \in Slot : Welcomed(s)
    BY <2>1 DEF RosterInv, IdFirst
  <2>3. e.id # s
    BY <1>2, <2>2 DEF Welcomed
  <2>4. \A i \in DOMAIN queue : queue[i].kind = "INITIAL_DATA" => i <= 1
    BY <1>2, <2>2 DEF Welcomed
  <2>5. \A i \in DOMAIN queue : queue[i].kind = "INITIAL_DATA" => i = 1
    BY <1>2, <2>4
  <2>6. \A i \in DOMAIN queue : queue[i].kind # "INITIAL_DATA"
    BY <1>2, <2>5
  <2>7. self = s
    BY <2>2, <2>6 DEF Welcomed
  <2> QED BY <2>3, <2>7
<1> HIDE DEF e
<1>5. CASE e.kind \in LinkEvent /\ OnLink(e.kind) /\ UNCHANGED self
  <2>1. e.kind \in {"ACCEPTED"} /\ e.kind \notin Roster
    BY <1>3, <1>5 DEF LinkEvent, Ending, Roster, Refusal
  <2>2. UNCHANGED table
    BY <1>5, <2>1 DEF OnLink
  <2> QED BY <1>5, <2>1, <2>2 DEF e
<1>6. CASE e.kind = "INITIAL_DATA" /\ OnInitialData(e.id)
  BY <1>3, <1>6 DEF OnInitialData, Roster, Says, e
<1>7. CASE e.kind = "NEW_PLAYER" /\ Replace(e.id, e.of) /\ UNCHANGED self
  BY <1>3, <1>7 DEF Replace, Roster, Says, e
<1>8. CASE e.kind = "DELETE_PLAYER" /\ Replace(e.id, Empty) /\ UNCHANGED self
  BY <1>3, <1>8 DEF Replace, Roster, Says, e
<1>9. ~ (e.kind = "NEW_PLAYER" /\ e.id = self)
  BY <1>4 DEF Roster
<1> QED BY <1>5, <1>6, <1>7, <1>8, <1>9 DEF Receive, e

LEMMA ReceiveWord ==
  ASSUME RosterInv, Receive, link # "idle"
  PROVE  LastWord'
<1> DEFINE e == Head(queue)
<1>1. queue # <<>> /\ queue' = Tail(queue) /\ ~ freed /\ roster' = roster
  BY DEF Receive
<1>2. /\ e \in Event /\ 1 \in DOMAIN queue /\ e = queue[1]
      /\ \A i \in DOMAIN queue :
           /\ i \in Nat /\ i >= 1
           /\ i = 1 \/ (i - 1 \in DOMAIN queue' /\ queue'[i - 1] = queue[i])
      /\ \A i \in DOMAIN queue' :
           i \in Nat /\ i + 1 \in DOMAIN queue /\ queue'[i] = queue[i + 1]
  BY <1>1, TailAt DEF RosterInv
<1>3. e.id \in Slot
  BY <1>2 DEF Event
<1>4. /\ e.kind \notin Roster => UNCHANGED <<table, self>>
      /\ e.kind \in Roster =>
           table'[e.id] = Says(e)
           /\ \A s \in Slot \ {e.id} : table'[s] = table[s]
  BY ReceiveDoes
<1> SUFFICES ASSUME NEW s \in Slot
             PROVE  \/ Held(s)' /\ \A i \in DOMAIN queue' : ~ About(queue'[i], s)
                    \/ \E i \in DOMAIN queue' :
                         /\ About(queue'[i], s) /\ roster'[s] = Says(queue'[i])
                         /\ \A j \in DOMAIN queue' : j > i => ~ About(queue'[j], s)
  BY DEF LastWord
<1>5. \/ Held(s) /\ \A i \in DOMAIN queue : ~ About(queue[i], s)
      \/ \E i \in DOMAIN queue :
           /\ About(queue[i], s) /\ roster[s] = Says(queue[i])
           /\ \A j \in DOMAIN queue : j > i => ~ About(queue[j], s)
  BY <1>1 DEF RosterInv, LastWord
<1> HIDE DEF e
<1>6. CASE Held(s) /\ \A i \in DOMAIN queue : ~ About(queue[i], s)
  <2>1. \A i \in DOMAIN queue' : ~ About(queue'[i], s)
    BY <1>2, <1>6
  <2>2. table'[s] = table[s]
    BY <1>2, <1>3, <1>4, <1>6 DEF About
  <2> QED BY <1>1, <1>6, <2>1, <2>2 DEF Held
<1>7. ASSUME NEW i \in DOMAIN queue,
             About(queue[i], s), roster[s] = Says(queue[i]),
             \A j \in DOMAIN queue : j > i => ~ About(queue[j], s)
      PROVE  \/ Held(s)' /\ \A k \in DOMAIN queue' : ~ About(queue'[k], s)
             \/ \E k \in DOMAIN queue' :
                  /\ About(queue'[k], s) /\ roster'[s] = Says(queue'[k])
                  /\ \A j \in DOMAIN queue' : j > k => ~ About(queue'[j], s)
  <2>1. CASE i = 1
    <3>1. \A k \in DOMAIN queue' : ~ About(queue'[k], s)
      <4> SUFFICES ASSUME NEW k \in DOMAIN queue' PROVE ~ About(queue'[k], s)
        OBVIOUS
      <4>1. k + 1 \in DOMAIN queue /\ k + 1 >= 1 /\ k >= 0 /\ queue'[k] = queue[k + 1]
        BY <1>2
      <4>2. k >= 1 
        BY <1>1, <1>2, TailStarts DEF RosterInv
      <4> QED BY <1>2, <1>7, <2>1, <4>1, <4>2
    <3>2. table'[s] = roster'[s]
      BY <1>1, <1>2, <1>4, <1>7, <2>1 DEF About
    <3>3. Held(s)'
      BY <3>2, Distinct DEF Held
    <3> QED BY <3>1, <3>3
  <2>2. CASE i # 1
    <3>1. i - 1 \in DOMAIN queue' /\ queue'[i - 1] = queue[i]
      BY <1>2, <2>2
    <3>2. ASSUME NEW j \in DOMAIN queue', j > i - 1 PROVE ~ About(queue'[j], s)
      <4>1. j + 1 \in DOMAIN queue /\ j + 1 > i /\ queue'[j] = queue[j + 1]
        BY <1>2, <3>2
      <4> QED BY <1>7, <4>1
    <3> QED BY <1>1, <1>7, <3>1, <3>2
  <2> QED BY <2>1, <2>2
<1> QED BY <1>5, <1>6, <1>7

LEMMA ReceiveIdFirst ==
  ASSUME RosterInv, Receive
  PROVE  IdFirst'
<1> DEFINE e == Head(queue)
<1>1. queue # <<>> /\ queue' = Tail(queue) /\ link' = link /\ roster' = roster
  BY DEF Receive
<1>2. /\ 1 \in DOMAIN queue /\ e = queue[1]
      /\ \A i \in DOMAIN queue :
           i = 1 \/ (i - 1 \in DOMAIN queue' /\ queue'[i - 1] = queue[i])
      /\ \A i \in DOMAIN queue' :
           i \in Nat /\ i + 1 \in DOMAIN queue /\ queue'[i] = queue[i + 1]
  BY <1>1, TailAt DEF RosterInv
<1>3. NotWelcomed => NotWelcomed'
  BY <1>1, <1>2 DEF NotWelcomed
<1>4. ASSUME NEW s \in Slot, Welcomed(s), link = "up" PROVE Welcomed(s)'
  <2>1. self' = IF e.kind = "INITIAL_DATA" THEN e.id ELSE self
    BY <1>4, ReceiveDoes
  <2> HIDE DEF e
  <2>2. self' = s \/ \E i \in DOMAIN queue' : queue'[i].kind = "INITIAL_DATA"
    <3>1. CASE e.kind = "INITIAL_DATA"
      BY <1>2, <1>4, <2>1, <3>1 DEF Welcomed
    <3>2. CASE e.kind # "INITIAL_DATA" /\ self = s
      BY <2>1, <3>2
    <3>3. ASSUME e.kind # "INITIAL_DATA", NEW i \in DOMAIN queue,
                 queue[i].kind = "INITIAL_DATA"
          PROVE  \E k \in DOMAIN queue' : queue'[k].kind = "INITIAL_DATA"
      BY <1>2, <3>3
    <3> QED BY <1>4, <3>1, <3>2, <3>3 DEF Welcomed
  <2>3. ASSUME NEW i \in DOMAIN queue'
        PROVE  /\ queue'[i].kind = "INITIAL_DATA" =>
                    /\ queue'[i].id = s
                    /\ \A j \in DOMAIN queue' : queue'[j].kind \in Roster => i <= j
               /\ queue'[i].kind \in Roster \ {"INITIAL_DATA"} => queue'[i].id # s
    <3>1. i \in Nat /\ i + 1 \in DOMAIN queue /\ queue'[i] = queue[i + 1]
      BY <1>2
    <3>2. ASSUME queue'[i].kind = "INITIAL_DATA", NEW j \in DOMAIN queue',
                 queue'[j].kind \in Roster
          PROVE  i <= j
      <4>1. j \in Nat /\ j + 1 \in DOMAIN queue /\ queue'[j] = queue[j + 1]
        BY <1>2
      <4>2. i + 1 <= j + 1
        BY <1>4, <3>1, <3>2, <4>1 DEF Welcomed
      <4> QED BY <3>1, <4>1, <4>2
    <3> QED BY <1>4, <3>1, <3>2 DEF Welcomed
  <2> QED BY <1>1, <1>4, <2>2, <2>3 DEF Welcomed
<1> QED BY <1>1, <1>3, <1>4 DEF RosterInv, IdFirst

LEMMA ReceiveRoster == RosterInv /\ Receive => LastWord' /\ IdFirst'
<1> SUFFICES ASSUME RosterInv, Receive PROVE LastWord' /\ IdFirst'
  OBVIOUS
<1>1. link' = link
  BY DEF Receive
<1>2. LastWord'
  BY <1>1, ReceiveWord, IdleRoster
<1> QED BY <1>2, ReceiveIdFirst

(* The server's word about a slot becomes the last one.                    *)
LEMMA PostWord ==
  ASSUME RosterInv, NEW kind \in Kind, NEW id \in Slot, Post(kind, id),
         link # "idle", UNCHANGED gameVars, kind \in Roster,
         NEW what, what = Says([kind |-> kind]),
         roster' = [roster EXCEPT ![id] = what]
  PROVE  LastWord'
<1> USE DEF RosterInv
<1>1. table' = table /\ freed' = freed /\ roster \in [Slot -> {Empty, Local, Current}]
  BY DEF gameVars, LinkInv, TypeOK
<1>2. PICK n \in Nat :
        /\ n \in DOMAIN queue' /\ queue'[n].kind = kind /\ queue'[n].id = id
        /\ \A i \in DOMAIN queue' : i = n \/ i \in DOMAIN queue
        /\ \A i \in DOMAIN queue :
             /\ i \in DOMAIN queue' /\ i \in Nat /\ i < n
             /\ queue'[i] = queue[i]
  BY PostAt
<1>3. About(queue'[n], id) /\ what = Says(queue'[n])
  BY <1>2 DEF About, Says
<1> SUFFICES ASSUME ~ freed', NEW s \in Slot
             PROVE  \/ Held(s)' /\ \A i \in DOMAIN queue' : ~ About(queue'[i], s)
                    \/ \E i \in DOMAIN queue' :
                         /\ About(queue'[i], s) /\ roster'[s] = Says(queue'[i])
                         /\ \A j \in DOMAIN queue' : j > i => ~ About(queue'[j], s)
  BY DEF LastWord
<1>4. CASE s = id
  <2>1. roster'[s] = Says(queue'[n])
    BY <1>1, <1>3, <1>4
  <2>2. \A j \in DOMAIN queue' : j > n => ~ About(queue'[j], s)
    BY <1>2
  <2> QED BY <1>2, <1>3, <1>4, <2>1, <2>2
<1>5. CASE s # id
  <2>1. roster'[s] = roster[s] /\ ~ About(queue'[n], s)
    BY <1>1, <1>2, <1>5 DEF About
  <2>2. CASE Held(s) /\ \A i \in DOMAIN queue : ~ About(queue[i], s)
    BY <1>1, <1>2, <2>1, <2>2 DEF Held
  <2>3. ASSUME NEW i \in DOMAIN queue,
               About(queue[i], s), roster[s] = Says(queue[i]),
               \A j \in DOMAIN queue : j > i => ~ About(queue[j], s)
        PROVE  \E k \in DOMAIN queue' :
                 /\ About(queue'[k], s) /\ roster'[s] = Says(queue'[k])
                 /\ \A j \in DOMAIN queue' : j > k => ~ About(queue'[j], s)
    <3>1. i \in DOMAIN queue' /\ queue'[i] = queue[i]
      BY <1>2
    <3>2. \A j \in DOMAIN queue' : j > i => ~ About(queue'[j], s)
      BY <1>2, <2>1, <2>3
    <3> QED BY <2>1, <2>3, <3>1, <3>2
  <2> QED BY <1>1, <2>2, <2>3 DEF LastWord
<1> QED BY <1>4, <1>5

LEMMA AnswerRoster == RosterInv /\ Answer => LastWord' /\ IdFirst'
<1> SUFFICES ASSUME RosterInv, Answer, link' # "idle" PROVE LastWord' /\ IdFirst'
  BY IdleRoster
<1> USE DEF RosterInv
<1>1. /\ link = "trying" /\ link' = "up" /\ Post("ACCEPTED", 0)
      /\ roster' = EmptyTable /\ UNCHANGED gameVars
  BY DEF Answer
<1>2. NotWelcomed
  BY <1>1 DEF IdFirst
<1>3. "ACCEPTED" \in Kind \ Roster
  BY DEF Kind, LinkEvent, Roster
<1>4. \A i \in DOMAIN queue' : queue'[i].kind \notin Roster
  <2>1. PICK n \in Nat :
          /\ queue'[n].kind = "ACCEPTED"
          /\ \A i \in DOMAIN queue' : i = n \/ i \in DOMAIN queue
          /\ \A i \in DOMAIN queue : queue'[i] = queue[i]
    BY <1>1, <1>3, ZeroIsSlot, PostAt
  <2> QED BY <1>2, <1>3, <2>1 DEF NotWelcomed
<1>5. IdFirst'
  BY <1>1, <1>4 DEF IdFirst, NotWelcomed
<1>6. table' = table /\ freed' = freed /\ roster' = roster
  BY <1>1, <1>2 DEF gameVars, NotWelcomed
<1>7. LastWord'
  BY <1>1, <1>2, <1>4, <1>6 DEF LastWord, Held, About, NotWelcomed
<1> QED BY <1>5, <1>7

LEMMA WelcomeRoster ==
  ASSUME RosterInv, NEW id \in Slot, Welcome(id)
  PROVE  LastWord' /\ IdFirst'
<1> USE DEF RosterInv
<1>1. /\ link = "up" /\ link' = "up" /\ roster = EmptyTable
      /\ Post("INITIAL_DATA", id) /\ UNCHANGED gameVars
      /\ roster' = [roster EXCEPT ![id] = Local]
      /\ "INITIAL_DATA" \in Kind /\ "INITIAL_DATA" \in Roster
  BY DEF Welcome, Kind, Roster
<1>2. LastWord'
  <2>1. Local = Says([kind |-> "INITIAL_DATA"])
    BY DEF Says
  <2> QED BY <1>1, <2>1, PostWord
<1>3. NotWelcomed
  BY <1>1, Distinct DEF IdFirst, Welcomed, EmptyTable
<1>4. PICK n \in Nat :
        /\ n \in DOMAIN queue' /\ queue'[n].kind = "INITIAL_DATA"
        /\ queue'[n].id = id
        /\ \A i \in DOMAIN queue' : i = n \/ i \in DOMAIN queue
        /\ \A i \in DOMAIN queue : queue'[i] = queue[i]
  BY <1>1, PostAt
<1>5. \A i \in DOMAIN queue' : queue'[i].kind \in Roster => i = n
  BY <1>3, <1>4 DEF NotWelcomed
<1>6. roster'[id] = Local /\ \A t \in Slot : roster'[t] = Local => t = id
  BY <1>1, Distinct DEF EmptyTable
<1>7. Welcomed(id)'
  BY <1>4, <1>5, <1>6 DEF Welcomed, Roster
<1> QED BY <1>1, <1>2, <1>7 DEF IdFirst

LEMMA AnnounceRoster ==
  ASSUME RosterInv, NEW id \in Slot, Announce(id)
  PROVE  LastWord' /\ IdFirst'
<1> USE DEF RosterInv
<1>1. link = "up" /\ link' = "up" /\ roster # EmptyTable /\ UNCHANGED gameVars
  BY DEF Announce
<1>2. PICK kind \in {"NEW_PLAYER", "DELETE_PLAYER"} :
        /\ Post(kind, id) /\ roster[id] # Local
        /\ roster' = [roster EXCEPT ![id] = Says([kind |-> kind])]
  BY Distinct DEF Announce, Says
<1>3. kind \in Kind /\ kind \in Roster \ {"INITIAL_DATA"}
  BY DEF Kind, Roster
<1>4. LastWord'
  BY <1>1, <1>2, <1>3, PostWord
<1>5. PICK s \in Slot : Welcomed(s)
  BY <1>1 DEF IdFirst, NotWelcomed
<1>6. PICK n \in Nat :
        /\ n \in DOMAIN queue' /\ queue'[n].kind = kind /\ queue'[n].id = id
        /\ \A i \in DOMAIN queue' : i = n \/ i \in DOMAIN queue
        /\ \A i \in DOMAIN queue :
             /\ i \in DOMAIN queue' /\ i \in Nat /\ i < n
             /\ queue'[i] = queue[i]
  BY <1>2, <1>3, PostAt
<1>7. id # s /\ self' = self /\ roster \in [Slot -> {Empty, Local, Current}]
  BY <1>1, <1>2, <1>5 DEF Welcomed, gameVars, LinkInv, TypeOK
<1>8. Says([kind |-> kind]) # Local
  BY Distinct DEF Says
<1>9. roster'[s] = Local /\ \A t \in Slot : roster'[t] = Local => t = s
  BY <1>2, <1>5, <1>7, <1>8 DEF Welcomed
<1>10. self' = s \/ \E i \in DOMAIN queue' : queue'[i].kind = "INITIAL_DATA"
  BY <1>5, <1>6, <1>7 DEF Welcomed
<1>11. ASSUME NEW i \in DOMAIN queue'
       PROVE  /\ queue'[i].kind = "INITIAL_DATA" =>
                   /\ queue'[i].id = s
                   /\ \A j \in DOMAIN queue' : queue'[j].kind \in Roster => i <= j
              /\ queue'[i].kind \in Roster \ {"INITIAL_DATA"} => queue'[i].id # s
  BY <1>3, <1>5, <1>6, <1>7 DEF Welcomed
<1>12. Welcomed(s)'
  BY <1>9, <1>10, <1>11 DEF Welcomed
<1> QED BY <1>1, <1>4, <1>12 DEF IdFirst

LEMMA InitRoster == Init => LastWord /\ IdFirst
BY DEF Init, LastWord, IdFirst

LEMMA NextRoster == RosterInv /\ [Next]_vars => RosterInv'
<1> SUFFICES ASSUME RosterInv, [Next]_vars PROVE LastWord' /\ IdFirst'
  BY NextLink DEF RosterInv
<1> USE DEF RosterInv
<1>1. ASSUME NEW started \in BOOLEAN, Attempt(started), ~ pulsing
      PROVE  LastWord' /\ IdFirst'
  BY <1>1, FreshRoster
<1>2. CASE MenuConnect
  BY <1>1, <1>2 DEF MenuConnect
<1>3. CASE MenuDisconnect
  BY <1>3, IdleRoster DEF MenuDisconnect
<1>4. CASE Pulse
  <2>1. ~ pulsing /\ UNCHANGED <<self, freed>>
    BY <1>4 DEF Pulse
  <2>2. CASE UNCHANGED <<state, waited, table, rakVars>>
    BY <2>1, <2>2, SameRoster DEF rakVars
  <2> QED BY <1>1, <1>4, <2>1, <2>2 DEF Pulse
<1>5. CASE EndPulse
  BY <1>5, SameRoster DEF EndPulse, rakVars
<1>6. CASE Receive
  BY <1>6, ReceiveRoster
<1>7. CASE Tick
  BY <1>7, SameRoster DEF Tick, rakVars
<1>8. CASE Answer
  BY <1>8, AnswerRoster
<1>9. CASE Lose \/ CloseByServer
  BY <1>9, IdleRoster DEF Lose, CloseByServer
<1>10. CASE Forget
  BY <1>10, SameRoster DEF Forget, gameVars
<1>11. CASE \E id \in Slot : Welcome(id) \/ Announce(id)
  BY <1>11, WelcomeRoster, AnnounceRoster
<1>12. CASE UNCHANGED vars
  BY <1>12, SameRoster DEF vars, gameVars, rakVars
<1> QED BY <1>2, <1>3, <1>4, <1>5, <1>6, <1>7, <1>8, <1>9, <1>10, <1>11, <1>12
       DEF Next, GameStep, RakNetStep

(* With the queue drained, the client's table holds what the server has    *)
(* told it on this connection, whatever former sessions left in it: for    *)
(* any number of slots, of sessions and of players that come and go.       *)
THEOREM RosterAlwaysHeld == Spec => []RosterHeld
<1>1. Init => RosterInv
  BY InitLink, InitRoster DEF RosterInv
<1>2. RosterInv /\ [Next]_vars => RosterInv'
  BY NextRoster
<1>3. RosterInv => RosterHeld
  <2> SUFFICES ASSUME RosterInv, link = "up", queue = <<>>, ~ freed, NEW s \in Slot
               PROVE  Held(s)
    BY DEF RosterHeld, Held
  <2>1. DOMAIN queue = {}
    OBVIOUS
  <2> QED BY <2>1 DEF RosterInv, LastWord
<1> QED BY <1>1, <1>2, <1>3, PTL DEF Spec
-----------------------------------------------------------------------------
(* A client that waits for nothing.                                        *)

(* The event that ended the link is the last there is.                     *)
EndingIsLast ==
  link = "idle" /\ queue # <<>> => queue[Len(queue)].kind \in Ending

WaitInv == LinkInv /\ EndingIsLast

(* What RakNet posts comes last, and ends the link if it leaves none.      *)
LEMMA PostWait ==
  ASSUME WaitInv, NEW kind \in Kind, NEW id \in Slot, Post(kind, id),
         link' = "idle" => kind \in Ending
  PROVE  queue' # <<>> /\ EndingIsLast'
<1> DEFINE e == [kind |-> kind, id |-> id, of |-> Current]
<1>1. queue \in Seq(Event) /\ queue' = Append(queue, e) /\ e \in Event
      /\ e.kind = kind
  BY DEF Post, WaitInv, LinkInv, TypeOK, Event, Kind
<1> HIDE DEF e
<1>2. queue'[Len(queue')] = e
  BY <1>1
<1>3. queue' # <<>>
  BY PostAppends DEF WaitInv
<1> QED BY <1>1, <1>2, <1>3 DEF EndingIsLast

LEMMA ReceiveWait == WaitInv /\ Receive => EndingIsLast'
<1> SUFFICES ASSUME WaitInv, Receive, link' = "idle", queue' # <<>>
             PROVE  queue'[Len(queue')].kind \in Ending
  BY DEF EndingIsLast
<1>1. queue # <<>> /\ queue' = Tail(queue) /\ link = "idle"
  BY DEF Receive
<1>2. queue \in Seq(Event)
  BY DEF WaitInv, LinkInv, TypeOK
<1>3. queue'[Len(queue')] = queue[Len(queue)]
  <2>1. Len(queue) \in Nat \ {0} /\ queue' \in Seq(Event) /\ Len(queue') \in Nat \ {0}
    BY <1>1, <1>2
  <2>2. Len(queue') = Len(queue) - 1
    BY <1>1, <1>2
  <2>3. \A i \in 1 .. Len(queue) - 1 : queue'[i] = queue[i + 1]
    BY <1>1, <1>2
  <2> QED BY <2>1, <2>2, <2>3
<1> QED BY <1>1, <1>3 DEF WaitInv, EndingIsLast

(* The last event a client without a link receives while it is CONNECTING  *)
(* takes it out of that state, but for the one there is no case for.       *)
LEMMA ReceiveExplained ==
  ASSUME WaitInv, Receive, ~ Waiting'
  PROVE  Head(queue).kind = "ALREADY_CONNECTED"
<1> DEFINE e == Head(queue)
<1>1. /\ queue # <<>> /\ queue' = <<>> /\ queue' = Tail(queue)
      /\ link = "idle" /\ state' = "CONNECTING"
  BY DEF Receive, Waiting, WaitInv, LinkInv, TypeOK
<1>2. queue \in Seq(Event)
  BY DEF WaitInv, LinkInv, TypeOK
<1>3. Len(queue) = 1 /\ e = queue[Len(queue)]
  <2>1. Len(queue) \in Nat \ {0} /\ e = queue[1]
    BY <1>1, <1>2
  <2>2. Len(Tail(queue)) = Len(queue) - 1 /\ Len(queue') = 0
    BY <1>1, <1>2
  <2> QED BY <1>1, <2>1, <2>2
<1>4. e.kind \in Ending
  BY <1>1, <1>3 DEF WaitInv, EndingIsLast
<1>5. OnLink(e.kind)
  BY <1>4 DEF Receive, Ending, Refusal, LinkEvent
<1> HIDE DEF e
<1>6. e.kind = "ALREADY_CONNECTED"
  BY <1>1, <1>4, <1>5 DEF OnLink, Ending, Refusal
<1> QED BY <1>6 DEF e

LEMMA InitWait == Init => EndingIsLast
BY DEF Init, EndingIsLast

(* Each step: what is the last event, and what a client still waits for.   *)
LEMMA NextWait ==
  ASSUME WaitInv, Next
  PROVE  /\ EndingIsLast'
         /\ \/ Waiting => Waiting'
            \/ TimedOut /\ link' = "idle"
            \/ queue # <<>> /\ Head(queue).kind = "ALREADY_CONNECTED"
<1> USE DEF WaitInv
<1>1. ASSUME NEW started \in BOOLEAN, Attempt(started), ~ pulsing
      PROVE  queue' = <<>> /\ link' = IF started THEN "trying" ELSE "idle"
  BY <1>1, AttemptStartsClean
<1>2. CASE MenuConnect
  <2>1. CASE Attempt(TRUE)
    <3>1. queue' = <<>> /\ link' = "trying"
      BY <1>1, <1>2, <2>1 DEF MenuConnect
    <3> QED BY <3>1 DEF EndingIsLast, Waiting
  <2>2. CASE Attempt(FALSE) /\ state' = "DISCONNECTED"
    <3>1. queue' = <<>>
      BY <1>1, <1>2, <2>2 DEF MenuConnect
    <3> QED BY <2>2, <3>1 DEF EndingIsLast, Waiting
  <2> QED BY <1>2, <2>1, <2>2 DEF MenuConnect
<1>3. CASE MenuDisconnect
  <2>1. queue' = <<>> /\ state' = "DISCONNECTED"
    BY <1>3, NothingKept DEF MenuDisconnect
  <2> QED BY <2>1 DEF EndingIsLast, Waiting
<1>4. CASE Pulse
  <2>1. ~ pulsing
    BY <1>4 DEF Pulse
  <2>2. ASSUME TimedOut, NEW started \in BOOLEAN, Attempt(started)
        PROVE  EndingIsLast' /\ (Waiting' \/ (TimedOut /\ link' = "idle"))
    BY <1>1, <2>1, <2>2 DEF EndingIsLast, Waiting
  <2>3. CASE UNCHANGED <<state, waited, table, rakVars>>
    BY <2>3 DEF rakVars, EndingIsLast, Waiting
  <2>4. \/ TimedOut /\ \E started \in BOOLEAN : Attempt(started)
        \/ UNCHANGED <<state, waited, table, rakVars>>
    BY <1>4 DEF Pulse
  <2> QED BY <2>2, <2>3, <2>4
<1>5. CASE EndPulse \/ Tick \/ Forget
  BY <1>5 DEF EndPulse, Tick, Forget, gameVars, rakVars, EndingIsLast, Waiting
<1>6. CASE Receive
  <2>1. queue # <<>>
    BY <1>6 DEF Receive
  <2> QED BY <1>6, <2>1, ReceiveWait, ReceiveExplained
<1>7. CASE Answer
  <2>1. PICK kind \in Kind : Post(kind, 0) /\ (link' = "idle" => kind \in Ending)
    BY <1>7 DEF Answer, Kind, LinkEvent, Refusal, Ending
  <2> QED BY <2>1, PostWait, ZeroIsSlot DEF Waiting
<1>8. CASE Lose \/ CloseByServer
  <2>1. PICK kind \in {"LOST", "CLOSED"} : Post(kind, 0)
    BY <1>8 DEF Lose, CloseByServer
  <2>2. kind \in Kind /\ kind \in Ending
    BY DEF Kind, LinkEvent, Ending
  <2> QED BY <2>1, <2>2, PostWait, ZeroIsSlot DEF Waiting
<1>9. ASSUME NEW id \in Slot, Welcome(id) \/ Announce(id)
      PROVE  EndingIsLast' /\ Waiting'
  <2>1. PICK kind \in {"INITIAL_DATA", "NEW_PLAYER", "DELETE_PLAYER"} :
          Post(kind, id) /\ link' = "up"
    BY <1>9 DEF Welcome, Announce
  <2>2. kind \in Kind
    BY DEF Kind
  <2> QED BY <2>1, <2>2, PostWait DEF Waiting
<1> QED BY <1>2, <1>3, <1>4, <1>5, <1>6, <1>7, <1>8, <1>9
       DEF Next, GameStep, RakNetStep

(* A client that is CONNECTING with nothing to wait for came to it by a    *)
(* retry whose Connect failed at once, or by ID_ALREADY_CONNECTED: in any  *)
(* order of the menu, the pulses, the answers and the losses.              *)
THEOREM StuckAlwaysExplained == Spec => StuckExplained
<1>1. Init => WaitInv
  BY InitLink, InitWait DEF WaitInv
<1>2. WaitInv /\ [Next]_vars => WaitInv'
  <2>1. WaitInv /\ Next => EndingIsLast'
    BY NextWait
  <2>2. EndingIsLast /\ UNCHANGED vars => EndingIsLast'
    BY DEF vars, rakVars, EndingIsLast
  <2> QED BY <2>1, <2>2, NextLink DEF WaitInv
<1>3. WaitInv /\ [Next]_vars =>
        [Waiting =>
           \/ Waiting'
           \/ TimedOut /\ link' = "idle"
           \/ queue # <<>> /\ Head(queue).kind = "ALREADY_CONNECTED"]_vars
  BY NextWait
<1> QED BY <1>1, <1>2, <1>3, PTL DEF Spec, StuckExplained
=============================================================================
