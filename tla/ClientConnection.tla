-------------------------- MODULE ClientConnection --------------------------
(***************************************************************************)
(* The client's network manager: connecting, being refused, losing the     *)
(* server, retrying after NETWORK_TIMEOUT, and what a reconnecting client  *)
(* still holds of the session before (the player manager and the object of *)
(* the local player).                                                      *)
(*                                                                         *)
(* Two threads meet at RakNet's receive queue.  RakNet's own thread moves  *)
(* the link and appends events; the game thread takes them off in          *)
(* UpdateNetwork's loop, and runs the menu's handlers between two pulses.  *)
(***************************************************************************)
EXTENDS Naturals, Sequences

CONSTANTS
  MaxPlayers,    \* the slots of the client's player manager
  UnsetId,       \* the id of a local player that has not been given one
  RetryTicks,    \* NETWORK_TIMEOUT, in ticks of the clock
  MaxQueue,      \* bound: events RakNet holds at once
  Empty, Local, Current, Former

ASSUME ConnectionAssumption ==
  /\ MaxPlayers \in Nat \ {0}
  /\ UnsetId \in Nat
  /\ RetryTicks \in Nat \ {0}
  /\ MaxQueue \in Nat \ {0}
  /\ Empty \notin {Local, Current, Former} /\ Local \notin {Current, Former}
  /\ Current # Former

VARIABLES
  state,     \* m_eNetworkState
  waited,    \* the ticks since m_uiLastConnectionTry, up to RetryTicks
  pulsing,   \* the game thread is in the loop of UpdateNetwork
  table,     \* the player manager: what each slot points at
  self,      \* the id of the local player
  freed,     \* the local player's object has been deleted
  link,      \* RakNet on this side: "idle", "trying" or "up"
  queue,     \* RakNet on this side: events not yet received, in order
  known,     \* RakNet on the server: it holds a connection of this client
  roster     \* what the server has told this client on this connection

gameVars == <<state, waited, pulsing, table, self, freed>>
rakVars == <<link, queue, known, roster>>
vars == <<gameVars, rakVars>>

Slot == 0 .. MaxPlayers - 1

EmptyTable == [s \in Slot |-> Empty]

Refusal == {"FULL", "FAILED", "PASSWORD", "BANNED", "ALREADY_CONNECTED"}

LinkEvent == Refusal \cup {"ACCEPTED", "CLOSED", "LOST"}

(* An event; of says, as a history field, whether the connection it is     *)
(* about is the present one.                                               *)
Event == [kind : LinkEvent \cup {"INITIAL_DATA", "NEW_PLAYER", "DELETE_PLAYER"},
          id : Slot, of : {Current, Former}]

TypeOK ==
  /\ state \in {"NONE", "CONNECTING", "CONNECTED", "DISCONNECTED", "TIMEOUT"}
  /\ waited \in 0 .. RetryTicks
  /\ pulsing \in BOOLEAN
  /\ table \in [Slot -> {Empty, Local, Current, Former}]
  /\ self \in Slot \cup {UnsetId}
  /\ freed \in BOOLEAN
  /\ link \in {"idle", "trying", "up"}
  /\ queue \in Seq(Event) /\ Len(queue) <= MaxQueue
  /\ known \in BOOLEAN
  /\ roster \in [Slot -> {Empty, Local, Current}]

(* A mutant: an attempt does not count.                                    *)
IsConnectedStrictly == state = "CONNECTED"

IsConnected == state \in {"CONNECTED", "CONNECTING"}

Init ==
  /\ state = "NONE" /\ waited = 0 /\ pulsing = FALSE
  /\ table = EmptyTable /\ self = UnsetId /\ freed = FALSE
  /\ link = "idle" /\ queue = <<>> /\ known = FALSE /\ roster = EmptyTable
-----------------------------------------------------------------------------
(* The game thread.  Once the local player is freed, what it does next is  *)
(* undefined, and the model goes no further.                               *)

(* What is left of the queue when a connection is closed from this side:   *)
(* nothing, for Disconnect shuts RakNet down and starts it again.          *)
KeptWhole == queue                \* a mutant: RakNet is not shut down

Kept == IF IsConnected THEN <<>> ELSE queue

(* The server may or may not get the notification.                         *)
MenuDisconnect ==
  /\ ~ freed /\ ~ pulsing /\ IsConnected
  /\ link' = "idle" /\ queue' = Kept /\ roster' = EmptyTable
  /\ known' \in {known, FALSE}
  /\ state' = "DISCONNECTED"
  /\ UNCHANGED <<waited, pulsing, table, self, freed>>

Aged(whose) == IF whose = Current THEN Former ELSE whose

(* Connect() disconnects first if connected, then asks RakNet, which       *)
(* starts an attempt or fails at once: a host it cannot resolve, or a link *)
(* that is not idle.                                                       *)
Attempt(started) ==
  LET before == IF IsConnected THEN "idle" ELSE link IN
  /\ started => before = "idle"
  /\ link' = IF started THEN "trying" ELSE before
  /\ queue' = [i \in DOMAIN Kept |-> [Kept[i] EXCEPT !.of = Aged(@)]]
  /\ known' \in IF IsConnected THEN {known, FALSE} ELSE {known}
  /\ roster' = EmptyTable
  /\ table' = [s \in Slot |-> Aged(table[s])]

(* A mutant: the menu does not look at what Connect returned either.       *)
MenuConnectHopeful ==
  /\ ~ freed /\ ~ pulsing
  /\ \E started \in BOOLEAN : Attempt(started)
  /\ state' = "CONNECTING"
  /\ UNCHANGED <<waited, pulsing, self, freed>>

MenuConnect ==
  /\ ~ freed /\ ~ pulsing
  /\ \/ Attempt(TRUE) /\ state' = "CONNECTING" /\ UNCHANGED waited
     \/ Attempt(FALSE) /\ state' = "DISCONNECTED" /\ waited' = 0
  /\ UNCHANGED <<pulsing, self, freed>>

TimedOut == state = "TIMEOUT" /\ waited = RetryTicks

(* A mutant: there is nothing to do while not connected.                   *)
PulseConnected ==
  /\ ~ freed /\ ~ pulsing /\ IsConnected
  /\ pulsing' = TRUE
  /\ UNCHANGED <<state, waited, table, self, freed, rakVars>>

(* Pulse() up to its loop: a retry is CONNECTING whatever Connect returned. *)
Pulse ==
  /\ ~ freed /\ ~ pulsing /\ state # "DISCONNECTED"
  /\ pulsing' = TRUE
  /\ \/ /\ TimedOut
        /\ \E started \in BOOLEAN : Attempt(started)
        /\ state' = "CONNECTING" /\ waited' = 0
     \/ ~ TimedOut /\ UNCHANGED <<state, waited, table, rakVars>>
  /\ UNCHANGED <<self, freed>>

EndPulse ==
  /\ ~ freed /\ pulsing /\ queue = <<>>
  /\ pulsing' = FALSE
  /\ UNCHANGED <<state, waited, table, self, freed, rakVars>>

(* CGame::Reset on a lost connection: the player manager deletes what its  *)
(* slots point at, the local player included.                              *)
Reset ==
  /\ table' = EmptyTable
  /\ freed' = (\E s \in Slot : table[s] = Local)

OnLink(kind) ==
  \/ /\ kind \in {"FULL", "FAILED"}
     /\ state' = "TIMEOUT" /\ waited' = 0
     /\ UNCHANGED <<table, freed>>
  \/ /\ kind = "LOST"
     /\ state' = "TIMEOUT" /\ waited' = 0
     /\ Reset
  \/ /\ kind \in {"CLOSED", "PASSWORD", "BANNED"}
     /\ state' = "DISCONNECTED"
     /\ UNCHANGED <<waited, table, freed>>
  \/ /\ kind = "ACCEPTED"
     /\ state' = "CONNECTED"
     /\ UNCHANGED <<waited, table, freed>>
  \/ /\ kind = "ALREADY_CONNECTED"      \* no case of the switch
     /\ UNCHANGED <<state, waited, table, freed>>

(* A mutant: a player is not added to a slot that is in use.               *)
ReplaceIfFree(id, what) ==
  /\ freed' = (what = Empty /\ table[id] = Local)
  /\ table' = [table EXCEPT ![id] =
                 IF what = Empty \/ @ = Empty THEN what ELSE @]

(* CPlayerManager::Add deletes what the slot pointed at.                   *)
Replace(id, what) ==
  /\ freed' = (table[id] = Local)
  /\ table' = [table EXCEPT ![id] = what]

(* A mutant: the id is the player's number, which starts at one.           *)
OnInitialDataNumbered(id) ==
  /\ self' = id + 1
  /\ table' = [table EXCEPT ![id] = Local] /\ UNCHANGED freed
  /\ state' = "CONNECTED"

(* The slot is cleared first if it points at the local player, so that Add *)
(* does not delete it.                                                     *)
OnInitialData(id) ==
  /\ self' = id
  /\ table' = [table EXCEPT ![id] = Local] /\ UNCHANGED freed
  /\ state' = "CONNECTED"

Receive ==
  /\ ~ freed /\ pulsing /\ queue # <<>>
  /\ queue' = Tail(queue)
  /\ LET e == Head(queue) IN
     \/ e.kind \in LinkEvent /\ OnLink(e.kind) /\ UNCHANGED self
     \/ /\ e.kind = "INITIAL_DATA"
        /\ OnInitialData(e.id) /\ UNCHANGED waited
     \/ /\ e.kind = "NEW_PLAYER" /\ e.id = self
        /\ UNCHANGED <<state, waited, table, self, freed>>
     \/ /\ e.kind = "NEW_PLAYER" /\ e.id # self
        /\ Replace(e.id, e.of) /\ UNCHANGED <<state, waited, self>>
     \/ /\ e.kind = "DELETE_PLAYER"
        /\ Replace(e.id, Empty) /\ UNCHANGED <<state, waited, self>>
  /\ UNCHANGED <<pulsing, link, known, roster>>

Tick ==
  /\ waited < RetryTicks
  /\ waited' = waited + 1
  /\ UNCHANGED <<state, pulsing, table, self, freed, rakVars>>
-----------------------------------------------------------------------------
(* RakNet's thread, the network and the server.                            *)

Post(kind, id) ==
  /\ Len(queue) < MaxQueue
  /\ queue' = Append(queue, [kind |-> kind, id |-> id, of |-> Current])

(* The attempt is answered.  A server that still holds the connection this *)
(* client lost answers ID_ALREADY_CONNECTED; an attempt may also fail with *)
(* the acceptance lost on its way.                                         *)
Answer ==
  /\ link = "trying"
  /\ \/ /\ ~ known
        /\ Post("ACCEPTED", 0) /\ link' = "up" /\ known' = TRUE
     \/ /\ ~ known
        /\ \E kind \in {"FULL", "PASSWORD", "BANNED"} : Post(kind, 0)
        /\ link' = "idle" /\ UNCHANGED known
     \/ Post("FAILED", 0) /\ link' = "idle" /\ known' \in BOOLEAN
     \/ known /\ Post("ALREADY_CONNECTED", 0) /\ link' = "idle" /\ UNCHANGED known
  /\ roster' = EmptyTable
  /\ UNCHANGED gameVars

(* The server is not heard of any more; it may have lost the client too.   *)
Lose ==
  /\ link = "up"
  /\ Post("LOST", 0)
  /\ link' = "idle" /\ known' \in {known, FALSE} /\ roster' = EmptyTable
  /\ UNCHANGED gameVars

Forget ==
  /\ known
  /\ known' = FALSE
  /\ UNCHANGED <<link, queue, roster, gameVars>>

CloseByServer ==
  /\ link = "up" /\ known
  /\ Post("CLOSED", 0)
  /\ link' = "idle" /\ known' = FALSE /\ roster' = EmptyTable
  /\ UNCHANGED gameVars

(* What PlayerSession sends to one client: its id, then who comes and goes. *)
Welcome(id) ==
  /\ link = "up" /\ known /\ roster = EmptyTable
  /\ Post("INITIAL_DATA", id)
  /\ roster' = [roster EXCEPT ![id] = Local]
  /\ UNCHANGED <<link, known, gameVars>>

Announce(id) ==
  /\ link = "up" /\ known /\ roster # EmptyTable
  /\ \/ /\ roster[id] = Empty
        /\ Post("NEW_PLAYER", id) /\ roster' = [roster EXCEPT ![id] = Current]
     \/ /\ roster[id] = Current
        /\ Post("DELETE_PLAYER", id) /\ roster' = [roster EXCEPT ![id] = Empty]
  /\ UNCHANGED <<link, known, gameVars>>
-----------------------------------------------------------------------------
GameStep == Pulse \/ Receive \/ EndPulse

RakNetStep ==
  \/ Answer \/ Lose \/ Forget \/ CloseByServer
  \/ \E id \in Slot : Welcome(id) \/ Announce(id)

Next == MenuConnect \/ MenuDisconnect \/ GameStep \/ Tick \/ RakNetStep

Spec == Init /\ [][Next]_vars

(* The game calls Pulse every frame, time passes, and RakNet gives up on   *)
(* an attempt that nobody answers.                                         *)
Fairness == WF_vars(GameStep) /\ WF_vars(Tick) /\ WF_vars(Answer)

FairSpec == Spec /\ Fairness
-----------------------------------------------------------------------------
(* Properties.                                                             *)

(* While RakNet holds a link or an attempt, the manager is in a state in   *)
(* which Pulse polls RakNet and Connect closes the link first.             *)
LinkIsPolled == link # "idle" => IsConnected

(* Nothing received is about a connection before the present one: no late  *)
(* ID_CONNECTION_LOST resets a new session, and no late RPC fills its      *)
(* table.                                                                  *)
QueueIsCurrent == \A i \in DOMAIN queue : queue[i].of = Current

(* With the queue drained, the table holds what the server has told this   *)
(* client on this connection, whatever sessions it had before; what is in  *)
(* the other slots is left over from those.                                *)
RosterHeld ==
  link = "up" /\ queue = <<>> /\ ~ freed =>
    \A s \in Slot : IF roster[s] = Empty THEN table[s] # Current
                                         ELSE table[s] = roster[s]

(* A client that found the server full, or lost it before it was let in,   *)
(* tries again ("Retrying...", "Reconnecting...").                         *)
RetriesAfterTimeout == (state = "TIMEOUT") ~> (state # "TIMEOUT" \/ freed)

(* The object of the local player outlives every session: CGame::Reset     *)
(* goes on to respawn it (Client/Core/Game/CGame.cpp, 191-194).            *)
LocalPlayerKept == ~ freed

(* A client becomes CONNECTING only with an attempt on its way: "Did we    *)
(* fail to connect?" leaves it DISCONNECTED (CNetworkManager.cpp, 136-141). *)
RetryStarts ==
  [][state # "CONNECTING" /\ state' = "CONNECTING" => link' = "trying"]_vars

(* A client that is CONNECTING has something to wait for: an attempt, a    *)
(* link, or an event.                                                      *)
Waiting == state = "CONNECTING" => link # "idle" \/ queue # <<>>

(* It comes to wait for nothing in two ways only, a retry whose Connect    *)
(* fails at once and the answer UpdateNetwork has no case for: no          *)
(* interleaving of the menu, the pulse, losses and refusals adds a third.  *)
StuckExplained ==
  [][Waiting =>
       \/ Waiting'
       \/ TimedOut /\ link' = "idle"
       \/ queue # <<>> /\ Head(queue).kind = "ALREADY_CONNECTED"]_vars
=============================================================================
