----------------------------- MODULE Checkpoint -----------------------------
(***************************************************************************)
(* The checkpoints of the server and their copies on the clients: scripts  *)
(* create, move, show, hide and delete them; a client that joins is sent a *)
(* snapshot, and everything later as one RPC each; a client whose player   *)
(* walks into a checkpoint or out of it reports that to the server.  The   *)
(* client's process outlives its connections, and so may its copies.       *)
(*                                                                         *)
(* Position, target, type and radius are one value, the spot: their        *)
(* setters are alike.  Scripts keep to the handles of checkpoints that     *)
(* exist (a handle is not invalidated by deleteCheckpoint).                *)
(***************************************************************************)
EXTENDS Naturals, Sequences, FiniteSets

CONSTANTS
  Client,
  Spot,
  MaxCheckpoints,  \* the slots of the checkpoint manager
  MaxCreates,      \* bound: checkpoints ever created
  MaxActs,         \* bound: the other calls of scripts
  MaxQueue,        \* bound: messages on their way to one client
  MaxReports,      \* bound: reports on their way to the server
  None, Away

VARIABLES
  checkpoints,  \* CServer's checkpoint manager
  overrun,      \* the server has written past the array of the manager
  down,         \* the server has dereferenced a null pointer
  phase,        \* the client: "out", "linked" or "joined"
  chan,         \* the RPCs on their way to each client
  inbox,        \* the RPCs of the clients on their way to the server
  copies,       \* the client's checkpoint manager
  leaked,       \* the checkpoints a marker of which no copy owns any more
  at,           \* where the client's player stands
  leftover,     \* history: the slots whose copy a former connection left
  told,         \* history: what the client was told of each checkpoint
  calm,         \* history: no script did anything while a client was joining
  creates, acts

serverVars == <<checkpoints, overrun, down>>
clientVars == <<copies, leaked, at, leftover>>
vars == <<serverVars, clientVars, phase, chan, inbox, told, calm, creates,
          acts>>

Table == INSTANCE EntityManager
           WITH MaxEntities <- MaxCheckpoints, NoEntity <- None

Slot == Table!Slot

ASSUME CheckpointAssumption ==
  /\ MaxCheckpoints \in 1 .. Table!INVALID_ENTITY_ID
  /\ MaxCreates \in Nat /\ MaxActs \in Nat
  /\ MaxQueue \in Nat \ {0} /\ MaxReports \in Nat \ {0}
  /\ Away \notin Spot

(* serial is a history field: which of all the checkpoints it is.          *)
Serial == 1 .. MaxCreates
Entity == [serial : Serial, spot : Spot, visible : BOOLEAN]
Copy == [serial : Serial, spot : Spot, visible : BOOLEAN, inside : BOOLEAN]

ASSUME NullAssumption == None \notin Entity \cup Copy

Message ==
       [rpc : {"SHOW", "HIDE", "DELETE"}, id : Slot]
  \cup [rpc : {"CREATE", "MOVE"}, id : Slot, serial : Serial, spot : Spot]
  \cup [rpc : {"SNAPSHOT"}, seen : [Slot -> Entity \cup {None}]]

Report == [rpc : {"ENTER", "EXIT"}, id : Slot, from : Client]

TypeOK ==
  /\ checkpoints \in [Slot -> Entity \cup {None}]
  /\ overrun \in BOOLEAN /\ down \in BOOLEAN
  /\ phase \in [Client -> {"out", "linked", "joined"}]
  /\ chan \in [Client -> Seq(Message)]
  /\ inbox \in Seq(Report)
  /\ copies \in [Client -> [Slot -> Copy \cup {None}]]
  /\ leaked \in [Client -> SUBSET Serial]
  /\ at \in [Client -> Spot \cup {Away}]
  /\ leftover \in [Client -> SUBSET Slot]
  /\ told \in [Client -> [Slot -> {"nothing", "shown", "hidden"}]]
  /\ calm \in BOOLEAN
  /\ creates \in 0 .. MaxCreates /\ acts \in 0 .. MaxActs

Untold == [id \in Slot |-> "nothing"]

Init ==
  /\ checkpoints = Table!EmptyTable /\ overrun = FALSE /\ down = FALSE
  /\ phase = [c \in Client |-> "out"]
  /\ chan = [c \in Client |-> <<>>] /\ inbox = <<>>
  /\ copies = [c \in Client |-> Table!EmptyTable]
  /\ leaked = [c \in Client |-> {}]
  /\ at = [c \in Client |-> Away]
  /\ leftover = [c \in Client |-> {}]
  /\ told = [c \in Client |-> Untold]
  /\ calm = TRUE /\ creates = 0 /\ acts = 0
-----------------------------------------------------------------------------
(* Scripts, on the server's thread.                                        *)

Linked == {c \in Client : phase[c] # "out"}

MayRun ==
  /\ ~ overrun /\ ~ down
  /\ \A c \in Client : Len(chan[c]) < MaxQueue
  /\ calm' = (calm /\ \A c \in Client : phase[c] # "linked")

(* One RPC to the clients in to: all the linked ones, or one of them.      *)
Send(to, message) ==
  chan' = [c \in Client |-> IF c \in to THEN Append(chan[c], message)
                                        ELSE chan[c]]

Tell(to, id, what) ==
  told' = [c \in Client |->
            IF c \in to THEN [told[c] EXCEPT ![id] = what] ELSE told[c]]

MayAct ==
  /\ MayRun /\ acts < MaxActs
  /\ acts' = acts + 1

(* CreateCheckpoint: FindFreeSlot, and Add to that slot without a look at  *)
(* what it returned.                                                       *)
Create(spot) ==
  /\ MayRun /\ creates < MaxCreates
  /\ creates' = creates + 1
  /\ LET id == Table!FindFreeSlot(checkpoints) IN
     \/ /\ id \in Slot
        /\ checkpoints' = Table!Put(checkpoints, id,
             [serial |-> creates', spot |-> spot, visible |-> TRUE])
        /\ Send(Linked, [rpc |-> "CREATE", id |-> id, serial |-> creates',
                         spot |-> spot])
        /\ Tell(Linked, id, "shown")
        /\ UNCHANGED overrun
     \/ /\ id \notin Slot
        /\ overrun' = TRUE
        /\ UNCHANGED <<checkpoints, chan, told>>
  /\ UNCHANGED <<down, phase, inbox, clientVars, acts>>

DeleteCheckpoint(id) ==
  /\ MayAct /\ Table!Exists(checkpoints, id)
  /\ checkpoints' = Table!Delete(checkpoints, id)
  /\ Send(Linked, [rpc |-> "DELETE", id |-> id])
  /\ Tell(Client, id, "nothing")
  /\ UNCHANGED <<overrun, down, phase, inbox, clientVars, creates>>

(* SetPosition, SetTargetPosition, SetType and SetRadius.                  *)
Move(id, spot) ==
  /\ MayAct /\ Table!Exists(checkpoints, id)
  /\ checkpoints' = [checkpoints EXCEPT ![id].spot = spot]
  /\ Send(Linked, [rpc |-> "MOVE", id |-> id, spot |-> spot,
                   serial |-> checkpoints[id].serial])
  /\ UNCHANGED <<overrun, down, phase, inbox, clientVars, told, creates>>

(* ShowForAll and HideForAll.  A client ignores the RPC if it has no copy. *)
ShowForAll(id, visible) ==
  /\ MayAct /\ Table!Exists(checkpoints, id)
  /\ checkpoints' = [checkpoints EXCEPT ![id].visible = visible]
  /\ Send(Linked, [rpc |-> IF visible THEN "SHOW" ELSE "HIDE", id |-> id])
  /\ told' = [c \in Client |->
       IF told[c][id] = "nothing" THEN told[c]
       ELSE [told[c] EXCEPT ![id] = IF visible THEN "shown" ELSE "hidden"]]
  /\ UNCHANGED <<overrun, down, phase, inbox, clientVars, creates>>

(* ShowForPlayer and HideForPlayer: the server records nothing.            *)
ShowForPlayer(id, c, visible) ==
  /\ MayAct /\ Table!Exists(checkpoints, id) /\ phase[c] = "joined"
  /\ Send({c}, [rpc |-> IF visible THEN "SHOW" ELSE "HIDE", id |-> id])
  /\ IF told[c][id] = "nothing" THEN UNCHANGED told
     ELSE Tell({c}, id, IF visible THEN "shown" ELSE "hidden")
  /\ UNCHANGED <<serverVars, phase, inbox, clientVars, creates>>
-----------------------------------------------------------------------------
(* Connections.  PlayerSession models them; here a client links, joins     *)
(* (DownloadFinished sends the snapshot), and its connection ends, on both *)
(* sides at once.  A new connection looks at nothing an old one left.      *)

Link(c) ==
  /\ phase[c] = "out"
  /\ phase' = [phase EXCEPT ![c] = "linked"]
  /\ UNCHANGED <<serverVars, clientVars, chan, inbox, told, calm, creates,
                 acts>>

(* The checkpoints a joiner is sent: the visible ones.                     *)
Seen == [id \in Slot |->
          IF checkpoints[id] # None /\ checkpoints[id].visible
          THEN checkpoints[id] ELSE None]

Join(c) ==
  /\ phase[c] = "linked" /\ ~ overrun /\ ~ down
  /\ phase' = [phase EXCEPT ![c] = "joined"]
  /\ IF Seen = Table!EmptyTable THEN UNCHANGED chan
     ELSE Send({c}, [rpc |-> "SNAPSHOT", seen |-> Seen])
  /\ told' = [told EXCEPT ![c] =
       [id \in Slot |-> IF Seen[id] # None THEN "shown" ELSE @[id]]]
  /\ UNCHANGED <<serverVars, clientVars, inbox, calm, creates, acts>>

(* What the client reported comes before its leaving in the server's       *)
(* queue; what is on its way to it is lost.                                *)
EndOfConnection(c) ==
  /\ phase[c] # "out" /\ \A i \in DOMAIN inbox : inbox[i].from # c
  /\ phase' = [phase EXCEPT ![c] = "out"]
  /\ chan' = [chan EXCEPT ![c] = <<>>]
  /\ told' = [told EXCEPT ![c] = Untold]
  /\ UNCHANGED <<serverVars, inbox, calm, creates, acts>>

(* The menu's button, a Connect while connected, or the notification that  *)
(* the server has closed the connection: the copies stay, and their        *)
(* markers with them.                                                      *)
Disconnect(c) ==
  /\ EndOfConnection(c)
  /\ leftover' = [leftover EXCEPT ![c] = {id \in Slot : copies[c][id] # None}]
  /\ UNCHANGED <<copies, leaked, at>>

(* The checkpoints that have a marker in the client's game through a copy. *)
Marked(c, slots) ==
  {copies[c][id].serial :
     id \in {s \in slots : copies[c][s] # None /\ copies[c][s].visible}}

(* ID_CONNECTION_LOST: CGame::Reset deletes the copies, hides none of      *)
(* them, and puts the player elsewhere.                                    *)
Lose(c, spot) ==
  /\ EndOfConnection(c)
  /\ copies' = [copies EXCEPT ![c] = Table!EmptyTable]
  /\ leaked' = [leaked EXCEPT ![c] = @ \cup Marked(c, Slot)]
  /\ leftover' = [leftover EXCEPT ![c] = {}]
  /\ at' = [at EXCEPT ![c] = spot]

(* The client's process ends, and another one starts.                      *)
Restart(c) ==
  /\ phase[c] = "out"
  /\ copies' = [copies EXCEPT ![c] = Table!EmptyTable]
  /\ leaked' = [leaked EXCEPT ![c] = {}]
  /\ leftover' = [leftover EXCEPT ![c] = {}]
  /\ at' = [at EXCEPT ![c] = Away]
  /\ UNCHANGED <<serverVars, phase, chan, inbox, told, calm, creates, acts>>
-----------------------------------------------------------------------------
(* The client.                                                             *)

(* A mutant: the spot is not read off the message.                         *)
NewCopyAnywhere(serial, spot) ==
  [serial |-> serial, spot |-> Away, visible |-> TRUE, inside |-> FALSE]

NewCopy(serial, spot) ==
  [serial |-> serial, spot |-> spot, visible |-> TRUE, inside |-> FALSE]

(* Add deletes the copy the slot held, but nothing takes its marker away.  *)
AddCopies(c, new) ==
  /\ copies' = [copies EXCEPT ![c] =
       [id \in Slot |-> IF id \in DOMAIN new THEN new[id] ELSE @[id]]]
  /\ leaked' = [leaked EXCEPT ![c] = @ \cup Marked(c, DOMAIN new)]
  /\ leftover' = [leftover EXCEPT ![c] = @ \ DOMAIN new]

(* A mutant: the copy is deleted without being hidden.                     *)
OnDeletePlain(c, id) ==
  /\ copies' = [copies EXCEPT ![c] = Table!Delete(@, id)]
  /\ leaked' = [leaked EXCEPT ![c] = @ \cup Marked(c, {id})]
  /\ leftover' = [leftover EXCEPT ![c] = @ \ {id}]

(* The copy is hidden, which takes its marker away, and deleted.           *)
OnDelete(c, id) ==
  /\ copies' = [copies EXCEPT ![c] = Table!Delete(@, id)]
  /\ leftover' = [leftover EXCEPT ![c] = @ \ {id}]
  /\ UNCHANGED leaked

(* A mutant: only a visible copy takes the new spot.                       *)
OnChangeVisible(c, m) ==
  LET copy == copies[c][m.id] IN
  /\ \/ copy = None /\ UNCHANGED copies
     \/ /\ copy # None
        /\ copies' = [copies EXCEPT ![c][m.id] =
             CASE m.rpc = "MOVE" -> IF copy.visible
                                    THEN [copy EXCEPT !.spot = m.spot] ELSE copy
               [] m.rpc = "SHOW" -> [copy EXCEPT !.visible = TRUE]
               [] m.rpc = "HIDE" -> [copy EXCEPT !.visible = FALSE]]
  /\ UNCHANGED <<leaked, leftover>>

(* MOVE, SHOW and HIDE of a copy; no copy, no effect.                      *)
OnChange(c, m) ==
  LET copy == copies[c][m.id] IN
  /\ \/ copy = None /\ UNCHANGED copies
     \/ /\ copy # None
        /\ copies' = [copies EXCEPT ![c][m.id] =
             CASE m.rpc = "MOVE" -> [copy EXCEPT !.spot = m.spot]
               [] m.rpc = "SHOW" -> [copy EXCEPT !.visible = TRUE]
               [] m.rpc = "HIDE" -> [copy EXCEPT !.visible = FALSE]]
  /\ UNCHANGED <<leaked, leftover>>

Deliver(c) ==
  /\ chan[c] # <<>>
  /\ chan' = [chan EXCEPT ![c] = Tail(@)]
  /\ LET m == Head(chan[c]) IN
     \/ /\ m.rpc = "SNAPSHOT"
        /\ AddCopies(c, [id \in {s \in Slot : m.seen[s] # None} |->
                          NewCopy(m.seen[id].serial, m.seen[id].spot)])
     \/ /\ m.rpc = "CREATE"
        /\ AddCopies(c, [id \in {m.id} |-> NewCopy(m.serial, m.spot)])
     \/ m.rpc = "DELETE" /\ OnDelete(c, m.id)
     \/ m.rpc \in {"MOVE", "SHOW", "HIDE"} /\ OnChange(c, m)
  /\ UNCHANGED <<serverVars, at, phase, inbox, told, calm, creates,
                 acts>>

Walk(c, spot) ==
  /\ at[c] # spot
  /\ at' = [at EXCEPT ![c] = spot]
  /\ UNCHANGED <<serverVars, copies, leaked, leftover, phase, chan, inbox,
                 told, calm, creates, acts>>

(* CCheckpointEntity::Pulse: the player has come into a visible copy, or   *)
(* has left one it was in.  A handler of the client's scripts may take the *)
(* event, or there is no connection (Call), and nothing is sent.           *)
Pulse(c, id) ==
  LET copy == copies[c][id] IN
  /\ copy # None /\ copy.visible /\ copy.inside # (at[c] = copy.spot)
  /\ copies' = [copies EXCEPT ![c][id].inside = ~ copy.inside]
  /\ \/ /\ phase[c] # "out" /\ Len(inbox) < MaxReports
        /\ inbox' = Append(inbox,
             [rpc |-> IF copy.inside THEN "EXIT" ELSE "ENTER",
              id |-> id, from |-> c])
     \/ UNCHANGED inbox
  /\ UNCHANGED <<serverVars, leaked, at, leftover, phase, chan, told, calm,
                 creates, acts>>

(* CheckpointEnter and CheckpointExit on the server: the id is looked up,  *)
(* and the script object of what was found passed to the event, null or    *)
(* not, if the client has a player.                                        *)
HandleReport ==
  /\ inbox # <<>> /\ ~ overrun /\ ~ down
  /\ inbox' = Tail(inbox)
  /\ down' = (/\ phase[Head(inbox).from] = "joined"
              /\ ~ Table!Exists(checkpoints, Head(inbox).id))
  /\ UNCHANGED <<checkpoints, overrun, clientVars, phase, chan, told,
                 calm, creates, acts>>
-----------------------------------------------------------------------------
Script ==
  \/ \E spot \in Spot : Create(spot)
  \/ \E id \in Slot :
       \/ DeleteCheckpoint(id)
       \/ \E spot \in Spot : Move(id, spot)
       \/ \E visible \in BOOLEAN :
            \/ ShowForAll(id, visible)
            \/ \E c \in Client : ShowForPlayer(id, c, visible)

ClientStep(c) ==
  \/ Link(c) \/ Join(c) \/ Disconnect(c) \/ Restart(c) \/ Deliver(c)
  \/ \E spot \in Spot \cup {Away} : Lose(c, spot) \/ Walk(c, spot)
  \/ \E id \in Slot : Pulse(c, id)

Next == Script \/ HandleReport \/ \E c \in Client : ClientStep(c)

Spec == Init /\ [][Next]_vars
-----------------------------------------------------------------------------
(* Properties.                                                             *)

(* With nothing on its way, a client that joined has a copy of each        *)
(* checkpoint it was told of, the present one of its slot, where the       *)
(* server has it, and visible as the last call for this client said.  Any  *)
(* other copy it has was left by a former connection of its process: in    *)
(* the first one, and after CGame::Reset, there is none.  (A client is     *)
(* told nothing of the checkpoints that are hidden when it joins.)         *)
CopiesConverge ==
  \A c \in Client : phase[c] = "joined" /\ chan[c] = <<>> =>
    \A id \in Slot :
      IF told[c][id] = "nothing"
      THEN copies[c][id] # None => id \in leftover[c]
      ELSE /\ copies[c][id] # None /\ checkpoints[id] # None
           /\ copies[c][id].serial = checkpoints[id].serial
           /\ copies[c][id].spot = checkpoints[id].spot
           /\ copies[c][id].visible = (told[c][id] = "shown")

(* A marker that no copy owns could never be removed from the client's     *)
(* game (CNetworkRPC.cpp of the client, where every RPC reaches a marker   *)
(* through its copy).  As long as scripts leave checkpoints alone while a  *)
(* client joins, one comes about only where the connection is lost, or     *)
(* where a copy that a former connection left is replaced.                 *)
NoMarkerLeaks ==
  [][calm' =>
       \A c \in Client : \A serial \in leaked'[c] \ leaked[c] :
         \/ phase[c] # "out" /\ phase'[c] = "out"
         \/ \E id \in leftover[c] :
              copies[c][id] # None /\ copies[c][id].serial = serial]_vars

(* The id given to Add is a slot (CEntityManager.h, line 70:               *)
(* assert(entityId < max)).                                                *)
IdIsSlot == ~ overrun
=============================================================================
