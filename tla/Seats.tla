------------------------------- MODULE Seats --------------------------------
(***************************************************************************)
(* A player and the vehicles, as seen by two clients: the player's own,    *)
(* whose keys and game decide where the player sits, and a watcher, which  *)
(* follows the synchronisation packets that the server relays.  Scripts of *)
(* the server put the player into a vehicle and take it out.               *)
(*                                                                         *)
(* Every message here is UNRELIABLE_SEQUENCED: it may be lost, and one     *)
(* that has been overtaken is dropped.  The game is external: a ped gets   *)
(* in and out by tasks that take time, and its warps are immediate.  The   *)
(* player is alive, spawned, and both clients know every vehicle.          *)
(***************************************************************************)
EXTENDS Naturals, Sequences, FiniteSets

CONSTANTS
  Vehicle,
  Passengers,  \* GetMaxPassengers of every vehicle
  MaxActs,     \* bound: calls of scripts
  MaxMoves,    \* bound: those, and presses of the keys that matter here
  MaxQueue,    \* bound: messages on their way to one receiver
  None,        \* no vehicle: a null pointer, or the id 0xFFFF
  Own, Watcher

ASSUME SeatsAssumption ==
  /\ Passengers \in 1 .. 8
  /\ MaxActs \in Nat /\ MaxMoves \in Nat /\ MaxQueue \in Nat \ {0}
  /\ None \notin Vehicle /\ Own # Watcher

VARIABLES
  player,     \* each client's CPlayerEntity of the player
  occupants,  \* each client's m_pDriver and m_pPassengers that are the player
  down,       \* the client has dereferenced a null pointer
  server,     \* the server's CPlayerEntity
  chan,       \* the messages to each client
  up,         \* the messages of the player's client to the server
  calm,       \* history: no script has moved the player
  doubled,    \* history: the key was pressed before an exit had ended
  acts, moves

histories == <<calm, doubled>>
vars == <<player, occupants, down, server, chan, up, histories, acts, moves>>

Client == {Own, Watcher}
Seat == 0 .. Passengers
Somewhere == Vehicle \cup {None}

(* vehicle and seat are m_pVehicle and m_byteSeat; entering, target, aim   *)
(* and exiting are m_pVehicleEnterExit; ped is the vehicle the game's ped  *)
(* sits in, and task its primary task, as far as it is about vehicles.     *)
Player == [vehicle : Somewhere, seat : Seat, entering : BOOLEAN,
           target : Somewhere, aim : Seat, exiting : BOOLEAN,
           ped : Somewhere, task : {"none", "in", "out"}]

Sync == [kind : {"ONFOOT", "VEHICLE", "PASSENGER"}, vehicle : Somewhere,
         seat : Seat]
Order == [kind : {"PUT"}, vehicle : Vehicle, seat : Seat]
         \cup [kind : {"REMOVE"}]

TypeOK ==
  /\ player \in [Client -> Player]
  /\ occupants \in [Client -> SUBSET (Vehicle \X Seat)]
  /\ down \in [Client -> BOOLEAN]
  /\ server \in Sync
  /\ chan \in [Client -> Seq(Sync \cup Order)] /\ up \in Seq(Sync)
  /\ calm \in BOOLEAN /\ doubled \in BOOLEAN
  /\ acts \in 0 .. MaxActs /\ moves \in acts .. MaxMoves

OnFoot == [kind |-> "ONFOOT", vehicle |-> None, seat |-> 0]

Init ==
  /\ player = [c \in Client |->
                [vehicle |-> None, seat |-> 0, entering |-> FALSE,
                 target |-> None, aim |-> 0, exiting |-> FALSE,
                 ped |-> None, task |-> "none"]]
  /\ occupants = [c \in Client |-> {}]
  /\ down = [c \in Client |-> FALSE]
  /\ server = OnFoot
  /\ chan = [c \in Client |-> <<>>] /\ up = <<>>
  /\ calm = TRUE /\ doubled = FALSE
  /\ acts = 0 /\ moves = 0
-----------------------------------------------------------------------------
(* CPlayerEntity on a client.  An operation takes and returns a view: the  *)
(* player's record and the seats of vehicles that list the player.         *)

View(c) == [p |-> player[c], listed |-> occupants[c]]

Seen(c, view) ==
  /\ player' = [player EXCEPT ![c] = view.p]
  /\ occupants' = [occupants EXCEPT ![c] = view.listed]

(* A mutant: the seat is reset before the vehicle is told.                 *)
VacateSeatFirst(view) ==
  [p |-> [view.p EXCEPT !.vehicle = None, !.seat = 0],
   listed |-> view.listed \ {<<view.p.vehicle, 0>>}]

(* SetOccupant(m_byteSeat, nullptr), and the pointer and the seat reset.   *)
Vacate(view) ==
  [p |-> [view.p EXCEPT !.vehicle = None, !.seat = 0],
   listed |-> view.listed \ {<<view.p.vehicle, view.p.seat>>}]

ResetVehicleEnterExit(view) ==
  LET left == IF view.p.vehicle # None /\ view.p.exiting THEN Vacate(view)
                                                         ELSE view
  IN  [left EXCEPT !.p = [@ EXCEPT !.entering = FALSE, !.target = None,
                                   !.aim = 0, !.exiting = FALSE,
                                   !.task = "none"]]

RemoveFromVehicle(view) ==
  IF view.p.vehicle = None THEN view
  ELSE ResetVehicleEnterExit(Vacate([view EXCEPT !.p.ped = None]))

Store(view, v, s) ==
  [p |-> [view.p EXCEPT !.vehicle = v, !.seat = s],
   listed |-> view.listed \cup {<<v, s>>}]

(* A ped that sits in some vehicle is not warped.                          *)
InternalPutInVehicle(view, v) ==
  IF view.p.ped = None THEN [view EXCEPT !.p.ped = v] ELSE view

PutInVehicle(view, v, s) ==
  LET out == RemoveFromVehicle(view)
      warped == InternalPutInVehicle(out, v)
  IN  Store(ResetVehicleEnterExit(warped), v, s)

EnterVehicle(view, v, s) ==
  IF view.p.vehicle # None THEN view
  ELSE [view EXCEPT !.p = [@ EXCEPT !.task = "in", !.entering = TRUE,
                                    !.target = v, !.aim = s]]

ClearVehicleEntryTask(view) ==
  IF view.p.task = "in" THEN [view EXCEPT !.p.task = "none"] ELSE view

(* A mutant: the vehicle is forgotten as the exit begins.                  *)
ExitForgetting(view) ==
  IF view.p.vehicle = None THEN view
  ELSE [Vacate(view) EXCEPT !.p.task = "out", !.p.exiting = TRUE]

ExitVehicle(view) ==
  IF view.p.vehicle # None
  THEN [view EXCEPT !.p = [@ EXCEPT !.task = "out", !.exiting = TRUE]]
  ELSE IF view.p.entering \/ view.p.exiting THEN ClearVehicleEntryTask(view)
  ELSE view
-----------------------------------------------------------------------------
(* The game: the tasks of the ped.                                         *)

Ped(c, p) ==
  /\ ~ down[c]
  /\ player' = [player EXCEPT ![c] = p]
  /\ UNCHANGED <<occupants, down, server, chan, up, histories, acts, moves>>

(* A ped on its way into one vehicle gets out of another one first.        *)
Sit(c) ==
  LET p == player[c] IN
  /\ p.task = "in" /\ p.ped # p.target
  /\ Ped(c, [p EXCEPT !.ped = IF @ = None THEN p.target ELSE None])

Rise(c) ==
  LET p == player[c] IN
  /\ p.task = "out" /\ p.ped # None
  /\ Ped(c, [p EXCEPT !.ped = None])

EndTask(c) ==
  LET p == player[c] IN
  /\ \/ p.task = "in" /\ p.ped = p.target
     \/ p.task = "out" /\ p.ped = None
  /\ Ped(c, [p EXCEPT !.task = "none"])

CancelEntry(c) ==
  LET p == player[c] IN
  /\ p.task = "in" /\ p.ped = None
  /\ Ped(c, [p EXCEPT !.task = "none"])
-----------------------------------------------------------------------------
(* CLocalPlayer::Pulse.                                                    *)

(* A mutant: an entry that has ended well is off too.                      *)
AbortedAnywhere(view) ==
  IF view.p.entering /\ view.p.task # "in"
  THEN [view EXCEPT !.p.entering = FALSE] ELSE view

(* The entry of a ped whose task is gone is off.                           *)
CheckAborted(view) ==
  IF view.p.ped = None /\ view.p.entering /\ view.p.task # "in"
  THEN [view EXCEPT !.p.entering = FALSE] ELSE view

(* CheckVehicleEnterExit with the key that gets in, v the closest vehicle. *)
(* EnterVehicle refuses a player whose m_pVehicle is set: that is why it   *)
(* is reset, without SetOccupant.                                          *)
KeyIn(view, v, s) ==
  IF view.p.entering THEN view
  ELSE EnterVehicle([view EXCEPT !.p.vehicle = None], v, s)

(* CheckVehicleEnterExit with the key that gets out.                       *)
KeyOut(view) == IF view.p.exiting THEN view ELSE ExitVehicle(view)

(* A mutant: the vehicle and the seat are reset before they are stored.    *)
EntryForgotten(view) ==
  LET reset == ResetVehicleEnterExit(view) IN
  Store(reset, reset.p.target, reset.p.aim)

EntryComplete(view) ==
  ResetVehicleEnterExit(Store(view, view.p.target, view.p.aim))

ProcessVehicleEnterExit(view) ==
  IF view.p.ped # None /\ view.p.entering /\ view.p.task # "in"
  THEN EntryComplete(view)
  ELSE IF view.p.ped = None /\ view.p.exiting /\ view.p.task # "out"
  THEN ResetVehicleEnterExit(view)
  ELSE view

Serialize(p) ==
  IF p.vehicle = None THEN OnFoot
  ELSE [kind |-> IF p.seat = 0 THEN "VEHICLE" ELSE "PASSENGER",
        vehicle |-> p.vehicle, seat |-> p.seat]

(* A message that does not arrive is lost as it is sent; what is full      *)
(* loses its oldest message.                                               *)
Sent(queue, message) ==
  Append(IF Len(queue) < MaxQueue THEN queue ELSE Tail(queue), message)

(* ProcessVehicleEnterExit, and the packet if one is due.                  *)
EndPulse(view, arrives) ==
  LET done == ProcessVehicleEnterExit(view) IN
  /\ Seen(Own, done)
  /\ up' = IF arrives THEN Sent(up, Serialize(done.p)) ELSE up
  /\ UNCHANGED <<server, chan, calm, acts>>

Pulse(arrives) ==
  /\ ~ down[Own]
  /\ EndPulse(CheckAborted(View(Own)), arrives)
  /\ UNCHANGED <<down, doubled, moves>>

Move == moves < MaxMoves /\ moves' = moves + 1

PressToEnter(v, s, arrives) ==
  LET view == CheckAborted(View(Own)) IN
  /\ Move /\ ~ down[Own] /\ view.p.ped = None
  /\ EndPulse(KeyIn(view, v, s), arrives)
  /\ doubled' = (doubled \/ view.p.vehicle # None)
  /\ UNCHANGED down

(* GetVehicle()->GetId() follows, whether or not there is a vehicle.       *)
PressToExit(arrives) ==
  LET view == View(Own) IN
  /\ Move /\ ~ down[Own] /\ view.p.ped # None
  /\ down' = [down EXCEPT ![Own] = ~ view.p.exiting /\ view.p.vehicle = None]
  /\ EndPulse(KeyOut(view), arrives)
  /\ UNCHANGED doubled
-----------------------------------------------------------------------------
(* The server.                                                             *)

PlayerSync ==
  /\ up # <<>> /\ up' = Tail(up)
  /\ server' = Head(up)
  /\ UNCHANGED <<player, occupants, down, chan, histories, acts, moves>>

(* CPlayerEntity::Pulse: the kind is that of the last packet, the vehicle  *)
(* is m_vehicleId, which a script may have changed since.  The packet of a *)
(* driver without vehicle has an id that was never written.                *)
Relayed ==
  IF server.kind = "ONFOOT" THEN {OnFoot}
  ELSE IF server.kind = "VEHICLE" /\ server.vehicle = None
  THEN {[server EXCEPT !.vehicle = v] : v \in Somewhere}
  ELSE {server}

(* The player's own client returns as soon as it sees whose packet it is.  *)
Relay ==
  \E message \in Relayed :
  /\ chan' = [chan EXCEPT ![Watcher] = Sent(@, message)]
  /\ UNCHANGED <<player, occupants, down, server, up, histories, acts, moves>>

ScriptCall(message, to) ==
  /\ Move /\ acts < MaxActs /\ acts' = acts + 1
  /\ chan' = [c \in Client |-> IF c \in to THEN Sent(chan[c], message)
                                          ELSE chan[c]]
  /\ calm' = FALSE
  /\ UNCHANGED <<player, occupants, down, up, doubled>>

PutIntoVehicle(v, s, to) ==
  /\ server' = [server EXCEPT !.vehicle = v]
  /\ ScriptCall([kind |-> "PUT", vehicle |-> v, seat |-> s], to)

TakeOut(to) ==
  /\ server' = [server EXCEPT !.vehicle = None]
  /\ ScriptCall([kind |-> "REMOVE"], to)
-----------------------------------------------------------------------------
(* The RPC handlers of the clients.                                        *)

Handle(c, kind, view) ==
  /\ chan[c] # <<>> /\ Head(chan[c]).kind = kind /\ ~ down[c]
  /\ chan' = [chan EXCEPT ![c] = Tail(@)]
  /\ Seen(c, view)
  /\ UNCHANGED <<server, up, histories, acts, moves>>

OnPut(c) ==
  LET message == Head(chan[c]) IN
  /\ Handle(c, "PUT", EnterVehicle(RemoveFromVehicle(View(c)),
                                   message.vehicle, message.seat))
  /\ UNCHANGED down

OnRemove(c) ==
  LET view == View(c) IN
  /\ Handle(c, "REMOVE", IF view.p.vehicle = None THEN view
                                                  ELSE ExitVehicle(view))
  /\ UNCHANGED down

OnFootSync ==
  LET view == View(Watcher) IN
  /\ Handle(Watcher, "ONFOOT", IF view.p.ped = None THEN view
                                                    ELSE ExitVehicle(view))
  /\ UNCHANGED down

(* A mutant: any vehicle will do.                                          *)
FollowIntoAny(view, v, s) ==
  IF view.p.ped # None THEN view
  ELSE PutInVehicle(ResetVehicleEnterExit(view), v, s)

(* A ped that does not sit in the vehicle of the packet is put there.      *)
Follow(view, v, s) ==
  IF view.p.ped = v THEN view
  ELSE PutInVehicle(ResetVehicleEnterExit(view), v, s)

(* GetAt(vehicleId)->IsSpawned(), and, for a driver whose ped is in that   *)
(* vehicle, m_pVehicle->GetId().                                           *)
Dereferences(p, kind, v) ==
  v = None \/ (kind = "VEHICLE" /\ p.ped = v /\ p.vehicle = None)

SeatedSync(kind) ==
  LET view == View(Watcher)
      message == Head(chan[Watcher])
      fails == Dereferences(view.p, kind, message.vehicle)
  IN  /\ Handle(Watcher, kind,
                IF fails THEN view
                         ELSE Follow(view, message.vehicle, message.seat))
      /\ down' = [down EXCEPT ![Watcher] = fails]

OnVehicleSync == SeatedSync("VEHICLE")
OnPassengerSync == SeatedSync("PASSENGER")
-----------------------------------------------------------------------------
Game(c) == Sit(c) \/ Rise(c) \/ EndTask(c) \/ CancelEntry(c)
Follows == OnFootSync \/ OnVehicleSync \/ OnPassengerSync
LocalPulse(arrives) ==
  \/ Pulse(arrives) \/ PressToExit(arrives)
  \/ \E v \in Vehicle, s \in {0, Passengers} : PressToEnter(v, s, arrives)

Next ==
  \/ \E arrives \in BOOLEAN : LocalPulse(arrives)
  \/ \E c \in Client : Game(c) \/ OnPut(c) \/ OnRemove(c)
  \/ \E to \in SUBSET Client :
       \/ TakeOut(to)
       \/ \E v \in Vehicle, s \in Seat : PutIntoVehicle(v, s, to)
  \/ PlayerSync \/ Relay \/ Follows

(* Both pulses run on, and of the packets they keep sending some arrive;   *)
(* the watcher handles what has arrived, and its game lets a ped get out.  *)
Fairness ==
  /\ WF_vars(Pulse(TRUE)) /\ WF_vars(PlayerSync)
  /\ WF_vars(Relay)
  /\ WF_vars(Follows \/ OnPut(Watcher) \/ OnRemove(Watcher))
  /\ WF_vars(Rise(Watcher))

Spec == Init /\ [][Next]_vars
FairSpec == Spec /\ Fairness
-----------------------------------------------------------------------------
(* On the player's own client, m_pVehicle is where the ped sits, except    *)
(* while it is getting in: no key, cancelled entry or entry begun before   *)
(* the last exit ended makes the two disagree.  Scripts do, so they are    *)
(* left out (see the README).  Every use of m_pVehicle behind              *)
(* InternalIsInAnyVehicle, CLocalPlayer.cpp:236 for one, relies on this.   *)
SeatedIsKnown ==
  LET p == player[Own] IN
  calm /\ p.ped # None /\ ~ p.entering => p.vehicle = p.ped

(* A watcher never dereferences null as long as no script moves the        *)
(* player: whatever packets are lost, a ped it has seated has an           *)
(* m_pVehicle (CPlayerEntity::Deserialize).                                *)
WatcherUp == calm => ~ down[Watcher]

(* A client's vehicles list the player in the seat it has by m_pVehicle    *)
(* and m_byteSeat and in no other, through every put, removal and reset;   *)
(* the exception is a key pressed before an exit has ended, which forgets  *)
(* m_pVehicle alone and leaves a stale driver behind.                      *)
OccupantsHeld ==
  \A c \in Client :
    LET p == player[c]
        held == IF p.vehicle = None THEN {} ELSE {<<p.vehicle, p.seat>>}
    IN  held \subseteq occupants[c]
        /\ (occupants[c] # held => c = Own /\ doubled)

(* If the player stays where it is, the watcher's ped comes to sit in the  *)
(* same vehicle, or to stand outside of any, in spite of every packet that *)
(* was lost and of the exits and entries the watcher's ped was still busy  *)
(* with.  (Not the same seat: a packet that names the vehicle the ped is   *)
(* in does not move it.)                                                   *)
WatcherCatchesUp ==
  \A v \in Somewhere :
    <>[](calm /\ ~ down[Own] /\ player[Own].vehicle = v)
      => <>[](player[Watcher].ped = v)
=============================================================================
