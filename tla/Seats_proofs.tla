---------------------------- MODULE Seats_proofs -----------------------------
(***************************************************************************)
(* Proofs about Seats, for any vehicles, seats, bounds and losses: types,  *)
(* who is listed in which seat on either client, that the player's own     *)
(* client knows where its ped sits, and that a watcher never dereferences  *)
(* null as long as no script moves the player.                             *)
(***************************************************************************)
EXTENDS Seats, TLAPS

ViewType == [p : Player, listed : SUBSET (Vehicle \X Seat)]

LEMMA Bounds ==
  /\ Passengers \in Nat /\ Passengers > 0 /\ 0 \in Seat /\ Passengers \in Seat
  /\ MaxQueue \in Nat /\ MaxQueue > 0 /\ MaxActs \in Nat /\ MaxMoves \in Nat
  /\ None \notin Vehicle /\ Own # Watcher
BY SeatsAssumption DEF SeatsAssumption, Seat

(* The one way a queue grows: what it holds was there, or is the message.  *)
LEMMA SentIsSeq ==
  ASSUME NEW S, NEW queue \in Seq(S), NEW message \in S
  PROVE  Sent(queue, message) \in Seq(S)
<1>1. CASE Len(queue) < MaxQueue
  BY <1>1 DEF Sent
<1>2. CASE ~ (Len(queue) < MaxQueue)
  <2>1. queue # <<>>
    BY <1>2, Bounds
  <2>2. Tail(queue) \in Seq(S)
    BY <2>1
  <2> QED BY <1>2, <2>2 DEF Sent
<1> QED BY <1>1, <1>2

LEMMA TakenFromSeq ==
  ASSUME NEW S, NEW queue \in Seq(S), queue # <<>>
  PROVE  Head(queue) \in S /\ Tail(queue) \in Seq(S)
OBVIOUS
-----------------------------------------------------------------------------
(* The operations of CPlayerEntity take views to views, and of what they   *)
(* do to the seats: a view is exact when its vehicles list the player in   *)
(* the seat it has and in no other, and covered when they list it at least *)
(* there.                                                                  *)

HeldBy(p) == IF p.vehicle = None THEN {} ELSE {<<p.vehicle, p.seat>>}
Covered(view) == HeldBy(view.p) \subseteq view.listed
Exact(view) == HeldBy(view.p) = view.listed

(* A client on which the player is getting in knows where, and has it in   *)
(* no vehicle yet.                                                         *)
EntryKnown(p) == p.entering => p.vehicle = None /\ p.target \in Vehicle

(* An operation is safe if a view keeps what it had of all this.           *)
Safe(view, after) ==
  /\ after \in ViewType
  /\ Covered(view) => Covered(after)
  /\ Exact(view) => Exact(after)
  /\ EntryKnown(view.p) => EntryKnown(after.p)

LEMMA SafeTwice ==
  ASSUME NEW a, NEW b, NEW c, Safe(a, b), Safe(b, c)
  PROVE  Safe(a, c)
BY DEF Safe

LEMMA SafeSame == \A view \in ViewType : Safe(view, view)
BY DEF Safe

LEMMA VacateSafe ==
  ASSUME NEW view \in ViewType
  PROVE  /\ Safe(view, Vacate(view))
         /\ Vacate(view).p = [view.p EXCEPT !.vehicle = None, !.seat = 0]
         /\ Vacate(view).p.vehicle = None
<1> DEFINE after == Vacate(view)
<1>1. /\ after.p = [view.p EXCEPT !.vehicle = None, !.seat = 0]
      /\ after.listed = view.listed \ {<<view.p.vehicle, view.p.seat>>}
      /\ after.p.vehicle = None
      /\ after \in ViewType
  BY Bounds DEF Vacate, ViewType, Player, Somewhere
<1>2. HeldBy(after.p) = {}
  BY <1>1 DEF HeldBy
<1>3. Exact(view) => Exact(after)
  BY <1>1, <1>2 DEF Exact, HeldBy
<1> QED BY <1>1, <1>2, <1>3 DEF Safe, Covered, EntryKnown, ViewType, Player

LEMMA ResetSafe ==
  ASSUME NEW view \in ViewType
  PROVE  LET after == ResetVehicleEnterExit(view) IN
         /\ Safe(view, after)
         /\ ~ after.p.entering /\ ~ after.p.exiting /\ after.p.task = "none"
         /\ after.p.ped = view.p.ped
         /\ after.p.vehicle =
              IF view.p.exiting THEN None ELSE view.p.vehicle
<1> DEFINE left == IF view.p.vehicle # None /\ view.p.exiting THEN Vacate(view)
                                                              ELSE view
           after == ResetVehicleEnterExit(view)
<1>1. Safe(view, left) /\ left \in ViewType
  BY VacateSafe, SafeSame DEF Safe
<1>2. /\ left.p.ped = view.p.ped
      /\ left.p.vehicle = IF view.p.exiting THEN None ELSE view.p.vehicle
  BY VacateSafe DEF ViewType, Player
<1>3. after = [left EXCEPT !.p = [@ EXCEPT !.entering = FALSE, !.target = None,
                                   !.aim = 0, !.exiting = FALSE,
                                   !.task = "none"]]
  BY DEF ResetVehicleEnterExit
<1> HIDE DEF left, after
<1>4. /\ after \in ViewType
      /\ after.listed = left.listed
      /\ after.p.vehicle = left.p.vehicle /\ after.p.seat = left.p.seat
      /\ ~ after.p.entering /\ ~ after.p.exiting /\ after.p.task = "none"
      /\ after.p.ped = left.p.ped
  BY <1>1, <1>3, Bounds DEF ViewType, Player, Somewhere
<1>5. Safe(left, after)
  BY <1>4 DEF Safe, Covered, Exact, HeldBy, EntryKnown
<1> QED BY <1>1, <1>2, <1>4, <1>5, SafeTwice DEF after

LEMMA SafeTyped == \A a, b : Safe(a, b) => b \in ViewType
BY DEF Safe

LEMMA PedSafe ==
  ASSUME NEW view \in ViewType, NEW v \in Somewhere
  PROVE  LET after == [view EXCEPT !.p.ped = v] IN
         /\ Safe(view, after)
         /\ after.p.ped = v /\ after.p.vehicle = view.p.vehicle
<1> DEFINE after == [view EXCEPT !.p.ped = v]
<1>1. /\ after \in ViewType /\ after.listed = view.listed
      /\ after.p = [view.p EXCEPT !.ped = v]
      /\ after.p.vehicle = view.p.vehicle /\ after.p.seat = view.p.seat
      /\ after.p.entering = view.p.entering /\ after.p.target = view.p.target
      /\ after.p.ped = v
  BY DEF ViewType, Player
<1> HIDE DEF after
<1>2. Safe(view, after)
  BY <1>1 DEF Safe, Covered, Exact, HeldBy, EntryKnown
<1> QED BY <1>1, <1>2 DEF after

LEMMA RemoveSafe ==
  ASSUME NEW view \in ViewType
  PROVE  LET after == RemoveFromVehicle(view) IN
         /\ Safe(view, after)
         /\ after.p.vehicle = None
<1> DEFINE gone == [view EXCEPT !.p.ped = None]
           empty == Vacate(gone)
<1>1. CASE view.p.vehicle = None
  BY <1>1, SafeSame DEF RemoveFromVehicle
<1>2. CASE view.p.vehicle # None
  <2>1. Safe(view, gone) /\ gone \in ViewType
    <3>1. None \in Somewhere
      BY DEF Somewhere
    <3>2. Safe(view, gone)
      BY <3>1, PedSafe
    <3> QED BY <3>2, SafeTyped
  <2> HIDE DEF gone
  <2>2. Safe(gone, empty) /\ empty \in ViewType /\ empty.p.vehicle = None
    BY <2>1, VacateSafe, SafeTyped
  <2>3. /\ Safe(empty, ResetVehicleEnterExit(empty))
        /\ ResetVehicleEnterExit(empty).p.vehicle = None
    BY <2>2, ResetSafe
  <2>4. RemoveFromVehicle(view) = ResetVehicleEnterExit(empty)
    BY <1>2 DEF RemoveFromVehicle, gone
  <2> HIDE DEF empty
  <2> QED BY <2>1, <2>2, <2>3, <2>4, SafeTwice
<1> QED BY <1>1, <1>2

LEMMA StoreSafe ==
  ASSUME NEW view \in ViewType, NEW v \in Vehicle, NEW s \in Seat,
         view.p.vehicle = None
  PROVE  LET after == Store(view, v, s) IN
         /\ after \in ViewType /\ Covered(after)
         /\ Exact(view) => Exact(after)
         /\ after.p.vehicle = v /\ after.p.entering = view.p.entering
         /\ after.p.task = view.p.task /\ after.p.ped = view.p.ped
<1> DEFINE after == Store(view, v, s)
<1>1. /\ after.listed = view.listed \cup {<<v, s>>}
      /\ after.p.vehicle = v /\ after.p.seat = s
      /\ after.p.entering = view.p.entering /\ after.p.task = view.p.task
      /\ after.p.ped = view.p.ped
      /\ after \in ViewType
  <2>1. view.p \in Player /\ view.listed \subseteq Vehicle \X Seat
    BY DEF ViewType
  <2> DEFINE q == [view.p EXCEPT !.vehicle = v, !.seat = s]
  <2>2. /\ q \in Player /\ q.vehicle = v /\ q.seat = s
        /\ q.entering = view.p.entering /\ q.task = view.p.task
        /\ q.ped = view.p.ped
    BY <2>1 DEF Player, Somewhere
  <2>3. view.listed \cup {<<v, s>>} \in SUBSET (Vehicle \X Seat)
    BY <2>1
  <2>4. after = [p |-> q, listed |-> view.listed \cup {<<v, s>>}]
    BY DEF Store
  <2> HIDE DEF q, after
  <2>5. /\ after.p = q /\ after.listed = view.listed \cup {<<v, s>>}
        /\ after \in ViewType
    BY <2>2, <2>3, <2>4 DEF ViewType
  <2> QED BY <2>2, <2>5
<1>2. HeldBy(after.p) = {<<v, s>>} /\ HeldBy(view.p) = {}
  BY <1>1, Bounds DEF HeldBy
<1> HIDE DEF after
<1>3. Covered(after) /\ (Exact(view) => Exact(after))
  <2>1. Covered(after)
    BY <1>1, <1>2 DEF Covered
  <2>2. Exact(view) => view.listed = {}
    BY <1>2 DEF Exact
  <2>3. view.listed = {} => Exact(after)
    BY <1>1, <1>2 DEF Exact
  <2> QED BY <2>1, <2>2, <2>3
<1> QED BY <1>1, <1>3 DEF after

LEMMA PutSafe ==
  ASSUME NEW view \in ViewType, NEW v \in Vehicle, NEW s \in Seat
  PROVE  LET after == PutInVehicle(view, v, s) IN
         /\ Safe(view, after)
         /\ after.p.vehicle = v /\ after.p.task = "none"
<1> DEFINE out == RemoveFromVehicle(view)
           warped == InternalPutInVehicle(out, v)
           reset == ResetVehicleEnterExit(warped)
<1>1. Safe(view, out) /\ out \in ViewType /\ out.p.vehicle = None
  BY RemoveSafe DEF Safe
<1>2. /\ Safe(out, warped) /\ warped \in ViewType /\ warped.p.vehicle = None
  <2>1. v \in Somewhere
    BY DEF Somewhere
  <2> DEFINE seated == [out EXCEPT !.p.ped = v]
  <2>2. Safe(out, seated) /\ seated.p.vehicle = None
    BY <1>1, <2>1, PedSafe
  <2>3. warped = IF out.p.ped = None THEN seated ELSE out
    BY DEF InternalPutInVehicle
  <2> HIDE DEF out, warped, seated
  <2> QED BY <1>1, <2>2, <2>3, SafeSame, SafeTyped
<1>3. /\ Safe(warped, reset) /\ reset \in ViewType /\ reset.p.vehicle = None
      /\ ~ reset.p.entering /\ reset.p.task = "none"
  BY <1>2, ResetSafe DEF Safe
<1>4. PutInVehicle(view, v, s) = Store(reset, v, s)
  BY DEF PutInVehicle
<1> HIDE DEF out, warped, reset
<1>5. Safe(view, reset)
  BY <1>1, <1>2, <1>3, SafeTwice
<1>6. /\ Store(reset, v, s) \in ViewType /\ Covered(Store(reset, v, s))
      /\ Exact(reset) => Exact(Store(reset, v, s))
      /\ Store(reset, v, s).p.vehicle = v
      /\ Store(reset, v, s).p.entering = reset.p.entering
      /\ Store(reset, v, s).p.task = reset.p.task
  <2>1. reset \in ViewType /\ reset.p.vehicle = None
    BY <1>3
  <2> QED BY <2>1, StoreSafe
<1> QED BY <1>3, <1>4, <1>5, <1>6 DEF Safe, EntryKnown

LEMMA FollowSafe ==
  ASSUME NEW view \in ViewType, NEW v \in Vehicle, NEW s \in Seat
  PROVE  LET after == Follow(view, v, s) IN
         /\ Safe(view, after)
         /\ IF view.p.ped = v THEN after = view
            ELSE after.p.vehicle = v /\ after.p.task = "none"
<1>1. CASE view.p.ped = v
  BY <1>1, SafeSame DEF Follow
<1>2. CASE view.p.ped # v
  <2> DEFINE reset == ResetVehicleEnterExit(view)
  <2>1. Safe(view, reset) /\ reset \in ViewType
    BY ResetSafe DEF Safe
  <2>2. Follow(view, v, s) = PutInVehicle(reset, v, s)
    BY <1>2 DEF Follow
  <2> HIDE DEF reset
  <2>3. /\ Safe(reset, PutInVehicle(reset, v, s))
        /\ PutInVehicle(reset, v, s).p.vehicle = v
        /\ PutInVehicle(reset, v, s).p.task = "none"
    BY <2>1, PutSafe
  <2> QED BY <1>2, <2>1, <2>2, <2>3, SafeTwice
<1> QED BY <1>1, <1>2

LEMMA EnterSafe ==
  ASSUME NEW view \in ViewType, NEW v \in Vehicle, NEW s \in Seat
  PROVE  LET after == EnterVehicle(view, v, s) IN
         /\ Safe(view, after)
         /\ after.p.ped = view.p.ped /\ after.p.exiting = view.p.exiting
         /\ after.p.vehicle = view.p.vehicle
         /\ view.p.vehicle = None =>
              after.p.entering /\ after.p.target = v /\ after.p.task = "in"
<1> DEFINE after == EnterVehicle(view, v, s)
<1>1. CASE view.p.vehicle # None
  BY <1>1, SafeSame DEF EnterVehicle
<1>2. CASE view.p.vehicle = None
  <2> DEFINE q == [view.p EXCEPT !.task = "in", !.entering = TRUE,
                                 !.target = v, !.aim = s]
  <2>1. view.p \in Player
    BY DEF ViewType
  <2>2. /\ q \in Player /\ q.entering /\ q.target = v /\ q.task = "in"
        /\ q.ped = view.p.ped /\ q.exiting = view.p.exiting
        /\ q.vehicle = view.p.vehicle /\ q.seat = view.p.seat
    BY <2>1 DEF Player, Somewhere
  <2>3. after = [view EXCEPT !.p = q]
    BY <1>2 DEF EnterVehicle
  <2> HIDE DEF q, after
  <2>4. after.p = q /\ after.listed = view.listed /\ after \in ViewType
    BY <2>2, <2>3 DEF ViewType
  <2>5. Safe(view, after)
    BY <1>2, <2>2, <2>4 DEF Safe, Covered, Exact, HeldBy, EntryKnown
  <2> QED BY <1>2, <2>2, <2>4, <2>5 DEF after
<1> QED BY <1>1, <1>2

LEMMA ClearSafe ==
  ASSUME NEW view \in ViewType
  PROVE  LET after == ClearVehicleEntryTask(view) IN
         /\ Safe(view, after)
         /\ after.p.ped = view.p.ped /\ after.p.exiting = view.p.exiting
         /\ after.p.entering = view.p.entering
         /\ after.p.target = view.p.target
         /\ after.p.vehicle = view.p.vehicle
         /\ after.p.task = IF view.p.task = "in" THEN "none" ELSE view.p.task
<1> DEFINE after == ClearVehicleEntryTask(view)
<1>1. CASE view.p.task # "in"
  BY <1>1, SafeSame DEF ClearVehicleEntryTask
<1>2. CASE view.p.task = "in"
  <2>1. after = [view EXCEPT !.p.task = "none"]
    BY <1>2 DEF ClearVehicleEntryTask
  <2>2. /\ after \in ViewType /\ after.listed = view.listed
        /\ after.p.task = "none" /\ after.p.ped = view.p.ped
        /\ after.p.exiting = view.p.exiting
        /\ after.p.entering = view.p.entering
        /\ after.p.target = view.p.target
        /\ after.p.vehicle = view.p.vehicle /\ after.p.seat = view.p.seat
    BY <2>1 DEF ViewType, Player
  <2> HIDE DEF after
  <2>3. Safe(view, after)
    BY <2>2 DEF Safe, Covered, Exact, HeldBy, EntryKnown
  <2> QED BY <1>2, <2>2, <2>3 DEF after
<1> QED BY <1>1, <1>2

LEMMA ExitSafe ==
  ASSUME NEW view \in ViewType
  PROVE  LET after == ExitVehicle(view) IN
         /\ Safe(view, after)
         /\ after.p.ped = view.p.ped
         /\ after.p.entering = view.p.entering
         /\ after.p.target = view.p.target
         /\ after.p.vehicle = view.p.vehicle
         /\ IF view.p.vehicle # None
            THEN after.p.exiting /\ after.p.task = "out"
            ELSE /\ after.p.exiting = view.p.exiting
                 /\ after.p.task \in {view.p.task, "none"}
                 /\ after.p.entering => after.p.task # "in"
<1> DEFINE after == ExitVehicle(view)
<1>1. CASE view.p.vehicle # None
  <2> DEFINE q == [view.p EXCEPT !.task = "out", !.exiting = TRUE]
  <2>1. view.p \in Player
    BY DEF ViewType
  <2>2. /\ q \in Player /\ q.task = "out" /\ q.exiting
        /\ q.ped = view.p.ped /\ q.entering = view.p.entering
        /\ q.target = view.p.target
        /\ q.vehicle = view.p.vehicle /\ q.seat = view.p.seat
    BY <2>1 DEF Player
  <2>3. after = [view EXCEPT !.p = q]
    BY <1>1 DEF ExitVehicle
  <2> HIDE DEF q, after
  <2>4. after.p = q /\ after.listed = view.listed /\ after \in ViewType
    BY <2>2, <2>3 DEF ViewType
  <2>5. Safe(view, after)
    BY <2>2, <2>4 DEF Safe, Covered, Exact, HeldBy, EntryKnown
  <2> QED BY <1>1, <2>2, <2>4, <2>5 DEF after
<1>2. CASE view.p.vehicle = None
  <2>1. after = IF view.p.entering \/ view.p.exiting
                THEN ClearVehicleEntryTask(view) ELSE view
    BY <1>2 DEF ExitVehicle
  <2> QED BY <1>2, <2>1, ClearSafe, SafeSame
<1> QED BY <1>1, <1>2

LEMMA AbortedSafe ==
  ASSUME NEW view \in ViewType
  PROVE  LET after == CheckAborted(view) IN
         /\ Safe(view, after)
         /\ after.p.ped = view.p.ped /\ after.p.exiting = view.p.exiting
         /\ after.p.target = view.p.target
         /\ after.p.vehicle = view.p.vehicle /\ after.p.task = view.p.task
         /\ after.p.entering =
              (view.p.entering /\ ~ (view.p.ped = None /\ view.p.task # "in"))
<1> DEFINE after == CheckAborted(view)
           off == view.p.ped = None /\ view.p.entering /\ view.p.task # "in"
<1>0. view.p.entering \in BOOLEAN
  BY DEF ViewType, Player
<1>1. CASE ~ off
  <2>1. after = view
    BY <1>1 DEF CheckAborted
  <2>2. view.p.entering =
          (view.p.entering /\ ~ (view.p.ped = None /\ view.p.task # "in"))
    BY <1>0, <1>1
  <2> QED BY <2>1, <2>2, SafeSame
<1>2. CASE off
  <2> DEFINE q == [view.p EXCEPT !.entering = FALSE]
  <2>1. view.p \in Player
    BY DEF ViewType
  <2>2. /\ q \in Player /\ q.entering = FALSE
        /\ q.task = view.p.task /\ q.ped = view.p.ped
        /\ q.exiting = view.p.exiting /\ q.target = view.p.target
        /\ q.vehicle = view.p.vehicle /\ q.seat = view.p.seat
    BY <2>1 DEF Player
  <2>3. after = [view EXCEPT !.p = q]
    BY <1>2 DEF CheckAborted
  <2> HIDE DEF q, after
  <2>4. after.p = q /\ after.listed = view.listed /\ after \in ViewType
    BY <2>2, <2>3 DEF ViewType
  <2>5. Safe(view, after)
    BY <2>2, <2>4 DEF Safe, Covered, Exact, HeldBy, EntryKnown
  <2> QED BY <1>2, <2>2, <2>4, <2>5 DEF after
<1> QED BY <1>1, <1>2

LEMMA ProcessSafe ==
  ASSUME NEW view \in ViewType, EntryKnown(view.p)
  PROVE  LET after == ProcessVehicleEnterExit(view)
             complete == view.p.ped # None /\ view.p.entering
                         /\ view.p.task # "in"
             left == view.p.ped = None /\ view.p.exiting
                     /\ view.p.task # "out"
         IN
         /\ Safe(view, after)
         /\ after.p.ped = view.p.ped
         /\ ~ complete /\ ~ left => after = view
         /\ complete \/ left =>
              /\ ~ after.p.entering /\ ~ after.p.exiting
              /\ after.p.task = "none"
         /\ complete /\ ~ view.p.exiting => after.p.vehicle = view.p.target
         /\ left => after.p.vehicle = None
<1> DEFINE after == ProcessVehicleEnterExit(view)
           complete == view.p.ped # None /\ view.p.entering
                       /\ view.p.task # "in"
           left == view.p.ped = None /\ view.p.exiting
                   /\ view.p.task # "out"
<1>1. CASE complete
  <2> DEFINE stored == Store(view, view.p.target, view.p.aim)
  <2>1. /\ view.p.vehicle = None /\ view.p.target \in Vehicle
        /\ view.p.aim \in Seat
    BY <1>1 DEF EntryKnown, ViewType, Player
  <2>2. /\ stored \in ViewType /\ Covered(stored)
        /\ Exact(view) => Exact(stored)
        /\ stored.p.vehicle = view.p.target /\ stored.p.ped = view.p.ped
    BY <2>1, StoreSafe
  <2>3. stored.p.exiting = view.p.exiting
    BY DEF Store, ViewType, Player
  <2>4. after = ResetVehicleEnterExit(stored)
    BY <1>1 DEF ProcessVehicleEnterExit, EntryComplete
  <2> HIDE DEF stored
  <2>5. /\ Safe(stored, after)
        /\ ~ after.p.entering /\ ~ after.p.exiting /\ after.p.task = "none"
        /\ after.p.ped = stored.p.ped
        /\ after.p.vehicle = IF stored.p.exiting THEN None
                                                 ELSE stored.p.vehicle
    BY <2>2, <2>4, ResetSafe
  <2> HIDE DEF after
  <2>6. Safe(view, after)
    BY <2>2, <2>5 DEF Safe, EntryKnown
  <2> QED BY <1>1, <2>2, <2>3, <2>5, <2>6 DEF after
<1>2. CASE left
  <2>1. after = ResetVehicleEnterExit(view)
    BY <1>2 DEF ProcessVehicleEnterExit
  <2> QED BY <1>2, <2>1, ResetSafe
<1>3. CASE ~ complete /\ ~ left
  <2>1. after = view
    BY <1>3 DEF ProcessVehicleEnterExit
  <2> QED BY <1>3, <2>1, SafeSame
<1> QED BY <1>1, <1>2, <1>3
-----------------------------------------------------------------------------
(* The invariant behind the types and the seats: an entry that is stored   *)
(* must name a vehicle, and one that has been stored must not leave an     *)
(* older one behind.                                                       *)

Part(c) ==
  /\ Covered(View(c)) /\ EntryKnown(player[c])
  /\ Exact(View(c)) \/ (c = Own /\ doubled)

SeatInv == TypeOK /\ \A c \in Client : Part(c)

LEMMA ViewTyped ==
  ASSUME TypeOK, NEW c \in Client
  PROVE  View(c) \in ViewType /\ View(c).p = player[c]
         /\ player[c] \in Player /\ View(c).listed = occupants[c]
BY DEF TypeOK, View, ViewType

(* A step that leaves one client with a view that keeps to this leaves     *)
(* both clients so.                                                        *)
LEMMA SeenKeeps ==
  ASSUME SeatInv, NEW c \in Client, NEW after \in ViewType, Seen(c, after),
         Covered(after), EntryKnown(after.p),
         Exact(after) \/ (c = Own /\ doubled'), doubled => doubled'
  PROVE  /\ player' \in [Client -> Player]
         /\ occupants' \in [Client -> SUBSET (Vehicle \X Seat)]
         /\ \A d \in Client : Part(d)'
<1>1. /\ player \in [Client -> Player]
      /\ occupants \in [Client -> SUBSET (Vehicle \X Seat)]
  BY DEF SeatInv, TypeOK
<1>2. /\ after.p \in Player /\ after.listed \in SUBSET (Vehicle \X Seat)
      /\ after = [p |-> after.p, listed |-> after.listed]
  BY DEF ViewType
<1>3. /\ player' \in [Client -> Player]
      /\ occupants' \in [Client -> SUBSET (Vehicle \X Seat)]
      /\ player'[c] = after.p /\ occupants'[c] = after.listed
      /\ \A d \in Client : d # c => player'[d] = player[d]
                                    /\ occupants'[d] = occupants[d]
  BY <1>1, <1>2 DEF Seen
<1>4. ASSUME NEW d \in Client PROVE Part(d)'
  <2>1. CASE d = c
    <3>1. View(c)' = after
      BY <1>2, <1>3 DEF View
    <3> QED BY <2>1, <3>1, <1>3 DEF Part
  <2>2. CASE d # c
    <3>1. View(d)' = View(d) /\ player'[d] = player[d]
      BY <2>2, <1>3 DEF View
    <3> QED BY <2>2, <3>1 DEF Part, SeatInv
  <2> QED BY <2>1, <2>2
<1> QED BY <1>3, <1>4

(* A step that does a safe operation on one client's view.                 *)
LEMMA SafeKeeps ==
  ASSUME SeatInv, NEW c \in Client, NEW after, Safe(View(c), after),
         Seen(c, after), doubled' = doubled
  PROVE  /\ player' \in [Client -> Player]
         /\ occupants' \in [Client -> SUBSET (Vehicle \X Seat)]
         /\ \A d \in Client : Part(d)'
<1>1. View(c).p = player[c] /\ Part(c)
  BY ViewTyped DEF SeatInv
<1>2. /\ after \in ViewType /\ Covered(after) /\ EntryKnown(after.p)
      /\ Exact(after) \/ (c = Own /\ doubled')
  BY <1>1 DEF Safe, Part
<1> QED BY <1>2, SeenKeeps

LEMMA UnseenKeeps ==
  ASSUME SeatInv, UNCHANGED <<player, occupants, doubled>>
  PROVE  /\ player' \in [Client -> Player]
         /\ occupants' \in [Client -> SUBSET (Vehicle \X Seat)]
         /\ \A d \in Client : Part(d)'
BY DEF SeatInv, TypeOK, Part, Covered, Exact, EntryKnown, HeldBy, View

LEMMA SerializeTyped ==
  ASSUME NEW p \in Player
  PROVE  Serialize(p) \in Sync
BY Bounds DEF Serialize, OnFoot, Sync, Player, Somewhere

(* The end of the local player's pulse.                                    *)
LEMMA EndPulseKeeps ==
  ASSUME SeatInv, NEW view \in ViewType, NEW arrives \in BOOLEAN,
         EndPulse(view, arrives), Covered(view), EntryKnown(view.p),
         Exact(view) \/ doubled', doubled => doubled'
  PROVE  /\ player' \in [Client -> Player]
         /\ occupants' \in [Client -> SUBSET (Vehicle \X Seat)]
         /\ \A d \in Client : Part(d)'
         /\ up' \in Seq(Sync)
<1> DEFINE done == ProcessVehicleEnterExit(view)
<1>1. Safe(view, done)
  BY ProcessSafe
<1>2. /\ done \in ViewType /\ Covered(done) /\ EntryKnown(done.p)
      /\ Exact(done) \/ doubled'
  BY <1>1 DEF Safe
<1>3. Seen(Own, done) /\ up' = IF arrives THEN Sent(up, Serialize(done.p))
                                          ELSE up
  BY DEF EndPulse
<1> HIDE DEF done
<1>4. Own \in Client
  BY DEF Client
<1>5. up' \in Seq(Sync)
  <2>1. up \in Seq(Sync)
    BY DEF SeatInv, TypeOK
  <2>2. Serialize(done.p) \in Sync
    BY <1>2, SerializeTyped DEF ViewType
  <2>3. Sent(up, Serialize(done.p)) \in Seq(Sync)
    BY <2>1, <2>2, SentIsSeq
  <2> QED BY <1>3, <2>1, <2>3
<1> QED BY <1>2, <1>3, <1>4, <1>5, SeenKeeps
-----------------------------------------------------------------------------
(* Each action keeps the types and the seats.                              *)

LEMMA MoveTyped ==
  ASSUME TypeOK, Move, acts' = acts \/ acts' = acts + 1
  PROVE  moves' \in acts' .. MaxMoves
BY Bounds DEF TypeOK, Move

LEMMA StayTyped ==
  ASSUME TypeOK, UNCHANGED <<moves, acts>>
  PROVE  acts' \in 0 .. MaxActs /\ moves' \in acts' .. MaxMoves
BY DEF TypeOK

LEMMA PedKeeps ==
  ASSUME SeatInv, NEW c \in Client, NEW p \in Player, Ped(c, p),
         p.vehicle = player[c].vehicle, p.seat = player[c].seat,
         p.entering = player[c].entering, p.target = player[c].target
  PROVE  SeatInv'
<1>1. Safe(View(c), [p |-> p, listed |-> occupants[c]])
  <2>1. /\ View(c) = [p |-> player[c], listed |-> occupants[c]]
        /\ occupants[c] \in SUBSET (Vehicle \X Seat)
    BY DEF View, SeatInv, TypeOK
  <2> DEFINE after == [p |-> p, listed |-> occupants[c]]
  <2>2. after \in ViewType /\ after.p = p /\ after.listed = View(c).listed
        /\ View(c).p = player[c]
    BY <2>1 DEF ViewType
  <2> HIDE DEF after
  <2>3. Safe(View(c), after)
    BY <2>2 DEF Safe, Covered, Exact, HeldBy, EntryKnown
  <2> QED BY <2>3 DEF after
<1>2. Seen(c, [p |-> p, listed |-> occupants[c]])
  BY DEF Ped, Seen, SeatInv, TypeOK
<1>3. /\ player' \in [Client -> Player]
      /\ occupants' \in [Client -> SUBSET (Vehicle \X Seat)]
      /\ \A d \in Client : Part(d)'
  BY <1>1, <1>2, SafeKeeps DEF Ped, histories
<1> QED BY <1>3 DEF Ped, SeatInv, TypeOK, histories

LEMMA GameKeeps ==
  ASSUME SeatInv, NEW c \in Client, Game(c)
  PROVE  SeatInv'
<1> DEFINE p == player[c]
<1>0. p \in Player /\ None \in Somewhere
  BY DEF SeatInv, TypeOK, Somewhere
<1>1. CASE Sit(c)
  <2> DEFINE q == [p EXCEPT !.ped = IF @ = None THEN p.target ELSE None]
  <2>1. /\ q \in Player /\ q.vehicle = p.vehicle /\ q.seat = p.seat
        /\ q.entering = p.entering /\ q.target = p.target
    BY <1>0 DEF Player
  <2>2. Ped(c, q)
    BY <1>1 DEF Sit
  <2> HIDE DEF q
  <2> QED BY <2>1, <2>2, PedKeeps
<1>2. CASE Rise(c)
  <2> DEFINE q == [p EXCEPT !.ped = None]
  <2>1. /\ q \in Player /\ q.vehicle = p.vehicle /\ q.seat = p.seat
        /\ q.entering = p.entering /\ q.target = p.target
    BY <1>0 DEF Player
  <2>2. Ped(c, q)
    BY <1>2 DEF Rise
  <2> HIDE DEF q
  <2> QED BY <2>1, <2>2, PedKeeps
<1>3. CASE EndTask(c) \/ CancelEntry(c)
  <2> DEFINE q == [p EXCEPT !.task = "none"]
  <2>1. /\ q \in Player /\ q.vehicle = p.vehicle /\ q.seat = p.seat
        /\ q.entering = p.entering /\ q.target = p.target
    BY <1>0 DEF Player
  <2>2. Ped(c, q)
    BY <1>3 DEF EndTask, CancelEntry
  <2> HIDE DEF q
  <2> QED BY <2>1, <2>2, PedKeeps
<1> QED BY <1>1, <1>2, <1>3 DEF Game

LEMMA PulseKeeps ==
  ASSUME SeatInv, NEW arrives \in BOOLEAN, LocalPulse(arrives)
  PROVE  SeatInv'
<1> DEFINE seen == View(Own)
           view == CheckAborted(seen)
<1>0. Own \in Client
  BY DEF Client
<1>1. /\ seen \in ViewType /\ Covered(seen) /\ EntryKnown(seen.p)
      /\ Exact(seen) \/ doubled
  BY <1>0, ViewTyped DEF SeatInv, Part
<1>2. /\ view \in ViewType /\ Covered(view) /\ EntryKnown(view.p)
      /\ Exact(view) \/ doubled
  BY <1>1, AbortedSafe DEF Safe
<1> DEFINE Kept == /\ player' \in [Client -> Player]
                   /\ occupants' \in [Client -> SUBSET (Vehicle \X Seat)]
                   /\ \A d \in Client : Part(d)'
                   /\ up' \in Seq(Sync)
<1>3. CASE Pulse(arrives)
  <2> HIDE DEF view
  <2>1. Kept
    BY <1>2, <1>3, EndPulseKeeps DEF Pulse, view
  <2> QED BY <1>3, <2>1 DEF Pulse, EndPulse, SeatInv, TypeOK
<1>4. CASE PressToExit(arrives)
  <2> DEFINE after == KeyOut(seen)
  <2>1. Safe(seen, after)
    BY <1>1, ExitSafe, SafeSame DEF KeyOut
  <2>2. /\ after \in ViewType /\ Covered(after) /\ EntryKnown(after.p)
        /\ Exact(after) \/ doubled
    BY <1>1, <2>1 DEF Safe
  <2>3. EndPulse(after, arrives) /\ doubled' = doubled
    BY <1>4 DEF PressToExit
  <2> HIDE DEF after, seen, view
  <2>4. Kept
    BY <2>2, <2>3, EndPulseKeeps
  <2>5. down' \in [Client -> BOOLEAN]
    BY <1>4 DEF PressToExit, SeatInv, TypeOK
  <2>6. moves' \in acts' .. MaxMoves
    BY <1>4, MoveTyped DEF PressToExit, EndPulse, SeatInv
  <2> QED BY <1>4, <2>4, <2>5, <2>6 DEF PressToExit, EndPulse, SeatInv, TypeOK
<1>5. ASSUME NEW v \in Vehicle, NEW s \in {0, Passengers},
             PressToEnter(v, s, arrives)
      PROVE  SeatInv'
  <2> DEFINE away == [view EXCEPT !.p.vehicle = None]
             after == KeyIn(view, v, s)
  <2>1. /\ EndPulse(after, arrives)
        /\ doubled' = (doubled \/ view.p.vehicle # None)
    BY <1>5 DEF PressToEnter
  <2> HIDE DEF view
  <2>2. /\ after \in ViewType /\ Covered(after) /\ EntryKnown(after.p)
        /\ Exact(after) \/ doubled'
    <3>1. CASE view.p.entering
      BY <1>2, <2>1, <3>1 DEF KeyIn
    <3>2. CASE ~ view.p.entering
      <4> DEFINE q == [view.p EXCEPT !.vehicle = None]
      <4>1. q \in Player /\ q.vehicle = None /\ q.entering = FALSE
            /\ q.seat = view.p.seat
        BY <1>2, <3>2 DEF ViewType, Player, Somewhere
      <4>2. away = [view EXCEPT !.p = q]
        BY <1>2 DEF ViewType
      <4> HIDE DEF q, away
      <4>3. /\ away \in ViewType /\ away.p = q
            /\ away.listed = view.listed
        BY <1>2, <4>1, <4>2 DEF ViewType
      <4>4. HeldBy(away.p) = {}
        BY <4>1, <4>3 DEF HeldBy
      <4>5. Covered(away) /\ EntryKnown(away.p)
        BY <4>1, <4>3, <4>4 DEF Covered, EntryKnown
      <4>6. Exact(away) \/ doubled'
        <5>1. CASE doubled \/ view.p.vehicle # None
          BY <5>1, <2>1
        <5>2. CASE ~ doubled /\ view.p.vehicle = None
          <6>1. Exact(view) /\ HeldBy(view.p) = {}
            BY <1>2, <5>2 DEF HeldBy
          <6> QED BY <6>1, <4>3, <4>4 DEF Exact
        <5> QED BY <5>1, <5>2
      <4>7. s \in Seat
        BY Bounds
      <4>8. Safe(away, EnterVehicle(away, v, s))
        BY <4>3, <4>7, EnterSafe
      <4>9. after = EnterVehicle(away, v, s)
        BY <3>2 DEF KeyIn, away
      <4> QED BY <4>5, <4>6, <4>8, <4>9 DEF Safe
    <3> QED BY <3>1, <3>2
  <2> HIDE DEF after, away
  <2>3. doubled \in BOOLEAN /\ doubled' \in BOOLEAN /\ (doubled => doubled')
    BY <2>1 DEF SeatInv, TypeOK
  <2>4. Kept
    BY <2>1, <2>2, <2>3, EndPulseKeeps
  <2>5. moves' \in acts' .. MaxMoves
    BY <1>5, <2>1, MoveTyped DEF PressToEnter, EndPulse, SeatInv
  <2> QED
    BY <1>5, <2>1, <2>3, <2>4, <2>5 DEF PressToEnter, EndPulse, SeatInv, TypeOK
<1> QED BY <1>3, <1>4, <1>5 DEF LocalPulse

LEMMA RelayedTyped ==
  ASSUME server \in Sync
  PROVE  Relayed \subseteq Sync
<1>1. OnFoot \in Sync
  BY Bounds DEF OnFoot, Sync, Somewhere
<1>2. \A v \in Somewhere : [server EXCEPT !.vehicle = v] \in Sync
  BY DEF Sync
<1> QED BY <1>1, <1>2 DEF Relayed

LEMMA ServerKeeps ==
  ASSUME SeatInv, PlayerSync \/ Relay
  PROVE  SeatInv'
<1>1. UNCHANGED <<player, occupants, down, calm, doubled, acts, moves>>
  BY DEF PlayerSync, Relay, histories
<1>2. /\ player' \in [Client -> Player]
      /\ occupants' \in [Client -> SUBSET (Vehicle \X Seat)]
      /\ \A d \in Client : Part(d)'
  BY <1>1, UnseenKeeps
<1>3. CASE PlayerSync
  <2>1. server' \in Sync /\ up' \in Seq(Sync)
    BY <1>3, TakenFromSeq DEF PlayerSync, SeatInv, TypeOK
  <2> QED BY <1>1, <1>2, <1>3, <2>1 DEF PlayerSync, SeatInv, TypeOK
<1>4. CASE Relay
  <2>1. PICK message \in Relayed :
          chan' = [chan EXCEPT ![Watcher] = Sent(@, message)]
    BY <1>4 DEF Relay
  <2>2. message \in Sync \cup Order /\ chan[Watcher] \in Seq(Sync \cup Order)
    BY RelayedTyped DEF SeatInv, TypeOK, Client
  <2>3. Sent(chan[Watcher], message) \in Seq(Sync \cup Order)
    BY <2>2, SentIsSeq
  <2>4. chan' \in [Client -> Seq(Sync \cup Order)]
    BY <2>1, <2>3 DEF SeatInv, TypeOK
  <2> QED BY <1>1, <1>2, <1>4, <2>4 DEF Relay, SeatInv, TypeOK
<1> QED BY <1>3, <1>4

LEMMA ScriptKeeps ==
  ASSUME SeatInv, NEW message \in Order, NEW to \in SUBSET Client,
         ScriptCall(message, to), server' \in Sync
  PROVE  SeatInv'
<1>1. /\ player' \in [Client -> Player]
      /\ occupants' \in [Client -> SUBSET (Vehicle \X Seat)]
      /\ \A d \in Client : Part(d)'
  BY UnseenKeeps DEF ScriptCall
<1>2. chan' \in [Client -> Seq(Sync \cup Order)]
  <2>1. \A c \in Client : chan[c] \in Seq(Sync \cup Order)
    BY DEF SeatInv, TypeOK
  <2>2. \A c \in Client : Sent(chan[c], message) \in Seq(Sync \cup Order)
    BY <2>1, SentIsSeq
  <2> QED BY <2>1, <2>2 DEF ScriptCall
<1>3. acts' \in 0 .. MaxActs /\ moves' \in acts' .. MaxMoves
  <2>1. moves' \in acts' .. MaxMoves
    BY MoveTyped DEF ScriptCall, SeatInv
  <2>2. acts' \in 0 .. MaxActs
    BY Bounds DEF ScriptCall, SeatInv, TypeOK
  <2> QED BY <2>1, <2>2
<1> QED BY <1>1, <1>2, <1>3 DEF ScriptCall, SeatInv, TypeOK

LEMMA ScriptsKeep ==
  ASSUME SeatInv, NEW to \in SUBSET Client,
         TakeOut(to) \/ \E v \in Vehicle, s \in Seat : PutIntoVehicle(v, s, to)
  PROVE  SeatInv'
<1>1. CASE TakeOut(to)
  <2>1. server' \in Sync
    BY <1>1 DEF TakeOut, SeatInv, TypeOK, Sync, Somewhere
  <2>2. [kind |-> "REMOVE"] \in Order
    BY DEF Order
  <2> QED BY <1>1, <2>1, <2>2, ScriptKeeps DEF TakeOut
<1>2. ASSUME NEW v \in Vehicle, NEW s \in Seat, PutIntoVehicle(v, s, to)
      PROVE  SeatInv'
  <2>1. server' \in Sync
    BY <1>2 DEF PutIntoVehicle, SeatInv, TypeOK, Sync, Somewhere
  <2>2. [kind |-> "PUT", vehicle |-> v, seat |-> s] \in Order
    BY DEF Order
  <2> QED BY <1>2, <2>1, <2>2, ScriptKeeps DEF PutIntoVehicle
<1> QED BY <1>1, <1>2

(* What heads a queue is a packet if its kind is one of a packet's.        *)
LEMMA HeadTyped ==
  ASSUME TypeOK, NEW c \in Client, chan[c] # <<>>
  PROVE  /\ Head(chan[c]).kind \in {"ONFOOT", "VEHICLE", "PASSENGER"} =>
              Head(chan[c]) \in Sync
         /\ Head(chan[c]).kind = "PUT" =>
              Head(chan[c]).vehicle \in Vehicle /\ Head(chan[c]).seat \in Seat
<1>1. Head(chan[c]) \in Sync \cup Order
  BY TakenFromSeq DEF TypeOK
<1> QED BY <1>1 DEF Sync, Order

LEMMA HandleKeeps ==
  ASSUME SeatInv, NEW c \in Client, NEW kind, NEW after,
         Handle(c, kind, after), Safe(View(c), after),
         down' \in [Client -> BOOLEAN]
  PROVE  SeatInv'
<1>1. Seen(c, after) /\ UNCHANGED <<server, up, calm, doubled, acts, moves>>
  BY DEF Handle, histories
<1>2. /\ player' \in [Client -> Player]
      /\ occupants' \in [Client -> SUBSET (Vehicle \X Seat)]
      /\ \A d \in Client : Part(d)'
  BY <1>1, SafeKeeps
<1>3. chan' \in [Client -> Seq(Sync \cup Order)]
  <2>1. Tail(chan[c]) \in Seq(Sync \cup Order)
    BY TakenFromSeq DEF Handle, SeatInv, TypeOK
  <2> QED BY <2>1 DEF Handle, SeatInv, TypeOK
<1> QED BY <1>1, <1>2, <1>3 DEF SeatInv, TypeOK

LEMMA OrdersKeep ==
  ASSUME SeatInv, NEW c \in Client, OnPut(c) \/ OnRemove(c)
  PROVE  SeatInv'
<1>1. View(c) \in ViewType /\ down \in [Client -> BOOLEAN]
  BY ViewTyped DEF SeatInv, TypeOK
<1>2. CASE OnPut(c)
  <2> DEFINE message == Head(chan[c])
             out == RemoveFromVehicle(View(c))
             after == EnterVehicle(out, message.vehicle, message.seat)
  <2>1. message.vehicle \in Vehicle /\ message.seat \in Seat
    BY <1>2, HeadTyped DEF OnPut, Handle, SeatInv
  <2>2. Safe(View(c), out)
    BY <1>1, RemoveSafe
  <2>3. Handle(c, "PUT", after) /\ down' = down
    BY <1>2 DEF OnPut
  <2> HIDE DEF out, message
  <2>4. Safe(out, after)
    BY <2>1, <2>2, SafeTyped, EnterSafe
  <2> HIDE DEF after
  <2>5. Safe(View(c), after)
    BY <2>2, <2>4, SafeTwice
  <2> QED BY <1>1, <2>3, <2>5, HandleKeeps
<1>3. CASE OnRemove(c)
  <2> DEFINE view == View(c)
             after == IF view.p.vehicle = None THEN view ELSE ExitVehicle(view)
  <2>1. Safe(view, after)
    BY <1>1, ExitSafe, SafeSame
  <2>2. Handle(c, "REMOVE", after) /\ down' = down
    BY <1>3 DEF OnRemove
  <2> HIDE DEF after
  <2> QED BY <1>1, <2>1, <2>2, HandleKeeps
<1> QED BY <1>2, <1>3

LEMMA SeatedKeeps ==
  ASSUME SeatInv, NEW kind \in {"VEHICLE", "PASSENGER"}, SeatedSync(kind)
  PROVE  SeatInv'
<1> DEFINE view == View(Watcher)
           message == Head(chan[Watcher])
           fails == Dereferences(view.p, kind, message.vehicle)
           after == IF fails THEN view
                             ELSE Follow(view, message.vehicle, message.seat)
<1>1. Watcher \in Client
  BY DEF Client
<1>2. view \in ViewType
  BY <1>1, ViewTyped DEF SeatInv
<1>3. Handle(Watcher, kind, after) /\ down' = [down EXCEPT ![Watcher] = fails]
  BY DEF SeatedSync
<1>4. message \in Sync
  <2>1. chan[Watcher] # <<>> /\ message.kind = kind
    BY <1>3 DEF Handle
  <2> QED BY <1>1, <2>1, HeadTyped DEF SeatInv
<1>5. fails \in BOOLEAN /\ (~ fails => message.vehicle # None)
  BY DEF Dereferences
<1> HIDE DEF message, fails
<1>6. message.seat \in Seat /\ (~ fails => message.vehicle \in Vehicle)
  BY <1>4, <1>5 DEF Sync, Somewhere
<1>7. Safe(view, after)
  BY <1>2, <1>6, FollowSafe, SafeSame
<1> HIDE DEF after
<1>8. down' \in [Client -> BOOLEAN]
  BY <1>3, <1>5 DEF SeatInv, TypeOK
<1> QED BY <1>1, <1>3, <1>7, <1>8, HandleKeeps

LEMMA FollowsKeep ==
  ASSUME SeatInv, Follows
  PROVE  SeatInv'
<1>1. CASE OnFootSync
  <2> DEFINE view == View(Watcher)
             after == IF view.p.ped = None THEN view ELSE ExitVehicle(view)
  <2>1. Watcher \in Client
    BY DEF Client
  <2>2. view \in ViewType /\ down \in [Client -> BOOLEAN]
    BY <2>1, ViewTyped DEF SeatInv, TypeOK
  <2>3. Safe(view, after)
    BY <2>2, ExitSafe, SafeSame
  <2>4. Handle(Watcher, "ONFOOT", after) /\ down' = down
    BY <1>1 DEF OnFootSync
  <2> HIDE DEF after
  <2> QED BY <2>1, <2>2, <2>3, <2>4, HandleKeeps
<1>2. CASE OnVehicleSync
  BY <1>2, SeatedKeeps DEF OnVehicleSync
<1>3. CASE OnPassengerSync
  BY <1>3, SeatedKeeps DEF OnPassengerSync
<1> QED BY <1>1, <1>2, <1>3 DEF Follows
-----------------------------------------------------------------------------
LEMMA SeatInit == Init => SeatInv
<1> SUFFICES ASSUME Init PROVE SeatInv
  OBVIOUS
<1>1. TypeOK
  <2>1. /\ player \in [Client -> Player] /\ server \in Sync
        /\ occupants \in [Client -> SUBSET (Vehicle \X Seat)]
    BY Bounds DEF Init, Player, Sync, OnFoot, Somewhere
  <2>2. /\ down \in [Client -> BOOLEAN]
        /\ chan \in [Client -> Seq(Sync \cup Order)] /\ up \in Seq(Sync)
    BY DEF Init
  <2>3. acts \in 0 .. MaxActs /\ moves \in acts .. MaxMoves
    BY Bounds DEF Init
  <2> QED BY <2>1, <2>2, <2>3 DEF Init, TypeOK
<1>2. ASSUME NEW c \in Client PROVE Part(c)
  <2>1. player[c].vehicle = None /\ player[c].entering = FALSE
        /\ occupants[c] = {}
    BY DEF Init
  <2>2. View(c).p = player[c] /\ View(c).listed = occupants[c]
    BY DEF View
  <2> QED BY <2>1, <2>2 DEF Part, Covered, Exact, HeldBy, EntryKnown
<1> QED BY <1>1, <1>2 DEF SeatInv

LEMMA SeatStep == SeatInv /\ [Next]_vars => SeatInv'
<1> SUFFICES ASSUME SeatInv, [Next]_vars PROVE SeatInv'
  OBVIOUS
<1>1. CASE \E arrives \in BOOLEAN : LocalPulse(arrives)
  BY <1>1, PulseKeeps
<1>2. CASE \E c \in Client : Game(c) \/ OnPut(c) \/ OnRemove(c)
  BY <1>2, GameKeeps, OrdersKeep
<1>3. CASE \E to \in SUBSET Client :
             \/ TakeOut(to)
             \/ \E v \in Vehicle, s \in Seat : PutIntoVehicle(v, s, to)
  BY <1>3, ScriptsKeep
<1>4. CASE PlayerSync \/ Relay
  BY <1>4, ServerKeeps
<1>5. CASE Follows
  BY <1>5, FollowsKeep
<1>6. CASE UNCHANGED vars
  <2>1. UNCHANGED <<player, occupants, doubled>>
    BY <1>6 DEF vars, histories
  <2> QED BY <1>6, <2>1, UnseenKeeps DEF vars, histories, SeatInv, TypeOK
<1> QED BY <1>1, <1>2, <1>3, <1>4, <1>5, <1>6 DEF Next

LEMMA SeatAlways == Spec => []SeatInv
BY SeatInit, SeatStep, PTL DEF Spec

(* Every run of the two clients and the server stays in the types.         *)
THEOREM TypeCorrect == Spec => []TypeOK
<1>1. SeatInv => TypeOK
  BY DEF SeatInv
<1> QED BY <1>1, SeatAlways, PTL

(* However entries, exits, packets and scripts interleave, the seats of a  *)
(* client's vehicles name the player where the client has it and nowhere   *)
(* else, but for the local player who presses a key before it is out.      *)
THEOREM SeatsHeld == Spec => []OccupantsHeld
<1>1. SeatInv => OccupantsHeld
  <2> SUFFICES ASSUME SeatInv, NEW c \in Client
               PROVE  /\ HeldBy(player[c]) \subseteq occupants[c]
                      /\ occupants[c] # HeldBy(player[c]) => c = Own /\ doubled
    BY DEF OccupantsHeld, HeldBy
  <2>1. View(c).p = player[c] /\ View(c).listed = occupants[c] /\ Part(c)
    BY ViewTyped DEF SeatInv
  <2> QED BY <2>1 DEF Part, Covered, Exact
<1> QED BY <1>1, SeatAlways, PTL
-----------------------------------------------------------------------------
(* As long as no script moves the player, only packets are on their way,   *)
(* all of them about a known vehicle, and all of them to the watcher.      *)

Honest == {m \in Sync : m.kind # "ONFOOT" => m.vehicle # None}

(* Where the local player's ped is, by what its client knows.              *)
OwnSeat(p) ==
  /\ p.entering => /\ p.vehicle = None /\ ~ p.exiting
                   /\ p.ped \in {None, p.target} /\ p.task # "out"
  /\ ~ p.entering => p.task # "in" /\ (p.ped # None => p.vehicle = p.ped)
  /\ p.task = "out" => p.exiting
  /\ p.exiting /\ p.ped # None => p.task = "out"

(* A watcher's ped never gets in by itself, so that the vehicle it has     *)
(* been put into is known for as long as it sits there.                    *)
WatcherSeat(p) == p.task # "in" /\ (p.ped # None => p.vehicle # None)

Calm ==
  /\ chan[Own] = <<>> /\ chan[Watcher] \in Seq(Honest)
  /\ up \in Seq(Honest) /\ server \in Honest
  /\ OwnSeat(player[Own]) /\ WatcherSeat(player[Watcher])
  /\ ~ down[Watcher]

CalmInv == SeatInv /\ (calm => Calm)

LEMMA SerializeHonest == \A p \in Player : Serialize(p) \in Honest
<1> SUFFICES ASSUME NEW p \in Player PROVE Serialize(p) \in Honest
  OBVIOUS
<1>1. Serialize(p) \in Sync
  BY SerializeTyped
<1> QED BY <1>1 DEF Honest, Serialize, OnFoot

LEMMA ProcessOwn ==
  ASSUME NEW view \in ViewType, EntryKnown(view.p), OwnSeat(view.p)
  PROVE  OwnSeat(ProcessVehicleEnterExit(view).p)
<1> DEFINE after == ProcessVehicleEnterExit(view)
           complete == view.p.ped # None /\ view.p.entering
                       /\ view.p.task # "in"
           left == view.p.ped = None /\ view.p.exiting
                   /\ view.p.task # "out"
<1>1. /\ after.p.ped = view.p.ped
      /\ ~ complete /\ ~ left => after = view
      /\ complete \/ left =>
           ~ after.p.entering /\ ~ after.p.exiting /\ after.p.task = "none"
      /\ complete /\ ~ view.p.exiting => after.p.vehicle = view.p.target
  BY ProcessSafe
<1>2. complete => view.p.ped = view.p.target /\ ~ view.p.exiting
  BY DEF OwnSeat
<1> SUFFICES OwnSeat(after.p)
  OBVIOUS
<1> HIDE DEF after
<1>3. CASE complete
  BY <1>1, <1>2, <1>3 DEF OwnSeat
<1>4. CASE left
  BY <1>1, <1>4 DEF OwnSeat
<1>5. CASE ~ complete /\ ~ left
  BY <1>1, <1>5
<1> QED BY <1>3, <1>4, <1>5

LEMMA AbortedOwn ==
  ASSUME NEW view \in ViewType, OwnSeat(view.p)
  PROVE  OwnSeat(CheckAborted(view).p)
BY AbortedSafe DEF OwnSeat, ViewType, Player

LEMMA KeyInTyped ==
  ASSUME NEW view \in ViewType, EntryKnown(view.p),
         NEW v \in Vehicle, NEW s \in Seat
  PROVE  KeyIn(view, v, s) \in ViewType /\ EntryKnown(KeyIn(view, v, s).p)
<1> DEFINE away == [view EXCEPT !.p.vehicle = None]
<1>1. CASE view.p.entering
  BY <1>1 DEF KeyIn
<1>2. CASE ~ view.p.entering
  <2>1. away \in ViewType /\ away.p.vehicle = None
    <3> DEFINE q == [view.p EXCEPT !.vehicle = None]
    <3>1. q \in Player /\ q.vehicle = None
      BY DEF ViewType, Player, Somewhere
    <3>2. away = [view EXCEPT !.p = q]
      BY DEF ViewType
    <3> HIDE DEF q, away
    <3> QED BY <3>1, <3>2 DEF ViewType
  <2>2. KeyIn(view, v, s) = EnterVehicle(away, v, s)
    BY <1>2 DEF KeyIn
  <2> HIDE DEF away
  <2> QED BY <2>1, <2>2, EnterSafe DEF Safe, EntryKnown
<1> QED BY <1>1, <1>2

(* A key pressed before the ped is out leaves an entry and an exit at      *)
(* once, which the same pulse resets.                                      *)
LEMMA KeyInOwn ==
  ASSUME NEW view \in ViewType, NEW v \in Vehicle, NEW s \in Seat,
         OwnSeat(view.p), EntryKnown(view.p), view.p.ped = None
  PROVE  OwnSeat(ProcessVehicleEnterExit(KeyIn(view, v, s)).p)
<1> DEFINE away == [view EXCEPT !.p.vehicle = None]
           into == EnterVehicle(away, v, s)
           after == ProcessVehicleEnterExit(into)
<1>1. CASE view.p.entering
  BY <1>1, ProcessOwn DEF KeyIn
<1>2. CASE ~ view.p.entering
  <2>1. /\ away \in ViewType /\ away.p.vehicle = None /\ ~ away.p.entering
        /\ away.p.ped = None /\ away.p.exiting = view.p.exiting
    <3> DEFINE q == [view.p EXCEPT !.vehicle = None]
    <3>1. q \in Player /\ q.vehicle = None /\ ~ q.entering
          /\ q.ped = None /\ q.exiting = view.p.exiting
      BY <1>2 DEF ViewType, Player, Somewhere
    <3>2. away = [view EXCEPT !.p = q]
      BY DEF ViewType
    <3> HIDE DEF q, away
    <3> QED BY <3>1, <3>2 DEF ViewType
  <2> HIDE DEF away
  <2>2. /\ Safe(away, into)
        /\ into.p.ped = None /\ into.p.exiting = view.p.exiting
        /\ into.p.vehicle = None /\ into.p.entering /\ into.p.target = v
        /\ into.p.task = "in"
    BY <2>1, EnterSafe
  <2>3. into \in ViewType /\ EntryKnown(into.p)
    BY <2>1, <2>2 DEF Safe, EntryKnown
  <2>4. KeyIn(view, v, s) = into
    BY <1>2 DEF KeyIn, away
  <2> HIDE DEF into
  <2>5. CASE view.p.exiting
    <3>1. /\ after.p.ped = None /\ ~ after.p.entering
          /\ ~ after.p.exiting /\ after.p.task = "none"
      BY <2>2, <2>3, <2>5, ProcessSafe
    <3> QED BY <2>4, <3>1 DEF OwnSeat
  <2>6. CASE ~ view.p.exiting
    <3>1. OwnSeat(into.p)
      BY <2>2, <2>6 DEF OwnSeat
    <3> QED BY <2>3, <2>4, <3>1, ProcessOwn
  <2> QED BY <2>5, <2>6
<1> QED BY <1>1, <1>2

LEMMA KeyOutOwn ==
  ASSUME NEW view \in ViewType, OwnSeat(view.p), EntryKnown(view.p),
         view.p.ped # None
  PROVE  /\ KeyOut(view) \in ViewType /\ EntryKnown(KeyOut(view).p)
         /\ OwnSeat(KeyOut(view).p)
<1> DEFINE after == ExitVehicle(view)
<1>1. CASE view.p.exiting
  BY <1>1 DEF KeyOut
<1>2. CASE ~ view.p.exiting
  <2>1. /\ Safe(view, after)
        /\ after.p.ped = view.p.ped
        /\ after.p.entering = view.p.entering
        /\ after.p.target = view.p.target
        /\ after.p.vehicle = view.p.vehicle
        /\ IF view.p.vehicle # None
           THEN after.p.exiting /\ after.p.task = "out"
           ELSE /\ after.p.exiting = view.p.exiting
                /\ after.p.task \in {view.p.task, "none"}
                /\ after.p.entering => after.p.task # "in"
    BY ExitSafe
  <2>2. KeyOut(view) = after
    BY <1>2 DEF KeyOut
  <2>3. view.p.vehicle = None <=> view.p.entering
    BY DEF OwnSeat
  <2>4. OwnSeat(view.p) /\ EntryKnown(view.p)
    OBVIOUS
  <2> HIDE DEF after
  <2>5. OwnSeat(after.p)
    BY <1>2, <2>1, <2>3, <2>4 DEF OwnSeat
  <2> QED BY <2>1, <2>2, <2>4, <2>5 DEF Safe
<1> QED BY <1>1, <1>2
-----------------------------------------------------------------------------
(* Each action keeps the rest of the invariant, of what it changes.        *)

LEMMA OwnView ==
  ASSUME SeatInv
  PROVE  /\ View(Own) \in ViewType /\ View(Own).p = player[Own]
         /\ player[Own] \in Player /\ EntryKnown(View(Own).p)
BY ViewTyped DEF SeatInv, Part, Client

LEMMA EndPulseCalm ==
  ASSUME SeatInv, Calm, NEW view \in ViewType, NEW arrives \in BOOLEAN,
         EntryKnown(view.p), EndPulse(view, arrives),
         OwnSeat(ProcessVehicleEnterExit(view).p),
         down'[Watcher] = down[Watcher]
  PROVE  Calm'
<1> DEFINE done == ProcessVehicleEnterExit(view)
<1>1. done \in ViewType
  BY ProcessSafe DEF Safe
<1>2. /\ Seen(Own, done) /\ UNCHANGED <<server, chan>>
      /\ up' = IF arrives THEN Sent(up, Serialize(done.p)) ELSE up
  BY DEF EndPulse
<1> HIDE DEF done
<1>3. player'[Own] = done.p /\ player'[Watcher] = player[Watcher]
  BY <1>2, Bounds DEF Seen, SeatInv, TypeOK, Client
<1>4. up' \in Seq(Honest)
  <2>1. Serialize(done.p) \in Honest
    BY <1>1, SerializeHonest DEF ViewType
  <2>2. Sent(up, Serialize(done.p)) \in Seq(Honest)
    BY <2>1, SentIsSeq DEF Calm
  <2> QED BY <1>2, <2>2 DEF Calm
<1> QED BY <1>2, <1>3, <1>4 DEF Calm, done

LEMMA PulseCalm ==
  ASSUME SeatInv, Calm, NEW arrives \in BOOLEAN, LocalPulse(arrives)
  PROVE  Calm'
<1> DEFINE seen == View(Own)
           view == CheckAborted(seen)
<1>1. /\ seen \in ViewType /\ seen.p = player[Own]
      /\ EntryKnown(seen.p) /\ OwnSeat(seen.p)
  BY OwnView DEF Calm
<1>2. view \in ViewType /\ EntryKnown(view.p) /\ OwnSeat(view.p)
  BY <1>1, AbortedSafe, AbortedOwn DEF Safe
<1> HIDE DEF seen, view
<1>3. CASE Pulse(arrives)
  <2>1. EndPulse(view, arrives) /\ down' = down
    BY <1>3 DEF Pulse, view, seen
  <2>2. OwnSeat(ProcessVehicleEnterExit(view).p)
    BY <1>2, ProcessOwn
  <2> QED BY <1>2, <2>1, <2>2, EndPulseCalm
<1>4. CASE PressToExit(arrives)
  <2> DEFINE out == KeyOut(seen)
  <2>1. /\ EndPulse(out, arrives) /\ seen.p.ped # None
        /\ down' = [down EXCEPT ![Own] = ~ seen.p.exiting /\ seen.p.vehicle = None]
    BY <1>4 DEF PressToExit, seen
  <2>2. out \in ViewType /\ EntryKnown(out.p) /\ OwnSeat(out.p)
    BY <1>1, <2>1, KeyOutOwn
  <2> HIDE DEF out
  <2>3. OwnSeat(ProcessVehicleEnterExit(out).p)
    BY <2>2, ProcessOwn
  <2>4. down'[Watcher] = down[Watcher]
    BY <2>1, Bounds DEF SeatInv, TypeOK, Client
  <2> QED BY <2>1, <2>2, <2>3, <2>4, EndPulseCalm
<1>5. ASSUME NEW v \in Vehicle, NEW s \in {0, Passengers},
             PressToEnter(v, s, arrives)
      PROVE  Calm'
  <2> DEFINE into == KeyIn(view, v, s)
  <2>1. EndPulse(into, arrives) /\ view.p.ped = None /\ down' = down
    BY <1>5 DEF PressToEnter, view, seen
  <2>2. s \in Seat
    BY Bounds
  <2>3. into \in ViewType /\ EntryKnown(into.p)
    BY <1>2, <2>2, KeyInTyped
  <2>4. OwnSeat(ProcessVehicleEnterExit(into).p)
    BY <1>2, <2>1, <2>2, KeyInOwn
  <2> HIDE DEF into
  <2> QED BY <2>1, <2>3, <2>4, EndPulseCalm
<1> QED BY <1>3, <1>4, <1>5 DEF LocalPulse

LEMMA GameCalm ==
  ASSUME SeatInv, Calm, NEW c \in Client, Game(c)
  PROVE  Calm'
<1> DEFINE p == player[c]
           q == player'[c]
<1>1. /\ p \in Player /\ player \in [Client -> Player]
      /\ Own \in Client /\ Watcher \in Client /\ Own # Watcher
  BY Bounds DEF SeatInv, TypeOK, Client
<1>2. PICK r : Ped(c, r)
  BY DEF Game, Sit, Rise, EndTask, CancelEntry
<1>3. UNCHANGED <<down, server, chan, up>>
      /\ \A d \in Client : d # c => player'[d] = player[d]
  BY <1>1, <1>2 DEF Ped
<1>4. /\ p.task = "in" /\ p.ped # p.target
      /\ q = [p EXCEPT !.ped = IF @ = None THEN p.target ELSE None]
      \/ /\ p.task = "out" /\ p.ped # None
         /\ q = [p EXCEPT !.ped = None]
      \/ /\ p.task = "in" \/ (p.task = "out" /\ p.ped = None)
         /\ q = [p EXCEPT !.task = "none"]
  BY <1>1 DEF Game, Sit, Rise, EndTask, CancelEntry, Ped
<1>5. /\ q.vehicle = p.vehicle /\ q.target = p.target
      /\ q.entering = p.entering /\ q.exiting = p.exiting
      /\ \/ /\ p.task = "in" /\ p.ped # p.target /\ q.task = p.task
            /\ q.ped = IF p.ped = None THEN p.target ELSE None
         \/ p.task = "out" /\ q.ped = None /\ q.task = p.task
         \/ /\ p.task = "in" \/ (p.task = "out" /\ p.ped = None)
            /\ q.ped = p.ped /\ q.task = "none"
  BY <1>1, <1>4 DEF Player
<1>6. CASE c = Own
  <2>1. OwnSeat(p)
    BY <1>6 DEF Calm
  <2> HIDE DEF p, q
  <2>2. OwnSeat(q)
    BY <1>5, <2>1 DEF OwnSeat
  <2> QED BY <1>1, <1>3, <1>6, <2>2 DEF Calm, q
<1>7. CASE c = Watcher
  <2>1. WatcherSeat(p)
    BY <1>7 DEF Calm
  <2> HIDE DEF p, q
  <2>2. WatcherSeat(q)
    BY <1>5, <2>1 DEF WatcherSeat
  <2> QED BY <1>1, <1>3, <1>7, <2>2 DEF Calm, q
<1> QED BY <1>6, <1>7 DEF Client

LEMMA ServerCalm ==
  ASSUME SeatInv, Calm, PlayerSync \/ Relay
  PROVE  Calm'
<1>1. CASE PlayerSync
  <2>1. server' \in Honest /\ up' \in Seq(Honest)
    BY <1>1, TakenFromSeq DEF PlayerSync, Calm
  <2> QED BY <1>1, <2>1 DEF PlayerSync, Calm
<1>2. CASE Relay
  <2>1. PICK message \in Relayed :
          chan' = [chan EXCEPT ![Watcher] = Sent(@, message)]
    BY <1>2 DEF Relay
  <2>2. message \in Honest
    <3>1. OnFoot \in Honest
      BY Bounds DEF Honest, Sync, OnFoot, Somewhere
    <3> QED BY <2>1, <3>1 DEF Relayed, Calm, Honest
  <2>3. Sent(chan[Watcher], message) \in Seq(Honest)
    BY <2>2, SentIsSeq DEF Calm
  <2>4. chan'[Watcher] \in Seq(Honest) /\ chan'[Own] = <<>>
    BY <2>1, <2>3, Bounds DEF Calm, SeatInv, TypeOK, Client
  <2> QED BY <1>2, <2>4 DEF Relay, Calm
<1> QED BY <1>1, <1>2

LEMMA HandleCalm ==
  ASSUME SeatInv, Calm, NEW kind, NEW after \in ViewType,
         Handle(Watcher, kind, after), WatcherSeat(after.p), ~ down'[Watcher]
  PROVE  Calm'
<1>1. /\ player \in [Client -> Player]
      /\ chan \in [Client -> Seq(Sync \cup Order)]
      /\ Own \in Client /\ Watcher \in Client /\ Own # Watcher
  BY Bounds DEF SeatInv, TypeOK, Client
<1>2. player'[Watcher] = after.p /\ player'[Own] = player[Own]
  BY <1>1 DEF Handle, Seen
<1>3. chan'[Watcher] \in Seq(Honest) /\ chan'[Own] = chan[Own]
  <2>1. Tail(chan[Watcher]) \in Seq(Honest)
    BY TakenFromSeq DEF Handle, Calm
  <2> QED BY <1>1, <2>1 DEF Handle
<1> QED BY <1>2, <1>3 DEF Handle, Calm

(* What heads the watcher's queue, and the client's view it meets.         *)
LEMMA WatcherMeets ==
  ASSUME SeatInv, Calm, chan[Watcher] # <<>>
  PROVE  /\ Head(chan[Watcher]) \in Honest
         /\ View(Watcher) \in ViewType /\ WatcherSeat(View(Watcher).p)
<1>1. Head(chan[Watcher]) \in Honest
  BY TakenFromSeq DEF Calm
<1>2. View(Watcher) \in ViewType /\ View(Watcher).p = player[Watcher]
  BY ViewTyped DEF SeatInv, Client
<1> QED BY <1>1, <1>2 DEF Calm

LEMMA FollowsCalm ==
  ASSUME SeatInv, Calm, Follows
  PROVE  Calm'
<1> DEFINE view == View(Watcher)
           message == Head(chan[Watcher])
<1>1. chan[Watcher] # <<>>
  BY DEF Follows, OnFootSync, OnVehicleSync, OnPassengerSync, SeatedSync,
         Handle
<1>2. message \in Honest /\ view \in ViewType /\ WatcherSeat(view.p)
  BY <1>1, WatcherMeets
<1>3. CASE OnFootSync
  <2> DEFINE after == IF view.p.ped = None THEN view ELSE ExitVehicle(view)
  <2>1. Handle(Watcher, "ONFOOT", after) /\ down' = down
    BY <1>3 DEF OnFootSync
  <2> HIDE DEF view
  <2>2. after \in ViewType /\ WatcherSeat(after.p)
    <3>1. CASE view.p.ped = None
      BY <1>2, <3>1
    <3>2. CASE view.p.ped # None
      <4>1. view.p.vehicle # None
        BY <1>2, <3>2 DEF WatcherSeat
      <4>2. /\ Safe(view, ExitVehicle(view))
            /\ ExitVehicle(view).p.task = "out"
            /\ ExitVehicle(view).p.vehicle = view.p.vehicle
        BY <1>2, <4>1, ExitSafe
      <4> QED BY <3>2, <4>1, <4>2 DEF Safe, WatcherSeat
    <3> QED BY <3>1, <3>2
  <2> HIDE DEF after
  <2>3. ~ down'[Watcher]
    BY <2>1 DEF Calm
  <2> QED BY <2>1, <2>2, <2>3, HandleCalm
<1>4. ASSUME NEW kind \in {"VEHICLE", "PASSENGER"}, SeatedSync(kind)
      PROVE  Calm'
  <2> DEFINE fails == Dereferences(view.p, kind, message.vehicle)
             after == IF fails THEN view
                               ELSE Follow(view, message.vehicle, message.seat)
  <2>1. /\ Handle(Watcher, kind, after)
        /\ down' = [down EXCEPT ![Watcher] = fails]
    BY <1>4 DEF SeatedSync
  <2>2. message.kind = kind
    BY <2>1 DEF Handle
  <2> HIDE DEF view, message
  <2>3. message.vehicle \in Vehicle /\ message.seat \in Seat
    BY <1>2, <2>2 DEF Honest, Sync, Somewhere
  <2>4. ~ fails
    BY <1>2, <2>3, Bounds DEF Dereferences, WatcherSeat
  <2>5. /\ Safe(view, after)
        /\ IF view.p.ped = message.vehicle THEN after = view
           ELSE after.p.vehicle = message.vehicle /\ after.p.task = "none"
    BY <1>2, <2>3, <2>4, FollowSafe
  <2>6. after \in ViewType
    BY <2>5 DEF Safe
  <2> HIDE DEF after, fails
  <2>7. WatcherSeat(after.p)
    BY <1>2, <2>3, <2>5, Bounds DEF WatcherSeat
  <2>8. ~ down'[Watcher]
    BY <2>1, <2>4 DEF SeatInv, TypeOK, Client
  <2> QED BY <2>1, <2>6, <2>7, <2>8, HandleCalm
<1> QED BY <1>3, <1>4 DEF Follows, OnVehicleSync, OnPassengerSync

(* No order is on its way while no script has moved the player.            *)
LEMMA NoOrders ==
  ASSUME SeatInv, Calm, NEW c \in Client, OnPut(c) \/ OnRemove(c)
  PROVE  FALSE
<1>1. chan[c] # <<>> /\ Head(chan[c]).kind \in {"PUT", "REMOVE"}
  BY DEF OnPut, OnRemove, Handle
<1>2. c = Watcher
  BY <1>1 DEF Calm, Client
<1>3. Head(chan[Watcher]) \in Honest
  BY <1>1, <1>2, WatcherMeets
<1> QED BY <1>1, <1>2, <1>3 DEF Honest, Sync

LEMMA CalmInit == Init => CalmInv
<1> SUFFICES ASSUME Init PROVE CalmInv
  OBVIOUS
<1>1. SeatInv
  BY SeatInit
<1>2. server \in Honest /\ up \in Seq(Honest)
  BY Bounds DEF Init, Honest, Sync, OnFoot, Somewhere
<1>3. /\ chan[Own] = <<>> /\ chan[Watcher] \in Seq(Honest)
      /\ ~ down[Watcher]
  BY DEF Init, Client
<1>4. OwnSeat(player[Own]) /\ WatcherSeat(player[Watcher])
  BY DEF Init, Client, OwnSeat, WatcherSeat
<1> QED BY <1>1, <1>2, <1>3, <1>4 DEF CalmInv, Calm

LEMMA CalmStep == CalmInv /\ [Next]_vars => CalmInv'
<1> SUFFICES ASSUME CalmInv, [Next]_vars, calm' PROVE Calm'
  BY SeatStep DEF CalmInv
<1>1. SeatInv
  BY DEF CalmInv
<1>2. CASE \E to \in SUBSET Client :
             \/ TakeOut(to)
             \/ \E v \in Vehicle, s \in Seat : PutIntoVehicle(v, s, to)
  BY <1>2 DEF TakeOut, PutIntoVehicle, ScriptCall
<1>3. CASE \E arrives \in BOOLEAN : LocalPulse(arrives)
  <2>1. calm' = calm
    BY <1>3 DEF LocalPulse, Pulse, PressToExit, PressToEnter, EndPulse
  <2> QED BY <1>1, <1>3, <2>1, PulseCalm DEF CalmInv
<1>4. CASE \E c \in Client : Game(c) \/ OnPut(c) \/ OnRemove(c)
  <2>1. calm' = calm
    BY <1>4 DEF Game, Sit, Rise, EndTask, CancelEntry, Ped, OnPut, OnRemove,
                Handle, histories
  <2> QED BY <1>1, <1>4, <2>1, GameCalm, NoOrders DEF CalmInv
<1>5. CASE PlayerSync \/ Relay
  <2>1. calm' = calm
    BY <1>5 DEF PlayerSync, Relay, histories
  <2> QED BY <1>1, <1>5, <2>1, ServerCalm DEF CalmInv
<1>6. CASE Follows
  <2>1. calm' = calm
    BY <1>6 DEF Follows, OnFootSync, OnVehicleSync, OnPassengerSync,
                SeatedSync, Handle, histories
  <2> QED BY <1>1, <1>6, <2>1, FollowsCalm DEF CalmInv
<1>7. CASE UNCHANGED vars
  <2>1. UNCHANGED <<player, down, server, chan, up, calm>>
    BY <1>7 DEF vars, histories
  <2> QED BY <2>1 DEF CalmInv, Calm
<1> QED BY <1>2, <1>3, <1>4, <1>5, <1>6, <1>7 DEF Next

LEMMA CalmAlways == Spec => []CalmInv
BY CalmInit, CalmStep, PTL DEF Spec

(* The player's own client knows the vehicle its ped sits in, for all the  *)
(* keys pressed, entries cancelled and exits begun, as long as no script   *)
(* interferes.                                                             *)
THEOREM SeatKnown == Spec => []SeatedIsKnown
<1>1. CalmInv => SeatedIsKnown
  BY DEF CalmInv, Calm, OwnSeat, SeatedIsKnown
<1> QED BY <1>1, CalmAlways, PTL

(* A watcher's client survives every loss and order of the packets, as     *)
(* long as no script moves the player.                                     *)
THEOREM WatcherStaysUp == Spec => []WatcherUp
<1>1. CalmInv => WatcherUp
  BY DEF CalmInv, Calm, WatcherUp
<1> QED BY <1>1, CalmAlways, PTL
=============================================================================
