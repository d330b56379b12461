--------------------------- MODULE Checkpoint_proofs ---------------------------
(***************************************************************************)
(* Proofs about Checkpoint, for any clients, spots, slots and bounds:      *)
(* types, that the copies of a client converge to what it was told, and    *)
(* where a marker can be left without a copy.                              *)
(***************************************************************************)
EXTENDS Checkpoint, TLAPS

Facts == INSTANCE EntityManager_proofs
           WITH MaxEntities <- MaxCheckpoints, NoEntity <- None
-----------------------------------------------------------------------------
(* Sequences and values.                                                   *)

LEMMA AppendAt ==
  ASSUME NEW S, NEW q \in Seq(S), NEW m \in S
  PROVE  /\ Append(q, m) \in Seq(S)
         /\ Len(q) \in Nat /\ Len(Append(q, m)) = Len(q) + 1
         /\ Append(q, m)[Len(q) + 1] = m
         /\ \A i \in 1 .. Len(q) : Append(q, m)[i] = q[i]
OBVIOUS

LEMMA TailAt ==
  ASSUME NEW S, NEW q \in Seq(S), q # <<>>
  PROVE  /\ Tail(q) \in Seq(S) /\ Head(q) = q[1] /\ Head(q) \in S
         /\ Len(q) \in Nat /\ Len(q) > 0 /\ Len(Tail(q)) = Len(q) - 1
         /\ \A i \in 1 .. Len(q) - 1 : Tail(q)[i] = q[i + 1]
<1>1. Len(q) \in Nat /\ Len(q) > 0
  OBVIOUS
<1>2. Tail(q) \in Seq(S) /\ Len(Tail(q)) = Len(q) - 1
  BY <1>1
<1>3. Head(q) = q[1] /\ q[1] \in S
  BY <1>1
<1>4. \A i \in 1 .. Len(q) - 1 : Tail(q)[i] = q[i + 1]
  BY <1>1
<1> QED BY <1>1, <1>2, <1>3, <1>4

LEMMA Limit ==
  /\ Table!INVALID_ENTITY_ID \in Nat /\ MaxCheckpoints \in Nat
  /\ MaxCheckpoints <= Table!INVALID_ENTITY_ID
<1>1. Table!INVALID_ENTITY_ID \in Nat
  BY DEF Table!INVALID_ENTITY_ID
<1>2. MaxCheckpoints \in 1 .. Table!INVALID_ENTITY_ID
  BY CheckpointAssumption DEF CheckpointAssumption
<1> QED BY <1>1, <1>2

LEMMA Slots ==
  /\ MaxCheckpoints \in Nat /\ Slot = 0 .. MaxCheckpoints - 1
  /\ Facts!Slot = Slot
<1>1. MaxCheckpoints \in Nat
  BY Limit
<1> QED BY <1>1 DEF Slot, Table!Slot, Facts!Slot

LEMMA Bounds ==
  MaxCreates \in Nat /\ MaxActs \in Nat
BY CheckpointAssumption DEF CheckpointAssumption

LEMMA EmptyHolds ==
  /\ Table!EmptyTable = [id \in Slot |-> None]
  /\ \A id \in Slot : Table!EmptyTable[id] = None
BY DEF Table!EmptyTable, Slot

(* A slot that FindFreeSlot returns is free.                               *)
LEMMA FreeSlot ==
  Table!FindFreeSlot(checkpoints) \in Slot =>
    checkpoints[Table!FindFreeSlot(checkpoints)] = None
<1>1. CASE \E id \in Table!Slot : checkpoints[id] = None
  <2>1. \E id \in Facts!Slot : Facts!IsFirstFree(checkpoints, id)
    BY <1>1, Slots, Facts!FirstFreeExists DEF Facts!Slot, Table!Slot
  <2>2. PICK id \in Table!Slot : Table!IsFirstFree(checkpoints, id)
    BY <2>1 DEF Facts!Slot, Table!Slot, Facts!IsFirstFree, Table!IsFirstFree
  <2>3. Table!FindFreeSlot(checkpoints) =
          CHOOSE s \in Table!Slot : Table!IsFirstFree(checkpoints, s)
    BY <1>1 DEF Table!FindFreeSlot
  <2>4. Table!IsFirstFree(checkpoints, Table!FindFreeSlot(checkpoints))
    BY <2>2, <2>3
  <2> QED BY <2>4 DEF Table!IsFirstFree
<1>2. CASE \A id \in Table!Slot : checkpoints[id] # None
  <2>1. Table!FindFreeSlot(checkpoints) = Table!INVALID_ENTITY_ID
    BY <1>2 DEF Table!FindFreeSlot
  <2>2. Table!INVALID_ENTITY_ID \notin Slot
    BY Limit, Slots
  <2> QED BY <2>1, <2>2
<1> QED BY <1>1, <1>2
-----------------------------------------------------------------------------
(* Types.                                                                  *)

LEMMA MessageTypes ==
  ASSUME NEW id \in Slot
  PROVE  /\ [rpc |-> "DELETE", id |-> id] \in Message
         /\ [rpc |-> "SHOW", id |-> id] \in Message
         /\ [rpc |-> "HIDE", id |-> id] \in Message
         /\ \A serial \in Serial, spot \in Spot :
              /\ [rpc |-> "CREATE", id |-> id, serial |-> serial,
                  spot |-> spot] \in Message
              /\ [rpc |-> "MOVE", id |-> id, spot |-> spot,
                  serial |-> serial] \in Message
BY DEF Message

LEMMA SendTyped ==
  ASSUME TypeOK, NEW to, NEW message \in Message, Send(to, message)
  PROVE  /\ chan' \in [Client -> Seq(Message)]
         /\ \A c \in Client :
              chan'[c] = IF c \in to THEN Append(chan[c], message) ELSE chan[c]
<1>1. \A c \in Client : chan[c] \in Seq(Message)
  BY DEF TypeOK
<1>2. \A c \in Client : Append(chan[c], message) \in Seq(Message)
  BY <1>1
<1> QED BY <1>1, <1>2 DEF Send

LEMMA TellTyped ==
  ASSUME TypeOK, NEW to, NEW id \in Slot,
         NEW what \in {"nothing", "shown", "hidden"}, Tell(to, id, what)
  PROVE  /\ told' \in [Client -> [Slot -> {"nothing", "shown", "hidden"}]]
         /\ \A c \in Client, s \in Slot :
              told'[c][s] = IF c \in to /\ s = id THEN what ELSE told[c][s]
<1>1. \A c \in Client : told[c] \in [Slot -> {"nothing", "shown", "hidden"}]
  BY DEF TypeOK
<1> QED BY <1>1 DEF Tell

LEMMA CreateTyped ==
  ASSUME TypeOK, NEW spot \in Spot, Create(spot)
  PROVE  /\ TypeOK' /\ creates' \in Serial
         /\ [serial |-> creates', spot |-> spot, visible |-> TRUE] \in Entity
<1>1. creates' \in Serial /\ creates' \in 0 .. MaxCreates
  BY Bounds DEF TypeOK, Create, Serial
<1>2. [serial |-> creates', spot |-> spot, visible |-> TRUE] \in Entity
  BY <1>1 DEF Entity
<1>3. calm' \in BOOLEAN /\ acts' \in 0 .. MaxActs
  BY DEF TypeOK, Create, MayRun
<1> DEFINE id == Table!FindFreeSlot(checkpoints)
           message == [rpc |-> "CREATE", id |-> id, serial |-> creates',
                       spot |-> spot]
<1>4. CASE id \in Slot
  <2>1. message \in Message
    BY <1>1, <1>4, MessageTypes
  <2>2. /\ checkpoints' = Table!Put(checkpoints, id,
             [serial |-> creates', spot |-> spot, visible |-> TRUE])
        /\ Send(Linked, message) /\ Tell(Linked, id, "shown")
        /\ UNCHANGED overrun
    BY <1>4 DEF Create
  <2> HIDE DEF id, message
  <2>3. chan' \in [Client -> Seq(Message)]
    BY <2>1, <2>2, SendTyped
  <2>4. told' \in [Client -> [Slot -> {"nothing", "shown", "hidden"}]]
    BY <1>4, <2>2, TellTyped
  <2>5. checkpoints' \in [Slot -> Entity \cup {None}]
    BY <1>2, <1>4, <2>2 DEF TypeOK, Table!Put
  <2> QED BY <1>1, <1>2, <1>3, <2>2, <2>3, <2>4, <2>5
          DEF Create, clientVars, TypeOK
<1>5. CASE id \notin Slot
  <2>1. overrun' = TRUE /\ UNCHANGED <<checkpoints, chan, told>>
    BY <1>5 DEF Create
  <2> QED BY <1>1, <1>2, <1>3, <2>1 DEF Create, clientVars, TypeOK
<1> QED BY <1>4, <1>5

LEMMA ActCounted ==
  ASSUME TypeOK, MayAct
  PROVE  calm' \in BOOLEAN /\ acts' \in 0 .. MaxActs
BY Bounds DEF TypeOK, MayAct, MayRun

LEMMA DeleteTyped ==
  ASSUME TypeOK, NEW id \in Slot, DeleteCheckpoint(id)
  PROVE  TypeOK'
<1>1. calm' \in BOOLEAN /\ acts' \in 0 .. MaxActs
  BY ActCounted DEF DeleteCheckpoint
<1>2. chan' \in [Client -> Seq(Message)]
  BY MessageTypes, SendTyped DEF DeleteCheckpoint
<1>3. told' \in [Client -> [Slot -> {"nothing", "shown", "hidden"}]]
  BY TellTyped DEF DeleteCheckpoint
<1>4. checkpoints' \in [Slot -> Entity \cup {None}]
  BY DEF DeleteCheckpoint, TypeOK, Table!Delete
<1> QED BY <1>1, <1>2, <1>3, <1>4 DEF DeleteCheckpoint, TypeOK, clientVars

LEMMA EntityFields ==
  ASSUME TypeOK, NEW id \in Slot, Table!Exists(checkpoints, id)
  PROVE  /\ checkpoints[id] \in Entity /\ checkpoints[id] # None
         /\ checkpoints[id].serial \in Serial /\ checkpoints[id].spot \in Spot
         /\ checkpoints[id].visible \in BOOLEAN
BY DEF TypeOK, Table!Exists, Entity

LEMMA MoveTyped ==
  ASSUME TypeOK, NEW id \in Slot, NEW spot \in Spot, Move(id, spot)
  PROVE  TypeOK'
<1>1. calm' \in BOOLEAN /\ acts' \in 0 .. MaxActs
  BY ActCounted DEF Move
<1>2. chan' \in [Client -> Seq(Message)]
  BY MessageTypes, SendTyped, EntityFields DEF Move
<1>3. [checkpoints[id] EXCEPT !.spot = spot] \in Entity
  BY EntityFields DEF Move, Entity
<1>4. checkpoints' \in [Slot -> Entity \cup {None}]
  BY <1>3 DEF Move, TypeOK
<1> QED BY <1>1, <1>2, <1>4 DEF Move, TypeOK, clientVars

LEMMA ShowForAllTyped ==
  ASSUME TypeOK, NEW id \in Slot, NEW visible \in BOOLEAN,
         ShowForAll(id, visible)
  PROVE  TypeOK'
<1>1. calm' \in BOOLEAN /\ acts' \in 0 .. MaxActs
  BY ActCounted DEF ShowForAll
<1>2. chan' \in [Client -> Seq(Message)]
  BY MessageTypes, SendTyped DEF ShowForAll
<1>3. [checkpoints[id] EXCEPT !.visible = visible] \in Entity
  BY EntityFields DEF ShowForAll, Entity
<1>4. checkpoints' \in [Slot -> Entity \cup {None}]
  BY <1>3 DEF ShowForAll, TypeOK
<1>5. told' \in [Client -> [Slot -> {"nothing", "shown", "hidden"}]]
  BY DEF ShowForAll, TypeOK
<1> QED BY <1>1, <1>2, <1>4, <1>5 DEF ShowForAll, TypeOK, clientVars

LEMMA ShowForPlayerTyped ==
  ASSUME TypeOK, NEW id \in Slot, NEW visible \in BOOLEAN, NEW c \in Client,
         ShowForPlayer(id, c, visible)
  PROVE  TypeOK'
<1>1. calm' \in BOOLEAN /\ acts' \in 0 .. MaxActs
  BY ActCounted DEF ShowForPlayer
<1>2. chan' \in [Client -> Seq(Message)]
  BY MessageTypes, SendTyped DEF ShowForPlayer
<1>3. told' \in [Client -> [Slot -> {"nothing", "shown", "hidden"}]]
  BY TellTyped DEF ShowForPlayer, TypeOK
<1> QED BY <1>1, <1>2, <1>3 DEF ShowForPlayer, TypeOK, clientVars, serverVars

LEMMA LinkTyped ==
  ASSUME TypeOK, NEW c \in Client, Link(c)
  PROVE  TypeOK'
BY DEF TypeOK, Link, serverVars, clientVars

LEMMA SeenTyped ==
  ASSUME TypeOK
  PROVE  /\ Seen \in [Slot -> Entity \cup {None}]
         /\ [rpc |-> "SNAPSHOT", seen |-> Seen] \in Message
<1>1. Seen \in [Slot -> Entity \cup {None}]
  BY DEF TypeOK, Seen
<1> QED BY <1>1 DEF Message

LEMMA JoinTyped ==
  ASSUME TypeOK, NEW c \in Client, Join(c)
  PROVE  TypeOK'
<1>1. chan' \in [Client -> Seq(Message)]
  BY SeenTyped, SendTyped DEF Join, TypeOK
<1>2. told' \in [Client -> [Slot -> {"nothing", "shown", "hidden"}]]
  BY DEF Join, TypeOK
<1> QED BY <1>1, <1>2 DEF Join, TypeOK, clientVars, serverVars

LEMMA EndTyped ==
  ASSUME TypeOK, NEW c \in Client, EndOfConnection(c)
  PROVE  /\ phase' \in [Client -> {"out", "linked", "joined"}]
         /\ chan' \in [Client -> Seq(Message)]
         /\ told' \in [Client -> [Slot -> {"nothing", "shown", "hidden"}]]
<1>1. /\ Untold \in [Slot -> {"nothing", "shown", "hidden"}]
      /\ <<>> \in Seq(Message)
  BY DEF Untold
<1> QED BY <1>1 DEF EndOfConnection, TypeOK

LEMMA DisconnectTyped ==
  ASSUME TypeOK, NEW c \in Client, Disconnect(c)
  PROVE  TypeOK'
<1>1. leftover' \in [Client -> SUBSET Slot]
  BY DEF Disconnect, TypeOK
<1> QED BY <1>1, EndTyped DEF Disconnect, EndOfConnection, TypeOK, serverVars

LEMMA MarkedTyped ==
  ASSUME TypeOK, NEW c \in Client, NEW slots \in SUBSET Slot
  PROVE  Marked(c, slots) \in SUBSET Serial
<1>1. ASSUME NEW id \in Slot, copies[c][id] # None
      PROVE  copies[c][id].serial \in Serial
  <2>1. copies[c][id] \in Copy
    BY <1>1 DEF TypeOK
  <2> QED BY <2>1 DEF Copy
<1> QED BY <1>1 DEF Marked

LEMMA LoseTyped ==
  ASSUME TypeOK, NEW c \in Client, NEW spot \in Spot \cup {Away},
         Lose(c, spot)
  PROVE  TypeOK'
<1>1. Marked(c, Slot) \in SUBSET Serial
  BY MarkedTyped
<1>2. leaked' \in [Client -> SUBSET Serial]
  BY <1>1 DEF Lose, TypeOK
<1>3. /\ copies' \in [Client -> [Slot -> Copy \cup {None}]]
      /\ leftover' \in [Client -> SUBSET Slot]
      /\ at' \in [Client -> Spot \cup {Away}]
  BY EmptyHolds DEF Lose, TypeOK
<1> QED BY <1>2, <1>3, EndTyped DEF Lose, EndOfConnection, TypeOK, serverVars

LEMMA RestartTyped ==
  ASSUME TypeOK, NEW c \in Client, Restart(c)
  PROVE  TypeOK'
<1>1. Table!EmptyTable \in [Slot -> Copy \cup {None}]
  BY EmptyHolds
<1> QED BY <1>1 DEF Restart, TypeOK, serverVars

LEMMA WalkTyped ==
  ASSUME TypeOK, NEW c \in Client, NEW spot \in Spot \cup {Away}, Walk(c, spot)
  PROVE  TypeOK'
BY DEF Walk, TypeOK, serverVars

LEMMA PulseTyped ==
  ASSUME TypeOK, NEW c \in Client, NEW id \in Slot, Pulse(c, id)
  PROVE  TypeOK'
<1> DEFINE copy == copies[c][id]
<1>1. copy \in Copy
  BY DEF TypeOK, Pulse
<1>2. [copy EXCEPT !.inside = ~ copy.inside] \in Copy
  BY <1>1 DEF Copy
<1>3. copies' \in [Client -> [Slot -> Copy \cup {None}]]
  BY <1>2 DEF TypeOK, Pulse
<1>4. [rpc |-> IF copy.inside THEN "EXIT" ELSE "ENTER", id |-> id,
       from |-> c] \in Report
  BY DEF Report
<1> DEFINE report ==
             [rpc |-> IF copy.inside THEN "EXIT" ELSE "ENTER", id |-> id,
              from |-> c]
<1>5. inbox' \in Seq(Report)
  <2>1. inbox' = Append(inbox, report) \/ inbox' = inbox
    BY DEF Pulse
  <2>2. report \in Report /\ inbox \in Seq(Report)
    BY <1>4 DEF TypeOK
  <2> HIDE DEF report
  <2> QED BY <2>1, <2>2
<1> QED BY <1>3, <1>5 DEF Pulse, TypeOK, serverVars

LEMMA ReportTyped ==
  ASSUME TypeOK, HandleReport
  PROVE  TypeOK'
BY DEF HandleReport, TypeOK, clientVars
-----------------------------------------------------------------------------
(* What a message does to one slot of a client's manager.                  *)

Creates(m, id) ==
  \/ m.rpc = "CREATE" /\ m.id = id
  \/ m.rpc = "SNAPSHOT" /\ m.seen[id] # None

Deletes(m, id) == m.rpc = "DELETE" /\ m.id = id
Moves(m, id) == m.rpc = "MOVE" /\ m.id = id
Shows(m, id) == m.rpc \in {"SHOW", "HIDE"} /\ m.id = id

Made(m, id) ==
  IF m.rpc = "SNAPSHOT" THEN NewCopy(m.seen[id].serial, m.seen[id].spot)
                        ELSE NewCopy(m.serial, m.spot)

(* The slot holds after where it held before.                              *)
Applies(m, id, before, after) ==
  /\ Creates(m, id) => after = Made(m, id)
  /\ Deletes(m, id) => after = None
  /\ ~ Creates(m, id) /\ ~ Deletes(m, id) =>
       /\ before = None => after = None
       /\ before # None =>
            /\ after # None /\ after.serial = before.serial
            /\ after.spot = IF Moves(m, id) THEN m.spot ELSE before.spot
            /\ after.visible = IF Shows(m, id) THEN m.rpc = "SHOW"
                                               ELSE before.visible

LEMMA MessageKinds ==
  ASSUME NEW m \in Message
  PROVE  /\ \/ m.rpc \in {"SHOW", "HIDE", "DELETE"} /\ m.id \in Slot
            \/ /\ m.rpc \in {"CREATE", "MOVE"} /\ m.id \in Slot
               /\ m.serial \in Serial /\ m.spot \in Spot
            \/ m.rpc = "SNAPSHOT" /\ m.seen \in [Slot -> Entity \cup {None}]
         /\ \A id \in Slot : ~ (Creates(m, id) /\ Deletes(m, id))
BY DEF Message, Creates, Deletes

LEMMA NewCopyTyped ==
  ASSUME NEW serial \in Serial, NEW spot \in Spot
  PROVE  /\ NewCopy(serial, spot) \in Copy /\ NewCopy(serial, spot) # None
         /\ NewCopy(serial, spot).serial = serial
         /\ NewCopy(serial, spot).spot = spot
         /\ NewCopy(serial, spot).visible = TRUE
<1>1. NewCopy(serial, spot) \in Copy
  BY DEF NewCopy, Copy
<1>2. NewCopy(serial, spot) # None
  BY <1>1, NullAssumption DEF NullAssumption
<1> QED BY <1>1, <1>2 DEF NewCopy

LEMMA MadeTyped ==
  ASSUME NEW m \in Message, NEW id \in Slot, Creates(m, id)
  PROVE  /\ Made(m, id) \in Copy /\ Made(m, id) # None
         /\ Made(m, id).visible = TRUE
         /\ m.rpc = "SNAPSHOT" =>
              Made(m, id) = NewCopy(m.seen[id].serial, m.seen[id].spot)
         /\ m.rpc = "CREATE" => Made(m, id) = NewCopy(m.serial, m.spot)
<1>1. CASE m.rpc = "SNAPSHOT" /\ m.seen[id] # None
  <2>1. m.seen[id] \in Entity
    BY <1>1, MessageKinds
  <2>2. m.seen[id].serial \in Serial /\ m.seen[id].spot \in Spot
    BY <2>1 DEF Entity
  <2> QED BY <1>1, <2>2, NewCopyTyped DEF Made
<1>2. CASE m.rpc = "CREATE" /\ m.id = id
  <2>1. m.serial \in Serial /\ m.spot \in Spot
    BY <1>2, MessageKinds
  <2> QED BY <1>2, <2>1, NewCopyTyped DEF Made
<1> QED BY <1>1, <1>2 DEF Creates

(* What delivering m to c does to markers, and to the slots that hold a    *)
(* copy of a former connection.                                            *)
Leaves(c, m) ==
  /\ leaked' \in [Client -> SUBSET Serial]
  /\ \A d \in Client \ {c} : leaked'[d] = leaked[d]
  /\ \A serial \in leaked'[c] \ leaked[c] : \E id \in Slot :
       /\ Creates(m, id) /\ copies[c][id] # None
       /\ copies[c][id].serial = serial
  /\ leftover' \in [Client -> SUBSET Slot]
  /\ \A d \in Client \ {c} : leftover'[d] = leftover[d]
  /\ \A id \in Slot : id \in leftover'[c] <=>
       id \in leftover[c] /\ ~ Creates(m, id) /\ ~ Deletes(m, id)

(* What AddCopies does, and when it leaks a marker.                        *)
LEMMA AddCopiesApplies ==
  ASSUME TypeOK, NEW c \in Client, NEW m \in Message,
         NEW new, AddCopies(c, new),
         m.rpc \in {"CREATE", "SNAPSHOT"},
         DOMAIN new = {id \in Slot : Creates(m, id)},
         \A id \in DOMAIN new : new[id] = Made(m, id)
  PROVE  /\ copies' \in [Client -> [Slot -> Copy \cup {None}]]
         /\ \A d \in Client \ {c} : copies'[d] = copies[d]
         /\ \A id \in Slot : Applies(m, id, copies[c][id], copies'[c][id])
         /\ Leaves(c, m)
<1> DEFINE held == [id \in Slot |-> IF id \in DOMAIN new THEN new[id]
                                                        ELSE copies[c][id]]
<1>1. copies' = [copies EXCEPT ![c] = held]
  BY DEF AddCopies
<1>2. copies[c] \in [Slot -> Copy \cup {None}]
  BY DEF TypeOK
<1>3. held \in [Slot -> Copy \cup {None}]
  BY <1>2, MadeTyped
<1>4. \A id \in Slot : held[id] = IF Creates(m, id) THEN Made(m, id)
                                                   ELSE copies[c][id]
  OBVIOUS
<1> HIDE DEF held
<1>5. copies'[c] = held
  BY <1>1 DEF TypeOK
<1>6. \A id \in Slot : ~ Deletes(m, id) /\ ~ Moves(m, id) /\ ~ Shows(m, id)
  BY DEF Deletes, Moves, Shows
<1>7. \A id \in Slot : Applies(m, id, copies[c][id], copies'[c][id])
  BY <1>4, <1>5, <1>6 DEF Applies
<1>8. /\ copies' \in [Client -> [Slot -> Copy \cup {None}]]
      /\ \A d \in Client \ {c} : copies'[d] = copies[d]
  BY <1>1, <1>3 DEF TypeOK
<1>9. Marked(c, DOMAIN new) \in SUBSET Serial
  BY MarkedTyped
<1>10. /\ leaked' = [leaked EXCEPT ![c] = @ \cup Marked(c, DOMAIN new)]
       /\ leftover' = [leftover EXCEPT ![c] = @ \ DOMAIN new]
  BY DEF AddCopies
<1>11. /\ leaked' \in [Client -> SUBSET Serial]
       /\ \A d \in Client \ {c} : leaked'[d] = leaked[d]
       /\ leaked'[c] = leaked[c] \cup Marked(c, DOMAIN new)
       /\ leftover' \in [Client -> SUBSET Slot]
       /\ \A d \in Client \ {c} : leftover'[d] = leftover[d]
       /\ leftover'[c] = leftover[c] \ DOMAIN new
  BY <1>9, <1>10 DEF TypeOK
<1>12. \A serial \in Marked(c, DOMAIN new) : \E id \in Slot :
         /\ Creates(m, id) /\ copies[c][id] # None
         /\ copies[c][id].serial = serial
  BY DEF Marked
<1>13. Leaves(c, m)
  BY <1>6, <1>11, <1>12 DEF Leaves
<1> QED BY <1>7, <1>8, <1>13

LEMMA DeliverApplies ==
  ASSUME TypeOK, NEW c \in Client, Deliver(c)
  PROVE  LET m == Head(chan[c]) IN
         /\ m \in Message
         /\ copies' \in [Client -> [Slot -> Copy \cup {None}]]
         /\ \A d \in Client \ {c} : copies'[d] = copies[d]
         /\ \A id \in Slot : Applies(m, id, copies[c][id], copies'[c][id])
         /\ Leaves(c, m)
<1> DEFINE m == Head(chan[c])
<1>1. m \in Message
  BY TailAt DEF Deliver, TypeOK
<1>2. CASE m.rpc = "SNAPSHOT"
  <2> DEFINE new == [id \in {s \in Slot : m.seen[s] # None} |->
                      NewCopy(m.seen[id].serial, m.seen[id].spot)]
  <2>1. AddCopies(c, new)
    BY <1>2 DEF Deliver
  <2>2. DOMAIN new = {id \in Slot : Creates(m, id)}
    BY <1>2 DEF Creates
  <2>3. \A id \in DOMAIN new : new[id] = Made(m, id)
    BY <1>2 DEF Made
  <2> HIDE DEF new, m
  <2> QED BY <1>1, <1>2, <2>1, <2>2, <2>3, AddCopiesApplies DEF m
<1>3. CASE m.rpc = "CREATE"
  <2> DEFINE new == [id \in {m.id} |-> NewCopy(m.serial, m.spot)]
  <2>1. AddCopies(c, new)
    BY <1>3 DEF Deliver
  <2>2. DOMAIN new = {id \in Slot : Creates(m, id)}
    BY <1>1, <1>3, MessageKinds DEF Creates
  <2>3. \A id \in DOMAIN new : new[id] = Made(m, id)
    BY <1>3 DEF Made
  <2> HIDE DEF new, m
  <2> QED BY <1>1, <1>3, <2>1, <2>2, <2>3, AddCopiesApplies DEF m
<1>4. CASE m.rpc = "DELETE"
  <2>1. /\ copies' = [copies EXCEPT ![c] = Table!Delete(copies[c], m.id)]
        /\ leftover' = [leftover EXCEPT ![c] = @ \ {m.id}]
        /\ UNCHANGED leaked
    BY <1>4 DEF Deliver, OnDelete
  <2>2. copies[c] \in [Slot -> Copy \cup {None}] /\ m.id \in Slot
    BY <1>1, <1>4, MessageKinds DEF TypeOK
  <2> HIDE DEF m
  <2>3. copies' = [copies EXCEPT ![c] = [copies[c] EXCEPT ![m.id] = None]]
    BY <2>1 DEF Table!Delete
  <2>4. /\ copies' \in [Client -> [Slot -> Copy \cup {None}]]
        /\ \A d \in Client \ {c} : copies'[d] = copies[d]
        /\ \A id \in Slot : copies'[c][id] = IF id = m.id THEN None
                                                        ELSE copies[c][id]
    BY <2>2, <2>3 DEF TypeOK
  <2>5. \A id \in Slot : Applies(m, id, copies[c][id], copies'[c][id])
    BY <1>4, <2>4 DEF Applies, Creates, Deletes, Moves, Shows
  <2>6. Leaves(c, m)
    <3>1. /\ leftover' \in [Client -> SUBSET Slot]
          /\ \A d \in Client \ {c} : leftover'[d] = leftover[d]
          /\ leftover'[c] = leftover[c] \ {m.id}
      BY <2>1 DEF TypeOK
    <3>2. \A id \in Slot : ~ Creates(m, id) /\ (Deletes(m, id) <=> id = m.id)
      BY <1>4 DEF Creates, Deletes
    <3> QED BY <2>1, <3>1, <3>2 DEF Leaves, TypeOK
  <2> QED BY <1>1, <2>4, <2>5, <2>6 DEF m
<1>5. CASE m.rpc \in {"MOVE", "SHOW", "HIDE"}
  <2> DEFINE copy == copies[c][m.id]
             changed == CASE m.rpc = "MOVE" -> [copy EXCEPT !.spot = m.spot]
                          [] m.rpc = "SHOW" -> [copy EXCEPT !.visible = TRUE]
                          [] m.rpc = "HIDE" -> [copy EXCEPT !.visible = FALSE]
  <2>1. /\ \/ copy = None /\ UNCHANGED copies
           \/ copy # None /\ copies' = [copies EXCEPT ![c][m.id] = changed]
        /\ UNCHANGED <<leaked, leftover>>
    BY <1>5 DEF Deliver, OnChange
  <2>2. copies[c] \in [Slot -> Copy \cup {None}] /\ m.id \in Slot
    BY <1>1, <1>5, MessageKinds DEF TypeOK
  <2>3. \A id \in Slot : ~ Creates(m, id) /\ ~ Deletes(m, id)
    BY <1>5 DEF Creates, Deletes
  <2>0. Leaves(c, m)
    BY <2>1, <2>3 DEF Leaves, TypeOK
  <2>4. CASE copy = None
    <3>1. \A id \in Slot : Applies(m, id, copies[c][id], copies'[c][id])
      <4> SUFFICES ASSUME NEW id \in Slot
                   PROVE  Applies(m, id, copies[c][id], copies'[c][id])
        OBVIOUS
      <4>1. copies'[c][id] = copies[c][id]
        BY <2>1, <2>4
      <4>2. copies[c][id] # None => id # m.id
        BY <2>4
      <4> QED BY <2>3, <4>1, <4>2 DEF Applies, Moves, Shows
    <3> QED BY <1>1, <2>0, <2>1, <2>4, <3>1 DEF TypeOK
  <2>5. CASE copy # None
    <3>1. copy \in Copy
      BY <2>2, <2>5
    <3>2. /\ changed \in Copy /\ changed.serial = copy.serial
          /\ changed.spot = IF m.rpc = "MOVE" THEN m.spot ELSE copy.spot
          /\ changed.visible = IF m.rpc \in {"SHOW", "HIDE"}
                               THEN m.rpc = "SHOW" ELSE copy.visible
      <4>1. CASE m.rpc = "MOVE"
        <5>1. m.spot \in Spot
          BY <1>1, <4>1, MessageKinds
        <5> QED BY <3>1, <4>1, <5>1 DEF Copy
      <4>2. CASE m.rpc = "SHOW"
        BY <3>1, <4>2 DEF Copy
      <4>3. CASE m.rpc = "HIDE"
        BY <3>1, <4>3 DEF Copy
      <4> QED BY <1>5, <4>1, <4>2, <4>3
    <3>3. changed # None
      BY <3>2, NullAssumption DEF NullAssumption
    <3> HIDE DEF changed, m
    <3>4. copies' = [copies EXCEPT ![c] = [copies[c] EXCEPT ![m.id] = changed]]
      BY <2>1, <2>5
    <3>5. /\ copies' \in [Client -> [Slot -> Copy \cup {None}]]
          /\ \A d \in Client \ {c} : copies'[d] = copies[d]
          /\ \A id \in Slot : copies'[c][id] = IF id = m.id THEN changed
                                                          ELSE copies[c][id]
      BY <2>2, <3>2, <3>4 DEF TypeOK
    <3>6. \A id \in Slot : Applies(m, id, copies[c][id], copies'[c][id])
      <4> SUFFICES ASSUME NEW id \in Slot
                   PROVE  Applies(m, id, copies[c][id], copies'[c][id])
        OBVIOUS
      <4>1. CASE id = m.id
        BY <1>5, <2>3, <2>5, <3>2, <3>3, <3>5, <4>1
           DEF Applies, Moves, Shows
      <4>2. CASE id # m.id
        BY <2>3, <3>5, <4>2 DEF Applies, Moves, Shows
      <4> QED BY <4>1, <4>2
    <3> QED BY <1>1, <2>0, <3>5, <3>6 DEF m
  <2> QED BY <2>4, <2>5
<1>6. m.rpc \in {"SNAPSHOT", "CREATE", "DELETE", "MOVE", "SHOW", "HIDE"}
  BY <1>1, MessageKinds
<1> QED BY <1>2, <1>3, <1>4, <1>5, <1>6

LEMMA DeliverTyped ==
  ASSUME TypeOK, NEW c \in Client, Deliver(c)
  PROVE  TypeOK'
<1>1. chan' \in [Client -> Seq(Message)]
  BY TailAt DEF Deliver, TypeOK
<1> QED BY <1>1, DeliverApplies DEF Deliver, Leaves, TypeOK, serverVars

LEMMA TypeStep == TypeOK /\ [Next]_vars => TypeOK'
<1> SUFFICES ASSUME TypeOK, [Next]_vars PROVE TypeOK'
  OBVIOUS
<1>1. CASE Script
  BY <1>1, CreateTyped, DeleteTyped, MoveTyped, ShowForAllTyped,
     ShowForPlayerTyped DEF Script
<1>2. CASE HandleReport
  BY <1>2, ReportTyped
<1>3. CASE \E c \in Client : ClientStep(c)
  BY <1>3, LinkTyped, JoinTyped, DisconnectTyped, LoseTyped, RestartTyped,
     DeliverTyped, WalkTyped, PulseTyped DEF ClientStep
<1>4. CASE UNCHANGED vars
  BY <1>4 DEF vars, serverVars, clientVars, TypeOK
<1> QED BY <1>1, <1>2, <1>3, <1>4 DEF Next

LEMMA TypeInit == Init => TypeOK
<1>1. /\ Table!EmptyTable \in [Slot -> Entity \cup {None}]
      /\ Table!EmptyTable \in [Slot -> Copy \cup {None}]
      /\ Untold \in [Slot -> {"nothing", "shown", "hidden"}]
      /\ <<>> \in Seq(Message) /\ <<>> \in Seq(Report)
  BY EmptyHolds DEF Untold
<1>2. 0 \in 0 .. MaxCreates /\ 0 \in 0 .. MaxActs
  BY Bounds
<1> SUFFICES ASSUME Init PROVE TypeOK
  OBVIOUS
<1>3. /\ checkpoints \in [Slot -> Entity \cup {None}]
      /\ copies \in [Client -> [Slot -> Copy \cup {None}]]
      /\ told \in [Client -> [Slot -> {"nothing", "shown", "hidden"}]]
      /\ chan \in [Client -> Seq(Message)]
  BY <1>1 DEF Init
<1>4. /\ phase \in [Client -> {"out", "linked", "joined"}]
      /\ leaked \in [Client -> SUBSET Serial]
      /\ leftover \in [Client -> SUBSET Slot]
      /\ at \in [Client -> Spot \cup {Away}]
  BY DEF Init
<1> QED BY <1>1, <1>2, <1>3, <1>4 DEF Init, TypeOK

(* The variables of the checkpoints keep to their types (CCheckpointEntity *)
(* on both sides, and the RPCs between them).                              *)
THEOREM TypeCorrect == Spec => []TypeOK
<1> QED BY TypeInit, TypeStep, PTL DEF Spec
-----------------------------------------------------------------------------
(* The last word: of the messages 1 .. n under way, the last one that is   *)
(* stale for some fact is good for it; with none that is stale, the fact   *)
(* is true already.                                                        *)

Last(fact, good, stale, n) ==
  \E j \in 0 .. n :
    /\ j = 0 => fact
    /\ j > 0 => j \in good
    /\ \A i \in 1 .. n : i > j => i \notin stale

LEMMA LastGrows ==
  ASSUME NEW n \in Nat, NEW fact, NEW G, NEW W, NEW G1, NEW W1,
         Last(fact, G, W, n),
         \A i \in 1 .. n : (i \in G => i \in G1) /\ (i \in W1 => i \in W)
  PROVE  /\ Last(fact, G1, W1, n)
         /\ n + 1 \notin W1 => Last(fact, G1, W1, n + 1)
<1>1. PICK j \in 0 .. n : /\ j = 0 => fact
                          /\ j > 0 => j \in G
                          /\ \A i \in 1 .. n : i > j => i \notin W
  BY DEF Last
<1>2. j > 0 => j \in G1
  BY <1>1
<1>3. \A i \in 1 .. n : i > j => i \notin W1
  BY <1>1
<1>4. j \in 0 .. n + 1
  OBVIOUS
<1>5. ASSUME n + 1 \notin W1
      PROVE  \A i \in 1 .. n + 1 : i > j => i \notin W1
  <2>1. \A i \in 1 .. n + 1 : i \in 1 .. n \/ i = n + 1
    OBVIOUS
  <2> QED BY <1>3, <1>5, <2>1
<1> QED BY <1>1, <1>2, <1>3, <1>4, <1>5 DEF Last

LEMMA LastWritten ==
  ASSUME NEW n \in Nat, NEW fact, NEW G, NEW W, n + 1 \in G
  PROVE  Last(fact, G, W, n + 1)
<1>1. n + 1 \in 0 .. n + 1 /\ n + 1 # 0
  OBVIOUS
<1>2. \A i \in 1 .. n + 1 : ~ (i > n + 1)
  OBVIOUS
<1> QED BY <1>1, <1>2 DEF Last

LEMMA LastShifts ==
  ASSUME NEW n \in Nat, n > 0, NEW fact, NEW G, NEW W,
         NEW fact1, NEW G1, NEW W1,
         Last(fact, G, W, n),
         \A i \in 1 .. n - 1 : /\ i + 1 \in G => i \in G1
                               /\ i \in W1 => i + 1 \in W,
         fact /\ 1 \notin W => fact1,
         1 \in G /\ (\A i \in 2 .. n : i \notin W) => fact1
  PROVE  Last(fact1, G1, W1, n - 1)
<1>1. PICK j \in 0 .. n : /\ j = 0 => fact
                          /\ j > 0 => j \in G
                          /\ \A i \in 1 .. n : i > j => i \notin W
  BY DEF Last
<1>2. CASE j \in {0, 1}
  <2>1. fact1
    <3>1. CASE j = 0
      <4>1. 1 \in 1 .. n /\ 1 > j
        BY <3>1
      <4> QED BY <1>1, <3>1, <4>1
    <3>2. CASE j = 1
      <4>1. \A i \in 2 .. n : i \in 1 .. n /\ i > j
        BY <3>2
      <4> QED BY <1>1, <3>2, <4>1
    <3> QED BY <1>2, <3>1, <3>2
  <2>2. ASSUME NEW i \in 1 .. n - 1
        PROVE  i \notin W1
    <3>1. i + 1 \in 1 .. n /\ i + 1 > j
      BY <1>2
    <3> QED BY <1>1, <3>1
  <2>3. 0 \in 0 .. n - 1 /\ ~ (0 > 0)
    OBVIOUS
  <2> QED BY <2>1, <2>2, <2>3 DEF Last
<1>3. CASE j \notin {0, 1}
  <2> DEFINE k == j - 1
  <2>1. k \in 1 .. n - 1 /\ k + 1 = j /\ k \in 0 .. n - 1 /\ k # 0
    BY <1>3
  <2>2. k \in G1
    BY <1>1, <2>1
  <2>3. ASSUME NEW i \in 1 .. n - 1, i > k
        PROVE  i \notin W1
    <3>1. i + 1 \in 1 .. n /\ i + 1 > j
      BY <2>1, <2>3
    <3> QED BY <1>1, <3>1
  <2> HIDE DEF k
  <2> QED BY <2>1, <2>2, <2>3 DEF Last
<1> QED BY <1>2, <1>3
-----------------------------------------------------------------------------
(* Once the messages 1 .. n of q are delivered, the slot of a client that  *)
(* holds copy now will hold none; or, with all of them delivered, a copy   *)
(* of the checkpoint, at its spot, and visible or not.                     *)

Removers(q, id) == {i \in 1 .. Len(q) : Deletes(q[i], id)}
Makers(q, id) == {i \in 1 .. Len(q) : Creates(q[i], id)}
Movers(q, id) == {i \in 1 .. Len(q) : Moves(q[i], id)}
Showers(q, id) == {i \in 1 .. Len(q) : Shows(q[i], id)}

Gone(copy, q, id, n) == Last(copy = None, Removers(q, id), Makers(q, id), n)

MakersOf(q, id, serial) ==
  {i \in Makers(q, id) : Made(q[i], id).serial = serial}
PlacersAt(q, id, spot) ==
  {i \in Makers(q, id) : Made(q[i], id).spot = spot}
  \cup {i \in Movers(q, id) : q[i].spot = spot}
ShowersAs(q, id, visible) ==
  {i \in Makers(q, id) : visible}
  \cup {i \in Showers(q, id) : (q[i].rpc = "SHOW") = visible}

Held(copy, q, id, serial) ==
  Last(copy # None /\ copy.serial = serial, MakersOf(q, id, serial),
       Makers(q, id) \cup Removers(q, id), Len(q))
Placed(copy, q, id, spot) ==
  Last(copy # None /\ copy.spot = spot, PlacersAt(q, id, spot),
       Makers(q, id) \cup Removers(q, id) \cup Movers(q, id), Len(q))
Shown(copy, q, id, visible) ==
  Last(copy # None /\ copy.visible = visible, ShowersAs(q, id, visible),
       Makers(q, id) \cup Removers(q, id) \cup Showers(q, id), Len(q))

(* What a message behind q adds.                                           *)
LEMMA PositionsGrow ==
  ASSUME NEW q \in Seq(Message), NEW m \in Message, NEW id \in Slot,
         NEW serial, NEW spot, NEW visible \in BOOLEAN
  PROVE  LET n == Len(q) + 1
             r == Append(q, m)
         IN
         /\ Len(q) \in Nat /\ Len(r) = n
         /\ \A i \in 1 .. Len(q) :
              /\ i \in Removers(r, id) <=> i \in Removers(q, id)
              /\ i \in Makers(r, id) <=> i \in Makers(q, id)
              /\ i \in Movers(r, id) <=> i \in Movers(q, id)
              /\ i \in Showers(r, id) <=> i \in Showers(q, id)
              /\ i \in MakersOf(r, id, serial) <=> i \in MakersOf(q, id, serial)
              /\ i \in PlacersAt(r, id, spot) <=> i \in PlacersAt(q, id, spot)
              /\ i \in ShowersAs(r, id, visible) <=>
                   i \in ShowersAs(q, id, visible)
         /\ n \in Removers(r, id) <=> Deletes(m, id)
         /\ n \in Makers(r, id) <=> Creates(m, id)
         /\ n \in Movers(r, id) <=> Moves(m, id)
         /\ n \in Showers(r, id) <=> Shows(m, id)
<1> DEFINE r == Append(q, m)
           n == Len(q) + 1
<1>1. /\ Len(q) \in Nat /\ Len(r) = n /\ r[n] = m
      /\ \A i \in 1 .. Len(q) : r[i] = q[i]
  BY AppendAt
<1>2. n \in 1 .. Len(r) /\ \A i \in 1 .. Len(q) : i \in 1 .. Len(r)
  BY <1>1
<1> HIDE DEF r, n
<1>3. /\ n \in Removers(r, id) <=> Deletes(m, id)
      /\ n \in Makers(r, id) <=> Creates(m, id)
      /\ n \in Movers(r, id) <=> Moves(m, id)
      /\ n \in Showers(r, id) <=> Shows(m, id)
  BY <1>1, <1>2 DEF Removers, Makers, Movers, Showers
<1>4. \A i \in 1 .. Len(q) :
        /\ i \in Removers(r, id) <=> i \in Removers(q, id)
        /\ i \in Makers(r, id) <=> i \in Makers(q, id)
        /\ i \in Movers(r, id) <=> i \in Movers(q, id)
        /\ i \in Showers(r, id) <=> i \in Showers(q, id)
  BY <1>1, <1>2 DEF Removers, Makers, Movers, Showers
<1>5. \A i \in 1 .. Len(q) :
        /\ i \in MakersOf(r, id, serial) <=> i \in MakersOf(q, id, serial)
        /\ i \in PlacersAt(r, id, spot) <=> i \in PlacersAt(q, id, spot)
        /\ i \in ShowersAs(r, id, visible) <=> i \in ShowersAs(q, id, visible)
  BY <1>1, <1>4 DEF MakersOf, PlacersAt, ShowersAs
<1> QED BY <1>1, <1>3, <1>4, <1>5 DEF r, n

LEMMA GoneGrows ==
  ASSUME NEW copy, NEW q \in Seq(Message), NEW m \in Message, NEW id \in Slot
  PROVE  /\ \A n \in 0 .. Len(q) :
              Gone(copy, q, id, n) => Gone(copy, Append(q, m), id, n)
         /\ ~ Creates(m, id) /\ Gone(copy, q, id, Len(q)) =>
              Gone(copy, Append(q, m), id, Len(Append(q, m)))
         /\ Deletes(m, id) =>
              Gone(copy, Append(q, m), id, Len(Append(q, m)))
<1> DEFINE r == Append(q, m)
<1>1. /\ Len(q) \in Nat /\ Len(r) = Len(q) + 1
      /\ \A i \in 1 .. Len(q) :
           /\ i \in Removers(r, id) <=> i \in Removers(q, id)
           /\ i \in Makers(r, id) <=> i \in Makers(q, id)
      /\ Len(q) + 1 \in Removers(r, id) <=> Deletes(m, id)
      /\ Len(q) + 1 \in Makers(r, id) <=> Creates(m, id)
  BY PositionsGrow
<1> HIDE DEF r
<1>2. ASSUME NEW n \in 0 .. Len(q), Gone(copy, q, id, n)
      PROVE  /\ Gone(copy, r, id, n)
             /\ n + 1 \notin Makers(r, id) => Gone(copy, r, id, n + 1)
  <2>1. n \in Nat /\ \A i \in 1 .. n : i \in 1 .. Len(q)
    BY <1>1
  <2>2. \A i \in 1 .. n : /\ i \in Removers(q, id) => i \in Removers(r, id)
                          /\ i \in Makers(r, id) => i \in Makers(q, id)
    BY <1>1, <2>1
  <2> QED BY <1>2, <2>1, <2>2, LastGrows DEF Gone
<1>3. Deletes(m, id) => Gone(copy, r, id, Len(r))
  BY <1>1, LastWritten DEF Gone
<1>4. Len(q) \in 0 .. Len(q)
  BY <1>1
<1> QED BY <1>1, <1>2, <1>3, <1>4 DEF r

LEMMA HeldGrows ==
  ASSUME NEW copy, NEW q \in Seq(Message), NEW m \in Message, NEW id \in Slot,
         NEW serial, NEW spot, NEW visible \in BOOLEAN
  PROVE  LET r == Append(q, m) IN
         /\ Creates(m, id) /\ Made(m, id).serial = serial =>
              Held(copy, r, id, serial)
         /\ ~ Creates(m, id) /\ ~ Deletes(m, id) /\ Held(copy, q, id, serial) =>
              Held(copy, r, id, serial)
         /\ Creates(m, id) /\ Made(m, id).spot = spot =>
              Placed(copy, r, id, spot)
         /\ Moves(m, id) /\ m.spot = spot => Placed(copy, r, id, spot)
         /\ /\ ~ Creates(m, id) /\ ~ Deletes(m, id) /\ ~ Moves(m, id)
            /\ Placed(copy, q, id, spot)
            => Placed(copy, r, id, spot)
         /\ Creates(m, id) /\ visible => Shown(copy, r, id, visible)
         /\ Shows(m, id) /\ (m.rpc = "SHOW") = visible =>
              Shown(copy, r, id, visible)
         /\ /\ ~ Creates(m, id) /\ ~ Deletes(m, id) /\ ~ Shows(m, id)
            /\ Shown(copy, q, id, visible)
            => Shown(copy, r, id, visible)
<1> DEFINE r == Append(q, m)
           n == Len(q) + 1
<1>1. /\ Len(q) \in Nat /\ Len(r) = n
      /\ \A i \in 1 .. Len(q) :
           /\ i \in Removers(r, id) <=> i \in Removers(q, id)
           /\ i \in Makers(r, id) <=> i \in Makers(q, id)
           /\ i \in Movers(r, id) <=> i \in Movers(q, id)
           /\ i \in Showers(r, id) <=> i \in Showers(q, id)
           /\ i \in MakersOf(r, id, serial) <=> i \in MakersOf(q, id, serial)
           /\ i \in PlacersAt(r, id, spot) <=> i \in PlacersAt(q, id, spot)
           /\ i \in ShowersAs(r, id, visible) <=> i \in ShowersAs(q, id, visible)
  BY PositionsGrow
<1>2. /\ n \in Removers(r, id) <=> Deletes(m, id)
      /\ n \in Makers(r, id) <=> Creates(m, id)
      /\ n \in Movers(r, id) <=> Moves(m, id)
      /\ n \in Showers(r, id) <=> Shows(m, id)
      /\ n \in MakersOf(r, id, serial) <=>
           Creates(m, id) /\ Made(m, id).serial = serial
      /\ n \in PlacersAt(r, id, spot) <=>
           \/ Creates(m, id) /\ Made(m, id).spot = spot
           \/ Moves(m, id) /\ m.spot = spot
      /\ n \in ShowersAs(r, id, visible) <=>
           \/ Creates(m, id) /\ visible
           \/ Shows(m, id) /\ (m.rpc = "SHOW") = visible
  <2>1. n \in 1 .. Len(r) /\ r[n] = m
    BY <1>1, AppendAt
  <2> HIDE DEF r, n
  <2>2. /\ n \in Removers(r, id) <=> Deletes(m, id)
        /\ n \in Makers(r, id) <=> Creates(m, id)
        /\ n \in Movers(r, id) <=> Moves(m, id)
        /\ n \in Showers(r, id) <=> Shows(m, id)
    BY <2>1 DEF Removers, Makers, Movers, Showers
  <2> QED BY <2>1, <2>2 DEF MakersOf, PlacersAt, ShowersAs
<1> HIDE DEF r, n
<1>3. /\ Creates(m, id) /\ Made(m, id).serial = serial =>
           Held(copy, r, id, serial)
      /\ Creates(m, id) /\ Made(m, id).spot = spot => Placed(copy, r, id, spot)
      /\ Moves(m, id) /\ m.spot = spot => Placed(copy, r, id, spot)
      /\ Creates(m, id) /\ visible => Shown(copy, r, id, visible)
      /\ Shows(m, id) /\ (m.rpc = "SHOW") = visible =>
           Shown(copy, r, id, visible)
  BY <1>1, <1>2, LastWritten DEF Held, Placed, Shown, n
<1>4. ASSUME ~ Creates(m, id), ~ Deletes(m, id), Held(copy, q, id, serial)
      PROVE  Held(copy, r, id, serial)
  <2> DEFINE fact == copy # None /\ copy.serial = serial
             G == MakersOf(q, id, serial)
             G1 == MakersOf(r, id, serial)
             W == Makers(q, id) \cup Removers(q, id)
             W1 == Makers(r, id) \cup Removers(r, id)
  <2>1. /\ \A i \in 1 .. Len(q) : (i \in G => i \in G1) /\ (i \in W1 => i \in W)
        /\ n \notin W1
    BY <1>1, <1>2, <1>4
  <2>2. Last(fact, G, W, Len(q))
    BY <1>4 DEF Held
  <2> HIDE DEF fact, G, G1, W, W1
  <2>3. Last(fact, G1, W1, Len(q) + 1)
    BY <1>1, <2>1, <2>2, LastGrows DEF n
  <2> QED BY <1>1, <2>3 DEF Held, fact, G1, W1, n
<1>5. ASSUME ~ Creates(m, id), ~ Deletes(m, id), ~ Moves(m, id),
             Placed(copy, q, id, spot)
      PROVE  Placed(copy, r, id, spot)
  <2> DEFINE fact == copy # None /\ copy.spot = spot
             G == PlacersAt(q, id, spot)
             G1 == PlacersAt(r, id, spot)
             W == Makers(q, id) \cup Removers(q, id) \cup Movers(q, id)
             W1 == Makers(r, id) \cup Removers(r, id) \cup Movers(r, id)
  <2>1. /\ \A i \in 1 .. Len(q) : (i \in G => i \in G1) /\ (i \in W1 => i \in W)
        /\ n \notin W1
    BY <1>1, <1>2, <1>5
  <2>2. Last(fact, G, W, Len(q))
    BY <1>5 DEF Placed
  <2> HIDE DEF fact, G, G1, W, W1
  <2>3. Last(fact, G1, W1, Len(q) + 1)
    BY <1>1, <2>1, <2>2, LastGrows DEF n
  <2> QED BY <1>1, <2>3 DEF Placed, fact, G1, W1, n
<1>6. ASSUME ~ Creates(m, id), ~ Deletes(m, id), ~ Shows(m, id),
             Shown(copy, q, id, visible)
      PROVE  Shown(copy, r, id, visible)
  <2> DEFINE fact == copy # None /\ copy.visible = visible
             G == ShowersAs(q, id, visible)
             G1 == ShowersAs(r, id, visible)
             W == Makers(q, id) \cup Removers(q, id) \cup Showers(q, id)
             W1 == Makers(r, id) \cup Removers(r, id) \cup Showers(r, id)
  <2>1. /\ \A i \in 1 .. Len(q) : (i \in G => i \in G1) /\ (i \in W1 => i \in W)
        /\ n \notin W1
    BY <1>1, <1>2, <1>6
  <2>2. Last(fact, G, W, Len(q))
    BY <1>6 DEF Shown
  <2> HIDE DEF fact, G, G1, W, W1
  <2>3. Last(fact, G1, W1, Len(q) + 1)
    BY <1>1, <2>1, <2>2, LastGrows DEF n
  <2> QED BY <1>1, <2>3 DEF Shown, fact, G1, W1, n
<1> QED BY <1>3, <1>4, <1>5, <1>6 DEF r

(* What delivering the first message leaves.                               *)
LEMMA WordShifts ==
  ASSUME NEW copy, NEW after, NEW q \in Seq(Message), q # <<>>,
         NEW id \in Slot, Applies(Head(q), id, copy, after),
         NEW serial, NEW spot, NEW visible \in BOOLEAN
  PROVE  LET r == Tail(q) IN
         /\ \A n \in 1 .. Len(q) :
              Gone(copy, q, id, n) => Gone(after, r, id, n - 1)
         /\ Held(copy, q, id, serial) => Held(after, r, id, serial)
         /\ Held(copy, q, id, serial) /\ Placed(copy, q, id, spot) =>
              Placed(after, r, id, spot)
         /\ Held(copy, q, id, serial) /\ Shown(copy, q, id, visible) =>
              Shown(after, r, id, visible)
<1> DEFINE r == Tail(q)
           m == Head(q)
<1>0. /\ m \in Message /\ m = q[1] /\ Len(q) \in Nat /\ Len(q) > 0
      /\ Len(r) = Len(q) - 1
      /\ \A i \in 1 .. Len(q) - 1 : r[i] = q[i + 1]
  BY TailAt
<1> HIDE DEF r, m
<1>1. \A i \in 1 .. Len(q) - 1 :
        /\ i \in Removers(r, id) <=> i + 1 \in Removers(q, id)
        /\ i \in Makers(r, id) <=> i + 1 \in Makers(q, id)
        /\ i \in Movers(r, id) <=> i + 1 \in Movers(q, id)
        /\ i \in Showers(r, id) <=> i + 1 \in Showers(q, id)
        /\ i \in MakersOf(r, id, serial) <=> i + 1 \in MakersOf(q, id, serial)
        /\ i \in PlacersAt(r, id, spot) <=> i + 1 \in PlacersAt(q, id, spot)
        /\ i \in ShowersAs(r, id, visible) <=>
             i + 1 \in ShowersAs(q, id, visible)
  <2> SUFFICES ASSUME NEW i \in 1 .. Len(q) - 1
               PROVE  /\ i \in Removers(r, id) <=> i + 1 \in Removers(q, id)
                      /\ i \in Makers(r, id) <=> i + 1 \in Makers(q, id)
                      /\ i \in Movers(r, id) <=> i + 1 \in Movers(q, id)
                      /\ i \in Showers(r, id) <=> i + 1 \in Showers(q, id)
                      /\ i \in MakersOf(r, id, serial) <=>
                           i + 1 \in MakersOf(q, id, serial)
                      /\ i \in PlacersAt(r, id, spot) <=>
                           i + 1 \in PlacersAt(q, id, spot)
                      /\ i \in ShowersAs(r, id, visible) <=>
                           i + 1 \in ShowersAs(q, id, visible)
    OBVIOUS
  <2> DEFINE k == i + 1
  <2>1. i \in 1 .. Len(r) /\ k \in 1 .. Len(q) /\ r[i] = q[k]
    BY <1>0
  <2> HIDE DEF k
  <2>2. /\ i \in Removers(r, id) <=> k \in Removers(q, id)
        /\ i \in Makers(r, id) <=> k \in Makers(q, id)
        /\ i \in Movers(r, id) <=> k \in Movers(q, id)
        /\ i \in Showers(r, id) <=> k \in Showers(q, id)
    BY <2>1 DEF Removers, Makers, Movers, Showers
  <2> QED BY <2>1, <2>2 DEF MakersOf, PlacersAt, ShowersAs, k
<1>2. /\ 1 \in Removers(q, id) <=> Deletes(m, id)
      /\ 1 \in Makers(q, id) <=> Creates(m, id)
      /\ 1 \in Movers(q, id) <=> Moves(m, id)
      /\ 1 \in Showers(q, id) <=> Shows(m, id)
      /\ 1 \in MakersOf(q, id, serial) <=>
           Creates(m, id) /\ Made(m, id).serial = serial
      /\ 1 \in PlacersAt(q, id, spot) <=>
           \/ Creates(m, id) /\ Made(m, id).spot = spot
           \/ Moves(m, id) /\ m.spot = spot
      /\ 1 \in ShowersAs(q, id, visible) <=>
           \/ Creates(m, id) /\ visible
           \/ Shows(m, id) /\ (m.rpc = "SHOW") = visible
  <2>1. 1 \in 1 .. Len(q)
    BY <1>0
  <2>2. /\ 1 \in Removers(q, id) <=> Deletes(m, id)
        /\ 1 \in Makers(q, id) <=> Creates(m, id)
        /\ 1 \in Movers(q, id) <=> Moves(m, id)
        /\ 1 \in Showers(q, id) <=> Shows(m, id)
    BY <1>0, <2>1 DEF Removers, Makers, Movers, Showers
  <2> QED BY <1>0, <2>2 DEF MakersOf, PlacersAt, ShowersAs
<1>3. Applies(m, id, copy, after)
      /\ (Creates(m, id) => after = Made(m, id) /\ after # None
                            /\ after.visible = TRUE)
  BY <1>0, MadeTyped DEF m, Applies
<1>4. ASSUME NEW n \in 1 .. Len(q), Gone(copy, q, id, n)
      PROVE  Gone(after, r, id, n - 1)
  <2> DEFINE fact == copy = None
             fact1 == after = None
             G == Removers(q, id)
             G1 == Removers(r, id)
             W == Makers(q, id)
             W1 == Makers(r, id)
  <2>1. \A i \in 1 .. n - 1 : i \in 1 .. Len(q) - 1
    BY <1>0
  <2>2. \A i \in 1 .. n - 1 : /\ i + 1 \in G => i \in G1
                              /\ i \in W1 => i + 1 \in W
    BY <1>1, <2>1
  <2>3. fact /\ 1 \notin W => fact1
    BY <1>2, <1>3 DEF Applies
  <2>4. 1 \in G => fact1
    BY <1>2, <1>3 DEF Applies
  <2>5. Last(fact, G, W, n) /\ n \in Nat /\ n > 0
    BY <1>0, <1>4 DEF Gone
  <2> HIDE DEF fact, fact1, G, G1, W, W1
  <2>6. Last(fact1, G1, W1, n - 1)
    BY <2>2, <2>3, <2>4, <2>5, LastShifts
  <2> QED BY <2>6 DEF Gone, fact1, G1, W1
<1>5. ASSUME Held(copy, q, id, serial) PROVE Held(after, r, id, serial)
  <2> DEFINE fact == copy # None /\ copy.serial = serial
             fact1 == after # None /\ after.serial = serial
             G == MakersOf(q, id, serial)
             G1 == MakersOf(r, id, serial)
             W == Makers(q, id) \cup Removers(q, id)
             W1 == Makers(r, id) \cup Removers(r, id)
  <2>1. \A i \in 1 .. Len(q) - 1 : /\ i + 1 \in G => i \in G1
                                   /\ i \in W1 => i + 1 \in W
    BY <1>1
  <2>2. fact /\ 1 \notin W => fact1
    BY <1>2, <1>3 DEF Applies
  <2>3. 1 \in G /\ (\A i \in 2 .. Len(q) : i \notin W) => fact1
    BY <1>2, <1>3
  <2>4. Last(fact, G, W, Len(q))
    BY <1>5 DEF Held
  <2> HIDE DEF fact, fact1, G, G1, W, W1
  <2>5. Last(fact1, G1, W1, Len(q) - 1)
    BY <1>0, <2>1, <2>2, <2>3, <2>4, LastShifts
  <2> QED BY <1>0, <2>5 DEF Held, fact1, G1, W1
<1>6. ASSUME Held(copy, q, id, serial), Placed(copy, q, id, spot)
      PROVE  Placed(after, r, id, spot)
  <2> DEFINE fact == copy # None /\ copy.spot = spot
             fact1 == after # None /\ after.spot = spot
             G == PlacersAt(q, id, spot)
             G1 == PlacersAt(r, id, spot)
             W == Makers(q, id) \cup Removers(q, id) \cup Movers(q, id)
             W1 == Makers(r, id) \cup Removers(r, id) \cup Movers(r, id)
  <2>1. \A i \in 1 .. Len(q) - 1 : /\ i + 1 \in G => i \in G1
                                   /\ i \in W1 => i + 1 \in W
    BY <1>1
  <2>2. fact /\ 1 \notin W => fact1
    BY <1>2, <1>3 DEF Applies
  <2>3. 1 \in G /\ (\A i \in 2 .. Len(q) : i \notin W) => fact1
    <3> SUFFICES ASSUME 1 \in G, \A i \in 2 .. Len(q) : i \notin W
                 PROVE  fact1
      OBVIOUS
    <3>1. CASE Creates(m, id)
      <4>1. ~ Moves(m, id)
        BY <3>1 DEF Creates, Moves
      <4> QED BY <1>2, <1>3, <3>1, <4>1
    <3>2. CASE ~ Creates(m, id)
      <4>1. Moves(m, id) /\ ~ Deletes(m, id) /\ m.spot = spot
        BY <1>2, <3>2 DEF Moves, Deletes
      <4>2. copy # None
        <5>1. PICK j \in 0 .. Len(q) :
                /\ j = 0 => copy # None
                /\ j > 0 => j \in MakersOf(q, id, serial)
          BY <1>6 DEF Held, Last
        <5>2. \A i \in 2 .. Len(q) : i \notin MakersOf(q, id, serial)
          BY DEF MakersOf
        <5>3. 1 \notin MakersOf(q, id, serial)
          BY <1>2, <3>2
        <5>4. j = 0 \/ j = 1 \/ j \in 2 .. Len(q)
          BY <1>0
        <5>5. j = 0
          BY <1>0, <5>1, <5>2, <5>3, <5>4
        <5> QED BY <5>1, <5>5
      <4> QED BY <1>3, <3>2, <4>1, <4>2 DEF Applies
    <3> QED BY <3>1, <3>2
  <2>4. Last(fact, G, W, Len(q))
    BY <1>6 DEF Placed
  <2> HIDE DEF fact, fact1, G, G1, W, W1
  <2>5. Last(fact1, G1, W1, Len(q) - 1)
    BY <1>0, <2>1, <2>2, <2>3, <2>4, LastShifts
  <2> QED BY <1>0, <2>5 DEF Placed, fact1, G1, W1
<1>7. ASSUME Held(copy, q, id, serial), Shown(copy, q, id, visible)
      PROVE  Shown(after, r, id, visible)
  <2> DEFINE fact == copy # None /\ copy.visible = visible
             fact1 == after # None /\ after.visible = visible
             G == ShowersAs(q, id, visible)
             G1 == ShowersAs(r, id, visible)
             W == Makers(q, id) \cup Removers(q, id) \cup Showers(q, id)
             W1 == Makers(r, id) \cup Removers(r, id) \cup Showers(r, id)
  <2>1. \A i \in 1 .. Len(q) - 1 : /\ i + 1 \in G => i \in G1
                                   /\ i \in W1 => i + 1 \in W
    BY <1>1
  <2>2. fact /\ 1 \notin W => fact1
    BY <1>2, <1>3 DEF Applies
  <2>3. 1 \in G /\ (\A i \in 2 .. Len(q) : i \notin W) => fact1
    <3> SUFFICES ASSUME 1 \in G, \A i \in 2 .. Len(q) : i \notin W
                 PROVE  fact1
      OBVIOUS
    <3>1. CASE Creates(m, id)
      <4>1. ~ Shows(m, id)
        BY <3>1 DEF Creates, Shows
      <4> QED BY <1>2, <1>3, <3>1, <4>1
    <3>2. CASE ~ Creates(m, id)
      <4>1. Shows(m, id) /\ ~ Deletes(m, id) /\ (m.rpc = "SHOW") = visible
        BY <1>2, <3>2 DEF Shows, Deletes
      <4>2. copy # None
        <5>1. PICK j \in 0 .. Len(q) :
                /\ j = 0 => copy # None
                /\ j > 0 => j \in MakersOf(q, id, serial)
          BY <1>7 DEF Held, Last
        <5>2. \A i \in 2 .. Len(q) : i \notin MakersOf(q, id, serial)
          BY DEF MakersOf
        <5>3. 1 \notin MakersOf(q, id, serial)
          BY <1>2, <3>2
        <5>4. j = 0 \/ j = 1 \/ j \in 2 .. Len(q)
          BY <1>0
        <5>5. j = 0
          BY <1>0, <5>1, <5>2, <5>3, <5>4
        <5> QED BY <5>1, <5>5
      <4> QED BY <1>3, <3>2, <4>1, <4>2 DEF Applies
    <3> QED BY <3>1, <3>2
  <2>4. Last(fact, G, W, Len(q))
    BY <1>7 DEF Shown
  <2> HIDE DEF fact, fact1, G, G1, W, W1
  <2>5. Last(fact1, G1, W1, Len(q) - 1)
    BY <1>0, <2>1, <2>2, <2>3, <2>4, LastShifts
  <2> QED BY <1>0, <2>5 DEF Shown, fact1, G1, W1
<1> QED BY <1>4, <1>5, <1>6, <1>7 DEF r
-----------------------------------------------------------------------------
(* A client that holds copy, with q under way to it, was told what of the  *)
(* slot id, which is entity on the server.                                 *)

Says(copy, q, id, what, entity) ==
  IF what = "nothing" THEN Gone(copy, q, id, Len(q))
  ELSE /\ entity # None
       /\ Held(copy, q, id, entity.serial)
       /\ Placed(copy, q, id, entity.spot)
       /\ Shown(copy, q, id, what = "shown")

(* No message of q creates a copy where there is one by then.              *)
Clean(copy, q, id) == \A k \in Makers(q, id) : Gone(copy, q, id, k - 1)

LEMMA SaysKept ==
  ASSUME NEW copy, NEW q \in Seq(Message), NEW id \in Slot, NEW what,
         NEW entity, Says(copy, q, id, what, entity), NEW m \in Message,
         ~ Creates(m, id), ~ Deletes(m, id), ~ Moves(m, id), ~ Shows(m, id)
  PROVE  Says(copy, Append(q, m), id, what, entity)
<1>1. CASE what = "nothing"
  BY <1>1, GoneGrows DEF Says
<1>2. CASE what # "nothing"
  <2> DEFINE visible == what = "shown"
  <2>1. visible \in BOOLEAN
    OBVIOUS
  <2>2. /\ Held(copy, q, id, entity.serial) /\ Placed(copy, q, id, entity.spot)
        /\ Shown(copy, q, id, visible)
    BY <1>2 DEF Says
  <2> HIDE DEF visible
  <2>3. /\ Held(copy, Append(q, m), id, entity.serial)
        /\ Placed(copy, Append(q, m), id, entity.spot)
        /\ Shown(copy, Append(q, m), id, visible)
    BY <2>1, <2>2, HeldGrows
  <2> QED BY <1>2, <2>3 DEF Says, visible
<1> QED BY <1>1, <1>2

LEMMA SaysCreated ==
  ASSUME NEW copy, NEW q \in Seq(Message), NEW id \in Slot, NEW entity,
         entity # None, NEW m \in Message, Creates(m, id),
         Made(m, id).serial = entity.serial, Made(m, id).spot = entity.spot
  PROVE  Says(copy, Append(q, m), id, "shown", entity)
<1>1. /\ Held(copy, Append(q, m), id, entity.serial)
      /\ Placed(copy, Append(q, m), id, entity.spot)
      /\ Shown(copy, Append(q, m), id, TRUE)
  BY HeldGrows
<1> QED BY <1>1 DEF Says

LEMMA SaysDeleted ==
  ASSUME NEW copy, NEW q \in Seq(Message), NEW id \in Slot, NEW entity,
         NEW m \in Message, Deletes(m, id)
  PROVE  Says(copy, Append(q, m), id, "nothing", entity)
BY GoneGrows DEF Says

LEMMA SaysMoved ==
  ASSUME NEW copy, NEW q \in Seq(Message), NEW id \in Slot, NEW what,
         NEW before, Says(copy, q, id, what, before),
         NEW m \in Message, Moves(m, id),
         NEW entity, entity # None, entity.serial = before.serial,
         entity.spot = m.spot
  PROVE  Says(copy, Append(q, m), id, what, entity)
<1>1. ~ Creates(m, id) /\ ~ Deletes(m, id) /\ ~ Shows(m, id)
  BY DEF Moves, Creates, Deletes, Shows
<1>2. CASE what = "nothing"
  BY <1>1, <1>2, GoneGrows DEF Says
<1>3. CASE what # "nothing"
  <2> DEFINE visible == what = "shown"
  <2>1. visible \in BOOLEAN
    OBVIOUS
  <2>2. Held(copy, q, id, entity.serial) /\ Shown(copy, q, id, visible)
    BY <1>3 DEF Says
  <2> HIDE DEF visible
  <2>3. /\ Held(copy, Append(q, m), id, entity.serial)
        /\ Placed(copy, Append(q, m), id, entity.spot)
        /\ Shown(copy, Append(q, m), id, visible)
    BY <1>1, <2>1, <2>2, HeldGrows
  <2> QED BY <1>3, <2>3 DEF Says, visible
<1> QED BY <1>2, <1>3

LEMMA SaysShown ==
  ASSUME NEW copy, NEW q \in Seq(Message), NEW id \in Slot, NEW before,
         NEW m \in Message, Shows(m, id),
         NEW entity, entity # None, entity.serial = before.serial,
         entity.spot = before.spot,
         NEW what, Says(copy, q, id, what, before), NEW after,
         after = IF what = "nothing" THEN "nothing"
                 ELSE IF m.rpc = "SHOW" THEN "shown" ELSE "hidden"
  PROVE  Says(copy, Append(q, m), id, after, entity)
<1>1. ~ Creates(m, id) /\ ~ Deletes(m, id) /\ ~ Moves(m, id)
  BY DEF Moves, Creates, Deletes, Shows
<1>2. CASE what = "nothing"
  BY <1>1, <1>2, GoneGrows DEF Says
<1>3. CASE what # "nothing"
  <2> DEFINE visible == after = "shown"
  <2>1. visible \in BOOLEAN /\ (m.rpc = "SHOW") = visible
    BY <1>3
  <2>2. /\ Held(copy, q, id, entity.serial)
        /\ Placed(copy, q, id, entity.spot)
    BY <1>3 DEF Says
  <2> HIDE DEF visible
  <2>3. /\ Held(copy, Append(q, m), id, entity.serial)
        /\ Placed(copy, Append(q, m), id, entity.spot)
        /\ Shown(copy, Append(q, m), id, visible)
    BY <1>1, <2>1, <2>2, HeldGrows
  <2> QED BY <1>3, <2>3 DEF Says, visible
<1> QED BY <1>2, <1>3

LEMMA SaysShifts ==
  ASSUME NEW copy, NEW after, NEW q \in Seq(Message), q # <<>>,
         NEW id \in Slot, Applies(Head(q), id, copy, after),
         NEW what, NEW entity, Says(copy, q, id, what, entity)
  PROVE  Says(after, Tail(q), id, what, entity)
<1>0. Len(q) \in 1 .. Len(q) /\ Len(Tail(q)) = Len(q) - 1
  BY TailAt
<1>1. CASE what = "nothing"
  <2>1. Gone(copy, q, id, Len(q))
    BY <1>1 DEF Says
  <2>2. Gone(after, Tail(q), id, Len(q) - 1)
    BY <1>0, <2>1, WordShifts
  <2> QED BY <1>0, <1>1, <2>2 DEF Says
<1>2. CASE what # "nothing"
  <2> DEFINE visible == what = "shown"
  <2>1. visible \in BOOLEAN
    OBVIOUS
  <2>2. /\ Held(copy, q, id, entity.serial) /\ Placed(copy, q, id, entity.spot)
        /\ Shown(copy, q, id, visible)
    BY <1>2 DEF Says
  <2> HIDE DEF visible
  <2>3. /\ Held(after, Tail(q), id, entity.serial)
        /\ Placed(after, Tail(q), id, entity.spot)
        /\ Shown(after, Tail(q), id, visible)
    BY <2>1, <2>2, WordShifts
  <2> QED BY <1>2, <2>3 DEF Says, visible
<1> QED BY <1>1, <1>2

LEMMA CleanGrows ==
  ASSUME NEW copy, NEW q \in Seq(Message), NEW id \in Slot, NEW m \in Message,
         Clean(copy, q, id),
         Creates(m, id) => Gone(copy, q, id, Len(q))
  PROVE  Clean(copy, Append(q, m), id)
<1> SUFFICES ASSUME NEW k \in Makers(Append(q, m), id)
             PROVE  Gone(copy, Append(q, m), id, k - 1)
  BY DEF Clean
<1>1. /\ Len(q) \in Nat /\ Len(Append(q, m)) = Len(q) + 1
      /\ Append(q, m)[Len(q) + 1] = m
      /\ \A i \in 1 .. Len(q) : Append(q, m)[i] = q[i]
  BY AppendAt
<1>2. k \in 1 .. Len(q) + 1 /\ Creates(Append(q, m)[k], id)
  BY <1>1 DEF Makers
<1>3. k - 1 \in 0 .. Len(q)
  BY <1>1, <1>2
<1>4. Gone(copy, q, id, k - 1)
  <2>1. CASE k \in 1 .. Len(q)
    <3>1. k \in Makers(q, id)
      BY <1>1, <1>2, <2>1 DEF Makers
    <3> QED BY <3>1 DEF Clean
  <2>2. CASE k = Len(q) + 1
    <3>1. k - 1 = Len(q) /\ Creates(m, id)
      BY <1>1, <1>2, <2>2
    <3> QED BY <3>1
  <2> QED BY <1>1, <1>2, <2>1, <2>2
<1> QED BY <1>3, <1>4, GoneGrows

LEMMA CleanShifts ==
  ASSUME NEW copy, NEW after, NEW q \in Seq(Message), q # <<>>,
         NEW id \in Slot, Applies(Head(q), id, copy, after),
         Clean(copy, q, id)
  PROVE  /\ Clean(after, Tail(q), id)
         /\ Creates(Head(q), id) => copy = None
<1>1. /\ Head(q) = q[1] /\ Len(q) \in Nat /\ Len(q) > 0
      /\ Len(Tail(q)) = Len(q) - 1
      /\ \A i \in 1 .. Len(q) - 1 : Tail(q)[i] = q[i + 1]
  BY TailAt
<1>2. ASSUME NEW k \in Makers(Tail(q), id)
      PROVE  Gone(after, Tail(q), id, k - 1)
  <2> DEFINE l == k + 1
  <2>1. /\ l \in 1 .. Len(q) /\ Tail(q)[k] = q[l] /\ k \in 1 .. Len(q)
        /\ l - 1 = k
    BY <1>1 DEF Makers
  <2>2. Creates(Tail(q)[k], id)
    BY DEF Makers
  <2> HIDE DEF l
  <2>3. l \in Makers(q, id)
    BY <2>1, <2>2 DEF Makers
  <2>4. Gone(copy, q, id, k)
    BY <2>1, <2>3 DEF Clean
  <2> QED BY <2>1, <2>4, WordShifts
<1>3. ASSUME Creates(Head(q), id) PROVE copy = None
  <2>1. 1 \in Makers(q, id) /\ 1 - 1 = 0
    BY <1>1, <1>3 DEF Makers
  <2>2. Gone(copy, q, id, 0)
    BY <2>1 DEF Clean
  <2>3. \A j \in 0 .. 0 : j = 0
    OBVIOUS
  <2> QED BY <2>2, <2>3 DEF Gone, Last
<1> QED BY <1>2, <1>3 DEF Clean
-----------------------------------------------------------------------------
(* The inductive invariant.  What a former connection has left does not    *)
(* count: the facts are about the copies that are not left over.           *)

Own(c, id) == IF id \in leftover[c] THEN None ELSE copies[c][id]

WordInv ==
  \A c \in Client, id \in Slot :
    Says(Own(c, id), chan[c], id, told[c][id], checkpoints[id])

OutInv ==
  \A c \in Client : phase[c] = "out" =>
    /\ chan[c] = <<>>
    /\ \A id \in Slot : told[c][id] = "nothing" /\ Own(c, id) = None

CalmInv ==
  calm => \A c \in Client :
    /\ phase[c] = "linked" =>
         chan[c] = <<>> /\ \A id \in Slot : Own(c, id) = None
    /\ \A id \in Slot : Clean(Own(c, id), chan[c], id)

CopyInv == TypeOK /\ WordInv /\ OutInv /\ CalmInv

LEMMA EmptyChannel ==
  ASSUME NEW copy, NEW id \in Slot
  PROVE  /\ copy = None => Gone(copy, <<>>, id, 0)
         /\ Clean(copy, <<>>, id)
<1>1. <<>> \in Seq(Message) /\ Len(<<>>) = 0
  OBVIOUS
<1>2. Makers(<<>>, id) = {}
  BY <1>1 DEF Makers
<1>3. 0 \in 0 .. 0 /\ ~ (0 > 0) /\ \A i \in 1 .. 0 : FALSE
  OBVIOUS
<1> QED BY <1>1, <1>2, <1>3 DEF Gone, Clean, Last

LEMMA InvInit == Init => CopyInv
<1> SUFFICES ASSUME Init PROVE CopyInv
  OBVIOUS
<1>1. \A c \in Client : chan[c] = <<>> /\ phase[c] = "out"
  BY DEF Init
<1>2. \A c \in Client, id \in Slot :
        told[c][id] = "nothing" /\ Own(c, id) = None
  BY EmptyHolds DEF Init, Untold, Own
<1>3. WordInv
  BY <1>1, <1>2, EmptyChannel DEF WordInv, Says
<1>4. OutInv /\ CalmInv
  BY <1>1, <1>2, EmptyChannel DEF OutInv, CalmInv
<1> QED BY <1>3, <1>4, TypeInit DEF CopyInv

(* A call of a script: one message to some of the clients that are there.  *)
LEMMA ScriptKeeps ==
  ASSUME CopyInv, NEW to, NEW m \in Message, Send(to, m),
         \A c \in Client : c \in to => phase[c] # "out",
         UNCHANGED <<phase, clientVars>>,
         calm' = (calm /\ \A c \in Client : phase[c] # "linked"),
         \A id \in Slot, c \in Client :
           Creates(m, id) /\ c \in to => told[c][id] = "nothing",
         \A c \in Client : phase[c] = "out" =>
           \A id \in Slot : told'[c][id] = "nothing",
         \A c \in Client, id \in Slot :
           /\ c \in to =>
                Says(Own(c, id), Append(chan[c], m), id, told'[c][id],
                     checkpoints'[id])
           /\ c \notin to =>
                Says(Own(c, id), chan[c], id, told'[c][id],
                     checkpoints'[id])
  PROVE  WordInv' /\ OutInv' /\ CalmInv'
<1>0. \A c \in Client, id \in Slot : Own(c, id)' = Own(c, id)
  BY DEF Own, clientVars
<1>1. \A c \in Client :
        chan'[c] = IF c \in to THEN Append(chan[c], m) ELSE chan[c]
  BY SendTyped DEF CopyInv
<1>2. WordInv'
  BY <1>0, <1>1 DEF WordInv
<1>3. OutInv'
  BY <1>0, <1>1 DEF OutInv, CopyInv
<1>4. ASSUME calm', NEW c \in Client, NEW id \in Slot
      PROVE  Clean(Own(c, id)', chan'[c], id)
  <2>1. Clean(Own(c, id), chan[c], id) /\ chan[c] \in Seq(Message)
    BY <1>4 DEF CopyInv, CalmInv, TypeOK
  <2>2. Own(c, id)' = Own(c, id)
    BY <1>0
  <2>3. CASE c \in to
    <3>1. Creates(m, id) => Gone(Own(c, id), chan[c], id, Len(chan[c]))
      BY <2>3 DEF CopyInv, WordInv, Says
    <3> QED BY <1>1, <2>1, <2>2, <2>3, <3>1, CleanGrows
  <2>4. CASE c \notin to
    BY <1>1, <2>1, <2>2, <2>4
  <2> QED BY <2>3, <2>4
<1>5. CalmInv'
  BY <1>0, <1>1, <1>4 DEF CalmInv, CopyInv
<1> QED BY <1>2, <1>3, <1>5

LEMMA CreateKeeps ==
  ASSUME CopyInv, NEW spot \in Spot, Create(spot)
  PROVE  WordInv' /\ OutInv' /\ CalmInv'
<1> DEFINE id == Table!FindFreeSlot(checkpoints)
           entity == [serial |-> creates', spot |-> spot, visible |-> TRUE]
           m == [rpc |-> "CREATE", id |-> id, serial |-> creates',
                 spot |-> spot]
<1>0. TypeOK /\ creates' \in Serial /\ entity \in Entity
  BY CreateTyped DEF CopyInv
<1>1. /\ calm' = (calm /\ \A c \in Client : phase[c] # "linked")
      /\ UNCHANGED <<phase, clientVars>>
  BY DEF Create, MayRun
<1>2. CASE id \in Slot
  <2>1. /\ checkpoints' = Table!Put(checkpoints, id, entity)
        /\ Send(Linked, m) /\ Tell(Linked, id, "shown")
    BY <1>2 DEF Create
  <2>2. checkpoints[id] = None
    BY <1>2, FreeSlot
  <2>3. m \in Message
    BY <1>0, <1>2, MessageTypes
  <2>4. /\ Creates(m, id) /\ Made(m, id) = NewCopy(creates', spot)
        /\ \A s \in Slot \ {id} : ~ Creates(m, s) /\ ~ Deletes(m, s)
                                  /\ ~ Moves(m, s) /\ ~ Shows(m, s)
    BY DEF Creates, Deletes, Moves, Shows, Made
  <2>5. /\ Made(m, id).serial = entity.serial /\ Made(m, id).spot = entity.spot
    <3>1. entity.serial = creates' /\ entity.spot = spot
      OBVIOUS
    <3> HIDE DEF m, entity, id
    <3>2. /\ NewCopy(creates', spot).serial = creates'
          /\ NewCopy(creates', spot).spot = spot
      BY <1>0, NewCopyTyped
    <3> QED BY <2>4, <3>1, <3>2
  <2>6. entity # None
    BY <1>0, NullAssumption DEF NullAssumption
  <2> HIDE DEF id, entity, m
  <2>7. /\ checkpoints'[id] = entity
        /\ \A s \in Slot \ {id} : checkpoints'[s] = checkpoints[s]
    BY <1>0, <1>2, <2>1 DEF TypeOK, Table!Put
  <2>8. \A c \in Client, s \in Slot :
          told'[c][s] = IF c \in Linked /\ s = id THEN "shown" ELSE told[c][s]
    BY <1>0, <1>2, <2>1, TellTyped
  <2>9. \A c \in Client : told[c][id] = "nothing"
    BY <1>2, <2>2 DEF CopyInv, WordInv, Says
  <2>10. \A c \in Client : c \in Linked <=> phase[c] # "out"
    BY DEF Linked
  <2>11. ASSUME NEW c \in Client, NEW s \in Slot
         PROVE  /\ c \in Linked =>
                     Says(Own(c, s), Append(chan[c], m), s, told'[c][s],
                          checkpoints'[s])
                /\ c \notin Linked =>
                     Says(Own(c, s), chan[c], s, told'[c][s],
                          checkpoints'[s])
    <3>1. Says(Own(c, s), chan[c], s, told[c][s], checkpoints[s])
      BY DEF CopyInv, WordInv
    <3>2. chan[c] \in Seq(Message)
      BY <1>0 DEF TypeOK
    <3>3. CASE s = id
      <4>1. c \in Linked => told'[c][s] = "shown" /\ checkpoints'[s] = entity
        BY <2>7, <2>8, <3>3
      <4>2. Says(Own(c, s), Append(chan[c], m), s, "shown", entity)
        BY <2>3, <2>4, <2>5, <2>6, <3>2, <3>3, SaysCreated
      <4>3. c \notin Linked => told'[c][s] = "nothing" /\ told[c][s] = "nothing"
        BY <2>8, <2>9, <3>3
      <4> QED BY <3>1, <4>1, <4>2, <4>3 DEF Says
    <3>4. CASE s # id
      <4>1. told'[c][s] = told[c][s] /\ checkpoints'[s] = checkpoints[s]
        BY <2>7, <2>8, <3>4
      <4>2. Says(Own(c, s), Append(chan[c], m), s, told[c][s], checkpoints[s])
        BY <2>3, <2>4, <3>1, <3>2, <3>4, SaysKept
      <4> QED BY <3>1, <4>1, <4>2
    <3> QED BY <3>3, <3>4
  <2>12. \A c \in Client : phase[c] = "out" =>
           \A s \in Slot : told'[c][s] = "nothing"
    BY <2>8, <2>10 DEF CopyInv, OutInv
  <2>13. \A s \in Slot, c \in Client :
           Creates(m, s) /\ c \in Linked => told[c][s] = "nothing"
    BY <2>4, <2>9
  <2> QED BY <1>1, <2>1, <2>3, <2>10, <2>11, <2>12, <2>13, ScriptKeeps
<1>3. CASE id \notin Slot
  <2>1. UNCHANGED <<checkpoints, chan, told>>
    BY <1>3 DEF Create
  <2> QED BY <1>1, <2>1 DEF CopyInv, WordInv, OutInv, CalmInv, Own, clientVars
<1> QED BY <1>2, <1>3

LEMMA DeleteKeeps ==
  ASSUME CopyInv, NEW id \in Slot, DeleteCheckpoint(id)
  PROVE  WordInv' /\ OutInv' /\ CalmInv'
<1> DEFINE m == [rpc |-> "DELETE", id |-> id]
<1>0. TypeOK /\ m \in Message
  BY MessageTypes DEF CopyInv
<1>1. /\ calm' = (calm /\ \A c \in Client : phase[c] # "linked")
      /\ UNCHANGED <<phase, clientVars>>
      /\ Send(Linked, m) /\ Tell(Client, id, "nothing")
      /\ checkpoints' = Table!Delete(checkpoints, id)
  BY DEF DeleteCheckpoint, MayAct, MayRun
<1>2. /\ Deletes(m, id) /\ \A s \in Slot : ~ Creates(m, s)
      /\ \A s \in Slot \ {id} : ~ Deletes(m, s) /\ ~ Moves(m, s) /\ ~ Shows(m, s)
  BY DEF Creates, Deletes, Moves, Shows
<1> HIDE DEF m
<1>3. \A s \in Slot \ {id} : checkpoints'[s] = checkpoints[s]
  BY <1>0, <1>1 DEF TypeOK, Table!Delete
<1>4. \A c \in Client, s \in Slot :
        told'[c][s] = IF s = id THEN "nothing" ELSE told[c][s]
  BY <1>0, <1>1, TellTyped
<1>5. \A c \in Client : c \in Linked <=> phase[c] # "out"
  BY DEF Linked
<1>6. ASSUME NEW c \in Client, NEW s \in Slot
      PROVE  /\ c \in Linked =>
                  Says(Own(c, s), Append(chan[c], m), s, told'[c][s],
                       checkpoints'[s])
             /\ c \notin Linked =>
                  Says(Own(c, s), chan[c], s, told'[c][s],
                       checkpoints'[s])
  <2>1. Says(Own(c, s), chan[c], s, told[c][s], checkpoints[s])
    BY DEF CopyInv, WordInv
  <2>2. chan[c] \in Seq(Message)
    BY <1>0 DEF TypeOK
  <2>3. CASE s = id
    <3>1. told'[c][s] = "nothing"
      BY <1>4, <2>3
    <3>2. Says(Own(c, s), Append(chan[c], m), s, "nothing", checkpoints'[s])
      BY <1>0, <1>2, <2>2, <2>3, SaysDeleted
    <3>3. c \notin Linked => told[c][s] = "nothing"
      BY <1>5 DEF CopyInv, OutInv
    <3> QED BY <2>1, <3>1, <3>2, <3>3 DEF Says
  <2>4. CASE s # id
    <3>1. told'[c][s] = told[c][s] /\ checkpoints'[s] = checkpoints[s]
      BY <1>3, <1>4, <2>4
    <3>2. Says(Own(c, s), Append(chan[c], m), s, told[c][s], checkpoints[s])
      BY <1>0, <1>2, <2>1, <2>2, <2>4, SaysKept
    <3> QED BY <2>1, <3>1, <3>2
  <2> QED BY <2>3, <2>4
<1>7. \A c \in Client : phase[c] = "out" =>
        \A s \in Slot : told'[c][s] = "nothing"
  BY <1>4 DEF CopyInv, OutInv
<1> QED BY <1>0, <1>1, <1>2, <1>5, <1>6, <1>7, ScriptKeeps

LEMMA MoveKeeps ==
  ASSUME CopyInv, NEW id \in Slot, NEW spot \in Spot, Move(id, spot)
  PROVE  WordInv' /\ OutInv' /\ CalmInv'
<1> DEFINE m == [rpc |-> "MOVE", id |-> id, spot |-> spot,
                 serial |-> checkpoints[id].serial]
           entity == [checkpoints[id] EXCEPT !.spot = spot]
<1>0. TypeOK
  BY DEF CopyInv
<1>1. /\ calm' = (calm /\ \A c \in Client : phase[c] # "linked")
      /\ UNCHANGED <<phase, clientVars, told>>
      /\ Send(Linked, m)
      /\ Table!Exists(checkpoints, id)
      /\ checkpoints' = [checkpoints EXCEPT ![id].spot = spot]
  BY DEF Move, MayAct, MayRun
<1>2. m \in Message
  BY <1>0, <1>1, MessageTypes, EntityFields
<1>3. /\ entity \in Entity /\ entity.serial = checkpoints[id].serial
      /\ entity.spot = m.spot
  BY <1>0, <1>1, EntityFields DEF Entity
<1>4. entity # None
  BY <1>3, NullAssumption DEF NullAssumption
<1>5. /\ checkpoints'[id] = entity
      /\ \A s \in Slot \ {id} : checkpoints'[s] = checkpoints[s]
  BY <1>0, <1>1 DEF TypeOK
<1>6. /\ Moves(m, id) /\ \A s \in Slot : ~ Creates(m, s)
      /\ \A s \in Slot \ {id} : ~ Deletes(m, s) /\ ~ Moves(m, s) /\ ~ Shows(m, s)
  BY DEF Creates, Deletes, Moves, Shows
<1> HIDE DEF m, entity
<1>7. \A c \in Client : c \in Linked <=> phase[c] # "out"
  BY DEF Linked
<1>8. ASSUME NEW c \in Client, NEW s \in Slot
      PROVE  /\ c \in Linked =>
                  Says(Own(c, s), Append(chan[c], m), s, told'[c][s],
                       checkpoints'[s])
             /\ c \notin Linked =>
                  Says(Own(c, s), chan[c], s, told'[c][s],
                       checkpoints'[s])
  <2>1. Says(Own(c, s), chan[c], s, told[c][s], checkpoints[s])
    BY DEF CopyInv, WordInv
  <2>2. chan[c] \in Seq(Message) /\ told' = told
    BY <1>0, <1>1 DEF TypeOK
  <2>3. CASE s = id
    <3>1. Says(Own(c, s), Append(chan[c], m), s, told[c][s], entity)
      BY <1>2, <1>3, <1>4, <1>6, <2>1, <2>2, <2>3, SaysMoved
    <3>2. c \notin Linked => told[c][s] = "nothing"
      BY <1>7 DEF CopyInv, OutInv
    <3> QED BY <1>5, <2>1, <2>2, <2>3, <3>1, <3>2 DEF Says
  <2>4. CASE s # id
    <3>1. Says(Own(c, s), Append(chan[c], m), s, told[c][s], checkpoints[s])
      BY <1>2, <1>6, <2>1, <2>2, <2>4, SaysKept
    <3> QED BY <1>5, <2>1, <2>2, <2>4, <3>1
  <2> QED BY <2>3, <2>4
<1>9. \A c \in Client : phase[c] = "out" =>
        \A s \in Slot : told'[c][s] = "nothing"
  BY <1>1 DEF CopyInv, OutInv
<1> QED BY <1>1, <1>2, <1>6, <1>7, <1>8, <1>9, ScriptKeeps

LEMMA ShowForAllKeeps ==
  ASSUME CopyInv, NEW id \in Slot, NEW visible \in BOOLEAN,
         ShowForAll(id, visible)
  PROVE  WordInv' /\ OutInv' /\ CalmInv'
<1> DEFINE m == [rpc |-> IF visible THEN "SHOW" ELSE "HIDE", id |-> id]
           entity == [checkpoints[id] EXCEPT !.visible = visible]
<1>0. TypeOK
  BY DEF CopyInv
<1>1. /\ calm' = (calm /\ \A c \in Client : phase[c] # "linked")
      /\ UNCHANGED <<phase, clientVars>>
      /\ Send(Linked, m)
      /\ Table!Exists(checkpoints, id)
      /\ checkpoints' = [checkpoints EXCEPT ![id].visible = visible]
  BY DEF ShowForAll, MayAct, MayRun
<1>2. \A c \in Client, s \in Slot :
        told'[c][s] = IF s = id /\ told[c][s] # "nothing"
                      THEN IF visible THEN "shown" ELSE "hidden"
                      ELSE told[c][s]
  BY <1>0 DEF ShowForAll, TypeOK
<1>3. m \in Message /\ (m.rpc = "SHOW" <=> visible)
  BY MessageTypes
<1>4. /\ entity \in Entity /\ entity.serial = checkpoints[id].serial
      /\ entity.spot = checkpoints[id].spot
  BY <1>0, <1>1, EntityFields DEF Entity
<1>5. entity # None
  BY <1>4, NullAssumption DEF NullAssumption
<1>6. /\ checkpoints'[id] = entity
      /\ \A s \in Slot \ {id} : checkpoints'[s] = checkpoints[s]
  BY <1>0, <1>1 DEF TypeOK
<1>7. /\ Shows(m, id) /\ \A s \in Slot : ~ Creates(m, s)
      /\ \A s \in Slot \ {id} : ~ Deletes(m, s) /\ ~ Moves(m, s) /\ ~ Shows(m, s)
  BY DEF Creates, Deletes, Moves, Shows
<1> HIDE DEF m, entity
<1>8. \A c \in Client : c \in Linked <=> phase[c] # "out"
  BY DEF Linked
<1>9. ASSUME NEW c \in Client, NEW s \in Slot
      PROVE  /\ c \in Linked =>
                  Says(Own(c, s), Append(chan[c], m), s, told'[c][s],
                       checkpoints'[s])
             /\ c \notin Linked =>
                  Says(Own(c, s), chan[c], s, told'[c][s],
                       checkpoints'[s])
  <2>1. Says(Own(c, s), chan[c], s, told[c][s], checkpoints[s])
    BY DEF CopyInv, WordInv
  <2>2. chan[c] \in Seq(Message)
    BY <1>0 DEF TypeOK
  <2>3. CASE s = id
    <3>1. told'[c][s] = IF told[c][s] = "nothing" THEN "nothing"
                        ELSE IF m.rpc = "SHOW" THEN "shown" ELSE "hidden"
      BY <1>2, <1>3, <2>3
    <3>2. Says(Own(c, s), Append(chan[c], m), s, told'[c][s], entity)
      BY <1>3, <1>4, <1>5, <1>7, <2>1, <2>2, <2>3, <3>1, SaysShown
    <3>3. c \notin Linked => told[c][s] = "nothing"
      BY <1>8 DEF CopyInv, OutInv
    <3> QED BY <1>6, <2>1, <2>3, <3>1, <3>2, <3>3 DEF Says
  <2>4. CASE s # id
    <3>1. told'[c][s] = told[c][s]
      BY <1>2, <2>4
    <3>2. Says(Own(c, s), Append(chan[c], m), s, told[c][s], checkpoints[s])
      BY <1>3, <1>7, <2>1, <2>2, <2>4, SaysKept
    <3> QED BY <1>6, <2>1, <2>4, <3>1, <3>2
  <2> QED BY <2>3, <2>4
<1>10. \A c \in Client : phase[c] = "out" =>
         \A s \in Slot : told'[c][s] = "nothing"
  BY <1>2 DEF CopyInv, OutInv
<1> QED BY <1>1, <1>3, <1>7, <1>8, <1>9, <1>10, ScriptKeeps

LEMMA ShowForPlayerKeeps ==
  ASSUME CopyInv, NEW id \in Slot, NEW visible \in BOOLEAN, NEW p \in Client,
         ShowForPlayer(id, p, visible)
  PROVE  WordInv' /\ OutInv' /\ CalmInv'
<1> DEFINE m == [rpc |-> IF visible THEN "SHOW" ELSE "HIDE", id |-> id]
           what == IF visible THEN "shown" ELSE "hidden"
<1>0. TypeOK
  BY DEF CopyInv
<1>1. /\ calm' = (calm /\ \A c \in Client : phase[c] # "linked")
      /\ UNCHANGED <<phase, clientVars, checkpoints>>
      /\ Send({p}, m)
      /\ Table!Exists(checkpoints, id) /\ phase[p] = "joined"
      /\ IF told[p][id] = "nothing" THEN UNCHANGED told ELSE Tell({p}, id, what)
  BY DEF ShowForPlayer, MayAct, MayRun, serverVars
<1>2. \A c \in Client, s \in Slot :
        told'[c][s] = IF c = p /\ s = id /\ told[c][s] # "nothing"
                      THEN what ELSE told[c][s]
  <2>1. CASE told[p][id] = "nothing"
    BY <1>1, <2>1
  <2>2. CASE told[p][id] # "nothing"
    <3>1. Tell({p}, id, what) /\ what \in {"nothing", "shown", "hidden"}
      BY <1>1, <2>2
    <3> HIDE DEF what
    <3> QED BY <1>0, <2>2, <3>1, TellTyped
  <2> QED BY <2>1, <2>2
<1>3. /\ m \in Message
      /\ what = IF m.rpc = "SHOW" THEN "shown" ELSE "hidden"
  BY MessageTypes
<1>4. checkpoints[id] # None
  BY <1>0, <1>1, EntityFields
<1>5. /\ Shows(m, id) /\ \A s \in Slot : ~ Creates(m, s)
      /\ \A s \in Slot \ {id} : ~ Deletes(m, s) /\ ~ Moves(m, s) /\ ~ Shows(m, s)
  BY DEF Creates, Deletes, Moves, Shows
<1> HIDE DEF m, what
<1>6. ASSUME NEW c \in Client, NEW s \in Slot
      PROVE  /\ c \in {p} =>
                  Says(Own(c, s), Append(chan[c], m), s, told'[c][s],
                       checkpoints'[s])
             /\ c \notin {p} =>
                  Says(Own(c, s), chan[c], s, told'[c][s],
                       checkpoints'[s])
  <2>1. Says(Own(c, s), chan[c], s, told[c][s], checkpoints[s])
    BY DEF CopyInv, WordInv
  <2>2. chan[c] \in Seq(Message) /\ checkpoints' = checkpoints
    BY <1>0, <1>1 DEF TypeOK
  <2>3. CASE c = p /\ s = id
    <3>1. told'[c][s] = IF told[c][s] = "nothing" THEN "nothing"
                        ELSE IF m.rpc = "SHOW" THEN "shown" ELSE "hidden"
      BY <1>2, <1>3, <2>3
    <3>2. Says(Own(c, s), Append(chan[c], m), s, told'[c][s], checkpoints[s])
      BY <1>3, <1>4, <1>5, <2>1, <2>2, <2>3, <3>1, SaysShown
    <3> QED BY <2>2, <2>3, <3>2
  <2>4. CASE c = p /\ s # id
    <3>1. Says(Own(c, s), Append(chan[c], m), s, told[c][s], checkpoints[s])
      BY <1>3, <1>5, <2>1, <2>2, <2>4, SaysKept
    <3> QED BY <1>2, <2>2, <2>4, <3>1
  <2>5. CASE c # p
    BY <1>2, <2>1, <2>2, <2>5
  <2> QED BY <2>3, <2>4, <2>5
<1>7. \A c \in Client : phase[c] = "out" =>
        \A s \in Slot : told'[c][s] = "nothing"
  BY <1>2 DEF CopyInv, OutInv
<1>8. \A c \in Client : c \in {p} => phase[c] # "out"
  BY <1>1
<1> QED BY <1>1, <1>3, <1>5, <1>6, <1>7, <1>8, ScriptKeeps

LEMMA LinkKeeps ==
  ASSUME CopyInv, NEW c \in Client, Link(c)
  PROVE  WordInv' /\ OutInv' /\ CalmInv'
<1>1. /\ phase[c] = "out"
      /\ phase' = [phase EXCEPT ![c] = "linked"]
      /\ UNCHANGED <<checkpoints, chan, told, calm>>
      /\ \A d \in Client, id \in Slot : Own(d, id)' = Own(d, id)
  BY DEF Link, serverVars, clientVars, Own
<1>2. /\ phase'[c] = "linked"
      /\ \A d \in Client \ {c} : phase'[d] = phase[d]
  BY <1>1 DEF CopyInv, TypeOK
<1>3. WordInv'
  BY <1>1 DEF CopyInv, WordInv
<1>4. OutInv'
  BY <1>1, <1>2 DEF CopyInv, OutInv
<1>5. chan[c] = <<>> /\ \A id \in Slot : Own(c, id) = None
  BY <1>1 DEF CopyInv, OutInv
<1>6. CalmInv'
  BY <1>1, <1>2, <1>5 DEF CopyInv, CalmInv
<1> QED BY <1>3, <1>4, <1>6

(* A client without a connection, and with no copy but what is left over.  *)
LEMMA OutKeeps ==
  ASSUME CopyInv, NEW c \in Client,
         UNCHANGED <<checkpoints, calm>>,
         phase'[c] = "out", chan'[c] = <<>>,
         \A id \in Slot : told'[c][id] = "nothing" /\ Own(c, id)' = None,
         \A d \in Client \ {c} :
           /\ phase'[d] = phase[d] /\ chan'[d] = chan[d]
           /\ told'[d] = told[d]
           /\ \A id \in Slot : Own(d, id)' = Own(d, id)
  PROVE  WordInv' /\ OutInv' /\ CalmInv'
<1>1. ASSUME NEW id \in Slot
      PROVE  /\ Says(Own(c, id)', chan'[c], id, told'[c][id], checkpoints'[id])
             /\ Clean(Own(c, id)', chan'[c], id)
  <2>1. Gone(Own(c, id)', <<>>, id, 0) /\ Clean(Own(c, id)', <<>>, id)
    BY EmptyChannel
  <2>2. Len(<<>>) = 0
    OBVIOUS
  <2> QED BY <2>1, <2>2 DEF Says
<1>2. WordInv'
  BY <1>1 DEF CopyInv, WordInv
<1>3. OutInv'
  BY DEF CopyInv, OutInv
<1>4. CalmInv'
  BY <1>1 DEF CopyInv, CalmInv
<1> QED BY <1>2, <1>3, <1>4

LEMMA EndLeaves ==
  ASSUME CopyInv, NEW c \in Client, EndOfConnection(c)
  PROVE  /\ UNCHANGED <<checkpoints, calm>>
         /\ phase'[c] = "out" /\ chan'[c] = <<>>
         /\ \A id \in Slot : told'[c][id] = "nothing"
         /\ \A d \in Client \ {c} : /\ phase'[d] = phase[d]
                                     /\ chan'[d] = chan[d]
                                     /\ told'[d] = told[d]
BY DEF EndOfConnection, CopyInv, TypeOK, Untold, serverVars

LEMMA DisconnectKeeps ==
  ASSUME CopyInv, NEW c \in Client, Disconnect(c)
  PROVE  WordInv' /\ OutInv' /\ CalmInv'
<1>1. /\ copies' = copies
      /\ leftover' = [leftover EXCEPT ![c] =
                        {id \in Slot : copies[c][id] # None}]
  BY DEF Disconnect
<1>2. \A id \in Slot : Own(c, id)' = None
  BY <1>1 DEF Own, CopyInv, TypeOK
<1>3. \A d \in Client \ {c}, id \in Slot : Own(d, id)' = Own(d, id)
  BY <1>1 DEF Own, CopyInv, TypeOK
<1> QED BY <1>2, <1>3, EndLeaves, OutKeeps DEF Disconnect

LEMMA LoseKeeps ==
  ASSUME CopyInv, NEW c \in Client, NEW spot, Lose(c, spot)
  PROVE  WordInv' /\ OutInv' /\ CalmInv'
<1>1. /\ copies' = [copies EXCEPT ![c] = Table!EmptyTable]
      /\ leftover' = [leftover EXCEPT ![c] = {}]
  BY DEF Lose
<1>2. \A id \in Slot : Own(c, id)' = None
  BY <1>1, EmptyHolds DEF Own, CopyInv, TypeOK
<1>3. \A d \in Client \ {c}, id \in Slot : Own(d, id)' = Own(d, id)
  BY <1>1 DEF Own, CopyInv, TypeOK
<1> QED BY <1>2, <1>3, EndLeaves, OutKeeps DEF Lose

LEMMA RestartKeeps ==
  ASSUME CopyInv, NEW c \in Client, Restart(c)
  PROVE  WordInv' /\ OutInv' /\ CalmInv'
<1>1. /\ copies' = [copies EXCEPT ![c] = Table!EmptyTable]
      /\ leftover' = [leftover EXCEPT ![c] = {}]
      /\ phase[c] = "out" /\ UNCHANGED <<checkpoints, phase, chan, told, calm>>
  BY DEF Restart, serverVars
<1>2. \A id \in Slot : Own(c, id)' = None
  BY <1>1, EmptyHolds DEF Own, CopyInv, TypeOK
<1>3. \A d \in Client \ {c}, id \in Slot : Own(d, id)' = Own(d, id)
  BY <1>1 DEF Own, CopyInv, TypeOK
<1>4. chan[c] = <<>> /\ \A id \in Slot : told[c][id] = "nothing"
  BY <1>1 DEF CopyInv, OutInv
<1> QED BY <1>1, <1>2, <1>3, <1>4, OutKeeps

(* The snapshot of a joiner.                                               *)
LEMMA JoinKeeps ==
  ASSUME CopyInv, NEW c \in Client, Join(c)
  PROVE  WordInv' /\ OutInv' /\ CalmInv'
<1> DEFINE m == [rpc |-> "SNAPSHOT", seen |-> Seen]
           quiet == Seen = Table!EmptyTable
<1>0. TypeOK /\ Seen \in [Slot -> Entity \cup {None}] /\ m \in Message
  BY SeenTyped DEF CopyInv
<1>1. /\ phase[c] = "linked"
      /\ phase' = [phase EXCEPT ![c] = "joined"]
      /\ UNCHANGED <<checkpoints, calm>>
      /\ \A d \in Client, id \in Slot : Own(d, id)' = Own(d, id)
      /\ IF quiet THEN UNCHANGED chan ELSE Send({c}, m)
      /\ told' = [told EXCEPT ![c] =
           [id \in Slot |-> IF Seen[id] # None THEN "shown" ELSE @[id]]]
  BY DEF Join, serverVars, clientVars, Own
<1>2. \A id \in Slot :
        /\ Creates(m, id) <=> Seen[id] # None
        /\ ~ Deletes(m, id) /\ ~ Moves(m, id) /\ ~ Shows(m, id)
        /\ Made(m, id) = NewCopy(Seen[id].serial, Seen[id].spot)
        /\ Seen[id] # None => Seen[id] = checkpoints[id]
  BY DEF Creates, Deletes, Moves, Shows, Made, Seen
<1>3. quiet => \A id \in Slot : Seen[id] = None
  BY EmptyHolds
<1> HIDE DEF m, quiet
<1>4. /\ phase'[c] = "joined"
      /\ \A d \in Client \ {c} : phase'[d] = phase[d]
  BY <1>0, <1>1 DEF TypeOK
<1>5. \A d \in Client, id \in Slot :
        told'[d][id] = IF d = c /\ Seen[id] # None THEN "shown"
                                                   ELSE told[d][id]
  BY <1>0, <1>1 DEF TypeOK
<1>6. \A d \in Client : chan'[d] = IF d = c /\ ~ quiet THEN Append(chan[d], m)
                                                       ELSE chan[d]
  <2>1. CASE quiet
    BY <1>1, <2>1
  <2>2. CASE ~ quiet
    BY <1>0, <1>1, <2>2, SendTyped
  <2> QED BY <2>1, <2>2
<1>7. ASSUME NEW id \in Slot, ~ quiet
      PROVE  Says(Own(c, id), Append(chan[c], m), id, told'[c][id],
                  checkpoints[id])
  <2>1. Says(Own(c, id), chan[c], id, told[c][id], checkpoints[id])
    BY DEF CopyInv, WordInv
  <2>2. chan[c] \in Seq(Message)
    BY <1>0 DEF TypeOK
  <2>3. CASE Seen[id] # None
    <3>1. Seen[id] \in Entity /\ Seen[id] = checkpoints[id]
      BY <1>0, <1>2, <2>3
    <3>2. Seen[id].serial \in Serial /\ Seen[id].spot \in Spot
      BY <3>1 DEF Entity
    <3>3. /\ Made(m, id).serial = checkpoints[id].serial
          /\ Made(m, id).spot = checkpoints[id].spot
      <4> DEFINE made == NewCopy(Seen[id].serial, Seen[id].spot)
      <4>1. made.serial = Seen[id].serial /\ made.spot = Seen[id].spot
        BY <3>2, NewCopyTyped
      <4>2. Made(m, id) = made
        BY <1>2
      <4> HIDE DEF made
      <4> QED BY <3>1, <4>1, <4>2
    <3>4. Creates(m, id) /\ checkpoints[id] # None
      BY <1>2, <2>3
    <3>5. Says(Own(c, id), Append(chan[c], m), id, "shown", checkpoints[id])
      BY <1>0, <2>2, <3>3, <3>4, SaysCreated
    <3> QED BY <1>5, <2>3, <3>5
  <2>4. CASE Seen[id] = None
    <3>1. Says(Own(c, id), Append(chan[c], m), id, told[c][id],
               checkpoints[id])
      BY <1>0, <1>2, <2>1, <2>2, <2>4, SaysKept
    <3> QED BY <1>5, <2>4, <3>1
  <2> QED BY <2>3, <2>4
<1>8. WordInv'
  <2> SUFFICES ASSUME NEW d \in Client, NEW id \in Slot
               PROVE  Says(Own(d, id)', chan'[d], id, told'[d][id],
                           checkpoints'[id])
    BY DEF WordInv
  <2>1. Says(Own(d, id), chan[d], id, told[d][id], checkpoints[id])
    BY DEF CopyInv, WordInv
  <2>2. CASE d = c /\ ~ quiet
    BY <1>1, <1>6, <1>7, <2>2
  <2>3. CASE ~ (d = c /\ ~ quiet)
    <3>1. told'[d][id] = told[d][id] /\ chan'[d] = chan[d]
      BY <1>3, <1>5, <1>6, <2>3
    <3> QED BY <1>1, <2>1, <3>1
  <2> QED BY <2>2, <2>3
<1>9. OutInv'
  BY <1>1, <1>4, <1>5, <1>6 DEF CopyInv, OutInv
<1>10. ASSUME calm, NEW d \in Client, NEW id \in Slot
       PROVE  Clean(Own(d, id), chan'[d], id)
  <2>1. Clean(Own(d, id), chan[d], id) /\ chan[d] \in Seq(Message)
    BY <1>0, <1>10 DEF CopyInv, CalmInv, TypeOK
  <2>2. CASE d = c /\ ~ quiet
    <3>1. chan[c] = <<>> /\ Own(c, id) = None
      BY <1>1, <1>10 DEF CopyInv, CalmInv
    <3>2. Gone(Own(c, id), chan[c], id, Len(chan[c]))
      <4>1. Len(<<>>) = 0
        OBVIOUS
      <4> QED BY <3>1, <4>1, EmptyChannel
    <3> QED BY <1>0, <1>6, <2>1, <2>2, <3>2, CleanGrows
  <2>3. CASE ~ (d = c /\ ~ quiet)
    BY <1>6, <2>1, <2>3
  <2> QED BY <2>2, <2>3
<1>11. CalmInv'
  BY <1>1, <1>4, <1>6, <1>10 DEF CopyInv, CalmInv
<1> QED BY <1>8, <1>9, <1>11

(* To the copies that are not left over, a message does what it does to    *)
(* copies.                                                                 *)
LEMMA OwnApplies ==
  ASSUME TypeOK, NEW c \in Client, Deliver(c)
  PROVE  LET m == Head(chan[c]) IN
         /\ \A d \in Client \ {c}, id \in Slot : Own(d, id)' = Own(d, id)
         /\ \A id \in Slot : Applies(m, id, Own(c, id), Own(c, id)')
<1> DEFINE m == Head(chan[c])
<1>1. /\ m \in Message /\ Leaves(c, m)
      /\ \A d \in Client \ {c} : copies'[d] = copies[d]
      /\ \A id \in Slot : Applies(m, id, copies[c][id], copies'[c][id])
  BY DeliverApplies
<1> HIDE DEF m
<1>2. /\ \A d \in Client \ {c} : leftover'[d] = leftover[d]
      /\ \A id \in Slot : id \in leftover'[c] <=>
           id \in leftover[c] /\ ~ Creates(m, id) /\ ~ Deletes(m, id)
  BY <1>1 DEF Leaves
<1>3. \A d \in Client \ {c}, id \in Slot : Own(d, id)' = Own(d, id)
  BY <1>1, <1>2 DEF Own
<1>4. ASSUME NEW id \in Slot
      PROVE  Applies(m, id, Own(c, id), Own(c, id)')
  <2>1. CASE Creates(m, id) \/ Deletes(m, id)
    <3>1. Own(c, id)' = copies'[c][id]
      BY <1>2, <2>1 DEF Own
    <3> QED BY <1>1, <2>1, <3>1 DEF Applies
  <2>2. CASE ~ Creates(m, id) /\ ~ Deletes(m, id) /\ id \in leftover[c]
    <3>1. Own(c, id) = None /\ Own(c, id)' = None
      BY <1>2, <2>2 DEF Own
    <3> QED BY <2>2, <3>1 DEF Applies
  <2>3. CASE ~ Creates(m, id) /\ ~ Deletes(m, id) /\ id \notin leftover[c]
    <3>1. Own(c, id) = copies[c][id] /\ Own(c, id)' = copies'[c][id]
      BY <1>2, <2>3 DEF Own
    <3> QED BY <1>1, <3>1
  <2> QED BY <2>1, <2>2, <2>3
<1> QED BY <1>3, <1>4 DEF m

LEMMA DeliverKeeps ==
  ASSUME CopyInv, NEW c \in Client, Deliver(c)
  PROVE  WordInv' /\ OutInv' /\ CalmInv'
<1> DEFINE m == Head(chan[c])
<1>1. /\ TypeOK /\ chan[c] # <<>> /\ chan' = [chan EXCEPT ![c] = Tail(@)]
      /\ UNCHANGED <<checkpoints, phase, told, calm>>
  BY DEF Deliver, serverVars, CopyInv
<1>2. /\ chan[c] \in Seq(Message) /\ chan'[c] = Tail(chan[c])
      /\ \A d \in Client \ {c} : chan'[d] = chan[d]
  BY <1>1 DEF TypeOK
<1>3. /\ \A d \in Client \ {c}, id \in Slot : Own(d, id)' = Own(d, id)
      /\ \A id \in Slot : Applies(m, id, Own(c, id), Own(c, id)')
  BY <1>1, OwnApplies
<1> HIDE DEF m
<1>4. WordInv'
  <2> SUFFICES ASSUME NEW d \in Client, NEW id \in Slot
               PROVE  Says(Own(d, id)', chan'[d], id, told'[d][id],
                           checkpoints'[id])
    BY DEF WordInv
  <2>1. Says(Own(d, id), chan[d], id, told[d][id], checkpoints[id])
    BY DEF CopyInv, WordInv
  <2>2. CASE d = c
    <3>1. Applies(Head(chan[c]), id, Own(c, id), Own(c, id)')
      BY <1>3 DEF m
    <3>2. Says(Own(c, id)', Tail(chan[c]), id, told[c][id], checkpoints[id])
      BY <1>1, <1>2, <2>1, <2>2, <3>1, SaysShifts
    <3> QED BY <1>1, <1>2, <2>2, <3>2
  <2>3. CASE d # c
    BY <1>1, <1>2, <1>3, <2>1, <2>3
  <2> QED BY <2>2, <2>3
<1>5. phase[c] # "out"
  BY <1>1 DEF CopyInv, OutInv
<1>6. OutInv'
  BY <1>1, <1>2, <1>3, <1>5 DEF CopyInv, OutInv
<1>7. ASSUME calm, NEW id \in Slot
      PROVE  Clean(Own(c, id)', chan'[c], id)
  <2>1. Applies(Head(chan[c]), id, Own(c, id), Own(c, id)')
    BY <1>3 DEF m
  <2>2. Clean(Own(c, id), chan[c], id)
    BY <1>7 DEF CopyInv, CalmInv
  <2>3. Clean(Own(c, id)', Tail(chan[c]), id)
    BY <1>1, <1>2, <2>1, <2>2, CleanShifts
  <2> QED BY <1>2, <2>3
<1>8. CalmInv'
  <2> SUFFICES ASSUME calm, NEW d \in Client
               PROVE  /\ phase[d] = "linked" =>
                           chan'[d] = <<>>
                           /\ \A id \in Slot : Own(d, id)' = None
                      /\ \A id \in Slot : Clean(Own(d, id)', chan'[d], id)
    BY <1>1 DEF CalmInv
  <2>1. CASE d = c
    <3>1. phase[c] # "linked"
      BY <1>1 DEF CopyInv, CalmInv
    <3> QED BY <1>7, <2>1, <3>1
  <2>2. CASE d # c
    BY <1>2, <1>3, <2>2 DEF CopyInv, CalmInv
  <2> QED BY <2>1, <2>2
<1> QED BY <1>4, <1>6, <1>8

(* A pulse changes on which side of its border the player is.              *)
LEMMA PulseKeeps ==
  ASSUME CopyInv, NEW c \in Client, NEW slot \in Slot, Pulse(c, slot)
  PROVE  WordInv' /\ OutInv' /\ CalmInv'
<1> DEFINE copy == copies[c][slot]
           next == [copy EXCEPT !.inside = ~ copy.inside]
<1>1. /\ copy # None /\ TypeOK
      /\ copies' = [copies EXCEPT ![c][slot].inside = ~ copy.inside]
      /\ UNCHANGED <<checkpoints, leftover, phase, chan, told, calm>>
  BY DEF Pulse, serverVars, CopyInv
<1>2. /\ next \in Copy /\ next.serial = copy.serial /\ next.spot = copy.spot
      /\ next.visible = copy.visible
  <2>1. copy \in Copy
    BY <1>1 DEF TypeOK
  <2> HIDE DEF copy
  <2> QED BY <2>1 DEF Copy
<1>3. next # None
  BY <1>2, NullAssumption DEF NullAssumption
<1>4. \A d \in Client, id \in Slot :
        copies'[d][id] = IF d = c /\ id = slot THEN next ELSE copies[d][id]
  BY <1>1 DEF TypeOK
<1> HIDE DEF next
<1>5. \A d \in Client, id \in Slot :
        IF d = c /\ id = slot /\ Own(d, id) # None
        THEN Own(d, id) = copy /\ Own(d, id)' = next
        ELSE Own(d, id)' = Own(d, id)
  BY <1>1, <1>4 DEF Own
<1>6. \A q, id, n, serial, spot, visible :
        /\ Gone(copy, q, id, n) => Gone(next, q, id, n)
        /\ Held(copy, q, id, serial) => Held(next, q, id, serial)
        /\ Placed(copy, q, id, spot) => Placed(next, q, id, spot)
        /\ Shown(copy, q, id, visible) => Shown(next, q, id, visible)
  BY <1>1, <1>2, <1>3 DEF Gone, Held, Placed, Shown, Last
<1>7. WordInv'
  <2> SUFFICES ASSUME NEW d \in Client, NEW id \in Slot
               PROVE  Says(Own(d, id)', chan[d], id, told[d][id],
                           checkpoints[id])
    BY <1>1 DEF WordInv
  <2>1. Says(Own(d, id), chan[d], id, told[d][id], checkpoints[id])
    BY DEF CopyInv, WordInv
  <2>2. CASE Own(d, id)' = Own(d, id)
    BY <2>1, <2>2
  <2>3. CASE Own(d, id) = copy /\ Own(d, id)' = next
    BY <1>6, <2>1, <2>3 DEF Says
  <2> QED BY <1>5, <2>2, <2>3
<1>8. \A d \in Client, id \in Slot : Own(d, id) = None => Own(d, id)' = None
  BY <1>5
<1>9. OutInv'
  BY <1>1, <1>8 DEF CopyInv, OutInv
<1>10. ASSUME calm, NEW d \in Client, NEW id \in Slot
       PROVE  Clean(Own(d, id)', chan[d], id)
  <2>1. Clean(Own(d, id), chan[d], id)
    BY <1>10 DEF CopyInv, CalmInv
  <2>2. CASE Own(d, id)' = Own(d, id)
    BY <2>1, <2>2
  <2>3. CASE Own(d, id) = copy /\ Own(d, id)' = next
    BY <1>6, <2>1, <2>3 DEF Clean
  <2> QED BY <1>5, <2>2, <2>3
<1>11. CalmInv'
  BY <1>1, <1>8, <1>10 DEF CopyInv, CalmInv
<1> QED BY <1>7, <1>9, <1>11

LEMMA InvStep == CopyInv /\ [Next]_vars => CopyInv'
<1> SUFFICES ASSUME CopyInv, [Next]_vars PROVE CopyInv'
  OBVIOUS
<1>1. TypeOK'
  BY TypeStep DEF CopyInv
<1> SUFFICES WordInv' /\ OutInv' /\ CalmInv'
  BY <1>1 DEF CopyInv
<1>2. CASE Script
  BY <1>2, CreateKeeps, DeleteKeeps, MoveKeeps, ShowForAllKeeps,
     ShowForPlayerKeeps DEF Script
<1>3. ASSUME UNCHANGED <<checkpoints, copies, leftover, phase, chan, told, calm>>
      PROVE  WordInv' /\ OutInv' /\ CalmInv'
  BY <1>3 DEF CopyInv, WordInv, OutInv, CalmInv, Own
<1>4. CASE HandleReport
  BY <1>3, <1>4 DEF HandleReport, clientVars
<1>5. ASSUME NEW c \in Client, ClientStep(c)
      PROVE  WordInv' /\ OutInv' /\ CalmInv'
  <2>1. CASE \E spot \in Spot \cup {Away} : Walk(c, spot)
    BY <1>3, <2>1 DEF Walk, serverVars
  <2> QED BY <1>5, <2>1, LinkKeeps, JoinKeeps, DisconnectKeeps, LoseKeeps,
             RestartKeeps, DeliverKeeps, PulseKeeps DEF ClientStep
<1>6. CASE UNCHANGED vars
  BY <1>3, <1>6 DEF vars, serverVars, clientVars
<1> QED BY <1>2, <1>4, <1>5, <1>6 DEF Next

LEMMA InvAlways == Spec => []CopyInv
<1> QED BY InvInit, InvStep, PTL DEF Spec

(* When a client that joined has handled everything, it has the copies it  *)
(* was told of, as the server has them now, and no other that this         *)
(* connection made: the snapshot of DownloadFinished and the broadcasts    *)
(* around it add up in every order, over what former connections left.     *)
THEOREM CopiesFollow == Spec => []CopiesConverge
<1>1. CopyInv => CopiesConverge
  <2> SUFFICES ASSUME CopyInv, NEW c \in Client, chan[c] = <<>>, NEW id \in Slot
               PROVE  IF told[c][id] = "nothing"
                      THEN copies[c][id] # None => id \in leftover[c]
                      ELSE /\ copies[c][id] # None /\ checkpoints[id] # None
                           /\ copies[c][id].serial = checkpoints[id].serial
                           /\ copies[c][id].spot = checkpoints[id].spot
                           /\ copies[c][id].visible = (told[c][id] = "shown")
    BY DEF CopiesConverge
  <2>1. Says(Own(c, id), chan[c], id, told[c][id], checkpoints[id])
    BY DEF CopyInv, WordInv
  <2>2. Len(chan[c]) = 0 /\ \A j \in 0 .. 0 : j = 0
    OBVIOUS
  <2>3. IF told[c][id] = "nothing" THEN Own(c, id) = None
        ELSE /\ Own(c, id) # None /\ checkpoints[id] # None
             /\ Own(c, id).serial = checkpoints[id].serial
             /\ Own(c, id).spot = checkpoints[id].spot
             /\ Own(c, id).visible = (told[c][id] = "shown")
    BY <2>1, <2>2 DEF Says, Gone, Held, Placed, Shown, Last
  <2> QED BY <2>3 DEF Own
<1> QED BY <1>1, InvAlways, PTL

(* In a calm state no CREATE and no snapshot meets a copy in its slot, but *)
(* for one that a former connection left.                                  *)
LEMMA CalmDelivers ==
  ASSUME CopyInv, calm, NEW c \in Client, Deliver(c), NEW id \in Slot,
         Creates(Head(chan[c]), id), copies[c][id] # None
  PROVE  id \in leftover[c]
<1>1. TypeOK /\ chan[c] # <<>> /\ chan[c] \in Seq(Message)
  BY DEF Deliver, CopyInv, TypeOK
<1>2. Applies(Head(chan[c]), id, Own(c, id), Own(c, id)')
  BY <1>1, OwnApplies
<1>3. Clean(Own(c, id), chan[c], id)
  BY DEF CopyInv, CalmInv
<1>4. Own(c, id) = None
  BY <1>1, <1>2, <1>3, CleanShifts
<1> QED BY <1>4 DEF Own

(* A step that leaves a marker without a copy: the end of the connection,  *)
(* or a copy of a former connection replaced, if scripts are calm.         *)
LeavesMarker(c, serial) ==
  \/ phase[c] # "out" /\ phase'[c] = "out"
  \/ \E id \in leftover[c] :
       copies[c][id] # None /\ copies[c][id].serial = serial

LEMMA LeakStep ==
  ASSUME CopyInv, [Next]_vars, calm', NEW c \in Client,
         NEW serial \in leaked'[c] \ leaked[c]
  PROVE  LeavesMarker(c, serial)
<1>1. leaked' # leaked
  OBVIOUS
<1>2. PICK d \in Client : ClientStep(d)
  <2>1. ~ Script
    BY <1>1 DEF Script, Create, DeleteCheckpoint, Move, ShowForAll,
                ShowForPlayer, clientVars
  <2>2. ~ HandleReport /\ ~ UNCHANGED vars
    BY <1>1 DEF HandleReport, vars, clientVars
  <2> QED BY <2>1, <2>2 DEF Next
<1>3. Deliver(d) \/ Restart(d) \/ \E spot \in Spot \cup {Away} : Lose(d, spot)
  BY <1>1, <1>2 DEF ClientStep, Link, Join, Disconnect, Walk, Pulse, clientVars
<1>4. CASE Restart(d)
  <2>1. leaked'[c] \in {leaked[c], {}}
    BY <1>4 DEF Restart, CopyInv, TypeOK
  <2> QED BY <2>1
<1>5. CASE \E spot \in Spot \cup {Away} : Lose(d, spot)
  <2>1. /\ leaked' = [leaked EXCEPT ![d] = @ \cup Marked(d, Slot)]
        /\ phase[d] # "out" /\ phase' = [phase EXCEPT ![d] = "out"]
    BY <1>5 DEF Lose, EndOfConnection
  <2>2. c = d
    BY <2>1 DEF CopyInv, TypeOK
  <2>3. phase'[d] = "out"
    BY <2>1 DEF CopyInv, TypeOK
  <2> QED BY <2>1, <2>2, <2>3 DEF LeavesMarker
<1>6. CASE Deliver(d)
  <2>1. Leaves(d, Head(chan[d])) /\ calm
    BY <1>6, DeliverApplies DEF CopyInv, Deliver
  <2>2. c = d
    BY <2>1 DEF Leaves
  <2>3. PICK id \in Slot : /\ Creates(Head(chan[d]), id) /\ copies[d][id] # None
                           /\ copies[d][id].serial = serial
    BY <2>1, <2>2 DEF Leaves
  <2>4. id \in leftover[d]
    BY <1>6, <2>1, <2>3, CalmDelivers
  <2> QED BY <2>2, <2>3, <2>4 DEF LeavesMarker
<1> QED BY <1>3, <1>4, <1>5, <1>6

(* With scripts that leave checkpoints alone while a client joins, markers *)
(* are left without a copy by a lost connection, and by an RPC for a slot  *)
(* whose copy a former connection left, and in no other way                *)
(* (CNetworkRPC.cpp, CCheckpointEntity.cpp and CGame.cpp of the client).   *)
THEOREM MarkersOwned == Spec => NoMarkerLeaks
<1>1. CopyInv /\ [Next]_vars =>
        [calm' => \A c \in Client : \A serial \in leaked'[c] \ leaked[c] :
           \/ phase[c] # "out" /\ phase'[c] = "out"
           \/ \E id \in leftover[c] :
                copies[c][id] # None /\ copies[c][id].serial = serial]_vars
  BY LeakStep DEF LeavesMarker
<1> QED BY <1>1, InvAlways, PTL DEF Spec, NoMarkerLeaks
=============================================================================
