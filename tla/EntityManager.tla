--------------------------- MODULE EntityManager ---------------------------
(***************************************************************************)
(* The fixed table of entities every manager of the server and of the      *)
(* client is an instance of (CEntityManager.h, the same template on both   *)
(* sides).  An EntityId is an index into the table; a null pointer is      *)
(* NoEntity.  The operators take the table as an argument: the modules     *)
(* that own a table say when an operation runs.                            *)
(***************************************************************************)
EXTENDS Naturals, FiniteSets

CONSTANTS
  MaxEntities,   \* the template argument max, the length of the array
  NoEntity       \* a null pointer

(* An EntityId is 16 bits wide; a table has fewer slots than that.         *)
INVALID_ENTITY_ID == 65535

Slot == 0 .. MaxEntities - 1

EmptyTable == [id \in Slot |-> NoEntity]

(* GetCount counts the entities, wherever their slots are.                 *)
GetCount(table) == Cardinality({id \in Slot : table[id] # NoEntity})

Exists(table, id) == id \in Slot /\ table[id] # NoEntity

Occupied(table) == {id \in Slot : table[id] # NoEntity}

(* FindFreeSlot and Add without an id scan upwards for the first null.     *)
IsFirstFree(table, id) ==
  /\ id \in Slot
  /\ table[id] = NoEntity
  /\ \A lower \in Slot : lower < id => table[lower] # NoEntity

(* A mutant: the slot after the last, as if no entity ever left.           *)
FindFreeSlotAfterLast(table) ==
  IF GetCount(table) < MaxEntities THEN GetCount(table) ELSE INVALID_ENTITY_ID

(* A mutant: the scan runs downwards.                                      *)
FindFreeSlotFromTop(table) ==
  IF \E id \in Slot : table[id] = NoEntity
  THEN CHOOSE id \in Slot :
         /\ table[id] = NoEntity
         /\ \A upper \in Slot : id < upper => table[upper] # NoEntity
  ELSE INVALID_ENTITY_ID

FindFreeSlot(table) ==
  IF \E id \in Slot : table[id] = NoEntity
  THEN CHOOSE id \in Slot : IsFirstFree(table, id)
  ELSE INVALID_ENTITY_ID

(* Add(id, p), Set(id, p) and Delete(id) index the array without a check  *)
(* in a build where max is not a macro: an id that is no slot writes past  *)
(* the array, which the callers below must rule out.                       *)
Put(table, id, entity) == [table EXCEPT ![id] = entity]

Delete(table, id) == [table EXCEPT ![id] = NoEntity]
=============================================================================
