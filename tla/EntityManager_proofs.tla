------------------------- MODULE EntityManager_proofs -------------------------
(***************************************************************************)
(* Facts about the entity table, for a table of any length and whatever it *)
(* holds: what FindFreeSlot returns, and what Put and Delete leave alone.  *)
(***************************************************************************)
EXTENDS EntityManager, WellFoundedInduction, TLAPS

(* A nonempty set of natural numbers has a least element.                  *)
LEMMA LeastNatural ==
  ASSUME NEW S \in SUBSET Nat, S # {}
  PROVE  \E least \in S : \A n \in S : least <= n
<1> DEFINE R == OpToRel(<, Nat)
<1>1. IsWellFoundedOn(R, Nat)
  BY NatLessThanWellFounded
<1>2. \A x, y \in Nat : y < x => <<y, x>> \in R
  BY DEF OpToRel
<1> HIDE DEF R
<1>3. PICK least \in S : \A n \in S : ~ (<<n, least>> \in R)
  BY <1>1, WFMin
<1>4. ASSUME NEW n \in S PROVE least <= n
  <2>1. n \in Nat /\ least \in Nat
    OBVIOUS
  <2>2. ~ (n < least)
    BY <2>1, <1>2, <1>3
  <2> QED BY <2>1, <2>2
<1> QED BY <1>4

(* A table that is not full has a first free slot, and only one.           *)
LEMMA FirstFreeExists ==
  ASSUME MaxEntities \in Nat, NEW table,
         \E id \in Slot : table[id] = NoEntity
  PROVE  \E id \in Slot : IsFirstFree(table, id)
<1> DEFINE Free == {id \in Slot : table[id] = NoEntity}
<1>1. Free \in SUBSET Nat /\ Free # {} /\ Slot \subseteq Nat
  BY DEF Slot
<1>2. PICK least \in Free : \A id \in Free : least <= id
  BY <1>1, LeastNatural
<1>3. ASSUME NEW lower \in Slot, lower < least
      PROVE  table[lower] # NoEntity
  <2>1. lower \in Nat /\ least \in Nat
    BY <1>1
  <2>2. lower \notin Free
    BY <2>1, <1>2, <1>3
  <2> QED BY <2>2
<1>4. least \in Slot /\ table[least] = NoEntity
  OBVIOUS
<1> QED BY <1>3, <1>4 DEF IsFirstFree

(* FindFreeSlot (CEntityManager.h) returns the lowest free slot, or        *)
(* INVALID_ENTITY_ID when every slot is taken: no id in between, and none  *)
(* that is in use.                                                         *)
THEOREM FindFreeSlotIsFirstFree ==
  ASSUME MaxEntities \in Nat, NEW table
  PROVE  \/ /\ FindFreeSlot(table) \in Slot
            /\ IsFirstFree(table, FindFreeSlot(table))
         \/ /\ \A id \in Slot : table[id] # NoEntity
            /\ FindFreeSlot(table) = INVALID_ENTITY_ID
<1>1. CASE \E id \in Slot : table[id] = NoEntity
  <2>1. \E id \in Slot : IsFirstFree(table, id)
    BY <1>1, FirstFreeExists
  <2>2. FindFreeSlot(table) = CHOOSE id \in Slot : IsFirstFree(table, id)
    BY <1>1 DEF FindFreeSlot
  <2> QED BY <2>1, <2>2
<1>2. CASE \A id \in Slot : table[id] # NoEntity
  BY <1>2 DEF FindFreeSlot
<1> QED BY <1>1, <1>2

(* Put and Delete change one slot.                                         *)
LEMMA PutAndDelete ==
  ASSUME NEW Entity, NEW table \in [Slot -> Entity \cup {NoEntity}],
         NEW id \in Slot, NEW entity \in Entity
  PROVE  /\ Put(table, id, entity) \in [Slot -> Entity \cup {NoEntity}]
         /\ Delete(table, id) \in [Slot -> Entity \cup {NoEntity}]
         /\ Put(table, id, entity)[id] = entity
         /\ Delete(table, id)[id] = NoEntity
         /\ \A s \in Slot \ {id} : /\ Put(table, id, entity)[s] = table[s]
                                   /\ Delete(table, id)[s] = table[s]
BY DEF Put, Delete
=============================================================================
