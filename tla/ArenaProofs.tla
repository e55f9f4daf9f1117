---------------------------- MODULE ArenaProofs -----------------------------
(***************************************************************************)
(* Proofs about Arena: its types, its free list, and that it is a pool.    *)
(*                                                                         *)
(* FreeListExact is inductive together with TypeOK.  Every step that       *)
(* changes items changes one entry, which Sets states once; what the step  *)
(* means for the free list then follows entry by entry.                    *)
(***************************************************************************)
EXTENDS Arena, TLAPS

(* A step sets entry i to e, which may be the first past the end.          *)
Sets(i, e) ==
  /\ i \in Slots
  /\ items'[i] = e
  /\ Len(items') \in Nat
  /\ i \in 1 .. Len(items')
  /\ \A j \in Slots \ {i} :
       /\ IsIndex(j)' <=> IsIndex(j)
       /\ IsIndex(j) => items'[j] = items[j]

(* The step leaves, or makes, the room an insert needs.                    *)
RoomMade ==
  /\ capacity' \in 0 .. MaxItems
  /\ Len(items) <= capacity'
  /\ free = None => Len(items) < capacity'

(* FreeListExact, conjunct by conjunct.                                    *)
HeadFree == free # None => IsFree(free)
LinksFree == \A i, j \in Slots : Follows(i, j) => IsFree(j) /\ j # free
LinksUnique == \A i, j, k \in Slots : Follows(i, k) /\ Follows(j, k) => i = j
AllLinked == \A j \in Slots : IsFree(j) /\ j # free => \E i \in Slots : Follows(i, j)
NoCycle ==
  \A S \in SUBSET Slots :
    (S # {} /\ \A i \in S : IsFree(i)) => \E i \in S : items[i].next \notin S

LEMMA FreeListParts ==
  /\ FreeListExact <=> HeadFree /\ LinksFree /\ LinksUnique /\ AllLinked /\ NoCycle
  /\ FreeListExact' <=> HeadFree' /\ LinksFree' /\ LinksUnique' /\ AllLinked' /\ NoCycle'
BY DEF FreeListExact, HeadFree, LinksFree, LinksUnique, AllLinked, NoCycle

(* What an index in use holds is an entry, and the entry is a slot.        *)
LEMMA EntryTyped ==
  ASSUME TypeOK, NEW i \in 1 .. Len(items)
  PROVE  /\ i \in Slots
         /\ items[i] \in Entry
         /\ items[i].free \in BOOLEAN
         /\ items[i].free => items[i].next \in Link /\ items[i] = FreeEntry(items[i].next)
         /\ ~items[i].free => items[i].value \in Values
<1>1. Len(items) \in Nat /\ Len(items) <= MaxItems
  BY MaxItemsAssumption DEF TypeOK
<1>2. i \in Slots
  BY <1>1, MaxItemsAssumption DEF Slots
<1>3. items[i] \in Entry
  BY DEF TypeOK
<1>4. CASE items[i] \in [free : {FALSE}, value : Values]
  BY <1>2, <1>3, <1>4
<1>5. CASE items[i] \in [free : {TRUE}, next : Link]
  BY <1>2, <1>3, <1>5 DEF FreeEntry
<1> QED BY <1>3, <1>4, <1>5 DEF Entry

LEMMA NewEntries ==
  /\ \A v \in Values : Occupied(v) \in Entry /\ ~Occupied(v).free /\ Occupied(v).value = v
  /\ \A next \in Link : FreeEntry(next) \in Entry /\ FreeEntry(next).free
                        /\ FreeEntry(next).next = next
BY DEF Occupied, FreeEntry, Entry

-----------------------------------------------------------------------------
(* What the two steps that move the free list do to the entries.           *)
LEMMA InsertSets ==
  ASSUME TypeOK, HeadFree, NEW v \in Values, InsertWithinCapacity(v), RoomMade
  PROVE  /\ Sets(Used, Occupied(v))
         /\ items' \in Seq(Entry) /\ Len(items') <= capacity'
         /\ free' = IF free # None THEN items[free].next ELSE None
<1>1. Occupied(v) \in Entry
  BY NewEntries
<1>2. items \in Seq(Entry) /\ capacity \in 0 .. MaxItems /\ Len(items) <= capacity
      /\ Len(items) \in Nat
  BY DEF TypeOK
<1> USE DEF RoomMade
<1>3. CASE free # None
  <2>1. free \in 1 .. Len(items)
    BY <1>3 DEF HeadFree, IsFree, IsIndex
  <2>2. items' = [items EXCEPT ![free] = Occupied(v)]
    BY <1>3 DEF InsertWithinCapacity
  <2>3. items' \in Seq(Entry) /\ Len(items') = Len(items) /\ items'[free] = Occupied(v)
        /\ \A j \in 1 .. Len(items) : j # free => items'[j] = items[j]
    BY <1>1, <1>2, <2>1, <2>2
  <2>4. Sets(free, Occupied(v))
    <3>1. free \in Slots
      BY <1>2, <2>1, MaxItemsAssumption DEF Slots
    <3> QED BY <1>2, <2>1, <2>3, <3>1 DEF Sets, IsIndex
  <2> QED BY <1>3, <2>3, <2>4 DEF Used, InsertWithinCapacity, UnlinkedHead
<1>4. CASE free = None
  <2>1. items' = Append(items, Occupied(v))
    BY <1>4 DEF InsertWithinCapacity
  <2>2. capacity' \in 0 .. MaxItems /\ Len(items) + 1 <= capacity'
    BY <1>2, <1>4, MaxItemsAssumption
  <2>3. items' \in Seq(Entry) /\ Len(items') = Len(items) + 1
        /\ items'[Len(items) + 1] = Occupied(v)
        /\ \A j \in 1 .. Len(items) : items'[j] = items[j]
    BY <1>1, <1>2, <2>1
  <2>4. Sets(Len(items) + 1, Occupied(v))
    <3>1. Len(items) + 1 \in Slots
      BY <1>2, <2>2, MaxItemsAssumption DEF Slots
    <3>2. Len(items) + 1 \in 1 .. Len(items')
      BY <1>2, <2>3
    <3>3. \A j \in Slots \ {Len(items) + 1} :
            j \in 1 .. Len(items') <=> j \in 1 .. Len(items)
      BY <1>2, <2>3 DEF Slots
    <3> QED BY <1>2, <2>3, <3>1, <3>2, <3>3 DEF Sets, IsIndex
  <2>5. Len(items') <= capacity'
    BY <2>2, <2>3
  <2> QED BY <1>4, <2>3, <2>4, <2>5 DEF Used, InsertWithinCapacity
<1> QED BY <1>3, <1>4

LEMMA InsertMakesRoom ==
  ASSUME TypeOK, GrownIfFull PROVE RoomMade
<1>1. capacity \in 0 .. MaxItems /\ Len(items) <= capacity /\ Len(items) \in Nat
  BY DEF TypeOK
<1>2. CASE IsFull
  BY <1>1, <1>2, MaxItemsAssumption DEF RoomMade, GrownIfFull, Grown
<1>3. CASE ~IsFull
  BY <1>1, <1>3 DEF RoomMade, GrownIfFull, IsFull
<1> QED BY <1>2, <1>3

LEMMA RemoveSets ==
  ASSUME TypeOK, NEW i \in Slots, Removed(i), IsOccupied(i)
  PROVE  Sets(i, FreeEntry(free)) /\ items' \in Seq(Entry) /\ Len(items') = Len(items)
         /\ free' = i
<1>1. items \in Seq(Entry) /\ Len(items) \in Nat /\ i \in 1 .. Len(items)
  BY DEF TypeOK, IsOccupied, IsIndex
<1>2. FreeEntry(free) \in Entry
  BY NewEntries DEF TypeOK
<1>3. items' = [items EXCEPT ![i] = FreeEntry(free)] /\ free' = i
  BY DEF Removed
<1>4. items' \in Seq(Entry) /\ Len(items') = Len(items) /\ items'[i] = FreeEntry(free)
      /\ \A j \in 1 .. Len(items) : j # i => items'[j] = items[j]
  BY <1>1, <1>2, <1>3
<1> QED BY <1>1, <1>3, <1>4 DEF Sets, Slots, IsIndex

LEMMA WriteSets ==
  ASSUME TypeOK, NEW i \in Slots, NEW v \in Values, Write(i, v), IsOccupied(i)
  PROVE  Sets(i, Occupied(v)) /\ items' \in Seq(Entry) /\ Len(items') = Len(items)
<1>1. items \in Seq(Entry) /\ Len(items) \in Nat /\ i \in 1 .. Len(items)
  BY DEF TypeOK, IsOccupied, IsIndex
<1>2. items' = [items EXCEPT ![i] = Occupied(v)]
  BY DEF Write, Written
<1>3. items' \in Seq(Entry) /\ Len(items') = Len(items) /\ items'[i] = Occupied(v)
      /\ \A j \in 1 .. Len(items) : j # i => items'[j] = items[j]
  BY <1>1, <1>2, NewEntries
<1> QED BY <1>1, <1>3 DEF Sets, Slots, IsIndex

-----------------------------------------------------------------------------
(* The other entries keep their place in the free list.                    *)
LEMMA OthersKeep ==
  ASSUME NEW i \in Slots, NEW e, Sets(i, e), NEW j \in Slots, j # i
  PROVE  /\ IsFree(j)' <=> IsFree(j)
         /\ IsFree(j) => items'[j].next = items[j].next
         /\ \A k : Follows(j, k)' <=> Follows(j, k)
BY DEF Sets, IsFree, IsIndex, Follows

(* Fewer free entries with the same links still have no cycle.             *)
LEMMA NoCycleShrinks ==
  ASSUME NoCycle, \A j \in Slots : IsFree(j)' => IsFree(j) /\ items'[j].next = items[j].next
  PROVE  NoCycle'
BY DEF NoCycle, Slots

(* Taking the head entry, or one that was not in use, off the free list.   *)
LEMMA TakeKeeps ==
  ASSUME TypeOK, FreeListExact, NEW i \in Slots, NEW v \in Values, Sets(i, Occupied(v)),
         \/ free = i /\ free' = items[i].next
         \/ ~IsFree(i) /\ free' = free
  PROVE  FreeListExact'
<1> USE FreeListParts
<1>1. ~IsFree(i)' /\ \A k : ~Follows(i, k)'
  BY NewEntries DEF Sets, IsFree, Follows
<1>2. \A j \in Slots : IsFree(j)' => IsFree(j) /\ j # i /\ items'[j].next = items[j].next
  BY <1>1, OthersKeep
<1>3. \A j, k \in Slots : Follows(j, k)' <=> Follows(j, k) /\ j # i
  BY <1>1, OthersKeep
<1>4. None \notin Slots /\ i # None
  BY ArenaNoneAssumption, MaxItemsAssumption DEF Slots
<1>5. ASSUME NEW j \in Slots, NEW k \in Slots, Follows(j, k), j # i PROVE k # i
  <2>1. CASE free = i
    BY <1>5, <2>1 DEF LinksFree
  <2>2. CASE ~IsFree(i)
    BY <1>5, <2>2 DEF LinksFree
  <2> QED BY <2>1, <2>2
<1>6. \A j \in Slots : IsFree(j) /\ j # i => IsFree(j)'
  BY OthersKeep
<1>7. CASE free = i /\ free' = items[i].next
  <2>1. IsFree(i) /\ free' \in Link
    BY <1>4, <1>7, EntryTyped DEF HeadFree, IsFree, IsIndex
  <2>2. free' # None => Follows(i, free')
    BY <1>7, <2>1 DEF Follows
  <2>3. HeadFree'
    <3>1. free' # None => free' \in Slots /\ IsFree(free') /\ free' # i
      BY <1>7, <2>1, <2>2 DEF Link, LinksFree
    <3>2. ASSUME NEW j \in Slots, free' = j, IsFree(j), j # i PROVE IsFree(free)'
      BY <1>6, <3>2 DEF IsFree, IsIndex
    <3> QED BY <3>1, <3>2 DEF HeadFree
  <2>4. LinksFree'
    <3> SUFFICES ASSUME NEW j \in Slots, NEW k \in Slots, Follows(j, k)'
                 PROVE  IsFree(k)' /\ k # free'
      BY DEF LinksFree
    <3>1. Follows(j, k) /\ j # i /\ k # i /\ IsFree(k)
      BY <1>3, <1>5 DEF LinksFree
    <3>2. k # None
      BY <1>4
    <3>3. k # free'
      BY <2>2, <3>1, <3>2 DEF LinksUnique
    <3> QED BY <1>6, <3>1, <3>3
  <2>5. AllLinked'
    <3> SUFFICES ASSUME NEW j \in Slots, IsFree(j)', j # free'
                 PROVE  \E a \in Slots : Follows(a, j)'
      BY DEF AllLinked
    <3>1. IsFree(j) /\ j # free
      BY <1>2, <1>7
    <3>2. PICK a \in Slots : Follows(a, j)
      BY <3>1 DEF AllLinked
    <3>3. a # i
      BY <1>7, <3>2 DEF Follows
    <3> QED BY <1>3, <3>2, <3>3
  <2> QED BY <1>2, <1>3, <2>3, <2>4, <2>5, NoCycleShrinks DEF LinksUnique
<1>8. CASE ~IsFree(i) /\ free' = free
  <2>1. free # i
    BY <1>4, <1>8 DEF HeadFree
  <2>2. HeadFree'
    BY <1>6, <1>8, <2>1 DEF HeadFree, IsFree, IsIndex, Link, TypeOK
  <2>3. LinksFree'
    BY <1>3, <1>5, <1>6, <1>8 DEF LinksFree
  <2>4. AllLinked'
    BY <1>2, <1>3, <1>8 DEF AllLinked, Follows
  <2> QED BY <1>2, <1>3, <2>2, <2>3, <2>4, NoCycleShrinks DEF LinksUnique
<1> QED BY <1>7, <1>8

(* Giving an entry back puts it in front of the free list.                 *)
LEMMA GiveKeeps ==
  ASSUME TypeOK, FreeListExact, NEW i \in Slots, ~IsFree(i),
         Sets(i, FreeEntry(free)), free' = i
  PROVE  FreeListExact'
<1> USE FreeListParts
<1>1. None \notin Slots /\ i # None /\ free # i
  BY ArenaNoneAssumption, MaxItemsAssumption DEF Slots, HeadFree
<1>2. IsFree(i)' /\ items'[i].next = free /\ \A k : Follows(i, k)' <=> k = free /\ k # None
  BY NewEntries DEF Sets, IsFree, IsIndex, Follows, TypeOK
<1>3. \A j \in Slots : j # i => /\ IsFree(j)' <=> IsFree(j)
                                /\ IsFree(j) => items'[j].next = items[j].next
                                /\ \A k : Follows(j, k)' <=> Follows(j, k)
  BY OthersKeep
<1>4. \A j, k \in Slots : Follows(j, k) => j # i /\ k # i /\ k # free
  BY DEF LinksFree, Follows
<1>5. HeadFree'
  BY <1>2 DEF HeadFree, IsFree, IsIndex
<1>6. free # None => free \in Slots /\ IsFree(free)
  BY DEF HeadFree, TypeOK, Link
<1>7. LinksFree'
  <2> SUFFICES ASSUME NEW j \in Slots, NEW k \in Slots, Follows(j, k)'
               PROVE  IsFree(k)' /\ k # i
    BY DEF LinksFree
  <2>1. CASE j = i
    BY <1>1, <1>2, <1>3, <1>6, <2>1
  <2>2. CASE j # i
    BY <1>3, <1>4, <2>2 DEF LinksFree
  <2> QED BY <2>1, <2>2
<1>8. LinksUnique'
  <2> SUFFICES ASSUME NEW a \in Slots, NEW b \in Slots, NEW k \in Slots,
                      Follows(a, k)', Follows(b, k)'
               PROVE  a = b
    BY DEF LinksUnique
  <2>1. CASE a # i /\ b # i
    BY <1>3, <2>1 DEF LinksUnique
  <2>2. CASE a = i
    BY <1>2, <1>3, <1>4, <2>2
  <2>3. CASE b = i
    BY <1>2, <1>3, <1>4, <2>3
  <2> QED BY <2>1, <2>2, <2>3
<1>9. AllLinked'
  <2> SUFFICES ASSUME NEW j \in Slots, IsFree(j)', j # i
               PROVE  \E a \in Slots : Follows(a, j)'
    BY DEF AllLinked
  <2>1. CASE j = free
    BY <1>1, <1>2, <2>1
  <2>2. CASE j # free
    <3>1. PICK a \in Slots : Follows(a, j)
      BY <1>3, <2>2 DEF AllLinked
    <3> QED BY <1>3, <1>4, <3>1
  <2> QED BY <2>1, <2>2
<1>10. NoCycle'
  <2> SUFFICES ASSUME NEW S \in SUBSET Slots, S # {}, \A j \in S : IsFree(j)'
               PROVE  \E j \in S : items'[j].next \notin S
    BY DEF NoCycle
  <2>1. CASE S = {i}
    BY <1>1, <1>2, <2>1
  <2>2. CASE S # {i}
    <3> DEFINE R == S \ {i}
    <3>1. R # {} /\ R \in SUBSET Slots /\ \A j \in R : IsFree(j)
      BY <1>3, <2>2
    <3>2. PICK j \in R : items[j].next \notin R
      BY <3>1 DEF NoCycle
    <3>3. items[j].next # i
      BY <1>1, <1>4, <3>1, <3>2 DEF Follows
    <3> QED BY <1>3, <3>1, <3>2, <3>3
  <2> QED BY <2>1, <2>2
<1> QED BY <1>5, <1>7, <1>8, <1>9, <1>10

-----------------------------------------------------------------------------
(* Overwriting a value leaves the free list alone.                         *)
LEMMA OverwriteKeeps ==
  ASSUME TypeOK, FreeListExact, NEW i \in Slots, NEW v \in Values, IsOccupied(i),
         Sets(i, Occupied(v)), free' = free
  PROVE  FreeListExact'
BY TakeKeeps DEF IsOccupied, IsFree

LEMMA UnchangedKeeps ==
  ASSUME TypeOK, FreeListExact, UNCHANGED <<items, free>>
  PROVE  FreeListExact'
BY DEF FreeListExact, Follows, IsFree, IsIndex

-----------------------------------------------------------------------------
Inv == TypeOK /\ FreeListExact

LEMMA InitEstablishes == Init => Inv
<1> SUFFICES ASSUME Init PROVE Inv
  OBVIOUS
<1>1. items = <<>> /\ items \in Seq(Entry) /\ Len(items) = 0
  BY DEF Init
<1>2. TypeOK
  BY <1>1, MaxItemsAssumption DEF Init, TypeOK, Link
<1>3. \A i : ~IsFree(i) /\ \A k : ~Follows(i, k)
  BY <1>1 DEF IsFree, IsIndex, Follows
<1>4. FreeListExact
  BY <1>3 DEF Init, FreeListExact
<1> QED BY <1>2, <1>4 DEF Inv

(* Each operation preserves the invariant.                                 *)
LEMMA PlacePreserves ==
  ASSUME Inv, NEW v \in Values, InsertWithinCapacity(v), RoomMade, len' \in Nat PROVE Inv'
<1> USE DEF Inv
<1>1. HeadFree
  BY FreeListParts
<1>2. /\ Sets(Used, Occupied(v))
      /\ items' \in Seq(Entry) /\ Len(items') <= capacity'
      /\ free' = IF free # None THEN items[free].next ELSE None
  BY <1>1, InsertSets
<1>3. free' \in Link
  BY <1>1, <1>2, EntryTyped DEF HeadFree, IsFree, IsIndex, Link
<1>4. TypeOK'
  BY <1>2, <1>3 DEF TypeOK, RoomMade
<1>5. PICK i \in Slots : i = Used
  BY <1>2 DEF Sets
<1>6. Sets(i, Occupied(v))
  BY <1>2, <1>5 DEF Sets
<1>7. \/ free = i /\ free' = items[i].next
      \/ ~IsFree(i) /\ free' = free
  <2>1. CASE free = None
    BY <1>2, <1>5, <2>1 DEF Used, IsFree, IsIndex, TypeOK
  <2> QED BY <1>2, <1>5, <2>1 DEF Used
<1> QED BY <1>4, <1>6, <1>7, TakeKeeps

LEMMA InsertPreserves ==
  ASSUME Inv, NEW v \in Values, Insert(v) PROVE Inv'
<1>1. len' \in Nat
  BY DEF Inv, TypeOK, Insert
<1> QED BY <1>1, InsertMakesRoom, PlacePreserves DEF Insert, Inv

LEMMA VacatePreserves ==
  ASSUME Inv, NEW i \in Slots, Removed(i), UNCHANGED <<capacity, len>> PROVE Inv'
<1> USE DEF Inv
<1>1. capacity' = capacity /\ len' = len
  OBVIOUS
<1>2. CASE IsOccupied(i)
  <2>1. Sets(i, FreeEntry(free)) /\ items' \in Seq(Entry) /\ Len(items') = Len(items)
        /\ free' = i
    BY <1>2, RemoveSets
  <2>2. TypeOK'
    BY <1>1, <2>1 DEF TypeOK, Link
  <2>3. ~IsFree(i)
    BY <1>2 DEF IsOccupied, IsFree
  <2> QED BY <2>1, <2>2, <2>3, GiveKeeps
<1>3. CASE ~IsOccupied(i)
  <2>1. UNCHANGED <<items, free>>
    BY <1>3 DEF Removed
  <2> QED BY <1>1, <2>1, UnchangedKeeps DEF TypeOK
<1> QED BY <1>2, <1>3

LEMMA RemovePreserves ==
  ASSUME Inv, NEW i \in Slots, Remove(i) PROVE Inv'
BY VacatePreserves DEF Remove

LEMMA WritePreserves ==
  ASSUME Inv, NEW i \in Slots, NEW v \in Values, Write(i, v) PROVE Inv'
<1> USE DEF Inv
<1>1. UNCHANGED <<capacity, free, len>>
  BY DEF Write
<1>2. CASE IsOccupied(i)
  <2>1. Sets(i, Occupied(v)) /\ items' \in Seq(Entry) /\ Len(items') = Len(items)
    BY <1>2, WriteSets
  <2> QED BY <1>1, <1>2, <2>1, OverwriteKeeps DEF TypeOK
<1>3. CASE ~IsOccupied(i)
  <2>1. UNCHANGED items
    BY <1>3 DEF Write, Written
  <2> QED BY <1>1, <2>1, UnchangedKeeps DEF TypeOK
<1> QED BY <1>2, <1>3

LEMMA StutterPreserves ==
  ASSUME Inv, UNCHANGED <<contents, capacity>> PROVE Inv'
BY UnchangedKeeps DEF Inv, contents, TypeOK

LEMMA NextPreserves ==
  ASSUME Inv, [Next]_vars PROVE Inv'
<1>1. CASE \E v \in Values : Insert(v)
  BY <1>1, InsertPreserves
<1>2. CASE \E i \in Slots : Remove(i)
  BY <1>2, RemovePreserves
<1>3. CASE \E i \in Slots : Get(i)
  BY <1>3, StutterPreserves DEF Get
<1>4. CASE \E i \in Slots : \E v \in Values : Write(i, v)
  BY <1>4, WritePreserves
<1>5. CASE \E i, j \in Slots : GetPair(i, j)
  BY <1>5, StutterPreserves DEF GetPair
<1>6. CASE UNCHANGED vars
  BY <1>6, StutterPreserves DEF vars, contents
<1> QED BY <1>1, <1>2, <1>3, <1>4, <1>5, <1>6 DEF Next

(* The variables keep their types and the vector stays within its capacity: *)
(* the room insert_within_capacity counts on is there, however the vector  *)
(* grows.                                                                  *)
THEOREM TypeCorrect == Spec => []TypeOK
<1>1. Inv /\ [Next]_vars => Inv'
  BY NextPreserves
<1> QED BY InitEstablishes, <1>1, PTL DEF Spec, Inv

(* The free list always has exactly the free entries, so that              *)
(* into_head().unwrap() never meets an occupied one and none is lost.      *)
THEOREM FreeListCorrect == Spec => []FreeListExact
<1>1. Inv /\ [Next]_vars => Inv'
  BY NextPreserves
<1> QED BY InitEstablishes, <1>1, PTL DEF Spec, Inv

-----------------------------------------------------------------------------
(* What the pool sees of one changed entry.                                *)
LEMMA HeldChanges ==
  ASSUME TypeOK, NEW i \in Slots, NEW e, Sets(i, e)
  PROVE  Held' = [Held EXCEPT ![i] = IF e.free THEN None ELSE e.value]
<1>1. ValueAt(i)' = IF e.free THEN None ELSE e.value
  BY DEF Sets, ValueAt, IsOccupied, IsIndex
<1>2. \A j \in Slots : j # i => ValueAt(j)' = ValueAt(j)
  BY DEF Sets, ValueAt, IsOccupied, IsIndex
<1> QED BY <1>1, <1>2 DEF Held

LEMMA HeldSame ==
  ASSUME items' = items PROVE Held' = Held
BY DEF Held, ValueAt, IsOccupied, IsIndex

(* A slot has a value exactly when its entry is occupied.                  *)
LEMMA ValueIffOccupied ==
  ASSUME TypeOK, NEW i \in Slots
  PROVE  Held[i] = ValueAt(i) /\ (ValueAt(i) # None <=> IsOccupied(i))
BY EntryTyped, ArenaNoneAssumption DEF Held, ValueAt, IsOccupied, IsIndex

LEMMA InsertRefines ==
  ASSUME Inv, NEW v \in Values, Insert(v) PROVE APool!Insert(v)
<1> USE DEF Inv
<1>1. HeadFree
  BY FreeListParts
<1>2. Sets(Used, Occupied(v)) /\ result' = <<"insert", v, Used>>
  BY <1>1, InsertSets, InsertMakesRoom DEF Insert
<1>3. PICK i \in Slots : i = Used
  BY <1>2 DEF Sets
<1>4. Sets(i, Occupied(v))
  BY <1>2, <1>3 DEF Sets
<1>5. ~IsOccupied(i)
  BY <1>1, <1>3 DEF Used, HeadFree, IsFree, IsOccupied, IsIndex, TypeOK
<1>6. Held[i] = None
  BY <1>5, ValueIffOccupied
<1>7. Held' = [Held EXCEPT ![i] = v]
  BY <1>4, HeldChanges, NewEntries
<1> QED BY <1>2, <1>3, <1>6, <1>7 DEF APool!Insert

LEMMA RemoveRefines ==
  ASSUME Inv, NEW i \in Slots, Remove(i) PROVE APool!Remove(i)
<1> USE DEF Inv
<1>1. result' = <<"remove", i, Held[i]>>
  BY ValueIffOccupied DEF Remove, Removed
<1>2. CASE IsOccupied(i)
  <2>1. Sets(i, FreeEntry(free))
    BY <1>2, RemoveSets DEF Remove
  <2>2. Held' = [Held EXCEPT ![i] = None]
    BY <2>1, HeldChanges, NewEntries DEF TypeOK
  <2> QED BY <1>1, <2>2 DEF APool!Remove
<1>3. CASE ~IsOccupied(i)
  <2>1. Held' = Held
    BY <1>3, HeldSame DEF Remove, Removed
  <2>2. Held[i] = None
    BY <1>3, ValueIffOccupied
  <2>3. Held' = [Held EXCEPT ![i] = None]
    BY <2>1, <2>2 DEF Held
  <2> QED BY <1>1, <2>3 DEF APool!Remove
<1> QED BY <1>2, <1>3

LEMMA WriteRefines ==
  ASSUME Inv, NEW i \in Slots, NEW v \in Values, Write(i, v) PROVE APool!Write(i, v)
<1> USE DEF Inv
<1>1. Held[i] # None <=> IsOccupied(i)
  BY ValueIffOccupied
<1>2. result' = <<"write", i, Held[i] # None>>
  <2>1. result' = <<"write", i, IsOccupied(i)>>
    BY DEF Write
  <2>2. CASE IsOccupied(i)
    <3>1. IsOccupied(i) = TRUE /\ (Held[i] # None) = TRUE
      BY <1>1, <2>2 DEF IsOccupied, IsIndex
    <3> QED BY <2>1, <3>1, Zenon
  <2>3. CASE ~IsOccupied(i)
    <3>1. IsOccupied(i) = FALSE /\ (Held[i] # None) = FALSE
      BY <1>1, <2>3 DEF IsOccupied, IsIndex
    <3> QED BY <2>1, <3>1, Zenon
  <2> QED BY <2>2, <2>3
<1>3. CASE IsOccupied(i)
  <2>1. Held' = [Held EXCEPT ![i] = v]
    BY <1>3, WriteSets, HeldChanges, NewEntries
  <2> QED BY <1>1, <1>2, <1>3, <2>1 DEF APool!Write
<1>4. CASE ~IsOccupied(i)
  <2>1. Held' = Held
    BY <1>4, HeldSame DEF Write, Written
  <2> QED BY <1>1, <1>2, <1>4, <2>1 DEF APool!Write
<1> QED BY <1>3, <1>4

LEMMA ReadsRefine ==
  ASSUME Inv, NEW i \in Slots, NEW j \in Slots
  PROVE  /\ Get(i) => APool!Get(i)
         /\ GetPair(i, j) => APool!GetPair(i, j)
<1>1. Held[i] = ValueAt(i) /\ Held[j] = ValueAt(j)
  BY DEF Held
<1>2. ASSUME Get(i) PROVE APool!Get(i)
  BY <1>1, <1>2, HeldSame DEF Get, contents, APool!Get
<1>3. ASSUME GetPair(i, j) PROVE APool!GetPair(i, j)
  BY <1>1, <1>3, HeldSame DEF GetPair, contents, APool!GetPair
<1> QED BY <1>2, <1>3

LEMMA NextRefines ==
  ASSUME Inv, [Next]_vars PROVE [APool!Next]_APool!vars
<1>1. CASE \E v \in Values : Insert(v)
  BY <1>1, InsertRefines DEF APool!Next
<1>2. CASE \E i \in Slots : Remove(i)
  BY <1>2, RemoveRefines DEF APool!Next
<1>3. CASE \E i \in Slots : Get(i)
  BY <1>3, ReadsRefine DEF APool!Next
<1>4. CASE \E i \in Slots : \E v \in Values : Write(i, v)
  BY <1>4, WriteRefines DEF APool!Next
<1>5. CASE \E i, j \in Slots : GetPair(i, j)
  BY <1>5, ReadsRefine DEF APool!Next
<1>6. CASE UNCHANGED vars
  BY <1>6, HeldSame DEF vars, APool!vars
<1> QED BY <1>1, <1>2, <1>3, <1>4, <1>5, <1>6 DEF Next

(* The arena is a pool: a slot keeps its value until it is removed, and is *)
(* not handed out again before.                                            *)
THEOREM ArenaIsPool == Spec => ImplementsPool
<1>1. Init => APool!Init
  BY DEF Init, APool!Init, Held, ValueAt, IsOccupied, IsIndex
<1>2. Inv /\ [Next]_vars => [APool!Next]_APool!vars
  BY NextRefines
<1>3. Inv /\ [Next]_vars => Inv'
  BY NextPreserves
<1> QED BY <1>1, <1>2, <1>3, InitEstablishes, PTL DEF Spec, ImplementsPool, APool!Spec
=============================================================================
