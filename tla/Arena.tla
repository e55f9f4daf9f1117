------------------------------- MODULE Arena --------------------------------
(***************************************************************************)
(* The arena of a forest (arena/mod.rs): a growing vector of entries, the  *)
(* free ones threaded into a list through the space of their values.       *)
(*                                                                         *)
(* Entries are numbered from 1 (the code's Index plus one).                *)
(***************************************************************************)
EXTENDS Integers, Sequences

CONSTANTS
  Values,    \* T, what an entry holds
  None,      \* Option::None
  MaxItems   \* memory: the most entries the vector can have

ASSUME MaxItemsAssumption == MaxItems \in Nat
ASSUME ArenaNoneAssumption == None \notin Values \cup Nat

VARIABLES
  items,     \* Vec<Entry<T>>
  capacity,  \* the capacity of that vector
  free,      \* head of the free list
  len,       \* counts the inserts
  result     \* what the last operation returned

contents == <<items, free, len>>
vars == <<items, capacity, free, len, result>>

Slots == 1 .. MaxItems
Link == Slots \cup {None}
Occupied(v) == [free |-> FALSE, value |-> v]
FreeEntry(next) == [free |-> TRUE, next |-> next]

IsIndex(i) == i \in 1 .. Len(items)
IsOccupied(i) == IsIndex(i) /\ ~items[i].free
IsFree(i) == IsIndex(i) /\ items[i].free
ValueAt(i) == IF IsOccupied(i) THEN items[i].value ELSE None

(* with_capacity: any capacity, new() is capacity 0.                       *)
Init ==
  /\ items = <<>>
  /\ capacity \in 0 .. MaxItems
  /\ free = None
  /\ len = 0
  /\ result = None

IsFull == free = None /\ Len(items) = capacity

(* reserve: Vec::reserve(1) grows the vector by any amount it likes, at    *)
(* least one.                                                              *)
Grown == Len(items) + 1 .. MaxItems

ShortFreeList == free' = None                         \* faulty: drops the list
UnlinkedHead == free' = items[free].next

(* insert_within_capacity: the most recently freed entry is used first.    *)
Used == IF free # None THEN free ELSE Len(items) + 1
InsertWithinCapacity(v) ==
  IF free # None
  THEN items' = [items EXCEPT ![free] = Occupied(v)] /\ UnlinkedHead
  ELSE items' = Append(items, Occupied(v)) /\ UNCHANGED free

GrownLate ==                                       \* faulty: one entry too late
  capacity' \in IF free = None /\ Len(items) > capacity THEN Grown ELSE {capacity}
GrownIfFull == capacity' \in IF IsFull THEN Grown ELSE {capacity}

(* PortAllocGuard::insert: when the arena is full it grows first.  The     *)
(* guard's locks are the subject of Ports.                                 *)
Insert(v) ==
  /\ GrownIfFull
  /\ InsertWithinCapacity(v)
  /\ len' = len + 1
  /\ result' = <<"insert", v, Used>>

(* remove: the entry becomes the head of the free list.                    *)
Removed(i) ==
  IF IsOccupied(i)
  THEN items' = [items EXCEPT ![i] = FreeEntry(free)] /\ free' = i
  ELSE UNCHANGED <<items, free>>

Remove(i) ==
  /\ Removed(i)
  /\ result' = <<"remove", i, ValueAt(i)>>
  /\ UNCHANGED <<capacity, len>>

(* get_mut, and the assignment through the reference it returns.           *)
WrittenAnyway(i, v) ==                             \* faulty: revives a free entry
  items' = IF IsIndex(i) THEN [items EXCEPT ![i] = Occupied(v)] ELSE items
Written(i, v) ==
  items' = IF IsOccupied(i) THEN [items EXCEPT ![i] = Occupied(v)] ELSE items

Write(i, v) ==
  /\ Written(i, v)
  /\ result' = <<"write", i, IsOccupied(i)>>
  /\ UNCHANGED <<capacity, free, len>>

(* get, contains                                                           *)
Get(i) ==
  /\ result' = <<"get", i, ValueAt(i)>>
  /\ UNCHANGED <<contents, capacity>>

(* get_pair_mut: two references, never to the same entry.                  *)
GetPair(i, j) ==
  /\ result' = <<"pair", i, j, IF i = j THEN <<>> ELSE <<ValueAt(i), ValueAt(j)>> >>
  /\ UNCHANGED <<contents, capacity>>

Next ==
  \/ \E v \in Values : Insert(v)
  \/ \E i \in Slots : Remove(i) \/ Get(i) \/ \E v \in Values : Write(i, v)
  \/ \E i, j \in Slots : GetPair(i, j)

Spec == Init /\ [][Next]_vars

-----------------------------------------------------------------------------
Entry == [free : {FALSE}, value : Values] \cup [free : {TRUE}, next : Link]

(* Every variable has its type; the vector never outgrows its capacity.    *)
TypeOK ==
  /\ items \in Seq(Entry)
  /\ capacity \in 0 .. MaxItems /\ Len(items) <= capacity
  /\ free \in Link
  /\ len \in Nat

(* The entries that follow one another in the free list.                   *)
Follows(i, j) == IsFree(i) /\ items[i].next = j /\ j # None

(* The free list has exactly the free entries, each once: its head and     *)
(* links are free, no entry has two predecessors, the head has none, every *)
(* other free entry has one, and there is no cycle.                        *)
FreeListExact ==
  /\ free # None => IsFree(free)
  /\ \A i, j \in Slots : Follows(i, j) => IsFree(j) /\ j # free
  /\ \A i, j, k \in Slots : Follows(i, k) /\ Follows(j, k) => i = j
  /\ \A j \in Slots : IsFree(j) /\ j # free => \E i \in Slots : Follows(i, j)
  /\ \A S \in SUBSET Slots :
       (S # {} /\ \A i \in S : IsFree(i)) => \E i \in S : items[i].next \notin S

(* The arena is a pool of slots.                                           *)
Held == [i \in Slots |-> ValueAt(i)]
APool == INSTANCE Pool WITH held <- Held
ImplementsPool == APool!Spec
=============================================================================
