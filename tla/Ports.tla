------------------------------- MODULE Ports --------------------------------
(***************************************************************************)
(* The locks of a forest (arena/port.rs).  Every tree is a port: a read    *)
(* or write lock of its own beside the one lock of the arena all trees     *)
(* share.  A thread works on a tree through a guard, which holds both:     *)
(*                                                                         *)
(*    guard            arena        port                                   *)
(*    "read"           shared       shared                                 *)
(*    "write"          shared       exclusive                              *)
(*    "alloc"          upgradable   exclusive                              *)
(*                                                                         *)
(* An alloc guard is upgraded to exclusive access to the arena only while  *)
(* the vector of the arena grows.                                          *)
(*                                                                         *)
(* The RwLock is parking_lot's, modelled from the way it is used here.  A  *)
(* thread that wants exclusive access first takes the writer bit, which    *)
(* keeps everybody else from entering, and then waits until those that     *)
(* share the lock have left.                                               *)
(***************************************************************************)
EXTENDS Integers, Sequences

CONSTANTS
  Threads,
  Depth,     \* the most guards a thread has at a time
  Trees,     \* the ports
  Nested,    \* the guards a thread asks for while it has another
  Borrowed,  \* whether Tree's borrows keep others from a tree that changes
  None,
  MaxItems   \* memory: the most entries the arena can have

Kinds == {"read", "write", "alloc"}

ASSUME BoundsAssumption == Depth \in Nat /\ MaxItems \in Nat
ASSUME NestedAssumption ==
  Nested \subseteq [outer : Kinds, inner : Kinds, sametree : BOOLEAN]
ASSUME BorrowedAssumption == Borrowed \in BOOLEAN
ASSUME PortsNoneAssumption ==
  None \notin Trees \cup Nat \cup Kinds \cup (Threads \X (1 .. Depth))

VARIABLES
  items, capacity, free,  \* the arena; its length counter is never read
  phase,           \* how far each guard is
  kind,            \* which of the three guards it is
  port,            \* the tree it is a guard of
  arenaShared,     \* the arena's lock: guards that share it,
  arenaUpgradable, \*   the one with the upgradable access,
  arenaWriter,     \*   the one with the writer bit
  portShared,      \* the same for each tree's own lock
  portWriter

arena == <<items, capacity, free>>
calls == <<kind, port>>
arenaLock == <<arenaShared, arenaUpgradable, arenaWriter>>
portLocks == <<portShared, portWriter>>
vars == <<arena, phase, calls, arenaLock, portLocks>>

A == INSTANCE Arena WITH Values <- Trees, len <- 0, result <- None

(* A guard is known by its thread and its number among the thread's.       *)
Guards == Threads \X (1 .. Depth)

(* idle      not asked for                                                 *)
(* arena     waits for the arena                                           *)
(* port      has the arena, waits for the port                             *)
(* drain     has the writer bit of the port, waits for its readers         *)
(* held      in use                                                        *)
(* grow      has the writer bit of the arena, waits for its readers        *)
(* insert    has found or made room for an insert                          *)
(* drop      has given the arena back, not yet the port                    *)
Phases == {"idle", "arena", "port", "drain", "held", "grow", "insert", "drop"}

Init ==
  /\ items = <<>> /\ free = None
  /\ capacity \in 0 .. MaxItems
  /\ phase = [g \in Guards |-> "idle"]
  /\ kind = [g \in Guards |-> None]
  /\ port = [g \in Guards |-> None]
  /\ arenaShared = {} /\ arenaUpgradable = None /\ arenaWriter = None
  /\ portShared = [p \in Trees |-> {}]
  /\ portWriter = [p \in Trees |-> None]

(* g's thread is not inside a call on another of its guards.               *)
Others(g) == {h \in Guards : h # g /\ h[1] = g[1]}
Runs(g) == \A h \in Others(g) : phase[h] \in {"idle", "held"}

Goes(g, from, to) ==
  /\ phase[g] = from
  /\ Runs(g)
  /\ phase' = [phase EXCEPT ![g] = to]

(* Tree::write and alloc take &mut self, read &self, and a guard lives as  *)
(* long as the borrow: only a thread with a guard of p asks for another    *)
(* one while p changes, as the end of a ValueMut does.                     *)
MayBorrow(g, k, p) ==
  \A h \in Guards \ {g} :
    phase[h] # "idle" /\ port[h] = p /\ h[1] # g[1] => k = "read" /\ kind[h] = "read"

(* read, write, alloc: a thread asks for a guard.                          *)
Ask(g, k, p) ==
  /\ Goes(g, "idle", "arena")
  /\ Borrowed => MayBorrow(g, k, p)
  /\ \A h \in Others(g) :
       phase[h] = "held" =>
         [outer |-> kind[h], inner |-> k, sametree |-> port[h] = p] \in Nested
  /\ kind' = [kind EXCEPT ![g] = k]
  /\ port' = [port EXCEPT ![g] = p]
  /\ UNCHANGED <<arena, arenaLock, portLocks>>

(* What a guard takes of the arena's lock and of the port's.               *)
ReadForAlloc(g) == FALSE                   \* faulty: alloc() takes a read lock
Upgradable(g) == kind[g] = "alloc"

ReadForWrite(g) == kind[g] = "alloc"       \* faulty: write() takes a read lock
Exclusive(g) == kind[g] # "read"

ShareArena(g) ==
  /\ Goes(g, "arena", "port")
  /\ ~Upgradable(g)
  /\ arenaWriter = None
  /\ arenaShared' = arenaShared \cup {g}
  /\ UNCHANGED <<arena, calls, arenaUpgradable, arenaWriter, portLocks>>

TakeUpgradable(g) ==
  /\ Goes(g, "arena", "port")
  /\ Upgradable(g)
  /\ arenaWriter = None /\ arenaUpgradable = None
  /\ arenaUpgradable' = g
  /\ UNCHANGED <<arena, calls, arenaShared, arenaWriter, portLocks>>

SharePort(g) ==
  /\ Goes(g, "port", "held")
  /\ ~Exclusive(g)
  /\ portWriter[port[g]] = None
  /\ portShared' = [portShared EXCEPT ![port[g]] = @ \cup {g}]
  /\ UNCHANGED <<arena, calls, arenaLock, portWriter>>

ClaimPort(g) ==
  /\ Goes(g, "port", "drain")
  /\ Exclusive(g)
  /\ portWriter[port[g]] = None
  /\ portWriter' = [portWriter EXCEPT ![port[g]] = g]
  /\ UNCHANGED <<arena, calls, arenaLock, portShared>>

OwnPort(g) ==
  /\ Goes(g, "drain", "held")
  /\ portShared[port[g]] = {}
  /\ UNCHANGED <<arena, calls, arenaLock, portLocks>>

Acquire(g) == ShareArena(g) \/ TakeUpgradable(g) \/ SharePort(g) \/ ClaimPort(g) \/ OwnPort(g)

-----------------------------------------------------------------------------
RoomAtEnd == free # None \/ Len(items) <= capacity        \* faulty: off by one
HasRoom == ~A!IsFull

(* PortAllocGuard::insert: there is room already ...                       *)
FindRoom(g) ==
  /\ Goes(g, "held", "insert")
  /\ kind[g] = "alloc"
  /\ HasRoom
  /\ UNCHANGED <<arena, calls, arenaLock, portLocks>>

(* ... or the guard is upgraded,                                           *)
Upgrade(g) ==
  /\ Goes(g, "held", "grow")
  /\ kind[g] = "alloc"
  /\ ~HasRoom /\ A!Grown # {}
  /\ arenaUpgradable' = None
  /\ arenaWriter' = g
  /\ UNCHANGED <<arena, calls, arenaShared, portLocks>>

GrowsInPlace == TRUE                  \* faulty: reserves without with_upgraded
Upgraded == arenaShared = {}

(* alone in the arena it grows the vector, and is upgradable again;        *)
Grow(g) ==
  /\ Goes(g, "grow", "insert")
  /\ Upgraded
  /\ capacity' \in A!Grown
  /\ arenaWriter' = None
  /\ arenaUpgradable' = g
  /\ UNCHANGED <<items, free, calls, arenaShared, portLocks>>

(* the new entry is a node of the guard's tree.                            *)
Insert(g) ==
  /\ Goes(g, "insert", "held")
  /\ A!InsertWithinCapacity(port[g])
  /\ UNCHANGED <<capacity, calls, arenaLock, portLocks>>

(* PortAllocGuard::remove, of a node of the guard's tree.                  *)
Remove(g, i) ==
  /\ Goes(g, "held", "held")
  /\ kind[g] = "alloc"
  /\ A!ValueAt(i) = port[g]
  /\ A!Removed(i)
  /\ UNCHANGED <<capacity, calls, arenaLock, portLocks>>

KeptUpgradable == arenaUpgradable' = arenaUpgradable  \* faulty: never given back
DowngradedLock == arenaUpgradable' = None

(* downgrade: an alloc guard becomes a write guard.                        *)
Downgrade(g) ==
  /\ Goes(g, "held", "held")
  /\ kind[g] = "alloc"
  /\ kind' = [kind EXCEPT ![g] = "write"]
  /\ DowngradedLock
  /\ arenaShared' = arenaShared \cup {g}
  /\ UNCHANGED <<arena, port, arenaWriter, portLocks>>

(* A guard's fields are dropped in their order, the arena's lock first.    *)
DropArena(g) ==
  /\ Goes(g, "held", "drop")
  /\ arenaShared' = arenaShared \ {g}
  /\ arenaUpgradable' = IF kind[g] = "alloc" THEN None ELSE arenaUpgradable
  /\ UNCHANGED <<arena, calls, arenaWriter, portLocks>>

DropPort(g) ==
  /\ Goes(g, "drop", "idle")
  /\ portShared' = [portShared EXCEPT ![port[g]] = @ \ {g}]
  /\ portWriter' = IF ~Exclusive(g) THEN portWriter
                   ELSE [portWriter EXCEPT ![port[g]] = None]
  /\ kind' = [kind EXCEPT ![g] = None]
  /\ port' = [port EXCEPT ![g] = None]
  /\ UNCHANGED <<arena, arenaLock>>

Use(g) ==
  \/ FindRoom(g) \/ Upgrade(g) \/ Grow(g) \/ Insert(g)
  \/ \E i \in A!Slots : Remove(g, i)
  \/ Downgrade(g)

Next ==
  \E g \in Guards :
    \/ \E k \in Kinds, p \in Trees : Ask(g, k, p)
    \/ Acquire(g) \/ Use(g) \/ DropArena(g) \/ DropPort(g)

Spec == Init /\ [][Next]_vars

(* A client drops its guards some time; what it has begun it completes.    *)
(* parking_lot hands a lock over to those that wait for it ("eventual      *)
(* fairness"), so a guard that can often enter does enter.                 *)
Fairness ==
  \A g \in Guards :
    /\ SF_vars(Acquire(g))
    /\ SF_vars(DropArena(g))
    /\ WF_vars(Grow(g) \/ Insert(g) \/ DropPort(g))

FairSpec == Spec /\ Fairness

-----------------------------------------------------------------------------
TypeOK ==
  /\ A!TypeOK
  /\ phase \in [Guards -> Phases]
  /\ kind \in [Guards -> Kinds \cup {None}]
  /\ port \in [Guards -> Trees \cup {None}]
  /\ arenaShared \subseteq Guards
  /\ arenaUpgradable \in Guards \cup {None}
  /\ arenaWriter \in Guards \cup {None}
  /\ portShared \in [Trees -> SUBSET Guards]
  /\ portWriter \in [Trees -> Guards \cup {None}]

(* The guards past the arena's lock, and past their port's.                *)
InArena(g) == phase[g] \in {"port", "drain", "held", "grow", "insert"}
InPort(g) == phase[g] \in {"held", "grow", "insert"}

(* "There can only be one upgradable lock, so this has exclusive access to *)
(* the free list" (port.rs:139).                                           *)
OneAllocator ==
  \A g, h \in Guards :
    InArena(g) /\ InArena(h) /\ kind[g] = "alloc" /\ kind[h] = "alloc" => g = h

(* Nobody else is at work on a tree somebody changes.                      *)
ChangesAlone ==
  \A g, h \in Guards :
    InPort(g) /\ InPort(h) /\ port[g] = port[h] /\ kind[g] # "read" => g = h

(* "Space was reserved in advance" (port.rs:134): whatever others do       *)
(* between the look at the capacity and the insert.                        *)
SpaceReserved == \A g \in Guards : phase[g] = "insert" => ~A!IsFull

(* The vector moves only while no other guard can have a reference into it. *)
GrowsAlone ==
  [][capacity' # capacity =>
       \A g, h \in Guards : InArena(g) /\ InArena(h) => g = h]_vars

(* A guard that is asked for is given, and an insert that must wait for    *)
(* the arena gets it.                                                      *)
Waits(g) == phase[g] \in {"arena", "port", "drain", "grow"}
Granted == \A g \in Guards : Waits(g) ~> phase[g] = "held"

(* "Only access to mutable reference is to port-owned items while owning   *)
(* write lock to port" (port.rs:41, 48): while guards of other trees are   *)
(* in use, the vector's length and the free list's head are not theirs     *)
(* alone to change.                                                        *)
OnlyOwnItemsChange ==
  [][(Len(items') # Len(items) \/ free' # free) =>
       \A g, h \in Guards : InPort(g) /\ InPort(h) => port[g] = port[h]]_vars
=============================================================================
