---------------------------- MODULE PortsProofs -----------------------------
(***************************************************************************)
(* Proofs about Ports: whatever guards any number of threads nest, one     *)
(* allocator is in the arena at a time, a tree is changed by one guard at  *)
(* a time and the vector grows with nobody else in the arena.              *)
(*                                                                         *)
(* The locks know nothing of phases.  The strengthening is that they match *)
(* the guards' phases (LocksMatch); the properties read off from it.       *)
(***************************************************************************)
EXTENDS Ports, TLAPS

GuardTypes ==
  /\ phase \in [Guards -> Phases]
  /\ kind \in [Guards -> Kinds \cup {None}]
  /\ port \in [Guards -> Trees \cup {None}]
  /\ arenaShared \subseteq Guards
  /\ arenaUpgradable \in Guards \cup {None}
  /\ arenaWriter \in Guards \cup {None}
  /\ portShared \in [Trees -> SUBSET Guards]
  /\ portWriter \in [Trees -> Guards \cup {None}]

(* A guard that was asked for is of a kind and of a tree, only an alloc    *)
(* guard inserts, and a read guard waits for no readers.                   *)
Asked(g) ==
  /\ phase[g] # "idle" => kind[g] \in Kinds /\ port[g] \in Trees
  /\ phase[g] \in {"grow", "insert"} => kind[g] = "alloc"
  /\ phase[g] = "drain" => kind[g] # "read"

(* What each lock knows of a guard.                                        *)
ArenaMatches(g) ==
  /\ g \in arenaShared <=> InArena(g) /\ kind[g] # "alloc"
  /\ arenaUpgradable = g <=> InArena(g) /\ kind[g] = "alloc" /\ phase[g] # "grow"
  /\ arenaWriter = g <=> phase[g] = "grow"

PortMatches(g, p) ==
  /\ g \in portShared[p] <=>
       phase[g] \in {"held", "drop"} /\ kind[g] = "read" /\ port[g] = p
  /\ portWriter[p] = g <=>
       /\ phase[g] \in {"drain", "held", "grow", "insert", "drop"}
       /\ kind[g] # "read" /\ port[g] = p
  /\ portWriter[p] = g /\ phase[g] # "drain" => portShared[p] = {}

OneUpgrade == arenaWriter # None => arenaUpgradable = None

LocksMatch ==
  /\ \A g \in Guards : Asked(g) /\ ArenaMatches(g) /\ \A p \in Trees : PortMatches(g, p)
  /\ OneUpgrade

LockInv == GuardTypes /\ LocksMatch

-----------------------------------------------------------------------------
LEMMA NoneIsNothing ==
  None \notin Guards /\ None \notin Trees /\ None \notin Kinds
BY PortsNoneAssumption DEF Guards

LEMMA LockInit == Init => LockInv
<1> SUFFICES ASSUME Init PROVE LockInv
  OBVIOUS
<1>1. GuardTypes
  BY DEF Init, GuardTypes, Phases
<1>2. LocksMatch
  BY NoneIsNothing DEF Init, LocksMatch, Asked, ArenaMatches, PortMatches, OneUpgrade, InArena
<1> QED BY <1>1, <1>2 DEF LockInv

(* A step of g moves g alone.                                              *)
LEMMA StepMoves ==
  ASSUME GuardTypes, NEW g \in Guards, NEW from, NEW to \in Phases, Goes(g, from, to)
  PROVE  /\ phase' \in [Guards -> Phases]
         /\ phase[g] = from /\ phase'[g] = to
         /\ \A h \in Guards : h # g => phase'[h] = phase[h]
BY DEF GuardTypes, Goes

LEMMA AskLocks ==
  ASSUME LockInv, NEW g \in Guards, NEW k \in Kinds, NEW p \in Trees, Ask(g, k, p)
  PROVE  LockInv'
<1> USE DEF LockInv
<1>1. /\ phase' \in [Guards -> Phases]
      /\ phase[g] = "idle" /\ phase'[g] = "arena"
      /\ \A h \in Guards : h # g => phase'[h] = phase[h]
  BY StepMoves DEF Ask, Phases
<1>2. /\ kind' = [kind EXCEPT ![g] = k] /\ port' = [port EXCEPT ![g] = p]
      /\ UNCHANGED <<arenaShared, arenaUpgradable, arenaWriter, portShared, portWriter>>
  BY DEF Ask, arenaLock, portLocks
<1>3. GuardTypes'
  BY <1>1, <1>2 DEF GuardTypes
<1>4. ASSUME NEW h \in Guards PROVE Asked(h)' /\ ArenaMatches(h)'
  BY <1>1, <1>2 DEF GuardTypes, LocksMatch, Asked, ArenaMatches, InArena
<1>5. ASSUME NEW h \in Guards, NEW q \in Trees PROVE PortMatches(h, q)'
  BY <1>1, <1>2 DEF GuardTypes, LocksMatch, PortMatches
<1> QED BY <1>2, <1>3, <1>4, <1>5 DEF LocksMatch, OneUpgrade

LEMMA ShareArenaLocks ==
  ASSUME LockInv, NEW g \in Guards, ShareArena(g) PROVE LockInv'
<1> USE DEF LockInv
<1>1. /\ phase' \in [Guards -> Phases]
      /\ phase[g] = "arena" /\ phase'[g] = "port"
      /\ \A h \in Guards : h # g => phase'[h] = phase[h]
  BY StepMoves DEF ShareArena, Phases
<1>2. /\ kind[g] # "alloc"
      /\ arenaShared' = arenaShared \cup {g}
      /\ UNCHANGED <<kind, port, arenaUpgradable, arenaWriter, portShared, portWriter>>
  BY DEF ShareArena, Upgradable, calls, portLocks
<1>3. GuardTypes'
  BY <1>1, <1>2 DEF GuardTypes
<1>4. ASSUME NEW h \in Guards PROVE Asked(h)' /\ ArenaMatches(h)'
  BY <1>1, <1>2 DEF GuardTypes, LocksMatch, Asked, ArenaMatches, InArena
<1>5. ASSUME NEW h \in Guards, NEW q \in Trees PROVE PortMatches(h, q)'
  BY <1>1, <1>2 DEF GuardTypes, LocksMatch, PortMatches
<1> QED BY <1>2, <1>3, <1>4, <1>5 DEF LocksMatch, OneUpgrade

LEMMA TakeUpgradableLocks ==
  ASSUME LockInv, NEW g \in Guards, TakeUpgradable(g) PROVE LockInv'
<1> USE DEF LockInv
<1>1. /\ phase' \in [Guards -> Phases]
      /\ phase[g] = "arena" /\ phase'[g] = "port"
      /\ \A h \in Guards : h # g => phase'[h] = phase[h]
  BY StepMoves DEF TakeUpgradable, Phases
<1>2. /\ kind[g] = "alloc" /\ arenaWriter = None /\ arenaUpgradable = None
      /\ arenaUpgradable' = g
      /\ UNCHANGED <<kind, port, arenaShared, arenaWriter, portShared, portWriter>>
  BY DEF TakeUpgradable, Upgradable, calls, portLocks
<1>3. GuardTypes'
  BY <1>1, <1>2, NoneIsNothing DEF GuardTypes, LocksMatch, Asked
<1>4. ASSUME NEW h \in Guards PROVE Asked(h)' /\ ArenaMatches(h)'
  BY <1>1, <1>2, NoneIsNothing DEF GuardTypes, LocksMatch, Asked, ArenaMatches, InArena, OneUpgrade
<1>5. ASSUME NEW h \in Guards, NEW q \in Trees PROVE PortMatches(h, q)'
  BY <1>1, <1>2, NoneIsNothing DEF GuardTypes, LocksMatch, Asked, PortMatches
<1>6. OneUpgrade'
  BY <1>1, <1>2, NoneIsNothing DEF LocksMatch, ArenaMatches, InArena, OneUpgrade
<1> QED BY <1>3, <1>4, <1>5, <1>6 DEF LocksMatch

LEMMA SharePortLocks ==
  ASSUME LockInv, NEW g \in Guards, SharePort(g) PROVE LockInv'
<1> USE DEF LockInv
<1>1. /\ phase' \in [Guards -> Phases]
      /\ phase[g] = "port" /\ phase'[g] = "held"
      /\ \A h \in Guards : h # g => phase'[h] = phase[h]
  BY StepMoves DEF SharePort, Phases
<1>2. /\ kind[g] = "read" /\ portWriter[port[g]] = None
      /\ portShared' = [portShared EXCEPT ![port[g]] = @ \cup {g}]
      /\ UNCHANGED <<kind, port, arenaShared, arenaUpgradable, arenaWriter, portWriter>>
  BY DEF SharePort, Exclusive, calls, arenaLock
<1>3. GuardTypes'
  BY <1>1, <1>2, NoneIsNothing DEF GuardTypes, LocksMatch, Asked
<1>4. ASSUME NEW h \in Guards PROVE Asked(h)' /\ ArenaMatches(h)'
  BY <1>1, <1>2, NoneIsNothing DEF GuardTypes, LocksMatch, Asked, ArenaMatches, InArena, OneUpgrade
<1>5. ASSUME NEW h \in Guards, NEW q \in Trees PROVE PortMatches(h, q)'
  BY <1>1, <1>2, NoneIsNothing DEF GuardTypes, LocksMatch, Asked, PortMatches
<1>6. OneUpgrade'
  BY <1>1, <1>2, NoneIsNothing DEF LocksMatch, ArenaMatches, InArena, OneUpgrade
<1> QED BY <1>3, <1>4, <1>5, <1>6 DEF LocksMatch

LEMMA ClaimPortLocks ==
  ASSUME LockInv, NEW g \in Guards, ClaimPort(g) PROVE LockInv'
<1> USE DEF LockInv
<1>1. /\ phase' \in [Guards -> Phases]
      /\ phase[g] = "port" /\ phase'[g] = "drain"
      /\ \A h \in Guards : h # g => phase'[h] = phase[h]
  BY StepMoves DEF ClaimPort, Phases
<1>2. /\ kind[g] # "read" /\ portWriter[port[g]] = None
      /\ portWriter' = [portWriter EXCEPT ![port[g]] = g]
      /\ UNCHANGED <<kind, port, arenaShared, arenaUpgradable, arenaWriter, portShared>>
  BY DEF ClaimPort, Exclusive, calls, arenaLock
<1>3. GuardTypes'
  BY <1>1, <1>2, NoneIsNothing DEF GuardTypes, LocksMatch, Asked
<1>4. ASSUME NEW h \in Guards PROVE Asked(h)' /\ ArenaMatches(h)'
  BY <1>1, <1>2, NoneIsNothing DEF GuardTypes, LocksMatch, Asked, ArenaMatches, InArena, OneUpgrade
<1>5. ASSUME NEW h \in Guards, NEW q \in Trees PROVE PortMatches(h, q)'
  BY <1>1, <1>2, NoneIsNothing DEF GuardTypes, LocksMatch, Asked, PortMatches
<1>6. OneUpgrade'
  BY <1>1, <1>2, NoneIsNothing DEF LocksMatch, ArenaMatches, InArena, OneUpgrade
<1> QED BY <1>3, <1>4, <1>5, <1>6 DEF LocksMatch

LEMMA OwnPortLocks ==
  ASSUME LockInv, NEW g \in Guards, OwnPort(g) PROVE LockInv'
<1> USE DEF LockInv
<1>1. /\ phase' \in [Guards -> Phases]
      /\ phase[g] = "drain" /\ phase'[g] = "held"
      /\ \A h \in Guards : h # g => phase'[h] = phase[h]
  BY StepMoves DEF OwnPort, Phases
<1>2. /\ portShared[port[g]] = {}
      /\ UNCHANGED <<kind, port, arenaShared, arenaUpgradable, arenaWriter, portShared, portWriter>>
  BY DEF OwnPort, calls, arenaLock, portLocks
<1>3. GuardTypes'
  BY <1>1, <1>2, NoneIsNothing DEF GuardTypes, LocksMatch, Asked
<1>4. ASSUME NEW h \in Guards PROVE Asked(h)' /\ ArenaMatches(h)'
  BY <1>1, <1>2, NoneIsNothing DEF GuardTypes, LocksMatch, Asked, ArenaMatches, InArena, OneUpgrade
<1>5. ASSUME NEW h \in Guards, NEW q \in Trees PROVE PortMatches(h, q)'
  BY <1>1, <1>2, NoneIsNothing DEF GuardTypes, LocksMatch, Asked, PortMatches
<1>6. OneUpgrade'
  BY <1>1, <1>2, NoneIsNothing DEF LocksMatch, ArenaMatches, InArena, OneUpgrade
<1> QED BY <1>3, <1>4, <1>5, <1>6 DEF LocksMatch

LEMMA FindRoomLocks ==
  ASSUME LockInv, NEW g \in Guards, FindRoom(g) PROVE LockInv'
<1> USE DEF LockInv
<1>1. /\ phase' \in [Guards -> Phases]
      /\ phase[g] = "held" /\ phase'[g] = "insert"
      /\ \A h \in Guards : h # g => phase'[h] = phase[h]
  BY StepMoves DEF FindRoom, Phases
<1>2. /\ kind[g] = "alloc"
      /\ UNCHANGED <<kind, port, arenaShared, arenaUpgradable, arenaWriter, portShared, portWriter>>
  BY DEF FindRoom, calls, arenaLock, portLocks
<1>3. GuardTypes'
  BY <1>1, <1>2, NoneIsNothing DEF GuardTypes, LocksMatch, Asked
<1>4. ASSUME NEW h \in Guards PROVE Asked(h)' /\ ArenaMatches(h)'
  BY <1>1, <1>2, NoneIsNothing DEF GuardTypes, LocksMatch, Asked, ArenaMatches, InArena, OneUpgrade
<1>5. ASSUME NEW h \in Guards, NEW q \in Trees PROVE PortMatches(h, q)'
  BY <1>1, <1>2, NoneIsNothing DEF GuardTypes, LocksMatch, Asked, PortMatches
<1>6. OneUpgrade'
  BY <1>1, <1>2, NoneIsNothing DEF LocksMatch, ArenaMatches, InArena, OneUpgrade
<1> QED BY <1>3, <1>4, <1>5, <1>6 DEF LocksMatch

LEMMA UpgradeLocks ==
  ASSUME LockInv, NEW g \in Guards, Upgrade(g) PROVE LockInv'
<1> USE DEF LockInv
<1>1. /\ phase' \in [Guards -> Phases]
      /\ phase[g] = "held" /\ phase'[g] = "grow"
      /\ \A h \in Guards : h # g => phase'[h] = phase[h]
  BY StepMoves DEF Upgrade, Phases
<1>2. /\ kind[g] = "alloc"
      /\ arenaUpgradable' = None /\ arenaWriter' = g
      /\ UNCHANGED <<kind, port, arenaShared, portShared, portWriter>>
  BY DEF Upgrade, calls, portLocks
<1>3. GuardTypes'
  BY <1>1, <1>2, NoneIsNothing DEF GuardTypes, LocksMatch, Asked
<1>4. ASSUME NEW h \in Guards PROVE Asked(h)' /\ ArenaMatches(h)'
  BY <1>1, <1>2, NoneIsNothing DEF GuardTypes, LocksMatch, Asked, ArenaMatches, InArena, OneUpgrade
<1>5. ASSUME NEW h \in Guards, NEW q \in Trees PROVE PortMatches(h, q)'
  BY <1>1, <1>2, NoneIsNothing DEF GuardTypes, LocksMatch, Asked, PortMatches
<1>6. OneUpgrade'
  BY <1>1, <1>2, NoneIsNothing DEF LocksMatch, ArenaMatches, InArena, OneUpgrade
<1> QED BY <1>3, <1>4, <1>5, <1>6 DEF LocksMatch

LEMMA GrowLocks ==
  ASSUME LockInv, NEW g \in Guards, Grow(g) PROVE LockInv'
<1> USE DEF LockInv
<1>1. /\ phase' \in [Guards -> Phases]
      /\ phase[g] = "grow" /\ phase'[g] = "insert"
      /\ \A h \in Guards : h # g => phase'[h] = phase[h]
  BY StepMoves DEF Grow, Phases
<1>2. /\ arenaUpgradable' = g /\ arenaWriter' = None
      /\ UNCHANGED <<kind, port, arenaShared, portShared, portWriter>>
  BY DEF Grow, calls, portLocks
<1>3. GuardTypes'
  BY <1>1, <1>2, NoneIsNothing DEF GuardTypes, LocksMatch, Asked
<1>4. ASSUME NEW h \in Guards PROVE Asked(h)' /\ ArenaMatches(h)'
  BY <1>1, <1>2, NoneIsNothing DEF GuardTypes, LocksMatch, Asked, ArenaMatches, InArena, OneUpgrade
<1>5. ASSUME NEW h \in Guards, NEW q \in Trees PROVE PortMatches(h, q)'
  BY <1>1, <1>2, NoneIsNothing DEF GuardTypes, LocksMatch, Asked, PortMatches
<1>6. OneUpgrade'
  BY <1>1, <1>2, NoneIsNothing DEF LocksMatch, ArenaMatches, InArena, OneUpgrade
<1> QED BY <1>3, <1>4, <1>5, <1>6 DEF LocksMatch

LEMMA InsertLocks ==
  ASSUME LockInv, NEW g \in Guards, Insert(g) PROVE LockInv'
<1> USE DEF LockInv
<1>1. /\ phase' \in [Guards -> Phases]
      /\ phase[g] = "insert" /\ phase'[g] = "held"
      /\ \A h \in Guards : h # g => phase'[h] = phase[h]
  BY StepMoves DEF Insert, Phases
<1>2. UNCHANGED <<kind, port, arenaShared, arenaUpgradable, arenaWriter, portShared, portWriter>>
  BY DEF Insert, calls, arenaLock, portLocks
<1>3. GuardTypes'
  BY <1>1, <1>2, NoneIsNothing DEF GuardTypes, LocksMatch, Asked
<1>4. ASSUME NEW h \in Guards PROVE Asked(h)' /\ ArenaMatches(h)'
  BY <1>1, <1>2, NoneIsNothing DEF GuardTypes, LocksMatch, Asked, ArenaMatches, InArena, OneUpgrade
<1>5. ASSUME NEW h \in Guards, NEW q \in Trees PROVE PortMatches(h, q)'
  BY <1>1, <1>2, NoneIsNothing DEF GuardTypes, LocksMatch, Asked, PortMatches
<1>6. OneUpgrade'
  BY <1>1, <1>2, NoneIsNothing DEF LocksMatch, ArenaMatches, InArena, OneUpgrade
<1> QED BY <1>3, <1>4, <1>5, <1>6 DEF LocksMatch

LEMMA RemoveLocks ==
  ASSUME LockInv, NEW g \in Guards, NEW i \in A!Slots, Remove(g, i) PROVE LockInv'
<1> USE DEF LockInv
<1>1. /\ phase' \in [Guards -> Phases]
      /\ phase[g] = "held" /\ phase'[g] = "held"
      /\ \A h \in Guards : h # g => phase'[h] = phase[h]
  BY StepMoves DEF Remove, Phases
<1>2. UNCHANGED <<kind, port, arenaShared, arenaUpgradable, arenaWriter, portShared, portWriter>>
  BY DEF Remove, calls, arenaLock, portLocks
<1>3. GuardTypes'
  BY <1>1, <1>2, NoneIsNothing DEF GuardTypes, LocksMatch, Asked
<1>4. ASSUME NEW h \in Guards PROVE Asked(h)' /\ ArenaMatches(h)'
  BY <1>1, <1>2, NoneIsNothing DEF GuardTypes, LocksMatch, Asked, ArenaMatches, InArena, OneUpgrade
<1>5. ASSUME NEW h \in Guards, NEW q \in Trees PROVE PortMatches(h, q)'
  BY <1>1, <1>2, NoneIsNothing DEF GuardTypes, LocksMatch, Asked, PortMatches
<1>6. OneUpgrade'
  BY <1>1, <1>2, NoneIsNothing DEF LocksMatch, ArenaMatches, InArena, OneUpgrade
<1> QED BY <1>3, <1>4, <1>5, <1>6 DEF LocksMatch

LEMMA DowngradeLocks ==
  ASSUME LockInv, NEW g \in Guards, Downgrade(g) PROVE LockInv'
<1> USE DEF LockInv
<1>1. /\ phase' \in [Guards -> Phases]
      /\ phase[g] = "held" /\ phase'[g] = "held"
      /\ \A h \in Guards : h # g => phase'[h] = phase[h]
  BY StepMoves DEF Downgrade, Phases
<1>2. /\ kind[g] = "alloc"
      /\ kind' = [kind EXCEPT ![g] = "write"]
      /\ arenaUpgradable' = None /\ arenaShared' = arenaShared \cup {g}
      /\ UNCHANGED <<port, arenaWriter, portShared, portWriter>>
  BY DEF Downgrade, DowngradedLock, portLocks
<1>3. GuardTypes'
  BY <1>1, <1>2, NoneIsNothing DEF GuardTypes, LocksMatch, Asked, Kinds
<1>4. ASSUME NEW h \in Guards PROVE Asked(h)' /\ ArenaMatches(h)'
  BY <1>1, <1>2, NoneIsNothing DEF GuardTypes, LocksMatch, Asked, Kinds, ArenaMatches, InArena, OneUpgrade
<1>5. ASSUME NEW h \in Guards, NEW q \in Trees PROVE PortMatches(h, q)'
  BY <1>1, <1>2, NoneIsNothing DEF GuardTypes, LocksMatch, Asked, PortMatches
<1>6. OneUpgrade'
  BY <1>1, <1>2, NoneIsNothing DEF LocksMatch, ArenaMatches, InArena, OneUpgrade
<1> QED BY <1>3, <1>4, <1>5, <1>6 DEF LocksMatch

LEMMA DropArenaLocks ==
  ASSUME LockInv, NEW g \in Guards, DropArena(g) PROVE LockInv'
<1> USE DEF LockInv
<1>1. /\ phase' \in [Guards -> Phases]
      /\ phase[g] = "held" /\ phase'[g] = "drop"
      /\ \A h \in Guards : h # g => phase'[h] = phase[h]
  BY StepMoves DEF DropArena, Phases
<1>2. /\ arenaShared' = arenaShared \ {g}
      /\ arenaUpgradable' = IF kind[g] = "alloc" THEN None ELSE arenaUpgradable
      /\ UNCHANGED <<kind, port, arenaWriter, portShared, portWriter>>
  BY DEF DropArena, calls, portLocks
<1>3. GuardTypes'
  BY <1>1, <1>2, NoneIsNothing DEF GuardTypes, LocksMatch, Asked
<1>4. ASSUME NEW h \in Guards PROVE Asked(h)' /\ ArenaMatches(h)'
  BY <1>1, <1>2, NoneIsNothing DEF GuardTypes, LocksMatch, Asked, ArenaMatches, InArena, OneUpgrade
<1>5. ASSUME NEW h \in Guards, NEW q \in Trees PROVE PortMatches(h, q)'
  BY <1>1, <1>2, NoneIsNothing DEF GuardTypes, LocksMatch, Asked, PortMatches
<1>6. OneUpgrade'
  BY <1>1, <1>2, NoneIsNothing DEF LocksMatch, ArenaMatches, InArena, OneUpgrade
<1> QED BY <1>3, <1>4, <1>5, <1>6 DEF LocksMatch

LEMMA DropPortLocks ==
  ASSUME LockInv, NEW g \in Guards, DropPort(g) PROVE LockInv'
<1> USE DEF LockInv
<1>1. /\ phase' \in [Guards -> Phases]
      /\ phase[g] = "drop" /\ phase'[g] = "idle"
      /\ \A h \in Guards : h # g => phase'[h] = phase[h]
  BY StepMoves DEF DropPort, Phases
<1>2. /\ portShared' = [portShared EXCEPT ![port[g]] = @ \ {g}]
      /\ portWriter' = IF kind[g] = "read" THEN portWriter
                       ELSE [portWriter EXCEPT ![port[g]] = None]
      /\ kind' = [kind EXCEPT ![g] = None] /\ port' = [port EXCEPT ![g] = None]
      /\ UNCHANGED <<arenaShared, arenaUpgradable, arenaWriter>>
  BY DEF DropPort, Exclusive, arenaLock
<1>3. GuardTypes'
  BY <1>1, <1>2, NoneIsNothing DEF GuardTypes, LocksMatch, Asked
<1>4. ASSUME NEW h \in Guards PROVE Asked(h)' /\ ArenaMatches(h)'
  BY <1>1, <1>2, NoneIsNothing DEF GuardTypes, LocksMatch, Asked, ArenaMatches, InArena, OneUpgrade
<1>5. ASSUME NEW h \in Guards, NEW q \in Trees PROVE PortMatches(h, q)'
  BY <1>1, <1>2, NoneIsNothing DEF GuardTypes, LocksMatch, Asked, PortMatches
<1>6. OneUpgrade'
  BY <1>1, <1>2, NoneIsNothing DEF LocksMatch, ArenaMatches, InArena, OneUpgrade
<1> QED BY <1>3, <1>4, <1>5, <1>6 DEF LocksMatch

LEMMA LockNext ==
  ASSUME LockInv, [Next]_vars PROVE LockInv'
<1>1. CASE UNCHANGED vars
  BY <1>1 DEF vars, calls, arenaLock, portLocks, LockInv, GuardTypes, LocksMatch, Asked,
              ArenaMatches, PortMatches, OneUpgrade, InArena
<1>2. ASSUME NEW g \in Guards, Acquire(g) PROVE LockInv'
  BY <1>2, ShareArenaLocks, TakeUpgradableLocks, SharePortLocks, ClaimPortLocks,
     OwnPortLocks DEF Acquire
<1>3. ASSUME NEW g \in Guards, Use(g) PROVE LockInv'
  BY <1>3, FindRoomLocks, UpgradeLocks, GrowLocks, InsertLocks, RemoveLocks,
     DowngradeLocks DEF Use
<1> QED BY <1>1, <1>2, <1>3, AskLocks, DropArenaLocks, DropPortLocks DEF Next

LEMMA LocksAlwaysMatch == Spec => []LockInv
<1>1. LockInv /\ [Next]_vars => LockInv'
  BY LockNext
<1> QED BY LockInit, <1>1, PTL DEF Spec

(* At most one alloc guard is past the arena's lock, so it has the free    *)
(* list to itself.                                                         *)
LEMMA LocksAdmitOneAllocator == LockInv => OneAllocator
<1> SUFFICES ASSUME LockInv, NEW g \in Guards, NEW h \in Guards,
                    InArena(g), InArena(h), kind[g] = "alloc", kind[h] = "alloc"
             PROVE  g = h
  BY DEF OneAllocator
<1>1. ArenaMatches(g) /\ ArenaMatches(h) /\ OneUpgrade
  BY DEF LockInv, LocksMatch
<1> QED BY <1>1, NoneIsNothing DEF ArenaMatches, OneUpgrade

THEOREM OneAllocatorCorrect == Spec => []OneAllocator
BY LocksAlwaysMatch, LocksAdmitOneAllocator, PTL

(* A guard that may change a tree is alone with it.                        *)
THEOREM ChangesAloneCorrect == Spec => []ChangesAlone
<1>1. LockInv => ChangesAlone
  <2> SUFFICES ASSUME LockInv, NEW g \in Guards, NEW h \in Guards,
                      InPort(g), InPort(h), port[g] = port[h], kind[g] # "read"
               PROVE  g = h
    BY DEF ChangesAlone
  <2>1. Asked(g) /\ Asked(h)
    BY DEF LockInv, LocksMatch
  <2>2. PICK p \in Trees : port[g] = p
    BY <2>1 DEF Asked, InPort
  <2>3. PortMatches(g, p) /\ PortMatches(h, p)
    BY DEF LockInv, LocksMatch
  <2>4. portWriter[p] = g /\ portShared[p] = {}
    BY <2>2, <2>3 DEF PortMatches, InPort
  <2>5. kind[h] # "read"
    BY <2>1, <2>2, <2>3, <2>4 DEF PortMatches, InPort, Asked
  <2> QED BY <2>2, <2>3, <2>4, <2>5 DEF PortMatches, InPort
<1> QED BY LocksAlwaysMatch, <1>1, PTL

(* The vector moves only under a guard that is alone in the arena.         *)
THEOREM GrowsAloneCorrect == Spec => GrowsAlone
<1>1. ASSUME LockInv, [Next]_vars, capacity' # capacity, NEW g \in Guards, NEW h \in Guards,
             InArena(g), InArena(h)
      PROVE  g = h
  <2>1. PICK a \in Guards : Grow(a)
    BY <1>1 DEF Next, vars, arena, Ask, Acquire, ShareArena, TakeUpgradable, SharePort,
                ClaimPort, OwnPort, Use, FindRoom, Upgrade, Insert, Remove, Downgrade,
                DropArena, DropPort
  <2>2. phase[a] = "grow" /\ arenaShared = {}
    BY <2>1 DEF Grow, Goes, Upgraded
  <2>3. InArena(a) /\ kind[a] = "alloc"
    BY <1>1, <2>2 DEF LockInv, LocksMatch, Asked, InArena
  <2>4. kind[g] = "alloc" /\ kind[h] = "alloc"
    BY <1>1, <2>2 DEF LockInv, LocksMatch, ArenaMatches
  <2> QED BY <1>1, <2>4, LocksAdmitOneAllocator DEF OneAllocator
<1>2. LockInv /\ [Next]_vars =>
        [capacity' # capacity =>
           \A g, h \in Guards : InArena(g) /\ InArena(h) => g = h]_vars
  BY <1>1
<1> QED BY LocksAlwaysMatch, <1>2, PTL DEF Spec, GrowsAlone

-----------------------------------------------------------------------------
(* The arena between the locks.  Its invariants are those of a             *)
(* single-threaded arena.                                                  *)
AP == INSTANCE ArenaProofs WITH Values <- Trees, len <- 0, result <- None

ArenaInv == A!TypeOK /\ A!FreeListExact

LEMMA ArenaAssumptions == MaxItems \in Nat /\ None \notin Trees \cup Nat
BY BoundsAssumption, PortsNoneAssumption

LEMMA SameArena ==
  /\ AP!Inv <=> ArenaInv
  /\ AP!Inv' <=> ArenaInv'
BY DEF AP!Inv, ArenaInv, AP!TypeOK, A!TypeOK, AP!FreeListExact, A!FreeListExact,
       AP!Entry, A!Entry, AP!Link, A!Link, AP!Slots, A!Slots, AP!Follows, A!Follows,
       AP!IsFree, A!IsFree, AP!IsIndex, A!IsIndex

LEMMA ArenaInit == Init => ArenaInv
<1>1. Init => AP!Init
  BY DEF Init, AP!Init
<1> QED BY <1>1, SameArena, AP!InitEstablishes, ArenaAssumptions

LEMMA ArenaInsert ==
  ASSUME ArenaInv, NEW v \in Trees, A!InsertWithinCapacity(v), ~A!IsFull,
         capacity' = capacity
  PROVE  ArenaInv'
<1>1. AP!InsertWithinCapacity(v)
  BY DEF A!InsertWithinCapacity, AP!InsertWithinCapacity, A!UnlinkedHead, AP!UnlinkedHead,
         A!Occupied, AP!Occupied
<1>2. AP!RoomMade
  BY DEF ArenaInv, A!TypeOK, A!IsFull, AP!RoomMade
<1> QED BY <1>1, <1>2, SameArena, AP!PlacePreserves, ArenaAssumptions

LEMMA ArenaRemove ==
  ASSUME ArenaInv, NEW i \in A!Slots, A!Removed(i), capacity' = capacity
  PROVE  ArenaInv'
<1>1. AP!Removed(i) /\ i \in AP!Slots
  BY DEF A!Removed, AP!Removed, A!IsOccupied, AP!IsOccupied, A!IsIndex, AP!IsIndex,
         A!FreeEntry, AP!FreeEntry, A!Slots, AP!Slots
<1> QED BY <1>1, SameArena, AP!VacatePreserves, ArenaAssumptions

LEMMA ArenaGrow ==
  ASSUME ArenaInv, capacity' \in A!Grown, UNCHANGED <<items, free>>
  PROVE  ArenaInv' /\ ~A!IsFull'
BY DEF ArenaInv, A!TypeOK, A!Grown, A!IsFull, A!FreeListExact, A!Follows, A!IsFree, A!IsIndex

(* Nobody else is about to insert while an alloc guard is in use.          *)
LEMMA InsertsAlone ==
  ASSUME LockInv, NEW g \in Guards, InArena(g), kind[g] = "alloc",
         NEW h \in Guards, phase[h] = "insert"
  PROVE  h = g
<1>1. InArena(h) /\ kind[h] = "alloc"
  BY DEF LockInv, LocksMatch, Asked, InArena
<1> QED BY <1>1, LocksAdmitOneAllocator DEF OneAllocator

LEMMA ArenaStill ==
  ASSUME ArenaInv, UNCHANGED arena
  PROVE  ArenaInv' /\ (A!IsFull' <=> A!IsFull)
BY DEF arena, ArenaInv, A!TypeOK, A!IsFull, A!FreeListExact, A!Follows, A!IsFree, A!IsIndex

FullInv == LockInv /\ ArenaInv /\ SpaceReserved

(* A step that leaves the arena alone and does not end ready to insert.    *)
LEMMA StillStep ==
  ASSUME FullInv, UNCHANGED arena, NEW g \in Guards, NEW from, NEW to \in Phases,
         Goes(g, from, to), to # "insert"
  PROVE  ArenaInv' /\ SpaceReserved'
<1>1. phase'[g] = to /\ \A h \in Guards : h # g => phase'[h] = phase[h]
  BY StepMoves DEF FullInv, LockInv
<1> QED BY <1>1, ArenaStill DEF FullInv, SpaceReserved

LEMMA FindRoomStep ==
  ASSUME FullInv, NEW g \in Guards, FindRoom(g) PROVE ArenaInv' /\ SpaceReserved'
<1>1. UNCHANGED arena /\ ~A!IsFull
  BY DEF FindRoom, HasRoom
<1> QED BY <1>1, ArenaStill DEF FullInv, SpaceReserved

LEMMA GrowStep ==
  ASSUME FullInv, NEW g \in Guards, Grow(g) PROVE ArenaInv' /\ SpaceReserved'
BY ArenaGrow DEF FullInv, SpaceReserved, Grow

LEMMA InsertStep ==
  ASSUME FullInv, NEW g \in Guards, Insert(g) PROVE ArenaInv' /\ SpaceReserved'
<1>1. phase[g] = "insert" /\ phase'[g] = "held"
      /\ \A h \in Guards : h # g => phase'[h] = phase[h]
  BY StepMoves DEF Insert, FullInv, LockInv, Phases
<1>2. InArena(g) /\ kind[g] = "alloc" /\ port[g] \in Trees
  BY <1>1 DEF FullInv, LockInv, LocksMatch, Asked, InArena
<1>3. ArenaInv'
  BY <1>1, <1>2, ArenaInsert DEF FullInv, SpaceReserved, Insert
<1>4. \A h \in Guards : phase'[h] # "insert"
  BY <1>1, <1>2, InsertsAlone DEF FullInv
<1> QED BY <1>3, <1>4 DEF SpaceReserved

LEMMA RemoveStep ==
  ASSUME FullInv, NEW g \in Guards, NEW i \in A!Slots, Remove(g, i)
  PROVE  ArenaInv' /\ SpaceReserved'
<1>1. phase[g] = "held" /\ phase'[g] = "held"
      /\ \A h \in Guards : h # g => phase'[h] = phase[h]
  BY StepMoves DEF Remove, FullInv, LockInv, Phases
<1>2. InArena(g) /\ kind[g] = "alloc"
  BY <1>1 DEF Remove, InArena
<1>3. ArenaInv'
  BY ArenaRemove DEF FullInv, Remove
<1>4. \A h \in Guards : phase'[h] # "insert"
  BY <1>1, <1>2, InsertsAlone DEF FullInv
<1> QED BY <1>3, <1>4 DEF SpaceReserved

LEMMA FullNext ==
  ASSUME FullInv, [Next]_vars PROVE FullInv'
<1>1. LockInv'
  BY LockNext DEF FullInv
<1>2. CASE UNCHANGED vars
  BY <1>1, <1>2, ArenaStill DEF vars, FullInv, SpaceReserved
<1>3. ASSUME NEW g \in Guards, NEW k \in Kinds, NEW p \in Trees, Ask(g, k, p)
      PROVE  FullInv'
  BY <1>1, <1>3, StillStep DEF Ask, Phases, FullInv
<1>4. ASSUME NEW g \in Guards, Acquire(g) PROVE FullInv'
  <2>1. UNCHANGED arena
    BY <1>4 DEF Acquire, ShareArena, TakeUpgradable, SharePort, ClaimPort, OwnPort
  <2>2. Goes(g, "arena", "port") \/ Goes(g, "port", "held") \/ Goes(g, "port", "drain")
        \/ Goes(g, "drain", "held")
    BY <1>4 DEF Acquire, ShareArena, TakeUpgradable, SharePort, ClaimPort, OwnPort
  <2> QED BY <1>1, <2>1, <2>2, StillStep DEF Phases, FullInv
<1>5. ASSUME NEW g \in Guards, DropArena(g) \/ DropPort(g) PROVE FullInv'
  <2>1. UNCHANGED arena /\ (Goes(g, "held", "drop") \/ Goes(g, "drop", "idle"))
    BY <1>5 DEF DropArena, DropPort
  <2> QED BY <1>1, <2>1, StillStep DEF Phases, FullInv
<1>6. ASSUME NEW g \in Guards, Upgrade(g) \/ Downgrade(g) PROVE FullInv'
  <2>1. UNCHANGED arena /\ (Goes(g, "held", "grow") \/ Goes(g, "held", "held"))
    BY <1>6 DEF Upgrade, Downgrade
  <2> QED BY <1>1, <2>1, StillStep DEF Phases, FullInv
<1>7. ASSUME NEW g \in Guards, Use(g) PROVE FullInv'
  BY <1>1, <1>6, <1>7, FindRoomStep, GrowStep, InsertStep, RemoveStep DEF Use, FullInv
<1> QED BY <1>2, <1>3, <1>4, <1>5, <1>7 DEF Next

LEMMA AlwaysFullInv == Spec => []FullInv
<1>1. Init => FullInv
  BY LockInit, ArenaInit DEF Init, SpaceReserved, FullInv
<1>2. FullInv /\ [Next]_vars => FullInv'
  BY FullNext
<1> QED BY <1>1, <1>2, PTL DEF Spec

(* Between the locks, the arena's vector stays within its capacity and     *)
(* every variable has its type.                                            *)
THEOREM TypeCorrect == Spec => []TypeOK
<1>1. FullInv => TypeOK
  BY DEF FullInv, LockInv, GuardTypes, ArenaInv, TypeOK
<1> QED BY AlwaysFullInv, <1>1, PTL

(* Whatever other threads do between the look at the capacity and the      *)
(* insert, the room is still there: unwrap_unchecked meets no Err.         *)
THEOREM SpaceReservedCorrect == Spec => []SpaceReserved
BY AlwaysFullInv, PTL DEF FullInv
=============================================================================
