---------------------------- MODULE ForestProofs ----------------------------
(***************************************************************************)
(* The trees of a forest keep their links, threads, colors, heights and    *)
(* cumulants, and no node is lost, while whole trees are joined, split and *)
(* merged.                                                                 *)
(***************************************************************************)
EXTENDS ForestHands
USE DEF Side, Ref, S!Side, S!Ref

-----------------------------------------------------------------------------
(* Steps that change the trees: what is left to show for each.             *)
LEMMA Assembled ==
  ASSUME NEW w, TypeOK', HandLaws(w)', SlotLaws',
         \E E \in [Ref -> SUBSET Index], s \in [Index -> Int] : S!Laws(E, s)',
         \E g \in [Ref -> Nat] : S!BalanceLaws(g)',
         stack' # <<>> => Top'.at # "descend", w[3] => S!WayLaws'
  PROVE  ForestInv(w)'
<1>1. PICK E \in [Ref -> SUBSET Index], s \in [Index -> Int] : S!Laws(E, s)'
  OBVIOUS
<1>2. PICK g \in [Ref -> Nat] : S!BalanceLaws(g)'
  OBVIOUS
<1>3. GoingDown(E, g)'
  BY DEF GoingDown, Inside
<1>4. TreeLaw(E, s, g)'
  BY <1>1, <1>2, <1>3 DEF TreeLaw
<1>5. TreeLawsHold'
  BY <1>4 DEF TreeLawsHold
<1> QED  BY <1>5 DEF ForestInv, Tended

(* No slot is freed, and none comes into hand.                             *)
LEMMA SlotsSpared ==
  ASSUME SlotLaws, S!Spared, Live \subseteq Live', Loose' \subseteq Loose, Loose \subseteq Live
  PROVE  SlotLaws'
<1>1. S!Live = Live \ Loose /\ S!Live' = Live' \ Loose'
  BY ShadowLive
<1>2. \A m \in Index : m \notin Live' \/ m \in Loose' =>
        parent'[m] = parent[m] /\ child'[m] = child[m] /\ order'[m] = order[m]
  BY <1>1 DEF S!Spared
<1>3. FreeSlotsBlank'
  BY <1>2 DEF SlotLaws, FreeSlotsBlank
<1>4. \A m \in Loose' : parent'[m] = parent[m]
  BY <1>2 DEF Live
<1>5. NoCycle(Loose', parent')
  BY <1>4 DEF SlotLaws, NoCycle
<1> QED  BY <1>3, <1>5 DEF SlotLaws

(* A node comes into hand that hangs on none in hand.                      *)
LEMMA LooseGrows ==
  ASSUME NoCycle(Loose, parent), NEW x, Loose' = Loose \cup {x},
         \A m \in Loose : parent'[m] = parent[m], parent'[x] \notin Loose'
  PROVE  NoCycle(Loose', parent')
<1> SUFFICES ASSUME NEW A \in SUBSET Loose', A # {} PROVE \E n \in A : parent'[n] \notin A
  BY DEF NoCycle
<1>1. CASE x \in A
  BY <1>1
<1>2. CASE x \notin A
  <2>1. A \in SUBSET Loose
    BY <1>2
  <2>2. PICK n \in A : parent[n] \notin A
    BY <2>1 DEF NoCycle
  <2> QED  BY <2>1, <2>2
<1> QED  BY <1>1, <1>2

-----------------------------------------------------------------------------
(* The steps of RBTree.                                                    *)

(* A loop or a relinking writes the bounds of its own tree and no others,  *)
(* and neither frees nor takes a slot.                                     *)
LEMMA RotateLocal ==
  ASSUME NEW i \in Side, NEW n, Rotate(i, n)
  PROVE  \A t \in Trees : t # call.tree => root'[t] = root[t]
BY DEF Rotate, ReplacedRoot

LEMMA RelinkLocal ==
  ASSUME TypeOK, Relink
  PROVE  /\ pc # "idle" /\ (call' = call \/ (call' = None /\ pc = "propagate"))
         /\ \A t \in Trees : t # call.tree => root'[t] = root[t] /\ range'[t] = range[t]
         /\ key' = key \/ (pc = "Here" /\ call.op = "remove")
         /\ pc \in {"descend"} \cup SearchResult /\ call.op = "insert" =>
              pc = "descend" /\ pc' \in {"descend"} \cup SearchResult /\ UNCHANGED <<call, key, val>>
<1>1. CASE Descend
  BY <1>1 DEF Descend, data, bounds, SearchResult
<1>2. CASE FixInsertDone \/ FixInsertRecolor \/ Blacken
  BY <1>2 DEF FixInsertDone, FixInsertRecolor, Blacken, RedParent, data, bounds, SearchResult
<1>3. CASE FixInsertInner \/ FixInsertOuter
  <2>1. pc \in {"fix_insert", "rotate_outer"} /\ UNCHANGED <<key, range, call>>
    BY <1>3 DEF FixInsertInner, FixInsertOuter, RedParent, data
  <2>2. PICK i \in Side : \E n : Rotate(i, n)
    <3>1. UncleSide \in Side /\ 1 - UncleSide \in Side
      BY DEF UncleSide, SideOf
    <3> QED  BY <1>3, <3>1 DEF FixInsertInner, FixInsertOuter
  <2>3. PICK n : Rotate(i, n)
    BY <2>2
  <2> QED  BY <2>1, <2>3, RotateLocal DEF SearchResult
<1>4. CASE Propagate
  BY <1>4 DEF Propagate, AfterPropagate, Return, data, bounds, SearchResult
<1>5. CASE RemoveHere
  BY <1>5 DEF RemoveHere, bounds, data, SearchResult
<1>6. ASSUME NEW i \in Side, UnlinkOneChild(i)
      PROVE  /\ pc = "unlink" /\ UNCHANGED <<call, key, range>>
             /\ \A t \in Trees : t # call.tree => root'[t] = root[t]
  BY <1>6 DEF UnlinkOneChild, ReplacedRoot, data
<1>b. CASE UnlinkLeaf
  BY <1>b DEF UnlinkLeaf, data, bounds, SearchResult
<1>a. CASE UnlinkLast
  BY <1>a DEF UnlinkLast, data, SearchResult
<1>7. CASE FixRemoveRedSibling \/ FixRemoveCloseNephew \/ FixRemoveFarNephew
  <2>1. pc \in FixRemoveStep /\ UNCHANGED <<key, range, call>>
    BY <1>7 DEF FixRemoveRedSibling, FixRemoveCloseNephew, FixRemoveFarNephew, AtBlackSibling, data, FixRemoveStep
  <2>2. PICK i \in Side : \E n : Rotate(i, n)
    <3>1. dir \in Side /\ 1 - dir \in Side
      BY DEF TypeOK
    <3> QED  BY <1>7, <3>1 DEF FixRemoveRedSibling, FixRemoveCloseNephew, FixRemoveFarNephew
  <2>3. PICK n : Rotate(i, n)
    BY <2>2
  <2> QED  BY <2>1, <2>3, RotateLocal DEF SearchResult, FixRemoveStep
<1>8. CASE FixRemoveRecolor
  BY <1>8 DEF FixRemoveRecolor, AtBlackSibling, data, SearchResult
<1>9. CASE Unthread
  BY <1>9 DEF Unthread, data, SearchResult, TypeOK
<1> QED  BY <1>1, <1>2, <1>3, <1>4, <1>5, <1>6, <1>7, <1>8, <1>9, <1>a, <1>b DEF Relink, SearchResult

(* S sees the same step.                                                   *)
LEMMA RelinkShadow ==
  ASSUME TypeOK, NEW D \in [Ref -> SUBSET Index], NEW rk \in [Index -> Int], S!Laws(D, rk),
         Relink, Loose' = Loose
  PROVE  S!Relink /\ Live' = Live
<1>0. S!TypeOK /\ TypeOK /\ None \notin Index /\ None \notin Keys
  BY ShadowType, NoneAssumption
<1>k. ASSUME key' = key PROVE HungKey' = HungKey
  BY <1>k DEF HungKey
<1>l. ASSUME key' = key PROVE Live' = Live
  BY <1>l DEF Live
<1>s. ASSUME pc \in {"descend", "Here"} PROVE ptr \in S!Live
  <2>1. call # None
    BY <1>s DEF S!Laws, S!CallLaws
  <2>2. ptr \in D[root[call.tree]]
    BY <2>1, <1>s DEF S!Laws, S!CursorLaws, S!Own, S!SearchLaws
  <2>3. S!Hung = S!Live
    BY <1>s DEF S!Hung, S!Limbo, S!Unlinked
  <2>4. call \in Call
    BY <2>1 DEF TypeOK
  <2>5. call.tree \in Trees
    BY <2>4 DEF Call
  <2>6. S!InTree(S!Hung, parent, child, root, D, call.tree, D[root[call.tree]])
    BY <1>0, <2>5, S!OwnTree, SameParams, KeysAssumption, NoneAssumption, ValuesAssumption, CumulantAssumption
  <2> QED  BY <2>2, <2>3, <2>6 DEF S!InTree
<1>1. CASE Descend
  <2>1. pc = "descend" /\ key' = key
    BY <1>1 DEF Descend, data
  <2>2. HungKey[ptr] = key[ptr]
    BY <1>s, <2>1, ShadowLive DEF HungKey, Live
  <2> QED  BY <1>1, <1>k, <1>l, <2>1, <2>2 DEF Descend, S!Descend, data, S!data, links, S!links, bounds, S!bounds, S!Relink
<1>2. CASE FixInsertDone \/ FixInsertRecolor \/ Blacken
  <2>1. key' = key
    BY <1>2 DEF FixInsertDone, FixInsertRecolor, Blacken, data
  <2>2. S!FixInsertDone \/ S!FixInsertRecolor \/ S!Blacken
    BY <1>2, <1>k, <2>1
    DEF FixInsertDone, FixInsertRecolor, Blacken, S!FixInsertDone, S!FixInsertRecolor, S!Blacken,
        RedParent, S!RedParent, IsRed, S!IsRed, Uncle, S!Uncle, UncleSide, S!UncleSide,
        Grandparent, S!Grandparent, SideOf, S!SideOf, Heightened, S!Heightened,
        data, S!data, links, S!links, bounds, S!bounds
  <2> QED  BY <2>1, <2>2, <1>l DEF S!Relink
<1>r. \A i, n : Rotate(i, n) => S!Rotate(i, n)
  <2>1. \A f, m, x : S!SetAt(f, m, x) = SetAt(f, m, x)
    BY DEF S!SetAt, SetAt
  <2>2. \A f, m, i, x : S!SetLink(f, m, i, x) = SetLink(f, m, i, x)
    BY DEF S!SetLink, SetLink
  <2>3. \A m, x : S!ReplacedParent(m, x) = ReplacedParent(m, x)
    BY <2>1 DEF S!ReplacedParent, ReplacedParent
  <2>4. \A m, x : S!ReplacedChild(m, x) = ReplacedChild(m, x)
    BY <2>2 DEF S!ReplacedChild, ReplacedChild, S!SideOf, SideOf
  <2>5. \A m, x : S!ReplacedRoot(m, x) = ReplacedRoot(m, x)
    BY DEF S!ReplacedRoot, ReplacedRoot
  <2>6. \A m, x : S!LoweredCumulant(m, x) = LoweredCumulant(m, x)
    BY DEF S!LoweredCumulant, LoweredCumulant, S!CumulantOf, CumulantOf
  <2> QED  BY <2>1, <2>3, <2>4, <2>5, <2>6 DEF Rotate, S!Rotate
<1>3. CASE FixInsertInner \/ FixInsertOuter
  <2>1. key' = key
    BY <1>3 DEF FixInsertInner, FixInsertOuter, data
  <2>2. S!FixInsertInner \/ S!FixInsertOuter
    BY <1>3, <1>k, <2>1, <1>r
    DEF FixInsertInner, FixInsertOuter, S!FixInsertInner, S!FixInsertOuter,
        RedParent, S!RedParent, IsRed, S!IsRed, Uncle, S!Uncle, UncleSide, S!UncleSide,
        Grandparent, S!Grandparent, SideOf, S!SideOf, data, S!data
  <2> QED  BY <2>1, <2>2, <1>l DEF S!Relink
<1>4. CASE Propagate
  <2>1. key' = key
    BY <1>4 DEF Propagate, data
  <2>2. S!Propagate
    BY <1>4, <1>k, <2>1
    DEF Propagate, S!Propagate, AfterPropagate, S!AfterPropagate, Return, S!Return, CumulantOf, S!CumulantOf,
        data, S!data, links, S!links, bounds, S!bounds
  <2> QED  BY <2>1, <2>2, <1>l DEF S!Relink
<1>5. CASE RemoveHere
  <2>1. pc = "Here" /\ S!Quiet /\ ptr \in S!Live /\ call # None
    BY <1>5, <1>s DEF RemoveHere, S!Quiet, SearchResult, S!SearchResult, S!Laws, S!CallLaws
  <2>2. CASE \A i \in Side : child[ptr][i] # None
    <3>1. PICK n : n = order[ptr][1]
      OBVIOUS
    <3>2. n # None /\ key' = Swapped(key, ptr, n) /\ val' = Swapped(val, ptr, n) /\ cum' = Swapped(cum, ptr, n)
      BY <1>5, <2>2, <3>1 DEF RemoveHere
    <3>3. n \in S!Live
      <4>1. ptr \in S!Hung
        BY <2>1 DEF S!Hung, S!Limbo, S!Unlinked
      <4>2. \E t \in Trees : ptr \in D[root[t]]
        BY <4>1 DEF S!Laws, S!LinkLaws, S!Shape, S!Rooted
      <4>3. PICK t \in Trees : ptr \in D[root[t]]
        BY <4>2
      <4>4. S!InTree(S!Hung, parent, child, root, D, t, D[root[t]])
        BY <1>0, S!OwnTree, SameParams, KeysAssumption, NoneAssumption, ValuesAssumption, CumulantAssumption
      <4>5. S!Strung(D, t) = D[root[t]] /\ S!Hung \subseteq S!Live
        BY <2>1 DEF S!Strung, S!Unlinked, S!Hung, S!Limbo
      <4>6. S!Thread(D[root[t]], order, range[t], rk)
        BY <4>5 DEF S!Laws, S!StringLaws
      <4>7. n \in D[root[t]]
        BY <3>1, <3>2, <4>3, <4>6 DEF S!Thread
      <4> QED  BY <4>4, <4>5, <4>7 DEF S!InTree
    <3>4. /\ ptr \in Index /\ n \in Index /\ ptr \notin Loose /\ n \notin Loose
          /\ key[ptr] # None /\ key[n] # None
      BY <2>1, <3>3, ShadowLive DEF S!Live, Live
    <3>5. \A m \in Index : key'[m] = IF m = n THEN key[ptr] ELSE IF m = ptr THEN key[n] ELSE key[m]
      BY <3>2, <3>4 DEF Swapped, TypeOK
    <3>6. Live' = Live
      BY <3>4, <3>5 DEF Live
    <3>7. HungKey' = Swapped(HungKey, ptr, n)
      BY <3>4, <3>5 DEF HungKey, Swapped
    <3>8. S!RemoveHere
      BY <1>5, <2>2, <3>1, <3>2, <3>7
      DEF RemoveHere, S!RemoveHere, Swapped, S!Swapped, links, S!links, bounds, S!bounds
    <3> QED  BY <3>6, <3>8 DEF S!Relink
  <2>3. CASE ~(\A i \in Side : child[ptr][i] # None)
    <3>1. key' = key
      BY <1>5, <2>3 DEF RemoveHere, data
    <3>2. S!RemoveHere
      BY <1>5, <1>k, <2>3, <3>1 DEF RemoveHere, S!RemoveHere, data, S!data, links, S!links, bounds, S!bounds
    <3> QED  BY <3>1, <3>2, <1>l DEF S!Relink
  <2> QED  BY <2>2, <2>3
<1>6. CASE (\E i \in Side : UnlinkOneChild(i)) \/ UnlinkLeaf \/ UnlinkLast
  <2>1. key' = key
    BY <1>6 DEF UnlinkOneChild, UnlinkLeaf, UnlinkLast, data
  <2>2. (\E i \in Side : S!UnlinkOneChild(i)) \/ S!UnlinkLeaf \/ S!UnlinkLast
    BY <1>6, <1>k, <2>1
    DEF UnlinkOneChild, UnlinkLeaf, UnlinkLast, S!UnlinkOneChild, S!UnlinkLeaf, S!UnlinkLast,
        ReplacedParent, S!ReplacedParent, ReplacedChild, S!ReplacedChild, ReplacedRoot, S!ReplacedRoot,
        SetAt, S!SetAt, SetLink, S!SetLink, SideOf, S!SideOf, IsLeaf, S!IsLeaf, NoLinks, S!NoLinks,
        data, S!data, links, S!links, bounds, S!bounds
  <2> QED  BY <2>1, <2>2, <1>l DEF S!Relink
<1>7. CASE FixRemoveRedSibling \/ FixRemoveCloseNephew \/ FixRemoveFarNephew \/ FixRemoveRecolor
  <2>1. key' = key
    BY <1>7 DEF FixRemoveRedSibling, FixRemoveCloseNephew, FixRemoveFarNephew, FixRemoveRecolor, data
  <2>2. S!FixRemoveRedSibling \/ S!FixRemoveCloseNephew \/ S!FixRemoveFarNephew \/ S!FixRemoveRecolor
    BY <1>7, <1>k, <2>1, <1>r
    DEF FixRemoveRedSibling, FixRemoveCloseNephew, FixRemoveFarNephew, FixRemoveRecolor,
        S!FixRemoveRedSibling, S!FixRemoveCloseNephew, S!FixRemoveFarNephew, S!FixRemoveRecolor,
        AtBlackSibling, S!AtBlackSibling, Sibling, S!Sibling, CloseNephew, S!CloseNephew,
        FarNephew, S!FarNephew, MadeUp, S!MadeUp, AtTop, S!AtTop, IsRed, S!IsRed, SideOf, S!SideOf,
        data, S!data, links, S!links
  <2> QED  BY <2>1, <2>2, <1>l DEF S!Relink
<1>8. CASE Unthread
  <2>1. key' = key
    BY <1>8 DEF Unthread, data
  <2>2. S!Unthread
    BY <1>8, <1>k, <2>1
    DEF Unthread, S!Unthread, Spliced, S!Spliced, SetLink, S!SetLink, data, S!data, links, S!links
  <2> QED  BY <2>1, <2>2, <1>l DEF S!Relink
<1> QED  BY <1>1, <1>2, <1>3, <1>4, <1>5, <1>6, <1>7, <1>8 DEF Relink

(* Such a step leaves the stack alone.                                     *)
LEMMA StackSame ==
  ASSUME NEW w, StackLaws(w), BackLaws, UNCHANGED <<trees, stack, back>>
  PROVE  StackLaws(w)' /\ BackLaws' /\ Loose' = Loose /\ Top' = Top
<1>1. Top' = Top
  BY DEF Top
<1> QED  BY <1>1 DEF StackLaws, BackLaws, BackHandles, BackNode, TreeBack, SplitBack, NodeBack, Loose, Frames

LEMMA RelinkKeeps == ASSUME NEW w, ForestInv(w), Relink, UNCHANGED forest PROVE ForestInv(w)'
<1>1. TypeOK /\ StackLaws(w) /\ BackLaws /\ RegisterLaws /\ SlotLaws
  BY DEF ForestInv, HandLaws
<1>2. TypeOK'
  BY <1>1, NextType DEF Next, Step
<1>3. /\ StackLaws(w)' /\ BackLaws' /\ Loose' = Loose /\ Top' = Top /\ trees' = trees
      /\ stack' = stack /\ back' = back
  BY <1>1, StackSame DEF forest
<1>4. PICK D \in [Ref -> SUBSET Index], rk \in [Index -> Int], h \in [Ref -> Nat] : TreeLaw(D, rk, h)
  BY DEF ForestInv, TreeLawsHold
<1>5. S!Laws(D, rk) /\ S!BalanceLaws(h)
  BY <1>4 DEF TreeLaw
<1>6. S!Relink /\ Live' = Live
  BY <1>1, <1>3, <1>5, RelinkShadow
<1>7. [S!Next]_S!vars
  BY <1>6 DEF S!Next, S!Step
<1>8. /\ S!Spared
      /\ \E E \in [Ref -> SUBSET Index], s \in [Index -> Int] : S!Laws(E, s)'
      /\ \E g \in [Ref -> Nat] : S!BalanceLaws(g)'
  BY <1>1, <1>2, <1>5, <1>7, NextKeeps
<1>9. SlotLaws'
  BY <1>1, <1>3, <1>6, <1>8, SlotsSpared DEF RegisterLaws
<1>10. /\ pc # "idle" /\ (call' = call \/ call' = None)
       /\ \A t \in Trees : t # call.tree => root'[t] = root[t] /\ range'[t] = range[t]
       /\ pc \in {"descend"} \cup SearchResult /\ call.op = "insert" =>
            pc = "descend" /\ pc' \in {"descend"} \cup SearchResult /\ UNCHANGED <<call, key, val>>
  BY <1>1, RelinkLocal
<1>11. call # None
  BY <1>5, <1>10 DEF S!Laws, S!CallLaws
<1>12. stack # <<>> => Top.at \in {"link_node", "keep_node"} \cup Waiting
  BY <1>1, <1>10 DEF RegisterLaws
<1>13. /\ trees' \subseteq Trees /\ Loose' \subseteq Live'
       /\ \A t \in Trees \ trees' : root'[t] = None /\ range'[t] = NoLinks
       /\ call' # None => call'.tree \in trees'
  BY <1>1, <1>3, <1>6, <1>10, <1>11 DEF RegisterLaws
<1>14. stack' # <<>> /\ Top'.at = "link_node" =>
       /\ pc' \in {"descend"} \cup SearchResult
       /\ call' = [op |-> "insert", tree |-> Top'.this, key |-> key'[Top'.node], val |-> val'[Top'.node]]
  BY <1>1, <1>3, <1>10 DEF RegisterLaws
<1>15. RegisterLaws'
  BY <1>3, <1>12, <1>13, <1>14 DEF RegisterLaws, Waiting, AskTree, AskSplit, AskNode
<1>16. stack' # <<>> => Top'.at # "descend"
  BY <1>3, <1>12 DEF Waiting, AskTree, AskSplit, AskNode
<1>w. w[3] => S!WayLaws'
  <2>1. ~S!InsertHere
    BY <1>10 DEF S!InsertHere, SearchResult
  <2>2. S!Next
    BY <1>6 DEF S!Next, S!Step
  <2> QED  BY <1>1, <1>2, <1>5, <2>1, <2>2, NextTends DEF ForestInv, Tended
<1> QED  BY <1>2, <1>3, <1>8, <1>9, <1>15, <1>16, <1>w, Assembled DEF HandLaws

(* With nothing in hand S is the forest itself.                            *)
SoloStep ==
  \/ \E t \in trees, k \in Keys :
       \/ \E v \in Values : CallOp("insert", t, k, v)
       \/ \E op \in Op \ {"insert"} : CallOp(op, t, k, None)
  \/ Get \/ Search
  \/ InsertHere \/ \E n \in Index \ Live : InsertEmpty(n) \/ InsertAt(n)
  \/ RemoveMiss \/ Free

LEMMA SoloShadow ==
  ASSUME TypeOK, TypeOK', Loose = {}, Loose' = {}, trees \subseteq Trees, SoloStep
  PROVE  S!Next
<1>1. HungKey = key /\ HungKey' = key'
  BY DEF HungKey, TypeOK
<1>2. S!Live = Live
  BY <1>1 DEF S!Live, Live
<1>3. \A t, k : SearchFrom(t, k) => S!SearchFrom(t, k)
  BY <1>1 DEF SearchFrom, S!SearchFrom, Found, S!Found
<1>4. \A op, t, k, v : CallOp(op, t, k, v) => S!CallOp(op, t, k, v)
  <2>1. \A n : S!Subtree(n) = Subtree(n)
    BY DEF S!Subtree, Subtree, S!Closure, Closure, S!Children, Children
  <2>2. \A t, k : Overwrites(t, k) => S!Overwrites(t, k)
    BY <1>1, <2>1 DEF Overwrites, S!Overwrites, Attached, S!Attached
  <2> QED
    BY <1>1, <1>2, <1>3, <2>2 DEF CallOp, S!CallOp, data, S!data, links, S!links, bounds, S!bounds
<1>5. \A r : Return(r) => S!Return(r)
  BY DEF Return, S!Return
<1>6. (Get => S!Get) /\ (Search => S!Search) /\ (InsertHere => S!InsertHere) /\ (RemoveMiss => S!RemoveMiss)
  BY <1>1, <1>5
  DEF Get, S!Get, Search, S!Search, InsertHere, S!InsertHere, RemoveMiss, S!RemoveMiss, SearchResult, S!SearchResult,
      data, S!data, links, S!links, bounds, S!bounds
<1>7. Free => S!Free
  BY <1>1, <1>5 DEF Free, S!Free, NoLinks, S!NoLinks, AnyValue, S!AnyValue, bounds, S!bounds
<1>8. \A n : InsertEmpty(n) => S!InsertEmpty(n)
  BY <1>1, <1>5 DEF InsertEmpty, S!InsertEmpty, NoLinks, S!NoLinks
<1>9. \A n : InsertAt(n) => S!InsertAt(n)
  BY <1>1 DEF InsertAt, S!InsertAt, Hang, S!Hang, SetLink, S!SetLink, NoLinks, S!NoLinks
<1>10. CASE \E t \in trees, k \in Keys :
              \/ \E v \in Values : CallOp("insert", t, k, v)
              \/ \E op \in Op \ {"insert"} : CallOp(op, t, k, None)
  BY <1>4, <1>10 DEF S!Next, Op, S!Op
<1>11. CASE Get \/ Search \/ InsertHere \/ RemoveMiss \/ Free
  BY <1>6, <1>7, <1>11 DEF S!Next, S!Step
<1>12. CASE \E n \in Index \ Live : InsertEmpty(n) \/ InsertAt(n)
  BY <1>2, <1>8, <1>9, <1>12 DEF S!Next, S!Step
<1> QED  BY <1>10, <1>11, <1>12 DEF SoloStep

(* What such a step may write.                                             *)
LEMMA SoloLocal ==
  ASSUME SoloStep, call # None => call.tree \in trees, pc = "idle" <=> call = None
  PROVE  /\ call' # None => call'.tree \in trees
         /\ \A t \in Trees \ trees : root'[t] = root[t] /\ range'[t] = range[t]
<1>1. ASSUME NEW op, NEW t \in trees, NEW k, NEW v, CallOp(op, t, k, v)
      PROVE  call'.tree \in trees /\ UNCHANGED <<root, range>>
  BY <1>1 DEF CallOp, bounds
<1>2. CASE Get \/ Search \/ InsertHere \/ RemoveMiss \/ Free
  BY <1>2 DEF Get, Search, InsertHere, RemoveMiss, Free, Return, bounds
<1>3. ASSUME NEW n, InsertEmpty(n)
      PROVE  call' = None /\ \A t \in Trees : t # call.tree => root'[t] = root[t] /\ range'[t] = range[t]
  BY <1>3 DEF InsertEmpty, Return
<1>4. ASSUME NEW n, InsertAt(n)
      PROVE  call' = call /\ \A t \in Trees : t # call.tree => root'[t] = root[t] /\ range'[t] = range[t]
  BY <1>4 DEF InsertAt, Hang
<1>5. ASSUME NEW n, InsertEmpty(n) \/ InsertAt(n) PROVE call # None
  BY <1>5 DEF InsertEmpty, InsertAt, Hang
<1>6. CASE \E n \in Index \ Live : InsertEmpty(n) \/ InsertAt(n)
  BY <1>3, <1>4, <1>5, <1>6
<1> QED  BY <1>1, <1>2, <1>6 DEF SoloStep

LEMMA SoloKeeps ==
  ASSUME NEW w, ForestInv(w), stack = <<>>, SoloStep, UNCHANGED forest, w[3] => ~InsertHere
  PROVE  ForestInv(w)'
<1>1. TypeOK /\ StackLaws(w) /\ BackLaws /\ RegisterLaws /\ SlotLaws /\ trees \subseteq Trees
  BY DEF ForestInv, HandLaws, RegisterLaws
<1>2. TypeOK'
  <2>1. Next
    BY <1>1 DEF SoloStep, Next, Step
  <2> QED  BY <1>1, <2>1, NextType
<1>3. /\ StackLaws(w)' /\ BackLaws' /\ Loose' = Loose /\ trees' = trees /\ stack' = <<>>
  BY <1>1, StackSame DEF forest
<1>4. Loose = {}
  BY <1>1, EmptyHands DEF BackLaws
<1>5. PICK D \in [Ref -> SUBSET Index], rk \in [Index -> Int], h \in [Ref -> Nat] : TreeLaw(D, rk, h)
  BY DEF ForestInv, TreeLawsHold
<1>6. S!Laws(D, rk) /\ S!BalanceLaws(h)
  BY <1>5 DEF TreeLaw
<1>7. [S!Next]_S!vars
  BY <1>1, <1>2, <1>3, <1>4, SoloShadow
<1>8. /\ \E E \in [Ref -> SUBSET Index], s \in [Index -> Int] : S!Laws(E, s)'
      /\ \E g \in [Ref -> Nat] : S!BalanceLaws(g)'
  BY <1>1, <1>2, <1>6, <1>7, NextKeeps
<1>9. SlotLaws'
  <2>1. S!Live = Live /\ S!Live' = Live' /\ S!TypeOK /\ S!TypeOK'
    BY <1>1, <1>2, <1>3, <1>4, ShadowLive, ShadowType
  <2>2. S!FreeSlotsBlank
    BY <1>1, <2>1 DEF SlotLaws, FreeSlotsBlank, S!FreeSlotsBlank, NoLinks, S!NoLinks
  <2>3. S!FreeSlotsBlank'
    BY <2>1, <2>2, <1>6, <1>7, S!StepBlank, SameParams, KeysAssumption, NoneAssumption, ValuesAssumption,
       CumulantAssumption
  <2>4. FreeSlotsBlank'
    BY <2>1, <2>3 DEF FreeSlotsBlank, S!FreeSlotsBlank, NoLinks, S!NoLinks
  <2> QED  BY <2>4, <1>3, <1>4 DEF SlotLaws, NoCycle
<1>10. call # None => call.tree \in trees
  BY <1>1 DEF RegisterLaws
<1>11. pc = "idle" <=> call = None
  BY <1>6 DEF S!Laws, S!CallLaws
<1>12. /\ call' # None => call'.tree \in trees
       /\ \A t \in Trees \ trees : root'[t] = root[t] /\ range'[t] = range[t]
  BY <1>10, <1>11, SoloLocal
<1>13. RegisterLaws'
  BY <1>1, <1>3, <1>4, <1>12 DEF RegisterLaws
<1>w. w[3] => S!WayLaws'
  <2>1. S!InsertHere => InsertHere
    <3>1. HungKey = key /\ HungKey' = key'
      BY <1>1, <1>2, <1>3, <1>4 DEF HungKey, TypeOK
    <3> HIDE DEF HungKey
    <3> QED  BY <3>1 DEF S!InsertHere, InsertHere, S!Return, Return, S!links, links, S!bounds, bounds
  <2>2. S!Next
    BY <1>1, <1>2, <1>3, <1>4, SoloShadow
  <2> QED  BY <1>1, <1>2, <1>6, <2>1, <2>2, NextTends DEF ForestInv, Tended
<1> QED  BY <1>2, <1>3, <1>8, <1>9, <1>13, <1>w, Assembled DEF HandLaws

LEMMA TreeStepKeeps ==
  ASSUME NEW w, ForestInv(w), TreeStep, w[3] => ~InsertHere
  PROVE  ForestInv(w)'
<1>1. CASE Relink
  BY <1>1, RelinkKeeps DEF TreeStep
<1>2. CASE ~Relink
  <2>1. stack = <<>> /\ SoloStep /\ UNCHANGED forest
    BY <1>2 DEF TreeStep, SoloStep
  <2> QED  BY <2>1, SoloKeeps
<1> QED  BY <1>1, <1>2

LEMMA CallTreeKeeps ==
  ASSUME NEW w, ForestInv(w), NEW t \in Trees, NEW k \in Keys,
         \/ \E v \in Values : CallTree("insert", t, k, v)
         \/ \E op \in Op \ {"insert"} : CallTree(op, t, k, None)
  PROVE  ForestInv(w)'
<1>1. stack = <<>> /\ SoloStep /\ UNCHANGED forest /\ pc = "idle"
  BY DEF CallTree, SoloStep, Idle
<1>2. ~InsertHere
  BY <1>1 DEF InsertHere
<1> QED  BY <1>1, <1>2, SoloKeeps

-----------------------------------------------------------------------------
(* Where insert_node and remove_node begin.                                *)

LEMMA InsertFrame ==
  ASSUME NEW w, NEW f \in FrameType(w), f.at = "insert_node"
  PROVE  LET g == [f EXCEPT !.at = "link_node"] IN
         g \in FrameType(w) /\ g.at = "link_node" /\ g.this = f.this /\ g.node = f.node
<1>1. f \in [at : Inserting2, this : Trees, node : Index, or : {"value_mut", "undefined"}]
  <2>1. CASE f \in Working
    BY <2>1 DEF Working, Removal
  <2>2. CASE f \in TwoTrees
    BY <2>2 DEF TwoTrees
  <2>3. CASE f \in OneTree
    BY <2>3 DEF OneTree
  <2>4. CASE f \in [at : Done, node : {None}, name : {w[1]}, was : {w[2]}]
    BY <2>4 DEF Done
  <2> QED  BY <2>1, <2>2, <2>3, <2>4 DEF FrameType
<1>2. [f EXCEPT !.at = "link_node"] \in [at : Inserting2, this : Trees, node : Index, or : {"value_mut", "undefined"}]
  BY <1>1 DEF Inserting2
<1> QED  BY <1>1, <1>2 DEF FrameType, Working

LEMMA RemoveFrame ==
  ASSUME NEW w, NEW f \in FrameType(w), f.at = "remove_node"
  PROVE  LET g == [f EXCEPT !.at = "keep_node"] IN
         g \in FrameType(w) /\ g.at = "keep_node" /\ g.this = f.this /\ g.node = f.node
<1>1. f \in [at : Removal, this : Trees, node : {None}, target : Index]
  <2>1. CASE f \in Working
    BY <2>1 DEF Working, Inserting2
  <2>2. CASE f \in TwoTrees
    BY <2>2 DEF TwoTrees
  <2>3. CASE f \in OneTree
    BY <2>3 DEF OneTree
  <2>4. CASE f \in [at : Done, node : {None}, name : {w[1]}, was : {w[2]}]
    BY <2>4 DEF Done
  <2> QED  BY <2>1, <2>2, <2>3, <2>4 DEF FrameType
<1>2. [f EXCEPT !.at = "keep_node"] \in [at : Removal, this : Trees, node : {None}, target : Index]
  BY <1>1 DEF Removal
<1> QED  BY <1>1, <1>2 DEF FrameType, Working

(* The frame goes on under another name.                                   *)
LEMMA Renamed ==
  ASSUME NEW w, ForestInv(w), stack # <<>>, Top.at \in {"insert_node", "remove_node"},
         NEW f \in FrameType(w), Continue(<<f>>), UNCHANGED <<trees, back>>,
         Top.at = "insert_node" => f.at = "link_node",
         Top.at = "remove_node" => f.at = "keep_node",
         f.this = Top.this, f.node = Top.node
  PROVE  /\ StackLaws(w)' /\ BackLaws' /\ stack' # <<>> /\ Top' = f /\ Loose' = Loose
         /\ Top.this \in trees
<1>0. StackLaws(w) /\ BackLaws /\ Top.at \notin Done
  BY DEF ForestInv, HandLaws, Done
<1>1. StackLaws(w) /\ BackLaws /\ Top \in FrameType(w)
  BY <1>0, WaitsBelow
<1>2. Handles(Top) = {} /\ Handles(f) = {} /\ InHand(f) = InHand(Top) /\ Top.at \notin Done
  <2>1. CASE Top.at = "insert_node"
    <3>1. Top.at \in Inserting2 /\ f.at \in Inserting2
      BY <2>1 DEF Inserting2
    <3> QED  BY <1>1, <2>1, <3>1, FrameHands DEF Done
  <2>2. CASE Top.at = "remove_node"
    <3>1. Top.at \in Removal /\ f.at \in Removal
      BY <2>2 DEF Removal
    <3> QED  BY <1>1, <2>2, <3>1, FrameHands DEF Done
  <2> QED  BY <2>1, <2>2
<1>3. Fits(Top, stack[2])
  BY <1>1, <1>2, WaitsBelow
<1>4. Fits(f, stack[2])
  BY <1>3 DEF Fits, Done, Removal, Splitting
<1>5. BackHandles' = BackHandles /\ BackNode' = BackNode
  BY DEF BackHandles, BackNode
<1>6. Dealt(f) /\ BackDealt
  BY <1>1, <1>2, <1>5, TopHeld DEF Dealt, BackDealt, HeldTop, NodesTop
<1>7. /\ StackLaws(w)' /\ stack' # <<>> /\ Top' = f /\ stack'[2] = stack[2]
      /\ Loose' = (Loose \ NodesTop) \cup BackNode' \cup InHand(f)
  BY <1>1, <1>2, <1>4, <1>6, StackSwap
<1>8. Loose' = Loose
  <2>1. BackNode \subseteq Loose /\ InHand(Top) \subseteq Loose
    BY <1>1, TopHeld, LooseIs
  <2> QED  BY <1>2, <1>5, <1>7, <2>1 DEF NodesTop
<1>9. BackLaws' /\ Top.this \in trees
  <2>1. CASE Top.at = "insert_node"
    BY <1>1, <1>7, <2>1 DEF BackLaws, Inserting2, Removal, AskTree, AskSplit, AskNode
  <2>2. CASE Top.at = "remove_node"
    BY <1>1, <1>7, <2>2 DEF BackLaws, Inserting2, Removal, AskTree, AskSplit, AskNode, SplitBack
  <2> QED  BY <2>1, <2>2
<1> QED  BY <1>7, <1>8, <1>9

LEMMA StartInsertNodeKeeps == ASSUME NEW w, ForestInv(w), StartInsertNode PROVE ForestInv(w)'
<1>1. /\ TypeOK /\ StackLaws(w) /\ BackLaws /\ RegisterLaws
      /\ pc = "idle" /\ call = None /\ stack # <<>> /\ Top.at = "insert_node" /\ Top \in FrameType(w)
      /\ None \notin Trees /\ None \notin Index /\ trees \subseteq Trees
  BY AtIs DEF StartInsertNode
<1>2. SlotLaws
  BY DEF ForestInv
<1>3. PICK t, n, k, v : t = Top.this /\ n = Top.node /\ k = key[Top.node] /\ v = val[Top.node]
  OBVIOUS
<1>4. /\ call' = [op |-> "insert", tree |-> t, key |-> k, val |-> v] /\ SearchFrom(t, k)
      /\ UNCHANGED <<nodes, bounds, node, par, dir, ret, trees, back, answer>>
  BY <1>3 DEF StartInsertNode
<1> DEFINE f == [Top EXCEPT !.at = "link_node"]
<1>5. f \in FrameType(w) /\ f.at = "link_node" /\ f.this = t /\ f.node = n /\ Continue(<<f>>)
  BY <1>1, <1>3, InsertFrame DEF StartInsertNode
<1> HIDE DEF f
<1>6. /\ StackLaws(w)' /\ BackLaws' /\ stack' # <<>> /\ Top' = f /\ Loose' = Loose
      /\ t \in trees
  BY <1>1, <1>3, <1>4, <1>5, Renamed
<1>7. n \in Loose /\ n \in Index /\ k \in Keys /\ v \in Values /\ t \in Trees /\ Loose \subseteq Live
  <2>1. InHand(Top) = {n} /\ t \in Trees
    BY <1>1, <1>3, FrameFields, FrameHands DEF Inserting2
  <2>2. n \in Loose /\ Loose \subseteq Live
    BY <1>1, <2>1, TopHeld DEF RegisterLaws
  <2> QED  BY <1>1, <1>3, <2>1, <2>2 DEF Live, TypeOK
<1>8. HungKey' = HungKey /\ Live' = Live /\ UNCHANGED <<key, val, cum, color, links, order>>
  BY <1>4, <1>6 DEF HungKey, Live, nodes, data
<1>9. S!Live # Index
  BY <1>7, ShadowLive
<1>10. S!SearchFrom(t, k)
  <2>1. \A i \in Side : range[t][i] # None => HungKey[range[t][i]] = key[range[t][i]]
    BY <1>1, <1>7, EndsIs DEF HungKey, Live
  <2>2. (range[t][0] # None => HungKey[range[t][0]] = key[range[t][0]])
        /\ (range[t][1] # None => HungKey[range[t][1]] = key[range[t][1]])
    BY <2>1
  <2> QED  BY <1>4, <2>2 DEF SearchFrom, S!SearchFrom, Found, S!Found
<1>11. S!CallOp("insert", t, k, v)
  BY <1>1, <1>4, <1>8, <1>9, <1>10 DEF S!CallOp, S!data, links, S!links, bounds, S!bounds
<1>12. [S!Next]_S!vars
  BY <1>7, <1>11 DEF S!Next
<1>13. TypeOK'
  <2>1. S!TypeOK
    BY <1>1, ShadowType
  <2>2. S!TypeOK'
    BY <2>1, <1>12, S!NextType, SameParams, KeysAssumption, NoneAssumption, ValuesAssumption, CumulantAssumption
  <2> QED  BY <1>1, <1>8, <2>2, ShadowTyped DEF TypeOK
<1>14. PICK D \in [Ref -> SUBSET Index], rk \in [Index -> Int], h \in [Ref -> Nat] : TreeLaw(D, rk, h)
  BY DEF ForestInv, TreeLawsHold
<1>15. /\ S!Spared
       /\ \E E \in [Ref -> SUBSET Index], s \in [Index -> Int] : S!Laws(E, s)'
       /\ \E g \in [Ref -> Nat] : S!BalanceLaws(g)'
  BY <1>1, <1>12, <1>13, <1>14, NextKeeps DEF TreeLaw
<1>16. SlotLaws'
  BY <1>2, <1>6, <1>7, <1>8, <1>15, SlotsSpared
<1>17. pc' \in {"descend"} \cup SearchResult
  BY <1>4 DEF SearchFrom, Found, SearchResult
<1>18. RegisterLaws'
  BY <1>1, <1>3, <1>4, <1>5, <1>6, <1>7, <1>8, <1>17 DEF RegisterLaws, bounds
<1>w. w[3] => S!WayLaws'
  <2>1. S!Next /\ ~S!InsertHere
    BY <1>1, <1>7, <1>11 DEF S!Next, S!InsertHere
  <2> QED  BY <1>1, <1>13, <1>14, <2>1, NextTends DEF TreeLaw, ForestInv, Tended
<1> QED  BY <1>5, <1>6, <1>13, <1>15, <1>16, <1>18, <1>w, Assembled DEF HandLaws

LEMMA StartRemoveNodeKeeps == ASSUME NEW w, ForestInv(w), StartRemoveNode PROVE ForestInv(w)'
<1>1. /\ TypeOK /\ StackLaws(w) /\ BackLaws /\ RegisterLaws
      /\ pc = "idle" /\ call = None /\ stack # <<>> /\ Top.at = "remove_node" /\ Top \in FrameType(w)
      /\ None \notin Trees /\ None \notin Index /\ trees \subseteq Trees
  BY AtIs DEF StartRemoveNode
<1>2. SlotLaws
  BY DEF ForestInv
<1>3. PICK t, n, k : t = Top.this /\ n = Top.target /\ k = key[Top.target]
  OBVIOUS
<1>4. /\ call' = [op |-> "remove", tree |-> t, key |-> k, val |-> None] /\ pc' = "Here" /\ ptr' = n
      /\ UNCHANGED <<nodes, bounds, node, par, dir, ret, trees, back, answer>>
  BY <1>3 DEF StartRemoveNode
<1> DEFINE f == [Top EXCEPT !.at = "keep_node"]
<1>5. f \in FrameType(w) /\ f.at = "keep_node" /\ f.this = t /\ f.node = Top.node /\ Continue(<<f>>)
  BY <1>1, <1>3, RemoveFrame DEF StartRemoveNode
<1> HIDE DEF f
<1>6. /\ StackLaws(w)' /\ BackLaws' /\ stack' # <<>> /\ Top' = f /\ Loose' = Loose
      /\ t \in trees
  BY <1>1, <1>3, <1>4, <1>5, Renamed
<1>7. PICK i \in Side : n = range[t][i]
  BY <1>1, <1>3 DEF RegisterLaws
<1>8. n \in Index /\ t \in Trees /\ n \in Live \ Loose /\ k \in Keys /\ Loose \subseteq Live
  <2>1. n \in Index /\ t \in Trees
    BY <1>1, <1>3, FrameFields DEF Removal
  <2>2. n \in Live \ Loose
    BY <1>1, <1>7, <2>1, EndsIs
  <2> QED  BY <1>1, <1>3, <2>1, <2>2 DEF Live, TypeOK, RegisterLaws
<1>9. HungKey' = HungKey /\ Live' = Live /\ UNCHANGED <<key, val, cum, color, links, order>>
  BY <1>4, <1>6 DEF HungKey, Live, nodes, data
<1>10. PICK D \in [Ref -> SUBSET Index], rk \in [Index -> Int], h \in [Ref -> Nat] : TreeLaw(D, rk, h)
  BY DEF ForestInv, TreeLawsHold
<1>11. S!SearchFrom(t, k)
  <2>0. S!TypeOK /\ S!Laws(D, rk)
    BY <1>1, <1>10, ShadowType DEF TreeLaw
  <2>1. HungKey[n] = k /\ k \in Int
    BY <1>3, <1>8, KeysAssumption DEF HungKey
  <2>2. PICK a, b : a = range[t][0] /\ b = range[t][1]
    OBVIOUS
  <2>3. a \in Live \ Loose /\ b \in Live \ Loose
    <3>1. \A j \in Side : range[t][j] = None <=> root[t] = None
      BY <1>1, <1>8, EndsIs
    <3>2. \A j \in Side : range[t][j] \in Live \ Loose
      BY <1>1, <1>7, <1>8, <3>1, EndsIs
    <3> QED  BY <2>2, <3>2
  <2>4. \A j \in Side :
          /\ range[t][j] = None => root[t] = None
          /\ range[t][j] # None =>
               /\ range[t][j] \in D[root[t]] /\ child[range[t][j]][j] = None
               /\ \A m \in D[root[t]] : ~S!Before(j, HungKey[m], HungKey[range[t][j]])
    BY <1>1, <1>8, <2>0, S!RangeEnds, SameParams, KeysAssumption, NoneAssumption, ValuesAssumption, CumulantAssumption
  <2>5. a \in D[root[t]] /\ b \in D[root[t]] /\ ~(HungKey[b] < HungKey[a]) /\ a # None /\ b # None
    BY <1>1, <2>2, <2>3, <2>4 DEF S!Before, Live
  <2>6. S!Live = Live \ Loose /\ pc \notin S!Unlinked \cup {"unlink"}
    BY <1>1, ShadowLive DEF S!Unlinked
  <2>7. HungKey[a] \in Int /\ HungKey[b] \in Int
    BY <1>1, <2>3, KeysAssumption DEF HungKey, Live, TypeOK
  <2>8. HungKey[a] = HungKey[b] => a = b
    <3>0. a \in S!Live /\ b \in S!Live
      BY <2>3, <2>6
    <3>1. \A x \in S!Live, y \in S!Live : rk[x] = rk[y] <=> HungKey[x] = HungKey[y]
      BY <2>0, <2>6, S!KeyEqual, SameParams, KeysAssumption, NoneAssumption, ValuesAssumption, CumulantAssumption
    <3>2. S!Thread(D[root[t]], order, range[t], rk)
      BY <1>8, <2>0, <2>6 DEF S!Laws, S!StringLaws, S!Strung
    <3> QED  BY <2>5, <3>0, <3>1, <3>2 DEF S!Thread
  <2>9. n = a \/ n = b
    BY <1>7, <2>2
  <2> QED  BY <1>4, <2>1, <2>2, <2>5, <2>7, <2>8, <2>9 DEF S!SearchFrom, S!Found
<1>12. S!CallOp("remove", t, k, None)
  BY <1>1, <1>4, <1>9, <1>11 DEF S!CallOp, S!data, links, S!links, bounds, S!bounds
<1>13. [S!Next]_S!vars
  BY <1>8, <1>12 DEF S!Next, S!Op
<1>14. TypeOK'
  <2>1. S!TypeOK
    BY <1>1, ShadowType
  <2>2. S!TypeOK'
    BY <2>1, <1>13, S!NextType, SameParams, KeysAssumption, NoneAssumption, ValuesAssumption, CumulantAssumption
  <2> QED  BY <1>1, <1>9, <2>2, ShadowTyped DEF TypeOK
<1>15. /\ S!Spared
       /\ \E E \in [Ref -> SUBSET Index], s \in [Index -> Int] : S!Laws(E, s)'
       /\ \E g \in [Ref -> Nat] : S!BalanceLaws(g)'
  BY <1>1, <1>10, <1>13, <1>14, NextKeeps DEF TreeLaw
<1>16. SlotLaws'
  BY <1>2, <1>6, <1>8, <1>9, <1>15, SlotsSpared
<1>17. RegisterLaws'
  BY <1>1, <1>4, <1>5, <1>6, <1>8, <1>9 DEF RegisterLaws, bounds
<1>w. w[3] => S!WayLaws'
  <2>1. S!Next /\ ~S!InsertHere
    BY <1>1, <1>8, <1>12 DEF S!Next, S!Op, S!InsertHere
  <2> QED  BY <1>1, <1>10, <1>14, <2>1, NextTends DEF TreeLaw, ForestInv, Tended
<1> QED  BY <1>5, <1>6, <1>14, <1>15, <1>16, <1>17, <1>w, Assembled DEF HandLaws

-----------------------------------------------------------------------------
(* insert_node: the node in hand is hung into the tree.                    *)

(* The call that does so, and who asked for it.                            *)
LEMMA LinkIs ==
  ASSUME NEW w, ForestInv(w), Inside("link_node")
  PROVE  /\ TypeOK /\ StackLaws(w) /\ BackLaws /\ RegisterLaws /\ SlotLaws /\ Top \in FrameType(w)
         /\ stack # <<>> /\ Top.at \notin Done /\ stack[2].at \in AskTree
         /\ Top.this \in trees /\ trees \subseteq Trees /\ back = <<Top.this, None, None>>
         /\ Top.node \in Loose /\ Top.node \in Index /\ Loose \subseteq Live
         /\ BackNode = {} /\ Handles(Top) = {} /\ InHand(Top) = {Top.node}
         /\ call = [op |-> "insert", tree |-> Top.this, key |-> key[Top.node], val |-> val[Top.node]]
<1>1. TypeOK /\ StackLaws(w) /\ BackLaws /\ RegisterLaws /\ SlotLaws /\ stack # <<>> /\ Top.at = "link_node"
  BY DEF ForestInv, HandLaws, Inside
<1>2. Top.at \notin Done /\ Top.at \notin Removal \cup Splitting /\ Top.at \in Inserting2
  BY <1>1 DEF Done, Removal, Splitting, Inserting2
<1>3. Top \in FrameType(w) /\ stack[2].at \in AskTree
  BY <1>1, <1>2, WaitsBelow DEF Fits
<1>4. Handles(Top) = {} /\ InHand(Top) = {Top.node} /\ Top.node \in Index
  BY <1>2, <1>3, FrameFields, FrameHands
<1>5. Top.this \in trees /\ back = <<Top.this, None, None>>
  BY <1>1, <1>2 DEF BackLaws
<1>6. BackNode = {}
  BY <1>5 DEF BackNode
<1>7. Top.node \in Loose
  BY <1>1, <1>4, TopHeld
<1>8. /\ Loose \subseteq Live /\ trees \subseteq Trees
      /\ call = [op |-> "insert", tree |-> Top.this, key |-> key[Top.node], val |-> val[Top.node]]
  BY <1>1 DEF RegisterLaws
<1> QED  BY <1>1, <1>2, <1>3, <1>4, <1>5, <1>6, <1>7, <1>8

LEMMA LinkNodeKeeps == ASSUME NEW w, ForestInv(w), LinkNode PROVE ForestInv(w)'
<1>1. /\ TypeOK /\ StackLaws(w) /\ BackLaws /\ RegisterLaws /\ SlotLaws /\ Top \in FrameType(w)
      /\ stack # <<>> /\ Top.at \notin Done /\ stack[2].at \in AskTree
      /\ Top.this \in trees /\ trees \subseteq Trees /\ back = <<Top.this, None, None>>
      /\ Top.node \in Loose /\ Top.node \in Index /\ Loose \subseteq Live
      /\ BackNode = {} /\ Handles(Top) = {} /\ InHand(Top) = {Top.node}
      /\ call = [op |-> "insert", tree |-> Top.this, key |-> key[Top.node], val |-> val[Top.node]]
  BY LinkIs DEF LinkNode
<1>2. PICK t, n : t = Top.this /\ n = Top.node
  OBVIOUS
<1>3. /\ Continue(<<>>) /\ UNCHANGED <<trees, back, answer>>
      /\ InsertEmpty(n) \/ (Hang(n) /\ UNCHANGED <<data, cum>>)
  BY <1>2 DEF LinkNode
<1>4. BackHandles' = BackHandles /\ BackNode' = {}
  BY <1>1, <1>3 DEF BackHandles, BackNode
<1>5. BackDealt
  BY <1>1, <1>3, <1>4 DEF BackDealt, HeldTop, NodesTop
<1>6. StackLaws(w)' /\ stack' # <<>> /\ Top' = stack[2] /\ Loose' = (Loose \ NodesTop) \cup BackNode'
  BY <1>1, <1>3, <1>5, StackPop
<1>7. Loose' = Loose \ {n}
  BY <1>1, <1>2, <1>4, <1>6 DEF NodesTop
<1>8. BackLaws'
  BY <1>1, <1>3, <1>6
  DEF BackLaws, Inserting2, Removal, AskTree, AskSplit, AskNode, TreeBack
<1>9. call.key = key[n] /\ call.val = val[n] /\ call.tree = t /\ n \in Live
  BY <1>1, <1>2
<1>10. key' = key
  BY <1>1, <1>2, <1>3, <1>9 DEF InsertEmpty, data, TypeOK
<1>11. HungKey' = [HungKey EXCEPT ![n] = call.key] /\ n \in Index \ S!Live /\ Live' = Live
  BY <1>1, <1>2, <1>7, <1>9, <1>10, ShadowLive DEF HungKey, Live
<1>12. PICK D \in [Ref -> SUBSET Index], rk \in [Index -> Int], h \in [Ref -> Nat] : TreeLaw(D, rk, h)
  BY DEF ForestInv, TreeLawsHold
<1>13. S!Laws(D, rk) /\ S!BalanceLaws(h) /\ S!TypeOK
  BY <1>1, <1>12, ShadowType DEF TreeLaw
<1>14. /\ TypeOK' /\ S!Spared /\ (w[3] => S!WayLaws')
       /\ \E E \in [Ref -> SUBSET Index], s \in [Index -> Int] : S!Laws(E, s)'
       /\ \E g \in [Ref -> Nat] : S!BalanceLaws(g)'
  <2>1. CASE InsertEmpty(n)
    <3>1. S!InsertEmpty(n)
      BY <2>1, <1>11 DEF InsertEmpty, S!InsertEmpty, Return, S!Return, NoLinks, S!NoLinks
    <3>2. [S!Next]_S!vars
      BY <3>1, <1>11 DEF S!Next, S!Step
    <3>3. S!TypeOK'
      BY <3>2, <1>13, S!NextType, SameParams, KeysAssumption, NoneAssumption, ValuesAssumption, CumulantAssumption
    <3>4. TypeOK'
      BY <1>1, <1>10, <3>3, ShadowTyped DEF TypeOK
    <3>5. S!Next /\ ~S!InsertHere
      BY <2>1, <3>1, <1>11 DEF S!Next, S!Step, InsertEmpty, S!InsertHere
    <3>6. w[3] => S!WayLaws'
      BY <1>1, <1>13, <3>4, <3>5, NextTends DEF ForestInv, Tended
    <3> QED  BY <1>1, <1>13, <3>2, <3>4, <3>6, NextKeeps
  <2>2. CASE Hang(n) /\ UNCHANGED <<data, cum>>
    <3>1. TypeOK'
      BY <1>1, <1>2, <2>2, HangType DEF TypeOK, data
    <3>2. S!Hang(n)
      BY <2>2 DEF Hang, S!Hang, SetLink, S!SetLink, NoLinks, S!NoLinks
    <3>3. S!HangAny(n)
      BY <2>2, <3>2, <1>11 DEF S!HangAny, data
    <3>4. w[3] => S!WayLaws'
      BY <1>1, <1>11, <1>13, <3>1, <3>3, HangTends DEF ForestInv, Tended
    <3> QED  BY <1>1, <1>11, <1>13, <3>1, <3>3, <3>4, HangKeeps
  <2> QED  BY <1>3, <2>1, <2>2
<1>15. SlotLaws'
  BY <1>1, <1>7, <1>11, <1>14, SlotsSpared
<1>16. /\ call' \in {None, call}
       /\ \A u \in Trees : u # t => root'[u] = root[u] /\ range'[u] = range[u]
  <2>1. CASE InsertEmpty(n)
    BY <2>1, <1>9 DEF InsertEmpty, Return
  <2>2. CASE Hang(n)
    BY <2>2, <1>9 DEF Hang
  <2> QED  BY <1>3, <2>1, <2>2
<1>17. Top'.at \in AskTree
  BY <1>1, <1>6
<1>18. RegisterLaws'
  BY <1>1, <1>2, <1>3, <1>7, <1>9, <1>11, <1>16, <1>17 DEF RegisterLaws, Waiting, AskTree
<1>19. Top'.at # "descend"
  BY <1>17 DEF AskTree
<1> QED  BY <1>6, <1>8, <1>14, <1>15, <1>18, <1>19, Assembled DEF HandLaws

-----------------------------------------------------------------------------
(* remove_node: the node cut off stays in hand.                            *)

LEMMA KeepNodeKeeps == ASSUME NEW w, ForestInv(w), KeepNode PROVE ForestInv(w)'
<1>1. /\ TypeOK /\ StackLaws(w) /\ BackLaws /\ RegisterLaws /\ SlotLaws
      /\ stack # <<>> /\ Top.at = "keep_node" /\ pc = "free"
  BY DEF ForestInv, HandLaws, KeepNode, Inside
<1>2. Top.at \in Removal /\ Top.at \notin Done
  BY <1>1 DEF Removal, Done
<1>3. Top \in FrameType(w) /\ (stack[2].at \in AskSplit \/ stack[2].at \in AskNode)
  BY <1>1, <1>2, WaitsBelow DEF Fits
<1>4. Handles(Top) = {} /\ InHand(Top) = {}
  BY <1>2, <1>3, FrameHands
<1>5. PICK D \in [Ref -> SUBSET Index], rk \in [Index -> Int], h \in [Ref -> Nat] : TreeLaw(D, rk, h)
  BY DEF ForestInv, TreeLawsHold
<1>6. S!Laws(D, rk) /\ S!BalanceLaws(h) /\ S!TypeOK /\ S!Limbo
  BY <1>1, <1>5, ShadowType DEF TreeLaw, S!Limbo
<1>7. node \in S!Live /\ parent[node] \in S!Hung \cup {None}
  <2>1. call # None
    BY <1>1, <1>6 DEF S!Laws, S!CallLaws
  <2>2. node \in S!Live
    BY <1>6, <2>1 DEF S!Laws, S!CursorLaws, S!UpdateLaws
  <2>3. parent[node] \in S!Hung \cup {None}
    BY <1>6 DEF S!BalanceLaws, S!RepairLaws
  <2> QED  BY <2>2, <2>3
<1>8. PICK n : n = node
  OBVIOUS
<1>9. /\ n \in Live /\ n \notin Loose /\ n \in Index /\ None \notin Index /\ None \notin Trees
      /\ S!Live = Live \ Loose /\ S!Hung = S!Live \ {n} /\ trees \subseteq Trees /\ Loose \subseteq Live
  BY <1>1, <1>6, <1>7, <1>8, ShadowLive, NoneAssumption DEF Live, S!Hung, RegisterLaws
<1>10. /\ back' = [back EXCEPT ![2] = n] /\ Return(val[n]) /\ Continue(<<>>)
       /\ UNCHANGED <<nodes, bounds, trees, answer>>
  BY <1>8 DEF KeepNode, TakenOut
<1>11. \/ stack[2].at \in AskNode /\ back = NoBack
       \/ stack[2].at \in AskSplit /\ SplitBack /\ back[2] = None
  BY <1>1, <1>2, <1>3 DEF BackLaws
<1>12. /\ BackHandles' = BackHandles /\ BackNode = {} /\ BackNode' = {n}
       /\ stack[2].at \in AskNode => NodeBack'
       /\ stack[2].at \in AskSplit => SplitBack'
  <2>1. CASE stack[2].at \in AskNode /\ back = NoBack
    <3>1. back' = <<None, n, None>>
      BY <1>10, <2>1 DEF NoBack
    <3> QED  BY <1>9, <2>1, <3>1 DEF BackHandles, BackNode, NodeBack, NoBack, AskNode, AskSplit
  <2>2. CASE stack[2].at \in AskSplit /\ SplitBack /\ back[2] = None
    <3>1. PICK a \in trees, b \in trees : a # b /\ back = <<a, None, b>>
      BY <2>2 DEF SplitBack
    <3>2. back' = <<a, n, b>>
      BY <1>10, <3>1
    <3>3. trees' = trees
      BY <1>10
    <3>4. SplitBack'
      BY <1>9, <3>1, <3>2, <3>3 DEF SplitBack
    <3> QED  BY <1>9, <2>2, <3>1, <3>2, <3>4 DEF BackHandles, BackNode, AskNode, AskSplit
  <2> QED  BY <1>11, <2>1, <2>2
<1>13. BackDealt
  BY <1>9, <1>10, <1>12 DEF BackDealt, HeldTop, NodesTop
<1>14. StackLaws(w)' /\ stack' # <<>> /\ Top' = stack[2] /\ Loose' = (Loose \ NodesTop) \cup BackNode'
  BY <1>1, <1>2, <1>10, <1>13, StackPop
<1>15. Loose' = Loose \cup {n}
  BY <1>4, <1>12, <1>14 DEF NodesTop
<1>16. BackLaws'
  BY <1>3, <1>12, <1>14 DEF BackLaws, Inserting2, Removal, AskTree, AskSplit, AskNode
<1>17. /\ UNCHANGED <<key, val, cum, color, parent, child, order, root, range, black_height>>
       /\ Live' = Live /\ pc' = "idle" /\ call' = None
       /\ node' = None /\ ptr' = None /\ par' = None /\ dir' = 0
  BY <1>10 DEF nodes, bounds, data, links, Live, Return
<1>18. TypeOK'
  BY <1>1, <1>17 DEF TypeOK, PC, InsertStep, RemoveStep, FixRemoveStep
<1>19. HungKey' = [HungKey EXCEPT ![n] = None]
  BY <1>9, <1>15, <1>17 DEF HungKey
<1>20. S!FreeAny
  BY <1>1, <1>8, <1>10, <1>17, <1>19 DEF S!FreeAny, S!bounds, bounds
<1>21. S!Laws(D, rk)' /\ S!BalanceLaws(h)'
  BY <1>1, <1>6, <1>18, <1>20, FreeKeeps
<1>22. SlotLaws'
  <2>0. None \notin Loose /\ n # None
    BY <1>9 DEF Live
  <2>1. parent[n] \notin Loose'
    BY <1>7, <1>8, <1>9, <1>15, <2>0
  <2>2. NoCycle(Loose', parent')
    BY <1>1, <1>15, <1>17, <2>1, LooseGrows DEF SlotLaws
  <2> QED  BY <1>1, <1>17, <2>2 DEF SlotLaws, FreeSlotsBlank
<1>23. Top'.at \in AskSplit \cup AskNode
  BY <1>3, <1>14
<1>24. RegisterLaws'
  BY <1>1, <1>9, <1>10, <1>15, <1>17, <1>23 DEF RegisterLaws, Waiting, AskSplit, AskNode
<1>25. Top'.at # "descend"
  BY <1>23 DEF AskSplit, AskNode
<1>w. w[3] => S!WayLaws'
  BY <1>1, <1>6, <1>18, <1>20, FreeTends DEF ForestInv, Tended
<1> QED  BY <1>14, <1>16, <1>18, <1>21, <1>22, <1>24, <1>25, <1>w, Assembled DEF HandLaws

-----------------------------------------------------------------------------
(* Slots that go back to the arena.                                        *)
LEMMA ReleaseIs ==
  ASSUME TypeOK, NEW A \in SUBSET Index, Release(A)
  PROVE  /\ \A m \in A : /\ key'[m] = None /\ parent'[m] = None
                         /\ child'[m] = NoLinks /\ order'[m] = NoLinks
         /\ \A m \in Index \ A :
              /\ key'[m] = key[m] /\ cum'[m] = cum[m] /\ color'[m] = color[m]
              /\ parent'[m] = parent[m] /\ child'[m] = child[m] /\ order'[m] = order[m]
         /\ Live' = Live \ A
         /\ key' \in [Index -> Keys \cup {None}] /\ cum' \in [Index -> Cumulants]
         /\ color' \in [Index -> Color] /\ parent' \in [Index -> Ref]
         /\ child' \in [Index -> [Side -> Ref]] /\ order' \in [Index -> [Side -> Ref]]
<1>1. /\ \A m \in A : /\ key'[m] = None /\ parent'[m] = None
                      /\ child'[m] = NoLinks /\ order'[m] = NoLinks
      /\ \A m \in Index \ A :
           /\ key'[m] = key[m] /\ cum'[m] = cum[m] /\ color'[m] = color[m]
           /\ parent'[m] = parent[m] /\ child'[m] = child[m] /\ order'[m] = order[m]
  BY DEF Release, Without
<1>2. Live' = Live \ A
  BY <1>1 DEF Live
<1>3. NoLinks \in [Side -> Ref] /\ "Red" \in Color /\ DefaultCumulant \in Cumulants
  BY CumulantAssumption DEF NoLinks, Color
<1>4. /\ key' \in [Index -> Keys \cup {None}] /\ cum' \in [Index -> Cumulants]
      /\ color' \in [Index -> Color] /\ parent' \in [Index -> Ref]
  BY <1>3 DEF Release, Without, TypeOK
<1>5. child' \in [Index -> [Side -> Ref]] /\ order' \in [Index -> [Side -> Ref]]
  <2> HIDE DEF Side, Ref
  <2> QED  BY <1>3 DEF Release, Without, TypeOK
<1> QED  BY <1>1, <1>2, <1>4, <1>5

(* They were in no tree: S sees nothing but the end of the call.           *)
LEMMA ReleasedGone ==
  ASSUME TypeOK, NEW A \in SUBSET Index, Release(A), Loose' = Loose \ A, A \subseteq Loose,
         NEW D \in [Ref -> SUBSET Index], S!Quiet, pc' = "idle", call' = None, UNCHANGED bounds
  PROVE  S!Gone(D, {})
<1>1. /\ \A m \in A : key'[m] = None
      /\ \A m \in Index \ A :
           /\ key'[m] = key[m] /\ color'[m] = color[m]
           /\ parent'[m] = parent[m] /\ child'[m] = child[m] /\ order'[m] = order[m]
  BY ReleaseIs
<1>2. \A m \in Index : HungKey'[m] = HungKey[m]
  BY <1>1 DEF HungKey
<1>3. \A m \in S!Live' : m \in Index \ A
  BY <1>1 DEF S!Live, HungKey
<1> QED  BY <1>1, <1>2, <1>3 DEF S!Gone, bounds

LEMMA ReleasedSlots ==
  ASSUME TypeOK, NEW A \in SUBSET Index, Release(A), Loose' = Loose \ A, Loose \subseteq Live, SlotLaws
  PROVE  SlotLaws' /\ Loose' \subseteq Live'
<1>1. /\ \A m \in A : parent'[m] = None /\ child'[m] = NoLinks /\ order'[m] = NoLinks
      /\ \A m \in Index \ A : parent'[m] = parent[m] /\ child'[m] = child[m] /\ order'[m] = order[m]
      /\ Live' = Live \ A
  BY ReleaseIs
<1>2. FreeSlotsBlank'
  BY <1>1 DEF SlotLaws, FreeSlotsBlank
<1>3. \A m \in Loose' : m \in Loose /\ parent'[m] = parent[m]
  BY <1>1 DEF Live
<1>4. NoCycle(Loose', parent')
  BY <1>3 DEF SlotLaws, NoCycle
<1> QED  BY <1>1, <1>2, <1>4 DEF SlotLaws

LEMMA MergeDuplicateKeeps == ASSUME NEW w, ForestInv(w), MergeDuplicate, ~w[3] PROVE ForestInv(w)'
<1>1. /\ TypeOK /\ StackLaws(w) /\ BackLaws /\ RegisterLaws /\ SlotLaws /\ Top \in FrameType(w)
      /\ stack # <<>> /\ Top.at \notin Done /\ stack[2].at \in AskTree
      /\ Top.this \in trees /\ trees \subseteq Trees /\ back = <<Top.this, None, None>>
      /\ Top.node \in Loose /\ Top.node \in Index /\ Loose \subseteq Live
      /\ BackNode = {} /\ Handles(Top) = {} /\ InHand(Top) = {Top.node}
  BY LinkIs DEF MergeDuplicate
<1>2. PICK t, n : t = Top.this /\ n = Top.node
  OBVIOUS
<1>3. /\ pc = "Here" /\ Release({n}) /\ Return(None)
      /\ val' = [val EXCEPT ![ptr] = Merged(@, val[n]), ![n] = AnyValue]
      /\ UNCHANGED <<bounds, trees, back, answer>>
  BY <1>2 DEF MergeDuplicate
<1> DEFINE f == Frame("value_mut", t, None, None)
<1>4. f \in FrameType(w) /\ f.at = "value_mut" /\ f.this = t /\ Continue(<<f>>)
  BY <1>1, <1>2, FramesMade DEF MergeDuplicate, Frame
<1> HIDE DEF f
<1>5. Handles(f) = {} /\ InHand(f) = {}
  BY <1>4, FrameHands
<1>6. BackHandles' = BackHandles /\ BackNode' = {}
  BY <1>1, <1>3 DEF BackHandles, BackNode
<1>7. Dealt(f) /\ BackDealt
  BY <1>1, <1>3, <1>5, <1>6 DEF Dealt, BackDealt, HeldTop, NodesTop
<1>8. Fits(f, stack[2])
  BY <1>1, <1>4 DEF Fits, Done, Removal, Splitting
<1>9. /\ StackLaws(w)' /\ stack' # <<>> /\ Top' = f
      /\ Loose' = (Loose \ NodesTop) \cup BackNode' \cup InHand(f)
  BY <1>1, <1>4, <1>7, <1>8, StackSwap
<1>10. Loose' = Loose \ {n}
  BY <1>1, <1>2, <1>5, <1>6, <1>9 DEF NodesTop
<1>11. BackLaws'
  BY <1>1, <1>2, <1>3, <1>4, <1>9 DEF BackLaws, Inserting2, Removal, AskTree, AskSplit, AskNode
<1>12. /\ pc' = "idle" /\ call' = None /\ node' = None /\ ptr' = None /\ par' = None /\ dir' = 0
  BY <1>3 DEF Return
<1>13. /\ key' \in [Index -> Keys \cup {None}] /\ cum' \in [Index -> Cumulants]
       /\ color' \in [Index -> Color] /\ parent' \in [Index -> Ref]
       /\ child' \in [Index -> [Side -> Ref]] /\ order' \in [Index -> [Side -> Ref]]
  BY <1>1, <1>2, <1>3, ReleaseIs
<1>14. val' \in [Index -> Values]
  <2>1. ptr \in Index /\ AnyValue \in Values
    BY <1>1, <1>3, ValuesAssumption DEF TypeOK, AnyValue
  <2>2. Merged(val[ptr], val[n]) \in Values
    BY <1>1, <1>2, <2>1, MergedAssumption DEF TypeOK
  <2> QED  BY <1>1, <1>2, <1>3, <2>1, <2>2 DEF TypeOK
<1>15. TypeOK'
  BY <1>1, <1>3, <1>12, <1>13, <1>14 DEF TypeOK, PC, InsertStep, RemoveStep, FixRemoveStep, bounds
<1>16. PICK D \in [Ref -> SUBSET Index], rk \in [Index -> Int], h \in [Ref -> Nat] : TreeLaw(D, rk, h)
  BY DEF ForestInv, TreeLawsHold
<1>17. {n} \in SUBSET Index /\ {n} \subseteq Loose /\ S!Quiet
  BY <1>1, <1>2, <1>3 DEF S!Quiet, S!SearchResult
<1>18. S!Gone(D, {})
  BY <1>1, <1>3, <1>10, <1>12, <1>17, ReleasedGone
<1>19. S!Laws(D, rk)' /\ S!BalanceLaws(h)'
  BY <1>1, <1>15, <1>16, <1>18, GoneKeeps DEF TreeLaw
<1>20. SlotLaws' /\ Loose' \subseteq Live'
  BY <1>1, <1>3, <1>10, <1>17, ReleasedSlots
<1>21. RegisterLaws'
  BY <1>1, <1>3, <1>4, <1>9, <1>12, <1>20 DEF RegisterLaws, bounds
<1> QED  BY <1>4, <1>9, <1>11, <1>15, <1>19, <1>20, <1>21, Assembled DEF HandLaws

-----------------------------------------------------------------------------
(* A handle that is dropped: its nodes A come into hand, or there are none. *)
LEMMA DropKeeps ==
  ASSUME NEW w, ForestInv(w), pc = "idle", call = None, NEW s \in trees, Drop(s),
         UNCHANGED <<nodes, registers>>,
         NEW A \in SUBSET Live, Loose' = Loose \cup A, NoCycle(Loose', parent),
         \A D \in [Ref -> SUBSET Index], rk \in [Index -> Int], h \in [Ref -> Nat] :
           TreeLaw(D, rk, h) => D[root[s]] = A,
         StackLaws(w)', BackLaws', stack' # <<>>, Top'.at \notin {"link_node", "remove_node", "descend"}
  PROVE  ForestInv(w)'
<1>1. TypeOK /\ RegisterLaws /\ SlotLaws /\ trees \subseteq Trees
  BY DEF ForestInv, HandLaws, RegisterLaws
<1>2. /\ UNCHANGED <<key, val, cum, color, parent, child, order>> /\ Live' = Live
      /\ UNCHANGED <<pc, call, node, ptr, par, dir>>
  BY DEF nodes, data, links, registers, Live
<1>3. /\ trees' = trees \ {s} /\ root' = [root EXCEPT ![s] = None]
      /\ range' = [range EXCEPT ![s] = NoLinks] /\ black_height' = [black_height EXCEPT ![s] = 0]
  BY DEF Drop
<1>4. TypeOK'
  <2>1. NoLinks \in [Side -> Ref]
    BY DEF NoLinks
  <2>2. root' \in [Trees -> Ref] /\ black_height' \in [Trees -> Int]
    BY <1>1, <1>3 DEF TypeOK
  <2>3. range' \in [Trees -> [Side -> Ref]]
    BY <1>1, <1>3, <2>1 DEF TypeOK
  <2> QED  BY <1>1, <1>2, <2>2, <2>3 DEF TypeOK
<1>5. PICK D \in [Ref -> SUBSET Index], rk \in [Index -> Int], h \in [Ref -> Nat] : TreeLaw(D, rk, h)
  BY DEF ForestInv, TreeLawsHold
<1>6. S!Laws(D, rk) /\ S!BalanceLaws(h) /\ D[root[s]] = A
  BY <1>5 DEF TreeLaw
<1>7. S!Gone(D, {s})
  <2>1. \A n \in Index : HungKey'[n] = IF \E t \in {s} : n \in D[root[t]] THEN None ELSE HungKey[n]
    BY <1>2, <1>6 DEF HungKey
  <2>2. \A n \in S!Live' :
          /\ parent'[n] = parent[n] /\ child'[n] = child[n] /\ order'[n] = order[n]
          /\ color'[n] = color[n]
    BY <1>2
  <2>3. /\ \A t \in {s} : root'[t] = None /\ range'[t] = S!NoLinks
        /\ \A t \in Trees \ {s} :
             root'[t] = root[t] /\ range'[t] = range[t] /\ black_height'[t] = black_height[t]
    BY <1>1, <1>3 DEF TypeOK, NoLinks, S!NoLinks
  <2> QED  BY <1>2, <2>1, <2>2, <2>3 DEF S!Gone, S!Quiet
<1>8. S!Laws(D, rk)' /\ S!BalanceLaws(h)'
  <2>1. {s} \in SUBSET Trees
    BY <1>1
  <2> QED  BY <1>1, <1>4, <1>6, <1>7, <2>1, GoneKeeps
<1>9. SlotLaws'
  BY <1>1, <1>2 DEF SlotLaws, FreeSlotsBlank
<1>10. \A t \in Trees \ trees' : root'[t] = None /\ range'[t] = NoLinks
  BY <1>1, <1>3 DEF RegisterLaws, TypeOK
<1>11. trees' \subseteq Trees /\ Loose' \subseteq Live'
  BY <1>1, <1>2, <1>3 DEF RegisterLaws
<1>12. RegisterLaws'
  BY <1>2, <1>10, <1>11 DEF RegisterLaws
<1>w. w[3] => S!WayLaws'
  <2>1. {s} \in SUBSET Trees
    BY <1>1
  <2>2. \A n \in S!Live' : val'[n] = val[n] /\ cum'[n] = cum[n]
    BY <1>2
  <2> QED  BY <1>1, <1>4, <1>6, <1>7, <2>1, <2>2, GoneTends DEF ForestInv, Tended
<1> QED  BY <1>4, <1>8, <1>9, <1>12, <1>w, Assembled DEF HandLaws

(* A tree of no node, and of one.                                          *)
LEMMA EmptyIs ==
  ASSUME NEW w, ForestInv(w), pc = "idle", NEW t \in Trees, root[t] = None,
         NEW D \in [Ref -> SUBSET Index], NEW rk \in [Index -> Int], NEW h \in [Ref -> Nat], TreeLaw(D, rk, h)
  PROVE  D[root[t]] = {}
<1>1. AtRest(D, rk, h)
  BY TreeFacts DEF ForestInv
<1> QED  BY <1>1 DEF AtRest

LEMMA SingleIs ==
  ASSUME NEW w, ForestInv(w), pc = "idle", NEW t \in Trees, IsSingle(t)
  PROVE  /\ root[t] \in Live \ Loose /\ parent[root[t]] = None
         /\ \A D \in [Ref -> SUBSET Index], rk \in [Index -> Int], h \in [Ref -> Nat] :
              TreeLaw(D, rk, h) => D[root[t]] = {root[t]}
<1>1. range[t][0] # None /\ range[t][1] = range[t][0] /\ TypeOK
  BY DEF IsSingle, ForestInv
<1>2. root[t] # None /\ root[t] \in Live \ Loose
  BY <1>1, EndsIs
<1>3. PICK e : e = range[t][0]
  OBVIOUS
<1>4. ASSUME NEW D \in [Ref -> SUBSET Index], NEW rk \in [Index -> Int], NEW h \in [Ref -> Nat], TreeLaw(D, rk, h)
      PROVE  D[root[t]] = {root[t]} /\ parent[root[t]] = None
  <2>1. AtRest(D, rk, h) /\ S!Laws(D, rk) /\ S!Hung = S!Live
    BY <1>1, <1>4, TreeFacts, IdleShadow DEF TreeLaw
  <2>2. /\ root[t] \in S!Live
        /\ \A i \in Side : /\ range[t][i] \in D[root[t]]
                           /\ \A m \in D[root[t]] : ~Before(i, key[m], key[range[t][i]])
    BY <1>2, <2>1 DEF AtRest
  <2>3. /\ root[t] \in D[root[t]] /\ D[root[t]] \subseteq S!Live
        /\ \A m \in S!Live : key[m] \in Int /\ rk[m] = 2 * key[m]
    BY <2>1, <2>2 DEF AtRest
  <2>4. e \in D[root[t]]
    BY <1>3, <2>2
  <2>5. ASSUME NEW m \in D[root[t]] PROVE m = e
    <3>1. ~Before(0, key[m], key[e]) /\ ~Before(1, key[m], key[e])
      BY <1>1, <1>3, <2>2
    <3>2. key[m] \in Int /\ key[e] \in Int /\ rk[m] = 2 * key[m] /\ rk[e] = 2 * key[e]
      BY <2>3, <2>4
    <3>3. rk[m] = rk[e]
      BY <3>1, <3>2 DEF Before
    <3>4. S!Strung(D, t) = D[root[t]]
      BY DEF S!Strung, S!Unlinked
    <3>5. S!Thread(D[root[t]], order, range[t], rk)
      BY <2>1, <3>4 DEF S!Laws, S!StringLaws
    <3> QED  BY <2>4, <3>3, <3>5 DEF S!Thread
  <2>6. parent[root[t]] = None
    BY <1>2, <2>1 DEF S!Laws, S!LinkLaws, S!Shape, S!Rooted
  <2> QED  BY <2>3, <2>4, <2>5, <2>6
<1>5. parent[root[t]] = None
  BY <1>4 DEF ForestInv, TreeLawsHold
<1> QED  BY <1>2, <1>4, <1>5

(* What the unions and join have in common when they drop the handle of a  *)
(* small tree: the other one is the result.                                *)
LEMMA DroppedIs ==
  ASSUME NEW w, ForestInv(w), NEW where \in {"union_disjoint", "union_merge", "join"}, At(where),
         NEW s, NEW big, s \in {Top.this, Top.that}, big \in {Top.this, Top.that}, s # big,
         Drop(s), back' = <<big, None, None>>
  PROVE  /\ s \in trees /\ big \in trees' /\ big \in Trees /\ Top.at \notin Done
         /\ stack[2].at \in AskTree /\ InHand(Top) \subseteq Loose
         /\ BackNode = {} /\ BackNode' = {} /\ BackHandles' = {big} /\ BackDealt
<1>1. /\ TypeOK /\ StackLaws(w) /\ BackLaws /\ stack # <<>> /\ Top.at = where /\ Top \in FrameType(w)
      /\ None \notin Trees /\ None \notin Index /\ trees \subseteq Trees
  BY AtIs
<1>2. Handles(Top) = {Top.this, Top.that}
  BY <1>1, FrameHands
<1>3. Top.at \notin Done /\ stack[2].at \in AskTree
  <2>1. Top.at \notin Done \cup Removal \cup Splitting
    BY <1>1 DEF Done, Removal, Splitting
  <2> QED  BY <1>1, <2>1, WaitsBelow DEF Fits
<1>4. Handles(Top) \subseteq trees /\ InHand(Top) \subseteq Loose
  BY <1>1, TopHeld
<1>5. back = NoBack
  BY <1>1 DEF BackLaws
<1>6. BackHandles = {} /\ BackNode = {}
  BY <1>5 DEF BackHandles, BackNode, NoBack
<1>7. s \in trees /\ big \in trees /\ trees' = trees \ {s} /\ s \in Handles(Top) /\ big \in Handles(Top)
  BY <1>2, <1>4 DEF Drop
<1>8. BackHandles' = {big} /\ BackNode' = {}
  BY <1>1, <1>7 DEF BackHandles, BackNode
<1>9. BackDealt
  BY <1>6, <1>7, <1>8 DEF BackDealt, HeldTop, NodesTop
<1> QED  BY <1>1, <1>3, <1>4, <1>6, <1>7, <1>8, <1>9

(* ... and a node n of theirs, or the one in hand, goes into it.           *)
DropInserting(where, s, big, n, or) ==
  /\ where \in {"union_disjoint", "union_merge", "join"} /\ At(where)
  /\ s \in {Top.this, Top.that} /\ big \in {Top.this, Top.that} /\ s # big
  /\ Drop(s) /\ back' = <<big, None, None>> /\ UNCHANGED <<nodes, registers>>
  /\ n \in Live /\ or \in {"value_mut", "undefined"} /\ Continue(<<InsertNode(big, n, or)>>)
  /\ InHand(Top) \subseteq {n} /\ (n \in InHand(Top) \/ n \notin Loose)
  /\ NoCycle(Loose \cup {n}, parent)
NodesAre(s, A) ==
  \A D \in [Ref -> SUBSET Index], rk \in [Index -> Int], h \in [Ref -> Nat] :
    TreeLaw(D, rk, h) => D[root[s]] = A

LEMMA DropInserts ==
  ASSUME NEW w, ForestInv(w), NEW where, NEW s, NEW big, NEW n, NEW or,
         DropInserting(where, s, big, n, or),
         NEW A \in SUBSET Live, Loose \cup {n} = Loose \cup A, NodesAre(s, A)
  PROVE  ForestInv(w)'
<1>0. /\ where \in {"union_disjoint", "union_merge", "join"} /\ At(where)
      /\ s \in {Top.this, Top.that} /\ big \in {Top.this, Top.that} /\ s # big
      /\ Drop(s) /\ back' = <<big, None, None>> /\ UNCHANGED <<nodes, registers>>
      /\ n \in Live /\ or \in {"value_mut", "undefined"} /\ Continue(<<InsertNode(big, n, or)>>)
      /\ InHand(Top) \subseteq {n} /\ (n \in InHand(Top) \/ n \notin Loose)
      /\ NoCycle(Loose \cup {n}, parent)
      /\ \A D \in [Ref -> SUBSET Index], rk \in [Index -> Int], h \in [Ref -> Nat] :
           TreeLaw(D, rk, h) => D[root[s]] = A
  BY DEF DropInserting, NodesAre
<1>1. /\ StackLaws(w) /\ stack # <<>> /\ pc = "idle" /\ call = None
  BY <1>0, AtIs
<1>2. /\ s \in trees /\ big \in trees' /\ big \in Trees /\ Top.at \notin Done
      /\ stack[2].at \in AskTree /\ InHand(Top) \subseteq Loose
      /\ BackNode = {} /\ BackNode' = {} /\ BackHandles' = {big} /\ BackDealt
  BY <1>0, DroppedIs
<1>3. n \in Index
  BY <1>0 DEF Live
<1> DEFINE f == InsertNode(big, n, or)
<1>4. f \in FrameType(w) /\ f.at = "insert_node" /\ f.this = big /\ f.node = n /\ Continue(<<f>>)
  BY <1>2, <1>3, <1>0, FramesMade DEF InsertNode
<1> HIDE DEF f
<1>5. Handles(f) = {} /\ InHand(f) = {n}
  <2>1. f.at \in Inserting2
    BY <1>4 DEF Inserting2
  <2> QED  BY <1>4, <2>1, FrameHands
<1>6. Dealt(f)
  BY <1>0, <1>2, <1>3, <1>5 DEF Dealt, NodesTop
<1>7. Fits(f, stack[2])
  BY <1>2, <1>4 DEF Fits, Done, Removal, Splitting
<1>8. /\ StackLaws(w)' /\ stack' # <<>> /\ Top' = f
      /\ Loose' = (Loose \ NodesTop) \cup BackNode' \cup InHand(f)
  BY <1>1, <1>2, <1>4, <1>6, <1>7, StackSwap
<1>9. Loose' = Loose \cup {n} /\ Loose' = Loose \cup A
  BY <1>0, <1>2, <1>5, <1>8 DEF NodesTop
<1>10. BackLaws'
  BY <1>0, <1>2, <1>4, <1>8 DEF BackLaws, Inserting2, Removal, AskTree, AskSplit, AskNode
<1>11. NoCycle(Loose', parent)
  BY <1>0, <1>9
<1>12. Top'.at \notin {"link_node", "remove_node", "descend"}
  BY <1>4, <1>8
<1> QED  BY <1>0, <1>1, <1>2, <1>8, <1>9, <1>10, <1>11, <1>12, DropKeeps

LEMMA UnionSmallKeeps == ASSUME NEW w, ForestInv(w), UnionSmall PROVE ForestInv(w)'
<1>0. PICK where \in {"union_disjoint", "union_merge", "join"} :
        At(where) /\ where \in {"union_disjoint", "union_merge"}
  BY DEF UnionSmall
<1>1. PICK s \in {Top.this, Top.that}, big \in {Top.this, Top.that}, or \in {"value_mut", "undefined"} :
        /\ s # big /\ Drop(s) /\ back' = <<big, None, None>>
        /\ \/ IsEmpty(s) /\ Continue(<<>>)
           \/ IsSingle(s) /\ Continue(<<InsertNode(big, root[s], or)>>)
  BY DEF UnionSmall
<1>2. /\ TypeOK /\ StackLaws(w) /\ stack # <<>> /\ pc = "idle" /\ call = None /\ Top.at = where
      /\ Top \in FrameType(w) /\ trees \subseteq Trees
  BY <1>0, AtIs
<1>3. /\ s \in trees /\ big \in trees' /\ big \in Trees /\ Top.at \notin Done
      /\ stack[2].at \in AskTree /\ InHand(Top) \subseteq Loose
      /\ BackNode = {} /\ BackNode' = {} /\ BackHandles' = {big} /\ BackDealt
  BY <1>0, <1>1, DroppedIs
<1>4. UNCHANGED <<nodes, registers>>
  BY DEF UnionSmall
<1>5. InHand(Top) = {}
  BY <1>0, <1>2, FrameHands
<1>6. SlotLaws /\ Loose \subseteq Live
  BY DEF ForestInv, HandLaws, RegisterLaws
<1>7. CASE IsEmpty(s) /\ Continue(<<>>)
  <2>1. StackLaws(w)' /\ stack' # <<>> /\ Top' = stack[2] /\ Loose' = (Loose \ NodesTop) \cup BackNode'
    BY <1>2, <1>3, <1>7, StackPop
  <2>2. Loose' = Loose \cup {}
    BY <1>3, <1>5, <2>1 DEF NodesTop
  <2>3. root[s] = None /\ s \in Trees
    BY <1>2, <1>3, <1>7, EndsIs
  <2>4. \A D \in [Ref -> SUBSET Index], rk \in [Index -> Int], h \in [Ref -> Nat] :
          TreeLaw(D, rk, h) => D[root[s]] = {}
    BY <1>2, <2>3, EmptyIs
  <2>5. TreeBack'
    BY <1>1, <1>3 DEF TreeBack
  <2>6. BackLaws'
    <3>1. stack' # <<>> /\ Top'.at \in AskTree
      BY <1>3, <2>1
    <3> QED  BY <2>5, <3>1 DEF BackLaws, Inserting2, Removal, AskTree, AskSplit, AskNode
  <2>7. NoCycle(Loose', parent) /\ {} \in SUBSET Live
    BY <1>6, <2>2 DEF SlotLaws
  <2>8. Top'.at \notin {"link_node", "remove_node", "descend"}
    BY <1>3, <2>1 DEF AskTree
  <2> QED  BY <1>1, <1>2, <1>3, <1>4, <2>1, <2>2, <2>4, <2>6, <2>7, <2>8, DropKeeps
<1>8. CASE IsSingle(s) /\ Continue(<<InsertNode(big, root[s], or)>>)
  <2>1. PICK n : n = root[s]
    OBVIOUS
  <2>2. /\ n \in Live \ Loose /\ parent[n] = None
        /\ \A D \in [Ref -> SUBSET Index], rk \in [Index -> Int], h \in [Ref -> Nat] :
             TreeLaw(D, rk, h) => D[root[s]] = {n}
    BY <1>2, <1>3, <1>8, <2>1, SingleIs
  <2>3. NoCycle(Loose \cup {n}, parent)
    <3>1. None \notin Loose \cup {n}
      BY <1>6, <2>2, NoneAssumption DEF Live
    <3> QED  BY <1>6, <2>2, <3>1 DEF SlotLaws, NoCycle
  <2>4. {n} \in SUBSET Live
    BY <2>2
  <2>5. DropInserting(where, s, big, n, or)
    BY <1>0, <1>1, <1>4, <1>5, <1>8, <2>1, <2>2, <2>3 DEF DropInserting
  <2>6. NodesAre(s, {n}) /\ Loose \cup {n} = Loose \cup {n}
    BY <2>2 DEF NodesAre
  <2> QED  BY <2>4, <2>5, <2>6, DropInserts
<1> QED  BY <1>1, <1>7, <1>8

LEMMA JoinEmptyKeeps == ASSUME NEW w, ForestInv(w), JoinEmpty PROVE ForestInv(w)'
<1>0. PICK where \in {"union_disjoint", "union_merge", "join"} : At(where) /\ where = "join"
  BY DEF JoinEmpty
<1>1. PICK s \in {Top.this, Top.that}, big \in {Top.this, Top.that} :
        /\ s # big /\ Drop(s) /\ back' = <<big, None, None>> /\ root[s] = None
        /\ Continue(<<InsertNode(big, Top.node, "undefined")>>)
  BY DEF JoinEmpty
<1>2. /\ TypeOK /\ stack # <<>> /\ pc = "idle" /\ call = None /\ Top.at = where
      /\ Top \in FrameType(w) /\ trees \subseteq Trees
  BY <1>0, AtIs
<1>3. s \in trees /\ InHand(Top) \subseteq Loose
  BY <1>0, <1>1, DroppedIs
<1>4. UNCHANGED <<nodes, registers>>
  BY DEF JoinEmpty
<1>5. PICK n : n = Top.node
  OBVIOUS
<1>6. InHand(Top) = {n}
  BY <1>0, <1>2, <1>5, FrameHands
<1>7. SlotLaws /\ Loose \subseteq Live
  BY DEF ForestInv, HandLaws, RegisterLaws
<1>8. n \in Live /\ Loose \cup {n} = Loose \cup {} /\ NoCycle(Loose \cup {n}, parent) /\ {} \in SUBSET Live
  <2>1. Loose \cup {n} = Loose
    BY <1>3, <1>6
  <2> QED  BY <1>3, <1>6, <1>7, <2>1 DEF SlotLaws
<1>9. \A D \in [Ref -> SUBSET Index], rk \in [Index -> Int], h \in [Ref -> Nat] :
        TreeLaw(D, rk, h) => D[root[s]] = {}
  <2>1. root[s] = None /\ s \in Trees
    BY <1>1, <1>2, <1>3
  <2> QED  BY <1>2, <2>1, EmptyIs
<1>10. Continue(<<InsertNode(big, n, "undefined")>>) /\ InHand(Top) \subseteq {n} /\ n \in InHand(Top)
  BY <1>1, <1>5, <1>6
<1>11. DropInserting(where, s, big, n, "undefined")
  BY <1>0, <1>1, <1>4, <1>8, <1>10 DEF DropInserting
<1>12. NodesAre(s, {})
  BY <1>9 DEF NodesAre
<1> QED  BY <1>8, <1>11, <1>12, DropInserts

(* A node in hand that is freed while no tree is being changed.            *)
LEMMA ReleaseKeeps ==
  ASSUME NEW w, ForestInv(w), pc = "idle", call = None, NEW A \in SUBSET Loose, Release(A),
         Loose' = Loose \ A, val' \in [Index -> Values], \A n \in Live \ Loose : val'[n] = val[n],
         UNCHANGED <<bounds, registers, trees>>,
         StackLaws(w)', BackLaws',
         stack' # <<>> => Top'.at \notin {"link_node", "remove_node", "descend"}
  PROVE  ForestInv(w)'
<1>1. TypeOK /\ RegisterLaws /\ SlotLaws /\ Loose \subseteq Live /\ trees \subseteq Trees
  BY DEF ForestInv, HandLaws, RegisterLaws
<1>2. A \in SUBSET Index /\ A \subseteq Loose
  BY <1>1 DEF Live
<1>3. /\ key' \in [Index -> Keys \cup {None}] /\ cum' \in [Index -> Cumulants]
      /\ color' \in [Index -> Color] /\ parent' \in [Index -> Ref]
      /\ child' \in [Index -> [Side -> Ref]] /\ order' \in [Index -> [Side -> Ref]]
  BY <1>1, <1>2, ReleaseIs
<1>4. /\ pc' = pc /\ call' = call /\ node' = node /\ ptr' = ptr /\ par' = par /\ dir' = dir
      /\ root' = root /\ range' = range /\ black_height' = black_height
  BY DEF registers, bounds
<1>5. TypeOK'
  BY <1>1, <1>3, <1>4 DEF TypeOK
<1>6. PICK D \in [Ref -> SUBSET Index], rk \in [Index -> Int], h \in [Ref -> Nat] : TreeLaw(D, rk, h)
  BY DEF ForestInv, TreeLawsHold
<1>7. S!Gone(D, {})
  BY <1>1, <1>2, <1>4, ReleasedGone DEF S!Quiet
<1>8. S!Laws(D, rk)' /\ S!BalanceLaws(h)'
  BY <1>1, <1>5, <1>6, <1>7, GoneKeeps DEF TreeLaw
<1>9. SlotLaws' /\ Loose' \subseteq Live'
  BY <1>1, <1>2, ReleasedSlots
<1>10. RegisterLaws'
  BY <1>1, <1>4, <1>9 DEF RegisterLaws
<1>w. w[3] => S!WayLaws'
  <2>1. \A n \in S!Live' : n \in Live \ Loose /\ n \in Index \ A
    BY <1>1, <1>2, ReleaseIs, ShadowLive DEF Live
  <2>2. \A n \in S!Live' : val'[n] = val[n] /\ cum'[n] = cum[n]
    BY <1>1, <1>2, <2>1, ReleaseIs
  <2>3. {} \in SUBSET Trees
    OBVIOUS
  <2> QED  BY <1>1, <1>5, <1>6, <1>7, <2>2, <2>3, GoneTends DEF TreeLaw, ForestInv, Tended
<1> QED  BY <1>5, <1>8, <1>9, <1>10, <1>w, Assembled DEF HandLaws

(* The node that a split has to do with, if any.                           *)
LEMMA MergeRootKeeps == ASSUME NEW w, ForestInv(w), MergeRoot PROVE ForestInv(w)'
<1>1. /\ TypeOK /\ StackLaws(w) /\ BackLaws /\ RegisterLaws
      /\ pc = "idle" /\ call = None /\ stack # <<>> /\ Top.at = "merge_root" /\ Top \in FrameType(w)
      /\ None \notin Trees /\ None \notin Index /\ trees \subseteq Trees
  BY AtIs DEF MergeRoot
<1>2. PICK a \in trees, b \in trees, n \in Ref : a # b /\ back = <<a, n, b>>
  BY <1>1 DEF BackLaws, AskSplit, SplitBack
<1>3. PICK t, u, m : t = Top.this /\ u = Top.that /\ m = Top.node
  OBVIOUS
<1>4. /\ t \in Trees /\ u \in Trees /\ t # u /\ m \in Index
      /\ Handles(Top) = {t, u} /\ InHand(Top) = {m}
  BY <1>1, <1>3, FrameFields, FrameHands
<1>5. Top.at \notin Done /\ stack[2].at \in AskTree
  <2>1. Top.at \notin Done \cup Removal \cup Splitting
    BY <1>1 DEF Done, Removal, Splitting
  <2> QED  BY <1>1, <2>1, WaitsBelow DEF Fits
<1>6. /\ Release(Freed(n)) /\ UNCHANGED <<bounds, registers, trees, answer>> /\ back' = NoBack
      /\ val' = IF n = None THEN val
                ELSE [val EXCEPT ![m] = MergedValue(@, val[n]), ![n] = AnyValue]
      /\ Continue(<<Frame("union_merge", a, None, t), Frame("merge_right", b, m, u)>>)
  BY <1>2, <1>3 DEF MergeRoot
<1>7. BackHandles = {a, b} /\ BackNode = Freed(n) /\ BackHandles' = {} /\ BackNode' = {}
  BY <1>1, <1>2, <1>6 DEF BackHandles, BackNode, NoBack, Freed
<1>8. /\ Handles(Top) \subseteq trees /\ Handles(Top) \cap {a, b} = {}
      /\ InHand(Top) \subseteq Loose /\ InHand(Top) \cap BackNode = {} /\ BackNode \subseteq Loose
  BY <1>1, <1>7, TopHeld, LooseIs
<1> DEFINE f == Frame("union_merge", a, None, t)
           g == Frame("merge_right", b, m, u)
<1>9. f \in FrameType(w) /\ g \in FrameType(w) /\ Continue(<<f, g>>)
  BY <1>1, <1>4, <1>6, <1>8, FramesMade
<1>10. f.at = "union_merge" /\ f.this = a /\ f.that = t
       /\ g.at = "merge_right" /\ g.this = b /\ g.node = m /\ g.that = u
  BY DEF Frame
<1> HIDE DEF f, g
<1>11. Handles(f) = {a, t} /\ InHand(f) = {} /\ Handles(g) = {b, u} /\ InHand(g) = {m}
  BY <1>9, <1>10, FrameHands
<1>12. Dealt(f) /\ Dealt(g) /\ NoneTwice(f, g) /\ BackDealt
  BY <1>1, <1>2, <1>4, <1>6, <1>7, <1>8, <1>11 DEF Dealt, NoneTwice, BackDealt, HeldTop, NodesTop
<1>13. Fits(f, g) /\ Fits(g, stack[2])
  BY <1>5, <1>10 DEF Fits, Done, Removal, Splitting, AskTree
<1>14. /\ StackLaws(w)' /\ stack' # <<>> /\ Top' = f
       /\ Loose' = (Loose \ NodesTop) \cup BackNode' \cup InHand(f) \cup InHand(g)
  BY <1>1, <1>5, <1>9, <1>12, <1>13, StackPush
<1>15. Loose' = Loose \ Freed(n)
  BY <1>4, <1>7, <1>8, <1>11, <1>14 DEF NodesTop
<1>16. BackLaws'
  BY <1>6, <1>10, <1>14 DEF BackLaws, Inserting2, Removal, AskTree, AskSplit, AskNode
<1>17. val' \in [Index -> Values]
  <2>1. CASE n = None
    BY <1>1, <1>6, <2>1 DEF TypeOK
  <2>2. CASE n # None
    <3>1. n \in Index /\ AnyValue \in Values /\ val[m] \in Values /\ val[n] \in Values
      BY <1>1, <1>4, <2>2, ValuesAssumption DEF TypeOK, AnyValue
    <3>2. Merged(val[m], val[n]) \in Values
      BY <3>1, MergedAssumption
    <3> QED  BY <1>1, <1>6, <2>2, <3>1, <3>2 DEF TypeOK, MergedValue
  <2> QED  BY <2>1, <2>2
<1>18. Freed(n) \in SUBSET Loose
  BY <1>7, <1>8
<1>19. Top'.at \notin {"link_node", "remove_node", "descend"}
  BY <1>10, <1>14
<1>20. \A x \in Live \ Loose : val'[x] = val[x]
  BY <1>1, <1>4, <1>6, <1>7, <1>8, <1>18 DEF TypeOK, Live, Freed
<1> QED  BY <1>1, <1>6, <1>14, <1>15, <1>16, <1>17, <1>18, <1>19, <1>20, ReleaseKeeps

LEMMA SplitDoneKeeps == ASSUME NEW w, ForestInv(w), SplitDone PROVE ForestInv(w)'
<1>1. /\ TypeOK /\ StackLaws(w) /\ BackLaws /\ RegisterLaws
      /\ pc = "idle" /\ call = None /\ stack # <<>> /\ Top.at = "split_done"
  BY AtIs DEF SplitDone
<1>2. PICK n : n = back[2]
  OBVIOUS
<1>3. /\ Release(Freed(n)) /\ val' = Without(val, Freed(n), AnyValue)
      /\ stack' = <<>> /\ back' = NoBack /\ UNCHANGED <<bounds, registers, trees>>
  BY <1>2 DEF SplitDone
<1>4. Loose = Freed(n)
  <2>1. Top.at \in Done
    BY <1>1 DEF Done
  <2> QED  BY <1>1, <1>2, <2>1, LastFrame DEF BackNode, Freed
<1>5. Loose' = Loose \ Freed(n) /\ StackLaws(w)'
  BY <1>3, <1>4, EmptyHands
<1>6. BackLaws'
  BY <1>3 DEF BackLaws
<1>7. val' \in [Index -> Values]
  BY <1>1, <1>3, ValuesAssumption DEF TypeOK, Without, AnyValue
<1>8. Freed(n) \in SUBSET Loose
  BY <1>4
<1>9. \A x \in Live \ Loose : val'[x] = val[x]
  BY <1>3, <1>4 DEF Without, Live
<1> QED  BY <1>1, <1>3, <1>5, <1>6, <1>7, <1>8, <1>9, ReleaseKeeps

-----------------------------------------------------------------------------
(* split_at_root: the root comes into hand, the halves are trees.          *)
LEMMA SetsTyped ==
  /\ \A S1 : \A f \in [Index -> S1], m \in Ref, x \in S1 : SetAt(f, m, x) \in [Index -> S1]
  /\ \A f \in [Index -> [Side -> Ref]], m \in Ref, i \in Side, x \in Ref :
       SetLink(f, m, i, x) \in [Index -> [Side -> Ref]]
<1>1. ASSUME NEW S1, NEW f \in [Index -> S1], NEW m \in Ref, NEW x \in S1
      PROVE  SetAt(f, m, x) \in [Index -> S1]
  BY <1>1 DEF SetAt
<1>2. ASSUME NEW f \in [Index -> [Side -> Ref]], NEW m \in Ref, NEW i \in Side, NEW x \in Ref
      PROVE  SetLink(f, m, i, x) \in [Index -> [Side -> Ref]]
  <2> HIDE DEF Side
  <2>1. CASE m = None
    BY <1>2, <2>1 DEF SetLink
  <2>2. CASE m # None
    BY <1>2, <2>2 DEF SetLink
  <2> QED  BY <2>1, <2>2
<1> QED  BY <1>1, <1>2

LEMMA HalvesTyped ==
  ASSUME TypeOK, NEW t \in Trees, NEW r \in Trees, root[t] \in Index, SplitHalves(t, r)
  PROVE  /\ parent' \in [Index -> Ref] /\ child' \in [Index -> [Side -> Ref]]
         /\ order' \in [Index -> [Side -> Ref]] /\ root' \in [Trees -> Ref]
         /\ range' \in [Trees -> [Side -> Ref]] /\ black_height' \in [Trees -> Int]
         /\ HalvesBlack(child[root[t]]) \in [Index -> Color]
         /\ \A x \in Index : parent'[x] = parent[x] \/ parent'[x] = None
<1>1. PICK m : m = root[t]
  OBVIOUS
<1> DEFINE half == child[m]
           inner == [i \in Side |-> IF half[i] = None THEN None ELSE order[m][i]]
<1>2. /\ m \in Index /\ half[0] \in Ref /\ half[1] \in Ref /\ inner[0] \in Ref /\ inner[1] \in Ref
      /\ NoLinks \in [Side -> Ref] /\ order[m][0] \in Ref /\ order[m][1] \in Ref
  BY <1>1 DEF TypeOK, NoLinks
<1>3. /\ parent' = SetAt(SetAt(parent, half[0], None), half[1], None)
      /\ child' = [child EXCEPT ![m] = NoLinks]
      /\ order' = [SetLink(SetLink(order, inner[0], 1, None), inner[1], 0, None) EXCEPT ![m] = NoLinks]
      /\ root' = [root EXCEPT ![t] = half[0], ![r] = half[1]]
      /\ range' = [range EXCEPT ![t] = HalfRange(t, 0, order[m][0]),
                                ![r] = HalfRange(t, 1, order[m][1])]
      /\ black_height' = [black_height EXCEPT ![t] = HalfHeight(t, half[0]),
                                              ![r] = HalfHeight(t, half[1])]
  BY <1>1 DEF SplitHalves
<1>4. PICK c0, c1, i0, i1 : c0 = half[0] /\ c1 = half[1] /\ i0 = inner[0] /\ i1 = inner[1]
  OBVIOUS
<1>5. /\ c0 \in Ref /\ c1 \in Ref /\ i0 \in Ref /\ i1 \in Ref /\ 0 \in Side /\ 1 \in Side /\ None \in Ref
      /\ parent \in [Index -> Ref] /\ order \in [Index -> [Side -> Ref]]
  BY <1>2, <1>4 DEF TypeOK
<1>6. parent' \in [Index -> Ref] /\ \A x \in Index : parent'[x] = parent[x] \/ parent'[x] = None
  <2>1. PICK f : f = SetAt(parent, c0, None)
    OBVIOUS
  <2>2. f \in [Index -> Ref] /\ \A x \in Index : f[x] = IF x = c0 THEN None ELSE parent[x]
    BY <1>5, <2>1, NoneAssumption DEF SetAt
  <2>3. parent' = SetAt(f, c1, None)
    BY <1>3, <1>4, <2>1
  <2>4. parent' \in [Index -> Ref] /\ \A x \in Index : parent'[x] = IF x = c1 THEN None ELSE f[x]
    BY <1>5, <2>2, <2>3, NoneAssumption DEF SetAt
  <2> QED  BY <2>2, <2>4
<1>7. order' \in [Index -> [Side -> Ref]]
  <2>1. SetLink(order, i0, 1, None) \in [Index -> [Side -> Ref]]
    BY <1>5, SetsTyped
  <2>2. SetLink(SetLink(order, i0, 1, None), i1, 0, None) \in [Index -> [Side -> Ref]]
    BY <1>5, <2>1, SetsTyped
  <2> QED  BY <1>2, <1>3, <1>4, <2>2
<1>8. HalvesBlack(child[m]) \in [Index -> Color]
  <2>1. "Black" \in Color /\ color \in [Index -> Color]
    BY DEF TypeOK, Color
  <2>2. SetAt(color, c0, "Black") \in [Index -> Color]
    BY <1>5, <2>1, SetsTyped
  <2>3. SetAt(SetAt(color, c0, "Black"), c1, "Black") \in [Index -> Color]
    BY <1>5, <2>1, <2>2, SetsTyped
  <2> QED  BY <1>4, <2>3 DEF HalvesBlack
<1>9. range' \in [Trees -> [Side -> Ref]]
  <2>1. \A i \in Side, e \in Ref : HalfRange(t, i, e) \in [Side -> Ref]
    BY <1>2 DEF TypeOK, HalfRange
  <2>2. PICK a, b : a = HalfRange(t, 0, order[m][0]) /\ b = HalfRange(t, 1, order[m][1])
    OBVIOUS
  <2>3. a \in [Side -> Ref] /\ b \in [Side -> Ref] /\ range' = [range EXCEPT ![t] = a, ![r] = b]
    BY <1>2, <1>3, <2>1, <2>2
  <2> HIDE DEF Side
  <2> QED  BY <2>3 DEF TypeOK
<1>10. black_height' \in [Trees -> Int]
  <2>1. \A c : HalfHeight(t, c) \in Int
    BY DEF TypeOK, HalfHeight
  <2> QED  BY <1>3, <2>1 DEF TypeOK
<1>11. child' \in [Index -> [Side -> Ref]] /\ root' \in [Trees -> Ref]
  BY <1>2, <1>3 DEF TypeOK
<1> QED  BY <1>1, <1>6, <1>7, <1>8, <1>9, <1>10, <1>11

LEMMA HalveKeeps ==
  ASSUME NEW w, ForestInv(w), pc = "idle", call = None, NEW t \in trees, root[t] # None,
         SplitAtRoot(t, NewTree), UNCHANGED registers, Loose' = Loose \cup {root[t]},
         StackLaws(w)', BackLaws', stack' # <<>>, Top'.at \notin {"link_node", "remove_node", "descend"}
  PROVE  ForestInv(w)'
<1>1. TypeOK /\ RegisterLaws /\ SlotLaws /\ trees \subseteq Trees /\ Loose \subseteq Live
  BY DEF ForestInv, HandLaws, RegisterLaws
<1>2. PICK r, m : r = NewTree /\ m = root[t]
  OBVIOUS
<1>3. /\ trees # Trees /\ SplitHalves(t, r) /\ color' = HalvesBlack(child[m])
      /\ trees' = trees \cup {r} /\ UNCHANGED <<data, cum>>
  BY <1>2 DEF SplitAtRoot
<1>4. r \in Trees /\ r \notin trees /\ t # r /\ root[r] = None
  BY <1>1, <1>2, <1>3, NewHandle DEF RegisterLaws
<1>5. m \in Live \ Loose /\ m \in Index /\ m # None
  BY <1>1, <1>2, EndsIs DEF Live
<1>6. /\ pc' = pc /\ call' = call /\ node' = node /\ ptr' = ptr /\ par' = par /\ dir' = dir
      /\ key' = key /\ val' = val /\ cum' = cum /\ Live' = Live
  BY <1>3 DEF registers, data, Live
<1>7. /\ parent' \in [Index -> Ref] /\ child' \in [Index -> [Side -> Ref]]
      /\ order' \in [Index -> [Side -> Ref]] /\ root' \in [Trees -> Ref]
      /\ range' \in [Trees -> [Side -> Ref]] /\ black_height' \in [Trees -> Int]
      /\ color' \in [Index -> Color]
      /\ \A x \in Index : parent'[x] = parent[x] \/ parent'[x] = None
  BY <1>1, <1>2, <1>3, <1>4, <1>5, HalvesTyped
<1>8. TypeOK'
  BY <1>1, <1>6, <1>7 DEF TypeOK
<1>9. PICK D \in [Ref -> SUBSET Index], rk \in [Index -> Int], h \in [Ref -> Nat] : TreeLaw(D, rk, h)
  BY DEF ForestInv, TreeLawsHold
<1>10. S!Laws(D, rk) /\ S!BalanceLaws(h) /\ S!Live = Live \ Loose /\ S!Live' = Live' \ Loose' /\ S!Hung = S!Live
  BY <1>1, <1>9, ShadowLive, IdleShadow DEF TreeLaw
<1>11. S!Halving(t, r, m)
  <2>1. HungKey' = [HungKey EXCEPT ![m] = None]
    BY <1>2, <1>5, <1>6 DEF HungKey
  <2>2. S!SplitHalves(t, r)
    BY <1>3 DEF SplitHalves, S!SplitHalves, SetAt, S!SetAt, SetLink, S!SetLink, HalfRange, S!HalfRange,
                HalfHeight, S!HalfHeight, IsRed, S!IsRed, NoLinks, S!NoLinks
  <2>3. \A x \in Index : x # m => color'[x] = S!HalvesBlack(child[m])[x]
    BY <1>3 DEF HalvesBlack, S!HalvesBlack, SetAt, S!SetAt
  <2> QED  BY <1>2, <1>4, <1>5, <1>6, <2>1, <2>2, <2>3 DEF S!Halving
<1>12. S!Spared /\ S!Laws(D, rk)' /\ \E g \in [Ref -> Nat] : S!BalanceLaws(g)'
  BY <1>1, <1>4, <1>8, <1>10, <1>11, HalvingKeeps
<1>13. \A x \in Index : x \notin Live \/ x \in Loose =>
         parent'[x] = parent[x] /\ child'[x] = child[x] /\ order'[x] = order[x]
  BY <1>6, <1>10, <1>12 DEF S!Spared
<1>14. FreeSlotsBlank'
  BY <1>1, <1>6, <1>13 DEF SlotLaws, FreeSlotsBlank
<1>15. NoCycle(Loose', parent')
  <2>1. parent[m] = None
    BY <1>1, <1>2, <1>5, <1>10 DEF S!Laws, S!LinkLaws, S!Shape, S!Rooted
  <2>2. parent'[m] \notin Loose'
    BY <1>1, <1>2, <1>5, <1>7, <2>1, NoneAssumption DEF Live
  <2>3. \A x \in Loose : parent'[x] = parent[x]
    BY <1>1, <1>13 DEF Live
  <2> QED  BY <1>1, <1>2, <2>2, <2>3, LooseGrows DEF SlotLaws
<1>16. SlotLaws'
  BY <1>14, <1>15 DEF SlotLaws
<1>17. \A u \in Trees \ trees' : root'[u] = None /\ range'[u] = NoLinks
  BY <1>1, <1>2, <1>3, <1>4 DEF RegisterLaws, TypeOK, SplitHalves
<1>18. trees' \subseteq Trees /\ Loose' \subseteq Live'
  BY <1>1, <1>2, <1>3, <1>4, <1>5, <1>6
<1>19. RegisterLaws'
  BY <1>6, <1>17, <1>18 DEF RegisterLaws
<1>w. w[3] => S!WayLaws'
  BY <1>1, <1>4, <1>6, <1>8, <1>10, <1>11, HalvingTends DEF ForestInv, Tended
<1> QED  BY <1>8, <1>12, <1>16, <1>19, <1>w, Assembled DEF HandLaws

LEMMA SplitInsideKeeps == ASSUME NEW w, ForestInv(w), SplitInside PROVE ForestInv(w)'
<1>1. /\ TypeOK /\ StackLaws(w) /\ BackLaws /\ RegisterLaws
      /\ pc = "idle" /\ call = None /\ stack # <<>> /\ Top.at = "split_node" /\ Top \in FrameType(w)
      /\ None \notin Trees /\ None \notin Index /\ trees \subseteq Trees
  BY AtIs DEF SplitInside
<1>2. PICK t, k, m, r : t = Top.this /\ k = Top.key /\ m = root[t] /\ r = NewTree
  OBVIOUS
<1>3. t \in Trees /\ k \in Keys /\ Handles(Top) = {t} /\ InHand(Top) = {}
  BY <1>1, <1>2, FrameFields, FrameHands
<1>4. Top.at \notin Done /\ stack[2].at \in AskSplit
  <2>1. Top.at \notin Done /\ Top.at \in Splitting
    BY <1>1 DEF Done, Splitting
  <2> QED  BY <1>1, <2>1, WaitsBelow DEF Fits
<1>5. /\ m # None /\ SplitAtRoot(t, r) /\ UNCHANGED <<registers, answer>>
      /\ \/ Continue(<<>>) /\ back' = <<t, m, r>>
         \/ Continue(<<SplitNode(t, k), Frame("rejoin_right", None, m, r)>>) /\ UNCHANGED back
         \/ Continue(<<SplitNode(r, k), Frame("rejoin_left", t, m, None)>>) /\ UNCHANGED back
  BY <1>2 DEF SplitInside
<1>6. t \in trees /\ r \in Trees /\ r \notin trees /\ r # t /\ trees' = trees \cup {r} /\ trees # Trees
  BY <1>1, <1>2, <1>3, <1>5, TopHeld, NewHandle DEF SplitAtRoot
<1>7. m \in Live \ Loose /\ m \in Index
  BY <1>1, <1>2, <1>3, <1>5, EndsIs DEF Live
<1>8. back = NoBack /\ BackHandles = {} /\ BackNode = {}
  BY <1>1 DEF BackLaws, BackHandles, BackNode, NoBack
<1>9. /\ StackLaws(w)' /\ BackLaws' /\ stack' # <<>> /\ Loose' = Loose \cup {m}
      /\ Top'.at \notin {"link_node", "remove_node", "descend"}
  <2>1. CASE Continue(<<>>) /\ back' = <<t, m, r>>
    <3>1. BackHandles' = {t, r} /\ BackNode' = {m}
      BY <1>1, <1>3, <1>6, <1>7, <2>1 DEF BackHandles, BackNode
    <3>2. BackDealt
      BY <1>3, <1>6, <1>7, <3>1 DEF BackDealt, HeldTop, NodesTop
    <3>3. StackLaws(w)' /\ stack' # <<>> /\ Top' = stack[2] /\ Loose' = (Loose \ NodesTop) \cup BackNode'
      BY <1>1, <1>4, <2>1, <3>2, StackPop
    <3>4. SplitBack'
      BY <1>6, <1>7, <2>1 DEF SplitBack
    <3>5. BackLaws'
      <4>1. stack' # <<>> /\ Top'.at \in AskSplit
        BY <1>4, <3>3
      <4> QED  BY <3>4, <4>1 DEF BackLaws, Inserting2, Removal, AskTree, AskSplit, AskNode
    <3>6. Loose' = Loose \cup {m}
      BY <1>3, <1>8, <3>1, <3>3 DEF NodesTop
    <3>7. Top'.at \notin {"link_node", "remove_node", "descend"}
      BY <1>4, <3>3 DEF AskSplit
    <3> QED  BY <3>3, <3>5, <3>6, <3>7
  <2>2. ASSUME NEW a \in {t, r}, NEW f \in FrameType(w), NEW g \in FrameType(w), Continue(<<f, g>>), UNCHANGED back,
               f.at = "split_node", Handles(f) = {a}, InHand(f) = {},
               g.at \in {"rejoin_right", "rejoin_left"}, Handles(g) = {t, r} \ {a}, InHand(g) = {m}
        PROVE  /\ StackLaws(w)' /\ BackLaws' /\ stack' # <<>> /\ Loose' = Loose \cup {m}
               /\ Top'.at \notin {"link_node", "remove_node", "descend"}
    <3>1. BackHandles' = {} /\ BackNode' = {} /\ back' = NoBack
      BY <1>8, <2>2 DEF BackHandles, BackNode
    <3>2. Dealt(f) /\ Dealt(g) /\ NoneTwice(f, g) /\ BackDealt
      BY <1>3, <1>6, <1>7, <2>2, <3>1 DEF Dealt, NoneTwice, BackDealt, HeldTop, NodesTop
    <3>3. Fits(f, g) /\ Fits(g, stack[2])
      BY <1>4, <2>2 DEF Fits, Done, Removal, Splitting, AskSplit
    <3>4. /\ StackLaws(w)' /\ stack' # <<>> /\ Top' = f
          /\ Loose' = (Loose \ NodesTop) \cup BackNode' \cup InHand(f) \cup InHand(g)
      BY <1>1, <1>4, <2>2, <3>2, <3>3, StackPush
    <3>5. Loose' = Loose \cup {m}
      BY <1>3, <1>8, <2>2, <3>1, <3>4 DEF NodesTop
    <3>6. BackLaws'
      BY <2>2, <3>1, <3>4 DEF BackLaws, Inserting2, Removal, AskTree, AskSplit, AskNode
    <3> QED  BY <2>2, <3>4, <3>5, <3>6
  <2>3. CASE Continue(<<SplitNode(t, k), Frame("rejoin_right", None, m, r)>>) /\ UNCHANGED back
    <3> DEFINE f == SplitNode(t, k)
               g == Frame("rejoin_right", None, m, r)
    <3>1. f \in FrameType(w) /\ g \in FrameType(w) /\ Continue(<<f, g>>)
      BY <1>3, <1>6, <1>7, <2>3, FramesMade
    <3>2. f.at = "split_node" /\ f.this = t /\ g.at = "rejoin_right" /\ g.node = m /\ g.that = r
      BY DEF SplitNode, Frame
    <3> HIDE DEF f, g
    <3>3. Handles(f) = {t} /\ InHand(f) = {} /\ Handles(g) = {r} /\ InHand(g) = {m}
      BY <3>1, <3>2, FrameHands
    <3>4. {r} = {t, r} \ {t}
      BY <1>6
    <3> QED  BY <2>2, <2>3, <3>1, <3>2, <3>3, <3>4
  <2>4. CASE Continue(<<SplitNode(r, k), Frame("rejoin_left", t, m, None)>>) /\ UNCHANGED back
    <3> DEFINE f == SplitNode(r, k)
               g == Frame("rejoin_left", t, m, None)
    <3>1. f \in FrameType(w) /\ g \in FrameType(w) /\ Continue(<<f, g>>)
      BY <1>3, <1>6, <1>7, <2>4, FramesMade
    <3>2. f.at = "split_node" /\ f.this = r /\ g.at = "rejoin_left" /\ g.node = m /\ g.this = t
      BY DEF SplitNode, Frame
    <3> HIDE DEF f, g
    <3>3. Handles(f) = {r} /\ InHand(f) = {} /\ Handles(g) = {t} /\ InHand(g) = {m}
      BY <3>1, <3>2, FrameHands
    <3>4. {t} = {t, r} \ {r}
      BY <1>6
    <3> QED  BY <2>2, <2>4, <3>1, <3>2, <3>3, <3>4
  <2> QED  BY <1>5, <2>1, <2>3, <2>4
<1>10. root[t] # None /\ SplitAtRoot(t, NewTree) /\ UNCHANGED registers /\ Loose' = Loose \cup {root[t]}
  BY <1>2, <1>5, <1>9
<1> QED  BY <1>1, <1>6, <1>9, <1>10, HalveKeeps

LEMMA MergeSplitKeeps == ASSUME NEW w, ForestInv(w), MergeSplit PROVE ForestInv(w)'
<1>1. /\ TypeOK /\ StackLaws(w) /\ BackLaws /\ RegisterLaws
      /\ pc = "idle" /\ call = None /\ stack # <<>> /\ Top.at = "union_merge" /\ Top \in FrameType(w)
      /\ None \notin Trees /\ None \notin Index /\ trees \subseteq Trees
  BY AtIs DEF MergeSplit, NeitherSmall
<1>2. PICK a, t, m, r : a = Top.this /\ t = Top.that /\ m = root[t] /\ r = NewTree
  OBVIOUS
<1>3. a \in Trees /\ t \in Trees /\ a # t /\ Handles(Top) = {a, t} /\ InHand(Top) = {}
  BY <1>1, <1>2, FrameFields, FrameHands
<1>4. Top.at \notin Done /\ stack[2].at \in AskTree
  <2>1. Top.at \notin Done \cup Removal \cup Splitting
    BY <1>1 DEF Done, Removal, Splitting
  <2> QED  BY <1>1, <2>1, WaitsBelow DEF Fits
<1>5. /\ SplitAtRoot(t, r) /\ UNCHANGED <<registers, back, answer>> /\ ~IsEmpty(t)
      /\ Continue(<<SplitNode(a, key[m]), Frame("merge_root", t, m, r)>>)
  BY <1>2 DEF MergeSplit, NeitherSmall, IsSmall
<1>6. /\ a \in trees /\ t \in trees /\ r \in Trees /\ r \notin trees /\ r # t /\ r # a
      /\ trees' = trees \cup {r} /\ trees # Trees
  BY <1>1, <1>2, <1>3, <1>5, TopHeld, NewHandle DEF SplitAtRoot
<1>7. m # None /\ m \in Live \ Loose /\ m \in Index /\ key[m] \in Keys
  <2>1. root[t] # None
    BY <1>1, <1>3, <1>5, EndsIs
  <2>2. m # None /\ m \in Live \ Loose
    BY <1>1, <1>2, <1>3, <2>1, EndsIs
  <2> QED  BY <1>1, <2>2 DEF Live, TypeOK
<1>8. /\ back = NoBack /\ BackHandles = {} /\ BackNode = {} /\ back' = NoBack
      /\ BackHandles' = {} /\ BackNode' = {}
  BY <1>1, <1>5 DEF BackLaws, BackHandles, BackNode, NoBack
<1> DEFINE f == SplitNode(a, key[m])
           g == Frame("merge_root", t, m, r)
<1>9. f \in FrameType(w) /\ g \in FrameType(w) /\ Continue(<<f, g>>)
  BY <1>3, <1>5, <1>6, <1>7, FramesMade
<1>10. f.at = "split_node" /\ f.this = a /\ g.at = "merge_root" /\ g.this = t /\ g.node = m /\ g.that = r
  BY DEF SplitNode, Frame
<1> HIDE DEF f, g
<1>11. Handles(f) = {a} /\ InHand(f) = {} /\ Handles(g) = {t, r} /\ InHand(g) = {m}
  BY <1>9, <1>10, FrameHands
<1>12. Dealt(f) /\ Dealt(g) /\ NoneTwice(f, g) /\ BackDealt
  BY <1>3, <1>6, <1>7, <1>8, <1>11 DEF Dealt, NoneTwice, BackDealt, HeldTop, NodesTop
<1>13. Fits(f, g) /\ Fits(g, stack[2])
  BY <1>4, <1>10 DEF Fits, Done, Removal, Splitting, AskSplit
<1>14. /\ StackLaws(w)' /\ stack' # <<>> /\ Top' = f
       /\ Loose' = (Loose \ NodesTop) \cup BackNode' \cup InHand(f) \cup InHand(g)
  BY <1>1, <1>4, <1>9, <1>12, <1>13, StackPush
<1>15. Loose' = Loose \cup {m}
  BY <1>3, <1>8, <1>11, <1>14 DEF NodesTop
<1>16. BackLaws'
  BY <1>8, <1>10, <1>14 DEF BackLaws, Inserting2, Removal, AskTree, AskSplit, AskNode
<1>17. /\ root[t] # None /\ SplitAtRoot(t, NewTree) /\ UNCHANGED registers /\ Loose' = Loose \cup {root[t]}
       /\ Top'.at \notin {"link_node", "remove_node", "descend"}
  BY <1>2, <1>5, <1>7, <1>10, <1>14, <1>15
<1> QED  BY <1>1, <1>6, <1>14, <1>16, <1>17, HalveKeeps

-----------------------------------------------------------------------------
(* join_unchecked hangs the pivot and the lower tree into the higher one.  *)
LEMMA AttachTyped ==
  ASSUME TypeOK, NEW a \in Trees, NEW b \in Trees, NEW i \in Side, NEW n \in Index, NEW at \in Index,
         NEW k \in Keys, NEW v \in Values, root[b] \in Index, range[a][1 - i] \in Index, range[b][i] \in Index,
         Attach(a, b, i, n, at, k, v), UNCHANGED <<data, cum>>
  PROVE  TypeOK'
<1>1. PICK p \in Ref, c \in Index, near \in Index, far \in Index, e \in Ref :
        /\ p = parent[at] /\ c = root[b] /\ near = range[a][1 - i] /\ far = range[b][i]
        /\ e = range[b][1 - i]
  BY DEF TypeOK
<1>2. /\ parent' = [parent EXCEPT ![n] = p, ![at] = n, ![c] = n]
      /\ child' = [ReplacedChild(at, n) EXCEPT ![n] = [j \in Side |-> IF j = i THEN at ELSE c]]
      /\ order' = [order EXCEPT ![n] = [j \in Side |-> IF j = i THEN near ELSE far],
                                ![near][1 - i] = n, ![far][i] = n]
      /\ range' = [range EXCEPT ![a][1 - i] = e, ![b] = NoLinks]
      /\ color' = [color EXCEPT ![n] = IF p = None THEN "Black" ELSE "Red"]
      /\ root' = [root EXCEPT ![a] = IF p = None THEN n ELSE @, ![b] = None]
      /\ black_height' = [black_height EXCEPT ![a] = IF p = None THEN @ + 1 ELSE @, ![b] = 0]
      /\ pc' = IF p # None /\ parent[p] # None THEN "fix_insert" ELSE "propagate"
      /\ call' = [op |-> "insert", tree |-> a, key |-> k, val |-> v]
      /\ node' = n /\ ptr' = n /\ par' = par /\ dir' = dir
  BY <1>1 DEF Attach, EndsMoved
<1>3. 1 - i \in Side /\ n \in Ref /\ NoLinks \in [Side -> Ref]
  BY DEF NoLinks
<1>4. parent' \in [Index -> Ref] /\ root' \in [Trees -> Ref] /\ black_height' \in [Trees -> Int] /\ color' \in [Index -> Color]
  <2>1. /\ parent \in [Index -> Ref] /\ root \in [Trees -> Ref]
        /\ black_height \in [Trees -> Int] /\ color \in [Index -> Color]
    BY DEF TypeOK
  <2>2. parent' \in [Index -> Ref]
    BY <1>2, <1>3, <2>1
  <2>3. root' \in [Trees -> Ref]
    BY <1>2, <1>3, <2>1
  <2>4. black_height' \in [Trees -> Int]
    BY <1>2, <2>1
  <2>5. color' \in [Index -> Color]
    BY <1>2, <2>1 DEF Color
  <2> QED  BY <2>2, <2>3, <2>4, <2>5
<1>5. child' \in [Index -> [Side -> Ref]]
  <2>1. SideOf(p, at) \in Side
    BY DEF SideOf
  <2>2. ReplacedChild(at, n) \in [Index -> [Side -> Ref]]
    BY <1>1, <1>3, <2>1, SetsTyped DEF ReplacedChild, TypeOK
  <2>3. [j \in Side |-> IF j = i THEN at ELSE c] \in [Side -> Ref]
    OBVIOUS
  <2> QED  BY <1>2, <2>2, <2>3
<1>6. order' \in [Index -> [Side -> Ref]]
  <2> DEFINE g == [j \in Side |-> IF j = i THEN near ELSE far]
             f == [order EXCEPT ![n] = g]
             h == [f EXCEPT ![near][1 - i] = n]
  <2>1. g \in [Side -> Ref]
    OBVIOUS
  <2>2. order' = [h EXCEPT ![far][i] = n]
    BY <1>2
  <2> HIDE DEF g, Side, Ref
  <2>3. f \in [Index -> [Side -> Ref]]
    BY <2>1 DEF TypeOK
  <2> HIDE DEF f
  <2>4. h \in [Index -> [Side -> Ref]]
    BY <1>3, <2>3
  <2> HIDE DEF h
  <2> QED  BY <1>3, <2>2, <2>4
<1>7. range' \in [Trees -> [Side -> Ref]]
  <2> DEFINE f == [range EXCEPT ![a][1 - i] = e]
  <2>1. range' = [f EXCEPT ![b] = NoLinks]
    BY <1>2
  <2> HIDE DEF Side, Ref
  <2>2. f \in [Trees -> [Side -> Ref]]
    BY <1>1, <1>3 DEF TypeOK
  <2> HIDE DEF f
  <2> QED  BY <1>3, <2>1, <2>2
<1>8. pc' \in PC /\ call' \in Call
  BY <1>2 DEF PC, InsertStep, Call
<1>9. key' = key /\ val' = val /\ cum' = cum
  BY DEF data
<1>10. /\ key \in [Index -> Keys \cup {None}] /\ val \in [Index -> Values]
       /\ cum \in [Index -> Cumulants] /\ par \in Ref /\ dir \in Side
  BY DEF TypeOK
<1>11. node' \in Ref /\ ptr' \in Ref /\ par' = par /\ dir' = dir
  BY <1>2, <1>3
<1>12. /\ call' \in Call \cup {None} /\ (pc' # "idle" => call' \in Call)
       /\ node' # None /\ ptr' # None /\ pc' \notin FixRemoveStep
  BY <1>2, <1>8, NoneAssumption DEF FixRemoveStep
<1> HIDE DEF Side, Ref
<1> QED  BY <1>4, <1>5, <1>6, <1>7, <1>8, <1>9, <1>10, <1>11, <1>12 DEF TypeOK

(* What it writes to the trees.                                            *)
LEMMA AttachBounds ==
  ASSUME TypeOK, NEW a \in Trees, NEW b \in Trees, a # b, NEW i \in Side, NEW n, NEW at, NEW k, NEW v,
         Attach(a, b, i, n, at, k, v)
  PROVE  /\ root'[b] = None /\ range'[b] = NoLinks
         /\ \A t \in Trees : t # a /\ t # b => root'[t] = root[t] /\ range'[t] = range[t]
<1>1. PICK e \in Ref, j \in Side : e = range[b][1 - i] /\ j = 1 - i
  BY DEF TypeOK
<1>2. range' = [range EXCEPT ![a][j] = e, ![b] = NoLinks]
  BY <1>1 DEF Attach, EndsMoved
<1>3. range'[b] = NoLinks /\ \A t \in Trees : t # a /\ t # b => range'[t] = range[t]
  BY <1>2 DEF TypeOK
<1>4. root'[b] = None /\ \A t \in Trees : t # a /\ t # b => root'[t] = root[t]
  BY DEF TypeOK, Attach
<1> QED  BY <1>3, <1>4

LEMMA JoinAttachKeeps ==
  ASSUME NEW w, ForestInv(w), JoinAttach, ~IsRed(Top.index)
  PROVE  ForestInv(w)'
<1>1. /\ TypeOK /\ StackLaws(w) /\ BackLaws /\ RegisterLaws
      /\ pc = "idle" /\ call = None /\ stack # <<>> /\ Top.at = "descend" /\ Top \in FrameType(w)
      /\ None \notin Trees /\ None \notin Index /\ trees \subseteq Trees
  BY AtIs DEF JoinAttach
<1>2. PICK a \in Trees, b \in Trees, i \in Side, n \in Index, at \in Index :
        /\ a = Top.this /\ b = Top.that /\ i = Top.side /\ n = Top.node /\ at = Top.index
        /\ Handles(Top) = {b} /\ InHand(Top) = {n}
  BY <1>1, FrameFields, FrameHands
<1>3. Top.at \notin Done /\ stack[2].at \in AskTree
  <2>1. Top.at \notin Done \cup Removal \cup Splitting
    BY <1>1 DEF Done, Removal, Splitting
  <2> QED  BY <1>1, <2>1, WaitsBelow DEF Fits
<1>4. PICK k, v : k = key[n] /\ v = val[n]
  OBVIOUS
<1>5. /\ Top.diff = 0 /\ Attach(a, b, i, n, at, k, v) /\ trees' = trees \ {b} /\ Continue(<<>>)
      /\ UNCHANGED <<data, cum, back, answer>> /\ ~IsRed(at)
  BY <1>2, <1>4 DEF JoinAttach
<1>6. a \in trees /\ back = <<a, None, None>> /\ b \in trees /\ n \in Loose
  BY <1>1, <1>2, TopHeld DEF BackLaws
<1>7. SlotLaws /\ Loose \subseteq Live
  BY DEF ForestInv, HandLaws, RegisterLaws
<1>8. k \in Keys /\ v \in Values /\ n \in Live
  BY <1>1, <1>4, <1>6, <1>7 DEF Live, TypeOK
<1>9. PICK D \in [Ref -> SUBSET Index], rk \in [Index -> Int], h \in [Ref -> Nat] : TreeLaw(D, rk, h)
  BY DEF ForestInv, TreeLawsHold
<1>10. S!Laws(D, rk) /\ S!BalanceLaws(h) /\ S!JoinPlace(D, a, b, i, n, at, k) /\ h[at] = h[root[b]]
  <2>1. S!Laws(D, rk) /\ S!BalanceLaws(h) /\ Passing(D, h, a, b, i, n, at, k, Top.diff)
    BY <1>1, <1>2, <1>4, <1>9 DEF TreeLaw, GoingDown, Inside
  <2>2. h[root[b]] \in Nat
    BY <1>1 DEF TypeOK
  <2> QED  BY <1>5, <2>1, <2>2 DEF Passing
<1>11. a # b /\ root[b] # None /\ root[a] # None
  <2>1. a # b /\ root[b] # None /\ at \in D[root[a]]
    BY <1>10 DEF S!JoinPlace
  <2>2. D[None] = {}
    BY <1>1, <1>9, TreeFacts DEF AtRest
  <2> QED  BY <2>1, <2>2
<1>12. root[b] \in Index /\ range[a][1 - i] \in Index /\ range[b][i] \in Index
  <2>1. PICK j \in Side : j = 1 - i
    OBVIOUS
  <2>2. \A t \in Trees : \A s \in Side : range[t][s] = None <=> root[t] = None
    BY <1>1, EndsIs
  <2>3. range[a][j] # None /\ range[b][i] # None
    BY <1>11, <2>1, <2>2
  <2>4. /\ \A t \in Trees : \A s \in Side : range[t][s] # None => range[t][s] \in Live \ Loose
        /\ \A t \in Trees : root[t] # None => root[t] \in Live \ Loose
    BY <1>1, EndsIs
  <2>5. range[a][j] \in Index /\ range[b][i] \in Index /\ root[b] \in Index
    BY <1>11, <2>3, <2>4 DEF Live
  <2> QED  BY <2>1, <2>5
<1>13. TypeOK'
  BY <1>1, <1>5, <1>8, <1>12, AttachTyped
<1>14. BackHandles = {a} /\ BackHandles' = {a} /\ BackNode = {} /\ BackNode' = {}
  BY <1>1, <1>5, <1>6 DEF BackHandles, BackNode
<1>15. BackDealt
  BY <1>2, <1>5, <1>6, <1>14 DEF BackDealt, HeldTop, NodesTop
<1>16. StackLaws(w)' /\ stack' # <<>> /\ Top' = stack[2] /\ Loose' = (Loose \ NodesTop) \cup BackNode'
  BY <1>1, <1>3, <1>5, <1>15, StackPop
<1>17. Loose' = Loose \ {n} /\ Loose' \subseteq Loose
  BY <1>2, <1>14, <1>16 DEF NodesTop
<1>18. Live' = Live /\ key' = key
  BY <1>5 DEF data, Live
<1>19. S!Attaching(D, a, b, i, n, at, k, v)
  <2>1. HungKey' = [HungKey EXCEPT ![n] = k]
    BY <1>4, <1>17, <1>18 DEF HungKey
  <2>2. S!Attach(a, b, i, n, at, k, v)
    BY <1>5 DEF Attach, S!Attach, EndsMoved, S!EndsMoved, ReplacedChild, S!ReplacedChild,
                SetLink, S!SetLink, SideOf, S!SideOf, NoLinks, S!NoLinks
  <2>3. n \in Index \ S!Live
    BY <1>6, ShadowLive
  <2> QED  BY <1>1, <1>8, <1>10, <2>1, <2>2, <2>3 DEF S!Attaching
<1>20. /\ S!Spared
       /\ \E E \in [Ref -> SUBSET Index], s \in [Index -> Int] : S!Laws(E, s)'
       /\ \E g \in [Ref -> Nat] : S!BalanceLaws(g)'
  <2>1. ~S!IsRed(at)
    BY <1>5 DEF IsRed, S!IsRed
  <2> QED  BY <1>1, <1>10, <1>13, <1>19, <2>1, AttachKeeps
<1>21. SlotLaws'
  BY <1>7, <1>17, <1>18, <1>20, SlotsSpared
<1>22. TreeBack' /\ BackLaws'
  <2>1. TreeBack'
    BY <1>5, <1>6, <1>11 DEF TreeBack
  <2>2. stack' # <<>> /\ Top'.at \in AskTree
    BY <1>3, <1>16
  <2> QED  BY <2>1, <2>2 DEF BackLaws, Inserting2, Removal, AskTree, AskSplit, AskNode
<1>23. RegisterLaws'
  <2>1. \A t \in Trees \ trees' : root'[t] = None /\ range'[t] = NoLinks
    BY <1>1, <1>5, <1>6, <1>11, AttachBounds DEF RegisterLaws
  <2>2. call' # None => call'.tree \in trees'
    BY <1>5, <1>6, <1>11 DEF Attach
  <2>3. trees' \subseteq Trees /\ Loose' \subseteq Live'
    BY <1>1, <1>5, <1>7, <1>17, <1>18
  <2>4. Top'.at \in AskTree
    BY <1>3, <1>16
  <2> QED  BY <2>1, <2>2, <2>3, <2>4 DEF RegisterLaws, AskTree, Waiting
<1>24. Top'.at # "descend"
  BY <1>3, <1>16 DEF AskTree
<1>w. w[3] => S!WayLaws'
  <2>1. UNCHANGED <<val, cum>>
    BY <1>5 DEF data
  <2> QED  BY <1>1, <1>10, <1>13, <1>19, <2>1, AttachTends DEF ForestInv, Tended
<1> QED  BY <1>13, <1>16, <1>20, <1>21, <1>22, <1>23, <1>24, <1>w, Assembled DEF HandLaws

-----------------------------------------------------------------------------
(* clear: the thread runs through all nodes of the tree.                   *)

(* Closure iterates by a function that is defined by itself (TreeLaws).    *)
OnwardFn(f) ==
  [R \in SUBSET Ref |->
     LET next == R \cup UNION {Onward(m) : m \in R}
     IN  IF next = R THEN R ELSE f[next]]

(* Strand(t) is the least set with the first node of t that is closed      *)
(* under going on along the thread.                                        *)
LEMMA StrandLeast ==
  ASSUME IsFiniteSet(Ref), order \in [Index -> [Side -> Ref]], NEW t, NEW n \in Ref, range[t][0] = n
  PROVE  \E X \in SUBSET Ref :
           /\ n \in X /\ \A m \in X : Onward(m) \subseteq X
           /\ \A Y \in SUBSET Ref : n \in Y /\ (\A m \in Y : Onward(m) \subseteq Y) => X \subseteq Y
           /\ Strand(t) = X \ {None}
<1> DEFINE G == [R \in SUBSET Ref |-> R \cup UNION {Onward(m) : m \in R}]
           Q(f) == f = OnwardFn(f)
           Reached == CHOOSE f : Q(f)
<1>0. \A m \in Ref : Onward(m) \subseteq Ref
  BY DEF Onward, Side, Ref
<1>1. Strand(t) = Reached[{n}] \ {None}
  BY DEF Strand, Closure, OnwardFn
<1>2. G \in [SUBSET Ref -> SUBSET Ref]
  BY <1>0
<1>3. \A M \in SUBSET Ref : M \subseteq G[M]
  OBVIOUS
<1>4. \A M, N \in SUBSET Ref : M \subseteq N => G[M] \subseteq G[N]
  OBVIOUS
<1>5. \A R \in SUBSET Ref : G[R] = R <=> \A m \in R : Onward(m) \subseteq R
  OBVIOUS
<1>6. PICK W \in [SUBSET Ref -> SUBSET Ref] :
           /\ \A M \in SUBSET Ref : W[M] = IF G[M] = M THEN M ELSE W[G[M]]
           /\ \A M \in SUBSET Ref : M \subseteq W[M] /\ G[W[M]] = W[M]
           /\ \A M, X \in SUBSET Ref : M \subseteq X /\ G[X] = X => W[M] \subseteq X
  <2> HIDE DEF G, Side, Ref
  <2> QED  BY ZenonT(40), <1>2, <1>3, <1>4, LeastClosed
<1>7. Q(W)
  <2>1. W = [R \in SUBSET Ref |-> IF G[R] = R THEN R ELSE W[G[R]]]
    <3> HIDE DEF G
    <3> QED  BY <1>6
  <2> QED  BY <2>1 DEF OnwardFn
<1>8. Q(Reached)
  <2> HIDE DEF Q
  <2> QED  BY <1>7
<1>9. \A R \in SUBSET Ref : Reached[R] = IF G[R] = R THEN R ELSE Reached[G[R]]
  <2> HIDE DEF Reached
  <2>1. Reached = OnwardFn(Reached)
    BY <1>8
  <2>2. \A R \in SUBSET Ref : OnwardFn(Reached)[R] = IF G[R] = R THEN R ELSE Reached[G[R]]
    BY DEF OnwardFn
  <2> QED  BY <2>1, <2>2
<1>10. Reached[{n}] = W[{n}]
  <2>1. Grows(Ref, G)
    BY <1>2, <1>3 DEF Grows
  <2>1a. Iterates(Ref, G, W) /\ Iterates(Ref, G, Reached)
    <3> HIDE DEF G, Reached
    <3> QED  BY <1>6, <1>9 DEF Iterates
  <2>2. {n} \in SUBSET Ref
    BY DEF Ref
  <2>3. PICK M0 \in SUBSET Ref : M0 = {n}
    BY <2>2
  <2> HIDE DEF G, Reached
  <2>4. Reached[M0] = W[M0]
    BY <2>1, <2>1a, ClosureUnique
  <2> QED  BY <2>3, <2>4
<1>11. W[{n}] \in SUBSET Ref /\ {n} \subseteq W[{n}] /\ G[W[{n}]] = W[{n}] 
  <2>1. {n} \in SUBSET Ref
    BY DEF Ref
  <2> HIDE DEF G
  <2> QED  BY <2>1, <1>6
<1>12. ASSUME NEW Y \in SUBSET Ref, n \in Y, \A m \in Y : Onward(m) \subseteq Y
       PROVE  W[{n}] \subseteq Y
  <2>1. {n} \in SUBSET Ref /\ {n} \subseteq Y /\ G[Y] = Y
    BY <1>12, <1>5 DEF Ref
  <2> HIDE DEF G
  <2> QED BY <2>1, <1>6
<1> HIDE DEF G, Reached, Q
<1> QED  BY <1>1, <1>5, <1>10, <1>11, <1>12

(* A set of nodes has one of least rank.                                   *)
LEMMA LeastRank ==
  ASSUME NEW T \in SUBSET Index, T # {}, NEW rk \in [Index -> Int]
  PROVE  \E m \in T : \A x \in T : ~(rk[x] < rk[m])
<1> DEFINE Up(y) == {m \in T : ~(rk[m] < rk[y])}
           B == {Up(y) : y \in T}
<1>1. B \in SUBSET SUBSET Index /\ B # {} /\ IsFiniteSet(Index)
  BY IndexAssumption
<1>2. PICK M \in B : \A N \in B : M \subseteq N => N = M
  <2> HIDE DEF B
  <2> QED  BY <1>1, AscentEnds
<1>3. PICK m \in T : M = Up(m)
  OBVIOUS
<1>4. ASSUME NEW x \in T, rk[x] < rk[m] PROVE FALSE
  <2>1. Up(x) \in B /\ x \in Up(x) /\ x \notin Up(m)
    BY <1>4
  <2>2. \A y \in Up(m) : y \in Up(x)
    BY <1>4
  <2>3. M \subseteq Up(x)
    BY <1>3, <2>2
  <2> HIDE DEF Up, B
  <2> QED  BY <1>2, <1>3, <2>1, <2>3
<1> QED  BY <1>4

LEMMA StrandIs ==
  ASSUME TypeOK, NEW D \in [Ref -> SUBSET Index], NEW rk \in [Index -> Int], S!Laws(D, rk), pc = "idle",
         NEW t \in Trees
  PROVE  Strand(t) = D[root[t]]
<1>1. PICK T \in SUBSET Index, e \in Ref : T = D[root[t]] /\ e = range[t][0]
  BY DEF TypeOK
<1>2. order \in [Index -> [Side -> Ref]] /\ range[t] \in [Side -> Ref] /\ None \notin Index /\ IsFiniteSet(Ref)
  BY NoneAssumption, RefFinite DEF TypeOK
<1>3. S!Thread(T, order, range[t], rk)
  <2>1. S!Strung(D, t) = T
    BY <1>1 DEF S!Strung, S!Unlinked
  <2> QED  BY <2>1 DEF S!Laws, S!StringLaws
<1>4. Thread(T, order, range[t], rk)
  BY <1>3 DEF S!Thread, Thread, S!Before, Before
<1>5. Mutual(T, order)
  BY <1>2, <1>4, ThreadMutual
<1>6. PICK X \in SUBSET Ref :
           /\ e \in X /\ \A m \in X : Onward(m) \subseteq X
           /\ \A Y \in SUBSET Ref : e \in Y /\ (\A m \in Y : Onward(m) \subseteq Y) => X \subseteq Y
           /\ Strand(t) = X \ {None}
  <2> HIDE DEF Side, Ref
  <2> QED  BY <1>1, <1>2, StrandLeast
<1>7. /\ \A m \in T : order[m][1] \in T \cup {None} /\ order[m][0] \in T \cup {None}
      /\ \A m \in T : order[m][0] # None => rk[order[m][0]] < rk[m] /\ order[order[m][0]][1] = m
      /\ \A m, x \in T : order[m][0] = None => ~(rk[x] < rk[m])
      /\ \A m, x \in T : rk[m] = rk[x] => m = x
      /\ T # {} => e \in T /\ order[e][0] = None
      /\ T = {} => e = None
  <2>1. \A m \in T : order[m][0] # None => order[order[m][0]][1] = m
    BY <1>5 DEF Mutual
  <2> QED  BY <1>1, <1>4, <2>1 DEF Thread, Before
<1>8. X \subseteq T \cup {None}
  <2>1. e \in T \cup {None} /\ T \cup {None} \in SUBSET Ref
    BY <1>7
  <2>2. \A m \in T \cup {None} : Onward(m) \subseteq T \cup {None}
    BY <1>7 DEF Onward
  <2> QED  BY <1>6, <2>1, <2>2
<1>9. ASSUME T \ X # {} PROVE FALSE
  <2>1. PICK m \in T \ X : \A x \in T \ X : ~(rk[x] < rk[m])
    <3>1. PICK Y \in SUBSET Index : Y = T \ X
      OBVIOUS
    <3> QED  BY <1>9, <3>1, LeastRank
  <2>2. CASE order[m][0] = None
    <3>1. ~(rk[e] < rk[m]) /\ ~(rk[m] < rk[e]) /\ e \in T
      BY <1>7, <2>1, <2>2
    <3>2. rk[e] = rk[m]
      BY <2>1, <3>1
    <3> QED  BY <1>6, <1>7, <2>1, <3>1, <3>2
  <2>3. CASE order[m][0] # None
    <3>1. PICK p : p = order[m][0]
      OBVIOUS
    <3>2. p \in T /\ rk[p] < rk[m] /\ order[p][1] = m
      BY <1>7, <2>1, <2>3, <3>1
    <3>3. p \in X
      BY <2>1, <3>2
    <3>4. m \in Onward(p)
      BY <1>2, <3>2 DEF Onward
    <3> QED  BY <1>6, <2>1, <3>3, <3>4
  <2> QED  BY <2>2, <2>3
<1>10. None \notin T
  BY <1>2
<1> QED  BY <1>1, <1>6, <1>8, <1>9, <1>10

LEMMA ClearKeeps == ASSUME NEW w, ForestInv(w), NEW t \in Trees, Clear(t) PROVE ForestInv(w)'
<1>1. /\ TypeOK /\ HandLaws(w) /\ SlotLaws /\ pc = "idle" /\ stack = <<>> /\ t \in trees /\ trees \subseteq Trees
  BY DEF ForestInv, HandLaws, RegisterLaws, Clear, Idle
<1>2. /\ Loose = {} /\ Loose' = {} /\ StackLaws(w)' /\ BackLaws' /\ UNCHANGED <<trees, stack, back>>
  <2>1. back = NoBack /\ UNCHANGED <<trees, stack, back>>
    BY <1>1 DEF HandLaws, BackLaws, Clear, forest
  <2>2. BackLaws'
    BY <1>1, <2>1 DEF BackLaws
  <2> QED  BY <1>1, <2>1, <2>2, EmptyHands
<1>3. PICK D \in [Ref -> SUBSET Index], rk \in [Index -> Int], h \in [Ref -> Nat] : TreeLaw(D, rk, h)
  BY DEF ForestInv, TreeLawsHold
<1>4. S!Laws(D, rk) /\ S!BalanceLaws(h) /\ call = None /\ AtRest(D, rk, h)
  BY <1>1, <1>3, IdleShadow, TreeFacts DEF TreeLaw
<1>5. PICK A \in SUBSET Index : A = Strand(t) /\ A = D[root[t]]
  <2>1. Strand(t) = D[root[t]] /\ D[root[t]] \in SUBSET Index
    BY <1>1, <1>4, StrandIs DEF TypeOK
  <2> QED  BY <2>1
<1>6. /\ Release(A) /\ val' = Without(val, A, AnyValue) /\ root' = [root EXCEPT ![t] = None]
      /\ range' = [range EXCEPT ![t] = NoLinks] /\ black_height' = black_height
      /\ UNCHANGED <<pc, call, node, ptr, par, dir>>
  BY <1>5 DEF Clear, HeightKept, registers
<1>7. /\ \A m \in A : key'[m] = None /\ parent'[m] = None /\ child'[m] = NoLinks /\ order'[m] = NoLinks
      /\ \A m \in Index \ A :
           /\ key'[m] = key[m] /\ color'[m] = color[m]
           /\ parent'[m] = parent[m] /\ child'[m] = child[m] /\ order'[m] = order[m]
      /\ Live' = Live \ A
      /\ key' \in [Index -> Keys \cup {None}] /\ cum' \in [Index -> Cumulants]
      /\ color' \in [Index -> Color] /\ parent' \in [Index -> Ref]
      /\ child' \in [Index -> [Side -> Ref]] /\ order' \in [Index -> [Side -> Ref]]
  BY <1>1, <1>6, ReleaseIs
<1>8. val' \in [Index -> Values]
  BY <1>1, <1>6, ValuesAssumption DEF TypeOK, Without, AnyValue
<1>9. TypeOK'
  <2>1. root' \in [Trees -> Ref] /\ black_height' \in [Trees -> Int]
    BY <1>1, <1>6 DEF TypeOK
  <2>2. range' \in [Trees -> [Side -> Ref]]
    BY <1>1, <1>6 DEF TypeOK, NoLinks
  <2> QED  BY <1>1, <1>6, <1>7, <1>8, <2>1, <2>2 DEF TypeOK
<1>10. S!Gone(D, {t})
  <2>1. \A n \in Index : HungKey'[n] = IF \E u \in {t} : n \in D[root[u]] THEN None ELSE HungKey[n]
    BY <1>2, <1>5, <1>7 DEF HungKey
  <2>2. \A n \in S!Live' : n \in Index \ A
    BY <1>2, <1>7, ShadowLive DEF Live
  <2>3. /\ \A u \in {t} : root'[u] = None /\ range'[u] = S!NoLinks
        /\ \A u \in Trees \ {t} :
             root'[u] = root[u] /\ range'[u] = range[u] /\ black_height'[u] = black_height[u]
    BY <1>1, <1>6 DEF TypeOK, NoLinks, S!NoLinks
  <2> QED  BY <1>1, <1>4, <1>6, <1>7, <2>1, <2>2, <2>3 DEF S!Gone, S!Quiet
<1>11. S!Laws(D, rk)' /\ S!BalanceLaws(h)'
  <2>1. {t} \in SUBSET Trees
    OBVIOUS
  <2> QED  BY <1>1, <1>4, <1>9, <1>10, <2>1, GoneKeeps
<1>12. SlotLaws'
  <2>1. FreeSlotsBlank'
    BY <1>1, <1>7 DEF SlotLaws, FreeSlotsBlank
  <2> QED  BY <1>2, <2>1 DEF SlotLaws, NoCycle
<1>13. RegisterLaws'
  <2>1. \A u \in Trees \ trees' : root'[u] = None /\ range'[u] = NoLinks
    BY <1>1, <1>2, <1>6 DEF HandLaws, RegisterLaws, TypeOK
  <2> QED  BY <1>1, <1>2, <1>4, <1>6, <2>1 DEF RegisterLaws
<1>14. stack' = <<>>
  BY <1>1, <1>2
<1>w. w[3] => S!WayLaws'
  <2>1. \A n \in S!Live' : n \in Index \ A
    BY <1>2, <1>7, ShadowLive DEF Live
  <2>2. \A n \in S!Live' : val'[n] = val[n] /\ cum'[n] = cum[n]
    BY <1>1, <1>5, <1>6, <2>1, ReleaseIs DEF Without
  <2>3. {t} \in SUBSET Trees
    OBVIOUS
  <2> QED  BY <1>1, <1>4, <1>9, <1>10, <2>2, <2>3, GoneTends DEF ForestInv, Tended
<1> QED  BY <1>2, <1>9, <1>11, <1>12, <1>13, <1>14, <1>w, Assembled DEF HandLaws

(* A new tree, of no items.                                                *)
LEMMA BuildNone ==
  ASSUME TypeOK, NEW t \in Trees, Build(t, <<>>, <<>>)
  PROVE  /\ UNCHANGED <<key, val, cum, color, parent, child, order>>
         /\ root' = [root EXCEPT ![t] = None] /\ range' = [range EXCEPT ![t] = NoLinks]
         /\ black_height' = [black_height EXCEPT ![t] = 0]
BY DEF Build, Middle, TypeOK

LEMMA InsertSortedKeeps == ASSUME NEW w, ForestInv(w), InsertSorted(<<>>, <<>>) PROVE ForestInv(w)'
<1>1. /\ TypeOK /\ HandLaws(w) /\ SlotLaws /\ pc = "idle" /\ stack = <<>> /\ trees \subseteq Trees /\ trees # Trees
  BY DEF ForestInv, HandLaws, RegisterLaws, InsertSorted, Idle
<1>2. PICK t : t = NewTree
  OBVIOUS
<1>3. t \in Trees /\ t \notin trees /\ root[t] = None /\ range[t] = NoLinks
  BY <1>1, <1>2, NewHandle DEF HandLaws, RegisterLaws
<1>4. /\ UNCHANGED <<key, val, cum, color, parent, child, order>>
      /\ root' = [root EXCEPT ![t] = None] /\ range' = [range EXCEPT ![t] = NoLinks]
      /\ black_height' = [black_height EXCEPT ![t] = 0]
  BY <1>1, <1>2, <1>3, BuildNone DEF InsertSorted
<1>5. UNCHANGED <<pc, call, node, ptr, par, dir, stack, back>> /\ trees' = trees \cup {t}
  BY <1>2 DEF InsertSorted, registers
<1>6. /\ Loose = {} /\ Loose' = {} /\ StackLaws(w)' /\ BackLaws'
  <2>1. back = NoBack
    BY <1>1 DEF HandLaws, BackLaws
  <2>2. BackLaws'
    BY <1>1, <1>5, <2>1 DEF BackLaws
  <2> QED  BY <1>1, <1>5, <2>1, <2>2, EmptyHands
<1>7. TypeOK'
  <2>0. root \in [Trees -> Ref] /\ black_height \in [Trees -> Int] /\ None \in Ref
    BY <1>1 DEF TypeOK, Ref
  <2>a. root' \in [Trees -> Ref]
    <3> HIDE DEF Ref
    <3> QED  BY <1>4, <2>0
  <2>b. black_height' \in [Trees -> Int]
    <3>1. black_height' = [u \in Trees |-> IF u = t THEN 0 ELSE black_height[u]]
      BY <1>4, <2>0
    <3>2. \A u \in Trees : black_height[u] \in Int
      BY <2>0
    <3> QED  BY <3>1, <3>2
  <2>1. root' \in [Trees -> Ref] /\ black_height' \in [Trees -> Int]
    BY <2>a, <2>b
  <2>2. range' \in [Trees -> [Side -> Ref]]
    BY <1>1, <1>4 DEF TypeOK, NoLinks
  <2> QED  BY <1>1, <1>4, <1>5, <2>1, <2>2 DEF TypeOK
<1>8. PICK D \in [Ref -> SUBSET Index], rk \in [Index -> Int], h \in [Ref -> Nat] : TreeLaw(D, rk, h)
  BY DEF ForestInv, TreeLawsHold
<1>9. S!Laws(D, rk) /\ S!BalanceLaws(h) /\ call = None
  BY <1>1, <1>8, IdleShadow DEF TreeLaw
<1>10. S!Gone(D, {})
  <2>1. \A u \in Trees : /\ root'[u] = root[u] /\ range'[u] = range[u]
                         /\ root[u] # None => black_height'[u] = black_height[u]
    BY <1>1, <1>3, <1>4 DEF TypeOK
  <2>2. HungKey' = HungKey
    BY <1>4, <1>6 DEF HungKey
  <2> QED  BY <1>1, <1>4, <1>5, <1>9, <2>1, <2>2 DEF S!Gone, S!Quiet
<1>11. S!Laws(D, rk)' /\ S!BalanceLaws(h)'
  <2>1. {} \in SUBSET Trees
    OBVIOUS
  <2> QED  BY <1>1, <1>7, <1>9, <1>10, <2>1, GoneKeeps
<1>12. SlotLaws'
  BY <1>1, <1>4, <1>6 DEF SlotLaws, FreeSlotsBlank, NoCycle, Live
<1>13. RegisterLaws'
  <2>1. \A u \in Trees \ trees' : root'[u] = None /\ range'[u] = NoLinks
    BY <1>1, <1>3, <1>4, <1>5 DEF HandLaws, RegisterLaws, TypeOK
  <2> QED  BY <1>1, <1>3, <1>5, <1>6, <1>9, <2>1 DEF RegisterLaws
<1>w. w[3] => S!WayLaws'
  <2>1. \A n \in S!Live' : val'[n] = val[n] /\ cum'[n] = cum[n]
    BY <1>4
  <2>2. {} \in SUBSET Trees
    OBVIOUS
  <2> QED  BY <1>1, <1>7, <1>8, <1>9, <1>10, <2>1, <2>2, GoneTends DEF ForestInv, Tended
<1> QED  BY <1>1, <1>5, <1>6, <1>7, <1>11, <1>12, <1>13, <1>w, Assembled DEF HandLaws
-----------------------------------------------------------------------------
(* What the laws say to the reader.                                        *)

(* S has the same subtrees, paths and depths: they do not look at keys.    *)
LEMMA SameClosures ==
  /\ \A n : S!Subtree(n) = Subtree(n) /\ S!Path(n) = Path(n) /\ S!BlackDepth(n) = BlackDepth(n)
  /\ \A t : S!Attached(t) = Attached(t) /\ S!Threads(t) = Threads(t)
<1>1. \A n : S!Subtree(n) = Subtree(n)
  BY DEF S!Subtree, Subtree, S!Closure, Closure, S!Children, Children
<1>2. \A n : S!Path(n) = Path(n)
  BY DEF S!Path, Path, S!Closure, Closure, S!Parents, Parents
<1>3. \A n : S!BlackDepth(n) = BlackDepth(n)
  BY DEF S!BlackDepth, BlackDepth, S!IsRed, IsRed
<1>4. \A t : S!Attached(t) = Attached(t)
  BY <1>1 DEF S!Attached, Attached
<1> QED
  BY <1>1, <1>2, <1>3, <1>4 DEF S!Threads, Threads, S!Unlinked, Unlinked

(* The laws of S, with their ghosts forgotten.                             *)
LEMMA ShadowHolds ==
  ASSUME NEW w, ForestInv(w)
  PROVE  /\ TypeOK /\ S!TypeOK /\ S!LawsHold /\ S!BalanceHolds /\ SlotLaws /\ HandLaws(w)
         /\ S!Hung = {n \in Live : ~InLimbo(n)} \ Loose
<1>1. PICK D \in [Ref -> SUBSET Index], rk \in [Index -> Int], h \in [Ref -> Nat] : TreeLaw(D, rk, h)
  BY DEF ForestInv, TreeLawsHold
<1>2. S!Laws(D, rk) /\ S!BalanceLaws(h)
  BY <1>1 DEF TreeLaw
<1>3. S!Hung = {n \in Live : ~InLimbo(n)} \ Loose
  BY ShadowLive DEF S!Hung, S!Limbo, InLimbo, S!Unlinked, Unlinked
<1> QED  BY <1>2, <1>3, ShadowType DEF ForestInv, S!LawsHold, S!BalanceHolds

(* NodesOwnedOnce.                                                         *)
LEMMA OwnedOnce == ASSUME NEW w, ForestInv(w) PROVE NodesOwnedOnce
<1> DEFINE L == {n \in Live : ~InLimbo(n)} \ Loose
<1>1. /\ TypeOK /\ S!TypeOK /\ S!LawsHold /\ SlotLaws /\ RegisterLaws /\ S!Hung = L
  BY ShadowHolds DEF HandLaws
<1>2. S!ChildrenAgree(L) /\ S!ParentsAgree(L) /\ S!RootsAgree(L) /\ S!Acyclic(L)
  BY <1>1, S!LawsLinks, SameParams, KeysAssumption, NoneAssumption, ValuesAssumption, CumulantAssumption
<1>3. ChildrenAgree(L) /\ ParentsAgree(L) /\ RootsAgree(L)
  <2> HIDE DEF L
  <2> QED  BY <1>2 DEF S!ChildrenAgree, ChildrenAgree, S!ParentsAgree, ParentsAgree, S!RootsAgree, RootsAgree
<1>4. Acyclic(L)
  <2> HIDE DEF L
  <2> QED  BY <1>2, SameClosures DEF S!Acyclic, Acyclic
<1> QED  BY <1>1, <1>3, <1>4 DEF NodesOwnedOnce, LinksAgreeOn, SlotLaws, RegisterLaws

(* Threaded: the nodes of a thread hang in its tree, so S has their keys.  *)
LEMMA RanksSame ==
  ASSUME NEW w, ForestInv(w), NEW t \in Trees, NEW n \in Threads(t)
  PROVE  S!Rank(n) = Rank(n)
<1>1. PICK D \in [Ref -> SUBSET Index], rk \in [Index -> Int], h \in [Ref -> Nat] : TreeLaw(D, rk, h)
  BY DEF ForestInv, TreeLawsHold
<1>2. TypeOK /\ S!TypeOK /\ S!Laws(D, rk)
  BY <1>1, ShadowType DEF TreeLaw, ForestInv
<1>3. Threads(t) = S!Strung(D, t) /\ S!Strung(D, t) \subseteq S!Live
  BY <1>2, SameClosures, S!ThreadsIs, SameParams, KeysAssumption, NoneAssumption, ValuesAssumption,
     CumulantAssumption
<1>4. S!Thread(S!Strung(D, t), order, range[t], rk)
  BY <1>2 DEF S!Laws, S!StringLaws
<1>5. \A i \in Side : order[n][i] = None \/ order[n][i] \in S!Live
  BY <1>3, <1>4 DEF S!Thread
<1>6. \A m \in S!Live : HungKey[m] = key[m]
  BY <1>2, ShadowLive DEF HungKey, Live
<1>7. n \in S!Live /\ 0 \in Side
  BY <1>3
<1>8. HungKey[n] = key[n] /\ (order[n][0] # None => HungKey[order[n][0]] = key[order[n][0]])
  BY <1>5, <1>6, <1>7
<1> HIDE DEF HungKey
<1> QED  BY <1>8 DEF S!Rank, Rank, S!Unlinked, Unlinked

(* What Threaded says of a tree, of nodes T with the ranks f.              *)
OnThread(t, T, f) ==
  LET Comes(i, n, m) == IF i = 0 THEN f[n] < f[m] ELSE f[m] < f[n]
      Beyond(i, n) == {m \in T : Comes(i, m, n)}
  IN  /\ \A n \in T, i \in Side :
           IF order[n][i] = None
           THEN Beyond(i, n) = {}
           ELSE /\ order[n][i] \in T /\ Comes(i, order[n][i], n)
                /\ \A m \in Beyond(i, n) : ~Comes(i, order[n][i], m)
      /\ \A i \in Side :
           IF T = {} THEN range[t][i] = None
           ELSE range[t][i] \in T /\ order[range[t][i]][i] = None
      /\ \A n \in Attached(t), i \in Side :
           \A m \in Subtree(child[n][i]) : Comes(i, m, n)

LEMMA InOrder == ASSUME NEW w, ForestInv(w) PROVE Threaded
<1>1. S!Threaded
  BY ShadowHolds, S!LawsThreaded, SameParams, KeysAssumption, NoneAssumption, ValuesAssumption,
     CumulantAssumption
<1>2. ASSUME NEW t \in Trees PROVE OnThread(t, Threads(t), [n \in Threads(t) |-> Rank(n)])
  <2>1. OnThread(t, S!Threads(t), [n \in S!Threads(t) |-> S!Rank(n)])
    BY <1>1, SameClosures DEF S!Threaded, OnThread
  <2>2. S!Threads(t) = Threads(t)
    BY SameClosures
  <2>3. \A n \in Threads(t) : S!Rank(n) = Rank(n)
    BY <1>2, RanksSame
  <2>4. [n \in Threads(t) |-> S!Rank(n)] = [n \in Threads(t) |-> Rank(n)]
    BY <2>3
  <2>5. OnThread(t, Threads(t), [n \in Threads(t) |-> S!Rank(n)])
    BY <2>1, <2>2
  <2> QED  BY <2>4, <2>5
<1> QED  BY <1>2 DEF OnThread, Threaded

(* RedBlack: neither the nodes in hand nor the free slots lead in circles. *)
LEMMA HandsEnd ==
  ASSUME NEW w, ForestInv(w)
  PROVE  NoCycle(Index \ S!Hung, parent)
<1>1. /\ SlotLaws /\ S!TypeOK /\ TypeOK /\ S!BalanceHolds /\ S!LawsHold /\ Loose \subseteq Live
      /\ S!Live = Live \ Loose
  BY ShadowHolds, ShadowLive DEF HandLaws, RegisterLaws
<1> SUFFICES ASSUME NEW X \in SUBSET (Index \ S!Hung), X # {}
             PROVE  \E n \in X : parent[n] \notin X
  BY DEF NoCycle
<1>2. CASE X \subseteq Loose
  BY <1>1, <1>2 DEF SlotLaws, NoCycle
<1>3. CASE ~(X \subseteq Loose)
  <2>1. PICK n \in X : n \notin Loose
    BY <1>3
  <2>2. None \notin X
    BY NoneAssumption
  <2>3. CASE n \in Live
    <3>1. n \in S!Live /\ n \notin S!Hung
      BY <1>1, <2>1, <2>3
    <3>2. S!Limbo /\ n = node
      BY <3>1 DEF S!Hung
    <3>3. parent[node] \in S!Hung \cup {None}
      BY <1>1, <3>2 DEF S!BalanceHolds, S!BalanceLaws, S!RepairLaws
    <3> QED  BY <3>2, <3>3, <2>1, <2>2
  <2>4. CASE n \notin Live
    <3>1. parent[n] = None
      BY <1>1, <2>1, <2>4 DEF SlotLaws, FreeSlotsBlank
    <3> QED  BY <2>1, <2>2, <3>1
  <2> QED  BY <2>3, <2>4
<1> QED  BY <1>2, <1>3

LEMMA Balanced == ASSUME NEW w, ForestInv(w) PROVE RedBlack
<1>1. S!NoCycle(Index \ S!Hung, parent)
  BY HandsEnd DEF NoCycle, S!NoCycle
<1>2. S!RedBlack
  BY <1>1, ShadowHolds, S!LawsRedBlack, SameParams, KeysAssumption, NoneAssumption, ValuesAssumption,
     CumulantAssumption
<1>3. \A n, i : S!Lacking(n, i) <=> Lacking(n, i)
  BY SameClosures DEF S!Lacking, Lacking, S!FixRemoveStep, FixRemoveStep
<1>4. \A n : (S!RedRedAllowed(n) <=> RedRedAllowed(n)) /\ (S!IsRed(n) <=> IsRed(n))
  BY DEF S!RedRedAllowed, RedRedAllowed, S!IsRed, IsRed, S!FarNephew, FarNephew, S!Sibling, Sibling
<1> QED  BY <1>2, <1>3, <1>4, SameClosures DEF S!RedBlack, RedBlack

(* NoPanic.                                                                *)
LEMMA Unwraps == ASSUME NEW w, ForestInv(w) PROVE NoPanic
<1>1. S!NoPanic
  BY ShadowHolds, S!LawsNoPanic, SameParams, KeysAssumption, NoneAssumption, ValuesAssumption,
     CumulantAssumption
<1> QED
  BY <1>1 DEF S!NoPanic, NoPanic, S!IsRed, IsRed, S!FarNephew, FarNephew, S!Sibling, Sibling,
     S!Grandparent, Grandparent, S!FixRemoveStep, FixRemoveStep

-----------------------------------------------------------------------------
(* A forest without trees.                                                 *)
LEMMA InitForest == ASSUME FInit, NEW w PROVE ForestInv(w)
<1>1. /\ Init /\ trees = {} /\ stack = <<>> /\ back = NoBack
      /\ pc = "idle" /\ call = None /\ key = [n \in Index |-> None]
      /\ parent = [n \in Index |-> None] /\ root = [t \in Trees |-> None]
      /\ range = [t \in Trees |-> NoLinks]
  BY DEF FInit, Init
<1>2. TypeOK
  BY <1>1, InitType
<1>3. Loose = {} /\ StackLaws(w)
  BY <1>1, EmptyHands
<1>4. Live = {}
  BY <1>1 DEF Live
<1>5. HandLaws(w)
  BY <1>1, <1>3, <1>4 DEF HandLaws, BackLaws, RegisterLaws
<1>6. SlotLaws
  BY <1>1, <1>3 DEF SlotLaws, FreeSlotsBlank, NoCycle, Init
<1>7. HungKey = key
  BY <1>1, <1>3 DEF HungKey
<1>8. S!Init
  BY <1>1, <1>7 DEF Init, S!Init, NoLinks, S!NoLinks, AnyValue, S!AnyValue
<1>9. S!LawsHold /\ S!BalanceHolds
  BY <1>8, S!InitLaws, S!InitBalance, SameParams, KeysAssumption, NoneAssumption, ValuesAssumption,
     CumulantAssumption
<1>10. TreeLawsHold
  BY <1>1, <1>9 DEF S!LawsHold, S!BalanceHolds, TreeLawsHold, TreeLaw, GoingDown, Inside
<1>11. S!WayLaws
  BY <1>8, S!InitWay, SameParams, KeysAssumption, NoneAssumption, ValuesAssumption, CumulantAssumption
<1> QED  BY <1>2, <1>5, <1>6, <1>10, <1>11 DEF ForestInv, Tended

LEMMA StutterKeeps == ASSUME NEW w, ForestInv(w), UNCHANGED fvars PROVE ForestInv(w)'
<1>1. /\ TypeOK /\ StackLaws(w) /\ BackLaws /\ RegisterLaws /\ SlotLaws
      /\ UNCHANGED vars /\ UNCHANGED <<trees, stack, back>>
  BY DEF ForestInv, HandLaws, fvars, forest
<1>2. Loose' = Loose /\ Top' = Top /\ StackLaws(w)' /\ BackLaws'
  BY <1>1, StackSame
<1>3. UNCHANGED <<key, val, cum, color, parent, child, order, root, range, black_height, pc, call, node, ptr, par, dir>>
  BY <1>1 DEF vars
<1>4. TypeOK'
  BY <1>1, <1>3 DEF TypeOK
<1>5. RegisterLaws'
  BY <1>1, <1>2, <1>3 DEF RegisterLaws, Live
<1>6. SlotLaws'
  BY <1>1, <1>2, <1>3 DEF SlotLaws, FreeSlotsBlank, NoCycle, Live
<1>7. CASE pc = "idle"
  <2>1. HandLaws(w)'
    BY <1>2, <1>5 DEF HandLaws
  <2>2. ASSUME NEW D \in [Ref -> SUBSET Index], NEW rk \in [Index -> Int], NEW h \in [Ref -> Nat],
               TreeLaw(D, rk, h)
        PROVE  GoingDown(D, h)'
    <3>1. GoingDown(D, h)
      BY <2>2 DEF TreeLaw
    <3>2. HungKey' = HungKey
      BY <1>2, <1>3 DEF HungKey
    <3> QED  BY <3>1, <3>2, <1>1, <1>2, <1>3 DEF GoingDown, Passing, Inside, S!JoinPlace
  <2> QED  BY <2>1, <2>2, <1>1, <1>2, <1>7, StillStep
<1>8. CASE pc # "idle"
  <2>1. stack' # <<>> => Top'.at # "descend"
    BY <1>1, <1>2, <1>8 DEF RegisterLaws, Waiting, AskTree, AskSplit, AskNode
  <2>2. PICK D \in [Ref -> SUBSET Index], rk \in [Index -> Int], h \in [Ref -> Nat] : TreeLaw(D, rk, h)
    BY DEF ForestInv, TreeLawsHold
  <2>3. S!Laws(D, rk) /\ S!BalanceLaws(h)
    BY <2>2 DEF TreeLaw
  <2>4. HungKey' = HungKey
    BY <1>2, <1>3 DEF HungKey
  <2>5. UNCHANGED S!vars
    <3> HIDE DEF HungKey
    <3> QED  BY <2>4, <1>1 DEF vars, S!vars
  <2>6. /\ \E E \in [Ref -> SUBSET Index], s \in [Index -> Int] : S!Laws(E, s)'
        /\ \E g \in [Ref -> Nat] : S!BalanceLaws(g)'
    BY <1>1, <1>4, <2>3, <2>5, NextKeeps
  <2>7. S!WayLaws => S!WayLaws'
    BY <2>5, S!StutterWay, SameParams, KeysAssumption, NoneAssumption, ValuesAssumption, CumulantAssumption
  <2>8. w[3] => S!WayLaws'
    BY <2>7 DEF ForestInv, Tended
  <2> QED  BY <1>2, <1>4, <1>5, <1>6, <2>1, <2>6, <2>8, Assembled DEF HandLaws
<1> QED  BY <1>7, <1>8
-----------------------------------------------------------------------------
(* The steps that the theorems are about.  The items of a new tree come    *)
(* one by one: what Build makes of many is a recursion over them.  Nobody  *)
(* gives trees with a key in common to union_disjoint, which would lose a  *)
(* node.  And no join ends its way down at a red node, where the pivot     *)
(* would break the rule of colors.  (The run forest has the last two; the  *)
(* run forest_join shows what comes of the third.)                         *)
Ordinary ==
  /\ \A items \in Items : \A slots \in FreeSlots(Len(items)) :
       InsertSorted(items, slots) => items = <<>>
  /\ ~LoseDuplicate
  /\ JoinAttach => ~IsRed(Top.index)

ForestHolds == \E w : ForestInv(w)

(* No items need no slots.                                                 *)
LEMMA NoSlots == \A slots \in FreeSlots(Len(<<>>)) : slots = <<>>
BY DEF FreeSlots

LEMMA ForestStepKeeps ==
  ASSUME NEW w, ForestInv(w), ForestStep, w[3] => ~MergeDuplicate
  PROVE  ForestInv(w)'
<1>1. CASE StartInsertNode \/ LinkNode
  BY <1>1, StartInsertNodeKeeps, LinkNodeKeeps
<1>2. CASE StartRemoveNode \/ KeepNode
  BY <1>2, StartRemoveNodeKeeps, KeepNodeKeeps
<1>3. CASE UnionSmall \/ UnionOverlaps \/ UnionDisjoint \/ JoinRemoved
  BY <1>3, UnionSmallKeeps, UnionOverlapsKeeps, UnionDisjointKeeps, JoinRemovedKeeps
<1>4. CASE JoinEmpty \/ JoinTrees \/ JoinDescend
  BY <1>4, JoinEmptyKeeps, JoinTreesKeeps, JoinDescendKeeps
<1>5. CASE SplitOutside \/ SplitEnd \/ SplitInside \/ Rejoin \/ SplitNodeDone
  BY <1>5, SplitOutsideKeeps, SplitEndKeeps, SplitInsideKeeps, RejoinKeeps, SplitNodeDoneKeeps
<1>6. CASE MergeSplit \/ MergeRoot \/ MergeRight \/ MergeJoin
  BY <1>6, MergeSplitKeeps, MergeRootKeeps, MergeRightKeeps, MergeJoinKeeps
<1>7. CASE UnionDone \/ SplitDone
  BY <1>7, UnionDoneKeeps, SplitDoneKeeps
<1>8. CASE MergeDuplicate
  BY <1>8, MergeDuplicateKeeps
<1> QED  BY <1>1, <1>2, <1>3, <1>4, <1>5, <1>6, <1>7, <1>8 DEF ForestStep

(* Nobody need remember that no value was overwritten.                     *)
LEMMA Forgets == ASSUME NEW w, ForestInv(w) PROVE ForestInv(<<w[1], w[2], FALSE>>)
<1>1. PICK u : u = <<w[1], w[2], FALSE>>
  OBVIOUS
<1>2. FrameType(u) = FrameType(w)
  BY <1>1 DEF FrameType
<1>3. HandLaws(u)
  BY <1>2 DEF ForestInv, HandLaws, StackLaws
<1> QED  BY <1>1, <1>3 DEF ForestInv, Tended

(* No value is overwritten, and none merged into another.                  *)
Gentle == ~InsertHere /\ ~MergeDuplicate

LEMMA NextInv ==
  ASSUME NEW w, ForestInv(w), [FNext]_fvars, [Ordinary]_fvars, w[3] => Gentle
  PROVE  \E u : ForestInv(u)' /\ (w[3] => u[3])
<1>2. CASE UNCHANGED fvars
  BY <1>2, StutterKeeps
<1> SUFFICES ASSUME FNext, Ordinary PROVE \E u : ForestInv(u)' /\ (w[3] => u[3])
  BY <1>2
<1>3. CASE \E items \in Items : \E slots \in FreeSlots(Len(items)) : InsertSorted(items, slots)
  <2>1. PICK items \in Items : \E slots \in FreeSlots(Len(items)) : InsertSorted(items, slots)
    BY <1>3
  <2>2. PICK slots \in FreeSlots(Len(items)) : InsertSorted(items, slots)
    BY <2>1
  <2>3. items = <<>>
    BY <2>2 DEF Ordinary
  <2>4. slots = <<>>
    BY <2>3, NoSlots
  <2> QED  BY <2>2, <2>3, <2>4, InsertSortedKeeps
<1>4. ASSUME NEW t \in Trees, NEW k \in Keys,
             \/ \E v \in Values : CallTree("insert", t, k, v)
             \/ \E op \in Op \ {"insert"} : CallTree(op, t, k, None)
      PROVE  ForestInv(w)'
  BY <1>4, CallTreeKeeps
<1>5. ASSUME NEW t \in Trees, NEW k \in Keys, CallSplit(t, k)
      PROVE  \E u : ForestInv(u)' /\ (w[3] => u[3])
  BY <1>5, CallSplitKeeps
<1>6. ASSUME NEW t \in Trees, Clear(t) PROVE ForestInv(w)'
  BY <1>6, ClearKeeps
<1>7. ASSUME NEW a \in Trees, NEW b \in Trees, NEW op \in {"union_disjoint", "union_merge"}, CallUnion(op, a, b)
      PROVE  \E u : ForestInv(u)' /\ (w[3] => u[3])
  BY <1>7, CallUnionKeeps
<1>8. CASE TreeStep
  BY <1>8, TreeStepKeeps DEF Gentle
<1>9. CASE ForestStep
  BY <1>9, ForestStepKeeps DEF Gentle
<1>10. CASE JoinAttach
  BY <1>10, JoinAttachKeeps DEF Ordinary
<1> QED  BY <1>3, <1>4, <1>5, <1>6, <1>7, <1>8, <1>9, <1>10 DEF FNext, Ordinary

LEMMA NextForest == ASSUME ForestHolds, [FNext]_fvars, [Ordinary]_fvars PROVE ForestHolds'
<1>1. PICK w : ForestInv(w)
  BY DEF ForestHolds
<1>2. ForestInv(<<w[1], w[2], FALSE>>)
  BY <1>1, Forgets
<1>3. PICK v : v = <<w[1], w[2], FALSE>>
  OBVIOUS
<1>4. ForestInv(v) /\ ~v[3]
  BY <1>2, <1>3
<1>5. \E u : ForestInv(u)' /\ (v[3] => u[3])
  BY <1>4, NextInv
<1> QED  BY <1>5 DEF ForestHolds

(* The trees of a forest keep the laws of RBTree for all nodes but those   *)
(* in the hands of the call, through every step of every union and split;  *)
(* the frames lie on those that wait for them, and no two of them hold the *)
(* same handle or node.                                                    *)
THEOREM ForestCorrect == FSpec /\ [][Ordinary]_fvars => []ForestHolds
<1>1. FInit => ForestHolds
  BY InitForest DEF ForestHolds
<1>2. ForestHolds /\ [FNext]_fvars /\ [Ordinary]_fvars => ForestHolds'
  BY NextForest
<1> QED  BY <1>1, <1>2, PTL DEF FSpec

(* All registers, frames' trees and nodes have their types.                *)
THEOREM ForestTypeCorrect == FSpec /\ [][Ordinary]_fvars => []TypeOK
<1>1. ForestHolds => TypeOK
  BY DEF ForestHolds, ForestInv
<1> QED  BY <1>1, ForestCorrect, PTL

(* No node is lost and none is in two places: every slot in use hangs in   *)
(* exactly one tree that still has a handle or is in the hands of the call,*)
(* and a tree that join or union consumed has nothing left.                *)
THEOREM NodesOwnedOnceCorrect == FSpec /\ [][Ordinary]_fvars => []NodesOwnedOnce
<1>1. ForestHolds => NodesOwnedOnce
  BY OwnedOnce DEF ForestHolds
<1> QED  BY <1>1, ForestCorrect, PTL

(* The halves of a split and the trees of a join are search trees on their *)
(* own threads, at every step.                                             *)
THEOREM ForestThreadCorrect == FSpec /\ [][Ordinary]_fvars => []Threaded
<1>1. ForestHolds => Threaded
  BY InOrder DEF ForestHolds
<1> QED  BY <1>1, ForestCorrect, PTL

(* They are red-black trees whose Bounds know their black height, though   *)
(* join_unchecked goes by the difference of two of those alone.            *)
THEOREM ForestColorsCorrect == FSpec /\ [][Ordinary]_fvars => []RedBlack
<1>1. ForestHolds => RedBlack
  BY Balanced DEF ForestHolds
<1> QED  BY <1>1, ForestCorrect, PTL

(* The unwraps of insert_node and remove_node meet no None when the trees  *)
(* are those of a union or a split.                                        *)
THEOREM ForestPanicFree == FSpec /\ [][Ordinary]_fvars => []NoPanic
<1>1. ForestHolds => NoPanic
  BY Unwraps DEF ForestHolds
<1> QED  BY <1>1, ForestCorrect, PTL

-----------------------------------------------------------------------------
(* Cumulants.  A value that is overwritten, by the caller through insert,  *)
(* is not one of those that have a cumulant again.                         *)
NothingOverwritten == [][~InsertHere]_fvars

(* A value that was merged into another waits, in this model, for a lock   *)
(* that the call has itself.                                               *)
TendedHolds == \E w : ForestInv(w) /\ (w[3] \/ Inside("value_mut"))

LEMMA MergeWaits ==
  ASSUME NEW w, ForestInv(w), Inside("value_mut")
  PROVE  pc = "idle" /\ ~FNext
<1>1. pc = "idle"
  BY DEF ForestInv, HandLaws, RegisterLaws, Inside, Waiting, AskTree, AskSplit, AskNode
<1>2. stack # <<>> /\ Top.at = "value_mut"
  BY DEF Inside
<1>3. ~Relink
  <2>1. /\ ~Descend /\ ~Propagate /\ ~RemoveHere /\ ~Unthread
        /\ ~FixInsertDone /\ ~FixInsertRecolor /\ ~FixInsertInner /\ ~FixInsertOuter /\ ~Blacken
    BY <1>1 DEF Descend, Propagate, RemoveHere, Unthread, FixInsertDone, FixInsertRecolor,
                FixInsertInner, FixInsertOuter, Blacken, RedParent
  <2>2. /\ \A i : ~UnlinkOneChild(i)
        /\ ~UnlinkLeaf /\ ~UnlinkLast /\ ~FixRemoveRedSibling /\ ~FixRemoveCloseNephew
        /\ ~FixRemoveFarNephew /\ ~FixRemoveRecolor
    BY <1>1 DEF UnlinkOneChild, UnlinkLeaf, UnlinkLast, FixRemoveRedSibling, FixRemoveCloseNephew,
                FixRemoveFarNephew, FixRemoveRecolor, AtBlackSibling, FixRemoveStep
  <2> QED  BY <2>1, <2>2 DEF Relink
<1>0. ~LinkNode /\ ~MergeDuplicate /\ ~KeepNode /\ ~LoseDuplicate
  BY <1>2 DEF Inside, LinkNode, MergeDuplicate, KeepNode, LoseDuplicate
<1>4. ~TreeStep
  BY <1>2, <1>3 DEF TreeStep
<1>5. \A where : At(where) => where = "value_mut"
  BY <1>2 DEF At
<1>6. /\ ~StartInsertNode /\ ~StartRemoveNode /\ ~UnionSmall /\ ~UnionOverlaps /\ ~UnionDisjoint
      /\ ~JoinRemoved /\ ~JoinEmpty /\ ~JoinTrees /\ ~JoinDescend /\ ~JoinAttach
  BY <1>5 DEF StartInsertNode, StartRemoveNode, UnionSmall, UnionOverlaps, UnionDisjoint, NeitherSmall,
              JoinRemoved, JoinEmpty, JoinTrees, JoinDescend, JoinAttach
<1>7. /\ ~SplitOutside /\ ~SplitEnd /\ ~SplitInside /\ ~Rejoin /\ ~SplitNodeDone
      /\ ~MergeSplit /\ ~MergeRoot /\ ~MergeRight /\ ~MergeJoin /\ ~UnionDone /\ ~SplitDone
  BY <1>5 DEF SplitOutside, SplitEnd, SplitInside, Rejoin, SplitNodeDone, MergeSplit, NeitherSmall,
              MergeRoot, MergeRight, MergeJoin, UnionDone, SplitDone
<1>8. ~ForestStep
  BY <1>0, <1>6, <1>7 DEF ForestStep
<1>9. ~Idle
  BY <1>2 DEF Idle
<1> QED  BY <1>0, <1>1, <1>4, <1>6, <1>8, <1>9 DEF FNext, InsertSorted, CallTree, CallSplit, Clear, CallUnion

LEMMA MergeStays ==
  ASSUME NEW w, ForestInv(w), MergeDuplicate
  PROVE  Inside("value_mut")'
<1>1. stack \in Seq(FrameType(w)) /\ stack # <<>> /\ stack' = <<Frame("value_mut", Top.this, None, None)>> \o Tail(stack)
  BY DEF ForestInv, HandLaws, StackLaws, MergeDuplicate, Inside, Continue
<1>2. stack' # <<>> /\ stack'[1] = Frame("value_mut", Top.this, None, None)
  BY <1>1
<1> QED  BY <1>2 DEF Inside, Top, Frame

LEMMA NextTended ==
  ASSUME TendedHolds, [FNext]_fvars, [Ordinary]_fvars, [~InsertHere]_fvars
  PROVE  TendedHolds'
<1>1. PICK w : ForestInv(w) /\ (w[3] \/ Inside("value_mut"))
  BY DEF TendedHolds
<1>2. ~InsertHere
  <2>1. CASE UNCHANGED fvars
    BY <2>1 DEF fvars, vars, InsertHere, Return
  <2> QED  BY <2>1
<1>3. CASE Inside("value_mut")
  <2>1. UNCHANGED fvars
    BY <1>1, <1>3, MergeWaits
  <2>2. ForestInv(w)'
    BY <1>1, <2>1, StutterKeeps
  <2>3. Inside("value_mut")'
    BY <1>3, <2>1 DEF fvars, forest, Inside, Top
  <2> QED  BY <2>2, <2>3 DEF TendedHolds
<1>4. CASE MergeDuplicate
  <2>1. Inside("value_mut")'
    BY <1>1, <1>4, MergeStays
  <2>2. ForestHolds'
    BY <1>1, NextForest DEF ForestHolds
  <2> QED  BY <2>1, <2>2 DEF TendedHolds, ForestHolds
<1>5. CASE ~MergeDuplicate /\ w[3]
  <2>1. \E u : ForestInv(u)' /\ (w[3] => u[3])
    BY <1>1, <1>2, <1>5, NextInv DEF Gentle
  <2> QED  BY <1>5, <2>1 DEF TendedHolds
<1> QED  BY <1>1, <1>3, <1>4, <1>5

LEMMA CumulantsFollow == TendedHolds => ForestCumulants
<1> SUFFICES ASSUME TendedHolds, pc = "idle", HasCumulant, ~At("value_mut"), NEW n \in Live \ Loose
             PROVE  cum[n] = CumulantOf(n, child[n])
  BY DEF ForestCumulants
<1>1. PICK w : ForestInv(w) /\ (w[3] \/ Inside("value_mut"))
  BY DEF TendedHolds
<1>2. S!WayLaws
  BY <1>1 DEF Inside, At, ForestInv, Tended
<1>3. S!CumulantsCurrent
  BY <1>2, S!WayCurrent, SameParams, KeysAssumption, NoneAssumption, ValuesAssumption, CumulantAssumption
<1>4. n \in S!Live
  BY ShadowLive
<1>5. cum[n] = S!CumulantOf(n, child[n])
  BY <1>3, <1>4 DEF S!CumulantsCurrent
<1> QED  BY <1>5 DEF S!CumulantOf, CumulantOf

(* Whenever no step of a tree is in flight, also in the middle of a union  *)
(* or a split, every node in a tree has the cumulant of its subtree, if no *)
(* insert overwrote a value.                                               *)
THEOREM ForestCumulantsCorrect ==
  FSpec /\ [][Ordinary]_fvars /\ NothingOverwritten => []ForestCumulants
<1>1. FInit => TendedHolds
  <2> SUFFICES ASSUME FInit PROVE TendedHolds
    OBVIOUS
  <2>1. PICK w : w = <<0, 0, TRUE>>
    OBVIOUS
  <2>2. ForestInv(w)
    BY InitForest
  <2>3. w[3]
    BY <2>1
  <2> QED  BY <2>2, <2>3 DEF TendedHolds
<1>2. TendedHolds /\ [FNext]_fvars /\ [Ordinary]_fvars /\ [~InsertHere]_fvars => TendedHolds'
  BY NextTended
<1>3. TendedHolds => ForestCumulants
  BY CumulantsFollow
<1> QED  BY <1>1, <1>2, <1>3, PTL DEF FSpec, NothingOverwritten
=============================================================================
