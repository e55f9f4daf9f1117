---------------------------- MODULE RBTreeLinks ----------------------------
(***************************************************************************)
(* Type correctness of RBTree; then the laws, which hold at every step,    *)
(* and with them LinksAgree and Threaded: one lemma per action, or per     *)
(* group of actions that change the same part of the state; and, from the  *)
(* laws, what each step does to the map of a tree.                         *)
(***************************************************************************)
EXTENDS TreeLaws

USE DEF Side, Ref, Color

-----------------------------------------------------------------------------
(* The helpers keep the types of the functions they update.                *)

(* SetAt returns a function of the same type.                              *)
LEMMA SetAtType ==
  ASSUME NEW S, NEW f \in [Index -> S], NEW m \in Ref, NEW x \in S
  PROVE  SetAt(f, m, x) \in [Index -> S]
  BY DEF SetAt

(* SetLink returns links of the same type.                                 *)
LEMMA SetLinkType ==
  ASSUME NEW f \in [Index -> [Side -> Ref]], NEW m \in Ref, NEW i \in Side, NEW x \in Ref
  PROVE  SetLink(f, m, i, x) \in [Index -> [Side -> Ref]]
  BY DEF SetLink

(* SideOf is a side.                                                       *)
LEMMA SideOfType ==
  ASSUME NEW p, NEW n
  PROVE  SideOf(p, n) \in Side
  BY DEF SideOf

(* A cumulant computed from local values and cumulants is a cumulant.      *)
LEMMA CumulantOfType ==
  ASSUME TypeOK, NEW n \in Index, NEW ch \in [Side -> Ref]
  PROVE  CumulantOf(n, ch) \in Cumulants
  BY CumulantAssumption DEF CumulantOf, TypeOK

(* rotate returns well-typed links, root and cumulants.                    *)
LEMMA RotateType ==
  ASSUME TypeOK, NEW i \in Side, NEW n \in Index, Rotate(i, n)
  PROVE  /\ parent' \in [Index -> Ref]
         /\ child' \in [Index -> [Side -> Ref]]
         /\ root' \in [Trees -> Ref]
         /\ cum' \in [Index -> Cumulants]
<1> DEFINE pivot == child[n][1 - i]
           inner == child[pivot][i]
<1>1. 1 - i \in Side /\ pivot \in Index /\ inner \in Ref /\ parent[n] \in Ref
  BY DEF Rotate, TypeOK
<1>2. parent' \in [Index -> Ref]
  <2>1. [ReplacedParent(n, pivot) EXCEPT ![n] = pivot] \in [Index -> Ref]
    BY <1>1, SetAtType DEF ReplacedParent, TypeOK
  <2> QED  BY <1>1, <2>1, SetAtType DEF Rotate
<1>3. ReplacedChild(n, pivot) \in [Index -> [Side -> Ref]]
  BY <1>1, SetLinkType, SideOfType DEF ReplacedChild, TypeOK
<1>4. child' \in [Index -> [Side -> Ref]]
  BY <1>1, <1>3 DEF Rotate
<1>5. root' \in [Trees -> Ref]
  BY <1>1 DEF Rotate, ReplacedRoot, TypeOK
<1>6. cum' \in [Index -> Cumulants]
  <2>1. CumulantOf(n, child'[n]) \in Cumulants
    BY <1>4, CumulantOfType
  <2> QED  BY <2>1 DEF Rotate, LoweredCumulant, TypeOK
<1> QED  BY <1>2, <1>4, <1>5, <1>6

-----------------------------------------------------------------------------
(* Type correctness: an invariant that is inductive as it stands, because  *)
(* every unwrap is a guard.                                                *)

USE DEF PC, SearchResult, InsertStep, RemoveStep, FixRemoveStep

(* The initial state is well typed.                                        *)
LEMMA InitType == Init => TypeOK
<1> SUFFICES ASSUME Init PROVE TypeOK
  OBVIOUS
<1>1. AnyValue \in Values
  BY ValuesAssumption DEF AnyValue
<1>2. NoLinks \in [Side -> Ref]
  BY DEF NoLinks
<1> QED  BY <1>1, <1>2, CumulantAssumption DEF Init, TypeOK

(* A call starts with typed arguments and a cursor that is set.            *)
LEMMA CallType ==
  ASSUME TypeOK, NEW op \in Op, NEW t \in Trees, NEW k \in Keys,
         NEW v \in Values \cup {None},
         op = "insert" <=> v # None, CallOp(op, t, k, v)
  PROVE  TypeOK'
<1>1. call' \in Call
  BY NoneAssumption DEF CallOp, Call, Op
<1>2. /\ pc' \in {"Empty", "Here", "LeftOf", "RightOf", "descend"}
      /\ ptr' \in Ref
      /\ pc' \in {"Here", "LeftOf", "RightOf"} => ptr' # None
  BY DEF CallOp, SearchFrom, Found, TypeOK
<1> QED  BY <1>1, <1>2 DEF CallOp, TypeOK, data, links, bounds

(* Looking for a key keeps the types.                                      *)
LEMMA SearchType ==
  ASSUME TypeOK, Descend \/ Get \/ Search \/ RemoveMiss
  PROVE  TypeOK'
<1>1. CASE Descend
  BY <1>1 DEF Descend, TypeOK, data, links, bounds
<1>2. CASE Get
  BY <1>2 DEF Get, Return, TypeOK, data, links, bounds
<1>3. CASE Search
  BY <1>3 DEF Search, Return, TypeOK, data, links, bounds
<1>4. CASE RemoveMiss
  BY <1>4 DEF RemoveMiss, Return, TypeOK, data, links, bounds
<1> QED  BY <1>1, <1>2, <1>3, <1>4

(* Hanging a node keeps the types, whatever it holds.                      *)
LEMMA HangType ==
  ASSUME TypeOK, NEW n \in Index, Hang(n),
         key' \in [Index -> Keys \cup {None}], val' \in [Index -> Values], cum' \in [Index -> Cumulants]
  PROVE  TypeOK'
<1> DEFINE i == IF pc = "LeftOf" THEN 0 ELSE 1
           far == order[ptr][i]
           near == [j \in Side |-> IF j = i THEN far ELSE ptr]
<1>1. call.key \in Keys /\ call.val \in Values /\ call.tree \in Trees
  BY DEF Hang, TypeOK, Call
<1>2. i \in Side /\ ptr \in Index /\ far \in Ref /\ near \in [Side -> Ref]
  <2>1. i \in Side
    OBVIOUS
  <2>2. ptr \in Index
    BY DEF Hang, TypeOK
  <2>3. far \in Ref
    BY <2>1, <2>2 DEF TypeOK
  <2> QED  BY <2>1, <2>2, <2>3
<1>2a. 1 - i \in Side
  OBVIOUS
<1>3. NoLinks \in [Side -> Ref]
  BY DEF NoLinks
<1>4. child' \in [Index -> [Side -> Ref]]
  BY SMTT(20), <1>2, <1>3 DEF Hang, TypeOK
<1>5. order' \in [Index -> [Side -> Ref]]
  <2>1. SetLink(order, far, 1 - i, n) \in [Index -> [Side -> Ref]]
    <3> HIDE DEF i, far, near, Side
    <3>1. n \in Ref
      OBVIOUS
    <3> QED  BY <1>2, <1>2a, <3>1, SetLinkType DEF TypeOK
  <2>2. order' = [SetLink(order, far, 1 - i, n) EXCEPT ![n] = near, ![ptr][i] = n]
    BY DEF Hang
  <2> QED  BY <1>2, <2>1, <2>2
<1>6. range' \in [Trees -> [Side -> Ref]]
  BY <1>1, <1>2 DEF Hang, TypeOK
<1>7. color' \in [Index -> Color] /\ parent' \in [Index -> Ref]
  BY <1>1, <1>2 DEF Hang, TypeOK
<1>8. /\ pc' \in {"fix_insert", "propagate"} /\ node' = n /\ ptr' = n
      /\ UNCHANGED <<root, black_height, call, par, dir>> /\ pc \in {"LeftOf", "RightOf"}
  BY DEF Hang
<1> QED  BY <1>1, <1>4, <1>5, <1>6, <1>7, <1>8, NoneAssumption DEF TypeOK

(* Linking a new node keeps the types.                                     *)
LEMMA InsertType ==
  ASSUME TypeOK,
         \/ InsertHere
         \/ \E n \in Index \ Live : InsertEmpty(n) \/ InsertAt(n)
  PROVE  TypeOK'
<1>1. CASE InsertHere
  <2>1. call.val \in Values
    BY <1>1 DEF InsertHere, TypeOK, Call
  <2> QED  BY <1>1, <2>1, CumulantAssumption DEF InsertHere, Return, TypeOK, links, bounds
<1>2. ASSUME NEW n \in Index, InsertEmpty(n)
      PROVE  TypeOK'
  <2>1. call.key \in Keys /\ call.val \in Values /\ call.tree \in Trees
    BY <1>2 DEF InsertEmpty, TypeOK, Call
  <2>2. Combine(call.val, DefaultCumulant, DefaultCumulant) \in Cumulants
    BY <2>1, CumulantAssumption
  <2>3. NoLinks \in [Side -> Ref]
    BY DEF NoLinks
  <2> QED  BY <1>2, <2>1, <2>2, <2>3, CumulantAssumption DEF InsertEmpty, Return, TypeOK
<1>3. ASSUME NEW n \in Index, InsertAt(n)
      PROVE  TypeOK'
  <2>1. call.key \in Keys /\ call.val \in Values
    BY <1>3 DEF InsertAt, Hang, TypeOK, Call
  <2>2. /\ key' \in [Index -> Keys \cup {None}] /\ val' \in [Index -> Values]
        /\ cum' \in [Index -> Cumulants]
    BY <1>3, <2>1, CumulantAssumption DEF InsertAt, TypeOK
  <2> QED  BY <1>3, <2>2, HangType DEF InsertAt
<1> QED  BY <1>1, <1>2, <1>3

(* The steps of fix_insert keep the types.                                 *)
LEMMA FixInsertType ==
  ASSUME TypeOK,
         FixInsertDone \/ FixInsertRecolor \/ FixInsertInner \/ FixInsertOuter \/ Blacken
  PROVE  TypeOK'
<1>1. CASE FixInsertDone
  BY <1>1 DEF FixInsertDone, TypeOK, data, links, bounds
<1>2. CASE FixInsertRecolor
  <2>1. ptr \in Index /\ parent[ptr] \in Index /\ Grandparent \in Index
    BY <1>2 DEF FixInsertRecolor, RedParent, IsRed, Grandparent, TypeOK
  <2> QED  BY <1>2, <2>1 DEF FixInsertRecolor, RedParent, TypeOK, data, links, bounds
<1>3. CASE FixInsertInner
  <2>1. ptr \in Index /\ parent[ptr] \in Index
    BY <1>3 DEF FixInsertInner, RedParent, IsRed, TypeOK
  <2>2. 1 - UncleSide \in Side
    BY SideOfType DEF UncleSide
  <2>3. /\ parent' \in [Index -> Ref] /\ child' \in [Index -> [Side -> Ref]]
        /\ root' \in [Trees -> Ref] /\ cum' \in [Index -> Cumulants]
    <3> HIDE DEF Side
    <3> QED  BY <1>3, <2>1, <2>2, RotateType DEF FixInsertInner
  <2>4. /\ pc = "fix_insert" /\ pc' = "rotate_outer" /\ ptr' = parent[ptr]
        /\ UNCHANGED <<key, val, color, order, range, black_height, call, node, par, dir>>
    BY <1>3 DEF FixInsertInner, RedParent, data
  <2> QED  BY <2>1, <2>3, <2>4, NoneAssumption DEF TypeOK
<1>4. CASE FixInsertOuter
  <2>1. ptr \in Index /\ parent[ptr] \in Index /\ Grandparent \in Index
    BY <1>4 DEF FixInsertOuter, RedParent, IsRed, Grandparent, TypeOK
  <2>2. UncleSide \in Side
    BY SideOfType DEF UncleSide
  <2>3. /\ parent' \in [Index -> Ref] /\ child' \in [Index -> [Side -> Ref]]
        /\ root' \in [Trees -> Ref] /\ cum' \in [Index -> Cumulants]
    BY <1>4, <2>1, <2>2, RotateType DEF FixInsertOuter
  <2> QED  BY <1>4, <2>1, <2>3 DEF FixInsertOuter, RedParent, TypeOK, data
<1>5. CASE Blacken
  <2>1. call.tree \in Trees
    BY <1>5 DEF Blacken, TypeOK, Call
  <2> QED  BY <1>5, <2>1 DEF Blacken, Heightened, TypeOK, data, links
<1> QED  BY <1>1, <1>2, <1>3, <1>4, <1>5

(* Bringing a cumulant up to date keeps the types.                         *)
LEMMA PropagateType ==
  ASSUME TypeOK, Propagate
  PROVE  TypeOK'
<1>1. CASE HasCumulant /\ ptr # None
  <2>1. CumulantOf(ptr, child[ptr]) \in Cumulants
    BY <1>1, CumulantOfType DEF TypeOK
  <2> QED  BY <1>1, <2>1 DEF Propagate, TypeOK, data, links, bounds
<1>2. CASE ~(HasCumulant /\ ptr # None)
  BY <1>2 DEF Propagate, AfterPropagate, Return, TypeOK, data, links, bounds
<1> QED  BY <1>1, <1>2

(* Unlinking a node and freeing its slot keep the types.                   *)
LEMMA RemoveType ==
  ASSUME TypeOK,
         \/ RemoveHere \/ (\E i \in Side : UnlinkOneChild(i))
         \/ UnlinkLeaf \/ UnlinkLast \/ Unthread \/ Free
  PROVE  TypeOK'
<1>1. CASE RemoveHere
  <2>1. ptr \in Index /\ order[ptr][1] \in Ref
    BY <1>1 DEF RemoveHere, TypeOK
  <2>2. CASE \A i \in Side : child[ptr][i] # None
    <3>1. order[ptr][1] \in Index
      BY <1>1, <2>1, <2>2 DEF RemoveHere
    <3> DEFINE next == order[ptr][1]
    <3>2. /\ pc = "Here" /\ pc' = "unlink" /\ ptr' = None /\ node' = next
          /\ key' = [key EXCEPT ![ptr] = key[next], ![next] = key[ptr]]
          /\ val' = [val EXCEPT ![ptr] = val[next], ![next] = val[ptr]]
          /\ cum' = [cum EXCEPT ![ptr] = cum[next], ![next] = cum[ptr]]
          /\ UNCHANGED <<color, parent, child, order, root, range, black_height, call, par, dir>>
      BY <1>1, <2>2 DEF RemoveHere, Swapped, links, bounds
    <3>3. /\ key' \in [Index -> Keys \cup {None}]
          /\ val' \in [Index -> Values]
          /\ cum' \in [Index -> Cumulants]
      BY <2>1, <3>1, <3>2 DEF TypeOK
    <3> QED  BY <2>1, <3>1, <3>2, <3>3, NoneAssumption DEF TypeOK
  <2>3. CASE ~ \A i \in Side : child[ptr][i] # None
    BY <1>1, <2>1, <2>3 DEF RemoveHere, TypeOK, data, links, bounds
  <2> QED  BY <2>2, <2>3
<1>2. ASSUME NEW i \in Side, UnlinkOneChild(i)
      PROVE  TypeOK'
  <2>1. node \in Index /\ child[node][i] \in Index /\ parent[node] \in Ref
    BY <1>2 DEF UnlinkOneChild, TypeOK
  <2>2. child' \in [Index -> [Side -> Ref]]
    BY <1>2, <2>1, SetLinkType, SideOfType DEF UnlinkOneChild, ReplacedChild, TypeOK
  <2>3. root' \in [Trees -> Ref]
    BY <1>2, <2>1 DEF UnlinkOneChild, ReplacedRoot, TypeOK
  <2>4. parent' \in [Index -> Ref]
    BY <1>2, <2>1, SetAtType DEF UnlinkOneChild, ReplacedParent, TypeOK
  <2> QED  BY <1>2, <2>1, <2>2, <2>3, <2>4 DEF UnlinkOneChild, TypeOK, data
<1>3. CASE UnlinkLeaf
  <2>1. parent[node] \in Index /\ SideOf(parent[node], node) \in Side
    BY <1>3, SideOfType DEF UnlinkLeaf, TypeOK
  <2>2. child' \in [Index -> [Side -> Ref]]
    BY <1>3, <2>1 DEF UnlinkLeaf, TypeOK
  <2>3. /\ pc = "unlink" /\ pc' \in {"unthread", "fix_remove"}
        /\ par' \in Ref /\ dir' \in Side /\ (pc' = "fix_remove" => par' # None)
        /\ UNCHANGED <<key, val, cum, color, parent, order, root, range, black_height,
                       call, node, ptr>>
    BY <1>3, <2>1, NoneAssumption DEF UnlinkLeaf, TypeOK, data, bounds
  <2> QED  BY <2>2, <2>3 DEF TypeOK
<1>4. CASE UnlinkLast
  <2>1. NoLinks \in [Side -> Ref]
    BY DEF NoLinks
  <2>2. /\ root' \in [Trees -> Ref]
        /\ range' \in [Trees -> [Side -> Ref]]
        /\ black_height' \in [Trees -> Int]
    <3>1. /\ root' = [root EXCEPT ![call.tree] = None]
          /\ range' = [range EXCEPT ![call.tree] = NoLinks]
          /\ black_height' = [black_height EXCEPT ![call.tree] = 0]
      BY <1>4 DEF UnlinkLast
    <3>2. /\ root \in [Trees -> Ref]
          /\ range \in [Trees -> [Side -> Ref]]
          /\ black_height \in [Trees -> Int]
      BY DEF TypeOK
    <3>3. root' \in [Trees -> Ref]
      BY <3>1, <3>2
    <3>4. range' \in [Trees -> [Side -> Ref]]
      BY <2>1, <3>1, <3>2
    <3>5. black_height' \in [Trees -> Int]
      <4>1. call.tree \in Trees
        BY <1>4 DEF UnlinkLast, TypeOK, Call
      <4>2. \A f \in [Trees -> Int], t \in Trees : [f EXCEPT ![t] = 0] \in [Trees -> Int]
        OBVIOUS
      <4> QED  BY <3>1, <3>2, <4>1, <4>2
    <3> QED  BY <3>3, <3>4, <3>5
  <2>3. /\ pc = "unlink" /\ pc' = "free"
        /\ UNCHANGED <<key, val, cum, color, parent, child, order, call, node, ptr, par, dir>>
    BY <1>4 DEF UnlinkLast, data, links
  <2> QED  BY <2>2, <2>3 DEF TypeOK
<1>5. CASE Unthread
  <2>1. /\ node \in Index /\ call.tree \in Trees
        /\ order[node][0] \in Ref /\ order[node][1] \in Ref
    BY <1>5 DEF Unthread, TypeOK, Call
  <2>2. order' \in [Index -> [Side -> Ref]]
    <3>1. SetLink(order, order[node][0], 1, order[node][1]) \in [Index -> [Side -> Ref]]
      BY <2>1, SetLinkType DEF TypeOK
    <3> QED  BY <1>5, <2>1, <3>1, SetLinkType DEF Unthread, Spliced
  <2>3. range' \in [Trees -> [Side -> Ref]]
    BY <1>5, <2>1 DEF Unthread, TypeOK
  <2> QED  BY <1>5, <2>1, <2>2, <2>3 DEF Unthread, TypeOK, data, links
<1>6. CASE Free
  <2>1. NoLinks \in [Side -> Ref] /\ AnyValue \in Values
    BY ValuesAssumption DEF NoLinks, AnyValue
  <2> QED  BY <1>6, <2>1, CumulantAssumption DEF Free, Return, TypeOK, bounds
<1> QED  BY <1>1, <1>2, <1>3, <1>4, <1>5, <1>6

(* The steps of fix_remove keep the types.                                 *)
LEMMA FixRemoveType ==
  ASSUME TypeOK,
         \/ FixRemoveRedSibling \/ FixRemoveCloseNephew
         \/ FixRemoveFarNephew \/ FixRemoveRecolor
  PROVE  TypeOK'
<1>1. 1 - dir \in Side /\ dir \in Side
  BY DEF TypeOK
<1>2. CASE FixRemoveRedSibling
  <2>1. par \in Index /\ node # None
    BY <1>2 DEF FixRemoveRedSibling, TypeOK
  <2>2. /\ parent' \in [Index -> Ref] /\ child' \in [Index -> [Side -> Ref]]
        /\ root' \in [Trees -> Ref] /\ cum' \in [Index -> Cumulants]
    BY <1>1, <1>2, <2>1, RotateType DEF FixRemoveRedSibling
  <2> QED  BY <1>2, <2>1, <2>2 DEF FixRemoveRedSibling, TypeOK, data
<1>3. CASE FixRemoveCloseNephew
  <2>1. par \in Index /\ node # None /\ Sibling \in Index
    BY <1>1, <1>3 DEF FixRemoveCloseNephew, AtBlackSibling, Sibling, TypeOK
  <2>2. /\ parent' \in [Index -> Ref] /\ child' \in [Index -> [Side -> Ref]]
        /\ root' \in [Trees -> Ref] /\ cum' \in [Index -> Cumulants]
    BY <1>1, <1>3, <2>1, RotateType DEF FixRemoveCloseNephew
  <2> QED  BY <1>3, <2>1, <2>2 DEF FixRemoveCloseNephew, AtBlackSibling, TypeOK, data
<1>4. CASE FixRemoveFarNephew
  <2>1. par \in Index /\ node # None /\ color[par] \in Color
    BY <1>4 DEF FixRemoveFarNephew, AtBlackSibling, TypeOK
  <2>2. /\ parent' \in [Index -> Ref] /\ child' \in [Index -> [Side -> Ref]]
        /\ root' \in [Trees -> Ref] /\ cum' \in [Index -> Cumulants]
    BY <1>1, <1>4, <2>1, RotateType DEF FixRemoveFarNephew
  <2> QED  BY <1>4, <2>1, <2>2 DEF FixRemoveFarNephew, AtBlackSibling, TypeOK, data
<1>5. CASE FixRemoveRecolor
  <2>1. /\ par \in Index /\ node # None /\ parent[par] \in Ref /\ call.tree \in Trees
        /\ SideOf(parent[par], par) \in Side
    BY <1>5, SideOfType DEF FixRemoveRecolor, AtBlackSibling, TypeOK, Call
  <2> QED  BY <1>5, <2>1 DEF FixRemoveRecolor, AtTop, AtBlackSibling, TypeOK, data, links
<1> QED  BY <1>2, <1>3, <1>4, <1>5

(* Every step keeps the types.                                             *)
LEMMA NextType == TypeOK /\ [Next]_vars => TypeOK'
<1> SUFFICES ASSUME TypeOK, [Next]_vars PROVE TypeOK'
  OBVIOUS
<1>1. ASSUME NEW t \in Trees, NEW k \in Keys, NEW v \in Values, CallOp("insert", t, k, v)
      PROVE  TypeOK'
  BY <1>1, CallType, NoneAssumption DEF Op
<1>2. ASSUME NEW t \in Trees, NEW k \in Keys, NEW op \in Op \ {"insert"},
             CallOp(op, t, k, None)
      PROVE  TypeOK'
  BY <1>2, CallType
<1>3. CASE Step
  BY <1>3, SearchType, InsertType, FixInsertType, PropagateType, RemoveType, FixRemoveType
  DEF Step, Relink
<1>4. CASE UNCHANGED vars
  BY <1>4 DEF vars, TypeOK
<1> QED  BY <1>1, <1>2, <1>3, <1>4 DEF Next

(* In every reachable state of every forest the variables have their types *)
(* and the registers a step reads are set: no step of tree/mod.rs follows  *)
(* a link it has not checked, unwrap included.                             *)
THEOREM TypeCorrect == Spec => []TypeOK
<1>1. Init => TypeOK
  BY InitType
<1>2. TypeOK /\ [Next]_vars => TypeOK'
  BY NextType
<1> QED  BY <1>1, <1>2, PTL DEF Spec

-----------------------------------------------------------------------------
(* The laws.                                                               *)
HIDE DEF Color, PC, SearchResult, InsertStep, RemoveStep, FixRemoveStep

(* Hanging nodes are nodes.                                                *)
LEMMA HungLive == Hung \in SUBSET Index /\ Hung \subseteq Live
  BY DEF Hung, Live

(* A step that rewires only links of A.                                    *)
Kept(A) == \A m \in Index \ A : parent'[m] = parent[m] /\ child'[m] = child[m]

(* A step that leaves the links of slots alone that are free and stay so.  *)
Spared ==
  \A m \in Index : m \notin Live /\ m \notin Live' =>
    parent'[m] = parent[m] /\ child'[m] = child[m] /\ order'[m] = order[m]

(* The links after the action Rotate, on the nodes that hang: v takes the   *)
(* place of n, w changes hands.                                            *)
Turned(i, n, v, w) ==
  /\ v # None /\ v # n /\ w # v /\ w # n
  /\ parent[v] = n /\ (w # None => parent[w] = v /\ w \in Hung)
  /\ parent'[v] = parent[n] /\ parent'[n] = v /\ (w # None => parent'[w] = n)
  /\ \A m \in Index \ {n, v, w} : parent'[m] = parent[m]
  /\ child'[n][i] = child[n][i] /\ child'[n][1 - i] = w
  /\ child'[v][i] = n /\ child'[v][1 - i] = child[v][1 - i]
  /\ \A m \in Hung \ {n, v}, s \in Side :
       child'[m][s] = IF child[m][s] = n THEN v ELSE child[m][s]
  /\ \A t \in Trees : root'[t] = IF root[t] = n THEN v ELSE root[t]

(* The action Rotate does that, and touches no other tree.                 *)
LEMMA RotateLinks ==
  ASSUME TypeOK, TypeOK', call \in Call,
         NEW D \in [Ref -> SUBSET Index], NEW rk \in [Index -> Int], LinkLaws(D, rk),
         NEW i \in Side, NEW n \in D[root[call.tree]], Rotate(i, n),
         NEW v, v = child[n][1 - i], NEW w, w = child[v][i]
  PROVE  /\ Turned(i, n, v, w) /\ Kept(D[root[call.tree]])
         /\ n \in Hung /\ v \in Hung /\ v \in D[root[call.tree]] /\ w \in Ref
<1> DEFINE L == Hung
           j == 1 - i
           p == parent[n]
           A == D[root[call.tree]]
<1>v. v = child[n][j] /\ w = child[v][i]
  OBVIOUS
<1>1. Shape(L, parent, child, root, D, rk)
  BY DEF LinkLaws
<1>2. /\ parent \in [Index -> Ref] /\ child \in [Index -> [Side -> Ref]] /\ root \in [Trees -> Ref]
      /\ parent' \in [Index -> Ref] /\ child' \in [Index -> [Side -> Ref]]
      /\ root' \in [Trees -> Ref] /\ call.tree \in Trees /\ None \notin Index
      /\ L \in SUBSET Index /\ L \subseteq Live
  BY NoneAssumption, HungLive DEF TypeOK, Call
<1>3. /\ j \in Side /\ j # i /\ 1 - i = j /\ \A s \in Side : s = i \/ s = j
  OBVIOUS
<1>4. /\ v # None
      /\ parent' = SetAt([ReplacedParent(n, v) EXCEPT ![n] = v], w, n)
      /\ child' = [ReplacedChild(n, v) EXCEPT ![v][i] = n, ![n][j] = w]
      /\ root' = ReplacedRoot(n, v)
  BY DEF Rotate
<1>5. /\ A \subseteq L /\ n \in A /\ n \in L
      /\ p = None => n = root[call.tree]
      /\ p # None => p \in A /\ \E s \in Side : child[p][s] = n
      /\ \A m \in A, s \in Side : child[m][s] # None => child[m][s] \in A /\ parent[child[m][s]] = m
      /\ \A u \in Trees : u # call.tree => root[u] \notin A
      /\ root[call.tree] # None => root[call.tree] \in A /\ parent[root[call.tree]] = None
  <2>1. InTree(L, parent, child, root, D, call.tree, A)
    <3> HIDE DEF L, Side, Ref
    <3> QED  BY <1>1, <1>2, Family
  <2>2. n \in A
    OBVIOUS
  <2> HIDE DEF L, j, A
  <2> QED  BY <2>1, <2>2 DEF InTree
<1>6. Apart(parent, child, D, n)
  <2> HIDE DEF L, Side, Ref
  <2> QED  BY <1>1, <1>2, <1>5, Distinct
<1>7. /\ v \in A /\ v \in Index /\ v \in L /\ v # n /\ parent[v] = n
      /\ w \in Ref /\ w # n /\ w # v /\ (w # None => w \in A /\ w \in Index /\ parent[w] = v)
      /\ p \in Ref /\ p # n /\ p # v
  <2>1. v \in A /\ parent[v] = n
    BY <1>3, <1>4, <1>5
  <2>2. v \in Index /\ v \in L
    BY <2>1, <1>2, <1>5
  <2>3. w \in Ref /\ p \in Ref
    BY <2>2, <1>2, <1>5
  <2>4. w # None => w \in A /\ parent[w] = v
    BY <2>1, <1>5
  <2>5. v # n /\ w # n /\ p # v /\ p # n
    BY <1>3, <1>4, <1>6 DEF Apart
  <2>6. w # v
    <3>1. Apart(parent, child, D, v)
      <4> HIDE DEF L, Side, Ref
      <4> QED  BY <2>2, <1>1, <1>2, Distinct
    <3> QED  BY <3>1 DEF Apart
  <2> QED  BY <2>1, <2>2, <2>3, <2>4, <2>5, <2>6, <1>2, <1>5
<1>8. /\ parent'[v] = parent[n] /\ parent'[n] = v /\ (w # None => parent'[w] = n)
      /\ \A m \in Index \ {n, v, w} : parent'[m] = parent[m]
  <2> HIDE DEF A, L
  <2>1. parent' = SetAt([[parent EXCEPT ![v] = parent[n]] EXCEPT ![n] = v], w, n)
    BY <1>4, <1>7 DEF ReplacedParent, SetAt
  <2> DEFINE f == [[parent EXCEPT ![v] = parent[n]] EXCEPT ![n] = v]
  <2>2. /\ f \in [Index -> Ref] /\ f[v] = parent[n] /\ f[n] = v
        /\ \A m \in Index \ {n, v} : f[m] = parent[m]
    BY <1>2, <1>5, <1>7
  <2> HIDE DEF f
  <2>3. parent' = SetAt(f, w, n)
    BY <2>1 DEF f
  <2>4. CASE w = None
    BY <2>2, <2>3, <2>4 DEF SetAt
  <2>5. CASE w # None
    BY <2>2, <2>3, <2>5, <1>2, <1>5, <1>7 DEF SetAt
  <2> QED  BY <2>4, <2>5
<1>9. /\ child'[n][i] = child[n][i] /\ child'[n][j] = w
      /\ child'[v][i] = n /\ child'[v][j] = child[v][j]
      /\ \A m \in Index \ {n, v}, s \in Side :
            child'[m][s] = IF m = p /\ s = SideOf(p, n) THEN v ELSE child[m][s]
  <2> HIDE DEF A, L, p
  <2> DEFINE f == ReplacedChild(n, v)
  <2>1. f \in [Index -> [Side -> Ref]]
    BY <1>2, <1>7, SetLinkType, SideOfType DEF ReplacedChild, p
  <2>2. f[n] = child[n] /\ f[v] = child[v]
    BY <1>2, <1>5, <1>7 DEF ReplacedChild, SetLink, p
  <2>3. ASSUME NEW m \in Index, NEW s \in Side
        PROVE  f[m][s] = IF m = p /\ s = SideOf(p, n) THEN v ELSE child[m][s]
    <3>1. SideOf(p, n) \in Side
      BY SideOfType
    <3>2. CASE p = None
      BY <1>2, <3>2 DEF ReplacedChild, SetLink, p
    <3>3. CASE p # None
      <4>1. f = [child EXCEPT ![p][SideOf(p, n)] = v]
        BY <3>3 DEF ReplacedChild, SetLink, p
      <4> HIDE DEF f
      <4> QED  BY <3>1, <4>1, <1>2
    <3> QED  BY <3>2, <3>3
  <2>4. child' = [f EXCEPT ![v][i] = n, ![n][j] = w]
    BY <1>4
  <2> HIDE DEF f, j
  <2>5. child'[n][i] = f[n][i] /\ child'[n][j] = w /\ child'[v][i] = n /\ child'[v][j] = f[v][j]
    BY <2>1, <2>4, <1>2, <1>3, <1>5, <1>7
  <2>6. \A m \in Index \ {n, v} : child'[m] = f[m]
    BY <2>1, <2>4
  <2> QED  BY <2>2, <2>3, <2>5, <2>6
<1>10. \A m \in L \ {n, v}, s \in Side :
         child'[m][s] = IF child[m][s] = n THEN v ELSE child[m][s]
  <2> TAKE m \in L \ {n, v}, s \in Side
  <2>1. ASSUME child[m][s] = n PROVE m = p /\ s = SideOf(p, n)
    <3>1. m = p
      BY <2>1, <1>1, <1>2, <1>5 DEF Shape, Linked
    <3>2. Apart(parent, child, D, m)
      <4> HIDE DEF L, Side, Ref, p
      <4> QED  BY <1>1, <1>2, Distinct
    <3>3. \A r \in Side : r # s => child[m][r] # n
      BY <2>1, <3>2, <1>2, <1>5 DEF Apart
    <3> QED  BY <3>1, <3>3, <2>1 DEF SideOf
  <2>2. ASSUME m = p, s = SideOf(p, n) PROVE child[m][s] = n
    <3>1. PICK r \in Side : child[p][r] = n
      BY <2>2, <1>2, <1>5
    <3> QED  BY <2>2, <3>1 DEF SideOf
  <2> QED  BY <2>1, <2>2, <1>9, <1>2
<1>11. \A t \in Trees : root'[t] = IF root[t] = n THEN v ELSE root[t]
  <2> HIDE DEF A, L
  <2>1. CASE p = None
    <3>1. n = root[call.tree] /\ root' = [root EXCEPT ![call.tree] = v]
      BY <2>1, <1>4, <1>5 DEF ReplacedRoot
    <3> QED  BY <3>1, <1>2, <1>5
  <2>2. CASE p # None
    <3>1. root' = root
      BY <2>2, <1>4 DEF ReplacedRoot
    <3>2. \A t \in Trees : root[t] # n
      BY <2>2, <1>2, <1>5
    <3> QED  BY <3>1, <3>2
  <2> QED  BY <2>1, <2>2
<1>12. Kept(A)
  <2> SUFFICES ASSUME NEW m \in Index \ A
               PROVE  parent'[m] = parent[m] /\ child'[m] = child[m]
    BY DEF Kept
  <2>1. m \notin {n, v, w} /\ m # p
    BY <1>2, <1>5, <1>7
  <2>2. parent'[m] = parent[m]
    BY <2>1, <1>8
  <2>3. \A s \in Side : child'[m][s] = child[m][s]
    BY <2>1, <1>2, <1>5, <1>9
  <2> QED  BY <2>2, <2>3, <1>2
<1>13. Turned(i, n, v, w)
  <2>1. v # None /\ (w # None => parent[w] = v /\ w \in Hung)
    BY <1>4, <1>5, <1>7
  <2>2. /\ child'[n][i] = child[n][i] /\ child'[n][1 - i] = w
        /\ child'[v][i] = n /\ child'[v][1 - i] = child[v][1 - i]
    BY <1>3, <1>9
  <2>3. \A m \in Hung \ {n, v}, s \in Side :
          child'[m][s] = IF child[m][s] = n THEN v ELSE child[m][s]
    BY <1>10
  <2> HIDE DEF L, A, j, Side, Ref
  <2> QED  BY <2>1, <2>2, <2>3, <1>7, <1>8, <1>11 DEF Turned
<1> QED  BY <1>5, <1>7, <1>12, <1>13

(* The action Rotate does what RotateLaws asks, in the tree that is called *)
(* and nowhere else.                                                       *)
LEMMA RotateStep ==
  ASSUME TypeOK, TypeOK', call \in Call,
         NEW D \in [Ref -> SUBSET Index], NEW rk \in [Index -> Int], LinkLaws(D, rk),
         NEW i \in Side, NEW n \in D[root[call.tree]], Rotate(i, n),
         UNCHANGED <<key, order>>, Hung' = Hung
  PROVE  \E E \in [Ref -> SUBSET Index] :
           LinkLaws(E, rk)' /\ SameTrees(root, D, root', E) /\ Kept(D[root[call.tree]])
<1> DEFINE L == Hung
           j == 1 - i
           A == D[root[call.tree]]
<1>v. PICK v : v = child[n][1 - i]
  OBVIOUS
<1>w. PICK w : w = child[v][i]
  OBVIOUS
<1>1. Shape(L, parent, child, root, D, rk)
  BY DEF LinkLaws
<1>2. /\ parent \in [Index -> Ref] /\ child \in [Index -> [Side -> Ref]] /\ root \in [Trees -> Ref]
      /\ parent' \in [Index -> Ref] /\ child' \in [Index -> [Side -> Ref]]
      /\ root' \in [Trees -> Ref] /\ call.tree \in Trees /\ None \notin Index
      /\ L \in SUBSET Index /\ L \subseteq Live
  BY NoneAssumption, HungLive DEF TypeOK, Call
<1>3. j \in Side /\ j # i /\ 1 - i = j
  OBVIOUS
<1>4. /\ Turned(i, n, v, w) /\ Kept(A)
      /\ n \in L /\ v \in L /\ v \in A /\ w \in Ref
  <2> HIDE DEF Side, Ref
  <2> QED  BY <1>v, <1>w, RotateLinks
<1>5. n \in Index /\ n \in Ref /\ v \in Index /\ v # n /\ w \in Ref /\ child[n][i] \in Ref
  BY <1>2, <1>4 DEF Turned
<1>6. PICK E \in [Ref -> SUBSET Index] :
         /\ E[v] = D[n] /\ E[n] = {n} \cup D[child[n][i]] \cup D[w]
         /\ \A m \in Ref \ {n, v} : E[m] = D[m]
  <2> HIDE DEF A, L
  <2> DEFINE F == [m \in Ref |-> IF m = v THEN D[n]
                                  ELSE IF m = n THEN {n} \cup D[child[n][i]] \cup D[w]
                                  ELSE D[m]]
  <2>2. F \in [Ref -> SUBSET Index]
    BY <1>2, <1>5
  <2>3. F[v] = D[n] /\ F[n] = {n} \cup D[child[n][i]] \cup D[w]
    BY <1>2, <1>5
  <2>4. \A m \in Ref \ {n, v} : F[m] = D[m]
    OBVIOUS
  <2> HIDE DEF F
  <2> QED  BY <2>2, <2>3, <2>4
<1>7. Shape(L, parent', child', root', E, rk) /\ SameTrees(root, D, root', E)
  <2> HIDE DEF A, L, j
  <2>1. i # j /\ v = child[n][j] /\ w = child[v][i]
    BY <1>3, <1>v, <1>w
  <2>2. Rotated(L, parent, child, root, D, parent', child', root', E, i, j, n, v, w)
    BY <1>3, <1>4, <1>6 DEF Rotated, Turned, L
  <2> HIDE DEF Side, Ref
  <2>3. Shape(L, parent', child', root', E, rk)
    BY <2>1, <2>2, <1>1, <1>2, <1>3, <1>4, <1>5, RotateLaws
  <2>4. SameTrees(root, D, root', E)
    BY <2>1, <2>2, <1>1, <1>2, <1>3, <1>4, <1>5, RotateLaws
  <2> QED  BY <2>3, <2>4
<1>9. LinkLaws(E, rk)'
  BY <1>7 DEF LinkLaws
<1> QED  BY <1>4, <1>7, <1>9

-----------------------------------------------------------------------------
(* A step that touches no key, no thread and does not enter or leave an    *)
(* unlink keeps the ranks.                                                 *)
LEMMA RankFrame ==
  ASSUME NEW n \in Index, UNCHANGED <<key, order, node>>,
         pc' \in Unlinked \cup {"unlink"} <=> pc \in Unlinked \cup {"unlink"}
  PROVE  Rank(n)' = Rank(n)
  BY DEF Rank

(* A step that rewires one tree, and no key or thread, keeps the laws if it*)
(* keeps the nodes of every tree and its own registers in order.           *)
LEMMA RelinkFrame ==
  ASSUME TypeOK, NEW D \in [Ref -> SUBSET Index], NEW E \in [Ref -> SUBSET Index],
         NEW rk \in [Index -> Int], NEW A,
         Laws(D, rk), LinkLaws(E, rk)', SameTrees(root, D, root', E),
         A = D[root[call.tree]], call \in Call,
         UNCHANGED <<key, order, range, call, node>>,
         pc' \in Unlinked <=> pc \in Unlinked,
         pc' \in Unlinked \cup {"unlink"} <=> pc \in Unlinked \cup {"unlink"},
         CallLaws', SearchLaws(A, E)', UpdateLaws(A)'
  PROVE  Laws(E, rk)'
<1>1. RankLaws(rk)'
  <2>1. Live' = Live
    BY DEF Live
  <2>2. \A n \in Live : n \in Index /\ rk[n] = Rank(n)
    BY DEF Laws, RankLaws, Live
  <2>3. \A n \in Live : Rank(n)' = Rank(n)
    BY <2>2, RankFrame
  <2> QED  BY <2>1, <2>2, <2>3 DEF RankLaws
<1>2. StringLaws(E, rk)'
  <2> SUFFICES ASSUME NEW t \in Trees PROVE Thread(Strung(E, t), order, range[t], rk)'
    BY DEF StringLaws
  <2>1. Thread(Strung(D, t), order, range[t], rk)
    BY DEF Laws, StringLaws
  <2>2. E[root'[t]] = D[root[t]]
    BY DEF SameTrees
  <2>3. Strung(E, t)' = Strung(D, t)
    BY <2>2 DEF Strung
  <2> QED  BY <2>1, <2>3
<1>3. CursorLaws(Own(E), E)'
  <2>1. call' = call /\ call # None /\ call.tree \in Trees
    BY CallAssumption DEF Call, TypeOK
  <2>2. Own(E)' = A
    BY <2>1 DEF Own, SameTrees
  <2> QED  BY <2>2 DEF CursorLaws
<1> QED  BY <1>1, <1>2, <1>3 DEF Laws

-----------------------------------------------------------------------------
(* InTree, from the laws.                                                  *)
LEMMA OwnTree ==
  ASSUME TypeOK, NEW D \in [Ref -> SUBSET Index], NEW rk \in [Index -> Int], Laws(D, rk),
         NEW t \in Trees
  PROVE  InTree(Hung, parent, child, root, D, t, D[root[t]])
<1>1. Shape(Hung, parent, child, root, D, rk)
  BY DEF Laws, LinkLaws
<1>2. /\ parent \in [Index -> Ref] /\ child \in [Index -> [Side -> Ref]]
      /\ root \in [Trees -> Ref] /\ Hung \in SUBSET Index
  BY HungLive DEF TypeOK
<1> HIDE DEF Side, Ref
<1> QED  BY <1>1, <1>2, Family

(* Apart, from the laws.                                                   *)
LEMMA OwnApart ==
  ASSUME TypeOK, NEW D \in [Ref -> SUBSET Index], NEW rk \in [Index -> Int], Laws(D, rk),
         NEW n \in Hung
  PROVE  Apart(parent, child, D, n)
<1>1. Shape(Hung, parent, child, root, D, rk)
  BY DEF Laws, LinkLaws
<1>2. /\ parent \in [Index -> Ref] /\ child \in [Index -> [Side -> Ref]]
      /\ root \in [Trees -> Ref] /\ Hung \in SUBSET Index
  BY HungLive DEF TypeOK
<1> HIDE DEF Side, Ref
<1> QED  BY <1>1, <1>2, Distinct

(* What the laws say of the call in flight.                                *)
LEMMA OwnCall ==
  ASSUME TypeOK, NEW D \in [Ref -> SUBSET Index], NEW rk \in [Index -> Int], Laws(D, rk),
         pc # "idle"
  PROVE  /\ call \in Call /\ call # None /\ call.tree \in Trees /\ call.key \in Keys
         /\ call.key \in Int /\ Own(D) = D[root[call.tree]]
         /\ SearchLaws(Own(D), D) /\ UpdateLaws(Own(D))
         /\ InTree(Hung, parent, child, root, D, call.tree, Own(D))
<1>1. call \in Call /\ call # None /\ call.tree \in Trees /\ call.key \in Keys
  BY CallAssumption DEF TypeOK, Call
<1>2. call.key \in Int
  BY <1>1, KeysAssumption
<1>3. Own(D) = D[root[call.tree]]
  BY <1>1 DEF Own
<1>4. SearchLaws(Own(D), D) /\ UpdateLaws(Own(D))
  BY <1>1 DEF Laws, CursorLaws
<1> QED  BY <1>1, <1>2, <1>3, <1>4, OwnTree

(* But for the node being unlinked the rank is twice the key: ...          *)
LEMMA KeyRank ==
  ASSUME TypeOK, NEW D \in [Ref -> SUBSET Index], NEW rk \in [Index -> Int], Laws(D, rk),
         NEW n \in Live
  PROVE  /\ key[n] \in Int /\ n \in Index
         /\ pc \notin Unlinked \cup {"unlink"} \/ n # node => rk[n] = 2 * key[n]
  BY KeysAssumption DEF TypeOK, Live, Laws, RankLaws, Rank

(* ... the ranks order nodes as their keys do, ...                         *)
LEMMA KeyOrder ==
  ASSUME TypeOK, NEW D \in [Ref -> SUBSET Index], NEW rk \in [Index -> Int], Laws(D, rk),
         pc \notin Unlinked \cup {"unlink"}, NEW n \in Live, NEW m \in Live, NEW i \in Side
  PROVE  Before(i, rk[n], rk[m]) <=> Before(i, key[n], key[m])
<1>1. key[n] \in Int /\ key[m] \in Int /\ rk[n] = 2 * key[n] /\ rk[m] = 2 * key[m]
  BY KeyRank
<1> QED  BY <1>1 DEF Before

(* ... and tell them apart as their keys do.                               *)
LEMMA KeyEqual ==
  ASSUME TypeOK, NEW D \in [Ref -> SUBSET Index], NEW rk \in [Index -> Int], Laws(D, rk),
         pc \notin Unlinked \cup {"unlink"}, NEW n \in Live, NEW m \in Live
  PROVE  rk[n] = rk[m] <=> key[n] = key[m]
<1>1. key[n] \in Int /\ key[m] \in Int /\ rk[n] = 2 * key[n] /\ rk[m] = 2 * key[m]
  BY KeyRank
<1> QED  BY <1>1

-----------------------------------------------------------------------------
(* A step that changes no link, key or thread keeps the laws, if its       *)
(* registers stay in order; ...                                            *)
LEMMA QuietFrame ==
  ASSUME TypeOK, NEW D \in [Ref -> SUBSET Index], NEW rk \in [Index -> Int], Laws(D, rk),
         UNCHANGED <<key, parent, child, order, root, range>>, Hung' = Hung,
         \A t \in Trees : Strung(D, t)' = Strung(D, t),
         \A n \in Live : Rank(n)' = Rank(n),
         CallLaws', CursorLaws(Own(D), D)'
  PROVE  Laws(D, rk)'
<1>0. Live' = Live
  BY DEF Live
<1>1. LinkLaws(D, rk)'
  BY <1>0 DEF Laws, LinkLaws
<1>2. RankLaws(rk)'
  BY <1>0 DEF Laws, RankLaws
<1>3. StringLaws(D, rk)'
  BY DEF Laws, StringLaws
<1> QED  BY <1>1, <1>2, <1>3 DEF Laws

(* ... also outside of a removal; ...                                      *)
LEMMA StillFrame ==
  ASSUME TypeOK, NEW D \in [Ref -> SUBSET Index], NEW rk \in [Index -> Int], Laws(D, rk),
         UNCHANGED <<key, parent, child, order, root, range>>,
         ~Limbo, ~Limbo', pc # "unlink", pc' # "unlink",
         CallLaws', CursorLaws(Own(D), D)'
  PROVE  Laws(D, rk)'
<1>1. pc \notin Unlinked \cup {"unlink"} /\ pc' \notin Unlinked \cup {"unlink"}
  BY DEF Limbo
<1>2. Hung' = Hung
  BY DEF Hung, Live
<1>3. \A t \in Trees : Strung(D, t)' = Strung(D, t)
  BY <1>1 DEF Strung
<1>4. \A n \in Live : Rank(n)' = Rank(n)
  BY <1>1 DEF Rank
<1> QED  BY <1>2, <1>3, <1>4, QuietFrame

(* ... and when the call returns.                                          *)
LEMMA ReturnLaws ==
  ASSUME TypeOK, NEW D \in [Ref -> SUBSET Index], NEW rk \in [Index -> Int], Laws(D, rk),
         UNCHANGED <<key, parent, child, order, root, range>>,
         ~Limbo, pc # "unlink", pc' = "idle", call' = None
  PROVE  Laws(D, rk)'
<1>1. ~Limbo' /\ pc' # "unlink"
  BY DEF Limbo, Unlinked
<1>2. CallLaws'
  BY DEF CallLaws, InsertStep, RemoveStep, FixRemoveStep
<1>3. CursorLaws(Own(D), D)'
  BY DEF CursorLaws
<1> QED  BY <1>1, <1>2, <1>3, StillFrame

-----------------------------------------------------------------------------
(* The empty forest.                                                       *)
LEMMA InitLaws == Init => LawsHold
<1> SUFFICES ASSUME Init PROVE LawsHold
  OBVIOUS
<1>1. PICK D \in [Ref -> SUBSET Index] : \A n \in Ref : D[n] = {}
  <2>1. [n \in Ref |-> {}] \in [Ref -> SUBSET Index]
    OBVIOUS
  <2>2. \A n \in Ref : [m \in Ref |-> {}][n] = {}
    OBVIOUS
  <2> QED  BY <2>1, <2>2
<1>2. PICK rk \in [Index -> Int] : TRUE
  <2>1. [n \in Index |-> 0] \in [Index -> Int]
    OBVIOUS
  <2> QED  BY <2>1
<1>3. Live = {} /\ pc = "idle" /\ call = None
  BY DEF Init, Live
<1>4. Hung = {}
  BY <1>3, HungLive
<1>5. Shape({}, parent, child, root, D, rk)
  <2>1. Linked({}, parent, child) /\ NoCycle({}, parent) /\ Descends({}, parent, child, D)
    BY <1>1 DEF Linked, NoCycle, Descends
  <2>2. Rooted({}, parent, root, D) /\ Sorted({}, child, root, D, rk)
    BY <1>1 DEF Init, Rooted, Sorted
  <2> QED  BY <2>1, <2>2 DEF Shape
<1>6. LinkLaws(D, rk)
  BY <1>4, <1>5 DEF LinkLaws
<1>7. RankLaws(rk)
  BY <1>3 DEF RankLaws
<1>8. StringLaws(D, rk)
  <2> SUFFICES ASSUME NEW t \in Trees PROVE Thread(Strung(D, t), order, range[t], rk)
    BY DEF StringLaws
  <2>1. Strung(D, t) = {}
    BY <1>1, <1>3 DEF Strung, Init, Unlinked
  <2>2. \A i \in Side : range[t][i] = None
    BY DEF Init, NoLinks
  <2> QED  BY <2>1, <2>2 DEF Thread
<1>9. CallLaws /\ CursorLaws(Own(D), D)
  BY <1>3 DEF CallLaws, CursorLaws, InsertStep, RemoveStep, FixRemoveStep
<1>10. Laws(D, rk)
  BY <1>6, <1>7, <1>8, <1>9 DEF Laws
<1> QED  BY <1>10 DEF LawsHold

(* A stuttering step.                                                      *)
LEMMA StutterLaws ==
  ASSUME TypeOK, NEW D \in [Ref -> SUBSET Index], NEW rk \in [Index -> Int], Laws(D, rk),
         UNCHANGED vars
  PROVE  Laws(D, rk)'
<1> USE DEF vars
<1>1. Live' = Live /\ Hung' = Hung
  BY DEF Live, Hung, Limbo
<1>2. LinkLaws(D, rk)'
  BY <1>1 DEF Laws, LinkLaws
<1>3. RankLaws(rk)'
  BY <1>1 DEF Laws, RankLaws, Rank
<1>4. StringLaws(D, rk)'
  BY DEF Laws, StringLaws, Strung
<1>5. CallLaws' /\ Own(D)' = Own(D)
  BY DEF Laws, CallLaws, Own
<1>6. CursorLaws(Own(D), D)'
  <2>1. SearchLaws(Own(D), D)' = SearchLaws(Own(D), D)
    BY <1>5 DEF SearchLaws
  <2>2. UpdateLaws(Own(D))' = UpdateLaws(Own(D))
    BY <1>1, <1>5 DEF UpdateLaws, Limbo, Inserting, Removing
  <2> QED  BY <2>1, <2>2 DEF Laws, CursorLaws
<1> QED  BY <1>2, <1>3, <1>4, <1>5, <1>6 DEF Laws

(* The calls that return without a change of links.                        *)
LEMMA AnswerLaws ==
  ASSUME TypeOK, NEW D \in [Ref -> SUBSET Index], NEW rk \in [Index -> Int], Laws(D, rk),
         Get \/ Search \/ InsertHere \/ RemoveMiss
  PROVE  Laws(D, rk)'
<1>1. pc \in SearchResult /\ pc' = "idle" /\ call' = None
  BY DEF Get, Search, InsertHere, RemoveMiss, Return, SearchResult
<1>2. ~Limbo /\ pc # "unlink"
  BY <1>1 DEF Limbo, Unlinked, SearchResult
<1>3. UNCHANGED <<key, parent, child, order, root, range>>
  BY DEF Get, Search, InsertHere, RemoveMiss, data, links, bounds
<1> QED  BY <1>1, <1>2, <1>3, ReturnLaws

(* propagate_cumulant climbs within the tree.                              *)
LEMMA PropagateLaws ==
  ASSUME TypeOK, TypeOK', NEW D \in [Ref -> SUBSET Index], NEW rk \in [Index -> Int],
         Laws(D, rk), Propagate
  PROVE  Laws(D, rk)'
<1> DEFINE A == Own(D)
<1>0. pc = "propagate" /\ pc # "idle"
  BY DEF Propagate
<1>1. /\ call \in Call /\ call # None /\ call.tree \in Trees /\ A = D[root[call.tree]]
      /\ SearchLaws(A, D) /\ UpdateLaws(A)
      /\ InTree(Hung, parent, child, root, D, call.tree, A)
  BY <1>0, OwnCall
<1>2. /\ UNCHANGED <<key, parent, child, order, root, range>>
      /\ call.op \in {"insert", "remove"} /\ CallLaws
  BY <1>0 DEF Propagate, data, links, bounds, Laws, CallLaws
<1>3. CASE HasCumulant /\ ptr # None
  <2>1. /\ ptr \in A /\ ptr' = parent[ptr] /\ UNCHANGED <<pc, call, node>>
    BY <1>0, <1>1, <1>3 DEF Propagate, UpdateLaws
  <2>2. ptr' \in A \cup {None}
    BY <1>1, <2>1 DEF InTree
  <2>3. Hung' = Hung /\ Live' = Live
    BY <1>2, <2>1 DEF Hung, Live, Limbo
  <2>4. (\A t \in Trees : Strung(D, t)' = Strung(D, t)) /\ \A n \in Live : Rank(n)' = Rank(n)
    BY <1>2, <2>1 DEF Strung, Rank
  <2>5. CallLaws' /\ Own(D)' = A
    BY <1>2, <2>1 DEF CallLaws, Own
  <2>6. SearchLaws(Own(D), D)'
    BY <2>1, <1>0 DEF SearchLaws, Frontier
  <2>7. UpdateLaws(Own(D))'
    BY <1>0, <1>1, <1>2, <2>1, <2>2, <2>3, <2>5
    DEF UpdateLaws, Inserting, Removing, Limbo, FixRemoveStep, Unlinked, InsertStep
  <2> QED  BY <1>2, <2>3, <2>4, <2>5, <2>6, <2>7, QuietFrame DEF CursorLaws
<1>4. CASE ~(HasCumulant /\ ptr # None) /\ call.op = "insert"
  <2>1. pc' = "idle" /\ call' = None
    BY <1>4 DEF Propagate, AfterPropagate, Return
  <2>2. ~Limbo /\ pc # "unlink"
    BY <1>0, <1>4 DEF Limbo, Unlinked
  <2> QED  BY <1>2, <2>1, <2>2, ReturnLaws
<1>5. CASE ~(HasCumulant /\ ptr # None) /\ call.op = "remove"
  <2>1. pc' = "free" /\ UNCHANGED <<call, node, ptr>>
    BY <1>5 DEF Propagate, AfterPropagate
  <2>2. Limbo /\ Limbo' /\ Hung' = Hung /\ Live' = Live
    BY <1>0, <1>2, <1>5, <2>1 DEF Limbo, Hung, Live
  <2>3. (\A t \in Trees : Strung(D, t)' = Strung(D, t)) /\ \A n \in Live : Rank(n)' = Rank(n)
    BY <1>0, <1>2, <2>1 DEF Strung, Rank, Unlinked
  <2>4. CallLaws' /\ Own(D)' = A
    BY <1>2, <1>5, <1>1, <2>1 DEF CallLaws, Own, InsertStep
  <2>5. SearchLaws(Own(D), D)'
    BY <2>1 DEF SearchLaws, Frontier
  <2>6. UpdateLaws(Own(D))'
    BY <1>0, <1>1, <1>2, <1>5, <2>1, <2>2, <2>4
    DEF UpdateLaws, Inserting, Removing, FixRemoveStep, Unlinked, InsertStep
  <2> QED  BY <1>2, <2>2, <2>3, <2>4, <2>5, <2>6, QuietFrame DEF CursorLaws
<1> QED  BY <1>2, <1>3, <1>4, <1>5

(* The steps of fix_insert that only recolor.                              *)
LEMMA FixInsertStillLaws ==
  ASSUME TypeOK, TypeOK', NEW D \in [Ref -> SUBSET Index], NEW rk \in [Index -> Int],
         Laws(D, rk), FixInsertDone \/ FixInsertRecolor \/ Blacken
  PROVE  Laws(D, rk)'
<1> DEFINE A == Own(D)
<1>0. pc \in {"fix_insert", "blacken"} /\ pc # "idle"
  BY DEF FixInsertDone, FixInsertRecolor, RedParent, Blacken
<1>1. /\ call \in Call /\ call # None /\ call.tree \in Trees /\ A = D[root[call.tree]]
      /\ SearchLaws(A, D) /\ UpdateLaws(A)
      /\ InTree(Hung, parent, child, root, D, call.tree, A)
  BY <1>0, OwnCall
<1>2. /\ UNCHANGED <<key, parent, child, order, root, range, call, node>>
      /\ CallLaws /\ call.op = "insert"
  BY <1>0 DEF FixInsertDone, FixInsertRecolor, Blacken, data, links, bounds, Laws, CallLaws,
              InsertStep
<1>3. pc' \in {"fix_insert", "blacken", "propagate"}
  BY DEF FixInsertDone, FixInsertRecolor, Blacken
<1>4. (pc' = "fix_insert" => ptr' \in A) /\ (pc' = "propagate" => ptr' \in A)
  <2>1. CASE FixInsertDone
    BY <2>1 DEF FixInsertDone
  <2>2. CASE FixInsertRecolor
    <3>1. pc = "fix_insert" /\ parent[ptr] # None /\ Grandparent # None /\ ptr' = Grandparent
      BY <2>2 DEF FixInsertRecolor, RedParent, IsRed
    <3>2. ptr \in A
      BY <3>1, <1>1 DEF UpdateLaws
    <3> QED  BY <2>2, <3>1, <3>2, <1>1 DEF InTree, Grandparent, FixInsertRecolor
  <2>3. CASE Blacken
    BY <2>3, <1>1 DEF Blacken, UpdateLaws, Inserting, InsertStep
  <2> QED  BY <2>1, <2>2, <2>3
<1>5. ~Limbo /\ ~Limbo' /\ pc # "unlink" /\ pc' # "unlink"
  BY <1>0, <1>2, <1>3 DEF Limbo, Unlinked
<1>6. CallLaws' /\ Own(D)' = A
  BY <1>1, <1>2, <1>3, <1>0 DEF CallLaws, Own, RemoveStep, FixRemoveStep
<1>7. SearchLaws(A, D)'
  BY <1>3 DEF SearchLaws, Frontier
<1>8. UpdateLaws(A)'
  BY <1>0, <1>1, <1>2, <1>3, <1>4, <1>5, <1>6
  DEF UpdateLaws, Inserting, Removing, FixRemoveStep, Unlinked, InsertStep
<1>9. SearchLaws(Own(D), D)' /\ UpdateLaws(Own(D))'
  BY <1>1, <1>2, <1>6, <1>7, <1>8
<1> QED  BY <1>2, <1>5, <1>6, <1>9, StillFrame DEF CursorLaws

-----------------------------------------------------------------------------
(* A step of search_by keeps the laws if it keeps its own loop invariant.  *)
LEMMA SearchFrame ==
  ASSUME TypeOK, TypeOK', NEW D \in [Ref -> SUBSET Index], NEW rk \in [Index -> Int],
         Laws(D, rk), pc \in {"idle", "descend"}, pc' \in SearchResult \cup {"descend"},
         UNCHANGED <<key, parent, child, order, root, range>>, SearchLaws(Own(D), D)'
  PROVE  Laws(D, rk)'
<1>1. call' \in Call /\ call' # None
  BY CallAssumption DEF TypeOK, SearchResult
<1>2. ~Limbo /\ ~Limbo' /\ pc # "unlink" /\ pc' # "unlink"
  BY DEF Limbo, Unlinked, SearchResult
<1>3. CallLaws'
  BY <1>1 DEF CallLaws, SearchResult, InsertStep, RemoveStep, FixRemoveStep
<1>4. UpdateLaws(Own(D))'
  BY <1>2 DEF UpdateLaws, Inserting, Removing, SearchResult, InsertStep, Unlinked, FixRemoveStep
<1> QED  BY <1>2, <1>3, <1>4, StillFrame DEF CursorLaws

(* Between calls the range of a tree is its least and its greatest node,   *)
(* and neither has a child beyond.                                         *)
LEMMA RangeEnds ==
  ASSUME TypeOK, NEW D \in [Ref -> SUBSET Index], NEW rk \in [Index -> Int], Laws(D, rk),
         pc = "idle", NEW t \in Trees, NEW i \in Side
  PROVE  /\ range[t][i] = None => root[t] = None
         /\ range[t][i] # None =>
              /\ range[t][i] \in D[root[t]] /\ child[range[t][i]][i] = None
              /\ \A m \in D[root[t]] : ~Before(i, key[m], key[range[t][i]])
<1> DEFINE A == D[root[t]]
           n == range[t][i]
<1>1. InTree(Hung, parent, child, root, D, t, A)
  BY OwnTree
<1>2. Thread(A, order, range[t], rk)
  BY DEF Laws, StringLaws, Strung, Unlinked
<1>3. A \subseteq Hung /\ Hung \subseteq Live /\ (root[t] # None => root[t] \in A)
  BY <1>1, HungLive DEF InTree
<1>4. None \notin Index /\ Live \subseteq Index
  BY NoneAssumption DEF Live
<1>5. ASSUME n = None PROVE root[t] = None
  <2>1. A = {}
    BY <1>2, <1>3, <1>4, <1>5 DEF Thread
  <2> QED  BY <2>1, <1>3
<1>6. ASSUME n # None
      PROVE  n \in A /\ child[n][i] = None /\ \A m \in A : ~Before(i, key[m], key[n])
  <2>0. A # {}
    BY <1>2, <1>6 DEF Thread
  <2>1. n \in A /\ order[n][i] = None
    BY <1>2, <2>0 DEF Thread
  <2>2. \A m \in A : ~Before(i, rk[m], rk[n])
    BY <1>2, <2>1 DEF Thread
  <2>3. pc \notin Unlinked \cup {"unlink"}
    BY DEF Unlinked
  <2>4. \A m \in A : ~Before(i, key[m], key[n])
    <3> TAKE m \in A
    <3>1. m \in Live /\ n \in Live
      BY <1>3, <2>1
    <3> HIDE DEF A, n
    <3>2. Before(i, rk[m], rk[n]) <=> Before(i, key[m], key[n])
      BY <3>1, <2>3, KeyOrder
    <3> QED  BY <3>2, <2>2
  <2>5. child[n][i] = None
    <3>1. SUFFICES ASSUME child[n][i] # None PROVE FALSE
      OBVIOUS
    <3>2. child[n][i] \in A /\ child[n][i] \in D[child[n][i]] /\ n \in Hung
      BY <1>1, <2>1, <3>1 DEF InTree
    <3>3. Before(i, rk[child[n][i]], rk[n])
      BY <3>2 DEF Laws, LinkLaws, Shape, Sorted
    <3> QED  BY <2>2, <3>2, <3>3
  <2> QED  BY <2>1, <2>4, <2>5
<1> QED  BY <1>5, <1>6

(* The answers that search_by takes from the range are right.              *)
LEMMA CallOpLaws ==
  ASSUME TypeOK, TypeOK', NEW D \in [Ref -> SUBSET Index], NEW rk \in [Index -> Int],
         Laws(D, rk), NEW op, NEW t \in Trees, NEW k \in Keys, NEW v, CallOp(op, t, k, v)
  PROVE  Laws(D, rk)'
<1>1. /\ pc = "idle" /\ call' = [op |-> op, tree |-> t, key |-> k, val |-> v]
      /\ SearchFrom(t, k) /\ UNCHANGED <<key, parent, child, order, root, range>>
  BY DEF CallOp, data, links, bounds
<1> DEFINE A == D[root[t]]
<1>2. pc' \in SearchResult \cup {"descend"}
  BY <1>1 DEF SearchFrom, Found, SearchResult
<1>3. call' # None /\ call'.tree = t /\ call'.key = k
  BY <1>1, <1>2, CallAssumption DEF TypeOK, SearchResult
<1>4. Own(D)' = A
  BY <1>1, <1>3 DEF Own
<1>5. SearchLaws(Own(D), D)'
  <2>1. CASE range[t][0] = None \/ range[t][1] = None
    <3>1. root[t] = None
      BY <1>1, <2>1, RangeEnds
    <3>2. pc' = "Empty"
      BY <1>1, <2>1 DEF SearchFrom
    <3> QED  BY <3>1, <3>2, <1>1, <1>3 DEF SearchLaws, Frontier
  <2>2. CASE ~(range[t][0] = None \/ range[t][1] = None)
    <3>1. \A i \in Side :
            /\ range[t][i] \in A /\ child[range[t][i]][i] = None
            /\ \A m \in A : ~Before(i, key[m], key[range[t][i]])
      <4> TAKE i \in Side
      <4>1. range[t][i] # None
        BY <2>2
      <4> QED  BY <4>1, <1>1, RangeEnds
    <3>2. CASE key[range[t][0]] > k /\ Found("LeftOf", range[t][0])
      BY <3>1, <3>2, <1>1, <1>3, <1>4 DEF SearchLaws, Frontier, Found, Before
    <3>3. CASE key[range[t][0]] = k /\ Found("Here", range[t][0])
      BY <3>1, <3>3, <1>1, <1>3, <1>4 DEF SearchLaws, Frontier, Found
    <3>4. CASE key[range[t][1]] < k /\ Found("RightOf", range[t][1])
      <4>1. key[range[t][1]] < k /\ pc' = "RightOf" /\ ptr' = range[t][1]
        BY <3>4 DEF Found
      <4>2. ptr' \in A /\ child'[ptr'][1] = None /\ Before(1, k, key'[ptr'])
            /\ \A m \in A : ~Before(1, key'[m], key'[ptr'])
        <5>1. Before(1, k, key[range[t][1]])
          BY <4>1 DEF Before
        <5>2. range[t][1] \in A /\ child[range[t][1]][1] = None
              /\ \A m \in A : ~Before(1, key[m], key[range[t][1]])
          BY <3>1
        <5> QED  BY <5>1, <5>2, <4>1, <1>1
      <4> HIDE DEF A
      <4> QED  BY <4>1, <4>2, <1>3, <1>4 DEF SearchLaws, Frontier
    <3>5. CASE key[range[t][1]] = k /\ Found("Here", range[t][1])
      BY <3>1, <3>5, <1>1, <1>3, <1>4 DEF SearchLaws, Frontier, Found
    <3>6. CASE Found("descend", root[t])
      <4>1. root[t] \in A
        <5>1. root[t] # None => root[t] \in A
          BY OwnTree DEF InTree
        <5>2. root[t] = None => A = {}
          BY OwnTree DEF InTree
        <5> QED  BY <5>1, <5>2, <3>1
      <4>2. pc' = "descend" /\ ptr' = root[t] /\ A \ D[root[t]] = {}
        BY <3>6 DEF Found
      <4> QED  BY <4>1, <4>2, <1>3, <1>4 DEF SearchLaws, Frontier
    <3> QED  BY <1>1, <2>2, <3>2, <3>3, <3>4, <3>5, <3>6 DEF SearchFrom
  <2> QED  BY <2>1, <2>2
<1> QED  BY <1>1, <1>2, <1>5, SearchFrame

(* Going down one level loses no candidate, and where search_by stops the  *)
(* new key has its place.                                                  *)
LEMMA DescendLaws ==
  ASSUME TypeOK, TypeOK', NEW D \in [Ref -> SUBSET Index], NEW rk \in [Index -> Int],
         Laws(D, rk), Descend
  PROVE  Laws(D, rk)'
<1> DEFINE A == Own(D)
<1>0. pc = "descend" /\ pc # "idle"
  BY DEF Descend
<1>1. /\ call \in Call /\ call # None /\ call.tree \in Trees /\ A = D[root[call.tree]]
      /\ SearchLaws(A, D) /\ call.key \in Int
      /\ InTree(Hung, parent, child, root, D, call.tree, A)
  BY <1>0, OwnCall
<1>2. UNCHANGED <<key, parent, child, order, root, range, call>>
  BY DEF Descend, data, links, bounds
<1>3. pc' \in SearchResult \cup {"descend"} /\ Own(D)' = A
  BY <1>2 DEF Descend, SearchResult, Own
<1>4. /\ ptr \in A
      /\ \A m \in A \ D[ptr] :
          /\ key[m] # call.key
          /\ \A x \in D[ptr] : key[m] < call.key <=> key[m] < key[x]
  BY <1>0, <1>1 DEF SearchLaws
<1>5. A \subseteq Hung /\ A \subseteq Live /\ ptr \in Live /\ ptr \in D[ptr] /\ D[ptr] \subseteq A
  BY <1>1, <1>4, HungLive DEF InTree
<1>6. \A m \in A : key[m] \in Int
  BY <1>5, KeyRank
<1>7. \A s \in Side : \A m \in D[child[ptr][s]] : Before(s, key[m], key[ptr])
  <2> TAKE s \in Side
  <2> TAKE m \in D[child[ptr][s]]
  <2>1. m \in D[ptr] /\ D[ptr] = {ptr} \cup D[child[ptr][0]] \cup D[child[ptr][1]]
    BY <1>5, <1>4 DEF Laws, LinkLaws, Shape, Descends
  <2>2. Before(s, rk[m], rk[ptr])
    BY <1>4, <1>5 DEF Laws, LinkLaws, Shape, Sorted
  <2>3. m \in Live /\ pc \notin Unlinked \cup {"unlink"}
    BY <2>1, <1>5, <1>0 DEF Unlinked
  <2>4. Before(s, rk[m], rk[ptr]) <=> Before(s, key[m], key[ptr])
    BY <1>5, <2>3, KeyOrder
  <2> QED  BY <2>2, <2>4
<1>8. /\ D[ptr] = {ptr} \cup D[child[ptr][0]] \cup D[child[ptr][1]] /\ D[None] = {}
  BY <1>4, <1>5 DEF Laws, LinkLaws, Shape, Descends
<1>9. SearchLaws(A, D)'
  <2>1. CASE key[ptr] = call.key
    <3>1. pc' = "Here" /\ ptr' = ptr
      BY <2>1 DEF Descend
    <3> QED  BY <2>1, <3>1, <1>2, <1>3, <1>4 DEF SearchLaws, Frontier
  <2>2. CASE key[ptr] # call.key
    <3>1. PICK i \in Side : Before(i, call.key, key[ptr]) /\
               i = IF key[ptr] > call.key THEN 0 ELSE 1
      BY <2>2, <1>1, <1>4, <1>6 DEF Before
    <3>2. \A j \in Side : j = i \/ j = 1 - i
      OBVIOUS
    <3>3. CASE child[ptr][i] = None
      <4>1. pc' = Frontier(i) /\ ptr' = ptr
        BY <2>2, <3>1, <3>3 DEF Descend, Frontier
      <4>2. ASSUME NEW m \in A, Before(i, key[m], key[ptr]) PROVE Before(i, key[m], call.key)
        <5>1. CASE m \in D[ptr]
          <6>1. m = ptr \/ Before(1 - i, key[m], key[ptr])
            BY <5>1, <1>7, <1>8, <3>3
          <6> QED  BY <6>1, <4>2, <1>4, <1>6 DEF Before
        <5>2. CASE m \notin D[ptr]
          <6>1. key[m] # call.key /\ (key[m] < call.key <=> key[m] < key[ptr])
            BY <5>2, <1>4, <1>5
          <6> QED  BY <6>1, <4>2, <1>1, <1>4, <1>6 DEF Before
        <5> QED  BY <5>1, <5>2
      <4>3. \A j \in Side : Frontier(i) = Frontier(j) => i = j
        BY DEF Frontier
      <4>4. pc' # "Empty" /\ pc' # "Here" /\ pc' # "descend"
        BY <4>1 DEF Frontier
      <4>5. ptr' \in A'
        BY <1>3, <1>4, <4>1
      <4>6. \A j \in Side : pc' = Frontier(j) =>
                /\ child'[ptr'][j] = None /\ Before(j, call'.key, key'[ptr'])
                /\ \A m \in A' : Before(j, key'[m], key'[ptr']) => Before(j, key'[m], call'.key)
        BY <4>1, <4>2, <4>3, <3>1, <3>3, <1>2, <1>3
      <4> HIDE DEF A
      <4> QED  BY <4>4, <4>5, <4>6 DEF SearchLaws, Frontier
    <3>4. CASE child[ptr][i] # None
      <4> DEFINE c == child[ptr][i]
      <4>1. pc' = "descend" /\ ptr' = c
        BY <2>2, <3>1, <3>4 DEF Descend
      <4>2. c \in A /\ c \in D[c] /\ D[c] \subseteq D[ptr]
        BY <1>1, <1>4, <1>8, <3>4 DEF InTree
      <4>3. ASSUME NEW m \in A \ D[c]
            PROVE  key[m] # call.key /\ \A x \in D[c] : key[m] < call.key <=> key[m] < key[x]
        <5>1. CASE m \notin D[ptr]
          BY <5>1, <4>2, <1>4
        <5>2. CASE m = ptr \/ m \in D[child[ptr][1 - i]]
          <6>1. m = ptr \/ Before(1 - i, key[m], key[ptr])
            BY <5>2, <1>7
          <6>2. \A x \in D[c] : Before(i, key[x], key[ptr]) /\ key[x] \in Int
            BY <1>5, <1>6, <1>7, <4>2
          <6> HIDE DEF c
          <6> QED  BY <6>1, <6>2, <3>1, <1>1, <1>4, <1>6 DEF Before
        <5> QED  BY <5>1, <5>2, <1>8, <3>2
      <4>4. ptr' \in A' /\ pc' # "Empty" /\ pc' # "Here" /\ \A j \in Side : pc' # Frontier(j)
        BY <4>1, <4>2, <1>3 DEF Frontier
      <4>5. \A m \in A' \ D[ptr'] :
               /\ key'[m] # call'.key
               /\ \A x \in D[ptr'] : key'[m] < call'.key <=> key'[m] < key'[x]
        <5>1. A' = A
          BY <1>3
        <5> HIDE DEF c, A
        <5>2. A' \ D[ptr'] = A \ D[c] /\ D[ptr'] = D[c] /\ key' = key /\ call' = call
          BY <4>1, <5>1, <1>2
        <5> QED  BY <5>2, <4>3
      <4> HIDE DEF c, A
      <4> QED  BY <4>4, <4>5 DEF SearchLaws
    <3> QED  BY <3>3, <3>4
  <2> QED  BY <2>1, <2>2
<1>10. SearchLaws(Own(D), D)'
  BY <1>9
<1> QED  BY <1>0, <1>2, <1>3, <1>10, SearchFrame

-----------------------------------------------------------------------------
(* The step of fix_remove that only recolors.                              *)
LEMMA FixRemoveRecolorLaws ==
  ASSUME TypeOK, TypeOK', NEW D \in [Ref -> SUBSET Index], NEW rk \in [Index -> Int],
         Laws(D, rk), FixRemoveRecolor
  PROVE  Laws(D, rk)'
<1> DEFINE A == Own(D)
<1>0. pc \in FixRemoveStep /\ pc # "idle" /\ pc # "red_far_nephew"
  BY DEF FixRemoveRecolor, AtBlackSibling, FixRemoveStep
<1>1. /\ call \in Call /\ call # None /\ call.tree \in Trees /\ A = D[root[call.tree]]
      /\ SearchLaws(A, D) /\ UpdateLaws(A)
      /\ InTree(Hung, parent, child, root, D, call.tree, A)
  BY <1>0, OwnCall
<1>2. /\ UNCHANGED <<key, parent, child, order, root, range, call, node>>
      /\ CallLaws /\ call.op = "remove" /\ pc' \in {"fix_remove", "unthread"}
  BY <1>0 DEF FixRemoveRecolor, data, links, bounds, Laws, CallLaws, RemoveStep
<1>3. pc \in Unlinked /\ pc' \in Unlinked /\ Limbo /\ Limbo'
  BY <1>0, <1>2 DEF FixRemoveStep, Unlinked, Limbo
<1>4. pc' = "fix_remove" => par' \in A
  <2>1. SUFFICES ASSUME pc' = "fix_remove" PROVE par' \in A
    OBVIOUS
  <2>2. parent[par] # None /\ par' = parent[par]
    BY <2>1 DEF FixRemoveRecolor, AtTop
  <2>3. par \in A
    BY <1>0, <1>1 DEF UpdateLaws
  <2> QED  BY <2>2, <2>3, <1>1 DEF InTree
<1>5. Hung' = Hung /\ Live' = Live
  BY <1>2, <1>3 DEF Hung, Live
<1>6. (\A t \in Trees : Strung(D, t)' = Strung(D, t)) /\ \A n \in Live : Rank(n)' = Rank(n)
  BY <1>2, <1>3 DEF Strung, Rank
<1>7. CallLaws' /\ Own(D)' = A
  BY <1>1, <1>2 DEF CallLaws, Own, InsertStep
<1>8. SearchLaws(Own(D), D)'
  BY <1>2 DEF SearchLaws, Frontier
<1>9. UpdateLaws(Own(D))'
  BY <1>0, <1>1, <1>2, <1>3, <1>4, <1>5, <1>7
  DEF UpdateLaws, Inserting, Removing, FixRemoveStep, InsertStep
<1> QED  BY <1>2, <1>5, <1>6, <1>7, <1>8, <1>9, QuietFrame DEF CursorLaws

(* The rotations of fix_insert.                                            *)
LEMMA InsertRotateLaws ==
  ASSUME TypeOK, TypeOK', NEW D \in [Ref -> SUBSET Index], NEW rk \in [Index -> Int],
         Laws(D, rk), FixInsertInner \/ FixInsertOuter
  PROVE  Kept(D[root[call.tree]]) /\ \E E \in [Ref -> SUBSET Index] : Laws(E, rk)'
<1>a. PICK A : A = Own(D)
  OBVIOUS
<1>0. pc \in {"fix_insert", "rotate_outer"} /\ pc # "idle"
  BY DEF FixInsertInner, FixInsertOuter, RedParent
<1>1. /\ call \in Call /\ call # None /\ call.tree \in Trees /\ A = D[root[call.tree]]
      /\ SearchLaws(A, D) /\ UpdateLaws(A)
      /\ InTree(Hung, parent, child, root, D, call.tree, A)
  BY <1>0, <1>a, OwnCall
<1>2. /\ UNCHANGED <<key, order, range, call, node>>
      /\ CallLaws /\ call.op = "insert"
  BY <1>0 DEF FixInsertInner, FixInsertOuter, data, Laws, CallLaws, InsertStep
<1>3. pc' \in {"fix_insert", "rotate_outer", "blacken"}
  BY DEF FixInsertInner, FixInsertOuter
<1>4. ~Limbo /\ ~Limbo'
  BY <1>0, <1>3 DEF Limbo, Unlinked
<1>5. Hung' = Hung
  BY <1>2, <1>4 DEF Hung, Live
<1>6. ptr \in A
  BY <1>0, <1>1 DEF UpdateLaws
<1>7. ptr' \in A /\ \E i \in Side, n \in A : Rotate(i, n)
  <2>1. CASE FixInsertInner
    <3>1. parent[ptr] # None /\ ptr' = parent[ptr] /\ Rotate(1 - UncleSide, parent[ptr])
      BY <2>1 DEF FixInsertInner, RedParent, IsRed
    <3>2. 1 - UncleSide \in Side
      BY DEF UncleSide, SideOf
    <3> QED  BY <3>1, <3>2, <1>1, <1>6 DEF InTree
  <2>2. CASE FixInsertOuter
    <3>1. /\ parent[ptr] # None /\ Grandparent # None /\ ptr' = ptr
          /\ Rotate(UncleSide, Grandparent)
      BY <2>2 DEF FixInsertOuter, RedParent, IsRed
    <3>2. UncleSide \in Side
      BY DEF UncleSide, SideOf
    <3>3. Grandparent \in A
      BY <3>1, <1>1, <1>6 DEF InTree, Grandparent
    <3> QED  BY <3>1, <3>2, <3>3, <1>6
  <2> QED  BY <2>1, <2>2
<1>8. PICK E \in [Ref -> SUBSET Index] :
         LinkLaws(E, rk)' /\ SameTrees(root, D, root', E) /\ Kept(D[root[call.tree]])
  <2>1. PICK i \in Side, n \in A : Rotate(i, n)
    BY <1>7
  <2>2. LinkLaws(D, rk) /\ UNCHANGED <<key, order>>
    BY <1>2 DEF Laws
  <2>3. n \in D[root[call.tree]]
    BY <2>1, <1>1
  <2> HIDE DEF Side, Ref
  <2> QED  BY <2>1, <2>2, <2>3, <1>1, <1>5, RotateStep
<1>9. CallLaws'
  BY <1>1, <1>2, <1>3 DEF CallLaws, RemoveStep, FixRemoveStep
<1>10. SearchLaws(A, E)'
  BY <1>3 DEF SearchLaws, Frontier
<1>11. UpdateLaws(A)'
  <2>1. ptr' \in A /\ (Inserting' => node' \in A /\ key'[node'] = call'.key)
    BY <1>0, <1>1, <1>2, <1>7 DEF UpdateLaws, Inserting, InsertStep
  <2> QED  BY <1>3, <1>4, <2>1
       DEF UpdateLaws, Removing, FixRemoveStep, Unlinked
<1>12. Laws(E, rk)'
  <2>1. pc' \notin Unlinked \cup {"unlink"} /\ pc \notin Unlinked \cup {"unlink"}
    BY <1>0, <1>3 DEF Unlinked
  <2> HIDE DEF Side, Ref
  <2> QED  BY <2>1, <1>1, <1>2, <1>8, <1>9, <1>10, <1>11, RelinkFrame
<1> QED  BY <1>8, <1>12

(* The rotations of fix_remove.                                            *)
LEMMA RemoveRotateLaws ==
  ASSUME TypeOK, TypeOK', NEW D \in [Ref -> SUBSET Index], NEW rk \in [Index -> Int],
         Laws(D, rk), FixRemoveRedSibling \/ FixRemoveCloseNephew \/ FixRemoveFarNephew
  PROVE  Kept(D[root[call.tree]]) /\ \E E \in [Ref -> SUBSET Index] : Laws(E, rk)'
<1>a. PICK A : A = Own(D)
  OBVIOUS
<1>0. pc \in FixRemoveStep /\ pc # "idle"
  BY DEF FixRemoveRedSibling, FixRemoveCloseNephew, FixRemoveFarNephew, AtBlackSibling,
         FixRemoveStep
<1>1. /\ call \in Call /\ call # None /\ call.tree \in Trees /\ A = D[root[call.tree]]
      /\ SearchLaws(A, D) /\ UpdateLaws(A)
      /\ InTree(Hung, parent, child, root, D, call.tree, A)
  BY <1>0, <1>a, OwnCall
<1>2. /\ UNCHANGED <<key, order, range, call, node, par>>
      /\ CallLaws /\ call.op = "remove"
      /\ pc' \in {"black_sibling", "red_far_nephew", "unthread"}
  BY <1>0 DEF FixRemoveRedSibling, FixRemoveCloseNephew, FixRemoveFarNephew, data,
              Laws, CallLaws, RemoveStep
<1>3. pc \in Unlinked /\ pc' \in Unlinked /\ Limbo /\ Limbo'
  BY <1>0, <1>2 DEF FixRemoveStep, Unlinked, Limbo
<1>4. Hung' = Hung /\ Live' = Live /\ node \notin Hung
  BY <1>2, <1>3 DEF Hung, Live
<1>5. par \in A /\ node \in Index /\ node \notin A /\ parent[node] \in A \cup {None}
  BY <1>0, <1>1, <1>3, <1>4 DEF UpdateLaws, InTree, Live
<1>6. PICK i \in Side, n \in A : Rotate(i, n)
  <2>1. CASE FixRemoveRedSibling \/ FixRemoveFarNephew
    BY <2>1, <1>5 DEF FixRemoveRedSibling, FixRemoveFarNephew, TypeOK
  <2>2. CASE FixRemoveCloseNephew
    <3>1. Sibling # None /\ Rotate(1 - dir, Sibling) /\ dir \in Side /\ 1 - dir \in Side
      BY <2>2 DEF FixRemoveCloseNephew, AtBlackSibling, TypeOK
    <3>2. Sibling \in A
      BY <3>1, <1>1, <1>5 DEF InTree, Sibling
    <3> QED  BY <3>1, <3>2
  <2> QED  BY <2>1, <2>2
<1>7. PICK E \in [Ref -> SUBSET Index] :
         LinkLaws(E, rk)' /\ SameTrees(root, D, root', E) /\ Kept(D[root[call.tree]])
  <2>1. LinkLaws(D, rk) /\ UNCHANGED <<key, order>>
    BY <1>2 DEF Laws
  <2>2. n \in D[root[call.tree]]
    BY <1>6, <1>1
  <2> HIDE DEF Side, Ref
  <2> QED  BY <2>1, <2>2, <1>1, <1>4, <1>6, RotateStep
<1>8. parent'[node] = parent[node]
  BY <1>1, <1>5, <1>7 DEF Kept
<1>9. CallLaws'
  BY <1>1, <1>2 DEF CallLaws, InsertStep
<1>10. SearchLaws(A, E)'
  BY <1>2 DEF SearchLaws, Frontier
<1>11. UpdateLaws(A)'
  BY <1>1, <1>2, <1>3, <1>4, <1>5, <1>8
  DEF UpdateLaws, Inserting, Removing, FixRemoveStep, InsertStep
<1>12. Laws(E, rk)'
  <2>1. pc' \in Unlinked \cup {"unlink"} /\ pc \in Unlinked \cup {"unlink"}
    BY <1>3
  <2> HIDE DEF Side, Ref
  <2> QED  BY <2>1, <1>1, <1>2, <1>3, <1>7, <1>9, <1>10, <1>11, RelinkFrame
<1> QED  BY <1>7, <1>12

-----------------------------------------------------------------------------
(* The node cut off is no longer one of the nodes alive: its slot goes     *)
(* back to the arena or, in remove_node, the node to the caller.           *)
FreeAny ==
  /\ pc = "free" /\ pc' = "idle" /\ call' = None
  /\ key' = [key EXCEPT ![node] = None]
  /\ \A n \in Index \ {node} :
       /\ parent'[n] = parent[n] /\ child'[n] = child[n] /\ order'[n] = order[n]
       /\ val'[n] = val[n] /\ cum'[n] = cum[n] /\ color'[n] = color[n]
  /\ UNCHANGED bounds

(* Free is of that kind.                                                   *)
LEMMA FreeIsAny == TypeOK /\ Free => FreeAny
BY DEF Free, FreeAny, Return, TypeOK

(* The node cut off leaves no trace.                                       *)
LEMMA FreeLaws ==
  ASSUME TypeOK, TypeOK', NEW D \in [Ref -> SUBSET Index], NEW rk \in [Index -> Int],
         Laws(D, rk), FreeAny
  PROVE  Laws(D, rk)'
<1>0. pc = "free" /\ pc # "idle" /\ Limbo /\ pc' = "idle" /\ call' = None
  BY DEF FreeAny, Limbo
<1>1. UpdateLaws(Own(D))
  BY <1>0, OwnCall
<1>2. node \in Live /\ node \in Index
  BY <1>0, <1>1 DEF UpdateLaws, Live
<1>3. key' = [key EXCEPT ![node] = None] /\ root' = root /\ range' = range
  BY DEF FreeAny, bounds
<1>4. \A n \in Index \ {node} :
        key'[n] = key[n] /\ parent'[n] = parent[n] /\ child'[n] = child[n] /\ order'[n] = order[n]
  BY <1>3 DEF TypeOK, FreeAny
<1>5. key'[node] = None
  BY <1>2, <1>3 DEF TypeOK
<1>6. Hung = Live \ {node} /\ Live' = Hung /\ Hung' = Hung
  <2>1. Hung = Live \ {node}
    BY <1>0 DEF Hung
  <2>2. Live' = Live \ {node}
    BY <1>4, <1>5 DEF Live
  <2>3. Hung' = Live'
    BY <1>0 DEF Hung, Limbo, Unlinked
  <2> QED  BY <2>1, <2>2, <2>3
<1>7. Shape(Hung, parent', child', root, D, rk)
  <2>1. SameLinks(Hung, parent, child, rk, parent', child', rk)
    BY <1>4, <1>6, HungLive DEF SameLinks
  <2>2. Shape(Hung, parent, child, root, D, rk)
    BY DEF Laws, LinkLaws
  <2>3. /\ parent \in [Index -> Ref] /\ child \in [Index -> [Side -> Ref]]
        /\ root \in [Trees -> Ref] /\ Hung \in SUBSET Index
    BY HungLive DEF TypeOK
  <2> HIDE DEF Side, Ref
  <2> QED  BY <2>1, <2>2, <2>3, ShapeSame
<1>9. LinkLaws(D, rk)'
  BY <1>3, <1>6, <1>7 DEF LinkLaws
<1>10. RankLaws(rk)'
  <2> SUFFICES ASSUME NEW n \in Live' PROVE rk[n] = Rank(n)'
    BY DEF RankLaws
  <2>1. n \in Live /\ n # node /\ n \in Index
    BY <1>6 DEF Live
  <2>2. rk[n] = 2 * key[n]
    BY <2>1, KeyRank
  <2>3. Rank(n)' = 2 * key'[n]
    BY <1>0 DEF Rank, Unlinked
  <2> QED  BY <2>1, <2>2, <2>3, <1>4
<1>11. StringLaws(D, rk)'
  <2> SUFFICES ASSUME NEW t \in Trees PROVE Thread(Strung(D, t), order, range[t], rk)'
    BY DEF StringLaws
  <2>1. Strung(D, t) = D[root[t]] /\ Strung(D, t)' = D[root[t]]
    BY <1>0, <1>3 DEF Strung, Unlinked
  <2>2. Thread(D[root[t]], order, range[t], rk)
    BY <2>1 DEF Laws, StringLaws
  <2>3. D[root[t]] \subseteq Hung
    BY OwnTree DEF InTree
  <2>4. SameThread(D[root[t]], order, range[t], rk, order', range[t], rk)
    BY <2>3, <1>4, <1>6, HungLive DEF SameThread
  <2>5. Thread(D[root[t]], order', range[t], rk)
    BY <2>2, <2>4, ThreadSame
  <2> QED  BY <2>1, <2>5, <1>3
<1>12. CallLaws' /\ CursorLaws(Own(D), D)'
  BY <1>0 DEF CallLaws, CursorLaws, InsertStep, RemoveStep, FixRemoveStep
<1> QED  BY <1>9, <1>10, <1>11, <1>12 DEF Laws

(* The thread of the neighbours after Spliced.                             *)
Respliced(O2, prev, next) ==
  \A m \in Index :
    /\ m = prev => O2[m][1] = next
    /\ m = next => O2[m][0] = prev
    /\ m # prev => O2[m][1] = order[m][1]
    /\ m # next => O2[m][0] = order[m][0]

(* Spliced does that also when a neighbour is missing.                     *)
LEMMA SplicedLinks ==
  ASSUME NEW prev \in Ref, NEW next \in Ref, order \in [Index -> [Side -> Ref]]
  PROVE  Respliced(Spliced(prev, next), prev, next)
<1> DEFINE f == SetLink(order, prev, 1, next)
           g == SetLink(f, next, 0, prev)
<1>1. /\ f \in [Index -> [Side -> Ref]]
      /\ \A m \in Index : f[m][0] = order[m][0] /\ f[m][1] = IF m = prev THEN next ELSE order[m][1]
  <2>1. CASE prev = None
    BY <2>1, NoneAssumption DEF SetLink
  <2>2. CASE prev # None
    BY <2>2 DEF SetLink
  <2> QED  BY <2>1, <2>2
<1>2. \A m \in Index : g[m][1] = f[m][1] /\ g[m][0] = IF m = next THEN prev ELSE f[m][0]
  <2> HIDE DEF f
  <2>1. CASE next = None
    BY <2>1, <1>1, NoneAssumption DEF SetLink
  <2>2. CASE next # None
    BY <2>2, <1>1 DEF SetLink
  <2> QED  BY <2>1, <2>2
<1>3. g = Spliced(prev, next)
  BY DEF Spliced
<1> HIDE DEF f, g
<1> QED  BY <1>1, <1>2, <1>3 DEF Respliced

(* The neighbours of the unlinked node meet; its rank is as if its key had *)
(* never been traded.                                                      *)
LEMMA UnthreadLaws ==
  ASSUME TypeOK, TypeOK', NEW D \in [Ref -> SUBSET Index], NEW rk \in [Index -> Int],
         Laws(D, rk), Unthread
  PROVE  Spared /\ \E s \in [Index -> Int] : Laws(D, s)'
<1>a. PICK A : A = Own(D)
  OBVIOUS
<1> DEFINE prev == order[node][0]
           next == order[node][1]
           t0 == call.tree
<1>0. /\ pc = "unthread" /\ pc # "idle" /\ Limbo /\ pc' = "propagate"
      /\ pc \in Unlinked /\ pc' \notin Unlinked \cup {"unlink"}
  BY DEF Unthread, Limbo, Unlinked
<1>1. /\ call \in Call /\ call # None /\ call.tree \in Trees /\ A = D[root[call.tree]]
      /\ SearchLaws(A, D) /\ UpdateLaws(A)
      /\ InTree(Hung, parent, child, root, D, call.tree, A)
  BY <1>0, <1>a, OwnCall
<1>2. /\ UNCHANGED <<key, parent, child, root, call, node>> /\ call.op = "remove" /\ CallLaws
      /\ ptr' = parent[node] /\ order' = Spliced(prev, next)
      /\ range' = [range EXCEPT ![t0][0] = IF prev = None THEN next ELSE @,
                                ![t0][1] = IF next = None THEN prev ELSE @]
  BY <1>0 DEF Unthread, data, links, Laws, CallLaws, RemoveStep
<1>3. /\ node \in Live /\ node \in Index /\ A \subseteq Hung /\ Hung = Live \ {node} /\ Limbo'
      /\ Live' = Live /\ Hung' = Hung /\ parent[node] \in A \cup {None}
      /\ Live \subseteq Index
  BY <1>0, <1>1, <1>2 DEF UpdateLaws, Live, Hung, InTree, Limbo
<1>4. Thread(A \cup {node}, order, range[t0], rk) /\ A = (A \cup {node}) \ {node}
  <2>1. Strung(D, t0) = A \cup {node}
    BY <1>0, <1>1 DEF Strung
  <2> QED  BY <1>1, <1>3, <2>1 DEF Laws, StringLaws
<1>5. /\ prev \in A \cup {node, None} /\ next \in A \cup {node, None}
      /\ prev \in Ref /\ next \in Ref
  BY <1>4, <1>3 DEF Thread, TypeOK
<1>6. \A m \in Index :
        /\ m = prev => order'[m][1] = next
        /\ m = next => order'[m][0] = prev
        /\ m # prev => order'[m][1] = order[m][1]
        /\ m # next => order'[m][0] = order[m][0]
  <2>1. order \in [Index -> [Side -> Ref]]
    BY DEF TypeOK
  <2> HIDE DEF prev, next, Side, Ref
  <2>2. Respliced(order', prev, next)
    BY <2>1, <1>2, <1>5, SplicedLinks
  <2> QED  BY <2>2 DEF Respliced
<1>7. /\ \A t \in Trees \ {t0} : range'[t] = range[t]
      /\ range'[t0][0] = (IF prev = None THEN next ELSE range[t0][0])
      /\ range'[t0][1] = (IF next = None THEN prev ELSE range[t0][1])
  <2> HIDE DEF prev, next
  <2> QED  BY <1>1, <1>2 DEF TypeOK
<1>8. Thread(A, order', range'[t0], rk)
  <2>1. \A m \in A, i, j \in Side : i # j /\ m = order[node][j] => order'[m][i] = order[node][i]
    BY <1>3, <1>6
  <2>2. \A m \in A, i, j \in Side : i # j /\ m # order[node][j] => order'[m][i] = order[m][i]
    BY <1>3, <1>6
  <2>3. \A i, j \in Side : i # j /\ order[node][i] = None => range'[t0][i] = order[node][j]
    BY <1>7
  <2>4. \A i \in Side : order[node][i] # None => range'[t0][i] = range[t0][i]
    BY <1>7
  <2>5. /\ A \cup {node} \in SUBSET Index /\ order \in [Index -> [Side -> Ref]]
        /\ order' \in [Index -> [Side -> Ref]] /\ range[t0] \in [Side -> Ref]
        /\ range'[t0] \in [Side -> Ref] /\ node \in A \cup {node}
    BY <1>1, <1>3 DEF TypeOK
  <2>6. Unthreaded(A, order, range[t0], order', range'[t0], node)
    BY <2>1, <2>2, <2>3, <2>4 DEF Unthreaded
  <2> HIDE DEF Side, Ref, prev, next, t0
  <2> QED  BY <2>5, <2>6, <1>4, UnthreadThread
<1>9. PICK s \in [Index -> Int] : s[node] = 2 * key[node] /\ \A m \in Index \ {node} : s[m] = rk[m]
  <2>1. key[node] \in Int
    BY <1>3, KeyRank
  <2>1a. 2 * key[node] \in Int
    BY <2>1
  <2>2. [rk EXCEPT ![node] = 2 * key[node]] \in [Index -> Int]
    BY <2>1a
  <2> QED  BY <2>2, <1>3
<1>10. LinkLaws(D, s)'
  <2>1. Shape(Hung, parent, child, root, D, s)
    <3>1. SameLinks(Hung, parent, child, rk, parent, child, s)
      BY <1>3, <1>9 DEF SameLinks
    <3>2. Shape(Hung, parent, child, root, D, rk)
      BY DEF Laws, LinkLaws
    <3>3. /\ parent \in [Index -> Ref] /\ child \in [Index -> [Side -> Ref]]
          /\ root \in [Trees -> Ref] /\ Hung \in SUBSET Index
      BY HungLive DEF TypeOK
    <3> HIDE DEF Side, Ref
    <3> QED  BY <3>1, <3>2, <3>3, ShapeSame
  <2> QED  BY <2>1, <1>2, <1>3 DEF LinkLaws
<1>11. RankLaws(s)'
  <2> SUFFICES ASSUME NEW n \in Live PROVE s[n] = Rank(n)'
    BY <1>3 DEF RankLaws
  <2>1. Rank(n)' = 2 * key[n]
    BY <1>0, <1>2 DEF Rank
  <2>2. n # node => rk[n] = 2 * key[n]
    BY KeyRank
  <2> QED  BY <2>1, <2>2, <1>3, <1>9
<1>12. StringLaws(D, s)'
  <2> SUFFICES ASSUME NEW t \in Trees PROVE Thread(D[root[t]], order', range'[t], s)
    BY <1>0, <1>2 DEF StringLaws, Strung
  <2>1. D[root[t]] \subseteq Hung
    BY OwnTree DEF InTree
  <2>2. CASE t = t0
    <3>1. SameThread(A, order', range'[t0], rk, order', range'[t0], s)
      BY <1>3, <1>9 DEF SameThread
    <3>2. Thread(A, order', range'[t0], s)
      BY <1>8, <3>1, ThreadSame
    <3> QED  BY <2>2, <3>2, <1>1
  <2>3. CASE t # t0
    <3>1. D[root[t]] \cap A = {}
      BY <2>3, <1>1 DEF InTree
    <3>2. \A m \in D[root[t]] : m # prev /\ m # next /\ m # node /\ m \in Index
      BY <2>1, <3>1, <1>3, <1>5, NoneAssumption
    <3>3. SameThread(D[root[t]], order, range[t], rk, order', range'[t], s)
      BY <2>3, <3>2, <1>6, <1>7, <1>9 DEF SameThread
    <3>4. Thread(D[root[t]], order, range[t], rk)
      BY <2>3 DEF Laws, StringLaws, Strung
    <3> QED  BY <3>3, <3>4, ThreadSame
  <2> QED  BY <2>2, <2>3
<1>13. CallLaws'
  BY <1>0, <1>1, <1>2 DEF CallLaws, InsertStep
<1>14. SearchLaws(A, D)'
  BY <1>0 DEF SearchLaws, Frontier
<1>15. UpdateLaws(A)'
  BY <1>0, <1>1, <1>2, <1>3
  DEF UpdateLaws, Inserting, Removing, FixRemoveStep, Unlinked, InsertStep
<1>16. CursorLaws(Own(D), D)'
  BY <1>1, <1>2, <1>14, <1>15 DEF CursorLaws, Own
<1>17. Laws(D, s)'
  BY <1>10, <1>11, <1>12, <1>13, <1>16 DEF Laws
<1>18. Spared
  <2> SUFFICES ASSUME NEW m \in Index \ Live PROVE order'[m] = order[m]
    BY <1>2 DEF Spared
  <2>1. m # prev /\ m # next
    BY <1>3, <1>5, NoneAssumption
  <2>2. order'[m][0] = order[m][0] /\ order'[m][1] = order[m][1]
    BY <1>6, <2>1
  <2>3. order[m] \in [Side -> Ref] /\ order'[m] \in [Side -> Ref]
    BY DEF TypeOK
  <2> QED  BY <2>2, <2>3
<1> QED  BY <1>17, <1>18

-----------------------------------------------------------------------------
(* A node with a free side is unlinked itself; ...                         *)
LEMMA RemovePlainLaws ==
  ASSUME TypeOK, TypeOK', NEW D \in [Ref -> SUBSET Index], NEW rk \in [Index -> Int],
         Laws(D, rk), RemoveHere, ~\A i \in Side : child[ptr][i] # None
  PROVE  Laws(D, rk)'
<1>a. PICK A : A = Own(D)
  OBVIOUS
<1>0. pc = "Here" /\ pc # "idle" /\ pc' = "unlink" /\ ~Limbo /\ ~Limbo' /\ pc \notin Unlinked \cup {"unlink"}
  BY DEF RemoveHere, Limbo, Unlinked
<1>1. /\ call \in Call /\ call # None /\ call.tree \in Trees /\ A = D[root[call.tree]]
      /\ SearchLaws(A, D) /\ UpdateLaws(A)
      /\ InTree(Hung, parent, child, root, D, call.tree, A)
  BY <1>0, <1>a, OwnCall
<1>2. /\ UNCHANGED <<key, parent, child, order, root, range, call>> /\ call.op = "remove"
      /\ node' = ptr /\ CallLaws
  BY DEF RemoveHere, links, bounds, data, Laws
<1>3. /\ ptr \in A /\ key[ptr] = call.key /\ A \subseteq Live /\ Live' = Live /\ Hung' = Hung
      /\ Hung = Live
  BY <1>0, <1>1, <1>2, HungLive DEF SearchLaws, InTree, Live, Hung
<1>4. Thread(A, order, range[call.tree], rk)
  BY <1>0, <1>1 DEF Laws, StringLaws, Strung
<1>5. \A m \in A : key[m] \in Int /\ rk[m] = 2 * key[m]
  BY <1>0, <1>3, KeyRank
<1>6. ASSUME NEW n \in Live PROVE Rank(n)' = Rank(n)
  <2>1. CASE n # ptr
    BY <2>1, <1>0, <1>2 DEF Rank
  <2>2. CASE n = ptr
    <3>1. order[ptr][0] # None => order[ptr][0] \in A /\ rk[order[ptr][0]] < rk[ptr]
      BY <1>3, <1>4 DEF Thread, Before
    <3>2. order[ptr][0] # None => ~(key[order[ptr][0]] > key[ptr])
      BY <3>1, <1>3, <1>5
    <3> QED  BY <2>2, <3>2, <1>0, <1>2 DEF Rank
  <2> QED  BY <2>1, <2>2
<1>7. \A t \in Trees : Strung(D, t)' = Strung(D, t)
  BY <1>0, <1>2 DEF Strung, Unlinked
<1>8. CallLaws' /\ Own(D)' = A
  BY <1>0, <1>1, <1>2 DEF CallLaws, Own, InsertStep
<1>9. \A m \in A \ {ptr} : key[m] # call.key
  <2> TAKE m \in A \ {ptr}
  <2>1. rk[m] # rk[ptr]
    BY <1>3, <1>4 DEF Thread
  <2> QED  BY <2>1, <1>3, <1>5
<1>10. SearchLaws(A, D)'
  BY <1>0 DEF SearchLaws, Frontier
<1>11. UpdateLaws(A)'
  BY <1>0, <1>1, <1>2, <1>3, <1>9
  DEF UpdateLaws, Inserting, Removing, FixRemoveStep, Unlinked, InsertStep
<1>12. SearchLaws(Own(D), D)' /\ UpdateLaws(Own(D))'
  <2>1. A' = Own(D)'
    BY <1>8
  <2> QED  BY <2>1, <1>10, <1>11
<1> QED  BY <1>2, <1>3, <1>6, <1>7, <1>8, <1>12, QuietFrame DEF CursorLaws

(* ... else it trades keys with its successor, which then stands right     *)
(* after it: the ranks of the two, not their places, carry the order.      *)
LEMMA RemoveSwapLaws ==
  ASSUME TypeOK, TypeOK', NEW D \in [Ref -> SUBSET Index], NEW rk \in [Index -> Int],
         Laws(D, rk), RemoveHere, \A i \in Side : child[ptr][i] # None
  PROVE  \E s \in [Index -> Int] : Laws(D, s)'
<1>a. PICK A : A = Own(D)
  OBVIOUS
<1> DEFINE next == order[ptr][1]
           t0 == call.tree
<1>0. pc = "Here" /\ pc # "idle" /\ pc' = "unlink" /\ ~Limbo /\ ~Limbo' /\ pc \notin Unlinked \cup {"unlink"}
  BY DEF RemoveHere, Limbo, Unlinked
<1>1. /\ call \in Call /\ call # None /\ call.tree \in Trees /\ A = D[root[call.tree]]
      /\ SearchLaws(A, D) /\ UpdateLaws(A)
      /\ InTree(Hung, parent, child, root, D, call.tree, A)
  BY <1>0, <1>a, OwnCall
<1>2. /\ UNCHANGED <<parent, child, order, root, range, call>> /\ call.op = "remove"
      /\ node' = next /\ CallLaws /\ next # None /\ key' = Swapped(key, ptr, next)
  BY DEF RemoveHere, links, bounds, data, Laws
<1>3. ptr \in A /\ key[ptr] = call.key /\ A \subseteq Live /\ A \subseteq Index /\ Hung = Live
  BY <1>0, <1>1, HungLive DEF SearchLaws, InTree, Hung
<1>4. Thread(A, order, range[call.tree], rk)
  BY <1>0, <1>1 DEF Laws, StringLaws, Strung
<1>5. \A m \in Live : key[m] \in Int /\ m \in Index /\ rk[m] = 2 * key[m]
  BY <1>0, KeyRank
<1>6. next \in A /\ rk[ptr] < rk[next] /\ next # ptr
  <2>1. next \in A /\ rk[ptr] < rk[next]
    BY <1>2, <1>3, <1>4 DEF Thread, Before
  <2> QED  BY <2>1, <1>3, <1>5
<1>7. child[next][0] = None
  <2>1. Shape(Hung, parent, child, root, D, rk)
    BY DEF Laws, LinkLaws
  <2>2. /\ parent \in [Index -> Ref] /\ child \in [Index -> [Side -> Ref]]
        /\ root \in [Trees -> Ref] /\ Hung \in SUBSET Index /\ order \in [Index -> [Side -> Ref]]
        /\ range[t0] \in [Side -> Ref] /\ t0 \in Trees
    BY <1>1, HungLive DEF TypeOK
  <2>3. Succeeds(child, order, ptr)
    <3>1. A = D[root[t0]] /\ Thread(A, order, range[t0], rk) /\ ptr \in A
      BY <1>1, <1>3, <1>4
    <3> HIDE DEF Side, Ref, t0
    <3> QED  BY <2>1, <2>2, <3>1, Successor
  <2> QED  BY <2>3 DEF Succeeds
<1>8. order[next][0] = ptr
  <2>1. Mutual(A, order)
    <3>1. /\ A \in SUBSET Index /\ order \in [Index -> [Side -> Ref]]
          /\ range[call.tree] \in [Side -> Ref]
      BY <1>1, <1>3 DEF TypeOK
    <3> HIDE DEF Side, Ref
    <3> QED  BY <3>1, <1>4, ThreadMutual
  <2> QED  BY <2>1, <1>2, <1>3 DEF Mutual
<1>9. /\ key'[ptr] = key[next] /\ key'[next] = key[ptr]
      /\ \A m \in Index \ {ptr, next} : key'[m] = key[m]
  BY <1>2, <1>3, <1>6 DEF Swapped, TypeOK
<1>10. Live' = Live /\ Hung' = Hung
  <2>1. key[ptr] # None /\ key[next] # None
    BY <1>3, <1>6 DEF Live
  <2>2. Live' = Live
    BY <2>1, <1>3, <1>6, <1>9 DEF Live
  <2> QED  BY <2>2, <1>0 DEF Hung
<1>11. PICK s \in [Index -> Int] :
         /\ s[ptr] = 2 * key[next] /\ s[next] = 2 * key[next] + 1
         /\ \A m \in Index \ {ptr, next} : s[m] = rk[m]
  <2> DEFINE f == [rk EXCEPT ![ptr] = 2 * key[next], ![next] = 2 * key[next] + 1]
  <2>1. key[next] \in Int /\ ptr \in Index /\ next \in Index
    BY <1>3, <1>5, <1>6
  <2>2. 2 * key[next] \in Int /\ 2 * key[next] + 1 \in Int
    BY <2>1
  <2>3. f \in [Index -> Int]
    BY <2>2
  <2>4. f[ptr] = 2 * key[next] /\ f[next] = 2 * key[next] + 1
    BY <2>1, <1>6
  <2>5. \A m \in Index \ {ptr, next} : f[m] = rk[m]
    OBVIOUS
  <2> HIDE DEF f
  <2> QED  BY <2>3, <2>4, <2>5
<1>12. /\ \A m \in A \ {ptr, next} : rk[m] < rk[ptr] \/ rk[next] < rk[m]
       /\ \A m \in A : rk[m] \in Int
       /\ rk[next] = 2 * key[next] /\ key[next] \in Int
  <2>1. \A m \in A : rk[m] \in Int
    BY <1>3
  <2>2. \A m \in A : ~(rk[ptr] < rk[m] /\ rk[m] < rk[next])
    BY <1>2, <1>3, <1>4 DEF Thread, Before
  <2>3. \A m \in A \ {ptr, next} : rk[m] # rk[ptr] /\ rk[m] # rk[next]
    BY <1>3, <1>4, <1>6 DEF Thread
  <2>4. rk[ptr] \in Int /\ rk[next] \in Int
    BY <1>3, <1>6
  <2> QED  BY <2>1, <2>2, <2>3, <2>4, <1>3, <1>5, <1>6
<1>13. \A x, y \in A : s[x] < s[y] <=> rk[x] < rk[y]
  <2> TAKE x, y \in A
  <2> HIDE DEF next
  <2>1. CASE x \notin {ptr, next} /\ y \notin {ptr, next}
    BY <2>1, <1>3, <1>11
  <2>2. CASE x \in {ptr, next} /\ y \in {ptr, next}
    BY <2>2, <1>11, <1>12, <1>6, <1>3
  <2>3. CASE x \in {ptr, next} /\ y \notin {ptr, next}
    <3>1. s[y] = rk[y] /\ rk[y] \in Int /\ rk[ptr] \in Int /\ (rk[y] < rk[ptr] \/ rk[next] < rk[y])
      BY <2>3, <1>3, <1>11, <1>12
    <3>2. rk[y] = 2 * key[y] /\ key[y] \in Int
      BY <1>3, <1>5
    <3> QED  BY <2>3, <3>1, <3>2, <1>11, <1>12, <1>6
  <2>4. CASE x \notin {ptr, next} /\ y \in {ptr, next}
    <3>1. s[x] = rk[x] /\ rk[x] \in Int /\ rk[ptr] \in Int /\ (rk[x] < rk[ptr] \/ rk[next] < rk[x])
      BY <2>4, <1>3, <1>11, <1>12
    <3>2. rk[x] = 2 * key[x] /\ key[x] \in Int
      BY <1>3, <1>5
    <3> QED  BY <2>4, <3>1, <3>2, <1>11, <1>12, <1>6
  <2> QED  BY <2>1, <2>2, <2>3, <2>4
<1>14. \A t \in Trees : \A x \in D[root[t]] : t # t0 => s[x] = rk[x]
  <2> TAKE t \in Trees
  <2> TAKE x \in D[root[t]]
  <2> HAVE t # t0
  <2>1. x \notin A
    BY <1>1 DEF InTree
  <2>2. x \in Index
    <3>1. root[t] \in Ref
      BY DEF TypeOK
    <3> QED  BY <3>1
  <2> QED  BY <2>1, <2>2, <1>3, <1>6, <1>11
<1>15. \A t \in Trees : \A x, y \in D[root[t]] : s[x] < s[y] <=> rk[x] < rk[y]
  <2> TAKE t \in Trees
  <2>1. CASE t = t0
    BY <2>1, <1>1, <1>13
  <2>2. CASE t # t0
    BY <2>2, <1>14
  <2> QED  BY <2>1, <2>2
<1>16. LinkLaws(D, s)'
  <2>1. Shape(Hung, parent, child, root, D, rk)
    BY DEF Laws, LinkLaws
  <2>2. /\ parent \in [Index -> Ref] /\ child \in [Index -> [Side -> Ref]]
        /\ root \in [Trees -> Ref] /\ Hung \in SUBSET Index
    BY HungLive DEF TypeOK
  <2>3. Shape(Hung, parent, child, root, D, s)
    <3> HIDE DEF Side, Ref
    <3> QED  BY <2>1, <2>2, <1>15, ReorderTree
  <2> QED  BY <2>3, <1>2, <1>10 DEF LinkLaws
<1>17. RankLaws(s)'
  <2> SUFFICES ASSUME NEW n \in Live PROVE s[n] = Rank(n)'
    BY <1>10 DEF RankLaws
  <2>1. CASE n \notin {ptr, next}
    <3>1. Rank(n)' = 2 * key[n]
      BY <2>1, <1>2, <1>5, <1>9 DEF Rank
    <3> QED  BY <2>1, <3>1, <1>5, <1>11
  <2>2. CASE n = ptr
    <3>1. Rank(n)' = 2 * key[next]
      BY <2>2, <1>2, <1>6, <1>9 DEF Rank
    <3> QED  BY <2>2, <3>1, <1>11
  <2>3. CASE n = next
    <3>1. ptr # None /\ key'[ptr] > key'[next]
      BY <1>3, <1>5, <1>6, <1>9, NoneAssumption
    <3>2. order'[n][0] = ptr
      BY <2>3, <1>2, <1>8
    <3>3. Rank(n)' = 2 * key'[ptr] + 1
      BY <2>3, <3>1, <3>2, <1>0, <1>2 DEF Rank
    <3> QED  BY <2>3, <3>3, <1>9, <1>11
  <2> QED  BY <2>1, <2>2, <2>3
<1>18. StringLaws(D, s)'
  <2> SUFFICES ASSUME NEW t \in Trees PROVE Thread(D[root[t]], order, range[t], s)
    BY <1>0, <1>2 DEF StringLaws, Strung, Unlinked
  <2>1. Thread(D[root[t]], order, range[t], rk)
    BY <1>0 DEF Laws, StringLaws, Strung
  <2>2. /\ D[root[t]] \in SUBSET Index /\ order \in [Index -> [Side -> Ref]]
        /\ range[t] \in [Side -> Ref]
    BY DEF TypeOK
  <2>3. \A x, y \in D[root[t]] : rk[x] < rk[y] => s[x] < s[y]
    BY <1>15
  <2> HIDE DEF Side, Ref
  <2> QED  BY <2>1, <2>2, <2>3, ReorderThread
<1>19. CallLaws'
  BY <1>0, <1>1, <1>2 DEF CallLaws, InsertStep
<1>20. SearchLaws(A, D)'
  BY <1>0 DEF SearchLaws, Frontier
<1>21. UpdateLaws(A)'
  <2>1. \A m \in A \ {next} : key'[m] # call.key
    <3> TAKE m \in A \ {next}
    <3>1. CASE m = ptr
      BY <3>1, <1>3, <1>5, <1>6, <1>9
    <3>2. CASE m # ptr
      <4>1. rk[m] # rk[ptr]
        BY <3>2, <1>3, <1>4 DEF Thread
      <4>2. key'[m] = key[m]
        BY <3>2, <1>3, <1>9
      <4> QED  BY <4>1, <4>2, <1>3, <1>5
    <3> QED  BY <3>1, <3>2
  <2>2. key'[node'] = call'.key
    BY <1>2, <1>3, <1>9
  <2>3. node' \in A /\ \E i \in Side : child'[node'][i] = None
    BY <1>2, <1>6, <1>7
  <2>4. ~Inserting'
    BY <1>0 DEF Inserting, InsertStep
  <2>5. \A m \in A \ {node'} : key'[m] # call'.key
    BY <2>1, <1>2
  <2> HIDE DEF next
  <2> QED  BY <2>2, <2>3, <2>4, <2>5, <1>0
    DEF UpdateLaws, FixRemoveStep, Unlinked
<1>22. CursorLaws(Own(D), D)'
  BY <1>1, <1>2, <1>20, <1>21 DEF CursorLaws, Own
<1> QED  BY <1>16, <1>17, <1>18, <1>19, <1>22 DEF Laws

-----------------------------------------------------------------------------
(* x is replaced by its child c, or by nothing.                            *)
Replaced(x, c) ==
  parent' = ReplacedParent(x, c) /\ child' = ReplacedChild(x, c) /\ root' = ReplacedRoot(x, c)

(* The links after that, on the nodes that still hang.                     *)
Cut(x, c) ==
  /\ c # x /\ (c # None => parent[c] = x /\ parent'[c] = parent[x])
  /\ \A m \in Index \ {c} : parent'[m] = parent[m]
  /\ \A m \in Hung \ {x}, s \in Side : child'[m][s] = IF child[m][s] = x THEN c ELSE child[m][s]
  /\ \A t \in Trees : root'[t] = IF root[t] = x THEN c ELSE root[t]

(* The action does what UnlinkLaws asks.                                   *)
LEMMA UnlinkStep ==
  ASSUME TypeOK, TypeOK', call \in Call,
         NEW D \in [Ref -> SUBSET Index], NEW rk \in [Index -> Int], LinkLaws(D, rk),
         NEW i \in Side, NEW x \in D[root[call.tree]], NEW c, c = child[x][i],
         child[x][1 - i] = None, Replaced(x, c),
         UNCHANGED <<key, order>>, Hung = Live, Hung' = Live \ {x}
  PROVE  \E E \in [Ref -> SUBSET Index] :
           /\ LinkLaws(E, rk)' /\ PrunedTrees(root, D, root', E, x)
           /\ parent'[x] = parent[x] /\ Cut(x, c) /\ Kept(D[root[call.tree]])
<1> DEFINE L == Hung
           p == parent[x]
           A == D[root[call.tree]]
<1>1. Shape(L, parent, child, root, D, rk)
  BY DEF LinkLaws
<1>2. /\ parent \in [Index -> Ref] /\ child \in [Index -> [Side -> Ref]] /\ root \in [Trees -> Ref]
      /\ parent' \in [Index -> Ref] /\ child' \in [Index -> [Side -> Ref]]
      /\ root' \in [Trees -> Ref] /\ call.tree \in Trees /\ None \notin Index
      /\ L \in SUBSET Index /\ L \subseteq Live
  BY NoneAssumption, HungLive DEF TypeOK, Call
<1>4. /\ parent' = SetAt(parent, c, p)
      /\ child' = SetLink(child, p, SideOf(p, x), c)
      /\ root' = ReplacedRoot(x, c)
  BY DEF Replaced, ReplacedParent, ReplacedChild
<1>5. /\ A \subseteq L /\ x \in A /\ x \in L /\ x \in Index
      /\ p = None => x = root[call.tree]
      /\ p # None => p \in A /\ \E s \in Side : child[p][s] = x
      /\ \A m \in A, s \in Side : child[m][s] # None => child[m][s] \in A /\ parent[child[m][s]] = m
      /\ \A u \in Trees : u # call.tree => root[u] \notin A
      /\ root[call.tree] # None => root[call.tree] \in A /\ parent[root[call.tree]] = None
  <2>1. InTree(L, parent, child, root, D, call.tree, A)
    <3> HIDE DEF L, Side, Ref
    <3> QED  BY <1>1, <1>2, Family
  <2>2. x \in A
    OBVIOUS
  <2> HIDE DEF L, A
  <2> QED  BY <2>1, <2>2, <1>2 DEF InTree
<1>6. Apart(parent, child, D, x)
  <2> HIDE DEF L, Side, Ref
  <2> QED  BY <1>1, <1>2, <1>5, Distinct
<1>7. /\ c \in Ref /\ c # x /\ (c # None => c \in A /\ c \in Index /\ parent[c] = x)
      /\ p \in Ref /\ p # x
  BY <1>2, <1>5, <1>6 DEF Apart
<1>8. (c # None => parent'[c] = p) /\ \A m \in Index \ {c} : parent'[m] = parent[m]
  BY <1>2, <1>4, <1>7 DEF SetAt
<1>9. \A m \in Index, s \in Side :
         child'[m][s] = IF m = p /\ s = SideOf(p, x) THEN c ELSE child[m][s]
  <2> HIDE DEF p
  <2> TAKE m \in Index, s \in Side
  <2>1. SideOf(p, x) \in Side
    BY SideOfType
  <2>2. CASE p = None
    BY <2>2, <1>2, <1>4 DEF SetLink
  <2>3. CASE p # None
    <3>1. child' = [child EXCEPT ![p][SideOf(p, x)] = c]
      BY <2>3, <1>4 DEF SetLink
    <3> QED  BY <2>1, <3>1, <1>2
  <2> QED  BY <2>2, <2>3
<1>10. \A m \in L \ {x}, s \in Side :
         child'[m][s] = IF child[m][s] = x THEN c ELSE child[m][s]
  <2> TAKE m \in L \ {x}, s \in Side
  <2>1. ASSUME child[m][s] = x PROVE m = p /\ s = SideOf(p, x)
    <3>1. m = p
      BY <2>1, <1>1, <1>2, <1>5 DEF Shape, Linked
    <3>2. Apart(parent, child, D, m)
      <4> HIDE DEF L, Side, Ref, p
      <4> QED  BY <1>1, <1>2, Distinct
    <3>3. \A r \in Side : r # s => child[m][r] # x
      BY <2>1, <3>2, <1>2, <1>5 DEF Apart
    <3> QED  BY <3>1, <3>3, <2>1 DEF SideOf
  <2>2. ASSUME m = p, s = SideOf(p, x) PROVE child[m][s] = x
    <3>1. PICK r \in Side : child[p][r] = x
      BY <2>2, <1>2, <1>5
    <3> QED  BY <2>2, <3>1 DEF SideOf
  <2> QED  BY <2>1, <2>2, <1>9, <1>2
<1>11. \A t \in Trees : root'[t] = IF root[t] = x THEN c ELSE root[t]
  <2> HIDE DEF A, L
  <2>1. CASE p = None
    <3>1. x = root[call.tree] /\ root' = [root EXCEPT ![call.tree] = c]
      BY <2>1, <1>4, <1>5 DEF ReplacedRoot
    <3> QED  BY <3>1, <1>2, <1>5
  <2>2. CASE p # None
    <3>1. root' = root
      BY <2>2, <1>4 DEF ReplacedRoot
    <3>2. \A t \in Trees : root[t] # x
      BY <2>2, <1>2, <1>5
    <3> QED  BY <3>1, <3>2
  <2> QED  BY <2>1, <2>2
<1>12. PICK E \in [Ref -> SUBSET Index] : \A m \in Ref \ {x} : E[m] = D[m] \ {x}
  <2> DEFINE F == [m \in Ref |-> D[m] \ {x}]
  <2>1. F \in [Ref -> SUBSET Index] /\ \A m \in Ref : F[m] = D[m] \ {x}
    OBVIOUS
  <2> HIDE DEF F
  <2> QED  BY <2>1
<1>13. PICK L2 : L2 = L \ {x}
  OBVIOUS
<1>14. Shape(L2, parent', child', root', E, rk) /\ PrunedTrees(root, D, root', E, x)
  <2>1. Pruned(L2, parent, child, root, D, parent', child', root', E, x, c)
    BY <1>2, <1>8, <1>10, <1>11, <1>12, <1>13 DEF Pruned
  <2>2. L2 \in SUBSET Index
    BY <1>2, <1>13
  <2> HIDE DEF Side, Ref, L, p, A
  <2>3. Shape(L2, parent', child', root', E, rk)
    BY <2>1, <2>2, <1>1, <1>2, <1>5, <1>7, <1>13, UnlinkLaws
  <2>4. PrunedTrees(root, D, root', E, x)
    BY <2>1, <2>2, <1>1, <1>2, <1>5, <1>7, <1>13, UnlinkLaws
  <2> QED  BY <2>3, <2>4
<1>15. Kept(A)
  <2> SUFFICES ASSUME NEW m \in Index \ A
               PROVE  parent'[m] = parent[m] /\ child'[m] = child[m]
    BY DEF Kept
  <2>2. m # c /\ m # p
    BY <1>2, <1>5, <1>7
  <2>3. parent'[m] = parent[m]
    BY <2>2, <1>8
  <2>4. \A s \in Side : child'[m][s] = child[m][s]
    BY <2>2, <1>2, <1>5, <1>9
  <2>5. child'[m] = child[m]
    BY <2>4, <1>2
  <2> QED  BY <2>3, <2>5
<1>16. LinkLaws(E, rk)'
  <2>1. Hung' = L2
    BY <1>13
  <2> QED  BY <2>1, <1>14 DEF LinkLaws
<1>17. parent'[x] = parent[x]
  BY <1>5, <1>7, <1>8
<1>18. Cut(x, c)
  <2> HIDE DEF A, p
  <2> QED  BY <1>7, <1>8, <1>10, <1>11 DEF Cut, p
<1> QED  BY <1>14, <1>15, <1>16, <1>17, <1>18

(* remove_at cuts a node off that is not the last.                         *)
LEMMA UnlinkNodeLaws ==
  ASSUME TypeOK, TypeOK', NEW D \in [Ref -> SUBSET Index], NEW rk \in [Index -> Int],
         Laws(D, rk), (\E i \in Side : UnlinkOneChild(i)) \/ UnlinkLeaf
  PROVE  Kept(D[root[call.tree]]) /\ \E E \in [Ref -> SUBSET Index] : Laws(E, rk)'
<1>a. PICK A : A = Own(D)
  OBVIOUS
<1>0. /\ pc = "unlink" /\ pc # "idle" /\ ~Limbo /\ pc' \in {"unthread", "fix_remove"}
      /\ pc' \in Unlinked /\ Limbo' /\ pc \notin Unlinked
  BY DEF UnlinkOneChild, UnlinkLeaf, Limbo, Unlinked
<1>1. /\ call \in Call /\ call # None /\ call.tree \in Trees /\ A = D[root[call.tree]]
      /\ SearchLaws(A, D) /\ UpdateLaws(A)
      /\ InTree(Hung, parent, child, root, D, call.tree, A)
  BY <1>0, <1>a, OwnCall
<1>2. /\ UNCHANGED <<key, order, range, call, node>> /\ call.op = "remove" /\ CallLaws
  BY <1>0 DEF UnlinkOneChild, UnlinkLeaf, data, bounds, Laws, CallLaws, RemoveStep
<1>3. /\ node \in A /\ Hung = Live /\ Hung' = Live \ {node} /\ Live' = Live
      /\ node \in Live /\ node \in Index
  BY <1>0, <1>1, <1>2 DEF UpdateLaws, Hung, Live, InTree
<1>4. \E i \in Side : child[node][1 - i] = None /\ Replaced(node, child[node][i])
  <2>1. CASE \E i \in Side : UnlinkOneChild(i)
    BY <2>1 DEF UnlinkOneChild, Replaced
  <2>2. CASE UnlinkLeaf
    <3>1. child[node][0] = None /\ child[node][1] = None /\ parent[node] # None
      BY <2>2 DEF UnlinkLeaf, IsLeaf, NoLinks
    <3>2. Replaced(node, None)
      BY <2>2, <3>1
      DEF UnlinkLeaf, Replaced, ReplacedParent, ReplacedChild, ReplacedRoot, SetAt, SetLink, bounds
    <3> QED  BY <3>1, <3>2
  <2> QED  BY <2>1, <2>2
<1>5. PICK E \in [Ref -> SUBSET Index] :
         /\ LinkLaws(E, rk)' /\ PrunedTrees(root, D, root', E, node)
         /\ parent'[node] = parent[node] /\ Kept(D[root[call.tree]])
  <2>1. PICK i \in Side : child[node][1 - i] = None /\ Replaced(node, child[node][i])
    BY <1>4
  <2>2. PICK c : c = child[node][i]
    OBVIOUS
  <2>3. PICK x : x = node
    OBVIOUS
  <2>4. /\ LinkLaws(D, rk) /\ x \in D[root[call.tree]] /\ c = child[x][i]
        /\ child[x][1 - i] = None /\ Replaced(x, c) /\ Hung' = Live \ {x}
        /\ UNCHANGED <<key, order>>
    BY <2>1, <2>2, <2>3, <1>1, <1>2, <1>3 DEF Laws
  <2>5. \E E \in [Ref -> SUBSET Index] :
           /\ LinkLaws(E, rk)' /\ PrunedTrees(root, D, root', E, x)
           /\ parent'[x] = parent[x] /\ Kept(D[root[call.tree]])
    <3> HIDE DEF Side, Ref
    <3> QED  BY <2>4, <1>1, <1>3, UnlinkStep
  <2> QED  BY <2>3, <2>5
<1>6. E[root'[call.tree]] = A \ {node}
  BY <1>1, <1>5 DEF PrunedTrees
<1>7. RankLaws(rk)'
  <2>1. \A n \in Live : Rank(n)' = Rank(n)
    BY <1>0, <1>2 DEF Rank
  <2> QED  BY <2>1, <1>3 DEF RankLaws, Laws
<1>8. StringLaws(E, rk)'
  <2> SUFFICES ASSUME NEW t \in Trees PROVE Thread(Strung(E, t)', order, range[t], rk)
    BY <1>2 DEF StringLaws
  <2>1. Thread(D[root[t]], order, range[t], rk)
    BY <1>0 DEF Laws, StringLaws, Strung
  <2>2. CASE t = call.tree
    <3>1. Strung(E, t)' = A
      BY <2>2, <1>0, <1>2, <1>3, <1>6 DEF Strung
    <3> QED  BY <2>1, <2>2, <3>1, <1>1
  <2>3. CASE t # call.tree
    <3>1. node \notin D[root[t]]
      BY <2>3, <1>1, <1>3 DEF InTree
    <3>2. Strung(E, t)' = D[root[t]]
      <4>1. E[root'[t]] = D[root[t]] \ {node}
        BY <1>5 DEF PrunedTrees
      <4>2. E[root'[t]] = D[root[t]]
        BY <3>1, <4>1
      <4> QED  BY <2>3, <4>2, <1>0, <1>2 DEF Strung
    <3> QED  BY <2>1, <3>2
  <2> QED  BY <2>2, <2>3
<1>9. CallLaws'
  BY <1>0, <1>1, <1>2 DEF CallLaws, InsertStep
<1>10. Own(E)' = A \ {node}
  BY <1>1, <1>2, <1>6 DEF Own
<1>11. SearchLaws(A \ {node}, E)'
  BY <1>0 DEF SearchLaws, Frontier
<1>12. parent[node] \in (A \ {node}) \cup {None}
  <2>1. Apart(parent, child, D, node)
    BY <1>3, OwnApart
  <2> QED  BY <2>1, <1>1, <1>3 DEF Apart, InTree
<1>13. pc' \in FixRemoveStep => par' \in A \ {node}
  <2>1. SUFFICES ASSUME pc' \in FixRemoveStep PROVE par' \in A \ {node}
    OBVIOUS
  <2>2. par' = parent[node] /\ parent[node] # None
    BY <2>1, <1>0 DEF UnlinkOneChild, UnlinkLeaf, FixRemoveStep
  <2> QED  BY <2>2, <1>12
<1>14. key[node] = call.key /\ \A m \in A \ {node} : key[m] # call.key
  BY <1>0, <1>1 DEF UpdateLaws, Removing
<1>15. UpdateLaws(Own(E))'
  <2>1. PICK B : B = A \ {node}
    OBVIOUS
  <2>2. UpdateLaws(B)'
    BY <2>1, <1>0, <1>1, <1>2, <1>3, <1>5, <1>12, <1>13, <1>14
    DEF UpdateLaws, Inserting, Removing, InsertStep
  <2> QED  BY <2>1, <2>2, <1>10
<1>16. SearchLaws(Own(E), E)'
  BY <1>10, <1>11, <1>0 DEF SearchLaws, Frontier
<1>17. Laws(E, rk)'
  BY <1>5, <1>7, <1>8, <1>9, <1>15, <1>16 DEF Laws, CursorLaws
<1> QED  BY <1>5, <1>17

(* remove_at cuts the last node off.                                       *)
LEMMA UnlinkLastLaws ==
  ASSUME TypeOK, TypeOK', NEW D \in [Ref -> SUBSET Index], NEW rk \in [Index -> Int],
         Laws(D, rk), UnlinkLast
  PROVE  \E E \in [Ref -> SUBSET Index] : Laws(E, rk)'
<1>a. PICK A : A = Own(D)
  OBVIOUS
<1>0. /\ pc = "unlink" /\ pc # "idle" /\ ~Limbo /\ pc' = "free"
      /\ pc' \notin Unlinked /\ Limbo' /\ pc \notin Unlinked
  BY DEF UnlinkLast, Limbo, Unlinked
<1>1. /\ call \in Call /\ call # None /\ call.tree \in Trees /\ A = D[root[call.tree]]
      /\ SearchLaws(A, D) /\ UpdateLaws(A)
      /\ InTree(Hung, parent, child, root, D, call.tree, A)
  BY <1>0, <1>a, OwnCall
<1>2. /\ UNCHANGED <<key, order, parent, child, call, node>> /\ call.op = "remove" /\ CallLaws
      /\ root' = [root EXCEPT ![call.tree] = None]
      /\ range' = [range EXCEPT ![call.tree] = NoLinks]
      /\ child[node] = NoLinks /\ parent[node] = None
  BY <1>0 DEF UnlinkLast, data, links, Laws, CallLaws, RemoveStep, IsLeaf
<1>3. /\ node \in A /\ Hung = Live /\ Hung' = Live \ {node} /\ Live' = Live
      /\ node \in Live /\ node \in Index
  BY <1>0, <1>1, <1>2 DEF UpdateLaws, Hung, Live, InTree
<1>4. A = {node}
  <2>1. node = root[call.tree]
    BY <1>1, <1>2, <1>3 DEF InTree
  <2>2. D[node] = {node} \cup D[child[node][0]] \cup D[child[node][1]] /\ D[None] = {}
    BY <1>3 DEF Laws, LinkLaws, Shape, Descends
  <2> QED  BY <2>1, <2>2, <1>1, <1>2 DEF NoLinks
<1>5. PICK E \in [Ref -> SUBSET Index] :
         /\ LinkLaws(E, rk)' /\ PrunedTrees(root, D, root', E, node)
         /\ parent'[node] = parent[node]
  <2>1. PICK i \in Side : i = 0
    OBVIOUS
  <2>2. PICK c : c = child[node][i] /\ c = None
    BY <1>2 DEF NoLinks
  <2>3. PICK x : x = node
    OBVIOUS
  <2>4a. child[x][1 - i] = None
    BY <2>1, <2>3, <1>2 DEF NoLinks
  <2>4b. Replaced(x, c)
    BY <2>2, <2>3, <1>2
    DEF Replaced, ReplacedParent, ReplacedChild, ReplacedRoot, SetAt, SetLink
  <2>4. /\ LinkLaws(D, rk) /\ x \in D[root[call.tree]] /\ c = child[x][i]
        /\ Hung' = Live \ {x} /\ UNCHANGED <<key, order>>
    BY <2>2, <2>3, <1>1, <1>2, <1>3 DEF Laws
  <2>5. \E E \in [Ref -> SUBSET Index] :
           /\ LinkLaws(E, rk)' /\ PrunedTrees(root, D, root', E, x)
           /\ parent'[x] = parent[x]
    <3> HIDE DEF Side, Ref
    <3> QED  BY <2>4, <2>4a, <2>4b, <1>1, <1>3, UnlinkStep
  <2> QED  BY <2>3, <2>5
<1>6. E[root'[call.tree]] = {}
  BY <1>1, <1>4, <1>5 DEF PrunedTrees
<1>7. RankLaws(rk)'
  <2> SUFFICES ASSUME NEW n \in Live PROVE rk[n] = Rank(n)'
    BY <1>3 DEF RankLaws
  <2>1. Rank(n)' = 2 * key[n]
    BY <1>0, <1>2 DEF Rank
  <2>2. CASE n # node
    <3>1. rk[n] = 2 * key[n]
      BY <2>2, KeyRank
    <3> QED  BY <2>1, <3>1
  <2>3. CASE n = node
    <3>1. Thread(A, order, range[call.tree], rk)
      BY <1>0, <1>1 DEF Laws, StringLaws, Strung
    <3>2. order[node][0] # None => order[node][0] \in A /\ Before(0, rk[order[node][0]], rk[node])
      BY <1>3, <3>1 DEF Thread
    <3>3. order[node][0] = None
      BY <3>2, <1>3, <1>4 DEF Before
    <3>4. Rank(node) = 2 * key[node]
      BY <3>3 DEF Rank
    <3> QED  BY <2>1, <2>3, <3>4, <1>3 DEF Laws, RankLaws
  <2> QED  BY <2>2, <2>3
<1>8. StringLaws(E, rk)'
  <2> SUFFICES ASSUME NEW t \in Trees PROVE Thread(Strung(E, t)', order, range'[t], rk)
    BY <1>2 DEF StringLaws
  <2>1. Thread(D[root[t]], order, range[t], rk)
    BY <1>0 DEF Laws, StringLaws, Strung
  <2>2. CASE t = call.tree
    <3>1. Strung(E, t)' = {}
      BY <2>2, <1>0, <1>2, <1>6 DEF Strung
    <3>2. \A i \in Side : range'[t][i] = None
      BY <2>2, <1>2 DEF NoLinks, TypeOK
    <3> QED  BY <3>1, <3>2 DEF Thread
  <2>3. CASE t # call.tree
    <3>1. node \notin D[root[t]]
      BY <2>3, <1>1, <1>3 DEF InTree
    <3>2. Strung(E, t)' = D[root[t]]
      <4>1. E[root'[t]] = D[root[t]] \ {node}
        BY <1>5 DEF PrunedTrees
      <4>2. E[root'[t]] = D[root[t]]
        BY <3>1, <4>1
      <4> QED  BY <2>3, <4>2, <1>0, <1>2 DEF Strung
    <3>3. range'[t] = range[t]
      BY <2>3, <1>2 DEF TypeOK
    <3> QED  BY <2>1, <3>2, <3>3
  <2> QED  BY <2>2, <2>3
<1>9. CallLaws'
  BY <1>0, <1>1, <1>2 DEF CallLaws, InsertStep
<1>10. Own(E)' = {}
  BY <1>1, <1>2, <1>6 DEF Own
<1>11. SearchLaws(Own(E), E)'
  BY <1>0 DEF SearchLaws, Frontier
<1>12. key[node] = call.key
  BY <1>0, <1>1 DEF UpdateLaws, Removing
<1>13. UpdateLaws(Own(E))'
  BY <1>0, <1>2, <1>3, <1>10, <1>12
  DEF UpdateLaws, Inserting, Removing, InsertStep, FixRemoveStep
<1> QED  BY <1>5, <1>7, <1>8, <1>9, <1>11, <1>13 DEF Laws, CursorLaws

-----------------------------------------------------------------------------
(* insert into an empty tree.                                              *)
LEMMA InsertEmptyLaws ==
  ASSUME TypeOK, TypeOK', NEW D \in [Ref -> SUBSET Index], NEW rk \in [Index -> Int],
         Laws(D, rk), NEW n \in Index \ Live, InsertEmpty(n)
  PROVE  \E E \in [Ref -> SUBSET Index], s \in [Index -> Int] : Laws(E, s)'
<1>a. PICK A : A = Own(D)
  OBVIOUS
<1>t. PICK t0 : t0 = call.tree
  OBVIOUS
<1>0. /\ pc = "Empty" /\ pc # "idle" /\ ~Limbo /\ pc' = "idle" /\ call' = None
      /\ pc \notin Unlinked \cup {"unlink"} /\ ~Limbo'
  BY DEF InsertEmpty, Return, Limbo, Unlinked
<1>1. /\ call \in Call /\ call # None /\ t0 \in Trees /\ A = D[root[t0]]
      /\ call.key \in Keys /\ call.key \in Int
      /\ SearchLaws(A, D) /\ InTree(Hung, parent, child, root, D, t0, A)
  BY <1>0, <1>a, <1>t, OwnCall
<1>2. root[t0] = None /\ A = {} /\ Hung = Live /\ D[None] = {}
  <2>1. root[t0] = None
    BY <1>0, <1>1, <1>t DEF SearchLaws
  <2> QED  BY <2>1, <1>0, <1>1 DEF Hung, InTree
<1>3. /\ key' = [key EXCEPT ![n] = call.key] /\ parent' = [parent EXCEPT ![n] = None]
      /\ child' = [child EXCEPT ![n] = NoLinks] /\ order' = [order EXCEPT ![n] = NoLinks]
      /\ root' = [root EXCEPT ![t0] = n] /\ range' = [range EXCEPT ![t0] = [i \in Side |-> n]]
  BY <1>t DEF InsertEmpty
<1>4. \A m \in Index \ {n} :
        key'[m] = key[m] /\ parent'[m] = parent[m] /\ child'[m] = child[m] /\ order'[m] = order[m]
  BY <1>3 DEF TypeOK
<1>5. key'[n] = call.key /\ parent'[n] = None /\ child'[n] = NoLinks /\ order'[n] = NoLinks
  BY <1>3 DEF TypeOK
<1>6. /\ root'[t0] = n /\ range'[t0] = [i \in Side |-> n]
      /\ \A t \in Trees \ {t0} : root'[t] = root[t] /\ range'[t] = range[t]
  BY <1>1, <1>3 DEF TypeOK
<1>7. Live' = Live \cup {n} /\ Hung' = Live'
  <2>1. call.key # None
    BY <1>1, NoneAssumption
  <2>2. Live' = Live \cup {n}
    BY <2>1, <1>4, <1>5 DEF Live
  <2> QED  BY <2>2, <1>0 DEF Hung
<1>8. PICK s \in [Index -> Int] : s[n] = 2 * call.key /\ \A m \in Index \ {n} : s[m] = rk[m]
  <2>1. 2 * call.key \in Int
    BY <1>1
  <2>2. [rk EXCEPT ![n] = 2 * call.key] \in [Index -> Int]
    BY <2>1
  <2> QED  BY <2>2
<1>9. PICK E \in [Ref -> SUBSET Index] : E[n] = {n} /\ \A m \in Ref \ {n} : E[m] = D[m]
  <2>1. [D EXCEPT ![n] = {n}] \in [Ref -> SUBSET Index]
    OBVIOUS
  <2> QED  BY <2>1
<1>10. PICK L2 : L2 = Hung \cup {n}
  OBVIOUS
<1>11. Shape(L2, parent', child', root', E, s) /\ GrownTree(root, D, root', E, t0, n)
  <2>1. Shape(Hung, parent, child, root, D, rk)
    BY DEF Laws, LinkLaws
  <2>2. /\ parent \in [Index -> Ref] /\ child \in [Index -> [Side -> Ref]]
        /\ root \in [Trees -> Ref] /\ Hung \in SUBSET Index
        /\ parent' \in [Index -> Ref] /\ child' \in [Index -> [Side -> Ref]]
        /\ root' \in [Trees -> Ref] /\ L2 \in SUBSET Index /\ n \in Index \ Hung
    BY HungLive, <1>2, <1>10 DEF TypeOK
  <2>3. Planted(Hung, parent, child, root, D, rk, parent', child', root', E, s, t0, n)
    <3>1. \A m \in Hung : m \in Index \ {n}
      BY <1>2, HungLive
    <3> QED  BY <3>1, <1>4, <1>5, <1>6, <1>8, <1>9 DEF Planted
  <2> HIDE DEF Side, Ref
  <2>4. Shape(L2, parent', child', root', E, s)
    BY <2>1, <2>2, <2>3, <1>1, <1>2, <1>10, PlantLaws
  <2>5. GrownTree(root, D, root', E, t0, n)
    BY <2>1, <2>2, <2>3, <1>1, <1>2, <1>10, PlantLaws
  <2> QED  BY <2>4, <2>5
<1>13. LinkLaws(E, s)'
  <2>1. L2 = Hung'
    BY <1>2, <1>7, <1>10
  <2> QED  BY <2>1, <1>11 DEF LinkLaws
<1>14. RankLaws(s)'
  <2> SUFFICES ASSUME NEW m \in Live' PROVE s[m] = Rank(m)'
    BY DEF RankLaws
  <2>1. Rank(m)' = 2 * key'[m]
    BY <1>0 DEF Rank, Unlinked
  <2>2. CASE m = n
    BY <2>1, <2>2, <1>5, <1>8
  <2>3. CASE m # n
    <3>1. m \in Live /\ m \in Index
      BY <2>3, <1>7 DEF Live
    <3>2. rk[m] = 2 * key[m]
      BY <3>1, <1>0, KeyRank
    <3> QED  BY <2>1, <2>3, <3>1, <3>2, <1>4, <1>8
  <2> QED  BY <2>2, <2>3
<1>15. StringLaws(E, s)'
  <2> SUFFICES ASSUME NEW t \in Trees PROVE Thread(E[root'[t]], order', range'[t], s)
    BY <1>0 DEF StringLaws, Strung, Unlinked
  <2>1. CASE t = t0
    <3>1. E[root'[t]] = {n}
      BY <2>1, <1>6, <1>9
    <3>2. \A i \in Side : order'[n][i] = None /\ range'[t][i] = n
      BY <2>1, <1>5, <1>6 DEF NoLinks
    <3> QED  BY <3>1, <3>2 DEF Thread, Before
  <2>2. CASE t # t0
    <3>1. E[root'[t]] = D[root[t]] /\ range'[t] = range[t]
      BY <2>2, <1>6, <1>11 DEF GrownTree
    <3>2. D[root[t]] \subseteq Hung
      BY OwnTree DEF InTree
    <3>3. \A m \in D[root[t]] : m \in Index \ {n}
      BY <3>2, <1>2, HungLive
    <3>4. SameThread(D[root[t]], order, range[t], rk, order', range[t], s)
      BY <3>3, <1>4, <1>8 DEF SameThread
    <3>5. Thread(D[root[t]], order, range[t], rk)
      BY <1>0 DEF Laws, StringLaws, Strung
    <3> QED  BY <3>1, <3>4, <3>5, ThreadSame
  <2> QED  BY <2>1, <2>2
<1>16. CallLaws' /\ CursorLaws(Own(E), E)'
  BY <1>0 DEF CallLaws, CursorLaws, InsertStep, RemoveStep, FixRemoveStep
<1> QED  BY <1>13, <1>14, <1>15, <1>16 DEF Laws

(* The thread after Hang.                                                  *)
HungLinks(O2, i, n, p, far) ==
  /\ O2[n][i] = far /\ O2[n][1 - i] = p /\ O2[p][i] = n
  /\ far # None => O2[far][1 - i] = n
  /\ \A m \in Index \ {n}, s \in Side :
       (m # p \/ s # i) /\ (m # far \/ s = i) => O2[m][s] = order[m][s]

(* Hang threads the node between its neighbours, also at an end.           *)
LEMMA HungOrder ==
  ASSUME order \in [Index -> [Side -> Ref]], NEW i \in Side, NEW n \in Index, NEW p \in Index,
         NEW far \in Ref, n # p, n # far, far # p, None \notin Index, NEW O2,
         O2 = [SetLink(order, far, 1 - i, n)
                 EXCEPT ![n] = [j \in Side |-> IF j = i THEN far ELSE p], ![p][i] = n]
  PROVE  HungLinks(O2, i, n, p, far)
<1> DEFINE f == SetLink(order, far, 1 - i, n)
           g == [j \in Side |-> IF j = i THEN far ELSE p]
<1>1. 1 - i \in Side /\ 1 - i # i /\ \A s \in Side : s = i \/ s = 1 - i
  OBVIOUS
<1>2. /\ f \in [Index -> [Side -> Ref]]
      /\ \A m \in Index : f[m][i] = order[m][i]
      /\ far # None => f[far][1 - i] = n
      /\ \A m \in Index : m # far => f[m][1 - i] = order[m][1 - i]
  <2> HIDE DEF Side
  <2>1. CASE far = None
    BY <2>1, <1>1 DEF SetLink
  <2>2. CASE far # None
    <3>1. far \in Index /\ n \in Ref /\ f = [order EXCEPT ![far][1 - i] = n]
      BY <2>2 DEF SetLink
    <3> HIDE DEF f
    <3>2. f \in [Index -> [Side -> Ref]]
      BY <3>1, <1>1
    <3>3. \A m \in Index : f[m][i] = order[m][i]
      BY <3>1, <1>1
    <3>4. f[far][1 - i] = n /\ \A m \in Index : m # far => f[m][1 - i] = order[m][1 - i]
      BY <3>1, <1>1
    <3> QED  BY <3>2, <3>3, <3>4
  <2> QED  BY <2>1, <2>2
<1>3. O2 = [f EXCEPT ![n] = g, ![p][i] = n] /\ g \in [Side -> Ref] /\ g[i] = far /\ g[1 - i] = p
  BY <1>1
<1> HIDE DEF f, g, Side
<1>4. O2[n] = g /\ O2[p][i] = n /\ O2[p][1 - i] = f[p][1 - i]
  <2> DEFINE h == [f EXCEPT ![n] = g]
  <2>1. h \in [Index -> [Side -> Ref]] /\ h[n] = g /\ h[p] = f[p]
    BY <1>2, <1>3
  <2>2. O2 = [h EXCEPT ![p][i] = n]
    BY <1>3
  <2> HIDE DEF h
  <2>3. O2[n] = g
    BY <2>1, <2>2
  <2>4. O2[p][i] = n
    BY <2>1, <2>2
  <2>5. O2[p][1 - i] = f[p][1 - i]
    BY <2>1, <2>2, <1>1
  <2> QED  BY <2>3, <2>4, <2>5
<1>5. \A m \in Index \ {n, p} : O2[m] = f[m]
  BY <1>2, <1>3
<1>6. far # None => O2[far] = f[far]
  BY <1>5
<1>7. ASSUME NEW m \in Index \ {n}, NEW s \in Side, m # p \/ s # i, m # far \/ s = i
      PROVE  O2[m][s] = order[m][s]
  <2>1. CASE m = p
    <3>1. s = 1 - i /\ m # far
      BY <1>7, <2>1, <1>1
    <3> QED  BY <3>1, <2>1, <1>2, <1>4
  <2>2. CASE m # p
    <3>1. O2[m] = f[m]
      BY <2>2, <1>5
    <3>2. s = i \/ (s = 1 - i /\ m # far)
      BY <1>1, <1>7
    <3> QED  BY <3>1, <3>2, <1>2
  <2> QED  BY <2>1, <2>2
<1>8. O2[n][i] = far /\ O2[n][1 - i] = p /\ O2[p][i] = n
  BY <1>3, <1>4
<1>9. far # None => O2[far][1 - i] = n
  BY <1>2, <1>6
<1> QED  BY <1>7, <1>8, <1>9 DEF HungLinks

(* insert_at of a node that is new or, in insert_node, brings the value    *)
(* and the cumulant it has.                                                *)
HangAny(n) ==
  /\ Hang(n)
  /\ key' = [key EXCEPT ![n] = call.key]
  /\ \A m \in Index \ {n} : val'[m] = val[m] /\ cum'[m] = cum[m]

(* insert hangs a new node.                                                *)
LEMMA InsertHangs == \A n \in Index : TypeOK /\ InsertAt(n) => HangAny(n)
  BY DEF InsertAt, HangAny, TypeOK

(* insert_at: where the search ended is the place of the new key in the    *)
(* tree and in the thread.                                                 *)
LEMMA HangAnyLaws ==
  ASSUME TypeOK, TypeOK', NEW D \in [Ref -> SUBSET Index], NEW rk \in [Index -> Int],
         Laws(D, rk), NEW n \in Index \ Live, HangAny(n)
  PROVE  Spared /\ \E E \in [Ref -> SUBSET Index], s \in [Index -> Int] : Laws(E, s)'
<1>a. PICK A : A = Own(D)
  OBVIOUS
<1>t. PICK t0 : t0 = call.tree
  OBVIOUS
<1>i. PICK i \in Side : i = IF pc = "LeftOf" THEN 0 ELSE 1
  OBVIOUS
<1>p. PICK p : p = ptr
  OBVIOUS
<1>f. PICK far : far = order[p][i]
  OBVIOUS
<1>0. /\ pc \in {"LeftOf", "RightOf"} /\ pc = Frontier(i) /\ pc # "idle" /\ ~Limbo /\ call.op = "insert"
      /\ pc' \in {"fix_insert", "propagate"} /\ call' = call
      /\ pc \notin Unlinked \cup {"unlink"} /\ ~Limbo' /\ pc' \notin Unlinked \cup {"unlink"}
  BY <1>i DEF HangAny, Hang, Limbo, Unlinked, Frontier
<1>1. /\ call \in Call /\ call # None /\ t0 \in Trees /\ A = D[root[t0]]
      /\ call.key \in Keys /\ call.key \in Int
      /\ SearchLaws(A, D) /\ InTree(Hung, parent, child, root, D, t0, A)
  BY <1>0, <1>a, <1>t, OwnCall
<1>2. /\ p \in A /\ child[p][i] = None /\ Before(i, call.key, key[p])
      /\ \A m \in A : Before(i, key[m], key[p]) => Before(i, key[m], call.key)
  BY <1>0, <1>1, <1>p DEF SearchLaws
<1>3. /\ key' = [key EXCEPT ![n] = call.key] /\ parent' = [parent EXCEPT ![n] = p]
      /\ child' = [child EXCEPT ![n] = NoLinks, ![p][i] = n]
      /\ order' = [SetLink(order, far, 1 - i, n)
                     EXCEPT ![n] = [j \in Side |-> IF j = i THEN far ELSE p], ![p][i] = n]
      /\ range' = IF far = None THEN [range EXCEPT ![t0][i] = n] ELSE range
      /\ root' = root /\ node' = n /\ ptr' = n
  BY <1>t, <1>i, <1>p, <1>f DEF HangAny, Hang
<1>4. /\ A \subseteq Hung /\ Hung = Live /\ Live \subseteq Index /\ None \notin Index
      /\ n \notin Live /\ n \notin A /\ p \in Index /\ p \in Live /\ n # p
  BY <1>0, <1>1, <1>2, NoneAssumption, HungLive DEF Hung, InTree
<1>5. Thread(A, order, range[t0], rk)
  BY <1>0, <1>1 DEF Laws, StringLaws, Strung
<1>6. /\ far \in A \cup {None} /\ far # p /\ far # n /\ far \in Ref
  BY <1>2, <1>4, <1>5, <1>f DEF Thread, Before
<1>7. HungLinks(order', i, n, p, far)
  <2>1. order \in [Index -> [Side -> Ref]]
    BY DEF TypeOK
  <2> HIDE DEF Side, Ref
  <2> QED  BY <2>1, <1>3, <1>4, <1>6, HungOrder
<1>8. /\ key'[n] = call.key /\ parent'[n] = p /\ child'[n] = NoLinks /\ child'[p][i] = n
      /\ \A m \in Index \ {n} : key'[m] = key[m] /\ parent'[m] = parent[m]
      /\ \A m \in Index \ {n}, s \in Side : m # p \/ s # i => child'[m][s] = child[m][s]
  BY <1>3, <1>4 DEF TypeOK
<1>9. Live' = Live \cup {n} /\ Hung' = Live'
  <2>1. call.key # None
    BY <1>1, NoneAssumption
  <2>2. Live' = Live \cup {n}
    BY <2>1, <1>8 DEF Live
  <2> QED  BY <2>2, <1>0 DEF Hung
<1>10. PICK s \in [Index -> Int] : s[n] = 2 * call.key /\ \A m \in Index \ {n} : s[m] = rk[m]
  <2>1. 2 * call.key \in Int
    BY <1>1
  <2>2. [rk EXCEPT ![n] = 2 * call.key] \in [Index -> Int]
    BY <2>1
  <2> QED  BY <2>2
<1>11. /\ \A m \in A : rk[m] = 2 * key[m] /\ key[m] \in Int
       /\ Before(i, s[n], rk[p])
       /\ \A m \in A : Before(i, rk[m], rk[p]) => Before(i, rk[m], s[n])
  <2>1. \A m \in A : rk[m] = 2 * key[m] /\ key[m] \in Int
    BY <1>0, <1>4, KeyRank
  <2> QED  BY <2>1, <1>1, <1>2, <1>10 DEF Before
<1>12. PICK L2 : L2 = Hung \cup {n}
  OBVIOUS
<1>13. PICK E \in [Ref -> SUBSET Index] :
          /\ E[None] = {} /\ E[n] = {n}
          /\ \A m \in Hung : p \in D[m] => E[m] = D[m] \cup {n}
          /\ \A m \in Hung : p \notin D[m] => E[m] = D[m]
  <2> DEFINE F == [m \in Ref |-> IF m = None THEN {} ELSE IF m = n THEN {n}
                                  ELSE IF p \in D[m] THEN D[m] \cup {n} ELSE D[m]]
  <2>1. F \in [Ref -> SUBSET Index]
    OBVIOUS
  <2>2. F[None] = {} /\ F[n] = {n}
    BY <1>4
  <2>3. \A m \in Hung : p \in D[m] => F[m] = D[m] \cup {n}
    BY <1>4
  <2>4. \A m \in Hung : p \notin D[m] => F[m] = D[m]
    BY <1>4
  <2> HIDE DEF F
  <2> QED  BY <2>1, <2>2, <2>3, <2>4
<1>14. Shape(L2, parent', child', root, E, s) /\ GrownTree(root, D, root, E, t0, n)
  <2>1. Shape(Hung, parent, child, root, D, rk)
    BY DEF Laws, LinkLaws
  <2>2. /\ parent \in [Index -> Ref] /\ child \in [Index -> [Side -> Ref]]
        /\ root \in [Trees -> Ref] /\ Hung \in SUBSET Index
        /\ parent' \in [Index -> Ref] /\ child' \in [Index -> [Side -> Ref]]
        /\ L2 \in SUBSET Index /\ n \in Index \ Hung
    BY HungLive, <1>4, <1>12 DEF TypeOK
  <2>3. Hanged(Hung, parent, child, A, D, rk, parent', child', E, s, i, n, p)
    <3>1. \A m \in Hung : m \in Index \ {n}
      BY <1>4
    <3> QED  BY <3>1, <1>8, <1>10, <1>11, <1>13 DEF Hanged
  <2>4. Injective(A, rk)
    BY <1>5 DEF Injective, Thread
  <2> HIDE DEF Side, Ref
  <2>5. Shape(L2, parent', child', root, E, s)
    BY <2>1, <2>2, <2>3, <2>4, <1>1, <1>2, <1>12, HangLaws
  <2>6. GrownTree(root, D, root, E, t0, n)
    BY <2>1, <2>2, <2>3, <2>4, <1>1, <1>2, <1>12, HangLaws
  <2> QED  BY <2>5, <2>6
<1>15. Spared
  <2> SUFFICES ASSUME NEW m \in Index \ Live'
               PROVE  parent'[m] = parent[m] /\ child'[m] = child[m] /\ order'[m] = order[m]
    BY DEF Spared
  <2>2. m # n /\ m # p /\ m # far
    BY <1>4, <1>6, <1>9
  <2>3. parent'[m] = parent[m] /\ \A r \in Side : child'[m][r] = child[m][r] /\ order'[m][r] = order[m][r]
    BY <2>2, <1>7, <1>8 DEF HungLinks
  <2>4. child'[m] = child[m] /\ order'[m] = order[m]
    <3>1. /\ child[m] \in [Side -> Ref] /\ child'[m] \in [Side -> Ref]
          /\ order[m] \in [Side -> Ref] /\ order'[m] \in [Side -> Ref]
      BY DEF TypeOK
    <3> QED  BY <3>1, <2>3
  <2> QED  BY <2>3, <2>4
<1>16. LinkLaws(E, s)'
  <2>1. L2 = Hung'
    BY <1>4, <1>9, <1>12
  <2> QED  BY <2>1, <1>3, <1>14 DEF LinkLaws
<1>17. RankLaws(s)'
  <2> SUFFICES ASSUME NEW m \in Live' PROVE s[m] = Rank(m)'
    BY DEF RankLaws
  <2>1. Rank(m)' = 2 * key'[m]
    BY <1>0 DEF Rank
  <2>2. CASE m = n
    BY <2>1, <2>2, <1>8, <1>10
  <2>3. CASE m # n
    <3>1. m \in Live /\ m \in Index
      BY <2>3, <1>4, <1>9
    <3>2. rk[m] = 2 * key[m]
      BY <3>1, <1>0, KeyRank
    <3> QED  BY <2>1, <2>3, <3>1, <3>2, <1>8, <1>10
  <2> QED  BY <2>2, <2>3
<1>18. StringLaws(E, s)'
  <2> SUFFICES ASSUME NEW t \in Trees PROVE Thread(E[root[t]], order', range'[t], s)
    BY <1>0, <1>3 DEF StringLaws, Strung
  <2>1. CASE t = t0
    <3>1. E[root[t]] = A \cup {n}
      BY <2>1, <1>1, <1>14 DEF GrownTree
    <3>2. Hooked(A, order, range[t0], rk, order', range'[t0], s, i, n, p)
      <4>1. range'[t0][i] = (IF far = None THEN n ELSE range[t0][i]) /\ range'[t0][1 - i] = range[t0][1 - i]
        BY <1>1, <1>3 DEF TypeOK
      <4>2. \A m \in A : m \in Index \ {n}
        BY <1>4
      <4>3. \A m \in A : s[m] = rk[m]
        BY <4>2, <1>10
      <4> HIDE DEF Side
      <4> QED  BY <4>1, <4>2, <4>3, <1>7, <1>11, <1>f DEF Hooked, HungLinks
    <3>3. /\ A \in SUBSET Index /\ order \in [Index -> [Side -> Ref]]
          /\ order' \in [Index -> [Side -> Ref]] /\ range[t0] \in [Side -> Ref]
          /\ range'[t0] \in [Side -> Ref] /\ n \in Index \ A
      BY <1>1, <1>4 DEF TypeOK
    <3>4. Thread(A \cup {n}, order', range'[t0], s)
      <4> HIDE DEF Side, Ref
      <4> QED  BY <3>2, <3>3, <1>2, <1>5, HangThread
    <3> QED  BY <2>1, <3>1, <3>4
  <2>2. CASE t # t0
    <3>1. E[root[t]] = D[root[t]] /\ range'[t] = range[t]
      BY <2>2, <1>1, <1>3, <1>14 DEF GrownTree, TypeOK
    <3>2. D[root[t]] \subseteq Hung /\ D[root[t]] \cap A = {}
      <4>1. InTree(Hung, parent, child, root, D, t, D[root[t]])
        BY OwnTree
      <4> QED  BY <4>1, <2>2, <1>1 DEF InTree
    <3>3. \A m \in D[root[t]] : m \in Index \ {n} /\ m # p /\ m # far
      BY <3>2, <1>2, <1>4, <1>6
    <3>4. SameThread(D[root[t]], order, range[t], rk, order', range[t], s)
      BY <3>3, <1>7, <1>10 DEF SameThread, HungLinks
    <3>5. Thread(D[root[t]], order, range[t], rk)
      BY <1>0 DEF Laws, StringLaws, Strung
    <3> QED  BY <3>1, <3>4, <3>5, ThreadSame
  <2> QED  BY <2>1, <2>2
<1>19. CallLaws'
  BY <1>0, <1>1 DEF CallLaws, RemoveStep, FixRemoveStep
<1>20. SearchLaws(Own(E), E)'
  BY <1>0 DEF SearchLaws, Frontier
<1>21. Own(E)' = A \cup {n}
  <2>1. E[root[t0]] = A \cup {n}
    BY <1>1, <1>14 DEF GrownTree
  <2> QED  BY <2>1, <1>0, <1>1, <1>3, <1>t DEF Own
<1>22. UpdateLaws(Own(E))'
  BY <1>0, <1>3, <1>8, <1>21
  DEF UpdateLaws, Removing, FixRemoveStep, Unlinked
<1>23. Laws(E, s)'
  BY <1>16, <1>17, <1>18, <1>19, <1>20, <1>22 DEF Laws, CursorLaws
<1> QED  BY <1>15, <1>23

-----------------------------------------------------------------------------
(* Every step keeps the laws, for ghosts that it may have to rebuild.      *)
LEMMA StepLaws ==
  ASSUME TypeOK, TypeOK', NEW D \in [Ref -> SUBSET Index], NEW rk \in [Index -> Int],
         Laws(D, rk), [Next]_vars
  PROVE  \E E \in [Ref -> SUBSET Index], s \in [Index -> Int] : Laws(E, s)'
<1>1. ASSUME NEW t \in Trees, NEW k \in Keys, NEW v \in Values, CallOp("insert", t, k, v)
      PROVE  Laws(D, rk)'
  BY <1>1, CallOpLaws
<1>2. ASSUME NEW t \in Trees, NEW k \in Keys, NEW op \in Op \ {"insert"}, CallOp(op, t, k, None)
      PROVE  Laws(D, rk)'
  BY <1>2, CallOpLaws
<1>3. CASE Relink
  <2>1. CASE Descend
    BY <2>1, DescendLaws
  <2>2. CASE FixInsertDone \/ FixInsertRecolor \/ Blacken
    BY <2>2, FixInsertStillLaws
  <2>3. CASE FixInsertInner \/ FixInsertOuter
    BY <2>3, InsertRotateLaws
  <2>4. CASE Propagate
    BY <2>4, PropagateLaws
  <2>5. CASE RemoveHere
    <3>1. CASE \A i \in Side : child[ptr][i] # None
      <4>1. \E s \in [Index -> Int] : Laws(D, s)'
        <5> HIDE DEF Side
        <5> QED  BY <2>5, <3>1, RemoveSwapLaws
      <4> QED  BY <4>1
    <3>2. CASE ~\A i \in Side : child[ptr][i] # None
      <4>1. Laws(D, rk)'
        <5> HIDE DEF Side
        <5> QED  BY <2>5, <3>2, RemovePlainLaws
      <4> QED  BY <4>1
    <3> QED  BY <3>1, <3>2
  <2>6. CASE (\E i \in Side : UnlinkOneChild(i)) \/ UnlinkLeaf
    <3>1. \E E \in [Ref -> SUBSET Index] : Laws(E, rk)'
      <4> HIDE DEF Side
      <4> QED  BY <2>6, UnlinkNodeLaws
    <3> QED  BY <3>1
  <2>7. CASE UnlinkLast
    BY <2>7, UnlinkLastLaws
  <2>8. CASE FixRemoveRedSibling \/ FixRemoveCloseNephew \/ FixRemoveFarNephew
    BY <2>8, RemoveRotateLaws
  <2>9. CASE FixRemoveRecolor
    BY <2>9, FixRemoveRecolorLaws
  <2>10. CASE Unthread
    BY <2>10, UnthreadLaws
  <2> HIDE DEF Side
  <2> QED  BY <1>3, <2>1, <2>2, <2>3, <2>4, <2>5, <2>6, <2>7, <2>8, <2>9, <2>10 DEF Relink
<1>4. CASE Get \/ Search \/ InsertHere \/ RemoveMiss
  BY <1>4, AnswerLaws
<1>5. ASSUME NEW n \in Index \ Live, InsertEmpty(n)
      PROVE  \E E \in [Ref -> SUBSET Index], s \in [Index -> Int] : Laws(E, s)'
  BY <1>5, InsertEmptyLaws
<1>6. ASSUME NEW n \in Index \ Live, InsertAt(n)
      PROVE  \E E \in [Ref -> SUBSET Index], s \in [Index -> Int] : Laws(E, s)'
  BY <1>6, InsertHangs, HangAnyLaws
<1>7. CASE Free
  BY <1>7, FreeIsAny, FreeLaws
<1>8. CASE UNCHANGED vars
  BY <1>8, StutterLaws
<1> QED  BY <1>1, <1>2, <1>3, <1>4, <1>5, <1>6, <1>7, <1>8 DEF Next, Step

(* A step that rewires only the tree it is called for leaves the slots     *)
(* alone that are free.                                                    *)
LEMMA KeptSpared ==
  ASSUME TypeOK, NEW D \in [Ref -> SUBSET Index], NEW rk \in [Index -> Int], Laws(D, rk),
         pc # "idle", Kept(D[root[call.tree]]), UNCHANGED order
  PROVE  Spared
<1>1. D[root[call.tree]] \subseteq Live
  BY OwnCall, OwnTree, HungLive DEF InTree
<1> QED  BY <1>1 DEF Kept, Spared

(* Every step leaves the links of slots alone that are free and stay so, ...*)
LEMMA StepSpared ==
  ASSUME TypeOK, TypeOK', NEW D \in [Ref -> SUBSET Index], NEW rk \in [Index -> Int],
         Laws(D, rk), [Next]_vars
  PROVE  Spared
<1>1. ASSUME UNCHANGED <<links, order>> PROVE Spared
  BY <1>1 DEF Spared, links
<1>2. ASSUME NEW op, NEW t, NEW k, NEW v, CallOp(op, t, k, v) PROVE Spared
  BY <1>1, <1>2 DEF CallOp
<1>3. CASE Relink
  <2>1. CASE \/ Descend \/ FixInsertDone \/ FixInsertRecolor \/ Blacken \/ Propagate
             \/ RemoveHere \/ UnlinkLast \/ FixRemoveRecolor
    BY <2>1, <1>1
    DEF Descend, FixInsertDone, FixInsertRecolor, Blacken, Propagate, RemoveHere, UnlinkLast,
        FixRemoveRecolor
  <2>2. CASE FixInsertInner \/ FixInsertOuter
    <3>1. UNCHANGED order /\ pc # "idle"
      BY <2>2 DEF FixInsertInner, FixInsertOuter, RedParent
    <3> QED  BY <2>2, <3>1, InsertRotateLaws, KeptSpared
  <2>3. CASE FixRemoveRedSibling \/ FixRemoveCloseNephew \/ FixRemoveFarNephew
    <3>1. UNCHANGED order /\ pc # "idle"
      BY <2>3 DEF FixRemoveRedSibling, FixRemoveCloseNephew, FixRemoveFarNephew, AtBlackSibling
    <3> QED  BY <2>3, <3>1, RemoveRotateLaws, KeptSpared
  <2>4. CASE (\E i \in Side : UnlinkOneChild(i)) \/ UnlinkLeaf
    <3>1. UNCHANGED order /\ pc # "idle"
      BY <2>4 DEF UnlinkOneChild, UnlinkLeaf
    <3>2. Kept(D[root[call.tree]])
      <4> HIDE DEF Side
      <4> QED  BY <2>4, UnlinkNodeLaws
    <3> QED  BY <3>1, <3>2, KeptSpared
  <2>5. CASE Unthread
    BY <2>5, UnthreadLaws
  <2> HIDE DEF Side
  <2> QED  BY <1>3, <2>1, <2>2, <2>3, <2>4, <2>5 DEF Relink
<1>4. CASE Get \/ Search \/ InsertHere \/ RemoveMiss
  BY <1>1, <1>4 DEF Get, Search, InsertHere, RemoveMiss
<1>5. ASSUME NEW n \in Index \ Live, InsertEmpty(n) PROVE Spared
  <2>1. key'[n] # None
    <3>1. call.key \in Keys
      BY <1>5, OwnCall DEF InsertEmpty
    <3> QED  BY <1>5, <3>1, NoneAssumption DEF InsertEmpty, TypeOK
  <2> QED  BY <1>5, <2>1 DEF InsertEmpty, Spared, Live, TypeOK
<1>6. ASSUME NEW n \in Index \ Live, InsertAt(n) PROVE Spared
  BY <1>6, InsertHangs, HangAnyLaws
<1>7. CASE Free
  <2>1. node \in Live
    BY <1>7, OwnCall DEF Free, UpdateLaws, Limbo
  <2>2. \A m \in Index \ Live :
          parent'[m] = parent[m] /\ child'[m] = child[m] /\ order'[m] = order[m]
    BY <1>7, <2>1, FreeIsAny DEF FreeAny
  <2> QED  BY <2>2 DEF Spared
<1>8. CASE UNCHANGED vars
  BY <1>1, <1>8 DEF vars, links
<1> QED  BY <1>2, <1>3, <1>4, <1>5, <1>6, <1>7, <1>8 DEF Next, Step

(* ... and blanks the slot it frees.                                       *)
LEMMA StepBlank ==
  ASSUME TypeOK, TypeOK', NEW D \in [Ref -> SUBSET Index], NEW rk \in [Index -> Int],
         Laws(D, rk), [Next]_vars, FreeSlotsBlank
  PROVE  FreeSlotsBlank'
<1> SUFFICES ASSUME NEW m \in Index \ Live'
             PROVE  child'[m] = NoLinks /\ order'[m] = NoLinks /\ parent'[m] = None
  BY DEF FreeSlotsBlank
<1>1. CASE m \notin Live
  BY <1>1, StepSpared DEF Spared, FreeSlotsBlank
<1>2. CASE m \in Live
  <2>1. m \in Index /\ key[m] # None /\ key'[m] = None
    BY <1>2 DEF Live
  <2>2. Free
    <3>1. key' # key
      BY <2>1
    <3>2. ~RemoveHere
      <4>1. ASSUME RemoveHere, NEW n \in Index, n = order[ptr][1], \A i \in Side : child[ptr][i] # None
            PROVE  FALSE
        <5>1. key' = Swapped(key, ptr, n) /\ ptr \in Live /\ ptr \in Index
          BY <4>1, OwnCall, HungLive DEF RemoveHere, SearchLaws, InTree
        <5>2. key'[ptr] = key[n] /\ key'[n] = key[ptr] /\ \A x \in Index \ {ptr, n} : key'[x] = key[x]
          BY <5>1, <4>1 DEF Swapped, TypeOK
        <5>3. m = ptr
          BY <5>1, <5>2, <2>1 DEF Live
        <5>4. n \in Live
          <6>1. pc = "Here" /\ pc \notin Unlinked /\ pc # "idle"
            BY <4>1 DEF RemoveHere, Unlinked
          <6>2. call.tree \in Trees /\ ptr \in D[root[call.tree]]
            BY <6>1, OwnCall DEF SearchLaws
          <6>3. Thread(D[root[call.tree]], order, range[call.tree], rk)
            BY <6>1, <6>2 DEF Laws, StringLaws, Strung
          <6>4. n \in D[root[call.tree]]
            BY <6>2, <6>3, <4>1, NoneAssumption DEF Thread
          <6> QED  BY <6>2, <6>4, OwnTree, HungLive DEF InTree
        <5> QED  BY <5>2, <5>3, <5>4, <2>1 DEF Live
      <4> QED  BY <3>1, <4>1 DEF RemoveHere, data, TypeOK
    <3>3. ASSUME NEW n \in Index \ Live, key' = [key EXCEPT ![n] = call.key]
          PROVE  FALSE
      BY <3>3, <2>1, <1>2 DEF TypeOK, Live
    <3>4. ASSUME UNCHANGED key PROVE FALSE
      BY <3>1, <3>4
    <3>5. ~Relink
      BY <3>2, <3>4
      DEF Relink, Descend, FixInsertDone, FixInsertRecolor, FixInsertInner, FixInsertOuter,
          Blacken, Propagate, UnlinkOneChild, UnlinkLeaf, UnlinkLast, FixRemoveRedSibling,
          FixRemoveCloseNephew, FixRemoveFarNephew, FixRemoveRecolor, Unthread, data
    <3>6. ~(Get \/ Search \/ InsertHere \/ RemoveMiss)
      BY <3>4 DEF Get, Search, InsertHere, RemoveMiss, data
    <3>7. \A n \in Index \ Live : ~InsertEmpty(n) /\ ~InsertAt(n)
      BY <3>3 DEF InsertEmpty, InsertAt
    <3>8. \A op, t, k, v : ~CallOp(op, t, k, v)
      BY <3>4 DEF CallOp, data
    <3>9. ~UNCHANGED vars
      BY <3>4 DEF vars
    <3> HIDE DEF Side
    <3> QED  BY <3>5, <3>6, <3>7, <3>8, <3>9 DEF Next, Step
  <2>3. m = node
    BY <2>1, <2>2, FreeIsAny DEF FreeAny, TypeOK
  <2> QED  BY <2>1, <2>2, <2>3 DEF Free, TypeOK
<1> QED  BY <1>1, <1>2

(* At every step of every call on any tree the nodes hang in sorted,       *)
(* threaded search trees and the registers are where the loops of the code *)
(* expect them: the invariant that the other theorems read their property  *)
(* off.                                                                    *)
THEOREM LawsCorrect == Spec => [](TypeOK /\ FreeSlotsBlank /\ LawsHold)
<1>1. Init => TypeOK /\ FreeSlotsBlank /\ LawsHold
  BY InitType, InitLaws DEF Init, FreeSlotsBlank
<1>2. TypeOK /\ FreeSlotsBlank /\ LawsHold /\ [Next]_vars =>
        (TypeOK /\ FreeSlotsBlank /\ LawsHold)'
  <2> SUFFICES ASSUME TypeOK, FreeSlotsBlank, LawsHold, [Next]_vars
               PROVE  TypeOK' /\ FreeSlotsBlank' /\ LawsHold'
    OBVIOUS
  <2>1. TypeOK'
    BY NextType
  <2>2. PICK D \in [Ref -> SUBSET Index], rk \in [Index -> Int] : Laws(D, rk)
    BY DEF LawsHold
  <2>3. \E E \in [Ref -> SUBSET Index], s \in [Index -> Int] : Laws(E, s)'
    BY <2>1, <2>2, StepLaws
  <2>4. FreeSlotsBlank'
    BY <2>1, <2>2, StepBlank
  <2> QED  BY <2>1, <2>3, <2>4 DEF LawsHold
<1> QED  BY <1>1, <1>2, PTL DEF Spec

-----------------------------------------------------------------------------
(* The nodes TLC finds from the root are the ghost ones; ...               *)
LEMMA AttachedIs ==
  ASSUME TypeOK, NEW D \in [Ref -> SUBSET Index], NEW rk \in [Index -> Int], Laws(D, rk),
         NEW t \in Trees
  PROVE  Attached(t) = D[root[t]]
<1>1. InTree(Hung, parent, child, root, D, t, D[root[t]])
  BY OwnTree
<1>2. CASE root[t] = None
  BY <1>1, <1>2, SubtreeNone DEF InTree, Attached
<1>3. CASE root[t] # None
  <2>1. root[t] \in Hung
    BY <1>1, <1>3 DEF InTree
  <2>2. Shape(Hung, parent, child, root, D, rk) /\ Hung \in SUBSET Index
    BY HungLive DEF Laws, LinkLaws
  <2>3. Subtree(root[t]) = D[root[t]]
    BY <2>1, <2>2, SubtreeIs
  <2> QED  BY <2>3 DEF Attached
<1> QED  BY <1>2, <1>3

(* ... and so are those on the thread.                                     *)
LEMMA ThreadsIs ==
  ASSUME TypeOK, NEW D \in [Ref -> SUBSET Index], NEW rk \in [Index -> Int], Laws(D, rk),
         NEW t \in Trees
  PROVE  Threads(t) = Strung(D, t) /\ Strung(D, t) \subseteq Live
<1>1. Attached(t) = D[root[t]]
  BY AttachedIs
<1>2. pc \in Unlinked => call # None /\ node \in Live
  <2>1. SUFFICES ASSUME pc \in Unlinked PROVE call # None /\ node \in Live
    OBVIOUS
  <2>2. pc # "idle" /\ Limbo
    BY <2>1 DEF Unlinked, Limbo
  <2>3. call # None /\ UpdateLaws(Own(D))
    BY <2>2, OwnCall
  <2> QED  BY <2>2, <2>3 DEF UpdateLaws
<1>3. D[root[t]] \subseteq Live
  <2>1. D[root[t]] \subseteq Hung
    BY OwnTree DEF InTree
  <2> QED  BY <2>1, HungLive
<1> QED  BY <1>1, <1>2, <1>3 DEF Threads, Strung

(* What Threaded says follows from the laws.                               *)
LEMMA LawsThreaded ==
  ASSUME TypeOK, LawsHold
  PROVE  Threaded
<1>1. PICK D \in [Ref -> SUBSET Index], rk \in [Index -> Int] : Laws(D, rk)
  BY DEF LawsHold
<1> SUFFICES ASSUME NEW t \in Trees
    PROVE LET T == Threads(t)
              rank == [n \in T |-> Rank(n)]
              B(i, n, m) == IF i = 0 THEN rank[n] < rank[m] ELSE rank[m] < rank[n]
              Beyond(i, n) == {m \in T : B(i, m, n)}
          IN  /\ \A n \in T, i \in Side :
                   IF order[n][i] = None
                   THEN Beyond(i, n) = {}
                   ELSE /\ order[n][i] \in T /\ B(i, order[n][i], n)
                        /\ \A m \in Beyond(i, n) : ~B(i, order[n][i], m)
              /\ \A i \in Side :
                   IF T = {} THEN range[t][i] = None
                   ELSE range[t][i] \in T /\ order[range[t][i]][i] = None
              /\ \A n \in Attached(t), i \in Side :
                   \A m \in Subtree(child[n][i]) : B(i, m, n)
  BY DEF Threaded
<1> DEFINE T == Threads(t)
           rank == [n \in T |-> Rank(n)]
           B(i, n, m) == IF i = 0 THEN rank[n] < rank[m] ELSE rank[m] < rank[n]
           Beyond(i, n) == {m \in T : B(i, m, n)}
<1>2. T = Strung(D, t) /\ T \subseteq Live /\ Attached(t) = D[root[t]] /\ Attached(t) \subseteq T
  BY <1>1, ThreadsIs, AttachedIs DEF Threads
<1>3. \A n \in T : rank[n] = rk[n]
  BY <1>1, <1>2 DEF Laws, RankLaws
<1>4. Thread(T, order, range[t], rk)
  BY <1>1, <1>2 DEF Laws, StringLaws
<1>5. ASSUME NEW i \in Side, NEW n \in T, NEW m \in T
      PROVE  B(i, n, m) <=> Before(i, rk[n], rk[m])
  BY <1>3 DEF Before
<1> HIDE DEF T, rank, B
<1>6. ASSUME NEW n \in T, NEW i \in Side
      PROVE  IF order[n][i] = None
             THEN Beyond(i, n) = {}
             ELSE /\ order[n][i] \in T /\ B(i, order[n][i], n)
                  /\ \A m \in Beyond(i, n) : ~B(i, order[n][i], m)
  <2>1. CASE order[n][i] = None
    <3>1. \A m \in T : ~Before(i, rk[m], rk[n])
      BY <2>1, <1>4 DEF Thread
    <3>2. \A m \in T : ~B(i, m, n)
      BY <3>1, <1>5
    <3> QED  BY <2>1, <3>2
  <2>2. CASE order[n][i] # None
    <3>1. order[n][i] \in T /\ Before(i, rk[order[n][i]], rk[n])
      BY <2>2, <1>4 DEF Thread
    <3>2. \A m \in T : Before(i, rk[m], rk[n]) => ~Before(i, rk[order[n][i]], rk[m])
      BY <2>2, <1>4 DEF Thread
    <3> QED  BY <2>2, <3>1, <3>2, <1>5
  <2> QED  BY <2>1, <2>2
<1>7. \A i \in Side :
        IF T = {} THEN range[t][i] = None
        ELSE range[t][i] \in T /\ order[range[t][i]][i] = None
  BY <1>4 DEF Thread
<1>8. ASSUME NEW n \in Attached(t), NEW i \in Side, NEW m \in Subtree(child[n][i])
      PROVE  B(i, m, n)
  <2>1. n \in T /\ n \in D[root[t]] /\ n \in Hung /\ n \in Index
    <3>1. D[root[t]] \subseteq Hung
      BY <1>1, OwnTree DEF InTree
    <3> QED  BY <3>1, <1>2, HungLive
  <2>2. child[n][i] # None
    BY <1>8, SubtreeNone
  <2>3. child[n][i] \in D[root[t]] /\ child[n][i] \in Hung
    <3>1. InTree(Hung, parent, child, root, D, t, D[root[t]])
      BY <1>1, OwnTree
    <3> QED  BY <3>1, <2>1, <2>2 DEF InTree
  <2>4. Subtree(child[n][i]) = D[child[n][i]]
    <3>1. Shape(Hung, parent, child, root, D, rk) /\ Hung \in SUBSET Index
      BY <1>1, HungLive DEF Laws, LinkLaws
    <3> QED  BY <3>1, <2>3, SubtreeIs
  <2>5. m \in T
    <3>1. D[child[n][i]] \subseteq D[root[t]]
      BY <1>1, <2>3, OwnTree DEF InTree
    <3> QED  BY <3>1, <2>4, <1>2
  <2>6. Before(i, rk[m], rk[n])
    BY <1>1, <2>1, <2>4 DEF Laws, LinkLaws, Shape, Sorted
  <2> QED  BY <2>1, <2>5, <2>6, <1>5
<1> QED  BY <1>6, <1>7, <1>8 DEF T, rank, B

(* What LinksAgree says follows from the laws.                             *)
LEMMA LawsLinks ==
  ASSUME TypeOK, LawsHold
  PROVE  ChildrenAgree(Hung) /\ ParentsAgree(Hung) /\ RootsAgree(Hung) /\ Acyclic(Hung)
<1>1. PICK D \in [Ref -> SUBSET Index], rk \in [Index -> Int] : Laws(D, rk)
  BY DEF LawsHold
<1>3. /\ Linked(Hung, parent, child) /\ NoCycle(Hung, parent)
      /\ Descends(Hung, parent, child, D) /\ Rooted(Hung, parent, root, D)
  BY <1>1 DEF Laws, LinkLaws, Shape
<1>4. ChildrenAgree(Hung)
  <2> SUFFICES ASSUME NEW n \in Hung, NEW i \in Side, child[n][i] # None
               PROVE  child[n][i] \in Hung /\ parent[child[n][i]] = n /\ child[n][1 - i] # child[n][i]
    BY DEF ChildrenAgree
  <2>1. child[n][i] \in Hung /\ parent[child[n][i]] = n
    BY <1>3 DEF Linked
  <2>2. Apart(parent, child, D, n)
    BY <1>1, OwnApart
  <2>3. 1 - i \in Side /\ i # 1 - i
    OBVIOUS
  <2>4. child[n][1 - i] # child[n][i]
    BY <2>2, <2>3 DEF Apart
  <2> QED  BY <2>1, <2>4
<1>5. ParentsAgree(Hung)
  <2> SUFFICES ASSUME NEW n \in Hung
               PROVE  IF parent[n] = None
                      THEN \E t \in Trees : root[t] = n
                      ELSE parent[n] \in Hung /\ \E i \in Side : child[parent[n]][i] = n
    BY DEF ParentsAgree
  <2>1. CASE parent[n] = None
    <3>1. PICK t \in Trees : n \in D[root[t]]
      BY <1>3 DEF Rooted
    <3>2. n = root[t]
      BY <2>1, <3>1, <1>1, OwnTree DEF InTree
    <3> QED  BY <2>1, <3>2
  <2>2. CASE parent[n] # None
    BY <2>2, <1>3 DEF Linked
  <2> QED  BY <2>1, <2>2
<1>6. RootsAgree(Hung)
  <2>1. \A t \in Trees : root[t] # None => root[t] \in Hung /\ parent[root[t]] = None
    BY <1>3 DEF Rooted
  <2>2. ASSUME NEW t \in Trees, NEW u \in Trees, root[t] = root[u], root[t] # None PROVE t = u
    <3>1. root[u] \in D[root[u]] /\ root[t] \in D[root[t]]
      BY <2>2, <1>1, OwnTree DEF InTree
    <3> QED  BY <2>2, <3>1, <1>3 DEF Rooted
  <2> QED  BY <2>1, <2>2 DEF RootsAgree
<1>7. Acyclic(Hung)
  BY <1>3, HungLive, PathEnds DEF Acyclic
<1> QED  BY <1>4, <1>5, <1>6, <1>7

LEMMA LawsLinksAgree ==
  ASSUME TypeOK, FreeSlotsBlank, LawsHold
  PROVE  LinksAgree
<1>1. {n \in Live : ~InLimbo(n)} = Hung
  BY DEF InLimbo, Hung, Limbo
<1> QED  BY <1>1, LawsLinks DEF LinksAgree, LinksAgreeOn

(* `replace`, `rotate` and the unlinking of remove_at leave no dangling,   *)
(* one-sided or shared link in any tree, at every step of a call and for   *)
(* forests of any size.                                                    *)
THEOREM LinksCorrect == Spec => []LinksAgree
<1>1. TypeOK /\ FreeSlotsBlank /\ LawsHold => LinksAgree
  BY LawsLinksAgree
<1> QED  BY <1>1, LawsCorrect, PTL

(* Every tree is a search tree whose previous / next thread is its in-order*)
(* sequence and whose range is its ends, at every step of a call, also     *)
(* while remove_at has two nodes trade keys.                               *)
THEOREM ThreadCorrect == Spec => []Threaded
<1>1. TypeOK /\ LawsHold => Threaded
  BY LawsThreaded
<1> QED  BY <1>1, LawsCorrect, PTL

-----------------------------------------------------------------------------
(* What a call on one tree does to its map, and to the other trees: the    *)
(* trees of a forest implement OrderedMap, each for itself.                *)
HIDE DEF Color, PC, SearchResult, InsertStep, RemoveStep, FixRemoveStep

(* The nodes of the other trees stay as they are ...                       *)
NodesKept(A) == \A m \in Hung \ A : SameNode(m)
(* ... and so do their bounds.                                             *)
BoundsKept ==
  \A t \in Trees : t # call.tree =>
    root'[t] = root[t] /\ range'[t] = range[t] /\ black_height'[t] = black_height[t]

(* A rotation within a tree rewires and updates nodes of that tree.        *)
LEMMA RotateKept ==
  ASSUME TypeOK, TypeOK', call \in Call, NEW A, NEW D,
         InTree(Hung, parent, child, root, D, call.tree, A),
         NEW i \in Side, NEW n \in A, Rotate(i, n)
  PROVE  /\ \A m \in Hung \ A : parent'[m] = parent[m] /\ child'[m] = child[m] /\ cum'[m] = cum[m]
         /\ \A t \in Trees : t # call.tree => root'[t] = root[t]
<1> DEFINE pivot == child[n][1 - i]
           inner == child[pivot][i]
           top == parent[n]
           side == SideOf(top, n)
<1>1. /\ pivot # None
      /\ parent' = SetAt([ReplacedParent(n, pivot) EXCEPT ![n] = pivot], inner, n)
      /\ child' = [ReplacedChild(n, pivot) EXCEPT ![pivot][i] = n, ![n][1 - i] = inner]
      /\ root' = ReplacedRoot(n, pivot)
      /\ cum' = LoweredCumulant(n, child'[n])
  BY DEF Rotate
<1>2. 1 - i \in Side
  OBVIOUS
<1>3. n \in Index /\ Hung \in SUBSET Index /\ A \subseteq Hung
  BY HungLive DEF InTree
<1>4. pivot \in A /\ inner \in A \cup {None} /\ top \in A \cup {None}
  BY <1>1, <1>2 DEF InTree
<1>5. /\ parent \in [Index -> Ref] /\ child \in [Index -> [Side -> Ref]]
      /\ root \in [Trees -> Ref] /\ cum \in [Index -> Cumulants]
  BY DEF TypeOK
<1>6. ASSUME NEW m \in Hung \ A PROVE parent'[m] = parent[m]
  BY <1>1, <1>3, <1>4, <1>5 DEF SetAt, ReplacedParent
<1>7. ASSUME NEW m \in Hung \ A PROVE child'[m] = child[m]
  <2> DEFINE L2 == ReplacedChild(n, pivot)
  <2>1. L2 = IF top = None THEN child ELSE [child EXCEPT ![top][side] = pivot]
    BY DEF ReplacedChild, SetLink
  <2>2. m # top /\ m # pivot /\ m # n /\ m \in Index
    BY <1>3, <1>4, NoneAssumption
  <2>3. L2[m] = child[m] /\ DOMAIN L2 = Index
    BY <2>1, <2>2, <1>5
  <2>4. child' = [L2 EXCEPT ![pivot][i] = n, ![n][1 - i] = inner]
    BY <1>1
  <2> HIDE DEF L2
  <2> QED  BY <2>2, <2>3, <2>4
<1>8. ASSUME NEW m \in Hung \ A PROVE cum'[m] = cum[m]
  BY <1>1, <1>3, <1>5 DEF LoweredCumulant
<1>9. ASSUME NEW t \in Trees, t # call.tree PROVE root'[t] = root[t]
  BY <1>1, <1>5, <1>9 DEF ReplacedRoot
<1> QED  BY <1>6, <1>7, <1>8, <1>9

(* The calls and steps that touch no node, or only the one they found.     *)
LEMMA QuietKept ==
  ASSUME TypeOK, TypeOK', NEW D \in [Ref -> SUBSET Index], NEW rk \in [Index -> Int],
         Laws(D, rk), pc # "idle",
         \/ Descend \/ FixInsertDone \/ Propagate \/ Get \/ Search \/ RemoveMiss
         \/ InsertHere \/ UNCHANGED vars
  PROVE  NodesKept(Own(D)) /\ BoundsKept
<1>1. SearchLaws(Own(D), D) /\ UpdateLaws(Own(D))
  BY OwnCall
<1>2. UNCHANGED <<key, color, parent, child, order, root, range, black_height>>
  BY DEF Descend, FixInsertDone, Propagate, Get, Search, RemoveMiss, InsertHere,
         vars, data, links, bounds
<1>3. ASSUME NEW m \in Hung \ Own(D) PROVE val'[m] = val[m] /\ cum'[m] = cum[m]
  <2>1. CASE Propagate
    <3>1. UNCHANGED val /\ m \in Index /\ ptr \in Own(D) \cup {None}
      BY <2>1, <1>1, HungLive DEF Propagate, data, UpdateLaws
    <3> QED  BY <2>1, <3>1 DEF Propagate, TypeOK
  <2>2. CASE InsertHere
    <3>1. m \in Index /\ ptr \in Own(D)
      BY <2>2, <1>1, HungLive DEF InsertHere, SearchLaws
    <3> QED  BY <2>2, <3>1 DEF InsertHere, TypeOK
  <2>3. CASE ~Propagate /\ ~InsertHere
    BY <2>3 DEF Descend, FixInsertDone, Get, Search, RemoveMiss, vars, data
  <2> QED  BY <2>1, <2>2, <2>3
<1> QED  BY <1>2, <1>3 DEF NodesKept, BoundsKept, SameNode

(* Recoloring stays in the tree.                                           *)
LEMMA RecolorKept ==
  ASSUME TypeOK, TypeOK', NEW D \in [Ref -> SUBSET Index], NEW rk \in [Index -> Int],
         Laws(D, rk), FixInsertRecolor \/ Blacken \/ FixRemoveRecolor
  PROVE  NodesKept(Own(D)) /\ BoundsKept
<1>a. PICK A : A = Own(D)
  OBVIOUS
<1>0. pc # "idle"
  BY DEF FixInsertRecolor, Blacken, FixRemoveRecolor, RedParent, AtBlackSibling
<1>1. /\ SearchLaws(A, D) /\ UpdateLaws(A)
      /\ InTree(Hung, parent, child, root, D, call.tree, A)
  BY <1>0, <1>a, OwnCall
<1>2. UNCHANGED <<key, val, cum, parent, child, order, root, range>>
  BY DEF FixInsertRecolor, Blacken, FixRemoveRecolor, data, links, bounds
<1>3. ASSUME NEW m \in Hung \ A PROVE color'[m] = color[m]
  <2>0. m \in Index /\ color \in [Index -> Color]
    BY HungLive DEF TypeOK
  <2>1. CASE FixInsertRecolor
    <3>1. /\ ptr \in A /\ parent[ptr] # None /\ Grandparent # None /\ Uncle # None
      BY <2>1, <1>1 DEF FixInsertRecolor, RedParent, IsRed, UpdateLaws
    <3>2. parent[ptr] \in A /\ Grandparent \in A /\ UncleSide \in Side
      BY <3>1, <1>1 DEF InTree, Grandparent, UncleSide, SideOf
    <3>3. Uncle \in A
      BY <3>1, <3>2, <1>1 DEF InTree, Uncle
    <3>4. color' = [color EXCEPT ![Uncle] = "Black", ![parent[ptr]] = "Black",
                                 ![Grandparent] = "Red"]
      BY <2>1 DEF FixInsertRecolor
    <3> QED  BY <2>0, <3>2, <3>3, <3>4
  <2>2. CASE Blacken
    <3>1. root[call.tree] \in A
      BY <2>2, <1>1 DEF Blacken, InTree
    <3> QED  BY <2>0, <2>2, <3>1 DEF Blacken
  <2>3. CASE FixRemoveRecolor
    <3>1. par \in A /\ Sibling # None /\ 1 - dir \in Side
      BY <2>3, <1>1 DEF FixRemoveRecolor, AtBlackSibling, UpdateLaws, FixRemoveStep, TypeOK
    <3>2. Sibling \in A
      BY <3>1, <1>1 DEF InTree, Sibling
    <3>3. color' = [color EXCEPT ![Sibling] = "Red", ![par] = "Black"]
      BY <2>3 DEF FixRemoveRecolor
    <3> QED  BY <2>0, <3>1, <3>2, <3>3
  <2> QED  BY <2>1, <2>2, <2>3
<1>4. ASSUME NEW t \in Trees, t # call.tree PROVE black_height'[t] = black_height[t]
  <2>1. black_height \in [Trees -> Int]
    BY DEF TypeOK
  <2>2. CASE FixInsertRecolor
    BY <2>2 DEF FixInsertRecolor, bounds
  <2>3. CASE Blacken
    BY <2>1, <2>3, <1>4 DEF Blacken, Heightened
  <2>4. CASE FixRemoveRecolor
    BY <2>1, <2>4, <1>4 DEF FixRemoveRecolor
  <2> QED  BY <2>2, <2>3, <2>4
<1> QED  BY <1>a, <1>2, <1>3, <1>4 DEF NodesKept, BoundsKept, SameNode

(* Rotating does, with the colors that go with it.                         *)
LEMMA FixRotateKept ==
  ASSUME TypeOK, TypeOK', NEW D \in [Ref -> SUBSET Index], NEW rk \in [Index -> Int],
         Laws(D, rk),
         \/ FixInsertInner \/ FixInsertOuter
         \/ FixRemoveRedSibling \/ FixRemoveCloseNephew \/ FixRemoveFarNephew
  PROVE  NodesKept(Own(D)) /\ BoundsKept
<1>a. PICK A : A = Own(D)
  OBVIOUS
<1>0. pc # "idle"
  BY DEF FixInsertInner, FixInsertOuter, FixRemoveRedSibling, FixRemoveCloseNephew,
         FixRemoveFarNephew, RedParent, AtBlackSibling
<1>1. /\ call \in Call /\ SearchLaws(A, D) /\ UpdateLaws(A)
      /\ InTree(Hung, parent, child, root, D, call.tree, A)
  BY <1>0, <1>a, OwnCall
<1>2. UNCHANGED <<key, val, order, range, black_height>>
  BY DEF FixInsertInner, FixInsertOuter, FixRemoveRedSibling, FixRemoveCloseNephew,
         FixRemoveFarNephew, data
<1>3. (\E i \in Side, n \in A : Rotate(i, n)) /\ \A m \in Hung \ A : color'[m] = color[m]
  <2>0. Hung \in SUBSET Index /\ color \in [Index -> Color] /\ dir \in Side
    BY HungLive DEF TypeOK
  <2>1. CASE FixInsertInner
    <3>1. ptr \in A /\ parent[ptr] # None
      BY <2>1, <1>1 DEF FixInsertInner, RedParent, IsRed, UpdateLaws
    <3>2. parent[ptr] \in A /\ 1 - UncleSide \in Side
      BY <3>1, <1>1 DEF InTree, UncleSide, SideOf
    <3> QED  BY <2>1, <3>2 DEF FixInsertInner
  <2>2. CASE FixInsertOuter
    <3>1. ptr \in A /\ parent[ptr] # None /\ Grandparent # None
      BY <2>2, <1>1 DEF FixInsertOuter, RedParent, IsRed, UpdateLaws
    <3>2. parent[ptr] \in A /\ Grandparent \in A /\ UncleSide \in Side
      BY <3>1, <1>1 DEF InTree, Grandparent, UncleSide, SideOf
    <3>3. /\ color' = [color EXCEPT ![parent[ptr]] = "Black", ![Grandparent] = "Red"]
          /\ Rotate(UncleSide, Grandparent)
      BY <2>2 DEF FixInsertOuter
    <3> QED  BY <2>0, <3>2, <3>3
  <2>3. CASE FixRemoveRedSibling \/ FixRemoveCloseNephew \/ FixRemoveFarNephew
    <3>1. par \in A /\ Sibling # None /\ 1 - dir \in Side
      BY <2>3, <1>1, <2>0 DEF FixRemoveRedSibling, FixRemoveCloseNephew, FixRemoveFarNephew,
         AtBlackSibling, IsRed, UpdateLaws, FixRemoveStep
    <3>2. Sibling \in A
      BY <3>1, <1>1 DEF InTree, Sibling
    <3>3. CASE FixRemoveRedSibling
      BY <2>0, <3>1, <3>2, <3>3 DEF FixRemoveRedSibling
    <3>4. CASE FixRemoveCloseNephew
      <4>1. CloseNephew \in A
        BY <2>0, <3>2, <3>4, <1>1 DEF InTree, CloseNephew, FixRemoveCloseNephew, IsRed
      <4> QED  BY <2>0, <3>1, <3>2, <3>4, <4>1 DEF FixRemoveCloseNephew
    <3>5. CASE FixRemoveFarNephew
      <4>1. FarNephew \in A
        BY <3>1, <3>2, <3>5, <1>1 DEF InTree, FarNephew, FixRemoveFarNephew
      <4> QED  BY <2>0, <3>1, <3>2, <3>5, <4>1 DEF FixRemoveFarNephew
    <3> QED  BY <2>3, <3>3, <3>4, <3>5
  <2> QED  BY <2>1, <2>2, <2>3
<1>4. PICK i \in Side, n \in A : Rotate(i, n)
  BY <1>3
<1>5. /\ \A m \in Hung \ A : parent'[m] = parent[m] /\ child'[m] = child[m] /\ cum'[m] = cum[m]
      /\ \A t \in Trees : t # call.tree => root'[t] = root[t]
  <2> HIDE DEF Side, Ref
  <2> QED  BY <1>1, <1>4, RotateKept
<1> QED  BY <1>a, <1>2, <1>3, <1>5 DEF NodesKept, BoundsKept, SameNode

(* remove_at trades, cuts off and takes out a node of the tree.            *)
LEMMA RemoveHereKept ==
  ASSUME TypeOK, TypeOK', NEW D \in [Ref -> SUBSET Index], NEW rk \in [Index -> Int],
         Laws(D, rk), RemoveHere
  PROVE  NodesKept(Own(D)) /\ BoundsKept
<1>a. PICK A : A = Own(D)
  OBVIOUS
<1>0. pc = "Here" /\ pc # "idle" /\ pc \notin Unlinked
  BY DEF RemoveHere, Unlinked
<1>1. /\ call.tree \in Trees /\ A = D[root[call.tree]] /\ SearchLaws(A, D)
      /\ InTree(Hung, parent, child, root, D, call.tree, A)
  BY <1>0, <1>a, OwnCall
<1>2. UNCHANGED <<color, parent, child, order, root, range, black_height>>
  BY DEF RemoveHere, links, bounds
<1>3. ptr \in A /\ order[ptr][1] \in A \cup {None}
  <2>1. Thread(A, order, range[call.tree], rk)
    BY <1>0, <1>1 DEF Laws, StringLaws, Strung
  <2>2. ptr \in A
    BY <1>0, <1>1 DEF SearchLaws
  <2> QED  BY <2>1, <2>2 DEF Thread
<1>4. ASSUME NEW m \in Hung \ A PROVE key'[m] = key[m] /\ val'[m] = val[m] /\ cum'[m] = cum[m]
  <2>1. /\ m \in Index /\ m # ptr
        /\ key \in [Index -> Keys \cup {None}] /\ val \in [Index -> Values]
        /\ cum \in [Index -> Cumulants]
    BY <1>3, HungLive DEF TypeOK
  <2>2. CASE UNCHANGED <<key, val, cum>>
    BY <2>2
  <2>3. CASE /\ order[ptr][1] # None
             /\ key' = Swapped(key, ptr, order[ptr][1])
             /\ val' = Swapped(val, ptr, order[ptr][1])
             /\ cum' = Swapped(cum, ptr, order[ptr][1])
    <3>1. order[ptr][1] # m
      BY <1>3, <2>3
    <3> QED  BY <2>1, <2>3, <3>1 DEF Swapped
  <2> QED  BY <2>2, <2>3 DEF RemoveHere, data
<1> QED  BY <1>a, <1>2, <1>4 DEF NodesKept, BoundsKept, SameNode

(* Cutting off rewires the child and the parent.                           *)
LEMMA UnlinkKept ==
  ASSUME TypeOK, TypeOK', NEW D \in [Ref -> SUBSET Index], NEW rk \in [Index -> Int],
         Laws(D, rk), (\E i \in Side : UnlinkOneChild(i)) \/ UnlinkLeaf \/ UnlinkLast
  PROVE  NodesKept(Own(D)) /\ BoundsKept
<1>a. PICK A : A = Own(D)
  OBVIOUS
<1>0. pc = "unlink" /\ pc # "idle"
  BY DEF UnlinkOneChild, UnlinkLeaf, UnlinkLast
<1>1. /\ UpdateLaws(A) /\ InTree(Hung, parent, child, root, D, call.tree, A)
  BY <1>0, <1>a, OwnCall
<1>2. UNCHANGED <<key, val, cum, order>>
  BY DEF UnlinkOneChild, UnlinkLeaf, UnlinkLast, data, links
<1>3. /\ node \in A /\ parent[node] \in A \cup {None} /\ None \notin Hung
      /\ \A i \in Side : child[node][i] \in A \cup {None}
  BY <1>0, <1>1, NoneAssumption, HungLive DEF UpdateLaws, InTree
<1>4. /\ Hung \subseteq Index /\ parent \in [Index -> Ref] /\ child \in [Index -> [Side -> Ref]]
      /\ color \in [Index -> Color] /\ root \in [Trees -> Ref]
      /\ range \in [Trees -> [Side -> Ref]] /\ black_height \in [Trees -> Int]
  BY HungLive DEF TypeOK
<1>5. ASSUME NEW i \in Side, UnlinkOneChild(i)
      PROVE  /\ \A m \in Hung \ A : parent'[m] = parent[m] /\ child'[m] = child[m] /\ color'[m] = color[m]
             /\ BoundsKept
  <2>1. /\ parent' = ReplacedParent(node, child[node][i])
        /\ child' = ReplacedChild(node, child[node][i])
        /\ root' = ReplacedRoot(node, child[node][i])
        /\ color' = [color EXCEPT ![child[node][i]] = "Black"]
        /\ UNCHANGED <<range, black_height>>
    BY <1>5 DEF UnlinkOneChild
  <2>2. ASSUME NEW m \in Hung \ A PROVE parent'[m] = parent[m]
    BY <1>3, <1>4, <2>1 DEF ReplacedParent, SetAt
  <2>3. ASSUME NEW m \in Hung \ A PROVE child'[m] = child[m]
    BY <1>3, <1>4, <2>1 DEF ReplacedChild, SetLink
  <2>4. ASSUME NEW m \in Hung \ A PROVE color'[m] = color[m]
    BY <1>3, <1>4, <2>1
  <2>5. BoundsKept
    BY <1>4, <2>1 DEF BoundsKept, ReplacedRoot
  <2> QED  BY <2>2, <2>3, <2>4, <2>5
<1>6. CASE UnlinkLeaf
  <2>1. /\ child' = [child EXCEPT ![parent[node]][SideOf(parent[node], node)] = None]
        /\ UNCHANGED <<parent, color, root, range, black_height>>
    BY <1>6 DEF UnlinkLeaf, bounds
  <2>2. ASSUME NEW m \in Hung \ A PROVE child'[m] = child[m]
    BY <1>3, <1>4, <2>1
  <2> QED  BY <1>a, <1>2, <2>1, <2>2 DEF NodesKept, BoundsKept, SameNode
<1>7. CASE UnlinkLast
  <2>1. UNCHANGED <<parent, child, color>>
    BY <1>7 DEF UnlinkLast, links
  <2>2. BoundsKept
    BY <1>4, <1>7 DEF UnlinkLast, BoundsKept
  <2> QED  BY <1>a, <1>2, <2>1, <2>2 DEF NodesKept, SameNode
<1>8. CASE \E i \in Side : UnlinkOneChild(i)
  BY <1>8, <1>a, <1>2, <1>5 DEF NodesKept, SameNode
<1> QED  BY <1>6, <1>7, <1>8

(* The thread is mended within the tree, and the slot that is blanked      *)
(* hangs nowhere.                                                          *)
LEMMA UnthreadKept ==
  ASSUME TypeOK, TypeOK', NEW D \in [Ref -> SUBSET Index], NEW rk \in [Index -> Int],
         Laws(D, rk), Unthread \/ Free
  PROVE  NodesKept(Own(D)) /\ BoundsKept
<1>a. PICK A : A = Own(D)
  OBVIOUS
<1>0. pc \in {"unthread", "free"} /\ pc # "idle" /\ Limbo
  BY DEF Unthread, Free, Limbo, Unlinked
<1>1. /\ call.tree \in Trees /\ A = D[root[call.tree]] /\ UpdateLaws(A)
      /\ InTree(Hung, parent, child, root, D, call.tree, A)
  BY <1>0, <1>a, OwnCall
<1>2. node \notin Hung /\ node \in Index /\ Hung \subseteq Index
  BY <1>0, <1>1, HungLive DEF Hung, UpdateLaws, Live
<1>3. CASE Unthread
  <2> DEFINE prev == order[node][0]
             next == order[node][1]
  <2>1. /\ UNCHANGED <<key, val, cum, color, parent, child, root, black_height>>
        /\ order' = Spliced(prev, next)
        /\ range' = [range EXCEPT ![call.tree][0] = IF prev = None THEN next ELSE @,
                                  ![call.tree][1] = IF next = None THEN prev ELSE @]
    BY <1>3 DEF Unthread, data, links
  <2>2. Thread(A \cup {node}, order, range[call.tree], rk)
    <3>1. pc \in Unlinked
      BY <1>3 DEF Unthread, Unlinked
    <3> QED  BY <3>1, <1>1 DEF Laws, StringLaws, Strung
  <2>3. prev \in A \cup {node, None} /\ next \in A \cup {node, None}
        /\ prev \in Ref /\ next \in Ref
    BY <2>2, <1>2 DEF Thread, TypeOK
  <2>4. Respliced(order', prev, next)
    <3>1. order \in [Index -> [Side -> Ref]]
      BY DEF TypeOK
    <3> HIDE DEF Side, Ref, prev, next
    <3> QED  BY <3>1, <2>1, <2>3, SplicedLinks
  <2>5. ASSUME NEW m \in Hung \ A PROVE order'[m] = order[m]
    <3>1. m # prev /\ m # next /\ m \in Index
      BY <1>2, <2>3, NoneAssumption
    <3>2. order'[m][0] = order[m][0] /\ order'[m][1] = order[m][1]
      BY <3>1, <2>4 DEF Respliced
    <3>3. order'[m] \in [Side -> Ref] /\ order[m] \in [Side -> Ref]
      BY <3>1 DEF TypeOK
    <3> QED  BY <3>2, <3>3
  <2>6. \A t \in Trees : t # call.tree => range'[t] = range[t]
    <3>1. range \in [Trees -> [Side -> Ref]]
      BY DEF TypeOK
    <3> HIDE DEF prev, next
    <3> QED  BY <3>1, <2>1
  <2> QED  BY <1>a, <2>1, <2>5, <2>6 DEF NodesKept, BoundsKept, SameNode
<1>4. CASE Free
  <2>1. UNCHANGED <<root, range, black_height>>
    BY <1>4 DEF Free, bounds
  <2>2. ASSUME NEW m \in Hung PROVE SameNode(m)
    <3>1. m # node /\ m \in Index
      BY <1>2
    <3> QED  BY <3>1, <1>4 DEF Free, SameNode, TypeOK
  <2> QED  BY <2>1, <2>2 DEF NodesKept, BoundsKept
<1> QED  BY <1>3, <1>4

(* A new node takes a free slot and touches its neighbours only.           *)
LEMMA InsertKept ==
  ASSUME TypeOK, TypeOK', NEW D \in [Ref -> SUBSET Index], NEW rk \in [Index -> Int],
         Laws(D, rk), NEW n \in Index \ Live, InsertEmpty(n) \/ InsertAt(n)
  PROVE  NodesKept(Own(D)) /\ BoundsKept
<1>a. PICK A : A = Own(D)
  OBVIOUS
<1>0. pc \in {"Empty", "LeftOf", "RightOf"} /\ pc # "idle" /\ pc \notin Unlinked
  BY DEF InsertEmpty, InsertAt, Hang, Unlinked
<1>1. /\ call.tree \in Trees /\ A = D[root[call.tree]] /\ SearchLaws(A, D)
      /\ InTree(Hung, parent, child, root, D, call.tree, A)
  BY <1>0, <1>a, OwnCall
<1>2. n \notin Hung /\ Hung \subseteq Index /\ A \subseteq Hung /\ None \notin Index
  BY <1>1, HungLive, NoneAssumption DEF InTree
<1>3. CASE InsertEmpty(n)
  <2>1. BoundsKept
    BY <1>3 DEF InsertEmpty, BoundsKept, TypeOK
  <2>2. ASSUME NEW m \in Hung PROVE SameNode(m)
    <3>1. m # n /\ m \in Index
      BY <1>2
    <3> QED  BY <3>1, <1>3 DEF InsertEmpty, SameNode, TypeOK
  <2> QED  BY <2>1, <2>2 DEF NodesKept
<1>4. CASE InsertAt(n)
  <2>i. PICK i \in Side : i = IF pc = "LeftOf" THEN 0 ELSE 1
    OBVIOUS
  <2>p. PICK p : p = ptr
    OBVIOUS
  <2>f. PICK far : far = order[p][i]
    OBVIOUS
  <2>1. /\ key' = [key EXCEPT ![n] = call.key] /\ val' = [val EXCEPT ![n] = call.val]
        /\ cum' = [cum EXCEPT ![n] = DefaultCumulant] /\ color' = [color EXCEPT ![n] = "Red"]
        /\ parent' = [parent EXCEPT ![n] = p]
        /\ child' = [child EXCEPT ![n] = NoLinks, ![p][i] = n]
        /\ order' = [SetLink(order, far, 1 - i, n)
                       EXCEPT ![n] = [j \in Side |-> IF j = i THEN far ELSE p], ![p][i] = n]
        /\ range' = IF far = None THEN [range EXCEPT ![call.tree][i] = n] ELSE range
        /\ UNCHANGED <<root, black_height>>
    BY <1>4, <2>i, <2>p, <2>f DEF InsertAt, Hang
  <2>2. p \in A /\ p \in Index /\ n # p
    BY <1>1, <1>2, <1>4, <2>p DEF InsertAt, Hang, SearchLaws
  <2>3. far \in A \cup {None} /\ far # p /\ far # n /\ far \in Ref
    <3>1. Thread(A, order, range[call.tree], rk)
      BY <1>0, <1>1 DEF Laws, StringLaws, Strung
    <3>2. A \subseteq Index
      BY <1>2
    <3> QED  BY <1>2, <2>2, <2>f, <3>1, <3>2 DEF Thread, Before
  <2>4. HungLinks(order', i, n, p, far)
    <3>1. order \in [Index -> [Side -> Ref]]
      BY DEF TypeOK
    <3> HIDE DEF Side, Ref
    <3> QED  BY <3>1, <1>2, <2>1, <2>2, <2>3, HungOrder
  <2>5. ASSUME NEW m \in Hung \ A PROVE SameNode(m)
    <3>1. m \in Index /\ m # n /\ m # p /\ m # far
      BY <1>2, <2>2, <2>3
    <3>2. order'[m] = order[m]
      <4>1. order'[m][0] = order[m][0] /\ order'[m][1] = order[m][1]
        BY <3>1, <2>4 DEF HungLinks
      <4>2. order'[m] \in [Side -> Ref] /\ order[m] \in [Side -> Ref]
        BY <3>1 DEF TypeOK
      <4> QED  BY <4>1, <4>2
    <3>3. /\ key'[m] = key[m] /\ val'[m] = val[m] /\ cum'[m] = cum[m] /\ color'[m] = color[m]
          /\ parent'[m] = parent[m]
      BY <2>1, <3>1 DEF TypeOK
    <3>4. child'[m] = child[m]
      BY <2>1, <3>1 DEF TypeOK
    <3> QED  BY <3>2, <3>3, <3>4 DEF SameNode
  <2>6. BoundsKept
    <3>1. \A t \in Trees : t # call.tree => range'[t] = range[t]
      BY <2>1 DEF TypeOK
    <3> QED  BY <2>1, <3>1 DEF BoundsKept
  <2> QED  BY <1>a, <2>5, <2>6 DEF NodesKept
<1> QED  BY <1>3, <1>4

(* What one step does to the trees it was not called on.                   *)
LEMMA StepKept ==
  ASSUME TypeOK, TypeOK', NEW D \in [Ref -> SUBSET Index], NEW rk \in [Index -> Int],
         Laws(D, rk), [Next]_vars, pc # "idle"
  PROVE  NodesKept(Own(D)) /\ BoundsKept
<1>1. CASE \/ Descend \/ FixInsertDone \/ Propagate \/ Get \/ Search \/ RemoveMiss
           \/ InsertHere \/ UNCHANGED vars
  BY <1>1, QuietKept
<1>2. CASE FixInsertRecolor \/ Blacken \/ FixRemoveRecolor
  BY <1>2, RecolorKept
<1>3. CASE \/ FixInsertInner \/ FixInsertOuter
           \/ FixRemoveRedSibling \/ FixRemoveCloseNephew \/ FixRemoveFarNephew
  BY <1>3, FixRotateKept
<1>4. CASE RemoveHere
  BY <1>4, RemoveHereKept
<1>5. CASE (\E i \in Side : UnlinkOneChild(i)) \/ UnlinkLeaf \/ UnlinkLast
  <2> HIDE DEF Side
  <2> QED  BY <1>5, UnlinkKept
<1>6. CASE Unthread \/ Free
  BY <1>6, UnthreadKept
<1>7. ASSUME NEW n \in Index \ Live, InsertEmpty(n) \/ InsertAt(n)
      PROVE  NodesKept(Own(D)) /\ BoundsKept
  BY <1>7, InsertKept
<1> HIDE DEF Side
<1> QED  BY <1>1, <1>2, <1>3, <1>4, <1>5, <1>6, <1>7 DEF Next, Step, Relink, CallOp

(* A step leaves every tree alone but the one that is called.              *)
LEMMA OthersUntouched ==
  ASSUME TypeOK, LawsHold, [Next]_vars, NEW t \in Trees, call = None \/ call.tree # t
  PROVE  /\ \A n \in Members(t) : SameNode(n)
         /\ root'[t] = root[t] /\ range'[t] = range[t] /\ black_height'[t] = black_height[t]
<1>1. PICK D \in [Ref -> SUBSET Index], rk \in [Index -> Int] : Laws(D, rk)
  BY DEF LawsHold
<1>2. TypeOK'
  BY NextType
<1>3. Members(t) = D[root[t]]
  BY <1>1, AttachedIs DEF Members
<1>4. CASE call = None
  <2>1. pc = "idle"
    BY <1>1, <1>4 DEF Laws, CallLaws
  <2>2. UNCHANGED <<data, cum, color, links, order, bounds>>
    <3> HIDE DEF Side
    <3> QED  BY <2>1 DEF Next, Step, Relink, CallOp, vars, data, links, bounds, Descend,
          FixInsertDone, Propagate, Get, Search, RemoveMiss, InsertHere, SearchResult,
          FixInsertRecolor, Blacken, FixRemoveRecolor, AtBlackSibling, RedParent,
          FixInsertInner, FixInsertOuter, FixRemoveRedSibling, FixRemoveCloseNephew,
          FixRemoveFarNephew, RemoveHere, UnlinkOneChild, UnlinkLeaf, UnlinkLast,
          Unthread, Free, InsertEmpty, InsertAt, Hang
  <2> QED  BY <2>2 DEF SameNode, data, links, bounds
<1>5. CASE call # None
  <2>1. pc # "idle" /\ call.tree # t
    BY <1>1, <1>5 DEF Laws, CallLaws
  <2>2. NodesKept(Own(D)) /\ BoundsKept
    BY <1>1, <1>2, <2>1, StepKept
  <2>3. /\ InTree(Hung, parent, child, root, D, call.tree, Own(D))
        /\ InTree(Hung, parent, child, root, D, t, D[root[t]])
    BY <1>1, <2>1, OwnCall, OwnTree
  <2>4. D[root[t]] \subseteq Hung \ Own(D)
    BY <2>1, <2>3 DEF InTree
  <2> QED  BY <1>3, <2>1, <2>2, <2>4 DEF NodesKept, BoundsKept
<1> QED  BY <1>4, <1>5

(* A call on one tree writes to no node and to no bounds of another, not   *)
(* through a link, the thread or a freed slot (the port-owned items of     *)
(* arena/port.rs).                                                         *)
THEOREM OtherTreesCorrect == Spec => OtherTreesUntouched
<1> DEFINE Untouched ==
      \A t \in Trees : (call = None \/ call.tree # t) =>
        /\ \A n \in Members(t) : SameNode(n)
        /\ root'[t] = root[t] /\ range'[t] = range[t] /\ black_height'[t] = black_height[t]
<1>1. TypeOK /\ LawsHold /\ [Next]_vars => [Untouched]_vars
  BY OthersUntouched
<1>2. [](TypeOK /\ LawsHold) /\ [][Next]_vars => [][Untouched]_vars
  BY <1>1, PTL
<1> QED  BY <1>2, LawsCorrect DEF Spec, OtherTreesUntouched

-----------------------------------------------------------------------------
(* The nodes of a tree are what its links lead to, and no less: a set that *)
(* is closed under children and has the root has them all.                 *)
HasChildren(S) == \A n \in S, i \in Side : child[n][i] # None => child[n][i] \in S
AttachedLeast ==
  \A t \in Trees :
    /\ Attached(t) \in SUBSET Index /\ HasChildren(Attached(t))
    /\ root[t] # None => root[t] \in Attached(t)
    /\ root[t] = None => Attached(t) = {}
    /\ \A S \in SUBSET Index :
         root[t] \in S /\ HasChildren(S) => Attached(t) \subseteq S

(* Which nodes are whose: every live slot is a member of one tree, and all *)
(* members of a tree hang in it but the one that a remove has cut off.     *)
Owned ==
  /\ \A t \in Trees : Members(t) \subseteq Live
  /\ \A n \in Live : \E t \in Trees : n \in Members(t)
  /\ \A t, u \in Trees : t # u => Members(t) \cap Members(u) = {}
  /\ \A t \in Trees : call = None \/ call.tree # t \/ ~Limbo => Members(t) = Attached(t)
  /\ Inserting => call # None /\ node \in Attached(call.tree) /\ key[node] = call.key
  /\ Limbo => call # None /\ node \in Members(call.tree) /\ key[node] = call.key

(* No key is bound twice, neither to the node that is being removed.       *)
KeysUnique == \A t \in Trees : \A m, n \in Members(t) : key[m] = key[n] => m = n

(* Attached is the least set.                                              *)
LEMMA AttachedIsLeast == TypeOK /\ LawsHold => AttachedLeast
<1> SUFFICES ASSUME TypeOK, LawsHold, NEW t \in Trees
             PROVE  /\ Attached(t) \in SUBSET Index /\ HasChildren(Attached(t))
                    /\ root[t] # None => root[t] \in Attached(t)
                    /\ root[t] = None => Attached(t) = {}
                    /\ \A S \in SUBSET Index :
                         root[t] \in S /\ HasChildren(S) => Attached(t) \subseteq S
  BY DEF AttachedLeast
<1>1. PICK D \in [Ref -> SUBSET Index], rk \in [Index -> Int] : Laws(D, rk)
  BY DEF LawsHold
<1>2. Attached(t) = D[root[t]]
  BY <1>1, AttachedIs
<1>3. InTree(Hung, parent, child, root, D, t, D[root[t]])
  BY <1>1, OwnTree
<1>4. Linked(Hung, parent, child) /\ NoCycle(Hung, parent) /\ Descends(Hung, parent, child, D)
  BY <1>1 DEF Laws, LinkLaws, Shape
<1>5. D[root[t]] \subseteq Hung /\ Hung \in SUBSET Index /\ None \notin Index
  BY <1>3, HungLive, NoneAssumption DEF InTree
<1>6. HasChildren(D[root[t]])
  BY <1>3, <1>5 DEF InTree, HasChildren
<1>7. (root[t] # None => root[t] \in D[root[t]]) /\ (root[t] = None => D[root[t]] = {})
  BY <1>3 DEF InTree
<1>8. ASSUME NEW S \in SUBSET Index, root[t] \in S, HasChildren(S) PROVE D[root[t]] \subseteq S
  <2>1. SUFFICES ASSUME D[root[t]] \ S # {} PROVE FALSE
    OBVIOUS
  <2>2. PICK n \in D[root[t]] \ S : parent[n] \notin D[root[t]] \ S
    BY <2>1, <1>4, <1>5 DEF NoCycle
  <2>3. n \in Hung /\ n # root[t] /\ root[t] # None /\ root[t] \in Hung
    BY <2>2, <1>5, <1>7, <1>8
  <2>4. parent[n] \in D[root[t]]
    BY <2>2, <2>3, <1>4 DEF Descends
  <2>5. parent[n] \in S /\ parent[n] # None
    BY <2>2, <2>4, <1>5
  <2>6. PICK i \in Side : child[parent[n]][i] = n
    BY <2>3, <2>5, <1>4 DEF Linked
  <2>7. n # None /\ n \notin S
    BY <2>2, <2>3, <1>5
  <2> QED  BY <2>5, <2>6, <2>7, <1>8 DEF HasChildren
<1> QED  BY <1>2, <1>5, <1>6, <1>7, <1>8

(* Ownership, from the laws.                                               *)
LEMMA MembersOwned == TypeOK /\ LawsHold => Owned /\ KeysUnique
<1> SUFFICES ASSUME TypeOK, LawsHold PROVE Owned /\ KeysUnique
  OBVIOUS
<1>1. PICK D \in [Ref -> SUBSET Index], rk \in [Index -> Int] : Laws(D, rk)
  BY DEF LawsHold
<1>2. Rooted(Hung, parent, root, D)
  BY <1>1 DEF Laws, LinkLaws, Shape
<1>3. \A t \in Trees : D[root[t]] \subseteq Hung
  BY <1>1, OwnTree DEF InTree
<1>4. Limbo \/ Inserting \/ Removing => pc # "idle"
  BY DEF Limbo, Inserting, Removing, Unlinked, InsertStep
<1>5. pc # "idle" => /\ UpdateLaws(D[root[call.tree]]) /\ call # None /\ call.tree \in Trees
  <2>1. SUFFICES ASSUME pc # "idle"
                 PROVE  UpdateLaws(D[root[call.tree]]) /\ call # None /\ call.tree \in Trees
    OBVIOUS
  <2>2. UpdateLaws(Own(D)) /\ Own(D) = D[root[call.tree]] /\ call # None /\ call.tree \in Trees
    BY <2>1, <1>1, OwnCall
  <2> QED  BY <2>2
<1>6. \A t \in Trees : Members(t) =
        D[root[t]] \cup (IF Limbo /\ call.tree = t THEN {node} ELSE {})
  BY <1>1, <1>4, <1>5, AttachedIs DEF Members, InLimbo, Limbo
<1>7. Limbo => node \in Live /\ Hung = Live \ {node}
  BY <1>4, <1>5 DEF UpdateLaws, Hung
<1>8. ~Limbo => Hung = Live
  BY DEF Hung
<1>9. Owned
  <2>1. \A t \in Trees : Members(t) \subseteq Live
    BY <1>3, <1>6, <1>7, <1>8
  <2>2. ASSUME NEW n \in Live PROVE \E t \in Trees : n \in Members(t)
    <3>1. CASE Limbo /\ n = node
      BY <3>1, <1>4, <1>5, <1>6
    <3>2. CASE ~(Limbo /\ n = node)
      <4>1. n \in Hung
        BY <3>2, <1>7, <1>8
      <4>2. PICK t \in Trees : n \in D[root[t]]
        BY <4>1, <1>2 DEF Rooted
      <4> QED  BY <4>2, <1>6
    <3> QED  BY <3>1, <3>2
  <2>3. ASSUME NEW t \in Trees, NEW u \in Trees, t # u PROVE Members(t) \cap Members(u) = {}
    <3>1. D[root[t]] \cap D[root[u]] = {}
      BY <2>3, <1>2 DEF Rooted
    <3>2. Limbo => node \notin D[root[t]] /\ node \notin D[root[u]]
      BY <1>3, <1>7
    <3> QED  BY <3>1, <3>2, <2>3, <1>6
  <2>4. ASSUME NEW t \in Trees, call = None \/ call.tree # t \/ ~Limbo
        PROVE  Members(t) = Attached(t)
    <3>1. ~(Limbo /\ call.tree = t)
      BY <2>4, <1>4, <1>5
    <3>2. Attached(t) = D[root[t]]
      BY <1>1, AttachedIs
    <3> QED  BY <3>1, <3>2, <1>6
  <2>5. Inserting => call # None /\ node \in Attached(call.tree) /\ key[node] = call.key
    BY <1>1, <1>4, <1>5, AttachedIs DEF UpdateLaws
  <2>6. Limbo => call # None /\ node \in Members(call.tree) /\ key[node] = call.key
    BY <1>4, <1>5, <1>6 DEF UpdateLaws, Removing
  <2> QED  BY <2>1, <2>2, <2>3, <2>4, <2>5, <2>6 DEF Owned
<1>10. ASSUME NEW t \in Trees, NEW m \in Members(t), NEW n \in Members(t), key[m] = key[n]
       PROVE  m = n
  <2>0. m \in Live /\ n \in Live
    BY <1>9 DEF Owned
  <2>1. ASSUME m \in D[root[t]], n \in D[root[t]], Removing => m # node /\ n # node PROVE m = n
    <3>1. pc \notin Unlinked \cup {"unlink"} \/ (m # node /\ n # node)
      BY <2>1 DEF Removing, Limbo
    <3>2. rk[m] = 2 * key[m] /\ rk[n] = 2 * key[n]
      BY <2>0, <3>1, <1>1, KeyRank
    <3>3. m \in Strung(D, t) /\ n \in Strung(D, t)
      BY <2>1 DEF Strung
    <3>4. Thread(Strung(D, t), order, range[t], rk)
      BY <1>1 DEF Laws, StringLaws
    <3> QED  BY <3>2, <3>3, <3>4, <1>10 DEF Thread
  <2>2. CASE ~Removing
    BY <2>1, <2>2, <1>6 DEF Removing
  <2>3. CASE Removing
    <3>1. /\ pc # "idle" /\ key[node] = call.key /\ call.tree \in Trees
          /\ \A x \in D[root[call.tree]] \ {node} : key[x] # call.key
          /\ pc = "unlink" => node \in D[root[call.tree]]
      BY <2>3, <1>4, <1>5 DEF UpdateLaws
    <3>2. node \in Members(call.tree)
      BY <2>3, <3>1, <1>6 DEF Removing
    <3>3. CASE t # call.tree
      <4>1. m # node /\ n # node
        BY <3>1, <3>2, <3>3, <1>9 DEF Owned
      <4> QED  BY <4>1, <2>1, <3>3, <1>6
    <3>4. CASE t = call.tree
      <4>1. m = node <=> n = node
        BY <3>1, <3>4, <1>6, <1>10
      <4> QED  BY <4>1, <2>1, <1>6
    <3> QED  BY <3>3, <3>4
  <2> QED  BY <2>2, <2>3
<1> QED  BY <1>9, <1>10 DEF KeysUnique

-----------------------------------------------------------------------------
(* What Dict says: the contents of a tree bind their keys, nothing else is *)
(* bound.                                                                  *)
DictLaws ==
  /\ Dict \in [Trees -> [Keys -> Values \cup {None}]]
  /\ \A t \in Trees : \A n \in Contents(t) :
       key[n] \in Keys /\ val[n] \in Values /\ Dict[t][key[n]] = val[n]
  /\ \A t \in Trees, k \in Keys : (\A n \in Contents(t) : key[n] # k) => Dict[t][k] = None

(* Dict, from the laws.                                                    *)
LEMMA DictIs == TypeOK /\ LawsHold => DictLaws
<1> SUFFICES ASSUME TypeOK, LawsHold PROVE DictLaws
  OBVIOUS
<1>1. Owned /\ KeysUnique
  BY MembersOwned
<1>2. \A t \in Trees : Contents(t) \subseteq Members(t) /\ Contents(t) \subseteq Live
  BY <1>1 DEF Contents, Owned
<1>3. \A n \in Live : key[n] \in Keys /\ val[n] \in Values
  BY DEF Live, TypeOK
<1> DEFINE Holder(t, k) == {n \in Contents(t) : key[n] = k}
<1>4. Dict = [t \in Trees |-> [k \in Keys |->
                IF Holder(t, k) = {} THEN None ELSE val[CHOOSE n \in Holder(t, k) : TRUE]]]
  BY DEF Dict
<1>5. ASSUME NEW t \in Trees, NEW k \in Keys, NEW n \in Holder(t, k)
      PROVE  (CHOOSE m \in Holder(t, k) : TRUE) = n
  <2>1. (CHOOSE m \in Holder(t, k) : TRUE) \in Holder(t, k)
    BY <1>5
  <2>2. \A m \in Holder(t, k) : m = n
    BY <1>1, <1>2, <1>5 DEF KeysUnique
  <2> QED  BY <2>1, <2>2
<1>6. \A t \in Trees, k \in Keys : \A n \in Holder(t, k) : n \in Live
  BY <1>2
<1>7. ASSUME NEW t \in Trees, NEW n \in Contents(t)
      PROVE  key[n] \in Keys /\ val[n] \in Values /\ Dict[t][key[n]] = val[n]
  <2>1. key[n] \in Keys /\ val[n] \in Values
    BY <1>2, <1>3
  <2>2. n \in Holder(t, key[n])
    OBVIOUS
  <2>3. (CHOOSE m \in Holder(t, key[n]) : TRUE) = n
    BY <2>1, <2>2, <1>5
  <2> HIDE DEF Holder
  <2>4. Dict[t][key[n]] =
          IF Holder(t, key[n]) = {} THEN None ELSE val[CHOOSE m \in Holder(t, key[n]) : TRUE]
    BY <2>1, <1>4
  <2> QED  BY <2>1, <2>2, <2>3, <2>4
<1>8. ASSUME NEW t \in Trees, NEW k \in Keys, \A n \in Contents(t) : key[n] # k
      PROVE  Dict[t][k] = None
  <2>1. Holder(t, k) = {}
    BY <1>8
  <2> HIDE DEF Holder
  <2> QED  BY <2>1, <1>4
<1>9. Dict \in [Trees -> [Keys -> Values \cup {None}]]
  <2>1. ASSUME NEW t \in Trees, NEW k \in Keys
        PROVE  (IF Holder(t, k) = {} THEN None ELSE val[CHOOSE n \in Holder(t, k) : TRUE])
                 \in Values \cup {None}
    <3>1. CASE Holder(t, k) = {}
      BY <3>1
    <3>2. CASE Holder(t, k) # {}
      <4>1. PICK n : n \in Holder(t, k)
        BY <3>2
      <4>2. (CHOOSE m \in Holder(t, k) : TRUE) = n /\ n \in Live
        BY <4>1, <1>5, <1>6
      <4> HIDE DEF Holder
      <4> QED  BY <4>2, <3>2, <1>3
    <3> HIDE DEF Holder
    <3> QED  BY <3>1, <3>2
  <2> HIDE DEF Holder
  <2> QED  BY <2>1, <1>4
<1> HIDE DEF Holder
<1> QED  BY <1>7, <1>8, <1>9 DEF DictLaws

(* A tree whose contents stay binds what it bound.                         *)
LEMMA DictKept ==
  ASSUME DictLaws, DictLaws', NEW t \in Trees, Contents(t)' = Contents(t),
         \A n \in Contents(t) : key'[n] = key[n] /\ val'[n] = val[n]
  PROVE  Dict'[t] = Dict[t]
<1>1. ASSUME NEW k \in Keys PROVE Dict'[t][k] = Dict[t][k]
  <2>1. CASE \A n \in Contents(t) : key[n] # k
    BY <2>1 DEF DictLaws
  <2>2. ASSUME NEW n \in Contents(t), key[n] = k PROVE Dict'[t][k] = Dict[t][k]
    BY <2>2 DEF DictLaws
  <2> QED  BY <2>1, <2>2
<1> QED  BY <1>1 DEF DictLaws

(* A tree none of whose links change has the same nodes as before.         *)
LEMMA AttachedKept ==
  ASSUME AttachedLeast, AttachedLeast', NEW t \in Trees, root'[t] = root[t],
         \A n \in Attached(t) : child'[n] = child[n]
  PROVE  Attached(t)' = Attached(t)
<1>1. CASE root[t] = None
  BY <1>1 DEF AttachedLeast
<1>2. CASE root[t] # None
  <2>1. PICK A, B : A = Attached(t) /\ B = Attached(t)'
    OBVIOUS
  <2>2. B \subseteq A
    <3>1. A \in SUBSET Index /\ HasChildren(A) /\ root[t] \in A
      BY <2>1, <1>2 DEF AttachedLeast
    <3>2. \A n \in A : child'[n] = child[n]
      BY <2>1
    <3>3. HasChildren(A)'
      BY <3>1, <3>2 DEF HasChildren
    <3>4. \A S \in SUBSET Index : root'[t] \in S /\ HasChildren(S)' => B \subseteq S
      BY <2>1 DEF AttachedLeast
    <3> QED  BY <3>1, <3>3, <3>4
  <2>3. A \subseteq B
    <3>1. B \in SUBSET Index /\ HasChildren(B)' /\ root'[t] \in B
      BY <2>1, <1>2 DEF AttachedLeast
    <3>2. \A n \in B : child'[n] = child[n]
      BY <2>1, <2>2
    <3>3. HasChildren(B)
      BY <3>1, <3>2 DEF HasChildren
    <3>4. \A S \in SUBSET Index : root[t] \in S /\ HasChildren(S) => A \subseteq S
      BY <2>1 DEF AttachedLeast
    <3> QED  BY <3>1, <3>3, <3>4
  <2> QED  BY <2>1, <2>2, <2>3
<1> QED  BY <1>1, <1>2

-----------------------------------------------------------------------------
(* Away from the call's tree, and where no node is in flight, the contents *)
(* are the nodes that hang.                                                *)
Elsewhere ==
  \A t \in Trees : call = None \/ call.tree # t \/ ~(Limbo \/ Inserting) =>
    Contents(t) = Attached(t) /\ Members(t) = Attached(t)

(* All that the map needs of a state.                                      *)
MapLaws == AttachedLeast /\ Owned /\ KeysUnique /\ DictLaws /\ Elsewhere

(* It follows from the laws.                                               *)
LEMMA MapHolds == TypeOK /\ LawsHold => MapLaws
<1> SUFFICES ASSUME TypeOK, LawsHold PROVE Elsewhere
  BY AttachedIsLeast, MembersOwned, DictIs DEF MapLaws
<1>1. Owned
  BY MembersOwned
<1>2. Inserting => ~Limbo
  BY DEF Inserting, Limbo, InsertStep, Unlinked
<1>3. Inserting => call \in Call /\ call.tree \in Trees
  <2>1. Inserting => pc # "idle"
    BY DEF Inserting, InsertStep
  <2> QED  BY <2>1 DEF TypeOK, Call
<1>4. ASSUME NEW t \in Trees, call = None \/ call.tree # t \/ ~(Limbo \/ Inserting)
      PROVE  Contents(t) = Attached(t) /\ Members(t) = Attached(t)
  <2>1. Members(t) = Attached(t)
    BY <1>1, <1>2, <1>4 DEF Owned
  <2>2. ASSUME Inserting PROVE node \notin Members(t)
    <3>1. call # None /\ call.tree # t
      BY <1>1, <1>4, <2>2 DEF Owned
    <3>2. node \in Members(call.tree)
      BY <1>1, <1>2, <1>3, <2>2 DEF Owned
    <3> QED  BY <3>1, <3>2, <1>1, <1>3, <2>2 DEF Owned
  <2>3. \A n \in Members(t) : ~InsertInFlight(n)
    BY <2>2 DEF InsertInFlight, Inserting
  <2> QED  BY <2>1, <2>3 DEF Contents
<1> QED  BY <1>4 DEF Elsewhere

(* The call in flight stays, or ends, or just came.                        *)
LEMMA CallStays ==
  ASSUME [Next]_vars
  PROVE  call' = call \/ call' = None \/ (pc = "idle" /\ ~Limbo' /\ ~Inserting')
<1>1. ASSUME NEW t \in Trees, NEW k \in Keys, NEW v \in Values \cup {None}, NEW op \in Op,
             CallOp(op, t, k, v)
      PROVE  pc = "idle" /\ ~Limbo' /\ ~Inserting'
  <2>1. pc = "idle" /\ pc' \in SearchResult \cup {"descend"}
    BY <1>1 DEF CallOp, SearchFrom, Found, SearchResult
  <2> QED  BY <2>1 DEF Limbo, Inserting, InsertStep, Unlinked, SearchResult
<1>2. ASSUME Step PROVE call' = call \/ call' = None
  <2> HIDE DEF Side
  <2> QED  BY <1>2 DEF Step, Relink, Descend,
            FixInsertDone, Propagate, AfterPropagate, Return, Get, Search, RemoveMiss, InsertHere,
            FixInsertRecolor, Blacken, FixRemoveRecolor,
            FixInsertInner, FixInsertOuter, FixRemoveRedSibling, FixRemoveCloseNephew,
            FixRemoveFarNephew, RemoveHere, UnlinkOneChild, UnlinkLeaf, UnlinkLast,
            Unthread, Free, InsertEmpty, InsertAt, Hang
<1> QED  BY <1>1, <1>2 DEF Next, vars, Op

(* The other trees bind what they bound.                                   *)
LEMMA OthersBind ==
  ASSUME TypeOK, LawsHold, [Next]_vars, MapLaws, MapLaws',
         NEW t \in Trees, call = None \/ call.tree # t
  PROVE  Members(t)' = Members(t) /\ Dict'[t] = Dict[t]
<1>1. /\ \A n \in Members(t) : SameNode(n)
      /\ root'[t] = root[t]
  BY OthersUntouched
<1>2. Contents(t) = Attached(t) /\ Members(t) = Attached(t)
  BY DEF MapLaws, Elsewhere
<1>3. call' = None \/ call'.tree # t \/ ~(Limbo' \/ Inserting')
  <2>1. call = None => ~Limbo /\ ~Inserting
    BY DEF MapLaws, Owned
  <2>2. CASE call' = call
    <3>1. CASE call = None
      BY <2>2, <3>1
    <3>2. CASE call # None
      BY <2>2, <3>2
    <3> QED  BY <3>1, <3>2
  <2> QED  BY <2>2, CallStays
<1>4. Contents(t)' = Attached(t)' /\ Members(t)' = Attached(t)'
  BY <1>3 DEF MapLaws, Elsewhere
<1>5. Attached(t)' = Attached(t)
  <2>1. AttachedLeast /\ AttachedLeast'
    BY DEF MapLaws
  <2>2. \A n \in Attached(t) : child'[n] = child[n]
    BY <1>1, <1>2 DEF SameNode
  <2> QED  BY <2>1, <2>2, <1>1, AttachedKept
<1>6. Dict'[t] = Dict[t]
  <2>1. DictLaws /\ DictLaws'
    BY DEF MapLaws
  <2>2. \A n \in Contents(t) : key'[n] = key[n] /\ val'[n] = val[n]
    BY <1>1, <1>2 DEF SameNode
  <2> QED  BY <2>1, <2>2, <1>2, <1>4, <1>5, DictKept
<1> QED  BY <1>2, <1>4, <1>5, <1>6

(* The tree that is called has the live slots that the others do not have. *)
LEMMA OwnMembers ==
  ASSUME TypeOK, LawsHold, [Next]_vars, MapLaws, MapLaws', call # None,
         NEW t \in Trees, t = call.tree
  PROVE  \A n : n \in Members(t)' <=> n \in Live' /\ (n \in Live => n \in Members(t))
<1>1. \A u \in Trees : u # t => Members(u)' = Members(u)
  BY OthersBind
<1>2. Owned /\ Owned'
  BY DEF MapLaws
<1>3. ASSUME NEW n \in Members(t)' PROVE n \in Live' /\ (n \in Live => n \in Members(t))
  <2>1. n \in Live'
    BY <1>2, <1>3 DEF Owned
  <2>2. \A u \in Trees : u # t => n \notin Members(u)
    BY <1>1, <1>2, <1>3 DEF Owned
  <2>3. n \in Live => \E u \in Trees : n \in Members(u)
    BY <1>2 DEF Owned
  <2> QED  BY <2>1, <2>2, <2>3
<1>4. ASSUME NEW n, n \in Live', n \in Live => n \in Members(t) PROVE n \in Members(t)'
  <2>1. PICK u \in Trees : n \in Members(u)'
    BY <1>2, <1>4 DEF Owned
  <2>2. SUFFICES ASSUME u # t PROVE FALSE
    BY <2>1
  <2>3. n \in Members(u) /\ n \in Live
    BY <2>1, <2>2, <1>1, <1>2 DEF Owned
  <2> QED  BY <2>2, <2>3, <1>2, <1>4 DEF Owned
<1> QED  BY <1>3, <1>4

-----------------------------------------------------------------------------
(* Where the nodes of the called tree bind what they bound, the whole map  *)
(* stays; ...                                                              *)
LEMMA SameBindings ==
  ASSUME TypeOK, LawsHold, [Next]_vars, MapLaws, MapLaws', call # None,
         NEW t \in Trees, t = call.tree,
         \A n \in Contents(t) : \E m \in Contents(t)' : key'[m] = key[n] /\ val'[m] = val[n],
         \A m \in Contents(t)' : \E n \in Contents(t) : key[n] = key'[m]
  PROVE  Dict' = Dict
<1>1. DictLaws /\ DictLaws'
  BY DEF MapLaws
<1>2. ASSUME NEW u \in Trees PROVE Dict'[u] = Dict[u]
  <2>1. CASE u # t
    BY <2>1, OthersBind
  <2>2. ASSUME NEW k \in Keys PROVE Dict'[t][k] = Dict[t][k]
    <3>1. CASE \A n \in Contents(t) : key[n] # k
      <4>1. \A m \in Contents(t)' : key'[m] # k
        BY <3>1
      <4>2. Dict'[t][k] = None
        BY <4>1, <1>1 DEF DictLaws
      <4>3. Dict[t][k] = None
        BY <3>1, <1>1 DEF DictLaws
      <4> QED  BY <4>2, <4>3
    <3>2. ASSUME NEW n \in Contents(t), key[n] = k PROVE Dict'[t][k] = Dict[t][k]
      <4>1. PICK m \in Contents(t)' : key'[m] = k /\ val'[m] = val[n]
        BY <3>2
      <4>2. Dict[t][k] = val[n]
        BY <3>2, <1>1 DEF DictLaws
      <4>3. Dict'[t][k] = val'[m]
        BY <4>1, <1>1 DEF DictLaws
      <4> QED  BY <4>1, <4>2, <4>3
    <3> QED  BY <3>1, <3>2
  <2>3. Dict'[t] = Dict[t]
    BY <2>2, <1>1 DEF DictLaws
  <2> QED  BY <2>1, <2>3
<1> QED  BY <1>1, <1>2 DEF DictLaws

(* ... and where only the key of the call is bound anew, or unbound, the   *)
(* map changes there.                                                      *)
LEMMA NewBinding ==
  ASSUME TypeOK, LawsHold, [Next]_vars, MapLaws, MapLaws', call # None,
         NEW t \in Trees, t = call.tree, NEW k \in Keys, NEW v \in Values \cup {None},
         \A n \in Contents(t) : key[n] # k =>
            n \in Contents(t)' /\ key'[n] = key[n] /\ val'[n] = val[n],
         \A m \in Contents(t)' : key'[m] # k => m \in Contents(t) /\ key[m] = key'[m],
         v = None => \A m \in Contents(t)' : key'[m] # k,
         v # None => \E m \in Contents(t)' : key'[m] = k /\ val'[m] = v
  PROVE  Dict' = [Dict EXCEPT ![t][k] = v]
<1>1. DictLaws /\ DictLaws'
  BY DEF MapLaws
<1>2. \A u \in Trees : u # t => Dict'[u] = Dict[u]
  BY OthersBind
<1>3. Dict'[t][k] = v
  <2>1. CASE v = None
    BY <2>1, <1>1 DEF DictLaws
  <2>2. CASE v # None
    <3>1. PICK m \in Contents(t)' : key'[m] = k /\ val'[m] = v
      BY <2>2
    <3> QED  BY <3>1, <1>1 DEF DictLaws
  <2> QED  BY <2>1, <2>2
<1>4. ASSUME NEW l \in Keys, l # k PROVE Dict'[t][l] = Dict[t][l]
  <2>1. CASE \A n \in Contents(t) : key[n] # l
    <3>1. \A m \in Contents(t)' : key'[m] # l
      BY <2>1, <1>4
    <3> QED  BY <2>1, <3>1, <1>1 DEF DictLaws
  <2>2. ASSUME NEW n \in Contents(t), key[n] = l PROVE Dict'[t][l] = Dict[t][l]
    <3>1. n \in Contents(t)' /\ key'[n] = l /\ val'[n] = val[n]
      BY <2>2, <1>4
    <3>2. Dict[t][l] = val[n]
      BY <2>2, <1>1 DEF DictLaws
    <3>3. Dict'[t][l] = val'[n]
      BY <3>1, <1>1 DEF DictLaws
    <3> QED  BY <3>1, <3>2, <3>3
  <2> QED  BY <2>1, <2>2
<1>5. Dict'[t] = [Dict[t] EXCEPT ![k] = v]
  <2>1. Dict[t] \in [Keys -> Values \cup {None}] /\ Dict'[t] \in [Keys -> Values \cup {None}]
    BY <1>1 DEF DictLaws
  <2> QED  BY <2>1, <1>3, <1>4
<1> QED  BY <1>1, <1>2, <1>5 DEF DictLaws

(* What a search found, as the map has it.                                 *)
LEMMA Answer ==
  ASSUME TypeOK, LawsHold, pc \in SearchResult
  PROVE  /\ call \in Call /\ call # None /\ call.tree \in Trees /\ call.key \in Keys
         /\ ~Limbo /\ ~Inserting
         /\ Contents(call.tree) = Members(call.tree) /\ Members(call.tree) \subseteq Live
         /\ pc = "Empty" => Contents(call.tree) = {}
         /\ pc = "Here" => ptr \in Contents(call.tree) /\ key[ptr] = call.key
         /\ \A i \in Side : pc = Frontier(i) =>
              /\ ptr \in Contents(call.tree) /\ Before(i, call.key, key[ptr])
              /\ \A m \in Contents(call.tree) :
                   Before(i, key[m], key[ptr]) => Before(i, key[m], call.key)
<1>1. PICK D \in [Ref -> SUBSET Index], rk \in [Index -> Int] : Laws(D, rk)
  BY DEF LawsHold
<1>2. pc # "idle" /\ ~Limbo /\ ~Inserting
  BY DEF SearchResult, Limbo, Inserting, Unlinked, InsertStep
<1>3. /\ call \in Call /\ call # None /\ call.tree \in Trees /\ call.key \in Keys
      /\ SearchLaws(Own(D), D) /\ Own(D) = D[root[call.tree]]
      /\ InTree(Hung, parent, child, root, D, call.tree, Own(D))
  BY <1>1, <1>2, OwnCall
<1>4. Contents(call.tree) = Attached(call.tree) /\ Members(call.tree) = Attached(call.tree)
  BY <1>2, <1>3, MapHolds DEF MapLaws, Elsewhere
<1>5. Attached(call.tree) = Own(D)
  BY <1>1, <1>3, AttachedIs
<1>6. Members(call.tree) \subseteq Live
  BY <1>3, MembersOwned DEF Owned
<1>7. pc = "Empty" => Own(D) = {}
  BY <1>3 DEF SearchLaws, InTree
<1>8. pc = "Here" => ptr \in Own(D) /\ key[ptr] = call.key
  BY <1>3 DEF SearchLaws
<1>9. \A i \in Side : pc = Frontier(i) =>
              /\ ptr \in Own(D) /\ Before(i, call.key, key[ptr])
              /\ \A m \in Own(D) : Before(i, key[m], key[ptr]) => Before(i, key[m], call.key)
  BY <1>3 DEF SearchLaws, Frontier
<1> QED  BY <1>2, <1>3, <1>4, <1>5, <1>6, <1>7, <1>8, <1>9

(* A search that did not end at the key did not miss it.                   *)
LEMMA Absent ==
  ASSUME TypeOK, LawsHold, pc \in SearchResult, pc # "Here"
  PROVE  \A n \in Contents(call.tree) : key[n] # call.key
<1>1. ASSUME NEW i \in Side, pc = Frontier(i), NEW n \in Contents(call.tree) PROVE key[n] # call.key
  <2>1. /\ ptr \in Contents(call.tree) /\ Before(i, call.key, key[ptr])
        /\ Before(i, key[n], key[ptr]) => Before(i, key[n], call.key)
        /\ call.key \in Int
    BY <1>1, Answer, KeysAssumption
  <2>2. ~Before(i, call.key, call.key)
    BY <2>1 DEF Before
  <2> QED  BY <2>1, <2>2
<1>2. pc = "Empty" \/ pc = Frontier(0) \/ pc = Frontier(1)
  BY DEF SearchResult, Frontier
<1> QED  BY <1>1, <1>2, Answer

-----------------------------------------------------------------------------
(* The steps that bind nothing anew: the loops, ...                        *)
LEMMA QuietBinds ==
  ASSUME TypeOK, LawsHold, [Next]_vars, MapLaws, MapLaws', pc # "idle",
         UNCHANGED <<key, val>>, call' = call, node' = node \/ ~Inserting, Inserting' <=> Inserting
  PROVE  Dict' = Dict
<1>1. call # None /\ call.tree \in Trees
  BY CallAssumption DEF TypeOK, Call
<1>2. PICK t \in Trees : t = call.tree
  BY <1>1
<1>3. Live' = Live
  BY DEF Live
<1>4. \A n : n \in Members(t)' <=> n \in Live /\ n \in Members(t)
  BY <1>1, <1>2, <1>3, OwnMembers
<1>5. Members(t) \subseteq Live
  BY DEF MapLaws, Owned
<1>6. Members(t)' = Members(t)
  BY <1>4, <1>5
<1>7. Contents(t)' = Contents(t)
  BY <1>6 DEF Contents, InsertInFlight, Inserting
<1> QED  BY <1>1, <1>2, <1>7, SameBindings

(* ... the trade of remove_at, after which the slot to unlink holds the    *)
(* key to remove, ...                                                      *)
LEMMA RemoveHereBinds ==
  ASSUME TypeOK, LawsHold, [Next]_vars, MapLaws, MapLaws', RemoveHere
  PROVE  Dict' = Dict
<1>1. /\ pc = "Here" /\ pc' = "unlink" /\ call' = call /\ pc \in SearchResult
      /\ ~Inserting /\ ~Inserting' /\ ~Limbo'
  BY DEF RemoveHere, SearchResult, Inserting, InsertStep, Limbo, Unlinked
<1>2. CASE ~ \A i \in Side : child[ptr][i] # None
  <2>1. UNCHANGED <<key, val>>
    BY <1>2 DEF RemoveHere, data
  <2> QED  BY <1>1, <2>1, QuietBinds
<1>3. CASE \A i \in Side : child[ptr][i] # None
  <2>1. PICK t, x, y : t = call.tree /\ x = ptr /\ y = order[ptr][1]
    OBVIOUS
  <2>2. /\ t \in Trees /\ call # None /\ x \in Contents(t)
        /\ Contents(t) = Members(t) /\ Members(t) \subseteq Live
    BY <1>1, <2>1, Answer
  <2>3. y \in Contents(t)
    <3>1. PICK D \in [Ref -> SUBSET Index], rk \in [Index -> Int] : Laws(D, rk)
      BY DEF LawsHold
    <3>2. Contents(t) = D[root[t]]
      BY <1>1, <2>2, <3>1, AttachedIs DEF MapLaws, Elsewhere, Limbo, Unlinked
    <3>3. Strung(D, t) = D[root[t]] /\ Thread(Strung(D, t), order, range[t], rk)
      BY <1>1, <2>2, <3>1 DEF Strung, Unlinked, Laws, StringLaws
    <3>4. y # None
      BY <1>3, <2>1 DEF RemoveHere
    <3>5. y = order[x][1] /\ 1 \in Side
      BY <2>1
    <3> QED  BY <2>2, <3>2, <3>3, <3>4, <3>5 DEF Thread
  <2>4. key' = Swapped(key, x, y) /\ val' = Swapped(val, x, y)
    BY <1>3, <2>1 DEF RemoveHere
  <2>5. x \in Index /\ y \in Index /\ key[x] # None /\ key[y] # None
    BY <2>2, <2>3 DEF Live
  <2>6. /\ key'[x] = key[y] /\ key'[y] = key[x] /\ val'[x] = val[y] /\ val'[y] = val[x]
        /\ \A n \in Index : n # x /\ n # y => key'[n] = key[n] /\ val'[n] = val[n]
    BY <2>4, <2>5 DEF Swapped, TypeOK
  <2>7. Live' = Live
    BY <2>5, <2>6 DEF Live
  <2>8. \A n : n \in Members(t)' <=> n \in Live /\ n \in Members(t)
    BY <2>1, <2>2, <2>7, OwnMembers
  <2>9. Members(t)' = Members(t)
    BY <2>2, <2>8
  <2>10. Contents(t)' = Contents(t)
    BY <1>1, <2>2, <2>9 DEF Contents, InsertInFlight, Inserting
  <2>11. Contents(t) \subseteq Index
    BY <2>2 DEF Live
  <2>12. ASSUME NEW n \in Contents(t)
         PROVE  \E m \in Contents(t)' : key'[m] = key[n] /\ val'[m] = val[n]
    BY <2>2, <2>3, <2>6, <2>10, <2>11
  <2>13. ASSUME NEW m \in Contents(t)' PROVE \E n \in Contents(t) : key[n] = key'[m]
    BY <2>2, <2>3, <2>6, <2>10, <2>11
  <2> QED  BY <2>1, <2>2, <2>12, <2>13, SameBindings
<1> QED  BY <1>2, <1>3

(* ... and the hanging of a new node, whose insert has not returned.       *)
LEMMA InsertAtBinds ==
  ASSUME TypeOK, LawsHold, [Next]_vars, MapLaws, MapLaws', NEW n \in Index \ Live, InsertAt(n)
  PROVE  Dict' = Dict
<1>1. /\ pc \in SearchResult /\ call' = call /\ node' = n
      /\ key' = [key EXCEPT ![n] = call.key] /\ val' = [val EXCEPT ![n] = call.val]
      /\ pc' \in {"fix_insert", "propagate"} /\ call.op = "insert"
  BY DEF InsertAt, Hang, SearchResult
<1>2. Inserting'
  BY <1>1 DEF Inserting, InsertStep
<1>3. PICK t : t = call.tree
  OBVIOUS
<1>4. /\ t \in Trees /\ call # None /\ call.key \in Keys
      /\ Contents(t) = Members(t) /\ Members(t) \subseteq Live
  BY <1>1, <1>3, Answer
<1>5. Live' = Live \cup {n}
  BY <1>1, <1>4, NoneAssumption DEF Live, TypeOK
<1>6. \A m : m \in Members(t)' <=> m \in Live' /\ (m \in Live => m \in Members(t))
  BY <1>3, <1>4, OwnMembers
<1>7. Contents(t)' = Contents(t)
  <2>1. \A m : m \in Contents(t)' <=> m \in Members(t)' /\ m # n
    BY <1>1, <1>2 DEF Contents, InsertInFlight, Inserting
  <2> QED  BY <2>1, <1>4, <1>5, <1>6
<1>8. \A m \in Contents(t) : key'[m] = key[m] /\ val'[m] = val[m]
  BY <1>1, <1>4 DEF TypeOK, Live
<1> QED  BY <1>3, <1>4, <1>7, <1>8, SameBindings

-----------------------------------------------------------------------------
(* The steps that return: an insert that finds its key, ...                *)
LEMMA InsertHereBinds ==
  ASSUME TypeOK, LawsHold, [Next]_vars, MapLaws, MapLaws', InsertHere
  PROVE  /\ Dict' = [Dict EXCEPT ![call.tree][call.key] = call.val]
         /\ Dict[call.tree][call.key] # None
<1>1. /\ pc = "Here" /\ pc \in SearchResult /\ call.op = "insert" /\ UNCHANGED key
      /\ val' = [val EXCEPT ![ptr] = call.val] /\ pc' = "idle"
  BY DEF InsertHere, Return, SearchResult
<1>2. PICK t, x, k : t = call.tree /\ x = ptr /\ k = call.key
  OBVIOUS
<1>3. /\ t \in Trees /\ call # None /\ k \in Keys /\ x \in Contents(t) /\ key[x] = k
      /\ Contents(t) = Members(t) /\ Members(t) \subseteq Live /\ call \in Call
  BY <1>1, <1>2, Answer
<1>4. call.val \in Values
  BY <1>1, <1>3 DEF Call
<1>5. Live' = Live
  BY <1>1 DEF Live
<1>6. \A m : m \in Members(t)' <=> m \in Live /\ m \in Members(t)
  BY <1>2, <1>3, <1>5, OwnMembers
<1>7. Contents(t)' = Contents(t)
  <2>1. \A m : m \in Contents(t)' <=> m \in Members(t)'
    BY <1>1 DEF Contents, InsertInFlight, InsertStep
  <2> QED  BY <2>1, <1>3, <1>6
<1>8. Contents(t) \subseteq Index
  BY <1>3 DEF Live
<1>9. val'[x] = call.val /\ key'[x] = k /\ \A n \in Index : n # x => val'[n] = val[n]
  BY <1>1, <1>2, <1>3, <1>8 DEF TypeOK
<1>10. Dict[t][k] # None
  <2>1. Dict[t][k] = val[x] /\ val[x] \in Values
    BY <1>3 DEF MapLaws, DictLaws
  <2> QED  BY <2>1, NoneAssumption
<1>11. \A n \in Contents(t) : key[n] # k =>
            n \in Contents(t)' /\ key'[n] = key[n] /\ val'[n] = val[n]
  BY <1>1, <1>3, <1>7, <1>8, <1>9
<1>12. \A m \in Contents(t)' : key'[m] # k => m \in Contents(t) /\ key[m] = key'[m]
  BY <1>1, <1>7
<1>13. \E m \in Contents(t)' : key'[m] = k /\ val'[m] = call.val
  BY <1>3, <1>7, <1>9
<1>14. PICK v \in Values \cup {None} : v = call.val /\ v # None
  BY <1>4, NoneAssumption
<1>15. Dict' = [Dict EXCEPT ![t][k] = v]
  <2>1. v = None => \A m \in Contents(t)' : key'[m] # k
    BY <1>14
  <2>2. v # None => \E m \in Contents(t)' : key'[m] = k /\ val'[m] = v
    BY <1>13, <1>14
  <2> QED  BY <2>1, <2>2, <1>2, <1>3, <1>11, <1>12, NewBinding
<1> QED  BY <1>2, <1>10, <1>14, <1>15

(* ... one that finds an empty tree, ...                                   *)
LEMMA InsertEmptyBinds ==
  ASSUME TypeOK, LawsHold, [Next]_vars, MapLaws, MapLaws',
         NEW n \in Index \ Live, InsertEmpty(n)
  PROVE  /\ Dict' = [Dict EXCEPT ![call.tree][call.key] = call.val]
         /\ Dict[call.tree][call.key] = None
<1>1. /\ pc = "Empty" /\ pc \in SearchResult /\ call.op = "insert"
      /\ key' = [key EXCEPT ![n] = call.key] /\ val' = [val EXCEPT ![n] = call.val]
      /\ pc' = "idle"
  BY DEF InsertEmpty, Return, SearchResult
<1>2. PICK t, k : t = call.tree /\ k = call.key
  OBVIOUS
<1>3. /\ t \in Trees /\ call # None /\ k \in Keys /\ Contents(t) = {} /\ Members(t) = {}
      /\ call \in Call
  BY <1>1, <1>2, Answer
<1>4. call.val \in Values
  BY <1>1, <1>3 DEF Call
<1>5. Live' = Live \cup {n} /\ key'[n] = k /\ val'[n] = call.val
  BY <1>1, <1>2, <1>3, NoneAssumption DEF Live, TypeOK
<1>6. \A m : m \in Members(t)' <=> m \in Live' /\ (m \in Live => m \in Members(t))
  BY <1>2, <1>3, OwnMembers
<1>7. Contents(t)' = {n}
  <2>1. \A m : m \in Contents(t)' <=> m \in Members(t)'
    BY <1>1 DEF Contents, InsertInFlight, InsertStep
  <2> QED  BY <2>1, <1>3, <1>5, <1>6
<1>8. PICK v \in Values \cup {None} : v = call.val /\ v # None
  BY <1>4, NoneAssumption
<1>9. Dict' = [Dict EXCEPT ![t][k] = v]
  <2>1. v # None => \E m \in Contents(t)' : key'[m] = k /\ val'[m] = v
    BY <1>5, <1>7, <1>8
  <2>2. \A m \in Contents(t)' : key'[m] # k => m \in Contents(t) /\ key[m] = key'[m]
    BY <1>5, <1>7
  <2>3. v = None => \A m \in Contents(t)' : key'[m] # k
    BY <1>8
  <2>4. \A m \in Contents(t) : key[m] # k =>
            m \in Contents(t)' /\ key'[m] = key[m] /\ val'[m] = val[m]
    BY <1>3
  <2> QED  BY <2>1, <2>2, <2>3, <2>4, <1>2, <1>3, NewBinding
<1>10. Dict[t][k] = None
  BY <1>3 DEF MapLaws, DictLaws
<1> QED  BY <1>2, <1>8, <1>9, <1>10

(* (What a new node holds until its insert returns.)                       *)
NewValue == Inserting => val[node] = call.val

(* ... one whose walk to the root is over, from which moment the new node  *)
(* counts, ...                                                             *)
LEMMA InsertedBinds ==
  ASSUME TypeOK, LawsHold, [Next]_vars, MapLaws, MapLaws', NewValue,
         pc = "propagate", call.op = "insert", pc' = "idle", UNCHANGED <<key, val>>
  PROVE  /\ Dict' = [Dict EXCEPT ![call.tree][call.key] = call.val]
         /\ Dict[call.tree][call.key] = None
<1>1. Inserting /\ ~Limbo
  BY DEF Inserting, Limbo, Unlinked
<1>2. PICK t, k, x : t = call.tree /\ k = call.key /\ x = node
  OBVIOUS
<1>3. /\ call \in Call /\ call # None /\ t \in Trees /\ k \in Keys /\ call.val \in Values
  BY <1>2, CallAssumption DEF TypeOK, Call
<1>4. x \in Members(t) /\ key[x] = k /\ val[x] = call.val /\ Members(t) \subseteq Live
  BY <1>1, <1>2, <1>3 DEF MapLaws, Owned, NewValue
<1>5. Live' = Live
  BY DEF Live
<1>6. \A m : m \in Members(t)' <=> m \in Live /\ m \in Members(t)
  BY <1>2, <1>3, <1>5, OwnMembers
<1>7. Contents(t)' = Members(t)
  <2>1. \A m : m \in Contents(t)' <=> m \in Members(t)'
    BY DEF Contents, InsertInFlight, InsertStep
  <2> QED  BY <2>1, <1>4, <1>6
<1>8. \A m : m \in Contents(t) <=> m \in Members(t) /\ m # x
  BY <1>2 DEF Contents, InsertInFlight
<1>9. \A m \in Members(t) : key[m] = k => m = x
  BY <1>3, <1>4 DEF MapLaws, KeysUnique
<1>10. PICK v \in Values \cup {None} : v = call.val /\ v # None
  BY <1>3, NoneAssumption
<1>11. Dict' = [Dict EXCEPT ![t][k] = v]
  <2>1. v # None => \E m \in Contents(t)' : key'[m] = k /\ val'[m] = v
    BY <1>4, <1>7, <1>10
  <2>2. \A m \in Contents(t)' : key'[m] # k => m \in Contents(t) /\ key[m] = key'[m]
    BY <1>4, <1>7, <1>8
  <2>3. v = None => \A m \in Contents(t)' : key'[m] # k
    BY <1>10
  <2>4. \A m \in Contents(t) : key[m] # k =>
            m \in Contents(t)' /\ key'[m] = key[m] /\ val'[m] = val[m]
    BY <1>7, <1>8
  <2> QED  BY <2>1, <2>2, <2>3, <2>4, <1>2, <1>3, NewBinding
<1>12. Dict[t][k] = None
  <2>1. \A m \in Contents(t) : key[m] # k
    BY <1>8, <1>9
  <2> QED  BY <2>1, <1>3 DEF MapLaws, DictLaws
<1> QED  BY <1>2, <1>10, <1>11, <1>12

(* ... a remove that gives its slot back, ...                              *)
LEMMA FreeBinds ==
  ASSUME TypeOK, LawsHold, [Next]_vars, MapLaws, MapLaws', Free
  PROVE  /\ Dict' = [Dict EXCEPT ![call.tree][call.key] = None]
         /\ Dict[call.tree][call.key] = val[node]
<1>1. Limbo /\ ~Inserting /\ pc' = "idle" /\ pc # "idle"
  BY DEF Free, Return, Inserting, Limbo, InsertStep
<1>2. PICK t, k, x : t = call.tree /\ k = call.key /\ x = node
  OBVIOUS
<1>3. call \in Call /\ call # None /\ t \in Trees /\ k \in Keys
  BY <1>1, <1>2, CallAssumption DEF TypeOK, Call
<1>4. x \in Members(t) /\ key[x] = k /\ Members(t) \subseteq Live
  BY <1>1, <1>2, <1>3 DEF MapLaws, Owned
<1>5. key' = [key EXCEPT ![x] = None] /\ val' = [val EXCEPT ![x] = AnyValue]
  BY <1>2 DEF Free
<1>6. Live' = Live \ {x} /\ Live \subseteq Index
  BY <1>5 DEF Live, TypeOK
<1>7. \A m : m \in Members(t)' <=> m \in Live' /\ (m \in Live => m \in Members(t))
  BY <1>2, <1>3, OwnMembers
<1>8. \A m : m \in Contents(t)' <=> m \in Members(t) /\ m # x
  <2>1. \A m : m \in Contents(t)' <=> m \in Members(t)'
    BY <1>1 DEF Contents, InsertInFlight, InsertStep
  <2> QED  BY <2>1, <1>4, <1>6, <1>7
<1>9. Contents(t) = Members(t)
  BY <1>1 DEF Contents, InsertInFlight, Inserting
<1>10. \A m \in Members(t) : key[m] = k => m = x
  BY <1>3, <1>4 DEF MapLaws, KeysUnique
<1>11. \A m \in Members(t) : m # x => key'[m] = key[m] /\ val'[m] = val[m]
  BY <1>4, <1>5, <1>6 DEF TypeOK
<1>12. Dict' = [Dict EXCEPT ![t][k] = None]
  <2>1. \A m \in Contents(t)' : key'[m] # k
    BY <1>8, <1>10, <1>11
  <2>2. \A m \in Contents(t)' : key'[m] # k => m \in Contents(t) /\ key[m] = key'[m]
    BY <1>8, <1>9, <1>11
  <2>3. \A m \in Contents(t) : key[m] # k =>
            m \in Contents(t)' /\ key'[m] = key[m] /\ val'[m] = val[m]
    BY <1>4, <1>8, <1>9, <1>11
  <2>4. None \in Values \cup {None}
    OBVIOUS
  <2> QED  BY <2>1, <2>2, <2>3, <2>4, <1>2, <1>3, NewBinding
<1>13. Dict[t][k] = val[x]
  BY <1>4, <1>9, <1>3 DEF MapLaws, DictLaws
<1> QED  BY <1>2, <1>12, <1>13

(* ... and the calls that only look.                                       *)
LEMMA LookBinds ==
  ASSUME TypeOK, LawsHold, [Next]_vars, MapLaws, MapLaws', Get \/ Search \/ RemoveMiss
  PROVE  Dict' = Dict
<1>1. /\ pc \in SearchResult /\ pc' = "idle" /\ UNCHANGED <<key, val>>
  BY DEF Get, Search, RemoveMiss, Return, data
<1>2. PICK t : t = call.tree
  OBVIOUS
<1>3. /\ t \in Trees /\ call # None /\ Contents(t) = Members(t) /\ Members(t) \subseteq Live
  BY <1>1, <1>2, Answer
<1>4. Live' = Live
  BY <1>1 DEF Live
<1>5. \A m : m \in Members(t)' <=> m \in Live /\ m \in Members(t)
  BY <1>2, <1>3, <1>4, OwnMembers
<1>6. Contents(t)' = Contents(t)
  <2>1. \A m : m \in Contents(t)' <=> m \in Members(t)'
    BY <1>1 DEF Contents, InsertInFlight, InsertStep
  <2> QED  BY <2>1, <1>3, <1>5
<1> QED  BY <1>1, <1>2, <1>3, <1>6, SameBindings

-----------------------------------------------------------------------------
(* The value of an insert reaches the map as it was given: nothing on the  *)
(* way to the root writes over it.                                         *)
LEMMA NewValueKept ==
  ASSUME TypeOK, LawsHold, NewValue, [Next]_vars
  PROVE  NewValue'
<1>0. PICK D \in [Ref -> SUBSET Index], rk \in [Index -> Int] : Laws(D, rk)
  BY DEF LawsHold
<1>1. CASE UNCHANGED vars
  BY <1>1 DEF NewValue, Inserting, vars
<1>2. ASSUME NEW n \in Index \ Live, InsertAt(n) PROVE NewValue'
  BY <1>2 DEF InsertAt, Hang, NewValue, TypeOK
<1>3. CASE FixInsertDone \/ FixInsertRecolor \/ FixInsertInner \/ FixInsertOuter \/ Blacken
  <2>1. Inserting /\ UNCHANGED <<val, call, node>>
    BY <1>3 DEF FixInsertDone, FixInsertRecolor, FixInsertInner, FixInsertOuter, Blacken,
                RedParent, Inserting, InsertStep, data
  <2> QED  BY <2>1 DEF NewValue
<1>4. CASE Propagate
  <2>1. pc' = "propagate" => Inserting = Inserting' /\ UNCHANGED <<call, node>>
    BY <1>4 DEF Propagate, AfterPropagate, Return, Inserting, InsertStep
  <2>2. pc' \in {"propagate", "idle", "free"} /\ UNCHANGED val
    BY <1>4 DEF Propagate, AfterPropagate, Return, data
  <2> QED  BY <2>1, <2>2 DEF NewValue, Inserting, InsertStep
<1>5. CASE Unthread
  <2>1. call.op = "remove" /\ call' = call /\ pc' = "propagate"
    BY <1>5, <1>0 DEF Unthread, Laws, CallLaws, RemoveStep
  <2> QED  BY <2>1 DEF NewValue, Inserting, InsertStep
<1>6. CASE \/ Descend \/ RemoveHere \/ UnlinkLeaf \/ UnlinkLast \/ (\E i \in Side : UnlinkOneChild(i))
           \/ FixRemoveRedSibling \/ FixRemoveCloseNephew \/ FixRemoveFarNephew \/ FixRemoveRecolor
           \/ Get \/ Search \/ InsertHere \/ (\E n \in Index \ Live : InsertEmpty(n))
           \/ RemoveMiss \/ Free
  <2>1. pc' \notin InsertStep \cup {"propagate"}
    <3> HIDE DEF Side
    <3> QED  BY <1>6 DEF Descend, RemoveHere, UnlinkLeaf, UnlinkLast, UnlinkOneChild,
          FixRemoveRedSibling, FixRemoveCloseNephew, FixRemoveFarNephew, FixRemoveRecolor,
          Get, Search, InsertHere, InsertEmpty, RemoveMiss, Free, Return, InsertStep
  <2> QED  BY <2>1 DEF NewValue, Inserting
<1>7. ASSUME NEW t \in Trees, NEW k \in Keys, NEW v \in Values \cup {None}, NEW op \in Op,
             CallOp(op, t, k, v)
      PROVE  NewValue'
  <2>1. pc' \in SearchResult \cup {"descend"}
    BY <1>7 DEF CallOp, SearchFrom, Found, SearchResult
  <2> QED  BY <2>1 DEF NewValue, Inserting, InsertStep, SearchResult
<1>8. CASE Step
  <2> HIDE DEF Side
  <2> QED  BY <1>8, <1>2, <1>3, <1>4, <1>5, <1>6 DEF Step, Relink
<1> QED  BY <1>1, <1>7, <1>8 DEF Next, Op

-----------------------------------------------------------------------------
(* No step of a call changes the map before the call returns; ...          *)
LEMMA SilentRefines ==
  ASSUME TypeOK, LawsHold, [Next]_vars, MapLaws, MapLaws',
         \/ Descend \/ FixInsertDone \/ FixInsertRecolor \/ FixInsertInner \/ FixInsertOuter
         \/ Blacken \/ (Propagate /\ pc' # "idle")
         \/ (\E i \in Side : UnlinkOneChild(i)) \/ UnlinkLeaf \/ UnlinkLast
         \/ FixRemoveRedSibling \/ FixRemoveCloseNephew \/ FixRemoveFarNephew
         \/ FixRemoveRecolor \/ Unthread
  PROVE  Dict' = Dict /\ ret' = ret
<1>0. PICK D \in [Ref -> SUBSET Index], rk \in [Index -> Int] : Laws(D, rk)
  BY DEF LawsHold
<1>1. UNCHANGED <<key, val, call, node, ret>> /\ pc # "idle"
  <2>1. CASE Propagate /\ pc' # "idle"
    BY <2>1 DEF Propagate, AfterPropagate, Return, data
  <2>2. CASE ~(Propagate /\ pc' # "idle")
    <3> HIDE DEF Side
    <3> QED  BY <2>2 DEF Descend, FixInsertDone, FixInsertRecolor, FixInsertInner, FixInsertOuter,
          Blacken, UnlinkOneChild, UnlinkLeaf, UnlinkLast, FixRemoveRedSibling,
          FixRemoveCloseNephew, FixRemoveFarNephew, FixRemoveRecolor, Unthread, RedParent,
          AtBlackSibling, data
  <2> QED  BY <2>1, <2>2
<1>2. Inserting' <=> Inserting
  <2>1. CASE FixInsertDone \/ FixInsertRecolor \/ FixInsertInner \/ FixInsertOuter \/ Blacken
    <3>1. pc \in InsertStep /\ pc' \in InsertStep \cup {"propagate"}
      BY <2>1 DEF FixInsertDone, FixInsertRecolor, FixInsertInner, FixInsertOuter, Blacken,
                  RedParent, InsertStep
    <3>2. call.op = "insert"
      BY <3>1, <1>0 DEF Laws, CallLaws
    <3> QED  BY <3>1, <3>2, <1>1 DEF Inserting
  <2>2. CASE Propagate /\ pc' # "idle"
    <3>1. pc = "propagate" /\ (pc' = "propagate" \/ (pc' = "free" /\ call.op # "insert"))
      BY <2>2 DEF Propagate, AfterPropagate, Return
    <3> QED  BY <3>1, <1>1 DEF Inserting, InsertStep
  <2>3. CASE Unthread
    <3>1. pc = "unthread" /\ pc' = "propagate" /\ call.op = "remove"
      BY <2>3, <1>0 DEF Unthread, Laws, CallLaws, RemoveStep
    <3> QED  BY <3>1, <1>1 DEF Inserting, InsertStep
  <2>4. CASE \/ Descend \/ (\E i \in Side : UnlinkOneChild(i)) \/ UnlinkLeaf \/ UnlinkLast
             \/ FixRemoveRedSibling \/ FixRemoveCloseNephew \/ FixRemoveFarNephew
             \/ FixRemoveRecolor
    <3>1. pc \notin InsertStep \cup {"propagate"} /\ pc' \notin InsertStep \cup {"propagate"}
      <4> HIDE DEF Side
      <4> QED  BY <2>4 DEF Descend, UnlinkOneChild, UnlinkLeaf, UnlinkLast, FixRemoveRedSibling,
            FixRemoveCloseNephew, FixRemoveFarNephew, FixRemoveRecolor, AtBlackSibling, InsertStep
    <3> QED  BY <3>1 DEF Inserting
  <2> QED  BY <2>1, <2>2, <2>3, <2>4
<1>3. Dict' = Dict
  BY <1>1, <1>2, QuietBinds
<1> QED  BY <1>1, <1>3

(* ... the step that returns does to the map what the call is for.         *)
LEMMA InsertRefines ==
  ASSUME TypeOK, LawsHold, [Next]_vars, MapLaws, MapLaws', NewValue,
         \/ InsertHere \/ (\E n \in Index \ Live : InsertEmpty(n))
         \/ (Propagate /\ pc' = "idle")
  PROVE  Map!Next
<1>0. PICK D \in [Ref -> SUBSET Index], rk \in [Index -> Int] : Laws(D, rk)
  BY DEF LawsHold
<1>1. PICK r \in BOOLEAN : /\ ret' = <<call, r>> /\ call.op = "insert"
                           /\ Dict' = [Dict EXCEPT ![call.tree][call.key] = call.val]
                           /\ r = (Dict[call.tree][call.key] = None)
  <2>1. CASE InsertHere
    BY <2>1, InsertHereBinds DEF InsertHere, Return
  <2>2. ASSUME NEW n \in Index \ Live, InsertEmpty(n)
        PROVE  /\ ret' = <<call, TRUE>> /\ call.op = "insert"
               /\ Dict' = [Dict EXCEPT ![call.tree][call.key] = call.val]
               /\ Dict[call.tree][call.key] = None
    BY <2>2, InsertEmptyBinds DEF InsertEmpty, Return
  <2>3. CASE Propagate /\ pc' = "idle"
    <3>1. /\ pc = "propagate" /\ call.op = "insert" /\ ret' = <<call, TRUE>>
          /\ UNCHANGED <<key, val>>
      BY <2>3 DEF Propagate, AfterPropagate, Return, data
    <3> QED  BY <2>3, <3>1, InsertedBinds
  <2> QED  BY <2>1, <2>2, <2>3
<1>2. pc # "idle"
  BY DEF InsertHere, InsertEmpty, Propagate
<1>3. PICK t \in Trees, k \in Keys, v \in Values :
        call = [op |-> "insert", tree |-> t, key |-> k, val |-> v]
  BY <1>1, <1>2 DEF TypeOK, Call
<1>4. Map!Insert(t, k, v)
  BY <1>1, <1>3 DEF Map!Insert, Map!Done
<1> QED  BY <1>4 DEF Map!Next

(* Remove, whether it finds the key or not.                                *)
LEMMA RemoveRefines ==
  ASSUME TypeOK, LawsHold, [Next]_vars, MapLaws, MapLaws', Free \/ RemoveMiss
  PROVE  Map!Next
<1>0. PICK D \in [Ref -> SUBSET Index], rk \in [Index -> Int] : Laws(D, rk)
  BY DEF LawsHold
<1>1. /\ ret' = <<call, Dict[call.tree][call.key]>> /\ call.op = "remove" /\ pc # "idle"
      /\ Dict' = [Dict EXCEPT ![call.tree][call.key] = None]
  <2>1. CASE Free
    <3>1. call.op = "remove" /\ pc # "idle"
      BY <2>1, <1>0 DEF Free, Laws, CallLaws, RemoveStep
    <3> QED  BY <2>1, <3>1, FreeBinds DEF Free, Return
  <2>2. CASE RemoveMiss
    <3>1. /\ pc \in SearchResult /\ pc # "Here" /\ pc # "idle"
          /\ ret' = <<call, None>> /\ call.op = "remove"
      BY <2>2 DEF RemoveMiss, Return, SearchResult
    <3>2. call.tree \in Trees /\ call.key \in Keys
      BY <3>1, Answer
    <3>3. Dict[call.tree][call.key] = None
      BY <3>1, <3>2, Absent DEF MapLaws, DictLaws
    <3>4. Dict' = Dict
      BY <2>2, LookBinds
    <3>5. Dict = [Dict EXCEPT ![call.tree][call.key] = None]
      <4>1. Dict \in [Trees -> [Keys -> Values \cup {None}]]
        BY DEF MapLaws, DictLaws
      <4> QED  BY <4>1, <3>2, <3>3
    <3> QED  BY <3>1, <3>3, <3>4, <3>5
  <2> QED  BY <2>1, <2>2
<1>2. PICK t \in Trees, k \in Keys :
        call = [op |-> "remove", tree |-> t, key |-> k, val |-> None]
  BY <1>1 DEF TypeOK, Call
<1>3. Map!Remove(t, k)
  BY <1>1, <1>2 DEF Map!Remove, Map!Done
<1> QED  BY <1>3 DEF Map!Next

(* Get.                                                                    *)
LEMMA GetRefines ==
  ASSUME TypeOK, LawsHold, [Next]_vars, MapLaws, MapLaws', Get
  PROVE  Map!Next
<1>1. /\ pc \in SearchResult /\ call.op = "get"
      /\ ret' = <<call, IF pc = "Here" THEN val[ptr] ELSE None>>
  BY DEF Get, Return
<1>2. /\ call \in Call /\ call.tree \in Trees /\ call.key \in Keys
      /\ pc = "Here" => ptr \in Contents(call.tree) /\ key[ptr] = call.key
  BY <1>1, Answer
<1>3. Dict[call.tree][call.key] = IF pc = "Here" THEN val[ptr] ELSE None
  <2>1. CASE pc = "Here"
    BY <2>1, <1>2 DEF MapLaws, DictLaws
  <2>2. CASE pc # "Here"
    BY <2>2, <1>1, <1>2, Absent DEF MapLaws, DictLaws
  <2> QED  BY <2>1, <2>2
<1>4. Dict' = Dict
  BY LookBinds
<1>5. PICK t \in Trees, k \in Keys :
        call = [op |-> "get", tree |-> t, key |-> k, val |-> None]
  BY <1>1, <1>2 DEF Call
<1>6. Map!Get(t, k)
  BY <1>1, <1>3, <1>4, <1>5 DEF Map!Get, Map!Done
<1> QED  BY <1>6 DEF Map!Next

(* Search: what it answers is the key, or a neighbour of it in the map.    *)
LEMMA SearchRefines ==
  ASSUME TypeOK, LawsHold, [Next]_vars, MapLaws, MapLaws', Search
  PROVE  Map!Next
<1>1. /\ pc \in SearchResult /\ call.op = "search"
      /\ ret' = <<call, <<pc, IF pc = "Empty" THEN None ELSE key[ptr]>>>>
  BY DEF Search, Return
<1>2. /\ call \in Call /\ call.tree \in Trees
      /\ pc = "Empty" => Contents(call.tree) = {}
      /\ pc = "Here" => ptr \in Contents(call.tree) /\ key[ptr] = call.key
      /\ \A i \in Side : pc = Frontier(i) =>
              /\ ptr \in Contents(call.tree) /\ Before(i, call.key, key[ptr])
              /\ \A m \in Contents(call.tree) :
                   Before(i, key[m], key[ptr]) => Before(i, key[m], call.key)
  BY <1>1, Answer
<1>3. PICK t \in Trees, k \in Keys :
        call = [op |-> "search", tree |-> t, key |-> k, val |-> None]
  BY <1>1, <1>2 DEF Call
<1>4. Dict' = Dict
  BY LookBinds
<1>5. DictLaws /\ Keys \subseteq Int
  BY KeysAssumption DEF MapLaws
<1>6. Map!Domain(t) = {key[n] : n \in Contents(t)}
  <2>1. Map!Domain(t) = {l \in Keys : Dict[t][l] # None}
    BY DEF Map!Domain
  <2>2. ASSUME NEW n \in Contents(t) PROVE key[n] \in Keys /\ Dict[t][key[n]] # None
    BY <1>5, NoneAssumption DEF DictLaws
  <2>3. ASSUME NEW l \in Keys, Dict[t][l] # None PROVE \E n \in Contents(t) : l = key[n]
    BY <1>5, <2>3 DEF DictLaws
  <2> QED  BY <2>1, <2>2, <2>3
<1>7. PICK E : E = Map!Domain(t)
  OBVIOUS
<1>8. E \subseteq Int /\ k \in Int
  BY <1>5, <1>7 DEF Map!Domain
<1>9. CASE pc = "Empty"
  <2>1. E = {} /\ ret' = <<call, <<"Empty", None>>>>
    BY <1>1, <1>2, <1>3, <1>6, <1>7, <1>9
  <2>2. Map!Search(t, k)
    BY <2>1, <1>3, <1>4, <1>7 DEF Map!Search, Map!Done
  <2> QED  BY <2>2 DEF Map!Next
<1>10. CASE pc = "Here"
  <2>1. k \in E /\ ret' = <<call, <<"Here", k>>>>
    BY <1>1, <1>2, <1>3, <1>6, <1>7, <1>10
  <2>2. Map!Search(t, k)
    BY <2>1, <1>3, <1>4, <1>7 DEF Map!Search, Map!Done
  <2> QED  BY <2>2 DEF Map!Next
<1>11. ASSUME pc # "Here", pc # "Empty" PROVE Map!Next
  <2>1. PICK l : l = key[ptr] /\ ret' = <<call, <<pc, l>>>>
    BY <1>1, <1>11
  <2>2. k \notin E
    <3>1. \A n \in Contents(t) : key[n] # k
      BY <1>1, <1>3, <1>11, Absent
    <3> QED  BY <3>1, <1>6, <1>7
  <2>3. ASSUME NEW i \in Side, pc = Frontier(i)
        PROVE  l \in E /\ Before(i, k, l) /\ \A m \in E : Before(i, m, l) => Before(i, m, k)
    BY <2>1, <2>3, <1>2, <1>3, <1>6, <1>7
  <2>4. CASE pc = "LeftOf"
    <3>1. l \in E /\ k < l /\ \A m \in E : m < l => m < k
      BY <2>3, <2>4 DEF Frontier, Before
    <3>2. \A m \in E : k < m => l <= m
      BY <3>1, <1>8
    <3>3. Map!IsSuccessor(l, E, k)
      BY <3>1, <3>2 DEF Map!IsSuccessor
    <3>4. Map!Search(t, k)
      BY <2>1, <2>2, <2>4, <3>1, <3>3, <1>3, <1>4, <1>7 DEF Map!Search, Map!Done
    <3> QED  BY <3>4 DEF Map!Next
  <2>5. CASE pc = "RightOf"
    <3>1. l \in E /\ l < k /\ \A m \in E : l < m => k < m
      BY <2>3, <2>5 DEF Frontier, Before
    <3>2. \A m \in E : m < k => m <= l
      BY <3>1, <1>8
    <3>3. Map!IsPredecessor(l, E, k)
      BY <3>1, <3>2 DEF Map!IsPredecessor
    <3>4. Map!Search(t, k)
      BY <2>1, <2>2, <2>5, <3>1, <3>3, <1>3, <1>4, <1>7 DEF Map!Search, Map!Done
    <3> QED  BY <3>4 DEF Map!Next
  <2> QED  BY <2>4, <2>5, <1>1, <1>11 DEF SearchResult
<1> QED  BY <1>9, <1>10, <1>11

(* Every step is a step of the ordered map, or none.                       *)
LEMMA StepRefines ==
  ASSUME TypeOK, LawsHold, NewValue, MapLaws, MapLaws', [Next]_vars
  PROVE  [Map!Next]_Map!vars
<1>1. ASSUME call = None \/ UNCHANGED vars PROVE Dict' = Dict /\ ret' = ret
  <2>0. DictLaws /\ DictLaws'
    BY DEF MapLaws
  <2>1. CASE call = None
    <3>1. \A t \in Trees : Dict'[t] = Dict[t]
      BY <2>1, OthersBind
    <3>2. pc = "idle"
      BY <2>1 DEF LawsHold, Laws, CallLaws
    <3>3. ret' = ret
      <4> HIDE DEF Side
      <4> QED  BY <3>2 DEF Next, Step, Relink, CallOp, vars, Descend,
            FixInsertDone, Propagate, Get, Search, RemoveMiss, InsertHere, SearchResult,
            FixInsertRecolor, Blacken, FixRemoveRecolor, AtBlackSibling, RedParent,
            FixInsertInner, FixInsertOuter, FixRemoveRedSibling, FixRemoveCloseNephew,
            FixRemoveFarNephew, RemoveHere, UnlinkOneChild, UnlinkLeaf, UnlinkLast,
            Unthread, Free, InsertEmpty, InsertAt, Hang
    <3> QED  BY <2>0, <3>1, <3>3 DEF DictLaws
  <2>2. CASE call # None
    <3>1. pc # "idle" /\ UNCHANGED vars
      BY <1>1, <2>2 DEF LawsHold, Laws, CallLaws
    <3>2. UNCHANGED <<key, val, call, node, ret>> /\ (Inserting' <=> Inserting)
      BY <3>1 DEF vars, Inserting
    <3> QED  BY <3>1, <3>2, QuietBinds
  <2> QED  BY <2>1, <2>2
<1>2. CASE \/ Descend \/ FixInsertDone \/ FixInsertRecolor \/ FixInsertInner \/ FixInsertOuter
           \/ Blacken \/ (Propagate /\ pc' # "idle")
           \/ (\E i \in Side : UnlinkOneChild(i)) \/ UnlinkLeaf \/ UnlinkLast
           \/ FixRemoveRedSibling \/ FixRemoveCloseNephew \/ FixRemoveFarNephew
           \/ FixRemoveRecolor \/ Unthread
  BY <1>2, SilentRefines DEF Map!vars
<1>3. CASE RemoveHere
  <2>1. ret' = ret
    BY <1>3 DEF RemoveHere
  <2> QED  BY <2>1, <1>3, RemoveHereBinds DEF Map!vars
<1>4. ASSUME NEW n \in Index \ Live, InsertAt(n) PROVE Dict' = Dict /\ ret' = ret
  BY <1>4, InsertAtBinds DEF InsertAt, Hang
<1>5. CASE \/ InsertHere \/ (\E n \in Index \ Live : InsertEmpty(n))
           \/ (Propagate /\ pc' = "idle")
  BY <1>5, InsertRefines
<1>6. CASE Free \/ RemoveMiss
  BY <1>6, RemoveRefines
<1>7. CASE Get
  BY <1>7, GetRefines
<1>8. CASE Search
  BY <1>8, SearchRefines
<1>9. ASSUME NEW t \in Trees, NEW k \in Keys, NEW v, NEW op, CallOp(op, t, k, v)
      PROVE  call = None
  BY <1>9 DEF CallOp, LawsHold, Laws, CallLaws
<1>10. CASE Step
  <2> HIDE DEF Side
  <2> QED  BY <1>10, <1>2, <1>3, <1>4, <1>5, <1>6, <1>7, <1>8 DEF Step, Relink, Map!vars
<1> QED  BY <1>1, <1>9, <1>10 DEF Next, Map!vars

(* The trees are ordered maps: insert, remove, get and search take effect  *)
(* at the step that returns, with the map's result, and nothing before     *)
(* that step can be seen, in any number of trees of any size.              *)
THEOREM TreesAreMaps == Spec => ImplementsOrderedMap
<1>1. Init => Map!Init
  <2> SUFFICES ASSUME Init PROVE Map!Init
    OBVIOUS
  <2>1. TypeOK /\ LawsHold /\ ret = None
    BY InitType, InitLaws DEF Init
  <2>2. DictLaws /\ Owned /\ Live = {}
    BY <2>1, DictIs, MembersOwned DEF Live, Init
  <2>3. \A t \in Trees : Contents(t) = {}
    BY <2>2 DEF Owned, Contents
  <2>4. \A t \in Trees, k \in Keys : Dict[t][k] = None
    BY <2>2, <2>3 DEF DictLaws
  <2>5. Dict = [t \in Trees |-> [k \in Keys |-> None]]
    BY <2>2, <2>4 DEF DictLaws
  <2> QED  BY <2>1, <2>5 DEF Map!Init
<1>2. Init => NewValue
  BY DEF Init, NewValue, Inserting, InsertStep
<1>3. TypeOK /\ LawsHold /\ NewValue /\ [Next]_vars => NewValue'
  BY NewValueKept
<1>4. TypeOK /\ LawsHold => MapLaws
  BY MapHolds
<1>5. TypeOK /\ LawsHold /\ NewValue /\ MapLaws /\ MapLaws' /\ [Next]_vars => [Map!Next]_Map!vars
  BY StepRefines
<1> QED  BY <1>1, <1>2, <1>3, <1>4, <1>5, LawsCorrect, PTL
         DEF Spec, ImplementsOrderedMap, Map!Spec
=============================================================================
