------------------------------- MODULE RBTree -------------------------------
(***************************************************************************)
(* The threaded red-black trees of one forest, at the grain of the code's  *)
(* loops: insert, remove, get and search (tree/interface.rs) over the      *)
(* search, insert_at, fix_insert, remove_at, fix_remove, rotate and        *)
(* propagate_cumulant of tree/mod.rs.                                      *)
(*                                                                         *)
(* Nodes live in the slots of one arena that all trees share; a tree is    *)
(* its Bounds (root, range, black_height).  A call has a guard of its      *)
(* tree, which is why none that changes it is in between, and writes to    *)
(* the nodes and Bounds of that tree only (OtherTreesUntouched), which is  *)
(* why its steps commute with those of calls on other trees and one call   *)
(* in flight at a time is enough: its local variables are the registers    *)
(* call, node, ptr, par, dir and pc.                                       *)
(*                                                                         *)
(* Side 0 is left / previous, side 1 is right / next.                      *)
(* Where the code unwraps an Option, a guard says it is not None: a panic  *)
(* is a call that never steps again, which deadlock checking finds.        *)
(***************************************************************************)
EXTENDS Integers, FiniteSets

CONSTANTS
  Index,              \* slots of the arena: bounds the nodes alive at once
  Keys,               \* K: Ord
  Values,             \* V::Local
  Trees,              \* trees of the forest
  None,               \* Option::None
  HasCumulant,        \* V::has_cumulant()
  Cumulants,          \* V::Cumulant
  DefaultCumulant,    \* $cumulantdefault
  Combine(_, _, _)    \* $updatebody: local value, left and right cumulant

ASSUME IndexAssumption == IsFiniteSet(Index)   \* slots are numbered by a machine word
ASSUME KeysAssumption == Keys \subseteq Int
ASSUME NoneAssumption == None \notin Index \cup Keys \cup Values \cup Trees
ASSUME ValuesAssumption == Values # {}
ASSUME CumulantAssumption ==
  /\ HasCumulant \in BOOLEAN
  /\ DefaultCumulant \in Cumulants
  /\ \A v \in Values, l, r \in Cumulants : Combine(v, l, r) \in Cumulants

Side == {0, 1}
Ref == Index \cup {None}
Color == {"Red", "Black"}

SearchResult == {"Empty", "Here", "LeftOf", "RightOf"}
InsertStep == {"fix_insert", "rotate_outer", "blacken"}
FixRemoveStep == {"fix_remove", "black_sibling", "red_far_nephew"}
RemoveStep == {"unlink", "unthread", "free"} \cup FixRemoveStep
PC == {"idle", "descend", "propagate"} \cup SearchResult \cup InsertStep \cup RemoveStep

Op == {"insert", "remove", "get", "search"}
Call ==
  [op : {"insert"}, tree : Trees, key : Keys, val : Values] \cup
  [op : Op \ {"insert"}, tree : Trees, key : Keys, val : {None}]

ASSUME CallAssumption == None \notin Call

VARIABLES
  key, val, cum, color, parent, child, order,  \* the node in each slot
  root, range, black_height,                   \* Bounds of each tree
  pc,      \* where the call in flight is, or what its search returned
  call,    \* the arguments of the call in flight, or None
  node,    \* the node being inserted, or unlinked and freed
  ptr,     \* the cursor of the running loop
  par,     \* fix_remove: the parent whose subtree on side dir ...
  dir,     \* ... has one black node too few
  ret      \* the last finished call and what it returned

data == <<key, val>>
links == <<parent, child>>
bounds == <<root, range, black_height>>
vars == <<key, val, cum, color, parent, child, order, root, range, black_height,
          pc, call, node, ptr, par, dir, ret>>

AnyValue == CHOOSE v \in Values : TRUE   \* what a free slot holds
NoLinks == [i \in Side |-> None]
Live == {n \in Index : key[n] # None}

Init ==
  /\ key = [n \in Index |-> None]
  /\ val = [n \in Index |-> AnyValue]
  /\ cum = [n \in Index |-> DefaultCumulant]
  /\ color = [n \in Index |-> "Red"]
  /\ parent = [n \in Index |-> None]
  /\ child = [n \in Index |-> NoLinks]
  /\ order = [n \in Index |-> NoLinks]
  /\ root = [t \in Trees |-> None]
  /\ range = [t \in Trees |-> NoLinks]
  /\ black_height = [t \in Trees |-> 0]
  /\ pc = "idle"
  /\ call = None
  /\ node = None /\ ptr = None /\ par = None /\ dir = 0
  /\ ret = None

-----------------------------------------------------------------------------
(* Helpers of tree/mod.rs, as functions of the current links.              *)

SetAt(f, m, x) == IF m = None THEN f ELSE [f EXCEPT ![m] = x]
SetLink(f, m, i, x) == IF m = None THEN f ELSE [f EXCEPT ![m][i] = x]
IsRed(n) == n # None /\ color[n] = "Red"

(* The side of p that n hangs on.                                          *)
SideOf(p, n) == IF child[p][0] = n THEN 0 ELSE 1

(* update_cumulant: a missing child counts as the default.                 *)
CumulantOf(n, ch) ==
  LET Of(c) == IF c = None THEN DefaultCumulant ELSE cum[c]
  IN  Combine(val[n], Of(ch[0]), Of(ch[1]))

(* replace: what hung on old's parent, or was the root, is now new.        *)
ReplacedParent(old, new) == SetAt(parent, new, parent[old])
ReplacedChild(old, new) == SetLink(child, parent[old], SideOf(parent[old], old), new)
ReplacedNoRoot(old, new) == root                      \* faulty: the root stays
ReplacedRoots(old, new) ==                            \* faulty: of every tree
  IF parent[old] = None THEN [t \in Trees |-> new] ELSE root
ReplacedRoot(old, new) ==
  IF parent[old] = None THEN [root EXCEPT ![call.tree] = new] ELSE root

(* The node that a rotation takes down gets the cumulant of its new        *)
(* subtree; ch are its new children.                                       *)
StaleCumulant(n, ch) == cum                           \* faulty: left as it was
LoweredCumulant(n, ch) ==
  IF HasCumulant THEN [cum EXCEPT ![n] = CumulantOf(n, ch)] ELSE cum

(* rotate::<I>: the child of n on side 1 - i takes n's place, n becomes    *)
(* its child on side i, and the subtree in between changes hands.          *)
Rotate(i, n) ==
  LET pivot == child[n][1 - i]
      inner == child[pivot][i]
  IN  /\ pivot # None
      /\ parent' = SetAt([ReplacedParent(n, pivot) EXCEPT ![n] = pivot], inner, n)
      /\ child' = [ReplacedChild(n, pivot) EXCEPT ![pivot][i] = n, ![n][1 - i] = inner]
      /\ root' = ReplacedRoot(n, pivot)
      /\ cum' = LoweredCumulant(n, child'[n])

(* A call returns r: its registers are dead.                               *)
Return(r) ==
  /\ ret' = <<call, r>>
  /\ pc' = "idle"
  /\ call' = None
  /\ node' = None /\ ptr' = None /\ par' = None /\ dir' = 0

-----------------------------------------------------------------------------
(* search_by: the range answers what lies outside of it, and its ends.     *)

FoundBeyond(where, n) ==                              \* faulty: the neighbour of n
  pc' = where /\ ptr' = order[n][IF where = "LeftOf" THEN 0 ELSE 1]
Found(where, n) == pc' = where /\ ptr' = n

SearchFrom(t, k) ==
  LET min == range[t][0]
      max == range[t][1]
  IN  IF min = None \/ max = None
      THEN pc' = "Empty" /\ ptr' = None
      ELSE \/ key[min] > k /\ Found("LeftOf", min)
           \/ key[min] = k /\ Found("Here", min)
           \/ key[min] < k /\ key[max] < k /\ Found("RightOf", max)
           \/ key[min] < k /\ key[max] = k /\ Found("Here", max)
           \/ key[min] < k /\ key[max] > k /\ Found("descend", root[t])

(* The nodes of a tree, as the closure of its root under children.         *)
Closure(S, Succ(_)) ==
  LET Reached[R \in SUBSET Ref] ==
        LET next == R \cup UNION {Succ(n) : n \in R}
        IN  IF next = R THEN R ELSE Reached[next]
  IN  Reached[S] \ {None}

Children(n) == IF n = None THEN {} ELSE {child[n][0], child[n][1]}
Subtree(n) == Closure({n}, Children)
Attached(t) == Subtree(root[t])

(* An insert that finds its key takes no slot.                             *)
Overwrites(t, k) == \E n \in Attached(t) : key[n] = k

(* A client calls an operation of tree t.  An insert of a new key needs a  *)
(* free slot: the arena grows on demand, Index bounds it.                  *)
CallOp(op, t, k, v) ==
  /\ pc = "idle"
  /\ op = "insert" => Live # Index \/ Overwrites(t, k)
  /\ call' = [op |-> op, tree |-> t, key |-> k, val |-> v]
  /\ SearchFrom(t, k)
  /\ UNCHANGED <<data, cum, color, links, order, bounds, node, par, dir, ret>>

(* One iteration of search_by's loop.                                      *)
Descend ==
  /\ pc = "descend" /\ ptr # None
  /\ IF key[ptr] = call.key
     THEN pc' = "Here" /\ UNCHANGED ptr
     ELSE LET i == IF key[ptr] > call.key THEN 0 ELSE 1
          IN  IF child[ptr][i] # None
              THEN ptr' = child[ptr][i] /\ UNCHANGED pc
              ELSE pc' = (IF i = 0 THEN "LeftOf" ELSE "RightOf") /\ UNCHANGED ptr
  /\ UNCHANGED <<data, cum, color, links, order, bounds, call, node, par, dir, ret>>

Get ==
  /\ pc \in SearchResult /\ call.op = "get"
  /\ Return(IF pc = "Here" THEN val[ptr] ELSE None)
  /\ UNCHANGED <<data, cum, color, links, order, bounds>>

Search ==
  /\ pc \in SearchResult /\ call.op = "search"
  /\ Return(<<pc, IF pc = "Empty" THEN None ELSE key[ptr]>>)
  /\ UNCHANGED <<data, cum, color, links, order, bounds>>

-----------------------------------------------------------------------------
(* insert                                                                  *)

(* The key is there: its whole value is replaced by a fresh V::new(value). *)
InsertHere ==
  /\ pc = "Here" /\ call.op = "insert"
  /\ val' = [val EXCEPT ![ptr] = call.val]
  /\ cum' = [cum EXCEPT ![ptr] = DefaultCumulant]
  /\ Return(FALSE)
  /\ UNCHANGED <<key, color, links, order, bounds>>

InsertEmpty(n) ==
  LET t == call.tree IN
  /\ pc = "Empty" /\ call.op = "insert"
  /\ key' = [key EXCEPT ![n] = call.key]
  /\ val' = [val EXCEPT ![n] = call.val]
  /\ color' = [color EXCEPT ![n] = "Black"]
  /\ cum' = [cum EXCEPT ![n] = IF HasCumulant
                               THEN Combine(call.val, DefaultCumulant, DefaultCumulant)
                               ELSE DefaultCumulant]
  /\ parent' = [parent EXCEPT ![n] = None]
  /\ child' = [child EXCEPT ![n] = NoLinks]
  /\ order' = [order EXCEPT ![n] = NoLinks]
  /\ root' = [root EXCEPT ![t] = n]
  /\ range' = [range EXCEPT ![t] = [i \in Side |-> n]]
  /\ black_height' = [black_height EXCEPT ![t] = 1]
  /\ Return(TRUE)

(* insert_at::<I>: hang the red node n on side i of the node the search    *)
(* ended at, and thread it between that node and its neighbour.            *)
Hang(n) ==
  LET i == IF pc = "LeftOf" THEN 0 ELSE 1
      p == ptr
      far == order[p][i]
  IN
  /\ pc \in {"LeftOf", "RightOf"} /\ call.op = "insert"
  /\ color' = [color EXCEPT ![n] = "Red"]
  /\ parent' = [parent EXCEPT ![n] = p]
  /\ child' = [child EXCEPT ![n] = NoLinks, ![p][i] = n]
  /\ order' = [SetLink(order, far, 1 - i, n)
                 EXCEPT ![n] = [j \in Side |-> IF j = i THEN far ELSE p], ![p][i] = n]
  /\ range' = IF far = None THEN [range EXCEPT ![call.tree][i] = n] ELSE range
  /\ pc' = IF parent[p] # None THEN "fix_insert" ELSE "propagate"
  /\ node' = n /\ ptr' = n
  /\ UNCHANGED <<root, black_height, call, par, dir, ret>>

InsertAt(n) ==
  /\ Hang(n)
  /\ key' = [key EXCEPT ![n] = call.key]
  /\ val' = [val EXCEPT ![n] = call.val]
  /\ cum' = [cum EXCEPT ![n] = DefaultCumulant]

(* fix_insert: ptr is red, and so may its parent be.                       *)
FixInsertDone ==
  /\ pc = "fix_insert" /\ parent[ptr] # None
  /\ ~IsRed(parent[ptr])
  /\ pc' = "blacken"
  /\ UNCHANGED <<data, cum, color, links, order, bounds, call, node, ptr, par, dir, ret>>

Grandparent == parent[parent[ptr]]
UncleSide == 1 - SideOf(Grandparent, parent[ptr])
Uncle == child[Grandparent][UncleSide]

RedParentBelowRoot ==                                 \* faulty: not at the top levels
  pc = "fix_insert" /\ IsRed(parent[ptr]) /\ parent[Grandparent] # None
RedParent == pc = "fix_insert" /\ IsRed(parent[ptr]) /\ Grandparent # None

FixInsertRecolor ==
  /\ RedParent /\ IsRed(Uncle)
  /\ color' = [color EXCEPT ![Uncle] = "Black", ![parent[ptr]] = "Black",
                            ![Grandparent] = "Red"]
  /\ ptr' = Grandparent
  /\ pc' = IF root[call.tree] = Grandparent THEN "blacken" ELSE "fix_insert"
  /\ UNCHANGED <<data, cum, links, order, bounds, call, node, par, dir, ret>>

(* helper::<I, I>: ptr is the inner grandchild; its parent goes down.      *)
FixInsertInner ==
  /\ RedParent /\ ~IsRed(Uncle)
  /\ SideOf(parent[ptr], ptr) = UncleSide
  /\ Rotate(1 - UncleSide, parent[ptr])
  /\ ptr' = parent[ptr]
  /\ pc' = "rotate_outer"
  /\ UNCHANGED <<data, color, order, range, black_height, call, node, par, dir, ret>>

FixInsertOuter ==
  /\ \/ pc = "rotate_outer" /\ parent[ptr] # None /\ Grandparent # None
     \/ RedParent /\ ~IsRed(Uncle) /\ SideOf(parent[ptr], ptr) # UncleSide
  /\ color' = [color EXCEPT ![parent[ptr]] = "Black", ![Grandparent] = "Red"]
  /\ Rotate(UncleSide, Grandparent)
  /\ pc' = IF root'[call.tree] = ptr THEN "blacken" ELSE "fix_insert"
  /\ UNCHANGED <<data, order, range, black_height, call, node, ptr, par, dir, ret>>

(* A red root that turns black is a level more on every path.              *)
UncountedHeight(t, r) == black_height                 \* faulty: not counted
Heightened(t, r) ==
  IF IsRed(r) THEN [black_height EXCEPT ![t] = @ + 1] ELSE black_height

Blacken ==
  LET t == call.tree
      r == root[t]
  IN
  /\ pc = "blacken" /\ r # None
  /\ color' = [color EXCEPT ![r] = "Black"]
  /\ black_height' = Heightened(t, r)
  /\ pc' = "propagate" /\ ptr' = node
  /\ UNCHANGED <<data, cum, links, order, root, range, call, node, par, dir, ret>>

-----------------------------------------------------------------------------
(* propagate_cumulant, one node per step; without cumulants it is skipped. *)

AfterPropagate ==
  IF call.op = "insert"
  THEN Return(TRUE)
  ELSE pc' = "free" /\ UNCHANGED <<call, node, ptr, par, dir, ret>>

Propagate ==
  /\ pc = "propagate"
  /\ IF HasCumulant /\ ptr # None
     THEN /\ cum' = [cum EXCEPT ![ptr] = CumulantOf(ptr, child[ptr])]
          /\ ptr' = parent[ptr]
          /\ UNCHANGED <<pc, call, node, par, dir, ret>>
     ELSE AfterPropagate /\ UNCHANGED cum
  /\ UNCHANGED <<data, color, links, order, bounds>>

-----------------------------------------------------------------------------
(* remove                                                                  *)

RemoveMiss ==
  /\ pc \in SearchResult \ {"Here"} /\ call.op = "remove"
  /\ Return(None)
  /\ UNCHANGED <<data, cum, color, links, order, bounds>>

(* remove_at: a node with two children trades its key and value with its   *)
(* successor, and the successor's slot is the one to unlink.               *)
Copied(f, n, m) == [f EXCEPT ![n] = f[m]]             \* faulty: one way only
Swapped(f, n, m) == [f EXCEPT ![n] = f[m], ![m] = f[n]]

RemoveHere ==
  LET next == order[ptr][1] IN
  /\ pc = "Here" /\ call.op = "remove"
  /\ IF \A i \in Side : child[ptr][i] # None
     THEN /\ next # None /\ node' = next
          /\ key' = Swapped(key, ptr, next)
          /\ val' = Swapped(val, ptr, next)
          /\ cum' = Swapped(cum, ptr, next)
     ELSE node' = ptr /\ UNCHANGED <<data, cum>>
  /\ pc' = "unlink" /\ ptr' = None
  /\ UNCHANGED <<color, links, order, bounds, call, par, dir, ret>>

(* One child: it takes the node's place and turns black.                   *)
UnlinkOneChild(i) ==
  LET c == child[node][i] IN
  /\ pc = "unlink"
  /\ c # None /\ child[node][1 - i] = None
  /\ parent' = ReplacedParent(node, c)
  /\ child' = ReplacedChild(node, c)
  /\ root' = ReplacedRoot(node, c)
  /\ color' = [color EXCEPT ![c] = "Black"]
  /\ pc' = "unthread"
  /\ UNCHANGED <<data, cum, order, range, black_height, call, node, ptr, par, dir, ret>>

IsLeaf(n) == child[n] = NoLinks

UnlinkLeaf ==
  LET p == parent[node]
      i == SideOf(p, node)
  IN
  /\ pc = "unlink"
  /\ IsLeaf(node) /\ p # None
  /\ child' = [child EXCEPT ![p][i] = None]
  /\ IF color[node] = "Red"
     THEN pc' = "unthread" /\ UNCHANGED <<par, dir>>
     ELSE pc' = "fix_remove" /\ par' = p /\ dir' = i
  /\ UNCHANGED <<data, cum, color, parent, order, bounds, call, node, ptr, ret>>

(* The last node of the tree: its Bounds are back to the default.          *)
UnlinkLast ==
  LET t == call.tree IN
  /\ pc = "unlink"
  /\ IsLeaf(node) /\ parent[node] = None
  /\ root' = [root EXCEPT ![t] = None]
  /\ range' = [range EXCEPT ![t] = NoLinks]
  /\ black_height' = [black_height EXCEPT ![t] = 0]
  /\ pc' = "free"
  /\ UNCHANGED <<data, cum, color, links, order, call, node, ptr, par, dir, ret>>

(* fix_remove, helper::<dir>: the subtree of par on side dir lacks one     *)
(* black node.                                                             *)
Sibling == child[par][1 - dir]
CloseNephew == child[Sibling][dir]
FarNephew == child[Sibling][1 - dir]

FixRemoveRedSibling ==
  /\ pc = "fix_remove"
  /\ IsRed(Sibling)
  /\ color' = [color EXCEPT ![Sibling] = "Black", ![par] = "Red"]
  /\ Rotate(dir, par)
  /\ pc' = "black_sibling"
  /\ UNCHANGED <<data, order, range, black_height, call, node, ptr, par, dir, ret>>

(* The sibling is black, or was made to be.                                *)
AtAnySibling ==                                       \* faulty: its color is not looked at
  pc \in {"fix_remove", "black_sibling"} /\ Sibling # None
AtBlackSibling ==
  /\ pc = "black_sibling" \/ (pc = "fix_remove" /\ ~IsRed(Sibling))
  /\ Sibling # None

FixRemoveCloseNephew ==
  /\ AtBlackSibling
  /\ IsRed(CloseNephew)
  /\ color' = [color EXCEPT ![CloseNephew] = "Black", ![Sibling] = "Red"]
  /\ Rotate(1 - dir, Sibling)
  /\ pc' = "red_far_nephew"
  /\ UNCHANGED <<data, order, range, black_height, call, node, ptr, par, dir, ret>>

FixRemoveFarNephew ==
  /\ \/ pc = "red_far_nephew"
     \/ AtBlackSibling /\ ~IsRed(CloseNephew) /\ IsRed(FarNephew)
  /\ Sibling # None /\ FarNephew # None
  /\ color' = [color EXCEPT ![Sibling] = color[par], ![par] = "Black",
                            ![FarNephew] = "Black"]
  /\ Rotate(dir, par)
  /\ pc' = "unthread"
  /\ UNCHANGED <<data, order, range, black_height, call, node, ptr, par, dir, ret>>

(* No red nephew: the sibling's side gives up a black node too.  A red     *)
(* parent turns black and makes up for it; the root has nothing above it   *)
(* and the tree loses a level; else the loop goes on one node higher.      *)
MadeUpOnce == IsRed(par) \/ parent[par] # None        \* faulty: never goes on
MadeUp == IsRed(par)
AtTop == parent[par] = None

FixRemoveRecolor ==
  LET t == call.tree IN
  /\ AtBlackSibling
  /\ ~IsRed(CloseNephew) /\ ~IsRed(FarNephew)
  /\ color' = [color EXCEPT ![Sibling] = "Red", ![par] = "Black"]
  /\ \/ /\ MadeUp
        /\ pc' = "unthread" /\ UNCHANGED <<black_height, par, dir>>
     \/ /\ ~MadeUp /\ ~AtTop
        /\ pc' = "fix_remove" /\ par' = parent[par] /\ dir' = SideOf(parent[par], par)
        /\ UNCHANGED black_height
     \/ /\ ~MadeUp /\ AtTop
        /\ black_height' = [black_height EXCEPT ![t] = @ - 1]
        /\ pc' = "unthread" /\ UNCHANGED <<par, dir>>
  /\ UNCHANGED <<data, cum, links, order, root, range, call, node, ptr, ret>>

(* remove_at, after the links: the neighbours in key order meet.           *)
SplicedForward(prev, next) == SetLink(order, prev, 1, next)   \* faulty: one way only
Spliced(prev, next) == SetLink(SetLink(order, prev, 1, next), next, 0, prev)

Unthread ==
  LET prev == order[node][0]
      next == order[node][1]
      t == call.tree
  IN
  /\ pc = "unthread"
  /\ order' = Spliced(prev, next)
  /\ range' = [range EXCEPT ![t][0] = IF prev = None THEN next ELSE @,
                            ![t][1] = IF next = None THEN prev ELSE @]
  /\ pc' = "propagate" /\ ptr' = parent[node]
  /\ UNCHANGED <<data, cum, color, links, root, black_height, call, node, par, dir, ret>>

(* The slot returns to the arena, its value to the caller.                 *)
Free ==
  /\ pc = "free"
  /\ key' = [key EXCEPT ![node] = None]
  /\ val' = [val EXCEPT ![node] = AnyValue]
  /\ cum' = [cum EXCEPT ![node] = DefaultCumulant]
  /\ color' = [color EXCEPT ![node] = "Red"]
  /\ parent' = [parent EXCEPT ![node] = None]
  /\ child' = [child EXCEPT ![node] = NoLinks]
  /\ order' = [order EXCEPT ![node] = NoLinks]
  /\ Return(val[node])
  /\ UNCHANGED bounds

-----------------------------------------------------------------------------
(* The loops and the relinking that serve every caller, ...                *)
Relink ==
  \/ Descend
  \/ FixInsertDone \/ FixInsertRecolor \/ FixInsertInner \/ FixInsertOuter \/ Blacken
  \/ Propagate
  \/ RemoveHere
  \/ \E i \in Side : UnlinkOneChild(i)
  \/ UnlinkLeaf \/ UnlinkLast
  \/ FixRemoveRedSibling \/ FixRemoveCloseNephew \/ FixRemoveFarNephew \/ FixRemoveRecolor
  \/ Unthread

(* ... and what insert, remove, get and search do around them.             *)
Step ==
  \/ Relink
  \/ Get \/ Search
  \/ InsertHere \/ \E n \in Index \ Live : InsertEmpty(n) \/ InsertAt(n)
  \/ RemoveMiss \/ Free

Next ==
  \/ \E t \in Trees, k \in Keys :
       \/ \E v \in Values : CallOp("insert", t, k, v)
       \/ \E op \in Op \ {"insert"} : CallOp(op, t, k, None)
  \/ Step

Spec == Init /\ [][Next]_vars
FairSpec == Spec /\ WF_vars(Step)
=============================================================================
