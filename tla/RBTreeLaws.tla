----------------------------- MODULE RBTreeLaws -----------------------------
(***************************************************************************)
(* The inductive invariant of the threaded search trees: what every step   *)
(* of RBTree keeps about links, threads, key order and registers.  It      *)
(* speaks of two ghosts, D[n], the nodes of the subtree of n, and rk[n],   *)
(* the place of n in the key order, instead of Subtree and Rank: a proof   *)
(* says how a step changes a ghost, where it could not unfold a closure.   *)
(***************************************************************************)
EXTENDS RBTreeInvariants

(* x comes before y in the order that runs away on side i.                 *)
Before(i, x, y) == IF i = 0 THEN x < y ELSE y < x

(* Children and parents in L know each other.                              *)
Linked(L, P, C) ==
  /\ \A n \in L, i \in Side : C[n][i] # None => C[n][i] \in L /\ P[C[n][i]] = n
  /\ \A n \in L : P[n] # None => P[n] \in L /\ \E i \in Side : C[P[n]][i] = n

(* No set of nodes is closed under going up: every way up leaves L.        *)
NoCycle(L, P) == \A S \in SUBSET L : S # {} => \E n \in S : P[n] \notin S

(* D[n] is the subtree of n: n and the subtrees of its children, closed    *)
(* downwards and, but for n itself, upwards.                               *)
Descends(L, P, C, D) ==
  /\ D[None] = {}
  /\ \A n \in L : D[n] \subseteq L /\ D[n] = {n} \cup D[C[n][0]] \cup D[C[n][1]]
  /\ \A n \in L : \A m \in D[n] : D[m] \subseteq D[n] /\ (m # n => P[m] \in D[n])

(* Every node of L is in the tree of one root, and of one only.            *)
Rooted(L, P, R, D) ==
  /\ \A t \in Trees : R[t] # None => R[t] \in L /\ P[R[t]] = None
  /\ \A n \in L : \E t \in Trees : n \in D[R[t]]
  /\ \A t, u \in Trees : t # u => D[R[t]] \cap D[R[u]] = {}

(* In-order: what is below side i of n comes before n on side i, and a     *)
(* subtree is an interval of its tree.                                     *)
Sorted(L, C, R, D, rk) ==
  /\ \A n \in L, i \in Side : \A m \in D[C[n][i]] : Before(i, rk[m], rk[n])
  /\ \A t \in Trees : \A n, m \in D[R[t]] : \A x, y \in D[n] :
       rk[x] < rk[m] /\ rk[m] < rk[y] => m \in D[n]

(* L hangs in search trees, ordered by the ranks rk.                       *)
Shape(L, P, C, R, D, rk) ==
  /\ Linked(L, P, C) /\ NoCycle(L, P) /\ Descends(L, P, C, D)
  /\ Rooted(L, P, R, D) /\ Sorted(L, C, R, D, rk)

-----------------------------------------------------------------------------
(* O threads T in the order of the ranks: O[n][i] is the nearest node      *)
(* before n on side i, and rg holds the two ends.                          *)
Thread(T, O, rg, rk) ==
  /\ \A x, y \in T : rk[x] = rk[y] => x = y
  /\ \A n, m \in T, i \in Side : O[n][i] = None => ~Before(i, rk[m], rk[n])
  /\ \A n \in T, i \in Side :
       O[n][i] # None => O[n][i] \in T /\ Before(i, rk[O[n][i]], rk[n])
  /\ \A n, m \in T, i \in Side :
       O[n][i] # None /\ Before(i, rk[m], rk[n]) => ~Before(i, rk[O[n][i]], rk[m])
  /\ \A i \in Side : T = {} => rg[i] = None
  /\ \A i \in Side : T # {} => rg[i] \in T /\ O[rg[i]][i] = None

(* The two directions of a thread are inverse.                             *)
Mutual(T, O) ==
  \A n \in T, i, j \in Side : i # j /\ O[n][i] # None => O[O[n][i]][j] = n

-----------------------------------------------------------------------------
(* remove_at has cut its node off and not yet freed it.                    *)
Limbo == pc \in Unlinked \cup {"free"} \/ (pc = "propagate" /\ call.op = "remove")
(* The node to remove is chosen; its key is the one called for.            *)
Removing == pc = "unlink" \/ Limbo
(* The new node hangs in the tree.                                         *)
Inserting == pc \in InsertStep \/ (pc = "propagate" /\ call.op = "insert")

(* The nodes that hang in a tree.                                          *)
Hung == IF Limbo THEN Live \ {node} ELSE Live
(* The nodes the thread of t runs through (Threads, by D).                 *)
Strung(D, t) ==
  IF pc \in Unlinked /\ call.tree = t THEN D[root[t]] \cup {node} ELSE D[root[t]]

(* The links of all trees.                                                 *)
LinkLaws(D, rk) == Shape(Hung, parent, child, root, D, rk)

(* The ghost ranks are the ranks that RBTreeInvariants reads off the keys. *)
RankLaws(rk) == \A n \in Live : rk[n] = Rank(n)
(* The threads of all trees.                                               *)
StringLaws(D, rk) == \A t \in Trees : Thread(Strung(D, t), order, range[t], rk)

(* Which call each step belongs to.                                        *)
CallLaws ==
  /\ pc = "idle" <=> call = None
  /\ pc \in InsertStep => call.op = "insert"
  /\ pc \in RemoveStep => call.op = "remove"
  /\ pc = "propagate" => call.op \in {"insert", "remove"}

-----------------------------------------------------------------------------
(* The answer of a search that ends left (0) or right (1) of its cursor.   *)
Frontier(i) == IF i = 0 THEN "LeftOf" ELSE "RightOf"

(* The loop invariant of search_by over the nodes A of the tree: the keys  *)
(* outside of the cursor's subtree lie on the same side of call.key as of  *)
(* every key in it; at a frontier the place on side i of the cursor is free*)
(* and call.key is next to the cursor's.                                   *)
SearchLaws(A, D) ==
  /\ pc = "Empty" => root[call.tree] = None
  /\ pc \in {"descend", "Here", "LeftOf", "RightOf"} => ptr \in A
  /\ pc = "Here" => key[ptr] = call.key
  /\ pc = "descend" =>
       \A m \in A \ D[ptr] :
         /\ key[m] # call.key
         /\ \A x \in D[ptr] : key[m] < call.key <=> key[m] < key[x]
  /\ \A i \in Side : pc = Frontier(i) =>
       /\ child[ptr][i] = None /\ Before(i, call.key, key[ptr])
       /\ \A m \in A : Before(i, key[m], key[ptr]) => Before(i, key[m], call.key)

(* The registers of insert and remove point into the tree called for, and  *)
(* no other node of it has the key that is being removed.                  *)
UpdateLaws(A) ==
  /\ pc \in {"fix_insert", "rotate_outer"} => ptr \in A
  /\ pc = "propagate" => ptr \in A \cup {None}
  /\ pc \in FixRemoveStep => par \in A
  /\ Inserting => node \in A /\ key[node] = call.key
  /\ pc = "unlink" => node \in A /\ \E i \in Side : child[node][i] = None
  /\ Limbo => node \in Live
  /\ pc \in Unlinked => parent[node] \in A \cup {None}
  /\ Removing => key[node] = call.key /\ \A m \in A \ {node} : key[m] # call.key

(* What holds of the registers while a call is in flight.                  *)
CursorLaws(A, D) == call # None => SearchLaws(A, D) /\ UpdateLaws(A)
(* The nodes of the tree that is called.                                   *)
Own(D) == IF call = None THEN {} ELSE D[root[call.tree]]

-----------------------------------------------------------------------------
(* The inductive invariant: D and rk are ghosts, the subtree and the rank  *)
(* of every node, that the steps below rebuild by hand where the code      *)
(* rewires them.                                                           *)
Laws(D, rk) ==
  /\ LinkLaws(D, rk) /\ RankLaws(rk) /\ StringLaws(D, rk)
  /\ CallLaws /\ CursorLaws(Own(D), D)

(* Some ghosts make the laws true.                                         *)
LawsHold == \E D \in [Ref -> SUBSET Index], rk \in [Index -> Int] : Laws(D, rk)

-----------------------------------------------------------------------------
(* What a node adds to the black height of its subtree, and what the side  *)
(* fix_remove works on lacks.                                              *)
Weight(n) == IF color[n] = "Red" THEN 0 ELSE 1
Deficit(n, i) == IF pc \in FixRemoveStep /\ n = par /\ i = dir THEN 1 ELSE 0

(* The ghost h is the black height of every subtree, the same by either    *)
(* child: the paths of a tree are compared where they part.  (clear leaves *)
(* the height of the empty tree as it was.)                                *)
HeightLaws(h) ==
  /\ h[None] = 0
  /\ \A n \in Hung, i \in Side : h[n] = h[child[n][i]] + Weight(n) + Deficit(n, i)
  /\ \A t \in Trees : root[t] # None => black_height[t] = h[root[t]]

(* Red nodes have black parents, but where the loop stands; a root is red  *)
(* only when the call is about to blacken it.                              *)
RedLaws ==
  /\ \A n \in Hung : IsRed(n) /\ IsRed(parent[n]) => RedRedAllowed(n)
  /\ \A t \in Trees : IsRed(root[t]) => pc = "blacken" /\ t = call.tree

(* What the branches of fix_insert and fix_remove have established.        *)
RepairLaws ==
  /\ pc = "fix_insert" => IsRed(ptr) /\ parent[ptr] # None
  /\ pc = "rotate_outer" =>
       /\ IsRed(ptr) /\ IsRed(parent[ptr]) /\ Grandparent # None
       /\ ~IsRed(Uncle) /\ child[parent[ptr]][1 - UncleSide] = ptr
  /\ pc \in FixRemoveStep => ~IsRed(child[par][dir])
  /\ pc \in {"black_sibling", "red_far_nephew"} => ~IsRed(Sibling)
  /\ pc = "red_far_nephew" => IsRed(FarNephew)
  /\ Limbo => parent[node] \in Hung \cup {None}

BalanceLaws(h) == HeightLaws(h) /\ RedLaws /\ RepairLaws

(* Some heights make the laws true.                                        *)
BalanceHolds == \E h \in [Ref -> Nat] : BalanceLaws(h)

-----------------------------------------------------------------------------
(* The hanging nodes whose cumulant is not the one of their subtree, and   *)
(* the node that the call will propagate from.                             *)
Stale == {n \in Hung : cum[n] # CumulantOf(n, child[n])}
Focus == CASE pc \in InsertStep \cup {"unlink"} -> node
           [] pc \in Unlinked -> parent[node]
           [] pc = "propagate" -> ptr
           [] OTHER -> None

(* A stale cumulant is on the way that propagate_cumulant will go up, but  *)
(* for the nephew that the next rotation puts there; and a loop that       *)
(* rotates does so on that way.                                            *)
CumulantLaws ==
  /\ HasCumulant =>
       Stale \subseteq Path(Focus) \cup (IF pc = "red_far_nephew" THEN {Sibling} ELSE {})
  /\ pc = "fix_insert" /\ IsRed(parent[ptr]) => parent[ptr] \in Path(Focus)
  /\ pc = "rotate_outer" => parent[ptr] \in Path(Focus)
  /\ pc \in FixRemoveStep => par = Focus \/ child[par][dir] \in Path(Focus)

-----------------------------------------------------------------------------
(* For TLC: the laws with their ghosts computed.                           *)
HeightOf[n \in Ref] ==
  IF n = None THEN 0 ELSE HeightOf[child[n][0]] + Weight(n) + Deficit(n, 0)

LawsOnSubtrees ==
  /\ FreeSlotsBlank
  /\ Laws([n \in Ref |-> Subtree(n)],
          [n \in Index |-> IF n \in Live THEN Rank(n) ELSE 0])
  /\ BalanceLaws(HeightOf)
=============================================================================
