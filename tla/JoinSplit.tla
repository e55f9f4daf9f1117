------------------------------ MODULE JoinSplit ------------------------------
(***************************************************************************)
(* What join_unchecked does to the nodes once it is where the trees meet,  *)
(* and split_at_root to those around the root (tree/mod.rs,                *)
(* tree/interface.rs).                                                     *)
(***************************************************************************)
EXTENDS RBTreeInvariants

(* join_unchecked::helper: the pivot n, of key k and value v, takes the    *)
(* place of at in tree w, and has at and the lower tree o for children; o  *)
(* lies on the side 1 - i of w.  fix_insert and propagate_cumulant follow. *)
OneEndMoved(w, o, i) == [range EXCEPT ![o] = NoLinks] \* faulty: the range stays
EndsMoved(w, o, i) == [range EXCEPT ![w][1 - i] = range[o][1 - i], ![o] = NoLinks]

Attach(w, o, i, n, at, k, v) ==
  LET p == parent[at]
      near == range[w][1 - i]
      far == range[o][i]
  IN
  /\ parent' = [parent EXCEPT ![n] = p, ![at] = n, ![root[o]] = n]
  /\ child' = [ReplacedChild(at, n)
                 EXCEPT ![n] = [j \in Side |-> IF j = i THEN at ELSE root[o]]]
  /\ order' = [order EXCEPT ![n] = [j \in Side |-> IF j = i THEN near ELSE far],
                            ![near][1 - i] = n, ![far][i] = n]
  /\ range' = EndsMoved(w, o, i)
  /\ color' = [color EXCEPT ![n] = IF p = None THEN "Black" ELSE "Red"]
  /\ root' = [root EXCEPT ![w] = IF p = None THEN n ELSE @, ![o] = None]
  /\ black_height' = [black_height EXCEPT ![w] = IF p = None THEN @ + 1 ELSE @, ![o] = 0]
  /\ pc' = IF p # None /\ parent[p] # None THEN "fix_insert" ELSE "propagate"
  /\ call' = [op |-> "insert", tree |-> w, key |-> k, val |-> v]
  /\ node' = n /\ ptr' = n
  /\ UNCHANGED <<par, dir, ret>>

(* split_at_root: the root's subtrees are trees t and r; each root turns   *)
(* black, which keeps the height of a red one.                             *)
HalfHeight(t, c) ==
  IF c = None THEN 0 ELSE IF IsRed(c) THEN black_height[t] ELSE black_height[t] - 1

HalfRange(t, i, end) ==
  IF child[root[t]][i] = None THEN NoLinks ELSE [range[t] EXCEPT ![1 - i] = end]

HalvesBlack(half) == SetAt(SetAt(color, half[0], "Black"), half[1], "Black")

SplitHalves(t, r) ==
  LET m == root[t]
      half == child[m]
      inner == [i \in Side |-> IF half[i] = None THEN None ELSE order[m][i]]
  IN
  /\ parent' = SetAt(SetAt(parent, half[0], None), half[1], None)
  /\ child' = [child EXCEPT ![m] = NoLinks]
  /\ order' = [SetLink(SetLink(order, inner[0], 1, None), inner[1], 0, None)
                 EXCEPT ![m] = NoLinks]
  /\ root' = [root EXCEPT ![t] = half[0], ![r] = half[1]]
  /\ range' = [range EXCEPT ![t] = HalfRange(t, 0, order[m][0]),
                            ![r] = HalfRange(t, 1, order[m][1])]
  /\ black_height' = [black_height EXCEPT ![t] = HalfHeight(t, half[0]),
                                          ![r] = HalfHeight(t, half[1])]
=============================================================================
