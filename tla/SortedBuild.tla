---------------------------- MODULE SortedBuild ----------------------------
(***************************************************************************)
(* Construction of a whole tree from sorted items (tree/iter.rs,           *)
(* from_sorted_slice_unchecked).  build_tree halves the slice: the item in *)
(* the middle of a segment is the root of its subtree, colors alternate    *)
(* from level to level, and the color of the root is chosen so that the    *)
(* lowest level, the only one that may have gaps, is red.                  *)
(*                                                                         *)
(* Items are a sequence of <<key, value>>; a node is the position of its   *)
(* item, 1 .. n, and slots[p] is the slot the arena gave it.               *)
(***************************************************************************)
EXTENDS RBTree, Sequences

Flipped(c) == IF c = "Red" THEN "Black" ELSE "Red"

(* usize::BITS - len.leading_zeros()                                       *)
Height(n) == CHOOSE h \in 0 .. n : 2 ^ h > n /\ \A g \in 0 .. h - 1 : 2 ^ g <= n

RedAtTop(n) == IF Height(n) % 2 = 0 THEN "Red" ELSE "Black"   \* faulty: parity
TopColor(n) == IF Height(n) % 2 = 0 THEN "Black" ELSE "Red"

(* The root of the segment lo .. hi, 0 if it is empty.                     *)
Middle(lo, hi) == IF lo > hi THEN 0 ELSE lo + (hi - lo + 1) \div 2

(* The segment that build_tree takes p for the root of, with the parent    *)
(* and the color it hands down.                                            *)
SegmentOf(n, p) ==
  LET Halve[lo \in 1 .. n, hi \in 1 .. n, up \in 0 .. n, c \in Color] ==
        LET mid == Middle(lo, hi)
        IN  IF p = mid THEN [lo |-> lo, hi |-> hi, parent |-> up, color |-> c]
            ELSE IF p < mid THEN Halve[lo, mid - 1, mid, Flipped(c)]
            ELSE Halve[mid + 1, hi, mid, Flipped(c)]
  IN  Halve[1, n, 0, TopColor(n)]

(* children, and order: the last node of the lower half and the first of   *)
(* the upper half meet the root of the segment; the ends of a segment are  *)
(* threaded by the segments around it.                                     *)
ChildAt(n, p, i) ==
  LET s == SegmentOf(n, p)
  IN  IF i = 0 THEN Middle(s.lo, p - 1) ELSE Middle(p + 1, s.hi)
OrderAt(n, p, i) ==
  IF i = 0 THEN p - 1 ELSE IF p = n THEN 0 ELSE p + 1

(* update_cumulant, bottom-up; p is 0 where there is no child.             *)
BuiltCumulants(items) ==
  LET n == Len(items)
      Of[p \in 0 .. n] ==
        IF p = 0 THEN DefaultCumulant
        ELSE Combine(items[p][2], Of[ChildAt(n, p, 0)], Of[ChildAt(n, p, 1)])
  IN  IF HasCumulant THEN Of ELSE [p \in 0 .. n |-> DefaultCumulant]

(* The root turns black, which adds a level if it was red.                 *)
BuiltHeight(n) == Height(n) \div 2 + (IF TopColor(n) = "Red" THEN 1 ELSE 0)

(* Tree t is the one built from items, in the slots given, in a forest     *)
(* where they are free and t has no nodes.                                 *)
Build(t, items, slots) ==
  LET n == Len(items)
      Slot(p) == IF p = 0 THEN None ELSE slots[p]
      At(m) == CHOOSE p \in 1 .. n : slots[p] = m
      Taken == {slots[p] : p \in 1 .. n}
      Made(f, g(_)) == [m \in Index |-> IF m \in Taken THEN g(At(m)) ELSE f[m]]
      Cumulant == BuiltCumulants(items)
      KeyOf(p) == items[p][1]
      ValueOf(p) == items[p][2]
      CumOf(p) == Cumulant[p]
      ColorOf(p) == IF p = Middle(1, n) THEN "Black" ELSE SegmentOf(n, p).color
      ParentOf(p) == Slot(SegmentOf(n, p).parent)
      ChildrenOf(p) == [i \in Side |-> Slot(ChildAt(n, p, i))]
      OrderOf(p) == [i \in Side |-> Slot(OrderAt(n, p, i))]
  IN
  /\ key' = Made(key, KeyOf)
  /\ val' = Made(val, ValueOf)
  /\ cum' = Made(cum, CumOf)
  /\ color' = Made(color, ColorOf)
  /\ parent' = Made(parent, ParentOf)
  /\ child' = Made(child, ChildrenOf)
  /\ order' = Made(order, OrderOf)
  /\ root' = [root EXCEPT ![t] = Slot(Middle(1, n))]
  /\ range' = [range EXCEPT ![t] = IF n = 0 THEN NoLinks
                                   ELSE [i \in Side |-> slots[IF i = 0 THEN 1 ELSE n]]]
  /\ black_height' = [black_height EXCEPT ![t] = IF n = 0 THEN 0 ELSE BuiltHeight(n)]
=============================================================================
