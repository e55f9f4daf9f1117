------------------------------- MODULE Forest -------------------------------
(***************************************************************************)
(* Trees of one forest that come, go, join and split (tree/interface.rs,   *)
(* tree/mod.rs, lib.rs): new trees, clear, union_disjoint, union_merge and *)
(* split, with the recursion of split_node and union_merge.                *)
(*                                                                         *)
(* A call on whole trees is a stack of frames, the running one on top:     *)
(* `at` says where in the code it stands, and its locals are the other     *)
(* fields.  A frame goes on when pc is "idle"; while insert_node and       *)
(* remove_node are at work in a tree, pc and the registers of RBTree say   *)
(* where, and the steps are those of RBTree.                               *)
(*                                                                         *)
(* The code lets calls on different trees overlap: the guards that unions  *)
(* and splits take share the arena's lock.  Here a call starts when no     *)
(* other is in flight (Idle), and this leaves nothing out.  The trees in a *)
(* call are owned by it or borrowed `&mut`, and what it makes on the way   *)
(* is its own; it reads and writes nodes and Bounds of these trees only    *)
(* (NodesOwnedOnce, BystandersUntouched), and takes from the free slots    *)
(* any one.  So steps of two calls commute, and the trees of a call go     *)
(* through the same states whatever is in between.  What the calls do wait *)
(* for, and for ever in one case, are the locks, which Ports models.       *)
(***************************************************************************)
EXTENDS JoinSplit, SortedBuild

CONSTANT Merged(_, _)   \* the caller's merge: a value and the one merged into it

ASSUME MergedAssumption == \A v, w \in Values : Merged(v, w) \in Values

VARIABLES
  trees,   \* the handles in use; Trees are those there can be
  stack,   \* the frames of the call on whole trees in flight
  back,    \* what the last frame returned: left tree, node, right tree
  answer   \* the last finished call on whole trees and what it returned

nodes == <<data, cum, color, links, order>>
registers == <<pc, call, node, ptr, par, dir, ret>>
forest == <<trees, stack, back, answer>>
fvars == <<vars, forest>>

NoBack == <<None, None, None>>
NewTree == CHOOSE t \in Trees : t \notin trees   \* Trees bounds the handles in use at once
Top == stack[1]
At(where) == pc = "idle" /\ stack # <<>> /\ Top.at = where
Inside(where) == stack # <<>> /\ Top.at = where

(* The frame on top ends, and these go on in its place.                    *)
Continue(frames) == stack' = frames \o Tail(stack)

FInit ==
  /\ Init
  /\ trees = {} /\ stack = <<>> /\ back = NoBack /\ answer = None

(* Frames: trees `this` and `that`, and a node in no tree, if any.         *)
Frame(where, this, n, that) == [at |-> where, this |-> this, node |-> n, that |-> that]
InsertNode(t, n, or) == [at |-> "insert_node", this |-> t, node |-> n, or |-> or]
RemoveNode(t, n) == [at |-> "remove_node", this |-> t, node |-> None, target |-> n]
SplitNode(t, k) == [at |-> "split_node", this |-> t, node |-> None, key |-> k]

(* The handle t is dropped, its nodes already taken.                       *)
Drop(t) ==
  /\ trees' = trees \ {t}
  /\ root' = [root EXCEPT ![t] = None]
  /\ range' = [range EXCEPT ![t] = NoLinks]
  /\ black_height' = [black_height EXCEPT ![t] = 0]

(* Slots go back to the arena, blank.                                      *)
Without(f, S, blank) == [n \in Index |-> IF n \in S THEN blank ELSE f[n]]
Release(S) ==
  /\ key' = Without(key, S, None)
  /\ cum' = Without(cum, S, DefaultCumulant)
  /\ color' = Without(color, S, "Red")
  /\ parent' = Without(parent, S, None)
  /\ child' = Without(child, S, NoLinks)
  /\ order' = Without(order, S, NoLinks)

-----------------------------------------------------------------------------
(* Calls on one tree, new trees and clear.                                 *)

(* No call is in flight: steps of calls on other trees commute (above).    *)
Idle == pc = "idle" /\ stack = <<>>

CallTree(op, t, k, v) ==
  /\ Idle /\ t \in trees
  /\ CallOp(op, t, k, v)
  /\ UNCHANGED forest

TreeStep ==
  /\ \/ Relink
     \/ /\ stack = <<>>
        /\ \/ Get \/ Search
           \/ InsertHere \/ \E n \in Index \ Live : InsertEmpty(n) \/ InsertAt(n)
           \/ RemoveMiss \/ Free
  /\ UNCHANGED forest

(* WeakForest::insert, and with items: insert_sorted_slice_unchecked.      *)
InsertSorted(items, slots) ==
  /\ Idle /\ trees # Trees
  /\ trees' = trees \cup {NewTree}
  /\ Build(NewTree, items, slots)
  /\ UNCHANGED <<registers, stack, back, answer>>

(* clear frees the nodes along the thread; the black height stays.         *)
HeightKept(t) == black_height
Onward(n) == IF n = None THEN {} ELSE {order[n][1]}
Strand(t) == Closure({range[t][0]}, Onward)   \* the nodes along the thread
Clear(t) ==
  /\ Idle /\ t \in trees
  /\ Release(Strand(t))
  /\ val' = Without(val, Strand(t), AnyValue)
  /\ root' = [root EXCEPT ![t] = None]
  /\ range' = [range EXCEPT ![t] = NoLinks]
  /\ black_height' = HeightKept(t)
  /\ UNCHANGED <<registers, forest>>

-----------------------------------------------------------------------------
(* insert_node and remove_node: a node moves in or out of a tree and keeps *)
(* its slot.                                                               *)

StartInsertNode ==
  /\ At("insert_node")
  /\ call' = [op |-> "insert", tree |-> Top.this, key |-> key[Top.node], val |-> val[Top.node]]
  /\ SearchFrom(Top.this, key[Top.node])
  /\ Continue(<<[Top EXCEPT !.at = "link_node"]>>)
  /\ UNCHANGED <<nodes, bounds, node, par, dir, ret, trees, back, answer>>

LinkNode ==
  /\ Inside("link_node")
  /\ \/ InsertEmpty(Top.node)
     \/ Hang(Top.node) /\ UNCHANGED <<data, cum>>
  /\ Continue(<<>>)
  /\ UNCHANGED <<trees, back, answer>>

(* Error::DuplicateKey.  union_merge frees the node and merges its value   *)
(* into the one that is there; the ValueMut it got for that asks, at its   *)
(* end, for the lock this call has (Ports), and the call never returns.    *)
MergeDuplicate ==
  LET n == Top.node IN
  /\ Inside("link_node") /\ pc = "Here" /\ Top.or = "value_mut"
  /\ Release({n})
  /\ val' = [val EXCEPT ![ptr] = Merged(@, val[n]), ![n] = AnyValue]
  /\ Return(None)
  /\ Continue(<<Frame("value_mut", Top.this, None, None)>>)
  /\ UNCHANGED <<bounds, trees, back, answer>>

(* union_disjoint and join unwrap the error unchecked: undefined behaviour *)
(* that, where it goes on at all, loses the node.                          *)
LoseDuplicate ==
  /\ Inside("link_node") /\ pc = "Here" /\ Top.or = "undefined"
  /\ Return(None)
  /\ Continue(<<>>) \/ Continue(<<Frame("undefined", Top.this, Top.node, None)>>)
  /\ UNCHANGED <<nodes, bounds, trees, back, answer>>

StartRemoveNode ==
  /\ At("remove_node")
  /\ call' = [op |-> "remove", tree |-> Top.this, key |-> key[Top.target], val |-> None]
  /\ pc' = "Here" /\ ptr' = Top.target
  /\ Continue(<<[Top EXCEPT !.at = "keep_node"]>>)
  /\ UNCHANGED <<nodes, bounds, node, par, dir, ret, trees, back, answer>>

TakenAlone(n) == <<None, n, None>>                     \* faulty: the halves of a split forgotten
TakenOut(n) == [back EXCEPT ![2] = n]

KeepNode ==
  /\ Inside("keep_node") /\ pc = "free"
  /\ back' = TakenOut(node)
  /\ Return(val[node])
  /\ Continue(<<>>)
  /\ UNCHANGED <<nodes, bounds, trees, answer>>

-----------------------------------------------------------------------------
(* union_disjoint and union_merge, first part: len_estimate tells trees of *)
(* no and of one node from the others.  (The number that it estimates for  *)
(* the others is used by no call.)                                         *)

IsEmpty(t) == range[t] = NoLinks
IsSingle(t) == range[t][0] # None /\ range[t][0] = range[t][1]
IsSmall(t) == IsEmpty(t) \/ IsSingle(t)
MinKey(t) == key[range[t][0]]
MaxKey(t) == key[range[t][1]]

UnionSmall ==
  /\ At("union_disjoint") \/ At("union_merge")
  /\ \E small, big \in {Top.this, Top.that} :
       /\ small # big /\ IsSmall(small)
       /\ small = Top.that => ~IsSmall(Top.this)
       /\ \/ IsEmpty(small) /\ Continue(<<>>)
          \/ /\ IsSingle(small)
             /\ Continue(<<InsertNode(big, root[small],
                             IF Top.at = "union_merge" THEN "value_mut" ELSE "undefined")>>)
       /\ Drop(small)
       /\ back' = <<big, None, None>>
  /\ UNCHANGED <<nodes, registers, answer>>

NeitherSmall(where) == At(where) /\ ~IsSmall(Top.this) /\ ~IsSmall(Top.that)

(* union_disjoint: this gives up the node next to that for the join.       *)
TouchingOnly(a, b) ==                                 \* faulty: only the ends that meet
  IF MinKey(a) < MinKey(b) THEN MaxKey(a) = MinKey(b) ELSE MaxKey(b) = MinKey(a)
Overlapping(a, b) ==
  IF MinKey(a) < MinKey(b) THEN MaxKey(a) >= MinKey(b) ELSE MaxKey(b) >= MinKey(a)

UnionOverlaps ==
  /\ NeitherSmall("union_disjoint") /\ Overlapping(Top.this, Top.that)
  /\ answer' = <<"union_disjoint", Top.this, Top.that, None>>
  /\ stack' = <<>>
  /\ UNCHANGED <<vars, trees, back>>

UnionDisjoint ==
  LET a == Top.this
      b == Top.that
      i == IF MinKey(a) < MinKey(b) THEN 1 ELSE 0
  IN
  /\ NeitherSmall("union_disjoint") /\ ~Overlapping(a, b)
  /\ Continue(<<RemoveNode(a, range[a][i]), Frame("join_removed", a, None, b)>>)
  /\ UNCHANGED <<vars, trees, back, answer>>

JoinRemoved ==
  /\ At("join_removed")
  /\ Continue(<<Frame("join", Top.this, back[2], Top.that)>>)
  /\ back' = NoBack
  /\ UNCHANGED <<vars, trees, answer>>

-----------------------------------------------------------------------------
(* join: an empty tree takes the pivot; else the lower one is hung into    *)
(* the higher one, on whose side i the higher one's keys lie.              *)

JoinEmpty ==
  /\ At("join")
  /\ \E small, big \in {Top.this, Top.that} :
       /\ small # big /\ root[small] = None
       /\ small = Top.that => root[Top.this] # None
       /\ Drop(small)
       /\ Continue(<<InsertNode(big, Top.node, "undefined")>>)
       /\ back' = <<big, None, None>>
  /\ UNCHANGED <<nodes, registers, answer>>

Around(a, k, b) == MaxKey(a) < k /\ k < MinKey(b)

JoinTrees ==
  LET k == key[Top.node]
      a == Top.this
      b == Top.that
      higher == IF black_height[a] >= black_height[b] THEN a ELSE b
      lower == IF higher = a THEN b ELSE a
  IN
  /\ At("join") /\ root[a] # None /\ root[b] # None
  /\ Around(a, k, b) \/ Around(b, k, a)
  /\ Continue(<<[at |-> "descend", this |-> higher, node |-> Top.node, that |-> lower,
                 side |-> IF Around(higher, k, lower) THEN 0 ELSE 1,
                 index |-> root[higher],
                 diff |-> black_height[higher] - black_height[lower]]>>)
  /\ back' = <<higher, None, None>>
  /\ UNCHANGED <<vars, trees, answer>>

(* join_unchecked: down the side that meets the lower tree, as many black  *)
(* nodes as the heights differ.                                            *)
PassedAny(n) == 1                                     \* faulty: red ones count too
Passed(n) == IF IsRed(n) THEN 0 ELSE 1

JoinDescend ==
  LET n == Top.index
      i == Top.side
      next == child[n][IF child[n][1 - i] # None THEN 1 - i ELSE i]
  IN
  /\ At("descend") /\ Top.diff # 0 /\ next # None
  /\ Continue(<<[Top EXCEPT !.index = next, !.diff = @ - Passed(n)]>>)
  /\ UNCHANGED <<vars, trees, back, answer>>

(* There the pivot takes the place of index and has it and the lower tree  *)
(* for children.                                                           *)
JoinAttach ==
  LET n == Top.node IN
  /\ At("descend") /\ Top.diff = 0
  /\ Attach(Top.this, Top.that, Top.side, n, Top.index, key[n], val[n])
  /\ trees' = trees \ {Top.that}
  /\ Continue(<<>>)
  /\ UNCHANGED <<data, cum, back, answer>>

-----------------------------------------------------------------------------
(* split_at_root: t keeps one half, and r, a new tree, gets the other.     *)
SplitAtRoot(t, r) ==
  /\ trees # Trees
  /\ SplitHalves(t, r)
  /\ color' = HalvesBlack(child[root[t]])
  /\ trees' = trees \cup {r}
  /\ UNCHANGED <<data, cum>>

(* split_node: keys outside the range, or at its ends, split off nothing   *)
(* or one node.                                                            *)
SplitOutside ==
  LET t == Top.this
      k == Top.key
  IN
  /\ At("split_node") /\ trees # Trees
  /\ \/ (root[t] # None => MaxKey(t) < k) /\ back' = <<t, None, NewTree>>
     \/ root[t] # None /\ MinKey(t) > k /\ back' = <<NewTree, None, t>>
  /\ trees' = trees \cup {NewTree}
  /\ Continue(<<>>)
  /\ UNCHANGED <<vars, answer>>

SplitEnd ==
  LET t == Top.this
      k == Top.key
  IN
  /\ At("split_node") /\ root[t] # None /\ trees # Trees
  /\ \/ /\ MinKey(t) = k
        /\ Continue(<<RemoveNode(t, range[t][0])>>) /\ back' = <<NewTree, None, t>>
     \/ /\ MinKey(t) # k /\ MaxKey(t) = k
        /\ Continue(<<RemoveNode(t, range[t][1])>>) /\ back' = <<t, None, NewTree>>
  /\ trees' = trees \cup {NewTree}
  /\ UNCHANGED <<vars, answer>>

(* Else the tree is split at its root, and the half with the key again;    *)
(* what is left of that half is joined with the other one.  (A tree with   *)
(* keys on both sides of k is never single.)                               *)
SplitInside ==
  LET t == Top.this
      k == Top.key
      m == root[t]
      r == NewTree
  IN
  /\ At("split_node") /\ m # None /\ MinKey(t) < k /\ k < MaxKey(t)
  /\ SplitAtRoot(t, r)
  /\ \/ key[m] = k /\ Continue(<<>>) /\ back' = <<t, m, r>>
     \/ key[m] > k /\ Continue(<<SplitNode(t, k), Frame("rejoin_right", None, m, r)>>)
        /\ UNCHANGED back
     \/ key[m] < k /\ Continue(<<SplitNode(r, k), Frame("rejoin_left", t, m, None)>>)
        /\ UNCHANGED back
  /\ UNCHANGED <<registers, answer>>

Rejoin ==
  /\ \/ /\ At("rejoin_right")
        /\ Continue(<<Frame("join", back[3], Top.node, Top.that),
                      Frame("split_right", back[1], back[2], None)>>)
     \/ /\ At("rejoin_left")
        /\ Continue(<<Frame("join", Top.this, Top.node, back[1]),
                      Frame("split_left", None, back[2], back[3])>>)
  /\ back' = NoBack
  /\ UNCHANGED <<vars, trees, answer>>

SplitNodeDone ==
  /\ \/ At("split_right") /\ back' = <<Top.this, Top.node, back[1]>>
     \/ At("split_left") /\ back' = <<back[1], Top.node, Top.that>>
  /\ Continue(<<>>)
  /\ UNCHANGED <<vars, trees, answer>>

-----------------------------------------------------------------------------
(* union_merge: that is split at its root, this at the root's key; the     *)
(* halves are merged and joined again around the root.                     *)
MergeSplit ==
  LET b == Top.that
      m == root[b]
      r == NewTree
  IN
  /\ NeitherSmall("union_merge")
  /\ SplitAtRoot(b, r)
  /\ Continue(<<SplitNode(Top.this, key[m]), Frame("merge_root", b, m, r)>>)
  /\ UNCHANGED <<registers, back, answer>>

(* The key is in both: this one's node is freed, its value merged.         *)
Leaked(n) == {}                                       \* faulty: freed by nobody
Freed(n) == {n} \ {None}
OwnValueKept(v, w) == v                               \* faulty: not merged
MergedValue(v, w) == Merged(v, w)

MergeRoot ==
  LET m == Top.node
      pivot == back[2]
  IN
  /\ At("merge_root")
  /\ Release(Freed(pivot))
  /\ val' = IF pivot = None THEN val
            ELSE [val EXCEPT ![m] = MergedValue(@, val[pivot]), ![pivot] = AnyValue]
  /\ Continue(<<Frame("union_merge", back[1], None, Top.this),
                Frame("merge_right", back[3], m, Top.that)>>)
  /\ back' = NoBack
  /\ UNCHANGED <<bounds, registers, trees, answer>>

MergeRight ==
  /\ At("merge_right")
  /\ Continue(<<Frame("union_merge", Top.this, None, Top.that),
                Frame("merge_join", back[1], Top.node, None)>>)
  /\ back' = NoBack
  /\ UNCHANGED <<vars, trees, answer>>

MergeJoin ==
  /\ At("merge_join")
  /\ Continue(<<Frame("join", Top.this, Top.node, back[1])>>)
  /\ back' = NoBack
  /\ UNCHANGED <<vars, trees, answer>>

-----------------------------------------------------------------------------
(* The calls.  The frame at the bottom also keeps what the trees held when *)
(* the call came (`was`), which no step reads: the abstract specification  *)
(* sees the call take effect when it returns.                              *)
Held == [t \in trees |-> Dict[t]]
Bottom(where, name) == [at |-> where, node |-> None, name |-> name, was |-> Held]

CallUnion(op, a, b) ==
  /\ Idle /\ a \in trees /\ b \in trees /\ a # b
  /\ stack' = <<Frame(op, a, None, b), Bottom("union_done", <<op, a, b>>)>>
  /\ UNCHANGED <<vars, trees, back, answer>>

UnionDone ==
  /\ At("union_done")
  /\ answer' = Append(Top.name, back[1])
  /\ stack' = <<>> /\ back' = NoBack
  /\ UNCHANGED <<vars, trees>>

CallSplit(t, k) ==
  /\ Idle /\ t \in trees
  /\ stack' = <<SplitNode(t, k), Bottom("split_done", <<"split", t, k>>)>>
  /\ UNCHANGED <<vars, trees, back, answer>>

(* The node at the key is freed and its value returned.                    *)
SplitDone ==
  LET n == back[2] IN
  /\ At("split_done")
  /\ answer' = Top.name \o <<back[1], IF n = None THEN None ELSE val[n], back[3]>>
  /\ Release(Freed(n)) /\ val' = Without(val, Freed(n), AnyValue)
  /\ stack' = <<>> /\ back' = NoBack
  /\ UNCHANGED <<bounds, registers, trees>>

-----------------------------------------------------------------------------
ForestStep ==
  \/ StartInsertNode \/ LinkNode \/ MergeDuplicate
  \/ StartRemoveNode \/ KeepNode
  \/ UnionSmall \/ UnionOverlaps \/ UnionDisjoint \/ JoinRemoved
  \/ JoinEmpty \/ JoinTrees \/ JoinDescend
  \/ SplitOutside \/ SplitEnd \/ SplitInside \/ Rejoin \/ SplitNodeDone
  \/ MergeSplit \/ MergeRoot \/ MergeRight \/ MergeJoin
  \/ UnionDone \/ SplitDone

Items == {s \in UNION {[1 .. n -> Keys \X Values] : n \in 0 .. Cardinality(Index \ Live)} :
            \A p \in DOMAIN s : p > 1 => s[p - 1][1] < s[p][1]}
FreeSlots(n) == {f \in [1 .. n -> Index \ Live] : \A p, q \in 1 .. n : f[p] = f[q] => p = q}

FNext ==
  \/ \E items \in Items : \E slots \in FreeSlots(Len(items)) : InsertSorted(items, slots)
  \/ \E t \in Trees, k \in Keys :
       \/ \E v \in Values : CallTree("insert", t, k, v)
       \/ \E op \in Op \ {"insert"} : CallTree(op, t, k, None)
       \/ CallSplit(t, k)
  \/ \E t \in Trees : Clear(t)
  \/ \E a, b \in Trees, op \in {"union_disjoint", "union_merge"} : CallUnion(op, a, b)
  \/ TreeStep \/ ForestStep \/ JoinAttach \/ LoseDuplicate

FSpec == FInit /\ [][FNext]_fvars
=============================================================================
