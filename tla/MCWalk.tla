------------------------------- MODULE MCWalk -------------------------------
(***************************************************************************)
(* Instances of Walk for TLC.                                              *)
(***************************************************************************)
EXTENDS Walk, TLC

(* WithSum of test/cumulant.rs, modulo a small number.                     *)
Modulus == 31
MCCumulants == 0 .. Modulus - 1
SumModulo(v, l, r) == (v + l + r) % Modulus
LeftValue(v, w) == v

(* One tree is built from the low keys, loses some, and is walked; in      *)
(* another one the high keys come and go meanwhile, in the slots there are. *)
LowKeys == 1 .. 5
HighKeys == Keys \ LowKeys
LowItems(n, v) == [k \in 1 .. n |-> <<k, v>>]
Slots(n) == [k \in 1 .. n |-> k]

KeysAlive == {key[n] : n \in Live}
Fresh == \A n \in Live : val[n] = 1

(* A state up to the choice of slots: a slot is named by its key, which is *)
(* in one tree only.  Of a tree that is drained only the thread is shown,  *)
(* and the last results are left out: no step reads them.                  *)
Name(n) == IF n = None THEN None ELSE key[n]
Names(link) == <<Name(link[0]), Name(link[1])>>
NodeView(n) ==
  <<key[n], val[n], cum[n], color[n], Name(parent[n]), Names(child[n]), Names(order[n])>>
TreeView(t) ==
  IF Drained(t) THEN <<Names(range[t]), {<<key[n], val[n]>> : n \in Rest(t)}>>
  ELSE <<Names(range[t]), Name(root[t]), black_height[t], {NodeView(n) : n \in NodesOf(t)}>>
WalkView ==
  <<{<<t, TreeView(t)>> : t \in trees},
    pc, call, Name(node), Name(ptr), Name(par), dir,
    IF walk = None THEN None
    ELSE <<walk.kind, walk.tree, Name(walk.front), Name(walk.back),
           [d \in DOMAIN walk.stack |-> Name(walk.stack[d])]>>>>

Client ==
  \/ \E n \in LowKeys \cup {0} :
       trees = {} /\ InsertSorted(LowItems(n, 1), Slots(n)) /\ UNCHANGED <<walk, item>>
  \/ Cardinality(trees) = 1 /\ InsertSorted(<<>>, <<>>) /\ UNCHANGED <<walk, item>>
  \/ \E k \in KeysAlive \cap LowKeys :
       trees = {1} /\ walk = None /\ CallElsewhere("remove", 1, k, None)
  \/ \E k \in HighKeys \ KeysAlive : Live # Index /\ CallElsewhere("insert", 2, k, 1)
  \/ \E k \in HighKeys : CallElsewhere("remove", 2, k, None)
  \/ \E k \in LowKeys \cup {6} : walk = None /\ CallElsewhere("search", 1, k, None)

(* Ranges are asked for by keys where the search ends inside the range;    *)
(* where it ends outside, or with INCLUSIVE set, closest answers with a    *)
(* node outside the range.                                                 *)
EndsInside(t, min, max) ==
  ~IsEmpty(t) => key[SearchEnd(t, min)] >= min /\ key[SearchEnd(t, max)] <= max

Begin ==
  /\ walk = None /\ Fresh
  /\ \/ \E kind \in Iterating : Iter(kind, 1)
     \/ \E kind \in Iterating, min, max \in LowKeys :
          /\ min <= max /\ Unwalked(1) /\ EndsInside(1, min, max)
          /\ IterRange(kind, 1, min, max, FALSE, FALSE)
     \/ \E kind \in Filtering : Filter(kind, 1)
     \/ \E kind \in Moving : Cursor(kind, 1) \/ CursorAt(kind)
     \/ IntoIter(1)

MCNext ==
  \/ Client
  \/ StepElsewhere
  \/ Begin
  \/ WalkStep
  \/ walk # None /\ range[walk.tree] = NoLinks /\ EndDrain
MCSpec == WInit /\ [][MCNext]_wvars
=============================================================================
