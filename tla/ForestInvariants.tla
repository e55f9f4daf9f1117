-------------------------- MODULE ForestInvariants --------------------------
(***************************************************************************)
(* What is true of a forest at every step of a call on whole trees, while  *)
(* nodes are between trees and trees between two shapes.                   *)
(***************************************************************************)
EXTENDS Forest

Frames == {stack[d] : d \in DOMAIN stack}

(* The nodes that the call in flight holds in its hands.                   *)
Loose == ({f.node : f \in Frames} \cup {back[2]}) \ {None}

(* The trees it has to do with.                                            *)
Involved ==
  UNION {{f[x] : x \in DOMAIN f \cap {"this", "that"}} : f \in Frames}
    \cup {back[1], back[3]} \cup (IF call = None THEN {} ELSE {call.tree})

(* No node is lost and none is in two places: every slot in use hangs in   *)
(* exactly one tree that still has a handle, or is in the hands of the     *)
(* call; a tree that was consumed has nothing left.                        *)
NodesOwnedOnce ==
  /\ LinksAgreeOn({n \in Live : ~InLimbo(n)} \ Loose)
  /\ Loose \subseteq Live
  /\ \A t \in Trees \ trees : root[t] = None /\ range[t] = NoLinks

(* What the callers of join and insert_node take for granted when they     *)
(* unwrap unchecked, and the SAFETY comments of join_unchecked: the pivot  *)
(* lies between the trees, its key is in neither, the heights' difference  *)
(* is never negative, and the way down does not end too early.             *)
ForestNoPanic ==
  /\ NoPanic
  /\ At("join") /\ root[Top.this] # None /\ root[Top.that] # None =>
       LET k == key[Top.node] IN Around(Top.this, k, Top.that) \/ Around(Top.that, k, Top.this)
  /\ Inside("link_node") /\ Top.or = "undefined" => pc # "Here"
  /\ At("descend") =>
       /\ Top.diff >= 0
       /\ Top.diff # 0 => child[Top.index] # NoLinks

(* Whenever no step of a tree is in flight, also in the middle of a union  *)
(* or a split, every node in a tree has the cumulant of its subtree.  (The *)
(* value merged by MergeDuplicate waits for the lock to be propagated.)    *)
ForestCumulants ==
  pc = "idle" /\ HasCumulant /\ ~At("value_mut") =>
    \A n \in Live \ Loose : cum[n] = CumulantOf(n, child[n])

(* A call leaves the trees it was not given alone; one that returns at     *)
(* once (clear) changes a single tree.                                     *)
BoundsUntouched(t) ==
  root'[t] = root[t] /\ range'[t] = range[t] /\ black_height'[t] = black_height[t]
Untouched(t) == BoundsUntouched(t) /\ \A n \in Attached(t) : SameNode(n)

BystandersUntouched ==
  [][LET touched == {t \in trees : ~Untouched(t)}
     IN  IF Idle THEN Cardinality(touched) <= 1 ELSE touched \subseteq Involved]_fvars

(* The forest implements the forest of maps: whole trees are joined, merged *)
(* and split in one step, the one that returns, with its result.           *)
Maps == INSTANCE MapForest WITH
  dict <- IF stack = <<>> THEN Held ELSE stack[Len(stack)].was
ImplementsMapForest == Maps!Spec
=============================================================================
