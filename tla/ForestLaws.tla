----------------------------- MODULE ForestLaws -----------------------------
(***************************************************************************)
(* The inductive invariant of a forest in which a call on whole trees is   *)
(* at work: which frames can lie on which, what the last one returned,     *)
(* which handles and nodes each frame holds; and the laws of RBTree for    *)
(* the nodes that are in nobody's hands.                                   *)
(***************************************************************************)
EXTENDS ForestInvariants, RBTreeLaws

(* What a frame that waits for the one above it gets from it.              *)
AskTree == {"split_right", "split_left", "merge_right", "merge_join", "union_done"}
AskSplit == {"rejoin_right", "rejoin_left", "merge_root", "split_done"}
AskNode == {"join_removed"}
Waiting == AskTree \cup AskSplit \cup AskNode
Done == {"union_done", "split_done"}

(* The frames that work on a tree which the last result names.             *)
Inserting2 == {"insert_node", "link_node"}
Removal == {"remove_node", "keep_node"}
Splitting == {"split_node", "rejoin_right", "rejoin_left", "split_right", "split_left"}

(* Frame g can wait for frame f.                                           *)
Fits(f, g) ==
  /\ f.at \notin Done
  /\ f.at \in Removal => g.at \in AskSplit \/ (g.at \in AskNode /\ f.this = g.this)
  /\ f.at \in Splitting => g.at \in AskSplit
  /\ f.at \notin Removal \cup Splitting => g.at \in AskTree
  /\ f.at = "union_disjoint" => g.at = "union_done"

(* The frames there are.  w is what the one at the bottom remembers.       *)
Working ==
  [at : Inserting2, this : Trees, node : Index, or : {"value_mut", "undefined"}]
    \cup [at : Removal, this : Trees, node : {None}, target : Index]
    \cup [at : {"split_node"}, this : Trees, node : {None}, key : Keys]
    \cup [at : {"descend"}, this : Trees, node : Index, that : Trees,
          side : Side, index : Index, diff : Int]
    \cup [at : {"value_mut"}, this : Trees, node : {None}, that : {None}]
TwoTrees ==
  [at : {"union_disjoint", "union_merge", "join_removed"}, this : Trees, node : {None}, that : Trees]
    \cup [at : {"join", "merge_root", "merge_right"}, this : Trees, node : Index, that : Trees]
OneTree ==
  [at : {"rejoin_left", "merge_join"}, this : Trees, node : Index, that : {None}]
    \cup [at : {"split_right"}, this : Trees, node : Ref, that : {None}]
    \cup [at : {"rejoin_right"}, this : {None}, node : Index, that : Trees]
    \cup [at : {"split_left"}, this : {None}, node : Ref, that : Trees]
FrameType(w) ==
  Working \cup {f \in TwoTrees : f.this # f.that} \cup OneTree
    \cup [at : Done, node : {None}, name : {w[1]}, was : {w[2]}]

(* What is in the hands of a frame, and of the last result.                *)
Handles(f) ==
  IF f.at \in Inserting2 \cup Removal \cup Done \cup {"value_mut"} THEN {}
  ELSE IF f.at = "descend" THEN {f.that}
  ELSE IF f.at = "split_node" THEN {f.this}
  ELSE {f.this, f.that} \ {None}
InHand(f) == {f.node} \ {None}
BackHandles == {back[1], back[3]} \ {None}
BackNode == {back[2]} \ {None}

(* Every frame lies on one that waits for it, down to the call; nothing is *)
(* in two hands, and all handles held are in use.                          *)
StackLaws(w) ==
  /\ stack \in Seq(FrameType(w))
  /\ stack # <<>> => stack[Len(stack)].at \in Done
  /\ \A d \in 1 .. Len(stack) - 1 : Fits(stack[d], stack[d + 1])
  /\ \A d, e \in 1 .. Len(stack) : d # e =>
       /\ Handles(stack[d]) \cap Handles(stack[e]) = {}
       /\ InHand(stack[d]) \cap InHand(stack[e]) = {}
  /\ \A d \in 1 .. Len(stack) :
       /\ Handles(stack[d]) \subseteq trees
       /\ Handles(stack[d]) \cap BackHandles = {} /\ InHand(stack[d]) \cap BackNode = {}

(* The last result is what the frame on top waits for; while it works on a *)
(* tree itself, that tree is in the result already.                        *)
TreeBack == \E t \in trees : back = <<t, None, None>>
SplitBack == \E a, b \in trees, n \in Ref : a # b /\ back = <<a, n, b>>
NodeBack == \E n \in Index : back = <<None, n, None>>

BackLaws ==
  /\ stack = <<>> => back = NoBack
  /\ stack # <<>> =>
       /\ Top.at \in Inserting2 \cup {"descend", "value_mut"} =>
            Top.this \in trees /\ back = <<Top.this, None, None>>
       /\ Top.at \in {"union_disjoint", "union_merge", "join", "split_node"} => back = NoBack
       /\ Top.at \in Removal =>
            /\ Top.this \in trees
            /\ stack[2].at \in AskNode => back = NoBack
            /\ stack[2].at \in AskSplit => SplitBack /\ back[2] = None
       /\ Top.at \in AskTree => TreeBack
       /\ Top.at \in AskSplit => SplitBack
       /\ Top.at \in AskNode => NodeBack

(* A tree that is not in use has nothing; the tree operation in flight is  *)
(* on one that is, and belongs to the frame on top or to one that is gone. *)
RegisterLaws ==
  /\ trees \subseteq Trees /\ Loose \subseteq Live
  /\ \A t \in Trees \ trees : root[t] = None /\ range[t] = NoLinks
  /\ call # None => call.tree \in trees
  /\ stack # <<>> =>
       /\ Top.at = "link_node" =>
            /\ pc \in {"descend"} \cup SearchResult
            /\ call = [op |-> "insert", tree |-> Top.this, key |-> key[Top.node], val |-> val[Top.node]]
       /\ Top.at \notin {"link_node", "keep_node"} \cup Waiting => pc = "idle"
       /\ Top.at = "remove_node" => \E i \in Side : Top.target = range[Top.this][i]

HandLaws(w) == StackLaws(w) /\ BackLaws /\ RegisterLaws

(* For TLC: w computed.                                                    *)
HandLawsNow ==
  HandLaws(IF stack = <<>> THEN <<0, 0>>
           ELSE <<stack[Len(stack)].name, stack[Len(stack)].was>>)
=============================================================================
