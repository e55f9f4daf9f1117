-------------------------- MODULE RBTreeInvariants --------------------------
(***************************************************************************)
(* What is true of the threaded red-black trees at every step of a call,   *)
(* not only between calls: the loop invariants of fix_insert and           *)
(* fix_remove are the exceptions the running loop is allowed.              *)
(***************************************************************************)
EXTENDS RBTree

(* Every variable has its type, and at each step the registers it reads    *)
(* are set.  (black_height is a u8 in the code: RedBlack bounds it.)       *)
TypeOK ==
  /\ key \in [Index -> Keys \cup {None}]
  /\ val \in [Index -> Values]
  /\ cum \in [Index -> Cumulants]
  /\ color \in [Index -> Color]
  /\ parent \in [Index -> Ref]
  /\ child \in [Index -> [Side -> Ref]]
  /\ order \in [Index -> [Side -> Ref]]
  /\ root \in [Trees -> Ref]
  /\ range \in [Trees -> [Side -> Ref]]
  /\ black_height \in [Trees -> Int]
  /\ pc \in PC
  /\ call \in Call \cup {None}
  /\ node \in Ref /\ ptr \in Ref /\ par \in Ref /\ dir \in Side
  /\ pc # "idle" => call \in Call
  /\ pc \in {"Here", "LeftOf", "RightOf", "fix_insert", "rotate_outer"} => ptr # None
  /\ pc \in InsertStep \cup RemoveStep \cup {"propagate"} => node # None
  /\ pc \in FixRemoveStep => par # None

-----------------------------------------------------------------------------
(* Where a node hangs, and what a call has in hand.                        *)

Parents(n) == IF n = None THEN {} ELSE {parent[n]}
Path(n) == Closure({n}, Parents)   \* from n up to the root

Unlinked == {"fix_remove", "black_sibling", "red_far_nephew", "unthread"}

(* A node that remove_at has cut off but not yet freed.                    *)
InLimbo(n) ==
  /\ n = node
  /\ \/ pc \in Unlinked \cup {"free"}
     \/ pc = "propagate" /\ call.op = "remove"

(* The nodes a tree owns, the one in flight included.                      *)
Members(t) ==
  Attached(t) \cup (IF call # None /\ call.tree = t /\ InLimbo(node) THEN {node} ELSE {})

(* The nodes the thread of a tree runs through.                            *)
Threads(t) ==
  Attached(t) \cup (IF call # None /\ call.tree = t /\ pc \in Unlinked THEN {node} ELSE {})

-----------------------------------------------------------------------------
(* What `replace` and `rotate` rewire is consistent after every step.      *)

(* A slot that is free, and only such a slot, is blank.                    *)
FreeSlotsBlank ==
  \A n \in Index \ Live :
    child[n] = NoLinks /\ order[n] = NoLinks /\ parent[n] = None

ChildrenAgree(L) ==
  \A n \in L, i \in Side : child[n][i] # None =>
    /\ child[n][i] \in L
    /\ parent[child[n][i]] = n
    /\ child[n][1 - i] # child[n][i]

ParentsAgree(L) ==
  \A n \in L :
    IF parent[n] = None
    THEN \E t \in Trees : root[t] = n
    ELSE parent[n] \in L /\ \E i \in Side : child[parent[n]][i] = n

RootsAgree(L) ==
  /\ \A t \in Trees : root[t] # None => root[t] \in L /\ parent[root[t]] = None
  /\ \A t, u \in Trees : root[t] = root[u] /\ root[t] # None => t = u

(* Going up from any node leads out of L only through a root.              *)
Acyclic(L) == \A n \in L : \E m \in Path(n) : parent[m] = None

(* The slots of L, and no others, hang in exactly one tree each, by mutual *)
(* links: a node has one parent, which has it once as a child, up to the   *)
(* root of a tree; a free slot has no links.                               *)
LinksAgreeOn(L) ==
  FreeSlotsBlank /\ ChildrenAgree(L) /\ ParentsAgree(L) /\ RootsAgree(L) /\ Acyclic(L)

(* Every slot in use hangs in exactly one tree, but for the one that       *)
(* remove_at has cut off.                                                  *)
LinksAgree == LinksAgreeOn({n \in Live : ~InLimbo(n)})

(* Red nodes have black parents, except where the running loop stands:     *)
(* at the cursor of fix_insert, and below the sibling that the close       *)
(* nephew was rotated over.                                                *)
RedRedAllowed(n) ==
  \/ pc \in {"fix_insert", "rotate_outer"} /\ n = ptr
  \/ pc = "red_far_nephew" /\ n = child[FarNephew][1 - dir]

(* fix_remove: the paths below par on side dir lack one black node.        *)
Lacking(n, i) ==
  /\ pc \in FixRemoveStep
  /\ \/ n = par /\ i = dir
     \/ child[par][dir] \in Path(n)

BlackDepth(n) ==
  LET Depth[m \in Ref] ==
        IF m = None THEN 0 ELSE (IF IsRed(m) THEN 0 ELSE 1) + Depth[parent[m]]
  IN  Depth[n]

(* The red-black rules with the loop invariants of both repair loops; the  *)
(* black height in Bounds is the one of every path, at every step.         *)
RedBlack ==
  \A t \in Trees :
    /\ \A n \in Attached(t) :
         /\ IsRed(n) /\ parent[n] # None /\ IsRed(parent[n]) => RedRedAllowed(n)
         /\ \A i \in Side : child[n][i] = None =>
              black_height[t] = BlackDepth(n) + (IF Lacking(n, i) THEN 1 ELSE 0)
    /\ IsRed(root[t]) => pc = "blacken"

(* Where a node stands in the key order.  The slot to unlink may hold the  *)
(* key its predecessor traded for the next one: it stands right after it.  *)
Rank(n) ==
  LET prev == order[n][0]
  IN  IF /\ pc \in Unlinked \cup {"unlink"} /\ n = node
         /\ prev # None /\ key[prev] > key[n]
      THEN 2 * key[prev] + 1
      ELSE 2 * key[n]

(* A search tree whose thread is its in-order sequence: order[n] are the   *)
(* neighbours of n by key, and the range its ends, also while a node is    *)
(* unlinked but still threaded.                                            *)
Threaded ==
  \A t \in Trees :
    LET T == Threads(t)
        rank == [n \in T |-> Rank(n)]
        Before(i, n, m) == IF i = 0 THEN rank[n] < rank[m] ELSE rank[m] < rank[n]
        Beyond(i, n) == {m \in T : Before(i, m, n)}
    IN  /\ \A n \in T, i \in Side :
             IF order[n][i] = None
             THEN Beyond(i, n) = {}
             ELSE /\ order[n][i] \in T /\ Before(i, order[n][i], n)
                  /\ \A m \in Beyond(i, n) : ~Before(i, order[n][i], m)
        /\ \A i \in Side :
             IF T = {} THEN range[t][i] = None
             ELSE range[t][i] \in T /\ order[range[t][i]][i] = None
        /\ \A n \in Attached(t), i \in Side :
             \A m \in Subtree(child[n][i]) : Before(i, m, n)

(* What the SAFETY comments promise: no unwrap meets a None, the panics of *)
(* remove_at are unreachable, a search ends at a free place, and rotate    *)
(* always has its pivot.                                                   *)
NoPanic ==
  /\ pc = "fix_insert" => parent[ptr] # None
  /\ pc = "fix_insert" /\ IsRed(parent[ptr]) => Grandparent # None
  /\ pc = "rotate_outer" => parent[ptr] # None /\ Grandparent # None
  /\ pc = "blacken" => root[call.tree] # None
  /\ pc \in FixRemoveStep => par # None /\ Sibling # None
  /\ pc = "black_sibling" => ~IsRed(Sibling)
  /\ pc = "red_far_nephew" => IsRed(FarNephew)
  /\ pc = "Here" /\ (\A i \in Side : child[ptr][i] # None) =>
       order[ptr][1] # None /\ child[order[ptr][1]][0] = None
  /\ pc = "unlink" => \E i \in Side : child[node][i] = None
  /\ pc = "LeftOf" => child[ptr][0] = None
  /\ pc = "RightOf" => child[ptr][1] = None
  /\ pc = "descend" => ptr # None

-----------------------------------------------------------------------------
(* Between calls the cumulant of every node is the one its subtree has.    *)
CumulantsCurrent ==
  pc = "idle" /\ HasCumulant =>
    \A n \in Live : cum[n] = CumulantOf(n, child[n])

(* A call on one tree leaves the nodes of the others alone: the writes go  *)
(* only to port-owned items (arena/port.rs).                               *)
SameNode(n) ==
  /\ key'[n] = key[n] /\ val'[n] = val[n] /\ cum'[n] = cum[n] /\ color'[n] = color[n]
  /\ parent'[n] = parent[n] /\ child'[n] = child[n] /\ order'[n] = order[n]

OtherTreesUntouched ==
  [][\A t \in Trees : (call = None \/ call.tree # t) =>
       /\ \A n \in Members(t) : SameNode(n)
       /\ root'[t] = root[t] /\ range'[t] = range[t] /\ black_height'[t] = black_height[t]
    ]_vars

(* Every call returns: the repair loops and the walks to the root end.     *)
CallReturns == (pc # "idle") ~> (pc = "idle")

-----------------------------------------------------------------------------
(* The map of a tree: its nodes, without the one being inserted and with   *)
(* the one being removed.                                                  *)
InsertInFlight(n) ==
  n = node /\ (pc \in InsertStep \/ (pc = "propagate" /\ call.op = "insert"))

Contents(t) == {n \in Members(t) : ~InsertInFlight(n)}

Dict ==
  [t \in Trees |->
     LET C == Contents(t)
         At(k) == {n \in C : key[n] = k}
     IN  [k \in Keys |-> IF At(k) = {} THEN None ELSE val[CHOOSE n \in At(k) : TRUE]]]

(* Insert, remove, get and search take effect on the ordered map in one    *)
(* step, the one that returns, with the result the map prescribes.         *)
Map == INSTANCE OrderedMap WITH dict <- Dict
ImplementsOrderedMap == Map!Spec
=============================================================================
