----------------------------- MODULE Traversal -----------------------------
(***************************************************************************)
(* What a walk over a tree promises: an iterator, a filter, a cursor, or   *)
(* the end of a tree that is drained.  The tree is an ordered map that     *)
(* nobody else changes while it is walked.  Nothing is said of nodes.      *)
(***************************************************************************)
EXTENDS Integers

CONSTANTS
  Keys,    \* the keys (K: Ord)
  Values,  \* the local values (V::Local)
  None     \* the absent value

VARIABLES
  dict,     \* dict[t][k], the value of k in tree t or None, for each tree t
  tree,     \* the tree that is walked, or None
  pending,  \* the keys the walk may still come to
  at,       \* the key a cursor stands on, or None
  item      \* the last item of a walk

vars == <<dict, tree, pending, at, item>>

Domain(t) == {k \in Keys : dict[t][k] # None}
IsLeast(k, S) == k \in S /\ \A l \in S : k <= l
IsMost(k, S) == k \in S /\ \A l \in S : l <= k

(* p is what P holds of, the only one, or None if it holds of nothing.     *)
IsOnly(p, S, P(_)) == IF p = None THEN \A k \in S : ~P(k) ELSE p \in S /\ P(p)

Init == dict = <<>> /\ tree = None /\ pending = {} /\ at = None /\ item = None

(* The other trees change, come and go.                                    *)
Elsewhere ==
  /\ UNCHANGED <<item, tree, at, pending>>
  /\ tree # None => tree \in DOMAIN dict' /\ dict'[tree] = dict[tree]

(* An iterator or a filter of t has all its keys before it.                *)
Begin(t) ==
  /\ tree = None /\ tree' = t
  /\ pending' = Domain(t)
  /\ UNCHANGED <<dict, at, item>>

(* An iterator over a range has the keys from min to max before it.        *)
BeginRange(t, min, max) ==
  /\ tree = None /\ tree' = t
  /\ item' = [op |-> "range", min |-> min, max |-> max]
  /\ pending' = {k \in Domain(t) : min <= k /\ k <= max}
  /\ UNCHANGED <<dict, at>>

(* cursor: somewhere in the tree; cursor_at: on the highest key that is    *)
(* not above k, which is the item of this step.                            *)
Stand(t) ==
  /\ tree = None /\ tree' = t
  /\ at' \in Domain(t) \cup {None}
  /\ at' = None => Domain(t) = {}
  /\ UNCHANGED <<dict, pending, item>>

StandAt(t, k) ==
  /\ tree = None /\ tree' = t
  /\ IsOnly(at', Domain(t), LAMBDA l : IsMost(l, {m \in Domain(t) : m <= k}))
  /\ item' = [op |-> "at", key |-> k]
  /\ UNCHANGED <<dict, pending>>

(* Off the tree, the cursor comes back on at the other end.                *)
Beside(i, k, S) ==
  IF i = 0 THEN IsMost(k, {l \in S : at = None \/ l < at})
  ELSE IsLeast(k, {l \in S : at = None \/ l > at})
Move(i) ==
  /\ tree # None /\ pending = {}
  /\ IsOnly(at', Domain(tree), LAMBDA k : Beside(i, k, Domain(tree)))
  /\ item' = [op |-> "order", side |-> i]
  /\ UNCHANGED <<dict, tree, pending>>

(* Up or down, nobody knows how far; down on side i to keys on that side.  *)
MoveUp ==
  /\ at # None /\ at' \in Domain(tree)
  /\ item' = [op |-> "parent"]
  /\ UNCHANGED <<dict, tree, pending>>
MoveDown(i) ==
  /\ at # None /\ at' \in Domain(tree) /\ (IF i = 0 THEN at' <= at ELSE at' >= at)
  /\ item' = [op |-> "child", side |-> i]
  /\ UNCHANGED <<dict, tree, pending>>

(* iter_below: the keys of a subtree, which have no other key in between.  *)
BeginBelow ==
  /\ tree # None /\ pending = {}
  /\ pending' \subseteq Domain(tree)
  /\ at = None => pending' = {}
  /\ at # None => at \in pending'
  /\ \A k, m \in pending', l \in Domain(tree) : k < l /\ l < m => l \in pending'
  /\ at' = None
  /\ UNCHANGED <<dict, tree, item>>

(* Each key comes once, the lowest from the front and the highest from the *)
(* back, with its value; a mutable iterator may leave another one there,   *)
(* and a draining one leaves nothing.                                      *)
Yield(k) ==
  LET given == dict[tree][k]
      left == dict'[tree][k]
  IN
  /\ IsLeast(k, pending) \/ IsMost(k, pending)
  /\ item' = [op |-> "next", key |-> k, val |-> given]
  /\ pending' = pending \ {k}
  /\ left \in Values \cup {None}
  /\ dict' = [dict EXCEPT ![tree][k] = left]
  /\ UNCHANGED <<tree, at>>

(* A filter comes to the keys in an order of its own, each once, and gives *)
(* up some keys below or above only when it is told to.                    *)
Visit(k) ==
  LET given == dict[tree][k]
      left == dict'[tree][k]
  IN
  /\ k \in pending /\ pending' \subseteq pending \ {k}
  /\ \E action \in [left : BOOLEAN, right : BOOLEAN, match : BOOLEAN] :
       /\ item' = [op |-> "visit", key |-> k, val |-> given, action |-> action]
       /\ \A l \in pending \ {k} :
            (IF l < k THEN action.left ELSE action.right) => l \in pending'
       /\ left # given => action.match /\ left \in Values
  /\ dict' = [dict EXCEPT ![tree][k] = left]
  /\ UNCHANGED <<tree, at>>

(* The walk ends; a tree that was drained is gone, and was empty.          *)
End ==
  /\ tree # None /\ tree' = None /\ pending' = {} /\ at' = None
  /\ \/ UNCHANGED dict
     \/ Domain(tree) = {} /\ dict' = [t \in DOMAIN dict \ {tree} |-> dict[t]]
  /\ UNCHANGED item

Next ==
  \/ Elsewhere
  \/ \E t \in DOMAIN dict :
       \/ Begin(t) \/ Stand(t)
       \/ \E k \in Keys : StandAt(t, k)
       \/ \E min, max \in Keys : BeginRange(t, min, max)
  \/ MoveUp \/ \E i \in {0, 1} : Move(i) \/ MoveDown(i)
  \/ BeginBelow
  \/ \E k \in pending : Yield(k) \/ Visit(k)
  \/ End

Spec == Init /\ [][Next]_vars
=============================================================================
