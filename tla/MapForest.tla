----------------------------- MODULE MapForest -----------------------------
(***************************************************************************)
(* What a WeakForest promises of whole trees: each is an ordered map, they *)
(* come and go, and union, merge and split move bindings between them in   *)
(* one step.  Nothing is said of nodes, or of which handles, given or new, *)
(* the results come back in.                                               *)
(***************************************************************************)
EXTENDS Integers

CONSTANTS
  Keys,         \* the keys (K: Ord)
  Values,       \* the local values (V::Local)
  Trees,        \* handles of trees, of those there are now or ever
  None,         \* the absent value
  Merged(_, _)  \* the caller's merge: a value and the one merged into it

VARIABLES
  dict,    \* dict[t][k], the value of k in tree t or None, for each tree t
  answer   \* the last call on whole trees and what it returned

vars == <<dict, answer>>

Alive == DOMAIN dict
Nothing == [k \in Keys |-> None]
Domain(d) == {k \in Keys : d[k] # None}
Below(D, k) == \A l \in D : l < k
Separate(D, E) == (\A k \in D : Below(E, k)) \/ (\A k \in E : Below(D, k))

Init == dict = <<>> /\ answer = None

(* A new tree with whatever bindings it is built from, or a call on one    *)
(* tree: it changes one binding (OrderedMap) at most, or takes all.        *)
OneTree(t) ==
  /\ UNCHANGED answer
  /\ Alive' = Alive \cup {t}
  /\ \A u \in Alive \ {t} : dict'[u] = dict[u]
  /\ t \in Alive /\ dict'[t] # Nothing =>
       \E k \in Keys : dict'[t] = [dict[t] EXCEPT ![k] = dict'[t][k]]

(* Trees a and b are gone; r has the bindings d.                           *)
Joined(a, b, r, d) ==
  /\ r \notin Alive \ {a, b}
  /\ dict' = [u \in (Alive \ {a, b}) \cup {r} |-> IF u = r THEN d ELSE dict[u]]

Both(a, b) == [k \in Keys |-> IF dict[a][k] # None THEN dict[a][k] ELSE dict[b][k]]

UnionDisjoint(a, b, r) ==
  /\ answer' = <<"union_disjoint", a, b, r>>
  /\ Domain(dict[a]) \cap Domain(dict[b]) = {}
  /\ Joined(a, b, r, Both(a, b))

(* Only maps whose keys lie apart can be counted on to be joined.          *)
UnionFails(a, b) ==
  /\ answer' = <<"union_disjoint", a, b, None>>
  /\ ~Separate(Domain(dict[a]), Domain(dict[b]))
  /\ UNCHANGED dict

(* Where both have the key, the value of a is merged into the one of b.    *)
UnionMerge(a, b, r) ==
  /\ answer' = <<"union_merge", a, b, r>>
  /\ Joined(a, b, r, [k \in Keys |-> IF dict[a][k] # None /\ dict[b][k] # None
                                     THEN Merged(dict[b][k], dict[a][k])
                                     ELSE Both(a, b)[k]])

(* The keys below k, its value, and the keys above.                        *)
Split(t, k, left, right) ==
  /\ answer' = <<"split", t, k, left, dict[t][k], right>>
  /\ left # right /\ {left, right} \cap Alive \subseteq {t}
  /\ dict' = [u \in (Alive \ {t}) \cup {left, right} |->
                IF u = left THEN [l \in Keys |-> IF l < k THEN dict[t][l] ELSE None]
                ELSE IF u = right THEN [l \in Keys |-> IF l > k THEN dict[t][l] ELSE None]
                ELSE dict[u]]

Next ==
  \/ \E t \in Trees : OneTree(t)
  \/ \E a, b \in Alive : a # b /\
       \/ UnionFails(a, b)
       \/ \E r \in Trees : UnionDisjoint(a, b, r) \/ UnionMerge(a, b, r)
  \/ \E t \in Alive, k \in Keys, l, r \in Trees : Split(t, k, l, r)

Spec == Init /\ [][Next]_vars
=============================================================================
