----------------------------- MODULE OrderedMap -----------------------------
(***************************************************************************)
(* What a forest of red-black trees promises its callers: every tree is an *)
(* ordered map.  Nothing is said of nodes, colors or links.  The tree      *)
(* modules implement this one under a refinement mapping.                  *)
(***************************************************************************)
EXTENDS Integers

CONSTANTS
  Keys,    \* the keys (K: Ord)
  Values,  \* the local values (V::Local)
  Trees,   \* the trees of one forest
  None     \* the absent value


VARIABLES
  dict,    \* dict[t][k] is the value of k in tree t, or None
  ret      \* the last call and what it returned

vars == <<dict, ret>>

Domain(t) == LET d == dict[t] IN {k \in Keys : d[k] # None}

(* The neighbours of a key in a set: the closest one on either side.       *)
IsPredecessor(p, D, k) == p \in D /\ p < k /\ \A l \in D : l < k => l <= p
IsSuccessor(s, D, k)   == s \in D /\ k < s /\ \A l \in D : k < l => s <= l

Init ==
  /\ dict = [t \in Trees |-> [k \in Keys |-> None]]
  /\ ret = None

Done(op, t, k, v, result) ==
  ret' = <<[op |-> op, tree |-> t, key |-> k, val |-> v], result>>

(* Insert binds the key and tells whether it was absent.                   *)
Insert(t, k, v) ==
  /\ Done("insert", t, k, v, dict[t][k] = None)
  /\ dict' = [dict EXCEPT ![t][k] = v]

(* Remove unbinds the key and returns the value it had, if any.            *)
Remove(t, k) ==
  /\ Done("remove", t, k, None, dict[t][k])
  /\ dict' = [dict EXCEPT ![t][k] = None]

Get(t, k) ==
  /\ Done("get", t, k, None, dict[t][k])
  /\ UNCHANGED dict

(* Search names the key itself or one of its two neighbours.               *)
Search(t, k) ==
  LET D == Domain(t)
      Found(where, l) == Done("search", t, k, None, <<where, l>>)
  IN
  /\ \/ D = {} /\ Found("Empty", None)
     \/ k \in D /\ Found("Here", k)
     \/ \E l \in D : /\ k \notin D
                     /\ \/ IsSuccessor(l, D, k) /\ Found("LeftOf", l)
                        \/ IsPredecessor(l, D, k) /\ Found("RightOf", l)
  /\ UNCHANGED dict

Next ==
  \E t \in Trees, k \in Keys :
    \/ \E v \in Values : Insert(t, k, v)
    \/ Remove(t, k)
    \/ Get(t, k)
    \/ Search(t, k)

Spec == Init /\ [][Next]_vars
=============================================================================
