------------------------------ MODULE MCRBTree ------------------------------
(***************************************************************************)
(* Instances of RBTree for TLC.                                            *)
(***************************************************************************)
EXTENDS RBTreeLaws, TLC

(* A state up to the choice of slots, for one tree: every slot is named by *)
(* its key.  The last result is left out: no step reads it.                *)
Name(n) == IF n = None THEN None ELSE key[n]
Names(link) == <<Name(link[0]), Name(link[1])>>
NodeView(n) ==
  <<val[n], cum[n], color[n], Name(parent[n]), Names(child[n]), Names(order[n])>>
KeyView ==
  <<{<<key[n], NodeView(n)>> : n \in Live},
    [t \in Trees |-> <<Name(root[t]), Names(range[t]), black_height[t]>>],
    pc, call, Name(node), Name(ptr), Name(par), dir>>

(* WithSum of test/cumulant.rs, modulo a small number.                     *)
Modulus == 11
MCCumulants == 0 .. Modulus - 1
SumModulo(v, l, r) == (v + l + r) % Modulus

(* Clients that bind every key to itself, each in a tree of its own, and   *)
(* never twice: the last key is alone in the second tree.                  *)
KeysAlive == {key[n] : n \in Live}
Home(k) == IF k = Cardinality(Keys) THEN 2 ELSE 1

FreshCall ==
  \/ \E k \in Keys \ KeysAlive : CallOp("insert", Home(k), k, k)
  \/ \E k \in Keys, op \in Op \ {"insert"} : CallOp(op, Home(k), k, None)
FreshSpec == Init /\ [][FreshCall \/ Step]_vars /\ WF_vars(Step)
=============================================================================
