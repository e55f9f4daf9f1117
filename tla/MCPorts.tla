------------------------------ MODULE MCPorts -------------------------------
(***************************************************************************)
(* Instances of Ports for TLC: who asks for a guard while it has another.  *)
(***************************************************************************)
EXTENDS Ports, TLC

(* Any guard inside any other, which no thread could do worse.             *)
AnyNested == [outer : Kinds, inner : Kinds, sametree : BOOLEAN]

(* One guard at a time.                                                    *)
NothingNested == {}

(* union_disjoint, union_merge and join ask for a guard of one tree with   *)
(* the guard of the other in hand.                                         *)
UnionNested ==
  {[outer |-> pair[1], inner |-> pair[2], sametree |-> FALSE] :
     pair \in {<<"read", "write">>, <<"read", "alloc">>,
              <<"write", "read">>, <<"write", "write">>}}

(* The end of a ValueMut asks for the port its guard has.                  *)
ValueMutNested ==
  {[outer |-> k, inner |-> "write", sametree |-> TRUE] : k \in {"write", "alloc"}}

Symmetry == Permutations(Threads) \cup Permutations(Trees)
=============================================================================
