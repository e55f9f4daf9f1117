------------------------------ MODULE MCForest ------------------------------
(***************************************************************************)
(* Instances of Forest for TLC.                                            *)
(***************************************************************************)
EXTENDS ForestLaws, TLC

(* WithSum of test/cumulant.rs, modulo a small number.                     *)
Modulus == 31
MCCumulants == 0 .. Modulus - 1
SumModulo(v, l, r) == (v + l + r) % Modulus

(* A merge that tells its arguments apart.                                 *)
MergeBySize(v, w) == IF v < w THEN 3 ELSE IF v > w THEN 4 ELSE v

(* A state up to the choice of slots: a slot is named by its key and its   *)
(* place among the slots with that key.  The last results are left out: no *)
(* step reads them.  Likewise a handle is named by its place among the     *)
(* handles, ordered by the lowest keys of their trees.                     *)
SlotName(n) ==
  IF n = None THEN None ELSE <<key[n], Cardinality({m \in Live : key[m] = key[n] /\ m < n})>>
Standing(t) ==
  t + (IF t \notin trees THEN 2000 ELSE IF IsEmpty(t) THEN 1000 ELSE 10 * MinKey(t))

ForestView ==
  LET Name == [n \in Index \cup {None} |-> SlotName(n)]
      weight == [t \in Trees |-> Standing(t)]
      Handle == [t \in Trees \cup {None} |->
                   IF t = None THEN None
                   ELSE Cardinality({u \in Trees : weight[u] < weight[t]})]
      Names(link) == <<Name[link[0]], Name[link[1]]>>
      NodeView(n) ==
        <<Name[n], val[n], cum[n], color[n], Name[parent[n]], Names(child[n]), Names(order[n])>>
      FrameView(f) ==
        [x \in DOMAIN f |->
           CASE x \in {"node", "target", "index"} -> Name[f[x]]
             [] x \in {"this", "that"} -> Handle[f[x]]
             [] x = "name" ->
                  <<f[x][1], Handle[f[x][2]], IF f[x][1] = "split" THEN f[x][3] ELSE Handle[f[x][3]]>>
             [] x = "was" -> {<<Handle[t], f[x][t]>> : t \in DOMAIN f[x]}
             [] OTHER -> f[x]]
  IN
  <<{NodeView(n) : n \in Live},
    {<<Handle[t], Name[root[t]], Names(range[t]), black_height[t]>> : t \in trees},
    pc, IF call = None THEN None ELSE [call EXCEPT !.tree = Handle[@]],
    Name[node], Name[ptr], Name[par], dir,
    [d \in DOMAIN stack |-> FrameView(stack[d])],
    <<Handle[back[1]], Name[back[2]], Handle[back[3]]>>>>

Nth(S, p) == CHOOSE x \in S : Cardinality({y \in S : y < x}) = p - 1
Bound(S, v) == [p \in 1 .. Cardinality(S) |-> <<Nth(S, p), v>>]
FirstFree(n) == [p \in 1 .. n |-> Nth(Index \ Live, p)]

(* The join that finds a red node where the heights meet (join_unchecked)  *)
(* is the subject of a run of its own.                                     *)
MeetsRed == At("descend") /\ Top.diff = 0 /\ IsRed(Top.index)

MakeTree(S, v) == InsertSorted(Bound(S, v), FirstFree(Cardinality(S)))

KeysAlive == {key[n] : n \in Live}
KeysOf(t) == {key[n] : n \in Attached(t)}

(* Clients of four kinds.  Some merge two trees with any few keys, up to  *)
(* two in common, the second with larger values.  Some unite and split     *)
(* trees of very few keys for ever, and insert and remove keys.  Others    *)
(* unite trees of consecutive keys, each of which ends at one of a few     *)
(* keys, to one of all keys, which they split and clear: trees whose       *)
(* heights are far apart.  And some add keys to one tree in falling order, *)
(* which leaves it black at its higher end, and take them off its ends, so *)
(* that fix_remove goes around more than twice.                            *)
MergedKeys == 1 .. 5
FewKeys == 1 .. 3
Few == KeysAlive \subseteq FewKeys
Fresh == \A n \in Live : val[n] = 1
Ends == {2, 17, 22, 24}
Falling == 3 .. 24
Lowest == CHOOSE k \in KeysAlive : \A l \in KeysAlive : k <= l
Highest == CHOOSE k \in KeysAlive : \A l \in KeysAlive : l <= k
Consecutive == \E n \in {0} \cup Ends : KeysAlive = 1 .. n

ClientCall ==
  \/ \E S \in SUBSET MergedKeys : trees = {} /\ MakeTree(S, 1)
  \/ \E S \in SUBSET MergedKeys :
       /\ Cardinality(trees) = 1 /\ KeysAlive \subseteq MergedKeys /\ Fresh
       /\ Cardinality(KeysAlive \cap S) <= 2
       /\ MakeTree(S, 2)
  \/ \E t \in trees, k \in FewKeys :
       /\ Few
       /\ \/ k \notin KeysAlive /\ CallTree("insert", t, k, 1)
          \/ CallTree("remove", t, k, None)
  \/ \E n \in Ends :
       /\ Cardinality(trees) <= 1 /\ Consecutive /\ Fresh
       /\ Cardinality(Live) < n
       /\ MakeTree(Cardinality(Live) + 1 .. n, 1)
  \/ \E t \in trees, k \in Keys :
       /\ Cardinality(trees) = 1
       /\ Few \/ KeysAlive = Keys
       /\ CallSplit(t, k)
  \/ \E a, b \in trees :
       /\ KeysAlive \subseteq MergedKeys
       /\ CallUnion("union_merge", a, b)
  \/ \E a, b \in trees :
       /\ Few \/ Consecutive
       /\ IsSingle(a) \/ IsSingle(b) => KeysOf(a) \cap KeysOf(b) = {}
       /\ CallUnion("union_disjoint", a, b)
  \/ \E t \in trees : ~Few /\ Clear(t)
  \/ \E t \in trees, k \in Falling :
       /\ trees = {t} /\ KeysAlive = k + 1 .. 24
       /\ CallTree("insert", t, k, 1)
  \/ \E t \in trees :
       /\ trees = {t} /\ KeysAlive # {} /\ KeysAlive \subseteq Falling
       /\ \/ CallTree("remove", t, Highest, None)
          \/ Highest # 24 /\ CallTree("remove", t, Lowest, None)

Halted ==
  /\ MeetsRed \/ At("value_mut")
  /\ UNCHANGED fvars

MCNext ==
  \/ ClientCall
  \/ TreeStep
  \/ ForestStep
  \/ ~MeetsRed /\ JoinAttach
  \/ Halted
MCSpec == FInit /\ [][MCNext]_fvars

(* The same clients and every join.                                        *)
JoinNext == MCNext \/ JoinAttach
JoinSpec == FInit /\ [][JoinNext]_fvars
=============================================================================
