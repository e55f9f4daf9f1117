---------------------------- MODULE RBTreeBalance ----------------------------
(***************************************************************************)
(* The red-black rules, with the loop invariants of fix_insert and         *)
(* fix_remove, and what follows from them: no unwrap of tree/mod.rs meets  *)
(* a None, and, for clients that never overwrite a key, every cumulant     *)
(* that is out of date is on the way that the call in flight has to go.    *)
(***************************************************************************)
EXTENDS RBTreeLinks

USE DEF Side, Ref

(* Links from a hanging node lead to hanging nodes and back.               *)
LEMMA HungClosed ==
  ASSUME TypeOK, NEW D \in [Ref -> SUBSET Index], NEW rk \in [Index -> Int], Laws(D, rk)
  PROVE  /\ Hung \subseteq Index /\ None \notin Index
         /\ \A n \in Hung : parent[n] \in Hung \cup {None} /\ parent[n] # n
         /\ \A n \in Hung : parent[n] # None => \E s \in Side : child[parent[n]][s] = n
         /\ \A n \in Hung : parent[n] = None => \E t \in Trees : root[t] = n
         /\ \A n \in Hung, i \in Side : child[n][i] \in Hung \cup {None}
         /\ \A n \in Hung, i \in Side : child[n][i] # None => parent[child[n][i]] = n
         /\ \A n \in Hung, i, j \in Side : child[n][i] # None /\ i # j => child[n][i] # child[n][j]
         /\ \A t \in Trees : root[t] \in Hung \cup {None}
         /\ \A t \in Trees : root[t] # None => parent[root[t]] = None
<1>1. Shape(Hung, parent, child, root, D, rk)
  BY DEF Laws, LinkLaws
<1>2. Linked(Hung, parent, child) /\ Rooted(Hung, parent, root, D) /\ Descends(Hung, parent, child, D)
  BY <1>1 DEF Shape
<1>3. Hung \subseteq Index /\ None \notin Index
  BY HungLive, NoneAssumption
<1>4. ASSUME NEW n \in Hung PROVE parent[n] \in Hung \cup {None} /\ parent[n] # n
  <2>1. Apart(parent, child, D, n)
    BY OwnApart
  <2> QED  BY <1>2, <2>1 DEF Linked, Apart
<1>5. ASSUME NEW n \in Hung, parent[n] = None PROVE \E t \in Trees : root[t] = n
  <2>1. PICK t \in Trees : n \in D[root[t]]
    BY <1>2 DEF Rooted
  <2>2. InTree(Hung, parent, child, root, D, t, D[root[t]])
    BY OwnTree
  <2> QED  BY <1>5, <2>1, <2>2 DEF InTree
<1>6. ASSUME NEW n \in Hung, NEW i \in Side, NEW j \in Side, child[n][i] # None, i # j
      PROVE  child[n][i] # child[n][j]
  <2>1. Apart(parent, child, D, n)
    BY OwnApart
  <2> QED  BY <1>6, <2>1 DEF Apart
<1>7. \A t \in Trees : root[t] \in Hung \cup {None} /\ (root[t] # None => parent[root[t]] = None)
  BY <1>2 DEF Rooted
<1>8. \A n \in Hung : parent[n] # None => \E s \in Side : child[parent[n]][s] = n
  BY <1>2 DEF Linked
<1>9. /\ \A n \in Hung, i \in Side : child[n][i] \in Hung \cup {None}
      /\ \A n \in Hung, i \in Side : child[n][i] # None => parent[child[n][i]] = n
  BY <1>2 DEF Linked
<1> QED  BY <1>3, <1>4, <1>5, <1>6, <1>7, <1>8, <1>9

(* The steps of the two repair loops, fix_insert and fix_remove with the   *)
(* helpers they call.                                                      *)
Repairing == {"fix_insert", "rotate_outer", "blacken"} \cup FixRemoveStep

(* A step that stays out of the repair loops and rewires and recolors      *)
(* nothing that hangs.                                                     *)
LEMMA BalanceFrame ==
  ASSUME TypeOK, NEW D \in [Ref -> SUBSET Index], NEW rk \in [Index -> Int], Laws(D, rk),
         NEW h \in [Ref -> Nat], BalanceLaws(h), Hung' = Hung,
         \A n \in Hung : color'[n] = color[n] /\ parent'[n] = parent[n] /\ child'[n] = child[n],
         UNCHANGED <<root, black_height>>,
         pc \notin Repairing, pc' \notin Repairing,
         Limbo' => Limbo /\ node' = node /\ parent'[node] = parent[node]
  PROVE  BalanceLaws(h)'
<1>1. /\ Hung \subseteq Index /\ None \notin Index
      /\ \A n \in Hung : parent[n] \in Hung \cup {None}
      /\ \A t \in Trees : root[t] \in Hung \cup {None}
  BY HungClosed
<1>2. HeightLaws(h) /\ RedLaws /\ RepairLaws
  BY DEF BalanceLaws
<1>3. HeightLaws(h)'
  BY <1>2 DEF HeightLaws, Weight, Deficit, Repairing
<1>4. RedLaws'
  <2>1. \A n \in Hung : ~(IsRed(n) /\ IsRed(parent[n]))
    BY <1>2 DEF RedLaws, RedRedAllowed, Repairing, FixRemoveStep
  <2>2. \A n \in Hung \cup {None} : IsRed(n)' <=> IsRed(n)
    BY DEF IsRed
  <2>3. \A n \in Hung : IsRed(parent[n])' <=> IsRed(parent[n])
    BY <1>1, <2>2 DEF IsRed
  <2>4. \A t \in Trees : ~IsRed(root[t])
    BY <1>2 DEF RedLaws, Repairing
  <2>5. \A t \in Trees : ~IsRed(root[t])'
    BY <1>1, <2>4 DEF IsRed
  <2> QED  BY <2>1, <2>2, <2>3, <2>5 DEF RedLaws
<1>5. RepairLaws'
  BY <1>2 DEF RepairLaws, Repairing, FixRemoveStep
<1> QED  BY <1>3, <1>4, <1>5 DEF BalanceLaws

(* The steps of a call that leave the shape and the colors of the trees    *)
(* alone.                                                                  *)
LEMMA QuietBalance ==
  ASSUME TypeOK, TypeOK', NEW D \in [Ref -> SUBSET Index], NEW rk \in [Index -> Int],
         Laws(D, rk), NEW h \in [Ref -> Nat], BalanceLaws(h),
         \/ Descend \/ Get \/ Search \/ RemoveMiss \/ InsertHere \/ RemoveHere
         \/ Propagate \/ Unthread
         \/ \E op \in Op, t \in Trees, k \in Keys, v \in Values \cup {None} : CallOp(op, t, k, v)
  PROVE  BalanceLaws(h)'
<1>0. UNCHANGED <<color, parent, child, root, black_height>>
  BY DEF Descend, Get, Search, RemoveMiss, InsertHere, RemoveHere, Propagate, Unthread, CallOp,
         links, bounds
<1>a. pc \in SearchResult \cup {"idle", "descend", "propagate", "unthread"}
  BY DEF Descend, Get, Search, RemoveMiss, InsertHere, RemoveHere, Propagate, Unthread, CallOp,
         SearchResult
<1>b. pc' \in SearchResult \cup {"idle", "descend", "propagate", "free", "unlink"}
  <2>1. CASE Descend
    BY <2>1 DEF Descend, SearchResult
  <2>2. CASE Get \/ Search \/ RemoveMiss \/ InsertHere \/ RemoveHere \/ Unthread
    BY <2>2 DEF Get, Search, RemoveMiss, InsertHere, RemoveHere, Unthread, Return
  <2>3. CASE Propagate
    BY <2>3 DEF Propagate, AfterPropagate, Return
  <2>4. ASSUME NEW op \in Op, NEW t \in Trees, NEW k \in Keys, NEW v \in Values \cup {None},
               CallOp(op, t, k, v)
        PROVE  pc' \in SearchResult \cup {"descend"}
    BY <2>4 DEF CallOp, SearchFrom, Found, SearchResult
  <2> QED  BY <2>1, <2>2, <2>3, <2>4
<1>1. /\ UNCHANGED <<color, parent, child, root, black_height>>
      /\ pc \notin Repairing /\ pc' \notin Repairing
  BY <1>0, <1>a, <1>b DEF Repairing, FixRemoveStep, SearchResult
<1>2. Live' = Live /\ (Limbo' <=> Limbo) /\ (Limbo => node' = node)
  <2>1. CASE RemoveHere
    <3>1. pc = "Here" /\ pc' = "unlink"
      BY <2>1 DEF RemoveHere
    <3>2. Live' = Live
      <4>1. CASE UNCHANGED key
        BY <4>1 DEF Live
      <4>2. CASE order[ptr][1] # None /\ key' = Swapped(key, ptr, order[ptr][1])
        <5>1. PICK next : next = order[ptr][1]
          OBVIOUS
        <5>2. ptr \in Live /\ next \in Live
          <6>1. SearchLaws(Own(D), D) /\ InTree(Hung, parent, child, root, D, call.tree, Own(D))
                /\ Own(D) = D[root[call.tree]] /\ call.tree \in Trees
            BY <3>1, OwnCall
          <6>2. Thread(Own(D), order, range[call.tree], rk)
            BY <3>1, <6>1 DEF Laws, StringLaws, Strung, Unlinked
          <6> QED  BY <3>1, <4>2, <5>1, <6>1, <6>2, HungLive DEF SearchLaws, Thread, InTree
        <5>3. key' = [key EXCEPT ![ptr] = key[next], ![next] = key[ptr]]
          BY <4>2, <5>1 DEF Swapped
        <5>4. \A n \in Index : key'[n] # None <=> key[n] # None
          BY <5>2, <5>3 DEF Live, TypeOK
        <5> QED  BY <5>4 DEF Live
      <4> QED  BY <2>1, <4>1, <4>2 DEF RemoveHere, data
    <3> QED  BY <3>1, <3>2 DEF Limbo, Unlinked
  <2>2. CASE ~RemoveHere
    <3>1. key' = key
      BY <2>2 DEF Descend, Get, Search, RemoveMiss, InsertHere, Propagate, Unthread, CallOp, data
    <3>2. CASE Propagate
      <4>1. pc = "propagate" /\ ((pc' = pc /\ UNCHANGED <<call, node>>) \/ AfterPropagate)
        BY <3>2 DEF Propagate
      <4>2. CASE call.op = "insert"
        BY <3>1, <4>1, <4>2 DEF AfterPropagate, Return, Limbo, Unlinked, Live
      <4>3. CASE call.op # "insert"
        <5>1. call.op = "remove"
          BY <4>1, <4>3 DEF Laws, CallLaws
        <5> QED  BY <3>1, <4>1, <4>3, <5>1 DEF AfterPropagate, Limbo, Live
      <4> QED  BY <3>1, <4>2, <4>3 DEF Live
    <3>3. CASE Unthread
      <4>1. pc = "unthread" /\ pc' = "propagate" /\ UNCHANGED <<call, node>> /\ call.op = "remove"
        BY <3>3 DEF Unthread, Laws, CallLaws, RemoveStep
      <4> QED  BY <3>1, <4>1 DEF Limbo, Live, Unlinked
    <3>4. CASE ~Propagate /\ ~Unthread
      <4>1. pc \notin {"propagate", "unthread"} /\ pc' \notin {"propagate", "free"}
        <5>1. CASE Descend
          BY <5>1 DEF Descend
        <5>2. CASE Get \/ Search \/ RemoveMiss \/ InsertHere
          BY <5>2 DEF Get, Search, RemoveMiss, InsertHere, Return, SearchResult
        <5>3. ASSUME NEW op \in Op, NEW t \in Trees, NEW k \in Keys,
                     NEW v \in Values \cup {None}, CallOp(op, t, k, v)
              PROVE  pc = "idle" /\ pc' \in SearchResult \cup {"descend"}
          BY <5>3 DEF CallOp, SearchFrom, Found, SearchResult
        <5> QED  BY <2>2, <3>4, <5>1, <5>2, <5>3 DEF SearchResult
      <4>2. pc \notin Unlinked \cup {"free"} /\ pc' \notin Unlinked \cup {"free"}
        BY <4>1, <1>a, <1>b DEF Unlinked, SearchResult
      <4> QED  BY <3>1, <4>1, <4>2 DEF Limbo, Live
    <3> QED  BY <3>2, <3>3, <3>4
  <2> QED  BY <2>1, <2>2
<1>3. Hung' = Hung
  BY <1>2 DEF Hung
<1>4. \A n \in Hung : color'[n] = color[n] /\ parent'[n] = parent[n] /\ child'[n] = child[n]
  BY <1>1
<1>5. Limbo' => Limbo /\ node' = node /\ parent'[node] = parent[node]
  BY <1>1, <1>2
<1> HIDE DEF Side, Ref
<1> QED  BY <1>1, <1>3, <1>4, <1>5, BalanceFrame

(* The slot that is freed hangs nowhere.                                   *)
LEMMA FreeBalance ==
  ASSUME TypeOK, TypeOK', NEW D \in [Ref -> SUBSET Index], NEW rk \in [Index -> Int],
         Laws(D, rk), NEW h \in [Ref -> Nat], BalanceLaws(h), FreeAny
  PROVE  BalanceLaws(h)'
<1>1. /\ pc = "free" /\ pc' = "idle" /\ Limbo /\ ~Limbo' /\ UNCHANGED <<root, black_height>>
      /\ pc \notin Repairing /\ pc' \notin Repairing
  BY DEF FreeAny, Limbo, Unlinked, bounds, Repairing, FixRemoveStep
<1>2. node \in Live /\ Live \subseteq Index
  BY <1>1, OwnCall DEF UpdateLaws, Live
<1>3. Live' = Live \ {node} /\ Hung' = Hung
  <2>1. key' = [key EXCEPT ![node] = None] /\ key \in [Index -> Keys \cup {None}]
    BY DEF FreeAny, TypeOK
  <2>2. Live' = Live \ {node}
    BY <2>1, <1>2 DEF Live
  <2> QED  BY <2>2, <1>1 DEF Hung
<1>4. \A n \in Hung : color'[n] = color[n] /\ parent'[n] = parent[n] /\ child'[n] = child[n]
  <2> TAKE n \in Hung
  <2>1. n # node /\ n \in Index
    BY <1>1, <1>2 DEF Hung
  <2> QED  BY <2>1 DEF FreeAny
<1> HIDE DEF Side, Ref
<1> QED  BY <1>1, <1>3, <1>4, BalanceFrame

(* The last node leaves an empty tree, of height 0.                        *)
LEMMA UnlinkLastBalance ==
  ASSUME TypeOK, TypeOK', NEW D \in [Ref -> SUBSET Index], NEW rk \in [Index -> Int],
         Laws(D, rk), NEW h \in [Ref -> Nat], BalanceLaws(h), UnlinkLast
  PROVE  BalanceLaws(h)'
<1>1. /\ pc = "unlink" /\ pc # "idle" /\ pc' = "free" /\ ~Limbo /\ Limbo'
      /\ parent[node] = None
      /\ UNCHANGED <<key, color, parent, child, call, node>>
      /\ root' = [root EXCEPT ![call.tree] = None]
      /\ black_height' = [black_height EXCEPT ![call.tree] = 0]
  BY DEF UnlinkLast, Limbo, Unlinked, data, links
<1>2. Hung = Live /\ Hung' = Hung \ {node}
  BY <1>1 DEF Hung, Live
<1>3. HeightLaws(h) /\ RedLaws /\ RepairLaws
  BY DEF BalanceLaws
<1>4. call.tree \in Trees /\ root \in [Trees -> Ref] /\ black_height \in [Trees -> Int]
  BY <1>1, OwnCall DEF TypeOK
<1>5. /\ Hung \subseteq Index /\ None \notin Index
      /\ \A n \in Hung : parent[n] \in Hung \cup {None}
      /\ \A t \in Trees : root[t] \in Hung \cup {None}
  BY HungClosed
<1>6. HeightLaws(h)'
  <2>1. h[None] = 0
    BY <1>3 DEF HeightLaws
  <2>2. \A n \in Hung', i \in Side :
          h[n] = h[child'[n][i]] + Weight(n)' + Deficit(n, i)'
    BY <1>1, <1>2, <1>3 DEF HeightLaws, Weight, Deficit, FixRemoveStep
  <2>3. \A t \in Trees : root'[t] # None => black_height'[t] = h[root'[t]]
    BY <1>1, <1>3, <1>4, <2>1 DEF HeightLaws
  <2> QED  BY <2>1, <2>2, <2>3 DEF HeightLaws
<1>7. RedLaws'
  <2>1. \A n \in Hung' : ~(IsRed(n) /\ IsRed(parent[n]))
    BY <1>1, <1>2, <1>3 DEF RedLaws, RedRedAllowed
  <2>2. \A n \in Hung' : ~(IsRed(n) /\ IsRed(parent[n]))'
    BY <2>1, <1>1 DEF IsRed
  <2>3. \A t \in Trees : ~IsRed(root[t])'
    BY <1>1, <1>3, <1>4 DEF RedLaws, IsRed
  <2> QED  BY <2>2, <2>3 DEF RedLaws
<1>8. RepairLaws'
  BY <1>1 DEF RepairLaws, FixRemoveStep
<1> QED  BY <1>6, <1>7, <1>8 DEF BalanceLaws

(* The two ways to cut a node off that is not the last, as one.            *)
LEMMA UnlinkCut ==
  ASSUME TypeOK, TypeOK', NEW D \in [Ref -> SUBSET Index], NEW rk \in [Index -> Int],
         Laws(D, rk), (\E i \in Side : UnlinkOneChild(i)) \/ UnlinkLeaf
  PROVE  /\ pc = "unlink" /\ ~Limbo /\ Limbo' /\ node' = node /\ node \in Hung
         /\ Hung' = Hung \ {node} /\ UNCHANGED black_height
         /\ \E i \in Side :
              /\ child[node][1 - i] = None /\ Cut(node, child[node][i])
              /\ child[node][i] # None => UnlinkOneChild(i)
              /\ child[node][i] = None => UnlinkLeaf
<1>0. /\ pc = "unlink" /\ pc # "idle" /\ ~Limbo /\ pc' \in {"unthread", "fix_remove"} /\ Limbo'
      /\ UNCHANGED <<key, order, call, node, black_height>>
  BY DEF UnlinkOneChild, UnlinkLeaf, Limbo, Unlinked, data, bounds
<1>1. /\ call \in Call /\ node \in D[root[call.tree]] /\ node \in Hung
  <2>1. /\ call \in Call /\ UpdateLaws(Own(D)) /\ Own(D) = D[root[call.tree]]
        /\ InTree(Hung, parent, child, root, D, call.tree, Own(D))
    BY <1>0, OwnCall
  <2>2. node \in Own(D)
    BY <1>0, <2>1 DEF UpdateLaws
  <2> QED  BY <2>1, <2>2 DEF InTree
<1>2. Hung = Live /\ Hung' = Live \ {node}
  BY <1>0 DEF Hung, Live
<1>3. PICK i \in Side : /\ child[node][1 - i] = None /\ Replaced(node, child[node][i])
                        /\ child[node][i] # None => UnlinkOneChild(i)
                        /\ child[node][i] = None => UnlinkLeaf
  <2>1. CASE \E i \in Side : UnlinkOneChild(i)
    BY <2>1 DEF UnlinkOneChild, Replaced
  <2>2. CASE UnlinkLeaf
    <3>1. child[node][0] = None /\ child[node][1] = None /\ parent[node] # None
      BY <2>2 DEF UnlinkLeaf, IsLeaf, NoLinks
    <3>2. Replaced(node, None)
      BY <2>2, <3>1
      DEF UnlinkLeaf, Replaced, ReplacedParent, ReplacedChild, ReplacedRoot, SetAt, SetLink, bounds
    <3> QED  BY <2>2, <3>1, <3>2
  <2> QED  BY <2>1, <2>2
<1>4. Cut(node, child[node][i])
  <2>1. PICK x : x = node
    OBVIOUS
  <2>2. PICK c : c = child[node][i]
    OBVIOUS
  <2>3. /\ LinkLaws(D, rk) /\ x \in D[root[call.tree]] /\ c = child[x][i]
        /\ child[x][1 - i] = None /\ Replaced(x, c) /\ Hung' = Live \ {x}
        /\ UNCHANGED <<key, order>>
    BY <2>1, <2>2, <1>0, <1>1, <1>2, <1>3 DEF Laws
  <2>4. \E E \in [Ref -> SUBSET Index] :
           /\ LinkLaws(E, rk)' /\ PrunedTrees(root, D, root', E, x)
           /\ parent'[x] = parent[x] /\ Cut(x, c)
    <3> HIDE DEF Side, Ref
    <3> QED  BY <2>3, <1>1, <1>2, UnlinkStep
  <2> QED  BY <2>1, <2>2, <2>4
<1> QED  BY <1>0, <1>1, <1>2, <1>3, <1>4

(* An only child is a red leaf, and black in the node's place it counts    *)
(* the same.                                                               *)
LEMMA OneChildBalance ==
  ASSUME TypeOK, TypeOK', NEW D \in [Ref -> SUBSET Index], NEW rk \in [Index -> Int],
         Laws(D, rk), NEW h \in [Ref -> Nat], BalanceLaws(h),
         \E i \in Side : UnlinkOneChild(i)
  PROVE  \E g \in [Ref -> Nat] : BalanceLaws(g)'
<1>0. PICK x : x = node
  OBVIOUS
<1>1. /\ pc = "unlink" /\ ~Limbo /\ Limbo' /\ node' = x /\ x \in Hung
      /\ Hung' = Hung \ {x} /\ UNCHANGED black_height
      /\ \E i \in Side :
              /\ child[x][1 - i] = None /\ Cut(x, child[x][i])
              /\ child[x][i] # None => UnlinkOneChild(i)
              /\ child[x][i] = None => UnlinkLeaf
  <2> HIDE DEF Side, Ref
  <2> QED  BY <1>0, UnlinkCut
<1>i. PICK i \in Side : /\ child[x][1 - i] = None /\ Cut(x, child[x][i])
                        /\ child[x][i] # None /\ UnlinkOneChild(i)
  <2>1. ~UnlinkLeaf
    BY DEF UnlinkOneChild, UnlinkLeaf, IsLeaf, NoLinks
  <2> QED  BY <2>1, <1>1
<1>c. PICK c : c = child[x][i]
  OBVIOUS
<1>2. child[x][1 - i] = None /\ Cut(x, c) /\ c = child[x][i] /\ c # None /\ UnlinkOneChild(i)
  BY <1>i, <1>c
<1>3. color' = [color EXCEPT ![c] = "Black"] /\ pc' = "unthread"
  BY <1>0, <1>2 DEF UnlinkOneChild
<1>4. HeightLaws(h) /\ RedLaws /\ RepairLaws
  BY DEF BalanceLaws
<1>5. /\ Hung \subseteq Index /\ None \notin Index
      /\ \A n \in Hung : parent[n] \in Hung \cup {None} /\ parent[n] # n
      /\ \A n \in Hung, s \in Side : child[n][s] \in Hung \cup {None}
      /\ \A n \in Hung, s \in Side : child[n][s] # None => parent[child[n][s]] = n
      /\ \A t \in Trees : root[t] \in Hung \cup {None}
      /\ \A t \in Trees : root[t] # None => parent[root[t]] = None
  BY HungClosed
<1>6. /\ \A n \in Hung, s \in Side : h[n] = h[child[n][s]] + Weight(n)
      /\ h[None] = 0 /\ \A n \in Ref : h[n] \in Nat
      /\ \A t \in Trees : root[t] # None => black_height[t] = h[root[t]]
  <2>1. \A n \in Hung, s \in Side : h[n] = h[child[n][s]] + Weight(n) + 0
    BY <1>1, <1>4 DEF HeightLaws, Deficit, FixRemoveStep
  <2>2. \A n \in Hung, s \in Side : h[child[n][s]] \in Nat /\ Weight(n) \in Nat
    BY <1>5 DEF Weight
  <2>3. h[None] = 0 /\ \A t \in Trees : root[t] # None => black_height[t] = h[root[t]]
    BY <1>4 DEF HeightLaws
  <2> QED  BY <2>1, <2>2, <2>3
<1>7. /\ c \in Hung /\ c # x /\ parent[c] = x /\ c \in Index /\ c \in Ref
  BY <1>1, <1>2, <1>5
<1>8. h[x] = Weight(x) /\ h[c] + Weight(x) = Weight(x) /\ h[x] \in Nat /\ h[c] \in Nat
  <2>1. 1 - i \in Side
    OBVIOUS
  <2>2. Weight(x) \in Nat
    BY DEF Weight
  <2> QED  BY <2>1, <2>2, <1>1, <1>2, <1>5, <1>6, <1>7
<1>9. h[c] = 0
  <2>1. Weight(x) \in Nat
    BY DEF Weight
  <2> QED  BY <2>1, <1>8
<1>10. Weight(c) = 0 /\ \A s \in Side : h[child[c][s]] = 0
  <2>1. Weight(c) \in Nat /\ \A s \in Side : child[c][s] \in Ref /\ h[child[c][s]] \in Nat
    BY <1>5, <1>6, <1>7 DEF Weight
  <2> QED  BY <2>1, <1>6, <1>7, <1>9
<1>11. IsRed(c) /\ ~IsRed(x) /\ Weight(x) = 1 /\ h[x] = 1
  <2>1. IsRed(c)
    BY <1>5, <1>7, <1>10 DEF Weight, IsRed
  <2>2. ~IsRed(x)
    BY <2>1, <1>1, <1>4, <1>7 DEF RedLaws, RedRedAllowed
  <2>3. Weight(x) = 1
    BY <2>2, <1>1, <1>5 DEF IsRed, Weight
  <2> QED  BY <2>1, <2>2, <2>3, <1>8
<1>12. PICK g \in [Ref -> Nat] : g[c] = 1 /\ \A n \in Ref \ {c} : g[n] = h[n]
  <2> DEFINE f == [n \in Ref |-> IF n = c THEN 1 ELSE h[n]]
  <2>1. f \in [Ref -> Nat] /\ f[c] = 1 /\ \A n \in Ref \ {c} : f[n] = h[n]
    BY <1>7
  <2> HIDE DEF f
  <2> QED  BY <2>1
<1>13. color'[c] = "Black" /\ \A n \in Index \ {c} : color'[n] = color[n]
  BY <1>3, <1>7 DEF TypeOK
<1>14. /\ parent'[c] = parent[x]
       /\ \A m \in Index \ {c} : parent'[m] = parent[m]
       /\ \A m \in Hung \ {x}, s \in Side :
            child'[m][s] = IF child[m][s] = x THEN c ELSE child[m][s]
       /\ \A t \in Trees : root'[t] = IF root[t] = x THEN c ELSE root[t]
  BY <1>2 DEF Cut
<1>15. ASSUME NEW n \in Hung \ {x}, NEW s \in Side
       PROVE  g[n] = g[child'[n][s]] + Weight(n)'
  <2>1. CASE n = c
    <3>0. child[c][s] # None => parent[child[c][s]] = c
      BY <1>5, <1>7
    <3>1. child'[c][s] = child[c][s] /\ child[c][s] # c
      <4>1. child[c][s] # c
        BY <3>0, <1>5, <1>7
      <4>2. child[c][s] # x
        <5>1. Apart(parent, child, D, x)
          BY <1>1, OwnApart
        <5> QED  BY <5>1, <3>0, <1>2, <1>7 DEF Apart
      <4> QED  BY <4>1, <4>2, <1>7, <1>14
    <3>2. g[child'[c][s]] = 0 /\ Weight(c)' = 1
      BY <3>1, <1>5, <1>7, <1>10, <1>12, <1>13 DEF Weight
    <3> QED  BY <2>1, <3>2, <1>12
  <2>2. CASE n # c /\ child[n][s] = x
    <3>1. child'[n][s] = c /\ Weight(n)' = Weight(n) /\ h[n] = 1 + Weight(n)
      BY <2>2, <1>5, <1>6, <1>11, <1>13, <1>14 DEF Weight
    <3> QED  BY <2>2, <3>1, <1>5, <1>12
  <2>3. CASE n # c /\ child[n][s] # x
    <3>1. child'[n][s] = child[n][s] /\ Weight(n)' = Weight(n) /\ child[n][s] # c
      BY <2>3, <1>5, <1>7, <1>13, <1>14 DEF Weight
    <3> QED  BY <2>3, <3>1, <1>5, <1>6, <1>12
  <2> QED  BY <2>1, <2>2, <2>3
<1>16. HeightLaws(g)'
  <2>1. \A n \in Hung', s \in Side : Deficit(n, s)' = 0
    BY <1>3 DEF Deficit, FixRemoveStep
  <2>2. \A n \in Hung', s \in Side : Weight(n)' \in Nat /\ g[child'[n][s]] \in Nat
    BY <1>1, <1>5, <1>7, <1>14 DEF Weight
  <2>3. \A n \in Hung', s \in Side : g[n] = g[child'[n][s]] + Weight(n)' + Deficit(n, s)'
    BY <2>1, <2>2, <1>1, <1>15
  <2>4. g[None] = 0
    BY <1>5, <1>6, <1>7, <1>12
  <2>5. ASSUME NEW t \in Trees, root'[t] # None PROVE black_height'[t] = g[root'[t]]
    <3>1. root[t] # c
      BY <1>1, <1>5, <1>7
    <3> QED  BY <2>5, <3>1, <1>1, <1>5, <1>6, <1>11, <1>12, <1>14
  <2> QED  BY <2>3, <2>4, <2>5 DEF HeightLaws
<1>17. RedLaws'
  <2>1. \A n \in Hung : ~(IsRed(n) /\ IsRed(parent[n]))
    BY <1>1, <1>4 DEF RedLaws, RedRedAllowed
  <2>2. ASSUME NEW n \in Hung \ {x} PROVE ~(IsRed(n)' /\ IsRed(parent[n])')
    <3>1. CASE n = c
      BY <3>1, <1>13 DEF IsRed
    <3>2. CASE n # c
      BY <3>2, <2>1, <1>5, <1>13, <1>14 DEF IsRed
    <3> QED  BY <3>1, <3>2
  <2>3. \A t \in Trees : ~IsRed(root[t])'
    BY <1>1, <1>4, <1>5, <1>13, <1>14 DEF RedLaws, IsRed
  <2> QED  BY <2>2, <2>3, <1>1 DEF RedLaws
<1>18. RepairLaws'
  <2>1. parent'[x] \in (Hung \ {x}) \cup {None}
    BY <1>1, <1>5, <1>7, <1>14
  <2> QED  BY <2>1, <1>1, <1>3 DEF RepairLaws, FixRemoveStep
<1> QED  BY <1>16, <1>17, <1>18 DEF BalanceLaws

(* What the height laws say, with the types that sums of heights need.     *)
LEMMA Sums ==
  ASSUME TypeOK, NEW D \in [Ref -> SUBSET Index], NEW rk \in [Index -> Int], Laws(D, rk),
         NEW h \in [Ref -> Nat], BalanceLaws(h)
  PROVE  /\ h[None] = 0 /\ \A n \in Ref : h[n] \in Nat
         /\ \A n \in Ref : Weight(n) \in {0, 1}
         /\ \A n \in Index : (IsRed(n) => Weight(n) = 0) /\ (~IsRed(n) => Weight(n) = 1)
         /\ \A n \in Hung, s \in Side : child[n][s] \in Ref
         /\ \A n \in Hung, s \in Side :
              ~(pc \in FixRemoveStep /\ n = par /\ s = dir) => h[n] = h[child[n][s]] + Weight(n)
         /\ pc \in FixRemoveStep =>
              par \in Hung /\ h[par] = h[child[par][dir]] + Weight(par) + 1
         /\ \A t \in Trees : root[t] # None => black_height[t] = h[root[t]]
<1>1. HeightLaws(h)
  BY DEF BalanceLaws
<1>2. /\ Hung \subseteq Index /\ None \notin Index
      /\ \A n \in Hung, s \in Side : child[n][s] \in Hung \cup {None}
  BY HungClosed
<1>3. h[None] = 0 /\ \A t \in Trees : root[t] # None => black_height[t] = h[root[t]]
  BY <1>1 DEF HeightLaws
<1>4. /\ \A n \in Ref : h[n] \in Nat /\ Weight(n) \in {0, 1}
      /\ \A n \in Index : (IsRed(n) => Weight(n) = 0) /\ (~IsRed(n) => Weight(n) = 1)
  BY <1>2 DEF Weight, IsRed
<1>5. \A n \in Hung, s \in Side :
        h[child[n][s]] \in Nat /\ Weight(n) \in Nat /\ child[n][s] \in Ref
  BY <1>2, <1>4
<1>6. ASSUME NEW n \in Hung, NEW s \in Side, ~(pc \in FixRemoveStep /\ n = par /\ s = dir)
      PROVE  h[n] = h[child[n][s]] + Weight(n)
  <2>1. Deficit(n, s) = 0
    BY <1>6 DEF Deficit
  <2>2. h[n] = h[child[n][s]] + Weight(n) + 0
    BY <2>1, <1>1 DEF HeightLaws
  <2> QED  BY <2>2, <1>5
<1>7. ASSUME pc \in FixRemoveStep
      PROVE  par \in Hung /\ h[par] = h[child[par][dir]] + Weight(par) + 1
  <2>1. pc # "idle"
    BY <1>7 DEF FixRemoveStep
  <2>2. UpdateLaws(Own(D)) /\ InTree(Hung, parent, child, root, D, call.tree, Own(D))
    BY <2>1, OwnCall
  <2>3. par \in Hung
    BY <1>7, <2>2 DEF UpdateLaws, InTree
  <2>4. Deficit(par, dir) = 1
    BY <1>7 DEF Deficit
  <2>5. h[par] = h[child[par][dir]] + Weight(par) + Deficit(par, dir)
    BY <2>3, <1>1 DEF HeightLaws, TypeOK
  <2> QED  BY <2>3, <2>4, <2>5
<1> QED  BY <1>3, <1>4, <1>5, <1>6, <1>7

(* A red leaf weighs nothing; for a black one the side it hung on lacks a  *)
(* black node.                                                             *)
LEMMA LeafBalance ==
  ASSUME TypeOK, TypeOK', NEW D \in [Ref -> SUBSET Index], NEW rk \in [Index -> Int],
         Laws(D, rk), NEW h \in [Ref -> Nat], BalanceLaws(h), UnlinkLeaf
  PROVE  BalanceLaws(h)'
<1>0. PICK x : x = node
  OBVIOUS
<1>p. PICK p : p = parent[x]
  OBVIOUS
<1>j. PICK j : j = SideOf(p, x)
  OBVIOUS
<1>1. /\ pc = "unlink" /\ ~Limbo /\ Limbo' /\ node' = x /\ x \in Hung
      /\ Hung' = Hung \ {x} /\ UNCHANGED black_height
      /\ \E i \in Side :
              /\ child[x][1 - i] = None /\ Cut(x, child[x][i])
              /\ child[x][i] # None => UnlinkOneChild(i)
              /\ child[x][i] = None => UnlinkLeaf
  <2> HIDE DEF Side, Ref
  <2> QED  BY <1>0, UnlinkCut
<1>2. Cut(x, None) /\ \A s \in Side : child[x][s] = None
  <2>1. \A i \in Side : ~UnlinkOneChild(i)
    BY DEF UnlinkOneChild, UnlinkLeaf, IsLeaf, NoLinks
  <2> QED  BY <2>1, <1>1
<1>3. /\ p # None /\ UNCHANGED color
      /\ IF color[x] = "Red"
         THEN pc' = "unthread"
         ELSE pc' = "fix_remove" /\ par' = p /\ dir' = j
  BY <1>0, <1>p, <1>j DEF UnlinkLeaf
<1>4. RedLaws /\ RepairLaws
  BY DEF BalanceLaws
<1>5. /\ Hung \subseteq Index /\ None \notin Index
      /\ \A n \in Hung : parent[n] \in Hung \cup {None} /\ parent[n] # n
      /\ \A n \in Hung : parent[n] # None => \E s \in Side : child[parent[n]][s] = n
      /\ \A n \in Hung, s \in Side : child[n][s] # None => parent[child[n][s]] = n
      /\ \A n \in Hung, s, r \in Side : child[n][s] # None /\ s # r => child[n][s] # child[n][r]
      /\ \A t \in Trees : root[t] \in Hung \cup {None}
      /\ \A t \in Trees : root[t] # None => parent[root[t]] = None
      /\ \A n \in Hung, s \in Side : child[n][s] \in Hung \cup {None}
  BY HungClosed
<1>6. /\ h[None] = 0 /\ \A n \in Ref : h[n] \in Nat
      /\ \A n \in Ref : Weight(n) \in {0, 1}
      /\ \A n \in Index : (IsRed(n) => Weight(n) = 0) /\ (~IsRed(n) => Weight(n) = 1)
      /\ \A n \in Hung, s \in Side :
              ~(pc \in FixRemoveStep /\ n = par /\ s = dir) => h[n] = h[child[n][s]] + Weight(n)
      /\ \A t \in Trees : root[t] # None => black_height[t] = h[root[t]]
  BY Sums
<1>7. \A n \in Hung, s \in Side : h[n] = h[child[n][s]] + Weight(n)
  BY <1>1, <1>6 DEF FixRemoveStep
<1>8. /\ \A m \in Index : parent'[m] = parent[m]
      /\ \A m \in Hung \ {x}, s \in Side :
            child'[m][s] = IF child[m][s] = x THEN None ELSE child[m][s]
      /\ \A t \in Trees : root'[t] = IF root[t] = x THEN None ELSE root[t]
  BY <1>2, <1>5 DEF Cut
<1>9. p \in Hung /\ p # x /\ j \in Side /\ child[p][j] = x
  BY <1>1, <1>3, <1>5, <1>p, <1>j DEF SideOf
<1>10. h[x] = Weight(x) /\ \A n \in Index : Weight(n)' = Weight(n)
  <2>1. h[x] = 0 + Weight(x) /\ Weight(x) \in {0, 1}
    BY <1>1, <1>2, <1>5, <1>6, <1>7
  <2> QED  BY <2>1, <1>3 DEF Weight
<1>11. ASSUME NEW n \in Hung \ {x}, NEW s \in Side
       PROVE  h[n] = h[child'[n][s]] + Weight(n)' + Deficit(n, s)'
  <2>0. n \in Index /\ Weight(n)' = Weight(n) /\ Weight(n) \in {0, 1} /\ h[n] \in Nat
    BY <1>5, <1>6, <1>10
  <2>1. CASE child[n][s] = x
    <3>1. n = p /\ s = j
      BY <2>1, <1>1, <1>5, <1>9, <1>p
    <3>2. h[n] = Weight(x) + Weight(n) /\ h[child'[n][s]] = 0
      BY <2>1, <1>6, <1>7, <1>8, <1>10
    <3>3. CASE color[x] = "Red"
      <4>1. Weight(x) = 0 /\ Deficit(n, s)' = 0
        BY <3>3, <1>3 DEF Weight, Deficit, FixRemoveStep
      <4> QED  BY <4>1, <3>2, <2>0
    <3>4. CASE color[x] # "Red"
      <4>1. Weight(x) = 1 /\ Deficit(n, s)' = 1
        BY <3>1, <3>4, <1>3 DEF Weight, Deficit, FixRemoveStep
      <4> QED  BY <4>1, <3>2, <2>0
    <3> QED  BY <3>3, <3>4
  <2>2. CASE child[n][s] # x
    <3>1. ~(n = p /\ s = j)
      BY <2>2, <1>9
    <3>2. Deficit(n, s)' = 0
      BY <3>1, <1>3 DEF Deficit, FixRemoveStep
    <3>3. child'[n][s] = child[n][s] /\ h[n] = h[child[n][s]] + Weight(n)
      BY <2>2, <1>7, <1>8
    <3>4. h[child[n][s]] \in Nat
      BY <1>5, <1>6
    <3> QED  BY <3>2, <3>3, <3>4, <2>0
  <2> QED  BY <2>1, <2>2
<1>12. \A t \in Trees : root'[t] = root[t]
  BY <1>3, <1>5, <1>8, <1>9, <1>p
<1>13. HeightLaws(h)'
  BY <1>1, <1>6, <1>11, <1>12 DEF HeightLaws
<1>14. RedLaws'
  <2>1. \A n \in Hung : ~(IsRed(n) /\ IsRed(parent[n]))
    BY <1>1, <1>4 DEF RedLaws, RedRedAllowed
  <2>2. \A n \in Hung \ {x} : ~(IsRed(n)' /\ IsRed(parent[n])')
    BY <2>1, <1>3, <1>5, <1>8 DEF IsRed
  <2>3. \A t \in Trees : ~IsRed(root[t])'
    BY <1>1, <1>3, <1>4, <1>12 DEF RedLaws, IsRed
  <2> QED  BY <2>2, <2>3, <1>1 DEF RedLaws
<1>15. RepairLaws'
  <2>1. parent'[x] \in (Hung \ {x}) \cup {None}
    BY <1>1, <1>5, <1>8
  <2>2. pc' \in FixRemoveStep => ~IsRed(child[par][dir])'
    <3>1. pc' \in FixRemoveStep => par' = p /\ dir' = j
      BY <1>3 DEF FixRemoveStep
    <3>2. child'[p][j] = None
      BY <1>8, <1>9
    <3> QED  BY <3>1, <3>2 DEF IsRed
  <2> QED  BY <2>1, <2>2, <1>1, <1>3 DEF RepairLaws
<1> QED  BY <1>13, <1>14, <1>15 DEF BalanceLaws

(* A new root is black, a tree of height 1.                                *)
LEMMA InsertEmptyBalance ==
  ASSUME TypeOK, TypeOK', NEW D \in [Ref -> SUBSET Index], NEW rk \in [Index -> Int],
         Laws(D, rk), NEW h \in [Ref -> Nat], BalanceLaws(h),
         NEW n \in Index \ Live, InsertEmpty(n)
  PROVE  \E g \in [Ref -> Nat] : BalanceLaws(g)'
<1>t. PICK t0 : t0 = call.tree
  OBVIOUS
<1>0. /\ pc = "Empty" /\ pc # "idle" /\ ~Limbo /\ pc' = "idle" /\ ~Limbo'
      /\ pc \notin Repairing
  BY DEF InsertEmpty, Return, Limbo, Unlinked, Repairing, FixRemoveStep
<1>1. t0 \in Trees /\ call.key # None
  BY <1>0, <1>t, OwnCall, NoneAssumption
<1>2. /\ color'[n] = "Black" /\ parent'[n] = None /\ child'[n] = NoLinks /\ key'[n] = call.key
      /\ \A m \in Index \ {n} : /\ color'[m] = color[m] /\ parent'[m] = parent[m]
                                /\ child'[m] = child[m] /\ key'[m] = key[m]
      /\ root'[t0] = n /\ black_height'[t0] = 1
      /\ \A t \in Trees \ {t0} : root'[t] = root[t] /\ black_height'[t] = black_height[t]
  BY <1>1, <1>t DEF InsertEmpty, TypeOK
<1>3. Hung = Live /\ Hung' = Hung \cup {n} /\ n \notin Hung
  <2>1. Live' = Live \cup {n}
    BY <1>1, <1>2 DEF Live
  <2> QED  BY <2>1, <1>0 DEF Hung
<1>4. /\ Hung \subseteq Index /\ None \notin Index
      /\ \A m \in Hung : parent[m] \in Hung \cup {None} /\ parent[m] # m
      /\ \A m \in Hung, s \in Side : child[m][s] \in Hung \cup {None}
      /\ \A t \in Trees : root[t] \in Hung \cup {None}
  BY HungClosed
<1>5. /\ h[None] = 0 /\ \A m \in Ref : h[m] \in Nat
      /\ \A m \in Ref : Weight(m) \in {0, 1}
      /\ \A m \in Hung, s \in Side :
              ~(pc \in FixRemoveStep /\ m = par /\ s = dir) => h[m] = h[child[m][s]] + Weight(m)
      /\ \A t \in Trees : root[t] # None => black_height[t] = h[root[t]]
  BY Sums
<1>6. PICK g \in [Ref -> Nat] : g[n] = 1 /\ \A m \in Ref \ {n} : g[m] = h[m]
  <2> DEFINE f == [m \in Ref |-> IF m = n THEN 1 ELSE h[m]]
  <2>1. f \in [Ref -> Nat] /\ f[n] = 1 /\ \A m \in Ref \ {n} : f[m] = h[m]
    OBVIOUS
  <2> HIDE DEF f
  <2> QED  BY <2>1
<1>7. HeightLaws(g)'
  <2>1. \A m \in Hung', s \in Side : Deficit(m, s)' = 0
    BY <1>0 DEF Deficit, FixRemoveStep
  <2>2. ASSUME NEW m \in Hung', NEW s \in Side
        PROVE  g[m] = g[child'[m][s]] + Weight(m)' + 0
    <3>1. CASE m = n
      <4>1. Weight(m)' = 1 /\ g[child'[m][s]] = 0 /\ g[m] = 1
        BY <3>1, <1>2, <1>4, <1>5, <1>6 DEF Weight, NoLinks
      <4> QED  BY <4>1
    <3>2. CASE m # n
      <4>1. m \in Hung /\ m \in Index /\ child[m][s] # n /\ child[m][s] \in Ref
        BY <3>2, <1>3, <1>4
      <4>2. Weight(m)' = Weight(m) /\ Weight(m) \in {0, 1}
        BY <3>2, <4>1, <1>2, <1>5 DEF Weight
      <4>3. h[m] = h[child[m][s]] + Weight(m) /\ h[child[m][s]] \in Nat
        BY <4>1, <1>0, <1>5 DEF Repairing
      <4>4. g[m] = h[m] /\ g[child'[m][s]] = h[child[m][s]]
        BY <3>2, <4>1, <1>2, <1>6
      <4> QED  BY <4>2, <4>3, <4>4
    <3> QED  BY <3>1, <3>2
  <2>3. g[None] = 0
    BY <1>4, <1>5, <1>6
  <2>4. ASSUME NEW t \in Trees, root'[t] # None PROVE black_height'[t] = g[root'[t]]
    <3>1. root[t] # n /\ root[t] \in Ref
      BY <1>3, <1>4
    <3> QED  BY <2>4, <3>1, <1>2, <1>5, <1>6
  <2> QED  BY <2>1, <2>2, <2>3, <2>4 DEF HeightLaws
<1>8. RedLaws /\ RepairLaws
  BY DEF BalanceLaws
<1>9. RedLaws'
  <2>1. \A m \in Hung : ~(IsRed(m) /\ IsRed(parent[m]))
    BY <1>0, <1>8 DEF RedLaws, RedRedAllowed
  <2>2. ~IsRed(n)'
    BY <1>2 DEF IsRed
  <2>3. \A m \in Hung \cup {None} : IsRed(m)' <=> IsRed(m)
    BY <1>2, <1>3, <1>4 DEF IsRed
  <2>4. \A m \in Hung : ~(IsRed(m)' /\ IsRed(parent[m])')
    <3> TAKE m \in Hung
    <3>1. parent'[m] = parent[m] /\ parent[m] \in Hung \cup {None}
      BY <1>2, <1>3, <1>4
    <3> QED  BY <2>1, <2>3, <3>1 DEF IsRed
  <2>5. \A t \in Trees : ~IsRed(root[t])
    BY <1>0, <1>8 DEF RedLaws
  <2>6. ASSUME NEW t \in Trees PROVE ~IsRed(root[t])'
    <3>1. CASE t = t0
      BY <3>1, <1>2 DEF IsRed
    <3>2. CASE t # t0
      BY <3>2, <2>5, <1>2, <1>3, <1>4 DEF IsRed
    <3> QED  BY <3>1, <3>2
  <2> QED  BY <2>2, <2>4, <2>6, <1>3 DEF RedLaws
<1>10. RepairLaws'
  BY <1>0 DEF RepairLaws, FixRemoveStep
<1> QED  BY <1>7, <1>9, <1>10 DEF BalanceLaws

(* A new leaf is red and adds no height; below the root its parent may be  *)
(* red, and fix_insert starts there.                                       *)
LEMMA HangAnyBalance ==
  ASSUME TypeOK, TypeOK', NEW D \in [Ref -> SUBSET Index], NEW rk \in [Index -> Int],
         Laws(D, rk), NEW h \in [Ref -> Nat], BalanceLaws(h),
         NEW n \in Index \ Live, HangAny(n)
  PROVE  \E g \in [Ref -> Nat] : BalanceLaws(g)'
<1>i. PICK i \in Side : i = IF pc = "LeftOf" THEN 0 ELSE 1
  OBVIOUS
<1>p. PICK p : p = ptr
  OBVIOUS
<1>0. /\ pc \in {"LeftOf", "RightOf"} /\ pc = Frontier(i) /\ pc # "idle" /\ ~Limbo /\ call.op = "insert"
      /\ pc' = (IF parent[p] # None THEN "fix_insert" ELSE "propagate") /\ call' = call
      /\ pc \notin Repairing /\ ~Limbo'
  BY <1>i, <1>p DEF HangAny, Hang, Limbo, Unlinked, Frontier, Repairing, FixRemoveStep
<1>1. /\ call.key # None /\ SearchLaws(Own(D), D)
      /\ InTree(Hung, parent, child, root, D, call.tree, Own(D))
  BY <1>0, OwnCall, NoneAssumption
<1>2. p \in Hung /\ child[p][i] = None
  <2>1. p \in Own(D) /\ child[p][i] = None
    BY <1>0, <1>1, <1>p DEF SearchLaws
  <2> QED  BY <2>1, <1>1 DEF InTree
<1>3. Hung = Live /\ n \notin Hung /\ Hung \subseteq Index /\ n # p
  BY <1>0, <1>2, HungLive DEF Hung
<1>4. /\ color' = [color EXCEPT ![n] = "Red"] /\ parent' = [parent EXCEPT ![n] = p]
      /\ child' = [child EXCEPT ![n] = NoLinks, ![p][i] = n] /\ key' = [key EXCEPT ![n] = call.key]
      /\ root' = root /\ black_height' = black_height /\ node' = n /\ ptr' = n
  BY <1>i, <1>p DEF HangAny, Hang
<1>5. /\ color'[n] = "Red" /\ parent'[n] = p /\ key'[n] = call.key
      /\ \A m \in Index \ {n} : /\ color'[m] = color[m] /\ parent'[m] = parent[m]
                                /\ key'[m] = key[m]
  BY <1>4 DEF TypeOK
<1>6. /\ child'[n] = NoLinks
      /\ \A m \in Hung, s \in Side : child'[m][s] = IF m = p /\ s = i THEN n ELSE child[m][s]
  <2>1. child \in [Index -> [Side -> Ref]]
    BY DEF TypeOK
  <2> QED  BY <2>1, <1>2, <1>3, <1>4
<1>7. Hung' = Hung \cup {n}
  <2>1. Live' = Live \cup {n}
    BY <1>1, <1>5 DEF Live
  <2> QED  BY <2>1, <1>0, <1>3 DEF Hung
<1>8. /\ None \notin Index
      /\ \A m \in Hung : parent[m] \in Hung \cup {None} /\ parent[m] # m
      /\ \A m \in Hung : parent[m] = None => \E t \in Trees : root[t] = m
      /\ \A m \in Hung, s \in Side : child[m][s] \in Hung \cup {None}
      /\ \A t \in Trees : root[t] \in Hung \cup {None}
  BY HungClosed
<1>9. /\ h[None] = 0 /\ \A m \in Ref : h[m] \in Nat
      /\ \A m \in Ref : Weight(m) \in {0, 1}
      /\ \A m \in Hung, s \in Side :
              ~(pc \in FixRemoveStep /\ m = par /\ s = dir) => h[m] = h[child[m][s]] + Weight(m)
      /\ \A t \in Trees : root[t] # None => black_height[t] = h[root[t]]
  BY Sums
<1>10. PICK g \in [Ref -> Nat] : g[n] = 0 /\ \A m \in Ref \ {n} : g[m] = h[m]
  <2> DEFINE f == [m \in Ref |-> IF m = n THEN 0 ELSE h[m]]
  <2>1. f \in [Ref -> Nat] /\ f[n] = 0 /\ \A m \in Ref \ {n} : f[m] = h[m]
    OBVIOUS
  <2> HIDE DEF f
  <2> QED  BY <2>1
<1>11. HeightLaws(g)'
  <2>1. \A m \in Hung', s \in Side : Deficit(m, s)' = 0
    BY <1>0 DEF Deficit, FixRemoveStep
  <2>2. g[None] = 0
    BY <1>3, <1>8, <1>9, <1>10
  <2>3. ASSUME NEW m \in Hung', NEW s \in Side
        PROVE  g[m] = g[child'[m][s]] + Weight(m)' + 0
    <3>1. CASE m = n
      <4>1. Weight(m)' = 0 /\ g[child'[m][s]] = 0 /\ g[m] = 0
        BY <3>1, <2>2, <1>5, <1>6, <1>10 DEF Weight, NoLinks
      <4> QED  BY <4>1
    <3>2. CASE m # n
      <4>1. m \in Hung /\ m \in Index /\ child[m][s] # n /\ child[m][s] \in Ref
        BY <3>2, <1>3, <1>7, <1>8
      <4>2. Weight(m)' = Weight(m) /\ Weight(m) \in {0, 1}
        BY <3>2, <4>1, <1>5, <1>9 DEF Weight
      <4>3. h[m] = h[child[m][s]] + Weight(m) /\ h[child[m][s]] \in Nat
        BY <4>1, <1>0, <1>9 DEF Repairing
      <4>4. g[m] = h[m] /\ g[child'[m][s]] = h[child[m][s]]
        BY <3>2, <4>1, <2>2, <1>2, <1>6, <1>9, <1>10
      <4> QED  BY <4>2, <4>3, <4>4
    <3> QED  BY <3>1, <3>2
  <2>4. ASSUME NEW t \in Trees, root'[t] # None PROVE black_height'[t] = g[root'[t]]
    <3>1. root[t] # n /\ root[t] \in Ref
      BY <1>3, <1>8
    <3> QED  BY <2>4, <3>1, <1>4, <1>9, <1>10
  <2> QED  BY <2>1, <2>2, <2>3, <2>4 DEF HeightLaws
<1>12. RedLaws
  BY DEF BalanceLaws
<1>13. \A m \in Hung \cup {None} : IsRed(m)' <=> IsRed(m)
  BY <1>3, <1>5, <1>8 DEF IsRed
<1>14. \A t \in Trees : ~IsRed(root[t])
  BY <1>0, <1>12 DEF RedLaws
<1>15. RedLaws'
  <2>1. \A m \in Hung : ~(IsRed(m) /\ IsRed(parent[m]))
    BY <1>0, <1>12 DEF RedLaws, RedRedAllowed
  <2>2. \A m \in Hung : ~(IsRed(m)' /\ IsRed(parent[m])')
    <3> TAKE m \in Hung
    <3>1. parent'[m] = parent[m] /\ parent[m] \in Hung \cup {None}
      BY <1>3, <1>5, <1>8
    <3> QED  BY <2>1, <1>13, <3>1 DEF IsRed
  <2>3. IsRed(parent[n])' => RedRedAllowed(n)'
    <3>1. CASE parent[p] = None
      <4>1. ~IsRed(p)
        BY <3>1, <1>2, <1>8, <1>14
      <4>2. ~IsRed(p)'
        BY <4>1, <1>2, <1>13
      <4>3. IsRed(parent[n])' <=> IsRed(p)'
        BY <1>5, <1>p DEF IsRed
      <4> QED  BY <4>2, <4>3
    <3>2. CASE parent[p] # None
      BY <3>2, <1>0, <1>4 DEF RedRedAllowed
    <3> QED  BY <3>1, <3>2
  <2>4. \A t \in Trees : ~IsRed(root[t])'
    BY <1>4, <1>8, <1>13, <1>14 DEF IsRed
  <2> QED  BY <2>2, <2>3, <2>4, <1>7 DEF RedLaws
<1>16. RepairLaws'
  <2>1. IsRed(ptr)' /\ parent'[ptr'] = p /\ p # None
    BY <1>2, <1>3, <1>4, <1>5, <1>8 DEF IsRed
  <2> QED  BY <2>1, <1>0 DEF RepairLaws, FixRemoveStep
<1> QED  BY <1>11, <1>15, <1>16 DEF BalanceLaws

(* Where fix_insert stands when the parent of its cursor is red too: below *)
(* a black grandparent, and nowhere else do two reds meet.                 *)
InsertSpot(x, p, g, us, h) ==
  /\ x \in Hung /\ p \in Hung /\ g \in Hung /\ x # p /\ x # g /\ p # g
  /\ parent[x] = p /\ parent[p] = g
  /\ IsRed(x) /\ IsRed(p) /\ ~IsRed(g)
  /\ us \in Side /\ child[g][1 - us] = p
  /\ \A n \in Hung \ {x} : ~(IsRed(n) /\ IsRed(parent[n]))
  /\ \A t \in Trees : ~IsRed(root[t])
  /\ \A n \in Hung, s \in Side : h[n] = h[child[n][s]] + Weight(n)
  /\ Weight(x) = 0 /\ Weight(p) = 0 /\ Weight(g) = 1

(* What the loop of fix_insert finds around a node below a red parent.     *)
LEMMA AtInsertSpot ==
  ASSUME TypeOK, NEW D \in [Ref -> SUBSET Index], NEW rk \in [Index -> Int], Laws(D, rk),
         NEW h \in [Ref -> Nat], BalanceLaws(h),
         pc \in {"fix_insert", "rotate_outer"}, IsRed(parent[ptr])
  PROVE  /\ InsertSpot(ptr, parent[ptr], Grandparent, UncleSide, h)
         /\ Grandparent \in D[root[call.tree]] /\ parent[ptr] \in D[root[call.tree]]
<1>0. pc # "idle" /\ pc # "blacken" /\ pc \notin FixRemoveStep /\ pc # "red_far_nephew"
  BY DEF FixRemoveStep
<1>1. PICK x, p, g : x = ptr /\ p = parent[ptr] /\ g = Grandparent
  OBVIOUS
<1>2. /\ x \in Own(D) /\ Own(D) = D[root[call.tree]] /\ call.tree \in Trees
      /\ InTree(Hung, parent, child, root, D, call.tree, Own(D))
  <2>1. UpdateLaws(Own(D))
    BY <1>0, OwnCall
  <2> QED  BY <2>1, <1>0, <1>1, OwnCall DEF UpdateLaws
<1>3. /\ Hung \subseteq Index /\ None \notin Index
      /\ \A n \in Hung : parent[n] \in Hung \cup {None} /\ parent[n] # n
      /\ \A n \in Hung : parent[n] # None => \E s \in Side : child[parent[n]][s] = n
      /\ \A n \in Hung : parent[n] = None => \E t \in Trees : root[t] = n
  BY HungClosed
<1>4. RedLaws /\ RepairLaws
  BY DEF BalanceLaws
<1>5. IsRed(x) /\ IsRed(p) /\ p # None
  BY <1>0, <1>1, <1>4 DEF RepairLaws, IsRed
<1>6. x \in Hung /\ p \in Hung /\ x # p /\ p \in Own(D)
  BY <1>1, <1>2, <1>3, <1>5 DEF InTree
<1>7. /\ \A n \in Hung \ {x} : ~(IsRed(n) /\ IsRed(parent[n]))
      /\ \A t \in Trees : ~IsRed(root[t])
  BY <1>0, <1>1, <1>4 DEF RedLaws, RedRedAllowed
<1>8. g = parent[p] /\ g # None
  <2>1. g = parent[p]
    BY <1>1 DEF Grandparent
  <2> QED  BY <2>1, <1>3, <1>5, <1>6, <1>7
<1>9. g \in Hung /\ g \in Own(D) /\ ~IsRed(g) /\ g # p /\ g # x
  BY <1>2, <1>3, <1>5, <1>6, <1>7, <1>8 DEF InTree
<1>10. UncleSide \in Side /\ child[g][1 - UncleSide] = p
  <2>1. UncleSide = 1 - SideOf(g, p)
    BY <1>1 DEF UncleSide
  <2>2. SideOf(g, p) \in Side /\ child[g][SideOf(g, p)] = p
    BY <1>3, <1>6, <1>8 DEF SideOf
  <2> QED  BY <2>1, <2>2
<1>11. /\ \A n \in Hung, s \in Side : h[n] = h[child[n][s]] + Weight(n)
       /\ Weight(x) = 0 /\ Weight(p) = 0 /\ Weight(g) = 1
  <2>1. /\ \A n \in Index : (IsRed(n) => Weight(n) = 0) /\ (~IsRed(n) => Weight(n) = 1)
        /\ \A n \in Hung, s \in Side :
              ~(pc \in FixRemoveStep /\ n = par /\ s = dir) => h[n] = h[child[n][s]] + Weight(n)
    BY Sums
  <2> QED  BY <2>1, <1>0, <1>3, <1>5, <1>6, <1>9
<1> QED  BY <1>1, <1>2, <1>5, <1>6, <1>7, <1>8, <1>9, <1>10, <1>11 DEF InsertSpot

(* A black parent: the loop is over.                                       *)
LEMMA FixInsertDoneBalance ==
  ASSUME TypeOK, TypeOK', NEW D \in [Ref -> SUBSET Index], NEW rk \in [Index -> Int],
         Laws(D, rk), NEW h \in [Ref -> Nat], BalanceLaws(h), FixInsertDone
  PROVE  BalanceLaws(h)'
<1>1. /\ pc = "fix_insert" /\ pc' = "blacken" /\ ~Limbo /\ ~Limbo' /\ ~IsRed(parent[ptr])
      /\ UNCHANGED <<key, color, parent, child, root, black_height>>
  BY DEF FixInsertDone, Limbo, Unlinked, data, links, bounds
<1>2. Hung' = Hung
  BY <1>1 DEF Hung, Live
<1>3. HeightLaws(h) /\ RedLaws
  BY DEF BalanceLaws
<1>4. HeightLaws(h)'
  <2>1. \A n, i : Deficit(n, i)' = Deficit(n, i) /\ Weight(n)' = Weight(n)
    BY <1>1 DEF Deficit, Weight, FixRemoveStep
  <2> QED  BY <2>1, <1>1, <1>2, <1>3 DEF HeightLaws
<1>5. RedLaws'
  <2>1. \A n \in Hung : ~(IsRed(n) /\ IsRed(parent[n]))
    BY <1>1, <1>3 DEF RedLaws, RedRedAllowed
  <2>2. \A t \in Trees : ~IsRed(root[t])
    BY <1>1, <1>3 DEF RedLaws
  <2> QED  BY <2>1, <2>2, <1>1, <1>2 DEF RedLaws, IsRed
<1>6. RepairLaws'
  BY <1>1 DEF RepairLaws, FixRemoveStep
<1> QED  BY <1>4, <1>5, <1>6 DEF BalanceLaws

(* A red uncle: parent and uncle grow by a black node, the red moves up.   *)
LEMMA FixInsertRecolorBalance ==
  ASSUME TypeOK, TypeOK', NEW D \in [Ref -> SUBSET Index], NEW rk \in [Index -> Int],
         Laws(D, rk), NEW h \in [Ref -> Nat], BalanceLaws(h), FixInsertRecolor
  PROVE  \E g \in [Ref -> Nat] : BalanceLaws(g)'
<1>0. PICK x, p, q, us, u :
        x = ptr /\ p = parent[ptr] /\ q = Grandparent /\ us = UncleSide /\ u = Uncle
  OBVIOUS
<1>1. /\ pc = "fix_insert" /\ pc # "idle" /\ IsRed(p) /\ IsRed(u) /\ ~Limbo /\ ~Limbo'
      /\ color' = [color EXCEPT ![u] = "Black", ![p] = "Black", ![q] = "Red"]
      /\ ptr' = q /\ pc' = (IF root[call.tree] = q THEN "blacken" ELSE "fix_insert")
      /\ UNCHANGED <<key, parent, child, root, black_height, call>>
  BY <1>0 DEF FixInsertRecolor, RedParent, Limbo, Unlinked, data, links, bounds
<1>2. InsertSpot(x, p, q, us, h) /\ q \in D[root[call.tree]]
  BY <1>0, <1>1, AtInsertSpot
<1>3. /\ x \in Hung /\ p \in Hung /\ q \in Hung /\ x # p /\ x # q /\ p # q
      /\ parent[x] = p /\ parent[p] = q /\ us \in Side /\ child[q][1 - us] = p
      /\ \A n \in Hung \ {x} : ~(IsRed(n) /\ IsRed(parent[n]))
      /\ \A t \in Trees : ~IsRed(root[t])
      /\ \A n \in Hung, s \in Side : h[n] = h[child[n][s]] + Weight(n)
      /\ Weight(p) = 0 /\ Weight(q) = 1
  BY <1>2 DEF InsertSpot
<1>4. /\ Hung \subseteq Index /\ None \notin Index
      /\ \A n \in Hung : parent[n] \in Hung \cup {None} /\ parent[n] # n
      /\ \A n \in Hung : parent[n] # None => \E s \in Side : child[parent[n]][s] = n
      /\ \A n \in Hung, s \in Side : child[n][s] \in Hung \cup {None}
      /\ \A n \in Hung, s \in Side : child[n][s] # None => parent[child[n][s]] = n
      /\ \A n \in Hung, s, r \in Side : child[n][s] # None /\ s # r => child[n][s] # child[n][r]
      /\ \A t \in Trees : root[t] \in Hung \cup {None}
      /\ \A t \in Trees : root[t] # None => parent[root[t]] = None
  BY HungClosed
<1>5. /\ h[None] = 0 /\ \A n \in Ref : h[n] \in Nat
      /\ \A n \in Ref : Weight(n) \in {0, 1}
      /\ \A n \in Index : (IsRed(n) => Weight(n) = 0) /\ (~IsRed(n) => Weight(n) = 1)
      /\ \A t \in Trees : root[t] # None => black_height[t] = h[root[t]]
  BY Sums
<1>6. /\ u = child[q][us] /\ u \in Hung /\ parent[u] = q /\ u # p /\ u # q /\ u # x /\ Weight(u) = 0
      /\ 1 - us \in Side
  <2>1. u = child[q][us] /\ u # None
    BY <1>0, <1>1 DEF Uncle, IsRed
  <2>2. u \in Hung /\ parent[u] = q
    BY <2>1, <1>3, <1>4
  <2>3. us # 1 - us /\ 1 - us \in Side
    BY <1>3
  <2>4. u # p
    BY <2>1, <2>3, <1>3, <1>4
  <2> QED  BY <2>1, <2>2, <2>3, <2>4, <1>1, <1>3, <1>4, <1>5
<1>7. /\ color'[u] = "Black" /\ color'[p] = "Black" /\ color'[q] = "Red"
      /\ \A n \in Index \ {u, p, q} : color'[n] = color[n]
  BY <1>1, <1>3, <1>4, <1>6 DEF TypeOK
<1>8. PICK f \in [Ref -> Nat] : /\ f[p] = h[p] + 1 /\ f[u] = h[u] + 1
                                /\ \A n \in Ref \ {p, u} : f[n] = h[n]
  <2> DEFINE e == [n \in Ref |-> IF n \in {p, u} THEN h[n] + 1 ELSE h[n]]
  <2>1. e \in [Ref -> Nat] /\ e[p] = h[p] + 1 /\ e[u] = h[u] + 1
        /\ \A n \in Ref \ {p, u} : e[n] = h[n]
    BY <1>3, <1>4, <1>6
  <2> HIDE DEF e
  <2> QED  BY <2>1
<1>9. Hung' = Hung
  BY <1>1 DEF Hung, Live
<1>10. ASSUME NEW n \in Hung, NEW s \in Side PROVE f[n] = f[child[n][s]] + Weight(n)'
  <2>0. /\ n \in Index /\ child[n][s] \in Ref /\ h[child[n][s]] \in Nat /\ Weight(n) \in {0, 1}
        /\ h[n] = h[child[n][s]] + Weight(n) /\ h[n] \in Nat
    BY <1>3, <1>4, <1>5
  <2>1. CASE n \in {p, u}
    <3>1. child[n][s] \notin {p, u}
      BY <2>1, <1>3, <1>4, <1>6
    <3>2. f[child[n][s]] = h[child[n][s]] /\ Weight(n) = 0 /\ Weight(n)' = 1 /\ f[n] = h[n] + 1
      BY <2>1, <3>1, <2>0, <1>3, <1>6, <1>7, <1>8 DEF Weight
    <3> QED  BY <3>2, <2>0
  <2>2. CASE n = q
    <3>1. child[n][s] \in {p, u}
      BY <2>2, <1>3, <1>6
    <3>2. f[child[n][s]] = h[child[n][s]] + 1 /\ Weight(n)' = 0 /\ f[n] = h[n] /\ Weight(n) = 1
      BY <2>2, <3>1, <2>0, <1>3, <1>6, <1>7, <1>8 DEF Weight
    <3> QED  BY <3>2, <2>0
  <2>3. CASE n \notin {p, u, q}
    <3>1. child[n][s] \notin {p, u}
      BY <2>3, <1>3, <1>4, <1>6
    <3>2. f[child[n][s]] = h[child[n][s]] /\ Weight(n)' = Weight(n) /\ f[n] = h[n]
      BY <2>3, <3>1, <2>0, <1>7, <1>8 DEF Weight
    <3> QED  BY <3>2, <2>0
  <2> QED  BY <2>1, <2>2, <2>3
<1>11. HeightLaws(f)'
  <2>1. \A n \in Hung', s \in Side : Deficit(n, s)' = 0
    BY <1>1 DEF Deficit, FixRemoveStep
  <2>2. ASSUME NEW n \in Hung', NEW s \in Side
        PROVE  f[n] = f[child'[n][s]] + Weight(n)' + 0
    <3>1. f[n] = f[child[n][s]] + Weight(n)' /\ child'[n][s] = child[n][s]
      BY <1>1, <1>9, <1>10
    <3>2. f[child[n][s]] \in Nat /\ Weight(n)' \in Nat
      BY <1>4, <1>9 DEF Weight
    <3> QED  BY <3>1, <3>2
  <2>3. f[None] = 0
    BY <1>3, <1>4, <1>5, <1>6, <1>8
  <2>4. ASSUME NEW t \in Trees, root'[t] # None PROVE black_height'[t] = f[root'[t]]
    <3>1. root[t] \notin {p, u} /\ root[t] \in Ref
      BY <1>3, <1>4, <1>6
    <3> QED  BY <2>4, <3>1, <1>1, <1>5, <1>8
  <2> QED  BY <2>1, <2>2, <2>3, <2>4 DEF HeightLaws
<1>12. InTree(Hung, parent, child, root, D, call.tree, D[root[call.tree]]) /\ call.tree \in Trees
  BY <1>1, OwnCall
<1>13. RedLaws'
  <2>1. ASSUME NEW n \in Hung, IsRed(n)', IsRed(parent[n])' PROVE RedRedAllowed(n)'
    <3>0. parent'[n] = parent[n]
      BY <1>1
    <3>1. n \notin {p, u} /\ parent[n] \notin {p, u} /\ parent[n] # None
      BY <2>1, <3>0, <1>7 DEF IsRed
    <3>2. CASE n = q
      <4>1. root[call.tree] # q
        BY <3>1, <3>2, <1>4, <1>12
      <4> QED  BY <3>2, <4>1, <1>1 DEF RedRedAllowed
    <3>3. CASE n # q
      <4>1. parent[n] # q
        BY <3>1, <1>3, <1>4, <1>6
      <4>2. IsRed(n) /\ IsRed(parent[n])
        BY <2>1, <3>0, <3>1, <3>3, <4>1, <1>4, <1>7 DEF IsRed
      <4>3. n = x
        BY <4>2, <1>3
      <4> QED  BY <4>3, <3>1, <1>3
    <3> QED  BY <3>2, <3>3
  <2>2. ASSUME NEW t \in Trees, IsRed(root[t])' PROVE pc' = "blacken" /\ t = call'.tree
    <3>0. root[t] # None /\ color'[root[t]] = "Red" /\ root[t] \in Index
      BY <2>2, <1>1, <1>4 DEF IsRed
    <3>1. root[t] # None /\ root[t] = q
      <4>1. color[root[t]] # "Red"
        BY <3>0, <1>3 DEF IsRed
      <4> QED  BY <4>1, <3>0, <1>7
    <3>2. t = call.tree
      BY <3>1, <1>2, <1>12 DEF InTree
    <3> QED  BY <3>1, <3>2, <1>1
  <2> QED  BY <2>1, <2>2, <1>9 DEF RedLaws
<1>14. RepairLaws'
  <2>0. q # None /\ color'[q] = "Red"
    BY <1>3, <1>4, <1>7
  <2>1. IsRed(ptr)'
    BY <2>0, <1>1 DEF IsRed
  <2>2. pc' = "fix_insert" => parent'[ptr'] # None
    BY <1>1, <1>2, <1>12 DEF InTree
  <2> QED  BY <2>1, <2>2, <1>1 DEF RepairLaws, FixRemoveStep
<1> QED  BY <1>11, <1>13, <1>14 DEF BalanceLaws

(* An inner grandchild: two red nodes trade places, no height changes.     *)
LEMMA FixInsertInnerBalance ==
  ASSUME TypeOK, TypeOK', NEW D \in [Ref -> SUBSET Index], NEW rk \in [Index -> Int],
         Laws(D, rk), NEW h \in [Ref -> Nat], BalanceLaws(h), FixInsertInner
  PROVE  BalanceLaws(h)'
<1>0. PICK x, p, q, us, u :
        x = ptr /\ p = parent[ptr] /\ q = Grandparent /\ us = UncleSide /\ u = Uncle
  OBVIOUS
<1>w. PICK w : w = child[x][1 - us]
  OBVIOUS
<1>1. /\ pc = "fix_insert" /\ pc # "idle" /\ IsRed(p) /\ ~IsRed(u) /\ ~Limbo /\ ~Limbo'
      /\ SideOf(p, x) = us /\ Rotate(1 - us, p) /\ ptr' = p /\ pc' = "rotate_outer"
      /\ UNCHANGED <<key, color, black_height, call>>
  BY <1>0 DEF FixInsertInner, RedParent, Limbo, Unlinked, data
<1>2. InsertSpot(x, p, q, us, h) /\ p \in D[root[call.tree]]
  BY <1>0, <1>1, AtInsertSpot
<1>3. /\ x \in Hung /\ p \in Hung /\ q \in Hung /\ x # p /\ x # q /\ p # q
      /\ parent[x] = p /\ parent[p] = q /\ IsRed(x) /\ IsRed(p) /\ ~IsRed(q)
      /\ us \in Side /\ child[q][1 - us] = p
      /\ \A n \in Hung \ {x} : ~(IsRed(n) /\ IsRed(parent[n]))
      /\ \A t \in Trees : ~IsRed(root[t])
      /\ \A n \in Hung, s \in Side : h[n] = h[child[n][s]] + Weight(n)
      /\ Weight(x) = 0 /\ Weight(p) = 0
  BY <1>2 DEF InsertSpot
<1>4. /\ Hung \subseteq Index /\ None \notin Index
      /\ \A n \in Hung : parent[n] \in Hung \cup {None} /\ parent[n] # n
      /\ \A n \in Hung : parent[n] # None => \E s \in Side : child[parent[n]][s] = n
      /\ \A n \in Hung, s \in Side : child[n][s] \in Hung \cup {None}
      /\ \A n \in Hung, s \in Side : child[n][s] # None => parent[child[n][s]] = n
      /\ \A t \in Trees : root[t] \in Hung \cup {None}
      /\ \A t \in Trees : root[t] # None => parent[root[t]] = None
  BY HungClosed
<1>5. /\ h[None] = 0 /\ \A n \in Ref : h[n] \in Nat
      /\ \A n \in Ref : Weight(n) \in {0, 1}
      /\ \A t \in Trees : root[t] # None => black_height[t] = h[root[t]]
  BY Sums
<1>6. 1 - us \in Side /\ 1 - (1 - us) = us /\ 1 - us # us
  BY <1>3
<1>7. child[p][us] = x
  <2>1. \E s \in Side : child[p][s] = x
    BY <1>3, <1>4
  <2> QED  BY <2>1, <1>1, <1>3 DEF SideOf
<1>8. Turned(1 - us, p, x, w)
  <2>1. PICK j : j = 1 - us
    OBVIOUS
  <2>2. j \in Side /\ Rotate(j, p) /\ x = child[p][1 - j] /\ w = child[x][j]
        /\ call \in Call /\ LinkLaws(D, rk)
    BY <2>1, <1>1, <1>6, <1>7, <1>w, OwnCall DEF Laws
  <2> HIDE DEF Side, Ref
  <2>3. Turned(j, p, x, w)
    BY <2>2, <1>2, RotateLinks
  <2> QED  BY <2>1, <2>3
<1>9. /\ w # x /\ w # p /\ (w # None => parent[w] = x /\ w \in Hung /\ parent'[w] = p)
      /\ parent'[x] = q /\ parent'[p] = x
      /\ \A m \in Index \ {p, x, w} : parent'[m] = parent[m]
      /\ child'[p][1 - us] = child[p][1 - us] /\ child'[p][us] = w
      /\ child'[x][1 - us] = p /\ child'[x][us] = child[x][us]
      /\ \A m \in Hung \ {p, x}, s \in Side :
           child'[m][s] = IF child[m][s] = p THEN x ELSE child[m][s]
      /\ \A t \in Trees : root'[t] = IF root[t] = p THEN x ELSE root[t]
  BY <1>3, <1>6, <1>8 DEF Turned
<1>10. Hung' = Hung
  BY <1>1 DEF Hung, Live
<1>11. \A t \in Trees : root'[t] = root[t]
  BY <1>3, <1>4, <1>9
<1>12. h[p] = h[w] /\ h[x] = h[w]
  <2>1. h[p] = h[x] + 0 /\ h[x] = h[w] + 0 /\ w \in Ref
    BY <1>3, <1>4, <1>6, <1>7, <1>w
  <2> QED  BY <2>1, <1>5
<1>13. ASSUME NEW n \in Hung, NEW s \in Side PROVE h[child'[n][s]] = h[child[n][s]]
  <2>0. s = us \/ s = 1 - us
    BY <1>3
  <2>1. CASE n = p
    BY <2>0, <2>1, <1>7, <1>9, <1>12
  <2>2. CASE n = x
    BY <2>0, <2>2, <1>9, <1>12, <1>w
  <2>3. CASE n \notin {p, x}
    BY <2>3, <1>9, <1>12
  <2> QED  BY <2>1, <2>2, <2>3
<1>14. HeightLaws(h)'
  <2>1. \A n \in Hung', s \in Side : Deficit(n, s)' = 0
    BY <1>1 DEF Deficit, FixRemoveStep
  <2>2. ASSUME NEW n \in Hung', NEW s \in Side
        PROVE  h[n] = h[child'[n][s]] + Weight(n)' + 0
    <3>1. h[n] = h[child[n][s]] + Weight(n) /\ h[child[n][s]] \in Nat /\ Weight(n) \in {0, 1}
      BY <1>3, <1>4, <1>5, <1>10
    <3>2. h[child'[n][s]] = h[child[n][s]] /\ Weight(n)' = Weight(n)
      BY <1>1, <1>10, <1>13 DEF Weight
    <3> QED  BY <3>1, <3>2
  <2> QED  BY <2>1, <2>2, <1>1, <1>5, <1>11 DEF HeightLaws
<1>15. \A n : IsRed(n)' <=> IsRed(n)
  BY <1>1 DEF IsRed
<1>16. RedLaws'
  <2>1. ASSUME NEW n \in Hung, IsRed(n), IsRed(parent'[n]) PROVE RedRedAllowed(n)'
    <3>1. CASE n = p
      BY <3>1, <1>1 DEF RedRedAllowed
    <3>2. CASE n = x
      BY <2>1, <3>2, <1>3, <1>9
    <3>3. CASE n = w
      BY <2>1, <3>3, <1>3, <1>4, <1>9
    <3>4. CASE n \notin {p, x, w}
      BY <2>1, <3>4, <1>3, <1>4, <1>9
    <3> QED  BY <3>1, <3>2, <3>3, <3>4
  <2>2. \A n \in Hung : IsRed(n)' /\ IsRed(parent[n])' => RedRedAllowed(n)'
    <3>1. \A n \in Hung : IsRed(n)' <=> IsRed(n)
      BY <1>15
    <3>2. \A n \in Hung : IsRed(parent[n])' <=> IsRed(parent'[n])
      BY <1>1 DEF IsRed
    <3> QED  BY <2>1, <3>1, <3>2
  <2>3. \A t \in Trees : ~IsRed(root[t])'
    BY <1>1, <1>3, <1>11 DEF IsRed
  <2> QED  BY <2>2, <2>3, <1>10 DEF RedLaws
<1>17. /\ Grandparent' = q /\ UncleSide' = us /\ Uncle' = u /\ parent'[ptr'] = x
       /\ child'[x][1 - us] = p
  <2>1. Grandparent' = q /\ parent'[ptr'] = x
    BY <1>1, <1>9 DEF Grandparent
  <2>2. u = child[q][us]
    BY <1>0 DEF Uncle
  <2>3. child'[q][1 - us] = x
    BY <1>3, <1>6, <1>9
  <2>4. u # p /\ u # x
    <3>1. Apart(parent, child, D, q)
      BY <1>3, OwnApart
    <3>2. u # p
      BY <3>1, <2>2, <1>3, <1>4, <1>6 DEF Apart
    <3>3. u # x
      BY <2>2, <1>3, <1>4
    <3> QED  BY <3>2, <3>3
  <2>5. child'[q][us] = u
    BY <2>2, <2>4, <1>3, <1>9
  <2>6. UncleSide' = 1 - (IF child'[q][0] = x THEN 0 ELSE 1)
    BY <2>1 DEF UncleSide, SideOf
  <2>7. UncleSide' = us
    BY <2>3, <2>4, <2>5, <2>6, <1>3
  <2>8. Uncle' = child'[q][us]
    BY <2>1, <2>7 DEF Uncle
  <2> QED  BY <2>1, <2>5, <2>7, <2>8, <1>9
<1>18. RepairLaws'
  <2>1. IsRed(ptr)' /\ IsRed(parent[ptr])'
    <3>1. IsRed(p) /\ IsRed(x)
      BY <1>3
    <3> QED  BY <3>1, <1>1, <1>17 DEF IsRed
  <2>2. ~IsRed(Uncle)'
    BY <1>1, <1>17 DEF IsRed
  <2>3. (Grandparent # None)' /\ (child[parent[ptr]][1 - UncleSide] = ptr)'
    BY <1>1, <1>3, <1>4, <1>17
  <2> QED  BY <2>1, <2>2, <2>3, <1>1 DEF RepairLaws, FixRemoveStep
<1> QED  BY <1>14, <1>16, <1>18 DEF BalanceLaws

(* An outer grandchild: the parent goes up black, over a red grandparent.  *)
LEMMA FixInsertOuterBalance ==
  ASSUME TypeOK, TypeOK', NEW D \in [Ref -> SUBSET Index], NEW rk \in [Index -> Int],
         Laws(D, rk), NEW h \in [Ref -> Nat], BalanceLaws(h), FixInsertOuter
  PROVE  \E g \in [Ref -> Nat] : BalanceLaws(g)'
<1>0. PICK x, p, q, us, u :
        x = ptr /\ p = parent[ptr] /\ q = Grandparent /\ us = UncleSide /\ u = Uncle
  OBVIOUS
<1>w. PICK w : w = child[p][us]
  OBVIOUS
<1>1. /\ pc \in {"fix_insert", "rotate_outer"} /\ pc # "idle" /\ IsRed(p) /\ ~IsRed(u)
      /\ ~Limbo /\ ~Limbo'
      /\ color' = [color EXCEPT ![p] = "Black", ![q] = "Red"]
      /\ Rotate(us, q) /\ ptr' = x /\ pc' \in {"blacken", "fix_insert"}
      /\ UNCHANGED <<key, black_height, call>>
  <2>1. RepairLaws
    BY DEF BalanceLaws
  <2> QED  BY <2>1, <1>0 DEF FixInsertOuter, RepairLaws, RedParent, Limbo, Unlinked, data
<1>2. InsertSpot(x, p, q, us, h) /\ q \in D[root[call.tree]]
  BY <1>0, <1>1, AtInsertSpot
<1>3. /\ x \in Hung /\ p \in Hung /\ q \in Hung /\ x # p /\ x # q /\ p # q
      /\ parent[x] = p /\ parent[p] = q /\ IsRed(x) /\ IsRed(p) /\ ~IsRed(q)
      /\ us \in Side /\ child[q][1 - us] = p
      /\ \A n \in Hung \ {x} : ~(IsRed(n) /\ IsRed(parent[n]))
      /\ \A t \in Trees : ~IsRed(root[t])
      /\ \A n \in Hung, s \in Side : h[n] = h[child[n][s]] + Weight(n)
      /\ Weight(p) = 0 /\ Weight(q) = 1
  BY <1>2 DEF InsertSpot
<1>4. /\ Hung \subseteq Index /\ None \notin Index
      /\ \A n \in Hung : parent[n] \in Hung \cup {None} /\ parent[n] # n
      /\ \A n \in Hung : parent[n] # None => \E s \in Side : child[parent[n]][s] = n
      /\ \A n \in Hung, s \in Side : child[n][s] \in Hung \cup {None}
      /\ \A n \in Hung, s \in Side : child[n][s] # None => parent[child[n][s]] = n
      /\ \A n \in Hung, s, r \in Side : child[n][s] # None /\ s # r => child[n][s] # child[n][r]
      /\ \A t \in Trees : root[t] \in Hung \cup {None}
      /\ \A t \in Trees : root[t] # None => parent[root[t]] = None
  BY HungClosed
<1>5. /\ h[None] = 0 /\ \A n \in Ref : h[n] \in Nat
      /\ \A n \in Ref : Weight(n) \in {0, 1}
      /\ \A t \in Trees : root[t] # None => black_height[t] = h[root[t]]
  BY Sums
<1>6. 1 - us \in Side /\ 1 - us # us
  BY <1>3
<1>7. child[p][1 - us] = x
  <2>1. CASE pc = "rotate_outer"
    BY <2>1, <1>0 DEF BalanceLaws, RepairLaws
  <2>2. CASE pc # "rotate_outer"
    <3>1. SideOf(p, x) # us
      BY <2>2, <1>0 DEF FixInsertOuter
    <3>2. \E s \in Side : child[p][s] = x
      BY <1>3, <1>4
    <3> QED  BY <3>1, <3>2, <1>3 DEF SideOf
  <2> QED  BY <2>1, <2>2
<1>8. Turned(us, q, p, w)
  <2>1. p = child[q][1 - us] /\ call \in Call /\ LinkLaws(D, rk) /\ us \in Side
    BY <1>1, <1>3, OwnCall DEF Laws
  <2> HIDE DEF Side, Ref
  <2> QED  BY <2>1, <1>1, <1>2, <1>w, RotateLinks
<1>9. /\ w # p /\ w # q /\ (w # None => parent[w] = p /\ w \in Hung /\ parent'[w] = q)
      /\ parent'[p] = parent[q] /\ parent'[q] = p
      /\ \A m \in Index \ {q, p, w} : parent'[m] = parent[m]
      /\ child'[q][us] = child[q][us] /\ child'[q][1 - us] = w
      /\ child'[p][us] = q /\ child'[p][1 - us] = x
      /\ \A m \in Hung \ {q, p}, s \in Side :
           child'[m][s] = IF child[m][s] = q THEN p ELSE child[m][s]
      /\ \A t \in Trees : root'[t] = IF root[t] = q THEN p ELSE root[t]
  BY <1>7, <1>8 DEF Turned
<1>10. Hung' = Hung
  BY <1>1 DEF Hung, Live
<1>11. /\ color'[p] = "Black" /\ color'[q] = "Red"
       /\ \A n \in Index \ {p, q} : color'[n] = color[n]
  BY <1>1, <1>3, <1>4 DEF TypeOK
<1>12. u = child[q][us] /\ u # p /\ u # q /\ w # x
  <2>1. u = child[q][us]
    BY <1>0 DEF Uncle
  <2> QED  BY <2>1, <1>3, <1>4, <1>6, <1>7, <1>w
<1>13. /\ h[q] = h[p] + 1 /\ h[p] = h[w] /\ h[p] = h[x] /\ h[p] = h[u]
       /\ h[p] \in Nat /\ u \in Ref /\ w \in Ref
  <2>1. /\ h[q] = h[p] + 1 /\ h[q] = h[u] + 1 /\ h[p] = h[w] + 0 /\ h[p] = h[x] + 0
        /\ u \in Ref /\ w \in Ref /\ x \in Ref /\ p \in Ref /\ q \in Ref
    BY <1>3, <1>4, <1>6, <1>7, <1>12, <1>w
  <2>2. h[p] \in Nat /\ h[w] \in Nat /\ h[x] \in Nat /\ h[u] \in Nat /\ h[q] \in Nat
    BY <2>1, <1>5
  <2> QED  BY <2>1, <2>2
<1>14. PICK f \in [Ref -> Nat] : /\ f[p] = h[q] /\ f[q] = h[p]
                                 /\ \A n \in Ref \ {p, q} : f[n] = h[n]
  <2> DEFINE e == [n \in Ref |-> IF n = p THEN h[q] ELSE IF n = q THEN h[p] ELSE h[n]]
  <2>1. e \in [Ref -> Nat] /\ e[p] = h[q] /\ e[q] = h[p] /\ \A n \in Ref \ {p, q} : e[n] = h[n]
    BY <1>3, <1>4
  <2> HIDE DEF e
  <2> QED  BY <2>1
<1>15. ASSUME NEW n \in Hung, NEW s \in Side
       PROVE  f[n] = f[child'[n][s]] + Weight(n)' /\ f[child'[n][s]] \in Nat
  <2>0. s = us \/ s = 1 - us
    BY <1>3
  <2>1. CASE n = q
    <3>1. child'[n][s] \in {u, w} /\ Weight(n)' = 0 /\ f[n] = h[p]
      BY <2>0, <2>1, <1>9, <1>11, <1>12, <1>14 DEF Weight
    <3>2. f[u] = h[p] /\ f[w] = h[p]
      BY <1>9, <1>12, <1>13, <1>14
    <3> QED  BY <3>1, <3>2, <1>13
  <2>2. CASE n = p
    <3>1. child'[n][s] \in {x, q} /\ Weight(n)' = 1 /\ f[n] = h[p] + 1
      BY <2>0, <2>2, <1>9, <1>11, <1>13, <1>14 DEF Weight
    <3>2. f[x] = h[p] /\ f[q] = h[p]
      BY <1>3, <1>4, <1>13, <1>14
    <3> QED  BY <3>1, <3>2, <1>13
  <2>3. CASE n \notin {p, q}
    <3>1. h[n] = h[child[n][s]] + Weight(n) /\ h[child[n][s]] \in Nat /\ child[n][s] # p
          /\ child[n][s] \in Ref /\ n \in Ref /\ n \in Index
      BY <2>3, <1>3, <1>4, <1>5
    <3>2. f[n] = h[n] /\ Weight(n)' = Weight(n)
      BY <2>3, <3>1, <1>11, <1>14 DEF Weight
    <3>3. f[child'[n][s]] = h[child[n][s]]
      BY <2>3, <3>1, <1>9, <1>14
    <3> QED  BY <3>1, <3>2, <3>3
  <2> QED  BY <2>1, <2>2, <2>3
<1>16. HeightLaws(f)'
  <2>1. \A n \in Hung', s \in Side : Deficit(n, s)' = 0
    BY <1>1 DEF Deficit, FixRemoveStep
  <2>2. ASSUME NEW n \in Hung', NEW s \in Side
        PROVE  f[n] = f[child'[n][s]] + Weight(n)' + 0
    <3>1. f[n] = f[child'[n][s]] + Weight(n)' /\ f[child'[n][s]] \in Nat
      BY <1>10, <1>15
    <3>2. Weight(n)' \in Nat
      BY DEF Weight
    <3> QED  BY <3>1, <3>2
  <2>3. f[None] = 0
    BY <1>3, <1>4, <1>5, <1>14
  <2>4. ASSUME NEW t \in Trees, root'[t] # None PROVE black_height'[t] = f[root'[t]]
    <3>1. root[t] # p /\ root[t] \in Ref
      BY <1>3, <1>4
    <3>2. root[t] # None
      <4>1. root'[t] = IF root[t] = q THEN p ELSE root[t]
        BY <1>9
      <4>2. q # None
        BY <1>3, <1>4
      <4> QED  BY <2>4, <4>1, <4>2
    <3>3. black_height[t] = h[root[t]] /\ black_height'[t] = black_height[t]
      BY <3>2, <1>1, <1>5
    <3>4. CASE root[t] = q
      <4>1. f[p] = h[q] /\ root'[t] = p
        BY <3>4, <1>14, <1>9
      <4> QED  BY <3>3, <3>4, <4>1
    <3>5. CASE root[t] # q
      <4>1. root'[t] = root[t] /\ f[root[t]] = h[root[t]]
        BY <3>1, <3>5, <1>14, <1>9
      <4> QED  BY <3>3, <4>1
    <3> QED  BY <3>4, <3>5
  <2> QED  BY <2>1, <2>2, <2>3, <2>4 DEF HeightLaws
<1>17. RedLaws'
  <2>1. ASSUME NEW n \in Hung, IsRed(n)', IsRed(parent[n])' PROVE FALSE
    <3>0. color'[n] = "Red" /\ parent'[n] # None /\ color'[parent'[n]] = "Red"
      BY <2>1 DEF IsRed
    <3>1. n # p /\ parent'[n] # p /\ n # q
      BY <3>0, <1>9, <1>11
    <3>2. CASE n = w
      <4>1. IsRed(w) /\ IsRed(parent[w]) /\ w \in Hung
        BY <3>0, <3>1, <3>2, <1>3, <1>4, <1>9, <1>11 DEF IsRed
      <4> QED  BY <4>1, <1>3, <1>12
    <3>3. CASE n # w
      <4>1. parent'[n] = parent[n]
        BY <3>1, <3>3, <1>4, <1>9
      <4>2. n # x
        BY <3>1, <4>1, <1>3
      <4>3. IsRed(n)
        BY <3>0, <3>1, <1>4, <1>11 DEF IsRed
      <4>4. CASE parent[n] = q
        <5>1. n = u
          BY <3>1, <3>0, <4>1, <4>4, <1>3, <1>4, <1>12
        <5> QED  BY <5>1, <4>3, <1>1
      <4>5. CASE parent[n] # q
        <5>1. IsRed(parent[n])
          BY <3>0, <3>1, <4>1, <4>5, <1>4, <1>11 DEF IsRed
        <5> QED  BY <5>1, <4>2, <4>3, <1>3
      <4> QED  BY <4>4, <4>5
    <3> QED  BY <3>2, <3>3
  <2>2. ASSUME NEW t \in Trees, IsRed(root[t])' PROVE FALSE
    <3>1. root'[t] # None /\ color'[root'[t]] = "Red"
      BY <2>2 DEF IsRed
    <3>2. root'[t] = root[t] /\ root[t] # q /\ root[t] # p /\ root[t] \in Index
      BY <3>1, <1>4, <1>9, <1>11
    <3> QED  BY <3>1, <3>2, <1>3, <1>11 DEF IsRed
  <2> QED  BY <2>1, <2>2, <1>10 DEF RedLaws
<1>18. RepairLaws'
  <2>1. color'[x] = "Red" /\ parent'[x] = p /\ p # None /\ x # None
    BY <1>3, <1>4, <1>9, <1>11, <1>12 DEF IsRed
  <2>2. IsRed(ptr)' /\ parent'[ptr'] # None
    BY <2>1, <1>1 DEF IsRed
  <2> QED  BY <2>2, <1>1 DEF RepairLaws, FixRemoveStep
<1> QED  BY <1>16, <1>17, <1>18 DEF BalanceLaws

(* A red root turns black, and every path through it counts it.            *)
LEMMA BlackenBalance ==
  ASSUME TypeOK, TypeOK', NEW D \in [Ref -> SUBSET Index], NEW rk \in [Index -> Int],
         Laws(D, rk), NEW h \in [Ref -> Nat], BalanceLaws(h), Blacken
  PROVE  \E g \in [Ref -> Nat] : BalanceLaws(g)'
<1>0. PICK t0, r : t0 = call.tree /\ r = root[t0]
  OBVIOUS
<1>1. /\ pc = "blacken" /\ pc # "idle" /\ pc' = "propagate" /\ r # None /\ ~Limbo
      /\ color' = [color EXCEPT ![r] = "Black"]
      /\ black_height' = (IF IsRed(r) THEN [black_height EXCEPT ![t0] = @ + 1] ELSE black_height)
      /\ UNCHANGED <<key, parent, child, root, call>>
  BY <1>0 DEF Blacken, Heightened, Limbo, Unlinked, data, links
<1>2. ~Limbo' /\ t0 \in Trees
  <2>1. call.op = "insert"
    BY <1>1 DEF Laws, CallLaws, InsertStep
  <2> QED  BY <2>1, <1>0, <1>1, OwnCall DEF Limbo, Unlinked
<1>3. Hung' = Hung
  BY <1>1, <1>2 DEF Hung, Live
<1>4. /\ Hung \subseteq Index /\ None \notin Index
      /\ \A n \in Hung : parent[n] \in Hung \cup {None} /\ parent[n] # n
      /\ \A n \in Hung, s \in Side : child[n][s] \in Hung \cup {None}
      /\ \A n \in Hung, s \in Side : child[n][s] # None => parent[child[n][s]] = n
      /\ \A t \in Trees : root[t] \in Hung \cup {None}
      /\ \A t \in Trees : root[t] # None => parent[root[t]] = None
  BY HungClosed
<1>5. /\ h[None] = 0 /\ \A n \in Ref : h[n] \in Nat
      /\ \A n \in Ref : Weight(n) \in {0, 1}
      /\ \A n \in Index : (IsRed(n) => Weight(n) = 0) /\ (~IsRed(n) => Weight(n) = 1)
      /\ \A n \in Hung, s \in Side :
              ~(pc \in FixRemoveStep /\ n = par /\ s = dir) => h[n] = h[child[n][s]] + Weight(n)
      /\ \A t \in Trees : root[t] # None => black_height[t] = h[root[t]]
  BY Sums
<1>6. \A n \in Hung, s \in Side : h[n] = h[child[n][s]] + Weight(n)
  BY <1>1, <1>5 DEF FixRemoveStep
<1>7. r \in Hung /\ parent[r] = None
  BY <1>0, <1>1, <1>2, <1>4
<1>8. color'[r] = "Black" /\ \A n \in Index \ {r} : color'[n] = color[n]
  BY <1>1, <1>4, <1>7 DEF TypeOK
<1>9. PICK f \in [Ref -> Nat] : /\ f[r] = h[r] + (1 - Weight(r))
                                /\ \A n \in Ref \ {r} : f[n] = h[n]
  <2>1. h[r] + (1 - Weight(r)) \in Nat
    BY <1>4, <1>5, <1>7
  <2> DEFINE e == [n \in Ref |-> IF n = r THEN h[r] + (1 - Weight(r)) ELSE h[n]]
  <2>2. e \in [Ref -> Nat] /\ e[r] = h[r] + (1 - Weight(r)) /\ \A n \in Ref \ {r} : e[n] = h[n]
    BY <2>1, <1>4, <1>7
  <2> HIDE DEF e
  <2> QED  BY <2>2
<1>10. HeightLaws(f)'
  <2>1. \A n \in Hung', s \in Side : Deficit(n, s)' = 0
    BY <1>1 DEF Deficit, FixRemoveStep
  <2>2. ASSUME NEW n \in Hung', NEW s \in Side
        PROVE  f[n] = f[child'[n][s]] + Weight(n)' + 0
    <3>1. /\ h[n] = h[child[n][s]] + Weight(n) /\ h[child[n][s]] \in Nat /\ h[n] \in Nat
          /\ Weight(n) \in {0, 1} /\ child[n][s] # r /\ child[n][s] \in Ref /\ n \in Index
      BY <1>3, <1>4, <1>5, <1>6, <1>7
    <3>2. f[child'[n][s]] = h[child[n][s]]
      BY <3>1, <1>1, <1>9
    <3>3. CASE n = r
      <4>1. Weight(n)' = 1 /\ f[n] = h[n] + (1 - Weight(n))
        BY <3>3, <1>8, <1>9 DEF Weight
      <4> QED  BY <4>1, <3>1, <3>2
    <3>4. CASE n # r
      <4>1. Weight(n)' = Weight(n) /\ f[n] = h[n]
        BY <3>1, <3>4, <1>8, <1>9 DEF Weight
      <4> QED  BY <4>1, <3>1, <3>2
    <3> QED  BY <3>3, <3>4
  <2>3. f[None] = 0
    BY <1>1, <1>5, <1>9
  <2>4. ASSUME NEW t \in Trees, root'[t] # None PROVE black_height'[t] = f[root'[t]]
    <3>1. root[t] \in Ref /\ (t # t0 => root[t] # r)
      <4>1. InTree(Hung, parent, child, root, D, t0, D[root[t0]]) /\ r \in D[root[t0]]
        <5>1. InTree(Hung, parent, child, root, D, t0, D[root[t0]])
          BY <1>0, <1>1, OwnCall
        <5> QED  BY <5>1, <1>0, <1>1 DEF InTree
      <4> QED  BY <4>1, <1>4 DEF InTree
    <3>0. root[t] # None
      BY <2>4, <1>1
    <3>2. h[r] \in Nat /\ black_height \in [Trees -> Int] /\ black_height[t] = h[root[t]]
      BY <3>0, <1>4, <1>5, <1>7 DEF TypeOK
    <3>3. CASE t = t0
      <4>1. f[root'[t]] = h[r] + (1 - Weight(r)) /\ black_height[t] = h[r]
        BY <3>2, <3>3, <1>0, <1>1, <1>9
      <4>2. CASE IsRed(r)
        <5>1. black_height'[t] = h[r] + 1 /\ Weight(r) = 0
          BY <3>2, <3>3, <4>1, <4>2, <1>1, <1>2, <1>4, <1>5, <1>7
        <5> QED  BY <4>1, <5>1, <3>2
      <4>3. CASE ~IsRed(r)
        <5>1. black_height'[t] = h[r] /\ Weight(r) = 1
          BY <3>2, <3>3, <4>1, <4>3, <1>1, <1>4, <1>5, <1>7
        <5> QED  BY <4>1, <5>1, <3>2
      <4> QED  BY <4>2, <4>3
    <3>4. CASE t # t0
      BY <3>1, <3>2, <3>4, <1>1, <1>2, <1>9
    <3> QED  BY <3>3, <3>4
  <2> QED  BY <2>1, <2>2, <2>3, <2>4 DEF HeightLaws
<1>11. RedLaws
  BY DEF BalanceLaws
<1>12. RedLaws'
  <2>1. \A n \in Hung : ~(IsRed(n) /\ IsRed(parent[n]))
    BY <1>1, <1>11 DEF RedLaws, RedRedAllowed
  <2>2. \A n \in Hung \cup {None} : IsRed(n)' => IsRed(n) /\ n # r
    BY <1>4, <1>8 DEF IsRed
  <2>3. \A n \in Hung : ~(IsRed(n)' /\ IsRed(parent[n])')
    <3> TAKE n \in Hung
    <3>1. parent'[n] = parent[n] /\ parent[n] \in Hung \cup {None}
      BY <1>1, <1>4
    <3>2. IsRed(parent[n])' => IsRed(parent[n])
      BY <3>1, <1>4, <1>8 DEF IsRed
    <3> QED  BY <2>1, <2>2, <3>2
  <2>4. ASSUME NEW t \in Trees, IsRed(root[t])' PROVE FALSE
    <3>1. root[t] # None /\ color'[root[t]] = "Red"
      BY <2>4, <1>1 DEF IsRed
    <3>2. IsRed(root[t]) /\ root[t] # r
      BY <3>1, <1>4, <1>8 DEF IsRed
    <3> QED  BY <3>2, <1>0, <1>11 DEF RedLaws
  <2> QED  BY <2>3, <2>4, <1>3 DEF RedLaws
<1>13. RepairLaws'
  BY <1>1, <1>2 DEF RepairLaws, FixRemoveStep
<1> QED  BY <1>10, <1>12, <1>13 DEF BalanceLaws

(* Where fix_remove stands: the sibling s of the short side c of q is one  *)
(* black node higher, so it is there.                                      *)
RemoveSpot(q, c, s, d, h) ==
  /\ q \in Hung /\ s \in Hung /\ s # q /\ s # c /\ d \in Side
  /\ child[q][d] = c /\ child[q][1 - d] = s /\ parent[s] = q /\ c # q /\ ~IsRed(c)
  /\ h[s] = h[c] + 1 /\ h[q] = h[s] + Weight(q) /\ h[c] \in Nat
  /\ \A n \in Hung, i \in Side : ~(n = q /\ i = d) => h[n] = h[child[n][i]] + Weight(n)
  /\ \A n \in Hung : IsRed(n) /\ IsRed(parent[n]) =>
       pc = "red_far_nephew" /\ parent[n] = FarNephew
  /\ \A t \in Trees : ~IsRed(root[t])

(* What the loop of fix_remove finds around the side that lacks one.       *)
LEMMA AtRemoveSpot ==
  ASSUME TypeOK, NEW D \in [Ref -> SUBSET Index], NEW rk \in [Index -> Int], Laws(D, rk),
         NEW h \in [Ref -> Nat], BalanceLaws(h), pc \in FixRemoveStep
  PROVE  /\ RemoveSpot(par, child[par][dir], Sibling, dir, h)
         /\ par \in D[root[call.tree]] /\ Sibling \in D[root[call.tree]]
<1>0. pc # "idle" /\ pc # "blacken" /\ pc \notin {"fix_insert", "rotate_outer"}
  BY DEF FixRemoveStep
<1>1. PICK q, c, s, d : q = par /\ c = child[par][dir] /\ s = Sibling /\ d = dir
  OBVIOUS
<1>2. /\ q \in Own(D) /\ Own(D) = D[root[call.tree]]
      /\ InTree(Hung, parent, child, root, D, call.tree, Own(D))
  <2>1. UpdateLaws(Own(D))
    BY <1>0, OwnCall
  <2> QED  BY <2>1, <1>0, <1>1, OwnCall DEF UpdateLaws
<1>3. d \in Side /\ 1 - d \in Side /\ 1 - d # d
  BY <1>1 DEF TypeOK
<1>4. q \in Hung /\ child[q][d] = c /\ child[q][1 - d] = s
  BY <1>1, <1>2 DEF InTree, Sibling
<1>5. /\ Hung \subseteq Index /\ None \notin Index
      /\ \A n \in Hung : parent[n] # n
      /\ \A n \in Hung, i \in Side : child[n][i] \in Hung \cup {None}
      /\ \A n \in Hung, i \in Side : child[n][i] # None => parent[child[n][i]] = n
      /\ \A n \in Hung, i, j \in Side : child[n][i] # None /\ i # j => child[n][i] # child[n][j]
  BY HungClosed
<1>6. /\ h[None] = 0 /\ \A n \in Ref : h[n] \in Nat
      /\ \A n \in Ref : Weight(n) \in {0, 1}
      /\ \A n \in Hung, i \in Side :
              ~(pc \in FixRemoveStep /\ n = par /\ i = dir) => h[n] = h[child[n][i]] + Weight(n)
      /\ pc \in FixRemoveStep => h[par] = h[child[par][dir]] + Weight(par) + 1
  BY Sums
<1>7. h[q] = h[s] + Weight(q) /\ h[q] = h[c] + Weight(q) + 1
  BY <1>1, <1>3, <1>4, <1>6
<1>8. c \in Ref /\ s \in Ref /\ h[c] \in Nat /\ h[s] \in Nat /\ Weight(q) \in {0, 1}
  BY <1>3, <1>4, <1>5, <1>6
<1>9. h[s] = h[c] + 1
  BY <1>7, <1>8
<1>10. s # None
  BY <1>6, <1>8, <1>9
<1>11. s \in Hung /\ parent[s] = q /\ s # q /\ s # c /\ c # q /\ s \in Own(D)
  <2>1. s \in Hung /\ parent[s] = q /\ s # q /\ s # c
    BY <1>3, <1>4, <1>5, <1>10
  <2>2. c # q
    BY <1>3, <1>4, <1>5
  <2>3. s \in Own(D)
    BY <1>1, <1>2, <1>3, <1>4, <1>10 DEF InTree
  <2> QED  BY <2>1, <2>2, <2>3
<1>12. RedLaws /\ RepairLaws
  BY DEF BalanceLaws
<1>13. ~IsRed(c) /\ \A t \in Trees : ~IsRed(root[t])
  BY <1>0, <1>1, <1>12 DEF RedLaws, RepairLaws
<1>14. \A n \in Hung : IsRed(n) /\ IsRed(parent[n]) =>
         pc = "red_far_nephew" /\ parent[n] = FarNephew
  <2> SUFFICES ASSUME NEW n \in Hung, IsRed(n), IsRed(parent[n])
               PROVE  pc = "red_far_nephew" /\ parent[n] = FarNephew
    OBVIOUS
  <2>1. pc = "red_far_nephew" /\ n = child[FarNephew][1 - d]
    BY <1>0, <1>1, <1>12 DEF RedLaws, RedRedAllowed
  <2>2. FarNephew \in Hung
    <3>1. FarNephew = child[s][1 - d] /\ FarNephew # None
      BY <2>1, <1>1, <1>12 DEF RepairLaws, FarNephew, IsRed
    <3> QED  BY <3>1, <1>3, <1>5, <1>11
  <2>3. n # None
    BY <1>5
  <2> QED  BY <2>1, <2>2, <2>3, <1>3, <1>5
<1>15. \A n \in Hung, i \in Side : ~(n = q /\ i = d) => h[n] = h[child[n][i]] + Weight(n)
  BY <1>1, <1>6
<1> QED  BY <1>1, <1>2, <1>3, <1>4, <1>7, <1>8, <1>9, <1>11, <1>13, <1>14, <1>15 DEF RemoveSpot

(* fix_remove moves no node in or out, and not the one in limbo.           *)
LEMMA RemoveStay ==
  ASSUME TypeOK, NEW D \in [Ref -> SUBSET Index], NEW rk \in [Index -> Int], Laws(D, rk),
         NEW h \in [Ref -> Nat], BalanceLaws(h), pc \in FixRemoveStep,
         pc' \in Unlinked, UNCHANGED <<key, call, node>>
  PROVE  /\ Limbo /\ Limbo' /\ Hung' = Hung /\ node \in Index \ Hung
         /\ parent[node] \in Hung \cup {None}
<1>1. pc # "idle" /\ Limbo /\ Limbo'
  BY DEF FixRemoveStep, Limbo, Unlinked
<1>2. Hung' = Hung
  BY <1>1 DEF Hung, Live
<1>3. UpdateLaws(Own(D))
  BY <1>1, OwnCall
<1>4. node \in Index \ Hung
  BY <1>1, <1>3 DEF UpdateLaws, Hung, Live
<1> QED  BY <1>1, <1>2, <1>4 DEF BalanceLaws, RepairLaws

(* A red sibling goes up black over a red parent, whose new sibling is the *)
(* black close nephew.                                                     *)
LEMMA FixRemoveRedSiblingBalance ==
  ASSUME TypeOK, TypeOK', NEW D \in [Ref -> SUBSET Index], NEW rk \in [Index -> Int],
         Laws(D, rk), NEW h \in [Ref -> Nat], BalanceLaws(h), FixRemoveRedSibling
  PROVE  \E g \in [Ref -> Nat] : BalanceLaws(g)'
<1>0. PICK q, c, s, d : q = par /\ c = child[par][dir] /\ s = Sibling /\ d = dir
  OBVIOUS
<1>w. PICK w, z : w = child[s][d] /\ z = child[s][1 - d]
  OBVIOUS
<1>1. /\ pc = "fix_remove" /\ pc # "idle" /\ pc \in FixRemoveStep /\ pc' = "black_sibling"
      /\ IsRed(s) /\ color' = [color EXCEPT ![s] = "Black", ![q] = "Red"]
      /\ Rotate(d, q) /\ par' = q /\ dir' = d
      /\ UNCHANGED <<key, black_height, call, node>>
  BY <1>0 DEF FixRemoveRedSibling, FixRemoveStep, data
<1>2. RemoveSpot(q, c, s, d, h) /\ q \in D[root[call.tree]]
  BY <1>0, <1>1, AtRemoveSpot
<1>3. /\ q \in Hung /\ s \in Hung /\ s # q /\ s # c /\ d \in Side
      /\ child[q][d] = c /\ child[q][1 - d] = s /\ parent[s] = q /\ c # q /\ ~IsRed(c)
      /\ h[s] = h[c] + 1 /\ h[q] = h[s] + Weight(q) /\ h[c] \in Nat
      /\ \A n \in Hung, i \in Side : ~(n = q /\ i = d) => h[n] = h[child[n][i]] + Weight(n)
      /\ \A n \in Hung : ~(IsRed(n) /\ IsRed(parent[n]))
      /\ \A t \in Trees : ~IsRed(root[t])
  BY <1>1, <1>2 DEF RemoveSpot
<1>4. /\ Limbo' /\ Hung' = Hung /\ node \in Index \ Hung /\ parent[node] \in Hung \cup {None}
  BY <1>1, RemoveStay DEF Unlinked
<1>5. /\ Hung \subseteq Index /\ None \notin Index
      /\ \A n \in Hung : parent[n] \in Hung \cup {None} /\ parent[n] # n
      /\ \A n \in Hung : parent[n] # None => \E i \in Side : child[parent[n]][i] = n
      /\ \A n \in Hung, i \in Side : child[n][i] \in Hung \cup {None}
      /\ \A n \in Hung, i \in Side : child[n][i] # None => parent[child[n][i]] = n
      /\ \A t \in Trees : root[t] \in Hung \cup {None}
      /\ \A t \in Trees : root[t] # None => parent[root[t]] = None
  BY HungClosed
<1>6. /\ h[None] = 0 /\ \A n \in Ref : h[n] \in Nat
      /\ \A n \in Ref : Weight(n) \in {0, 1}
      /\ \A n \in Index : (IsRed(n) => Weight(n) = 0) /\ (~IsRed(n) => Weight(n) = 1)
      /\ \A t \in Trees : root[t] # None => black_height[t] = h[root[t]]
  BY Sums
<1>7. 1 - d \in Side /\ 1 - d # d
  BY <1>3
<1>8. Turned(d, q, s, w)
  <2>1. s = child[q][1 - d] /\ call \in Call /\ LinkLaws(D, rk) /\ d \in Side
    BY <1>1, <1>3, OwnCall DEF Laws
  <2> HIDE DEF Side, Ref
  <2> QED  BY <2>1, <1>1, <1>2, <1>w, RotateLinks
<1>9. /\ w # s /\ w # q /\ (w # None => parent[w] = s /\ w \in Hung /\ parent'[w] = q)
      /\ parent'[s] = parent[q] /\ parent'[q] = s
      /\ \A m \in Index \ {q, s, w} : parent'[m] = parent[m]
      /\ child'[q][d] = c /\ child'[q][1 - d] = w
      /\ child'[s][d] = q /\ child'[s][1 - d] = z
      /\ \A m \in Hung \ {q, s}, i \in Side :
           child'[m][i] = IF child[m][i] = q THEN s ELSE child[m][i]
      /\ \A t \in Trees : root'[t] = IF root[t] = q THEN s ELSE root[t]
  BY <1>3, <1>8, <1>w DEF Turned
<1>10. /\ color'[s] = "Black" /\ color'[q] = "Red"
       /\ \A n \in Index \ {s, q} : color'[n] = color[n]
  BY <1>1, <1>3, <1>5 DEF TypeOK
<1>11. ~IsRed(q) /\ ~IsRed(w) /\ Weight(q) = 1 /\ Weight(s) = 0
  <2>1. ~IsRed(q)
    BY <1>1, <1>3
  <2>2. ~IsRed(w)
    <3>1. CASE w = None
      BY <3>1 DEF IsRed
    <3>2. CASE w # None
      BY <3>2, <1>1, <1>3, <1>9
    <3> QED  BY <3>1, <3>2
  <2> QED  BY <2>1, <2>2, <1>1, <1>3, <1>5, <1>6
<1>12. /\ h[s] = h[w] /\ h[s] = h[z] /\ h[q] = h[s] + 1 /\ h[s] \in Nat
       /\ w \in Ref /\ z \in Ref /\ c \in Ref /\ z # s /\ z # q
  <2>1. /\ h[s] = h[w] + 0 /\ h[s] = h[z] + 0 /\ h[q] = h[s] + 1
        /\ w \in Ref /\ z \in Ref /\ s \in Ref /\ c \in Ref
    BY <1>3, <1>5, <1>7, <1>11, <1>w
  <2>2. z # s
    BY <1>3, <1>5, <1>7, <1>w
  <2>3. z # q
    <3>1. Apart(parent, child, D, q)
      BY <1>3, OwnApart
    <3> QED  BY <3>1, <1>3, <1>5, <1>7, <1>w DEF Apart
  <2> QED  BY <2>1, <2>2, <2>3, <1>6
<1>13. PICK f \in [Ref -> Nat] : /\ f[s] = h[q] /\ f[q] = h[s]
                                 /\ \A n \in Ref \ {s, q} : f[n] = h[n]
  <2>1. h[q] \in Nat
    BY <1>12
  <2> DEFINE e == [n \in Ref |-> IF n = s THEN h[q] ELSE IF n = q THEN h[s] ELSE h[n]]
  <2>2. e \in [Ref -> Nat] /\ e[s] = h[q] /\ e[q] = h[s] /\ \A n \in Ref \ {s, q} : e[n] = h[n]
    BY <2>1, <1>3, <1>5, <1>12
  <2> HIDE DEF e
  <2> QED  BY <2>2
<1>14. ASSUME NEW n \in Hung, NEW i \in Side
       PROVE  f[n] = f[child'[n][i]] + Weight(n)' + Deficit(n, i)'
  <2>0. i = d \/ i = 1 - d
    BY <1>3
  <2>d. Deficit(n, i)' = IF n = q /\ i = d THEN 1 ELSE 0
    BY <1>1 DEF Deficit, FixRemoveStep
  <2>1. CASE n = q
    <3>1. Weight(n)' = 0 /\ f[n] = h[s]
      BY <2>1, <1>10, <1>13 DEF Weight
    <3>2. CASE i = d
      <4>1. f[child'[n][i]] = h[c] /\ Deficit(n, i)' = 1
        BY <2>1, <2>d, <3>2, <1>3, <1>9, <1>12, <1>13
      <4> QED  BY <3>1, <4>1, <1>3
    <3>3. CASE i = 1 - d
      <4>1. f[child'[n][i]] = h[w] /\ Deficit(n, i)' = 0
        BY <2>1, <2>d, <3>3, <1>7, <1>9, <1>12, <1>13
      <4> QED  BY <3>1, <4>1, <1>12
    <3> QED  BY <2>0, <3>2, <3>3
  <2>2. CASE n = s
    <3>1. Weight(n)' = 1 /\ f[n] = h[s] + 1 /\ Deficit(n, i)' = 0
      BY <2>2, <2>d, <1>3, <1>10, <1>12, <1>13 DEF Weight
    <3>2. f[child'[n][i]] = h[s]
      BY <2>0, <2>2, <1>9, <1>12, <1>13
    <3> QED  BY <3>1, <3>2, <1>12
  <2>3. CASE n \notin {q, s}
    <3>1. h[n] = h[child[n][i]] + Weight(n) /\ h[child[n][i]] \in Nat /\ child[n][i] # s
          /\ child[n][i] \in Ref /\ n \in Ref /\ n \in Index /\ Weight(n) \in {0, 1}
      BY <2>3, <1>3, <1>5, <1>6
    <3>2. f[n] = h[n] /\ Weight(n)' = Weight(n) /\ Deficit(n, i)' = 0
      BY <2>3, <2>d, <3>1, <1>10, <1>13 DEF Weight
    <3>3. f[child'[n][i]] = h[child[n][i]]
      BY <2>3, <3>1, <1>9, <1>13
    <3> QED  BY <3>1, <3>2, <3>3
  <2> QED  BY <2>1, <2>2, <2>3
<1>15. HeightLaws(f)'
  <2>1. f[None] = 0
    BY <1>3, <1>5, <1>6, <1>13
  <2>2. ASSUME NEW t \in Trees, root'[t] # None PROVE black_height'[t] = f[root'[t]]
    <3>1. root[t] # s /\ root[t] \in Ref
      BY <1>3, <1>5
    <3>2. root[t] # None
      <4>1. root'[t] = IF root[t] = q THEN s ELSE root[t]
        BY <1>9
      <4>2. q # None
        BY <1>3, <1>5
      <4> QED  BY <2>2, <4>1, <4>2
    <3>3. black_height[t] = h[root[t]] /\ black_height'[t] = black_height[t]
      BY <3>2, <1>1, <1>6
    <3>4. CASE root[t] = q
      <4>1. f[s] = h[q] /\ root'[t] = s
        BY <3>4, <1>13, <1>9
      <4> QED  BY <3>3, <3>4, <4>1
    <3>5. CASE root[t] # q
      <4>1. root'[t] = root[t] /\ f[root[t]] = h[root[t]]
        BY <3>1, <3>5, <1>13, <1>9
      <4> QED  BY <3>3, <4>1
    <3> QED  BY <3>4, <3>5
  <2> QED  BY <2>1, <2>2, <1>4, <1>14 DEF HeightLaws
<1>16. RedLaws'
  <2>1. ASSUME NEW n \in Hung, IsRed(n)', IsRed(parent[n])' PROVE FALSE
    <3>0. color'[n] = "Red" /\ parent'[n] # None /\ color'[parent'[n]] = "Red"
      BY <2>1 DEF IsRed
    <3>1. n # s /\ parent'[n] # s /\ n # q
      BY <3>0, <1>9, <1>10
    <3>2. IsRed(n)
      BY <3>0, <3>1, <1>5, <1>10 DEF IsRed
    <3>3. n # w
      BY <3>2, <1>11
    <3>4. parent'[n] = parent[n]
      BY <3>1, <3>3, <1>5, <1>9
    <3>5. parent[n] # q
      BY <3>1, <3>2, <1>3, <1>5
    <3>6. IsRed(parent[n])
      BY <3>0, <3>1, <3>4, <3>5, <1>5, <1>10 DEF IsRed
    <3> QED  BY <3>2, <3>6, <1>3
  <2>2. ASSUME NEW t \in Trees, IsRed(root[t])' PROVE FALSE
    <3>1. root'[t] # None /\ color'[root'[t]] = "Red"
      BY <2>2 DEF IsRed
    <3>2. root'[t] = root[t] /\ root[t] # q /\ root[t] # s /\ root[t] \in Index
      BY <3>1, <1>5, <1>9, <1>10
    <3> QED  BY <3>1, <3>2, <1>3, <1>10 DEF IsRed
  <2> QED  BY <2>1, <2>2, <1>4 DEF RedLaws
<1>17. RepairLaws'
  <2>1. ~IsRed(child[par][dir])'
    <3>1. c # None => c \in Index \ {s, q}
      BY <1>3, <1>5
    <3>2. c # None => color'[c] # "Red"
      BY <3>1, <1>3, <1>10 DEF IsRed
    <3>3. child'[par'][dir'] = c
      BY <1>1, <1>9
    <3> QED  BY <3>2, <3>3 DEF IsRed
  <2>2. ~IsRed(Sibling)'
    <3>1. Sibling' = w
      BY <1>1, <1>9 DEF Sibling
    <3>2. w # None => color'[w] # "Red"
      BY <1>5, <1>9, <1>10, <1>11 DEF IsRed
    <3> QED  BY <3>1, <3>2 DEF IsRed
  <2>3. parent'[node'] \in Hung' \cup {None}
    <3>1. node \notin {q, s, w}
      BY <1>3, <1>4, <1>5, <1>9
    <3> QED  BY <3>1, <1>1, <1>4, <1>9
  <2> QED  BY <2>1, <2>2, <2>3, <1>1 DEF RepairLaws
<1> QED  BY <1>15, <1>16, <1>17 DEF BalanceLaws

(* A red close nephew goes up black over a red sibling: with the red far   *)
(* nephew that this makes, the next step mends the rest.                   *)
LEMMA FixRemoveCloseNephewBalance ==
  ASSUME TypeOK, TypeOK', NEW D \in [Ref -> SUBSET Index], NEW rk \in [Index -> Int],
         Laws(D, rk), NEW h \in [Ref -> Nat], BalanceLaws(h), FixRemoveCloseNephew
  PROVE  \E g \in [Ref -> Nat] : BalanceLaws(g)'
<1>0. PICK q, c, s, d, e :
        q = par /\ c = child[par][dir] /\ s = Sibling /\ d = dir /\ e = CloseNephew
  OBVIOUS
<1>w. PICK w, a, z : w = child[e][1 - d] /\ a = child[e][d] /\ z = child[s][1 - d]
  OBVIOUS
<1>1. /\ pc \in {"fix_remove", "black_sibling"} /\ pc # "idle" /\ pc \in FixRemoveStep
      /\ pc' = "red_far_nephew" /\ ~IsRed(s) /\ IsRed(e)
      /\ color' = [color EXCEPT ![e] = "Black", ![s] = "Red"]
      /\ Rotate(1 - d, s) /\ par' = q /\ dir' = d
      /\ UNCHANGED <<key, black_height, call, node>>
  <2>1. RepairLaws
    BY DEF BalanceLaws
  <2> QED  BY <2>1, <1>0 DEF FixRemoveCloseNephew, AtBlackSibling, FixRemoveStep, data, RepairLaws
<1>2. RemoveSpot(q, c, s, d, h) /\ s \in D[root[call.tree]]
  BY <1>0, <1>1, AtRemoveSpot
<1>3. /\ q \in Hung /\ s \in Hung /\ s # q /\ s # c /\ d \in Side
      /\ child[q][d] = c /\ child[q][1 - d] = s /\ parent[s] = q /\ c # q /\ ~IsRed(c)
      /\ h[s] = h[c] + 1 /\ h[q] = h[s] + Weight(q) /\ h[c] \in Nat
      /\ \A n \in Hung, i \in Side : ~(n = q /\ i = d) => h[n] = h[child[n][i]] + Weight(n)
      /\ \A n \in Hung : ~(IsRed(n) /\ IsRed(parent[n]))
      /\ \A t \in Trees : ~IsRed(root[t])
  BY <1>1, <1>2 DEF RemoveSpot
<1>4. /\ Limbo' /\ Hung' = Hung /\ node \in Index \ Hung /\ parent[node] \in Hung \cup {None}
  BY <1>1, RemoveStay DEF Unlinked
<1>5. /\ Hung \subseteq Index /\ None \notin Index
      /\ \A n \in Hung : parent[n] \in Hung \cup {None} /\ parent[n] # n
      /\ \A n \in Hung : parent[n] # None => \E i \in Side : child[parent[n]][i] = n
      /\ \A n \in Hung, i \in Side : child[n][i] \in Hung \cup {None}
      /\ \A n \in Hung, i \in Side : child[n][i] # None => parent[child[n][i]] = n
      /\ \A n \in Hung, i, j \in Side : child[n][i] # None /\ i # j => child[n][i] # child[n][j]
      /\ \A t \in Trees : root[t] \in Hung \cup {None}
      /\ \A t \in Trees : root[t] # None => parent[root[t]] = None
  BY HungClosed
<1>6. /\ h[None] = 0 /\ \A n \in Ref : h[n] \in Nat
      /\ \A n \in Ref : Weight(n) \in {0, 1}
      /\ \A n \in Index : (IsRed(n) => Weight(n) = 0) /\ (~IsRed(n) => Weight(n) = 1)
      /\ \A t \in Trees : root[t] # None => black_height[t] = h[root[t]]
  BY Sums
<1>7. 1 - d \in Side /\ 1 - d # d /\ 1 - (1 - d) = d
  BY <1>3
<1>8. /\ e = child[s][d] /\ e \in Hung /\ parent[e] = s /\ e # s /\ e # q /\ z # e /\ z # s
  <2>1. e = child[s][d] /\ e # None
    BY <1>0, <1>1 DEF CloseNephew, IsRed
  <2>2. e \in Hung /\ parent[e] = s /\ e # s /\ z # e /\ z # s
    BY <2>1, <1>3, <1>5, <1>7, <1>w
  <2>3. e # q
    <3>1. Apart(parent, child, D, q)
      BY <1>3, OwnApart
    <3> QED  BY <2>1, <3>1, <1>3, <1>5, <1>7 DEF Apart
  <2> QED  BY <2>1, <2>2, <2>3
<1>9. Turned(1 - d, s, e, w)
  <2>1. PICK j : j = 1 - d
    OBVIOUS
  <2>2. j \in Side /\ Rotate(j, s) /\ e = child[s][1 - j] /\ w = child[e][j]
        /\ call \in Call /\ LinkLaws(D, rk)
    BY <2>1, <1>1, <1>7, <1>8, <1>w, OwnCall DEF Laws
  <2> HIDE DEF Side, Ref
  <2>3. Turned(j, s, e, w)
    BY <2>2, <1>2, RotateLinks
  <2> QED  BY <2>1, <2>3
<1>10. /\ w # e /\ w # s /\ (w # None => parent[w] = e /\ w \in Hung /\ parent'[w] = s)
       /\ parent'[e] = q /\ parent'[s] = e
       /\ \A m \in Index \ {s, e, w} : parent'[m] = parent[m]
       /\ child'[s][1 - d] = z /\ child'[s][d] = w
       /\ child'[e][1 - d] = s /\ child'[e][d] = a
       /\ \A m \in Hung \ {s, e}, i \in Side :
            child'[m][i] = IF child[m][i] = s THEN e ELSE child[m][i]
       /\ \A t \in Trees : root'[t] = IF root[t] = s THEN e ELSE root[t]
  BY <1>3, <1>7, <1>9, <1>w DEF Turned
<1>11. /\ color'[e] = "Black" /\ color'[s] = "Red"
       /\ \A n \in Index \ {e, s} : color'[n] = color[n]
  BY <1>1, <1>3, <1>5, <1>8 DEF TypeOK
<1>12. Weight(s) = 1 /\ Weight(e) = 0 /\ ~IsRed(w)
  <2>1. ~IsRed(w)
    <3>1. CASE w = None
      BY <3>1 DEF IsRed
    <3>2. CASE w # None
      BY <3>2, <1>1, <1>3, <1>10
    <3> QED  BY <3>1, <3>2
  <2> QED  BY <2>1, <1>1, <1>3, <1>5, <1>6, <1>8
<1>13. /\ h[s] = h[e] + 1 /\ h[w] = h[e] /\ h[a] = h[e] /\ h[z] = h[e] /\ h[e] \in Nat
       /\ w \in Ref /\ a \in Ref /\ z \in Ref /\ a # e /\ a # s
  <2>1. /\ h[s] = h[e] + 1 /\ h[s] = h[z] + 1 /\ h[e] = h[w] + 0 /\ h[e] = h[a] + 0
        /\ w \in Ref /\ z \in Ref /\ a \in Ref /\ e \in Ref
    BY <1>3, <1>5, <1>7, <1>8, <1>12, <1>w
  <2>2. a # e
    BY <1>5, <1>8, <1>w, <1>3
  <2>3. a # s
    <3>1. Apart(parent, child, D, s)
      BY <1>3, OwnApart
    <3> QED  BY <3>1, <1>3, <1>5, <1>7, <1>8, <1>w DEF Apart
  <2> QED  BY <2>1, <2>2, <2>3, <1>6
<1>14. PICK f \in [Ref -> Nat] : /\ f[e] = h[s] /\ f[s] = h[e]
                                 /\ \A n \in Ref \ {e, s} : f[n] = h[n]
  <2>1. h[s] \in Nat
    BY <1>13
  <2> DEFINE b == [n \in Ref |-> IF n = e THEN h[s] ELSE IF n = s THEN h[e] ELSE h[n]]
  <2>2. b \in [Ref -> Nat] /\ b[e] = h[s] /\ b[s] = h[e] /\ \A n \in Ref \ {e, s} : b[n] = h[n]
    BY <2>1, <1>3, <1>5, <1>8, <1>13
  <2> HIDE DEF b
  <2> QED  BY <2>2
<1>15. ASSUME NEW n \in Hung, NEW i \in Side
       PROVE  f[n] = f[child'[n][i]] + Weight(n)' + Deficit(n, i)'
  <2>0. i = d \/ i = 1 - d
    BY <1>3
  <2>d. Deficit(n, i)' = IF n = q /\ i = d THEN 1 ELSE 0
    BY <1>1 DEF Deficit, FixRemoveStep
  <2>1. CASE n = s
    <3>1. Weight(n)' = 0 /\ f[n] = h[e] /\ Deficit(n, i)' = 0
      BY <2>1, <2>d, <1>3, <1>11, <1>14 DEF Weight
    <3>2. f[child'[n][i]] = h[e]
      BY <2>0, <2>1, <1>8, <1>10, <1>13, <1>14
    <3> QED  BY <3>1, <3>2, <1>13
  <2>2. CASE n = e
    <3>1. Weight(n)' = 1 /\ f[n] = h[e] + 1 /\ Deficit(n, i)' = 0
      BY <2>2, <2>d, <1>8, <1>11, <1>13, <1>14 DEF Weight
    <3>2. f[child'[n][i]] = h[e]
      BY <2>0, <2>2, <1>3, <1>10, <1>13, <1>14
    <3> QED  BY <3>1, <3>2, <1>13
  <2>3. CASE n = q
    <3>1. Weight(n)' = Weight(n) /\ f[n] = h[n] /\ Weight(n) \in {0, 1} /\ h[s] \in Nat
      BY <2>3, <1>3, <1>5, <1>6, <1>8, <1>11, <1>14 DEF Weight
    <3>2. CASE i = d
      <4>1. child'[n][i] = c /\ Deficit(n, i)' = 1 /\ c # e /\ c \in Ref
        <5>1. c # e
          BY <1>3, <1>5, <1>8
        <5> QED  BY <5>1, <2>3, <2>d, <3>2, <1>3, <1>5, <1>8, <1>10
      <4>2. f[child'[n][i]] = h[c]
        BY <4>1, <1>3, <1>14
      <4> QED  BY <2>3, <3>1, <4>1, <4>2, <1>3
    <3>3. CASE i = 1 - d
      <4>1. child'[n][i] = e /\ Deficit(n, i)' = 0
        BY <2>3, <2>d, <3>3, <1>3, <1>7, <1>8, <1>10
      <4> QED  BY <2>3, <3>1, <4>1, <1>3, <1>14
    <3> QED  BY <2>0, <3>2, <3>3
  <2>4. CASE n \notin {q, s, e}
    <3>1. h[n] = h[child[n][i]] + Weight(n) /\ h[child[n][i]] \in Nat /\ child[n][i] # e
          /\ child[n][i] \in Ref /\ n \in Ref /\ n \in Index /\ Weight(n) \in {0, 1}
      BY <2>4, <1>3, <1>5, <1>6, <1>8
    <3>2. f[n] = h[n] /\ Weight(n)' = Weight(n) /\ Deficit(n, i)' = 0
      BY <2>4, <2>d, <3>1, <1>11, <1>14 DEF Weight
    <3>3. f[child'[n][i]] = h[child[n][i]]
      BY <2>4, <3>1, <1>10, <1>14
    <3> QED  BY <3>1, <3>2, <3>3
  <2> QED  BY <2>1, <2>2, <2>3, <2>4
<1>16. HeightLaws(f)'
  <2>1. f[None] = 0
    BY <1>3, <1>5, <1>6, <1>8, <1>14
  <2>2. ASSUME NEW t \in Trees, root'[t] # None PROVE black_height'[t] = f[root'[t]]
    <3>1. root[t] # s /\ root[t] # e /\ root[t] \in Ref
      BY <1>3, <1>5, <1>8
    <3> QED  BY <2>2, <3>1, <1>1, <1>6, <1>10, <1>14
  <2> QED  BY <2>1, <2>2, <1>4, <1>15 DEF HeightLaws
<1>17. Sibling' = e /\ FarNephew' = s /\ z = child'[s][1 - d]
  <2>1. Sibling' = e
    BY <1>1, <1>3, <1>7, <1>8, <1>10 DEF Sibling
  <2> QED  BY <2>1, <1>1, <1>10 DEF FarNephew
<1>18. RedLaws'
  <2>1. ASSUME NEW n \in Hung, IsRed(n)', IsRed(parent[n])' PROVE RedRedAllowed(n)'
    <3>0. color'[n] = "Red" /\ parent'[n] # None /\ color'[parent'[n]] = "Red"
      BY <2>1 DEF IsRed
    <3>1. n # e /\ parent'[n] # e /\ n # s
      BY <3>0, <1>10, <1>11
    <3>2. IsRed(n)
      BY <3>0, <3>1, <1>5, <1>11 DEF IsRed
    <3>3. n # w
      BY <3>2, <1>12
    <3>4. parent'[n] = parent[n]
      BY <3>1, <3>3, <1>5, <1>10
    <3>5. CASE parent[n] = s
      <4>1. n = z
        BY <3>1, <3>5, <1>3, <1>5, <1>8, <1>w
      <4> QED  BY <4>1, <1>1, <1>17 DEF RedRedAllowed
    <3>6. CASE parent[n] # s
      <4>1. IsRed(parent[n])
        BY <3>0, <3>1, <3>4, <3>6, <1>5, <1>11 DEF IsRed
      <4> QED  BY <3>2, <4>1, <1>3
    <3> QED  BY <3>5, <3>6
  <2>2. ASSUME NEW t \in Trees, IsRed(root[t])' PROVE FALSE
    <3>1. root'[t] # None /\ color'[root'[t]] = "Red"
      BY <2>2 DEF IsRed
    <3>2. root'[t] = root[t] /\ root[t] # e /\ root[t] # s /\ root[t] \in Index
      BY <3>1, <1>3, <1>5, <1>8, <1>10, <1>11
    <3> QED  BY <3>1, <3>2, <1>3, <1>11 DEF IsRed
  <2> QED  BY <2>1, <2>2, <1>4 DEF RedLaws
<1>19. RepairLaws'
  <2>1. ~IsRed(child[par][dir])'
    <3>1. c # None => c \in Index \ {s, e}
      BY <1>3, <1>5, <1>8
    <3>2. c # None => color'[c] # "Red"
      BY <3>1, <1>3, <1>11 DEF IsRed
    <3>3. child'[par'][dir'] = c
      BY <1>1, <1>3, <1>8, <1>10
    <3> QED  BY <3>2, <3>3 DEF IsRed
  <2>2. ~IsRed(Sibling)' /\ IsRed(FarNephew)'
    <3>1. s # None
      BY <1>3, <1>5
    <3> QED  BY <3>1, <1>11, <1>17 DEF IsRed
  <2>3. parent'[node'] \in Hung' \cup {None}
    <3>1. node \notin {e, s, w}
      BY <1>3, <1>4, <1>5, <1>8, <1>10
    <3> QED  BY <3>1, <1>1, <1>4, <1>10
  <2> QED  BY <2>1, <2>2, <2>3, <1>1 DEF RepairLaws
<1> QED  BY <1>16, <1>18, <1>19 DEF BalanceLaws

(* No node is its own great-grandparent.                                   *)
LEMMA NoThirdParent ==
  ASSUME TypeOK, NEW D \in [Ref -> SUBSET Index], NEW rk \in [Index -> Int], Laws(D, rk),
         NEW x \in Hung, NEW y \in Hung, NEW z \in Hung, parent[y] = x, parent[z] = y
  PROVE  parent[x] # z
<1>1. NoCycle(Hung, parent)
  BY DEF Laws, LinkLaws, Shape
<1>2. SUFFICES ASSUME parent[x] = z PROVE FALSE
  OBVIOUS
<1>3. {x, y, z} \in SUBSET Hung /\ {x, y, z} # {} /\ \A n \in {x, y, z} : parent[n] \in {x, y, z}
  BY <1>2
<1> QED  BY <1>1, <1>3 DEF NoCycle

(* A red far nephew makes up for the missing black node.                   *)
LEMMA FixRemoveFarNephewBalance ==
  ASSUME TypeOK, TypeOK', NEW D \in [Ref -> SUBSET Index], NEW rk \in [Index -> Int],
         Laws(D, rk), NEW h \in [Ref -> Nat], BalanceLaws(h), FixRemoveFarNephew
  PROVE  \E g \in [Ref -> Nat] : BalanceLaws(g)'
<1>0. PICK q, c, s, d, e :
        q = par /\ c = child[par][dir] /\ s = Sibling /\ d = dir /\ e = FarNephew
  OBVIOUS
<1>w. PICK w : w = child[s][d]
  OBVIOUS
<1>1. /\ pc \in {"fix_remove", "black_sibling", "red_far_nephew"} /\ pc # "idle"
      /\ pc \in FixRemoveStep /\ pc' = "unthread" /\ ~IsRed(s) /\ IsRed(e)
      /\ color' = [color EXCEPT ![s] = color[q], ![q] = "Black", ![e] = "Black"]
      /\ Rotate(d, q)
      /\ UNCHANGED <<key, black_height, call, node>>
  <2>1. RepairLaws
    BY DEF BalanceLaws
  <2> QED  BY <2>1, <1>0 DEF FixRemoveFarNephew, AtBlackSibling, FixRemoveStep, data, RepairLaws
<1>2. RemoveSpot(q, c, s, d, h) /\ q \in D[root[call.tree]]
  BY <1>0, <1>1, AtRemoveSpot
<1>3. /\ q \in Hung /\ s \in Hung /\ s # q /\ s # c /\ d \in Side
      /\ child[q][d] = c /\ child[q][1 - d] = s /\ parent[s] = q /\ c # q /\ ~IsRed(c)
      /\ h[s] = h[c] + 1 /\ h[q] = h[s] + Weight(q) /\ h[c] \in Nat
      /\ \A n \in Hung, i \in Side : ~(n = q /\ i = d) => h[n] = h[child[n][i]] + Weight(n)
      /\ \A n \in Hung : IsRed(n) /\ IsRed(parent[n]) => parent[n] = e
      /\ \A t \in Trees : ~IsRed(root[t])
  BY <1>0, <1>2 DEF RemoveSpot
<1>4. /\ Limbo' /\ Hung' = Hung /\ node \in Index \ Hung /\ parent[node] \in Hung \cup {None}
  BY <1>1, RemoveStay DEF Unlinked
<1>5. /\ Hung \subseteq Index /\ None \notin Index
      /\ \A n \in Hung : parent[n] \in Hung \cup {None} /\ parent[n] # n
      /\ \A n \in Hung : parent[n] # None => \E i \in Side : child[parent[n]][i] = n
      /\ \A n \in Hung, i \in Side : child[n][i] \in Hung \cup {None}
      /\ \A n \in Hung, i \in Side : child[n][i] # None => parent[child[n][i]] = n
      /\ \A n \in Hung, i, j \in Side : child[n][i] # None /\ i # j => child[n][i] # child[n][j]
      /\ \A t \in Trees : root[t] \in Hung \cup {None}
      /\ \A t \in Trees : root[t] # None => parent[root[t]] = None
  BY HungClosed
<1>6. /\ h[None] = 0 /\ \A n \in Ref : h[n] \in Nat
      /\ \A n \in Ref : Weight(n) \in {0, 1}
      /\ \A n \in Index : (IsRed(n) => Weight(n) = 0) /\ (~IsRed(n) => Weight(n) = 1)
      /\ \A t \in Trees : root[t] # None => black_height[t] = h[root[t]]
  BY Sums
<1>7. 1 - d \in Side /\ 1 - d # d
  BY <1>3
<1>8. /\ e = child[s][1 - d] /\ e \in Hung /\ parent[e] = s /\ e # s /\ e # q /\ e # w /\ w # s
  <2>1. e = child[s][1 - d] /\ e # None
    BY <1>0, <1>1 DEF FarNephew, IsRed
  <2>2. e \in Hung /\ parent[e] = s /\ e # s /\ e # w /\ w # s
    BY <2>1, <1>3, <1>5, <1>7, <1>w
  <2>3. e # q
    <3>1. Apart(parent, child, D, q)
      BY <1>3, OwnApart
    <3> QED  BY <2>1, <3>1, <1>3, <1>5, <1>7 DEF Apart
  <2> QED  BY <2>1, <2>2, <2>3
<1>9. Turned(d, q, s, w)
  <2>1. s = child[q][1 - d] /\ call \in Call /\ LinkLaws(D, rk) /\ d \in Side
    BY <1>1, <1>3, OwnCall DEF Laws
  <2> HIDE DEF Side, Ref
  <2> QED  BY <2>1, <1>1, <1>2, <1>w, RotateLinks
<1>10. /\ w # q /\ (w # None => parent[w] = s /\ w \in Hung /\ parent'[w] = q)
       /\ parent'[s] = parent[q] /\ parent'[q] = s
       /\ \A m \in Index \ {q, s, w} : parent'[m] = parent[m]
       /\ child'[q][d] = c /\ child'[q][1 - d] = w
       /\ child'[s][d] = q /\ child'[s][1 - d] = e
       /\ \A m \in Hung \ {q, s}, i \in Side :
            child'[m][i] = IF child[m][i] = q THEN s ELSE child[m][i]
       /\ \A t \in Trees : root'[t] = IF root[t] = q THEN s ELSE root[t]
  BY <1>3, <1>8, <1>9 DEF Turned
<1>11. /\ color'[s] = color[q] /\ color'[q] = "Black" /\ color'[e] = "Black"
       /\ \A n \in Index \ {s, q, e} : color'[n] = color[n]
  BY <1>1, <1>3, <1>5, <1>8 DEF TypeOK
<1>12. Weight(s) = 1 /\ Weight(e) = 0 /\ Weight(s)' = Weight(q)
  BY <1>1, <1>3, <1>5, <1>6, <1>8, <1>11 DEF Weight
<1>13. /\ h[s] = h[e] + 1 /\ h[w] = h[e] /\ h[c] = h[e] /\ h[e] \in Nat /\ h[s] \in Nat
       /\ w \in Ref /\ c \in Ref /\ Weight(q) \in {0, 1} /\ c # e
  <2>1. /\ h[s] = h[e] + 1 /\ h[s] = h[w] + 1
        /\ w \in Ref /\ e \in Ref /\ c \in Ref /\ q \in Ref
    BY <1>3, <1>5, <1>7, <1>8, <1>12, <1>w
  <2>2. h[e] \in Nat /\ h[w] \in Nat /\ h[s] \in Nat /\ Weight(q) \in {0, 1}
    BY <2>1, <1>3, <1>5, <1>6
  <2>3. c # e
    BY <1>3, <1>5, <1>8
  <2> QED  BY <2>1, <2>2, <2>3, <1>3
<1>14. PICK f \in [Ref -> Nat] : /\ f[s] = h[q] /\ f[q] = h[s] /\ f[e] = h[s]
                                 /\ \A n \in Ref \ {s, q, e} : f[n] = h[n]
  <2>1. h[q] \in Nat
    BY <1>3, <1>13
  <2> DEFINE b == [n \in Ref |-> IF n = s THEN h[q] ELSE IF n \in {q, e} THEN h[s] ELSE h[n]]
  <2>2. /\ b \in [Ref -> Nat] /\ b[s] = h[q] /\ b[q] = h[s] /\ b[e] = h[s]
        /\ \A n \in Ref \ {s, q, e} : b[n] = h[n]
    BY <2>1, <1>3, <1>5, <1>8, <1>13
  <2> HIDE DEF b
  <2> QED  BY <2>2
<1>15. parent[q] # e
  BY <1>3, <1>8, NoThirdParent
<1>16. ASSUME NEW n \in Hung, NEW i \in Side
       PROVE  f[n] = f[child'[n][i]] + Weight(n)' /\ f[child'[n][i]] \in Nat
  <2>0. i = d \/ i = 1 - d
    BY <1>3
  <2>1. CASE n = q
    <3>1. Weight(n)' = 1 /\ f[n] = h[e] + 1
      BY <2>1, <1>11, <1>13, <1>14 DEF Weight
    <3>2. f[child'[n][i]] = h[e]
      BY <2>0, <2>1, <1>3, <1>8, <1>10, <1>13, <1>14
    <3> QED  BY <3>1, <3>2, <1>13
  <2>2. CASE n = s
    <3>1. Weight(n)' = Weight(q) /\ f[n] = h[s] + Weight(q)
      BY <2>2, <1>3, <1>12, <1>14
    <3>2. f[child'[n][i]] = h[s]
      BY <2>0, <2>2, <1>10, <1>14
    <3> QED  BY <3>1, <3>2, <1>13
  <2>3. CASE n = e
    <3>1. Weight(n)' = 1 /\ f[n] = h[e] + 1
      BY <2>3, <1>11, <1>13, <1>14 DEF Weight
    <3>2. child[n][i] \in Ref /\ h[n] = h[child[n][i]] + 0 /\ h[child[n][i]] \in Nat
      BY <2>3, <1>3, <1>5, <1>6, <1>8, <1>12
    <3>3. child[n][i] \notin {q, s, e}
      BY <2>3, <1>3, <1>5, <1>8, <1>15
    <3>4. child'[n][i] = child[n][i]
      BY <2>3, <3>3, <1>8, <1>10
    <3>5. f[child'[n][i]] = h[child[n][i]]
      BY <3>2, <3>3, <3>4, <1>14
    <3> QED  BY <2>3, <3>1, <3>2, <3>5, <1>13
  <2>4. CASE n \notin {q, s, e}
    <3>1. h[n] = h[child[n][i]] + Weight(n) /\ h[child[n][i]] \in Nat /\ child[n][i] \notin {s, e}
          /\ child[n][i] \in Ref /\ n \in Ref /\ n \in Index /\ Weight(n) \in {0, 1}
      BY <2>4, <1>3, <1>5, <1>6, <1>8
    <3>2. f[n] = h[n] /\ Weight(n)' = Weight(n)
      BY <2>4, <3>1, <1>11, <1>14 DEF Weight
    <3>3. f[child'[n][i]] = h[child[n][i]]
      BY <2>4, <3>1, <1>10, <1>14
    <3> QED  BY <3>1, <3>2, <3>3
  <2> QED  BY <2>1, <2>2, <2>3, <2>4
<1>17. HeightLaws(f)'
  <2>1. \A n \in Hung', i \in Side : Deficit(n, i)' = 0
    BY <1>1 DEF Deficit, FixRemoveStep
  <2>2. ASSUME NEW n \in Hung', NEW i \in Side
        PROVE  f[n] = f[child'[n][i]] + Weight(n)' + 0
    <3>1. f[n] = f[child'[n][i]] + Weight(n)' /\ f[child'[n][i]] \in Nat
      BY <1>4, <1>16
    <3>2. Weight(n)' \in Nat
      BY DEF Weight
    <3> QED  BY <3>1, <3>2
  <2>3. f[None] = 0
    BY <1>3, <1>5, <1>6, <1>8, <1>14
  <2>4. ASSUME NEW t \in Trees, root'[t] # None PROVE black_height'[t] = f[root'[t]]
    <3>1. root[t] # s /\ root[t] # e /\ root[t] \in Ref
      BY <1>3, <1>5, <1>8
    <3>2. root[t] # None
      <4>1. root'[t] = IF root[t] = q THEN s ELSE root[t]
        BY <1>10
      <4>2. q # None
        BY <1>3, <1>5, <1>8
      <4> QED  BY <2>4, <4>1, <4>2
    <3>3. black_height[t] = h[root[t]] /\ black_height'[t] = black_height[t]
      BY <3>2, <1>1, <1>6
    <3>4. CASE root[t] = q
      <4>1. f[s] = h[q] /\ root'[t] = s
        BY <3>4, <1>14, <1>10
      <4> QED  BY <3>3, <3>4, <4>1
    <3>5. CASE root[t] # q
      <4>1. root'[t] = root[t] /\ f[root[t]] = h[root[t]]
        BY <3>1, <3>5, <1>14, <1>10
      <4> QED  BY <3>3, <4>1
    <3> QED  BY <3>4, <3>5
  <2> QED  BY <2>1, <2>2, <2>3, <2>4 DEF HeightLaws
<1>18. RedLaws'
  <2>1. ASSUME NEW n \in Hung, IsRed(n)', IsRed(parent[n])' PROVE FALSE
    <3>0. color'[n] = "Red" /\ parent'[n] # None /\ color'[parent'[n]] = "Red"
      BY <2>1 DEF IsRed
    <3>1. n # q /\ n # e /\ parent'[n] # q /\ parent'[n] # e /\ n # w
      BY <3>0, <1>5, <1>10, <1>11
    <3>2. CASE n = s
      <4>1. IsRed(q) /\ parent[q] # None /\ parent[q] \in Hung /\ parent'[n] = parent[q]
        BY <3>0, <3>2, <1>3, <1>5, <1>10, <1>11 DEF IsRed
      <4>2. parent[q] # s /\ parent[q] # q
        <5>1. Apart(parent, child, D, q)
          BY <1>3, OwnApart
        <5> QED  BY <5>1, <1>3, <1>5, <1>7 DEF Apart
      <4>3. IsRed(parent[q])
        BY <3>0, <4>1, <4>2, <1>5, <1>11, <1>15 DEF IsRed
      <4> QED  BY <4>1, <4>3, <1>3, <1>15
    <3>3. CASE n # s
      <4>1. parent'[n] = parent[n] /\ IsRed(n)
        BY <3>0, <3>1, <3>3, <1>5, <1>10, <1>11 DEF IsRed
      <4>2. parent[n] # s
        BY <3>1, <1>3, <1>5, <1>8, <1>w
      <4>3. IsRed(parent[n])
        BY <3>0, <3>1, <4>1, <4>2, <1>5, <1>11 DEF IsRed
      <4> QED  BY <3>1, <4>1, <4>3, <1>3
    <3> QED  BY <3>2, <3>3
  <2>2. ASSUME NEW t \in Trees, IsRed(root[t])' PROVE FALSE
    <3>1. root'[t] # None /\ color'[root'[t]] = "Red"
      BY <2>2 DEF IsRed
    <3>2. root[t] # s /\ root[t] # e /\ root[t] \in Hung \cup {None}
      BY <1>3, <1>5, <1>8
    <3>3. CASE root[t] = q
      BY <3>1, <3>3, <1>3, <1>5, <1>10, <1>11 DEF IsRed
    <3>4. CASE root[t] # q
      <4>1. root'[t] = root[t] /\ root[t] \in Index
        BY <3>1, <3>2, <3>4, <1>5, <1>10
      <4> QED  BY <3>1, <3>2, <3>4, <4>1, <1>3, <1>11 DEF IsRed
    <3> QED  BY <3>3, <3>4
  <2> QED  BY <2>1, <2>2, <1>4 DEF RedLaws
<1>19. RepairLaws'
  <2>1. parent'[node'] \in Hung' \cup {None}
    <3>1. node \notin {q, s, w}
      BY <1>3, <1>4, <1>5, <1>10
    <3> QED  BY <3>1, <1>1, <1>4, <1>10
  <2> QED  BY <2>1, <1>1 DEF RepairLaws, FixRemoveStep
<1> QED  BY <1>17, <1>18, <1>19 DEF BalanceLaws

(* No red nephew: the sibling turns red, and the parent has the deficit,   *)
(* unless it is red itself or the root.                                    *)
LEMMA FixRemoveRecolorBalance ==
  ASSUME TypeOK, TypeOK', NEW D \in [Ref -> SUBSET Index], NEW rk \in [Index -> Int],
         Laws(D, rk), NEW h \in [Ref -> Nat], BalanceLaws(h), FixRemoveRecolor
  PROVE  \E g \in [Ref -> Nat] : BalanceLaws(g)'
<1>0. PICK q, c, s, d, p, t0 :
        q = par /\ c = child[par][dir] /\ s = Sibling /\ d = dir /\ p = parent[par] /\ t0 = call.tree
  OBVIOUS
<1>w. PICK w, z : w = child[s][d] /\ z = child[s][1 - d]
  OBVIOUS
<1>1. /\ pc \in {"fix_remove", "black_sibling"} /\ pc # "idle"
      /\ pc \in FixRemoveStep /\ ~IsRed(s) /\ ~IsRed(w) /\ ~IsRed(z)
      /\ color' = [color EXCEPT ![s] = "Red", ![q] = "Black"]
      /\ UNCHANGED <<key, parent, child, root, call, node>>
  <2>1. RepairLaws
    BY DEF BalanceLaws
  <2> QED  BY <2>1, <1>0, <1>w DEF FixRemoveRecolor, AtBlackSibling, FixRemoveStep, data, links,
             RepairLaws, CloseNephew, FarNephew
<1>2. /\ pc' \in Unlinked
      /\ IsRed(q) => pc' = "unthread" /\ UNCHANGED black_height
      /\ ~IsRed(q) /\ p # None =>
           pc' = "fix_remove" /\ par' = p /\ dir' = SideOf(p, q) /\ UNCHANGED black_height
      /\ ~IsRed(q) /\ p = None =>
           pc' = "unthread" /\ black_height' = [black_height EXCEPT ![t0] = @ - 1]
  BY <1>0 DEF FixRemoveRecolor, MadeUp, AtTop, Unlinked
<1>3. RemoveSpot(q, c, s, d, h) /\ q \in D[root[t0]]
  BY <1>0, <1>1, AtRemoveSpot
<1>4. /\ q \in Hung /\ s \in Hung /\ s # q /\ s # c /\ d \in Side
      /\ child[q][d] = c /\ child[q][1 - d] = s /\ parent[s] = q /\ c # q /\ ~IsRed(c)
      /\ h[s] = h[c] + 1 /\ h[q] = h[s] + Weight(q) /\ h[c] \in Nat
      /\ \A n \in Hung, i \in Side : ~(n = q /\ i = d) => h[n] = h[child[n][i]] + Weight(n)
      /\ \A n \in Hung : ~(IsRed(n) /\ IsRed(parent[n]))
      /\ \A t \in Trees : ~IsRed(root[t])
  BY <1>1, <1>3 DEF RemoveSpot
<1>5. /\ Limbo' /\ Hung' = Hung /\ parent[node] \in Hung \cup {None}
  BY <1>1, <1>2, RemoveStay
<1>6. /\ Hung \subseteq Index /\ None \notin Index
      /\ \A n \in Hung : parent[n] \in Hung \cup {None} /\ parent[n] # n
      /\ \A n \in Hung : parent[n] # None => \E i \in Side : child[parent[n]][i] = n
      /\ \A n \in Hung, i \in Side : child[n][i] \in Hung \cup {None}
      /\ \A n \in Hung, i \in Side : child[n][i] # None => parent[child[n][i]] = n
      /\ \A n \in Hung, i, j \in Side : child[n][i] # None /\ i # j => child[n][i] # child[n][j]
      /\ \A t \in Trees : root[t] \in Hung \cup {None}
      /\ \A t \in Trees : root[t] # None => parent[root[t]] = None
  BY HungClosed
<1>7. /\ h[None] = 0 /\ \A n \in Ref : h[n] \in Nat
      /\ \A n \in Ref : Weight(n) \in {0, 1}
      /\ \A n \in Index : (IsRed(n) => Weight(n) = 0) /\ (~IsRed(n) => Weight(n) = 1)
      /\ \A t \in Trees : root[t] # None => black_height[t] = h[root[t]]
  BY Sums
<1>8. 1 - d \in Side /\ 1 - d # d
  BY <1>4
<1>9. /\ color'[s] = "Red" /\ color'[q] = "Black"
      /\ \A n \in Index \ {s, q} : color'[n] = color[n]
  BY <1>1, <1>4, <1>6 DEF TypeOK
<1>10. Weight(s) = 1 /\ Weight(s)' = 0 /\ Weight(q)' = 1 /\ Weight(q) \in {0, 1}
       /\ (IsRed(q) => Weight(q) = 0) /\ (~IsRed(q) => Weight(q) = 1) /\ c \in Ref
  BY <1>1, <1>4, <1>6, <1>7, <1>9 DEF Weight
<1>11. PICK f \in [Ref -> Nat] : /\ f[s] = h[c] /\ f[q] = h[c] + 1
                                 /\ \A n \in Ref \ {s, q} : f[n] = h[n]
  <2> DEFINE b == [n \in Ref |-> IF n = s THEN h[c] ELSE IF n = q THEN h[c] + 1 ELSE h[n]]
  <2>1. b \in [Ref -> Nat] /\ b[s] = h[c] /\ b[q] = h[c] + 1 /\ \A n \in Ref \ {s, q} : b[n] = h[n]
    BY <1>4, <1>6
  <2> HIDE DEF b
  <2> QED  BY <2>1
<1>12. h[q] = f[q] + Weight(q)
  BY <1>4, <1>10, <1>11
<1>13. ASSUME NEW n \in Hung, NEW i \in Side
       PROVE  f[n] = f[child[n][i]] + Weight(n)' + Deficit(n, i)'
  <2>0. i = d \/ i = 1 - d
    BY <1>4
  <2>d. Deficit(n, i)' = IF ~IsRed(q) /\ p # None /\ n = p /\ i = SideOf(p, q) THEN 1 ELSE 0
    BY <1>2 DEF Deficit, FixRemoveStep
  <2>p. p # q
    BY <1>0, <1>4, <1>6
  <2>1. CASE n = q
    <3>1. Weight(n)' = 1 /\ f[n] = h[c] + 1 /\ Deficit(n, i)' = 0
      BY <2>1, <2>d, <2>p, <1>10, <1>11
    <3>2. f[child[n][i]] = h[c]
      BY <2>0, <2>1, <1>4, <1>10, <1>11
    <3> QED  BY <3>1, <3>2, <1>4
  <2>2. CASE n = s
    <3>1. Weight(n)' = 0 /\ f[n] = h[c] /\ Deficit(n, i)' = 0
      <4>1. p # s
        <5>1. Apart(parent, child, D, q)
          BY <1>4, OwnApart
        <5> QED  BY <5>1, <1>0, <1>4, <1>6, <1>8 DEF Apart
      <4> QED  BY <2>2, <2>d, <4>1, <1>10, <1>11
    <3>2. h[s] = h[child[s][i]] + 1 /\ h[child[s][i]] \in Nat /\ child[s][i] \in Ref
      BY <1>4, <1>6, <1>7, <1>10
    <3>3. child[s][i] # s /\ child[s][i] # q
      <4>1. Apart(parent, child, D, q)
        BY <1>4, OwnApart
      <4> QED  BY <4>1, <1>4, <1>6, <1>8 DEF Apart
    <3>4. f[child[n][i]] = h[c]
      BY <2>2, <3>2, <3>3, <1>4, <1>11
    <3> QED  BY <3>1, <3>4, <1>4
  <2>3. CASE n \notin {q, s}
    <3>1. h[n] = h[child[n][i]] + Weight(n) /\ h[child[n][i]] \in Nat /\ child[n][i] # s
          /\ child[n][i] \in Ref /\ n \in Ref /\ n \in Index /\ Weight(n) \in {0, 1}
      BY <2>3, <1>4, <1>6, <1>7
    <3>2. f[n] = h[n] /\ Weight(n)' = Weight(n)
      BY <2>3, <3>1, <1>9, <1>11 DEF Weight
    <3>3. CASE child[n][i] = q
      <4>1. n = p /\ p # None /\ i = SideOf(p, q)
        <5>1. n = p /\ p # None
          BY <3>3, <1>0, <1>4, <1>6
        <5>2. SideOf(p, q) \in Side /\ child[p][SideOf(p, q)] = q
          BY <3>3, <5>1 DEF SideOf
        <5> QED  BY <3>3, <5>1, <5>2, <1>4, <1>6
      <4>2. Deficit(n, i)' = Weight(q)
        BY <4>1, <2>d, <1>10
      <4>3. f[q] \in Nat /\ h[q] = f[q] + Weight(q)
        BY <1>12, <1>4, <1>6
      <4> QED  BY <3>1, <3>2, <3>3, <4>2, <4>3, <1>10
    <3>4. CASE child[n][i] # q
      <4>1. Deficit(n, i)' = 0
        <5>1. p # None => child[p][SideOf(p, q)] = q
          BY <1>0, <1>4, <1>6 DEF SideOf
        <5> QED  BY <5>1, <2>d, <3>4
      <4>2. f[child[n][i]] = h[child[n][i]]
        BY <3>1, <3>4, <1>11
      <4> QED  BY <3>1, <3>2, <4>1, <4>2
    <3> QED  BY <3>3, <3>4
  <2> QED  BY <2>1, <2>2, <2>3
<1>14. InTree(Hung, parent, child, root, D, t0, D[root[t0]]) /\ t0 \in Trees
  BY <1>0, <1>1, OwnCall
<1>15. HeightLaws(f)'
  <2>1. \A n \in Hung', i \in Side : f[n] = f[child'[n][i]] + Weight(n)' + Deficit(n, i)'
    BY <1>1, <1>5, <1>13
  <2>2. f[None] = 0
    BY <1>4, <1>6, <1>7, <1>11
  <2>3. ASSUME NEW t \in Trees, root'[t] # None PROVE black_height'[t] = f[root'[t]]
    <3>1. root[t] # s /\ root[t] \in Ref /\ root'[t] = root[t] /\ black_height[t] = h[root[t]]
      BY <2>3, <1>1, <1>4, <1>6, <1>7
    <3>2. CASE root[t] = q
      <4>1. p = None /\ t = t0
        <5>1. p = None
          BY <3>2, <1>0, <1>4, <1>6
        <5>2. t = t0
          BY <3>2, <1>3, <1>14 DEF InTree
        <5> QED  BY <5>1, <5>2
      <4>2. ~IsRed(q) /\ Weight(q) = 1 /\ h[q] = f[q] + 1 /\ f[q] \in Nat
        <5>1. ~IsRed(q)
          BY <3>2, <1>4
        <5> QED  BY <5>1, <1>4, <1>6, <1>10, <1>12
      <4>3. black_height'[t] = black_height[t] - 1
        BY <4>1, <4>2, <1>2, <1>14 DEF TypeOK
      <4> QED  BY <3>1, <3>2, <4>2, <4>3
    <3>3. CASE root[t] # q
      <4>1. f[root'[t]] = h[root[t]]
        BY <3>1, <3>3, <1>11
      <4>2. black_height'[t] = black_height[t]
        <5>1. CASE ~IsRed(q) /\ p = None
          <6>1. q = root[t0]
            BY <5>1, <1>0, <1>3, <1>14 DEF InTree
          <6>2. t # t0
            BY <6>1, <3>3
          <6> QED  BY <5>1, <6>2, <1>2, <1>14 DEF TypeOK
        <5>2. CASE ~(~IsRed(q) /\ p = None)
          BY <5>2, <1>2
        <5> QED  BY <5>1, <5>2
      <4> QED  BY <3>1, <4>1, <4>2
    <3> QED  BY <3>2, <3>3
  <2> QED  BY <2>1, <2>2, <2>3 DEF HeightLaws
<1>16. RedLaws'
  <2>1. ASSUME NEW n \in Hung, IsRed(n)', IsRed(parent[n])' PROVE FALSE
    <3>0. color'[n] = "Red" /\ parent[n] # None /\ color'[parent[n]] = "Red" /\ n \in Index
      BY <2>1, <1>1, <1>6 DEF IsRed
    <3>1. n # q /\ parent[n] # q /\ n # s
      BY <3>0, <1>4, <1>9
    <3>2. IsRed(n)
      BY <3>0, <3>1, <1>6, <1>9 DEF IsRed
    <3>3. parent[n] # s
      BY <3>2, <1>1, <1>4, <1>6, <1>w
    <3>4. IsRed(parent[n])
      BY <3>0, <3>1, <3>3, <1>6, <1>9 DEF IsRed
    <3> QED  BY <3>2, <3>4, <1>4
  <2>2. ASSUME NEW t \in Trees, IsRed(root[t])' PROVE FALSE
    <3>1. root[t] # None /\ color'[root[t]] = "Red"
      BY <2>2, <1>1 DEF IsRed
    <3>2. root[t] \in Index /\ root[t] # s /\ root[t] # q
      BY <3>1, <1>4, <1>6, <1>9
    <3> QED  BY <3>1, <3>2, <1>4, <1>9 DEF IsRed
  <2> QED  BY <2>1, <2>2, <1>5 DEF RedLaws
<1>17. RepairLaws'
  <2>1. pc' \in FixRemoveStep => pc' = "fix_remove" /\ ~IsRed(child[par][dir])'
    <3> SUFFICES ASSUME pc' \in FixRemoveStep
                 PROVE  pc' = "fix_remove" /\ ~IsRed(child[par][dir])'
      OBVIOUS
    <3>1. pc' = "fix_remove" /\ par' = p /\ dir' = SideOf(p, q) /\ p # None
      BY <1>2 DEF FixRemoveStep
    <3>2. child'[p][SideOf(p, q)] = q
      BY <3>1, <1>0, <1>1, <1>4, <1>6 DEF SideOf
    <3> QED  BY <3>1, <3>2, <1>9 DEF IsRed
  <2>2. parent'[node'] \in Hung' \cup {None}
    BY <1>1, <1>5
  <2>3. pc' # "fix_insert" /\ pc' # "rotate_outer"
    BY <1>2 DEF Unlinked
  <2>4. pc' \in {"black_sibling", "red_far_nephew"} => pc' \in FixRemoveStep
    BY DEF FixRemoveStep
  <2> QED  BY <2>1, <2>2, <2>3, <2>4 DEF RepairLaws
<1> QED  BY <1>15, <1>16, <1>17 DEF BalanceLaws

(* At first there is nothing to balance.                                   *)
LEMMA InitBalance == Init => BalanceHolds
<1> SUFFICES ASSUME Init PROVE BalanceHolds
  OBVIOUS
<1>1. PICK h \in [Ref -> Nat] : \A n \in Ref : h[n] = 0
  <2> DEFINE f == [n \in Ref |-> 0]
  <2>1. f \in [Ref -> Nat] /\ \A n \in Ref : f[n] = 0
    OBVIOUS
  <2> HIDE DEF f
  <2> QED  BY <2>1
<1>2. Hung = {} /\ pc = "idle" /\ ~Limbo
  BY HungLive DEF Init, Live, Limbo, Unlinked
<1>3. HeightLaws(h)
  BY <1>1, <1>2 DEF HeightLaws, Init
<1>4. RedLaws /\ RepairLaws
  BY <1>2 DEF RedLaws, RepairLaws, FixRemoveStep, Init, IsRed
<1> QED  BY <1>3, <1>4 DEF BalanceHolds, BalanceLaws

(* A stuttering step.                                                      *)
LEMMA StutterBalance ==
  ASSUME TypeOK, NEW h \in [Ref -> Nat], BalanceLaws(h), UNCHANGED vars
  PROVE  BalanceLaws(h)'
<1> USE DEF vars
<1>1. Hung' = Hung /\ (Limbo' <=> Limbo)
  BY DEF Hung, Live, Limbo
<1>2. HeightLaws(h)'
  BY <1>1 DEF BalanceLaws, HeightLaws, Weight, Deficit
<1>3. RedLaws'
  BY <1>1 DEF BalanceLaws, RedLaws, IsRed, RedRedAllowed, FarNephew, Sibling
<1>4. RepairLaws'
  BY <1>1 DEF BalanceLaws, RepairLaws, IsRed, Grandparent, Uncle, UncleSide, SideOf, Sibling, FarNephew
<1> QED  BY <1>2, <1>3, <1>4 DEF BalanceLaws

(* Every step finds heights that make the laws true again.                 *)
LEMMA StepBalance ==
  ASSUME TypeOK, TypeOK', NEW D \in [Ref -> SUBSET Index], NEW rk \in [Index -> Int],
         Laws(D, rk), NEW h \in [Ref -> Nat], BalanceLaws(h), [Next]_vars
  PROVE  \E g \in [Ref -> Nat] : BalanceLaws(g)'
<1>1. CASE \E op \in Op, t \in Trees, k \in Keys, v \in Values \cup {None} : CallOp(op, t, k, v)
  BY <1>1, QuietBalance
<1>2. CASE Relink
  <2>1. CASE Descend \/ Propagate \/ RemoveHere \/ Unthread
    BY <2>1, QuietBalance
  <2>2. CASE FixInsertDone
    BY <2>2, FixInsertDoneBalance
  <2>3. CASE FixInsertRecolor
    BY <2>3, FixInsertRecolorBalance
  <2>4. CASE FixInsertInner
    BY <2>4, FixInsertInnerBalance
  <2>5. CASE FixInsertOuter
    BY <2>5, FixInsertOuterBalance
  <2>6. CASE Blacken
    BY <2>6, BlackenBalance
  <2>7. CASE \E i \in Side : UnlinkOneChild(i)
    <3>1. \E g \in [Ref -> Nat] : BalanceLaws(g)'
      <4> HIDE DEF Side, Ref
      <4> QED  BY <2>7, OneChildBalance
    <3> QED  BY <3>1
  <2>8. CASE UnlinkLeaf
    BY <2>8, LeafBalance
  <2>9. CASE UnlinkLast
    BY <2>9, UnlinkLastBalance
  <2>10. CASE FixRemoveRedSibling
    BY <2>10, FixRemoveRedSiblingBalance
  <2>11. CASE FixRemoveCloseNephew
    BY <2>11, FixRemoveCloseNephewBalance
  <2>12. CASE FixRemoveFarNephew
    BY <2>12, FixRemoveFarNephewBalance
  <2>13. CASE FixRemoveRecolor
    BY <2>13, FixRemoveRecolorBalance
  <2> HIDE DEF Side, Ref
  <2> QED  BY <1>2, <2>1, <2>2, <2>3, <2>4, <2>5, <2>6, <2>7, <2>8, <2>9, <2>10, <2>11, <2>12, <2>13
           DEF Relink
<1>3. CASE Get \/ Search \/ InsertHere \/ RemoveMiss
  BY <1>3, QuietBalance
<1>4. ASSUME NEW n \in Index \ Live, InsertEmpty(n)
      PROVE  \E g \in [Ref -> Nat] : BalanceLaws(g)'
  BY <1>4, InsertEmptyBalance
<1>5. ASSUME NEW n \in Index \ Live, InsertAt(n)
      PROVE  \E g \in [Ref -> Nat] : BalanceLaws(g)'
  BY <1>5, InsertHangs, HangAnyBalance
<1>6. CASE Free
  BY <1>6, FreeIsAny, FreeBalance
<1>7. CASE UNCHANGED vars
  BY <1>7, StutterBalance
<1>8. Next => \/ \E op \in Op, t \in Trees, k \in Keys, v \in Values \cup {None} : CallOp(op, t, k, v)
              \/ Step
  BY DEF Next, Op
<1> HIDE DEF Side, Ref
<1> QED  BY <1>1, <1>2, <1>3, <1>4, <1>5, <1>6, <1>7, <1>8 DEF Step

(* At every step of every call the trees are red-black but for the one     *)
(* place where the running loop works, every black height in Bounds is the *)
(* one of its tree, and the branches of fix_insert and fix_remove find what*)
(* the code before them has established.                                   *)
THEOREM BalanceCorrect == Spec => [](TypeOK /\ LawsHold /\ BalanceHolds)
<1>1. Init => TypeOK /\ LawsHold /\ BalanceHolds
  BY InitType, InitLaws, InitBalance
<1>2. TypeOK /\ LawsHold /\ BalanceHolds /\ [Next]_vars => (TypeOK /\ LawsHold /\ BalanceHolds)'
  <2> SUFFICES ASSUME TypeOK, LawsHold, BalanceHolds, [Next]_vars
               PROVE  TypeOK' /\ LawsHold' /\ BalanceHolds'
    OBVIOUS
  <2>1. TypeOK'
    BY NextType
  <2>2. PICK D \in [Ref -> SUBSET Index], rk \in [Index -> Int] : Laws(D, rk)
    BY DEF LawsHold
  <2>3. PICK h \in [Ref -> Nat] : BalanceLaws(h)
    BY DEF BalanceHolds
  <2>4. \E E \in [Ref -> SUBSET Index], s \in [Index -> Int] : Laws(E, s)'
    BY <2>1, <2>2, StepLaws
  <2>5. \E g \in [Ref -> Nat] : BalanceLaws(g)'
    BY <2>1, <2>2, <2>3, StepBalance
  <2> QED  BY <2>1, <2>4, <2>5 DEF LawsHold, BalanceHolds
<1> QED  BY <1>1, <1>2, PTL DEF Spec

-----------------------------------------------------------------------------
(* Every unwrap of tree/mod.rs finds what its SAFETY comment promises.     *)
LEMMA LawsNoPanic ==
  ASSUME TypeOK, LawsHold, BalanceHolds
  PROVE  NoPanic
<1>1. PICK D \in [Ref -> SUBSET Index], rk \in [Index -> Int] : Laws(D, rk)
  BY DEF LawsHold
<1>2. PICK h \in [Ref -> Nat] : BalanceLaws(h)
  BY DEF BalanceHolds
<1>3. RepairLaws /\ None \notin Index /\ Hung \subseteq Index
  BY <1>2, HungLive, NoneAssumption DEF BalanceLaws
<1>4. pc # "idle" =>
        /\ SearchLaws(Own(D), D) /\ UpdateLaws(Own(D)) /\ Own(D) = D[root[call.tree]]
        /\ InTree(Hung, parent, child, root, D, call.tree, Own(D)) /\ call.tree \in Trees
  BY <1>1, OwnCall
<1>5. pc = "fix_insert" => parent[ptr] # None
  BY <1>3 DEF RepairLaws
<1>6. pc = "fix_insert" /\ IsRed(parent[ptr]) => Grandparent # None
  <2>1. SUFFICES ASSUME pc = "fix_insert", IsRed(parent[ptr]) PROVE Grandparent # None
    OBVIOUS
  <2>2. InsertSpot(ptr, parent[ptr], Grandparent, UncleSide, h)
    BY <1>1, <1>2, <2>1, AtInsertSpot
  <2> QED  BY <2>2, <1>3 DEF InsertSpot
<1>7. pc = "rotate_outer" => parent[ptr] # None /\ Grandparent # None
  BY <1>3 DEF RepairLaws, IsRed
<1>8. pc = "blacken" => root[call.tree] # None
  <2>1. SUFFICES ASSUME pc = "blacken" PROVE root[call.tree] # None
    OBVIOUS
  <2>2. node \in Own(D)
    BY <2>1, <1>4 DEF UpdateLaws, Inserting, InsertStep
  <2> QED  BY <2>1, <2>2, <1>4 DEF InTree
<1>9. pc \in FixRemoveStep => par # None /\ Sibling # None
  <2>1. SUFFICES ASSUME pc \in FixRemoveStep PROVE par # None /\ Sibling # None
    OBVIOUS
  <2>2. RemoveSpot(par, child[par][dir], Sibling, dir, h)
    BY <1>1, <1>2, <2>1, AtRemoveSpot
  <2> QED  BY <2>2, <1>3 DEF RemoveSpot
<1>10. /\ pc = "black_sibling" => ~IsRed(Sibling)
       /\ pc = "red_far_nephew" => IsRed(FarNephew)
  BY <1>3 DEF RepairLaws
<1>11. pc = "Here" /\ (\A i \in Side : child[ptr][i] # None) =>
         order[ptr][1] # None /\ child[order[ptr][1]][0] = None
  <2>0. SUFFICES ASSUME pc = "Here", \A i \in Side : child[ptr][i] # None
                 PROVE  order[ptr][1] # None /\ child[order[ptr][1]][0] = None
    OBVIOUS
  <2>1. PICK A, t0 : A = Own(D) /\ t0 = call.tree
    OBVIOUS
  <2>2. /\ A = D[root[t0]] /\ ptr \in A /\ A \subseteq Hung /\ t0 \in Trees
        /\ InTree(Hung, parent, child, root, D, t0, A)
    <3>1. ptr \in A
      BY <2>0, <2>1, <1>4 DEF SearchLaws
    <3> QED  BY <3>1, <2>0, <2>1, <1>4 DEF InTree
  <2>3. Thread(A, order, range[t0], rk)
    BY <2>0, <2>2, <1>1 DEF Laws, StringLaws, Strung, Unlinked
  <2>4. order[ptr][1] # None
    <3>1. PICK c : c = child[ptr][1]
      OBVIOUS
    <3>2. c # None /\ c \in A /\ c \in D[c]
      BY <3>1, <2>0, <2>2 DEF InTree
    <3>3. Sorted(Hung, child, root, D, rk)
      BY <1>1 DEF Laws, LinkLaws, Shape
    <3>4. Before(1, rk[c], rk[ptr])
      BY <3>1, <3>2, <3>3, <2>2 DEF Sorted
    <3> QED  BY <3>2, <3>4, <2>2, <2>3 DEF Thread
  <2>5. Succeeds(child, order, ptr)
    <3>1. Shape(Hung, parent, child, root, D, rk)
      BY <1>1 DEF Laws, LinkLaws
    <3>2. /\ parent \in [Index -> Ref] /\ child \in [Index -> [Side -> Ref]]
          /\ root \in [Trees -> Ref] /\ Hung \in SUBSET Index /\ order \in [Index -> [Side -> Ref]]
          /\ range[t0] \in [Side -> Ref]
      BY <2>2, HungLive DEF TypeOK
    <3> HIDE DEF Side, Ref
    <3> QED  BY <3>1, <3>2, <2>2, <2>3, Successor
  <2> QED  BY <2>0, <2>4, <2>5 DEF Succeeds
<1>12. pc = "unlink" => \E i \in Side : child[node][i] = None
  BY <1>4 DEF UpdateLaws
<1>13. /\ pc = "LeftOf" => child[ptr][0] = None
       /\ pc = "RightOf" => child[ptr][1] = None
  BY <1>4 DEF SearchLaws, Frontier
<1>14. pc = "descend" => ptr # None
  <2>1. SUFFICES ASSUME pc = "descend" PROVE ptr # None
    OBVIOUS
  <2>2. ptr \in Own(D)
    BY <2>1, <1>4 DEF SearchLaws
  <2> QED  BY <2>1, <2>2, <1>3, <1>4 DEF InTree
<1> QED  BY <1>5, <1>6, <1>7, <1>8, <1>9, <1>10, <1>11, <1>12, <1>13, <1>14 DEF NoPanic

(* No call panics half way: where tree/mod.rs unwraps a parent, a          *)
(* grandparent, a sibling, a nephew, a root or a successor there is one,   *)
(* and the arms that remove_at declares unreachable are.                   *)
THEOREM PanicFree == Spec => []NoPanic
<1>1. TypeOK /\ LawsHold /\ BalanceHolds => NoPanic
  BY LawsNoPanic
<1> QED  BY <1>1, BalanceCorrect, LawsCorrect, PTL

-----------------------------------------------------------------------------
(* The nodes on the way up from n are those whose subtrees n is in.        *)
LEMMA PathIs ==
  ASSUME TypeOK, NEW D \in [Ref -> SUBSET Index], NEW rk \in [Index -> Int], Laws(D, rk),
         NEW n \in Hung, NEW c \in Hung \cup {None}
  PROVE  c \in Path(n) <=> n \in D[c]
<1>1. Shape(Hung, parent, child, root, D, rk)
  BY DEF Laws, LinkLaws
<1>2. /\ Linked(Hung, parent, child) /\ NoCycle(Hung, parent)
      /\ Descends(Hung, parent, child, D)
  BY <1>1 DEF Shape
<1>3. Hung \subseteq Index /\ None \notin Index /\ n \in Index
  BY HungClosed
<1>4. PICK X \in SUBSET Ref :
           /\ n \in X /\ \A m \in X : Parents(m) \subseteq X
           /\ \A Y \in SUBSET Ref : n \in Y /\ (\A m \in Y : Parents(m) \subseteq Y) => X \subseteq Y
           /\ Path(n) = X \ {None}
  <2>1. n \in Ref /\ parent \in [Index -> Ref]
    BY <1>3 DEF TypeOK
  <2> HIDE DEF Side, Ref
  <2> QED  BY <2>1, RefFinite, PathLeast
<1>5. X \subseteq Hung \cup {None}
  <2>1. Hung \cup {None} \in SUBSET Ref /\ n \in Hung \cup {None}
    BY <1>3
  <2>2. \A m \in Hung \cup {None} : Parents(m) \subseteq Hung \cup {None}
    BY <1>2, <1>3 DEF Linked, Parents
  <2> QED  BY <2>1, <2>2, <1>4
<1>6. CASE c = None
  <2>1. c \notin Path(n)
    BY <1>4, <1>6
  <2>2. n \notin D[c]
    BY <1>2, <1>6 DEF Descends
  <2> QED  BY <2>1, <2>2
<1>7. CASE c \in Hung
  <2>1. c \in D[c] /\ D[c] \subseteq Hung /\ c # None
    BY <1>2, <1>3, <1>7 DEF Descends
  <2>2. ASSUME n \notin D[c] PROVE c \notin Path(n)
    <3> DEFINE Y == (Hung \ D[c]) \cup {None}
    <3>1. Y \in SUBSET Ref /\ n \in Y
      BY <1>3, <2>2
    <3>2. ASSUME NEW m \in Y PROVE Parents(m) \subseteq Y
      <4>1. CASE m = None
        BY <4>1 DEF Parents
      <4>2. CASE m # None
        <5>1. m \in Hung /\ m \notin D[c]
          BY <4>2
        <5>2. parent[m] # None => parent[m] \in Hung /\ \E s \in Side : child[parent[m]][s] = m
          BY <5>1, <1>2 DEF Linked
        <5>3. ASSUME parent[m] # None PROVE parent[m] \notin D[c]
          <6>1. parent[m] \in Hung /\ m \in D[m]
            BY <5>1, <5>2, <5>3, <1>2 DEF Descends
          <6>2. m \in D[parent[m]]
            <7>1. D[parent[m]] = {parent[m]} \cup D[child[parent[m]][0]] \cup D[child[parent[m]][1]]
              BY <6>1, <1>2 DEF Descends
            <7> QED  BY <5>2, <5>3, <6>1, <7>1
          <6> QED  BY <5>1, <6>2, <1>2, <1>7 DEF Descends
        <5> QED  BY <4>2, <5>2, <5>3 DEF Parents
      <4> QED  BY <4>1, <4>2
    <3> HIDE DEF Y
    <3>3. X \subseteq Y
      BY <3>1, <3>2, <1>4
    <3> QED  BY <3>3, <2>1, <1>4 DEF Y
  <2>3. ASSUME n \in D[c] PROVE c \in Path(n)
    <3>1. SUFFICES ASSUME c \notin X PROVE FALSE
      BY <2>1, <1>4
    <3> DEFINE S == D[c] \cap X
    <3>2. S \in SUBSET Hung /\ S # {}
      BY <2>1, <2>3, <1>4
    <3>3. PICK m \in S : parent[m] \notin S
      BY <3>2, <1>2 DEF NoCycle
    <3>4. parent[m] \in D[c]
      BY <3>1, <3>3, <1>2, <1>7 DEF Descends
    <3>5. parent[m] \in X
      BY <3>2, <3>3, <1>3, <1>4 DEF Parents
    <3> QED  BY <3>3, <3>4, <3>5
  <2> QED  BY <2>2, <2>3
<1> QED  BY <1>6, <1>7

(* The function that BlackDepth defines by itself, as a map.               *)
DepthFn(f) ==
  [m \in Ref |-> IF m = None THEN 0 ELSE (IF IsRed(m) THEN 0 ELSE 1) + f[parent[m]]]

(* One black node less, above a node on the short side.                    *)
Short(D, n) == IF pc \in FixRemoveStep /\ n \in D[child[par][dir]] THEN 1 ELSE 0
(* The tree a node hangs in.                                               *)
TreeOf(D, n) == CHOOSE t \in Trees : n \in D[root[t]]
(* The black nodes from n up, counted from below.                          *)
Above(D, h, n) == black_height[TreeOf(D, n)] - h[n] + Weight(n) - Short(D, n)

(* A node and its parent are on the same side of the short side's top, but *)
(* for that top.                                                           *)
LEMMA ShortStep ==
  ASSUME TypeOK, NEW D \in [Ref -> SUBSET Index], NEW rk \in [Index -> Int], Laws(D, rk),
         NEW h \in [Ref -> Nat], BalanceLaws(h), NEW p \in Hung, NEW s \in Side,
         child[p][s] # None
  PROVE  Short(D, child[p][s]) = Short(D, p) + Deficit(p, s)
<1>0. PICK n, c : n = child[p][s] /\ c = child[par][dir]
  OBVIOUS
<1>1. CASE pc \notin FixRemoveStep
  BY <1>1 DEF Short, Deficit
<1>2. CASE pc \in FixRemoveStep
  <2>1. /\ n \in Hung /\ parent[n] = p /\ None \notin Index
        /\ \A m \in Hung, i, j \in Side : child[m][i] # None /\ i # j => child[m][i] # child[m][j]
        /\ \A m \in Hung, i \in Side : child[m][i] # None => parent[child[m][i]] = m
        /\ \A m \in Hung, i \in Side : child[m][i] \in Hung \cup {None}
    BY <1>0, HungClosed
  <2>2. Descends(Hung, parent, child, D)
    BY DEF Laws, LinkLaws, Shape
  <2>3. par \in Hung /\ dir \in Side
    BY <1>2, Sums DEF TypeOK
  <2>4. CASE p = par /\ s = dir
    <3>1. n \in D[c] /\ Deficit(p, s) = 1
      BY <1>0, <1>2, <2>1, <2>2, <2>4 DEF Descends, Deficit
    <3>2. p \notin D[c]
      <4>1. Apart(parent, child, D, par)
        BY <2>3, OwnApart
      <4> QED  BY <4>1, <1>0, <2>3, <2>4 DEF Apart
    <3> QED  BY <3>1, <3>2, <1>0, <1>2 DEF Short
  <2>5. CASE ~(p = par /\ s = dir)
    <3>1. Deficit(p, s) = 0
      BY <2>5 DEF Deficit
    <3>2. n # c
      BY <1>0, <2>1, <2>3, <2>5
    <3>3. n \in D[c] <=> p \in D[c]
      <4>1. CASE c = None
        BY <4>1, <2>2 DEF Descends
      <4>2. CASE c # None
        <5>1. c \in Hung
          BY <4>2, <1>0, <2>1, <2>3
        <5>2. n \in D[c] => p \in D[c]
          BY <5>1, <3>2, <2>1, <2>2 DEF Descends
        <5>3. p \in D[c] => n \in D[c]
          <6>1. n \in D[n] /\ D[n] \subseteq D[p]
            BY <1>0, <2>1, <2>2 DEF Descends
          <6> QED  BY <5>1, <6>1, <2>2 DEF Descends
        <5> QED  BY <5>2, <5>3
      <4> QED  BY <4>1, <4>2
    <3> QED  BY <3>1, <3>3, <1>0, <1>2 DEF Short
  <2> QED  BY <2>4, <2>5
<1> QED  BY <1>1, <1>2

(* Counted from below or from above, it is the same number.                *)
LEMMA AboveStep ==
  ASSUME TypeOK, NEW D \in [Ref -> SUBSET Index], NEW rk \in [Index -> Int], Laws(D, rk),
         NEW h \in [Ref -> Nat], BalanceLaws(h), NEW n \in Hung
  PROVE  /\ Above(D, h, n) \in Int
         /\ parent[n] = None => Above(D, h, n) = Weight(n)
         /\ parent[n] # None => Above(D, h, n) = Weight(n) + Above(D, h, parent[n])
         /\ \A t \in Trees : n \in D[root[t]] => TreeOf(D, n) = t
<1>0. PICK t0 \in Trees : n \in D[root[t0]]
  BY DEF Laws, LinkLaws, Shape, Rooted
<1>a. \A t \in Trees : InTree(Hung, parent, child, root, D, t, D[root[t]])
  BY OwnTree
<1>1. \A m, t : t \in Trees /\ m \in D[root[t]] => TreeOf(D, m) = t
  <2> SUFFICES ASSUME NEW m, NEW t \in Trees, m \in D[root[t]] PROVE TreeOf(D, m) = t
    OBVIOUS
  <2>1. TreeOf(D, m) \in Trees /\ m \in D[root[TreeOf(D, m)]]
    BY DEF TreeOf
  <2>2. PICK u : u = TreeOf(D, m)
    OBVIOUS
  <2> QED  BY <2>1, <2>2, <1>a DEF InTree
<1>2. /\ \A m \in Ref : h[m] \in Nat /\ Weight(m) \in {0, 1}
      /\ \A t \in Trees : root[t] # None => black_height[t] = h[root[t]]
  BY Sums
<1>3. /\ Hung \subseteq Index /\ None \notin Index
      /\ parent[n] \in Hung \cup {None}
      /\ parent[n] # None => \E s \in Side : child[parent[n]][s] = n
  BY HungClosed
<1>4. \A m \in Ref : Short(D, m) \in {0, 1}
  BY DEF Short
<1>5. n \in Ref /\ black_height[t0] \in Int /\ TreeOf(D, n) = t0
  BY <1>0, <1>1, <1>3 DEF TypeOK
<1>6. Above(D, h, n) \in Int
  BY <1>2, <1>4, <1>5 DEF Above
<1>7. ASSUME parent[n] = None PROVE Above(D, h, n) = Weight(n)
  <2>1. n = root[t0]
    BY <1>0, <1>7, <1>a DEF InTree
  <2>2. Short(D, n) = 0
    <3>1. SUFFICES ASSUME pc \in FixRemoveStep, n \in D[child[par][dir]] PROVE FALSE
      BY DEF Short
    <3>2. PICK c : c = child[par][dir]
      OBVIOUS
    <3>3. par \in Hung /\ dir \in Side
      BY <3>1, Sums DEF TypeOK
    <3>4. Descends(Hung, parent, child, D)
      BY DEF Laws, LinkLaws, Shape
    <3>5. c # None
      BY <3>1, <3>2, <3>4 DEF Descends
    <3>6. c \in Hung /\ parent[c] = par
      BY <3>2, <3>3, <3>5, HungClosed
    <3>7. n = c \/ parent[n] \in D[c]
      BY <3>1, <3>2, <3>4, <3>6 DEF Descends
    <3>8. D[c] \subseteq Hung
      BY <3>4, <3>6 DEF Descends
    <3> QED  BY <3>3, <3>6, <3>7, <3>8, <1>3, <1>7
  <2>3. black_height[t0] = h[n] /\ h[n] \in Nat /\ Weight(n) \in {0, 1}
    <3>1. root[t0] # None
      BY <2>1, <1>3
    <3> QED  BY <3>1, <2>1, <1>2, <1>5
  <2> QED  BY <2>2, <2>3, <1>5 DEF Above
<1>8. ASSUME parent[n] # None PROVE Above(D, h, n) = Weight(n) + Above(D, h, parent[n])
  <2>0. PICK p : p = parent[n]
    OBVIOUS
  <2>1. PICK s \in Side : p = parent[n] /\ child[p][s] = n
    BY <2>0, <1>3, <1>8
  <2>2. p \in Hung /\ p \in Ref /\ n # None
    BY <2>1, <1>3, <1>8
  <2>3. Short(D, n) = Short(D, p) + Deficit(p, s)
    BY <2>1, <2>2, ShortStep
  <2>4. HeightLaws(h)
    BY DEF BalanceLaws
  <2>5. h[p] = h[n] + Weight(p) + Deficit(p, s)
    BY <2>1, <2>2, <2>4 DEF HeightLaws
  <2>6. TreeOf(D, p) = t0
    BY <2>1, <1>0, <1>1, <1>8, <1>a DEF InTree
  <2>7. Deficit(p, s) \in {0, 1}
    BY DEF Deficit
  <2>8. h[n] \in Nat /\ h[p] \in Nat /\ Weight(n) \in {0, 1} /\ Weight(p) \in {0, 1}
        /\ Short(D, p) \in {0, 1}
    BY <2>2, <1>2, <1>4, <1>5
  <2>9. Above(D, h, n) = black_height[t0] - h[n] + Weight(n) - Short(D, n)
    BY <1>5 DEF Above
  <2>10. Above(D, h, p) = black_height[t0] - h[p] + Weight(p) - Short(D, p)
    BY <2>6 DEF Above
  <2> HIDE DEF Short, Deficit, Weight, Above
  <2>11. Above(D, h, n) = Weight(n) + Above(D, h, p)
    BY <2>3, <2>5, <2>7, <2>8, <2>9, <2>10, <1>5
  <2> QED  BY <2>1, <2>11
<1> QED  BY <1>1, <1>6, <1>7, <1>8

(* Where going up P comes to an end, weights can be summed up.             *)
Weighed(L, P, w, B0) == /\ None \notin Index /\ L \in SUBSET Index /\ NoCycle(L, P)
                        /\ P \in [Index -> Ref] /\ w \in [Index -> Int] /\ B0 \in [Ref -> Int]
SummedUp(L, P, w, B0) == \E B \in [Ref -> Int] : /\ \A m \in Ref \ L : B[m] = B0[m]
                                                 /\ \A m \in L : B[m] = w[m] + B[P[m]]
LEMMA SumUp ==
  ASSUME NEW L, NEW P, NEW w, NEW B0, Weighed(L, P, w, B0)
  PROVE  SummedUp(L, P, w, B0)
<1>0. /\ None \notin Index /\ L \in SUBSET Index /\ NoCycle(L, P)
      /\ P \in [Index -> Ref] /\ w \in [Index -> Int] /\ B0 \in [Ref -> Int]
  BY DEF Weighed
<1> DEFINE Sum(B, R) == /\ \A m \in Ref \ L : B[m] = B0[m]
                        /\ \A m \in R : B[m] = w[m] + B[P[m]]
           Good == {R \in SUBSET L : /\ \A m \in R : P[m] \notin L \ R
                                     /\ \E B \in [Ref -> Int] : Sum(B, R)}
<1>1. IsFiniteSet(L)
  BY <1>0, IndexAssumption, FS_Subset
<1>2. Good \in SUBSET SUBSET L /\ Good # {}
  <2>1. Sum(B0, {})
    BY <1>0
  <2>2. {} \in Good
    BY <2>1, <1>0
  <2> QED  BY <2>2
<1>3. PICK R \in Good : \A N \in Good : R \subseteq N => N = R
  <2> HIDE DEF Good
  <2> QED  BY <1>1, <1>2, AscentEnds
<1>4. R \subseteq L /\ \A m \in R : P[m] \notin L \ R
  OBVIOUS
<1>5. PICK B \in [Ref -> Int] : Sum(B, R)
  OBVIOUS
<1>6. ASSUME R # L PROVE FALSE
  <2>1. L \ R # {} /\ L \ R \in SUBSET L
    BY <1>4, <1>6
  <2>2. PICK n \in L \ R : P[n] \notin L \ R
    BY <2>1, <1>0 DEF NoCycle
  <2>3. n \in Ref /\ P[n] \in Ref /\ P[n] # n /\ w[n] + B[P[n]] \in Int
    BY <2>2, <1>0, <1>5 DEF Ref
  <2>4. PICK C \in [Ref -> Int] :
           C[n] = w[n] + B[P[n]] /\ \A m \in Ref \ {n} : C[m] = B[m]
    <3>1. [B EXCEPT ![n] = w[n] + B[P[n]]] \in [Ref -> Int]
      BY <2>3
    <3> QED  BY <3>1, <2>3
  <2>5. \A m \in Ref \ L : C[m] = B0[m]
    BY <2>4, <1>5
  <2>6. ASSUME NEW m \in R PROVE C[m] = w[m] + C[P[m]]
    <3>1. m # n /\ P[m] # n /\ m \in Ref /\ P[m] \in Ref
      BY <1>0, <1>4, <2>2 DEF Ref
    <3> QED  BY <3>1, <2>4, <1>5
  <2>7. C[n] = w[n] + C[P[n]]
    BY <2>3, <2>4
  <2>8. Sum(C, R \cup {n})
    BY <2>5, <2>6, <2>7
  <2>9. R \cup {n} \in Good
    <3>1. R \cup {n} \in SUBSET L /\ \A m \in R \cup {n} : P[m] \notin L \ (R \cup {n})
      BY <1>4, <2>2
    <3> HIDE DEF Sum
    <3> QED  BY <3>1, <2>8
  <2> HIDE DEF Good
  <2> QED  BY <2>2, <2>9, <1>3
<1> QED  BY <1>5, <1>6 DEF SummedUp

(* What BlackDepth counts, as long as it can be counted from every slot.   *)
LEMMA BlackDepthIs ==
  ASSUME TypeOK, NEW D \in [Ref -> SUBSET Index], NEW rk \in [Index -> Int], Laws(D, rk),
         NEW h \in [Ref -> Nat], BalanceLaws(h), NEW n \in Hung,
         NoCycle(Index \ Hung, parent)
  PROVE  BlackDepth(n) = Above(D, h, n)
<1> DEFINE Q(f) == f = DepthFn(f)
           Depth == CHOOSE f : Q(f)
<1>1. BlackDepth(n) = Depth[n]
  BY DEF BlackDepth, DepthFn
<1>2. /\ Hung \subseteq Index /\ None \notin Index
      /\ \A m \in Hung : parent[m] \in Hung \cup {None}
  BY HungClosed
<1>3. \A m \in Index : Weight(m) = IF IsRed(m) THEN 0 ELSE 1
  BY <1>2 DEF Weight, IsRed
<1>4. PICK B \in [Ref -> Int] :
         /\ B[None] = 0
         /\ \A m \in Hung : B[m] = Above(D, h, m)
         /\ \A m \in Index \ Hung : B[m] = Weight(m) + B[parent[m]]
  <2> DEFINE B0 == [m \in Ref |-> IF m \in Hung THEN Above(D, h, m) ELSE 0]
             w == [m \in Index |-> Weight(m)]
  <2>1. B0 \in [Ref -> Int]
    <3>1. \A m \in Hung : Above(D, h, m) \in Int
      BY AboveStep
    <3> QED  BY <3>1
  <2>2. \A m \in Index : w[m] \in Int /\ w[m] = Weight(m)
    BY DEF Weight
  <2>3. Index \ Hung \in SUBSET Index /\ \A m \in Index \ Hung : parent[m] \in Ref
    BY DEF TypeOK
  <2>4. B0[None] = 0 /\ \A m \in Hung : B0[m] = Above(D, h, m)
    BY <1>2
  <2>5. None \in Ref \ (Index \ Hung) /\ \A m \in Hung : m \in Ref \ (Index \ Hung)
    BY <1>2
  <2>6. PICK B \in [Ref -> Int] :
           /\ \A m \in Ref \ (Index \ Hung) : B[m] = B0[m]
           /\ \A m \in Index \ Hung : B[m] = w[m] + B[parent[m]]
    <3>1. PICK L : L = Index \ Hung
      OBVIOUS
    <3>2. /\ L \in SUBSET Index /\ NoCycle(L, parent) /\ parent \in [Index -> Ref]
          /\ w \in [Index -> Int]
      BY <2>2, <2>3, <3>1 DEF TypeOK
    <3> HIDE DEF B0, w, Ref
    <3>3. \E B \in [Ref -> Int] :
             /\ \A m \in Ref \ L : B[m] = B0[m]
             /\ \A m \in L : B[m] = w[m] + B[parent[m]]
      <4>1. Weighed(L, parent, w, B0)
        BY <2>1, <3>2, <1>2 DEF Weighed
      <4>2. SummedUp(L, parent, w, B0)
        BY <4>1, SumUp
      <4> QED  BY <4>2 DEF SummedUp
    <3> QED  BY <3>1, <3>3
  <2> HIDE DEF B0, w
  <2> QED  BY <2>2, <2>4, <2>5, <2>6
<1>5. ASSUME NEW m \in Index PROVE B[m] = (IF IsRed(m) THEN 0 ELSE 1) + B[parent[m]]
  <2>1. CASE m \in Hung
    <3>1. /\ parent[m] = None => Above(D, h, m) = Weight(m)
          /\ parent[m] # None => Above(D, h, m) = Weight(m) + Above(D, h, parent[m])
      BY <2>1, AboveStep
    <3>2. Weight(m) \in Int
      BY DEF Weight
    <3> QED  BY <2>1, <3>1, <3>2, <1>2, <1>3, <1>4
  <2>2. CASE m \notin Hung
    BY <2>2, <1>3, <1>4
  <2> QED  BY <2>1, <2>2
<1>6. B[None] = 0
  BY <1>4
<1>7. Q(B)
  <2>1. B = [m \in Ref |-> B[m]]
    OBVIOUS
  <2>2. \A m \in Ref : B[m] = DepthFn(B)[m]
    <3> QED  BY <1>2, <1>5, <1>6 DEF DepthFn
  <2>3. DepthFn(B) = [m \in Ref |-> DepthFn(B)[m]]
    BY DEF DepthFn
  <2> QED  BY <2>1, <2>2, <2>3
<1>8. Q(Depth)
  <2> HIDE DEF Q
  <2> QED  BY <1>7
<1>9. /\ Depth[None] = 0
      /\ \A m \in Index : Depth[m] = (IF IsRed(m) THEN 0 ELSE 1) + Depth[parent[m]]
  <2> HIDE DEF Depth
  <2>1. \A m \in Ref : Depth[m] = DepthFn(Depth)[m]
    BY <1>8
  <2>2. Depth[None] = 0
    BY <2>1 DEF DepthFn
  <2>3. ASSUME NEW m \in Index PROVE Depth[m] = (IF IsRed(m) THEN 0 ELSE 1) + Depth[parent[m]]
    <3>1. m \in Ref /\ m # None
      BY <1>2
    <3>2. Depth[m] = DepthFn(Depth)[m]
      BY <2>1, <3>1
    <3> QED  BY <3>1, <3>2 DEF DepthFn
  <2> QED  BY <2>2, <2>3
<1>10. \A m \in Hung : Depth[m] = B[m]
  <2> DEFINE S == {m \in Hung : Depth[m] # B[m]}
  <2>1. SUFFICES ASSUME S # {} PROVE FALSE
    OBVIOUS
  <2>2. NoCycle(Hung, parent)
    BY DEF Laws, LinkLaws, Shape
  <2>3. PICK m \in S : parent[m] \notin S
    BY <2>1, <2>2 DEF NoCycle
  <2> HIDE DEF Depth
  <2>4. Depth[parent[m]] = B[parent[m]]
    BY <2>3, <1>2, <1>6, <1>9
  <2>5. m \in Index /\ Depth[m] # B[m]
    BY <1>2
  <2> QED  BY <2>4, <2>5, <1>5, <1>9
<1>11. B[n] = Above(D, h, n)
  BY <1>4
<1> HIDE DEF Depth
<1> QED  BY <1>1, <1>10, <1>11

(* Going up from a slot that is blank, or cut off, comes to an end.        *)
LEMMA BlanksEnd ==
  ASSUME TypeOK, FreeSlotsBlank, BalanceHolds
  PROVE  NoCycle(Index \ Hung, parent)
<1> SUFFICES ASSUME NEW m \in Index \ Hung PROVE parent[m] \in Hung \cup {None}
  BY NoneAssumption DEF NoCycle
<1>1. CASE m \in Live
  <2>1. Limbo /\ m = node
    BY <1>1 DEF Hung
  <2> QED  BY <2>1 DEF BalanceHolds, BalanceLaws, RepairLaws
<1>2. CASE m \notin Live
  BY <1>2 DEF FreeSlotsBlank
<1> QED  BY <1>1, <1>2

(* What RedBlack says follows from the laws.                               *)
LEMMA LawsRedBlack ==
  ASSUME TypeOK, LawsHold, BalanceHolds, NoCycle(Index \ Hung, parent)
  PROVE  RedBlack
<1>1. PICK D \in [Ref -> SUBSET Index], rk \in [Index -> Int] : Laws(D, rk)
  BY DEF LawsHold
<1>2. PICK h \in [Ref -> Nat] : BalanceLaws(h)
  BY DEF BalanceHolds
<1>3. RedLaws /\ HeightLaws(h)
  BY <1>2 DEF BalanceLaws
<1> SUFFICES ASSUME NEW t \in Trees
    PROVE  /\ \A n \in Attached(t) :
                /\ IsRed(n) /\ parent[n] # None /\ IsRed(parent[n]) => RedRedAllowed(n)
                /\ \A i \in Side : child[n][i] = None =>
                     black_height[t] = BlackDepth(n) + (IF Lacking(n, i) THEN 1 ELSE 0)
           /\ IsRed(root[t]) => pc = "blacken"
  BY DEF RedBlack
<1>4. Attached(t) = D[root[t]] /\ D[root[t]] \subseteq Hung
  BY <1>1, AttachedIs, OwnTree DEF InTree
<1>5. ASSUME NEW n \in D[root[t]], NEW i \in Side, child[n][i] = None
      PROVE  black_height[t] = BlackDepth(n) + (IF Lacking(n, i) THEN 1 ELSE 0)
  <2>1. n \in Hung /\ TreeOf(D, n) = t
    BY <1>1, <1>2, <1>4, AboveStep
  <2>2. BlackDepth(n) = Above(D, h, n)
    BY <2>1, <1>1, <1>2, BlackDepthIs
  <2>3. BlackDepth(n) = black_height[t] - h[n] + Weight(n) - Short(D, n)
    BY <2>1, <2>2 DEF Above
  <2>4. h[None] = 0 /\ h[n] \in Nat /\ Weight(n) \in {0, 1} /\ None \notin Index /\ n \in Index
    <3>1. n \in Index /\ None \notin Index
      BY <2>1, HungLive, NoneAssumption
    <3> QED  BY <3>1, <1>1, <1>2, Sums
  <2>5. h[n] = Weight(n) + Deficit(n, i) /\ Deficit(n, i) \in {0, 1}
    <3>1. h[n] = h[child[n][i]] + Weight(n) + Deficit(n, i)
      BY <2>1, <1>3 DEF HeightLaws
    <3>2. Deficit(n, i) \in {0, 1}
      BY DEF Deficit
    <3> HIDE DEF Deficit, Weight
    <3> QED  BY <3>1, <3>2, <2>4, <1>5
  <2>6. Short(D, n) + Deficit(n, i) = (IF Lacking(n, i) THEN 1 ELSE 0) /\ Short(D, n) \in {0, 1}
    <3>1. CASE pc \notin FixRemoveStep
      BY <3>1 DEF Short, Deficit, Lacking
    <3>2. CASE pc \in FixRemoveStep
      <4>1. PICK c : c = child[par][dir]
        OBVIOUS
      <4>2. par \in Hung /\ dir \in Side
        BY <3>2, <1>1, <1>2, Sums DEF TypeOK
      <4>3. c \in Hung \cup {None}
        BY <4>1, <4>2, <1>1, HungClosed
      <4>4. c \in Path(n) <=> n \in D[c]
        BY <4>3, <2>1, <1>1, PathIs
      <4>5. n = par => n \notin D[c]
        <5>1. Apart(parent, child, D, par)
          BY <4>2, <1>1, OwnApart
        <5> QED  BY <5>1, <4>1, <4>2 DEF Apart
      <4>6. Lacking(n, i) <=> (n = par /\ i = dir) \/ n \in D[c]
        BY <3>2, <4>1, <4>4 DEF Lacking
      <4>7. /\ Short(D, n) = IF n \in D[c] THEN 1 ELSE 0
            /\ Deficit(n, i) = IF n = par /\ i = dir THEN 1 ELSE 0
        BY <3>2, <4>1 DEF Short, Deficit
      <4> QED  BY <4>5, <4>6, <4>7
    <3> QED  BY <3>1, <3>2
  <2>7. black_height[t] \in Int
    BY DEF TypeOK
  <2> HIDE DEF Short, Deficit, Weight, Lacking
  <2>8. black_height[t] = BlackDepth(n) + (Short(D, n) + Deficit(n, i))
    BY <2>3, <2>4, <2>5, <2>6, <2>7
  <2> QED  BY <2>6, <2>8
<1>6. \A n \in D[root[t]] : IsRed(n) /\ parent[n] # None /\ IsRed(parent[n]) => RedRedAllowed(n)
  BY <1>3, <1>4 DEF RedLaws
<1>7. IsRed(root[t]) => pc = "blacken"
  BY <1>3 DEF RedLaws
<1> QED  BY <1>4, <1>5, <1>6, <1>7

(* Red nodes have black parents and all paths of a tree count as many      *)
(* black nodes as its Bounds say, at every step of every call, but for the *)
(* one spot the running loop is mending.                                   *)
THEOREM ColorsCorrect == Spec => []RedBlack
<1>1. TypeOK /\ FreeSlotsBlank /\ LawsHold /\ BalanceHolds => RedBlack
  BY BlanksEnd, LawsRedBlack
<1> QED  BY <1>1, BalanceCorrect, LawsCorrect, PTL

-----------------------------------------------------------------------------
(* A set that is closed under going up by the links P, ...                 *)
Rising(P, Y) == \A m \in Y : m # None => P[m] \in Y
(* ... and the least one with f: the nodes on the way up from f.           *)
Way(P, f) == {m \in Index : \A Y \in SUBSET Ref : f \in Y /\ Rising(P, Y) => m \in Y}

(* CumulantLaws, with Way for Path.                                        *)
WayLaws ==
  /\ HasCumulant =>
       \A m \in Stale : m \in Way(parent, Focus) \/ (pc = "red_far_nephew" /\ m = Sibling)
  /\ pc = "fix_insert" /\ IsRed(parent[ptr]) => parent[ptr] \in Way(parent, Focus)
  /\ pc = "rotate_outer" => parent[ptr] \in Way(parent, Focus)
  /\ pc \in FixRemoveStep => par = Focus \/ child[par][dir] \in Way(parent, Focus)

(* The way up is the Path that the runs compute.                           *)
LEMMA WayIsPath ==
  ASSUME TypeOK, NEW f \in Ref
  PROVE  Path(f) = Way(parent, f)
<1>1. PICK X \in SUBSET Ref :
         /\ f \in X /\ \A m \in X : Parents(m) \subseteq X
         /\ \A Y \in SUBSET Ref : f \in Y /\ (\A m \in Y : Parents(m) \subseteq Y) => X \subseteq Y
         /\ Path(f) = X \ {None}
  <2>1. parent \in [Index -> Ref]
    BY DEF TypeOK
  <2> HIDE DEF Side, Ref
  <2> QED  BY <2>1, RefFinite, PathLeast
<1>2. \A Y \in SUBSET Ref : Rising(parent, Y) <=> \A m \in Y : Parents(m) \subseteq Y
  BY DEF Rising, Parents
<1>3. ASSUME NEW m \in X \ {None} PROVE m \in Way(parent, f)
  BY <1>1, <1>2 DEF Way
<1>4. ASSUME NEW m \in Way(parent, f) PROVE m \in X \ {None}
  BY <1>1, <1>2, NoneAssumption DEF Way
<1> QED  BY <1>1, <1>3, <1>4

(* The way starts at f and goes up.                                        *)
LEMMA WayUp ==
  ASSUME NEW P \in [Index -> Ref], NEW f \in Ref
  PROVE  /\ f # None => f \in Way(P, f)
         /\ \A m \in Way(P, f) : P[m] # None => P[m] \in Way(P, f)
<1>1. None \notin Index
  BY NoneAssumption
<1>2. f # None => f \in Way(P, f)
  BY DEF Way
<1>3. ASSUME NEW m \in Way(P, f), P[m] # None PROVE P[m] \in Way(P, f)
  <2>1. m \in Index /\ P[m] \in Index /\ m # None
    BY <1>1, <1>3 DEF Way
  <2>2. ASSUME NEW Y \in SUBSET Ref, f \in Y, Rising(P, Y) PROVE P[m] \in Y
    <3>1. m \in Y
      BY <2>2 DEF Way
    <3> QED  BY <2>1, <2>2, <3>1 DEF Rising
  <2> QED  BY <2>1, <2>2 DEF Way
<1> QED  BY <1>2, <1>3

(* There is no way up from nowhere.                                        *)
LEMMA WayNone == \A P : Way(P, None) = {}
<1> TAKE P
<1>1. {None} \in SUBSET Ref /\ Rising(P, {None}) /\ None \notin Index
  BY NoneAssumption DEF Rising
<1>2. ASSUME NEW m \in Way(P, None) PROVE FALSE
  <2>1. m \in Index /\ m \in {None}
    BY <1>1 DEF Way
  <2> QED  BY <2>1, <1>1
<1> QED  BY <1>2

(* The way up from f without f is the one of its parent, also when the     *)
(* child c of f is hung there.                                             *)
LEMMA WayOn ==
  ASSUME NEW P \in [Index -> Ref], NEW Q \in [Index -> Ref], NEW f \in Index, NEW c \in Ref,
         c # None => P[c] = f, \A m \in Index \ {c} : Q[m] = P[m],
         NEW m \in Way(P, f), m # f
  PROVE  m \in Way(Q, P[f])
<1>0. m \in Index /\ None \notin Index
  BY NoneAssumption DEF Way
<1>1. ASSUME NEW Y \in SUBSET Ref, P[f] \in Y, Rising(Q, Y) PROVE m \in Y
  <2> DEFINE S == Y \cup {f}
  <2>1. S \in SUBSET Ref /\ f \in S
    OBVIOUS
  <2>2. Rising(P, S)
    <3>1. ASSUME NEW x \in S, x # None PROVE P[x] \in S
      <4>1. x \in Index
        BY <3>1
      <4>2. CASE x = f
        BY <1>1, <4>2
      <4>3. CASE x = c
        BY <3>1, <4>3
      <4>4. CASE x # f /\ x # c
        <5>1. Q[x] \in Y
          BY <1>1, <3>1, <4>4 DEF Rising
        <5> QED  BY <4>1, <4>4, <5>1
      <4> QED  BY <4>2, <4>3, <4>4
    <3> HIDE DEF S
    <3> QED  BY <3>1 DEF Rising
  <2>3. m \in S
    <3> HIDE DEF S
    <3> QED  BY <2>1, <2>2 DEF Way
  <2> QED  BY <2>3
<1> QED  BY <1>0, <1>1 DEF Way

(* The parents P become Q when v is rotated over n and w changes hands.    *)
Lifted(P, Q, n, v, w) ==
  /\ n \in Index /\ v \in Index /\ w \in Ref /\ v # n /\ w # v /\ w # n
  /\ P[v] = n /\ Q[v] = P[n] /\ Q[n] = v /\ (w # None => P[w] = v /\ Q[w] = n)
  /\ \A m \in Index \ {n, v, w} : Q[m] = P[m]

(* That takes nothing but n off the way, and puts v on it for n.           *)
LEMMA WayTurn ==
  ASSUME NEW P, NEW Q, NEW n, NEW v, NEW w, Lifted(P, Q, n, v, w),
         P \in [Index -> Ref], Q \in [Index -> Ref], NEW f \in Ref, NEW m \in Way(P, f)
  PROVE  /\ m # n => m \in Way(Q, f)
         /\ m = n => v \in Way(Q, f)
<1> USE DEF Lifted
<1>0. m \in Index /\ None \notin Index
  BY NoneAssumption DEF Way
<1>1. ASSUME NEW Y \in SUBSET Ref, f \in Y, Rising(Q, Y)
      PROVE  (m # n => m \in Y) /\ (m = n => v \in Y)
  <2>1. PICK S \in SUBSET Ref : S = Y \cup (IF v \in Y THEN {n} ELSE {})
    OBVIOUS
  <2>2. \A x \in Y : x # None => Q[x] \in Y
    BY <1>1 DEF Rising
  <2>3. ASSUME NEW x \in S, x # None PROVE P[x] \in S
    <3>1. CASE x = n
      <4>1. v \in Y
        BY <3>1, <2>1, <2>2, <1>0
      <4> QED  BY <4>1, <3>1, <2>1, <2>2, <1>0
    <3>2. CASE x = v
      BY <3>2, <2>1, <2>2, <1>0
    <3>3. CASE x = w
      <4>1. n \in Y
        BY <3>3, <2>3, <2>1, <2>2, <1>0
      <4> QED  BY <4>1, <3>3, <2>3, <2>1, <2>2, <1>0
    <3>4. CASE x \notin {n, v, w}
      BY <3>4, <2>3, <2>1, <2>2, <1>0
    <3> QED  BY <3>1, <3>2, <3>3, <3>4
  <2>4. Rising(P, S)
    BY <2>3 DEF Rising
  <2>5. m \in S
    BY <2>1, <2>4, <1>1 DEF Way
  <2> QED  BY <2>1, <2>2, <2>5, <1>0
<1> QED  BY <1>0, <1>1 DEF Way

(* Whoever is below m has m on its way.                                    *)
LEMMA WayOfTree ==
  ASSUME TypeOK, NEW D \in [Ref -> SUBSET Index], NEW rk \in [Index -> Int], Laws(D, rk),
         NEW n \in Hung, NEW m \in Hung, n \in D[m]
  PROVE  m \in Way(parent, n)
<1>1. m \in Path(n)
  BY PathIs
<1>2. n \in Ref
  BY HungLive
<1> QED  BY <1>1, <1>2, WayIsPath

-----------------------------------------------------------------------------
(* The cumulant that a reference stands for.                               *)
CumAt(c) == IF c = None THEN DefaultCumulant ELSE cum[c]

(* A node of which neither the value nor any cumulant it is made of        *)
(* changes stays current.                                                  *)
LEMMA StaysCurrent ==
  ASSUME NEW m \in Hung, m \notin Stale, val'[m] = val[m], cum'[m] = cum[m],
         \A s \in Side : CumAt(child[m][s])' = CumAt(child[m][s])
  PROVE  m \notin Stale'
<1>1. cum[m] = CumulantOf(m, child[m])
  BY DEF Stale
<1>2. CumulantOf(m, child[m]) = Combine(val[m], CumAt(child[m][0]), CumAt(child[m][1]))
  BY DEF CumulantOf, CumAt
<1>3. CumulantOf(m, child[m])' = Combine(val'[m], CumAt(child[m][0])', CumAt(child[m][1])')
  BY DEF CumulantOf, CumAt
<1>4. cum'[m] = CumulantOf(m, child[m])'
  BY <1>1, <1>2, <1>3
<1> QED  BY <1>4 DEF Stale

(* A step that changes no tree and no value.                               *)
LEMMA StaysStale ==
  ASSUME Hung' = Hung, UNCHANGED <<val, cum, child>>
  PROVE  Stale' = Stale
  BY DEF Stale, CumulantOf

(* Where the call will propagate from, at each of its steps.               *)
FocusFacts ==
  /\ pc \in InsertStep \cup {"unlink"} => Focus = node
  /\ pc \in Unlinked => Focus = parent[node]
  /\ pc = "propagate" => Focus = ptr
  /\ pc \in {"idle", "descend", "free"} \cup SearchResult => Focus = None

LEMMA FocusIs == FocusFacts /\ FocusFacts'
<1> USE DEF FocusFacts, Focus, InsertStep, Unlinked, SearchResult
<1>1. FocusFacts
  OBVIOUS
<1>2. FocusFacts'
  OBVIOUS
<1> QED  BY <1>1, <1>2

(* Between the updates every cumulant is current.                          *)
LEMMA NoneStale ==
  ASSUME WayLaws, HasCumulant, Focus = None, pc # "red_far_nephew"
  PROVE  Stale = {}
  BY WayNone DEF WayLaws

(* Outside of the repair loops only the cumulants matter.                  *)
LEMMA WayFrame ==
  ASSUME HasCumulant => \A m \in Stale' : m \in Way(parent', Focus'),
         pc' \notin {"fix_insert", "rotate_outer"} \cup FixRemoveStep
  PROVE  WayLaws'
  BY DEF WayLaws, FixRemoveStep

-----------------------------------------------------------------------------
(* A call that begins, searches or answers; a stuttering step.             *)
LEMMA QuietWay ==
  ASSUME TypeOK, NEW D \in [Ref -> SUBSET Index], NEW rk \in [Index -> Int], Laws(D, rk), WayLaws,
         \/ Descend \/ Get \/ Search \/ RemoveMiss
         \/ \E op \in Op, t \in Trees, k \in Keys, v \in Values \cup {None} : CallOp(op, t, k, v)
  PROVE  WayLaws'
<1>1. /\ pc \in {"idle", "descend"} \cup SearchResult /\ pc' \in {"idle", "descend"} \cup SearchResult
      /\ UNCHANGED <<key, val, cum, parent, child>>
  <2>1. CASE Descend
    BY <2>1 DEF Descend, data, links, SearchResult
  <2>2. CASE Get \/ Search \/ RemoveMiss
    BY <2>2 DEF Get, Search, RemoveMiss, Return, data, links, SearchResult
  <2>3. ASSUME NEW op \in Op, NEW t \in Trees, NEW k \in Keys, NEW v \in Values \cup {None},
               CallOp(op, t, k, v)
        PROVE  /\ pc = "idle" /\ pc' \in {"descend"} \cup SearchResult
               /\ UNCHANGED <<key, val, cum, parent, child>>
    BY <2>3 DEF CallOp, SearchFrom, Found, data, links, SearchResult
  <2> QED  BY <2>1, <2>2, <2>3
<1>2. Focus = None /\ Hung' = Hung /\ pc # "red_far_nephew"
  BY <1>1, FocusIs DEF FocusFacts, Hung, Live, Limbo, Unlinked, SearchResult
<1>3. HasCumulant => Stale' = {}
  BY <1>1, <1>2, NoneStale, StaysStale
<1> QED  BY <1>1, <1>3, WayFrame DEF FixRemoveStep, SearchResult

LEMMA StutterWay ==
  ASSUME WayLaws, UNCHANGED vars
  PROVE  WayLaws'
<1>1. /\ UNCHANGED <<key, val, cum, color, parent, child, pc, call, node, ptr, par, dir>>
  BY DEF vars
<1>2. Hung' = Hung /\ Focus' = Focus
  BY <1>1 DEF Hung, Live, Limbo, Focus
<1>3. Stale' = Stale
  BY <1>1, <1>2, StaysStale
<1> QED  BY <1>1, <1>2, <1>3 DEF WayLaws, Sibling, IsRed

(* The steps that recolor or go on to the next phase.                      *)
LEMMA StillWay ==
  ASSUME TypeOK, TypeOK', NEW D \in [Ref -> SUBSET Index], NEW rk \in [Index -> Int],
         Laws(D, rk), WayLaws,
         FixInsertDone \/ FixInsertRecolor \/ Blacken \/ FixRemoveRecolor \/ Unthread
  PROVE  WayLaws'
<1>1. /\ UNCHANGED <<key, val, cum, parent, child, call, node>>
      /\ pc \in {"fix_insert", "blacken", "fix_remove", "black_sibling", "unthread"}
      /\ pc \in {"fix_insert", "blacken"} => pc' \in {"fix_insert", "blacken", "propagate"}
      /\ pc \in {"fix_remove", "black_sibling", "unthread"} => pc' \in {"fix_remove", "unthread", "propagate"}
      /\ pc' = "propagate" =>
           \/ pc = "blacken" /\ ptr' = node
           \/ pc = "unthread" /\ ptr' = parent[node]
  <2>1. CASE FixInsertDone \/ FixInsertRecolor
    BY <2>1 DEF FixInsertDone, FixInsertRecolor, RedParent, data, links
  <2>2. CASE Blacken
    BY <2>2 DEF Blacken, data, links
  <2>3. CASE FixRemoveRecolor
    BY <2>3 DEF FixRemoveRecolor, AtBlackSibling, data, links
  <2>4. CASE Unthread
    BY <2>4 DEF Unthread, data, links
  <2> QED  BY <2>1, <2>2, <2>3, <2>4
<1>2. pc \in InsertStep => call.op = "insert"
  BY DEF Laws, CallLaws
<1>3. pc \in RemoveStep => call.op = "remove"
  BY DEF Laws, CallLaws
<1>4. Hung' = Hung /\ Focus' = Focus
  <2>1. CASE pc \in {"fix_insert", "blacken"}
    BY <2>1, <1>1, <1>2, FocusIs DEF FocusFacts, Hung, Live, Limbo, Unlinked, InsertStep
  <2>2. CASE pc \in {"fix_remove", "black_sibling", "unthread"}
    BY <2>2, <1>1, <1>3, FocusIs DEF FocusFacts, Hung, Live, Limbo, Unlinked, RemoveStep, FixRemoveStep
  <2> QED  BY <2>1, <2>2, <1>1
<1>5. HasCumulant => \A m \in Stale' : m \in Way(parent', Focus')
  <2>1. Stale' = Stale
    BY <1>1, <1>4, StaysStale
  <2> QED  BY <2>1, <1>1, <1>4 DEF WayLaws
<1>6. parent \in [Index -> Ref] /\ Focus \in Ref
  <2>1. node \in Ref /\ node # None
    BY <1>1 DEF TypeOK, InsertStep, RemoveStep, FixRemoveStep
  <2>2. Focus \in {node, parent[node]}
    BY <1>1, FocusIs DEF FocusFacts, InsertStep, Unlinked
  <2> QED  BY <2>1, <2>2 DEF TypeOK
<1>7. CASE FixInsertRecolor
  <2>1. /\ IsRed(parent[ptr]) /\ pc = "fix_insert" /\ Grandparent # None /\ ptr' = Grandparent
        /\ pc' \in {"fix_insert", "blacken"}
    BY <1>7 DEF FixInsertRecolor, RedParent
  <2>2. parent[ptr] \in Way(parent, Focus)
    BY <2>1 DEF WayLaws
  <2>3. Grandparent \in Way(parent, Focus)
    BY <2>1, <2>2, <1>6, WayUp DEF Grandparent
  <2>4. parent[Grandparent] # None => parent[Grandparent] \in Way(parent, Focus)
    BY <2>3, <1>6, WayUp
  <2> QED  BY <2>1, <2>4, <1>1, <1>4, <1>5 DEF WayLaws, IsRed, FixRemoveStep
<1>8. CASE FixRemoveRecolor
  <2>1. CASE pc' = "unthread"
    BY <2>1, <1>5, WayFrame DEF FixRemoveStep
  <2>2. CASE pc' # "unthread"
    <3>1. /\ pc \in {"fix_remove", "black_sibling"} /\ pc' = "fix_remove" /\ parent[par] # None
          /\ par' = parent[par] /\ dir' = SideOf(parent[par], par)
      BY <1>8, <2>2 DEF FixRemoveRecolor, AtBlackSibling, AtTop
    <3>2. par \in Hung /\ par # None /\ None \notin Index
      <4>1. pc # "idle" /\ pc \in FixRemoveStep
        BY <3>1 DEF FixRemoveStep
      <4>2. par \in Own(D) /\ Own(D) \subseteq Hung
        BY <4>1, OwnCall DEF UpdateLaws, InTree
      <4> QED  BY <4>2, HungClosed
    <3>3. par \in Way(parent, Focus)
      <4>1. par = Focus \/ child[par][dir] \in Way(parent, Focus)
        BY <3>1 DEF WayLaws, FixRemoveStep
      <4>2. ASSUME child[par][dir] \in Way(parent, Focus) PROVE par \in Way(parent, Focus)
        <5>1. child[par][dir] # None /\ dir \in Side
          BY <4>2, <3>2 DEF Way, TypeOK
        <5>2. parent[child[par][dir]] = par
          BY <5>1, <3>2, HungClosed
        <5> QED  BY <4>2, <5>2, <3>2, <1>6, WayUp
      <4> QED  BY <4>1, <4>2, <3>2, <1>6, WayUp
    <3>4. child'[par'][dir'] = par
      <4>1. \E s \in Side : child[parent[par]][s] = par
        BY <3>1, <3>2, HungClosed
      <4> QED  BY <4>1, <3>1, <1>1 DEF SideOf
    <3> QED  BY <3>1, <3>3, <3>4, <1>1, <1>4, <1>5 DEF WayLaws
  <2> QED  BY <2>1, <2>2
<1>9. CASE FixInsertDone \/ Blacken \/ Unthread
  <2>1. pc' \in {"blacken", "propagate"}
    BY <1>9 DEF FixInsertDone, Blacken, Unthread
  <2> QED  BY <2>1, <1>5, WayFrame DEF FixRemoveStep
<1> QED  BY <1>7, <1>8, <1>9

(* propagate_cumulant: the node is up to date, its parent is next.         *)
LEMMA PropagateWay ==
  ASSUME TypeOK, TypeOK', NEW D \in [Ref -> SUBSET Index], NEW rk \in [Index -> Int],
         Laws(D, rk), WayLaws, Propagate
  PROVE  WayLaws'
<1>1. /\ pc = "propagate" /\ pc # "idle" /\ pc' \in {"propagate", "idle", "free"}
      /\ UNCHANGED <<key, val, parent, child>> /\ Focus = ptr
  BY FocusIs DEF Propagate, AfterPropagate, Return, data, links, FocusFacts
<1>2. Hung' = Hung
  BY <1>1 DEF Propagate, AfterPropagate, Return, Hung, Live, Limbo, Unlinked, Laws, CallLaws
<1>3. SUFFICES ASSUME HasCumulant, NEW m \in Stale' PROVE m \in Way(parent', Focus')
  BY <1>1, WayFrame DEF FixRemoveStep
<1>4. CASE ptr = None
  <2>1. Stale = {}
    BY <1>1, <1>3, <1>4, NoneStale
  <2>2. cum' = cum
    BY <1>4 DEF Propagate
  <2> QED  BY <2>1, <2>2, <1>1, <1>2, <1>3, StaysStale
<1>5. CASE ptr # None
  <2>0. PICK p : p = ptr
    OBVIOUS
  <2>1. /\ pc' = "propagate" /\ ptr' = parent[p]
        /\ cum' = [cum EXCEPT ![p] = CumulantOf(p, child[p])]
    BY <2>0, <1>1, <1>3, <1>5 DEF Propagate
  <2>2. p \in Hung /\ m \in Hung /\ Hung \subseteq Index /\ None \notin Index
    <3>1. p \in Own(D) /\ Own(D) \subseteq Hung
      BY <2>0, <1>1, <1>5, OwnCall DEF UpdateLaws, InTree
    <3> QED  BY <3>1, <1>2, <1>3, HungClosed DEF Stale
  <2>3. Focus' = parent[p]
    BY <2>1, FocusIs DEF FocusFacts
  <2>4. /\ \A s \in Side : child[p][s] # p
        /\ \A x \in Hung, s \in Side : child[x][s] # None => parent[child[x][s]] = x
        /\ cum \in [Index -> Cumulants] /\ parent \in [Index -> Ref] /\ child \in [Index -> [Side -> Ref]]
    <3>1. \A x \in Hung, s \in Side : child[x][s] # None => parent[child[x][s]] = x
      BY HungClosed
    <3>2. \A s \in Side : child[p][s] # p
      BY <2>2, HungClosed
    <3> QED  BY <3>1, <3>2 DEF TypeOK
  <2>5. \A c \in Ref : c # p => CumAt(c)' = CumAt(c)
    BY <2>1, <2>4 DEF CumAt
  <2>6. m # p
    <3>1. cum'[p] = Combine(val[p], CumAt(child[p][0]), CumAt(child[p][1]))
      BY <2>1, <2>2, <2>4 DEF CumulantOf, CumAt
    <3>2. CumulantOf(p, child[p])' = Combine(val'[p], CumAt(child[p][0])', CumAt(child[p][1])')
      BY DEF CumulantOf, CumAt
    <3>3. \A s \in Side : CumAt(child[p][s])' = CumAt(child[p][s])
      BY <2>0, <2>2, <2>4, <2>5, <1>1 DEF CumAt
    <3>4. cum'[p] = CumulantOf(p, child[p])'
      BY <3>1, <3>2, <3>3, <1>1
    <3>5. p \notin Stale'
      BY <3>4 DEF Stale
    <3> QED  BY <3>5, <1>3
  <2>7. CASE m = parent[p]
    <3>1. m \in Ref /\ m # None
      BY <2>2
    <3> QED  BY <3>1, <2>3, <2>4, <2>7, <1>1, WayUp
  <2>8. CASE m # parent[p]
    <3>1. \A s \in Side : child[m][s] \in Ref /\ child[m][s] # p
      BY <2>2, <2>4, <2>8
    <3>2. \A s \in Side : CumAt(child[m][s])' = CumAt(child[m][s])
      BY <3>1, <2>5, <1>1 DEF CumAt
    <3>3. cum'[m] = cum[m]
      BY <2>1, <2>2, <2>4, <2>6
    <3>4. m \in Stale
      BY <3>2, <3>3, <2>2, <1>1, <1>3, StaysCurrent
    <3>5. m \in Way(parent, p)
      BY <3>4, <2>0, <1>1, <1>3 DEF WayLaws
    <3>6. None \in Ref /\ p \in Index
      BY <2>2
    <3>7. m \in Way(parent, parent[p])
      <4> HIDE DEF Ref
      <4> QED  BY <3>5, <3>6, <2>4, <2>6, WayOn
    <3> QED  BY <3>7, <2>3, <1>1
  <2> QED  BY <2>7, <2>8
<1> QED  BY <1>4, <1>5

-----------------------------------------------------------------------------
(* A new root of an empty tree is born current.                            *)
LEMMA InsertEmptyWay ==
  ASSUME TypeOK, TypeOK', NEW D \in [Ref -> SUBSET Index], NEW rk \in [Index -> Int],
         Laws(D, rk), WayLaws, NEW n \in Index \ Live, InsertEmpty(n)
  PROVE  WayLaws'
<1>1. /\ pc = "Empty" /\ pc' = "idle" /\ val' = [val EXCEPT ![n] = call.val]
      /\ child' = [child EXCEPT ![n] = NoLinks] /\ Focus = None
      /\ cum' = [cum EXCEPT ![n] = IF HasCumulant
                                   THEN Combine(call.val, DefaultCumulant, DefaultCumulant)
                                   ELSE DefaultCumulant]
      /\ key' = [key EXCEPT ![n] = call.key]
  BY FocusIs DEF InsertEmpty, Return, FocusFacts, SearchResult
<1>2. SUFFICES ASSUME HasCumulant, NEW m \in Stale' PROVE FALSE
  BY <1>1, WayFrame DEF FixRemoveStep
<1>3. Hung = Live /\ Hung' \subseteq Live \cup {n} /\ Live \subseteq Index /\ None \notin Index
  BY <1>1, NoneAssumption DEF Hung, Limbo, Unlinked, Live, TypeOK
<1>4. /\ cum \in [Index -> Cumulants] /\ child \in [Index -> [Side -> Ref]] /\ val \in [Index -> Values]
      /\ \A x \in Hung, s \in Side : child[x][s] \in Hung \cup {None}
  BY HungClosed DEF TypeOK
<1>5. Stale = {}
  BY <1>1, <1>2, NoneStale
<1>6. CASE m = n
  <2>1. cum'[n] = Combine(val'[n], DefaultCumulant, DefaultCumulant)
    BY <1>1, <1>2, <1>4
  <2>2. child'[n][0] = None /\ child'[n][1] = None
    BY <1>1, <1>4 DEF NoLinks
  <2>3. CumulantOf(n, child[n])' = Combine(val'[n], DefaultCumulant, DefaultCumulant)
    BY <2>2 DEF CumulantOf
  <2>4. n \notin Stale'
    BY <2>1, <2>3 DEF Stale
  <2> QED  BY <2>4, <1>2, <1>6
<1>7. CASE m # n
  <2>1. m \in Hung /\ m \in Index
    BY <1>2, <1>3, <1>7 DEF Stale
  <2>2. val'[m] = val[m] /\ cum'[m] = cum[m] /\ child'[m] = child[m]
    BY <2>1, <1>1, <1>4, <1>7
  <2>3. \A s \in Side : child[m][s] # n
    BY <2>1, <1>3, <1>4
  <2>4. \A s \in Side : CumAt(child[m][s])' = CumAt(child[m][s])
    BY <2>1, <2>2, <2>3, <1>1, <1>3, <1>4 DEF CumAt
  <2>5. m \notin Stale'
    BY <2>1, <2>2, <2>4, <1>5, StaysCurrent
  <2> QED  BY <2>5, <1>2
<1> QED  BY <1>6, <1>7

(* A new leaf is propagated from: what it brings is out of date for it and *)
(* its parent alone.                                                       *)
LEMMA HangAnyWay ==
  ASSUME TypeOK, TypeOK', NEW D \in [Ref -> SUBSET Index], NEW rk \in [Index -> Int],
         Laws(D, rk), WayLaws, NEW n \in Index \ Live, HangAny(n)
  PROVE  WayLaws'
<1>0. PICK i \in Side : i = IF pc = "LeftOf" THEN 0 ELSE 1
  OBVIOUS
<1>p. PICK p : p = ptr
  OBVIOUS
<1>1. /\ pc \in {"LeftOf", "RightOf"} /\ pc = Frontier(i) /\ pc' \in {"fix_insert", "propagate"}
      /\ \A m \in Index \ {n} : val'[m] = val[m] /\ cum'[m] = cum[m]
      /\ child' = [child EXCEPT ![n] = NoLinks, ![p][i] = n]
      /\ parent' = [parent EXCEPT ![n] = p] /\ node' = n /\ ptr' = n
      /\ key' = [key EXCEPT ![n] = call.key] /\ Focus = None
  BY <1>0, <1>p, FocusIs DEF HangAny, Hang, FocusFacts, SearchResult, Frontier
<1>2. Focus' = n
  BY <1>1, FocusIs DEF FocusFacts, InsertStep
<1>3. Hung = Live /\ Hung' \subseteq Live \cup {n} /\ Live \subseteq Index /\ None \notin Index
  BY <1>1, NoneAssumption DEF Hung, Limbo, Unlinked, Live, TypeOK
<1>4. /\ cum \in [Index -> Cumulants] /\ child \in [Index -> [Side -> Ref]] /\ val \in [Index -> Values]
      /\ parent' \in [Index -> Ref] /\ parent \in [Index -> Ref]
      /\ \A x \in Hung, s \in Side : child[x][s] \in Hung \cup {None}
  BY HungClosed DEF TypeOK
<1>5. p \in Hung /\ child[p][i] = None /\ p # n
  <2>1. pc # "idle" /\ pc \in {"descend", "Here", "LeftOf", "RightOf"}
    BY <1>1
  <2>2. p \in Own(D) /\ Own(D) \subseteq Hung /\ child[p][i] = None
    BY <2>1, <1>1, <1>p, OwnCall DEF SearchLaws, InTree
  <2> QED  BY <2>2, <1>3
<1>6. n \in Way(parent', n) /\ p \in Way(parent', n)
  <2>1. n \in Ref /\ n # None /\ p # None /\ parent'[n] = p
    BY <1>1, <1>3, <1>4, <1>5
  <2> QED  BY <2>1, <1>4, WayUp
<1>7. ASSUME HasCumulant, NEW m \in Stale' PROVE m = n \/ m = p
  <2>1. SUFFICES ASSUME m # n, m # p PROVE FALSE
    OBVIOUS
  <2>2. m \in Hung /\ m \in Index /\ Stale = {}
    BY <2>1, <1>1, <1>3, <1>7, NoneStale DEF Stale
  <2>3. val'[m] = val[m] /\ cum'[m] = cum[m]
    BY <2>1, <2>2, <1>1, <1>4
  <2>4. ASSUME NEW s \in Side PROVE CumAt(child[m][s])' = CumAt(child[m][s])
    <3>1. child'[m][s] = child[m][s]
      BY <2>1, <2>2, <1>1, <1>4, <1>5, <1>3
    <3>2. child[m][s] \in Hung \cup {None} /\ n \notin Hung
      BY <2>2, <1>3, <1>4
    <3> QED  BY <3>1, <3>2, <1>1, <1>3 DEF CumAt
  <2>5. m \notin Stale'
    BY <2>2, <2>3, <2>4, StaysCurrent
  <2> QED  BY <2>5, <1>7
<1>8. (parent[ptr])' = p
  BY <1>1, <1>4
<1> QED  BY <1>1, <1>2, <1>6, <1>7, <1>8 DEF WayLaws, FixRemoveStep

-----------------------------------------------------------------------------
(* The node to remove is chosen; with two children it has traded all that  *)
(* it holds with its successor, which is below it.                         *)
LEMMA RemoveHereWay ==
  ASSUME TypeOK, TypeOK', NEW D \in [Ref -> SUBSET Index], NEW rk \in [Index -> Int],
         Laws(D, rk), WayLaws, RemoveHere
  PROVE  WayLaws'
<1>0. PICK p, next : p = ptr /\ next = order[ptr][1]
  OBVIOUS
<1>1. /\ pc = "Here" /\ pc # "idle" /\ pc' = "unlink" /\ Focus = None /\ Focus' = node'
      /\ UNCHANGED <<parent, child, order>>
  BY FocusIs DEF RemoveHere, FocusFacts, SearchResult, links
<1>2. SUFFICES ASSUME HasCumulant, NEW m \in Stale' PROVE m \in Way(parent', Focus')
  BY <1>1, WayFrame DEF FixRemoveStep
<1>3. Stale = {}
  BY <1>1, <1>2, NoneStale
<1>4. /\ Hung = Live /\ Hung' = Live'
  BY <1>1 DEF Hung, Limbo, Unlinked
<1>5. /\ p \in Own(D) /\ Own(D) \subseteq Hung /\ Own(D) = D[root[call.tree]] /\ call.tree \in Trees
  BY <1>0, <1>1, OwnCall DEF SearchLaws, InTree
<1>6. CASE ~\A i \in Side : child[ptr][i] # None
  <2>1. UNCHANGED <<key, val, cum>>
    BY <1>6 DEF RemoveHere, data
  <2>2. Stale' = Stale
    BY <2>1, <1>1, <1>4, StaysStale DEF Live
  <2> QED  BY <2>2, <1>2, <1>3
<1>7. CASE \A i \in Side : child[ptr][i] # None
  <2>1. /\ next # None /\ node' = next
        /\ key' = [key EXCEPT ![p] = key[next], ![next] = key[p]]
        /\ val' = [val EXCEPT ![p] = val[next], ![next] = val[p]]
        /\ cum' = [cum EXCEPT ![p] = cum[next], ![next] = cum[p]]
    BY <1>0, <1>7 DEF RemoveHere, Swapped
  <2>2. next \in Own(D) /\ next \in D[p]
    <3>1. Thread(Own(D), order, range[call.tree], rk)
      BY <1>1, <1>5 DEF Laws, StringLaws, Strung, Unlinked
    <3>2. /\ next \in Own(D) /\ rk[p] < rk[next]
          /\ \A x \in Own(D) : rk[p] < rk[x] => ~(rk[x] < rk[next])
          /\ \A x \in Own(D) : rk[x] = rk[next] => x = next
      BY <3>1, <2>1, <1>0, <1>5 DEF Thread, Before
    <3>3. PICK c : c = child[p][1]
      OBVIOUS
    <3>4. c \in D[c] /\ D[c] \subseteq D[p] /\ c \in Hung /\ p \in D[p] /\ rk[p] < rk[c] /\ c \in Own(D)
      <4>1. Shape(Hung, parent, child, root, D, rk)
        BY DEF Laws, LinkLaws
      <4>2. c # None /\ p \in Hung
        BY <1>0, <1>5, <1>7, <3>3
      <4>3. c \in Hung /\ c \in Own(D)
        BY <4>2, <3>3, <1>1, <1>5, OwnCall DEF InTree
      <4>4. c \in D[c] /\ p \in D[p] /\ D[p] = {p} \cup D[child[p][0]] \cup D[child[p][1]]
        BY <4>1, <4>2, <4>3 DEF Shape, Descends
      <4>5. rk[p] < rk[c]
        BY <4>1, <4>2, <4>4, <3>3 DEF Shape, Sorted, Before
      <4> QED  BY <4>3, <4>4, <4>5, <3>3
    <3>5. next = c \/ rk[next] < rk[c]
      <4>1. rk[next] \in Int /\ rk[c] \in Int
        BY <3>2, <3>4, <1>5, HungLive
      <4> QED  BY <4>1, <3>2, <3>4
    <3>6. rk[next] < rk[c] => next \in D[p]
      <4>1. \A t \in Trees : \A x, z \in D[root[t]] : \A a, b \in D[x] :
              rk[a] < rk[z] /\ rk[z] < rk[b] => z \in D[x]
        BY DEF Laws, LinkLaws, Shape, Sorted
      <4> QED  BY <4>1, <3>2, <3>4, <1>5
    <3> QED  BY <3>2, <3>4, <3>5, <3>6
  <2>3. /\ p \in Index /\ next \in Index /\ Hung \subseteq Index /\ None \notin Index
        /\ next \in Hung /\ p \in Hung
    BY <2>2, <1>5, HungClosed
  <2>4. /\ key \in [Index -> Keys \cup {None}] /\ val \in [Index -> Values]
        /\ cum \in [Index -> Cumulants] /\ child \in [Index -> [Side -> Ref]]
        /\ parent \in [Index -> Ref]
    BY DEF TypeOK
  <2>5. /\ \A x \in Index \ {p, next} : key'[x] = key[x] /\ val'[x] = val[x] /\ cum'[x] = cum[x]
    BY <2>1, <2>4
  <2>6. next \in Way(parent, next) /\ p \in Way(parent, next)
    <3>1. next \in Ref /\ next # None
      BY <2>3
    <3> QED  BY <3>1, <2>2, <2>3, <2>4, WayUp, WayOfTree
  <2>7. m \in {p, next} \/ m = parent[p] \/ m = parent[next]
    <3>1. SUFFICES ASSUME m \notin {p, next}, m # parent[p], m # parent[next] PROVE FALSE
      OBVIOUS
    <3>2. m \in Hung
      <4>1. m \in Index /\ key'[m] # None
        BY <1>2, <1>4 DEF Stale, Live
      <4> QED  BY <4>1, <3>1, <2>5, <1>4 DEF Live
    <3>3. \A s \in Side : child[m][s] \in Hung \cup {None} /\ child[m][s] \notin {p, next}
      <4>1. \A s \in Side : child[m][s] \in Hung \cup {None}
        BY <3>2, HungClosed
      <4>2. \A s \in Side : child[m][s] # None => parent[child[m][s]] = m
        BY <3>2, HungClosed
      <4> QED  BY <4>1, <4>2, <3>1, <2>3
    <3>4. \A s \in Side : CumAt(child[m][s])' = CumAt(child[m][s])
      BY <3>3, <2>3, <2>5, <1>1 DEF CumAt
    <3>5. m \notin Stale'
      BY <3>1, <3>2, <3>4, <2>3, <2>5, <1>3, StaysCurrent
    <3> QED  BY <3>5, <1>2
  <2>8. m # None
    BY <1>2, <1>4, NoneAssumption DEF Stale, Live
  <2>9. m \in Way(parent, next)
    <3>1. next \in Ref
      BY <2>3
    <3> QED  BY <3>1, <2>4, <2>6, <2>7, <2>8, WayUp
  <2> QED  BY <2>1, <2>9, <1>1
<1> QED  BY <1>6, <1>7

(* A node is cut off: its parent, where the propagation will start, has    *)
(* lost it.                                                                *)
LEMMA UnlinkWay ==
  ASSUME TypeOK, TypeOK', NEW D \in [Ref -> SUBSET Index], NEW rk \in [Index -> Int],
         Laws(D, rk), WayLaws, (\E i \in Side : UnlinkOneChild(i)) \/ UnlinkLeaf
  PROVE  WayLaws'
<1>0. PICK x : x = node
  OBVIOUS
<1>1. PICK c : /\ pc = "unlink" /\ node' = x /\ x \in Hung /\ Hung' = Hung \ {x}
               /\ Cut(x, c) /\ c \in Ref
  <2>1. \E i \in Side : Cut(node, child[node][i])
    BY UnlinkCut
  <2>2. pc = "unlink" /\ node' = node /\ node \in Hung /\ Hung' = Hung \ {node}
    BY UnlinkCut
  <2>3. \A i \in Side : child[node][i] \in Ref
    BY <2>2, HungLive DEF TypeOK
  <2> QED  BY <2>1, <2>2, <2>3, <1>0
<1>2. /\ UNCHANGED <<val, cum>> /\ pc' \in {"unthread", "fix_remove"}
      /\ pc' = "fix_remove" => par' = parent[x]
  BY <1>0 DEF UnlinkOneChild, UnlinkLeaf, data
<1>3. /\ Hung \subseteq Index /\ None \notin Index /\ x \in Index
      /\ parent \in [Index -> Ref] /\ parent' \in [Index -> Ref]
      /\ \A m \in Hung, s \in Side : child[m][s] \in Hung \cup {None}
      /\ \A m \in Hung, s \in Side : child[m][s] # None => parent[child[m][s]] = m
  BY <1>1, HungClosed DEF TypeOK
<1>4. Focus = x /\ Focus' = parent'[x] /\ parent'[x] = parent[x]
  <2>1. Focus = x /\ Focus' = parent'[x]
    BY <1>0, <1>1, <1>2, FocusIs DEF FocusFacts, Unlinked
  <2>2. parent'[x] = parent[x]
    BY <1>1, <1>3 DEF Cut
  <2> QED  BY <2>1, <2>2
<1>5. ASSUME HasCumulant, NEW m \in Stale' PROVE m \in Way(parent', parent[x])
  <2>1. m \in Hung /\ m # x /\ m # None
    BY <1>1, <1>3, <1>5 DEF Stale
  <2>2. CASE m = parent[x]
    BY <2>1, <2>2, <1>3, WayUp
  <2>3. CASE m # parent[x]
    <3>1. \A s \in Side : child[m][s] # x
      BY <2>1, <2>3, <1>3
    <3>2. \A s \in Side : child'[m][s] = child[m][s]
      BY <3>1, <2>1, <1>1 DEF Cut
    <3>3. \A s \in Side : CumAt(child[m][s])' = CumAt(child[m][s])
      BY <3>2, <1>2 DEF CumAt
    <3>4. m \in Stale
      BY <3>3, <2>1, <1>2, <1>5, StaysCurrent
    <3>5. m \in Way(parent, x)
      BY <3>4, <1>1, <1>4, <1>5 DEF WayLaws
    <3>6. /\ c # None => parent[c] = x
          /\ \A y \in Index \ {c} : parent'[y] = parent[y]
      BY <1>1 DEF Cut
    <3> HIDE DEF Ref
    <3> QED  BY <3>5, <3>6, <2>1, <1>1, <1>3, WayOn
  <2> QED  BY <2>2, <2>3
<1> QED  BY <1>2, <1>4, <1>5 DEF WayLaws, FixRemoveStep

(* The last node of a tree has nothing above it ...                        *)
LEMMA UnlinkLastWay ==
  ASSUME TypeOK, TypeOK', NEW D \in [Ref -> SUBSET Index], NEW rk \in [Index -> Int],
         Laws(D, rk), WayLaws, UnlinkLast
  PROVE  WayLaws'
<1>0. PICK x : x = node
  OBVIOUS
<1>1. /\ pc = "unlink" /\ pc # "idle" /\ pc' = "free" /\ UNCHANGED <<key, val, cum, parent, child, node>>
      /\ parent[x] = None /\ Focus = x
  BY <1>0, FocusIs DEF UnlinkLast, data, links, FocusFacts
<1>2. Hung' = Hung \ {x} /\ x \in Hung
  <2>1. x \in Own(D) /\ Own(D) \subseteq Hung
    BY <1>0, <1>1, OwnCall DEF UpdateLaws, InTree
  <2>2. Hung' = Hung \ {x}
    BY <1>0, <1>1 DEF Hung, Limbo, Unlinked, Live
  <2> QED  BY <2>1, <2>2
<1>3. ASSUME HasCumulant, NEW m \in Stale' PROVE FALSE
  <2>1. m \in Hung /\ m # x
    BY <1>2, <1>3 DEF Stale
  <2>2. m \in Stale
    BY <2>1, <1>1, <1>3, StaysCurrent DEF CumAt
  <2>3. m \in Way(parent, x)
    BY <2>2, <1>1, <1>3 DEF WayLaws
  <2>4. /\ parent \in [Index -> Ref] /\ x \in Index /\ None \in Ref /\ None \notin Index
    BY <1>2, HungClosed DEF TypeOK
  <2>5. m \in Way(parent, parent[x])
    <3> HIDE DEF Ref
    <3> QED  BY <2>1, <2>3, <2>4, WayOn
  <2> QED  BY <2>5, <1>1, WayNone
<1> QED  BY <1>1, <1>3, WayFrame DEF FixRemoveStep

(* ... and the slot that is freed nothing around it.                       *)
LEMMA FreeWay ==
  ASSUME TypeOK, TypeOK', NEW D \in [Ref -> SUBSET Index], NEW rk \in [Index -> Int],
         Laws(D, rk), WayLaws, FreeAny
  PROVE  WayLaws'
<1>0. PICK x : x = node
  OBVIOUS
<1>1. /\ pc = "free" /\ pc' = "idle" /\ Focus = None /\ Limbo /\ ~Limbo'
      /\ key' = [key EXCEPT ![x] = None]
      /\ \A m \in Index \ {x} : val'[m] = val[m] /\ cum'[m] = cum[m] /\ child'[m] = child[m]
  BY <1>0, FocusIs DEF FreeAny, FocusFacts, Limbo, Unlinked
<1>2. /\ key \in [Index -> Keys \cup {None}] /\ val \in [Index -> Values]
      /\ cum \in [Index -> Cumulants] /\ child \in [Index -> [Side -> Ref]]
      /\ \A m \in Hung, s \in Side : child[m][s] \in Hung \cup {None}
  BY HungClosed DEF TypeOK
<1>3. Hung' \subseteq Hung /\ Hung \subseteq Index \ {x} /\ None \notin Index
  <2>1. Hung = Live \ {x} /\ Hung' = Live'
    BY <1>0, <1>1 DEF Hung
  <2> QED  BY <2>1, <1>1, <1>2, NoneAssumption DEF Live
<1>4. ASSUME HasCumulant, NEW m \in Stale' PROVE FALSE
  <2>1. m \in Hung /\ m # x /\ m \in Index /\ Stale = {}
    BY <1>1, <1>3, <1>4, NoneStale DEF Stale
  <2>2. val'[m] = val[m] /\ cum'[m] = cum[m] /\ child'[m] = child[m]
    BY <2>1, <1>1, <1>2
  <2>3. \A s \in Side : child[m][s] # None => child[m][s] \in Index \ {x}
    BY <2>1, <1>2, <1>3
  <2>4. \A s \in Side : CumAt(child[m][s])' = CumAt(child[m][s])
    BY <2>2, <2>3, <1>1, <1>2 DEF CumAt
  <2>5. m \notin Stale'
    BY <2>1, <2>2, <2>4, StaysCurrent
  <2> QED  BY <2>5, <1>4
<1> QED  BY <1>1, <1>4, WayFrame DEF FixRemoveStep

-----------------------------------------------------------------------------
(* A rotation recomputes the cumulant of the node it takes down: only the  *)
(* one it puts in its place and the parent of both may be out of date      *)
(* afterwards that were not; and both are on every way up from below.      *)
LEMMA RotateWay ==
  ASSUME TypeOK, TypeOK', NEW D \in [Ref -> SUBSET Index], NEW rk \in [Index -> Int],
         Laws(D, rk), pc # "idle", NEW i \in Side, NEW n \in D[root[call.tree]], Rotate(i, n),
         Hung' = Hung, val' = val, NEW v, v = child[n][1 - i], NEW f \in Ref
  PROVE  /\ n \in Hung /\ v \in Hung /\ v # n
         /\ Turned(i, n, v, child[v][i])
         /\ HasCumulant => \A m \in Stale' : m # n /\ (m \in Stale \/ m = v \/ m = parent[n])
         /\ \A m \in Way(parent, f) : m # n => m \in Way(parent', f)
         /\ n \in Way(parent, f) =>
              /\ v \in Way(parent', f)
              /\ parent[n] # None => parent[n] \in Way(parent', f)
<1>w. PICK w : w = child[v][i]
  OBVIOUS
<1>1. Turned(i, n, v, w) /\ n \in Hung /\ v \in Hung /\ w \in Ref
  <2>1. call \in Call /\ LinkLaws(D, rk)
    BY OwnCall DEF Laws
  <2> HIDE DEF Side, Ref
  <2> QED  BY <2>1, <1>w, RotateLinks
<1>2. /\ Hung \subseteq Index /\ None \notin Index
      /\ \A m \in Hung, s \in Side : child[m][s] \in Hung \cup {None}
      /\ \A m \in Hung, s \in Side : child[m][s] # None => parent[child[m][s]] = m
  BY HungClosed
<1>3. /\ cum \in [Index -> Cumulants] /\ child \in [Index -> [Side -> Ref]]
      /\ parent \in [Index -> Ref] /\ parent' \in [Index -> Ref]
      /\ child' \in [Index -> [Side -> Ref]]
  BY DEF TypeOK
<1>4. /\ v # n /\ v # None /\ w # v /\ w # n /\ parent[v] = n /\ (w # None => parent[w] = v)
      /\ parent'[v] = parent[n] /\ parent'[n] = v /\ (w # None => parent'[w] = n)
      /\ \A m \in Index \ {n, v, w} : parent'[m] = parent[m]
      /\ child'[n][i] = child[n][i] /\ child'[n][1 - i] = w
      /\ \A m \in Hung \ {n, v}, s \in Side :
           child'[m][s] = IF child[m][s] = n THEN v ELSE child[m][s]
  BY <1>1 DEF Turned
<1>5. ASSUME HasCumulant, NEW m \in Stale' PROVE m # n /\ (m \in Stale \/ m = v \/ m = parent[n])
  <2>1. cum' = [cum EXCEPT ![n] = CumulantOf(n, child'[n])]
    BY <1>5 DEF Rotate, LoweredCumulant
  <2>2. \A c \in Ref : c # n => CumAt(c)' = CumAt(c)
    BY <2>1, <1>3 DEF CumAt
  <2>3. m # n
    <3>1. cum'[n] = Combine(val[n], CumAt(child'[n][0]), CumAt(child'[n][1]))
      BY <2>1, <1>1, <1>2, <1>3 DEF CumulantOf, CumAt
    <3>2. CumulantOf(n, child[n])' = Combine(val'[n], CumAt(child[n][0])', CumAt(child[n][1])')
      BY DEF CumulantOf, CumAt
    <3>3. \A s \in Side : child'[n][s] \in Ref /\ child'[n][s] # n
      <4>1. child[n][i] # n
        <5>1. parent[n] # n /\ n # None
          BY <1>1, HungClosed
        <5> QED  BY <5>1, <1>1, <1>2
      <4> QED  BY <4>1, <1>1, <1>2, <1>3, <1>4
    <3>4. \A s \in Side : CumAt(child[n][s])' = CumAt(child'[n][s])
      BY <3>3, <2>1, <1>3 DEF CumAt
    <3>5. cum'[n] = CumulantOf(n, child[n])'
      BY <3>1, <3>2, <3>4
    <3>6. n \notin Stale'
      BY <3>5 DEF Stale
    <3> QED  BY <3>6, <1>5
  <2>4. SUFFICES ASSUME m # v, m # parent[n] PROVE m \in Stale
    BY <2>3
  <2>5. m \in Hung
    BY <1>5 DEF Stale
  <2>6. \A s \in Side : child[m][s] # n /\ child[m][s] \in Ref
    BY <2>4, <2>5, <1>1, <1>2
  <2>7. \A s \in Side : child'[m][s] = child[m][s]
    BY <2>3, <2>4, <2>5, <2>6, <1>4
  <2>8. \A s \in Side : CumAt(child[m][s])' = CumAt(child[m][s])
    BY <2>2, <2>6, <2>7 DEF CumAt
  <2>9. cum'[m] = cum[m]
    BY <2>1, <2>3, <2>5, <1>2, <1>3
  <2> QED  BY <2>5, <2>8, <2>9, <1>5, StaysCurrent
<1>6. n \in Index /\ v \in Index
  BY <1>1, <1>2
<1>7. ASSUME NEW m \in Way(parent, f)
      PROVE  (m # n => m \in Way(parent', f)) /\ (m = n => v \in Way(parent', f))
  <2>1. Lifted(parent, parent', n, v, w)
    BY <1>1, <1>4, <1>6 DEF Lifted
  <2> HIDE DEF Ref
  <2> QED  BY <2>1, <1>3, WayTurn
<1>8. ASSUME n \in Way(parent, f), parent[n] # None PROVE parent[n] \in Way(parent', f)
  <2>1. v \in Way(parent', f) /\ parent'[v] = parent[n]
    BY <1>4, <1>7, <1>8
  <2> QED  BY <2>1, <1>3, <1>8, WayUp
<1> QED  BY <1>1, <1>4, <1>5, <1>7, <1>8, <1>w

(* fix_insert rotates on the way up from the new node.                     *)
LEMMA FixInsertWay ==
  ASSUME TypeOK, TypeOK', NEW D \in [Ref -> SUBSET Index], NEW rk \in [Index -> Int],
         Laws(D, rk), NEW h \in [Ref -> Nat], BalanceLaws(h), WayLaws,
         FixInsertInner \/ FixInsertOuter
  PROVE  WayLaws'
<1>0. PICK x, p, g, us : x = ptr /\ p = parent[ptr] /\ g = Grandparent /\ us = UncleSide
  OBVIOUS
<1>1. /\ pc \in {"fix_insert", "rotate_outer"} /\ pc # "idle" /\ pc # "red_far_nephew" /\ IsRed(p)
      /\ UNCHANGED <<key, val, call, node>> /\ pc' \in {"fix_insert", "rotate_outer", "blacken"}
  <2>1. RepairLaws
    BY DEF BalanceLaws
  <2> QED  BY <2>1, <1>0 DEF FixInsertInner, FixInsertOuter, RepairLaws, RedParent, data
<1>2. Hung' = Hung /\ Focus = node /\ Focus' = node /\ node \in Ref
  BY <1>1, FocusIs DEF Hung, Live, Limbo, Unlinked, FocusFacts, InsertStep, TypeOK
<1>3. /\ InsertSpot(x, p, g, us, h) /\ g \in D[root[call.tree]] /\ p \in D[root[call.tree]]
  BY <1>0, <1>1, AtInsertSpot
<1>4. /\ x \in Hung /\ p \in Hung /\ g \in Hung /\ x # p /\ x # g /\ p # g
      /\ parent[x] = p /\ parent[p] = g /\ us \in Side /\ child[g][1 - us] = p
      /\ 1 - us \in Side /\ 1 - (1 - us) = us
  BY <1>3 DEF InsertSpot
<1>5. p \in Way(parent, node) /\ g \in Way(parent, node)
  <2>1. p \in Way(parent, node)
    BY <1>0, <1>1, <1>2 DEF WayLaws
  <2>2. g # None
    BY <1>4, HungLive, NoneAssumption
  <2>3. parent \in [Index -> Ref]
    BY DEF TypeOK
  <2> QED  BY <2>1, <2>2, <2>3, <1>2, <1>4, WayUp
<1>6. HasCumulant => \A m \in Stale : m \in Way(parent, node)
  BY <1>1, <1>2 DEF WayLaws
<1>7. \A m \in Stale' : m # None
  BY HungClosed, <1>2 DEF Stale
<1>8. CASE FixInsertInner
  <2>1. child[p][us] = x /\ Rotate(1 - us, p) /\ ptr' = p /\ pc' = "rotate_outer"
    <3>1. \E s \in Side : child[p][s] = x
      <4>1. p # None
        BY <1>4, HungClosed
      <4> QED  BY <4>1, <1>4, HungClosed
    <3> QED  BY <3>1, <1>8, <1>0 DEF FixInsertInner, SideOf
  <2>2. /\ Turned(1 - us, p, x, child[x][1 - us])
        /\ HasCumulant => \A m \in Stale' : m # p /\ (m \in Stale \/ m = x \/ m = g)
        /\ \A m \in Way(parent, node) : m # p => m \in Way(parent', node)
        /\ x \in Way(parent', node) /\ (g # None => g \in Way(parent', node))
    <3>1. x = child[p][1 - (1 - us)]
      BY <2>1, <1>4
    <3> HIDE DEF Side, Ref
    <3> QED  BY <3>1, <2>1, <1>1, <1>2, <1>3, <1>4, <1>5, RotateWay
  <2>3. (parent[ptr])' = x
    BY <2>1, <2>2 DEF Turned
  <2>4. HasCumulant => \A m \in Stale' : m \in Way(parent', node)
    BY <2>2, <1>6, <1>7
  <2> QED  BY <2>1, <2>2, <2>3, <2>4, <1>2 DEF WayLaws, FixRemoveStep
<1>9. CASE FixInsertOuter
  <2>1. /\ Rotate(us, g) /\ ptr' = x /\ pc' \in {"fix_insert", "blacken"}
        /\ color' = [color EXCEPT ![p] = "Black", ![g] = "Red"]
    BY <1>9, <1>0 DEF FixInsertOuter
  <2>2. /\ Turned(us, g, p, child[p][us])
        /\ HasCumulant => \A m \in Stale' : m # g /\ (m \in Stale \/ m = p \/ m = parent[g])
        /\ \A m \in Way(parent, node) : m # g => m \in Way(parent', node)
        /\ p \in Way(parent', node) /\ (parent[g] # None => parent[g] \in Way(parent', node))
    <3> HIDE DEF Side, Ref
    <3> QED  BY <2>1, <1>1, <1>2, <1>3, <1>4, <1>5, RotateWay
  <2>3. ~IsRed(parent[ptr])'
    <3>1. child[p][1 - us] = x
      <4>1. CASE pc = "rotate_outer"
        BY <4>1, <1>0 DEF BalanceLaws, RepairLaws
      <4>2. CASE pc # "rotate_outer"
        <5>1. SideOf(p, x) # us
          BY <4>2, <1>0, <1>9 DEF FixInsertOuter
        <5>2. \E s \in Side : child[p][s] = x
          <6>1. p # None
            BY <1>4, HungClosed
          <6> QED  BY <6>1, <1>4, HungClosed
        <5> QED  BY <5>1, <5>2, <1>4 DEF SideOf
      <4> QED  BY <4>1, <4>2
    <3>2. x # child[p][us]
      <4>1. x # None
        BY <1>4, HungClosed
      <4>2. us # 1 - us
        BY <1>4
      <4> QED  BY <3>1, <4>1, <4>2, <1>4, HungClosed
    <3>3. parent'[x] = p
      <4>1. x \in Index
        BY <1>4, HungClosed
      <4> QED  BY <3>2, <4>1, <2>2, <1>4 DEF Turned
    <3>4. color'[p] = "Black"
      <4>1. p \in Index /\ color \in [Index -> Color]
        BY <1>4, HungClosed DEF TypeOK
      <4> QED  BY <4>1, <2>1, <1>4
    <3> QED  BY <3>3, <3>4, <2>1 DEF IsRed
  <2>4. HasCumulant => \A m \in Stale' : m \in Way(parent', node)
    BY <2>2, <1>6, <1>7
  <2> QED  BY <2>1, <2>3, <2>4, <1>2 DEF WayLaws, FixRemoveStep
<1> QED  BY <1>8, <1>9

(* fix_remove rotates on the way up from the parent of the cut node, or    *)
(* puts a node next to it that the next rotation lifts onto it.            *)
LEMMA FixRemoveWay ==
  ASSUME TypeOK, TypeOK', NEW D \in [Ref -> SUBSET Index], NEW rk \in [Index -> Int],
         Laws(D, rk), NEW h \in [Ref -> Nat], BalanceLaws(h), WayLaws,
         FixRemoveRedSibling \/ FixRemoveCloseNephew \/ FixRemoveFarNephew
  PROVE  WayLaws'
<1>0. PICK q, c, s, d, f : q = par /\ c = child[par][dir] /\ s = Sibling /\ d = dir /\ f = parent[node]
  OBVIOUS
<1>1. /\ pc \in FixRemoveStep /\ pc # "idle" /\ pc' \in Unlinked
      /\ UNCHANGED <<key, val, call, node, par, dir>>
  BY DEF FixRemoveRedSibling, FixRemoveCloseNephew, FixRemoveFarNephew, AtBlackSibling,
         FixRemoveStep, Unlinked, data
<1>2. /\ Hung' = Hung /\ node \in Index \ Hung /\ f \in Hung \cup {None}
  BY <1>0, <1>1, RemoveStay
<1>3. /\ RemoveSpot(q, c, s, d, h) /\ q \in D[root[call.tree]] /\ s \in D[root[call.tree]]
  BY <1>0, <1>1, AtRemoveSpot
<1>4. /\ q \in Hung /\ s \in Hung /\ s # q /\ s # c /\ d \in Side
      /\ child[q][d] = c /\ child[q][1 - d] = s /\ parent[s] = q /\ c # q
      /\ 1 - d \in Side /\ 1 - d # d /\ 1 - (1 - d) = d
  BY <1>3 DEF RemoveSpot
<1>5. /\ Focus = f /\ f \in Ref /\ parent \in [Index -> Ref] /\ parent' \in [Index -> Ref]
      /\ q # None /\ Hung \subseteq Index /\ None \notin Index
  <2>1. Focus = f /\ f \in Ref
    BY <1>0, <1>1, <1>2, FocusIs, HungLive DEF FocusFacts, FixRemoveStep, Unlinked
  <2>2. Hung \subseteq Index /\ None \notin Index
    BY HungLive, NoneAssumption
  <2>3. parent \in [Index -> Ref] /\ parent' \in [Index -> Ref]
    BY DEF TypeOK
  <2> QED  BY <2>1, <2>2, <2>3, <1>4
<1>6. q = f \/ c \in Way(parent, f)
  BY <1>0, <1>1, <1>5 DEF WayLaws
<1>7. q \in Way(parent, f)
  <2>1. CASE q = f
    BY <2>1, <1>5, WayUp
  <2>2. CASE c \in Way(parent, f)
    <3>1. c # None
      BY <2>2, <1>5 DEF Way
    <3>2. parent[c] = q
      BY <3>1, <1>4, HungClosed
    <3> QED  BY <2>2, <3>2, <1>5, WayUp
  <2> QED  BY <2>1, <2>2, <1>6
<1>8. HasCumulant => \A m \in Stale : m \in Way(parent, f) \/ (pc = "red_far_nephew" /\ m = s)
  BY <1>0, <1>5 DEF WayLaws
<1>9. \A m \in Stale' : m # None
  BY <1>2, <1>5 DEF Stale
<1>10. ASSUME NEW i, NEW n \in Hung, NEW v \in Hung, Turned(i, n, v, child[v][i])
       PROVE  Focus' = f
  <2>1. Focus' = parent'[node]
    BY <1>1, FocusIs DEF FocusFacts
  <2>2. node \notin {n, v, child[v][i]}
    BY <1>2, <1>5, <1>10 DEF Turned
  <2>3. parent'[node] = parent[node]
    BY <2>2, <1>2, <1>10 DEF Turned
  <2> QED  BY <2>1, <2>3, <1>0
<1>11. CASE Rotate(d, q)
  <2>1. /\ Turned(d, q, s, child[s][d])
        /\ HasCumulant => \A m \in Stale' : m # q /\ (m \in Stale \/ m = s \/ m = parent[q])
        /\ \A m \in Way(parent, f) : m # q => m \in Way(parent', f)
        /\ s \in Way(parent', f) /\ (parent[q] # None => parent[q] \in Way(parent', f))
    <3> HIDE DEF Side, Ref
    <3> QED  BY <1>1, <1>2, <1>3, <1>4, <1>5, <1>7, <1>11, RotateWay
  <2>2. HasCumulant => \A m \in Stale' : m \in Way(parent', f)
    BY <2>1, <1>8, <1>9
  <2>3. Focus' = f
    BY <2>1, <1>4, <1>10
  <2>4. child'[q][d] = c
    BY <2>1, <1>4 DEF Turned
  <2>5. (par = Focus \/ child[par][dir] \in Way(parent, Focus))'
    BY <2>1, <2>3, <2>4, <1>0, <1>1, <1>4, <1>6
  <2> QED  BY <2>2, <2>3, <2>5, <1>1 DEF WayLaws, Unlinked
<1>12. CASE FixRemoveCloseNephew
  <2>0. PICK v : v = child[s][d]
    OBVIOUS
  <2>1. Rotate(1 - d, s) /\ pc # "red_far_nephew" /\ pc' = "red_far_nephew"
    BY <1>0, <1>12 DEF FixRemoveCloseNephew, AtBlackSibling
  <2>2. /\ Turned(1 - d, s, v, child[v][1 - d]) /\ v \in Hung
        /\ HasCumulant => \A m \in Stale' : m # s /\ (m \in Stale \/ m = v \/ m = parent[s])
        /\ \A m \in Way(parent, f) : m # s => m \in Way(parent', f)
    <3>1. v = child[s][1 - (1 - d)]
      BY <2>0, <1>4
    <3> HIDE DEF Side, Ref
    <3> QED  BY <3>1, <2>1, <1>1, <1>2, <1>3, <1>4, <1>5, RotateWay
  <2>3. Focus' = f
    BY <2>2, <1>4, <1>10
  <2>4. v # q
    <3>1. Apart(parent, child, D, s)
      BY <1>4, OwnApart
    <3> QED  BY <3>1, <2>0, <1>4, <1>5 DEF Apart
  <2>5. child'[q][d] = c /\ child'[q][1 - d] = v
    BY <2>2, <2>4, <1>4 DEF Turned
  <2>6. Sibling' = v
    BY <2>5, <1>0, <1>1 DEF Sibling
  <2>7. HasCumulant => \A m \in Stale' : m \in Way(parent', f) \/ m = v
    BY <2>1, <2>2, <1>4, <1>7, <1>8
  <2>8. (par = Focus \/ child[par][dir] \in Way(parent, Focus))'
    BY <2>2, <2>3, <2>5, <1>0, <1>1, <1>4, <1>6
  <2> QED  BY <2>1, <2>3, <2>6, <2>7, <2>8 DEF WayLaws
<1>13. FixRemoveRedSibling \/ FixRemoveFarNephew => Rotate(d, q)
  BY <1>0 DEF FixRemoveRedSibling, FixRemoveFarNephew
<1> QED  BY <1>11, <1>12, <1>13

-----------------------------------------------------------------------------
(* Every step but an overwriting insert keeps the law.                     *)
LEMMA StepWay ==
  ASSUME TypeOK, TypeOK', NEW D \in [Ref -> SUBSET Index], NEW rk \in [Index -> Int],
         Laws(D, rk), NEW h \in [Ref -> Nat], BalanceLaws(h), WayLaws,
         [Next]_vars, ~InsertHere
  PROVE  WayLaws'
<1>1. CASE \E op \in Op, t \in Trees, k \in Keys, v \in Values \cup {None} : CallOp(op, t, k, v)
  BY <1>1, QuietWay
<1>2. CASE Relink
  <2>1. CASE Descend
    BY <2>1, QuietWay
  <2>2. CASE FixInsertDone \/ FixInsertRecolor \/ Blacken \/ FixRemoveRecolor \/ Unthread
    BY <2>2, StillWay
  <2>3. CASE FixInsertInner \/ FixInsertOuter
    BY <2>3, FixInsertWay
  <2>4. CASE Propagate
    BY <2>4, PropagateWay
  <2>5. CASE RemoveHere
    BY <2>5, RemoveHereWay
  <2>6. CASE (\E i \in Side : UnlinkOneChild(i)) \/ UnlinkLeaf
    <3> HIDE DEF Side, Ref
    <3> QED  BY <2>6, UnlinkWay
  <2>7. CASE UnlinkLast
    BY <2>7, UnlinkLastWay
  <2>8. CASE FixRemoveRedSibling \/ FixRemoveCloseNephew \/ FixRemoveFarNephew
    BY <2>8, FixRemoveWay
  <2> HIDE DEF Side, Ref
  <2> QED  BY <1>2, <2>1, <2>2, <2>3, <2>4, <2>5, <2>6, <2>7, <2>8 DEF Relink
<1>3. CASE Get \/ Search \/ RemoveMiss
  BY <1>3, QuietWay
<1>4. ASSUME NEW n \in Index \ Live, InsertEmpty(n) PROVE WayLaws'
  BY <1>4, InsertEmptyWay
<1>5. ASSUME NEW n \in Index \ Live, InsertAt(n) PROVE WayLaws'
  BY <1>5, InsertHangs, HangAnyWay
<1>6. CASE Free
  BY <1>6, FreeIsAny, FreeWay
<1>7. CASE UNCHANGED vars
  BY <1>7, StutterWay
<1>8. Next => \/ \E op \in Op, t \in Trees, k \in Keys, v \in Values \cup {None} : CallOp(op, t, k, v)
              \/ Step
  BY DEF Next, Op
<1> HIDE DEF Side, Ref
<1> QED  BY <1>1, <1>2, <1>3, <1>4, <1>5, <1>6, <1>7, <1>8 DEF Step

(* No cumulant is stale in the empty forest.                               *)
LEMMA InitWay == Init => WayLaws
<1> SUFFICES ASSUME Init PROVE WayLaws
  OBVIOUS
<1>1. Stale = {}
  BY HungLive DEF Init, Stale, Live
<1> QED  BY <1>1 DEF WayLaws, Init, FixRemoveStep

(* The law of the ways is the one that the runs check.                     *)
LEMMA WayCumulant ==
  ASSUME TypeOK, LawsHold, BalanceHolds, WayLaws
  PROVE  CumulantLaws
<1>1. PICK D \in [Ref -> SUBSET Index], rk \in [Index -> Int] : Laws(D, rk)
  BY DEF LawsHold
<1>2. Focus \in Ref
  <2>1. pc \in Unlinked => node \in Index
    BY NoneAssumption DEF TypeOK, Unlinked, RemoveStep, FixRemoveStep
  <2> QED  BY <2>1 DEF Focus, TypeOK
<1>3. Path(Focus) = Way(parent, Focus)
  BY <1>2, WayIsPath
<1> QED  BY <1>3 DEF CumulantLaws, WayLaws

(* Between calls nothing is out of date.                                   *)
LEMMA WayCurrent == WayLaws => CumulantsCurrent
<1> SUFFICES ASSUME WayLaws, pc = "idle", HasCumulant, NEW n \in Live
             PROVE  cum[n] = CumulantOf(n, child[n])
  BY DEF CumulantsCurrent
<1>1. Focus = None /\ ~Limbo
  BY FocusIs DEF FocusFacts, Limbo, Unlinked
<1>2. Stale = {} /\ n \in Hung
  BY <1>1, NoneStale DEF Hung
<1> QED  BY <1>2 DEF Stale

-----------------------------------------------------------------------------
(* Clients that never insert a key that is there: an overwrite discards    *)
(* the cumulant of the node and propagates nothing.                        *)
NeverOverwrites == [][~InsertHere]_vars

(* Without overwrites, at every step of every call, a cumulant that is out *)
(* of date is one that propagate_cumulant will pass on its way up, or that *)
(* the next rotation of fix_remove lifts onto that way.                    *)
THEOREM StaleOnTheWay == Spec /\ NeverOverwrites => [](CumulantLaws /\ CumulantsCurrent)
<1>1. Init => WayLaws
  BY InitWay
<1>2. TypeOK /\ LawsHold /\ BalanceHolds /\ WayLaws /\ [Next]_vars /\ [~InsertHere]_vars => WayLaws'
  <2> SUFFICES ASSUME TypeOK, LawsHold, BalanceHolds, WayLaws, [Next]_vars, [~InsertHere]_vars
               PROVE  WayLaws'
    OBVIOUS
  <2>1. TypeOK'
    BY NextType
  <2>2. PICK D \in [Ref -> SUBSET Index], rk \in [Index -> Int] : Laws(D, rk)
    BY DEF LawsHold
  <2>3. PICK h \in [Ref -> Nat] : BalanceLaws(h)
    BY DEF BalanceHolds
  <2>4. CASE UNCHANGED vars
    BY <2>4, StutterWay
  <2>5. CASE ~InsertHere
    BY <2>1, <2>2, <2>3, <2>5, StepWay
  <2> QED  BY <2>4, <2>5
<1>3. TypeOK /\ LawsHold /\ BalanceHolds /\ WayLaws => CumulantLaws /\ CumulantsCurrent
  BY WayCumulant, WayCurrent
<1> QED  BY <1>1, <1>2, <1>3, BalanceCorrect, PTL DEF Spec, NeverOverwrites

(* Without overwrites the cumulant of every node is, between calls, the    *)
(* one that update_cumulant makes of its value and the cumulants of its    *)
(* children: what insert and remove leave, rotations included, no reader   *)
(* can tell from a tree that was built anew.                               *)
THEOREM CumulantsCorrect == Spec /\ NeverOverwrites => []CumulantsCurrent
  BY StaleOnTheWay, PTL
=============================================================================
