---------------------------- MODULE RBTreeJoins ----------------------------
(***************************************************************************)
(* The laws, the balance and the cumulants of RBTree across the steps that *)
(* make two trees one and one tree two (JoinSplit), and across those that  *)
(* take a whole tree away: what a forest does to its trees beside the      *)
(* operations of a single one.                                             *)
(***************************************************************************)
EXTENDS JoinSplit, RBTreeBalance

USE DEF Side, Ref

-----------------------------------------------------------------------------
(* The links after the pivot n took the place of `at` in tree t: its child *)
(* on side i is `at`, the one on side j the root b of tree u.              *)
Pivoted(L, P, C, R, D, P2, C2, R2, E, i, j, n, at, b, t, u) ==
  /\ P2[n] = P[at] /\ P2[at] = n /\ P2[b] = n
  /\ \A m \in L : m # at /\ m # b => P2[m] = P[m]
  /\ C2[n][i] = at /\ C2[n][j] = b
  /\ \A m \in L, s \in Side : C2[m][s] = IF C[m][s] = at THEN n ELSE C[m][s]
  /\ R2[u] = None /\ R2[t] = IF R[t] = at THEN n ELSE R[t]
  /\ \A v \in Trees : v # t /\ v # u => R2[v] = R[v]
  /\ E[None] = {} /\ E[n] = {n} \cup D[at] \cup D[b]
  /\ \A m \in L : E[m] = IF at \in D[m] /\ m # at THEN D[m] \cup {n} \cup D[b] ELSE D[m]

(* Tree t has got n and the nodes of u; u has none left.                   *)
JoinedTrees(R, D, R2, E, t, u, n) ==
  /\ E[R2[t]] = D[R[t]] \cup {n} \cup D[R[u]]
  /\ E[R2[u]] = {}
  /\ \A v \in Trees : v # t /\ v # u => E[R2[v]] = D[R[v]]

(* Between the trees, in the order that runs away on side j, the ranks are *)
(* those of u, then n, then those of t, of which `near` comes first.       *)
Meets(D, rk, A, B, j, n, at, near) ==
  /\ \A x \in A : Before(j, rk[n], rk[x])
  /\ \A y \in B : Before(j, rk[y], rk[n])
  /\ near \in D[at] /\ \A x \in A : x # near => Before(j, rk[near], rk[x])

(* The links of the joined trees agree and reach every node.               *)
LEMMA JoinedLinks ==
  ASSUME NEW L \in SUBSET Index,
         NEW P \in [Index -> Ref], NEW C \in [Index -> [Side -> Ref]],
         NEW R \in [Trees -> Ref], NEW D \in [Ref -> SUBSET Index],
         NEW rk \in [Index -> Int], Shape(L, P, C, R, D, rk),
         NEW i \in Side, NEW j \in Side, i # j,
         NEW t \in Trees, NEW u \in Trees, t # u, NEW b \in Index, b = R[u],
         NEW at \in D[R[t]], NEW n \in Index \ L, NEW L2, L2 = L \cup {n},
         NEW P2 \in [Index -> Ref], NEW C2 \in [Index -> [Side -> Ref]],
         NEW R2 \in [Trees -> Ref], NEW E \in [Ref -> SUBSET Index],
         Pivoted(L, P, C, R, D, P2, C2, R2, E, i, j, n, at, b, t, u)
  PROVE  /\ Linked(L2, P2, C2) /\ NoCycle(L2, P2) /\ Descends(L2, P2, C2, E)
         /\ Rooted(L2, P2, R2, E) /\ JoinedTrees(R, D, R2, E, t, u, n)
<1>p. /\ P2[n] = P[at] /\ P2[at] = n /\ P2[b] = n
      /\ \A m \in L : m # at /\ m # b => P2[m] = P[m]
      /\ C2[n][i] = at /\ C2[n][j] = b
      /\ \A m \in L, s \in Side : C2[m][s] = IF C[m][s] = at THEN n ELSE C[m][s]
      /\ R2[u] = None /\ R2[t] = IF R[t] = at THEN n ELSE R[t]
      /\ \A v \in Trees : v # t /\ v # u => R2[v] = R[v]
      /\ E[None] = {} /\ E[n] = {n} \cup D[at] \cup D[b]
      /\ \A m \in L : E[m] = IF at \in D[m] /\ m # at THEN D[m] \cup {n} \cup D[b] ELSE D[m]
  BY DEF Pivoted
<1>a. /\ Linked(L, P, C) /\ NoCycle(L, P) /\ Descends(L, P, C, D)
      /\ Rooted(L, P, R, D) /\ Sorted(L, C, R, D, rk)
  BY DEF Shape
<1>A. PICK A : A = D[R[t]]
  OBVIOUS
<1>B. PICK B : B = D[b]
  OBVIOUS
<1>1. /\ InTree(L, P, C, R, D, t, A) /\ InTree(L, P, C, R, D, u, B)
      /\ \A v \in Trees : InTree(L, P, C, R, D, v, D[R[v]])
  <2> HIDE DEF Side, Ref
  <2>1. \A v \in Trees : InTree(L, P, C, R, D, v, D[R[v]])
    BY Family
  <2> QED  BY <2>1, <1>A, <1>B
<1>2. /\ None \notin Index /\ D[None] = {} /\ n # None /\ n \notin L
      /\ \A m \in L : D[m] \subseteq L /\ m \in D[m] /\ m # None /\ m # n
      /\ \A m \in L : \A x \in D[m] : D[x] \subseteq D[m]
      /\ \A m \in L : \A x \in D[m] : x # m => P[x] \in D[m]
      /\ \A m \in L : D[m] = {m} \cup D[C[m][0]] \cup D[C[m][1]]
  BY <1>a, NoneAssumption DEF Descends
<1>3. /\ \A m \in L, s \in Side : C[m][s] # None => C[m][s] \in L /\ P[C[m][s]] = m
      /\ \A m \in L : P[m] # None => P[m] \in L /\ \E s \in Side : C[P[m]][s] = m
  BY <1>a DEF Linked
<1>4. /\ A \subseteq L /\ B \subseteq L /\ at \in A /\ at \in L /\ b \in B /\ b \in L /\ P[b] = None
      /\ A \cap B = {} /\ at # b /\ at \notin B /\ b \notin A /\ n \notin A /\ n \notin B
  BY <1>1, <1>2, <1>A, <1>B DEF InTree
<1>5. /\ \A m \in A : P[m] # None => P[m] \in A
      /\ \A m \in B : P[m] # None => P[m] \in B
      /\ \A m \in B : P[m] = None => m = b
  BY <1>1, <1>B DEF InTree
<1>6. ASSUME NEW m \in L PROVE Apart(P, C, D, m)
  <2> HIDE DEF Side, Ref
  <2> QED  BY <1>6, Distinct
<1>7. \A m \in L, s \in Side : C[m][s] # b /\ C[m][s] # n /\ (C[m][s] = at => P[at] = m)
  BY <1>2, <1>3, <1>4
<1>8. Linked(L2, P2, C2)
  <2>1. ASSUME NEW m \in L2, NEW s \in Side, C2[m][s] # None
        PROVE  C2[m][s] \in L2 /\ P2[C2[m][s]] = m
    <3>1. CASE m = n
      <4>1. C2[m][s] = at \/ C2[m][s] = b
        BY <3>1, <1>p
      <4> QED  BY <4>1, <3>1, <1>p, <1>4
    <3>2. CASE m # n /\ C[m][s] = at
      BY <3>2, <1>p, <1>7
    <3>3. CASE m # n /\ C[m][s] # at
      <4>1. m \in L /\ C2[m][s] = C[m][s]
        BY <3>3, <1>p
      <4>2. C[m][s] \in L /\ P[C[m][s]] = m /\ C[m][s] # b
        BY <4>1, <2>1, <1>3, <1>7
      <4> QED  BY <4>1, <4>2, <3>3, <1>p
    <3> QED  BY <3>1, <3>2, <3>3
  <2>2. ASSUME NEW m \in L2, P2[m] # None
        PROVE  P2[m] \in L2 /\ \E s \in Side : C2[P2[m]][s] = m
    <3>1. CASE m = n
      <4>1. P[at] \in L /\ \E s \in Side : C[P[at]][s] = at
        BY <3>1, <2>2, <1>p, <1>3, <1>4
      <4> QED  BY <4>1, <3>1, <1>p
    <3>2. CASE m = at \/ m = b
      BY <3>2, <1>p
    <3>3. CASE m # n /\ m # at /\ m # b
      <4>1. m \in L /\ P2[m] = P[m]
        BY <3>3, <1>p
      <4>2. PICK s \in Side : P[m] \in L /\ C[P[m]][s] = m
        BY <4>1, <2>2, <1>3
      <4> QED  BY <4>1, <4>2, <3>3, <1>p
    <3> QED  BY <3>1, <3>2, <3>3
  <2> QED  BY <2>1, <2>2 DEF Linked
<1>9. NoCycle(L2, P2)
  <2> SUFFICES ASSUME NEW S \in SUBSET L2, S # {}, \A x \in S : P2[x] \in S PROVE FALSE
    BY DEF NoCycle
  <2>1. \A T \in SUBSET L : T # {} => \E x \in T : P[x] \notin T
    BY <1>a DEF NoCycle
  <2>2. S \cap A = {}
    <3>1. SUFFICES ASSUME S \cap A # {} PROVE FALSE
      OBVIOUS
    <3>2. PICK x \in S \cap A : P[x] \notin S \cap A
      <4>1. S \cap A \in SUBSET L
        BY <1>4
      <4> QED  BY <4>1, <3>1, <2>1
    <3>3. CASE x = at
      <4>1. P[at] \in S
        BY <3>2, <3>3, <1>p
      <4>2. P[at] \in A
        BY <4>1, <1>2, <1>4, <1>5
      <4> QED  BY <4>1, <4>2, <3>2, <3>3
    <3>4. CASE x # at
      <4>1. P[x] \in S
        BY <3>2, <3>4, <1>p, <1>4
      <4>2. P[x] \in A
        BY <4>1, <3>2, <1>2, <1>4, <1>5
      <4> QED  BY <4>1, <4>2, <3>2
    <3> QED  BY <3>3, <3>4
  <2>3. n \notin S
    <3>1. SUFFICES ASSUME n \in S PROVE FALSE
      OBVIOUS
    <3>2. P[at] \in S
      BY <3>1, <1>p
    <3> QED  BY <3>2, <2>2, <1>2, <1>4, <1>5
  <2>4. b \notin S /\ at \notin S
    BY <2>3, <1>p
  <2>5. S \in SUBSET L /\ \A x \in S : P[x] \in S
    BY <2>3, <2>4, <1>p
  <2> QED  BY <2>1, <2>5
(* What the subtrees of the children are now.                              *)
<1>10. \A s \in Side : at \notin D[C[at][s]]
  BY <1>4, <1>6 DEF Apart
<1>11. ASSUME NEW m \in L, NEW s \in Side
       PROVE  E[C2[m][s]] = IF at \in D[C[m][s]] THEN D[C[m][s]] \cup {n} \cup B ELSE D[C[m][s]]
  <2>1. CASE C[m][s] = at
    <3>1. C2[m][s] = n /\ E[n] = {n} \cup D[at] \cup B /\ at \in D[at]
      BY <2>1, <1>p, <1>2, <1>4, <1>B
    <3> QED  BY <3>1, <2>1
  <2>2. CASE C[m][s] = None
    BY <2>2, <1>p, <1>2, <1>4
  <2>3. CASE C[m][s] # at /\ C[m][s] # None
    <3>1. PICK c \in L : c = C[m][s]
      BY <2>3, <1>3
    <3>2. C2[m][s] = c /\ c # at
      BY <2>3, <3>1, <1>p
    <3>3. E[c] = IF at \in D[c] THEN D[c] \cup {n} \cup D[b] ELSE D[c]
      BY <3>1, <3>2, <1>p
    <3> QED  BY <3>1, <3>2, <3>3, <1>B
  <2> QED  BY <2>1, <2>2, <2>3
<1>12. /\ E[at] = D[at] /\ E[b] = B /\ E[n] = {n} \cup D[at] \cup B
       /\ \A m \in L : at \notin D[m] => E[m] = D[m]
       /\ \A m \in L : m # at /\ at \in D[m] => E[m] = D[m] \cup {n} \cup B
  BY <1>p, <1>4, <1>B
<1>13. \A x \in D[at] : x # at => at \notin D[x]
  <2> TAKE x \in D[at]
  <2> HAVE x # at
  <2>1. PICK s \in Side : x \in D[C[at][s]]
    BY <1>2, <1>4
  <2>2. C[at][s] \in L
    BY <2>1, <1>2, <1>3, <1>4
  <2> QED  BY <2>1, <2>2, <1>2, <1>10
<1>14. \A x \in B : E[x] = D[x] /\ D[x] \subseteq B /\ x \in L
  BY <1>2, <1>4, <1>12, <1>B
<1>15. \A x \in D[at] : E[x] = D[x] /\ x \in L
  BY <1>2, <1>4, <1>12, <1>13
<1>16. \A x \in L : E[x] \subseteq D[x] \cup {n} \cup B
  BY <1>p, <1>B
<1>17. \A m \in L : \A x \in D[m] : x # m => x # b
  BY <1>2, <1>4
<1>18. Descends(L2, P2, C2, E)
  <2>1. ASSUME NEW m \in L2 PROVE E[m] \subseteq L2 /\ E[m] = {m} \cup E[C2[m][0]] \cup E[C2[m][1]]
    <3>1. CASE m = n
      <4>1. E[C2[n][0]] \cup E[C2[n][1]] = D[at] \cup B
        <5>1. (C2[n][0] = at /\ C2[n][1] = b) \/ (C2[n][0] = b /\ C2[n][1] = at)
          BY <1>p
        <5> QED  BY <5>1, <1>12
      <4>2. D[at] \subseteq L
        BY <1>2, <1>4
      <4> QED  BY <3>1, <4>1, <4>2, <1>4, <1>12
    <3>2. CASE m # n /\ (at \notin D[m] \/ m = at)
      <4>1. m \in L /\ E[m] = D[m] /\ D[m] \subseteq L /\ D[m] = {m} \cup D[C[m][0]] \cup D[C[m][1]]
        BY <3>2, <1>2, <1>12
      <4>2. at \notin D[C[m][0]] /\ at \notin D[C[m][1]]
        BY <3>2, <4>1, <1>10
      <4>3. E[C2[m][0]] = D[C[m][0]] /\ E[C2[m][1]] = D[C[m][1]]
        BY <4>1, <4>2, <1>11
      <4> QED  BY <4>1, <4>3
    <3>3. CASE m # n /\ at \in D[m] /\ m # at
      <4>1. m \in L /\ E[m] = D[m] \cup {n} \cup B /\ D[m] \subseteq L
            /\ D[m] = {m} \cup D[C[m][0]] \cup D[C[m][1]]
        BY <3>3, <1>2, <1>12
      <4>2. at \in D[C[m][0]] \/ at \in D[C[m][1]]
        BY <3>3, <4>1
      <4>3. E[C2[m][0]] \cup E[C2[m][1]] = D[C[m][0]] \cup D[C[m][1]] \cup {n} \cup B
        <5>1. E[C2[m][0]] = IF at \in D[C[m][0]] THEN D[C[m][0]] \cup {n} \cup B ELSE D[C[m][0]]
          BY <4>1, <1>11
        <5>2. E[C2[m][1]] = IF at \in D[C[m][1]] THEN D[C[m][1]] \cup {n} \cup B ELSE D[C[m][1]]
          BY <4>1, <1>11
        <5> QED  BY <5>1, <5>2, <4>2
      <4>4. E[m] \subseteq L2
        BY <4>1, <1>4
      <4> QED  BY <4>1, <4>3, <4>4
    <3> QED  BY <3>1, <3>2, <3>3
  <2>2. ASSUME NEW m \in L2, NEW x \in E[m]
        PROVE  E[x] \subseteq E[m] /\ (x # m => P2[x] \in E[m])
    <3>1. CASE x \in B /\ (m = n \/ E[m] = D[m] \cup {n} \cup B)
      <4>1. E[x] \subseteq B /\ B \subseteq E[m] /\ n \in E[m]
        BY <3>1, <1>12, <1>14
      <4>2. P2[x] = n \/ P2[x] \in B
        BY <3>1, <1>p, <1>2, <1>4, <1>5
      <4> QED  BY <4>1, <4>2
    <3>2. CASE x \in D[at] /\ m = n
      <4>1. E[x] \subseteq D[at]
        BY <3>2, <1>2, <1>4, <1>15
      <4>2. P2[x] = n \/ P2[x] \in D[at]
        BY <3>2, <1>p, <1>2, <1>4, <1>17
      <4> QED  BY <4>1, <4>2, <3>2, <1>12
    <3>3. CASE m \in L /\ x \in D[m] /\ E[m] = D[m] \cup {n} \cup B /\ m # at
      <4>1. E[x] \subseteq E[m]
        BY <3>3, <1>2, <1>16
      <4>2. x # m => P2[x] = n \/ P2[x] \in D[m]
        BY <3>3, <1>p, <1>2, <1>17
      <4> QED  BY <4>1, <4>2, <3>3
    <3>4. CASE x = n /\ m \in L /\ at \in D[m] /\ m # at
      <4>1. E[m] = D[m] \cup {n} \cup B /\ D[at] \subseteq D[m] /\ P[at] \in D[m]
        BY <3>4, <1>2, <1>12
      <4> QED  BY <4>1, <3>4, <1>p, <1>12
    <3>5. CASE m \in L /\ x \in D[m] /\ E[m] = D[m] /\ (at \notin D[m] \/ m = at)
      <4>1. x \in L /\ D[x] \subseteq D[m] /\ (at \notin D[x] \/ x = at)
        BY <3>5, <1>2, <1>13
      <4>2. E[x] \subseteq E[m]
        BY <3>5, <4>1, <1>12
      <4>3. x # m => x # at /\ x # b /\ P[x] \in D[m]
        BY <3>5, <1>2, <1>17
      <4> QED  BY <3>5, <4>1, <4>2, <4>3, <1>p
    <3>6. CASE m = n /\ x = n
      BY <3>6
    <3>7. m \in L /\ at \in D[m] /\ m # at => E[m] = D[m] \cup {n} \cup B
      BY <1>12
    <3>8. m \in L /\ ~(at \in D[m] /\ m # at) => E[m] = D[m]
      BY <1>12
    <3>9. m = n => x = n \/ x \in D[at] \/ x \in B
      BY <2>2, <1>12
    <3> QED  BY <2>2, <3>1, <3>2, <3>3, <3>4, <3>5, <3>6, <3>7, <3>8, <3>9
  <2> QED  BY <2>1, <2>2, <1>p DEF Descends
<1>19. JoinedTrees(R, D, R2, E, t, u, n)
  <2>1. E[R2[t]] = A \cup {n} \cup B
    <3>1. CASE R[t] = at
      BY <3>1, <1>p, <1>12, <1>A
    <3>2. CASE R[t] # at
      <4>1. R[t] \in L
        BY <1>1, <1>4 DEF InTree
      <4> QED  BY <3>2, <4>1, <1>p, <1>4, <1>12, <1>A
    <3> QED  BY <3>1, <3>2
  <2>2. ASSUME NEW v \in Trees, v # t, v # u PROVE E[R2[v]] = D[R[v]]
    <3>1. at \notin D[R[v]]
      BY <2>2, <1>1, <1>4 DEF InTree
    <3>2. R[v] = None \/ R[v] \in L
      BY <1>a DEF Rooted
    <3> QED  BY <2>2, <3>1, <3>2, <1>p, <1>2, <1>12
  <2> QED  BY <2>1, <2>2, <1>p, <1>A, <1>B DEF JoinedTrees
<1>20. Rooted(L2, P2, R2, E)
  <2>1. ASSUME NEW v \in Trees, R2[v] # None PROVE R2[v] \in L2 /\ P2[R2[v]] = None
    <3>1. v # u /\ (R[v] # None => R[v] \in L /\ P[R[v]] = None /\ R[v] # b)
      BY <2>1, <1>p, <1>1, <1>4 DEF InTree
    <3>2. CASE v = t
      <4>1. CASE R[t] = at
        BY <3>1, <3>2, <4>1, <1>p, <1>2, <1>4
      <4>2. CASE R[t] # at
        BY <2>1, <3>1, <3>2, <4>2, <1>p
      <4> QED  BY <4>1, <4>2
    <3>3. CASE v # t
      <4>1. R[v] # at
        BY <3>3, <1>1, <1>4 DEF InTree
      <4> QED  BY <2>1, <3>1, <3>3, <4>1, <1>p
    <3> QED  BY <3>2, <3>3
  <2>2. ASSUME NEW m \in L2 PROVE \E v \in Trees : m \in E[R2[v]]
    <3>1. CASE m = n
      BY <3>1, <1>19 DEF JoinedTrees
    <3>2. CASE m # n
      <4>1. PICK v \in Trees : m \in D[R[v]]
        BY <3>2, <1>a DEF Rooted
      <4> QED  BY <4>1, <1>19 DEF JoinedTrees
    <3> QED  BY <3>1, <3>2
  <2>3. ASSUME NEW v \in Trees, NEW w \in Trees, v # w PROVE E[R2[v]] \cap E[R2[w]] = {}
    <3>1. \A x, y \in Trees : x # y => D[R[x]] \cap D[R[y]] = {}
      BY <1>a DEF Rooted
    <3>2. \A x \in Trees : n \notin D[R[x]]
      BY <1>1, <1>2 DEF InTree
    <3>3. E[R2[u]] = {} /\ E[R2[t]] = D[R[t]] \cup {n} \cup D[R[u]]
          /\ (v # t /\ v # u => E[R2[v]] = D[R[v]]) /\ (w # t /\ w # u => E[R2[w]] = D[R[w]])
      BY <1>19 DEF JoinedTrees
    <3>4. CASE v = u \/ w = u
      BY <3>3, <3>4
    <3>5. CASE v # u /\ w # u /\ v # t /\ w # t
      BY <3>1, <3>3, <3>5, <2>3
    <3>6. CASE v = t /\ w # u
      <4>1. w # t /\ D[R[t]] \cap D[R[w]] = {} /\ D[R[u]] \cap D[R[w]] = {}
        BY <2>3, <3>6, <3>1
      <4> QED  BY <4>1, <3>2, <3>3, <3>6
    <3>7. CASE w = t /\ v # u
      <4>1. v # t /\ D[R[t]] \cap D[R[v]] = {} /\ D[R[u]] \cap D[R[v]] = {}
        BY <2>3, <3>7, <3>1
      <4> QED  BY <4>1, <3>2, <3>3, <3>7
    <3> QED  BY <3>4, <3>5, <3>6, <3>7
  <2> QED  BY <2>1, <2>2, <2>3 DEF Rooted
<1> QED  BY <1>8, <1>9, <1>18, <1>19, <1>20

(* The joined trees are sorted: n and the nodes of u go where the keys of  *)
(* t end.                                                                  *)
LEMMA JoinedSorted ==
  ASSUME NEW L \in SUBSET Index,
         NEW P \in [Index -> Ref], NEW C \in [Index -> [Side -> Ref]],
         NEW R \in [Trees -> Ref], NEW D \in [Ref -> SUBSET Index],
         NEW rk \in [Index -> Int], Shape(L, P, C, R, D, rk),
         NEW i \in Side, NEW j \in Side, i # j,
         NEW t \in Trees, NEW u \in Trees, t # u, NEW b \in Index, b = R[u],
         NEW at \in D[R[t]], NEW n \in Index \ L, NEW L2, L2 = L \cup {n},
         NEW P2 \in [Index -> Ref], NEW C2 \in [Index -> [Side -> Ref]],
         NEW R2 \in [Trees -> Ref], NEW E \in [Ref -> SUBSET Index],
         Pivoted(L, P, C, R, D, P2, C2, R2, E, i, j, n, at, b, t, u),
         NEW near \in Index, Meets(D, rk, D[R[t]], D[b], j, n, at, near)
  PROVE  Sorted(L2, C2, R2, E, rk)
<1>p. /\ C2[n][i] = at /\ C2[n][j] = b
      /\ \A m \in L, s \in Side : C2[m][s] = IF C[m][s] = at THEN n ELSE C[m][s]
      /\ E[None] = {} /\ E[n] = {n} \cup D[at] \cup D[b]
      /\ \A m \in L : E[m] = IF at \in D[m] /\ m # at THEN D[m] \cup {n} \cup D[b] ELSE D[m]
  BY DEF Pivoted
<1>a. Descends(L, P, C, D) /\ Rooted(L, P, R, D) /\ Sorted(L, C, R, D, rk) /\ Linked(L, P, C)
  BY DEF Shape
<1>A. PICK A \in SUBSET Index : A = D[R[t]]
  OBVIOUS
<1>B. PICK B \in SUBSET Index : B = D[b]
  OBVIOUS
<1>1. /\ InTree(L, P, C, R, D, t, A) /\ InTree(L, P, C, R, D, u, B)
      /\ \A v \in Trees : InTree(L, P, C, R, D, v, D[R[v]])
  <2> HIDE DEF Side, Ref
  <2>1. \A v \in Trees : InTree(L, P, C, R, D, v, D[R[v]])
    BY Family
  <2> QED  BY <2>1, <1>A, <1>B
<1>2. /\ None \notin Index /\ D[None] = {}
      /\ \A m \in L : D[m] \subseteq L /\ m \in D[m]
      /\ \A m \in L : \A x \in D[m] : D[x] \subseteq D[m]
  BY <1>a, NoneAssumption DEF Descends
<1>4. /\ A \subseteq L /\ B \subseteq L /\ at \in A /\ at \in L /\ A \cap B = {} /\ at \notin B
  BY <1>1, <1>A, <1>B DEF InTree
<1>5. /\ \A m \in A : D[m] \subseteq A
      /\ \A m \in B : D[m] \subseteq B
  BY <1>1 DEF InTree
<1>6. /\ \A x \in A : Before(j, rk[n], rk[x])
      /\ \A y \in B : Before(j, rk[y], rk[n])
      /\ near \in D[at] /\ \A x \in A : x # near => Before(j, rk[near], rk[x])
  BY <1>A, <1>B DEF Meets
<1>7. JoinedTrees(R, D, R2, E, t, u, n)
  <2> HIDE DEF Side, Ref
  <2> QED  BY JoinedLinks
<1>8. /\ \A x \in Int : ~Before(j, x, x)
      /\ \A x, y \in Int : ~(Before(j, x, y) /\ Before(j, y, x))
      /\ \A x, y, z \in Int : Before(j, x, y) /\ Before(j, y, z) => Before(j, x, z)
      /\ \A x, y \in Int : Before(i, x, y) <=> Before(j, y, x)
      /\ i \in Side /\ \A s \in Side : s = i \/ s = j
  BY DEF Before
<1>9. \A m \in Index : rk[m] \in Int
  OBVIOUS
<1>10. \A x \in A, y \in B : Before(j, rk[y], rk[x])
  BY <1>4, <1>6, <1>8, <1>9
<1>11. near \in A
  BY <1>5, <1>4, <1>6
<1>12. \A m \in L : at \in D[m] => m \in A
  <2> TAKE m \in L
  <2> HAVE at \in D[m]
  <2>1. PICK v \in Trees : m \in D[R[v]]
    BY <1>a DEF Rooted
  <2>2. D[m] \subseteq D[R[v]]
    BY <2>1, <1>1 DEF InTree
  <2>3. v = t
    BY <2>2, <1>1, <1>4 DEF InTree
  <2> QED  BY <2>1, <2>3, <1>A
(* Below a child there is what was there, and the new nodes if `at` is.    *)
<1>13. ASSUME NEW m \in L, NEW s \in Side, NEW x \in E[C2[m][s]]
       PROVE  x \in D[C[m][s]] \/ (at \in D[C[m][s]] /\ x \in B \cup {n})
  <2>1. CASE C[m][s] = at
    <3>1. C2[m][s] = n /\ E[n] = {n} \cup D[at] \cup B /\ at \in D[at]
      BY <2>1, <1>p, <1>2, <1>4, <1>B
    <3> QED  BY <3>1, <2>1, <1>13
  <2>2. CASE C[m][s] = None
    <3>1. C2[m][s] = None
      BY <2>2, <1>p, <1>2, <1>4
    <3> QED  BY <3>1, <1>13, <1>p
  <2>3. CASE C[m][s] # at /\ C[m][s] # None
    <3>1. PICK c \in L : c = C[m][s]
      BY <2>3, <1>a DEF Linked
    <3>2. C2[m][s] = c /\ c # at
      BY <2>3, <3>1, <1>p
    <3>3. E[c] = IF at \in D[c] THEN D[c] \cup {n} \cup D[b] ELSE D[c]
      BY <3>1, <3>2, <1>p
    <3>4. x \in E[c]
      BY <3>2, <1>13
    <3> QED  BY <3>1, <3>3, <3>4, <1>B
  <2> QED  BY <2>1, <2>2, <2>3
<1>14. ASSUME NEW m \in L2, NEW s \in Side, NEW x \in E[C2[m][s]]
       PROVE  Before(s, rk[x], rk[m])
  <2>1. CASE m = n
    <3>1. CASE s = i
      <4>1. x \in A
        <5>1. x \in E[at] /\ E[at] = D[at]
          BY <2>1, <3>1, <1>14, <1>p, <1>4
        <5> QED  BY <5>1, <1>4, <1>5
      <4> QED  BY <4>1, <2>1, <3>1, <1>6, <1>8, <1>9
    <3>2. CASE s = j
      <4>1. x \in B
        <5>1. x \in E[b]
          BY <2>1, <3>2, <1>14, <1>p
        <5>2. E[b] = D[b]
          <6>1. b \in L
            BY <1>1, <1>2, <1>B DEF InTree
          <6> QED  BY <6>1, <1>p, <1>4, <1>B
        <5> QED  BY <5>1, <5>2, <1>B
      <4> QED  BY <4>1, <2>1, <3>2, <1>6
    <3> QED  BY <3>1, <3>2, <1>8
  <2>2. CASE m # n
    <3>1. m \in L /\ (x \in D[C[m][s]] \/ (at \in D[C[m][s]] /\ x \in B \cup {n}))
      BY <2>2, <1>13, <1>14
    <3>2. CASE x \in D[C[m][s]]
      BY <3>1, <3>2, <1>a DEF Sorted
    <3>3. CASE at \in D[C[m][s]] /\ x \in B \cup {n}
      <4>1. C[m][s] \in L /\ D[C[m][s]] \subseteq D[m]
        <5>1. C[m][s] # None
          BY <3>3, <1>2
        <5> QED  BY <5>1, <3>1, <1>a DEF Linked, Descends
      <4>2. near \in D[C[m][s]] /\ m \in A
        BY <3>1, <3>3, <4>1, <1>2, <1>6, <1>12
      <4>3. Before(s, rk[near], rk[m])
        BY <3>1, <4>2, <1>a DEF Sorted
      <4>4. near # m
        BY <4>3 DEF Before
      <4>5. Before(j, rk[near], rk[m])
        BY <4>2, <4>4, <1>6
      <4>6. s = j
        <5>1. s = i => Before(j, rk[m], rk[near])
          BY <4>3, <1>8, <1>9
        <5> QED  BY <5>1, <4>5, <1>8, <1>9
      <4> QED  BY <4>6, <4>2, <3>3, <1>6, <1>10
    <3> QED  BY <3>1, <3>2, <3>3
  <2> QED  BY <2>1, <2>2
(* The old subtrees are intervals on either side.                          *)
<1>15. \A v \in Trees : \A m \in L : \A z \in D[R[v]] : \A x, y \in D[m] :
         m \in D[R[v]] /\ Before(j, rk[x], rk[z]) /\ Before(j, rk[z], rk[y]) => z \in D[m]
  BY <1>a DEF Sorted, Before
<1>16. ASSUME NEW q \in A \cup {n} \cup B, NEW z \in A \cup {n} \cup B, NEW x \in E[q], NEW y \in E[q],
              Before(j, rk[x], rk[z]), Before(j, rk[z], rk[y])
       PROVE  z \in E[q]
  <2>1. PICK Q \in SUBSET Index, m \in L :
           /\ Q = D[m] /\ (E[q] = Q \cup {n} \cup B \/ E[q] = Q)
           /\ Q \subseteq A \/ (Q \subseteq B /\ E[q] = Q)
           /\ Q \subseteq A => m \in A
           /\ Q \subseteq B => m \in B
           /\ E[q] # Q => near \in Q
    <3>1. CASE q = n
      <4>1. D[at] \subseteq A /\ E[q] = D[at] \cup {n} \cup B /\ D[at] \in SUBSET Index /\ ~(D[at] \subseteq B)
        BY <3>1, <1>p, <1>2, <1>4, <1>5, <1>B
      <4> QED  BY <4>1, <1>4, <1>6
    <3>2. CASE q \in B
      <4>1. q \in L /\ D[q] \subseteq B /\ E[q] = D[q] /\ ~(D[q] \subseteq A) /\ D[q] \in SUBSET Index
        <5>1. q \in L /\ D[q] \subseteq B /\ q \in D[q]
          BY <3>2, <1>2, <1>4, <1>5
        <5>2. at \notin D[q] /\ q \notin A
          BY <5>1, <3>2, <1>4
        <5>3. E[q] = D[q]
          BY <5>1, <5>2, <1>p
        <5> QED  BY <5>1, <5>2, <5>3
      <4> QED  BY <4>1, <3>2
    <3>3. CASE q \in A
      <4>1. q \in L /\ D[q] \subseteq A /\ ~(D[q] \subseteq B) /\ D[q] \in SUBSET Index
        BY <3>3, <1>2, <1>4, <1>5
      <4>2. CASE at \in D[q] /\ q # at
        <5>1. E[q] = D[q] \cup {n} \cup B /\ D[at] \subseteq D[q]
          BY <4>1, <4>2, <1>p, <1>2, <1>B
        <5> QED  BY <4>1, <5>1, <3>3, <1>6
      <4>3. CASE ~(at \in D[q] /\ q # at)
        <5>1. E[q] = D[q]
          BY <4>1, <4>3, <1>p
        <5> QED  BY <4>1, <5>1, <3>3
      <4> QED  BY <4>2, <4>3
    <3> QED  BY <3>1, <3>2, <3>3
  <2>2. /\ rk[x] \in Int /\ rk[y] \in Int /\ rk[z] \in Int /\ rk[n] \in Int
        /\ x \in Index /\ y \in Index /\ z \in Index
    BY <1>9, <1>4
  <2>3. CASE z \in A
    <3>1. y \in Q /\ Q \subseteq A
      <4>1. \A w \in B \cup {n} : Before(j, rk[w], rk[z])
        BY <2>3, <1>6, <1>10
      <4>2. y \notin B \cup {n}
        BY <4>1, <1>16, <1>8, <2>2
      <4> QED  BY <4>2, <1>16, <2>1
    <3>2. x \in Q => z \in Q
      BY <3>1, <2>1, <2>3, <1>15, <1>16, <1>A
    <3>3. x \notin Q => z \in Q
      <4> HAVE x \notin Q
      <4>1. near \in Q
        BY <1>16, <2>1
      <4>2. z # near => Before(j, rk[near], rk[z])
        BY <2>3, <1>6
      <4> QED  BY <4>1, <4>2, <3>1, <2>1, <2>3, <1>15, <1>16, <1>A
    <3> QED  BY <3>2, <3>3, <2>1
  <2>4. CASE z = n
    <3>1. E[q] # Q
      <4>1. SUFFICES ASSUME E[q] = Q PROVE FALSE
        OBVIOUS
      <4>2. CASE Q \subseteq A
        BY <4>1, <4>2, <2>2, <2>4, <1>6, <1>8, <1>16
      <4>3. CASE Q \subseteq B
        BY <4>1, <4>3, <2>2, <2>4, <1>6, <1>8, <1>16
      <4> QED  BY <4>2, <4>3, <2>1
    <3> QED  BY <3>1, <2>1, <2>4
  <2>5. CASE z \in B
    <3>1. CASE E[q] # Q
      BY <3>1, <2>1, <2>5
    <3>2. CASE E[q] = Q /\ Q \subseteq A
      BY <3>2, <2>2, <2>5, <1>8, <1>10, <1>16
    <3>3. CASE E[q] = Q /\ Q \subseteq B
      BY <3>3, <2>1, <2>5, <1>15, <1>16, <1>B
    <3> QED  BY <3>1, <3>2, <3>3, <2>1
  <2> QED  BY <2>3, <2>4, <2>5
<1>17. ASSUME NEW v \in Trees, NEW q \in E[R2[v]], NEW z \in E[R2[v]], NEW x \in E[q], NEW y \in E[q],
              rk[x] < rk[z], rk[z] < rk[y]
       PROVE  z \in E[q]
  <2>1. CASE v = t
    <3>1. q \in A \cup {n} \cup B /\ z \in A \cup {n} \cup B
      BY <2>1, <1>7, <1>17, <1>A, <1>B DEF JoinedTrees
    <3>2. CASE j = 0
      BY <3>1, <3>2, <1>16, <1>17 DEF Before
    <3>3. CASE j = 1
      BY <3>1, <3>3, <1>16, <1>17 DEF Before
    <3> QED  BY <3>2, <3>3
  <2>2. CASE v = u
    BY <2>2, <1>7, <1>17 DEF JoinedTrees
  <2>3. CASE v # t /\ v # u
    <3>1. q \in D[R[v]] /\ z \in D[R[v]] /\ D[R[v]] \subseteq L
      BY <2>3, <1>1, <1>7, <1>17 DEF JoinedTrees, InTree
    <3>2. at \notin D[q]
      BY <3>1, <2>3, <1>1, <1>4 DEF InTree
    <3>3. E[q] = D[q]
      BY <3>1, <3>2, <1>p
    <3> QED  BY <3>1, <3>3, <1>17, <1>a DEF Sorted
  <2> QED  BY <2>1, <2>2, <2>3
<1> QED  BY <1>14, <1>17 DEF Sorted

-----------------------------------------------------------------------------
(* The thread after n was put between the end `near` of A and the end      *)
(* `far` of B.                                                             *)
Bridged(A, B, O, O2, i, j, n, near, far) ==
  /\ O2[n][i] = near /\ O2[n][j] = far /\ O2[near][j] = n /\ O2[far][i] = n
  /\ \A x \in A, s \in Side : x # near \/ s # j => O2[x][s] = O[x][s]
  /\ \A x \in B, s \in Side : x # far \/ s # i => O2[x][s] = O[x][s]

(* Two threads that do not overlap and a node between them are one thread, *)
(* from the outer end of the one to the outer end of the other.            *)
LEMMA JoinedThread ==
  ASSUME NEW A \in SUBSET Index, NEW B \in SUBSET Index,
         NEW O \in [Index -> [Side -> Ref]], NEW O2 \in [Index -> [Side -> Ref]],
         NEW ra \in [Side -> Ref], NEW rb \in [Side -> Ref], NEW rg2 \in [Side -> Ref],
         NEW rk \in [Index -> Int], Thread(A, O, ra, rk), Thread(B, O, rb, rk),
         NEW i \in Side, NEW j \in Side, i # j, NEW n \in Index \ (A \cup B),
         NEW near \in A, near = ra[j], NEW far \in B, far = rb[i],
         Bridged(A, B, O, O2, i, j, n, near, far),
         \A x \in A : Before(j, rk[n], rk[x]), \A y \in B : Before(j, rk[y], rk[n]),
         rg2[i] = ra[i], rg2[j] = rb[j]
  PROVE  Thread(A \cup {n} \cup B, O2, rg2, rk)
<1>b. /\ O2[n][i] = near /\ O2[n][j] = far /\ O2[near][j] = n /\ O2[far][i] = n
      /\ \A x \in A, s \in Side : x # near \/ s # j => O2[x][s] = O[x][s]
      /\ \A x \in B, s \in Side : x # far \/ s # i => O2[x][s] = O[x][s]
  BY DEF Bridged
<1>t. ASSUME NEW T \in {A, B}
      PROVE  /\ \A x, y \in T : rk[x] = rk[y] => x = y
             /\ \A x, m \in T, s \in Side : O[x][s] = None => ~Before(s, rk[m], rk[x])
             /\ \A x \in T, s \in Side :
                  O[x][s] # None => O[x][s] \in T /\ Before(s, rk[O[x][s]], rk[x])
             /\ \A x, m \in T, s \in Side :
                  O[x][s] # None /\ Before(s, rk[m], rk[x]) => ~Before(s, rk[O[x][s]], rk[m])
  BY <1>t DEF Thread
<1>r. /\ O[near][j] = None /\ ra[i] \in A /\ O[ra[i]][i] = None
      /\ O[far][i] = None /\ rb[j] \in B /\ O[rb[j]][j] = None
  BY DEF Thread
<1>0. /\ \A m \in Index : rk[m] \in Int
      /\ None \notin Index /\ near \in Index /\ far \in Index /\ n \in Index
      /\ \A s \in Side : s = i \/ s = j
  BY NoneAssumption
(* The order of the nodes, away on side j and away on side i.              *)
<1>o. PICK Lt : Lt = [s \in Side |-> [x \in Index |-> [y \in Index |-> Before(s, rk[x], rk[y])]]]
  OBVIOUS
<1>1. \A s \in Side : \A x, y \in Index : Lt[s][x][y] <=> Before(s, rk[x], rk[y])
  BY <1>o
<1>2. /\ \A s \in Side : \A x \in Index : ~Lt[s][x][x]
      /\ \A s \in Side : \A x, y \in Index : ~(Lt[s][x][y] /\ Lt[s][y][x])
      /\ \A x, y \in Index : Lt[i][x][y] <=> Lt[j][y][x]
      /\ \A x, y \in Index : rk[x] # rk[y] => Lt[j][x][y] \/ Lt[j][y][x]
      /\ \A x, y \in Index : rk[x] = rk[y] => ~Lt[j][x][y] /\ ~Lt[j][y][x]
  <2>1. ASSUME NEW s \in Side, NEW x \in Index, NEW y \in Index
        PROVE  /\ ~Before(s, rk[x], rk[x])
               /\ ~(Before(s, rk[x], rk[y]) /\ Before(s, rk[y], rk[x]))
               /\ rk[x] # rk[y] => Before(s, rk[x], rk[y]) \/ Before(s, rk[y], rk[x])
               /\ rk[x] = rk[y] => ~Before(s, rk[x], rk[y])
               /\ Before(i, rk[x], rk[y]) <=> Before(j, rk[y], rk[x])
    BY <1>0 DEF Before
  <2>2. \A s \in Side : \A x \in Index : ~Lt[s][x][x]
    BY <2>1, <1>1
  <2>3. \A s \in Side : \A x, y \in Index : ~(Lt[s][x][y] /\ Lt[s][y][x])
    BY <2>1, <1>1
  <2>4. \A x, y \in Index : Lt[i][x][y] <=> Lt[j][y][x]
    BY <2>1, <1>1
  <2>5. \A x, y \in Index : rk[x] # rk[y] => Lt[j][x][y] \/ Lt[j][y][x]
    BY <2>1, <1>1
  <2>6. \A x, y \in Index : rk[x] = rk[y] => ~Lt[j][x][y] /\ ~Lt[j][y][x]
    <3> TAKE x, y \in Index
    <3> HAVE rk[x] = rk[y]
    <3>1. ~Before(j, rk[x], rk[y]) /\ ~Before(j, rk[y], rk[x])
      BY <2>1
    <3> QED  BY <3>1, <1>1
  <2> QED  BY <2>2, <2>3, <2>4, <2>5, <2>6
<1>3. /\ \A x \in A : Lt[j][n][x] /\ Lt[i][x][n]
      /\ \A y \in B : Lt[j][y][n] /\ Lt[i][n][y]
  BY <1>0, <1>1, <1>2
<1>4. \A x \in A, y \in B : Lt[j][y][x] /\ Lt[i][x][y]
  <2> TAKE x \in A, y \in B
  <2>1. Before(j, rk[n], rk[x]) /\ Before(j, rk[y], rk[n]) /\ rk[x] \in Int /\ rk[y] \in Int /\ rk[n] \in Int
    BY <1>0
  <2>2. Before(j, rk[y], rk[x])
    BY <2>1 DEF Before
  <2> QED  BY <2>2, <1>1, <1>2
<1>5. ASSUME NEW T \in {A, B}
      PROVE  /\ \A x, y \in T : rk[x] = rk[y] => x = y
             /\ \A x, m \in T, s \in Side : O[x][s] = None => ~Lt[s][m][x]
             /\ \A x \in T, s \in Side : O[x][s] # None => O[x][s] \in T /\ Lt[s][O[x][s]][x]
             /\ \A x, m \in T, s \in Side : O[x][s] # None /\ Lt[s][m][x] => ~Lt[s][O[x][s]][m]
  BY <1>t, <1>1
<1> DEFINE W == A \cup {n} \cup B
<1>6. \A x, y \in W : rk[x] = rk[y] => x = y
  <2> SUFFICES ASSUME NEW x \in W, NEW y \in W, rk[x] = rk[y] PROVE x = y
    OBVIOUS
  <2>0. x \in Index /\ y \in Index
    BY <1>0
  <2>1. ~Lt[j][x][y] /\ ~Lt[j][y][x]
    BY <2>0, <1>2
  <2>2. CASE x \in A /\ y \in A
    BY <2>2, <1>5
  <2>3. CASE x \in B /\ y \in B
    BY <2>3, <1>5
  <2>4. CASE (x \in A /\ y \in B) \/ (x \in B /\ y \in A)
    BY <2>1, <2>4, <1>4
  <2>5. CASE x = n \/ y = n
    BY <2>1, <2>5, <1>3
  <2> QED  BY <2>2, <2>3, <2>4, <2>5
<1> HIDE DEF Side, Ref
<1>7. ASSUME NEW x \in W, NEW s \in Side PROVE O2[x][s] = None => \A m \in W : ~Lt[s][m][x]
  <2>1. CASE x = n
    BY <2>1, <1>b, <1>0
  <2>2. CASE x \in A /\ s = i
    BY <2>2, <1>b, <1>0, <1>2, <1>3, <1>4, <1>5
  <2>3. CASE x \in A /\ s = j
    <3>1. CASE x = near
      BY <2>3, <3>1, <1>b, <1>0
    <3>2. CASE x # near
      <4>1. O[x][j] # None
        <5>1. near \in A /\ O[near][j] = None /\ x \in A /\ x \in Index /\ near \in Index
          BY <2>3, <1>0, <1>r
        <5>2. ~Lt[j][x][near]
          BY <5>1, <1>5
        <5>3. rk[x] # rk[near]
          BY <5>1, <3>2, <1>5
        <5>4. Lt[j][x][near] \/ Lt[j][near][x]
          BY <5>1, <5>3, <1>2
        <5>5. Lt[j][near][x]
          BY <5>1, <5>2, <5>4, <1>2
        <5> QED  BY <5>1, <5>5, <1>5
      <4> QED  BY <2>3, <3>2, <4>1, <1>b
    <3> QED  BY <3>1, <3>2
  <2>4. CASE x \in B /\ s = j
    BY <2>4, <1>b, <1>0, <1>2, <1>3, <1>4, <1>5
  <2>5. CASE x \in B /\ s = i
    <3>1. CASE x = far
      BY <2>5, <3>1, <1>b, <1>0
    <3>2. CASE x # far
      <4>1. O[x][i] # None
        <5>1. far \in B /\ O[far][i] = None /\ x \in B /\ x \in Index /\ far \in Index
          BY <2>5, <1>0, <1>r
        <5>2. ~Lt[i][x][far]
          BY <5>1, <1>5
        <5>3. rk[x] # rk[far]
          BY <5>1, <3>2, <1>5
        <5>4. Lt[j][x][far] \/ Lt[j][far][x]
          BY <5>1, <5>3, <1>2
        <5>5. Lt[i][far][x]
          BY <5>1, <5>2, <5>4, <1>2
        <5> QED  BY <5>1, <5>5, <1>5
      <4> QED  BY <2>5, <3>2, <4>1, <1>b
    <3> QED  BY <3>1, <3>2
  <2> QED  BY <2>1, <2>2, <2>3, <2>4, <2>5, <1>0
<1>8. ASSUME NEW x \in W, NEW s \in Side, O2[x][s] # None PROVE O2[x][s] \in W /\ Lt[s][O2[x][s]][x]
  <2>1. CASE x = n
    BY <2>1, <1>b, <1>0, <1>3
  <2>2. CASE x \in A /\ (x # near \/ s # j)
    BY <2>2, <1>8, <1>b, <1>5
  <2>3. CASE x = near /\ s = j
    BY <2>3, <1>b, <1>3
  <2>4. CASE x \in B /\ (x # far \/ s # i)
    BY <2>4, <1>8, <1>b, <1>5
  <2>5. CASE x = far /\ s = i
    BY <2>5, <1>b, <1>3
  <2> QED  BY <2>1, <2>2, <2>3, <2>4, <2>5
<1>9. ASSUME NEW x \in W, NEW m \in W, NEW s \in Side, O2[x][s] # None, Lt[s][m][x]
      PROVE  ~Lt[s][O2[x][s]][m]
  <2>0. x \in Index /\ m \in Index
    BY <1>0
  <2>1. CASE x = n /\ s = i
    <3>1. m \in A
      BY <2>0, <2>1, <1>9, <1>0, <1>2, <1>3
    <3>2. ~Lt[j][m][near]
      BY <3>1, <1>5, <1>r
    <3> QED  BY <2>0, <2>1, <3>2, <1>b, <1>0, <1>2
  <2>2. CASE x = n /\ s = j
    <3>1. m \in B
      BY <2>0, <2>2, <1>9, <1>0, <1>2, <1>3
    <3>2. ~Lt[i][m][far]
      BY <3>1, <1>5, <1>r
    <3> QED  BY <2>0, <2>2, <3>2, <1>b, <1>0, <1>2
  <2>3. CASE x \in A /\ s = i
    <3>1. m \in A
      BY <2>0, <2>3, <1>9, <1>0, <1>2, <1>3, <1>4
    <3> QED  BY <2>3, <3>1, <1>9, <1>b, <1>5
  <2>4. CASE x \in B /\ s = j
    <3>1. m \in B
      BY <2>0, <2>4, <1>9, <1>0, <1>2, <1>3, <1>4
    <3> QED  BY <2>4, <3>1, <1>9, <1>b, <1>5
  <2>5. CASE x = near /\ s = j
    <3>1. m \notin A
      BY <2>5, <1>9, <1>5, <1>r
    <3> QED  BY <2>0, <2>5, <3>1, <1>b, <1>0, <1>2, <1>3
  <2>6. CASE x = far /\ s = i
    <3>1. m \notin B
      BY <2>6, <1>9, <1>5, <1>r
    <3> QED  BY <2>0, <2>6, <3>1, <1>b, <1>0, <1>2, <1>3
  <2>7. CASE x \in A /\ s = j /\ x # near
    <3>1. O2[x][s] = O[x][j] /\ O[x][j] \in A
      BY <2>7, <1>9, <1>b, <1>5
    <3>2. CASE m \in A
      BY <2>7, <3>1, <3>2, <1>9, <1>5, <1>0
    <3>3. CASE m \notin A
      BY <2>0, <2>7, <3>1, <3>3, <1>0, <1>2, <1>3, <1>4
    <3> QED  BY <3>2, <3>3
  <2>8. CASE x \in B /\ s = i /\ x # far
    <3>1. O2[x][s] = O[x][i] /\ O[x][i] \in B
      BY <2>8, <1>9, <1>b, <1>5
    <3>2. CASE m \in B
      BY <2>8, <3>1, <3>2, <1>9, <1>5, <1>0
    <3>3. CASE m \notin B
      BY <2>0, <2>8, <3>1, <3>3, <1>0, <1>2, <1>3, <1>4
    <3> QED  BY <3>2, <3>3
  <2> QED  BY <2>1, <2>2, <2>3, <2>4, <2>5, <2>6, <2>7, <2>8, <1>0
<1>10. ASSUME NEW s \in Side PROVE rg2[s] \in W /\ O2[rg2[s]][s] = None
  BY <1>0, <1>b, <1>r
<1>11. W \subseteq Index /\ W # {}
  BY <1>0
<1>12. \A x \in W, s \in Side : O2[x][s] # None => O2[x][s] \in Index
  BY <1>8, <1>11
<1> HIDE DEF W
<1>13. /\ \A x, m \in W, s \in Side : O2[x][s] = None => ~Before(s, rk[m], rk[x])
       /\ \A x \in W, s \in Side : O2[x][s] # None => O2[x][s] \in W /\ Before(s, rk[O2[x][s]], rk[x])
       /\ \A x, m \in W, s \in Side :
            O2[x][s] # None /\ Before(s, rk[m], rk[x]) => ~Before(s, rk[O2[x][s]], rk[m])
  <2>1. ASSUME NEW x \in W, NEW m \in W, NEW s \in Side, O2[x][s] = None
        PROVE  ~Before(s, rk[m], rk[x])
    BY <2>1, <1>1, <1>7, <1>11
  <2>2. ASSUME NEW x \in W, NEW s \in Side, O2[x][s] # None
        PROVE  O2[x][s] \in W /\ Before(s, rk[O2[x][s]], rk[x])
    BY <2>2, <1>1, <1>8, <1>11, <1>12
  <2>3. ASSUME NEW x \in W, NEW m \in W, NEW s \in Side, O2[x][s] # None, Before(s, rk[m], rk[x])
        PROVE  ~Before(s, rk[O2[x][s]], rk[m])
    <3>1. x \in Index /\ m \in Index /\ O2[x][s] \in Index
      BY <2>3, <1>11, <1>12
    <3>2. Lt[s][m][x]
      BY <2>3, <3>1, <1>1
    <3>3. ~Lt[s][O2[x][s]][m]
      BY <2>3, <3>2, <1>9
    <3> QED  BY <3>1, <3>3, <1>1
  <2> QED  BY <2>1, <2>2, <2>3
<1>14. Thread(W, O2, rg2, rk)
  BY <1>6, <1>10, <1>11, <1>13 DEF Thread
<1> QED  BY <1>14 DEF W

-----------------------------------------------------------------------------
(* Where join_unchecked puts the pivot n, of key k: at a node of w whose   *)
(* subtree reaches the end of w that meets o, the keys of which lie beyond *)
(* k, on the side 1 - i.                                                   *)
JoinPlace(D, w, o, i, n, at, k) ==
  /\ w # o /\ root[o] # None
  /\ at \in D[root[w]] /\ range[w][1 - i] \in D[at]
  /\ \A x \in D[root[w]] : Before(1 - i, k, key[x])
  /\ \A y \in D[root[o]] : Before(1 - i, key[y], k)

(* What join_unchecked writes, node by node.                               *)
AttachWrites(w, o, i, n, at, b, near, far, p) ==
  /\ parent'[n] = p /\ parent'[at] = n /\ parent'[b] = n
  /\ \A m \in Index : m # n /\ m # at /\ m # b => parent'[m] = parent[m]
  /\ child'[n][i] = at /\ child'[n][1 - i] = b
  /\ \A m \in Live, s \in Side : child'[m][s] = IF child[m][s] = at THEN n ELSE child[m][s]
  /\ \A m \in Index : m # n /\ m \notin Live => child'[m] = child[m]
  /\ order'[n][i] = near /\ order'[n][1 - i] = far /\ order'[near][1 - i] = n /\ order'[far][i] = n
  /\ \A m \in Index, s \in Side :
       m # n /\ (m # near \/ s = i) /\ (m # far \/ s # i) => order'[m][s] = order[m][s]
  /\ root'[o] = None /\ root'[w] = IF root[w] = at THEN n ELSE root[w]
  /\ range'[o] = NoLinks /\ range'[w][i] = range[w][i] /\ range'[w][1 - i] = range[o][1 - i]
  /\ \A t \in Trees : t # w /\ t # o => root'[t] = root[t] /\ range'[t] = range[t]

(* Nothing else is under way, and what the laws say then.                  *)
LEMMA IdleLaws ==
  ASSUME TypeOK, NEW D \in [Ref -> SUBSET Index], NEW rk \in [Index -> Int], Laws(D, rk),
         pc = "idle"
  PROVE  /\ ~Limbo /\ pc \notin Unlinked \cup {"unlink"} /\ call = None /\ Hung = Live
         /\ Live \in SUBSET Index /\ None \notin Index
         /\ Shape(Live, parent, child, root, D, rk)
         /\ \A t \in Trees : Thread(D[root[t]], order, range[t], rk)
         /\ \A m \in Live : rk[m] = 2 * key[m] /\ key[m] \in Int
<1>1. ~Limbo /\ pc \notin Unlinked \cup {"unlink"} /\ Hung = Live
  BY DEF Limbo, Unlinked, Hung
<1>2. call = None
  BY DEF Laws, CallLaws
<1>3. \A t \in Trees : Thread(D[root[t]], order, range[t], rk)
  BY <1>1 DEF Laws, StringLaws, Strung
<1>4. \A m \in Live : rk[m] = 2 * key[m] /\ key[m] \in Int
  BY <1>1, KeyRank
<1> QED  BY <1>1, <1>2, <1>3, <1>4, NoneAssumption DEF Live, Laws, LinkLaws

LEMMA AttachLinks ==
  ASSUME TypeOK, NEW D \in [Ref -> SUBSET Index], NEW rk \in [Index -> Int], Laws(D, rk),
         pc = "idle", NEW w \in Trees, NEW o \in Trees, NEW i \in Side, NEW n \in Index \ Live,
         NEW at, NEW k, NEW v, JoinPlace(D, w, o, i, n, at, k), Attach(w, o, i, n, at, k, v)
  PROVE  /\ at \in Live /\ root[o] \in Live /\ range[w][1 - i] \in D[root[w]] /\ range[o][i] \in D[root[o]]
         /\ AttachWrites(w, o, i, n, at, root[o], range[w][1 - i], range[o][i], parent[at])
<1>p. PICK p \in Ref, b \in Ref, near \in Ref, far \in Ref :
           p = parent[at] /\ b = root[o] /\ near = range[w][1 - i] /\ far = range[o][i]
  <2>1. at \in Index
    BY DEF JoinPlace, TypeOK
  <2> QED  BY <2>1 DEF TypeOK
<1>0. /\ w # o /\ b # None /\ at \in D[root[w]] /\ near \in D[at]
  BY <1>p DEF JoinPlace
<1>1. /\ Hung = Live /\ Live \in SUBSET Index /\ None \notin Index
      /\ \A t \in Trees : Thread(D[root[t]], order, range[t], rk)
      /\ Shape(Live, parent, child, root, D, rk)
  BY IdleLaws
<1>2. /\ InTree(Live, parent, child, root, D, w, D[root[w]])
      /\ InTree(Live, parent, child, root, D, o, D[root[o]])
  BY <1>1, OwnTree
<1>3. /\ at \in Live /\ b \in Live /\ b \in D[b] /\ near \in D[root[w]]
      /\ far \in D[b] /\ D[root[w]] \cap D[b] = {} /\ parent[b] = None
      /\ D[b] \subseteq Live /\ D[root[w]] \subseteq Live /\ (p = None <=> at = root[w])
  <2>1. /\ at \in Live /\ b \in Live /\ b \in D[b] /\ near \in D[root[w]] /\ parent[b] = None
        /\ D[root[w]] \cap D[b] = {} /\ D[b] \subseteq Live /\ D[root[w]] \subseteq Live
    BY <1>0, <1>2, <1>p DEF InTree
  <2>2. far \in D[b]
    <3>1. Thread(D[b], order, range[o], rk)
      BY <1>1, <1>p
    <3> QED  BY <2>1, <3>1, <1>p DEF Thread
  <2>3. p = None <=> at = root[w]
    BY <1>0, <1>2, <1>p DEF InTree
  <2> QED  BY <2>1, <2>2, <2>3
<1>4. /\ n # at /\ n # b /\ n # near /\ n # far /\ at # b /\ near # far
      /\ n \in Index /\ at \in Index /\ b \in Index /\ near \in Index /\ far \in Index
      /\ 1 - i \in Side /\ 1 - i # i /\ \A s \in Side : s = i \/ s = 1 - i
  BY <1>0, <1>1, <1>3
<1>5. /\ parent' = [parent EXCEPT ![n] = p, ![at] = n, ![b] = n]
      /\ child' = [ReplacedChild(at, n) EXCEPT ![n] = [j \in Side |-> IF j = i THEN at ELSE b]]
      /\ order' = [order EXCEPT ![n] = [j \in Side |-> IF j = i THEN near ELSE far],
                                ![near][1 - i] = n, ![far][i] = n]
      /\ range' = [range EXCEPT ![w][1 - i] = range[o][1 - i], ![o] = NoLinks]
      /\ root' = [root EXCEPT ![w] = IF p = None THEN n ELSE @, ![o] = None]
  BY <1>p DEF Attach, EndsMoved
<1>t. /\ parent \in [Index -> Ref] /\ child \in [Index -> [Side -> Ref]] /\ order \in [Index -> [Side -> Ref]]
      /\ root \in [Trees -> Ref] /\ range \in [Trees -> [Side -> Ref]]
  BY DEF TypeOK
<1>6. /\ parent'[n] = p /\ parent'[at] = n /\ parent'[b] = n
      /\ \A m \in Index : m # n /\ m # at /\ m # b => parent'[m] = parent[m]
  BY <1>4, <1>5, <1>t
<1>7. /\ root'[o] = None /\ root'[w] = (IF root[w] = at THEN n ELSE root[w])
      /\ range'[o] = NoLinks /\ range'[w][i] = range[w][i] /\ range'[w][1 - i] = range[o][1 - i]
      /\ \A t \in Trees : t # w /\ t # o => root'[t] = root[t] /\ range'[t] = range[t]
  <2>1. root'[o] = None /\ root'[w] = (IF root[w] = at THEN n ELSE root[w])
    BY <1>0, <1>3, <1>5, <1>t
  <2>2. \A t \in Trees : t # w /\ t # o => root'[t] = root[t] /\ range'[t] = range[t]
    BY <1>0, <1>5, <1>t
  <2>3. range'[o] = NoLinks /\ range'[w][i] = range[w][i] /\ range'[w][1 - i] = range[o][1 - i]
    <3> HIDE DEF Side, Ref
    <3> QED  BY <1>0, <1>4, <1>5, <1>t
  <2> QED  BY <2>1, <2>2, <2>3
<1>8. /\ order'[n][i] = near /\ order'[n][1 - i] = far /\ order'[near][1 - i] = n /\ order'[far][i] = n
      /\ \A m \in Index, s \in Side :
           m # n /\ (m # near \/ s = i) /\ (m # far \/ s # i) => order'[m][s] = order[m][s]
  <2> DEFINE g == [j \in Side |-> IF j = i THEN near ELSE far]
             f == [order EXCEPT ![n] = g]
             h == [f EXCEPT ![near][1 - i] = n]
  <2>1. g \in [Side -> Ref] /\ g[i] = near /\ g[1 - i] = far
    BY <1>4
  <2> HIDE DEF g, Side, Ref
  <2>2. f \in [Index -> [Side -> Ref]] /\ f[n] = g /\ \A m \in Index : m # n => f[m] = order[m]
    BY <2>1, <1>4, <1>t
  <2> HIDE DEF f
  <2>3. n \in Ref
    BY DEF Ref
  <2>4. /\ h \in [Index -> [Side -> Ref]] /\ h[near][1 - i] = n
        /\ \A m \in Index : m # near => h[m] = f[m]
        /\ \A s \in Side : s # 1 - i => h[near][s] = f[near][s]
    BY <2>2, <2>3, <1>4
  <2>5. order' = [h EXCEPT ![far][i] = n]
    BY <1>5 DEF f, g
  <2> HIDE DEF h
  <2>6. /\ order'[far][i] = n
        /\ \A m \in Index : m # far => order'[m] = h[m]
        /\ \A s \in Side : s # i => order'[far][s] = h[far][s]
    BY <2>4, <2>5, <2>3, <1>4
  <2>7. ASSUME NEW m \in Index, NEW s \in Side, m # n, m # near \/ s = i, m # far \/ s # i
        PROVE  order'[m][s] = order[m][s]
    <3>1. CASE m = near
      BY <2>7, <3>1, <2>2, <2>4, <2>6, <1>4
    <3>2. CASE m = far
      BY <2>7, <3>2, <2>2, <2>4, <2>6, <1>4
    <3>3. CASE m # near /\ m # far
      BY <2>7, <3>3, <2>2, <2>4, <2>6
    <3> QED  BY <3>1, <3>2, <3>3
  <2> QED  BY <2>1, <2>2, <2>4, <2>6, <2>7, <1>4
<1>9. PICK C1 : C1 = ReplacedChild(at, n)
  OBVIOUS
<1>10. /\ C1 \in [Index -> [Side -> Ref]]
       /\ \A m \in Live, s \in Side : C1[m][s] = IF child[m][s] = at THEN n ELSE child[m][s]
       /\ \A m \in Index : m \notin Live => C1[m] = child[m]
  <2>1. /\ \A m \in Live, s \in Side : child[m][s] = at => p = m
        /\ p # None => p \in Live /\ \E s \in Side : child[p][s] = at
    BY <1>1, <1>2, <1>3, <1>p, NoneAssumption DEF Shape, Linked
  <2>2. CASE p = None
    <3>1. C1 = child
      BY <2>2, <1>9, <1>p DEF ReplacedChild, SetLink
    <3>2. \A m \in Live, s \in Side : child[m][s] # at
      BY <2>1, <2>2, <1>1
    <3> QED  BY <3>1, <3>2, <1>t
  <2>3. CASE p # None
    <3>1. p \in Live /\ p \in Index
      BY <2>1, <2>3, <1>1
    <3>2. PICK r \in Side : r = SideOf(p, at)
      BY SideOfType
    <3>3. Apart(parent, child, D, p)
      BY <3>1, <1>1, OwnApart
    <3>4. \A s, q \in Side : s # q /\ child[p][s] # None => child[p][q] # child[p][s]
      BY <3>3 DEF Apart
    <3>5. child[p][r] = at /\ \A s \in Side : s # r => child[p][s] # at
      BY <2>1, <2>3, <3>2, <3>4, <1>1, <1>4 DEF SideOf
    <3>6. C1 = [child EXCEPT ![p][r] = n]
      BY <2>3, <3>2, <1>9, <1>p DEF ReplacedChild, SetLink
    <3>7. C1 \in [Index -> [Side -> Ref]] /\ C1[p][r] = n
          /\ (\A s \in Side : s # r => C1[p][s] = child[p][s]) /\ \A m \in Index : m # p => C1[m] = child[m]
      <4> n \in Ref
        BY <1>4
      <4> HIDE DEF Side, Ref
      <4> QED  BY <3>1, <3>6, <1>t
    <3>8. ASSUME NEW m \in Live, NEW s \in Side
          PROVE  C1[m][s] = IF child[m][s] = at THEN n ELSE child[m][s]
      <4>1. CASE m = p
        BY <4>1, <3>5, <3>7
      <4>2. CASE m # p
        BY <4>2, <3>7, <2>1, <1>1
      <4> QED  BY <4>1, <4>2
    <3> QED  BY <3>1, <3>7, <3>8
  <2> QED  BY <2>2, <2>3
<1>11. /\ child'[n][i] = at /\ child'[n][1 - i] = b
       /\ \A m \in Live, s \in Side : child'[m][s] = IF child[m][s] = at THEN n ELSE child[m][s]
       /\ \A m \in Index : m # n /\ m \notin Live => child'[m] = child[m]
  <2>1. child' = [C1 EXCEPT ![n] = [j \in Side |-> IF j = i THEN at ELSE b]]
    BY <1>5, <1>9
  <2>2. \A m \in Index : m # n => child'[m] = C1[m]
    BY <2>1, <1>10
  <2>3. child'[n] = [j \in Side |-> IF j = i THEN at ELSE b]
    BY <2>1, <1>4, <1>10
  <2>4. child'[n][i] = at /\ child'[n][1 - i] = b
    BY <2>3, <1>4
  <2>5. \A m \in Live : m # n /\ m \in Index
    BY <1>1
  <2> QED  BY <2>2, <2>4, <2>5, <1>10
<1> HIDE DEF Side, Ref
<1> QED  BY <1>3, <1>6, <1>7, <1>8, <1>11, <1>p DEF AttachWrites

-----------------------------------------------------------------------------
(* join_unchecked leaves one sorted, threaded tree, and an insertion of    *)
(* the pivot in flight in it.                                              *)
LEMMA AttachLaws ==
  ASSUME TypeOK, TypeOK', NEW D \in [Ref -> SUBSET Index], NEW rk \in [Index -> Int],
         Laws(D, rk), pc = "idle", NEW w \in Trees, NEW o \in Trees, NEW i \in Side,
         NEW n \in Index \ Live, NEW at, NEW k \in Keys, NEW v,
         JoinPlace(D, w, o, i, n, at, k), Attach(w, o, i, n, at, k, v), key' = [key EXCEPT ![n] = k]
  PROVE  Spared /\ \E E \in [Ref -> SUBSET Index], s \in [Index -> Int] : Laws(E, s)'
<1>0. /\ ~Limbo /\ pc \notin Unlinked \cup {"unlink"} /\ call = None /\ Hung = Live
      /\ Live \in SUBSET Index /\ None \notin Index
      /\ Shape(Live, parent, child, root, D, rk)
      /\ \A t \in Trees : Thread(D[root[t]], order, range[t], rk)
      /\ \A m \in Live : rk[m] = 2 * key[m] /\ key[m] \in Int
  BY IdleLaws
<1>j. PICK j \in Side : j = 1 - i /\ i # j /\ \A s \in Side : s = i \/ s = j
  OBVIOUS
<1>1. /\ at \in Live /\ root[o] \in Live /\ range[w][1 - i] \in D[root[w]] /\ range[o][i] \in D[root[o]]
      /\ AttachWrites(w, o, i, n, at, root[o], range[w][1 - i], range[o][i], parent[at])
  <2> HIDE DEF Side, Ref
  <2> QED  BY AttachLinks
<1>p. PICK p \in Ref, b \in Index, near \in Index, far \in Index :
           p = parent[at] /\ b = root[o] /\ near = range[w][1 - i] /\ far = range[o][i]
  <2>1. \A t \in Trees : D[root[t]] \subseteq Index
    BY DEF TypeOK
  <2>2. parent[at] \in Ref
    BY <1>0, <1>1 DEF TypeOK
  <2> QED  BY <2>1, <2>2, <1>0, <1>1
<1>A. PICK A \in SUBSET Index : A = D[root[w]]
  BY DEF TypeOK
<1>B. PICK B \in SUBSET Index : B = D[b]
  OBVIOUS
<1>w. /\ parent'[n] = p /\ parent'[at] = n /\ parent'[b] = n
      /\ \A m \in Index : m # n /\ m # at /\ m # b => parent'[m] = parent[m]
      /\ child'[n][i] = at /\ child'[n][j] = b
      /\ \A m \in Live, s \in Side : child'[m][s] = IF child[m][s] = at THEN n ELSE child[m][s]
      /\ \A m \in Index : m # n /\ m \notin Live => child'[m] = child[m]
      /\ order'[n][i] = near /\ order'[n][j] = far /\ order'[near][j] = n /\ order'[far][i] = n
      /\ \A m \in Index, s \in Side :
           m # n /\ (m # near \/ s = i) /\ (m # far \/ s # i) => order'[m][s] = order[m][s]
      /\ root'[o] = None /\ root'[w] = (IF root[w] = at THEN n ELSE root[w])
      /\ range'[o] = NoLinks /\ range'[w][i] = range[w][i] /\ range'[w][j] = range[o][j]
      /\ \A t \in Trees : t # w /\ t # o => root'[t] = root[t] /\ range'[t] = range[t]
  BY <1>1, <1>j, <1>p DEF AttachWrites
<1>2. /\ w # o /\ at \in A /\ near \in D[at] /\ near \in A /\ far \in B
      /\ \A x \in A : Before(j, k, key[x])
      /\ \A y \in B : Before(j, key[y], k)
  BY <1>1, <1>j, <1>p, <1>A, <1>B DEF JoinPlace
<1>3. /\ InTree(Live, parent, child, root, D, w, A) /\ InTree(Live, parent, child, root, D, o, B)
      /\ \A t \in Trees : InTree(Live, parent, child, root, D, t, D[root[t]])
  BY <1>0, <1>p, <1>A, <1>B, OwnTree
<1>4. /\ A \subseteq Live /\ B \subseteq Live /\ b \in B /\ n \notin A /\ n \notin B /\ A \cap B = {}
      /\ n # at /\ n # b /\ n # near /\ n # far /\ at # b /\ near # far
  BY <1>0, <1>1, <1>2, <1>3, <1>p, <1>A, <1>B DEF InTree
<1>5. k \in Int /\ k # None
  BY KeysAssumption, NoneAssumption
<1>6. /\ key'[n] = k /\ \A m \in Index : m # n => key'[m] = key[m]
      /\ Live' = Live \cup {n} /\ n \notin Live
  <2>1. key'[n] = k /\ \A m \in Index : m # n => key'[m] = key[m]
    BY DEF TypeOK
  <2>2. Live' = Live \cup {n}
    BY <2>1, <1>5 DEF Live
  <2> QED  BY <2>1, <2>2
<1>7. /\ pc' \in {"fix_insert", "propagate"} /\ node' = n /\ ptr' = n
      /\ call' = [op |-> "insert", tree |-> w, key |-> k, val |-> v]
  BY DEF Attach
<1>8. /\ ~Limbo' /\ pc' \notin Unlinked \cup {"unlink"} /\ Hung' = Live'
      /\ call'.op = "insert" /\ call'.tree = w /\ call'.key = k
  <2>1. ~Limbo' /\ pc' \notin Unlinked \cup {"unlink"} /\ call'.op = "insert" /\ call'.tree = w /\ call'.key = k
    BY <1>7 DEF Limbo, Unlinked
  <2> QED  BY <2>1 DEF Hung
<1>9. PICK s \in [Index -> Int] : s[n] = 2 * k /\ \A m \in Index \ {n} : s[m] = rk[m]
  <2>1. [rk EXCEPT ![n] = 2 * k] \in [Index -> Int]
    BY <1>5
  <2> QED  BY <2>1
<1>10. \A m \in Live : s[m] = rk[m] /\ s[m] = 2 * key[m] /\ key[m] \in Int
  BY <1>0, <1>6, <1>9
<1>11. Shape(Live, parent, child, root, D, s)
  <2>1. SameLinks(Live, parent, child, rk, parent, child, s)
    BY <1>10 DEF SameLinks
  <2>2. /\ parent \in [Index -> Ref] /\ child \in [Index -> [Side -> Ref]] /\ root \in [Trees -> Ref]
    BY DEF TypeOK
  <2> HIDE DEF Side, Ref
  <2> QED  BY <2>1, <2>2, <1>0, ShapeSame
<1>12. \A t \in Trees : Thread(D[root[t]], order, range[t], s)
  <2> TAKE t \in Trees
  <2>1. D[root[t]] \subseteq Live
    BY <1>3 DEF InTree
  <2>2. SameThread(D[root[t]], order, range[t], rk, order, range[t], s)
    BY <2>1, <1>10 DEF SameThread
  <2> HIDE DEF Side, Ref
  <2> QED  BY <2>2, <1>0, ThreadSame
<1>13. PICK E \in [Ref -> SUBSET Index] :
          /\ E[None] = {} /\ E[n] = {n} \cup D[at] \cup D[b]
          /\ \A m \in Live : E[m] = IF at \in D[m] /\ m # at THEN D[m] \cup {n} \cup D[b] ELSE D[m]
  <2> DEFINE F == [m \in Ref |-> IF m = None THEN {} ELSE IF m = n THEN {n} \cup D[at] \cup D[b]
                                  ELSE IF at \in D[m] /\ m # at THEN D[m] \cup {n} \cup D[b] ELSE D[m]]
  <2>0. at \in Ref
    BY <1>0, <1>1
  <2>1. F \in [Ref -> SUBSET Index]
    BY <2>0
  <2>2. F[None] = {} /\ F[n] = {n} \cup D[at] \cup D[b]
    BY <1>0
  <2>3. \A m \in Live : F[m] = IF at \in D[m] /\ m # at THEN D[m] \cup {n} \cup D[b] ELSE D[m]
    BY <1>0, <1>6
  <2> HIDE DEF F
  <2> QED  BY <2>1, <2>2, <2>3
<1>14. Pivoted(Live, parent, child, root, D, parent', child', root', E, i, j, n, at, b, w, o)
  <2>1. \A m \in Live : m \in Index /\ m # n
    BY <1>0, <1>6
  <2> QED  BY <2>1, <1>w, <1>13, <1>p DEF Pivoted
<1>15. Meets(D, s, D[root[w]], D[b], j, n, at, near)
  <2>1. \A x \in A : Before(j, s[n], s[x])
    BY <1>2, <1>4, <1>5, <1>9, <1>10 DEF Before
  <2>2. \A y \in B : Before(j, s[y], s[n])
    BY <1>2, <1>4, <1>5, <1>9, <1>10 DEF Before
  <2>3. ASSUME NEW x \in A, x # near PROVE Before(j, s[near], s[x])
    <3>1. Thread(A, order, range[w], s) /\ near = range[w][j]
      BY <1>12, <1>j, <1>p, <1>A
    <3>2. order[near][j] = None /\ (s[x] = s[near] => x = near) /\ ~Before(j, s[x], s[near])
      BY <2>3, <3>1, <1>2 DEF Thread
    <3>3. s[x] \in Int /\ s[near] \in Int
      BY <1>2
    <3> QED  BY <2>3, <3>2, <3>3 DEF Before
  <2> QED  BY <2>1, <2>2, <2>3, <1>2, <1>A, <1>B DEF Meets
<1>t. /\ parent \in [Index -> Ref] /\ child \in [Index -> [Side -> Ref]] /\ root \in [Trees -> Ref]
      /\ parent' \in [Index -> Ref] /\ child' \in [Index -> [Side -> Ref]] /\ root' \in [Trees -> Ref]
      /\ order \in [Index -> [Side -> Ref]] /\ order' \in [Index -> [Side -> Ref]]
      /\ \A t \in Trees : range[t] \in [Side -> Ref] /\ range'[t] \in [Side -> Ref]
      /\ Live' = Live \cup {n} /\ at \in D[root[w]] /\ b = root[o]
  BY <1>2, <1>6, <1>p, <1>A DEF TypeOK
<1>16. Shape(Live', parent', child', root', E, s) /\ JoinedTrees(root, D, root', E, w, o, n)
  <2> HIDE DEF Side, Ref
  <2>1. /\ Linked(Live', parent', child') /\ NoCycle(Live', parent') /\ Descends(Live', parent', child', E)
        /\ Rooted(Live', parent', root', E) /\ JoinedTrees(root, D, root', E, w, o, n)
    BY <1>0, <1>2, <1>6, <1>11, <1>14, <1>j, <1>t, JoinedLinks
  <2>2. Sorted(Live', child', root', E, s)
    BY <1>0, <1>2, <1>6, <1>11, <1>14, <1>15, <1>j, <1>t, JoinedSorted
  <2> QED  BY <2>1, <2>2 DEF Shape
<1>17. Spared
  <2> SUFFICES ASSUME NEW m \in Index, m \notin Live, m \notin Live'
               PROVE  parent'[m] = parent[m] /\ child'[m] = child[m] /\ order'[m] = order[m]
    BY DEF Spared
  <2>2. m # n /\ m # at /\ m # b /\ m # near /\ m # far
    BY <1>1, <1>2, <1>4, <1>6
  <2>3. /\ parent'[m] = parent[m] /\ child'[m] = child[m]
        /\ \A r \in Side : order'[m][r] = order[m][r]
    BY <2>2, <1>w
  <2>4. order'[m] = order[m]
    <3>1. order[m] \in [Side -> Ref] /\ order'[m] \in [Side -> Ref]
      BY <1>t
    <3> QED  BY <3>1, <2>3
  <2> QED  BY <2>3, <2>4
<1>18. LinkLaws(E, s)'
  BY <1>8, <1>16 DEF LinkLaws
<1>19. RankLaws(s)'
  <2> SUFFICES ASSUME NEW m \in Live' PROVE s[m] = Rank(m)'
    BY DEF RankLaws
  <2>1. Rank(m)' = 2 * key'[m]
    BY <1>8 DEF Rank
  <2> QED  BY <2>1, <1>0, <1>6, <1>9, <1>10
<1>20. StringLaws(E, s)'
  <2> SUFFICES ASSUME NEW t \in Trees PROVE Thread(E[root'[t]], order', range'[t], s)
    BY <1>8 DEF StringLaws, Strung
  <2>1. CASE t = w
    <3>1. E[root'[t]] = A \cup {n} \cup B
      BY <2>1, <1>16, <1>A, <1>B, <1>p DEF JoinedTrees
    <3>2. Bridged(A, B, order, order', i, j, n, near, far)
      <4>1. \A x \in A : x \in Index /\ x # n /\ x # far
        BY <1>2, <1>4
      <4>2. \A x \in B : x \in Index /\ x # n /\ x # near
        BY <1>2, <1>4
      <4> QED  BY <4>1, <4>2, <1>j, <1>w DEF Bridged
    <3>3. Thread(A, order, range[w], s) /\ Thread(B, order, range[o], s)
      BY <1>12, <1>A, <1>B, <1>p
    <3>4. /\ \A x \in A : Before(j, s[n], s[x])
          /\ \A y \in B : Before(j, s[y], s[n])
      BY <1>15, <1>A, <1>B DEF Meets
    <3>5. /\ near = range[w][j] /\ far = range[o][i] /\ n \in Index \ (A \cup B)
          /\ range'[w][i] = range[w][i] /\ range'[w][j] = range[o][j]
      BY <1>4, <1>j, <1>p, <1>w
    <3>6. Thread(A \cup {n} \cup B, order', range'[w], s)
      <4>1. PICK ra, rb, rg : ra = range[w] /\ rb = range[o] /\ rg = range'[w]
        OBVIOUS
      <4>2. ra \in [Side -> Ref] /\ rb \in [Side -> Ref] /\ rg \in [Side -> Ref] /\ near \in A /\ far \in B
        BY <4>1, <1>t, <1>2
      <4>3. /\ Thread(A, order, ra, s) /\ Thread(B, order, rb, s)
            /\ near = ra[j] /\ far = rb[i] /\ rg[i] = ra[i] /\ rg[j] = rb[j]
        BY <4>1, <3>3, <3>5
      <4>4. A \in SUBSET Index /\ B \in SUBSET Index
        BY <1>2
      <4>5. i \in Side /\ j \in Side /\ i # j /\ n \in Index \ (A \cup B)
        BY <3>5, <1>j
      <4>6. order \in [Index -> [Side -> Ref]] /\ order' \in [Index -> [Side -> Ref]]
        BY <1>t
      <4> HIDE DEF Side, Ref
      <4>7. Thread(A \cup {n} \cup B, order', rg, s)
        BY <3>2, <3>4, <4>2, <4>3, <4>4, <4>5, <4>6, JoinedThread
      <4> QED  BY <4>1, <4>7
    <3> QED  BY <2>1, <3>1, <3>6
  <2>2. CASE t = o
    <3>1. E[root'[t]] = {} /\ range'[t] = NoLinks
      BY <2>2, <1>w, <1>13
    <3>2. \A r \in Side : NoLinks[r] = None
      BY DEF NoLinks
    <3> QED  BY <3>1, <3>2 DEF Thread
  <2>3. CASE t # w /\ t # o
    <3>1. E[root'[t]] = D[root[t]] /\ range'[t] = range[t]
      BY <2>3, <1>16, <1>w DEF JoinedTrees
    <3>2. D[root[t]] \subseteq Live /\ D[root[t]] \cap A = {} /\ D[root[t]] \cap B = {}
      BY <2>3, <1>3, <1>A DEF InTree
    <3>3. \A m \in D[root[t]] : m \in Index /\ m # n /\ m # near /\ m # far
      BY <3>2, <1>0, <1>2, <1>6
    <3>4. SameThread(D[root[t]], order, range[t], s, order', range[t], s)
      BY <3>3, <1>w DEF SameThread
    <3>5. Thread(D[root[t]], order, range[t], s)
      BY <1>12
    <3> HIDE DEF Side, Ref
    <3> QED  BY <3>1, <3>4, <3>5, ThreadSame
  <2> QED  BY <2>1, <2>2, <2>3
<1>21. CallLaws'
  <2>1. call' # None
    BY <1>7, CallAssumption DEF TypeOK
  <2> QED  BY <2>1, <1>7, <1>8 DEF CallLaws, RemoveStep, FixRemoveStep
<1>22. SearchLaws(Own(E), E)'
  BY <1>7 DEF SearchLaws, Frontier
<1>23. n \in Own(E)'
  <2>1. n \in E[root'[w]]
    BY <1>16 DEF JoinedTrees
  <2>2. call' # None
    BY <1>7, CallAssumption DEF TypeOK
  <2> QED  BY <2>1, <2>2, <1>8 DEF Own
<1>24. UpdateLaws(Own(E))'
  BY <1>6, <1>7, <1>8, <1>23 DEF UpdateLaws, Removing, FixRemoveStep, Unlinked
<1> QED  BY <1>17, <1>18, <1>19, <1>20, <1>21, <1>22, <1>24 DEF Laws, CursorLaws

(* The two subtrees of the pivot have one black height, that of the lower  *)
(* tree; a pivot that is the root of both turns black and counts for one.  *)
LEMMA AttachBalance ==
  ASSUME TypeOK, TypeOK', NEW D \in [Ref -> SUBSET Index], NEW rk \in [Index -> Int],
         Laws(D, rk), pc = "idle", NEW w \in Trees, NEW o \in Trees, NEW i \in Side,
         NEW n \in Index \ Live, NEW at, NEW k \in Keys, NEW v,
         JoinPlace(D, w, o, i, n, at, k), Attach(w, o, i, n, at, k, v), key' = [key EXCEPT ![n] = k],
         NEW h \in [Ref -> Nat], BalanceLaws(h), ~IsRed(at), h[at] = h[root[o]]
  PROVE  \E g \in [Ref -> Nat] : BalanceLaws(g)'
<1>0. /\ ~Limbo /\ Hung = Live /\ Live \in SUBSET Index /\ None \notin Index
  BY IdleLaws
<1>j. PICK j \in Side : j = 1 - i /\ i # j /\ \A s \in Side : s = i \/ s = j
  OBVIOUS
<1>1. /\ at \in Live /\ root[o] \in Live
      /\ AttachWrites(w, o, i, n, at, root[o], range[w][1 - i], range[o][i], parent[at])
  <2> HIDE DEF Side, Ref
  <2> QED  BY AttachLinks
<1>p. PICK p \in Ref, b \in Index : p = parent[at] /\ b = root[o]
  BY <1>0, <1>1 DEF TypeOK
<1>w. /\ parent'[n] = p /\ parent'[at] = n /\ parent'[b] = n
      /\ \A m \in Index : m # n /\ m # at /\ m # b => parent'[m] = parent[m]
      /\ child'[n][i] = at /\ child'[n][j] = b
      /\ \A m \in Live, s \in Side : child'[m][s] = IF child[m][s] = at THEN n ELSE child[m][s]
      /\ root'[o] = None /\ root'[w] = (IF root[w] = at THEN n ELSE root[w])
      /\ \A t \in Trees : t # w /\ t # o => root'[t] = root[t]
  BY <1>1, <1>j, <1>p DEF AttachWrites
<1>2. /\ w # o /\ n # at /\ n # b /\ n \notin Live /\ k # None
      /\ at \in D[root[w]] /\ InTree(Hung, parent, child, root, D, w, D[root[w]])
  BY <1>1, <1>p, NoneAssumption, OwnTree DEF JoinPlace
<1>3. p = None <=> at = root[w]
  BY <1>2, <1>p DEF InTree
<1>4. /\ color' = [color EXCEPT ![n] = IF p = None THEN "Black" ELSE "Red"]
      /\ black_height' = [black_height EXCEPT ![w] = IF p = None THEN @ + 1 ELSE @, ![o] = 0]
      /\ pc' = (IF p # None /\ parent[p] # None THEN "fix_insert" ELSE "propagate")
      /\ node' = n /\ ptr' = n
      /\ call' = [op |-> "insert", tree |-> w, key |-> k, val |-> v]
  BY <1>p DEF Attach
<1>5. /\ color'[n] = (IF p = None THEN "Black" ELSE "Red")
      /\ \A m \in Index : m # n => color'[m] = color[m]
      /\ black_height'[o] = 0
      /\ black_height'[w] = IF p = None THEN black_height[w] + 1 ELSE black_height[w]
      /\ \A t \in Trees : t # w /\ t # o => black_height'[t] = black_height[t]
  BY <1>2, <1>4 DEF TypeOK
<1>6. Hung' = Hung \cup {n}
  <2>1. Live' = Live \cup {n}
    BY <1>2 DEF Live, TypeOK
  <2>2. ~Limbo'
    BY <1>4 DEF Limbo, Unlinked
  <2> QED  BY <2>1, <2>2, <1>0 DEF Hung
<1>8. /\ \A m \in Hung : parent[m] \in Hung \cup {None}
      /\ \A m \in Hung, s \in Side : child[m][s] \in Hung \cup {None}
      /\ \A m \in Hung, s \in Side : child[m][s] # None => parent[child[m][s]] = m
      /\ \A t \in Trees : root[t] \in Hung \cup {None}
      /\ \A t \in Trees : root[t] # None => parent[root[t]] = None
      /\ \A m \in Hung : parent[m] = None => \E t \in Trees : root[t] = m
  BY HungClosed
<1>9. /\ h[None] = 0 /\ \A m \in Ref : h[m] \in Nat
      /\ \A m \in Ref : Weight(m) \in {0, 1}
      /\ \A m \in Hung, s \in Side :
              ~(pc \in FixRemoveStep /\ m = par /\ s = dir) => h[m] = h[child[m][s]] + Weight(m)
      /\ \A t \in Trees : root[t] # None => black_height[t] = h[root[t]]
  BY Sums
<1>10. PICK g \in [Ref -> Nat] : /\ g[n] = (IF p = None THEN h[at] + 1 ELSE h[at])
                                 /\ \A m \in Ref : m # n => g[m] = h[m]
  <2> DEFINE f == [m \in Ref |-> IF m = n THEN IF p = None THEN h[at] + 1 ELSE h[at] ELSE h[m]]
  <2>0. h[at] \in Nat /\ n \in Ref
    BY <1>0, <1>1, <1>9
  <2>1. f \in [Ref -> Nat]
    BY <2>0, <1>9
  <2>2. f[n] = (IF p = None THEN h[at] + 1 ELSE h[at]) /\ \A m \in Ref : m # n => f[m] = h[m]
    BY <2>0
  <2> HIDE DEF f
  <2> QED  BY <2>1, <2>2
<1>12. RedLaws
  BY DEF BalanceLaws
<1>11. HeightLaws(g)'
  <2>1. \A m \in Hung', s \in Side : Deficit(m, s)' = 0
    BY <1>4 DEF Deficit, FixRemoveStep
  <2>2. g[None] = 0
    BY <1>0, <1>9, <1>10
  <2>3. ASSUME NEW m \in Hung', NEW s \in Side
        PROVE  g[m] = g[child'[m][s]] + Weight(m)' + 0
    <3>1. CASE m = n
      <4>1. child'[m][s] \in {at, b}
        BY <3>1, <1>j, <1>w
      <4>2. g[at] = h[at] /\ g[b] = h[at] /\ h[at] \in Nat
        BY <1>0, <1>1, <1>2, <1>p, <1>9, <1>10
      <4>3. g[child'[m][s]] = h[at]
        BY <4>1, <4>2
      <4>4. Weight(m)' = IF p = None THEN 1 ELSE 0
        BY <3>1, <1>5 DEF Weight
      <4> QED  BY <3>1, <4>2, <4>3, <4>4, <1>10
    <3>2. CASE m # n
      <4>1. m \in Hung /\ m \in Index /\ child[m][s] # n /\ child[m][s] \in Ref
        BY <3>2, <1>0, <1>2, <1>6, <1>8
      <4>2. Weight(m)' = Weight(m) /\ Weight(m) \in {0, 1}
        BY <3>2, <4>1, <1>5, <1>9 DEF Weight
      <4>3. h[m] = h[child[m][s]] + Weight(m) /\ h[child[m][s]] \in Nat
        BY <4>1, <1>9 DEF FixRemoveStep
      <4>4. g[m] = h[m]
        BY <3>2, <4>1, <1>10
      <4>5. g[child'[m][s]] = h[child[m][s]]
        <5>1. CASE child[m][s] = at
          <6>1. p = m /\ p # None
            BY <4>1, <5>1, <1>0, <1>1, <1>8, <1>p
          <6> QED  BY <4>1, <5>1, <6>1, <1>0, <1>w, <1>10
        <5>2. CASE child[m][s] # at
          BY <4>1, <5>2, <1>0, <1>w, <1>10
        <5> QED  BY <5>1, <5>2
      <4> QED  BY <4>2, <4>3, <4>4, <4>5
    <3> QED  BY <3>1, <3>2
  <2>4. ASSUME NEW t \in Trees, root'[t] # None PROVE black_height'[t] = g[root'[t]]
    <3>1. root[t] # n /\ root[t] \in Ref
      BY <1>0, <1>2, <1>8
    <3>2. CASE t = w
      <4>1. root[w] # None /\ root[w] # n /\ root[w] \in Ref
        <5>1. root[w] # None
          <6>1. InTree(Hung, parent, child, root, D, w, D[root[w]])
            BY OwnTree
          <6> QED  BY <6>1, <1>1, <1>p DEF InTree, JoinPlace
        <5> QED  BY <3>1, <3>2, <5>1
      <4>2. black_height[w] = h[root[w]]
        BY <4>1, <1>9
      <4>3. CASE p = None
        BY <3>2, <4>1, <4>2, <4>3, <1>2, <1>3, <1>5, <1>9, <1>10, <1>w
      <4>4. CASE p # None
        BY <3>2, <4>1, <4>2, <4>4, <1>2, <1>3, <1>5, <1>9, <1>10, <1>w
      <4> QED  BY <4>3, <4>4
    <3>3. CASE t = o
      BY <3>3, <2>4, <1>w
    <3>4. CASE t # w /\ t # o
      <4>1. root'[t] = root[t] /\ black_height'[t] = black_height[t]
        BY <3>4, <1>5, <1>w
      <4>2. black_height[t] = h[root[t]] /\ g[root[t]] = h[root[t]]
        BY <2>4, <3>1, <4>1, <1>9, <1>10
      <4> QED  BY <4>1, <4>2
    <3> QED  BY <3>2, <3>3, <3>4
  <2> QED  BY <2>1, <2>2, <2>3, <2>4 DEF HeightLaws
<1>13. \A m \in Hung \cup {None} : IsRed(m)' <=> IsRed(m)
  BY <1>0, <1>2, <1>5 DEF IsRed
<1>14. \A t \in Trees : ~IsRed(root[t])
  BY <1>12 DEF RedLaws
<1>15. RedLaws'
  <2>1. \A m \in Hung : ~(IsRed(m) /\ IsRed(parent[m]))
    BY <1>12 DEF RedLaws, RedRedAllowed
  <2>2. ASSUME NEW m \in Hung PROVE ~(IsRed(m)' /\ IsRed(parent[m])')
    <3>1. CASE m = at \/ m = b
      <4>1. ~IsRed(m)
        BY <3>1, <1>14, <1>p
      <4> QED  BY <4>1, <1>13
    <3>2. CASE m # at /\ m # b
      <4>1. parent'[m] = parent[m] /\ parent[m] \in Hung \cup {None}
        BY <3>2, <1>0, <1>2, <1>8, <1>w
      <4> QED  BY <4>1, <2>1, <1>13 DEF IsRed
    <3> QED  BY <3>1, <3>2
  <2>3. IsRed(n)' /\ IsRed(parent[n])' => RedRedAllowed(n)'
    <3>0. IsRed(parent[n])' <=> IsRed(p)'
      BY <1>w DEF IsRed
    <3>1. CASE p = None
      <4>1. ~IsRed(p)'
        BY <3>1 DEF IsRed
      <4> QED  BY <4>1, <3>0
    <3>2. CASE p # None /\ parent[p] = None
      <4>1. p \in Hung
        BY <3>2, <1>0, <1>1, <1>8, <1>p
      <4>2. ~IsRed(p)
        BY <3>2, <4>1, <1>8, <1>14
      <4> QED  BY <3>0, <4>1, <4>2, <1>13
    <3>3. CASE p # None /\ parent[p] # None
      BY <3>3, <1>4 DEF RedRedAllowed
    <3> QED  BY <3>1, <3>2, <3>3
  <2>4. ASSUME NEW t \in Trees PROVE ~IsRed(root[t])'
    <3>1. CASE t = w /\ p = None
      BY <3>1, <1>3, <1>5, <1>w DEF IsRed
    <3>2. CASE t = o
      BY <3>2, <1>w DEF IsRed
    <3>3. CASE t # o /\ (t # w \/ p # None)
      <4>1. root'[t] = root[t]
        BY <3>3, <1>3, <1>w
      <4> QED  BY <4>1, <1>8, <1>13, <1>14 DEF IsRed
    <3> QED  BY <3>1, <3>2, <3>3
  <2> QED  BY <2>2, <2>3, <2>4, <1>6 DEF RedLaws
<1>16. RepairLaws'
  <2>1. pc' = "fix_insert" => IsRed(ptr)' /\ (parent[ptr])' # None
    <3>1. HAVE pc' = "fix_insert"
    <3>2. p # None /\ parent'[n] = p /\ color'[n] = "Red" /\ n # None
      BY <3>1, <1>0, <1>4, <1>5, <1>w
    <3> QED  BY <3>2, <1>4 DEF IsRed
  <2>2. ~Limbo' /\ pc' \in {"fix_insert", "propagate"}
    BY <1>4 DEF Limbo, Unlinked
  <2> QED  BY <2>1, <2>2 DEF RepairLaws, FixRemoveStep
<1> QED  BY <1>11, <1>15, <1>16 DEF BalanceLaws

(* Only the pivot and its parent are out of date, and the way up goes from *)
(* the one to the other.                                                   *)
LEMMA AttachWay ==
  ASSUME TypeOK, TypeOK', NEW D \in [Ref -> SUBSET Index], NEW rk \in [Index -> Int],
         Laws(D, rk), pc = "idle", NEW w \in Trees, NEW o \in Trees, NEW i \in Side,
         NEW n \in Index \ Live, NEW at, NEW k \in Keys, NEW v,
         JoinPlace(D, w, o, i, n, at, k), Attach(w, o, i, n, at, k, v), key' = [key EXCEPT ![n] = k],
         WayLaws, \A m \in Index : m # n => val'[m] = val[m] /\ cum'[m] = cum[m]
  PROVE  WayLaws'
<1>0. /\ ~Limbo /\ Hung = Live /\ Live \in SUBSET Index /\ None \notin Index
  BY IdleLaws
<1>1. /\ at \in Live /\ root[o] \in Live
      /\ AttachWrites(w, o, i, n, at, root[o], range[w][1 - i], range[o][i], parent[at])
  <2> HIDE DEF Side, Ref
  <2> QED  BY AttachLinks
<1>p. PICK p \in Ref : p = parent[at]
  BY <1>0, <1>1 DEF TypeOK
<1>w. /\ parent'[n] = p
      /\ \A m \in Live, s \in Side : child'[m][s] = IF child[m][s] = at THEN n ELSE child[m][s]
  BY <1>1, <1>p DEF AttachWrites
<1>2. /\ n \notin Live /\ k # None /\ pc' \in {"fix_insert", "propagate"} /\ node' = n /\ ptr' = n
  BY NoneAssumption DEF Attach
<1>3. Hung' \subseteq Live \cup {n}
  <2>1. Live' = Live \cup {n}
    BY <1>2 DEF Live, TypeOK
  <2> QED  BY <2>1 DEF Hung
<1>4. /\ Focus' = n /\ Focus = None
  BY <1>2, FocusIs DEF FocusFacts, InsertStep
<1>5. /\ \A m \in Hung, s \in Side : child[m][s] \in Hung \cup {None}
      /\ \A m \in Hung, s \in Side : child[m][s] # None => parent[child[m][s]] = m
  BY HungClosed
<1>6. n \in Way(parent', n) /\ (p # None => p \in Way(parent', n))
  <2>1. n \in Ref /\ n # None /\ parent'[n] = p /\ parent' \in [Index -> Ref]
    BY <1>0, <1>w DEF TypeOK
  <2> QED  BY <2>1, WayUp
<1>7. ASSUME HasCumulant, NEW m \in Stale' PROVE m = n \/ (m = p /\ p # None)
  <2>1. SUFFICES ASSUME m # n, ~(m = p /\ p # None) PROVE FALSE
    OBVIOUS
  <2>2. m \in Hung /\ m \in Index /\ Stale = {} /\ m # None
    <3>1. Stale = {}
      BY <1>4, <1>7, NoneStale
    <3>2. m \in Hung'
      BY <1>7 DEF Stale
    <3> QED  BY <3>1, <3>2, <2>1, <1>0, <1>3
  <2>3. val'[m] = val[m] /\ cum'[m] = cum[m]
    BY <2>1, <2>2
  <2>4. ASSUME NEW s \in Side PROVE CumAt(child[m][s])' = CumAt(child[m][s])
    <3>1. child[m][s] # at
      BY <2>1, <2>2, <1>0, <1>1, <1>5, <1>p
    <3>2. child'[m][s] = child[m][s]
      BY <2>2, <3>1, <1>0, <1>w
    <3>3. child[m][s] \in Hung \cup {None} /\ n \notin Hung
      BY <2>2, <1>0, <1>5
    <3> QED  BY <3>2, <3>3, <1>0 DEF CumAt
  <2>5. m \notin Stale'
    BY <2>2, <2>3, <2>4, StaysCurrent
  <2> QED  BY <2>5, <1>7
<1>8. (parent[ptr])' = p
  BY <1>2, <1>w
<1>9. (IsRed(parent[ptr]))' => p # None
  BY <1>8 DEF IsRed
<1> QED  BY <1>2, <1>4, <1>6, <1>7, <1>8, <1>9 DEF WayLaws, FixRemoveStep

-----------------------------------------------------------------------------
(* The links after the root m of tree t was taken away: its subtrees are   *)
(* the trees t and r.                                                      *)
Halved(L2, P, C, R, P2, C2, R2, t, r, m) ==
  /\ \A x \in L2 : P2[x] = IF P[x] = m THEN None ELSE P[x]
  /\ \A x \in L2, s \in Side : C2[x][s] = C[x][s]
  /\ R2[t] = C[m][0] /\ R2[r] = C[m][1]
  /\ \A v \in Trees : v # t /\ v # r => R2[v] = R[v]

(* What hangs on side i of the root is what comes before it on side i.     *)
HalfOf(D, C, rk, m, i) == D[C[m][i]] = {x \in D[m] : Before(i, rk[x], rk[m])}

(* Both halves are trees in shape, and no subtree is another one.          *)
Parts(L, P, C, R, D, rk, L2, P2, C2, R2, t, r, m) ==
  /\ L \in SUBSET Index /\ P \in [Index -> Ref] /\ C \in [Index -> [Side -> Ref]]
  /\ R \in [Trees -> Ref] /\ D \in [Ref -> SUBSET Index] /\ rk \in [Index -> Int]
  /\ Shape(L, P, C, R, D, rk)
  /\ t \in Trees /\ r \in Trees /\ t # r /\ R[r] = None /\ m \in L /\ m = R[t]
  /\ L2 = L \ {m} /\ P2 \in [Index -> Ref] /\ C2 \in [Index -> [Side -> Ref]]
  /\ R2 \in [Trees -> Ref] /\ Halved(L2, P, C, R, P2, C2, R2, t, r, m)

LEMMA HalvedLaws ==
  ASSUME NEW L, NEW P, NEW C, NEW R, NEW D, NEW rk, NEW L2, NEW P2, NEW C2, NEW R2,
         NEW t, NEW r, NEW m, Parts(L, P, C, R, D, rk, L2, P2, C2, R2, t, r, m)
  PROVE  /\ Shape(L2, P2, C2, R2, D, rk)
         /\ \A i \in Side : HalfOf(D, C, rk, m, i)
         /\ \A i \in Side : D[C[m][i]] \subseteq L2
<1>h. /\ L \in SUBSET Index /\ P \in [Index -> Ref] /\ C \in [Index -> [Side -> Ref]]
      /\ R \in [Trees -> Ref] /\ D \in [Ref -> SUBSET Index] /\ rk \in [Index -> Int]
      /\ Shape(L, P, C, R, D, rk)
      /\ t \in Trees /\ r \in Trees /\ t # r /\ R[r] = None /\ m \in L /\ m = R[t]
      /\ L2 = L \ {m} /\ P2 \in [Index -> Ref] /\ C2 \in [Index -> [Side -> Ref]]
      /\ R2 \in [Trees -> Ref] /\ Halved(L2, P, C, R, P2, C2, R2, t, r, m)
  BY DEF Parts
<1> USE <1>h
<1>p. /\ \A x \in L2 : P2[x] = IF P[x] = m THEN None ELSE P[x]
      /\ \A x \in L2, s \in Side : C2[x][s] = C[x][s]
      /\ R2[t] = C[m][0] /\ R2[r] = C[m][1]
      /\ \A v \in Trees : v # t /\ v # r => R2[v] = R[v]
  BY DEF Halved
<1>a. /\ Linked(L, P, C) /\ NoCycle(L, P) /\ Descends(L, P, C, D)
      /\ Rooted(L, P, R, D) /\ Sorted(L, C, R, D, rk)
  BY DEF Shape
<1>1. /\ None \notin Index /\ D[None] = {} /\ P[m] = None
      /\ \A x \in L : D[x] \subseteq L /\ x \in D[x] /\ x # None
      /\ \A x \in L : \A y \in D[x] : D[y] \subseteq D[x]
      /\ \A x \in L : \A y \in D[x] : y # x => P[y] \in D[x]
      /\ \A x \in L : D[x] = {x} \cup D[C[x][0]] \cup D[C[x][1]]
  BY <1>a, NoneAssumption DEF Descends, Rooted
<1>2. /\ \A x \in L, s \in Side : C[x][s] # None => C[x][s] \in L /\ P[C[x][s]] = x
      /\ \A x \in L : P[x] # None => P[x] \in L /\ \E s \in Side : C[P[x]][s] = x
  BY <1>a DEF Linked
<1>3. \A x \in L2 : m \notin D[x]
  BY <1>1
<1>4. Linked(L2, P2, C2)
  <2>1. ASSUME NEW x \in L2, NEW s \in Side, C2[x][s] # None
        PROVE  C2[x][s] \in L2 /\ P2[C2[x][s]] = x
    BY <2>1, <1>p, <1>1, <1>2
  <2>2. ASSUME NEW x \in L2, P2[x] # None
        PROVE  P2[x] \in L2 /\ \E s \in Side : C2[P2[x]][s] = x
    <3>1. P2[x] = P[x] /\ P[x] # m /\ P[x] \in L2
      BY <2>2, <1>p, <1>2
    <3>2. PICK s \in Side : C[P[x]][s] = x
      BY <3>1, <2>2, <1>2
    <3> QED  BY <3>1, <3>2, <1>p
  <2> QED  BY <2>1, <2>2 DEF Linked
<1>5. NoCycle(L2, P2)
  <2> SUFFICES ASSUME NEW S \in SUBSET L2, S # {} PROVE \E x \in S : P2[x] \notin S
    BY DEF NoCycle
  <2>1. PICK x \in S : P[x] \notin S
    BY <1>a DEF NoCycle
  <2>2. None \notin S
    BY <1>1
  <2> QED  BY <2>1, <2>2, <1>p
<1>6. Descends(L2, P2, C2, D)
  <2>1. ASSUME NEW x \in L2
        PROVE  D[x] \subseteq L2 /\ D[x] = {x} \cup D[C2[x][0]] \cup D[C2[x][1]]
    <3>1. C2[x][0] = C[x][0] /\ C2[x][1] = C[x][1]
      BY <1>p
    <3> QED  BY <3>1, <1>1, <1>3
  <2>2. ASSUME NEW x \in L2, NEW y \in D[x]
        PROVE  D[y] \subseteq D[x] /\ (y # x => P2[y] \in D[x])
    <3>1. D[y] \subseteq D[x] /\ y \in L2
      BY <2>1, <1>1
    <3>2. y # x => P[y] \in D[x] /\ P[y] # m
      BY <1>1, <1>3
    <3> QED  BY <3>1, <3>2, <1>p
  <2> QED  BY <2>1, <2>2, <1>1 DEF Descends
<1>7. \A s \in Side : D[C[m][s]] \subseteq D[m] /\ D[C[m][s]] \subseteq L2
  <2> TAKE s \in Side
  <2>1. D[C[m][s]] \subseteq D[m]
    BY <1>1
  <2>2. C[m][s] # None => C[m][s] \in L2
    BY <1>1, <1>2
  <2>3. C[m][s] # None => m \notin D[C[m][s]]
    BY <2>2, <1>3
  <2> QED  BY <2>1, <2>3, <1>1
<1>8. ASSUME NEW s \in Side PROVE \A x \in D[C[m][s]] : Before(s, rk[x], rk[m])
  BY <1>a DEF Sorted
<1>9. \A i \in Side : HalfOf(D, C, rk, m, i)
  <2> TAKE i \in Side
  <2>1. ASSUME NEW x \in D[m], Before(i, rk[x], rk[m]) PROVE x \in D[C[m][i]]
    <3>1. PICK s \in Side : x = m \/ x \in D[C[m][s]]
      BY <1>1
    <3>2. x # m
      BY <2>1 DEF Before
    <3>3. Before(s, rk[x], rk[m])
      BY <3>1, <3>2, <1>8
    <3>4. s = i
      BY <2>1, <3>3 DEF Before
    <3> QED  BY <3>1, <3>2, <3>4
  <2> QED  BY <2>1, <1>7, <1>8 DEF HalfOf
<1>10. D[C[m][0]] \cap D[C[m][1]] = {}
  <2> SUFFICES ASSUME NEW x \in D[C[m][0]], x \in D[C[m][1]] PROVE FALSE
    OBVIOUS
  <2>1. Before(0, rk[x], rk[m]) /\ Before(1, rk[x], rk[m])
    BY <1>8
  <2>2. x \in Index
    BY <1>7
  <2> QED  BY <2>1, <2>2 DEF Before
<1>11. /\ \A v \in Trees : D[R2[v]] \subseteq D[R[v]] \/ v = r
       /\ D[R2[r]] \subseteq D[R[t]]
       /\ \A v, z \in Trees : v # z => D[R[v]] \cap D[R[z]] = {}
  BY <1>p, <1>7, <1>a DEF Rooted
<1>12. Rooted(L2, P2, R2, D)
  <2>1. ASSUME NEW v \in Trees, R2[v] # None PROVE R2[v] \in L2 /\ P2[R2[v]] = None
    <3>1. CASE v = t \/ v = r
      <4>1. PICK s \in Side : R2[v] = C[m][s]
        BY <3>1, <1>p
      <4>2. R2[v] \in L /\ P[R2[v]] = m /\ R2[v] # m
        BY <4>1, <2>1, <1>1, <1>2
      <4> QED  BY <4>2, <1>p
    <3>2. CASE v # t /\ v # r
      <4>1. R2[v] = R[v] /\ R[v] \in L /\ P[R[v]] = None /\ R[v] \in D[R[v]]
        BY <2>1, <3>2, <1>p, <1>1, <1>a DEF Rooted
      <4>2. R[v] # m
        BY <4>1, <3>2, <1>1, <1>11
      <4> QED  BY <4>1, <4>2, <1>p
    <3> QED  BY <3>1, <3>2
  <2>2. ASSUME NEW x \in L2 PROVE \E v \in Trees : x \in D[R2[v]]
    <3>1. PICK v \in Trees : x \in D[R[v]]
      BY <1>a DEF Rooted
    <3>2. CASE v = t
      <4>1. x \in D[C[m][0]] \/ x \in D[C[m][1]]
        BY <3>1, <3>2, <1>1
      <4> QED  BY <4>1, <1>p
    <3>3. CASE v = r
      BY <3>1, <3>3, <1>1
    <3>4. CASE v # t /\ v # r
      BY <3>1, <3>4, <1>p
    <3> QED  BY <3>2, <3>3, <3>4
  <2>3. ASSUME NEW v \in Trees, NEW z \in Trees, v # z PROVE D[R2[v]] \cap D[R2[z]] = {}
    <3>1. CASE {v, z} = {t, r}
      <4>1. (v = t /\ z = r) \/ (v = r /\ z = t)
        BY <2>3, <3>1
      <4> QED  BY <4>1, <1>p, <1>10
    <3>2. CASE v = r /\ z # t
      <4>1. D[R2[z]] \subseteq D[R[z]] /\ D[R[z]] \cap D[R[t]] = {}
        BY <2>3, <3>2, <1>11
      <4> QED  BY <4>1, <3>2, <1>11
    <3>3. CASE z = r /\ v # t
      <4>1. D[R2[v]] \subseteq D[R[v]] /\ D[R[v]] \cap D[R[t]] = {}
        BY <2>3, <3>3, <1>11
      <4> QED  BY <4>1, <3>3, <1>11
    <3>4. CASE v # r /\ z # r
      <4>1. D[R2[v]] \subseteq D[R[v]] /\ D[R2[z]] \subseteq D[R[z]] /\ D[R[v]] \cap D[R[z]] = {}
        BY <2>3, <3>4, <1>11
      <4> QED  BY <4>1
    <3> QED  BY <2>3, <3>1, <3>2, <3>3, <3>4
  <2> QED  BY <2>1, <2>2, <2>3 DEF Rooted
<1>13. Sorted(L2, C2, R2, D, rk)
  <2>1. ASSUME NEW x \in L2, NEW s \in Side PROVE \A y \in D[C2[x][s]] : Before(s, rk[y], rk[x])
    BY <1>p, <1>a DEF Sorted
  <2>2. ASSUME NEW v \in Trees
        PROVE  \A x, z \in D[R2[v]] : \A y1, y2 \in D[x] :
                 rk[y1] < rk[z] /\ rk[z] < rk[y2] => z \in D[x]
    <3>1. PICK q \in Trees : D[R2[v]] \subseteq D[R[q]]
      BY <1>11
    <3> QED  BY <3>1, <1>a DEF Sorted
  <2> QED  BY <2>1, <2>2 DEF Sorted
<1> QED  BY <1>4, <1>5, <1>6, <1>7, <1>9, <1>12, <1>13 DEF Shape

-----------------------------------------------------------------------------
(* The thread after it was cut before m on side i.                         *)
CutBefore(B, O, rg, O2, rg2, i, j, m) ==
  /\ \A x \in B : O2[x][i] = O[x][i]
  /\ \A x \in B : O2[x][j] = IF x = O[m][i] THEN None ELSE O[x][j]
  /\ B # {} => rg2[i] = rg[i] /\ rg2[j] = O[m][i]
  /\ B = {} => \A s \in Side : rg2[s] = None

(* What comes before m is a thread of its own.                             *)
CutThread(A, O, rg, rk, B, O2, rg2, i, j, m) ==
  /\ A \in SUBSET Index /\ O \in [Index -> [Side -> Ref]] /\ rg \in [Side -> Ref]
  /\ rk \in [Index -> Int] /\ Thread(A, O, rg, rk)
  /\ i \in Side /\ j \in Side /\ i # j /\ m \in A
  /\ B = {x \in A : Before(i, rk[x], rk[m])} /\ CutBefore(B, O, rg, O2, rg2, i, j, m)

LEMMA HalvedThread ==
  ASSUME NEW A, NEW O, NEW rg, NEW rk, NEW B, NEW O2, NEW rg2, NEW i, NEW j, NEW m,
         CutThread(A, O, rg, rk, B, O2, rg2, i, j, m)
  PROVE  Thread(B, O2, rg2, rk)
<1>h. /\ A \in SUBSET Index /\ O \in [Index -> [Side -> Ref]] /\ rg \in [Side -> Ref]
      /\ rk \in [Index -> Int] /\ Thread(A, O, rg, rk)
      /\ i \in Side /\ j \in Side /\ i # j /\ m \in A
      /\ B = {x \in A : Before(i, rk[x], rk[m])} /\ CutBefore(B, O, rg, O2, rg2, i, j, m)
  BY DEF CutThread
<1> USE <1>h
<1>p. /\ \A x \in B : O2[x][i] = O[x][i]
      /\ \A x \in B : O2[x][j] = IF x = O[m][i] THEN None ELSE O[x][j]
      /\ B # {} => rg2[i] = rg[i] /\ rg2[j] = O[m][i]
      /\ B = {} => \A s \in Side : rg2[s] = None
  BY DEF CutBefore
<1>t. /\ \A x, y \in A : rk[x] = rk[y] => x = y
      /\ \A x, y \in A, s \in Side : O[x][s] = None => ~Before(s, rk[y], rk[x])
      /\ \A x \in A, s \in Side :
           O[x][s] # None => O[x][s] \in A /\ Before(s, rk[O[x][s]], rk[x])
      /\ \A x, y \in A, s \in Side :
           O[x][s] # None /\ Before(s, rk[y], rk[x]) => ~Before(s, rk[O[x][s]], rk[y])
      /\ \A s \in Side : A # {} => rg[s] \in A /\ O[rg[s]][s] = None
  BY DEF Thread
<1>1. /\ \A x \in Int : ~Before(i, x, x)
      /\ \A x, y, z \in Int : Before(i, x, y) /\ Before(i, y, z) => Before(i, x, z)
      /\ \A x, y \in Int : x = y \/ Before(i, x, y) \/ Before(i, y, x)
      /\ \A x, y \in Int : Before(j, x, y) <=> Before(i, y, x)
      /\ \A s \in Side : s = i \/ s = j
  BY DEF Before
<1>2. B \subseteq A /\ \A x \in A : rk[x] \in Int /\ x \in Index
  OBVIOUS
<1>3. \A x \in A : x \in B <=> Before(i, rk[x], rk[m])
  OBVIOUS
<1>m. Mutual(A, O)
  <2> HIDE DEF Side, Ref
  <2> QED  BY ThreadMutual
<1> HIDE DEF Side
<1>4. ASSUME B # {} PROVE O[m][i] # None /\ O[m][i] \in B
  BY <1>4, <1>t, <1>2, <1>3
<1>5. ASSUME NEW x \in B, NEW y \in B, NEW s \in Side, O2[x][s] = None
      PROVE  ~Before(s, rk[y], rk[x])
  <2>1. CASE s = i
    BY <2>1, <1>5, <1>p, <1>t, <1>2
  <2>2. CASE s = j /\ x = O[m][i]
    <3>1. ~Before(i, rk[x], rk[y])
      BY <2>2, <1>t, <1>2, <1>3, <1>4
    <3> QED  BY <3>1, <2>2, <1>1, <1>2
  <2>3. CASE s = j /\ x # O[m][i]
    <3>1. O[x][j] = None
      BY <2>3, <1>5, <1>p
    <3>2. ~Before(j, rk[m], rk[x])
      BY <3>1, <1>t, <1>2
    <3> QED  BY <3>2, <1>1, <1>2, <1>3
  <2> QED  BY <2>1, <2>2, <2>3, <1>1
<1>6. ASSUME NEW x \in B, NEW s \in Side, O2[x][s] # None
      PROVE  O2[x][s] = O[x][s] /\ O2[x][s] \in B /\ Before(s, rk[O2[x][s]], rk[x])
  <2>1. CASE s = i
    <3>1. O2[x][s] = O[x][i] /\ O[x][i] \in A /\ Before(i, rk[O[x][i]], rk[x])
      BY <2>1, <1>6, <1>p, <1>t, <1>2
    <3>2. Before(i, rk[O[x][i]], rk[m])
      BY <3>1, <1>1, <1>2, <1>3
    <3> QED  BY <3>1, <3>2, <2>1, <1>3
  <2>2. CASE s = j
    <3>1. x # O[m][i] /\ O2[x][s] = O[x][j] /\ O[x][j] \in A /\ Before(j, rk[O[x][j]], rk[x])
      BY <2>2, <1>6, <1>p, <1>t, <1>2
    <3>2. Before(j, rk[m], rk[x])
      BY <1>1, <1>2, <1>3
    <3>3. ~Before(j, rk[O[x][j]], rk[m])
      BY <2>2, <3>1, <3>2, <1>t, <1>2, <1>6
    <3>4. O[x][j] # m
      BY <2>2, <3>1, <1>6, <1>m, <1>2 DEF Mutual
    <3>5. rk[O[x][j]] # rk[m]
      BY <3>1, <3>4, <1>t
    <3>6. Before(i, rk[O[x][j]], rk[m])
      BY <3>1, <3>3, <3>5, <1>1, <1>2
    <3> QED  BY <3>1, <3>6, <2>2, <1>3
  <2> QED  BY <2>1, <2>2, <1>1
<1>7. ASSUME NEW x \in B, NEW y \in B, NEW s \in Side, O2[x][s] # None, Before(s, rk[y], rk[x])
      PROVE  ~Before(s, rk[O2[x][s]], rk[y])
  BY <1>6, <1>7, <1>t, <1>2
<1>8. ASSUME NEW s \in Side, B # {} PROVE rg2[s] \in B /\ O2[rg2[s]][s] = None
  <2>1. CASE s = i
    <3>1. rg[i] \in A /\ O[rg[i]][i] = None /\ rg2[i] = rg[i]
      BY <2>1, <1>8, <1>p, <1>t
    <3>2. PICK y \in B : TRUE
      BY <1>8
    <3>3. ~Before(i, rk[y], rk[rg[i]])
      BY <3>1, <1>t, <1>2
    <3>4. Before(i, rk[y], rk[m])
      BY <1>3, <1>2
    <3>5. Before(i, rk[rg[i]], rk[m])
      BY <3>1, <3>3, <3>4, <1>1, <1>2
    <3> QED  BY <2>1, <3>1, <3>5, <1>3, <1>p
  <2>2. CASE s = j
    BY <2>2, <1>8, <1>4, <1>p
  <2> QED  BY <2>1, <2>2, <1>1
<1>9. \A x, y \in B : rk[x] = rk[y] => x = y
  BY <1>t, <1>2
<1> QED  BY <1>5, <1>6, <1>7, <1>8, <1>9, <1>p DEF Thread

-----------------------------------------------------------------------------
(* split_at_root on a tree t that is not empty, and the slot of its root m *)
(* no longer counted among those in use: the caller holds it.              *)
Halving(t, r, m) ==
  /\ pc = "idle" /\ t # r /\ root[t] = m /\ m \in Index /\ root[r] = None
  /\ SplitHalves(t, r)
  /\ key' = [key EXCEPT ![m] = None]
  /\ \A x \in Index : x # m => color'[x] = HalvesBlack(child[m])[x]
  /\ UNCHANGED <<pc, call>>

(* SetAt and SetLink, slot by slot.                                        *)
LEMMA SetAtIs ==
  ASSUME NEW S, NEW f \in [Index -> S], NEW m \in Ref, NEW x \in S
  PROVE  \A y \in Index : SetAt(f, m, x)[y] = IF y = m THEN x ELSE f[y]
  BY NoneAssumption DEF SetAt

LinkSet(f, m, i, x, g) ==
  \A y \in Index, s \in Side : g[y][s] = IF y = m /\ s = i THEN x ELSE f[y][s]
LEMMA SetLinkIs ==
  ASSUME NEW f \in [Index -> [Side -> Ref]], NEW m \in Ref, NEW i \in Side, NEW x \in Ref
  PROVE  LinkSet(f, m, i, x, SetLink(f, m, i, x))
<1> SUFFICES \A y \in Index, s \in Side :
           SetLink(f, m, i, x)[y][s] = IF y = m /\ s = i THEN x ELSE f[y][s]
  BY DEF LinkSet
<1>1. CASE m = None
  BY <1>1, NoneAssumption DEF SetLink
<1>2. CASE m # None
  <2>1. m \in Index /\ SetLink(f, m, i, x) = [f EXCEPT ![m][i] = x]
    BY <1>2 DEF SetLink
  <2> HIDE DEF Side, Ref
  <2> QED  BY <2>1
<1> QED  BY <1>1, <1>2

(* What split_at_root writes, node by node.                                *)
HalvingWrites(t, r, m, near) ==
  /\ \A x \in Index :
       parent'[x] = IF x = child[m][0] \/ x = child[m][1] THEN None ELSE parent[x]
  /\ \A x \in Index : x # m => child'[x] = child[x]
  /\ child'[m] = NoLinks /\ order'[m] = NoLinks
  /\ \A i \in Side : near[i] = IF child[m][i] = None THEN None ELSE order[m][i]
  /\ \A x \in Index, s \in Side : x # m =>
       order'[x][s] = IF x = near[1 - s] THEN None ELSE order[x][s]
  /\ root'[t] = child[m][0] /\ root'[r] = child[m][1]
  /\ \A v \in Trees : v # t /\ v # r => root'[v] = root[v] /\ range'[v] = range[v]
  /\ range'[t] = HalfRange(t, 0, order[m][0]) /\ range'[r] = HalfRange(t, 1, order[m][1])

LEMMA HalvingLinks ==
  ASSUME TypeOK, NEW t \in Trees, NEW r \in Trees, NEW m, Halving(t, r, m)
  PROVE  \E near \in [Side -> Ref] : HalvingWrites(t, r, m, near)
<1>t. /\ parent \in [Index -> Ref] /\ child \in [Index -> [Side -> Ref]] /\ order \in [Index -> [Side -> Ref]]
      /\ root \in [Trees -> Ref] /\ range \in [Trees -> [Side -> Ref]] /\ m \in Index /\ t # r /\ root[t] = m
      /\ None \in Ref
  BY DEF TypeOK, Halving
<1>n. PICK near \in [Side -> Ref] : near = [i \in Side |-> IF child[m][i] = None THEN None ELSE order[m][i]]
  <2>1. \A i \in Side : (IF child[m][i] = None THEN None ELSE order[m][i]) \in Ref
    BY <1>t
  <2> HIDE DEF Side, Ref
  <2> QED  BY <2>1
<1>1. /\ parent' = SetAt(SetAt(parent, child[m][0], None), child[m][1], None)
      /\ child' = [child EXCEPT ![m] = NoLinks]
      /\ order' = [SetLink(SetLink(order, near[0], 1, None), near[1], 0, None) EXCEPT ![m] = NoLinks]
      /\ root' = [root EXCEPT ![t] = child[m][0], ![r] = child[m][1]]
      /\ range' = [range EXCEPT ![t] = HalfRange(t, 0, order[m][0]), ![r] = HalfRange(t, 1, order[m][1])]
  BY <1>t, <1>n DEF Halving, SplitHalves
<1>2. /\ 0 \in Side /\ 1 \in Side /\ \A s \in Side : s = 0 \/ s = 1
      /\ near[0] \in Ref /\ near[1] \in Ref
  OBVIOUS
<1>3. \A x \in Index : parent'[x] = IF x = child[m][0] \/ x = child[m][1] THEN None ELSE parent[x]
  <2> DEFINE f == SetAt(parent, child[m][0], None)
  <2>0. child[m][0] \in Ref /\ child[m][1] \in Ref
    BY <1>t, <1>2
  <2> HIDE DEF Side, Ref
  <2>1. f \in [Index -> Ref] /\ \A y \in Index : f[y] = IF y = child[m][0] THEN None ELSE parent[y]
    <3>1. f \in [Index -> Ref]
      BY <2>0, <1>t, SetAtType
    <3> QED  BY <3>1, <2>0, <1>t, SetAtIs
  <2> HIDE DEF f
  <2>2. \A y \in Index : SetAt(f, child[m][1], None)[y] = IF y = child[m][1] THEN None ELSE f[y]
    <3>1. PICK e, c : e = f /\ c = child[m][1] /\ e \in [Index -> Ref] /\ c \in Ref
      BY <2>0, <2>1
    <3>2. \A y \in Index : SetAt(e, c, None)[y] = IF y = c THEN None ELSE e[y]
      BY <3>1, NoneAssumption DEF SetAt
    <3> QED  BY <3>1, <3>2
  <2>3. parent' = SetAt(f, child[m][1], None)
    BY <1>1 DEF f
  <2> QED  BY <2>1, <2>2, <2>3
<1>4. /\ order'[m] = NoLinks
      /\ \A x \in Index, s \in Side : x # m =>
           order'[x][s] = IF x = near[1 - s] THEN None ELSE order[x][s]
  <2> DEFINE f == SetLink(order, near[0], 1, None)
             g == SetLink(f, near[1], 0, None)
  <2> HIDE DEF Side, Ref
  <2>1. /\ f \in [Index -> [Side -> Ref]]
        /\ \A y \in Index, s \in Side : f[y][s] = IF y = near[0] /\ s = 1 THEN None ELSE order[y][s]
    <3>1. f \in [Index -> [Side -> Ref]]
      BY <1>t, <1>2, SetLinkType
    <3>2. \A y \in Index, s \in Side :
            SetLink(order, near[0], 1, None)[y][s] = IF y = near[0] /\ s = 1 THEN None ELSE order[y][s]
      <4>1. PICK n \in Ref : n = near[0]
        BY <1>2
      <4>2. 1 \in Side /\ None \in Ref
        BY <1>t, <1>2
      <4>3. LinkSet(order, n, 1, None, SetLink(order, n, 1, None))
        BY <1>t, <4>2, SetLinkIs
      <4> QED  BY <4>1, <4>3 DEF LinkSet
    <3> QED  BY <3>1, <3>2
  <2> HIDE DEF f
  <2>2. /\ g \in [Index -> [Side -> Ref]]
        /\ \A y \in Index, s \in Side : g[y][s] = IF y = near[1] /\ s = 0 THEN None ELSE f[y][s]
    <3>1. g \in [Index -> [Side -> Ref]]
      BY <2>1, <1>t, <1>2, SetLinkType
    <3>2. \A y \in Index, s \in Side :
            SetLink(f, near[1], 0, None)[y][s] = IF y = near[1] /\ s = 0 THEN None ELSE f[y][s]
      <4>1. PICK n \in Ref, e \in [Index -> [Side -> Ref]] : n = near[1] /\ e = f
        BY <1>2, <2>1
      <4>2. 0 \in Side /\ None \in Ref
        BY <1>t, <1>2
      <4>3. LinkSet(e, n, 0, None, SetLink(e, n, 0, None))
        BY <4>2, SetLinkIs
      <4> QED  BY <4>1, <4>3 DEF LinkSet
    <3> QED  BY <3>1, <3>2
  <2>3. order' = [g EXCEPT ![m] = NoLinks]
    BY <1>1 DEF f
  <2> HIDE DEF g
  <2>4. order'[m] = NoLinks /\ \A x \in Index : x # m => order'[x] = g[x]
    BY <2>2, <2>3, <1>t
  <2>5. ASSUME NEW x \in Index, NEW s \in Side, x # m
        PROVE  order'[x][s] = IF x = near[1 - s] THEN None ELSE order[x][s]
    <3>1. CASE s = 0
      <4>1. order'[x][0] = IF x = near[1] THEN None ELSE order[x][0]
        BY <2>1, <2>2, <2>4, <2>5, <1>2
      <4> QED  BY <4>1, <3>1
    <3>2. CASE s = 1
      <4>1. order'[x][1] = IF x = near[0] THEN None ELSE order[x][1]
        BY <2>1, <2>2, <2>4, <2>5, <1>2
      <4> QED  BY <4>1, <3>2
    <3> QED  BY <3>1, <3>2, <1>2
  <2> QED  BY <2>4, <2>5
<1>5. /\ root'[t] = child[m][0] /\ root'[r] = child[m][1]
      /\ \A v \in Trees : v # t /\ v # r => root'[v] = root[v] /\ range'[v] = range[v]
      /\ range'[t] = HalfRange(t, 0, order[m][0]) /\ range'[r] = HalfRange(t, 1, order[m][1])
  BY <1>1, <1>t
<1>6. child'[m] = NoLinks /\ \A x \in Index : x # m => child'[x] = child[x]
  BY <1>1, <1>t
<1>7. \A i \in Side : near[i] = IF child[m][i] = None THEN None ELSE order[m][i]
  BY <1>n
<1> QED  BY <1>3, <1>4, <1>5, <1>6, <1>7 DEF HalvingWrites

(* Both halves keep the laws.                                              *)
LEMMA HalvingLaws ==
  ASSUME TypeOK, TypeOK', NEW D \in [Ref -> SUBSET Index], NEW rk \in [Index -> Int], Laws(D, rk),
         NEW t \in Trees, NEW r \in Trees, NEW m, Halving(t, r, m)
  PROVE  Spared /\ Laws(D, rk)'
<1>0. /\ pc = "idle" /\ pc' = "idle" /\ ~Limbo /\ ~Limbo' /\ call = None /\ call' = None /\ Hung = Live
      /\ pc' \notin Unlinked \cup {"unlink"}
      /\ Live \in SUBSET Index /\ None \notin Index
      /\ Shape(Live, parent, child, root, D, rk)
      /\ \A v \in Trees : Thread(D[root[v]], order, range[v], rk)
      /\ \A x \in Live : rk[x] = 2 * key[x] /\ key[x] \in Int
  BY IdleLaws DEF Halving, Limbo, Unlinked
<1>1. /\ t # r /\ root[t] = m /\ m \in Index /\ root[r] = None /\ m \in Live
      /\ key'[m] = None /\ \A x \in Index : x # m => key'[x] = key[x]
  <2>1. m # None
    BY <1>0 DEF Halving
  <2>2. m \in Live
    BY <2>1, <1>0 DEF Halving, Shape, Rooted
  <2> QED  BY <2>2 DEF Halving, TypeOK
<1>2. Live' = Live \ {m} /\ Hung' = Live'
  <2>1. Live' = Live \ {m}
    BY <1>1 DEF Live
  <2> QED  BY <2>1, <1>0 DEF Hung
<1>n. PICK near \in [Side -> Ref] : HalvingWrites(t, r, m, near)
  BY HalvingLinks
<1>w. /\ \A x \in Index :
           parent'[x] = IF x = child[m][0] \/ x = child[m][1] THEN None ELSE parent[x]
      /\ \A x \in Index : x # m => child'[x] = child[x]
      /\ child'[m] = NoLinks /\ order'[m] = NoLinks
      /\ \A i \in Side : near[i] = IF child[m][i] = None THEN None ELSE order[m][i]
      /\ \A x \in Index, s \in Side : x # m =>
           order'[x][s] = IF x = near[1 - s] THEN None ELSE order[x][s]
      /\ root'[t] = child[m][0] /\ root'[r] = child[m][1]
      /\ \A v \in Trees : v # t /\ v # r => root'[v] = root[v] /\ range'[v] = range[v]
      /\ range'[t] = HalfRange(t, 0, order[m][0]) /\ range'[r] = HalfRange(t, 1, order[m][1])
  BY <1>n DEF HalvingWrites
<1>t. /\ parent \in [Index -> Ref] /\ child \in [Index -> [Side -> Ref]] /\ root \in [Trees -> Ref]
      /\ parent' \in [Index -> Ref] /\ child' \in [Index -> [Side -> Ref]] /\ root' \in [Trees -> Ref]
      /\ order \in [Index -> [Side -> Ref]] /\ order' \in [Index -> [Side -> Ref]]
      /\ \A v \in Trees : range[v] \in [Side -> Ref] /\ range'[v] \in [Side -> Ref]
  BY DEF TypeOK
<1>3. /\ \A x \in Live, s \in Side : child[x][s] # None => child[x][s] \in Live /\ parent[child[x][s]] = x
      /\ \A x \in Live : parent[x] # None => \E s \in Side : child[parent[x]][s] = x
      /\ parent[m] = None
  BY <1>0, <1>1 DEF Shape, Linked, Rooted
<1>4. Halved(Live', parent, child, root, parent', child', root', t, r, m)
  <2>1. ASSUME NEW x \in Live' PROVE parent'[x] = IF parent[x] = m THEN None ELSE parent[x]
    <3>1. x \in Live /\ x # m /\ x \in Index /\ m # None
      BY <1>0, <1>1, <1>2
    <3>2. parent[x] = m <=> x = child[m][0] \/ x = child[m][1]
      BY <3>1, <1>0, <1>1, <1>3
    <3> QED  BY <3>1, <3>2, <1>w
  <2> QED  BY <2>1, <1>0, <1>2, <1>w DEF Halved
<1>5. /\ Shape(Live', parent', child', root', D, rk)
      /\ \A i \in Side : HalfOf(D, child, rk, m, i)
      /\ \A i \in Side : D[child[m][i]] \subseteq Live'
  <2>1. /\ Live \in SUBSET Index /\ Shape(Live, parent, child, root, D, rk) /\ t # r /\ root[r] = None
        /\ m \in Live /\ m = root[t] /\ Live' = Live \ {m}
    BY <1>0, <1>1, <1>2
  <2>2. Parts(Live, parent, child, root, D, rk, Live', parent', child', root', t, r, m)
    BY <2>1, <1>4, <1>t DEF Parts
  <2> HIDE DEF Side, Ref
  <2> QED  BY <2>2, HalvedLaws
<1>6. /\ InTree(Live, parent, child, root, D, t, D[m])
      /\ \A v \in Trees : InTree(Live, parent, child, root, D, v, D[root[v]])
  BY <1>0, <1>1, OwnTree
<1>7. /\ m \in D[m] /\ D[m] \subseteq Live /\ Thread(D[m], order, range[t], rk)
      /\ \A s \in Side : order[m][s] \in D[m] \cup {None}
      /\ \A s \in Side : near[s] \in D[m] \cup {None}
  <2>1. m \in D[m] /\ D[m] \subseteq Live
    <3>1. Descends(Live, parent, child, D)
      BY <1>0 DEF Shape
    <3> QED  BY <3>1, <1>1 DEF Descends
  <2>2. Thread(D[m], order, range[t], rk)
    BY <1>0, <1>1
  <2>3. \A s \in Side : order[m][s] \in D[m] \cup {None}
    BY <2>1, <2>2 DEF Thread
  <2> QED  BY <2>1, <2>2, <2>3, <1>w
<1>8. Spared
  <2> SUFFICES ASSUME NEW x \in Index, x \notin Live, x \notin Live'
               PROVE  parent'[x] = parent[x] /\ child'[x] = child[x] /\ order'[x] = order[x]
    BY DEF Spared
  <2>1. x # m /\ x # None
    BY <1>0, <1>1
  <2>2. \A s \in Side : x # near[1 - s]
    <3>1. \A s \in Side : 1 - s \in Side
      OBVIOUS
    <3> HIDE DEF Side
    <3> QED  BY <3>1, <2>1, <1>7
  <2>3. \A s \in Side : order'[x][s] = order[x][s]
    BY <2>1, <2>2, <1>w
  <2>4. order'[x] = order[x]
    <3>1. order[x] \in [Side -> Ref] /\ order'[x] \in [Side -> Ref]
      BY <1>t
    <3> QED  BY <3>1, <2>3
  <2>5. x # child[m][0] /\ x # child[m][1]
    BY <2>1, <1>1, <1>3
  <2> QED  BY <2>1, <2>4, <2>5, <1>w
<1>9. RankLaws(rk)'
  <2> SUFFICES ASSUME NEW x \in Live' PROVE rk[x] = Rank(x)'
    BY DEF RankLaws
  <2>1. Rank(x)' = 2 * key'[x] /\ key'[x] = key[x] /\ x \in Live
    BY <1>0, <1>1, <1>2 DEF Rank
  <2> QED  BY <2>1, <1>0
<1>10. ASSUME NEW i \in Side, NEW v \in {t, r}, range'[v] = HalfRange(t, i, order[m][i])
       PROVE  Thread(D[child[m][i]], order', range'[v], rk)
  <2>j. PICK j \in Side : j = 1 - i /\ i # j /\ i = 1 - j
    OBVIOUS
  <2>B. PICK B \in SUBSET Index : B = D[child[m][i]]
    BY <1>1, <1>t
  <2>1. B = {x \in D[m] : Before(i, rk[x], rk[m])} /\ B \subseteq Live'
    BY <2>B, <1>5 DEF HalfOf
  <2>2. child[m][i] = None => B = {}
    BY <2>B, <1>0 DEF Shape, Descends
  <2>3. child[m][i] # None => B # {}
    BY <2>B, <1>1, <1>3, <1>0 DEF Shape, Descends
  <2>4. ASSUME NEW x \in B PROVE order'[x][i] = order[x][i]
    <3>1. order'[x][i] = IF x = near[j] THEN None ELSE order[x][i]
      <4>1. x \in Index /\ x # m
        BY <2>1, <1>0, <1>2
      <4> QED  BY <4>1, <2>j, <1>w
    <3>2. x # near[j]
      <4>1. SUFFICES ASSUME x = near[j] PROVE FALSE
        OBVIOUS
      <4>2. x = order[m][j] /\ x # None
        BY <4>1, <2>1, <1>0, <1>2, <1>w
      <4>3. Before(j, rk[x], rk[m])
        BY <4>2, <1>7 DEF Thread
      <4>4. Before(i, rk[x], rk[m]) /\ rk[x] \in Int /\ rk[m] \in Int
        BY <2>1, <1>1
      <4> QED  BY <4>3, <4>4, <2>j DEF Before
    <3> QED  BY <3>1, <3>2
  <2>5. ASSUME NEW x \in B PROVE order'[x][j] = IF x = order[m][i] THEN None ELSE order[x][j]
    <3>1. x \in Index /\ x # m
      BY <2>1, <1>0, <1>2
    <3>2. order'[x][j] = IF x = near[i] THEN None ELSE order[x][j]
      BY <3>1, <2>j, <1>w
    <3>3. near[i] = order[m][i]
      BY <2>2, <1>w
    <3> QED  BY <3>2, <3>3
  <2>6. B # {} => range'[v][i] = range[t][i] /\ range'[v][j] = order[m][i]
    <3>1. HAVE B # {}
    <3>2. range'[v] = [range[t] EXCEPT ![1 - i] = order[m][i]]
      BY <3>1, <2>2, <1>1, <1>10 DEF HalfRange
    <3> QED  BY <3>2, <2>j, <1>t
  <2>7. B = {} => \A s \in Side : range'[v][s] = None
    <3>1. HAVE B = {}
    <3>2. range'[v] = NoLinks
      BY <3>1, <2>3, <1>1, <1>10 DEF HalfRange
    <3> QED  BY <3>2 DEF NoLinks
  <2>8. CutBefore(B, order, range[t], order', range'[v], i, j, m)
    BY <2>4, <2>5, <2>6, <2>7 DEF CutBefore
  <2>9. D[m] \in SUBSET Index
    BY <1>1
  <2>10. PICK A, ra, rb :
           /\ A = D[m] /\ A \in SUBSET Index
           /\ ra = range[t] /\ rb = range'[v] /\ ra \in [Side -> Ref]
    BY <2>9, <1>t
  <2>11. /\ Thread(A, order, ra, rk) /\ m \in A /\ B = {x \in A : Before(i, rk[x], rk[m])}
         /\ CutBefore(B, order, ra, order', rb, i, j, m)
    BY <2>1, <2>8, <2>10, <1>7
  <2>12. CutThread(A, order, ra, rk, B, order', rb, i, j, m)
    BY <2>10, <2>11, <2>j, <1>t DEF CutThread
  <2>13. Thread(B, order', rb, rk)
    BY <2>12, HalvedThread
  <2> QED  BY <2>10, <2>13, <2>B
<1>11. StringLaws(D, rk)'
  <2> SUFFICES ASSUME NEW v \in Trees PROVE Thread(D[root'[v]], order', range'[v], rk)
    BY <1>0 DEF StringLaws, Strung
  <2>1. CASE v = t
    BY <2>1, <1>10, <1>w
  <2>2. CASE v = r
    BY <2>2, <1>10, <1>w
  <2>3. CASE v # t /\ v # r
    <3>1. root'[v] = root[v] /\ range'[v] = range[v]
      BY <2>3, <1>w
    <3>2. D[root[v]] \cap D[m] = {} /\ D[root[v]] \subseteq Live
      BY <2>3, <1>6 DEF InTree
    <3>3. \A x \in D[root[v]], s \in Side : order'[x][s] = order[x][s]
      <4>1. \A s \in Side : 1 - s \in Side
        OBVIOUS
      <4>2. \A x \in D[root[v]] : x \in Index /\ x # m /\ x \notin D[m] /\ x # None
        BY <3>2, <1>0, <1>7
      <4>3. \A x \in D[root[v]], s \in Side : x # near[1 - s]
        BY <4>1, <4>2, <1>7
      <4> QED  BY <4>2, <4>3, <1>w
    <3>4. SameThread(D[root[v]], order, range[v], rk, order', range[v], rk)
      BY <3>3 DEF SameThread
    <3>5. Thread(D[root[v]], order, range[v], rk)
      BY <1>0
    <3> HIDE DEF Side, Ref
    <3> QED  BY <3>1, <3>4, <3>5, ThreadSame
  <2> QED  BY <2>1, <2>2, <2>3
<1>12. CallLaws'
  BY <1>0 DEF CallLaws, InsertStep, RemoveStep, FixRemoveStep
<1> QED  BY <1>0, <1>2, <1>5, <1>8, <1>9, <1>11, <1>12 DEF Laws, LinkLaws, CursorLaws

(* A half whose root was red and turns black keeps the height of the whole.*)
LEMMA HalvingBalance ==
  ASSUME TypeOK, TypeOK', NEW D \in [Ref -> SUBSET Index], NEW rk \in [Index -> Int], Laws(D, rk),
         NEW h \in [Ref -> Nat], BalanceLaws(h),
         NEW t \in Trees, NEW r \in Trees, NEW m, Halving(t, r, m)
  PROVE  \E g \in [Ref -> Nat] : BalanceLaws(g)'
<1>0. /\ pc = "idle" /\ pc' = "idle" /\ ~Limbo' /\ Hung = Live /\ None \notin Index /\ Live \subseteq Index
  BY IdleLaws DEF Halving, Limbo, Unlinked
<1>1. t # r /\ root[t] = m /\ m \in Index /\ m # None /\ root[r] = None
  BY <1>0 DEF Halving
<1>h. PICK c \in [Side -> Ref] : c = child[m]
  BY <1>1 DEF TypeOK
<1>2. /\ None \notin Index /\ m \in Hung
      /\ \A x \in Hung : parent[x] \in Hung \cup {None}
      /\ \A x \in Hung, s \in Side : child[x][s] \in Hung \cup {None}
      /\ \A x \in Hung, s \in Side : child[x][s] # None => parent[child[x][s]] = x
      /\ \A v \in Trees : root[v] \in Hung \cup {None}
      /\ \A v \in Trees : root[v] # None => parent[root[v]] = None
  BY <1>1, HungClosed
<1>n. PICK near \in [Side -> Ref] : HalvingWrites(t, r, m, near)
  BY HalvingLinks
<1>w. /\ \A x \in Index : parent'[x] = IF x = c[0] \/ x = c[1] THEN None ELSE parent[x]
      /\ \A x \in Index : x # m => child'[x] = child[x]
      /\ root'[t] = c[0] /\ root'[r] = c[1]
      /\ \A v \in Trees : v # t /\ v # r => root'[v] = root[v]
  BY <1>n, <1>h DEF HalvingWrites
<1>3. /\ black_height'[t] = HalfHeight(t, c[0]) /\ black_height'[r] = HalfHeight(t, c[1])
      /\ \A v \in Trees : v # t /\ v # r => black_height'[v] = black_height[v]
  <2>1. black_height' = [black_height EXCEPT ![t] = HalfHeight(t, c[0]), ![r] = HalfHeight(t, c[1])]
    BY <1>1, <1>h DEF Halving, SplitHalves
  <2> QED  BY <2>1, <1>1 DEF TypeOK
<1>4. \A x \in Index : x # m => color'[x] = IF x = c[0] \/ x = c[1] THEN "Black" ELSE color[x]
  <2> DEFINE f == SetAt(color, c[0], "Black")
  <2>0. color \in [Index -> Color] /\ "Black" \in Color
    BY DEF TypeOK, Color
  <2>1. c[0] \in Ref /\ c[1] \in Ref
    OBVIOUS
  <2> HIDE DEF Side, Ref
  <2>2. f \in [Index -> Color] /\ \A y \in Index : f[y] = IF y = c[0] THEN "Black" ELSE color[y]
    BY <2>0, <2>1, SetAtType, SetAtIs
  <2> HIDE DEF f
  <2>3. \A y \in Index : SetAt(f, c[1], "Black")[y] = IF y = c[1] THEN "Black" ELSE f[y]
    <3>1. PICK e, d : e = f /\ d = c[1] /\ e \in [Index -> Color] /\ d \in Ref
      BY <2>1, <2>2
    <3>2. \A y \in Index : SetAt(e, d, "Black")[y] = IF y = d THEN "Black" ELSE e[y]
      BY <3>1, <2>0, NoneAssumption DEF SetAt
    <3> QED  BY <3>1, <3>2
  <2>4. \A x \in Index : x # m => color'[x] = SetAt(f, c[1], "Black")[x]
    BY <1>h DEF Halving, HalvesBlack, f
  <2> QED  BY <2>2, <2>3, <2>4
<1>5. Hung' = Hung \ {m}
  <2>1. Live' = Live \ {m}
    BY <1>1 DEF Halving, Live, TypeOK
  <2> QED  BY <2>1, <1>0 DEF Hung
<1>6. /\ h[None] = 0 /\ \A x \in Ref : h[x] \in Nat
      /\ \A x \in Ref : Weight(x) \in {0, 1}
      /\ \A x \in Index : (IsRed(x) => Weight(x) = 0) /\ (~IsRed(x) => Weight(x) = 1)
      /\ \A x \in Hung, s \in Side :
              ~(pc \in FixRemoveStep /\ x = par /\ s = dir) => h[x] = h[child[x][s]] + Weight(x)
      /\ \A v \in Trees : root[v] # None => black_height[v] = h[root[v]]
  BY Sums
<1>7. RedLaws
  BY DEF BalanceLaws
<1>8. \A v \in Trees : ~IsRed(root[v])
  BY <1>0, <1>7 DEF RedLaws
<1>9. /\ Weight(m) = 1 /\ h[m] \in Nat /\ black_height[t] = h[m]
      /\ \A s \in Side : h[m] = h[c[s]] + 1 /\ h[c[s]] \in Nat /\ c[s] \in Hung \cup {None}
  <2>1. ~IsRed(m) /\ Weight(m) = 1 /\ h[m] \in Nat /\ black_height[t] = h[m]
    BY <1>1, <1>6, <1>8
  <2>2. \A s \in Side : h[m] = h[child[m][s]] + Weight(m)
    BY <1>0, <1>2, <1>6 DEF FixRemoveStep
  <2>3. \A s \in Side : c[s] \in Hung \cup {None} /\ h[c[s]] \in Nat
    BY <1>2, <1>6, <1>h
  <2> QED  BY <2>1, <2>2, <2>3, <1>h
<1>10. PICK g \in [Ref -> Nat] :
           \A x \in Ref : g[x] = IF (x = c[0] \/ x = c[1]) /\ IsRed(x) THEN h[x] + 1 ELSE h[x]
  <2> DEFINE f == [x \in Ref |-> IF (x = c[0] \/ x = c[1]) /\ IsRed(x) THEN h[x] + 1 ELSE h[x]]
  <2>1. f \in [Ref -> Nat]
    BY <1>6
  <2> QED  BY <2>1
<1>11. ASSUME NEW x \in Hung' PROVE x \in Hung /\ x \in Index /\ x # m
  BY <1>0, <1>5
<1>12. HeightLaws(g)'
  <2>1. \A x \in Hung', s \in Side : Deficit(x, s)' = 0
    BY <1>0 DEF Deficit, FixRemoveStep
  <2>2. g[None] = 0
    BY <1>6, <1>10 DEF IsRed
  <2>3. ASSUME NEW x \in Hung', NEW s \in Side PROVE g[x] = g[child'[x][s]] + Weight(x)' + 0
    <3>0. x \in Hung /\ x \in Index /\ x # m
      BY <1>11
    <3>1. child'[x][s] = child[x][s] /\ child[x][s] \in Ref
      BY <3>0, <1>w, <1>2 DEF TypeOK
    <3>2. (child[x][s] # c[0] /\ child[x][s] # c[1]) \/ child[x][s] = None
      BY <3>0, <1>2, <1>h
    <3>3. g[child[x][s]] = h[child[x][s]]
      BY <3>1, <3>2, <1>10 DEF IsRed
    <3>4. h[x] = h[child[x][s]] + Weight(x) /\ h[child[x][s]] \in Nat /\ Weight(x) \in {0, 1}
      BY <3>0, <3>1, <1>0, <1>6 DEF FixRemoveStep
    <3>5. CASE (x = c[0] \/ x = c[1]) /\ IsRed(x)
      <4>1. Weight(x)' = 1 /\ Weight(x) = 0 /\ g[x] = h[x] + 1
        BY <3>0, <3>5, <1>4, <1>6, <1>10 DEF Weight
      <4> QED  BY <4>1, <3>1, <3>3, <3>4
    <3>6. CASE ~((x = c[0] \/ x = c[1]) /\ IsRed(x))
      <4>1. g[x] = h[x]
        BY <3>0, <3>6, <1>10
      <4>2. Weight(x)' = Weight(x)
        <5>1. CASE x = c[0] \/ x = c[1]
          <6>1. color'[x] = "Black" /\ color[x] # "Red" /\ color[x] \in Color
            BY <3>0, <3>6, <5>1, <1>0, <1>4 DEF IsRed, TypeOK
          <6> QED  BY <6>1 DEF Weight, Color
        <5>2. CASE x # c[0] /\ x # c[1]
          BY <3>0, <5>2, <1>4 DEF Weight
        <5> QED  BY <5>1, <5>2
      <4> QED  BY <4>1, <4>2, <3>1, <3>3, <3>4
    <3> QED  BY <3>5, <3>6
  <2>4. ASSUME NEW v \in Trees, NEW s \in Side, black_height'[v] = HalfHeight(t, c[s]), root'[v] = c[s]
        PROVE  black_height'[v] = g[root'[v]]
    <3>1. CASE c[s] = None
      BY <3>1, <2>2, <2>4 DEF HalfHeight
    <3>2. CASE c[s] # None /\ IsRed(c[s])
      <4>1. g[c[s]] = h[c[s]] + 1
        <5>1. s = 0 \/ s = 1
          OBVIOUS
        <5> QED  BY <5>1, <3>2, <1>10
      <4>2. black_height'[v] = h[m]
        BY <3>2, <2>4, <1>9 DEF HalfHeight
      <4> QED  BY <4>1, <4>2, <2>4, <1>9
    <3>3. CASE c[s] # None /\ ~IsRed(c[s])
      <4>1. g[c[s]] = h[c[s]]
        BY <3>3, <1>10
      <4>2. black_height'[v] = h[m] - 1
        BY <3>3, <2>4, <1>9 DEF HalfHeight
      <4> QED  BY <4>1, <4>2, <2>4, <1>9
    <3> QED  BY <3>1, <3>2, <3>3
  <2>5. ASSUME NEW v \in Trees, root'[v] # None PROVE black_height'[v] = g[root'[v]]
    <3>1. CASE v = t
      BY <3>1, <2>4, <1>3, <1>w
    <3>2. CASE v = r
      BY <3>2, <2>4, <1>3, <1>w
    <3>3. CASE v # t /\ v # r
      <4>1. black_height'[v] = h[root[v]] /\ root'[v] = root[v] /\ root[v] \in Ref
        BY <2>5, <3>3, <1>3, <1>6, <1>w, <1>2 DEF TypeOK
      <4>2. g[root[v]] = h[root[v]]
        BY <4>1, <1>8, <1>10
      <4> QED  BY <4>1, <4>2
    <3> QED  BY <3>1, <3>2, <3>3
  <2> QED  BY <2>1, <2>2, <2>3, <2>5 DEF HeightLaws
<1>13. \A x \in Hung \cup {None} : x # m => (IsRed(x)' => IsRed(x) /\ x # c[0] /\ x # c[1])
  BY <1>0, <1>4 DEF IsRed
<1>14. RedLaws'
  <2>1. \A x \in Hung : ~(IsRed(x) /\ IsRed(parent[x]))
    BY <1>0, <1>7 DEF RedLaws, RedRedAllowed
  <2>2. ASSUME NEW x \in Hung', IsRed(x)', IsRed(parent[x])' PROVE FALSE
    <3>1. x \in Hung /\ x \in Index /\ x # m
      BY <1>11
    <3>2. IsRed(x) /\ x # c[0] /\ x # c[1]
      BY <3>1, <2>2, <1>13
    <3>3. parent'[x] = parent[x] /\ parent[x] \in Hung \cup {None}
      BY <3>1, <3>2, <1>2, <1>w
    <3>4. parent[x] # m
      <4>1. SUFFICES ASSUME parent[x] = m PROVE FALSE
        OBVIOUS
      <4>2. PICK s \in Side : child[m][s] = x
        BY <4>1, <3>1, <1>1, HungClosed
      <4> QED  BY <4>2, <3>2, <1>h
    <3>5. IsRed(parent[x])
      BY <2>2, <3>3, <3>4, <1>13 DEF IsRed
    <3> QED  BY <2>1, <3>1, <3>2, <3>5
  <2>3. ASSUME NEW v \in Trees PROVE ~IsRed(root[v])'
    <3>0. root'[v] \in Hung \cup {None} /\ root'[v] # m
      <4>1. CASE v = t \/ v = r
        <5>1. PICK s \in Side : root'[v] = c[s]
          BY <4>1, <1>w
        <5>2. c[s] # m
          BY <1>1, <1>2, <1>h
        <5> QED  BY <5>1, <5>2, <1>9
      <4>2. CASE v # t /\ v # r
        <5>1. InTree(Hung, parent, child, root, D, t, D[root[t]])
          BY OwnTree
        <5> QED  BY <5>1, <4>2, <1>1, <1>2, <1>w DEF InTree
      <4> QED  BY <4>1, <4>2
    <3>1. CASE v = t \/ v = r
      <4>1. root'[v] = c[0] \/ root'[v] = c[1]
        BY <3>1, <1>w
      <4> QED  BY <3>0, <4>1, <1>13 DEF IsRed
    <3>2. CASE v # t /\ v # r
      <4>1. root'[v] = root[v]
        BY <3>2, <1>w
      <4> QED  BY <3>0, <4>1, <1>8, <1>13 DEF IsRed
    <3> QED  BY <3>1, <3>2
  <2> QED  BY <2>2, <2>3 DEF RedLaws
<1>15. RepairLaws'
  BY <1>0 DEF RepairLaws, FixRemoveStep
<1> QED  BY <1>12, <1>14, <1>15 DEF BalanceLaws

(* What the halves hold is below no other node.                            *)
LEMMA HalvingWay ==
  ASSUME TypeOK, TypeOK', NEW D \in [Ref -> SUBSET Index], NEW rk \in [Index -> Int], Laws(D, rk),
         NEW t \in Trees, NEW r \in Trees, NEW m, Halving(t, r, m),
         WayLaws, \A x \in Index : x # m => val'[x] = val[x] /\ cum'[x] = cum[x]
  PROVE  WayLaws'
<1>0. pc = "idle" /\ pc' = "idle" /\ ~Limbo' /\ Hung = Live /\ Live \subseteq Index /\ None \notin Index
  BY IdleLaws DEF Halving, Limbo, Unlinked
<1>1. root[t] = m /\ m \in Index /\ m # None
  BY <1>0 DEF Halving
<1>2. /\ \A x \in Hung, s \in Side : child[x][s] \in Hung \cup {None}
      /\ \A x \in Hung, s \in Side : child[x][s] # None => parent[child[x][s]] = x
      /\ parent[m] = None
  BY <1>1, HungClosed
<1>3. Hung' \subseteq Hung \ {m}
  <2>1. Live' = Live \ {m}
    BY <1>1 DEF Halving, Live, TypeOK
  <2> QED  BY <2>1, <1>0 DEF Hung
<1>4. \A x \in Index : x # m => child'[x] = child[x]
  BY DEF Halving, SplitHalves, TypeOK
<1>5. HasCumulant => Stale' = {}
  <2> SUFFICES ASSUME HasCumulant, NEW x \in Stale' PROVE FALSE
    OBVIOUS
  <2>1. Stale = {}
    BY <1>0, FocusIs, NoneStale DEF FocusFacts
  <2>2. x \in Hung /\ x \in Index /\ x # m
    BY <1>0, <1>3 DEF Stale
  <2>3. \A s \in Side : CumAt(child[x][s])' = CumAt(child[x][s])
    <3> TAKE s \in Side
    <3>1. child'[x][s] = child[x][s] /\ child[x][s] \in Hung \cup {None} /\ child[x][s] # m
      BY <2>2, <1>0, <1>1, <1>2, <1>4
    <3> QED  BY <3>1, <1>0 DEF CumAt
  <2> QED  BY <2>1, <2>2, <2>3, StaysCurrent
<1> QED  BY <1>0, <1>5, WayFrame DEF FixRemoveStep

-----------------------------------------------------------------------------
(* Nothing is being changed in any tree.                                   *)
Quiet == pc = "idle" \/ pc \in SearchResult

(* The nodes of the trees T are no longer those of any tree, whatever the  *)
(* slots hold now; every other node alive stays as it is, and so does the  *)
(* height of every tree that has nodes.  A call that was searching is over.*)
Gone(D, T) ==
  /\ Quiet /\ pc' = "idle" /\ call' = None
  /\ \A n \in Index : key'[n] = IF \E t \in T : n \in D[root[t]] THEN None ELSE key[n]
  /\ \A n \in Live' :
       /\ parent'[n] = parent[n] /\ child'[n] = child[n] /\ order'[n] = order[n]
       /\ color'[n] = color[n]
  /\ \A t \in T : root'[t] = None /\ range'[t] = NoLinks
  /\ \A t \in Trees \ T :
       /\ root'[t] = root[t] /\ range'[t] = range[t]
       /\ root[t] # None => black_height'[t] = black_height[t]

(* Outside of a change the laws say so much.                               *)
LEMMA QuietLaws ==
  ASSUME TypeOK, NEW D \in [Ref -> SUBSET Index], NEW rk \in [Index -> Int], Laws(D, rk), Quiet
  PROVE  /\ ~Limbo /\ pc \notin Unlinked \cup {"unlink"} \cup Repairing /\ Hung = Live
         /\ Live \in SUBSET Index /\ None \notin Index
         /\ Shape(Live, parent, child, root, D, rk)
         /\ \A t \in Trees : Thread(D[root[t]], order, range[t], rk)
         /\ \A m \in Live : rk[m] = 2 * key[m] /\ key[m] \in Int
<1>1. ~Limbo /\ pc \notin Unlinked \cup {"unlink"} \cup Repairing /\ Hung = Live
  BY DEF Limbo, Unlinked, Hung, Quiet, SearchResult, Repairing, FixRemoveStep
<1>3. \A t \in Trees : Thread(D[root[t]], order, range[t], rk)
  BY <1>1 DEF Laws, StringLaws, Strung
<1>4. \A m \in Live : rk[m] = 2 * key[m] /\ key[m] \in Int
  BY <1>1, KeyRank
<1> QED  BY <1>1, <1>3, <1>4, NoneAssumption DEF Live, Laws, LinkLaws

(* The nodes that stay are those of the other trees, and are closed under  *)
(* the links.                                                              *)
LEMMA GoneStay ==
  ASSUME TypeOK, NEW D \in [Ref -> SUBSET Index], NEW rk \in [Index -> Int], Laws(D, rk),
         NEW T \in SUBSET Trees, Gone(D, T)
  PROVE  /\ Hung' = Live' /\ Live' = {n \in Live : \A t \in T : n \notin D[root[t]]} /\ ~Limbo'
         /\ \A n \in Live' : parent[n] \in Live' \cup {None}
         /\ \A n \in Live', s \in Side : child[n][s] \in Live' \cup {None}
         /\ \A n \in Live' : n \in D[n] /\ D[n] \subseteq Live'
         /\ \A t \in Trees \ T : D[root[t]] \subseteq Live' /\ root[t] \in Live' \cup {None}
<1>0. /\ ~Limbo /\ Hung = Live /\ Live \in SUBSET Index /\ None \notin Index
      /\ Shape(Live, parent, child, root, D, rk)
  BY QuietLaws DEF Gone
<1>1. pc' = "idle" /\ ~Limbo' /\ Hung' = Live'
  BY DEF Gone, Limbo, Unlinked, Hung
<1>2. Live' = {n \in Live : \A t \in T : n \notin D[root[t]]}
  <2>1. \A n \in Index : key'[n] = IF \E t \in T : n \in D[root[t]] THEN None ELSE key[n]
    BY DEF Gone
  <2> QED  BY <2>1 DEF Live
<1>3. \A t \in Trees : InTree(Live, parent, child, root, D, t, D[root[t]])
  BY <1>0, OwnTree
<1>4. \A n \in Live : \E t \in Trees : n \in D[root[t]]
  BY <1>0 DEF Shape, Rooted
<1>5. ASSUME NEW t \in Trees \ T PROVE D[root[t]] \subseteq Live' /\ root[t] \in Live' \cup {None}
  <2>1. \A u \in T : u \in Trees /\ u # t
    OBVIOUS
  <2>2. \A u \in T : D[root[u]] \cap D[root[t]] = {}
    BY <2>1, <1>3 DEF InTree
  <2>3. D[root[t]] \subseteq Live'
    BY <2>2, <1>2, <1>3 DEF InTree
  <2>4. root[t] # None => root[t] \in D[root[t]]
    BY <1>3 DEF InTree
  <2> QED  BY <2>3, <2>4
<1>6. ASSUME NEW n \in Live'
      PROVE  /\ parent[n] \in Live' \cup {None} /\ n \in D[n] /\ D[n] \subseteq Live'
             /\ \A s \in Side : child[n][s] \in Live' \cup {None}
  <2>1. PICK t \in Trees : n \in D[root[t]]
    BY <1>2, <1>4
  <2>2. t \notin T /\ D[root[t]] \subseteq Live'
    BY <2>1, <1>2, <1>5
  <2> QED  BY <2>1, <2>2, <1>3 DEF InTree
<1> QED  BY <1>1, <1>2, <1>5, <1>6

LEMMA GoneLaws ==
  ASSUME TypeOK, TypeOK', NEW D \in [Ref -> SUBSET Index], NEW rk \in [Index -> Int], Laws(D, rk),
         NEW T \in SUBSET Trees, Gone(D, T)
  PROVE  Laws(D, rk)'
<1>0. /\ ~Limbo /\ pc \notin Unlinked \cup {"unlink"} \cup Repairing /\ Hung = Live
      /\ Live \in SUBSET Index /\ None \notin Index
      /\ Shape(Live, parent, child, root, D, rk)
      /\ \A t \in Trees : Thread(D[root[t]], order, range[t], rk)
      /\ \A m \in Live : rk[m] = 2 * key[m] /\ key[m] \in Int
  BY QuietLaws DEF Gone
<1>1. /\ Hung' = Live' /\ Live' = {n \in Live : \A t \in T : n \notin D[root[t]]} /\ ~Limbo'
      /\ \A n \in Live' : parent[n] \in Live' \cup {None}
      /\ \A n \in Live', s \in Side : child[n][s] \in Live' \cup {None}
      /\ \A n \in Live' : n \in D[n] /\ D[n] \subseteq Live'
      /\ \A t \in Trees \ T : D[root[t]] \subseteq Live' /\ root[t] \in Live' \cup {None}
  BY GoneStay
<1>2. /\ pc' = "idle" /\ call' = None /\ pc' \notin Unlinked \cup {"unlink"}
      /\ \A n \in Live' : key'[n] = key[n]
      /\ \A n \in Live' : parent'[n] = parent[n] /\ child'[n] = child[n] /\ order'[n] = order[n]
      /\ \A t \in T : root'[t] = None /\ range'[t] = NoLinks
      /\ \A t \in Trees \ T : root'[t] = root[t] /\ range'[t] = range[t]
  <2>1. \A n \in Live' : n \in Index /\ ~\E t \in T : n \in D[root[t]]
    BY <1>0, <1>1
  <2> QED  BY <2>1 DEF Gone, Unlinked
<1>3. /\ Linked(Live, parent, child) /\ NoCycle(Live, parent) /\ Descends(Live, parent, child, D)
      /\ Rooted(Live, parent, root, D) /\ Sorted(Live, child, root, D, rk) /\ D[None] = {}
  BY <1>0 DEF Shape, Descends
<1>4. \A n \in Live' : n \in Live
  BY <1>1
<1>5. Shape(Live', parent, child, root', D, rk)
  <2>1. Linked(Live', parent, child)
    BY <1>1, <1>3, <1>4 DEF Linked
  <2>2. NoCycle(Live', parent)
    BY <1>3, <1>4 DEF NoCycle
  <2>3. Descends(Live', parent, child, D)
    BY <1>1, <1>3, <1>4 DEF Descends
  <2>4. Rooted(Live', parent, root', D)
    <3>1. \A t \in Trees : root'[t] # None => root'[t] \in Live' /\ parent[root'[t]] = None
      BY <1>1, <1>2, <1>3 DEF Rooted
    <3>2. ASSUME NEW n \in Live' PROVE \E t \in Trees : n \in D[root'[t]]
      <4>1. PICK t \in Trees : n \in D[root[t]]
        BY <1>3, <1>4 DEF Rooted
      <4> QED  BY <4>1, <1>1, <1>2
    <3>3. \A t, u \in Trees : t # u => D[root'[t]] \cap D[root'[u]] = {}
      BY <1>2, <1>3 DEF Rooted
    <3> QED  BY <3>1, <3>2, <3>3 DEF Rooted
  <2>5. Sorted(Live', child, root', D, rk)
    <3>1. \A n \in Live', i \in Side : \A m \in D[child[n][i]] : Before(i, rk[m], rk[n])
      BY <1>3, <1>4 DEF Sorted
    <3>2. \A t \in Trees : D[root'[t]] = {} \/ root'[t] = root[t]
      BY <1>2, <1>3
    <3>3. \A t \in Trees : \A n, m \in D[root'[t]] : \A x, y \in D[n] :
            rk[x] < rk[m] /\ rk[m] < rk[y] => m \in D[n]
      BY <3>2, <1>3 DEF Sorted
    <3> QED  BY <3>1, <3>3 DEF Sorted
  <2> QED  BY <2>1, <2>2, <2>3, <2>4, <2>5 DEF Shape
<1>6. Shape(Live', parent', child', root', D, rk)
  <2>1. SameLinks(Live', parent, child, rk, parent', child', rk)
    BY <1>2 DEF SameLinks
  <2>2. /\ Live' \in SUBSET Index /\ parent \in [Index -> Ref] /\ child \in [Index -> [Side -> Ref]]
        /\ root' \in [Trees -> Ref]
    BY <1>0, <1>1 DEF TypeOK
  <2> HIDE DEF Side, Ref
  <2> QED  BY <2>1, <2>2, <1>5, ShapeSame
<1>7. RankLaws(rk)'
  <2> SUFFICES ASSUME NEW n \in Live' PROVE rk[n] = Rank(n)'
    BY DEF RankLaws
  <2>1. Rank(n)' = 2 * key'[n]
    BY <1>2 DEF Rank
  <2> QED  BY <2>1, <1>0, <1>2, <1>4
<1>8. StringLaws(D, rk)'
  <2> SUFFICES ASSUME NEW t \in Trees PROVE Thread(D[root'[t]], order', range'[t], rk)
    BY <1>2 DEF StringLaws, Strung
  <2>1. CASE t \in T
    <3>1. D[root'[t]] = {} /\ \A i \in Side : range'[t][i] = None
      BY <2>1, <1>2, <1>3 DEF NoLinks
    <3> QED  BY <3>1 DEF Thread
  <2>2. CASE t \notin T
    <3>1. root'[t] = root[t] /\ range'[t] = range[t] /\ D[root[t]] \subseteq Live'
      BY <2>2, <1>1, <1>2
    <3>2. SameThread(D[root[t]], order, range[t], rk, order', range[t], rk)
      BY <3>1, <1>2 DEF SameThread
    <3>3. Thread(D[root[t]], order, range[t], rk)
      BY <1>0
    <3> HIDE DEF Side, Ref
    <3> QED  BY <3>1, <3>2, <3>3, ThreadSame
  <2> QED  BY <2>1, <2>2
<1>9. CallLaws'
  BY <1>2 DEF CallLaws, InsertStep, RemoveStep, FixRemoveStep
<1> QED  BY <1>1, <1>2, <1>6, <1>7, <1>8, <1>9 DEF Laws, LinkLaws, CursorLaws

LEMMA GoneBalance ==
  ASSUME TypeOK, TypeOK', NEW D \in [Ref -> SUBSET Index], NEW rk \in [Index -> Int], Laws(D, rk),
         NEW h \in [Ref -> Nat], BalanceLaws(h), NEW T \in SUBSET Trees, Gone(D, T)
  PROVE  BalanceLaws(h)'
<1>0. ~Limbo /\ pc \notin Repairing /\ Hung = Live /\ Live \subseteq Index /\ None \notin Index
  BY QuietLaws DEF Gone
<1>1. /\ Hung' = Live' /\ Live' \subseteq Live /\ ~Limbo'
      /\ \A n \in Live' : parent[n] \in Live' \cup {None}
      /\ \A n \in Live', s \in Side : child[n][s] \in Live' \cup {None}
      /\ \A t \in Trees \ T : root[t] \in Live' \cup {None}
  BY GoneStay
<1>2. /\ pc' = "idle" /\ pc' \notin Repairing
      /\ \A n \in Live' : parent'[n] = parent[n] /\ child'[n] = child[n] /\ color'[n] = color[n]
      /\ \A t \in T : root'[t] = None
      /\ \A t \in Trees \ T :
           root'[t] = root[t] /\ (root[t] # None => black_height'[t] = black_height[t])
  BY DEF Gone, Repairing, FixRemoveStep
<1>3. HeightLaws(h) /\ RedLaws
  BY DEF BalanceLaws
<1>4. HeightLaws(h)'
  <2>1. h[None] = 0 /\ \A t \in Trees : root'[t] # None => black_height'[t] = h[root'[t]]
    BY <1>2, <1>3 DEF HeightLaws
  <2>2. ASSUME NEW n \in Live', NEW i \in Side
        PROVE  h[n] = h[child'[n][i]] + Weight(n)' + Deficit(n, i)'
    <3>1. h[n] = h[child[n][i]] + Weight(n) + Deficit(n, i)
      BY <1>0, <1>1, <1>3 DEF HeightLaws
    <3>2. Deficit(n, i) = 0 /\ Deficit(n, i)' = 0 /\ Weight(n)' = Weight(n)
      BY <1>0, <1>2 DEF Deficit, Weight, Repairing
    <3> QED  BY <3>1, <3>2, <1>2
  <2> QED  BY <2>1, <2>2, <1>1 DEF HeightLaws
<1>5. RedLaws'
  <2>1. \A n \in Live' \cup {None} : IsRed(n)' <=> IsRed(n)
    BY <1>2 DEF IsRed
  <2>2. \A n \in Live' : ~(IsRed(n) /\ IsRed(parent[n]))
    BY <1>0, <1>1, <1>3 DEF RedLaws, RedRedAllowed, Repairing, FixRemoveStep
  <2>3. \A n \in Live' : IsRed(parent[n])' <=> IsRed(parent[n])
    BY <2>1, <1>1, <1>2 DEF IsRed
  <2>4. \A t \in Trees : ~IsRed(root[t])
    BY <1>0, <1>3 DEF RedLaws, Repairing
  <2>5. ASSUME NEW t \in Trees PROVE ~IsRed(root[t])'
    <3>1. CASE t \in T
      BY <3>1, <1>2 DEF IsRed
    <3>2. CASE t \notin T
      <4>1. root'[t] = root[t] /\ root[t] \in Live' \cup {None}
        BY <3>2, <1>1, <1>2
      <4> QED  BY <4>1, <2>1, <2>4 DEF IsRed
    <3> QED  BY <3>1, <3>2
  <2> QED  BY <2>1, <2>2, <2>3, <2>5, <1>1 DEF RedLaws
<1>6. RepairLaws'
  BY <1>1, <1>2 DEF RepairLaws, FixRemoveStep
<1> QED  BY <1>4, <1>5, <1>6 DEF BalanceLaws

LEMMA GoneWay ==
  ASSUME TypeOK, TypeOK', NEW D \in [Ref -> SUBSET Index], NEW rk \in [Index -> Int], Laws(D, rk),
         NEW T \in SUBSET Trees, Gone(D, T), WayLaws,
         \A n \in Live' : val'[n] = val[n] /\ cum'[n] = cum[n]
  PROVE  WayLaws'
<1>0. Quiet /\ Hung = Live /\ None \notin Index /\ pc' = "idle"
  BY QuietLaws DEF Gone
<1>1. /\ Hung' = Live' /\ Live' \subseteq Live
      /\ \A n \in Live', s \in Side : child[n][s] \in Live' \cup {None}
      /\ \A n \in Live' : child'[n] = child[n]
  <2>1. /\ Hung' = Live' /\ Live' = {n \in Live : \A t \in T : n \notin D[root[t]]}
        /\ \A n \in Live', s \in Side : child[n][s] \in Live' \cup {None}
    BY GoneStay
  <2>2. \A n \in Live' : child'[n] = child[n]
    BY DEF Gone
  <2> QED  BY <2>1, <2>2
<1>5. HasCumulant => Stale' = {}
  <2> SUFFICES ASSUME HasCumulant, NEW x \in Stale' PROVE FALSE
    OBVIOUS
  <2>1. Stale = {}
    <3>1. pc \in {"idle", "descend", "free"} \cup SearchResult /\ pc # "red_far_nephew"
      BY <1>0 DEF Quiet, SearchResult
    <3> QED  BY <3>1, FocusIs, NoneStale DEF FocusFacts
  <2>2. x \in Live' /\ x \in Hung
    BY <1>0, <1>1 DEF Stale
  <2>3. \A s \in Side : CumAt(child[x][s])' = CumAt(child[x][s])
    <3> TAKE s \in Side
    <3>1. child'[x][s] = child[x][s] /\ child[x][s] \in Live' \cup {None}
      BY <2>2, <1>1
    <3> QED  BY <3>1 DEF CumAt
  <2> QED  BY <2>1, <2>2, <2>3, StaysCurrent
<1> QED  BY <1>0, <1>5, WayFrame DEF FixRemoveStep

-----------------------------------------------------------------------------
(* join_unchecked, in all: where the pivot goes, and that it comes into the *)
(* tree.                                                                   *)
Attaching(D, w, o, i, n, at, k, v) ==
  /\ pc = "idle" /\ w \in Trees /\ o \in Trees /\ i \in Side /\ n \in Index \ Live /\ k \in Keys
  /\ JoinPlace(D, w, o, i, n, at, k) /\ Attach(w, o, i, n, at, k, v)
  /\ key' = [key EXCEPT ![n] = k]

LEMMA AttachingLaws ==
  ASSUME TypeOK, TypeOK', NEW D \in [Ref -> SUBSET Index], NEW rk \in [Index -> Int], Laws(D, rk),
         NEW w, NEW o, NEW i, NEW n, NEW at, NEW k, NEW v, Attaching(D, w, o, i, n, at, k, v)
  PROVE  Spared /\ \E E \in [Ref -> SUBSET Index], s \in [Index -> Int] : Laws(E, s)'
<1>1. /\ pc = "idle" /\ w \in Trees /\ o \in Trees /\ i \in Side /\ n \in Index \ Live /\ k \in Keys
      /\ JoinPlace(D, w, o, i, n, at, k) /\ Attach(w, o, i, n, at, k, v)
      /\ key' = [key EXCEPT ![n] = k]
  BY DEF Attaching
<1> QED  BY <1>1, AttachLaws

LEMMA AttachingBalance ==
  ASSUME TypeOK, TypeOK', NEW D \in [Ref -> SUBSET Index], NEW rk \in [Index -> Int], Laws(D, rk),
         NEW h \in [Ref -> Nat], BalanceLaws(h),
         NEW w, NEW o, NEW i, NEW n, NEW at, NEW k, NEW v, Attaching(D, w, o, i, n, at, k, v),
         ~IsRed(at), h[at] = h[root[o]]
  PROVE  \E g \in [Ref -> Nat] : BalanceLaws(g)'
<1>1. /\ pc = "idle" /\ w \in Trees /\ o \in Trees /\ i \in Side /\ n \in Index \ Live /\ k \in Keys
      /\ JoinPlace(D, w, o, i, n, at, k) /\ Attach(w, o, i, n, at, k, v)
      /\ key' = [key EXCEPT ![n] = k]
  BY DEF Attaching
<1> QED  BY <1>1, AttachBalance

LEMMA AttachingWay ==
  ASSUME TypeOK, TypeOK', NEW D \in [Ref -> SUBSET Index], NEW rk \in [Index -> Int], Laws(D, rk),
         NEW w, NEW o, NEW i, NEW n, NEW at, NEW k, NEW v, Attaching(D, w, o, i, n, at, k, v),
         WayLaws, \A m \in Index : m # n => val'[m] = val[m] /\ cum'[m] = cum[m]
  PROVE  WayLaws'
<1>1. /\ pc = "idle" /\ w \in Trees /\ o \in Trees /\ i \in Side /\ n \in Index \ Live /\ k \in Keys
      /\ JoinPlace(D, w, o, i, n, at, k) /\ Attach(w, o, i, n, at, k, v)
      /\ key' = [key EXCEPT ![n] = k]
  BY DEF Attaching
<1> HIDE DEF Side, Ref
<1> QED  BY <1>1, AttachWay
=============================================================================
