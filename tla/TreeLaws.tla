------------------------------ MODULE TreeLaws ------------------------------
(***************************************************************************)
(* What the helpers of tree/mod.rs do to search trees and threads, as      *)
(* facts about functions on slots: L are the slots in a tree, P, C, O      *)
(* their parents, children and neighbours, R and rg roots and ranges, and  *)
(* D, rk the subtrees and ranks; a 2 marks the same after a step.          *)
(***************************************************************************)
EXTENDS RBTreeLaws, FiniteSetTheorems, WellFoundedInduction, TLAPS

-----------------------------------------------------------------------------
(* Subtree and Path are the closures of one node under children and under  *)
(* parents.  Closure iterates by a function that is defined by itself, so  *)
(* nothing follows from unfolding it: the lemmas build a function that     *)
(* satisfies the same equation, by the finiteness of Index, and show that  *)
(* the equation has no other solution.                                     *)

(* A set of subsets of a finite set has a maximal member.                  *)
LEMMA AscentEnds ==
  ASSUME NEW S, IsFiniteSet(S), NEW B \in SUBSET SUBSET S, B # {}
  PROVE  \E M \in B : \A N \in B : M \subseteq N => N = M
<1> DEFINE Co == {S \ M : M \in B}
<1>1. IsWellFoundedOn(StrictSubsetOrdering(S), FiniteSubsetsOf(S))
  BY FS_StrictSubsetOrderingWellFounded
<1>2. Co \subseteq FiniteSubsetsOf(S) /\ Co # {}
  <2>1. ASSUME NEW X \in Co PROVE X \in SUBSET S /\ IsFiniteSet(X)
    <3>1. X \in SUBSET S
      OBVIOUS
    <3> QED  BY <3>1, FS_Subset
  <2>2. PICK M \in B : TRUE
    OBVIOUS
  <2>3. S \ M \in Co
    OBVIOUS
  <2> HIDE DEF Co
  <2> QED  BY <2>1, <2>3 DEF FiniteSubsetsOf
<1>3. PICK x \in Co : \A y \in Co : ~(<<y, x>> \in StrictSubsetOrdering(S))
  <2> HIDE DEF Co
  <2> QED  BY <1>1, <1>2, WFMin
<1>4. PICK M \in B : x = S \ M
  OBVIOUS
<1>5. ASSUME NEW N \in B, M \subseteq N PROVE N = M
  <2>1. SUFFICES ASSUME N # M PROVE FALSE
    OBVIOUS
  <2>2. S \ N \in Co /\ S \ N \subseteq S \ M /\ S \ N # S \ M
    BY <1>5, <2>1
  <2>3. <<S \ N, x>> \in StrictSubsetOrdering(S)
    BY <2>2, <1>4 DEF StrictSubsetOrdering
  <2> QED  BY <2>2, <2>3, <1>3
<1> QED  BY <1>5

(* G only adds to a set ...                                                *)
Grows(S, G) == \A M \in SUBSET S : G[M] \in SUBSET S /\ M \subseteq G[M]
(* ... and F repeats it until nothing is added.                            *)
Iterates(S, G, F) == \A M \in SUBSET S : F[M] = IF G[M] = M THEN M ELSE F[G[M]]

(* The iteration has one result.                                           *)
LEMMA ClosureUnique ==
  ASSUME NEW S, IsFiniteSet(S), NEW G, NEW F, NEW W,
         Grows(S, G), Iterates(S, G, F), Iterates(S, G, W), NEW M0 \in SUBSET S
  PROVE  F[M0] = W[M0]
<1>a. \A M \in SUBSET S : G[M] \in SUBSET S /\ M \subseteq G[M]
  BY DEF Grows
<1>b. /\ \A M \in SUBSET S : F[M] = IF G[M] = M THEN M ELSE F[G[M]]
      /\ \A M \in SUBSET S : W[M] = IF G[M] = M THEN M ELSE W[G[M]]
  BY DEF Iterates
<1> USE <1>a, <1>b
<1> DEFINE B == {M \in SUBSET S : F[M] # W[M]}
<1>1. SUFFICES ASSUME B # {} PROVE FALSE
  OBVIOUS
<1>2. PICK M \in B : \A N \in B : M \subseteq N => N = M
  <2> B \in SUBSET SUBSET S
    OBVIOUS
  <2> HIDE DEF B
  <2> QED  BY <1>1, AscentEnds
<1>3. CASE G[M] = M
  BY <1>3
<1>4. CASE G[M] # M
  <2>1. G[M] \in SUBSET S /\ F[M] = F[G[M]] /\ W[M] = W[G[M]] /\ M \subseteq G[M]
    BY <1>4
  <2> QED  BY <2>1, <1>2, <1>4
<1> QED  BY <1>3, <1>4


(* The function that Closure defines, as a map from a candidate to a       *)
(* candidate: for the children, ...                                        *)
SubtreeFn(f) ==
  [R \in SUBSET Ref |->
     LET next == R \cup UNION {Children(m) : m \in R}
     IN  IF next = R THEN R ELSE f[next]]

(* ... and for the parents.                                                *)
PathFn(f) ==
  [R \in SUBSET Ref |->
     LET next == R \cup UNION {Parents(m) : m \in R}
     IN  IF next = R THEN R ELSE f[next]]

(* The iteration of a monotone G reaches the least closed superset.        *)
LEMMA LeastClosed ==
  ASSUME NEW S, NEW G \in [SUBSET S -> SUBSET S],
         \A M \in SUBSET S : M \subseteq G[M],
         \A M, N \in SUBSET S : M \subseteq N => G[M] \subseteq G[N]
  PROVE  \E W \in [SUBSET S -> SUBSET S] :
           /\ \A M \in SUBSET S : W[M] = IF G[M] = M THEN M ELSE W[G[M]]
           /\ \A M \in SUBSET S : M \subseteq W[M] /\ G[W[M]] = W[M]
           /\ \A M, X \in SUBSET S : M \subseteq X /\ G[X] = X => W[M] \subseteq X
<1> DEFINE Least(M) == {m \in S : \A X \in SUBSET S : M \subseteq X /\ G[X] = X => m \in X}
           W == [M \in SUBSET S |-> Least(M)]
<1>1. \A M \in SUBSET S : W[M] = Least(M) /\ Least(M) \in SUBSET S
  OBVIOUS
<1>2. ASSUME NEW M \in SUBSET S, NEW X \in SUBSET S, M \subseteq X, G[X] = X
      PROVE  Least(M) \subseteq X
  BY <1>2
<1>3. ASSUME NEW M \in SUBSET S PROVE M \subseteq Least(M)
  OBVIOUS
<1>4. ASSUME NEW M \in SUBSET S PROVE G[Least(M)] = Least(M)
  <2> HIDE DEF Least
  <2>1. ASSUME NEW X \in SUBSET S, M \subseteq X, G[X] = X
        PROVE  G[Least(M)] \subseteq X
    <3>1. Least(M) \subseteq X
      BY <1>2, <2>1
    <3>2. G[Least(M)] \subseteq G[X]
      BY <3>1, <1>1
    <3> QED  BY <3>2, <2>1
  <2>2. G[Least(M)] \in SUBSET S /\ Least(M) \subseteq G[Least(M)]
    BY <1>1
  <2>3. G[Least(M)] \subseteq Least(M)
    <3>1. ASSUME NEW m \in G[Least(M)] PROVE m \in Least(M)
      <4>1. m \in S
        BY <2>2
      <4>2. \A X \in SUBSET S : M \subseteq X /\ G[X] = X => m \in X
        BY <2>1
      <4> QED  BY <4>1, <4>2 DEF Least
    <3> QED  BY <3>1
  <2> QED  BY <2>2, <2>3
<1>5. ASSUME NEW M \in SUBSET S PROVE Least(M) = IF G[M] = M THEN M ELSE Least(G[M])
  <2>1. CASE G[M] = M
    <3>1. Least(M) \subseteq M
      BY <1>2, <2>1
    <3> QED  BY <2>1, <3>1, <1>3
  <2>2. CASE G[M] # M
    <3>1. G[M] \in SUBSET S /\ M \subseteq G[M]
      OBVIOUS
    <3>2. Least(M) \subseteq Least(G[M])
      <4> HIDE DEF Least
      <4>1. M \subseteq Least(G[M]) /\ G[Least(G[M])] = Least(G[M]) /\ Least(G[M]) \in SUBSET S
        BY <3>1, <1>1, <1>3, <1>4
      <4> QED  BY <4>1, <1>2
    <3>3. Least(G[M]) \subseteq Least(M)
      <4> HIDE DEF Least
      <4>1. Least(M) \in SUBSET S /\ M \subseteq Least(M) /\ G[Least(M)] = Least(M)
        BY <1>1, <1>3, <1>4
      <4>2. G[M] \subseteq Least(M)
        BY <4>1
      <4> QED  BY <3>1, <4>1, <4>2, <1>2
    <3> QED  BY <2>2, <3>2, <3>3
  <2> QED  BY <2>1, <2>2
<1>6. \A M \in SUBSET S : W[M] = IF G[M] = M THEN M ELSE W[G[M]]
  <2> TAKE M \in SUBSET S
  <2>1. G[M] \in SUBSET S
    OBVIOUS
  <2> HIDE DEF Least
  <2> QED  BY <2>1, <1>5
<1>7. W \in [SUBSET S -> SUBSET S]
  BY <1>1
<1>8. \A M \in SUBSET S : M \subseteq W[M] /\ G[W[M]] = W[M]
  <2> HIDE DEF Least, W
  <2> QED  BY <1>1, <1>3, <1>4
<1>9. \A M, X \in SUBSET S : M \subseteq X /\ G[X] = X => W[M] \subseteq X
  <2> HIDE DEF Least, W
  <2> QED  BY <1>1, <1>2
<1> HIDE DEF W
<1> QED  BY <1>6, <1>7, <1>8, <1>9

(* Subtree(n) is the least set with n that is closed under children.       *)
LEMMA SubtreeLeast ==
  ASSUME IsFiniteSet(Ref), child \in [Index -> [Side -> Ref]], NEW n \in Ref
  PROVE  \E X \in SUBSET Ref :
           /\ n \in X /\ \A m \in X : Children(m) \subseteq X
           /\ \A Y \in SUBSET Ref : n \in Y /\ (\A m \in Y : Children(m) \subseteq Y) => X \subseteq Y
           /\ Subtree(n) = X \ {None}
<1> DEFINE G == [R \in SUBSET Ref |-> R \cup UNION {Children(m) : m \in R}]
           Q(f) == f = SubtreeFn(f)
           Reached == CHOOSE f : Q(f)
<1>0. \A m \in Ref : Children(m) \subseteq Ref
  BY DEF Children, Side, Ref
<1>1. Subtree(n) = Reached[{n}] \ {None}
  BY DEF Subtree, Closure, SubtreeFn
<1>2. G \in [SUBSET Ref -> SUBSET Ref]
  BY <1>0
<1>3. \A M \in SUBSET Ref : M \subseteq G[M]
  OBVIOUS
<1>4. \A M, N \in SUBSET Ref : M \subseteq N => G[M] \subseteq G[N]
  OBVIOUS
<1>5. \A R \in SUBSET Ref : G[R] = R <=> \A m \in R : Children(m) \subseteq R
  OBVIOUS
<1>6. PICK W \in [SUBSET Ref -> SUBSET Ref] :
           /\ \A M \in SUBSET Ref : W[M] = IF G[M] = M THEN M ELSE W[G[M]]
           /\ \A M \in SUBSET Ref : M \subseteq W[M] /\ G[W[M]] = W[M]
           /\ \A M, X \in SUBSET Ref : M \subseteq X /\ G[X] = X => W[M] \subseteq X
  <2> HIDE DEF G
  <2> QED  BY ZenonT(40), <1>2, <1>3, <1>4, LeastClosed
<1>7. Q(W)
  <2>1. W = [R \in SUBSET Ref |-> IF G[R] = R THEN R ELSE W[G[R]]]
    <3> HIDE DEF G
    <3> QED  BY <1>6
  <2> QED  BY <2>1 DEF SubtreeFn
<1>8. Q(Reached)
  <2> HIDE DEF Q
  <2> QED  BY <1>7
<1>9. \A R \in SUBSET Ref : Reached[R] = IF G[R] = R THEN R ELSE Reached[G[R]]
  <2> HIDE DEF Reached
  <2>1. Reached = SubtreeFn(Reached)
    BY <1>8
  <2>2. \A R \in SUBSET Ref : SubtreeFn(Reached)[R] = IF G[R] = R THEN R ELSE Reached[G[R]]
    BY DEF SubtreeFn
  <2> QED  BY <2>1, <2>2
<1>10. Reached[{n}] = W[{n}]
  <2>1. Grows(Ref, G)
    BY <1>2, <1>3 DEF Grows
  <2>1a. Iterates(Ref, G, W) /\ Iterates(Ref, G, Reached)
    <3> HIDE DEF G, Reached
    <3> QED  BY <1>6, <1>9 DEF Iterates
  <2>2. {n} \in SUBSET Ref
    BY DEF Ref
  <2>3. PICK M0 \in SUBSET Ref : M0 = {n}
    BY <2>2
  <2> HIDE DEF G, Reached
  <2>4. Reached[M0] = W[M0]
    BY <2>1, <2>1a, ClosureUnique
  <2> QED  BY <2>3, <2>4
<1>11. W[{n}] \in SUBSET Ref /\ {n} \subseteq W[{n}] /\ G[W[{n}]] = W[{n}] 
  <2>1. {n} \in SUBSET Ref
    BY DEF Ref
  <2> HIDE DEF G
  <2> QED  BY <2>1, <1>6
<1>12. ASSUME NEW Y \in SUBSET Ref, n \in Y, \A m \in Y : Children(m) \subseteq Y
       PROVE  W[{n}] \subseteq Y
  <2>1. {n} \in SUBSET Ref /\ {n} \subseteq Y /\ G[Y] = Y
    BY <1>12, <1>5 DEF Ref
  <2> HIDE DEF G
  <2> QED BY <2>1, <1>6
<1> HIDE DEF G, Reached, Q
<1> QED  BY <1>1, <1>5, <1>10, <1>11, <1>12

(* Path(n) is the least set with n that is closed under parents.           *)
LEMMA PathLeast ==
  ASSUME IsFiniteSet(Ref), parent \in [Index -> Ref], NEW n \in Ref
  PROVE  \E X \in SUBSET Ref :
           /\ n \in X /\ \A m \in X : Parents(m) \subseteq X
           /\ \A Y \in SUBSET Ref : n \in Y /\ (\A m \in Y : Parents(m) \subseteq Y) => X \subseteq Y
           /\ Path(n) = X \ {None}
<1> DEFINE G == [R \in SUBSET Ref |-> R \cup UNION {Parents(m) : m \in R}]
           Q(f) == f = PathFn(f)
           Reached == CHOOSE f : Q(f)
<1>0. \A m \in Ref : Parents(m) \subseteq Ref
  BY DEF Parents, Side, Ref
<1>1. Path(n) = Reached[{n}] \ {None}
  BY DEF Path, Closure, PathFn
<1>2. G \in [SUBSET Ref -> SUBSET Ref]
  BY <1>0
<1>3. \A M \in SUBSET Ref : M \subseteq G[M]
  OBVIOUS
<1>4. \A M, N \in SUBSET Ref : M \subseteq N => G[M] \subseteq G[N]
  OBVIOUS
<1>5. \A R \in SUBSET Ref : G[R] = R <=> \A m \in R : Parents(m) \subseteq R
  OBVIOUS
<1>6. PICK W \in [SUBSET Ref -> SUBSET Ref] :
           /\ \A M \in SUBSET Ref : W[M] = IF G[M] = M THEN M ELSE W[G[M]]
           /\ \A M \in SUBSET Ref : M \subseteq W[M] /\ G[W[M]] = W[M]
           /\ \A M, X \in SUBSET Ref : M \subseteq X /\ G[X] = X => W[M] \subseteq X
  <2> HIDE DEF G
  <2> QED  BY ZenonT(40), <1>2, <1>3, <1>4, LeastClosed
<1>7. Q(W)
  <2>1. W = [R \in SUBSET Ref |-> IF G[R] = R THEN R ELSE W[G[R]]]
    <3> HIDE DEF G
    <3> QED  BY <1>6
  <2> QED  BY <2>1 DEF PathFn
<1>8. Q(Reached)
  <2> HIDE DEF Q
  <2> QED  BY <1>7
<1>9. \A R \in SUBSET Ref : Reached[R] = IF G[R] = R THEN R ELSE Reached[G[R]]
  <2> HIDE DEF Reached
  <2>1. Reached = PathFn(Reached)
    BY <1>8
  <2>2. \A R \in SUBSET Ref : PathFn(Reached)[R] = IF G[R] = R THEN R ELSE Reached[G[R]]
    BY DEF PathFn
  <2> QED  BY <2>1, <2>2
<1>10. Reached[{n}] = W[{n}]
  <2>1. Grows(Ref, G)
    BY <1>2, <1>3 DEF Grows
  <2>1a. Iterates(Ref, G, W) /\ Iterates(Ref, G, Reached)
    <3> HIDE DEF G, Reached
    <3> QED  BY <1>6, <1>9 DEF Iterates
  <2>2. {n} \in SUBSET Ref
    BY DEF Ref
  <2>3. PICK M0 \in SUBSET Ref : M0 = {n}
    BY <2>2
  <2> HIDE DEF G, Reached
  <2>4. Reached[M0] = W[M0]
    BY <2>1, <2>1a, ClosureUnique
  <2> QED  BY <2>3, <2>4
<1>11. W[{n}] \in SUBSET Ref /\ {n} \subseteq W[{n}] /\ G[W[{n}]] = W[{n}] 
  <2>1. {n} \in SUBSET Ref
    BY DEF Ref
  <2> HIDE DEF G
  <2> QED  BY <2>1, <1>6
<1>12. ASSUME NEW Y \in SUBSET Ref, n \in Y, \A m \in Y : Parents(m) \subseteq Y
       PROVE  W[{n}] \subseteq Y
  <2>1. {n} \in SUBSET Ref /\ {n} \subseteq Y /\ G[Y] = Y
    BY <1>12, <1>5 DEF Ref
  <2> HIDE DEF G
  <2> QED BY <2>1, <1>6
<1> HIDE DEF G, Reached, Q
<1> QED  BY <1>1, <1>5, <1>10, <1>11, <1>12

(* There are finitely many slots and references.                           *)
LEMMA RefFinite == IsFiniteSet(Ref)
  BY IndexAssumption, FS_AddElement DEF Ref

USE DEF Side, Ref

(* The ghost subtree is the subtree that the runs compute.                 *)
LEMMA SubtreeIs ==
  ASSUME TypeOK, NEW D \in [Ref -> SUBSET Index], NEW rk, NEW R,
         NEW L \in SUBSET Index, Shape(L, parent, child, R, D, rk), NEW n \in L
  PROVE  Subtree(n) = D[n]
<1>a. Linked(L, parent, child) /\ NoCycle(L, parent) /\ Descends(L, parent, child, D)
  BY DEF Shape
<1>1. /\ parent \in [Index -> Ref] /\ child \in [Index -> [Side -> Ref]] /\ None \notin Index
      /\ n \in Index
  BY NoneAssumption DEF TypeOK
<1>2. PICK X \in SUBSET Ref :
           /\ n \in X /\ \A m \in X : Children(m) \subseteq X
           /\ \A Y \in SUBSET Ref : n \in Y /\ (\A m \in Y : Children(m) \subseteq Y) => X \subseteq Y
           /\ Subtree(n) = X \ {None}
  <2>1. n \in Ref /\ IsFiniteSet(Ref)
    BY <1>1, RefFinite
  <2> HIDE DEF Side, Ref
  <2> QED  BY <2>1, <1>1, SubtreeLeast
<1>3. /\ n \in D[n] /\ D[n] \subseteq L /\ D[None] = {}
      /\ \A m \in D[n] : D[m] \subseteq D[n]
      /\ \A m \in L : m \in D[m] /\ D[m] = {m} \cup D[child[m][0]] \cup D[child[m][1]]
  BY <1>a DEF Descends
<1>4. X \ {None} \subseteq D[n]
  <2> DEFINE Y == D[n] \cup {None}
  <2>1. Y \in SUBSET Ref /\ n \in Y
    BY <1>3
  <2>2. ASSUME NEW m \in Y PROVE Children(m) \subseteq Y
    <3>1. CASE m = None
      BY <3>1 DEF Children
    <3>2. CASE m # None
      <4>1. m \in D[n] /\ m \in L
        BY <3>2, <1>3
      <4>2. ASSUME NEW s \in Side PROVE child[m][s] \in Y
        <5>1. CASE child[m][s] # None
          <6>1. child[m][s] \in L
            BY <4>1, <5>1, <1>a DEF Linked
          <6>2. child[m][s] \in D[child[m][s]]
            BY <6>1, <1>3
          <6>3. D[child[m][s]] \subseteq D[m]
            BY <4>1, <1>3
          <6> QED  BY <6>2, <6>3, <4>1, <1>3
        <5> QED  BY <5>1
      <4> QED  BY <3>2, <4>2 DEF Children
    <3> QED  BY <3>1, <3>2
  <2> HIDE DEF Y
  <2>3. X \subseteq Y
    BY <2>1, <2>2, <1>2
  <2> QED  BY <2>3 DEF Y
<1>5. D[n] \subseteq X
  <2> DEFINE S == D[n] \ X
  <2>1. SUFFICES ASSUME S # {} PROVE FALSE
    OBVIOUS
  <2>2. PICK m \in S : parent[m] \notin S
    BY <2>1, <1>3, <1>a DEF NoCycle
  <2>3. m # n /\ m \in L /\ parent[m] \in D[n]
    BY <2>2, <1>2, <1>3, <1>a DEF Descends
  <2>4. parent[m] \in X /\ parent[m] # None
    BY <2>2, <2>3, <1>1, <1>3
  <2>5. m \in Children(parent[m])
    BY <2>3, <2>4, <1>a DEF Linked, Children
  <2> QED  BY <2>2, <2>4, <2>5, <1>2
<1> QED  BY <1>1, <1>2, <1>3, <1>4, <1>5

(* None has no subtree.                                                    *)
LEMMA SubtreeNone == TypeOK => Subtree(None) = {}
<1> SUFFICES ASSUME TypeOK PROVE Subtree(None) = {}
  OBVIOUS
<1>1. PICK X \in SUBSET Ref :
           /\ \A Y \in SUBSET Ref : None \in Y /\ (\A m \in Y : Children(m) \subseteq Y) => X \subseteq Y
           /\ Subtree(None) = X \ {None}
  <2>1. None \in Ref /\ child \in [Index -> [Side -> Ref]]
    BY DEF TypeOK
  <2> HIDE DEF Side, Ref
  <2> QED  BY <2>1, RefFinite, SubtreeLeast
<1>2. {None} \in SUBSET Ref /\ \A m \in {None} : Children(m) \subseteq {None}
  BY DEF Children
<1> QED  BY <1>1, <1>2

(* Where no set is closed under going up, every path ends at a root.       *)
LEMMA PathEnds ==
  ASSUME TypeOK, NEW L \in SUBSET Index, Linked(L, parent, child), NoCycle(L, parent), NEW n \in L
  PROVE  \E m \in Path(n) : parent[m] = None
<1>1. PICK X \in SUBSET Ref :
           n \in X /\ (\A m \in X : Parents(m) \subseteq X) /\ Path(n) = X \ {None}
  <2>1. n \in Ref /\ parent \in [Index -> Ref]
    BY DEF TypeOK
  <2> HIDE DEF Side, Ref
  <2> QED  BY <2>1, RefFinite, PathLeast
<1> DEFINE S == {m \in L : m \in X}
<1>2. PICK m \in S : parent[m] \notin S
  <2>1. S # {} /\ S \in SUBSET L
    BY <1>1
  <2> QED  BY <2>1 DEF NoCycle
<1>3. m \in Index /\ m # None /\ m \in X
  BY NoneAssumption
<1>4. parent[m] \in X
  BY <1>1, <1>3 DEF Parents
<1>5. parent[m] = None
  BY <1>2, <1>4 DEF Linked
<1> QED  BY <1>1, <1>3, <1>5

-----------------------------------------------------------------------------
(* What Shape says of one tree, t, whose nodes are A.                      *)
InTree(L, P, C, R, D, t, A) ==
  /\ A \subseteq L
  /\ R[t] = None => A = {}
  /\ R[t] # None => R[t] \in A /\ P[R[t]] = None
  /\ \A m \in A : P[m] = None => m = R[t]
  /\ \A m \in A : P[m] # None => P[m] \in A
  /\ \A m \in A : P[m] # None => \E s \in Side : C[P[m]][s] = m
  /\ \A m \in A, s \in Side : C[m][s] # None => C[m][s] \in A /\ P[C[m][s]] = m
  /\ \A m \in A : m \in D[m] /\ D[m] \subseteq A
  /\ \A u \in Trees : u # t => R[u] \notin A /\ D[R[u]] \cap A = {}

(* A node, its parent, its children and their subtrees are different.      *)
Apart(P, C, D, n) ==
  /\ \A s \in Side : n \notin D[C[n][s]] /\ C[n][s] # n
  /\ \A s, r \in Side : s # r => D[C[n][s]] \cap D[C[n][r]] = {}
  /\ \A s, r \in Side : s # r /\ C[n][s] # None => C[n][r] # C[n][s]
  /\ \A s, r \in Side : C[n][s] # None => C[C[n][s]][r] # n
  /\ \A s \in Side : C[n][s] # None => P[n] # C[n][s]
  /\ P[n] # n

(* A tree is closed under the links, and the trees are disjoint.           *)
LEMMA Family ==
  ASSUME NEW L \in SUBSET Index,
         NEW P \in [Index -> Ref], NEW C \in [Index -> [Side -> Ref]],
         NEW R \in [Trees -> Ref], NEW D \in [Ref -> SUBSET Index],
         NEW rk, Shape(L, P, C, R, D, rk), NEW t \in Trees
  PROVE  InTree(L, P, C, R, D, t, D[R[t]])
<1>a. /\ Linked(L, P, C) /\ NoCycle(L, P) /\ Descends(L, P, C, D)
      /\ Rooted(L, P, R, D) /\ Sorted(L, C, R, D, rk)
  BY DEF Shape
<1> USE <1>a
<1> DEFINE A == D[R[t]]
<1>1. D[None] = {} /\ None \notin Index
  BY NoneAssumption DEF Descends
<1>2. \A n \in L : D[n] \subseteq L /\ n \in D[n]
  BY DEF Descends
<1>3. \A n \in L : \A m \in D[n] : D[m] \subseteq D[n] /\ (m # n => P[m] \in D[n])
  BY DEF Descends
<1>4. R[t] # None => R[t] \in L /\ P[R[t]] = None
  BY DEF Rooted
<1>5. A \subseteq L
  BY <1>1, <1>2, <1>4
<1>6. \A m \in A : R[t] \in L /\ D[m] \subseteq A /\ m \in D[m] /\ (m # R[t] => P[m] \in A)
  <2> TAKE m \in A
  <2>1. R[t] \in L /\ m \in D[R[t]]
    BY <1>1, <1>4
  <2>2. D[m] \subseteq D[R[t]] /\ (m # R[t] => P[m] \in D[R[t]])
    BY <2>1, <1>3
  <2>3. m \in L
    BY <1>5
  <2> QED  BY <2>1, <2>2, <2>3, <1>2
<1>7. \A m \in A : P[m] # None => P[m] \in A
  BY <1>1, <1>4, <1>6
<1>8. \A m \in A : P[m] = None => m = R[t]
  BY <1>1, <1>2, <1>5, <1>6
<1>9. ASSUME NEW m \in A, NEW s \in Side, C[m][s] # None
      PROVE  C[m][s] \in A /\ P[C[m][s]] = m
  <2>1. C[m][s] \in L /\ P[C[m][s]] = m
    BY <1>5, <1>9 DEF Linked
  <2>2. D[C[m][s]] \subseteq D[m]
    BY <1>5 DEF Descends
  <2> QED  BY <2>1, <2>2, <1>2, <1>6
<1>10. \A m \in A : P[m] # None => \E s \in Side : C[P[m]][s] = m
  BY <1>5 DEF Linked
<1>11. ASSUME NEW u \in Trees, u # t PROVE R[u] \notin A /\ D[R[u]] \cap A = {}
  <2>1. D[R[u]] \cap A = {}
    BY <1>11 DEF Rooted
  <2>2. R[u] # None => R[u] \in D[R[u]]
    BY <1>2 DEF Rooted
  <2> QED  BY <2>1, <2>2, <1>1
<1>12. (R[t] = None => A = {}) /\ (R[t] # None => R[t] \in A)
  BY <1>1, <1>2, <1>4
<1> QED  BY <1>4, <1>5, <1>6, <1>7, <1>8, <1>9, <1>10, <1>11, <1>12 DEF InTree

(* No links loop within two steps of a node.                               *)
LEMMA Distinct ==
  ASSUME NEW L \in SUBSET Index,
         NEW P \in [Index -> Ref], NEW C \in [Index -> [Side -> Ref]],
         NEW R \in [Trees -> Ref], NEW D \in [Ref -> SUBSET Index],
         NEW rk \in [Index -> Int],
         Shape(L, P, C, R, D, rk), NEW n \in L
  PROVE  Apart(P, C, D, n)
<1>a. /\ Linked(L, P, C) /\ NoCycle(L, P) /\ Descends(L, P, C, D)
      /\ Rooted(L, P, R, D) /\ Sorted(L, C, R, D, rk)
  BY DEF Shape
<1> USE <1>a
<1>1. \A s \in Side : \A m \in D[C[n][s]] : m \in Index /\ Before(s, rk[m], rk[n])
  BY DEF Sorted
<1>2. \A m \in L : m \in D[m] /\ m \in Index /\ m # None
  BY NoneAssumption DEF Descends
<1>3. \A s \in Side : n \notin D[C[n][s]]
  BY <1>1 DEF Before
<1>4. \A s \in Side : C[n][s] # None => C[n][s] \in L /\ C[n][s] \in D[C[n][s]] /\ P[C[n][s]] = n
  BY <1>2 DEF Linked
<1>5. \A s, r \in Side : s # r => D[C[n][s]] \cap D[C[n][r]] = {}
  <2> TAKE s, r \in Side
  <2> HAVE s # r
  <2>1. ASSUME NEW m \in D[C[n][s]], m \in D[C[n][r]] PROVE FALSE
    <3>1. Before(s, rk[m], rk[n]) /\ Before(r, rk[m], rk[n]) /\ m \in Index
      BY <2>1, <1>1
    <3> QED  BY <3>1 DEF Before
  <2> QED  BY <2>1
<1>6. \A s \in Side : C[n][s] # n
  BY <1>2, <1>3, <1>4
<1>7. \A s, r \in Side : s # r /\ C[n][s] # None => C[n][r] # C[n][s]
  BY <1>4, <1>5
<1>8. ASSUME NEW s \in Side, NEW r \in Side, C[n][s] # None
      PROVE  C[C[n][s]][r] # n
  <2>1. D[C[C[n][s]][r]] \subseteq D[C[n][s]]
    BY <1>4, <1>8 DEF Descends
  <2> QED  BY <2>1, <1>2, <1>3
<1>9. P[n] # None => \E r \in Side : C[P[n]][r] = n
  BY DEF Linked
<1>10. ASSUME NEW s \in Side, C[n][s] # None PROVE P[n] # C[n][s]
  BY <1>9, <1>8, <1>10
<1>11. P[n] # n
  BY <1>2, <1>6, <1>9
<1> QED  BY <1>3, <1>5, <1>6, <1>7, <1>8, <1>10, <1>11 DEF Apart

-----------------------------------------------------------------------------
(* Every tree keeps its nodes; ...                                         *)
SameTrees(R, D, R2, D2) == \A t \in Trees : D2[R2[t]] = D[R[t]]
(* ... or t0 gets n; ...                                                   *)
GrownTree(R, D, R2, D2, t0, n) ==
  /\ D2[R2[t0]] = D[R[t0]] \cup {n}
  /\ \A t \in Trees : t # t0 => D2[R2[t]] = D[R[t]]
(* ... or x is gone.                                                       *)
PrunedTrees(R, D, R2, D2, x) == \A t \in Trees : D2[R2[t]] = D[R[t]] \ {x}

(* The links after `rotate`: v, the child of n on side j, takes its place; *)
(* w, in between, changes parents.  Only the subtrees of n and v change.   *)
Rotated(L, P, C, R, D, P2, C2, R2, D2, i, j, n, v, w) ==
  /\ P2[v] = P[n] /\ P2[n] = v /\ (w # None => P2[w] = n)
  /\ \A m \in Index \ {n, v, w} : P2[m] = P[m]
  /\ C2[n][i] = C[n][i] /\ C2[n][j] = w /\ C2[v][i] = n /\ C2[v][j] = C[v][j]
  /\ \A m \in L \ {n, v}, s \in Side : C2[m][s] = IF C[m][s] = n THEN v ELSE C[m][s]
  /\ \A t \in Trees : R2[t] = IF R[t] = n THEN v ELSE R[t]
  /\ D2[v] = D[n] /\ D2[n] = {n} \cup D[C[n][i]] \cup D[w]
  /\ \A m \in Ref \ {n, v} : D2[m] = D[m]

(* `rotate` keeps the trees in shape, their in-order sequence and their    *)
(* nodes.                                                                  *)
LEMMA RotateLaws ==
  ASSUME NEW L \in SUBSET Index,
         NEW P \in [Index -> Ref], NEW C \in [Index -> [Side -> Ref]],
         NEW R \in [Trees -> Ref], NEW D \in [Ref -> SUBSET Index],
         NEW rk \in [Index -> Int],
         Shape(L, P, C, R, D, rk),
         NEW i \in Side, NEW j \in Side, i # j, NEW n \in L, NEW v \in Index, NEW w \in Ref,
         v = C[n][j], w = C[v][i],
         NEW P2 \in [Index -> Ref], NEW C2 \in [Index -> [Side -> Ref]],
         NEW R2 \in [Trees -> Ref], NEW D2 \in [Ref -> SUBSET Index],
         Rotated(L, P, C, R, D, P2, C2, R2, D2, i, j, n, v, w)
  PROVE  Shape(L, P2, C2, R2, D2, rk) /\ SameTrees(R, D, R2, D2)
<1>a. /\ Linked(L, P, C) /\ NoCycle(L, P) /\ Descends(L, P, C, D)
      /\ Rooted(L, P, R, D) /\ Sorted(L, C, R, D, rk)
  BY DEF Shape
<1>b. /\ P2[v] = P[n] /\ P2[n] = v /\ (w # None => P2[w] = n)
      /\ \A m \in Index \ {n, v, w} : P2[m] = P[m]
      /\ C2[n][i] = C[n][i] /\ C2[n][j] = w /\ C2[v][i] = n /\ C2[v][j] = C[v][j]
      /\ \A m \in L \ {n, v}, s \in Side : C2[m][s] = IF C[m][s] = n THEN v ELSE C[m][s]
      /\ \A t \in Trees : R2[t] = IF R[t] = n THEN v ELSE R[t]
      /\ D2[v] = D[n] /\ D2[n] = {n} \cup D[C[n][i]] \cup D[w]
      /\ \A m \in Ref \ {n, v} : D2[m] = D[m]
  BY DEF Rotated
<1> USE <1>a, <1>b
<1> DEFINE o == C[n][i]
           c == C[v][j]
<1>0. ASSUME NEW m \in L, D2[m] = {m} \cup D2[C2[m][i]] \cup D2[C2[m][j]]
      PROVE  D2[m] = {m} \cup D2[C2[m][0]] \cup D2[C2[m][1]]
  <2>1. CASE i = 0 /\ j = 1
    BY <1>0, <2>1
  <2>2. CASE i = 1 /\ j = 0
    BY <1>0, <2>2
  <2> QED  BY <2>1, <2>2
<1>1. /\ n \in Index /\ v \in L /\ None \notin Index /\ o \in Ref /\ c \in Ref
      /\ w # None => w \in L
      /\ o # None => o \in L
      /\ c # None => c \in L
  BY NoneAssumption DEF Linked
<1>2. /\ D[n] = {n} \cup D[o] \cup D[v] /\ D[v] = {v} \cup D[w] \cup D[c]
  BY <1>1 DEF Descends
<1>3. /\ v # n /\ n \notin D[o] /\ n \notin D[v] /\ v \notin D[w] /\ v \notin D[c] /\ v \notin D[o]
      /\ D[o] \cap D[v] = {} /\ D[w] \cap D[c] = {}
  <2>1. \A m \in D[o] : Before(i, rk[m], rk[n]) /\ m \in Index
    BY DEF Sorted
  <2>2. \A m \in D[v] : Before(j, rk[m], rk[n]) /\ m \in Index
    BY DEF Sorted
  <2>3. \A m \in D[w] : Before(i, rk[m], rk[v]) /\ m \in Index
    BY <1>1 DEF Sorted
  <2>4. \A m \in D[c] : Before(j, rk[m], rk[v]) /\ m \in Index
    BY <1>1 DEF Sorted
  <2>5. \A x, y \in Int : ~(Before(i, x, y) /\ Before(j, x, y))
    BY DEF Before
  <2>6. \A x \in Int : ~Before(i, x, x) /\ ~Before(j, x, x)
    BY DEF Before
  <2>7. v \in D[v]
    BY <1>2
  <2> QED  BY <1>1, <2>1, <2>2, <2>3, <2>4, <2>5, <2>6, <2>7
<1>4. /\ o # v /\ o # n /\ w # n /\ w # v /\ c # v /\ c # n
      /\ w # None => o # w /\ c # w
  <2>1. (o # None => o \in D[o]) /\ (w # None => w \in D[w]) /\ (c # None => c \in D[c])
    BY <1>1 DEF Descends
  <2> QED  BY <1>1, <1>2, <1>3, <2>1
<1>5. /\ o # None => P[o] = n
      /\ w # None => P[w] = v
      /\ c # None => P[c] = v
      /\ P[v] = n
  BY <1>1 DEF Linked
<1>6. Linked(L, P2, C2)
  <2>1. ASSUME NEW m \in L, NEW s \in Side, C2[m][s] # None
        PROVE  C2[m][s] \in L /\ P2[C2[m][s]] = m
    BY SMTT(20), <2>1, <1>1, <1>3, <1>4, <1>5 DEF Linked
  <2>2. ASSUME NEW m \in L, P2[m] # None
        PROVE  P2[m] \in L /\ \E s \in Side : C2[P2[m]][s] = m
    <3>1. CASE m = v
      <4>1. P[n] \in L /\ P[n] # None
        BY <2>2, <3>1 DEF Linked
      <4>2. PICK s \in Side : C[P[n]][s] = n
        BY <4>1 DEF Linked
      <4>3. P[n] # n /\ P[n] # v
        BY <4>2, <1>1, <1>3, <1>4
      <4> QED  BY <3>1, <4>1, <4>2, <4>3
    <3>2. CASE m = n
      BY <2>2, <3>2, <1>1
    <3>3. CASE m = w
      BY <2>2, <3>3, <1>1
    <3>4. CASE m \notin {v, n, w}
      BY SMTT(20), <2>2, <3>4, <1>1, <1>3, <1>4, <1>5 DEF Linked
    <3> QED  BY <3>1, <3>2, <3>3, <3>4
  <2> QED  BY <2>1, <2>2 DEF Linked
<1>7. NoCycle(L, P2)
  <2> SUFFICES ASSUME NEW S \in SUBSET L, S # {}, \A m \in S : P2[m] \in S
               PROVE  FALSE
    BY DEF NoCycle
  <2>1. CASE v \in S
    <3>1. ASSUME NEW m \in S \cup {n} PROVE P[m] \in S \cup {n}
      <4>1. m \in Index
        OBVIOUS
      <4> QED  BY <2>1, <4>1, <1>1, <1>5
    <3>2. S \cup {n} \in SUBSET L
      OBVIOUS
    <3> QED  BY <3>1, <3>2 DEF NoCycle
  <2>2. CASE v \notin S
    <3>1. \A m \in S : P[m] \in S
      BY <2>2, <1>1, <1>5
    <3> QED  BY <3>1 DEF NoCycle
  <2> QED  BY <2>1, <2>2
<1>8. Descends(L, P2, C2, D2)
  <2>1. D2[None] = {}
    BY <1>1 DEF Descends
  <2>2. ASSUME NEW m \in L
        PROVE  D2[m] \subseteq L /\ D2[m] = {m} \cup D2[C2[m][0]] \cup D2[C2[m][1]]
    <3>1. D2[m] \subseteq L
      BY <1>1, <1>2 DEF Descends
    <3>2. CASE m = n
      <4>1. D2[o] = D[o] /\ D2[w] = D[w]
        BY <1>1, <1>4
      <4>2. C2[n][i] = o /\ C2[n][j] = w
        OBVIOUS
      <4>3. D2[n] = {n} \cup D2[C2[n][i]] \cup D2[C2[n][j]]
        BY <4>1, <4>2
      <4> QED  BY <3>1, <3>2, <4>3, <1>0
    <3>3. CASE m = v
      <4>1. D2[c] = D[c]
        BY <1>1, <1>4
      <4>2. D[n] = {v} \cup D2[n] \cup D2[c]
        BY <1>2, <4>1
      <4>3. C2[v][i] = n /\ C2[v][j] = c
        OBVIOUS
      <4>4. D2[v] = {v} \cup D2[C2[v][i]] \cup D2[C2[v][j]]
        BY <4>2, <4>3
      <4> QED  BY <3>1, <3>3, <4>4, <1>1, <1>0
    <3>4. CASE m \notin {n, v}
      <4>1. ASSUME NEW s \in Side
            PROVE  D2[C2[m][s]] = D[C[m][s]]
        <5>1. C[m][s] \in Ref /\ C[m][s] # v
          BY <3>4, <1>1, <1>5 DEF Linked
        <5> QED  BY <5>1, <3>4
      <4>2. D[m] = {m} \cup D[C[m][0]] \cup D[C[m][1]]
        BY DEF Descends
      <4>3. D2[m] = D[m] /\ D2[C2[m][0]] = D[C[m][0]] /\ D2[C2[m][1]] = D[C[m][1]]
        BY <3>4, <4>1
      <4> QED  BY <3>1, <4>2, <4>3
    <3> QED  BY <3>1, <3>2, <3>3, <3>4
  <2>3. ASSUME NEW x \in L, NEW m \in D2[x]
        PROVE  D2[m] \subseteq D2[x] /\ (m # x => P2[m] \in D2[x])
    <3>0. /\ n \in D[n] /\ v \in D[v] /\ D[v] \subseteq D[n] /\ D2[n] \subseteq D[n]
          /\ m \in Index /\ m # None
      BY SMTT(20), <1>1, <1>2
    <3>0a. \A a \in L : \A b \in D[a] : b \in L /\ D[b] \subseteq D[a] /\ (b # a => P[b] \in D[a])
      BY DEF Descends
    <3>1. CASE x = v
      <4>1. m \in D[n]
        BY <3>1
      <4>2. D[m] \subseteq D[n] /\ (m # n => P[m] \in D[n])
        BY <4>1, <3>0a
      <4>3. D2[m] \subseteq D2[x]
        BY <3>1, <4>2, <3>0
      <4>4. ASSUME m # x PROVE P2[m] \in D2[x]
        <5>1. CASE m = n
          BY <5>1, <3>1, <3>0
        <5>2. CASE m = w
          BY <5>2, <3>1, <3>0
        <5>3. CASE m \notin {n, v, w}
          BY <5>3, <3>1, <4>2, <3>0
        <5> QED  BY <4>4, <3>1, <5>1, <5>2, <5>3
      <4> QED  BY <4>3, <4>4
    <3>2. CASE x = n
      <4>0. D[None] = {} /\ (w # None => w \in D[w])
        BY <1>1 DEF Descends
      <4>1. ASSUME m \in D[o] PROVE m \notin {n, v, w} /\ o # None
        <5>1. m \notin D[v] /\ m # n /\ o # None
          BY <4>1, <4>0, <1>3
        <5> QED  BY <5>1, <4>0, <3>0, <1>2
      <4>2. m \in D[w] => m \notin {n, v} /\ w # None
        BY <1>3, <1>2, <4>0
      <4>3. m \in D[o] => D[m] \subseteq D[o] /\ (m # o => P[m] \in D[o])
        BY <4>1, <1>1, <3>0a
      <4>4. m \in D[w] => D[m] \subseteq D[w] /\ (m # w => P[m] \in D[w])
        BY <4>2, <1>1, <3>0a
      <4>5. CASE m = n
        BY <4>5, <3>2
      <4>6. CASE m \in D[o]
        BY <4>6, <4>1, <4>3, <3>2, <3>0, <1>5
      <4>7. CASE m \in D[w]
        BY <4>7, <4>2, <4>4, <3>2, <3>0, <1>5
      <4> QED  BY <4>5, <4>6, <4>7, <3>2
    <3>3. CASE x \notin {n, v}
      <4>1. D2[x] = D[x] /\ m \in D[x]
        BY <3>3
      <4>2. D[m] \subseteq D[x] /\ (m # x => P[m] \in D[x])
        BY <4>1, <3>0a
      <4>3. CASE m = v
        <5>1. n \in D[x]
          BY <4>2, <4>3, <3>3, <1>5
        <5>2. D[n] \subseteq D[x] /\ P[n] \in D[x]
          BY <5>1, <3>0a, <3>3
        <5> QED  BY <4>1, <4>3, <5>2
      <4>4. CASE m = n
        <5>1. D[n] \subseteq D[x]
          BY <4>4, <4>2
        <5> QED  BY <5>1, <4>1, <4>4, <3>0
      <4>5. CASE m = w
        <5>1. m # x => n \in D[x]
          <6>1. m # x => v \in D[x]
            BY <4>5, <4>2, <1>5, <3>0
          <6> QED  BY <6>1, <3>0a, <3>3, <1>5
        <5> QED  BY <5>1, <4>1, <4>2, <4>5, <1>4, <3>0
      <4>6. CASE m \notin {n, v, w}
        BY <4>6, <4>1, <4>2, <3>0
      <4> QED  BY <4>3, <4>4, <4>5, <4>6
    <3> QED  BY <3>1, <3>2, <3>3
  <2> QED  BY <2>1, <2>2, <2>3 DEF Descends
<1>9. \A t \in Trees : D2[R2[t]] = D[R[t]]
  BY <1>1, <1>5 DEF Rooted
<1>10. Rooted(L, P2, R2, D2)
  <2>1. ASSUME NEW t \in Trees, R2[t] # None
        PROVE  R2[t] \in L /\ P2[R2[t]] = None
    BY <2>1, <1>1, <1>5 DEF Rooted
  <2> QED  BY <2>1, <1>9 DEF Rooted
<1>11. Sorted(L, C2, R2, D2, rk)
  <2>0. \A a \in L, s \in Side : \A m \in D[C[a][s]] : Before(s, rk[m], rk[a])
    BY DEF Sorted
  <2>0a. \A x, y, z \in Int, s \in Side : Before(s, x, y) /\ Before(s, y, z) => Before(s, x, z)
    BY DEF Before
  <2>0b. \A x, y \in Int : Before(i, x, y) <=> Before(j, y, x)
    BY DEF Before
  <2>0c. \A m \in Ref : D[m] \subseteq Index /\ D2[m] \subseteq Index
    OBVIOUS
  <2>0d. Side = {i, j} /\ v \in D[v] /\ D2[w] = D[w] /\ D2[o] = D[o] /\ D2[c] = D[c]
    BY <1>1, <1>2, <1>4
  <2>1. ASSUME NEW x \in L, NEW s \in Side, NEW m \in D2[C2[x][s]]
        PROVE  Before(s, rk[m], rk[x])
    <3>1. CASE x = n
      <4>1. CASE s = i
        BY <3>1, <4>1, <2>0, <2>0d
      <4>2. CASE s = j
        <5>0. D2[C2[x][s]] = D[w]
          BY <3>1, <4>2, <2>0d
        <5>1. m \in D[v]
          BY <5>0, <1>2
        <5> QED  BY <5>1, <3>1, <4>2, <2>0
      <4> QED  BY <4>1, <4>2, <2>0d
    <3>2. CASE x = v
      <4>1. CASE s = j
        BY <3>2, <4>1, <2>0, <2>0d, <1>1
      <4>2. CASE s = i
        <5>1. Before(i, rk[n], rk[v])
          BY <2>0, <2>0b, <2>0d, <1>1
        <5>2. CASE m = n
          BY <5>1, <5>2, <3>2, <4>2
        <5>3. CASE m \in D[o]
          <6>1. Before(i, rk[m], rk[n])
            BY <5>3, <2>0
          <6>2. rk[m] \in Int /\ rk[n] \in Int /\ rk[v] \in Int
            BY <5>3, <2>0c, <1>1
          <6>3. Before(i, rk[m], rk[v])
            BY <6>1, <6>2, <5>1, <2>0a
          <6> QED  BY <6>3, <3>2, <4>2
        <5>4. CASE m \in D[w]
          BY <5>4, <3>2, <4>2, <2>0, <1>1
        <5> QED  BY <5>2, <5>3, <5>4, <3>2, <4>2
      <4> QED  BY <4>1, <4>2, <2>0d
    <3>3. CASE x \notin {n, v}
      <4>1. C[x][s] \in Ref /\ C[x][s] # v
        BY <3>3, <1>1, <1>5 DEF Linked
      <4>2. D2[C2[x][s]] = D[C[x][s]]
        BY <4>1, <3>3
      <4> QED  BY <4>2, <2>0
    <3> QED  BY <3>1, <3>2, <3>3
  <2>2. ASSUME NEW t \in Trees, NEW x \in D2[R2[t]], NEW m \in D2[R2[t]],
               NEW y \in D2[x], NEW z \in D2[x], rk[y] < rk[m], rk[m] < rk[z]
        PROVE  m \in D2[x]
    <3>1. x \in D[R[t]] /\ m \in D[R[t]]
      BY <2>2, <1>9
    <3>2. \A a \in D[R[t]] : \A b, d \in D[a] : rk[b] < rk[m] /\ rk[m] < rk[d] => m \in D[a]
      BY <3>1 DEF Sorted
    <3>3. \A a \in D[R[t]] : a \in L /\ D[a] \subseteq D[R[t]]
      <4>1. R[t] \in L
        BY <3>1, <1>1 DEF Descends, Rooted
      <4> QED  BY <4>1 DEF Descends
    <3>4. CASE x \notin {n, v}
      BY <3>4, <3>1, <3>2, <2>2
    <3>5. CASE x = v
      <4>1. n \in D[R[t]]
        <5>1. R[t] # v
          BY <1>1, <1>5 DEF Rooted
        <5> QED  BY <3>1, <3>5, <5>1, <1>5 DEF Descends, Rooted
      <4> QED  BY <4>1, <3>2, <3>5, <2>2
    <3>6. CASE x = n
      <4>1. y \in D[n] /\ z \in D[n]
        BY <3>6, <2>2, <1>2
      <4>2. m \in D[n]
        BY <3>6, <4>1, <3>1, <3>2, <2>2
      <4>3. CASE m \in {n} \cup D[o] \cup D[w]
        BY <3>6, <4>3
      <4>4. CASE m = v \/ m \in D[c]
        <5>1. m = v \/ Before(j, rk[m], rk[v])
          BY <4>4, <2>0, <1>1
        <5>2. \A a \in D2[n] : Before(i, rk[a], rk[v])
          <6>1. Before(i, rk[n], rk[v])
            BY <2>0, <2>0b, <2>0d, <1>1
          <6>2. \A a \in D[w] : Before(i, rk[a], rk[v])
            BY <2>0, <1>1
          <6>3. ASSUME NEW a \in D[o] PROVE Before(i, rk[a], rk[v])
            <7>1. Before(i, rk[a], rk[n])
              BY <2>0
            <7>2. rk[a] \in Int /\ rk[n] \in Int /\ rk[v] \in Int
              BY <2>0c, <1>1
            <7> QED  BY <7>1, <7>2, <6>1, <2>0a
          <6> QED  BY <6>1, <6>2, <6>3
        <5>3. Before(i, rk[y], rk[v]) /\ Before(i, rk[z], rk[v])
          BY <5>2, <3>6, <2>2
        <5>4. rk[y] \in Int /\ rk[z] \in Int /\ rk[v] \in Int /\ rk[m] \in Int
          BY <2>0c, <4>1, <4>2
        <5> QED  BY <5>1, <5>3, <5>4, <2>2 DEF Before
      <4> QED  BY <4>2, <4>3, <4>4, <1>2
    <3> QED  BY <3>4, <3>5, <3>6
  <2> QED  BY <2>1, <2>2 DEF Sorted
<1> QED  BY <1>6, <1>7, <1>8, <1>9, <1>10, <1>11 DEF Shape, SameTrees

-----------------------------------------------------------------------------
(* Two neighbours in key order compare alike with everything else.         *)
LEMMA Adjacent ==
  ASSUME NEW i \in Side, NEW a \in Int, NEW p \in Int, NEW q \in Int, a # p,
         Before(i, q, p), Before(i, a, p) => Before(i, a, q)
  PROVE  (a < q <=> a < p) /\ (q < a <=> p < a)
  BY DEF Before

(* The links after insert_at hung the leaf n on side i of p: n ranks next  *)
(* to p among the nodes A of the tree.                                     *)
Hanged(L, P, C, A, D, rk, P2, C2, D2, rk2, i, n, p) ==
  /\ P2[n] = p /\ \A m \in L : P2[m] = P[m]
  /\ C2[n] = NoLinks /\ C2[p][i] = n
  /\ \A m \in L, s \in Side : m # p \/ s # i => C2[m][s] = C[m][s]
  /\ \A m \in L : rk2[m] = rk[m]
  /\ Before(i, rk2[n], rk[p])
  /\ \A m \in A : Before(i, rk[m], rk[p]) => Before(i, rk[m], rk2[n])
  /\ D2[None] = {} /\ D2[n] = {n}
  /\ \A m \in L : p \in D[m] => D2[m] = D[m] \cup {n}
  /\ \A m \in L : p \notin D[m] => D2[m] = D[m]

(* No two of T have one rank.                                              *)
Injective(T, rk) == \A x, y \in T : rk[x] = rk[y] => x = y

(* A leaf that is hung at a free place next to its neighbour in key order  *)
(* leaves every tree in shape.                                             *)
LEMMA HangLaws ==
  ASSUME NEW L \in SUBSET Index,
         NEW P \in [Index -> Ref], NEW C \in [Index -> [Side -> Ref]],
         NEW R \in [Trees -> Ref], NEW D \in [Ref -> SUBSET Index],
         NEW rk \in [Index -> Int],
         Shape(L, P, C, R, D, rk),
         NEW i \in Side, NEW t0 \in Trees, NEW A, A = D[R[t0]], NEW p \in A,
         NEW n \in Index \ L, C[p][i] = None,
         NEW L2 \in SUBSET Index, L2 = L \cup {n},
         NEW P2 \in [Index -> Ref], NEW C2 \in [Index -> [Side -> Ref]],
         NEW D2 \in [Ref -> SUBSET Index], NEW rk2 \in [Index -> Int],
         Injective(A, rk),
         Hanged(L, P, C, A, D, rk, P2, C2, D2, rk2, i, n, p)
  PROVE  Shape(L2, P2, C2, R, D2, rk2) /\ GrownTree(R, D, R, D2, t0, n)
<1>h. \A x, y \in D[R[t0]] : rk[x] = rk[y] => x = y
  BY DEF Injective
<1> USE <1>h
<1>a. /\ Linked(L, P, C) /\ NoCycle(L, P) /\ Descends(L, P, C, D)
      /\ Rooted(L, P, R, D) /\ Sorted(L, C, R, D, rk)
  BY DEF Shape
<1>b. /\ P2[n] = p /\ \A m \in L : P2[m] = P[m]
      /\ C2[n] = NoLinks /\ C2[p][i] = n
      /\ \A m \in L, s \in Side : m # p \/ s # i => C2[m][s] = C[m][s]
      /\ \A m \in L : rk2[m] = rk[m]
      /\ Before(i, rk2[n], rk[p])
      /\ \A m \in D[R[t0]] : Before(i, rk[m], rk[p]) => Before(i, rk[m], rk2[n])
      /\ D2[None] = {} /\ D2[n] = {n}
      /\ \A m \in L : p \in D[m] => D2[m] = D[m] \cup {n}
      /\ \A m \in L : p \notin D[m] => D2[m] = D[m]
  BY DEF Hanged
<1> USE <1>a, <1>b
<1>1. /\ None \notin Index /\ p \in L /\ p \in Index /\ R[t0] \in L /\ n \notin L
      /\ \A s \in Side : C2[n][s] = None
  BY NoneAssumption DEF Descends, Rooted, NoLinks
<1>2. /\ \A m \in L : D[m] \subseteq L /\ m \in D[m] /\ m \in Index
      /\ \A m \in L : \A x \in D[m] : D[x] \subseteq D[m] /\ (x # m => P[x] \in D[m])
      /\ D[None] = {}
  BY DEF Descends
<1>3. \A m \in L, s \in Side : C[m][s] # None => C[m][s] \in L /\ P[C[m][s]] = m
  BY DEF Linked
<1>4. \A m \in L : P[m] # None => P[m] \in L /\ \E s \in Side : C[P[m]][s] = m
  BY DEF Linked
<1>5. Linked(L2, P2, C2)
  <2>1. ASSUME NEW m \in L2, NEW s \in Side, C2[m][s] # None
        PROVE  C2[m][s] \in L2 /\ P2[C2[m][s]] = m
    <3>1. m \in L
      BY <2>1, <1>1
    <3>2. CASE m = p /\ s = i
      BY <3>2
    <3>3. CASE m # p \/ s # i
      BY <2>1, <3>1, <3>3, <1>3
    <3> QED  BY <3>2, <3>3
  <2>2. ASSUME NEW m \in L2, P2[m] # None
        PROVE  P2[m] \in L2 /\ \E s \in Side : C2[P2[m]][s] = m
    <3>1. CASE m = n
      BY <3>1, <1>1
    <3>2. CASE m \in L
      <4>1. P[m] \in L /\ P2[m] = P[m]
        BY <2>2, <3>2, <1>4
      <4>2. PICK s \in Side : C[P[m]][s] = m
        BY <2>2, <3>2, <1>4
      <4>3. C2[P[m]][s] = m
        BY <4>1, <4>2, <3>2, <1>1
      <4> QED  BY <4>1, <4>3
    <3> QED  BY <3>1, <3>2
  <2> QED  BY <2>1, <2>2 DEF Linked
<1>6. NoCycle(L2, P2)
  <2> SUFFICES ASSUME NEW S \in SUBSET L2, S # {}, \A m \in S : P2[m] \in S
               PROVE  FALSE
    BY DEF NoCycle
  <2>1. \A m \in L : P[m] # n
    BY <1>4, <1>1
  <2>2. \A m \in S \ {n} : m \in L /\ P[m] \in S \ {n}
    BY <2>1
  <2>3. S \ {n} # {}
    BY <1>1
  <2> QED  BY <2>2, <2>3 DEF NoCycle
<1>7. Descends(L2, P2, C2, D2)
  <2>1. ASSUME NEW m \in L2
        PROVE  D2[m] \subseteq L2 /\ D2[m] = {m} \cup D2[C2[m][0]] \cup D2[C2[m][1]]
    <3>1. CASE m = n
      BY <3>1, <1>1
    <3>2. CASE m \in L
      <4>1. D[m] = {m} \cup D[C[m][0]] \cup D[C[m][1]]
        BY <3>2 DEF Descends
      <4>2. D2[m] \subseteq L2
        <5>1. D[m] \subseteq L
          BY <3>2, <1>2
        <5> QED  BY <3>2, <5>1
      <4>3. ASSUME NEW s \in Side, m # p \/ s # i
            PROVE  /\ p \in D[C[m][s]] => D2[C2[m][s]] = D[C[m][s]] \cup {n}
                   /\ p \notin D[C[m][s]] => D2[C2[m][s]] = D[C[m][s]]
        <5>1. C2[m][s] = C[m][s]
          BY <4>3, <3>2
        <5>2. C[m][s] = None \/ C[m][s] \in L
          BY <3>2, <1>3
        <5> QED  BY <5>1, <5>2, <1>2
      <4>4. CASE m = p
        <5>1. \A s \in Side : p \notin D[C[p][s]]
          <6>1. \A s \in Side : \A x \in D[C[p][s]] : Before(s, rk[x], rk[p])
            BY <1>1 DEF Sorted
          <6>2. \A s \in Side : ~Before(s, rk[p], rk[p])
            BY <1>1 DEF Before
          <6> QED  BY <6>1, <6>2
        <5>2. \A s \in Side : D2[C2[p][s]] = IF s = i THEN {n} ELSE D[C[p][s]]
          BY <4>3, <4>4, <5>1
        <5>3. D[C[p][i]] = {}
          BY <1>2
        <5>4. p \in D[m] /\ D2[m] = D[m] \cup {n}
          BY <4>4, <3>2, <1>2
        <5>5. D2[m] = {m} \cup D2[C2[m][0]] \cup D2[C2[m][1]]
          <6>1. CASE i = 0
            BY <6>1, <4>1, <4>4, <5>2, <5>3, <5>4
          <6>2. CASE i = 1
            BY <6>2, <4>1, <4>4, <5>2, <5>3, <5>4
          <6> QED  BY <6>1, <6>2
        <5> QED  BY <4>2, <5>5
      <4>5. CASE m # p
        <5>1. \A s \in Side : /\ p \in D[C[m][s]] => D2[C2[m][s]] = D[C[m][s]] \cup {n}
                             /\ p \notin D[C[m][s]] => D2[C2[m][s]] = D[C[m][s]]
          BY <4>3, <4>5
        <5>2. p \in D[m] <=> p \in D[C[m][0]] \/ p \in D[C[m][1]]
          BY <4>1, <4>5
        <5>3. CASE p \in D[m]
          <6>1. D2[m] = D[m] \cup {n}
            BY <5>3, <3>2
          <6>2. D2[C2[m][0]] \cup D2[C2[m][1]] = D[C[m][0]] \cup D[C[m][1]] \cup {n}
            <7>1. ASSUME NEW s \in Side
                  PROVE  /\ D2[C2[m][s]] \subseteq D[C[m][s]] \cup {n}
                         /\ D[C[m][s]] \subseteq D2[C2[m][s]]
                         /\ p \in D[C[m][s]] => n \in D2[C2[m][s]]
              <8>1. CASE p \in D[C[m][s]]
                <9>1. D2[C2[m][s]] = D[C[m][s]] \cup {n}
                  <10>1. C2[m][s] = C[m][s] /\ C[m][s] \in L
                    <11>1. C[m][s] # None
                      BY <8>1, <1>2
                    <11> QED  BY <4>5, <3>2, <11>1, <1>3
                  <10> QED  BY <10>1, <8>1
                <9> QED  BY <9>1
              <8>2. CASE p \notin D[C[m][s]]
                <9>1. D2[C2[m][s]] = D[C[m][s]]
                  BY <5>1, <8>2
                <9> QED  BY <9>1, <8>2
              <8> QED  BY <8>1, <8>2
            <7>2. p \in D[C[m][0]] \/ p \in D[C[m][1]]
              BY <5>2, <5>3
            <7> QED  BY <7>1, <7>2
          <6> QED  BY <4>1, <4>2, <6>1, <6>2
        <5>4. CASE p \notin D[m]
          <6>1. D2[m] = D[m]
            BY <5>4, <3>2
          <6> QED  BY <4>1, <4>2, <6>1, <5>1, <5>2, <5>4
        <5> QED  BY <5>3, <5>4
      <4> QED  BY <4>4, <4>5
    <3> QED  BY <3>1, <3>2
  <2>2. ASSUME NEW x \in L2, NEW m \in D2[x]
        PROVE  D2[m] \subseteq D2[x] /\ (m # x => P2[m] \in D2[x])
    <3>1. CASE x = n
      BY <3>1
    <3>2. CASE x \in L /\ m = n
      <4>1. p \in D[x] /\ D2[x] = D[x] \cup {n}
        BY <3>2, <1>1, <1>2
      <4> QED  BY <4>1, <3>2
    <3>3. CASE x \in L /\ m # n
      <4>0. D2[x] = D[x] \/ (p \in D[x] /\ D2[x] = D[x] \cup {n})
        BY <3>3
      <4>1. m \in D[x] /\ m \in L
        BY <4>0, <3>3, <1>2
      <4>2. D[m] \subseteq D[x] /\ (m # x => P[m] \in D[x])
        BY <3>3, <4>1, <1>2
      <4> QED  BY <3>3, <4>1, <4>2
    <3> QED  BY <3>1, <3>2, <3>3
  <2> QED  BY <2>1, <2>2 DEF Descends
<1>8. /\ D2[R[t0]] = D[R[t0]] \cup {n}
      /\ \A t \in Trees \ {t0} : D2[R[t]] = D[R[t]]
  <2>1. D2[R[t0]] = D[R[t0]] \cup {n}
    BY <1>1
  <2>2. ASSUME NEW t \in Trees \ {t0} PROVE D2[R[t]] = D[R[t]]
    <3>1. p \notin D[R[t]]
      BY DEF Rooted
    <3>2. R[t] \in L \/ R[t] = None
      BY DEF Rooted
    <3>3. D2[R[t]] = D[R[t]]
      BY <3>1, <3>2, <1>2
    <3> QED  BY <3>3
  <2> QED  BY <2>1, <2>2
<1>9. Rooted(L2, P2, R, D2)
  <2>1. \A t \in Trees : R[t] # None => R[t] \in L2 /\ P2[R[t]] = None
    BY DEF Rooted
  <2>2. ASSUME NEW m \in L2 PROVE \E t \in Trees : m \in D2[R[t]]
    <3>1. CASE m = n
      BY <3>1, <1>8
    <3>2. CASE m \in L
      <4>1. PICK t \in Trees : m \in D[R[t]]
        BY <3>2 DEF Rooted
      <4>2. m \in D2[R[t]]
        BY <4>1, <1>8
      <4> QED  BY <4>2
    <3> QED  BY <3>1, <3>2
  <2>3. ASSUME NEW t \in Trees, NEW u \in Trees, t # u
        PROVE  D2[R[t]] \cap D2[R[u]] = {}
    <3>1. D[R[t]] \cap D[R[u]] = {}
      BY <2>3 DEF Rooted
    <3>2. n \notin D[R[t]] /\ n \notin D[R[u]]
      <4>1. (R[t] \in L \/ R[t] = None) /\ (R[u] \in L \/ R[u] = None)
        BY DEF Rooted
      <4> QED  BY <4>1, <1>1, <1>2
    <3> QED  BY <2>3, <3>1, <3>2, <1>8
  <2> QED  BY <2>1, <2>2, <2>3 DEF Rooted
<1>10. Sorted(L2, C2, R, D2, rk2)
  <2>1. ASSUME NEW x \in L2, NEW s \in Side, NEW m \in D2[C2[x][s]]
        PROVE  Before(s, rk2[m], rk2[x])
    <3>1. CASE x = p /\ s = i
      BY <3>1, <1>1
    <3>2. CASE x \in L /\ (x # p \/ s # i)
      <4>1. C2[x][s] = C[x][s] /\ (C[x][s] # None => C[x][s] \in L)
        BY <3>2, <1>3
      <4>2. C[x][s] # None
        BY <4>1, <1>2
      <4>3. CASE m # n
        <5>0. D2[C[x][s]] \subseteq D[C[x][s]] \cup {n} /\ D[C[x][s]] \subseteq L
          BY <4>1, <4>2, <1>2
        <5>1. m \in D[C[x][s]] /\ m \in L
          BY <4>1, <4>3, <5>0
        <5>2. Before(s, rk[m], rk[x])
          BY <5>1, <3>2 DEF Sorted
        <5> QED  BY <5>1, <5>2, <3>2
      <4>4. CASE m = n
        <5>0. n \notin D[C[x][s]] /\ n \in D2[C[x][s]]
          BY <4>1, <4>2, <4>4, <1>1, <1>2
        <5>1. p \in D[C[x][s]]
          BY <5>0, <4>1, <4>2
        <5>2. Before(s, rk[p], rk[x])
          BY <5>1, <3>2 DEF Sorted
        <5>3. x \in D[R[t0]]
          <6>1. PICK u \in Trees : x \in D[R[u]]
            BY <3>2 DEF Rooted
          <6>2. D[C[x][s]] \subseteq D[x]
            BY <3>2 DEF Descends
          <6>3. R[u] \in L
            BY <6>1, <1>2 DEF Rooted
          <6>4. p \in D[R[u]]
            BY <5>1, <6>1, <6>2, <6>3, <1>2
          <6> QED  BY <6>1, <6>4 DEF Rooted
        <5>4. Before(i, rk[x], rk[p]) => Before(i, rk[x], rk2[n])
          BY <5>3
        <5>5. /\ rk[x] \in Int /\ rk[p] \in Int /\ rk2[n] \in Int /\ rk2[x] = rk[x]
              /\ Before(i, rk2[n], rk[p])
          BY <3>2, <1>1
        <5> QED  BY <5>2, <5>4, <5>5, <4>4 DEF Before
      <4> QED  BY <4>3, <4>4
    <3>3. CASE x = n
      BY <3>3, <1>1
    <3> QED  BY <3>1, <3>2, <3>3
  <2>2. ASSUME NEW t \in Trees, NEW x \in D2[R[t]], NEW m \in D2[R[t]],
               NEW y \in D2[x], NEW z \in D2[x], rk2[y] < rk2[m], rk2[m] < rk2[z]
        PROVE  m \in D2[x]
    <3>0. /\ R[t] \in L
          /\ \A a \in D[R[t]] : a \in L /\ rk2[a] = rk[a] /\ rk[a] \in Int /\ D[a] \subseteq D[R[t]]
      BY <1>2 DEF Rooted
    <3>1. CASE x = n
      <4>1. y = n /\ z = n /\ rk2[n] \in Int /\ m \in Index
        BY <3>1
      <4>2. rk2[m] \in Int
        BY <4>1
      <4> QED  BY <4>1, <4>2, <2>2
    <3>2. CASE x # n
      <4>0. x \in D[R[t]] /\ x \in L
        BY <3>2, <3>0
      <4>1. \A a \in D[R[t]], b, d \in D[x] : rk[b] < rk[a] /\ rk[a] < rk[d] => a \in D[x]
        BY <4>0 DEF Sorted
      <4>2. D[x] \subseteq D2[x] /\ (n \in D2[x] => p \in D[x] /\ D2[x] = D[x] \cup {n} /\ t = t0)
        <5>1. n \notin D[x]
          BY <4>0, <1>2, <1>1
        <5>2. n \in D2[x] => p \in D[x] /\ D2[x] = D[x] \cup {n}
          BY <5>1, <4>0
        <5>3. p \in D[x] => p \in D[R[t]]
          BY <4>0, <3>0
        <5>4. p \in D[R[t]] => t = t0
          BY DEF Rooted
        <5> QED  BY <5>2, <5>3, <5>4, <4>0
      <4>3. rk2[n] \in Int /\ (t = t0 => \A a \in D[R[t]] : a = p \/ (Before(i, rk[a], rk[p]) => Before(i, rk[a], rk2[n])))
        BY <1>1
      <4>4. CASE m = n
        <5>1. SUFFICES ASSUME n \notin D2[x] PROVE FALSE
          BY <4>4
        <5>2. y \in D[x] /\ z \in D[x] /\ p \notin D[x] /\ t = t0 /\ rk[y] < rk2[n] /\ rk2[n] < rk[z]
          <6>1. y \in D[x] /\ z \in D[x] /\ p \notin D[x]
            BY <5>1, <4>0
          <6>2. t = t0
            BY <4>4, <1>8, <3>0, <1>1
          <6> QED  BY <6>1, <6>2, <4>4, <3>0, <4>0, <2>2
        <5>3. /\ y \in D[R[t]] /\ z \in D[R[t]] /\ p \in D[R[t]]
              /\ rk[y] \in Int /\ rk[z] \in Int /\ rk[p] \in Int
          BY <5>2, <4>0, <3>0
        <5>4. ~(rk[y] < rk[p] /\ rk[p] < rk[z])
          BY <5>2, <5>3, <4>1
        <5>5. /\ Before(i, rk[y], rk[p]) => Before(i, rk[y], rk2[n])
              /\ Before(i, rk[z], rk[p]) => Before(i, rk[z], rk2[n])
          BY <5>2, <5>3
        <5>6. rk[y] # rk[p] /\ rk[z] # rk[p]
          BY <5>2, <5>3
        <5>7. (rk[y] < rk2[n] <=> rk[y] < rk[p]) /\ (rk2[n] < rk[z] <=> rk[p] < rk[z])
          <6>1. rk2[n] \in Int /\ Before(i, rk2[n], rk[p])
            BY <4>3
          <6> HIDE <1>b
          <6>2. rk[y] < rk2[n] <=> rk[y] < rk[p]
            <7>1. Before(i, rk[y], rk[p]) => Before(i, rk[y], rk2[n])
              BY <5>5
            <7> QED  BY <5>3, <5>6, <6>1, <7>1, Adjacent
          <6>3. rk2[n] < rk[z] <=> rk[p] < rk[z]
            <7>1. Before(i, rk[z], rk[p]) => Before(i, rk[z], rk2[n])
              BY <5>5
            <7> QED  BY <5>3, <5>6, <6>1, <7>1, Adjacent
          <6> QED  BY <6>2, <6>3
        <5> QED  BY <5>2, <5>4, <5>7
      <4>5. CASE m # n
        <5>0. m \in D[R[t]] \cup {n}
          BY <1>8
        <5>1. m \in D[R[t]] /\ rk[m] \in Int /\ rk2[m] = rk[m] /\ m \in L
          BY <4>5, <5>0, <3>0
        <5>2. CASE y \in D[x] /\ z \in D[x]
          BY <5>1, <5>2, <4>0, <4>1, <4>2, <3>0, <2>2
        <5>3. CASE y = n \/ z = n
          <6>1. p \in D[x] /\ t = t0 /\ D2[x] = D[x] \cup {n}
            BY <5>3, <4>2
          <6>2. rk[p] \in Int /\ p \in D[R[t]]
            BY <6>1, <3>0, <4>0
          <6>3. m = p \/ rk[m] # rk[p]
            BY <5>1, <6>1, <6>2
          <6>4. m = p \/ ((rk[m] < rk2[n] <=> rk[m] < rk[p]) /\ (rk2[n] < rk[m] <=> rk[p] < rk[m]))
            <7>1. Before(i, rk[m], rk[p]) => Before(i, rk[m], rk2[n])
              BY <5>1, <6>1
            <7> QED  BY <7>1, <6>2, <6>3, <5>1, <4>3, Adjacent
          <6>5. \A b \in D[x] : rk2[b] = rk[b] /\ rk[b] \in Int
            BY <4>0, <3>0
          <6>6. CASE y = n /\ z \in D[x]
            <7>1. rk2[n] < rk[m] /\ rk[m] < rk[z] /\ rk[z] \in Int
              BY <6>5, <6>6, <5>1, <2>2
            <7>2. m = p \/ rk[p] < rk[m]
              BY <7>1, <6>4
            <7> QED  BY <7>1, <7>2, <6>1, <6>6, <5>1, <4>0, <4>1, <4>2
          <6>7. CASE z = n /\ y \in D[x]
            <7>1. rk[y] < rk[m] /\ rk[m] < rk2[n] /\ rk[y] \in Int
              BY <6>5, <6>7, <5>1, <2>2
            <7>2. m = p \/ rk[m] < rk[p]
              BY <7>1, <6>4
            <7> QED  BY <7>1, <7>2, <6>1, <6>7, <5>1, <4>0, <4>1, <4>2
          <6>8. CASE y = n /\ z = n
            BY <6>8, <5>1, <4>3, <2>2
          <6> QED  BY <6>1, <6>6, <6>7, <6>8, <5>3
        <5> QED  BY <5>2, <5>3, <4>0
      <4> QED  BY <4>4, <4>5
    <3> QED  BY <3>1, <3>2
  <2> QED  BY <2>1, <2>2 DEF Sorted
<1> QED  BY <1>5, <1>6, <1>7, <1>8, <1>9, <1>10 DEF Shape, GrownTree

-----------------------------------------------------------------------------
(* The links after n became the only node of tree t0.                      *)
Planted(L, P, C, R, D, rk, P2, C2, R2, D2, rk2, t0, n) ==
  /\ P2[n] = None /\ \A m \in L : P2[m] = P[m]
  /\ C2[n] = NoLinks /\ \A m \in L : C2[m] = C[m]
  /\ R2[t0] = n /\ \A t \in Trees \ {t0} : R2[t] = R[t]
  /\ \A m \in L : rk2[m] = rk[m]
  /\ D2[n] = {n} /\ \A m \in Ref \ {n} : D2[m] = D[m]

(* A first node leaves every tree in shape.                                *)
LEMMA PlantLaws ==
  ASSUME NEW L \in SUBSET Index,
         NEW P \in [Index -> Ref], NEW C \in [Index -> [Side -> Ref]],
         NEW R \in [Trees -> Ref], NEW D \in [Ref -> SUBSET Index],
         NEW rk \in [Index -> Int],
         Shape(L, P, C, R, D, rk),
         NEW t0 \in Trees, R[t0] = None, NEW n \in Index \ L,
         NEW L2 \in SUBSET Index, L2 = L \cup {n},
         NEW P2 \in [Index -> Ref], NEW C2 \in [Index -> [Side -> Ref]],
         NEW R2 \in [Trees -> Ref],
         NEW D2 \in [Ref -> SUBSET Index], NEW rk2 \in [Index -> Int],
         Planted(L, P, C, R, D, rk, P2, C2, R2, D2, rk2, t0, n)
  PROVE  Shape(L2, P2, C2, R2, D2, rk2) /\ GrownTree(R, D, R2, D2, t0, n)
<1>a. /\ Linked(L, P, C) /\ NoCycle(L, P) /\ Descends(L, P, C, D)
      /\ Rooted(L, P, R, D) /\ Sorted(L, C, R, D, rk)
  BY DEF Shape
<1>b. /\ P2[n] = None /\ \A m \in L : P2[m] = P[m]
      /\ C2[n] = NoLinks /\ \A m \in L : C2[m] = C[m]
      /\ R2[t0] = n /\ \A t \in Trees \ {t0} : R2[t] = R[t]
      /\ \A m \in L : rk2[m] = rk[m]
      /\ D2[n] = {n} /\ \A m \in Ref \ {n} : D2[m] = D[m]
  BY DEF Planted
<1> USE <1>a, <1>b
<1>1. /\ None \notin Index /\ n \notin L /\ D[None] = {} /\ D2[None] = {}
      /\ \A s \in Side : C2[n][s] = None
  BY NoneAssumption DEF Descends, NoLinks
<1>2. \A m \in L : D[m] \subseteq L /\ D2[m] = D[m] /\ m \in Index
  BY <1>1 DEF Descends
<1>3. \A m \in L, s \in Side : C[m][s] = None \/ (C[m][s] \in L /\ P[C[m][s]] = m)
  BY DEF Linked
<1>4. \A m \in L : P[m] # None => P[m] \in L /\ \E s \in Side : C[P[m]][s] = m
  BY DEF Linked
<1>5. Linked(L2, P2, C2)
  <2>1. ASSUME NEW m \in L2, NEW s \in Side, C2[m][s] # None
        PROVE  C2[m][s] \in L2 /\ P2[C2[m][s]] = m
    BY <2>1, <1>1, <1>3
  <2>2. ASSUME NEW m \in L2, P2[m] # None
        PROVE  P2[m] \in L2 /\ \E s \in Side : C2[P2[m]][s] = m
    BY <2>2, <1>4
  <2> QED  BY <2>1, <2>2 DEF Linked
<1>6. NoCycle(L2, P2)
  <2> SUFFICES ASSUME NEW S \in SUBSET L2, S # {}, \A m \in S : P2[m] \in S
               PROVE  FALSE
    BY DEF NoCycle
  <2>1. n \notin S
    BY <1>1
  <2>2. S \in SUBSET L /\ \A m \in S : P[m] \in S
    BY <2>1
  <2> QED  BY <2>2 DEF NoCycle
<1>7. Descends(L2, P2, C2, D2)
  <2>1. ASSUME NEW m \in L2
        PROVE  D2[m] \subseteq L2 /\ D2[m] = {m} \cup D2[C2[m][0]] \cup D2[C2[m][1]]
    <3>1. CASE m = n
      BY <3>1, <1>1
    <3>2. CASE m \in L
      <4>1. D[m] = {m} \cup D[C[m][0]] \cup D[C[m][1]]
        BY <3>2 DEF Descends
      <4>2. \A s \in Side : D2[C2[m][s]] = D[C[m][s]]
        BY <3>2, <1>1, <1>2, <1>3
      <4> QED  BY <3>2, <4>1, <4>2, <1>2
    <3> QED  BY <3>1, <3>2
  <2>2. ASSUME NEW x \in L2, NEW m \in D2[x]
        PROVE  D2[m] \subseteq D2[x] /\ (m # x => P2[m] \in D2[x])
    <3>1. CASE x = n
      BY <3>1
    <3>2. CASE x \in L
      <4>1. m \in D[x] /\ m \in L
        BY <3>2, <1>2
      <4>2. D[m] \subseteq D[x] /\ (m # x => P[m] \in D[x])
        BY <3>2, <4>1 DEF Descends
      <4> QED  BY <3>2, <4>1, <4>2, <1>2
    <3> QED  BY <3>1, <3>2
  <2> QED  BY <1>1, <2>1, <2>2 DEF Descends
<1>8. D2[R2[t0]] = {n} /\ \A t \in Trees \ {t0} : D2[R2[t]] = D[R[t]]
  BY <1>1, <1>2 DEF Rooted
<1>9. Rooted(L2, P2, R2, D2)
  <2>1. \A t \in Trees : R2[t] # None => R2[t] \in L2 /\ P2[R2[t]] = None
    BY DEF Rooted
  <2>2. ASSUME NEW m \in L2 PROVE \E t \in Trees : m \in D2[R2[t]]
    <3>1. CASE m = n
      BY <3>1, <1>8
    <3>2. CASE m \in L
      <4>1. PICK t \in Trees : m \in D[R[t]]
        BY <3>2 DEF Rooted
      <4>2. t # t0
        BY <4>1, <1>1
      <4> QED  BY <4>1, <4>2, <1>8
    <3> QED  BY <3>1, <3>2
  <2>3. ASSUME NEW t \in Trees, NEW u \in Trees, t # u
        PROVE  D2[R2[t]] \cap D2[R2[u]] = {}
    <3>1. D[R[t]] \cap D[R[u]] = {}
      BY <2>3 DEF Rooted
    <3>2. n \notin D[R[t]] /\ n \notin D[R[u]]
      <4>1. (R[t] \in L \/ R[t] = None) /\ (R[u] \in L \/ R[u] = None)
        BY DEF Rooted
      <4> QED  BY <4>1, <1>1, <1>2
    <3> QED  BY <2>3, <3>1, <3>2, <1>8
  <2> QED  BY <2>1, <2>2, <2>3 DEF Rooted
<1>10. Sorted(L2, C2, R2, D2, rk2)
  <2>1. ASSUME NEW x \in L2, NEW s \in Side, NEW m \in D2[C2[x][s]]
        PROVE  Before(s, rk2[m], rk2[x])
    <3>1. x \in L /\ C[x][s] \in L /\ m \in D[C[x][s]] /\ m \in L
      BY <1>1, <1>2, <1>3
    <3>2. Before(s, rk[m], rk[x])
      BY <3>1 DEF Sorted
    <3> QED  BY <3>1, <3>2
  <2>2. ASSUME NEW t \in Trees, NEW x \in D2[R2[t]], NEW m \in D2[R2[t]],
               NEW y \in D2[x], NEW z \in D2[x], rk2[y] < rk2[m], rk2[m] < rk2[z]
        PROVE  m \in D2[x]
    <3>1. CASE t = t0
      BY <3>1, <1>8
    <3>2. CASE t # t0
      <4>1. x \in D[R[t]] /\ m \in D[R[t]]
        BY <3>2, <1>8
      <4>2. R[t] \in L
        BY <4>1, <1>1 DEF Rooted
      <4>3. x \in L /\ m \in L
        BY <4>1, <4>2, <1>2
      <4>4. D2[x] = D[x] /\ D[x] \subseteq L
        BY <4>3, <1>2
      <4>5. rk[y] < rk[m] /\ rk[m] < rk[z] /\ y \in D[x] /\ z \in D[x]
        BY <4>3, <4>4, <2>2
      <4>6. m \in D[x]
        BY <4>1, <4>5 DEF Sorted
      <4> QED  BY <4>4, <4>6
    <3> QED  BY <3>1, <3>2
  <2> QED  BY <2>1, <2>2 DEF Sorted
<1> QED  BY <1>5, <1>6, <1>7, <1>8, <1>9, <1>10, <1>1 DEF Shape, GrownTree

-----------------------------------------------------------------------------
(* The links after x, with at most the child c, was replaced by c.         *)
Pruned(L2, P, C, R, D, P2, C2, R2, D2, x, c) ==
  /\ c # None => P2[c] = P[x]
  /\ \A m \in L2 \ {c} : P2[m] = P[m]
  /\ \A m \in L2, s \in Side : C2[m][s] = IF C[m][s] = x THEN c ELSE C[m][s]
  /\ \A t \in Trees : R2[t] = IF R[t] = x THEN c ELSE R[t]
  /\ \A m \in Ref \ {x} : D2[m] = D[m] \ {x}

(* A node with at most one child that is replaced by it leaves every tree  *)
(* in shape, without the node.                                             *)
LEMMA UnlinkLaws ==
  ASSUME NEW L \in SUBSET Index,
         NEW P \in [Index -> Ref], NEW C \in [Index -> [Side -> Ref]],
         NEW R \in [Trees -> Ref], NEW D \in [Ref -> SUBSET Index],
         NEW rk \in [Index -> Int],
         Shape(L, P, C, R, D, rk),
         NEW i \in Side, NEW x \in L, C[x][1 - i] = None, NEW c \in Ref, c = C[x][i],
         NEW L2 \in SUBSET Index, L2 = L \ {x},
         NEW P2 \in [Index -> Ref], NEW C2 \in [Index -> [Side -> Ref]],
         NEW R2 \in [Trees -> Ref], NEW D2 \in [Ref -> SUBSET Index],
         Pruned(L2, P, C, R, D, P2, C2, R2, D2, x, c)
  PROVE  Shape(L2, P2, C2, R2, D2, rk) /\ PrunedTrees(R, D, R2, D2, x)
<1>a. /\ Linked(L, P, C) /\ NoCycle(L, P) /\ Descends(L, P, C, D)
      /\ Rooted(L, P, R, D) /\ Sorted(L, C, R, D, rk)
  BY DEF Shape
<1>b. /\ c # None => P2[c] = P[x]
      /\ \A m \in L2 \ {c} : P2[m] = P[m]
      /\ \A m \in L2, s \in Side : C2[m][s] = IF C[m][s] = x THEN c ELSE C[m][s]
      /\ \A t \in Trees : R2[t] = IF R[t] = x THEN c ELSE R[t]
      /\ \A m \in Ref \ {x} : D2[m] = D[m] \ {x}
  BY DEF Pruned
<1> USE <1>a, <1>b
<1>1. /\ None \notin Index /\ x \in Index /\ D[None] = {} /\ D2[None] = {}
      /\ \A m \in L : m \in Index /\ D[m] \subseteq L /\ m \in D[m]
      /\ \A m \in L : \A y \in D[m] : D[y] \subseteq D[m] /\ (y # m => P[y] \in D[m])
  BY NoneAssumption DEF Descends
<1>2. \A m \in L, s \in Side : C[m][s] = None \/ (C[m][s] \in L /\ P[C[m][s]] = m)
  BY DEF Linked
<1>3. \A m \in L : P[m] # None => P[m] \in L /\ \E s \in Side : C[P[m]][s] = m
  BY DEF Linked
<1>4. c # None => c \in L /\ P[c] = x
  BY <1>2
<1>5. D[x] = {x} \cup D[c]
  <2>1. D[x] = {x} \cup D[C[x][0]] \cup D[C[x][1]]
    BY DEF Descends
  <2>2. CASE i = 0
    BY <2>1, <2>2, <1>1
  <2>3. CASE i = 1
    BY <2>1, <2>3, <1>1
  <2> QED  BY <2>2, <2>3
<1>6. \A s \in Side, m \in L : m \notin D[C[m][s]]
  <2>1. \A m \in L, s \in Side : \A y \in D[C[m][s]] : Before(s, rk[y], rk[m])
    BY DEF Sorted
  <2>2. \A m \in L, s \in Side : ~Before(s, rk[m], rk[m])
    BY <1>1 DEF Before
  <2> QED  BY <2>1, <2>2
<1>7. x \notin D[c] /\ c # x /\ P[x] # x /\ (c # None => c \in L2 /\ P[x] # c)
  <2>1. x \notin D[c] /\ c # x
    BY <1>1, <1>4, <1>6
  <2>2. P[x] # None => \E s \in Side : C[P[x]][s] = x
    BY <1>3
  <2>3. P[x] # x
    BY <2>2, <1>1, <1>6
  <2>4. ASSUME P[x] = c, c # None PROVE FALSE
    <3>1. PICK s \in Side : C[c][s] = x
      BY <2>2, <2>4
    <3>2. D[x] \subseteq D[c]
      BY <3>1, <1>4, <2>4 DEF Descends
    <3> QED  BY <3>2, <2>1, <1>1
  <2> QED  BY <2>1, <2>3, <2>4, <1>4
<1>8. Linked(L2, P2, C2)
  <2>1. ASSUME NEW m \in L2, NEW s \in Side, C2[m][s] # None
        PROVE  C2[m][s] \in L2 /\ P2[C2[m][s]] = m
    <3>1. CASE C[m][s] = x
      <4>1. C2[m][s] = c /\ m = P[x]
        BY <3>1, <1>1, <1>2
      <4> QED  BY <2>1, <4>1, <1>7
    <3>2. CASE C[m][s] # x
      <4>1. C2[m][s] = C[m][s] /\ C[m][s] \in L2 /\ P[C[m][s]] = m
        BY <2>1, <3>2, <1>2
      <4>2. C[m][s] # c
        BY <2>1, <4>1, <1>4
      <4> QED  BY <4>1, <4>2
    <3> QED  BY <3>1, <3>2
  <2>2. ASSUME NEW m \in L2, P2[m] # None
        PROVE  P2[m] \in L2 /\ \E s \in Side : C2[P2[m]][s] = m
    <3>1. CASE m = c
      <4>1. P2[m] = P[x] /\ c # None
        BY <3>1, <1>1
      <4>2. P[x] \in L2
        BY <2>2, <4>1, <1>3, <1>7
      <4>3. PICK s \in Side : C[P[x]][s] = x
        BY <2>2, <4>1, <1>3
      <4>4. C2[P[x]][s] = c
        BY <4>2, <4>3
      <4> QED  BY <3>1, <4>1, <4>2, <4>4
    <3>2. CASE m # c
      <4>1. P2[m] = P[m] /\ P[m] \in L
        BY <2>2, <3>2, <1>3
      <4>2. PICK s \in Side : C[P[m]][s] = m
        BY <2>2, <4>1, <1>3
      <4>3. P[m] # x
        <5>1. CASE s = i
          BY <5>1, <4>2, <3>2
        <5>2. CASE s = 1 - i
          BY <5>2, <4>2, <1>1
        <5> QED  BY <5>1, <5>2
      <4>4. C2[P[m]][s] = m
        BY <4>1, <4>2, <4>3
      <4> QED  BY <4>1, <4>3, <4>4
    <3> QED  BY <3>1, <3>2
  <2> QED  BY <2>1, <2>2 DEF Linked
<1>9. NoCycle(L2, P2)
  <2> SUFFICES ASSUME NEW S \in SUBSET L2, S # {}, \A m \in S : P2[m] \in S
               PROVE  FALSE
    BY DEF NoCycle
  <2>1. CASE c \in S
    <3>1. c # None
      BY <2>1, <1>1
    <3>2. ASSUME NEW m \in S \cup {x} PROVE P[m] \in S \cup {x}
      BY <2>1, <3>1, <1>4
    <3>3. S \cup {x} \in SUBSET L
      OBVIOUS
    <3> QED  BY <3>2, <3>3 DEF NoCycle
  <2>2. CASE c \notin S
    <3>1. S \in SUBSET L /\ \A m \in S : P[m] \in S
      BY <2>2
    <3> QED  BY <3>1 DEF NoCycle
  <2> QED  BY <2>1, <2>2
<1>10. \A m \in Ref : C[x][i] = c /\ (m # x => D2[m] = D[m] \ {x})
  OBVIOUS
<1>11. \A m \in L2, s \in Side : C2[m][s] \in Ref /\ C2[m][s] # x /\ D2[C2[m][s]] = D[C[m][s]] \ {x}
  <2> TAKE m \in L2, s \in Side
  <2>1. CASE C[m][s] = x
    <3>1. C2[m][s] = c
      BY <2>1
    <3> QED  BY <2>1, <3>1, <1>5, <1>7
  <2>2. CASE C[m][s] # x
    BY <2>2
  <2> QED  BY <2>1, <2>2
<1>12. Descends(L2, P2, C2, D2)
  <2>1. ASSUME NEW m \in L2
        PROVE  D2[m] \subseteq L2 /\ D2[m] = {m} \cup D2[C2[m][0]] \cup D2[C2[m][1]]
    <3>1. D[m] = {m} \cup D[C[m][0]] \cup D[C[m][1]] /\ D[m] \subseteq L
      BY DEF Descends
    <3>2. D2[m] = D[m] \ {x} /\ m # x
      OBVIOUS
    <3>3. D2[C2[m][0]] = D[C[m][0]] \ {x} /\ D2[C2[m][1]] = D[C[m][1]] \ {x}
      BY <1>11
    <3> QED  BY <3>1, <3>2, <3>3
  <2>2. ASSUME NEW y \in L2, NEW m \in D2[y]
        PROVE  D2[m] \subseteq D2[y] /\ (m # y => P2[m] \in D2[y])
    <3>1. D2[y] = D[y] \ {x} /\ m \in D[y] /\ m \in L2
      BY <1>1
    <3>2. D[m] \subseteq D[y] /\ (m # y => P[m] \in D[y])
      BY <3>1, <1>1
    <3>3. D2[m] \subseteq D2[y]
      BY <3>1, <3>2
    <3>4. ASSUME m # y PROVE P2[m] \in D2[y]
      <4>1. CASE m = c
        <5>1. x \in D[y] /\ c # None
          BY <3>1, <3>2, <3>4, <4>1, <1>1, <1>4
        <5>2. P[x] \in D[y]
          BY <5>1, <1>1
        <5> QED  BY <3>1, <4>1, <5>1, <5>2, <1>7
      <4>2. CASE m # c
        <5>1. P2[m] = P[m] /\ P[m] \in D[y]
          BY <3>1, <3>2, <3>4, <4>2
        <5>2. P[m] # x
          <6>1. ASSUME P[m] = x PROVE FALSE
            <7>1. PICK s \in Side : C[x][s] = m
              BY <6>1, <3>1, <1>1, <1>3
            <7>2. CASE s = i
              BY <7>1, <7>2, <4>2
            <7>3. CASE s = 1 - i
              BY <7>1, <7>3, <3>1, <1>1
            <7> QED  BY <7>2, <7>3
          <6> QED  BY <6>1
        <5> QED  BY <3>1, <5>1, <5>2
      <4> QED  BY <4>1, <4>2
    <3> QED  BY <3>3, <3>4
  <2> QED  BY <1>1, <2>1, <2>2 DEF Descends
<1>13. \A t \in Trees : D2[R2[t]] = D[R[t]] \ {x}
  <2> TAKE t \in Trees
  <2>1. CASE R[t] = x
    <3>1. R2[t] = c
      BY <2>1
    <3> QED  BY <2>1, <3>1, <1>5, <1>7
  <2>2. CASE R[t] # x
    BY <2>2
  <2> QED  BY <2>1, <2>2
<1>14. Rooted(L2, P2, R2, D2)
  <2>1. ASSUME NEW t \in Trees, R2[t] # None PROVE R2[t] \in L2 /\ P2[R2[t]] = None
    <3>1. CASE R[t] = x
      BY <2>1, <3>1, <1>1, <1>7 DEF Rooted
    <3>2. CASE R[t] # x
      <4>1. R[t] \in L2 /\ P[R[t]] = None /\ R2[t] = R[t]
        BY <2>1, <3>2 DEF Rooted
      <4>2. R[t] # c
        BY <4>1, <1>1, <1>4
      <4> QED  BY <4>1, <4>2
    <3> QED  BY <3>1, <3>2
  <2>2. ASSUME NEW m \in L2 PROVE \E t \in Trees : m \in D2[R2[t]]
    <3>1. PICK t \in Trees : m \in D[R[t]]
      BY DEF Rooted
    <3> QED  BY <3>1, <1>13
  <2>3. ASSUME NEW t \in Trees, NEW u \in Trees, t # u
        PROVE  D2[R2[t]] \cap D2[R2[u]] = {}
    <3>1. D[R[t]] \cap D[R[u]] = {}
      BY <2>3 DEF Rooted
    <3> QED  BY <3>1, <1>13
  <2> QED  BY <2>1, <2>2, <2>3 DEF Rooted
<1>15. Sorted(L2, C2, R2, D2, rk)
  <2>1. ASSUME NEW y \in L2, NEW s \in Side, NEW m \in D2[C2[y][s]]
        PROVE  Before(s, rk[m], rk[y])
    <3>1. m \in D[C[y][s]]
      BY <1>11
    <3> QED  BY <3>1 DEF Sorted
  <2>2. ASSUME NEW t \in Trees, NEW y \in D2[R2[t]], NEW m \in D2[R2[t]],
               NEW a \in D2[y], NEW b \in D2[y], rk[a] < rk[m], rk[m] < rk[b]
        PROVE  m \in D2[y]
    <3>1. y \in D[R[t]] /\ m \in D[R[t]] /\ y # x /\ m # x
      BY <1>13
    <3>2. y \in Ref
      BY <3>1
    <3>3. D2[y] = D[y] \ {x}
      BY <3>1, <3>2
    <3>4. a \in D[y] /\ b \in D[y]
      BY <3>3
    <3>5. m \in D[y]
      BY <3>1, <3>4, <2>2 DEF Sorted
    <3> QED  BY <3>1, <3>3, <3>5
  <2> QED  BY <2>1, <2>2 DEF Sorted
<1> QED  BY <1>8, <1>9, <1>12, <1>13, <1>14, <1>15 DEF Shape, PrunedTrees

-----------------------------------------------------------------------------
(* Either direction is a strict total order, one the converse of the other. *)
LEMMA BeforeOrder ==
  ASSUME NEW i \in Side
  PROVE  /\ 1 - i \in Side /\ 1 - i # i /\ 1 - (1 - i) = i
         /\ \A s \in Side : s = i \/ s = 1 - i
         /\ \A x \in Int : ~Before(i, x, x)
         /\ \A x, y \in Int : ~(Before(i, x, y) /\ Before(i, y, x))
         /\ \A x, y, z \in Int : Before(i, x, y) /\ Before(i, y, z) => Before(i, x, z)
         /\ \A x, y \in Int : x = y \/ Before(i, x, y) \/ Before(i, y, x)
         /\ \A x, y \in Int : Before(1 - i, x, y) <=> Before(i, y, x)
  BY DEF Before

(* If the neighbours are the nearest ones then previous and next are       *)
(* inverse.                                                                *)
LEMMA ThreadMutual ==
  ASSUME NEW T \in SUBSET Index, NEW O \in [Index -> [Side -> Ref]],
         NEW rg \in [Side -> Ref], NEW rk \in [Index -> Int], Thread(T, O, rg, rk)
  PROVE  Mutual(T, O)
<1>1. ASSUME NEW n \in T, NEW i \in Side, NEW j \in Side, O[n][i] # None, i # j
      PROVE  O[O[n][i]][j] = n
  <2> DEFINE q == O[n][i]
             r == O[q][j]
  <2>1. q \in T /\ Before(i, rk[q], rk[n]) /\ (\A m \in T : rk[m] \in Int)
    BY <1>1 DEF Thread
  <2>2. Before(j, rk[n], rk[q])
    BY <1>1, <2>1 DEF Before
  <2>3. r # None
    BY <2>1, <2>2 DEF Thread
  <2>4. r \in T /\ Before(j, rk[r], rk[q]) /\ ~Before(j, rk[r], rk[n])
    BY <2>1, <2>2, <2>3 DEF Thread
  <2>5. ~Before(i, rk[r], rk[n])
    <3>1. Before(i, rk[q], rk[r])
      BY <1>1, <2>1, <2>4 DEF Before
    <3> QED  BY <3>1, <1>1, <2>4 DEF Thread
  <2>6. rk[r] = rk[n]
    BY <1>1, <2>1, <2>4, <2>5 DEF Before
  <2> QED  BY <2>4, <2>6 DEF Thread
<1> QED  BY <1>1 DEF Mutual

(* The thread after n was hooked in on side i of p.                        *)
Hooked(T, O, rg, rk, O2, rg2, rk2, i, n, p) ==
  /\ \A m \in T : rk2[m] = rk[m]
  /\ Before(i, rk2[n], rk[p])
  /\ \A m \in T : Before(i, rk[m], rk[p]) => Before(i, rk[m], rk2[n])
  /\ O2[n][i] = O[p][i] /\ O2[n][1 - i] = p /\ O2[p][i] = n
  /\ O[p][i] # None => O2[O[p][i]][1 - i] = n
  /\ \A m \in T, s \in Side : (m # p \/ s # i) /\ (m # O[p][i] \/ s = i) => O2[m][s] = O[m][s]
  /\ rg2[i] = (IF O[p][i] = None THEN n ELSE rg[i]) /\ rg2[1 - i] = rg[1 - i]

(* insert_at threads the new node at its place.                            *)
LEMMA HangThread ==
  ASSUME NEW T \in SUBSET Index, NEW O \in [Index -> [Side -> Ref]],
         NEW rg \in [Side -> Ref], NEW rk \in [Index -> Int], Thread(T, O, rg, rk),
         NEW i \in Side, NEW p \in T, NEW n \in Index \ T,
         NEW O2 \in [Index -> [Side -> Ref]], NEW rg2 \in [Side -> Ref],
         NEW rk2 \in [Index -> Int],
         Hooked(T, O, rg, rk, O2, rg2, rk2, i, n, p)
  PROVE  Thread(T \cup {n}, O2, rg2, rk2)
<1>f. PICK far \in Ref : far = O[p][i]
  OBVIOUS
<1>h. /\ \A m \in T : rk2[m] = rk[m]
      /\ Before(i, rk2[n], rk[p])
      /\ \A m \in T : Before(i, rk[m], rk[p]) => Before(i, rk[m], rk2[n])
      /\ O2[n][i] = far /\ O2[n][1 - i] = p /\ O2[p][i] = n
      /\ far # None => O2[far][1 - i] = n
      /\ \A m \in T, s \in Side : (m # p \/ s # i) /\ (m # far \/ s = i) => O2[m][s] = O[m][s]
      /\ rg2[i] = (IF far = None THEN n ELSE rg[i]) /\ rg2[1 - i] = rg[1 - i]
  BY <1>f DEF Hooked
<1> USE <1>f, <1>h
<1> DEFINE j == 1 - i
           U == T \cup {n}
           Lt(s, x, y) == Before(s, rk2[x], rk2[y])
<1>1. /\ j \in Side /\ j # i /\ 1 - j = i /\ (\A s \in Side : s = i \/ s = j)
      /\ None \notin U /\ n \notin T
  BY NoneAssumption
<1>2. \A x \in U : rk2[x] \in Int
  OBVIOUS
<1>3. \A s \in Side : \A x, y, z \in U :
        /\ ~Lt(s, x, x) /\ ~(Lt(s, x, y) /\ Lt(s, y, x))
        /\ Lt(s, x, y) /\ Lt(s, y, z) => Lt(s, x, z)
  BY <1>2, BeforeOrder
<1>4. \A x, y \in U : Lt(j, x, y) <=> Lt(i, y, x)
  BY <1>2, BeforeOrder
<1>5. Lt(i, n, p) /\ \A m \in T : Lt(i, m, p) => Lt(i, m, n)
  OBVIOUS
<1>6. \A s \in Side : \A x \in T : x # p => (Lt(s, x, n) <=> Lt(s, x, p)) /\ (Lt(s, n, x) <=> Lt(s, p, x))
  <2>1. ASSUME NEW x \in T, x # p
        PROVE (Lt(i, x, n) <=> Lt(i, x, p)) /\ (Lt(i, n, x) <=> Lt(i, p, x))
    <3>1. Lt(i, x, p) \/ Lt(i, p, x)
      <4>1. rk2[x] # rk2[p]
        BY <2>1 DEF Thread
      <4> QED  BY <4>1, <1>2, BeforeOrder
    <3>2. CASE Lt(i, x, p)
      BY <3>2, <1>3, <1>5
    <3>3. CASE Lt(i, p, x)
      BY <3>3, <1>3, <1>5
    <3> QED  BY <3>1, <3>2, <3>3
  <2> QED  BY <2>1, <1>1, <1>4
<1>6a. Mutual(T, O)
  BY ThreadMutual
<1>7. /\ \A m, x \in T, s \in Side : O[m][s] = None => ~Lt(s, x, m)
      /\ \A m \in T, s \in Side : O[m][s] # None => O[m][s] \in T /\ Lt(s, O[m][s], m)
      /\ \A m, x \in T, s \in Side : O[m][s] # None /\ Lt(s, x, m) => ~Lt(s, O[m][s], x)
      /\ \A m \in T, s, r \in Side : O[m][s] # None /\ s # r => O[O[m][s]][r] = m
  <2>1. \A m, x \in T, s \in Side : O[m][s] = None => ~Lt(s, x, m)
    BY DEF Thread
  <2>2. \A m \in T, s \in Side : O[m][s] # None => O[m][s] \in T /\ Lt(s, O[m][s], m)
    BY DEF Thread
  <2>3. \A m, x \in T, s \in Side : O[m][s] # None /\ Lt(s, x, m) => ~Lt(s, O[m][s], x)
    BY DEF Thread
  <2> QED  BY <1>6a, <2>1, <2>2, <2>3 DEF Mutual
<1>8. \A x, y \in U : rk2[x] = rk2[y] => x = y
  <2>1. \A x, y \in T : rk2[x] = rk2[y] => x = y
    BY DEF Thread
  <2>2. ASSUME NEW x \in T PROVE rk2[x] # rk2[n]
    <3>1. Lt(i, x, n) \/ Lt(i, n, x)
      <4>1. CASE x = p
        BY <4>1, <1>5
      <4>2. CASE x # p
        <5>1. rk2[x] # rk2[p]
          BY <4>2, <2>1
        <5>2. Lt(i, x, p) \/ Lt(i, p, x)
          BY <5>1, <1>2, BeforeOrder
        <5> QED  BY <5>2, <4>2, <1>6
      <4> QED  BY <4>1, <4>2
    <3> HIDE DEF Lt
    <3>2. ~Before(i, rk2[n], rk2[n]) 
      BY <1>3 DEF Lt
    <3> QED  BY <3>1, <3>2 DEF Lt
  <2> QED  BY <2>1, <2>2
<1>9. ASSUME NEW m \in U, NEW s \in Side
      PROVE  /\ O2[m][s] = None => \A x \in U : ~Lt(s, x, m)
             /\ O2[m][s] # None =>
                  /\ O2[m][s] \in U /\ Lt(s, O2[m][s], m)
                  /\ \A x \in U : Lt(s, x, m) => ~Lt(s, O2[m][s], x)
  <2> HIDE DEF j, Lt
  <2>0. O2[n][j] = p /\ (far # None => O2[far][j] = n)
    BY DEF j
  <2>1. CASE m = n /\ s = i
    <3>1. \A x \in T : Lt(i, x, n) => Lt(i, x, p)
      BY <1>3, <1>5
    <3>2. ~Lt(i, n, n)
      BY <1>3
    <3>3. CASE far = None
      <4>0. O[p][i] = None
        BY <3>3
      <4>1. ASSUME NEW x \in T PROVE ~Lt(i, x, p)
        <5>1. ~Before(i, rk[x], rk[p])
          BY <4>0 DEF Thread
        <5> QED  BY <5>1 DEF Lt
      <4>2. \A x \in U : ~Lt(i, x, n)
        BY <4>1, <3>1, <3>2
      <4> QED  BY <2>1, <3>3, <4>2
    <3>4. CASE far # None
      <4>1. far \in T /\ Lt(i, far, p) /\ \A x \in T : Lt(i, x, p) => ~Lt(i, far, x)
        BY <3>4, <1>7
      <4> QED  BY <2>1, <3>1, <3>2, <3>4, <4>1, <1>5
    <3> QED  BY <3>3, <3>4
  <2>2. CASE m = n /\ s = j
    <3>1. Lt(j, p, n)
      BY <1>4, <1>5
    <3>2. \A x \in U : Lt(j, x, n) => ~Lt(j, p, x)
      <4>1. ASSUME NEW x \in U, Lt(j, x, n) PROVE ~Lt(j, p, x)
        <5>1. CASE x = p
          BY <5>1, <1>1, <1>3
        <5>2. CASE x = n
          BY <5>2, <4>1, <1>1, <1>3
        <5>3. CASE x \in T /\ x # p
          BY <5>3, <4>1, <1>1, <1>3, <1>6
        <5> QED  BY <5>1, <5>2, <5>3
      <4> QED  BY <4>1
    <3> QED  BY <2>0, <2>2, <3>1, <3>2, <1>1
  <2>3. CASE m = p /\ s = i
    <3>1. \A x \in U : Lt(i, x, p) => ~Lt(i, n, x)
      BY <1>3, <1>5
    <3> QED  BY <2>3, <3>1, <1>1, <1>5
  <2>4. CASE m = far /\ s = j /\ far # None
    <3>1. far \in T /\ Lt(i, far, p) /\ \A x \in T : Lt(i, x, p) => ~Lt(i, far, x)
      BY <2>4, <1>7
    <3>2. Lt(j, n, far)
      BY <3>1, <1>4, <1>5
    <3>3. ASSUME NEW x \in U, Lt(j, x, far) PROVE ~Lt(j, n, x)
      <4>1. SUFFICES ASSUME Lt(j, n, x) PROVE FALSE
        OBVIOUS
      <4>2. Lt(i, far, x) /\ Lt(i, x, n)
        BY <3>1, <3>3, <4>1, <1>4
      <4>3. x \in T /\ Lt(i, x, p)
        BY <4>2, <1>3, <1>5
      <4> QED  BY <4>2, <4>3, <3>1
    <3> QED  BY <2>0, <2>4, <3>2, <3>3, <1>1
  <2>5. CASE m \in T /\ (m # p \/ s # i) /\ (m # far \/ s = i)
    <3>0. O2[m][s] = O[m][s]
      BY <2>5
    <3>1. CASE O[m][s] = None
      <4>1. \A x \in T : ~Lt(s, x, m)
        BY <2>5, <3>1, <1>7
      <4>2. ~Lt(s, n, m)
        <5>1. CASE m = p
          BY <5>1, <2>5, <1>1, <1>3, <1>4, <1>5
        <5>2. CASE m # p
          BY <5>2, <4>1, <2>5, <1>6
        <5> QED  BY <5>1, <5>2
      <4> QED  BY <3>0, <3>1, <4>1, <4>2
    <3>2. CASE O[m][s] # None
      <4> DEFINE q == O[m][s]
      <4>1. q \in T /\ Lt(s, q, m) /\ (\A x \in T : Lt(s, x, m) => ~Lt(s, q, x)) /\ O[q][1 - s] = m
        BY <2>5, <3>2, <1>7
      <4>2. ASSUME Lt(s, n, m) PROVE ~Lt(s, q, n)
        <5>1. m # p
          BY <4>2, <2>5, <1>1, <1>3, <1>4, <1>5
        <5>2. Lt(s, p, m)
          BY <5>1, <4>2, <2>5, <1>6
        <5>3. CASE q # p
          BY <5>3, <5>2, <4>1, <1>6
        <5>4. CASE q = p
          <6>1. s = i
            <7>1. SUFFICES ASSUME s = j PROVE FALSE
              BY <1>1
            <7>2. O[p][i] = m
              BY <7>1, <5>4, <4>1, <1>1
            <7> QED  BY <7>1, <7>2, <2>5, <1>1
          <6> QED  BY <6>1, <5>4, <1>3, <1>5
        <5> QED  BY <5>3, <5>4
      <4> QED  BY <3>0, <3>2, <4>1, <4>2
    <3> QED  BY <3>1, <3>2
  <2> QED  BY <2>1, <2>2, <2>3, <2>4, <2>5, <1>1
<1>10. ASSUME NEW s \in Side PROVE rg2[s] \in U /\ O2[rg2[s]][s] = None
  <2>1. \A r \in Side : rg[r] \in T /\ O[rg[r]][r] = None
    BY DEF Thread
  <2>2. CASE s = i
    <3>1. CASE far = None
      BY <2>2, <3>1
    <3>2. CASE far # None
      <4>1. rg2[i] = rg[i] /\ rg[i] # p
        BY <3>2, <2>1
      <4> QED  BY <2>1, <2>2, <4>1
    <3> QED  BY <3>1, <3>2
  <2>3. CASE s = j
    <3> HIDE DEF j, Lt
    <3>1. rg2[j] = rg[j]
      BY DEF j
    <3>2. rg[j] # far
      <4>1. SUFFICES ASSUME far # None, O[far][j] = None PROVE FALSE
        BY <2>1, <1>1
      <4>2. O[far][j] = p
        BY <4>1, <1>7 DEF j
      <4> QED  BY <4>1, <4>2, <1>1
    <3> QED  BY <2>1, <2>3, <3>1, <3>2, <1>1
  <2> QED  BY <2>2, <2>3, <1>1
<1> QED  BY <1>8, <1>9, <1>10 DEF Thread

(* The thread after x was taken out of it.                                 *)
Unthreaded(T2, O, rg, O2, rg2, x) ==
  /\ \A m \in T2, i, j \in Side : i # j /\ m = O[x][j] => O2[m][i] = O[x][i]
  /\ \A m \in T2, i, j \in Side : i # j /\ m # O[x][j] => O2[m][i] = O[m][i]
  /\ \A i, j \in Side : i # j /\ O[x][i] = None => rg2[i] = O[x][j]
  /\ \A i \in Side : O[x][i] # None => rg2[i] = rg[i]

(* remove_at lets the neighbours of the node it takes out meet, and the    *)
(* range is the ends of what is left.                                      *)
LEMMA UnthreadThread ==
  ASSUME NEW T \in SUBSET Index, NEW O \in [Index -> [Side -> Ref]],
         NEW rg \in [Side -> Ref], NEW rk \in [Index -> Int], Thread(T, O, rg, rk),
         NEW x \in T, NEW T2, T2 = T \ {x},
         NEW O2 \in [Index -> [Side -> Ref]], NEW rg2 \in [Side -> Ref],
         Unthreaded(T2, O, rg, O2, rg2, x)
  PROVE  Thread(T2, O2, rg2, rk)
<1>h. /\ \A m \in T2, i, j \in Side : i # j /\ m = O[x][j] => O2[m][i] = O[x][i]
      /\ \A m \in T2, i, j \in Side : i # j /\ m # O[x][j] => O2[m][i] = O[m][i]
      /\ \A i, j \in Side : i # j /\ O[x][i] = None => rg2[i] = O[x][j]
      /\ \A i \in Side : O[x][i] # None => rg2[i] = rg[i]
  BY DEF Unthreaded
<1>1. None \notin Index /\ x \in Index /\ \A m \in T : m \in Index /\ rk[m] \in Int
  BY NoneAssumption
<1>2. \A n \in T, i, j \in Side : i # j /\ O[n][i] # None => O[O[n][i]][j] = n
  BY ThreadMutual DEF Mutual
<1>3. \A y, z \in T : rk[y] = rk[z] => y = z
  BY DEF Thread
<1>4. \A i, j \in Side : i # j => \A y, z \in T : y = z \/ Before(i, rk[y], rk[z]) \/ Before(j, rk[y], rk[z])
  <2> TAKE i, j \in Side
  <2> HAVE i # j
  <2> TAKE y, z \in T
  <2>1. rk[y] \in Int /\ rk[z] \in Int /\ (rk[y] = rk[z] => y = z)
    BY <1>1, <1>3
  <2> QED  BY <2>1 DEF Before
<1>5. \A i, j \in Side : i # j => \A y, z \in T : Before(i, rk[y], rk[z]) <=> Before(j, rk[z], rk[y])
  BY <1>1 DEF Before
<1>6. \A i \in Side, y, z, w \in T :
        /\ ~Before(i, rk[y], rk[y])
        /\ Before(i, rk[y], rk[z]) /\ Before(i, rk[z], rk[w]) => Before(i, rk[y], rk[w])
  BY <1>1 DEF Before
<1> USE <1>h
<1>7. ASSUME NEW m \in T2, NEW i \in Side
      PROVE  /\ O2[m][i] = None => \A y \in T2 : ~Before(i, rk[y], rk[m])
             /\ O2[m][i] # None =>
                  /\ O2[m][i] \in T2 /\ Before(i, rk[O2[m][i]], rk[m])
                  /\ \A y \in T2 : Before(i, rk[y], rk[m]) => ~Before(i, rk[O2[m][i]], rk[y])
  <2>0. PICK j \in Side : i # j
    BY BeforeOrder
  <2>1. CASE m = O[x][j]
    <3>1. O2[m][i] = O[x][i] /\ m \in T /\ O[m][i] = x /\ m # x
      BY <2>0, <2>1, <1>1, <1>2
    <3>2. Before(i, rk[x], rk[m]) /\ \A y \in T : Before(i, rk[y], rk[m]) => ~Before(i, rk[x], rk[y])
      BY <3>1, <1>1 DEF Thread
    <3>3. ASSUME NEW y \in T2, Before(i, rk[y], rk[m]) PROVE Before(i, rk[y], rk[x])
      <4>1. ~Before(i, rk[x], rk[y]) /\ y # x /\ y \in T
        BY <3>2, <3>3
      <4> QED  BY <4>1, <2>0, <1>4, <1>5
    <3>4. CASE O[x][i] = None
      <4>1. \A y \in T : ~Before(i, rk[y], rk[x])
        BY <3>4 DEF Thread
      <4> QED  BY <3>1, <3>3, <3>4, <4>1
    <3>5. CASE O[x][i] # None
      <4> DEFINE q == O[x][i]
      <4>1. q \in T /\ Before(i, rk[q], rk[x])
        BY <3>5 DEF Thread
      <4>2. \A y \in T : Before(i, rk[y], rk[x]) => ~Before(i, rk[q], rk[y])
        BY <3>5 DEF Thread
      <4>3. q # x /\ Before(i, rk[q], rk[m])
        BY <4>1, <3>1, <3>2, <1>6
      <4>4. \A y \in T2 : Before(i, rk[y], rk[m]) => ~Before(i, rk[q], rk[y])
        BY <4>2, <3>3
      <4> QED  BY <3>1, <3>5, <4>1, <4>3, <4>4
    <3> QED  BY <3>4, <3>5
  <2>2. CASE m # O[x][j]
    <3>1. O2[m][i] = O[m][i] /\ m \in T
      BY <2>0, <2>2
    <3>2. O[m][i] # x
      BY <2>0, <2>2, <3>1, <1>1, <1>2
    <3>3. O[m][i] = None => \A y \in T : ~Before(i, rk[y], rk[m])
      BY <3>1 DEF Thread
    <3>4. O[m][i] # None => O[m][i] \in T /\ Before(i, rk[O[m][i]], rk[m])
      BY <3>1 DEF Thread
    <3>5. O[m][i] # None => \A y \in T : Before(i, rk[y], rk[m]) => ~Before(i, rk[O[m][i]], rk[y])
      BY <3>1 DEF Thread
    <3> QED  BY <3>1, <3>2, <3>3, <3>4, <3>5
  <2> QED  BY <2>1, <2>2
<1>8. ASSUME NEW i \in Side PROVE T2 = {} => rg2[i] = None
  <2>0. PICK j \in Side : i # j
    BY BeforeOrder
  <2>1. SUFFICES ASSUME T = {x} PROVE rg2[i] = None
    OBVIOUS
  <2>2. ASSUME NEW s \in Side PROVE O[x][s] = None
    <3>1. O[x][s] # None => O[x][s] \in T /\ Before(s, rk[O[x][s]], rk[x])
      BY DEF Thread
    <3> QED  BY <3>1, <2>1, <1>6
  <2> QED  BY <2>0, <2>2
<1>9. ASSUME NEW i \in Side, T2 # {} PROVE rg2[i] \in T2 /\ O2[rg2[i]][i] = None
  <2>0. PICK j \in Side : i # j
    BY BeforeOrder
  <2>1. CASE O[x][i] = None
    <3>1. PICK y \in T2 : TRUE
      BY <1>9
    <3>2. y \in T /\ y # x /\ ~Before(i, rk[y], rk[x])
      BY <2>1 DEF Thread
    <3>3. Before(j, rk[y], rk[x])
      BY <3>2, <2>0, <1>4
    <3>4. O[x][j] # None
      BY <3>2, <3>3 DEF Thread
    <3>5. O[x][j] \in T /\ Before(j, rk[O[x][j]], rk[x])
      BY <3>4 DEF Thread
    <3>6. O[x][j] \in T2
      BY <3>5, <1>6
    <3>7. rg2[i] = O[x][j] /\ O2[O[x][j]][i] = O[x][i]
      BY <3>6, <2>0, <2>1
    <3> QED  BY <3>6, <3>7, <2>1
  <2>2. CASE O[x][i] # None
    <3>1. rg2[i] = rg[i] /\ rg[i] \in T /\ O[rg[i]][i] = None
      BY <2>2 DEF Thread
    <3>2. rg[i] # x /\ rg[i] \in T2
      BY <2>2, <3>1
    <3>3. rg[i] # O[x][j]
      BY <2>0, <3>1, <1>1, <1>2
    <3> QED  BY <2>0, <3>1, <3>2, <3>3
  <2> QED  BY <2>1, <2>2
<1>10. T2 \subseteq T
  OBVIOUS
<1> QED  BY <1>3, <1>7, <1>8, <1>9, <1>10 DEF Thread

(* A single node is a thread.                                              *)
LEMMA PlantThread ==
  ASSUME NEW n \in Index, NEW O2 \in [Index -> [Side -> Ref]],
         NEW rg2 \in [Side -> Ref], NEW rk2 \in [Index -> Int],
         \A i \in Side : O2[n][i] = None /\ rg2[i] = n
  PROVE  Thread({n}, O2, rg2, rk2)
<1>1. \A i \in Side : ~Before(i, rk2[n], rk2[n])
  BY DEF Before
<1> QED  BY <1>1 DEF Thread

-----------------------------------------------------------------------------
(* Ranks may be renamed if their order is kept: a thread stays one; ...    *)
LEMMA ReorderThread ==
  ASSUME NEW T \in SUBSET Index, NEW O \in [Index -> [Side -> Ref]],
         NEW rg \in [Side -> Ref], NEW rk \in [Index -> Int], NEW rk2 \in [Index -> Int],
         Thread(T, O, rg, rk),
         \A x, y \in T : rk[x] < rk[y] => rk2[x] < rk2[y]
  PROVE  Thread(T, O, rg, rk2)
<1>1. \A x, y \in T : x # y => rk[x] < rk[y] \/ rk[y] < rk[x]
  <2> TAKE x, y \in T
  <2>1. rk[x] \in Int /\ rk[y] \in Int /\ (rk[x] = rk[y] => x = y)
    BY DEF Thread
  <2> QED  BY SMTT(20), <2>1
<1>2. \A x, y \in T : rk2[x] < rk2[y] <=> rk[x] < rk[y]
  <2> TAKE x, y \in T
  <2>1. rk[x] \in Int /\ rk[y] \in Int /\ rk2[x] \in Int /\ rk2[y] \in Int
    OBVIOUS
  <2>2. CASE x = y
    BY <2>1, <2>2
  <2>3. CASE x # y
    BY <2>1, <2>3, <1>1
  <2> QED  BY <2>2, <2>3
<1>3. \A x, y \in T, i \in Side : Before(i, rk2[x], rk2[y]) <=> Before(i, rk[x], rk[y])
  BY <1>2 DEF Before
<1>4. \A x, y \in T : rk2[x] = rk2[y] => x = y
  BY <1>1, <1>2
<1>5. \A n, m \in T, i \in Side : O[n][i] = None => ~Before(i, rk2[m], rk2[n])
  BY <1>3 DEF Thread
<1>6. \A n \in T, i \in Side :
       O[n][i] # None => O[n][i] \in T /\ Before(i, rk2[O[n][i]], rk2[n])
  BY <1>3 DEF Thread
<1>7. \A n, m \in T, i \in Side :
       O[n][i] # None /\ Before(i, rk2[m], rk2[n]) => ~Before(i, rk2[O[n][i]], rk2[m])
  BY <1>3, <1>6 DEF Thread
<1> QED  BY <1>4, <1>5, <1>6, <1>7 DEF Thread

(* ... and so does a search tree.                                          *)
LEMMA ReorderTree ==
  ASSUME NEW L \in SUBSET Index,
         NEW P \in [Index -> Ref], NEW C \in [Index -> [Side -> Ref]],
         NEW R \in [Trees -> Ref], NEW D \in [Ref -> SUBSET Index],
         NEW rk \in [Index -> Int], NEW rk2 \in [Index -> Int],
         Shape(L, P, C, R, D, rk),
         \A t \in Trees : \A x, y \in D[R[t]] : rk2[x] < rk2[y] <=> rk[x] < rk[y]
  PROVE  Shape(L, P, C, R, D, rk2)
<1>a. /\ Linked(L, P, C) /\ NoCycle(L, P) /\ Descends(L, P, C, D)
      /\ Rooted(L, P, R, D) /\ Sorted(L, C, R, D, rk)
  BY DEF Shape
<1> USE <1>a
<1>1. \A t \in Trees : R[t] \in L \/ D[R[t]] = {}
  BY DEF Rooted, Descends
<1>2. \A n \in L : D[n] \subseteq L /\ n \in D[n] /\ \A m \in D[n] : D[m] \subseteq D[n]
  BY DEF Descends
<1>3. ASSUME NEW n \in L, NEW i \in Side, NEW m \in D[C[n][i]]
      PROVE  Before(i, rk2[m], rk2[n])
  <2>1. PICK t \in Trees : n \in D[R[t]]
    BY DEF Rooted
  <2>2. D[n] \subseteq D[R[t]]
    BY <2>1, <1>1, <1>2
  <2>3. D[C[n][i]] \subseteq D[n]
    BY DEF Descends
  <2>4. Before(i, rk[m], rk[n])
    BY DEF Sorted
  <2> QED  BY <2>1, <2>2, <2>3, <2>4 DEF Before
<1>4. ASSUME NEW t \in Trees, NEW n \in D[R[t]], NEW m \in D[R[t]],
             NEW x \in D[n], NEW y \in D[n], rk2[x] < rk2[m], rk2[m] < rk2[y]
      PROVE  m \in D[n]
  <2>1. D[n] \subseteq D[R[t]]
    BY <1>1, <1>2
  <2>2. rk[x] < rk[m] /\ rk[m] < rk[y]
    BY <2>1, <1>4
  <2> QED  BY <2>2 DEF Sorted
<1> QED  BY <1>3, <1>4 DEF Sorted, Shape

(* A node with a right child has a successor, which has no left child.     *)
Succeeds(C, O, n) ==
  \A i, j \in Side : i # j /\ C[n][i] # None => C[O[n][i]][j] = None

(* remove_at's successor: the thread leads into the right subtree, to a    *)
(* node with at most one child.                                            *)
LEMMA Successor ==
  ASSUME NEW L \in SUBSET Index,
         NEW P \in [Index -> Ref], NEW C \in [Index -> [Side -> Ref]],
         NEW R \in [Trees -> Ref], NEW D \in [Ref -> SUBSET Index],
         NEW rk \in [Index -> Int],
         Shape(L, P, C, R, D, rk),
         NEW t \in Trees, NEW O \in [Index -> [Side -> Ref]], NEW rg \in [Side -> Ref],
         NEW T, T = D[R[t]], Thread(T, O, rg, rk), NEW n \in T
  PROVE  Succeeds(C, O, n)
<1> SUFFICES ASSUME NEW i \in Side, NEW j \in Side, i # j, C[n][i] # None
             PROVE  C[O[n][i]][j] = None
  BY DEF Succeeds
<1>a. /\ Linked(L, P, C) /\ NoCycle(L, P) /\ Descends(L, P, C, D)
      /\ Rooted(L, P, R, D) /\ Sorted(L, C, R, D, rk)
  BY DEF Shape
<1> USE <1>a
<1> DEFINE c == C[n][i]
           x == O[n][i]
<1>1. /\ None \notin Index /\ D[None] = {}
      /\ \A m \in L : D[m] \subseteq L /\ m \in D[m]
      /\ \A m \in L : \A y \in D[m] : D[y] \subseteq D[m]
  BY NoneAssumption DEF Descends
<1>2. R[t] \in L
  BY <1>1 DEF Rooted
<1>3. n \in L /\ D[n] \subseteq T /\ T \subseteq L
  BY <1>1, <1>2
<1>4. c \in L /\ c \in D[c] /\ D[c] \subseteq D[n]
  BY <1>1, <1>3 DEF Linked, Descends
<1>5. \A m \in D[c] : Before(i, rk[m], rk[n])
  BY <1>3 DEF Sorted
<1>6. \A m \in D[C[n][j]] : Before(j, rk[m], rk[n])
  BY <1>3 DEF Sorted
<1>7. x \in T /\ Before(i, rk[x], rk[n])
  BY <1>3, <1>4, <1>5 DEF Thread
<1>8. \A m \in T : Before(i, rk[m], rk[n]) => ~Before(i, rk[x], rk[m])
  BY <1>7, NoneAssumption DEF Thread
<1>9. x \in D[n]
  <2>1. ~Before(i, rk[x], rk[c]) /\ c \in T
    BY <1>3, <1>4, <1>5, <1>8
  <2>2. CASE rk[x] = rk[c]
    BY <2>1, <2>2, <1>4, <1>7 DEF Thread
  <2>3. CASE rk[x] # rk[c]
    <3>1. Before(i, rk[c], rk[x])
      BY <2>1, <2>3, <1>4, <1>7 DEF Before
    <3>2. \A a, b \in D[n] : rk[a] < rk[x] /\ rk[x] < rk[b] => x \in D[n]
      BY <1>7 DEF Sorted
    <3>3. c \in D[n] /\ n \in D[n]
      BY <1>1, <1>3, <1>4
    <3> QED  BY <3>1, <3>2, <3>3, <1>7 DEF Before
  <2> QED  BY <2>2, <2>3
<1>10. x \in D[c]
  <2>1. D[n] = {n} \cup D[C[n][0]] \cup D[C[n][1]]
    BY <1>3 DEF Descends
  <2>2. D[n] = {n} \cup D[c] \cup D[C[n][j]]
    <3>1. CASE i = 0 /\ j = 1
      BY <2>1, <3>1
    <3>2. CASE i = 1 /\ j = 0
      BY <2>1, <3>2
    <3> QED  BY <3>1, <3>2
  <2>3. x # n /\ ~Before(j, rk[x], rk[n])
    BY <1>7 DEF Before
  <2> QED  BY <2>2, <2>3, <1>6, <1>9
<1>11. C[x][j] = None
  <2>1. SUFFICES ASSUME C[x][j] # None PROVE FALSE
    OBVIOUS
  <2> DEFINE y == C[x][j]
  <2>2. x \in L
    BY <1>3, <1>7
  <2>3. y \in L /\ y \in D[y] /\ D[y] \subseteq D[x]
    BY <2>1, <2>2, <1>1 DEF Linked, Descends
  <2>4. y \in D[c] /\ y \in T
    BY <2>3, <1>1, <1>3, <1>4, <1>10
  <2>5. Before(j, rk[y], rk[x])
    BY <2>2, <2>3 DEF Sorted
  <2>6. Before(i, rk[x], rk[y])
    BY <2>5, <2>2, <2>3 DEF Before
  <2> QED  BY <2>4, <2>6, <1>5, <1>8
<1> QED  BY <1>11

-----------------------------------------------------------------------------
(* Nothing that Shape looks at differs on L.                               *)
SameLinks(L, P, C, rk, P2, C2, rk2) ==
  /\ \A m \in L : P2[m] = P[m] /\ rk2[m] = rk[m]
  /\ \A m \in L, i \in Side : C2[m][i] = C[m][i]

(* Shape looks at nothing but the links and the ranks of L.                *)
LEMMA ShapeSame ==
  ASSUME NEW L \in SUBSET Index,
         NEW P \in [Index -> Ref], NEW C \in [Index -> [Side -> Ref]],
         NEW R \in [Trees -> Ref], NEW D \in [Ref -> SUBSET Index],
         NEW rk, Shape(L, P, C, R, D, rk),
         NEW P2, NEW C2, NEW rk2, SameLinks(L, P, C, rk, P2, C2, rk2)
  PROVE  Shape(L, P2, C2, R, D, rk2)
<1>a. /\ Linked(L, P, C) /\ NoCycle(L, P) /\ Descends(L, P, C, D)
      /\ Rooted(L, P, R, D) /\ Sorted(L, C, R, D, rk)
  BY DEF Shape
<1>b. /\ \A m \in L : P2[m] = P[m] /\ rk2[m] = rk[m]
      /\ \A m \in L, i \in Side : C2[m][i] = C[m][i]
  BY DEF SameLinks
<1>c. None \notin L
  BY NoneAssumption
<1>1. Linked(L, P2, C2)
  <2>1. \A n \in L, i \in Side : C2[n][i] # None => C2[n][i] \in L /\ P2[C2[n][i]] = n
    BY <1>a, <1>b DEF Linked
  <2>2. \A n \in L : P2[n] # None => P2[n] \in L /\ \E i \in Side : C2[P2[n]][i] = n
    BY <1>a, <1>b DEF Linked
  <2> QED  BY <2>1, <2>2 DEF Linked
<1>2. NoCycle(L, P2)
  BY <1>a, <1>b DEF NoCycle
<1>3. Descends(L, P2, C2, D)
  <2>1. \A n \in L : D[n] \subseteq L /\ D[n] = {n} \cup D[C2[n][0]] \cup D[C2[n][1]]
    BY <1>a, <1>b DEF Descends
  <2>2. \A n \in L : \A m \in D[n] : D[m] \subseteq D[n] /\ (m # n => P2[m] \in D[n])
    BY <1>a, <1>b DEF Descends
  <2> QED  BY <1>a, <2>1, <2>2 DEF Descends
<1>4. Rooted(L, P2, R, D)
  BY <1>a, <1>b DEF Rooted
<1>5. Sorted(L, C2, R, D, rk2)
  <2>0. \A n \in Ref : D[n] # {} => n = None \/ n \in Index
    OBVIOUS
  <2>1. ASSUME NEW n \in L, NEW i \in Side, NEW m \in D[C2[n][i]]
        PROVE  Before(i, rk2[m], rk2[n])
    <3>1. m \in D[C[n][i]] /\ m \in D[n]
      BY <2>1, <1>a, <1>b DEF Descends
    <3>2. m \in L
      BY <3>1, <1>a DEF Descends
    <3> QED  BY <3>1, <3>2, <1>a, <1>b DEF Sorted
  <2>2. ASSUME NEW t \in Trees, NEW n \in D[R[t]], NEW m \in D[R[t]], NEW x \in D[n], NEW y \in D[n],
               rk2[x] < rk2[m], rk2[m] < rk2[y]
        PROVE  m \in D[n]
    <3>1. R[t] \in L
      BY <1>a DEF Rooted, Descends
    <3>2. n \in L /\ m \in L
      BY <3>1, <1>a DEF Descends
    <3>3. x \in L /\ y \in L
      BY <3>2, <1>a DEF Descends
    <3> QED  BY <3>2, <3>3, <2>2, <1>a, <1>b DEF Sorted
  <2> QED  BY <2>1, <2>2 DEF Sorted
<1> QED  BY <1>1, <1>2, <1>3, <1>4, <1>5 DEF Shape

(* Nothing that Thread looks at differs on T.                              *)
SameThread(T, O, rg, rk, O2, rg2, rk2) ==
  /\ \A m \in T, i \in Side : O2[m][i] = O[m][i]
  /\ \A m \in T : rk2[m] = rk[m]
  /\ \A i \in Side : rg2[i] = rg[i]

(* Thread looks at nothing but the thread of T, its range and its ranks.   *)
LEMMA ThreadSame ==
  ASSUME NEW T, NEW O, NEW rg, NEW rk, Thread(T, O, rg, rk),
         NEW O2, NEW rg2, NEW rk2, SameThread(T, O, rg, rk, O2, rg2, rk2)
  PROVE  Thread(T, O2, rg2, rk2)
<1> USE DEF SameThread
<1>1. \A x, y \in T : rk2[x] = rk2[y] => x = y
  BY DEF Thread
<1>2. \A n, m \in T, i \in Side : O2[n][i] = None => ~Before(i, rk2[m], rk2[n])
  BY DEF Thread
<1>3. \A n \in T, i \in Side :
        O2[n][i] # None => O2[n][i] \in T /\ Before(i, rk2[O2[n][i]], rk2[n])
  BY DEF Thread
<1>4. \A n, m \in T, i \in Side :
        O2[n][i] # None /\ Before(i, rk2[m], rk2[n]) => ~Before(i, rk2[O2[n][i]], rk2[m])
  BY <1>3 DEF Thread
<1>5. \A i \in Side : (T = {} => rg2[i] = None) /\ (T # {} => rg2[i] \in T /\ O2[rg2[i]][i] = None)
  BY DEF Thread
<1> QED  BY <1>1, <1>2, <1>3, <1>4, <1>5 DEF Thread

=============================================================================
