---------------------------- MODULE ForestHands -----------------------------
(***************************************************************************)
(* The inductive invariant of a forest, and the steps of a call on whole   *)
(* trees that change no tree: they move handles and nodes from hand to     *)
(* hand, from the frame on top and the last result to new frames and a new *)
(* result.                                                                 *)
(*                                                                         *)
(* The nodes in the hands of the call hang nowhere, so to the trees their  *)
(* slots are as good as free.  S is the forest of RBTree without them: a   *)
(* step of Forest is a step of S, or one of the few kinds for which        *)
(* RBTreeJoins shows that the laws are kept.                               *)
(***************************************************************************)
EXTENDS ForestLaws, RBTreeJoins

(* The keys, for those who see only what hangs in a tree.                  *)
HungKey == [n \in Index |-> IF n \in Loose THEN None ELSE key[n]]
S == INSTANCE RBTreeJoins WITH key <- HungKey

USE DEF Side, Ref, S!Side, S!Ref

-----------------------------------------------------------------------------
(* S has the parameters of the forest.                                     *)
LEMMA SameParams == S!IsFiniteSet(Index) /\ None \notin S!Call
BY IndexAssumption, CallAssumption DEF IsFiniteSet, S!IsFiniteSet, Call, S!Call, Op, S!Op

(* S is well typed when the forest is, and the other way round if its keys *)
(* are.                                                                    *)
LEMMA ShadowType == (TypeOK => S!TypeOK) /\ (TypeOK' => S!TypeOK')
<1>1. TypeOK => S!TypeOK
  BY DEF S!TypeOK, TypeOK, S!Color, Color, S!PC, PC, S!Call, Call, S!Op, Op,
         S!SearchResult, SearchResult, S!InsertStep, InsertStep, S!RemoveStep, RemoveStep,
         S!FixRemoveStep, FixRemoveStep, HungKey
<1>2. TypeOK' => S!TypeOK'
  BY DEF S!TypeOK, TypeOK, S!Color, Color, S!PC, PC, S!Call, Call, S!Op, Op,
         S!SearchResult, SearchResult, S!InsertStep, InsertStep, S!RemoveStep, RemoveStep,
         S!FixRemoveStep, FixRemoveStep, HungKey
<1> QED  BY <1>1, <1>2

LEMMA ShadowTyped ==
  /\ S!TypeOK /\ key \in [Index -> Keys \cup {None}] => TypeOK
  /\ S!TypeOK' /\ key' \in [Index -> Keys \cup {None}] => TypeOK'
<1>1. S!TypeOK /\ key \in [Index -> Keys \cup {None}] => TypeOK
  BY DEF S!TypeOK, TypeOK, S!Color, Color, S!PC, PC, S!Call, Call, S!Op, Op,
         S!SearchResult, SearchResult, S!InsertStep, InsertStep, S!RemoveStep, RemoveStep,
         S!FixRemoveStep, FixRemoveStep
<1>2. S!TypeOK' /\ key' \in [Index -> Keys \cup {None}] => TypeOK'
  BY DEF S!TypeOK, TypeOK, S!Color, Color, S!PC, PC, S!Call, Call, S!Op, Op,
         S!SearchResult, SearchResult, S!InsertStep, InsertStep, S!RemoveStep, RemoveStep,
         S!FixRemoveStep, FixRemoveStep
<1> QED  BY <1>1, <1>2

(* The slots in use, without those in hand.                                *)
LEMMA ShadowLive == S!Live = Live \ Loose /\ S!Live' = Live' \ Loose'
BY DEF S!Live, Live, HungKey

-----------------------------------------------------------------------------
(* The inductive invariant.                                                *)

(* join_unchecked goes down the end of the higher tree that meets the      *)
(* lower one, and below it are so many black nodes more than in that.      *)
Passing(D, h, a, b, i, n, at, k, diff) ==
  S!JoinPlace(D, a, b, i, n, at, k) /\ diff \in Nat /\ h[at] = h[root[b]] + diff
GoingDown(D, h) ==
  Inside("descend") =>
    Passing(D, h, Top.this, Top.that, Top.side, Top.node, Top.index, key[Top.node], Top.diff)

TreeLaw(D, rk, h) == S!Laws(D, rk) /\ S!BalanceLaws(h) /\ GoingDown(D, h)
TreeLawsHold ==
  \E D \in [Ref -> SUBSET Index], rk \in [Index -> Int], h \in [Ref -> Nat] : TreeLaw(D, rk, h)

(* The free slots are blank, and no two nodes in hand hang on each other.  *)
SlotLaws == FreeSlotsBlank /\ NoCycle(Loose, parent)

(* w[3] is true as long as no value was overwritten or merged in its place. *)
Tended(w) == w[3] => S!WayLaws

ForestInv(w) == TypeOK /\ HandLaws(w) /\ SlotLaws /\ TreeLawsHold /\ Tended(w)

-----------------------------------------------------------------------------
(* What RBTreeJoins and the modules below it prove, of S.                  *)

(* A step of RBTree.                                                       *)
LEMMA NextKeeps ==
  ASSUME TypeOK, TypeOK', NEW D \in [Ref -> SUBSET Index], NEW rk \in [Index -> Int],
         S!Laws(D, rk), NEW h \in [Ref -> Nat], S!BalanceLaws(h), [S!Next]_S!vars
  PROVE  /\ S!Spared
         /\ \E E \in [Ref -> SUBSET Index], s \in [Index -> Int] : S!Laws(E, s)'
         /\ \E g \in [Ref -> Nat] : S!BalanceLaws(g)'
<1>1. S!TypeOK /\ S!TypeOK'
  BY ShadowType
<1>2. \E E \in [Ref -> SUBSET Index], s \in [Index -> Int] : S!Laws(E, s)'
  BY <1>1, S!StepLaws, SameParams, KeysAssumption, NoneAssumption, ValuesAssumption, CumulantAssumption
<1>3. \E g \in [Ref -> Nat] : S!BalanceLaws(g)'
  BY <1>1, S!StepBalance, SameParams, KeysAssumption, NoneAssumption, ValuesAssumption, CumulantAssumption
<1>4. S!Spared
  BY <1>1, S!StepSpared, SameParams, KeysAssumption, NoneAssumption, ValuesAssumption, CumulantAssumption
<1> QED  BY <1>2, <1>3, <1>4

(* insert_at of a node that was in hand.                                   *)
LEMMA HangKeeps ==
  ASSUME TypeOK, TypeOK', NEW D \in [Ref -> SUBSET Index], NEW rk \in [Index -> Int],
         S!Laws(D, rk), NEW h \in [Ref -> Nat], S!BalanceLaws(h),
         NEW n \in Index \ S!Live, S!HangAny(n)
  PROVE  /\ S!Spared
         /\ \E E \in [Ref -> SUBSET Index], s \in [Index -> Int] : S!Laws(E, s)'
         /\ \E g \in [Ref -> Nat] : S!BalanceLaws(g)'
<1>1. S!TypeOK /\ S!TypeOK'
  BY ShadowType
<1>2. S!Spared /\ \E E \in [Ref -> SUBSET Index], s \in [Index -> Int] : S!Laws(E, s)'
  BY <1>1, S!HangAnyLaws, SameParams, KeysAssumption, NoneAssumption, ValuesAssumption, CumulantAssumption
<1>3. \E g \in [Ref -> Nat] : S!BalanceLaws(g)'
  BY <1>1, S!HangAnyBalance, SameParams, KeysAssumption, NoneAssumption, ValuesAssumption, CumulantAssumption
<1> QED  BY <1>2, <1>3

(* remove_node ends with the node in hand.                                 *)
LEMMA FreeKeeps ==
  ASSUME TypeOK, TypeOK', NEW D \in [Ref -> SUBSET Index], NEW rk \in [Index -> Int],
         S!Laws(D, rk), NEW h \in [Ref -> Nat], S!BalanceLaws(h), S!FreeAny
  PROVE  S!Laws(D, rk)' /\ S!BalanceLaws(h)'
<1>1. S!TypeOK /\ S!TypeOK'
  BY ShadowType
<1>2. S!Laws(D, rk)'
  BY <1>1, S!FreeLaws, SameParams, KeysAssumption, NoneAssumption, ValuesAssumption, CumulantAssumption
<1>3. S!BalanceLaws(h)'
  BY <1>1, S!FreeBalance, SameParams, KeysAssumption, NoneAssumption, ValuesAssumption, CumulantAssumption
<1> QED  BY <1>2, <1>3

(* Trees that are gone.                                                    *)
LEMMA GoneKeeps ==
  ASSUME TypeOK, TypeOK', NEW D \in [Ref -> SUBSET Index], NEW rk \in [Index -> Int],
         S!Laws(D, rk), NEW h \in [Ref -> Nat], S!BalanceLaws(h),
         NEW T \in SUBSET Trees, S!Gone(D, T)
  PROVE  S!Laws(D, rk)' /\ S!BalanceLaws(h)'
<1>1. S!TypeOK /\ S!TypeOK'
  BY ShadowType
<1>2. S!Laws(D, rk)'
  BY <1>1, S!GoneLaws, SameParams, KeysAssumption, NoneAssumption, ValuesAssumption, CumulantAssumption
<1>3. S!BalanceLaws(h)'
  BY <1>1, S!GoneBalance, SameParams, KeysAssumption, NoneAssumption, ValuesAssumption, CumulantAssumption
<1> QED  BY <1>2, <1>3

(* join_unchecked.                                                         *)
LEMMA AttachKeeps ==
  ASSUME TypeOK, TypeOK', NEW D \in [Ref -> SUBSET Index], NEW rk \in [Index -> Int],
         S!Laws(D, rk), NEW h \in [Ref -> Nat], S!BalanceLaws(h),
         NEW w, NEW o, NEW i, NEW n, NEW at, NEW k, NEW v, S!Attaching(D, w, o, i, n, at, k, v),
         ~S!IsRed(at), h[at] = h[root[o]]
  PROVE  /\ S!Spared
         /\ \E E \in [Ref -> SUBSET Index], s \in [Index -> Int] : S!Laws(E, s)'
         /\ \E g \in [Ref -> Nat] : S!BalanceLaws(g)'
<1>1. S!TypeOK /\ S!TypeOK'
  BY ShadowType
<1>2. S!Spared /\ \E E \in [Ref -> SUBSET Index], s \in [Index -> Int] : S!Laws(E, s)'
  BY <1>1, S!AttachingLaws, SameParams, KeysAssumption, NoneAssumption, ValuesAssumption, CumulantAssumption
<1>3. \E g \in [Ref -> Nat] : S!BalanceLaws(g)'
  BY <1>1, S!AttachingBalance, SameParams, KeysAssumption, NoneAssumption, ValuesAssumption, CumulantAssumption
<1> QED  BY <1>2, <1>3

(* split_at_root.                                                          *)
LEMMA HalvingKeeps ==
  ASSUME TypeOK, TypeOK', NEW D \in [Ref -> SUBSET Index], NEW rk \in [Index -> Int],
         S!Laws(D, rk), NEW h \in [Ref -> Nat], S!BalanceLaws(h),
         NEW t \in Trees, NEW r \in Trees, NEW m, S!Halving(t, r, m)
  PROVE  S!Spared /\ S!Laws(D, rk)' /\ \E g \in [Ref -> Nat] : S!BalanceLaws(g)'
<1>1. S!TypeOK /\ S!TypeOK'
  BY ShadowType
<1>2. S!Spared /\ S!Laws(D, rk)'
  BY <1>1, S!HalvingLaws, SameParams, KeysAssumption, NoneAssumption, ValuesAssumption, CumulantAssumption
<1>3. \E g \in [Ref -> Nat] : S!BalanceLaws(g)'
  BY <1>1, S!HalvingBalance, SameParams, KeysAssumption, NoneAssumption, ValuesAssumption, CumulantAssumption
<1> QED  BY <1>2, <1>3

(* The cumulants, in each case.                                            *)
LEMMA NextTends ==
  ASSUME TypeOK, TypeOK', NEW D \in [Ref -> SUBSET Index], NEW rk \in [Index -> Int],
         S!Laws(D, rk), S!WayLaws,
         NEW h \in [Ref -> Nat], S!BalanceLaws(h), S!Next, ~S!InsertHere
  PROVE  S!WayLaws'
BY ShadowType, S!StepWay, SameParams, KeysAssumption, NoneAssumption, ValuesAssumption, CumulantAssumption

LEMMA HangTends ==
  ASSUME TypeOK, TypeOK', NEW D \in [Ref -> SUBSET Index], NEW rk \in [Index -> Int],
         S!Laws(D, rk), S!WayLaws,
         NEW n \in Index \ S!Live, S!HangAny(n)
  PROVE  S!WayLaws'
BY ShadowType, S!HangAnyWay, SameParams, KeysAssumption, NoneAssumption, ValuesAssumption, CumulantAssumption

LEMMA FreeTends ==
  ASSUME TypeOK, TypeOK', NEW D \in [Ref -> SUBSET Index], NEW rk \in [Index -> Int],
         S!Laws(D, rk), S!WayLaws,
         S!FreeAny
  PROVE  S!WayLaws'
BY ShadowType, S!FreeWay, SameParams, KeysAssumption, NoneAssumption, ValuesAssumption, CumulantAssumption

LEMMA GoneTends ==
  ASSUME TypeOK, TypeOK', NEW D \in [Ref -> SUBSET Index], NEW rk \in [Index -> Int],
         S!Laws(D, rk), S!WayLaws,
         NEW X \in SUBSET Trees, S!Gone(D, X), \A n \in S!Live' : val'[n] = val[n] /\ cum'[n] = cum[n]
  PROVE  S!WayLaws'
BY ShadowType, S!GoneWay, SameParams, KeysAssumption, NoneAssumption, ValuesAssumption, CumulantAssumption

LEMMA AttachTends ==
  ASSUME TypeOK, TypeOK', NEW D \in [Ref -> SUBSET Index], NEW rk \in [Index -> Int],
         S!Laws(D, rk), S!WayLaws,
         NEW w, NEW o, NEW i, NEW n, NEW at, NEW k, NEW v, S!Attaching(D, w, o, i, n, at, k, v),
         UNCHANGED <<val, cum>>
  PROVE  S!WayLaws'
BY ShadowType, S!AttachingWay, SameParams, KeysAssumption, NoneAssumption, ValuesAssumption, CumulantAssumption

LEMMA HalvingTends ==
  ASSUME TypeOK, TypeOK', NEW D \in [Ref -> SUBSET Index], NEW rk \in [Index -> Int],
         S!Laws(D, rk), S!WayLaws,
         NEW t \in Trees, NEW r \in Trees, NEW m, S!Halving(t, r, m), UNCHANGED <<val, cum>>
  PROVE  S!WayLaws'
BY ShadowType, S!HalvingWay, SameParams, KeysAssumption, NoneAssumption, ValuesAssumption, CumulantAssumption

-----------------------------------------------------------------------------
(* The frames, one kind after the other: the types of their fields, ...    *)
LEMMA FrameFields ==
  ASSUME NEW w, NEW f \in FrameType(w)
  PROVE  /\ f.at \in Inserting2 =>
              f.this \in Trees /\ f.node \in Index /\ f.or \in {"value_mut", "undefined"}
         /\ f.at \in Removal => f.this \in Trees /\ f.node = None /\ f.target \in Index
         /\ f.at = "split_node" => f.this \in Trees /\ f.node = None /\ f.key \in Keys
         /\ f.at = "descend" =>
              /\ f.this \in Trees /\ f.node \in Index /\ f.that \in Trees
              /\ f.side \in Side /\ f.index \in Index /\ f.diff \in Int
         /\ f.at = "value_mut" => f.this \in Trees /\ f.node = None /\ f.that = None
         /\ f.at \in {"union_disjoint", "union_merge", "join_removed"} =>
              f.this \in Trees /\ f.that \in Trees /\ f.this # f.that /\ f.node = None
         /\ f.at \in {"join", "merge_root", "merge_right"} =>
              f.this \in Trees /\ f.that \in Trees /\ f.this # f.that /\ f.node \in Index
         /\ f.at \in {"rejoin_left", "merge_join"} => f.this \in Trees /\ f.node \in Index /\ f.that = None
         /\ f.at = "split_right" => f.this \in Trees /\ f.node \in Ref /\ f.that = None
         /\ f.at = "rejoin_right" => f.this = None /\ f.node \in Index /\ f.that \in Trees
         /\ f.at = "split_left" => f.this = None /\ f.node \in Ref /\ f.that \in Trees
         /\ f.at \in Done => f.node = None
         /\ f.at \in Inserting2 \cup Removal \cup {"split_node", "descend", "value_mut", "union_disjoint",
                     "union_merge", "join_removed", "join"} \cup Waiting
<1>1. CASE f \in Working
  BY <1>1 DEF Working, Inserting2, Removal, Done, Waiting, AskTree, AskSplit, AskNode
<1>2. CASE f \in TwoTrees /\ f.this # f.that
  BY <1>2 DEF TwoTrees, Inserting2, Removal, Done, Waiting, AskTree, AskSplit, AskNode
<1>3. CASE f \in OneTree
  BY <1>3 DEF OneTree, Inserting2, Removal, Done, Waiting, AskTree, AskSplit, AskNode
<1>4. CASE f \in [at : Done, node : {None}, name : {w[1]}, was : {w[2]}]
  BY <1>4 DEF Inserting2, Removal, Done, Waiting, AskTree, AskSplit, AskNode
<1> QED  BY <1>1, <1>2, <1>3, <1>4 DEF FrameType

(* ... and what each has in its hands.                                     *)
LEMMA FrameHands ==
  ASSUME NEW w, NEW f \in FrameType(w)
  PROVE  /\ Handles(f) \subseteq Trees /\ InHand(f) \subseteq Index
         /\ f.at \in Inserting2 => Handles(f) = {} /\ InHand(f) = {f.node}
         /\ f.at \in Removal \cup Done \cup {"value_mut"} => Handles(f) = {} /\ InHand(f) = {}
         /\ f.at = "split_node" => Handles(f) = {f.this} /\ InHand(f) = {}
         /\ f.at = "descend" => Handles(f) = {f.that} /\ InHand(f) = {f.node}
         /\ f.at \in {"union_disjoint", "union_merge", "join_removed"} =>
              Handles(f) = {f.this, f.that} /\ InHand(f) = {}
         /\ f.at \in {"join", "merge_root", "merge_right"} =>
              Handles(f) = {f.this, f.that} /\ InHand(f) = {f.node}
         /\ f.at \in {"rejoin_left", "merge_join"} => Handles(f) = {f.this} /\ InHand(f) = {f.node}
         /\ f.at = "split_right" => Handles(f) = {f.this} /\ InHand(f) = {f.node} \ {None}
         /\ f.at = "rejoin_right" => Handles(f) = {f.that} /\ InHand(f) = {f.node}
         /\ f.at = "split_left" => Handles(f) = {f.that} /\ InHand(f) = {f.node} \ {None}
<1>1. None \notin Trees /\ None \notin Index
  BY NoneAssumption
<1> QED  BY <1>1, FrameFields DEF Handles, InHand, Inserting2, Removal, Done, Waiting, AskTree, AskSplit, AskNode

(* The frames that the steps make are frames.                              *)
LEMMA FramesMade ==
  ASSUME NEW w, NEW a \in Trees
  PROVE  /\ \A n \in Index, x \in {"value_mut", "undefined"} : InsertNode(a, n, x) \in FrameType(w)
         /\ \A n \in Index : RemoveNode(a, n) \in FrameType(w)
         /\ \A k \in Keys : SplitNode(a, k) \in FrameType(w)
         /\ Frame("value_mut", a, None, None) \in FrameType(w)
         /\ \A b \in Trees : a # b =>
              /\ \A x \in {"union_disjoint", "union_merge", "join_removed"} : Frame(x, a, None, b) \in FrameType(w)
              /\ \A n \in Index, x \in {"join", "merge_root", "merge_right"} : Frame(x, a, n, b) \in FrameType(w)
         /\ \A n \in Index, x \in {"rejoin_left", "merge_join"} : Frame(x, a, n, None) \in FrameType(w)
         /\ \A n \in Ref : Frame("split_right", a, n, None) \in FrameType(w)
         /\ \A n \in Index : Frame("rejoin_right", None, n, a) \in FrameType(w)
         /\ \A n \in Ref : Frame("split_left", None, n, a) \in FrameType(w)
<1>1. /\ \A n \in Index, x \in {"value_mut", "undefined"} : InsertNode(a, n, x) \in Working
      /\ \A n \in Index : RemoveNode(a, n) \in Working
      /\ \A k \in Keys : SplitNode(a, k) \in Working
      /\ Frame("value_mut", a, None, None) \in Working
  BY DEF InsertNode, RemoveNode, SplitNode, Frame, Working, Inserting2, Removal
<1>2. ASSUME NEW b \in Trees, a # b
      PROVE  /\ \A x \in {"union_disjoint", "union_merge", "join_removed"} :
                  Frame(x, a, None, b) \in TwoTrees /\ Frame(x, a, None, b).this # Frame(x, a, None, b).that
             /\ \A n \in Index, x \in {"join", "merge_root", "merge_right"} :
                  Frame(x, a, n, b) \in TwoTrees /\ Frame(x, a, n, b).this # Frame(x, a, n, b).that
  BY <1>2 DEF Frame, TwoTrees
<1>3. /\ \A n \in Index, x \in {"rejoin_left", "merge_join"} : Frame(x, a, n, None) \in OneTree
      /\ \A n \in Ref : Frame("split_right", a, n, None) \in OneTree
      /\ \A n \in Index : Frame("rejoin_right", None, n, a) \in OneTree
      /\ \A n \in Ref : Frame("split_left", None, n, a) \in OneTree
  BY DEF Frame, OneTree
<1> QED  BY <1>1, <1>2, <1>3 DEF FrameType

-----------------------------------------------------------------------------
(* The stack.                                                              *)

(* The frames that go on, and those that wait.                             *)
LEMMA StackIs ==
  ASSUME NEW w, stack \in Seq(FrameType(w)), stack # <<>>, NEW fs \in Seq(FrameType(w)), Continue(fs)
  PROVE  /\ Len(fs) \in Nat /\ Len(stack) \in Nat /\ Len(stack) >= 1
         /\ stack' \in Seq(FrameType(w)) /\ Len(stack') = Len(fs) + Len(stack) - 1
         /\ \A d \in 1 .. Len(fs) : stack'[d] = fs[d]
         /\ \A d \in 2 .. Len(stack) : stack'[Len(fs) + d - 1] = stack[d]
         /\ \A d \in 1 .. Len(stack') : d > Len(fs) =>
              d - Len(fs) + 1 \in 2 .. Len(stack) /\ stack'[d] = stack[d - Len(fs) + 1]
         /\ Top \in FrameType(w)
<1>1. Tail(stack) \in Seq(FrameType(w)) /\ Len(Tail(stack)) = Len(stack) - 1 /\ Len(stack) \in Nat /\ Len(stack) >= 1
  OBVIOUS
<1>2. \A d \in 1 .. Len(stack) - 1 : Tail(stack)[d] = stack[d + 1]
  OBVIOUS
<1>3. stack' = fs \o Tail(stack)
  BY DEF Continue
<1>4. stack' \in Seq(FrameType(w)) /\ Len(stack') = Len(fs) + Len(stack) - 1 /\ Len(fs) \in Nat
  BY <1>1, <1>3
<1>5. \A d \in 1 .. Len(stack') : stack'[d] = IF d <= Len(fs) THEN fs[d] ELSE Tail(stack)[d - Len(fs)]
  BY <1>1, <1>3, <1>4
<1>6. \A d \in 1 .. Len(fs) : stack'[d] = fs[d]
  BY <1>1, <1>4, <1>5
<1>7. \A d \in 1 .. Len(stack') : d > Len(fs) =>
        d - Len(fs) + 1 \in 2 .. Len(stack) /\ stack'[d] = stack[d - Len(fs) + 1]
  <2> SUFFICES ASSUME NEW d \in 1 .. Len(stack'), d > Len(fs)
               PROVE  d - Len(fs) + 1 \in 2 .. Len(stack) /\ stack'[d] = stack[d - Len(fs) + 1]
    OBVIOUS
  <2>1. d - Len(fs) + 1 \in 2 .. Len(stack) /\ d - Len(fs) \in 1 .. Len(stack) - 1 /\ ~(d <= Len(fs))
    BY <1>1, <1>4
  <2>2. stack'[d] = Tail(stack)[d - Len(fs)]
    BY <1>5, <2>1
  <2> QED  BY <1>2, <2>1, <2>2
<1>8. \A d \in 2 .. Len(stack) : stack'[Len(fs) + d - 1] = stack[d]
  <2> TAKE d \in 2 .. Len(stack)
  <2>1. Len(fs) + d - 1 \in 1 .. Len(stack') /\ Len(fs) + d - 1 > Len(fs) /\ (Len(fs) + d - 1) - Len(fs) + 1 = d
    BY <1>1, <1>4
  <2> QED  BY <1>7, <2>1
<1>9. Top \in FrameType(w)
  BY <1>1 DEF Top
<1> QED  BY <1>1, <1>4, <1>6, <1>7, <1>8, <1>9

(* What the step has to deal out: what the frame on top and the last       *)
(* result held, and what nobody held.                                      *)
HeldTop == Handles(Top) \cup BackHandles
NodesTop == InHand(Top) \cup BackNode
Dealt(f) ==
  /\ Handles(f) \subseteq trees' /\ Handles(f) \subseteq HeldTop \cup (Trees \ trees)
  /\ InHand(f) \subseteq NodesTop \cup (Index \ Loose)
  /\ Handles(f) \cap BackHandles' = {} /\ InHand(f) \cap BackNode' = {}
BackDealt ==
  /\ BackHandles' \subseteq HeldTop \cup (Trees \ trees)
  /\ BackNode' \subseteq NodesTop \cup (Index \ Loose)
  /\ trees \ HeldTop \subseteq trees'
NoneTwice(f, g) == Handles(f) \cap Handles(g) = {} /\ InHand(f) \cap InHand(g) = {}

(* The nodes in hand are those of the frames and of the last result.       *)
LEMMA LooseIs ==
  ASSUME NEW w, StackLaws(w)
  PROVE  /\ \A n : n \in Loose <=> n \in BackNode \/ \E d \in 1 .. Len(stack) : n \in InHand(stack[d])
         /\ \A d \in 1 .. Len(stack) : Handles(stack[d]) \subseteq trees /\ InHand(stack[d]) \subseteq Loose
         /\ BackNode \subseteq Loose
<1>1. DOMAIN stack = 1 .. Len(stack)
  BY DEF StackLaws
<1>2. \A n : n \in Loose <=> n \in BackNode \/ \E d \in 1 .. Len(stack) : n \in InHand(stack[d])
  BY <1>1 DEF Loose, Frames, BackNode, InHand
<1> QED  BY <1>2 DEF StackLaws

(* The same after the step.                                                *)
LEMMA LooseWillBe ==
  ASSUME NEW w, stack' \in Seq(FrameType(w))
  PROVE  \A n : n \in Loose' <=> n \in BackNode' \/ \E d \in 1 .. Len(stack') : n \in InHand(stack'[d])
<1>1. DOMAIN stack' = 1 .. Len(stack')
  OBVIOUS
<1> QED  BY <1>1 DEF Loose, Frames, BackNode, InHand

(* A frame ends and deals out what it had.                                 *)
LEMMA StackStep ==
  ASSUME NEW w, StackLaws(w), stack # <<>>, Top.at \notin Done,
         NEW fs \in Seq(FrameType(w)), Continue(fs), BackDealt,
         \A d \in 1 .. Len(fs) : Dealt(fs[d]),
         \A d, e \in 1 .. Len(fs) : d # e => NoneTwice(fs[d], fs[e]),
         \A d \in 1 .. Len(fs) - 1 : Fits(fs[d], fs[d + 1]),
         Len(fs) > 0 => Fits(fs[Len(fs)], stack[2])
  PROVE  /\ StackLaws(w)' /\ Len(stack) >= 2 /\ Fits(Top, stack[2])
         /\ stack' # <<>> /\ Top' = IF Len(fs) = 0 THEN stack[2] ELSE fs[1]
         /\ \A n : n \in Loose' <=>
              \/ n \in Loose \ NodesTop
              \/ n \in BackNode' \/ \E d \in 1 .. Len(fs) : n \in InHand(fs[d])
<1>1. /\ stack \in Seq(FrameType(w)) /\ stack[Len(stack)].at \in Done
      /\ \A d \in 1 .. Len(stack) - 1 : Fits(stack[d], stack[d + 1])
      /\ \A d, e \in 1 .. Len(stack) : d # e => NoneTwice(stack[d], stack[e])
      /\ \A d \in 1 .. Len(stack) :
           /\ Handles(stack[d]) \subseteq trees
           /\ Handles(stack[d]) \cap BackHandles = {} /\ InHand(stack[d]) \cap BackNode = {}
  BY DEF StackLaws, NoneTwice
<1>2. /\ Len(fs) \in Nat /\ Len(stack) \in Nat /\ Len(stack) >= 1
      /\ stack' \in Seq(FrameType(w)) /\ Len(stack') = Len(fs) + Len(stack) - 1
      /\ \A d \in 1 .. Len(fs) : stack'[d] = fs[d]
      /\ \A d \in 2 .. Len(stack) : stack'[Len(fs) + d - 1] = stack[d]
      /\ \A d \in 1 .. Len(stack') : d > Len(fs) =>
           d - Len(fs) + 1 \in 2 .. Len(stack) /\ stack'[d] = stack[d - Len(fs) + 1]
  BY <1>1, StackIs
<1>3. Len(stack) >= 2
  BY <1>1, <1>2 DEF Top
<1>4. Fits(Top, stack[2])
  BY <1>1, <1>2, <1>3 DEF Top
<1>5. stack' # <<>> /\ Top' = IF Len(fs) = 0 THEN stack[2] ELSE fs[1]
  <2>1. stack' # <<>> /\ 1 \in 1 .. Len(stack') /\ Top' = stack'[1]
    BY <1>2, <1>3 DEF Top
  <2>2. CASE Len(fs) = 0
    BY <1>2, <1>3, <2>1, <2>2
  <2>3. CASE Len(fs) # 0
    BY <1>2, <2>1, <2>3
  <2> QED  BY <2>2, <2>3
<1>6. stack'[Len(stack')].at \in Done
  <2>1. Len(fs) + Len(stack) - 1 = Len(stack')
    BY <1>2
  <2> QED  BY <1>1, <1>2, <1>3, <2>1
<1>7. ASSUME NEW d \in 1 .. Len(stack') - 1 PROVE Fits(stack'[d], stack'[d + 1])
  <2>0. d \in 1 .. Len(stack') /\ d + 1 \in 1 .. Len(stack')
    BY <1>2
  <2>1. CASE d < Len(fs)
    BY <1>2, <2>0, <2>1
  <2>2. CASE d = Len(fs)
    <3>1. stack'[d] = fs[d] /\ stack'[d + 1] = stack[(d + 1) - Len(fs) + 1] /\ (d + 1) - Len(fs) + 1 = 2
      BY <1>2, <2>0, <2>2
    <3> QED  BY <2>2, <3>1, <1>2
  <2>3. CASE d > Len(fs)
    <3>1. /\ stack'[d] = stack[d - Len(fs) + 1] /\ stack'[d + 1] = stack[(d + 1) - Len(fs) + 1]
          /\ (d + 1) - Len(fs) + 1 = (d - Len(fs) + 1) + 1 /\ d - Len(fs) + 1 \in 1 .. Len(stack) - 1
      BY <1>2, <2>0, <2>3
    <3> QED  BY <3>1, <1>1
  <2> QED  BY <1>2, <2>1, <2>2, <2>3
<1>8. \A d \in 1 .. Len(stack) : InHand(stack[d]) \subseteq Loose
  BY LooseIs
<1>9. ASSUME NEW d \in 2 .. Len(stack)
      PROVE  /\ Handles(stack[d]) \subseteq trees /\ Handles(stack[d]) \cap HeldTop = {}
             /\ InHand(stack[d]) \subseteq Loose /\ InHand(stack[d]) \cap NodesTop = {}
  <2>1. d \in 1 .. Len(stack) /\ 1 \in 1 .. Len(stack) /\ d # 1
    BY <1>2
  <2>2. NoneTwice(stack[d], stack[1])
    BY <1>1, <2>1
  <2>3. /\ Handles(stack[d]) \subseteq trees /\ Handles(stack[d]) \cap BackHandles = {}
        /\ InHand(stack[d]) \subseteq Loose /\ InHand(stack[d]) \cap BackNode = {}
    BY <1>1, <1>8, <2>1
  <2> QED  BY <2>2, <2>3 DEF HeldTop, NodesTop, Top, NoneTwice
<1>10. ASSUME NEW d \in 2 .. Len(stack)
       PROVE  /\ Handles(stack[d]) \subseteq trees'
              /\ Handles(stack[d]) \cap BackHandles' = {} /\ InHand(stack[d]) \cap BackNode' = {}
              /\ \A e \in 1 .. Len(fs) : NoneTwice(stack[d], fs[e]) /\ NoneTwice(fs[e], stack[d])
  BY <1>9 DEF BackDealt, Dealt, NoneTwice
<1>11. ASSUME NEW d \in 1 .. Len(stack'), NEW e \in 1 .. Len(stack'), d # e
       PROVE  NoneTwice(stack'[d], stack'[e])
  <2>1. CASE d <= Len(fs) /\ e <= Len(fs)
    BY <1>2, <1>11, <2>1
  <2>2. CASE d <= Len(fs) /\ e > Len(fs)
    <3>1. /\ e - Len(fs) + 1 \in 2 .. Len(stack) /\ d \in 1 .. Len(fs)
          /\ stack'[d] = fs[d] /\ stack'[e] = stack[e - Len(fs) + 1]
      BY <1>2, <2>2
    <3>2. NoneTwice(fs[d], stack[e - Len(fs) + 1])
      BY <1>10, <3>1
    <3> QED  BY <3>1, <3>2
  <2>3. CASE d > Len(fs) /\ e <= Len(fs)
    <3>1. /\ d - Len(fs) + 1 \in 2 .. Len(stack) /\ e \in 1 .. Len(fs)
          /\ stack'[e] = fs[e] /\ stack'[d] = stack[d - Len(fs) + 1]
      BY <1>2, <2>3
    <3>2. NoneTwice(stack[d - Len(fs) + 1], fs[e])
      BY <1>10, <3>1
    <3> QED  BY <3>1, <3>2
  <2>4. CASE d > Len(fs) /\ e > Len(fs)
    <3>1. /\ stack'[d] = stack[d - Len(fs) + 1] /\ stack'[e] = stack[e - Len(fs) + 1]
          /\ d - Len(fs) + 1 # e - Len(fs) + 1
          /\ d - Len(fs) + 1 \in 1 .. Len(stack) /\ e - Len(fs) + 1 \in 1 .. Len(stack)
      BY <1>2, <1>11, <2>4
    <3> QED  BY <3>1, <1>1
  <2> QED  BY <1>2, <2>1, <2>2, <2>3, <2>4
<1>12. ASSUME NEW d \in 1 .. Len(stack')
       PROVE  /\ Handles(stack'[d]) \subseteq trees'
              /\ Handles(stack'[d]) \cap BackHandles' = {} /\ InHand(stack'[d]) \cap BackNode' = {}
  <2>1. CASE d <= Len(fs)
    BY <1>2, <2>1 DEF Dealt
  <2>2. CASE d > Len(fs)
    BY <1>2, <1>10, <2>2
  <2> QED  BY <1>2, <2>1, <2>2
<1>13. StackLaws(w)'
  BY <1>2, <1>6, <1>7, <1>11, <1>12 DEF StackLaws, NoneTwice, Handles, InHand
<1>14. ASSUME NEW n
       PROVE  n \in Loose \ NodesTop <=> \E d \in 2 .. Len(stack) : n \in InHand(stack[d])
  <2>1. n \in Loose <=> n \in BackNode \/ \E d \in 1 .. Len(stack) : n \in InHand(stack[d])
    BY LooseIs
  <2>2. \A d \in 1 .. Len(stack) : d = 1 \/ d \in 2 .. Len(stack)
    BY <1>2
  <2> QED  BY <1>9, <2>1, <2>2 DEF NodesTop, Top
<1>15. ASSUME NEW n
       PROVE  n \in Loose' <=> \/ n \in Loose \ NodesTop
                               \/ n \in BackNode' \/ \E d \in 1 .. Len(fs) : n \in InHand(fs[d])
  <2>1. n \in Loose' <=> n \in BackNode' \/ \E d \in 1 .. Len(stack') : n \in InHand(stack'[d])
    BY <1>2, LooseWillBe
  <2>2. ASSUME NEW d \in 1 .. Len(stack'), n \in InHand(stack'[d])
        PROVE  (\E e \in 2 .. Len(stack) : n \in InHand(stack[e])) \/ (\E e \in 1 .. Len(fs) : n \in InHand(fs[e]))
    BY <1>2, <2>2
  <2>3. ASSUME NEW e \in 2 .. Len(stack), n \in InHand(stack[e])
        PROVE  \E d \in 1 .. Len(stack') : n \in InHand(stack'[d])
    <3>1. Len(fs) + e - 1 \in 1 .. Len(stack')
      BY <1>2
    <3> QED  BY <1>2, <2>3, <3>1
  <2>4. ASSUME NEW e \in 1 .. Len(fs), n \in InHand(fs[e])
        PROVE  \E d \in 1 .. Len(stack') : n \in InHand(stack'[d])
    <3>1. e \in 1 .. Len(stack')
      BY <1>2
    <3> QED  BY <1>2, <2>4, <3>1
  <2> QED  BY <1>14, <2>1, <2>2, <2>3, <2>4
<1> QED  BY <1>3, <1>4, <1>5, <1>13, <1>15

(* A frame that is not the call itself has one below it that waits for it. *)
LEMMA WaitsBelow ==
  ASSUME NEW w, StackLaws(w), stack # <<>>, Top.at \notin Done
  PROVE  /\ Len(stack) >= 2 /\ Fits(Top, stack[2]) /\ stack[2] \in FrameType(w) /\ Top \in FrameType(w)
         /\ stack[2].at \in Waiting
<1>1. /\ stack \in Seq(FrameType(w)) /\ stack[Len(stack)].at \in Done
      /\ \A d \in 1 .. Len(stack) - 1 : Fits(stack[d], stack[d + 1])
  BY DEF StackLaws
<1>2. Len(stack) \in Nat /\ Len(stack) >= 1
  BY <1>1
<1>3. Len(stack) >= 2
  BY <1>1, <1>2 DEF Top
<1>4. Fits(Top, stack[2]) /\ stack[2] \in FrameType(w) /\ Top \in FrameType(w)
  BY <1>1, <1>2, <1>3 DEF Top
<1> QED  BY <1>3, <1>4 DEF Fits, Waiting, AskNode

(* The last frame: it holds nothing.                                       *)
LEMMA LastFrame ==
  ASSUME NEW w, StackLaws(w), stack # <<>>, Top.at \in Done
  PROVE  Len(stack) = 1 /\ Top \in FrameType(w) /\ Loose = BackNode
<1>1. /\ stack \in Seq(FrameType(w))
      /\ \A d \in 1 .. Len(stack) - 1 : Fits(stack[d], stack[d + 1])
  BY DEF StackLaws
<1>2. Len(stack) \in Nat /\ Len(stack) >= 1 /\ Top \in FrameType(w)
  BY <1>1 DEF Top
<1>3. Len(stack) = 1
  <2>1. ASSUME Len(stack) > 1 PROVE FALSE
    <3>1. 1 \in 1 .. Len(stack) - 1
      BY <1>2, <2>1
    <3>2. Fits(stack[1], stack[1 + 1])
      BY <1>1, <3>1
    <3> QED  BY <3>2 DEF Top, Fits
  <2>2. Len(stack) = 1 \/ Len(stack) > 1
    BY <1>2
  <2> QED  BY <2>1, <2>2
<1>4. InHand(Top) = {}
  BY <1>2, FrameHands
<1>5. \A n : n \in Loose <=> n \in BackNode \/ \E d \in 1 .. Len(stack) : n \in InHand(stack[d])
  BY LooseIs
<1>6. \A n : n \in Loose <=> n \in BackNode
  BY <1>3, <1>4, <1>5 DEF Top
<1>7. Loose \subseteq BackNode /\ BackNode \subseteq Loose
  BY <1>6
<1> QED  BY <1>2, <1>3, <1>7

(* The frame on top ends, ...                                              *)
LEMMA StackPop ==
  ASSUME NEW w, StackLaws(w), stack # <<>>, Top.at \notin Done, Continue(<<>>), BackDealt
  PROVE  /\ StackLaws(w)' /\ stack' # <<>> /\ Top' = stack[2]
         /\ Loose' = (Loose \ NodesTop) \cup BackNode'
<1> DEFINE fs == <<>>
<1>1. fs \in Seq(FrameType(w)) /\ Len(fs) = 0
  OBVIOUS
<1>2. /\ StackLaws(w)' /\ stack' # <<>> /\ Top' = stack[2]
      /\ \A n : n \in Loose' <=>
           \/ n \in Loose \ NodesTop
           \/ n \in BackNode' \/ \E d \in 1 .. Len(fs) : n \in InHand(fs[d])
  <2> HIDE DEF fs
  <2>1. /\ \A d \in 1 .. Len(fs) : Dealt(fs[d])
        /\ \A d, e \in 1 .. Len(fs) : d # e => NoneTwice(fs[d], fs[e])
        /\ \A d \in 1 .. Len(fs) - 1 : Fits(fs[d], fs[d + 1])
        /\ Len(fs) > 0 => Fits(fs[Len(fs)], stack[2])
    BY <1>1
  <2>2. Continue(fs)
    BY DEF fs
  <2> QED  BY <1>1, <2>1, <2>2, StackStep
<1>3. \A n : n \in Loose' <=> n \in Loose \ NodesTop \/ n \in BackNode'
  BY <1>1, <1>2
<1> QED  BY <1>2, <1>3

(* ... gives way to another, ...                                           *)
LEMMA StackSwap ==
  ASSUME NEW w, StackLaws(w), stack # <<>>, Top.at \notin Done,
         NEW f \in FrameType(w), Continue(<<f>>), BackDealt, Dealt(f), Fits(f, stack[2])
  PROVE  /\ StackLaws(w)' /\ stack' # <<>> /\ Top' = f /\ stack'[2] = stack[2]
         /\ Loose' = (Loose \ NodesTop) \cup BackNode' \cup InHand(f)
<1> DEFINE fs == <<f>>
<1>1. fs \in Seq(FrameType(w)) /\ Len(fs) = 1 /\ fs[1] = f
  OBVIOUS
<1>2. /\ StackLaws(w)' /\ stack' # <<>> /\ Top' = fs[1]
      /\ \A n : n \in Loose' <=>
           \/ n \in Loose \ NodesTop
           \/ n \in BackNode' \/ \E d \in 1 .. Len(fs) : n \in InHand(fs[d])
  <2> HIDE DEF fs
  <2>1. /\ \A d \in 1 .. Len(fs) : Dealt(fs[d])
        /\ \A d, e \in 1 .. Len(fs) : d # e => NoneTwice(fs[d], fs[e])
        /\ \A d \in 1 .. Len(fs) - 1 : Fits(fs[d], fs[d + 1])
        /\ Len(fs) > 0 => Fits(fs[Len(fs)], stack[2])
    BY <1>1
  <2>2. Continue(fs)
    BY DEF fs
  <2> QED  BY <1>1, <2>1, <2>2, StackStep
<1>3. \A n : n \in Loose' <=> n \in Loose \ NodesTop \/ n \in BackNode' \/ n \in InHand(f)
  BY <1>1, <1>2
<1>4. stack'[2] = stack[2]
  <2>1. Len(stack) >= 2 /\ stack \in Seq(FrameType(w))
    BY WaitsBelow DEF StackLaws
  <2>2. \A d \in 2 .. Len(stack) : stack'[Len(fs) + d - 1] = stack[d]
    BY <1>1, <2>1, StackIs
  <2> QED  BY <1>1, <2>1, <2>2
<1>5. Loose' = (Loose \ NodesTop) \cup BackNode' \cup InHand(f)
  BY <1>3
<1> QED  BY <1>1, <1>2, <1>4, <1>5

(* ... or calls another, and waits for it as a third.                      *)
LEMMA StackPush ==
  ASSUME NEW w, StackLaws(w), stack # <<>>, Top.at \notin Done,
         NEW f \in FrameType(w), NEW g \in FrameType(w), Continue(<<f, g>>), BackDealt,
         Dealt(f), Dealt(g), NoneTwice(f, g), Fits(f, g), Fits(g, stack[2])
  PROVE  /\ StackLaws(w)' /\ stack' # <<>> /\ Top' = f /\ stack'[2] = g
         /\ Loose' = (Loose \ NodesTop) \cup BackNode' \cup InHand(f) \cup InHand(g)
<1> DEFINE fs == <<f, g>>
<1>1. fs \in Seq(FrameType(w)) /\ Len(fs) = 2 /\ fs[1] = f /\ fs[2] = g
  OBVIOUS
<1>2. /\ StackLaws(w)' /\ stack' # <<>> /\ Top' = fs[1]
      /\ \A n : n \in Loose' <=>
           \/ n \in Loose \ NodesTop
           \/ n \in BackNode' \/ \E d \in 1 .. Len(fs) : n \in InHand(fs[d])
  <2> HIDE DEF fs
  <2>0. \A d \in 1 .. Len(fs) : d = 1 \/ d = 2
    BY <1>1
  <2>1. /\ \A d \in 1 .. Len(fs) : Dealt(fs[d])
        /\ \A d, e \in 1 .. Len(fs) : d # e => NoneTwice(fs[d], fs[e])
    BY <1>1, <2>0 DEF NoneTwice
  <2>2. Continue(fs)
    BY DEF fs
  <2>3. /\ \A d \in 1 .. Len(fs) - 1 : Fits(fs[d], fs[d + 1])
        /\ Len(fs) > 0 => Fits(fs[Len(fs)], stack[2])
    BY <1>1
  <2>4. fs \in Seq(FrameType(w))
    BY <1>1
  <2>5. /\ StackLaws(w)' /\ stack' # <<>> /\ Top' = IF Len(fs) = 0 THEN stack[2] ELSE fs[1]
        /\ \A n : n \in Loose' <=>
             \/ n \in Loose \ NodesTop
             \/ n \in BackNode' \/ \E d \in 1 .. Len(fs) : n \in InHand(fs[d])
    BY <2>1, <2>2, <2>3, <2>4, StackStep
  <2> QED  BY <1>1, <2>5
<1>3. \A n : n \in Loose' <=> n \in Loose \ NodesTop \/ n \in BackNode' \/ n \in InHand(f) \/ n \in InHand(g)
  <2>1. \A d \in 1 .. Len(fs) : d = 1 \/ d = 2
    BY <1>1
  <2>2. 1 \in 1 .. Len(fs) /\ 2 \in 1 .. Len(fs)
    BY <1>1
  <2> HIDE DEF fs
  <2> QED  BY <1>1, <1>2, <2>1, <2>2
<1>4. stack'[2] = g
  <2>1. stack \in Seq(FrameType(w))
    BY DEF StackLaws
  <2>2. \A d \in 1 .. Len(fs) : stack'[d] = fs[d]
    BY <1>1, <2>1, StackIs
  <2> QED  BY <1>1, <2>2
<1>5. Loose' = (Loose \ NodesTop) \cup BackNode' \cup InHand(f) \cup InHand(g)
  BY <1>3
<1> QED  BY <1>1, <1>2, <1>4, <1>5

-----------------------------------------------------------------------------
(* A step that only moves handles and nodes from hand to hand.             *)
LEMMA IdleShadow ==
  ASSUME TypeOK, NEW D \in [Ref -> SUBSET Index], NEW rk \in [Index -> Int], S!Laws(D, rk), pc = "idle"
  PROVE  call = None /\ S!Hung = S!Live /\ S!Quiet
BY DEF S!Laws, S!CallLaws, S!Hung, S!Limbo, S!Unlinked, S!Quiet

LEMMA StillGone ==
  ASSUME TypeOK, NEW D \in [Ref -> SUBSET Index], NEW rk \in [Index -> Int], S!Laws(D, rk), pc = "idle",
         UNCHANGED vars, Loose' = Loose
  PROVE  S!Gone(D, {})
<1>1. call = None /\ S!Quiet
  BY IdleShadow
<1>2. HungKey' = HungKey /\ S!Live' = S!Live
  BY DEF HungKey, S!Live, vars
<1>3. \A n \in S!Live' : n \in Index
  BY DEF S!Live
<1> QED  BY <1>1, <1>2, <1>3 DEF S!Gone, vars

LEMMA StillStep ==
  ASSUME NEW w, ForestInv(w), pc = "idle", UNCHANGED vars, Loose' = Loose,
         NEW u, HandLaws(u)', u[3] => w[3],
         \A D \in [Ref -> SUBSET Index], rk \in [Index -> Int], h \in [Ref -> Nat] :
           TreeLaw(D, rk, h) => GoingDown(D, h)'
  PROVE  ForestInv(u)'
<1>1. TypeOK /\ TypeOK'
  BY DEF ForestInv, TypeOK, vars
<1>2. SlotLaws'
  BY DEF ForestInv, SlotLaws, FreeSlotsBlank, NoCycle, Live, vars
<1>3. PICK D \in [Ref -> SUBSET Index], rk \in [Index -> Int], h \in [Ref -> Nat] : TreeLaw(D, rk, h)
  BY DEF ForestInv, TreeLawsHold
<1>4. S!Laws(D, rk) /\ S!BalanceLaws(h)
  BY <1>3 DEF TreeLaw
<1>5. S!Gone(D, {})
  BY <1>1, <1>4, StillGone
<1>6. S!Laws(D, rk)' /\ S!BalanceLaws(h)'
  BY <1>1, <1>4, <1>5, GoneKeeps
<1>7. GoingDown(D, h)'
  BY <1>3
<1>8. TreeLaw(D, rk, h)'
  BY <1>6, <1>7 DEF TreeLaw
<1>9. TreeLawsHold'
  BY <1>8 DEF TreeLawsHold
<1>10. Tended(u)'
  <2>1. HungKey' = HungKey
    BY DEF HungKey, vars
  <2>2. UNCHANGED S!vars
    <3> HIDE DEF HungKey
    <3> QED  BY <2>1 DEF vars, S!vars
  <2>3. S!WayLaws => S!WayLaws'
    BY <2>2, S!StutterWay, SameParams, KeysAssumption, NoneAssumption, ValuesAssumption, CumulantAssumption
  <2> QED  BY <2>3 DEF ForestInv, Tended
<1> QED  BY <1>1, <1>2, <1>9, <1>10 DEF ForestInv

(* What the rest of the hand laws is after such a step.                    *)
LEMMA StillRegisters ==
  ASSUME RegisterLaws, pc = "idle", call = None, UNCHANGED vars, Loose' = Loose,
         trees \subseteq trees', trees' \subseteq Trees,
         stack' # <<>> => Top'.at # "link_node",
         stack' # <<>> /\ Top'.at = "remove_node" => \E i \in Side : Top'.target = range[Top'.this][i]
  PROVE  RegisterLaws'
<1>1. Live' = Live /\ pc' = "idle" /\ call' = None /\ root' = root /\ range' = range
  BY DEF Live, vars
<1>2. /\ trees' \subseteq Trees /\ Loose' \subseteq Live'
      /\ \A t \in Trees \ trees' : root'[t] = None /\ range'[t] = NoLinks
  BY <1>1 DEF RegisterLaws
<1> QED  BY <1>1, <1>2 DEF RegisterLaws

(* A new handle is one that is not in use.                                 *)
LEMMA NewHandle ==
  ASSUME trees \subseteq Trees, trees # Trees
  PROVE  NewTree \in Trees /\ NewTree \notin trees
BY DEF NewTree

(* What is known where a call on whole trees goes on.                      *)
LEMMA AtIs ==
  ASSUME NEW w, ForestInv(w), NEW where, At(where)
  PROVE  /\ TypeOK /\ StackLaws(w) /\ BackLaws /\ RegisterLaws
         /\ pc = "idle" /\ call = None /\ stack # <<>> /\ Top.at = where /\ Top \in FrameType(w)
         /\ None \notin Trees /\ None \notin Index /\ trees \subseteq Trees
<1>1. TypeOK /\ StackLaws(w) /\ BackLaws /\ RegisterLaws /\ pc = "idle" /\ stack # <<>> /\ Top.at = where
  BY DEF ForestInv, HandLaws, At
<1>2. PICK D \in [Ref -> SUBSET Index], rk \in [Index -> Int], h \in [Ref -> Nat] : TreeLaw(D, rk, h)
  BY DEF ForestInv, TreeLawsHold
<1>3. call = None
  BY <1>1, <1>2, IdleShadow DEF TreeLaw
<1>4. Top \in FrameType(w)
  BY <1>1 DEF StackLaws, Top
<1> QED  BY <1>1, <1>3, <1>4, NoneAssumption DEF RegisterLaws
-----------------------------------------------------------------------------
(* What such steps have to know.                                           *)

(* The ends of a tree hang in it, and only an empty tree has none.         *)
LEMMA EndsIs ==
  ASSUME NEW w, ForestInv(w), pc = "idle", NEW t \in Trees
  PROVE  /\ \A i \in Side : range[t][i] = None <=> root[t] = None
         /\ \A i \in Side : range[t][i] # None => range[t][i] \in Live \ Loose
         /\ IsEmpty(t) <=> root[t] = None
         /\ root[t] # None => root[t] \in Live \ Loose
<1>1. PICK D \in [Ref -> SUBSET Index], rk \in [Index -> Int], h \in [Ref -> Nat] : TreeLaw(D, rk, h)
  BY DEF ForestInv, TreeLawsHold
<1>2. S!TypeOK /\ TypeOK /\ S!Laws(D, rk)
  BY <1>1, ShadowType DEF TreeLaw, ForestInv
<1>3. /\ S!Hung = S!Live /\ S!Live = Live \ Loose /\ None \notin Index
  BY <1>2, IdleShadow, ShadowLive, NoneAssumption
<1>4. \A i \in Side : (range[t][i] = None => root[t] = None) /\ (range[t][i] # None => range[t][i] \in D[root[t]])
  BY <1>2, S!RangeEnds, SameParams, KeysAssumption, NoneAssumption, ValuesAssumption, CumulantAssumption
<1>5. S!Shape(S!Hung, parent, child, root, D, rk)
  BY <1>2 DEF S!Laws, S!LinkLaws
<1>6. D[None] = {} /\ (root[t] # None => root[t] \in S!Live /\ D[root[t]] \subseteq S!Live)
  BY <1>3, <1>5 DEF S!Shape, S!Descends, S!Rooted
<1>7. \A i \in Side : (range[t][i] = None <=> root[t] = None) /\ (range[t][i] # None => range[t][i] \in Live \ Loose)
  BY <1>3, <1>4, <1>6
<1>8. IsEmpty(t) <=> range[t][0] = None /\ range[t][1] = None
  BY <1>2 DEF IsEmpty, NoLinks, TypeOK
<1> QED  BY <1>3, <1>6, <1>7, <1>8

(* What the frame on top holds.                                            *)
LEMMA TopHeld ==
  ASSUME NEW w, StackLaws(w), stack # <<>>
  PROVE  /\ Handles(Top) \subseteq trees /\ Handles(Top) \cap BackHandles = {}
         /\ InHand(Top) \subseteq Loose /\ InHand(Top) \cap BackNode = {} /\ BackHandles \cup {} = BackHandles
<1>1. 1 \in 1 .. Len(stack)
  BY DEF StackLaws
<1> QED  BY <1>1, LooseIs DEF StackLaws, Top

(* Most leave nothing for the registers to agree with.                     *)
LEMMA StillHands ==
  ASSUME NEW w, ForestInv(w), pc = "idle", call = None, UNCHANGED vars, Loose' = Loose,
         StackLaws(w)', stack' # <<>>, BackLaws', trees \subseteq trees', trees' \subseteq Trees,
         Top'.at \notin {"link_node", "remove_node", "descend"}
  PROVE  ForestInv(w)'
<1>1. RegisterLaws
  BY DEF ForestInv, HandLaws
<1>2. RegisterLaws'
  BY <1>1, StillRegisters
<1>3. HandLaws(w)'
  BY <1>2 DEF HandLaws
<1>4. \A D \in [Ref -> SUBSET Index], rk \in [Index -> Int], h \in [Ref -> Nat] :
        TreeLaw(D, rk, h) => GoingDown(D, h)'
  BY DEF GoingDown, Inside
<1> QED  BY <1>3, <1>4, StillStep

-----------------------------------------------------------------------------
(* Those steps, one by one.                                                *)
LEMMA UnionDisjointKeeps == ASSUME NEW w, ForestInv(w), UnionDisjoint PROVE ForestInv(w)'
<1>1. /\ TypeOK /\ StackLaws(w) /\ BackLaws /\ RegisterLaws
      /\ pc = "idle" /\ call = None /\ stack # <<>> /\ Top.at = "union_disjoint" /\ Top \in FrameType(w)
      /\ None \notin Trees /\ None \notin Index /\ trees \subseteq Trees
  BY AtIs DEF UnionDisjoint, NeitherSmall
<1>2. /\ Top.this \in Trees /\ Top.that \in Trees /\ Top.this # Top.that
      /\ Handles(Top) = {Top.this, Top.that} /\ InHand(Top) = {}
  BY <1>1, FrameFields, FrameHands
<1>3. Top.at \notin Done \cup AskTree \cup AskSplit \cup AskNode \cup Removal /\ stack[2].at = "union_done"
  <2>1. Top.at \notin Done \cup AskTree \cup AskSplit \cup AskNode \cup Removal
    BY <1>1 DEF Done, AskTree, AskSplit, AskNode, Removal
  <2> QED  BY <1>1, <2>1, WaitsBelow DEF Fits
<1>4. back = NoBack
  BY <1>1 DEF BackLaws
<1>5. PICK i \in Side : Continue(<<RemoveNode(Top.this, range[Top.this][i]), Frame("join_removed", Top.this, None, Top.that)>>)
  BY DEF UnionDisjoint
<1>6. range[Top.this][i] \in Index
  <2>1. root[Top.this] # None
    BY <1>1, <1>2, EndsIs DEF UnionDisjoint, NeitherSmall, IsSmall
  <2> QED  BY <1>1, <1>2, <2>1, EndsIs DEF Live
<1> DEFINE f == RemoveNode(Top.this, range[Top.this][i])
           g == Frame("join_removed", Top.this, None, Top.that)
<1>7. f \in FrameType(w) /\ g \in FrameType(w)
  BY <1>2, <1>6, FramesMade
<1>8. /\ f.at = "remove_node" /\ f.this = Top.this /\ f.target = range[Top.this][i]
      /\ g.at = "join_removed" /\ g.this = Top.this
  BY DEF RemoveNode, Frame
<1>9. Handles(f) = {} /\ InHand(f) = {} /\ Handles(g) = Handles(Top) /\ InHand(g) = {}
  <2>1. g.that = Top.that
    BY DEF Frame
  <2> HIDE DEF f, g
  <2>2. f.at \in Removal
    BY <1>8 DEF Removal
  <2>3. Handles(f) = {} /\ InHand(f) = {}
    BY <1>7, <2>2, FrameHands
  <2>4. Handles(g) = {g.this, g.that} /\ InHand(g) = {}
    BY <1>7, <1>8, FrameHands
  <2> QED  BY <1>2, <1>8, <2>1, <2>3, <2>4
<1>10. Continue(<<f, g>>)
  BY <1>5
<1> HIDE DEF f, g
<1>11. UNCHANGED <<vars, trees, back, answer>>
  BY DEF UnionDisjoint
<1>12. BackHandles = {} /\ BackNode = {} /\ BackHandles' = {} /\ BackNode' = {} /\ back' = NoBack
  BY <1>4, <1>11 DEF BackHandles, BackNode, NoBack
<1>13. Dealt(f) /\ Dealt(g) /\ NoneTwice(f, g) /\ BackDealt
  BY <1>1, <1>9, <1>11, <1>12, TopHeld DEF Dealt, NoneTwice, BackDealt, HeldTop
<1>14. Fits(f, g) /\ Fits(g, stack[2])
  BY <1>3, <1>8 DEF Fits, Done, Removal, Splitting, AskNode, AskTree
<1>15. /\ StackLaws(w)' /\ stack' # <<>> /\ Top' = f /\ stack'[2] = g
       /\ Loose' = (Loose \ NodesTop) \cup BackNode' \cup InHand(f) \cup InHand(g)
  BY <1>1, <1>3, <1>7, <1>10, <1>13, <1>14, StackPush
<1>16. Loose' = Loose
  BY <1>2, <1>9, <1>12, <1>15 DEF NodesTop
<1>17. BackLaws'
  <2>1. Top.this \in trees'
    BY <1>1, <1>2, <1>11, TopHeld
  <2>2. Top'.at = "remove_node" /\ Top'.this \in trees' /\ stack'[2].at = "join_removed" /\ stack' # <<>>
    BY <2>1, <1>8, <1>15
  <2> QED  BY <2>2, <1>12 DEF BackLaws, Inserting2, Removal, AskTree, AskSplit, AskNode
<1>18. RegisterLaws'
  <2>1. Top'.at = "remove_node" /\ Top'.target = range[Top'.this][i]
    BY <1>8, <1>15
  <2> QED  BY <1>1, <1>11, <1>16, <2>1, StillRegisters
<1>19. HandLaws(w)'
  BY <1>15, <1>17, <1>18 DEF HandLaws
<1>20. Top'.at # "descend"
  BY <1>8, <1>15
<1>21. \A D \in [Ref -> SUBSET Index], rk \in [Index -> Int], h \in [Ref -> Nat] :
         TreeLaw(D, rk, h) => GoingDown(D, h)'
  BY <1>20 DEF GoingDown, Inside
<1> QED  BY <1>1, <1>11, <1>16, <1>19, <1>21, StillStep

LEMMA JoinRemovedKeeps == ASSUME NEW w, ForestInv(w), JoinRemoved PROVE ForestInv(w)'
<1>1. /\ TypeOK /\ StackLaws(w) /\ BackLaws /\ RegisterLaws
      /\ pc = "idle" /\ call = None /\ stack # <<>> /\ Top.at = "join_removed" /\ Top \in FrameType(w)
      /\ None \notin Trees /\ None \notin Index /\ trees \subseteq Trees
  BY AtIs DEF JoinRemoved
<1>2. /\ Top.this \in Trees /\ Top.that \in Trees /\ Top.this # Top.that
      /\ Handles(Top) = {Top.this, Top.that} /\ InHand(Top) = {}
  BY <1>1, FrameFields, FrameHands
<1>3. Top.at \notin Done /\ stack[2].at \in AskTree
  <2>1. Top.at \notin Done /\ Top.at \notin Removal \cup Splitting
    BY <1>1 DEF Done, Removal, Splitting
  <2> QED  BY <1>1, <2>1, WaitsBelow DEF Fits
<1>4. PICK n \in Index : back = <<None, n, None>>
  BY <1>1 DEF BackLaws, AskNode, NodeBack
<1> DEFINE f == Frame("join", Top.this, n, Top.that)
<1>5. f \in FrameType(w)
  BY <1>2, FramesMade
<1>6. f.at = "join" /\ f.this = Top.this /\ f.that = Top.that /\ f.node = n
  BY DEF Frame
<1>7. Continue(<<f>>)
  BY <1>4 DEF JoinRemoved
<1> HIDE DEF f
<1>8. UNCHANGED <<vars, trees, answer>> /\ back' = NoBack
  BY DEF JoinRemoved
<1>9. BackHandles = {} /\ BackNode = {n} /\ BackHandles' = {} /\ BackNode' = {}
  BY <1>1, <1>4, <1>8 DEF BackHandles, BackNode, NoBack
<1>10. Handles(f) = Handles(Top) /\ InHand(f) = {n}
  BY <1>2, <1>5, <1>6, FrameHands
<1>11. Dealt(f) /\ BackDealt
  BY <1>1, <1>8, <1>9, <1>10, TopHeld DEF Dealt, BackDealt, HeldTop, NodesTop
<1>12. Fits(f, stack[2])
  BY <1>3, <1>6 DEF Fits, Done, Removal, Splitting
<1>13. /\ StackLaws(w)' /\ stack' # <<>> /\ Top' = f
       /\ Loose' = (Loose \ NodesTop) \cup BackNode' \cup InHand(f)
  BY <1>1, <1>3, <1>5, <1>7, <1>11, <1>12, StackSwap
<1>14. Loose' = Loose
  BY <1>1, <1>2, <1>9, <1>10, <1>13, LooseIs DEF NodesTop
<1>15. BackLaws'
  BY <1>6, <1>8, <1>13 DEF BackLaws, Inserting2, Removal, AskTree, AskSplit, AskNode
<1> QED  BY <1>1, <1>6, <1>8, <1>13, <1>14, <1>15, StillHands

LEMMA RejoinKeeps == ASSUME NEW w, ForestInv(w), Rejoin PROVE ForestInv(w)'
<1>0. PICK where \in {"rejoin_right", "rejoin_left"} : At(where)
  BY DEF Rejoin
<1>1. /\ TypeOK /\ StackLaws(w) /\ BackLaws /\ RegisterLaws
      /\ pc = "idle" /\ call = None /\ stack # <<>> /\ Top.at = where /\ Top \in FrameType(w)
      /\ None \notin Trees /\ None \notin Index /\ trees \subseteq Trees
  BY <1>0, AtIs
<1>2. PICK a \in trees, b \in trees, n \in Ref : a # b /\ back = <<a, n, b>>
  BY <1>1 DEF BackLaws, AskSplit, SplitBack
<1>3. Top.at \notin Done /\ stack[2].at \in AskSplit
  <2>1. Top.at \notin Done /\ Top.at \in Splitting
    BY <1>1 DEF Done, Splitting
  <2> QED  BY <1>1, <2>1, WaitsBelow DEF Fits
<1>4. UNCHANGED <<vars, trees, answer>> /\ back' = NoBack
  BY DEF Rejoin
<1>5. BackHandles = {a, b} /\ BackNode = {n} \ {None} /\ BackHandles' = {} /\ BackNode' = {}
  BY <1>1, <1>2, <1>4 DEF BackHandles, BackNode, NoBack
<1>6. /\ Handles(Top) \subseteq trees /\ Handles(Top) \cap {a, b} = {}
      /\ InHand(Top) \subseteq Loose /\ InHand(Top) \cap BackNode = {} /\ BackNode \subseteq Loose
  BY <1>1, <1>5, TopHeld, LooseIs
<1>7. PICK f \in FrameType(w), g \in FrameType(w) :
        /\ Continue(<<f, g>>) /\ f.at = "join" /\ g.at \in {"split_right", "split_left"}
        /\ Handles(f) \subseteq Handles(Top) \cup {a, b} /\ Handles(g) \subseteq {a, b}
        /\ Handles(f) \cap Handles(g) = {} /\ InHand(f) = InHand(Top) /\ InHand(g) = BackNode
  <2>1. CASE where = "rejoin_right"
    <3> DEFINE f == Frame("join", b, Top.node, Top.that)
               g == Frame("split_right", a, n, None)
    <3>1. Top.node \in Index /\ Top.that \in Trees /\ Handles(Top) = {Top.that} /\ InHand(Top) = {Top.node}
      BY <1>1, <2>1, FrameFields, FrameHands
    <3>2. f \in FrameType(w) /\ g \in FrameType(w)
      BY <1>1, <1>2, <1>6, <3>1, FramesMade
    <3>3. f.at = "join" /\ f.this = b /\ f.node = Top.node /\ f.that = Top.that
      BY DEF Frame
    <3>4. g.at = "split_right" /\ g.this = a /\ g.node = n
      BY DEF Frame
    <3>5. Continue(<<f, g>>)
      BY <1>1, <1>2, <2>1 DEF Rejoin, At
    <3> HIDE DEF f, g
    <3>6. Handles(f) = {b, Top.that} /\ InHand(f) = {Top.node}
      BY <3>2, <3>3, FrameHands
    <3>7. Handles(g) = {a} /\ InHand(g) = BackNode
      BY <1>5, <3>2, <3>4, FrameHands
    <3>8. Top.that # a
      BY <1>6, <3>1
    <3> QED  BY <1>2, <3>1, <3>2, <3>3, <3>4, <3>5, <3>6, <3>7, <3>8
  <2>2. CASE where = "rejoin_left"
    <3> DEFINE f == Frame("join", Top.this, Top.node, a)
               g == Frame("split_left", None, n, b)
    <3>1. Top.node \in Index /\ Top.this \in Trees /\ Handles(Top) = {Top.this} /\ InHand(Top) = {Top.node}
      BY <1>1, <2>2, FrameFields, FrameHands
    <3>2. f \in FrameType(w) /\ g \in FrameType(w)
      BY <1>1, <1>2, <1>6, <3>1, FramesMade
    <3>3. f.at = "join" /\ f.this = Top.this /\ f.node = Top.node /\ f.that = a
      BY DEF Frame
    <3>4. g.at = "split_left" /\ g.that = b /\ g.node = n
      BY DEF Frame
    <3>5. Continue(<<f, g>>)
      BY <1>1, <1>2, <2>2 DEF Rejoin, At
    <3> HIDE DEF f, g
    <3>6. Handles(f) = {a, Top.this} /\ InHand(f) = {Top.node}
      BY <3>2, <3>3, FrameHands
    <3>7. Handles(g) = {b} /\ InHand(g) = BackNode
      BY <1>5, <3>2, <3>4, FrameHands
    <3>8. Top.this # b
      BY <1>6, <3>1
    <3> QED  BY <1>2, <3>1, <3>2, <3>3, <3>4, <3>5, <3>6, <3>7, <3>8
  <2> QED  BY <2>1, <2>2
<1>8. Dealt(f) /\ Dealt(g) /\ NoneTwice(f, g) /\ BackDealt
  BY <1>1, <1>4, <1>5, <1>6, <1>7 DEF Dealt, NoneTwice, BackDealt, HeldTop, NodesTop
<1>9. Fits(f, g) /\ Fits(g, stack[2])
  BY <1>3, <1>7 DEF Fits, Done, Removal, Splitting, AskTree
<1>10. /\ StackLaws(w)' /\ stack' # <<>> /\ Top' = f
       /\ Loose' = (Loose \ NodesTop) \cup BackNode' \cup InHand(f) \cup InHand(g)
  BY <1>1, <1>3, <1>7, <1>8, <1>9, StackPush
<1>11. Loose' = Loose
  BY <1>5, <1>6, <1>7, <1>10 DEF NodesTop
<1>12. BackLaws'
  BY <1>4, <1>7, <1>10 DEF BackLaws, Inserting2, Removal, AskTree, AskSplit, AskNode
<1> QED  BY <1>1, <1>4, <1>7, <1>10, <1>11, <1>12, StillHands

LEMMA SplitNodeDoneKeeps == ASSUME NEW w, ForestInv(w), SplitNodeDone PROVE ForestInv(w)'
<1>0. PICK where \in {"split_right", "split_left"} : At(where)
  BY DEF SplitNodeDone
<1>1. /\ TypeOK /\ StackLaws(w) /\ BackLaws /\ RegisterLaws
      /\ pc = "idle" /\ call = None /\ stack # <<>> /\ Top.at = where /\ Top \in FrameType(w)
      /\ None \notin Trees /\ None \notin Index /\ trees \subseteq Trees
  BY <1>0, AtIs
<1>2. PICK t \in trees : back = <<t, None, None>>
  BY <1>1 DEF BackLaws, AskTree, TreeBack
<1>3. Top.at \notin Done /\ stack[2].at \in AskSplit
  <2>1. Top.at \notin Done /\ Top.at \in Splitting
    BY <1>1 DEF Done, Splitting
  <2> QED  BY <1>1, <2>1, WaitsBelow DEF Fits
<1>4. UNCHANGED <<vars, trees, answer>> /\ Continue(<<>>)
  BY DEF SplitNodeDone
<1>5. BackHandles = {t} /\ BackNode = {}
  BY <1>1, <1>2 DEF BackHandles, BackNode
<1>6. Handles(Top) \subseteq trees /\ t \notin Handles(Top) /\ InHand(Top) \subseteq Loose
  BY <1>1, <1>5, TopHeld
<1>7. PICK a \in trees, b \in trees, n \in Ref :
        /\ a # b /\ back' = <<a, n, b>> /\ {a, b} = Handles(Top) \cup {t} /\ {n} \ {None} = InHand(Top)
  <2>1. CASE where = "split_right"
    <3>1. Top.this \in Trees /\ Handles(Top) = {Top.this} /\ InHand(Top) = {Top.node} \ {None} /\ Top.node \in Ref
      BY <1>1, <2>1, FrameFields, FrameHands
    <3>2. back' = <<Top.this, Top.node, t>>
      BY <1>1, <1>2, <2>1 DEF SplitNodeDone, At
    <3> QED  BY <1>6, <3>1, <3>2
  <2>2. CASE where = "split_left"
    <3>1. Top.that \in Trees /\ Handles(Top) = {Top.that} /\ InHand(Top) = {Top.node} \ {None} /\ Top.node \in Ref
      BY <1>1, <2>2, FrameFields, FrameHands
    <3>2. back' = <<t, Top.node, Top.that>>
      BY <1>1, <1>2, <2>2 DEF SplitNodeDone, At
    <3> QED  BY <1>6, <3>1, <3>2
  <2> QED  BY <2>1, <2>2
<1>8. BackHandles' = {a, b} /\ BackNode' = InHand(Top)
  BY <1>1, <1>7 DEF BackHandles, BackNode
<1>9. BackDealt
  BY <1>4, <1>5, <1>6, <1>7, <1>8 DEF BackDealt, HeldTop, NodesTop
<1>10. /\ StackLaws(w)' /\ stack' # <<>> /\ Top' = stack[2]
       /\ Loose' = (Loose \ NodesTop) \cup BackNode'
  BY <1>1, <1>3, <1>4, <1>9, StackPop
<1>11. Loose' = Loose
  BY <1>5, <1>6, <1>8, <1>10 DEF NodesTop
<1>12. SplitBack'
  BY <1>4, <1>7 DEF SplitBack
<1>13. BackLaws'
  <2>1. stack' # <<>> /\ Top'.at \in AskSplit
    BY <1>3, <1>10
  <2> QED  BY <1>12, <2>1 DEF BackLaws, Inserting2, Removal, AskTree, AskSplit, AskNode
<1>14. Top'.at \notin {"link_node", "remove_node", "descend"}
  BY <1>3, <1>10 DEF AskSplit
<1> QED  BY <1>1, <1>4, <1>10, <1>11, <1>13, <1>14, StillHands

LEMMA MergeRightKeeps == ASSUME NEW w, ForestInv(w), MergeRight PROVE ForestInv(w)'
<1>1. /\ TypeOK /\ StackLaws(w) /\ BackLaws /\ RegisterLaws
      /\ pc = "idle" /\ call = None /\ stack # <<>> /\ Top.at = "merge_right" /\ Top \in FrameType(w)
      /\ None \notin Trees /\ None \notin Index /\ trees \subseteq Trees
  BY AtIs DEF MergeRight
<1>2. /\ Top.this \in Trees /\ Top.that \in Trees /\ Top.this # Top.that /\ Top.node \in Index
      /\ Handles(Top) = {Top.this, Top.that} /\ InHand(Top) = {Top.node}
  BY <1>1, FrameFields, FrameHands
<1>3. Top.at \notin Done /\ stack[2].at \in AskTree
  <2>1. Top.at \notin Done /\ Top.at \notin Removal \cup Splitting
    BY <1>1 DEF Done, Removal, Splitting
  <2> QED  BY <1>1, <2>1, WaitsBelow DEF Fits
<1>4. PICK t \in trees : back = <<t, None, None>>
  BY <1>1 DEF BackLaws, AskTree, TreeBack
<1> DEFINE f == Frame("union_merge", Top.this, None, Top.that)
           g == Frame("merge_join", t, Top.node, None)
<1>5. f \in FrameType(w) /\ g \in FrameType(w)
  BY <1>1, <1>2, FramesMade
<1>6. /\ f.at = "union_merge" /\ f.this = Top.this /\ f.that = Top.that
      /\ g.at = "merge_join" /\ g.this = t /\ g.node = Top.node
  BY DEF Frame
<1>7. Continue(<<f, g>>)
  BY <1>4 DEF MergeRight
<1> HIDE DEF f, g
<1>8. UNCHANGED <<vars, trees, answer>> /\ back' = NoBack
  BY DEF MergeRight
<1>9. BackHandles = {t} /\ BackNode = {} /\ BackHandles' = {} /\ BackNode' = {}
  BY <1>1, <1>4, <1>8 DEF BackHandles, BackNode, NoBack
<1>10. Handles(f) = Handles(Top) /\ InHand(f) = {} /\ Handles(g) = {t} /\ InHand(g) = InHand(Top)
  <2>1. Handles(f) = Handles(Top) /\ InHand(f) = {}
    BY <1>2, <1>5, <1>6, FrameHands
  <2>2. Handles(g) = {t} /\ InHand(g) = InHand(Top)
    BY <1>2, <1>5, <1>6, FrameHands
  <2> QED  BY <2>1, <2>2
<1>11. /\ Handles(Top) \subseteq trees /\ Handles(Top) \cap {t} = {} /\ InHand(Top) \subseteq Loose
  BY <1>1, <1>9, TopHeld
<1>12. Dealt(f) /\ Dealt(g) /\ NoneTwice(f, g) /\ BackDealt
  BY <1>1, <1>8, <1>9, <1>10, <1>11 DEF Dealt, NoneTwice, BackDealt, HeldTop, NodesTop
<1>13. Fits(f, g) /\ Fits(g, stack[2])
  BY <1>3, <1>6 DEF Fits, Done, Removal, Splitting, AskTree
<1>14. /\ StackLaws(w)' /\ stack' # <<>> /\ Top' = f
       /\ Loose' = (Loose \ NodesTop) \cup BackNode' \cup InHand(f) \cup InHand(g)
  BY <1>1, <1>3, <1>5, <1>7, <1>12, <1>13, StackPush
<1>15. Loose' = Loose
  BY <1>9, <1>10, <1>11, <1>14 DEF NodesTop
<1>16. BackLaws'
  BY <1>6, <1>8, <1>14 DEF BackLaws, Inserting2, Removal, AskTree, AskSplit, AskNode
<1> QED  BY <1>1, <1>6, <1>8, <1>14, <1>15, <1>16, StillHands

LEMMA MergeJoinKeeps == ASSUME NEW w, ForestInv(w), MergeJoin PROVE ForestInv(w)'
<1>1. /\ TypeOK /\ StackLaws(w) /\ BackLaws /\ RegisterLaws
      /\ pc = "idle" /\ call = None /\ stack # <<>> /\ Top.at = "merge_join" /\ Top \in FrameType(w)
      /\ None \notin Trees /\ None \notin Index /\ trees \subseteq Trees
  BY AtIs DEF MergeJoin
<1>2. /\ Top.this \in Trees /\ Top.node \in Index
      /\ Handles(Top) = {Top.this} /\ InHand(Top) = {Top.node}
  BY <1>1, FrameFields, FrameHands
<1>3. Top.at \notin Done /\ stack[2].at \in AskTree
  <2>1. Top.at \notin Done /\ Top.at \notin Removal \cup Splitting
    BY <1>1 DEF Done, Removal, Splitting
  <2> QED  BY <1>1, <2>1, WaitsBelow DEF Fits
<1>4. PICK t \in trees : back = <<t, None, None>>
  BY <1>1 DEF BackLaws, AskTree, TreeBack
<1>5. UNCHANGED <<vars, trees, answer>> /\ back' = NoBack
  BY DEF MergeJoin
<1>6. BackHandles = {t} /\ BackNode = {} /\ BackHandles' = {} /\ BackNode' = {}
  BY <1>1, <1>4, <1>5 DEF BackHandles, BackNode, NoBack
<1>7. Handles(Top) \subseteq trees /\ Handles(Top) \cap {t} = {} /\ InHand(Top) \subseteq Loose
  BY <1>1, <1>6, TopHeld
<1> DEFINE f == Frame("join", Top.this, Top.node, t)
<1>8. f \in FrameType(w)
  BY <1>1, <1>2, <1>7, FramesMade
<1>9. f.at = "join" /\ f.this = Top.this /\ f.that = t /\ f.node = Top.node
  BY DEF Frame
<1>10. Continue(<<f>>)
  BY <1>4 DEF MergeJoin
<1> HIDE DEF f
<1>11. Handles(f) = {Top.this, t} /\ InHand(f) = InHand(Top)
  BY <1>2, <1>8, <1>9, FrameHands
<1>12. Dealt(f) /\ BackDealt
  BY <1>1, <1>2, <1>5, <1>6, <1>7, <1>11 DEF Dealt, BackDealt, HeldTop, NodesTop
<1>13. Fits(f, stack[2])
  BY <1>3, <1>9 DEF Fits, Done, Removal, Splitting
<1>14. /\ StackLaws(w)' /\ stack' # <<>> /\ Top' = f
       /\ Loose' = (Loose \ NodesTop) \cup BackNode' \cup InHand(f)
  BY <1>1, <1>3, <1>8, <1>10, <1>12, <1>13, StackSwap
<1>15. Loose' = Loose
  BY <1>6, <1>7, <1>11, <1>14 DEF NodesTop
<1>16. BackLaws'
  BY <1>5, <1>9, <1>14 DEF BackLaws, Inserting2, Removal, AskTree, AskSplit, AskNode
<1> QED  BY <1>1, <1>5, <1>9, <1>14, <1>15, <1>16, StillHands

LEMMA SplitOutsideKeeps == ASSUME NEW w, ForestInv(w), SplitOutside PROVE ForestInv(w)'
<1>1. /\ TypeOK /\ StackLaws(w) /\ BackLaws /\ RegisterLaws
      /\ pc = "idle" /\ call = None /\ stack # <<>> /\ Top.at = "split_node" /\ Top \in FrameType(w)
      /\ None \notin Trees /\ None \notin Index /\ trees \subseteq Trees
  BY AtIs DEF SplitOutside
<1>2. Top.this \in Trees /\ Handles(Top) = {Top.this} /\ InHand(Top) = {}
  BY <1>1, FrameFields, FrameHands
<1>3. Top.at \notin Done /\ stack[2].at \in AskSplit
  <2>1. Top.at \notin Done /\ Top.at \in Splitting
    BY <1>1 DEF Done, Splitting
  <2> QED  BY <1>1, <2>1, WaitsBelow DEF Fits
<1>4. back = NoBack
  BY <1>1 DEF BackLaws
<1>5. UNCHANGED <<vars, answer>> /\ Continue(<<>>) /\ trees' = trees \cup {NewTree}
  BY DEF SplitOutside
<1>6. NewTree \in Trees /\ NewTree \notin trees
  BY <1>1, NewHandle DEF SplitOutside
<1>7. Top.this \in trees
  BY <1>1, <1>2, TopHeld
<1>8. PICK a \in trees', b \in trees' : a # b /\ back' = <<a, None, b>> /\ {a, b} = {Top.this, NewTree}
  BY <1>5, <1>6, <1>7 DEF SplitOutside
<1>9. BackHandles = {} /\ BackNode = {} /\ BackHandles' = {Top.this, NewTree} /\ BackNode' = {}
  BY <1>1, <1>2, <1>4, <1>6, <1>8 DEF BackHandles, BackNode, NoBack
<1>10. BackDealt
  BY <1>1, <1>2, <1>5, <1>6, <1>9 DEF BackDealt, HeldTop
<1>11. /\ StackLaws(w)' /\ stack' # <<>> /\ Top' = stack[2]
       /\ Loose' = (Loose \ NodesTop) \cup BackNode'
  BY <1>1, <1>3, <1>5, <1>10, StackPop
<1>12. Loose' = Loose
  BY <1>2, <1>9, <1>11 DEF NodesTop
<1>13. SplitBack'
  BY <1>8 DEF SplitBack
<1>14. BackLaws'
  <2>1. stack' # <<>> /\ Top'.at \in AskSplit
    BY <1>3, <1>11
  <2> QED  BY <1>13, <2>1 DEF BackLaws, Inserting2, Removal, AskTree, AskSplit, AskNode
<1>15. Top'.at \notin {"link_node", "remove_node", "descend"}
  BY <1>3, <1>11 DEF AskSplit
<1>16. trees \subseteq trees' /\ trees' \subseteq Trees
  BY <1>1, <1>5, <1>6
<1> QED  BY <1>1, <1>5, <1>11, <1>12, <1>14, <1>15, <1>16, StillHands

LEMMA SplitEndKeeps == ASSUME NEW w, ForestInv(w), SplitEnd PROVE ForestInv(w)'
<1>1. /\ TypeOK /\ StackLaws(w) /\ BackLaws /\ RegisterLaws
      /\ pc = "idle" /\ call = None /\ stack # <<>> /\ Top.at = "split_node" /\ Top \in FrameType(w)
      /\ None \notin Trees /\ None \notin Index /\ trees \subseteq Trees
  BY AtIs DEF SplitEnd
<1>2. Top.this \in Trees /\ Handles(Top) = {Top.this} /\ InHand(Top) = {}
  BY <1>1, FrameFields, FrameHands
<1>3. Top.at \notin Done /\ stack[2].at \in AskSplit
  <2>1. Top.at \notin Done /\ Top.at \in Splitting
    BY <1>1 DEF Done, Splitting
  <2> QED  BY <1>1, <2>1, WaitsBelow DEF Fits
<1>4. back = NoBack
  BY <1>1 DEF BackLaws
<1>5. UNCHANGED <<vars, answer>> /\ trees' = trees \cup {NewTree}
  BY DEF SplitEnd
<1>6. NewTree \in Trees /\ NewTree \notin trees
  BY <1>1, NewHandle DEF SplitEnd
<1>7. Top.this \in trees
  BY <1>1, <1>2, TopHeld
<1>8. /\ \E i \in Side : Continue(<<RemoveNode(Top.this, range[Top.this][i])>>)
      /\ \E a, b \in trees' : a # b /\ back' = <<a, None, b>> /\ {a, b} = {Top.this, NewTree}
  <2>1. \/ Continue(<<RemoveNode(Top.this, range[Top.this][0])>>) /\ back' = <<NewTree, None, Top.this>>
        \/ Continue(<<RemoveNode(Top.this, range[Top.this][1])>>) /\ back' = <<Top.this, None, NewTree>>
    BY DEF SplitEnd
  <2>2. NewTree \in trees' /\ Top.this \in trees' /\ NewTree # Top.this
    BY <1>5, <1>6, <1>7
  <2> QED  BY <2>1, <2>2
<1>9. PICK i \in Side : Continue(<<RemoveNode(Top.this, range[Top.this][i])>>)
  BY <1>8
<1>10. PICK a \in trees', b \in trees' : a # b /\ back' = <<a, None, b>> /\ {a, b} = {Top.this, NewTree}
  BY <1>8
<1>11. range[Top.this][i] \in Index
  <2>1. root[Top.this] # None
    BY DEF SplitEnd
  <2> QED  BY <1>1, <1>2, <2>1, EndsIs DEF Live
<1> DEFINE f == RemoveNode(Top.this, range[Top.this][i])
<1>12. f \in FrameType(w)
  BY <1>2, <1>11, FramesMade
<1>13. f.at = "remove_node" /\ f.this = Top.this /\ f.target = range[Top.this][i]
  BY DEF RemoveNode
<1>14. Continue(<<f>>)
  BY <1>9
<1> HIDE DEF f
<1>15. Handles(f) = {} /\ InHand(f) = {}
  <2>1. f.at \in Removal
    BY <1>13 DEF Removal
  <2> QED  BY <1>12, <2>1, FrameHands
<1>16. BackHandles = {} /\ BackNode = {} /\ BackHandles' = {Top.this, NewTree} /\ BackNode' = {}
  BY <1>1, <1>2, <1>4, <1>6, <1>10 DEF BackHandles, BackNode, NoBack
<1>17. Dealt(f) /\ BackDealt
  BY <1>1, <1>2, <1>5, <1>6, <1>15, <1>16 DEF Dealt, BackDealt, HeldTop
<1>18. Fits(f, stack[2])
  BY <1>3, <1>13 DEF Fits, Done, Removal, Splitting
<1>19. /\ StackLaws(w)' /\ stack' # <<>> /\ Top' = f /\ stack'[2] = stack[2]
       /\ Loose' = (Loose \ NodesTop) \cup BackNode' \cup InHand(f)
  BY <1>1, <1>3, <1>12, <1>14, <1>17, <1>18, StackSwap
<1>20. Loose' = Loose
  BY <1>2, <1>15, <1>16, <1>19 DEF NodesTop
<1>21. BackLaws'
  <2>1. Top'.at = "remove_node" /\ Top'.this \in trees' /\ stack'[2].at \in AskSplit /\ stack' # <<>>
    BY <1>3, <1>5, <1>7, <1>13, <1>19
  <2>2. SplitBack' /\ back'[2] = None
    BY <1>10 DEF SplitBack
  <2> QED  BY <2>1, <2>2 DEF BackLaws, Inserting2, Removal, AskTree, AskSplit, AskNode
<1>22. trees \subseteq trees' /\ trees' \subseteq Trees
  BY <1>1, <1>5, <1>6
<1>23. RegisterLaws'
  <2>1. Top'.at = "remove_node" /\ Top'.target = range[Top'.this][i]
    BY <1>13, <1>19
  <2> QED  BY <1>1, <1>5, <1>20, <1>22, <2>1, StillRegisters
<1>24. HandLaws(w)'
  BY <1>19, <1>21, <1>23 DEF HandLaws
<1>25. Top'.at # "descend"
  BY <1>13, <1>19
<1>26. \A D \in [Ref -> SUBSET Index], rk \in [Index -> Int], h \in [Ref -> Nat] :
         TreeLaw(D, rk, h) => GoingDown(D, h)'
  BY <1>25 DEF GoingDown, Inside
<1> QED  BY <1>1, <1>5, <1>20, <1>24, <1>26, StillStep

-----------------------------------------------------------------------------
(* Where a call on whole trees begins and ends.                            *)

(* Without a stack nothing is in hand.                                     *)
LEMMA EmptyHands ==
  /\ stack = <<>> /\ back = NoBack => Loose = {} /\ \A u : StackLaws(u)
  /\ (stack = <<>> /\ back = NoBack)' => Loose' = {} /\ \A u : StackLaws(u)'
<1>1. /\ stack = <<>> /\ back = NoBack => Loose = {}
      /\ (stack = <<>> /\ back = NoBack)' => Loose' = {}
  BY DEF Loose, Frames, NoBack
<1>2. stack = <<>> => Len(stack) = 0 /\ \A u : stack \in Seq(FrameType(u))
  OBVIOUS
<1>3. stack' = <<>> => Len(stack') = 0 /\ \A u : stack' \in Seq(FrameType(u))
  OBVIOUS
<1>4. stack = <<>> => \A u : StackLaws(u)
  BY <1>2 DEF StackLaws
<1>5. stack' = <<>> => \A u : StackLaws(u)'
  BY <1>3 DEF StackLaws
<1> QED  BY <1>1, <1>4, <1>5

(* A step that ends with no call on whole trees in flight.                 *)
LEMMA CallOver ==
  ASSUME NEW w, ForestInv(w), pc = "idle", call = None, UNCHANGED <<vars, trees>>,
         Loose = {}, stack' = <<>>, back' = NoBack
  PROVE  ForestInv(w)'
<1>1. Loose' = Loose /\ StackLaws(w)'
  BY EmptyHands
<1>2. RegisterLaws /\ trees \subseteq Trees
  BY DEF ForestInv, HandLaws, RegisterLaws
<1>3. RegisterLaws'
  BY <1>1, <1>2, StillRegisters
<1>4. BackLaws'
  BY DEF BackLaws
<1>5. HandLaws(w)'
  BY <1>1, <1>3, <1>4 DEF HandLaws
<1>6. \A D \in [Ref -> SUBSET Index], rk \in [Index -> Int], h \in [Ref -> Nat] :
        TreeLaw(D, rk, h) => GoingDown(D, h)'
  BY DEF GoingDown, Inside
<1> QED  BY <1>1, <1>5, <1>6, StillStep

LEMMA UnionOverlapsKeeps == ASSUME NEW w, ForestInv(w), UnionOverlaps PROVE ForestInv(w)'
<1>1. /\ TypeOK /\ StackLaws(w) /\ BackLaws /\ RegisterLaws
      /\ pc = "idle" /\ call = None /\ stack # <<>> /\ Top.at = "union_disjoint" /\ Top \in FrameType(w)
      /\ None \notin Trees /\ None \notin Index /\ trees \subseteq Trees
  BY AtIs DEF UnionOverlaps, NeitherSmall
<1>2. InHand(Top) = {}
  BY <1>1, FrameHands
<1>3. /\ Len(stack) >= 2 /\ stack[2].at = "union_done" /\ stack[2] \in FrameType(w)
  <2>1. Top.at \notin Done
    BY <1>1 DEF Done
  <2> QED  BY <1>1, <2>1, WaitsBelow DEF Fits
<1>4. back = NoBack
  BY <1>1 DEF BackLaws
<1>5. Len(stack) = 2
  <2>1. Len(stack) \in Nat /\ \A d \in 1 .. Len(stack) - 1 : Fits(stack[d], stack[d + 1])
    BY <1>1 DEF StackLaws
  <2>2. ASSUME Len(stack) > 2 PROVE FALSE
    <3>1. 2 \in 1 .. Len(stack) - 1
      BY <2>1, <2>2
    <3>2. Fits(stack[2], stack[2 + 1])
      BY <2>1, <3>1
    <3> QED  BY <1>3, <3>2 DEF Fits, Done
  <2>3. PICK l \in Nat : l = Len(stack) /\ l >= 2
    BY <1>3, <2>1
  <2>4. l = 2 \/ l > 2
    BY <2>3
  <2> QED  BY <2>2, <2>3, <2>4
<1>6. Loose = {}
  <2>1. \A n : n \in Loose <=> n \in BackNode \/ \E d \in 1 .. Len(stack) : n \in InHand(stack[d])
    BY <1>1, LooseIs
  <2>2. \A d \in 1 .. Len(stack) : d = 1 \/ d = 2
    BY <1>5
  <2>3. InHand(stack[2]) = {}
    <3>1. stack[2].at \in Done
      BY <1>3 DEF Done
    <3> QED  BY <1>3, <3>1, FrameHands
  <2>4. BackNode = {}
    BY <1>4 DEF BackNode, NoBack
  <2> QED  BY <1>2, <2>1, <2>2, <2>3, <2>4 DEF Top
<1>7. UNCHANGED <<vars, trees>> /\ stack' = <<>> /\ back' = NoBack
  BY <1>4 DEF UnionOverlaps
<1> QED  BY <1>1, <1>6, <1>7, CallOver

LEMMA UnionDoneKeeps == ASSUME NEW w, ForestInv(w), UnionDone PROVE ForestInv(w)'
<1>1. /\ TypeOK /\ StackLaws(w) /\ BackLaws /\ RegisterLaws
      /\ pc = "idle" /\ call = None /\ stack # <<>> /\ Top.at = "union_done" /\ Top \in FrameType(w)
      /\ None \notin Trees /\ None \notin Index /\ trees \subseteq Trees
  BY AtIs DEF UnionDone
<1>2. PICK t \in trees : back = <<t, None, None>>
  BY <1>1 DEF BackLaws, AskTree, TreeBack
<1>3. Loose = {}
  <2>1. Top.at \in Done
    BY <1>1 DEF Done
  <2>2. Loose = BackNode
    BY <1>1, <2>1, LastFrame
  <2> QED  BY <1>2, <2>2 DEF BackNode
<1>4. UNCHANGED <<vars, trees>> /\ stack' = <<>> /\ back' = NoBack
  BY DEF UnionDone
<1> QED  BY <1>1, <1>3, <1>4, CallOver

(* A call: the frame that does the work, and the one at the bottom.        *)
LEMMA CallMade ==
  ASSUME NEW w, ForestInv(w), Idle, UNCHANGED <<vars, trees, back>>,
         NEW u, NEW f \in FrameType(u), NEW g \in FrameType(u), stack' = <<f, g>>,
         f.at \in {"union_disjoint", "union_merge", "split_node"}, g.at \in Done,
         Fits(f, g), Handles(f) \subseteq trees, u[3] => w[3]
  PROVE  ForestInv(u)'
<1>1. /\ TypeOK /\ BackLaws /\ RegisterLaws /\ trees \subseteq Trees
      /\ pc = "idle" /\ stack = <<>> /\ back = NoBack
  BY DEF ForestInv, HandLaws, Idle, BackLaws, RegisterLaws
<1>2. call = None
  <2>1. PICK D \in [Ref -> SUBSET Index], rk \in [Index -> Int], h \in [Ref -> Nat] : TreeLaw(D, rk, h)
    BY DEF ForestInv, TreeLawsHold
  <2> QED  BY <1>1, <2>1, IdleShadow DEF TreeLaw
<1>3. /\ Len(stack') = 2 /\ stack' \in Seq(FrameType(u)) /\ stack'[1] = f /\ stack'[2] = g /\ stack' # <<>>
      /\ Top' = f
  BY DEF Top
<1>4. Handles(g) = {} /\ InHand(g) = {} /\ InHand(f) = {}
  BY FrameHands
<1>5. BackHandles' = {} /\ BackNode' = {} /\ back' = NoBack
  BY <1>1 DEF BackHandles, BackNode, NoBack
<1>6. \A d \in 1 .. Len(stack') : d = 1 \/ d = 2
  BY <1>3
<1>7. StackLaws(u)'
  <2>1. \A d, e \in 1 .. Len(stack') : d # e =>
          /\ Handles(stack'[d]) \cap Handles(stack'[e]) = {}
          /\ InHand(stack'[d]) \cap InHand(stack'[e]) = {}
    BY <1>3, <1>4, <1>6
  <2>2. \A d \in 1 .. Len(stack') :
          /\ Handles(stack'[d]) \subseteq trees'
          /\ Handles(stack'[d]) \cap BackHandles' = {} /\ InHand(stack'[d]) \cap BackNode' = {}
    BY <1>3, <1>4, <1>5, <1>6
  <2>3. \A d \in 1 .. Len(stack') - 1 : Fits(stack'[d], stack'[d + 1])
    BY <1>3
  <2> QED  BY <1>3, <2>1, <2>2, <2>3 DEF StackLaws, Handles, InHand
<1>8. Loose' = {} /\ Loose = {}
  <2>1. \A n : n \in Loose' <=> n \in BackNode' \/ \E d \in 1 .. Len(stack') : n \in InHand(stack'[d])
    BY <1>3, LooseWillBe
  <2>2. \A n : n \notin Loose'
    BY <1>3, <1>4, <1>5, <1>6, <2>1
  <2> QED  BY <1>1, <2>2, EmptyHands
<1>9. BackLaws'
  BY <1>3, <1>5 DEF BackLaws, Inserting2, Removal, AskTree, AskSplit, AskNode
<1>10. RegisterLaws'
  BY <1>1, <1>2, <1>3, <1>8, StillRegisters
<1>11. HandLaws(u)'
  BY <1>7, <1>9, <1>10 DEF HandLaws
<1>12. \A D \in [Ref -> SUBSET Index], rk \in [Index -> Int], h \in [Ref -> Nat] :
         TreeLaw(D, rk, h) => GoingDown(D, h)'
  BY <1>3 DEF GoingDown, Inside
<1> QED  BY <1>1, <1>8, <1>11, <1>12, StillStep

LEMMA CallUnionKeeps ==
  ASSUME NEW w, ForestInv(w), NEW op \in {"union_disjoint", "union_merge"}, NEW a, NEW b, CallUnion(op, a, b)
  PROVE  \E u : ForestInv(u)' /\ (w[3] => u[3])
<1>0. PICK u : u = <<<<op, a, b>>, Held, w[3]>>
  OBVIOUS
<1> DEFINE f == Frame(op, a, None, b)
           g == Bottom("union_done", <<op, a, b>>)
<1>1. a \in trees /\ b \in trees /\ a # b /\ Idle /\ UNCHANGED <<vars, trees, back>> /\ stack' = <<f, g>>
  BY DEF CallUnion
<1>2. trees \subseteq Trees /\ None \notin Trees
  BY NoneAssumption DEF ForestInv, HandLaws, RegisterLaws
<1>3. f \in FrameType(u)
  BY <1>1, <1>2, FramesMade
<1>4. g \in FrameType(u)
  BY <1>0 DEF FrameType, Bottom, Done
<1>5. f.at = op /\ f.this = a /\ f.that = b /\ g.at = "union_done"
  BY DEF Frame, Bottom
<1> HIDE DEF f, g
<1>6. Handles(f) \subseteq trees
  <2>1. Handles(f) = {a, b}
    BY <1>3, <1>5, FrameHands
  <2> QED  BY <1>1, <2>1
<1>7. Fits(f, g)
  BY <1>5 DEF Fits, Done, Removal, Splitting, AskTree
<1>8. g.at \in Done
  BY <1>5 DEF Done
<1>9. u[3] => w[3]
  BY <1>0
<1>10. ForestInv(u)'
  BY <1>1, <1>3, <1>4, <1>5, <1>6, <1>7, <1>8, <1>9, CallMade
<1> QED  BY <1>0, <1>10

LEMMA CallSplitKeeps ==
  ASSUME NEW w, ForestInv(w), NEW t, NEW k \in Keys, CallSplit(t, k)
  PROVE  \E u : ForestInv(u)' /\ (w[3] => u[3])
<1>0. PICK u : u = <<<<"split", t, k>>, Held, w[3]>>
  OBVIOUS
<1> DEFINE f == SplitNode(t, k)
           g == Bottom("split_done", <<"split", t, k>>)
<1>1. t \in trees /\ Idle /\ UNCHANGED <<vars, trees, back>> /\ stack' = <<f, g>>
  BY DEF CallSplit
<1>2. trees \subseteq Trees /\ None \notin Trees
  BY NoneAssumption DEF ForestInv, HandLaws, RegisterLaws
<1>3. f \in FrameType(u)
  BY <1>1, <1>2, FramesMade
<1>4. g \in FrameType(u)
  BY <1>0 DEF FrameType, Bottom, Done
<1>5. f.at = "split_node" /\ f.this = t /\ g.at = "split_done"
  BY DEF SplitNode, Bottom
<1> HIDE DEF f, g
<1>6. Handles(f) \subseteq trees
  <2>1. Handles(f) = {t}
    BY <1>3, <1>5, FrameHands
  <2> QED  BY <1>1, <2>1
<1>7. Fits(f, g)
  BY <1>5 DEF Fits, Done, Removal, Splitting, AskSplit
<1>8. g.at \in Done
  BY <1>5 DEF Done
<1>9. u[3] => w[3]
  BY <1>0
<1>10. ForestInv(u)'
  BY <1>1, <1>3, <1>4, <1>5, <1>6, <1>7, <1>8, <1>9, CallMade
<1> QED  BY <1>0, <1>10

-----------------------------------------------------------------------------
(* The way down of join_unchecked.                                         *)

(* What the laws say of the trees while no step of one is under way.       *)
AtRest(D, rk, h) ==
  /\ D[None] = {} /\ None \notin Index /\ h[None] = 0 /\ S!Live \subseteq Index
  /\ \A n \in S!Live :
       /\ n \in D[n] /\ D[n] \subseteq S!Live /\ D[n] = {n} \cup D[child[n][0]] \cup D[child[n][1]]
       /\ \A m \in D[n] : D[m] \subseteq D[n]
       /\ HungKey[n] = key[n] /\ key[n] \in Int /\ rk[n] = 2 * key[n]
  /\ \A n \in S!Live, i \in Side :
       /\ h[n] = h[child[n][i]] + Weight(n) /\ (child[n][i] # None => child[n][i] \in S!Live)
       /\ \A m \in D[child[n][i]] : Before(i, rk[m], rk[n])
  /\ \A t \in Trees : root[t] # None =>
       /\ root[t] \in S!Live /\ ~IsRed(root[t]) /\ black_height[t] = h[root[t]]
       /\ \A i \in Side : /\ range[t][i] \in D[root[t]]
                          /\ \A m \in D[root[t]] : ~Before(i, key[m], key[range[t][i]])

LEMMA TreeFacts ==
  ASSUME TypeOK, NEW D \in [Ref -> SUBSET Index], NEW rk \in [Index -> Int], NEW h \in [Ref -> Nat],
         TreeLaw(D, rk, h), pc = "idle"
  PROVE  AtRest(D, rk, h)
<1>1. S!TypeOK /\ S!Laws(D, rk) /\ S!BalanceLaws(h) /\ S!Hung = S!Live /\ None \notin Index /\ S!Live \subseteq Index
  BY ShadowType, IdleShadow, NoneAssumption DEF TreeLaw, S!Live
<1>2. /\ S!Linked(S!Live, parent, child) /\ S!Descends(S!Live, parent, child, D)
      /\ S!Rooted(S!Live, parent, root, D) /\ S!Sorted(S!Live, child, root, D, rk)
  BY <1>1 DEF S!Laws, S!LinkLaws, S!Shape
<1>3. S!HeightLaws(h) /\ S!RedLaws
  BY <1>1 DEF S!BalanceLaws
<1>4. ASSUME NEW n \in S!Live
      PROVE  HungKey[n] = key[n] /\ key[n] \in Int /\ rk[n] = 2 * key[n]
  <2>1. HungKey[n] \in Int /\ rk[n] = 2 * HungKey[n]
    <3>1. pc \notin S!Unlinked \cup {"unlink"}
      BY DEF S!Unlinked
    <3>2. HungKey[n] \in Int /\ (pc \notin S!Unlinked \cup {"unlink"} \/ n # node => rk[n] = 2 * HungKey[n])
      BY <1>1, S!KeyRank, SameParams, KeysAssumption, NoneAssumption, ValuesAssumption, CumulantAssumption
    <3> QED  BY <3>1, <3>2
  <2>2. HungKey[n] = key[n]
    BY <1>1, ShadowLive DEF HungKey
  <2> QED  BY <2>1, <2>2
<1>5. ASSUME NEW n \in S!Live
      PROVE  /\ n \in D[n] /\ D[n] \subseteq S!Live /\ D[n] = {n} \cup D[child[n][0]] \cup D[child[n][1]]
             /\ \A m \in D[n] : D[m] \subseteq D[n]
  BY <1>2 DEF S!Descends
<1>6. ASSUME NEW n \in S!Live, NEW i \in Side
      PROVE  /\ h[n] = h[child[n][i]] + Weight(n) /\ (child[n][i] # None => child[n][i] \in S!Live)
             /\ \A m \in D[child[n][i]] : Before(i, rk[m], rk[n])
  <2>1. h[n] = h[child[n][i]] + S!Weight(n) + S!Deficit(n, i)
    BY <1>1, <1>3 DEF S!HeightLaws
  <2>2. S!Deficit(n, i) = 0 /\ S!Weight(n) = Weight(n) /\ Weight(n) \in Int
    BY DEF S!Deficit, S!FixRemoveStep, S!Weight, Weight
  <2>3. h[child[n][i]] \in Nat
    BY <1>1 DEF TypeOK
  <2>4. h[n] = h[child[n][i]] + Weight(n)
    BY <2>1, <2>2, <2>3
  <2>5. \A m \in D[child[n][i]] : S!Before(i, rk[m], rk[n])
    BY <1>2 DEF S!Sorted
  <2> QED  BY <1>2, <2>4, <2>5 DEF S!Linked, S!Before, Before
<1>7. ASSUME NEW t \in Trees, root[t] # None
      PROVE  /\ root[t] \in S!Live /\ ~IsRed(root[t]) /\ black_height[t] = h[root[t]]
             /\ \A i \in Side : /\ range[t][i] \in D[root[t]]
                                /\ \A m \in D[root[t]] : ~Before(i, key[m], key[range[t][i]])
  <2>1. root[t] \in S!Live /\ black_height[t] = h[root[t]]
    BY <1>2, <1>3, <1>7 DEF S!Rooted, S!HeightLaws
  <2>2. ~IsRed(root[t])
    BY <1>3 DEF S!RedLaws, S!IsRed, IsRed
  <2>3. \A i \in Side :
          /\ range[t][i] = None => root[t] = None
          /\ range[t][i] # None =>
               /\ range[t][i] \in D[root[t]]
               /\ \A m \in D[root[t]] : ~S!Before(i, HungKey[m], HungKey[range[t][i]])
    BY <1>1, S!RangeEnds, SameParams, KeysAssumption, NoneAssumption, ValuesAssumption, CumulantAssumption
  <2>4. \A m \in D[root[t]] : m \in S!Live
    BY <1>5, <2>1
  <2>5. \A i \in Side :
          range[t][i] \in D[root[t]] /\ \A m \in D[root[t]] : ~Before(i, key[m], key[range[t][i]])
    BY <1>4, <1>7, <2>3, <2>4 DEF S!Before, Before
  <2> QED  BY <2>1, <2>2, <2>5
<1>8. D[None] = {} /\ h[None] = 0
  BY <1>2, <1>3 DEF S!Descends, S!HeightLaws
<1> HIDE DEF Side
<1> QED  BY <1>1, <1>4, <1>5, <1>6, <1>7, <1>8 DEF AtRest

(* It begins at the root of the higher tree.                               *)
Higher(a, b, i, n) ==
  /\ a # b /\ root[a] # None /\ root[b] # None /\ black_height[a] >= black_height[b]
  /\ IF i = 0 THEN Around(a, key[n], b) ELSE Around(b, key[n], a)

LEMMA StartsDown ==
  ASSUME TypeOK, NEW D \in [Ref -> SUBSET Index], NEW rk \in [Index -> Int], NEW h \in [Ref -> Nat],
         TreeLaw(D, rk, h), pc = "idle", NEW a \in Trees, NEW b \in Trees, NEW i \in Side,
         NEW n, key[n] \in Int, Higher(a, b, i, n)
  PROVE  Passing(D, h, a, b, i, n, root[a], key[n], black_height[a] - black_height[b])
<1>0. /\ AtRest(D, rk, h) /\ a # b /\ root[a] # None /\ root[b] # None /\ black_height[a] >= black_height[b]
      /\ IF i = 0 THEN Around(a, key[n], b) ELSE Around(b, key[n], a)
  BY TreeFacts DEF Higher
<1>1. /\ \A m \in S!Live : m \in D[m] /\ D[m] \subseteq S!Live /\ HungKey[m] = key[m] /\ key[m] \in Int
      /\ \A t \in {a, b} : /\ root[t] \in S!Live /\ black_height[t] = h[root[t]]
                           /\ \A s \in Side : /\ range[t][s] \in D[root[t]]
                                              /\ \A m \in D[root[t]] : ~Before(s, key[m], key[range[t][s]])
  BY <1>0 DEF AtRest
<1>2. root[a] \in Ref /\ root[b] \in Ref /\ h[root[a]] \in Nat /\ h[root[b]] \in Nat
  BY DEF TypeOK
<1>3. black_height[a] - black_height[b] \in Nat /\ h[root[a]] = h[root[b]] + (black_height[a] - black_height[b])
  BY <1>0, <1>1, <1>2
<1>4. \A t \in {a, b} : \A m \in D[root[t]] : HungKey[m] = key[m] /\ key[m] \in Int
  BY <1>1
<1>5. \A t \in {a, b} : \A m \in D[root[t]] : MinKey(t) <= key[m] /\ key[m] <= MaxKey(t)
  BY <1>1, <1>4 DEF MinKey, MaxKey, Before
<1>6. \A t \in {a, b} : MinKey(t) \in Int /\ MaxKey(t) \in Int
  BY <1>1, <1>4 DEF MinKey, MaxKey
<1>7. CASE i = 0
  <2>1. MaxKey(a) < key[n] /\ key[n] < MinKey(b)
    BY <1>0, <1>7 DEF Around
  <2>2. \A x \in D[root[a]] : key[x] < key[n]
    BY <1>4, <1>5, <1>6, <2>1
  <2>3. \A y \in D[root[b]] : key[n] < key[y]
    BY <1>4, <1>5, <1>6, <2>1
  <2>4. S!JoinPlace(D, a, b, i, n, root[a], key[n])
    BY <1>0, <1>1, <1>4, <1>7, <2>2, <2>3 DEF S!JoinPlace, S!Before
  <2> QED  BY <1>3, <2>4 DEF Passing
<1>8. CASE i = 1
  <2>1. MaxKey(b) < key[n] /\ key[n] < MinKey(a)
    BY <1>0, <1>8 DEF Around
  <2>2. \A x \in D[root[a]] : key[n] < key[x]
    BY <1>4, <1>5, <1>6, <2>1
  <2>3. \A y \in D[root[b]] : key[y] < key[n]
    BY <1>4, <1>5, <1>6, <2>1
  <2>4. S!JoinPlace(D, a, b, i, n, root[a], key[n])
    BY <1>0, <1>1, <1>4, <1>8, <2>2, <2>3 DEF S!JoinPlace, S!Before
  <2> QED  BY <1>3, <2>4 DEF Passing
<1> QED  BY <1>7, <1>8

(* It goes on to the child on the side of the lower tree: the other trees  *)
(* have black roots, so what is still to pass is there, and so is the end. *)
LEMMA GoesDown ==
  ASSUME TypeOK, NEW D \in [Ref -> SUBSET Index], NEW rk \in [Index -> Int], NEW h \in [Ref -> Nat],
         TreeLaw(D, rk, h), pc = "idle", NEW a \in Trees, NEW b \in Trees, NEW i \in Side,
         NEW n, NEW at, NEW k, NEW diff, Passing(D, h, a, b, i, n, at, k, diff), diff # 0
  PROVE  /\ child[at][1 - i] \in Index
         /\ Passing(D, h, a, b, i, n, child[at][1 - i], k, diff - Passed(at))
<1>0. AtRest(D, rk, h)
  BY TreeFacts
<1>1. /\ \A m \in S!Live : /\ m \in D[m] /\ D[m] = {m} \cup D[child[m][0]] \cup D[child[m][1]]
                           /\ \A x \in D[m] : D[x] \subseteq D[m]
                           /\ D[m] \subseteq S!Live /\ key[m] \in Int /\ rk[m] = 2 * key[m]
      /\ \A m \in S!Live, s \in Side :
           /\ h[m] = h[child[m][s]] + Weight(m) /\ (child[m][s] # None => child[m][s] \in S!Live)
           /\ \A x \in D[child[m][s]] : Before(s, rk[x], rk[m])
      /\ S!Live \subseteq Index /\ None \notin Index /\ h[None] = 0
  BY <1>0 DEF AtRest
<1>2. /\ a # b /\ root[b] # None /\ at \in D[root[a]] /\ range[a][1 - i] \in D[at]
      /\ \A x \in D[root[a]] : S!Before(1 - i, k, HungKey[x])
      /\ \A y \in D[root[b]] : S!Before(1 - i, HungKey[y], k)
      /\ diff \in Nat /\ h[at] = h[root[b]] + diff
  BY DEF Passing, S!JoinPlace
<1>3. D[None] = {}
  BY <1>0 DEF AtRest
<1>4. root[a] # None /\ 1 - i \in Side
  BY <1>2, <1>3
<1>5. /\ root[a] \in S!Live /\ root[b] \in S!Live /\ ~IsRed(root[b])
      /\ \A m \in D[root[a]] : ~Before(1 - i, key[m], key[range[a][1 - i]])
  BY <1>0, <1>2, <1>4 DEF AtRest
<1>6. at \in S!Live /\ D[at] \subseteq D[root[a]]
  BY <1>1, <1>2, <1>5
<1> DEFINE c == child[at][1 - i]
           e == range[a][1 - i]
<1>7. \A m \in S!Live, s \in Side : child[m][s] \in Ref /\ h[child[m][s]] \in Nat /\ h[m] \in Nat
  <2>1. \A m \in S!Live, s \in Side : child[m][s] \in Ref /\ m \in Ref
    BY <1>1
  <2> QED  BY <2>1
<1>8. h[root[b]] >= 1
  <2>1. Weight(root[b]) = 1
    BY <1>1, <1>5 DEF Weight, IsRed, TypeOK, Color
  <2>2. h[root[b]] = h[child[root[b]][0]] + 1 /\ h[child[root[b]][0]] \in Nat
    BY <1>1, <1>5, <1>7, <2>1
  <2> QED  BY <2>2
<1>9. Passed(at) = Weight(at) /\ Weight(at) \in {0, 1}
  BY <1>1, <1>6 DEF Passed, Weight, IsRed
<1>10. h[c] = h[root[b]] + (diff - Passed(at)) /\ diff - Passed(at) \in Nat /\ h[c] >= 1
  <2>1. h[at] = h[c] + Weight(at) /\ h[c] \in Nat /\ h[root[b]] \in Nat
    BY <1>1, <1>4, <1>5, <1>6, <1>7
  <2> QED  BY <1>2, <1>8, <1>9, <2>1
<1>11. c \in S!Live
  BY <1>1, <1>4, <1>6, <1>10
<1>12. c \in D[at] /\ c \in D[c]
  BY <1>1, <1>6, <1>11
<1>13. e \in D[c]
  <2>1. e \in S!Live /\ c \in D[root[a]]
    BY <1>1, <1>2, <1>6, <1>12
  <2>2. ~Before(1 - i, key[c], key[e])
    BY <1>5, <2>1
  <2>3. Before(1 - i, rk[c], rk[at])
    BY <1>1, <1>4, <1>6, <1>12
  <2>4. rk[c] = 2 * key[c] /\ rk[e] = 2 * key[e] /\ rk[at] = 2 * key[at] /\ key[c] \in Int /\ key[e] \in Int /\ key[at] \in Int
    BY <1>1, <1>6, <1>11, <2>1
  <2>5. e # at
    BY <2>2, <2>3, <2>4 DEF Before
  <2>6. ASSUME e \in D[child[at][i]] PROVE FALSE
    <3>1. Before(i, rk[e], rk[at])
      BY <1>1, <1>6, <2>6
    <3> QED  BY <2>2, <2>3, <2>4, <3>1 DEF Before
  <2>7. D[at] = {at} \cup D[child[at][i]] \cup D[c]
    BY <1>1, <1>6
  <2> QED  BY <1>2, <2>5, <2>6, <2>7
<1>14. c \in D[root[a]]
  BY <1>6, <1>12
<1>15. S!JoinPlace(D, a, b, i, n, c, k)
  BY <1>2, <1>13, <1>14 DEF S!JoinPlace
<1> QED  BY <1>1, <1>10, <1>11, <1>15 DEF Passing

LEMMA JoinTreesKeeps == ASSUME NEW w, ForestInv(w), JoinTrees PROVE ForestInv(w)'
<1>1. /\ TypeOK /\ StackLaws(w) /\ BackLaws /\ RegisterLaws
      /\ pc = "idle" /\ call = None /\ stack # <<>> /\ Top.at = "join" /\ Top \in FrameType(w)
      /\ None \notin Trees /\ None \notin Index /\ trees \subseteq Trees
  BY AtIs DEF JoinTrees
<1>2. /\ Top.this \in Trees /\ Top.that \in Trees /\ Top.this # Top.that /\ Top.node \in Index
      /\ Handles(Top) = {Top.this, Top.that} /\ InHand(Top) = {Top.node}
  BY <1>1, FrameFields, FrameHands
<1>3. Top.at \notin Done /\ stack[2].at \in AskTree
  <2>1. Top.at \notin Done /\ Top.at \notin Removal \cup Splitting
    BY <1>1 DEF Done, Removal, Splitting
  <2> QED  BY <1>1, <2>1, WaitsBelow DEF Fits
<1>4. back = NoBack
  BY <1>1 DEF BackLaws
<1> DEFINE k == key[Top.node]
           Begins(a, b, i) ==
             /\ {a, b} = {Top.this, Top.that} /\ Higher(a, b, i, Top.node)
             /\ Continue(<<[at |-> "descend", this |-> a, node |-> Top.node, that |-> b, side |-> i,
                            index |-> root[a], diff |-> black_height[a] - black_height[b]]>>)
             /\ back' = <<a, None, None>>
<1>5. \E a, b \in Trees, i \in Side : Begins(a, b, i)
  <2>1. /\ black_height[Top.this] \in Int /\ black_height[Top.that] \in Int
        /\ root[Top.this] # None /\ root[Top.that] # None
        /\ Around(Top.this, k, Top.that) \/ Around(Top.that, k, Top.this)
    BY <1>1, <1>2 DEF TypeOK, JoinTrees
  <2>2. CASE black_height[Top.this] >= black_height[Top.that]
    <3>1. ASSUME Around(Top.this, k, Top.that) PROVE Begins(Top.this, Top.that, 0)
      BY <1>2, <2>1, <2>2, <3>1 DEF JoinTrees, Higher
    <3>2. ASSUME ~Around(Top.this, k, Top.that) PROVE Begins(Top.this, Top.that, 1)
      BY <1>2, <2>1, <2>2, <3>2 DEF JoinTrees, Higher
    <3> HIDE DEF Begins
    <3> QED  BY <1>2, <3>1, <3>2
  <2>3. CASE ~(black_height[Top.this] >= black_height[Top.that])
    <3>0. black_height[Top.that] >= black_height[Top.this] /\ {Top.that, Top.this} = {Top.this, Top.that}
      BY <2>1, <2>3
    <3>1. ASSUME Around(Top.that, k, Top.this) PROVE Begins(Top.that, Top.this, 0)
      BY <1>2, <2>1, <2>3, <3>0, <3>1 DEF JoinTrees, Higher
    <3>2. ASSUME ~Around(Top.that, k, Top.this) PROVE Begins(Top.that, Top.this, 1)
      BY <1>2, <2>1, <2>3, <3>0, <3>2 DEF JoinTrees, Higher
    <3> HIDE DEF Begins
    <3> QED  BY <1>2, <3>1, <3>2
  <2> QED  BY <2>2, <2>3
<1>6. PICK a \in Trees, b \in Trees, i \in Side :
        /\ {a, b} = {Top.this, Top.that} /\ Higher(a, b, i, Top.node)
        /\ Continue(<<[at |-> "descend", this |-> a, node |-> Top.node, that |-> b, side |-> i,
                       index |-> root[a], diff |-> black_height[a] - black_height[b]]>>)
        /\ back' = <<a, None, None>>
  BY <1>5
<1> HIDE DEF k, Begins
<1> DEFINE f == [at |-> "descend", this |-> a, node |-> Top.node, that |-> b, side |-> i,
                 index |-> root[a], diff |-> black_height[a] - black_height[b]]
<1>7. f \in FrameType(w)
  <2>1. root[a] \in Index /\ black_height[a] - black_height[b] \in Int
    BY <1>1, <1>6 DEF TypeOK, Higher
  <2>2. f \in Working
    BY <1>2, <2>1 DEF Working
  <2> QED  BY <2>2 DEF FrameType
<1>8. /\ f.at = "descend" /\ f.this = a /\ f.node = Top.node /\ f.that = b /\ f.side = i
      /\ f.index = root[a] /\ f.diff = black_height[a] - black_height[b]
  OBVIOUS
<1>9. Continue(<<f>>)
  BY <1>6
<1> HIDE DEF f
<1>10. UNCHANGED <<vars, trees, answer>>
  BY DEF JoinTrees
<1>11. Handles(f) = {b} /\ InHand(f) = InHand(Top)
  BY <1>2, <1>7, <1>8, FrameHands
<1>12. BackHandles = {} /\ BackNode = {} /\ BackHandles' = {a} /\ BackNode' = {}
  BY <1>1, <1>4, <1>6 DEF BackHandles, BackNode, NoBack
<1>13. Handles(Top) = {a, b} /\ Handles(Top) \subseteq trees /\ InHand(Top) \subseteq Loose
  BY <1>1, <1>2, <1>6, TopHeld
<1>14. Dealt(f) /\ BackDealt
  <2>1. a # b
    BY <1>6 DEF Higher
  <2> QED  BY <1>1, <2>1, <1>10, <1>11, <1>12, <1>13 DEF Dealt, BackDealt, HeldTop, NodesTop
<1>15. Fits(f, stack[2])
  BY <1>3, <1>8 DEF Fits, Done, Removal, Splitting
<1>16. /\ StackLaws(w)' /\ stack' # <<>> /\ Top' = f
       /\ Loose' = (Loose \ NodesTop) \cup BackNode' \cup InHand(f)
  BY <1>1, <1>3, <1>7, <1>9, <1>14, <1>15, StackSwap
<1>17. Loose' = Loose
  BY <1>11, <1>12, <1>13, <1>16 DEF NodesTop
<1>18. BackLaws'
  BY <1>6, <1>8, <1>10, <1>13, <1>16 DEF BackLaws, Inserting2, Removal, AskTree, AskSplit, AskNode
<1>19. RegisterLaws'
  BY <1>1, <1>8, <1>10, <1>16, <1>17, StillRegisters
<1>20. HandLaws(w)'
  BY <1>16, <1>18, <1>19 DEF HandLaws
<1>21. ASSUME NEW D \in [Ref -> SUBSET Index], NEW rk \in [Index -> Int], NEW h \in [Ref -> Nat], TreeLaw(D, rk, h)
       PROVE  GoingDown(D, h)'
  <2>1. key[Top.node] \in Int
    <3>1. Top.node \in Live
      BY <1>1, <1>2, <1>13 DEF RegisterLaws
    <3> QED  BY <1>1, <3>1, KeysAssumption DEF TypeOK, Live
  <2>2. PICK n : n = Top.node
    OBVIOUS
  <2>4. Higher(a, b, i, n) /\ key[n] \in Int /\ pc = "idle" /\ TypeOK
    BY <1>1, <1>6, <2>1, <2>2
  <2>5. Passing(D, h, a, b, i, n, root[a], key[n], black_height[a] - black_height[b])
    BY <1>21, <2>4, StartsDown
  <2>3. HungKey' = HungKey /\ root' = root /\ range' = range /\ key' = key
    BY <1>10, <1>17 DEF HungKey, vars
  <2> QED  BY <1>8, <1>16, <2>2, <2>3, <2>5 DEF GoingDown, Inside, Passing, S!JoinPlace
<1> QED  BY <1>1, <1>10, <1>17, <1>20, <1>21, StillStep

LEMMA DownFrame ==
  ASSUME NEW c \in Index, NEW q \in Nat,
         NEW f \in [at : {"descend"}, this : Trees, node : Index, that : Trees, side : Side, index : Index, diff : Int]
  PROVE  LET g == [f EXCEPT !.index = c, !.diff = q] IN
         /\ g \in [at : {"descend"}, this : Trees, node : Index, that : Trees, side : Side, index : Index, diff : Int]
         /\ g.at = "descend" /\ g.this = f.this /\ g.node = f.node /\ g.that = f.that /\ g.side = f.side
         /\ g.index = c /\ g.diff = q
<1> HIDE DEF Side
<1>1. PICK e : e = [f EXCEPT !.index = c]
  OBVIOUS
<1>2. e \in [at : {"descend"}, this : Trees, node : Index, that : Trees, side : Side, index : Index, diff : Int]
  BY <1>1
<1>3. [e EXCEPT !.diff = q] \in
        [at : {"descend"}, this : Trees, node : Index, that : Trees, side : Side, index : Index, diff : Int]
  BY <1>2
<1>4. [f EXCEPT !.index = c, !.diff = q] = [e EXCEPT !.diff = q]
  BY <1>1
<1>5. LET g == [f EXCEPT !.index = c, !.diff = q] IN
      /\ g.at = "descend" /\ g.this = f.this /\ g.node = f.node /\ g.that = f.that /\ g.side = f.side
      /\ g.index = c /\ g.diff = q
  OBVIOUS
<1> QED  BY <1>3, <1>4, <1>5

LEMMA JoinDescendKeeps == ASSUME NEW w, ForestInv(w), JoinDescend PROVE ForestInv(w)'
<1>1. /\ TypeOK /\ StackLaws(w) /\ BackLaws /\ RegisterLaws
      /\ pc = "idle" /\ call = None /\ stack # <<>> /\ Top.at = "descend" /\ Top \in FrameType(w)
      /\ None \notin Trees /\ None \notin Index /\ trees \subseteq Trees
  BY AtIs DEF JoinDescend
<1>2. /\ Top.this \in Trees /\ Top.that \in Trees /\ Top.node \in Index /\ Top.side \in Side
      /\ Top.index \in Index /\ Top.diff \in Int /\ Handles(Top) = {Top.that} /\ InHand(Top) = {Top.node}
  BY <1>1, FrameFields, FrameHands
<1>3. Top.at \notin Done /\ stack[2].at \in AskTree
  <2>1. Top.at \notin Done /\ Top.at \notin Removal \cup Splitting
    BY <1>1 DEF Done, Removal, Splitting
  <2> QED  BY <1>1, <2>1, WaitsBelow DEF Fits
<1>4. Top.this \in trees /\ back = <<Top.this, None, None>>
  BY <1>1 DEF BackLaws
<1>5. PICK c : c = child[Top.index][1 - Top.side]
  OBVIOUS
<1>6. PICK q : q = Top.diff - Passed(Top.index)
  OBVIOUS
<1>7. ASSUME NEW D \in [Ref -> SUBSET Index], NEW rk \in [Index -> Int], NEW h \in [Ref -> Nat], TreeLaw(D, rk, h)
      PROVE  /\ c \in Index /\ q \in Nat
             /\ Passing(D, h, Top.this, Top.that, Top.side, Top.node, c, key[Top.node], q)
  <2>1. /\ Passing(D, h, Top.this, Top.that, Top.side, Top.node, Top.index, key[Top.node], Top.diff)
        /\ Top.diff # 0
    BY <1>1, <1>7 DEF TreeLaw, GoingDown, Inside, JoinDescend
  <2>2. PICK n, at, k, diff : n = Top.node /\ at = Top.index /\ k = key[Top.node] /\ diff = Top.diff
    OBVIOUS
  <2>3. PICK a \in Trees, b \in Trees, i \in Side : a = Top.this /\ b = Top.that /\ i = Top.side
    BY <1>2
  <2>4. Passing(D, h, a, b, i, n, at, k, diff) /\ diff # 0 /\ TypeOK /\ pc = "idle"
    BY <1>1, <2>1, <2>2, <2>3
  <2>5. child[at][1 - i] \in Index /\ Passing(D, h, a, b, i, n, child[at][1 - i], k, diff - Passed(at))
    BY <1>7, <2>4, GoesDown
  <2> QED  BY <1>5, <1>6, <2>2, <2>3, <2>5 DEF Passing
<1>75. c \in Index /\ q \in Nat
  <2>1. PICK D \in [Ref -> SUBSET Index], rk \in [Index -> Int], h \in [Ref -> Nat] : TreeLaw(D, rk, h)
    BY DEF ForestInv, TreeLawsHold
  <2> QED  BY <1>7, <2>1
<1> DEFINE f == [Top EXCEPT !.index = c, !.diff = q]
<1>76. Continue(<<f>>)
  <2>1. child[Top.index][1 - Top.side] # None
    BY <1>1, <1>5, <1>75
  <2> QED  BY <2>1, <1>5, <1>6 DEF JoinDescend
<1>8. Top \in [at : {"descend"}, this : Trees, node : Index, that : Trees, side : Side, index : Index, diff : Int]
  <2>1. CASE Top \in Working
    BY <1>1, <2>1 DEF Working, Inserting2, Removal
  <2>2. CASE Top \in TwoTrees
    BY <1>1, <2>2 DEF TwoTrees
  <2>3. CASE Top \in OneTree
    BY <1>1, <2>3 DEF OneTree
  <2>4. CASE Top \in [at : Done, node : {None}, name : {w[1]}, was : {w[2]}]
    BY <1>1, <2>4 DEF Done
  <2> QED  BY <1>1, <2>1, <2>2, <2>3, <2>4 DEF FrameType
<1>9. /\ f.at = "descend" /\ f.this = Top.this /\ f.node = Top.node /\ f.that = Top.that /\ f.side = Top.side
      /\ f.index = c /\ f.diff = q
      /\ f \in [at : {"descend"}, this : Trees, node : Index, that : Trees, side : Side, index : Index, diff : Int]
  BY <1>75, <1>8, DownFrame
<1>10. f \in FrameType(w)
  BY <1>9 DEF FrameType, Working
<1> HIDE DEF f
<1>11. UNCHANGED <<vars, trees, back, answer>>
  BY DEF JoinDescend
<1>12. Handles(f) = Handles(Top) /\ InHand(f) = InHand(Top)
  BY <1>2, <1>9, <1>10, FrameHands
<1>13. BackHandles' = BackHandles /\ BackNode = {} /\ BackNode' = {}
  BY <1>4, <1>11 DEF BackHandles, BackNode
<1>14. Handles(Top) \subseteq trees /\ InHand(Top) \subseteq Loose /\ Handles(Top) \cap BackHandles = {}
  BY <1>1, TopHeld
<1>15. Dealt(f) /\ BackDealt
  BY <1>11, <1>12, <1>13, <1>14 DEF Dealt, BackDealt, HeldTop, NodesTop
<1>16. Fits(f, stack[2])
  BY <1>3, <1>9 DEF Fits, Done, Removal, Splitting
<1>17. /\ StackLaws(w)' /\ stack' # <<>> /\ Top' = f
       /\ Loose' = (Loose \ NodesTop) \cup BackNode' \cup InHand(f)
  BY <1>1, <1>3, <1>76, <1>10, <1>15, <1>16, StackSwap
<1>18. Loose' = Loose
  BY <1>12, <1>13, <1>14, <1>17 DEF NodesTop
<1>19. BackLaws'
  BY <1>4, <1>9, <1>11, <1>17 DEF BackLaws, Inserting2, Removal, AskTree, AskSplit, AskNode
<1>20. RegisterLaws'
  BY <1>1, <1>9, <1>11, <1>17, <1>18, StillRegisters
<1>21. HandLaws(w)'
  BY <1>17, <1>19, <1>20 DEF HandLaws
<1>22. ASSUME NEW D \in [Ref -> SUBSET Index], NEW rk \in [Index -> Int], NEW h \in [Ref -> Nat], TreeLaw(D, rk, h)
       PROVE  GoingDown(D, h)'
  <2>1. Passing(D, h, Top.this, Top.that, Top.side, Top.node, c, key[Top.node], q)
    BY <1>7, <1>22
  <2>2. HungKey' = HungKey /\ root' = root /\ range' = range /\ key' = key
    BY <1>11, <1>18 DEF HungKey, vars
  <2> QED  BY <1>9, <1>17, <2>1, <2>2 DEF GoingDown, Inside, Passing, S!JoinPlace
<1> QED  BY <1>1, <1>11, <1>18, <1>21, <1>22, StillStep
=============================================================================
