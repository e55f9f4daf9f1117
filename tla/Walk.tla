-------------------------------- MODULE Walk --------------------------------
(***************************************************************************)
(* Walks over a tree (tree/iter.rs, tree/cursor.rs): iterators from both   *)
(* ends, filters, cursors, and the iterator that drains a tree it was      *)
(* given.  A walk has the guard of its tree, or the tree itself: meanwhile *)
(* the other trees of the forest, in the same arena, are at work, and take *)
(* the slots that a draining iterator gives back.                          *)
(***************************************************************************)
EXTENDS ForestInvariants

VARIABLES
  walk,   \* the walk there is, or None
  item    \* the last item it returned, with what the caller told it

wvars == <<fvars, walk, item>>

Writing == {"iter_mut", "filter_mut"}
Iterating == {"iter", "iter_mut"}
Filtering == {"filter", "filter_mut"}
Moving == {"cursor", "cursor_mut"}

(* front and back of an iterator (a draining one uses the tree's range),   *)
(* current of a cursor, stack of a filter.                                 *)
Walker(kind, t, first, last, pushed) ==
  [kind |-> kind, tree |-> t, front |-> first, back |-> last, stack |-> pushed]

WInit == FInit /\ walk = None /\ item = None

Walks(kinds) == walk # None /\ walk.kind \in kinds
IsWalked(t) == walk # None /\ walk.tree = t

-----------------------------------------------------------------------------
(* The walks begin.                                                        *)

Unwalked(t) ==
  walk = None /\ t \in trees /\ stack = <<>> /\ (call # None => call.tree # t)

Iter(kind, t) ==
  /\ Unwalked(t) /\ kind \in Iterating
  /\ walk' = Walker(kind, t, range[t][0], range[t][1], <<>>)
  /\ UNCHANGED <<fvars, item>>

IntoIter(t) ==
  /\ Unwalked(t)
  /\ walk' = Walker("into_iter", t, None, None, <<>>)
  /\ UNCHANGED <<fvars, item>>

Filter(kind, t) ==
  /\ Unwalked(t) /\ kind \in Filtering
  /\ walk' = Walker(kind, t, None, None, IF root[t] = None THEN <<>> ELSE <<root[t]>>)
  /\ UNCHANGED <<fvars, item>>

Cursor(kind, t) ==
  /\ Unwalked(t) /\ kind \in Moving
  /\ walk' = Walker(kind, t, root[t], None, <<>>)
  /\ UNCHANGED <<fvars, item>>

(* closest: the end i of a range of keys, at k or beside it.  The search   *)
(* looks at the ends of the tree first.                                    *)
SearchEnd(t, k) ==
  LET Down[n \in Index] ==
        LET next == child[n][IF key[n] > k THEN 0 ELSE 1]
        IN  IF key[n] = k \/ next = None THEN n ELSE Down[next]
  IN  IF MinKey(t) >= k THEN range[t][0]
      ELSE IF MaxKey(t) <= k THEN range[t][1]
      ELSE Down[root[t]]

Closest(t, i, k, inclusive) ==
  LET n == SearchEnd(t, k)
      stays == IF key[n] = k THEN ~inclusive ELSE (key[n] > k) = (i = 0)
  IN  IF IsEmpty(t) THEN None ELSE IF stays THEN n ELSE order[n][i]

(* iter_range, iter_range_mut: from the end for min to the end for max, or *)
(* from and to the ends of the tree where there is none.                   *)
IterRange(kind, t, min, max, li, ri) ==
  LET Or(n, i) == IF n = None THEN range[t][i] ELSE n IN
  /\ Unwalked(t) /\ kind \in Iterating
  /\ walk' = Walker(kind, t, Or(Closest(t, 0, min, li), 0), Or(Closest(t, 1, max, ri), 1), <<>>)
  /\ item' = [op |-> "range", min |-> min, max |-> max]
  /\ UNCHANGED fvars

(* cursor_at: where the search ended, or before it.                        *)
NearestAfter == ptr                                   \* faulty: also if it lies above
NearestBefore == IF pc = "LeftOf" THEN order[ptr][0] ELSE ptr

CursorAt(kind) ==
  /\ walk = None /\ kind \in Moving
  /\ pc \in SearchResult /\ call.op = "search"
  /\ walk' = Walker(kind, call.tree, NearestBefore, None, <<>>)
  /\ item' = [op |-> "at", key |-> call.key]
  /\ Return(None)
  /\ UNCHANGED <<nodes, bounds, forest>>

-----------------------------------------------------------------------------
(* Iter and IterMut: next (i = 0) and next_back (i = 1).  What IterMut     *)
(* gives out is written by the caller.                                     *)

Ends(w) == <<w.front, w.back>>
Here(i) == Ends(walk)[i + 1]

NeverMet == FALSE                                     \* faulty: the ends cross
Met == walk.front = walk.back

Advanced(i) ==
  LET next == order[Here(i)][1 - i]
  IN  IF Met THEN [walk EXCEPT !.front = None, !.back = None]
      ELSE IF i = 0 THEN [walk EXCEPT !.front = next]
      ELSE [walk EXCEPT !.back = next]

(* The caller may write what it was given to write.                        *)
Written(n, v) ==
  /\ v # val[n] => walk.kind \in Writing
  /\ val' = [val EXCEPT ![n] = v]

IterNext(i, v) ==
  /\ Walks(Iterating) /\ Here(i) # None
  /\ item' = [op |-> "next", key |-> key[Here(i)], val |-> val[Here(i)]]
  /\ walk' = Advanced(i)
  /\ Written(Here(i), v)
  /\ UNCHANGED <<key, cum, color, links, order, bounds, registers, forest>>

-----------------------------------------------------------------------------
(* Filter and FilterMut: the caller is asked what to do at each node.      *)

SearchAction == [left : BOOLEAN, right : BOOLEAN, match : BOOLEAN]

Pushed(n, action) ==
  LET On(i, wanted) == IF wanted /\ child[n][i] # None THEN <<child[n][i]>> ELSE <<>>
  IN  On(0, action.left) \o On(1, action.right)
Popped(s) == SubSeq(s, 1, Len(s) - 1)

FilterStep(action, v) ==
  LET n == walk.stack[Len(walk.stack)] IN
  /\ Walks(Filtering) /\ walk.stack # <<>>
  /\ item' = [op |-> "visit", key |-> key[n], val |-> val[n], action |-> action]
  /\ walk' = [walk EXCEPT !.stack = Popped(@) \o Pushed(n, action)]
  /\ v # val[n] => action.match
  /\ Written(n, v)
  /\ UNCHANGED <<key, cum, color, links, order, bounds, registers, forest>>

-----------------------------------------------------------------------------
(* Cursors.                                                                *)

MoveTo(n, what) ==
  /\ walk' = [walk EXCEPT !.front = n]
  /\ item' = what
  /\ UNCHANGED fvars

MoveOrder(i) ==
  LET n == walk.front IN
  /\ Walks(Moving)
  /\ MoveTo(IF n = None THEN range[walk.tree][1 - i] ELSE order[n][i], [op |-> "order", side |-> i])

MoveParent ==
  LET n == walk.front IN
  /\ Walks(Moving) /\ n # None
  /\ MoveTo(IF parent[n] = None THEN n ELSE parent[n], [op |-> "parent"])

MoveChild(i) ==
  LET n == walk.front IN
  /\ Walks(Moving) /\ n # None
  /\ MoveTo(IF child[n][i] = None THEN n ELSE child[n][i], [op |-> "child", side |-> i])

(* iter_below, iter_below_mut: from one end of the subtree to the other.   *)
Limit(i, n) ==
  LET Down[m \in Index] == IF child[m][i] = None THEN m ELSE Down[child[m][i]]
  IN  Down[n]

IterBelow ==
  LET n == walk.front IN
  /\ Walks(Moving)
  /\ walk' = Walker(IF walk.kind = "cursor" THEN "iter" ELSE "iter_mut", walk.tree,
                    IF n = None THEN None ELSE Limit(0, n),
                    IF n = None THEN None ELSE Limit(1, n), <<>>)
  /\ UNCHANGED <<fvars, item>>

-----------------------------------------------------------------------------
(* The walk ends.  update_cumulants, bottom-up, makes good what writes     *)
(* through IterMut and FilterMut left undone.                              *)

StaleBelow(t) ==                                      \* faulty: what was there below
  [n \in Index |-> IF n \in Attached(t) THEN CumulantOf(n, child[n]) ELSE cum[n]]
UpdatedCumulants(t) ==
  LET Of[n \in Ref] ==
        IF n = None THEN DefaultCumulant
        ELSE Combine(val[n], Of[child[n][0]], Of[child[n][1]])
  IN  [n \in Index |-> IF n \in Attached(t) THEN Of[n] ELSE cum[n]]

EndWalk ==
  /\ walk # None /\ walk.kind # "into_iter"
  /\ walk' = None
  /\ cum' = IF HasCumulant /\ walk.kind \in Writing
            THEN UpdatedCumulants(walk.tree) ELSE cum
  /\ UNCHANGED <<data, color, links, order, bounds, registers, forest, item>>

-----------------------------------------------------------------------------
(* IntoIter: next and next_back take the node at that end of the range out *)
(* of the arena, each under an alloc guard of its own.  Root, black height *)
(* and the links of the nodes that are left stay as they are.              *)

OneEndCleared(t, i, n) == [range EXCEPT ![t][i] = IF range[t][1 - i] = n THEN None
                                                  ELSE order[n][1 - i]]   \* faulty
Shortened(t, i, n) ==
  IF range[t][1 - i] = n THEN [range EXCEPT ![t] = NoLinks]
  ELSE [range EXCEPT ![t][i] = order[n][1 - i]]

Drain(i) ==
  LET t == walk.tree
      n == range[t][i]
  IN
  /\ Walks({"into_iter"}) /\ pc = "idle" /\ n # None
  /\ item' = [op |-> "next", key |-> key[n], val |-> val[n]]
  /\ Release({n}) /\ val' = Without(val, {n}, AnyValue)
  /\ range' = Shortened(t, i, n)
  /\ UNCHANGED <<root, black_height, registers, forest, walk>>

(* The iterator is dropped, and with it the tree.                          *)
EndDrain ==
  /\ Walks({"into_iter"})
  /\ Drop(walk.tree)
  /\ walk' = None
  /\ UNCHANGED <<nodes, registers, stack, back, answer, item>>

-----------------------------------------------------------------------------
(* Whoever else there is works on other trees.                             *)
CallElsewhere(op, t, k, v) ==
  /\ ~IsWalked(t)
  /\ CallTree(op, t, k, v)
  /\ UNCHANGED <<walk, item>>

StepElsewhere == TreeStep /\ UNCHANGED <<walk, item>>

WalkStep ==
  \/ \E i \in Side, v \in Values : IterNext(i, v)
  \/ \E action \in SearchAction, v \in Values : FilterStep(action, v)
  \/ MoveParent \/ \E i \in Side : MoveOrder(i) \/ MoveChild(i)
  \/ IterBelow
  \/ EndWalk
  \/ \E i \in Side : Drain(i)

-----------------------------------------------------------------------------
Drained(t) == IsWalked(t) /\ walk.kind = "into_iter"

(* The nodes of a tree; of one that is drained, those along the thread     *)
(* from one end of its range to the other.                                 *)
Rest(t) ==
  LET Onto(n) == IF n = None \/ n = range[t][1] THEN {} ELSE {order[n][1]}
  IN  Closure({range[t][0]}, Onto)
NodesOf(t) == IF Drained(t) THEN Rest(t) ELSE Members(t)

(* A walk stands on nodes of its own tree, and an iterator's ends are both *)
(* there or both gone.                                                     *)
WalkTypeOK ==
  walk # None =>
    /\ walk.kind \in Iterating \cup Filtering \cup Moving \cup {"into_iter"}
    /\ walk.tree \in trees
    /\ {walk.front, walk.back} \subseteq Attached(walk.tree) \cup {None}
    /\ walk.kind \in Iterating => (walk.front = None <=> walk.back = None)
    /\ \A d \in DOMAIN walk.stack : walk.stack[d] \in Attached(walk.tree)

(* Every slot in use is a node of exactly one tree, also of a tree that is *)
(* half drained while another one takes the slots it gave back.            *)
SlotsAccounted ==
  /\ Live = UNION {NodesOf(t) : t \in trees}
  /\ \A t, u \in trees : t # u => NodesOf(t) \cap NodesOf(u) = {}

(* Whatever was written through IterMut and FilterMut, from whichever end  *)
(* and however far, the cumulants are current once the walk is over.       *)
WalkCumulants ==
  pc = "idle" /\ HasCumulant /\ ~Walks(Writing) =>
    \A t \in trees : ~Drained(t) =>
      \A n \in Attached(t) : cum[n] = CumulantOf(n, child[n])

(* A walk changes its own tree and no other, a call its own and never one  *)
(* that is walked.                                                         *)
OnlyTheirOwnTree ==
  [][\A t \in trees :
       \/ BoundsUntouched(t) /\ \A n \in NodesOf(t) : SameNode(n)
       \/ IF registers' = registers THEN IsWalked(t)
          ELSE call # None /\ call.tree = t /\ ~IsWalked(t)]_wvars

(* The walks implement Traversal: what is pending is read off the keys, so *)
(* every step along the thread has to land on the next key.                *)
WalkedDict ==
  [t \in trees |->
     LET Bound == {n \in NodesOf(t) : ~InsertInFlight(n)}
         With(k) == {n \in Bound : key[n] = k}
     IN  [k \in Keys |-> IF With(k) = {} THEN None ELSE val[CHOOSE n \in With(k) : TRUE]]]

Between(first, last) ==
  IF first = None \/ last = None THEN {}
  ELSE {n \in Attached(walk.tree) : key[first] <= key[n] /\ key[n] <= key[last]}

Pending ==
  CASE Walks(Iterating) -> Between(walk.front, walk.back)
    [] Walks(Filtering) -> UNION {Subtree(walk.stack[d]) : d \in DOMAIN walk.stack}
    [] Walks({"into_iter"}) -> Rest(walk.tree)
    [] OTHER -> {}

Traversals == INSTANCE Traversal WITH
  dict <- WalkedDict,
  tree <- IF walk = None THEN None ELSE walk.tree,
  pending <- {key[n] : n \in Pending},
  at <- IF Walks(Moving) /\ walk.front # None THEN key[walk.front] ELSE None
ImplementsTraversal == Traversals!Spec
=============================================================================
