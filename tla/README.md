# Verification of rb-forest

rb-forest is a Rust library of ordered maps. The maps ("trees") of one *forest* are threaded
red-black trees whose nodes all live in one shared arena. Trees can be read and changed from
several threads, each tree behind a read/write lock of its own ("port") beside the one lock of
the arena. A node can carry a *cumulant*, a value computed from its subtree, such as a sum.

This directory has TLA+ models of that program, TLC configurations that check them on small
instances, and TLAPS proofs that hold for every instance. All paths below are relative to the
repository's root; the crate is in `src/src`.

## 1. Inventory

### Components

| Component | State | Operations | What makes it correct |
| --- | --- | --- | --- |
| **Arena** (`arena/mod.rs`) | `items` (a vector of entries, occupied or free), `free` (head of the list that the free entries form), `len` | `insert_within_capacity`, `reserve`, `remove`, `get`, `get_mut`, `get_pair_mut`, `get_mut_with` | the free list has exactly the free entries, once each; no slot is handed out twice; a slot keeps its value until it is given back |
| **Ports and guards** (`arena/port.rs`) | the arena's lock (shared, upgradable, exclusive), one lock per tree with the tree's `Bounds` in it, the guards alive | `Port::read`, `write`, `alloc`; `PortAllocGuard::insert`, `remove`, `downgrade`; the drop of a guard | one allocator at a time; a tree that changes is nobody else's; the vector moves only when nobody has a reference into it; space found is still there at the insert; every guard that is asked for is granted |
| **Tree core** (`tree/mod.rs`, `tree/interface.rs`) | per node: key, value, cumulant, color, `parent`, `children`, `order` (neighbours by key); per tree: `root`, `range` (first and last node), `black_height` | `insert`, `remove`, `get`, `contains`, `search` and `search_by`, `min`, `max`, `range`, `clear`, `cumulant`, with `search`, `insert_at`, `fix_insert`, `remove_at`, `fix_remove`, `rotate`, `replace`, `propagate_cumulant` under them | links agree in both directions; the red-black rules hold and `black_height` is the height of the tree; the thread is the in-order sequence and the range its ends; the tree is an ordered map; cumulants are current; loops end; no `unwrap` meets a `None` |
| **Join and split** (`tree/mod.rs:542-687`, `tree/interface.rs:37-307`) | that of two or three trees at once | `union_disjoint`, `union_merge`, `join`, `join_unchecked`, `split`, `split_node`, `split_at_root`, with `insert_node` and `remove_node` | keys are neither lost nor doubled; each result is a red-black tree with its own root, range, thread and height; no node in two trees |
| **Draining** (`clear` in `tree/interface.rs:370`, `IntoIter` in `tree/iter.rs:116`) | the tree's bounds, how far the iteration is | `clear`, `IntoIter::next`, `next_back` and its drop | every node is freed once, none after it is gone, and an empty tree is like a new one |
| **Iterators** (`tree/iter.rs`) | the two ends of what is left | `Iter`, `IterMut`, `Filter`, `FilterMut`, with `limit` and `closest`, which place the ends of a range | each key of the range once, in order, from both ends; the ends are the closest keys inside the bounds |
| **Cursors** (`tree/cursor.rs`) | the node a cursor stands at | `Cursor`, `CursorMut`, `CursorAlloc`: moves, `value_mut`, `remove_*`, `iter_below` | a cursor stands at a live node of its tree; what it changes leaves the tree correct |
| **Sorted construction** (`tree/iter.rs:262`) | none | `from_sorted_slice_unchecked`, `from_sorted_iter` | the tree built is a threaded red-black tree of the given keys |
| **Values** (`tree/node.rs`) | a value's local part and cumulant | `Value::new`, `update_cumulant`, `ValueMut` and its drop | a change through a `ValueMut` reaches all cumulants above |
| **WeakForest** (`lib.rs`) | the shared arena | `new`, `with_capacity`, `insert` (a new tree) | trees share slots and nothing else |
| **Length estimate** (`tree/interface.rs:476`) | none | `len_estimate` | trees called empty or single are; the number is an upper bound on the length |
| helper macros, trait aliases | none | `discard!`, `option!`, `Reader`, `Writer` | |
| tests | none | | `validate_rb_node`, `validate_rb_tree` state the red-black rules |

### How they interact

A `Tree` has a port; `read`, `write` and `alloc` on it take the arena's lock and then the port's
and return a guard. All operations of the tree core are calls on such a guard: they read and
change nodes through the guard's reference to the arena, and root, range and height through its
reference to the port's `Bounds`. `insert` calls the search, `PortAllocGuard::insert`, then
`insert_at` and `fix_insert`; `remove` calls the search, `remove_at`, `fix_remove`, then
`PortAllocGuard::remove`. `PortAllocGuard::insert` upgrades the arena's lock when the vector must
grow. The union and join calls take a second guard, of another tree, while the first one is held;
the drop of a `ValueMut` takes a lock of the tree it was taken from. There are no messages, no
callbacks but the caller's comparison, merge, filter and cumulant functions, and nothing is persisted.

`union_*` and `split` recur: `split_node` splits a tree at its root, splits the half that has the key, and
joins what comes back with the other half; `union_merge` splits both trees and joins the merged
halves. Between those steps a root is in no tree and only the call knows it. An iterator, filter or
cursor has its tree's guard, so that tree stands still but for the caller's writes; `IntoIter` has
the tree and takes a guard per item, and between two items other trees use the slots it gave back.

### What is hard

* *Long sequences of calls.* A wrong link, color, height or free-list entry shows many calls
  later, sometimes in another tree, once the slot is reused.
* *Loops that repair.* The red-black rules are broken while `fix_insert` and `fix_remove` run, in
  ways each next turn counts on.
* *Hand-kept copies.* `black_height`, `range`, the thread and the cumulants repeat what the links
  say; each is updated in places of its own.
* *Interleavings of guards*, with an upgrade in the middle of an insert, and references into a
  vector that can move.
* *Trees taken apart.* A union or split moves nodes between handles one by one; each move must be
  matched by root, range, thread and height of both sides.
* *Waiting.* Two locks per guard, an upgrade that asks for the first lock again, guards nested
  in guards.

`PROJECT.json` lists each hazard at its line, with the properties that cover it, or the reason why
none does yet.

## 2. Modules

| Module | What it is |
| --- | --- |
| `OrderedMap` | abstract: a forest is a family of ordered maps; `insert`, `remove`, `get`, `search` |
| `RBTree` | the tree core, all trees of a forest over one set of slots |
| `RBTreeInvariants` | its invariants and properties, and the refinement mapping to `OrderedMap` |
| `RBTreeLaws` | the inductive invariants behind the proofs about links, threads, searches, colors, heights and cumulants |
| `TreeLaws` | what rotating, hanging, unlinking and threading do to any search tree; `Subtree` and `Path` as the least closed sets they are meant to be; proved |
| `RBTreeLinks` | type correctness; the laws, and with them `LinksAgree` and `Threaded`, action by action; `OtherTreesUntouched` and the refinement `ImplementsOrderedMap`; proved |
| `RBTreeBalance` | colors and heights, and with them `RedBlack` and `NoPanic`, action by action; where cumulants may be stale, and with it `CumulantsCurrent` for clients that never overwrite; proved |
| `MCRBTree` | instances for TLC: view, clients, a cumulant that is a sum |
| `SortedBuild` | a whole tree from sorted items, as operators on positions |
| `MapForest` | abstract: maps that come and go, are united, merged and split in one step |
| `JoinSplit` | how `join_unchecked` hangs a pivot and a tree into another, and `split_at_root` takes a root out |
| `Forest` | calls on whole trees; uses the steps of `RBTree` for what they do in one tree |
| `ForestInvariants` | the invariants of both in the middle of such a call, and the mapping to `MapForest` |
| `ForestLaws` | the inductive invariant of such a call: which frames lie on which, and who holds which handle and node |
| `RBTreeJoins` | what the operators of `JoinSplit`, a node that is hung or kept, and a tree that is gone do to the laws of the trees; proved |
| `ForestHands` | the inductive invariant over the steps that only move handles and nodes from hand to hand; proved |
| `ForestProofs` | the steps that change trees, and with them `NodesOwnedOnce`, `Threaded`, `RedBlack`, `NoPanic` and `ForestCumulants` for whole forests; proved |
| `MCForest` | instances for TLC: four kinds of clients |
| `Traversal` | abstract: each key comes once, in order, from either end; a cursor moves to neighbours |
| `Walk` | iterators, filters, cursors and the draining iterator, over the state of `Forest`; its invariants, and the mapping to `Traversal` |
| `MCWalk` | the instance for TLC |
| `Pool` | abstract: an allocator of numbered slots |
| `Arena` | the arena: vector, capacity, free list; its invariants, and the refinement mapping to `Pool` |
| `ArenaProofs` | type correctness, the free list, and the refinement, proved |
| `MCArena` | the instance for TLC |
| `Ports` | the locks and guards; uses the actions of `Arena` (by `INSTANCE`) for what an alloc guard does to it |
| `PortsProofs` | the safety of the locking, proved, on top of `ArenaProofs` |
| `MCPorts` | instances for TLC: who nests which guards |

### RBTree and the code

Slots of the arena are the members of `Index`; `key[n] = None` says that slot `n` is free. A node's
fields are functions from `Index`; a tree's `Bounds` are `root`, `range` and `black_height`,
functions from `Trees`. Side 0 stands for left and previous, side 1 for right and next, as the
const parameter `I` of the code does.

One call is in flight at a time. The code lets calls on *different* trees overlap: `insert` and
`remove` hold the arena's one upgradable lock (`OneAllocator` below), but every other guard shares the
arena. Nothing is lost by that. A call that changes a tree has it borrowed `&mut` and holds its lock
exclusively (`ChangesAlone`), so nobody sees that tree in between, and it reads and writes nodes and `Bounds`
of its own tree only (`OtherTreesUntouched`, `BystandersUntouched`); of the free slots it takes any one. So its steps
commute with the steps of calls on other trees, and a tree goes through the same states whatever
calls run beside. What such calls do wait for are the locks: that is `Ports`. The call's local variables are the registers `call`, `node`, `ptr`, `par`, `dir` and
`pc`. Each turn of a loop is an action of its own, which is what lets invariants speak of what
holds inside the loops:

| Code | Actions |
| --- | --- |
| `search`, `search_by` | `CallOp` (the look at the range), `Descend` (one turn of the loop) |
| `get`, `contains`, `search` | `Get`, `Search` |
| `insert` | `InsertHere`, `InsertEmpty`, `InsertAt` (with `insert_at`) |
| `fix_insert` | `FixInsertDone`, `FixInsertRecolor`, `FixInsertInner`, `FixInsertOuter`, `Blacken` |
| `rotate`, `replace` | `Rotate`, `ReplacedParent`, `ReplacedChild`, `ReplacedRoot` |
| `propagate_cumulant` | `Propagate` (one node) |
| `remove`, `remove_at` | `RemoveMiss`, `RemoveHere`, `UnlinkOneChild`, `UnlinkLeaf`, `UnlinkLast`, `Unthread`, `Free` |
| `fix_remove` | `FixRemoveRedSibling`, `FixRemoveCloseNephew`, `FixRemoveFarNephew`, `FixRemoveRecolor` |

Where the code unwraps an `Option`, or has an arm that panics, the guard of the action says that it
is there. `NoPanic` says the same as an invariant, and TLC's deadlock check would stop at a call
that cannot go on. Free slots are blank in the model, so that states that differ in garbage are
one state; `FreeSlotsBlank` and the absence of links into them is part of what is checked.

`V::has_cumulant()`, the default and `$updatebody` are the constants `HasCumulant`,
`DefaultCumulant` and `Combine`.

### Forest and the code

`trees` are the handles in use. A call on whole trees is a `stack` of frames, the running one first; `at`
says where in the code a frame stands and its other fields are the frame's locals. What a frame
returns is left in `back` (left tree, node, right tree), where the frame below finds it. While
`insert_node` or `remove_node` works in a tree, `pc` and the registers of `RBTree` say where, and the
steps are those of `RBTree`; a frame goes on when `pc` is `"idle"`. A call starts when no other is in
flight (`Idle`). In the code a union or a split shares the arena's lock (`read` and `write` guards; only
giving back a slot takes the upgradable one), and calls on other trees, unions among them, run in between. They have no tree
in common: `union_*` and `split` own their trees, the other calls have theirs borrowed `&mut`, and the trees that `split_at_root` and
`split_node` make are the call's own. A call touches nodes and `Bounds` of these trees only
(`NodesOwnedOnce`: no node is in two of them; `BystandersUntouched`), so steps of two calls
commute, and one call at a time shows every state that its trees can be in. How such calls wait
for each other's locks, in one case for ever (finding 3), is `Ports`. The bottom frame also keeps the bindings
that the trees had when the call came (`was`), a history that no step reads and the mapping to
`MapForest` needs. `Trees` bounds the handles in use at once: a step that makes a tree waits for one that is not
in use (`trees # Trees`), where the code has no such bound.

| Code | Actions |
| --- | --- |
| `WeakForest::insert`, `insert_sorted_*`, `from_sorted_slice_unchecked` | `InsertSorted` (with `Build`) |
| `clear` | `Clear` |
| `insert_node`, `remove_node` | `StartInsertNode`, `LinkNode`, `MergeDuplicate`, `LoseDuplicate`; `StartRemoveNode`, `KeepNode` |
| `union_disjoint` | `CallUnion`, `UnionSmall`, `UnionOverlaps`, `UnionDisjoint`, `JoinRemoved`, `UnionDone` |
| `union_merge` | `CallUnion`, `UnionSmall`, `MergeSplit`, `MergeRoot`, `MergeRight`, `MergeJoin`, `UnionDone` |
| `join`, `join_unchecked` | `JoinEmpty`, `JoinTrees`; `JoinDescend` (one turn), `JoinAttach` (with `Attach`) |
| `split`, `split_node`, `split_at_root` | `CallSplit`, `SplitOutside`, `SplitEnd`, `SplitInside` (with `SplitAtRoot`, `SplitHalves`), `Rejoin`, `SplitNodeDone`, `SplitDone` |
| `len_estimate` | `IsEmpty`, `IsSingle`, `IsSmall`; the number of `More` is not modelled |

`SortedBuild` is `build_tree` without its recursion on slices: the recursion is a search for
the segment of which a position is the middle, and everything a node gets (children, parent,
color, neighbours, cumulant) is a function of that segment. A tree is built under one alloc guard
and is nobody's before it is done, so `Build` is one step.

The two ways in which `insert_node` meets a duplicate are actions of their own. `MergeDuplicate` ends in a
frame that never goes on, since the `ValueMut` it writes through waits for the lock of its own
guard (finding 2). `LoseDuplicate` is what an `unwrap_unchecked` of an `Err` may come to; it is undefined
behaviour, and the instance for TLC does not go there (see the clients below).

### Walk and the code

`walk` is the walk there is: the two ends of an iterator, the current node of a cursor, the stack
of a filter; `item` is what it returned last, with what the caller told it.

| Code | Actions |
| --- | --- |
| `iter`, `iter_mut`, `filter`, `filter_mut`, `cursor`, `cursor_at`, `into_iter` | `Iter`, `Filter`, `Cursor`, `CursorAt`, `IntoIter` |
| `iter_range` with `closest` | `IterRange`, `Closest` |
| `next`, `next_back` of `Iter` and `IterMut` | `IterNext`, on either side, with what the caller writes |
| `Filter::step`, `FilterMut::step` | `FilterStep`, with any answer of the caller |
| `CursorMove`, `iter_below` with `limit` | `MoveOrder`, `MoveParent`, `MoveChild`, `IterBelow` |
| the drops of `IterMut` and `FilterMut`, `update_cumulants` | `EndWalk`, `UpdatedCumulants` |
| `IntoIter::next`, `next_back`, its drop | `Drain`, `EndDrain` |

Meanwhile other trees are at work (`CallElsewhere`, `StepElsewhere`, the steps of `RBTree`): a walk has
the lock of its tree only, or, draining, none between two items. In `Traversal` nothing is said of
nodes. The keys still to come are read off keys, not off the thread, so that every step along the
thread has to land where the order of keys says.

### Arena and the code

`items` is the vector (from 1, the code's `Index` plus one), `capacity` what `Vec` has reserved. `Vec::reserve(1)`
may grow it by any amount, so `Grown` is a set. `Insert` is `PortAllocGuard::insert` as one step
(grow when full, then `insert_within_capacity`); `Remove`, `Write`, `Get`, `GetPair` are
`remove`, `get_mut` with an assignment, `get` and `contains`, `get_pair_mut`.

### Ports and the code

The lock is `parking_lot`'s `RwLock`, which is not part of the repository; it is modelled by how the code uses
it. The arena's lock is three variables (those that share it, the one that has the upgradable
access, the one with the writer bit); a port's lock is two. A thread that wants exclusive access takes
the writer bit, which keeps newcomers out, and waits until those inside have left. A guard goes
through the phases of its calls: `Ask`, `ShareArena` or `TakeUpgradable`, `SharePort` or
`ClaimPort` and `OwnPort`; then `FindRoom` or `Upgrade` and `Grow`, `Insert`; `Remove`,
`Downgrade`; and the drop, `DropArena` then `DropPort`, in the order of the guard's fields.

A thread has up to `Depth` guards and `Nested` says which guard it asks for inside which; only
the thread's latest call runs. `Borrowed` says whether the borrow checker's rule is assumed:
`Tree::write` and `Tree::alloc` take `&mut self`, so while a tree changes no *other thread* asks
for it. The rule is needed for progress and not for safety. Without it the locks deadlock even
with a guard per thread: a reader of the same tree has the arena shared and waits for the port
of an alloc guard, whose upgrade waits for that reader. All safety properties are checked and
proved without it.

## 3. Runs

| Run | Instance | What it shows |
| --- | --- | --- |
| `rbtree_shape` | 8 keys in one tree and 1 in another, 9 slots, each key bound at most once at a time | `TypeOK`, `LinksAgree`, `RedBlack`, `Threaded`, `NoPanic` at every step of every loop; `CumulantLaws` during calls and `CumulantsCurrent` between them; `OtherTreesUntouched`; `CallReturns`: every call ends |
| `rbtree_map` | one tree, 5 keys, 2 values, all calls | `ImplementsOrderedMap`: each call takes effect in one step, with the result of the ordered map; `LawsOnSubtrees`: the inductive invariants of section 4 |
| `forest` | up to 24 keys and slots, 8 handles | `TypeOK`, `RedBlack`, `Threaded` in the middle of unions and splits; `HandLawsNow`: the part of the inductive invariant of section 4 that is about frames and handles; `NodesOwnedOnce`, `ForestNoPanic`, `ForestCumulants`, `BystandersUntouched`; `ImplementsMapForest` |
| `walk` | 5 keys in a tree that is walked, 2 in another, 6 slots | `WalkTypeOK`, `SlotsAccounted`, `WalkCumulants`, `OnlyTheirOwnTree`; `ImplementsTraversal` |
| `arena` | 5 entries, 2 values, any growth | `TypeOK`, `FreeListExact`, `ImplementsPool` |
| `ports_exclusion` | 2 threads with 2 guards each, any nested in any, 2 trees, no borrow rule | `TypeOK`, `OneAllocator`, `ChangesAlone`, `SpaceReserved`, `GrowsAlone` |
| `ports_progress` | 3 threads with a guard each, 2 trees, borrow rule | no deadlock, and `Granted` |
| `rbtree_overwrite` | 3 keys | `CumulantsCurrent` is violated: finding 1 |
| `ports_valuemut` | 1 thread | `Granted` is violated: finding 2 |
| `ports_union` | 2 threads, 3 trees | `Granted` is violated: finding 3 |
| `ports_header` | 2 threads, 2 trees | `OnlyOwnItemsChange` is violated: finding 4 |
| `forest_join` | as `forest`, with every join | `RedBlack` is violated: finding 5 |

**The properties of the tree.** `LinksAgree`: a slot is blank or hangs in exactly one tree, by
links that agree in both directions, without cycles. `RedBlack`: no red node has a red parent and
every path has `black_height` black nodes, with two exceptions, the loop invariants of the code: the
cursor of `fix_insert` may be red below a red parent, and the side that `fix_remove` works on
lacks one black node. `Threaded`: the tree is a search tree, `order` leads to the neighbours by
key and `range` to the ends, also while a node is unlinked but not yet taken out of the thread.
The thread is right *during* `remove` only if one reads the slot to unlink as standing after
the key it was traded for (`Rank`). `CumulantLaws`: while a call runs, a cumulant that is out of date is one
that `propagate_cumulant` will still pass on its way up, or, after the first rotation for a red close nephew,
the one that the next rotation lifts onto that way.

**The properties of the forest.** `NodesOwnedOnce`: every slot in use hangs in one tree that still
has a handle, or is in the hands of the call, and a tree that was consumed has nothing left.
`ForestNoPanic`: what the callers of `join` and `insert_node` take for granted when they unwrap
unchecked, and what the SAFETY comments of `join_unchecked` ask for. `ForestCumulants`: current whenever no
step of a tree is in flight, also between two steps of a merge. `BystandersUntouched`: a call
leaves the trees it was not given alone. `ImplementsMapForest`: whole trees are united, merged or split in one
step, with the right result, however many joins and splits that took.

**The properties of the walk.** `SlotsAccounted`: every slot in use is a node of exactly one tree, also of one that
is half drained. `WalkCumulants`: current once a walk that wrote is over. `OnlyTheirOwnTree`: a
walk changes its own tree only, and a call never one that is walked. `ImplementsTraversal`: every key comes once with its
value, in order, from whichever end; a filter comes to all keys it was not told to leave out, and
the ends of a range are right.

**Bounds of the tree.** Eight keys give trees of height four, with every case of both repair
loops and both mirror images, but none that is black through and through; `forest` adds trees of up to 22 keys
inserted in falling order, whose higher half is all black, and there `fix_remove` goes up two levels and on. Every slot number can be
exchanged for another and no step compares slots, so a state is identified up
to its slots by the view `KeyView` (a slot is named by its key, and a key is in one tree only). The
view leaves `ret` out, which no action reads. Keys are compared only, so the order
1, 2, ... stands for any. The sum of `SumModulo` is modulo 11, or 31 in the larger instances, so that
states are finite; a value that is its own key makes different subtrees have different sums.

**Bounds of the forest.** Calls on whole trees take tens of steps, so what matters is from where they
start. There are four kinds of clients. Some build two trees of any of the keys 1 to 5, with up to two keys in common, and
merge them: every way in which two small trees interleave. Some insert, remove, unite and split on three keys
without end: trees that are empty or single, and handles that come and go. Some build trees of
consecutive keys that end at 2, 17, 22 or 24, unite them to one, split it at any key, or clear them: heights that lie
far apart, joins that go down several levels, and splits that join again all the way up. And some fill one tree
in falling order and empty it from its ends, for `fix_remove`.
Three situations are left out, by the clients or by `Halted`: a join that meets a red node (finding 5, a
run of its own), the step after `MergeDuplicate` (finding 2) and a single node given to
`union_disjoint` whose key the other tree has, which is undefined behaviour (below). In `ForestView` a slot is named by
its key and its place among the slots with that key, a handle by the lowest key of its
tree: no action reads either number but to choose the least free one.

**Bounds of the walk.** Five keys and every removal from them give each shape of tree of up to five nodes
that the calls reach; two other keys come and go in the slots that are left or given back. A
walk writes one of two values. A draining iterator is dropped at its end only (below), and ranges
are those at whose ends `closest` is right (below).

**Bounds of the arena and the ports.** With five entries free lists of every order up to five
occur, and growth by one or by more, on an empty and on a full list. Two threads with two guards
have four guards at a time, enough for every pair of kinds on same and on different trees, in one
thread and in two. Growth is bounded by `MaxItems` (memory); an alloc guard at that bound does not
insert. In `ports_progress` one entry of memory is enough for one growth in a run, at
which everybody waits.

**Fairness.** `CallReturns` assumes weak fairness of the call in flight (`Step`): a thread inside a call
runs on. `Granted` assumes strong fairness of taking a lock, since `parking_lot` calls its
locks eventually fair; strong fairness of dropping a guard, since guards live as
long as a scope of the client; and weak fairness of the steps inside a call.

**Deadlock** is checked everywhere but in the runs of the ports with `Depth = 2`, in which
nesting any guard in any other may deadlock and clients may be stuck, as the findings show, and in `ports_header`, which is
about safety only.

Every property of a passing run has a mutant in `PROJECT.json`: a definition with a plausible
bug, written just above the correct one and marked "faulty", with which TLC finds the property
violated.

### Findings

1. *Overwriting a key resets its cumulant* (`tree/interface.rs:329`). The value is replaced by a
   fresh `V::new(value)`, whose cumulant is the default, and no ancestor is updated.
2. *Dropping a `ValueMut` waits for itself* (`tree/node.rs:49`). The drop takes the port's write
   lock, which the guard the value was borrowed from still has.
3. *A union can deadlock with an insert on a third tree* (`tree/interface.rs:40`). Between its two
   guards another thread starts to grow the arena: the upgrade waits for the first guard, and
   the second guard for the upgrade.
4. *The header of the arena is changed beside its readers* (`arena/port.rs:135`). An insert
   without growth, and a remove, write `free`, `len` and the vector's length under a lock that
   others share, who read them in each `get`; the SAFETY comments promise that only items of the own
   port are changed.
5. *A join can put the pivot, red, above a red node* (`tree/mod.rs:604`).
   `join_unchecked` goes down as many black nodes as the heights differ and stops at the next node whatever
   its color. A red one becomes the child of the pivot, which is red too; `fix_insert` looks up
   from the pivot only. `validate_rb_node` in the tests asserts that there are no two red nodes in a row.

Places where the code does something else than its documentation or its tests say and which no run
shows, since one call is enough to see it in the source:

* `clear` (`tree/interface.rs:376`) leaves the black height, while `test/mod.rs:96` asserts that an empty
  tree has none. It is harmless: `RedBlack` and `ForestNoPanic` hold with it, as whoever fills an empty
  tree sets the height.
* `closest` (`tree/mod.rs:525`, `:529`, `:532`) takes the neighbour outside the range where the search ends outside, or
  where `INCLUSIVE` is set and the key is there; `iter_range` (`tree/iter.rs:171`) promises an iterator confined
  to the range.
* `value_mut` of a cursor (`tree/cursor.rs:254`) gives out the whole value and updates no cumulant.
* `remove_order`, `remove_parent` and `remove_child` of `CursorAlloc` (`tree/cursor.rs:272`) free a slot that
  stays linked.
* `union_disjoint` of a single node whose key the other tree has (`tree/interface.rs:45`) unwraps an error unchecked.
* Filters are documented to go "breath-first" (`tree/iter.rs:423`, `:540`); their stack makes it depth-first, right before left.
* `IntoIter` is an `ExactSizeIterator` with the default `size_hint` (`tree/iter.rs:158`), and neither it
  nor `Tree` frees the nodes left in it when it is dropped.
* `len_estimate` (`tree/interface.rs:510`) shifts 1 by four times the black height plus one. From a black height of 16
  on that is 65 bits and more: a panic in a debug build, and in a release build the amount modulo 64, so that 1 is the
  "upper bound on the length" (`tree/interface.rs:484`) of a tree with 65535 nodes or more. No run has a tree of that height; at the
  heights that runs have, the estimate is so far above the length that a bound would show nothing.

## 4. Proofs

TLAPS checks the following for every value of the constants, under the `ASSUME`s of the modules
only: keys are integers, the arena has finitely many slots, `None` is none of the values and no
call, some value exists, the default is a cumulant and `Combine` yields one, `Merged` yields a value; bounds are natural
numbers.

* `RBTreeLinks`, first part: `TypeCorrect`, one lemma per group of actions. `TypeOK` is inductive as it
  stands since it says which registers are set at which `pc`: without that, `Free` could be
  taken at `None`.
* `RBTreeLinks`, second part: `LawsCorrect`, `LinksCorrect`, `ThreadCorrect`, for any number of slots, keys and trees and at every
  step of every loop. `LinksAgree` and `Threaded` are not inductive: they need each other (a rotation
  keeps the thread only because the tree is sorted, an insert finds its place in the thread only because
  the search ended where it should), they need the loop invariants of `search_by`, `fix_insert` and
  `fix_remove`, and they are stated over reachability, which no prover unfolds. `Laws(D, rk)` is the
  strengthening. Its ghosts are the subtree `D[n]` and the place in the key order `rk[n]` of every node;
  `Shape` and `Thread` say by finitely local conditions that the links fit them, `SearchLaws` and `UpdateLaws` where
  the registers stand. `LawsHold` says that such ghosts exist. A step is proved by writing the new
  ghosts down: a rotation exchanges two subtrees, an insert adds the node to those of its ancestors, and
  the trade of `remove_at` changes the ranks of two nodes and no subtree. TLC checks the laws with the
  ghosts computed (`LawsOnSubtrees` in the run `rbtree_map`).
* `TreeLaws` has what these proofs need of the helpers, one lemma per way of rewiring, about arbitrary functions
  on slots; sides are a variable, so left and right are proved once. It also connects the ghosts to
  the closures that TLC computes: a closure is defined by a function that refers to itself, so the lemmas
  build one that satisfies its equation, from the finiteness of `Index`, and show that there is no other.
* `RBTreeBalance`: `BalanceCorrect`, `ColorsCorrect`, `PanicFree`. `RedBlack` counts black nodes along
  whole paths, so a rotation would change the count of every leaf below it. `BalanceLaws(h)` has a
  ghost height per node instead: `HeightLaws` compares the two children of each node, less the one black
  node that the side `par`, `dir` lacks while `fix_remove` runs (`Deficit`), and a step changes the height of
  at most the three nodes it turns or recolors. `RepairLaws` is what the branches of the loops rely on
  without looking again: the black uncle of `rotate_outer`, the black sibling and the red far nephew of
  `fix_remove`, the short side that is not red, which is why its sibling must exist. `RedBlack` follows since the
  black nodes above a place are the tree's height less the place's own, and that difference satisfies the equation that
  defines `BlackDepth`. `PanicFree` combines all laws: what an `unwrap` needs is sometimes a link (`Laws`)
  and sometimes a height (a sibling of a short side cannot be `None`).
* `RBTreeBalance`, last part: `StaleOnTheWay`, `CumulantsCorrect`. `CumulantsCurrent` says nothing of the middle of a call. The
  strengthening is `CumulantLaws`: the stale nodes are on the path up from `Focus`, the node from which
  the call will propagate, and the loops rotate on that path, so that the node a rotation takes down (the
  only one it updates) and the one it lifts stay on it or are current. The one exception is the close
  nephew between the two rotations of `fix_remove`. The proofs use `Way`, the least set with `Focus` that is
  closed under parents, and `WayIsPath` says that this is `Path`; what unlinking, trading and rotating do to
  the way up is a lemma each. That the sibling of a rotation exists needs the heights, so the induction is
  relative to `Laws` and `BalanceLaws`. The hypothesis `NeverOverwrites`, no `InsertHere`, is what finding 1 asks
  for; the clients of `rbtree_shape` satisfy it, with all inserts, removes and searches, and those of
  `rbtree_overwrite` show that it cannot be dropped.
* `RBTreeLinks`, last part: `OtherTreesCorrect` and `TreesAreMaps`, from the laws. Every slot a step writes is the new
  one, the one cut off, or reached from the registers by at most three links, and the trees are closed
  under links and disjoint; so the other trees stay as they are. For the refinement that settles most of the
  work: `Owned` says that the members of the trees partition the live slots, so the called tree has
  after a step what the others leave (`OwnMembers`), and no action needs an argument of its own about
  reachability. What is left is `DictLaws`, the map read off the keys of the members, which are distinct
  (`KeysUnique`), and for each action which bindings it changes (`SameBindings`, `NewBinding`). `Search`
  answers right because the loop invariant `SearchLaws` says that no key lies between `call.key` and
  the node where the search ended. An insert takes effect when it returns, with the value it was given
  (`NewValue`, a small invariant of its own).
* `ForestProofs`, on `ForestHands` and `RBTreeJoins`: `ForestCorrect`, and from it `ForestTypeCorrect`,
  `NodesOwnedOnceCorrect`, `ForestThreadCorrect`, `ForestColorsCorrect`, `ForestPanicFree` and
  `ForestCumulantsCorrect`, for any number of trees, slots and keys and any depth of the recursion. The idea is
  the *shadow* `S`, the same trees with the keys of the nodes in hand blotted out (`HungKey`). In `S` the slot of such a
  node looks free, since it hangs nowhere. So the laws of the tree core can be stated of `S` as they
  are, and a step of `Forest` is, in `S`, one of a few kinds: a step of `RBTree` (`NextKeeps`), a node
  hung or taken out that keeps its slot (`HangKeeps`, `FreeKeeps`), trees that are gone (`GoneKeeps`), a root cut out
  (`HalvingKeeps`), a tree hung into another (`AttachKeeps`). `RBTreeJoins` proves each of them, with the ghosts of
  the laws written down: `Attach` gives the nodes above the pivot the lower tree's nodes as well, the halves of
  a split keep their subtrees and heights. For a join that is `JoinPlace`: the way down
  follows the end of the higher tree, and as many black nodes as `diff` says are still below (`GoingDown`), which
  is why it ends where the heights are equal. What is left is bookkeeping of hands: `StackLaws`, which frame can
  wait for which, and no handle or node in two hands; `BackLaws`, that the last result is of the kind that the frame on
  top waits for; `RegisterLaws`, that the operation in flight is that of the frame on top. A frame that ends deals
  out what it held (`StackStep`), and each action is one case of that. TLC checks these laws in the run `forest`
  (`HandLawsNow`). `FreeSlotsBlank` is kept apart from the laws of the trees, for a node in hand may have links left,
  and so are, for `RedBlack`, cycles among such nodes (`SlotLaws`).

  The theorems have the hypothesis `[][Ordinary]_fvars`, which says three things of the steps. A
  join does not end its way down at a red node: there `RedBlack` is broken (finding 5). No
  duplicate is lost: `union_disjoint` of a single node whose key the other tree has is undefined behaviour (section 3).
  And `InsertSorted` makes an empty tree, as `WeakForest::insert` does; what `Build` makes of more items is a recursion over
  them. `ForestCumulantsCorrect` also assumes that no insert overwrites a value (finding 1): its invariant carries, as one more
  ghost, whether that is so yet (`Tended`).
* `ArenaProofs`: `TypeCorrect`, `FreeListCorrect`, `ArenaIsPool`. The inductive invariant is
  `TypeOK /\ FreeListExact`. Neither part is inductive alone: an insert reads its new head from the
  entry at the old one, which must be free to have a `next`, and the vector stays within its
  capacity only because a full arena grows. Each operation is first reduced to how it changes
  the sets of free entries and links, then `TakeKeeps`, `GiveKeeps` and
  `OverwriteKeeps` show the five parts of `FreeListExact` for such a change. `NoCycle` is stated over sets of
  entries, which needs no induction along the list.
* `PortsProofs`: `OneAllocatorCorrect`, `ChangesAloneCorrect`, `GrowsAloneCorrect`, `TypeCorrect`,
  `SpaceReservedCorrect`, for any number of threads, guards and trees, any nesting and with or
  without the borrow rule. `LockInv` says that the lock variables are exactly what phases and
  kinds of the guards imply, in both directions, and that a pending upgrade has given up the upgradable
  access; the first three theorems follow from it. The other two add the invariant of the
  arena, whose preservation is taken from `ArenaProofs` by `INSTANCE`, and use that only one
  alloc guard exists: nobody else can fill the room one has found.

What the proofs do not reach: liveness under fairness and `ENABLED` (`CallReturns`, `Granted`);
induction over data, such as the size of a tree, and with it what `SortedBuild`, `Limit` and `UpdatedCumulants`
compute. `CumulantsCurrent` is false in general (finding 1), so its theorem is about clients
that never overwrite a key, as is the run that checks it. Of `Forest`, `ImplementsMapForest`,
`BystandersUntouched` and the parts of `ForestNoPanic` that are about keys are model-checked, not proved; so are all properties
of `Walk`, and `LawsOnSubtrees`, which only says that the ghosts of the laws can be computed.

## 5. Not modelled

* **Of the tree core**: the writes through `get_mut`, `get_pair_mut` and `get_mut_with`. They hand out a
  `ValueMut`, whose drop never comes back (finding 2), so there is no state after one; the
  wait itself is in `Ports`. A comparison that is not a total order, or panics, is not considered: keys are
  integers. `search_by` is the search for a key: the client's function is taken to be monotone.
* **Of the ports**: the accessors, which change no state of the port, and `split_with_meta` and `free`, which make and give up a
  port without a lock; `Forest` has what they do to the `Bounds`. The contents of nodes are left to `RBTree`.
* **Of the cursors**: `value_mut` and the removals. Each breaks the tree by what it does, at once and for
  good (section 3), so there is nothing to explore after it.
* **Of the iterators**: an `IntoIter` that is dropped half way; its nodes have no owner from then on, and no call reaches
  them.
* **The composition of walks with locks**: `Walk` takes the guard of a walk for granted. That a guard
  keeps its tree to itself is `ChangesAlone`; that a walk needs no more than that is what
  `OnlyTheirOwnTree` checks.
* **Overlapping calls**: calls on different trees are interleaved only in `Ports` (locks) and `Walk` (a walk beside a call).
  `RBTree` and `Forest` have one call at a time, which is enough because the steps of calls with no tree in common
  commute (section 2); that the second guard of a union may never come is finding 3.
* **The number that `len_estimate` gives**: section 3. No call uses it.
* **Nothing to model**: helper macros, trait aliases, `Debug` output and tests.
* **Memory**: an allocation failure of `Vec` ends the program, and the width of `Index`
  (a `usize` below its maximum) is beyond any arena that fits in memory.

## 6. Plan

The order puts what every other operation rests on first. Done: 1 to 8.

1. `OrderedMap`, `RBTree`, `RBTreeInvariants`: the tree core; type correctness proved.
2. `Pool`, `Arena`: the allocator; free list and refinement proved.
3. `Ports`: locks and guards over `Arena`; safety proved.
4. `MapForest`, `Forest`, `ForestInvariants`: join, split, unions, `clear`, trees that come and go.
5. `SortedBuild`: construction from sorted items, as the first step of every forest and walk that TLC makes.
6. `Traversal`, `Walk`: iterators, ranges, filters, cursors and draining.
7. `RBTreeLaws`, `TreeLaws`, `RBTreeLinks`, `RBTreeBalance`: proofs about the tree core, of all
   its safety properties.
8. `JoinSplit`, `ForestLaws`, `RBTreeJoins`, `ForestHands`, `ForestProofs`: proofs about unions, splits and `clear`.
9. Open: that the keys of the trees of a union stay on their sides, and with it the rest of `ForestNoPanic` and
   `ImplementsMapForest`; type correctness of `Walk`; `Build` of any number of items.
