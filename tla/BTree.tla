-------------------------------- MODULE BTree --------------------------------
(***************************************************************************)
(* The B+tree of a table (src/btree).                                      *)
(*                                                                         *)
(* A page is a leaf with its cells in key order, an interior page with a   *)
(* separator to the right of each child and a rightmost child, a page of   *)
(* an overflow chain, or free.  Sizes are counted in units of a leaf cell; *)
(* a replaced cell keeps its space until the page is rebuilt.  The content *)
(* of a row is the number of the insert that wrote it.                     *)
(***************************************************************************)
EXTENDS Integers, Sequences, SequencesExt, FiniteSetsExt

CONSTANTS
  MaxKey,    \* keys are 1 .. MaxKey
  MaxPage,   \* bound: pages are 1 .. MaxPage
  MaxWrites, \* bound: inserts and deletes
  MaxDepth,  \* bound: the pages that one insert may split
  Roots,     \* the pages that may be the root; page 1 holds the file header too
  PageRoom,  \* units of cells that a page holds
  Page1Room, \* and page 1
  Fanout,    \* separators that an interior page holds
  Shapes,    \* the rows of each key: [size |-> units in the leaf,
             \* chunks |-> overflow pages]
  Workload   \* subset of {"append", "fitting", "new", "replace"}: which keys are
             \* inserted, behind all others, where they fit, not there yet, or there

ASSUME BTreeAssumption ==
  /\ MaxKey \in Nat /\ MaxWrites \in Nat /\ Roots \subseteq 1 .. MaxPage
  /\ Fanout > 1 /\ Page1Room <= PageRoom
  /\ \A k \in 1 .. MaxKey : \A s \in Shapes[k] : s.size \in 1 .. Page1Room /\ s.chunks \in Nat

VARIABLES
  root,    \* the root, which never moves
  page,    \* the pages
  highest, \* the highest key ever inserted
  writes   \* inserts and deletes so far

vars == <<root, page, highest, writes>>

Key    == 1 .. MaxKey
Page   == 1 .. MaxPage
Free   == [kind |-> "free"]
Absent == <<>>
NoSplit == [right |-> 0, key |-> 0]

Room(p) == IF p = 1 THEN Page1Room ELSE PageRoom

\* The first n elements of a set of numbers, in order.
Least(n, S) == [i \in 1 .. n |-> CHOOSE x \in S : Cardinality({y \in S : y < x}) = i - 1]

\* The n pages that the pager hands out next.
Fresh(pg, n) == Least(n, {p \in Page : pg[p] = Free})

-----------------------------------------------------------------------------
(* Overflow chains.                                                        *)

\* write_overflow_chain
WriteChain(pg, id, n) ==
  LET ps == Fresh(pg, n)
      At(p) == CHOOSE i \in DOMAIN ps : ps[i] = p
  IN  [p \in Page |->
         IF p \in ToSet(ps)
           THEN [kind |-> "overflow", id |-> id,
                 next |-> IF At(p) = n THEN 0 ELSE ps[At(p) + 1]]
           ELSE pg[p]]

\* The pages of the chain that starts at p.
RECURSIVE Chain(_, _)
Chain(pg, p) ==
  IF p = 0 THEN <<>>
  ELSE IF pg[p].kind # "overflow" THEN <<p>>
  ELSE <<p>> \o Chain(pg, pg[p].next)

\* Fault: the chain of a row that is gone is kept.
FreeChainKept(pg, p) == pg

\* free_overflow_chain
FreeChain(pg, p) ==
  LET gone == ToSet(Chain(pg, p)) IN [q \in Page |-> IF q \in gone THEN Free ELSE pg[q]]

\* read_overflow_chain: what a page that was freed or used again holds is lost.
Payload(pg, c) ==
  LET chain == Chain(pg, c.chain)
  IN  <<c.id>> \o [i \in DOMAIN chain |->
                     IF pg[chain[i]].kind = "overflow" THEN pg[chain[i]].id ELSE 0]

-----------------------------------------------------------------------------
(* Leaves.                                                                 *)

Leaf(cells, lost) == [kind |-> "leaf", cells |-> cells, lost |-> lost]

Used(leaf) == leaf.lost + FoldLeft(LAMBDA n, c : n + c.size, 0, leaf.cells)

\* find_leaf_cell_index_by_key: the position of a key, or where it belongs.
Before(cells, k) == Cardinality({i \in DOMAIN cells : cells[i].key < k})
Holds(cells, k)  == \E i \in DOMAIN cells : cells[i].key = k
At(cells, k)     == CHOOSE i \in DOMAIN cells : cells[i].key = k

\* insert_leaf_cell_raw.  A cell is refused when it does not fit next to what it
\* would replace.
Fits(p, leaf, c) == Used(leaf) + c.size <= Room(p)

PutCell(leaf, c) ==
  IF Holds(leaf.cells, c.key)
    THEN LET i == At(leaf.cells, c.key)
         IN  Leaf([leaf.cells EXCEPT ![i] = c], leaf.lost + leaf.cells[i].size)
    ELSE Leaf(InsertAt(leaf.cells, Before(leaf.cells, c.key) + 1, c), leaf.lost)

\* A page built from cells: whatever is refused is dropped.
BuildLeaf(p, cells) ==
  FoldLeft(LAMBDA leaf, c : IF Fits(p, leaf, c) THEN PutCell(leaf, c) ELSE leaf,
           Leaf(<<>>, 0), cells)

\* delete_leaf_cell_from_page, which rebuilds the page
DropCell(leaf, k) == Leaf(SelectSeq(leaf.cells, LAMBDA c : c.key # k), 0)

\* The cells of a full leaf and the new one, behind an old one with its key.
Merged(cells, c) ==
  InsertAt(cells, Cardinality({i \in DOMAIN cells : cells[i].key <= c.key}) + 1, c)

\* split_leaf_page.  A cell behind the last one goes to a page of its own.
SplitLeaf(pg, p, c) ==
  LET cells == pg[p].cells
      new   == Fresh(pg, 1)[1]
      all   == Merged(cells, c)
      mid   == Len(all) \div 2
  IN  IF p # 1 /\ Len(cells) >= 2 /\ c.key > Last(cells).key
        THEN [pg |-> [pg EXCEPT ![new] = BuildLeaf(new, <<c>>)],
              up |-> [right |-> new, key |-> Last(cells).key]]
        ELSE [pg |-> [pg EXCEPT ![new] = BuildLeaf(new, SubSeq(all, mid + 1, Len(all))),
                                ![p]   = BuildLeaf(p, SubSeq(all, 1, mid))],
              up |-> [right |-> new, key |-> all[mid].key]]

-----------------------------------------------------------------------------
(* Interior pages.                                                         *)

Interior(cells, right) == [kind |-> "interior", cells |-> cells, right |-> right]

\* Fault: a key that equals a separator is looked for behind it.
SlotsBehind(pg, p, k) == {i \in DOMAIN pg[p].cells : k < pg[p].cells[i].key}

\* The cell whose child a key belongs to; none when it is the rightmost child.
Slots(pg, p, k) == {i \in DOMAIN pg[p].cells : k <= pg[p].cells[i].key}

Child(pg, p, k) ==
  IF Slots(pg, p, k) = {} THEN pg[p].right ELSE pg[p].cells[Min(Slots(pg, p, k))].child

\* insert_interior_cell_into_page
PutSeparator(cells, c) ==
  InsertAt(cells, Cardinality({i \in DOMAIN cells : cells[i].key <= c.key}) + 1, c)

\* Fault: the new page gets the rightmost child from before the split below.
SplitInteriorStale(pg, p, c, right) ==
  LET all == PutSeparator(pg[p].cells, c)
      mid == Len(all) \div 2 + 1
      new == Fresh(pg, 1)[1]
  IN  [pg |-> [pg EXCEPT
                 ![new] = Interior(SubSeq(all, mid + 1, Len(all)), pg[p].right),
                 ![p]   = Interior(SubSeq(all, 1, mid - 1), all[mid].child)],
       up |-> [right |-> new, key |-> all[mid].key]]

\* split_interior_page
SplitInterior(pg, p, c, right) ==
  LET all == PutSeparator(pg[p].cells, c)
      mid == Len(all) \div 2 + 1
      new == Fresh(pg, 1)[1]
  IN  [pg |-> [pg EXCEPT
                 ![new] = Interior(SubSeq(all, mid + 1, Len(all)), right),
                 ![p]   = Interior(SubSeq(all, 1, mid - 1), all[mid].child)],
       up |-> [right |-> new, key |-> all[mid].key]]

\* A child was split: its separator is added in front of the one it had.  Only
\* the pointer to the rightmost child moves to the new page.
AddChild(pg, p, k, split) ==
  LET cell  == [child |-> Child(pg, p, k), key |-> split.key]
      right == IF Slots(pg, p, k) = {} THEN split.right ELSE pg[p].right
  IN  IF Len(pg[p].cells) < Fanout
        THEN [pg |-> [pg EXCEPT ![p] = Interior(PutSeparator(@.cells, cell), right)],
              up |-> NoSplit]
        ELSE SplitInterior(pg, p, cell, right)

-----------------------------------------------------------------------------
(* Search, scan, insert and delete.                                        *)

\* insert_into_subtree_cow, on a leaf
InsertIntoLeaf(pg, p, c) ==
  LET old == IF Holds(pg[p].cells, c.key) THEN pg[p].cells[At(pg[p].cells, c.key)].chain ELSE 0
  IN  IF Fits(p, pg[p], c)
        THEN [pg |-> FreeChain([pg EXCEPT ![p] = PutCell(@, c)], old), up |-> NoSplit]
        ELSE SplitLeaf(FreeChain(pg, old), p, c)

RECURSIVE InsertInto(_, _, _)
InsertInto(pg, p, c) ==
  IF pg[p].kind = "leaf" THEN InsertIntoLeaf(pg, p, c)
  ELSE LET below == InsertInto(pg, Child(pg, p, c.key), c)
       IN  IF below.up = NoSplit THEN below ELSE AddChild(below.pg, p, c.key, below.up)

\* A root that was split moves to a new page and becomes its parent.  The cells
\* of page 1 are inserted anew, those of another page are copied with it.
Grow(pg, up) ==
  LET left == Fresh(pg, 1)[1]
      old  == pg[root]
  IN  [pg EXCEPT
         ![left] = IF root = 1 /\ old.kind = "leaf" THEN BuildLeaf(left, old.cells) ELSE old,
         ![root] = Interior(<<[child |-> left, key |-> up.key]>>, up.right)]

\* BTreeStorage::insert
Inserted(k, shape, id) ==
  LET pg    == WriteChain(page, id, shape.chunks)
      chain == IF shape.chunks = 0 THEN 0 ELSE Fresh(page, 1)[1]
      done  == InsertInto(pg, root, [key |-> k, id |-> id, size |-> shape.size, chain |-> chain])
  IN  IF done.up = NoSplit THEN done.pg ELSE Grow(done.pg, done.up)

\* The leaf in which the search for a key ends.
RECURSIVE LeafOf(_, _, _)
LeafOf(pg, p, k) == IF pg[p].kind = "leaf" THEN p ELSE LeafOf(pg, Child(pg, p, k), k)

\* BTreeStorage::search
Search(k) ==
  LET cells == page[LeafOf(page, root, k)].cells
  IN  IF Holds(cells, k) THEN Payload(page, cells[At(cells, k)]) ELSE Absent

\* BTreeStorage::scan_with: children from the left to the right.
RECURSIVE Scan(_)
Scan(p) ==
  IF page[p].kind = "leaf"
    THEN [i \in DOMAIN page[p].cells |->
            <<page[p].cells[i].key, Payload(page, page[p].cells[i])>>]
    ELSE FlattenSeq([i \in DOMAIN page[p].cells |-> Scan(page[p].cells[i].child)])
           \o Scan(page[p].right)

-----------------------------------------------------------------------------
(* The specification.                                                      *)

\* The key goes into the leaf it belongs to without a split.
Roomy(k, shape) ==
  LET p == LeafOf(page, root, k) IN Fits(p, page[p], [size |-> shape.size])

Allowed(k, shape) ==
  \/ "append" \in Workload /\ k > highest
  \/ "fitting" \in Workload /\ Roomy(k, shape)
  \/ "new" \in Workload /\ Search(k) = Absent
  \/ "replace" \in Workload /\ Search(k) # Absent

Init ==
  /\ root \in Roots
  /\ page = [p \in Page |-> IF p = root THEN Leaf(<<>>, 0) ELSE Free]
  /\ highest = 0 /\ writes = 0

Insert(k, shape) ==
  /\ writes < MaxWrites
  /\ Cardinality({p \in Page : page[p] = Free}) > shape.chunks + MaxDepth
  /\ Allowed(k, shape)
  /\ page' = Inserted(k, shape, writes + 1)
  /\ highest' = Max({highest, k}) /\ writes' = writes + 1
  /\ UNCHANGED root

\* BTreeStorage::delete: pages that become empty stay.
Delete(k) ==
  /\ writes < MaxWrites /\ Search(k) # Absent
  /\ LET p == LeafOf(page, root, k)
         c == page[p].cells[At(page[p].cells, k)]
     IN  page' = FreeChain([page EXCEPT ![p] = DropCell(@, k)], c.chain)
  /\ writes' = writes + 1
  /\ UNCHANGED <<root, highest>>

Next == \E k \in Key : Delete(k) \/ \E shape \in Shapes[k] : Insert(k, shape)

Spec == Init /\ [][Next]_vars

-----------------------------------------------------------------------------
(* Properties.                                                             *)

\* The pages are well formed and none holds more than fits.
TypeOK ==
  /\ root \in Page /\ highest \in 0 .. MaxKey /\ writes \in 0 .. MaxWrites
  /\ \A p \in Page :
       \/ page[p] = Free
       \/ page[p].kind = "leaf" /\ Used(page[p]) <= Room(p)
       \/ page[p].kind = "interior" /\ Len(page[p].cells) \in 1 .. Fanout
       \/ page[p].kind = "overflow" /\ page[p].next \in 0 .. MaxPage

\* The pages that a page refers to, once for each reference.
References(p) ==
  CASE page[p].kind = "leaf" ->
         SelectSeq([i \in DOMAIN page[p].cells |-> page[p].cells[i].chain], LAMBDA q : q # 0)
    [] page[p].kind = "interior" ->
         Append([i \in DOMAIN page[p].cells |-> page[p].cells[i].child], page[p].right)
    [] page[p].kind = "overflow" -> IF page[p].next = 0 THEN <<>> ELSE <<page[p].next>>
    [] OTHER -> <<>>

\* Every page of the file but the root is free, or referred to exactly once: none is
\* lost, none is shared by two rows.  And a scan meets the keys that a search finds,
\* once each, in order, with the rows that the search returns.
TreeIsSound ==
  /\ TypeOK
  /\ LET refs == FlattenSeq([p \in Page |-> References(p)])
     IN  \A p \in Page :
           Cardinality({i \in DOMAIN refs : refs[i] = p}) =
             IF page[p] = Free \/ p = root THEN 0 ELSE 1
  /\ LET found == {k \in Key : Search(k) # Absent}
         ks    == Least(Cardinality(found), found)
     IN  Scan(root) = [i \in DOMAIN ks |-> <<ks[i], Search(ks[i])>>]

\* An insert puts the row of its key and a delete removes it, and neither changes
\* any other row, however it splits pages: see OrderedMap.
Map == INSTANCE OrderedMap WITH
  Key <- Key, Absent <- Absent, Pieces <- {s.chunks + 1 : s \in UNION {Shapes[k] : k \in Key}},
  map <- [k \in Key |-> Search(k)], count <- writes

ImplementsMap == Map!Spec

=============================================================================
