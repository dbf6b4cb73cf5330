-------------------------------- MODULE BTree --------------------------------
(***************************************************************************)
(* The B-tree index of src/btree.cpp, alone in the file of its buffer pool.*)
(* A node fills a page; a page that was allocated and never saved reads as *)
(* an inner node without keys whose only child is page 0 (deserialize      *)
(* finds no text, so every field keeps its default).                       *)
(*                                                                         *)
(* An insertion loads the nodes on its way down first and then writes one  *)
(* page after another on its way up.  Each of these writes first asks the  *)
(* buffer pool for a frame, and that can throw (BufferPool.tla): the       *)
(* writes before it stay, the others never happen.                         *)
(*                                                                         *)
(* Keys are ordered texts without white space, which the text format of a  *)
(* page keeps apart; natural numbers stand for them.  That a node's text   *)
(* may be longer than its page (four keys of about a thousand characters)  *)
(* is left out.  The values are row ids, a new one with every insertion.   *)
(***************************************************************************)
EXTENDS Naturals, Sequences, SequencesExt, FiniteSetsExt, Picks

CONSTANTS Key,        \* the keys, ordered by <
          None,       \* std::nullopt
          NoPage,     \* INVALID_PAGE_ID
          ORDER,      \* BTreeNode::ORDER
          MaxInserts, \* bound on the number of insertions
          MaxBreaks   \* bound on those that throw between two writes

ASSUME BTreeAssumption ==
    /\ Key \subseteq Nat
    /\ None \notin Nat
    /\ NoPage \notin Nat
    /\ ORDER \in Nat \ {0, 1}
    /\ {MaxInserts, MaxBreaks} \subseteq Nat

VARIABLES nodes,      \* the pages, as BTreeNode::deserialize reads them
          root,       \* rootId_
          given,      \* history: every <<key, value>> passed to insert
          breaks      \* history: the insertions that threw between two writes

vars == <<nodes, root, given, breaks>>

Page == DOMAIN nodes

Leaf(keys, vals, next) ==
    [leaf |-> TRUE, keys |-> keys, vals |-> vals, kids |-> <<>>, next |-> next]
Inner(keys, kids) ==
    [leaf |-> FALSE, keys |-> keys, vals |-> <<>>, kids |-> kids, next |-> NoPage]
Unsaved == Inner(<<>>, <<0>>)

------------------------------------------------------------------------------
(* fault: a key equal to a separator is looked for on its left *)
ChildIndex_Strict(node, key) ==
    Min({i \in 1..Len(node.keys) : key <= node.keys[i]} \cup {Len(node.keys) + 1})

(* The child findLeaf and insertRec go on to: the one before the first     *)
(* separator that is greater than the key.                                 *)
ChildIndex(node, key) ==
    Min({i \in 1..Len(node.keys) : key < node.keys[i]} \cup {Len(node.keys) + 1})

ChildFor(node, key) == node.kids[ChildIndex(node, key)]

(* The pages from the root down to the leaf for key.                       *)
Path(key) ==
    LET Down[p \in Page] ==
          IF nodes[p].leaf THEN <<p>> ELSE <<p>> \o Down[ChildFor(nodes[p], key)]
    IN  Down[root]

FindLeaf(key) == Last(Path(key))

Search(key) ==
    LET leaf == nodes[FindLeaf(key)]
        Hits == {i \in 1..Len(leaf.keys) : leaf.keys[i] = key}
    IN  IF Hits = {} THEN None ELSE leaf.vals[Min(Hits)]

(* The entries of a page and of those its nextLeaf leads to.  The list may *)
(* lead to a page that was never saved, and ends there.                    *)
Entries(p)    == [i \in 1..Len(nodes[p].vals) |-> <<nodes[p].keys[i], nodes[p].vals[i]>>]
EntriesFrom(p) ==
    LET Walk[q \in Page] ==
          Entries(q) \o IF nodes[q].next = NoPage THEN <<>> ELSE Walk[nodes[q].next]
    IN  Walk[p]

(* rangeScan: what it meets before the first key past the range.           *)
RangeScan(from, to) ==
    LET met  == EntriesFrom(FindLeaf(from))
        stop == Min({i \in 1..Len(met) : met[i][1] > to} \cup {Len(met) + 1})
    IN  Picked(met, {i \in 1..(stop - 1) : met[i][1] >= from})

------------------------------------------------------------------------------
(* fault: the values of the greater keys are not moved along *)
WithEntry_ValuesStay(node, key, val) ==
    LET pos == Max({i \in 1..Len(node.keys) : node.keys[i] <= key} \cup {0})
    IN  [node EXCEPT !.keys = InsertAt(@, pos + 1, key),
                     !.vals = Append(@, val)]

(* A leaf with one more entry, behind those with the same key.             *)
WithEntry(node, key, val) ==
    LET pos == Max({i \in 1..Len(node.keys) : node.keys[i] <= key} \cup {0})
    IN  [node EXCEPT !.keys = InsertAt(@, pos + 1, key),
                     !.vals = InsertAt(@, pos + 1, val)]

(* An inner node with the new half of its child for key.                   *)
WithChild(node, key, up) ==
    LET i == ChildIndex(node, key)
    IN  [node EXCEPT !.keys = InsertAt(@, i, up.key),
                     !.kids = InsertAt(@, i + 1, up.page)]

Middle(node) == Len(node.keys) \div 2
First(s, n)  == SubSeq(s, 1, n)
From(s, n)   == SubSeq(s, n, Len(s))

(* fault: the new leaf does not take over the rest of the list *)
LeafHalves_ListCut(node, newPage) ==
    LET mid == Middle(node)
    IN  [left  |-> Leaf(First(node.keys, mid), First(node.vals, mid), newPage),
         right |-> Leaf(From(node.keys, mid + 1), From(node.vals, mid + 1), NoPage),
         key   |-> node.keys[mid + 1]]

(* splitNode: both halves and the key that goes up.  A leaf keeps the key  *)
(* in its right half, an inner node gives it away.                         *)
LeafHalves(node, newPage) ==
    LET mid == Middle(node)
    IN  [left  |-> Leaf(First(node.keys, mid), First(node.vals, mid), newPage),
         right |-> Leaf(From(node.keys, mid + 1), From(node.vals, mid + 1), node.next),
         key   |-> node.keys[mid + 1]]

(* fault: the key that goes up stays in the left half as well *)
InnerHalves_KeyStays(node) ==
    LET mid == Middle(node)
    IN  [left  |-> Inner(First(node.keys, mid + 1), First(node.kids, mid + 1)),
         right |-> Inner(From(node.keys, mid + 2), From(node.kids, mid + 2)),
         key   |-> node.keys[mid + 1]]

InnerHalves(node) ==
    LET mid == Middle(node)
    IN  [left  |-> Inner(First(node.keys, mid), First(node.kids, mid + 1)),
         right |-> Inner(From(node.keys, mid + 2), From(node.kids, mid + 2)),
         key   |-> node.keys[mid + 1]]

Halves(node, newPage) ==
    IF node.leaf THEN LeafHalves(node, newPage) ELSE InnerHalves(node)

(* An insertion on its way up: the page writes so far, in order, and what  *)
(* the last split hands to the parent, <<>> when there was none.           *)
Write(p, node) == [page |-> p, node |-> node]

(* The first page nobody has allocated yet.                                *)
FreshPage(writes) ==
    Max(Page \cup {writes[i].page : i \in 1..Len(writes)}) + 1

(* The end of insertRec: the changed node is saved, or split.              *)
Saved(writes, p, node) ==
    IF Len(node.keys) <= ORDER
      THEN [writes |-> Append(writes, Write(p, node)), up |-> <<>>]
      ELSE LET new  == FreshPage(writes)
               half == Halves(node, new)
           IN  [writes |-> writes \o <<Write(new, Unsaved), Write(p, half.left),
                                       Write(new, half.right)>>,
                up |-> [key |-> half.key, page |-> new]]

(* Back in insertRec for the page p, s being what came of its child.       *)
Back(key, p, s) ==
    IF s.up = <<>> THEN s ELSE Saved(s.writes, p, WithChild(nodes[p], key, s.up))

InsertRec(key, val) ==
    LET path == Path(key)
        leaf == Last(path)
    IN  FoldRight(LAMBDA p, s : Back(key, p, s), Front(path),
                  Saved(<<>>, leaf, WithEntry(nodes[leaf], key, val)))

(* insert: the writes of insertRec, then those of the new root.            *)
Insertion(key, val) ==
    LET s   == InsertRec(key, val)
        new == FreshPage(s.writes)
    IN  IF s.up = <<>> THEN [writes |-> s.writes, root |-> root]
        ELSE [writes |-> s.writes \o <<Write(new, Unsaved),
                            Write(new, Inner(<<s.up.key>>, <<root, s.up.page>>))>>,
              root |-> new]

(* The pages after some writes: the last one on a page counts.             *)
AfterWrites(writes) ==
    LET On(p) == {i \in 1..Len(writes) : writes[i].page = p}
    IN  [p \in Page \cup {writes[i].page : i \in 1..Len(writes)} |->
            IF On(p) = {} THEN nodes[p] ELSE writes[Max(On(p))].node]

------------------------------------------------------------------------------
NewVal == Cardinality(given) + 1

Insert(key) ==
    /\ NewVal <= MaxInserts
    /\ LET ins == Insertion(key, NewVal)
       IN  nodes' = AfterWrites(ins.writes) /\ root' = ins.root
    /\ given' = given \cup {<<key, NewVal>>}
    /\ UNCHANGED breaks

(* The pool throws between two writes, after n of them; rootId_ is         *)
(* assigned last.                                                          *)
InsertBreaks(key, n) ==
    /\ NewVal <= MaxInserts
    /\ breaks < MaxBreaks
    /\ LET writes == Insertion(key, NewVal).writes
       IN  n < Len(writes) /\ nodes' = AfterWrites(SubSeq(writes, 1, n))
    /\ given' = given \cup {<<key, NewVal>>}
    /\ breaks' = breaks + 1
    /\ UNCHANGED root

(* The pool throws while nodes are loaded, or before the first write.      *)
Throws == UNCHANGED vars

(* The constructor.                                                        *)
Init ==
    /\ nodes = [p \in {0} |-> Leaf(<<>>, <<>>, NoPage)]
    /\ root = 0
    /\ given = {}
    /\ breaks = 0

Next ==
    \/ \E key \in Key : Insert(key)
    \/ \E key \in Key : \E n \in 1..Len(Insertion(key, NewVal).writes) :
         InsertBreaks(key, n)
    \/ Throws

Spec == Init /\ [][Next]_vars

------------------------------------------------------------------------------
(* The leaves below a page from left to right, each with its depth and the *)
(* separators around it (0 when there is none).                            *)
Bound(node, i) == IF i \in 1..Len(node.keys) THEN {node.keys[i]} ELSE {}

LeavesBelow ==
    LET Leaves[p \in Page] ==
          IF nodes[p].leaf
            THEN <<[page |-> p, depth |-> 0, low |-> {}, high |-> {}]>>
            ELSE FlattenSeq([i \in 1..Len(nodes[p].kids) |->
                   [j \in 1..Len(Leaves[nodes[p].kids[i]]) |->
                      LET l == Leaves[nodes[p].kids[i]][j]
                      IN  [page  |-> l.page, depth |-> l.depth + 1,
                           low   |-> l.low \cup Bound(nodes[p], i - 1),
                           high  |-> l.high \cup Bound(nodes[p], i)]]])
    IN  Leaves[root]

(* The shape of the tree, as long as no insertion broke off half way: all  *)
(* leaves are at one depth and in the list from left to right, no node has *)
(* more than ORDER keys, an inner node has one child more than keys, and   *)
(* every key lies between the separators above it, repeated keys included  *)
(* (splitNode and the shifting loops of insertRec).                        *)
WellFormed == breaks = 0 =>
    LET leaves == LeavesBelow IN
    /\ \A p \in Page : /\ Len(nodes[p].keys) <= ORDER
                       /\ ~nodes[p].leaf => Len(nodes[p].kids) = Len(nodes[p].keys) + 1
    /\ \A i \in 1..Len(leaves) :
         /\ leaves[i].depth = leaves[1].depth
         /\ nodes[leaves[i].page].next =
              IF i = Len(leaves) THEN NoPage ELSE leaves[i + 1].page
         /\ \A k \in ToSet(nodes[leaves[i].page].keys) :
              /\ \A low \in leaves[i].low : low <= k
              /\ \A high \in leaves[i].high : k <= high

Of(key) == {entry \in given : entry[1] = key}

(* With no insertion broken off, search finds under every key that was     *)
(* ever inserted, once or more often, one of the values stored under it,   *)
(* and nothing under the others, whatever was split in between.  A split   *)
(* may leave equal keys on both sides of a separator (findLeaf, which goes *)
(* right of it, against insertRec and splitNode).                          *)
SearchFinds == breaks = 0 =>
    \A key \in Key :
        IF Of(key) = {} THEN Search(key) = None ELSE <<key, Search(key)>> \in given

InRange(from, to) == {entry \in given : from <= entry[1] /\ entry[1] <= to}

(* A range scan returns all entries in the range ("all (key, value) pairs  *)
(* where key >= from", btree.h:40; "all `(key, value)` pairs in            *)
(* `[from, to]`", README.md:303), whatever was split before.               *)
RangeAsPromised == breaks = 0 =>
    \A from, to \in Key : ToSet(RangeScan(from, to)) = InRange(from, to)

(* What btree.cpp:91 keeps of that promise: the entries in the range, each *)
(* once, in the order of their keys and equal keys in the order of their   *)
(* insertion; of several entries under the lower bound itself those left   *)
(* of a separator may be missing, though never all of them.                *)
RangeMissesOnlyTies == breaks = 0 =>
    \A from, to \in Key :
        LET found == RangeScan(from, to)
        IN  /\ InRange(from, to) \ Of(from) \subseteq ToSet(found)
            /\ ToSet(found) \subseteq InRange(from, to)
            /\ from <= to /\ Of(from) # {} => ToSet(found) \cap Of(from) # {}
            /\ \A i, j \in 1..Len(found) : i < j =>
                 \/ found[i][1] < found[j][1]
                 \/ found[i][1] = found[j][1] /\ found[i][2] < found[j][2]

(* Repeated keys and insertions that broke off included: an answer is      *)
(* always an entry that was once passed to insert under that very key, and *)
(* never lies outside the range asked for; no value ends up under another  *)
(* key when entries are shifted and split.                                 *)
NothingInvented ==
    /\ \A key \in Key : Search(key) # None => <<key, Search(key)>> \in given
    /\ \A from, to \in Key : ToSet(RangeScan(from, to)) \subseteq InRange(from, to)
==============================================================================
