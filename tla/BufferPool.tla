------------------------------ MODULE BufferPool ------------------------------
(***************************************************************************)
(* The buffer pool of src/buffer_pool.cpp over the disk manager of         *)
(* src/disk_manager.cpp, with the clients that pin its pages               *)
(* (table_heap.cpp and btree.cpp hold at most one page at a time each).    *)
(*                                                                         *)
(* Pages are numbered from 1 here and from 0 in the code.  The content of  *)
(* a page is a value; Torn stands for the bytes a write that was cut short *)
(* leaves behind.  The pool has no mutex and its users run in one thread,  *)
(* so every method is one action; its exceptions are the steps named       *)
(* ...Throws, which keep whatever the method had done before it threw.     *)
(* The fstream of the disk manager never has its error state cleared: once *)
(* a write failed, good stays FALSE and every later read or write throws,  *)
(* until the process is restarted.                                         *)
(***************************************************************************)
EXTENDS Naturals, FiniteSets, Sequences, SequencesExt

CONSTANTS Client,     \* code that holds a page between fetchPage and unpin
          Val,        \* what clients write into a page
          Blank,      \* the content of a fresh page
          Torn,       \* the bytes a cut short write leaves
          None,       \* a client that holds no page
          PoolSize,   \* BufferPool::poolSize_
          MaxPages    \* bound on the length of the file

ASSUME PoolAssumption ==
    /\ PoolSize \in Nat
    /\ MaxPages \in Nat
    /\ IsFiniteSet(Client)
    /\ None \notin [page : Nat, wrote : BOOLEAN]

VARIABLES disk,       \* the pages of the file; Len(disk) is pageCount_
          good,       \* the disk manager's stream has not failed
          pages,      \* pages_: resident page |-> frame
          lru,        \* lruList_, most recently used first
          hold,       \* the pin each client holds, and whether it wrote
          used,       \* history: all pages, last fetched first
          synced      \* history: page |-> content when last flushed

vars == <<disk, good, pages, lru, hold, used, synced>>

Content  == Val \cup {Blank, Torn}
Frame    == [data : Content, dirty : BOOLEAN, pins : Nat]
Resident == DOMAIN pages

Without(f, p) == [q \in DOMAIN f \ {p} |-> f[q]]
With(f, p, v) == [q \in DOMAIN f \cup {p} |-> IF q = p THEN v ELSE f[q]]

(* The position of p in list s; touchPage takes p from there to the front. *)
At(s, p)      == CHOOSE i \in 1..Len(s) : s[i] = p
Touched(s, p) == <<p>> \o RemoveAt(s, At(s, p))

------------------------------------------------------------------------------
(* Disk manager.                                                           *)

(* What a failed or interrupted write of v may leave in page p.            *)
AfterFailedWrite(p, v) ==
    {[disk EXCEPT ![p] = w] : w \in IF disk[p] = v THEN {v} ELSE {disk[p], Torn}}

(* writePage, when it succeeds.                                            *)
Written(p) == [disk EXCEPT ![p] = pages[p].data]

------------------------------------------------------------------------------
(* evict.  The victim is the last unpinned page of the LRU list.           *)

(* fault: the pin count of the candidate is not looked at *)
Victims_IgnoresPins == {Len(lru)} \ {0}

Victims ==
    {i \in 1..Len(lru) :
        /\ pages[lru[i]].pins = 0
        /\ \A j \in (i + 1)..Len(lru) : pages[lru[j]].pins > 0}

(* fault: the dirty page is dropped without being written *)
Evicted_DropsDirty(i) ==
    [pages |-> Without(pages, lru[i]), lru |-> RemoveAt(lru, i), disk |-> disk]

(* fault: the victim stays in the LRU list *)
Evicted_KeepsEntry(i) ==
    [pages |-> Without(pages, lru[i]), lru |-> lru,
     disk  |-> IF pages[lru[i]].dirty THEN Written(lru[i]) ELSE disk]

(* Pool and file once the page at position i of the list has been evicted. *)
Evicted(i) ==
    [pages |-> Without(pages, lru[i]),
     lru   |-> RemoveAt(lru, i),
     disk  |-> IF pages[lru[i]].dirty THEN Written(lru[i]) ELSE disk]

HasFrame == Cardinality(Resident) < PoolSize

(* The ways the first lines of fetchPage and newPage can come to a free    *)
(* frame: there is one, or a page is evicted.  None is left when all pages *)
(* are pinned, or when the victim must be written and the stream is bad.   *)
Room ==
    IF HasFrame THEN {[pages |-> pages, lru |-> lru, disk |-> disk]}
    ELSE {Evicted(i) : i \in {j \in Victims : good \/ ~pages[lru[j]].dirty}}

Free(c) == hold[c] = None

Holds(c, p) == [hold EXCEPT ![c] = [page |-> p, wrote |-> FALSE]]

------------------------------------------------------------------------------
(* fault: a hit does not move the page to the front of the list *)
TouchPage_Skipped(p) == lru

(* touchPage.                                                              *)
TouchPage(p) == Touched(lru, p)

(* fetchPage, the page is in memory.                                       *)
FetchHit(c, p) ==
    /\ Free(c)
    /\ p \in Resident
    /\ pages' = [pages EXCEPT ![p].pins = @ + 1]
    /\ lru' = TouchPage(p)
    /\ hold' = Holds(c, p)
    /\ used' = Touched(used, p)
    /\ UNCHANGED <<disk, good, synced>>

(* fetchPage, the page is loaded into a free frame.                        *)
FetchMiss(c, p) ==
    /\ Free(c)
    /\ p \in (1..Len(disk)) \ Resident
    /\ good
    /\ \E room \in Room :
         /\ disk' = room.disk
         /\ pages' = With(room.pages, p,
                          [data |-> room.disk[p], dirty |-> FALSE, pins |-> 1])
         /\ lru' = <<p>> \o room.lru
    /\ hold' = Holds(c, p)
    /\ used' = Touched(used, p)
    /\ UNCHANGED <<good, synced>>

(* fetchPage of a page that is not in the file or cannot be read: readPage *)
(* throws when the eviction has already happened.                          *)
ReadThrows(p) ==
    /\ p \notin Resident
    /\ p > Len(disk) \/ ~good
    /\ \E room \in Room : pages' = room.pages /\ lru' = room.lru /\ disk' = room.disk
    /\ UNCHANGED <<good, hold, used, synced>>

(* newPage.                                                                *)
NewPage(c) ==
    /\ Free(c)
    /\ good
    /\ Len(disk) < MaxPages
    /\ LET p == Len(disk) + 1 IN
         /\ \E room \in Room :
              /\ disk' = Append(room.disk, Blank)
              /\ pages' = With(room.pages, p,
                               [data |-> Blank, dirty |-> TRUE, pins |-> 1])
              /\ lru' = <<p>> \o room.lru
         /\ hold' = Holds(c, p)
         /\ used' = <<p>> \o used
    /\ UNCHANGED <<good, synced>>

(* newPage, the write that extends the file throws after the eviction.     *)
AllocateThrows ==
    /\ \E room \in Room : pages' = room.pages /\ lru' = room.lru /\ disk' = room.disk
    /\ good' = FALSE
    /\ UNCHANGED <<hold, used, synced>>

(* fetchPage (a miss) and newPage throw "all pages pinned", or the write   *)
(* of a dirty victim throws on a stream that was already bad: nothing has  *)
(* changed.                                                                *)
RoomThrows == Room = {} /\ UNCHANGED vars

(* The write of the dirty victim fails: the page stays in the pool.        *)
EvictThrows ==
    /\ ~HasFrame
    /\ good
    /\ \E i \in Victims :
         /\ pages[lru[i]].dirty
         /\ disk' \in AfterFailedWrite(lru[i], pages[lru[i]].data)
    /\ good' = FALSE
    /\ UNCHANGED <<pages, lru, hold, used, synced>>

(* A client changes the page it holds, through the raw pointer.            *)
Modify(c, v) ==
    /\ ~Free(c)
    /\ LET p == hold[c].page IN
         /\ pages' = [pages EXCEPT ![p].data = v]
         /\ synced' = Without(synced, p)
    /\ hold' = [hold EXCEPT ![c].wrote = TRUE]
    /\ UNCHANGED <<disk, good, lru, used>>

(* fault: isDirty overwrites the flag instead of only raising it *)
DirtyAfter_Overwritten(p, isDirty) == isDirty

DirtyAfter(p, isDirty) == pages[p].dirty \/ isDirty

(* unpin.  A client that wrote passes isDirty = true; one that did not may *)
(* still do so (insertRow unpins dirty when the page was full).            *)
Unpin(c, isDirty) ==
    /\ ~Free(c)
    /\ hold[c].wrote => isDirty
    /\ LET p == hold[c].page IN
         pages' = [pages EXCEPT ![p].pins = IF @ > 0 THEN @ - 1 ELSE 0,
                                ![p].dirty = DirtyAfter(p, isDirty)]
    /\ hold' = [hold EXCEPT ![c] = None]
    /\ UNCHANGED <<disk, good, lru, used, synced>>

Clean(S) == [p \in Resident |-> IF p \in S THEN [pages[p] EXCEPT !.dirty = FALSE]
                                ELSE pages[p]]
OnDisk(S) == [p \in 1..Len(disk) |-> IF p \in S THEN pages[p].data ELSE disk[p]]

(* A page counts as flushed unless a client is still writing it: the dirty *)
(* flag is raised by unpin only, so a flush in between may not see it.     *)
InWriting == {p \in Resident : \E c \in Client :
                hold[c] # None /\ hold[c].page = p /\ hold[c].wrote}
Sync(S)   == [p \in DOMAIN synced \cup (S \ InWriting) |->
                IF p \in S \ InWriting THEN pages[p].data ELSE synced[p]]
Dirty == {p \in Resident : pages[p].dirty}

(* flushPage of a resident page, and flushAll, when no write fails: the    *)
(* dirty ones of the pages in S are written and marked clean.              *)
Flush(S) ==
    /\ good \/ S \cap Dirty = {}
    /\ disk' = OnDisk(S \cap Dirty)
    /\ pages' = Clean(S \cap Dirty)
    /\ synced' = Sync(S)
    /\ UNCHANGED <<good, lru, hold, used>>

FlushPage(p) == p \in Resident /\ Flush({p})
FlushAll     == Flush(Resident)

(* flushPage or flushAll throws at page p, after the pages of S.           *)
FlushThrows(S, p) ==
    /\ good
    /\ S \subseteq Dirty
    /\ p \in Dirty \ S
    /\ disk' \in {[d EXCEPT ![p] = w] : d \in {OnDisk(S)},
                  w \in IF disk[p] = pages[p].data THEN {disk[p]} ELSE {disk[p], Torn}}
    /\ pages' = Clean(S)
    /\ good' = FALSE
    /\ UNCHANGED <<lru, hold, used, synced>>

(* The process ends, by a crash or normally (no destructor flushes), and   *)
(* the file is opened again: what was only in the pool is gone, and at     *)
(* most one page was being written.                                        *)
Restart ==
    /\ \/ UNCHANGED disk
       \/ good /\ \E p \in Dirty : disk' \in AfterFailedWrite(p, pages[p].data)
    /\ good' = TRUE
    /\ pages' = <<>>
    /\ lru' = <<>>
    /\ hold' = [c \in Client |-> None]
    /\ UNCHANGED <<used, synced>>

------------------------------------------------------------------------------
Init ==
    /\ disk = <<>>
    /\ good = TRUE
    /\ pages = <<>>
    /\ lru = <<>>
    /\ hold = [c \in Client |-> None]
    /\ used = <<>>
    /\ synced = <<>>

Next ==
    \/ \E c \in Client, p \in Resident : FetchHit(c, p)
    \/ \E c \in Client, p \in 1..Len(disk) : FetchMiss(c, p)
    \/ \E p \in 1..(Len(disk) + 1) : ReadThrows(p)
    \/ \E c \in Client : NewPage(c)
    \/ AllocateThrows
    \/ RoomThrows
    \/ EvictThrows
    \/ \E c \in Client, v \in Val : Modify(c, v)
    \/ \E c \in Client, isDirty \in BOOLEAN : Unpin(c, isDirty)
    \/ \E p \in Resident : FlushPage(p)
    \/ FlushAll
    \/ \E S \in SUBSET Dirty, p \in Dirty : FlushThrows(S, p)
    \/ Restart

Spec == Init /\ [][Next]_vars

------------------------------------------------------------------------------
Current(p) == IF p \in Resident THEN pages[p].data ELSE disk[p]
Holders(p)  == {c \in Client : hold[c] # None /\ hold[c].page = p}

(* The frame table, the LRU list and the pins agree: the list names every  *)
(* resident page exactly once (a frame missing from it could never be      *)
(* evicted, one left over would crash evict), no more than poolSize_ pages *)
(* are resident, all of them exist in the file, and a frame is pinned once *)
(* for each client that still has a pointer into it.                       *)
PoolConsistent ==
    /\ ToSet(lru) = Resident
    /\ \A i, j \in 1..Len(lru) : lru[i] = lru[j] => i = j
    /\ Cardinality(Resident) <= PoolSize
    /\ Resident \subseteq 1..Len(disk)
    /\ \A p \in Resident : pages[p].pins = Cardinality(Holders(p))

(* No eviction, whoever causes it and however many fail half way, takes    *)
(* away a page some client holds a raw pointer to (README.md:280: "a       *)
(* pinned page ... can never be evicted").                                 *)
PinnedStay == \A c \in Client : ~Free(c) => hold[c].page \in Resident

(* A page that was flushed and not changed since is still there after any  *)
(* number of evictions, failed writes and restarts: no clean frame differs *)
(* from the file, and no dirty flag is lost on the way.                    *)
FlushedSurvives == \A p \in DOMAIN synced : Current(p) = synced[p]

(* Whenever a page makes room for another, every other page that could     *)
(* have gone was used more recently (evict, buffer_pool.cpp:99-118).       *)
EvictsLeastRecent ==
    [][\A p, q \in Resident :
         (p \notin Resident' /\ q \in Resident' /\ pages[q].pins = 0)
         => \E i, j \in 1..Len(used) : i < j /\ used[i] = q /\ used[j] = p]_vars

Store == INSTANCE PageStore
           WITH store  <- [p \in 1..Len(disk) |-> Current(p)],
                stable <- disk

(* Seen through the pool the file is a page store: loading, evicting,      *)
(* throwing half way and flushing never change what a client reads.        *)
ImplementsPageStore == Store!Spec
==============================================================================
