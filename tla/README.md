# A TLA+ development of MyDatabaseEngine

This directory specifies the engine in `src/`: a small relational database in
C++17 with a lexer, a parser, an optimizer and a Volcano executor over in-memory
tables, a transaction manager with a lock manager and a write-ahead log, and a
storage side (buffer pool, disk manager, slotted pages, B-tree) that the SQL
side does not use yet.  TLC checks the modules on small instances; TLAPS proves
the theorems for every value of the constants.

- [1. The system](#1-the-system): components, state, operations, hard parts
- [2. The modules](#2-the-modules): which module models which code, and how
- [3. The runs](#3-the-runs): what is checked, bounds, fairness
- [4. The proofs](#4-the-proofs)
- [5. Where code and documentation differ](#5-where-code-and-documentation-differ)
- [6. What is not modelled](#6-what-is-not-modelled)
- [7. Plan](#7-plan)

## 1. The system

### Components

| Component | Source | State | Operations | Correct when |
|---|---|---|---|---|
| Lock manager | `src/lock_manager.cpp` | `locks_`: resource to entries (holder, mode) | `acquireLock`, `releaseAll`, `isLocked` | no incompatible holders, nothing left after release, whatever upgrades and repetitions came before |
| Buffer pool | `src/buffer_pool.cpp`, `include/page.h` | frames (`pages_`), LRU list, dirty flags, pin counts | `fetchPage`, `newPage`, `unpin`, `flushPage`, `flushAll`, private `evict`, `touchPage` | frames and list agree, pinned pages stay, a page reads back what was written, least recently used goes first |
| Disk manager | `src/disk_manager.cpp` | file of pages, page count, stream state | `readPage`, `writePage`, `allocatePage` | a written page is in the file |
| Transaction manager | `include/txn_manager.h`, `transaction.h` | `nextId_`, transactions with status and write log | `begin`, `commit`, `rollback` | commit and rollback are all or nothing; locks end with the transaction; the log gets everything |
| Executor, DML | `src/executor.cpp:187-276` | `storage_`: table to rows | `executeInsert`, `executeUpdate`, `executeDelete`, `executeCreateTable` | a statement through an open transaction can be undone |
| Write-ahead log | `src/wal.cpp` | file, stream buffer, stream state, `nextLsn_` | constructor, `append`, `flush`, `readAll` | an acknowledged commit is in the file |
| Crash recovery | `src/wal.cpp:132-196` | none of its own | `recover` | committed work is redone, other work is not, doing it twice changes nothing |
| Table heap | `src/table_heap.cpp` | a slotted page: directory and texts | `insertRow`, `getRow`, `updateRow`, `deleteRow`, `scan` | a row reads back as inserted until it is deleted |
| B-tree | `src/btree.cpp` | node pages, root id | `insert`, `search`, `rangeScan` | shape, order, and every entry found |
| Volcano operators | `include/{seq_scan,filter,projection,sort,limit}.h`, `src/hash_join.cpp` | a cursor or a buffer per operator | `open`, `next`, `close` | the rows pulled are the relational answer, and no more rows are read than needed |
| Optimizer | `src/optimizer.cpp` | none | `toLogical`, `toPhysical` | the plan computes the statement |
| Expression evaluation | `src/executor.cpp:14-107` | none | `evaluateExpr`, `resolveExpr`, `compareValues`, `extractLiteral` | a condition selects the rows it says |
| MVCC snapshot | `include/mvcc.h` | a transaction id | `isVisible` | no row is hidden from a transaction's scan |
| Lexer | `src/lexer.cpp`, `include/token.h` | the text, `pos_`, `line_`, `col_` | `tokenize` and its readers | every token is found, with its type, value and place; it always ends |
| Parser, AST | `src/parser.cpp`, `include/ast.h` | tokens and a cursor | `parse` and one method for each rule | the tree is the one that was written, and nothing in it was not |
| Demo, build | `main.cpp`, `CMakeLists.txt` | | `runSQL` | a statement does what its text says |

### How they interact

A `SELECT` goes through lexer, parser and optimizer to `Executor::execute`,
which builds a tree of operators and pulls rows through it.  The statements
that write go straight to the executor, which changes `storage_` and, when it
is given an open transaction, appends a `WriteRecord` to that transaction's
write log.  `commit` hands the write log to the WAL and calls `releaseAll`;
`rollback` walks it backwards over the same `storage_`, appends it too, and
calls `releaseAll`.  Nothing but the client asks the lock manager for locks:
the executor never does.  `WAL::recover` replays records over a `storage_`.
Table heap and B-tree reach pages by `fetchPage`/`unpin` and keep raw pointers
in between; the pool calls the disk manager.

### What is hard

The engine runs in one thread; only the lock manager has a mutex.  What
interleaves are the *statements* of several open transactions, the pins of
several users of the pool, and the rows that operators pull.  The hard cases
are therefore long sequences of legal calls, calls that throw half way (the
pool under the B-tree, the disk under the pool), restarts, and arithmetic at
boundaries (free space in a page, split points, LIMIT).  `PROJECT.json` lists
each of them as a hazard at its line with the properties that guard it.

## 2. The modules

| Module | Role |
|---|---|
| `LockTable` | abstract: who owns what in which mode; requests are answered at once |
| `LockManager` | `lock_manager.cpp`, implements `LockTable` |
| `LockManagerProofs` | theorems about it |
| `PageStore` | abstract: pages that read back, and what a crash leaves of them |
| `BufferPool` | `buffer_pool.cpp` over `disk_manager.cpp`, implements `PageStore` |
| `BufferPoolProofs` | theorems about it |
| `AtomicStore` | abstract: private writes, atomic commit, traceless rollback |
| `Picks` | the elements of a vector at some positions, in their order: loops that collect or erase |
| `DataFacts` | lemmas about `Picks` and about finite sets of numbers |
| `Rows` | rows, write records, search by id: shared data of the modules up to `CrashRecovery` |
| `WAL` | the log file and its stream, as operators on its own variables |
| `Transactions` | transaction manager, DML, with `INSTANCE LockManager` and `INSTANCE WAL`; implements `AtomicStore` |
| `TransactionsProofs` | theorems about it |
| `Recovery` | the passes of `recover` as operators, without state |
| `CrashRecovery` | `Transactions` and `Recovery` with restarts |
| `TableHeap` | the slotted page |
| `TableHeapProofs` | theorems about it |
| `RowText` | rows as text and back, shared by table heap and log |
| `Mvcc` | versions and snapshots, shared by SeqScan and the heap's scan |
| `HeapScan` | `TableHeap` with `scan` over the pages of its file |
| `BTree` | the index |
| `BTreeProofs`, `BTreeSearchProofs` | theorems about it |
| `Expressions` | trees of expressions, and what the executor makes of them |
| `Optimizer` | statement to logical plan to physical plan, as operators |
| `Query` | a SELECT's pipeline of operators |
| `QueryProofs` | theorems about it |
| `Lexer` | `Lexer::tokenize`, turn by turn |
| `Parser` | the recursive descent, as functions of the tokens and a position |
| `SqlText` | how statements are written: the other direction, models no code |
| `Engine` | `runSQL`: `INSTANCE Lexer`, the parser, the optimizer, `EXTENDS Query`, the statements that write |
| `MC...` | constants for TLC |

**LockManager.**  `locks` is `locks_`; the vector of a resource is a set of
entries, because neither scan depends on order or repetition.  Each method is
one action (it holds `mutex_` throughout); `reply` is what the call returned.

**BufferPool.**  `disk` and `good` are the file and the state of the disk
manager's stream, `pages`, `lru` the members of the pool, `hold` the pins of
its clients.  Every method is one action when it returns; where it can throw,
a `...Throws` action keeps exactly what was done before: an eviction that
happened, part of a page on disk, the pages `flushAll` already wrote.  After
one failed write `good` stays false, as the code never clears the stream.
`used` and `synced` are history.

**Transactions.**  One action per statement and per call of the manager.  The
constants `LockFirst`, `FreshIds`, `Deletes`, `Renames` say what clients do,
since the code restrains them in nothing; they are conditions on clients in
the guards and never change what a statement does.  Clients without discipline
(`LockFirst = FALSE`) also lock for transactions that have ended.  `t = 0` is a null
transaction pointer.  A `WHERE` clause is the set of rows it matches.

**WAL.**  What decides its behaviour is the stream's error state.  The
constructor reads until a read fails and leaves the failure set; `append` and
`flush` then do nothing.  `appended` (in `Transactions`) is the history of all
records given to `append`.

**Recovery, CrashRecovery.**  `Redo` and `Undo` are the loop bodies, folded
over the records.  `row["id"]` creating an empty id in each row it looks at is
modelled (`LookedAt`).  As the file stays empty, `RecoverNow` finds nothing,
and the properties apply `Recover` to `appended`: what recovery would do with
the records, were they in the file.

**TableHeap, RowText, HeapScan.**  A byte of the page is known by the row and
position it came from, so overwritten text shows.  `Accepts` is the size check
with its signed-to-unsigned comparison, `Offset` and `Length` are cut to
`uint16_t` (`Wrap`).  Once a row is accepted that does not fit (`overfull`), the
code has written outside the page and the model ends.  `RowText` is the format
`col=val;` and what the reader makes of any text.  `HeapScan` takes the bytes
`TableHeap` left in the page back to rows; `Beyond` is what else is in the file.
A step is one turn of the loop of `scan`.  `outcome` is how a scan has ended: the
loop came to `INVALID_PAGE_ID` and it returned, the pool threw, or `readPage`
threw behind the end of the file (`LastPage`); an exception takes `found` along.

**BTree.**  `Insertion` computes the page writes of one insertion in the order
the code makes them; `Insert` performs all of them, `InsertBreaks` a proper
prefix (the pool threw).  A page never saved reads as `deserialize` reads an
empty page.

**Query.**  An action is one turn of a loop of the source (`ScanStep`,
`ProbeStep`, `EmitStep`) with its row's way up through Filter and Projection to
Sort's buffer or the results, in the fixed shape the optimizer builds.
`std::sort` is any order without a pair in the wrong order.  The columns that
are sorted hold numbers, or nothing.  `Hits` are the places on the build side
that the hash table keeps under a probe row's key, and `Bucket` the rows there.
As in `HashJoin::next`, a probe row without a bucket leaves `probeRow`, `matches`
and `at` of the last hit as they were (`Probed`): a match that is used up stays
behind, and only its cursor keeps it from being returned again.
`TablesAssumption` (tables are vectors) and `QueryAssumption` say what is
executed: a plan has one source, LIMIT is followed by digits
(`parser.cpp:237`), and the ids snapshots are taken at start at 1
(`txn_manager.h:138`).

**Expressions, Optimizer.**  Expressions are records as in `ast.h`; `Evaluate`
and `Compare` treat them as the executor does: two texts with a number at their
start compare by it (`Number`, as `std::stod` reads them), others as texts
(`TextOrder`).  A plan is the sequence of its nodes from the bottom up, because
no node but the join has two children.

**Lexer.**  A text is a sequence of pieces: a sign, a run of letters, a run of
digits.  Nothing in the lexer tells two letters, or two digits, apart but the
table of keywords, and an action is one turn of the loop of `tokenize`, with the
reader it calls.  `Upper` is what `toupper` makes of the letters.

**Parser.**  The cursor is a parameter: each method is an operator from a
position to either what it returns and the position behind (`ok`), or the token
it throws at.  The methods for expressions, which call each other, are one
recursive function of rule and position (`ParseExpression`), so the module has
no `RECURSIVE` operator.  `Stoi` is `std::stoi` for the numbers of the run.

**Engine.**  One statement's way through all of it.  `typed` is what the reader
of the text means: its tokens, where they begin, and the statement, all taken
from `SqlText`, which is written from the grammar in the comments of
`parser.cpp`.  The executor's methods that write are called without a
transaction here (`Transactions` has those).  An INSERT with fewer values than
columns reads behind the values: `InsertedRow` then takes any text, or the
process crashes (`InsertCrashes`).  `Executor::execute` is public, so there is a
second beginning (`PlanByHand`): a caller with a plan and tables of its own.  The
parser has no joins, so this is the way to one.

## 3. The runs

| Run | Instance | Shows |
|---|---|---|
| `LockManager` | 3 transactions, 2 resources | `NoConflict`; `ImplementsLockTable`: every call answers as the abstract lock table does |
| `BufferPool` | 2 clients, 2 frames, 3 pages | `PoolConsistent`, `PinnedStay`, `FlushedSurvives`, `EvictsLeastRecent`, `ImplementsPageStore` |
| `Transactions_atomic` | 2 transactions, 2 ids, 2 values, 3 changes; clients lock, keep ids unique, do not delete | `WriteSetsDisjoint`, `LocksOfActive`, `ImplementsAtomicStore` |
| `Transactions_free` | 1 transaction, 3 changes, 2 ids, locks and statements also through ended transactions | `EndedLogSubmitted`; `RollbackSpares`: rows with other ids stay as they are, in their order |
| `CrashRecovery` | 2 transactions, 4 changes, 1 restart, deletes | `RecoverRebuilds`, `RecoverCommittedOnly`, `RecoverIdempotent` |
| `TableHeap` | page of 15 bytes, rows of 3, 7, 4 and 17 characters, `Wrap` 16, two pages behind | `LayoutIntact`, `ReadsBack`, `ScanComplete` |
| `BTree` | `ORDER` 2, 5 keys, 6 insertions, repeated keys, 1 broken off | `WellFormed`, `SearchFinds`, `RangeMissesOnlyTies`, `NothingInvented` |
| `Engine` | 478 texts: all six statements in two layouts, slips of one token, texts that are no tokens; plans by hand with every combination of clauses over up to 3 rows, joins of 2 and 2 | `TokensAsWritten`, `StatementAsWritten`, `DoesWhatItSays`, `AnswerRelational`, `ScansJustEnough`, `Finishes` |
| `Transactions_delete` | as `Transactions_atomic`, with deletes | violated: `RollbackRestores` |
| `Transactions_durable` | as `Transactions_atomic` | violated: `CommitDurable` |
| `TableHeap_scan` | as `TableHeap` | violated: `ScanReturns` |
| `BTree_range` | `ORDER` 2, 3 keys, 6 insertions, none broken off | violated: `RangeAsPromised` |

Every property of a passing run has a mutant: an operator beside the real one,
under a comment that begins with "fault:", that changes it the way a plausible
mistake would, and with which the property fails.

### Why the bounds are enough

- *LockManager*: a conflict has two parties; the third transaction makes a
  shared pair beside a requester.
- *BufferPool*: three pages and two frames give every kind of eviction; with
  two clients both frames can be pinned, or one twice.  One value is enough,
  because Blank and Torn differ from it.
- *Transactions*: undo goes wrong between two transactions, or with two writes
  on one id; three changes allow both at once.  Bounds are `MaxTxn`,
  `MaxChanges` and `MaxRows`, in the guards of `Begin` and `Execute`.
- *CrashRecovery*: four changes give insert, update, delete and re-insert of an
  id by two transactions.  `MaxRestarts` lets ids be used again after a restart.
- *TableHeap*: the rows fill the page to the last byte (directory included),
  small ones reuse what deletes leave, one is longer than the page and is cut
  by the cast.  Values hold the signs of the text format, or nothing.  Behind
  the page are one of another heap and one without slots.  For layout and
  reading back the theorems of section 4 remove the bound.
- *BTree*: with two keys per node six insertions reach three levels, splitting
  leaves, inner nodes and the root, and spread equal keys over several leaves.
  `ORDER` is 4 in the code; the split computes its middle from it, so the
  smaller tree meets every branch.
- *Engine*, plans by hand: two rows per key on either side of a join, rows that
  lack the key, hits before and after misses, ties in the sort, limits of none,
  zero and two.  A snapshot sees every row, so the plans without further clauses
  are enough for it.
- *Engine*, texts: the conditions have every operator, and both junctions nested to
  the left, to the right and in parentheses; texts have a keyword in mixed case,
  a name with a digit, a number with a point, an escaped quote, comments and
  line breaks, and tokens with and without space between them.  From one
  statement of each kind every token is left out, doubled and swapped, which
  makes the parser throw at each place where it can, and accept what it does.

### Fairness

The modules of the storage and transaction side state none: their operations
return at once and wait for nobody (a conflicting lock request is answered
false; the roadmap at `src/README.md:481` lists wait queues), and whether a client ever
calls again is its own affair.  So nothing must eventually happen there, and
they have no liveness properties.  What is a loop has one.  `Query` and `Engine`
assume weak fairness of their next step: one thread runs a statement in loops
that never block.  `Finishes` says that the loops of the lexer and of the
operators come to an end, from the text or the plan to the rows; that the parser
returns is not said, for it is one step here, and a crash counts as an end.
`HeapScan` assumes that a scan goes on from page to page and from the last one to
whatever comes then.  With that `ScanReturns` is refuted by a scan that runs, not
by one that is left standing, and by one in which no page is refused by the pool.

Deadlock is checked in every run; states in which a component can do no more
have a step of their own (`Returned`, `Undefined`, `EndThrows`, ...).

## 4. The proofs

Nothing is assumed but the named assumptions on the constants, each in the
module that declares them, and TLC evaluates them in the runs.  A theorem holds
for every instance that satisfies them, whatever its size.

| Module | Theorem | States |
|---|---|---|
| `LockManagerProofs` | `ConflictFree` | `Spec => []NoConflict` |
| | `Refinement` | `Spec => ImplementsLockTable` |
| `TableHeapProofs` | `LayoutSafe` | `Spec => []LayoutIntact` |
| | `RowsReadBack` | `Spec => []ReadsBack` |
| `BufferPoolProofs` | `Consistency` | `Spec => []PoolConsistent` |
| | `PinnedPagesStay` | `Spec => []PinnedStay` |
| | `FlushedPagesSurvive` | `Spec => []FlushedSurvives` |
| | `LeastRecentEvicted` | `Spec => EvictsLeastRecent` |
| | `PageStoreImplemented` | `Spec => ImplementsPageStore` |
| `TransactionsProofs` | `TypeCorrect` | `Spec => []TypeOK` |
| | `LocksEnd` | `Spec => []LocksOfActive`, if clients lock first |
| | `WritesDisjoint` | `Spec => []WriteSetsDisjoint`, if clients lock first |
| | `LogComplete` | `Spec => []EndedLogSubmitted` |
| | `RollbackIsLocal` | `Spec => RollbackSpares` |
| | `AtomicStoreImplemented` | `Spec => ImplementsAtomicStore`, if clients lock first, keep ids unique and do not delete |
| `BTreeProofs` | `AnswersWereInserted` | `Spec => []NothingInvented` |
| `BTreeSearchProofs` | `EveryKeyFound` | `Spec => []SearchFinds` |
| `QueryProofs` | `AnswersAreRelational` | `Spec => []AnswerRelational` |
| | `LimitStopsTheScan` | `Spec => []ScansJustEnough` |

### Lock manager (any sets `TxnId` and `Resource`)

`NoConflict` is inductive beside `TypeOK`: a grant compared the request with each
entry of the resource, and a release only removes entries.  The refinement takes
a transaction's strongest entry as what it owns.  `ScanDecides` shows that the
scan of `acquireLock` answers as `CanOwn` does, although it sees entries and not
owners; `GrantRefines` and `ReleaseRefines` show the steps.

### Table heap (any rows, sizes, page, directory and slot size)

`HeapAssumption`: natural numbers, the directory starts inside the page, and the
page is smaller than what a `uint16_t` holds.  `IInv` is types and, unless
`overfull`, `Separate` (directory and live texts are disjoint and inside the
page) together with `Faithful` (each live text is the one its row was inserted
with).  Neither half is inductive alone: that a new text overwrites nothing needs
the layout, and what reads back after a step is what did before plus the new
row.  `DataStartBounds` (the minimum over live offsets exists) and `AcceptedFits`
(a row that passes the check and is not too large fits between directory and
texts) carry the arithmetic; `EnteredSeparate` and `EnteredFaithful` the
insertion.

### Buffer pool (any number of clients, frames, pages and values)

`IInv` has six parts.

- `TypeOK` and the two that the run checks: `PoolConsistent`, `PinnedStay`.  The
  pins of a frame are the clients that hold it, so "unpinned" in `evict` means
  "held by nobody", which is what `PinnedStay` needs of it.
- `CleanFrames`: a frame that is not dirty, and that nobody is writing, equals
  the file.  `evict` drops such a frame without a write; without this nothing
  would be known of what is read back.
- `FlushedOnDisk`: what was flushed and not written since is in the file, whole.
  A write that is cut short tears a page only where the new content differs from
  the old, so it harms no flushed page.  `FlushedSurvives` follows, which speaks
  of what a reader gets: the frame, if there is one, else the file.
- `LruByUse`: the list is in the order of last use, which the history `used`
  records.  `EvictsLeastRecent` follows, since `evict` takes the last unpinned.

`RoomIsOK` says once for all actions what an eviction leaves (fewer frames, the
others unchanged, the list without the victim).  For the refinement, `Current` of
a page (its frame if it has one, else the file) is what the page store holds:
every action is then a step of `PageStore` or a stutter, throwing calls included
(`EvictThrowsSaves`, `FlushThrowsSaves`).

### Transactions (any tables, rows and numbers of transactions)

`TransactionsAssumption` and `RowsAssumption` (with `LockManager`'s, whose
`NoConflict` is carried over) say what the constants are.

- `TypeCorrect`, `LogComplete` and `RollbackIsLocal` hold for clients without any
  discipline.  `LogComplete` rests on `SubmittedInv`: a record belongs to a
  transaction that began, and an open transaction has submitted its begin alone.
  `RollbackIsLocal` follows the backwards walk of `rollback`, a fold over the
  write log, as a table over sets of places (`undoTable`); each undo step leaves
  the rows with other ids, picked in their order, as they are.
- `LocksEnd` and `WritesDisjoint` are theorems `ASSUME LockFirst`: the code takes
  no locks, so they hold for clients that do.  `WritesDisjoint` needs two facts
  together, `LockInv`: no two transactions have conflicting locks, and whatever
  an open transaction wrote it holds exclusively.
- `AtomicStoreImplemented` is the theorem the others lead to.  Its hypotheses are
  those of the run: clients lock what they write (`LockFirst`), keep ids unique
  (`FreshIds`, for which `FreshAssumption` has the preloaded rows start that way)
  and do not delete; `Transactions_delete` shows that with deletes it is false.
  The mapping takes the rows without the writes of open transactions as the
  database (`Database`: for a written row, what its first record remembers), and
  the rows they wrote, as they are now, as what is `Pending`.

  A commit is then simple; a rollback is not, because the code undoes a write log
  record by record, each time searching for the id, and the abstract step undoes
  all of it at once.  `AtomicInv` is what makes the two agree: ids are unique in
  each table (`Unique`); the records of open transactions are of inserts and
  updates, with their row in full (`CarefulLogs`); of the records about one id,
  each ends with what the next one says it found, and the last with what the
  table holds (`Chained`, also for an update that changes the id, which is about
  two); and every transaction has its begin in the log (`Counted`).  `UndoPasses`
  is the loop: if each round leads from tables in `P[i]` to tables in `P[i - 1]`,
  the whole leads to `P[0]`.  Here `P[i]` has the tables in which every id is what
  it was after the first `i` records (`AfterFirst`); `UndoRow` is the round, and
  `P[0]` is what `Database` says (`UndoneBack`).  `SeenHolds` ties `Database` and
  `Pending` to the tables, and `StoreWrite`, `StoreCommit`, `StoreRollback` and
  `StoreQuiet` take each action to a step of `AtomicStore` or to none.

### B-tree (any keys, any `ORDER` of two or more, any breaks)

`NothingInvented` is proved with insertions that stop between two page writes, so
the invariant cannot speak of a well-formed tree.  What remains then is a graph
of pages in which some are never saved.  `IInv` says that two measures exist:
levels `H`, which fall from a page to its children, and ranks `R`, which fall
along `nextLeaf`; and that each entry of a leaf was given.  They are what makes
`Path` and `EntriesFrom`, recursive functions over pages, have a value at all:
`DownExists` and `WalkExists` build the table by induction on the measure (with
`SetInduction`, which is stated for sets and not for a predicate).

A new page needs a level and a rank between those that are there, so the measures
are doubled at every insertion (`Doubled`) and the new page takes the odd number
(`Risen`).  The writes of an insertion are `GoodWrites`: each one is sound given
the pages written before it, and so is every prefix (`GoodPrefix`), which covers
`Insert` and `InsertBreaks` at once.  `InsertRec` is a fold over the path; it is
unfolded as a table over sets of places (`upTable`, `ClimbExists`, `ClimbKeeps`).

`SearchFinds` speaks of trees in which no insertion broke off.  Its invariant
`InOrder` says that two functions exist which no variable holds: `K`, the keys
below each page, and `A`, the page it is a child of.  `Ordered(K, A)`: every page
is `Placed`, that is, its keys are sorted, its children are its own, and each
separator *is* a key below the child on its right, with nothing greater on its
left and nothing less on its right; the root has no parent and all inserted keys
below it.  That a separator is itself a key on its right is what makes equal keys
harmless: `findLeaf` goes right of an equal separator, and although the key may
be left of it too, it is never only there (`ChildHasKey`).

On the way up the path the tree is in order but for one page.  `Lifted` says what
`insertRec` leaves when it returns from a page: everything is in place except the
parent, which waits for the new half, and only pages up to this one (`Local`)
have changed.  `Ready` says what holds before a node is saved or split; one
lemma for each takes it to `Lifted` (`SavedFits`, `SavedSplits`), and `LeafLifts`
and `BackLifts` go from the leaf to the root (`InsertRecLifts`).  The left half
must not be empty (`L[q] # {}`), because the separator on the left of the child
has to stay a key of that half.

### SELECT (any tables, rows, expressions and plans)

`AnswerRelational` compares what was collected, one row at a time and by
cursors, with a set of candidates (rows, or pairs of rows that join).  `QueryInv`
keeps the accounts of this: `Accounts(W, out, P)` has a one to one function `W`
from the rows collected to the candidates in `P` they were made of.  While the
source is pulled, `P` is `Found`, the candidates gone through that pass the
filter; each turn of a loop adds one candidate or none to `Went` (`ScanAdds`,
`ProbeAdds`, `EmitAdds`), and at the end nothing is missing (`AllWent`).  A
cursor into the rows of a bucket has to be tied to the pairs: the `at`-th row of
the bucket is the partner of rank `at` among the partners of the probe row
(`RankIs`, `PlaceOfPartner`, by counting positions).  What the join holds belongs
to the last probe row (`AtHit`), or that row has no bucket, and then what is held
is used up (`AtMiss`).  A sort permutes the
accounts (`AccountsSorted`), and multiplicities follow from them
(`GivenAsked`).

`LimitInv` says that the limit is never passed, that execute ends at the limit or
with nothing left, and that, without ORDER BY, the cursors stand at the candidate
the last row came from whenever the limit is reached; the last is
`ScansJustEnough`, and why a `LIMIT 0` does not touch the table.

### Definitions made for the proofs

Loops that collect or erase elements are `Picked(seq, I)`, the elements at a set
of positions, and not a recursive selection; `AfterWrites` says which write of a
page counts, and does not fold over them.  Facts about such definitions need no
induction over data; `DataFacts` has them.

### What stays with TLC

- Liveness (`Finishes`, and that `ScanReturns` is violated): fairness and
  `ENABLED` are out of the prover's reach.
- `CrashRecovery`: what the folds of `Recovery` compute for a log of any length.
- `ScanComplete`: what is read back is the text of a row taken apart, sign by sign.
- `WellFormed` of `BTree` speaks of the leaves from left to right, which
  `LeavesBelow` puts together by recursion over the children.  `RangeMissesOnlyTies`
  needs the order of the list of leaves, which the invariant behind
  `SearchFinds` does not have: it has what a page may hold, and that every key
  is reached, and says nothing of `next`.  Its proof is not out of reach, only
  not done; of a range scan, `NothingInvented` is what is proved.
- `Engine`, with lexer and parser: its properties compare what recursive
  functions compute with a reference, for all inputs.

## 5. Where code and documentation differ

File names are those of `src/`; `README.md` in this section is `src/README.md`.

Shown by a run:

1. *A rolled back DELETE does not bring the row back* (`Transactions_delete`).
   `rollback` looks for a row with the id to overwrite (`txn_manager.h:85`); it
   is gone.  `README.md:315` says it is restored.
2. *A commit is not durable* (`Transactions_durable`).  The WAL constructor
   leaves the stream failed (`wal.cpp:20`), and every append and flush is
   ignored; the file stays empty.  `README.md:312` says otherwise.
3. *A scan of a heap never returns* (`TableHeap_scan`).  It goes from its page to
   the next number until `fetchPage` throws behind the end of the file
   (`table_heap.cpp:190`, `disk_manager.cpp:36`), and the rows found are lost.
   `README.md:282` lists scans among what a heap supports, and `table_heap.h`
   has the rows as the result.  On the way it collects the rows of other heaps in
   the file.
4. *A range scan is not complete* (`BTree_range`).  A split between equal keys
   leaves some of them left of a separator, and the descent goes right of it
   (`btree.cpp:91`): of several entries under the lower bound some are missing.
   `btree.h:40` and `README.md:303` promise all; what the code keeps of it is
   `RangeMissesOnlyTies`.

Met while modelling, without a run of their own:

- *Storage.*  A row longer than the free space passes the size check, which
  compares a negative number as unsigned (`table_heap.cpp:85`), and is copied
  past the page.
- `updateRow` (`table_heap.cpp:144-151`) invalidates the old slot, ignores that
  the new row was refused, and returns true: the row is lost.
- Undo runs after all redos (`wal.cpp:177`), so the old image of an aborted
  transaction overwrites the value a later transaction committed, although the
  rollback had already happened.  `RecoverRebuilds` leaves such ids out.
- Transaction ids start at 1 in each process (`txn_manager.h:138`) while the
  log keeps those of earlier ones; recovery then takes the commit of one for
  the other.
- An UPDATE that changes the id logs only the new id (`executor.cpp:233`);
  redo appends a row and leaves the old one.
- A row without id is inserted again by each recovery (`wal.cpp:150`).
- Images are written `col=val;` without escaping (`wal.cpp:32`).
- Rollback of an insert erases every row with that id (`txn_manager.h:77`).
- A write through a transaction that has ended is neither refused nor logged,
  but applied (`executor.cpp:198`).
- `README.md:329` grants an exclusive lock "only if the resource is completely
  free"; the code grants an upgrade to its only holder.
- `README.md:331` has locking control which transactions touch the same data;
  the executor takes no lock.
- `README.md:361` promises that changes are logged before they are made; they
  are made at once and logged at commit.
- *`and`, `or` and `not` do not work*: the lexer knows keywords in any case but
  keeps their spelling (`lexer.cpp:125`), the parser makes it the operator
  (`parser.cpp:258`), and `evaluateExpr` knows only the capitals `ast.h:43`
  lists.  Such a condition selects no row.
- `NOT a = 1` is `(NOT a) = 1`, because NOT binds tighter than a comparison
  (`parser.cpp:241-251`); AND and OR have one rank and group to the left.
- `-5` is a unary expression and not a literal, so `INSERT ... VALUES (-5)`
  stores an empty text (`executor.cpp:84`) and a comparison with it compares the
  empty text.
- Whatever follows a complete statement is ignored (`parser.cpp:52`):
  `DELETE FROM t WERE id = 1` deletes everything.
- An INSERT with fewer values than columns reads behind the values
  (`executor.cpp:196`).
- `LIMIT 99999999999` throws `std::out_of_range` and no parse error, and
  `LIMIT 3.14` is cut to 3 (`parser.cpp:237`).
- PRIMARY of a column matches in capitals only, whatever kind of token has that
  value, and any identifier passes for KEY and for NULL (`parser.cpp:180-192`).
- `TRUE` keeps its spelling and `evaluateExpr` compares with "true", so a
  condition TRUE selects nothing.
- The assignments of one UPDATE see each other's results (`executor.cpp:226`).
- Sort sits above Projection (`optimizer.cpp:30-38`): ORDER BY on a column that
  is not selected compares empty texts.  With ORDER BY a LIMIT query reads the
  whole table, against the letter of `README.md:192`.
- Sort and comparison order numbers as numbers and anything else as text
  (`sort.h:53`), no strict weak order on a mixed column.
- The checksum of a page header is never computed or compared (`page.h:20`).
- A B-tree insertion that throws between two page writes can leave keys
  unreachable (`btree.cpp:219`); `NothingInvented` still holds.
- The MVCC snapshot sees the current rows, committed or not
  (`executor.cpp:121-127`).

## 6. What is not modelled

- `tokenTypeToString` and `printRow`, which print; `SimpleIndex` and the rest of
  `main.cpp`, a demonstration without logic of the engine.
- Texts as such: nodes of the B-tree as text (keys and values that are empty,
  hold white space, or together are longer than a page); a log file cut inside a
  record; a data file whose length is not a multiple of the page size; numbers
  as `std::stod` reads them beyond those of the runs.
- Columns that mix numbers and other texts under ORDER BY, for which `std::sort`
  promises nothing.
- A heap or an index through the buffer pool page by page: within one call a
  heap holds one page, and `BTree` takes every exception of the pool between two
  writes for possible, so what the composition could add are the pins alone.
- Row versions: there is no store of them in the code.
- Several threads: nothing in the engine but the lock manager is meant for them.

## 7. Plan

Done, in this order: lock manager with refinement and proofs; buffer pool over
the disk; transactions with WAL and locks; recovery and restarts; table heap
with proofs; B-tree; SELECT pipeline; expressions and optimizer; lexer, parser
and the way of a statement through the engine; scan and row texts.

Proved since: what the passing runs check of `BufferPool` and of `Transactions`,
both with their refinements, that a B-tree invents no answer and finds every
key, and that a SELECT returns the relational answer and LIMIT stops its scan.

To prove next: `RangeMissesOnlyTies` of `BTree`, with the list of leaves as a third ghost;
`NoConflict` and `LocksOfActive` for `CrashRecovery` with its restarts;
the place of each row in `HeapScan`.

To model when the code gets there: the log as bytes, with records cut by a crash
inside an append, once the stream is cleared and the log is no longer empty;
wait queues in the lock manager; a store of versions.
