------------------------------- MODULE HeapScan -------------------------------
(***************************************************************************)
(* TableHeap::scan of src/table_heap.cpp on a heap in the file it shares   *)
(* with others.  The heap is in page 1 here; what else is in the file does *)
(* not change while the scan runs, as the engine has one thread.           *)
(*                                                                         *)
(* A step is one turn of the loop of scan: a page is fetched, read and     *)
(* unpinned.  The loop goes from each page to the next number in the file, *)
(* whoever owns it, and scan returns when that number is INVALID_PAGE_ID.  *)
(* fetchPage throws before that where the file ends, or earlier for a      *)
(* reason of the pool; the results are lost then.                          *)
(***************************************************************************)
EXTENDS TableHeap, RowText, Mvcc

CONSTANTS Fields,     \* Fields[r]: the row a client means by r
          Beyond,     \* the pages behind: for each its slots, [valid, row]
          Snapshots,  \* the snapshots scan is called with, see SeenUnder
          InvalidPage \* INVALID_PAGE_ID, 2^32 - 1

ASSUME ScanAssumption == \A r \in Row : Size[r] = Len(Serialize(Fields[r]))

(* A file with pages up to INVALID_PAGE_ID would have 16 TB.               *)
ASSUME FileAssumption == InvalidPage \in Nat /\ InvalidPage > Len(Beyond) + 1

VARIABLES pid,        \* the page to be fetched, or 0 when no scan is running
          snapshot,   \* the snapshot of the scan
          found,      \* results: <<<<page, slot>>, row>> in the order found
          outcome     \* how the last scan has ended: "none", "returned",
                      \* "poolThrew", "fileEnded"

scanVars == <<pid, snapshot, found, outcome>>
allVars  == <<vars, scanVars>>

(* A page holds the bytes of texts; getRow and scan make rows of them.     *)
Char(byte) == Serialize(Fields[byte[1]])[byte[2]]
RowAt(i) ==
    LET text == GetRow(i)
    IN  Deserialize([k \in DOMAIN text |-> Char(text[k])])

Slots(p) ==
    IF p = 1 THEN [i \in DOMAIN slots |->
                     [valid |-> slots[i].valid, row |-> IF slots[i].valid THEN RowAt(i) ELSE <<>>]]
    ELSE Beyond[p - 1]

(* fault: slots of deleted rows are read as well *)
Collected_DeadToo(p) ==
    [i \in DOMAIN Slots(p) |-> <<<<p, i>>, Slots(p)[i].row>>]

(* The rows a turn of the loop adds to the results.                        *)
Collected(p) ==
    LET hits == SelectSeq([i \in DOMAIN Slots(p) |-> i], LAMBDA i :
                    Slots(p)[i].valid /\ SeenUnder(snapshot, Slots(p)[i].row))
    IN  [k \in DOMAIN hits |-> <<<<p, hits[k]>>, Slots(p)[hits[k]].row>>]

------------------------------------------------------------------------------
Scanning == pid # 0

StartScan ==
    /\ ~Scanning /\ ~overfull
    /\ pid' = 1
    /\ snapshot' \in Snapshots
    /\ found' = <<>>
    /\ outcome' = "none"
    /\ UNCHANGED vars

ScanPage ==
    /\ pid \in 1..(Len(Beyond) + 1)
    /\ found' = found \o Collected(pid)
    /\ pid' = pid + 1
    /\ UNCHANGED <<vars, snapshot, outcome>>

Ends(how, results) ==
    /\ pid' = 0
    /\ found' = results
    /\ outcome' = how
    /\ UNCHANGED <<vars, snapshot>>

(* fetchPage throws for a reason of the pool (BufferPool).                 *)
ScanThrows == pid \in 1..(Len(Beyond) + 1) /\ Ends("poolThrew", <<>>)

(* The loop is at an end, or readPage throws, as there is no such page.    *)
LastPage ==
    /\ pid > Len(Beyond) + 1
    /\ IF pid = InvalidPage THEN Ends("returned", found) ELSE Ends("fileEnded", <<>>)

HeapCall == ~Scanning /\ Next /\ UNCHANGED scanVars

ScanInit ==
    /\ Init
    /\ pid = 0
    /\ snapshot = {}
    /\ found = <<>>
    /\ outcome = "none"

ScanNext == HeapCall \/ StartScan \/ ScanPage \/ ScanThrows \/ LastPage

(* The loop of scan waits for nobody; its caller need not call again.      *)
ScanSpec ==
    ScanInit /\ [][ScanNext]_allVars /\ WF_allVars(ScanPage) /\ WF_allVars(LastPage)

------------------------------------------------------------------------------
OfPage(p) == SelectSeq(found, LAMBDA hit : hit[1][1] = p)

(* When a scan has left the heap's page it has every live row once, in the *)
(* order of the slots, as the client meant it, whatever was deleted and    *)
(* updated before and however the texts lie on the page; only a row with a *)
(* ';' in a value, or one in a name, may come back changed.  A snapshot of *)
(* any transaction hides none (scan, table_heap.cpp:198-222, with          *)
(* deserializeRowData).                                                    *)
ScanComplete ==
    pid > 1 =>
      LET live == SelectSeq([i \in DOMAIN slots |-> i], LAMBDA i : slots[i].valid)
          mine == OfPage(1)
      IN  /\ [k \in DOMAIN mine |-> mine[k][1][2]] = IF 0 \in snapshot THEN <<>> ELSE live
          /\ \A k \in DOMAIN mine :
               LET row == Fields[given[mine[k][1][2]]]
               IN  Plain(row) => mine[k][2] = row

(* A scan returns its rows, as long as the pool can give it the pages      *)
(* (README.md:282: a heap "supports point reads, updates, deletes, and     *)
(* scans"; scan of table_heap.h has the rows as its result).               *)
ScanReturns == Scanning ~> (~Scanning /\ outcome \in {"returned", "poolThrew"})
==============================================================================
