------------------------------- MODULE RowText -------------------------------
(***************************************************************************)
(* Rows as text and back: "col=val;" for every column, without escaping    *)
(* (serializeRowData and deserializeRowData of src/table_heap.cpp, and the *)
(* same again in src/wal.cpp).  A text is a sequence of characters; a row  *)
(* is a function from column names to values.                              *)
(***************************************************************************)
EXTENDS TLC, Sequences, SequencesExt, FiniteSetsExt

CONSTANT Columns   \* the column names, as the row's hash table lists them

Serialize(row) ==
    LET there == SelectSeq(Columns, LAMBDA col : col \in DOMAIN row)
    IN  FlattenSeq([i \in DOMAIN there |-> there[i] \o <<"=">> \o row[there[i]] \o <<";">>])

Places(text, char) == {i \in DOMAIN text : text[i] = char}

(* What stands before each ';' and behind the one before it.               *)
Tokens(text) ==
    LET ends == SelectSeq([i \in DOMAIN text |-> i], LAMBDA i : text[i] = ";")
    IN  [k \in DOMAIN ends |->
            SubSeq(text, (IF k = 1 THEN 0 ELSE ends[k - 1]) + 1, ends[k] - 1)]

(* fault: a token is cut at its last '=' *)
Cut_AtLast(token) == Max(Places(token, "="))

(* Where a token is cut into name and value.                               *)
Cut(token) == Min(Places(token, "="))

(* A token without '=', or with nothing in front of it, is no column; of   *)
(* two tokens for one column the later one counts.                         *)
Deserialize(text) ==
    LET Enter(row, token) ==
          IF Places(token, "=") = {} \/ Cut(token) = 1 THEN row
          ELSE (SubSeq(token, 1, Cut(token) - 1) :> SubSeq(token, Cut(token) + 1, Len(token))) @@ row
    IN  FoldLeft(Enter, <<>>, Tokens(text))

(* The rows that the format can carry.                                     *)
Plain(row) ==
    \A col \in DOMAIN row :
        /\ col # <<>>
        /\ Places(col, "=") = {} /\ Places(col, ";") = {} /\ Places(row[col], ";") = {}
==============================================================================
