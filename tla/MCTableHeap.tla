----------------------------- MODULE MCTableHeap -----------------------------
(* A small page: rows fill it to the byte, so that another one is larger   *)
(* than all that is left, and small rows fill and reuse the space between. *)
(* Behind it a page of another heap with a deleted row, and an index page, *)
(* which has no slots.                                                     *)
EXTENDS HeapScan

CONSTANTS small, tricky, broken, huge

SmallColumns == <<<<"c">>, <<"d">>>>
C == <<"c">>
D == <<"d">>

(* An empty value; values with the signs of the format; and a row that is  *)
(* longer than what a uint16_t holds, and is cut by the cast.              *)
SmallFields == [r \in Row |->
    CASE r = small  -> (C :> <<>>)
      [] r = tricky -> (C :> <<"=">>) @@ (D :> <<>>)
      [] r = broken -> (C :> <<";">>)
      [] r = huge   -> (C :> [i \in 1..14 |-> "x"])]

Sizes == [r \in Row |-> Len(Serialize(SmallFields[r]))]

SmallBeyond == <<<<[valid |-> FALSE, row |-> <<>>], [valid |-> TRUE, row |-> D :> C]>>, <<>>>>
==============================================================================
