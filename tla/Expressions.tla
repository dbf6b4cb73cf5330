----------------------------- MODULE Expressions -----------------------------
(***************************************************************************)
(* Expressions of the syntax tree (src/include/ast.h) and what the         *)
(* executor makes of them (the functions at the top of                     *)
(* src/src/executor.cpp).  A row maps some columns to texts.  A text is a  *)
(* string; what std::stod reads from a text and how std::string orders     *)
(* texts are given, for the few texts an instance has.                     *)
(***************************************************************************)
EXTENDS Integers, Sequences

CONSTANTS Number,     \* what std::stod reads, for every text it accepts
          TextOrder,  \* all texts, in the order of std::string
          Exprs       \* expressions, with every operand they have

LiteralExpr(kind, value)   == [node |-> "literal", kind |-> kind, value |-> value]
ColumnRefExpr(table, col)  == [node |-> "column", table |-> table, column |-> col]
BinaryExpr(op, left, right) == [node |-> "binary", op |-> op, left |-> left, right |-> right]
UnaryExpr(op, operand)     == [node |-> "unary", op |-> op, operand |-> operand]

------------------------------------------------------------------------------
ValueOf(row, col) == IF col \in DOMAIN row THEN row[col] ELSE ""

(* resolveExpr: the text of an operand; the table of a column is ignored.  *)
Resolve(e, row) == CASE e.node = "literal" -> e.value
                     [] e.node = "column"  -> ValueOf(row, e.column)
                     [] OTHER              -> ""

(* extractLiteral: the text of a value to insert.                          *)
ExtractLiteral(e) == IF e.node = "literal" THEN e.value ELSE ""

(* Two texts are compared as numbers when both are, and as texts otherwise. *)
Numbers(l, r) == {l, r} \subseteq DOMAIN Number
Place(text)   == CHOOSE i \in DOMAIN TextOrder : TextOrder[i] = text

(* fault: equality is always that of the texts *)
Same_ByText(l, r) == l = r

Same(l, r) == IF Numbers(l, r) THEN Number[l] = Number[r] ELSE l = r

Below(l, r) == IF Numbers(l, r) THEN Number[l] < Number[r] ELSE Place(l) < Place(r)

(* compareValues; an operator it does not know compares nothing.           *)
Compare(l, op, r) == CASE op = "="  -> Same(l, r)
                       [] op = "!=" -> ~Same(l, r)
                       [] op = "<"  -> Below(l, r)
                       [] op = ">"  -> Below(r, l)
                       [] op = "<=" -> ~Below(r, l)
                       [] op = ">=" -> ~Below(l, r)
                       [] OTHER     -> FALSE

(* evaluateExpr.  A column, and a unary operator but NOT, counts as true.  *)
Evaluate(expr, row) ==
    LET Eval[e \in Exprs] ==
          CASE e.node = "binary" /\ e.op = "AND" -> Eval[e.left] /\ Eval[e.right]
            [] e.node = "binary" /\ e.op = "OR"  -> Eval[e.left] \/ Eval[e.right]
            [] e.node = "binary" /\ e.op \notin {"AND", "OR"} ->
                 Compare(Resolve(e.left, row), e.op, Resolve(e.right, row))
            [] e.node = "unary" /\ e.op = "NOT" -> ~Eval[e.operand]
            [] e.node = "literal" -> e.value \in {"true", "1"}
            [] OTHER -> TRUE
    IN  Eval[expr]
==============================================================================
