------------------------------- MODULE SqlText -------------------------------
(***************************************************************************)
(* How a statement is written: the tokens of a statement, and the text of  *)
(* some tokens in a layout.  This is the other direction of the lexer and  *)
(* the parser, stated from the grammar in the comments of src/parser.cpp;  *)
(* nothing here models code.  A token is written <<type, value>>.          *)
(***************************************************************************)
EXTENDS Parser, FiniteSetsExt

CONSTANT Spelling  \* pieces of the values that take more than one

Keyword(word) == <<word, word>>
Name(id)      == <<"IDENTIFIER", id>>
Symbol(c)     == CASE c = "," -> <<"COMMA", c>>  [] c = "." -> <<"DOT", c>>
                   [] c = "(" -> <<"LPAREN", c>> [] c = ")" -> <<"RPAREN", c>>
                   [] c = "*" -> <<"STAR", c>>   [] c = "-" -> <<"MINUS", c>>
                   [] c = "=" -> <<"EQ", c>>     [] c = "!=" -> <<"NEQ", c>>
                   [] c = "<" -> <<"LT", c>>     [] c = ">" -> <<"GT", c>>
                   [] c = "<=" -> <<"LTE", c>>   [] c = ">=" -> <<"GTE", c>>
                   [] OTHER -> Keyword(c)

Separated(items, sep) ==
    FlattenSeq([i \in DOMAIN items |-> IF i = 1 THEN items[i] ELSE <<sep>> \o items[i]])

Commas(items)   == Separated(items, Symbol(","))
InBrackets(list) == <<Symbol("(")>> \o list \o <<Symbol(")")>>

(* How tightly an expression holds together: AND and OR least.             *)
Tightness(e) == CASE e.node = "binary" /\ e.op \in {"AND", "OR"} -> 1
                  [] e.node = "binary" /\ e.op \notin {"AND", "OR"} -> 2
                  [] e.node = "unary"  -> 3
                  [] OTHER -> 4

LiteralToken(e) == CASE e.kind = "String" -> <<"STRING", e.value>>
                     [] e.kind = "Bool"   -> IF e.value = "true" THEN <<"BOOL_TRUE", e.value>>
                                                                 ELSE <<"BOOL_FALSE", e.value>>
                     [] OTHER -> <<"NUMBER", e.value>>

(* Parentheses only where the tree would be another one without them.      *)
Written ==
    LET Write[e \in Exprs] ==
          LET Operand(o, t) == IF Tightness(o) >= t THEN Write[o] ELSE InBrackets(Write[o])
          IN  CASE e.node = "literal" -> <<LiteralToken(e)>>
                [] e.node = "column"  -> (IF e.table = "" THEN <<>> ELSE <<Name(e.table), Symbol(".")>>)
                                         \o <<Name(e.column)>>
                [] e.node = "unary"   -> <<Symbol(e.op)>> \o Operand(e.operand, 3)
                [] e.node = "binary"  -> Operand(e.left, Tightness(e)) \o <<Symbol(e.op)>>
                                         \o Operand(e.right, Tightness(e) + 1)
    IN  Write

(* An optional clause, a set of at most one value.                         *)
Clause(word, clause, Tokens(_)) ==
    IF clause = {} THEN <<>>
    ELSE <<Keyword(word)>> \o Tokens(CHOOSE x \in clause : TRUE)

WhereTokens(where) == Clause("WHERE", where, LAMBDA e : Written[e])

OrderTokens(orderBy) ==
    IF orderBy = <<>> THEN <<>>
    ELSE <<Keyword("ORDER"), Keyword("BY")>> \o
         Commas([i \in DOMAIN orderBy |->
            <<Name(orderBy[i].column)>>
              \o IF orderBy[i].ascending THEN <<>> ELSE <<Keyword("DESC")>>])

LimitTokens(limit) ==
    Clause("LIMIT", limit, LAMBDA n :
        <<<<"NUMBER", CHOOSE text \in DOMAIN Stoi : Stoi[text] = n>>>>)

DefTokens(def) ==
    <<Name(def.name), Name(def.type)>>
      \o (IF def.primaryKey THEN <<Name("PRIMARY"), Name("KEY")>> ELSE <<>>)
      \o (IF def.notNull THEN <<Keyword("NOT"), Name("NULL")>> ELSE <<>>)

Names(ids) == Commas([i \in DOMAIN ids |-> <<Name(ids[i])>>])

StatementTokens(s) ==
    CASE s.kind = "select" ->
           <<Keyword("SELECT")>> \o (IF s.columns = <<"*">> THEN <<Symbol("*")>> ELSE Names(s.columns))
             \o <<Keyword("FROM"), Name(s.table)>>
             \o WhereTokens(s.where) \o OrderTokens(s.orderBy) \o LimitTokens(s.limit)
      [] s.kind = "insert" ->
           <<Keyword("INSERT"), Keyword("INTO"), Name(s.table)>> \o InBrackets(Names(s.columns))
             \o <<Keyword("VALUES")>>
             \o InBrackets(Commas([i \in DOMAIN s.values |-> Written[s.values[i]]]))
      [] s.kind = "update" ->
           <<Keyword("UPDATE"), Name(s.table), Keyword("SET")>>
             \o Commas([i \in DOMAIN s.assignments |->
                  <<Name(s.assignments[i][1]), Symbol("=")>> \o Written[s.assignments[i][2]]])
             \o WhereTokens(s.where)
      [] s.kind = "delete" ->
           <<Keyword("DELETE"), Keyword("FROM"), Name(s.table)>> \o WhereTokens(s.where)
      [] s.kind = "create" ->
           <<Keyword("CREATE"), Keyword("TABLE"), Name(s.table)>>
             \o InBrackets(Commas([i \in DOMAIN s.columns |-> DefTokens(s.columns[i])]))
      [] s.kind = "drop" -> <<Keyword("DROP"), Keyword("TABLE"), Name(s.table)>>

------------------------------------------------------------------------------
(* A layout: the pieces between two tokens, and whether they are left out  *)
(* where two tokens may touch; what stands in front of all and behind all. *)
IsKeyword(token) == token[1] = token[2]
IsWord(token)    == IsKeyword(token) \/ token[1] \in {"IDENTIFIER", "NUMBER", "BOOL_TRUE", "BOOL_FALSE"}

MayTouch(a, b) == ~(IsWord(a) /\ IsWord(b)) /\ ~(a[1] = "MINUS" /\ b[1] = "MINUS")

PiecesOf(token, layout) ==
    LET plain == IF token[2] \in DOMAIN Spelling THEN Spelling[token[2]] ELSE <<token[2]>>
    IN  CASE token[1] = "STRING" -> <<"'">> \o plain \o <<"'">>
          [] token[1] \in {"GTE", "LTE", "NEQ"} -> <<SubSeq(token[2], 1, 1), "=">>
          [] OTHER -> plain

(* What stands in front of token i.                                        *)
GapBefore(tokens, i, layout) ==
    IF i = 1 THEN layout.front
    ELSE IF layout.tight /\ MayTouch(tokens[i - 1], tokens[i]) THEN <<>> ELSE layout.gap

PiecesUpTo(tokens, n, layout) ==
    FlattenSeq([i \in 1..n |-> GapBefore(tokens, i, layout) \o PiecesOf(tokens[i], layout)])

Text(tokens, layout) == PiecesUpTo(tokens, Len(tokens), layout) \o layout.behind

(* The piece of the text at which token i begins.                          *)
BeginOf(tokens, i, layout) ==
    Len(PiecesUpTo(tokens, i - 1, layout)) + Len(GapBefore(tokens, i, layout)) + 1

(* Line and column of piece k of a text, counted from 1.                   *)
PlaceIn(text, k) ==
    LET newlines == {j \in 1..(k - 1) : text[j] = "\n"}
        bol      == Max({0} \cup newlines)
    IN  <<1 + Cardinality(newlines),
          FoldLeft(LAMBDA n, piece : n + Len(piece), 1, SubSeq(text, bol + 1, k - 1))>>
==============================================================================
