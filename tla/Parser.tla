------------------------------- MODULE Parser --------------------------------
(***************************************************************************)
(* The parser (src/src/parser.cpp): recursive descent over a token list.   *)
(* A method that starts at token k gives                                   *)
(*     Got(what it returns, where the next one starts), or                 *)
(*     Error(the token it throws at).                                      *)
(* A list t ends in END_OF_FILE, which no method consumes.  std::stoi is   *)
(* given by Stoi, for the texts it accepts; it throws for the others.      *)
(***************************************************************************)
EXTENDS Expressions, SequencesExt

CONSTANT Stoi

Got(result, next) == [ok |-> TRUE, result |-> result, next |-> next]
Error(k)          == [ok |-> FALSE, next |-> k]

(* What comes after a method that may have thrown.  (The set makes TLC     *)
(* evaluate first only once.)                                              *)
Then(first, Rest(_, _)) ==
    CHOOSE outcome \in {IF m.ok THEN Rest(m.result, m.next) ELSE m : m \in {first}} : TRUE

(* check, expect and match                                                 *)
Is(t, k, type)     == t[k].type = type
Expect(t, k, type) == IF Is(t, k, type) THEN Got(t[k].value, k + 1) ELSE Error(k)
Matched(t, k, type) == IF Is(t, k, type) THEN k + 1 ELSE k

(* do ... while (match(COMMA))                                             *)
List(t, k, Item(_)) ==
    LET Items[j \in 1..Len(t)] ==
          Then(Item(j), LAMBDA item, i :
            IF Is(t, i, "COMMA")
            THEN Then(Items[i + 1], LAMBDA items, n : Got(<<item>> \o items, n))
            ELSE Got(<<item>>, i))
    IN  Items[k]

------------------------------------------------------------------------------
(* Expressions.  A rule of the precedence ladder at a token; the tail of a *)
(* rule is what its while loop reads, a sequence of <<op, right side>>.    *)
Rules == {"expression", "expression tail", "comparison", "comparison tail",
          "unary", "primary"}

ExpressionOps == {"AND", "OR"}
ComparisonOps == {"EQ", "NEQ", "LT", "GT", "LTE", "GTE"}

(* fault: each operator takes everything behind it as its right side *)
Nested_ToTheRight(left, tail) ==
    IF tail = <<>> THEN left
    ELSE LET Nest[i \in 0..Len(tail)] ==
               LET term == IF i = 0 THEN left ELSE tail[i][2]
               IN  IF i = Len(tail) THEN term ELSE BinaryExpr(tail[i + 1][1], term, Nest[i + 1])
         IN  Nest[0]

(* The loop makes what it has so far the left side of the next operator.   *)
Nested(left, tail) ==
    FoldLeft(LAMBDA expr, step : BinaryExpr(step[1], expr, step[2]), left, tail)

HasPoint(number) == \E i \in 1..Len(number) : SubSeq(number, i, i) = "."

LiteralKind(token) ==
    CASE token.type = "NUMBER" -> IF HasPoint(token.value) THEN "Float" ELSE "Integer"
      [] token.type = "STRING" -> "String"
      [] token.type \in {"BOOL_TRUE", "BOOL_FALSE"} -> "Bool"

LiteralTypes == {"NUMBER", "STRING", "BOOL_TRUE", "BOOL_FALSE"}

(* The part of parsePrimary about column and table.column.                 *)
ColumnRef(t, k) ==
    IF Is(t, k + 1, "DOT")
    THEN Then(Expect(t, k + 2, "IDENTIFIER"), LAMBDA column, n :
           Got(ColumnRefExpr(t[k].value, column), n))
    ELSE Got(ColumnRefExpr("", t[k].value), k + 1)

ParseExpression(t, start) ==
    LET Parse[x \in Rules \X (1..Len(t))] ==
          LET rule == x[1]
              k    == x[2]
              type == t[k].type
              Chain(operand, tail) ==
                Then(Parse[<<operand, k>>], LAMBDA left, i :
                  Then(Parse[<<tail, i>>], LAMBDA steps, n : Got(Nested(left, steps), n)))
              Loop(operand, ops) ==
                IF type \notin ops THEN Got(<<>>, k)
                ELSE Then(Parse[<<operand, k + 1>>], LAMBDA right, i :
                       Then(Parse[<<rule, i>>], LAMBDA steps, n :
                         Got(<<<<t[k].value, right>>>> \o steps, n)))
          IN  CASE rule = "expression"      -> Chain("comparison", "expression tail")
                [] rule = "expression tail" -> Loop("comparison", ExpressionOps)
                [] rule = "comparison"      -> Chain("unary", "comparison tail")
                [] rule = "comparison tail" -> Loop("unary", ComparisonOps)
                [] rule = "unary" ->
                     IF type \notin {"NOT", "MINUS"} THEN Parse[<<"primary", k>>]
                     ELSE Then(Parse[<<"unary", k + 1>>], LAMBDA operand, n :
                            Got(UnaryExpr(t[k].value, operand), n))
                [] rule = "primary" /\ type \in LiteralTypes ->
                     Got(LiteralExpr(LiteralKind(t[k]), t[k].value), k + 1)
                [] rule = "primary" /\ type = "IDENTIFIER" -> ColumnRef(t, k)
                [] rule = "primary" /\ type = "LPAREN" ->
                     Then(Parse[<<"expression", k + 1>>], LAMBDA inner, i :
                       Then(Expect(t, i, "RPAREN"), LAMBDA paren, n : Got(inner, n)))
                [] OTHER -> Error(k)
    IN  Parse[<<"expression", start>>]

------------------------------------------------------------------------------
(* Clauses.                                                                *)
ParseColumnList(t, k) == List(t, k, LAMBDA j : Expect(t, j, "IDENTIFIER"))

ParseWhereClause(t, k) ==
    IF ~Is(t, k, "WHERE") THEN Got({}, k)
    ELSE Then(ParseExpression(t, k + 1), LAMBDA expr, n : Got({expr}, n))

(* ASC is skipped wherever it stands, behind DESC too.                     *)
OrderByItem(t, k) ==
    Then(Expect(t, k, "IDENTIFIER"), LAMBDA column, i :
      Got([column |-> column, ascending |-> ~Is(t, i, "DESC")],
          Matched(t, Matched(t, i, "DESC"), "ASC")))

ParseOrderByClause(t, k) ==
    IF ~Is(t, k, "ORDER") THEN Got(<<>>, k)
    ELSE Then(Expect(t, k + 1, "BY"), LAMBDA by, i :
           List(t, i, LAMBDA j : OrderByItem(t, j)))

ParseLimitClause(t, k) ==
    IF ~Is(t, k, "LIMIT") THEN Got({}, k)
    ELSE Then(Expect(t, k + 1, "NUMBER"), LAMBDA number, n :
           IF number \in DOMAIN Stoi THEN Got({Stoi[number]}, n) ELSE Error(n))

(* The constraints from k on.  PRIMARY is told by its spelling, whatever   *)
(* the token, and KEY and NULL may be any identifier.                      *)
Constraints(t, k, def) ==
    LET Loop[j \in 1..Len(t), d \in [primaryKey : BOOLEAN, notNull : BOOLEAN]] ==
          IF t[j].value = "PRIMARY"
          THEN Then(Expect(t, j + 1, "IDENTIFIER"), LAMBDA key, n :
                 Loop[n, [d EXCEPT !.primaryKey = TRUE]])
          ELSE IF Is(t, j, "NOT")
          THEN Then(Expect(t, j + 1, "IDENTIFIER"), LAMBDA null, n :
                 Loop[n, [d EXCEPT !.notNull = TRUE]])
          ELSE Got(d, j)
    IN  Loop[k, def]

ParseColumnDef(t, k) ==
    Then(Expect(t, k, "IDENTIFIER"), LAMBDA name, i :
      Then(Expect(t, i, "IDENTIFIER"), LAMBDA type, j :
        Then(Constraints(t, j, [primaryKey |-> FALSE, notNull |-> FALSE]), LAMBDA c, n :
          Got([name |-> name, type |-> type,
               primaryKey |-> c.primaryKey, notNull |-> c.notNull], n))))

------------------------------------------------------------------------------
(* Statements.  A statement is a record of its kind and its clauses; an    *)
(* absent clause is {} or <<>>.                                            *)
Select(columns, table, where, orderBy, limit) ==
    [kind |-> "select", columns |-> columns, table |-> table, where |-> where,
     orderBy |-> orderBy, limit |-> limit]
Insert(table, columns, values) ==
    [kind |-> "insert", table |-> table, columns |-> columns, values |-> values]
Update(table, assignments, where) ==
    [kind |-> "update", table |-> table, assignments |-> assignments, where |-> where]
Delete(table, where) == [kind |-> "delete", table |-> table, where |-> where]
CreateTable(table, columns) == [kind |-> "create", table |-> table, columns |-> columns]
DropTable(table) == [kind |-> "drop", table |-> table]

(* Two tokens and the name of a table.                                     *)
Opening(t, second) ==
    Then(Expect(t, 2, second), LAMBDA word, k : Expect(t, k, "IDENTIFIER"))

(* A list in parentheses.                                                  *)
Bracketed(t, k, Item(_)) ==
    Then(Expect(t, k, "LPAREN"), LAMBDA open, i :
      Then(List(t, i, Item), LAMBDA items, j :
        Then(Expect(t, j, "RPAREN"), LAMBDA close, n : Got(items, n))))

ParseSelect(t) ==
    Then(IF Is(t, 2, "STAR") THEN Got(<<"*">>, 3) ELSE ParseColumnList(t, 2), LAMBDA columns, a :
      Then(Expect(t, a, "FROM"), LAMBDA from, b :
        Then(Expect(t, b, "IDENTIFIER"), LAMBDA table, c :
          Then(ParseWhereClause(t, c), LAMBDA where, d :
            Then(ParseOrderByClause(t, d), LAMBDA orderBy, e :
              Then(ParseLimitClause(t, e), LAMBDA limit, n :
                Got(Select(columns, table, where, orderBy, limit), n)))))))

ParseInsert(t) ==
    Then(Opening(t, "INTO"), LAMBDA table, a :
      Then(Bracketed(t, a, LAMBDA j : Expect(t, j, "IDENTIFIER")), LAMBDA columns, b :
        Then(Expect(t, b, "VALUES"), LAMBDA word, c :
          Then(Bracketed(t, c, LAMBDA j : ParseExpression(t, j)), LAMBDA values, n :
            Got(Insert(table, columns, values), n)))))

Assignment(t, k) ==
    Then(Expect(t, k, "IDENTIFIER"), LAMBDA column, i :
      Then(Expect(t, i, "EQ"), LAMBDA eq, j :
        Then(ParseExpression(t, j), LAMBDA value, n : Got(<<column, value>>, n))))

ParseUpdate(t) ==
    Then(Expect(t, 2, "IDENTIFIER"), LAMBDA table, a :
      Then(Expect(t, a, "SET"), LAMBDA set, b :
        Then(List(t, b, LAMBDA j : Assignment(t, j)), LAMBDA assignments, c :
          Then(ParseWhereClause(t, c), LAMBDA where, n :
            Got(Update(table, assignments, where), n)))))

ParseDelete(t) ==
    Then(Opening(t, "FROM"), LAMBDA table, a :
      Then(ParseWhereClause(t, a), LAMBDA where, n : Got(Delete(table, where), n)))

ParseCreateTable(t) ==
    Then(Opening(t, "TABLE"), LAMBDA table, a :
      Then(Bracketed(t, a, LAMBDA j : ParseColumnDef(t, j)), LAMBDA columns, n :
        Got(CreateTable(table, columns), n)))

ParseDropTable(t) ==
    Then(Opening(t, "TABLE"), LAMBDA table, n : Got(DropTable(table), n))

ParseStatement(t) ==
    CASE t[1].type = "SELECT" -> ParseSelect(t)
      [] t[1].type = "INSERT" -> ParseInsert(t)
      [] t[1].type = "UPDATE" -> ParseUpdate(t)
      [] t[1].type = "DELETE" -> ParseDelete(t)
      [] t[1].type = "CREATE" -> ParseCreateTable(t)
      [] t[1].type = "DROP"   -> ParseDropTable(t)
      [] OTHER -> Error(1)

(* parse: a semicolon may follow, and whatever comes after is not read.    *)
Parse(t) ==
    Then(ParseStatement(t), LAMBDA statement, k : Got(statement, Matched(t, k, "SEMICOLON")))
==============================================================================
