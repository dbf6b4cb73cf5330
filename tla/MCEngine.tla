------------------------------ MODULE MCEngine -------------------------------
(* Small instances of Engine: one table with texts and numbers, statements *)
(* of every kind, conditions up to three comparisons deep, and the same    *)
(* with a token too few or too many; plans with every combination of       *)
(* nodes, over tables with repeated keys and rows that lack a column.      *)
EXTENDS Engine

SmallNumber == ("1" :> 1) @@ ("1.0" :> 1) @@ ("2" :> 2) @@ ("3.14" :> 3) @@ ("20" :> 20)
SmallTextOrder == <<"", "1", "1.0", "2", "20", "3.14", "false", "o'k -- \n", "true", "x">>
SmallStoi == ("1" :> 1) @@ ("20" :> 20)

(* The pieces of letters, in upper case and as they may be typed.          *)
InCapitals ==
    {"SELECT", "INSERT", "UPDATE", "DELETE", "CREATE", "DROP", "TABLE", "FROM", "WHERE", "INTO",
     "VALUES", "SET", "AND", "OR", "NOT", "ORDER", "BY", "DESC", "LIMIT", "PRIMARY", "KEY",
     "NULL", "INT", "TEXT"}
Typings ==
    ("Select" :> "SELECT") @@ ("in" :> "IN") @@ ("Sert" :> "SERT") @@ ("from" :> "FROM")
      @@ ("where" :> "WHERE")
      @@ ("true" :> "TRUE") @@ ("false" :> "FALSE") @@ ("id" :> "ID") @@ ("y" :> "Y")
      @@ ("t" :> "T") @@ ("u" :> "U") @@ ("n" :> "N") @@ ("o" :> "O") @@ ("k" :> "K") @@ ("x" :> "X")
SmallUpper   == Typings @@ [word \in InCapitals |-> word]
SmallLetters == DOMAIN SmallUpper
SmallDigits  == {"0", "1", "2", "3", "14", "20"}

(* A keyword in two pieces, others not in capitals, a name with a digit,   *)
(* texts of several pieces.                                                *)
SmallSpelling == ("1.0" :> <<"1", ".", "0">>) @@ ("3.14" :> <<"3", ".", "14">>)
                 @@ ("INSERT" :> <<"in", "Sert">>) @@ ("SELECT" :> <<"Select">>)
                 @@ ("FROM" :> <<"from">>) @@ ("WHERE" :> <<"where">>) @@ ("n1" :> <<"n", "1">>)
                 @@ ("o'k -- \n" :> <<"o", "\\", "'", "k", " ", "-", "-", " ", "\\", "n">>)

(* Rows without a y, and with texts that are no numbers.                   *)
SmallStorage ==
    "t" :> <<[id |-> "2", y |-> "20", n1 |-> "o'k -- \n"], [id |-> "1", y |-> "3.14"],
             [id |-> "20", y |-> "x"], [id |-> "3.14"]>>

------------------------------------------------------------------------------
Column(c)  == ColumnRefExpr("", c)
Number_(x) == LiteralExpr(IF x \in {"1.0", "3.14"} THEN "Float" ELSE "Integer", x)
String(x)  == LiteralExpr("String", x)
Bool(x)    == LiteralExpr("Bool", x)

(* Every tree the parser may build of the texts below.                     *)
Leaves == [node : {"literal"}, kind : {"Integer", "Float", "String", "Bool"}, value : ToSet(SmallTextOrder)]
            \cup [node : {"column"}, table : {"", "t", "id"}, column : {"id", "x", "y", "t", "n1", "u"}]
Grown(trees) ==
    trees \cup [node : {"unary"}, op : {"NOT", "-"}, operand : trees]
          \cup [node : {"binary"}, op : {"=", "!=", "<", ">", "<=", ">=", "AND", "OR"},
                left : trees, right : trees]
SmallExprs == Grown(Grown(Grown(Grown(Grown(Leaves)))))

Not(e) == UnaryExpr("NOT", e)

Comparisons ==
    {BinaryExpr(op, Column("id"), Number_("2")) : op \in {"=", "!=", "<", ">", "<=", ">="}}
        \cup {BinaryExpr("<", Column("y"), String("x")), BinaryExpr(">=", Column("y"), Column("id")),
              BinaryExpr("=", ColumnRefExpr("t", "n1"), String("o'k -- \n"))}

A == BinaryExpr("=", Column("id"), Number_("1"))
B == BinaryExpr(">", Column("y"), Number_("3.14"))
C == BinaryExpr("!=", Column("y"), String("x"))

Junctions(ls, rs) == {BinaryExpr(op, l, r) : op \in {"AND", "OR"}, l \in ls, r \in rs}

Conditions ==
    Comparisons
        \cup Junctions({A, Not(A), Bool("true")}, {B, Not(B), Not(Not(C))})
        \cup Junctions(Junctions({A}, {B}), {C})
        \cup Junctions({A}, Junctions({B}, {C}))
        \cup {Not(e) : e \in Junctions({A}, {B})}
        \cup Junctions({Bool("false")}, Junctions(Junctions({A}, {B}), Junctions({C}, {A})))

(* Trees whose meaning is the code's alone.                                *)
Oddities == {BinaryExpr("=", Not(Column("id")), Number_("1")), BinaryExpr("=", Column("id"), Number_("1.0")),
             BinaryExpr("<", BinaryExpr("<", Number_("1"), Column("id")), Number_("20")),
             BinaryExpr("=", Number_("1"), BinaryExpr("=", Column("y"), Column("y"))),
             UnaryExpr("-", UnaryExpr("-", Number_("1"))), Column("id"),
             BinaryExpr("AND", UnaryExpr("-", Column("y")), A)}

By(column, ascending) == [column |-> column, ascending |-> ascending]
Star == <<"*">>

Selects ==
    {Select(Star, "t", {e}, <<>>, {}) : e \in Conditions \cup Oddities}
        \cup {Select(columns, "t", where, orderBy, limit) :
                columns \in {Star, <<"y", "id">>}, where \in {{}, {C}},
                orderBy \in {<<>>, <<By("id", FALSE)>>, <<By("id", TRUE)>>}, limit \in {{}, {1}, {20}}}
        \cup {Select(<<"id">>, "u", {}, <<By("y", FALSE), By("id", TRUE)>>, {})}

Def(name, type, primaryKey, notNull) ==
    [name |-> name, type |-> type, primaryKey |-> primaryKey, notNull |-> notNull]

Writing ==
    {Insert(table, <<"id", "y">>, <<Number_("1"), String("o'k -- \n")>>) : table \in {"t", "u"}}
        \cup {Insert("t", <<"id", "y">>, <<Bool("true")>>),
              Insert("t", <<"n1">>, <<UnaryExpr("-", Number_("1")), Number_("2")>>)}
        \cup {Update(table, <<<<"y", Number_("1")>>, <<"n1", Column("id")>>>>, where) :
                table \in {"t", "u"}, where \in {{}, {Not(B)}, {BinaryExpr("OR", A, C)}}}
        \cup {Update("t", <<<<"id", Column("y")>>, <<"y", Column("id")>>>>, {})}
        \cup {Delete(table, where) : table \in {"t", "u"}, where \in {{}, {B}, {Not(A)}}}
        \cup {CreateTable(table, <<Def("id", "INT", TRUE, FALSE), Def("n1", "TEXT", FALSE, TRUE),
                                   Def("y", "INT", TRUE, TRUE), Def("x", "TEXT", FALSE, FALSE)>>) :
                table \in {"t", "u"}}
        \cup {DropTable("t")}

------------------------------------------------------------------------------
Plainly == [front |-> <<>>, gap |-> <<" ">>, tight |-> FALSE, behind |-> <<>>]

Layouts ==
    {[front |-> <<>>, gap |-> <<" ">>, tight |-> TRUE, behind |-> <<";">>],
     [front |-> <<"-", "-", "x", "\n", " ">>, gap |-> <<" ", "\n">>, tight |-> FALSE,
      behind |-> <<"-", "-", " ", "'", "o">>]}

Semicolon == <<<<"SEMICOLON", ";">>>>

Text_Of(list, layout, statement) ==
    [text   |-> Text(list, layout),
     tokens |-> IF layout.behind = <<";">> THEN list \o Semicolon ELSE list,
     begins |-> [i \in 1..(Len(list) + 1) |-> BeginOf(list \o Semicolon, i, layout)],
     stmt   |-> statement,
     lexable |-> TRUE]

Meant == {Text_Of(StatementTokens(s), layout, {s}) : s \in Selects \cup Writing, layout \in Layouts}

(* A token left out, doubled, or put in front of the one before it.        *)
Slips(list) ==
    {RemoveAt(list, i) : i \in DOMAIN list}
        \cup {InsertAt(list, i, list[i]) : i \in DOMAIN list}
        \cup {[list EXCEPT ![i] = list[i - 1], ![i - 1] = list[i]] : i \in 2..Len(list)}

Slipped ==
    {Text_Of(list, Plainly, {}) : list \in UNION {Slips(StatementTokens(s)) :
        s \in {Select(<<"y", "id">>, "t", {BinaryExpr("OR", A, Not(BinaryExpr("AND", B, C)))},
                      <<By("y", FALSE), By("id", TRUE)>>, {1}),
              Insert("t", <<"id", "y">>, <<Number_("1"), String("x")>>),
              Update("t", <<<<"y", Number_("1")>>, <<"n1", Column("id")>>>>, {A}),
              Delete("t", {A}),
              CreateTable("u", <<Def("id", "INT", TRUE, FALSE), Def("y", "TEXT", FALSE, TRUE)>>),
              DropTable("t")}}}

(* Texts that are no tokens: strings without an end, a lone mark.          *)
Unlexable ==
    {[text |-> text, tokens |-> <<>>, begins |-> <<>>, stmt |-> {}, lexable |-> FALSE] :
        text \in {<<"select", " ", "'", "x">>, <<"'", "x", "\\", "'">>, <<"'", "x", "\\">>,
                  <<"id", "!">>, <<"id", " ", "!", " ", "=">>, <<"#">>, <<"1", "\n", "'">>}}

SmallTyped == Meant \cup Slipped \cup Unlexable

------------------------------------------------------------------------------
Probe == {[id |-> "1", x |-> "1"], [id |-> "1", x |-> "2"], [id |-> "2", x |-> "2"], [id |-> "2"]}

(* A key twice, with other values and with the same, or a row without it.  *)
Hashed == LET One == [id |-> "1", y |-> "1"]
              Two == [id |-> "1", y |-> "2"]
              Lone == [y |-> "1"]
          IN  {<<One, Two>>, <<One, One>>, <<One, Lone>>, <<Lone, Two>>}

(* One table of up to three rows, or two tables of up to two rows each.    *)
SmallTables ==
    [probe : BoundedSeq(Probe, 3), build : {<<>>}] \cup [probe : BoundedSeq(Probe, 2), build : Hashed]

Either == BinaryExpr("OR", A, Not(BinaryExpr(">", Column("x"), Number_("1"))))

(* Plans, bottom up; a join is only ever put together like this.           *)
Sources == {LogicalScan("probe"),
            LogicalJoin("id", "id", LogicalScan("build"), LogicalScan("probe"))}

SmallPlans ==
    {<<source>> \o filter \o <<LogicalProjection(columns)>> \o sort \o limit :
        source  \in Sources,
        filter  \in {<<>>, <<LogicalFilter(Either)>>},
        columns \in {Star, <<"x">>},
        sort    \in {<<>>, <<LogicalSort(<<By("x", FALSE)>>)>>,
                     <<LogicalSort(<<By("id", TRUE), By("x", FALSE)>>)>>},
        limit   \in {<<>>, <<LogicalLimit(0)>>, <<LogicalLimit(2)>>}}

(* A snapshot sees every row (Mvcc): few plans are enough for it.          *)
SmallQueries ==
    {Build(BuildPhysical(plan), {}) : plan \in SmallPlans}
        \cup {Build(BuildPhysical(plan), {1}) : plan \in {p \in SmallPlans : Len(p) = 2}}
==============================================================================
