------------------------------- MODULE Engine --------------------------------
(***************************************************************************)
(* One statement on its way through the engine, as runSQL of src/main.cpp  *)
(* puts the parts together: lexer, parser, optimizer, executor.  Lexer and *)
(* Query are the machines of the modules of that name; parser, optimizer   *)
(* and the methods of the executor that write are one step each.  Such a   *)
(* method is called by the client with the statement, without a plan and   *)
(* here without a transaction (Transactions has those).                    *)
(*                                                                         *)
(* Executor::execute is public, and a caller may also come with a plan     *)
(* that was put together by hand: the only way to a join and to a snapshot. *)
(***************************************************************************)
EXTENDS SqlText, Query

CONSTANTS Letters, Digits, Upper,  \* see Lexer
          Storage,                 \* the tables at the beginning
          Typed                    \* what is typed, see typed

VARIABLES src, pos, line, col, tokens, lexing,  \* see Lexer
          typed,    \* the text; the tokens it is meant to have, and where
                    \* they begin; the statement meant, if there is one;
                    \* whether it can be taken apart into tokens at all
          stage,    \* how far runSQL has come
          stmt,     \* {}, or the statement that was parsed
          storage   \* storage_: the rows of every table, by its name

lexerVars == <<src, pos, line, col, tokens, lexing>>
engineVars == <<lexerVars, vars, typed, stage, stmt, storage>>

Lex == INSTANCE Lexer

------------------------------------------------------------------------------
(* A turn of Lexer::tokenize.                                              *)
Tokenize ==
    /\ stage = "text"
    /\ Lex!Next
    /\ UNCHANGED <<vars, typed, stage, stmt, storage>>

ParseTokens ==
    /\ stage = "text" /\ lexing = "done"
    /\ \E parsed \in {Parse(tokens)} :
         /\ stage' = IF parsed.ok THEN "parsed" ELSE "rejected"
         /\ stmt' = IF parsed.ok THEN {parsed.result} ELSE {}
    /\ UNCHANGED <<lexerVars, vars, typed, storage>>

LexerThrew ==
    /\ stage = "text" /\ lexing = "threw"
    /\ stage' = "rejected"
    /\ UNCHANGED <<lexerVars, vars, typed, stmt, storage>>

(* toLogical, toPhysical and Executor::build.                              *)
Plan(s) ==
    /\ stage = "parsed"
    /\ Plannable(s) /\ s.table \in DOMAIN storage
    /\ stage' = "planned"
    /\ query' = Build(BuildPhysical(ToLogical(s)), {})
    /\ tables' = [probe |-> storage[s.table], build |-> <<>>]
    /\ phase' = "new"
    /\ UNCHANGED <<lexerVars, cursor, probeRow, matches, at, buffered, results, typed, stmt, storage>>

PlanThrows(s) ==
    /\ stage = "parsed"
    /\ ~Plannable(s) \/ s.table \notin DOMAIN storage
    /\ stage' = "rejected"
    /\ UNCHANGED <<lexerVars, vars, typed, stmt, storage>>

(* A step of Executor::execute.                                            *)
Pull ==
    /\ stage = "planned"
    /\ Next
    /\ UNCHANGED <<lexerVars, typed, stage, stmt, storage>>

------------------------------------------------------------------------------
(* The methods of the executor that write.                                 *)
Writes(s, change) ==
    /\ stage = "parsed"
    /\ stage' = "written"
    /\ storage' = change @@ storage
    /\ UNCHANGED <<lexerVars, vars, typed, stmt>>

Matches(where, row) == \A e \in where : Evaluate(e, row)

(* The last value counts when a column is named twice.  With fewer values  *)
(* than columns the loop reads behind the values, where anything may be.   *)
InsertedRow(s, garbage) ==
    [c \in ToSet(s.columns) |->
        LET i == Max({j \in DOMAIN s.columns : s.columns[j] = c})
        IN  IF i <= Len(s.values) THEN ExtractLiteral(s.values[i]) ELSE garbage]

Short(s) == Len(s.values) < Len(s.columns)

ExecuteInsert(s) ==
    /\ s.kind = "insert" /\ s.table \in DOMAIN storage
    /\ \E garbage \in IF Short(s) THEN ToSet(TextOrder) ELSE {""} :
         Writes(s, s.table :> Append(storage[s.table], InsertedRow(s, garbage)))

(* ... or nothing at all is there, and the process ends.                   *)
InsertCrashes(s) ==
    /\ s.kind = "insert" /\ s.table \in DOMAIN storage
    /\ Short(s)
    /\ stage = "parsed" /\ stage' = "crashed"
    /\ UNCHANGED <<lexerVars, vars, typed, stmt, storage>>

(* Each assignment sees what the ones before it have put into the row.     *)
Assigned(row, assignments) ==
    FoldLeft(LAMBDA r, a : (a[1] :> Resolve(a[2], r)) @@ r, row, assignments)

ExecuteUpdate(s) ==
    /\ s.kind = "update" /\ s.table \in DOMAIN storage
    /\ Writes(s, s.table :> [i \in DOMAIN storage[s.table] |->
          LET row == storage[s.table][i]
          IN  IF Matches(s.where, row) THEN Assigned(row, s.assignments) ELSE row])

ExecuteDelete(s) ==
    /\ s.kind = "delete" /\ s.table \in DOMAIN storage
    /\ Writes(s, s.table :> SelectSeq(storage[s.table], LAMBDA row : ~Matches(s.where, row)))

ExecuteCreateTable(s) ==
    /\ s.kind = "create" /\ s.table \notin DOMAIN storage
    /\ Writes(s, s.table :> <<>>)

(* No such table, or one that is there already.                            *)
WriteThrows(s) ==
    /\ stage = "parsed"
    /\ \/ s.kind \in {"insert", "update", "delete"} /\ s.table \notin DOMAIN storage
       \/ s.kind = "create" /\ s.table \in DOMAIN storage
    /\ stage' = "rejected"
    /\ UNCHANGED <<lexerVars, vars, typed, stmt, storage>>

Ended == stage \in {"rejected", "written", "crashed"} \/ phase = "done"

Stay == Ended /\ UNCHANGED engineVars

(* Nothing is typed when execute is called with a plan.                    *)
Nothing == [text |-> <<>>, tokens |-> <<>>, begins |-> <<>>, stmt |-> {}, lexable |-> TRUE]

TextTyped ==
    /\ typed \in Typed
    /\ stage = "text"
    /\ tables = [probe |-> <<>>, build |-> <<>>]
    /\ query = Build(<<>>, {})
    /\ phase = "none"
    /\ cursor = 0 /\ probeRow = <<>> /\ matches = <<>> /\ at = 0
    /\ buffered = <<>>
    /\ results = <<>>

PlanByHand ==
    /\ typed = Nothing
    /\ stage = "planned"
    /\ Init

EngineInit ==
    /\ TextTyped \/ PlanByHand
    /\ src = typed.text
    /\ Lex!Init
    /\ stmt = {}
    /\ storage = Storage

EngineNext ==
    \/ Tokenize
    \/ ParseTokens
    \/ LexerThrew
    \/ Pull
    \/ \E s \in stmt :
         \/ Plan(s) \/ PlanThrows(s)
         \/ ExecuteInsert(s) \/ InsertCrashes(s) \/ ExecuteUpdate(s) \/ ExecuteDelete(s)
         \/ ExecuteCreateTable(s) \/ WriteThrows(s)
    \/ Stay

(* One thread runs a statement to its end, and nothing makes it wait.      *)
EngineSpec == EngineInit /\ [][EngineNext]_engineVars /\ WF_engineVars(EngineNext)

------------------------------------------------------------------------------
(* The lexer finds the tokens that were written, each with its type, its   *)
(* value and the place it begins at, however they are spaced, commented,   *)
(* quoted and spelled (README.md:133); it throws for no other text.        *)
TokensAsWritten ==
    /\ lexing = "done" =>
         /\ typed.lexable
         /\ Len(tokens) = Len(typed.tokens) + 1
         /\ \A i \in DOMAIN typed.tokens :
              /\ tokens[i].type = typed.tokens[i][1]
              /\ IsKeyword(typed.tokens[i]) \/ tokens[i].value = typed.tokens[i][2]
              /\ <<tokens[i].line, tokens[i].col>> = PlaceIn(src, typed.begins[i])
         /\ Last(tokens).type = "END_OF_FILE"
    /\ lexing = "threw" => ~typed.lexable

(* Parentheses and ASC leave no trace in the tree.                         *)
Bare(list) == SelectSeq(list, LAMBDA token : token[1] \notin {"LPAREN", "RPAREN", "ASC"})

(* What is written as a statement is parsed as that statement, with every  *)
(* operator in its place (the ladder of parser.cpp:241-251).  Whatever     *)
(* else is accepted begins with the tokens of the statement it is taken    *)
(* for: none of them is skipped, and none is read for another.             *)
StatementAsWritten ==
    /\ typed.stmt # {} /\ stmt # {} => stmt = typed.stmt
    /\ typed.stmt # {} /\ stage = "rejected" => stmt # {}
    /\ \A s \in stmt : IsPrefix(Bare(StatementTokens(s)), Bare(typed.tokens))

------------------------------------------------------------------------------
(* What a statement means, read as relational algebra.                     *)

(* A condition whose meaning nobody would question: comparisons of texts   *)
(* and columns, combined by AND, OR and NOT.                               *)
IsOperand(e) == e.node \in {"literal", "column"}
Clear ==
    LET IsClear[e \in Exprs] ==
          CASE e.node = "binary" /\ e.op \in {"AND", "OR"} -> IsClear[e.left] /\ IsClear[e.right]
            [] e.node = "binary" /\ e.op \notin {"AND", "OR"} -> IsOperand(e.left) /\ IsOperand(e.right)
            [] e.node = "unary"   -> e.op = "NOT" /\ IsClear[e.operand]
            [] e.node = "literal" -> e.kind = "Bool"
            [] e.node = "column"  -> FALSE
    IN  IsClear

(* How two texts compare: -1, 0 or 1, by number where both have one.       *)
Order(l, r) ==
    LET Value(text) == IF {l, r} \subseteq DOMAIN Number THEN Number[text]
                       ELSE CHOOSE i \in DOMAIN TextOrder : TextOrder[i] = text
    IN  IF Value(l) = Value(r) THEN 0 ELSE IF Value(l) < Value(r) THEN -1 ELSE 1

Outcomes(op) == CASE op = "=" -> {0}      [] op = "!=" -> {-1, 1}
                  [] op = "<" -> {-1}     [] op = ">"  -> {1}
                  [] op = "<=" -> {-1, 0} [] op = ">=" -> {0, 1}

(* The text of an operand, empty where the row has none.                   *)
TextIn(e, row) == IF e.node = "literal" THEN e.value
                  ELSE IF e.column \in DOMAIN row THEN row[e.column] ELSE ""

(* The rows of a table a condition selects.                                *)
Selected(rows, condition) ==
    LET Sel[e \in Exprs] ==
          CASE e.node = "binary" /\ e.op = "AND" -> Sel[e.left] \cap Sel[e.right]
            [] e.node = "binary" /\ e.op = "OR"  -> Sel[e.left] \cup Sel[e.right]
            [] e.node = "binary" /\ e.op \notin {"AND", "OR"} ->
                 {r \in rows : Order(TextIn(e.left, r), TextIn(e.right, r)) \in Outcomes(e.op)}
            [] e.node = "unary"   -> rows \ Sel[e.operand]
            [] e.node = "literal" -> IF e.value = "true" THEN rows ELSE {}
    IN  Sel[condition]

Before == Storage

(* The rows of the table of s that s is about, in their order.             *)
Concerned(s, table) ==
    SelectSeq(table, LAMBDA row : \A e \in s.where : row \in Selected(ToSet(table), e))

(* Row a comes before row b; the rows asked for are told apart by some key. *)
Precedes(a, b, orderBy) ==
    \E i \in DOMAIN orderBy :
        LET Key(row, j) == IF orderBy[j].column \in DOMAIN row THEN row[orderBy[j].column] ELSE ""
        IN  /\ \A j \in 1..(i - 1) : Order(Key(a, j), Key(b, j)) = 0
            /\ Order(Key(a, i), Key(b, i)) = IF orderBy[i].ascending THEN -1 ELSE 1

Sorted(rows, orderBy) ==
    IF orderBy = <<>> THEN rows
    ELSE [i \in DOMAIN rows |->
            CHOOSE row \in ToSet(rows) :
                Cardinality({other \in ToSet(rows) : Precedes(other, row, orderBy)}) = i - 1]

RowsAskedFor(s) ==
    LET rows  == Sorted(Concerned(s, Before[s.table]), s.orderBy)
        count == Min({Len(rows)} \cup s.limit)
    IN  [i \in 1..count |-> IF s.columns = <<"*">> THEN rows[i]
                            ELSE Restrict(rows[i], ToSet(s.columns) \cap DOMAIN rows[i])]

(* No assignment takes a column that one before it has changed.            *)
Independent(assignments) ==
    \A i, j \in DOMAIN assignments :
        i < j => ~(assignments[j][2].node = "column" /\ assignments[j][2].column = assignments[i][1])

Changed(s) ==
    LET table == Before[s.table]
        about == ToSet(Concerned(s, table))
        New(row) == [c \in DOMAIN row \cup {s.assignments[i][1] : i \in DOMAIN s.assignments} |->
                       IF \E i \in DOMAIN s.assignments : s.assignments[i][1] = c
                       THEN TextIn((CHOOSE a \in ToSet(s.assignments) : a[1] = c)[2], row)
                       ELSE row[c]]
    IN  [i \in DOMAIN table |-> IF table[i] \in about THEN New(table[i]) ELSE table[i]]

(* Statements about which nothing is claimed: the odd conditions, swapping  *)
(* by UPDATE, and an INSERT of too few values or of anything but literals. *)
Questionable(s) ==
    \/ s.kind \in {"select", "update", "delete"} /\ \E e \in s.where : ~Clear[e]
    \/ s.kind = "update" /\ ~Independent(s.assignments)
    \/ s.kind = "insert" /\ (Short(s) \/ \E v \in ToSet(s.values) : v.node # "literal")

(* A statement does what its text says: a SELECT returns the rows asked    *)
(* for, the statements that write leave every table as it should be, and a *)
(* plan changes nothing; made of an UPDATE or a DELETE it finds the rows   *)
(* the statement is about (optimizer.cpp:55-72).                           *)
DoesWhatItSays ==
    /\ stage # "written" => storage = Before
    /\ \A s \in typed.stmt : Ended /\ ~Questionable(s) =>
         /\ phase = "done" =>
              results = CASE s.kind = "select" -> RowsAskedFor(s)
                          [] s.kind = "insert" -> Before[s.table]
                          [] s.kind \in {"update", "delete"} -> Concerned(s, Before[s.table])
         /\ stage = "written" =>
              storage = [table \in DOMAIN Before \cup {s.table} |->
                 CASE table # s.table    -> Before[table]
                   [] table = s.table /\ s.kind = "create" -> <<>>
                   [] table = s.table /\ s.kind = "insert" ->
                        Before[table] \o <<[c \in ToSet(s.columns) |->
                           s.values[CHOOSE i \in DOMAIN s.columns : s.columns[i] = c].value]>>
                   [] table = s.table /\ s.kind = "update" -> Changed(s)
                   [] table = s.table /\ s.kind = "delete" ->
                        SelectSeq(Before[table], LAMBDA row : row \notin ToSet(Concerned(s, Before[table])))]

(* Every text is answered or rejected, and execute returns from every      *)
(* plan: no loop of the lexer and of the operators runs for ever, and      *)
(* every exception ends the statement (main.cpp's runSQL, the comments of  *)
(* lexer.cpp, the loops of executor.cpp and hash_join.cpp).                *)
Finishes == <>Ended
==============================================================================
