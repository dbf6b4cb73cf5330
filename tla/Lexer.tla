-------------------------------- MODULE Lexer --------------------------------
(***************************************************************************)
(* The lexer (src/src/lexer.cpp): one pass over the text of a statement,   *)
(* one token or one comment at each turn of the loop of tokenize.          *)
(*                                                                         *)
(* The text is a sequence of pieces, strings that the lexer cannot split   *)
(* in two: some letters, some digits, or one other character.  Letters and *)
(* Digits are the pieces of the first two kinds in an instance.  Behind a  *)
(* backslash a piece is one character long, for the lexer takes that many. *)
(***************************************************************************)
EXTENDS Naturals, Sequences, SequencesExt, FiniteSetsExt

CONSTANTS Letters,  \* pieces of letters and underscores
          Digits,   \* pieces of digits
          Upper     \* std::toupper of every piece of Letters

VARIABLES src,      \* src_
          pos,      \* pos_, counted in pieces from 1
          line,     \* line_
          col,      \* col_
          tokens,   \* the tokens so far
          lexing    \* "on", or how tokenize has ended: "done", "threw"

vars == <<src, pos, line, col, tokens, lexing>>

KEYWORDS ==
    [word \in {"SELECT", "INSERT", "UPDATE", "DELETE", "CREATE", "DROP", "TABLE",
               "FROM", "WHERE", "INTO", "VALUES", "SET", "AND", "OR", "NOT",
               "ORDER", "BY", "ASC", "DESC", "LIMIT", "JOIN", "ON", "INNER", "LEFT",
               "TRUE", "FALSE"} |->
        CASE word = "TRUE" -> "BOOL_TRUE" [] word = "FALSE" -> "BOOL_FALSE" [] OTHER -> word]

(* std::isspace; the vertical tab has no spelling here.                    *)
Space == {" ", "\n", "\t", "\r", "\f"}

(* The symbols of one character, and those that may go on with "=".        *)
Symbols ==
    [c \in {",", ";", "(", ")", ".", "+", "/", "*", "=", "-", ">", "<"} |->
        CASE c = "," -> "COMMA"  [] c = ";" -> "SEMICOLON" [] c = "(" -> "LPAREN"
          [] c = ")" -> "RPAREN" [] c = "." -> "DOT"       [] c = "+" -> "PLUS"
          [] c = "/" -> "SLASH"  [] c = "*" -> "STAR"      [] c = "=" -> "EQ"
          [] c = "-" -> "MINUS"  [] c = ">" -> "GT"        [] c = "<" -> "LT"]

Operators == [c \in {">", "<", "!"} |->
                CASE c = ">" -> "GTE" [] c = "<" -> "LTE" [] c = "!" -> "NEQ"]

Token(type, value, where) ==
    [type |-> type, value |-> value, line |-> where.line, col |-> where.col]

------------------------------------------------------------------------------
(* peek and peekNext at k; "" is the '\0' behind the end.                  *)
Peek(k) == IF k <= Len(src) THEN src[k] ELSE ""

(* The first piece from k on that is not in S, or the end.                 *)
RunEnd(k, S) == Min({j \in k..(Len(src) + 1) : Peek(j) \notin S})

TextOf(k, end) == FoldLeft(LAMBDA text, piece : text \o piece, "", SubSeq(src, k, end - 1))

(* line_ and col_ once advance has gone on to piece k.                     *)
Whereabouts(k) ==
    FoldLeft(LAMBDA at, piece : IF piece = "\n" THEN [line |-> at.line + 1, col |-> 1]
                                ELSE [at EXCEPT !.col = @ + Len(piece)],
             [line |-> line, col |-> col], SubSeq(src, pos, k - 1))

(* Where the turn begins once skipWhitespace is through.                   *)
Start == RunEnd(pos, Space)

GoTo(k) ==
    /\ pos' = k
    /\ line' = Whereabouts(k).line
    /\ col' = Whereabouts(k).col

(* A turn that reads a token from Start up to end.                         *)
Emit(type, value, end) ==
    /\ tokens' = Append(tokens, Token(type, value, Whereabouts(Start)))
    /\ GoTo(end)
    /\ UNCHANGED <<src, lexing>>

(* tokenize throws, and what it has read is lost with it.                  *)
Throw == lexing' = "threw" /\ UNCHANGED <<src, pos, line, col, tokens>>

AtComment == Peek(Start) = "-" /\ Peek(Start + 1) = "-"

------------------------------------------------------------------------------
(* fault: only a newline is looked for, and at the end nothing moves on *)
CommentEnd_AtNewline(k) ==
    LET newlines == {j \in k..Len(src) : src[j] = "\n"}
    IN  IF newlines = {} THEN k ELSE Min(newlines)

CommentEnd(k) == Min({j \in k..(Len(src) + 1) : Peek(j) \in {"\n", ""}})

SkipLineComment ==
    /\ lexing = "on"
    /\ AtComment
    /\ GoTo(CommentEnd(Start))
    /\ UNCHANGED <<src, tokens, lexing>>

ReadSymbol ==
    /\ lexing = "on"
    /\ ~AtComment
    /\ Peek(Start) \in DOMAIN Symbols
    /\ Peek(Start) \in DOMAIN Operators => Peek(Start + 1) # "="
    /\ Emit(Symbols[Peek(Start)], Peek(Start), Start + 1)

ReadOperator ==
    /\ lexing = "on"
    /\ Peek(Start) \in DOMAIN Operators
    /\ Peek(Start + 1) = "="
    /\ Emit(Operators[Peek(Start)], Peek(Start) \o "=", Start + 2)

(* What a character behind a backslash stands for.                         *)
Unescaped(c) == CASE c = "n" -> "\n" [] c = "t" -> "\t" [] OTHER -> c

(* fault: a backslash does not keep the quote behind it from closing *)
Quoted_EscapesIgnored(k) ==
    LET end == Min({j \in k..(Len(src) + 1) : Peek(j) \in {"'", ""}})
    IN  [closed |-> end <= Len(src), value |-> TextOf(k, end), end |-> end + 1]

(* The string that begins at k, and where the text goes on behind it.      *)
Quoted(k) ==
    LET Rest[j \in k..(Len(src) + 2)] ==
          IF j > Len(src) THEN [closed |-> FALSE, value |-> "", end |-> j]
          ELSE IF src[j] = "'" THEN [closed |-> TRUE, value |-> "", end |-> j + 1]
          ELSE LET escape == src[j] = "\\"
                   rest   == Rest[IF escape THEN j + 2 ELSE j + 1]
               IN  [rest EXCEPT !.value = (IF escape THEN Unescaped(Peek(j + 1)) ELSE src[j]) \o @]
    IN  Rest[k]

ReadString ==
    /\ lexing = "on"
    /\ Peek(Start) = "'"
    /\ LET string == Quoted(Start + 1)
       IN  string.closed /\ Emit("STRING", string.value, string.end)

(* A point belongs to the number when a digit follows it.                  *)
NumberEnd ==
    LET end == RunEnd(Start, Digits)
    IN  IF Peek(end) = "." /\ Peek(end + 1) \in Digits THEN RunEnd(end + 1, Digits) ELSE end

ReadNumber ==
    /\ lexing = "on"
    /\ Peek(Start) \in Digits
    /\ Emit("NUMBER", TextOf(Start, NumberEnd), NumberEnd)

(* classifyWord                                                            *)
ClassifyWord(upper) == IF upper \in DOMAIN KEYWORDS THEN KEYWORDS[upper] ELSE "IDENTIFIER"

Uppercased(k, end) ==
    FoldLeft(LAMBDA text, piece : text \o (IF piece \in Letters THEN Upper[piece] ELSE piece),
             "", SubSeq(src, k, end - 1))

ReadIdentifierOrKeyword ==
    /\ lexing = "on"
    /\ Peek(Start) \in Letters
    /\ LET end == RunEnd(Start, Letters \cup Digits)
       IN  Emit(ClassifyWord(Uppercased(Start, end)), TextOf(Start, end), end)

(* An unknown character, a "!" alone, or a string without an end.          *)
Throws ==
    /\ lexing = "on"
    /\ Start <= Len(src)
    /\ \/ Peek(Start) = "!" /\ Peek(Start + 1) # "="
       \/ Peek(Start) = "'" /\ ~Quoted(Start + 1).closed
       \/ Peek(Start) \notin DOMAIN Symbols \cup DOMAIN Operators \cup {"'"} \cup Letters \cup Digits
    /\ Throw

Finish ==
    /\ lexing = "on"
    /\ Start = Len(src) + 1
    /\ lexing' = "done"
    /\ tokens' = Append(tokens, Token("END_OF_FILE", "", Whereabouts(Start)))
    /\ GoTo(Start)
    /\ UNCHANGED src

Init ==
    /\ pos = 1 /\ line = 1 /\ col = 1
    /\ tokens = <<>>
    /\ lexing = "on"

Next ==
    \/ SkipLineComment
    \/ ReadSymbol
    \/ ReadOperator
    \/ ReadString
    \/ ReadNumber
    \/ ReadIdentifierOrKeyword
    \/ Throws
    \/ Finish
==============================================================================
