------------------------------- MODULE Lexer -------------------------------
(***************************************************************************)
(* The lexical analyzer: Lexer::tokenize() in src/tinycc/frontend/lexer.h. *)
(*                                                                         *)
(* A character is a string of length one, a text a sequence of them.  The  *)
(* loop that is running is `mode`; one action is one turn of that loop.    *)
(* Names keep their characters, decimals their digits: only the value of   *)
(* an integer is computed by the lexer in a way that can go wrong.         *)
(* The text comes from a string (Tokenize) or from a file (TokenizeFile),  *)
(* whose stream throws when it is looked at twice where the text ends.     *)
(***************************************************************************)
EXTENDS Integers, FiniteSets, SequencesExt

CONSTANTS Texts,     \* the texts to tokenize
          IntWidth   \* number of bits of an int

ASSUME TextsAssumption == Texts \subseteq Seq(STRING)
ASSUME IntWidthAssumption == IntWidth \in Nat \ {0}

VARIABLES text,      \* what the stream i_ holds
          fromFile,  \* i_ is the ifstream of TokenizeFile, not the stringstream of Tokenize
          eofbit,    \* the stream's: it was looked at where the text ends
          pos,       \* number of characters popped so far
          l,         \* l_: line and column of the next character
          tokens,    \* tokens_
          mode,      \* the loop that is running, or how the run ended
          start,     \* where the current token or comment starts
          literal    \* what was collected of the current token

vars == <<text, fromFile, eofbit, pos, l, tokens, mode, start, literal>>

-----------------------------------------------------------------------------
(* Characters.                                                             *)

Whitespace == {" ", "\t", "\r", "\n"}
Quotes == {"'", "\""}

Letters == {"a", "b", "c", "n", "r", "t", "x"} \* those that the texts use
DigitSeq == <<"0", "1", "2", "3", "4", "5", "6", "7", "8", "9">>
Digits == ToSet(DigitSeq)

IsDigit(c) == c \in Digits
DigitValue == [c \in Digits |-> (CHOOSE k \in 1 .. 10 : DigitSeq[k] = c) - 1]

IsIdentifierStart(c) == c \in Letters \cup {"_"}
IsIdentifier(c) == IsIdentifierStart(c) \/ IsDigit(c)

\* Tokens of one character that no character can extend.  They are made by
\* Token(char), which gives them the kind of an identifier.
Punctuation == {"%", ".", ",", ";", ":", "?", "[", "]", "(", ")", "{", "}", "~", "backtick"}

\* For each character that starts an operator, those that may follow it.  The
\* second characters of / that start a comment are not among them.
Extensions ==
    [c \in {"/", "+", "-", "*", "!", "=", "<", ">", "|", "&"} |->
        CASE c = "+" -> {"+", "="}
          [] c = "-" -> {"-", "=", ">"}
          [] c = "<" -> {"<", "="}
          [] c = ">" -> {">", "="}
          [] c = "|" -> {"|"}
          [] c = "&" -> {"&"}
          [] OTHER   -> {"="}]

\* What stands for the character after a backslash.
Escapes == {"'", "\\", "\"", "\n", "n", "r", "t"}
Unescaped(c) == CASE c = "\n" -> <<>>
                  [] c = "n"  -> <<"\n">>
                  [] c = "r"  -> <<"\r">>
                  [] c = "t"  -> <<"\t">>
                  [] OTHER    -> <<c>>

\* What an int holds after an operation with result n, as machines compute it.
Wrap(n) == LET size == 2 ^ IntWidth
               m == n % size
           IN IF m >= size \div 2 THEN m - size ELSE m

Token(kind, contents, at) == [kind |-> kind, contents |-> contents, at |-> at]

-----------------------------------------------------------------------------
(* The stream.                                                             *)

eof == pos = Len(text)
top == text[pos + 1]

\* The character behind top, "" at the end of the text.
second == IF pos + 2 <= Len(text) THEN text[pos + 2] ELSE ""

\* condPop(c) would succeed.
Sees(c) == ~eof /\ top = c

\* The location after character c.
Advance(at, c) ==
    IF c = "\n" THEN [line |-> at.line + 1, col |-> 1]
                ELSE [line |-> at.line, col |-> at.col + 1]

\* The location after the next n characters.
After(n) == FoldLeft(Advance, l, SubSeq(text, pos + 1, pos + n))

\* n calls of pop().
Pop(n) == /\ pos' = pos + n
          /\ l' = After(n)

-----------------------------------------------------------------------------
(* tokenize(): the outer loop.                                             *)

Emit(token) == tokens' = Append(tokens, token)

\* Enter an inner loop with what was collected so far.
Enter(loop, collected) ==
    /\ mode' = loop
    /\ start' = l
    /\ literal' = collected
    /\ UNCHANGED <<text, tokens>>

\* Leave an inner loop with a token.
Complete(kind, contents) ==
    /\ Emit(Token(kind, contents, start))
    /\ mode' = "tokens"
    /\ literal' = <<>>
    /\ UNCHANGED <<text, start>>

\* throw ParserError: the error is the last thing that is reported.
Throw(what, at) ==
    /\ mode' = "error"
    /\ Emit(Token("Error", what, at))
    /\ UNCHANGED <<text, start, literal>>

(* Slip: the character is seen but not popped. *)
WhitespaceStays ==
    /\ mode = "tokens" /\ ~eof /\ top \in Whitespace
    /\ UNCHANGED <<text, pos, l, tokens, mode, start, literal>>

SkipWhitespace ==
    /\ mode = "tokens" /\ ~eof /\ top \in Whitespace
    /\ Pop(1)
    /\ UNCHANGED <<text, tokens, mode, start, literal>>

Operator ==
    /\ mode = "tokens" /\ ~eof /\ top \in DOMAIN Extensions
    /\ ~(top = "/" /\ second \in {"/", "*"})
    /\ LET length == IF second \in Extensions[top] THEN 2 ELSE 1
       IN /\ Pop(length)
          /\ Emit(Token("Operator", SubSeq(text, pos + 1, pos + length), l))
    /\ UNCHANGED <<text, mode, start, literal>>

Punctuate ==
    /\ mode = "tokens" /\ ~eof /\ top \in Punctuation
    /\ Pop(1)
    /\ Emit(Token("Identifier", <<top>>, l))
    /\ UNCHANGED <<text, mode, start, literal>>

\* The two characters that start a comment are popped before its loop runs.
EnterComment ==
    /\ mode = "tokens" /\ Sees("/")
    /\ \/ second = "/" /\ Enter("single line comment", <<>>)
       \/ second = "*" /\ Enter("multi line comment", <<>>)
    /\ Pop(2)

EnterLiteral ==
    /\ mode = "tokens" /\ ~eof
    /\ \/ top \in Quotes /\ Enter(top, <<>>)
       \/ IsDigit(top) /\ Enter("number", <<DigitValue[top]>>)
       \/ IsIdentifierStart(top) /\ Enter("identifier", <<top>>)
    /\ Pop(1)

\* The location of this error is behind the character.
UndefinedCharacter ==
    /\ mode = "tokens" /\ ~eof
    /\ top \notin Whitespace \cup DOMAIN Extensions \cup Punctuation \cup Quotes \cup Digits
    /\ ~IsIdentifierStart(top)
    /\ Pop(1)
    /\ Throw("undefined character", After(1))

EndOfFile ==
    /\ mode = "tokens" /\ eof
    /\ Emit(Token("EoF", <<>>, l))
    /\ mode' = "done"
    /\ UNCHANGED <<text, pos, l, start, literal>>

-----------------------------------------------------------------------------
(* The inner loops.                                                        *)

SingleLineComment ==
    /\ mode = "single line comment"
    /\ IF eof \/ Sees("\n")
       THEN mode' = "tokens" /\ UNCHANGED <<pos, l>>
       ELSE Pop(1) /\ UNCHANGED mode
    /\ UNCHANGED <<text, tokens, start, literal>>

(* Slip: the two characters that end a comment are looked for apart. *)
StarOrSlashEnds ==
    /\ mode = "multi line comment"
    /\ IF eof THEN Throw("unterminated comment", start) /\ UNCHANGED <<pos, l>>
       ELSE /\ Pop(1)
            /\ mode' = IF top = "/" THEN "tokens" ELSE mode
            /\ UNCHANGED <<text, tokens, start, literal>>

\* One turn pops a star and whatever follows it, or one other character.
MultiLineComment ==
    /\ mode = "multi line comment"
    /\ IF eof
       THEN Throw("unterminated comment", start) /\ UNCHANGED <<pos, l>>
       ELSE /\ Pop(IF top = "*" /\ second # "" THEN 2 ELSE 1)
            /\ mode' = IF top = "*" /\ second = "/" THEN "tokens" ELSE mode
            /\ UNCHANGED <<text, tokens, start, literal>>

Kind(quote) == IF quote = "\"" THEN "StringDoubleQuoted" ELSE "StringSingleQuoted"

(* Slip: a backslash only stands for itself, so a quote behind it ends the string. *)
NoEscapes ==
    /\ mode \in Quotes
    /\ \/ Sees(mode) /\ Pop(1) /\ Complete(Kind(mode), literal)
       \/ eof /\ Throw("unterminated string", start) /\ UNCHANGED <<pos, l>>
       \/ ~eof /\ ~Sees(mode) /\ Pop(1) /\ literal' = Append(literal, top)
          /\ UNCHANGED <<text, tokens, mode, start>>

StringLiteral ==
    /\ mode \in Quotes
    /\ \/ /\ Sees(mode)
          /\ Pop(1) /\ Complete(Kind(mode), literal)
       \/ /\ eof
          /\ Throw("unterminated string", start) /\ UNCHANGED <<pos, l>>
       \/ /\ ~eof /\ ~Sees(mode) /\ top # "\\"
          /\ Pop(1) /\ literal' = Append(literal, top)
          /\ UNCHANGED <<text, tokens, mode, start>>
       \/ /\ Sees("\\") /\ second = ""
          /\ Pop(1) /\ Throw("unterminated escape", After(1))
       \/ /\ Sees("\\") /\ second \in Escapes
          /\ Pop(2) /\ literal' = literal \o Unescaped(second)
          /\ UNCHANGED <<text, tokens, mode, start>>
       \/ /\ Sees("\\") /\ second \notin Escapes \cup {""}
          /\ Pop(2) /\ Throw("unsupported escape", After(2))

SeesDigit == ~eof /\ IsDigit(top)

NumericLiteral ==
    /\ mode = "number"
    /\ \/ /\ SeesDigit
          /\ Pop(1) /\ literal' = <<Wrap(Wrap(literal[1] * 10) + DigitValue[top])>>
          /\ UNCHANGED <<text, tokens, mode, start>>
       \/ /\ Sees(".")
          /\ Pop(1)
          /\ IF IsDigit(second)
             THEN /\ mode' = "fraction"
                  /\ UNCHANGED <<text, tokens, start, literal>>
             ELSE Throw("digit must follow", After(1))
       \/ /\ ~SeesDigit /\ ~Sees(".")
          /\ Complete("Integer", literal) /\ UNCHANGED <<pos, l>>

\* The whole part, then the digits behind the dot.
Fraction ==
    /\ mode = "fraction"
    /\ IF SeesDigit
       THEN /\ Pop(1) /\ literal' = Append(literal, DigitValue[top])
            /\ UNCHANGED <<text, tokens, mode, start>>
       ELSE Complete("Double", literal) /\ UNCHANGED <<pos, l>>

Identifier ==
    /\ mode = "identifier"
    /\ IF ~eof /\ IsIdentifier(top)
       THEN /\ Pop(1) /\ literal' = Append(literal, top)
            /\ UNCHANGED <<text, tokens, mode, start>>
       ELSE Complete("Identifier", literal) /\ UNCHANGED <<pos, l>>

-----------------------------------------------------------------------------
(* The streams.                                                            *)

Finished == mode \in {"done", "error"}

\* How often the coming turn calls eof() where the text ends.  (An operator calls
\* it for each character that may follow, but the outer loop will, once more.)
Looks ==
    IF eof THEN (IF mode \in Quotes \cup {"number"} THEN 2 ELSE 1)
    ELSE IF second # "" THEN 0
    ELSE CASE mode = "tokens" /\ top \in DOMAIN Extensions -> 1
           [] mode = "multi line comment" /\ top = "*"      -> 2
           [] mode \in Quotes /\ top = "\\"                 -> 1
           [] mode = "number" /\ top = "."                  -> 1
           [] OTHER                                         -> 0

\* The first peek() at the end sets eofbit, the next one failbit, and only the
\* stream of a file has exceptions for that.
Fails == ~Finished /\ fromFile /\ Looks + (IF eofbit THEN 1 ELSE 0) > 1

StreamFailure == Token("Error", "ios_base::failure", [line |-> 0, col |-> 0])

\* The exception leaves TokenizeFile, and the tokens are lost.
FailInStream ==
    /\ Fails
    /\ mode' = "error"
    /\ tokens' = <<StreamFailure>>
    /\ eofbit' = TRUE
    /\ UNCHANGED <<text, fromFile, pos, l, start, literal>>

Reads ==
    /\ ~Fails
    /\ eofbit' = (eofbit \/ Looks > 0)
    /\ UNCHANGED fromFile

-----------------------------------------------------------------------------
(* Specification.                                                          *)

Init == /\ text \in Texts
        /\ fromFile \in BOOLEAN
        /\ eofbit = FALSE
        /\ pos = 0
        /\ l = [line |-> 1, col |-> 1]
        /\ tokens = <<>>
        /\ mode = "tokens"
        /\ start = [line |-> 1, col |-> 1]
        /\ literal = <<>>

Turn == \/ SkipWhitespace \/ Operator \/ Punctuate \/ EnterComment \/ EnterLiteral
        \/ UndefinedCharacter \/ EndOfFile
        \/ SingleLineComment \/ MultiLineComment \/ StringLiteral
        \/ NumericLiteral \/ Fraction \/ Identifier

Step == (Reads /\ Turn) \/ FailInStream

\* tokenize() has returned or thrown.
Stopped == Finished /\ UNCHANGED vars

Next == Step \/ Stopped

Spec == Init /\ [][Next]_vars /\ WF_vars(Step)
=============================================================================
