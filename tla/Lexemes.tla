------------------------------ MODULE Lexemes ------------------------------
(***************************************************************************)
(* The tokens of a text, read off the text without a lexer: each lexeme is *)
(* found by where it can end.  Lexer is compared with this.                *)
(***************************************************************************)
EXTENDS Lexer

\* The first position of the text that belongs to S, or one past its end.
First(S) == Min(S \cup {Len(text) + 1})

From(p) == p .. Len(text)

\* The two characters at p, or the last one.
Pair(p) == SubSeq(text, p, Min({p + 1, Len(text)}))

\* Line and column of position p: the lines before it, and the characters since.
LocationOf(p) ==
    LET breaks == {q \in 1 .. p - 1 : text[q] = "\n"}
    IN [line |-> 1 + Cardinality(breaks), col |-> p - Max(breaks \cup {0})]

\* The longest run of characters of C from p on ends before this position.
RunEnd(p, C) == First({q \in From(p) : text[q] \notin C})

\* Where the comment that starts at p ends, as in C: with the first star and
\* slash behind its own.  That slash is the last character of the comment.
CommentEnd(p) == First({q \in From(p + 3) : text[q - 1] = "*" /\ text[q] = "/"})

\* The character at q belongs to an escape sequence of the string that starts at p:
\* an odd number of backslashes stands before it.
Escaped(p, q) ==
    LET slashes == {n \in 0 .. q - p - 1 : \A m \in q - n .. q - 1 : text[m] = "\\"}
    IN Max(slashes) % 2 = 1

StringEnd(p) == First({q \in From(p + 1) : text[q] = text[p] /\ ~Escaped(p, q)})
BadEscape(p) == First({q \in From(p + 1) : Escaped(p, q) /\ text[q] \notin Escapes})

RECURSIVE Decoded(_, _)
Decoded(p, end) ==
    IF p >= end THEN <<>>
    ELSE IF text[p] = "\\" THEN Unescaped(text[p + 1]) \o Decoded(p + 2, end)
    ELSE <<text[p]>> \o Decoded(p + 1, end)

\* The decimal reading of the digits from p up to before `end`.
Decimal(p, end) ==
    FoldLeft(LAMBDA n, c : 10 * n + DigitValue[c], 0, SubSeq(text, p, end - 1))

DigitsOf(p, end) == [k \in 1 .. end - p |-> DigitValue[text[p + k - 1]]]

Operators == {<<c>> : c \in DOMAIN Extensions} \cup
             {<<"/", "=">>, <<"+", "+">>, <<"+", "=">>, <<"-", "-">>, <<"-", "=">>,
              <<"-", ">">>, <<"*", "=">>, <<"!", "=">>, <<"=", "=">>, <<"<", "<">>,
              <<"<", "=">>, <<">", ">">>, <<">", "=">>, <<"|", "|">>, <<"&", "&">>}

\* The lexeme at p: the token it makes, if any, and where the text goes on.
Skip(next) == [token |-> <<>>, next |-> next]
Yields(kind, contents, p, next) ==
    [token |-> <<Token(kind, contents, LocationOf(p))>>, next |-> next]
Rejects(what, p) == [token |-> <<Token("Error", what, LocationOf(p))>>, next |-> 0]

StringLexeme(p) ==
    LET end == StringEnd(p)
        bad == BadEscape(p)
    IN IF bad < end THEN Rejects("unsupported escape", bad + 1)
       ELSE IF end <= Len(text) THEN Yields(Kind(text[p]), Decoded(p + 1, end), p, end + 1)
       ELSE IF Escaped(p, Len(text) + 1) THEN Rejects("unterminated escape", Len(text) + 1)
       ELSE Rejects("unterminated string", p)

NumberLexeme(p) ==
    LET whole == RunEnd(p, Digits)
        end == RunEnd(whole + 1, Digits)
    IN IF ~(whole <= Len(text) /\ text[whole] = ".")
       THEN Yields("Integer", <<Wrap(Decimal(p, whole))>>, p, whole)
       ELSE IF end = whole + 1 \/ whole = Len(text)
       THEN Rejects("digit must follow", whole + 1)
       ELSE Yields("Double", <<Wrap(Decimal(p, whole))>> \o DigitsOf(whole + 1, end), p, end)

OperatorLexeme(p) ==
    LET length == IF Pair(p) \in Operators THEN Len(Pair(p)) ELSE 1
    IN Yields("Operator", SubSeq(text, p, p + length - 1), p, p + length)

CommentLexeme(p) ==
    IF text[p + 1] = "/" THEN Skip(RunEnd(p, {c \in ToSet(text) : c # "\n"}))
    ELSE IF CommentEnd(p) > Len(text) THEN Rejects("unterminated comment", p)
    ELSE Skip(CommentEnd(p) + 1)

Lexeme(p) ==
    LET c == text[p]
    IN IF c \in Whitespace THEN Skip(p + 1)
       ELSE IF Pair(p) \in {<<"/", "/">>, <<"/", "*">>} THEN CommentLexeme(p)
       ELSE IF c \in Quotes THEN StringLexeme(p)
       ELSE IF IsDigit(c) THEN NumberLexeme(p)
       ELSE IF IsIdentifierStart(c)
       THEN LET end == RunEnd(p, Letters \cup Digits \cup {"_"})
            IN Yields("Identifier", SubSeq(text, p, end - 1), p, end)
       ELSE IF <<c>> \in Operators THEN OperatorLexeme(p)
       ELSE IF c \in Punctuation THEN Yields("Identifier", <<c>>, p, p + 1)
       ELSE Rejects("undefined character", p + 1)

\* All tokens from position p on; 0 is where an error ends the text.
RECURSIVE TokensFrom(_)
TokensFrom(p) ==
    IF p = 0 THEN <<>>
    ELSE IF p > Len(text) THEN <<Token("EoF", <<>>, LocationOf(p))>>
    ELSE Lexeme(p).token \o TokensFrom(Lexeme(p).next)

\* How many stars of the comment that starts at p stand right before position q.
StarRun(p, q) ==
    Max({n \in 0 .. q - p - 2 : \A m \in q - n .. q - 1 : text[m] = "*"})

\* The lexer must look behind the text to see where the lexeme at p ends, and then
\* looks there again: a name, a number, an operator that could go on, or a string or
\* comment that does not end.  A text that ends in a backslash, a decimal dot or an
\* even number of stars is rejected before the second look.
EndsUnseen(p) ==
    LET atEnd == Lexeme(p).next > Len(text)
        open == Lexeme(p).next = 0
    IN CASE Pair(p) = <<"/", "/">> -> atEnd
         [] Pair(p) = <<"/", "*">> -> open /\ StarRun(p, Len(text) + 1) % 2 = 1
         [] text[p] \in Quotes -> open /\ Lexeme(p) = Rejects("unterminated string", p)
         [] IsDigit(text[p]) \/ IsIdentifierStart(text[p]) -> atEnd
         [] OTHER -> p = Len(text) /\ <<text[p]>> \in Operators

\* So does the last lexeme of the text from p on.
RECURSIVE FileFails(_)
FileFails(p) == p \in From(1) /\ (EndsUnseen(p) \/ FileFails(Lexeme(p).next))

\* No comment of the text is closed behind an even number of stars.
CommentsCloseOddly ==
    \A p \in From(1) : Pair(p) = <<"/", "*">> /\ CommentEnd(p) <= Len(text)
                        => StarRun(p, CommentEnd(p)) % 2 = 1

-----------------------------------------------------------------------------
(* Properties.                                                             *)

(* What tokenize() returns is what the text says: each operator, name and
   number is as long as it can be, an escape sequence is read from the left, a
   comment or string hides what it contains and nothing else, an integer has its
   decimal value in the range of int, and every token and error carries the place
   where it is in the text.  A file is read like a string, but for one that ends in
   something whose end only the end of the file can show: it is not read at all.
   This excepts the comments of the next property. *)
ReadsTheText ==
    Finished /\ CommentsCloseOddly =>
        tokens = IF fromFile /\ FileFails(1) THEN <<StreamFailure>> ELSE TokensFrom(1)

(* The comment loop pops the character behind a star without looking at it again
   (lexer.h:389), so it takes stars in pairs: a comment ends with the first slash
   behind an odd number of stars.  It never ends before that of C, and goes on past
   it exactly if the number is even. *)
CommentsEndAfterAnOddRun ==
    [][mode = "multi line comment" /\ mode' = "tokens" =>
         LET open == CHOOSE p \in 1 .. pos : LocationOf(p) = start
         IN pos' = First({q \in From(open + 3) : text[q] = "/" /\ StarRun(open, q) % 2 = 1})]_vars

(* tokenize() returns or throws for every text: each loop pops a character in every
   turn or ends. *)
Terminates == <>Finished
=============================================================================
