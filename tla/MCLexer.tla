------------------------------ MODULE MCLexer ------------------------------
(* Lexer on all short texts over four alphabets, each of which makes one   *)
(* group of the lexer's loops meet.                                        *)
EXTENDS Lexemes

CONSTANT MaxLength

TextsOver(alphabet, n) == BoundedSeq(alphabet, n)

\* Comments and operators that look like them, over lines.
Comments == TextsOver({"/", "*", "a", "\n"}, MaxLength + 1)

\* Strings, escapes and the two quotes.
Strings == TextsOver({"\"", "'", "\\", "n", "\n"}, MaxLength)

\* Numbers, names and what ends them.  128 is past the largest int of 8 bits.
Numbers == TextsOver({"1", "2", "8", ".", "a", "#"}, MaxLength)

\* All pairs of operator characters, and those that follow them.
OperatorTexts == TextsOver({"/", "+", "-", "*", "!", "=", "<", ">", "|", "&", ";", " ", "_"}, 3)

MCTexts == Comments \cup Strings \cup Numbers \cup OperatorTexts
=============================================================================
