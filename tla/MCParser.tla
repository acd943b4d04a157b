------------------------------ MODULE MCParser ------------------------------
(* Parser on all sources of a few short forms.                             *)
EXTENDS Parsing

CONSTANTS Extra   \* how many tokens may stand between prelude and ending

Script(prelude, vocabulary, extra, ending) ==
    [prelude |-> prelude, vocabulary |-> vocabulary, length |-> Len(prelude) + extra,
     ending |-> Append(ending, "EoF")]

InMain == <<"int", "f", "(", ")", "{">>
End == <<";", "}">>

MCScripts == {
    \* Operators of three levels, prefix, postfix and assignment.
    Script(InMain \o <<"a">>, {"a", "*", "-", "=", "++"}, Extra + 1, <<"a">> \o End),
    Script(InMain \o <<"a">>, {"a", "&&", "==", "-"}, Extra + 1, <<"a">> \o End),
    \* Calls, members and what looks like parentheses.
    Script(InMain \o <<"a">>, {"a", "(", ")", "[", "]", ",", "."}, Extra, End),
    Script(InMain, {"a", "(", ")", ";"}, Extra + 1, End),
    \* A declared type, a cast, and both sides of the ambiguity.
    Script(<<"struct", "T", ";">> \o InMain, {"T", "a", "*", "=", ",", ";"}, Extra + 1, End),
    Script(<<"struct", "T", ";">> \o InMain \o <<"cast">>, {"<", ">", "T", "void", "*", "(", ")", "a"},
           Extra + 1, <<"(", "a", ")">> \o End),
    \* Declarations.
    Script(<<>>, {"int", "void", "struct", "T", "(", ")", ";", "*", ","}, Extra, <<>>),
    Script(<<"int", "a">>, {",", "*", "int", "a", "[", "1", "]", "="}, Extra + 1, <<";">>),
    Script(<<"struct", "T", "{">>, {"int", "T", "a", "[", "]", "1", "*", ";", "}"}, Extra, <<"}", ";">>),
    Script(<<"typedef", "int", "(", "*">>, {"T", "a", "int", "(", ")", ",", ";"}, Extra + 1, <<"(", "int", ")", ";">>),
    Script(<<"int", "f", "(">>, {"int", "a", "b", ",", "(", ")", "{", "}", ";"}, Extra + 1, <<"{", "}">>),
    \* Statements.
    Script(InMain \o <<"if", "(", "a", ")">>, {"a", "if", "else", "(", ")", ";"}, Extra + 1, End),
    Script(InMain, {"do", "while", "break", "(", ")", "a", ";"}, Extra, <<";", "while", "(", "a", ")">> \o End),
    Script(InMain \o <<"for", "(">>, {"int", "a", ";", ")", "{", "return", "="}, Extra, <<"a">> \o End),
    Script(InMain \o <<"switch", "(", "a", ")", "{">>,
           {"case", "default", "0", "1", ":", ";", "continue"}, Extra + 3, <<"}", "}">>) }
=============================================================================
