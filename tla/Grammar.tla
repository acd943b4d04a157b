------------------------------ MODULE Grammar ------------------------------
(***************************************************************************)
(* The grammar of TinyC, as sets of productions: that of LANGUAGE.md,       *)
(* without F := '(' EXPR ')', which the parser does not have, and with what *)
(* it allows in addition as a parameter.                                   *)
(* Lists { X } and options [ X ] have a symbol of their own.               *)
(***************************************************************************)
EXTENDS Naturals, SequencesExt

CONSTANTS tokens,        \* a text, or the first tokens of one
          Numbers,
          Identifiers,   \* the tokens that may be an identifier,
          Words          \* and the name of a struct or of a member

Optional(S) == S \cup {<<>>}
Infix == {"*", "/", "%", "+", "-", "<<", ">>", "<", "<=", ">", ">=", "==", "!=", "&", "|",
          "&&", "||"}
Prefix == {"+", "-", "!", "~", "++", "--", "*", "&"}

Productions == [
  PROGRAM |-> {<<"EoF">>, <<"FUN_DECL", "PROGRAM">>, <<"VAR_DECLS", ";", "PROGRAM">>,
               <<"STRUCT_DECL", "PROGRAM">>, <<"FUNPTR_DECL", "PROGRAM">>},
  FUN_DECL |-> {<<"TYPE_FUN_RET", "identifier", "(", "FUN_ARGS", ")", "FUN_BODY">>},
  FUN_BODY |-> Optional({<<"BLOCK_STMT">>}),
  FUN_ARGS |-> Optional({<<"FUN_ARG_LIST">>}),
  FUN_ARG_LIST |-> {<<"TYPE", "identifier", "FUN_ARG_TAIL">>},
  FUN_ARG_TAIL |-> Optional({<<",", "FUN_ARG_LIST">>}),
  BLOCK_STMT |-> {<<"{", "STATEMENTS", "}">>},
  STATEMENTS |-> Optional({<<"STATEMENT", "STATEMENTS">>}),
  STATEMENT |-> {<<"BLOCK_STMT">>,
                 <<"if", "(", "EXPR", ")", "STATEMENT", "ELSE_PART">>,
                 <<"switch", "(", "EXPR", ")", "{", "CASES", "DEFAULT", "}">>,
                 <<"while", "(", "EXPR", ")", "STATEMENT">>,
                 <<"do", "STATEMENT", "while", "(", "EXPR", ")", ";">>,
                 <<"for", "(", "FOR_INIT", ";", "FOR_EXPR", ";", "FOR_EXPR", ")", "STATEMENT">>,
                 <<"break", ";">>, <<"continue", ";">>, <<"return", "FOR_EXPR", ";">>,
                 <<"EXPR_OR_VAR_DECL", ";">>},
  ELSE_PART |-> Optional({<<"else", "STATEMENT">>}),
  DEFAULT |-> Optional({<<"default", ":", "STATEMENTS", "CASES">>}),
  CASES |-> Optional({<<"case", "integer", ":", "STATEMENTS", "CASES">>}),
  FOR_INIT |-> Optional({<<"EXPR_OR_VAR_DECL">>}),
  FOR_EXPR |-> Optional({<<"EXPR">>}),
  TYPE |-> {<<"PLAIN_TYPE", "STARS">>, <<"void", "*", "STARS">>},
  PLAIN_TYPE |-> {<<"int">>, <<"double">>, <<"char">>, <<"typename">>},
  STARS |-> Optional({<<"*", "STARS">>}),
  TYPE_FUN_RET |-> {<<"TYPE">>, <<"void">>},
  STRUCT_DECL |-> {<<"struct", "new type", ";">>, <<"struct", "new type", "{", "FIELDS", "}", ";">>},
  \* Beyond LANGUAGE.md, a member may be an array.
  FIELDS |-> Optional({<<"TYPE", "identifier", "ARRAY", ";", "FIELDS">>}),
  FUNPTR_DECL |-> {<<"typedef", "TYPE_FUN_RET", "(", "*", "identifier", ")", "(", "TYPES", ")", ";">>},
  TYPES |-> Optional({<<"TYPE_LIST">>}),
  TYPE_LIST |-> {<<"TYPE", "TYPE_TAIL">>},
  TYPE_TAIL |-> Optional({<<",", "TYPE_LIST">>}),
  EXPR_OR_VAR_DECL |-> {<<"VAR_DECLS">>, <<"EXPRS">>},
  VAR_DECLS |-> {<<"VAR_DECL", "VAR_DECL_TAIL">>},
  VAR_DECL_TAIL |-> Optional({<<",", "VAR_DECLS">>}),
  VAR_DECL |-> {<<"TYPE", "identifier", "ARRAY", "INIT">>},
  ARRAY |-> Optional({<<"[", "E9", "]">>}),
  INIT |-> Optional({<<"=", "EXPR">>}),
  EXPRS |-> {<<"EXPR", "EXPR_TAIL">>},
  EXPR_TAIL |-> Optional({<<",", "EXPRS">>}),
  EXPR |-> {<<"E9", "INIT">>},
  \* How E1 to E9 divide an expression among them is the matter of GroupedAsDocumented.
  E9 |-> {<<"E_UNARY_PRE", "INFIX">>},
  INFIX |-> Optional({<<"infix", "E9">>}),
  E_UNARY_PRE |-> {<<"prefix", "E_UNARY_PRE">>, <<"F", "POSTFIX">>},
  POSTFIX |-> Optional({<<"(", "ARGS", ")", "POSTFIX">>, <<"[", "EXPR", "]", "POSTFIX">>,
                        <<".", "member", "POSTFIX">>, <<"->", "member", "POSTFIX">>,
                        <<"++", "POSTFIX">>, <<"--", "POSTFIX">>}),
  ARGS |-> Optional({<<"EXPRS">>}),
  F |-> {<<"literal">>, <<"integer">>, <<"identifier">>,
         <<"cast", "<", "TYPE", ">", "(", "EXPR", ")">>} ]

-----------------------------------------------------------------------------
(* Sentences and their beginnings.                                         *)

\* The position behind the last known token: anything may follow there.
Unknown == Len(tokens) + 1

\* The names declared as types by the tokens before position p.
TypesAt(p) ==
    {tokens[q + 1] : q \in {q \in 1 .. p - 2 : tokens[q] = "struct" /\ (q > 1 => tokens[q - 1] # "struct")}} \cup
    {tokens[q] : q \in {q \in 4 .. p - 1 : /\ tokens[q - 1] = "*" /\ tokens[q - 2] = "("
                                           /\ \E d \in 1 .. q - 3 : /\ tokens[d] = "typedef"
                                                                    /\ \A m \in d .. q - 3 : tokens[m] # ";"}}

\* The token at p is the terminal symbol h.
Matches(h, p) ==
    LET t == tokens[p]
    IN CASE h = "identifier" -> t \in Identifiers /\ t \notin TypesAt(p)
         [] h = "typename"   -> t \in Identifiers /\ t \in TypesAt(p)
         [] h = "new type"   -> t \in Words
         [] h = "member"     -> t \in Words
         [] h = "integer"    -> t \in Numbers
         [] h = "literal"    -> t \in {"1.0", "'c'", "\"s\""}
         [] h = "infix"      -> t \in Infix
         [] h = "prefix"     -> t \in Prefix
         [] OTHER            -> t = h

\* Where a sentence of the form s that starts at p can end.
RECURSIVE Ends(_, _)
Ends(s, p) ==
    IF s = <<>> \/ p = Unknown THEN {p}
    ELSE UNION {Ends(Tail(s), q) :
                  q \in IF Head(s) \in DOMAIN Productions
                        THEN UNION {Ends(form, p) : form \in Productions[Head(s)]}
                        ELSE IF Matches(Head(s), p) THEN {p + 1} ELSE {}}

\* The tokens are a program, or the beginning of one.
IsViable == Unknown \in Ends(<<"PROGRAM">>, 1)
=============================================================================
