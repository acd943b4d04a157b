------------------------------ MODULE Parsing ------------------------------
(***************************************************************************)
(* What the parser promises: it accepts the grammar, and the tree it       *)
(* builds is the one that the grammar and the declared types give.         *)
(***************************************************************************)
EXTENDS Parser

\* What the parser accepts lies between these two: it has no parenthesised
\* expressions, which the comment at parser.cpp:560 and LANGUAGE.md:61 allow, and takes
\* punctuation of one character for an identifier where it expects one, and keywords
\* for the name of a struct or member.
Least == INSTANCE Grammar
         WITH Identifiers <- Names, Words <- Names
Most  == INSTANCE Grammar
         WITH Identifiers <- Names \cup Punctuation,
              Words <- Names \cup Punctuation \cup Keywords

-----------------------------------------------------------------------------
(* The tokens that a tree was made from.                                   *)

Concat(seqs) == FlattenSeq(seqs)
Separated(seqs, t) ==
    FlattenSeq([k \in 1 .. Len(seqs) |-> IF k = 1 THEN seqs[k] ELSE <<t>> \o seqs[k]])

Compound == {"block", "if", "switch", "while", "for", "function", "struct", "typedef"}

RECURSIVE Spelling(_)
Spelling(n) ==
    LET a == n.args
        S == [k \in DOMAIN a |-> Spelling(a[k])]
        Ends == [k \in DOMAIN a |-> IF a[k].op \in Compound THEN S[k] ELSE S[k] \o <<";">>]
        From(k) == SubSeq(S, k, Len(S))
        Stmts(k) == Concat(SubSeq(Ends, k, Len(S)))
    IN CASE n.op = "program"  -> Concat(Ends)
         [] n.op = "function" -> S[1] \o S[2] \o Concat(From(3))
         [] n.op = "args"     -> <<"(">> \o Separated(S, ",") \o <<")">>
         [] n.op = "struct"   -> <<"struct">> \o Concat(S) \o <<";">>
         [] n.op = "fields"   -> <<"{">> \o Concat(Ends) \o <<"}">>
         [] n.op = "typedef"  -> <<"typedef">> \o S[1] \o <<"(", "*">> \o S[2] \o <<")", "(">>
                                 \o Separated(From(3), ",") \o <<")", ";">>
         [] n.op = "vars"     -> Separated(S, ",")
         [] n.op = "var"      -> Concat(S)
         [] n.op = "pointer"  -> S[1] \o <<"*">>
         [] n.op = "array"    -> S[1] \o <<"[">> \o S[2] \o <<"]">>
         [] n.op = "init"     -> S[1] \o <<"=">> \o S[2]
         [] n.op = "block"    -> <<"{">> \o Stmts(1) \o <<"}">>
         [] n.op = "if"       -> <<"if", "(">> \o S[1] \o <<")">> \o Ends[2]
                                 \o (IF Len(a) = 3 THEN <<"else">> \o Ends[3] ELSE <<>>)
         [] n.op = "switch"   -> <<"switch", "(">> \o S[1] \o <<")", "{">> \o Concat(From(2)) \o <<"}">>
         [] n.op = "case"     -> <<"case">> \o S[1] \o <<":">> \o Stmts(2)
         [] n.op = "default"  -> <<"default", ":">> \o Stmts(1)
         [] n.op = "while"    -> <<"while", "(">> \o S[1] \o <<")">> \o Ends[2]
         [] n.op = "do"       -> <<"do">> \o Ends[1] \o <<"while", "(">> \o S[2] \o <<")">>
         [] n.op = "for"      -> <<"for", "(">> \o S[1] \o <<";">> \o S[2] \o <<";">> \o S[3]
                                 \o <<")">> \o Ends[4]
         [] n.op = "return"   -> <<"return">> \o Concat(S)
         [] n.op = "null"     -> <<>>
         [] n.op = "sequence" -> Separated(S, ",")
         [] n.op = "call"     -> S[1] \o <<"(">> \o Separated(From(2), ",") \o <<")">>
         [] n.op = "index"    -> S[1] \o <<"[">> \o S[2] \o <<"]">>
         [] n.op = "cast"     -> S[1] \o <<"<">> \o S[2] \o <<">", "(">> \o S[3] \o <<")">>
         [] n.op \in {"unary", "post"} -> Concat(S)
         [] n.op \in {"break", "continue"} -> <<n.op>>
         [] n.op = "leaf"     -> <<n.token>>
         [] OTHER             -> S[1] \o <<n.op>> \o S[2]

RECURSIVE Subtrees(_)
Subtrees(n) == {n} \cup UNION {Subtrees(n.args[k]) : k \in DOMAIN n.args}

Program == nodes[1]

\* How loosely the operator of an expression binds: its place in the list of the
\* grammar, 0 for a prefix or postfix operator.
IsBinary(n) == \E k \in DOMAIN Levels : n.op \in Levels[k]
Looseness(n) ==
    IF IsBinary(n) THEN CHOOSE k \in DOMAIN Levels : n.op \in Levels[k]
    ELSE IF n.op = "=" THEN Len(Levels) + 1 ELSE 0

Primary(n) == Looseness(n) = 0 /\ n.op # "unary"

(* Each operator has the operands that priorities and associativity give it:
   binary operators associate to the left, assignment to the right, a postfix
   operator applies to what stands right before it. *)
GroupedAsDocumented(n) ==
    LET a == n.args
    IN /\ IsBinary(n) => Looseness(a[1]) <= Looseness(n) /\ Looseness(a[2]) < Looseness(n)
       /\ n.op = "=" => Looseness(a[1]) < Looseness(n)
       /\ n.op = "unary" => Looseness(a[2]) = 0
       /\ n.op \in {"post", "call", "index"} => Primary(a[1])
       /\ n.op \in {".", "->"} => Primary(a[1])
       /\ n.op = "array" => Looseness(a[2]) <= Len(Levels)

-----------------------------------------------------------------------------
(* Names and types of a tree.                                              *)

TypePositions(n) ==
    CASE n.op \in {"var", "function", "typedef"} -> {n.args[1]}
      [] n.op = "cast" -> {n.args[2]}
      [] OTHER -> {}

\* The names used as types in a tree, and those used as names of something else.
TypeNames(n) == {t.token : t \in UNION {Subtrees(p) : p \in UNION {TypePositions(m) : m \in Subtrees(n)}}}
                \cap (Names \cup Punctuation)
Declares(n) == IF n.op = "struct" THEN {n.args[1].token}
               ELSE IF n.op = "typedef" THEN {n.args[2].token} ELSE {}
RECURSIVE Variables(_)
Variables(n) ==
    CASE n.op = "leaf" -> {n.token} \cap Names
      [] n.op = "cast" -> Variables(n.args[3])
      [] n.op = "typedef" -> {}
      [] n.op \in {"struct", "var", "function"} -> UNION {Variables(n.args[k]) : k \in 2 .. Len(n.args)}
      [] n.op \in {".", "->"} -> Variables(n.args[1])
      [] OTHER -> UNION {Variables(n.args[k]) : k \in DOMAIN n.args}

-----------------------------------------------------------------------------
(* Properties.                                                             *)

(* An accepted program is the spelling of its tree, with every operator where its
   priority puts it: no token is lost, used twice or taken by the wrong
   operator, although the parser reads the start of each declaration, and of each
   statement that starts with a type, twice. *)
TreesAreThoseOfTheGrammar ==
    status = "done" =>
        /\ Spelling(Program) \o <<"EoF">> = tokens
        /\ \A n \in Subtrees(Program) : GroupedAsDocumented(n)

(* A name is used as a type from its declaration as one on, and never as a
   variable, member or function after it: `T * x;` is a declaration exactly if T
   was declared, whatever was tried before and undone. *)
TypesAndVariablesAreApart ==
    LET declared == [k \in 0 .. Len(Program.args) |->
                        UNION {Declares(Program.args[m]) : m \in 1 .. k}]
    IN status = "done" =>
        \A k \in DOMAIN Program.args :
            /\ TypeNames(Program.args[k]) \subseteq declared[k]
            /\ Variables(Program.args[k]) \cap declared[k - 1] = {}

(* The parser throws at the first token that no program can have there, and at no
   other: what it has read is the beginning of a program as long as it goes on, and
   is none once it has thrown.  Arguments and cases that are defined twice are
   left out.  The grammar is that of LANGUAGE.md but for
   expressions in parentheses, with the allowances that Least and Most make. *)
AcceptsTheGrammar ==
    /\ status = "done" => Most!IsViable
    /\ status = "parsing" /\ i > Len(tokens) /\ saved = <<>> => Most!IsViable
    /\ status = "error" /\ ~(Current.do \in Checks) => ~Least!IsViable

(* parse() returns or throws. *)
Returns == <>(status # "parsing")
=============================================================================
