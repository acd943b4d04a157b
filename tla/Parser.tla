------------------------------- MODULE Parser -------------------------------
(***************************************************************************)
(* The recursive descent parser: src/tinycc/frontend/parser.{h,cpp}.       *)
(*                                                                         *)
(* The C++ call stack is `todo`, a sequence of what is still to be done:   *)
(* call the function of a rule, pop a token, build a node.  `nodes` holds  *)
(* the trees that the active calls have in their locals.  The functions    *)
(* are the operator Body: what a function does from where it looks at the  *)
(* next token to where it looks again.                                     *)
(*                                                                         *)
(* The source is not an input: where the parser looks at a token it has    *)
(* not seen, every token of the vocabulary is tried, and the end of the    *)
(* source.  All rules look at the token on top only (nothing calls peek),  *)
(* and a token that was read stays when the parser goes back.              *)
(***************************************************************************)
EXTENDS Naturals, SequencesExt

CONSTANTS Names,        \* identifiers that are not keywords
          Numbers,      \* integer literals
          Scripts       \* [prelude, vocabulary, length, ending]: how the source begins,
                        \* what may follow, up to which length, and how it ends

Keywords == {"break", "case", "cast", "char", "continue", "default", "do", "double",
             "else", "for", "if", "int", "return", "struct", "switch", "typedef",
             "void", "while"}

\* The lexer makes these tokens of one character, with the kind of an identifier.
Punctuation == {"%", ".", ",", ";", ":", "?", "[", "]", "(", ")", "{", "}", "~"}

VARIABLES script,   \* what the source may still be
          tokens,   \* tokens_, as far as it was looked at
          i,        \* i_: the token on top is tokens[i]
          types,    \* possibleTypesStack_; its members are possibleTypes_
          todo,     \* what the active calls still have to do
          nodes,    \* the trees they hold
          saved,    \* positions to go back to, with what was held there
          status    \* "parsing", "done", or "error"

vars == <<script, tokens, i, types, todo, nodes, saved, status>>

-----------------------------------------------------------------------------
(* Work to do, and trees.                                                  *)

Call(rule)      == [do |-> "call", arg |-> rule, n |-> 0]
Tok(symbol)     == [do |-> "pop", arg |-> symbol, n |-> 0]
Build(op, n)    == [do |-> "build", arg |-> op, n |-> n]
Loops(from, to) == [do |-> "loops", arg |-> from, n |-> to]  \* see Binary
Do(what)        == [do |-> what, arg |-> "", n |-> 0]

\* Keep the position; if n # 0 this enters a try block: when it fails, the n entries
\* that follow are skipped.
Save(n) == [do |-> "save", arg |-> "", n |-> n]

Leaf   == Do("leaf")     \* pop the token on top and make a node of it
Add    == Do("add")      \* push_back the last tree to the one below
Throw_ == Do("throw")

Node(op, args) == [op |-> op, token |-> "", args |-> args]
LeafNode(t)    == [op |-> "leaf", token |-> t, args |-> <<>>]

top == tokens[i]

IsIdentifierToken(t) == t \in Names \cup Keywords \cup Punctuation
isIdentifier(t) == IsIdentifierToken(t) /\ t \notin Keywords
isTypeName(t) == t \in ToSet(types)

(* Slip: the names of types are not looked up. *)
AnyIdentifier == IF isIdentifier(top) THEN <<Leaf>> ELSE <<Throw_>>

IDENT == IF isIdentifier(top) /\ ~isTypeName(top) THEN <<Leaf>> ELSE <<Throw_>>

Paren(rule) == <<Tok("("), Call(rule), Tok(")")>>

-----------------------------------------------------------------------------
(* Expressions.                                                            *)

\* The operators of E1 to E9.
Levels == << {"*", "/", "%"}, {"+", "-"}, {"<<", ">>"}, {"<", "<=", ">", ">="},
             {"==", "!="}, {"&"}, {"|"}, {"&&"}, {"||"} >>

\* E_k calls E_(k-1) first, and so on: one call of E_UNARY_PRE, then the loops of
\* all levels up to k, from the inside to the outside.
E(k) == <<Call("E_UNARY_PRE"), Loops(1, k)>>

(* Slip: the loop of a level parses its right operand at its own level. *)
RightAssociative(from, to) ==
    LET level == {k \in from .. to : top \in Levels[k]}
    IN IF level = {} THEN <<>>
       ELSE LET k == CHOOSE k \in level : TRUE
            IN <<Tok(top)>> \o E(k) \o <<Build(top, 2), Loops(k, to)>>

\* The loops of levels from..to, all about to look at the token on top.  The one
\* that takes it goes on with an operand of the level below; those inside are over.
Binary(from, to) ==
    LET level == {k \in from .. to : top \in Levels[k]}
    IN IF level = {} THEN <<>>
       ELSE LET k == CHOOSE k \in level : TRUE
            IN <<Tok(top)>> \o E(k - 1) \o <<Build(top, 2), Loops(k, to)>>

\* EXPR { ',' EXPR }, and likewise for others: add to the tree already built.
More(rule) == IF top = "," THEN <<Tok(","), Call(rule), Add, Call(rule \o "S'")>> ELSE <<>>

E_UNARY_PRE ==
    IF top \in {"+", "-", "!", "~", "++", "--", "*", "&"}
    THEN <<Leaf, Call("E_UNARY_PRE"), Build("unary", 2)>>
    ELSE <<Call("F"), Call("POST")>>

\* The loop of E_CALL_INDEX_MEMBER_POST.
POST ==
    CASE top = "(" -> <<Tok("("), Build("call", 1), Call("ARGS"), Tok(")"), Call("POST")>>
      [] top = "[" -> <<Tok("["), Call("EXPR"), Build("index", 2), Tok("]"), Call("POST")>>
      [] top \in {".", "->"} -> <<Tok(top), Do("name"), Build(top, 2), Call("POST")>>
      [] top \in {"++", "--"} -> <<Leaf, Build("post", 2), Call("POST")>>
      [] OTHER -> <<>>

ARGS == IF top = ")" THEN <<>> ELSE <<Call("EXPR"), Add, Call("EXPRS'")>>

\* The comment on F promises '(' EXPR ')', for which there is no case.
F == CASE top \in Numbers \cup {"1.0", "'c'", "\"s\""} -> <<Leaf>>
       [] top = "cast" -> <<Leaf, Tok("<"), Call("TYPE"), Tok(">")>> \o Paren("EXPR")
                          \o <<Build("cast", 3)>>
       [] top # "cast" /\ IsIdentifierToken(top) -> IDENT
       [] OTHER -> <<Throw_>>    \* '' and 'ab' among them: see ASTChar

EXPR == E(9) \o <<Call("ASSIGN")>>
ASSIGN == IF top = "=" THEN <<Tok("="), Call("EXPR"), Build("=", 2)>> ELSE <<>>

\* A single expression is returned as it is.
EXPRS == <<Call("EXPR"), Call("SEQUENCE")>>
SEQUENCE == IF top = "," THEN <<Build("sequence", 1), Call("EXPRS'")>> ELSE <<>>

-----------------------------------------------------------------------------
(* Types and declarations.                                                 *)

\* TYPE(canBeVoid); "POINTERS" is the loop at its end.
TYPE(canBeVoid) ==
    IF top = "void"
    THEN IF canBeVoid THEN <<Leaf, Call("POINTERS")>>
         ELSE <<Leaf, Tok("*"), Build("pointer", 1), Call("POINTERS")>>
    ELSE IF top \in {"int", "char", "double"} \/ (isIdentifier(top) /\ isTypeName(top))
    THEN <<Leaf, Call("POINTERS")>>
    ELSE <<Throw_>>
POINTERS == IF top = "*" THEN <<Tok("*"), Build("pointer", 1), Call("POINTERS")>> ELSE <<>>

\* What is added to the declarator on top of the nodes, if anything.
ARRAY == IF top = "[" THEN <<Tok("[")>> \o E(9) \o <<Tok("]"), Build("array", 2)>> ELSE <<>>
INIT  == IF top = "=" THEN <<Tok("="), Call("EXPR"), Build("init", 2)>> ELSE <<>>

VAR_DECL == <<Call("TYPE"), Call("IDENT"), Build("var", 2), Call("ARRAY"), Call("INIT")>>
VAR_DECLS == <<Call("VAR_DECL"), Build("vars", 1), Call("VAR_DECLS'")>>

\* The name is any identifier, keywords included, and a type before its fields are read.
STRUCT_DECL == <<Tok("struct"), Do("name"), Do("addTypeName"), Build("struct", 1),
                 Call("STRUCT_BODY"), Tok(";")>>
STRUCT_BODY == IF top = "{" THEN <<Tok("{"), Build("fields", 0), Call("FIELDS"), Add>> ELSE <<>>
FIELDS == IF top = "}" THEN <<Tok("}")>>
          ELSE <<Call("TYPE"), Call("IDENT"), Build("var", 2), Call("ARRAY"), Tok(";"), Add,
                 Call("FIELDS")>>

FUNPTR_DECL == <<Tok("typedef"), Call("TYPE_FUN_RET"), Tok("("), Tok("*"), Call("IDENT"),
                 Do("addTypeName"), Tok(")"), Tok("("), Build("typedef", 2), Call("TYPES"),
                 Tok(")"), Tok(";")>>
TYPES == IF top = ")" THEN <<>> ELSE <<Call("TYPE"), Add, Call("TYPES'")>>

\* The name may be that of a type: PROGRAM has looked at it before.
FUN_DECL == <<Call("TYPE_FUN_RET"), Call("FUN_NAME"), Tok("("), Build("function", 2),
              Build("args", 0), Call("FUN_ARGS"), Tok(")"), Add, Call("FUN_BODY")>>
FUN_NAME == IF isIdentifier(top) THEN <<Leaf>> ELSE <<Throw_>>
FUN_ARGS == IF top = ")" THEN <<>> ELSE <<Call("FUN_ARG"), Add, Call("FUN_ARGS'")>>
FUN_ARG == <<Call("TYPE"), Call("IDENT"), Do("unique argument"), Build("var", 2)>>
FUN_BODY == IF top = "{" THEN <<Call("BLOCK_STMT"), Add>> ELSE <<>>

-----------------------------------------------------------------------------
(* Statements.                                                             *)

BLOCK_STMT == <<Tok("{"), Build("block", 0), Call("STATEMENTS")>>
STATEMENTS == IF top = "}" THEN <<Tok("}")>> ELSE <<Call("STATEMENT"), Add, Call("STATEMENTS")>>

IF_STMT == <<Tok("if")>> \o Paren("EXPR") \o <<Call("STATEMENT"), Build("if", 2), Call("ELSE")>>
ELSE_ == IF top = "else" THEN <<Tok("else"), Call("STATEMENT"), Add>> ELSE <<>>

SWITCH_STMT == <<Tok("switch")>> \o Paren("EXPR") \o <<Tok("{"), Build("switch", 1), Call("CASES")>>
CASE_STMT ==
    IF top = "default"
    THEN <<Do("single default"), Tok("default"), Tok(":"), Build("default", 0), Call("CASE_BODY"), Add>>
    ELSE <<Tok("case"), Call("CASE_VALUE"), Tok(":"), Build("case", 1), Call("CASE_BODY"), Add>>

(* Slip: what is no case is not rejected. *)
OtherTokensStay ==
    CASE top = "}" -> <<Tok("}")>>
      [] top \in {"case", "default"} -> CASE_STMT \o <<Call("CASES")>>
      [] OTHER -> <<Call("CASES")>>

\* The loop of SWITCH_STMT.
CASES ==
    CASE top = "}" -> <<Tok("}")>>
      [] top \in {"case", "default"} -> CASE_STMT \o <<Call("CASES")>>
      [] OTHER -> <<Throw_>>
CASE_VALUE == IF top \in Numbers THEN <<Do("unique case"), Leaf>> ELSE <<Throw_>>
CASE_BODY == IF top \in {"case", "default", "}"} THEN <<>>
             ELSE <<Call("STATEMENT"), Add, Call("CASE_BODY")>>

WHILE_STMT == <<Tok("while")>> \o Paren("EXPR") \o <<Call("STATEMENT"), Build("while", 2)>>
DO_WHILE_STMT == <<Tok("do"), Call("STATEMENT"), Tok("while")>> \o Paren("EXPR")
                 \o <<Build("do", 2), Tok(";")>>

\* An empty clause leaves a null child.
FOR_STMT == <<Tok("for"), Tok("("), Call("FOR_INIT"), Tok(";"), Call("FOR_COND"), Tok(";"),
              Call("FOR_STEP"), Tok(")"), Call("STATEMENT"), Build("for", 4)>>
UnlessAt(end, rule) == IF top = end THEN <<Build("null", 0)>> ELSE <<Call(rule)>>

RETURN_STMT == <<Tok("return"), Build("return", 0), Call("RETURN_VALUE"), Tok(";")>>
RETURN_VALUE == IF top = ";" THEN <<>> ELSE <<Call("EXPR"), Add>>

STATEMENT ==
    CASE top = "{" -> <<Call("BLOCK_STMT")>>
      [] top = "if" -> IF_STMT
      [] top = "switch" -> SWITCH_STMT
      [] top = "while" -> WHILE_STMT
      [] top = "do" -> DO_WHILE_STMT
      [] top = "for" -> FOR_STMT
      [] top \in {"break", "continue"} -> <<Tok(top), Build(top, 0), Tok(";")>>
      [] top = "return" -> RETURN_STMT
      [] OTHER -> <<Call("EXPR_OR_VAR_DECL"), Tok(";")>>

\* One turn of the loop of PROGRAM.  The type and name that are tried decide between
\* function and variables; the parser then goes back to where it tried.
PROGRAM ==
    CASE top = "EoF" -> <<Tok("EoF")>>
      [] top = "struct" -> <<Call("STRUCT_DECL"), Add, Call("PROGRAM")>>
      [] top = "typedef" -> <<Call("FUNPTR_DECL"), Add, Call("PROGRAM")>>
      [] OTHER -> <<Save(0), Call("TYPE_FUN_RET"), Call("IDENT"), Call("FUN_OR_VAR"), Add,
                    Call("PROGRAM")>>
FUN_OR_VAR == IF top = "(" THEN <<Do("revert"), Call("FUN_DECL")>>
              ELSE <<Do("revert"), Call("VAR_DECLS"), Tok(";")>>

\* try { TYPE() }: if that fails, Throw goes back and on to EXPRS.
EXPR_OR_VAR_DECL == <<Save(3), Call("TYPE"), Do("revert"), Call("VAR_DECLS")>>

Body(rule) ==
    CASE rule = "PROGRAM" -> PROGRAM           [] rule = "FUN_OR_VAR" -> FUN_OR_VAR
      [] rule = "STRUCT_DECL" -> STRUCT_DECL   [] rule = "STRUCT_BODY" -> STRUCT_BODY
      [] rule = "FIELDS" -> FIELDS             [] rule = "FUNPTR_DECL" -> FUNPTR_DECL
      [] rule = "TYPES" -> TYPES               [] rule = "TYPES'" -> More("TYPE")
      [] rule = "FUN_DECL" -> FUN_DECL         [] rule = "FUN_NAME" -> FUN_NAME
      [] rule = "FUN_ARGS" -> FUN_ARGS         [] rule = "FUN_ARGS'" -> More("FUN_ARG")
      [] rule = "FUN_ARG" -> FUN_ARG           [] rule = "FUN_BODY" -> FUN_BODY
      [] rule = "TYPE" -> TYPE(FALSE)          [] rule = "TYPE_FUN_RET" -> TYPE(TRUE)
      [] rule = "POINTERS" -> POINTERS         [] rule = "IDENT" -> IDENT
      [] rule = "VAR_DECL" -> VAR_DECL         [] rule = "VAR_DECLS" -> VAR_DECLS
      [] rule = "VAR_DECLS'" -> More("VAR_DECL")
      [] rule = "ARRAY" -> ARRAY               [] rule = "INIT" -> INIT
      [] rule = "EXPR_OR_VAR_DECL" -> EXPR_OR_VAR_DECL
      [] rule = "STATEMENT" -> STATEMENT       [] rule = "STATEMENTS" -> STATEMENTS
      [] rule = "BLOCK_STMT" -> BLOCK_STMT     [] rule = "ELSE" -> ELSE_
      [] rule = "CASES" -> CASES               [] rule = "CASE_VALUE" -> CASE_VALUE
      [] rule = "CASE_BODY" -> CASE_BODY
      [] rule = "FOR_INIT" -> UnlessAt(";", "EXPR_OR_VAR_DECL")
      [] rule = "FOR_COND" -> UnlessAt(";", "EXPR")
      [] rule = "FOR_STEP" -> UnlessAt(")", "EXPR")
      [] rule = "RETURN_VALUE" -> RETURN_VALUE
      [] rule = "EXPR" -> EXPR                 [] rule = "ASSIGN" -> ASSIGN
      [] rule = "EXPRS" -> EXPRS               [] rule = "EXPRS'" -> More("EXPR")
      [] rule = "SEQUENCE" -> SEQUENCE         [] rule = "ARGS" -> ARGS
      [] rule = "E_UNARY_PRE" -> E_UNARY_PRE   [] rule = "POST" -> POST
      [] rule = "F" -> F

-----------------------------------------------------------------------------
(* Steps.                                                                  *)

Current == Head(todo)
Doing(what) == /\ status = "parsing"
               /\ i <= Len(tokens)
               /\ Current.do = what

\* The next token of the source becomes known.
Read ==
    /\ status = "parsing" /\ i > Len(tokens)
    /\ \/ /\ i <= script.length
          /\ \E t \in script.vocabulary : tokens' = Append(tokens, t)
          /\ UNCHANGED script
       \/ /\ tokens' = Append(tokens, Head(script.ending))
          /\ script' = [script EXCEPT !.vocabulary = {}, !.ending = Tail(@)]
    /\ UNCHANGED <<i, types, todo, nodes, saved, status>>

\* pop() does not go past the last token.
Pop == i' = IF top = "EoF" THEN i ELSE i + 1

LastNode == Last(nodes)

Enter ==
    /\ \/ Doing("call") /\ todo' = Body(Current.arg) \o Tail(todo)
       \/ Doing("loops") /\ todo' = Binary(Current.arg, Current.n) \o Tail(todo)
    /\ UNCHANGED <<script, tokens, i, types, nodes, saved, status>>

PopToken ==
    /\ Doing("pop") /\ top = Current.arg
    /\ Pop
    /\ todo' = Tail(todo)
    /\ status' = IF Current.arg = "EoF" THEN "done" ELSE status
    /\ UNCHANGED <<script, tokens, types, nodes, saved>>

\* pop(Token::Kind::Identifier), where "name" is to be done, takes keywords too.
PopLeaf ==
    /\ Doing("leaf") \/ (Doing("name") /\ IsIdentifierToken(top))
    /\ Pop
    /\ nodes' = Append(nodes, LeafNode(top))
    /\ todo' = Tail(todo)
    /\ UNCHANGED <<script, tokens, types, saved, status>>

BuildNode ==
    /\ Doing("build") \/ Doing("add")
    /\ LET n == IF Current.do = "add" THEN 2 ELSE Current.n
           rest == SubSeq(nodes, 1, Len(nodes) - n)
           built == SubSeq(nodes, Len(nodes) - n + 1, Len(nodes))
       IN nodes' = Append(rest,
                          IF Current.do = "add"
                          THEN [built[1] EXCEPT !.args = Append(@, built[2])]
                          ELSE Node(Current.arg, built))
    /\ todo' = Tail(todo)
    /\ UNCHANGED <<script, tokens, i, types, saved, status>>

AddTypeName ==
    /\ Doing("addTypeName")
    /\ types' = Append(types, LastNode.token)
    /\ todo' = Tail(todo)
    /\ UNCHANGED <<script, tokens, i, nodes, saved, status>>

\* Position x = position().
SavePosition ==
    /\ Doing("save")
    /\ saved' = Append(saved, [i |-> i, types |-> Len(types), nodes |-> Len(nodes),
                               try |-> Current.n # 0, after |-> Len(todo) - 1 - Current.n])
    /\ todo' = Tail(todo)
    /\ UNCHANGED <<script, tokens, i, types, nodes, status>>

(* Slip: the parser goes on where the attempt ended. *)
ForgetToRevert ==
    /\ types' = SubSeq(types, 1, Last(saved).types)
    /\ nodes' = SubSeq(nodes, 1, Last(saved).nodes)
    /\ saved' = Front(saved)
    /\ UNCHANGED i

\* revertTo(x); the trees of the attempt are destroyed.
RevertTo ==
    /\ i' = Last(saved).i
    /\ types' = SubSeq(types, 1, Last(saved).types)
    /\ nodes' = SubSeq(nodes, 1, Last(saved).nodes)
    /\ saved' = Front(saved)

Revert ==
    /\ Doing("revert")
    /\ RevertTo
    /\ todo' = Tail(todo)
    /\ UNCHANGED <<script, tokens, status>>

\* The checks that the parser makes while it collects arguments and cases.  The
\* default case is kept among the others with the value 0.
ValueOf(c) == IF c.op = "case" THEN c.args[1].token ELSE "0"

Unique ==
    \/ /\ Current.do = "unique argument"
       /\ \A k \in DOMAIN nodes[Len(nodes) - 2].args :
              nodes[Len(nodes) - 2].args[k].args[2] # LastNode
    \/ /\ Current.do = "single default"
       /\ \A k \in 2 .. Len(LastNode.args) : LastNode.args[k].op # "default"
    \/ /\ Current.do = "unique case"
       /\ \A k \in 2 .. Len(LastNode.args) : ValueOf(LastNode.args[k]) # top

Checks == {"unique argument", "single default", "unique case"}

Check ==
    /\ \E what \in Checks : Doing(what)
    /\ Unique
    /\ todo' = Tail(todo)
    /\ UNCHANGED <<script, tokens, i, types, nodes, saved, status>>

Fails ==
    \/ Doing("throw")
    \/ Doing("pop") /\ top # Current.arg
    \/ Doing("name") /\ ~IsIdentifierToken(top)
    \/ (\E what \in Checks : Doing(what)) /\ ~Unique

\* throw ParserError, to the try block if one is active, or out of the parser.
Throw ==
    /\ Fails
    /\ IF saved # <<>> /\ Last(saved).try
       THEN /\ RevertTo
            /\ todo' = <<Call("EXPRS")>> \o SubSeq(todo, Len(todo) - Last(saved).after + 1, Len(todo))
            /\ UNCHANGED <<script, tokens, status>>
       ELSE /\ status' = "error"
            /\ UNCHANGED <<script, tokens, i, types, todo, nodes, saved>>

-----------------------------------------------------------------------------

Init == /\ script \in Scripts
        /\ tokens = script.prelude
        /\ i = 1
        /\ types = <<>>
        /\ todo = <<Call("PROGRAM")>>
        /\ nodes = <<Node("program", <<>>)>>
        /\ saved = <<>>
        /\ status = "parsing"

Step == \/ Read \/ Enter \/ PopToken \/ PopLeaf \/ BuildNode \/ AddTypeName
        \/ SavePosition \/ Revert \/ Check \/ Throw

Stopped == status # "parsing" /\ UNCHANGED vars

Next == Step \/ Stopped

Spec == Init /\ [][Next]_vars /\ WF_vars(Step)
=============================================================================
