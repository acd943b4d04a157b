------------------------------- MODULE Scopes -------------------------------
(***************************************************************************)
(* Which declaration a name means.  The typechecker finds out while it     *)
(* walks the program (frontend/typechecker.h), and the translator to IL    *)
(* does again (optimizer/ast_to_il.h), each with a stack of contexts of    *)
(* its own, and each in an order of its own: nothing is handed over.       *)
(*                                                                         *)
(* Here they walk the program together, one declaration or use at a time;  *)
(* where they differ in the order, the step says so.  That is the same as  *)
(* one after the other: a program is translated if all of it is accepted,  *)
(* and what was accepted so far can be completed.  Types, and variables    *)
(* outside of functions, which the translator has no place for, are left   *)
(* out.                                                                    *)
(***************************************************************************)
EXTENDS Naturals, Sequences, FiniteSetsExt

CONSTANTS Names,            \* identifiers
          Builtin,          \* one of them: scan or print
          MaxDeclarations,  \* bounds: declarations in a program,
          MaxContexts,      \* contexts of the typechecker,
          MaxLoops          \* and loops in one another

ASSUME NamesAssumption == Builtin \in Names

VARIABLES
  declared,    \* the declarations so far, in order: [kind, name, op]
  fun,         \* the function being visited, as a declaration; None between functions
  checked,     \* Typechecker::contexts_
  translated,  \* ASTToILTranslator::contexts_
  loops,       \* loops with a clause that is translated behind the body
  use,         \* the use of a name that the last step visited, or NoUse
  status       \* "running", "rejected" by the typechecker, "aborted" by the translator

vars == <<declared, fun, checked, translated, loops, use, status>>

None == 0
Empty == [n \in {} |-> None]

Declaration(kind, n, op) == [kind |-> kind, name |-> n, op |-> op]

back(contexts) == contexts[Len(contexts)]
popped(contexts) == SubSeq(contexts, 1, Len(contexts) - 1)

\* find() in the contexts from the innermost on, in both classes.
Having(contexts, n) == {k \in DOMAIN contexts : n \in DOMAIN contexts[k]}
getVariable(contexts, n) ==
    IF Having(contexts, n) = {} THEN None ELSE contexts[Max(Having(contexts, n))][n]

\* locals.insert: a name that is there keeps its value.
Insert(context, n, d) == [m \in DOMAIN context \cup {n} |-> IF m \in DOMAIN context THEN context[m] ELSE d]
InsertAt(contexts, k, n, d) == [contexts EXCEPT ![k] = Insert(@, n, d)]
InsertLast(contexts, n, d) == InsertAt(contexts, Len(contexts), n, d)

-----------------------------------------------------------------------------
(* Uses.  A use knows the names that its own statement declares.           *)

Use(n, c, t, own) == [name |-> n, checked |-> c, translated |-> t, own |-> own, in |-> fun]
NoUse == [name |-> Builtin, checked |-> None, translated |-> None, own |-> {}, in |-> None]

\* getVariable of the translator asserts what it found; visit(ASTIdentifier*) that
\* it found something.
Found(d) == d # None /\ declared'[d].op \in {"ALLOCA", "FUN"}
Translated(d) == IF Found(d) THEN "running" ELSE "aborted"

Rejected ==
    /\ status' = "rejected"
    /\ use' = NoUse
    /\ UNCHANGED <<declared, fun, checked, translated, loops>>

-----------------------------------------------------------------------------
(* Functions.                                                              *)

Running == status = "running"

\* The name of a loop's clause is in order before the next statement is visited.
Visiting == Running /\ fun # None /\ ~(\E k \in DOMAIN loops : loops[k].over)
HasRoom == Len(declared) < MaxDeclarations
Next_ == Len(declared) + 1   \* the next declaration

InParameters == Visiting /\ Len(checked) = 2
InBody == Visiting /\ Len(checked) > 2

(* Slip: the translator keeps the names of functions with the function they are in. *)
AddFunctionLast(n) == InsertLast(Append(translated, Empty), n, Next_)

\* enterFunction of the translator: the name goes to the first context there is.
AddFunction(n) == InsertAt(Append(translated, Empty), 1, n, Next_)

EnterFunction(n) ==
    /\ Running /\ fun = None /\ HasRoom
    /\ IF n \in DOMAIN checked[1]
       THEN Rejected
       ELSE /\ declared' = Append(declared, Declaration("function", n, "FUN"))
            /\ fun' = Next_
            /\ checked' = Append(InsertLast(checked, n, Next_), Empty)
            /\ translated' = AddFunction(n)
            /\ use' = NoUse
            /\ UNCHANGED <<loops, status>>

\* A structure is not copied: the name stands for the argument itself.  The parser
\* has seen to it that the parameters of a function differ.
AddParameter(n, op) ==
    /\ InParameters /\ HasRoom
    /\ n \notin DOMAIN back(checked)
    /\ declared' = Append(declared, Declaration("parameter", n, op))
    /\ checked' = InsertLast(checked, n, Next_)
    /\ translated' = InsertLast(translated, n, Next_)
    /\ use' = NoUse
    /\ UNCHANGED <<fun, loops, status>>

\* The body of a function is a block.
EnterBlock ==
    /\ Visiting /\ Len(checked) < MaxContexts
    /\ checked' = Append(checked, Empty)
    /\ translated' = Append(translated, Empty)
    /\ use' = NoUse
    /\ UNCHANGED <<declared, fun, loops, status>>

\* The statement is over, and with it the loops it is the body of.
Completed(own) ==
    [k \in DOMAIN loops |->
        IF loops[k].contexts = Len(checked')
        THEN [loops[k] EXCEPT !.over = TRUE, !.own = own]
        ELSE loops[k]]

(* Slip: the translator drops the context of the function too - and with the context of
   the first function the names of all. *)
WithoutFunction == IF Len(checked) = 3 THEN popped(popped(translated)) ELSE popped(translated)

\* leaveBlock of the translator, whose leaveFunction drops nothing.
WithoutBlock == popped(translated)

\* leaveBlock, and leaveFunction behind the last.
LeaveBlock ==
    /\ InBody
    /\ \A k \in DOMAIN loops : loops[k].contexts # Len(checked)
    /\ IF Len(checked) = 3
       THEN /\ fun' = None
            /\ checked' = popped(popped(checked))
            /\ UNCHANGED loops
       ELSE /\ checked' = popped(checked)
            /\ loops' = Completed({})
            /\ UNCHANGED fun
    /\ translated' = WithoutBlock
    /\ use' = NoUse
    /\ UNCHANGED <<declared, status>>

-----------------------------------------------------------------------------
(* Statements.                                                             *)

\* A name in an expression.
UseName(n) ==
    /\ InBody
    /\ LET c == getVariable(checked, n)
           t == getVariable(translated, n)
       IN IF c = None THEN Rejected
          ELSE /\ UNCHANGED <<declared, fun, checked, translated>>
               /\ use' = Use(n, c, t, {})
               /\ loops' = Completed({})
               /\ status' = Translated(t)

\* A declaration of n without a value, or with one that uses m.  The typechecker
\* visits the value first and then adds n, the translator the other way round.
Declare(n) ==
    /\ InBody /\ HasRoom
    /\ IF n \in DOMAIN back(checked) THEN Rejected
       ELSE /\ declared' = Append(declared, Declaration("local", n, "ALLOCA"))
            /\ checked' = InsertLast(checked, n, Next_)
            /\ translated' = InsertLast(translated, n, Next_)
            /\ loops' = Completed({n})
            /\ use' = NoUse
            /\ UNCHANGED <<fun, status>>

DeclareWithValue(n, m) ==
    /\ InBody /\ HasRoom
    /\ IF getVariable(checked, m) = None \/ n \in DOMAIN back(checked) THEN Rejected
       ELSE /\ declared' = Append(declared, Declaration("local", n, "ALLOCA"))
            /\ checked' = InsertLast(checked, n, Next_)
            /\ translated' = InsertLast(translated, n, Next_)
            /\ LET t == getVariable(translated', m)
               IN /\ use' = Use(m, getVariable(checked, m), t, {n})
                  /\ status' = Translated(t)
            /\ loops' = Completed({n})
            /\ UNCHANGED fun

\* A loop whose body is the next statement, with a name in the condition of a do loop
\* or the increment of a for loop: the typechecker visits them before the body, the
\* translator behind it.
EnterLoop(n) ==
    /\ InBody /\ Len(loops) < MaxLoops
    /\ LET c == getVariable(checked, n)
       IN IF c = None THEN Rejected
          ELSE /\ loops' = Append(loops, [name |-> n, checked |-> c, contexts |-> Len(checked),
                                          own |-> {}, over |-> FALSE])
               /\ use' = NoUse
               /\ UNCHANGED <<declared, fun, checked, translated, status>>

LeaveLoop ==
    /\ Running /\ loops # <<>>
    /\ UNCHANGED <<declared, fun, checked, translated>>
    /\ LET loop == back(loops)
           t == getVariable(translated, loop.name)
       IN /\ loop.over
          /\ use' = Use(loop.name, loop.checked, t, loop.own)
          /\ status' = Translated(t)
    /\ loops' = popped(loops)

-----------------------------------------------------------------------------

Init ==
    /\ declared = <<Declaration("builtin", Builtin, "none")>>
    /\ fun = None
    /\ checked = <<InsertLast(<<Empty>>, Builtin, 1)[1]>>
    /\ translated = <<>>
    /\ loops = <<>>
    /\ use = NoUse
    /\ status = "running"

\* A program may end behind each function.
Stopped == (~Running \/ fun = None) /\ UNCHANGED vars

Next == \/ \E n \in Names : EnterFunction(n) \/ UseName(n) \/ Declare(n) \/ EnterLoop(n)
        \/ \E n \in Names : \E op \in {"ALLOCA", "ARG"} : AddParameter(n, op)
        \/ \E n, m \in Names : DeclareWithValue(n, m)
        \/ EnterBlock \/ LeaveBlock \/ LeaveLoop
        \/ Stopped

Spec == Init /\ [][Next]_vars

-----------------------------------------------------------------------------
(* Properties.                                                             *)

FirstFunction == 2
FunctionOf(d) == Max({f \in 1 .. d : declared[f].kind = "function"})

\* A parameter of a function before the one of the use that the translator has for n.
EarlierParameter(n) ==
    \E p \in DOMAIN declared :
        /\ declared[p].kind = "parameter" /\ declared[p].name = n
        /\ FunctionOf(p) < use.in
        /\ FunctionOf(p) = FirstFunction => declared[FirstFunction].name # n

\* Where the translator is known to find something else: the declaration that the
\* name's own statement makes; a parameter of an earlier function in place of a
\* function; the first function in place of its own parameter.
Differs ==
    \/ use.name \in use.own
    \/ declared[use.checked].kind = "builtin"
    \/ declared[use.checked].kind = "function" /\ EarlierParameter(use.name)
    \/ /\ declared[use.checked].kind = "parameter"
       /\ FunctionOf(use.checked) = FirstFunction
       /\ declared[FirstFunction].name = use.name

(* A name means the same declaration to the typechecker and to the translator,
   although the translator never drops the contexts of functions, adds a variable
   before its value and loops' clauses behind their bodies, and keeps the names of
   all functions in the context of the first - except in the four cases above, where it
   means another one, or none, without fail. *)
UsesBindAsChecked == use # NoUse => (use.translated # use.checked <=> Differs)

(* What the typechecker accepted the translator finds: except for the built-in
   functions, nothing but a structure argument aborts the translation. *)
AcceptedNamesAreFound ==
    status = "aborted" => \/ declared[use.checked].kind = "builtin"
                          \/ use.translated # None /\ declared[use.translated].op = "ARG"
=============================================================================
