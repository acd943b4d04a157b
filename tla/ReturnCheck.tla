---------------------------- MODULE ReturnCheck ----------------------------
(***************************************************************************)
(* How the typechecker (frontend/typechecker.h) decides that a function     *)
(* returns a value on all its paths: it visits the statements in order with *)
(* one flag, returned_.  The flag is a function of the AST, so it is an     *)
(* operator here, applied to the AST of each program the translator reads.  *)
(***************************************************************************)
EXTENDS Lowering

(* How the flags of parts make that of the whole: the statements of a block  *)
(* are visited in turn, and the visit of a loop that tests its condition    *)
(* first restores the flag.  Slip: it does not.                            *)
ReturnedInTurn(flags) == TRUE \in flags
ReturnedInLoopBody(flags) == FALSE \notin flags
ReturnedInLoop(flags) == FALSE

(* Returned(tree)[n]: returned_ after the visit of statement n, if it was    *)
(* FALSE before.  If it was TRUE it stays so: if, while and for put back the *)
(* value they found, and the other statements only ever set it.            *)
Returned(tree) ==
  LET returned[n \in 1..Len(tree)] ==
        LET kind == tree[n].kind
            flags(role) == {returned[m] : m \in Children(tree, n, role)}
        IN CASE kind \in {"return", "return0"} -> TRUE
             [] kind = "if" -> /\ Children(tree, n, "else") # {}
                               /\ FALSE \notin flags("then") \cup flags("else")
             [] kind \in {"while", "for"} -> ReturnedInLoop(flags(kind))
             [] kind = "do" -> FALSE \notin flags("do")
             [] kind = "block" -> ReturnedInTurn(flags("block"))
             [] OTHER -> FALSE
  IN returned

(* visit(ASTFunDecl): a function that is not void is accepted. *)
FunBody(f) == Min(Children(ast, f, "fun"))
Accepted(f) == Returned(ast)[FunBody(f)]

Functions == {n \in 1..Len(ast) : ast[n].kind = "fun"}
LoopJumps(kinds) == {n \in JumpNodes : EnclosingLoop(ast, n) # 0 /\ ast[EnclosingLoop(ast, n)].kind \in kinds}

(* Execution of function f can run into the end of its body. *)
RunsOffTheEnd(f) ==
  LET start == First(ast, FunBody(f))
  IN start = End \/ \E t \in ReachableFlow(SourceFlow(ast), {start}) : t[3] = End

(* The typechecker keeps control from the end of a function that has a value *)
(* to return, where the translator puts a RET without one.  It overlooks    *)
(* only break and continue in a do loop: those get past a return in the     *)
(* body, which it counts as sure.                                           *)
AcceptedFunctionsReturn ==
  status = "done" /\ JumpNodes = LoopJumps({"while", "for"}) =>
    \A f \in Functions : Accepted(f) => ~RunsOffTheEnd(f)
=============================================================================
