------------------------------ MODULE Lowering ------------------------------
(***************************************************************************)
(* What the translation of statements promises: the basic blocks do what   *)
(* the source program says.  The reading of the source program is that of  *)
(* ControlFlow.                                                            *)
(***************************************************************************)
EXTENDS ASTToIL, ControlFlow

JumpNodes == {n \in 1..Len(ast) : ast[n].kind \in {"break", "continue"}}

(* A loop inside jump n's own loop that was complete before n, in a context  *)
(* n's context is or was copied from: what the context at n still names.    *)
(* The context of a statement is that of the block around it.              *)
StaleIn(tree, n) ==
  \E m \in (EnclosingLoop(tree, n) + 1)..(n - 1) :
    /\ tree[m].kind \in Loops
    /\ ~Inside(tree, n, m)
    /\ Inside(tree, n, EnclosingBlock(tree, m))

Stale(n) == StaleIn(ast, n)

(* continue in a while loop goes to the body instead of the condition. *)
ContinuesWhile(n) ==
  ast[n].kind = "continue" /\ EnclosingLoop(ast, n) # 0 /\ ast[EnclosingLoop(ast, n)].kind = "while"

(* The jumps whose target the translator gets right. *)
JumpsAreClean == \A n \in JumpNodes : ~Stale(n) /\ ~ContinuesWhile(n)

(* The whole point of the translation: but for the two kinds of jump named  *)
(* above, each expression, condition and return of a finished program is    *)
(* followed by exactly what the source program says, on each outcome of a   *)
(* condition, and each function starts with its first statement.           *)
FlowIsPreserved ==
  status = "done" /\ JumpsAreClean =>
    /\ CodeFlow(code) = SourceFlow(ast)
    /\ {BlockStart(code, entries[f]) : f \in 1..Len(entries)} = SourceStarts(ast)

(* What the translator has no code for.  A return without a value has no    *)
(* child to visit.                                                         *)
Untranslatable == {"unsupported", "return0"}

(* But for what it has no code for, only a jump outside any loop stops the  *)
(* translator: no nesting of other statements fails an assertion on a       *)
(* block.  What stops it never gets through, except that a jump outside any *)
(* loop does when an earlier loop of the same context left its targets.     *)
AbortsOnlyForStrayJumps ==
  /\ status = "aborted" =>
       LET n == Len(ast)
       IN \/ ast[n].kind \in Untranslatable
          \/ ast[n].kind \in {"break", "continue"} /\ EnclosingLoop(ast, n) = 0
  /\ status = "done" =>
       /\ \A n \in 1..Len(ast) : ast[n].kind \notin Untranslatable
       /\ \A n \in JumpNodes : EnclosingLoop(ast, n) # 0 \/ Stale(n)
=============================================================================
