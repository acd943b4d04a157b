------------------------------- MODULE ASTToIL -------------------------------
(***************************************************************************)
(* ASTToILTranslator (optimizer/ast_to_il.h): the visitor that lowers the   *)
(* statements of a function to basic blocks.                               *)
(*                                                                         *)
(* The visitor is recursive.  Its stack of active visit() calls is `visits`,*)
(* one frame for each, with the blocks the call keeps in its local          *)
(* variables.  One action is the part of a visit() call between two         *)
(* visits of statements: entering a node, going from one child to the next, *)
(* and leaving it.  The source program is not fixed in advance: wherever    *)
(* the visitor is about to look at a child statement, every statement the   *)
(* grammar allows there is tried, and `ast` records the choice.  Expressions*)
(* hold no statements, so translating one is a single instruction here; a   *)
(* statement with one the visitor cannot translate is a kind of its own.    *)
(***************************************************************************)
EXTENDS IL, SequencesExt

CONSTANTS Statements,    \* the kinds of statement the source programs use
          MaxNodes,      \* bound: no statement but {} once the AST has this many nodes
          MaxFunctions   \* bound: functions in a program

Compound == {"block", "if", "while", "do", "for"}
Loops == {"while", "do", "for"}
Simple == {"expr", "call", "decl", "declinit", "break", "continue", "return", "return0", "unsupported"}

ASSUME StatementsAssumption == {"block"} \subseteq Statements /\ Statements \subseteq Compound \cup Simple
ASSUME BoundsAssumption == MaxNodes \in Nat /\ MaxFunctions \in Nat \ {0}

VARIABLES
  ast,       \* the source program seen so far: kind, parent and role of each node
  code,      \* the basic blocks, in order of creation
  entries,   \* entry block of each function
  bb,        \* bb_: the block instructions are appended to
  contexts,  \* contexts_
  visits,    \* the active visit() calls, innermost last
  status     \* "translating", "done" or "aborted" (an assert, an exception or a null child)

vars == <<ast, code, entries, bb, contexts, visits, status>>

Roles == {"fun", "block", "then", "else", "while", "do", "for"}

(* struct Context: the part of it that control flow depends on *)
Context(locals, first, brk, cont) ==
  [localsBlock |-> locals, firstBB |-> first, breakBlock |-> brk, continueBlock |-> cont]

(* A visit() call in progress at AST node `at`: `done` when it has visited   *)
(* its child; cond, alt and merge are the blocks it will need again.         *)
Frame(at, role, done, cond, alt, merge) ==
  [at |-> at, role |-> role, done |-> done, cond |-> cond, alt |-> alt, merge |-> merge]

Top == Last(visits)
Node(kind) == [kind |-> kind, parent |-> Top.at, role |-> Top.role]
ThisNode == Len(ast) + 1

currentContext == Last(contexts)

(* Slip: one block too few. *)
addFewerBasicBlocks(c, k) == c \o [i \in 1..(k - 1) |-> <<>>]

(* Function::addBasicBlock, k times *)
addBasicBlocks(c, k) == c \o [i \in 1..k |-> <<>>]
(* BasicBlock::append *)
append(c, b, i) == [c EXCEPT ![b] = Append(@, i)]

(* translate(ast->cond), and the branch on it *)
branch(c, b, n, then, else) == append(append(c, b, INS("COND", n)), b, BR(n, then, else))
-----------------------------------------------------------------------------
Init ==
  /\ ast = <<>>
  /\ code = <<>>
  /\ entries = <<>>
  /\ bb = Null
  /\ contexts = <<>>
  /\ visits = <<>>
  /\ status = "translating"

(* A statement of this kind is the next child of the innermost visit. *)
Visiting(kind) ==
  /\ status = "translating"
  /\ visits # <<>>
  /\ kind \in Statements
  /\ Top.role = "fun" => kind = "block"
  /\ Top.role = "block" \/ ~Top.done
  /\ Len(ast) < MaxNodes \/ (kind = "block" /\ Top.role # "block")

(* The child of the innermost visit, if it is of this role, is translated. *)
Visited(role) ==
  /\ status = "translating"
  /\ visits # <<>>
  /\ Top.role = role
  /\ role = "block" \/ Top.done

ChildDone == [visits EXCEPT ![Len(visits)].done = TRUE]
VisitSimple(kind) == /\ ast' = Append(ast, Node(kind))
                     /\ visits' = ChildDone
VisitCompound(kind, frame) == /\ ast' = Append(ast, Node(kind))
                              /\ visits' = Append(ChildDone, frame)
-----------------------------------------------------------------------------
(* visit(ASTFunDecl) up to its body.  Arguments are copied to locals. *)
EnterFunction(args) ==
  /\ status = "translating"
  /\ visits = <<>>
  /\ Len(entries) < MaxFunctions
  /\ LET entry == Len(code) + 1
         more  == addBasicBlocks(code, 1)
     IN /\ code' = IF args THEN append(append(more, entry, INS("ALLOCA", 0)), entry, INS("ST", 0))
                            ELSE more
        /\ entries' = Append(entries, entry)
        /\ bb' = entry
        /\ contexts' = Append(contexts, Context(entry, Null, Null, Null))
  /\ ast' = Append(ast, [kind |-> "fun", parent |-> 0, role |-> "program"])
  /\ visits' = <<Frame(ThisNode, "fun", FALSE, Null, Null, Null)>>
  /\ UNCHANGED status

(* The end of visit(ASTFunDecl), with leaveFunction; contexts_ is not popped. *)
LeaveFunction ==
  /\ Visited("fun")
  /\ code' = IF terminated(code[bb]) THEN code ELSE append(code, bb, RET)
  /\ visits' = <<>>
  /\ UNCHANGED <<ast, entries, bb, contexts, status>>

Finish ==
  /\ status = "translating"
  /\ visits = <<>>
  /\ entries # <<>>
  /\ status' = "done"
  /\ UNCHANGED <<ast, code, entries, bb, contexts, visits>>
-----------------------------------------------------------------------------
(* Slips: variables and statements share a block; the loop around is lost. *)
enterSharedBlock(locals, first) ==
  Append(contexts, Context(first, first, currentContext.breakBlock, currentContext.continueBlock))
enterFreshBlock(locals, first) == Append(contexts, Context(locals, first, Null, Null))

(* enterBlock: the block's variables get a basic block of their own *)
enterBlock(locals, first) ==
  Append(contexts, Context(locals, first, currentContext.breakBlock, currentContext.continueBlock))

(* Slip: the blocks are swapped. *)
enterSwappedLoop(cont, brk) ==
  [contexts EXCEPT ![Len(contexts)].continueBlock = brk, ![Len(contexts)].breakBlock = cont]

(* enterLoopBasicBlock: what it does to the current context *)
enterLoopBasicBlock(cont, brk) ==
  [contexts EXCEPT ![Len(contexts)].continueBlock = cont, ![Len(contexts)].breakBlock = brk]

(* visit(ASTBlock) up to its first statement *)
VisitBlock ==
  /\ Visiting("block")
  /\ LET locals == Len(code) + 1
         first  == Len(code) + 2
         more   == addBasicBlocks(code, 2)
     IN /\ code' = IF terminated(code[bb]) THEN more ELSE append(more, bb, JMP(locals))
        /\ bb' = first
        /\ contexts' = enterBlock(locals, first)
  /\ VisitCompound("block", Frame(ThisNode, "block", FALSE, Null, Null, Null))
  /\ UNCHANGED <<entries, status>>

(* Slip: the variables' block gets no jump. *)
LeaveBlockOpen ==
  /\ Visited("block")
  /\ contexts' = Front(contexts)
  /\ visits' = Front(visits)
  /\ UNCHANGED <<ast, code, entries, bb, status>>

(* leaveBlock *)
LeaveBlock ==
  /\ Visited("block")
  /\ code' = append(code, currentContext.localsBlock, JMP(currentContext.firstBB))
  /\ contexts' = Front(contexts)
  /\ visits' = Front(visits)
  /\ UNCHANGED <<ast, entries, bb, status>>

(* visit(ASTIf): the condition, then the true case *)
VisitIf ==
  /\ Visiting("if")
  /\ LET then  == Len(code) + 1
         else  == Len(code) + 2
         merge == Len(code) + 3
     IN /\ code' = branch(addBasicBlocks(code, 3), bb, ThisNode, then, else)
        /\ bb' = then
        /\ VisitCompound("if", Frame(ThisNode, "then", FALSE, Null, else, merge))
  /\ UNCHANGED <<entries, contexts, status>>

(* ... after the true case: the false case, if there is one *)
EndThen(falseCase) ==
  /\ Visited("then")
  /\ code' = append(code, bb, JMP(Top.merge))
  /\ bb' = Top.alt
  /\ visits' = Append(Front(visits), Frame(Top.at, "else", ~falseCase, Null, Null, Top.merge))
  /\ UNCHANGED <<ast, entries, contexts, status>>

(* ... after the false case *)
EndIf ==
  /\ Visited("else")
  /\ code' = append(code, bb, JMP(Top.merge))
  /\ bb' = Top.merge
  /\ visits' = Front(visits)
  /\ UNCHANGED <<ast, entries, contexts, status>>

(* visit(ASTWhile): the condition, then the body.  The block that continue *)
(* is to jump to is the body.                                              *)
VisitWhile ==
  /\ Visiting("while")
  /\ LET cond  == Len(code) + 1
         body  == Len(code) + 2
         merge == Len(code) + 3
     IN /\ code' = branch(append(addBasicBlocks(code, 3), bb, JMP(cond)),
                          cond, ThisNode, body, merge)
        /\ contexts' = enterLoopBasicBlock(body, merge)
        /\ bb' = body
        /\ VisitCompound("while", Frame(ThisNode, "while", FALSE, cond, Null, merge))
  /\ UNCHANGED <<entries, status>>

EndWhile ==
  /\ Visited("while")
  /\ code' = append(code, bb, JMP(Top.cond))
  /\ bb' = Top.merge
  /\ visits' = Front(visits)
  /\ UNCHANGED <<ast, entries, contexts, status>>

(* visit(ASTDoWhile): the body, then the condition *)
VisitDoWhile ==
  /\ Visiting("do")
  /\ LET body  == Len(code) + 1
         cond  == Len(code) + 2
         merge == Len(code) + 3
     IN /\ code' = append(addBasicBlocks(code, 3), bb, JMP(body))
        /\ contexts' = enterLoopBasicBlock(cond, merge)
        /\ bb' = body
        /\ VisitCompound("do", Frame(ThisNode, "do", FALSE, cond, body, merge))
  /\ UNCHANGED <<entries, status>>

EndDoWhile ==
  /\ Visited("do")
  /\ code' = branch(append(code, bb, JMP(Top.cond)), Top.cond, Top.at, Top.alt, Top.merge)
  /\ bb' = Top.merge
  /\ visits' = Front(visits)
  /\ UNCHANGED <<ast, entries, contexts, status>>

(* visit(ASTFor): init (which may declare the loop variable in the block    *)
(* around the loop), the condition, the body, then the increment            *)
VisitFor(declares) ==
  /\ Visiting("for")
  /\ LET cond  == Len(code) + 1
         inc   == Len(code) + 2
         body  == Len(code) + 3
         merge == Len(code) + 4
         alloc == IF declares
                  THEN append(code, currentContext.localsBlock, INS("ALLOCA", ThisNode))
                  ELSE code
         init  == append(alloc, bb, INS("INIT", ThisNode))
     IN /\ code' = branch(append(addBasicBlocks(init, 4), bb, JMP(cond)),
                          cond, ThisNode, body, merge)
        /\ contexts' = enterLoopBasicBlock(inc, merge)
        /\ bb' = body
        /\ VisitCompound("for", Frame(ThisNode, "for", FALSE, cond, inc, merge))
  /\ UNCHANGED <<entries, status>>

EndFor ==
  /\ Visited("for")
  /\ code' = append(append(append(code, bb, JMP(Top.alt)), Top.alt, INS("INC", Top.at)),
                    Top.alt, JMP(Top.cond))
  /\ bb' = Top.merge
  /\ visits' = Front(visits)
  /\ UNCHANGED <<ast, entries, contexts, status>>
-----------------------------------------------------------------------------
(* break and continue jump to the block their context names, and the rest  *)
(* of the block goes to a new, unreachable one.  Without a block to jump to *)
(* the assertion fails.                                                    *)
JumpTo(kind, target) ==
  /\ Visiting(kind)
  /\ IF target = Null
     THEN /\ status' = "aborted"
          /\ UNCHANGED <<code, bb>>
     ELSE /\ code' = append(addBasicBlocks(code, 1), bb, JMP(target))
          /\ bb' = Len(code) + 1
          /\ UNCHANGED status
  /\ VisitSimple(kind)
  /\ UNCHANGED <<entries, contexts>>

Break    == JumpTo("break", currentContext.breakBlock)
Continue == JumpTo("continue", currentContext.continueBlock)

(* visit(ASTReturn); the rest of the block goes to a new, unreachable one *)
Return ==
  /\ Visiting("return")
  /\ code' = append(append(addBasicBlocks(code, 1), bb, INS("EXPR", ThisNode)),
                    bb, RETR(ThisNode))
  /\ bb' = Len(code) + 1
  /\ VisitSimple("return")
  /\ UNCHANGED <<entries, contexts, status>>

(* visit(ASTReturn) without a value: translate() dereferences a null child *)
ReturnNothing ==
  /\ Visiting("return0")
  /\ status' = "aborted"
  /\ VisitSimple("return0")
  /\ UNCHANGED <<code, entries, bb, contexts>>

(* What the typechecker accepts and the visitor cannot translate stops it:  *)
(* the visit() that are NOT_IMPLEMENTED (string literals, the other binary  *)
(* operators, ++ and -- behind an operand, indexing, members, casts, print  *)
(* and scan), a unary operator but minus, and operands of different register *)
(* types.  It is met at once in a statement ...                             *)
Unsupported ==
  /\ Visiting("unsupported")
  /\ status' = "aborted"
  /\ VisitSimple("unsupported")
  /\ UNCHANGED <<code, entries, bb, contexts>>

(* ... and behind the body in the condition of a do loop and the increment  *)
(* of a for loop, which then has a second child.                           *)
UnsupportedEnd ==
  /\ Visited("do") \/ Visited("for")
  /\ "unsupported" \in Statements
  /\ status' = "aborted"
  /\ VisitSimple("unsupported")
  /\ UNCHANGED <<code, entries, bb, contexts>>

(* an expression statement the visitor can translate *)
Expression ==
  /\ Visiting("expr")
  /\ code' = append(code, bb, INS("EXPR", ThisNode))
  /\ VisitSimple("expr")
  /\ UNCHANGED <<entries, bb, contexts, status>>

(* visit(ASTCall) of a function declared so far *)
Call(f) ==
  /\ Visiting("call")
  /\ code' = append(code, bb, CALL(ThisNode, f))
  /\ VisitSimple("call")
  /\ UNCHANGED <<entries, bb, contexts, status>>

(* visit(ASTVarDecl): ALLOCA goes to the locals block of the context *)
VarDecl(kind) ==
  /\ Visiting(kind)
  /\ LET alloc == append(code, currentContext.localsBlock, INS("ALLOCA", ThisNode))
     IN code' = IF kind = "declinit" THEN append(alloc, bb, INS("EXPR", ThisNode)) ELSE alloc
  /\ VisitSimple(kind)
  /\ UNCHANGED <<entries, bb, contexts, status>>
-----------------------------------------------------------------------------
(* The compiler is done with the translation. *)
Stopped == status # "translating" /\ UNCHANGED vars

Step ==
  \/ \E args \in BOOLEAN : EnterFunction(args)
  \/ LeaveFunction
  \/ VisitBlock \/ LeaveBlock
  \/ VisitIf \/ (\E falseCase \in BOOLEAN : EndThen(falseCase)) \/ EndIf
  \/ VisitWhile \/ EndWhile
  \/ VisitDoWhile \/ EndDoWhile
  \/ (\E declares \in BOOLEAN : VisitFor(declares)) \/ EndFor
  \/ Break \/ Continue
  \/ Return \/ ReturnNothing
  \/ Unsupported \/ UnsupportedEnd
  \/ Expression \/ (\E f \in 1..Len(entries) : Call(f))
  \/ (\E kind \in {"decl", "declinit"} : VarDecl(kind))
  \/ Finish

Next == Step \/ Stopped

Spec == Init /\ [][Next]_vars
-----------------------------------------------------------------------------
NodeType == [kind : Compound \cup Simple \cup {"fun"}, parent : Nat, role : Roles \cup {"program"}]
FrameType == [at : Nat \ {0}, role : Roles, done : BOOLEAN, cond : Nat, alt : Nat, merge : Nat]
ContextType == [localsBlock : Nat, firstBB : Nat, breakBlock : Nat, continueBlock : Nat]

(* The types of the variables; a pointer to a block is null or a block made *)
(* so far.                                                                 *)
TypeOK ==
  /\ ast \in Seq(NodeType)
  /\ code \in Seq(Seq(Insn))
  /\ entries \in Seq(1..Len(code))
  /\ bb \in 0..Len(code)
  /\ contexts \in Seq(ContextType)
  /\ visits \in Seq(FrameType)
  /\ status \in {"translating", "done", "aborted"}

(* "adding it to the current basic block, which should not be terminated"   *)
(* (operator +=; enterBasicBlock asserts it): whatever the nesting, neither *)
(* the block instructions go to nor a locals block that is still to get its *)
(* variables and its jump has a terminator, and no block has one in the     *)
(* middle.                                                                 *)
NeverPastATerminator ==
  /\ \A b \in 1..Len(code) : OneTerminatorLast(code[b])
  /\ visits # <<>> => ~terminated(code[bb])
  /\ \A i \in 1..Len(contexts) : contexts[i].firstBB # Null => ~terminated(code[contexts[i].localsBlock])

(* The function a block belongs to. *)
FunctionOf(b) == CHOOSE f \in 1..Len(entries) :
  /\ entries[f] <= b
  /\ f < Len(entries) => b < entries[f + 1]

(* A finished translation is a well-formed program, and no jump leaves its  *)
(* function: later passes follow block pointers without looking.            *)
FinishedProgramIsWellFormed ==
  status = "done" =>
    /\ WellFormed(code)
    /\ \A b \in 1..Len(code) : \A t \in Successors(code[b]) : FunctionOf(t) = FunctionOf(b)
=============================================================================
