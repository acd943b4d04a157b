---------------------------- MODULE Compilation ----------------------------
(***************************************************************************)
(* What the passes promise together: the T86 code does what the source     *)
(* program says.  The code is read the way the machine runs it: block after *)
(* block, a label standing for the block the assembler resolves it to.      *)
(***************************************************************************)
EXTENDS Compiler, Lowering

(* The block a label stands for: a function's label is its first block.     *)
Position(label) ==
  CHOOSE k \in 1..Len(text) :
    IF label[1] = "function"
    THEN text[k].fun = label[2] /\ text[k - 1].fun # label[2]
    ELSE text[k].label = label

(* Nothing can be seen of these instructions, nor of the end of a block. *)
TextPlaces == UNION {{k} \X (1..(Len(text[k].insns) + 1)) : k \in 1..Len(text)}
AtEnd(q) == q[2] = Len(text[q[1]].insns) + 1
TextInsn(q) == text[q[1]].insns[q[2]]
QuietOps == {"ST", "JCC", "JMP"}

TextStep ==
  [q \in {p \in TextPlaces : AtEnd(p) \/ TextInsn(p).op \in QuietOps} |->
     IF AtEnd(q) THEN <<q[1] + 1, 1>>
     ELSE IF TextInsn(q).op = "JMP" THEN <<Position(TextInsn(q).label), 1>>
     ELSE <<q[1], q[2] + 1>>]

(* What the machine can next be seen to do, from instruction i of block k on. *)
TextPoint(k, i) ==
  LET q == Walk(TextStep, <<k, i>>)
  IN IF q \in DOMAIN TextStep THEN Spin
     ELSE IF q \notin TextPlaces \/ TextInsn(q).op = "HALT" THEN Stuck
     ELSE <<TextInsn(q).at, TextInsn(q).op>>

At(label) == TextPoint(Position(label), 1)

(* COND compares; the jump on false is right behind it. *)
TextFlowAt(k, i) ==
  LET insn == text[k].insns[i]
  IN CASE insn.op = "COND" ->
            {<< <<insn.at, "COND">>, "T", TextPoint(k, i + 2)>>,
             << <<insn.at, "COND">>, "F", At(text[k].insns[i + 1].label)>>}
       [] insn.op \in Visible \ {"COND"} /\ k > 1 ->
            {<< <<insn.at, insn.op>>, "", TextPoint(k, i + 1)>>}
       [] OTHER -> {}

TextFlow == UNION {UNION {TextFlowAt(k, i) : i \in 1..Len(text[k].insns)} : k \in 1..Len(text)}

(* The first points of the functions that are compiled. *)
FunNodes == {n \in 1..Len(ast) : ast[n].kind = "fun"}
FunNode(f) == CHOOSE n \in FunNodes : Cardinality({m \in FunNodes : m <= n}) = f
SourceStart(f) == First(ast, Min(Children(ast, FunNode(f), "fun")))

(* A condition of node n leads, when true, to something not compiled yet: a *)
(* point inside the statement it guards.  After a do loop it never does.    *)
Guarded(n) == Min({m \in 1..Len(ast) : ast[m].parent = n /\ ast[m].role # "else"})
FreshWhenTrue(n) ==
  /\ ast[n].kind # "do"
  /\ ast[n].kind \in {"if", "while", "for"} => Inside(ast, First(ast, Guarded(n))[1], Guarded(n))

BranchesAreFresh == \A n \in 1..Len(ast) : FreshWhenTrue(n)

(***************************************************************************)
(* Properties                                                              *)
(***************************************************************************)

(* End to end: where the jumps of the source are among those the translator *)
(* gets right, and each true condition leads somewhere new, the T86 code of  *)
(* every function does exactly what its source says.                       *)
CompiledFlowIsSourceFlow ==
  Compiled /\ JumpsAreClean /\ BranchesAreFresh =>
    \A f \in funVisited :
      /\ At(CodeGen!FunLabel(f)) = SourceStart(f)
      /\ ReachableFlow(TextFlow, {SourceStart(f)}) = ReachableFlow(SourceFlow(ast), {SourceStart(f)})

(* The optimizer returns, if the jumps of the program are clean. *)
CleanProgramsAreOptimized ==
  (phase = "optimize" /\ JumpsAreClean) ~> phase = "generate"
=============================================================================
