------------------------------ MODULE Compiler ------------------------------
(***************************************************************************)
(* compile() (main.cpp): the passes from the AST to T86 code, one after     *)
(* another, each working on what the one before left.                      *)
(*                                                                         *)
(* The translator and the optimizer share the blocks of il::Program; the   *)
(* code generator follows the pointers in them, from the first block each   *)
(* function still has.  The interpreter, which only runs the program in     *)
(* between, and the passes behind the code generator are left out.         *)
(***************************************************************************)
EXTENDS ASTToIL

VARIABLES
  phase,                                             \* the pass that is running
  input, blocks, redundantBlocks, changed, pass,     \* the optimizer's, without code
  bbs, text, fun, cur, pos,                          \* the code generator's
  bbWorklist, bbVisited, funWorklist, funVisited

toILVars == <<ast, entries, bb, contexts, visits, status>>
middleVars == <<input, blocks, redundantBlocks, changed, pass>>
codeGenVars == <<bbs, text, fun, cur, pos, bbWorklist, bbVisited, funWorklist, funVisited>>
compilerVars == <<phase, code, toILVars, middleVars, codeGenVars>>

Middle  == INSTANCE MiddleEnd WITH Inputs <- {}
CodeGen == INSTANCE T86CodeGen WITH Inputs <- {}
-----------------------------------------------------------------------------
CompilerInit ==
  /\ phase = "translate"
  /\ Init
  /\ input = <<>> /\ blocks = {} /\ redundantBlocks = <<>> /\ changed = FALSE /\ pass = "identify"
  /\ bbs = <<>> /\ text = <<>> /\ fun = Null /\ cur = Null /\ pos = 1
  /\ bbWorklist = <<>> /\ bbVisited = {} /\ funWorklist = <<>> /\ funVisited = {}

(* ASTToILTranslator::translateProgram *)
Translate ==
  /\ phase = "translate"
  /\ Step
  /\ UNCHANGED <<phase, middleVars, codeGenVars>>

(* Optimizer::optimize is called with the translated program. *)
BeginOptimize ==
  /\ phase = "translate"
  /\ status = "done"
  /\ phase' = "optimize"
  /\ input' = code
  /\ blocks' = 1..Len(code)
  /\ redundantBlocks' = [b \in {} |-> Null]
  /\ changed' = FALSE
  /\ pass' = "identify"
  /\ UNCHANGED <<code, toILVars, codeGenVars>>

Optimize ==
  /\ phase = "optimize"
  /\ Middle!Step
  /\ UNCHANGED <<phase, toILVars, codeGenVars>>

(* Slip: one block too many. *)
BlocksAndOneOf(f) ==
  {b \in blocks : entries[f] <= b /\ (f < Len(entries) => b <= entries[f + 1])}

BlocksOf(f) ==
  {b \in blocks : entries[f] <= b /\ (f < Len(entries) => b < entries[f + 1])}

(* Function::bbs_: the blocks of f that are left, in order of creation.     *)
(* Those before the k-th are k - 1.                                        *)
bbsOf(f) == [k \in 1..Cardinality(BlocksOf(f)) |->
               CHOOSE b \in BlocksOf(f) : Cardinality({c \in BlocksOf(f) : c < b}) = k - 1]

(* T86CodeGen::translateProgram is called; function m is the one named main. *)
BeginCodeGen(m) ==
  /\ phase = "optimize"
  /\ pass = "done"
  /\ phase' = "generate"
  /\ bbs' = [f \in 1..Len(entries) |-> bbsOf(f)]
  /\ text' = <<CodeGen!GlobalMain(m)>>
  /\ fun' = Null /\ cur' = Null /\ pos' = 1
  /\ bbWorklist' = <<>> /\ bbVisited' = {}
  /\ funWorklist' = <<m>> /\ funVisited' = {m}
  /\ UNCHANGED <<code, toILVars, middleVars>>

Generate ==
  /\ phase = "generate"
  /\ CodeGen!Step
  /\ UNCHANGED <<phase, toILVars, middleVars>>

Compiled == phase = "generate" /\ CodeGen!Done
Aborted == status = "aborted"
CompilerStopped == (Compiled \/ Aborted) /\ UNCHANGED compilerVars

CompilerStep ==
  \/ Translate \/ BeginOptimize \/ Optimize
  \/ (\E m \in 1..Len(entries) : BeginCodeGen(m)) \/ Generate

CompilerNext == CompilerStep \/ CompilerStopped

(* A pass that was called keeps going until it returns.  The source program *)
(* need not ever be complete, so nothing is asked of Translate.             *)
CompilerSpec ==
  /\ CompilerInit /\ [][CompilerNext]_compilerVars
  /\ WF_compilerVars(BeginOptimize \/ Optimize)
  /\ WF_compilerVars((\E m \in 1..Len(entries) : BeginCodeGen(m)) \/ Generate)
-----------------------------------------------------------------------------
(* What each pass assumes of the program, the passes before it provide: the *)
(* translator hands over a well-formed program, and what the optimizer has  *)
(* left of it still has a first block and a terminator everywhere, jumps    *)
(* that stay among the blocks of their function, and calls that name one.  *)
PassesGetWhatTheyAssume ==
  /\ phase = "optimize" => input \in Seq(Seq(Insn)) /\ WellFormed(input)
  /\ phase = "generate" => CodeGen!IsProgram([code |-> code, bbs |-> bbs])
=============================================================================
