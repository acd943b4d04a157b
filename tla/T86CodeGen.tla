------------------------------ MODULE T86CodeGen ------------------------------
(***************************************************************************)
(* T86CodeGen (backend/il_to_t86.h): the order in which IL blocks become    *)
(* T86 code, and the jumps between them.                                   *)
(*                                                                         *)
(* Blocks are compiled from a worklist, functions from another, each once.  *)
(* A branch is compiled to one conditional jump, to its false target: the   *)
(* true target is to be the next block of the text, so it goes to the front *)
(* of the worklist.  One action is one visit() of an IL instruction, or one *)
(* turn of the loops of generate().  Registers and stack slots are left     *)
(* out.                                                                    *)
(***************************************************************************)
EXTENDS IL, Functions

CONSTANT Inputs   \* the programs compiled: records [code, bbs]

(* What the passes before guarantee.  Function f has the blocks bbs[f] to    *)
(* itself and its jumps stay among them; calls name functions.              *)
IsProgram(p) ==
  /\ p.code \in Seq(Seq(Insn))
  /\ p.bbs \in Seq(Seq(1..Len(p.code)) \ {<<>>})
  /\ \A f, g \in 1..Len(p.bbs) : f # g => Range(p.bbs[f]) \cap Range(p.bbs[g]) = {}
  /\ \A f \in 1..Len(p.bbs) : \A b \in Range(p.bbs[f]) :
       /\ WellFormedBlock(p.code[b], Range(p.bbs[f]))
       /\ \A i \in 1..Len(p.code[b]) :
            p.code[b][i].op = "CALL" => p.code[b][i].target1 \in 1..Len(p.bbs)

ASSUME InputsAssumption == \A p \in Inputs : IsProgram(p)

VARIABLES
  code,          \* the IL program: its blocks, and
  bbs,           \* bbs_ of each il::Function
  text,          \* the blocks of p_, in order: function, label, instructions
  fun,           \* ilf_, Null between functions
  cur, pos,      \* the IL block being visited (Null: none) and the next instruction
  bbWorklist, bbVisited,
  funWorklist, funVisited

vars == <<code, bbs, text, fun, cur, pos, bbWorklist, bbVisited, funWorklist, funVisited>>

Block == 1..Len(code)
Fun == 1..Len(bbs)
start(f) == bbs[f][1]

(* Labels: an IL block keeps its name, a function is the first of its        *)
(* blocks, and block k of the text, if no IL block, is FreshLabel(k).       *)
BlockLabel(b) == <<"bb", b>>
FunLabel(f) == <<"function", f>>
FreshLabel(k) == <<"epilogue", k>>

(* A T86 instruction: what it does, for which AST node, where it jumps. *)
T86(op, n, label) == [op |-> op, at |-> n, label |-> label]
NoLabel == <<"none", 0>>

(* Slips: a block is queued again, or where the others are. *)
addToFrontAgain(list, visited, x) == <<x>> \o list
addToBackInstead(list, visited, x) == IF x \in visited THEN list ELSE Append(list, x)

Emit(t, insns) == [t EXCEPT ![Len(t)].insns = @ \o insns]
NewBlock(f, label, insns) == [fun |-> f, label |-> label, insns |-> insns]

addToWorklistBack(list, visited, x)  == IF x \in visited THEN list ELSE Append(list, x)
addToWorklistFront(list, visited, x) == IF x \in visited THEN list ELSE <<x>> \o list
-----------------------------------------------------------------------------
(* constructGlobalMain: the first block calls function m, main, and halts. *)
GlobalMain(m) ==
  NewBlock(Null, FreshLabel(1), <<T86("CALL", 0, FunLabel(m)), T86("HALT", 0, NoLabel)>>)

(* generate(), up to its loop *)
Start(p, m) ==
  /\ code = p.code
  /\ bbs = p.bbs
  /\ text = <<GlobalMain(m)>>
  /\ fun = Null
  /\ cur = Null
  /\ pos = 1
  /\ bbWorklist = <<>>
  /\ bbVisited = {}
  /\ funWorklist = <<m>>
  /\ funVisited = {m}

Init == \E p \in Inputs : \E m \in 1..Len(p.bbs) : Start(p, m)

(* Slips: all blocks are queued; the function stays in the worklist. *)
EnterWholeFunction ==
  /\ fun = Null
  /\ funWorklist # <<>>
  /\ fun' = Head(funWorklist)
  /\ bbWorklist' = bbs[fun']
  /\ bbVisited' = bbVisited \cup Range(bbs[fun'])
  /\ funWorklist' = Tail(funWorklist)
  /\ UNCHANGED <<code, bbs, text, cur, pos, funVisited>>
EnterFunctionAgain ==
  /\ fun = Null
  /\ funWorklist # <<>>
  /\ fun' = Head(funWorklist)
  /\ bbWorklist' = addToWorklistBack(bbWorklist, bbVisited, start(fun'))
  /\ bbVisited' = bbVisited \cup {start(fun')}
  /\ UNCHANGED <<code, bbs, text, cur, pos, funWorklist, funVisited>>

(* The next function of the worklist. *)
EnterFunction ==
  /\ fun = Null
  /\ funWorklist # <<>>
  /\ LET f == Head(funWorklist)
     IN /\ fun' = f
        /\ bbWorklist' = addToWorklistBack(bbWorklist, bbVisited, start(f))
        /\ bbVisited' = bbVisited \cup {start(f)}
  /\ funWorklist' = Tail(funWorklist)
  /\ UNCHANGED <<code, bbs, text, cur, pos, funVisited>>

(* Slip: instructions count from 0. *)
EnterBlockAt0 ==
  /\ fun # Null
  /\ cur = Null
  /\ bbWorklist # <<>>
  /\ cur' = Head(bbWorklist)
  /\ pos' = 0
  /\ bbWorklist' = Tail(bbWorklist)
  /\ text' = Append(text, NewBlock(fun, BlockLabel(cur'), <<>>))
  /\ UNCHANGED <<code, bbs, fun, bbVisited, funWorklist, funVisited>>

(* The next block of the worklist. *)
EnterBlock ==
  /\ fun # Null
  /\ cur = Null
  /\ bbWorklist # <<>>
  /\ cur' = Head(bbWorklist)
  /\ pos' = 1
  /\ bbWorklist' = Tail(bbWorklist)
  /\ text' = Append(text, NewBlock(fun, BlockLabel(cur'), <<>>))
  /\ UNCHANGED <<code, bbs, fun, bbVisited, funWorklist, funVisited>>

LeaveFunction ==
  /\ fun # Null
  /\ cur = Null
  /\ bbWorklist = <<>>
  /\ fun' = Null
  /\ UNCHANGED <<code, bbs, text, cur, pos, bbWorklist, bbVisited, funWorklist, funVisited>>
-----------------------------------------------------------------------------
insn == code[cur][pos]
Visit(ops) == cur # Null /\ insn.op \in ops

(* On to the next instruction of the block. *)
Advance ==
  /\ IF pos = Len(code[cur]) THEN cur' = Null ELSE cur' = cur
  /\ pos' = pos + 1
  /\ UNCHANGED <<code, bbs, fun>>

(* Instructions that do not transfer control; ALLOCA emits nothing. *)
VisitOrdinary ==
  /\ Visit(Ops \ (TerminatorOps \cup {"CALL"}))
  /\ text' = IF insn.op = "ALLOCA" THEN text ELSE Emit(text, <<T86(insn.op, insn.at, NoLabel)>>)
  /\ Advance
  /\ UNCHANGED <<bbWorklist, bbVisited, funWorklist, funVisited>>

(* Slip: the callee is not queued. *)
VisitCALLOnly ==
  /\ Visit({"CALL"})
  /\ text' = Emit(text, <<T86("CALL", insn.at, FunLabel(insn.target1))>>)
  /\ Advance
  /\ UNCHANGED <<bbWorklist, bbVisited, funWorklist, funVisited>>

VisitCALL ==
  /\ Visit({"CALL"})
  /\ text' = Emit(text, <<T86("CALL", insn.at, FunLabel(insn.target1))>>)
  /\ funWorklist' = addToWorklistBack(funWorklist, funVisited, insn.target1)
  /\ funVisited' = funVisited \cup {insn.target1}
  /\ Advance
  /\ UNCHANGED <<bbWorklist, bbVisited>>

VisitJMP ==
  /\ Visit({"JMP"})
  /\ text' = Emit(text, <<T86("JMP", 0, BlockLabel(insn.target1))>>)
  /\ bbWorklist' = addToWorklistBack(bbWorklist, bbVisited, insn.target1)
  /\ bbVisited' = bbVisited \cup {insn.target1}
  /\ Advance
  /\ UNCHANGED <<funWorklist, funVisited>>

(* "compile the true branch - that will be the fallthrough case" *)
VisitBR ==
  /\ Visit({"BR"})
  /\ text' = Emit(text, <<T86("JCC", insn.at, BlockLabel(insn.target2))>>)
  /\ LET front   == addToWorklistFront(bbWorklist, bbVisited, insn.target1)
         visited == bbVisited \cup {insn.target1}
     IN /\ bbWorklist' = addToWorklistBack(front, visited, insn.target2)
        /\ bbVisited' = visited \cup {insn.target2}
  /\ Advance
  /\ UNCHANGED <<funWorklist, funVisited>>

(* RET and RETR jump to an epilogue of their own, right behind them. *)
VisitReturn ==
  /\ Visit({"RET", "RETR"})
  /\ LET epilogue == FreshLabel(Len(text) + 1)
         leave    == <<T86("JMP", 0, epilogue)>>
     IN text' = Append(Emit(text, IF insn.op = "RETR"
                                  THEN <<T86("RETR", insn.at, NoLabel)>> \o leave ELSE leave),
                       NewBlock(fun, epilogue, <<T86("RET", 0, NoLabel)>>))
  /\ Advance
  /\ UNCHANGED <<bbWorklist, bbVisited, funWorklist, funVisited>>

Done == fun = Null /\ funWorklist = <<>>
Stopped == Done /\ UNCHANGED vars

Step == \/ EnterFunction \/ EnterBlock \/ LeaveFunction
        \/ VisitOrdinary \/ VisitCALL \/ VisitJMP \/ VisitBR \/ VisitReturn

Next == Step \/ Stopped

(* The translation is one function call: it keeps going until it returns. *)
Spec == Init /\ [][Next]_vars /\ WF_vars(Step)
-----------------------------------------------------------------------------
Label == {"bb", "function", "epilogue", "none"} \X Nat
T86Insn == [op : Ops \cup {"JCC", "HALT"}, at : Nat, label : Label]
TextBlock == [fun : Nat, label : Label, insns : Seq(T86Insn)]

TypeOK ==
  /\ IsProgram([code |-> code, bbs |-> bbs])
  /\ text \in Seq(TextBlock)
  /\ fun \in Fun \cup {Null}
  /\ cur \in Block \cup {Null}
  /\ pos \in Nat \ {0}
  /\ bbWorklist \in Seq(Block)
  /\ bbVisited \in SUBSET Block
  /\ funWorklist \in Seq(Fun)
  /\ funVisited \in SUBSET Fun

Compiled == {b \in Block : \E k \in 1..Len(text) : text[k].label = BlockLabel(b)}
Waiting == Range(bbWorklist)

(* No block is compiled twice or waits twice, and bbVisited is what was      *)
(* compiled or waits: two equal labels in the text, and the assembler would *)
(* send all jumps to the second.                                           *)
EachBlockOnce ==
  /\ \A j, k \in 1..Len(text) : text[j].label = text[k].label => j = k
  /\ IsInjective(bbWorklist)
  /\ Compiled \cap Waiting = {}
  /\ Compiled \cup Waiting = bbVisited

(* When all is compiled, every label an instruction names is in the text:   *)
(* the assembler looks it up without asking.                               *)
Defined(label) == IF label[1] = "function" THEN \E k \in 1..Len(text) : text[k].fun = label[2]
                                          ELSE \E k \in 1..Len(text) : text[k].label = label
LabelsAreDefined ==
  Done => \A k \in 1..Len(text) : \A i \in 1..Len(text[k].insns) :
            text[k].insns[i].label # NoLabel => Defined(text[k].insns[i].label)

(* Nothing else is compiled: any set of blocks that has the start of each   *)
(* compiled function and is closed under jumps has all compiled blocks.     *)
OnlyReachableBlocks ==
  \A S \in SUBSET Block :
    (\A f \in funVisited : start(f) \in S) /\ (\A b \in S : Successors(code[b]) \subseteq S)
      => bbVisited \subseteq S

(* The branches of the text: text[k] ends in one, to the true target t. *)
BranchTo(k, t) ==
  \E b \in Block : /\ text[k].label = BlockLabel(b)
                   /\ code[b][Len(code[b])].op = "BR"
                   /\ code[b][Len(code[b])].target1 = t

(* Blocks that were named before block k of the text was compiled. *)
NamedBefore(k) ==
  {start(f) : f \in funVisited} \cup
    UNION {Successors(code[b]) : b \in {c \in Block : \E j \in 1..(k - 1) : text[j].label = BlockLabel(c)}}

(* A branch that is the first to name its true target falls through to it,  *)
(* whatever waits in the worklist by then.                                  *)
FallsThroughToNewBlocks ==
  \A k \in 1..(Len(text) - 1) : \A t \in Block :
    BranchTo(k, t) /\ t \notin NamedBefore(k) => text[k + 1].label = BlockLabel(t)

(* The worklists run dry. *)
Terminates == <>Done
=============================================================================
