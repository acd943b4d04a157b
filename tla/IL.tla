--------------------------------- MODULE IL ---------------------------------
(***************************************************************************)
(* The intermediate language of tinycc (optimizer/il.h), as far as control  *)
(* flow goes: instructions, the terminators among them, and basic blocks.   *)
(*                                                                         *)
(* A basic block is the sequence of its instructions and a program is a    *)
(* sequence of blocks: block b is the b-th block the compiler created.     *)
(* What an ordinary instruction computes is left out.  It keeps the AST    *)
(* node it was made for, which is what lets the flow of control of two     *)
(* forms of one program be compared.                                       *)
(***************************************************************************)
EXTENDS Naturals, Sequences

(* nullptr, where the code holds a BasicBlock pointer *)
Null == 0

(* instructions the source program can be seen to execute *)
Visible == {"EXPR", "CALL", "COND", "INIT", "INC"}
TerminatorOps == {"JMP", "BR", "RET", "RETR"}
Ops == Visible \cup {"ALLOCA", "ST"} \cup TerminatorOps

(* at: the AST node; target1, target2: blocks (the callee, for a CALL) *)
Insn == [op : Ops, at : Nat, target1 : Nat, target2 : Nat]

INS(op, n)   == [op |-> op, at |-> n, target1 |-> Null, target2 |-> Null]
CALL(n, f)   == [op |-> "CALL", at |-> n, target1 |-> f, target2 |-> Null]
JMP(b)       == [op |-> "JMP", at |-> 0, target1 |-> b, target2 |-> Null]
BR(n, b, c)  == [op |-> "BR", at |-> n, target1 |-> b, target2 |-> c]
RET          == INS("RET", 0)
RETR(n)      == INS("RETR", n)

IsTerminator(i) == i.op \in TerminatorOps

(* BasicBlock::terminated() *)
terminated(block) == block # <<>> /\ IsTerminator(block[Len(block)])

(* the blocks a terminator names *)
Targets(i) == CASE i.op = "JMP" -> {i.target1}
                [] i.op = "BR"  -> {i.target1, i.target2}
                [] OTHER        -> {}

Successors(block) == IF terminated(block) THEN Targets(block[Len(block)]) ELSE {}

(* Slip: any terminator on its own. *)
IsTerminatorOnly(block) == Len(block) = 1 /\ terminated(block)

(* A block that is only a jump: MiddleEndOptimizer removes those. *)
IsJumpOnly(block) == Len(block) = 1 /\ block[1].op = "JMP"

(* Some blocks do nothing but jump to one another. *)
JumpCycle(code) ==
  \E S \in SUBSET {b \in DOMAIN code : IsJumpOnly(code[b])} :
    S # {} /\ \A b \in S : code[b][1].target1 \in S

(***************************************************************************)
(* What the translator guarantees of a finished program, and every later   *)
(* pass relies on: each block has one terminator, at its end, and the      *)
(* blocks it names exist.                                                  *)
(***************************************************************************)
OneTerminatorLast(block) ==
  \A i \in 1..Len(block) : IsTerminator(block[i]) => i = Len(block)

WellFormedBlock(block, blocks) ==
  /\ terminated(block)
  /\ OneTerminatorLast(block)
  /\ Successors(block) \subseteq blocks

WellFormed(code) == \A b \in 1..Len(code) : WellFormedBlock(code[b], 1..Len(code))
=============================================================================
