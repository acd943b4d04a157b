------------------------------- MODULE BackEnd -------------------------------
(***************************************************************************)
(* BackendOptimizer (optimizer/optimizer.h) on a function of T86 code, as  *)
(* the register allocator leaves it: rounds of the peephole optimizer      *)
(* (optimizer/peephole.h), which looks at two instructions at a time, and  *)
(* of the register optimizer (optimizer/reg_optimizer.h), which looks at a *)
(* block, until neither reports a change.                                  *)
(*                                                                         *)
(* One step is one position of the peephole optimizer's window, where each *)
(* rule is tried in turn, or one rule of the register optimizer on one     *)
(* block.                                                                  *)
(***************************************************************************)
EXTENDS Integers, Sequences, SequencesExt

CONSTANT Inputs   \* functions: sequences of blocks, which are sequences of instructions

(* Operands.  Memory is relative to BP: arguments above, variables below.   *)
Imm(k) == <<"imm", k>>
Mem(k) == <<"mem", k>>
Reg(k) == <<"reg", k>>
EAX  == Reg(0)
SP   == <<"SP", 0>>
BP   == <<"BP", 0>>
None == <<"none", 0>>

IsImm(o) == o[1] = "imm"
IsMem(o) == o[1] = "mem"
IsSpecialReg(o) == o \in {EAX, SP, BP}
IsRegister(o) == o[1] = "reg" \/ IsSpecialReg(o)

(* Instructions.  ADD stands for ADD and SUB, MUL for MUL and DIV, JUMP for  *)
(* all that may end a block.  PUSH and POP have their operand as the source.  *)
INSN(op, target, source) == [op |-> op, target |-> target, source |-> source]
NOP == INSN("NOP", None, None)

IsMove(i) == i.op = "MOV"
IsBinary(i) == i.op \in {"MOV", "ADD", "MUL", "CMP"}
IsUnary(i)  == i.op \in {"PUSH", "POP"}

(* computeLiveness: what i reads.  It takes the operand of POP for one that is read. *)
Uses(i) ==
    (IF IsBinary(i) /\ ~IsMove(i) THEN {i.target} ELSE {})
      \cup (IF IsBinary(i) \/ IsUnary(i) THEN {i.source} ELSE {})

Operand == {"imm", "mem", "reg"} \X Int \cup {SP, BP, None}
Instruction ==
    {i \in [op : {"NOP", "MOV", "ADD", "MUL", "CMP", "PUSH", "POP", "CALL", "JUMP"},
            target : Operand, source : Operand] :
        /\ i.op \in {"MOV", "ADD", "MUL"} => IsRegister(i.target) \/ IsMem(i.target)
        /\ i.op = "POP" => IsRegister(i.source)}

IsArgument(o) == IsMem(o) /\ o[2] > 0

(* What the code generator emits, and the allocator keeps: an argument is read  *)
(* once, by the prologue (il_to_t86.h:118), and not after it was written back; a   *)
(* value is moved to EAX once, before the jump that ends the block               *)
(* (il_to_t86.h:281), and from EAX if it is the result of a call; and registers    *)
(* are popped in the epilogue, a block without moves (il_to_t86.h:135).  A general  *)
(* register is copied to itself only where the allocator has freed it while it    *)
(* was shared (`freed' in RegAlloc): such blocks are wrong already, and left out.  *)
MayPrecede(i, j) ==
    IsMove(i) =>
        /\ IsArgument(i.target) => i.target \notin Uses(j)
        /\ j.op = "CALL" => i.target # EAX
        /\ j.op = "POP" => i.target # j.source
        /\ IsMove(j) /\ j.target = j.source => i.target # j.target

IsBlock(b) ==
    /\ b \in Seq(Instruction) /\ b # <<>> /\ b[Len(b)].op = "JUMP"
    /\ \A i, j \in DOMAIN b : i < j => MayPrecede(b[i], b[j])

ASSUME InputsAssumption ==
    \A g \in Inputs : g \in Seq({b \in Seq(Instruction) : IsBlock(b)}) /\ g # <<>>

VARIABLES
  code,      \* the blocks of the function
  bb, pos,   \* bbIndex_ and instrIndex_; the block that the register optimizer is at
  rule,      \* the rule of the register optimizer that is next
  phase,     \* "peephole", "registers", "done"
  changed,   \* whether a rule has reported a change in this round
  input,     \* the function as it was (history)
  cycles     \* whether one of a cycle of moves was removed (history)

vars == <<code, bb, pos, rule, phase, changed, input, cycles>>

-----------------------------------------------------------------------------
(* The peephole optimizer.  Its rules work on [block, changed, cycles]; the  *)
(* window begins at pos.  Every block ends in a jump, no rule is about one: *)
(* the window does not leave the block, nor does the block get empty.      *)

InWindow(s, n) == pos + n \in DOMAIN s.block
Window(s, n) == s.block[pos + n]

\* getIndexesForNthInstr counts from 1 and takes 0 for 1.
IndexOf(n) == IF n > 1 THEN pos + (n - 1) ELSE pos
Removed(s, n) == [s EXCEPT !.block = RemoveAt(@, IndexOf(n))]
Reported(s) == [s EXCEPT !.changed = TRUE]

removeAddSubZero(s) ==
    IF Window(s, 0).op = "ADD" /\ Window(s, 0).source = Imm(0) THEN Reported(Removed(s, 0)) ELSE s

removeNOP(s) == IF Window(s, 0) = NOP THEN Reported(Removed(s, 0)) ELSE s

removeSelfCopy(s) ==
    IF IsMove(Window(s, 0)) /\ Window(s, 0).target = Window(s, 0).source
    THEN Reported(Removed(s, 0)) ELSE s

TwoMoves(s) == InWindow(s, 1) /\ IsMove(Window(s, 0)) /\ IsMove(Window(s, 1))

\* The first of two moves to one place; no change is reported.
removeUnusedMov(s) ==
    IF TwoMoves(s) /\ Window(s, 1).target = Window(s, 0).target THEN Removed(s, 0) ELSE s

\* A load and a store back: one of them is removed, and no change is reported.
removeCyclicMov(s) ==
    IF /\ TwoMoves(s)
       /\ IsMem(Window(s, 0).source)
       /\ Window(s, 1).target = Window(s, 0).source
    THEN [Removed(s, 1) EXCEPT !.cycles = TRUE]
    ELSE s

rules(s) == removeCyclicMov(removeUnusedMov(removeSelfCopy(removeNOP(removeAddSubZero(s)))))

\* The rules at one position, and shift().
Peephole ==
    /\ phase = "peephole"
    /\ \E s \in {rules([block |-> code[bb], changed |-> changed, cycles |-> cycles])} :
         /\ code' = [code EXCEPT ![bb] = s.block]
         /\ changed' = s.changed
         /\ cycles' = s.cycles
         /\ IF pos < Len(s.block)
            THEN pos' = pos + 1 /\ UNCHANGED <<bb, phase>>
            ELSE /\ pos' = 1
                 /\ bb' = IF bb < Len(code) THEN bb + 1 ELSE 1
                 /\ phase' = IF bb < Len(code) THEN phase ELSE "registers"
    /\ UNCHANGED <<rule, input>>

-----------------------------------------------------------------------------
(* The register optimizer.  Its rules map a block to a block.              *)

(* computeLiveness: what is read at j or later, and not moved to before. *)
Live(b, j, o) ==
    \E i \in j..Len(b) : /\ o \in Uses(b[i])
                         /\ \A k \in j..(i - 1) : ~(IsMove(b[k]) /\ b[k].target = o)

(* Slip: a register keeps its immediate when it is computed with. *)
LiveReaches(b, i, j) ==
    \A k \in (i + 1)..j : Live(b, k, b[i].target)

\* The register that b[i] sets still has that value at j, and is read there or later.
Reaches(b, i, j) ==
    \A k \in (i + 1)..j :
        /\ Live(b, k, b[i].target)
        /\ ~(IsBinary(b[k]) /\ b[k].target = b[i].target)

IsImmediateMove(i) == IsMove(i) /\ IsImm(i.source) /\ IsRegister(i.target)

\* The moves of an immediate to the source of b[j], if b[i] now has source[i].
Propagated(b, source, j) ==
    {i \in 1..(j - 1) : /\ IsBinary(b[j]) \/ IsUnary(b[j])
                        /\ IsMove(b[i]) /\ IsRegister(b[i].target)
                        /\ b[i].target = b[j].source
                        /\ IsImm(source[i])
                        /\ Reaches(b, i, j)}

\* What an instruction reads in place of its source.  A move that gets an immediate
\* propagates it in turn, and one register has one value at a time.
Sources(b) ==
    LET source[j \in DOMAIN b] ==
          IF Propagated(b, source, j) = {} THEN b[j].source
          ELSE source[CHOOSE i \in Propagated(b, source, j) : TRUE]
    IN source
propagateImmediates(b) ==
    LET source == Sources(b)
    IN [j \in DOMAIN b |-> [b[j] EXCEPT !.source = source[j]]]

removeUnusedRegisters(b) ==
    [i \in DOMAIN b |->
        IF /\ IsMove(b[i]) /\ IsRegister(b[i].target) /\ ~IsSpecialReg(b[i].target)
           /\ \A j \in (i + 1)..Len(b) : ~Live(b, j, b[i].target)
        THEN NOP ELSE b[i]]

removeFuncArgWrites(b) ==
    [i \in DOMAIN b |->
        IF IsMove(b[i]) /\ IsArgument(b[i].target) THEN NOP ELSE b[i]]

\* rules_, but for one that does nothing yet.  A rule reports a change if it made one.
Rewritten(b) ==
    IF rule = 1 THEN propagateImmediates(b)
    ELSE IF rule = 2 THEN removeUnusedRegisters(b)
    ELSE removeFuncArgWrites(b)

(* Slip: what the register optimizer changes does not lead to another round. *)
ReportsNothing(b, c) == FALSE

Reports(b, c) == b # c

\* The next rule, the next block, or the next round.
RegOptimizer ==
    /\ phase = "registers"
    /\ code' = [code EXCEPT ![bb] = Rewritten(@)]
    /\ rule' = IF rule < 3 THEN rule + 1 ELSE 1
    /\ bb' = IF rule < 3 THEN bb ELSE IF bb < Len(code) THEN bb + 1 ELSE 1
    /\ \E c \in {changed \/ Reports(code[bb], code'[bb])} :
         IF rule < 3 \/ bb < Len(code)
         THEN changed' = c /\ UNCHANGED phase
         ELSE /\ changed' = FALSE
              /\ phase' = IF c THEN "peephole" ELSE "done"
    /\ UNCHANGED <<pos, input, cycles>>

-----------------------------------------------------------------------------
Init ==
    /\ input \in Inputs
    /\ code = input
    /\ bb = 1 /\ pos = 1 /\ rule = 1
    /\ phase = "peephole"
    /\ changed = FALSE
    /\ cycles = FALSE

Done == phase = "done" /\ UNCHANGED vars

Next == Peephole \/ RegOptimizer \/ Done

\* optimize() is called and runs on its own.
Spec == Init /\ [][Next]_vars /\ WF_vars(Peephole \/ RegOptimizer)

-----------------------------------------------------------------------------
(* What a block computes.  Values are terms; a place holds itself at first.  *)

Output == <<"output", 0>>   \* what is compared and pushed, in order
Value(s, o) == IF o \in DOMAIN s THEN s[o] ELSE o
Put(s, o, v) == [x \in DOMAIN s \cup {o} |-> IF x = o THEN v ELSE s[x]]
Computed(op, v, w) == IF op = "ADD" /\ w = Imm(0) THEN v ELSE <<op, 0>> \o v \o w

Execute(s, i) ==
    CASE i.op = "MOV"  -> Put(s, i.target, Value(s, i.source))
      [] i.op \in {"ADD", "MUL"} ->
           Put(s, i.target, Computed(i.op, Value(s, i.target), Value(s, i.source)))
      [] i.op = "CMP"  -> Put(s, Output, Value(s, Output) \o Value(s, i.target) \o Value(s, i.source))
      [] i.op = "PUSH" -> Put(s, Output, Value(s, Output) \o Value(s, i.source))
      [] i.op = "POP"  -> Put(Put(s, i.source, <<"popped", 0>> \o Value(s, Output)), Output, Value(s, Output) \o <<"pop", 0>>)
      [] i.op = "CALL" -> Put(Put(s, EAX, <<"result", 0>> \o Value(s, Output)), Output, Value(s, Output) \o <<"call", 0>>)
      [] OTHER         -> s

\* The states that block b goes through.
States(b) ==
    LET state[k \in 0..Len(b)] == IF k = 0 THEN [o \in {} |-> None] ELSE Execute(state[k - 1], b[k])
    IN state
Meaning(b) == States(b)[Len(b)]

\* What other blocks, and callers, may see of a block: no general register, and no
\* argument, which only the entry block reads.
Outlives(o) == o \in {EAX, SP, BP, Output} \/ (IsMem(o) /\ ~IsArgument(o))

\* The optimized function computes what the allocated one did, in each block, unless
\* a cycle of moves was cut: that takes the load away, where the comment says the
\* store, and what the register held before goes to the variable.
OptimizationKeepsTheMeaning ==
    phase = "done" /\ ~cycles =>
        \A b \in DOMAIN input :
            LET before == Meaning(input[b])
                after  == Meaning(code[b])
            IN \A o \in DOMAIN before \cup DOMAIN after : Outlives(o) => Value(after, o) = Value(before, o)

\* What the register optimizer leaves in one round is cleared away in the next, and
\* there is a last round: optimize() returns, and no instruction without effect and
\* no move of an immediate that nobody reads is left.
IsClean(b) ==
    /\ \A i \in DOMAIN b : b[i] # NOP /\ ~(b[i].op = "ADD" /\ b[i].source = Imm(0))
    /\ \A i \in DOMAIN b : IsImmediateMove(b[i]) /\ ~IsSpecialReg(b[i].target) =>
         \E j \in (i + 1)..Len(b) : Live(b, j, b[i].target)
EndsWithCleanCode == <>(phase = "done" /\ \A b \in DOMAIN code : IsClean(code[b]))
=============================================================================
