------------------------------ MODULE RegAlloc ------------------------------
(***************************************************************************)
(* BeladyRegAllocator (backend/register_alloc.h) on one basic block of T86  *)
(* code: virtual registers, and memory that the block uses, get physical    *)
(* registers.                                                              *)
(*                                                                         *)
(* The block is rewritten while it is read from front to back.  Here the   *)
(* rewritten code is run at once: `store' is what the machine holds after  *)
(* the code emitted so far, `intended' what the block as it was given would *)
(* have computed.  One action is one turn of the loop in allocate().       *)
(* Instructions inserted before the current one get the liveness of the    *)
(* current one, so liveness is a matter of the given block alone.          *)
(***************************************************************************)
EXTENDS Naturals, Sequences, FiniteSets, Functions

CONSTANTS
  NumRegs,   \* the registers that may be given out, 1 .. NumRegs
  Inputs     \* the blocks to allocate: sequences of instructions

ASSUME NumRegsAssumption == NumRegs \in Nat \ {0}

(* Operands.  R0 is EAX; registers are RegOp with physical_, virtual ones    *)
(* without.                                                                *)
Imm(k)     == <<"imm", k>>
Mem(k)     == <<"mem", k>>
Virtual(k) == <<"virtual", k>>
Reg(k)     == <<"reg", k>>
EAX == Reg(0)
SP  == <<"SP", 0>>
BP  == <<"BP", 0>>
None == <<"none", 0>>
Output == <<"output", 0>>   \* where comparisons and pushes go

Operand == {"imm", "mem", "virtual", "reg", "SP", "BP", "none"} \X Nat

IsMem(o)     == o[1] = "mem"
IsVirtual(o) == o[1] = "virtual"
isSpecialRegOperand(o) == o \in {EAX, SP, BP}

(* Instructions.  ARITH stands for ADD, SUB, MUL and DIV, JUMP for the       *)
(* jumps and the instructions without operands that may end a block.        *)
INSN(op, target, source) == [op |-> op, target |-> target, source |-> source]
Insn == [op : {"MOV", "ARITH", "CMP", "PUSH", "CALL", "JUMP"}, target : Operand, source : Operand]

(* What instruction i reads and what it defines, for computeLiveness.       *)
Uses(i) ==
  (IF i.op \in {"ARITH", "CMP"} THEN {i.target} ELSE {})
    \cup (IF i.op \in {"MOV", "ARITH", "CMP", "PUSH"} THEN {i.source} ELSE {})
Defines(i) == IF i.op = "MOV" THEN {i.target} ELSE {}

(* What visit() of the code generator emits: values go from memory, or as    *)
(* immediates, to virtual registers, are computed and compared there, and go *)
(* to memory or EAX; calls leave theirs in EAX.                              *)
IsValue(o) == IsVirtual(o) \/ o = EAX
IsSelected(i) ==
  /\ i.op = "MOV" =>
       \/ IsVirtual(i.target) /\ i.source[1] \in {"imm", "mem"}
       \/ (IsMem(i.target) \/ i.target = EAX) /\ IsValue(i.source)
       \/ i.target = BP /\ i.source = SP
  /\ i.op = "ARITH" =>
       \/ IsValue(i.target) /\ IsValue(i.source)
       \/ i.target = SP /\ i.source[1] = "imm"
  /\ i.op = "CMP" => IsValue(i.target) /\ IsValue(i.source)
  /\ i.op = "PUSH" => i.target = None /\ (IsValue(i.source) \/ i.source = BP)
  /\ i.op \in {"CALL", "JUMP"} => i.target = None /\ i.source = None

(* A block ends in its only jump; each virtual register has one definition,  *)
(* before it is used.                                                      *)
IsBlock(b) ==
  /\ b \in Seq(Insn) /\ b # <<>>
  /\ \A i \in 1..Len(b) : IsSelected(b[i]) /\ (b[i].op = "JUMP" <=> i = Len(b))
  /\ \A i \in 1..Len(b) : \A v \in Uses(b[i]) : IsVirtual(v) => \E j \in 1..(i - 1) : v \in Defines(b[j])
  /\ \A i, j \in 1..Len(b) : \A v \in Defines(b[i]) \cap Defines(b[j]) : IsVirtual(v) => i = j

ASSUME InputsAssumption == \A b \in Inputs : IsBlock(b)

-----------------------------------------------------------------------------
(* Values are terms.  A location holds itself at first, and terms are        *)
(* written flat: "op", then the two arguments.                             *)
Junk == <<"junk", 0>>
ValueIn(s, o) == IF o[1] = "imm" THEN o ELSE IF o \in DOMAIN s THEN s[o] ELSE Junk
Set(s, o, v) == [x \in DOMAIN s \cup {o} |-> IF x = o THEN v ELSE s[x]]

(* Instruction i in store s.  A call, here the one at position p, returns    *)
(* something new and saves the caller's registers.                         *)
Execute(s, i, p) ==
  CASE i.op = "MOV"   -> Set(s, i.target, ValueIn(s, i.source))
    [] i.op = "ARITH" -> Set(s, i.target, <<"op", 0>> \o ValueIn(s, i.target) \o ValueIn(s, i.source))
    [] i.op = "CMP"   -> Set(s, Output, s[Output] \o ValueIn(s, i.target) \o ValueIn(s, i.source))
    [] i.op = "PUSH"  -> Set(s, Output, s[Output] \o ValueIn(s, i.source))
    [] i.op = "CALL"  -> Set(s, EAX, <<"call", p>>)
    [] OTHER          -> s
-----------------------------------------------------------------------------
VARIABLES
  block, pos,      \* the block and the next instruction of it (curInsIndex)
  map,             \* operandToRegMap_
  freeRegs,        \* freeRegs_
  status,          \* "running", "done", or "aborted" by an assertion
  store, intended,
  slips            \* which of the allocator's known mistakes happened (history)

vars == <<block, pos, map, freeRegs, status, store, intended, slips>>

insn == block[pos]
Last == Len(block)
Memory(b) == {o \in UNION {{b[i].target, b[i].source} : i \in 1..Len(b)} : IsMem(o)}

(* liveness[j]: operands read at j or later, and not defined before.         *)
liveness(j) ==
  {o \in UNION {Uses(block[i]) : i \in j..Last} :
     \E i \in j..Last : /\ o \in Uses(block[i])
                        /\ \A k \in j..(i - 1) : o \notin Defines(block[k])}

isLastUse(o) ==
  /\ ~isSpecialRegOperand(o)
  /\ \A j \in (pos + 1)..Last : o \notin liveness(j)

(* What matters from instruction j on also includes what outlives the block. *)
(* The allocator's liveness does not; only properties and `slips' use this.  *)
Outlives == Memory(block) \cup {EAX, SP, BP, Output}
Matters(j) ==
  liveness(j) \cup {o \in Outlives : \A k \in j..Last : o \notin Defines(block[k])}

(* Slip: registers count from 0. *)
StartAt0(b) ==
  /\ block = b
  /\ pos = 1
  /\ map = [o \in {} |-> None]
  /\ freeRegs = 0..(NumRegs - 1)
  /\ status = "running"
  /\ store = [o \in Memory(b) \cup {EAX, SP, BP, Output} \cup {Reg(k) : k \in 1..NumRegs} |-> o]
  /\ intended = store
  /\ slips = {}

Start(b) ==
  /\ block = b
  /\ pos = 1
  /\ map = [o \in {} |-> None]
  /\ freeRegs = 1..NumRegs
  /\ status = "running"
  /\ store = [o \in Memory(b) \cup {EAX, SP, BP, Output} \cup {Reg(k) : k \in 1..NumRegs} |-> o]
  /\ intended = store
  /\ slips = {}

Init == \E b \in Inputs : Start(b)
-----------------------------------------------------------------------------
(* The current instruction is not the last.  It has been rewritten to i and  *)
(* everything before it has led to store s.                                *)
Emit(s, i) ==
  /\ store' = Execute(s, i, pos)
  /\ intended' = Execute(intended, insn, pos)
  /\ pos' = pos + 1
  /\ status' = "running"
  /\ UNCHANGED block

(* An assertion fails: the compiler stops. *)
Abort == status' = "aborted" /\ UNCHANGED <<block, pos, map, freeRegs, store, intended, slips>>

Slip(name, happened) == IF happened THEN {name} ELSE {}

Visit(ops) == status = "running" /\ pos < Last /\ insn.op \in ops

InRegister(m, o) == IsVirtual(o) => o \in DOMAIN m
Rewrite(m, o) == IF IsVirtual(o) THEN m[o] ELSE o

Sharing(r) == {o \in DOMAIN map : map[o] = r}

(* Slip: nothing is written. *)
NoWriteBack(S) == store

(* The memory operands of S get the contents of their registers. *)
WriteBack(S) == [o \in DOMAIN store |-> IF o \in S /\ IsMem(o) THEN store[map[o]] ELSE store[o]]

(* spillRegister: of the operands in registers, those live after each        *)
(* instruction to come are struck off until one is left, which is evicted.  *)
(* The sets are walked in the order of their hash tables: any order here.   *)
Remaining(j) ==
  {o \in DOMAIN map : ~isSpecialRegOperand(o)} \ UNION {liveness(k) : k \in (pos + 1)..j}
Evictable ==
  {o \in Remaining(pos) : \A j \in pos..Last : Remaining(j) # {} => o \in Remaining(j)}

(* The least free register is taken, or operands S are evicted from the       *)
(* register of one of them: those in memory are written back.                *)
Taken ==
  {[reg |-> Reg(k), free |-> freeRegs \ {k}, map |-> map, store |-> store, lost |-> {}] :
     k \in {k \in freeRegs : \A l \in freeRegs : k <= l}}
Evicted(o, S) ==
  [reg   |-> map[o],
   free  |-> freeRegs,
   map   |-> Restrict(map, DOMAIN map \ S),
   store |-> WriteBack(S),
   lost  |-> {v \in S : IsVirtual(v)}]

(* Slips: only one operand leaves the register; the last one is never given. *)
AllocationsOfOne ==
  IF freeRegs # {} THEN Taken ELSE {Evicted(o, {o}) : o \in Evictable}
AllocationsButLast ==
  IF Cardinality(freeRegs) > 1 THEN Taken ELSE {Evicted(o, Sharing(map[o])) : o \in Evictable}

(* allocate(): the register it may return, and how it leaves the rest. *)
Allocations ==
  IF freeRegs # {} THEN Taken ELSE {Evicted(o, Sharing(map[o])) : o \in Evictable}

(* Of what was evicted, this was still needed and is nowhere else. *)
Lost(a) == a.lost \cap (Uses(insn) \cup Matters(pos + 1)) # {}
-----------------------------------------------------------------------------
Special == {o \in {insn.target, insn.source} : isSpecialRegOperand(o)}

(* A MOV with EAX, SP or BP is not allocated: the operand is its own         *)
(* register.  The copy of the target that another register may have stays.  *)
MoveSpecial ==
  /\ Visit({"MOV"})
  /\ Special # {}
  /\ LET m == [o \in DOMAIN map \cup Special |-> IF o \in Special THEN o ELSE map[o]]
         source == IF EAX \in Special THEN m[insn.source] ELSE insn.source
     IN IF EAX \in Special /\ insn.source \notin DOMAIN m THEN Abort
        ELSE /\ map' = m
             /\ slips' = slips \cup
                  Slip("stale", insn.target \in DOMAIN map \cap Matters(pos + 1) /\ IsMem(insn.target))
             /\ Emit(store, INSN("MOV", insn.target, source))
             /\ UNCHANGED freeRegs

(* The source is in no register: it is loaded into one, which source and     *)
(* target are then both mapped to.                                          *)
Load ==
  /\ Visit({"MOV"})
  /\ Special = {}
  /\ insn.source \notin DOMAIN map
  /\ \E a \in Allocations :
       /\ map' = Set(Set(a.map, insn.source, a.reg), insn.target, a.reg)
       /\ freeRegs' = a.free
       /\ slips' = slips \cup Slip("lost", Lost(a))
       /\ Emit(a.store, INSN("MOV", a.reg, insn.source))

(* Slips: the old register is kept; it is freed even if it is the same. *)
NoFreed == {}
AnyFreed == IF IsMem(insn.target) /\ insn.target \in DOMAIN map THEN {map[insn.target]} ELSE {}

(* A store to a variable frees the other register that the variable was in. *)
Freed ==
  IF IsMem(insn.target) /\ insn.target \in DOMAIN map
  THEN {map[insn.target]} \ {map[insn.source]} ELSE {}

(* The source is in a register: so is the target now, and the MOV becomes a  *)
(* NOP.                                                                    *)
Alias ==
  /\ Visit({"MOV"})
  /\ Special = {}
  /\ insn.source \in DOMAIN map
  /\ freeRegs' = freeRegs \cup {k \in 1..NumRegs : Reg(k) \in Freed}
  /\ slips' = slips \cup
       Slip("freed", \E o \in DOMAIN map \cap Matters(pos + 1) : o # insn.target /\ map[o] \in Freed)
  /\ map' = Set(map, insn.target, map[insn.source])
  /\ Emit(store, INSN("NOP", None, None))

(* Is another operand in the target's register that is read again? *)
TargetIsShared ==
  \E o \in Sharing(map[insn.target]) \ {insn.target} : ~isLastUse(o)

(* remapBinaryOperands: both operands are in registers, and the target, which *)
(* is overwritten, is first moved away from operands that are read again.    *)
ArithmeticMoved ==
  /\ Visit({"ARITH"})
  /\ IsVirtual(insn.target) /\ insn.target \in DOMAIN map
  /\ TargetIsShared
  /\ \E a \in Allocations :
       IF InRegister(Set(a.map, insn.target, a.reg), insn.source)
       THEN /\ map' = Set(a.map, insn.target, a.reg)
            /\ freeRegs' = a.free
            /\ slips' = slips \cup Slip("lost", Lost(a))
            /\ LET from == IF insn.target \in DOMAIN a.map THEN map[insn.target] ELSE None
               IN Emit(Execute(a.store, INSN("MOV", a.reg, from), pos),
                       INSN("ARITH", a.reg, Rewrite(map', insn.source)))
       ELSE /\ status' = "aborted"
            /\ slips' = slips \cup {"lost"}
            /\ UNCHANGED <<block, pos, map, freeRegs, store, intended>>

ArithmeticInPlace ==
  /\ Visit({"ARITH"})
  /\ InRegister(map, insn.target) /\ InRegister(map, insn.source)
  /\ IsVirtual(insn.target) => ~TargetIsShared
  /\ slips' = slips \cup
       Slip("clobbered", /\ IsVirtual(insn.target)
                         /\ \E o \in Sharing(map[insn.target]) \cap Matters(pos + 1) : IsMem(o) /\ isLastUse(o))
  /\ Emit(store, INSN("ARITH", Rewrite(map, insn.target), Rewrite(map, insn.source)))
  /\ UNCHANGED <<map, freeRegs>>

(* CMP, PUSH and what has no register operands *)
Read ==
  /\ Visit({"CMP", "PUSH", "CALL"})
  /\ InRegister(map, insn.target) /\ InRegister(map, insn.source)
  /\ Emit(store, INSN(insn.op, Rewrite(map, insn.target), Rewrite(map, insn.source)))
  /\ UNCHANGED <<map, freeRegs, slips>>

(* assert(operandToRegMap_.find(...) != operandToRegMap_.end()) fails. *)
Unmapped ==
  /\ Visit({"ARITH", "CMP", "PUSH"})
  /\ \/ ~InRegister(map, insn.target)
     \/ ~InRegister(map, insn.source) /\ ~(insn.op = "ARITH" /\ IsVirtual(insn.target) /\ TargetIsShared)
  /\ Abort

(* finalizeBB before the last instruction, a jump or without operands: memory *)
(* is written back, all registers are free.  deinit checks that.             *)
Finish ==
  /\ status = "running"
  /\ pos = Last
  /\ freeRegs' = freeRegs \cup {k \in 1..NumRegs : \E o \in DOMAIN map : map[o] = Reg(k)}
  /\ store' = WriteBack(DOMAIN map)
  /\ map' = [o \in {} |-> None]
  /\ status' = IF freeRegs' = 1..NumRegs THEN "done" ELSE "aborted"
  /\ UNCHANGED <<block, pos, intended, slips>>

Stopped == status # "running" /\ UNCHANGED vars

Next ==
  \/ MoveSpecial \/ Load \/ Alias
  \/ ArithmeticMoved \/ ArithmeticInPlace \/ Read \/ Unmapped
  \/ Finish \/ Stopped

Spec == Init /\ [][Next]_vars
-----------------------------------------------------------------------------
Physical == {Reg(k) : k \in 0..NumRegs} \cup {SP, BP}

TypeOK ==
  /\ IsBlock(block)
  /\ pos \in 1..Last
  /\ DOMAIN map \in SUBSET Operand
  /\ map \in [DOMAIN map -> Physical]
  /\ freeRegs \in SUBSET (1..NumRegs)
  /\ status \in {"running", "done", "aborted"}
  /\ slips \in SUBSET {"lost", "clobbered", "freed", "stale"}

(* Where the rewritten code looks for o, it finds this. *)
Found(o) == ValueIn(store, IF o \in DOMAIN map THEN map[o] ELSE o)

(* As long as none of the known mistakes happened, each operand that matters *)
(* from here on is where the rewritten code will look for it: in the         *)
(* register it is mapped to, or in its own place.                            *)
OperandsAreWhereExpected ==
  status = "running" /\ slips = {} => \A o \in Matters(pos) :
    ValueIn(intended, o) = Found(o)

(* So the rewritten block computes what the given one would have: what is    *)
(* compared and pushed, EAX, and the memory it leaves.                       *)
AllocationKeepsTheMeaning ==
  status = "done" /\ slips = {} => \A o \in Outlives : store[o] = intended[o]

(* A register is free or holds something, and the assertions (deinit's that  *)
(* all are free after a block, those that look up an operand) only fail when *)
(* a virtual register was evicted.                                           *)
NoRegisterLeaks ==
  "lost" \notin slips =>
    /\ status # "aborted"
    /\ status = "running" => \A k \in 1..NumRegs : k \in freeRegs \/ Sharing(Reg(k)) # {}

(* A free register holds nothing that matters. *)
FreeRegistersHoldNothing ==
  status = "running" /\ slips = {} =>
    \A o \in DOMAIN map \cap Matters(pos) : \A k \in freeRegs : map[o] # Reg(k)

(* Nothing is lost from a block with no more instructions that may take a    *)
(* register than there are.                                                  *)
Takers == {i \in 1..Last : IF block[i].op = "MOV" THEN IsVirtual(block[i].target) ELSE block[i].op = "ARITH"}
EnoughRegisters ==
  Cardinality(Takers) <= NumRegs => "lost" \notin slips

(* "binary operations overwrite the target but the target might be used in    *)
(* the future - so we need to move it": arithmetic changes no variable.       *)
ArithmeticKeepsVariables ==
  [][insn.op = "ARITH" => \A o \in Matters(pos + 1) : IsMem(o) => Found(o)' = Found(o)]_vars
=============================================================================
