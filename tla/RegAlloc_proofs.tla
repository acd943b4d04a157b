--------------------------- MODULE RegAlloc_proofs ---------------------------
(***************************************************************************)
(* Proofs about RegAlloc, for every block and every number of registers.    *)
(*                                                                         *)
(* The invariant has three parts: the map and the stores are well formed    *)
(* (Shape); without a slip, what matters from here on is where the map says *)
(* (Meaning); and as long as no needed virtual register was evicted, those  *)
(* needed are mapped and every register is free or in the map (Holding).    *)
(* It is carried through each instruction by two facts about the given      *)
(* block: what matters after an instruction mattered before it or is        *)
(* defined by it, and a virtual register is defined once, before its uses.  *)
(***************************************************************************)
EXTENDS RegAlloc, FiniteSetTheorems, TLAPS

Regs == {Reg(k) : k \in 1..NumRegs}
Specials == {EAX, SP, BP}

(* Operands differ by what they are. *)
LEMMA RegsAreRegs ==
  ASSUME NEW r \in Regs
  PROVE  /\ r \notin Specials /\ r # Output /\ r # None
         /\ ~IsMem(r) /\ ~IsVirtual(r) /\ r[1] # "imm"
         /\ ~isSpecialRegOperand(r)
BY NumRegsAssumption DEF Regs, Specials, EAX, SP, BP, Output, None, Reg, IsMem, IsVirtual, isSpecialRegOperand

LEMMA SpecialsAreSpecial ==
  /\ \A o : isSpecialRegOperand(o) <=> o \in Specials
  /\ \A o \in Specials \cup {Output} : ~IsMem(o) /\ ~IsVirtual(o) /\ o[1] # "imm"
  /\ Output \notin Specials
  /\ EAX \in Specials /\ SP \in Specials /\ BP \in Specials
BY DEF Specials, EAX, SP, BP, Output, Reg, IsMem, IsVirtual, isSpecialRegOperand

LEMMA Kinds ==
  ASSUME NEW o
  PROVE  /\ IsMem(o) => ~IsVirtual(o) /\ o[1] # "imm"
         /\ IsVirtual(o) => o[1] # "imm"
BY DEF IsMem, IsVirtual

(* Changing one location of a store, and what instructions do to it. *)
LEMMA SetDomain ==
  ASSUME NEW s, NEW o, NEW v PROVE DOMAIN Set(s, o, v) = DOMAIN s \cup {o}
BY DEF Set

LEMMA SetHere ==
  ASSUME NEW s, NEW o, NEW v, o[1] # "imm" PROVE ValueIn(Set(s, o, v), o) = v
BY DEF Set, ValueIn

LEMMA SetElsewhere ==
  ASSUME NEW s, NEW o, NEW v, NEW x, x # o PROVE ValueIn(Set(s, o, v), x) = ValueIn(s, x)
BY DEF Set, ValueIn

LEMMA ExecuteMOV ==
  ASSUME NEW s, NEW p, NEW t, NEW o
  PROVE  Execute(s, INSN("MOV", t, o), p) = Set(s, t, ValueIn(s, o))
BY DEF Execute, INSN

LEMMA ExecuteARITH ==
  ASSUME NEW s, NEW p, NEW t, NEW o
  PROVE  Execute(s, INSN("ARITH", t, o), p) = Set(s, t, <<"op", 0>> \o ValueIn(s, t) \o ValueIn(s, o))
BY DEF Execute, INSN

LEMMA ExecuteCMP ==
  ASSUME NEW s, NEW p, NEW t, NEW o
  PROVE  Execute(s, INSN("CMP", t, o), p) = Set(s, Output, s[Output] \o ValueIn(s, t) \o ValueIn(s, o))
BY DEF Execute, INSN

LEMMA ExecutePUSH ==
  ASSUME NEW s, NEW p, NEW t, NEW o
  PROVE  Execute(s, INSN("PUSH", t, o), p) = Set(s, Output, s[Output] \o ValueIn(s, o))
BY DEF Execute, INSN

LEMMA ExecuteCALL ==
  ASSUME NEW s, NEW p, NEW t, NEW o
  PROVE  Execute(s, INSN("CALL", t, o), p) = Set(s, EAX, <<"call", p>>)
BY DEF Execute, INSN

LEMMA ExecuteNOP ==
  ASSUME NEW s, NEW p PROVE Execute(s, INSN("NOP", None, None), p) = s
BY DEF Execute, INSN

LEMMA InsnIs == \A i \in Insn : i = INSN(i.op, i.target, i.source)
BY DEF Insn, INSN

(* Output is no operand. *)
LEMMA OutputInOperand == Output \notin Operand /\ Specials \subseteq Operand
BY DEF Output, Operand, Specials, EAX, SP, BP, Reg

-----------------------------------------------------------------------------
(* The given block *)

Typed == block \in Inputs /\ pos \in 1..Last

(* Blocks are not empty. *)
LEMMA InputIsBlock == ASSUME block \in Inputs PROVE IsBlock(block) /\ Len(block) \in Nat \ {0}
<1>1. IsBlock(block)
  BY InputsAssumption
<1>2. block \in Seq(Insn) /\ block # <<>>
  BY <1>1 DEF IsBlock
<1> QED
  BY <1>1, <1>2

(* A location that outlives the block or may be read by an instruction. *)
IsPlace(o) == o[1] = "imm" \/ (IsMem(o) /\ o \in Memory(block)) \/ IsVirtual(o) \/ o \in Specials \cup {Output}

(* Physical registers only stand in rewritten code. *)
LEMMA PlacesAreNotRegs == ASSUME NEW o, IsPlace(o) PROVE o \notin Regs
BY RegsAreRegs DEF IsPlace

(* Instructions read and define places, and so does what outlives the block. *)
LEMMA UsesArePlaces ==
  ASSUME Typed, NEW j \in 1..Last
  PROVE  /\ \A o \in Uses(block[j]) : IsPlace(o) /\ o # Output
         /\ \A o \in Defines(block[j]) : IsPlace(o) /\ o[1] # "imm" /\ o # Output
<1>1. IsSelected(block[j]) /\ block[j] \in Insn
  BY InputIsBlock DEF IsBlock, Typed, Last
<1>2. \A o \in {block[j].target, block[j].source} : IsMem(o) => o \in Memory(block)
  BY DEF Memory, Last
<1>3. block[j].target # Output /\ block[j].source # Output
  BY <1>1, OutputInOperand DEF Insn
<1> QED
  BY <1>1, <1>2, <1>3, SpecialsAreSpecial, Kinds DEF IsSelected, Uses, Defines, IsPlace, IsValue, IsMem, Insn

LEMMA MattersArePlaces ==
  ASSUME Typed, NEW j \in 1..Last
  PROVE  \A o \in Matters(j) : IsPlace(o)
<1>1. \A o \in liveness(j) : \E i \in 1..Last : o \in Uses(block[i])
  BY InputIsBlock DEF liveness, Typed, Last
<1>2. \A o \in Outlives : IsPlace(o)
  BY DEF Outlives, IsPlace, Memory, Specials
<1> QED
  BY <1>1, <1>2, UsesArePlaces DEF Matters

(* What matters after an instruction mattered before it or is defined by it. *)
LEMMA MattersStep ==
  ASSUME Typed, pos < Last
  PROVE  /\ Uses(insn) \subseteq Matters(pos)
         /\ \A o \in Matters(pos + 1) : o \in Defines(insn) \/ o \in Matters(pos)
<1>0. Last \in Nat /\ pos \in Nat /\ pos + 1 \in 1..Last
  BY InputIsBlock DEF Typed, Last
<1>1. Uses(insn) \subseteq liveness(pos)
  BY <1>0 DEF liveness, insn, Typed
<1>2. ASSUME NEW o \in liveness(pos + 1), o \notin Defines(insn)
      PROVE  o \in liveness(pos)
  <2>1. PICK i \in (pos + 1)..Last :
          o \in Uses(block[i]) /\ \A k \in (pos + 1)..(i - 1) : o \notin Defines(block[k])
    BY DEF liveness
  <2>2. i \in pos..Last /\ \A k \in pos..(i - 1) : k = pos \/ k \in (pos + 1)..(i - 1)
    BY <1>0
  <2> QED
    BY <1>2, <2>1, <2>2 DEF liveness, insn
<1>3. ASSUME NEW o \in Outlives, \A k \in (pos + 1)..Last : o \notin Defines(block[k]), o \notin Defines(insn)
      PROVE  o \in Matters(pos)
  <2>1. \A k \in pos..Last : k = pos \/ k \in (pos + 1)..Last
    BY <1>0
  <2> QED
    BY <1>3, <2>1 DEF Matters, insn
<1> QED
  BY <1>1, <1>2, <1>3 DEF Matters

(* The last use of an operand in the block: only what outlives it matters. *)
LEMMA LastUse ==
  ASSUME Typed, pos < Last, NEW o, ~isSpecialRegOperand(o), isLastUse(o), o \in Matters(pos + 1)
  PROVE  o \in Outlives
<1>1. pos + 1 \in (pos + 1)..Last
  BY InputIsBlock DEF Typed, Last
<1> QED
  BY <1>1 DEF isLastUse, Matters

(* The last instruction, a jump, defines nothing. *)
LEMMA NothingToComeAtLast ==
  ASSUME Typed, pos = Last PROVE Outlives \subseteq Matters(pos)
<1>1. block[Last].op = "JUMP"
  BY InputIsBlock DEF IsBlock, Typed, Last
<1>2. \A k \in pos..Last : Defines(block[k]) = {}
  BY <1>1, InputIsBlock DEF Defines, Typed, Last
<1> QED
  BY <1>2 DEF Matters

(* The virtual registers that are used were defined before, and only once. *)
LEMMA DefinedOnce ==
  ASSUME Typed, NEW o, IsVirtual(o)
  PROVE  /\ o \in Defines(insn) => \A j \in 1..(pos - 1) : o \notin Defines(block[j])
         /\ pos = 1 => o \notin Matters(pos)
<1>0. Last \in Nat \ {0} /\ Last = Len(block)
  BY InputIsBlock DEF Typed, Last
<1>1. \A i, j \in 1..Last : o \in Defines(block[i]) /\ o \in Defines(block[j]) => i = j
  BY InputIsBlock, <1>0 DEF IsBlock, Typed
<1>2. \A i \in 1..Last : o \in Uses(block[i]) => \E j \in 1..(i - 1) : o \in Defines(block[j])
  BY InputIsBlock, <1>0 DEF IsBlock, Typed
<1>3. o \notin Outlives
  BY SpecialsAreSpecial, Kinds DEF Outlives, Memory
<1>4. pos = 1 => o \notin liveness(pos)
  BY <1>2 DEF liveness
<1> QED
  BY <1>0, <1>1, <1>3, <1>4 DEF Typed, Matters, insn
-----------------------------------------------------------------------------
(* The invariant.  Physical registers stand in the map for what is not       *)
(* special; a virtual register gets there when it is defined.               *)
Locations == Outlives \cup Regs

MapOK ==
  /\ map = [o \in DOMAIN map |-> map[o]]
  /\ \A o \in DOMAIN map :
       /\ o \in Operand
       /\ IF o \in Specials THEN map[o] = o ELSE map[o] \in Regs
       /\ IsMem(o) => o \in Memory(block)
       /\ IsVirtual(o) => \E j \in 1..(pos - 1) : o \in Defines(block[j])

Shape ==
  /\ Typed
  /\ MapOK
  /\ freeRegs \subseteq 1..NumRegs
  /\ status \in {"running", "done", "aborted"}
  /\ slips \subseteq {"lost", "clobbered", "freed", "stale"}
  /\ DOMAIN store = Locations
  /\ Outlives \subseteq DOMAIN intended

(* Without a slip, what matters is where it is looked for, and not in a       *)
(* register that may be given out.                                          *)
Meaning ==
  status = "running" /\ slips = {} => \A o \in Matters(pos) :
    /\ ValueIn(intended, o) = Found(o)
    /\ o \in DOMAIN map => \A k \in freeRegs : map[o] # Reg(k)

(* Without an eviction of a virtual register that is needed, those needed     *)
(* are in registers, and each register is free or in the map.               *)
Holding ==
  "lost" \notin slips =>
    /\ status # "aborted"
    /\ status = "running" =>
         /\ \A o \in Matters(pos) : IsVirtual(o) => o \in DOMAIN map
         /\ \A k \in 1..NumRegs : k \in freeRegs \/ \E o \in DOMAIN map : map[o] = Reg(k)

Result == AllocationKeepsTheMeaning

IInv == Shape /\ Meaning /\ Holding /\ Result

(* The invariant holds at first. *)
LEMMA InvInit == Init => IInv
<1> SUFFICES ASSUME NEW b \in Inputs, Start(b)
             PROVE  IInv
  BY DEF Init
<1>1. Typed
  BY InputIsBlock DEF Start, Typed, Last
<1>2. DOMAIN map = {} /\ map = [o \in {} |-> None] /\ store = intended /\ freeRegs = 1..NumRegs
  BY DEF Start
<1>3. DOMAIN store = Locations
  BY DEF Start, Locations, Outlives, Regs
<1>4. Shape
  BY <1>1, <1>2, <1>3 DEF Start, Shape, MapOK, Locations
<1>5. Meaning /\ Result
  BY <1>2 DEF Meaning, Result, AllocationKeepsTheMeaning, Found, Start
<1>6. Holding
  BY <1>1, <1>2, DefinedOnce DEF Holding, Start
<1> QED
  BY <1>4, <1>5, <1>6 DEF IInv
-----------------------------------------------------------------------------
(* What an allocation gives and leaves. *)
Needed == Uses(insn) \cup (Matters(pos + 1) \cap Matters(pos))

At(m, s, o) == ValueIn(s, IF o \in DOMAIN m THEN m[o] ELSE o)

(* An allocation gives a register that is not free any more and leaves a part of the map. *)
LEMMA AllocationShape ==
  ASSUME Shape, NEW a \in Allocations
  PROVE  /\ a.reg \in Regs
         /\ a.free \subseteq freeRegs
         /\ \A k \in a.free : a.reg # Reg(k)
         /\ a.map = [o \in DOMAIN a.map |-> map[o]]
         /\ DOMAIN a.map \subseteq DOMAIN map
         /\ DOMAIN map \cap Specials \subseteq DOMAIN a.map
         /\ DOMAIN a.store = Locations
<1>1. ASSUME NEW k \in freeRegs,
             a = [reg |-> Reg(k), free |-> freeRegs \ {k}, map |-> map, store |-> store, lost |-> {}]
      PROVE  /\ a.reg \in Regs
             /\ a.free \subseteq freeRegs
             /\ \A l \in a.free : a.reg # Reg(l)
             /\ a.map = map /\ a.store = store
  BY <1>1 DEF Shape, Regs, Reg
<1>2. ASSUME NEW o \in Evictable, a = Evicted(o, Sharing(map[o])), freeRegs = {}
      PROVE  /\ a.reg \in Regs
             /\ a.free = {}
             /\ a.map = [x \in DOMAIN map \ Sharing(map[o]) |-> map[x]]
             /\ DOMAIN map \cap Specials \subseteq DOMAIN a.map
             /\ DOMAIN a.store = DOMAIN store
  <2>1. o \in DOMAIN map /\ o \notin Specials
    BY SpecialsAreSpecial DEF Evictable, Remaining
  <2>2. map[o] \in Regs
    BY <2>1 DEF Shape, MapOK
  <2>3. \A x \in DOMAIN map \cap Specials : map[x] # map[o]
    BY <2>2, RegsAreRegs DEF Shape, MapOK
  <2> QED
    BY <1>2, <2>2, <2>3 DEF Evicted, Restrict, WriteBack, Sharing
<1>3. \/ \E k \in freeRegs :
            a = [reg |-> Reg(k), free |-> freeRegs \ {k}, map |-> map, store |-> store, lost |-> {}]
      \/ freeRegs = {} /\ \E o \in Evictable : a = Evicted(o, Sharing(map[o]))
  BY DEF Allocations, Taken
<1>4. map = [o \in DOMAIN map |-> map[o]] /\ DOMAIN store = Locations
  BY DEF Shape, MapOK
<1>5. CASE \E k \in freeRegs :
            a = [reg |-> Reg(k), free |-> freeRegs \ {k}, map |-> map, store |-> store, lost |-> {}]
  <2>1. a.map = map /\ a.store = store
    BY <1>1, <1>5
  <2> QED
    BY <1>1, <1>4, <1>5, <2>1
<1>6. CASE freeRegs = {} /\ \E o \in Evictable : a = Evicted(o, Sharing(map[o]))
  <2>1. PICK o \in Evictable : a.map = [x \in DOMAIN map \ Sharing(map[o]) |-> map[x]]
    BY <1>2, <1>6
  <2>2. DOMAIN a.map = DOMAIN map \ Sharing(map[o])
    BY <2>1
  <2> QED
    BY <1>2, <1>4, <1>6, <2>1, <2>2
<1> QED
  BY <1>3, <1>5, <1>6

(* What is needed is still found, and not in the register that is given. *)
LEMMA AllocationMeaning ==
  ASSUME Shape, Meaning, status = "running", slips = {}, pos < Last,
         NEW a \in Allocations, ~Lost(a), NEW o \in Needed
  PROVE  /\ At(a.map, a.store, o) = Found(o)
         /\ o \in DOMAIN a.map => map[o] # a.reg
         /\ IsVirtual(o) /\ o \in DOMAIN map => o \in DOMAIN a.map
<1>0. o \in Matters(pos) /\ IsPlace(o) /\ ValueIn(intended, o) = Found(o)
  BY MattersStep, MattersArePlaces DEF Needed, Meaning, Shape, Typed
<1>1. ASSUME NEW k \in freeRegs,
             a = [reg |-> Reg(k), free |-> freeRegs \ {k}, map |-> map, store |-> store, lost |-> {}]
      PROVE  /\ At(a.map, a.store, o) = Found(o)
             /\ o \in DOMAIN a.map => map[o] # a.reg
             /\ IsVirtual(o) /\ o \in DOMAIN map => o \in DOMAIN a.map
  BY <1>0, <1>1 DEF At, Found, Meaning
<1>2. ASSUME NEW e \in Evictable, a = Evicted(e, Sharing(map[e]))
      PROVE  /\ At(a.map, a.store, o) = Found(o)
             /\ o \in DOMAIN a.map => map[o] # a.reg
             /\ IsVirtual(o) /\ o \in DOMAIN map => o \in DOMAIN a.map
  <2> DEFINE S == Sharing(map[e])
  <2>1. /\ a.map = [x \in DOMAIN map \ S |-> map[x]]
        /\ a.store = WriteBack(S)
        /\ a.reg = map[e]
        /\ a.lost = {v \in S : IsVirtual(v)}
    BY <1>2 DEF Evicted, Restrict
  <2>2. e \in DOMAIN map /\ map[e] \in Regs
    BY SpecialsAreSpecial DEF Evictable, Remaining, Shape, MapOK
  <2>3. DOMAIN a.store = DOMAIN store /\ \A r \in Regs : a.store[r] = store[r]
    BY <2>1, RegsAreRegs DEF WriteBack, Shape, Locations
  <2>4. CASE o \in S
    <3>1. ~IsVirtual(o)
      BY <2>1, <2>4 DEF Lost, Needed
    <3>2. o \in DOMAIN map /\ map[o] = map[e] /\ o \notin Specials
      BY <2>2, <2>4, RegsAreRegs DEF Sharing, Shape, MapOK
    <3>3. CASE IsMem(o)
      <4>1. o \in DOMAIN store /\ map[o] \in DOMAIN store
        BY <2>2, <3>2, <3>3 DEF Shape, MapOK, Locations, Outlives
      <4>2. a.store[o] = store[map[o]]
        BY <2>1, <2>4, <3>3, <4>1 DEF WriteBack
      <4>3. o[1] # "imm" /\ map[o][1] # "imm"
        BY <2>2, <3>2, <3>3, Kinds, RegsAreRegs
      <4> QED
        BY <2>1, <2>3, <2>4, <3>1, <3>2, <4>1, <4>2, <4>3 DEF At, Found, ValueIn
    <3>4. CASE o[1] = "imm"
      BY <1>0, <2>1, <2>4, <3>1, <3>4 DEF At, ValueIn
    <3>5. o # Output
      BY <3>2, OutputInOperand DEF Shape, MapOK
    <3> QED
      BY <1>0, <3>1, <3>2, <3>3, <3>4, <3>5 DEF IsPlace
  <2>5. CASE o \notin S
    <3>1. o \in DOMAIN map => o \in DOMAIN a.map /\ a.map[o] = map[o] /\ map[o] # a.reg
      BY <2>1, <2>5 DEF Sharing
    <3>2. o \in DOMAIN map => map[o] \in Regs \/ (o \in Specials /\ map[o] = o)
      BY DEF Shape, MapOK
    <3>3. a.store = [x \in DOMAIN store |-> IF x \in S /\ IsMem(x) THEN store[map[x]] ELSE store[x]]
      BY <2>1 DEF WriteBack
    <3>4. \A x : x \in DOMAIN store /\ ~(x \in S /\ IsMem(x)) => a.store[x] = store[x]
      BY <3>3
    <3>5. ValueIn(a.store, o) = ValueIn(store, o)
      BY <2>3, <2>5, <3>4 DEF ValueIn
    <3>6. \A r \in Regs : ValueIn(a.store, r) = ValueIn(store, r)
      BY <2>3 DEF ValueIn
    <3>7. DOMAIN a.map \subseteq DOMAIN map
      BY <2>1
    <3> QED
      BY <3>1, <3>2, <3>5, <3>6, <3>7 DEF At, Found
  <2> QED
    BY <2>4, <2>5
<1> QED
  BY <1>1, <1>2 DEF Allocations, Taken

(* No register is forgotten. *)
LEMMA AllocationHolds ==
  ASSUME Shape, NEW a \in Allocations
  PROVE  /\ \A k \in 1..NumRegs :
              k \in freeRegs \/ (\E o \in DOMAIN map : map[o] = Reg(k)) =>
                Reg(k) = a.reg \/ k \in a.free \/ \E o \in DOMAIN a.map : map[o] = Reg(k)
         /\ ~Lost(a) => \A o \in DOMAIN map \cap (Uses(insn) \cup Matters(pos + 1)) :
                          IsVirtual(o) => o \in DOMAIN a.map
         /\ \A o \in DOMAIN map : o \in DOMAIN a.map \/ map[o] = a.reg
<1>1. ASSUME NEW k \in freeRegs,
             a = [reg |-> Reg(k), free |-> freeRegs \ {k}, map |-> map, store |-> store, lost |-> {}]
      PROVE  a.reg = Reg(k) /\ a.free = freeRegs \ {k} /\ a.map = map
  BY <1>1
<1>2. ASSUME NEW e \in Evictable, a = Evicted(e, Sharing(map[e]))
      PROVE  /\ a.reg = map[e] /\ a.free = freeRegs
             /\ DOMAIN a.map = DOMAIN map \ Sharing(map[e])
             /\ a.lost = {v \in Sharing(map[e]) : IsVirtual(v)}
  BY <1>2 DEF Evicted, Restrict
<1> QED
  BY <1>1, <1>2 DEF Allocations, Taken, Lost, Sharing
-----------------------------------------------------------------------------
(* One instruction forward *)

(* What the current instruction may be. *)
LEMMA Current ==
  ASSUME Typed
  PROVE  /\ insn \in Insn /\ IsSelected(insn)
         /\ insn.target \in Operand /\ insn.source \in Operand
         /\ \A o \in Uses(insn) : IsPlace(o) /\ o # Output
         /\ \A o \in Defines(insn) : IsPlace(o) /\ o[1] # "imm" /\ o # Output
         /\ \A o \in Uses(insn) : IsVirtual(o) => \E j \in 1..(pos - 1) : o \in Defines(block[j])
         /\ pos < Last => insn.op # "JUMP"
<1>1. IsBlock(block) /\ pos \in 1..Len(block)
  BY InputIsBlock DEF Typed, Last
<1>2. insn \in Insn /\ IsSelected(insn) /\ (insn.op = "JUMP" <=> pos = Len(block))
  BY <1>1 DEF IsBlock, insn
<1>3. \A o \in Uses(insn) : IsVirtual(o) => \E j \in 1..(pos - 1) : o \in Defines(block[j])
  BY <1>1 DEF IsBlock, insn
<1> QED
  BY <1>1, <1>2, <1>3, UsesArePlaces DEF Insn, insn, Typed, Last

(* The locations of the store *)
LEMMA LocationsAre ==
  /\ Memory(block) \subseteq Outlives /\ Specials \subseteq Outlives /\ Output \in Outlives
  /\ Outlives \subseteq Locations /\ Regs \subseteq Locations
BY DEF Outlives, Locations, Specials

(* What going forward by one instruction leaves alone *)
LEMMA Forward ==
  ASSUME Shape, pos < Last, pos' = pos + 1, block' = block
  PROVE  /\ Typed'
         /\ \A o : o \in Matters(pos)' <=> o \in Matters(pos + 1)
         /\ Outlives' = Outlives /\ Locations' = Locations /\ Memory(block)' = Memory(block)
         /\ \A o : IsVirtual(o) /\ (o \in Defines(insn) \/ \E j \in 1..(pos - 1) : o \in Defines(block[j]))
               => (\E j \in 1..(pos - 1) : o \in Defines(block[j]))'
         /\ \A o \in Matters(pos + 1) : o \in Defines(insn) \/ o \in Needed
<1>1. Typed'
  BY InputIsBlock DEF Shape, Typed, Last
<1>2. \A o : o \in Matters(pos)' <=> o \in Matters(pos + 1)
  BY DEF Matters, liveness, Outlives, Memory, Last
<1>3. Outlives' = Outlives /\ Locations' = Locations /\ Memory(block)' = Memory(block)
  BY DEF Outlives, Memory, Locations
<1>4. pos \in 1..(pos' - 1) /\ 1..(pos - 1) \subseteq 1..(pos' - 1)
  BY InputIsBlock DEF Shape, Typed, Last
<1> QED
  BY <1>1, <1>2, <1>3, <1>4, MattersStep DEF insn, Needed, Shape

(* The invariant survives each way through the loop. A special MOV: only a slip leaves a stale copy. *)
LEMMA StepMoveSpecial == ASSUME IInv, MoveSpecial PROVE IInv'
<1> DEFINE m == [o \in DOMAIN map \cup Special |-> IF o \in Special THEN o ELSE map[o]]
           src == IF EAX \in Special THEN m[insn.source] ELSE insn.source
<1> USE SpecialsAreSpecial
<1>0. Typed /\ Shape /\ Meaning /\ Holding /\ pos < Last /\ status = "running" /\ insn.op = "MOV"
  BY DEF IInv, Shape, MoveSpecial, Visit
<1>1. Special \subseteq Specials /\ Special # {} /\ Special \subseteq Operand
  BY <1>0, Current DEF Special, MoveSpecial
<1>2. /\ ~IsVirtual(insn.target) /\ insn.target[1] # "imm" /\ insn.target # Output
      /\ insn.source \in Special \/ (IsVirtual(insn.source) /\ insn.target = EAX /\ EAX \in Special)
      /\ insn.target \in Special \/ (IsMem(insn.target) /\ insn.source = EAX)
      /\ IsMem(insn.target) => insn.target \in Memory(block)
  <2>1. IsPlace(insn.target) /\ insn.target[1] # "imm" /\ insn.target # Output
    BY <1>0, Current DEF Defines
  <2>2. IsSelected(insn) /\ (insn.target \in Specials \/ insn.source \in Specials)
    BY <1>0, <1>1, Current DEF Special
  <2>3. ~(IsVirtual(insn.target) /\ insn.source[1] \in {"imm", "mem"})
    BY <2>2 DEF IsMem, IsVirtual
  <2> QED
    BY <1>0, <2>1, <2>2, <2>3, Kinds DEF IsSelected, IsValue, Special, IsPlace
<1>3. Uses(insn) = {insn.source} /\ Defines(insn) = {insn.target}
  BY <1>0 DEF Uses, Defines
<1>4. insn.source \in Matters(pos)
  BY <1>0, <1>3, MattersStep
<1>5. CASE Abort
  <2>1. insn.source \notin DOMAIN m /\ EAX \in Special
    BY <1>5, <1>0 DEF MoveSpecial, Abort, Emit
  <2>2. "lost" \in slips
    BY <1>0, <1>2, <1>4, <2>1 DEF Holding
  <2> QED
    BY <1>0, <1>5, <2>2 DEF Abort, IInv, Shape, Typed, Last, MapOK, Locations, Outlives, Memory, Meaning, Holding,
                           Result, AllocationKeepsTheMeaning
<1>6. CASE /\ map' = m
           /\ slips' = slips \cup
                Slip("stale", insn.target \in DOMAIN map \cap Matters(pos + 1) /\ IsMem(insn.target))
           /\ Emit(store, INSN("MOV", insn.target, src))
           /\ ~(EAX \in Special /\ insn.source \notin DOMAIN m)
           /\ freeRegs' = freeRegs
  <2>1. /\ store' = Set(store, insn.target, ValueIn(store, src))
        /\ intended' = Set(intended, insn.target, ValueIn(intended, insn.source))
        /\ pos' = pos + 1 /\ block' = block /\ status' = "running"
    <3>1. insn = INSN("MOV", insn.target, insn.source)
      BY <1>0, Current, InsnIs
    <3> QED
      BY <1>6, <3>1, ExecuteMOV DEF Emit
  <2>2. Shape'
    <3>1. MapOK'
      BY <1>0, <1>1, <1>2, <1>6, <2>1, Forward DEF Shape, MapOK
    <3>2. DOMAIN store' = Locations' /\ Outlives' \subseteq DOMAIN intended'
      <4>1. DOMAIN store' = DOMAIN store \cup {insn.target}
        BY <2>1, SetDomain, Zenon
      <4>3. DOMAIN intended' = DOMAIN intended \cup {insn.target}
        BY <2>1, SetDomain, Zenon
      <4>2. insn.target \in Locations
        BY <1>1, <1>2, LocationsAre
      <4> QED
        BY <1>0, <2>1, <4>1, <4>2, <4>3, Forward DEF Shape
    <3>3. slips' \subseteq {"lost", "clobbered", "freed", "stale"}
      BY <1>0, <1>6 DEF Slip, Shape
    <3> QED
      BY <1>0, <1>6, <2>1, <3>1, <3>2, <3>3, Forward DEF Shape
  <2>3. Meaning'
    <3> SUFFICES ASSUME slips' = {}, NEW o \in Matters(pos + 1)
                 PROVE  /\ ValueIn(intended', o) = At(map', store', o)
                        /\ o \in DOMAIN map' => \A k \in freeRegs : map'[o] # Reg(k)
      BY <1>0, <1>6, <2>1, Forward DEF Meaning, At, Found
    <3>1. slips = {} /\ ~(insn.target \in DOMAIN map \cap Matters(pos + 1) /\ IsMem(insn.target))
      BY <1>6 DEF Slip
    <3>2. ValueIn(store, src) = ValueIn(intended, insn.source)
      <4>1. ValueIn(intended, insn.source) = At(map, store, insn.source)
        BY <1>0, <1>4, <3>1 DEF Meaning, At, Found
      <4> QED
        BY <1>0, <1>1, <1>2, <1>6, <4>1 DEF At, Shape, MapOK
    <3>3. \A r \in Specials : \A k \in freeRegs : r # Reg(k)
      BY <1>0, RegsAreRegs DEF Shape, Regs
    <3>4. CASE o = insn.target
      <4>1. ValueIn(intended', o) = ValueIn(store', o)
        BY <1>2, <2>1, <3>2, <3>4, SetHere
      <4>2. o \in DOMAIN map' => o \in Special /\ map'[o] = o
        BY <1>1, <1>2, <1>6, <3>1, <3>4
      <4> QED
        BY <1>1, <3>3, <4>1, <4>2 DEF At
    <3>5. CASE o # insn.target
      <4>1. o \in Matters(pos) /\ IsPlace(o)
        BY <1>0, <1>3, <3>5, MattersStep, MattersArePlaces DEF Typed
      <4>2. /\ ValueIn(intended, o) = At(map, store, o)
            /\ o \in DOMAIN map => \A k \in freeRegs : map[o] # Reg(k)
        BY <1>0, <3>1, <4>1 DEF Meaning, At, Found
      <4>3. ValueIn(intended', o) = ValueIn(intended, o)
        BY <2>1, <3>5, SetElsewhere
      <4> DEFINE loc == IF o \in DOMAIN map THEN map[o] ELSE o
      <4>4. loc # insn.target
        BY <1>0, <1>1, <1>2, <3>5, RegsAreRegs DEF Shape, MapOK
      <4>5. At(map', store', o) = ValueIn(store', loc)
        BY <1>0, <1>1, <1>6 DEF At, Shape, MapOK
      <4>6. ValueIn(store', loc) = ValueIn(store, loc)
        BY <2>1, <4>4, SetElsewhere
      <4>7. o \in DOMAIN map' => \A k \in freeRegs : map'[o] # Reg(k)
        BY <1>1, <1>6, <3>3, <4>2
      <4> QED
        BY <4>2, <4>3, <4>5, <4>6, <4>7 DEF At
    <3> QED
      BY <3>4, <3>5
  <2>4. Holding'
    <3>1. \A o \in Matters(pos + 1) : IsVirtual(o) => o \in Matters(pos)
      BY <1>0, <1>2, <1>3, MattersStep
    <3>2. \A o \in DOMAIN map : o \in DOMAIN map' /\ (map[o] \in Regs => map'[o] = map[o])
      BY <1>0, <1>1, <1>6, RegsAreRegs DEF Shape, MapOK
    <3>3. "lost" \in slips' <=> "lost" \in slips
      BY <1>6 DEF Slip
    <3> QED
      BY <1>0, <1>6, <2>1, <3>1, <3>2, <3>3, Forward DEF Holding, Regs
  <2>5. Result'
    BY <2>1 DEF Result, AllocationKeepsTheMeaning
  <2> QED
    BY <2>2, <2>3, <2>4, <2>5 DEF IInv
<1> QED
  BY <1>5, <1>6 DEF MoveSpecial

(* A MOV between what is not special *)
LEMMA PlainMOV ==
  ASSUME Shape, pos < Last, insn.op = "MOV", Special = {}
  PROVE  /\ insn = INSN("MOV", insn.target, insn.source)
         /\ Uses(insn) = {insn.source} /\ Defines(insn) = {insn.target}
         /\ insn.target \notin Specials /\ insn.source \notin Specials
         /\ insn.target # insn.source
         /\ insn.target \in Operand /\ insn.source \in Operand
         /\ insn.target[1] # "imm"
         /\ IsPlace(insn.target) /\ IsPlace(insn.source)
         /\ \/ IsVirtual(insn.target) /\ ~IsVirtual(insn.source)
            \/ IsMem(insn.target) /\ IsVirtual(insn.source)
         /\ \A o \in {insn.target, insn.source} : IsMem(o) => o \in Memory(block)
         /\ IsVirtual(insn.target) => insn.target \notin DOMAIN map
<1>0. Typed
  BY DEF Shape
<1>1. Uses(insn) = {insn.source} /\ Defines(insn) = {insn.target}
  BY DEF Uses, Defines
<1>2. insn.target \notin Specials /\ insn.source \notin Specials
  BY SpecialsAreSpecial DEF Special
<1>3. /\ IsPlace(insn.target) /\ IsPlace(insn.source) /\ insn.target[1] # "imm"
      /\ insn.target # Output /\ insn.source # Output
  BY <1>0, <1>1, Current
<1>4. \A o \in {insn.target, insn.source} : IsMem(o) => o \in Memory(block)
  BY <1>2, <1>3, SpecialsAreSpecial DEF IsPlace, IsMem, IsVirtual
<1>5. \/ IsVirtual(insn.target) /\ ~IsVirtual(insn.source)
      \/ IsMem(insn.target) /\ IsVirtual(insn.source)
  <2>1. IsSelected(insn)
    BY <1>0, Current
  <2> QED
    BY <1>2, <2>1 DEF IsSelected, IsValue, Specials, IsVirtual
<1>6. IsVirtual(insn.target) => insn.target \notin DOMAIN map
  BY <1>0, <1>1, DefinedOnce DEF Shape, MapOK
<1> QED
  BY <1>0, <1>1, <1>2, <1>3, <1>4, <1>5, <1>6, Current, InsnIs, Kinds

(* A load: what is evicted is written back or not needed. *)
LEMMA StepLoad == ASSUME IInv, Load PROVE IInv'
<1> DEFINE t == insn.target
           x == insn.source
<1>0. /\ Typed /\ Shape /\ Meaning /\ Holding /\ pos < Last /\ status = "running" /\ insn.op = "MOV"
      /\ Special = {} /\ x \notin DOMAIN map
  BY DEF IInv, Shape, Load, Visit
<1>1. PICK a \in Allocations :
        /\ map' = Set(Set(a.map, x, a.reg), t, a.reg)
        /\ freeRegs' = a.free
        /\ slips' = slips \cup Slip("lost", Lost(a))
        /\ Emit(a.store, INSN("MOV", a.reg, x))
  BY DEF Load
<1>2. /\ store' = Set(a.store, a.reg, ValueIn(a.store, x))
      /\ intended' = Set(intended, t, ValueIn(intended, x))
      /\ pos' = pos + 1 /\ block' = block /\ status' = "running"
  <2>1. insn = INSN("MOV", t, x)
    BY <1>0, PlainMOV
  <2> QED
    BY <1>1, <2>1, ExecuteMOV DEF Emit
<1>3. /\ DOMAIN map' = DOMAIN a.map \cup {t, x}
      /\ map'[t] = a.reg /\ map'[x] = a.reg
      /\ \A o \in DOMAIN a.map : o \notin {t, x} => map'[o] = map[o]
      /\ map' = [o \in DOMAIN map' |-> map'[o]]
  <2>1. a.map = [o \in DOMAIN a.map |-> map[o]]
    BY <1>0, AllocationShape
  <2> QED
    BY <1>1, <2>1 DEF Set
<1>4. a.reg \in Regs /\ a.free \subseteq freeRegs /\ DOMAIN a.store = Locations /\ DOMAIN a.map \subseteq DOMAIN map
      /\ \A k \in a.free : a.reg # Reg(k)
  BY <1>0, AllocationShape
<1>5. Shape'
  <2>1. MapOK'
    <3> SUFFICES ASSUME NEW o \in DOMAIN map'
                 PROVE  /\ o \in Operand
                        /\ IF o \in Specials THEN map'[o] = o ELSE map'[o] \in Regs
                        /\ IsMem(o) => o \in Memory(block)'
                        /\ IsVirtual(o) => (\E j \in 1..(pos - 1) : o \in Defines(block[j]))'
      BY <1>3 DEF MapOK, Specials, Regs, Reg, EAX, SP, BP
    <3>1. CASE o \in {t, x}
      BY <1>0, <1>2, <1>3, <1>4, <3>1, PlainMOV, Forward, Current
    <3>2. CASE o \notin {t, x}
      BY <1>0, <1>2, <1>3, <1>4, <3>2, Forward DEF Shape, MapOK
    <3> QED
      BY <3>1, <3>2
  <2>2. DOMAIN store' = DOMAIN a.store \cup {a.reg}
    BY <1>2, SetDomain, Zenon
  <2>3. DOMAIN intended' = DOMAIN intended \cup {t}
    BY <1>2, SetDomain, Zenon
  <2>4. slips' \subseteq {"lost", "clobbered", "freed", "stale"}
    BY <1>0, <1>1 DEF Slip, Shape
  <2>5. a.reg \in Locations
    BY <1>4, LocationsAre
  <2> QED
    BY <1>0, <1>1, <1>2, <1>4, <2>1, <2>2, <2>3, <2>4, <2>5, Forward DEF Shape
<1>6. Meaning'
  <2> SUFFICES ASSUME slips' = {}, NEW o \in Matters(pos + 1)
               PROVE  /\ ValueIn(intended', o) = At(map', store', o)
                      /\ o \in DOMAIN map' => \A k \in a.free : map'[o] # Reg(k)
    BY <1>0, <1>1, <1>2, Forward DEF Meaning, At, Found
  <2>1. slips = {} /\ ~Lost(a)
    BY <1>1 DEF Slip
  <2>2. x \in Needed /\ x \in Matters(pos)
    BY <1>0, PlainMOV, MattersStep DEF Needed
  <2>3. ValueIn(a.store, x) = ValueIn(intended, x)
    <3>1. x \notin DOMAIN a.map
      BY <1>0, <1>4
    <3>2. At(a.map, a.store, x) = Found(x)
      BY <1>0, <2>1, <2>2, AllocationMeaning
    <3> QED
      BY <1>0, <2>1, <2>2, <3>1, <3>2 DEF At, Meaning
  <2>4. ValueIn(store', a.reg) = ValueIn(intended, x)
    BY <1>2, <1>4, <2>3, SetHere, RegsAreRegs
  <2>5. CASE o = t
    <3>1. ValueIn(intended', t) = ValueIn(intended, x)
      BY <1>0, <1>2, SetHere, PlainMOV
    <3> QED
      BY <1>3, <1>4, <2>4, <2>5, <3>1 DEF At
  <2>6. CASE o = x
    <3>1. ValueIn(intended', x) = ValueIn(intended, x)
      BY <1>0, <1>2, SetElsewhere, PlainMOV
    <3> QED
      BY <1>3, <1>4, <2>4, <2>6, <3>1 DEF At
  <2>7. CASE o \notin {t, x}
    <3>1. o \in Needed /\ o \in Matters(pos) /\ IsPlace(o)
      BY <1>0, <1>2, <2>7, Forward, PlainMOV, MattersArePlaces DEF Needed, Typed
    <3>2. /\ At(a.map, a.store, o) = Found(o)
          /\ o \in DOMAIN a.map => map[o] # a.reg
      BY <1>0, <2>1, <3>1, AllocationMeaning
    <3>3. /\ ValueIn(intended, o) = Found(o)
          /\ o \in DOMAIN map => \A k \in freeRegs : map[o] # Reg(k)
      BY <1>0, <2>1, <3>1 DEF Meaning
    <3>4. ValueIn(intended', o) = ValueIn(intended, o)
      BY <1>2, <2>7, SetElsewhere
    <3> DEFINE loc == IF o \in DOMAIN a.map THEN a.map[o] ELSE o
    <3>5. o \in DOMAIN a.map => a.map[o] = map[o]
      <4>1. a.map = [y \in DOMAIN a.map |-> map[y]]
        BY <1>0, AllocationShape
      <4> QED
        BY <4>1, Zenon
    <3>6. loc # a.reg
      BY <1>4, <3>1, <3>2, <3>5, PlacesAreNotRegs
    <3>7. ValueIn(store', loc) = ValueIn(a.store, loc)
      BY <1>2, <3>6, SetElsewhere
    <3>8. At(map', store', o) = ValueIn(store', loc)
      BY <1>3, <2>7, <3>5 DEF At
    <3> QED
      BY <1>3, <1>4, <2>7, <3>2, <3>3, <3>4, <3>7, <3>8 DEF At
  <2> QED
    BY <2>5, <2>6, <2>7
<1>7. Holding'
  <2> SUFFICES ASSUME "lost" \notin slips'
               PROVE  /\ \A o \in Matters(pos + 1) : IsVirtual(o) => o \in DOMAIN map'
                      /\ \A k \in 1..NumRegs : k \in a.free \/ \E o \in DOMAIN map' : map'[o] = Reg(k)
    BY <1>0, <1>1, <1>2, Forward DEF Holding
  <2>1. "lost" \notin slips /\ ~Lost(a)
    BY <1>1 DEF Slip
  <2>2. t \notin DOMAIN map
    <3>1. ~IsVirtual(x)
      BY <1>0, <2>1, PlainMOV, MattersStep DEF Holding
    <3> QED
      BY <1>0, <3>1, PlainMOV
  <2>3. ASSUME NEW o \in Matters(pos + 1), IsVirtual(o), o # t PROVE o \in DOMAIN a.map
    <3>1. o \in Matters(pos)
      BY <1>0, <2>3, PlainMOV, MattersStep
    <3>2. o \in DOMAIN map
      BY <1>0, <2>1, <2>3, <3>1 DEF Holding
    <3> QED
      BY <1>0, <2>1, <2>3, <3>2, AllocationHolds
  <2>4. ASSUME NEW k \in 1..NumRegs, k \notin a.free PROVE \E o \in DOMAIN map' : map'[o] = Reg(k)
    <3>1. Reg(k) = a.reg \/ \E o \in DOMAIN a.map : map[o] = Reg(k)
      BY <1>0, <2>1, <2>4, AllocationHolds DEF Holding
    <3> QED
      BY <1>0, <1>3, <1>4, <2>2, <3>1
  <2> QED
    BY <1>3, <2>3, <2>4
<1>8. Result'
  BY <1>2 DEF Result, AllocationKeepsTheMeaning
<1> QED
  BY <1>5, <1>6, <1>7, <1>8 DEF IInv

(* An alias: the freed register holds nothing else that matters. *)
LEMMA StepAlias == ASSUME IInv, Alias PROVE IInv'
<1> DEFINE t == insn.target
           x == insn.source
<1>0. /\ Typed /\ Shape /\ Meaning /\ Holding /\ pos < Last /\ status = "running" /\ insn.op = "MOV"
      /\ Special = {} /\ x \in DOMAIN map
  BY DEF IInv, Shape, Alias, Visit
<1>1. /\ freeRegs' = freeRegs \cup {k \in 1..NumRegs : Reg(k) \in Freed}
      /\ slips' = slips \cup
           Slip("freed", \E o \in DOMAIN map \cap Matters(pos + 1) : o # t /\ map[o] \in Freed)
      /\ map' = Set(map, t, map[x])
  BY DEF Alias
<1>2. /\ store' = store
      /\ intended' = Set(intended, t, ValueIn(intended, x))
      /\ pos' = pos + 1 /\ block' = block /\ status' = "running"
  <2>1. insn = INSN("MOV", t, x)
    BY <1>0, PlainMOV
  <2>2. Emit(store, INSN("NOP", None, None))
    BY DEF Alias
  <2> QED
    BY <2>1, <2>2, ExecuteMOV, ExecuteNOP DEF Emit
<1>3. /\ DOMAIN map' = DOMAIN map \cup {t}
      /\ map'[t] = map[x]
      /\ \A o \in DOMAIN map : o # t => map'[o] = map[o]
      /\ map' = [o \in DOMAIN map' |-> map'[o]]
  BY <1>1 DEF Set
<1>4. map[x] \in Regs /\ map[x] \notin Freed
  BY <1>0, PlainMOV DEF Shape, MapOK, Freed
<1>5. Shape'
  <2>1. MapOK'
    <3> SUFFICES ASSUME NEW o \in DOMAIN map'
                 PROVE  /\ o \in Operand
                        /\ IF o \in Specials THEN map'[o] = o ELSE map'[o] \in Regs
                        /\ IsMem(o) => o \in Memory(block)'
                        /\ IsVirtual(o) => (\E j \in 1..(pos - 1) : o \in Defines(block[j]))'
      BY <1>3 DEF MapOK, Specials, Regs, Reg, EAX, SP, BP
    <3>1. CASE o = t
      BY <1>0, <1>2, <1>3, <1>4, <3>1, PlainMOV, Forward
    <3>2. CASE o # t
      BY <1>0, <1>2, <1>3, <3>2, Forward DEF Shape, MapOK
    <3> QED
      BY <3>1, <3>2
  <2>2. DOMAIN intended' = DOMAIN intended \cup {t}
    BY <1>2, SetDomain, Zenon
  <2>3. slips' \subseteq {"lost", "clobbered", "freed", "stale"}
    BY <1>0, <1>1 DEF Slip, Shape
  <2> QED
    BY <1>0, <1>1, <1>2, <2>1, <2>2, <2>3, Forward DEF Shape
<1>6. Meaning'
  <2> SUFFICES ASSUME slips' = {}, NEW o \in Matters(pos + 1)
               PROVE  /\ ValueIn(intended', o) = At(map', store, o)
                      /\ o \in DOMAIN map' => \A k \in freeRegs' : map'[o] # Reg(k)
    BY <1>0, <1>2, Forward DEF Meaning, At, Found
  <2>1. /\ slips = {}
        /\ \A y \in DOMAIN map \cap Matters(pos + 1) : y # t => map[y] \notin Freed
    BY <1>1 DEF Slip
  <2>2. x \in Matters(pos)
    BY <1>0, PlainMOV, MattersStep
  <2>3. CASE o = t
    <3>1. ValueIn(intended', t) = ValueIn(intended, x)
      BY <1>0, <1>2, SetHere, PlainMOV
    <3>2. /\ ValueIn(intended, x) = ValueIn(store, map[x])
          /\ \A k \in freeRegs : map[x] # Reg(k)
      BY <1>0, <2>1, <2>2 DEF Meaning, Found
    <3> QED
      BY <1>1, <1>3, <1>4, <2>3, <3>1, <3>2 DEF At
  <2>4. CASE o # t
    <3>1. o \in Matters(pos)
      BY <1>0, <2>4, MattersStep, PlainMOV
    <3>2. /\ ValueIn(intended, o) = At(map, store, o)
          /\ o \in DOMAIN map => \A k \in freeRegs : map[o] # Reg(k)
      BY <1>0, <2>1, <3>1 DEF Meaning, Found, At
    <3>3. ValueIn(intended', o) = ValueIn(intended, o)
      BY <1>2, <2>4, SetElsewhere
    <3> QED
      BY <1>1, <1>3, <2>1, <2>4, <3>2, <3>3 DEF At
  <2> QED
    BY <2>3, <2>4
<1>7. Holding'
  <2> SUFFICES ASSUME "lost" \notin slips'
               PROVE  /\ \A o \in Matters(pos + 1) : IsVirtual(o) => o \in DOMAIN map'
                      /\ \A k \in 1..NumRegs : k \in freeRegs' \/ \E o \in DOMAIN map' : map'[o] = Reg(k)
    BY <1>0, <1>2, Forward DEF Holding
  <2>1. "lost" \notin slips
    BY <1>1
  <2>2. ASSUME NEW o \in Matters(pos + 1), IsVirtual(o), o # t PROVE o \in DOMAIN map
    BY <1>0, <2>1, <2>2, PlainMOV, MattersStep DEF Holding
  <2>3. ASSUME NEW k \in 1..NumRegs, k \notin freeRegs' PROVE \E o \in DOMAIN map' : map'[o] = Reg(k)
    <3>1. PICK o \in DOMAIN map : map[o] = Reg(k)
      BY <1>0, <1>1, <2>1, <2>3 DEF Holding
    <3>2. CASE o # t
      BY <1>3, <3>1, <3>2
    <3>3. CASE o = t
      <4>1. IsMem(t)
        BY <1>0, <3>3, PlainMOV
      <4>2. map[t] = map[x]
        BY <1>1, <2>3, <3>1, <3>3, <4>1 DEF Freed
      <4> QED
        BY <1>0, <1>3, <3>1, <3>3, <4>2
    <3> QED
      BY <3>2, <3>3
  <2> QED
    BY <1>3, <2>2, <2>3
<1>8. Result'
  BY <1>2 DEF Result, AllocationKeepsTheMeaning
<1> QED
  BY <1>5, <1>6, <1>7, <1>8 DEF IInv

(* Arithmetic: both operands are values, or the stack pointer is moved. *)
LEMMA Arithmetic ==
  ASSUME Shape, pos < Last, insn.op = "ARITH"
  PROVE  /\ insn = INSN("ARITH", insn.target, insn.source)
         /\ Uses(insn) = {insn.target, insn.source} /\ Defines(insn) = {}
         /\ insn.target[1] # "imm" /\ insn.target # Output /\ insn.source # Output
         /\ IsVirtual(insn.target) \/ insn.target \in Specials
         /\ IsVirtual(insn.target) => IsVirtual(insn.source) \/ insn.source \in Specials
         /\ IsVirtual(insn.source) \/ insn.source \in Specials \/ insn.source[1] = "imm"
         /\ ~IsMem(insn.target) /\ ~IsMem(insn.source)
<1>0. Typed
  BY DEF Shape
<1>1. Uses(insn) = {insn.target, insn.source} /\ Defines(insn) = {}
  BY DEF Uses, Defines
<1>2. insn.target # Output /\ insn.source # Output
  BY <1>0, <1>1, Current
<1>3. \/ IsValue(insn.target) /\ IsValue(insn.source)
      \/ insn.target = SP /\ insn.source[1] = "imm"
  BY <1>0, Current DEF IsSelected
<1>4. \A o : IsValue(o) => (IsVirtual(o) \/ o \in Specials) /\ o[1] # "imm" /\ ~IsMem(o)
  BY SpecialsAreSpecial, Kinds DEF IsValue
<1>5. insn = INSN("ARITH", insn.target, insn.source)
  BY <1>0, Current, InsnIs
<1> QED
  BY <1>1, <1>2, <1>3, <1>4, <1>5, SpecialsAreSpecial DEF IsVirtual, IsMem

(* Arithmetic in place: nothing that matters shares the target's register. *)
LEMMA StepArithmeticInPlace == ASSUME IInv, ArithmeticInPlace PROVE IInv'
<1> DEFINE t == insn.target
           x == insn.source
           rt == Rewrite(map, t)
           rx == Rewrite(map, x)
<1>0. /\ Typed /\ Shape /\ Meaning /\ Holding /\ pos < Last /\ status = "running" /\ insn.op = "ARITH"
      /\ InRegister(map, t) /\ InRegister(map, x)
      /\ IsVirtual(t) => ~TargetIsShared
      /\ map' = map /\ freeRegs' = freeRegs
  BY DEF IInv, Shape, ArithmeticInPlace, Visit
<1>1. slips' = slips \cup
        Slip("clobbered", IsVirtual(t) /\ \E o \in Sharing(map[t]) \cap Matters(pos + 1) : IsMem(o) /\ isLastUse(o))
  BY DEF ArithmeticInPlace
<1>2. /\ store' = Set(store, rt, <<"op", 0>> \o ValueIn(store, rt) \o ValueIn(store, rx))
      /\ intended' = Set(intended, t, <<"op", 0>> \o ValueIn(intended, t) \o ValueIn(intended, x))
      /\ pos' = pos + 1 /\ block' = block /\ status' = "running"
  <2>1. insn = INSN("ARITH", t, x)
    BY <1>0, Arithmetic
  <2>2. Emit(store, INSN("ARITH", rt, rx))
    BY DEF ArithmeticInPlace
  <2> QED
    BY <2>1, <2>2, ExecuteARITH DEF Emit
<1>3. /\ IsVirtual(t) => t \in DOMAIN map /\ rt = map[t] /\ rt \in Regs
      /\ ~IsVirtual(t) => rt = t /\ t \in Specials /\ (t \in DOMAIN map => map[t] = t)
      /\ IsVirtual(x) => x \in DOMAIN map /\ rx = map[x] /\ rx \in Regs
      /\ ~IsVirtual(x) => rx = x
      /\ x \in Specials /\ x \in DOMAIN map => map[x] = x
  BY <1>0, Arithmetic, SpecialsAreSpecial DEF InRegister, Rewrite, Shape, MapOK
<1>4. rt \in Locations /\ rt[1] # "imm"
  BY <1>0, <1>3, Arithmetic, LocationsAre, RegsAreRegs
<1>5. Shape'
  <2>1. MapOK'
    BY <1>0, <1>2, Forward DEF Shape, MapOK
  <2>2. DOMAIN store' = DOMAIN store \cup {rt}
    BY <1>2, SetDomain, Zenon
  <2>3. DOMAIN intended' = DOMAIN intended \cup {t}
    BY <1>2, SetDomain, Zenon
  <2>4. slips' \subseteq {"lost", "clobbered", "freed", "stale"}
    BY <1>0, <1>1 DEF Slip, Shape
  <2> QED
    BY <1>0, <1>2, <1>4, <2>1, <2>2, <2>3, <2>4, Forward DEF Shape
<1>6. Meaning'
  <2> SUFFICES ASSUME slips' = {}, NEW o \in Matters(pos + 1)
               PROVE  /\ ValueIn(intended', o) = At(map, store', o)
                      /\ o \in DOMAIN map => \A k \in freeRegs : map[o] # Reg(k)
    BY <1>0, <1>2, Forward DEF Meaning, At, Found
  <2>1. slips = {} /\ (IsVirtual(t) => \A y \in DOMAIN map \cap Matters(pos + 1) : map[y] = map[t] => y = t)
    <3>1. slips = {} /\ (IsVirtual(t) => \A y \in Sharing(map[t]) \cap Matters(pos + 1) : ~(IsMem(y) /\ isLastUse(y)))
      BY <1>1 DEF Slip
    <3> SUFFICES ASSUME IsVirtual(t), NEW y \in DOMAIN map \cap Matters(pos + 1), map[y] = map[t], y # t
                 PROVE  FALSE
      BY <3>1
    <3>2. y \in Sharing(map[t]) /\ isLastUse(y)
      BY <1>0 DEF TargetIsShared, Sharing
    <3>3. y \notin Specials /\ y # Output
      BY <1>0, <1>3, RegsAreRegs, OutputInOperand DEF Shape, MapOK
    <3>4. y \in Outlives
      BY <1>0, <3>2, <3>3, LastUse, SpecialsAreSpecial
    <3> QED
      BY <3>1, <3>2, <3>3, <3>4 DEF Outlives, Specials, Memory
  <2>2. \A y \in Matters(pos) : /\ ValueIn(intended, y) = At(map, store, y)
                                /\ y \in DOMAIN map => \A k \in freeRegs : map[y] # Reg(k)
    BY <1>0, <2>1 DEF Meaning, At, Found
  <2>3. t \in Matters(pos) /\ x \in Matters(pos) /\ o \in Matters(pos)
    BY <1>0, MattersStep, Arithmetic
  <2>4. ValueIn(intended, t) = ValueIn(store, rt)
    BY <1>3, <2>2, <2>3 DEF At
  <2>5. ValueIn(intended, x) = ValueIn(store, rx)
    <3>1. CASE x[1] = "imm"
      BY <1>3, <3>1, Kinds DEF ValueIn
    <3>2. CASE x[1] # "imm"
      BY <1>0, <1>3, <2>2, <2>3, <3>2, Arithmetic DEF At
    <3> QED
      BY <3>1, <3>2
  <2>6. CASE o = t
    <3>1. ValueIn(intended', t) = <<"op", 0>> \o ValueIn(intended, t) \o ValueIn(intended, x)
      <4>1. t[1] # "imm"
        BY <1>0, Arithmetic
      <4> QED
        BY <1>2, <4>1, SetHere
    <3>2. ValueIn(store', rt) = <<"op", 0>> \o ValueIn(store, rt) \o ValueIn(store, rx)
      BY <1>2, <1>4, SetHere
    <3>3. At(map, store', t) = ValueIn(store', rt)
      BY <1>3 DEF At
    <3> QED
      BY <2>2, <2>3, <2>4, <2>5, <2>6, <3>1, <3>2, <3>3
  <2>7. CASE o # t
    <3>1. ValueIn(intended', o) = ValueIn(intended, o)
      BY <1>2, <2>7, SetElsewhere
    <3> DEFINE loc == IF o \in DOMAIN map THEN map[o] ELSE o
    <3>2. loc # rt
      <4>1. IsPlace(o)
        BY <1>0, <2>3, MattersArePlaces DEF Typed
      <4>2. CASE o \in DOMAIN map /\ IsVirtual(t)
        BY <1>3, <2>1, <2>7, <4>2
      <4>3. CASE o \notin DOMAIN map /\ IsVirtual(t)
        BY <1>3, <4>1, <4>3, PlacesAreNotRegs
      <4>4. CASE ~IsVirtual(t)
        BY <1>0, <1>3, <2>7, <4>4, RegsAreRegs DEF Shape, MapOK
      <4> QED
        BY <4>2, <4>3, <4>4
    <3>3. ValueIn(store', loc) = ValueIn(store, loc)
      BY <1>2, <3>2, SetElsewhere
    <3> QED
      BY <2>2, <2>3, <3>1, <3>3 DEF At
  <2> QED
    BY <2>6, <2>7
<1>7. Holding'
  <2>1. "lost" \in slips' <=> "lost" \in slips
    BY <1>1 DEF Slip
  <2>2. \A o \in Matters(pos + 1) : o \in Matters(pos)
    BY <1>0, MattersStep, Arithmetic
  <2> QED
    BY <1>0, <1>2, <2>1, <2>2, Forward DEF Holding
<1>8. Result'
  BY <1>2 DEF Result, AllocationKeepsTheMeaning
<1> QED
  BY <1>5, <1>6, <1>7, <1>8 DEF IInv

(* Arithmetic that is moved: the target gets a register of its own. *)
LEMMA StepArithmeticMoved == ASSUME IInv, ArithmeticMoved PROVE IInv'
<1> DEFINE t == insn.target
           x == insn.source
           from(a) == IF t \in DOMAIN a.map THEN map[t] ELSE None
<1>0. /\ Typed /\ Shape /\ Meaning /\ Holding /\ pos < Last /\ status = "running" /\ insn.op = "ARITH"
      /\ IsVirtual(t) /\ t \in DOMAIN map /\ TargetIsShared
  BY DEF IInv, Shape, ArithmeticMoved, Visit
<1>1. CASE /\ status' = "aborted"
           /\ slips' = slips \cup {"lost"}
           /\ UNCHANGED <<block, pos, map, freeRegs, store, intended>>
  BY <1>0, <1>1 DEF IInv, Shape, Typed, Last, MapOK, Locations, Outlives, Memory, Meaning, Holding,
                   Result, AllocationKeepsTheMeaning
<1>2. ASSUME NEW a \in Allocations,
             InRegister(Set(a.map, t, a.reg), x),
             map' = Set(a.map, t, a.reg),
             freeRegs' = a.free,
             slips' = slips \cup Slip("lost", Lost(a)),
             Emit(Execute(a.store, INSN("MOV", a.reg, from(a)), pos), INSN("ARITH", a.reg, Rewrite(map', x)))
      PROVE  IInv'
  <2> DEFINE rx == Rewrite(map', x)
             s == Set(a.store, a.reg, ValueIn(a.store, from(a)))
  <2>1. /\ store' = Set(s, a.reg, <<"op", 0>> \o ValueIn(s, a.reg) \o ValueIn(s, rx))
        /\ intended' = Set(intended, t, <<"op", 0>> \o ValueIn(intended, t) \o ValueIn(intended, x))
        /\ pos' = pos + 1 /\ block' = block /\ status' = "running"
    <3>1. insn = INSN("ARITH", t, x)
      BY <1>0, Arithmetic
    <3> QED
      BY <1>2, <3>1, ExecuteARITH, ExecuteMOV DEF Emit
  <2>2. /\ a.reg \in Regs /\ a.free \subseteq freeRegs /\ DOMAIN a.store = Locations /\ DOMAIN a.map \subseteq DOMAIN map
        /\ \A k \in a.free : a.reg # Reg(k)
        /\ \A o \in DOMAIN a.map : a.map[o] = map[o]
        /\ a.reg[1] # "imm"
    <3>1. a.map = [o \in DOMAIN a.map |-> map[o]]
      BY <1>0, AllocationShape
    <3>2. \A o \in DOMAIN a.map : a.map[o] = map[o]
      BY <3>1, Zenon
    <3> QED
      BY <1>0, <3>2, AllocationShape, RegsAreRegs
  <2>3. /\ DOMAIN map' = DOMAIN a.map \cup {t}
        /\ map'[t] = a.reg
        /\ \A o \in DOMAIN a.map : o # t => map'[o] = map[o]
        /\ map' = [o \in DOMAIN map' |-> map'[o]]
    BY <1>2, <2>2 DEF Set
  <2>4. Shape'
    <3>1. MapOK'
      <4> SUFFICES ASSUME NEW o \in DOMAIN map'
                   PROVE  /\ o \in Operand
                          /\ IF o \in Specials THEN map'[o] = o ELSE map'[o] \in Regs
                          /\ IsMem(o) => o \in Memory(block)'
                          /\ IsVirtual(o) => (\E j \in 1..(pos - 1) : o \in Defines(block[j]))'
        BY <2>3 DEF MapOK, Specials, Regs, Reg, EAX, SP, BP
      <4>1. o \in DOMAIN map
        BY <1>0, <2>2, <2>3
      <4>2. t \notin Specials
        BY <1>0, SpecialsAreSpecial
      <4> QED
        BY <1>0, <2>1, <2>2, <2>3, <4>1, <4>2, Forward DEF Shape, MapOK
    <3>2. DOMAIN store' = DOMAIN a.store \cup {a.reg}
      <4>1. DOMAIN store' = DOMAIN s \cup {a.reg}
        BY <2>1, SetDomain, Zenon
      <4>2. DOMAIN s = DOMAIN a.store \cup {a.reg}
        BY SetDomain, Zenon
      <4> QED
        BY <4>1, <4>2
    <3>3. DOMAIN intended' = DOMAIN intended \cup {t}
      BY <2>1, SetDomain, Zenon
    <3>4. slips' \subseteq {"lost", "clobbered", "freed", "stale"}
      BY <1>0, <1>2 DEF Slip, Shape
    <3>5. a.reg \in Locations
      BY <2>2, LocationsAre
    <3> QED
      BY <1>0, <1>2, <2>1, <2>2, <3>1, <3>2, <3>3, <3>4, <3>5, Forward DEF Shape
  <2>5. Meaning'
    <3> SUFFICES ASSUME slips' = {}, NEW o \in Matters(pos + 1)
                 PROVE  /\ ValueIn(intended', o) = At(map', store', o)
                        /\ o \in DOMAIN map' => \A k \in a.free : map'[o] # Reg(k)
      BY <1>0, <1>2, <2>1, Forward DEF Meaning, At, Found
    <3>1. slips = {} /\ ~Lost(a)
      BY <1>2 DEF Slip
    <3>2. \A y \in Needed : /\ ValueIn(intended, y) = At(a.map, a.store, y)
                            /\ y \in DOMAIN a.map => map[y] # a.reg
                            /\ IsPlace(y)
                            /\ y \in DOMAIN map => \A k \in freeRegs : map[y] # Reg(k)
      <4>1. \A y \in Needed : y \in Matters(pos)
        BY <1>0, MattersStep DEF Needed
      <4>2. \A y \in Matters(pos) : IsPlace(y)
        BY <1>0, MattersArePlaces DEF Typed
      <4>3. \A y \in Needed : At(a.map, a.store, y) = Found(y) /\ (y \in DOMAIN a.map => map[y] # a.reg)
        BY <1>0, <3>1, AllocationMeaning
      <4> QED
        BY <1>0, <3>1, <4>1, <4>2, <4>3 DEF Meaning
    <3>3. t \in Needed /\ x \in Needed /\ (o \in Needed)
      BY <1>0, <2>1, Arithmetic, Forward DEF Needed
    <3>4. t \in DOMAIN a.map
      BY <1>0, <3>1, <3>3, AllocationMeaning
    <3>5. ValueIn(s, a.reg) = ValueIn(intended, t)
      <4>1. ValueIn(s, a.reg) = ValueIn(a.store, map[t])
        BY <2>2, <3>4, SetHere
      <4> QED
        BY <2>2, <3>2, <3>3, <3>4, <4>1 DEF At
    <3>6. ValueIn(s, rx) = ValueIn(intended, x)
      <4>1. CASE x = t
        BY <1>0, <2>3, <3>5, <4>1 DEF Rewrite
      <4>2. CASE x # t /\ IsVirtual(x)
        <5>1. x \in DOMAIN map'
          BY <1>2, <4>2 DEF InRegister
        <5>2. x \in DOMAIN a.map /\ rx = map[x]
          BY <2>3, <4>2, <5>1 DEF Rewrite
        <5>3. ValueIn(s, rx) = ValueIn(a.store, rx)
          BY <3>2, <3>3, <5>2, SetElsewhere
        <5> QED
          BY <2>2, <3>2, <3>3, <5>2, <5>3 DEF At
      <4>3. CASE x # t /\ ~IsVirtual(x)
        <5>1. x \in Specials /\ rx = x /\ (x \in DOMAIN a.map => a.map[x] = x)
          BY <1>0, <2>2, <4>3, Arithmetic DEF Rewrite, Shape, MapOK
        <5>2. x # a.reg
          BY <2>2, <5>1, RegsAreRegs
        <5>3. ValueIn(s, rx) = ValueIn(a.store, x)
          BY <5>1, <5>2, SetElsewhere
        <5> QED
          BY <3>2, <3>3, <5>1, <5>3 DEF At
      <4> QED
        BY <4>1, <4>2, <4>3
    <3>7. CASE o = t
      <4>1. ValueIn(intended', t) = <<"op", 0>> \o ValueIn(intended, t) \o ValueIn(intended, x)
        <5>1. t[1] # "imm"
          BY <1>0, Kinds
        <5> QED
          BY <2>1, <5>1, SetHere
      <4>2. ValueIn(store', a.reg) = <<"op", 0>> \o ValueIn(s, a.reg) \o ValueIn(s, rx)
        <5>1. store' = Set(s, a.reg, <<"op", 0>> \o ValueIn(s, a.reg) \o ValueIn(s, rx))
          BY <2>1
        <5>2. a.reg[1] # "imm"
          BY <2>2
        <5> HIDE DEF s, rx
        <5> QED
          BY <5>1, <5>2, SetHere, Zenon
      <4>3. At(map', store', t) = ValueIn(store', a.reg)
        BY <2>3 DEF At
      <4> QED
        BY <2>2, <2>3, <3>5, <3>6, <3>7, <4>1, <4>2, <4>3
    <3>8. CASE o # t
      <4> DEFINE loc == IF o \in DOMAIN a.map THEN map[o] ELSE o
      <4>1. ValueIn(intended', o) = ValueIn(intended, o)
        BY <2>1, <3>8, SetElsewhere
      <4>2. loc # a.reg
        BY <2>2, <3>2, <3>3, PlacesAreNotRegs
      <4>3. ValueIn(store', loc) = ValueIn(s, loc) /\ ValueIn(s, loc) = ValueIn(a.store, loc)
        BY <2>1, <4>2, SetElsewhere
      <4>4. At(map', store', o) = ValueIn(store', loc) /\ At(a.map, a.store, o) = ValueIn(a.store, loc)
        BY <2>2, <2>3, <3>8 DEF At
      <4> QED
        BY <2>2, <2>3, <3>2, <3>3, <3>8, <4>1, <4>3, <4>4
    <3> QED
      BY <3>7, <3>8
  <2>6. Holding'
    <3> SUFFICES ASSUME "lost" \notin slips'
                 PROVE  /\ \A o \in Matters(pos + 1) : IsVirtual(o) => o \in DOMAIN map'
                        /\ \A k \in 1..NumRegs : k \in a.free \/ \E o \in DOMAIN map' : map'[o] = Reg(k)
      BY <1>0, <1>2, <2>1, Forward DEF Holding
    <3>1. "lost" \notin slips /\ ~Lost(a)
      BY <1>2 DEF Slip
    <3>2. ASSUME NEW o \in Matters(pos + 1), IsVirtual(o) PROVE o \in DOMAIN a.map
      <4>1. o \in Matters(pos)
        BY <1>0, Arithmetic, MattersStep
      <4>2. o \in DOMAIN map
        BY <1>0, <3>1, <3>2, <4>1 DEF Holding
      <4> QED
        BY <1>0, <3>1, <3>2, <4>2, AllocationHolds
    <3>3. ASSUME NEW k \in 1..NumRegs, k \notin a.free PROVE \E o \in DOMAIN map' : map'[o] = Reg(k)
      <4>1. Reg(k) = a.reg \/ \E o \in DOMAIN a.map : map[o] = Reg(k)
        BY <1>0, <3>1, <3>3, AllocationHolds DEF Holding
      <4>2. CASE Reg(k) = a.reg
        BY <2>3, <4>2
      <4>3. ASSUME Reg(k) # a.reg, NEW o \in DOMAIN a.map, map[o] = Reg(k)
            PROVE  \E y \in DOMAIN map' : map'[y] = Reg(k)
        <5>1. CASE o # t
          BY <2>3, <4>3, <5>1
        <5>2. CASE o = t
          <6>1. PICK y \in DOMAIN map : map[y] = map[t] /\ y # t
            BY <1>0 DEF TargetIsShared, Sharing
          <6>2. y \in DOMAIN a.map
            BY <1>0, <4>3, <5>2, <6>1, AllocationHolds
          <6> QED
            BY <2>3, <4>3, <5>2, <6>1, <6>2
        <5> QED
          BY <5>1, <5>2
      <4> QED
        BY <4>1, <4>2, <4>3
    <3> QED
      BY <2>3, <3>2, <3>3
  <2>7. Result'
    BY <2>1 DEF Result, AllocationKeepsTheMeaning
  <2> QED
    BY <2>4, <2>5, <2>6, <2>7 DEF IInv
<1> QED
  BY <1>1, <1>2 DEF ArithmeticMoved

(* A failing look-up: a needed virtual register was evicted before. *)
LEMMA StepUnmapped == ASSUME IInv, Unmapped PROVE IInv'
<1>0. Typed /\ Shape /\ Holding /\ pos < Last /\ status = "running"
  BY DEF IInv, Shape, Unmapped, Visit
<1>1. \E o \in {insn.target, insn.source} : IsVirtual(o) /\ o \notin DOMAIN map /\ o \in Uses(insn)
  <2>1. insn.op \in {"ARITH", "CMP", "PUSH"} /\ (~InRegister(map, insn.target) \/ ~InRegister(map, insn.source))
    BY DEF Unmapped, Visit
  <2>2. insn.op = "PUSH" => insn.target = None
    BY <1>0, Current DEF IsSelected
  <2>3. ~IsVirtual(None)
    BY DEF IsVirtual, None
  <2> QED
    BY <2>1, <2>2, <2>3 DEF InRegister, Uses
<1>2. "lost" \in slips
  BY <1>0, <1>1, MattersStep DEF Holding
<1> QED
  BY <1>0, <1>2 DEF Unmapped, Abort, IInv, Shape, Typed, Last, MapOK, Locations, Outlives, Memory, Meaning, Holding,
                   Result, AllocationKeepsTheMeaning

(* The end of the block: memory is written back. *)
LEMMA StepFinish == ASSUME IInv, Finish PROVE IInv'
<1>0. /\ Typed /\ Shape /\ Meaning /\ Holding /\ pos = Last /\ status = "running"
      /\ freeRegs' = freeRegs \cup {k \in 1..NumRegs : \E o \in DOMAIN map : map[o] = Reg(k)}
      /\ store' = WriteBack(DOMAIN map)
      /\ map' = [o \in {} |-> None]
      /\ status' = IF freeRegs' = 1..NumRegs THEN "done" ELSE "aborted"
      /\ block' = block /\ pos' = pos /\ intended' = intended /\ slips' = slips
  BY DEF IInv, Shape, Finish
<1>1. Outlives' = Outlives /\ Locations' = Locations /\ Typed'
  BY <1>0 DEF Outlives, Memory, Locations, Typed, Last
<1>2. Shape'
  <2>1. DOMAIN store' = DOMAIN store
    BY <1>0 DEF WriteBack
  <2>2. DOMAIN map' = {} /\ map' = [o \in {} |-> None]
    BY <1>0
  <2>3. MapOK'
    BY <2>2 DEF MapOK
  <2>4. freeRegs' \subseteq 1..NumRegs /\ status' \in {"running", "done", "aborted"}
    BY <1>0 DEF Shape
  <2> QED
    BY <1>0, <1>1, <2>1, <2>3, <2>4 DEF Shape
<1>3. Meaning'
  BY <1>0 DEF Meaning
<1>4. Holding'
  BY <1>0 DEF Holding, Shape
<1>5. Result'
  <2> SUFFICES ASSUME slips = {}, NEW o \in Outlives PROVE store'[o] = intended[o]
    BY <1>0, <1>1 DEF Result, AllocationKeepsTheMeaning
  <2>1. o \in Matters(pos) /\ IsPlace(o) /\ ~IsVirtual(o) /\ o[1] # "imm"
    BY <1>0, NothingToComeAtLast, SpecialsAreSpecial, Kinds DEF IsPlace, Outlives, Specials, Memory
  <2>2. ValueIn(intended, o) = Found(o)
    BY <1>0, <2>1 DEF Meaning
  <2>3. o \in DOMAIN store /\ o \in DOMAIN intended
    BY <1>0, LocationsAre DEF Shape
  <2>4. intended[o] = Found(o)
    BY <2>1, <2>2, <2>3 DEF ValueIn
  <2>5. store'[o] = IF o \in DOMAIN map /\ IsMem(o) THEN store[map[o]] ELSE store[o]
    BY <1>0, <2>3 DEF WriteBack
  <2>6. CASE o \in DOMAIN map /\ IsMem(o)
    <3>1. map[o] \in Regs
      BY <1>0, <2>6, SpecialsAreSpecial DEF Shape, MapOK
    <3>2. map[o][1] # "imm" /\ map[o] \in DOMAIN store
      BY <1>0, <3>1, RegsAreRegs, LocationsAre DEF Shape
    <3> QED
      BY <2>4, <2>5, <2>6, <3>2 DEF Found, ValueIn
  <2>7. CASE o \notin DOMAIN map
    BY <2>1, <2>3, <2>4, <2>5, <2>7 DEF Found, ValueIn
  <2>8. CASE o \in DOMAIN map /\ ~IsMem(o)
    <3>1. o \in Specials
      BY <1>0, <2>1, <2>8, OutputInOperand DEF IsPlace, Shape, MapOK
    <3>2. map[o] = o
      BY <1>0, <2>8, <3>1 DEF Shape, MapOK
    <3> QED
      BY <2>1, <2>3, <2>4, <2>5, <2>8, <3>2 DEF Found, ValueIn
  <2> QED
    BY <2>6, <2>7, <2>8
<1> QED
  BY <1>2, <1>3, <1>4, <1>5 DEF IInv

(* What an instruction reads has the same value where the rewritten one reads it. *)
LEMMA ReadsTheSame ==
  ASSUME Shape, Meaning, status = "running", slips = {}, pos < Last, NEW o \in Uses(insn), InRegister(map, o),
         ~IsMem(o)
  PROVE  ValueIn(store, Rewrite(map, o)) = ValueIn(intended, o)
<1>1. o \in Matters(pos) /\ IsPlace(o) /\ o # Output
  BY MattersStep, Current DEF Shape
<1>2. ValueIn(intended, o) = Found(o)
  BY <1>1 DEF Meaning
<1>3. CASE IsVirtual(o)
  BY <1>2, <1>3 DEF InRegister, Rewrite, Found
<1>4. CASE o \in Specials
  BY <1>2, <1>4, SpecialsAreSpecial DEF Rewrite, Found, Shape, MapOK
<1>5. CASE o[1] = "imm"
  BY <1>5, Kinds DEF Rewrite, ValueIn
<1> QED
  BY <1>1, <1>3, <1>4, <1>5 DEF IsPlace

(* Reading instructions: they see and leave the same. *)
LEMMA StepRead == ASSUME IInv, Read PROVE IInv'
<1> DEFINE t == insn.target
           x == insn.source
           rt == Rewrite(map, t)
           rx == Rewrite(map, x)
<1>0. /\ Typed /\ Shape /\ Meaning /\ Holding /\ pos < Last /\ status = "running"
      /\ insn.op \in {"CMP", "PUSH", "CALL"}
      /\ InRegister(map, t) /\ InRegister(map, x)
      /\ map' = map /\ freeRegs' = freeRegs /\ slips' = slips
      /\ pos' = pos + 1 /\ block' = block /\ status' = "running"
  BY DEF IInv, Shape, Read, Visit, Emit
<1>1. Defines(insn) = {} /\ \A o \in Matters(pos + 1) : o \in Matters(pos)
  <2>1. Defines(insn) = {}
    BY <1>0 DEF Defines
  <2> QED
    BY <1>0, <2>1, MattersStep
<1>2. Output \in Matters(pos) /\ Output \notin DOMAIN map
  <2>1. \A j \in pos..Last : Output \notin Defines(block[j])
    BY <1>0, UsesArePlaces, InputIsBlock DEF Typed, Last
  <2> QED
    BY <1>0, <2>1, LocationsAre, OutputInOperand DEF Matters, Shape, MapOK
<1>3. \E c \in {Output, EAX} : \E v, w :
        /\ store' = Set(store, c, v) /\ intended' = Set(intended, c, w)
        /\ slips = {} => v = w
  <2>1. insn = INSN(insn.op, t, x)
    BY <1>0, Current, InsnIs
  <2>2. store' = Execute(store, INSN(insn.op, rt, rx), pos) /\ intended' = Execute(intended, INSN(insn.op, t, x), pos)
    BY <2>1 DEF Read, Emit
  <2>3. slips = {} => store[Output] = intended[Output]
    <3>1. Output[1] # "imm" /\ Output \in DOMAIN store /\ Output \in DOMAIN intended
      BY <1>0, SpecialsAreSpecial, LocationsAre DEF Shape
    <3> QED
      BY <1>0, <1>2, <3>1 DEF Meaning, Found, ValueIn
  <2>4. insn.op \in {"CMP", "PUSH"} => ~IsMem(x) /\ x \in Uses(insn)
    BY <1>0, Current, SpecialsAreSpecial, Kinds DEF IsSelected, IsValue, Uses
  <2>5. insn.op = "CMP" => ~IsMem(t) /\ t \in Uses(insn)
    BY <1>0, Current, SpecialsAreSpecial, Kinds DEF IsSelected, IsValue, Uses
  <2>6. CASE insn.op = "CMP"
    <3>1. slips = {} => ValueIn(store, rt) = ValueIn(intended, t) /\ ValueIn(store, rx) = ValueIn(intended, x)
      BY <1>0, <2>4, <2>5, <2>6, ReadsTheSame
    <3>2. /\ store' = Set(store, Output, store[Output] \o ValueIn(store, rt) \o ValueIn(store, rx))
          /\ intended' = Set(intended, Output, intended[Output] \o ValueIn(intended, t) \o ValueIn(intended, x))
      BY <2>2, <2>6, ExecuteCMP
    <3>3. slips = {} => store[Output] \o ValueIn(store, rt) \o ValueIn(store, rx)
                          = intended[Output] \o ValueIn(intended, t) \o ValueIn(intended, x)
      BY <2>3, <3>1
    <3> QED
      BY <3>2, <3>3, Zenon
  <2>7. CASE insn.op = "PUSH"
    <3>1. slips = {} => ValueIn(store, rx) = ValueIn(intended, x)
      BY <1>0, <2>4, <2>7, ReadsTheSame
    <3>2. /\ store' = Set(store, Output, store[Output] \o ValueIn(store, rx))
          /\ intended' = Set(intended, Output, intended[Output] \o ValueIn(intended, x))
      BY <2>2, <2>7, ExecutePUSH
    <3>3. slips = {} => store[Output] \o ValueIn(store, rx) = intended[Output] \o ValueIn(intended, x)
      BY <2>3, <3>1
    <3> QED
      BY <3>2, <3>3, Zenon
  <2>8. CASE insn.op = "CALL"
    <3>1. store' = Set(store, EAX, <<"call", pos>>) /\ intended' = Set(intended, EAX, <<"call", pos>>)
      BY <2>2, <2>8, ExecuteCALL
    <3> QED
      BY <3>1, Zenon
  <2> QED
    BY <1>0, <2>6, <2>7, <2>8
<1>4. PICK c \in {Output, EAX} : \E v, w :
        /\ store' = Set(store, c, v) /\ intended' = Set(intended, c, w)
        /\ slips = {} => v = w
  BY <1>3
<1>5. PICK v, w : /\ store' = Set(store, c, v) /\ intended' = Set(intended, c, w)
                  /\ slips = {} => v = w
  BY <1>4
<1>6. c[1] # "imm" /\ c \in Outlives /\ c \in Locations /\ (c \in DOMAIN map => map[c] = c)
  BY <1>0, <1>2, SpecialsAreSpecial, LocationsAre DEF Shape, MapOK
<1>7. Shape'
  <2>1. MapOK'
    BY <1>0, Forward DEF Shape, MapOK
  <2>2. DOMAIN store' = DOMAIN store \cup {c} /\ DOMAIN intended' = DOMAIN intended \cup {c}
    BY <1>5, SetDomain, Zenon
  <2> QED
    BY <1>0, <1>6, <2>1, <2>2, Forward DEF Shape
<1>8. Meaning'
  <2> SUFFICES ASSUME slips = {}, NEW o \in Matters(pos + 1)
               PROVE  /\ ValueIn(intended', o) = At(map, store', o)
                      /\ o \in DOMAIN map => \A k \in freeRegs : map[o] # Reg(k)
    BY <1>0, Forward DEF Meaning, At, Found
  <2>1. /\ ValueIn(intended, o) = At(map, store, o)
        /\ o \in DOMAIN map => \A k \in freeRegs : map[o] # Reg(k)
    BY <1>0, <1>1 DEF Meaning, At, Found
  <2>2. CASE o = c
    <3>1. ValueIn(intended', c) = w /\ ValueIn(store', c) = v
      BY <1>5, <1>6, SetHere
    <3> QED
      BY <1>5, <1>6, <2>1, <2>2, <3>1 DEF At
  <2>3. CASE o # c
    <3> DEFINE loc == IF o \in DOMAIN map THEN map[o] ELSE o
    <3>1. loc # c
      <4>1. c \notin Regs
        BY RegsAreRegs, SpecialsAreSpecial
      <4> QED
        BY <1>0, <2>3, <4>1 DEF Shape, MapOK
    <3>2. ValueIn(intended', o) = ValueIn(intended, o) /\ ValueIn(store', loc) = ValueIn(store, loc)
      BY <1>5, <2>3, <3>1, SetElsewhere
    <3> QED
      BY <2>1, <3>2 DEF At
  <2> QED
    BY <2>2, <2>3
<1>9. Holding'
  BY <1>0, <1>1, Forward DEF Holding
<1>10. Result'
  BY <1>0 DEF Result, AllocationKeepsTheMeaning
<1> QED
  BY <1>7, <1>8, <1>9, <1>10 DEF IInv

-----------------------------------------------------------------------------
(* Every step keeps the invariant. *)
LEMMA InvNext == IInv /\ [Next]_vars => IInv'
<1> SUFFICES ASSUME IInv, [Next]_vars PROVE IInv'
  OBVIOUS
<1>1. CASE UNCHANGED vars
  BY <1>1 DEF vars, IInv, Shape, Typed, Last, MapOK, Locations, Outlives, Memory, Meaning, Matters, liveness, Found, Holding,
              Result, AllocationKeepsTheMeaning
<1> QED
  BY <1>1, StepMoveSpecial, StepLoad, StepAlias, StepArithmeticMoved, StepArithmeticInPlace, StepRead, StepUnmapped,
     StepFinish DEF Next, Stopped

(* So it always holds. *)
LEMMA InvAlways == Spec => []IInv
BY InvInit, InvNext, PTL DEF Spec

(* Every state of the allocator is well formed, whatever the block and the    *)
(* number of registers: what operandToRegMap_ holds are registers that may   *)
(* be given out, or EAX, SP and BP.                                          *)
THEOREM TypeCorrect == Spec => []TypeOK
<1>1. IInv => TypeOK
  <2> SUFFICES ASSUME IInv PROVE TypeOK
    OBVIOUS
  <2>1. Shape /\ Typed /\ MapOK
    BY DEF IInv, Shape
  <2>2. map \in [DOMAIN map -> Physical]
    <3>1. \A o \in DOMAIN map : map[o] \in Physical
      <4>1. Regs \cup Specials \subseteq Physical
        BY NumRegsAssumption DEF Physical, Regs, Specials, EAX, Reg
      <4> QED
        BY <2>1, <4>1 DEF MapOK
    <3> QED
      BY <2>1, <3>1 DEF MapOK
  <2>3. IsBlock(block) /\ DOMAIN map \in SUBSET Operand
    BY <2>1, InputIsBlock DEF Typed, MapOK
  <2> QED
    BY <2>1, <2>2, <2>3 DEF TypeOK, Shape, Typed
<1> QED
  BY <1>1, InvAlways, PTL

(* As long as none of the known mistakes happened, what is read later is      *)
(* found where the rewritten code looks for it, for every block and number   *)
(* of registers.                                                            *)
THEOREM OperandsFound == Spec => []OperandsAreWhereExpected
<1>1. IInv => OperandsAreWhereExpected
  BY DEF IInv, Meaning, OperandsAreWhereExpected
<1> QED
  BY <1>1, InvAlways, PTL

(* A register that nothing that matters is in is the only kind of register    *)
(* allocate() gives out as free.                                            *)
THEOREM FreeRegistersAreFree == Spec => []FreeRegistersHoldNothing
<1>1. IInv => FreeRegistersHoldNothing
  BY DEF IInv, Meaning, FreeRegistersHoldNothing
<1> QED
  BY <1>1, InvAlways, PTL

(* The rewritten block computes what the given one would have.               *)
THEOREM MeaningKept == Spec => []AllocationKeepsTheMeaning
<1>1. IInv => AllocationKeepsTheMeaning
  BY DEF IInv, Result
<1> QED
  BY <1>1, InvAlways, PTL

(* No register leaks: deinit's assertion holds after every block, and so do   *)
(* the ones that look up an operand, unless a virtual register was evicted   *)
(* that was still needed.                                                    *)
THEOREM RegistersAccountedFor == Spec => []NoRegisterLeaks
<1>1. IInv => NoRegisterLeaks
  BY DEF IInv, Holding, NoRegisterLeaks, Sharing
<1> QED
  BY <1>1, InvAlways, PTL

-----------------------------------------------------------------------------
(* Enough registers.  Each instruction that may take a register takes one at *)
(* most, so that as long as fewer of them were visited than there are        *)
(* registers, one is free and nothing is evicted.                           *)
TakersBefore == {i \in Takers : i < pos}

Counted ==
  Cardinality(Takers) <= NumRegs =>
    /\ "lost" \notin slips
    /\ NumRegs <= Cardinality(freeRegs) + Cardinality(TakersBefore)

LEMMA Finite ==
  ASSUME Shape
  PROVE  /\ IsFiniteSet(Takers) /\ IsFiniteSet(TakersBefore) /\ IsFiniteSet(freeRegs)
         /\ Cardinality(Takers) \in Nat /\ Cardinality(TakersBefore) \in Nat
         /\ Cardinality(freeRegs) \in Nat
         /\ Last \in Nat /\ pos \in Nat /\ NumRegs \in Nat
<1>1. Last \in Nat /\ pos \in Nat /\ NumRegs \in Nat /\ 1 \in Int
  BY InputIsBlock, NumRegsAssumption DEF Shape, Typed, Last
<1>2. IsFiniteSet(1..Last) /\ IsFiniteSet(1..NumRegs)
  BY <1>1, FS_Interval
<1>3. Takers \in SUBSET (1..Last) /\ TakersBefore \in SUBSET (1..Last) /\ freeRegs \in SUBSET (1..NumRegs)
  BY DEF Takers, TakersBefore, Shape
<1>4. IsFiniteSet(Takers) /\ IsFiniteSet(TakersBefore) /\ IsFiniteSet(freeRegs)
  BY <1>2, <1>3, FS_Subset
<1> QED
  BY <1>1, <1>4, FS_CardinalityType

LEMMA CountedInit == Init => Counted
<1> SUFFICES ASSUME NEW b \in Inputs, Start(b) PROVE Counted
  BY DEF Init
<1>1. freeRegs = 1..NumRegs /\ slips = {} /\ Shape
  BY InvInit DEF Start, Init, IInv
<1>2. Cardinality(1..NumRegs) = NumRegs
  BY NumRegsAssumption, FS_Interval
<1> QED
  BY <1>1, <1>2, Finite DEF Counted

\* What the current instruction leaves to be shown.
LEMMA CountedForward ==
  ASSUME IInv, Counted, pos' = pos + 1, block' = block, pos < Last,
         Cardinality(Takers) <= NumRegs => "lost" \notin slips',
         IsFiniteSet(freeRegs'),
         Cardinality(Takers) <= NumRegs =>
           \/ Cardinality(freeRegs') >= Cardinality(freeRegs)
           \/ (pos \in Takers /\ Cardinality(freeRegs') >= Cardinality(freeRegs) - 1)
  PROVE  Counted'
<1> SUFFICES ASSUME Cardinality(Takers)' <= NumRegs PROVE Counted'
  BY DEF Counted
<1>1. Takers' = Takers
  BY DEF Takers, Last
<1>2. /\ Cardinality(Takers) <= NumRegs /\ "lost" \notin slips'
      /\ NumRegs <= Cardinality(freeRegs) + Cardinality(TakersBefore)
  BY <1>1 DEF Counted
<1>3. /\ IsFiniteSet(TakersBefore) /\ Cardinality(TakersBefore) \in Nat
      /\ Cardinality(freeRegs) \in Nat /\ Cardinality(freeRegs') \in Nat
      /\ pos \in Nat /\ NumRegs \in Nat /\ Last \in Nat
  BY Finite, FS_CardinalityType DEF IInv
<1>4. TakersBefore' = IF pos \in Takers THEN TakersBefore \cup {pos} ELSE TakersBefore
  <2>1. \A i \in Takers : i \in Nat
    BY <1>3 DEF Takers
  <2> QED
    BY <1>1, <1>3, <2>1 DEF TakersBefore
<1>5. Cardinality(TakersBefore)' = IF pos \in Takers THEN Cardinality(TakersBefore) + 1
                                                     ELSE Cardinality(TakersBefore)
  <2>1. pos \notin TakersBefore
    BY <1>3 DEF TakersBefore
  <2>2. Cardinality(TakersBefore \cup {pos}) = Cardinality(TakersBefore) + 1
    BY <1>3, <2>1, FS_AddElement
  <2> QED
    BY <1>4, <2>2
<1>6. NumRegs <= Cardinality(freeRegs') + Cardinality(TakersBefore)'
  BY <1>2, <1>3, <1>5
<1> QED
  BY <1>2, <1>6 DEF Counted

\* A taker finds a free register.
LEMMA OneIsFree ==
  ASSUME IInv, Counted, pos \in Takers, Cardinality(Takers) <= NumRegs, NEW a \in Allocations
  PROVE  /\ a.lost = {} /\ a.map = map
         /\ IsFiniteSet(a.free) /\ Cardinality(a.free) >= Cardinality(freeRegs) - 1
<1>1. NumRegs <= Cardinality(freeRegs) + Cardinality(TakersBefore)
  BY DEF Counted
<1>2. /\ IsFiniteSet(Takers) /\ IsFiniteSet(TakersBefore) /\ IsFiniteSet(freeRegs)
      /\ Cardinality(Takers) \in Nat /\ Cardinality(TakersBefore) \in Nat
      /\ Cardinality(freeRegs) \in Nat /\ NumRegs \in Nat /\ pos \in Nat
  BY Finite DEF IInv
<1>3. Cardinality(TakersBefore) < Cardinality(Takers)
  <2>1. TakersBefore \in SUBSET Takers /\ TakersBefore # Takers
    BY <1>2 DEF TakersBefore
  <2>2. Cardinality(TakersBefore) <= Cardinality(Takers) /\ Cardinality(Takers) # Cardinality(TakersBefore)
    BY <1>2, <2>1, FS_Subset
  <2> QED
    BY <1>2, <2>2
<1>4. freeRegs # {}
  <2>1. Cardinality(freeRegs) # 0
    BY <1>1, <1>2, <1>3
  <2> QED
    BY <2>1, FS_EmptySet
<1>5. PICK k \in freeRegs :
        a = [reg |-> Reg(k), free |-> freeRegs \ {k}, map |-> map, store |-> store, lost |-> {}]
  BY <1>4 DEF Allocations, Taken
<1>6. IsFiniteSet(freeRegs \ {k}) /\ Cardinality(freeRegs \ {k}) = Cardinality(freeRegs) - 1
  BY <1>2, FS_RemoveElement
<1> QED
  BY <1>2, <1>5, <1>6

LEMMA CountedLoad == ASSUME IInv, Counted, Load PROVE Counted'
<1>1. PICK a \in Allocations :
        freeRegs' = a.free /\ slips' = slips \cup Slip("lost", Lost(a)) /\ pos' = pos + 1 /\ block' = block
  BY DEF Load, Emit
<1>2. pos < Last /\ insn.op = "MOV" /\ Special = {} /\ insn.source \notin DOMAIN map /\ Shape /\ Typed
  BY DEF Load, Visit, IInv, Shape
<1>3. ASSUME Cardinality(Takers) <= NumRegs
      PROVE  pos \in Takers /\ a.lost = {} /\ IsFiniteSet(a.free)
             /\ Cardinality(a.free) >= Cardinality(freeRegs) - 1
  <2>1. IsVirtual(insn.target)
    <3>1. "lost" \notin slips /\ status = "running"
      BY <1>3 DEF Counted, Load, Visit
    <3>2. \A o \in Uses(insn) : IsVirtual(o) => o \in DOMAIN map
      BY <1>2, <3>1, MattersStep DEF IInv, Holding
    <3>3. insn.source \in Uses(insn)
      BY <1>2 DEF Uses
    <3>4. ~IsVirtual(insn.source)
      BY <1>2, <3>2, <3>3
    <3>5. EAX \notin {insn.target, insn.source} /\ SP \notin {insn.target, insn.source}
      BY <1>2 DEF Special, isSpecialRegOperand
    <3>6. IsSelected(insn)
      BY <1>2, Current
    <3> QED
      BY <1>2, <3>4, <3>5, <3>6 DEF IsSelected, IsValue
  <2>2. pos \in Takers
    BY <1>2, <2>1, Finite DEF Takers, insn, Shape, Typed
  <2> QED
    BY <1>3, <2>2, OneIsFree
<1>4. IsFiniteSet(freeRegs')
  <2>1. a.free \in SUBSET freeRegs
    BY <1>2, AllocationShape
  <2> QED
    BY <1>1, <1>2, <2>1, Finite, FS_Subset
<1>5. Cardinality(Takers) <= NumRegs => "lost" \notin slips'
  BY <1>1, <1>3 DEF Counted, Slip, Lost
<1> QED
  BY <1>1, <1>2, <1>3, <1>4, <1>5, CountedForward

LEMMA CountedArithmeticMoved == ASSUME IInv, Counted, ArithmeticMoved PROVE Counted'
<1>1. /\ pos < Last /\ insn.op = "ARITH" /\ insn.target \in DOMAIN map /\ Shape /\ Typed
      /\ status = "running"
  BY DEF ArithmeticMoved, Visit, IInv, Shape
<1>2. pos \in Takers
  BY <1>1, Finite DEF Takers, insn, Shape, Typed
<1>3. ASSUME Cardinality(Takers) <= NumRegs
      PROVE  InRegister(map, insn.source)
  <2>1. "lost" \notin slips
    BY <1>3 DEF Counted
  <2>2. \A o \in Uses(insn) : IsVirtual(o) => o \in DOMAIN map
    BY <1>1, <2>1, MattersStep DEF IInv, Holding
  <2>3. insn.source \in Uses(insn)
    BY <1>1 DEF Uses
  <2> QED
    BY <2>2, <2>3 DEF InRegister
<1>4. PICK a \in Allocations :
        \/ /\ freeRegs' = a.free /\ slips' = slips \cup Slip("lost", Lost(a))
           /\ pos' = pos + 1 /\ block' = block
        \/ /\ ~InRegister(Set(a.map, insn.target, a.reg), insn.source)
           /\ UNCHANGED <<block, pos, freeRegs>>
  BY DEF ArithmeticMoved, Emit
<1>5. CASE Cardinality(Takers) <= NumRegs
  <2>1. /\ a.lost = {} /\ a.map = map
        /\ IsFiniteSet(a.free) /\ Cardinality(a.free) >= Cardinality(freeRegs) - 1
    BY <1>2, <1>5, OneIsFree
  <2>2. InRegister(Set(a.map, insn.target, a.reg), insn.source)
    <3>1. DOMAIN Set(a.map, insn.target, a.reg) = DOMAIN a.map \cup {insn.target}
      BY SetDomain
    <3>2. DOMAIN a.map = DOMAIN map
      BY <2>1
    <3> QED
      BY <1>3, <1>5, <3>1, <3>2 DEF InRegister
  <2>3. freeRegs' = a.free /\ slips' = slips /\ pos' = pos + 1 /\ block' = block
    BY <1>4, <2>1, <2>2 DEF Slip, Lost
  <2> QED
    BY <1>1, <1>2, <1>5, <2>1, <2>3, CountedForward DEF Counted
<1>6. CASE ~(Cardinality(Takers) <= NumRegs)
  <2>1. Takers' = Takers
    BY <1>4 DEF Takers, Last
  <2> QED
    BY <1>6, <2>1 DEF Counted
<1> QED
  BY <1>5, <1>6

\* The others give registers back, or leave them alone.
LEMMA CountedOtherwise ==
  ASSUME IInv, Counted, freeRegs \subseteq freeRegs', freeRegs' \subseteq 1..NumRegs, block' = block,
         "lost" \notin slips => "lost" \notin slips', pos' = pos \/ (pos' = pos + 1 /\ pos < Last)
  PROVE  Counted'
<1>1. IsFiniteSet(freeRegs') /\ Cardinality(freeRegs') >= Cardinality(freeRegs)
  <2>1. IsFiniteSet(1..NumRegs)
    BY NumRegsAssumption, FS_Interval
  <2>2. IsFiniteSet(freeRegs')
    BY <2>1, FS_Subset
  <2>3. Cardinality(freeRegs) <= Cardinality(freeRegs')
    BY <2>2, FS_Subset
  <2> QED
    BY <2>2, <2>3, FS_CardinalityType, Finite DEF IInv
<1>2. CASE pos' = pos + 1 /\ pos < Last
  BY <1>1, <1>2, CountedForward DEF Counted
<1>3. CASE pos' = pos
  <2>1. Takers' = Takers
    BY DEF Takers, Last
  <2>2. TakersBefore' = TakersBefore
    BY <1>3, <2>1 DEF TakersBefore
  <2>3. /\ Cardinality(TakersBefore) \in Nat /\ Cardinality(freeRegs) \in Nat
        /\ Cardinality(freeRegs') \in Nat /\ NumRegs \in Nat
    BY <1>1, Finite, FS_CardinalityType DEF IInv
  <2> QED
    BY <1>1, <2>1, <2>2, <2>3 DEF Counted
<1> QED
  BY <1>2, <1>3

LEMMA CountedNext == IInv /\ Counted /\ [Next]_vars => Counted'
<1> SUFFICES ASSUME IInv, Counted, [Next]_vars PROVE Counted'
  OBVIOUS
<1>0. freeRegs \subseteq 1..NumRegs
  BY DEF IInv, Shape
<1>1. CASE MoveSpecial \/ Alias \/ ArithmeticInPlace \/ Read
  <2>1. /\ freeRegs \subseteq freeRegs' /\ freeRegs' \subseteq 1..NumRegs /\ block' = block
        /\ "lost" \notin slips => "lost" \notin slips'
        /\ pos' = pos \/ (pos' = pos + 1 /\ pos < Last)
    BY <1>0, <1>1 DEF MoveSpecial, Alias, ArithmeticInPlace, Read, Visit, Emit, Abort, Slip
  <2> QED
    BY <2>1, CountedOtherwise
<1>2. CASE Unmapped \/ Finish \/ Stopped \/ UNCHANGED vars
  <2>1. /\ freeRegs \subseteq freeRegs' /\ freeRegs' \subseteq 1..NumRegs /\ block' = block
        /\ "lost" \notin slips => "lost" \notin slips'
        /\ pos' = pos \/ (pos' = pos + 1 /\ pos < Last)
    BY <1>0, <1>2 DEF Unmapped, Abort, Finish, Stopped, vars
  <2> QED
    BY <2>1, CountedOtherwise
<1> QED
  BY <1>1, <1>2, CountedLoad, CountedArithmeticMoved DEF Next

(* In a block with no more instructions that may take a register than there  *)
(* are registers, spillRegister() never evicts a virtual register that is     *)
(* still needed: each register taken so far is paid for by an instruction.    *)
THEOREM NothingIsLost == Spec => []EnoughRegisters
<1>1. IInv /\ Counted => EnoughRegisters
  BY DEF Counted, EnoughRegisters
<1>2. Init => IInv /\ Counted
  BY InvInit, CountedInit
<1>3. (IInv /\ Counted) /\ [Next]_vars => (IInv /\ Counted)'
  BY InvNext, CountedNext
<1> QED
  BY <1>1, <1>2, <1>3, PTL DEF Spec
=============================================================================
