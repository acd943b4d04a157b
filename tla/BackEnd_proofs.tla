--------------------------- MODULE BackEnd_proofs ---------------------------
(***************************************************************************)
(* The back-end optimizer keeps what blocks compute: proofs about BackEnd,  *)
(* for functions of any size, any registers, variables and constants.      *)
(*                                                                         *)
(* Blocks mean the same if they leave the same values where other blocks    *)
(* may see them (Same).  Each rule does one of three things: it takes an     *)
(* instruction away behind which the states are those that there were       *)
(* before it (RemovedMeansTheSame); it turns moves to places that are not    *)
(* read any more into NOP (SilencedMeansTheSame); or it replaces a source   *)
(* by the immediate that the source holds (SourcesAreRead).                 *)
(*                                                                         *)
(* Inductions are by least counterexample: a set of numbers that is not     *)
(* empty has a least one.                                                  *)
(***************************************************************************)
EXTENDS BackEnd, WellFoundedInduction, SequenceTheorems, TLAPS

LEMMA Least ==
  ASSUME NEW B \in SUBSET Nat, B # {}
  PROVE  \E n \in B : \A k \in B : n <= k
<1> DEFINE R == OpToRel(<, Nat)
<1>1. PICK n \in B : \A k \in B : ~(<<k, n>> \in R)
  BY NatLessThanWellFounded, WFMin
<1>2. ASSUME NEW k \in B PROVE n <= k
  <2>1. k \in Nat /\ n \in Nat
    OBVIOUS
  <2>2. ~(k < n)
    BY <1>1, <2>1 DEF OpToRel
  <2> QED
    BY <2>1, <2>2
<1> QED
  BY <1>2
-----------------------------------------------------------------------------
(* Single instructions.                                                    *)

LEMMA OperandsDiffer ==
  /\ \A o \in Operand : o # Output /\ o[1] # "output"
  /\ \A o, p \in Operand : IsImm(o) /\ (IsRegister(p) \/ IsMem(p)) => o # p
  /\ \A o : IsArgument(o) => ~Outlives(o)
  /\ \A o \in Operand : IsRegister(o) /\ ~IsSpecialReg(o) => ~Outlives(o)
  /\ Outlives(Output)
BY DEF Operand, Output, SP, BP, EAX, Reg, None, IsImm, IsRegister, IsMem, IsSpecialReg, IsArgument, Outlives

LEMMA InstructionParts ==
  ASSUME NEW i \in Instruction
  PROVE  /\ i.target \in Operand /\ i.source \in Operand
         /\ i.op \in {"NOP", "MOV", "ADD", "MUL", "CMP", "PUSH", "POP", "CALL", "JUMP"}
         /\ i.op \in {"MOV", "ADD", "MUL"} => IsRegister(i.target) \/ IsMem(i.target)
         /\ i.op = "POP" => IsRegister(i.source)
         /\ i = [op |-> i.op, target |-> i.target, source |-> i.source]
BY DEF Instruction

LEMMA PutValue ==
  ASSUME NEW s, NEW o, NEW v, NEW x
  PROVE  Value(Put(s, o, v), x) = IF x = o THEN v ELSE Value(s, x)
BY DEF Put, Value

(* The states have the same values, except in places of D. *)
Agree(s, t, D) == \A o : o \notin D => Value(s, o) = Value(t, o)

LEMMA PutAgrees ==
  ASSUME NEW s, NEW t, NEW D, Agree(s, t, D), NEW o, NEW v
  PROVE  Agree(Put(s, o, v), Put(t, o, v), D)
BY PutValue DEF Agree

(* An instruction does the same to both if it reads nothing of D. *)
LEMMA ExecuteAgrees ==
  ASSUME NEW i \in Instruction, NEW s, NEW t, NEW D, Agree(s, t, D),
         Output \notin D, Uses(i) \cap D = {}
  PROVE  Agree(Execute(s, i), Execute(t, i), D)
<1>1. Value(s, Output) = Value(t, Output)
  BY DEF Agree
<1>2. IsBinary(i) \/ IsUnary(i) => Value(s, i.source) = Value(t, i.source)
  BY DEF Agree, Uses
<1>3. IsBinary(i) /\ ~IsMove(i) => Value(s, i.target) = Value(t, i.target)
  BY DEF Agree, Uses
<1>4. CASE i.op = "MOV"
  BY <1>2, <1>4, PutAgrees DEF Execute, IsBinary
<1>5. CASE i.op \in {"ADD", "MUL"}
  BY <1>2, <1>3, <1>5, PutAgrees DEF Execute, IsBinary, IsMove
<1>6. CASE i.op = "CMP"
  BY <1>1, <1>2, <1>3, <1>6, PutAgrees DEF Execute, IsBinary, IsMove
<1>7. CASE i.op = "PUSH"
  BY <1>1, <1>2, <1>7, PutAgrees DEF Execute, IsUnary
<1>8. CASE i.op = "POP"
  BY <1>1, <1>8, PutAgrees DEF Execute
<1>9. CASE i.op = "CALL"
  BY <1>1, <1>9, PutAgrees DEF Execute
<1>10. CASE i.op \in {"NOP", "JUMP"}
  BY <1>10 DEF Execute
<1> QED
  BY <1>4, <1>5, <1>6, <1>7, <1>8, <1>9, <1>10, InstructionParts

(* Only what an instruction is made for changes. *)
Changed(i) ==
  CASE i.op \in {"MOV", "ADD", "MUL"} -> {i.target}
    [] i.op \in {"CMP", "PUSH"} -> {Output}
    [] i.op = "POP" -> {i.source, Output}
    [] i.op = "CALL" -> {EAX, Output}
    [] OTHER -> {}

LEMMA ExecuteChanges ==
  ASSUME NEW i \in Instruction, NEW s, NEW o, o \notin Changed(i)
  PROVE  Value(Execute(s, i), o) = Value(s, o)
<1>1. CASE i.op = "MOV"
  BY <1>1, PutValue DEF Execute, Changed
<1>2. CASE i.op \in {"ADD", "MUL"}
  BY <1>2, PutValue DEF Execute, Changed
<1>3. CASE i.op = "CMP"
  BY <1>3, PutValue DEF Execute, Changed
<1>4. CASE i.op = "PUSH"
  BY <1>4, PutValue DEF Execute, Changed
<1>5. CASE i.op = "POP"
  BY <1>5, PutValue DEF Execute, Changed
<1>6. CASE i.op = "CALL"
  BY <1>6, PutValue DEF Execute, Changed
<1>7. CASE i.op \in {"NOP", "JUMP"}
  BY <1>7 DEF Execute
<1> QED
  BY <1>1, <1>2, <1>3, <1>4, <1>5, <1>6, <1>7, InstructionParts
-----------------------------------------------------------------------------
(* The states of a block.                                                  *)
Empty == [o \in {} |-> None]
IsRun(b, n, t) == t = [k \in 0..n |-> IF k = 0 THEN Empty ELSE Execute(t[k - 1], b[k])]

LEMMA RunExists ==
  ASSUME NEW b, NEW m \in Nat
  PROVE  \E t : IsRun(b, m, t)
<1> DEFINE B == {n \in Nat : ~\E t : IsRun(b, n, t)}
<1>1. ASSUME B # {} PROVE FALSE
  <2>1. PICK n \in B : \A k \in B : n <= k
    BY <1>1, Least
  <2>2. n \in Nat /\ ~\E t : IsRun(b, n, t)
    BY <2>1
  <2>3. n # 0
    <3>1. IsRun(b, 0, [k \in 0..0 |-> Empty])
      BY DEF IsRun
    <3> QED
      BY <2>2, <3>1
  <2>4. n - 1 \in Nat /\ n - 1 \notin B
    BY <2>1, <2>2, <2>3
  <2>5. PICK t : IsRun(b, n - 1, t)
    BY <2>4
  <2> DEFINE u == [k \in 0..n |-> IF k = n THEN Execute(t[n - 1], b[n]) ELSE t[k]]
  <2>6. \A k \in 0..(n - 1) : t[k] = IF k = 0 THEN Empty ELSE Execute(t[k - 1], b[k])
    BY <2>5 DEF IsRun
  <2>7. \A k \in 0..n : u[k] = IF k = 0 THEN Empty ELSE Execute(u[k - 1], b[k])
    <3> SUFFICES ASSUME NEW k \in 0..n PROVE u[k] = IF k = 0 THEN Empty ELSE Execute(u[k - 1], b[k])
      OBVIOUS
    <3>1. CASE k = n
      <4>1. n - 1 \in 0..n /\ n - 1 # n /\ k # 0
        BY <2>2, <2>3, <2>4, <3>1
      <4> QED
        BY <3>1, <4>1
    <3>2. CASE k # n /\ k = 0
      <4>1. 0 \in 0..(n - 1)
        BY <2>4
      <4> QED
        BY <2>6, <3>2, <4>1
    <3>3. CASE k # n /\ k # 0
      <4>1. k \in 0..(n - 1) /\ k - 1 \in 0..n /\ k - 1 # n
        BY <2>2, <3>3
      <4> QED
        BY <2>6, <3>3, <4>1
    <3> QED
      BY <3>1, <3>2, <3>3
  <2>8. IsRun(b, n, u)
    <3> HIDE DEF u
    <3>1. u = [k \in 0..n |-> u[k]]
      BY DEF u
    <3> QED
      BY <2>7, <3>1 DEF IsRun
  <2> QED
    BY <2>2, <2>8
<1> QED
  BY <1>1

LEMMA StatesRun ==
  ASSUME NEW b, Len(b) \in Nat
  PROVE  /\ States(b)[0] = Empty
         /\ \A k \in 1..Len(b) : States(b)[k] = Execute(States(b)[k - 1], b[k])
<1>1. PICK t : IsRun(b, Len(b), t)
  BY RunExists
<1>2. IsRun(b, Len(b), States(b))
  BY <1>1 DEF States, IsRun, Empty
<1> HIDE DEF States
<1>3. \A k \in 0..Len(b) : States(b)[k] = IF k = 0 THEN Empty ELSE Execute(States(b)[k - 1], b[k])
  BY <1>2 DEF IsRun
<1>4. 0 \in 0..Len(b) /\ \A k \in 1..Len(b) : k \in 0..Len(b) /\ k # 0
  OBVIOUS
<1> QED
  BY <1>3, <1>4

BlockType == Seq(Instruction)

LEMMA BlockParts ==
  ASSUME NEW b \in BlockType
  PROVE  /\ Len(b) \in Nat /\ DOMAIN b = 1..Len(b)
         /\ \A k \in 1..Len(b) : b[k] \in Instruction
BY LenProperties, ElementOfSeq DEF BlockType

(* What two blocks do alike from states that agree leads to states that agree. *)
LEMMA TailsAgree ==
  ASSUME NEW b \in BlockType, NEW c \in BlockType, NEW p \in Nat, NEW q \in Nat, NEW m \in Nat,
         p + m <= Len(b), q + m <= Len(c), \A k \in 1..m : b[p + k] = c[q + k],
         Agree(States(b)[p], States(c)[q], {})
  PROVE  Agree(States(b)[p + m], States(c)[q + m], {})
<1> DEFINE B == {n \in 0..m : ~Agree(States(b)[p + n], States(c)[q + n], {})}
<1>1. Len(b) \in Nat /\ Len(c) \in Nat
  BY BlockParts
<1>2. ASSUME B # {} PROVE FALSE
  <2>1. B \in SUBSET Nat
    OBVIOUS
  <2>2. PICK n \in B : \A k \in B : n <= k
    BY <1>2, <2>1, Least
  <2>3. n \in 0..m /\ ~Agree(States(b)[p + n], States(c)[q + n], {})
    BY <2>2
  <2>4. n # 0
    BY <2>3
  <2>5. n - 1 \in 0..m /\ n \in 1..m /\ ~(n <= n - 1)
    BY <2>3, <2>4
  <2>6. Agree(States(b)[p + (n - 1)], States(c)[q + (n - 1)], {})
    BY <2>2, <2>5
  <2>7. /\ p + n \in 1..Len(b) /\ q + n \in 1..Len(c)
        /\ p + n - 1 = p + (n - 1) /\ q + n - 1 = q + (n - 1)
    BY <1>1, <2>5
  <2>8. /\ States(b)[p + n] = Execute(States(b)[p + (n - 1)], b[p + n])
        /\ States(c)[q + n] = Execute(States(c)[q + (n - 1)], c[q + n])
    BY <1>1, <2>7, StatesRun
  <2>9. b[p + n] = c[q + n] /\ b[p + n] \in Instruction
    BY <2>5, <2>7, BlockParts
  <2>10. Agree(Execute(States(b)[p + (n - 1)], b[p + n]), Execute(States(c)[q + (n - 1)], b[p + n]), {})
    BY <2>6, <2>9, ExecuteAgrees
  <2> QED
    BY <2>3, <2>8, <2>9, <2>10
<1>3. m \in 0..m
  OBVIOUS
<1> QED
  BY <1>2, <1>3
-----------------------------------------------------------------------------
(* Two blocks that mean the same to other blocks.                          *)
Same(b, c) == \A o : Outlives(o) => Value(Meaning(b), o) = Value(Meaning(c), o)

LEMMA SameIsTransitive ==
  ASSUME NEW b, NEW c, NEW d, Same(b, c), Same(c, d)
  PROVE  Same(b, d)
BY DEF Same

(* A rule that turns moves to places nobody reads later into NOP keeps that.  *)
(* The places that are not read any more may differ.                        *)
Dead(b, n) == {o \in Operand : ~Outlives(o) /\ \A j \in (n + 1)..Len(b) : o \notin Uses(b[j])}

Silences(b, c) ==
  /\ Len(c) = Len(b)
  /\ \A k \in 1..Len(b) :
       \/ c[k] = b[k]
       \/ c[k] = NOP /\ IsMove(b[k]) /\ b[k].target \in Dead(b, k)

LEMMA SilencedMeansTheSame ==
  ASSUME NEW b \in BlockType, NEW c \in BlockType, Silences(b, c)
  PROVE  Same(c, b)
<1> DEFINE B == {n \in 0..Len(b) : ~Agree(States(b)[n], States(c)[n], Dead(b, n))}
<1>1. Len(b) \in Nat /\ Len(c) = Len(b)
  BY BlockParts DEF Silences
<1>2. ASSUME B # {} PROVE FALSE
  <2>1. B \in SUBSET Nat
    BY <1>1
  <2>2. PICK n \in B : \A k \in B : n <= k
    BY <1>2, <2>1, Least
  <2>3. n \in 0..Len(b) /\ ~Agree(States(b)[n], States(c)[n], Dead(b, n))
    BY <2>2
  <2>4. n # 0
    BY <1>1, <2>3, StatesRun DEF Agree
  <2>5. n - 1 \in 0..Len(b) /\ n \in 1..Len(b) /\ ~(n <= n - 1) /\ n \in Nat
    BY <1>1, <2>3, <2>4
  <2>6. Agree(States(b)[n - 1], States(c)[n - 1], Dead(b, n - 1))
    BY <2>2, <2>5
  <2>7. /\ States(b)[n] = Execute(States(b)[n - 1], b[n])
        /\ States(c)[n] = Execute(States(c)[n - 1], c[n])
    BY <1>1, <2>5, StatesRun
  <2>8. b[n] \in Instruction
    BY <2>5, BlockParts
  <2>9. /\ Dead(b, n - 1) \subseteq Dead(b, n)
        /\ Uses(b[n]) \cap Dead(b, n - 1) = {}
        /\ Output \notin Dead(b, n - 1)
    <3>1. (n - 1) + 1 = n /\ \A j \in (n + 1)..Len(b) : j \in n..Len(b)
      BY <1>1, <2>5
    <3>2. n \in n..Len(b)
      BY <1>1, <2>5
    <3> QED
      BY <3>1, <3>2, OperandsDiffer DEF Dead
  <2>10. CASE c[n] = b[n]
    <3>1. Agree(States(b)[n], States(c)[n], Dead(b, n - 1))
      BY <2>6, <2>7, <2>8, <2>9, <2>10, ExecuteAgrees
    <3> QED
      BY <2>3, <2>9, <3>1 DEF Agree
  <2>11. CASE c[n] = NOP /\ IsMove(b[n]) /\ b[n].target \in Dead(b, n)
    <3>1. States(c)[n] = States(c)[n - 1]
      BY <2>7, <2>11 DEF Execute, NOP, INSN
    <3>2. \A o : o # b[n].target => Value(States(b)[n], o) = Value(States(b)[n - 1], o)
      BY <2>7, <2>8, <2>11, ExecuteChanges DEF Changed, IsMove
    <3> QED
      BY <2>3, <2>6, <2>9, <2>11, <3>1, <3>2 DEF Agree
  <2> QED
    BY <2>5, <2>10, <2>11 DEF Silences
<1>3. Agree(States(b)[Len(b)], States(c)[Len(b)], Dead(b, Len(b)))
  BY <1>1, <1>2
<1>4. \A o : Outlives(o) => o \notin Dead(b, Len(b))
  BY DEF Dead
<1> QED
  BY <1>1, <1>3, <1>4 DEF Same, Agree, Meaning

(* So does taking an instruction away behind which the states are those that  *)
(* there were before.                                                        *)
LEMMA RemovedParts ==
  ASSUME NEW b \in BlockType, NEW p \in 1..Len(b)
  PROVE  /\ RemoveAt(b, p) \in BlockType
         /\ Len(RemoveAt(b, p)) = Len(b) - 1
         /\ \A k \in 1..(Len(b) - 1) : RemoveAt(b, p)[k] = IF k < p THEN b[k] ELSE b[k + 1]
<1> DEFINE front == SubSeq(b, 1, p - 1)
           back  == SubSeq(b, p + 1, Len(b))
<1>1. Len(b) \in Nat /\ \A k \in 1..Len(b) : b[k] \in Instruction
  BY BlockParts
<1>2. /\ front \in Seq(Instruction) /\ Len(front) = p - 1
      /\ \A k \in 1..(p - 1) : front[k] = b[k]
  <2>1. 1 \in Int /\ p - 1 \in Int /\ \A k \in 1..(p - 1) : b[k] \in Instruction
    BY <1>1
  <2>2. /\ front \in Seq(Instruction) /\ Len(front) = IF 1 <= p - 1 THEN (p - 1) - 1 + 1 ELSE 0
        /\ \A k \in 1..((p - 1) - 1 + 1) : front[k] = b[1 + k - 1]
    BY <2>1, SubSeqProperties
  <2>3. (p - 1) - 1 + 1 = p - 1 /\ (~(1 <= p - 1) => p - 1 = 0) /\ \A k \in 1..(p - 1) : 1 + k - 1 = k
    OBVIOUS
  <2> QED
    BY <2>2, <2>3
<1>3. /\ back \in Seq(Instruction) /\ Len(back) = Len(b) - p
      /\ \A k \in 1..(Len(b) - p) : back[k] = b[p + k]
  <2>1. p + 1 \in Int /\ Len(b) \in Int /\ \A k \in (p + 1)..Len(b) : b[k] \in Instruction
    BY <1>1
  <2>2. /\ back \in Seq(Instruction) /\ Len(back) = IF p + 1 <= Len(b) THEN Len(b) - (p + 1) + 1 ELSE 0
        /\ \A k \in 1..(Len(b) - (p + 1) + 1) : back[k] = b[(p + 1) + k - 1]
    BY <2>1, SubSeqProperties
  <2>3. Len(b) - (p + 1) + 1 = Len(b) - p /\ (~(p + 1 <= Len(b)) => Len(b) - p = 0)
    BY <1>1
  <2>4. \A k \in 1..(Len(b) - p) : (p + 1) + k - 1 = p + k
    BY <1>1
  <2> QED
    BY <2>2, <2>3, <2>4
<1> HIDE DEF front, back
<1>4. /\ front \o back \in Seq(Instruction) /\ Len(front \o back) = Len(front) + Len(back)
      /\ \A k \in 1..(Len(front) + Len(back)) :
           (front \o back)[k] = IF k <= Len(front) THEN front[k] ELSE back[k - Len(front)]
  BY <1>2, <1>3, ConcatProperties
<1>5. RemoveAt(b, p) = front \o back
  BY DEF RemoveAt, front, back
<1>6. Len(front) + Len(back) = Len(b) - 1
  BY <1>1, <1>2, <1>3
<1>7. ASSUME NEW k \in 1..(Len(b) - 1) PROVE (front \o back)[k] = IF k < p THEN b[k] ELSE b[k + 1]
  <2>1. CASE k < p
    <3>1. k \in 1..(p - 1) /\ k <= Len(front)
      BY <1>2, <2>1
    <3> QED
      BY <1>2, <1>4, <1>6, <2>1, <3>1
  <2>2. CASE ~(k < p)
    <3>1. /\ ~(k <= Len(front)) /\ k - Len(front) \in 1..(Len(b) - p)
          /\ p + (k - Len(front)) = k + 1
      BY <1>1, <1>2, <2>2
    <3> QED
      BY <1>3, <1>4, <1>6, <2>2, <3>1
  <2> QED
    BY <2>1, <2>2
<1> QED
  BY <1>4, <1>5, <1>6, <1>7 DEF BlockType

LEMMA RemovedMeansTheSame ==
  ASSUME NEW b \in BlockType, NEW p \in 1..Len(b), NEW c, c = RemoveAt(b, p), NEW m \in p..Len(b),
         Agree(States(c)[p - 1], States(b)[p - 1], {}) => Agree(States(c)[m - 1], States(b)[m], {})
  PROVE  Same(c, b)
<1>1. /\ c \in BlockType /\ Len(c) = Len(b) - 1 /\ Len(b) \in Nat
      /\ \A k \in 1..(Len(b) - 1) : c[k] = IF k < p THEN b[k] ELSE b[k + 1]
  BY RemovedParts, BlockParts
<1>2. Agree(States(c)[p - 1], States(b)[p - 1], {})
  <2>1. /\ 0 \in Nat /\ p - 1 \in Nat /\ 0 + (p - 1) = p - 1
        /\ 0 + (p - 1) <= Len(c) /\ 0 + (p - 1) <= Len(b)
    BY <1>1
  <2>2. \A k \in 1..(p - 1) : c[0 + k] = b[0 + k]
    BY <1>1
  <2>3. Agree(States(c)[0], States(b)[0], {})
    BY <1>1, StatesRun DEF Agree
  <2>4. Agree(States(c)[0 + (p - 1)], States(b)[0 + (p - 1)], {})
    BY <1>1, <2>1, <2>2, <2>3, TailsAgree
  <2> QED
    BY <2>1, <2>4
<1>3. Agree(States(c)[m - 1], States(b)[m], {})
  BY <1>2
<1>4. Agree(States(c)[Len(c)], States(b)[Len(b)], {})
  <2> DEFINE n == Len(b) - m
  <2>1. /\ m - 1 \in Nat /\ m \in Nat /\ n \in Nat
        /\ (m - 1) + n = Len(c) /\ m + n = Len(b)
        /\ (m - 1) + n <= Len(c) /\ m + n <= Len(b)
    BY <1>1
  <2>2. ASSUME NEW k \in 1..n PROVE c[(m - 1) + k] = b[m + k]
    <3>1. /\ (m - 1) + k \in 1..(Len(b) - 1) /\ ~((m - 1) + k < p)
          /\ (m - 1) + k + 1 = m + k
      BY <1>1
    <3> QED
      BY <1>1, <3>1
  <2> HIDE DEF n
  <2>3. Agree(States(c)[(m - 1) + n], States(b)[m + n], {})
    BY <1>1, <1>3, <2>1, <2>2, TailsAgree
  <2> QED
    BY <2>1, <2>3
<1> QED
  BY <1>4 DEF Same, Agree, Meaning

(* What no instruction changes keeps its value; immediates keep theirs.       *)
LEMMA Unchanged ==
  ASSUME NEW b \in BlockType, NEW p \in 0..Len(b), NEW m \in p..Len(b), NEW o,
         \A k \in (p + 1)..m : o \notin Changed(b[k])
  PROVE  Value(States(b)[m], o) = Value(States(b)[p], o)
<1> DEFINE B == {n \in p..m : Value(States(b)[n], o) # Value(States(b)[p], o)}
<1>1. Len(b) \in Nat /\ m \in p..m
  BY BlockParts
<1>2. ASSUME B # {} PROVE FALSE
  <2>1. B \in SUBSET Nat
    BY <1>1
  <2>2. PICK n \in B : \A k \in B : n <= k
    BY <1>2, <2>1, Least
  <2>3. n \in p..m /\ Value(States(b)[n], o) # Value(States(b)[p], o)
    BY <2>2
  <2>4. n # p
    BY <2>3
  <2>5. n - 1 \in p..m /\ n \in (p + 1)..m /\ n \in 1..Len(b) /\ ~(n <= n - 1)
    BY <1>1, <2>3, <2>4
  <2>6. Value(States(b)[n - 1], o) = Value(States(b)[p], o)
    BY <2>2, <2>5
  <2>7. States(b)[n] = Execute(States(b)[n - 1], b[n])
    BY <1>1, <2>5, StatesRun
  <2>8. b[n] \in Instruction /\ o \notin Changed(b[n])
    BY <2>5, BlockParts
  <2> QED
    BY <2>3, <2>6, <2>7, <2>8, ExecuteChanges
<1> QED
  BY <1>1, <1>2

LEMMA ImmediatesAreFixed ==
  ASSUME NEW b \in BlockType, NEW m \in 0..Len(b), NEW o, IsImm(o)
  PROVE  Value(States(b)[m], o) = o
<1>1. Len(b) \in Nat
  BY BlockParts
<1>2. ASSUME NEW k \in (0 + 1)..m PROVE o \notin Changed(b[k])
  <2>1. b[k] \in Instruction
    BY <1>1, BlockParts
  <2>2. /\ b[k].op \in {"MOV", "ADD", "MUL"} => IsRegister(b[k].target) \/ IsMem(b[k].target)
        /\ b[k].op = "POP" => IsRegister(b[k].source)
    BY <2>1, InstructionParts
  <2>3. o # Output /\ o # EAX /\ ~IsRegister(o) /\ ~IsMem(o)
    BY DEF IsImm, IsRegister, IsMem, IsSpecialReg, Output, EAX, Reg, SP, BP
  <2> QED
    BY <2>2, <2>3 DEF Changed
<1>3. Value(States(b)[m], o) = Value(States(b)[0], o)
  BY <1>1, <1>2, Unchanged
<1>4. Value(States(b)[0], o) = o
  BY <1>1, StatesRun DEF Value, Empty
<1> QED
  BY <1>3, <1>4
-----------------------------------------------------------------------------
(* Rules of the peephole optimizer.                                        *)
IsBlockOf(b, n) == IsBlock(b) /\ n \in 1..Len(b)

LEMMA RemovedIsBlock ==
  ASSUME NEW b, IsBlock(b), NEW p \in 1..Len(b), b[p].op # "JUMP"
  PROVE  IsBlockOf(RemoveAt(b, p), p)
<1> DEFINE c == RemoveAt(b, p)
<1>1. b \in BlockType /\ b[Len(b)].op = "JUMP"
  BY DEF IsBlock, BlockType
<1>2. Len(b) \in Nat /\ DOMAIN b = 1..Len(b)
  BY <1>1, BlockParts
<1>3. /\ c \in BlockType /\ Len(c) = Len(b) - 1
      /\ \A k \in 1..(Len(b) - 1) : c[k] = IF k < p THEN b[k] ELSE b[k + 1]
  BY <1>1, RemovedParts
<1>4. DOMAIN c = 1..Len(c)
  BY <1>3, BlockParts
<1> HIDE DEF c
<1>5. p < Len(b)
  BY <1>1, <1>2
<1>6. p \in 1..Len(c) /\ Len(c) \in 1..(Len(b) - 1) /\ ~(Len(c) < p) /\ Len(c) + 1 = Len(b)
  BY <1>2, <1>3, <1>5
<1>7. c[Len(c)].op = "JUMP" /\ c # <<>>
  BY <1>1, <1>3, <1>6, EmptySeq
<1>8. ASSUME NEW i \in 1..Len(c), NEW j \in 1..Len(c), i < j PROVE MayPrecede(c[i], c[j])
  <2> DEFINE was(k) == IF k < p THEN k ELSE k + 1
  <2>1. was(i) \in 1..Len(b) /\ was(j) \in 1..Len(b) /\ was(i) < was(j)
    BY <1>2, <1>3, <1>8
  <2>2. c[i] = b[was(i)] /\ c[j] = b[was(j)]
    BY <1>3
  <2> QED
    BY <1>2, <2>1, <2>2 DEF IsBlock
<1> QED
  BY <1>3, <1>4, <1>6, <1>7, <1>8 DEF IsBlock, IsBlockOf, BlockType, c

IsWindow(s) ==
  /\ s \in [block : Seq(Instruction), changed : BOOLEAN, cycles : BOOLEAN]
  /\ IsBlockOf(s.block, pos)
Keeps(s, t) == ~t.cycles => ~s.cycles /\ Same(t.block, s.block)

LEMMA SameItself == \A s : Same(s, s) /\ Keeps(s, s)
BY DEF Same, Keeps

LEMMA KeepsIsTransitive ==
  ASSUME NEW s, NEW t, NEW u, Keeps(s, t), Keeps(t, u)
  PROVE  Keeps(s, u)
BY SameIsTransitive DEF Keeps

LEMMA RemovedWindow ==
  ASSUME NEW s, IsWindow(s), Window(s, 0).op # "JUMP"
  PROVE  /\ IsWindow(Removed(s, 0)) /\ IsWindow(Reported(Removed(s, 0)))
         /\ Same(RemoveAt(s.block, pos), s.block) =>
              Keeps(s, Removed(s, 0)) /\ Keeps(s, Reported(Removed(s, 0)))
<1>1. IsBlock(s.block) /\ pos \in 1..Len(s.block) /\ Len(s.block) \in Nat
  BY BlockParts DEF IsWindow, IsBlockOf, IsBlock, BlockType
<1>2. pos + 0 = pos /\ IndexOf(0) = pos
  BY <1>1 DEF IndexOf
<1>3. IsBlockOf(RemoveAt(s.block, pos), pos)
  BY <1>1, <1>2, RemovedIsBlock DEF Window
<1>4. RemoveAt(s.block, pos) \in Seq(Instruction)
  BY <1>3 DEF IsBlockOf, IsBlock
<1>5. /\ Removed(s, 0) \in [block : Seq(Instruction), changed : BOOLEAN, cycles : BOOLEAN]
      /\ Removed(s, 0).block = RemoveAt(s.block, pos) /\ Removed(s, 0).cycles = s.cycles
  BY <1>2, <1>4 DEF Removed, IsWindow
<1>6. /\ Reported(Removed(s, 0)) \in [block : Seq(Instruction), changed : BOOLEAN, cycles : BOOLEAN]
      /\ Reported(Removed(s, 0)).block = RemoveAt(s.block, pos) /\ Reported(Removed(s, 0)).cycles = s.cycles
  BY <1>5 DEF Reported
<1> QED
  BY <1>3, <1>5, <1>6 DEF IsWindow, Keeps

LEMMA IdleMeansTheSame ==
  ASSUME NEW b \in BlockType, NEW p \in 1..Len(b),
         \A o : Value(Execute(States(b)[p - 1], b[p]), o) = Value(States(b)[p - 1], o)
  PROVE  Same(RemoveAt(b, p), b)
<1>1. Len(b) \in Nat /\ p \in p..Len(b)
  BY BlockParts
<1>2. States(b)[p] = Execute(States(b)[p - 1], b[p])
  BY <1>1, StatesRun
<1>3. ASSUME Agree(States(RemoveAt(b, p))[p - 1], States(b)[p - 1], {})
      PROVE  Agree(States(RemoveAt(b, p))[p - 1], States(b)[p], {})
  BY <1>2, <1>3 DEF Agree
<1> QED
  BY <1>1, <1>3, RemovedMeansTheSame

LEMMA RemoveAddSubZero ==
  ASSUME NEW s, IsWindow(s)
  PROVE  IsWindow(removeAddSubZero(s)) /\ Keeps(s, removeAddSubZero(s))
<1> DEFINE b == s.block
<1>1. b \in BlockType /\ pos \in 1..Len(b) /\ Window(s, 0) = b[pos] /\ pos - 1 \in 0..Len(b)
  <2>1. b \in BlockType /\ pos \in 1..Len(b)
    BY DEF IsWindow, IsBlockOf, IsBlock, BlockType
  <2> QED
    BY <2>1, BlockParts DEF Window
<1>2. CASE b[pos].op = "ADD" /\ b[pos].source = Imm(0)
  <2>1. Value(States(b)[pos - 1], Imm(0)) = Imm(0)
    BY <1>1, ImmediatesAreFixed DEF IsImm, Imm
  <2>2. Execute(States(b)[pos - 1], b[pos])
          = Put(States(b)[pos - 1], b[pos].target, Value(States(b)[pos - 1], b[pos].target))
    BY <1>2, <2>1 DEF Execute, Computed
  <2>3. Same(RemoveAt(b, pos), b)
    BY <1>1, <2>2, PutValue, IdleMeansTheSame
  <2> QED
    BY <1>1, <1>2, <2>3, RemovedWindow DEF removeAddSubZero
<1> QED
  BY <1>1, <1>2, SameItself DEF removeAddSubZero

LEMMA RemoveNOP ==
  ASSUME NEW s, IsWindow(s)
  PROVE  IsWindow(removeNOP(s)) /\ Keeps(s, removeNOP(s))
<1> DEFINE b == s.block
<1>1. b \in BlockType /\ pos \in 1..Len(b) /\ Window(s, 0) = b[pos]
  <2>1. b \in BlockType /\ pos \in 1..Len(b)
    BY DEF IsWindow, IsBlockOf, IsBlock, BlockType
  <2> QED
    BY <2>1, BlockParts DEF Window
<1>2. CASE b[pos] = NOP
  <2>1. Execute(States(b)[pos - 1], b[pos]) = States(b)[pos - 1] /\ b[pos].op = "NOP"
    BY <1>2 DEF Execute, NOP, INSN
  <2>2. Same(RemoveAt(b, pos), b)
    BY <1>1, <2>1, IdleMeansTheSame
  <2> QED
    BY <1>1, <1>2, <2>1, <2>2, RemovedWindow DEF removeNOP
<1> QED
  BY <1>1, <1>2, SameItself DEF removeNOP

LEMMA RemoveSelfCopy ==
  ASSUME NEW s, IsWindow(s)
  PROVE  IsWindow(removeSelfCopy(s)) /\ Keeps(s, removeSelfCopy(s))
<1> DEFINE b == s.block
<1>1. b \in BlockType /\ pos \in 1..Len(b) /\ Window(s, 0) = b[pos]
  <2>1. b \in BlockType /\ pos \in 1..Len(b)
    BY DEF IsWindow, IsBlockOf, IsBlock, BlockType
  <2> QED
    BY <2>1, BlockParts DEF Window
<1>2. CASE IsMove(b[pos]) /\ b[pos].target = b[pos].source
  <2>1. /\ b[pos].op = "MOV"
        /\ Execute(States(b)[pos - 1], b[pos])
             = Put(States(b)[pos - 1], b[pos].target, Value(States(b)[pos - 1], b[pos].target))
    BY <1>2 DEF Execute, IsMove
  <2>2. Same(RemoveAt(b, pos), b)
    BY <1>1, <2>1, PutValue, IdleMeansTheSame
  <2> QED
    BY <1>1, <1>2, <2>1, <2>2, RemovedWindow DEF removeSelfCopy
<1> QED
  BY <1>1, <1>2, SameItself DEF removeSelfCopy

(* The second of two moves to one place does not read that place: a value is  *)
(* copied to its own place only right after a call, before any other move.    *)
LEMMA RemoveUnusedMov ==
  ASSUME NEW s, IsWindow(s)
  PROVE  IsWindow(removeUnusedMov(s)) /\ Keeps(s, removeUnusedMov(s))
<1> DEFINE b == s.block
           c == RemoveAt(b, pos)
<1>1. b \in BlockType /\ pos \in 1..Len(b) /\ DOMAIN b = 1..Len(b) /\ Len(b) \in Nat /\ Window(s, 0) = b[pos]
  <2>1. b \in BlockType /\ pos \in 1..Len(b)
    BY DEF IsWindow, IsBlockOf, IsBlock, BlockType
  <2> QED
    BY <2>1, BlockParts DEF Window
<1>2. CASE TwoMoves(s) /\ Window(s, 1).target = Window(s, 0).target
  <2> DEFINE t == b[pos].target
             o2 == b[pos + 1].source
  <2>1. /\ pos + 1 \in 1..Len(b) /\ pos < pos + 1
        /\ b[pos].op = "MOV" /\ b[pos + 1].op = "MOV" /\ b[pos + 1].target = t
    BY <1>1, <1>2 DEF TwoMoves, InWindow, Window, IsMove
  <2>2. o2 # t
    <3>1. MayPrecede(b[pos], b[pos + 1])
      BY <1>1, <2>1 DEF IsWindow, IsBlockOf, IsBlock
    <3> QED
      BY <2>1, <3>1 DEF MayPrecede, IsMove
  <2>3. /\ States(b)[pos] = Execute(States(b)[pos - 1], b[pos])
        /\ States(b)[pos + 1] = Execute(States(b)[pos], b[pos + 1])
    BY <1>1, <2>1, StatesRun
  <2>4. Len(c) \in Nat /\ pos \in 1..Len(c) /\ c[pos] = b[pos + 1]
    <3>1. /\ Len(c) = Len(b) - 1
          /\ \A k \in 1..(Len(b) - 1) : c[k] = IF k < pos THEN b[k] ELSE b[k + 1]
      BY <1>1, RemovedParts
    <3>2. pos \in 1..(Len(b) - 1) /\ ~(pos < pos) /\ Len(b) - 1 \in Nat
      BY <1>1, <2>1
    <3> HIDE DEF c
    <3> QED
      BY <3>1, <3>2
  <2>5. States(c)[pos] = Execute(States(c)[pos - 1], b[pos + 1])
    BY <2>4, StatesRun
  <2> HIDE DEF t, o2
  <2>6. ASSUME Agree(States(c)[pos - 1], States(b)[pos - 1], {})
        PROVE  Agree(States(c)[(pos + 1) - 1], States(b)[pos + 1], {})
    <3>1. (pos + 1) - 1 = pos
      BY <1>1
    <3>2. States(b)[pos] = Put(States(b)[pos - 1], t, Value(States(b)[pos - 1], b[pos].source))
      BY <2>1, <2>3 DEF Execute, t
    <3>3. States(b)[pos + 1] = Put(States(b)[pos], t, Value(States(b)[pos], o2))
      BY <2>1, <2>3 DEF Execute, o2
    <3>4. States(c)[pos] = Put(States(c)[pos - 1], t, Value(States(c)[pos - 1], o2))
      BY <2>1, <2>5 DEF Execute, o2
    <3>5. Value(States(b)[pos], o2) = Value(States(b)[pos - 1], o2)
      BY <2>2, <3>2, PutValue
    <3>6. ASSUME NEW o PROVE Value(States(c)[pos], o) = Value(States(b)[pos + 1], o)
      <4>1. /\ Value(States(c)[pos], o)
                 = IF o = t THEN Value(States(c)[pos - 1], o2) ELSE Value(States(c)[pos - 1], o)
            /\ Value(States(b)[pos + 1], o)
                 = IF o = t THEN Value(States(b)[pos - 1], o2) ELSE Value(States(b)[pos], o)
            /\ Value(States(b)[pos], o)
                 = IF o = t THEN Value(States(b)[pos - 1], b[pos].source) ELSE Value(States(b)[pos - 1], o)
        BY <3>2, <3>3, <3>4, <3>5, PutValue
      <4> QED
        BY <2>6, <4>1 DEF Agree
    <3> QED
      BY <3>1, <3>6 DEF Agree
  <2>7. pos + 1 \in pos..Len(b)
    BY <1>1, <2>1
  <2>8. Same(c, b)
    BY <1>1, <2>6, <2>7, RemovedMeansTheSame
  <2> QED
    BY <1>1, <1>2, <2>1, <2>8, RemovedWindow DEF removeUnusedMov
<1> QED
  BY <1>2, SameItself DEF removeUnusedMov

(* Nothing is said of a block where a cycle was cut.                        *)
LEMMA RemoveCyclicMov ==
  ASSUME NEW s, IsWindow(s)
  PROVE  IsWindow(removeCyclicMov(s)) /\ Keeps(s, removeCyclicMov(s))
<1>1. pos \in Nat /\ pos \in 1..Len(s.block) /\ IndexOf(1) = pos
  <2>1. s.block \in BlockType /\ pos \in 1..Len(s.block)
    BY DEF IsWindow, IsBlockOf, IsBlock, BlockType
  <2> QED
    BY <2>1, BlockParts DEF IndexOf
<1>2. ASSUME TwoMoves(s)
      PROVE  LET t == [Removed(s, 1) EXCEPT !.cycles = TRUE] IN IsWindow(t) /\ Keeps(s, t)
  <2>1. s.block[pos].op = "MOV"
    BY <1>1, <1>2 DEF TwoMoves, Window, IsMove
  <2>2. IsBlockOf(RemoveAt(s.block, pos), pos)
    BY <1>1, <2>1, RemovedIsBlock DEF IsWindow, IsBlockOf
  <2>3. RemoveAt(s.block, pos) \in Seq(Instruction)
    BY <2>2 DEF IsBlockOf, IsBlock
  <2>4. /\ Removed(s, 1) \in [block : Seq(Instruction), changed : BOOLEAN, cycles : BOOLEAN]
        /\ Removed(s, 1).block = RemoveAt(s.block, pos)
    BY <1>1, <2>3 DEF Removed, IsWindow
  <2>5. /\ [Removed(s, 1) EXCEPT !.cycles = TRUE] \in [block : Seq(Instruction), changed : BOOLEAN, cycles : BOOLEAN]
        /\ [Removed(s, 1) EXCEPT !.cycles = TRUE].block = RemoveAt(s.block, pos)
        /\ [Removed(s, 1) EXCEPT !.cycles = TRUE].cycles
    BY <2>4
  <2> QED
    BY <2>2, <2>5 DEF IsWindow, Keeps
<1> QED
  BY <1>2, SameItself DEF removeCyclicMov

LEMMA RulesKeep ==
  ASSUME NEW s, IsWindow(s)
  PROVE  IsWindow(rules(s)) /\ Keeps(s, rules(s))
<1> DEFINE s1 == removeAddSubZero(s)
           s2 == removeNOP(s1)
           s3 == removeSelfCopy(s2)
           s4 == removeUnusedMov(s3)
           s5 == removeCyclicMov(s4)
<1>1. IsWindow(s1) /\ Keeps(s, s1)
  BY RemoveAddSubZero
<1> HIDE DEF s1
<1>2. IsWindow(s2) /\ Keeps(s, s2)
  BY <1>1, RemoveNOP, KeepsIsTransitive
<1> HIDE DEF s2
<1>3. IsWindow(s3) /\ Keeps(s, s3)
  BY <1>2, RemoveSelfCopy, KeepsIsTransitive
<1> HIDE DEF s3
<1>4. IsWindow(s4) /\ Keeps(s, s4)
  BY <1>3, RemoveUnusedMov, KeepsIsTransitive
<1> HIDE DEF s4
<1>5. IsWindow(s5) /\ Keeps(s, s5)
  BY <1>4, RemoveCyclicMov, KeepsIsTransitive
<1>6. rules(s) = s5
  BY DEF rules, s1, s2, s3, s4
<1> QED
  BY <1>5, <1>6
-----------------------------------------------------------------------------
(* Rules of the register optimizer: the moves that are taken away.          *)
IsRewriting(b, c) ==
  IsBlock(c) /\ Len(c) = Len(b) /\ Same(c, b)

LEMMA NOPMayBeAnywhere ==
  /\ NOP \in Instruction
  /\ \A i : MayPrecede(NOP, i) /\ MayPrecede(i, NOP)
<1>1. NOP \in Instruction
  BY DEF NOP, INSN, Instruction, None, Operand, IsRegister, IsMem, IsSpecialReg
<1>2. ASSUME NEW i PROVE MayPrecede(NOP, i) /\ MayPrecede(i, NOP)
  BY DEF NOP, INSN, MayPrecede, IsMove, Uses, IsBinary, IsUnary
<1> QED
  BY <1>1, <1>2

LEMMA SilencedIsBlock ==
  ASSUME NEW b, IsBlock(b), NEW c, c = [i \in DOMAIN b |-> c[i]],
         \A i \in DOMAIN b :
           \/ c[i] = b[i]
           \/ c[i] = NOP /\ IsMove(b[i]) /\ b[i].target \in Dead(b, i)
  PROVE  IsRewriting(b, c)
<1>1. /\ b \in BlockType /\ Len(b) \in Nat /\ DOMAIN b = 1..Len(b)
      /\ \A i \in 1..Len(b) : b[i] \in Instruction
  <2>1. b \in BlockType
    BY DEF IsBlock, BlockType
  <2> QED
    BY <2>1, BlockParts
<1>2. b # <<>> /\ b[Len(b)].op = "JUMP" /\ \A i, j \in DOMAIN b : i < j => MayPrecede(b[i], b[j])
  BY DEF IsBlock
<1>3. DOMAIN c = 1..Len(b) /\ \A i \in 1..Len(b) : c[i] \in Instruction
  BY <1>1, NOPMayBeAnywhere
<1>4. c \in BlockType /\ Len(c) = Len(b)
  <2>1. c \in [1..Len(b) -> Instruction]
    BY <1>1, <1>3
  <2> QED
    BY <1>1, <2>1, SeqDef, LenProperties DEF BlockType
<1>5. Len(b) \in 1..Len(b) /\ c # <<>>
  <2>1. Len(b) # 0
    BY <1>1, <1>2, EmptySeq
  <2> QED
    BY <1>1, <1>4, <2>1
<1>6. c[Len(b)].op = "JUMP"
  BY <1>1, <1>2, <1>5 DEF IsMove
<1>7. ASSUME NEW i \in 1..Len(b), NEW j \in 1..Len(b), i < j PROVE MayPrecede(c[i], c[j])
  <2>1. (c[i] = b[i] \/ c[i] = NOP) /\ (c[j] = b[j] \/ c[j] = NOP)
    BY <1>1
  <2>2. MayPrecede(b[i], b[j])
    BY <1>1, <1>2, <1>7
  <2> QED
    BY <2>1, <2>2, NOPMayBeAnywhere
<1>8. IsBlock(c)
  BY <1>3, <1>4, <1>5, <1>6, <1>7 DEF IsBlock, BlockType
<1>9. Silences(b, c)
  BY <1>1, <1>4 DEF Silences
<1> QED
  BY <1>1, <1>4, <1>8, <1>9, SilencedMeansTheSame DEF IsRewriting

(* A register that is not live behind a move is not read there.              *)
LEMMA RemoveUnusedRegisters ==
  ASSUME NEW b, IsBlock(b)
  PROVE  IsRewriting(b, removeUnusedRegisters(b))
<1> DEFINE c == removeUnusedRegisters(b)
<1>1. /\ Len(b) \in Nat /\ DOMAIN b = 1..Len(b) /\ \A i \in 1..Len(b) : b[i] \in Instruction
  BY BlockParts DEF IsBlock, BlockType
<1>2. c = [i \in DOMAIN b |-> c[i]]
  BY DEF removeUnusedRegisters
<1>3. ASSUME NEW i \in DOMAIN b, c[i] # b[i]
      PROVE  c[i] = NOP /\ IsMove(b[i]) /\ b[i].target \in Dead(b, i)
  <2>1. /\ c[i] = NOP /\ IsMove(b[i]) /\ IsRegister(b[i].target) /\ ~IsSpecialReg(b[i].target)
        /\ \A j \in (i + 1)..Len(b) : ~Live(b, j, b[i].target)
    BY <1>3 DEF removeUnusedRegisters
  <2>2. b[i].target \in Operand /\ ~Outlives(b[i].target)
    BY <1>1, <2>1, InstructionParts, OperandsDiffer
  <2>3. ASSUME NEW j \in (i + 1)..Len(b), b[i].target \in Uses(b[j]) PROVE FALSE
    <3>1. j \in j..Len(b) /\ j..(j - 1) = {}
      BY <1>1, <2>3
    <3>2. Live(b, j, b[i].target)
      BY <2>3, <3>1 DEF Live
    <3> QED
      BY <2>1, <3>2
  <2> QED
    BY <2>1, <2>2, <2>3 DEF Dead
<1> HIDE DEF c
<1> QED
  BY <1>2, <1>3, SilencedIsBlock DEF c

(* An argument is not read after it was written.                            *)
LEMMA RemoveFuncArgWrites ==
  ASSUME NEW b, IsBlock(b)
  PROVE  IsRewriting(b, removeFuncArgWrites(b))
<1> DEFINE c == removeFuncArgWrites(b)
<1>1. /\ Len(b) \in Nat /\ DOMAIN b = 1..Len(b) /\ \A i \in 1..Len(b) : b[i] \in Instruction
  BY BlockParts DEF IsBlock, BlockType
<1>2. c = [i \in DOMAIN b |-> c[i]]
  BY DEF removeFuncArgWrites
<1>3. ASSUME NEW i \in DOMAIN b, c[i] # b[i]
      PROVE  c[i] = NOP /\ IsMove(b[i]) /\ b[i].target \in Dead(b, i)
  <2>1. c[i] = NOP /\ IsMove(b[i]) /\ IsArgument(b[i].target)
    BY <1>3 DEF removeFuncArgWrites
  <2>2. b[i].target \in Operand /\ ~Outlives(b[i].target)
    BY <1>1, <2>1, InstructionParts, OperandsDiffer
  <2>3. ASSUME NEW j \in (i + 1)..Len(b) PROVE b[i].target \notin Uses(b[j])
    <3>1. j \in DOMAIN b /\ i < j
      BY <1>1
    <3>2. MayPrecede(b[i], b[j])
      BY <3>1 DEF IsBlock
    <3> QED
      BY <2>1, <3>2 DEF MayPrecede
  <2> QED
    BY <2>1, <2>2, <2>3 DEF Dead
<1> HIDE DEF c
<1> QED
  BY <1>2, <1>3, SilencedIsBlock DEF c
-----------------------------------------------------------------------------
(* Rules of the register optimizer: immediates.  What is read in place of a   *)
(* source is found front to back.                                           *)
IsSourcing(b, n, f) ==
  f = [j \in 1..n |-> IF Propagated(b, f, j) = {} THEN b[j].source
                      ELSE f[CHOOSE i \in Propagated(b, f, j) : TRUE]]

LEMMA PropagatedLooksBack ==
  ASSUME NEW b, NEW f, NEW g, NEW j, \A i \in 1..(j - 1) : f[i] = g[i]
  PROVE  Propagated(b, f, j) = Propagated(b, g, j)
BY DEF Propagated

LEMMA SourcingExists ==
  ASSUME NEW b, NEW m \in Nat
  PROVE  \E f : IsSourcing(b, m, f)
<1> DEFINE B == {n \in Nat : ~\E f : IsSourcing(b, n, f)}
           Sourced(f, j) == IF Propagated(b, f, j) = {} THEN b[j].source
                          ELSE f[CHOOSE i \in Propagated(b, f, j) : TRUE]
<1>1. ASSUME B # {} PROVE FALSE
  <2>1. PICK n \in B : \A k \in B : n <= k
    BY <1>1, Least
  <2>2. n \in Nat /\ ~\E f : IsSourcing(b, n, f)
    BY <2>1
  <2>3. n # 0
    <3>1. IsSourcing(b, 0, [j \in 1..0 |-> None])
      BY DEF IsSourcing
    <3> QED
      BY <2>2, <3>1
  <2>4. n - 1 \in Nat /\ n - 1 \notin B
    BY <2>1, <2>2, <2>3
  <2>5. PICK f : IsSourcing(b, n - 1, f)
    BY <2>4
  <2> DEFINE g == [j \in 1..n |-> IF j = n THEN Sourced(f, n) ELSE f[j]]
  <2>6. \A j \in 1..(n - 1) : f[j] = Sourced(f, j)
    BY <2>5 DEF IsSourcing
  <2>7. ASSUME NEW j \in 1..n PROVE Propagated(b, g, j) = Propagated(b, f, j)
    <3>1. \A i \in 1..(j - 1) : g[i] = f[i]
      BY <2>2
    <3> HIDE DEF g
    <3> QED
      BY <3>1, PropagatedLooksBack
  <2>8. ASSUME NEW j \in 1..n PROVE g[j] = Sourced(g, j)
    <3>1. g[j] = Sourced(f, j)
      <4>1. CASE j = n
        BY <4>1
      <4>2. CASE j # n
        <5>1. j \in 1..(n - 1)
          BY <2>2, <4>2
        <5> QED
          BY <2>6, <4>2, <5>1
      <4> QED
        BY <4>1, <4>2
    <3>2. ASSUME Propagated(b, f, j) # {}
          PROVE  LET i == CHOOSE i \in Propagated(b, f, j) : TRUE IN g[i] = f[i]
      <4>1. (CHOOSE i \in Propagated(b, f, j) : TRUE) \in Propagated(b, f, j)
        BY <3>2
      <4>2. \A i \in Propagated(b, f, j) : i \in 1..(j - 1)
        BY DEF Propagated
      <4>3. \A i \in 1..(j - 1) : g[i] = f[i]
        BY <2>2
      <4> HIDE DEF g
      <4> QED
        BY <4>1, <4>2, <4>3
    <3> HIDE DEF g
    <3> QED
      BY <2>7, <3>1, <3>2
  <2>9. IsSourcing(b, n, g)
    <3>1. g = [j \in 1..n |-> g[j]]
      OBVIOUS
    <3> HIDE DEF g
    <3> QED
      BY <2>8, <3>1 DEF IsSourcing
  <2> QED
    BY <2>2, <2>9
<1> QED
  BY <1>1

LEMMA SourcesRun ==
  ASSUME NEW b \in BlockType, NEW j \in 1..Len(b)
  PROVE  \/ Sources(b)[j] = b[j].source
         \/ \E i \in Propagated(b, Sources(b), j) : Sources(b)[j] = Sources(b)[i]
<1>1. Len(b) \in Nat /\ DOMAIN b = 1..Len(b)
  BY BlockParts
<1>2. PICK f : IsSourcing(b, Len(b), f)
  BY <1>1, SourcingExists
<1>3. IsSourcing(b, Len(b), Sources(b))
  <2>1. f = [k \in DOMAIN b |-> IF Propagated(b, f, k) = {} THEN b[k].source
                               ELSE f[CHOOSE i \in Propagated(b, f, k) : TRUE]]
    BY <1>1, <1>2 DEF IsSourcing
  <2>2. Sources(b) = [k \in DOMAIN b |-> IF Propagated(b, Sources(b), k) = {} THEN b[k].source
                                        ELSE Sources(b)[CHOOSE i \in Propagated(b, Sources(b), k) : TRUE]]
    BY <2>1 DEF Sources
  <2> QED
    BY <1>1, <2>2 DEF IsSourcing
<1> HIDE DEF Sources
<1>4. Sources(b)[j] = IF Propagated(b, Sources(b), j) = {} THEN b[j].source
                      ELSE Sources(b)[CHOOSE i \in Propagated(b, Sources(b), j) : TRUE]
  BY <1>3 DEF IsSourcing
<1> QED
  BY <1>4

(* An immediate that is read in place of a source is what the source holds.   *)
Reads(b, j) ==
  \/ Sources(b)[j] = b[j].source
  \/ /\ IsImm(Sources(b)[j]) /\ Sources(b)[j] \in Operand
     /\ b[j].op \in {"MOV", "ADD", "MUL", "CMP", "PUSH"}
     /\ Value(States(b)[j - 1], b[j].source) = Sources(b)[j]

LEMMA SourcesAreRead ==
  ASSUME NEW b, IsBlock(b)
  PROVE  \A j \in 1..Len(b) : Reads(b, j)
<1> DEFINE B == {j \in 1..Len(b) : ~Reads(b, j)}
<1>1. /\ b \in BlockType /\ Len(b) \in Nat /\ DOMAIN b = 1..Len(b)
      /\ \A i \in 1..Len(b) : b[i] \in Instruction
  BY BlockParts DEF IsBlock, BlockType
<1>2. ASSUME B # {} PROVE FALSE
  <2>1. B \in SUBSET Nat
    OBVIOUS
  <2>2. PICK j \in B : \A k \in B : j <= k
    BY <1>2, <2>1, Least
  <2>3. j \in 1..Len(b) /\ ~Reads(b, j)
    BY <2>2
  <2>4. PICK i \in Propagated(b, Sources(b), j) : Sources(b)[j] = Sources(b)[i]
    <3>1. ~(Sources(b)[j] = b[j].source)
      BY <2>3 DEF Reads
    <3> QED
      BY <1>1, <2>3, <3>1, SourcesRun
  <2> DEFINE r == b[j].source
  <2>5. /\ i \in 1..(j - 1) /\ (IsBinary(b[j]) \/ IsUnary(b[j]))
        /\ IsMove(b[i]) /\ IsRegister(b[i].target) /\ b[i].target = r
        /\ IsImm(Sources(b)[i]) /\ Reaches(b, i, j)
    BY DEF Propagated
  <2>6. /\ i \in 1..Len(b) /\ i < j /\ i \in Nat /\ j \in Nat /\ i \notin B
        /\ j - 1 \in i..Len(b) /\ i \in 0..Len(b) /\ i - 1 \in 0..Len(b)
    <3>1. /\ i \in 1..Len(b) /\ i < j /\ i \in Nat /\ j \in Nat /\ ~(j <= i)
          /\ j - 1 \in i..Len(b) /\ i \in 0..Len(b) /\ i - 1 \in 0..Len(b)
      BY <1>1, <2>3, <2>5
    <3> QED
      BY <2>2, <3>1
  <2>7. Reads(b, i) /\ b[i] \in Instruction /\ b[j] \in Instruction
    BY <1>1, <2>3, <2>6
  <2>8. Sources(b)[i] \in Operand /\ Value(States(b)[i - 1], b[i].source) = Sources(b)[i]
    <3>1. CASE Sources(b)[i] = b[i].source
      BY <1>1, <2>5, <2>6, <2>7, <3>1, ImmediatesAreFixed, InstructionParts
    <3>2. CASE Sources(b)[i] # b[i].source
      BY <2>7, <3>2 DEF Reads
    <3> QED
      BY <3>1, <3>2
  <2>9. Value(States(b)[i], r) = Sources(b)[i]
    <3>1. States(b)[i] = Execute(States(b)[i - 1], b[i])
      BY <1>1, <2>6, StatesRun
    <3>2. States(b)[i] = Put(States(b)[i - 1], r, Value(States(b)[i - 1], b[i].source))
      BY <2>5, <3>1 DEF Execute, IsMove
    <3> QED
      BY <2>8, <3>2, PutValue
  <2>10. ASSUME NEW k \in (i + 1)..(j - 1) PROVE r \notin Changed(b[k])
    <3>1. k \in 1..Len(b) /\ i < k /\ k \in (i + 1)..j
      BY <1>1, <2>3, <2>6
    <3>2. b[k] \in Instruction /\ MayPrecede(b[i], b[k])
      BY <1>1, <2>6, <3>1 DEF IsBlock
    <3>3. ~(IsBinary(b[k]) /\ b[k].target = r)
      BY <2>5, <3>1 DEF Reaches
    <3>4. r # Output
      BY <2>7, InstructionParts, OperandsDiffer
    <3>5. (b[k].op = "POP" => r # b[k].source) /\ (b[k].op = "CALL" => r # EAX)
      BY <2>5, <3>2 DEF MayPrecede
    <3> HIDE DEF r
    <3> QED
      BY <3>3, <3>4, <3>5 DEF Changed, IsBinary
  <2>11. Value(States(b)[j - 1], r) = Value(States(b)[i], r)
    BY <1>1, <2>6, <2>10, Unchanged
  <2>12. b[j].op \in {"MOV", "ADD", "MUL", "CMP", "PUSH"}
    <3>1. MayPrecede(b[i], b[j])
      BY <1>1, <2>3, <2>6 DEF IsBlock
    <3>2. b[j].op # "POP"
      BY <2>5, <3>1 DEF MayPrecede
    <3> QED
      BY <2>5, <3>2 DEF IsBinary, IsUnary
  <2> QED
    BY <2>3, <2>4, <2>5, <2>8, <2>9, <2>11, <2>12 DEF Reads
<1> QED
  BY <1>2

LEMMA ImmediateInstruction ==
  ASSUME NEW i \in Instruction, NEW v \in Operand, NEW c, c = [i EXCEPT !.source = v],
         v = i.source \/ (IsImm(v) /\ i.op \in {"MOV", "ADD", "MUL", "CMP", "PUSH"})
  PROVE  /\ c \in Instruction /\ c.op = i.op /\ c.target = i.target /\ c.source = v
         /\ \A h \in Instruction : MayPrecede(h, i) => MayPrecede(h, c)
         /\ \A h : MayPrecede(i, h) => MayPrecede(c, h)
<1>1. c.op = i.op /\ c.target = i.target /\ c.source = v
  BY DEF Instruction
<1>2. c \in Instruction
  <2>1. c \in [op : {"NOP", "MOV", "ADD", "MUL", "CMP", "PUSH", "POP", "CALL", "JUMP"},
               target : Operand, source : Operand]
    BY DEF Instruction
  <2> QED
    BY <1>1, <2>1, InstructionParts DEF Instruction
<1>3. ASSUME NEW h, MayPrecede(i, h) PROVE MayPrecede(c, h)
  BY <1>1, <1>3 DEF MayPrecede, IsMove
<1>4. ASSUME NEW h \in Instruction, MayPrecede(h, i), IsMove(h) PROVE MayPrecede(h, c)
  <2>1. CASE v = i.source
    <3>1. Uses(c) = Uses(i)
      BY <1>1, <2>1 DEF Uses, IsBinary, IsUnary, IsMove
    <3> QED
      BY <1>1, <1>4, <2>1, <3>1 DEF MayPrecede, IsMove
  <2>2. CASE IsImm(v) /\ i.op \in {"MOV", "ADD", "MUL", "CMP", "PUSH"}
    <3>1. Uses(c) \subseteq Uses(i) \cup {v}
      BY <1>1 DEF Uses, IsBinary, IsUnary, IsMove
    <3>2. IsArgument(h.target) => h.target # v
      BY <2>2 DEF IsArgument, IsImm, IsMem
    <3>3. ~(IsMove(c) /\ c.target = c.source)
      BY <1>1, <1>2, <2>2, InstructionParts, OperandsDiffer DEF IsMove
    <3>4. c.op # "POP" /\ (c.op = "CALL" => i.op = "CALL")
      BY <1>1, <2>2
    <3> QED
      BY <1>4, <3>1, <3>2, <3>3, <3>4 DEF MayPrecede
  <2> QED
    BY <2>1, <2>2
<1> QED
  BY <1>1, <1>2, <1>3, <1>4 DEF MayPrecede

LEMMA SourceIsRead ==
  ASSUME NEW i \in Instruction, NEW c \in Instruction, NEW s,
         c.op = i.op, c.target = i.target, i.op \in {"MOV", "ADD", "MUL", "CMP", "PUSH"},
         Value(s, c.source) = Value(s, i.source)
  PROVE  Execute(s, c) = Execute(s, i)
<1>1. CASE i.op = "MOV"
  BY <1>1 DEF Execute
<1>2. CASE i.op \in {"ADD", "MUL"}
  BY <1>2 DEF Execute
<1>3. CASE i.op = "CMP"
  BY <1>3 DEF Execute
<1>4. CASE i.op = "PUSH"
  BY <1>4 DEF Execute
<1> QED
  BY <1>1, <1>2, <1>3, <1>4

LEMMA PropagateImmediates ==
  ASSUME NEW b, IsBlock(b)
  PROVE  IsRewriting(b, propagateImmediates(b))
<1> DEFINE c == propagateImmediates(b)
<1>1. /\ b \in BlockType /\ Len(b) \in Nat /\ DOMAIN b = 1..Len(b)
      /\ \A i \in 1..Len(b) : b[i] \in Instruction
  BY BlockParts DEF IsBlock, BlockType
<1>2. b # <<>> /\ b[Len(b)].op = "JUMP" /\ \A i, j \in DOMAIN b : i < j => MayPrecede(b[i], b[j])
  BY DEF IsBlock
<1>3. DOMAIN c = 1..Len(b) /\ \A j \in 1..Len(b) : c[j] = [b[j] EXCEPT !.source = Sources(b)[j]]
  BY <1>1 DEF propagateImmediates
<1>4. \A j \in 1..Len(b) : Reads(b, j)
  BY SourcesAreRead
<1> DEFINE IsLike(j) ==
             /\ c[j] \in Instruction /\ c[j].op = b[j].op /\ c[j].target = b[j].target
             /\ c[j].source = Sources(b)[j]
             /\ \A h \in Instruction : MayPrecede(h, b[j]) => MayPrecede(h, c[j])
             /\ \A h : MayPrecede(b[j], h) => MayPrecede(c[j], h)
<1>5. ASSUME NEW j \in 1..Len(b) PROVE IsLike(j)
  <2>1. /\ b[j] \in Instruction /\ c[j] = [b[j] EXCEPT !.source = Sources(b)[j]]
        /\ \/ Sources(b)[j] = b[j].source
           \/ IsImm(Sources(b)[j]) /\ b[j].op \in {"MOV", "ADD", "MUL", "CMP", "PUSH"}
        /\ Sources(b)[j] \in Operand
    BY <1>1, <1>3, <1>4, InstructionParts DEF Reads
  <2> HIDE DEF c
  <2> QED
    BY <2>1, ImmediateInstruction
<1>6. c = [j \in 1..Len(b) |-> c[j]]
  BY <1>1 DEF propagateImmediates
<1> HIDE DEF c
<1>7. c \in BlockType /\ Len(c) = Len(b)
  <2>1. c \in [1..Len(b) -> Instruction]
    BY <1>5, <1>6
  <2> QED
    BY <1>1, <2>1, SeqDef, LenProperties DEF BlockType
<1>8. Len(b) \in 1..Len(b) /\ c # <<>>
  <2>1. Len(b) # 0
    BY <1>1, <1>2, EmptySeq
  <2> QED
    BY <1>1, <1>7, <2>1
<1>9. ASSUME NEW i \in 1..Len(b), NEW j \in 1..Len(b), i < j PROVE MayPrecede(c[i], c[j])
  <2>1. MayPrecede(b[i], b[j]) /\ b[i] \in Instruction
    BY <1>1, <1>2, <1>9
  <2>2. MayPrecede(b[i], c[j])
    BY <1>5, <2>1
  <2> QED
    BY <1>5, <2>2
<1>10. IsBlock(c)
  BY <1>2, <1>3, <1>5, <1>7, <1>8, <1>9 DEF IsBlock, BlockType
<1> DEFINE B == {k \in 0..Len(b) : ~Agree(States(c)[k], States(b)[k], {})}
<1>11. ASSUME B # {} PROVE FALSE
  <2>1. B \in SUBSET Nat
    BY <1>1
  <2>2. PICK k \in B : \A n \in B : k <= n
    BY <1>11, <2>1, Least
  <2>3. k \in 0..Len(b) /\ ~Agree(States(c)[k], States(b)[k], {})
    BY <2>2
  <2>4. k # 0
    BY <1>1, <1>7, <2>3, StatesRun DEF Agree
  <2>5. k - 1 \in 0..Len(b) /\ k \in 1..Len(b) /\ ~(k <= k - 1)
    BY <1>1, <2>3, <2>4
  <2>6. Agree(States(c)[k - 1], States(b)[k - 1], {})
    BY <2>2, <2>5
  <2>7. /\ States(b)[k] = Execute(States(b)[k - 1], b[k])
        /\ States(c)[k] = Execute(States(c)[k - 1], c[k])
    BY <1>1, <1>7, <2>5, StatesRun
  <2>8. b[k] \in Instruction /\ IsLike(k) /\ Reads(b, k)
    BY <1>1, <1>4, <1>5, <2>5
  <2>9. Execute(States(c)[k - 1], c[k]) = Execute(States(c)[k - 1], b[k])
    <3>1. CASE Sources(b)[k] = b[k].source
      <4>1. c[k] = b[k]
        BY <2>8, <3>1, InstructionParts
      <4> QED
        BY <4>1
    <3>2. CASE Sources(b)[k] # b[k].source
      <4>1. /\ IsImm(Sources(b)[k]) /\ b[k].op \in {"MOV", "ADD", "MUL", "CMP", "PUSH"}
            /\ Value(States(b)[k - 1], b[k].source) = Sources(b)[k]
        BY <2>8, <3>2 DEF Reads
      <4>2. Value(States(c)[k - 1], Sources(b)[k]) = Sources(b)[k]
        BY <1>7, <2>5, <4>1, ImmediatesAreFixed
      <4>3. Value(States(c)[k - 1], c[k].source) = Value(States(c)[k - 1], b[k].source)
        BY <2>6, <2>8, <4>1, <4>2 DEF Agree
      <4> QED
        BY <2>8, <4>1, <4>3, SourceIsRead
    <3> QED
      BY <3>1, <3>2
  <2>10. Agree(Execute(States(c)[k - 1], b[k]), Execute(States(b)[k - 1], b[k]), {})
    BY <2>6, <2>8, ExecuteAgrees
  <2> QED
    BY <2>3, <2>7, <2>9, <2>10
<1>12. Same(c, b)
  BY <1>1, <1>7, <1>11 DEF Same, Agree, Meaning
<1> QED
  BY <1>7, <1>10, <1>12 DEF IsRewriting, c
-----------------------------------------------------------------------------
(* The optimizer.  Its rules keep the shape of blocks, which they rely on, and *)
(* until a cycle is cut every block means what it meant at first.           *)
Block == {b \in Seq(Instruction) : IsBlock(b)}

Shape ==
  /\ input \in Seq(Block) /\ input # <<>>
  /\ code \in [1..Len(input) -> Block]
  /\ bb \in 1..Len(input)
  /\ pos \in 1..Len(code[bb])
  /\ phase \in {"peephole", "registers", "done"}
  /\ phase # "peephole" => pos = 1
  /\ rule \in 1..3
  /\ changed \in BOOLEAN /\ cycles \in BOOLEAN

MeansTheSame == ~cycles => \A b \in 1..Len(input) : Same(code[b], input[b])

IInv == Shape /\ MeansTheSame

LEMMA ShapeParts ==
  ASSUME Shape
  PROVE  /\ Len(input) \in Nat /\ DOMAIN input = 1..Len(input) /\ Len(input) \in 1..Len(input)
         /\ DOMAIN code = 1..Len(input) /\ Len(code) = Len(input)
         /\ \A b \in 1..Len(input) : code[b] \in Block
<1>1. /\ Len(input) \in Nat /\ DOMAIN input = 1..Len(input) /\ Len(input) # 0
  BY LenProperties, EmptySeq DEF Shape
<1>2. DOMAIN code = 1..Len(input) /\ \A b \in 1..Len(input) : code[b] \in Block
  BY DEF Shape
<1>3. code \in Seq(Block)
  BY <1>1, SeqDef DEF Shape
<1>4. Len(code) = Len(input)
  BY <1>1, <1>2, <1>3, LenProperties
<1> QED
  BY <1>1, <1>2, <1>4

LEMMA BlocksBegin ==
  \A b \in Block : IsBlock(b) /\ Len(b) \in Nat /\ 1 \in 1..Len(b)
<1> SUFFICES ASSUME NEW b \in Block PROVE IsBlock(b) /\ Len(b) \in Nat /\ 1 \in 1..Len(b)
  OBVIOUS
<1>1. IsBlock(b) /\ b # <<>> /\ b \in BlockType
  BY DEF Block, IsBlock, BlockType
<1>2. Len(b) \in Nat /\ Len(b) # 0
  BY <1>1, BlockParts, EmptySeq DEF BlockType
<1> QED
  BY <1>1, <1>2

LEMMA InitShape == Init => IInv
<1> SUFFICES ASSUME Init PROVE IInv
  OBVIOUS
<1>1. input \in Seq(Block) /\ input # <<>>
  BY InputsAssumption DEF Init, Block
<1>2. Len(input) \in Nat /\ Len(input) # 0 /\ input \in [1..Len(input) -> Block]
  BY <1>1, LenProperties, EmptySeq, SeqDef
<1>3. 1 \in 1..Len(input) /\ 1 \in 1..Len(input[1])
  BY <1>2, BlocksBegin
<1>4. code = input /\ bb = 1 /\ pos = 1 /\ rule = 1 /\ phase = "peephole"
  BY DEF Init
<1>5. code \in [1..Len(input) -> Block] /\ bb \in 1..Len(input) /\ pos \in 1..Len(code[bb])
  BY <1>2, <1>3, <1>4
<1>6. /\ phase \in {"peephole", "registers", "done"} /\ (phase # "peephole" => pos = 1)
      /\ rule \in 1..3
  BY <1>4
<1>7. changed \in BOOLEAN /\ cycles \in BOOLEAN
  BY DEF Init
<1>8. Shape
  BY <1>1, <1>5, <1>6, <1>7 DEF Shape
<1> QED
  BY <1>4, <1>8, SameItself DEF IInv, MeansTheSame

LEMMA PeepholeKeeps ==
  ASSUME IInv, Peephole
  PROVE  IInv'
<1> DEFINE before == [block |-> code[bb], changed |-> changed, cycles |-> cycles]
           s == rules(before)
<1>1. /\ phase = "peephole" /\ code' = [code EXCEPT ![bb] = s.block]
      /\ changed' = s.changed /\ cycles' = s.cycles
      /\ UNCHANGED <<rule, input>>
      /\ IF pos < Len(s.block)
         THEN pos' = pos + 1 /\ UNCHANGED <<bb, phase>>
         ELSE /\ pos' = 1
              /\ bb' = IF bb < Len(code) THEN bb + 1 ELSE 1
              /\ phase' = IF bb < Len(code) THEN phase ELSE "registers"
  BY DEF Peephole
<1>2. Shape /\ MeansTheSame /\ code[bb] \in Block /\ pos \in 1..Len(code[bb])
  BY ShapeParts DEF IInv, Shape
<1>3. IsWindow(before)
  <2>1. code[bb] \in Seq(Instruction) /\ IsBlockOf(code[bb], pos)
    BY <1>2 DEF Block, IsBlockOf
  <2> QED
    BY <1>2, <2>1 DEF IsWindow, Shape
<1>4. IsWindow(s) /\ Keeps(before, s)
  BY <1>3, RulesKeep
<1>5. (~s.cycles => ~cycles /\ Same(s.block, code[bb]))
  BY <1>4 DEF Keeps
<1> HIDE DEF s, before
<1>6. /\ s.block \in Block /\ pos \in 1..Len(s.block) /\ s.changed \in BOOLEAN /\ s.cycles \in BOOLEAN
      /\ Len(s.block) \in Nat
  BY <1>4, BlocksBegin DEF IsWindow, IsBlockOf, Block, IsBlock
<1>7. /\ Len(input) \in Nat /\ Len(code) = Len(input) /\ bb \in 1..Len(input)
      /\ code \in [1..Len(input) -> Block]
  BY <1>2, ShapeParts DEF Shape
<1>8. /\ code' \in [1..Len(input) -> Block] /\ code'[bb] = s.block
      /\ \A b \in 1..Len(input) : b # bb => code'[b] = code[b]
  BY <1>1, <1>6, <1>7
<1>9. bb' \in 1..Len(input) /\ pos' \in 1..Len(code'[bb'])
  <2>1. CASE pos < Len(s.block)
    BY <1>1, <1>6, <1>7, <1>8, <2>1
  <2>2. CASE ~(pos < Len(s.block))
    <3>1. pos' = 1 /\ bb' \in 1..Len(input)
      BY <1>1, <1>7, <2>2
    <3> QED
      BY <1>8, <3>1, BlocksBegin
  <2> QED
    BY <2>1, <2>2
<1>10. Shape'
  BY <1>1, <1>2, <1>6, <1>8, <1>9 DEF Shape
<1>11. MeansTheSame'
  <2> SUFFICES ASSUME ~s.cycles, NEW b \in 1..Len(input) PROVE Same(code'[b], input[b])
    BY <1>1 DEF MeansTheSame
  <2>1. Same(code[b], input[b])
    BY <1>2, <1>5 DEF MeansTheSame
  <2>2. b = bb => Same(code'[b], code[b])
    BY <1>5, <1>8
  <2> QED
    BY <1>8, <2>1, <2>2, SameIsTransitive
<1> QED
  BY <1>10, <1>11 DEF IInv

LEMMA RegOptimizerKeeps ==
  ASSUME IInv, RegOptimizer
  PROVE  IInv'
<1> DEFINE c == Rewritten(code[bb])
<1>1. /\ phase = "registers" /\ code' = [code EXCEPT ![bb] = c]
      /\ rule' = IF rule < 3 THEN rule + 1 ELSE 1
      /\ bb' = IF rule < 3 THEN bb ELSE IF bb < Len(code) THEN bb + 1 ELSE 1
      /\ changed' \in BOOLEAN /\ phase' \in {"peephole", "registers", "done"}
      /\ UNCHANGED <<pos, input, cycles>>
  BY DEF RegOptimizer, Reports
<1>2. Shape /\ MeansTheSame /\ code[bb] \in Block /\ pos = 1 /\ rule \in 1..3
  BY <1>1, ShapeParts DEF IInv, Shape
<1>3. IsRewriting(code[bb], c)
  BY <1>2, PropagateImmediates, RemoveUnusedRegisters, RemoveFuncArgWrites, BlocksBegin DEF Rewritten
<1> HIDE DEF c
<1>4. c \in Block /\ Same(c, code[bb])
  BY <1>3 DEF IsRewriting, Block, IsBlock
<1>5. /\ Len(input) \in Nat /\ Len(code) = Len(input) /\ bb \in 1..Len(input)
      /\ code \in [1..Len(input) -> Block]
  BY <1>2, ShapeParts DEF Shape
<1>6. /\ code' \in [1..Len(input) -> Block] /\ code'[bb] = c
      /\ \A b \in 1..Len(input) : b # bb => code'[b] = code[b]
  BY <1>1, <1>4, <1>5
<1>7. bb' \in 1..Len(input) /\ rule' \in 1..3
  BY <1>1, <1>2, <1>5
<1>8. pos' = 1 /\ pos' \in 1..Len(code'[bb'])
  BY <1>1, <1>2, <1>6, <1>7, BlocksBegin
<1>9. Shape'
  BY <1>1, <1>2, <1>6, <1>7, <1>8 DEF Shape
<1>10. MeansTheSame'
  <2> SUFFICES ASSUME ~cycles, NEW b \in 1..Len(input) PROVE Same(code'[b], input[b])
    BY <1>1 DEF MeansTheSame
  <2>1. Same(code[b], input[b])
    BY <1>2 DEF MeansTheSame
  <2>2. b = bb => Same(code'[b], code[b])
    BY <1>4, <1>6
  <2> QED
    BY <1>6, <2>1, <2>2, SameIsTransitive
<1> QED
  BY <1>9, <1>10 DEF IInv

(* The optimizer keeps blocks as its rules need them, and what they mean.    *)
THEOREM Invariant == Spec => []IInv
<1>1. Init => IInv
  BY InitShape
<1>2. IInv /\ [Next]_vars => IInv'
  <2> SUFFICES ASSUME IInv, [Next]_vars PROVE IInv'
    OBVIOUS
  <2>1. CASE UNCHANGED vars
    BY <2>1 DEF vars, IInv, Shape, MeansTheSame
  <2> QED
    BY <2>1, PeepholeKeeps, RegOptimizerKeeps DEF Next, Done
<1> QED
  BY <1>1, <1>2, PTL DEF Spec

(* Where no cycle of moves was cut, the optimized blocks leave the same values *)
(* in EAX, SP, BP and the variables, and compare, push, pop and call the same,  *)
(* as the blocks the allocator left (OptimizationKeepsTheMeaning).           *)
THEOREM MeaningIsKept == Spec => []OptimizationKeepsTheMeaning
<1>1. IInv => OptimizationKeepsTheMeaning
  BY ShapeParts DEF IInv, MeansTheSame, Same, OptimizationKeepsTheMeaning
<1> QED
  BY <1>1, Invariant, PTL
=============================================================================
