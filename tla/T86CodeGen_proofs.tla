--------------------------- MODULE T86CodeGen_proofs ---------------------------
(***************************************************************************)
(* Proofs about T86CodeGen, for every set of programs the passes before it  *)
(* can leave.                                                              *)
(*                                                                         *)
(* The invariant relates the worklists to the text: what was visited is     *)
(* compiled or waits, never both; blocks wait only while their function is  *)
(* compiled; and every label in the text belongs to something visited.     *)
(***************************************************************************)
EXTENDS T86CodeGen, SequenceTheorems, TLAPS

Entered == funVisited \ Range(funWorklist)

Position ==
  /\ cur # Null => /\ fun # Null
                   /\ cur \in Range(bbs[fun]) /\ cur \in bbVisited
                   /\ pos \in 1..Len(code[cur])
  /\ fun = Null => cur = Null /\ bbWorklist = <<>>
  /\ text # <<>>

Ownership ==
  /\ fun # Null => fun \in Entered /\ Waiting \subseteq Range(bbs[fun])
  /\ \A b \in bbVisited : \E f \in Entered : b \in Range(bbs[f])
  /\ Range(funWorklist) \subseteq funVisited
  /\ IsInjective(funWorklist)

LabelsOf(k) == {text[k].insns[i].label : i \in 1..Len(text[k].insns)}

Accounted(l) ==
  \/ l = NoLabel
  \/ \E b \in bbVisited : l = BlockLabel(b)
  \/ \E f \in funVisited : l = FunLabel(f)
  \/ \E j \in 1..Len(text) : l = text[j].label

Labels ==
  /\ \A k \in 1..Len(text) :
       text[k].label = FreshLabel(k) \/ \E b \in Block : text[k].label = BlockLabel(b)
  /\ \A k \in 1..Len(text) : \A l \in LabelsOf(k) : Accounted(l)
  /\ \A f \in Entered : (f = fun /\ bbWorklist # <<>>) \/ \E k \in 1..Len(text) : text[k].fun = f

IInv == TypeOK /\ Position /\ Ownership /\ EachBlockOnce /\ Labels

-----------------------------------------------------------------------------
(* What addToWorklist does to a worklist, for one new element or several. *)
Grown(list, visited, list2, visited2, new) ==
  /\ Range(list2) = Range(list) \cup (new \ visited)
  /\ visited2 = visited \cup new
  /\ IsInjective(list) /\ Range(list) \subseteq visited => IsInjective(list2)

LEMMA Back ==
  ASSUME NEW S, NEW list \in Seq(S), NEW visited, NEW x \in S
  PROVE  /\ addToWorklistBack(list, visited, x) \in Seq(S)
         /\ Grown(list, visited, addToWorklistBack(list, visited, x), visited \cup {x}, {x})
<1>1. CASE x \in visited
  BY <1>1 DEF addToWorklistBack, Grown
<1>2. CASE x \notin visited
  <2> DEFINE longer == Append(list, x)
  <2>1. /\ longer \in Seq(S) /\ Len(longer) = Len(list) + 1
        /\ \A i \in 1..Len(list) : longer[i] = list[i]
        /\ longer[Len(list) + 1] = x
    OBVIOUS
  <2>2. Range(longer) = Range(list) \cup {x}
    BY <2>1 DEF Range
  <2>3. IsInjective(list) /\ Range(list) \subseteq visited => IsInjective(longer)
    BY <2>1, <1>2 DEF Range, IsInjective
  <2>4. QED
    BY <1>2, <2>1, <2>2, <2>3 DEF addToWorklistBack, Grown
<1>3. QED
  BY <1>1, <1>2

LEMMA Front ==
  ASSUME NEW S, NEW list \in Seq(S), NEW visited, NEW x \in S
  PROVE  /\ addToWorklistFront(list, visited, x) \in Seq(S)
         /\ Grown(list, visited, addToWorklistFront(list, visited, x), visited \cup {x}, {x})
<1>1. CASE x \in visited
  BY <1>1 DEF addToWorklistFront, Grown
<1>2. CASE x \notin visited
  <2> DEFINE longer == <<x>> \o list
  <2>1. /\ longer \in Seq(S) /\ Len(longer) = Len(list) + 1
        /\ \A i \in 1..Len(list) : longer[i + 1] = list[i]
        /\ longer[1] = x
    OBVIOUS
  <2>2. \A i \in 2..(Len(list) + 1) : i - 1 \in 1..Len(list) /\ longer[i] = list[i - 1]
    BY <2>1
  <2>3. Range(longer) = Range(list) \cup {x}
    <3>1. ASSUME NEW y \in Range(longer) PROVE y \in Range(list) \cup {x}
      <4>1. PICK i \in 1..(Len(list) + 1) : y = longer[i]
        BY <2>1 DEF Range
      <4>2. i = 1 \/ i \in 2..(Len(list) + 1)
        OBVIOUS
      <4>3. QED
        BY <2>1, <2>2, <4>1, <4>2 DEF Range
    <3>2. ASSUME NEW y \in Range(list) PROVE y \in Range(longer)
      <4>1. PICK i \in 1..Len(list) : y = list[i]
        BY DEF Range
      <4>2. i + 1 \in DOMAIN longer /\ longer[i + 1] = y
        BY <2>1, <4>1
      <4>3. QED
        BY <2>1, <4>2 DEF Range
    <3>3. x \in Range(longer)
      BY <2>1 DEF Range
    <3>4. QED
      BY <3>1, <3>2, <3>3
  <2>4. IsInjective(list) /\ Range(list) \subseteq visited => IsInjective(longer)
    BY <2>1, <2>2, <1>2 DEF Range, IsInjective
  <2>5. QED
    BY <1>2, <2>1, <2>3, <2>4 DEF addToWorklistFront, Grown
<1>3. QED
  BY <1>1, <1>2

LEMMA GrownTwice ==
  ASSUME NEW l1, NEW v1, NEW l2, NEW v2, NEW l3, NEW v3, NEW new1, NEW new2,
         Grown(l1, v1, l2, v2, new1), Grown(l2, v2, l3, v3, new2)
  PROVE  Grown(l1, v1, l3, v3, new1 \cup new2)
  BY DEF Grown

LEMMA Unqueue ==
  ASSUME NEW S, NEW list \in Seq(S), list # <<>>
  PROVE  /\ Head(list) \in S
         /\ Tail(list) \in Seq(S)
         /\ Range(list) = {Head(list)} \cup Range(Tail(list))
         /\ IsInjective(list) => Head(list) \notin Range(Tail(list)) /\ IsInjective(Tail(list))
<1>1. /\ Tail(list) \in Seq(S) /\ Len(Tail(list)) = Len(list) - 1 /\ Len(list) \in Nat \ {0}
      /\ Head(list) = list[1]
      /\ \A i \in 1..(Len(list) - 1) : Tail(list)[i] = list[i + 1]
  OBVIOUS
<1>2. \A i \in 2..Len(list) : i - 1 \in 1..(Len(list) - 1) /\ list[i] = Tail(list)[i - 1]
  BY <1>1
<1>3. Range(list) = {Head(list)} \cup Range(Tail(list))
  <2>1. ASSUME NEW y \in Range(list) PROVE y \in {Head(list)} \cup Range(Tail(list))
    <3>1. PICK i \in 1..Len(list) : y = list[i]
      BY DEF Range
    <3>2. CASE i = 1
      BY <1>1, <3>1, <3>2
    <3>3. CASE i # 1
      <4>1. i - 1 \in DOMAIN Tail(list) /\ Tail(list)[i - 1] = y
        BY <1>1, <1>2, <3>1, <3>3
      <4>2. QED
        BY <4>1 DEF Range
    <3>4. QED
      BY <3>2, <3>3
  <2>2. ASSUME NEW y \in Range(Tail(list)) PROVE y \in Range(list)
    <3>1. PICK i \in 1..(Len(list) - 1) : y = Tail(list)[i]
      BY <1>1 DEF Range
    <3>2. i + 1 \in DOMAIN list /\ list[i + 1] = y
      BY <1>1, <3>1
    <3>3. QED
      BY <3>2 DEF Range
  <2>3. Head(list) \in Range(list)
    BY <1>1 DEF Range
  <2>4. QED
    BY <2>1, <2>2, <2>3
<1>4. IsInjective(list) => Head(list) \notin Range(Tail(list)) /\ IsInjective(Tail(list))
  BY <1>1 DEF Range, IsInjective
<1>5. QED
  BY <1>1, <1>3, <1>4

(* Emit changes the instructions of the last block of the text only. *)
LEMMA Emitted ==
  ASSUME NEW t \in Seq(TextBlock), t # <<>>, NEW e \in Seq(T86Insn)
  PROVE  /\ Emit(t, e) \in Seq(TextBlock)
         /\ Len(Emit(t, e)) = Len(t)
         /\ \A k \in 1..Len(t) :
              /\ Emit(t, e)[k].fun = t[k].fun
              /\ Emit(t, e)[k].label = t[k].label
              /\ Emit(t, e)[k].insns = IF k = Len(t) THEN t[k].insns \o e ELSE t[k].insns
<1>1. Len(t) \in Nat \ {0} /\ \A k \in 1..Len(t) : t[k] \in TextBlock
  OBVIOUS
<1>2. \A k \in 1..Len(t) : t[k].insns \o e \in Seq(T86Insn)
  BY <1>1 DEF TextBlock
<1>3. Emit(t, e) = [t EXCEPT ![Len(t)] = [t[Len(t)] EXCEPT !.insns = t[Len(t)].insns \o e]]
  BY DEF Emit
<1>4. [t[Len(t)] EXCEPT !.insns = t[Len(t)].insns \o e] \in TextBlock
  <2>1. /\ t[Len(t)] \in TextBlock
        /\ t[Len(t)].insns \o e \in Seq(T86Insn)
    BY <1>1, <1>2
  <2> HIDE DEF T86Insn, Label
  <2>2. QED
    BY <2>1 DEF TextBlock
<1>5. QED
  BY <1>1, <1>3, <1>4 DEF TextBlock

-----------------------------------------------------------------------------
(* The three kinds of label never collide. *)
LEMMA LabelsDiffer ==
  /\ \A x, y : BlockLabel(x) = BlockLabel(y) => x = y
  /\ \A x, y : FreshLabel(x) = FreshLabel(y) => x = y
  /\ \A x, y : BlockLabel(x) # FreshLabel(y)
  BY DEF BlockLabel, FreshLabel

LEMMA LabelTypes ==
  /\ \A n \in Nat : BlockLabel(n) \in Label /\ FreshLabel(n) \in Label /\ FunLabel(n) \in Label
  /\ NoLabel \in Label
  BY DEF BlockLabel, FreshLabel, FunLabel, NoLabel, Label

LEMMA NewBlockFacts ==
  ASSUME NEW f \in Nat, NEW l \in Label, NEW i \in Seq(T86Insn)
  PROVE  /\ NewBlock(f, l, i) \in TextBlock
         /\ NewBlock(f, l, i).fun = f
         /\ NewBlock(f, l, i).label = l
         /\ NewBlock(f, l, i).insns = i
  BY DEF NewBlock, TextBlock

(* What is known of the blocks of a function. *)
LEMMA ProgramFacts ==
  ASSUME NEW p, IsProgram(p), NEW f \in 1..Len(p.bbs)
  PROVE  /\ p.bbs[f] \in Seq(1..Len(p.code)) /\ p.bbs[f] # <<>>
         /\ p.bbs[f][1] \in Range(p.bbs[f])
         /\ Range(p.bbs[f]) \subseteq 1..Len(p.code)
         /\ \A g \in 1..Len(p.bbs) : f # g => Range(p.bbs[f]) \cap Range(p.bbs[g]) = {}
         /\ \A b \in Range(p.bbs[f]) :
              /\ p.code[b] \in Seq(Insn)
              /\ p.code[b] # <<>>
              /\ WellFormedBlock(p.code[b], Range(p.bbs[f]))
              /\ \A i \in 1..Len(p.code[b]) :
                   p.code[b][i].op = "CALL" => p.code[b][i].target1 \in 1..Len(p.bbs)
<1>1. p.bbs[f] \in Seq(1..Len(p.code)) /\ p.bbs[f] # <<>>
  <2>1. p.bbs \in Seq(Seq(1..Len(p.code)) \ {<<>>})
    BY Zenon DEF IsProgram
  <2>2. p.bbs[f] \in Seq(1..Len(p.code)) \ {<<>>}
    BY <2>1, ElementOfSeq, Zenon
  <2>3. QED
    BY <2>2, Zenon
<1>2. Range(p.bbs[f]) \subseteq 1..Len(p.code) /\ p.bbs[f][1] \in Range(p.bbs[f])
  BY <1>1 DEF Range
<1>3. ASSUME NEW b \in Range(p.bbs[f])
      PROVE  p.code[b] \in Seq(Insn) /\ p.code[b] # <<>>
  <2>1. WellFormedBlock(p.code[b], Range(p.bbs[f])) /\ p.code \in Seq(Seq(Insn)) /\ b \in 1..Len(p.code)
    BY <1>2 DEF IsProgram
  <2>2. QED
    BY <2>1 DEF WellFormedBlock, terminated
<1>4. QED
  BY <1>1, <1>2, <1>3 DEF IsProgram

(* The same for the program that is compiled. *)
LEMMA FunFacts ==
  ASSUME TypeOK, NEW f \in Fun
  PROVE  /\ start(f) \in Range(bbs[f])
         /\ Range(bbs[f]) \subseteq Block
         /\ \A g \in Fun : f # g => Range(bbs[f]) \cap Range(bbs[g]) = {}
         /\ \A b \in Range(bbs[f]) :
              /\ code[b] \in Seq(Insn)
              /\ Len(code[b]) \in Nat \ {0}
              /\ OneTerminatorLast(code[b])
              /\ terminated(code[b])
              /\ Successors(code[b]) \subseteq Range(bbs[f])
              /\ \A i \in 1..Len(code[b]) : code[b][i].op = "CALL" => code[b][i].target1 \in Fun
<1> DEFINE p == [code |-> code, bbs |-> bbs]
<1>1. IsProgram(p) /\ p.code = code /\ p.bbs = bbs
  BY DEF TypeOK
<1> HIDE DEF p
<1>2. f \in 1..Len(p.bbs)
  BY <1>1 DEF Fun
<1>3. /\ start(f) \in Range(bbs[f])
      /\ Range(bbs[f]) \subseteq Block
      /\ \A g \in Fun : f # g => Range(bbs[f]) \cap Range(bbs[g]) = {}
  BY <1>1, <1>2, ProgramFacts DEF Fun, Block, start
<1>4. ASSUME NEW b \in Range(bbs[f])
      PROVE  /\ code[b] \in Seq(Insn) /\ code[b] # <<>>
             /\ WellFormedBlock(code[b], Range(bbs[f]))
             /\ \A i \in 1..Len(code[b]) : code[b][i].op = "CALL" => code[b][i].target1 \in Fun
  BY <1>1, <1>2, ProgramFacts DEF Fun
<1>5. ASSUME NEW b \in Range(bbs[f])
      PROVE  Len(code[b]) \in Nat \ {0}
  BY <1>4
<1>6. QED
  BY <1>3, <1>4, <1>5 DEF WellFormedBlock

(* A terminator names blocks of its own function. *)
LEMMA TargetFacts ==
  ASSUME IInv, cur # Null
  PROVE  /\ insn \in Insn
         /\ Targets(insn) \subseteq Range(bbs[fun])
         /\ insn.op = "CALL" => insn.target1 \in Fun
         /\ IsTerminator(insn) => pos = Len(code[cur])
<1>1. fun \in Fun /\ cur \in Range(bbs[fun]) /\ pos \in 1..Len(code[cur])
  BY DEF IInv, Position, TypeOK
<1>2. /\ code[cur] \in Seq(Insn)
      /\ OneTerminatorLast(code[cur])
      /\ terminated(code[cur])
      /\ Successors(code[cur]) \subseteq Range(bbs[fun])
      /\ \A i \in 1..Len(code[cur]) : code[cur][i].op = "CALL" => code[cur][i].target1 \in Fun
  BY <1>1, FunFacts DEF IInv
<1>3. insn \in Insn /\ (insn.op = "CALL" => insn.target1 \in Fun)
  BY <1>1, <1>2 DEF insn
<1>4. IsTerminator(insn) => pos = Len(code[cur])
  BY <1>1, <1>2 DEF OneTerminatorLast, insn
<1>5. Targets(insn) \subseteq Range(bbs[fun])
  <2>1. CASE IsTerminator(insn)
    BY <1>2, <1>4, <2>1 DEF Successors, insn
  <2>2. CASE ~IsTerminator(insn)
    BY <2>2 DEF IsTerminator, TerminatorOps, Targets
  <2>3. QED
    BY <2>1, <2>2
<1>6. QED
  BY <1>3, <1>4, <1>5

LEMMA InitInv == Init => IInv
<1> SUFFICES ASSUME Init PROVE IInv
  OBVIOUS
<1>1. PICK p \in Inputs : \E m \in 1..Len(p.bbs) : Start(p, m)
  BY DEF Init
<1>2. PICK m \in 1..Len(p.bbs) : Start(p, m)
  BY <1>1
<1>3. /\ code = p.code /\ bbs = p.bbs /\ text = <<GlobalMain(m)>>
      /\ fun = Null /\ cur = Null /\ pos = 1
      /\ bbWorklist = <<>> /\ bbVisited = {}
      /\ funWorklist = <<m>> /\ funVisited = {m}
  BY <1>2 DEF Start
<1>4. IsProgram([code |-> code, bbs |-> bbs])
  <2> DEFINE q == [code |-> code, bbs |-> bbs]
  <2>1. IsProgram(p)
    BY InputsAssumption
  <2>2. q.code = p.code /\ q.bbs = p.bbs
    BY <1>3
  <2> HIDE DEF q
  <2>3. IsProgram(q)
    BY <2>1, <2>2 DEF IsProgram
  <2>4. QED
    BY <2>3 DEF q
<1>5. m \in Fun /\ Fun \subseteq Nat
  BY <1>3 DEF Fun
<1>6. GlobalMain(m) \in TextBlock
  <2>1. T86("CALL", 0, FunLabel(m)) \in T86Insn /\ T86("HALT", 0, NoLabel) \in T86Insn
    BY <1>5, LabelTypes DEF T86, T86Insn, Ops, Visible
  <2>2. QED
    BY <2>1, LabelTypes DEF GlobalMain, NewBlock, TextBlock, Null
<1>7. TypeOK
  BY <1>3, <1>4, <1>5, <1>6 DEF TypeOK
<1>8. Position
  BY <1>3 DEF Position
<1>9. Range(funWorklist) = {m} /\ IsInjective(funWorklist)
  BY <1>3 DEF Range, IsInjective
<1>10. Ownership
  BY <1>3, <1>9 DEF Ownership, Entered
<1>11. Len(text) = 1 /\ text[1] = GlobalMain(m)
  BY <1>3
<1>12. Compiled = {} /\ Waiting = {}
  BY <1>3, <1>11, LabelsDiffer DEF Compiled, Waiting, Range, GlobalMain, NewBlock
<1>13. EachBlockOnce
  BY <1>3, <1>11, <1>12 DEF EachBlockOnce, IsInjective
<1>14. LabelsOf(1) = {FunLabel(m), NoLabel}
  BY <1>11 DEF LabelsOf, GlobalMain, NewBlock, T86
<1>15. Labels
  BY <1>3, <1>9, <1>11, <1>14 DEF Labels, Accounted, Entered, GlobalMain, NewBlock
<1>16. QED
  BY <1>7, <1>8, <1>10, <1>13, <1>15 DEF IInv

-----------------------------------------------------------------------------
(* EnterFunction only queues the first block of a function of which nothing *)
(* was visited, since its blocks are its own.                              *)
LEMMA EnterFunctionInv == IInv /\ EnterFunction => IInv'
<1> SUFFICES ASSUME IInv, EnterFunction PROVE IInv'
  OBVIOUS
<1> USE DEF IInv
<1> DEFINE f == Head(funWorklist)
<1>1. /\ fun = Null /\ cur = Null /\ bbWorklist = <<>> /\ fun' = f /\ cur' = Null
      /\ funWorklist \in Seq(Fun) /\ funWorklist # <<>> /\ funWorklist' = Tail(funWorklist)
      /\ UNCHANGED <<code, bbs, text, pos, funVisited>>
  BY DEF EnterFunction, Position, TypeOK
<1>2. /\ f \in Fun /\ funWorklist' \in Seq(Fun)
      /\ Range(funWorklist) = {f} \cup Range(funWorklist')
      /\ f \notin Range(funWorklist') /\ IsInjective(funWorklist')
  BY <1>1, Unqueue DEF Ownership
<1>3. Fun' = Fun /\ Block' = Block
  BY <1>1 DEF Fun, Block
<1>4. start(f) \in Block /\ start(f) \in Range(bbs[f]) /\ start(f) \notin bbVisited
  <2>1. start(f) \in Range(bbs[f]) /\ Range(bbs[f]) \subseteq Block
    BY <1>2, FunFacts
  <2>2. ASSUME start(f) \in bbVisited PROVE FALSE
    <3>1. PICK g \in Entered : start(f) \in Range(bbs[g])
      BY <2>2 DEF Ownership
    <3>2. g # f /\ g \in Fun
      BY <1>2 DEF Entered, TypeOK
    <3>3. QED
      BY <1>2, <2>1, <3>1, <3>2, FunFacts
  <2>3. QED
    BY <2>1, <2>2
<1>5. bbWorklist' = <<start(f)>> /\ bbVisited' = bbVisited \cup {start(f)}
  <2>1. /\ bbWorklist' = addToWorklistBack(bbWorklist, bbVisited, start(f))
        /\ bbVisited' = bbVisited \cup {start(f)}
    BY DEF EnterFunction
  <2>2. QED
    BY <1>1, <1>4, <2>1 DEF addToWorklistBack
<1>6. bbWorklist' \in Seq(Block) /\ Range(bbWorklist') = {start(f)} /\ IsInjective(bbWorklist')
  BY <1>4, <1>5 DEF Range, IsInjective
<1>7. TypeOK'
  BY <1>1, <1>2, <1>3, <1>4, <1>5, <1>6 DEF TypeOK
<1>8. f # Null
  BY <1>2 DEF Fun, Null
<1>9. Position'
  BY <1>1, <1>8 DEF Position
<1>10. Entered' = Entered \cup {f}
  BY <1>1, <1>2 DEF Entered, Ownership
<1>11. Ownership'
  BY <1>1, <1>2, <1>3, <1>4, <1>5, <1>6, <1>10 DEF Ownership, Waiting
<1>12. Compiled' = Compiled /\ Waiting = {} /\ Waiting' = {start(f)}
  <2>1. Compiled' = Compiled
    BY <1>1, <1>3 DEF Compiled
  <2>2. Waiting = {}
    BY <1>1 DEF Waiting, Range
  <2>3. QED
    BY <1>6, <2>1, <2>2 DEF Waiting
<1>13. EachBlockOnce'
  BY <1>1, <1>4, <1>5, <1>6, <1>12 DEF EachBlockOnce
<1>14. \A k \in 1..Len(text) : LabelsOf(k)' = LabelsOf(k)
  BY <1>1 DEF LabelsOf
<1>15. \A l : Accounted(l) => Accounted(l)'
  BY <1>1, <1>5 DEF Accounted
<1>16. Labels'
  BY <1>1, <1>3, <1>5, <1>10, <1>14, <1>15 DEF Labels
<1>17. QED
  BY <1>7, <1>9, <1>11, <1>13, <1>16

(* A block leaves the worklist and is compiled. *)
LEMMA EnterBlockInv == IInv /\ EnterBlock => IInv'
<1> SUFFICES ASSUME IInv, EnterBlock PROVE IInv'
  OBVIOUS
<1> USE DEF IInv
<1> DEFINE b == Head(bbWorklist)
           new == NewBlock(fun, BlockLabel(b), <<>>)
<1>1. /\ fun # Null /\ fun \in Fun /\ cur' = b /\ pos' = 1
      /\ bbWorklist \in Seq(Block) /\ bbWorklist # <<>> /\ bbWorklist' = Tail(bbWorklist)
      /\ text' = Append(text, new)
      /\ UNCHANGED <<code, bbs, fun, bbVisited, funWorklist, funVisited>>
  BY DEF EnterBlock, TypeOK
<1>2. /\ b \in Block /\ bbWorklist' \in Seq(Block)
      /\ Waiting = {b} \cup Waiting' /\ b \notin Waiting' /\ IsInjective(bbWorklist')
  BY <1>1, Unqueue DEF EachBlockOnce, Waiting
<1>3. Fun' = Fun /\ Block' = Block
  BY <1>1 DEF Fun, Block
<1>4. Fun \subseteq Nat /\ Block \subseteq Nat
  BY DEF Fun, Block
<1>5. new \in TextBlock /\ new.label = BlockLabel(b) /\ new.fun = fun /\ new.insns = <<>>
  <2>1. b \in Nat /\ fun \in Nat
    BY <1>1, <1>2, <1>4
  <2>2. BlockLabel(b) \in Label
    BY <2>1, LabelTypes
  <2>3. <<>> \in Seq(T86Insn)
    OBVIOUS
  <2> DEFINE none == <<>>
  <2> HIDE DEF none
  <2>4. none \in Seq(T86Insn) /\ new = NewBlock(fun, BlockLabel(b), none)
    BY <2>3 DEF none
  <2> HIDE DEF new
  <2>5. new \in TextBlock /\ new.label = BlockLabel(b) /\ new.fun = fun /\ new.insns = none
    BY <2>1, <2>2, <2>4, NewBlockFacts
  <2>6. QED
    BY <2>5 DEF none
<1>6. /\ text \in Seq(TextBlock) /\ text' \in Seq(TextBlock)
      /\ Len(text) \in Nat /\ Len(text') = Len(text) + 1
      /\ \A k \in 1..Len(text) : text'[k] = text[k]
      /\ text'[Len(text) + 1] = new
  <2> HIDE DEF new
  <2>1. QED
    BY <1>1, <1>5 DEF TypeOK
<1> HIDE DEF new
<1>7. TypeOK'
  BY <1>1, <1>2, <1>3, <1>6 DEF TypeOK
<1>8. b \in Range(bbs[fun])
  BY <1>1, <1>2 DEF Ownership
<1>9. Len(code[b]) \in Nat \ {0}
  BY <1>1, <1>8, FunFacts
<1>10. Position'
  <2>1. b \in bbVisited
    BY <1>2 DEF EachBlockOnce
  <2>2. fun \in Fun /\ fun # Null /\ cur' = b /\ pos' = 1 /\ fun' = fun
        /\ bbs' = bbs /\ code' = code /\ bbVisited' = bbVisited
    BY <1>1
  <2>3. text' # <<>>
    BY <1>6
  <2>4. pos' \in 1..Len(code[b])
    BY <1>9, <2>2
  <2>5. QED
    BY <1>8, <2>1, <2>2, <2>3, <2>4 DEF Position
<1>11. Entered' = Entered
  BY <1>1 DEF Entered
<1>12. Ownership'
  BY <1>1, <1>2, <1>11 DEF Ownership
<1>13. b \in bbVisited /\ b \notin Compiled
  BY <1>2 DEF EachBlockOnce
<1>14. Compiled' = Compiled \cup {b}
  <2>1. Compiled \cup {b} \subseteq Compiled'
    BY <1>2, <1>3, <1>5, <1>6 DEF Compiled
  <2>2. Compiled' \subseteq Compiled \cup {b}
    <3> SUFFICES ASSUME NEW c \in Block, NEW k \in 1..(Len(text) + 1), text'[k].label = BlockLabel(c)
                 PROVE  c \in Compiled \cup {b}
      BY <1>3, <1>6 DEF Compiled
    <3>1. CASE k \in 1..Len(text)
      BY <1>6, <3>1 DEF Compiled
    <3>2. CASE k = Len(text) + 1
      BY <1>5, <1>6, <3>2, LabelsDiffer
    <3>3. QED
      BY <1>6, <3>1, <3>2
  <2>3. QED
    BY <2>1, <2>2
<1>15. \A k \in 1..Len(text) : text[k].label # BlockLabel(b)
  BY <1>2, <1>13 DEF Compiled
<1>16. EachBlockOnce'
  <2>1. \A j, k \in 1..Len(text') : text'[j].label = text'[k].label => j = k
    BY <1>5, <1>6, <1>15 DEF EachBlockOnce
  <2>2. QED
    BY <1>1, <1>2, <1>13, <1>14, <2>1 DEF EachBlockOnce
<1>17. /\ \A k \in 1..Len(text) : LabelsOf(k)' = LabelsOf(k)
       /\ \A k \in 1..Len(text') : k \notin 1..Len(text) => LabelsOf(k)' = {}
  BY <1>5, <1>6 DEF LabelsOf
<1>18. \A l : Accounted(l) => Accounted(l)'
  BY <1>1, <1>6 DEF Accounted
<1>19. Labels'
  <2>1. \A k \in 1..Len(text') :
          text'[k].label = FreshLabel(k) \/ \E c \in Block : text'[k].label = BlockLabel(c)
    BY <1>2, <1>5, <1>6 DEF Labels
  <2>2. \A k \in 1..Len(text') : \A l \in LabelsOf(k)' : Accounted(l)'
    BY <1>6, <1>17, <1>18 DEF Labels
  <2>3. \A f \in Entered : \E k \in 1..Len(text') : text'[k].fun = f
    BY <1>5, <1>6 DEF Labels
  <2>4. QED
    BY <1>3, <1>11, <2>1, <2>2, <2>3 DEF Labels
<1>20. QED
  BY <1>7, <1>10, <1>12, <1>16, <1>19

LEMMA LeaveFunctionInv == IInv /\ LeaveFunction => IInv'
<1> SUFFICES ASSUME IInv, LeaveFunction PROVE IInv'
  OBVIOUS
<1> USE DEF IInv
<1>1. /\ fun # Null /\ cur = Null /\ bbWorklist = <<>> /\ fun' = Null
      /\ UNCHANGED <<code, bbs, text, cur, pos, bbWorklist, bbVisited, funWorklist, funVisited>>
  BY DEF LeaveFunction
<1>2. Fun' = Fun /\ Block' = Block /\ Entered' = Entered /\ Waiting' = Waiting /\ Compiled' = Compiled
  BY <1>1 DEF Fun, Block, Entered, Waiting, Compiled
<1>3. TypeOK'
  BY <1>1, <1>2 DEF TypeOK
<1>4. Position' /\ Ownership'
  BY <1>1, <1>2 DEF Position, Ownership
<1>5. EachBlockOnce'
  BY <1>1, <1>2 DEF EachBlockOnce
<1>6. Labels'
  BY <1>1, <1>2 DEF Labels, LabelsOf, Accounted
<1>7. QED
  BY <1>3, <1>4, <1>5, <1>6

-----------------------------------------------------------------------------
(* An instruction that only adds to the last block of the text: labels of    *)
(* `new` at most.                                                          *)
SameText(new) ==
  /\ text' \in Seq(TextBlock)
  /\ Len(text') = Len(text)
  /\ \A k \in 1..Len(text) : /\ text'[k].fun = text[k].fun
                            /\ text'[k].label = text[k].label
                            /\ LabelsOf(k)' \subseteq LabelsOf(k) \cup new

LEMMA EmittedText ==
  ASSUME IInv, NEW e \in Seq(T86Insn), text' = Emit(text, e),
         NEW new, \A i \in 1..Len(e) : e[i].label \in new
  PROVE  SameText(new)
<1>1. text \in Seq(TextBlock) /\ text # <<>>
  BY DEF IInv, TypeOK, Position
<1>2. /\ text' \in Seq(TextBlock)
      /\ Len(text') = Len(text)
      /\ \A k \in 1..Len(text) :
           /\ text'[k].fun = text[k].fun
           /\ text'[k].label = text[k].label
           /\ text'[k].insns = IF k = Len(text) THEN text[k].insns \o e ELSE text[k].insns
  BY <1>1, Emitted
<1>3. ASSUME NEW k \in 1..Len(text) PROVE text[k].insns \in Seq(T86Insn)
  <2>1. text[k] \in TextBlock
    BY <1>1
  <2>2. QED
    BY <2>1 DEF TextBlock
<1>4. ASSUME NEW k \in 1..Len(text), NEW l \in LabelsOf(k)'
      PROVE  l \in LabelsOf(k) \cup new
  <2>1. CASE k = Len(text)
    <3>1. PICK i \in 1..Len(text[k].insns \o e) : l = (text[k].insns \o e)[i].label
      <4>1. text'[k].insns = text[k].insns \o e
        BY <1>2, <2>1
      <4>2. QED
        BY <4>1 DEF LabelsOf
    <3>2. CASE i \in 1..Len(text[k].insns)
      BY <1>3, <3>1, <3>2 DEF LabelsOf
    <3>3. CASE i \notin 1..Len(text[k].insns)
      <4>1. i - Len(text[k].insns) \in 1..Len(e) /\ (text[k].insns \o e)[i] = e[i - Len(text[k].insns)]
        BY <1>3, <3>3
      <4>2. QED
        BY <3>1, <4>1
    <3>4. QED
      BY <3>2, <3>3
  <2>2. CASE k # Len(text)
    BY <1>2, <2>2 DEF LabelsOf
  <2>3. QED
    BY <2>1, <2>2
<1>5. QED
  BY <1>2, <1>4 DEF SameText

(* After an instruction its block goes on, or is complete. *)
LEMMA AdvanceFacts ==
  ASSUME IInv, cur # Null, Advance
  PROVE  /\ UNCHANGED <<code, bbs, fun>>
         /\ fun \in Fun /\ fun # Null
         /\ cur' \in Block \cup {Null} /\ pos' \in Nat \ {0}
         /\ cur' # Null => cur' = cur /\ pos' \in 1..Len(code[cur])
<1>1. /\ fun # Null /\ fun \in Fun /\ cur \in Block /\ cur \in Range(bbs[fun])
      /\ pos \in 1..Len(code[cur])
  BY DEF IInv, Position, TypeOK
<1>2. Len(code[cur]) \in Nat
  BY <1>1, FunFacts DEF IInv
<1>3. QED
  BY <1>1, <1>2 DEF Advance

(* Every visit() that adds no block to the text: the blocks and functions it *)
(* names are visited now, and their labels may be in the text.             *)
LEMMA VisitInv ==
  ASSUME IInv, cur # Null, Advance,
         NEW newBBs \in SUBSET Range(bbs[fun]), NEW newFuns \in SUBSET Fun,
         SameText({NoLabel} \cup {BlockLabel(b) : b \in newBBs} \cup {FunLabel(f) : f \in newFuns}),
         bbWorklist' \in Seq(Block), funWorklist' \in Seq(Fun),
         Grown(bbWorklist, bbVisited, bbWorklist', bbVisited', newBBs),
         Grown(funWorklist, funVisited, funWorklist', funVisited', newFuns)
  PROVE  IInv'
<1> USE DEF IInv
<1>1. /\ UNCHANGED <<code, bbs, fun>> /\ fun \in Fun /\ fun # Null
      /\ cur' \in Block \cup {Null} /\ pos' \in Nat \ {0}
      /\ cur' # Null => cur' = cur /\ pos' \in 1..Len(code[cur])
  BY AdvanceFacts
<1>2. Fun' = Fun /\ Block' = Block
  BY <1>1 DEF Fun, Block
<1>3. newBBs \subseteq Block
  BY <1>1, FunFacts
<1>4. /\ Waiting' = Waiting \cup (newBBs \ bbVisited) /\ bbVisited' = bbVisited \cup newBBs
      /\ Range(funWorklist') = Range(funWorklist) \cup (newFuns \ funVisited)
      /\ funVisited' = funVisited \cup newFuns
  BY DEF Grown, Waiting
<1>5. IsInjective(bbWorklist') /\ IsInjective(funWorklist')
  BY DEF Grown, Ownership, EachBlockOnce, Waiting
<1>6. TypeOK'
  BY <1>1, <1>2, <1>3, <1>4 DEF TypeOK, SameText
<1>7. text \in Seq(TextBlock) /\ text' # <<>>
  BY DEF SameText, Position, TypeOK
<1>8. Position'
  BY <1>1, <1>4, <1>7 DEF Position
<1>9. Entered' = Entered
  BY <1>4 DEF Entered, Ownership
<1>10. Ownership'
  BY <1>1, <1>4, <1>5, <1>9 DEF Ownership
<1>11. Compiled' = Compiled
  BY <1>2 DEF Compiled, SameText
<1>12. EachBlockOnce'
  BY <1>4, <1>5, <1>11 DEF EachBlockOnce, SameText
<1>13. \A l : Accounted(l) => Accounted(l)'
  BY <1>4 DEF Accounted, SameText
<1>14. ASSUME NEW k \in 1..Len(text), NEW l \in LabelsOf(k)'
       PROVE  Accounted(l)'
  <2>1. CASE l \in LabelsOf(k)
    BY <1>13, <2>1 DEF Labels
  <2>2. CASE l = NoLabel
    BY <2>2 DEF Accounted
  <2>3. CASE \E b \in newBBs : l = BlockLabel(b)
    BY <1>4, <2>3 DEF Accounted
  <2>4. CASE \E f \in newFuns : l = FunLabel(f)
    BY <1>4, <2>4 DEF Accounted
  <2>5. QED
    BY <2>1, <2>2, <2>3, <2>4 DEF SameText
<1>15. bbWorklist # <<>> => bbWorklist' # <<>>
  <2> SUFFICES ASSUME bbWorklist # <<>>, bbWorklist' = <<>> PROVE FALSE
    OBVIOUS
  <2>1. bbWorklist[1] \in Waiting
    BY DEF Waiting, Range, TypeOK
  <2>2. Waiting' = {}
    BY DEF Waiting, Range
  <2>3. QED
    BY <1>4, <2>1, <2>2
<1>16. Labels'
  <2>1. \A k \in 1..Len(text') :
          text'[k].label = FreshLabel(k) \/ \E b \in Block : text'[k].label = BlockLabel(b)
    BY DEF SameText, Labels
  <2>2. \A k \in 1..Len(text') : \A l \in LabelsOf(k)' : Accounted(l)'
    BY <1>14 DEF SameText
  <2>3. \A f \in Entered : (f = fun /\ bbWorklist' # <<>>) \/ \E k \in 1..Len(text') : text'[k].fun = f
    BY <1>15 DEF SameText, Labels
  <2>4. QED
    BY <1>1, <1>2, <1>9, <2>1, <2>2, <2>3 DEF Labels
<1>17. QED
  BY <1>6, <1>8, <1>10, <1>12, <1>16

(* What the cases below emit is an instruction. *)
LEMMA T86Facts ==
  ASSUME NEW op \in Ops \cup {"JCC", "HALT"}, NEW n \in Nat, NEW l \in Label
  PROVE  /\ <<T86(op, n, l)>> \in Seq(T86Insn)
         /\ \A i \in 1..Len(<<T86(op, n, l)>>) : <<T86(op, n, l)>>[i].label = l
<1>1. T86(op, n, l) \in T86Insn /\ T86(op, n, l).label = l
  BY DEF T86, T86Insn
<1> DEFINE t == T86(op, n, l)
<1> HIDE DEF t
<1>2. t \in T86Insn /\ t.label = l => <<t>> \in Seq(T86Insn) /\ \A i \in 1..Len(<<t>>) : <<t>>[i].label = l
  OBVIOUS
<1>3. QED
  BY <1>1, <1>2 DEF t

LEMMA InsnFacts ==
  ASSUME IInv, cur # Null
  PROVE  insn.op \in Ops /\ insn.at \in Nat /\ Fun \subseteq Nat /\ Range(bbs[fun]) \subseteq Nat
<1>1. insn \in Insn /\ fun \in Fun
  BY TargetFacts DEF IInv, Position, TypeOK
<1>2. Range(bbs[fun]) \subseteq Block
  BY <1>1, FunFacts DEF IInv
<1>3. QED
  BY <1>1, <1>2 DEF Insn, Fun, Block

(* A worklist nothing is added to. *)
LEMMA NotGrown == \A list, visited : Grown(list, visited, list, visited, {})
  BY DEF Grown

LEMMA VisitOrdinaryInv == IInv /\ VisitOrdinary => IInv'
<1> SUFFICES ASSUME IInv, VisitOrdinary PROVE IInv'
  OBVIOUS
<1>1. cur # Null /\ Advance /\ UNCHANGED <<bbWorklist, bbVisited, funWorklist, funVisited>>
  BY DEF VisitOrdinary, Visit
<1>2. SameText({NoLabel})
  <2>1. CASE text' = text
    BY <2>1 DEF SameText, LabelsOf, IInv, TypeOK
  <2>2. CASE text' = Emit(text, <<T86(insn.op, insn.at, NoLabel)>>)
    <3>1. insn.op \in Ops /\ insn.at \in Nat /\ NoLabel \in Label
      BY <1>1, InsnFacts, LabelTypes
    <3>2. /\ <<T86(insn.op, insn.at, NoLabel)>> \in Seq(T86Insn)
          /\ \A i \in 1..Len(<<T86(insn.op, insn.at, NoLabel)>>) :
               <<T86(insn.op, insn.at, NoLabel)>>[i].label = NoLabel
      BY <3>1, T86Facts
    <3>3. QED
      BY <2>2, <3>2, EmittedText
  <2>3. QED
    BY <2>1, <2>2 DEF VisitOrdinary
<1>3. SameText({NoLabel} \cup {BlockLabel(b) : b \in {}} \cup {FunLabel(f) : f \in {}})
  BY <1>2 DEF SameText
<1>4. bbWorklist' \in Seq(Block) /\ funWorklist' \in Seq(Fun)
  BY <1>1 DEF IInv, TypeOK
<1>5. /\ Grown(bbWorklist, bbVisited, bbWorklist', bbVisited', {})
      /\ Grown(funWorklist, funVisited, funWorklist', funVisited', {})
  BY <1>1, NotGrown
<1>6. QED
  BY <1>1, <1>3, <1>4, <1>5, VisitInv

LEMMA VisitCALLInv == IInv /\ VisitCALL => IInv'
<1> SUFFICES ASSUME IInv, VisitCALL PROVE IInv'
  OBVIOUS
<1> DEFINE g == insn.target1
           e == <<T86("CALL", insn.at, FunLabel(g))>>
<1>1. /\ cur # Null /\ Advance /\ insn.op = "CALL" /\ UNCHANGED <<bbWorklist, bbVisited>>
      /\ text' = Emit(text, e)
      /\ funWorklist' = addToWorklistBack(funWorklist, funVisited, g)
      /\ funVisited' = funVisited \cup {g}
  BY DEF VisitCALL, Visit
<1>2. g \in Fun /\ g \in Nat /\ insn.at \in Nat
  BY <1>1, TargetFacts, InsnFacts
<1>3. e \in Seq(T86Insn) /\ \A i \in 1..Len(e) : e[i].label = FunLabel(g)
  BY <1>2, LabelTypes, T86Facts DEF Ops, Visible
<1> HIDE DEF e
<1>4. SameText({FunLabel(g)})
  BY <1>1, <1>3, EmittedText
<1>5. SameText({NoLabel} \cup {BlockLabel(b) : b \in {}} \cup {FunLabel(f) : f \in {g}})
  BY <1>4 DEF SameText
<1>6. funWorklist \in Seq(Fun) /\ bbWorklist' \in Seq(Block)
  BY <1>1 DEF IInv, TypeOK
<1>7. funWorklist' \in Seq(Fun) /\ Grown(funWorklist, funVisited, funWorklist', funVisited', {g})
  BY <1>1, <1>2, <1>6, Back
<1>8. Grown(bbWorklist, bbVisited, bbWorklist', bbVisited', {})
  BY <1>1, NotGrown
<1>9. QED
  BY <1>1, <1>2, <1>5, <1>6, <1>7, <1>8, VisitInv

LEMMA VisitJMPInv == IInv /\ VisitJMP => IInv'
<1> SUFFICES ASSUME IInv, VisitJMP PROVE IInv'
  OBVIOUS
<1> DEFINE t == insn.target1
           e == <<T86("JMP", 0, BlockLabel(t))>>
<1>1. /\ cur # Null /\ Advance /\ insn.op = "JMP" /\ UNCHANGED <<funWorklist, funVisited>>
      /\ text' = Emit(text, e)
      /\ bbWorklist' = addToWorklistBack(bbWorklist, bbVisited, t)
      /\ bbVisited' = bbVisited \cup {t}
  BY DEF VisitJMP, Visit
<1>2. t \in Range(bbs[fun]) /\ t \in Nat /\ t \in Block
  <2>1. t \in Range(bbs[fun]) /\ fun \in Fun
    BY <1>1, TargetFacts DEF Targets, IInv, Position, TypeOK
  <2>2. QED
    BY <2>1, FunFacts DEF IInv, Block
<1>3. e \in Seq(T86Insn) /\ \A i \in 1..Len(e) : e[i].label = BlockLabel(t)
  BY <1>2, LabelTypes, T86Facts DEF Ops, TerminatorOps
<1> HIDE DEF e
<1>4. SameText({BlockLabel(t)})
  BY <1>1, <1>3, EmittedText
<1>5. SameText({NoLabel} \cup {BlockLabel(b) : b \in {t}} \cup {FunLabel(f) : f \in {}})
  BY <1>4 DEF SameText
<1>6. bbWorklist \in Seq(Block) /\ funWorklist' \in Seq(Fun)
  BY <1>1 DEF IInv, TypeOK
<1>7. bbWorklist' \in Seq(Block) /\ Grown(bbWorklist, bbVisited, bbWorklist', bbVisited', {t})
  BY <1>1, <1>2, <1>6, Back
<1>8. Grown(funWorklist, funVisited, funWorklist', funVisited', {})
  BY <1>1, NotGrown
<1>9. {t} \in SUBSET Range(bbs[fun]) /\ {} \in SUBSET Fun
  BY <1>2
<1>10. QED
  BY <1>1, <1>5, <1>6, <1>7, <1>8, <1>9, VisitInv

LEMMA VisitBRInv == IInv /\ VisitBR => IInv'
<1> SUFFICES ASSUME IInv, VisitBR PROVE IInv'
  OBVIOUS
<1> DEFINE t1 == insn.target1
           t2 == insn.target2
           front == addToWorklistFront(bbWorklist, bbVisited, t1)
           e == <<T86("JCC", insn.at, BlockLabel(t2))>>
<1>1. /\ cur # Null /\ Advance /\ insn.op = "BR" /\ UNCHANGED <<funWorklist, funVisited>>
      /\ text' = Emit(text, e)
      /\ bbWorklist' = addToWorklistBack(front, bbVisited \cup {t1}, t2)
      /\ bbVisited' = (bbVisited \cup {t1}) \cup {t2}
  BY DEF VisitBR, Visit
<1>2. {t1, t2} \subseteq Range(bbs[fun]) /\ t2 \in Nat /\ t1 \in Block /\ t2 \in Block /\ insn.at \in Nat
  <2>1. {t1, t2} \subseteq Range(bbs[fun])
    BY <1>1, TargetFacts DEF Targets
  <2>2. fun \in Fun /\ insn.at \in Nat
    BY <1>1, InsnFacts DEF IInv, Position, TypeOK
  <2>3. Range(bbs[fun]) \subseteq Block /\ Block \subseteq Nat
    BY <2>2, FunFacts DEF IInv, Block
  <2>4. QED
    BY <2>1, <2>2, <2>3
<1>3. e \in Seq(T86Insn) /\ \A i \in 1..Len(e) : e[i].label = BlockLabel(t2)
  BY <1>2, LabelTypes, T86Facts
<1> HIDE DEF e
<1>4. SameText({BlockLabel(t2)})
  BY <1>1, <1>3, EmittedText
<1>5. SameText({NoLabel} \cup {BlockLabel(b) : b \in {t1, t2}} \cup {FunLabel(f) : f \in {}})
  BY <1>4 DEF SameText
<1>6. bbWorklist \in Seq(Block) /\ funWorklist' \in Seq(Fun)
  BY <1>1 DEF IInv, TypeOK
<1>7. front \in Seq(Block) /\ Grown(bbWorklist, bbVisited, front, bbVisited \cup {t1}, {t1})
  BY <1>2, <1>6, Front
<1> HIDE DEF front
<1>8. bbWorklist' \in Seq(Block) /\ Grown(front, bbVisited \cup {t1}, bbWorklist', bbVisited', {t2})
  BY <1>1, <1>2, <1>7, Back
<1>9. Grown(bbWorklist, bbVisited, bbWorklist', bbVisited', {t1, t2})
  <2>1. {t1} \cup {t2} = {t1, t2}
    OBVIOUS
  <2>2. QED
    BY <1>7, <1>8, <2>1, GrownTwice
<1>10. Grown(funWorklist, funVisited, funWorklist', funVisited', {})
  BY <1>1, NotGrown
<1>11. {t1, t2} \in SUBSET Range(bbs[fun]) /\ {} \in SUBSET Fun
  BY <1>2
<1>12. QED
  BY <1>1, <1>5, <1>6, <1>8, <1>9, <1>10, <1>11, VisitInv

(* A return adds the epilogue, under a label nothing else has. *)
LEMMA VisitReturnInv == IInv /\ VisitReturn => IInv'
<1> SUFFICES ASSUME IInv, VisitReturn PROVE IInv'
  OBVIOUS
<1> USE DEF IInv
<1> DEFINE label == FreshLabel(Len(text) + 1)
           ret == <<T86("RET", 0, NoLabel)>>
           new == NewBlock(fun, label, ret)
<1>1. /\ cur # Null /\ Advance /\ insn.op \in {"RET", "RETR"}
      /\ UNCHANGED <<bbWorklist, bbVisited, funWorklist, funVisited>>
  BY DEF VisitReturn, Visit
<1>2. /\ UNCHANGED <<code, bbs, fun>> /\ fun \in Fun /\ fun # Null
      /\ cur' \in Block \cup {Null} /\ pos' \in Nat \ {0}
      /\ cur' # Null => cur' = cur /\ pos' \in 1..Len(code[cur])
  BY <1>1, AdvanceFacts
<1>3. Fun' = Fun /\ Block' = Block /\ Fun \subseteq Nat /\ Block \subseteq Nat
  BY <1>2 DEF Fun, Block
<1>4. text \in Seq(TextBlock) /\ text # <<>> /\ Len(text) \in Nat
  BY DEF TypeOK, Position
<1>5. label \in Label /\ NoLabel \in Label /\ "RET" \in Ops /\ "RETR" \in Ops /\ "JMP" \in Ops
  BY <1>4, LabelTypes DEF Ops, TerminatorOps
<1>6. ret \in Seq(T86Insn) /\ \A i \in 1..Len(ret) : ret[i].label = NoLabel
  BY <1>5, T86Facts
<1> HIDE DEF ret
<1>7. new \in TextBlock /\ new.fun = fun /\ new.label = label /\ new.insns = ret
  BY <1>2, <1>3, <1>5, <1>6, NewBlockFacts
<1>8. PICK e \in Seq(T86Insn) : /\ \A i \in 1..Len(e) : e[i].label \in {NoLabel, label}
                              /\ text' = Append(Emit(text, e), new)
  <2> DEFINE leave == T86("JMP", 0, label)
             value == T86("RETR", insn.at, NoLabel)
  <2>1. leave \in T86Insn /\ leave.label = label /\ value \in T86Insn /\ value.label = NoLabel
    BY <1>1, <1>5, InsnFacts DEF T86, T86Insn
  <2>2. text' = Append(Emit(text, IF insn.op = "RETR" THEN <<value>> \o <<leave>> ELSE <<leave>>), new)
    BY DEF VisitReturn, ret
  <2> HIDE DEF leave, value, label, new
  <2>3. /\ <<value>> \o <<leave>> \in Seq(T86Insn) /\ <<leave>> \in Seq(T86Insn)
        /\ \A i \in 1..Len(<<value>> \o <<leave>>) : (<<value>> \o <<leave>>)[i].label \in {NoLabel, label}
        /\ \A i \in 1..Len(<<leave>>) : <<leave>>[i].label \in {NoLabel, label}
    BY <2>1
  <2>4. QED
    BY <2>2, <2>3
<1> HIDE DEF new, label
<1> DEFINE t == Emit(text, e)
<1>9. /\ t \in Seq(TextBlock) /\ Len(t) = Len(text)
      /\ \A k \in 1..Len(text) :
           /\ t[k].fun = text[k].fun
           /\ t[k].label = text[k].label
           /\ t[k].insns = IF k = Len(text) THEN text[k].insns \o e ELSE text[k].insns
  BY <1>4, Emitted
<1> HIDE DEF t
<1>10. /\ text' \in Seq(TextBlock) /\ Len(text') = Len(text) + 1
      /\ \A k \in 1..Len(text) : text'[k] = t[k]
      /\ text'[Len(text) + 1] = new
  BY <1>4, <1>8, <1>9, <1>7 DEF t
<1>11. /\ \A k \in 1..Len(text) : /\ k \in 1..Len(text')
                                 /\ text'[k].label = text[k].label
                                 /\ text'[k].fun = text[k].fun
       /\ \A k \in 1..Len(text') : k \in 1..Len(text) \/ (k = Len(text) + 1 /\ text'[k].label = label)
  <2>1. ASSUME NEW k \in 1..Len(text)
        PROVE  /\ k \in 1..Len(text')
               /\ text'[k].label = text[k].label
               /\ text'[k].fun = text[k].fun
    BY <1>4, <1>9, <1>10
  <2>2. ASSUME NEW k \in 1..Len(text'), k \notin 1..Len(text)
        PROVE  k = Len(text) + 1 /\ text'[k].label = label
    BY <1>4, <1>7, <1>10, <2>2
  <2>3. QED
    BY <2>1, <2>2
<1>12. TypeOK'
  BY <1>1, <1>2, <1>3, <1>10 DEF TypeOK
<1>13. Position'
  BY <1>1, <1>2, <1>10 DEF Position
<1>14. Entered' = Entered /\ Waiting' = Waiting
  BY <1>1 DEF Entered, Waiting
<1>15. Ownership'
  BY <1>1, <1>2, <1>14 DEF Ownership
<1>16. /\ \A b : label # BlockLabel(b)
       /\ \A k \in 1..Len(text) : text[k].label # label
  <2>1. \A b : label # BlockLabel(b)
    BY LabelsDiffer DEF label
  <2>2. \A k \in 1..Len(text) : FreshLabel(k) # label
    BY <1>4, LabelsDiffer DEF label
  <2>3. QED
    BY <2>1, <2>2 DEF Labels
<1>17. Compiled' = Compiled
  <2>1. ASSUME NEW b \in Block
        PROVE  (\E k \in 1..Len(text') : text'[k].label = BlockLabel(b))
                 <=> \E k \in 1..Len(text) : text[k].label = BlockLabel(b)
    <3>1. label # BlockLabel(b)
      BY <1>16
    <3>2. QED
      BY <1>11, <3>1
  <2>2. QED
    BY <1>3, <2>1 DEF Compiled
<1>18. EachBlockOnce'
  <2>1. \A j, k \in 1..Len(text') : text'[j].label = text'[k].label => j = k
    BY <1>16, <1>11 DEF EachBlockOnce
  <2>2. QED
    BY <1>1, <1>14, <1>17, <2>1 DEF EachBlockOnce
<1>19. \A l : Accounted(l) => Accounted(l)'
  BY <1>1, <1>4, <1>9, <1>10 DEF Accounted
<1>20. ASSUME NEW l \in {NoLabel, label} PROVE Accounted(l)'
  <2>1. Len(text) + 1 \in 1..Len(text') /\ text'[Len(text) + 1].label = label
    BY <1>4, <1>10, <1>7
  <2>2. QED
    BY <2>1 DEF Accounted
<1>21. ASSUME NEW k \in 1..Len(text'), NEW l \in LabelsOf(k)' PROVE Accounted(l)'
  <2>1. CASE k \in 1..Len(text)
    <3>1. PICK i \in 1..Len(t[k].insns) : l = t[k].insns[i].label
      BY <1>10, <2>1 DEF LabelsOf
    <3>2. text[k].insns \in Seq(T86Insn) /\ t[k].insns \in Seq(T86Insn) /\ i \in 1..Len(t[k].insns)
      <4>1. text[k] \in TextBlock /\ t[k] \in TextBlock
        BY <1>4, <1>9, <2>1
      <4>2. QED
        BY <3>1, <4>1 DEF TextBlock
    <3>3. CASE i \in 1..Len(text[k].insns) /\ t[k].insns[i] = text[k].insns[i]
      BY <1>19, <2>1, <3>1, <3>3 DEF LabelsOf, Labels
    <3>4. CASE k = Len(text) /\ i \notin 1..Len(text[k].insns)
      <4>1. text[k].insns \in Seq(T86Insn)
        <5>1. text[k] \in TextBlock
          BY <1>4, <2>1
        <5>2. QED
          BY <5>1 DEF TextBlock
      <4>2. t[k].insns = text[k].insns \o e
        BY <1>9, <2>1, <3>4
      <4>3. /\ i - Len(text[k].insns) \in 1..Len(e)
            /\ t[k].insns[i] = e[i - Len(text[k].insns)]
        BY <3>4, <4>1, <4>2
      <4>4. QED
        BY <1>8, <1>20, <3>1, <4>3
    <3>5. CASE k = Len(text) /\ i \in 1..Len(text[k].insns)
      <4>1. t[k].insns = text[k].insns \o e
        BY <1>9, <2>1, <3>5
      <4>2. QED
        BY <3>3, <3>2, <3>5, <4>1
    <3>6. CASE k # Len(text)
      BY <1>9, <2>1, <3>3, <3>2, <3>6
    <3>7. QED
      BY <3>4, <3>5, <3>6
  <2>2. CASE k = Len(text) + 1
    <3>1. PICK i \in 1..Len(ret) : l = ret[i].label
      <4>1. text'[k].insns = ret
        BY <1>4, <1>7, <1>10, <2>2
      <4>2. QED
        BY <4>1 DEF LabelsOf
    <3>2. QED
      BY <1>6, <1>20, <3>1
  <2>3. QED
    BY <1>4, <1>10, <2>1, <2>2
<1>22. Labels'
  <2>1. \A k \in 1..Len(text') :
          text'[k].label = FreshLabel(k) \/ \E b \in Block : text'[k].label = BlockLabel(b)
    BY <1>11 DEF Labels, label
  <2>2. \A f \in Entered : (f = fun /\ bbWorklist # <<>>) \/ \E k \in 1..Len(text') : text'[k].fun = f
    BY <1>11 DEF Labels
  <2>3. QED
    BY <1>1, <1>2, <1>3, <1>14, <1>21, <2>1, <2>2 DEF Labels
<1>23. QED
  BY <1>12, <1>13, <1>15, <1>18, <1>22

LEMMA StutterInv == IInv /\ UNCHANGED vars => IInv'
<1> SUFFICES ASSUME IInv, UNCHANGED vars PROVE IInv'
  OBVIOUS
<1> USE DEF IInv
<1>1. UNCHANGED <<code, bbs, text, fun, cur, pos, bbWorklist, bbVisited, funWorklist, funVisited>>
  BY DEF vars
<1>2. Fun' = Fun /\ Block' = Block /\ Entered' = Entered /\ Waiting' = Waiting /\ Compiled' = Compiled
  BY <1>1 DEF Fun, Block, Entered, Waiting, Compiled
<1>3. TypeOK' /\ Position' /\ Ownership'
  BY <1>1, <1>2 DEF TypeOK, Position, Ownership
<1>4. EachBlockOnce'
  BY <1>1, <1>2 DEF EachBlockOnce
<1>5. Labels'
  <2>1. \A l : Accounted(l) = Accounted(l)'
    BY <1>1 DEF Accounted
  <2>2. \A k : LabelsOf(k) = LabelsOf(k)'
    BY <1>1 DEF LabelsOf
  <2>3. QED
    BY <1>1, <1>2, <2>1, <2>2 DEF Labels
<1>6. QED
  BY <1>3, <1>4, <1>5

LEMMA NextInv == IInv /\ [Next]_vars => IInv'
  BY EnterFunctionInv, EnterBlockInv, LeaveFunctionInv, VisitOrdinaryInv, VisitCALLInv,
     VisitJMPInv, VisitBRInv, VisitReturnInv, StutterInv
  DEF Next, Step, Stopped

LEMMA Invariance == Spec => []IInv
<1>1. QED
  BY InitInv, NextInv, PTL DEF Spec
-----------------------------------------------------------------------------
(* The worklists and the text always have their types: every block and      *)
(* function in them is one of the program that was handed to generate().    *)
THEOREM TypeCorrect == Spec => []TypeOK
<1>1. IInv => TypeOK
  BY DEF IInv
<1>2. QED
  BY <1>1, Invariance, PTL

(* addBBToWorklist lets no block be compiled twice and loses none: what was  *)
(* visited is compiled or waits.                                           *)
THEOREM BlocksOnce == Spec => []EachBlockOnce
<1>1. IInv => EachBlockOnce
  BY DEF IInv
<1>2. QED
  BY <1>1, Invariance, PTL

LEMMA EachLabelDefined == IInv => LabelsAreDefined
<1> SUFFICES ASSUME IInv, Done, NEW k \in 1..Len(text), NEW i \in 1..Len(text[k].insns),
                    text[k].insns[i].label # NoLabel
             PROVE  Defined(text[k].insns[i].label)
  BY DEF LabelsAreDefined
<1> DEFINE l == text[k].insns[i].label
<1> USE DEF IInv
<1>1. Waiting = {} /\ Range(funWorklist) = {} /\ fun = Null
  <2>1. fun = Null /\ bbWorklist = <<>> /\ funWorklist = <<>>
    BY DEF Done, Position
  <2>2. \A s : s = <<>> => Range(s) = {}
    BY DEF Range
  <2>3. QED
    BY <2>1, <2>2 DEF Waiting
<1>2. Compiled = bbVisited /\ Entered = funVisited
  BY <1>1 DEF EachBlockOnce, Entered
<1>3. Accounted(l)
  BY DEF Labels, LabelsOf
<1>4. CASE \E b \in bbVisited : l = BlockLabel(b)
  <2>1. PICK b \in bbVisited : l = BlockLabel(b)
    BY <1>4
  <2>2. PICK j \in 1..Len(text) : text[j].label = l
    BY <1>2, <2>1 DEF Compiled
  <2>3. l[1] # "function"
    BY <2>1 DEF BlockLabel
  <2>4. QED
    BY <2>2, <2>3 DEF Defined
<1>5. CASE \E f \in funVisited : l = FunLabel(f)
  <2>1. PICK f \in funVisited : l = FunLabel(f)
    BY <1>5
  <2>2. f # Null
    BY DEF TypeOK, Fun, Null
  <2>3. \E j \in 1..Len(text) : text[j].fun = f
    BY <1>1, <1>2, <2>2 DEF Labels
  <2>4. QED
    BY <2>1, <2>3 DEF Defined, FunLabel
<1>6. CASE \E j \in 1..Len(text) : l = text[j].label
  <2>1. \A j \in 1..Len(text) : text[j].label[1] # "function"
    BY DEF Labels, FreshLabel, BlockLabel
  <2>2. QED
    BY <1>6, <2>1 DEF Defined
<1>7. QED
  BY <1>3, <1>4, <1>5, <1>6 DEF Accounted

(* When generate() returns, every label a jump or call names is in the text, *)
(* for the assembler to find.                                              *)
THEOREM LabelsDefined == Spec => []LabelsAreDefined
BY EachLabelDefined, Invariance, PTL

(* Only blocks that execution can reach are ever queued: whatever set of     *)
(* blocks has the start of each function called so far and is closed under  *)
(* jumps has all of them.                                                  *)
THEOREM ReachableOnly == Spec => []OnlyReachableBlocks
<1>1. Init => OnlyReachableBlocks
  <2> SUFFICES ASSUME Init PROVE bbVisited = {}
    BY DEF OnlyReachableBlocks
  <2>1. QED
    BY DEF Init, Start
<1>2. IInv /\ OnlyReachableBlocks /\ [Next]_vars => OnlyReachableBlocks'
  <2> SUFFICES ASSUME IInv, OnlyReachableBlocks, [Next]_vars PROVE OnlyReachableBlocks'
    OBVIOUS
  <2>1. UNCHANGED <<code, bbs>> /\ funVisited \subseteq funVisited'
    BY DEF Next, Step, Stopped, vars, Advance, EnterFunction, EnterBlock, LeaveFunction,
           VisitOrdinary, VisitCALL, VisitJMP, VisitBR, VisitReturn
  <2>2. Block' = Block /\ \A f : start(f)' = start(f)
    BY <2>1 DEF Block, start
  <2> SUFFICES ASSUME NEW S \in SUBSET Block,
                      \A f \in funVisited' : start(f) \in S,
                      \A b \in S : Successors(code[b]) \subseteq S
               PROVE  bbVisited' \subseteq S
    BY <2>1, <2>2 DEF OnlyReachableBlocks
  <2>3. bbVisited \subseteq S
    BY <2>1 DEF OnlyReachableBlocks
  <2>4. cur # Null => Targets(insn) \subseteq S
    <3> SUFFICES ASSUME cur # Null PROVE Targets(insn) \subseteq S
      OBVIOUS
    <3>1. CASE IsTerminator(insn)
      <4>1. pos = Len(code[cur]) /\ cur \in S
        BY <2>3, <3>1, TargetFacts DEF IInv, Position
      <4>2. terminated(code[cur])
        BY FunFacts DEF IInv, Position, TypeOK
      <4>3. QED
        BY <4>1, <4>2 DEF Successors, insn
    <3>2. CASE ~IsTerminator(insn)
      BY <3>2 DEF IsTerminator, TerminatorOps, Targets
    <3>3. QED
      BY <3>1, <3>2
  <2>5. CASE EnterFunction
    <3>1. Head(funWorklist) \in funVisited
      BY <2>5, Unqueue DEF EnterFunction, IInv, Ownership, TypeOK
    <3>2. QED
      BY <2>1, <2>3, <2>5, <3>1 DEF EnterFunction
  <2>6. CASE VisitJMP
    BY <2>3, <2>4, <2>6 DEF VisitJMP, Visit, Targets
  <2>7. CASE VisitBR
    BY <2>3, <2>4, <2>7 DEF VisitBR, Visit, Targets
  <2>8. CASE ~(EnterFunction \/ VisitJMP \/ VisitBR)
    BY <2>3, <2>8 DEF Next, Step, Stopped, vars, EnterBlock, LeaveFunction,
                      VisitOrdinary, VisitCALL, VisitReturn
  <2>9. QED
    BY <2>5, <2>6, <2>7, <2>8
<1>3. QED
  BY <1>1, <1>2, Invariance, PTL DEF Spec
-----------------------------------------------------------------------------
(* Fall-through.  The blocks queued so far were all named before the end of   *)
(* the text (by the block being visited, if any, only when it is left), and *)
(* once a branch is compiled its true target, if new, is the next block.   *)
LastBlockIsCur == cur # Null => text[Len(text)].label = BlockLabel(cur)

VisitedWereNamed ==
  bbVisited \subseteq NamedBefore(IF cur = Null THEN Len(text) + 1 ELSE Len(text))

NewTargetIsNext ==
  cur = Null => \A t \in Block :
    BranchTo(Len(text), t) /\ t \notin NamedBefore(Len(text))
      => bbWorklist # <<>> /\ Head(bbWorklist) = t

Falling == LastBlockIsCur /\ VisitedWereNamed /\ FallsThroughToNewBlocks /\ NewTargetIsNext

(* No step changes the labels of the text there is. *)
TextKept ==
  /\ UNCHANGED <<code, bbs>>
  /\ funVisited \subseteq funVisited'
  /\ text' \in Seq(TextBlock)
  /\ Len(text) <= Len(text')
  /\ \A k \in 1..Len(text) : text'[k].label = text[k].label

LEMMA EmitKeepsLabels ==
  ASSUME NEW t \in Seq(TextBlock), NEW e
  PROVE  /\ Len(Emit(t, e)) = Len(t)
         /\ \A k \in 1..Len(t) : Emit(t, e)[k].label = t[k].label
<1> DEFINE u == Emit(t, e)
           S == {u[k] : k \in 1..Len(t)}
<1>1. Len(t) \in Nat /\ DOMAIN t = 1..Len(t) /\ \A k \in 1..Len(t) : t[k] \in TextBlock
  OBVIOUS
<1>2. u = [t EXCEPT ![Len(t)] = [t[Len(t)] EXCEPT !.insns = t[Len(t)].insns \o e]]
  BY DEF Emit
<1>3. \A k \in 1..Len(t) : u[k].label = t[k].label
  BY <1>1, <1>2 DEF TextBlock
<1>4. u \in [1..Len(t) -> S]
  BY <1>1, <1>2
<1>5. u \in Seq(S) /\ Len(u) = Len(t)
  <2> HIDE DEF u, S
  <2>1. u \in Seq(S)
    BY <1>1, <1>4, SeqDef
  <2>2. QED
    BY <1>1, <1>4, <2>1, LenProperties
<1>6. QED
  BY <1>3, <1>5

(* Only a return and the entry of a block add to the text. *)
LEMMA StepKeepsText ==
  ASSUME IInv, [Next]_vars
  PROVE  /\ TextKept
         /\ cur # Null /\ ~VisitReturn => Len(text') = Len(text)
         /\ VisitReturn => /\ Len(text') = Len(text) + 1
                           /\ text'[Len(text) + 1].label = FreshLabel(Len(text) + 1)
         /\ EnterBlock => /\ Len(text') = Len(text) + 1
                          /\ text'[Len(text) + 1].label = BlockLabel(cur')
         /\ EnterFunction \/ LeaveFunction => text' = text
<1>1. text \in Seq(TextBlock) /\ text' \in Seq(TextBlock) /\ Len(text) \in Nat
  BY NextInv DEF IInv, TypeOK
<1>2. UNCHANGED <<code, bbs>> /\ funVisited \subseteq funVisited'
  BY DEF Next, Step, Stopped, vars, Advance, EnterFunction, EnterBlock, LeaveFunction,
         VisitOrdinary, VisitCALL, VisitJMP, VisitBR, VisitReturn
<1>3. CASE /\ EnterFunction \/ LeaveFunction \/ UNCHANGED vars
           /\ ~VisitReturn /\ ~EnterBlock
  <2>1. text' = text
    BY <1>3 DEF EnterFunction, LeaveFunction, vars
  <2>2. QED
    BY <1>1, <1>2, <1>3, <2>1 DEF TextKept
<1>4. CASE EnterBlock
  <2>1. /\ cur = Null /\ text' = Append(text, NewBlock(fun, BlockLabel(cur'), <<>>))
    BY <1>4 DEF EnterBlock
  <2>2. /\ Len(text') = Len(text) + 1
        /\ \A k \in 1..Len(text) : text'[k] = text[k]
        /\ text'[Len(text) + 1].label = BlockLabel(cur')
    BY <1>1, <2>1 DEF NewBlock
  <2>3. ~VisitReturn /\ ~(EnterFunction \/ LeaveFunction)
    BY <1>1, <2>1, <2>2 DEF VisitReturn, Visit, EnterFunction, LeaveFunction
  <2>4. QED
    BY <1>1, <1>2, <2>1, <2>2, <2>3 DEF TextKept
<1>5. CASE VisitReturn
  <2>1. PICK e, i :
          /\ cur # Null
          /\ text' = Append(Emit(text, e), NewBlock(fun, FreshLabel(Len(text) + 1), i))
    BY <1>5 DEF VisitReturn, Visit
  <2> DEFINE u == Emit(text, e)
  <2>2. /\ Len(u) = Len(text) /\ \A k \in 1..Len(text) : u[k].label = text[k].label
    BY <1>1, EmitKeepsLabels
  <2>3. text' = Append(u, NewBlock(fun, FreshLabel(Len(text) + 1), i))
    BY <2>1
  <2> HIDE DEF u
  <2>4. /\ Len(text') = Len(text) + 1
        /\ \A k \in 1..Len(text) : text'[k] = u[k]
        /\ text'[Len(text) + 1] = NewBlock(fun, FreshLabel(Len(text) + 1), i)
    BY <1>1, <2>2, <2>3
  <2>5. QED
    BY <1>1, <1>2, <1>5, <2>1, <2>2, <2>4
    DEF TextKept, NewBlock, EnterBlock, EnterFunction, LeaveFunction
<1>6. CASE VisitOrdinary \/ VisitCALL \/ VisitJMP \/ VisitBR
  <2>1. /\ cur # Null
        /\ text' = text \/ \E e : text' = Emit(text, e)
    BY <1>6 DEF VisitOrdinary, VisitCALL, VisitJMP, VisitBR, Visit
  <2>2. Len(text') = Len(text) /\ \A k \in 1..Len(text) : text'[k].label = text[k].label
    BY <1>1, <2>1, EmitKeepsLabels
  <2>3. ~EnterBlock /\ ~EnterFunction /\ ~LeaveFunction
    <3>1. fun # Null
      BY <2>1 DEF IInv, Position
    <3>2. QED
      BY <2>1, <3>1 DEF EnterBlock, EnterFunction, LeaveFunction
  <2>4. ~VisitReturn
    BY <1>6 DEF VisitOrdinary, VisitCALL, VisitJMP, VisitBR, VisitReturn, Visit, TerminatorOps
  <2>5. QED
    BY <1>1, <1>2, <2>2, <2>3, <2>4 DEF TextKept
<1>7. QED
  BY <1>3, <1>4, <1>5, <1>6 DEF Next, Step, Stopped

(* What was a branch remains one, and what was named remains named. *)
LEMMA NamesStay ==
  ASSUME IInv, TextKept
  PROVE  /\ Block' = Block
         /\ \A k \in 1..Len(text), t \in Block : BranchTo(k, t)' => BranchTo(k, t)
         /\ \A k \in 1..(Len(text) + 1), j \in Nat :
              k <= j => NamedBefore(k) \subseteq NamedBefore(j)'
<1>1. Len(text) \in Nat /\ UNCHANGED <<code, bbs>> /\ funVisited \subseteq funVisited'
      /\ \A k \in 1..Len(text) : text'[k].label = text[k].label
  BY DEF TextKept, IInv, TypeOK
<1>2. Block' = Block /\ \A f : start(f)' = start(f)
  BY <1>1 DEF Block, start
<1>3. \A k \in 1..Len(text), t \in Block : BranchTo(k, t)' => BranchTo(k, t)
  BY <1>1, <1>2 DEF BranchTo
<1>4. ASSUME NEW k \in 1..(Len(text) + 1), NEW j \in Nat, k <= j, NEW x \in NamedBefore(k)
      PROVE  x \in NamedBefore(j)'
  <2>1. CASE \E f \in funVisited : x = start(f)
    BY <1>1, <1>2, <2>1 DEF NamedBefore
  <2>2. CASE \E c \in Block : /\ \E i \in 1..(k - 1) : text[i].label = BlockLabel(c)
                              /\ x \in Successors(code[c])
    <3>1. PICK c \in Block : /\ \E i \in 1..(k - 1) : text[i].label = BlockLabel(c)
                             /\ x \in Successors(code[c])
      BY <2>2
    <3>2. PICK i \in 1..(k - 1) : text[i].label = BlockLabel(c)
      BY <3>1
    <3>3. i \in 1..(j - 1) /\ text'[i].label = BlockLabel(c)
      BY <1>1, <1>4, <3>2
    <3>4. x \in Successors(code'[c]) /\ c \in Block'
      BY <1>1, <1>2, <3>1
    <3>5. QED
      BY <3>3, <3>4 DEF NamedBefore
  <2>3. QED
    BY <1>4, <2>1, <2>2 DEF NamedBefore
<1>5. QED
  BY <1>2, <1>3, <1>4

LEMMA InitFalling == Init => Falling
<1> SUFFICES ASSUME Init PROVE Falling
  OBVIOUS
<1>1. /\ cur = Null /\ bbVisited = {} /\ Len(text) = 1
      /\ text[1].label = FreshLabel(1)
  BY DEF Init, Start, GlobalMain, NewBlock
<1>2. \A t : ~BranchTo(1, t)
  BY <1>1, LabelsDiffer DEF BranchTo
<1>3. QED
  BY <1>1, <1>2 DEF Falling, LastBlockIsCur, VisitedWereNamed, FallsThroughToNewBlocks, NewTargetIsNext

(* The blocks before the last fall through as they did, if the last does. *)
LEMMA FallThroughKept ==
  ASSUME IInv, TextKept, FallsThroughToNewBlocks,
         NEW n, n = Len(text),
         Len(text') = n \/ /\ Len(text') = n + 1
                           /\ \A t \in Block : BranchTo(n, t) /\ t \notin NamedBefore(n)
                                                 => text'[n + 1].label = BlockLabel(t)
  PROVE  FallsThroughToNewBlocks'
<1>1. n \in Nat /\ \A k \in 1..n : text'[k].label = text[k].label
  BY DEF TextKept, IInv, TypeOK
<1>2. SUFFICES ASSUME NEW k \in 1..(Len(text') - 1), NEW t \in Block,
                      BranchTo(k, t)', t \notin NamedBefore(k)'
               PROVE  text'[k + 1].label = BlockLabel(t)
  BY NamesStay DEF FallsThroughToNewBlocks
<1>3. k \in 1..n /\ (k \in 1..(n - 1) \/ (k = n /\ Len(text') = n + 1))
  BY <1>1
<1>4. BranchTo(k, t) /\ t \notin NamedBefore(k)
  BY <1>1, <1>2, <1>3, NamesStay
<1>5. CASE k \in 1..(n - 1)
  <2>1. text[k + 1].label = BlockLabel(t)
    BY <1>4, <1>5 DEF FallsThroughToNewBlocks
  <2>2. k + 1 \in 1..n
    BY <1>1, <1>5
  <2>3. QED
    BY <1>1, <2>1, <2>2
<1>6. CASE k = n /\ Len(text') = n + 1
  BY <1>1, <1>4, <1>6
<1>7. QED
  BY <1>3, <1>5, <1>6

(* Every visit() that adds no block.  A branch, the one terminator with two   *)
(* targets, leaves its true target, if new, at the head of the worklist.   *)
LEMMA VisitFalls ==
  ASSUME IInv, Falling, TextKept, cur # Null, Advance, Len(text') = Len(text),
         bbVisited' \subseteq bbVisited \cup Targets(insn),
         insn.op = "BR" /\ insn.target1 \notin bbVisited
           => bbWorklist' # <<>> /\ Head(bbWorklist') = insn.target1
  PROVE  Falling'
<1>1. PICK n \in Nat : n = Len(text) /\ n # 0
  BY DEF IInv, TypeOK, Position
<1>2. /\ text[n].label = BlockLabel(cur) /\ text'[n].label = BlockLabel(cur)
      /\ cur \in Block /\ pos \in 1..Len(code[cur]) /\ fun \in Fun /\ cur \in Range(bbs[fun])
      /\ cur' = Null => pos = Len(code[cur])
      /\ cur' # Null => cur' = cur /\ pos # Len(code[cur])
      /\ Block' = Block /\ UNCHANGED code
  BY <1>1, NamesStay DEF Falling, LastBlockIsCur, TextKept, IInv, Position, TypeOK, Advance
<1>3. LastBlockIsCur'
  BY <1>1, <1>2 DEF LastBlockIsCur
<1>4. bbVisited \subseteq NamedBefore(n)
  BY <1>1 DEF Falling, VisitedWereNamed
<1>5. VisitedWereNamed'
  <2>1. CASE cur' # Null
    <3>1. Targets(insn) = {}
      BY <1>2, <2>1, TargetFacts DEF IsTerminator, TerminatorOps, Targets
    <3>2. bbVisited' \subseteq NamedBefore(n)'
      BY <1>1, <1>4, <3>1, NamesStay
    <3>3. QED
      BY <1>1, <2>1, <3>2 DEF VisitedWereNamed
  <2>2. CASE cur' = Null
    <3>1. bbVisited \subseteq NamedBefore(n + 1)'
      BY <1>1, <1>4, NamesStay
    <3>2. Targets(insn) \subseteq Successors(code[cur])
      <4>1. terminated(code[cur])
        BY <1>2, FunFacts DEF IInv
      <4>2. QED
        BY <1>2, <2>2, <4>1 DEF Successors, insn
    <3>3. Successors(code[cur]) \subseteq NamedBefore(n + 1)'
      <4>1. n \in 1..((n + 1) - 1) /\ text'[n].label = BlockLabel(cur) /\ cur \in Block'
        BY <1>1, <1>2
      <4>2. QED
        BY <1>2, <4>1 DEF NamedBefore
    <3>4. bbVisited' \subseteq NamedBefore(n + 1)'
      BY <3>1, <3>2, <3>3
    <3>5. QED
      BY <1>1, <2>2, <3>4 DEF VisitedWereNamed
  <2>3. QED
    BY <2>1, <2>2
<1>6. FallsThroughToNewBlocks'
  BY <1>1, FallThroughKept DEF Falling
<1>7. NewTargetIsNext'
  <2>1. SUFFICES ASSUME cur' = Null, NEW t \in Block, BranchTo(n, t)', t \notin NamedBefore(n)'
                 PROVE  bbWorklist' # <<>> /\ Head(bbWorklist') = t
    BY <1>1, <1>2 DEF NewTargetIsNext
  <2>2. BranchTo(n, t) /\ t \notin NamedBefore(n)
    BY <1>1, <2>1, NamesStay
  <2>3. insn.op = "BR" /\ insn.target1 = t
    BY <1>2, <2>1, <2>2, LabelsDiffer DEF BranchTo, insn
  <2>4. QED
    BY <1>4, <2>2, <2>3
<1>8. QED
  BY <1>3, <1>5, <1>6, <1>7 DEF Falling

(* A return is followed by its epilogue: no branch ends there. *)
LEMMA ReturnFalls == IInv /\ Falling /\ VisitReturn => Falling'
<1> SUFFICES ASSUME IInv, Falling, VisitReturn PROVE Falling'
  OBVIOUS
<1>1. PICK n \in Nat : n = Len(text) /\ n # 0
  BY DEF IInv, TypeOK, Position
<1>2. /\ cur # Null /\ Advance /\ insn.op \in {"RET", "RETR"} /\ bbVisited' = bbVisited
      /\ TextKept /\ Len(text') = n + 1 /\ text'[n + 1].label = FreshLabel(n + 1)
  BY <1>1, StepKeepsText DEF VisitReturn, Visit, Next, Step
<1>3. pos = Len(code[cur]) /\ cur' = Null
  BY <1>2, TargetFacts DEF IsTerminator, TerminatorOps, Advance
<1>4. LastBlockIsCur'
  BY <1>3 DEF LastBlockIsCur
<1>5. VisitedWereNamed'
  <2>1. bbVisited \subseteq NamedBefore(n)
    BY <1>1, <1>2 DEF Falling, VisitedWereNamed
  <2>2. bbVisited' \subseteq NamedBefore(n + 2)'
    BY <1>1, <1>2, <2>1, NamesStay
  <2>3. QED
    BY <1>2, <1>3, <2>2 DEF VisitedWereNamed
<1>6. FallsThroughToNewBlocks'
  <2>1. ASSUME NEW t \in Block, BranchTo(n, t) PROVE FALSE
    <3>1. text[n].label = BlockLabel(cur)
      BY <1>1, <1>2 DEF Falling, LastBlockIsCur
    <3>2. code[cur][Len(code[cur])].op = "BR"
      BY <2>1, <3>1, LabelsDiffer DEF BranchTo
    <3>3. QED
      BY <1>2, <1>3, <3>2 DEF insn
  <2>2. QED
    BY <1>1, <1>2, <2>1, FallThroughKept DEF Falling
<1>7. NewTargetIsNext'
  <2>1. \A t : ~BranchTo(n + 1, t)'
    BY <1>2, LabelsDiffer DEF BranchTo
  <2>2. QED
    BY <1>2, <2>1 DEF NewTargetIsNext
<1>8. QED
  BY <1>4, <1>5, <1>6, <1>7 DEF Falling

(* The next block of the text is the head of the worklist. *)
LEMMA EnterBlockFalls == IInv /\ Falling /\ EnterBlock => Falling'
<1> SUFFICES ASSUME IInv, Falling, EnterBlock PROVE Falling'
  OBVIOUS
<1>1. PICK n \in Nat : n = Len(text) /\ n # 0
  BY DEF IInv, TypeOK, Position
<1>2. /\ cur = Null /\ cur' = Head(bbWorklist) /\ bbVisited' = bbVisited
      /\ TextKept /\ Len(text') = n + 1 /\ text'[n + 1].label = BlockLabel(cur')
  BY <1>1, StepKeepsText DEF EnterBlock, Next, Step
<1>3. cur' # Null
  BY <1>2 DEF EnterBlock, IInv, TypeOK, Block, Null
<1>4. LastBlockIsCur'
  BY <1>2 DEF LastBlockIsCur
<1>5. VisitedWereNamed'
  <2>1. bbVisited \subseteq NamedBefore(n + 1)
    BY <1>1, <1>2 DEF Falling, VisitedWereNamed
  <2>2. bbVisited' \subseteq NamedBefore(n + 1)'
    BY <1>1, <1>2, <2>1, NamesStay
  <2>3. QED
    BY <1>2, <1>3, <2>2 DEF VisitedWereNamed
<1>6. FallsThroughToNewBlocks'
  <2>1. \A t \in Block : BranchTo(n, t) /\ t \notin NamedBefore(n) => cur' = t
    BY <1>1, <1>2 DEF Falling, NewTargetIsNext
  <2>2. QED
    BY <1>1, <1>2, <2>1, FallThroughKept DEF Falling
<1>7. NewTargetIsNext'
  BY <1>3 DEF NewTargetIsNext
<1>8. QED
  BY <1>4, <1>5, <1>6, <1>7 DEF Falling

(* Between functions nothing waits, so every branch has had its target; the  *)
(* function that is entered was called, its first block is named by that.  *)
LEMMA FunctionFalls == IInv /\ Falling /\ (EnterFunction \/ LeaveFunction) => Falling'
<1> SUFFICES ASSUME IInv, Falling, EnterFunction \/ LeaveFunction PROVE Falling'
  OBVIOUS
<1>1. PICK n \in Nat : n = Len(text) /\ n # 0
  BY DEF IInv, TypeOK, Position
<1>2. /\ cur = Null /\ cur' = Null /\ bbWorklist = <<>> /\ text' = text /\ funVisited' = funVisited
      /\ TextKept /\ UNCHANGED <<code, bbs>>
  BY StepKeepsText DEF EnterFunction, LeaveFunction, Next, Step, IInv, Position
<1>3. LastBlockIsCur'
  BY <1>2 DEF LastBlockIsCur
<1>4. VisitedWereNamed'
  <2>1. bbVisited \subseteq NamedBefore(n + 1)'
    BY <1>1, <1>2, NamesStay DEF Falling, VisitedWereNamed
  <2>2. \A f \in funVisited : start(f) \in NamedBefore(n + 1)'
    BY <1>2 DEF NamedBefore, start
  <2>3. \/ bbVisited' = bbVisited
        \/ \E f \in funVisited : bbVisited' = bbVisited \cup {start(f)}
    <3>1. funWorklist # <<>> => Head(funWorklist) \in funVisited
      BY Unqueue DEF IInv, Ownership, TypeOK
    <3>2. QED
      BY <3>1 DEF EnterFunction, LeaveFunction
  <2>4. bbVisited' \subseteq NamedBefore(n + 1)'
    BY <2>1, <2>2, <2>3
  <2>5. QED
    BY <1>1, <1>2, <2>4 DEF VisitedWereNamed
<1>5. FallsThroughToNewBlocks'
  BY <1>1, <1>2, FallThroughKept DEF Falling
<1>6. NewTargetIsNext'
  <2>1. SUFFICES ASSUME NEW t \in Block, BranchTo(n, t)', t \notin NamedBefore(n)' PROVE FALSE
    BY <1>1, <1>2, NamesStay DEF NewTargetIsNext
  <2>2. BranchTo(n, t) /\ t \notin NamedBefore(n)
    BY <1>1, <1>2, <2>1, NamesStay
  <2>3. QED
    BY <1>1, <1>2, <2>2 DEF Falling, NewTargetIsNext
<1>7. QED
  BY <1>3, <1>4, <1>5, <1>6 DEF Falling

LEMMA BranchFalls == IInv /\ Falling /\ VisitBR => Falling'
<1> SUFFICES ASSUME IInv, Falling, VisitBR PROVE Falling'
  OBVIOUS
<1> DEFINE t1 == insn.target1
           t2 == insn.target2
           front == addToWorklistFront(bbWorklist, bbVisited, t1)
<1>1. /\ cur # Null /\ Advance /\ insn.op = "BR"
      /\ bbWorklist' = addToWorklistBack(front, bbVisited \cup {t1}, t2)
      /\ bbVisited' = (bbVisited \cup {t1}) \cup {t2}
  BY DEF VisitBR, Visit
<1>2. TextKept /\ Len(text') = Len(text)
  BY <1>1, StepKeepsText DEF VisitBR, VisitReturn, Visit, Next, Step
<1>3. ASSUME t1 \notin bbVisited PROVE bbWorklist' # <<>> /\ Head(bbWorklist') = t1
  <2>1. bbWorklist \in Seq(Block) /\ t1 \in Block /\ t2 \in Block
    <3>1. {t1, t2} \subseteq Range(bbs[fun])
      BY <1>1, TargetFacts DEF Targets
    <3>2. Range(bbs[fun]) \subseteq Block
      BY <1>1, FunFacts DEF IInv, Position, TypeOK
    <3>3. QED
      BY <3>1, <3>2 DEF IInv, TypeOK
  <2>2. front = <<t1>> \o bbWorklist
    BY <1>3 DEF addToWorklistFront
  <2> HIDE DEF t1, t2
  <2>3. front \in Seq(Block) /\ front # <<>> /\ Head(front) = t1
    BY <2>1, <2>2
  <2> HIDE DEF front
  <2>4. Append(front, t2) # <<>> /\ Head(Append(front, t2)) = t1
    BY <2>1, <2>3
  <2>5. QED
    BY <1>1, <2>3, <2>4 DEF addToWorklistBack
<1>4. bbVisited' \subseteq bbVisited \cup Targets(insn)
  BY <1>1 DEF Targets
<1>5. QED
  BY <1>1, <1>2, <1>3, <1>4, VisitFalls

LEMMA NextFalls == IInv /\ Falling /\ [Next]_vars => Falling'
<1> SUFFICES ASSUME IInv, Falling, [Next]_vars PROVE Falling'
  OBVIOUS
<1>1. CASE VisitOrdinary \/ VisitCALL \/ VisitJMP
  <2>1. /\ cur # Null /\ Advance /\ insn.op # "BR"
        /\ bbVisited' \subseteq bbVisited \cup Targets(insn)
    BY <1>1 DEF VisitOrdinary, VisitCALL, VisitJMP, Visit, Targets, TerminatorOps
  <2>2. ~VisitReturn
    BY <1>1 DEF VisitOrdinary, VisitCALL, VisitJMP, VisitReturn, Visit, TerminatorOps
  <2>3. TextKept /\ Len(text') = Len(text)
    BY <2>1, <2>2, StepKeepsText
  <2>4. QED
    BY <2>1, <2>3, VisitFalls
<1>2. CASE UNCHANGED vars
  <2>1. /\ text' = text /\ cur' = cur /\ bbVisited' = bbVisited /\ bbWorklist' = bbWorklist
        /\ Block' = Block /\ \A k : NamedBefore(k)' = NamedBefore(k)
        /\ \A k, t : BranchTo(k, t)' = BranchTo(k, t)
    BY <1>2 DEF vars, NamedBefore, BranchTo, Block, start
  <2>2. LastBlockIsCur' /\ VisitedWereNamed'
    BY <2>1 DEF Falling, LastBlockIsCur, VisitedWereNamed
  <2>3. FallsThroughToNewBlocks'
    BY <2>1 DEF Falling, FallsThroughToNewBlocks
  <2>4. NewTargetIsNext'
    BY <2>1 DEF Falling, NewTargetIsNext
  <2>5. QED
    BY <2>2, <2>3, <2>4 DEF Falling
<1>3. QED
  BY <1>1, <1>2, FunctionFalls, EnterBlockFalls, BranchFalls, ReturnFalls DEF Next, Step, Stopped

(* visit(BR) queues the true target in front and emits no jump to it.  It is  *)
(* the next block of the text whenever no earlier block or call named it,   *)
(* whatever else waits and however the false target is queued.             *)
THEOREM NewBlocksFallThrough == Spec => []FallsThroughToNewBlocks
<1>1. Init => Falling
  BY InitFalling
<1>2. IInv /\ Falling /\ [Next]_vars => Falling'
  BY NextFalls
<1>3. Falling => FallsThroughToNewBlocks
  BY DEF Falling
<1>4. QED
  BY <1>1, <1>2, <1>3, Invariance, PTL DEF Spec

-----------------------------------------------------------------------------
(* The layout of the text.  What an instruction becomes in text block k - 1; *)
(* a return jumps to the block behind, k.                                  *)
Made(i, k) ==
  CASE i.op = "ALLOCA" -> <<>>
    [] i.op = "CALL"   -> <<T86("CALL", i.at, FunLabel(i.target1))>>
    [] i.op = "JMP"    -> <<T86("JMP", 0, BlockLabel(i.target1))>>
    [] i.op = "BR"     -> <<T86("JCC", i.at, BlockLabel(i.target2))>>
    [] i.op = "RET"    -> <<T86("JMP", 0, FreshLabel(k))>>
    [] i.op = "RETR"   -> <<T86("RETR", i.at, NoLabel)>> \o <<T86("JMP", 0, FreshLabel(k))>>
    [] OTHER           -> <<T86(i.op, i.at, NoLabel)>>

(* The first n instructions of block x are s, instruction i from at[i] on. *)
Fits(x, s, at, n, k) ==
  /\ at \in [1..(n + 1) -> Nat \ {0}]
  /\ at[1] = 1
  /\ at[n + 1] = Len(s) + 1
  /\ \A i \in 1..n :
       /\ at[i + 1] = at[i] + Len(Made(x[i], k))
       /\ \A q \in 1..Len(Made(x[i], k)) :
            at[i] + q - 1 \in 1..Len(s) /\ s[at[i] + q - 1] = Made(x[i], k)[q]
  /\ \A j \in 1..Len(s) : \E i \in 1..n : \E q \in 1..Len(Made(x[i], k)) : j = at[i] + q - 1

(* How many instructions of block b text block k has. *)
Reached(b, k) == IF k = Len(text) /\ cur # Null THEN pos - 1 ELSE Len(code[b])

(* Each block of the text is the code of its label's block. *)
BlocksFit ==
  \A k \in 1..Len(text), b \in Block :
    text[k].label = BlockLabel(b) => \E at : Fits(code[b], text[k].insns, at, Reached(b, k), k + 1)

Returns == {"RET", "RETR"}
Epilogue == <<T86("RET", 0, NoLabel)>>

(* The other blocks of the text: the first, and a return behind each block   *)
(* that ends in one.                                                       *)
EpiloguesFit ==
  /\ text[1].fun = Null /\ text[1].label = FreshLabel(1)
  /\ \E m \in Fun : text[1].insns = GlobalMain(m).insns
  /\ \A k \in 2..Len(text) : text[k].label = FreshLabel(k) => text[k].insns = Epilogue
  /\ \A k \in 1..Len(text), b \in Block :
       /\ text[k].label = BlockLabel(b)
       /\ code[b][Len(code[b])].op \in Returns
       /\ k = Len(text) => cur = Null
       => k + 1 \in 1..Len(text) /\ text[k + 1].label = FreshLabel(k + 1)

(* The blocks of a function are together, the first of them in front. *)
FunctionsFit ==
  /\ \A k \in 2..Len(text) :
       text[k].fun # text[k - 1].fun => text[k].label = BlockLabel(start(text[k].fun))
  /\ fun # Null /\ text[Len(text)].fun # fun => cur = Null /\ bbWorklist = <<start(fun)>>

NamedInTime ==
  \A k \in 1..Len(text), b \in Block : text[k].label = BlockLabel(b) => b \in NamedBefore(k)

Layout == BlocksFit /\ EpiloguesFit /\ FunctionsFit /\ NamedInTime

(* One instruction more. *)
LEMMA FitsOn ==
  ASSUME NEW n \in Nat, NEW x, NEW s, NEW k, NEW T, s \in Seq(T), Made(x[n + 1], k) \in Seq(T),
         NEW at, Fits(x, s, at, n, k)
  PROVE  \E at2 : Fits(x, s \o Made(x[n + 1], k), at2, n + 1, k)
<1> DEFINE e == Made(x[n + 1], k)
           u == s \o e
           at2 == [m \in 1..((n + 1) + 1) |-> IF m \in 1..(n + 1) THEN at[m] ELSE at[n + 1] + Len(e)]
<1> HIDE DEF e
<1>1. /\ Len(s) \in Nat /\ Len(e) \in Nat /\ Len(u) = Len(s) + Len(e)
      /\ \A j \in 1..Len(s) : u[j] = s[j]
      /\ \A q \in 1..Len(e) : u[Len(s) + q] = e[q]
  BY DEF e
<1> HIDE DEF u
<1>2. /\ at \in [1..(n + 1) -> Nat \ {0}] /\ at[1] = 1 /\ at[n + 1] = Len(s) + 1
      /\ \A i \in 1..n :
           /\ at[i + 1] = at[i] + Len(Made(x[i], k))
           /\ \A q \in 1..Len(Made(x[i], k)) :
                at[i] + q - 1 \in 1..Len(s) /\ s[at[i] + q - 1] = Made(x[i], k)[q]
      /\ \A j \in 1..Len(s) : \E i \in 1..n : \E q \in 1..Len(Made(x[i], k)) : j = at[i] + q - 1
  BY DEF Fits
<1>3. /\ \A m \in 1..(n + 1) : at2[m] = at[m]
      /\ at2[(n + 1) + 1] = at[n + 1] + Len(e)
      /\ at2 \in [1..((n + 1) + 1) -> Nat \ {0}]
  BY <1>1, <1>2
<1> HIDE DEF at2
<1>4. at2[1] = 1 /\ at2[(n + 1) + 1] = Len(u) + 1
  BY <1>1, <1>2, <1>3
<1>5. ASSUME NEW i \in 1..(n + 1)
      PROVE  /\ at2[i + 1] = at2[i] + Len(Made(x[i], k))
             /\ \A q \in 1..Len(Made(x[i], k)) :
                  at2[i] + q - 1 \in 1..Len(u) /\ u[at2[i] + q - 1] = Made(x[i], k)[q]
  <2>1. CASE i \in 1..n
    <3>1. i + 1 \in 1..(n + 1)
      BY <2>1
    <3>2. \A j \in 1..Len(s) : j \in 1..Len(u) /\ u[j] = s[j]
      BY <1>1
    <3>3. at2[i] = at[i] /\ at2[i + 1] = at[i + 1]
      BY <1>3, <3>1
    <3>4. /\ at[i + 1] = at[i] + Len(Made(x[i], k))
          /\ \A q \in 1..Len(Made(x[i], k)) :
               at[i] + q - 1 \in 1..Len(s) /\ s[at[i] + q - 1] = Made(x[i], k)[q]
      BY <1>2, <2>1
    <3>5. QED
      BY <3>2, <3>3, <3>4, Zenon
  <2>2. CASE i = n + 1
    <3>1. /\ at2[i] = Len(s) + 1 /\ at2[i + 1] = (Len(s) + 1) + Len(e)
          /\ Made(x[i], k) = e
      BY <1>2, <1>3, <2>2 DEF e
    <3>2. \A q \in 1..Len(e) : (Len(s) + 1) + q - 1 \in 1..Len(u) /\ (Len(s) + 1) + q - 1 = Len(s) + q
      BY <1>1
    <3>3. QED
      BY <1>1, <3>1, <3>2
  <2>3. QED
    BY <2>1, <2>2
<1>6. ASSUME NEW j \in 1..Len(u)
      PROVE  \E i \in 1..(n + 1) : \E q \in 1..Len(Made(x[i], k)) : j = at2[i] + q - 1
  <2>1. CASE j \in 1..Len(s)
    <3>1. PICK i \in 1..n : \E q \in 1..Len(Made(x[i], k)) : j = at[i] + q - 1
      BY <1>2, <2>1
    <3>2. i \in 1..(n + 1) /\ at2[i] = at[i]
      BY <1>3
    <3>3. QED
      BY <3>1, <3>2
  <2>2. CASE j \notin 1..Len(s)
    <3>1. j - Len(s) \in 1..Len(e) /\ n + 1 \in 1..(n + 1)
      BY <1>1, <2>2
    <3>2. at2[n + 1] = Len(s) + 1 /\ j = (Len(s) + 1) + (j - Len(s)) - 1
      BY <1>1, <1>2, <1>3
    <3>3. QED
      BY <3>1, <3>2 DEF e
  <2>3. QED
    BY <2>1, <2>2
<1>7. Fits(x, u, at2, n + 1, k)
  BY <1>3, <1>4, <1>5, <1>6 DEF Fits
<1>8. QED
  BY <1>7 DEF u, e

LEMMA FitsNone ==
  ASSUME NEW x, NEW k
  PROVE  \E at : Fits(x, <<>>, at, 0, k)
<1> DEFINE at == [m \in 1..(0 + 1) |-> 1]
<1>1. at \in [1..(0 + 1) -> Nat \ {0}] /\ at[1] = 1 /\ Len(<<>>) = 0 /\ at[0 + 1] = Len(<<>>) + 1
  OBVIOUS
<1>2. Fits(x, <<>>, at, 0, k)
  BY <1>1 DEF Fits
<1>3. QED
  BY <1>2

(* The instructions a visit() adds to the last block of the text. *)
Adds(e) ==
  /\ Len(text) <= Len(text')
  /\ \A k \in 1..Len(text) :
       /\ text'[k].fun = text[k].fun
       /\ text'[k].label = text[k].label
       /\ text'[k].insns = IF k = Len(text) THEN text[k].insns \o e ELSE text[k].insns

LEMMA MadeTypes ==
  ASSUME IInv, cur # Null
  PROVE  Made(insn, Len(text) + 1) \in Seq(T86Insn)
<1>1. insn.op \in Ops /\ insn.at \in Nat /\ Len(text) + 1 \in Nat
  BY InsnFacts DEF IInv, TypeOK
<1>2. /\ insn.op = "CALL" => insn.target1 \in Nat
      /\ insn.op = "JMP" => insn.target1 \in Nat
      /\ insn.op = "BR" => insn.target2 \in Nat
  BY TargetFacts, InsnFacts DEF Targets
<1>3. \A o \in Ops \cup {"JCC"}, n \in Nat, l \in Label : <<T86(o, n, l)>> \in Seq(T86Insn)
  BY T86Facts
<1>4. {"CALL", "JMP", "RET", "RETR"} \subseteq Ops /\ 0 \in Nat
  BY DEF Ops, Visible, TerminatorOps
<1>5. \A n \in Nat : BlockLabel(n) \in Label /\ FreshLabel(n) \in Label /\ FunLabel(n) \in Label
  BY LabelTypes
<1>6. NoLabel \in Label
  BY LabelTypes
<1>7. CASE insn.op = "RETR"
  <2>1. /\ <<T86("RETR", insn.at, NoLabel)>> \in Seq(T86Insn)
        /\ <<T86("JMP", 0, FreshLabel(Len(text) + 1))>> \in Seq(T86Insn)
    BY <1>1, <1>3, <1>4, <1>5, <1>6
  <2>2. \A d, e \in Seq(T86Insn) : d \o e \in Seq(T86Insn)
    OBVIOUS
  <2>3. Made(insn, Len(text) + 1)
          = <<T86("RETR", insn.at, NoLabel)>> \o <<T86("JMP", 0, FreshLabel(Len(text) + 1))>>
    BY <1>7 DEF Made
  <2>4. QED
    BY <2>1, <2>2, <2>3
<1>8. CASE insn.op = "ALLOCA"
  BY <1>8 DEF Made
<1>9. CASE insn.op \notin {"RETR", "ALLOCA"}
  BY <1>1, <1>2, <1>3, <1>4, <1>5, <1>6, <1>9, Zenon DEF Made
<1>10. QED
  BY <1>7, <1>8, <1>9

LEMMA VisitAdds ==
  ASSUME IInv, cur # Null, VisitOrdinary \/ VisitCALL \/ VisitJMP \/ VisitBR
  PROVE  /\ Adds(Made(insn, Len(text) + 1)) /\ Len(text') = Len(text)
         /\ Advance /\ insn.op \notin Returns /\ funVisited \subseteq funVisited'
<1>1. text \in Seq(TextBlock) /\ text # <<>>
  BY DEF IInv, TypeOK, Position
<1>2. Made(insn, Len(text) + 1) \in Seq(T86Insn)
  BY MadeTypes
<1>3. /\ Advance /\ insn.op \notin Returns /\ insn.op \in Ops /\ funVisited \subseteq funVisited'
      /\ \/ insn.op # "ALLOCA" /\ text' = Emit(text, Made(insn, Len(text) + 1))
         \/ insn.op = "ALLOCA" /\ text' = text
  BY DEF VisitOrdinary, VisitCALL, VisitJMP, VisitBR, Visit, Made, Returns, TerminatorOps, Ops, Visible
<1>4. CASE text' = Emit(text, Made(insn, Len(text) + 1))
  BY <1>1, <1>2, <1>3, <1>4, Emitted DEF Adds
<1>5. CASE insn.op = "ALLOCA" /\ text' = text
  <2>1. Made(insn, Len(text) + 1) = <<>>
    BY <1>5 DEF Made
  <2>2. ASSUME NEW k \in 1..Len(text) PROVE text[k].insns \o <<>> = text[k].insns
    <3>1. text[k] \in TextBlock
      BY <1>1
    <3>2. PICK s \in Seq(T86Insn) : s = text[k].insns
      BY <3>1 DEF TextBlock
    <3>3. s \o <<>> = s
      OBVIOUS
    <3>4. QED
      BY <3>2, <3>3
  <2>3. Len(text) \in Nat
    BY <1>1
  <2>4. Adds(<<>>) /\ Len(text') = Len(text)
    BY <1>5, <2>2, <2>3 DEF Adds
  <2>5. QED
    BY <1>3, <2>1, <2>4
<1>6. QED
  BY <1>3, <1>4, <1>5

LEMMA ReturnAdds ==
  ASSUME IInv, cur # Null, VisitReturn
  PROVE  /\ Adds(Made(insn, Len(text) + 1)) /\ Len(text') = Len(text) + 1
         /\ text'[Len(text) + 1] = NewBlock(fun, FreshLabel(Len(text) + 1), Epilogue)
         /\ Advance /\ insn.op \in Returns
<1> DEFINE e == Made(insn, Len(text) + 1)
           u == Emit(text, e)
<1>1. text \in Seq(TextBlock) /\ text # <<>> /\ Len(text) \in Nat \ {0}
  BY DEF IInv, TypeOK, Position
<1>2. e \in Seq(T86Insn)
  BY MadeTypes
<1>3. /\ Advance /\ insn.op \in Returns
      /\ text' = Append(u, NewBlock(fun, FreshLabel(Len(text) + 1), Epilogue))
  BY DEF VisitReturn, Visit, Made, Returns, Epilogue
<1> HIDE DEF e
<1>4. /\ u \in Seq(TextBlock)
      /\ Len(u) = Len(text)
      /\ \A k \in 1..Len(text) :
           /\ u[k].fun = text[k].fun
           /\ u[k].label = text[k].label
           /\ u[k].insns = IF k = Len(text) THEN text[k].insns \o e ELSE text[k].insns
  BY <1>1, <1>2, Emitted
<1> HIDE DEF u
<1>5. /\ Len(text') = Len(text) + 1
      /\ \A k \in 1..Len(text) : text'[k] = u[k]
      /\ text'[Len(text) + 1] = NewBlock(fun, FreshLabel(Len(text) + 1), Epilogue)
  BY <1>1, <1>3, <1>4
<1>6. Adds(e)
  BY <1>1, <1>4, <1>5 DEF Adds
<1>7. QED
  BY <1>3, <1>5, <1>6 DEF e

LEMMA NamedKept ==
  ASSUME IInv, Layout, TextKept, Len(text') = Len(text)
  PROVE  NamedInTime'
<1> SUFFICES ASSUME NEW k \in 1..Len(text), NEW b \in Block, text'[k].label = BlockLabel(b)
             PROVE  b \in NamedBefore(k)'
  BY NamesStay DEF NamedInTime
<1>1. text[k].label = BlockLabel(b)
  BY DEF TextKept
<1>2. b \in NamedBefore(k)
  BY <1>1 DEF Layout, NamedInTime
<1>3. k \in 1..(Len(text) + 1) /\ k \in Nat /\ k <= k
  BY DEF IInv, TypeOK
<1>4. QED
  BY <1>2, <1>3, NamesStay

(* An instruction is visited: the blocks it does not end stay as they are. *)
LEMMA VisitFits ==
  ASSUME IInv, Falling, Layout, TextKept, cur # Null, Advance, Adds(Made(insn, Len(text) + 1)),
         NEW k \in 1..Len(text), NEW b \in Block, text'[k].label = BlockLabel(b)
  PROVE  \/ k # Len(text) /\ text'[k].insns = text[k].insns
            /\ \E at : Fits(code[b], text'[k].insns, at, Len(code[b]), k + 1)
         \/ k = Len(text) /\ b = cur
            /\ \E at : Fits(code[b], text'[k].insns, at, pos, k + 1)
<1>1. text[k].label = BlockLabel(b) /\ Len(text) \in Nat
  BY DEF TextKept, IInv, TypeOK
<1>2. PICK at : Fits(code[b], text[k].insns, at, Reached(b, k), k + 1)
  BY <1>1 DEF Layout, BlocksFit
<1>3. CASE k # Len(text)
  BY <1>2, <1>3 DEF Reached, Adds
<1>4. CASE k = Len(text)
  <2>1. b = cur
    BY <1>1, <1>4, LabelsDiffer DEF Falling, LastBlockIsCur
  <2>2. pos \in Nat \ {0} /\ pos - 1 \in Nat /\ (pos - 1) + 1 = pos
    BY DEF IInv, TypeOK
  <2>3. text[k].insns \in Seq(T86Insn)
    <3>1. text[k] \in TextBlock
      BY DEF IInv, TypeOK
    <3>2. QED
      BY <3>1 DEF TextBlock
  <2>4. Made(code[b][(pos - 1) + 1], k + 1) = Made(insn, Len(text) + 1)
    BY <1>4, <2>1, <2>2 DEF insn
  <2>5. Fits(code[b], text[k].insns, at, pos - 1, k + 1)
    BY <1>2, <1>4 DEF Reached
  <2>6. \E at2 : Fits(code[b], text[k].insns \o Made(insn, Len(text) + 1), at2, pos, k + 1)
    <3> DEFINE x == code[b]
               s == text[k].insns
    <3>1. Made(x[(pos - 1) + 1], k + 1) \in Seq(T86Insn)
      BY <2>4, MadeTypes
    <3>2. Fits(x, s, at, pos - 1, k + 1) /\ s \in Seq(T86Insn)
      BY <2>3, <2>5
    <3> HIDE DEF x, s
    <3>3. \E at2 : Fits(x, s \o Made(x[(pos - 1) + 1], k + 1), at2, (pos - 1) + 1, k + 1)
      BY <2>2, <3>1, <3>2, FitsOn
    <3>4. QED
      BY <2>2, <2>4, <3>3 DEF x, s
  <2>7. QED
    BY <1>4, <2>1, <2>6 DEF Adds
<1>5. QED
  BY <1>3, <1>4

LEMMA AdvancesTo ==
  ASSUME IInv, cur # Null, Advance
  PROVE  /\ UNCHANGED <<code, bbs, fun>> /\ pos' = pos + 1 /\ pos \in Nat \ {0}
         /\ cur' # Null => cur' = cur /\ pos' - 1 = pos
         /\ cur' = Null => pos = Len(code[cur])
  BY DEF IInv, TypeOK, Advance, Null

LEMMA VisitLays ==
  ASSUME IInv, Falling, Layout, VisitOrdinary \/ VisitCALL \/ VisitJMP \/ VisitBR
  PROVE  Layout'
<1>1. cur # Null /\ ~VisitReturn
  BY DEF VisitOrdinary, VisitCALL, VisitJMP, VisitBR, VisitReturn, Visit, TerminatorOps
<1>2. PICK n \in Nat : n = Len(text) /\ n # 0
  BY DEF IInv, TypeOK, Position
<1>3. /\ Adds(Made(insn, n + 1)) /\ Len(text') = n
      /\ Advance /\ insn.op \notin Returns
  BY <1>1, <1>2, VisitAdds
<1>4. TextKept /\ Block' = Block
  BY <1>1, StepKeepsText, NamesStay DEF Next, Step
<1>5. /\ UNCHANGED <<code, bbs, fun>>
      /\ cur' # Null => cur' = cur /\ pos' - 1 = pos
      /\ cur' = Null => pos = Len(code[cur])
  BY <1>1, <1>3, AdvancesTo
<1>6. text[n].label = BlockLabel(cur) /\ cur \in Block
  BY <1>1, <1>2 DEF Falling, LastBlockIsCur, IInv, TypeOK
<1>7. BlocksFit'
  <2> SUFFICES ASSUME NEW k \in 1..n, NEW b \in Block, text'[k].label = BlockLabel(b)
               PROVE  \E at : Fits(code[b], text'[k].insns, at, Reached(b, k)', k + 1)
    BY <1>3, <1>4, <1>5 DEF BlocksFit
  <2>1. \/ k # n /\ \E at : Fits(code[b], text'[k].insns, at, Len(code[b]), k + 1)
        \/ k = n /\ b = cur /\ \E at : Fits(code[b], text'[k].insns, at, pos, k + 1)
    BY <1>1, <1>2, <1>3, <1>4, VisitFits
  <2>2. Reached(b, k)' = IF k = n /\ cur' # Null THEN pos' - 1 ELSE Len(code[b])
    BY <1>3, <1>5 DEF Reached
  <2>3. k # n => Reached(b, k)' = Len(code[b])
    BY <2>2
  <2>4. k = n /\ b = cur => Reached(b, k)' = pos
    BY <1>5, <2>2
  <2>5. QED
    BY <2>1, <2>3, <2>4, Zenon
<1>8. EpiloguesFit'
  <2>1. Fun' = Fun /\ n # 1
    BY <1>2, <1>5, <1>6, LabelsDiffer DEF Layout, EpiloguesFit, Fun
  <2>2. /\ text'[1].fun = Null /\ text'[1].label = FreshLabel(1)
        /\ \E m \in Fun : text'[1].insns = GlobalMain(m).insns
    <3>1. 1 \in 1..n
      BY <1>2
    <3>2. QED
      BY <1>2, <1>3, <2>1, <3>1 DEF Layout, EpiloguesFit, Adds
  <2>3. ASSUME NEW k \in 2..n, text'[k].label = FreshLabel(k) PROVE text'[k].insns = Epilogue
    <3>1. k \in 1..n /\ text[k].label = FreshLabel(k)
      BY <1>2, <1>3, <2>3 DEF Adds
    <3>2. k # n
      BY <1>6, <3>1, LabelsDiffer
    <3>3. QED
      BY <1>2, <1>3, <3>1, <3>2 DEF Layout, EpiloguesFit, Adds
  <2>4. ASSUME NEW k \in 1..n, NEW b \in Block, text'[k].label = BlockLabel(b),
               code[b][Len(code[b])].op \in Returns, k = n => cur' = Null
        PROVE  k + 1 \in 1..n /\ text'[k + 1].label = FreshLabel(k + 1)
    <3>1. text[k].label = BlockLabel(b)
      BY <1>2, <1>4, <2>4 DEF TextKept
    <3>2. CASE k # n
      <4>1. k + 1 \in 1..n /\ text[k + 1].label = FreshLabel(k + 1)
        BY <1>2, <2>4, <3>1, <3>2 DEF Layout, EpiloguesFit
      <4>2. QED
        BY <1>2, <1>4, <4>1 DEF TextKept
    <3>3. CASE k = n
      <4>1. b = cur /\ pos = Len(code[cur])
        BY <1>5, <1>6, <2>4, <3>1, <3>3, LabelsDiffer
      <4>2. QED
        BY <1>3, <2>4, <4>1 DEF insn
    <3>4. QED
      BY <3>2, <3>3
  <2>5. QED
    BY <1>3, <1>4, <1>5, <2>1, <2>2, <2>3, <2>4 DEF EpiloguesFit
<1>9. FunctionsFit'
  <2>1. /\ \A k \in 1..n : text'[k].fun = text[k].fun /\ text'[k].label = text[k].label
        /\ \A f : start(f)' = start(f)
    BY <1>2, <1>3, <1>5 DEF Adds, start
  <2>2. ASSUME NEW k \in 2..n, text'[k].fun # text'[k - 1].fun
        PROVE  text'[k].label = BlockLabel(start(text'[k].fun))
    <3>1. k \in 1..n /\ k - 1 \in 1..n
      BY <1>2
    <3>2. QED
      BY <1>2, <2>1, <2>2, <3>1 DEF Layout, FunctionsFit
  <2>3. text'[n].fun = fun
    <3>1. n \in 1..n /\ fun # Null
      BY <1>1, <1>2 DEF IInv, Position
    <3>2. QED
      BY <1>1, <1>2, <2>1, <3>1 DEF Layout, FunctionsFit
  <2>4. QED
    BY <1>3, <1>5, <2>1, <2>2, <2>3 DEF FunctionsFit
<1>10. NamedInTime'
  BY <1>2, <1>3, <1>4, NamedKept
<1>11. QED
  BY <1>7, <1>8, <1>9, <1>10 DEF Layout
LEMMA ReturnLays ==
  ASSUME IInv, Falling, Layout, VisitReturn
  PROVE  Layout'
<1>1. cur # Null
  BY DEF VisitReturn, Visit
<1>2. PICK n \in Nat : n = Len(text) /\ n # 0
  BY DEF IInv, TypeOK, Position
<1>3. /\ Adds(Made(insn, n + 1)) /\ Len(text') = n + 1
      /\ text'[n + 1].fun = fun /\ text'[n + 1].label = FreshLabel(n + 1)
      /\ text'[n + 1].insns = Epilogue
      /\ Advance /\ insn.op \in Returns
  BY <1>1, <1>2, ReturnAdds DEF NewBlock
<1>4. TextKept /\ Block' = Block
  BY <1>1, StepKeepsText, NamesStay DEF Next, Step
<1>5. UNCHANGED <<code, bbs, fun>> /\ pos = Len(code[cur]) /\ cur' = Null
  BY <1>1, <1>3, AdvancesTo, TargetFacts DEF Returns, IsTerminator, TerminatorOps, Advance
<1>6. text[n].label = BlockLabel(cur) /\ cur \in Block
  BY <1>1, <1>2 DEF Falling, LastBlockIsCur, IInv, TypeOK
<1>7. \A k \in 1..(n + 1) : k \in 1..n \/ k = n + 1
  BY <1>2
<1>8. BlocksFit'
  <2> SUFFICES ASSUME NEW k \in 1..(n + 1), NEW b \in Block, text'[k].label = BlockLabel(b)
               PROVE  \E at : Fits(code[b], text'[k].insns, at, Reached(b, k)', k + 1)
    BY <1>3, <1>4, <1>5 DEF BlocksFit
  <2>1. k \in 1..n
    BY <1>3, <1>7, LabelsDiffer
  <2>2. \/ k # n /\ \E at : Fits(code[b], text'[k].insns, at, Len(code[b]), k + 1)
        \/ k = n /\ b = cur /\ \E at : Fits(code[b], text'[k].insns, at, pos, k + 1)
    BY <1>1, <1>2, <1>3, <1>4, <2>1, VisitFits
  <2>3. Reached(b, k)' = Len(code[b])
    BY <1>5 DEF Reached
  <2>4. QED
    BY <1>5, <2>2, <2>3
<1>9. EpiloguesFit'
  <2>1. Fun' = Fun /\ n # 1
    BY <1>2, <1>5, <1>6, LabelsDiffer DEF Layout, EpiloguesFit, Fun
  <2>2. /\ text'[1].fun = Null /\ text'[1].label = FreshLabel(1)
        /\ \E m \in Fun : text'[1].insns = GlobalMain(m).insns
    <3>1. 1 \in 1..n
      BY <1>2
    <3>2. QED
      BY <1>2, <1>3, <2>1, <3>1 DEF Layout, EpiloguesFit, Adds
  <2>3. ASSUME NEW k \in 2..(n + 1), text'[k].label = FreshLabel(k) PROVE text'[k].insns = Epilogue
    <3>1. CASE k = n + 1
      BY <1>3, <3>1
    <3>2. CASE k # n + 1
      <4>1. k \in 1..n /\ text[k].label = FreshLabel(k)
        BY <1>2, <1>3, <2>3, <3>2 DEF Adds
      <4>2. k # n
        BY <1>6, <4>1, LabelsDiffer
      <4>3. QED
        BY <1>2, <1>3, <4>1, <4>2 DEF Layout, EpiloguesFit, Adds
    <3>3. QED
      BY <3>1, <3>2
  <2>4. ASSUME NEW k \in 1..(n + 1), NEW b \in Block, text'[k].label = BlockLabel(b),
               code[b][Len(code[b])].op \in Returns
        PROVE  k + 1 \in 1..(n + 1) /\ text'[k + 1].label = FreshLabel(k + 1)
    <3>1. k \in 1..n
      BY <1>3, <1>7, <2>4, LabelsDiffer
    <3>2. text[k].label = BlockLabel(b)
      BY <1>2, <1>4, <2>4, <3>1 DEF TextKept
    <3>3. CASE k # n
      <4>1. k + 1 \in 1..n /\ text[k + 1].label = FreshLabel(k + 1)
        BY <1>2, <2>4, <3>1, <3>2, <3>3 DEF Layout, EpiloguesFit
      <4>2. QED
        BY <1>2, <1>4, <4>1 DEF TextKept
    <3>4. CASE k = n
      BY <1>2, <1>3, <3>4
    <3>5. QED
      BY <3>3, <3>4
  <2>5. QED
    BY <1>3, <1>4, <1>5, <2>1, <2>2, <2>3, <2>4 DEF EpiloguesFit
<1>10. FunctionsFit'
  <2>1. /\ \A k \in 1..n : text'[k].fun = text[k].fun /\ text'[k].label = text[k].label
        /\ \A f : start(f)' = start(f)
    BY <1>2, <1>3, <1>5 DEF Adds, start
  <2>2. text'[n].fun = fun
    <3>1. n \in 1..n /\ fun # Null
      BY <1>1, <1>2 DEF IInv, Position
    <3>2. QED
      BY <1>1, <1>2, <2>1, <3>1 DEF Layout, FunctionsFit
  <2>3. ASSUME NEW k \in 2..(n + 1), text'[k].fun # text'[k - 1].fun
        PROVE  text'[k].label = BlockLabel(start(text'[k].fun))
    <3>1. k # n + 1
      BY <1>2, <1>3, <2>2, <2>3
    <3>2. k \in 1..n /\ k - 1 \in 1..n
      BY <1>2, <3>1
    <3>3. QED
      BY <1>2, <2>1, <2>3, <3>2 DEF Layout, FunctionsFit
  <2>4. QED
    BY <1>3, <1>5, <2>1, <2>3 DEF FunctionsFit
<1>11. NamedInTime'
  <2> SUFFICES ASSUME NEW k \in 1..(n + 1), NEW b \in Block, text'[k].label = BlockLabel(b)
               PROVE  b \in NamedBefore(k)'
    BY <1>3, <1>4 DEF NamedInTime
  <2>1. k \in 1..n
    BY <1>3, <1>7, LabelsDiffer
  <2>2. text[k].label = BlockLabel(b)
    BY <1>2, <1>4, <2>1 DEF TextKept
  <2>3. b \in NamedBefore(k)
    BY <1>2, <2>1, <2>2 DEF Layout, NamedInTime
  <2>4. k \in 1..(Len(text) + 1) /\ k \in Nat /\ k <= k
    BY <1>2, <2>1
  <2>5. QED
    BY <1>4, <2>3, <2>4, NamesStay
<1>12. QED
  BY <1>8, <1>9, <1>10, <1>11 DEF Layout

LEMMA EnterBlockLays ==
  ASSUME IInv, Falling, Layout, EnterBlock
  PROVE  Layout'
<1>1. PICK n \in Nat : n = Len(text) /\ n # 0
  BY DEF IInv, TypeOK, Position
<1>2. /\ fun # Null /\ cur = Null /\ bbWorklist # <<>> /\ cur' = Head(bbWorklist) /\ pos' = 1
      /\ text' = Append(text, NewBlock(fun, BlockLabel(cur'), <<>>))
      /\ UNCHANGED <<code, bbs, fun, bbVisited, funWorklist, funVisited>>
  BY DEF EnterBlock
<1>3. TextKept /\ Block' = Block /\ Fun' = Fun /\ \A f : start(f)' = start(f)
  BY <1>2, StepKeepsText, NamesStay DEF Next, Step, Fun, start
<1>4. /\ Len(text') = n + 1 /\ \A k \in 1..n : text'[k] = text[k]
      /\ text'[n + 1].fun = fun /\ text'[n + 1].label = BlockLabel(cur') /\ text'[n + 1].insns = <<>>
  <2>1. text \in Seq(TextBlock)
    BY DEF IInv, TypeOK
  <2>2. QED
    BY <1>1, <1>2, <2>1 DEF NewBlock
<1>5. cur' \in Block /\ cur' \in bbVisited /\ cur' # Null
  <2>1. cur' \in Waiting /\ cur' \in Block
    BY <1>2, Unqueue DEF Waiting, IInv, TypeOK
  <2>2. QED
    BY <2>1 DEF IInv, EachBlockOnce, Block, Null
<1>6. \A k \in 1..(n + 1) : k \in 1..n \/ k = n + 1
  BY <1>1
<1>7. BlocksFit'
  <2> SUFFICES ASSUME NEW k \in 1..(n + 1), NEW b \in Block, text'[k].label = BlockLabel(b)
               PROVE  \E at : Fits(code[b], text'[k].insns, at, Reached(b, k)', k + 1)
    BY <1>2, <1>3, <1>4 DEF BlocksFit
  <2>1. CASE k = n + 1
    <3>1. Reached(b, k)' = 0 /\ text'[k].insns = <<>>
      BY <1>2, <1>4, <1>5, <2>1 DEF Reached
    <3>2. QED
      BY <3>1, FitsNone
  <2>2. CASE k \in 1..n
    <3>1. Reached(b, k) = Len(code[b]) /\ Reached(b, k)' = Len(code[b])
      BY <1>1, <1>2, <1>4, <2>2 DEF Reached
    <3>2. \E at : Fits(code[b], text[k].insns, at, Reached(b, k), k + 1)
      BY <1>1, <1>4, <2>2 DEF Layout, BlocksFit
    <3>3. QED
      BY <1>4, <2>2, <3>1, <3>2
  <2>3. QED
    BY <1>6, <2>1, <2>2
<1>8. EpiloguesFit'
  <2>1. /\ text'[1].fun = Null /\ text'[1].label = FreshLabel(1)
        /\ \E m \in Fun : text'[1].insns = GlobalMain(m).insns
    <3>1. 1 \in 1..n
      BY <1>1
    <3>2. QED
      BY <1>4, <3>1 DEF Layout, EpiloguesFit
  <2>2. ASSUME NEW k \in 2..(n + 1), text'[k].label = FreshLabel(k) PROVE text'[k].insns = Epilogue
    <3>1. k # n + 1
      BY <1>4, <2>2, LabelsDiffer
    <3>2. k \in 2..n /\ k \in 1..n
      BY <1>1, <3>1
    <3>3. QED
      BY <1>1, <1>4, <2>2, <3>2 DEF Layout, EpiloguesFit
  <2>3. ASSUME NEW k \in 1..(n + 1), NEW b \in Block, text'[k].label = BlockLabel(b),
               code[b][Len(code[b])].op \in Returns, k = n + 1 => cur' = Null
        PROVE  k + 1 \in 1..(n + 1) /\ text'[k + 1].label = FreshLabel(k + 1)
    <3>1. k \in 1..n
      BY <1>5, <1>6, <2>3
    <3>2. k + 1 \in 1..n /\ text[k + 1].label = FreshLabel(k + 1)
      BY <1>1, <1>2, <1>4, <2>3, <3>1 DEF Layout, EpiloguesFit
    <3>3. QED
      BY <1>1, <1>4, <3>2
  <2>4. QED
    BY <1>2, <1>3, <1>4, <2>1, <2>2, <2>3 DEF EpiloguesFit
<1>9. FunctionsFit'
  <2>1. ASSUME NEW k \in 2..(n + 1), text'[k].fun # text'[k - 1].fun
        PROVE  text'[k].label = BlockLabel(start(text'[k].fun))
    <3>1. CASE k = n + 1
      <4>1. text[n].fun # fun
        BY <1>1, <1>4, <2>1, <3>1
      <4>2. bbWorklist = <<start(fun)>>
        BY <1>1, <1>2, <4>1 DEF Layout, FunctionsFit
      <4>3. cur' = start(fun)
        BY <1>2, <4>2
      <4>4. QED
        BY <1>4, <3>1, <4>3
    <3>2. CASE k # n + 1
      <4>1. k \in 2..n /\ k \in 1..n /\ k - 1 \in 1..n
        BY <1>1, <3>2
      <4>2. QED
        BY <1>1, <1>4, <2>1, <4>1 DEF Layout, FunctionsFit
    <3>3. QED
      BY <3>1, <3>2
  <2>2. QED
    BY <1>2, <1>3, <1>4, <2>1 DEF FunctionsFit
<1>10. NamedInTime'
  <2> SUFFICES ASSUME NEW k \in 1..(n + 1), NEW b \in Block, text'[k].label = BlockLabel(b)
               PROVE  b \in NamedBefore(k)'
    BY <1>3, <1>4 DEF NamedInTime
  <2>1. k \in 1..(Len(text) + 1) /\ k \in Nat /\ k <= k
    BY <1>1
  <2>2. b \in NamedBefore(k)
    <3>1. CASE k = n + 1
      <4>1. b = cur'
        BY <1>4, <3>1, LabelsDiffer
      <4>2. QED
        BY <1>1, <1>2, <1>5, <3>1, <4>1 DEF Falling, VisitedWereNamed
    <3>2. CASE k \in 1..n
      BY <1>1, <1>4, <3>2 DEF Layout, NamedInTime
    <3>3. QED
      BY <1>6, <3>1, <3>2
  <2>3. QED
    BY <1>3, <2>1, <2>2, NamesStay
<1>11. QED
  BY <1>7, <1>8, <1>9, <1>10 DEF Layout

(* Between functions the text stays as it is. *)
LEMMA FunctionLays ==
  ASSUME IInv, Falling, Layout, EnterFunction \/ LeaveFunction
  PROVE  Layout'
<1>1. /\ cur = Null /\ cur' = Null /\ bbWorklist = <<>> /\ text' = text
      /\ TextKept /\ UNCHANGED <<code, bbs>>
  BY StepKeepsText DEF EnterFunction, LeaveFunction, Next, Step, IInv, Position
<1>2. Block' = Block /\ Fun' = Fun /\ \A f : start(f)' = start(f)
  BY <1>1 DEF Block, Fun, start
<1>3. BlocksFit'
  BY <1>1, <1>2 DEF Layout, BlocksFit, Reached
<1>4. EpiloguesFit'
  BY <1>1, <1>2 DEF Layout, EpiloguesFit
<1>5. fun' # Null => bbWorklist' = <<start(fun')>>
  <2> SUFFICES ASSUME EnterFunction PROVE bbWorklist' = <<start(fun')>>
    BY DEF LeaveFunction
  <2>1. /\ funWorklist # <<>> /\ fun' = Head(funWorklist)
        /\ bbWorklist' = addToWorklistBack(bbWorklist, bbVisited, start(fun'))
    BY <1>2 DEF EnterFunction
  <2>2. fun' \in Fun /\ fun' \in Range(funWorklist)
    BY <2>1, Unqueue DEF IInv, TypeOK
  <2>3. start(fun') \notin bbVisited
    <3> SUFFICES ASSUME start(fun') \in bbVisited PROVE FALSE
      OBVIOUS
    <3>1. PICK g \in Entered : start(fun') \in Range(bbs[g])
      BY DEF IInv, Ownership
    <3>2. g \in Fun /\ g # fun'
      BY <2>2 DEF Entered, IInv, TypeOK
    <3>3. start(fun') \in Range(bbs[fun']) /\ Range(bbs[fun']) \cap Range(bbs[g]) = {}
      BY <2>2, <3>2, FunFacts DEF IInv
    <3>4. QED
      BY <3>1, <3>3
  <2>4. QED
    BY <1>1, <2>1, <2>3 DEF addToWorklistBack
<1>6. FunctionsFit'
  BY <1>1, <1>2, <1>5 DEF Layout, FunctionsFit
<1>7. NamedInTime'
  BY <1>1, NamedKept
<1>8. QED
  BY <1>3, <1>4, <1>6, <1>7 DEF Layout

LEMMA InitLays == Init => Layout
<1> SUFFICES ASSUME Init PROVE Layout
  OBVIOUS
<1>1. PICK m \in Fun : /\ text = <<GlobalMain(m)>> /\ cur = Null /\ fun = Null
  BY DEF Init, Start, Fun
<1>2. /\ Len(text) = 1 /\ text[1].fun = Null /\ text[1].label = FreshLabel(1)
      /\ text[1].insns = GlobalMain(m).insns
  BY <1>1 DEF GlobalMain, NewBlock
<1>3. \A k \in 1..1 : k = 1
  OBVIOUS
<1>4. \A k \in 1..1 : \A b : text[k].label # BlockLabel(b)
  BY <1>2, <1>3, LabelsDiffer
<1>5. 2..1 = {}
  OBVIOUS
<1>6. QED
  BY <1>1, <1>2, <1>4, <1>5
  DEF Layout, BlocksFit, EpiloguesFit, FunctionsFit, NamedInTime

LEMMA NextLays == IInv /\ Falling /\ Layout /\ [Next]_vars => Layout'
<1> SUFFICES ASSUME IInv, Falling, Layout, [Next]_vars PROVE Layout'
  OBVIOUS
<1>1. CASE UNCHANGED vars
  BY <1>1 DEF vars, Layout, BlocksFit, EpiloguesFit, FunctionsFit, NamedInTime, Reached,
              NamedBefore, Block, Fun, start
<1>2. QED
  BY <1>1, VisitLays, ReturnLays, EnterBlockLays, FunctionLays DEF Next, Step, Stopped

(* Every block of the text is the code of the block its label names, in the  *)
(* same order; a return has its epilogue right behind; the blocks of a       *)
(* function are together, with the block its calls name in front; and each  *)
(* block was named by the text before it.                                  *)
THEOREM TextFollowsBlocks == Spec => []Layout
<1>1. Init => Falling
  BY InitFalling
<1>2. IInv /\ Falling /\ [Next]_vars => Falling'
  BY NextFalls
<1>3. QED
  BY <1>1, <1>2, InitLays, NextLays, Invariance, PTL DEF Spec
=============================================================================
