--------------------------- MODULE MiddleEnd_proofs ---------------------------
(***************************************************************************)
(* Proofs about MiddleEnd, for every set of well-formed programs.          *)
(*                                                                         *)
(* The invariant says what a round may have done to the blocks so far: each *)
(* instruction is the one of the input with other targets, each target is  *)
(* still a block, and after a round that changed nothing no target is a    *)
(* jump-only block.                                                        *)
(***************************************************************************)
EXTENDS MiddleEnd, TLAPS

JumpOnly == {b \in Block : IsJumpOnly(input[b])}

SameShape ==
  \A b \in Block :
    /\ Len(code[b]) = Len(input[b])
    /\ \A i \in 1..Len(input[b]) :
         /\ code[b][i].op = input[b][i].op
         /\ Targets(code[b][i]) \subseteq Block

Collected ==
  /\ pass = "identify" => code = input
  /\ pass # "identify" => redundantBlocks = [b \in JumpOnly |-> input[b][1].target1]
  /\ blocks = IF pass = "done" THEN Block \ JumpOnly ELSE Block

Settled ==
  (pass = "redirect" /\ ~changed) \/ pass = "done" =>
    \A b \in Block : \A i \in 1..Len(code[b]) : Targets(code[b][i]) \cap JumpOnly = {}

IInv == TypeOK /\ SameShape /\ Collected /\ Settled

(* A well-formed program names only its own blocks, wherever the terminator *)
(* is looked for.                                                          *)
LEMMA InputTargets ==
  ASSUME NEW p \in Seq(Seq(Insn)), WellFormed(p), NEW b \in 1..Len(p), NEW i \in 1..Len(p[b])
  PROVE  Targets(p[b][i]) \subseteq 1..Len(p)
<1>1. CASE IsTerminator(p[b][i])
  <2>1. i = Len(p[b])
    BY <1>1 DEF WellFormed, WellFormedBlock, OneTerminatorLast
  <2>2. QED
    BY <2>1 DEF WellFormed, WellFormedBlock, Successors
<1>2. CASE ~IsTerminator(p[b][i])
  BY <1>2 DEF IsTerminator, TerminatorOps, Targets
<1>3. QED
  BY <1>1, <1>2

(* What the pass finds in a jump-only block of a well-formed program. *)
LEMMA JumpOnlyTarget ==
  ASSUME NEW p \in Seq(Seq(Insn)), WellFormed(p), NEW b \in 1..Len(p), IsJumpOnly(p[b])
  PROVE  p[b][1].target1 \in 1..Len(p)
<1>1. 1 \in 1..Len(p[b]) /\ p[b][1].op = "JMP"
  BY DEF IsJumpOnly
<1>2. Targets(p[b][1]) \subseteq 1..Len(p)
  BY <1>1, InputTargets
<1>3. QED
  BY <1>1, <1>2 DEF Targets

(* Redirecting an instruction changes nothing but targets, by the map. *)
LEMMA RedirectInsn ==
  ASSUME NEW i \in Insn, redundantBlocks \in [DOMAIN redundantBlocks -> Nat]
  PROVE  /\ redirectInsn(i) \in Insn
         /\ redirectInsn(i).op = i.op
         /\ Targets(redirectInsn(i)) = {redirect(b) : b \in Targets(i)}
<1>1. \A b \in Nat : redirect(b) \in Nat
  BY DEF redirect
<1>2. CASE i.op = "JMP"
  BY <1>1, <1>2 DEF redirectInsn, Insn, Targets
<1>3. CASE i.op = "BR"
  BY <1>1, <1>3 DEF redirectInsn, Insn, Targets
<1>4. CASE i.op \notin {"JMP", "BR"}
  BY <1>4 DEF redirectInsn, Targets
<1>5. QED
  BY <1>2, <1>3, <1>4

LEMMA InitInv == Init => IInv
<1> SUFFICES ASSUME Init PROVE IInv
  OBVIOUS
<1>1. input \in Seq(Seq(Insn)) /\ WellFormed(input)
  BY InputsAssumption DEF Init
<1>2. TypeOK
  BY <1>1 DEF Init, TypeOK, Block
<1>3. SameShape
  BY <1>1, InputTargets DEF Init, SameShape, Block
<1>4. Collected /\ Settled
  BY DEF Init, Collected, Settled, Block
<1>5. QED
  BY <1>2, <1>3, <1>4 DEF IInv

LEMMA IdentifyInv == IInv /\ Identify => IInv'
<1> SUFFICES ASSUME IInv, Identify PROVE IInv'
  OBVIOUS
<1> USE DEF IInv
<1>1. input \in Seq(Seq(Insn)) /\ WellFormed(input)
  BY InputsAssumption DEF TypeOK
<1>2. code = input /\ blocks = Block
  BY DEF Identify, Collected
<1>3. redundantBlocks' = [b \in JumpOnly |-> input[b][1].target1]
  BY <1>2 DEF Identify, JumpOnly
<1>4. \A b \in JumpOnly : input[b][1].target1 \in Block
  BY <1>1, JumpOnlyTarget DEF JumpOnly, Block
<1>5. redundantBlocks' \in [JumpOnly -> Block] /\ DOMAIN redundantBlocks' = JumpOnly
  BY <1>3, <1>4
<1>6. TypeOK'
  BY <1>5 DEF TypeOK, Identify, JumpOnly, Block
<1>7. SameShape'
  BY DEF SameShape, Identify, Block
<1>8. Collected'
  BY <1>2, <1>3 DEF Collected, Identify, JumpOnly, Block
<1>9. Settled'
  BY DEF Settled, Identify
<1>10. QED
  BY <1>6, <1>7, <1>8, <1>9

LEMMA RedirectInv == IInv /\ Redirect => IInv'
<1> SUFFICES ASSUME IInv, Redirect PROVE IInv'
  OBVIOUS
<1> USE DEF IInv
<1>1. /\ code \in Seq(Seq(Insn)) /\ Len(code) = Len(input)
      /\ input \in Seq(Seq(Insn))
  BY InputsAssumption DEF TypeOK
<1>2. /\ blocks = Block /\ pass = "redirect" /\ DOMAIN redundantBlocks = JumpOnly
      /\ redundantBlocks \in [JumpOnly -> Block]
  BY DEF Redirect, Collected, TypeOK
<1>3. redundantBlocks \in [DOMAIN redundantBlocks -> Nat]
  BY <1>2 DEF Block
<1>4. code' = [b \in Block |-> [i \in 1..Len(code[b]) |-> redirectInsn(code[b][i])]]
  BY <1>1, <1>2 DEF Redirect, Block
<1>5. ASSUME NEW b \in Block
      PROVE  /\ code[b] \in Seq(Insn)
             /\ code'[b] \in Seq(Insn)
             /\ Len(code'[b]) = Len(code[b])
             /\ \A i \in 1..Len(code[b]) : code'[b][i] = redirectInsn(code[b][i])
  <2>1. code[b] \in Seq(Insn)
    BY <1>1 DEF Block
  <2>2. code'[b] = [i \in 1..Len(code[b]) |-> redirectInsn(code[b][i])]
    BY <1>4
  <2>3. \A i \in 1..Len(code[b]) : redirectInsn(code[b][i]) \in Insn
    BY <2>1, <1>3, RedirectInsn
  <2>4. QED
    BY <2>1, <2>2, <2>3
<1>6. code' \in Seq(Seq(Insn)) /\ Len(code') = Len(input)
  <2>1. Len(input) \in Nat /\ code' = [b \in 1..Len(input) |-> code'[b]]
    BY <1>1, <1>4 DEF Block
  <2>2. \A b \in 1..Len(input) : code'[b] \in Seq(Insn)
    BY <1>5 DEF Block
  <2>3. QED
    BY <2>1, <2>2
<1>7. TypeOK'
  BY <1>6 DEF TypeOK, Redirect, Block
<1>8. ASSUME NEW b \in Block, NEW i \in 1..Len(code[b])
      PROVE  /\ code'[b][i].op = code[b][i].op
             /\ Targets(code'[b][i]) = {redirect(c) : c \in Targets(code[b][i])}
  BY <1>3, <1>5, RedirectInsn
<1>9. \A c \in Block : redirect(c) \in Block
  BY <1>2 DEF redirect
<1>10. SameShape'
  <2> SUFFICES ASSUME NEW b \in Block
               PROVE  /\ Len(code'[b]) = Len(input[b])
                      /\ \A i \in 1..Len(input[b]) :
                           /\ code'[b][i].op = input[b][i].op
                           /\ Targets(code'[b][i]) \subseteq Block
    <3>1. input' = input /\ Block' = Block
      BY DEF Redirect, Block
    <3>2. QED
      BY <3>1 DEF SameShape
  <2>1. Len(code[b]) = Len(input[b]) /\ Len(code'[b]) = Len(code[b])
    BY <1>5 DEF SameShape
  <2>2. ASSUME NEW i \in 1..Len(input[b])
        PROVE  code'[b][i].op = input[b][i].op /\ Targets(code'[b][i]) \subseteq Block
    <3>1. code[b][i].op = input[b][i].op /\ Targets(code[b][i]) \subseteq Block
      BY DEF SameShape
    <3>2. code'[b][i].op = code[b][i].op
      BY <2>1, <1>8
    <3>3. Targets(code'[b][i]) = {redirect(c) : c \in Targets(code[b][i])}
      BY <2>1, <1>8
    <3>4. QED
      BY <3>1, <3>2, <3>3, <1>9
  <2>3. QED
    BY <2>1, <2>2
<1>11. Collected'
  BY DEF Collected, Redirect, Block, JumpOnly
<1>12. Settled'
  <2> SUFFICES ASSUME ~changed', NEW b \in Block, NEW i \in 1..Len(code'[b])
               PROVE  Targets(code'[b][i]) \cap JumpOnly = {}
    BY <1>2 DEF Settled, Redirect, Block, JumpOnly
  <2>1. i \in 1..Len(code[b])
    BY <1>5
  <2>2. Targets(code[b][i]) \cap JumpOnly = {}
    BY <2>1, <1>2 DEF Redirect, PointsToRedundant
  <2>3. {redirect(c) : c \in Targets(code[b][i])} = Targets(code[b][i])
    BY <2>2, <1>2 DEF redirect
  <2>4. QED
    BY <2>1, <2>2, <2>3, <1>8
<1>13. QED
  BY <1>7, <1>10, <1>11, <1>12

LEMMA EraseInv == IInv /\ Erase => IInv'
<1> SUFFICES ASSUME IInv, Erase PROVE IInv'
  OBVIOUS
<1> USE DEF IInv
<1>1. blocks = Block /\ DOMAIN redundantBlocks = JumpOnly
  BY DEF Erase, Collected
<1>2. TypeOK'
  BY <1>1 DEF TypeOK, Erase, Block
<1>3. SameShape' /\ Settled'
  BY DEF SameShape, Settled, Erase, Block, JumpOnly
<1>4. Collected'
  BY <1>1 DEF Collected, Erase, Block, JumpOnly
<1>5. QED
  BY <1>2, <1>3, <1>4

LEMMA StutterInv == IInv /\ UNCHANGED vars => IInv'
BY DEF IInv, TypeOK, SameShape, Collected, Settled, Block, JumpOnly, vars

(* The invariant holds throughout the pass. *)
LEMMA Invariance == Spec => []IInv
<1>1. IInv /\ [Next]_vars => IInv'
  BY IdentifyInv, RedirectInv, EraseInv, StutterInv DEF Next, Step, Stopped
<1>2. QED
  BY InitInv, <1>1, PTL DEF Spec

(* The variables keep their types: in particular every pointer collected or *)
(* written by the pass is a block of the program.                          *)
THEOREM TypeCorrect == Spec => []TypeOK
<1>1. IInv => TypeOK
  BY DEF IInv
<1>2. QED
  BY Invariance, <1>1, PTL

(* When the pass returns, no surviving block jumps or branches to a block   *)
(* that was freed.                                                         *)
THEOREM NoDangling == Spec => []NoDanglingTarget
<1>1. IInv => NoDanglingTarget
  <2> SUFFICES ASSUME IInv, pass = "done", NEW b \in blocks
               PROVE  Successors(code[b]) \subseteq blocks
    BY DEF NoDanglingTarget
  <2>1. blocks = Block \ JumpOnly
    BY DEF IInv, Collected
  <2>2. b \in Block /\ code[b] \in Seq(Insn) /\ Len(code[b]) = Len(input[b])
    BY <2>1 DEF IInv, TypeOK, SameShape, Block
  <2>3. ASSUME NEW i \in 1..Len(code[b])
        PROVE  Targets(code[b][i]) \subseteq Block \ JumpOnly
    BY <2>2 DEF IInv, SameShape, Settled
  <2>4. CASE terminated(code[b])
    <3>1. Len(code[b]) \in 1..Len(code[b])
      BY <2>2, <2>4 DEF terminated
    <3>2. QED
      BY <2>1, <2>3, <2>4, <3>1 DEF Successors
  <2>5. CASE ~terminated(code[b])
    BY <2>5 DEF Successors
  <2>6. QED
    BY <2>4, <2>5
<1>2. QED
  BY Invariance, <1>1, PTL

(***************************************************************************)
(* Where terminators lead.  A map f that resolves the jump-only blocks      *)
(* exists unless they form a cycle; for any such f a round keeps f of each  *)
(* target, because f(b) = f(redirect(b)).                                  *)
(***************************************************************************)
LEMMA RedirectKeepsDestination ==
  ASSUME IInv, Redirect, DestinationsKept PROVE DestinationsKept'
<1> SUFFICES ASSUME NEW f \in [Block -> Block], Resolves(f), NEW b \in Block
             PROVE  /\ Len(code'[b]) = Len(input[b])
                    /\ \A i \in 1..Len(code'[b]) : SameDestination(f, code'[b][i], input[b][i])
  <2>1. input' = input /\ Block' = Block
    BY DEF Redirect, Block
  <2>2. \A f : Resolves(f)' <=> Resolves(f)
    BY <2>1 DEF Resolves
  <2>3. QED
    BY <2>1, <2>2 DEF DestinationsKept, SameDestination
<1>1. /\ code[b] \in Seq(Insn) /\ Len(code[b]) = Len(input[b])
      /\ \A i \in 1..Len(code[b]) : SameDestination(f, code[b][i], input[b][i])
  BY DEF DestinationsKept, IInv, TypeOK, Block
<1>2. redundantBlocks = [c \in JumpOnly |-> input[c][1].target1] /\ blocks = Block
  BY DEF IInv, Collected, Redirect
<1>3. \A c \in Block : f[redirect(c)] = f[c]
  BY <1>2 DEF redirect, Resolves, JumpOnly
<1>4. code'[b] = [i \in 1..Len(code[b]) |-> redirectInsn(code[b][i])]
  BY <1>2 DEF Redirect, IInv, TypeOK, Block
<1>5. Len(code'[b]) = Len(code[b])
  BY <1>1, <1>4
<1>6. ASSUME NEW i \in 1..Len(code[b])
      PROVE  SameDestination(f, code'[b][i], input[b][i])
  <2>1. code'[b][i] = redirectInsn(code[b][i]) /\ code[b][i] \in Insn
    BY <1>1, <1>4
  <2>2. SameDestination(f, code[b][i], input[b][i]) /\ Targets(code[b][i]) \subseteq Block
    BY <1>1 DEF IInv, SameShape
  <2>3. CASE code[b][i].op = "JMP"
    BY <2>1, <2>2, <2>3, <1>3 DEF redirectInsn, SameDestination, Targets, Insn
  <2>4. CASE code[b][i].op = "BR"
    BY <2>1, <2>2, <2>4, <1>3 DEF redirectInsn, SameDestination, Targets, Insn
  <2>5. CASE code[b][i].op \notin {"JMP", "BR"}
    BY <2>1, <2>2, <2>5 DEF redirectInsn, SameDestination
  <2>6. QED
    BY <2>3, <2>4, <2>5
<1>7. QED
  BY <1>1, <1>5, <1>6

(* At every moment of the pass, following the jump-only blocks from the     *)
(* target of a terminator ends where it ended before the pass: redirecting  *)
(* round by round changes no destination, in whatever order chains of jumps *)
(* are met.                                                                *)
THEOREM DestinationsAreKept == Spec => []DestinationsKept
<1>1. Init => DestinationsKept
  BY DEF Init, DestinationsKept, SameDestination
<1>2. IInv /\ DestinationsKept /\ [Next]_vars => DestinationsKept'
  <2> SUFFICES ASSUME IInv, DestinationsKept, [Next]_vars PROVE DestinationsKept'
    OBVIOUS
  <2>1. CASE Redirect
    BY <2>1, RedirectKeepsDestination
  <2>2. CASE UNCHANGED <<input, code>>
    <3>1. input' = input /\ code' = code /\ Block' = Block
      BY <2>2 DEF Block
    <3>2. \A f : Resolves(f)' <=> Resolves(f)
      BY <3>1 DEF Resolves
    <3>3. QED
      BY <3>1, <3>2 DEF DestinationsKept, SameDestination
  <2>3. QED
    BY <2>1, <2>2 DEF Next, Step, Identify, Erase, Stopped, vars
<1>3. QED
  BY Invariance, <1>1, <1>2, PTL DEF Spec
-----------------------------------------------------------------------------
(***************************************************************************)
(* The refinement.  The jump-only blocks are redirected like the others, so *)
(* at the end the target of each is the block execution gets to: they are   *)
(* the map that JumpThreading asks for.                                    *)
(***************************************************************************)
Goto(b) == input[b][1].target1
Target(b) == code[b][1].target1
Next1(b) == IF b \in JumpOnly THEN Goto(b) ELSE b

(* A jump-only block is one jump behind the block it jumped to. *)
Chained ==
  \A b \in JumpOnly : IF Goto(b) \in JumpOnly THEN Target(Goto(b)) = Next1(Target(b))
                                             ELSE Target(b) = Goto(b)

(* Jumps that only lead to each other still do. *)
CyclesStay ==
  \A S \in SUBSET JumpOnly :
    (\A b \in S : Goto(b) \in S) => \A b \in S : Target(b) \in S

(* Nothing but the targets of jumps and branches is written. *)
OnlyRetargeted(i, j) ==
  CASE j.op = "JMP" -> i = [j EXCEPT !.target1 = i.target1]
    [] j.op = "BR"  -> i = [j EXCEPT !.target1 = i.target1, !.target2 = i.target2]
    [] OTHER        -> i = j

TargetsOnly ==
  \A b \in Block : \A i \in 1..Len(code[b]) : OnlyRetargeted(code[b][i], input[b][i])

RInv == IInv /\ DestinationsKept /\ Chained /\ CyclesStay /\ TargetsOnly

LEMMA InitRInv == Init => RInv
<1> SUFFICES ASSUME Init PROVE RInv
  OBVIOUS
<1>1. input \in Seq(Seq(Insn)) /\ code = input
  BY InputsAssumption DEF Init
<1>2. IInv /\ DestinationsKept
  BY InitInv DEF Init, DestinationsKept, SameDestination
<1>3. Chained /\ CyclesStay
  BY <1>1 DEF Chained, CyclesStay, Goto, Target, Next1
<1>4. TargetsOnly
  <2> SUFFICES ASSUME NEW b \in Block, NEW i \in 1..Len(input[b])
               PROVE  OnlyRetargeted(input[b][i], input[b][i])
    BY <1>1 DEF TargetsOnly
  <2>1. input[b][i] \in Insn
    BY <1>1 DEF Block
  <2>2. QED
    BY <2>1 DEF OnlyRetargeted, Insn
<1>5. QED
  BY <1>2, <1>3, <1>4 DEF RInv

(* What a round does to the target of a jump-only block. *)
LEMMA RedirectJumpOnly ==
  ASSUME IInv, Redirect, NEW b \in JumpOnly
  PROVE  Target(b)' = Next1(Target(b)) /\ Target(b) \in Block /\ Goto(b) \in Block
<1>1. /\ redundantBlocks = [c \in JumpOnly |-> Goto(c)] /\ blocks = Block
      /\ redundantBlocks \in [JumpOnly -> Block]
  BY DEF IInv, TypeOK, Collected, Redirect, Goto
<1>2. /\ b \in Block /\ code[b] \in Seq(Insn) /\ Len(code[b]) = 1 /\ 1 \in 1..Len(code[b])
      /\ 1 \in 1..Len(input[b]) /\ input[b][1].op = "JMP"
  BY DEF IInv, TypeOK, SameShape, JumpOnly, IsJumpOnly, Block
<1>3. code[b][1].op = "JMP" /\ code[b][1] \in Insn
  BY <1>2 DEF IInv, SameShape
<1>4. Targets(code[b][1]) \subseteq Block
  BY <1>2 DEF IInv, SameShape
<1>5. code'[b][1] = redirectInsn(code[b][1])
  BY <1>1, <1>2 DEF Redirect, IInv, TypeOK, Block
<1>6. code'[b][1].target1 = redirect(code[b][1].target1)
  BY <1>3, <1>5 DEF redirectInsn, Insn
<1>7. redirect(code[b][1].target1) = Next1(Target(b))
  BY <1>1 DEF redirect, Next1, Target
<1>8. QED
  BY <1>1, <1>2, <1>3, <1>4, <1>6, <1>7 DEF Target, Targets

LEMMA RedirectRInv == RInv /\ Redirect => RInv'
<1> SUFFICES ASSUME RInv, Redirect PROVE RInv'
  OBVIOUS
<1>1. IInv' /\ DestinationsKept'
  BY RedirectInv, RedirectKeepsDestination DEF RInv
<1>2. input' = input /\ Block' = Block /\ JumpOnly' = JumpOnly
  BY DEF Redirect, Block, JumpOnly
<1>3. \A b \in JumpOnly : Target(b)' = Next1(Target(b)) /\ Target(b) \in Block /\ Goto(b) \in Block
  BY RedirectJumpOnly DEF RInv
<1>4. Chained'
  <2> SUFFICES ASSUME NEW b \in JumpOnly
               PROVE  IF Goto(b) \in JumpOnly THEN Target(Goto(b))' = Next1(Target(b)')
                                              ELSE Target(b)' = Goto(b)
    BY <1>2 DEF Chained, Goto, Next1, Target
  <2>1. CASE Goto(b) \in JumpOnly
    <3>1. Target(Goto(b)) = Next1(Target(b))
      BY <2>1 DEF RInv, Chained
    <3>2. Target(Goto(b))' = Next1(Target(Goto(b))) /\ Target(b)' = Next1(Target(b))
      BY <1>2, <1>3, <2>1 DEF Target, Goto
    <3>3. QED
      BY <2>1, <3>1, <3>2
  <2>2. CASE Goto(b) \notin JumpOnly
    <3>1. Target(b) = Goto(b)
      BY <2>2 DEF RInv, Chained
    <3>2. QED
      BY <2>2, <3>1, <1>3 DEF Next1
  <2>3. QED
    BY <2>1, <2>2
<1>5. CyclesStay'
  <2> SUFFICES ASSUME NEW S \in SUBSET JumpOnly, \A c \in S : Goto(c) \in S, NEW b \in S
               PROVE  Target(b)' \in S
    BY <1>2 DEF CyclesStay, Goto, Target
  <2>1. Target(b) \in S
    BY DEF RInv, CyclesStay
  <2>2. QED
    BY <2>1, <1>3 DEF Next1
<1>6. TargetsOnly'
  <2> SUFFICES ASSUME NEW b \in Block, NEW i \in 1..Len(code'[b])
               PROVE  OnlyRetargeted(code'[b][i], input[b][i])
    BY <1>2 DEF TargetsOnly
  <2>1. blocks = Block /\ code[b] \in Seq(Insn) /\ Len(code[b]) = Len(input[b])
        /\ input[b] \in Seq(Insn)
    BY InputsAssumption DEF RInv, IInv, TypeOK, SameShape, Collected, Redirect, Block
  <2>2. code'[b] = [j \in 1..Len(code[b]) |-> redirectInsn(code[b][j])]
    BY <2>1 DEF Redirect, RInv, IInv, TypeOK, Block
  <2>3. i \in 1..Len(code[b]) /\ code'[b][i] = redirectInsn(code[b][i])
    BY <2>1, <2>2
  <2>4. code[b][i] \in Insn /\ input[b][i] \in Insn
    BY <2>1, <2>3
  <2>5. OnlyRetargeted(code[b][i], input[b][i]) /\ code[b][i].op = input[b][i].op
    BY <2>1, <2>3 DEF RInv, TargetsOnly, IInv, SameShape
  <2>6. CASE input[b][i].op = "JMP"
    <3>1. code'[b][i] = [code[b][i] EXCEPT !.target1 = redirect(code[b][i].target1)]
      BY <2>3, <2>5, <2>6 DEF redirectInsn
    <3>2. code[b][i] = [input[b][i] EXCEPT !.target1 = code[b][i].target1]
      BY <2>5, <2>6 DEF OnlyRetargeted
    <3>3. code'[b][i] = [input[b][i] EXCEPT !.target1 = code'[b][i].target1]
      BY <2>4, <3>1, <3>2 DEF Insn
    <3>4. QED
      BY <2>6, <3>3 DEF OnlyRetargeted
  <2>7. CASE input[b][i].op = "BR"
    <3>1. code'[b][i] = [code[b][i] EXCEPT !.target1 = redirect(code[b][i].target1),
                                          !.target2 = redirect(code[b][i].target2)]
      BY <2>3, <2>5, <2>7 DEF redirectInsn
    <3>2. code[b][i] = [input[b][i] EXCEPT !.target1 = code[b][i].target1,
                                           !.target2 = code[b][i].target2]
      BY <2>5, <2>7 DEF OnlyRetargeted
    <3>3. code'[b][i] = [input[b][i] EXCEPT !.target1 = code'[b][i].target1,
                                            !.target2 = code'[b][i].target2]
      BY <2>4, <3>1, <3>2 DEF Insn
    <3>4. QED
      BY <2>7, <3>3 DEF OnlyRetargeted
  <2>8. CASE input[b][i].op \notin {"JMP", "BR"}
    BY <2>3, <2>5, <2>8 DEF OnlyRetargeted, redirectInsn
  <2>9. QED
    BY <2>6, <2>7, <2>8
<1>7. QED
  BY <1>1, <1>4, <1>5, <1>6 DEF RInv

LEMMA RInvariance == Spec => []RInv
<1>1. RInv /\ [Next]_vars => RInv'
  <2> SUFFICES ASSUME RInv, [Next]_vars PROVE RInv'
    OBVIOUS
  <2>1. CASE Redirect
    BY <2>1, RedirectRInv
  <2>2. CASE UNCHANGED <<input, code>>
    <3>1. IInv'
      BY IdentifyInv, RedirectInv, EraseInv, StutterInv DEF RInv, Next, Step, Stopped
    <3>2. input' = input /\ code' = code /\ Block' = Block /\ JumpOnly' = JumpOnly
      BY <2>2 DEF Block, JumpOnly
    <3>3. \A f : Resolves(f)' <=> Resolves(f)
      BY <3>2 DEF Resolves
    <3>4. DestinationsKept'
      BY <3>2, <3>3 DEF DestinationsKept, SameDestination, RInv
    <3>5. Chained' /\ CyclesStay'
      BY <3>2 DEF Chained, CyclesStay, Goto, Target, Next1, RInv
    <3>6. TargetsOnly'
      BY <3>2 DEF TargetsOnly, RInv
    <3>7. QED
      BY <3>1, <3>4, <3>5, <3>6 DEF RInv
  <2>3. QED
    BY <2>1, <2>2 DEF Next, Step, Identify, Erase, Stopped, vars
<1>2. QED
  BY InitRInv, <1>1, PTL DEF Spec

(* The map from blocks to where execution gets, read off the final code. *)
Arrives == [b \in Block |-> IF b \in JumpOnly THEN Target(b) ELSE b]

LEMMA EraseThreads ==
  ASSUME RInv, Erase PROVE Abstract!Thread
<1>1. /\ input \in Seq(Seq(Insn)) /\ code \in Seq(Seq(Insn)) /\ Len(code) = Len(input)
      /\ pass = "redirect" /\ pass' = "done" /\ code' = code /\ input' = input
      /\ blocks' = Block \ JumpOnly
  BY InputsAssumption DEF RInv, IInv, TypeOK, Collected, Erase
<1>2. \A b \in JumpOnly : /\ b \in Block /\ Goto(b) \in Block
                          /\ Target(b) \in Block \ JumpOnly
  <2> SUFFICES ASSUME NEW b \in JumpOnly
               PROVE  b \in Block /\ Goto(b) \in Block /\ Target(b) \in Block \ JumpOnly
    OBVIOUS
  <2>1. b \in Block /\ IsJumpOnly(input[b]) /\ Len(code[b]) = Len(input[b])
    BY DEF JumpOnly, RInv, IInv, SameShape
  <2>2. WellFormed(input)
    BY InputsAssumption DEF RInv, IInv, TypeOK
  <2>3. Goto(b) \in Block
    BY <1>1, <2>1, <2>2, JumpOnlyTarget DEF Goto, Block
  <2>4. 1 \in 1..Len(input[b]) /\ 1 \in 1..Len(code[b]) /\ code[b][1].op = "JMP"
    BY <2>1 DEF IsJumpOnly, RInv, IInv, SameShape
  <2>5. Targets(code[b][1]) \subseteq Block /\ Targets(code[b][1]) \cap JumpOnly = {}
    BY <2>1, <2>4 DEF RInv, IInv, SameShape, Settled, Erase
  <2>6. QED
    BY <2>1, <2>3, <2>4, <2>5 DEF Targets, Target
<1>3. \A b \in JumpOnly : Arrives[b] = Arrives[Goto(b)]
  BY <1>2 DEF Arrives, RInv, Chained, Next1
<1>4. Arrives \in [Block -> Block] /\ Arrives \in [Block -> Block \ JumpOnly]
  BY <1>2 DEF Arrives
<1>5. Resolves(Arrives)
  BY <1>3 DEF Resolves, JumpOnly, Goto, Arrives
<1>6. DOMAIN input = Block /\ Block \ JumpOnly = {b \in DOMAIN input : ~IsJumpOnly(input[b])}
  BY <1>1 DEF Block, JumpOnly
<1>7. ASSUME NEW b \in Block
      PROVE  code[b] = [i \in 1..Len(input[b]) |-> Abstract!Retarget(Arrives, input[b][i])]
  <2>1. code[b] \in Seq(Insn) /\ Len(code[b]) = Len(input[b]) /\ input[b] \in Seq(Insn)
    <3>1. b \in 1..Len(code) /\ b \in 1..Len(input)
      BY <1>1 DEF Block
    <3>2. Len(code[b]) = Len(input[b])
      BY DEF RInv, IInv, SameShape
    <3>3. QED
      BY <1>1, <3>1, <3>2
  <2>2. ASSUME NEW i \in 1..Len(input[b])
        PROVE  code[b][i] = Abstract!Retarget(Arrives, input[b][i])
    <3>1. /\ SameDestination(Arrives, code[b][i], input[b][i])
          /\ OnlyRetargeted(code[b][i], input[b][i])
          /\ Targets(code[b][i]) \subseteq Block \ JumpOnly
      BY <1>4, <1>5, <2>1 DEF RInv, DestinationsKept, TargetsOnly, IInv, SameShape, Settled, Erase
    <3>2. \A c \in Targets(code[b][i]) : Arrives[c] = c
      BY <3>1 DEF Arrives
    <3>3. code[b][i] \in Insn /\ input[b][i] \in Insn
      BY <2>1
    <3>4. CASE input[b][i].op = "JMP"
      BY <3>1, <3>2, <3>3, <3>4 DEF SameDestination, OnlyRetargeted, Targets, Abstract!Retarget, Insn
    <3>5. CASE input[b][i].op = "BR"
      BY <3>1, <3>2, <3>3, <3>5 DEF SameDestination, OnlyRetargeted, Targets, Abstract!Retarget, Insn
    <3>6. CASE input[b][i].op \notin {"JMP", "BR"}
      BY <3>1, <3>6 DEF OnlyRetargeted, Abstract!Retarget
    <3>7. QED
      BY <3>4, <3>5, <3>6
  <2>3. QED
    BY <2>1, <2>2
<1>8. ~JumpCycle(input)
  <2> SUFFICES ASSUME NEW S \in SUBSET {b \in DOMAIN input : IsJumpOnly(input[b])}, S # {},
                      \A b \in S : input[b][1].target1 \in S
               PROVE  FALSE
    BY DEF JumpCycle
  <2>1. S \in SUBSET JumpOnly /\ \A b \in S : Goto(b) \in S
    BY <1>6 DEF JumpOnly, Goto
  <2>2. \A b \in S : Target(b) \in S
    BY <2>1 DEF RInv, CyclesStay
  <2>3. QED
    BY <2>1, <2>2, <1>2
<1>9. QED
  <2>1. [b \in blocks' |-> code'[b]]
          = [b \in Block \ JumpOnly |-> [i \in 1..Len(input[b]) |-> Abstract!Retarget(Arrives, input[b][i])]]
    BY <1>1, <1>7
  <2> DEFINE program == IF pass = "done" THEN [b \in blocks |-> code[b]] ELSE input
  <2>2. program = input /\ program' = [b \in blocks' |-> code'[b]]
    BY <1>1
  <2>3. Abstract!Kept = Block \ JumpOnly
    BY <1>6, <2>2 DEF Abstract!Kept, Abstract!IsJumpOnly, IsJumpOnly
  <2>4. Abstract!LeadsTo(Arrives)
    BY <1>5, <1>6, <2>2, <2>3 DEF Abstract!LeadsTo, Resolves, JumpOnly, Arrives
  <2>5. Arrives \in [DOMAIN program -> Abstract!Kept]
    BY <1>4, <1>6, <2>2, <2>3
  <2>6. program' = [b \in Abstract!Kept |->
                      [i \in 1..Len(program[b]) |-> Abstract!Retarget(Arrives, program[b][i])]]
    BY <2>1, <2>2, <2>3
  <2>7. ~Abstract!JumpCycle(program)
    <3>1. Abstract!JumpCycle(input) <=> JumpCycle(input)
      BY DEF Abstract!JumpCycle, JumpCycle, Abstract!IsJumpOnly, IsJumpOnly
    <3>2. QED
      BY <1>8, <2>2, <3>1
  <2>8. QED
    BY <1>1, <2>4, <2>5, <2>6, <2>7 DEF Abstract!Thread

(* The pass implements JumpThreading: seen from outside it is one step that  *)
(* sends every terminator to the block execution ended up in and takes the  *)
(* jump-only blocks away, and it is never taken with a cycle of jumps.      *)
THEOREM Refinement == Spec => ThreadsJumps
<1>1. Init => Abstract!Init
  BY DEF Init, Abstract!Init
<1>2. RInv /\ [Next]_vars => [Abstract!Thread]_(Abstract!vars)
  <2> SUFFICES ASSUME RInv, [Next]_vars, ~Erase PROVE UNCHANGED Abstract!vars
    BY EraseThreads
  <2>1. (pass = "done") = (pass' = "done") /\ input' = input
    BY DEF Next, Step, Identify, Redirect, Stopped, vars
  <2>2. pass = "done" => code' = code /\ blocks' = blocks
    BY DEF Next, Step, Identify, Redirect, Stopped, vars
  <2>3. QED
    BY <2>1, <2>2 DEF Abstract!vars
<1>3. QED
  BY RInvariance, <1>1, <1>2, PTL DEF Spec, ThreadsJumps, Abstract!Spec
=============================================================================
