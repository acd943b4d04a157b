-------------------------- MODULE Compiler_proofs --------------------------
(***************************************************************************)
(* Proofs about the compiler, for source programs of any size.             *)
(*                                                                         *)
(* First the translation: every action of the translator keeps the         *)
(* simulation of ASTToIL_proofs, so the code does what the source says     *)
(* (FlowPreserved), and a jump that stops the translator has no loop       *)
(* around it (AbortsExplained).                                            *)
(*                                                                         *)
(* Then the typechecker: a function it accepts returns on every path       *)
(* (ReturnsAreSure).                                                       *)
(*                                                                         *)
(* Then the passes composed.  While a pass runs its own invariant holds, as *)
(* proved for it alone; the work is the handing over.  The optimizer knows *)
(* nothing of functions and calls, so what the translator guarantees of    *)
(* them is carried through its rounds: a jump is only redirected to where  *)
(* another jump of the same function leads, and what execution does, from  *)
(* statement to statement, stays what the source says                      *)
(* (OptimizedFlowPreserved).                                               *)
(***************************************************************************)
EXTENDS Compilation, ReturnCheck, ASTToIL_proofs

-----------------------------------------------------------------------------
(* Where a statement without parts of its own, other than its first, is *)
Fresh(q, r) == [first |-> q, after |-> r, cond |-> q, body |-> q, alt |-> q]

(* The translator is about to visit x. *)
Arriving(a, c, es, cs, vs, b, h, w, x) ==
  /\ Ground(a, c, es, cs, vs, b)
  /\ Sim(a, c, es, cs, vs, b, h, w)
  /\ NewNode(a, vs, x)
  /\ x.kind # "block" => Len(cs) > Len(es)

(* The end of an empty block is its start.                                 *)
LEMMA HereIs ==
  ASSUME NEW c \in Seq(Seq(Insn)), NEW b \in 1..Len(c)
  PROVE  /\ Len(c) \in Nat /\ b \in Nat /\ Here(c, b) \in Spot /\ Start(b) \in Spot
         /\ c[b] = <<>> => Here(c, b) = Start(b)
<1>1. c[b] \in Seq(Insn)
  BY ElementOfSeq
<1>2. Len(c[b]) + 1 \in Nat /\ Len(c) \in Nat /\ b \in Nat
  BY <1>1, LenProperties
<1>3. Here(c, b) \in Nat \X Nat /\ Start(b) \in Nat \X Nat
  BY <1>2 DEF Here, Start
<1>4. c[b] = <<>> => Here(c, b) = Start(b)
  BY DEF Here, Start
<1>5. QED
  BY <1>2, <1>3, <1>4 DEF Spot

(* Fresh is of its type.                                                   *)
LEMMA FreshIs ==
  ASSUME NEW q \in Spot, NEW r \in Spot
  PROVE  /\ Fresh(q, r) \in Where
         /\ Fresh(q, r).first = q /\ Fresh(q, r).after = r
BY DEF Fresh, Where

(* The types of all that a visit starts from.                              *)
LEMMA ArrivingAt ==
  ASSUME NEW a, NEW c, NEW es, NEW cs, NEW vs, NEW b, NEW h, NEW w, NEW x, Arriving(a, c, es, cs, vs, b, h, w, x)
  PROVE  /\ a \in Seq(NodeType) /\ Len(a) \in Nat /\ Len(a) + 1 \in Nat
         /\ c \in Seq(Seq(Insn)) /\ b \in 1..Len(c) /\ Len(c) \in Nat /\ b \in Nat
         /\ Here(c, b) \in Spot
         /\ cs \in Seq(ContextType) /\ Len(cs) \in Nat /\ Len(es) \in Nat
<1>1. a \in Seq(NodeType) /\ c \in Seq(Seq(Insn)) /\ b \in 1..Len(c) /\ cs \in Seq(ContextType) /\ es \in Seq(Nat)
  BY DEF Arriving, Ground
<1>2. QED
  BY <1>1, HereIs, LenProperties

(* What a visit that adds a node has to show of it.                        *)
LEMMA Arrived ==
  ASSUME NEW a, NEW c, NEW es, NEW cs, NEW vs, NEW b, NEW h, NEW w, NEW x, NEW a2, NEW s, NEW w2, NEW c2,
         AddsNode(a, c, es, cs, vs, b, h, w, x, a2, s, w2, c2)
  PROVE  /\ NodeIsAdded(a, c, es, cs, vs, h, w, x, a2, s, w2, c2)
         /\ a2[Len(a) + 1] = x /\ w2[Len(a) + 1] = s
         /\ Len(a) + 1 \in 1..Len(a2)
         /\ AllPlaced(a2, c, w2)
<1>1. NodeIsAdded(a, c, es, cs, vs, h, w, x, a2, s, w2, c2)
  BY AddSim
<1>2. Len(a) + 1 \in 1..Len(a2)
  BY <1>1 DEF NodeIsAdded
<1>3. QED
  BY <1>1, <1>2 DEF NodeIsAdded
-----------------------------------------------------------------------------
(* An expression statement, or a call *)
LEMMA ExpressionSim ==
  ASSUME NEW a, NEW c, NEW es, NEW cs, NEW vs, NEW b, NEW h, NEW w, NEW x, Arriving(a, c, es, cs, vs, b, h, w, x),
         x.kind \in {"expr", "call"},
         NEW i \in Insn, i.at = Len(a) + 1, i.op = IF x.kind = "call" THEN "CALL" ELSE "EXPR",
         x.kind = "expr" => i = INS("EXPR", Len(a) + 1),
         x.kind = "call" => \E f \in Nat : i = CALL(Len(a) + 1, f)
  PROVE  \E w2 : Sim(Append(a, x), append(c, b, i), es, cs, ThisDone(vs), b, h, w2)
<1> DEFINE n == Len(a) + 1
           c2 == append(c, b, i)
           s == Fresh(Here(c, b), Here(c2, b))
           a2 == Append(a, x)
           w2 == Append(w, s)
<1>1. /\ a \in Seq(NodeType) /\ Len(a) \in Nat /\ n \in Nat
      /\ c \in Seq(Seq(Insn)) /\ b \in 1..Len(c) /\ Here(c, b) \in Spot
  BY ArrivingAt
<1>2. /\ i.op = IF x.kind = "call" THEN "CALL" ELSE "EXPR"
      /\ x.kind \in {"expr", "call"}
      /\ x.kind = "expr" => i = INS("EXPR", n)
      /\ x.kind = "call" => \E f \in Nat : i = CALL(n, f)
  OBVIOUS
<1> HIDE DEF n
<1>3. /\ Kept(c, c2, {b}) /\ Len(c2) = Len(c) /\ Holds(c2, Here(c, b), i)
      /\ Here(c2, b) = Succ(Here(c, b))
  BY <1>1, AppendKeeps
<1>4. Here(c2, b) \in Spot
  BY <1>1, <1>3, HereIs DEF Kept
<1> HIDE DEF c2
<1>5. Near(c, Len(es), cs, b, c2, {b})
  <2>1. Ground(a, c, es, cs, vs, b) /\ \A y \in {b} : y \in 1..Len(c) => y = b
    BY DEF Arriving
  <2>2. QED
    BY <1>3, <2>1, NearHere
<1>6. s \in Where /\ s.first = Here(c, b) /\ s.after = Here(c2, b)
  BY <1>1, <1>4, FreshIs
<1> HIDE DEF s, a2, w2
<1>7. /\ AddsNode(a, c, es, cs, vs, b, h, w, x, a2, s, w2, c2)
      /\ a2[n] = x /\ w2[n] = s /\ n \in 1..Len(a2) /\ AllPlaced(a2, c, w2)
  <2>1. AddsNode(a, c, es, cs, vs, b, h, w, x, a2, s, w2, c2)
    BY <1>5, <1>6 DEF AddsNode, Arriving, a2, w2
  <2>2. QED
    BY <2>1, Arrived DEF n
<1>8. Entered(a2, c2, w2, n)
  BY <1>2, <1>3, <1>6, <1>7 DEF Entered, Untranslatable
<1>9. AllPlaced(a2, c2, w2)
  <2>1. Placed(a2, w2, i, Here(c, b))
    <3>1. i.at = n
      BY DEF n
    <3>2. i.op \in Parts(x.kind)
      BY <1>2 DEF Parts
    <3>3. PartAt(a2, w2, n, i.op) = Here(c, b)
      BY <1>2, <1>6, <1>7 DEF PartAt
    <3>4. QED
      BY <1>7, <3>1, <3>2, <3>3 DEF Placed
  <2>2. QED
    BY <1>1, <1>7, <2>1, PlacedOn DEF c2
<1>10. x.kind \in Simple
  BY <1>2 DEF Simple
<1>11. Sim(a2, c2, es, cs, ThisDone(vs), b, h, w2)
  BY <1>6, <1>7, <1>8, <1>9, <1>10, SimpleSim DEF n
<1>12. QED
  BY <1>11 DEF a2, c2
-----------------------------------------------------------------------------
(* Writing to other blocks changes nothing here. *)
LEMMA KeptHere ==
  ASSUME NEW c, NEW d, NEW T, Kept(c, d, T), NEW b \in 1..Len(c), b \notin T
  PROVE  Here(d, b) = Here(c, b) /\ d[b] = c[b] /\ b \in 1..Len(d)
<1>1. d[b] = c[b] /\ Len(c) <= Len(d) /\ d \in Seq(Seq(Insn))
  BY DEF Kept
<1>2. b \in 1..Len(d)
  BY <1>1, LenProperties
<1>3. QED
  BY <1>1, <1>2 DEF Here

(* d is c with k new blocks and i at the end of b. *)
Extended(c, b, k, i, d) ==
  /\ Kept(c, d, {b}) /\ d \in Seq(Seq(Insn)) /\ Grown(c, d)
  /\ Len(d) = Len(c) + k /\ b \in 1..Len(d)
  /\ Holds(d, Here(c, b), i) /\ Here(d, b) = Succ(Here(c, b))
  /\ \A y \in (Len(c) + 1)..(Len(c) + k) : d[y] = <<>> /\ y \in 1..Len(d)

(* New blocks, and then a write to the current one *)
LEMMA AddAndAppend ==
  ASSUME NEW c \in Seq(Seq(Insn)), NEW b \in 1..Len(c), NEW k \in Nat, NEW i \in Insn,
         NEW d, d = append(addBasicBlocks(c, k), b, i)
  PROVE  /\ Extended(c, b, k, i, d)
         /\ \A a, w : AllPlaced(a, c, w) /\ (i.op \in Visible => Placed(a, w, i, Here(c, b))) => AllPlaced(a, d, w)
<1> DEFINE more == addBasicBlocks(c, k)
<1>1. /\ Kept(c, more, {}) /\ Len(more) = Len(c) + k
      /\ \A y \in (Len(c) + 1)..(Len(c) + k) : more[y] = <<>>
  <2>1. more = addBasicBlocks(c, k)
    OBVIOUS
  <2> HIDE DEF more
  <2>2. QED
    BY <2>1, AddingKeeps
<1>2. more \in Seq(Seq(Insn))
  BY <1>1 DEF Kept
<1>8. \A a, w : AllPlaced(a, c, w) => AllPlaced(a, more, w)
  BY PlacedAdding
<1> HIDE DEF more
<1>3. Here(more, b) = Here(c, b) /\ b \in 1..Len(more)
  BY <1>1, KeptHere
<1>4. /\ Kept(more, d, {b}) /\ Len(d) = Len(more) /\ Holds(d, Here(more, b), i)
      /\ Here(d, b) = Succ(Here(more, b))
  BY <1>2, <1>3, AppendKeeps DEF more
<1>5. Kept(c, d, {b})
  <2>1. Kept(c, d, {} \cup {b})
    BY <1>1, <1>2, <1>4, KeptOn
  <2>2. {} \cup {b} = {b}
    OBVIOUS
  <2>3. QED
    BY <2>1, <2>2
<1>6. \A y \in (Len(c) + 1)..(Len(c) + k) : d[y] = <<>> /\ y \in 1..Len(d)
  <2> TAKE y \in (Len(c) + 1)..(Len(c) + k)
  <2>1. Len(c) \in Nat
    BY LenProperties
  <2>2. y \in 1..Len(more) /\ y \notin {b}
    BY <1>1, <2>1
  <2>3. d[y] = more[y]
    BY <1>4, <2>2 DEF Kept
  <2>4. QED
    BY <1>1, <1>4, <2>2, <2>3
<1>7. \A a, w : AllPlaced(a, c, w) /\ (i.op \in Visible => Placed(a, w, i, Here(c, b))) => AllPlaced(a, d, w)
  <2> SUFFICES ASSUME NEW a, NEW w, AllPlaced(a, c, w), i.op \in Visible => Placed(a, w, i, Here(c, b))
               PROVE  AllPlaced(a, d, w)
    OBVIOUS
  <2>1. AllPlaced(a, more, w) /\ (i.op \in Visible => Placed(a, w, i, Here(more, b)))
    BY <1>3, <1>8
  <2>2. more \in Seq(Seq(Insn)) /\ b \in 1..Len(more) /\ d = append(more, b, i)
    BY <1>2, <1>3 DEF more
  <2>3. QED
    BY <2>1, <2>2, PlacedOn
<1>9. QED
  BY <1>1, <1>3, <1>4, <1>5, <1>6, <1>7 DEF Kept, Extended
-----------------------------------------------------------------------------
(* A return: its value, its terminator and a new block for what follows *)
LEMMA ReturnSim ==
  ASSUME NEW a, NEW c, NEW es, NEW cs, NEW vs, NEW b, NEW h, NEW w, NEW x, Arriving(a, c, es, cs, vs, b, h, w, x),
         x.kind = "return",
         NEW c2, c2 = append(append(addBasicBlocks(c, 1), b, INS("EXPR", Len(a) + 1)), b, RETR(Len(a) + 1))
  PROVE  \E w2 : Sim(Append(a, x), c2, es, cs, ThisDone(vs), Len(c) + 1, h, w2)
<1> DEFINE n == Len(a) + 1
           i == INS("EXPR", n)
           j == RETR(n)
           d == append(addBasicBlocks(c, 1), b, i)
           new == Len(c) + 1
           s == Fresh(Here(c, b), Here(c2, new))
           a2 == Append(a, x)
           w2 == Append(w, s)
<1>1. /\ a \in Seq(NodeType) /\ Len(a) \in Nat /\ n \in Nat /\ Len(c) \in Nat
      /\ c \in Seq(Seq(Insn)) /\ b \in 1..Len(c) /\ Here(c, b) \in Spot
  BY ArrivingAt
<1>2. i \in Insn /\ j \in Insn /\ i.op = "EXPR" /\ i.at = n /\ j.op = "RETR"
  <2>1. n \in Nat /\ "EXPR" \in Ops
    BY <1>1 DEF Ops, Visible
  <2> HIDE DEF n
  <2>2. i \in Insn /\ i.op = "EXPR" /\ i.at = n
    BY <2>1, Instructions
  <2>3. j \in Insn /\ j.op = "RETR"
    BY <2>1, Instructions
  <2>4. QED
    BY <2>2, <2>3
<1> HIDE DEF n, i, j
<1>3. /\ Kept(c, d, {b}) /\ d \in Seq(Seq(Insn)) /\ Len(d) = Len(c) + 1 /\ b \in 1..Len(d)
      /\ Holds(d, Here(c, b), i) /\ Here(d, b) = Succ(Here(c, b))
      /\ d[new] = <<>> /\ new \in 1..Len(d)
      /\ \A a1, w1 : AllPlaced(a1, c, w1) /\ (i.op \in Visible => Placed(a1, w1, i, Here(c, b))) => AllPlaced(a1, d, w1)
  <2> DEFINE k == 1
  <2>1. new \in (Len(c) + 1)..(Len(c) + k) /\ k \in Nat
    BY <1>1
  <2>2. c \in Seq(Seq(Insn)) /\ b \in 1..Len(c) /\ i \in Insn /\ d = append(addBasicBlocks(c, k), b, i)
    BY <1>1, <1>2
  <2> HIDE DEF new, d, k
  <2>3. Extended(c, b, k, i, d)
    BY <2>1, <2>2, AddAndAppend
  <2>4. \A a1, w1 : AllPlaced(a1, c, w1) /\ (i.op \in Visible => Placed(a1, w1, i, Here(c, b))) => AllPlaced(a1, d, w1)
    BY <2>1, <2>2, AddAndAppend
  <2>5. QED
    BY <2>1, <2>3, <2>4 DEF k, Extended
<1> HIDE DEF d
<1>4. /\ Kept(d, c2, {b}) /\ Len(c2) = Len(d) /\ Holds(c2, Here(d, b), j) /\ Grown(d, c2)
      /\ c2 \in Seq(Seq(Insn))
  <2>1. c2 = append(d, b, j)
    BY DEF d, i, j, n
  <2>2. Kept(d, c2, {b}) /\ Len(c2) = Len(d) /\ Holds(c2, Here(d, b), j)
    BY <1>2, <1>3, <2>1, AppendKeeps
  <2>3. QED
    BY <2>2 DEF Kept
<1>5. Kept(c, c2, {b})
  <2>1. Kept(c, c2, {b} \cup {b})
    BY <1>1, <1>3, <1>4, KeptOn
  <2>2. {b} \cup {b} = {b}
    OBVIOUS
  <2>3. QED
    BY <2>1, <2>2
<1>6. c2[new] = <<>> /\ new \in 1..Len(c2)
  <2>1. new \notin {b}
    BY <1>1
  <2>2. QED
    BY <1>3, <1>4, <2>1 DEF Kept
<1>7. Here(c2, new) \in Spot
  BY <1>4, <1>6, HereIs
<1>8. Holds(c2, Here(c, b), i) /\ Holds(c2, Succ(Here(c, b)), j)
  BY <1>3, <1>4, GrownKeeps
<1>9. Near(c, Len(es), cs, b, c2, {b})
  <2>1. Ground(a, c, es, cs, vs, b) /\ \A y \in {b} : y \in 1..Len(c) => y = b
    BY DEF Arriving
  <2>2. QED
    BY <1>5, <2>1, NearHere
<1> HIDE DEF new
<1>10. s \in Where /\ s.first = Here(c, b) /\ s.after = Here(c2, new)
  BY <1>1, <1>7, FreshIs
<1> HIDE DEF s, a2, w2
<1>11. /\ AddsNode(a, c, es, cs, vs, b, h, w, x, a2, s, w2, c2)
       /\ a2[n] = x /\ w2[n] = s /\ n \in 1..Len(a2) /\ AllPlaced(a2, c, w2)
  <2>1. AddsNode(a, c, es, cs, vs, b, h, w, x, a2, s, w2, c2)
    BY <1>9, <1>10 DEF AddsNode, Arriving, a2, w2
  <2>2. QED
    BY <2>1, Arrived DEF n
<1>12. Entered(a2, c2, w2, n)
  BY <1>8, <1>10, <1>11 DEF Entered, Untranslatable, i, j
<1>13. AllPlaced(a2, c2, w2)
  <2>1. Placed(a2, w2, i, Here(c, b))
    <3>1. i.op \in Parts(x.kind)
      BY <1>2 DEF Parts
    <3>2. PartAt(a2, w2, n, i.op) = Here(c, b)
      BY <1>2, <1>10, <1>11 DEF PartAt
    <3>3. QED
      BY <1>2, <1>11, <3>1, <3>2 DEF Placed
  <2>2. AllPlaced(a2, d, w2)
    BY <1>3, <1>11, <2>1
  <2>3. j.op \in Visible => FALSE
    BY <1>2 DEF Visible
  <2>4. d \in Seq(Seq(Insn)) /\ b \in 1..Len(d) /\ j \in Insn /\ c2 = append(d, b, j)
    BY <1>2, <1>3 DEF d, i, j, n
  <2>5. QED
    BY <2>2, <2>3, <2>4, PlacedOn
<1>14. Sim(a2, c2, es, cs, ThisDone(vs), new, h, w2)
  <2>1. x.kind \in Simple
    BY DEF Simple
  <2>2. QED
    BY <1>10, <1>11, <1>12, <1>13, <2>1, SimpleSim DEF n
<1>15. QED
  BY <1>14 DEF a2, new
-----------------------------------------------------------------------------
(* The current context has targets when it holds a loop.                   *)
LEMMA TopHeld ==
  ASSUME NEW cs \in Seq(ContextType), NEW e \in Nat, Len(cs) > e, NEW a, NEW p, NEW h, Held(a, p, e, cs, h)
  PROVE  /\ Len(cs) \in (e + 1)..Len(cs) /\ Last(cs) = cs[Len(cs)] /\ Last(cs) \in ContextType
         /\ Len(h) = Len(cs) /\ h \in Seq(HeldType) /\ h[Len(cs)] \in HeldType
         /\ h[Len(cs)].loop = 0 <=> Last(cs).breakBlock = Null
         /\ h[Len(cs)].loop = 0 <=> Last(cs).continueBlock = Null
<1>1. Len(cs) \in (e + 1)..Len(cs) /\ Len(cs) \in 1..Len(cs)
  BY LenProperties
<1>2. Last(cs) = cs[Len(cs)] /\ Last(cs) \in ContextType
  BY <1>1, ElementOfSeq DEF Last
<1>3. Len(h) = Len(cs) /\ h \in Seq(HeldType)
  BY DEF Held, HeldTargets
<1>4. h[Len(cs)] \in HeldType
  BY <1>1, <1>3, ElementOfSeq
<1>5. /\ h[Len(cs)].loop = 0 <=> Last(cs).breakBlock = Null
      /\ h[Len(cs)].loop = 0 <=> Last(cs).continueBlock = Null
  BY <1>1, <1>2 DEF Held, HeldTargets
<1>6. QED
  BY <1>1, <1>2, <1>3, <1>4, <1>5

(* The loop a jump is to leave or to go on with *)
LEMMA JumpLoop ==
  ASSUME NEW a, NEW c, NEW es, NEW cs, NEW vs, NEW b, NEW h, NEW w, NEW x, Arriving(a, c, es, cs, vs, b, h, w, x),
         x.kind \in {"break", "continue"}, NEW a2, a2 = Append(a, x)
  PROVE  GoesTo(a2, Len(a) + 1, h[Len(cs)].loop)
<1> DEFINE s == Fresh(Here(c, b), Here(c, b))
           w2 == Append(w, s)
           p == PathOf(vs)
           p2 == Append(p, Len(a2))
<1>1. /\ a \in Seq(NodeType) /\ Len(a) \in Nat /\ Here(c, b) \in Spot /\ c \in Seq(Seq(Insn)) /\ b \in 1..Len(c)
      /\ cs \in Seq(ContextType) /\ Len(cs) \in Nat /\ Len(es) \in Nat /\ Len(cs) > Len(es)
  BY ArrivingAt DEF Arriving
<1>2. s \in Where /\ s.first = Here(c, b)
  BY <1>1, FreshIs
<1> HIDE DEF s
<1>3. AddsNode(a, c, es, cs, vs, b, h, w, x, a2, s, w2, c)
  <2>1. Near(c, Len(es), cs, b, c, {b})
    <3>1. Kept(c, c, {b})
      BY <1>1, KeptSelf
    <3>2. Ground(a, c, es, cs, vs, b) /\ \A y \in {b} : y \in 1..Len(c) => y = b
      BY DEF Arriving
    <3>3. QED
      BY <3>1, <3>2, NearHere
  <2>2. QED
    BY <1>2, <2>1 DEF AddsNode, Arriving
<1> HIDE DEF w2
<1>4. /\ Len(a2) = Len(a) + 1 /\ Tree(a2) /\ Prefix(a, a2) /\ a2[Len(a2)] = x
      /\ Path(a2, p2) /\ Held(a2, p, Len(es), cs, h)
  <2>1. NodeIsAdded(a, c, es, cs, vs, h, w, x, a2, s, w2, c)
    BY <1>3, AddSim
  <2>2. QED
    BY <2>1 DEF NodeIsAdded
<1>5. a2 \in Seq(NodeType) /\ p \in Seq(Nat)
  <2>1. vs \in Seq(FrameType)
    BY DEF Arriving, Ground
  <2>2. QED
    BY <1>4, <2>1, PathIs DEF Prefix
<1>6. Len(a2) > 0 /\ a2[Len(a2)].kind \notin Loops /\ Len(a2) - 1 = Len(a)
  BY <1>1, <1>4 DEF Loops
<1> HIDE DEF p, p2
<1>7. GoesTo(a2, Len(a2), h[Len(cs)].loop)
  <2> DEFINE e == Len(es)
  <2>1. e \in Nat /\ Len(cs) > e /\ Held(a2, p, e, cs, h)
    BY <1>1, <1>4
  <2>2. p2 = Append(p, Len(a2))
    BY DEF p2
  <2> HIDE DEF e
  <2>3. QED
    BY <1>1, <1>4, <1>5, <1>6, <2>1, <2>2, TopLoop
<1>8. QED
  BY <1>4, <1>7

(* A jump that has a block to go to *)
LEMMA JumpSim ==
  ASSUME NEW a, NEW c, NEW es, NEW cs, NEW vs, NEW b, NEW h, NEW w, NEW x, Arriving(a, c, es, cs, vs, b, h, w, x),
         x.kind \in {"break", "continue"},
         NEW t, t = IF x.kind = "break" THEN Last(cs).breakBlock ELSE Last(cs).continueBlock, t # Null,
         NEW c2, c2 = append(addBasicBlocks(c, 1), b, JMP(t))
  PROVE  \E w2 : Sim(Append(a, x), c2, es, cs, ThisDone(vs), Len(c) + 1, h, w2)
<1> DEFINE n == Len(a) + 1
           i == JMP(t)
           K == Len(cs)
           L == h[K].loop
           new == Len(c) + 1
           s == Fresh(Here(c, b), Here(c2, new))
           a2 == Append(a, x)
           w2 == Append(w, s)
<1>1. /\ a \in Seq(NodeType) /\ Len(a) \in Nat /\ n \in Nat /\ Len(c) \in Nat
      /\ c \in Seq(Seq(Insn)) /\ b \in 1..Len(c) /\ Here(c, b) \in Spot
      /\ cs \in Seq(ContextType) /\ Len(cs) \in Nat /\ Len(es) \in Nat /\ Len(cs) > Len(es)
  BY ArrivingAt DEF Arriving
<1>2. /\ K \in (Len(es) + 1)..K /\ Last(cs) = cs[K] /\ t \in Nat /\ L # 0
      /\ t = IF x.kind = "break" THEN cs[K].breakBlock ELSE cs[K].continueBlock
  <2>1. Held(a, PathOf(vs), Len(es), cs, h)
    BY DEF Arriving, Sim
  <2>2. /\ K \in (Len(es) + 1)..K /\ Last(cs) = cs[K] /\ Last(cs) \in ContextType
        /\ L = 0 <=> Last(cs).breakBlock = Null
        /\ L = 0 <=> Last(cs).continueBlock = Null
    BY <1>1, <2>1, TopHeld
  <2>3. t \in Nat
    BY <2>2 DEF ContextType
  <2>4. QED
    BY <2>2, <2>3
<1>3. i \in Insn /\ i.op = "JMP"
  BY <1>2, Instructions
<1> HIDE DEF n, i
<1>4. /\ Kept(c, c2, {b}) /\ c2 \in Seq(Seq(Insn)) /\ Holds(c2, Here(c, b), i)
      /\ c2[new] = <<>> /\ new \in 1..Len(c2)
      /\ \A a1, w1 : AllPlaced(a1, c, w1) => AllPlaced(a1, c2, w1)
  <2> DEFINE k == 1
  <2>1. new \in (Len(c) + 1)..(Len(c) + k) /\ k \in Nat
    BY <1>1
  <2>2. c \in Seq(Seq(Insn)) /\ b \in 1..Len(c) /\ i \in Insn /\ c2 = append(addBasicBlocks(c, k), b, i)
    BY <1>1, <1>3 DEF i
  <2> HIDE DEF new, k
  <2>3. Extended(c, b, k, i, c2)
    BY <2>1, <2>2, AddAndAppend
  <2>4. \A a1, w1 : AllPlaced(a1, c, w1) /\ (i.op \in Visible => Placed(a1, w1, i, Here(c, b))) => AllPlaced(a1, c2, w1)
    BY <2>1, <2>2, AddAndAppend
  <2>5. i.op \notin Visible
    BY <1>3 DEF Visible
  <2>6. QED
    BY <2>1, <2>3, <2>4, <2>5 DEF Extended
<1>5. Here(c2, new) \in Spot
  BY <1>4, HereIs
<1>6. Near(c, Len(es), cs, b, c2, {b})
  <2>1. Ground(a, c, es, cs, vs, b) /\ \A y \in {b} : y \in 1..Len(c) => y = b
    BY DEF Arriving
  <2>2. QED
    BY <1>4, <2>1, NearHere
<1> HIDE DEF new
<1>7. s \in Where /\ s.first = Here(c, b) /\ s.after = Here(c2, new)
  BY <1>1, <1>5, FreshIs
<1> HIDE DEF s, a2, w2
<1>8. AddsNode(a, c, es, cs, vs, b, h, w, x, a2, s, w2, c2)
  BY <1>6, <1>7 DEF AddsNode, Arriving, a2, w2
<1>9. /\ a2[n] = x /\ w2[n] = s /\ n \in 1..Len(a2) /\ AllPlaced(a2, c, w2)
      /\ NodeIsAdded(a, c, es, cs, vs, h, w, x, a2, s, w2, c2)
  BY <1>8, Arrived DEF n
<1>10. L \in 1..(n - 1) /\ a2[L].kind \in Loops /\ (L = EnclosingLoop(a2, n) \/ StaleIn(a2, n))
  <2>1. a2 = Append(a, x)
    BY DEF a2
  <2>2. GoesTo(a2, Len(a) + 1, L)
    BY <2>1, JumpLoop
  <2>3. QED
    BY <1>2, <2>2 DEF GoesTo, n
<1>11. Leads(c2, Here(c, b), Start(t))
  BY <1>4, LeadsJump DEF i
<1>12. Entered(a2, c2, w2, n)
  <2>1. ContextAt(a2, c2, w2, cs[K], h[K])
    BY <1>2, <1>9 DEF NodeIsAdded
  <2>2. (IF x.kind = "break" THEN w2[L].after ELSE ContinueAt(a2, w2, L)) = Start(t)
    BY <1>2, <2>1 DEF ContextAt
  <2>3. JumpsTo(a2, c2, w2, n, L)
    BY <1>7, <1>9, <1>10, <1>11, <2>2 DEF JumpsTo
  <2> HIDE DEF L
  <2>4. \E l \in 1..(n - 1) : JumpsTo(a2, c2, w2, n, l)
    BY <1>10, <2>3
  <2>5. QED
    BY <1>9, <2>4 DEF Entered, Untranslatable
<1>13. x.kind \in Simple
  BY DEF Simple
<1>14. Sim(a2, c2, es, cs, ThisDone(vs), new, h, w2)
  BY <1>4, <1>7, <1>8, <1>9, <1>12, <1>13, SimpleSim DEF n
<1>15. QED
  BY <1>14 DEF a2, new
-----------------------------------------------------------------------------
(* Declarations only add to the locals block.                              *)
OnlyAllocated(c, b, lb, c1) ==
  /\ Kept(c, c1, {lb}) /\ c1 \in Seq(Seq(Insn)) /\ Len(c1) = Len(c)
  /\ b \in 1..Len(c1) /\ Here(c1, b) = Here(c, b)
  /\ \A a, w : AllPlaced(a, c, w) => AllPlaced(a, c1, w)

(* A variable is allocated in the block for variables, and nothing else *)
(* changes.                                                             *)
LEMMA Allocating ==
  ASSUME NEW a, NEW c, NEW es, NEW cs, NEW vs, NEW b, Ground(a, c, es, cs, vs, b), Len(cs) > Len(es),
         NEW n \in Nat, NEW c1, c1 = append(c, Last(cs).localsBlock, INS("ALLOCA", n))
  PROVE  OnlyAllocated(c, b, Last(cs).localsBlock, c1)
<1> DEFINE lb == Last(cs).localsBlock
           i == INS("ALLOCA", n)
<1>1. lb \in 1..Len(c) /\ lb # b /\ c \in Seq(Seq(Insn)) /\ b \in 1..Len(c)
  <2>1. Len(cs) \in (Len(es) + 1)..Len(cs) /\ Last(cs) = cs[Len(cs)]
    <3>1. Len(cs) \in Nat /\ Len(es) \in Nat
      BY LenProperties DEF Ground
    <3>2. QED
      BY <3>1 DEF Last
  <2>2. QED
    BY <2>1 DEF Ground
<1>2. i \in Insn /\ i.op = "ALLOCA"
  BY Instructions DEF Ops
<1> HIDE DEF lb, i
<1>3. c1 = append(c, lb, i)
  BY DEF lb, i
<1>4. Kept(c, c1, {lb}) /\ Len(c1) = Len(c)
  BY <1>1, <1>2, <1>3, AppendKeeps
<1>5. Here(c1, b) = Here(c, b) /\ b \in 1..Len(c1)
  BY <1>1, <1>4, KeptHere
<1>6. i.op \notin Visible
  BY <1>2 DEF Visible
<1>7. \A a1, w1 : AllPlaced(a1, c, w1) => AllPlaced(a1, c1, w1)
  BY <1>1, <1>2, <1>3, <1>6, PlacedOn
<1>8. QED
  BY <1>4, <1>5, <1>7 DEF Kept, OnlyAllocated, lb

(* The declaration of a variable, which may give it a value *)
LEMMA DeclarationSim ==
  ASSUME NEW a, NEW c, NEW es, NEW cs, NEW vs, NEW b, NEW h, NEW w, NEW x, Arriving(a, c, es, cs, vs, b, h, w, x),
         x.kind \in {"decl", "declinit"},
         NEW c1, c1 = append(c, Last(cs).localsBlock, INS("ALLOCA", Len(a) + 1)),
         NEW c2, c2 = IF x.kind = "declinit" THEN append(c1, b, INS("EXPR", Len(a) + 1)) ELSE c1
  PROVE  \E w2 : Sim(Append(a, x), c2, es, cs, ThisDone(vs), b, h, w2)
<1> DEFINE n == Len(a) + 1
           i == INS("EXPR", n)
           lb == Last(cs).localsBlock
           s == Fresh(Here(c, b), Here(c2, b))
           a2 == Append(a, x)
           w2 == Append(w, s)
<1>1. /\ a \in Seq(NodeType) /\ Len(a) \in Nat /\ n \in Nat
      /\ c \in Seq(Seq(Insn)) /\ b \in 1..Len(c) /\ Here(c, b) \in Spot
      /\ Ground(a, c, es, cs, vs, b) /\ Len(cs) > Len(es)
  BY ArrivingAt DEF Arriving
<1>2. i \in Insn /\ i.op = "EXPR" /\ i.at = n
  <2>1. n \in Nat /\ "EXPR" \in Ops
    BY <1>1 DEF Ops, Visible
  <2> HIDE DEF n
  <2>2. QED
    BY <2>1, Instructions
<1> HIDE DEF n, i
<1>3. /\ Kept(c, c1, {lb}) /\ c1 \in Seq(Seq(Insn)) /\ Len(c1) = Len(c)
      /\ b \in 1..Len(c1) /\ Here(c1, b) = Here(c, b)
      /\ \A a1, w1 : AllPlaced(a1, c, w1) => AllPlaced(a1, c1, w1)
  <2>1. c1 = append(c, Last(cs).localsBlock, INS("ALLOCA", n))
    BY DEF n
  <2>2. n \in Nat /\ Ground(a, c, es, cs, vs, b) /\ Len(cs) > Len(es)
    BY <1>1
  <2> HIDE DEF lb
  <2>3. OnlyAllocated(c, b, Last(cs).localsBlock, c1)
    BY <2>1, <2>2, Allocating
  <2>4. QED
    BY <2>3 DEF OnlyAllocated, lb
<1>4. /\ Kept(c1, c2, {b}) /\ b \in 1..Len(c2)
      /\ x.kind = "decl" => Here(c2, b) = Here(c, b)
      /\ x.kind = "declinit" => Holds(c2, Here(c, b), i) /\ Here(c2, b) = Succ(Here(c, b))
  <2>1. CASE x.kind = "decl"
    BY <1>3, <2>1, KeptSelf
  <2>2. CASE x.kind = "declinit"
    <3>1. c2 = append(c1, b, i)
      BY <2>2 DEF i, n
    <3>2. c1 \in Seq(Seq(Insn)) /\ b \in 1..Len(c1) /\ i \in Insn
      BY <1>2, <1>3
    <3>3. /\ Kept(c1, c2, {b}) /\ Len(c2) = Len(c1) /\ Holds(c2, Here(c1, b), i)
          /\ Here(c2, b) = Succ(Here(c1, b))
      BY <3>1, <3>2, AppendKeeps
    <3>4. QED
      BY <1>3, <2>2, <3>3
  <2>3. QED
    BY <2>1, <2>2
<1>5. Here(c2, b) \in Spot
  BY <1>4, HereIs DEF Kept
<1>6. Near(c, Len(es), cs, b, c2, {b, lb})
  <2>1. c1 = append(c, Last(cs).localsBlock, INS("ALLOCA", n)) /\ \A y \in {b} : y \in 1..Len(c) => y = b
    BY DEF n
  <2>2. QED
    BY <1>1, <1>4, <2>1, NearLocals
<1> HIDE DEF lb
<1>7. s \in Where /\ s.first = Here(c, b) /\ s.after = Here(c2, b)
  BY <1>1, <1>5, FreshIs
<1> HIDE DEF s, a2, w2
<1>8. /\ AddsNode(a, c, es, cs, vs, b, h, w, x, a2, s, w2, c2)
      /\ a2[n] = x /\ w2[n] = s /\ n \in 1..Len(a2) /\ AllPlaced(a2, c, w2)
  <2>1. AddsNode(a, c, es, cs, vs, b, h, w, x, a2, s, w2, c2)
    BY <1>6, <1>7 DEF AddsNode, Arriving, a2, w2
  <2>2. QED
    BY <2>1, Arrived DEF n
<1>9. Entered(a2, c2, w2, n)
  BY <1>4, <1>7, <1>8 DEF Entered, Untranslatable, i
<1>10. AllPlaced(a2, c2, w2)
  <2>1. AllPlaced(a2, c1, w2)
    BY <1>3, <1>8
  <2>2. CASE x.kind = "decl"
    BY <2>1, <2>2
  <2>3. CASE x.kind = "declinit"
    <3>1. Placed(a2, w2, i, Here(c1, b))
      <4>1. i.op \in Parts(x.kind)
        BY <1>2, <2>3 DEF Parts
      <4>2. PartAt(a2, w2, n, i.op) = Here(c, b)
        BY <1>2, <1>7, <1>8 DEF PartAt
      <4>3. QED
        BY <1>2, <1>3, <1>8, <4>1, <4>2 DEF Placed
    <3>2. c2 = append(c1, b, i)
      BY <2>3 DEF i, n
    <3>3. QED
      BY <1>2, <1>3, <2>1, <3>1, <3>2, PlacedOn
  <2>4. QED
    BY <2>2, <2>3
<1>11. x.kind \in Simple
  BY DEF Simple
<1>12. Sim(a2, c2, es, cs, ThisDone(vs), b, h, w2)
  BY <1>7, <1>8, <1>9, <1>10, <1>11, SimpleSim DEF n
<1>13. QED
  BY <1>12 DEF a2
-----------------------------------------------------------------------------
(* A node that was just added has no children. *)
LEMMA NoChildren ==
  ASSUME NEW a, NEW c, NEW es, NEW cs, NEW vs, NEW h, NEW w, NEW x, NEW a2, NEW s, NEW w2, NEW c2,
         NodeIsAdded(a, c, es, cs, vs, h, w, x, a2, s, w2, c2)
  PROVE  \A role : Children(a2, Len(a) + 1, role) = {}
<1>1. Len(a) \in Nat /\ Len(a2) = Len(a) + 1 /\ Tree(a2) /\ a2 \in Seq(NodeType)
  BY DEF NodeIsAdded, Prefix
<1> SUFFICES ASSUME NEW role, NEW m \in Children(a2, Len(a) + 1, role) PROVE FALSE
  OBVIOUS
<1>2. m > Len(a) + 1 /\ m \in 1..Len(a2)
  BY <1>1, ChildrenOf
<1>3. QED
  BY <1>1, <1>2

(* d is c with the condition of n and its branch to t or e at the end of b.  *)
Branches(c, b, n, t, e, d) ==
  /\ Kept(c, d, {b}) /\ d \in Seq(Seq(Insn)) /\ Grown(c, d) /\ Len(d) = Len(c)
  /\ BranchAt(d, Here(c, b), n, Start(t), Start(e))

(* Adding blocks, and a branch to two of them.                             *)
LEMMA BranchAdded ==
  ASSUME NEW c \in Seq(Seq(Insn)), NEW b \in 1..Len(c), NEW n \in Nat, NEW t \in Nat, NEW e \in Nat,
         NEW d, d = branch(c, b, n, t, e)
  PROVE  /\ Branches(c, b, n, t, e, d)
         /\ \A a, w : AllPlaced(a, c, w) /\ Placed(a, w, INS("COND", n), Here(c, b)) => AllPlaced(a, d, w)
<1> DEFINE i == INS("COND", n)
           j == BR(n, t, e)
           m == append(c, b, i)
<1>1. i \in Insn /\ j \in Insn /\ i.op = "COND" /\ j.op = "BR"
  <2>1. "COND" \in Ops
    BY DEF Ops, Visible
  <2>2. i \in Insn /\ i.op = "COND"
    BY <2>1, Instructions
  <2>3. j \in Insn /\ j.op = "BR"
    BY Instructions
  <2>4. QED
    BY <2>2, <2>3
<1>2. d = append(m, b, j)
  BY DEF branch
<1> HIDE DEF i, j
<1>3. /\ Kept(c, m, {b}) /\ Len(m) = Len(c) /\ Holds(m, Here(c, b), i) /\ Here(m, b) = Succ(Here(c, b))
  BY <1>1, AppendKeeps
<1>4. m \in Seq(Seq(Insn)) /\ b \in 1..Len(m)
  BY <1>3 DEF Kept
<1>8. \A a, w : AllPlaced(a, c, w) /\ Placed(a, w, i, Here(c, b)) => AllPlaced(a, m, w)
  BY <1>1, PlacedOn
<1> HIDE DEF m
<1>5. Kept(m, d, {b}) /\ Len(d) = Len(m) /\ Holds(d, Here(m, b), j)
  <2>1. m \in Seq(Seq(Insn)) /\ b \in 1..Len(m) /\ j \in Insn /\ d = append(m, b, j)
    BY <1>1, <1>2, <1>4
  <2>2. QED
    BY ONLY <2>1, AppendKeeps
<1>6. Kept(c, d, {b})
  <2>1. Kept(c, d, {b} \cup {b})
    BY <1>3, <1>4, <1>5, KeptOn
  <2>2. {b} \cup {b} = {b}
    OBVIOUS
  <2>3. QED
    BY <2>1, <2>2
<1>7. BranchAt(d, Here(c, b), n, Start(t), Start(e))
  <2>1. Holds(d, Here(c, b), i)
    BY <1>3, <1>5, GrownKeeps DEF Kept
  <2>2. Holds(d, Succ(Here(c, b)), j)
    BY <1>3, <1>5
  <2>3. Start(t)[1] = t /\ Start(e)[1] = e
    BY DEF Start
  <2>4. QED
    BY <2>1, <2>2, <2>3 DEF BranchAt, i, j
<1>9. \A a, w : AllPlaced(a, c, w) /\ Placed(a, w, i, Here(c, b)) => AllPlaced(a, d, w)
  <2> SUFFICES ASSUME NEW a, NEW w, AllPlaced(a, c, w), Placed(a, w, i, Here(c, b))
               PROVE  AllPlaced(a, d, w)
    OBVIOUS
  <2>1. AllPlaced(a, m, w)
    BY <1>8
  <2>2. j.op \in Visible => Placed(a, w, j, Here(m, b))
    BY <1>1 DEF Visible
  <2>3. QED
    BY <1>1, <1>2, <1>4, <2>1, <2>2, PlacedOn
<1>10. QED
  BY <1>3, <1>5, <1>6, <1>7, <1>9 DEF Branches, Kept, i
-----------------------------------------------------------------------------
(* From the current block to an if: its condition, and the true case *)
LEMMA IfSim ==
  ASSUME NEW a, NEW c, NEW es, NEW cs, NEW vs, NEW b, NEW h, NEW w, NEW x, Arriving(a, c, es, cs, vs, b, h, w, x),
         x.kind = "if",
         NEW t, t = Len(c) + 1, NEW e, e = Len(c) + 2, NEW m, m = Len(c) + 3,
         NEW c2, c2 = branch(addBasicBlocks(c, 3), b, Len(a) + 1, t, e),
         NEW fr, fr = Frame(Len(a) + 1, "then", FALSE, Null, e, m)
  PROVE  \E w2 : Sim(Append(a, x), c2, es, cs, Append(ThisDone(vs), fr), t, h, w2)
<1> DEFINE n == Len(a) + 1
           more == addBasicBlocks(c, 3)
           s == [first |-> Here(c, b), after |-> Start(m), cond |-> Here(c, b), body |-> Start(t), alt |-> Start(e)]
           a2 == Append(a, x)
           w2 == Append(w, s)
<1>1. /\ a \in Seq(NodeType) /\ Len(a) \in Nat /\ n \in Nat \ {0} /\ n \in Nat /\ Len(c) \in Nat
      /\ c \in Seq(Seq(Insn)) /\ b \in 1..Len(c) /\ b \in Nat /\ Here(c, b) \in Spot
      /\ t \in Nat /\ e \in Nat /\ m \in Nat
  BY ArrivingAt
<1> HIDE DEF n
<1>2. /\ Kept(c, more, {}) /\ Len(more) = Len(c) + 3 /\ more \in Seq(Seq(Insn))
      /\ more[t] = <<>> /\ more[e] = <<>> /\ more[m] = <<>>
      /\ \A a1, w1 : AllPlaced(a1, c, w1) => AllPlaced(a1, more, w1)
  <2> DEFINE k == 3
  <2>1. more = addBasicBlocks(c, k) /\ k \in Nat
    OBVIOUS
  <2>2. \A y \in {t, e, m} : y \in (Len(c) + 1)..(Len(c) + k)
    BY <1>1
  <2> HIDE DEF more, k
  <2>3. Kept(c, more, {}) /\ Len(more) = Len(c) + k /\ \A y \in (Len(c) + 1)..(Len(c) + k) : more[y] = <<>>
    BY <1>1, <2>1, AddingKeeps
  <2>4. \A a1, w1 : AllPlaced(a1, c, w1) => AllPlaced(a1, more, w1)
    BY <1>1, <2>1, PlacedAdding
  <2>5. QED
    BY <2>2, <2>3, <2>4 DEF Kept, k
<1>4. c2 = branch(more, b, n, t, e)
  BY DEF n
<1> HIDE DEF more
<1>3. Here(more, b) = Here(c, b) /\ b \in 1..Len(more)
  <2>1. Kept(c, more, {}) /\ b \in 1..Len(c) /\ b \notin {}
    BY <1>1, <1>2
  <2>2. QED
    BY <2>1, KeptHere
<1>5. /\ Branches(more, b, n, t, e, c2)
      /\ \A a1, w1 : AllPlaced(a1, more, w1) /\ Placed(a1, w1, INS("COND", n), Here(more, b)) => AllPlaced(a1, c2, w1)
  <2>1. /\ more \in Seq(Seq(Insn)) /\ b \in 1..Len(more) /\ n \in Nat /\ t \in Nat /\ e \in Nat
        /\ c2 = branch(more, b, n, t, e)
    BY <1>1, <1>2, <1>3, <1>4
  <2>2. Branches(more, b, n, t, e, c2)
    BY <2>1, BranchAdded
  <2>3. \A a1, w1 : AllPlaced(a1, more, w1) /\ Placed(a1, w1, INS("COND", n), Here(more, b)) => AllPlaced(a1, c2, w1)
    BY <2>1, BranchAdded
  <2>4. QED
    BY <2>2, <2>3
<1>6. /\ Kept(c, c2, {b}) /\ c2 \in Seq(Seq(Insn)) /\ BranchAt(c2, Here(c, b), n, Start(t), Start(e))
      /\ c2[t] = <<>> /\ c2[e] = <<>> /\ c2[m] = <<>>
  <2>1. Kept(more, c2, {b}) /\ c2 \in Seq(Seq(Insn)) /\ BranchAt(c2, Here(c, b), n, Start(t), Start(e))
    BY <1>3, <1>5 DEF Branches
  <2>2. Kept(c, c2, {} \cup {b})
    BY <1>1, <1>2, <2>1, KeptOn
  <2>3. {} \cup {b} = {b}
    OBVIOUS
  <2>4. \A y \in {t, e, m} : y \in 1..Len(more) /\ y \notin {b}
    <3> TAKE y \in {t, e, m}
    <3>1. y \in 1..(Len(c) + 3) /\ y > Len(c) /\ b <= Len(c)
      BY <1>1
    <3>2. y # b
      BY <1>1, <3>1
    <3>3. y \in 1..Len(more)
      BY <1>2, <3>1
    <3>4. QED
      BY <3>2, <3>3
  <2>5. QED
    BY <1>2, <2>1, <2>2, <2>3, <2>4 DEF Kept
<1>7. Near(c, Len(es), cs, b, c2, {b})
  <2>1. Ground(a, c, es, cs, vs, b) /\ \A y \in {b} : y \in 1..Len(c) => y = b
    BY DEF Arriving
  <2>2. QED
    BY <1>6, <2>1, NearHere
<1>8. /\ s \in Where /\ s.first = Here(c, b) /\ s.after = Start(m) /\ s.body = Start(t) /\ s.alt = Start(e)
  <2>1. Start(t) \in Nat \X Nat /\ Start(e) \in Nat \X Nat /\ Start(m) \in Nat \X Nat
    BY <1>1 DEF Start
  <2>2. QED
    BY <1>1, <2>1 DEF Where, Spot
<1> HIDE DEF s, a2, w2
<1>9. AddsNode(a, c, es, cs, vs, b, h, w, x, a2, s, w2, c2)
  BY <1>7, <1>8 DEF AddsNode, Arriving, a2, w2
<1>10. /\ a2[n] = x /\ w2[n] = s /\ n \in 1..Len(a2) /\ AllPlaced(a2, c, w2)
       /\ NodeIsAdded(a, c, es, cs, vs, h, w, x, a2, s, w2, c2)
  BY <1>9, Arrived DEF n
<1>11. Entered(a2, c2, w2, n)
  BY <1>6, <1>8, <1>10 DEF Entered, Untranslatable
<1>12. \A role : Children(a2, n, role) = {}
  BY <1>10, NoChildren DEF n
<1>13. /\ fr \in FrameType /\ fr.at = n /\ fr.role = "then" /\ ~fr.done /\ fr.alt = e /\ fr.merge = m
  BY <1>1 DEF Frame, FrameType, Roles, Null, n
<1>14. FrameAt(a2, c2, w2, fr)
  <2>1. Pending(fr) = {e, m}
    BY <1>13 DEF Pending
  <2>2. "then" \in RoleOf(a2[n].kind)
    BY <1>10 DEF RoleOf
  <2>3. QED
    BY <1>6, <1>8, <1>10, <1>12, <1>13, <2>1, <2>2 DEF FrameAt
<1>15. ControlAt(a2, c2, w2, fr, t)
  <2>1. Here(c2, t) = Start(t)
    <3>1. Len(c2[t]) = 0
      BY <1>6
    <3>2. QED
      BY <3>1 DEF Here, Start
  <2>2. StartOf(w2[n], "then") = Start(t)
    BY <1>8, <1>10 DEF StartOf
  <2>3. QED
    BY <1>12, <1>13, <2>1, <2>2 DEF ControlAt
<1>16. AllPlaced(a2, c2, w2)
  <2>1. Placed(a2, w2, INS("COND", n), Here(more, b))
    <3>1. "COND" \in Parts(x.kind)
      BY DEF Parts
    <3>2. PartAt(a2, w2, n, "COND") = Here(c, b)
      BY <1>8, <1>10 DEF PartAt
    <3>3. INS("COND", n).op = "COND" /\ INS("COND", n).at = n
      BY DEF INS
    <3>4. QED
      BY <1>3, <1>10, <3>1, <3>2, <3>3 DEF Placed
  <2>2. QED
    BY <1>2, <1>5, <1>10, <2>1
<1>17. Held(a2, Append(PathOf(vs), n), Len(es), cs, h)
  <2>1. Held(a2, PathOf(vs), Len(es), cs, h)
    BY <1>10 DEF NodeIsAdded
  <2>2. PathOf(vs) \in Seq(Nat)
    <3>1. vs \in Seq(FrameType)
      BY DEF Arriving, Ground
    <3>2. QED
      BY <3>1, PathIs
  <2>3. a2[n].kind # "block" /\ a2[n].kind \notin Loops
    BY <1>10 DEF Loops
  <2> DEFINE p == PathOf(vs)
             p2 == Append(p, n)
  <2>4. p \in Seq(Nat) /\ p2 = Append(p, n) /\ Held(a2, p, Len(es), cs, h)
    BY <2>1, <2>2
  <2> HIDE DEF p, p2
  <2>5. Held(a2, p2, Len(es), cs, h)
    BY <1>1, <2>3, <2>4, HeldPlain
  <2>6. QED
    BY <2>5 DEF p, p2
<1>18. \A k \in (Len(es) + 1)..Len(cs) : ContextAt(a2, c2, w2, cs[k], h[k])
  BY <1>10 DEF NodeIsAdded
<1>19. Sim(a2, c2, es, cs, Append(ThisDone(vs), fr), t, h, w2)
  <2>1. /\ fr \in FrameType /\ fr.at = Len(a) + 1
        /\ Held(a2, Append(PathOf(vs), Len(a) + 1), Len(es), cs, h)
        /\ Entered(a2, c2, w2, Len(a) + 1)
    BY <1>11, <1>13, <1>17 DEF n
  <2>2. QED
    BY <1>9, <1>14, <1>15, <1>16, <1>18, <2>1, CompoundSim
<1>20. QED
  BY <1>19 DEF a2
-----------------------------------------------------------------------------
(* The path to a node that was just added, n, from the innermost visit *)
PathTo(a2, es, cs, vs, h, n) ==
  /\ PathOf(vs) \in Seq(Nat) /\ PathOf(vs) # <<>> /\ Len(PathOf(vs)) = Len(vs)
  /\ Onto(PathOf(vs), n, Append(PathOf(vs), n))
  /\ Path(a2, Append(PathOf(vs), n)) /\ Held(a2, PathOf(vs), Len(es), cs, h)
  /\ a2 \in Seq(NodeType) /\ Tree(a2)

(* The path with a node added.                                             *)
LEMMA PathAdded ==
  ASSUME NEW a, NEW c, NEW es, NEW cs, NEW vs, NEW b, NEW h, NEW w, NEW x, Arriving(a, c, es, cs, vs, b, h, w, x),
         NEW a2, NEW s, NEW w2, NEW c2, NodeIsAdded(a, c, es, cs, vs, h, w, x, a2, s, w2, c2)
  PROVE  PathTo(a2, es, cs, vs, h, Len(a) + 1)
<1> DEFINE p == PathOf(vs)
           n == Len(a) + 1
<1>1. vs \in Seq(FrameType) /\ vs # <<>>
  BY DEF Arriving, Ground
<1>2. p \in Seq(Nat) /\ p # <<>> /\ Len(p) = Len(vs)
  <2>1. p \in Seq(Nat) /\ Len(p) = Len(vs) /\ Len(vs) \in 1..Len(vs)
    BY <1>1, PathIs, TopIs
  <2> HIDE DEF p
  <2>2. p # <<>>
    BY <2>1
  <2>3. QED
    BY <2>1, <2>2
<1>3. n \in Nat /\ Path(a2, Append(p, n)) /\ Held(a2, p, Len(es), cs, h) /\ a2 \in Seq(NodeType) /\ Tree(a2)
  BY DEF NodeIsAdded, Prefix
<1> HIDE DEF p, n
<1>4. Onto(p, n, Append(p, n))
  BY <1>2, <1>3, OntoPath
<1>5. PathTo(a2, es, cs, vs, h, n)
  BY <1>2, <1>3, <1>4 DEF PathTo, p
<1>6. QED
  BY <1>5 DEF n

(* What is known of the contexts once the visit of node n began *)
Enters(a2, c2, w2, es, vs, n, cs2, h2) ==
  /\ Held(a2, Append(PathOf(vs), n), Len(es), cs2, h2)
  /\ \A k \in (Len(es) + 1)..Len(cs2) : ContextAt(a2, c2, w2, cs2[k], h2[k])

(* enterBlock, for any contexts *)
BlockOn(cs, locals, first) ==
  Append(cs, Context(locals, first, Last(cs).breakBlock, Last(cs).continueBlock))

(* What a loop does to the context around it *)
LEMMA LoopEnters ==
  ASSUME NEW a, NEW c, NEW es, NEW cs, NEW vs, NEW b, NEW h, NEW w, NEW x, Arriving(a, c, es, cs, vs, b, h, w, x),
         NEW a2, NEW s, NEW w2, NEW c2, NodeIsAdded(a, c, es, cs, vs, h, w, x, a2, s, w2, c2),
         x.kind \in Loops, NEW cont \in Nat \ {0}, NEW brk \in Nat \ {0},
         w2[Len(a) + 1].after = Start(brk), ContinueAt(a2, w2, Len(a) + 1) = Start(cont),
         NEW cs2, NEW h2, InLoop(cs, h, Len(a) + 1, cont, brk, cs2, h2)
  PROVE  Enters(a2, c2, w2, es, vs, Len(a) + 1, cs2, h2)
<1> DEFINE n == Len(a) + 1
           p == PathOf(vs)
           p2 == Append(p, n)
           K == Len(cs)
           e == Len(es)
<1>1. /\ cs \in Seq(ContextType) /\ K \in Nat /\ e \in Nat /\ K > e /\ Len(a) \in Nat /\ n \in Nat
  <2>1. x.kind # "block"
    BY DEF Loops
  <2>2. Len(cs) > Len(es)
    BY <2>1 DEF Arriving
  <2>3. QED
    BY <2>2, ArrivingAt
<1>2. /\ p \in Seq(Nat) /\ Onto(p, n, p2)
      /\ Path(a2, p2) /\ Held(a2, p, e, cs, h) /\ a2 \in Seq(NodeType) /\ Tree(a2)
  BY PathAdded DEF PathTo
<1>3. n \in 1..Len(a2) /\ a2[n].kind \in Loops
  BY <1>1 DEF NodeIsAdded
<1>4. h \in Seq(HeldType) /\ Len(h) = K
  BY <1>2 DEF Held, HeldTargets
<1> HIDE DEF n, p2, p
<1>9. InLoop(cs, h, n, cont, brk, cs2, h2)
  BY DEF n
<1>5. /\ Len(cs2) = K /\ \A k \in 1..K : k # K => cs2[k] = cs[k]
      /\ cs2[K].breakBlock = brk /\ cs2[K].continueBlock = cont
      /\ cs2[K].localsBlock = cs[K].localsBlock
      /\ cs2[K].firstBB = cs[K].firstBB
      /\ h2 \in Seq(HeldType) /\ Len(h2) = K /\ \A k \in 1..K : k # K => h2[k] = h[k]
      /\ h2[K].block = h[K].block /\ h2[K].loop = n
  BY <1>9 DEF InLoop
<1>6. Held(a2, p2, e, cs2, h2)
  <2>1. cont # Null /\ brk # Null
    BY DEF Null
  <2>2. /\ a2 \in Seq(NodeType) /\ Tree(a2) /\ p \in Seq(Nat) /\ n \in Nat /\ n \in 1..Len(a2)
        /\ Onto(p, n, p2) /\ Path(a2, p2) /\ a2[n].kind \in Loops
    BY <1>1, <1>2, <1>3
  <2>3. e \in Nat /\ cs \in Seq(ContextType) /\ Len(cs) > e /\ Held(a2, p, e, cs, h)
    BY <1>1, <1>2
  <2> HIDE DEF K, e
  <2>4. QED
    BY <1>9, <2>1, <2>2, <2>3, HeldLoop
<1>7. ASSUME NEW k \in (e + 1)..K PROVE ContextAt(a2, c2, w2, cs2[k], h2[k])
  <2>1. ContextAt(a2, c2, w2, cs[k], h[k])
    BY DEF NodeIsAdded
  <2>2. CASE k # K
    <3>1. k \in 1..K
      BY <1>1
    <3>2. QED
      BY <1>5, <2>1, <2>2, <3>1
  <2>3. CASE k = K
    <3>1. /\ SilentBlock(c2, cs2[k].localsBlock)
          /\ w2[h2[k].block].alt = Start(cs2[k].localsBlock)
          /\ w2[h2[k].block].body = Start(cs2[k].firstBB)
      BY <1>5, <2>1, <2>3 DEF ContextAt
    <3>2. w2[h2[k].loop].after = Start(cs2[k].breakBlock)
      BY <1>5, <2>3 DEF n
    <3>3. ContinueAt(a2, w2, h2[k].loop) = Start(cs2[k].continueBlock)
      BY <1>5, <2>3 DEF n
    <3>4. QED
      BY <3>1, <3>2, <3>3 DEF ContextAt
  <2>4. QED
    BY <2>2, <2>3
<1>8. QED
  BY <1>5, <1>6, <1>7 DEF p2, p, n, Enters

(* ... and a block *)
LEMMA BlockEnters ==
  ASSUME NEW a, NEW c, NEW es, NEW cs, NEW vs, NEW b, NEW h, NEW w, NEW x, Arriving(a, c, es, cs, vs, b, h, w, x),
         NEW a2, NEW s, NEW w2, NEW c2, NodeIsAdded(a, c, es, cs, vs, h, w, x, a2, s, w2, c2),
         x.kind = "block", NEW locals \in Nat, NEW first \in Nat, c2[locals] = <<>>,
         w2[Len(a) + 1].alt = Start(locals), w2[Len(a) + 1].body = Start(first),
         NEW cs2, cs2 = BlockOn(cs, locals, first),
         NEW h2, h2 = HeldOn(h, Len(a) + 1)
  PROVE  Enters(a2, c2, w2, es, vs, Len(a) + 1, cs2, h2)
<1> DEFINE n == Len(a) + 1
           p == PathOf(vs)
           p2 == Append(p, n)
           K == Len(cs)
           e == Len(es)
           cx == Context(locals, first, Last(cs).breakBlock, Last(cs).continueBlock)
<1>1. /\ cs \in Seq(ContextType) /\ K \in Nat /\ e \in Nat /\ e \in Nat \ {0} /\ K >= e /\ Len(a) \in Nat /\ n \in Nat
      /\ Len(vs) >= 2 => K > e
  <2>1. es \in Seq(Nat) /\ es # <<>> /\ K >= e /\ (Len(vs) >= 2 => K > e)
    BY ArrivingAt DEF Arriving, Ground
  <2>2. e # 0
    BY <2>1, EmptySeq
  <2>3. QED
    BY <2>1, <2>2, ArrivingAt
<1>2. /\ p \in Seq(Nat) /\ p # <<>> /\ Len(p) = Len(vs) /\ Onto(p, n, p2)
      /\ Path(a2, p2) /\ Held(a2, p, e, cs, h) /\ a2 \in Seq(NodeType) /\ Tree(a2)
  BY PathAdded DEF PathTo
<1>3. n \in 1..Len(a2) /\ a2[n].kind = "block"
  BY <1>1 DEF NodeIsAdded
<1>4. cx \in ContextType /\ Last(cs) \in ContextType
  <2>1. K \in 1..K /\ Last(cs) = cs[K]
    BY <1>1 DEF Last
  <2>2. Last(cs) \in ContextType
    BY <1>1, <2>1, ElementOfSeq
  <2>3. QED
    BY <2>2 DEF Context, ContextType
<1>5. /\ cx.breakBlock = Last(cs).breakBlock /\ cx.continueBlock = Last(cs).continueBlock
      /\ cx.localsBlock = locals /\ cx.firstBB = first
  BY DEF Context
<1> HIDE DEF n, p2, p, cx
<1>6. /\ Len(cs2) = K + 1 /\ cs2[K + 1] = cx /\ \A k \in 1..K : cs2[k] = cs[k]
  <2>1. cs2 = Append(cs, cx)
    BY DEF cx, BlockOn
  <2>2. QED
    BY <1>1, <1>4, <2>1, AppendProperties
<1>7. Held(a2, p2, e, cs2, h2) /\ OnTop(cs, h, n, h2)
  <2>1. /\ a2 \in Seq(NodeType) /\ Tree(a2) /\ p \in Seq(Nat) /\ p # <<>> /\ n \in Nat
        /\ Onto(p, n, p2) /\ Path(a2, p2) /\ a2[n].kind = "block"
    BY <1>1, <1>2, <1>3
  <2>2. /\ e \in Nat \ {0} /\ cs \in Seq(ContextType) /\ Len(cs) >= e /\ (Len(p) >= 2 => Len(cs) > e)
        /\ Held(a2, p, e, cs, h)
    BY <1>1, <1>2
  <2>3. InBlock(cs, cx, cs2)
    BY <1>5, <1>6 DEF InBlock
  <2>4. h2 = HeldOn(h, n)
    BY DEF n
  <2> HIDE DEF K, e
  <2>5. QED
    BY <2>1, <2>2, <2>3, <2>4, HeldBlock
<1>8. ASSUME NEW k \in (e + 1)..(K + 1) PROVE ContextAt(a2, c2, w2, cs2[k], h2[k])
  <2>1. CASE k # K + 1
    <3>1. k \in 1..K /\ k \in (e + 1)..K
      <4>1. K \in Nat /\ e \in Nat /\ k \in (e + 1)..(K + 1) /\ k # K + 1
        BY <1>1, <2>1
      <4> HIDE DEF K, e
      <4>2. QED
        BY <4>1
    <3>2. ContextAt(a2, c2, w2, cs[k], h[k])
      BY <3>1 DEF NodeIsAdded
    <3>3. QED
      BY <1>6, <1>7, <3>1, <3>2 DEF OnTop
  <2>2. CASE k = K + 1
    <3>1. cs2[k] = cx /\ h2[k].block = n /\ h2[k].loop = h[K].loop
      BY <1>6, <1>7, <2>2 DEF OnTop
    <3>2. SilentBlock(c2, locals)
      BY DEF SilentBlock
    <3>3. w2[n].alt = Start(locals) /\ w2[n].body = Start(first)
      BY DEF n
    <3>4. ASSUME h[K].loop # 0
          PROVE  /\ w2[h[K].loop].after = Start(cx.breakBlock)
                 /\ ContinueAt(a2, w2, h[K].loop) = Start(cx.continueBlock)
      <4>1. K # e
        <5>1. e \in 1..e
          BY <1>1
        <5>2. h[e].loop = 0
          BY <1>2, <5>1 DEF Held, HeldTargets
        <5>3. QED
          BY <3>4, <5>2
      <4>2. K \in (e + 1)..K /\ Last(cs) = cs[K]
        BY <1>1, <4>1 DEF Last
      <4>3. ContextAt(a2, c2, w2, cs[K], h[K])
        BY <4>2 DEF NodeIsAdded
      <4>4. QED
        BY <1>5, <3>4, <4>2, <4>3 DEF ContextAt
    <3>5. QED
      BY <1>5, <3>1, <3>2, <3>3, <3>4 DEF ContextAt
  <2>3. QED
    BY <2>1, <2>2
<1>9. QED
  BY <1>6, <1>7, <1>8 DEF p2, p, n, Enters
-----------------------------------------------------------------------------
(* The visit of node n, opened with frame fr, begins in block b2. *)
Opens(a2, c2, w2, es, vs, n, s, fr, b2, cs2, h2) ==
  /\ fr \in FrameType /\ fr.at = n
  /\ Enters(a2, c2, w2, es, vs, n, cs2, h2)
  /\ Entered(a2, c2, w2, n)
  /\ FrameAt(a2, c2, w2, fr)
  /\ c2[b2] = <<>> /\ StartOf(s, fr.role) = Start(b2)
  /\ AllPlaced(a2, c2, w2)

(* A visit that stays active and makes no loop.                            *)
LEMMA OpenSim ==
  ASSUME NEW a, NEW c, NEW es, NEW cs, NEW vs, NEW b, NEW h, NEW w, NEW x, NEW a2, NEW s, NEW w2, NEW c2,
         AddsNode(a, c, es, cs, vs, b, h, w, x, a2, s, w2, c2),
         NEW fr, NEW b2, NEW cs2, NEW h2, Opens(a2, c2, w2, es, vs, Len(a) + 1, s, fr, b2, cs2, h2)
  PROVE  Sim(a2, c2, es, cs2, Append(ThisDone(vs), fr), b2, h2, w2)
<1> DEFINE n == Len(a) + 1
<1>1. w2[n] = s /\ NodeIsAdded(a, c, es, cs, vs, h, w, x, a2, s, w2, c2)
  BY Arrived
<1>2. \A role : Children(a2, n, role) = {}
  BY <1>1, NoChildren
<1>3. fr.at = n /\ c2[b2] = <<>> /\ StartOf(s, fr.role) = Start(b2)
  BY DEF Opens
<1> HIDE DEF n
<1>4. ControlAt(a2, c2, w2, fr, b2)
  <2>1. Here(c2, b2) = Start(b2)
    BY <1>3 DEF Here, Start
  <2>2. QED
    BY <1>1, <1>2, <1>3, <2>1 DEF ControlAt
<1>5. /\ fr \in FrameType /\ fr.at = Len(a) + 1
      /\ Held(a2, Append(PathOf(vs), Len(a) + 1), Len(es), cs2, h2)
      /\ \A k \in (Len(es) + 1)..Len(cs2) : ContextAt(a2, c2, w2, cs2[k], h2[k])
      /\ Entered(a2, c2, w2, Len(a) + 1) /\ FrameAt(a2, c2, w2, fr) /\ AllPlaced(a2, c2, w2)
  BY DEF Opens, Enters
<1>6. QED
  BY <1>4, <1>5, CompoundSim

(* d is c with k more blocks, and a jump to the new block t at the end of b. *)
JumpsOn(c, b, k, t, d) ==
  /\ Kept(c, d, {b}) /\ d \in Seq(Seq(Insn)) /\ Len(d) = Len(c) + k
  /\ Leads(d, Here(c, b), Start(t))
  /\ \A y \in (Len(c) + 1)..(Len(c) + k) : d[y] = <<>> /\ y \in 1..Len(d) /\ y \in Nat /\ y # b /\ Here(d, y) = Start(y)
  /\ \A a, w : AllPlaced(a, c, w) => AllPlaced(a, d, w)

(* Adding blocks and a jump to one of them.                                *)
LEMMA JumpingOn ==
  ASSUME NEW c \in Seq(Seq(Insn)), NEW b \in 1..Len(c), NEW k \in Nat, NEW t \in Nat,
         NEW d, d = append(addBasicBlocks(c, k), b, JMP(t))
  PROVE  JumpsOn(c, b, k, t, d)
<1> DEFINE i == JMP(t)
<1>1. i \in Insn /\ i.op \notin Visible
  <2>1. i \in Insn /\ i.op = "JMP"
    BY Instructions
  <2>2. QED
    BY <2>1 DEF Visible
<1>2. d = append(addBasicBlocks(c, k), b, i)
  OBVIOUS
<1> HIDE DEF i
<1>3. Extended(c, b, k, i, d)
  BY <1>1, <1>2, AddAndAppend
<1>4. \A a, w : AllPlaced(a, c, w) => AllPlaced(a, d, w)
  BY <1>1, <1>2, AddAndAppend
<1>5. Holds(d, Here(c, b), JMP(t))
  BY <1>3 DEF Extended, i
<1>6. Leads(d, Here(c, b), Start(t))
  BY <1>5, LeadsJump
<1>7. /\ Kept(c, d, {b}) /\ d \in Seq(Seq(Insn)) /\ Len(d) = Len(c) + k
      /\ \A y \in (Len(c) + 1)..(Len(c) + k) : d[y] = <<>> /\ y \in 1..Len(d)
  BY <1>3 DEF Extended
<1>8. ASSUME NEW y \in (Len(c) + 1)..(Len(c) + k) PROVE y \in Nat /\ y # b /\ Here(d, y) = Start(y)
  <2>1. Len(c) \in Nat
    BY LenProperties
  <2>2. y \in Nat /\ y # b
    BY <2>1
  <2>3. Here(d, y) = Start(y)
    BY <1>7 DEF Here, Start
  <2>4. QED
    BY <2>2, <2>3
<1>9. QED
  BY <1>4, <1>6, <1>7, <1>8 DEF JumpsOn
-----------------------------------------------------------------------------
(* From the current block to a block *)
LEMMA BlockSim ==
  ASSUME NEW a, NEW c, NEW es, NEW cs, NEW vs, NEW b, NEW h, NEW w, NEW x, Arriving(a, c, es, cs, vs, b, h, w, x),
         x.kind = "block",
         NEW locals, locals = Len(c) + 1, NEW first, first = Len(c) + 2,
         NEW c2, c2 = append(addBasicBlocks(c, 2), b, JMP(locals)),
         NEW fr, fr = Frame(Len(a) + 1, "block", FALSE, Null, Null, Null),
         NEW cs2, cs2 = BlockOn(cs, locals, first)
  PROVE  \E h2, w2 : Sim(Append(a, x), c2, es, cs2, Append(ThisDone(vs), fr), first, h2, w2)
<1> DEFINE n == Len(a) + 1
           q == Here(c, b)
           s == [first |-> q, after |-> q, cond |-> q, body |-> Start(first), alt |-> Start(locals)]
           a2 == Append(a, x)
           w2 == Append(w, s)
           h2 == HeldOn(h, n)
<1>1. /\ a \in Seq(NodeType) /\ Len(a) \in Nat /\ n \in Nat \ {0} /\ n \in Nat /\ Len(c) \in Nat
      /\ c \in Seq(Seq(Insn)) /\ b \in 1..Len(c) /\ b \in Nat /\ q \in Spot
      /\ locals \in Nat /\ first \in Nat
  BY ArrivingAt
<1> HIDE DEF n
<1>2. JumpsOn(c, b, 2, locals, c2)
  <2> DEFINE k == 2
  <2>1. k \in Nat /\ c2 = append(addBasicBlocks(c, k), b, JMP(locals))
    OBVIOUS
  <2> HIDE DEF k
  <2>2. JumpsOn(c, b, k, locals, c2)
    BY <1>1, <2>1, JumpingOn
  <2>3. QED
    BY <2>2 DEF k
<1>3. /\ Kept(c, c2, {b}) /\ c2 \in Seq(Seq(Insn)) /\ Leads(c2, q, Start(locals))
      /\ \A a1, w1 : AllPlaced(a1, c, w1) => AllPlaced(a1, c2, w1)
  BY <1>2 DEF JumpsOn
<1>4. c2[locals] = <<>> /\ c2[first] = <<>>
  <2>1. locals \in (Len(c) + 1)..(Len(c) + 2) /\ first \in (Len(c) + 1)..(Len(c) + 2)
    BY <1>1
  <2>2. QED
    BY <1>2, <2>1 DEF JumpsOn
<1>5. Near(c, Len(es), cs, b, c2, {b})
  <2>1. Ground(a, c, es, cs, vs, b) /\ \A y \in {b} : y \in 1..Len(c) => y = b
    BY DEF Arriving
  <2>2. QED
    BY <1>3, <2>1, NearHere
<1>6. s \in Where /\ s.first = q /\ s.body = Start(first) /\ s.alt = Start(locals)
  <2>1. Start(first) \in Nat \X Nat /\ Start(locals) \in Nat \X Nat
    BY <1>1 DEF Start
  <2>2. QED
    BY <1>1, <2>1 DEF Where, Spot
<1> HIDE DEF s, a2, w2, q
<1>7. AddsNode(a, c, es, cs, vs, b, h, w, x, a2, s, w2, c2)
  BY <1>5, <1>6 DEF AddsNode, Arriving, a2, w2, q
<1>8. /\ a2[n] = x /\ w2[n] = s /\ n \in 1..Len(a2) /\ AllPlaced(a2, c, w2)
      /\ NodeIsAdded(a, c, es, cs, vs, h, w, x, a2, s, w2, c2)
  BY <1>7, Arrived DEF n
<1>9. Entered(a2, c2, w2, n)
  BY <1>3, <1>6, <1>8 DEF Entered, Untranslatable
<1>10. /\ fr \in FrameType /\ fr.at = n /\ fr.role = "block"
  BY <1>1 DEF Frame, FrameType, Roles, Null, n
<1>11. FrameAt(a2, c2, w2, fr)
  <2>1. Pending(fr) = {}
    BY <1>10 DEF Pending
  <2>2. "block" \in RoleOf(a2[n].kind)
    BY <1>8 DEF RoleOf
  <2>3. QED
    BY <1>10, <2>1, <2>2 DEF FrameAt
<1>12. Enters(a2, c2, w2, es, vs, n, cs2, h2)
  <2>1. w2[n].alt = Start(locals) /\ w2[n].body = Start(first) /\ h2 = HeldOn(h, n)
    BY <1>6, <1>8
  <2> HIDE DEF h2
  <2>2. QED
    BY <1>1, <1>4, <1>8, <2>1, BlockEnters DEF n
<1>13. Opens(a2, c2, w2, es, vs, n, s, fr, first, cs2, h2)
  <2>1. StartOf(s, fr.role) = Start(first)
    BY <1>6, <1>10 DEF StartOf
  <2> HIDE DEF h2
  <2>2. QED
    BY <1>3, <1>4, <1>8, <1>9, <1>10, <1>11, <1>12, <2>1 DEF Opens
<1> HIDE DEF h2
<1>14. Sim(a2, c2, es, cs2, Append(ThisDone(vs), fr), first, h2, w2)
  BY <1>7, <1>13, OpenSim DEF n
<1>15. QED
  BY <1>14 DEF a2
-----------------------------------------------------------------------------
(* What a new loop, node n, brings: its place s, the blocks of its frame,   *)
(* and where continue and break go to                                      *)
NewLoop(a2, c2, w2, n, s, kind, cond, alt, body, cont, brk) ==
  /\ kind \in Loops /\ a2[n].kind = kind
  /\ cond \in Nat /\ alt \in Nat /\ body \in Nat /\ cont \in Nat \ {0} /\ brk \in Nat \ {0}
  /\ s.after = Start(brk) /\ s.cond = Start(cond) /\ s.body = Start(body)
  /\ kind = "do" => alt = body
  /\ kind = "for" => s.alt = Start(alt)
  /\ Start(cont) = CASE kind = "while" -> s.body
                     [] kind = "do"    -> s.cond
                     [] OTHER          -> s.alt
  /\ c2[body] = <<>> /\ c2[brk] = <<>>
  /\ kind = "do" => c2[cond] = <<>>
  /\ kind = "for" => c2[alt] = <<>>
  /\ Entered(a2, c2, w2, n)
  /\ AllPlaced(a2, c2, w2)

(* A visit that enters a loop.                                             *)
LEMMA LoopSim ==
  ASSUME NEW a, NEW c, NEW es, NEW cs, NEW vs, NEW b, NEW h, NEW w, NEW x, NEW a2, NEW s, NEW w2, NEW c2,
         Arriving(a, c, es, cs, vs, b, h, w, x),
         AddsNode(a, c, es, cs, vs, b, h, w, x, a2, s, w2, c2),
         NEW cond, NEW alt, NEW body, NEW cont, NEW brk,
         NewLoop(a2, c2, w2, Len(a) + 1, s, x.kind, cond, alt, body, cont, brk)
  PROVE  \E h2 : Sim(a2, c2, es, LoopIn(cs, cont, brk),
                    Append(ThisDone(vs), Frame(Len(a) + 1, x.kind, FALSE, cond, alt, brk)), body, h2, w2)
<1> DEFINE n == Len(a) + 1
           fr == Frame(n, x.kind, FALSE, cond, alt, brk)
           cs2 == LoopIn(cs, cont, brk)
           h2 == HeldIn(h, n)
<1>1. /\ n \in Nat /\ n \in Nat \ {0} /\ cs \in Seq(ContextType) /\ Len(cs) \in Nat /\ Len(es) \in Nat
  BY ArrivingAt
<1>2. w2[n] = s /\ a2[n] = x /\ NodeIsAdded(a, c, es, cs, vs, h, w, x, a2, s, w2, c2)
  BY Arrived
<1> HIDE DEF n
<1>3. /\ x.kind \in Loops /\ a2[n].kind = x.kind
      /\ cond \in Nat /\ alt \in Nat /\ body \in Nat /\ cont \in Nat \ {0} /\ brk \in Nat \ {0}
      /\ s.after = Start(brk) /\ s.cond = Start(cond) /\ s.body = Start(body)
      /\ x.kind = "do" => alt = body
      /\ x.kind = "for" => s.alt = Start(alt)
      /\ c2[body] = <<>> /\ c2[brk] = <<>>
      /\ x.kind = "do" => c2[cond] = <<>>
      /\ x.kind = "for" => c2[alt] = <<>>
      /\ Entered(a2, c2, w2, n) /\ AllPlaced(a2, c2, w2)
  BY DEF NewLoop, n
<1>4. ContinueAt(a2, w2, n) = Start(cont)
  BY <1>2 DEF NewLoop, ContinueAt, n
<1>5. InLoop(cs, h, n, cont, brk, cs2, h2)
  <2>1. Held(a2, PathOf(vs), Len(es), cs, h)
    BY <1>2 DEF NodeIsAdded
  <2>2. h \in Seq(HeldType) /\ Len(h) = Len(cs)
    BY <2>1 DEF Held, HeldTargets
  <2>3. cs # <<>>
    <3>1. Len(cs) > Len(es)
      BY <1>3 DEF Arriving, Loops
    <3>2. QED
      BY <1>1, <3>1
  <2>4. QED
    BY <1>1, <2>2, <2>3, InnerContext
<1> HIDE DEF h2
<1> HIDE DEF cs2
<1>6. Enters(a2, c2, w2, es, vs, n, cs2, h2)
  <2>1. w2[n].after = Start(brk)
    BY <1>2, <1>3
  <2>2. QED
    BY <1>2, <1>3, <1>4, <1>5, <2>1, LoopEnters DEF n
<1>7. /\ fr \in FrameType /\ fr.at = n /\ fr.role = x.kind /\ ~fr.done
      /\ fr.cond = cond /\ fr.alt = alt /\ fr.merge = brk
  <2>1. x.kind \in Roles
    BY <1>3 DEF Loops, Roles
  <2>2. QED
    BY <1>1, <1>3, <2>1 DEF Frame, FrameType, n
<1> HIDE DEF fr
<1>8. FrameAt(a2, c2, w2, fr)
  <2>1. \A y \in Pending(fr) : c2[y] = <<>>
    BY <1>3, <1>7 DEF Pending, Loops
  <2>2. fr.role \in RoleOf(a2[n].kind)
    BY <1>3, <1>7 DEF RoleOf, Loops
  <2>3. \A role : Children(a2, n, role) = {}
    BY <1>2, NoChildren DEF n
  <2>4. fr.role \notin {"then", "else"}
    BY <1>3, <1>7 DEF Loops
  <2>5. /\ w2[n].after = Start(fr.merge) /\ w2[n].cond = Start(fr.cond)
        /\ fr.role = "do" => w2[n].body = Start(fr.alt)
        /\ fr.role = "for" => w2[n].alt = Start(fr.alt)
    BY <1>2, <1>3, <1>7
  <2>6. QED
    BY <1>7, <2>1, <2>2, <2>3, <2>4, <2>5 DEF FrameAt
<1>9. Opens(a2, c2, w2, es, vs, n, s, fr, body, cs2, h2)
  <2>1. StartOf(s, fr.role) = Start(body)
    BY <1>3, <1>7 DEF StartOf, Loops
  <2>2. QED
    BY <1>3, <1>6, <1>7, <1>8, <2>1 DEF Opens
<1>10. Sim(a2, c2, es, cs2, Append(ThisDone(vs), fr), body, h2, w2)
  BY <1>9, OpenSim DEF n
<1>11. QED
  BY <1>10 DEF fr, cs2, n
-----------------------------------------------------------------------------
(* d is c with k more blocks, a jump from b to the new block cond, and there *)
(* the condition of n with its branch to body or brk.                        *)
TestsOn(c, b, k, n, cond, body, brk, d) ==
  /\ Kept(c, d, {b, cond}) /\ d \in Seq(Seq(Insn))
  /\ Leads(d, Here(c, b), Start(cond))
  /\ BranchAt(d, Start(cond), n, Start(body), Start(brk))
  /\ \A y \in (Len(c) + 1)..(Len(c) + k) : y # cond => d[y] = <<>>
  /\ \A a, w : AllPlaced(a, c, w) /\ Placed(a, w, INS("COND", n), Start(cond)) => AllPlaced(a, d, w)

(* Adding blocks, a condition and its branch.                              *)
LEMMA TestingOn ==
  ASSUME NEW c \in Seq(Seq(Insn)), NEW b \in 1..Len(c), NEW k \in Nat, NEW n \in Nat,
         NEW cond \in (Len(c) + 1)..(Len(c) + k), NEW body \in Nat, NEW brk \in Nat,
         NEW d, d = branch(append(addBasicBlocks(c, k), b, JMP(cond)), cond, n, body, brk)
  PROVE  TestsOn(c, b, k, n, cond, body, brk, d)
<1> DEFINE m == append(addBasicBlocks(c, k), b, JMP(cond))
<1>1. m = append(addBasicBlocks(c, k), b, JMP(cond)) /\ d = branch(m, cond, n, body, brk)
  OBVIOUS
<1> HIDE DEF m
<1>2. cond \in Nat /\ Len(c) \in Nat
  BY LenProperties
<1>3. JumpsOn(c, b, k, cond, m)
  BY <1>1, <1>2, JumpingOn
<1>4. /\ Kept(c, m, {b}) /\ m \in Seq(Seq(Insn)) /\ Len(m) = Len(c) + k
      /\ Leads(m, Here(c, b), Start(cond)) /\ cond \in 1..Len(m) /\ Here(m, cond) = Start(cond)
      /\ \A y \in (Len(c) + 1)..(Len(c) + k) : m[y] = <<>> /\ y \in 1..Len(m)
      /\ \A a, w : AllPlaced(a, c, w) => AllPlaced(a, m, w)
  BY <1>3 DEF JumpsOn
<1>5. /\ Branches(m, cond, n, body, brk, d)
      /\ \A a, w : AllPlaced(a, m, w) /\ Placed(a, w, INS("COND", n), Here(m, cond)) => AllPlaced(a, d, w)
  <2>1. Branches(m, cond, n, body, brk, d)
    BY <1>1, <1>4, BranchAdded
  <2>2. \A a, w : AllPlaced(a, m, w) /\ Placed(a, w, INS("COND", n), Here(m, cond)) => AllPlaced(a, d, w)
    BY <1>1, <1>4, BranchAdded
  <2>3. QED
    BY <2>1, <2>2
<1>6. /\ Kept(m, d, {cond}) /\ d \in Seq(Seq(Insn)) /\ Grown(m, d)
      /\ BranchAt(d, Start(cond), n, Start(body), Start(brk))
  BY <1>4, <1>5 DEF Branches
<1>7. Kept(c, d, {b, cond})
  <2>1. Kept(c, d, {b} \cup {cond})
    BY <1>4, <1>6, KeptOn
  <2>2. {b} \cup {cond} = {b, cond}
    OBVIOUS
  <2>3. QED
    BY <2>1, <2>2
<1>8. Leads(d, Here(c, b), Start(cond))
  BY <1>4, <1>6, GrownKeeps
<1>9. \A y \in (Len(c) + 1)..(Len(c) + k) : y # cond => d[y] = <<>>
  BY <1>4, <1>6 DEF Kept
<1>10. \A a, w : AllPlaced(a, c, w) /\ Placed(a, w, INS("COND", n), Start(cond)) => AllPlaced(a, d, w)
  BY <1>4, <1>5
<1>11. QED
  BY <1>6, <1>7, <1>8, <1>9, <1>10 DEF TestsOn

(* The place of a loop *)
LoopSpot(q, brk, cond, body, alt) ==
  [first |-> q, after |-> Start(brk), cond |-> Start(cond), body |-> Start(body), alt |-> Start(alt)]

(* the spots of a loop that has been entered                               *)
IsLoopSpot(s, q, brk, cond, body, alt) ==
  /\ s \in Where /\ s.first = q /\ s.after = Start(brk) /\ s.cond = Start(cond)
  /\ s.body = Start(body) /\ s.alt = Start(alt)

(* They are of their type.                                                 *)
LEMMA LoopSpotIs ==
  ASSUME NEW q \in Spot, NEW brk \in Nat, NEW cond \in Nat, NEW body \in Nat, NEW alt \in Nat
  PROVE  IsLoopSpot(LoopSpot(q, brk, cond, body, alt), q, brk, cond, body, alt)
<1>1. \A y \in Nat : Start(y) \in Nat \X Nat
  BY DEF Start
<1>2. QED
  BY <1>1 DEF IsLoopSpot, LoopSpot, Where, Spot
-----------------------------------------------------------------------------
(* What visit(ASTWhile) does before its body, on entry to the loop *)
WhileEntry(a, c, b, cs, cond, body, brk, c2, fr, cs2) ==
  /\ cond = Len(c) + 1
  /\ body = Len(c) + 2
  /\ brk = Len(c) + 3
  /\ c2 = branch(append(addBasicBlocks(c, 3), b, JMP(cond)), cond, Len(a) + 1, body, brk)
  /\ fr = Frame(Len(a) + 1, "while", FALSE, cond, Null, brk)
  /\ cs2 = LoopIn(cs, body, brk)

(* From the current block to a while loop *)
LEMMA WhileSim ==
  ASSUME NEW a, NEW c, NEW es, NEW cs, NEW vs, NEW b, NEW h, NEW w, NEW x, Arriving(a, c, es, cs, vs, b, h, w, x),
         x.kind = "while",
         NEW cond, NEW body, NEW brk, NEW c2, NEW fr, NEW cs2,
         WhileEntry(a, c, b, cs, cond, body, brk, c2, fr, cs2)
  PROVE  \E h2, w2 : Sim(Append(a, x), c2, es, cs2, Append(ThisDone(vs), fr), body, h2, w2)
<1> /\ cond = Len(c) + 1
    /\ body = Len(c) + 2
    /\ brk = Len(c) + 3
    /\ c2 = branch(append(addBasicBlocks(c, 3), b, JMP(cond)), cond, Len(a) + 1, body, brk)
    /\ fr = Frame(Len(a) + 1, "while", FALSE, cond, Null, brk)
    /\ cs2 = LoopIn(cs, body, brk)
  BY DEF WhileEntry
<1> DEFINE n == Len(a) + 1
           q == Here(c, b)
           s == LoopSpot(q, brk, cond, body, Null)
           a2 == Append(a, x)
           w2 == Append(w, s)
<1>1. /\ a \in Seq(NodeType) /\ Len(a) \in Nat /\ n \in Nat \ {0} /\ n \in Nat /\ Len(c) \in Nat
      /\ c \in Seq(Seq(Insn)) /\ b \in 1..Len(c) /\ b \in Nat /\ q \in Spot
      /\ cond \in Nat /\ body \in Nat \ {0} /\ body \in Nat /\ brk \in Nat \ {0} /\ brk \in Nat
  BY ArrivingAt
<1> HIDE DEF n
<1>2. TestsOn(c, b, 3, n, cond, body, brk, c2)
  <2> DEFINE k == 3
  <2>1. k \in Nat /\ c2 = branch(append(addBasicBlocks(c, k), b, JMP(cond)), cond, n, body, brk)
    BY DEF n
  <2>2. cond \in (Len(c) + 1)..(Len(c) + k)
    BY <1>1
  <2> HIDE DEF k
  <2>3. TestsOn(c, b, k, n, cond, body, brk, c2)
    BY <1>1, <2>1, <2>2, TestingOn
  <2>4. QED
    BY <2>3 DEF k
<1>3. /\ Kept(c, c2, {b, cond}) /\ c2 \in Seq(Seq(Insn)) /\ Leads(c2, q, Start(cond))
      /\ BranchAt(c2, Start(cond), n, Start(body), Start(brk))
      /\ \A a1, w1 : AllPlaced(a1, c, w1) /\ Placed(a1, w1, INS("COND", n), Start(cond)) => AllPlaced(a1, c2, w1)
  BY <1>2 DEF TestsOn
<1>4. c2[body] = <<>> /\ c2[brk] = <<>>
  <2>1. /\ body \in (Len(c) + 1)..(Len(c) + 3) /\ brk \in (Len(c) + 1)..(Len(c) + 3)
        /\ body # cond /\ brk # cond
    BY <1>1
  <2>2. QED
    BY <1>2, <2>1 DEF TestsOn
<1>5. Near(c, Len(es), cs, b, c2, {b})
  <2>1. Ground(a, c, es, cs, vs, b) /\ \A y \in {b, cond} : y \in 1..Len(c) => y = b
    BY <1>1 DEF Arriving
  <2>2. QED
    BY <1>3, <2>1, NearHere
<1>6. /\ s \in Where /\ s.first = q /\ s.after = Start(brk) /\ s.cond = Start(cond) /\ s.body = Start(body)
  <2>1. Null \in Nat
    BY DEF Null
  <2>2. IsLoopSpot(s, q, brk, cond, body, Null)
    BY <1>1, <2>1, LoopSpotIs
  <2> HIDE DEF s, q
  <2>3. QED
    BY <2>2 DEF IsLoopSpot
<1> HIDE DEF s, a2, w2, q
<1>7. AddsNode(a, c, es, cs, vs, b, h, w, x, a2, s, w2, c2)
  BY <1>5, <1>6 DEF AddsNode, Arriving, a2, w2, q
<1>8. /\ a2[n] = x /\ w2[n] = s /\ n \in 1..Len(a2) /\ AllPlaced(a2, c, w2)
  BY <1>7, Arrived DEF n
<1>9. Entered(a2, c2, w2, n)
  BY <1>3, <1>6, <1>8 DEF Entered, Untranslatable
<1>10. AllPlaced(a2, c2, w2)
  <2>1. "COND" \in Parts(x.kind)
    BY DEF Parts
  <2>2. PartAt(a2, w2, n, "COND") = Start(cond)
    BY <1>6, <1>8 DEF PartAt
  <2>3. INS("COND", n).op = "COND" /\ INS("COND", n).at = n
    BY DEF INS
  <2>4. Placed(a2, w2, INS("COND", n), Start(cond))
    BY <1>8, <2>1, <2>2, <2>3 DEF Placed
  <2>5. QED
    BY <1>3, <1>8, <2>4
<1>11. NewLoop(a2, c2, w2, n, s, x.kind, cond, Null, body, body, brk)
  <2>1. x.kind \in Loops
    BY DEF Loops
  <2>2. Null \in Nat
    BY DEF Null
  <2>3. QED
    BY <1>1, <1>4, <1>6, <1>8, <1>9, <1>10, <2>1, <2>2 DEF NewLoop
<1>12. fr = Frame(Len(a) + 1, x.kind, FALSE, cond, Null, brk)
  OBVIOUS
<1>13. \E h2 : Sim(a2, c2, es, cs2, Append(ThisDone(vs), fr), body, h2, w2)
  <2>1. NewLoop(a2, c2, w2, Len(a) + 1, s, x.kind, cond, Null, body, body, brk)
    BY <1>11 DEF n
  <2>2. \E h2 : Sim(a2, c2, es, LoopIn(cs, body, brk),
                   Append(ThisDone(vs), Frame(Len(a) + 1, x.kind, FALSE, cond, Null, brk)), body, h2, w2)
    BY <1>7, <2>1, LoopSim
  <2>3. QED
    BY <1>12, <2>2
<1>14. QED
  BY <1>13 DEF a2

(* What visit(ASTDoWhile) does before its body *)
DoEntry(a, c, b, cs, body, cond, brk, c2, fr, cs2) ==
  /\ body = Len(c) + 1
  /\ cond = Len(c) + 2
  /\ brk = Len(c) + 3
  /\ c2 = append(addBasicBlocks(c, 3), b, JMP(body))
  /\ fr = Frame(Len(a) + 1, "do", FALSE, cond, body, brk)
  /\ cs2 = LoopIn(cs, cond, brk)

(* ... to a do loop *)
LEMMA DoSim ==
  ASSUME NEW a, NEW c, NEW es, NEW cs, NEW vs, NEW b, NEW h, NEW w, NEW x, Arriving(a, c, es, cs, vs, b, h, w, x),
         x.kind = "do",
         NEW body, NEW cond, NEW brk, NEW c2, NEW fr, NEW cs2,
         DoEntry(a, c, b, cs, body, cond, brk, c2, fr, cs2)
  PROVE  \E h2, w2 : Sim(Append(a, x), c2, es, cs2, Append(ThisDone(vs), fr), body, h2, w2)
<1> /\ body = Len(c) + 1
    /\ cond = Len(c) + 2
    /\ brk = Len(c) + 3
    /\ c2 = append(addBasicBlocks(c, 3), b, JMP(body))
    /\ fr = Frame(Len(a) + 1, "do", FALSE, cond, body, brk)
    /\ cs2 = LoopIn(cs, cond, brk)
  BY DEF DoEntry
<1> DEFINE n == Len(a) + 1
           q == Here(c, b)
           s == LoopSpot(q, brk, cond, body, Null)
           a2 == Append(a, x)
           w2 == Append(w, s)
<1>1. /\ a \in Seq(NodeType) /\ Len(a) \in Nat /\ n \in Nat \ {0} /\ n \in Nat /\ Len(c) \in Nat
      /\ c \in Seq(Seq(Insn)) /\ b \in 1..Len(c) /\ b \in Nat /\ q \in Spot
      /\ cond \in Nat \ {0} /\ cond \in Nat /\ body \in Nat /\ brk \in Nat \ {0} /\ brk \in Nat
  BY ArrivingAt
<1> HIDE DEF n
<1>2. JumpsOn(c, b, 3, body, c2)
  <2> DEFINE k == 3
  <2>1. k \in Nat /\ c2 = append(addBasicBlocks(c, k), b, JMP(body))
    OBVIOUS
  <2> HIDE DEF k
  <2>2. JumpsOn(c, b, k, body, c2)
    BY <1>1, <2>1, JumpingOn
  <2>3. QED
    BY <2>2 DEF k
<1>3. /\ Kept(c, c2, {b}) /\ c2 \in Seq(Seq(Insn)) /\ Leads(c2, q, Start(body))
      /\ \A a1, w1 : AllPlaced(a1, c, w1) => AllPlaced(a1, c2, w1)
  BY <1>2 DEF JumpsOn
<1>4. c2[body] = <<>> /\ c2[brk] = <<>> /\ c2[cond] = <<>>
  <2>1. /\ body \in (Len(c) + 1)..(Len(c) + 3) /\ brk \in (Len(c) + 1)..(Len(c) + 3)
        /\ cond \in (Len(c) + 1)..(Len(c) + 3)
    BY <1>1
  <2>2. QED
    BY <1>2, <2>1 DEF JumpsOn
<1>5. Near(c, Len(es), cs, b, c2, {b})
  <2>1. Ground(a, c, es, cs, vs, b) /\ \A y \in {b} : y \in 1..Len(c) => y = b
    BY DEF Arriving
  <2>2. QED
    BY <1>3, <2>1, NearHere
<1>6. /\ s \in Where /\ s.first = q /\ s.after = Start(brk) /\ s.cond = Start(cond) /\ s.body = Start(body)
  <2>1. Null \in Nat
    BY DEF Null
  <2>2. IsLoopSpot(s, q, brk, cond, body, Null)
    BY <1>1, <2>1, LoopSpotIs
  <2> HIDE DEF s, q
  <2>3. QED
    BY <2>2 DEF IsLoopSpot
<1> HIDE DEF s, a2, w2, q
<1>7. AddsNode(a, c, es, cs, vs, b, h, w, x, a2, s, w2, c2)
  BY <1>5, <1>6 DEF AddsNode, Arriving, a2, w2, q
<1>8. /\ a2[n] = x /\ w2[n] = s /\ n \in 1..Len(a2) /\ AllPlaced(a2, c, w2)
  BY <1>7, Arrived DEF n
<1>9. Entered(a2, c2, w2, n)
  BY <1>3, <1>6, <1>8 DEF Entered, Untranslatable
<1>10. AllPlaced(a2, c2, w2)
  BY <1>3, <1>8
<1>11. NewLoop(a2, c2, w2, n, s, x.kind, cond, body, body, cond, brk)
  <2>1. x.kind \in Loops
    BY DEF Loops
  <2>2. QED
    BY <1>1, <1>4, <1>6, <1>8, <1>9, <1>10, <2>1 DEF NewLoop
<1>12. fr = Frame(Len(a) + 1, x.kind, FALSE, cond, body, brk)
  OBVIOUS
<1>13. \E h2 : Sim(a2, c2, es, cs2, Append(ThisDone(vs), fr), body, h2, w2)
  <2>1. NewLoop(a2, c2, w2, Len(a) + 1, s, x.kind, cond, body, body, cond, brk)
    BY <1>11 DEF n
  <2>2. \E h2 : Sim(a2, c2, es, LoopIn(cs, cond, brk),
                   Append(ThisDone(vs), Frame(Len(a) + 1, x.kind, FALSE, cond, body, brk)), body, h2, w2)
    BY <1>7, <2>1, LoopSim
  <2>3. QED
    BY <1>12, <2>2
<1>14. QED
  BY <1>13 DEF a2
-----------------------------------------------------------------------------
(* d is c with the variable of a for loop, n, if it declares one, in lb and  *)
(* the loop's initialiser at the end of b.                                  *)
Initialised(declares, c, b, lb, n) ==
  append(IF declares THEN append(c, lb, INS("ALLOCA", n)) ELSE c, b, INS("INIT", n))

(* the initialisation of a for loop, before its condition                  *)
InitialisedAt(c, b, n, d) ==
  /\ d \in Seq(Seq(Insn)) /\ Len(d) = Len(c) /\ b \in 1..Len(d)
  /\ Holds(d, Here(c, b), INS("INIT", n)) /\ Here(d, b) = Succ(Here(c, b))
  /\ \A a, w : AllPlaced(a, c, w) /\ Placed(a, w, INS("INIT", n), Here(c, b)) => AllPlaced(a, d, w)

(* ... and whatever follows in the current block stays near it. *)
LEMMA Initialising ==
  ASSUME NEW a, NEW c, NEW es, NEW cs, NEW vs, NEW b, Ground(a, c, es, cs, vs, b), Len(cs) > Len(es),
         NEW n \in Nat, NEW declares, declares \in BOOLEAN
  PROVE  /\ InitialisedAt(c, b, n, Initialised(declares, c, b, Last(cs).localsBlock, n))
         /\ \A c2, U : /\ Kept(Initialised(declares, c, b, Last(cs).localsBlock, n), c2, U)
                       /\ \A y \in U : y \in 1..Len(c) => y = b
                       => \E T : Near(c, Len(es), cs, b, c2, T)
<1> DEFINE lb == Last(cs).localsBlock
           c0 == IF declares THEN append(c, lb, INS("ALLOCA", n)) ELSE c
           i == INS("INIT", n)
           d == Initialised(declares, c, b, lb, n)
<1>1. c \in Seq(Seq(Insn)) /\ b \in 1..Len(c)
  BY DEF Ground
<1>2. i \in Insn /\ i.op = "INIT"
  <2>1. "INIT" \in Ops
    BY DEF Ops, Visible
  <2>2. QED
    BY <2>1, Instructions
<1>3. d = append(c0, b, i)
  BY DEF Initialised
<1>4. /\ c0 \in Seq(Seq(Insn)) /\ Len(c0) = Len(c) /\ b \in 1..Len(c0) /\ Here(c0, b) = Here(c, b)
      /\ \A a1, w : AllPlaced(a1, c, w) => AllPlaced(a1, c0, w)
  <2>1. CASE declares
    <3>1. c0 = append(c, Last(cs).localsBlock, INS("ALLOCA", n))
      BY <2>1
    <3>2. OnlyAllocated(c, b, Last(cs).localsBlock, c0)
      BY <3>1, Allocating
    <3>3. QED
      BY <3>2 DEF OnlyAllocated
  <2>2. CASE ~declares
    BY <1>1, <2>2
  <2>3. QED
    BY <2>1, <2>2
<1> HIDE DEF i, d
<1>5. /\ Kept(c0, d, {b}) /\ Len(d) = Len(c0) /\ Holds(d, Here(c0, b), i) /\ Here(d, b) = Succ(Here(c0, b))
  <2>1. c0 \in Seq(Seq(Insn)) /\ b \in 1..Len(c0) /\ i \in Insn /\ d = append(c0, b, i)
    BY <1>2, <1>3, <1>4
  <2> HIDE DEF c0
  <2>2. QED
    BY ONLY <2>1, AppendKeeps
<1>6. \A a1, w : AllPlaced(a1, c, w) /\ Placed(a1, w, i, Here(c, b)) => AllPlaced(a1, d, w)
  <2> SUFFICES ASSUME NEW a1, NEW w, AllPlaced(a1, c, w), Placed(a1, w, i, Here(c, b))
               PROVE  AllPlaced(a1, d, w)
    OBVIOUS
  <2>1. /\ AllPlaced(a1, c0, w) /\ c0 \in Seq(Seq(Insn)) /\ b \in 1..Len(c0) /\ i \in Insn
        /\ d = append(c0, b, i) /\ (i.op \in Visible => Placed(a1, w, i, Here(c0, b)))
    BY <1>2, <1>3, <1>4
  <2> HIDE DEF c0
  <2>2. QED
    BY <2>1, PlacedOn
<1>7. InitialisedAt(c, b, n, d)
  BY <1>4, <1>5, <1>6 DEF InitialisedAt, Kept, i
<1>8. ASSUME NEW c2, NEW U, Kept(d, c2, U), \A y \in U : y \in 1..Len(c) => y = b
      PROVE  \E T : Near(c, Len(es), cs, b, c2, T)
  <2> DEFINE V == {b} \cup U
  <2>1. Kept(c0, c2, V)
    <3>1. c0 \in Seq(Seq(Insn)) /\ Kept(c0, d, {b}) /\ Kept(d, c2, U)
      BY <1>4, <1>5, <1>8
    <3> HIDE DEF c0
    <3>2. QED
      BY <3>1, KeptOn
  <2>2. \A y \in V : y \in 1..Len(c) => y = b
    BY <1>8
  <2> HIDE DEF V
  <2>3. CASE declares
    <3>1. c0 = append(c, Last(cs).localsBlock, INS("ALLOCA", n))
      BY <2>3
    <3> HIDE DEF c0
    <3>2. Near(c, Len(es), cs, b, c2, {b, Last(cs).localsBlock})
      BY <2>1, <2>2, <3>1, NearLocals
    <3>3. QED
      BY <3>2
  <2>4. CASE ~declares
    <3>1. Kept(c, c2, V)
      BY <2>1, <2>4
    <3>2. Near(c, Len(es), cs, b, c2, {b})
      BY <2>2, <3>1, NearHere
    <3>3. QED
      BY <3>2
  <2>5. QED
    BY <2>3, <2>4
<1>9. QED
  BY <1>7, <1>8 DEF d
-----------------------------------------------------------------------------
(* What visit(ASTFor) does before its body *)
ForEntry(a, c, b, cs, declares, cond, inc, body, brk, c1, c2, fr, cs2) ==
  /\ cond = Len(c) + 1
  /\ inc = Len(c) + 2
  /\ body = Len(c) + 3
  /\ brk = Len(c) + 4
  /\ c1 = Initialised(declares, c, b, Last(cs).localsBlock, Len(a) + 1)
  /\ c2 = branch(append(addBasicBlocks(c1, 4), b, JMP(cond)), cond, Len(a) + 1, body, brk)
  /\ fr = Frame(Len(a) + 1, "for", FALSE, cond, inc, brk)
  /\ cs2 = LoopIn(cs, inc, brk)

(* From the current block to a for loop: its initialiser, its condition     *)
LEMMA ForSim ==
  ASSUME NEW a, NEW c, NEW es, NEW cs, NEW vs, NEW b, NEW h, NEW w, NEW x, Arriving(a, c, es, cs, vs, b, h, w, x),
         x.kind = "for", NEW declares, declares \in BOOLEAN,
         NEW cond, NEW inc, NEW body, NEW brk, NEW c1, NEW c2, NEW fr, NEW cs2,
         ForEntry(a, c, b, cs, declares, cond, inc, body, brk, c1, c2, fr, cs2)
  PROVE  \E h2, w2 : Sim(Append(a, x), c2, es, cs2, Append(ThisDone(vs), fr), body, h2, w2)
<1> /\ cond = Len(c) + 1
    /\ inc = Len(c) + 2
    /\ body = Len(c) + 3
    /\ brk = Len(c) + 4
    /\ c1 = Initialised(declares, c, b, Last(cs).localsBlock, Len(a) + 1)
    /\ c2 = branch(append(addBasicBlocks(c1, 4), b, JMP(cond)), cond, Len(a) + 1, body, brk)
    /\ fr = Frame(Len(a) + 1, "for", FALSE, cond, inc, brk)
    /\ cs2 = LoopIn(cs, inc, brk)
  BY DEF ForEntry
<1> DEFINE n == Len(a) + 1
           q == Here(c, b)
           s == LoopSpot(q, brk, cond, body, inc)
           a2 == Append(a, x)
           w2 == Append(w, s)
<1>1. /\ a \in Seq(NodeType) /\ Len(a) \in Nat /\ n \in Nat \ {0} /\ n \in Nat /\ Len(c) \in Nat
      /\ c \in Seq(Seq(Insn)) /\ b \in 1..Len(c) /\ b \in Nat /\ q \in Spot
      /\ cond \in Nat /\ inc \in Nat \ {0} /\ inc \in Nat /\ body \in Nat /\ brk \in Nat \ {0} /\ brk \in Nat
  <2>1. /\ a \in Seq(NodeType) /\ Len(a) \in Nat /\ Len(c) \in Nat
        /\ c \in Seq(Seq(Insn)) /\ b \in 1..Len(c) /\ b \in Nat /\ q \in Spot
    BY ArrivingAt
  <2>2. n \in Nat \ {0} /\ n \in Nat
    BY ONLY <2>1
  <2>3. cond = Len(c) + 1 /\ inc = Len(c) + 2 /\ body = Len(c) + 3 /\ brk = Len(c) + 4
    BY DEF ForEntry
  <2>4. /\ cond \in Nat /\ inc \in Nat \ {0} /\ inc \in Nat
        /\ body \in Nat /\ brk \in Nat \ {0} /\ brk \in Nat
    BY ONLY <2>1, <2>3
  <2>5. QED
    BY <2>1, <2>2, <2>4
<1> HIDE DEF n
<1>2. /\ InitialisedAt(c, b, n, c1)
      /\ \A d, U : Kept(c1, d, U) /\ (\A y \in U : y \in 1..Len(c) => y = b) => \E T : Near(c, Len(es), cs, b, d, T)
  <2>1. Ground(a, c, es, cs, vs, b) /\ Len(cs) > Len(es)
    BY DEF Arriving
  <2>2. c1 = Initialised(declares, c, b, Last(cs).localsBlock, n)
    BY DEF n
  <2>3. InitialisedAt(c, b, n, c1)
    BY <1>1, <2>1, <2>2, Initialising
  <2>4. \A d, U : Kept(c1, d, U) /\ (\A y \in U : y \in 1..Len(c) => y = b) => \E T : Near(c, Len(es), cs, b, d, T)
    BY <1>1, <2>1, <2>2, Initialising
  <2>5. QED
    BY <2>3, <2>4
<1>3. /\ c1 \in Seq(Seq(Insn)) /\ Len(c1) = Len(c) /\ b \in 1..Len(c1)
      /\ Holds(c1, q, INS("INIT", n)) /\ Here(c1, b) = Succ(q)
      /\ \A a1, w1 : AllPlaced(a1, c, w1) /\ Placed(a1, w1, INS("INIT", n), q) => AllPlaced(a1, c1, w1)
  BY <1>2 DEF InitialisedAt
<1>4. TestsOn(c1, b, 4, n, cond, body, brk, c2)
  <2> DEFINE k == 4
  <2>1. k \in Nat /\ c2 = branch(append(addBasicBlocks(c1, k), b, JMP(cond)), cond, n, body, brk)
    BY DEF n
  <2>2. cond \in (Len(c1) + 1)..(Len(c1) + k)
    <3>1. Len(c1) \in Nat /\ cond = Len(c1) + 1
      BY <1>1, <1>3
    <3>2. QED
      BY ONLY <3>1
  <2> HIDE DEF k
  <2>3. TestsOn(c1, b, k, n, cond, body, brk, c2)
    BY <1>1, <1>3, <2>1, <2>2, TestingOn
  <2>4. QED
    BY <2>3 DEF k
<1>5. /\ Kept(c1, c2, {b, cond}) /\ c2 \in Seq(Seq(Insn)) /\ Leads(c2, Succ(q), Start(cond))
      /\ BranchAt(c2, Start(cond), n, Start(body), Start(brk))
      /\ \A a1, w1 : AllPlaced(a1, c1, w1) /\ Placed(a1, w1, INS("COND", n), Start(cond)) => AllPlaced(a1, c2, w1)
  BY <1>3, <1>4 DEF TestsOn
<1>6. Holds(c2, q, INS("INIT", n))
  BY <1>3, <1>5, GrownKeeps DEF Kept
<1>7. c2[body] = <<>> /\ c2[brk] = <<>> /\ c2[inc] = <<>>
  <2>1. /\ body \in (Len(c1) + 1)..(Len(c1) + 4) /\ brk \in (Len(c1) + 1)..(Len(c1) + 4)
        /\ inc \in (Len(c1) + 1)..(Len(c1) + 4)
    <3>1. /\ body \in (Len(c) + 1)..(Len(c) + 4) /\ brk \in (Len(c) + 1)..(Len(c) + 4)
          /\ inc \in (Len(c) + 1)..(Len(c) + 4)
      BY <1>1
    <3>2. QED
      BY <1>3, <3>1
  <2>2. body # cond /\ brk # cond /\ inc # cond
    BY <1>1
  <2>3. QED
    BY <1>4, <2>1, <2>2 DEF TestsOn
<1>8. \E T : Near(c, Len(es), cs, b, c2, T)
  <2>1. \A y \in {b, cond} : y \in 1..Len(c) => y = b
    BY <1>1
  <2>2. QED
    BY <1>2, <1>5, <2>1
<1>9. /\ s \in Where /\ s.first = q /\ s.after = Start(brk) /\ s.cond = Start(cond)
      /\ s.body = Start(body) /\ s.alt = Start(inc)
  <2>1. IsLoopSpot(s, q, brk, cond, body, inc)
    BY <1>1, LoopSpotIs
  <2> HIDE DEF s, q
  <2>2. QED
    BY <2>1 DEF IsLoopSpot
<1> HIDE DEF s, a2, w2, q
<1>10. AddsNode(a, c, es, cs, vs, b, h, w, x, a2, s, w2, c2)
  BY <1>8, <1>9 DEF AddsNode, Arriving, a2, w2, q
<1>11. /\ a2[n] = x /\ w2[n] = s /\ n \in 1..Len(a2) /\ AllPlaced(a2, c, w2)
  BY <1>10, Arrived DEF n
<1>12. Entered(a2, c2, w2, n)
  BY <1>5, <1>6, <1>9, <1>11 DEF Entered, Untranslatable
<1>13. AllPlaced(a2, c2, w2)
  <2>1. "COND" \in Parts(x.kind) /\ "INIT" \in Parts(x.kind)
    BY DEF Parts
  <2>2. PartAt(a2, w2, n, "COND") = Start(cond) /\ PartAt(a2, w2, n, "INIT") = q
    BY <1>9, <1>11 DEF PartAt
  <2>3. \A op \in {"COND", "INIT"} : INS(op, n).op = op /\ INS(op, n).at = n
    BY DEF INS
  <2>4. Placed(a2, w2, INS("COND", n), Start(cond)) /\ Placed(a2, w2, INS("INIT", n), q)
    BY <1>11, <2>1, <2>2, <2>3 DEF Placed
  <2>5. QED
    BY <1>3, <1>5, <1>11, <2>4
<1>14. NewLoop(a2, c2, w2, n, s, x.kind, cond, inc, body, inc, brk)
  <2>1. x.kind \in Loops
    BY DEF Loops
  <2>2. QED
    BY <1>1, <1>7, <1>9, <1>11, <1>12, <1>13, <2>1 DEF NewLoop
<1>15. fr = Frame(Len(a) + 1, x.kind, FALSE, cond, inc, brk)
  OBVIOUS
<1>16. \E h2 : Sim(a2, c2, es, cs2, Append(ThisDone(vs), fr), body, h2, w2)
  <2>1. NewLoop(a2, c2, w2, Len(a) + 1, s, x.kind, cond, inc, body, inc, brk)
    BY <1>14 DEF n
  <2>2. \E h2 : Sim(a2, c2, es, LoopIn(cs, inc, brk),
                   Append(ThisDone(vs), Frame(Len(a) + 1, x.kind, FALSE, cond, inc, brk)), body, h2, w2)
    BY <1>10, <2>1, LoopSim
  <2>3. QED
    BY <1>15, <2>2
<1>17. QED
  BY <1>16 DEF a2
-----------------------------------------------------------------------------
(* What is known of the innermost visit *)
TopVisit(a, c, es, cs, vs, b, h, w) ==
  /\ a \in Seq(NodeType) /\ c \in Seq(Seq(Insn)) /\ b \in 1..Len(c)
  /\ vs \in Seq(FrameType) /\ vs # <<>> /\ Last(vs) \in FrameType
  /\ Last(vs).at \in 1..Len(a) /\ Last(vs).at \in Nat
  /\ FrameAt(a, c, w, Last(vs)) /\ ControlAt(a, c, w, Last(vs), b)
  /\ w \in Seq(Where) /\ Len(w) = Len(a)
  /\ AllPlaced(a, c, w) /\ Held(a, PathOf(vs), Len(es), cs, h)
  /\ \A y \in Pending(Last(vs)) : y \in 1..Len(c) /\ y # b /\ c[y] = <<>>
  /\ Last(vs).role # "fun" => Len(vs) >= 2
  /\ a[Last(vs).at].kind = IF Last(vs).role \in {"then", "else"} THEN "if" ELSE Last(vs).role

(* What the innermost visit has of the simulation.                         *)
LEMMA TopVisitIs ==
  ASSUME NEW a, NEW c, NEW es, NEW cs, NEW vs, NEW b, Ground(a, c, es, cs, vs, b),
         NEW h, NEW w, Sim(a, c, es, cs, vs, b, h, w)
  PROVE  TopVisit(a, c, es, cs, vs, b, h, w)
<1> DEFINE p == PathOf(vs)
           N == Len(vs)
           top == Last(vs)
           kind == a[top.at].kind
<1>1. /\ a \in Seq(NodeType) /\ c \in Seq(Seq(Insn)) /\ vs \in Seq(FrameType) /\ vs # <<>> /\ b \in 1..Len(c)
  BY DEF Ground
<1>2. /\ Tree(a) /\ Path(a, p) /\ Held(a, p, Len(es), cs, h) /\ Laid(a, c, vs, w)
      /\ AllPlaced(a, c, w) /\ ControlAt(a, c, w, top, b)
  BY <1>1 DEF Sim
<1>3. N \in Nat /\ N \in 1..N /\ top = vs[N] /\ top \in FrameType /\ top.at \in 1..Len(a) /\ top.at \in Nat
  <2>1. N \in Nat /\ N \in 1..N /\ top = vs[N] /\ top \in FrameType
    BY <1>1, TopIs, LenProperties
  <2>2. Len(p) = N /\ p[N] = top.at /\ top.at \in Nat
    BY <1>1, <2>1, PathIs
  <2>3. p[N] \in 1..Len(a)
    BY <1>2, <2>1, <2>2 DEF Path
  <2>4. QED
    BY <2>1, <2>2, <2>3
<1>4. FrameAt(a, c, w, top) /\ w \in Seq(Where) /\ Len(w) = Len(a)
  BY <1>2, <1>3 DEF Laid
<1>5. \A y \in Pending(top) : y \in 1..Len(c) /\ y # b /\ c[y] = <<>>
  BY <1>3, <1>4 DEF Ground, FrameAt
<1>6. top.role # "fun" => N >= 2
  <2>1. N = 1 => top.role = "fun"
    BY <1>3 DEF Ground
  <2> HIDE DEF N, top
  <2>2. N = 1 \/ N >= 2
    BY <1>3
  <2>3. QED
    BY <2>1, <2>2
<1>7. kind = IF top.role \in {"then", "else"} THEN "if" ELSE top.role
  <2>1. top.role \in RoleOf(kind)
    BY <1>4 DEF FrameAt
  <2>2. kind \in Compound \cup Simple \cup {"fun"}
    <3>1. a[top.at] \in NodeType
      BY <1>1, <1>3, NodeFacts
    <3>2. QED
      BY <3>1 DEF NodeType
  <2>3. kind \notin {"then", "else"}
    BY <2>2 DEF Compound, Simple
  <2> HIDE DEF kind
  <2>4. QED
    BY <2>1, <2>3 DEF RoleOf
<1>8. QED
  BY <1>1, <1>2, <1>3, <1>4, <1>5, <1>6, <1>7 DEF TopVisit

(* Where control is once the one child of a visit is translated *)
LEMMA AfterChild ==
  ASSUME NEW a, NEW c, NEW es, NEW cs, NEW vs, NEW b, NEW h, NEW w, TopVisit(a, c, es, cs, vs, b, h, w),
         Last(vs).role # "block", Last(vs).done
  PROVE  /\ \A m \in Children(a, Last(vs).at, Last(vs).role) : w[m].after = Here(c, b)
         /\ Last(vs).role # "else" => Children(a, Last(vs).at, Last(vs).role) # {}
<1> DEFINE kids == Children(a, Last(vs).at, Last(vs).role)
<1>1. (\A l, m \in kids : l = m) /\ (Last(vs).role # "else" => kids # {})
  BY DEF TopVisit, FrameAt
<1>2. ASSUME NEW m \in kids PROVE w[m].after = Here(c, b)
  <2>1. Latest(kids, m)
    <3>1. \A k \in kids : k = m /\ k \in Nat
      BY <1>1 DEF Children
    <3>2. QED
      BY <3>1 DEF Latest
  <2>2. QED
    BY <2>1 DEF TopVisit, ControlAt
<1>3. QED
  BY <1>1, <1>2

(* Leaving a statement that is no block: control is at its merge block. *)
LeavesTo(a, c, vs, b, w, c2) ==
  /\ \E T : Kept(c, c2, T) /\ \A y \in T : y = b \/ (y \in Pending(Last(vs)) /\ y # Last(vs).merge)
  /\ Left(a, c2, w, Last(vs).at)
  /\ AllPlaced(a, c2, w)

(* The end of a visit that is not of a block.                              *)
LEMMA PlainLeft ==
  ASSUME NEW a, NEW c, NEW es, NEW cs, NEW vs, NEW b, Ground(a, c, es, cs, vs, b),
         NEW h, NEW w, Sim(a, c, es, cs, vs, b, h, w),
         Last(vs).role \in {"else", "while", "do", "for"},
         NEW c2, LeavesTo(a, c, vs, b, w, c2)
  PROVE  Sim(a, c2, es, cs, Front(vs), Last(vs).merge, h, w)
<1> DEFINE top == Last(vs)
           n == top.at
           p == PathOf(vs)
           q == PathOf(Front(vs))
<1>1. TopVisit(a, c, es, cs, vs, b, h, w)
  BY TopVisitIs
<1>2. /\ a \in Seq(NodeType) /\ c \in Seq(Seq(Insn)) /\ vs \in Seq(FrameType) /\ vs # <<>>
      /\ n \in 1..Len(a) /\ w \in Seq(Where) /\ Len(w) = Len(a) /\ Len(vs) >= 2
      /\ a[n].kind # "block" /\ Held(a, p, Len(es), cs, h)
      /\ \A y \in Pending(top) : y \in 1..Len(c) /\ y # b /\ c[y] = <<>>
      /\ top \in FrameType
  BY <1>1 DEF TopVisit
<1>3. top.merge \in Pending(top) /\ w[n].after = Start(top.merge)
  BY <1>1 DEF Pending, TopVisit, FrameAt
<1>4. PICK T : Kept(c, c2, T) /\ \A y \in T : y = b \/ (y \in Pending(top) /\ y # top.merge)
  BY DEF LeavesTo
<1>5. Here(c2, top.merge) = w[n].after
  <2>1. c2[top.merge] = <<>>
    BY <1>2, <1>3, <1>4 DEF Kept
  <2>2. QED
    BY <1>3, <2>1 DEF Here, Start
<1>6. Held(a, q, Len(es), cs, h)
  <2>1. /\ p \in Seq(Nat) /\ Len(p) = Len(vs) /\ Len(vs) \in Nat /\ Len(vs) \in 1..Len(vs) /\ top = vs[Len(vs)]
        /\ \A i \in 1..Len(vs) : p[i] = vs[i].at
    BY <1>2, PathIs, TopIs
  <2>2. /\ q \in Seq(Nat) /\ Len(q) = Len(vs) - 1 /\ \A i \in 1..(Len(vs) - 1) : q[i] = p[i]
    BY <1>2, FrontIs
  <2> HIDE DEF p, q
  <2>3. Len(q) + 1 = Len(p) /\ (\A i \in 1..Len(q) : q[i] = p[i]) /\ a[p[Len(p)]].kind # "block"
    BY <1>2, <2>1, <2>2
  <2>4. QED
    BY ONLY <1>2, <2>1, <2>2, <2>3, HeldPlainLeft
<1>7. Agree(a, w, w, 0)
  BY DEF Agree
<1>8. \A k \in 1..Len(cs) : cs[k] = cs[k] /\ h[k] = h[k]
  OBVIOUS
<1>9. top.role # "block" /\ Left(a, c2, w, n) /\ AllPlaced(a, c2, w)
  BY DEF LeavesTo
<1>10. Leaves(a, c, es, cs, vs, b, h, w, c2, cs, top.merge, h, w, 0)
  BY <1>2, <1>4, <1>5, <1>6, <1>7, <1>8, <1>9 DEF Leaves
<1>11. QED
  BY <1>10, LeaveSim
-----------------------------------------------------------------------------
(* d is c with a jump to t at the end of b. *)
JumpsFrom(c, b, t, d) ==
  /\ Kept(c, d, {b}) /\ d \in Seq(Seq(Insn)) /\ Grown(c, d) /\ Len(d) = Len(c)
  /\ Leads(d, Here(c, b), Start(t))
  /\ \A a, w : AllPlaced(a, c, w) => AllPlaced(a, d, w)

(* A jump from the open block to an empty one.                             *)
LEMMA JumpingFrom ==
  ASSUME NEW c \in Seq(Seq(Insn)), NEW b \in 1..Len(c), NEW t \in Nat
  PROVE  JumpsFrom(c, b, t, append(c, b, JMP(t)))
<1> DEFINE i == JMP(t)
           d == append(c, b, i)
<1>1. i \in Insn /\ i.op \notin Visible
  <2>1. i \in Insn /\ i.op = "JMP"
    BY Instructions
  <2>2. QED
    BY <2>1 DEF Visible
<1>2. d = append(c, b, i)
  OBVIOUS
<1> HIDE DEF i, d
<1>3. Kept(c, d, {b}) /\ Len(d) = Len(c) /\ Holds(d, Here(c, b), i)
  BY <1>1, <1>2, AppendKeeps
<1>4. Leads(d, Here(c, b), Start(t))
  BY <1>3, LeadsJump DEF i
<1>5. \A a, w : AllPlaced(a, c, w) => AllPlaced(a, d, w)
  BY <1>1, <1>2, PlacedOn
<1>6. JumpsFrom(c, b, t, d)
  BY <1>3, <1>4, <1>5 DEF JumpsFrom, Kept
<1>7. QED
  BY <1>6 DEF d, i

(* The end of an if *)
LEMMA IfLeft ==
  ASSUME NEW a, NEW c, NEW es, NEW cs, NEW vs, NEW b, Ground(a, c, es, cs, vs, b),
         NEW h, NEW w, Sim(a, c, es, cs, vs, b, h, w),
         Last(vs).role = "else", Last(vs).done,
         NEW c2, c2 = append(c, b, JMP(Last(vs).merge))
  PROVE  Sim(a, c2, es, cs, Front(vs), Last(vs).merge, h, w)
<1> DEFINE top == Last(vs)
           n == top.at
           kids(role) == Children(a, n, role)
<1>1. TopVisit(a, c, es, cs, vs, b, h, w)
  BY TopVisitIs
<1>2. /\ c \in Seq(Seq(Insn)) /\ b \in 1..Len(c) /\ AllPlaced(a, c, w) /\ top \in FrameType
      /\ a[n].kind = "if" /\ \A y \in Pending(top) : y # b
  BY <1>1 DEF TopVisit
<1>3. /\ kids("then") # {} /\ \A m \in kids("then") : Leads(c, w[m].after, w[n].after)
      /\ w[n].after = Start(top.merge)
  BY <1>1 DEF TopVisit, FrameAt
<1>4. top.merge \in Nat /\ top.merge \in Pending(top)
  <2>1. \A f \in FrameType : f.merge \in Nat
    BY DEF FrameType
  <2>2. QED
    BY <1>2, <2>1 DEF Pending
<1>5. JumpsFrom(c, b, top.merge, c2)
  BY <1>2, <1>4, JumpingFrom
<1>6. /\ Kept(c, c2, {b}) /\ Grown(c, c2) /\ AllPlaced(a, c2, w)
      /\ Leads(c2, Here(c, b), w[n].after)
  BY <1>2, <1>3, <1>5 DEF JumpsFrom
<1>7. /\ \A m \in kids("else") : w[m].after = Here(c, b)
      /\ kids("else") = {} => Here(c, b) = w[n].alt
  <2>1. \A m \in kids("else") : w[m].after = Here(c, b)
    BY <1>1, AfterChild
  <2>2. kids("else") = {} => Here(c, b) = w[n].alt
    BY <1>1 DEF TopVisit, ControlAt, StartOf
  <2>3. QED
    BY <2>1, <2>2
<1>8. \A m \in kids("then") : Leads(c2, w[m].after, w[n].after)
  BY <1>3, <1>6, GrownKeeps
<1>9. Left(a, c2, w, n)
  BY <1>2, <1>3, <1>6, <1>7, <1>8 DEF Left
<1>10. LeavesTo(a, c, vs, b, w, c2)
  BY <1>6, <1>9 DEF LeavesTo
<1>11. QED
  BY <1>10, PlainLeft

(* ... of a while loop *)
LEMMA WhileLeft ==
  ASSUME NEW a, NEW c, NEW es, NEW cs, NEW vs, NEW b, Ground(a, c, es, cs, vs, b),
         NEW h, NEW w, Sim(a, c, es, cs, vs, b, h, w),
         Last(vs).role = "while", Last(vs).done,
         NEW c2, c2 = append(c, b, JMP(Last(vs).cond))
  PROVE  Sim(a, c2, es, cs, Front(vs), Last(vs).merge, h, w)
<1> DEFINE top == Last(vs)
           n == top.at
           kids == Children(a, n, "while")
<1>1. TopVisit(a, c, es, cs, vs, b, h, w)
  BY TopVisitIs
<1>2. /\ c \in Seq(Seq(Insn)) /\ b \in 1..Len(c) /\ AllPlaced(a, c, w) /\ top \in FrameType
      /\ a[n].kind = "while"
  BY <1>1 DEF TopVisit
<1>3. w[n].cond = Start(top.cond)
  BY <1>1 DEF TopVisit, FrameAt
<1>4. top.cond \in Nat
  <2>1. \A f \in FrameType : f.cond \in Nat
    BY DEF FrameType
  <2>2. QED
    BY <1>2, <2>1
<1>5. JumpsFrom(c, b, top.cond, c2)
  BY <1>2, <1>4, JumpingFrom
<1>6. Kept(c, c2, {b}) /\ AllPlaced(a, c2, w) /\ Leads(c2, Here(c, b), w[n].cond)
  BY <1>2, <1>3, <1>5 DEF JumpsFrom
<1>7. kids # {} /\ \A m \in kids : w[m].after = Here(c, b)
  BY <1>1, AfterChild
<1>8. Left(a, c2, w, n)
  BY <1>2, <1>6, <1>7 DEF Left
<1>9. LeavesTo(a, c, vs, b, w, c2)
  BY <1>6, <1>8 DEF LeavesTo
<1>10. QED
  BY <1>9, PlainLeft

(* ... of a do loop: its condition *)
LEMMA DoLeft ==
  ASSUME NEW a, NEW c, NEW es, NEW cs, NEW vs, NEW b, Ground(a, c, es, cs, vs, b),
         NEW h, NEW w, Sim(a, c, es, cs, vs, b, h, w),
         Last(vs).role = "do", Last(vs).done,
         NEW c2, c2 = branch(append(c, b, JMP(Last(vs).cond)), Last(vs).cond, Last(vs).at, Last(vs).alt, Last(vs).merge),
         Last(vs).merge # Last(vs).cond
  PROVE  Sim(a, c2, es, cs, Front(vs), Last(vs).merge, h, w)
<1> DEFINE top == Last(vs)
           n == top.at
           kids == Children(a, n, "do")
           c1 == append(c, b, JMP(top.cond))
<1>1. TopVisit(a, c, es, cs, vs, b, h, w)
  BY TopVisitIs
<1>2. /\ c \in Seq(Seq(Insn)) /\ b \in 1..Len(c) /\ AllPlaced(a, c, w) /\ top \in FrameType
      /\ a[n].kind = "do" /\ n \in 1..Len(a) /\ n \in Nat
  BY <1>1 DEF TopVisit
<1>3. w[n].cond = Start(top.cond) /\ w[n].body = Start(top.alt) /\ w[n].after = Start(top.merge)
  BY <1>1 DEF TopVisit, FrameAt
<1>4. top.cond \in Nat /\ top.alt \in Nat /\ top.merge \in Nat
  <2>1. \A f \in FrameType : f.cond \in Nat /\ f.alt \in Nat /\ f.merge \in Nat
    BY DEF FrameType
  <2>2. QED
    BY <1>2, <2>1
<1>5. top.cond \in Pending(top) /\ top.cond \in 1..Len(c) /\ top.cond # b /\ c[top.cond] = <<>>
  <2>1. top.cond \in Pending(top)
    BY DEF Pending
  <2>2. QED
    BY <1>1, <2>1 DEF TopVisit
<1>6. JumpsFrom(c, b, top.cond, c1) /\ c2 = branch(c1, top.cond, n, top.alt, top.merge)
  BY <1>2, <1>4, JumpingFrom
<1> HIDE DEF c1
<1>7. /\ Kept(c, c1, {b}) /\ c1 \in Seq(Seq(Insn)) /\ AllPlaced(a, c1, w)
      /\ Leads(c1, Here(c, b), w[n].cond) /\ top.cond \in 1..Len(c1)
  BY <1>2, <1>3, <1>5, <1>6 DEF JumpsFrom
<1>8. Here(c1, top.cond) = w[n].cond
  <2>1. c1[top.cond] = <<>>
    BY <1>5, <1>7 DEF Kept
  <2>2. QED
    BY <1>3, <2>1 DEF Here, Start
<1>9. Placed(a, w, INS("COND", n), Here(c1, top.cond))
  <2>1. "COND" \in Parts(a[n].kind) /\ PartAt(a, w, n, "COND") = w[n].cond
    BY <1>2 DEF Parts, PartAt
  <2>2. INS("COND", n).op = "COND" /\ INS("COND", n).at = n
    BY DEF INS
  <2>3. QED
    BY <1>2, <1>8, <2>1, <2>2 DEF Placed
<1>10. Branches(c1, top.cond, n, top.alt, top.merge, c2) /\ AllPlaced(a, c2, w)
  <2>1. Branches(c1, top.cond, n, top.alt, top.merge, c2)
    BY <1>2, <1>4, <1>6, <1>7, BranchAdded
  <2>2. \A a1, w1 : AllPlaced(a1, c1, w1) /\ Placed(a1, w1, INS("COND", n), Here(c1, top.cond)) => AllPlaced(a1, c2, w1)
    BY <1>2, <1>4, <1>6, <1>7, BranchAdded
  <2>3. QED
    BY <1>7, <1>9, <2>1, <2>2
<1>11. /\ Kept(c1, c2, {top.cond}) /\ Grown(c1, c2)
       /\ BranchAt(c2, w[n].cond, n, w[n].body, w[n].after)
  BY <1>3, <1>8, <1>10 DEF Branches
<1>12. Kept(c, c2, {b} \cup {top.cond})
  BY <1>2, <1>7, <1>11, KeptOn
<1>13. Leads(c2, Here(c, b), w[n].cond)
  BY <1>7, <1>11, GrownKeeps
<1>14. kids # {} /\ \A m \in kids : w[m].after = Here(c, b)
  BY <1>1, AfterChild
<1>15. Left(a, c2, w, n)
  BY <1>2, <1>11, <1>13, <1>14 DEF Left
<1>16. \A y \in {b} \cup {top.cond} : y = b \/ (y \in Pending(top) /\ y # top.merge)
  BY <1>5
<1>17. LeavesTo(a, c, vs, b, w, c2)
  BY <1>10, <1>12, <1>15, <1>16 DEF LeavesTo
<1>18. QED
  BY <1>17, PlainLeft
-----------------------------------------------------------------------------
(* The end of a for loop: its increment *)
LEMMA ForLeft ==
  ASSUME NEW a, NEW c, NEW es, NEW cs, NEW vs, NEW b, Ground(a, c, es, cs, vs, b),
         NEW h, NEW w, Sim(a, c, es, cs, vs, b, h, w),
         Last(vs).role = "for", Last(vs).done,
         NEW c2, c2 = append(append(append(c, b, JMP(Last(vs).alt)), Last(vs).alt, INS("INC", Last(vs).at)),
                             Last(vs).alt, JMP(Last(vs).cond)),
         Last(vs).alt # Last(vs).merge
  PROVE  Sim(a, c2, es, cs, Front(vs), Last(vs).merge, h, w)
<1> DEFINE top == Last(vs)
           n == top.at
           kids == Children(a, n, "for")
           i == INS("INC", n)
           c1 == append(c, b, JMP(top.alt))
           d == append(c1, top.alt, i)
<1>1. TopVisit(a, c, es, cs, vs, b, h, w)
  BY TopVisitIs
<1>2. /\ c \in Seq(Seq(Insn)) /\ b \in 1..Len(c) /\ AllPlaced(a, c, w) /\ top \in FrameType
      /\ a[n].kind = "for" /\ n \in 1..Len(a) /\ n \in Nat
  BY <1>1 DEF TopVisit
<1>3. w[n].cond = Start(top.cond) /\ w[n].alt = Start(top.alt)
  BY <1>1 DEF TopVisit, FrameAt
<1>4. top.cond \in Nat /\ top.alt \in Nat
  <2>1. \A f \in FrameType : f.cond \in Nat /\ f.alt \in Nat
    BY DEF FrameType
  <2>2. QED
    BY <1>2, <2>1
<1>5. top.alt \in Pending(top) /\ top.alt \in 1..Len(c) /\ top.alt # b /\ c[top.alt] = <<>>
  <2>1. top.alt \in Pending(top)
    BY DEF Pending
  <2>2. QED
    BY <1>1, <2>1 DEF TopVisit
<1>6. i \in Insn /\ i.op = "INC" /\ i.at = n
  <2>1. "INC" \in Ops
    BY DEF Ops, Visible
  <2>2. QED
    BY <1>2, <2>1, Instructions
<1>7. JumpsFrom(c, b, top.alt, c1) /\ c2 = append(d, top.alt, JMP(top.cond)) /\ d = append(c1, top.alt, i)
  BY <1>2, <1>4, JumpingFrom
<1> HIDE DEF c1, i, d
<1>8. /\ Kept(c, c1, {b}) /\ c1 \in Seq(Seq(Insn)) /\ AllPlaced(a, c1, w)
      /\ Leads(c1, Here(c, b), w[n].alt) /\ top.alt \in 1..Len(c1)
  BY <1>2, <1>3, <1>5, <1>7 DEF JumpsFrom
<1>9. Here(c1, top.alt) = w[n].alt
  <2>1. c1[top.alt] = <<>>
    BY <1>5, <1>8 DEF Kept
  <2>2. QED
    BY <1>3, <2>1 DEF Here, Start
<1>10. /\ Kept(c1, d, {top.alt}) /\ Len(d) = Len(c1) /\ Holds(d, w[n].alt, i)
       /\ Here(d, top.alt) = Succ(w[n].alt)
  <2> DEFINE y == top.alt
  <2>1. c1 \in Seq(Seq(Insn)) /\ y \in 1..Len(c1) /\ i \in Insn /\ d = append(c1, y, i)
    BY <1>6, <1>7, <1>8
  <2>2. Here(c1, y) = w[n].alt
    BY <1>9
  <2> HIDE DEF y
  <2>3. Kept(c1, d, {y}) /\ Len(d) = Len(c1) /\ Holds(d, Here(c1, y), i) /\ Here(d, y) = Succ(Here(c1, y))
    BY ONLY <2>1, AppendKeeps
  <2>4. QED
    BY <2>2, <2>3 DEF y
<1>11. AllPlaced(a, d, w)
  <2>1. "INC" \in Parts(a[n].kind) /\ PartAt(a, w, n, "INC") = w[n].alt
    BY <1>2 DEF Parts, PartAt
  <2>2. Placed(a, w, i, Here(c1, top.alt))
    BY <1>2, <1>6, <1>9, <2>1 DEF Placed
  <2>3. QED
    BY <1>6, <1>7, <1>8, <2>2, PlacedOn
<1>12. d \in Seq(Seq(Insn)) /\ top.alt \in 1..Len(d) /\ Grown(c1, d)
  BY <1>8, <1>10 DEF Kept
<1>13. JumpsFrom(d, top.alt, top.cond, c2)
  BY <1>4, <1>7, <1>12, JumpingFrom
<1>14. /\ Kept(d, c2, {top.alt}) /\ Grown(d, c2) /\ Leads(c2, Succ(w[n].alt), w[n].cond)
       /\ AllPlaced(a, c2, w)
  BY <1>3, <1>10, <1>11, <1>13 DEF JumpsFrom
<1>15. Holds(c2, w[n].alt, i) /\ Leads(c2, Here(c, b), w[n].alt)
  <2>1. Holds(c2, w[n].alt, i)
    BY <1>10, <1>14, GrownKeeps
  <2>2. Leads(d, Here(c, b), w[n].alt)
    BY <1>8, <1>12, GrownKeeps
  <2>3. Leads(c2, Here(c, b), w[n].alt)
    BY <1>14, <2>2, GrownKeeps
  <2>4. QED
    BY <2>1, <2>3
<1>16. Kept(c, c2, {b} \cup ({top.alt} \cup {top.alt}))
  <2>1. Kept(c1, c2, {top.alt} \cup {top.alt})
    BY <1>8, <1>10, <1>14, KeptOn
  <2>2. QED
    BY <1>2, <1>8, <2>1, KeptOn
<1>17. kids # {} /\ \A m \in kids : w[m].after = Here(c, b)
  BY <1>1, AfterChild
<1>18. Left(a, c2, w, n)
  BY <1>2, <1>14, <1>15, <1>17 DEF Left, i
<1>19. \A y \in {b} \cup ({top.alt} \cup {top.alt}) : y = b \/ (y \in Pending(top) /\ y # top.merge)
  BY <1>5
<1>20. LeavesTo(a, c, vs, b, w, c2)
  BY <1>14, <1>16, <1>18, <1>19 DEF LeavesTo
<1>21. QED
  BY <1>20, PlainLeft
-----------------------------------------------------------------------------
(* The end of a block: its variables are followed by its statements. *)
LEMMA BlockLeft ==
  ASSUME NEW a, NEW c, NEW es, NEW cs, NEW vs, NEW b, Ground(a, c, es, cs, vs, b),
         NEW h, NEW w, Sim(a, c, es, cs, vs, b, h, w),
         Last(vs).role = "block",
         NEW c2, c2 = append(c, Last(cs).localsBlock, JMP(Last(cs).firstBB))
  PROVE  \E h2, w2 : Sim(a, c2, es, Front(cs), Front(vs), b, h2, w2)
<1> DEFINE top == Last(vs)
           n == top.at
           p == PathOf(vs)
           q == PathOf(Front(vs))
           K == Len(cs)
           e == Len(es)
           here == Here(c, b)
           w2 == [w EXCEPT ![n].after = here]
           cs2 == Front(cs)
           h2 == Front(h)
           lb == Last(cs).localsBlock
           kids == Children(a, n, "block")
<1>1. TopVisit(a, c, es, cs, vs, b, h, w)
  BY TopVisitIs
<1>2. /\ a \in Seq(NodeType) /\ c \in Seq(Seq(Insn)) /\ b \in 1..Len(c) /\ AllPlaced(a, c, w)
      /\ top \in FrameType /\ a[n].kind = "block" /\ n \in 1..Len(a) /\ n \in Nat
      /\ w \in Seq(Where) /\ Len(w) = Len(a) /\ Held(a, p, e, cs, h)
      /\ vs \in Seq(FrameType) /\ vs # <<>> /\ Len(vs) >= 2
  BY <1>1 DEF TopVisit
<1>3. /\ cs \in Seq(ContextType) /\ es \in Seq(Nat) /\ Path(a, p) /\ Tree(a)
  BY DEF Ground, Sim
<1>4. PathFrontOf(a, p, q) /\ p[Len(p)] = n
  <2>1. /\ p \in Seq(Nat) /\ Len(p) = Len(vs) /\ Len(vs) \in Nat /\ Len(vs) \in 1..Len(vs) /\ top = vs[Len(vs)]
        /\ \A i \in 1..Len(vs) : p[i] = vs[i].at
    BY <1>2, PathIs, TopIs
  <2>2. /\ q \in Seq(Nat) /\ Len(q) = Len(vs) - 1 /\ \A i \in 1..(Len(vs) - 1) : q[i] = p[i]
    BY <1>2, FrontIs
  <2> HIDE DEF p, q
  <2>3. p # <<>>
    BY <2>1
  <2>4. Len(q) + 1 = Len(p) /\ p[Len(p)] = n
    BY <2>1, <2>2
  <2>5. \A i \in 1..Len(q) : q[i] = p[i]
    BY <2>1, <2>2
  <2>6. \A i, j \in 1..Len(p) : i < j => p[i] < p[j]
    BY <1>3 DEF Path
  <2>7. a[p[Len(p)]].kind = "block"
    BY <1>2, <2>4
  <2>8. QED
    BY <2>1, <2>2, <2>3, <2>4, <2>5, <2>6, <2>7 DEF PathFrontOf
<1>5. h \in Seq(HeldType) /\ Len(h) = K /\ K \in Nat /\ e \in Nat
  BY <1>2, <1>3, LenProperties DEF Held, HeldTargets
<1>6. K > e
  <2>1. e < K
    BY <1>2 DEF Ground
  <2>2. QED
    BY <1>5, <2>1
<1>7. /\ Len(cs2) = K - 1 /\ (\A k \in 1..(K - 1) : cs2[k] = cs[k]) /\ Last(cs) = cs[K]
      /\ Len(h2) = K - 1 /\ h2 \in Seq(HeldType) /\ \A k \in 1..(K - 1) : h2[k] = h[k]
  <2>1. cs # <<>> /\ h # <<>>
    BY <1>5, <1>6
  <2>2. Len(cs2) = K - 1 /\ (\A k \in 1..(K - 1) : cs2[k] = cs[k]) /\ Last(cs) = cs[K]
    BY <1>3, <2>1, FrontLast
  <2>3. Len(h2) = Len(h) - 1 /\ h2 \in Seq(HeldType) /\ \A k \in 1..(Len(h) - 1) : h2[k] = h[k]
    BY <1>5, <2>1, FrontLast
  <2>4. QED
    BY <1>5, <2>2, <2>3
<1> HIDE DEF cs2, h2, p, q, e, K
<1>8. h[K].block = n /\ Held(a, q, e, cs2, h2)
  <2>2. Unstacked(cs, h, cs2, h2)
    BY <1>7 DEF K, Unstacked
  <2>3. Len(cs) \in Nat
    BY <1>5 DEF K
  <2>4. PathFrontOf(a, p, q) /\ e \in Nat /\ Held(a, p, e, cs, h)
    BY <1>2, <1>4, <1>5
  <2>5. Popped(a, p, q, e, cs, h, cs2, h2)
    BY <2>2, <2>3, <2>4, HeldBlockLeft
  <2>6. QED
    BY <1>4, <2>5 DEF K, Popped
<1>9. /\ SilentBlock(c, lb) /\ w[n].alt = Start(lb) /\ w[n].body = Start(Last(cs).firstBB)
      /\ lb \in 1..Len(c) /\ lb # b
  <2>1. K \in (e + 1)..K
    BY <1>5, <1>6
  <2>2. ContextAt(a, c, w, cs[K], h[K])
    BY <2>1 DEF Sim, K, e
  <2>3. cs[K].localsBlock \in 1..Len(c) /\ cs[K].localsBlock # b
    BY <2>1 DEF Ground, K, e
  <2>4. QED
    BY <1>7, <1>8, <2>2, <2>3 DEF ContextAt
<1>10. JumpsFrom(c, lb, Last(cs).firstBB, c2)
  <2>1. Last(cs).firstBB \in Nat
    <3>1. K \in 1..K
      BY <1>5, <1>6
    <3>2. cs[K] \in ContextType
      BY <1>3, <1>5, <3>1, ElementOfSeq DEF K
    <3>3. \A cx \in ContextType : cx.firstBB \in Nat
      BY DEF ContextType
    <3>4. QED
      BY <1>7, <3>2, <3>3
  <2>2. QED
    BY <1>2, <1>9, <2>1, JumpingFrom
<1>11. /\ Kept(c, c2, {lb}) /\ Grown(c, c2) /\ Leads(c2, Here(c, lb), w[n].body)
       /\ \A a1, w1 : AllPlaced(a1, c, w1) => AllPlaced(a1, c2, w1)
  BY <1>9, <1>10 DEF JumpsFrom
<1>12. Leads(c2, w[n].alt, w[n].body)
  <2>1. Leads(c, Start(lb), Here(c, lb))
    BY <1>2, <1>9, LeadsThrough
  <2>2. Leads(c2, Start(lb), Here(c, lb))
    BY <1>11, <2>1, GrownKeeps
  <2>3. QED
    BY <1>9, <1>11, <2>2, LeadsOn
<1>13. here \in Spot /\ Here(c2, b) = here
  <2>1. here \in Spot
    BY <1>2, HereIs
  <2>2. b \notin {lb}
    BY <1>9
  <2>3. QED
    BY <1>2, <1>11, <2>1, <2>2, KeptHere
<1> HIDE DEF here
<1>14. /\ w2 \in Seq(Where) /\ Len(w2) = Len(a) /\ Agree(a, w, w2, n)
       /\ w2[n].after = here
  <2>1. DOMAIN w = 1..Len(a) /\ \A m \in 1..Len(a) : w[m] \in Where
    BY <1>2, ElementOfSeq
  <2>2. \A m \in 1..Len(a) : m # n => w2[m] = w[m]
    BY <2>1
  <2>3. w2[n] = [w[n] EXCEPT !.after = here]
    BY <1>2, <2>1
  <2>4. w[n] \in Where
    BY <1>2, <2>1
  <2>5. /\ w2[n] \in Where /\ w2[n].after = here /\ w2[n].first = w[n].first /\ w2[n].cond = w[n].cond
        /\ w2[n].body = w[n].body /\ w2[n].alt = w[n].alt
    BY <1>13, <2>3, <2>4 DEF Where
  <2>6. DOMAIN w2 = 1..Len(a)
    BY <2>1
  <2>7. w2 \in Seq(Where) /\ Len(w2) = Len(a)
    <3>1. \A m \in 1..Len(a) : w2[m] \in Where
      BY <2>1, <2>2, <2>5
    <3>2. w2 = [m \in 1..Len(a) |-> w2[m]]
      BY <2>1
    <3>3. Len(a) \in Nat
      BY <1>2, LenProperties
    <3> HIDE DEF w2
    <3>4. w2 \in [1..Len(a) -> Where]
      BY <3>1, <3>2
    <3>5. QED
      BY <3>3, <3>4
  <2> HIDE DEF w2
  <2>8. Agree(a, w, w2, n)
    BY <2>2, <2>5 DEF Agree
  <2>9. QED
    BY <2>5, <2>7, <2>8
<1> HIDE DEF w2
<1>15. AllPlaced(a, c2, w2)
  <2>1. AllPlaced(a, c, w2)
    BY <1>2, <1>14, PrefixSelf, PlacedStays
  <2>2. QED
    BY <1>11, <2>1
<1>16. Left(a, c2, w2, n)
  <2>1. w2[n].alt = w[n].alt /\ w2[n].body = w[n].body
    BY <1>2, <1>14 DEF Agree
  <2>2. ControlAt(a, c, w, top, b)
    BY <1>1 DEF TopVisit
  <2>3. kids = {} => here = w[n].body
    BY <2>2 DEF ControlAt, StartOf, here
  <2>4. ASSUME NEW m \in kids, Latest(kids, m) PROVE w2[m].after = here
    <3>1. here = w[m].after
      BY <2>2, <2>4 DEF ControlAt, here
    <3>2. m > n /\ m \in 1..Len(a)
      BY <1>2, <1>3, ChildrenOf
    <3>3. m # n
      BY <1>2, <3>2
    <3>4. QED
      BY <1>14, <3>1, <3>2, <3>3 DEF Agree
  <2>5. QED
    BY <1>2, <1>12, <1>14, <2>1, <2>3, <2>4 DEF Left
<1>17. Leaves(a, c, es, cs, vs, b, h, w, c2, cs2, b, h2, w2, n)
  <2>1. \E T : /\ Kept(c, c2, T)
               /\ \A y \in T : \/ y = b
                               \/ y \in Pending(Last(vs))
                               \/ Last(vs).role = "block" /\ y = Last(cs).localsBlock
    BY <1>11
  <2>2. /\ Agree(a, w, w2, n) /\ w2 \in Seq(Where) /\ Len(w2) = Len(a)
        /\ Held(a, PathOf(Front(vs)), Len(es), cs2, h2)
        /\ Left(a, c2, w2, Last(vs).at)
        /\ Here(c2, b) = w2[Last(vs).at].after
        /\ AllPlaced(a, c2, w2)
    BY <1>8, <1>13, <1>14, <1>15, <1>16 DEF q, e
  <2>3. Len(cs2) = Len(cs) - 1 /\ \A k \in 1..Len(cs2) : cs2[k] = cs[k] /\ h2[k] = h[k]
    BY <1>7 DEF K
  <2>4. QED
    BY <1>2, <2>1, <2>2, <2>3 DEF Leaves
<1>18. Sim(a, c2, es, cs2, Front(vs), b, h2, w2)
  BY <1>17, LeaveSim
<1>19. QED
  BY <1>18 DEF cs2
-----------------------------------------------------------------------------
(* The node of a function, and its code before its body: the entry block,   *)
(* which takes the arguments.                                              *)
FunRecord == [kind |-> "fun", parent |-> 0, role |-> "program"]
(* the code with a function's entry block, and what its arguments need     *)
(* there                                                                   *)
FunCode(args, c) ==
  IF args
  THEN append(append(addBasicBlocks(c, 1), Len(c) + 1, INS("ALLOCA", 0)), Len(c) + 1, INS("ST", 0))
  ELSE addBasicBlocks(c, 1)

(* What entering a function does to the code.                              *)
EntersCode(c, d) ==
  /\ d \in Seq(Seq(Insn)) /\ Grown(c, d) /\ Len(d) = Len(c) + 1 /\ Len(c) + 1 \in 1..Len(d)
  /\ SilentBlock(d, Len(c) + 1)
  /\ \A a, w : AllPlaced(a, c, w) => AllPlaced(a, d, w)

(* The entry block does nothing that can be seen. *)
LEMMA FunCodeIs ==
  ASSUME NEW c \in Seq(Seq(Insn)), NEW args \in BOOLEAN
  PROVE  EntersCode(c, FunCode(args, c))
<1> DEFINE entry == Len(c) + 1
           d == addBasicBlocks(c, 1)
           i1 == INS("ALLOCA", 0)
           i2 == INS("ST", 0)
           d1 == append(d, entry, i1)
           d2 == append(d1, entry, i2)
<1>1. Len(c) \in Nat
  BY LenProperties
<1>2. Kept(c, d, {}) /\ Len(d) = Len(c) + 1 /\ d[entry] = <<>> /\ entry \in 1..Len(d)
  <2>1. 1 \in Nat
    OBVIOUS
  <2>2. Kept(c, d, {}) /\ Len(d) = Len(c) + 1 /\ \A x \in (Len(c) + 1)..(Len(c) + 1) : d[x] = <<>>
    BY <2>1, AddingKeeps
  <2>3. QED
    BY <1>1, <2>2
<1>3. d \in Seq(Seq(Insn)) /\ \A a, w : AllPlaced(a, c, w) => AllPlaced(a, d, w)
  <2>1. 1 \in Nat
    OBVIOUS
  <2>2. QED
    BY <1>2, <2>1, PlacedAdding DEF Kept
<1>4. i1 \in Insn /\ i1.op = "ALLOCA" /\ i2 \in Insn /\ i2.op = "ST"
  <2>1. "ALLOCA" \in Ops /\ "ST" \in Ops /\ 0 \in Nat
    BY DEF Ops
  <2>2. QED
    BY <2>1, Instructions
<1>5. "ALLOCA" \notin Visible /\ "ST" \notin Visible
  BY DEF Visible
<1> HIDE DEF d, i1, i2, entry
<1>6. Kept(d, d1, {entry}) /\ Len(d1) = Len(d) /\ d1[entry] = Append(d[entry], i1)
  <2>1. d \in Seq(Seq(Insn)) /\ entry \in 1..Len(d) /\ i1 \in Insn /\ d1 = append(d, entry, i1)
    BY <1>2, <1>3, <1>4
  <2> HIDE DEF d1
  <2>2. QED
    BY ONLY <2>1, AppendKeeps
<1>7. d1 \in Seq(Seq(Insn)) /\ \A a, w : AllPlaced(a, d, w) => AllPlaced(a, d1, w)
  BY <1>2, <1>3, <1>4, <1>5, <1>6, PlacedOn DEF Kept
<1> HIDE DEF d1
<1>8. Kept(d1, d2, {entry}) /\ Len(d2) = Len(d1) /\ d2[entry] = Append(d1[entry], i2)
  <2>1. d1 \in Seq(Seq(Insn)) /\ entry \in 1..Len(d1) /\ i2 \in Insn /\ d2 = append(d1, entry, i2)
    BY <1>2, <1>4, <1>6, <1>7
  <2> HIDE DEF d2
  <2>2. QED
    BY ONLY <2>1, AppendKeeps
<1>9. d2 \in Seq(Seq(Insn)) /\ \A a, w : AllPlaced(a, d1, w) => AllPlaced(a, d2, w)
  BY <1>2, <1>4, <1>5, <1>6, <1>7, <1>8, PlacedOn DEF Kept
<1> HIDE DEF d2
<1>10. CASE ~args
  <2>1. FunCode(args, c) = d
    BY <1>10 DEF FunCode, d, entry
  <2>2. SilentBlock(d, entry)
    BY <1>2 DEF SilentBlock
  <2>3. EntersCode(c, d)
    BY <1>2, <1>3, <2>2 DEF EntersCode, Kept, entry
  <2>4. QED
    BY <2>1, <2>3
<1>11. CASE args
  <2>1. FunCode(args, c) = d2
    BY <1>11 DEF FunCode, d, d1, d2, i1, i2, entry
  <2>2. Grown(c, d2)
    <3>1. Kept(c, d1, {} \cup {entry})
      BY <1>2, <1>6, KeptOn
    <3>2. Kept(c, d2, {} \cup {entry} \cup {entry})
      BY <1>8, <3>1, KeptOn
    <3>3. QED
      BY <3>2 DEF Kept
  <2>3. SilentBlock(d2, entry)
    <3>1. d2[entry] = Append(Append(<<>>, i1), i2)
      BY <1>2, <1>6, <1>8
    <3>2. \A i \in 1..Len(d2[entry]) : d2[entry][i] = i1 \/ d2[entry][i] = i2
      BY <3>1
    <3>3. QED
      BY <1>4, <3>2 DEF SilentBlock
  <2>4. Len(d2) = Len(c) + 1 /\ entry \in 1..Len(d2)
    BY <1>2, <1>6, <1>8
  <2>5. EntersCode(c, d2)
    BY <1>3, <1>7, <1>9, <2>2, <2>3, <2>4 DEF EntersCode, entry
  <2>6. QED
    BY <2>1, <2>5
<1>12. QED
  BY <1>10, <1>11

(* What entering a function does to the tree.                              *)
FunAdded(a, n, a2) ==
  /\ Prefix(a, a2) /\ Len(a2) = n /\ n = Len(a) + 1 /\ Len(a) \in Nat /\ n \in 1..Len(a2)
  /\ a2[n] = FunRecord
  /\ Tree(a2)
  /\ Inside(a2, n, n)
  /\ \A m \in 1..Len(a) : \A role : Children(a2, m, role) = Children(a, m, role)
  /\ \A role : Children(a2, n, role) = {}

(* A function starts a tree of its own. *)
LEMMA FunIsAdded ==
  ASSUME NEW a \in Seq(NodeType), Tree(a)
  PROVE  FunAdded(a, Len(a) + 1, Append(a, FunRecord))
<1> DEFINE a2 == Append(a, FunRecord)
           n == Len(a) + 1
<1>1. FunRecord \in NodeType
  BY DEF FunRecord, NodeType
<1>2. /\ Len(a) \in Nat /\ a2 \in Seq(NodeType) /\ Len(a2) = n /\ a2[n] = FunRecord
      /\ \A m \in 1..Len(a) : a2[m] = a[m]
  BY <1>1, AppendProperties, LenProperties
<1> HIDE DEF a2
<1>3. Prefix(a, a2) /\ n \in 1..Len(a2)
  BY <1>2 DEF Prefix
<1>4. \A m \in 1..Len(a2) : m \in 1..Len(a) \/ m = n
  BY <1>2
<1>5. FunRecord.parent = 0 /\ FunRecord.kind = "fun" /\ "fun" \notin Loops
  BY DEF FunRecord, Loops
<1>6. \A m \in 1..Len(a) : m # 0 /\ m \in 1..Len(a2)
  BY <1>2
<1>7. \A m \in 1..Len(a) : \A role : Children(a2, m, role) = Children(a, m, role)
  BY <1>2, <1>4, <1>5, <1>6 DEF Children
<1>8. \A role : Children(a2, n, role) = {}
  <2>1. \A m \in 1..Len(a) : a[m].parent \in 0..(m - 1)
    BY DEF Tree
  <2>2. \A m \in 1..Len(a2) : a2[m].parent # n
    <3>1. \A m \in 1..Len(a) : a[m].parent # n
      BY <1>2, <2>1
    <3>2. 0 # n
      BY <1>2
    <3>3. QED
      BY <1>2, <1>4, <1>5, <3>1, <3>2
  <2>3. QED
    BY <2>2 DEF Children
<1>9. Tree(a2)
  <2>1. \A m, k \in 1..Len(a) : Inside(a2, m, k) <=> Inside(a, m, k)
    BY <1>3, PrefixKeeps
  <2>2. ASSUME NEW m \in 1..Len(a)
        PROVE  /\ a2[m].parent \in 0..(m - 1)
               /\ a2[m].parent = 0 <=> a2[m].kind = "fun"
               /\ a2[m].parent # 0 => /\ Inside(a2, m, a2[m].parent)
                                     /\ a2[m].role \in RoleOf(a2[a2[m].parent].kind)
               /\ a2[m].kind \in Loops => \E b \in 1..(m - 1) : a2[b].kind = "block" /\ Inside(a2, m, b)
    <3>1. a2[m] = a[m] /\ a[m].parent \in 0..(m - 1)
      BY <1>2 DEF Tree
    <3>2. \A k \in 0..(m - 1) : k # 0 => k \in 1..Len(a)
      BY <1>2
    <3>3. \A k \in 1..(m - 1) : k \in 1..Len(a)
      BY <1>2
    <3>4. a[m].parent = 0 <=> a[m].kind = "fun"
      BY DEF Tree
    <3>5. a2[m].parent # 0 => /\ Inside(a2, m, a2[m].parent)
                              /\ a2[m].role \in RoleOf(a2[a2[m].parent].kind)
      BY <1>2, <2>1, <3>1, <3>2 DEF Tree
    <3>6. a2[m].kind \in Loops => \E b \in 1..(m - 1) : a2[b].kind = "block" /\ Inside(a2, m, b)
      BY <1>2, <2>1, <3>1, <3>3 DEF Tree
    <3>7. QED
      BY <3>1, <3>4, <3>5, <3>6
  <2>3. 0 \in 0..(n - 1)
    BY <1>2
  <2>4. QED
    BY <1>2, <1>4, <1>5, <2>2, <2>3 DEF Tree
<1>10. Inside(a2, n, n)
  BY <1>2 DEF Inside
<1>11. QED
  BY <1>2, <1>3, <1>7, <1>8, <1>9, <1>10 DEF FunAdded, a2
-----------------------------------------------------------------------------
(* what the contexts hold when that of a function is added: no block and   *)
(* no loop                                                                 *)
NoLoopHeld(h) == Append(h, [block |-> 0, loop |-> 0])

(* The context of a function belongs to no loop. *)
LEMMA FunHeld ==
  ASSUME NEW e \in Nat, NEW cs \in Seq(ContextType), Len(cs) = e,
         NEW a, NEW p, NEW h, Held(a, p, e, cs, h),
         NEW cx \in ContextType, cx.breakBlock = Null, cx.continueBlock = Null,
         NEW a2, NEW p2, p2 \in Seq(Nat), \A i \in 1..Len(p2) : a2[p2[i]].kind = "fun"
  PROVE  Held(a2, p2, e + 1, Append(cs, cx), NoLoopHeld(h))
<1> DEFINE cs2 == Append(cs, cx)
           new == [block |-> 0, loop |-> 0]
           h2 == Append(h, new)
<1>1. /\ h \in Seq(HeldType) /\ Len(h) = e
      /\ \A k \in 1..e : h[k].loop = 0
      /\ \A k \in 1..e : /\ h[k].loop = 0 <=> cs[k].breakBlock = Null
                         /\ h[k].loop = 0 <=> cs[k].continueBlock = Null
  BY DEF Held, HeldTargets
<1>2. new \in HeldType /\ new.loop = 0
  BY DEF HeldType
<1> HIDE DEF new
<1>3. h2 \in Seq(HeldType) /\ Len(h2) = e + 1 /\ h2[e + 1] = new /\ \A k \in 1..e : h2[k] = h[k]
  BY <1>1, <1>2, AppendProperties
<1>4. Len(cs2) = e + 1 /\ cs2[e + 1] = cx /\ \A k \in 1..e : cs2[k] = cs[k]
  BY AppendProperties
<1> HIDE DEF h2, cs2
<1>5. \A k \in 1..(e + 1) : k \in 1..e \/ k = e + 1
  OBVIOUS
<1>6. (e + 1 + 1)..Len(cs2) = {}
  BY <1>4
<1>7. HeldTargets(e + 1, cs2, h2)
  BY <1>1, <1>2, <1>3, <1>4, <1>5 DEF HeldTargets
<1>8. HeldBlocks(a2, p2, e + 1, cs2, h2)
  BY <1>6 DEF HeldBlocks
<1>9. HeldLoops(a2, e + 1, cs2, h2)
  BY <1>6 DEF HeldLoops
<1>10. HeldInner(a2, p2, e + 1, cs2, h2)
  BY <1>6 DEF HeldInner
<1>11. QED
  BY <1>7, <1>8, <1>9, <1>10 DEF Held, h2, cs2, new, NoLoopHeld

(* Entering a function *)
LEMMA FunSim ==
  ASSUME NEW a \in Seq(NodeType), NEW c \in Seq(Seq(Insn)), NEW es \in Seq(Nat),
         NEW cs \in Seq(ContextType), Len(cs) = Len(es),
         NEW b, NEW h, NEW w, Sim(a, c, es, cs, <<>>, b, h, w), NEW args \in BOOLEAN
  PROVE  LET n == Len(a) + 1
             entry == Len(c) + 1
         IN \E h2, w2 : Sim(Append(a, FunRecord), FunCode(args, c), Append(es, entry),
                            Append(cs, Context(entry, Null, Null, Null)),
                            <<Frame(n, "fun", FALSE, Null, Null, Null)>>, entry, h2, w2)
<1> DEFINE n == Len(a) + 1
           entry == Len(c) + 1
           a2 == Append(a, FunRecord)
           c2 == FunCode(args, c)
           es2 == Append(es, entry)
           cx == Context(entry, Null, Null, Null)
           cs2 == Append(cs, cx)
           fr == Frame(n, "fun", FALSE, Null, Null, Null)
           vs2 == <<fr>>
           h2 == NoLoopHeld(h)
           here == Here(c2, entry)
           s == Fresh(here, here)
           w2 == Append(w, s)
<1>1. FunAdded(a, n, a2) /\ EntersCode(c, c2)
  BY FunIsAdded, FunCodeIs DEF Sim
<1>2. /\ Prefix(a, a2) /\ a2 \in Seq(NodeType) /\ Len(a2) = n /\ n = Len(a) + 1 /\ Len(a) \in Nat /\ n \in 1..Len(a2)
      /\ a2[n] = FunRecord /\ Tree(a2) /\ Inside(a2, n, n)
      /\ \A m \in 1..Len(a) : \A role : Children(a2, m, role) = Children(a, m, role)
      /\ \A role : Children(a2, n, role) = {}
  BY <1>1 DEF FunAdded, Prefix
<1>3. /\ c2 \in Seq(Seq(Insn)) /\ Grown(c, c2) /\ Len(c2) = entry /\ entry \in 1..Len(c2) /\ entry \in Nat
      /\ SilentBlock(c2, entry)
      /\ \A x, y : AllPlaced(x, c, y) => AllPlaced(x, c2, y)
  BY <1>1, LenProperties DEF EntersCode
<1>4. /\ Tree(a) /\ Held(a, PathOf(<<>>), Len(es), cs, h) /\ Laid(a, c, <<>>, w)
      /\ AllPlaced(a, c, w) /\ Starts(a, c, w, es)
  BY DEF Sim
<1>5. FunRecord.kind = "fun" /\ FunRecord.parent = 0 /\ FunRecord.role = "program"
  BY DEF FunRecord
<1>6. fr \in FrameType /\ fr.at = n /\ fr.role = "fun" /\ fr.done = FALSE
  BY <1>2 DEF Frame, FrameType, Roles, Null
<1>7. cx \in ContextType /\ cx.breakBlock = Null /\ cx.continueBlock = Null
  BY <1>3 DEF Context, ContextType, Null
<1>8. here \in Spot /\ s \in Where /\ s.first = here /\ s.body = here
  BY <1>3, HereIs, FreshIs DEF Fresh
<1> HIDE DEF a2, c2, fr, cx, s, entry, here, n
<1>9. vs2 \in Seq(FrameType) /\ Len(vs2) = 1 /\ vs2[1] = fr /\ vs2 # <<>> /\ Last(vs2) = fr /\ OpenNodes(vs2) = {n}
  <2>1. vs2 \in Seq(FrameType) /\ Len(vs2) = 1 /\ vs2[1] = fr /\ vs2 # <<>>
    BY <1>6
  <2>2. QED
    BY <1>6, <2>1 DEF OpenNodes, Last
<1> HIDE DEF vs2
<1>10. PathOf(vs2) \in Seq(Nat) /\ Len(PathOf(vs2)) = 1 /\ PathOf(vs2)[1] = n
  <2>1. /\ PathOf(vs2) \in Seq(Nat) /\ Len(PathOf(vs2)) = Len(vs2)
        /\ \A i \in 1..Len(vs2) : PathOf(vs2)[i] = vs2[i].at
    BY <1>9, PathIs
  <2>2. 1 \in 1..Len(vs2)
    BY <1>9
  <2>3. QED
    BY <1>6, <1>9, <2>1, <2>2
<1>11. Path(a2, PathOf(vs2))
  <2>1. \A i \in 1..1 : i = 1
    OBVIOUS
  <2>2. \A i, j \in 1..1 : ~ i < j
    OBVIOUS
  <2>3. \A i \in 1..Len(PathOf(vs2)) : i = 1
    BY <1>10, <2>1
  <2>4. QED
    BY <1>2, <1>5, <1>10, <2>2, <2>3 DEF Path
<1>12. es2 \in Seq(Nat) /\ Len(es2) = Len(es) + 1 /\ es2[Len(es) + 1] = entry /\ Len(es) \in Nat
       /\ \A f \in 1..Len(es) : es2[f] = es[f]
  BY <1>3, AppendProperties, LenProperties
<1> HIDE DEF es2, cs2
<1>13. Held(a2, PathOf(vs2), Len(es2), cs2, h2)
  <2>1. \A i \in 1..Len(PathOf(vs2)) : a2[PathOf(vs2)[i]].kind = "fun"
    BY <1>2, <1>5, <1>10
  <2>2. Held(a2, PathOf(vs2), Len(es) + 1, Append(cs, cx), NoLoopHeld(h))
    BY <1>4, <1>7, <1>10, <1>12, <2>1, FunHeld
  <2>3. QED
    BY <1>12, <2>2 DEF cs2
<1>14. Stacked(a2, vs2)
  BY <1>9 DEF Stacked
<1>15. w \in Seq(Where) /\ Len(w) = Len(a)
  BY <1>4 DEF Laid
<1>16. w2 \in Seq(Where) /\ Len(w2) = n /\ w2[n] = s /\ \A m \in 1..Len(a) : w2[m] = w[m]
  BY <1>2, <1>8, <1>15, AppendProperties
<1> HIDE DEF w2
<1>17. Agree(a, w, w2, 0) /\ BlockOr0(a, 0)
  BY <1>2, <1>16 DEF Agree, BlockOr0
<1>18. \A m \in 1..n : m \in 1..Len(a) \/ m = n
  BY <1>2
<1>19. \A m \in 1..Len(a) : Entered(a2, c2, w2, m) /\ Started(a2, w2, m) /\ Left(a2, c2, w2, m)
  <2> TAKE m \in 1..Len(a)
  <2>1. Entered(a, c, w, m) /\ Started(a, w, m)
    BY <1>4 DEF Laid
  <2>2. Left(a, c, w, m)
    <3>1. OpenNodes(<<>>) = {}
      BY DEF OpenNodes
    <3>2. QED
      BY <1>4, <3>1 DEF Laid
  <2>3. Entered(a2, c2, w2, m)
    BY <1>2, <1>3, <1>4, <1>17, <2>1, EnteredStays
  <2>4. Started(a2, w2, m)
    BY <1>2, <1>4, <1>17, <2>1, StartedStays
  <2>5. \A role : Children(a2, m, role) = Children(a, m, role) /\ 0 \notin Children(a, m, role)
    <3>1. 0 \notin 1..Len(a)
      BY <1>2
    <3>2. \A role : 0 \notin Children(a, m, role)
      BY <3>1 DEF Children
    <3>3. QED
      BY <1>2, <3>2
  <2>6. m # 0
    BY <1>2
  <2>7. Left(a2, c2, w2, m)
    BY <1>2, <1>3, <1>17, <2>2, <2>5, <2>6, LeftStays
  <2>8. QED
    BY <2>3, <2>4, <2>7
<1>20. Entered(a2, c2, w2, n) /\ Started(a2, w2, n)
  BY <1>2, <1>5 DEF Entered, Untranslatable, Started
<1>21. FrameAt(a2, c2, w2, fr)
  <2>1. Pending(fr) = {}
    BY <1>6 DEF Pending
  <2>2. fr.role \in RoleOf(a2[fr.at].kind)
    BY <1>2, <1>5, <1>6 DEF RoleOf
  <2>3. \A role : Children(a2, fr.at, role) = {}
    BY <1>2, <1>6
  <2>4. QED
    BY <1>6, <2>1, <2>2, <2>3 DEF FrameAt
<1>22. Laid(a2, c2, vs2, w2)
  <2>1. \A i \in 1..Len(vs2) : vs2[i] = fr
    BY <1>9
  <2>2. QED
    BY <1>2, <1>9, <1>16, <1>18, <1>19, <1>20, <1>21, <2>1 DEF Laid
<1>23. (Len(es2) + 1)..Len(cs2) = {}
  <2>1. Len(cs2) = Len(cs) + 1
    BY <1>7, AppendProperties DEF cs2
  <2>2. QED
    BY <1>12, <2>1
<1>24. ControlAt(a2, c2, w2, Last(vs2), entry)
  BY <1>2, <1>6, <1>8, <1>9, <1>16 DEF ControlAt, StartOf, here
<1>25. AllPlaced(a2, c2, w2)
  <2>1. AllPlaced(a2, c, w2)
    BY <1>2, <1>4, <1>17, PlacedStays
  <2>2. QED
    BY <1>3, <2>1
<1>26. Starts(a2, c2, w2, es2)
  <2>1. \A x, m : FunAt(a, c, w, x, m) => FunAt(a2, c2, w2, x, m)
    <3> TAKE x, m
    <3> SUFFICES ASSUME FunAt(a, c, w, x, m) PROVE FunAt(a2, c2, w2, x, m)
      OBVIOUS
    <3>1. m \in 1..Len(a) /\ a[m].kind = "fun" /\ Leads(c, Start(x), w[m].body)
      BY DEF FunAt
    <3>2. m \in 1..Len(a2) /\ a2[m].kind = "fun" /\ w2[m] = w[m]
      BY <1>2, <1>16, <3>1 DEF Prefix
    <3>3. Leads(c2, Start(x), w[m].body)
      BY <1>3, <3>1, GrownKeeps
    <3>4. QED
      BY <3>2, <3>3 DEF FunAt
  <2>2. FunAt(a2, c2, w2, entry, n)
    <3>1. Leads(c2, Start(entry), here)
      BY <1>3, LeadsThrough DEF here
    <3>2. QED
      BY <1>2, <1>5, <1>8, <1>16, <3>1 DEF FunAt
  <2>3. PICK fn \in Seq(Nat) : /\ Len(fn) = Len(es) /\ FunsInOrder(a, fn)
                              /\ \A f \in 1..Len(es) : FunAt(a, c, w, es[f], fn[f])
    BY <1>4 DEF Starts
  <2> DEFINE fn2 == Append(fn, n)
  <2>4. /\ fn2 \in Seq(Nat) /\ Len(fn2) = Len(es2) /\ fn2[Len(es) + 1] = n
        /\ \A f \in 1..Len(es) : fn2[f] = fn[f]
    BY <1>2, <1>12, <2>3, AppendProperties
  <2> HIDE DEF fn2
  <2>5. \A f \in 1..Len(es2) : f \in 1..Len(es) \/ f = Len(es) + 1
    BY <1>12
  <2>6. \A f \in 1..Len(es) : fn[f] \in 1..Len(a) /\ f \in 1..Len(es2)
    BY <1>12, <2>3 DEF FunAt
  <2>7. \A f \in 1..Len(es2) : FunAt(a2, c2, w2, es2[f], fn2[f])
    BY <1>12, <2>1, <2>2, <2>3, <2>4, <2>5
  <2>8. FunsInOrder(a2, fn2)
    <3>1. ASSUME NEW f \in 1..Len(fn2), NEW g \in 1..Len(fn2), f < g PROVE fn2[f] < fn2[g]
      <4>1. CASE g \in 1..Len(es)
        <5>1. f \in 1..Len(es)
          BY <1>12, <2>4, <2>5, <3>1, <4>1
        <5>2. QED
          BY <2>3, <2>4, <3>1, <4>1, <5>1 DEF FunsInOrder
      <4>2. CASE g = Len(es) + 1
        <5>1. f \in 1..Len(es)
          BY <1>12, <2>4, <2>5, <3>1, <4>2
        <5>2. fn2[f] = fn[f] /\ fn[f] \in 1..Len(a) /\ fn2[g] = n
          BY <2>4, <2>6, <4>2, <5>1
        <5>3. \A x \in 1..Len(a) : x < n
          BY <1>2
        <5>4. QED
          BY <5>2, <5>3
      <4>3. QED
        BY <2>4, <2>5, <4>1, <4>2
    <3>2. ASSUME NEW m \in 1..Len(a2), a2[m].kind = "fun" PROVE \E f \in 1..Len(fn2) : fn2[f] = m
      <4>1. CASE m = n
        <5>1. Len(es) + 1 \in 1..Len(fn2)
          BY <1>12, <2>4
        <5>2. QED
          BY <2>4, <4>1, <5>1
      <4>2. CASE m \in 1..Len(a)
        <5>1. a[m].kind = "fun"
          BY <1>2, <3>2, <4>2 DEF Prefix
        <5>2. PICK f \in 1..Len(es) : fn[f] = m
          BY <2>3, <4>2, <5>1 DEF FunsInOrder
        <5>3. QED
          BY <2>4, <2>6, <5>2
      <4>3. QED
        BY <1>2, <1>18, <4>1, <4>2
    <3>3. QED
      BY <3>1, <3>2 DEF FunsInOrder
  <2>9. QED
    BY <2>4, <2>7, <2>8 DEF Starts
<1>27. Sim(a2, c2, es2, cs2, vs2, entry, h2, w2)
  BY <1>2, <1>11, <1>13, <1>14, <1>22, <1>23, <1>24, <1>25, <1>26 DEF Sim
<1>28. QED
  BY <1>27 DEF a2, c2, es2, cs2, cx, vs2, fr, entry, n
-----------------------------------------------------------------------------
(* Nothing is held between functions but that they belong to no loop. *)
LEMMA NothingHeld ==
  ASSUME NEW e \in Nat, NEW cs, Len(cs) = e, NEW a, NEW p, NEW h, Held(a, p, e, cs, h)
  PROVE  Held(a, PathOf(<<>>), e, cs, h)
<1> DEFINE q == PathOf(<<>>)
<1>1. 1..Len(q) = {}
  BY DEF PathOf
<1>2. (e + 1)..Len(cs) = {}
  OBVIOUS
<1> HIDE DEF q
<1>3. HeldTargets(e, cs, h)
  BY DEF Held
<1>4. HeldBlocks(a, q, e, cs, h) /\ HeldLoops(a, e, cs, h) /\ HeldInner(a, q, e, cs, h)
  BY <1>1, <1>2 DEF HeldBlocks, HeldLoops, HeldInner
<1>5. QED
  BY <1>3, <1>4 DEF Held, q

(* Leaving a function *)
LEMMA FunLeft ==
  ASSUME NEW a, NEW c, NEW es, NEW cs, NEW vs, NEW b, Ground(a, c, es, cs, vs, b),
         NEW h, NEW w, Sim(a, c, es, cs, vs, b, h, w),
         Last(vs).role = "fun", Last(vs).done, Len(cs) = Len(es)
  PROVE  Sim(a, append(c, b, RET), es, cs, <<>>, b, h, w)
<1> DEFINE top == Last(vs)
           n == top.at
           c2 == append(c, b, RET)
<1>1. TopVisit(a, c, es, cs, vs, b, h, w)
  BY TopVisitIs
<1>2. /\ a \in Seq(NodeType) /\ c \in Seq(Seq(Insn)) /\ b \in 1..Len(c) /\ AllPlaced(a, c, w)
      /\ a[n].kind = "fun" /\ n \in 1..Len(a) /\ w \in Seq(Where) /\ Len(w) = Len(a)
      /\ Held(a, PathOf(vs), Len(es), cs, h) /\ vs \in Seq(FrameType) /\ vs # <<>>
  BY <1>1 DEF TopVisit
<1>3. /\ \A m \in Children(a, n, "fun") : w[m].after = Here(c, b)
      /\ Children(a, n, "fun") # {}
  BY <1>1, AfterChild
<1>4. /\ Tree(a) /\ Laid(a, c, vs, w) /\ Starts(a, c, w, es)
  BY DEF Sim
<1>5. Len(vs) \in Nat /\ vs[Len(vs)].role = "fun" /\ Len(vs) \in 1..Len(vs)
  BY <1>2, TopIs, LenProperties
<1>6. Len(vs) = 1
  BY <1>5 DEF Ground
<1>7. OpenNodes(vs) = {n}
  <2>1. top = vs[1]
    BY <1>2, <1>6, TopIs
  <2>2. 1..Len(vs) = {1}
    BY <1>6
  <2>3. QED
    BY <2>1, <2>2 DEF OpenNodes
<1>8. RET \in Insn /\ RET.op = "RET"
  BY Instructions
<1> HIDE DEF top, n
<1>9. Kept(c, c2, {b}) /\ Holds(c2, Here(c, b), RET)
  <2>1. c \in Seq(Seq(Insn)) /\ b \in 1..Len(c) /\ RET \in Insn /\ c2 = append(c, b, RET)
    BY <1>2, <1>8
  <2> HIDE DEF c2
  <2>2. QED
    BY ONLY <2>1, AppendKeeps
<1>10. AllPlaced(a, c2, w)
  <2>1. RET.op \notin Visible
    BY <1>8 DEF Visible
  <2>2. c \in Seq(Seq(Insn)) /\ b \in 1..Len(c) /\ RET \in Insn /\ c2 = append(c, b, RET) /\ AllPlaced(a, c, w)
    BY <1>2, <1>8
  <2> HIDE DEF c2
  <2>3. QED
    BY <2>1, <2>2, PlacedOn
<1> HIDE DEF c2
<1>11. c2 \in Seq(Seq(Insn)) /\ Grown(c, c2)
  BY <1>9 DEF Kept
<1>12. Prefix(a, a) /\ Agree(a, w, w, 0) /\ BlockOr0(a, 0) /\ Len(a) \in Nat
  BY <1>2, PrefixSelf, LenProperties DEF Agree, BlockOr0
<1>13. \A m \in 1..Len(a) : Entered(a, c2, w, m) /\ Started(a, w, m)
  <2> TAKE m \in 1..Len(a)
  <2>1. Entered(a, c, w, m) /\ Started(a, w, m)
    BY <1>4 DEF Laid
  <2>2. Entered(a, c2, w, m)
    BY <1>2, <1>4, <1>11, <1>12, <2>1, EnteredStays
  <2>3. QED
    BY <2>1, <2>2
<1>14. \A m \in 1..Len(a) : Left(a, c2, w, m)
  <2> TAKE m \in 1..Len(a)
  <2>1. CASE m = n
    <3>1. \A k \in Children(a, n, "fun") : Holds(c2, w[k].after, RET)
      BY <1>3, <1>9
    <3>2. QED
      BY <1>2, <1>3, <2>1, <3>1 DEF Left
  <2>2. CASE m # n
    <3>1. Left(a, c, w, m)
      BY <1>4, <1>7, <2>2 DEF Laid
    <3>2. 0 \notin 1..Len(a)
      BY <1>12
    <3>3. \A role : Children(a, m, role) = Children(a, m, role) /\ 0 \notin Children(a, m, role)
      BY <3>2 DEF Children
    <3>4. m # 0
      BY <1>12
    <3>5. QED
      BY <1>2, <1>11, <1>12, <3>1, <3>3, <3>4, LeftStays
  <2>3. QED
    BY <2>1, <2>2
<1>15. Laid(a, c2, <<>>, w)
  <2>1. 1..Len(<<>>) = {}
    OBVIOUS
  <2>2. QED
    BY <1>2, <1>13, <1>14, <2>1 DEF Laid
<1>16. Starts(a, c2, w, es)
  <2>1. \A m \in 1..Len(a) : a[m].kind = "fun" => m \in 1..Len(a)
    OBVIOUS
  <2>2. QED
    BY <1>2, <1>4, <1>11, <1>12, <2>1, StartsStay
<1>17. Path(a, PathOf(<<>>)) /\ Stacked(a, <<>>)
  <2>1. 1..Len(PathOf(<<>>)) = {} /\ 1..Len(<<>>) = {}
    BY DEF PathOf
  <2>2. QED
    BY <2>1 DEF Path, Stacked
<1>18. Len(es) \in Nat
  BY LenProperties DEF Ground
<1>19. Held(a, PathOf(<<>>), Len(es), cs, h)
  BY <1>2, <1>18, NothingHeld
<1>20. (Len(es) + 1)..Len(cs) = {}
  BY <1>18
<1>21. QED
  BY <1>4, <1>10, <1>15, <1>16, <1>17, <1>19, <1>20 DEF Sim, c2

(* Before the first function *)
LEMMA NothingYet == ASSUME NEW b PROVE Sim(<<>>, <<>>, <<>>, <<>>, <<>>, b, <<>>, <<>>)
<1>1. 1..Len(<<>>) = {} /\ 1..Len(PathOf(<<>>)) = {} /\ (Len(<<>>) + 1)..Len(<<>>) = {} /\ Len(<<>>) = 0
  BY DEF PathOf
<1>2. <<>> \in Seq(HeldType) /\ <<>> \in Seq(Where)
  OBVIOUS
<1>3. Tree(<<>>) /\ Path(<<>>, PathOf(<<>>)) /\ Stacked(<<>>, <<>>)
  BY <1>1 DEF Tree, Path, Stacked
<1>4. Starts(<<>>, <<>>, <<>>, <<>>)
  <2>1. <<>> \in Seq(Nat) /\ 1..Len(<<>>) = {}
    BY <1>1
  <2>2. QED
    BY <2>1 DEF Starts, FunsInOrder
<1>5. Laid(<<>>, <<>>, <<>>, <<>>)
  BY <1>1, <1>2 DEF Laid
<1>6. Held(<<>>, PathOf(<<>>), 0, <<>>, <<>>)
  <2>1. HeldTargets(0, <<>>, <<>>)
    BY <1>1, <1>2 DEF HeldTargets
  <2>2. (0 + 1)..Len(<<>>) = {}
    BY <1>1
  <2>3. HeldBlocks(<<>>, PathOf(<<>>), 0, <<>>, <<>>) /\ HeldLoops(<<>>, 0, <<>>, <<>>) /\ HeldInner(<<>>, PathOf(<<>>), 0, <<>>, <<>>)
    BY <1>1, <2>2 DEF HeldBlocks, HeldLoops, HeldInner
  <2>4. QED
    BY <2>1, <2>3 DEF Held
<1>7. AllPlaced(<<>>, <<>>, <<>>)
  <2>1. Positions(<<>>) = {}
    BY <1>1 DEF Positions
  <2>2. QED
    BY <2>1 DEF AllPlaced
<1>8. QED
  BY <1>1, <1>3, <1>4, <1>5, <1>6, <1>7 DEF Sim
-----------------------------------------------------------------------------
(* Some history of the places, and of what the contexts hold, fits the     *)
(* state.                                                                  *)
Simulated == \E h, w : Sim(ast, code, entries, contexts, visits, bb, h, w)

(* The node of a statement that is visited *)
LEMMA VisitingNode ==
  ASSUME IInv, NEW kind, Visiting(kind), NEW h, NEW w,
         Sim(ast, code, entries, contexts, visits, bb, h, w)
  PROVE  /\ Arriving(ast, code, entries, contexts, visits, bb, h, w, Node(kind))
         /\ Node(kind).kind = kind
<1>1. visits # <<>> /\ kind \in Statements /\ (Top.role = "fun" => kind = "block")
      /\ (Top.role = "block" \/ ~Top.done)
  BY DEF Visiting
<1>2. Ground(ast, code, entries, contexts, visits, bb)
  BY <1>1, GroundNow
<1>3. visits \in Seq(FrameType) /\ Top \in FrameType /\ Top = visits[Len(visits)] /\ Len(visits) \in 1..Len(visits)
      /\ Len(visits) \in Nat
  BY <1>1, <1>2, TopIs, LenProperties DEF Ground, Top
<1>4. kind \in Compound \cup Simple
  BY <1>1, StatementsAssumption
<1>5. Node(kind).kind = kind /\ Node(kind).parent = Top.at /\ Node(kind).role = Top.role
  BY DEF Node
<1>6. Node(kind) \in NodeType
  <2>1. Top.at \in Nat /\ Top.role \in Roles
    BY <1>3 DEF FrameType
  <2>2. QED
    BY <1>4, <2>1 DEF NodeType, Node
<1>7. NewNode(ast, visits, Node(kind))
  BY <1>1, <1>4, <1>5, <1>6 DEF NewNode, Top
<1>8. kind # "block" => Len(contexts) > Len(entries)
  <2> SUFFICES ASSUME kind # "block" PROVE Len(contexts) > Len(entries)
    OBVIOUS
  <2>1. Top.role # "fun"
    BY <1>1
  <2>2. Len(visits) # 1
    BY <1>2, <1>3, <2>1 DEF Ground
  <2>3. Len(visits) >= 2
    <3>1. \A k \in Nat : k \in 1..k /\ k # 1 => k >= 2
      OBVIOUS
    <3>2. QED
      BY <1>3, <2>2, <3>1
  <2>4. QED
    BY <1>2, <2>3 DEF Ground
<1>9. QED
  BY <1>2, <1>5, <1>7, <1>8 DEF Arriving

(* The block instructions go to is open. *)
LEMMA StillOpen ==
  ASSUME IInv, visits # <<>>
  PROVE  ~terminated(code[bb])
<1>1. 0 \in Nat
  OBVIOUS
<1>2. bb \in OpenBlocks(code)
  BY <1>1, Ready
<1>3. QED
  BY <1>2 DEF OpenBlocks

(* Each action of the translator keeps the simulation, one lemma for each. *)
LEMMA ExpressionAct ==
  ASSUME IInv, Simulated, Expression
  PROVE  Simulated'
<1>1. PICK h, w : Sim(ast, code, entries, contexts, visits, bb, h, w)
  BY DEF Simulated
<1>2. Visiting("expr")
  BY DEF Expression
<1> DEFINE x == Node("expr")
           i == INS("EXPR", Len(ast) + 1)
<1>3. Arriving(ast, code, entries, contexts, visits, bb, h, w, x) /\ x.kind = "expr"
  BY <1>1, <1>2, VisitingNode
<1>4. i \in Insn /\ i.at = Len(ast) + 1 /\ i.op = "EXPR"
  <2>1. Len(ast) + 1 \in Nat
    BY <1>3, ArrivingAt
  <2>2. "EXPR" \in Ops
    BY DEF Ops, Visible
  <2>3. QED
    BY <2>1, <2>2, Instructions
<1>5. ast' = Append(ast, x) /\ code' = append(code, bb, i) /\ entries' = entries /\ contexts' = contexts
      /\ visits' = ThisDone(visits) /\ bb' = bb
  BY DEF Expression, VisitSimple, ChildDone, ThisDone, ThisNode
<1>6. \E w2 : Sim(Append(ast, x), append(code, bb, i), entries, contexts, ThisDone(visits), bb, h, w2)
  <2>1. x.kind # "call" /\ i = INS("EXPR", Len(ast) + 1)
    BY <1>3
  <2>2. /\ x.kind \in {"expr", "call"} /\ i.op = (IF x.kind = "call" THEN "CALL" ELSE "EXPR")
        /\ x.kind = "expr" => i = INS("EXPR", Len(ast) + 1)
        /\ x.kind = "call" => \E f \in Nat : i = CALL(Len(ast) + 1, f)
    BY <1>3, <1>4, <2>1
  <2> HIDE DEF x, i
  <2>3. QED
    BY <1>3, <1>4, <2>2, ExpressionSim
<1> HIDE DEF x, i
<1>7. QED
  BY <1>5, <1>6 DEF Simulated

LEMMA CallAct ==
  ASSUME IInv, Simulated, NEW f \in 1..Len(entries), Call(f)
  PROVE  Simulated'
<1>1. PICK h, w : Sim(ast, code, entries, contexts, visits, bb, h, w)
  BY DEF Simulated
<1>2. Visiting("call")
  BY DEF Call
<1> DEFINE x == Node("call")
           i == CALL(Len(ast) + 1, f)
<1>3. Arriving(ast, code, entries, contexts, visits, bb, h, w, x) /\ x.kind = "call"
  BY <1>1, <1>2, VisitingNode
<1>4. i \in Insn /\ i.at = Len(ast) + 1 /\ i.op = "CALL" /\ f \in Nat
  <2>1. Len(ast) + 1 \in Nat /\ Len(entries) \in Nat
    BY <1>3, ArrivingAt
  <2>2. f \in Nat
    BY <2>1
  <2>3. QED
    BY <2>1, <2>2, Instructions
<1>5. ast' = Append(ast, x) /\ code' = append(code, bb, i) /\ entries' = entries /\ contexts' = contexts
      /\ visits' = ThisDone(visits) /\ bb' = bb
  BY DEF Call, VisitSimple, ChildDone, ThisDone, ThisNode
<1>6. \E w2 : Sim(Append(ast, x), append(code, bb, i), entries, contexts, ThisDone(visits), bb, h, w2)
  <2>1. i = CALL(Len(ast) + 1, f)
    OBVIOUS
  <2>2. /\ x.kind \in {"expr", "call"} /\ i.op = (IF x.kind = "call" THEN "CALL" ELSE "EXPR")
        /\ x.kind = "expr" => i = INS("EXPR", Len(ast) + 1)
        /\ x.kind = "call" => \E g \in Nat : i = CALL(Len(ast) + 1, g)
    BY <1>3, <1>4, <2>1
  <2> HIDE DEF x, i
  <2>3. QED
    BY <1>3, <1>4, <2>2, ExpressionSim
<1> HIDE DEF x, i
<1>7. QED
  BY <1>5, <1>6 DEF Simulated

LEMMA VarDeclAct ==
  ASSUME IInv, Simulated, NEW kind \in {"decl", "declinit"}, VarDecl(kind)
  PROVE  Simulated'
<1>1. PICK h, w : Sim(ast, code, entries, contexts, visits, bb, h, w)
  BY DEF Simulated
<1>2. Visiting(kind)
  BY DEF VarDecl
<1> DEFINE x == Node(kind)
           c1 == append(code, Last(contexts).localsBlock, INS("ALLOCA", Len(ast) + 1))
           c2 == IF x.kind = "declinit" THEN append(c1, bb, INS("EXPR", Len(ast) + 1)) ELSE c1
<1>3. Arriving(ast, code, entries, contexts, visits, bb, h, w, x) /\ x.kind = kind
  BY <1>1, <1>2, VisitingNode
<1>4. ast' = Append(ast, x) /\ code' = c2 /\ entries' = entries /\ contexts' = contexts
      /\ visits' = ThisDone(visits) /\ bb' = bb
  BY <1>3 DEF VarDecl, VisitSimple, ChildDone, ThisDone, ThisNode, currentContext
<1>5. \E w2 : Sim(Append(ast, x), c2, entries, contexts, ThisDone(visits), bb, h, w2)
  <2>1. x.kind \in {"decl", "declinit"}
    BY <1>3
  <2>2. /\ c1 = append(code, Last(contexts).localsBlock, INS("ALLOCA", Len(ast) + 1))
        /\ c2 = IF x.kind = "declinit" THEN append(c1, bb, INS("EXPR", Len(ast) + 1)) ELSE c1
    OBVIOUS
  <2> HIDE DEF x, c1, c2
  <2>3. QED
    BY <1>3, <2>1, <2>2, DeclarationSim
<1> HIDE DEF x, c1, c2
<1>6. QED
  BY <1>4, <1>5 DEF Simulated

LEMMA ReturnAct ==
  ASSUME IInv, Simulated, Return
  PROVE  Simulated'
<1>1. PICK h, w : Sim(ast, code, entries, contexts, visits, bb, h, w)
  BY DEF Simulated
<1>2. Visiting("return")
  BY DEF Return
<1> DEFINE x == Node("return")
           c2 == append(append(addBasicBlocks(code, 1), bb, INS("EXPR", Len(ast) + 1)), bb, RETR(Len(ast) + 1))
           b2 == Len(code) + 1
<1>3. Arriving(ast, code, entries, contexts, visits, bb, h, w, x) /\ x.kind = "return"
  BY <1>1, <1>2, VisitingNode
<1>4. ast' = Append(ast, x) /\ code' = c2 /\ entries' = entries /\ contexts' = contexts
      /\ visits' = ThisDone(visits) /\ bb' = b2
  BY DEF Return, VisitSimple, ChildDone, ThisDone, ThisNode
<1>5. \E w2 : Sim(Append(ast, x), c2, entries, contexts, ThisDone(visits), b2, h, w2)
  <2>1. c2 = append(append(addBasicBlocks(code, 1), bb, INS("EXPR", Len(ast) + 1)), bb, RETR(Len(ast) + 1))
    OBVIOUS
  <2> HIDE DEF x, c2
  <2>2. QED
    BY <1>3, <2>1, ReturnSim
<1> HIDE DEF x, c2, b2
<1>6. QED
  BY <1>4, <1>5 DEF Simulated

(* What it has no code for and a jump out of any loop stop the translator;  *)
(* another jump has its target.                                            *)
Explained ==
  \/ ast[Len(ast)].kind \in Untranslatable
  \/ ast[Len(ast)].kind \in {"break", "continue"} /\ EnclosingLoop(ast, Len(ast)) = 0

LEMMA JumpAct ==
  ASSUME IInv, Simulated, NEW kind \in {"break", "continue"},
         NEW t, t = IF kind = "break" THEN currentContext.breakBlock ELSE currentContext.continueBlock,
         JumpTo(kind, t)
  PROVE  IF t = Null THEN status' = "aborted" /\ Explained' ELSE status' = status /\ Simulated'
<1>1. PICK h, w : Sim(ast, code, entries, contexts, visits, bb, h, w)
  BY DEF Simulated
<1>2. Visiting(kind)
  BY DEF JumpTo
<1> DEFINE x == Node(kind)
           a2 == Append(ast, x)
           n == Len(ast) + 1
           c2 == append(addBasicBlocks(code, 1), bb, JMP(t))
           b2 == Len(code) + 1
<1>3. Arriving(ast, code, entries, contexts, visits, bb, h, w, x) /\ x.kind = kind
  BY <1>1, <1>2, VisitingNode
<1>4. ast' = a2 /\ entries' = entries /\ contexts' = contexts /\ visits' = ThisDone(visits)
  BY DEF JumpTo, VisitSimple, ChildDone, ThisDone
<1>5. CASE t = Null
  <2>1. status' = "aborted"
    BY <1>5 DEF JumpTo
  <2>2. Len(a2) = n /\ a2[n] = x
    <3>1. x \in NodeType /\ ast \in Seq(NodeType)
      BY <1>3 DEF Arriving, NewNode, Ground
    <3> HIDE DEF x
    <3>2. QED
      BY <3>1, AppendProperties
  <2>3. GoesTo(a2, n, h[Len(contexts)].loop)
    <3>1. a2 = Append(ast, x) /\ x.kind \in {"break", "continue"}
      BY <1>3
    <3> HIDE DEF a2, x
    <3>2. QED
      BY <1>3, <3>1, JumpLoop
  <2>4. h[Len(contexts)].loop = 0
    <3>1. contexts \in Seq(ContextType) /\ Len(entries) \in Nat
      BY <1>3, ArrivingAt
    <3>2. Len(contexts) > Len(entries)
      BY <1>3 DEF Arriving
    <3>3. Held(ast, PathOf(visits), Len(entries), contexts, h)
      BY <1>1 DEF Sim
    <3>4. /\ h[Len(contexts)].loop = 0 <=> Last(contexts).breakBlock = Null
          /\ h[Len(contexts)].loop = 0 <=> Last(contexts).continueBlock = Null
      BY <3>1, <3>2, <3>3, TopHeld
    <3>5. QED
      BY <1>5, <3>4 DEF currentContext
  <2>5. EnclosingLoop(a2, n) = 0
    BY <2>3, <2>4 DEF GoesTo
  <2>6. Explained'
    BY <1>3, <1>4, <2>2, <2>5 DEF Explained
  <2>7. QED
    BY <1>5, <2>1, <2>6
<1>6. CASE t # Null
  <2>1. code' = c2 /\ bb' = b2 /\ status' = status
    BY <1>6 DEF JumpTo
  <2>2. \E w2 : Sim(Append(ast, x), c2, entries, contexts, ThisDone(visits), b2, h, w2)
    <3>1. /\ x.kind \in {"break", "continue"}
          /\ t = IF x.kind = "break" THEN Last(contexts).breakBlock ELSE Last(contexts).continueBlock
          /\ c2 = append(addBasicBlocks(code, 1), bb, JMP(t))
      BY <1>3 DEF currentContext
    <3> HIDE DEF x, c2
    <3>2. QED
      BY <1>3, <1>6, <3>1, JumpSim
  <2> HIDE DEF x, c2, b2
  <2>3. Simulated'
    BY <1>4, <2>1, <2>2 DEF Simulated
  <2>4. QED
    BY <1>6, <2>1, <2>3
<1>7. QED
  BY <1>5, <1>6
-----------------------------------------------------------------------------
LEMMA VisitBlockAct ==
  ASSUME IInv, Simulated, VisitBlock
  PROVE  Simulated'
<1>1. PICK h, w : Sim(ast, code, entries, contexts, visits, bb, h, w)
  BY DEF Simulated
<1>2. Visiting("block")
  BY DEF VisitBlock
<1> DEFINE x == Node("block")
           locals == Len(code) + 1
           first == Len(code) + 2
           c2 == append(addBasicBlocks(code, 2), bb, JMP(locals))
           fr == Frame(Len(ast) + 1, "block", FALSE, Null, Null, Null)
           cs2 == BlockOn(contexts, locals, first)
<1>3. Arriving(ast, code, entries, contexts, visits, bb, h, w, x) /\ x.kind = "block"
  BY <1>1, <1>2, VisitingNode
<1>4. ~terminated(code[bb])
  BY <1>2, StillOpen DEF Visiting
<1>5. ast' = Append(ast, x) /\ code' = c2 /\ entries' = entries /\ contexts' = cs2
      /\ visits' = Append(ThisDone(visits), fr) /\ bb' = first
  BY <1>4 DEF VisitBlock, VisitCompound, ChildDone, ThisDone, ThisNode, enterBlock, BlockOn, currentContext
<1>6. \E h2, w2 : Sim(Append(ast, x), c2, entries, cs2, Append(ThisDone(visits), fr), first, h2, w2)
  <2>1. /\ locals = Len(code) + 1 /\ first = Len(code) + 2 /\ c2 = append(addBasicBlocks(code, 2), bb, JMP(locals))
        /\ fr = Frame(Len(ast) + 1, "block", FALSE, Null, Null, Null)
        /\ cs2 = BlockOn(contexts, locals, first)
    OBVIOUS
  <2> HIDE DEF x, locals, first, c2, fr, cs2
  <2>2. QED
    BY <1>3, <2>1, BlockSim
<1> HIDE DEF x, first, c2, fr, cs2
<1>7. QED
  BY <1>5, <1>6 DEF Simulated

LEMMA VisitIfAct ==
  ASSUME IInv, Simulated, VisitIf
  PROVE  Simulated'
<1>1. PICK h, w : Sim(ast, code, entries, contexts, visits, bb, h, w)
  BY DEF Simulated
<1>2. Visiting("if")
  BY DEF VisitIf
<1> DEFINE x == Node("if")
           t == Len(code) + 1
           e == Len(code) + 2
           m == Len(code) + 3
           c2 == branch(addBasicBlocks(code, 3), bb, Len(ast) + 1, t, e)
           fr == Frame(Len(ast) + 1, "then", FALSE, Null, e, m)
<1>3. Arriving(ast, code, entries, contexts, visits, bb, h, w, x) /\ x.kind = "if"
  BY <1>1, <1>2, VisitingNode
<1>4. ast' = Append(ast, x) /\ code' = c2 /\ entries' = entries /\ contexts' = contexts
      /\ visits' = Append(ThisDone(visits), fr) /\ bb' = t
  BY DEF VisitIf, VisitCompound, ChildDone, ThisDone, ThisNode
<1>5. \E w2 : Sim(Append(ast, x), c2, entries, contexts, Append(ThisDone(visits), fr), t, h, w2)
  <2>1. /\ t = Len(code) + 1 /\ e = Len(code) + 2 /\ m = Len(code) + 3
        /\ c2 = branch(addBasicBlocks(code, 3), bb, Len(ast) + 1, t, e)
        /\ fr = Frame(Len(ast) + 1, "then", FALSE, Null, e, m)
    OBVIOUS
  <2> HIDE DEF x, t, e, m, c2, fr
  <2>2. QED
    BY ONLY <1>3, <2>1, IfSim
<1> HIDE DEF x, t, c2, fr
<1>6. QED
  BY <1>4, <1>5 DEF Simulated

LEMMA VisitWhileAct ==
  ASSUME IInv, Simulated, VisitWhile
  PROVE  Simulated'
<1>1. PICK h, w : Sim(ast, code, entries, contexts, visits, bb, h, w)
  BY DEF Simulated
<1>2. Visiting("while")
  BY DEF VisitWhile
<1> DEFINE x == Node("while")
           cond == Len(code) + 1
           body == Len(code) + 2
           brk == Len(code) + 3
           c2 == branch(append(addBasicBlocks(code, 3), bb, JMP(cond)), cond, Len(ast) + 1, body, brk)
           fr == Frame(Len(ast) + 1, "while", FALSE, cond, Null, brk)
           cs2 == LoopIn(contexts, body, brk)
<1>3. Arriving(ast, code, entries, contexts, visits, bb, h, w, x) /\ x.kind = "while"
  BY <1>1, <1>2, VisitingNode
<1>4. ast' = Append(ast, x) /\ code' = c2 /\ entries' = entries /\ contexts' = cs2
      /\ visits' = Append(ThisDone(visits), fr) /\ bb' = body
  BY DEF VisitWhile, VisitCompound, ChildDone, ThisDone, ThisNode, enterLoopBasicBlock, LoopIn
<1>5. \E h2, w2 : Sim(Append(ast, x), c2, entries, cs2, Append(ThisDone(visits), fr), body, h2, w2)
  <2>1. WhileEntry(ast, code, bb, contexts, cond, body, brk, c2, fr, cs2)
    BY DEF WhileEntry
  <2> HIDE DEF x, cond, body, brk, c2, fr, cs2
  <2>2. QED
    BY <1>3, <2>1, WhileSim
<1> HIDE DEF x, body, c2, fr, cs2
<1>6. QED
  BY <1>4, <1>5 DEF Simulated

LEMMA VisitDoWhileAct ==
  ASSUME IInv, Simulated, VisitDoWhile
  PROVE  Simulated'
<1>1. PICK h, w : Sim(ast, code, entries, contexts, visits, bb, h, w)
  BY DEF Simulated
<1>2. Visiting("do")
  BY DEF VisitDoWhile
<1> DEFINE x == Node("do")
           body == Len(code) + 1
           cond == Len(code) + 2
           brk == Len(code) + 3
           c2 == append(addBasicBlocks(code, 3), bb, JMP(body))
           fr == Frame(Len(ast) + 1, "do", FALSE, cond, body, brk)
           cs2 == LoopIn(contexts, cond, brk)
<1>3. Arriving(ast, code, entries, contexts, visits, bb, h, w, x) /\ x.kind = "do"
  BY <1>1, <1>2, VisitingNode
<1>4. ast' = Append(ast, x) /\ code' = c2 /\ entries' = entries /\ contexts' = cs2
      /\ visits' = Append(ThisDone(visits), fr) /\ bb' = body
  BY DEF VisitDoWhile, VisitCompound, ChildDone, ThisDone, ThisNode, enterLoopBasicBlock, LoopIn
<1>5. \E h2, w2 : Sim(Append(ast, x), c2, entries, cs2, Append(ThisDone(visits), fr), body, h2, w2)
  <2>1. DoEntry(ast, code, bb, contexts, body, cond, brk, c2, fr, cs2)
    BY DEF DoEntry
  <2> HIDE DEF x, cond, body, brk, c2, fr, cs2
  <2>2. QED
    BY <1>3, <2>1, DoSim
<1> HIDE DEF x, body, c2, fr, cs2
<1>6. QED
  BY <1>4, <1>5 DEF Simulated

LEMMA VisitForAct ==
  ASSUME IInv, Simulated, NEW declares \in BOOLEAN, VisitFor(declares)
  PROVE  Simulated'
<1>1. PICK h, w : Sim(ast, code, entries, contexts, visits, bb, h, w)
  BY DEF Simulated
<1>2. Visiting("for")
  BY DEF VisitFor
<1> DEFINE x == Node("for")
           cond == Len(code) + 1
           inc == Len(code) + 2
           body == Len(code) + 3
           brk == Len(code) + 4
           c1 == Initialised(declares, code, bb, Last(contexts).localsBlock, Len(ast) + 1)
           c2 == branch(append(addBasicBlocks(c1, 4), bb, JMP(cond)), cond, Len(ast) + 1, body, brk)
           fr == Frame(Len(ast) + 1, "for", FALSE, cond, inc, brk)
           cs2 == LoopIn(contexts, inc, brk)
<1>3. Arriving(ast, code, entries, contexts, visits, bb, h, w, x) /\ x.kind = "for"
  BY <1>1, <1>2, VisitingNode
<1>4. ast' = Append(ast, x) /\ code' = c2 /\ entries' = entries /\ contexts' = cs2
      /\ visits' = Append(ThisDone(visits), fr) /\ bb' = body
  BY DEF VisitFor, VisitCompound, ChildDone, ThisDone, ThisNode, enterLoopBasicBlock, LoopIn, Initialised, currentContext
<1>5. \E h2, w2 : Sim(Append(ast, x), c2, entries, cs2, Append(ThisDone(visits), fr), body, h2, w2)
  <2>1. ForEntry(ast, code, bb, contexts, declares, cond, inc, body, brk, c1, c2, fr, cs2)
    BY DEF ForEntry
  <2> HIDE DEF x, cond, inc, body, brk, c1, c2, fr, cs2
  <2>2. QED
    BY <1>3, <2>1, ForSim
<1> HIDE DEF x, body, c2, fr, cs2
<1>6. QED
  BY <1>4, <1>5 DEF Simulated
-----------------------------------------------------------------------------
(* The innermost visit, when its child is translated *)
LEMMA VisitedTop ==
  ASSUME IInv, NEW role, Visited(role)
  PROVE  /\ Ground(ast, code, entries, contexts, visits, bb)
         /\ Last(visits).role = role /\ (role = "block" \/ Last(visits).done)
         /\ Last(visits) \in FrameType
         /\ role = "for" => Last(visits).alt # Last(visits).merge
         /\ role = "do" => Last(visits).merge # Last(visits).cond
<1>1. visits # <<>> /\ Last(visits).role = role /\ (role = "block" \/ Last(visits).done)
  BY DEF Visited, Top
<1>2. Ground(ast, code, entries, contexts, visits, bb)
  BY <1>1, GroundNow
<1>3. 0 \in Nat
  OBVIOUS
<1>4. Top \in FrameType /\ FrameOK(Top, Current(entries, Len(code) + 0))
  BY <1>1, <1>3, Ready
<1>5. QED
  BY <1>1, <1>2, <1>4 DEF FrameOK, Top

LEMMA EndThenAct ==
  ASSUME IInv, Simulated, NEW falseCase \in BOOLEAN, EndThen(falseCase)
  PROVE  Simulated'
<1>1. PICK h, w : Sim(ast, code, entries, contexts, visits, bb, h, w)
  BY DEF Simulated
<1>2. Visited("then")
  BY DEF EndThen
<1> DEFINE top == Last(visits)
           c2 == append(code, bb, JMP(top.merge))
           done == ~falseCase
           fr == Frame(top.at, "else", done, Null, Null, top.merge)
<1>3. Ground(ast, code, entries, contexts, visits, bb) /\ top.role = "then" /\ top.done
  BY <1>2, VisitedTop
<1>4. ast' = ast /\ code' = c2 /\ entries' = entries /\ contexts' = contexts
      /\ visits' = Append(Front(visits), fr) /\ bb' = top.alt
  BY DEF EndThen, Top
<1>5. Sim(ast, c2, entries, contexts, Append(Front(visits), fr), top.alt, h, w)
  <2>1. /\ c2 = append(code, bb, JMP(Last(visits).merge)) /\ done \in BOOLEAN
        /\ fr = Frame(Last(visits).at, "else", done, Null, Null, Last(visits).merge)
        /\ Last(visits).role = "then" /\ Last(visits).done
    BY <1>3
  <2> HIDE DEF c2, fr, done
  <2>2. QED
    BY <1>1, <1>3, <2>1, EndThenSim
<1> HIDE DEF c2, fr, top
<1>6. QED
  BY <1>4, <1>5 DEF Simulated

LEMMA EndIfAct ==
  ASSUME IInv, Simulated, EndIf
  PROVE  Simulated'
<1>1. PICK h, w : Sim(ast, code, entries, contexts, visits, bb, h, w)
  BY DEF Simulated
<1>2. Visited("else")
  BY DEF EndIf
<1> DEFINE c2 == append(code, bb, JMP(Last(visits).merge))
<1>3. Ground(ast, code, entries, contexts, visits, bb) /\ Last(visits).role = "else" /\ Last(visits).done
  BY <1>2, VisitedTop
<1>4. ast' = ast /\ code' = c2 /\ entries' = entries /\ contexts' = contexts
      /\ visits' = Front(visits) /\ bb' = Last(visits).merge
  BY DEF EndIf, Top
<1>5. Sim(ast, c2, entries, contexts, Front(visits), Last(visits).merge, h, w)
  <2>1. c2 = append(code, bb, JMP(Last(visits).merge))
    OBVIOUS
  <2> HIDE DEF c2
  <2>2. QED
    BY <1>1, <1>3, <2>1, IfLeft
<1> HIDE DEF c2
<1>6. QED
  BY <1>4, <1>5 DEF Simulated

LEMMA EndWhileAct ==
  ASSUME IInv, Simulated, EndWhile
  PROVE  Simulated'
<1>1. PICK h, w : Sim(ast, code, entries, contexts, visits, bb, h, w)
  BY DEF Simulated
<1>2. Visited("while")
  BY DEF EndWhile
<1> DEFINE c2 == append(code, bb, JMP(Last(visits).cond))
<1>3. Ground(ast, code, entries, contexts, visits, bb) /\ Last(visits).role = "while" /\ Last(visits).done
  BY <1>2, VisitedTop
<1>4. ast' = ast /\ code' = c2 /\ entries' = entries /\ contexts' = contexts
      /\ visits' = Front(visits) /\ bb' = Last(visits).merge
  BY DEF EndWhile, Top
<1>5. Sim(ast, c2, entries, contexts, Front(visits), Last(visits).merge, h, w)
  <2>1. c2 = append(code, bb, JMP(Last(visits).cond))
    OBVIOUS
  <2> HIDE DEF c2
  <2>2. QED
    BY <1>1, <1>3, <2>1, WhileLeft
<1> HIDE DEF c2
<1>6. QED
  BY <1>4, <1>5 DEF Simulated

LEMMA EndDoWhileAct ==
  ASSUME IInv, Simulated, EndDoWhile
  PROVE  Simulated'
<1>1. PICK h, w : Sim(ast, code, entries, contexts, visits, bb, h, w)
  BY DEF Simulated
<1>2. Visited("do")
  BY DEF EndDoWhile
<1> DEFINE c2 == branch(append(code, bb, JMP(Last(visits).cond)), Last(visits).cond, Last(visits).at,
                        Last(visits).alt, Last(visits).merge)
<1>3. Ground(ast, code, entries, contexts, visits, bb) /\ Last(visits).role = "do" /\ Last(visits).done
      /\ Last(visits).merge # Last(visits).cond
  BY <1>2, VisitedTop
<1>4. ast' = ast /\ code' = c2 /\ entries' = entries /\ contexts' = contexts
      /\ visits' = Front(visits) /\ bb' = Last(visits).merge
  BY DEF EndDoWhile, Top
<1>5. Sim(ast, c2, entries, contexts, Front(visits), Last(visits).merge, h, w)
  <2>1. c2 = branch(append(code, bb, JMP(Last(visits).cond)), Last(visits).cond, Last(visits).at,
                    Last(visits).alt, Last(visits).merge)
    OBVIOUS
  <2> HIDE DEF c2
  <2>2. QED
    BY <1>1, <1>3, <2>1, DoLeft
<1> HIDE DEF c2
<1>6. QED
  BY <1>4, <1>5 DEF Simulated

LEMMA EndForAct ==
  ASSUME IInv, Simulated, EndFor
  PROVE  Simulated'
<1>1. PICK h, w : Sim(ast, code, entries, contexts, visits, bb, h, w)
  BY DEF Simulated
<1>2. Visited("for")
  BY DEF EndFor
<1> DEFINE c2 == append(append(append(code, bb, JMP(Last(visits).alt)), Last(visits).alt, INS("INC", Last(visits).at)),
                        Last(visits).alt, JMP(Last(visits).cond))
<1>3. Ground(ast, code, entries, contexts, visits, bb) /\ Last(visits).role = "for" /\ Last(visits).done
      /\ Last(visits).alt # Last(visits).merge
  BY <1>2, VisitedTop
<1>4. ast' = ast /\ code' = c2 /\ entries' = entries /\ contexts' = contexts
      /\ visits' = Front(visits) /\ bb' = Last(visits).merge
  BY DEF EndFor, Top
<1>5. Sim(ast, c2, entries, contexts, Front(visits), Last(visits).merge, h, w)
  <2>1. c2 = append(append(append(code, bb, JMP(Last(visits).alt)), Last(visits).alt, INS("INC", Last(visits).at)),
                    Last(visits).alt, JMP(Last(visits).cond))
    OBVIOUS
  <2> HIDE DEF c2
  <2>2. QED
    BY <1>1, <1>3, <2>1, ForLeft
<1> HIDE DEF c2
<1>6. QED
  BY <1>4, <1>5 DEF Simulated

(* The ends of a block and of a function, and the start of a function.     *)
LEMMA LeaveBlockAct ==
  ASSUME IInv, Simulated, LeaveBlock
  PROVE  Simulated'
<1>1. PICK h, w : Sim(ast, code, entries, contexts, visits, bb, h, w)
  BY DEF Simulated
<1>2. Visited("block")
  BY DEF LeaveBlock
<1> DEFINE c2 == append(code, Last(contexts).localsBlock, JMP(Last(contexts).firstBB))
<1>3. Ground(ast, code, entries, contexts, visits, bb) /\ Last(visits).role = "block"
  BY <1>2, VisitedTop
<1>4. ast' = ast /\ code' = c2 /\ entries' = entries /\ contexts' = Front(contexts)
      /\ visits' = Front(visits) /\ bb' = bb
  BY DEF LeaveBlock, currentContext
<1>5. \E h2, w2 : Sim(ast, c2, entries, Front(contexts), Front(visits), bb, h2, w2)
  <2>1. c2 = append(code, Last(contexts).localsBlock, JMP(Last(contexts).firstBB))
    OBVIOUS
  <2> HIDE DEF c2
  <2>2. QED
    BY <1>1, <1>3, <2>1, BlockLeft
<1> HIDE DEF c2
<1>6. QED
  BY <1>4, <1>5 DEF Simulated

LEMMA LeaveFunctionAct ==
  ASSUME IInv, Simulated, LeaveFunction
  PROVE  Simulated'
<1>1. PICK h, w : Sim(ast, code, entries, contexts, visits, bb, h, w)
  BY DEF Simulated
<1>2. Visited("fun")
  BY DEF LeaveFunction
<1>3. Ground(ast, code, entries, contexts, visits, bb) /\ Last(visits).role = "fun" /\ Last(visits).done
      /\ visits # <<>>
  BY <1>2, VisitedTop DEF Visited
<1>4. ~terminated(code[bb])
  BY <1>3, StillOpen
<1>5. ast' = ast /\ code' = append(code, bb, RET) /\ entries' = entries /\ contexts' = contexts
      /\ visits' = <<>> /\ bb' = bb
  BY <1>4 DEF LeaveFunction
<1>6. Len(contexts) = Len(entries)
  <2>1. IInv'
    BY LeaveFunctionStep
  <2>2. ~Active'
    BY <1>5 DEF Active, VisitsOK
  <2>3. Idle'
    BY <2>1, <2>2 DEF IInv
  <2>4. QED
    BY <1>5, <2>3 DEF Idle
<1>7. Sim(ast, append(code, bb, RET), entries, contexts, <<>>, bb, h, w)
  BY <1>1, <1>3, <1>6, FunLeft
<1>8. QED
  BY <1>5, <1>7 DEF Simulated

LEMMA EnterFunctionAct ==
  ASSUME IInv, Simulated, NEW args \in BOOLEAN, EnterFunction(args)
  PROVE  Simulated'
<1>1. PICK h, w : Sim(ast, code, entries, contexts, visits, bb, h, w)
  BY DEF Simulated
<1> DEFINE entry == Len(code) + 1
           n == Len(ast) + 1
           cs2 == Append(contexts, Context(entry, Null, Null, Null))
           vs2 == <<Frame(n, "fun", FALSE, Null, Null, Null)>>
<1>2. visits = <<>>
  BY DEF EnterFunction
<1>3. /\ ast \in Seq(NodeType) /\ code \in Seq(Seq(Insn)) /\ entries \in Seq(Nat)
      /\ contexts \in Seq(ContextType) /\ Len(contexts) = Len(entries)
  <2>1. TypeOK /\ Idle
    BY <1>2 DEF IInv, Active, VisitsOK
  <2>2. \A f \in 1..Len(entries) : entries[f] \in Nat
    <3>1. \A f \in 1..Len(entries) : entries[f] \in 1..Len(code)
      BY <2>1, ElementOfSeq DEF TypeOK
    <3>2. Len(code) \in Nat
      BY <2>1, LenProperties DEF TypeOK
    <3>3. QED
      BY <3>1, <3>2
  <2>3. entries \in Seq(Nat)
    BY <2>1, <2>2, SeqRetyped DEF TypeOK
  <2>4. QED
    BY <2>1, <2>3 DEF TypeOK, Idle
<1>4. ast' = Append(ast, FunRecord) /\ code' = FunCode(args, code) /\ entries' = Append(entries, entry)
      /\ contexts' = cs2 /\ visits' = vs2 /\ bb' = entry
  BY DEF EnterFunction, FunRecord, FunCode, ThisNode
<1>5. \E h2, w2 : Sim(Append(ast, FunRecord), FunCode(args, code), Append(entries, entry), cs2, vs2, entry, h2, w2)
  <2>1. Sim(ast, code, entries, contexts, <<>>, bb, h, w)
    BY <1>1, <1>2
  <2>2. QED
    BY <1>3, <2>1, FunSim
<1> HIDE DEF entry, n, cs2, vs2
<1>6. QED
  BY <1>4, <1>5 DEF Simulated

(* Actions that leave the code, the tree and the stacks alone.             *)
LEMMA QuietAct ==
  ASSUME Simulated, UNCHANGED <<ast, code, entries, contexts, visits, bb>>
  PROVE  Simulated'
BY DEF Simulated
-----------------------------------------------------------------------------
(* What every state the translator reaches satisfies: while it has not      *)
(* stopped, the code so far does what the source program so far says.      *)
SInv ==
  /\ status # "aborted" => Simulated
  /\ status = "aborted" => Explained

(* An empty program is simulated by an empty history, ...                  *)
LEMMA InitSimulates == Init => SInv
<1> SUFFICES ASSUME Init PROVE SInv
  OBVIOUS
<1>1. Sim(<<>>, <<>>, <<>>, <<>>, <<>>, bb, <<>>, <<>>)
  BY NothingYet
<1>2. Simulated
  BY <1>1 DEF Init, Simulated
<1>3. QED
  BY <1>2 DEF Init, SInv

(* ... the node the visitor stops at is the last of the tree, ...           *)
LEMMA StopsAt ==
  ASSUME IInv, visits # <<>>, NEW kind \in Untranslatable, kind \in Statements,
         VisitSimple(kind), status' = "aborted"
  PROVE  Explained'
<1>1. ast \in Seq(NodeType) /\ visits \in Seq(FrameType) /\ Top \in FrameType
  BY GroundNow, TopIs DEF Ground, Top
<1>2. Node(kind) \in NodeType /\ Node(kind).kind = kind
  BY <1>1, StatementsAssumption DEF Node, NodeType, FrameType
<1>3. ast'[Len(ast')] = Node(kind)
  BY <1>1, <1>2, AppendProperties DEF VisitSimple
<1>4. QED
  BY <1>2, <1>3 DEF Explained

(* ... every step has a history after it if it had one before, ...         *)
LEMMA StepSimulates ==
  ASSUME IInv, SInv, Step
  PROVE  SInv'
<1>1. status = "translating" /\ Simulated
  <2>1. status = "translating"
    BY DEF Step, EnterFunction, LeaveFunction, VisitBlock, LeaveBlock, VisitIf, EndThen, EndIf, VisitWhile,
           EndWhile, VisitDoWhile, EndDoWhile, VisitFor, EndFor, Break, Continue, JumpTo, Return, ReturnNothing,
           Unsupported, UnsupportedEnd, Expression, Call, VarDecl, Finish, Visiting, Visited
  <2>2. QED
    BY <2>1 DEF SInv
<1> DEFINE Fine == status' # "aborted" /\ Simulated'
<1>2. Fine => SInv'
  BY DEF SInv
<1>3. CASE \E args \in BOOLEAN : EnterFunction(args)
  BY <1>1, <1>2, <1>3, EnterFunctionAct DEF EnterFunction
<1>4. CASE LeaveFunction
  BY <1>1, <1>2, <1>4, LeaveFunctionAct DEF LeaveFunction
<1>5. CASE VisitBlock
  BY <1>1, <1>2, <1>5, VisitBlockAct DEF VisitBlock
<1>6. CASE LeaveBlock
  BY <1>1, <1>2, <1>6, LeaveBlockAct DEF LeaveBlock
<1>7. CASE VisitIf
  BY <1>1, <1>2, <1>7, VisitIfAct DEF VisitIf
<1>8. CASE \E falseCase \in BOOLEAN : EndThen(falseCase)
  BY <1>1, <1>2, <1>8, EndThenAct DEF EndThen
<1>9. CASE EndIf
  BY <1>1, <1>2, <1>9, EndIfAct DEF EndIf
<1>10. CASE VisitWhile
  BY <1>1, <1>2, <1>10, VisitWhileAct DEF VisitWhile
<1>11. CASE EndWhile
  BY <1>1, <1>2, <1>11, EndWhileAct DEF EndWhile
<1>12. CASE VisitDoWhile
  BY <1>1, <1>2, <1>12, VisitDoWhileAct DEF VisitDoWhile
<1>13. CASE EndDoWhile
  BY <1>1, <1>2, <1>13, EndDoWhileAct DEF EndDoWhile
<1>14. CASE \E declares \in BOOLEAN : VisitFor(declares)
  BY <1>1, <1>2, <1>14, VisitForAct DEF VisitFor
<1>15. CASE EndFor
  BY <1>1, <1>2, <1>15, EndForAct DEF EndFor
<1>16. ASSUME NEW kind \in {"break", "continue"},
              NEW t, t = IF kind = "break" THEN currentContext.breakBlock ELSE currentContext.continueBlock,
              JumpTo(kind, t)
       PROVE  SInv'
  <2>1. IF t = Null THEN status' = "aborted" /\ Explained' ELSE status' = status /\ Simulated'
    BY <1>1, <1>16, JumpAct
  <2>2. QED
    BY <1>1, <2>1 DEF SInv
<1>17. CASE Break
  <2>1. JumpTo("break", currentContext.breakBlock)
    BY <1>17 DEF Break
  <2>2. QED
    BY <1>16, <2>1
<1>18. CASE Continue
  <2>1. JumpTo("continue", currentContext.continueBlock)
    BY <1>18 DEF Continue
  <2>2. QED
    BY <1>16, <2>1
<1>19. CASE Return
  BY <1>1, <1>2, <1>19, ReturnAct DEF Return
<1>20. CASE ReturnNothing
  BY <1>20, StopsAt DEF ReturnNothing, Visiting, SInv, Untranslatable
<1>21. CASE Unsupported \/ UnsupportedEnd
  BY <1>21, StopsAt DEF Unsupported, UnsupportedEnd, Visiting, Visited, SInv, Untranslatable
<1>22. CASE Expression
  BY <1>1, <1>2, <1>22, ExpressionAct DEF Expression
<1>23. CASE \E f \in 1..Len(entries) : Call(f)
  BY <1>1, <1>2, <1>23, CallAct DEF Call
<1>24. CASE \E kind \in {"decl", "declinit"} : VarDecl(kind)
  BY <1>1, <1>2, <1>24, VarDeclAct DEF VarDecl
<1>25. CASE Finish
  BY <1>1, <1>2, <1>25, QuietAct DEF Finish
<1>26. QED
  BY <1>3, <1>4, <1>5, <1>6, <1>7, <1>8, <1>9, <1>10, <1>11, <1>12, <1>13, <1>14, <1>15, <1>17, <1>18, <1>19,
     <1>20, <1>22, <1>23, <1>24, <1>25, <1>21 DEF Step

(* ... so does stuttering.                                                 *)
LEMMA NextSimulates == IInv /\ SInv /\ [Next]_vars => SInv'
<1> SUFFICES ASSUME IInv, SInv, [Next]_vars PROVE SInv'
  OBVIOUS
<1>1. CASE Step
  BY <1>1, StepSimulates
<1>2. CASE UNCHANGED vars
  BY <1>2 DEF vars, SInv, Simulated, Explained
<1>3. QED
  BY <1>1, <1>2 DEF Next, Stopped

(* In every state of the translator some history of the places explains the *)
(* code made so far as the source program visited so far: nothing is missing, *)
(* misplaced or added, whichever statements are still being visited.        *)
THEOREM CodeFollowsSource == Spec => []SInv
<1>1. Init => SInv
  BY InitSimulates
<1>2. IInv /\ IInv' /\ SInv /\ [Next]_vars => SInv'
  BY NextSimulates
<1>3. Spec => []IInv
  BY Invariant
<1>4. QED
  BY <1>1, <1>2, <1>3, PTL DEF Spec

(* A finished translation *)
LEMMA FinishedFlow ==
  ASSUME IInv, SInv, status = "done"
  PROVE  \E w : /\ Complete(ast, code, w)
                /\ AllPlaced(ast, code, w)
                /\ entries \in Seq(Nat) /\ Starts(ast, code, w, entries)
<1>1. PICK h, w : Sim(ast, code, entries, contexts, visits, bb, h, w)
  BY DEF SInv, Simulated
<1>2. visits = <<>> /\ TypeOK
  BY DEF IInv, Active, Idle
<1>3. OpenNodes(visits) = {}
  BY <1>2 DEF OpenNodes
<1>4. Complete(ast, code, w)
  BY <1>1, <1>2, <1>3 DEF Complete, Sim, Laid, TypeOK
<1>5. entries \in Seq(Nat)
  <2>1. \A f \in 1..Len(entries) : entries[f] \in Nat
    <3>1. \A f \in 1..Len(entries) : entries[f] \in 1..Len(code)
      BY <1>2, ElementOfSeq DEF TypeOK
    <3>2. Len(code) \in Nat
      BY <1>2, LenProperties DEF TypeOK
    <3>3. QED
      BY <3>1, <3>2
  <2>2. QED
    BY <1>2, <2>1, SeqRetyped DEF TypeOK
<1>6. QED
  BY <1>1, <1>4, <1>5 DEF Sim

(* The invariants give FlowIsPreserved: when the translation is done no    *)
(* visit is active, so every node has been left and the flows agree.       *)
LEMMA FlowHolds == IInv /\ SInv => FlowIsPreserved
<1> SUFFICES ASSUME IInv, SInv, status = "done", JumpsAreClean
             PROVE  /\ CodeFlow(code) = SourceFlow(ast)
                    /\ {BlockStart(code, entries[f]) : f \in 1..Len(entries)} = SourceStarts(ast)
  BY DEF FlowIsPreserved
<1>1. PICK w : /\ Complete(ast, code, w)
               /\ AllPlaced(ast, code, w)
               /\ entries \in Seq(Nat) /\ Starts(ast, code, w, entries)
  BY FinishedFlow
<1>2. CleanIn(ast)
  BY DEF CleanIn, JumpsAreClean, JumpNodes, Stale, ContinuesWhile
<1>3. CodeFlow(code) = SourceFlow(ast)
  BY <1>1, <1>2, FlowsAgree
<1>4. {BlockStart(code, entries[f]) : f \in 1..Len(entries)} = SourceStarts(ast)
  BY <1>1, <1>2, StartsAgree
<1>5. QED
  BY <1>3, <1>4

(* And AbortsOnlyForStrayJumps: the context's target is null only when it  *)
(* holds no loop; then there is no loop around the jump.                   *)
LEMMA AbortsHold == IInv /\ SInv => AbortsOnlyForStrayJumps
<1> SUFFICES ASSUME IInv, SInv PROVE AbortsOnlyForStrayJumps
  OBVIOUS
<1>1. status = "aborted" => Explained
  BY DEF SInv
<1>2. ASSUME status = "done", NEW n \in JumpNodes
      PROVE  EnclosingLoop(ast, n) # 0 \/ Stale(n)
  <2>1. PICK w : Complete(ast, code, w)
    BY <1>2, FinishedFlow
  <2>2. n \in 1..Len(ast) /\ ast[n].kind \in {"break", "continue"}
    BY DEF JumpNodes
  <2>3. Entered(ast, code, w, n)
    BY <2>1, <2>2 DEF Complete
  <2>4. PICK l \in 1..(n - 1) : JumpsTo(ast, code, w, n, l)
    BY <2>2, <2>3 DEF Entered
  <2>5. l = EnclosingLoop(ast, n) \/ StaleIn(ast, n)
    BY <2>4 DEF JumpsTo
  <2>6. l # 0
    BY <2>2
  <2>7. QED
    BY <2>5, <2>6 DEF Stale
<1>3. ASSUME status = "done", NEW n \in 1..Len(ast)
      PROVE  ast[n].kind \notin Untranslatable
  <2>1. PICK w : Complete(ast, code, w)
    BY <1>3, FinishedFlow
  <2>2. QED
    BY <2>1 DEF Complete, Entered
<1>4. QED
  BY <1>1, <1>2, <1>3 DEF AbortsOnlyForStrayJumps, Explained

(* A finished translation of a program without jumps to a stale block and   *)
(* without continue in a while loop does exactly what the source says: each *)
(* expression, call, condition, return, loop initialisation and increment is *)
(* followed by what C follows it with, and nothing else is in the code.     *)
THEOREM FlowPreserved == Spec => []FlowIsPreserved
<1>1. IInv /\ SInv => FlowIsPreserved
  BY FlowHolds
<1>2. Spec => []IInv /\ []SInv
  BY Invariant, CodeFollowsSource
<1>3. QED
  BY <1>1, <1>2, PTL

(* Of what it has code for, the translator stops only on a break or         *)
(* continue outside any loop, however the statements are nested; and what   *)
(* stops it is in no finished program, but for a jump outside any loop that *)
(* an earlier loop of the same context has left its targets to.            *)
THEOREM AbortsExplained == Spec => []AbortsOnlyForStrayJumps
<1>1. IInv /\ SInv => AbortsOnlyForStrayJumps
  BY AbortsHold
<1>2. Spec => []IInv /\ []SInv
  BY Invariant, CodeFollowsSource
<1>3. QED
  BY <1>1, <1>2, PTL
-----------------------------------------------------------------------------
(***************************************************************************)
(* The typechecker's answer on returns.  Its flags are the one solution of *)
(* their recursion.  In a function it accepts, the points that belong to   *)
(* statements which may be reached before a sure return are closed under   *)
(* the flow of the source, and the end of the function is not among them.  *)
(***************************************************************************)
(* what the visit of statement n makes of the flags of its parts *)
FlagOf(g, a, n) ==
  LET kind == a[n].kind
      flags(role) == {g[m] : m \in Children(a, n, role)}
  IN CASE kind \in {"return", "return0"} -> TRUE
       [] kind = "if" -> /\ Children(a, n, "else") # {}
                         /\ FALSE \notin flags("then") \cup flags("else")
       [] kind \in {"while", "for"} -> ReturnedInLoop(flags(kind))
       [] kind = "do" -> FALSE \notin flags("do")
       [] kind = "block" -> ReturnedInTurn(flags("block"))
       [] OTHER -> FALSE

(* It reads the flags of the parts only. *)
LEMMA FlagReads ==
  ASSUME NEW a, NEW n, NEW f, NEW g, \A role : \A m \in Children(a, n, role) : f[m] = g[m]
  PROVE  FlagOf(f, a, n) = FlagOf(g, a, n)
<1>1. \A role : {f[m] : m \in Children(a, n, role)} = {g[m] : m \in Children(a, n, role)}
  OBVIOUS
<1>2. QED
  BY <1>1 DEF FlagOf

(* The flags of all statements exist: those of the last nodes first. *)
LEMMA FlagsExist ==
  ASSUME NEW a \in Seq(NodeType), Tree(a)
  PROVE  \E g : g = [n \in 1..Len(a) |-> FlagOf(g, a, n)]
<1> DEFINE N == Len(a)
           Right(g, k) == /\ g = [n \in 1..N |-> g[n]]
                          /\ \A n \in 1..N : n > N - k => g[n] = FlagOf(g, a, n)
           S == {k \in Nat : k <= N => \E g : Right(g, k)}
<1>1. N \in Nat
  BY LenProperties
<1> HIDE DEF N
<1>2. 0 \in S
  <2> DEFINE g == [n \in 1..N |-> FALSE]
  <2>1. g = [n \in 1..N |-> g[n]]
    OBVIOUS
  <2>2. \A n \in 1..N : ~(n > N - 0)
    BY <1>1
  <2> HIDE DEF g
  <2>3. Right(g, 0)
    BY <2>1, <2>2
  <2>4. QED
    BY <2>3
<1>3. ASSUME NEW k \in S PROVE k + 1 \in S
  <2> SUFFICES ASSUME k + 1 <= N PROVE \E g : Right(g, k + 1)
    BY <1>1
  <2>1. k \in Nat /\ k <= N /\ N - k \in 1..N
    BY <1>1
  <2>2. PICK f : Right(f, k)
    BY <2>1
  <2> DEFINE d == N - k
             g == [n \in 1..N |-> IF n = d THEN FlagOf(f, a, d) ELSE f[n]]
  <2>3. /\ g = [n \in 1..N |-> g[n]] /\ g[d] = FlagOf(f, a, d)
        /\ \A n \in 1..N : n # d => g[n] = f[n]
    BY <2>1
  <2> HIDE DEF g
  <2>4. ASSUME NEW n \in 1..N, n > N - (k + 1) PROVE g[n] = FlagOf(g, a, n)
    <3>1. n >= d
      BY <1>1, <2>1, <2>4
    <3>2. \A role : \A m \in Children(a, n, role) : m \in 1..N /\ m # d
      <4>1. \A role : \A m \in Children(a, n, role) : m \in 1..N /\ m > n
        BY ChildrenOf DEF N
      <4>2. \A m \in 1..N : m > n => m # d
        BY <1>1, <2>1, <3>1
      <4> HIDE DEF d
      <4>3. QED
        BY <4>1, <4>2
    <3>3. FlagOf(g, a, n) = FlagOf(f, a, n)
      <4> HIDE DEF d
      <4>1. \A role : \A m \in Children(a, n, role) : g[m] = f[m]
        BY <2>3, <3>2
      <4>2. QED
        BY <4>1, FlagReads
    <3>4. CASE n = d
      BY <2>3, <3>3, <3>4
    <3>5. CASE n # d
      <4>1. n > N - k
        BY <1>1, <2>1, <3>1, <3>5
      <4>2. QED
        BY <2>2, <2>3, <3>3, <3>5, <4>1
    <3>6. QED
      BY <3>4, <3>5
  <2>5. Right(g, k + 1)
    BY <2>3, <2>4
  <2>6. QED
    BY <2>5
<1>4. S = Nat
  <2>1. S \in SUBSET Nat
    OBVIOUS
  <2> HIDE DEF S
  <2>2. QED
    BY <1>2, <1>3, <2>1, Induction
<1>5. PICK g : Right(g, N)
  BY <1>1, <1>4
<1>6. \A n \in 1..N : g[n] = FlagOf(g, a, n)
  BY <1>1, <1>5
<1>7. g = [n \in 1..N |-> FlagOf(g, a, n)]
  BY <1>5, <1>6
<1>8. QED
  BY <1>7 DEF N

(* So the flag of a statement is what its visit makes of those of its parts. *)
LEMMA ReturnedIs ==
  ASSUME NEW a \in Seq(NodeType), Tree(a)
  PROVE  \A n \in 1..Len(a) : Returned(a)[n] = FlagOf(Returned(a), a, n)
<1> DEFINE P(g) == g = [n \in 1..Len(a) |->
             LET kind == a[n].kind
                 flags(role) == {g[m] : m \in Children(a, n, role)}
             IN CASE kind \in {"return", "return0"} -> TRUE
                  [] kind = "if" -> /\ Children(a, n, "else") # {}
                                    /\ FALSE \notin flags("then") \cup flags("else")
                  [] kind \in {"while", "for"} -> ReturnedInLoop(flags(kind))
                  [] kind = "do" -> FALSE \notin flags("do")
                  [] kind = "block" -> ReturnedInTurn(flags("block"))
                  [] OTHER -> FALSE]
           r == CHOOSE g : P(g)
<1>1. \A g : P(g) <=> g = [n \in 1..Len(a) |-> FlagOf(g, a, n)]
  BY DEF FlagOf
<1>2. Returned(a) = r
  BY DEF Returned
<1> HIDE DEF P
<1>3. \E g : P(g)
  BY <1>1, FlagsExist
<1>4. P(r)
  BY <1>3
<1> HIDE DEF r
<1>5. r = [n \in 1..Len(a) |-> FlagOf(r, a, n)]
  BY <1>1, <1>4
<1>6. QED
  BY <1>2, <1>5

(* No statement before n in its block is sure to return. *)
Live(a, n) ==
  a[n].role = "block" => \A m \in Children(a, a[n].parent, "block") : m < n => ~Returned(a)[m]

(* n is in b, and neither it nor a statement around it is behind a sure return. *)
Alive(a, b, n) ==
  /\ n \in b..Len(a)
  /\ Inside(a, n, b)
  /\ \A m \in b..n : Inside(a, n, m) => Live(a, m)

(* Execution of b may come to the part op of n, if the flags are right. *)
Comes(a, b, n, op) ==
  /\ Alive(a, b, n)
  /\ op = "behind" \/ (op = "COND" /\ a[n].kind = "do") => ~Returned(a)[n]

Reach(a, b, q) == q = <<q[1], q[2]>> /\ Comes(a, b, q[1], q[2])

(* b is the body of function f. *)
IsBody(a, f, b) ==
  /\ a \in Seq(NodeType)
  /\ Tree(a)
  /\ f \in 1..Len(a)
  /\ a[f].kind = "fun"
  /\ b \in Children(a, f, "fun")

LEMMA BodyFacts ==
  ASSUME NEW a, NEW f, NEW b, IsBody(a, f, b)
  PROVE  /\ Len(a) \in Nat /\ b \in 1..Len(a) /\ f \in 1..Len(a) /\ f < b
         /\ a[b].parent = f /\ a[b].role = "fun" /\ a[f].parent = 0 /\ a[b].kind # "fun"
         /\ \A n \in 1..Len(a) : a[n].parent \in Nat /\ a[n].parent < n
<1>1. Len(a) \in Nat /\ \A n \in 1..Len(a) : a[n].parent \in 0..(n - 1)
  BY NodeFacts DEF IsBody, Tree
<1>2. b \in 1..Len(a) /\ a[b].parent = f /\ a[b].role = "fun" /\ f \in 1..Len(a)
  BY DEF IsBody, Children
<1>3. a[f].parent = 0 /\ a[b].kind # "fun"
  BY <1>2 DEF IsBody, Tree
<1>4. QED
  BY <1>1, <1>2, <1>3

(* The body itself is alive, ... *)
LEMMA BodyAlive ==
  ASSUME NEW a, NEW f, NEW b, IsBody(a, f, b)
  PROVE  Alive(a, b, b)
<1>1. Len(a) \in Nat /\ b \in 1..Len(a) /\ a[b].role = "fun"
  BY BodyFacts
<1>2. Inside(a, b, b)
  BY <1>1 DEF Inside
<1>3. \A m \in b..b : m = b
  BY <1>1
<1>4. QED
  BY <1>1, <1>2, <1>3 DEF Alive, Live

(* ... so are the statement around one that is, ... *)
LEMMA AliveUp ==
  ASSUME NEW a, NEW f, NEW b, IsBody(a, f, b), NEW n, Alive(a, b, n), n # b
  PROVE  Alive(a, b, a[n].parent) /\ a[n].role # "fun" /\ Live(a, n)
<1> DEFINE p == a[n].parent
<1>1. /\ Len(a) \in Nat /\ b \in 1..Len(a) /\ n \in b..Len(a) /\ n \in 1..Len(a) /\ Inside(a, n, b)
      /\ \A k \in 1..Len(a) : a[k].parent \in Nat /\ a[k].parent < k
  BY BodyFacts DEF Alive
<1>2. p \in b..Len(a) /\ p < n /\ p \in 1..Len(a) /\ p # 0
  BY <1>1 DEF Inside
<1>3. Inside(a, n, p) /\ a[n].role \in RoleOf(a[p].kind)
  BY <1>1, <1>2 DEF IsBody, Tree
<1> HIDE DEF p
<1>4. Inside(a, p, b)
  BY <1>1, <1>2 DEF Inside
<1>5. ASSUME NEW m \in b..p, Inside(a, p, m) PROVE Live(a, m)
  <2>1. m \in b..n /\ m \in 1..Len(a)
    BY <1>1, <1>2
  <2>2. Inside(a, n, m)
    BY <1>1, <1>2, <1>3, <1>5, <2>1, InsideTrans DEF IsBody
  <2>3. QED
    BY <2>1, <2>2 DEF Alive
<1>6. a[p].kind # "fun"
  <2>1. a[p].kind = "fun" => a[p].parent = 0
    BY <1>2 DEF IsBody, Tree
  <2>2. CASE p = b
    BY <2>2, BodyFacts
  <2>3. CASE p # b
    <3>1. a[p].parent >= b
      BY <1>1, <1>2, <1>4, <2>3 DEF Inside
    <3>2. QED
      BY <1>1, <2>1, <3>1
  <2>4. QED
    BY <2>2, <2>3
<1>7. a[n].role # "fun"
  BY <1>3, <1>6 DEF RoleOf
<1>8. Live(a, n)
  <2>1. Inside(a, n, n) /\ n \in b..n
    BY <1>1 DEF Inside
  <2>2. QED
    BY <2>1 DEF Alive
<1>9. QED
  BY <1>2, <1>4, <1>5, <1>7, <1>8 DEF Alive, p

(* ... a part of it that is not behind a sure return, ... *)
LEMMA AliveDown ==
  ASSUME NEW a, NEW f, NEW b, IsBody(a, f, b), NEW p, Alive(a, b, p), NEW m \in 1..Len(a), a[m].parent = p,
         Live(a, m)
  PROVE  Alive(a, b, m)
<1>1. /\ Len(a) \in Nat /\ b \in 1..Len(a) /\ p \in b..Len(a) /\ p \in 1..Len(a) /\ Inside(a, p, b)
      /\ \A k \in 1..Len(a) : a[k].parent \in Nat /\ a[k].parent < k
  BY BodyFacts DEF Alive
<1>2. m \in b..Len(a) /\ p < m
  BY <1>1
<1>3. Inside(a, m, p)
  BY <1>1, <1>2 DEF IsBody, Tree
<1>4. Inside(a, m, b)
  BY <1>1, <1>2, <1>3, InsideTrans DEF IsBody
<1>5. ASSUME NEW k \in b..m, Inside(a, m, k) PROVE Live(a, k)
  <2>1. CASE k = m
    BY <2>1
  <2>2. CASE k # m
    <3>1. m \in (k + 1)..m
      BY <1>1, <2>2
    <3>2. p >= k
      BY <1>5, <3>1 DEF Inside
    <3>3. k \in b..p /\ \A j \in (k + 1)..p : j \in (k + 1)..m
      BY <1>1, <1>2, <3>2
    <3>4. Inside(a, p, k)
      BY <1>1, <1>5, <3>2, <3>3 DEF Inside
    <3>5. QED
      BY <3>3, <3>4 DEF Alive
  <2>3. QED
    BY <2>1, <2>2
<1>6. QED
  BY <1>2, <1>4, <1>5 DEF Alive

(* ... and the loop a jump in it goes to. *)
LEMMA AliveLoop ==
  ASSUME NEW a, NEW f, NEW b, IsBody(a, f, b), NEW n, Alive(a, b, n), NEW l, l = EnclosingLoop(a, n), l # 0
  PROVE  Alive(a, b, l) /\ a[l].kind \in Loops
<1>1. /\ Len(a) \in Nat /\ b \in 1..Len(a) /\ n \in b..Len(a) /\ n \in 1..Len(a) /\ n \in Nat \ {0}
      /\ Inside(a, n, b) /\ f < b /\ f \in 1..Len(a) /\ a[b].parent = f /\ a[f].parent = 0
      /\ \A k \in 1..Len(a) : a[k].parent \in Nat /\ a[k].parent < k
  BY BodyFacts DEF Alive
<1>2. l \in 0..(n - 1) /\ a[l].kind \in Loops /\ Inside(a, n, l)
  BY <1>1, EnclosingLoopIs
<1>3. l \in 1..Len(a) /\ l < n
  BY <1>1, <1>2
<1>4. l >= b
  <2> SUFFICES ASSUME l < b PROVE FALSE
    BY <1>1, <1>3
  <2>1. f >= l
    BY <1>1, <1>2, <1>3 DEF Inside
  <2>2. CASE f > l
    BY <1>1, <1>2, <1>3, <2>2 DEF Inside
  <2>3. CASE f = l
    BY <1>2, <2>3 DEF IsBody, Loops
  <2>4. QED
    BY <1>1, <1>3, <2>1, <2>2, <2>3
<1>5. Inside(a, l, b) /\ l \in b..Len(a)
  BY <1>1, <1>3, <1>4 DEF Inside
<1>6. ASSUME NEW m \in b..l, Inside(a, l, m) PROVE Live(a, m)
  <2>1. m \in b..n /\ m \in 1..Len(a)
    BY <1>1, <1>3
  <2>2. Inside(a, n, m)
    BY <1>1, <1>2, <1>3, <1>6, <2>1, InsideTrans DEF IsBody
  <2>3. QED
    BY <2>1, <2>2 DEF Alive
<1>7. QED
  BY <1>2, <1>5, <1>6 DEF Alive

(* The flag of a statement, by its kind. *)
LEMMA Flags ==
  ASSUME NEW a \in Seq(NodeType), Tree(a), NEW n \in 1..Len(a)
  PROVE  LET r == Returned(a)
             kids(role) == Children(a, n, role)
         IN /\ r[n] \in BOOLEAN
            /\ a[n].kind \in {"expr", "declinit", "decl", "call", "break", "continue", "while", "for"} => ~r[n]
            /\ a[n].kind = "block" /\ r[n] => \E m \in kids("block") : r[m]
            /\ a[n].kind = "if" /\ r[n] => /\ kids("else") # {}
                                          /\ \A m \in kids("then") \cup kids("else") : r[m]
            /\ a[n].kind = "do" /\ r[n] => \A m \in kids("do") : r[m]
<1> DEFINE r == Returned(a)
           kids(role) == Children(a, n, role)
           flags(role) == {r[m] : m \in kids(role)}
<1>1. \A k \in 1..Len(a) : r[k] = FlagOf(r, a, k)
  BY ReturnedIs
<1>2. \A k \in 1..Len(a) : FlagOf(r, a, k) \in BOOLEAN
  <2> TAKE k \in 1..Len(a)
  <2>1. CASE a[k].kind \in {"return", "return0"}
    BY <2>1 DEF FlagOf
  <2>2. CASE a[k].kind = "if"
    BY <2>2 DEF FlagOf
  <2>3. CASE a[k].kind \in {"while", "for"}
    BY <2>3 DEF FlagOf, ReturnedInLoop
  <2>4. CASE a[k].kind = "do"
    BY <2>4 DEF FlagOf
  <2>5. CASE a[k].kind = "block"
    BY <2>5 DEF FlagOf, ReturnedInTurn
  <2>6. CASE a[k].kind \notin {"return", "return0", "if", "while", "for", "do", "block"}
    BY <2>6 DEF FlagOf
  <2>7. QED
    BY <2>1, <2>2, <2>3, <2>4, <2>5, <2>6
<1>3. \A role : \A m \in kids(role) : r[m] \in BOOLEAN
  <2>1. \A role : \A m \in kids(role) : m \in 1..Len(a)
    BY ChildrenOf
  <2>2. QED
    BY <1>1, <1>2, <2>1
<1> HIDE DEF r
<1>4. \A role : FALSE \notin flags(role) => \A m \in kids(role) : r[m]
  BY <1>3
<1>5. \A role : TRUE \in flags(role) => \E m \in kids(role) : r[m]
  OBVIOUS
<1>6. a[n].kind \in {"expr", "declinit", "decl", "call", "break", "continue", "while", "for"} => ~FlagOf(r, a, n)
  BY DEF FlagOf, ReturnedInLoop
<1>7. a[n].kind = "block" /\ FlagOf(r, a, n) => TRUE \in flags("block")
  BY DEF FlagOf, ReturnedInTurn
<1>8. a[n].kind = "if" /\ FlagOf(r, a, n) => /\ kids("else") # {}
                                           /\ FALSE \notin flags("then") /\ FALSE \notin flags("else")
  BY DEF FlagOf
<1>9. a[n].kind = "do" /\ FlagOf(r, a, n) => FALSE \notin flags("do")
  BY DEF FlagOf
<1>10. r[n] = FlagOf(r, a, n) /\ r[n] \in BOOLEAN
  BY <1>1, <1>2
<1> HIDE DEF flags, kids
<1>11. /\ r[n] \in BOOLEAN
       /\ a[n].kind \in {"expr", "declinit", "decl", "call", "break", "continue", "while", "for"} => ~r[n]
       /\ a[n].kind = "block" /\ r[n] => \E m \in kids("block") : r[m]
       /\ a[n].kind = "if" /\ r[n] => /\ kids("else") # {}
                                     /\ \A m \in kids("then") \cup kids("else") : r[m]
       /\ a[n].kind = "do" /\ r[n] => \A m \in kids("do") : r[m]
  BY <1>4, <1>5, <1>6, <1>7, <1>8, <1>9, <1>10
<1>12. QED
  BY <1>11 DEF kids, r

(* Every jump leaves a while or a for loop. *)
JumpsLeave(a) ==
  \A n \in 1..Len(a) : a[n].kind \in {"break", "continue"} =>
    EnclosingLoop(a, n) # 0 /\ a[EnclosingLoop(a, n)].kind \in {"while", "for"}

(* f is a function with body b, in a complete program, and is accepted. *)
Sure(a, c, w, f, b) == IsBody(a, f, b) /\ Complete(a, c, w) /\ JumpsLeave(a) /\ Returned(a)[b]

(* The parts of a live statement: those that are not in a block, and the    *)
(* first of a block.                                                       *)
LEMMA PartsAlive ==
  ASSUME NEW a, NEW f, NEW b, IsBody(a, f, b), NEW n, Alive(a, b, n), NEW role, Children(a, n, role) # {}
  PROVE  Reach(a, b, Before(Min(Children(a, n, role))))
<1> DEFINE S == Children(a, n, role)
           m == Min(S)
<1>1. a \in Seq(NodeType) /\ Len(a) \in Nat /\ Tree(a)
  BY BodyFacts DEF IsBody
<1>2. S \in SUBSET (0..Len(a)) /\ S \in SUBSET (1..Len(a))
  BY <1>1, ChildrenOf
<1>3. m \in S /\ \A k \in S : m <= k
  <2>1. S # {}
    OBVIOUS
  <2> HIDE DEF S
  <2>2. QED
    BY <1>1, <1>2, <2>1, MinOf
<1>4. m \in 1..Len(a) /\ a[m].parent = n /\ a[m].role = role
  BY <1>2, <1>3 DEF Children
<1>5. \A k \in S : ~(k < m)
  BY <1>1, <1>2, <1>3
<1> HIDE DEF m
<1>6. Live(a, m)
  BY <1>4, <1>5 DEF Live
<1>7. Alive(a, b, m)
  BY <1>4, <1>6, AliveDown
<1>8. Reach(a, b, Before(m))
  BY <1>7 DEF Reach, Comes, Before
<1>9. QED
  BY <1>8 DEF m

(* What the start of a live statement leads to is reached, ... *)
LEMMA StepInReached ==
  ASSUME NEW a, NEW c, NEW w, NEW f, NEW b, Sure(a, c, w, f, b), NEW n, Alive(a, b, n)
  PROVE  Reach(a, b, StepIn(a, n))
<1> DEFINE kind == a[n].kind
           l == EnclosingLoop(a, n)
<1>1. /\ IsBody(a, f, b) /\ a \in Seq(NodeType) /\ Tree(a) /\ n \in 1..Len(a) /\ a[n] \in NodeType
      /\ Entered(a, c, w, n) /\ Left(a, c, w, n)
  <2>1. IsBody(a, f, b) /\ a \in Seq(NodeType) /\ Tree(a) /\ b \in 1..Len(a) /\ Len(a) \in Nat
    BY BodyFacts DEF Sure, IsBody
  <2>2. n \in 1..Len(a)
    BY <2>1 DEF Alive
  <2>3. QED
    BY <2>1, <2>2, NodeFacts DEF Sure, Complete
<1>2. kind # "fun"
  <2>1. CASE n = b
    BY <1>1, <2>1, BodyFacts
  <2>2. CASE n # b
    <3>1. a[n].parent # 0
      <4>1. Alive(a, b, a[n].parent) /\ b \in 1..Len(a) /\ Len(a) \in Nat
        BY <1>1, <2>2, AliveUp, BodyFacts
      <4>2. QED
        BY <4>1 DEF Alive
    <3>2. QED
      BY <1>1, <3>1 DEF Tree
  <2>3. QED
    BY <2>1, <2>2
<1>3. /\ kind \notin Untranslatable
      /\ kind \in {"expr", "declinit", "decl", "call", "return", "break", "continue", "block",
                   "if", "while", "do", "for"}
  <2>1. kind \in Compound \cup Simple \cup {"fun"}
    BY <1>1 DEF NodeType
  <2>2. kind \notin Untranslatable
    BY <1>1 DEF Entered
  <2>3. QED
    BY <1>2, <2>1, <2>2 DEF Compound, Simple, Untranslatable
<1>4. CASE kind \in {"expr", "declinit", "return", "call", "if", "while", "for"}
  BY <1>4 DEF StepIn, Reach, Comes
<1>5. CASE kind = "decl"
  <2>1. ~Returned(a)[n]
    BY <1>1, <1>5, Flags
  <2>2. QED
    BY <1>5, <2>1 DEF StepIn, Reach, Comes, Behind
<1>6. CASE kind = "block"
  <2>1. CASE Children(a, n, "block") = {}
    <3>1. ~Returned(a)[n]
      BY <1>1, <1>6, <2>1, Flags
    <3>2. QED
      BY <1>6, <2>1, <3>1 DEF StepIn, Reach, Comes, Behind
  <2>2. CASE Children(a, n, "block") # {}
    <3>1. StepIn(a, n) = Before(Min(Children(a, n, "block")))
      BY <1>6, <2>2 DEF StepIn
    <3>2. QED
      BY <1>1, <2>2, <3>1, PartsAlive
  <2>3. QED
    BY <2>1, <2>2
<1>7. CASE kind = "do"
  <2>1. Children(a, n, "do") # {}
    BY <1>1, <1>7 DEF Left
  <2>2. StepIn(a, n) = Before(Min(Children(a, n, "do")))
    BY <1>7 DEF StepIn
  <2>3. QED
    BY <1>1, <2>1, <2>2, PartsAlive
<1>8. CASE kind \in {"break", "continue"}
  <2>1. l # 0 /\ a[l].kind \in {"while", "for"}
    BY <1>1, <1>8 DEF Sure, JumpsLeave
  <2>2. Alive(a, b, l)
    BY <1>1, <2>1, AliveLoop
  <2>3. l \in 1..Len(a)
    <3>1. b \in 1..Len(a) /\ Len(a) \in Nat
      BY <1>1, BodyFacts
    <3>2. QED
      BY <2>2, <3>1 DEF Alive
  <2>4. ~Returned(a)[l]
    BY <1>1, <2>1, <2>3, Flags
  <2>5. StepIn(a, n) = IF kind = "break" THEN Behind(l) ELSE Continuation(a, l)
    BY <1>8 DEF StepIn
  <2> HIDE DEF l
  <2>6. QED
    BY <2>1, <2>2, <2>4, <2>5 DEF Reach, Comes, Behind, Continuation
<1>9. QED
  BY <1>3, <1>4, <1>5, <1>6, <1>7, <1>8

(* ... and so is what comes after one that is not sure to return. *)
LEMMA StepOnReached ==
  ASSUME NEW a, NEW c, NEW w, NEW f, NEW b, Sure(a, c, w, f, b), NEW n, Alive(a, b, n), ~Returned(a)[n]
  PROVE  Reach(a, b, StepOn(a, n))
<1> DEFINE p == a[n].parent
           kids == Children(a, p, "block")
           later == {m \in kids : m > n}
<1>1. /\ IsBody(a, f, b) /\ a \in Seq(NodeType) /\ Tree(a) /\ Len(a) \in Nat /\ b \in 1..Len(a)
      /\ n \in 1..Len(a) /\ n # b
  <2>1. IsBody(a, f, b) /\ a \in Seq(NodeType) /\ Tree(a) /\ b \in 1..Len(a) /\ Len(a) \in Nat
    BY BodyFacts DEF Sure, IsBody
  <2>2. n \in 1..Len(a) /\ n # b
    BY <2>1 DEF Alive, Sure
  <2>3. QED
    BY <2>1, <2>2
<1>2. Alive(a, b, p) /\ a[n].role # "fun" /\ Live(a, n)
  BY <1>1, AliveUp
<1>3. p \in 1..Len(a) /\ a[n].role \in RoleOf(a[p].kind) /\ n \in Children(a, p, a[n].role)
  <2>1. p \in 1..Len(a)
    BY <1>1, <1>2 DEF Alive
  <2>2. p # 0
    BY <2>1
  <2>3. QED
    BY <1>1, <2>1, <2>2 DEF Tree, Children
<1>4. a[p].kind \in Compound \cup Simple \cup {"fun"}
  <2>1. a[p] \in NodeType
    BY <1>1, <1>3, NodeFacts
  <2>2. QED
    BY <2>1 DEF NodeType
<1>5. CASE a[n].role = "block"
  <2>1. a[p].kind = "block"
    BY <1>3, <1>5 DEF RoleOf
  <2>2. \A m \in kids : m \in 1..Len(a) /\ a[m].parent = p /\ a[m].role = "block"
    BY DEF Children
  <2>3. \A m \in kids : m < n => ~Returned(a)[m]
    BY <1>2, <1>5 DEF Live
  <2>4. \A m \in kids : m <= n => ~Returned(a)[m]
    BY <1>1, <2>2, <2>3
  <2>5. CASE later = {}
    <3>1. \A m \in kids : m <= n
      BY <1>1, <2>2, <2>5
    <3>2. ~Returned(a)[p]
      BY <1>1, <1>3, <2>1, <2>4, <3>1, Flags
    <3>3. StepOn(a, n) = Behind(p)
      BY <1>5, <2>5 DEF StepOn, LoopKinds
    <3> HIDE DEF p
    <3>4. QED
      BY <1>2, <3>2, <3>3 DEF Reach, Comes, Behind
  <2>6. CASE later # {}
    <3> DEFINE s == Min(later)
    <3>1. s \in later /\ \A m \in later : s <= m
      <4>1. later \in SUBSET (0..Len(a))
        BY <1>1, <2>2
      <4> HIDE DEF later
      <4>2. QED
        BY <1>1, <2>6, <4>1, MinOf
    <3>2. StepOn(a, n) = Before(s)
      BY <1>5, <2>6 DEF StepOn, LoopKinds
    <3>3. s \in kids /\ s > n
      BY <3>1
    <3>4. \A m \in kids : m < s => m <= n
      <4>1. \A m \in kids : m > n => s <= m
        BY <3>1
      <4>2. s \in Nat /\ n \in Nat /\ \A m \in kids : m \in Nat
        BY <1>1, <2>2, <3>3
      <4> HIDE DEF s, later, kids
      <4>3. QED
        BY <4>1, <4>2
    <3> HIDE DEF s, later
    <3>5. Live(a, s)
      BY <2>2, <2>4, <3>3, <3>4 DEF Live
    <3>6. Alive(a, b, s)
      BY <1>1, <1>2, <2>2, <3>3, <3>5, AliveDown
    <3>7. QED
      BY <3>2, <3>6 DEF Reach, Comes, Before
  <2>7. QED
    BY <2>5, <2>6
<1>6. CASE a[n].role \in {"then", "else"}
  <2>1. a[p].kind = "if"
    BY <1>3, <1>4, <1>6 DEF RoleOf, Compound, Simple
  <2>2. ~Returned(a)[p]
    BY <1>1, <1>3, <1>6, <2>1, Flags
  <2>3. StepOn(a, n) = Behind(p)
    BY <1>6 DEF StepOn, LoopKinds
  <2> HIDE DEF p
  <2>4. QED
    BY <1>2, <2>2, <2>3 DEF Reach, Comes, Behind
<1>7. CASE a[n].role \in Loops
  <2>1. a[p].kind = a[n].role
    BY <1>3, <1>7 DEF RoleOf, Loops
  <2>2. a[p].kind = "do" => ~Returned(a)[p]
    BY <1>1, <1>3, <2>1, Flags
  <2>3. StepOn(a, n) = Continuation(a, p)
    BY <1>7 DEF StepOn, LoopKinds, Loops
  <2> HIDE DEF p
  <2>4. QED
    BY <1>2, <2>2, <2>3 DEF Reach, Comes, Continuation
<1>8. a[n].role \in {"fun", "block", "then", "else", "while", "do", "for"} \cup {"program"}
  <2>1. a[n] \in NodeType
    BY <1>1, NodeFacts
  <2>2. QED
    BY <2>1 DEF NodeType, Roles
<1>9. a[n].role # "program"
  BY <1>3, <1>4 DEF RoleOf, Compound, Simple
<1>10. QED
  BY <1>2, <1>5, <1>6, <1>7, <1>8, <1>9 DEF Loops

(* Walks through the source stay in what is reached. *)
LEMMA WalkReached ==
  ASSUME NEW a, NEW c, NEW w, NEW f, NEW b, Sure(a, c, w, f, b), NEW q, Reach(a, b, q)
  PROVE  Reach(a, b, Walk(SourceStep(a), q))
<1> DEFINE step == SourceStep(a)
<1>1. a \in Seq(NodeType) /\ b \in 1..Len(a) /\ Len(a) \in Nat
  BY BodyFacts DEF Sure, IsBody
<1>2. ASSUME NEW x, Reach(a, b, x) PROVE Reach(a, b, Go(step, x))
  <2>1. CASE x \notin DOMAIN step
    BY <1>2, <2>1 DEF Go
  <2>2. CASE x \in DOMAIN step
    <3>1. PICK n \in 1..Len(a), op \in {"before", "behind"} : x = <<n, op>> /\ a[n].kind # "fun"
      BY <2>2 DEF SourceStep
    <3>2. Comes(a, b, n, op)
      BY <1>2, <3>1 DEF Reach
    <3>3. Go(step, x) = step[x]
      BY <2>2 DEF Go
    <3>4. Statement(a, n)
      BY <3>1 DEF Statement
    <3>5. CASE op = "before"
      <4>1. step[x] = StepIn(a, n)
        BY <1>1, <3>1, <3>4, <3>5, SourceSteps DEF Before
      <4>2. QED
        BY <3>2, <3>3, <4>1, StepInReached DEF Comes
    <3>6. CASE op = "behind"
      <4>1. step[x] = StepOn(a, n)
        BY <1>1, <3>1, <3>4, <3>6, SourceSteps DEF Behind
      <4>2. QED
        BY <3>2, <3>3, <3>6, <4>1, StepOnReached DEF Comes
    <3>7. QED
      BY <3>5, <3>6
  <2>3. QED
    BY <2>1, <2>2
<1>3. Cardinality(DOMAIN step) \in Nat
  BY <1>1, SourceSteps, FS_CardinalityType
<1> HIDE DEF step
<1> DEFINE S == {k \in Nat : Reach(a, b, Steps(step, q, k))}
<1>4. S = Nat
  <2>1. 0 \in S
    BY StepsUnfold
  <2>2. ASSUME NEW k \in S PROVE k + 1 \in S
    <3>1. k \in Nat /\ Reach(a, b, Steps(step, q, k))
      OBVIOUS
    <3>2. Steps(step, q, k + 1) = Go(step, Steps(step, q, k))
      BY <3>1, StepsUnfold
    <3>3. QED
      BY <1>2, <3>1, <3>2
  <2>3. S \in SUBSET Nat
    OBVIOUS
  <2> HIDE DEF S
  <2>4. QED
    BY <2>1, <2>2, <2>3, Induction
<1>5. Reach(a, b, Steps(step, q, Cardinality(DOMAIN step)))
  BY <1>3, <1>4
<1>6. QED
  BY <1>5 DEF Walk, step

(* What follows a point that is reached is reached. *)
LEMMA FlowReached ==
  ASSUME NEW a, NEW c, NEW w, NEW f, NEW b, Sure(a, c, w, f, b),
         NEW t \in SourceFlow(a), Reach(a, b, t[1])
  PROVE  Reach(a, b, t[3])
<1>1. PICK n \in 1..Len(a) : t \in FlowFrom(a, n)
  BY DEF SourceFlow
<1> DEFINE kind == a[n].kind
           else == Children(a, n, "else")
<1>2. /\ IsBody(a, f, b) /\ a \in Seq(NodeType) /\ Tree(a) /\ a[n] \in NodeType /\ Left(a, c, w, n)
      /\ kind \in Compound \cup Simple \cup {"fun"}
  <2>1. IsBody(a, f, b) /\ a \in Seq(NodeType) /\ Tree(a)
    BY DEF Sure, IsBody
  <2>2. a[n] \in NodeType
    BY <2>1, NodeFacts
  <2>3. kind \in Compound \cup Simple \cup {"fun"}
    BY <2>2 DEF NodeType
  <2>4. QED
    BY <2>1, <2>2, <2>3 DEF Sure, Complete
<1>3. /\ \A m : Reach(a, b, Before(m)) => Reach(a, b, First(a, m))
      /\ \A m : Reach(a, b, Behind(m)) => Reach(a, b, After(a, m))
  BY WalkReached DEF First, After
<1>4. ASSUME NEW op, t[1] = <<n, op>> PROVE Comes(a, b, n, op) /\ Alive(a, b, n)
  <2>1. t[1][1] = n /\ t[1][2] = op
    BY <1>4
  <2>2. QED
    BY <2>1 DEF Reach, Comes
<1>5. Alive(a, b, n) /\ ~Returned(a)[n] => Reach(a, b, Behind(n))
  BY DEF Reach, Comes, Behind
<1>6. CASE kind \in {"expr", "declinit", "call"}
  <2> DEFINE op == IF kind = "call" THEN "CALL" ELSE "EXPR"
  <2>1. FlowFrom(a, n) = {<< <<n, op>>, "", After(a, n)>>}
    BY <1>6 DEF FlowFrom
  <2>2. t[1] = <<n, op>> /\ t[3] = After(a, n)
    <3>1. t = << <<n, op>>, "", After(a, n)>>
      BY <1>1, <2>1
    <3>2. QED
      BY <3>1
  <2>3. ~Returned(a)[n]
    BY <1>2, <1>6, Flags
  <2>4. QED
    BY <1>3, <1>4, <1>5, <2>2, <2>3
<1>7. CASE kind = "return"
  <2>1. FlowFrom(a, n) = {<< <<n, "EXPR">>, "", <<n, "RETR">> >>}
    BY <1>7 DEF FlowFrom
  <2>2. t[1] = <<n, "EXPR">> /\ t[3] = <<n, "RETR">>
    <3>1. t = << <<n, "EXPR">>, "", <<n, "RETR">> >>
      BY <1>1, <2>1
    <3>2. QED
      BY <3>1
  <2>3. QED
    BY <1>4, <2>2 DEF Reach, Comes
<1>8. CASE kind = "if"
  <2>1. FlowFrom(a, n) =
          {<< <<n, "COND">>, "T", First(a, Min(Children(a, n, "then")))>>,
           << <<n, "COND">>, "F", IF else = {} THEN After(a, n) ELSE First(a, Min(else))>>}
    BY <1>8 DEF FlowFrom
  <2>2. /\ t[1] = <<n, "COND">>
        /\ \/ t[3] = First(a, Min(Children(a, n, "then")))
           \/ else = {} /\ t[3] = After(a, n)
           \/ else # {} /\ t[3] = First(a, Min(else))
    BY <1>1, <2>1
  <2>3. Alive(a, b, n)
    BY <1>4, <2>2
  <2>4. Children(a, n, "then") # {}
    BY <1>2, <1>8 DEF Left
  <2>5. else = {} => ~Returned(a)[n]
    BY <1>2, <1>8, Flags
  <2>6. QED
    BY <1>2, <1>3, <1>5, <2>2, <2>3, <2>4, <2>5, PartsAlive
<1>9. CASE kind \in {"while", "do", "for"}
  <2> DEFINE cond == <<n, "COND">>
  <2>1. \/ t[1] = cond /\ t[3] \in {Body(a, n), After(a, n)}
        \/ t[1] \in {<<n, "INIT">>, <<n, "INC">>} /\ t[3] = cond /\ kind = "for"
    <3>1. CASE kind \in {"while", "do"}
      <4>1. FlowFrom(a, n) = {<<cond, "T", Body(a, n)>>, <<cond, "F", After(a, n)>>}
        BY <3>1 DEF FlowFrom
      <4>2. QED
        BY <1>1, <4>1
    <3>2. CASE kind = "for"
      <4>1. FlowFrom(a, n) = {<<cond, "T", Body(a, n)>>, <<cond, "F", After(a, n)>>,
                              << <<n, "INIT">>, "", cond>>, << <<n, "INC">>, "", cond>>}
        BY <3>2 DEF FlowFrom
      <4>2. \/ t = <<cond, "T", Body(a, n)>> \/ t = <<cond, "F", After(a, n)>>
            \/ t = << <<n, "INIT">>, "", cond>> \/ t = << <<n, "INC">>, "", cond>>
        BY <1>1, <4>1
      <4>3. \A x, y, z : t = <<x, y, z>> => t[1] = x /\ t[3] = z
        OBVIOUS
      <4> DEFINE init == <<n, "INIT">>
                 inc == <<n, "INC">>
      <4>4. \/ t[1] = cond /\ t[3] = Body(a, n)
            \/ t[1] = cond /\ t[3] = After(a, n)
            \/ t[1] \in {init, inc} /\ t[3] = cond
        <5> HIDE DEF cond, init, inc
        <5>1. QED
          BY <4>2, <4>3 DEF init, inc
      <4>5. QED
        BY <3>2, <4>4
    <3>3. QED
      BY <1>9, <3>1, <3>2
  <2>2. Alive(a, b, n)
    BY <1>4, <2>1
  <2>3. Reach(a, b, Body(a, n))
    <3>1. Children(a, n, kind) # {}
      BY <1>2, <1>9 DEF Left
    <3>2. QED
      BY <1>2, <1>3, <2>2, <3>1, PartsAlive DEF Body
  <2>4. t[1] = cond => ~Returned(a)[n]
    <3>1. t[1] = cond => Comes(a, b, n, "COND")
      BY <1>4
    <3>2. QED
      BY <1>2, <1>9, <3>1, Flags DEF Comes
  <2>5. kind = "for" => Reach(a, b, cond)
    BY <2>2 DEF Reach, Comes
  <2>6. QED
    BY <1>3, <1>5, <2>1, <2>2, <2>3, <2>4, <2>5
<1>10. kind \in {"expr", "declinit", "call", "return", "if", "while", "do", "for"}
  <2>1. kind \in {"fun", "block", "decl", "break", "continue"} \cup Untranslatable => FlowFrom(a, n) = {}
    BY DEF FlowFrom, Untranslatable
  <2>2. QED
    BY <1>1, <1>2, <2>1 DEF Compound, Simple, Untranslatable
<1>11. QED
  BY <1>6, <1>7, <1>8, <1>9, <1>10

(* The flow of a program is finite. *)
LEMMA FlowIsFinite ==
  ASSUME NEW a \in Seq(NodeType)
  PROVE  IsFiniteSet(SourceFlow(a))
<1>1. ASSUME NEW u, NEW v, NEW x, NEW y PROVE IsFiniteSet({u, v, x, y})
  <2>1. IsFiniteSet({u}) /\ IsFiniteSet({v}) /\ IsFiniteSet({x}) /\ IsFiniteSet({y})
    BY FS_Singleton
  <2>2. IsFiniteSet({u} \cup {v}) /\ IsFiniteSet({x} \cup {y})
    BY <2>1, FS_Union
  <2>3. IsFiniteSet(({u} \cup {v}) \cup ({x} \cup {y}))
    BY <2>2, FS_Union
  <2>4. {u, v, x, y} = ({u} \cup {v}) \cup ({x} \cup {y})
    OBVIOUS
  <2>5. QED
    BY <2>3, <2>4
<1>2. ASSUME NEW n \in 1..Len(a) PROVE IsFiniteSet(FlowFrom(a, n))
  <2> DEFINE kind == a[n].kind
             cond == <<n, "COND">>
             else == Children(a, n, "else")
             plain == << <<n, IF kind = "call" THEN "CALL" ELSE "EXPR">>, "", After(a, n)>>
             ret == << <<n, "EXPR">>, "", <<n, "RETR">> >>
             yes == <<cond, "T", First(a, Min(Children(a, n, "then")))>>
             no == <<cond, "F", IF else = {} THEN After(a, n) ELSE First(a, Min(else))>>
             again == <<cond, "T", Body(a, n)>>
             done == <<cond, "F", After(a, n)>>
             init == << <<n, "INIT">>, "", cond>>
             inc == << <<n, "INC">>, "", cond>>
  <2>1. FlowFrom(a, n) \in {{plain}, {ret}, {yes, no}, {again, done}, {again, done, init, inc}, {}}
    <3>1. CASE kind \in {"expr", "declinit"}
      BY <3>1 DEF FlowFrom
    <3>2. CASE kind = "call"
      BY <3>2 DEF FlowFrom
    <3>3. CASE kind = "return"
      BY <3>3 DEF FlowFrom
    <3>4. CASE kind = "if"
      BY <3>4 DEF FlowFrom
    <3>5. CASE kind \in {"while", "do"}
      BY <3>5 DEF FlowFrom
    <3>6. CASE kind = "for"
      BY <3>6 DEF FlowFrom
    <3>7. CASE kind \notin {"expr", "declinit", "call", "return", "if", "while", "do", "for"}
      BY <3>7 DEF FlowFrom
    <3>8. QED
      BY <3>1, <3>2, <3>3, <3>4, <3>5, <3>6, <3>7
  <2> HIDE DEF plain, ret, yes, no, again, done, init, inc
  <2>2. \E u, v, x, y : FlowFrom(a, n) \subseteq {u, v, x, y}
    <3>1. {plain} \subseteq {plain, plain, plain, plain}
      OBVIOUS
    <3>2. {ret} \subseteq {ret, ret, ret, ret}
      OBVIOUS
    <3>3. {yes, no} \subseteq {yes, no, no, no}
      OBVIOUS
    <3>4. {again, done} \subseteq {again, done, init, inc}
      OBVIOUS
    <3>5. {} \subseteq {ret, ret, ret, ret} /\ {again, done, init, inc} \subseteq {again, done, init, inc}
      OBVIOUS
    <3>6. QED
      BY <2>1, <3>1, <3>2, <3>3, <3>4, <3>5
  <2>3. QED
    BY <1>1, <2>2, FS_Subset
<1> DEFINE Flows == {FlowFrom(a, n) : n \in 1..Len(a)}
           f == [n \in 1..Len(a) |-> FlowFrom(a, n)]
<1>3. IsFiniteSet(1..Len(a))
  <2>1. 1 \in Int /\ Len(a) \in Int
    BY LenProperties
  <2>2. QED
    BY <2>1, FS_Interval
<1>4. f \in Surjection(1..Len(a), Flows)
  BY DEF Surjection
<1>5. \A F \in Flows : IsFiniteSet(F)
  BY <1>2
<1>6. IsFiniteSet(Flows)
  <2> HIDE DEF f, Flows
  <2>1. QED
    BY <1>3, <1>4, FS_Surjection
<1>7. IsFiniteSet(UNION Flows)
  <2> HIDE DEF Flows
  <2>1. QED
    BY <1>5, <1>6, FS_UNION
<1>8. QED
  BY <1>7 DEF SourceFlow

(* the points reached in k steps and fewer, for k up to n *)
IsReached(flow, points, n, f) ==
  f = [k \in 0..n |-> IF k = 0 THEN points ELSE f[k - 1] \cup {t[3] : t \in {u \in flow : u[1] \in f[k - 1]}}]

LEMMA ReachedExists ==
  ASSUME NEW flow, NEW points, NEW n \in Nat
  PROVE  \E f : IsReached(flow, points, n, f)
<1> DEFINE Next1(S) == S \cup {t[3] : t \in {u \in flow : u[1] \in S}}
           Is(f, k) == f = [j \in 0..k |-> IF j = 0 THEN points ELSE Next1(f[j - 1])]
           S == {k \in Nat : \E f : Is(f, k)}
<1> HIDE DEF Next1
<1>1. 0 \in S
  <2> DEFINE f == [j \in 0..0 |-> points]
  <2>1. f = [j \in 0..0 |-> IF j = 0 THEN points ELSE Next1(f[j - 1])]
    OBVIOUS
  <2>2. QED
    BY <2>1
<1>2. ASSUME NEW k \in S PROVE k + 1 \in S
  <2>1. PICK f : Is(f, k)
    OBVIOUS
  <2> DEFINE g == [j \in 0..(k + 1) |-> IF j <= k THEN f[j] ELSE Next1(f[k])]
  <2>2. ASSUME NEW j \in 0..(k + 1)
        PROVE  g[j] = IF j = 0 THEN points ELSE Next1(g[j - 1])
    <3>1. k \in Nat
      OBVIOUS
    <3>2. CASE j = 0
      <4>1. g[j] = f[0]
        BY <3>1, <3>2
      <4>2. f[0] = points
        BY <2>1, <3>1
      <4>3. QED
        BY <3>2, <4>1, <4>2
    <3>3. CASE j \in 1..k
      <4>1. g[j] = f[j] /\ g[j - 1] = f[j - 1] /\ j # 0
        BY <3>1, <3>3
      <4>2. f[j] = IF j = 0 THEN points ELSE Next1(f[j - 1])
        BY <2>1, <3>1, <3>3
      <4>3. QED
        BY <4>1, <4>2
    <3>4. CASE j = k + 1
      <4>1. g[j] = Next1(f[k]) /\ g[j - 1] = f[k] /\ j # 0
        BY <3>1, <3>4
      <4>2. QED
        BY <4>1
    <3>5. QED
      BY <3>1, <3>2, <3>3, <3>4
  <2> HIDE DEF g
  <2>3. g = [j \in 0..(k + 1) |-> g[j]]
    BY DEF g
  <2>4. Is(g, k + 1)
    BY <2>2, <2>3
  <2>5. QED
    BY <2>4
<1>3. S = Nat
  <2>1. S \in SUBSET Nat
    OBVIOUS
  <2> HIDE DEF S
  <2>2. QED
    BY <1>1, <1>2, <2>1, Induction
<1>4. PICK f : Is(f, n)
  BY <1>3
<1>5. QED
  BY <1>4 DEF IsReached, Next1

(* The reachable part of a finite flow is what these points reach.         *)
LEMMA ReachedIs ==
  ASSUME NEW flow, IsFiniteSet(flow), NEW points
  PROVE  /\ Cardinality(flow) \in Nat
         /\ \E f : /\ IsReached(flow, points, Cardinality(flow), f)
                   /\ ReachableFlow(flow, points) = {t \in flow : t[1] \in f[Cardinality(flow)]}
<1> DEFINE P(f) == f = [k \in 0..Cardinality(flow) |->
                         IF k = 0 THEN points ELSE f[k - 1] \cup {t[3] : t \in {u \in flow : u[1] \in f[k - 1]}}]
           reached == CHOOSE f : P(f)
           N == Cardinality(flow)
<1>1. N \in Nat
  BY FS_CardinalityType
<1>2. ReachableFlow(flow, points) = {t \in flow : t[1] \in reached[N]}
  BY DEF ReachableFlow
<1>3. \A f : P(f) <=> IsReached(flow, points, N, f)
  BY DEF IsReached
<1> HIDE DEF P
<1>4. \E f : IsReached(flow, points, N, f)
  <2> HIDE DEF N
  <2>1. QED
    BY <1>1, ReachedExists
<1>5. IsReached(flow, points, N, reached)
  BY <1>3, <1>4
<1> HIDE DEF reached
<1>6. QED
  BY <1>1, <1>2, <1>5

(* One step reaches what the edges from the points lead to. *)
Onward(flow, T) == {t[3] : t \in {u \in flow : u[1] \in T}}

StepByStep(flow, points, n, f) ==
  /\ f[0] = points
  /\ \A k \in Nat : k + 1 <= n => f[k + 1] = f[k] \cup Onward(flow, f[k])

LEMMA ReachedSteps ==
  ASSUME NEW flow, NEW points, NEW n \in Nat, NEW f, IsReached(flow, points, n, f)
  PROVE  StepByStep(flow, points, n, f)
<1> DEFINE More(T) == T \cup {t[3] : t \in {u \in flow : u[1] \in T}}
<1>1. f = [k \in 0..n |-> IF k = 0 THEN points ELSE More(f[k - 1])]
  BY DEF IsReached
<1> HIDE DEF More
<1>2. f[0] = points
  <2>1. 0 \in 0..n
    OBVIOUS
  <2>2. QED
    BY <1>1, <2>1
<1>3. ASSUME NEW k \in Nat, k + 1 <= n PROVE f[k + 1] = More(f[k])
  <2>1. k + 1 \in 0..n /\ k + 1 # 0 /\ k + 1 - 1 = k
    BY <1>3
  <2>2. QED
    BY <1>1, <2>1
<1>4. QED
  BY <1>2, <1>3 DEF More, Onward, StepByStep

(* The edges of the flow from these points are in the part and stay there. *)
Keeps(flow, part, S) == \A t \in flow : t[1] \in S => t \in part /\ t[3] \in S

(* what two executions reach, the second in fewer edges, step by step *)
ReachAlike(f, g, m, n, S) == \A k \in Nat : k <= m => f[k] \subseteq S /\ (k <= n => f[k] = g[k])

(* Execution does not leave a set of points that the flow does not leave,  *)
(* whichever of its edges it has.                                          *)
LEMMA ReachedAgrees ==
  ASSUME NEW flow, NEW part \in SUBSET flow, NEW points, NEW S, points \subseteq S,
         Keeps(flow, part, S),
         NEW m \in Nat, NEW f, IsReached(flow, points, m, f),
         NEW n \in Nat, NEW g, IsReached(part, points, n, g)
  PROVE  ReachAlike(f, g, m, n, S)
<1> DEFINE K == {k \in Nat : k <= m => f[k] \subseteq S /\ (k <= n => f[k] = g[k])}
<1>0. StepByStep(flow, points, m, f) /\ StepByStep(part, points, n, g)
  BY ReachedSteps, Zenon
<1>1. 0 \in K
  BY <1>0 DEF StepByStep
<1>2. ASSUME NEW k \in K PROVE k + 1 \in K
  <2> SUFFICES ASSUME k + 1 <= m PROVE f[k + 1] \subseteq S /\ (k + 1 <= n => f[k + 1] = g[k + 1])
    OBVIOUS
  <2>1. k \in Nat /\ k <= m /\ f[k] \subseteq S /\ (k + 1 <= n => f[k] = g[k])
    OBVIOUS
  <2>2. f[k + 1] = f[k] \cup Onward(flow, f[k])
    BY <1>0, <2>1 DEF StepByStep
  <2>3. k + 1 <= n => g[k + 1] = g[k] \cup Onward(part, g[k])
    BY <1>0, <2>1 DEF StepByStep
  <2>4. \A T : T \subseteq S => Onward(flow, T) = Onward(part, T) /\ Onward(flow, T) \subseteq S
    BY DEF Onward, Keeps
  <2>5. QED
    BY <2>1, <2>2, <2>3, <2>4
<1>3. K = Nat
  <2>1. K \in SUBSET Nat
    OBVIOUS
  <2> HIDE DEF K
  <2>2. QED
    BY <1>1, <1>2, <2>1, Induction
<1>4. QED
  BY <1>3 DEF ReachAlike

(* With as many steps as it has edges, either nothing more is to be reached *)
(* or all edges are: each step before took a new edge.                     *)
LEMMA ReachedCloses ==
  ASSUME NEW flow, IsFiniteSet(flow), NEW points, NEW n \in Nat, n = Cardinality(flow),
         NEW f, IsReached(flow, points, n, f)
  PROVE  Onward(flow, f[n]) \subseteq f[n] \/ {t \in flow : t[1] \in f[n]} = flow
<1> DEFINE Taken(k) == {t \in flow : t[1] \in f[k]}
           Closed(k) == Onward(flow, f[k]) \subseteq f[k]
           K == {k \in Nat : k <= n => Closed(k) \/ Cardinality(Taken(k)) >= k}
<1>1. \A k \in Nat : IsFiniteSet(Taken(k)) /\ Cardinality(Taken(k)) \in Nat
  <2> TAKE k \in Nat
  <2>1. Taken(k) \in SUBSET flow
    OBVIOUS
  <2> HIDE DEF Taken
  <2>2. QED
    BY <2>1, FS_Subset, FS_CardinalityType
<1>2. 0 \in K
  <2>1. Cardinality(Taken(0)) >= 0
    <3> HIDE DEF Taken
    <3>1. QED
      BY <1>1
  <2>2. QED
    BY <2>1
<1>3. ASSUME NEW k \in K PROVE k + 1 \in K
  <2> SUFFICES ASSUME k + 1 <= n, ~Closed(k + 1) PROVE Cardinality(Taken(k + 1)) >= k + 1
    <3>1. k + 1 \in Nat
      OBVIOUS
    <3> HIDE DEF Closed, Taken
    <3>2. QED
      BY <3>1
  <2>1. k \in Nat /\ k <= n
    OBVIOUS
  <2>2. f[k + 1] = f[k] \cup Onward(flow, f[k])
    BY <2>1, ReachedSteps DEF StepByStep
  <2>3. ~Closed(k)
    <3>1. Closed(k) => f[k + 1] = f[k]
      BY <2>2
    <3>2. QED
      BY <3>1
  <2>4. Cardinality(Taken(k)) >= k
    BY <2>1, <2>3
  <2>5. Taken(k) \subseteq Taken(k + 1)
    BY <2>2
  <2>6. Taken(k) # Taken(k + 1)
    <3>1. Onward(flow, f[k + 1]) = {t[3] : t \in Taken(k + 1)} /\ Onward(flow, f[k]) = {t[3] : t \in Taken(k)}
      BY DEF Onward
    <3>2. QED
      BY <2>2, <3>1
  <2> HIDE DEF Taken
  <2>7. /\ Cardinality(Taken(k)) <= Cardinality(Taken(k + 1))
        /\ Cardinality(Taken(k)) # Cardinality(Taken(k + 1))
    BY <1>1, <2>1, <2>5, <2>6, FS_Subset
  <2>8. Cardinality(Taken(k)) \in Nat /\ Cardinality(Taken(k + 1)) \in Nat
    BY <1>1, <2>1
  <2>9. QED
    BY <2>1, <2>4, <2>7, <2>8
<1>4. K = Nat
  <2>1. K \in SUBSET Nat
    OBVIOUS
  <2> HIDE DEF K
  <2>2. QED
    BY <1>2, <1>3, <2>1, Induction
<1>5. Closed(n) \/ Cardinality(Taken(n)) >= n
  BY <1>4
<1>6. CASE Cardinality(Taken(n)) >= n
  <2>1. Taken(n) \in SUBSET flow
    OBVIOUS
  <2> HIDE DEF Taken
  <2>2. Cardinality(Taken(n)) <= n /\ (n = Cardinality(Taken(n)) => flow = Taken(n))
    BY <2>1, FS_Subset
  <2>3. Taken(n) = flow
    BY <1>1, <1>6, <2>2
  <2>4. QED
    BY <2>3 DEF Taken
<1>7. QED
  BY <1>5, <1>6

(* Execution does not leave a set of points that the flow does not leave. *)
LEMMA ReachableStays ==
  ASSUME NEW flow, IsFiniteSet(flow), NEW points, NEW S, points \subseteq S,
         \A t \in flow : t[1] \in S => t[3] \in S
  PROVE  \A t \in ReachableFlow(flow, points) : t \in flow /\ t[1] \in S
<1> DEFINE N == Cardinality(flow)
<1>1. N \in Nat
  BY ReachedIs
<1>2. PICK f : /\ IsReached(flow, points, N, f)
               /\ ReachableFlow(flow, points) = {t \in flow : t[1] \in f[N]}
  BY ReachedIs
<1> HIDE DEF N
<1>3. f[N] \subseteq S
  <2>1. flow \in SUBSET flow /\ Keeps(flow, flow, S)
    BY DEF Keeps
  <2>2. ReachAlike(f, f, N, N, S)
    BY <1>1, <1>2, <2>1, ReachedAgrees, Zenon
  <2>3. QED
    BY <1>1, <2>2 DEF ReachAlike
<1>4. QED
  BY <1>2, <1>3

(* Of a flow, execution needs only the part it can get to.                 *)
LEMMA ReachablePart ==
  ASSUME NEW flow, IsFiniteSet(flow), NEW part \in SUBSET flow, NEW points, NEW S, points \subseteq S,
         Keeps(flow, part, S)
  PROVE  ReachableFlow(part, points) = ReachableFlow(flow, points)
<1> DEFINE m == Cardinality(flow)
           n == Cardinality(part)
<1>1. IsFiniteSet(part) /\ n <= m
  BY FS_Subset
<1>2. m \in Nat /\ n \in Nat
  BY <1>1, ReachedIs
<1>3. PICK f : /\ IsReached(flow, points, m, f)
               /\ ReachableFlow(flow, points) = {t \in flow : t[1] \in f[m]}
  BY ReachedIs
<1>4. PICK g : /\ IsReached(part, points, n, g)
               /\ ReachableFlow(part, points) = {t \in part : t[1] \in g[n]}
  BY <1>1, ReachedIs
<1>5. Onward(part, g[n]) \subseteq g[n] \/ {t \in part : t[1] \in g[n]} = part
  <2>1. n \in Nat /\ n = Cardinality(part)
    BY <1>2
  <2> HIDE DEF n
  <2>2. QED
    BY <1>1, <1>4, <2>1, ReachedCloses
<1> HIDE DEF m, n
<1>6. f[m] \subseteq S /\ \A k \in Nat : k <= n => f[k] = g[k]
  <2>1. IsReached(flow, points, m, f) /\ IsReached(part, points, n, g)
    BY <1>3, <1>4
  <2>2. ReachAlike(f, g, m, n, S)
    BY <1>2, <2>1, ReachedAgrees, Zenon
  <2>3. QED
    BY <1>1, <1>2, <2>2 DEF ReachAlike
<1>7. \A k \in Nat : k <= m => points \subseteq f[k] /\ f[k] \subseteq f[m]
  <2> DEFINE K == {k \in Nat : k <= m => points \subseteq f[k]}
             D == {k \in Nat : k <= m => f[m - k] \subseteq f[m]}
  <2>1. \A k \in Nat : k + 1 <= m => f[k + 1] = f[k] \cup Onward(flow, f[k])
    BY <1>2, <1>3, ReachedSteps DEF StepByStep
  <2>2. K = Nat
    <3>1. 0 \in K
      <4>1. f[0] = points
        BY <1>2, <1>3, ReachedSteps DEF StepByStep
      <4>2. QED
        BY <4>1
    <3>2. \A k \in K : k + 1 \in K
      BY <1>2, <2>1
    <3>3. K \in SUBSET Nat
      OBVIOUS
    <3> HIDE DEF K
    <3>4. QED
      BY <3>1, <3>2, <3>3, Induction
  <2>3. D = Nat
    <3>1. 0 \in D
      BY <1>2
    <3>2. ASSUME NEW k \in D PROVE k + 1 \in D
      <4> SUFFICES ASSUME k + 1 <= m PROVE f[m - (k + 1)] \subseteq f[m]
        OBVIOUS
      <4>1. m - (k + 1) \in Nat /\ m - (k + 1) + 1 = m - k /\ m - (k + 1) + 1 <= m /\ k <= m
        BY <1>2
      <4>2. f[m - k] = f[m - (k + 1)] \cup Onward(flow, f[m - (k + 1)])
        BY <2>1, <4>1
      <4>3. f[m - k] \subseteq f[m]
        BY <4>1
      <4>4. QED
        BY <4>2, <4>3
    <3>3. D \in SUBSET Nat
      OBVIOUS
    <3> HIDE DEF D
    <3>4. QED
      BY <3>1, <3>2, <3>3, Induction
  <2>4. ASSUME NEW k \in Nat, k <= m PROVE points \subseteq f[k] /\ f[k] \subseteq f[m]
    <3>1. m - k \in Nat /\ m - k <= m /\ m - (m - k) = k
      BY <1>2, <2>4
    <3>2. m - k \in D /\ k \in K
      BY <2>2, <2>3, <3>1
    <3>3. QED
      BY <2>4, <3>1, <3>2
  <2>5. QED
    BY <2>4
<1>8. g[n] = f[n] /\ f[n] \subseteq f[m] /\ points \subseteq f[n]
  BY <1>1, <1>2, <1>6, <1>7
<1>9. ReachableFlow(part, points) \subseteq ReachableFlow(flow, points)
  BY <1>3, <1>4, <1>8
<1>10. ASSUME NEW t \in ReachableFlow(flow, points) PROVE t \in ReachableFlow(part, points)
  <2>1. t \in flow /\ t[1] \in f[m]
    BY <1>3
  <2>2. t \in part
    BY <1>6, <2>1 DEF Keeps
  <2>3. CASE {u \in part : u[1] \in g[n]} = part
    BY <1>4, <2>2, <2>3
  <2>4. CASE Onward(part, g[n]) \subseteq g[n]
    <3>1. \A u \in flow : u[1] \in g[n] => u[3] \in g[n]
      <4>1. g[n] \subseteq S
        BY <1>6, <1>8
      <4>2. QED
        BY <2>4, <4>1 DEF Onward, Keeps
    <3>2. t[1] \in g[n]
      BY <1>8, <3>1, ReachableStays
    <3>3. QED
      BY <1>4, <2>2, <3>2
  <2>5. QED
    BY <1>5, <2>3, <2>4
<1>11. QED
  BY <1>9, <1>10

(* An accepted function with clean jumps does not run into its end. *)
LEMMA AcceptedReturns ==
  ASSUME NEW a, NEW c, NEW w, NEW f, NEW b, Sure(a, c, w, f, b)
  PROVE  /\ First(a, b) # End
         /\ \A t \in ReachableFlow(SourceFlow(a), {First(a, b)}) : t[3] # End
<1>1. /\ IsBody(a, f, b) /\ a \in Seq(NodeType) /\ b \in 1..Len(a) /\ Len(a) \in Nat
  BY BodyFacts DEF Sure, IsBody
<1>2. \A q : Reach(a, b, q) => q # End
  BY <1>1 DEF Reach, Comes, Alive, End
<1>3. Reach(a, b, Before(b))
  BY <1>1, BodyAlive DEF Reach, Comes, Before
<1>4. Reach(a, b, First(a, b))
  BY <1>3, WalkReached DEF First
<1> DEFINE flow == SourceFlow(a)
           start == First(a, b)
           S == {q \in {start} \cup {t[1] : t \in flow} \cup {t[3] : t \in flow} : Reach(a, b, q)}
<1>5. \A t \in flow : Reach(a, b, t[1]) => Reach(a, b, t[3])
  BY FlowReached
<1>6. IsFiniteSet(flow)
  BY <1>1, FlowIsFinite
<1> HIDE DEF flow, start
<1>7. {start} \subseteq S
  BY <1>4 DEF start
<1>8. \A t \in flow : t[1] \in S => t[3] \in S
  BY <1>5
<1>9. \A t \in ReachableFlow(flow, {start}) : t \in flow /\ t[1] \in S
  <2> HIDE DEF S
  <2>1. QED
    BY <1>6, <1>7, <1>8, ReachableStays
<1>10. \A t \in ReachableFlow(flow, {start}) : t[3] # End
  BY <1>2, <1>5, <1>9
<1>11. QED
  BY <1>2, <1>4, <1>10 DEF flow, start

(* In a finished translation nothing an accepted function does runs into    *)
(* its end, if every break and continue is inside a while or for loop.     *)
LEMMA ReturnsHold == IInv /\ SInv => AcceptedFunctionsReturn
<1> SUFFICES ASSUME IInv, SInv, status = "done", JumpNodes = LoopJumps({"while", "for"}),
                    NEW f \in Functions, Accepted(f)
             PROVE  ~RunsOffTheEnd(f)
  BY DEF AcceptedFunctionsReturn
<1> DEFINE b == FunBody(f)
<1>1. PICK w : Complete(ast, code, w)
  BY FinishedFlow
<1>2. f \in 1..Len(ast) /\ ast[f].kind = "fun" /\ Len(ast) \in Nat
  BY <1>1, LenProperties DEF Functions, Complete
<1>3. Children(ast, f, "fun") # {}
  BY <1>1, <1>2 DEF Complete, Left
<1>4. Children(ast, f, "fun") \in SUBSET (0..Len(ast))
  <2>1. Children(ast, f, "fun") \in SUBSET (1..Len(ast))
    BY <1>1, ChildrenOf DEF Complete
  <2>2. QED
    BY <1>2, <2>1
<1>5. b \in Children(ast, f, "fun")
  BY <1>2, <1>3, <1>4, MinOf DEF FunBody
<1>6. IsBody(ast, f, b)
  BY <1>1, <1>2, <1>5 DEF IsBody, Complete
<1>7. JumpsLeave(ast)
  BY DEF JumpsLeave, LoopJumps, JumpNodes
<1>8. Sure(ast, code, w, f, b)
  BY <1>1, <1>6, <1>7 DEF Sure, Accepted
<1>9. /\ First(ast, b) # End
      /\ \A t \in ReachableFlow(SourceFlow(ast), {First(ast, b)}) : t[3] # End
  BY <1>8, AcceptedReturns
<1>10. QED
  BY <1>9 DEF RunsOffTheEnd

(* A function that has a value to return, and that the typechecker accepts, *)
(* returns on every path: execution of it never gets to the end of its     *)
(* body, where the translator puts a RET without a value.  The typechecker *)
(* keeps one flag per function and looks at no path; its answer is right    *)
(* whatever the statements are and however they are nested, as long as     *)
(* every break and continue leaves a while or a for loop.                  *)
THEOREM ReturnsAreSure == Spec => []AcceptedFunctionsReturn
<1>1. IInv /\ SInv => AcceptedFunctionsReturn
  BY ReturnsHold
<1>2. Spec => []IInv /\ []SInv
  BY Invariant, CodeFollowsSource
<1>3. QED
  BY <1>1, <1>2, PTL
-----------------------------------------------------------------------------
(***************************************************************************)
(* The passes composed.                                                    *)
(***************************************************************************)
(* what the optimizer may be given *)
Programs == {p \in Seq(Seq(Insn)) : WellFormed(p)}

(* ... and what the code generator *)
Compilable == {p \in [code : Seq(Seq(Insn)), bbs : Seq(Seq(Nat))] : CodeGen!IsProgram(p)}

(* The optimizer and the code generator, on the state of the compiler.     *)
Optimization == INSTANCE MiddleEnd_proofs WITH Inputs <- Programs
Generation   == INSTANCE T86CodeGen_proofs WITH Inputs <- Compilable

(* what the translator hands over *)
HandedOver(p, es) ==
  /\ p \in Programs
  /\ es \in Seq(1..Len(p))
  /\ \A f, g \in 1..Len(es) : f < g => es[f] < es[g]
  /\ \A b \in 1..Len(p) : \A t \in Successors(p[b]) : Together(es, b, t)
  /\ \A b \in 1..Len(p) : \A i \in 1..Len(p[b]) :
       p[b][i].op = "CALL" => p[b][i].target1 \in 1..Len(es)

(* what the optimizer keeps of it *)
StillCalls(c) ==
  \A b \in 1..Len(input) : \A i \in 1..Len(input[b]) :
    /\ input[b][i].op = "CALL" => c[b][i].target1 = input[b][i].target1
    /\ \A t \in Targets(c[b][i]) : Together(entries, b, t)

(* The inductive invariant: the one of the pass that runs, and what has    *)
(* been handed over to it.                                                 *)
PassInv ==
  /\ phase \in {"translate", "optimize", "generate"}
  /\ phase = "translate" => IInv
  /\ phase = "optimize" => HandedOver(input, entries) /\ Optimization!IInv /\ StillCalls(code)
  /\ phase = "generate" => Generation!IInv /\ Generation!Falling
-----------------------------------------------------------------------------
(***************************************************************************)
(* Each instance has its own copy of what its module and IL define.  They   *)
(* say the same.                                                           *)
(***************************************************************************)
LEMMA SameWordsOfOptimization ==
  /\ Optimization!Insn = Insn
  /\ \A i : Optimization!Targets(i) = Targets(i)
  /\ \A block : Optimization!IsJumpOnly(block) <=> IsJumpOnly(block)
  /\ \A p : Optimization!WellFormed(p) <=> WellFormed(p)
BY DEF
    Insn, Optimization!Insn, Ops, Optimization!Ops, Visible,
      Optimization!Visible, TerminatorOps, Optimization!TerminatorOps,
      IsTerminator, Optimization!IsTerminator, terminated,
      Optimization!terminated, Targets, Optimization!Targets, Successors,
      Optimization!Successors, OneTerminatorLast,
      Optimization!OneTerminatorLast, WellFormedBlock,
      Optimization!WellFormedBlock, WellFormed, Optimization!WellFormed,
      IsJumpOnly, Optimization!IsJumpOnly

(* The operators a pass declares are those of IL, whatever the values of   *)
(* its variables.                                                          *)
LEMMA SameWordsOfCodeGen ==
  /\ CodeGen!Insn = Insn
  /\ \A block, S : CodeGen!WellFormedBlock(block, S) <=> WellFormedBlock(block, S)
  /\ \A f : CodeGen!Range(f) = Range(f)
BY DEF CodeGen!Range, Range,
    Insn, CodeGen!Insn, Ops, CodeGen!Ops, Visible, CodeGen!Visible,
      TerminatorOps, CodeGen!TerminatorOps, IsTerminator,
      CodeGen!IsTerminator, terminated, CodeGen!terminated, Targets,
      CodeGen!Targets, Successors, CodeGen!Successors, OneTerminatorLast,
      CodeGen!OneTerminatorLast, WellFormedBlock, CodeGen!WellFormedBlock

LEMMA SameOptimization == Middle!Step <=> Optimization!Step
BY DEF
    Middle!Step, Optimization!Step, Middle!Identify, Optimization!Identify,
      Middle!Redirect, Optimization!Redirect, Middle!Erase,
      Optimization!Erase, Middle!IsJumpOnly, Optimization!IsJumpOnly,
      Middle!redirectInsn, Optimization!redirectInsn, Middle!redirect,
      Optimization!redirect, Middle!PointsToRedundant,
      Optimization!PointsToRedundant, Middle!Targets, Optimization!Targets,
      Middle!terminated, Optimization!terminated, Middle!Null,
      Optimization!Null

LEMMA SameGeneration ==
  /\ CodeGen!Step <=> Generation!Step
  /\ \A m : CodeGen!GlobalMain(m) = Generation!GlobalMain(m)
  /\ \A p : CodeGen!IsProgram(p) <=> Generation!IsProgram(p)
BY DEF
    CodeGen!Insn, Generation!Insn, CodeGen!Ops, Generation!Ops,
      CodeGen!Visible, Generation!Visible, CodeGen!TerminatorOps,
      Generation!TerminatorOps, CodeGen!IsTerminator, Generation!IsTerminator,
      CodeGen!terminated, Generation!terminated, CodeGen!Targets,
      Generation!Targets, CodeGen!Successors, Generation!Successors,
      CodeGen!OneTerminatorLast, Generation!OneTerminatorLast,
      CodeGen!WellFormedBlock, Generation!WellFormedBlock, CodeGen!Step,
      Generation!Step, CodeGen!EnterFunction, Generation!EnterFunction,
      CodeGen!EnterBlock, Generation!EnterBlock, CodeGen!LeaveFunction,
      Generation!LeaveFunction, CodeGen!VisitOrdinary,
      Generation!VisitOrdinary, CodeGen!VisitCALL, Generation!VisitCALL,
      CodeGen!VisitJMP, Generation!VisitJMP, CodeGen!VisitBR,
      Generation!VisitBR, CodeGen!VisitReturn, Generation!VisitReturn,
      CodeGen!Advance, Generation!Advance, CodeGen!Visit, Generation!Visit,
      CodeGen!insn, Generation!insn, CodeGen!start, Generation!start,
      CodeGen!addToWorklistBack, Generation!addToWorklistBack,
      CodeGen!addToWorklistFront, Generation!addToWorklistFront, CodeGen!Emit,
      Generation!Emit, CodeGen!NewBlock, Generation!NewBlock,
      CodeGen!BlockLabel, Generation!BlockLabel, CodeGen!FunLabel,
      Generation!FunLabel, CodeGen!FreshLabel, Generation!FreshLabel,
      CodeGen!T86, Generation!T86, CodeGen!NoLabel, Generation!NoLabel,
      CodeGen!GlobalMain, Generation!GlobalMain, CodeGen!Null,
      Generation!Null, CodeGen!Range, Generation!Range, CodeGen!IsProgram,
      Generation!IsProgram

LEMMA SameProperties ==
  /\ CodeGen!EachBlockOnce <=> Generation!EachBlockOnce
  /\ CodeGen!LabelsAreDefined <=> Generation!LabelsAreDefined
  /\ CodeGen!FallsThroughToNewBlocks <=> Generation!FallsThroughToNewBlocks
<1>1. /\ CodeGen!Block = Generation!Block
      /\ \A b : CodeGen!BlockLabel(b) = Generation!BlockLabel(b)
      /\ \A f : CodeGen!start(f) = Generation!start(f)
      /\ CodeGen!NoLabel = Generation!NoLabel
      /\ \A list : CodeGen!Range(list) = Generation!Range(list)
  BY DEF CodeGen!Block, Generation!Block, CodeGen!BlockLabel, Generation!BlockLabel,
         CodeGen!start, Generation!start, CodeGen!NoLabel, Generation!NoLabel,
         CodeGen!Range, Generation!Range
<1>2. CodeGen!Compiled = Generation!Compiled /\ CodeGen!Waiting = Generation!Waiting
  BY <1>1 DEF CodeGen!Compiled, Generation!Compiled, CodeGen!Waiting, Generation!Waiting
<1>3. CodeGen!EachBlockOnce <=> Generation!EachBlockOnce
  BY <1>2 DEF CodeGen!EachBlockOnce, Generation!EachBlockOnce, CodeGen!IsInjective,
              Generation!IsInjective
<1>4. /\ CodeGen!Done <=> Generation!Done
      /\ \A label : CodeGen!Defined(label) <=> Generation!Defined(label)
  BY DEF CodeGen!Done, Generation!Done, CodeGen!Null, Generation!Null,
         CodeGen!Defined, Generation!Defined
<1>5. CodeGen!LabelsAreDefined <=> Generation!LabelsAreDefined
  BY <1>1, <1>4 DEF CodeGen!LabelsAreDefined, Generation!LabelsAreDefined
<1>6. \A block : CodeGen!Successors(block) = Generation!Successors(block)
  BY DEF CodeGen!Successors, Generation!Successors, CodeGen!terminated, Generation!terminated,
         CodeGen!IsTerminator, Generation!IsTerminator, CodeGen!TerminatorOps,
         Generation!TerminatorOps, CodeGen!Targets, Generation!Targets
<1>7. \A k, t : CodeGen!BranchTo(k, t) <=> Generation!BranchTo(k, t)
  BY <1>1 DEF CodeGen!BranchTo, Generation!BranchTo
<1>8. \A k, t : t \in CodeGen!NamedBefore(k) <=> t \in Generation!NamedBefore(k)
  BY <1>1, <1>6 DEF CodeGen!NamedBefore, Generation!NamedBefore
<1>9. CodeGen!FallsThroughToNewBlocks <=> Generation!FallsThroughToNewBlocks
  BY <1>1, <1>7, <1>8 DEF CodeGen!FallsThroughToNewBlocks, Generation!FallsThroughToNewBlocks
<1>10. QED
  BY <1>3, <1>5, <1>9
-----------------------------------------------------------------------------
(* The passes are called as their own modules assume.                      *)
LEMMA OptimizationAssumed ==
  \A p \in Programs : p \in Seq(Seq(Optimization!Insn)) /\ Optimization!WellFormed(p)
BY SameWordsOfOptimization DEF Programs

(* The optimizer is handed what the translator has finished. *)
LEMMA TranslatedIsHandedOver ==
  ASSUME IInv, status = "done"
  PROVE  HandedOver(code, entries)
<1>1. /\ WellFormed(code)
      /\ Good(code, entries)
      /\ entries \in Seq(1..Len(code))
      /\ \A f, g \in 1..Len(entries) : f < g => entries[f] < entries[g]
  BY Finished
<1>2. code \in Programs
  BY <1>1 DEF Programs, Good
<1>3. \A b \in 1..Len(code) : \A t \in Successors(code[b]) : Together(entries, b, t)
  BY <1>1 DEF Good
<1>4. \A b \in 1..Len(code) : \A i \in 1..Len(code[b]) :
        code[b][i].op = "CALL" => code[b][i].target1 \in 1..Len(entries)
  BY <1>1 DEF Good, CallsNamed, Calls
<1>5. QED
  BY <1>1, <1>2, <1>3, <1>4 DEF HandedOver

(* Wherever an instruction of a well-formed program leads, a successor of   *)
(* its block is led to.                                                    *)
LEMMA TargetsAreSuccessors ==
  ASSUME NEW p \in Programs, NEW b \in 1..Len(p), NEW i \in 1..Len(p[b])
  PROVE  Targets(p[b][i]) \subseteq Successors(p[b])
<1>1. CASE IsTerminator(p[b][i])
  BY <1>1 DEF Programs, WellFormed, WellFormedBlock, OneTerminatorLast, Successors
<1>2. CASE ~IsTerminator(p[b][i])
  BY <1>2 DEF IsTerminator, TerminatorOps, Targets
<1>3. QED
  BY <1>1, <1>2

(* A pass starts in its initial state and makes its own steps.             *)
LEMMA StartOfOptimization == Optimization!Init => Optimization!IInv
BY OptimizationAssumed, Optimization!InitInv

LEMMA StepOfOptimization == Optimization!IInv /\ Optimization!Step => Optimization!IInv'
BY OptimizationAssumed, Optimization!IdentifyInv, Optimization!RedirectInv, Optimization!EraseInv
   DEF Optimization!Step

(* The invariant holds at the start and is kept by every pass and by       *)
(* handing over.                                                           *)
LEMMA CompilerInitInvariant == CompilerInit => PassInv
BY InitInvariant DEF CompilerInit, PassInv

LEMMA TranslateStep ==
  ASSUME PassInv, Translate
  PROVE  PassInv'
BY NextInvariant DEF PassInv, Translate, Next

LEMMA BeginOptimizeStep == PassInv /\ BeginOptimize => PassInv'
<1>1. PassInv /\ BeginOptimize => HandedOver(code, entries)
  BY TranslatedIsHandedOver DEF PassInv, BeginOptimize
<1>2. PassInv /\ BeginOptimize => Optimization!Init'
  <2> SUFFICES ASSUME PassInv, BeginOptimize PROVE Optimization!Init'
    OBVIOUS
  <2>1. code \in Programs
    BY <1>1 DEF HandedOver
  <2>2. QED
    BY <2>1 DEF BeginOptimize, Optimization!Init, Programs, Null, Optimization!Null
<1>3. Optimization!Init' => Optimization!IInv'
  BY StartOfOptimization, PTL
<1>4. PassInv /\ BeginOptimize => StillCalls(code)'
  <2> SUFFICES ASSUME PassInv, BeginOptimize PROVE StillCalls(code)'
    OBVIOUS
  <2>1. HandedOver(code, entries)
    BY <1>1
  <2>2. input' = code /\ code' = code /\ entries' = entries
    BY DEF BeginOptimize, toILVars
  <2>3. QED
    BY <2>1, <2>2, TargetsAreSuccessors DEF HandedOver, StillCalls
<1>5. QED
  BY <1>1, <1>2, <1>3, <1>4 DEF PassInv, BeginOptimize, HandedOver, toILVars

(* A round replaces a target by where the block it names only jumps.        *)
LEMMA RedirectionKeeps ==
  ASSUME HandedOver(input, entries), Optimization!IInv, StillCalls(code), Optimization!Redirect
  PROVE  StillCalls(code')
<1>1. /\ input \in Seq(Seq(Insn)) /\ WellFormed(input)
      /\ code \in Seq(Seq(Insn)) /\ Len(code) = Len(input)
  BY SameWordsOfOptimization DEF HandedOver, Programs, Optimization!IInv, Optimization!TypeOK
<1>2. /\ blocks = 1..Len(input)
      /\ redundantBlocks = [b \in {c \in 1..Len(input) : IsJumpOnly(input[c])} |-> input[b][1].target1]
  BY SameWordsOfOptimization
     DEF Optimization!IInv, Optimization!Collected, Optimization!Redirect, Optimization!JumpOnly,
         Optimization!Block
<1>3. ASSUME NEW b \in 1..Len(input), IsJumpOnly(input[b])
      PROVE  Together(entries, b, input[b][1].target1)
  <2>1. 1 \in 1..Len(input[b]) /\ input[b][1].target1 \in Targets(input[b][1])
    BY <1>3 DEF IsJumpOnly, Targets
  <2>2. QED
    BY <1>3, <2>1, TargetsAreSuccessors DEF HandedOver
<1>4. ASSUME NEW b \in 1..Len(input), NEW t \in Nat, Together(entries, b, t)
      PROVE  Together(entries, b, Optimization!redirect(t))
  <2>1. CASE t \in DOMAIN redundantBlocks
    <3>1. t \in 1..Len(input) /\ IsJumpOnly(input[t])
      BY <1>2, <2>1
    <3>2. Optimization!redirect(t) = input[t][1].target1
      BY <1>2, <2>1 DEF Optimization!redirect
    <3>3. Together(entries, t, input[t][1].target1)
      BY <1>3, <3>1
    <3>4. QED
      BY <1>4, <3>2, <3>3 DEF Together
  <2>2. CASE t \notin DOMAIN redundantBlocks
    BY <1>4, <2>2 DEF Optimization!redirect
  <2>3. QED
    BY <2>1, <2>2
<1>5. ASSUME NEW b \in 1..Len(input), NEW i \in 1..Len(input[b])
      PROVE  /\ input[b][i].op = "CALL" => code'[b][i].target1 = input[b][i].target1
             /\ \A t \in Targets(code'[b][i]) : Together(entries, b, t)
  <2>1. /\ Len(code[b]) = Len(input[b]) /\ code[b][i].op = input[b][i].op
        /\ code[b] \in Seq(Insn)
    BY <1>1 DEF Optimization!IInv, Optimization!SameShape, Optimization!Block
  <2>2. code'[b][i] = Optimization!redirectInsn(code[b][i])
    BY <1>1, <1>2, <2>1 DEF Optimization!Redirect
  <2>3. /\ input[b][i].op = "CALL" => code[b][i].target1 = input[b][i].target1
        /\ \A t \in Targets(code[b][i]) : Together(entries, b, t)
    BY DEF StillCalls
  <2>4. code[b][i] \in Insn
    BY <2>1
  <2>5. input[b][i].op = "CALL" => code'[b][i].target1 = input[b][i].target1
    BY <2>1, <2>2, <2>3 DEF Optimization!redirectInsn
  <2>6. CASE code[b][i].op = "JMP"
    <3>1. code[b][i].target1 \in Nat /\ Together(entries, b, code[b][i].target1)
      BY <2>3, <2>4, <2>6 DEF Insn, Targets
    <3>2. /\ code'[b][i].op = "JMP"
          /\ code'[b][i].target1 = Optimization!redirect(code[b][i].target1)
      BY <2>2, <2>4, <2>6 DEF Optimization!redirectInsn, Insn
    <3>3. Targets(code'[b][i]) = {Optimization!redirect(code[b][i].target1)}
      BY <3>2 DEF Targets
    <3>4. QED
      BY <1>4, <2>5, <3>1, <3>3
  <2>7. CASE code[b][i].op = "BR"
    <3>1. /\ code[b][i].target1 \in Nat /\ Together(entries, b, code[b][i].target1)
          /\ code[b][i].target2 \in Nat /\ Together(entries, b, code[b][i].target2)
      BY <2>3, <2>4, <2>7 DEF Insn, Targets
    <3>2. /\ code'[b][i].op = "BR"
          /\ code'[b][i].target1 = Optimization!redirect(code[b][i].target1)
          /\ code'[b][i].target2 = Optimization!redirect(code[b][i].target2)
      BY <2>2, <2>4, <2>7 DEF Optimization!redirectInsn, Insn
    <3>3. Targets(code'[b][i]) = {Optimization!redirect(code[b][i].target1),
                                  Optimization!redirect(code[b][i].target2)}
      BY <3>2 DEF Targets
    <3>4. QED
      BY <1>4, <2>5, <3>1, <3>3
  <2>8. CASE code[b][i].op \notin {"JMP", "BR"}
    BY <2>2, <2>3, <2>5, <2>8 DEF Optimization!redirectInsn, Targets
  <2>9. QED
    BY <2>6, <2>7, <2>8
<1>6. QED
  BY <1>5 DEF StillCalls

LEMMA OptimizeStep ==
  ASSUME PassInv, Optimize
  PROVE  PassInv'
<1>1. /\ HandedOver(input, entries) /\ Optimization!IInv /\ StillCalls(code)
      /\ Optimization!Step /\ phase = "optimize" /\ phase' = "optimize" /\ entries' = entries
  BY SameOptimization DEF PassInv, Optimize, toILVars
<1>2. Optimization!IInv'
  BY <1>1, StepOfOptimization
<1>3. input' = input
  BY <1>1 DEF Optimization!Step, Optimization!Identify, Optimization!Redirect, Optimization!Erase
<1>4. CASE Optimization!Redirect
  <2>1. StillCalls(code')
    BY <1>1, <1>4, RedirectionKeeps
  <2>2. StillCalls(code)'
    BY <1>1, <1>3, <2>1 DEF StillCalls
  <2>3. QED
    BY <1>1, <1>2, <1>3, <2>2 DEF PassInv, HandedOver
<1>5. CASE Optimization!Identify \/ Optimization!Erase
  <2>1. code' = code
    BY <1>5 DEF Optimization!Identify, Optimization!Erase
  <2>2. StillCalls(code)'
    BY <1>1, <1>3, <2>1 DEF StillCalls
  <2>3. QED
    BY <1>1, <1>2, <1>3, <2>2 DEF PassInv, HandedOver
<1>6. QED
  BY <1>1, <1>4, <1>5 DEF Optimization!Step
-----------------------------------------------------------------------------
(* Blocks in order of creation: each has its place, by the number of those *)
(* before it, and each place its block.                                    *)
Smaller(S, b) == {c \in S : c < b}
(* the place of an entry among the entries                                 *)
Place(S) == [b \in S |-> Cardinality(Smaller(S, b)) + 1]
Sorted(S) == [k \in 1..Cardinality(S) |-> CHOOSE b \in S : Cardinality(Smaller(S, b)) = k - 1]

(* Fewer members are before one of them than there are.                    *)
LEMMA FewerBefore ==
  ASSUME NEW S \in SUBSET Nat, IsFiniteSet(S), NEW b \in S
  PROVE  /\ IsFiniteSet(Smaller(S, b)) /\ Cardinality(Smaller(S, b)) \in Nat
         /\ Cardinality(S) \in Nat
         /\ Cardinality(Smaller(S, b)) < Cardinality(S)
<1>1. Smaller(S, b) \in SUBSET S /\ Smaller(S, b) # S
  BY DEF Smaller
<1>2. /\ IsFiniteSet(Smaller(S, b))
      /\ Cardinality(Smaller(S, b)) <= Cardinality(S)
      /\ Cardinality(Smaller(S, b)) # Cardinality(S)
  BY <1>1, FS_Subset
<1>3. Cardinality(Smaller(S, b)) \in Nat /\ Cardinality(S) \in Nat
  BY <1>2, FS_CardinalityType
<1>4. QED
  BY <1>2, <1>3

LEMMA LaterHasMoreBefore ==
  ASSUME NEW S \in SUBSET Nat, IsFiniteSet(S), NEW b \in S, NEW d \in S, b < d
  PROVE  Cardinality(Smaller(S, b)) < Cardinality(Smaller(S, d))
<1>1. /\ IsFiniteSet(Smaller(S, d)) /\ Cardinality(Smaller(S, d)) \in Nat
      /\ Cardinality(Smaller(S, b)) \in Nat
  BY FewerBefore
<1>2. Smaller(S, b) \in SUBSET Smaller(S, d) /\ Smaller(S, b) # Smaller(S, d)
  <2>1. \A c \in S : c < b => c < d
    OBVIOUS
  <2>2. b \in Smaller(S, d) /\ b \notin Smaller(S, b)
    BY DEF Smaller
  <2>3. QED
    BY <2>1, <2>2 DEF Smaller
<1>3. /\ Cardinality(Smaller(S, b)) <= Cardinality(Smaller(S, d))
      /\ Cardinality(Smaller(S, b)) # Cardinality(Smaller(S, d))
  BY <1>1, <1>2, FS_Subset
<1>4. QED
  BY <1>1, <1>3

LEMMA PlacesDiffer ==
  ASSUME NEW S \in SUBSET Nat, IsFiniteSet(S), NEW b \in S, NEW d \in S,
         Cardinality(Smaller(S, b)) = Cardinality(Smaller(S, d))
  PROVE  b = d
<1>1. Cardinality(Smaller(S, b)) \in Nat /\ Cardinality(Smaller(S, d)) \in Nat
  BY FewerBefore
<1>2. CASE b < d
  BY <1>1, <1>2, LaterHasMoreBefore
<1>3. CASE d < b
  BY <1>1, <1>3, LaterHasMoreBefore
<1>4. QED
  BY <1>2, <1>3

LEMMA AllPlacesTaken ==
  ASSUME NEW S \in SUBSET Nat, IsFiniteSet(S), NEW k \in 1..Cardinality(S)
  PROVE  \E b \in S : Cardinality(Smaller(S, b)) = k - 1
<1>1. Cardinality(S) \in Nat
  BY FS_CardinalityType
<1>2. ASSUME NEW b \in S
      PROVE  /\ Place(S)[b] = Cardinality(Smaller(S, b)) + 1
             /\ Place(S)[b] \in 1..Cardinality(S)
             /\ Cardinality(Smaller(S, b)) \in Nat
  BY <1>1, FewerBefore DEF Place
<1>3. ASSUME NEW b \in S, NEW d \in S, Place(S)[b] = Place(S)[d]
      PROVE  b = d
  <2>1. Cardinality(Smaller(S, b)) = Cardinality(Smaller(S, d))
    BY <1>2, <1>3
  <2>2. QED
    BY <2>1, PlacesDiffer
<1>4. Place(S) \in [S -> 1..Cardinality(S)]
  BY <1>2 DEF Place
<1>5. Place(S) \in Injection(S, 1..Cardinality(S))
  BY <1>3, <1>4 DEF Injection, IsInjective
<1>6. IsFiniteSet(1..Cardinality(S)) /\ Cardinality(1..Cardinality(S)) = Cardinality(S)
  BY <1>1, FS_Interval
<1>7. Place(S) \in Surjection(S, 1..Cardinality(S))
  BY <1>5, <1>6, FS_Injection
<1>8. PICK b \in S : Place(S)[b] = k
  BY <1>7 DEF Surjection
<1>9. QED
  BY <1>2, <1>8

LEMMA InOrder ==
  ASSUME NEW S \in SUBSET Nat, IsFiniteSet(S), NEW s, s = Sorted(S)
  PROVE  /\ s \in Seq(S)
         /\ Len(s) = Cardinality(S)
         /\ Range(s) = S
<1>1. PICK n \in Nat : n = Cardinality(S)
  BY FS_CardinalityType
<1>2. s = [k \in 1..n |-> CHOOSE b \in S : Cardinality(Smaller(S, b)) = k - 1]
  BY <1>1 DEF Sorted
<1>3. ASSUME NEW k \in 1..n
      PROVE  s[k] \in S /\ Cardinality(Smaller(S, s[k])) = k - 1
  <2>1. \E b \in S : Cardinality(Smaller(S, b)) = k - 1
    BY <1>1, AllPlacesTaken
  <2>2. s[k] = CHOOSE b \in S : Cardinality(Smaller(S, b)) = k - 1
    BY <1>2
  <2>3. QED
    BY <2>1, <2>2
<1>4. s \in [1..n -> S] /\ DOMAIN s = 1..n
  BY <1>2, <1>3
<1>5. ASSUME NEW b \in S
      PROVE  \E k \in 1..n : s[k] = b
  <2>1. PICK k \in 1..n : k = Cardinality(Smaller(S, b)) + 1
    BY <1>1, FewerBefore
  <2>2. s[k] \in S /\ Cardinality(Smaller(S, s[k])) = k - 1
    BY <1>3
  <2>3. Cardinality(Smaller(S, s[k])) = Cardinality(Smaller(S, b))
    BY <2>1, <2>2, FewerBefore
  <2>4. s[k] = b
    <3>1. s[k] \in S /\ Cardinality(Smaller(S, s[k])) = Cardinality(Smaller(S, b))
      BY <2>2, <2>3
    <3>2. \A x \in S : Cardinality(Smaller(S, x)) = Cardinality(Smaller(S, b)) => x = b
      BY PlacesDiffer
    <3>3. QED
      BY <3>1, <3>2
  <2>5. QED
    BY <2>4
<1>6. s \in Seq(S) /\ Len(s) = n
  <2>1. \A t \in [1..n -> S] : t \in Seq(S) /\ Len(t) = n
    OBVIOUS
  <2>2. QED
    BY <1>4, <2>1
<1>7. Range(s) = S
  BY <1>3, <1>4, <1>5 DEF Range
<1>8. QED
  BY <1>1, <1>6, <1>7
-----------------------------------------------------------------------------
(* When the optimizer returns. *)
LEMMA Optimized ==
  ASSUME HandedOver(input, entries), Optimization!IInv, StillCalls(code), pass = "done"
  PROVE  /\ code \in Seq(Seq(Insn))
         /\ \A b \in blocks : b \in 1..Len(code) /\ ~IsJumpOnly(input[b])
         /\ \A b \in 1..Len(code) : b \notin blocks => IsJumpOnly(input[b])
         /\ \A b \in 1..Len(code) :
              /\ WellFormedBlock(code[b], blocks)
              /\ \A i \in 1..Len(code[b]) : \A t \in Targets(code[b][i]) :
                   t \in blocks /\ Together(entries, b, t)
              /\ \A i \in 1..Len(code[b]) :
                   code[b][i].op = "CALL" => code[b][i].target1 \in 1..Len(entries)
<1>1. PICK n \in Nat : n = Len(input)
  BY DEF HandedOver, Programs
<1>2. /\ code \in Seq(Seq(Insn)) /\ Len(code) = n
      /\ input \in Seq(Seq(Insn)) /\ WellFormed(input)
      /\ Optimization!Block = 1..n
      /\ Optimization!JumpOnly = {b \in 1..n : IsJumpOnly(input[b])}
      /\ blocks = (1..n) \ Optimization!JumpOnly
  BY <1>1, SameWordsOfOptimization
     DEF HandedOver, Programs, Optimization!IInv, Optimization!TypeOK, Optimization!Collected,
         Optimization!Block, Optimization!JumpOnly
<1>3. ASSUME NEW b \in 1..n
      PROVE  /\ WellFormedBlock(code[b], blocks)
             /\ \A i \in 1..Len(code[b]) : \A t \in Targets(code[b][i]) :
                  t \in blocks /\ Together(entries, b, t)
             /\ \A i \in 1..Len(code[b]) :
                  code[b][i].op = "CALL" => code[b][i].target1 \in 1..Len(entries)
  <2>1. PICK m \in Nat : m = Len(input[b])
    BY <1>1, <1>2
  <2>2. /\ Len(code[b]) = m /\ code[b] \in Seq(Insn)
        /\ \A i \in 1..m : code[b][i].op = input[b][i].op
    <3>1. /\ Len(code[b]) = Len(input[b])
          /\ \A i \in 1..Len(input[b]) : code[b][i].op = input[b][i].op
      BY <1>2 DEF Optimization!IInv, Optimization!SameShape
    <3>2. QED
      BY <1>2, <2>1, <3>1
  <2>3. ASSUME NEW i \in 1..m, NEW t \in Targets(code[b][i])
        PROVE  t \in blocks /\ Together(entries, b, t)
    <3>1. Optimization!Targets(code[b][i]) \subseteq 1..n
      BY <1>2, <2>1 DEF Optimization!IInv, Optimization!SameShape
    <3>2. Optimization!Targets(code[b][i]) \cap Optimization!JumpOnly = {}
      BY <1>2, <2>2 DEF Optimization!IInv, Optimization!Settled
    <3>3. t \in Optimization!Targets(code[b][i])
      BY <2>3, SameWordsOfOptimization
    <3>4. Together(entries, b, t)
      BY <1>1, <2>1, <2>3 DEF StillCalls
    <3>5. QED
      BY <1>2, <3>1, <3>2, <3>3, <3>4
  <2>4. ASSUME NEW i \in 1..m, code[b][i].op = "CALL"
        PROVE  code[b][i].target1 \in 1..Len(entries)
    <3>1. input[b][i].op = "CALL"
      BY <2>2, <2>4
    <3>2. code[b][i].target1 = input[b][i].target1
      BY <1>1, <2>1, <3>1 DEF StillCalls
    <3>3. input[b][i].target1 \in 1..Len(entries)
      BY <1>1, <2>1, <3>1 DEF HandedOver
    <3>4. QED
      BY <3>2, <3>3
  <2>5. /\ m \in 1..m /\ IsTerminator(input[b][m])
        /\ \A i \in 1..m : IsTerminator(input[b][i]) => i = m
    BY <1>1, <1>2, <2>1 DEF WellFormed, WellFormedBlock, terminated, OneTerminatorLast
  <2>6. terminated(code[b])
    BY <2>2, <2>5 DEF terminated, IsTerminator
  <2>7. OneTerminatorLast(code[b])
    BY <2>2, <2>5 DEF OneTerminatorLast, IsTerminator
  <2>8. Successors(code[b]) \subseteq blocks
    BY <2>2, <2>3, <2>5, <2>6 DEF Successors
  <2>9. QED
    BY <2>2, <2>3, <2>4, <2>6, <2>7, <2>8 DEF WellFormedBlock
<1>4. QED
  BY <1>2, <1>3

(* Each function has a block left: if its entry only jumped, it jumped to   *)
(* a block of the function that does more.                                 *)
LEMMA BlocksLeft ==
  ASSUME HandedOver(input, entries), Optimization!IInv, StillCalls(code), pass = "done",
         NEW f \in 1..Len(entries)
  PROVE  /\ BlocksOf(f) \in SUBSET (1..Len(code)) /\ BlocksOf(f) # {}
         /\ \A b \in BlocksOf(f), t \in blocks : Together(entries, b, t) => t \in BlocksOf(f)
         /\ \A g \in 1..Len(entries) : f # g => BlocksOf(f) \cap BlocksOf(g) = {}
<1>1. PICK n \in Nat, m \in Nat : n = Len(code) /\ m = Len(entries)
  <2>1. code \in Seq(Seq(Insn)) /\ entries \in Seq(1..Len(input))
    BY Optimized DEF HandedOver
  <2>2. QED
    BY <2>1
<1>2. /\ Len(input) = n
      /\ \A g \in 1..m : entries[g] \in 1..n
      /\ \A g, h \in 1..m : g < h => entries[g] < entries[h]
  <2>1. Len(code) = Len(input) /\ entries \in Seq(1..Len(input))
    BY DEF HandedOver, Optimization!IInv, Optimization!TypeOK
  <2>2. \A g \in 1..m : entries[g] \in 1..n
    BY <1>1, <2>1
  <2>3. QED
    BY <1>1, <2>1, <2>2 DEF HandedOver
<1>3. blocks \subseteq 1..n
  BY <1>1, Optimized
<1>4. BlocksOf(f) \in SUBSET (1..Len(code))
  BY <1>1, <1>3 DEF BlocksOf
<1>5. ASSUME NEW b \in 1..n, NEW t \in blocks, Together(entries, b, t),
             entries[f] <= b, f < m => b < entries[f + 1]
      PROVE  t \in BlocksOf(f)
  <2>1. entries[f] <= t
    BY <1>1, <1>5 DEF Together
  <2>2. CASE f < m
    <3>1. f + 1 \in 1..m
      BY <1>1, <2>2
    <3>2. entries[f + 1] \in 1..n /\ ~ entries[f + 1] <= b
      BY <1>2, <1>5, <2>2, <3>1
    <3>3. ~ entries[f + 1] <= t
      BY <1>1, <1>5, <3>1, <3>2 DEF Together
    <3>4. t < entries[f + 1]
      BY <1>3, <3>2, <3>3
    <3>5. QED
      BY <1>1, <2>1, <3>4 DEF BlocksOf
  <2>3. CASE ~ f < m
    BY <1>1, <2>1, <2>3 DEF BlocksOf
  <2>4. QED
    BY <2>2, <2>3
<1>6. \A b \in BlocksOf(f), t \in blocks : Together(entries, b, t) => t \in BlocksOf(f)
  BY <1>1, <1>3, <1>5 DEF BlocksOf
<1>7. BlocksOf(f) # {}
  <2>1. PICK e \in 1..n : e = entries[f]
    BY <1>1, <1>2
  <2>2. e <= e /\ (f < m => e < entries[f + 1])
    BY <1>1, <1>2, <2>1
  <2>3. CASE e \in blocks
    BY <1>1, <2>1, <2>2, <2>3 DEF BlocksOf
  <2>4. CASE e \notin blocks
    <3>1. IsJumpOnly(input[e])
      BY <1>1, <2>4, Optimized
    <3>2. 1 \in 1..Len(input[e]) /\ input[e][1].op = "JMP"
      BY <3>1 DEF IsJumpOnly
    <3>3. 1 \in 1..Len(code[e]) /\ code[e][1].op = "JMP"
      BY <1>2, <3>2 DEF Optimization!IInv, Optimization!SameShape, Optimization!Block
    <3>4. code[e][1].target1 \in Targets(code[e][1])
      BY <3>3 DEF Targets
    <3>5. code[e][1].target1 \in blocks /\ Together(entries, e, code[e][1].target1)
      BY <1>1, <3>3, <3>4, Optimized
    <3>6. code[e][1].target1 \in BlocksOf(f)
      BY <1>5, <2>1, <2>2, <3>5
    <3>7. QED
      BY <3>6
  <2>5. QED
    BY <2>3, <2>4
<1>8. ASSUME NEW g \in 1..m, NEW h \in 1..m, g < h, NEW b \in BlocksOf(g)
      PROVE  b \notin BlocksOf(h)
  <2>1. g < m /\ g + 1 \in 1..m /\ (g + 1 < h \/ g + 1 = h)
    BY <1>8
  <2>2. b \in 1..n /\ b < entries[g + 1] /\ entries[g + 1] \in 1..n /\ entries[h] \in 1..n
    BY <1>1, <1>2, <1>3, <2>1 DEF BlocksOf
  <2>3. entries[g + 1] <= entries[h]
    BY <1>2, <2>1, <2>2
  <2>4. ~ entries[h] <= b
    BY <2>2, <2>3
  <2>5. QED
    BY <2>4 DEF BlocksOf
<1>9. ASSUME NEW g \in 1..m, f # g
      PROVE  BlocksOf(f) \cap BlocksOf(g) = {}
  <2>1. f < g \/ g < f
    BY <1>1, <1>9
  <2>2. QED
    BY <1>1, <1>8, <2>1
<1>10. QED
  BY <1>1, <1>4, <1>6, <1>7, <1>9

(* What the code generator is given. *)
LEMMA ProgramGiven ==
  ASSUME HandedOver(input, entries), Optimization!IInv, StillCalls(code), pass = "done",
         NEW q, q = [f \in 1..Len(entries) |-> bbsOf(f)]
  PROVE  CodeGen!IsProgram([code |-> code, bbs |-> q])
<1>1. PICK n \in Nat, m \in Nat : n = Len(code) /\ m = Len(entries)
  <2>1. code \in Seq(Seq(Insn)) /\ entries \in Seq(1..Len(input))
    BY Optimized DEF HandedOver
  <2>2. QED
    BY <2>1
<1>2. ASSUME NEW f \in 1..m
      PROVE  /\ q[f] \in Seq(1..n) /\ q[f] # <<>>
             /\ CodeGen!Range(q[f]) = BlocksOf(f)
  <2>1. BlocksOf(f) \in SUBSET (1..n) /\ BlocksOf(f) # {}
    BY <1>1, BlocksLeft
  <2>2. IsFiniteSet(1..n)
    BY FS_Interval
  <2>3. BlocksOf(f) \in SUBSET Nat /\ IsFiniteSet(BlocksOf(f))
    BY <2>1, <2>2, FS_Subset
  <2>4. q[f] = Sorted(BlocksOf(f))
    BY <1>1 DEF bbsOf, Sorted, Smaller
  <2>5. /\ q[f] \in Seq(BlocksOf(f))
        /\ Range(q[f]) = BlocksOf(f)
    BY <2>3, <2>4, InOrder
  <2>6. q[f] \in Seq(1..n)
    BY <2>1, <2>5
  <2>7. q[f] # <<>>
    BY <2>1, <2>5 DEF Range
  <2>8. QED
    BY <2>5, <2>6, <2>7, SameWordsOfCodeGen
<1>3. q \in Seq(Seq(1..n) \ {<<>>}) /\ Len(q) = m
  <2>1. q = [f \in 1..m |-> q[f]] /\ \A f \in 1..m : q[f] \in Seq(1..n) \ {<<>>}
    BY <1>1, <1>2
  <2>2. q \in [1..m -> Seq(1..n) \ {<<>>}]
    BY <2>1
  <2>3. \A s \in [1..m -> Seq(1..n) \ {<<>>}] : s \in Seq(Seq(1..n) \ {<<>>}) /\ Len(s) = m
    OBVIOUS
  <2>4. QED
    BY <2>2, <2>3
<1>4. ASSUME NEW f \in 1..m, NEW g \in 1..m, f # g
      PROVE  CodeGen!Range(q[f]) \cap CodeGen!Range(q[g]) = {}
  BY <1>1, <1>2, <1>4, BlocksLeft
<1>5. ASSUME NEW f \in 1..m, NEW b \in BlocksOf(f)
      PROVE  /\ WellFormedBlock(code[b], BlocksOf(f))
             /\ \A i \in 1..Len(code[b]) :
                  code[b][i].op = "CALL" => code[b][i].target1 \in 1..m
  <2>1. /\ b \in 1..n
        /\ \A t \in blocks : Together(entries, b, t) => t \in BlocksOf(f)
    BY <1>1, <1>5, BlocksLeft
  <2>2. /\ WellFormedBlock(code[b], blocks)
        /\ \A i \in 1..Len(code[b]) : \A t \in Targets(code[b][i]) :
             t \in blocks /\ Together(entries, b, t)
        /\ \A i \in 1..Len(code[b]) :
             code[b][i].op = "CALL" => code[b][i].target1 \in 1..m
        /\ code \in Seq(Seq(Insn))
    BY <1>1, <2>1, Optimized
  <2>3. terminated(code[b]) /\ Len(code[b]) \in 1..Len(code[b])
    <3>1. code[b] \in Seq(Insn) /\ terminated(code[b]) /\ code[b] # <<>>
      BY <1>1, <2>1, <2>2 DEF WellFormedBlock, terminated
    <3>2. QED
      BY <3>1
  <2>4. Successors(code[b]) \subseteq BlocksOf(f)
    BY <2>1, <2>2, <2>3 DEF Successors
  <2>5. QED
    BY <2>2, <2>4 DEF WellFormedBlock
<1>6. code \in Seq(Seq(CodeGen!Insn))
  BY SameWordsOfCodeGen, Optimized
<1>7. \A f \in 1..m : \A b \in CodeGen!Range(q[f]) :
        /\ CodeGen!WellFormedBlock(code[b], CodeGen!Range(q[f]))
        /\ \A i \in 1..Len(code[b]) : code[b][i].op = "CALL" => code[b][i].target1 \in 1..m
  BY <1>2, <1>5, SameWordsOfCodeGen
<1>8. ASSUME NEW p, p.code = code, p.bbs = q
      PROVE  CodeGen!IsProgram(p)
  BY <1>1, <1>3, <1>4, <1>6, <1>7, <1>8 DEF CodeGen!IsProgram
<1>9. QED
  BY <1>8

LEMMA StartOfGeneration == Generation!Init => Generation!IInv /\ Generation!Falling
<1>1. \A p \in Compilable : Generation!IsProgram(p)
  BY SameGeneration DEF Compilable
<1>2. QED
  BY <1>1, Generation!InitInv, Generation!InitFalling

LEMMA StepOfGeneration ==
  Generation!IInv /\ Generation!Falling /\ [Generation!Next]_(Generation!vars)
    => Generation!IInv' /\ Generation!Falling'
<1>1. \A p \in Compilable : Generation!IsProgram(p)
  BY SameGeneration DEF Compilable
<1>2. QED
  BY <1>1, Generation!NextInv, Generation!NextFalls

LEMMA BeginCodeGenStep == (\E m \in 1..Len(entries) : PassInv /\ BeginCodeGen(m)) => PassInv'
<1>1. ASSUME PassInv, NEW m \in 1..Len(entries), BeginCodeGen(m)
      PROVE  Generation!Init'
  <2> DEFINE p == [code |-> code, bbs |-> bbs']
  <2>1. /\ HandedOver(input, entries) /\ Optimization!IInv /\ StillCalls(code) /\ pass = "done"
        /\ code' = code /\ bbs' = [f \in 1..Len(entries) |-> bbsOf(f)]
    BY <1>1 DEF PassInv, BeginCodeGen
  <2>2. CodeGen!IsProgram(p)
    BY <2>1, ProgramGiven
  <2>3. p \in Compilable
    <3>1. /\ code \in Seq(Seq(Insn)) /\ bbs' \in Seq(Seq(1..Len(code)) \ {<<>>})
      BY <2>2, SameWordsOfCodeGen DEF CodeGen!IsProgram
    <3>2. \A f \in 1..Len(bbs') : bbs'[f] \in Seq(Nat)
      <4>1. \A q \in Seq(1..Len(code)) : q \in Seq(Nat)
        OBVIOUS
      <4>2. QED
        BY <3>1, <4>1
    <3>3. bbs' \in Seq(Seq(Nat))
      BY <3>1, <3>2
    <3>4. QED
      BY <2>2, <3>1, <3>3 DEF Compilable
  <2>4. m \in 1..Len(bbs')
    <3>1. entries \in Seq(1..Len(input))
      BY <2>1 DEF HandedOver
    <3>2. QED
      BY <2>1, <3>1
  <2>5. PICK q \in Compilable : q.code = code' /\ q.bbs = bbs'
    BY <2>1, <2>3
  <2>6. Generation!Start(q, m)'
    BY <1>1, <2>5, SameGeneration DEF BeginCodeGen, Generation!Start, Null, Generation!Null
  <2>7. QED
    BY <2>4, <2>5, <2>6 DEF Generation!Init
<1>2. Generation!Init' => Generation!IInv' /\ Generation!Falling'
  BY StartOfGeneration, PTL
<1>3. \A m : BeginCodeGen(m) => phase' = "generate"
  BY DEF BeginCodeGen
<1>4. QED
  BY <1>1, <1>2, <1>3 DEF PassInv

LEMMA GenerateStep ==
  ASSUME PassInv, Generate
  PROVE  PassInv'
BY SameGeneration, StepOfGeneration DEF PassInv, Generate, Generation!Next

LEMMA CompilerNextInvariant == PassInv /\ [CompilerNext]_compilerVars => PassInv'
<1> SUFFICES ASSUME PassInv, [CompilerNext]_compilerVars
             PROVE  PassInv'
  OBVIOUS
<1>1. CASE Translate \/ BeginOptimize \/ Optimize
  BY <1>1, TranslateStep, BeginOptimizeStep, OptimizeStep
<1>2. CASE Generate
  BY <1>2, GenerateStep
<1>3. ASSUME NEW m \in 1..Len(entries), BeginCodeGen(m)
      PROVE  PassInv'
  BY <1>3, BeginCodeGenStep
<1>4. CASE UNCHANGED compilerVars
  <2>1. /\ UNCHANGED <<phase, code, ast, entries, bb, contexts, visits, status>>
        /\ UNCHANGED <<input, blocks, redundantBlocks, changed, pass, bbs>>
    BY <1>4 DEF compilerVars, toILVars, middleVars, codeGenVars
  <2>2. phase = "translate" => IInv'
    <3>1. UNCHANGED vars
      BY <2>1 DEF vars
    <3>2. QED
      BY <3>1, NextInvariant DEF PassInv
  <2>3. phase = "optimize" => Optimization!IInv'
    <3>1. UNCHANGED Optimization!vars
      BY <2>1 DEF Optimization!vars
    <3>2. QED
      BY <3>1, OptimizationAssumed, Optimization!StutterInv DEF PassInv
  <2>4. phase = "generate" => Generation!IInv' /\ Generation!Falling'
    <3>1. UNCHANGED Generation!vars
      BY <1>4 DEF compilerVars, codeGenVars, Generation!vars
    <3>2. QED
      BY <3>1, StepOfGeneration DEF PassInv
  <2>5. QED
    BY <2>1, <2>2, <2>3, <2>4 DEF PassInv, HandedOver, StillCalls
<1>5. QED
  BY <1>1, <1>2, <1>3, <1>4 DEF CompilerNext, CompilerStep, CompilerStopped

(* In every state of the compiler the pass that runs satisfies its own     *)
(* invariant, and was given what it assumes.                               *)
THEOREM CompilerInvariant == CompilerSpec => []PassInv
BY CompilerInitInvariant, CompilerNextInvariant, PTL DEF CompilerSpec

(* Whatever the source program, each pass is given what it assumes: the     *)
(* translator's output is well-formed, and the optimizer leaves every       *)
(* function with a first block, only terminated blocks, jumps that stay     *)
(* inside their function, and calls of functions that exist.               *)
THEOREM PassesFit == CompilerSpec => []PassesGetWhatTheyAssume
<1>1. PassInv => PassesGetWhatTheyAssume
  BY SameGeneration
     DEF PassInv, HandedOver, Programs, PassesGetWhatTheyAssume, Generation!IInv, Generation!TypeOK
<1>2. QED
  BY <1>1, CompilerInvariant, PTL

(* What is proved of the code generator for any program that fits it holds  *)
(* in the compiler, from source to text: no block is compiled twice or      *)
(* lost, when the compiler is done every label an instruction names is in   *)
(* the text, and a true target not named before follows its branch.         *)
THEOREM CompiledTextIsWhole ==
  CompilerSpec => [](phase = "generate" =>
               CodeGen!EachBlockOnce /\ CodeGen!LabelsAreDefined /\ CodeGen!FallsThroughToNewBlocks)
<1>1. Generation!IInv => Generation!EachBlockOnce /\ Generation!LabelsAreDefined
  <2>1. \A p \in Compilable : Generation!IsProgram(p)
    BY SameGeneration DEF Compilable
  <2>2. QED
    BY <2>1, Generation!EachLabelDefined DEF Generation!IInv
<1>2. PassInv => (phase = "generate" =>
        CodeGen!EachBlockOnce /\ CodeGen!LabelsAreDefined /\ CodeGen!FallsThroughToNewBlocks)
  BY <1>1, SameProperties DEF PassInv, Generation!Falling
<1>3. QED
  BY <1>2, CompilerInvariant, PTL
-----------------------------------------------------------------------------
(***************************************************************************)
(* The optimizer keeps the flow.  A code that gets ahead of another on the  *)
(* way, jump by jump, reads the same everywhere.                           *)
(***************************************************************************)
(* d is c, but that a silent instruction of d goes on where c goes only     *)
(* after some more silent instructions.                                    *)
Ahead(c, d) ==
  /\ Positions(d) = Positions(c)
  /\ \A q \in Positions(c) : InsnAt(d, q).op = InsnAt(c, q).op /\ InsnAt(d, q).at = InsnAt(c, q).at
  /\ \A q \in Silent(c) : Leads(c, StepFrom(c, q), StepFrom(d, q))

(* What is read at a spot that has no step. *)
ReadThere(c, q) ==
  IF q \notin Positions(c) THEN Stuck
  ELSE IF InsnAt(c, q).op \in SilentOps THEN Spin
  ELSE <<InsnAt(c, q).at, InsnAt(c, q).op>>

LEMMA ReadIs ==
  ASSUME NEW c \in Seq(Seq(Insn)), NEW q \in Spot
  PROVE  /\ ReadAt(c, q) = ReadThere(c, Walk(CodeStep(c), q))
         /\ Walk(CodeStep(c), q) \in Silent(c) => ReadAt(c, q) = Spin
         /\ q \notin Silent(c) => ReadAt(c, q) = ReadThere(c, q)
<1>1. q = <<q[1], q[2]>>
  BY SpotFacts
<1>2. ReadAt(c, q) = ReadThere(c, Walk(CodeStep(c), q))
  BY <1>1 DEF ReadAt, PointAt, ReadThere
<1>3. \A x \in Silent(c) : ReadThere(c, x) = Spin
  BY DEF ReadThere, Silent
<1>4. q \notin Silent(c) => Walk(CodeStep(c), q) = q
  BY CodeSteps, WalkEnds
<1>5. QED
  BY <1>2, <1>3, <1>4

(* The steps of a code stay in a set that no silent instruction leaves.    *)
LEMMA StepsInside ==
  ASSUME NEW c \in Seq(Seq(Insn)), NEW S, \A x \in S \cap Silent(c) : StepFrom(c, x) \in S,
         NEW q \in S
  PROVE  \A n \in Nat : Steps(CodeStep(c), q, n) \in S
<1> DEFINE T == {n \in Nat : Steps(CodeStep(c), q, n) \in S}
<1>1. 0 \in T
  BY StepsUnfold
<1>2. ASSUME NEW n \in T PROVE n + 1 \in T
  <2> DEFINE x == Steps(CodeStep(c), q, n)
  <2>1. x \in S /\ Steps(CodeStep(c), q, n + 1) = Go(CodeStep(c), x)
    BY <1>2, StepsUnfold
  <2> HIDE DEF x
  <2>2. Go(CodeStep(c), x) \in S
    BY <2>1, CodeSteps DEF Go
  <2>3. QED
    BY <2>1, <2>2
<1>3. T = Nat
  <2>1. T \in SUBSET Nat
    OBVIOUS
  <2> HIDE DEF T
  <2>2. QED
    BY <1>1, <1>2, <2>1, Induction
<1>4. QED
  BY <1>3

(* Where a walk through c that ends has still n steps to go, d reads the    *)
(* same: its next step leaves fewer.                                       *)
LEMMA AheadOnTheWay ==
  ASSUME NEW c \in Seq(Seq(Insn)), NEW d \in Seq(Seq(Insn)), Ahead(c, d)
  PROVE  \A n \in Nat : \A q \in Spot :
           Steps(CodeStep(c), q, n) \notin Silent(c) => ReadAt(d, q) = ReadAt(c, q)
<1> DEFINE step == CodeStep(c)
           Within(n) == {q \in Spot : Steps(step, q, n) \notin Silent(c)}
           T == {n \in Nat : \A q \in Within(n) : ReadAt(d, q) = ReadAt(c, q)}
<1>1. Silent(d) = Silent(c) /\ \A q \in Spot : ReadThere(d, q) = ReadThere(c, q)
  BY DEF Ahead, Silent, ReadThere
<1>2. ASSUME NEW q \in Spot, q \notin Silent(c) PROVE ReadAt(d, q) = ReadAt(c, q)
  BY <1>1, <1>2, ReadIs
<1>3. DOMAIN step = Silent(c) /\ \A q \in Silent(c) : step[q] = StepFrom(c, q)
  BY CodeSteps
<1>4. 0 \in T
  BY <1>2, StepsUnfold
<1>5. ASSUME NEW n \in T PROVE n + 1 \in T
  <2>1. n \in Nat /\ \A q \in Within(n) : ReadAt(d, q) = ReadAt(c, q)
    OBVIOUS
  <2>2. ASSUME NEW q \in Within(n + 1), q \in Silent(c) PROVE ReadAt(d, q) = ReadAt(c, q)
    <3> DEFINE r == StepFrom(c, q)
               s == StepFrom(d, q)
    <3>1. q \in Spot /\ r \in Spot /\ s \in Spot
      BY <1>1, <2>2, SilentSteps
    <3>2. Go(step, q) = r /\ Steps(step, r, n) = Steps(step, q, n + 1)
      BY <1>3, <2>1, <2>2, StepsShift DEF Go
    <3>3. r \in Within(n)
      BY <2>2, <3>1, <3>2
    <3>4. ASSUME NEW x \in Within(n) \cap Silent(c) PROVE StepFrom(c, x) \in Within(n)
      <4>1. Go(step, x) = StepFrom(c, x) /\ StepFrom(c, x) \in Spot
        BY <1>3, <3>4, SilentSteps DEF Go
      <4>2. Steps(step, StepFrom(c, x), n) = Steps(step, x, n + 1)
        BY <2>1, <4>1, StepsShift
      <4>3. Steps(step, x, n + 1) = Steps(step, x, n)
        <5>1. Steps(step, x, n) \notin DOMAIN step
          BY <1>3, <3>4
        <5>2. QED
          BY <2>1, <5>1, StepsStay
      <4>4. QED
        BY <3>4, <4>1, <4>2, <4>3
    <3>5. Leads(c, r, s)
      BY <2>2 DEF Ahead
    <3>6. s \in Within(n)
      <4>1. Within(n) \in SUBSET (Nat \X Nat)
        BY DEF Spot
      <4> HIDE DEF r, s, Within
      <4>2. QED
        BY <3>3, <3>4, <3>5, <4>1 DEF Leads
    <3>7. ReadAt(d, s) = ReadAt(c, s)
      BY <2>1, <3>6
    <3>8. ReadAt(c, q) = ReadAt(c, r) /\ ReadAt(d, q) = ReadAt(d, s)
      BY <1>1, <2>2, ReadOn
    <3>9. ReadAt(c, r) = ReadAt(c, s)
      BY <3>1, <3>5, LeadsRead
    <3>10. QED
      BY <3>7, <3>8, <3>9
  <2>3. \A q \in Within(n + 1) : ReadAt(d, q) = ReadAt(c, q)
    BY <1>2, <2>2
  <2>4. QED
    BY <2>1, <2>3
<1>6. T = Nat
  <2>1. T \in SUBSET Nat
    OBVIOUS
  <2> HIDE DEF T
  <2>2. QED
    BY <1>4, <1>5, <2>1, Induction
<1>7. QED
  BY <1>6

(* ... and where the walk through c never ends, that through d does not     *)
(* either.                                                                 *)
LEMMA AheadReads ==
  ASSUME NEW c \in Seq(Seq(Insn)), NEW d \in Seq(Seq(Insn)), Ahead(c, d), NEW q \in Spot
  PROVE  ReadAt(d, q) = ReadAt(c, q)
<1> DEFINE x == Walk(CodeStep(c), q)
           y == Walk(CodeStep(d), q)
           S == {s \in Spot : ReadAt(c, s) = ReadAt(c, q)}
<1>1. Silent(d) = Silent(c) /\ \A s \in Spot : ReadThere(d, s) = ReadThere(c, s)
  BY DEF Ahead, Silent, ReadThere
<1>2. IsFiniteSet(Silent(c)) /\ DOMAIN CodeStep(c) = Silent(c) /\ DOMAIN CodeStep(d) = Silent(c)
  BY <1>1, CodeSteps
<1>3. Cardinality(Silent(c)) \in Nat
  BY <1>2, FS_CardinalityType
<1>4. CASE x \notin Silent(c)
  BY <1>2, <1>3, <1>4, AheadOnTheWay DEF Walk
<1>5. CASE y \notin Silent(c)
  <2>1. ASSUME NEW s \in S \cap Silent(d) PROVE StepFrom(d, s) \in S
    <3>1. s \in Silent(c) /\ StepFrom(c, s) \in Spot /\ StepFrom(d, s) \in Spot
      BY <1>1, <2>1, SilentSteps
    <3>2. ReadAt(c, s) = ReadAt(c, StepFrom(c, s))
      BY <3>1, ReadOn
    <3>3. ReadAt(c, StepFrom(c, s)) = ReadAt(c, StepFrom(d, s))
      BY <3>1, LeadsRead DEF Ahead
    <3>4. QED
      BY <2>1, <3>1, <3>2, <3>3
  <2>2. q \in S
    OBVIOUS
  <2>3. y \in S
    <3> HIDE DEF S
    <3>1. \A n \in Nat : Steps(CodeStep(d), q, n) \in S
      BY <2>1, <2>2, StepsInside
    <3>2. QED
      BY <1>2, <1>3, <3>1 DEF Walk
  <2>4. y \in Spot /\ ReadAt(c, y) = ReadAt(c, q)
    BY <2>3
  <2> HIDE DEF y
  <2>5. ReadAt(c, y) = ReadThere(c, y)
    BY <1>5, <2>4, ReadIs
  <2>6. ReadAt(d, q) = ReadThere(d, y)
    BY ReadIs DEF y
  <2>7. QED
    BY <1>1, <2>4, <2>5, <2>6
<1>6. CASE x \in Silent(c) /\ y \in Silent(c)
  BY <1>1, <1>6, ReadIs
<1>7. QED
  BY <1>4, <1>5, <1>6

(* Each branch of d goes on where that of c goes, or further on the way.    *)
BranchesAhead(c, d) ==
  \A q \in Positions(c) : InsnAt(c, q).op = "BR" =>
    /\ Leads(c, Start(InsnAt(c, q).target1), Start(InsnAt(d, q).target1))
    /\ Leads(c, Start(InsnAt(c, q).target2), Start(InsnAt(d, q).target2))

(* A condition is tested right behind it.                                  *)
Tested(c) ==
  \A q \in Positions(c) : InsnAt(c, q).op = "COND" =>
    Succ(q) \in Positions(c) /\ InsnAt(c, Succ(q)).op = "BR"

LEMMA InsnTypes ==
  ASSUME NEW c \in Seq(Seq(Insn)), NEW q \in Positions(c)
  PROVE  InsnAt(c, q) \in Insn
<1>1. PICK b \in 1..Len(c) : \E k \in 1..Len(c[b]) : q = <<b, k>>
  BY PositionIn
<1>2. PICK k \in 1..Len(c[b]) : q = <<b, k>>
  BY <1>1
<1>3. c[b] \in Seq(Insn)
  BY ElementOfSeq
<1>4. c[b][k] \in Insn
  BY <1>2, <1>3, ElementOfSeq
<1>5. QED
  BY <1>2, <1>4 DEF InsnAt

LEMMA AheadFlows ==
  ASSUME NEW c \in Seq(Seq(Insn)), NEW d \in Seq(Seq(Insn)), Ahead(c, d), BranchesAhead(c, d),
         Tested(c)
  PROVE  CodeFlow(d) = CodeFlow(c)
<1>1. \A q \in Spot : ReadAt(d, q) = ReadAt(c, q)
  BY AheadReads
<1>2. ASSUME NEW q \in Positions(c) PROVE CodeFlowAt(d, q[1], q[2]) = CodeFlowAt(c, q[1], q[2])
  <2> DEFINE b == q[1]
             i == q[2]
             r == Succ(q)
  <2>1. q \in Spot /\ q = <<b, i>>
    BY PositionsFinite
  <2>2. b \in Nat /\ i \in Nat /\ r \in Spot /\ r = <<b, i + 1>>
    BY <2>1, SpotFacts DEF Spot, Succ
  <2>3. /\ InsnAt(c, q) = c[b][i] /\ InsnAt(d, q) = d[b][i]
        /\ InsnAt(c, r) = c[b][i + 1] /\ InsnAt(d, r) = d[b][i + 1]
    BY <2>2 DEF InsnAt
  <2>4. d[b][i].op = c[b][i].op /\ d[b][i].at = c[b][i].at
    BY <2>3 DEF Ahead
  <2>5. PointAt(d, b, i + 1) = PointAt(c, b, i + 1)
    <3>1. ReadAt(d, r) = PointAt(d, b, i + 1) /\ ReadAt(c, r) = PointAt(c, b, i + 1)
      BY <2>2 DEF ReadAt
    <3>2. QED
      BY <1>1, <2>2, <3>1
  <2>6. CASE c[b][i].op = "COND"
    <3>1. r \in Positions(c) /\ c[b][i + 1].op = "BR"
      BY <2>3, <2>6 DEF Tested
    <3>2. /\ Leads(c, Start(c[b][i + 1].target1), Start(d[b][i + 1].target1))
          /\ Leads(c, Start(c[b][i + 1].target2), Start(d[b][i + 1].target2))
      BY <2>3, <3>1 DEF BranchesAhead
    <3>3. /\ c[b][i + 1].target1 \in Nat /\ d[b][i + 1].target1 \in Nat
          /\ c[b][i + 1].target2 \in Nat /\ d[b][i + 1].target2 \in Nat
      <4>1. InsnAt(c, r) \in Insn /\ InsnAt(d, r) \in Insn
        <5>1. r \in Positions(d)
          BY <3>1 DEF Ahead
        <5>2. QED
          BY <3>1, <5>1, InsnTypes
      <4>2. QED
        BY <2>3, <4>1 DEF Insn
    <3>4. ASSUME NEW t \in Nat, NEW u \in Nat, Leads(c, Start(t), Start(u))
          PROVE  BlockStart(d, u) = BlockStart(c, t)
      <4>1. Start(t) \in Spot /\ Start(u) \in Spot
        BY DEF Start, Spot
      <4>2. ReadAt(d, Start(u)) = ReadAt(c, Start(t))
        BY <1>1, <3>4, <4>1, LeadsRead
      <4>3. QED
        BY <4>2 DEF ReadAt, BlockStart, Start
    <3>5. /\ BlockStart(d, d[b][i + 1].target1) = BlockStart(c, c[b][i + 1].target1)
          /\ BlockStart(d, d[b][i + 1].target2) = BlockStart(c, c[b][i + 1].target2)
      BY <3>2, <3>3, <3>4
    <3>6. QED
      BY <2>4, <2>6, <3>5 DEF CodeFlowAt
  <2>7. CASE c[b][i].op # "COND"
    BY <2>4, <2>5, <2>7 DEF CodeFlowAt
  <2>8. QED
    BY <2>6, <2>7
<1>3. Positions(d) = Positions(c)
  BY DEF Ahead
<1>4. QED
  BY <1>2, <1>3 DEF CodeFlow

(* In a complete translation every condition is tested. *)
LEMMA CompleteTests ==
  ASSUME NEW a, NEW c, NEW w, Complete(a, c, w), AllPlaced(a, c, w)
  PROVE  Tested(c)
<1> SUFFICES ASSUME NEW q \in Positions(c), InsnAt(c, q).op = "COND"
             PROVE  Succ(q) \in Positions(c) /\ InsnAt(c, Succ(q)).op = "BR"
  BY DEF Tested
<1> DEFINE n == InsnAt(c, q).at
<1>1. n \in 1..Len(a) /\ "COND" \in Parts(a[n].kind) /\ q = PartAt(a, w, n, "COND")
  BY DEF AllPlaced, Placed, Visible
<1> HIDE DEF n
<1>2. a[n].kind \in {"if", "while", "do", "for"}
  BY <1>1 DEF Parts
<1>3. Entered(a, c, w, n) /\ Left(a, c, w, n)
  BY <1>1 DEF Complete
<1>4. \E t, e : BranchAt(c, q, n, t, e)
  <2>1. CASE a[n].kind = "if"
    BY <1>1, <1>3, <2>1 DEF Entered, PartAt
  <2>2. CASE a[n].kind = "while"
    BY <1>1, <1>3, <2>2 DEF Entered, PartAt
  <2>3. CASE a[n].kind = "for"
    BY <1>1, <1>3, <2>3 DEF Entered, PartAt
  <2>4. CASE a[n].kind = "do"
    BY <1>1, <1>3, <2>4 DEF Left, PartAt
  <2>5. QED
    BY <1>2, <2>1, <2>2, <2>3, <2>4
<1>5. QED
  BY <1>4 DEF BranchAt, Holds, BR

(* A round of the optimizer gets ahead by one jump, wherever it does.      *)
LEMMA RedirectionLeads ==
  ASSUME HandedOver(input, entries), Optimization!IInv, Optimization!Redirect, NEW t \in Nat
  PROVE  Leads(input, Start(t), Start(Optimization!redirect(t)))
<1>1. redundantBlocks = [b \in {c \in 1..Len(input) : IsJumpOnly(input[c])} |-> input[b][1].target1]
  BY SameWordsOfOptimization
     DEF Optimization!IInv, Optimization!Collected, Optimization!Redirect, Optimization!JumpOnly,
         Optimization!Block
<1>2. CASE t \in DOMAIN redundantBlocks
  <2>1. t \in 1..Len(input) /\ IsJumpOnly(input[t])
    BY <1>1, <1>2
  <2>2. Optimization!redirect(t) = input[t][1].target1
    BY <1>1, <1>2 DEF Optimization!redirect
  <2>3. Start(t) \in Positions(input) /\ InsnAt(input, Start(t)) = input[t][1]
    BY <2>1 DEF Positions, InsnAt, Start, IsJumpOnly
  <2>4. Start(t) \in Silent(input) /\ StepFrom(input, Start(t)) = Start(input[t][1].target1)
    BY <2>1, <2>3 DEF Silent, SilentOps, StepFrom, Start, IsJumpOnly
  <2>5. QED
    BY <2>2, <2>4, LeadsStep
<1>3. CASE t \notin DOMAIN redundantBlocks
  BY <1>3, LeadsSelf DEF Optimization!redirect
<1>4. QED
  BY <1>2, <1>3

(* The blocks keep their instructions, but for targets.                    *)
LEMMA OptimizedShape ==
  Optimization!IInv =>
         /\ code \in Seq(Seq(Insn)) /\ Len(code) = Len(input)
         /\ Positions(code) = Positions(input)
         /\ \A q \in Positions(input) : InsnAt(code, q).op = InsnAt(input, q).op
<1> SUFFICES ASSUME Optimization!IInv
             PROVE  /\ code \in Seq(Seq(Insn)) /\ Len(code) = Len(input)
                    /\ Positions(code) = Positions(input)
                    /\ \A q \in Positions(input) : InsnAt(code, q).op = InsnAt(input, q).op
  OBVIOUS
<1>1. code \in Seq(Seq(Insn)) /\ Len(code) = Len(input)
  BY SameWordsOfOptimization DEF Optimization!IInv, Optimization!TypeOK
<1>2. \A b \in 1..Len(input) :
        /\ Len(code[b]) = Len(input[b])
        /\ \A i \in 1..Len(input[b]) : code[b][i].op = input[b][i].op
  BY DEF Optimization!IInv, Optimization!SameShape, Optimization!Block
<1>3. Positions(code) = Positions(input)
  BY <1>1, <1>2 DEF Positions
<1>4. ASSUME NEW q \in Positions(input) PROVE InsnAt(code, q).op = InsnAt(input, q).op
  <2>1. PICK b \in 1..Len(input) : \E i \in 1..Len(input[b]) : q = <<b, i>>
    BY PositionIn
  <2>2. PICK i \in 1..Len(input[b]) : q = <<b, i>>
    BY <2>1
  <2>3. QED
    BY <1>2, <2>2 DEF InsnAt
<1>5. QED
  BY <1>1, <1>3, <1>4

LEMMA RedirectionAhead ==
  ASSUME HandedOver(input, entries), Optimization!IInv, Optimization!IInv', Optimization!Redirect,
         Ahead(input, code), BranchesAhead(input, code)
  PROVE  Ahead(input, code') /\ BranchesAhead(input, code')
<1>1. /\ code \in Seq(Seq(Insn)) /\ Len(code) = Len(input)
      /\ Positions(code) = Positions(input)
      /\ \A q \in Positions(input) : InsnAt(code, q).op = InsnAt(input, q).op
  BY OptimizedShape
<1>2. input' = input
  BY DEF Optimization!Redirect
<1>3. /\ Positions(code') = Positions(input)
      /\ \A q \in Positions(input) : InsnAt(code', q).op = InsnAt(input, q).op
  <2>1. Optimization!IInv' =>
         (/\ code \in Seq(Seq(Insn)) /\ Len(code) = Len(input)
          /\ Positions(code) = Positions(input)
          /\ \A q \in Positions(input) : InsnAt(code, q).op = InsnAt(input, q).op)'
    BY OptimizedShape, PTL
  <2>2. QED
    BY <1>2, <2>1
<1>4. ASSUME NEW q \in Positions(input)
      PROVE  /\ InsnAt(code, q) \in Insn
             /\ InsnAt(code', q) = Optimization!redirectInsn(InsnAt(code, q))
  <2>1. PICK b \in 1..Len(code) : \E i \in 1..Len(code[b]) : q = <<b, i>>
    BY <1>1, PositionIn
  <2>2. PICK i \in 1..Len(code[b]) : q = <<b, i>>
    BY <2>1
  <2>3. b \in blocks
    BY <1>1 DEF Optimization!IInv, Optimization!Collected, Optimization!Redirect, Optimization!Block
  <2>4. code'[b][i] = Optimization!redirectInsn(code[b][i])
    BY <2>2, <2>3 DEF Optimization!Redirect
  <2>5. QED
    BY <1>1, <2>2, <2>4, InsnTypes DEF InsnAt
<1>5. Ahead(input, code')
  <2>1. ASSUME NEW q \in Positions(input) PROVE InsnAt(code', q).at = InsnAt(input, q).at
    <3>1. InsnAt(code', q).at = InsnAt(code, q).at
      BY <1>4 DEF Optimization!redirectInsn, Insn
    <3>2. QED
      BY <3>1 DEF Ahead
  <2>2. ASSUME NEW q \in Silent(input)
        PROVE  Leads(input, StepFrom(input, q), StepFrom(code', q))
    <3> DEFINE i == InsnAt(code, q)
               j == InsnAt(code', q)
    <3>1. q \in Positions(input) /\ i \in Insn /\ j = Optimization!redirectInsn(i)
      BY <1>4 DEF Silent
    <3>2. j.op = i.op
      BY <1>1, <1>3, <3>1
    <3>3. Leads(input, StepFrom(input, q), StepFrom(code, q))
      BY DEF Ahead
    <3>4. CASE i.op = "JMP"
      <4>1. i.target1 \in Nat /\ j.target1 = Optimization!redirect(i.target1)
        BY <3>1, <3>4 DEF Optimization!redirectInsn, Insn
      <4>2. StepFrom(code, q) = Start(i.target1) /\ StepFrom(code', q) = Start(j.target1)
        BY <3>2, <3>4 DEF StepFrom, Start
      <4>3. Leads(input, Start(i.target1), Start(j.target1))
        BY <4>1, RedirectionLeads
      <4>4. QED
        BY <3>3, <4>2, <4>3, LeadsOn
    <3>5. CASE i.op # "JMP"
      BY <3>2, <3>3, <3>5 DEF StepFrom
    <3>6. QED
      BY <3>4, <3>5
  <2>3. QED
    BY <1>3, <2>1, <2>2 DEF Ahead
<1>6. BranchesAhead(input, code')
  <2> SUFFICES ASSUME NEW q \in Positions(input), InsnAt(input, q).op = "BR"
               PROVE  /\ Leads(input, Start(InsnAt(input, q).target1), Start(InsnAt(code', q).target1))
                      /\ Leads(input, Start(InsnAt(input, q).target2), Start(InsnAt(code', q).target2))
    BY DEF BranchesAhead
  <2> DEFINE i == InsnAt(code, q)
             j == InsnAt(code', q)
  <2>1. i \in Insn /\ j = Optimization!redirectInsn(i) /\ i.op = "BR"
    BY <1>1, <1>4
  <2>2. /\ i.target1 \in Nat /\ j.target1 = Optimization!redirect(i.target1)
        /\ i.target2 \in Nat /\ j.target2 = Optimization!redirect(i.target2)
    BY <2>1 DEF Optimization!redirectInsn, Insn
  <2>3. /\ Leads(input, Start(i.target1), Start(j.target1))
        /\ Leads(input, Start(i.target2), Start(j.target2))
    BY <2>2, RedirectionLeads
  <2>4. /\ Leads(input, Start(InsnAt(input, q).target1), Start(i.target1))
        /\ Leads(input, Start(InsnAt(input, q).target2), Start(i.target2))
    BY DEF BranchesAhead
  <2>5. QED
    BY <2>3, <2>4, LeadsOn
<1>7. QED
  BY <1>5, <1>6
-----------------------------------------------------------------------------
(* What the later passes know of the translation they work on. *)
Translated ==
  /\ input \in Seq(Seq(Insn))
  /\ code \in Seq(Seq(Insn))
  /\ \E w : /\ Complete(ast, input, w)
           /\ AllPlaced(ast, input, w)
           /\ entries \in Seq(Nat) /\ Starts(ast, input, w, entries)

(* The invariant of the flow: the translation follows the source, and from  *)
(* then on the code only ever gets ahead of it on the way.                 *)
FlowInv ==
  /\ phase = "translate" => SInv
  /\ phase # "translate" => Translated /\ Ahead(input, code) /\ BranchesAhead(input, code)

LEMMA AheadOfItself == \A c : Ahead(c, c) /\ BranchesAhead(c, c)
BY LeadsSelf DEF Ahead, BranchesAhead

LEMMA InitFlow == CompilerInit => FlowInv
BY InitSimulates DEF CompilerInit, FlowInv

LEMMA TranslateFlow == PassInv /\ FlowInv /\ Translate => FlowInv'
BY NextSimulates DEF PassInv, FlowInv, Translate, Next

LEMMA BeginOptimizeFlow == PassInv /\ FlowInv /\ BeginOptimize => FlowInv'
<1> SUFFICES ASSUME PassInv, FlowInv, BeginOptimize PROVE FlowInv'
  OBVIOUS
<1>1. IInv /\ SInv /\ status = "done"
  BY DEF PassInv, FlowInv, BeginOptimize
<1>2. /\ input' = code /\ code' = code /\ ast' = ast /\ entries' = entries
      /\ phase' = "optimize"
  BY DEF BeginOptimize, toILVars
<1>3. code \in Seq(Seq(Insn))
  BY <1>1, TranslatedIsHandedOver DEF HandedOver, Programs
<1>4. Translated'
  BY <1>1, <1>2, <1>3, FinishedFlow DEF Translated
<1>5. QED
  BY <1>2, <1>4, AheadOfItself DEF FlowInv

LEMMA OptimizeFlow == PassInv /\ FlowInv /\ Optimize => FlowInv'
<1> SUFFICES ASSUME PassInv, FlowInv, Optimize PROVE FlowInv'
  OBVIOUS
<1>1. /\ HandedOver(input, entries) /\ Optimization!IInv /\ Optimization!Step
      /\ phase = "optimize" /\ phase' = "optimize" /\ ast' = ast /\ entries' = entries
  BY SameOptimization DEF PassInv, Optimize, toILVars
<1>2. Optimization!IInv'
  BY <1>1, StepOfOptimization
<1>3. input' = input
  BY <1>1 DEF Optimization!Step, Optimization!Identify, Optimization!Redirect, Optimization!Erase
<1>4. Translated /\ Ahead(input, code) /\ BranchesAhead(input, code)
  BY <1>1 DEF FlowInv
<1>5. CASE Optimization!Redirect
  <2>1. Ahead(input, code') /\ BranchesAhead(input, code')
    BY <1>1, <1>2, <1>4, <1>5, RedirectionAhead
  <2>2. code' \in Seq(Seq(Insn))
    BY <1>2, SameWordsOfOptimization DEF Optimization!IInv, Optimization!TypeOK
  <2>3. QED
    BY <1>1, <1>3, <1>4, <2>1, <2>2 DEF FlowInv, Translated
<1>6. CASE Optimization!Identify \/ Optimization!Erase
  <2>1. code' = code
    BY <1>6 DEF Optimization!Identify, Optimization!Erase
  <2>2. QED
    BY <1>1, <1>3, <1>4, <2>1 DEF FlowInv, Translated
<1>7. QED
  BY <1>1, <1>5, <1>6 DEF Optimization!Step

LEMMA NextFlow == PassInv /\ FlowInv /\ [CompilerNext]_compilerVars => FlowInv'
<1> SUFFICES ASSUME PassInv, FlowInv, [CompilerNext]_compilerVars PROVE FlowInv'
  OBVIOUS
<1>1. CASE Translate \/ BeginOptimize \/ Optimize
  BY <1>1, TranslateFlow, BeginOptimizeFlow, OptimizeFlow
<1>2. CASE Generate \/ \E m \in 1..Len(entries) : BeginCodeGen(m)
  <2>1. code' = code
    BY <1>2 DEF Generate, BeginCodeGen, CodeGen!Step, CodeGen!EnterFunction, CodeGen!EnterBlock,
                CodeGen!LeaveFunction, CodeGen!Advance, CodeGen!VisitOrdinary,
                CodeGen!VisitCALL, CodeGen!VisitJMP, CodeGen!VisitBR, CodeGen!VisitReturn
  <2>2. /\ phase # "translate" /\ phase' # "translate"
        /\ input' = input /\ ast' = ast /\ entries' = entries
    BY <1>2 DEF Generate, BeginCodeGen, toILVars, middleVars
  <2>3. QED
    BY <2>1, <2>2 DEF FlowInv, Translated
<1>3. CASE UNCHANGED compilerVars
  <2>1. UNCHANGED <<phase, code, ast, entries, bb, contexts, visits, status, input>>
    BY <1>3 DEF compilerVars, toILVars, middleVars
  <2>2. phase = "translate" => SInv'
    <3>1. UNCHANGED vars
      BY <2>1 DEF vars
    <3>2. QED
      BY <3>1, NextSimulates DEF PassInv, FlowInv
  <2>3. QED
    BY <2>1, <2>2 DEF FlowInv, Translated
<1>4. QED
  BY <1>1, <1>2, <1>3 DEF CompilerNext, CompilerStep, CompilerStopped

(* In every state of the compiler the flow of the code follows the source. *)
THEOREM CodeStaysOnTheWay == CompilerSpec => []FlowInv
BY InitFlow, NextFlow, CompilerInvariant, PTL DEF CompilerSpec

(* What the optimizer, round after round, makes of a finished translation   *)
(* still does exactly what the source says: a jump or branch it redirects   *)
(* reaches the same next expression, call, condition, return, or end.      *)
THEOREM OptimizedFlowPreserved ==
  CompilerSpec => [](phase = "optimize" /\ JumpsAreClean => CodeFlow(code) = SourceFlow(ast))
<1>1. FlowInv => (phase = "optimize" /\ JumpsAreClean => CodeFlow(code) = SourceFlow(ast))
  <2> SUFFICES ASSUME FlowInv, phase = "optimize", JumpsAreClean
               PROVE  CodeFlow(code) = SourceFlow(ast)
    OBVIOUS
  <2>1. Translated /\ Ahead(input, code) /\ BranchesAhead(input, code)
    BY DEF FlowInv
  <2>2. PICK w : Complete(ast, input, w) /\ AllPlaced(ast, input, w)
    BY <2>1 DEF Translated
  <2>3. CleanIn(ast)
    BY DEF CleanIn, JumpsAreClean, JumpNodes, Stale, ContinuesWhile
  <2>4. CodeFlow(input) = SourceFlow(ast)
    BY <2>2, <2>3, FlowsAgree
  <2>5. Tested(input)
    BY <2>2, CompleteTests
  <2>6. CodeFlow(code) = CodeFlow(input)
    BY <2>1, <2>5, AheadFlows DEF Translated
  <2>7. QED
    BY <2>4, <2>6
<1>2. QED
  BY <1>1, CodeStaysOnTheWay, PTL
=============================================================================
