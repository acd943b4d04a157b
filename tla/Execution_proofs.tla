-------------------------- MODULE Execution_proofs --------------------------
(***************************************************************************)
(* Proofs about Execution, for any functions, variables and registers, and *)
(* runs of any length.                                                     *)
(*                                                                         *)
(* The properties are about the call that runs.  The invariant says of     *)
(* every call that waits where its variables, registers and pointers are:  *)
(* its frame is at and below its base pointer, all frames are below those  *)
(* of its callers, and only the running function writes, to its own frame  *)
(* or below.                                                               *)
(***************************************************************************)
EXTENDS Execution, WellFoundedInduction, SequenceTheorems, TLAPS

(* What the code generator has laid out so far: variables of a function have  *)
(* words of their own, below the base pointer; and a function whose call was  *)
(* compiled has words for its parameters, unless it is still to be compiled.  *)
Waiting(g) == \E j \in 1..Len(funWorklist) : funWorklist[j] = g

Layout ==
  /\ funWorklist \in Seq(Fun)
  /\ funVisited \subseteq Fun
  /\ f \in Fun \cup {None}
  /\ offset \in Nat \ {0}
  /\ offsets \in [Fun -> Seq(Nat \ {0})]
  /\ sizes \in [Fun -> Seq(Nat)]
  /\ callees \in [Fun -> SUBSET funVisited]
  /\ used \in [Fun -> 0..NumRegs]
  /\ \A g \in Fun : \A k \in 1..Len(offsets[g]) : offsets[g][k] < offset
  /\ \A g \in Fun : \A j, k \in 1..Len(offsets[g]) : offsets[g][j] = offsets[g][k] => j = k
  /\ main \in funVisited
  /\ \A g \in funVisited : Waiting(g) \/ g = f \/ numArgs[g] <= Len(offsets[g])

(* A function is compiled once: until then it has no words, and it never has  *)
(* more than it declares.                                                   *)
Fits ==
  /\ \A j, k \in 1..Len(funWorklist) : funWorklist[j] = funWorklist[k] => j = k
  /\ f \in funVisited \cup {None}
  /\ \A g \in Fun :
       /\ Waiting(g) => g \in funVisited /\ g # f /\ offsets[g] = <<>>
       /\ g \notin funVisited => offsets[g] = <<>>
       /\ Len(offsets[g]) <= Len(sizes[g])

(* The types of the machine, of the interpreter and of the calls. *)
Kinds      == {"undefined", "address", "return", "argument", "variable", "register", "result"}
Word       == Kinds \X Int \X (Int \cup Fun)
Ram        == UNION {[A -> Word] : A \in SUBSET Int}
Machine    == [ram : Ram, SP : Int, BP : Int, EAX : Word, regs : [1..NumRegs -> Word]]
Keys       == {"ALLOCA", "REG", "CALL"} \X Nat
Registers  == UNION {[K -> Word] : K \in SUBSET Keys}
Byte       == Word \X (0..8)
Interp     == [stack : Seq(Byte), locals : Seq(Registers), retVal : Word, failed : BOOLEAN]
ActivationType ==
  [fun : Fun, BP : Int, SP : Int, stored : SUBSET Nat, kept : SUBSET Nat, written : SUBSET Nat,
   lost : SUBSET Nat, spoiled : SUBSET (1..NumRegs), answered : BOOLEAN]

Holds(m, a, w) == a \in DOMAIN m.ram /\ m.ram[a] = w

(* The calls cs that run on machine m: their frames, from the base pointer    *)
(* down to the stack pointer, and the two words above that link them.         *)
Frame(cs, d) ==
  /\ cs[d].fun \in funVisited
  /\ cs[d].SP = cs[d].BP - FrameSize(cs[d].fun)
  /\ d > 1 => cs[d].BP = cs[d - 1].SP - numArgs[cs[d].fun] - 2

Linked(cs, m, d) ==
  /\ Holds(m, cs[d].BP, Address(IF d = 1 THEN 0 ELSE cs[d - 1].BP))
  /\ Holds(m, cs[d].BP + 1, Return(d - 1))

Chain(cs, m) ==
  /\ \A d \in 1..Len(cs) : Frame(cs, d) /\ Linked(cs, m, d)
  /\ \A d, e \in 1..Len(cs) : d < e => cs[e].BP + 1 < cs[d].SP
  /\ cs # <<>> => m.BP = cs[Len(cs)].BP /\ m.SP = cs[Len(cs)].SP

(* Of a call that waits it is not known what was kept outside of its frame.  *)
History(cs) ==
  /\ \A d \in 1..Len(cs) : /\ cs[d].kept \subseteq cs[d].stored /\ cs[d].stored \subseteq cs[d].written
                           /\ cs[d].written \subseteq 1..Len(offsets[cs[d].fun])
                           /\ cs[d].lost \subseteq cs[d].stored
  /\ \A d \in 1..Len(cs) - 1 : cs[d].kept = {}

(* Where the variables of call d are in the interpreter.  Eight bytes from the *)
(* address of one that has a value there is nothing of a later call.         *)
AddressOf(i, d, k) == i.locals[d][IL!ALLOCA(k)][2]
HasAddress(i, d, k) == IL!ALLOCA(k) \in DOMAIN i.locals[d]

Addresses(cs, i) ==
  /\ Len(i.locals) = Len(cs)
  /\ \A d \in 1..Len(cs) : \A k \in cs[d].stored :
       HasAddress(i, d, k) /\ AddressOf(i, d, k) + 8 <= Len(i.stack)
  /\ \A d \in 1..Len(cs) : \A k \in Nat : HasAddress(i, d, k) => AddressOf(i, d, k) \in 0..Len(i.stack)
  /\ \A d, e \in 1..Len(cs) : d < e =>
       \A k \in cs[d].stored : \A l \in Nat :
         HasAddress(i, e, l) => AddressOf(i, d, k) + 8 <= AddressOf(i, e, l)

(* The variables of every call, as VariablesAgree has it of the running one: in *)
(* its word is what the call itself has stored there, or the argument, and in  *)
(* its bytes too, unless one of them is of another variable of that call.     *)
Own(d, k) == {<<"variable", d, k>>, <<"argument", d - 1, k>>}
Reads(i, d, k, w) == \A j \in 1..8 : i.stack[AddressOf(i, d, k) + j] = <<w, j>>
Clobbered(i, d, k) ==
  \E j \in 1..8, l \in Nat \ {k}, h \in Nat : i.stack[AddressOf(i, d, k) + j] = <<<<"variable", d, l>>, h>>

VariableAgrees(cs, m, i, d, k) ==
  \E w \in Own(d, k) : /\ Holds(m, cs[d].BP - Slot(cs[d].fun, k), w)
                       /\ IF k \in cs[d].lost THEN Clobbered(i, d, k) ELSE Reads(i, d, k, w)

Variables(cs, m, i) ==
  \A d \in 1..Len(cs) : \A k \in cs[d].stored :
    Slot(cs[d].fun, k) <= FrameSize(cs[d].fun) \/ k \in cs[d].kept => VariableAgrees(cs, m, i, d, k)

(* The registers of every call.  What call d computed in r is in r, or the    *)
(* first later call that uses r has saved it; and it is not there exactly if  *)
(* a call in between found it spoiled, or the word where it was saved was     *)
(* overwritten.                                                              *)
Uses(cs, e, r) == r <= used[cs[e].fun]
Unused(cs, d, e, r) == \A x \in (d + 1)..(e - 1) : ~Uses(cs, x, r)
SpoiledIn(cs, d, e, r) == \E x \in d..e : r \in cs[x].spoiled
SaveAddress(cs, e, r) == cs[e].BP - SaveSlot(cs[e].fun, r)

Computed(i, d, r) == IL!REG(r) \in DOMAIN i.locals[d]

Saves(cs, m) ==
  \A e \in 1..Len(cs) : \A r \in 1..NumRegs : Uses(cs, e, r) => SaveAddress(cs, e, r) \in DOMAIN m.ram

InRegister(cs, m, i) ==
  \A d \in 1..Len(cs) : \A r \in 1..NumRegs :
    Uses(cs, d, r) /\ Computed(i, d, r) /\ Unused(cs, d, Len(cs) + 1, r)
      => (m.regs[r] = <<"register", d, r>> <=> ~SpoiledIn(cs, d, Len(cs), r))

Saved(cs, m, i) ==
  \A d, e \in 1..Len(cs) : \A r \in 1..NumRegs :
    d < e /\ Uses(cs, d, r) /\ Computed(i, d, r) /\ Unused(cs, d, e, r) /\ Uses(cs, e, r)
      => (m.ram[SaveAddress(cs, e, r)] = <<"register", d, r>>
            <=> ~SpoiledIn(cs, d, e - 1, r) /\ r \notin Overwritten(cs[e]))

Values(cs, i) ==
  \A d \in 1..Len(cs) : \A r \in Nat : Computed(i, d, r) => i.locals[d][IL!REG(r)] = <<"register", d, r>>

Answer(cs, m, i) ==
  cs[Len(cs)].answered
    => IL!CALL \in DOMAIN i.locals[Len(cs)] /\ i.locals[Len(cs)][IL!CALL] = m.EAX

Typed(cs, m, i) == cs \in Seq(ActivationType) /\ m \in Machine /\ i \in Interp

Core(cs, m, i) ==
  /\ Chain(cs, m) /\ History(cs) /\ Addresses(cs, i)
  /\ Variables(cs, m, i)
  /\ Saves(cs, m) /\ InRegister(cs, m, i) /\ Saved(cs, m, i) /\ Values(cs, i)

Agree(cs, m, i) == cs # <<>> /\ Core(cs, m, i) /\ Answer(cs, m, i)

IInv ==
  /\ Layout /\ Fits
  /\ status = "compiling" => /\ calls = <<>> /\ interp = IL!Start
                             /\ machine \in Machine /\ machine.SP = 0 /\ machine.BP = 0
  /\ Running => compiled /\ Typed(calls, machine, interp) /\ Agree(calls, machine, interp)
-----------------------------------------------------------------------------
(* Sums of natural numbers.  The function that Total defines recursively     *)
(* exists, by induction: else there is a least length where it does not.     *)
Adds(s, n, t) ==
  /\ t \in [0..n -> Nat] /\ t[0] = 0
  /\ \A k \in 1..n : t[k] = t[k - 1] + s[k]

LEMMA HasSums == ASSUME NEW s \in Seq(Nat) PROVE \E t : Adds(s, Len(s), t)
<1> DEFINE Bad == {n \in 0..Len(s) : ~\E t : Adds(s, n, t)}
           R == OpToRel(<, Nat)
<1>1. Len(s) \in Nat /\ \A k \in 1..Len(s) : s[k] \in Nat
  BY LenProperties, ElementOfSeq
<1>2. ASSUME Bad # {} PROVE FALSE
  <2>1. Bad \subseteq Nat
    BY <1>1
  <2> HIDE DEF Bad
  <2>2. PICK n \in Bad : \A y \in Bad : ~(<<y, n>> \in R)
    BY <1>2, <2>1, NatLessThanWellFounded, WFMin
  <2>3. \A y \in Bad : ~(y < n)
    BY <2>1, <2>2 DEF OpToRel
  <2> USE DEF Bad
  <2>4. n \in 0..Len(s) /\ ~\E t : Adds(s, n, t)
    BY <2>2
  <2>5. n # 0
    <3>1. Adds(s, 0, [k \in 0..0 |-> 0])
      BY DEF Adds
    <3> QED
      BY <3>1, <2>4
  <2>6. n - 1 \in 0..Len(s) /\ n \in Nat /\ n - 1 \in Nat /\ n - 1 < n
    BY <1>1, <2>4, <2>5
  <2>7. PICK t : Adds(s, n - 1, t)
    BY <2>3, <2>6
  <2> DEFINE u == [k \in 0..n |-> IF k = n THEN t[n - 1] + s[n] ELSE t[k]]
  <2>8. s[n] \in Nat /\ t[n - 1] \in Nat
    BY <1>1, <2>4, <2>5, <2>6, <2>7 DEF Adds
  <2>9. u \in [0..n -> Nat] /\ u[0] = 0
    BY <2>5, <2>6, <2>7, <2>8 DEF Adds
  <2>10. \A k \in 1..n : u[k] = u[k - 1] + s[k]
    BY <2>5, <2>6, <2>7, <2>8 DEF Adds
  <2> QED
    BY <2>4, <2>9, <2>10 DEF Adds
<1> QED
  BY <1>1, <1>2

LEMMA TotalIsNat == ASSUME NEW s \in Seq(Nat) PROVE Total(s) \in Nat
<1> DEFINE Eqn(t) == t = [k \in 0..Len(s) |-> IF k = 0 THEN 0 ELSE t[k - 1] + s[k]]
           total == CHOOSE t : Eqn(t)
           Bad == {n \in 0..Len(s) : total[n] \notin Nat}
           R == OpToRel(<, Nat)
<1>1. Len(s) \in Nat /\ \A k \in 1..Len(s) : s[k] \in Nat
  BY LenProperties, ElementOfSeq
<1>2. PICK t : Adds(s, Len(s), t)
  BY HasSums
<1>3. Eqn(t)
  <2>1. t = [k \in 0..Len(s) |-> t[k]]
    BY <1>2 DEF Adds
  <2>2. \A k \in 0..Len(s) : t[k] = IF k = 0 THEN 0 ELSE t[k - 1] + s[k]
    BY <1>1, <1>2 DEF Adds
  <2> QED
    BY <2>1, <2>2
<1>4. Eqn(total)
  BY <1>3
<1>5. Total(s) = total[Len(s)]
  BY DEF Total
<1>6. \A k \in 0..Len(s) : total[k] = IF k = 0 THEN 0 ELSE total[k - 1] + s[k]
  <2> HIDE DEF total
  <2> QED
    BY <1>4
<1> HIDE DEF total, Eqn
<1>7. ASSUME Bad # {} PROVE FALSE
  <2>1. Bad \subseteq Nat
    BY <1>1
  <2> HIDE DEF Bad
  <2>2. PICK n \in Bad : \A y \in Bad : ~(<<y, n>> \in R)
    BY <1>7, <2>1, NatLessThanWellFounded, WFMin
  <2>3. \A y \in Bad : ~(y < n)
    BY <2>1, <2>2 DEF OpToRel
  <2> USE DEF Bad
  <2>4. n \in 0..Len(s) /\ total[n] \notin Nat
    BY <2>2
  <2>5. n # 0
    BY <1>1, <1>6, <2>4
  <2>6. n - 1 \in 0..Len(s) /\ n \in 1..Len(s) /\ n - 1 < n
    BY <1>1, <2>4, <2>5
  <2>7. total[n - 1] \in Nat
    BY <2>3, <2>6
  <2>8. total[n] = total[n - 1] + s[n]
    BY <1>6, <2>4, <2>5
  <2> QED
    BY <1>1, <2>4, <2>6, <2>7, <2>8
<1>8. Len(s) \in 0..Len(s)
  BY <1>1
<1> QED
  BY <1>5, <1>7, <1>8
-----------------------------------------------------------------------------
(* The layout.                                                              *)
LEMMA LayoutInit == FramesInit => Layout
<1> SUFFICES ASSUME FramesInit PROVE Layout
  OBVIOUS
<1>1. main \in Fun /\ NumRegs \in Nat
  BY FramesAssumption
<1>2. <<>> \in Seq(Nat \ {0}) /\ <<>> \in Seq(Nat) /\ \A s : s = <<>> => Len(s) = 0
  BY EmptySeq
<1>3. \A g \in Fun : offsets[g] = <<>> /\ Len(offsets[g]) = 0
  BY <1>2 DEF FramesInit
<1>4. funWorklist \in Seq(Fun) /\ Len(funWorklist) = 1 /\ funWorklist[1] = main
  BY <1>1 DEF FramesInit
<1>5. Waiting(main)
  BY <1>4 DEF Waiting
<1>6. /\ offsets \in [Fun -> Seq(Nat \ {0})] /\ sizes \in [Fun -> Seq(Nat)]
      /\ callees \in [Fun -> SUBSET funVisited] /\ used \in [Fun -> 0..NumRegs]
      /\ offset \in Nat \ {0} /\ funVisited = {main} /\ f = None
  BY <1>1, <1>2 DEF FramesInit, SKIP_BP_OFFSET
<1> QED
  BY <1>1, <1>3, <1>4, <1>5, <1>6 DEF Layout

LEMMA LayoutEnter == ASSUME Layout, EnterFunction PROVE Layout'
<1> DEFINE g == Head(funWorklist)
<1>1. PICK s \in declares[g], n \in needs[g] :
        /\ f' = g /\ sizes' = [sizes EXCEPT ![g] = s] /\ used' = [used EXCEPT ![g] = n]
  BY DEF EnterFunction
<1>2. /\ funWorklist \in Seq(Fun) /\ funWorklist # <<>> /\ funWorklist' = Tail(funWorklist)
      /\ f = None /\ UNCHANGED <<funVisited, offset, offsets, callees>>
  BY DEF Layout, EnterFunction
<1>3. /\ g = funWorklist[1] /\ g \in Fun
      /\ funWorklist' \in Seq(Fun) /\ Len(funWorklist') = Len(funWorklist) - 1
      /\ Len(funWorklist) \in Nat \ {0}
      /\ \A j \in 1..Len(funWorklist') : funWorklist'[j] = funWorklist[j + 1]
  BY <1>1, <1>2, HeadTailProperties, LenProperties, EmptySeq
<1>4. s \in Seq(Nat) /\ n \in 0..NumRegs
  BY <1>1, <1>3, FramesAssumption
<1>5. /\ sizes' \in [Fun -> Seq(Nat)] /\ used' \in [Fun -> 0..NumRegs]
  BY <1>1, <1>3, <1>4 DEF Layout
<1>6. ASSUME NEW h \in funVisited' PROVE Waiting(h)' \/ h = f' \/ numArgs[h] <= Len(offsets'[h])
  <2>1. Waiting(h) \/ numArgs[h] <= Len(offsets[h])
    BY <1>2, FramesAssumption DEF Layout
  <2>2. CASE Waiting(h)
    <3>1. PICK j \in 1..Len(funWorklist) : funWorklist[j] = h
      BY <2>2 DEF Waiting
    <3>2. CASE j = 1
      BY <1>1, <1>3, <3>1, <3>2
    <3>3. CASE j # 1
      <4>1. j - 1 \in 1..Len(funWorklist') /\ (j - 1) + 1 = j
        BY <1>3, <3>1, <3>3
      <4>2. funWorklist'[j - 1] = h
        BY <1>3, <3>1, <4>1
      <4> QED
        BY <4>1, <4>2 DEF Waiting
    <3> QED
      BY <3>2, <3>3
  <2>3. CASE numArgs[h] <= Len(offsets[h])
    BY <1>2, <2>3
  <2> QED
    BY <2>1, <2>2, <2>3
<1> QED
  BY <1>1, <1>2, <1>3, <1>5, <1>6 DEF Layout

LEMMA LayoutAllocate == ASSUME Layout, Allocate PROVE Layout'
<1>1. /\ f \in Fun /\ offset \in Nat \ {0} /\ offset' = offset + 1
      /\ offsets' = [offsets EXCEPT ![f] = Append(@, offset)]
      /\ UNCHANGED <<funWorklist, funVisited, f, sizes, callees, used>>
  BY DEF Layout, Allocate
<1> DEFINE old == offsets[f]
           new == Append(old, offset)
<1>2. offsets \in [Fun -> Seq(Nat \ {0})]
  BY DEF Layout
<1>3. /\ old \in Seq(Nat \ {0}) /\ Len(old) \in Nat
      /\ new \in Seq(Nat \ {0}) /\ Len(new) = Len(old) + 1
      /\ \A k \in 1..Len(old) : new[k] = old[k] /\ old[k] < offset /\ old[k] \in Nat
      /\ new[Len(old) + 1] = offset
  <2>1. old \in Seq(Nat \ {0}) /\ Len(old) \in Nat
    BY <1>1, <1>2, LenProperties
  <2>2. \A k \in 1..Len(old) : old[k] \in Nat /\ old[k] < offset
    BY <1>1, <2>1, ElementOfSeq DEF Layout
  <2> HIDE DEF old
  <2>3. \A k \in 1..Len(old) : new[k] = old[k]
    BY <1>1, <2>1, AppendProperties
  <2> QED
    BY <1>1, <2>1, <2>2, <2>3, AppendProperties
<1>4. /\ offsets' \in [Fun -> Seq(Nat \ {0})]
      /\ \A g \in Fun : offsets'[g] = IF g = f THEN new ELSE offsets[g]
  <2> HIDE DEF new
  <2>1. offsets' = [offsets EXCEPT ![f] = new]
    BY <1>1 DEF new
  <2> QED
    BY <1>1, <1>2, <1>3, <2>1
<1>5. \A j, k \in 1..Len(old) : old[j] = old[k] => j = k
  BY <1>1 DEF Layout
<1>6. offset \in Nat /\ offset' \in Nat /\ offset < offset'
  BY <1>1
<1>7. Len(old) \in Nat /\ Len(new) = Len(old) + 1 /\ new[Len(old) + 1] = offset
  BY <1>3
<1>8. \A k \in 1..Len(old) : new[k] = old[k] /\ old[k] < offset /\ old[k] \in Nat
  BY <1>3
<1> HIDE DEF old, new
<1>9. \A k \in 1..Len(new) : new[k] < offset'
  <2> TAKE k \in 1..Len(new)
  <2>1. CASE k \in 1..Len(old)
    BY <1>6, <1>8, <2>1
  <2>2. CASE k \notin 1..Len(old)
    <3>1. k = Len(old) + 1
      BY <1>7, <2>2
    <3> QED
      BY <1>6, <1>7, <3>1
  <2> QED
    BY <2>1, <2>2
<1>10. \A j, k \in 1..Len(new) : new[j] = new[k] => j = k
  <2>1. \A k \in 1..Len(new) : k \in 1..Len(old) \/ k = Len(old) + 1
    BY <1>3
  <2>2. \A k \in 1..Len(old) : new[k] # offset
    BY <1>6, <1>8
  <2> QED
    BY <1>3, <1>5, <2>1, <2>2
<1>11. \A g \in Fun : \A k \in 1..Len(offsets'[g]) : offsets'[g][k] < offset'
  <2> TAKE g \in Fun
  <2>1. CASE g = f
    BY <1>4, <1>9, <2>1
  <2>2. CASE g # f
    <3>1. offsets'[g] = offsets[g] /\ offsets[g] \in Seq(Nat \ {0})
      BY <1>2, <1>4, <2>2
    <3>2. \A k \in 1..Len(offsets[g]) : offsets[g][k] \in Nat /\ offsets[g][k] < offset
      BY <3>1, ElementOfSeq DEF Layout
    <3> QED
      BY <1>1, <3>1, <3>2
  <2> QED
    BY <2>1, <2>2
<1>12. \A g \in Fun : \A j, k \in 1..Len(offsets'[g]) : offsets'[g][j] = offsets'[g][k] => j = k
  BY <1>4, <1>10 DEF Layout
<1>13. ASSUME NEW g \in Fun
       PROVE  Len(offsets[g]) <= Len(offsets'[g]) /\ Len(offsets[g]) \in Nat /\ Len(offsets'[g]) \in Nat
  <2>1. Len(offsets[g]) \in Nat
    BY <1>2, LenProperties
  <2>2. g = f => Len(offsets'[g]) = Len(offsets[g]) + 1
    BY <1>7, <1>4 DEF old
  <2>3. g # f => offsets'[g] = offsets[g]
    BY <1>4
  <2> QED
    BY <2>1, <2>2, <2>3
<1>14. ASSUME NEW g \in funVisited PROVE Waiting(g)' \/ g = f' \/ numArgs[g] <= Len(offsets'[g])
  <2>1. g \in Fun /\ numArgs[g] \in Nat /\ (Waiting(g)' <=> Waiting(g))
    BY <1>1, FramesAssumption DEF Layout, Waiting
  <2>2. Waiting(g) \/ g = f \/ numArgs[g] <= Len(offsets[g])
    BY DEF Layout
  <2>3. Len(offsets[g]) <= Len(offsets'[g]) /\ Len(offsets[g]) \in Nat /\ Len(offsets'[g]) \in Nat
    BY <1>13, <2>1
  <2>4. f' = f
    BY <1>1
  <2> QED
    BY <2>1, <2>2, <2>3, <2>4
<1>15. offset' \in Nat \ {0}
  BY <1>1
<1> QED
  BY <1>1, <1>4, <1>11, <1>12, <1>14, <1>15 DEF Layout

LEMMA LayoutCall == ASSUME Layout, NEW g \in Fun, CompileCall(g) PROVE Layout'
<1>1. /\ f \in Fun /\ funVisited' = funVisited \cup {g}
      /\ funWorklist' = IF g \in funVisited THEN funWorklist ELSE Append(funWorklist, g)
      /\ callees' = [callees EXCEPT ![f] = @ \cup {g}]
      /\ UNCHANGED <<f, offset, offsets, sizes, used>>
  BY DEF Layout, CompileCall, addFunToWorklist
<1>2. funWorklist \in Seq(Fun) /\ Len(funWorklist) \in Nat
  BY LenProperties DEF Layout
<1>3. /\ funWorklist' \in Seq(Fun)
      /\ \A h : Waiting(h) => Waiting(h)'
      /\ g \notin funVisited => Waiting(g)'
  <2>1. CASE g \in funVisited
    BY <1>1, <1>2, <2>1 DEF Waiting
  <2>2. CASE g \notin funVisited
    <3>1. /\ funWorklist' \in Seq(Fun) /\ Len(funWorklist') = Len(funWorklist) + 1
          /\ \A j \in 1..Len(funWorklist) : funWorklist'[j] = funWorklist[j]
          /\ funWorklist'[Len(funWorklist) + 1] = g
      BY <1>1, <1>2, <2>2, AppendProperties
    <3>2. 1..Len(funWorklist) \subseteq 1..Len(funWorklist') /\ Len(funWorklist) + 1 \in 1..Len(funWorklist')
      BY <1>2, <3>1
    <3> QED
      BY <3>1, <3>2 DEF Waiting
  <2> QED
    BY <2>1, <2>2
<1>4. callees' \in [Fun -> SUBSET funVisited']
  BY <1>1 DEF Layout
<1>5. \A h \in funVisited' : Waiting(h)' \/ h = f' \/ numArgs[h] <= Len(offsets'[h])
  BY <1>1, <1>3 DEF Layout
<1> QED
  BY <1>1, <1>3, <1>4, <1>5 DEF Layout

LEMMA LayoutLeave == ASSUME Layout, LeaveFunction PROVE Layout'
BY DEF Layout, LeaveFunction, Waiting

LEMMA LayoutKept == ASSUME Layout, UNCHANGED framesVars PROVE Layout'
BY DEF Layout, framesVars, Waiting

LEMMA LayoutCompile == ASSUME Layout, Compile PROVE Layout'
BY LayoutEnter, LayoutAllocate, LayoutCall, LayoutLeave DEF Compile

LEMMA FitsInit == FramesInit => Fits
<1> SUFFICES ASSUME FramesInit PROVE Fits
  OBVIOUS
<1>1. main \in Fun /\ None \notin Fun
  BY FramesAssumption
<1>2. Len(funWorklist) = 1 /\ funWorklist[1] = main /\ f = None /\ funVisited = {main}
  BY <1>1 DEF FramesInit
<1>3. \A g \in Fun : offsets[g] = <<>> /\ sizes[g] = <<>>
  BY DEF FramesInit
<1>4. \A g \in Fun : Len(offsets[g]) <= Len(sizes[g])
  <2>1. Len(<<>>) = 0 /\ 0 <= 0
    OBVIOUS
  <2> QED
    BY <1>3, <2>1
<1>5. \A g \in Fun : Waiting(g) => g = main
  BY <1>2 DEF Waiting
<1>6. \A j, k \in 1..Len(funWorklist) : j = k
  BY <1>2
<1>7. main # f /\ f \in funVisited \cup {None} /\ main \in funVisited
  BY <1>1, <1>2
<1> QED
  BY ONLY <1>3, <1>4, <1>5, <1>6, <1>7 DEF Fits

LEMMA FitsEnter == ASSUME Layout, Fits, EnterFunction PROVE Fits'
<1> DEFINE g == Head(funWorklist)
<1>1. PICK s \in declares[g], n \in needs[g] : f' = g /\ sizes' = [sizes EXCEPT ![g] = s]
  BY DEF EnterFunction
<1>2. /\ funWorklist \in Seq(Fun) /\ funWorklist # <<>> /\ funWorklist' = Tail(funWorklist)
      /\ funVisited' = funVisited /\ offsets' = offsets
  BY DEF Layout, EnterFunction
<1>3. /\ g = funWorklist[1] /\ g \in Fun
      /\ Len(funWorklist') = Len(funWorklist) - 1 /\ Len(funWorklist) \in Nat \ {0}
      /\ \A j \in 1..Len(funWorklist') : funWorklist'[j] = funWorklist[j + 1]
  BY <1>2, HeadTailProperties, LenProperties, EmptySeq
<1>4. s \in Seq(Nat) /\ Len(s) \in Nat
  BY <1>1, <1>3, FramesAssumption, LenProperties
<1>5. Waiting(g)
  BY <1>3 DEF Waiting
<1>6. g \in funVisited /\ offsets[g] = <<>> /\ Len(offsets[g]) = 0
  BY <1>3, <1>5, EmptySeq DEF Fits
<1>7. \A j \in 1..Len(funWorklist') : j + 1 \in 1..Len(funWorklist) /\ j + 1 # 1
  BY <1>3
<1>8. ASSUME NEW h, Waiting(h)' PROVE Waiting(h) /\ h # g
  <2>1. PICK j \in 1..Len(funWorklist') : funWorklist'[j] = h
    BY <1>8 DEF Waiting
  <2>2. j + 1 \in 1..Len(funWorklist) /\ j + 1 # 1 /\ funWorklist[j + 1] = h /\ 1 \in 1..Len(funWorklist)
    BY <1>3, <1>7, <2>1
  <2> QED
    BY <1>3, <2>2 DEF Fits, Waiting
<1>9. \A j, k \in 1..Len(funWorklist') : funWorklist'[j] = funWorklist'[k] => j = k
  <2> TAKE j, k \in 1..Len(funWorklist')
  <2> HAVE funWorklist'[j] = funWorklist'[k]
  <2>1. j + 1 = k + 1
    BY <1>3, <1>7 DEF Fits
  <2> QED
    BY <1>3, <2>1
<1>10. \A h \in Fun : Len(offsets'[h]) <= Len(sizes'[h])
  <2> TAKE h \in Fun
  <2>1. sizes'[h] = IF h = g THEN s ELSE sizes[h]
    BY <1>1 DEF Layout
  <2>2. CASE h = g
    <3>1. 0 <= Len(s) /\ sizes'[h] = s /\ offsets'[h] = offsets[g]
      BY <1>2, <1>4, <2>1, <2>2
    <3> QED
      BY <1>6, <3>1
  <2>3. CASE h # g
    BY <1>2, <2>1, <2>3 DEF Fits
  <2> QED
    BY <2>2, <2>3
<1>11. \A h \in Fun : (Waiting(h)' => h \in funVisited' /\ h # f' /\ offsets'[h] = <<>>)
                       /\ (h \notin funVisited' => offsets'[h] = <<>>)
  BY <1>1, <1>2, <1>8 DEF Fits
<1> QED
  BY <1>1, <1>2, <1>6, <1>9, <1>10, <1>11 DEF Fits

LEMMA FitsAllocate == ASSUME Layout, Fits, Allocate PROVE Fits'
<1>1. /\ f \in Fun /\ f \in funVisited /\ offset \in Nat \ {0} /\ Len(offsets[f]) < Len(sizes[f])
      /\ offsets' = [offsets EXCEPT ![f] = Append(offsets[f], offset)]
      /\ UNCHANGED <<funWorklist, funVisited, f, sizes, callees, used>>
  BY DEF Layout, Fits, Allocate
<1>2. offsets[f] \in Seq(Nat \ {0}) /\ Len(offsets[f]) \in Nat /\ Len(sizes[f]) \in Nat
  BY <1>1, LenProperties DEF Layout
<1>3. /\ \A g \in Fun : g # f => offsets'[g] = offsets[g]
      /\ offsets'[f] = Append(offsets[f], offset)
  BY <1>1 DEF Layout
<1>4. Len(offsets'[f]) <= Len(sizes'[f])
  <2>1. Len(offsets'[f]) = Len(offsets[f]) + 1
    BY <1>1, <1>2, <1>3, AppendProperties
  <2> QED
    BY <1>1, <1>2, <2>1
<1>5. \A g : Waiting(g)' <=> Waiting(g)
  BY <1>1 DEF Waiting
<1> QED
  BY <1>1, <1>3, <1>4, <1>5 DEF Fits

LEMMA FitsCall == ASSUME Layout, Fits, NEW g \in Fun, CompileCall(g) PROVE Fits'
<1>1. /\ f \in Fun /\ f \in funVisited /\ funVisited' = funVisited \cup {g}
      /\ funWorklist' = IF g \in funVisited THEN funWorklist ELSE Append(funWorklist, g)
      /\ f' = f /\ offsets' = offsets /\ sizes' = sizes
  BY DEF Layout, Fits, CompileCall, addFunToWorklist
<1>2. funWorklist \in Seq(Fun) /\ Len(funWorklist) \in Nat
  BY LenProperties DEF Layout
<1>3. CASE g \in funVisited
  <2>1. funWorklist' = funWorklist /\ funVisited' = funVisited
    BY <1>1, <1>3
  <2> QED
    BY <1>1, <2>1 DEF Fits, Waiting
<1>4. CASE g \notin funVisited
  <2>1. /\ Len(funWorklist') = Len(funWorklist) + 1
        /\ \A j \in 1..Len(funWorklist) : funWorklist'[j] = funWorklist[j]
        /\ funWorklist'[Len(funWorklist) + 1] = g
    BY <1>1, <1>2, <1>4, AppendProperties
  <2>2. \A j \in 1..Len(funWorklist') : j \in 1..Len(funWorklist) \/ j = Len(funWorklist) + 1
    BY <1>2, <2>1
  <2>3. ASSUME NEW h, Waiting(h)' PROVE Waiting(h) \/ h = g
    <3>1. PICK j \in 1..Len(funWorklist') : funWorklist'[j] = h
      BY <2>3 DEF Waiting
    <3> QED
      BY <2>1, <2>2, <3>1 DEF Waiting
  <2>4. ~Waiting(g) /\ offsets[g] = <<>> /\ g # f
    BY <1>1, <1>4 DEF Fits
  <2>5. \A j, k \in 1..Len(funWorklist') : funWorklist'[j] = funWorklist'[k] => j = k
    <3>1. \A j \in 1..Len(funWorklist) : funWorklist[j] # g
      BY <2>4 DEF Waiting
    <3>2. \A j, k \in 1..Len(funWorklist) : funWorklist[j] = funWorklist[k] => j = k
      BY DEF Fits
    <3> HIDE DEF Fits
    <3>3. TAKE j, k \in 1..Len(funWorklist')
    <3>4. HAVE funWorklist'[j] = funWorklist'[k]
    <3>5. CASE j \in 1..Len(funWorklist)
      BY <2>1, <2>2, <3>1, <3>2, <3>4, <3>5
    <3>6. CASE j = Len(funWorklist) + 1
      BY <2>1, <2>2, <3>1, <3>4, <3>6
    <3> QED
      BY <2>2, <3>5, <3>6
  <2>6. \A h \in Fun : (Waiting(h)' => h \in funVisited' /\ h # f' /\ offsets'[h] = <<>>)
                        /\ (h \notin funVisited' => offsets'[h] = <<>>)
    BY <1>1, <2>3, <2>4 DEF Fits
  <2> QED
    BY <1>1, <2>5, <2>6 DEF Fits
<1> QED
  BY <1>3, <1>4

LEMMA FitsLeave == ASSUME Layout, Fits, LeaveFunction PROVE Fits'
<1>1. f' = None /\ UNCHANGED <<funWorklist, funVisited, offsets, sizes>>
  BY DEF LeaveFunction
<1>2. \A g \in Fun : g # None
  BY FramesAssumption
<1> QED
  BY <1>1, <1>2 DEF Fits, Waiting

LEMMA FitsKept == ASSUME Fits, UNCHANGED framesVars PROVE Fits'
BY DEF Fits, framesVars, Waiting

LEMMA FitsCompile == ASSUME Layout, Fits, Compile PROVE Fits'
BY FitsEnter, FitsAllocate, FitsCall, FitsLeave DEF Compile

(* Every variable with a word has a size. *)
LEMMA HasSize ==
  ASSUME Layout, Fits, NEW g \in Fun, NEW k \in 1..Len(offsets[g])
  PROVE  sizes[g][k] \in Nat
<1>1. /\ sizes[g] \in Seq(Nat) /\ Len(sizes[g]) \in Nat /\ Len(offsets[g]) \in Nat
      /\ Len(offsets[g]) <= Len(sizes[g])
  <2>1. sizes[g] \in Seq(Nat) /\ offsets[g] \in Seq(Nat \ {0}) /\ Len(offsets[g]) <= Len(sizes[g])
    BY DEF Layout, Fits
  <2>2. Len(sizes[g]) \in Nat
    BY <2>1, LenProperties
  <2>3. Len(offsets[g]) \in Nat
    BY <2>1, LenProperties
  <2> QED
    BY <2>1, <2>2, <2>3
<1>2. k \in 1..Len(sizes[g])
  BY <1>1
<1> QED
  BY <1>1, <1>2, ElementOfSeq

(* The sizes that frames are made of.  A function that may be called has words *)
(* for its parameters when everything is compiled.                            *)
LEMMA Sizes ==
  ASSUME Layout, NEW g \in Fun
  PROVE  /\ getStackSize(g) \in Nat /\ used[g] \in 0..NumRegs /\ numArgs[g] \in Nat /\ NumRegs \in Nat
         /\ FrameSize(g) \in Nat /\ FrameSize(g) = getStackSize(g) + used[g]
         /\ Len(offsets[g]) \in Nat /\ offsets[g] \in Seq(Nat \ {0})
         /\ \A k \in 1..Len(offsets[g]) : Slot(g, k) \in Nat \ {0}
         /\ \A j, k \in 1..Len(offsets[g]) : Slot(g, j) = Slot(g, k) => j = k
         /\ \A r : SaveSlot(g, r) = getStackSize(g) + r
<1>1. sizes[g] \in Seq(Nat) /\ offsets[g] \in Seq(Nat \ {0}) /\ used[g] \in 0..NumRegs
  BY DEF Layout
<1>2. Total(sizes[g]) \in Nat
  BY <1>1, TotalIsNat
<1>3. getStackSize(g) \in Nat
  BY <1>2 DEF getStackSize, totalLocalsSize, T86_WORD_SZ
<1>4. \A k \in 1..Len(offsets[g]) : offsets[g][k] \in Nat \ {0}
  BY <1>1, ElementOfSeq
<1>5. Len(offsets[g]) \in Nat
  BY <1>1, LenProperties
<1>6. NumRegs \in Nat /\ numArgs[g] \in Nat
  BY FramesAssumption
<1>7. \A j, k \in 1..Len(offsets[g]) : offsets[g][j] = offsets[g][k] => j = k
  BY DEF Layout
<1>8. /\ \A k \in 1..Len(offsets[g]) : Slot(g, k) \in Nat \ {0}
      /\ \A j, k \in 1..Len(offsets[g]) : Slot(g, j) = Slot(g, k) => j = k
  BY ONLY <1>4, <1>7 DEF Slot
<1>9. /\ FrameSize(g) = getStackSize(g) + used[g]
      /\ \A r : SaveSlot(g, r) = getStackSize(g) + r
  BY ONLY DEF FrameSize, SaveSlot
<1>10. FrameSize(g) \in Nat
  BY ONLY <1>1, <1>3, <1>6, <1>9
<1> QED
  BY ONLY <1>1, <1>3, <1>5, <1>6, <1>8, <1>9, <1>10

LEMMA ParametersHaveWords ==
  ASSUME Layout, compiled, NEW g \in funVisited
  PROVE  g \in Fun /\ numArgs[g] \in 0..Len(offsets[g])
<1>1. g \in Fun /\ f = None /\ funWorklist = <<>> /\ g # None
  BY FramesAssumption DEF Layout, compiled
<1>2. Len(funWorklist) = 0
  BY <1>1, EmptySeq
<1>3. ~Waiting(g)
  BY <1>2 DEF Waiting
<1>4. numArgs[g] <= Len(offsets[g])
  BY <1>1, <1>3 DEF Layout
<1> QED
  BY <1>1, <1>4, Sizes
-----------------------------------------------------------------------------
(* The machine.                                                             *)
LEMMA WordsAreWords ==
  /\ IL!Undefined \in Word
  /\ \A d \in Int, n \in Int \cup Fun, kind \in Kinds : <<kind, d, n>> \in Word
  /\ \A a \in Int : Address(a) \in Word /\ Return(a) \in Word /\ Address(a)[2] = a
<1>1. ASSUME NEW d \in Int, NEW n \in Int \cup Fun, NEW kind \in Kinds PROVE <<kind, d, n>> \in Word
  BY DEF Word
<1>2. 0 \in Int /\ 0 \in Int \cup Fun
  OBVIOUS
<1>3. ASSUME NEW a \in Int, NEW kind \in Kinds PROVE <<kind, a, 0>> \in Word
  BY <1>1, <1>2
<1>4. IL!Undefined \in Word
  <2>1. "undefined" \in Kinds
    BY DEF Kinds
  <2>2. <<"undefined", 0, 0>> \in Word
    BY <1>2, <1>3, <2>1
  <2> QED
    BY <2>2 DEF IL!Undefined
<1>5. ASSUME NEW a \in Int PROVE Address(a) \in Word /\ Return(a) \in Word
  <2>1. "address" \in Kinds /\ "return" \in Kinds
    BY DEF Kinds
  <2>2. <<"address", a, 0>> \in Word /\ <<"return", a, 0>> \in Word
    BY <1>3, <2>1
  <2> QED
    BY <2>2 DEF Address, Return
<1>6. \A a \in Int : Address(a)[2] = a
  BY DEF Address
<1> QED
  BY <1>1, <1>4, <1>5, <1>6

LEMMA WriteWords ==
  ASSUME NEW m \in Machine, NEW words, NEW A \in SUBSET Int, words \in [A -> Word]
  PROVE  /\ Written(m, words) \in Machine
         /\ Written(m, words).SP = m.SP /\ Written(m, words).BP = m.BP
         /\ Written(m, words).EAX = m.EAX /\ Written(m, words).regs = m.regs
         /\ DOMAIN Written(m, words).ram = DOMAIN m.ram \cup A
         /\ \A x \in A : Written(m, words).ram[x] = words[x]
         /\ \A x \in DOMAIN m.ram : x \notin A => Written(m, words).ram[x] = m.ram[x]
<1> DEFINE R == [x \in DOMAIN m.ram \cup A |-> IF x \in A THEN words[x] ELSE m.ram[x]]
<1>1. m.ram \in Ram /\ DOMAIN words = A
  BY DEF Machine
<1>2. PICK B \in SUBSET Int : m.ram \in [B -> Word]
  BY <1>1 DEF Ram
<1>3. R \in [B \cup A -> Word] /\ B \cup A \in SUBSET Int /\ DOMAIN m.ram = B
  BY <1>2
<1>4. R \in Ram
  BY <1>3 DEF Ram
<1>5. Written(m, words) = [m EXCEPT !.ram = R]
  BY <1>1 DEF Written
<1>6. /\ DOMAIN R = DOMAIN m.ram \cup A
      /\ \A x \in A : R[x] = words[x]
      /\ \A x \in DOMAIN m.ram : x \notin A => R[x] = m.ram[x]
  OBVIOUS
<1> HIDE DEF R
<1>7. /\ [m EXCEPT !.ram = R] \in Machine /\ [m EXCEPT !.ram = R].ram = R
      /\ [m EXCEPT !.ram = R].SP = m.SP /\ [m EXCEPT !.ram = R].BP = m.BP
      /\ [m EXCEPT !.ram = R].EAX = m.EAX /\ [m EXCEPT !.ram = R].regs = m.regs
  BY <1>4 DEF Machine
<1> QED
  BY <1>5, <1>6, <1>7

LEMMA MachineParts ==
  ASSUME NEW m \in Machine
  PROVE  /\ m.SP \in Int /\ m.BP \in Int /\ m.EAX \in Word /\ m.regs \in [1..NumRegs -> Word]
         /\ DOMAIN m.ram \subseteq Int /\ \A x \in DOMAIN m.ram : m.ram[x] \in Word
         /\ \A v \in Int : [m EXCEPT !.SP = v] \in Machine
                           /\ [m EXCEPT !.SP = v].SP = v /\ [m EXCEPT !.SP = v].BP = m.BP
                           /\ [m EXCEPT !.SP = v].ram = m.ram /\ [m EXCEPT !.SP = v].EAX = m.EAX
                           /\ [m EXCEPT !.SP = v].regs = m.regs
         /\ \A v \in Int : [m EXCEPT !.BP = v] \in Machine
                           /\ [m EXCEPT !.BP = v].BP = v /\ [m EXCEPT !.BP = v].SP = m.SP
                           /\ [m EXCEPT !.BP = v].ram = m.ram /\ [m EXCEPT !.BP = v].EAX = m.EAX
                           /\ [m EXCEPT !.BP = v].regs = m.regs
<1>1. m.ram \in Ram /\ m.SP \in Int /\ m.BP \in Int /\ m.EAX \in Word /\ m.regs \in [1..NumRegs -> Word]
  BY DEF Machine
<1>2. PICK B \in SUBSET Int : m.ram \in [B -> Word]
  BY <1>1 DEF Ram
<1> QED
  BY <1>1, <1>2 DEF Machine

LEMMA PushWords ==
  ASSUME NEW m \in Machine, NEW s, NEW n \in Nat, s \in [1..n -> Word]
  PROVE  /\ PUSH(m, s) \in Machine
         /\ PUSH(m, s).SP = m.SP - n /\ PUSH(m, s).BP = m.BP
         /\ PUSH(m, s).EAX = m.EAX /\ PUSH(m, s).regs = m.regs
         /\ DOMAIN PUSH(m, s).ram = DOMAIN m.ram \cup (m.SP - n)..(m.SP - 1)
         /\ \A x \in (m.SP - n)..(m.SP - 1) : PUSH(m, s).ram[x] = s[m.SP - x]
         /\ \A x \in DOMAIN m.ram : x >= m.SP => PUSH(m, s).ram[x] = m.ram[x]
<1> DEFINE A == (m.SP - n)..(m.SP - 1)
           words == [x \in A |-> s[m.SP - x]]
           w == Written(m, words)
<1>1. s \in Seq(Word) /\ Len(s) = n
  OBVIOUS
<1>2. m.SP \in Int /\ DOMAIN m.ram \subseteq Int
  BY MachineParts
<1>3. A \in SUBSET Int /\ words \in [A -> Word]
  BY <1>2
<1>4. /\ w \in Machine /\ w.SP = m.SP /\ w.BP = m.BP /\ w.EAX = m.EAX /\ w.regs = m.regs
      /\ DOMAIN w.ram = DOMAIN m.ram \cup A
      /\ \A x \in A : w.ram[x] = words[x]
      /\ \A x \in DOMAIN m.ram : x \notin A => w.ram[x] = m.ram[x]
  <2> HIDE DEF words, A
  <2> QED
    BY <1>3, WriteWords
<1>5. PUSH(m, s) = [w EXCEPT !.SP = m.SP - n]
  BY <1>1, <1>4 DEF PUSH
<1>6. \A x \in A : words[x] = s[m.SP - x]
  OBVIOUS
<1> HIDE DEF w, words
<1>7. m.SP - n \in Int
  BY <1>2
<1>8. /\ PUSH(m, s) \in Machine /\ PUSH(m, s).ram = w.ram
      /\ PUSH(m, s).SP = m.SP - n /\ PUSH(m, s).BP = w.BP
      /\ PUSH(m, s).EAX = w.EAX /\ PUSH(m, s).regs = w.regs
  BY <1>4, <1>5, <1>7, MachineParts
<1>9. \A x \in DOMAIN m.ram : x >= m.SP => x \notin A
  BY <1>2
<1> QED
  BY <1>4, <1>6, <1>8, <1>9

LEMMA ReversedArguments ==
  ASSUME NEW n \in Nat, NEW s \in [1..n -> Word]
  PROVE  /\ Reversed(s) \in [1..n -> Word]
         /\ \A i \in 1..n : Reversed(s)[n + 1 - i] = s[i]
<1>1. s \in Seq(Word) /\ Len(s) = n
  OBVIOUS
<1>2. \A j \in 1..n : n + 1 - j \in 1..n /\ s[n + 1 - j] \in Word
  OBVIOUS
<1>3. Reversed(s) = [j \in 1..n |-> s[n + 1 - j]]
  BY <1>1 DEF Reversed
<1>4. \A i \in 1..n : n + 1 - (n + 1 - i) = i
  OBVIOUS
<1> QED
  BY <1>2, <1>3, <1>4
(* One word is a sequence of one.  *)
LEMMA PushWord ==
  ASSUME NEW m \in Machine, NEW c \in Word
  PROVE  /\ PUSH(m, <<c>>) \in Machine
         /\ PUSH(m, <<c>>).SP = m.SP - 1 /\ PUSH(m, <<c>>).BP = m.BP
         /\ PUSH(m, <<c>>).EAX = m.EAX /\ PUSH(m, <<c>>).regs = m.regs
         /\ Holds(PUSH(m, <<c>>), m.SP - 1, c)
         /\ \A x \in DOMAIN m.ram : x >= m.SP => Holds(PUSH(m, <<c>>), x, m.ram[x])
<1> DEFINE s == <<c>>
<1>1. 1 \in Nat /\ s \in [1..1 -> Word] /\ s[1] = c
  OBVIOUS
<1> HIDE DEF s
<1>2. /\ PUSH(m, s) \in Machine
      /\ PUSH(m, s).SP = m.SP - 1 /\ PUSH(m, s).BP = m.BP
      /\ PUSH(m, s).EAX = m.EAX /\ PUSH(m, s).regs = m.regs
      /\ DOMAIN PUSH(m, s).ram = DOMAIN m.ram \cup (m.SP - 1)..(m.SP - 1)
      /\ \A x \in (m.SP - 1)..(m.SP - 1) : PUSH(m, s).ram[x] = s[m.SP - x]
      /\ \A x \in DOMAIN m.ram : x >= m.SP => PUSH(m, s).ram[x] = m.ram[x]
  BY <1>1, PushWords
<1>3. m.SP \in Int /\ m.SP - 1 \in (m.SP - 1)..(m.SP - 1) /\ m.SP - (m.SP - 1) = 1
  BY MachineParts
<1>4. Holds(PUSH(m, s), m.SP - 1, c)
  BY <1>1, <1>2, <1>3 DEF Holds
<1>5. \A x \in DOMAIN m.ram : x >= m.SP => Holds(PUSH(m, s), x, m.ram[x])
  BY <1>2 DEF Holds
<1> QED
  BY <1>2, <1>4, <1>5 DEF s

(* The prologue links the frame to that of the caller, reserves the words of   *)
(* the variables and saves the registers below.                               *)
LEMMA PrologueEffect ==
  ASSUME Layout, NEW m \in Machine, NEW g \in Fun, NEW w, w = Prologue(m, g)
  PROVE  /\ w \in Machine
         /\ w.BP = m.SP - 1 /\ w.SP = w.BP - FrameSize(g)
         /\ w.EAX = m.EAX /\ w.regs = m.regs
         /\ Holds(w, w.BP, Address(m.BP))
         /\ \A x \in DOMAIN m.ram : x >= m.SP => Holds(w, x, m.ram[x])
         /\ \A r \in 1..used[g] : Holds(w, w.BP - SaveSlot(g, r), m.regs[r])
<1> DEFINE p == PUSH(m, <<Address(m.BP)>>)
           l == [p EXCEPT !.BP = m.SP - 1]
           z == getStackSize(g)
           k == [l EXCEPT !.SP = @ - z]
           s == SavedRegs(m, g)
           n == used[g]
<1>1. /\ m.SP \in Int /\ m.BP \in Int /\ m.regs \in [1..NumRegs -> Word]
      /\ DOMAIN m.ram \subseteq Int /\ Address(m.BP) \in Word
  BY MachineParts, WordsAreWords
<1>2. /\ z \in Nat /\ n \in Nat /\ n \in 0..NumRegs /\ NumRegs \in Nat /\ FrameSize(g) = z + n
      /\ \A r : SaveSlot(g, r) = z + r
  BY Sizes
<1>3. /\ p \in Machine /\ p.SP = m.SP - 1 /\ p.EAX = m.EAX /\ p.regs = m.regs
      /\ Holds(p, m.SP - 1, Address(m.BP))
      /\ \A x \in DOMAIN m.ram : x >= m.SP => Holds(p, x, m.ram[x])
  BY <1>1, PushWord
<1>4. /\ l \in Machine /\ l.SP = m.SP - 1 /\ l.BP = m.SP - 1 /\ l.EAX = m.EAX /\ l.regs = m.regs
      /\ l.ram = p.ram
  <2> HIDE DEF p
  <2>1. m.SP - 1 \in Int
    BY <1>1
  <2> QED
    BY <1>3, <2>1, MachineParts
<1>5. w = PUSH(k, s)
  BY DEF Prologue
<1>6. /\ k \in Machine /\ k.SP = m.SP - 1 - z /\ k.BP = m.SP - 1 /\ k.EAX = m.EAX /\ k.regs = m.regs
      /\ k.ram = p.ram
  <2> HIDE DEF l, z
  <2>1. l.SP - z \in Int
    BY <1>1, <1>2, <1>4
  <2> QED
    BY <1>4, <2>1, MachineParts
<1>7. s \in [1..n -> Word] /\ \A r \in 1..n : s[r] = m.regs[r]
  <2>1. s = [r \in 1..n |-> m.regs[r]]
    BY DEF SavedRegs
  <2>2. \A r \in 1..n : m.regs[r] \in Word
    BY <1>1, <1>2
  <2> QED
    BY <2>1, <2>2
<1> HIDE DEF p, l, k, s, z, n
<1>8. /\ w \in Machine
      /\ w.SP = k.SP - n /\ w.BP = k.BP
      /\ w.EAX = k.EAX /\ w.regs = k.regs
      /\ DOMAIN w.ram = DOMAIN k.ram \cup (k.SP - n)..(k.SP - 1)
      /\ \A x \in (k.SP - n)..(k.SP - 1) : w.ram[x] = s[k.SP - x]
      /\ \A x \in DOMAIN k.ram : x >= k.SP => w.ram[x] = k.ram[x]
  BY <1>2, <1>5, <1>6, <1>7, PushWords
<1>9. w.BP = m.SP - 1 /\ w.SP = w.BP - FrameSize(g)
  BY <1>1, <1>2, <1>6, <1>8
<1>10. ASSUME NEW x \in Int, NEW c, x >= m.SP - 1, Holds(p, x, c) PROVE Holds(w, x, c)
  <2>1. x >= k.SP
    BY <1>1, <1>2, <1>6, <1>10
  <2> QED
    BY <1>6, <1>8, <1>10, <2>1 DEF Holds
<1>11. Holds(w, w.BP, Address(m.BP))
  BY <1>1, <1>3, <1>9, <1>10
<1>12. \A x \in DOMAIN m.ram : x >= m.SP => Holds(w, x, m.ram[x])
  BY <1>1, <1>3, <1>10
<1>13. ASSUME NEW r \in 1..n PROVE Holds(w, w.BP - SaveSlot(g, r), m.regs[r])
  <2>1. w.BP - SaveSlot(g, r) = m.SP - 1 - (z + r) /\ k.SP = m.SP - 1 - z /\ k.SP \in Int
    BY <1>1, <1>2, <1>6, <1>9
  <2>2. r \in Int /\ n \in Int /\ 1 <= r /\ r <= n
    BY <1>2
  <2>3. w.BP - SaveSlot(g, r) = k.SP - r
    BY <1>1, <1>2, <2>1, <2>2
  <2>4. k.SP - r \in (k.SP - n)..(k.SP - 1) /\ k.SP - (k.SP - r) = r
    BY <2>1, <2>2
  <2> QED
    BY <1>7, <1>8, <2>3, <2>4 DEF Holds
<1> QED
  BY <1>6, <1>8, <1>9, <1>11, <1>12, <1>13 DEF n

(* Copying the arguments writes the words of the parameters only.             *)
Passed(m, n, args) == \A i \in 1..n : Holds(m, m.BP + 1 + i, args[i])
Copied(m, w, g, n, args) ==
  /\ \A i \in 1..n : Holds(w, m.BP - Slot(g, i), args[i])
  /\ \A x \in DOMAIN m.ram :
       /\ x \in DOMAIN w.ram
       /\ (\A i \in 1..n : x # m.BP - Slot(g, i)) => w.ram[x] = m.ram[x]

LEMMA CopyEffect ==
  ASSUME Layout, NEW m \in Machine, NEW g \in Fun, NEW n, n = numArgs[g], n <= Len(offsets[g]),
         NEW args \in [1..n -> Word],
         Passed(m, n, args),
         NEW w, w = CopyArguments(m, g)
  PROVE  /\ w \in Machine
         /\ w.BP = m.BP /\ w.SP = m.SP /\ w.EAX = m.EAX /\ w.regs = m.regs
         /\ Copied(m, w, g, n, args)
<1> DEFINE place(i) == m.BP - Slot(g, i)
           A == {place(i) : i \in 1..n}
           words == [x \in A |-> Argument(m, CHOOSE i \in 1..n : place(i) = x)]
<1>1. /\ m.BP \in Int /\ n \in Nat /\ Len(offsets[g]) \in Nat
      /\ \A k \in 1..Len(offsets[g]) : Slot(g, k) \in Nat \ {0}
      /\ \A j, k \in 1..Len(offsets[g]) : Slot(g, j) = Slot(g, k) => j = k
  BY Sizes, MachineParts
<1>2. \A i \in 1..n : i \in 1..Len(offsets[g])
  BY <1>1
<1>3. \A i \in 1..n : Slot(g, i) \in Int /\ place(i) \in Int
  BY <1>1, <1>2
<1>4. \A i, j \in 1..n : place(i) = place(j) => i = j
  BY <1>1, <1>2, <1>3
<1>5. \A i \in 1..n : Argument(m, i) = args[i]
  <2>1. \A i \in 1..n : m.BP + 2 + (i - 1) = m.BP + 1 + i
    BY <1>1
  <2> QED
    BY <2>1 DEF Argument, Holds, Passed
<1>6. \A i \in 1..n : (CHOOSE j \in 1..n : place(j) = place(i)) = i
  BY <1>4
<1>7. \A i \in 1..n : words[place(i)] = args[i]
  BY <1>5, <1>6
<1>8. A \in SUBSET Int
  BY <1>3
<1>9. words \in [A -> Word]
  <2>1. \A x \in A : words[x] \in Word
    BY <1>7
  <2> QED
    BY <2>1
<1>10. w = Written(m, words)
  BY DEF CopyArguments
<1>11. \A x : (\A i \in 1..n : x # m.BP - Slot(g, i)) => x \notin A
  OBVIOUS
<1>12. \A i \in 1..n : place(i) \in A
  OBVIOUS
<1> HIDE DEF words, A
<1>13. /\ w \in Machine /\ w.SP = m.SP /\ w.BP = m.BP /\ w.EAX = m.EAX /\ w.regs = m.regs
       /\ DOMAIN w.ram = DOMAIN m.ram \cup A
       /\ \A x \in A : w.ram[x] = words[x]
       /\ \A x \in DOMAIN m.ram : x \notin A => w.ram[x] = m.ram[x]
  BY <1>8, <1>9, <1>10, WriteWords
<1> QED
  BY <1>7, <1>11, <1>12, <1>13 DEF Holds, Copied
(* A call: the frame of the callee is below the stack pointer of the caller,   *)
(* and nothing above that is written.                                        *)
Called(m, w, g, n, args, d) ==
  /\ w \in Machine
  /\ w.BP = m.SP - n - 2 /\ w.SP = w.BP - FrameSize(g)
  /\ w.EAX = m.EAX /\ w.regs = m.regs
  /\ Holds(w, w.BP, Address(m.BP)) /\ Holds(w, w.BP + 1, Return(d))
  /\ \A x \in DOMAIN m.ram : x >= m.SP => Holds(w, x, m.ram[x])
  /\ \A i \in 1..n : Holds(w, w.BP - Slot(g, i), args[i])
  /\ \A r \in 1..used[g] :
       /\ w.BP - SaveSlot(g, r) \in DOMAIN w.ram
       /\ (\A i \in 1..n : Slot(g, i) # SaveSlot(g, r)) => w.ram[w.BP - SaveSlot(g, r)] = m.regs[r]

LEMMA CallEffect ==
  ASSUME Layout, NEW m \in Machine, NEW g \in Fun, NEW n, n = numArgs[g], n <= Len(offsets[g]),
         NEW args \in [1..n -> Word], NEW d \in Int, NEW w, w = Call(m, g, args, d)
  PROVE  Called(m, w, g, n, args, d)
<1> DEFINE rev == Reversed(args)
           p == PUSH(m, rev)
           q == PUSH(p, <<Return(d)>>)
           k == Prologue(q, g)
<1>1. /\ m.SP \in Int /\ m.BP \in Int /\ m.regs \in [1..NumRegs -> Word]
      /\ DOMAIN m.ram \subseteq Int /\ Return(d) \in Word
  BY MachineParts, WordsAreWords
<1>2. /\ n \in Nat /\ used[g] \in 0..NumRegs /\ NumRegs \in Nat /\ FrameSize(g) \in Nat
      /\ \A i \in 1..n : Slot(g, i) \in Nat \ {0}
      /\ getStackSize(g) \in Nat
      /\ \A r : SaveSlot(g, r) = getStackSize(g) + r
  <2>1. n \in Nat /\ Len(offsets[g]) \in Nat
    BY Sizes
  <2>2. \A i \in 1..n : i \in 1..Len(offsets[g])
    BY <2>1
  <2> QED
    BY <2>1, <2>2, Sizes
<1>3. rev \in [1..n -> Word] /\ \A i \in 1..n : rev[n + 1 - i] = args[i]
  BY <1>2, ReversedArguments
<1>4. w = CopyArguments(k, g)
  BY DEF Call
<1> HIDE DEF rev
<1>5. /\ p \in Machine /\ p.SP = m.SP - n /\ p.BP = m.BP /\ p.EAX = m.EAX /\ p.regs = m.regs
      /\ DOMAIN p.ram = DOMAIN m.ram \cup (m.SP - n)..(m.SP - 1)
      /\ \A x \in (m.SP - n)..(m.SP - 1) : p.ram[x] = rev[m.SP - x]
      /\ \A x \in DOMAIN m.ram : x >= m.SP => p.ram[x] = m.ram[x]
  <2>1. n \in Nat /\ rev \in [1..n -> Word]
    BY <1>2, <1>3
  <2> QED
    BY <2>1, PushWords
<1> HIDE DEF p
<1>6. /\ q \in Machine /\ q.SP = p.SP - 1 /\ q.BP = p.BP /\ q.EAX = p.EAX /\ q.regs = p.regs
      /\ Holds(q, p.SP - 1, Return(d))
      /\ \A x \in DOMAIN p.ram : x >= p.SP => Holds(q, x, p.ram[x])
  BY <1>1, <1>5, PushWord
<1> HIDE DEF q
<1>7. /\ k \in Machine
      /\ k.BP = q.SP - 1 /\ k.SP = k.BP - FrameSize(g)
      /\ k.EAX = q.EAX /\ k.regs = q.regs
      /\ Holds(k, k.BP, Address(q.BP))
      /\ \A x \in DOMAIN q.ram : x >= q.SP => Holds(k, x, q.ram[x])
      /\ \A r \in 1..used[g] : Holds(k, k.BP - SaveSlot(g, r), q.regs[r])
  BY <1>6, PrologueEffect
<1> HIDE DEF k
<1>8. k.BP = m.SP - n - 2 /\ k.BP \in Int
  BY <1>1, <1>2, <1>5, <1>6, <1>7
<1>9. Holds(k, k.BP + 1, Return(d))
  <2>1. p.SP - 1 = k.BP + 1 /\ p.SP - 1 >= q.SP
    BY <1>1, <1>2, <1>5, <1>6, <1>8
  <2> QED
    BY <1>6, <1>7, <2>1 DEF Holds
<1>10. ASSUME NEW x \in DOMAIN p.ram, x >= p.SP PROVE Holds(k, x, p.ram[x])
  <2>1. x \in Int /\ x >= q.SP
    BY <1>1, <1>2, <1>5, <1>6, <1>10, MachineParts
  <2> QED
    BY <1>6, <1>7, <1>10, <2>1 DEF Holds
<1>11. ASSUME NEW x \in DOMAIN m.ram, x >= m.SP PROVE Holds(k, x, m.ram[x])
  <2>1. x \in DOMAIN p.ram /\ x >= p.SP /\ p.ram[x] = m.ram[x]
    BY <1>1, <1>2, <1>5, <1>11
  <2> QED
    BY <1>10, <2>1
<1>12. ASSUME NEW i \in 1..n PROVE Holds(k, k.BP + 1 + i, args[i])
  <2>1. i \in Int /\ 1 <= i /\ i <= n /\ n \in Int
    BY <1>2
  <2>2. m.SP \in Int /\ k.BP = m.SP - n - 2
    BY <1>1, <1>8
  <2> DEFINE x == k.BP + 1 + i
  <2>3. x \in (m.SP - n)..(m.SP - 1) /\ m.SP - x = n + 1 - i /\ x >= m.SP - n
    <3>1. x = m.SP - n - 1 + i
      BY ONLY <2>1, <2>2
    <3> HIDE DEF x
    <3> QED
      BY ONLY <2>1, <2>2, <3>1
  <2> HIDE DEF x
  <2>4. x \in DOMAIN p.ram /\ p.ram[x] = rev[m.SP - x] /\ x >= p.SP
    BY <1>5, <2>3
  <2>5. p.ram[x] = args[i]
    BY <1>3, <2>3, <2>4
  <2>6. Holds(k, x, args[i])
    BY <1>10, <2>4, <2>5
  <2> QED
    BY <2>6 DEF x
<1>13. /\ w \in Machine
       /\ w.BP = k.BP /\ w.SP = k.SP /\ w.EAX = k.EAX /\ w.regs = k.regs
       /\ \A i \in 1..n : Holds(w, k.BP - Slot(g, i), args[i])
       /\ \A x \in DOMAIN k.ram :
            /\ x \in DOMAIN w.ram
            /\ (\A i \in 1..n : x # k.BP - Slot(g, i)) => w.ram[x] = k.ram[x]
  <2>1. Passed(k, n, args)
    BY <1>12 DEF Passed
  <2>2. /\ Layout /\ k \in Machine /\ g \in Fun /\ n = numArgs[g] /\ n <= Len(offsets[g])
        /\ args \in [1..n -> Word] /\ w = CopyArguments(k, g)
    BY <1>4, <1>7
  <2>3. /\ w \in Machine
        /\ w.BP = k.BP /\ w.SP = k.SP /\ w.EAX = k.EAX /\ w.regs = k.regs
        /\ Copied(k, w, g, n, args)
    BY ONLY <2>1, <2>2, CopyEffect
  <2> QED
    BY <2>3 DEF Copied
<1>14. ASSUME NEW x \in Int, NEW c, x >= k.BP, Holds(k, x, c) PROVE Holds(w, x, c)
  <2>1. \A i \in 1..n : x # k.BP - Slot(g, i)
    BY <1>2, <1>8, <1>14
  <2> QED
    BY <1>13, <1>14, <2>1 DEF Holds
<1>15. ASSUME NEW r \in 1..used[g]
       PROVE  /\ w.BP - SaveSlot(g, r) \in DOMAIN w.ram
              /\ (\A i \in 1..n : Slot(g, i) # SaveSlot(g, r))
                   => w.ram[w.BP - SaveSlot(g, r)] = m.regs[r]
  <2> DEFINE x == k.BP - SaveSlot(g, r)
  <2>1. x \in DOMAIN k.ram /\ k.ram[x] = m.regs[r]
    BY <1>5, <1>6, <1>7 DEF Holds
  <2>2. (\A i \in 1..n : Slot(g, i) # SaveSlot(g, r)) => \A i \in 1..n : x # k.BP - Slot(g, i)
    <3>1. SaveSlot(g, r) \in Int
      BY <1>2
    <3> QED
      BY <1>2, <1>8, <3>1
  <2> QED
    BY <1>13, <2>1, <2>2
<1>16. Holds(w, w.BP, Address(m.BP)) /\ Holds(w, w.BP + 1, Return(d))
  <2>1. k.BP + 1 \in Int /\ k.BP + 1 >= k.BP /\ k.BP >= k.BP
    BY <1>8
  <2> QED
    BY <1>5, <1>6, <1>7, <1>8, <1>9, <1>13, <1>14, <2>1
<1>17. \A x \in DOMAIN m.ram : x >= m.SP => Holds(w, x, m.ram[x])
  BY <1>1, <1>2, <1>8, <1>11, <1>14
<1> QED
  BY <1>5, <1>6, <1>7, <1>8, <1>13, <1>15, <1>16, <1>17 DEF Called

(* A return takes the pointers and registers back from the frame.              *)
Returned(m, w, g, a) ==
  /\ w \in Machine
  /\ w.BP = a /\ w.SP = m.BP + 2 + numArgs[g]
  /\ w.EAX = m.EAX /\ w.ram = m.ram
  /\ \A r \in 1..NumRegs :
       w.regs[r] = IF r <= used[g] THEN m.ram[m.BP - SaveSlot(g, r)] ELSE m.regs[r]

LEMMA LeaveEffect ==
  ASSUME Layout, NEW m \in Machine, NEW g \in Fun, m.SP = m.BP - FrameSize(g),
         NEW a \in Int, Holds(m, m.BP, Address(a)),
         \A r \in 1..used[g] : m.BP - SaveSlot(g, r) \in DOMAIN m.ram,
         NEW w, w = Leave(m, g)
  PROVE  Returned(m, w, g, a)
<1> DEFINE p == PopRegs(m, g)
           l == [p EXCEPT !.SP = @ + getStackSize(g)]
           q == POP(l)
           u == [q EXCEPT !.BP = top(l)[2]]
           e == POP(u)
           regs == [r \in 1..NumRegs |-> IF r \in 1..used[g] THEN m.ram[m.SP + used[g] - r] ELSE m.regs[r]]
<1>1. /\ m.SP \in Int /\ m.BP \in Int /\ m.regs \in [1..NumRegs -> Word]
      /\ \A x \in DOMAIN m.ram : m.ram[x] \in Word
  BY MachineParts
<1>2. /\ numArgs[g] \in Nat /\ used[g] \in 0..NumRegs /\ NumRegs \in Nat
      /\ getStackSize(g) \in Nat /\ FrameSize(g) = getStackSize(g) + used[g]
      /\ \A r : SaveSlot(g, r) = getStackSize(g) + r
  BY Sizes
<1>3. \A r \in 1..used[g] : m.SP + used[g] - r = m.BP - SaveSlot(g, r)
  <2>1. \A r \in 1..used[g] : SaveSlot(g, r) = getStackSize(g) + r
    BY <1>2
  <2> QED
    BY <1>1, <1>2, <2>1
<1>4. /\ regs \in [1..NumRegs -> Word]
      /\ \A r \in 1..NumRegs : regs[r] = IF r <= used[g] THEN m.ram[m.BP - SaveSlot(g, r)] ELSE m.regs[r]
  <2>1. \A r \in 1..NumRegs : r \in 1..used[g] <=> r <= used[g]
    BY <1>2
  <2> QED
    BY <1>1, <1>3, <2>1
<1>5. p = [m EXCEPT !.SP = m.SP + used[g], !.regs = regs]
  <2>1. DOMAIN m.regs = 1..NumRegs
    BY <1>1
  <2> QED
    BY <2>1 DEF PopRegs
<1> HIDE DEF regs
<1>6. /\ p \in Machine /\ p.SP = m.SP + used[g] /\ p.BP = m.BP /\ p.ram = m.ram /\ p.EAX = m.EAX
      /\ p.regs = regs
  <2>1. m.SP + used[g] \in Int
    BY <1>1, <1>2
  <2> HIDE DEF p
  <2> QED
    BY <1>4, <1>5, <2>1 DEF Machine
<1>7. w = [e EXCEPT !.SP = @ + numArgs[g]]
  BY DEF Leave, Epilogue
<1> HIDE DEF p
<1>8. /\ l \in Machine /\ l.SP = m.BP /\ l.BP = m.BP /\ l.ram = m.ram /\ l.EAX = m.EAX /\ l.regs = regs
  <2>1. p.SP + getStackSize(g) = m.BP /\ p.SP + getStackSize(g) \in Int
    BY <1>1, <1>2, <1>6
  <2> QED
    BY <1>6, <2>1, MachineParts
<1> HIDE DEF l
<1>9. /\ q \in Machine /\ q.SP = m.BP + 1 /\ q.BP = m.BP /\ q.ram = m.ram /\ q.EAX = m.EAX /\ q.regs = regs
  <2>1. l.SP + 1 = m.BP + 1 /\ l.SP + 1 \in Int
    BY <1>1, <1>8
  <2> QED
    BY <1>8, <2>1, MachineParts DEF POP
<1> HIDE DEF q
<1>10. top(l)[2] = a
  BY <1>8, WordsAreWords DEF top, Holds
<1>11. /\ u \in Machine /\ u.SP = m.BP + 1 /\ u.BP = a /\ u.ram = m.ram /\ u.EAX = m.EAX /\ u.regs = regs
  BY <1>9, <1>10, MachineParts
<1> HIDE DEF u
<1>12. /\ e \in Machine /\ e.SP = m.BP + 2 /\ e.BP = a /\ e.ram = m.ram /\ e.EAX = m.EAX /\ e.regs = regs
  <2>1. u.SP + 1 = m.BP + 2 /\ u.SP + 1 \in Int
    BY <1>1, <1>11
  <2> QED
    BY <1>11, <2>1, MachineParts DEF POP
<1> HIDE DEF e
<1>13. /\ w \in Machine /\ w.SP = m.BP + 2 + numArgs[g] /\ w.BP = a /\ w.ram = m.ram /\ w.EAX = m.EAX
       /\ w.regs = regs
  <2>1. e.SP + numArgs[g] = m.BP + 2 + numArgs[g] /\ e.SP + numArgs[g] \in Int
    BY <1>1, <1>2, <1>12
  <2> QED
    BY <1>7, <1>12, <2>1, MachineParts
<1> QED
  BY <1>4, <1>13 DEF Returned
-----------------------------------------------------------------------------
(* The interpreter.                                                         *)
LEMMA KeysDiffer ==
  /\ IL!CALL \in Keys
  /\ \A k \in Nat : IL!ALLOCA(k) \in Keys /\ IL!REG(k) \in Keys
                    /\ IL!ALLOCA(k) # IL!CALL /\ IL!REG(k) # IL!CALL
  /\ \A k, l \in Nat : /\ IL!ALLOCA(k) = IL!ALLOCA(l) => k = l
                       /\ IL!REG(k) = IL!REG(l) => k = l
                       /\ IL!ALLOCA(k) # IL!REG(l)
BY DEF IL!CALL, IL!ALLOCA, IL!REG, Keys

LEMMA InterpParts ==
  ASSUME NEW i \in Interp
  PROVE  /\ i.stack \in Seq(Byte) /\ i.locals \in Seq(Registers) /\ i.retVal \in Word
         /\ Len(i.stack) \in Nat /\ Len(i.locals) \in Nat
         /\ \A d \in 1..Len(i.locals) : i.locals[d] \in Registers
BY LenProperties, ElementOfSeq DEF Interp

(* w is i with one register of the running function set.                      *)
RegisterSet(i, w, key, v) ==
  /\ w \in Interp /\ w.stack = i.stack /\ w.retVal = i.retVal /\ w.failed = i.failed
  /\ Len(w.locals) = Len(i.locals)
  /\ \A d \in 1..Len(i.locals) - 1 : w.locals[d] = i.locals[d]
  /\ DOMAIN w.locals[Len(i.locals)] = DOMAIN i.locals[Len(i.locals)] \cup {key}
  /\ w.locals[Len(i.locals)][key] = v
  /\ \A x \in DOMAIN i.locals[Len(i.locals)] :
       x # key => w.locals[Len(i.locals)][x] = i.locals[Len(i.locals)][x]

LEMMA SetEffect ==
  ASSUME NEW i \in Interp, i.locals # <<>>, NEW key \in Keys, NEW v \in Word
  PROVE  RegisterSet(i, IL!set(i, key, v), key, v)
<1> DEFINE n == Len(i.locals)
           old == i.locals[n]
           new == [x \in DOMAIN old \cup {key} |-> IF x = key THEN v ELSE old[x]]
           ls == [i.locals EXCEPT ![n] = new]
<1>1. i.locals \in Seq(Registers) /\ n \in Nat \ {0} /\ n \in 1..n /\ old \in Registers
  BY InterpParts, EmptySeq
<1>2. PICK K \in SUBSET Keys : old \in [K -> Word]
  BY <1>1 DEF Registers
<1>3. new \in [K \cup {key} -> Word] /\ K \cup {key} \in SUBSET Keys
  <2> HIDE DEF old
  <2> QED
    BY <1>2
<1>4. new \in Registers
  BY <1>3 DEF Registers
<1>5. /\ DOMAIN new = DOMAIN old \cup {key} /\ new[key] = v
      /\ \A x \in DOMAIN old : x # key => new[x] = old[x]
  OBVIOUS
<1> HIDE DEF new
<1>6. ls \in Seq(Registers) /\ Len(ls) = n /\ ls[n] = new /\ \A d \in 1..n - 1 : ls[d] = i.locals[d]
  BY <1>1, <1>4, ExceptSeq
<1>7. IL!set(i, key, v) = [i EXCEPT !.locals = ls]
  BY DEF IL!set, new
<1> HIDE DEF ls, old
<1>8. /\ [i EXCEPT !.locals = ls] \in Interp /\ [i EXCEPT !.locals = ls].locals = ls
      /\ [i EXCEPT !.locals = ls].stack = i.stack /\ [i EXCEPT !.locals = ls].retVal = i.retVal
      /\ [i EXCEPT !.locals = ls].failed = i.failed
  BY <1>6 DEF Interp
<1> QED
  BY <1>5, <1>6, <1>7, <1>8 DEF RegisterSet, old, n

(* Bytes. *)
LEMMA BytesAreBytes ==
  /\ IL!Zero \in Byte
  /\ \A v \in Word, j \in 1..8 : <<v, j>> \in Byte
BY WordsAreWords DEF IL!Zero, Byte

LEMMA ResizeEffect ==
  ASSUME NEW s \in Seq(Byte), NEW n \in Nat, Len(s) <= n
  PROVE  /\ IL!resize(s, n) \in Seq(Byte) /\ Len(IL!resize(s, n)) = n
         /\ \A x \in 1..Len(s) : IL!resize(s, n)[x] = s[x]
<1> DEFINE t == [x \in 1..n |-> IF x <= Len(s) THEN s[x] ELSE IL!Zero]
<1>1. Len(s) \in Nat
  BY LenProperties
<1>2. \A x \in 1..n : x <= Len(s) => s[x] \in Byte
  <2> TAKE x \in 1..n
  <2>1. x <= Len(s) => x \in 1..Len(s)
    BY <1>1
  <2> QED
    BY <2>1, ElementOfSeq
<1>3. t \in [1..n -> Byte] /\ \A x \in 1..Len(s) : t[x] = s[x]
  <2>1. IL!Zero \in Byte
    BY BytesAreBytes
  <2> QED
    BY <1>1, <1>2, <2>1
<1>4. IL!resize(s, n) = t
  BY DEF IL!resize
<1> HIDE DEF t
<1> QED
  BY <1>3, <1>4

(* Memory::alloc makes the stack larger by numBytes.                         *)
Allocated(i, w, k, numBytes) ==
  /\ w \in Interp /\ w.retVal = i.retVal
  /\ Len(w.stack) = Len(i.stack) + numBytes
  /\ \A a \in 1..Len(i.stack) : w.stack[a] = i.stack[a]
  /\ Len(w.locals) = Len(i.locals)
  /\ \A d \in 1..Len(i.locals) - 1 : w.locals[d] = i.locals[d]
  /\ DOMAIN w.locals[Len(i.locals)] = DOMAIN i.locals[Len(i.locals)] \cup {IL!ALLOCA(k)}
  /\ w.locals[Len(i.locals)][IL!ALLOCA(k)][2] = Len(i.stack)
  /\ \A x \in DOMAIN i.locals[Len(i.locals)] :
       x # IL!ALLOCA(k) => w.locals[Len(i.locals)][x] = i.locals[Len(i.locals)][x]

LEMMA AllocaEffect ==
  ASSUME NEW i \in Interp, i.locals # <<>>, NEW k \in Nat, NEW numBytes \in Nat
  PROVE  Allocated(i, IL!Alloca(i, k, numBytes), k, numBytes)
<1> DEFINE v == <<"address", Len(i.stack), 0>>
           s == IL!set(i, IL!ALLOCA(k), v)
           n == Len(i.stack) + numBytes
           st == IL!resize(s.stack, n)
           fl == s.failed \/ numBytes = 0 \/ n >= heapStart
           w == [s EXCEPT !.stack = st, !.failed = fl]
<1>1. i.stack \in Seq(Byte) /\ Len(i.stack) \in Nat /\ IL!ALLOCA(k) \in Keys
  BY InterpParts, KeysDiffer
<1>2. v \in Word /\ v[2] = Len(i.stack)
  <2>1. Len(i.stack) \in Int /\ "address" \in Kinds /\ 0 \in Int \cup Fun
    BY <1>1 DEF Kinds
  <2> QED
    BY <2>1, WordsAreWords
<1>3. IL!Alloca(i, k, numBytes) = w
  BY DEF IL!Alloca
<1> HIDE DEF v
<1>4. RegisterSet(i, s, IL!ALLOCA(k), v)
  BY <1>1, <1>2, SetEffect
<1> HIDE DEF s
<1>5. s \in Interp /\ s.stack = i.stack
  BY <1>4 DEF RegisterSet
<1>6. n \in Nat /\ Len(s.stack) <= n /\ fl \in BOOLEAN
  BY <1>1, <1>5
<1> HIDE DEF n, fl
<1>7. /\ st \in Seq(Byte) /\ Len(st) = n
      /\ \A a \in 1..Len(i.stack) : st[a] = i.stack[a]
  BY <1>1, <1>5, <1>6, ResizeEffect
<1> HIDE DEF st
<1>8. w \in Interp /\ w.stack = st /\ w.locals = s.locals /\ w.retVal = s.retVal
  BY <1>5, <1>6, <1>7 DEF Interp
<1> HIDE DEF w
<1>9. Len(w.stack) = Len(i.stack) + numBytes
  BY <1>7, <1>8 DEF n
<1> QED
  BY <1>2, <1>3, <1>4, <1>7, <1>8, <1>9 DEF RegisterSet, Allocated

(* Memory::write puts eight bytes at address a, and makes the stack larger if  *)
(* it ends before.                                                          *)
Stored(i, w, a, v) ==
  /\ w \in Interp /\ w.locals = i.locals /\ w.retVal = i.retVal
  /\ Len(w.stack) >= Len(i.stack) /\ Len(w.stack) >= a + 8
  /\ \A j \in 1..8 : w.stack[a + j] = <<v, j>>
  /\ \A x \in 1..Len(i.stack) : x \notin (a + 1)..(a + 8) => w.stack[x] = i.stack[x]

LEMMA StoreEffect ==
  ASSUME NEW i \in Interp, NEW k, NEW v \in Word,
         NEW a, a = IL!get(i, IL!ALLOCA(k))[2], a \in 0..Len(i.stack)
  PROVE  Stored(i, IL!Store(i, k, v), a, v)
<1> DEFINE end == IF a + 8 > Len(i.stack) THEN a + 8 ELSE Len(i.stack)
           grown == IL!resize(i.stack, end)
           st == [x \in 1..end |-> IF x \in (a + 1)..(a + 8) THEN <<v, x - a>> ELSE grown[x]]
           w == [i EXCEPT !.stack = st]
<1>1. i.stack \in Seq(Byte) /\ Len(i.stack) \in Nat /\ a \in Nat
  BY InterpParts
<1>2. IL!Store(i, k, v) = w
  BY DEF IL!Store, IL!address, IL!memSize
<1>3. end \in Nat /\ Len(i.stack) <= end /\ a + 8 <= end
  BY <1>1
<1> HIDE DEF end
<1>4. /\ grown \in Seq(Byte) /\ Len(grown) = end
      /\ \A x \in 1..Len(i.stack) : grown[x] = i.stack[x]
  BY <1>1, <1>3, ResizeEffect
<1> HIDE DEF grown
<1>5. st \in [1..end -> Byte]
  <2>1. \A x \in 1..end : grown[x] \in Byte
    BY <1>4, ElementOfSeq
  <2>2. \A x \in (a + 1)..(a + 8) : x - a \in 1..8 /\ <<v, x - a>> \in Byte
    <3>1. \A x \in (a + 1)..(a + 8) : x - a \in 1..8
      <4>1. a \in Nat
        BY <1>1
      <4> QED
        BY ONLY <4>1
    <3> QED
      BY <3>1, BytesAreBytes
  <2> QED
    BY <2>1, <2>2
<1>6. \A j \in 1..8 : st[a + j] = <<v, j>>
  <2>1. \A j \in 1..8 : a + j \in 1..end /\ a + j \in (a + 1)..(a + 8) /\ (a + j) - a = j
    BY <1>1, <1>3
  <2> QED
    BY <2>1
<1>7. \A x \in 1..Len(i.stack) : x \notin (a + 1)..(a + 8) => st[x] = i.stack[x]
  BY <1>1, <1>3, <1>4
<1> HIDE DEF st
<1>8. st \in Seq(Byte) /\ Len(st) = end
  BY <1>3, <1>5
<1>9. w \in Interp /\ w.stack = st /\ w.locals = i.locals /\ w.retVal = i.retVal
  BY <1>8 DEF Interp
<1> QED
  BY <1>2, <1>3, <1>6, <1>7, <1>8, <1>9 DEF Stored

(* A call has registers of its own, with the addresses of its parameters, which *)
(* are behind all that was on the stack.                                     *)
Entered(i, w, n, args) ==
  /\ w \in Interp /\ w.retVal = i.retVal
  /\ Len(w.stack) >= Len(i.stack)
  /\ \A a \in 1..Len(i.stack) : w.stack[a] = i.stack[a]
  /\ Len(w.locals) = Len(i.locals) + 1
  /\ \A d \in 1..Len(i.locals) : w.locals[d] = i.locals[d]
  /\ DOMAIN w.locals[Len(i.locals) + 1] = {IL!ALLOCA(k) : k \in 1..n}
  /\ \A k \in 1..n : \E a \in Nat :
       /\ w.locals[Len(i.locals) + 1][IL!ALLOCA(k)][2] = a
       /\ Len(i.stack) <= a /\ a + 8 <= Len(w.stack)
       /\ \A j \in 1..8 : w.stack[a + j] = <<args[k], j>>

\* One more parameter is allocated and stored.
Passes(i, k, numBytes, v) == IL!Store(IL!Alloca(i, k, numBytes), k, v)
Opens(i) == [i EXCEPT !.locals = Append(@, [x \in {} |-> IL!Undefined])]

LEMMA OpensEffect == ASSUME NEW i \in Interp, NEW args PROVE Entered(i, Opens(i), 0, args)
<1> DEFINE regs == [x \in {} |-> IL!Undefined]
           ls == Append(i.locals, regs)
           w == [i EXCEPT !.locals = ls]
<1>1. i.locals \in Seq(Registers) /\ i.stack \in Seq(Byte) /\ Len(i.stack) \in Nat /\ Len(i.locals) \in Nat
  BY InterpParts
<1>2. regs \in [{} -> Word] /\ {} \in SUBSET Keys
  OBVIOUS
<1>3. regs \in Registers /\ DOMAIN regs = {}
  BY <1>2 DEF Registers
<1>4. Opens(i) = w
  BY DEF Opens
<1> HIDE DEF regs
<1>5. /\ ls \in Seq(Registers) /\ Len(ls) = Len(i.locals) + 1 /\ ls[Len(i.locals) + 1] = regs
      /\ \A d \in 1..Len(i.locals) : ls[d] = i.locals[d]
  BY <1>1, <1>3, AppendProperties
<1> HIDE DEF ls
<1>6. w \in Interp /\ w.stack = i.stack /\ w.locals = ls /\ w.retVal = i.retVal
  BY <1>5 DEF Interp
<1> HIDE DEF w
<1>7. 1..0 = {} /\ {IL!ALLOCA(k) : k \in 1..0} = {}
  OBVIOUS
<1>8. Len(w.stack) >= Len(i.stack)
  BY <1>1, <1>6
<1> QED
  BY <1>3, <1>4, <1>5, <1>6, <1>7, <1>8 DEF Entered

LEMMA PassesEffect ==
  ASSUME NEW i \in Interp, NEW n \in Nat \ {0}, NEW w, NEW args, Entered(i, w, n - 1, args),
         NEW numBytes \in Nat, args[n] \in Word
  PROVE  Entered(i, Passes(w, n, numBytes, args[n]), n, args)
<1> DEFINE E == Len(i.locals) + 1
           b == Len(w.stack)
           v == args[n]
<1>1. /\ w \in Interp /\ Len(w.locals) = E /\ E \in Nat \ {0} /\ b \in Nat /\ Len(i.stack) \in Nat
      /\ w.locals # <<>> /\ Len(i.locals) \in Nat /\ Len(i.stack) <= b
  <2>1. w \in Interp /\ Len(w.locals) = E /\ Len(i.stack) <= b
    BY InterpParts DEF Entered
  <2>2. E \in Nat \ {0} /\ Len(i.locals) \in Nat /\ Len(i.stack) \in Nat /\ b \in Nat
    BY <2>1, InterpParts
  <2> QED
    BY <2>1, <2>2, EmptySeq
<1>2. PICK q : q = IL!Alloca(w, n, numBytes)
  OBVIOUS
<1>3. Allocated(w, q, n, numBytes)
  BY <1>1, <1>2, AllocaEffect
<1>4. PICK u : u = Passes(w, n, numBytes, v)
  OBVIOUS
<1>5. Stored(q, u, b, v)
  <2>1. q \in Interp /\ v \in Word /\ Len(q.locals) = E /\ Len(q.stack) = b + numBytes
    BY <1>1, <1>3 DEF Allocated
  <2>2. b = IL!get(q, IL!ALLOCA(n))[2]
    BY <1>1, <1>3, <2>1 DEF Allocated, IL!get, IL!Locals
  <2>3. b \in 0..Len(q.stack)
    BY <1>1, <2>1
  <2>4. u = IL!Store(q, n, v)
    BY <1>2, <1>4 DEF Passes
  <2> HIDE DEF b, v
  <2> QED
    BY <2>1, <2>2, <2>3, <2>4, StoreEffect
<1> HIDE DEF E, b, v
<1>6. /\ u \in Interp /\ u.locals = q.locals /\ u.retVal = q.retVal
      /\ Len(u.stack) >= Len(q.stack) /\ Len(u.stack) >= b + 8
      /\ \A j \in 1..8 : u.stack[b + j] = <<v, j>>
      /\ \A x \in 1..Len(q.stack) : x \notin (b + 1)..(b + 8) => u.stack[x] = q.stack[x]
  BY <1>5 DEF Stored
<1>7. /\ q.retVal = w.retVal /\ Len(q.stack) = b + numBytes
      /\ \A a \in 1..b : q.stack[a] = w.stack[a]
      /\ Len(q.locals) = E
      /\ \A d \in 1..E - 1 : q.locals[d] = w.locals[d]
      /\ DOMAIN q.locals[E] = DOMAIN w.locals[E] \cup {IL!ALLOCA(n)}
      /\ q.locals[E][IL!ALLOCA(n)][2] = b
      /\ \A x \in DOMAIN w.locals[E] : x # IL!ALLOCA(n) => q.locals[E][x] = w.locals[E][x]
  BY <1>1, <1>3 DEF Allocated, b
<1>8. /\ w.retVal = i.retVal
      /\ \A a \in 1..Len(i.stack) : w.stack[a] = i.stack[a]
      /\ \A d \in 1..Len(i.locals) : w.locals[d] = i.locals[d]
      /\ DOMAIN w.locals[E] = {IL!ALLOCA(k) : k \in 1..n - 1}
      /\ \A k \in 1..n - 1 : \E a \in Nat :
           /\ w.locals[E][IL!ALLOCA(k)][2] = a
           /\ Len(i.stack) <= a /\ a + 8 <= b
           /\ \A j \in 1..8 : w.stack[a + j] = <<args[k], j>>
  BY DEF Entered, E, b
<1>9. Len(u.stack) \in Nat /\ Len(u.stack) >= b + 8 /\ Len(u.stack) >= Len(i.stack)
  <2>1. Len(u.stack) \in Nat /\ Len(u.stack) >= b + 8
    BY <1>6, InterpParts
  <2>2. b \in Nat /\ Len(i.stack) \in Nat /\ Len(i.stack) <= b
    BY <1>1 DEF b
  <2> QED
    BY ONLY <2>1, <2>2
<1>10. ASSUME NEW x \in 1..b PROVE u.stack[x] = w.stack[x]
  <2>1. x \in 1..Len(q.stack) /\ x \notin (b + 1)..(b + 8)
    BY <1>1, <1>7
  <2> QED
    BY <1>6, <1>7, <2>1
<1>11. \A a \in 1..Len(i.stack) : u.stack[a] = i.stack[a]
  <2>1. \A a \in 1..Len(i.stack) : a \in 1..b
    BY <1>1
  <2> QED
    BY <1>8, <1>10, <2>1
<1>12. Len(u.locals) = Len(i.locals) + 1 /\ \A d \in 1..Len(i.locals) : u.locals[d] = i.locals[d]
  <2>1. \A d \in 1..Len(i.locals) : d \in 1..E - 1
    BY <1>1 DEF E
  <2> QED
    BY <1>6, <1>7, <1>8, <2>1 DEF E
<1>13. \A k \in 1..n : k \in 1..n - 1 \/ k = n
  OBVIOUS
<1>14. DOMAIN u.locals[E] = {IL!ALLOCA(k) : k \in 1..n}
  <2>1. \A k \in 1..n - 1 : k \in 1..n
    OBVIOUS
  <2>2. n \in 1..n
    OBVIOUS
  <2>3. DOMAIN u.locals[E] = {IL!ALLOCA(k) : k \in 1..n - 1} \cup {IL!ALLOCA(n)}
    BY <1>6, <1>7, <1>8
  <2> QED
    BY <1>13, <2>1, <2>2, <2>3
<1>15. ASSUME NEW k \in 1..n
       PROVE  \E a \in Nat : /\ u.locals[E][IL!ALLOCA(k)][2] = a
                             /\ Len(i.stack) <= a /\ a + 8 <= Len(u.stack)
                             /\ \A j \in 1..8 : u.stack[a + j] = <<args[k], j>>
  <2>1. CASE k = n
    <3>1. u.locals[E][IL!ALLOCA(k)][2] = b /\ \A j \in 1..8 : u.stack[b + j] = <<args[k], j>>
      BY <1>6, <1>7, <2>1 DEF v
    <3> QED
      BY <1>1, <1>9, <3>1
  <2>2. CASE k \in 1..n - 1
    <3>1. PICK a \in Nat : /\ w.locals[E][IL!ALLOCA(k)][2] = a
                           /\ Len(i.stack) <= a /\ a + 8 <= b
                           /\ \A j \in 1..8 : w.stack[a + j] = <<args[k], j>>
      BY <1>8, <2>2
    <3>2. IL!ALLOCA(k) # IL!ALLOCA(n) /\ IL!ALLOCA(k) \in DOMAIN w.locals[E]
      <4>1. k \in Nat /\ n \in Nat /\ k # n
        BY <2>2
      <4> QED
        BY <1>8, <2>2, <4>1, KeysDiffer
    <3>3. u.locals[E][IL!ALLOCA(k)] = w.locals[E][IL!ALLOCA(k)]
      BY <1>6, <1>7, <3>2
    <3>4. \A j \in 1..8 : a + j \in 1..b
      BY <1>1, <3>1
    <3>5. \A j \in 1..8 : u.stack[a + j] = <<args[k], j>>
      BY <1>10, <3>1, <3>4
    <3>6. a + 8 <= Len(u.stack)
      <4>1. b \in Nat /\ Len(u.stack) \in Nat /\ Len(u.stack) >= b + 8 /\ a \in Nat /\ a + 8 <= b
        BY <1>1, <1>9, <3>1 DEF b
      <4> QED
        BY ONLY <4>1
    <3> QED
      BY <3>1, <3>3, <3>5, <3>6
  <2> QED
    BY <1>13, <2>1, <2>2
<1>16. Len(u.stack) >= Len(i.stack) /\ u \in Interp /\ u.retVal = i.retVal
  BY <1>6, <1>7, <1>8, <1>9
<1>17. Entered(i, u, n, args)
  BY <1>11, <1>12, <1>14, <1>15, <1>16 DEF Entered, E
<1> QED
  BY <1>4, <1>17 DEF v

\* The function that Enter defines recursively exists, and ends with a call entered.
Fills(i, args, numBytes, n, t) ==
  /\ DOMAIN t = 0..n /\ t[0] = Opens(i)
  /\ \A k \in 1..n : t[k] = Passes(t[k - 1], k, numBytes[k], args[k])

LEMMA HasFills ==
  ASSUME NEW i, NEW args, NEW numBytes, NEW m \in Nat
  PROVE  \E t : t = [k \in 0..m |-> t[k]] /\ Fills(i, args, numBytes, m, t)
<1> DEFINE Fill(n, t) == t = [k \in 0..n |-> t[k]] /\ Fills(i, args, numBytes, n, t)
           Bad == {n \in 0..m : ~\E t : Fill(n, t)}
           R == OpToRel(<, Nat)
<1>1. ASSUME Bad # {} PROVE FALSE
  <2>1. Bad \subseteq Nat
    OBVIOUS
  <2> HIDE DEF Bad
  <2>2. PICK n \in Bad : \A y \in Bad : ~(<<y, n>> \in R)
    BY <1>1, <2>1, NatLessThanWellFounded, WFMin
  <2>3. \A y \in Bad : ~(y < n)
    BY <2>1, <2>2 DEF OpToRel
  <2> USE DEF Bad
  <2>4. n \in 0..m /\ ~\E t : Fill(n, t)
    BY <2>2
  <2>5. n # 0
    <3>1. PICK t : t = [k \in 0..0 |-> Opens(i)]
      OBVIOUS
    <3>2. DOMAIN t = 0..0 /\ t[0] = Opens(i) /\ t = [k \in 0..0 |-> t[k]] /\ 1..0 = {}
      BY <3>1
    <3>3. Fill(0, t)
      BY <3>2 DEF Fills
    <3> QED
      BY <2>4, <3>3
  <2>6. n - 1 \in 0..m /\ n \in Nat /\ n - 1 \in Nat /\ n - 1 < n
    BY <2>4, <2>5
  <2>7. PICK t : Fill(n - 1, t)
    BY <2>3, <2>6
  <2>8. PICK u : u = [k \in 0..n |-> IF k = n THEN Passes(t[n - 1], n, numBytes[n], args[n]) ELSE t[k]]
    OBVIOUS
  <2>9. DOMAIN u = 0..n /\ u = [k \in 0..n |-> u[k]]
    BY <2>8
  <2>10. u[0] = Opens(i)
    <3>1. 0 \in 0..n /\ 0 # n
      BY <2>5, <2>6
    <3> QED
      BY <2>7, <2>8, <3>1 DEF Fills
  <2>11. ASSUME NEW k \in 1..n PROVE u[k] = Passes(u[k - 1], k, numBytes[k], args[k])
    <3>1. k \in 0..n /\ k - 1 \in 0..n /\ k - 1 # n
      BY <2>6
    <3>2. u[k - 1] = t[k - 1]
      BY <2>8, <3>1
    <3>3. CASE k = n
      BY <2>8, <3>1, <3>2, <3>3
    <3>4. CASE k # n
      <4>1. k \in 1..n - 1
        BY <2>6, <3>4
      <4>2. u[k] = t[k]
        BY <2>8, <3>1, <3>4
      <4> QED
        BY <2>7, <3>2, <4>1, <4>2 DEF Fills
    <3> QED
      BY <3>3, <3>4
  <2>12. Fill(n, u)
    BY <2>9, <2>10, <2>11 DEF Fills
  <2> QED
    BY <2>4, <2>12
<1>2. m \in 0..m /\ m \notin Bad
  BY <1>1
<1> QED
  BY <1>2

LEMMA EnterEffect ==
  ASSUME NEW i \in Interp, NEW n \in Nat, NEW args \in [1..n -> Word], NEW numBytes,
         \A k \in 1..n : numBytes[k] \in Nat
  PROVE  Entered(i, IL!Enter(i, args, numBytes), n, args)
<1> DEFINE Eqn(t) == t = [k \in 0..Len(args) |-> IF k = 0 THEN Opens(i)
                                                ELSE Passes(t[k - 1], k, numBytes[k], args[k])]
           entered == CHOOSE t : Eqn(t)
           Bad == {k \in 0..n : ~Entered(i, entered[k], k, args)}
           R == OpToRel(<, Nat)
<1>1. Len(args) = n
  OBVIOUS
<1>2. PICK t : t = [k \in 0..n |-> t[k]] /\ Fills(i, args, numBytes, n, t)
  BY HasFills
<1>3. Eqn(t)
  <2>1. \A k \in 0..n : t[k] = IF k = 0 THEN Opens(i) ELSE Passes(t[k - 1], k, numBytes[k], args[k])
    <3>1. \A k \in 0..n : k = 0 \/ k \in 1..n
      OBVIOUS
    <3> QED
      BY <1>2, <3>1 DEF Fills
  <2> QED
    BY <1>1, <1>2, <2>1
<1>4. Eqn(entered)
  BY <1>3
<1>5. IL!Enter(i, args, numBytes) = entered[n]
  BY <1>1 DEF IL!Enter, Opens, Passes
<1>6. \A k \in 0..n : entered[k] = IF k = 0 THEN Opens(i)
                                   ELSE Passes(entered[k - 1], k, numBytes[k], args[k])
  <2> HIDE DEF entered
  <2> QED
    BY <1>1, <1>4
<1> HIDE DEF entered, Eqn
<1>7. ASSUME Bad # {} PROVE FALSE
  <2>1. Bad \subseteq Nat
    OBVIOUS
  <2> HIDE DEF Bad
  <2>2. PICK k \in Bad : \A y \in Bad : ~(<<y, k>> \in R)
    BY <1>7, <2>1, NatLessThanWellFounded, WFMin
  <2>3. \A y \in Bad : ~(y < k)
    BY <2>1, <2>2 DEF OpToRel
  <2> USE DEF Bad
  <2>4. k \in 0..n /\ ~Entered(i, entered[k], k, args)
    BY <2>2
  <2>5. k # 0
    <3>1. 0 \in 0..n
      OBVIOUS
    <3>2. Entered(i, entered[0], 0, args)
      BY <1>6, <3>1, OpensEffect
    <3> QED
      BY <2>4, <3>2
  <2>6. k - 1 \in 0..n /\ k \in 1..n /\ k - 1 < k /\ k \in Nat \ {0}
    BY <2>4, <2>5
  <2>7. Entered(i, entered[k - 1], k - 1, args)
    BY <2>3, <2>6
  <2>8. entered[k] = Passes(entered[k - 1], k, numBytes[k], args[k])
    BY <1>6, <2>4, <2>5
  <2>9. args[k] \in Word /\ numBytes[k] \in Nat
    BY <2>6
  <2> HIDE DEF Bad
  <2> QED
    BY <2>4, <2>6, <2>7, <2>8, <2>9, PassesEffect
<1>8. n \in 0..n
  OBVIOUS
<1> QED
  BY <1>5, <1>7, <1>8

LEMMA NoteEffect ==
  ASSUME NEW i \in Interp, NEW v \in Word
  PROVE  /\ IL!Note(i, v) \in Interp /\ IL!Note(i, v).retVal = v
         /\ IL!Note(i, v).stack = i.stack /\ IL!Note(i, v).locals = i.locals
BY DEF IL!Note, Interp

(* A return to a caller drops the registers of the callee and sets that of the *)
(* call.                                                                    *)
Back(i, w, n) ==
  /\ w \in Interp /\ w.stack = i.stack
  /\ Len(w.locals) = n
  /\ \A d \in 1..n - 1 : w.locals[d] = i.locals[d]
  /\ DOMAIN w.locals[n] = DOMAIN i.locals[n] \cup {IL!CALL}
  /\ w.locals[n][IL!CALL] = i.retVal
  /\ \A x \in DOMAIN i.locals[n] : x # IL!CALL => w.locals[n][x] = i.locals[n][x]

LEMMA ReturnEffect ==
  ASSUME NEW i \in Interp, NEW n \in Nat \ {0}, Len(i.locals) = n + 1
  PROVE  Back(i, IL!Leave(i), n)
<1> DEFINE ls == SubSeq(i.locals, 1, Len(i.locals) - 1)
           b == [i EXCEPT !.locals = ls]
<1>1. i.locals \in Seq(Registers) /\ Len(i.locals) - 1 = n /\ n \in Int /\ 1 \in Int
      /\ \A d \in 1..n : i.locals[d] \in Registers
  BY InterpParts
<1>2. /\ ls \in Seq(Registers) /\ Len(ls) = n
      /\ \A d \in 1..n : ls[d] = i.locals[d]
  <2>1. /\ SubSeq(i.locals, 1, n) \in Seq(Registers)
        /\ Len(SubSeq(i.locals, 1, n)) = IF 1 <= n THEN n - 1 + 1 ELSE 0
        /\ \A d \in 1..n - 1 + 1 : SubSeq(i.locals, 1, n)[d] = i.locals[1 + d - 1]
    BY <1>1, SubSeqProperties
  <2>2. \A d \in 1..n : d \in 1..n - 1 + 1 /\ 1 + d - 1 = d
    OBVIOUS
  <2> QED
    BY <1>1, <2>1, <2>2
<1>3. ls # <<>>
  BY <1>2, EmptySeq
<1> HIDE DEF ls
<1>4. b \in Interp /\ b.locals = ls /\ b.stack = i.stack /\ b.retVal = i.retVal
  BY <1>2 DEF Interp
<1>5. b.retVal \in Word /\ IL!CALL \in Keys
  BY <1>4, InterpParts, KeysDiffer
<1>6. IL!Leave(i) = IL!set(b, IL!CALL, b.retVal)
  <2>1. IL!Leave(i) = IF b.locals = <<>> THEN [b EXCEPT !.failed = @ \/ b.retVal = IL!Undefined]
                      ELSE IL!set(b, IL!CALL, b.retVal)
    BY DEF IL!Leave, ls
  <2> QED
    BY <1>3, <1>4, <2>1
<1> HIDE DEF b
<1>7. RegisterSet(b, IL!Leave(i), IL!CALL, b.retVal)
  BY <1>3, <1>4, <1>5, <1>6, SetEffect
<1>8. n \in 1..n /\ \A d \in 1..n - 1 : d \in 1..n
  BY <1>1
<1> QED
  BY <1>2, <1>4, <1>7, <1>8 DEF RegisterSet, Back
-----------------------------------------------------------------------------
(* Calls and their frames.                                                  *)
LEMMA CallTypes ==
  ASSUME NEW cs \in Seq(ActivationType), NEW d \in 1..Len(cs)
  PROVE  /\ cs[d] \in ActivationType /\ d \in Nat /\ Len(cs) \in Nat
         /\ cs[d].fun \in Fun /\ cs[d].BP \in Int /\ cs[d].SP \in Int
         /\ cs[d].stored \subseteq Nat /\ cs[d].written \subseteq Nat /\ cs[d].kept \subseteq Nat
         /\ cs[d].lost \subseteq Nat
         /\ cs[d].spoiled \subseteq 1..NumRegs /\ cs[d].answered \in BOOLEAN
<1>1. cs[d] \in ActivationType /\ Len(cs) \in Nat
  BY ElementOfSeq, LenProperties
<1> QED
  BY <1>1 DEF ActivationType

LEMMA FrameSizes ==
  ASSUME Layout, NEW g \in Fun
  PROVE  /\ FrameSize(g) \in Nat /\ numArgs[g] \in Nat /\ used[g] \in 0..NumRegs /\ NumRegs \in Nat
         /\ \A r \in 1..used[g] : SaveSlot(g, r) \in 1..FrameSize(g)
         /\ \A r \in Nat : SaveSlot(g, r) \in Nat
         /\ \A k \in 1..Len(offsets[g]) : Slot(g, k) \in Nat \ {0}
<1>1. /\ FrameSize(g) \in Nat /\ numArgs[g] \in Nat /\ used[g] \in 0..NumRegs /\ NumRegs \in Nat
      /\ getStackSize(g) \in Nat /\ FrameSize(g) = getStackSize(g) + used[g]
      /\ \A k \in 1..Len(offsets[g]) : Slot(g, k) \in Nat \ {0}
      /\ \A r : SaveSlot(g, r) = getStackSize(g) + r
  BY Sizes
<1>2. ASSUME NEW r \in 1..used[g] PROVE SaveSlot(g, r) \in 1..FrameSize(g)
  <2>1. SaveSlot(g, r) = getStackSize(g) + r
    BY <1>1
  <2> QED
    BY <1>1, <2>1
<1>3. ASSUME NEW r \in Nat PROVE SaveSlot(g, r) \in Nat
  <2>1. SaveSlot(g, r) = getStackSize(g) + r
    BY <1>1
  <2> QED
    BY <1>1, <2>1
<1> QED
  BY <1>1, <1>2, <1>3

(* The words of the frame of call d, and the two above it, are not below the  *)
(* stack pointer of the machine; those of callers are above the two words of  *)
(* the running call.                                                        *)
LEMMA FramesAreAbove ==
  ASSUME Layout, NEW cs \in Seq(ActivationType), NEW m, Chain(cs, m), NEW d \in 1..Len(cs)
  PROVE  /\ m.BP = cs[Len(cs)].BP /\ m.SP = cs[Len(cs)].SP
         /\ cs[d].SP = cs[d].BP - FrameSize(cs[d].fun)
         /\ cs[d].SP <= cs[d].BP /\ m.SP <= cs[d].SP
         /\ d < Len(cs) => m.BP + 1 < cs[d].SP
         /\ Len(cs) \in 1..Len(cs)
         /\ m.SP \in Int /\ m.BP \in Int
<1> DEFINE D == Len(cs)
<1>1. D \in Nat /\ d \in Nat /\ d <= D /\ 1 <= d
  BY LenProperties
<1>2. D \in 1..D /\ cs # <<>>
  BY <1>1, EmptySeq
<1>3. /\ cs[d].SP \in Int /\ cs[d].BP \in Int /\ FrameSize(cs[d].fun) \in Nat
  BY CallTypes, FrameSizes
<1>4. /\ cs[D].SP \in Int /\ cs[D].BP \in Int /\ FrameSize(cs[D].fun) \in Nat
  BY <1>2, CallTypes, FrameSizes
<1>5. /\ m.BP = cs[D].BP /\ m.SP = cs[D].SP
      /\ cs[d].SP = cs[d].BP - FrameSize(cs[d].fun)
      /\ cs[D].SP = cs[D].BP - FrameSize(cs[D].fun)
  BY <1>2 DEF Chain, Frame
<1>6. d < D => cs[D].BP + 1 < cs[d].SP
  BY <1>2 DEF Chain
<1> HIDE DEF D
<1>7. d = D \/ d < D
  BY <1>1
<1> QED
  BY <1>2, <1>3, <1>4, <1>5, <1>6, <1>7 DEF D

(* What is in the frame of call d: variables that are in it, saved registers. *)
LEMMA InFrame ==
  ASSUME Layout, NEW cs \in Seq(ActivationType), NEW m, Chain(cs, m), NEW d \in 1..Len(cs)
  PROVE  /\ \A k \in 1..Len(offsets[cs[d].fun]) :
              /\ cs[d].BP - Slot(cs[d].fun, k) \in Int
              /\ cs[d].BP - Slot(cs[d].fun, k) < cs[d].BP
              /\ Slot(cs[d].fun, k) <= FrameSize(cs[d].fun) => cs[d].SP <= cs[d].BP - Slot(cs[d].fun, k)
         /\ \A r \in 1..NumRegs : Uses(cs, d, r) =>
              /\ SaveAddress(cs, d, r) \in Int
              /\ cs[d].SP <= SaveAddress(cs, d, r) /\ SaveAddress(cs, d, r) < cs[d].BP
<1>1. cs[d].fun \in Fun /\ cs[d].BP \in Int /\ cs[d].SP \in Int
  BY CallTypes
<1>2. /\ FrameSize(cs[d].fun) \in Nat /\ NumRegs \in Nat /\ used[cs[d].fun] \in 0..NumRegs
      /\ \A r \in 1..used[cs[d].fun] : SaveSlot(cs[d].fun, r) \in 1..FrameSize(cs[d].fun)
      /\ \A k \in 1..Len(offsets[cs[d].fun]) : Slot(cs[d].fun, k) \in Nat \ {0}
  BY <1>1, FrameSizes
<1>3. cs[d].SP = cs[d].BP - FrameSize(cs[d].fun)
  BY FramesAreAbove
<1>4. ASSUME NEW k \in 1..Len(offsets[cs[d].fun])
      PROVE  /\ cs[d].BP - Slot(cs[d].fun, k) \in Int
             /\ cs[d].BP - Slot(cs[d].fun, k) < cs[d].BP
             /\ Slot(cs[d].fun, k) <= FrameSize(cs[d].fun) => cs[d].SP <= cs[d].BP - Slot(cs[d].fun, k)
  <2>1. Slot(cs[d].fun, k) \in Nat \ {0}
    BY <1>2
  <2> QED
    BY <1>1, <1>2, <1>3, <2>1
<1>5. ASSUME NEW r \in 1..NumRegs, Uses(cs, d, r)
      PROVE  /\ SaveAddress(cs, d, r) \in Int
             /\ cs[d].SP <= SaveAddress(cs, d, r) /\ SaveAddress(cs, d, r) < cs[d].BP
  <2>1. r \in 1..used[cs[d].fun]
    BY <1>2, <1>5 DEF Uses
  <2>2. SaveSlot(cs[d].fun, r) \in 1..FrameSize(cs[d].fun)
    BY <1>2, <2>1
  <2> QED
    BY <1>1, <1>2, <1>3, <2>2 DEF SaveAddress
<1> QED
  BY <1>4, <1>5
-----------------------------------------------------------------------------
(* Steps within a call: only what is known of the last call changes.        *)
Forgets(a, b, k) == b = [a EXCEPT !.stored = @ \ {k}, !.kept = @ \ {k}, !.lost = @ \ {k}]
Keeps(a, b, k, o) == b = [a EXCEPT !.stored = @ \cup {k}, !.kept = @ \cup {k}, !.written = @ \cup {k},
                                   !.lost = (@ \ {k}) \cup o]
Forsakes(a, b) == b = [a EXCEPT !.kept = {}, !.answered = FALSE]
Computes(a, b, r) == b = [a EXCEPT !.spoiled = @ \ {r}]
Puts(m, m2, r, v) == m2 = [m EXCEPT !.regs[r] = v]

SameCalls(cs, cs2) ==
  /\ cs2 \in Seq(ActivationType) /\ Len(cs2) = Len(cs)
  /\ \A d \in 1..Len(cs) : cs2[d].fun = cs[d].fun /\ cs2[d].BP = cs[d].BP /\ cs2[d].SP = cs[d].SP
  /\ \A d \in 1..Len(cs) - 1 : cs2[d] = cs[d]

\* Above the words that the running function writes nothing changes.
SameAbove(m, m2) ==
  /\ m2.BP = m.BP /\ m2.SP = m.SP
  /\ \A x \in Int : x >= m.BP /\ x \in DOMAIN m.ram => Holds(m2, x, m.ram[x])

LEMMA SameChain ==
  ASSUME Layout, NEW cs \in Seq(ActivationType), cs # <<>>, NEW cs2, SameCalls(cs, cs2),
         NEW m, NEW m2, Chain(cs, m), SameAbove(m, m2)
  PROVE  Chain(cs2, m2)
<1>1. Len(cs) \in Nat /\ Len(cs2) = Len(cs) /\ Len(cs) \in 1..Len(cs)
  BY LenProperties, EmptySeq DEF SameCalls
<1>2. ASSUME NEW d \in 1..Len(cs) PROVE Frame(cs2, d) /\ Linked(cs2, m2, d)
  <2>1. Frame(cs, d) /\ Linked(cs, m, d)
    BY DEF Chain
  <2>2. d > 1 => d - 1 \in 1..Len(cs)
    BY <1>1
  <2>3. /\ cs2[d].fun = cs[d].fun /\ cs2[d].BP = cs[d].BP /\ cs2[d].SP = cs[d].SP
        /\ d > 1 => cs2[d - 1].SP = cs[d - 1].SP /\ cs2[d - 1].BP = cs[d - 1].BP
    BY <2>2 DEF SameCalls
  <2>4. Frame(cs2, d)
    BY <2>1, <2>3 DEF Frame
  <2>5. cs[d].BP >= m.BP /\ cs[d].BP + 1 >= m.BP /\ cs[d].BP \in Int /\ cs[d].BP + 1 \in Int
    <3>1. /\ cs[d].BP \in Int /\ cs[d].SP \in Int /\ m.BP \in Int /\ cs[d].SP <= cs[d].BP
          /\ m.BP = cs[Len(cs)].BP
          /\ d < Len(cs) => m.BP + 1 < cs[d].SP
      BY CallTypes, FramesAreAbove
    <3>2. CASE d = Len(cs)
      BY <3>1, <3>2
    <3>3. CASE d < Len(cs)
      BY <3>1, <3>3
    <3> QED
      BY <1>1, <3>2, <3>3
  <2>6. \A c : /\ Holds(m, cs[d].BP, c) => Holds(m2, cs[d].BP, c)
               /\ Holds(m, cs[d].BP + 1, c) => Holds(m2, cs[d].BP + 1, c)
    BY <2>5 DEF SameAbove, Holds
  <2>7. d = 1 \/ d > 1
    BY <1>1
  <2> QED
    BY <2>1, <2>3, <2>4, <2>6, <2>7 DEF Linked
<1>3. \A d, e \in 1..Len(cs) : d < e => cs2[e].BP + 1 < cs2[d].SP
  BY DEF Chain, SameCalls
<1>4. m2.BP = cs2[Len(cs)].BP /\ m2.SP = cs2[Len(cs)].SP
  BY <1>1 DEF Chain, SameCalls, SameAbove
<1> QED
  BY <1>1, <1>2, <1>3, <1>4 DEF Chain

LEMMA SameHistory ==
  ASSUME NEW cs \in Seq(ActivationType), cs # <<>>, NEW cs2, SameCalls(cs, cs2), History(cs),
         NEW D, D = Len(cs),
         cs2[D].kept \subseteq cs2[D].stored, cs2[D].stored \subseteq cs2[D].written,
         cs2[D].written \subseteq 1..Len(offsets[cs[D].fun]), cs2[D].lost \subseteq cs2[D].stored
  PROVE  History(cs2)
<1>1. D \in Nat /\ Len(cs2) = D /\ D \in 1..D
  BY LenProperties, EmptySeq DEF SameCalls
<1>2. ASSUME NEW d \in 1..D
      PROVE  /\ cs2[d].kept \subseteq cs2[d].stored /\ cs2[d].stored \subseteq cs2[d].written
             /\ cs2[d].written \subseteq 1..Len(offsets[cs2[d].fun])
             /\ cs2[d].lost \subseteq cs2[d].stored
  <2>1. CASE d = D
    BY <2>1 DEF SameCalls
  <2>2. CASE d # D
    <3>1. d \in 1..D - 1
      BY <1>1, <2>2
    <3> QED
      BY <3>1 DEF SameCalls, History
  <2> QED
    BY <2>1, <2>2
<1> QED
  BY <1>1, <1>2 DEF History, SameCalls

(* What is known of a variable stays true if its word and its bytes do.      *)
SameBytes(i, i2, d, k) ==
  /\ AddressOf(i2, d, k) = AddressOf(i, d, k)
  /\ \A j \in 1..8 : i2.stack[AddressOf(i, d, k) + j] = i.stack[AddressOf(i, d, k) + j]

SameVariable(cs, cs2, m, m2, i, i2, d, k) ==
  /\ cs2[d].fun = cs[d].fun /\ cs2[d].BP = cs[d].BP
  /\ k \in cs2[d].lost <=> k \in cs[d].lost
  /\ SameBytes(i, i2, d, k)
  /\ \A w : Holds(m, cs[d].BP - Slot(cs[d].fun, k), w) => Holds(m2, cs[d].BP - Slot(cs[d].fun, k), w)

LEMMA VariableKept ==
  ASSUME NEW cs, NEW cs2, NEW m, NEW m2, NEW i, NEW i2, NEW d, NEW k,
         VariableAgrees(cs, m, i, d, k), SameVariable(cs, cs2, m, m2, i, i2, d, k)
  PROVE  VariableAgrees(cs2, m2, i2, d, k)
<1>1. PICK w \in Own(d, k) :
        /\ Holds(m, cs[d].BP - Slot(cs[d].fun, k), w)
        /\ IF k \in cs[d].lost THEN Clobbered(i, d, k) ELSE Reads(i, d, k, w)
  BY DEF VariableAgrees
<1>2. Reads(i, d, k, w) => Reads(i2, d, k, w)
  BY DEF Reads, SameVariable, SameBytes
<1>3. Clobbered(i, d, k) => Clobbered(i2, d, k)
  BY DEF Clobbered, SameVariable, SameBytes
<1>4. Holds(m2, cs2[d].BP - Slot(cs2[d].fun, k), w)
  BY <1>1 DEF SameVariable
<1> QED
  BY <1>1, <1>2, <1>3, <1>4 DEF VariableAgrees, SameVariable

(* Where eight bytes of a variable are on a stack that only grows. *)
LEMMA BytesKept ==
  ASSUME NEW i \in Interp, NEW i2, NEW d, NEW k, AddressOf(i2, d, k) = AddressOf(i, d, k),
         AddressOf(i, d, k) \in 0..Len(i.stack), AddressOf(i, d, k) + 8 <= Len(i.stack),
         \A x \in 1..Len(i.stack) : i2.stack[x] = i.stack[x]
  PROVE  SameBytes(i, i2, d, k)
<1>1. Len(i.stack) \in Nat /\ AddressOf(i, d, k) \in Nat
  BY InterpParts
<1>2. \A j \in 1..8 : AddressOf(i, d, k) + j \in 1..Len(i.stack)
  BY <1>1
<1> QED
  BY <1>2 DEF SameBytes

(* What is known of registers stays true if they, what was saved of them and   *)
(* what is known to be spoiled stay the same; or a saved value is overwritten, *)
(* and known to be.                                                         *)
SaveKept(cs, cs2, m, m2, e, r) ==
  /\ SaveAddress(cs, e, r) \in DOMAIN m2.ram
  /\ \/ /\ m2.ram[SaveAddress(cs, e, r)] = m.ram[SaveAddress(cs, e, r)]
        /\ r \in Overwritten(cs2[e]) <=> r \in Overwritten(cs[e])
     \/ /\ r \in Overwritten(cs2[e])
        /\ m2.ram[SaveAddress(cs, e, r)][1] # "register"

SameComputed(cs, i, i2) ==
  \A d \in 1..Len(cs), r \in Nat :
    /\ Computed(i2, d, r) <=> Computed(i, d, r)
    /\ Computed(i, d, r) => i2.locals[d][IL!REG(r)] = i.locals[d][IL!REG(r)]

SameSpoiled(cs, cs2) ==
  /\ Len(cs) \in Nat /\ Len(cs2) = Len(cs)
  /\ \A d \in 1..Len(cs) : cs2[d].fun = cs[d].fun /\ cs2[d].BP = cs[d].BP /\ cs2[d].spoiled = cs[d].spoiled

LEMMA SameUses ==
  ASSUME NEW cs, NEW cs2, SameSpoiled(cs, cs2), NEW r \in 1..NumRegs, NEW d \in 1..Len(cs), NEW e \in 1..Len(cs)
  PROVE  /\ Uses(cs2, e, r) <=> Uses(cs, e, r)
         /\ SaveAddress(cs2, e, r) = SaveAddress(cs, e, r)
         /\ Unused(cs2, d, e, r) <=> Unused(cs, d, e, r)
         /\ Unused(cs2, d, Len(cs) + 1, r) <=> Unused(cs, d, Len(cs) + 1, r)
         /\ SpoiledIn(cs2, d, e, r) <=> SpoiledIn(cs, d, e, r)
         /\ SpoiledIn(cs2, d, e - 1, r) <=> SpoiledIn(cs, d, e - 1, r)
<1> DEFINE D == Len(cs)
<1>1. D \in Nat /\ d \in 1..D /\ e \in 1..D
  BY DEF SameSpoiled
<1>2. \A x \in 1..D : /\ Uses(cs2, x, r) <=> Uses(cs, x, r)
                      /\ cs2[x].spoiled = cs[x].spoiled
  BY DEF SameSpoiled, Uses
<1>3. /\ \A x \in (d + 1)..(e - 1) : x \in 1..D
      /\ \A x \in (d + 1)..(D + 1 - 1) : x \in 1..D
      /\ \A x \in d..e : x \in 1..D
      /\ \A x \in d..(e - 1) : x \in 1..D
  BY <1>1
<1>4. SaveAddress(cs2, e, r) = SaveAddress(cs, e, r)
  BY DEF SameSpoiled, SaveAddress
<1>5. Unused(cs2, d, e, r) <=> Unused(cs, d, e, r)
  BY <1>2, <1>3 DEF Unused
<1>6. Unused(cs2, d, D + 1, r) <=> Unused(cs, d, D + 1, r)
  BY <1>2, <1>3 DEF Unused
<1>7. SpoiledIn(cs2, d, e, r) <=> SpoiledIn(cs, d, e, r)
  BY <1>2, <1>3 DEF SpoiledIn
<1>8. SpoiledIn(cs2, d, e - 1, r) <=> SpoiledIn(cs, d, e - 1, r)
  BY <1>2, <1>3 DEF SpoiledIn
<1> QED
  BY <1>2, <1>4, <1>5, <1>6, <1>7, <1>8

LEMMA SameRegisters ==
  ASSUME NEW cs, NEW cs2, SameSpoiled(cs, cs2), NEW m, NEW m2, NEW i, NEW i2, SameComputed(cs, i, i2),
         Core(cs, m, i), m2.regs = m.regs, Len(cs) # 0, NumRegs \in Nat,
         \A e \in 1..Len(cs), r \in 1..NumRegs : Uses(cs, e, r) => SaveKept(cs, cs2, m, m2, e, r)
  PROVE  Saves(cs2, m2) /\ InRegister(cs2, m2, i2) /\ Saved(cs2, m2, i2) /\ Values(cs2, i2)
<1> DEFINE D == Len(cs)
<1>1. D \in Nat /\ Len(cs2) = D /\ D \in 1..D
  BY DEF SameSpoiled
<1>2. Saves(cs2, m2)
  <2> SUFFICES ASSUME NEW e \in 1..D, NEW r \in 1..NumRegs, Uses(cs2, e, r)
               PROVE  SaveAddress(cs2, e, r) \in DOMAIN m2.ram
    BY <1>1 DEF Saves
  <2>1. (Uses(cs2, e, r) <=> Uses(cs, e, r)) /\ SaveAddress(cs2, e, r) = SaveAddress(cs, e, r)
    BY SameUses
  <2>2. SaveKept(cs, cs2, m, m2, e, r)
    BY <2>1
  <2> QED
    BY <2>1, <2>2 DEF SaveKept
<1>3. \A r \in 1..NumRegs : r \in Nat
  OBVIOUS
<1>4. InRegister(cs2, m2, i2)
  <2> SUFFICES ASSUME NEW d \in 1..D, NEW r \in 1..NumRegs,
                      Uses(cs2, d, r), Computed(i2, d, r), Unused(cs2, d, D + 1, r)
               PROVE  m2.regs[r] = <<"register", d, r>> <=> ~SpoiledIn(cs2, d, D, r)
    BY <1>1 DEF InRegister
  <2>1. Uses(cs, d, r) /\ Unused(cs, d, D + 1, r) /\ (SpoiledIn(cs2, d, D, r) <=> SpoiledIn(cs, d, D, r))
    BY <1>1, SameUses
  <2>2. Computed(i, d, r)
    BY <1>3 DEF SameComputed
  <2>3. m.regs[r] = <<"register", d, r>> <=> ~SpoiledIn(cs, d, D, r)
    BY <2>1, <2>2 DEF Core, InRegister
  <2> QED
    BY <2>1, <2>3
<1>5. Saved(cs2, m2, i2)
  <2> SUFFICES ASSUME NEW d \in 1..D, NEW e \in 1..D, NEW r \in 1..NumRegs, d < e,
                      Uses(cs2, d, r), Computed(i2, d, r), Unused(cs2, d, e, r), Uses(cs2, e, r)
               PROVE  m2.ram[SaveAddress(cs2, e, r)] = <<"register", d, r>>
                        <=> ~SpoiledIn(cs2, d, e - 1, r) /\ r \notin Overwritten(cs2[e])
    BY <1>1 DEF Saved
  <2>1. /\ Uses(cs, d, r) /\ Unused(cs, d, e, r) /\ Uses(cs, e, r)
        /\ SaveAddress(cs2, e, r) = SaveAddress(cs, e, r)
        /\ SpoiledIn(cs2, d, e - 1, r) <=> SpoiledIn(cs, d, e - 1, r)
    BY <1>1, SameUses
  <2>2. Computed(i, d, r)
    BY <1>3 DEF SameComputed
  <2>3. m.ram[SaveAddress(cs, e, r)] = <<"register", d, r>>
          <=> ~SpoiledIn(cs, d, e - 1, r) /\ r \notin Overwritten(cs[e])
    BY <2>1, <2>2 DEF Core, Saved
  <2>4. SaveKept(cs, cs2, m, m2, e, r)
    BY <2>1
  <2>5. CASE /\ m2.ram[SaveAddress(cs, e, r)] = m.ram[SaveAddress(cs, e, r)]
             /\ r \in Overwritten(cs2[e]) <=> r \in Overwritten(cs[e])
    BY <2>1, <2>3, <2>5
  <2>6. CASE r \in Overwritten(cs2[e]) /\ m2.ram[SaveAddress(cs, e, r)][1] # "register"
    BY <2>1, <2>6
  <2> QED
    BY <2>4, <2>5, <2>6 DEF SaveKept
<1>6. Values(cs2, i2)
  BY <1>1 DEF Values, SameComputed, Core
<1> QED
  BY <1>2, <1>4, <1>5, <1>6

(* The ALLOCA of variable k runs (again). *)
LEMMA AllocateAgrees ==
  ASSUME Layout, NEW cs \in Seq(ActivationType), NEW m \in Machine, NEW i \in Interp, Agree(cs, m, i),
         NEW D, D = Len(cs), NEW k \in 1..Len(offsets[cs[D].fun]),
         NEW numBytes \in Nat, NEW i2, Allocated(i, i2, k, numBytes),
         NEW cs2, SameCalls(cs, cs2),
         Forgets(cs[D], cs2[D], k)
  PROVE  Agree(cs2, m, i2)
<1>1. /\ D \in Nat /\ Len(cs2) = D /\ D \in 1..D /\ cs # <<>> /\ cs2 # <<>> /\ Len(i.locals) = D
      /\ Core(cs, m, i)
  BY LenProperties, EmptySeq DEF SameCalls, Agree, Core, Addresses
<1>2. /\ cs[D] \in ActivationType /\ k \in Nat
  BY <1>1, CallTypes
<1>3. /\ cs2[D].stored = cs[D].stored \ {k} /\ cs2[D].kept = cs[D].kept \ {k}
      /\ cs2[D].written = cs[D].written /\ cs2[D].spoiled = cs[D].spoiled
      /\ cs2[D].answered = cs[D].answered /\ cs2[D].fun = cs[D].fun
      /\ cs2[D].lost = cs[D].lost \ {k}
  BY <1>2 DEF ActivationType, Forgets
<1>4. \A d \in 1..D : /\ cs2[d].stored \subseteq cs[d].stored /\ cs2[d].kept \subseteq cs[d].kept
                      /\ d = D => k \notin cs2[d].stored
                      /\ cs2[d].fun = cs[d].fun /\ cs2[d].BP = cs[d].BP
                      /\ cs2[d].spoiled = cs[d].spoiled /\ cs2[d].written = cs[d].written
                      /\ \A l \in cs2[d].stored : l \in cs2[d].lost <=> l \in cs[d].lost
  <2> TAKE d \in 1..D
  <2>1. d = D \/ d \in 1..D - 1
    BY <1>1
  <2> QED
    BY <1>1, <1>3, <2>1 DEF SameCalls
<1>5. Chain(cs2, m)
  <2>1. SameAbove(m, m)
    BY DEF SameAbove, Holds
  <2>2. Chain(cs, m)
    BY <1>1 DEF Core
  <2> QED
    BY <1>1, <2>1, <2>2, SameChain
<1>6. History(cs2)
  <2>1. /\ History(cs) /\ cs[D].kept \subseteq cs[D].stored /\ cs[D].stored \subseteq cs[D].written
        /\ cs[D].written \subseteq 1..Len(offsets[cs[D].fun]) /\ cs[D].lost \subseteq cs[D].stored
    BY <1>1 DEF Core, History
  <2>2. /\ cs2[D].kept \subseteq cs2[D].stored /\ cs2[D].stored \subseteq cs2[D].written
        /\ cs2[D].written \subseteq 1..Len(offsets[cs[D].fun]) /\ cs2[D].lost \subseteq cs2[D].stored
    BY <1>3, <2>1
  <2> QED
    BY <1>1, <2>1, <2>2, SameHistory
<1>7. /\ Len(i.stack) \in Nat /\ Len(i2.stack) >= Len(i.stack) /\ Len(i2.stack) \in Nat /\ Len(i2.locals) = D
      /\ \A a \in 1..Len(i.stack) : i2.stack[a] = i.stack[a]
      /\ \A d \in 1..D - 1 : i2.locals[d] = i.locals[d]
      /\ DOMAIN i2.locals[D] = DOMAIN i.locals[D] \cup {IL!ALLOCA(k)}
      /\ i2.locals[D][IL!ALLOCA(k)][2] = Len(i.stack)
      /\ \A x \in DOMAIN i.locals[D] : x # IL!ALLOCA(k) => i2.locals[D][x] = i.locals[D][x]
  <2>1. Allocated(i, i2, k, numBytes) /\ i \in Interp /\ Len(i.locals) = D
    BY <1>1
  <2>2. Len(i.stack) \in Nat /\ Len(i2.stack) = Len(i.stack) + numBytes
    BY <2>1, InterpParts DEF Allocated
  <2>3. Len(i2.stack) \in Nat /\ Len(i2.stack) >= Len(i.stack)
    BY ONLY <2>2, numBytes \in Nat
  <2> QED
    BY <2>1, <2>2, <2>3 DEF Allocated
<1>8. ASSUME NEW d \in 1..D, NEW l \in Nat
      PROVE  /\ HasAddress(i2, d, l) <=> HasAddress(i, d, l) \/ (d = D /\ l = k)
             /\ d = D /\ l = k => AddressOf(i2, d, l) = Len(i.stack)
             /\ HasAddress(i, d, l) /\ ~(d = D /\ l = k) => AddressOf(i2, d, l) = AddressOf(i, d, l)
  <2>1. d = D \/ d \in 1..D - 1
    BY <1>1
  <2>2. IL!ALLOCA(l) = IL!ALLOCA(k) <=> l = k
    BY <1>2, KeysDiffer
  <2> QED
    BY <1>1, <1>7, <2>1, <2>2 DEF HasAddress, AddressOf
<1>9. /\ \A d \in 1..D : \A l \in cs[d].stored :
           HasAddress(i, d, l) /\ AddressOf(i, d, l) + 8 <= Len(i.stack)
      /\ \A d \in 1..D : \A l \in Nat : HasAddress(i, d, l) => AddressOf(i, d, l) \in 0..Len(i.stack)
      /\ \A d, e \in 1..D : d < e =>
           \A j \in cs[d].stored : \A l \in Nat :
             HasAddress(i, e, l) => AddressOf(i, d, j) + 8 <= AddressOf(i, e, l)
      /\ \A d \in 1..D : cs[d].stored \subseteq Nat
  BY <1>1, CallTypes DEF Core, Addresses
<1>10. ASSUME NEW d \in 1..D, NEW l \in cs2[d].stored
       PROVE  /\ l \in cs[d].stored /\ l \in Nat /\ HasAddress(i, d, l) /\ HasAddress(i2, d, l)
              /\ AddressOf(i2, d, l) = AddressOf(i, d, l)
              /\ AddressOf(i, d, l) \in 0..Len(i.stack) /\ AddressOf(i, d, l) + 8 <= Len(i.stack)
  <2>1. l \in cs[d].stored /\ ~(d = D /\ l = k) /\ l \in Nat /\ HasAddress(i, d, l)
    BY <1>4, <1>9
  <2> QED
    BY <1>8, <1>9, <2>1
<1>11. Addresses(cs2, i2) /\ Variables(cs2, m, i2)
  <2>1. ASSUME NEW d \in 1..D, NEW l \in cs2[d].stored
        PROVE  HasAddress(i2, d, l) /\ AddressOf(i2, d, l) + 8 <= Len(i2.stack)
    <3>1. AddressOf(i, d, l) + 8 <= Len(i2.stack)
      BY <1>7, <1>10
    <3> QED
      BY <1>10, <3>1
  <2>2. ASSUME NEW d \in 1..D, NEW l \in Nat, HasAddress(i2, d, l)
        PROVE  AddressOf(i2, d, l) \in 0..Len(i2.stack)
    <3>1. CASE d = D /\ l = k
      BY <1>7, <1>8, <3>1
    <3>2. CASE ~(d = D /\ l = k)
      BY <1>7, <1>8, <1>9, <2>2, <3>2
    <3> QED
      BY <3>1, <3>2
  <2>3. ASSUME NEW d \in 1..D, NEW e \in 1..D, d < e, NEW j \in cs2[d].stored, NEW l \in Nat,
               HasAddress(i2, e, l)
        PROVE  AddressOf(i2, d, j) + 8 <= AddressOf(i2, e, l)
    <3>1. /\ j \in cs[d].stored /\ AddressOf(i2, d, j) = AddressOf(i, d, j)
          /\ AddressOf(i, d, j) + 8 <= Len(i.stack)
      BY <1>10
    <3>2. CASE e = D /\ l = k
      BY <1>8, <3>1, <3>2
    <3>3. CASE ~(e = D /\ l = k)
      <4>1. HasAddress(i, e, l) /\ AddressOf(i2, e, l) = AddressOf(i, e, l)
        BY <1>8, <2>3, <3>3
      <4> QED
        BY <1>9, <2>3, <3>1, <4>1
    <3> QED
      BY <3>2, <3>3
  <2>4. Addresses(cs2, i2)
    BY <1>1, <1>7, <2>1, <2>2, <2>3 DEF Addresses
  <2>5. ASSUME NEW d \in 1..D, NEW l \in cs2[d].stored,
               Slot(cs2[d].fun, l) <= FrameSize(cs2[d].fun) \/ l \in cs2[d].kept
        PROVE  VariableAgrees(cs2, m, i2, d, l)
    <3>1. VariableAgrees(cs, m, i, d, l)
      BY <1>1, <1>4, <1>10, <2>5 DEF Core, Variables
    <3>2. SameBytes(i, i2, d, l)
      BY <1>7, <1>10, BytesKept
    <3>3. SameVariable(cs, cs2, m, m, i, i2, d, l)
      BY <1>4, <3>2 DEF SameVariable
    <3> QED
      BY <3>1, <3>3, VariableKept
  <2> QED
    BY <1>1, <2>4, <2>5 DEF Variables
<1>12. ASSUME NEW d \in 1..D, NEW r \in Nat
       PROVE  /\ Computed(i2, d, r) <=> Computed(i, d, r)
              /\ Computed(i, d, r) => i2.locals[d][IL!REG(r)] = i.locals[d][IL!REG(r)]
  <2>1. d = D \/ d \in 1..D - 1
    BY <1>1
  <2>2. IL!REG(r) # IL!ALLOCA(k)
    BY <1>2, KeysDiffer
  <2> QED
    BY <1>1, <1>7, <2>1, <2>2 DEF Computed
<1>13. SameSpoiled(cs, cs2) /\ SameComputed(cs, i, i2)
  BY <1>1, <1>4, <1>12 DEF SameSpoiled, SameComputed
<1>14. ASSUME NEW e \in 1..D, NEW r \in 1..NumRegs, Uses(cs, e, r) PROVE SaveKept(cs, cs2, m, m, e, r)
  <2>1. SaveAddress(cs, e, r) \in DOMAIN m.ram
    BY <1>1, <1>14 DEF Core, Saves
  <2>2. Overwritten(cs2[e]) = Overwritten(cs[e])
    BY <1>4 DEF Overwritten
  <2> QED
    BY <2>1, <2>2 DEF SaveKept
<1>15. Saves(cs2, m) /\ InRegister(cs2, m, i2) /\ Saved(cs2, m, i2) /\ Values(cs2, i2)
  <2>1. D # 0 /\ NumRegs \in Nat
    BY <1>1, FramesAssumption
  <2> QED
    BY <1>1, <1>13, <1>14, <2>1, SameRegisters
<1>16. Answer(cs2, m, i2)
  <2>1. IL!CALL # IL!ALLOCA(k)
    BY <1>2, KeysDiffer
  <2> QED
    BY <1>1, <1>3, <1>7, <2>1 DEF Agree, Answer
<1> QED
  BY <1>1, <1>5, <1>6, <1>11, <1>15, <1>16 DEF Agree, Core

(* ST writes one word.  *)
LEMMA StEffect ==
  ASSUME Layout, NEW m \in Machine, NEW g \in Fun, NEW k \in 1..Len(offsets[g]), NEW v \in Word,
         NEW w, w = ST(m, g, k, v)
  PROVE  /\ w \in Machine
         /\ w.BP = m.BP /\ w.SP = m.SP /\ w.regs = m.regs /\ w.EAX = m.EAX
         /\ Holds(w, m.BP - Slot(g, k), v)
         /\ \A x \in DOMAIN m.ram : x # m.BP - Slot(g, k) => Holds(w, x, m.ram[x])
<1> DEFINE a == m.BP - Slot(g, k)
           words == [x \in {a} |-> v]
<1>1. a \in Int
  BY Sizes, MachineParts
<1>2. {a} \in SUBSET Int /\ words \in [{a} -> Word] /\ words[a] = v
  BY <1>1
<1>3. w = Written(m, words)
  BY DEF ST
<1> HIDE DEF words, a
<1>4. /\ w \in Machine /\ w.SP = m.SP /\ w.BP = m.BP /\ w.EAX = m.EAX /\ w.regs = m.regs
      /\ DOMAIN w.ram = DOMAIN m.ram \cup {a}
      /\ \A x \in {a} : w.ram[x] = words[x]
      /\ \A x \in DOMAIN m.ram : x \notin {a} => w.ram[x] = m.ram[x]
  BY <1>2, <1>3, WriteWords
<1> QED
  BY <1>2, <1>4 DEF Holds, a

(* Eight bytes of a variable are as they were, or one of them is of what was   *)
(* stored.                                                                   *)
LEMMA StoreDisjoint ==
  ASSUME NEW i \in Interp, NEW i2, NEW b \in Nat, NEW v, Stored(i, i2, b, v), NEW d, NEW k,
         AddressOf(i, d, k) \in Nat, AddressOf(i, d, k) + 8 <= Len(i.stack),
         AddressOf(i, d, k) + 8 <= b \/ b + 8 <= AddressOf(i, d, k)
  PROVE  SameBytes(i, i2, d, k)
<1> DEFINE a == AddressOf(i, d, k)
<1>1. AddressOf(i2, d, k) = a
  BY DEF Stored, AddressOf
<1>2. Len(i.stack) \in Nat /\ a \in Nat /\ a + 8 <= Len(i.stack) /\ (a + 8 <= b \/ b + 8 <= a)
  BY InterpParts
<1>3. \A x \in 1..Len(i.stack) : x \notin (b + 1)..(b + 8) => i2.stack[x] = i.stack[x]
  BY DEF Stored
<1>4. SameBytes(i, i2, d, k) <=> \A j \in 1..8 : i2.stack[a + j] = i.stack[a + j]
  BY <1>1 DEF SameBytes
<1> HIDE DEF a
<1>5. \A j \in 1..8 : a + j \in 1..Len(i.stack) /\ a + j \notin (b + 1)..(b + 8)
  BY <1>2
<1> QED
  BY <1>3, <1>4, <1>5

HasByteOf(i, d, k, v) == \E j \in 1..8, h \in Nat : i.stack[AddressOf(i, d, k) + j] = <<v, h>>

LEMMA StoreClobbers ==
  ASSUME NEW i \in Interp, NEW i2, NEW b \in Nat, NEW v, Stored(i, i2, b, v), NEW d, NEW k,
         AddressOf(i, d, k) \in Nat, b < AddressOf(i, d, k) + 8, AddressOf(i, d, k) < b + 8
  PROVE  HasByteOf(i2, d, k, v)
<1> DEFINE a == AddressOf(i, d, k)
           j == IF a >= b THEN 1 ELSE b - a + 1
           h == IF a >= b THEN a - b + 1 ELSE 1
<1>1. AddressOf(i2, d, k) = a
  BY DEF Stored, AddressOf
<1>2. \A x \in 1..8 : i2.stack[b + x] = <<v, x>>
  BY DEF Stored
<1>3. a \in Nat /\ b < a + 8 /\ a < b + 8
  OBVIOUS
<1> HIDE DEF a
<1>4. j \in 1..8 /\ h \in 1..8 /\ a + j = b + h
  BY <1>3
<1> HIDE DEF j, h
<1> QED
  BY <1>1, <1>2, <1>4 DEF HasByteOf

Overlapping(i, d, k, l) ==
  AddressOf(i, d, k) < AddressOf(i, d, l) + 8 /\ AddressOf(i, d, l) < AddressOf(i, d, k) + 8

(* A store to variable k, to its word of the frame or, if it has none there,  *)
(* to one below.                                                            *)
LEMMA StoreAgrees ==
  ASSUME Layout, NEW cs \in Seq(ActivationType), NEW m \in Machine, NEW i \in Interp, Agree(cs, m, i),
         NEW D, D = Len(cs), NEW k \in 1..Len(offsets[cs[D].fun]), HasAddress(i, D, k),
         NEW b, b = AddressOf(i, D, k),
         NEW v \in Word, v = <<"variable", D, k>>,
         NEW m2, m2 = ST(m, cs[D].fun, k, v), NEW i2, i2 = IL!Store(i, k, v),
         NEW o, o = {l \in cs[D].stored \ {k} : Overlapping(i, D, k, l)},
         NEW cs2, SameCalls(cs, cs2),
         Keeps(cs[D], cs2[D], k, o)
  PROVE  m2 \in Machine /\ i2 \in Interp /\ Agree(cs2, m2, i2)
<1> DEFINE g == cs[D].fun
           a == m.BP - Slot(g, k)
<1>1. /\ D \in Nat /\ Len(cs2) = D /\ D \in 1..D /\ cs # <<>> /\ cs2 # <<>> /\ Len(i.locals) = D
      /\ Core(cs, m, i)
  <2>1. D \in Nat /\ cs # <<>> /\ Len(cs2) = D /\ Core(cs, m, i)
    BY LenProperties DEF SameCalls, Agree
  <2>2. D \in 1..D /\ cs2 # <<>>
    BY <2>1, EmptySeq
  <2>3. Len(i.locals) = D
    BY <2>1 DEF Core, Addresses
  <2> QED
    BY <2>1, <2>2, <2>3
<1>2. /\ cs[D] \in ActivationType /\ k \in Nat /\ g \in Fun
  BY <1>1, CallTypes
<1>3. /\ cs2[D].stored = cs[D].stored \cup {k} /\ cs2[D].kept = cs[D].kept \cup {k}
      /\ cs2[D].written = cs[D].written \cup {k} /\ cs2[D].spoiled = cs[D].spoiled
      /\ cs2[D].answered = cs[D].answered /\ cs2[D].fun = g /\ cs2[D].BP = cs[D].BP
      /\ cs2[D].lost = (cs[D].lost \ {k}) \cup o
  BY <1>2 DEF ActivationType, Keeps
<1>4. ASSUME NEW d \in 1..D
      PROVE  /\ d # D => cs2[d] = cs[d]
             /\ cs2[d].fun = cs[d].fun /\ cs2[d].BP = cs[d].BP /\ cs2[d].spoiled = cs[d].spoiled
  <2>1. d = D \/ d \in 1..D - 1
    BY <1>1
  <2> QED
    BY <1>1, <1>3, <2>1 DEF SameCalls
<1>5. /\ m2 \in Machine /\ m2.BP = m.BP /\ m2.SP = m.SP /\ m2.regs = m.regs /\ m2.EAX = m.EAX
      /\ Holds(m2, a, v)
      /\ \A x \in DOMAIN m.ram : x # a => Holds(m2, x, m.ram[x])
  BY <1>2, StEffect
<1>6. /\ m.BP \in Int /\ m.BP = cs[D].BP /\ a \in Int /\ a < m.BP /\ Slot(g, k) \in Nat
      /\ \A d \in 1..D : cs[d].SP \in Int /\ (d < D => m.BP + 1 < cs[d].SP)
  <2>1. m.BP \in Int /\ m.BP = cs[D].BP /\ Slot(g, k) \in Nat \ {0}
    BY <1>1, <1>2, FramesAreAbove, FrameSizes DEF Core
  <2>2. \A d \in 1..D : cs[d].SP \in Int /\ (d < D => m.BP + 1 < cs[d].SP)
    BY <1>1, FramesAreAbove, CallTypes DEF Core
  <2> QED
    BY <2>1, <2>2
<1>7. Chain(cs2, m2)
  <2>1. \A x \in Int : x >= m.BP => x # a
    BY <1>6
  <2>2. SameAbove(m, m2)
    BY <1>5, <2>1 DEF SameAbove
  <2>3. Chain(cs, m)
    BY <1>1 DEF Core
  <2> QED
    BY <1>1, <2>2, <2>3, SameChain
<1>8. History(cs2)
  <2>1. /\ History(cs) /\ cs[D].kept \subseteq cs[D].stored /\ cs[D].stored \subseteq cs[D].written
        /\ cs[D].written \subseteq 1..Len(offsets[cs[D].fun]) /\ cs[D].lost \subseteq cs[D].stored
    BY <1>1 DEF Core, History
  <2>2. /\ cs2[D].kept \subseteq cs2[D].stored /\ cs2[D].stored \subseteq cs2[D].written
        /\ cs2[D].written \subseteq 1..Len(offsets[cs[D].fun]) /\ cs2[D].lost \subseteq cs2[D].stored
    BY <1>3, <2>1
  <2> QED
    BY <1>1, <2>1, <2>2, SameHistory
<1>9. /\ \A d \in 1..D : \A l \in cs[d].stored :
           HasAddress(i, d, l) /\ AddressOf(i, d, l) + 8 <= Len(i.stack)
      /\ \A d \in 1..D : \A l \in Nat : HasAddress(i, d, l) => AddressOf(i, d, l) \in 0..Len(i.stack)
      /\ \A d, e \in 1..D : d < e =>
           \A j \in cs[d].stored : \A l \in Nat :
             HasAddress(i, e, l) => AddressOf(i, d, j) + 8 <= AddressOf(i, e, l)
      /\ \A d \in 1..D : cs[d].stored \subseteq Nat
  BY <1>1, CallTypes DEF Core, Addresses
<1>10. Stored(i, i2, b, v) /\ b \in 0..Len(i.stack) /\ b \in Nat /\ Len(i.stack) \in Nat
  <2>1. IL!get(i, IL!ALLOCA(k))[2] = b
    BY <1>1 DEF AddressOf, IL!get, IL!Locals
  <2>2. b \in 0..Len(i.stack) /\ Len(i.stack) \in Nat
    BY <1>1, <1>2, <1>9, InterpParts
  <2> QED
    BY <2>1, <2>2, StoreEffect
<1>11. /\ i2 \in Interp /\ i2.locals = i.locals /\ i2.retVal = i.retVal
       /\ Len(i2.stack) >= Len(i.stack) /\ Len(i2.stack) >= b + 8
       /\ \A j \in 1..8 : i2.stack[b + j] = <<v, j>>
  BY <1>10 DEF Stored
<1>12. Len(i2.stack) \in Nat
  BY <1>11, InterpParts
<1>13. \A d, l : /\ HasAddress(i2, d, l) <=> HasAddress(i, d, l)
                 /\ AddressOf(i2, d, l) = AddressOf(i, d, l)
                 /\ Computed(i2, d, l) <=> Computed(i, d, l)
  BY <1>11 DEF HasAddress, AddressOf, Computed
<1>14. ASSUME NEW d \in 1..D, NEW l, ~(d = D /\ l = k)
       PROVE  /\ l \in cs2[d].stored => l \in cs[d].stored
              /\ l \in cs2[d].kept => l \in cs[d].kept
  <2>1. CASE d = D
    BY <1>3, <1>14, <2>1
  <2>2. CASE d # D
    BY <1>4, <2>2
  <2> QED
    BY <2>1, <2>2
<1>15. Addresses(cs2, i2)
  <2>1. ASSUME NEW d \in 1..D, NEW l \in cs2[d].stored
        PROVE  HasAddress(i2, d, l) /\ AddressOf(i2, d, l) + 8 <= Len(i2.stack)
    <3>1. CASE d = D /\ l = k
      <4>1. HasAddress(i2, d, l) /\ AddressOf(i2, d, l) = b
        BY <1>13, <3>1
      <4> QED
        BY <1>10, <1>11, <1>12, <4>1
    <3>2. CASE ~(d = D /\ l = k)
      <4>1. l \in cs[d].stored /\ l \in Nat
        BY <1>9, <1>14, <3>2
      <4>2. /\ HasAddress(i2, d, l) /\ AddressOf(i2, d, l) = AddressOf(i, d, l)
            /\ AddressOf(i, d, l) + 8 <= Len(i.stack) /\ AddressOf(i, d, l) \in 0..Len(i.stack)
        BY <1>9, <1>13, <4>1
      <4>3. Len(i.stack) \in Nat /\ Len(i2.stack) \in Nat /\ Len(i2.stack) >= Len(i.stack)
        BY <1>10, <1>11, <1>12
      <4>4. AddressOf(i, d, l) + 8 <= Len(i2.stack)
        BY ONLY <4>2, <4>3
      <4> QED
        BY <4>2, <4>4
    <3> QED
      BY <3>1, <3>2
  <2>2. ASSUME NEW d \in 1..D, NEW l \in Nat, HasAddress(i2, d, l)
        PROVE  AddressOf(i2, d, l) \in 0..Len(i2.stack)
    <3>1. AddressOf(i2, d, l) = AddressOf(i, d, l) /\ AddressOf(i, d, l) \in 0..Len(i.stack)
      BY <1>9, <1>13, <2>2
    <3>2. Len(i.stack) \in Nat /\ Len(i2.stack) \in Nat /\ Len(i2.stack) >= Len(i.stack)
      BY <1>10, <1>11, <1>12
    <3>3. AddressOf(i, d, l) \in 0..Len(i2.stack)
      BY ONLY <3>1, <3>2
    <3> QED
      BY <3>1, <3>3
  <2>3. ASSUME NEW d \in 1..D, NEW e \in 1..D, d < e, NEW j \in cs2[d].stored, NEW l \in Nat,
               HasAddress(i2, e, l)
        PROVE  AddressOf(i2, d, j) + 8 <= AddressOf(i2, e, l)
    <3>1. d # D
      BY <1>1, <2>3
    <3>2. j \in cs[d].stored /\ HasAddress(i, e, l)
      BY <1>13, <1>14, <2>3, <3>1
    <3>3. AddressOf(i, d, j) + 8 <= AddressOf(i, e, l)
      BY <1>9, <2>3, <3>2
    <3> QED
      BY <1>13, <3>3
  <2> QED
    BY <1>1, <1>11, <2>1, <2>2, <2>3 DEF Addresses
<1>16. \A d \in 1..D : cs[d].stored \subseteq 1..Len(offsets[cs[d].fun])
  BY <1>1 DEF Core, History
<1>17. \A d \in 1..D - 1 : cs[d].kept = {}
  BY <1>1 DEF Core, History
<1>18. ASSUME NEW d \in 1..D, NEW l \in cs[d].stored, ~(d = D /\ l = k),
               Slot(cs[d].fun, l) <= FrameSize(cs[d].fun) \/ l \in cs[d].kept, NEW w,
               Holds(m, cs[d].BP - Slot(cs[d].fun, l), w)
       PROVE  Holds(m2, cs[d].BP - Slot(cs[d].fun, l), w)
  <2>1. cs[d].BP - Slot(cs[d].fun, l) # a
    <3>1. l \in 1..Len(offsets[cs[d].fun])
      BY <1>16
    <3>2. CASE d = D
      <4>1. Slot(g, l) # Slot(g, k) /\ Slot(g, l) \in Nat
        BY <1>2, <1>18, <3>1, <3>2, Sizes
      <4> QED
        BY <1>6, <3>2, <4>1
    <3>3. CASE d # D
      <4>1. d \in 1..D - 1 /\ d < D
        BY <1>1, <3>3
      <4>2. Slot(cs[d].fun, l) <= FrameSize(cs[d].fun)
        BY <1>17, <1>18, <4>1
      <4>3. cs[d].BP - Slot(cs[d].fun, l) \in Int /\ cs[d].SP <= cs[d].BP - Slot(cs[d].fun, l)
        BY <1>1, <3>1, <4>2, InFrame DEF Core
      <4> QED
        BY <1>6, <4>1, <4>3
    <3> QED
      BY <3>2, <3>3
  <2>2. /\ cs[d].BP - Slot(cs[d].fun, l) \in DOMAIN m.ram
        /\ m.ram[cs[d].BP - Slot(cs[d].fun, l)] = w
    BY <1>18 DEF Holds
  <2> QED
    BY <1>5, <2>1, <2>2
<1>19. Variables(cs2, m2, i2)
  <2> SUFFICES ASSUME NEW d \in 1..D, NEW l \in cs2[d].stored,
                      Slot(cs2[d].fun, l) <= FrameSize(cs2[d].fun) \/ l \in cs2[d].kept
               PROVE  VariableAgrees(cs2, m2, i2, d, l)
    BY <1>1 DEF Variables
  <2>1. CASE d = D /\ l = k
    <3>1. v \in Own(D, k) /\ Holds(m2, cs2[D].BP - Slot(cs2[D].fun, k), v)
      BY <1>3, <1>5, <1>6 DEF Own
    <3>2. k \notin cs2[D].lost
      BY <1>3
    <3>3. Reads(i2, D, k, v)
      BY <1>13, <1>11 DEF Reads
    <3> QED
      BY <2>1, <3>1, <3>2, <3>3 DEF VariableAgrees
  <2>2. CASE ~(d = D /\ l = k)
    <3>1. /\ l \in cs[d].stored /\ l \in Nat /\ HasAddress(i, d, l)
          /\ Slot(cs[d].fun, l) <= FrameSize(cs[d].fun) \/ l \in cs[d].kept
          /\ AddressOf(i, d, l) \in 0..Len(i.stack) /\ AddressOf(i, d, l) + 8 <= Len(i.stack)
      BY <1>4, <1>9, <1>14, <2>2
    <3>2. VariableAgrees(cs, m, i, d, l)
      BY <1>1, <3>1 DEF Core, Variables
    <3>3. \A w : Holds(m, cs[d].BP - Slot(cs[d].fun, l), w) => Holds(m2, cs[d].BP - Slot(cs[d].fun, l), w)
      BY <1>18, <2>2, <3>1
    <3>4. AddressOf(i, d, l) \in Nat
      BY <1>10, <3>1
    <3>5. CASE d # D
      <4>1. d < D
        BY <1>1, <3>5
      <4>2. AddressOf(i, d, l) + 8 <= b
        BY <1>1, <1>2, <1>9, <3>1, <4>1
      <4>3. SameBytes(i, i2, d, l)
        BY <1>10, <3>1, <3>4, <4>2, StoreDisjoint
      <4>4. SameVariable(cs, cs2, m, m2, i, i2, d, l)
        BY <1>4, <3>3, <3>5, <4>3 DEF SameVariable
      <4> QED
        BY <3>2, <4>4, VariableKept
    <3>6. CASE d = D /\ l \in o
      <4>1. /\ AddressOf(i, D, l) \in Nat /\ Stored(i, i2, b, v) /\ b \in Nat
            /\ b < AddressOf(i, D, l) + 8 /\ AddressOf(i, D, l) < b + 8
        BY <1>10, <3>4, <3>6 DEF Overlapping
      <4>2. PICK j \in 1..8, h \in Nat : i2.stack[AddressOf(i2, D, l) + j] = <<v, h>>
        <5>1. HasByteOf(i2, D, l, v)
          BY <4>1, StoreClobbers
        <5> QED
          BY <5>1 DEF HasByteOf
      <4>3. k \in Nat \ {l}
        BY <1>2, <2>2, <3>6
      <4>4. i2.stack[AddressOf(i2, D, l) + j] = <<<<"variable", D, k>>, h>>
        BY <4>2
      <4>5. Clobbered(i2, D, l)
        BY <4>3, <4>4 DEF Clobbered
      <4>6. l \in cs2[D].lost
        BY <1>3, <3>6
      <4>7. PICK w \in Own(d, l) : Holds(m, cs[d].BP - Slot(cs[d].fun, l), w)
        BY <3>2 DEF VariableAgrees
      <4>8. Holds(m2, cs2[d].BP - Slot(cs2[d].fun, l), w)
        BY <1>4, <3>3, <4>7
      <4> QED
        BY <3>6, <4>5, <4>6, <4>7, <4>8 DEF VariableAgrees
    <3>7. CASE d = D /\ l \notin o
      <4>1. ~(b < AddressOf(i, D, l) + 8 /\ AddressOf(i, D, l) < b + 8)
        BY <2>2, <3>1, <3>7 DEF Overlapping
      <4>2. AddressOf(i, d, l) + 8 <= b \/ b + 8 <= AddressOf(i, d, l)
        <5> QED
          BY <1>10, <3>4, <3>7, <4>1
      <4>3. SameBytes(i, i2, d, l)
        BY <1>10, <3>1, <3>4, <4>2, StoreDisjoint
      <4>4. l \in cs2[d].lost <=> l \in cs[d].lost
        BY <1>3, <2>2, <3>7
      <4>5. SameVariable(cs, cs2, m, m2, i, i2, d, l)
        BY <1>4, <3>3, <4>3, <4>4 DEF SameVariable
      <4> QED
        BY <3>2, <4>5, VariableKept
    <3> QED
      BY <3>5, <3>6, <3>7
  <2> QED
    BY <2>1, <2>2
<1>20. SameSpoiled(cs, cs2) /\ SameComputed(cs, i, i2)
  BY <1>1, <1>4, <1>11, <1>13 DEF SameSpoiled, SameComputed
<1>21. ASSUME NEW e \in 1..D, NEW r \in 1..NumRegs, Uses(cs, e, r) PROVE SaveKept(cs, cs2, m, m2, e, r)
  <2> DEFINE x == SaveAddress(cs, e, r)
  <2>1. x \in DOMAIN m.ram
    BY <1>1, <1>21 DEF Core, Saves
  <2>2. CASE e # D
    <3>1. x # a
      <4>1. x \in Int /\ cs[e].SP <= x /\ e < D
        BY <1>1, <1>21, <2>2, InFrame DEF Core
      <4> HIDE DEF x, a
      <4> QED
        BY <1>6, <4>1
    <3>2. Overwritten(cs2[e]) = Overwritten(cs[e])
      BY <1>4, <2>2
    <3> QED
      BY <1>5, <2>1, <3>1, <3>2 DEF SaveKept, Holds
  <2>3. CASE e = D
    <3>1. x = m.BP - SaveSlot(g, r) /\ SaveSlot(g, r) \in Nat /\ r \in 1..used[g]
      <4>1. r \in Nat /\ used[g] \in Nat
        <5>1. used[g] \in 0..NumRegs /\ NumRegs \in Nat
          BY <1>2, FrameSizes
        <5> QED
          BY <5>1
      <4> QED
        BY <1>2, <1>6, <1>21, <2>3, <4>1, FrameSizes DEF SaveAddress, Uses
    <3>2. r \in Overwritten(cs2[D]) <=> \E l \in cs[D].written \cup {k} : Slot(g, l) = SaveSlot(g, r)
      BY <1>3, <3>1 DEF Overwritten
    <3>3. r \in Overwritten(cs[D]) <=> \E l \in cs[D].written : Slot(g, l) = SaveSlot(g, r)
      BY <3>1 DEF Overwritten
    <3>4. CASE Slot(g, k) = SaveSlot(g, r)
      <4>1. x = a
        BY <3>1, <3>4
      <4>2. x \in DOMAIN m2.ram /\ m2.ram[x] = v
        BY <1>5, <4>1 DEF Holds
      <4>3. m2.ram[x][1] # "register"
        <5>1. v[1] = "variable"
          BY ONLY v = <<"variable", D, k>>
        <5> QED
          BY ONLY <4>2, <5>1
      <4>4. r \in Overwritten(cs2[D])
        <5>1. k \in cs[D].written \cup {k}
          OBVIOUS
        <5> QED
          BY <3>2, <3>4, <5>1
      <4> QED
        BY <2>3, <4>2, <4>3, <4>4 DEF SaveKept
    <3>5. CASE Slot(g, k) # SaveSlot(g, r)
      <4>1. x # a
        BY <1>6, <3>1, <3>5
      <4>2. m2.ram[x] = m.ram[x] /\ x \in DOMAIN m2.ram
        BY <1>5, <2>1, <4>1 DEF Holds
      <4>3. r \in Overwritten(cs2[D]) <=> r \in Overwritten(cs[D])
        BY <3>2, <3>3, <3>5
      <4> QED
        BY <2>3, <4>2, <4>3 DEF SaveKept
    <3> QED
      BY <3>4, <3>5
  <2> QED
    BY <2>2, <2>3
<1>22. Saves(cs2, m2) /\ InRegister(cs2, m2, i2) /\ Saved(cs2, m2, i2) /\ Values(cs2, i2)
  <2>1. D # 0 /\ NumRegs \in Nat
    BY <1>1, FramesAssumption
  <2> QED
    BY <1>1, <1>5, <1>20, <1>21, <2>1, SameRegisters
<1>23. Answer(cs2, m2, i2)
  BY <1>1, <1>3, <1>5, <1>11 DEF Agree, Answer
<1> QED
  BY <1>1, <1>5, <1>7, <1>8, <1>11, <1>15, <1>19, <1>22, <1>23 DEF Agree, Core

(* The running function computes something in register r.                    *)
LEMMA ComputeAgrees ==
  ASSUME Layout, NEW cs \in Seq(ActivationType), NEW m \in Machine, NEW i \in Interp, Agree(cs, m, i),
         NEW D, D = Len(cs), NEW r \in 1..NumRegs, Uses(cs, D, r),
         NEW v, v = <<"register", D, r>>,
         NEW m2, Puts(m, m2, r, v), NEW i2, RegisterSet(i, i2, IL!REG(r), v),
         NEW cs2, SameCalls(cs, cs2),
         Computes(cs[D], cs2[D], r)
  PROVE  Agree(cs2, m2, i2)
<1>1. /\ D \in Nat /\ Len(cs2) = D /\ D \in 1..D /\ cs # <<>> /\ cs2 # <<>> /\ Len(i.locals) = D
      /\ Core(cs, m, i)
  BY LenProperties, EmptySeq DEF SameCalls, Agree, Core, Addresses
<1>2. /\ cs[D] \in ActivationType /\ r \in Nat
  BY <1>1, CallTypes
<1>3. /\ cs2[D].stored = cs[D].stored /\ cs2[D].kept = cs[D].kept
      /\ cs2[D].written = cs[D].written /\ cs2[D].spoiled = cs[D].spoiled \ {r}
      /\ cs2[D].answered = cs[D].answered /\ cs2[D].fun = cs[D].fun
      /\ cs2[D].lost = cs[D].lost
  BY <1>2 DEF ActivationType, Computes
<1>4. ASSUME NEW d \in 1..D
      PROVE  /\ cs2[d].stored = cs[d].stored /\ cs2[d].kept = cs[d].kept /\ cs2[d].written = cs[d].written
             /\ cs2[d].fun = cs[d].fun /\ cs2[d].BP = cs[d].BP /\ cs2[d].lost = cs[d].lost
             /\ d # D => cs2[d].spoiled = cs[d].spoiled
  <2>1. d = D \/ d \in 1..D - 1
    BY <1>1
  <2> QED
    BY <1>1, <1>3, <2>1 DEF SameCalls
<1>5. /\ m2.ram = m.ram /\ m2.BP = m.BP /\ m2.SP = m.SP /\ m2.EAX = m.EAX
      /\ m2.regs[r] = v /\ \A q \in 1..NumRegs : q # r => m2.regs[q] = m.regs[q]
  BY MachineParts DEF Machine, Puts
<1>6. Chain(cs2, m2)
  <2>1. SameAbove(m, m2)
    BY <1>5 DEF SameAbove, Holds
  <2>2. Chain(cs, m)
    BY <1>1 DEF Core
  <2> QED
    BY <1>1, <2>1, <2>2, SameChain
<1>7. History(cs2)
  <2>1. /\ History(cs) /\ cs[D].kept \subseteq cs[D].stored /\ cs[D].stored \subseteq cs[D].written
        /\ cs[D].written \subseteq 1..Len(offsets[cs[D].fun]) /\ cs[D].lost \subseteq cs[D].stored
    BY <1>1 DEF Core, History
  <2> QED
    BY <1>1, <1>3, <2>1, SameHistory
<1>8. /\ i2.stack = i.stack /\ Len(i2.locals) = D
      /\ \A d \in 1..D - 1 : i2.locals[d] = i.locals[d]
      /\ DOMAIN i2.locals[D] = DOMAIN i.locals[D] \cup {IL!REG(r)}
      /\ i2.locals[D][IL!REG(r)] = v
      /\ \A x \in DOMAIN i.locals[D] : x # IL!REG(r) => i2.locals[D][x] = i.locals[D][x]
  BY <1>1 DEF RegisterSet
<1>9. ASSUME NEW d \in 1..D, NEW l \in Nat
      PROVE  /\ HasAddress(i2, d, l) <=> HasAddress(i, d, l)
             /\ HasAddress(i, d, l) => AddressOf(i2, d, l) = AddressOf(i, d, l)
             /\ ~(d = D /\ l = r) => (Computed(i2, d, l) <=> Computed(i, d, l))
             /\ Computed(i, d, l) /\ ~(d = D /\ l = r) => i2.locals[d][IL!REG(l)] = i.locals[d][IL!REG(l)]
  <2>1. d = D \/ d \in 1..D - 1
    BY <1>1
  <2>2. IL!REG(r) # IL!ALLOCA(l) /\ (IL!REG(r) = IL!REG(l) => l = r)
    BY <1>2, KeysDiffer
  <2>3. CASE d = D
    BY <1>8, <2>2, <2>3 DEF HasAddress, AddressOf, Computed
  <2>4. CASE d \in 1..D - 1
    BY <1>8, <2>4 DEF HasAddress, AddressOf, Computed
  <2> QED
    BY <2>1, <2>3, <2>4
<1>10. Addresses(cs2, i2)
  <2>1. /\ \A d \in 1..D : \A l \in cs[d].stored :
             HasAddress(i, d, l) /\ AddressOf(i, d, l) + 8 <= Len(i.stack)
        /\ \A d \in 1..D : \A l \in Nat : HasAddress(i, d, l) => AddressOf(i, d, l) \in 0..Len(i.stack)
        /\ \A d, e \in 1..D : d < e =>
             \A j \in cs[d].stored : \A l \in Nat :
               HasAddress(i, e, l) => AddressOf(i, d, j) + 8 <= AddressOf(i, e, l)
        /\ \A d \in 1..D : cs[d].stored \subseteq Nat
    BY <1>1, CallTypes DEF Core, Addresses
  <2>2. ASSUME NEW d \in 1..D, NEW l \in cs2[d].stored
        PROVE  HasAddress(i2, d, l) /\ AddressOf(i2, d, l) + 8 <= Len(i2.stack)
    <3>1. l \in cs[d].stored /\ l \in Nat
      BY <1>4, <2>1
    <3> QED
      BY <1>8, <1>9, <2>1, <3>1
  <2>3. ASSUME NEW d \in 1..D, NEW l \in Nat, HasAddress(i2, d, l)
        PROVE  AddressOf(i2, d, l) \in 0..Len(i2.stack)
    BY <1>8, <1>9, <2>1, <2>3
  <2>4. ASSUME NEW d \in 1..D, NEW e \in 1..D, d < e, NEW j \in cs2[d].stored, NEW l \in Nat,
               HasAddress(i2, e, l)
        PROVE  AddressOf(i2, d, j) + 8 <= AddressOf(i2, e, l)
    <3>1. j \in cs[d].stored /\ j \in Nat /\ HasAddress(i, e, l) /\ HasAddress(i, d, j)
      BY <1>4, <1>9, <2>1, <2>4
    <3> QED
      BY <1>9, <2>1, <2>4, <3>1
  <2> QED
    BY <1>1, <1>8, <2>2, <2>3, <2>4 DEF Addresses
<1>11. Variables(cs2, m2, i2)
  <2> SUFFICES ASSUME NEW d \in 1..D, NEW l \in cs2[d].stored,
                      Slot(cs2[d].fun, l) <= FrameSize(cs2[d].fun) \/ l \in cs2[d].kept
               PROVE  VariableAgrees(cs2, m2, i2, d, l)
    BY <1>1 DEF Variables
  <2>1. VariableAgrees(cs, m, i, d, l)
    BY <1>1, <1>4 DEF Core, Variables
  <2>2. l \in Nat /\ HasAddress(i, d, l)
    BY <1>1, <1>4, CallTypes DEF Core, Addresses
  <2>3. SameBytes(i, i2, d, l)
    BY <1>8, <1>9, <2>2 DEF SameBytes
  <2>4. SameVariable(cs, cs2, m, m2, i, i2, d, l)
    BY <1>4, <1>5, <2>3 DEF SameVariable, Holds
  <2> QED
    BY <2>1, <2>4, VariableKept
<1>12. ASSUME NEW d \in 1..D, NEW q \in 1..NumRegs
       PROVE  /\ Uses(cs2, d, q) <=> Uses(cs, d, q)
              /\ SaveAddress(cs2, d, q) = SaveAddress(cs, d, q)
              /\ Overwritten(cs2[d]) = Overwritten(cs[d])
              /\ ~(d = D /\ q = r) => (q \in cs2[d].spoiled <=> q \in cs[d].spoiled)
  BY <1>3, <1>4 DEF Uses, SaveAddress, Overwritten
<1>13. Saves(cs2, m2)
  BY <1>1, <1>5, <1>12 DEF Core, Saves
<1>14. InRegister(cs2, m2, i2)
  <2> SUFFICES ASSUME NEW d \in 1..D, NEW q \in 1..NumRegs,
                      Uses(cs2, d, q), Computed(i2, d, q), Unused(cs2, d, D + 1, q)
               PROVE  m2.regs[q] = <<"register", d, q>> <=> ~SpoiledIn(cs2, d, D, q)
    BY <1>1 DEF InRegister
  <2>1. CASE q = r
    <3>1. d = D
      <4>1. d \in Nat /\ (d # D => D \in (d + 1)..(D + 1 - 1))
        BY <1>1
      <4> QED
        BY <1>1, <1>12, <2>1, <4>1 DEF Unused
    <3>2. ~SpoiledIn(cs2, D, D, r)
      <4>1. \A x \in D..D : x = D
        BY <1>1
      <4> QED
        BY <1>3, <4>1 DEF SpoiledIn
    <3> QED
      BY <1>5, <2>1, <3>1, <3>2
  <2>2. CASE q # r
    <3>1. q \in Nat /\ \A x \in (d + 1)..(D + 1 - 1) : x \in 1..D
      BY <1>1
    <3>2. Uses(cs, d, q) /\ Computed(i, d, q) /\ Unused(cs, d, D + 1, q)
      BY <1>9, <1>12, <2>2, <3>1 DEF Unused
    <3>3. m.regs[q] = <<"register", d, q>> <=> ~SpoiledIn(cs, d, D, q)
      BY <1>1, <3>2 DEF Core, InRegister
    <3>4. SpoiledIn(cs2, d, D, q) <=> SpoiledIn(cs, d, D, q)
      <4>1. \A x \in d..D : x \in 1..D
        BY <1>1
      <4> QED
        BY <1>12, <2>2, <4>1 DEF SpoiledIn
    <3> QED
      BY <1>5, <2>2, <3>3, <3>4
  <2> QED
    BY <2>1, <2>2
<1>15. Saved(cs2, m2, i2)
  <2> SUFFICES ASSUME NEW d \in 1..D, NEW e \in 1..D, NEW q \in 1..NumRegs, d < e,
                      Uses(cs2, d, q), Computed(i2, d, q), Unused(cs2, d, e, q), Uses(cs2, e, q)
               PROVE  m2.ram[SaveAddress(cs2, e, q)] = <<"register", d, q>>
                        <=> ~SpoiledIn(cs2, d, e - 1, q) /\ q \notin Overwritten(cs2[e])
    BY <1>1 DEF Saved
  <2>1. d # D /\ q \in Nat /\ (\A x \in (d + 1)..(e - 1) : x \in 1..D)
        /\ (\A x \in d..(e - 1) : x \in 1..D /\ x # D)
    BY <1>1
  <2>2. Uses(cs, d, q) /\ Computed(i, d, q) /\ Unused(cs, d, e, q) /\ Uses(cs, e, q)
    BY <1>9, <1>12, <2>1 DEF Unused
  <2>3. m.ram[SaveAddress(cs, e, q)] = <<"register", d, q>>
          <=> ~SpoiledIn(cs, d, e - 1, q) /\ q \notin Overwritten(cs[e])
    BY <1>1, <2>2 DEF Core, Saved
  <2>4. SpoiledIn(cs2, d, e - 1, q) <=> SpoiledIn(cs, d, e - 1, q)
    BY <1>12, <2>1 DEF SpoiledIn
  <2> QED
    BY <1>5, <1>12, <2>3, <2>4
<1>16. Values(cs2, i2)
  <2> SUFFICES ASSUME NEW d \in 1..D, NEW q \in Nat, Computed(i2, d, q)
               PROVE  i2.locals[d][IL!REG(q)] = <<"register", d, q>>
    BY <1>1 DEF Values
  <2>1. CASE d = D /\ q = r
    BY <1>8, <2>1
  <2>2. CASE ~(d = D /\ q = r)
    BY <1>1, <1>9, <2>2 DEF Core, Values
  <2> QED
    BY <2>1, <2>2
<1>17. Answer(cs2, m2, i2)
  <2>1. IL!CALL # IL!REG(r)
    BY <1>2, KeysDiffer
  <2> QED
    BY <1>1, <1>3, <1>5, <1>8, <2>1 DEF Agree, Answer
<1> QED
  BY <1>1, <1>6, <1>7, <1>10, <1>11, <1>13, <1>14, <1>15, <1>16, <1>17 DEF Agree, Core

(* Before a call: nothing is known any more of what is outside of the frame,  *)
(* and there is no answer.                                                  *)
Waits(cs) == \A d \in 1..Len(cs) : cs[d].kept = {}

LEMMA CallerAgrees ==
  ASSUME Layout, NEW cs \in Seq(ActivationType), NEW m \in Machine, NEW i \in Interp, Agree(cs, m, i),
         NEW D, D = Len(cs),
         NEW cs2, SameCalls(cs, cs2),
         Forsakes(cs[D], cs2[D])
  PROVE  Core(cs2, m, i) /\ Waits(cs2)
<1>1. /\ D \in Nat /\ Len(cs2) = D /\ D \in 1..D /\ cs # <<>> /\ cs2 # <<>> /\ Core(cs, m, i)
  BY LenProperties, EmptySeq DEF SameCalls, Agree
<1>2. cs[D] \in ActivationType
  BY <1>1, CallTypes
<1>3. /\ cs2[D].stored = cs[D].stored /\ cs2[D].kept = {}
      /\ cs2[D].written = cs[D].written /\ cs2[D].spoiled = cs[D].spoiled /\ cs2[D].fun = cs[D].fun
      /\ cs2[D].lost = cs[D].lost
  BY <1>2 DEF ActivationType, Forsakes
<1>4. ASSUME NEW d \in 1..D
      PROVE  /\ cs2[d].stored = cs[d].stored /\ cs2[d].kept \subseteq cs[d].kept
             /\ cs2[d].written = cs[d].written /\ cs2[d].kept = {} /\ cs2[d].lost = cs[d].lost
             /\ cs2[d].fun = cs[d].fun /\ cs2[d].BP = cs[d].BP /\ cs2[d].spoiled = cs[d].spoiled
  <2>1. d = D \/ d \in 1..D - 1
    BY <1>1
  <2>2. CASE d = D
    BY <1>1, <1>3, <2>2 DEF SameCalls
  <2>3. CASE d \in 1..D - 1
    BY <1>1, <2>3 DEF SameCalls, Core, History
  <2> QED
    BY <2>1, <2>2, <2>3
<1>5. Chain(cs2, m)
  <2>1. SameAbove(m, m)
    BY DEF SameAbove, Holds
  <2>2. Chain(cs, m)
    BY <1>1 DEF Core
  <2> QED
    BY <1>1, <2>1, <2>2, SameChain
<1>6. History(cs2)
  <2>1. /\ History(cs) /\ cs[D].stored \subseteq cs[D].written
        /\ cs[D].written \subseteq 1..Len(offsets[cs[D].fun]) /\ cs[D].lost \subseteq cs[D].stored
    BY <1>1 DEF Core, History
  <2> QED
    BY <1>1, <1>3, <2>1, SameHistory
<1>7. Addresses(cs2, i)
  BY <1>1, <1>4 DEF Core, Addresses
<1>8. Variables(cs2, m, i)
  <2> SUFFICES ASSUME NEW d \in 1..D, NEW l \in cs2[d].stored,
                      Slot(cs2[d].fun, l) <= FrameSize(cs2[d].fun) \/ l \in cs2[d].kept
               PROVE  VariableAgrees(cs2, m, i, d, l)
    BY <1>1 DEF Variables
  <2>1. VariableAgrees(cs, m, i, d, l)
    BY <1>1, <1>4 DEF Core, Variables
  <2>2. SameVariable(cs, cs2, m, m, i, i, d, l)
    BY <1>4 DEF SameVariable, SameBytes
  <2> QED
    BY <2>1, <2>2, VariableKept
<1>9. SameSpoiled(cs, cs2) /\ SameComputed(cs, i, i)
  BY <1>1, <1>4 DEF SameSpoiled, SameComputed
<1>10. ASSUME NEW e \in 1..D, NEW r \in 1..NumRegs, Uses(cs, e, r) PROVE SaveKept(cs, cs2, m, m, e, r)
  <2>1. SaveAddress(cs, e, r) \in DOMAIN m.ram
    BY <1>1, <1>10 DEF Core, Saves
  <2>2. Overwritten(cs2[e]) = Overwritten(cs[e])
    BY <1>4 DEF Overwritten
  <2> QED
    BY <2>1, <2>2 DEF SaveKept
<1>11. Saves(cs2, m) /\ InRegister(cs2, m, i) /\ Saved(cs2, m, i) /\ Values(cs2, i)
  <2>1. D # 0 /\ NumRegs \in Nat
    BY <1>1, FramesAssumption
  <2> QED
    BY <1>1, <1>9, <1>10, <2>1, SameRegisters
<1> QED
  BY <1>1, <1>4, <1>5, <1>6, <1>7, <1>8, <1>11 DEF Core, Waits

(* A call: what the callee is given agrees, and what the callers had is above  *)
(* what is written, or in the registers that are saved.                      *)
LEMMA CallAgrees ==
  ASSUME Layout, NEW cs \in Seq(ActivationType), NEW m \in Machine, NEW i \in Interp,
         Core(cs, m, i), Waits(cs), cs = <<>> => m.BP = 0,
         NEW g \in Fun, g \in funVisited, NEW n \in Nat, n = numArgs[g], n <= Len(offsets[g]),
         NEW D, D = Len(cs),
         NEW args \in [1..n -> Word], \A k \in 1..n : args[k] = <<"argument", D, k>>,
         NEW m2, Called(m, m2, g, n, args, D), NEW i2, Entered(i, i2, n, args),
         NEW cs2, cs2 = Append(cs, Activation(g, m2))
  PROVE  cs2 \in Seq(ActivationType) /\ Agree(cs2, m2, i2)
<1> DEFINE E == D + 1
           a == Activation(g, m2)
<1>1. D \in Nat /\ n \in Int /\ NumRegs \in Nat /\ (cs = <<>> <=> D = 0) /\ D \notin {E} /\ Len(i.locals) = D
  BY LenProperties, EmptySeq, FramesAssumption DEF Core, Addresses
<1>2. /\ a.fun = g /\ a.BP = m2.BP /\ a.SP = m2.SP /\ a.stored = 1..n /\ a.kept = 1..n
      /\ a.written = 1..n /\ a.spoiled = {} /\ a.answered = FALSE /\ a.lost = {}
  BY DEF Activation
<1>3. a \in ActivationType
  <2>1. m2.BP \in Int /\ m2.SP \in Int
    BY MachineParts DEF Called
  <2>2. 1..n \subseteq Nat
    OBVIOUS
  <2> QED
    BY <2>1, <2>2 DEF Activation, ActivationType
<1>4. /\ cs2 \in Seq(ActivationType) /\ Len(cs2) = E /\ cs2[E] = a
      /\ \A d \in 1..D : cs2[d] = cs[d]
  BY <1>3, AppendProperties
<1> HIDE DEF a
<1>5. \A d \in 1..E : d \in 1..D \/ d = E
  BY <1>1
<1>6. E \in 1..E /\ E \in Nat /\ cs2 # <<>> /\ (\A d \in 1..D : d \in 1..E /\ d # E)
  BY <1>1, <1>4, EmptySeq
<1>7. /\ m.SP \in Int /\ m2.BP = m.SP - n - 2 /\ m2.BP \in Int /\ m2.SP = m2.BP - FrameSize(g)
      /\ m2.regs = m.regs
      /\ Holds(m2, m2.BP, Address(m.BP)) /\ Holds(m2, m2.BP + 1, Return(D))
      /\ \A x \in DOMAIN m.ram : x >= m.SP => Holds(m2, x, m.ram[x])
  BY MachineParts DEF Called
<1>8. ASSUME NEW d \in 1..D
      PROVE  /\ cs[d].SP \in Int /\ cs[d].BP \in Int /\ m.SP <= cs[d].SP /\ cs[d].SP <= cs[d].BP
             /\ m.BP = cs[D].BP /\ m.SP = cs[D].SP
  <2>1. Chain(cs, m)
    BY DEF Core
  <2> QED
    BY <2>1, FramesAreAbove, CallTypes
<1>9. ASSUME NEW d \in 1..D, NEW x \in Int, cs[d].SP <= x, x \in DOMAIN m.ram
      PROVE  Holds(m2, x, m.ram[x])
  <2>1. x >= m.SP
    BY <1>7, <1>8, <1>9
  <2> QED
    BY <1>7, <1>9, <2>1
<1>10. Chain(cs2, m2)
  <2>1. ASSUME NEW d \in 1..D PROVE Frame(cs2, d) /\ Linked(cs2, m2, d)
    <3>1. Frame(cs, d) /\ Linked(cs, m, d)
      BY DEF Core, Chain
    <3>2. d > 1 => d - 1 \in 1..D
      BY <1>1
    <3>3. Frame(cs2, d)
      BY <1>4, <3>1, <3>2 DEF Frame
    <3>4. cs[d].BP \in Int /\ cs[d].BP + 1 \in Int /\ cs[d].SP <= cs[d].BP /\ cs[d].SP <= cs[d].BP + 1
      BY <1>8
    <3>5. \A c : /\ Holds(m, cs[d].BP, c) => Holds(m2, cs[d].BP, c)
                 /\ Holds(m, cs[d].BP + 1, c) => Holds(m2, cs[d].BP + 1, c)
      BY <1>9, <3>4 DEF Holds
    <3>6. d = 1 \/ d > 1
      BY <1>1
    <3> QED
      BY <1>4, <3>1, <3>2, <3>3, <3>5, <3>6 DEF Linked
  <2>2. Frame(cs2, E)
    <3>1. D > 0 => D \in 1..D
      BY <1>1
    <3>2. E > 1 => cs2[E].BP = cs2[E - 1].SP - n - 2
      <4>1. E > 1 => D > 0 /\ E - 1 = D
        BY <1>1
      <4> QED
        BY <1>2, <1>4, <1>7, <1>8, <3>1, <4>1
    <3> QED
      BY <1>2, <1>4, <1>7, <3>2 DEF Frame
  <2>3. Linked(cs2, m2, E)
    <3>1. D = 0 \/ D \in 1..D
      BY <1>1
    <3>2. E - 1 = D /\ (E = 1 <=> D = 0)
      BY <1>1
    <3>3. m.BP = IF E = 1 THEN 0 ELSE cs2[E - 1].BP
      BY <1>1, <1>4, <1>8, <3>1, <3>2
    <3> QED
      BY <1>2, <1>4, <1>7, <3>2, <3>3 DEF Linked
  <2>4. ASSUME NEW d \in 1..E, NEW e \in 1..E, d < e PROVE cs2[e].BP + 1 < cs2[d].SP
    <3>1. d \in 1..D
      BY <1>1, <2>4
    <3>2. CASE e \in 1..D
      BY <1>4, <2>4, <3>1, <3>2 DEF Core, Chain
    <3>3. CASE e = E
      <4>1. cs[d].SP \in Int /\ m.SP <= cs[d].SP
        BY <1>8, <3>1
      <4>2. cs2[e].BP = m.SP - n - 2 /\ cs2[d].SP = cs[d].SP
        BY <1>2, <1>4, <1>7, <3>1, <3>3
      <4>3. m.SP \in Int /\ n \in Int /\ n >= 0
        BY <1>7
      <4>4. m.SP - n - 2 + 1 < cs[d].SP
        BY <4>1, <4>3
      <4> QED
        BY <4>2, <4>4
    <3> QED
      BY <1>5, <3>2, <3>3
  <2> QED
    BY <1>2, <1>4, <1>5, <2>1, <2>2, <2>3, <2>4 DEF Chain
<1>11. History(cs2)
  <2>1. 1..n \subseteq 1..Len(offsets[g])
    BY <1>1, Sizes
  <2>2. ASSUME NEW d \in 1..E
        PROVE  /\ cs2[d].kept \subseteq cs2[d].stored /\ cs2[d].stored \subseteq cs2[d].written
               /\ cs2[d].written \subseteq 1..Len(offsets[cs2[d].fun])
               /\ cs2[d].lost \subseteq cs2[d].stored
               /\ d \in 1..D => cs2[d].kept = {}
    <3>1. CASE d \in 1..D
      BY <1>4, <3>1 DEF Core, History, Waits
    <3>2. CASE d = E
      BY <1>2, <1>4, <1>6, <2>1, <3>2
    <3> QED
      BY <1>5, <3>1, <3>2
  <2>3. \A d \in 1..E - 1 : d \in 1..D /\ d \in 1..E
    BY <1>1
  <2> QED
    BY <1>4, <2>2, <2>3 DEF History
<1>12. /\ Len(i.stack) \in Nat /\ Len(i2.stack) \in Nat /\ Len(i2.stack) >= Len(i.stack) /\ Len(i2.locals) = E
       /\ \A x \in 1..Len(i.stack) : i2.stack[x] = i.stack[x]
       /\ \A d \in 1..D : i2.locals[d] = i.locals[d]
       /\ DOMAIN i2.locals[E] = {IL!ALLOCA(k) : k \in 1..n}
       /\ \A k \in 1..n : \E p \in Nat :
            /\ i2.locals[E][IL!ALLOCA(k)][2] = p
            /\ Len(i.stack) <= p /\ p + 8 <= Len(i2.stack)
            /\ \A j \in 1..8 : i2.stack[p + j] = <<args[k], j>>
  <2>1. i2 \in Interp /\ Len(i.stack) \in Nat
    BY InterpParts DEF Entered
  <2>2. Len(i2.stack) \in Nat
    BY <2>1, InterpParts
  <2>3. Len(i.locals) + 1 = E /\ Len(i.locals) = D
    BY <1>1
  <2>4. \A k \in 1..n : \E p \in Nat :
          /\ i2.locals[E][IL!ALLOCA(k)][2] = p
          /\ Len(i.stack) <= p /\ p + 8 <= Len(i2.stack)
          /\ \A j \in 1..8 : i2.stack[p + j] = <<args[k], j>>
    <3> HIDE DEF E
    <3> QED
      BY <2>3 DEF Entered
  <2>5. /\ Len(i2.stack) >= Len(i.stack) /\ Len(i2.locals) = E
        /\ \A x \in 1..Len(i.stack) : i2.stack[x] = i.stack[x]
        /\ \A d \in 1..D : i2.locals[d] = i.locals[d]
        /\ DOMAIN i2.locals[E] = {IL!ALLOCA(k) : k \in 1..n}
    <3> HIDE DEF E
    <3> QED
      BY <2>3 DEF Entered
  <2> HIDE DEF E
  <2> QED
    BY <2>1, <2>2, <2>4, <2>5
<1>13. ASSUME NEW l \in Nat
       PROVE  /\ HasAddress(i2, E, l) <=> l \in 1..n
              /\ ~Computed(i2, E, l)
  <2>1. \A k \in 1..n : k \in Nat /\ IL!ALLOCA(k) # IL!REG(l) /\ (IL!ALLOCA(k) = IL!ALLOCA(l) => k = l)
    BY KeysDiffer
  <2> QED
    BY <1>12, <2>1 DEF HasAddress, Computed
<1>14. ASSUME NEW l \in 1..n
       PROVE  /\ AddressOf(i2, E, l) \in 0..Len(i2.stack) /\ Len(i.stack) <= AddressOf(i2, E, l)
              /\ AddressOf(i2, E, l) + 8 <= Len(i2.stack)
              /\ Reads(i2, E, l, args[l])
  <2>1. PICK p \in Nat : /\ i2.locals[E][IL!ALLOCA(l)][2] = p
                         /\ Len(i.stack) <= p /\ p + 8 <= Len(i2.stack)
                         /\ \A j \in 1..8 : i2.stack[p + j] = <<args[l], j>>
    BY <1>12
  <2>2. AddressOf(i2, E, l) = p
    <3> HIDE DEF E
    <3> QED
      BY <2>1 DEF AddressOf
  <2>3. Len(i2.stack) \in Nat
    BY <1>12
  <2>6. p \in Nat /\ p + 8 <= Len(i2.stack)
    BY <2>1
  <2>4. p \in 0..Len(i2.stack)
    BY ONLY <2>3, <2>6
  <2>5. Reads(i2, E, l, args[l])
    <3> HIDE DEF E
    <3> QED
      BY <2>1, <2>2 DEF Reads
  <2> HIDE DEF E
  <2> QED
    BY <2>1, <2>2, <2>4, <2>5
<1>15. ASSUME NEW d \in 1..D, NEW l
       PROVE  /\ HasAddress(i2, d, l) <=> HasAddress(i, d, l)
              /\ AddressOf(i2, d, l) = AddressOf(i, d, l)
              /\ Computed(i2, d, l) <=> Computed(i, d, l)
  BY <1>12 DEF HasAddress, AddressOf, Computed
<1>16. /\ \A d \in 1..D : \A l \in cs[d].stored :
            HasAddress(i, d, l) /\ AddressOf(i, d, l) + 8 <= Len(i.stack)
       /\ \A d \in 1..D : \A l \in Nat : HasAddress(i, d, l) => AddressOf(i, d, l) \in 0..Len(i.stack)
       /\ \A d, e \in 1..D : d < e =>
            \A j \in cs[d].stored : \A l \in Nat :
              HasAddress(i, e, l) => AddressOf(i, d, j) + 8 <= AddressOf(i, e, l)
       /\ \A d \in 1..D : cs[d].stored \subseteq Nat
  BY CallTypes DEF Core, Addresses
<1>17. ASSUME NEW d \in 1..D, NEW l \in cs[d].stored
       PROVE  /\ l \in Nat /\ HasAddress(i2, d, l) /\ AddressOf(i2, d, l) = AddressOf(i, d, l)
              /\ AddressOf(i, d, l) \in 0..Len(i.stack) /\ AddressOf(i, d, l) + 8 <= Len(i.stack)
              /\ AddressOf(i, d, l) \in Nat
  <2>1. l \in Nat /\ HasAddress(i, d, l)
    BY <1>16
  <2>2. AddressOf(i, d, l) \in 0..Len(i.stack) /\ Len(i.stack) \in Nat
    BY <1>12, <1>16, <2>1
  <2>3. AddressOf(i, d, l) \in Nat
    BY <2>2
  <2> QED
    BY <1>15, <1>16, <2>1, <2>2, <2>3
<1>18. 1..n \subseteq Nat /\ \A l \in cs2[E].stored : l \in 1..n
  BY <1>2, <1>4
<1>19. Addresses(cs2, i2)
  <2>1. ASSUME NEW d \in 1..E, NEW l \in cs2[d].stored
        PROVE  HasAddress(i2, d, l) /\ AddressOf(i2, d, l) + 8 <= Len(i2.stack)
    <3>1. CASE d \in 1..D
      <4>1. l \in cs[d].stored
        BY <1>4, <3>1
      <4>2. HasAddress(i2, d, l) /\ AddressOf(i2, d, l) = AddressOf(i, d, l)
        BY <1>17, <3>1, <4>1
      <4>3. /\ AddressOf(i, d, l) \in Nat /\ AddressOf(i, d, l) + 8 <= Len(i.stack)
            /\ Len(i.stack) \in Nat /\ Len(i2.stack) \in Nat /\ Len(i2.stack) >= Len(i.stack)
        BY <1>12, <1>17, <3>1, <4>1
      <4>4. AddressOf(i, d, l) + 8 <= Len(i2.stack)
        BY ONLY <4>3
      <4> QED
        BY <4>2, <4>4
    <3>2. CASE d = E
      <4>1. l \in 1..n /\ l \in Nat
        BY <1>18, <3>2
      <4>2. HasAddress(i2, E, l)
        BY <1>13, <4>1
      <4>3. AddressOf(i2, E, l) + 8 <= Len(i2.stack)
        BY <1>14, <4>1
      <4> QED
        BY <3>2, <4>2, <4>3
    <3> QED
      BY <1>5, <3>1, <3>2
  <2>2. ASSUME NEW d \in 1..E, NEW l \in Nat, HasAddress(i2, d, l)
        PROVE  AddressOf(i2, d, l) \in 0..Len(i2.stack)
    <3>1. CASE d \in 1..D
      <4>1. /\ AddressOf(i2, d, l) \in 0..Len(i.stack)
            /\ Len(i.stack) \in Nat /\ Len(i2.stack) \in Nat /\ Len(i2.stack) >= Len(i.stack)
        BY <1>12, <1>15, <1>16, <2>2, <3>1
      <4> QED
        BY ONLY <4>1
    <3>2. CASE d = E
      BY <1>13, <1>14, <2>2, <3>2
    <3> QED
      BY <1>5, <3>1, <3>2
  <2>3. ASSUME NEW d \in 1..E, NEW e \in 1..E, d < e, NEW j \in cs2[d].stored, NEW l \in Nat,
               HasAddress(i2, e, l)
        PROVE  AddressOf(i2, d, j) + 8 <= AddressOf(i2, e, l)
    <3>1. d \in 1..D
      BY <1>1, <2>3
    <3>2. j \in cs[d].stored /\ AddressOf(i2, d, j) = AddressOf(i, d, j)
      BY <1>4, <1>17, <3>1
    <3>3. CASE e \in 1..D
      <4>1. HasAddress(i, e, l) /\ AddressOf(i2, e, l) = AddressOf(i, e, l)
        BY <1>15, <2>3, <3>3
      <4>2. AddressOf(i, d, j) + 8 <= AddressOf(i, e, l)
        BY <1>16, <2>3, <3>1, <3>2, <3>3, <4>1
      <4> QED
        BY <3>2, <4>1, <4>2
    <3>4. CASE e = E
      <4>1. l \in 1..n
        BY <1>13, <2>3, <3>4
      <4>2. /\ AddressOf(i2, e, l) \in 0..Len(i2.stack) /\ Len(i.stack) <= AddressOf(i2, e, l)
            /\ AddressOf(i, d, j) \in Nat /\ AddressOf(i, d, j) + 8 <= Len(i.stack)
            /\ Len(i.stack) \in Nat /\ Len(i2.stack) \in Nat
        BY <1>12, <1>14, <1>17, <3>1, <3>2, <3>4, <4>1
      <4>3. AddressOf(i, d, j) + 8 <= AddressOf(i2, e, l)
        BY ONLY <4>2
      <4> QED
        BY <3>2, <4>3
    <3> QED
      BY <1>5, <3>3, <3>4
  <2>5. Len(cs2) = E /\ Len(i2.locals) = E
    BY <1>4, <1>12
  <2> HIDE DEF E
  <2> QED
    BY <2>1, <2>2, <2>3, <2>5 DEF Addresses
<1>20. Variables(cs2, m2, i2)
  <2> SUFFICES ASSUME NEW d \in 1..E, NEW l \in cs2[d].stored,
                      Slot(cs2[d].fun, l) <= FrameSize(cs2[d].fun) \/ l \in cs2[d].kept
               PROVE  VariableAgrees(cs2, m2, i2, d, l)
    BY <1>4 DEF Variables
  <2>1. CASE d \in 1..D
    <3>1. l \in cs[d].stored /\ Slot(cs[d].fun, l) <= FrameSize(cs[d].fun) /\ l \in Nat
      BY <1>4, <1>16, <2>1 DEF Waits
    <3>2. VariableAgrees(cs, m, i, d, l)
      BY <2>1, <3>1 DEF Core, Variables
    <3>3. cs[d].BP - Slot(cs[d].fun, l) \in Int /\ cs[d].SP <= cs[d].BP - Slot(cs[d].fun, l)
      <4>1. l \in 1..Len(offsets[cs[d].fun])
        BY <2>1, <3>1 DEF Core, History
      <4>2. Chain(cs, m)
        BY DEF Core
      <4> QED
        BY <2>1, <3>1, <4>1, <4>2, InFrame
    <3>4. \A w : Holds(m, cs[d].BP - Slot(cs[d].fun, l), w) => Holds(m2, cs[d].BP - Slot(cs[d].fun, l), w)
      BY <1>9, <2>1, <3>3 DEF Holds
    <3>5. SameBytes(i, i2, d, l)
      BY <1>12, <1>17, <2>1, <3>1, BytesKept
    <3>6. SameVariable(cs, cs2, m, m2, i, i2, d, l)
      BY <1>4, <2>1, <3>4, <3>5 DEF SameVariable
    <3> QED
      BY <3>2, <3>6, VariableKept
  <2>2. CASE d = E
    <3>1. l \in 1..n /\ l \in Nat
      BY <1>18, <2>2
    <3>2. Holds(m2, m2.BP - Slot(g, l), args[l])
      BY <3>1 DEF Called
    <3>3. Reads(i2, E, l, args[l])
      BY <1>14, <3>1
    <3>4. args[l] \in Own(E, l)
      <4>1. E - 1 = D
        BY <1>1
      <4>2. args[l] = <<"argument", D, l>>
        BY <3>1
      <4> HIDE DEF E
      <4> QED
        BY <4>1, <4>2 DEF Own
    <3>5. l \notin cs2[E].lost /\ cs2[E].fun = g /\ cs2[E].BP = m2.BP
      BY <1>2, <1>4
    <3> HIDE DEF E
    <3> QED
      BY <2>2, <3>2, <3>3, <3>4, <3>5 DEF VariableAgrees
  <2> QED
    BY <1>5, <2>1, <2>2
<1>21. ASSUME NEW d \in 1..D, NEW r
       PROVE  /\ Uses(cs2, d, r) <=> Uses(cs, d, r)
              /\ SaveAddress(cs2, d, r) = SaveAddress(cs, d, r)
              /\ Overwritten(cs2[d]) = Overwritten(cs[d])
              /\ cs2[d].spoiled = cs[d].spoiled
  BY <1>4 DEF Uses, SaveAddress
<1>22. ASSUME NEW r \in 1..NumRegs, Uses(cs2, E, r)
       PROVE  /\ SaveAddress(cs2, E, r) = m2.BP - SaveSlot(g, r)
              /\ SaveAddress(cs2, E, r) \in DOMAIN m2.ram
              /\ r \notin Overwritten(cs2[E]) => m2.ram[SaveAddress(cs2, E, r)] = m.regs[r]
              /\ r \in Overwritten(cs2[E]) => m2.ram[SaveAddress(cs2, E, r)][1] # "register"
  <2>1. SaveAddress(cs2, E, r) = m2.BP - SaveSlot(g, r) /\ r <= used[g]
    BY <1>2, <1>4, <1>22 DEF SaveAddress, Uses
  <2>2. r \in 1..used[g]
    BY <2>1, Sizes
  <2>3. r \in Overwritten(cs2[E]) <=> \E k \in 1..n : Slot(g, k) = SaveSlot(g, r)
    BY <1>2, <1>4, <2>2 DEF Overwritten
  <2>4. /\ m2.BP - SaveSlot(g, r) \in DOMAIN m2.ram
        /\ (\A k \in 1..n : Slot(g, k) # SaveSlot(g, r)) => m2.ram[m2.BP - SaveSlot(g, r)] = m.regs[r]
        /\ \A k \in 1..n : Slot(g, k) = SaveSlot(g, r) => m2.ram[m2.BP - SaveSlot(g, r)] = args[k]
    BY <2>2 DEF Called, Holds
  <2> QED
    BY <2>1, <2>3, <2>4
<1>23. ASSUME NEW e \in 1..D, NEW r \in 1..NumRegs, Uses(cs, e, r)
       PROVE  /\ SaveAddress(cs, e, r) \in DOMAIN m2.ram
              /\ m2.ram[SaveAddress(cs, e, r)] = m.ram[SaveAddress(cs, e, r)]
  <2>1. SaveAddress(cs, e, r) \in DOMAIN m.ram /\ Chain(cs, m)
    BY <1>23 DEF Core, Saves
  <2>2. SaveAddress(cs, e, r) \in Int /\ cs[e].SP <= SaveAddress(cs, e, r)
    BY <1>23, <2>1, InFrame
  <2> QED
    BY <1>9, <2>1, <2>2 DEF Holds
<1>24. Saves(cs2, m2)
  BY <1>4, <1>5, <1>21, <1>22, <1>23 DEF Saves
<1>25. ASSUME NEW d \in 1..D, NEW e \in 1..D, NEW r
       PROVE  SpoiledIn(cs2, d, e - 1, r) <=> SpoiledIn(cs, d, e - 1, r)
  <2>1. \A x \in d..(e - 1) : x \in 1..D
    BY <1>1
  <2> QED
    BY <1>21, <2>1 DEF SpoiledIn
<1>26. ASSUME NEW d \in 1..D, NEW r
       PROVE  /\ SpoiledIn(cs2, d, D, r) <=> SpoiledIn(cs, d, D, r)
              /\ SpoiledIn(cs2, d, E, r) <=> SpoiledIn(cs, d, D, r)
  <2>1. /\ \A x \in d..D : x \in 1..D /\ x \in d..(D + 1)
        /\ \A x \in d..(D + 1) : x \in d..D \/ x = D + 1
    <3>1. D \in Int /\ d \in Int /\ 1 <= d /\ d <= D
      BY <1>1
    <3>2. \A x \in d..D : x \in 1..D /\ x \in d..(D + 1)
      BY ONLY <3>1
    <3>3. \A x \in d..(D + 1) : x \in d..D \/ x = D + 1
      BY ONLY <3>1
    <3> QED
      BY <3>2, <3>3
  <2>2. r \notin cs2[E].spoiled
    BY <1>2, <1>4
  <2> QED
    BY <1>21, <2>1, <2>2 DEF SpoiledIn
<1>27. ASSUME NEW d \in 1..D, NEW e \in 1..E, NEW r, Unused(cs2, d, e, r)
       PROVE  Unused(cs, d, e, r)
  <2>1. \A x \in (d + 1)..(e - 1) : x \in 1..D
    BY <1>1
  <2> QED
    BY <1>21, <1>27, <2>1 DEF Unused
<1>28. InRegister(cs2, m2, i2)
  <2> SUFFICES ASSUME NEW d \in 1..E, NEW r \in 1..NumRegs,
                      Uses(cs2, d, r), Computed(i2, d, r), Unused(cs2, d, E + 1, r)
               PROVE  m2.regs[r] = <<"register", d, r>> <=> ~SpoiledIn(cs2, d, E, r)
    BY <1>4 DEF InRegister
  <2>1. r \in Nat
    OBVIOUS
  <2>2. d \in 1..D
    BY <1>5, <1>13, <2>1
  <2>3. Unused(cs2, d, E, r)
    <3>1. \A x \in (d + 1)..(E - 1) : x \in (d + 1)..(E + 1 - 1)
      BY <1>1, <2>2
    <3> QED
      BY <3>1 DEF Unused
  <2>4. Uses(cs, d, r) /\ Computed(i, d, r) /\ Unused(cs, d, E, r)
    BY <1>6, <1>15, <1>21, <1>27, <2>2, <2>3
  <2>5. m.regs[r] = <<"register", d, r>> <=> ~SpoiledIn(cs, d, D, r)
    BY <2>2, <2>4 DEF Core, InRegister
  <2> QED
    BY <1>7, <1>26, <2>2, <2>5
<1>29. Saved(cs2, m2, i2)
  <2> SUFFICES ASSUME NEW d \in 1..E, NEW e \in 1..E, NEW r \in 1..NumRegs, d < e,
                      Uses(cs2, d, r), Computed(i2, d, r), Unused(cs2, d, e, r), Uses(cs2, e, r)
               PROVE  m2.ram[SaveAddress(cs2, e, r)] = <<"register", d, r>>
                        <=> ~SpoiledIn(cs2, d, e - 1, r) /\ r \notin Overwritten(cs2[e])
    BY <1>4 DEF Saved
  <2>1. d \in 1..D /\ r \in Nat
    BY <1>1
  <2>2. Uses(cs, d, r) /\ Computed(i, d, r) /\ Unused(cs, d, e, r)
    BY <1>15, <1>21, <1>27, <2>1
  <2>3. CASE e \in 1..D
    <3>1. Uses(cs, e, r)
      BY <1>21, <2>3
    <3>2. m.ram[SaveAddress(cs, e, r)] = <<"register", d, r>>
            <=> ~SpoiledIn(cs, d, e - 1, r) /\ r \notin Overwritten(cs[e])
      BY <2>1, <2>2, <2>3, <3>1 DEF Core, Saved
    <3> QED
      BY <1>21, <1>23, <1>25, <2>1, <2>3, <3>1, <3>2
  <2>4. CASE e = E
    <3>1. m.regs[r] = <<"register", d, r>> <=> ~SpoiledIn(cs, d, D, r)
      BY <2>1, <2>2, <2>4 DEF Core, InRegister
    <3>2. SpoiledIn(cs2, d, e - 1, r) <=> SpoiledIn(cs, d, D, r)
      <4>1. e - 1 = D
        BY <1>1, <2>4
      <4> QED
        BY <1>26, <2>1, <4>1
    <3>3. CASE r \notin Overwritten(cs2[e])
      BY <1>22, <2>4, <3>1, <3>2, <3>3
    <3>4. CASE r \in Overwritten(cs2[e])
      BY <1>22, <2>4, <3>4
    <3> QED
      BY <3>3, <3>4
  <2> QED
    BY <1>5, <2>3, <2>4
<1>30. Values(cs2, i2)
  <2> SUFFICES ASSUME NEW d \in 1..E, NEW r \in Nat, Computed(i2, d, r)
               PROVE  i2.locals[d][IL!REG(r)] = <<"register", d, r>>
    BY <1>4 DEF Values
  <2>1. d \in 1..D
    BY <1>5, <1>13
  <2>2. Computed(i, d, r) /\ i2.locals[d] = i.locals[d]
    BY <1>12, <1>15, <2>1
  <2>3. Values(cs, i)
    BY DEF Core
  <2> QED
    BY <2>1, <2>2, <2>3 DEF Values
<1>31. Answer(cs2, m2, i2)
  BY <1>2, <1>4 DEF Answer
<1> QED
  BY <1>4, <1>6, <1>10, <1>11, <1>19, <1>20, <1>24, <1>28, <1>29, <1>30, <1>31 DEF Agree, Core

(* What a return leaves wrong in registers.                                  *)
LEMMA SpoilsOf ==
  ASSUME Layout, NEW a \in ActivationType
  PROVE  /\ Spoils(a) \subseteq 1..NumRegs
         /\ \A r \in 1..NumRegs : r \in Spoils(a) <=> IF r <= used[a.fun] THEN r \in Overwritten(a)
                                                      ELSE r \in a.spoiled
<1>1. a.fun \in Fun /\ a.spoiled \subseteq 1..NumRegs
  BY DEF ActivationType
<1>2. used[a.fun] \in 0..NumRegs /\ NumRegs \in Nat
  BY <1>1, Sizes
<1>3. Overwritten(a) \subseteq 1..used[a.fun]
  BY DEF Overwritten
<1>4. \A r \in 1..NumRegs : r \in 1..used[a.fun] <=> r <= used[a.fun]
  BY <1>2
<1>5. 1..used[a.fun] \subseteq 1..NumRegs
  BY <1>2
<1> QED
  BY <1>1, <1>3, <1>4, <1>5 DEF Spoils

(* The calls that are left when the last one has returned.                   *)
Resumed(cs, answers) ==
  [SubSeq(cs, 1, Len(cs) - 1) EXCEPT ![Len(cs) - 1].spoiled = @ \cup Spoils(cs[Len(cs)]),
                                     ![Len(cs) - 1].answered = answers]

(* A return: the caller finds its frame as it was and its registers again,    *)
(* but for those whose saved value was overwritten.                          *)
LEMMA ReturnAgrees ==
  ASSUME Layout, NEW cs \in Seq(ActivationType), NEW m \in Machine, NEW i \in Interp,
         Core(cs, m, i), NEW D, D = Len(cs), D # 0, NEW P, P = D - 1, P # 0,
         NEW answers \in BOOLEAN, answers => m.EAX = i.retVal,
         NEW m2, m2 = Leave(m, cs[D].fun), NEW i2, i2 = IL!Leave(i),
         NEW cs2, cs2 = Resumed(cs, answers)
  PROVE  cs2 \in Seq(ActivationType) /\ m2 \in Machine /\ i2 \in Interp /\ Agree(cs2, m2, i2)
<1> DEFINE g == cs[D].fun
<1>1. /\ D \in Nat /\ P \in Nat \ {0} /\ D = P + 1 /\ D \in 1..D /\ P \in 1..D /\ P \in 1..P
      /\ NumRegs \in Nat /\ Len(i.locals) = D
  BY LenProperties, FramesAssumption DEF Core, Addresses
<1>2. /\ cs[D] \in ActivationType /\ cs[P] \in ActivationType /\ g \in Fun
  BY <1>1, CallTypes
<1>3. \A d \in 1..P : d \in 1..D /\ d # D /\ d < D
  BY <1>1
<1>4. /\ Spoils(cs[D]) \subseteq 1..NumRegs
      /\ \A r \in 1..NumRegs : r \in Spoils(cs[D]) <=> IF r <= used[g] THEN r \in Overwritten(cs[D])
                                                       ELSE r \in cs[D].spoiled
  BY <1>2, SpoilsOf
<1> DEFINE sub == SubSeq(cs, 1, P)
           a == [sub[P] EXCEPT !.spoiled = @ \cup Spoils(cs[D]), !.answered = answers]
<1>5. sub \in Seq(ActivationType) /\ Len(sub) = P /\ \A d \in 1..P : sub[d] = cs[d]
  <2>1. /\ SubSeq(cs, 1, P) \in Seq(ActivationType)
        /\ Len(SubSeq(cs, 1, P)) = IF 1 <= P THEN P - 1 + 1 ELSE 0
        /\ \A d \in 1..P - 1 + 1 : SubSeq(cs, 1, P)[d] = cs[1 + d - 1]
    <3>1. 1 \in Int /\ P \in Int /\ \A d \in 1..P : cs[d] \in ActivationType
      BY <1>1, <1>3, CallTypes
    <3>2. cs \in Seq(ActivationType) /\ \A d \in 1..P : d \in 1..Len(cs)
      BY <1>3
    <3> QED
      BY <3>1, <3>2, SubSeqProperties
  <2>2. \A d \in 1..P : d \in 1..P - 1 + 1 /\ 1 + d - 1 = d
    BY <1>1
  <2>3. 1 <= P /\ P - 1 + 1 = P
    BY <1>1
  <2> QED
    BY <2>1, <2>2, <2>3
<1>6. /\ cs2 = [sub EXCEPT ![P] = a]
      /\ a \in ActivationType /\ a.fun = cs[P].fun /\ a.BP = cs[P].BP /\ a.SP = cs[P].SP
      /\ a.stored = cs[P].stored /\ a.kept = cs[P].kept /\ a.written = cs[P].written /\ a.lost = cs[P].lost
      /\ a.spoiled = cs[P].spoiled \cup Spoils(cs[D]) /\ a.answered = answers
  <2>1. sub[P] = cs[P]
    BY <1>1, <1>5
  <2>2. cs2 = [sub EXCEPT ![P] = a]
    BY DEF Resumed
  <2>3. cs[P].spoiled \cup Spoils(cs[D]) \subseteq 1..NumRegs
    BY <1>2, <1>4 DEF ActivationType
  <2> HIDE DEF sub
  <2>4. a = [cs[P] EXCEPT !.spoiled = @ \cup Spoils(cs[D]), !.answered = answers]
    BY <2>1
  <2> HIDE DEF a
  <2> QED
    BY <1>2, <2>2, <2>3, <2>4 DEF ActivationType
<1> HIDE DEF sub, a
<1>7. /\ cs2 \in Seq(ActivationType) /\ Len(cs2) = P /\ cs2[P] = a
      /\ \A d \in 1..P : d # P => cs2[d] = cs[d]
  <2>1. sub \in Seq(ActivationType) /\ P \in 1..Len(sub) /\ a \in ActivationType /\ cs2 = [sub EXCEPT ![P] = a]
    BY <1>1, <1>5, <1>6
  <2>2. cs2 \in Seq(ActivationType) /\ Len(cs2) = Len(sub) /\ \A d \in 1..Len(sub) : cs2[d] = IF d = P THEN a ELSE sub[d]
    BY ONLY <2>1, ExceptSeq
  <2> QED
    BY <1>1, <1>5, <2>2
<1>8. Len(cs2) = P
  BY <1>7
<1>9. ASSUME NEW d \in 1..P
      PROVE  /\ cs2[d].fun = cs[d].fun /\ cs2[d].BP = cs[d].BP /\ cs2[d].SP = cs[d].SP
             /\ cs2[d].stored = cs[d].stored /\ cs2[d].kept = cs[d].kept /\ cs2[d].written = cs[d].written
             /\ cs2[d].lost = cs[d].lost /\ (d # P => cs2[d].spoiled = cs[d].spoiled)
  BY <1>6, <1>7
<1>10. /\ Chain(cs, m) /\ m.BP = cs[D].BP /\ m.SP = cs[D].SP /\ m.SP = m.BP - FrameSize(g)
       /\ Frame(cs, D) /\ Linked(cs, m, D) /\ Frame(cs, P) /\ m.BP \in Int /\ cs[P].BP \in Int /\ cs[P].SP \in Int
  <2>1. Chain(cs, m)
    BY DEF Core
  <2> QED
    BY <1>1, <2>1, FramesAreAbove, CallTypes DEF Chain
<1>11. Returned(m, m2, g, cs[P].BP)
  <2>1. Holds(m, m.BP, Address(cs[P].BP))
    BY <1>1, <1>10 DEF Linked
  <2>2. \A r \in 1..used[g] : m.BP - SaveSlot(g, r) \in DOMAIN m.ram
    <3>1. \A r \in 1..used[g] : r \in 1..NumRegs /\ r <= used[g]
      BY <1>1, <1>2, Sizes
    <3> QED
      BY <1>1, <1>10, <3>1 DEF Core, Saves, Uses, SaveAddress
  <2>3. Layout /\ m \in Machine /\ g \in Fun /\ m.SP = m.BP - FrameSize(g) /\ cs[P].BP \in Int /\ m2 = Leave(m, g)
    BY <1>2, <1>10
  <2> QED
    BY ONLY <2>1, <2>2, <2>3, LeaveEffect
<1>12. /\ m2 \in Machine /\ m2.BP = cs[P].BP /\ m2.SP = cs[P].SP /\ m2.EAX = m.EAX /\ m2.ram = m.ram
       /\ \A r \in 1..NumRegs :
            m2.regs[r] = IF r <= used[g] THEN m.ram[SaveAddress(cs, D, r)] ELSE m.regs[r]
  <2>1. D > 1 /\ D - 1 = P
    BY <1>1
  <2>2. m.BP = cs[P].SP - numArgs[g] - 2 /\ numArgs[g] \in Nat
    BY <1>2, <1>10, <2>1, Sizes DEF Frame
  <2>3. m2.SP = m.BP + 2 + numArgs[g]
    BY <1>11 DEF Returned
  <2>4. m2.SP = cs[P].SP
    BY <1>10, <2>2, <2>3
  <2> QED
    BY <1>10, <1>11, <2>4 DEF Returned, SaveAddress
<1>13. /\ i2 \in Interp /\ i2.stack = i.stack /\ Len(i2.locals) = P
       /\ \A d \in 1..P : d # P => i2.locals[d] = i.locals[d]
       /\ DOMAIN i2.locals[P] = DOMAIN i.locals[P] \cup {IL!CALL}
       /\ i2.locals[P][IL!CALL] = i.retVal
       /\ \A x \in DOMAIN i.locals[P] : x # IL!CALL => i2.locals[P][x] = i.locals[P][x]
  <2>1. Back(i, i2, P)
    BY <1>1, ReturnEffect
  <2>2. \A d \in 1..P : d # P => d \in 1..P - 1
    BY <1>1
  <2> QED
    BY <2>1, <2>2 DEF Back
<1>14. ASSUME NEW d \in 1..P, NEW l \in Nat
       PROVE  /\ HasAddress(i2, d, l) <=> HasAddress(i, d, l)
              /\ HasAddress(i, d, l) => AddressOf(i2, d, l) = AddressOf(i, d, l)
              /\ Computed(i2, d, l) <=> Computed(i, d, l)
              /\ Computed(i, d, l) => i2.locals[d][IL!REG(l)] = i.locals[d][IL!REG(l)]
  <2>1. IL!ALLOCA(l) # IL!CALL /\ IL!REG(l) # IL!CALL
    BY KeysDiffer
  <2>2. CASE d = P
    BY <1>13, <2>1, <2>2 DEF HasAddress, AddressOf, Computed
  <2>3. CASE d # P
    BY <1>13, <2>3 DEF HasAddress, AddressOf, Computed
  <2> QED
    BY <2>2, <2>3
<1>15. Chain(cs2, m2)
  <2>1. ASSUME NEW d \in 1..P PROVE Frame(cs2, d) /\ Linked(cs2, m2, d)
    <3>1. Frame(cs, d) /\ Linked(cs, m, d)
      BY <1>3, <1>10 DEF Chain
    <3>2. d > 1 => d - 1 \in 1..P
      BY <1>1
    <3>3. d = 1 \/ d > 1
      BY <1>1
    <3>4. /\ cs2[d].fun = cs[d].fun /\ cs2[d].BP = cs[d].BP /\ cs2[d].SP = cs[d].SP
          /\ d > 1 => cs2[d - 1].BP = cs[d - 1].BP /\ cs2[d - 1].SP = cs[d - 1].SP
      BY <1>9, <3>2
    <3> QED
      BY <1>12, <3>1, <3>3, <3>4 DEF Frame, Linked, Holds
  <2>2. \A d, e \in 1..P : d < e => cs2[e].BP + 1 < cs2[d].SP
    BY <1>3, <1>9, <1>10 DEF Chain
  <2> QED
    BY <1>1, <1>7, <1>9, <1>12, <2>1, <2>2 DEF Chain
<1>16. History(cs2)
  <2>1. \A d \in 1..P : /\ cs[d].kept \subseteq cs[d].stored /\ cs[d].stored \subseteq cs[d].written
                        /\ cs[d].written \subseteq 1..Len(offsets[cs[d].fun]) /\ cs[d].kept = {}
                        /\ cs[d].lost \subseteq cs[d].stored
    BY <1>1, <1>3 DEF Core, History
  <2>2. \A d \in 1..P - 1 : d \in 1..P
    BY <1>1
  <2> QED
    BY <1>7, <1>9, <2>1, <2>2 DEF History
<1>17. /\ \A d \in 1..P : \A l \in cs[d].stored :
            HasAddress(i, d, l) /\ l \in Nat /\ AddressOf(i, d, l) + 8 <= Len(i.stack)
       /\ \A d \in 1..P : \A l \in Nat : HasAddress(i, d, l) => AddressOf(i, d, l) \in 0..Len(i.stack)
       /\ \A d, e \in 1..P : d < e =>
            \A j \in cs[d].stored : \A l \in Nat :
              HasAddress(i, e, l) => AddressOf(i, d, j) + 8 <= AddressOf(i, e, l)
  BY <1>3, CallTypes DEF Core, Addresses
<1>18. Addresses(cs2, i2)
  <2>1. ASSUME NEW d \in 1..P, NEW l \in cs2[d].stored
        PROVE  HasAddress(i2, d, l) /\ AddressOf(i2, d, l) + 8 <= Len(i2.stack)
    BY <1>9, <1>13, <1>14, <1>17
  <2>2. ASSUME NEW d \in 1..P, NEW l \in Nat, HasAddress(i2, d, l)
        PROVE  AddressOf(i2, d, l) \in 0..Len(i2.stack)
    BY <1>13, <1>14, <1>17, <2>2
  <2>3. ASSUME NEW d \in 1..P, NEW e \in 1..P, d < e, NEW j \in cs2[d].stored, NEW l \in Nat,
               HasAddress(i2, e, l)
        PROVE  AddressOf(i2, d, j) + 8 <= AddressOf(i2, e, l)
    <3>1. j \in cs[d].stored /\ j \in Nat /\ HasAddress(i, d, j) /\ HasAddress(i, e, l)
      BY <1>9, <1>14, <1>17, <2>3
    <3> QED
      BY <1>14, <1>17, <2>3, <3>1
  <2> QED
    <3>1. Len(i2.locals) = P
      BY <1>13
    <3> QED
      BY <1>8, <2>1, <2>2, <2>3, <3>1 DEF Addresses
<1>19. Variables(cs2, m2, i2)
  <2> SUFFICES ASSUME NEW d \in 1..P, NEW l \in cs2[d].stored,
                      Slot(cs2[d].fun, l) <= FrameSize(cs2[d].fun) \/ l \in cs2[d].kept
               PROVE  VariableAgrees(cs2, m2, i2, d, l)
    BY <1>8 DEF Variables
  <2>1. /\ l \in cs[d].stored /\ HasAddress(i, d, l) /\ l \in Nat
        /\ Slot(cs[d].fun, l) <= FrameSize(cs[d].fun) \/ l \in cs[d].kept
    BY <1>9, <1>17
  <2>2. VariableAgrees(cs, m, i, d, l)
    BY <1>3, <2>1 DEF Core, Variables
  <2>3. SameBytes(i, i2, d, l)
    BY <1>13, <1>14, <2>1 DEF SameBytes
  <2>4. SameVariable(cs, cs2, m, m2, i, i2, d, l)
    BY <1>9, <1>12, <2>3 DEF SameVariable, Holds
  <2> QED
    BY <2>2, <2>4, VariableKept
<1>20. ASSUME NEW d \in 1..P, NEW r
       PROVE  /\ Uses(cs2, d, r) <=> Uses(cs, d, r)
              /\ SaveAddress(cs2, d, r) = SaveAddress(cs, d, r)
              /\ Overwritten(cs2[d]) = Overwritten(cs[d])
  BY <1>9 DEF Uses, SaveAddress, Overwritten
<1>21. Saves(cs2, m2)
  <2> SUFFICES ASSUME NEW e \in 1..P, NEW r \in 1..NumRegs, Uses(cs2, e, r)
               PROVE  SaveAddress(cs2, e, r) \in DOMAIN m2.ram
    BY <1>8 DEF Saves
  <2>1. Uses(cs, e, r) /\ SaveAddress(cs2, e, r) = SaveAddress(cs, e, r)
    BY <1>20
  <2>2. SaveAddress(cs, e, r) \in DOMAIN m.ram
    BY <1>3, <2>1 DEF Core, Saves
  <2> QED
    BY <1>12, <2>1, <2>2
<1>22. ASSUME NEW d \in 1..P, NEW e \in 1..P, NEW r
       PROVE  /\ Unused(cs2, d, e, r) <=> Unused(cs, d, e, r)
              /\ SpoiledIn(cs2, d, e - 1, r) <=> SpoiledIn(cs, d, e - 1, r)
  <2>1. (\A x \in (d + 1)..(e - 1) : x \in 1..P) /\ (\A x \in d..(e - 1) : x \in 1..P /\ x # P)
    BY <1>1
  <2> QED
    BY <1>9, <1>20, <2>1 DEF Unused, SpoiledIn
<1>23. InRegister(cs2, m2, i2)
  <2> SUFFICES ASSUME NEW d \in 1..P, NEW r \in 1..NumRegs,
                      Uses(cs2, d, r), Computed(i2, d, r), Unused(cs2, d, P + 1, r)
               PROVE  m2.regs[r] = <<"register", d, r>> <=> ~SpoiledIn(cs2, d, P, r)
    BY <1>8 DEF InRegister
  <2>1. (\A x \in (d + 1)..(P + 1 - 1) : x \in 1..P) /\ r \in Nat
    BY <1>1
  <2>2. Uses(cs, d, r) /\ Computed(i, d, r) /\ Unused(cs, d, D, r)
    <3>1. Uses(cs, d, r) /\ Computed(i, d, r)
      BY <1>14, <1>20, <2>1
    <3>2. \A x \in (d + 1)..(P + 1 - 1) : ~Uses(cs, x, r)
      BY <1>20, <2>1 DEF Unused
    <3>3. P + 1 - 1 = D - 1
      BY <1>1
    <3> QED
      BY <3>1, <3>2, <3>3 DEF Unused
  <2>3. SpoiledIn(cs2, d, P, r) <=> SpoiledIn(cs, d, P, r) \/ r \in Spoils(cs[D])
    <3>1. (\A x \in d..P : x \in 1..P) /\ P \in d..P
      BY <1>1
    <3>2. \A x \in d..P : r \in cs2[x].spoiled <=> r \in cs[x].spoiled \/ (x = P /\ r \in Spoils(cs[D]))
      BY <1>6, <1>7, <1>9, <3>1
    <3> QED
      BY <3>1, <3>2 DEF SpoiledIn
  <2>4. CASE r <= used[g]
    <3>1. Uses(cs, D, r)
      BY <2>4 DEF Uses
    <3>2. m.ram[SaveAddress(cs, D, r)] = <<"register", d, r>>
            <=> ~SpoiledIn(cs, d, D - 1, r) /\ r \notin Overwritten(cs[D])
      BY <1>1, <1>3, <2>2, <3>1 DEF Core, Saved
    <3> QED
      BY <1>4, <1>12, <2>3, <2>4, <3>2
  <2>5. CASE ~(r <= used[g])
    <3>1. Unused(cs, d, D + 1, r)
      <4>1. \A x \in (d + 1)..(D + 1 - 1) : x \in (d + 1)..(D - 1) \/ x = D
        BY <1>1
      <4> QED
        BY <2>2, <2>5, <4>1 DEF Unused, Uses
    <3>2. m.regs[r] = <<"register", d, r>> <=> ~SpoiledIn(cs, d, D, r)
      BY <1>3, <2>2, <3>1 DEF Core, InRegister
    <3>3. SpoiledIn(cs, d, D, r) <=> SpoiledIn(cs, d, P, r) \/ r \in cs[D].spoiled
      <4>1. (\A x \in d..D : x \in d..P \/ x = D) /\ D \in d..D /\ (\A x \in d..P : x \in d..D)
        BY <1>1
      <4> QED
        BY <4>1 DEF SpoiledIn
    <3> QED
      BY <1>4, <1>12, <2>3, <2>5, <3>2, <3>3
  <2> QED
    BY <2>4, <2>5
<1>24. Saved(cs2, m2, i2)
  <2>1. ASSUME NEW d \in 1..P, NEW e \in 1..P, NEW r \in 1..NumRegs, d < e,
               Uses(cs2, d, r), Computed(i2, d, r), Unused(cs2, d, e, r), Uses(cs2, e, r)
        PROVE  m2.ram[SaveAddress(cs2, e, r)] = <<"register", d, r>>
                 <=> ~SpoiledIn(cs2, d, e - 1, r) /\ r \notin Overwritten(cs2[e])
    <3>1. r \in Nat
      OBVIOUS
    <3>2. Uses(cs, d, r) /\ Computed(i, d, r) /\ Unused(cs, d, e, r) /\ Uses(cs, e, r)
      BY <1>14, <1>20, <1>22, <2>1, <3>1
    <3>3. m.ram[SaveAddress(cs, e, r)] = <<"register", d, r>>
            <=> ~SpoiledIn(cs, d, e - 1, r) /\ r \notin Overwritten(cs[e])
      BY <1>3, <2>1, <3>2 DEF Core, Saved
    <3>4. /\ SaveAddress(cs2, e, r) = SaveAddress(cs, e, r) /\ Overwritten(cs2[e]) = Overwritten(cs[e])
          /\ SpoiledIn(cs2, d, e - 1, r) <=> SpoiledIn(cs, d, e - 1, r)
      BY <1>20, <1>22
    <3>5. m2.ram = m.ram
      BY <1>12
    <3> QED
      BY ONLY <3>3, <3>4, <3>5
  <2> QED
    BY ONLY <1>8, <2>1 DEF Saved
<1>25. Values(cs2, i2)
  <2> SUFFICES ASSUME NEW d \in 1..P, NEW r \in Nat, Computed(i2, d, r)
               PROVE  i2.locals[d][IL!REG(r)] = <<"register", d, r>>
    BY <1>8 DEF Values
  <2>1. Computed(i, d, r) /\ i2.locals[d][IL!REG(r)] = i.locals[d][IL!REG(r)]
    BY <1>14
  <2> QED
    BY <1>3, <2>1 DEF Core, Values
<1>26. Answer(cs2, m2, i2)
  BY <1>6, <1>7, <1>12, <1>13 DEF Answer
<1>27. cs2 # <<>>
  BY <1>1, <1>7, EmptySeq
<1> QED
  BY <1>7, <1>12, <1>13, <1>15, <1>16, <1>18, <1>19, <1>21, <1>23, <1>24, <1>25, <1>26, <1>27 DEF Agree, Core
-----------------------------------------------------------------------------
(* The steps of Execution.                                                  *)

(* While the program runs, the layout is what it was: what is known by it is   *)
(* known in the next state.                                                 *)
LEMMA AgreeKept ==
  ASSUME UNCHANGED framesVars,
         NEW cs, cs = calls', NEW m, m = machine', NEW i, i = interp', Agree(cs, m, i)
  PROVE  Agree(calls, machine, interp)'
<1>1. UNCHANGED <<funVisited, offsets, sizes, used>>
  BY DEF framesVars
<1>2. Chain(calls, machine)'
  BY <1>1 DEF Agree, Core, Chain, Frame, Linked, Holds, FrameSize, getStackSize, totalLocalsSize
<1>3. History(calls)'
  BY <1>1 DEF Agree, Core, History
<1>4. Addresses(calls, interp)'
  BY <1>1 DEF Agree, Core, Addresses, HasAddress, AddressOf
<1>5. Variables(calls, machine, interp)'
  <2>1. \A g, k : Slot(g, k)' = Slot(g, k) /\ FrameSize(g)' = FrameSize(g)
    BY <1>1 DEF Slot, FrameSize, getStackSize, totalLocalsSize
  <2>2. Variables(cs, m, i)
    BY DEF Agree, Core
  <2>3. \A d, k : VariableAgrees(cs, m, i, d, k) => VariableAgrees(calls, machine, interp, d, k)'
    <3>1. \A d, k, w : Reads(i, d, k, w) <=> Reads(interp, d, k, w)'
      BY DEF Reads, AddressOf
    <3>2. \A d, k : Clobbered(i, d, k) <=> Clobbered(interp, d, k)'
      BY DEF Clobbered, AddressOf
    <3> QED
      BY <2>1, <3>1, <3>2 DEF VariableAgrees, Holds, Own
  <2> QED
    BY <2>1, <2>2, <2>3 DEF Variables
<1>6. Saves(calls, machine)'
  BY <1>1 DEF Agree, Core, Saves, Uses, SaveAddress, SaveSlot, getStackSize, totalLocalsSize
<1>7. InRegister(calls, machine, interp)'
  BY <1>1 DEF Agree, Core, InRegister, Uses, Unused, Computed, SpoiledIn
<1>8. Saved(calls, machine, interp)'
  <2>1. \A e : /\ Overwritten(calls[e])' = Overwritten(cs[e])
               /\ \A r : SaveAddress(calls, e, r)' = SaveAddress(cs, e, r)
    BY <1>1 DEF Overwritten, Slot, SaveAddress, SaveSlot, getStackSize, totalLocalsSize
  <2> SUFFICES ASSUME NEW d \in 1..Len(cs), NEW e \in 1..Len(cs), NEW r \in 1..NumRegs, d < e,
                      Uses(calls, d, r)', Computed(interp, d, r)', Unused(calls, d, e, r)', Uses(calls, e, r)'
               PROVE  m.ram[SaveAddress(calls, e, r)'] = <<"register", d, r>>
                        <=> ~SpoiledIn(calls, d, e - 1, r)' /\ r \notin Overwritten(calls[e])'
    BY DEF Saved
  <2>2. Uses(cs, d, r) /\ Computed(i, d, r) /\ Unused(cs, d, e, r) /\ Uses(cs, e, r)
    BY <1>1 DEF Uses, Computed, Unused
  <2>3. SpoiledIn(calls, d, e - 1, r)' <=> SpoiledIn(cs, d, e - 1, r)
    BY DEF SpoiledIn
  <2>4. m.ram[SaveAddress(cs, e, r)] = <<"register", d, r>>
          <=> ~SpoiledIn(cs, d, e - 1, r) /\ r \notin Overwritten(cs[e])
    BY <2>2 DEF Agree, Core, Saved
  <2> QED
    BY <2>1, <2>3, <2>4
<1>9. Values(calls, interp)'
  BY <1>1 DEF Agree, Core, Values, Computed
<1>10. Answer(calls, machine, interp)' /\ calls' # <<>>
  BY DEF Agree, Answer
<1> QED
  BY <1>2, <1>3, <1>4, <1>5, <1>6, <1>7, <1>8, <1>9, <1>10 DEF Agree, Core

\* What is left to show of a step of a running program.
LEMMA StepKeeps ==
  ASSUME IInv, UNCHANGED framesVars, status' # "compiling",
         Running' => /\ compiled
                     /\ \E cs, m, i : /\ cs = calls' /\ m = machine' /\ i = interp'
                                      /\ Typed(cs, m, i) /\ Agree(cs, m, i)
  PROVE  IInv'
<1>1. Layout' /\ Fits'
  BY LayoutKept, FitsKept DEF IInv
<1>2. ASSUME Running' PROVE compiled' /\ Typed(calls, machine, interp)' /\ Agree(calls, machine, interp)'
  <2>1. compiled'
    BY <1>2 DEF compiled, framesVars
  <2>2. PICK cs, m, i : /\ cs = calls' /\ m = machine' /\ i = interp'
                        /\ Typed(cs, m, i) /\ Agree(cs, m, i)
    BY <1>2
  <2>3. Typed(calls, machine, interp)'
    BY <2>2 DEF Typed
  <2>4. Agree(calls, machine, interp)'
    BY <2>2, AgreeKept
  <2> QED
    BY <2>1, <2>3, <2>4
<1> QED
  BY <1>1, <1>2 DEF IInv

LEMMA CompileKeeps == ASSUME IInv, Compile PROVE IInv'
<1>1. Layout' /\ Fits'
  BY LayoutCompile, FitsCompile DEF IInv
<1>2. status = "compiling" /\ UNCHANGED <<machine, interp, calls, status>>
  BY DEF Compile
<1>3. ~Running'
  BY <1>2 DEF Running
<1> QED
  BY <1>1, <1>2, <1>3 DEF IInv

LEMMA StutterKeeps == ASSUME IInv, UNCHANGED vars PROVE IInv'
<1>1. UNCHANGED framesVars /\ UNCHANGED <<machine, interp, calls, status>>
  BY DEF vars
<1>2. CASE status = "compiling"
  <2>1. Layout' /\ Fits'
    BY <1>1, LayoutKept, FitsKept DEF IInv
  <2>2. ~Running'
    BY <1>1, <1>2 DEF Running
  <2> QED
    BY <1>1, <1>2, <2>1, <2>2 DEF IInv
<1>3. CASE status # "compiling"
  <2>1. Running' => compiled /\ Typed(calls, machine, interp) /\ Agree(calls, machine, interp)
    BY <1>1 DEF Running, IInv
  <2>2. PICK cs, m, i : cs = calls /\ m = machine /\ i = interp
    OBVIOUS
  <2>3. cs = calls' /\ m = machine' /\ i = interp'
    BY <1>1, <2>2
  <2>4. Running' => Typed(cs, m, i) /\ Agree(cs, m, i)
    BY <2>1, <2>2
  <2>5. status' # "compiling"
    BY <1>1, <1>3
  <2> QED
    BY <1>1, <2>1, <2>3, <2>4, <2>5, StepKeeps
<1> QED
  BY <1>2, <1>3

\* The steps within a call.
LEMMA RunningParts ==
  ASSUME IInv, Running
  PROVE  /\ Layout /\ Fits /\ compiled /\ calls \in Seq(ActivationType) /\ machine \in Machine /\ interp \in Interp
         /\ Agree(calls, machine, interp) /\ Core(calls, machine, interp)
         /\ Depth \in Nat \ {0} /\ Depth \in 1..Depth /\ Depth = Len(calls) /\ Len(interp.locals) = Depth
         /\ Top = calls[Depth] /\ Top \in ActivationType /\ Top.fun \in Fun /\ Top.fun \in funVisited
         /\ interp.locals # <<>>
<1>1. /\ Layout /\ Fits /\ compiled /\ calls \in Seq(ActivationType) /\ machine \in Machine /\ interp \in Interp
      /\ Agree(calls, machine, interp) /\ Core(calls, machine, interp) /\ calls # <<>>
  BY DEF IInv, Typed, Agree
<1>2. Depth = Len(calls) /\ Depth \in Nat \ {0} /\ Depth \in 1..Depth
  BY <1>1, LenProperties, EmptySeq DEF Depth
<1>3. Len(interp.locals) = Depth /\ interp.locals # <<>>
  BY <1>1, <1>2, InterpParts, EmptySeq DEF Core, Addresses
<1>4. Top = calls[Depth] /\ Top \in ActivationType /\ Top.fun \in Fun
  BY <1>1, <1>2, CallTypes DEF Top
<1>5. Top.fun \in funVisited
  BY <1>1, <1>2, <1>4 DEF Core, Chain, Frame
<1> QED
  BY <1>1, <1>2, <1>3, <1>4, <1>5

\* One of the calls changes: the last.
Changes(cs, a) ==
  /\ cs \in Seq(ActivationType) /\ cs # <<>> /\ a \in ActivationType
  /\ a.fun = cs[Len(cs)].fun /\ a.BP = cs[Len(cs)].BP /\ a.SP = cs[Len(cs)].SP

LEMMA ChangedCalls ==
  ASSUME NEW cs, NEW a, Changes(cs, a)
  PROVE  SameCalls(cs, [cs EXCEPT ![Len(cs)] = a]) /\ [cs EXCEPT ![Len(cs)] = a][Len(cs)] = a
<1> DEFINE D == Len(cs)
           cs2 == [cs EXCEPT ![D] = a]
<1>1. /\ cs \in Seq(ActivationType) /\ a \in ActivationType /\ D \in Nat /\ D \in 1..D
      /\ a.fun = cs[D].fun /\ a.BP = cs[D].BP /\ a.SP = cs[D].SP
  BY LenProperties, EmptySeq DEF Changes
<1>2. /\ cs2 \in Seq(ActivationType) /\ Len(cs2) = D
      /\ \A d \in 1..D : cs2[d] = IF d = D THEN a ELSE cs[d]
  BY <1>1, ExceptSeq
<1>3. \A d \in 1..D - 1 : d \in 1..D /\ d # D
  BY <1>1
<1> HIDE DEF cs2
<1>4. SameCalls(cs, cs2) /\ cs2[D] = a
  BY <1>1, <1>2, <1>3 DEF SameCalls
<1> QED
  BY <1>4 DEF cs2

LEMMA AllocateKeeps ==
  ASSUME IInv, NEW k \in DOMAIN offsets[Top.fun], AllocateVariable(k)
  PROVE  IInv'
<1>1. Running
  BY DEF AllocateVariable
<1>2. /\ Layout /\ Fits /\ compiled /\ calls \in Seq(ActivationType) /\ machine \in Machine /\ interp \in Interp
      /\ Agree(calls, machine, interp)
      /\ Depth \in Nat \ {0} /\ Depth = Len(calls)
      /\ Top = calls[Depth] /\ Top \in ActivationType /\ Top.fun \in Fun /\ interp.locals # <<>>
  BY <1>1, RunningParts
<1>3. k \in 1..Len(offsets[Top.fun]) /\ k \in Nat
  BY <1>2, Sizes, LenProperties
<1> DEFINE a == [Top EXCEPT !.stored = @ \ {k}, !.kept = @ \ {k}, !.lost = @ \ {k}]
           numBytes == sizes[Top.fun][k]
<1>4. /\ calls' = [calls EXCEPT ![Depth] = a] /\ interp' = IL!Alloca(interp, k, numBytes)
      /\ UNCHANGED <<framesVars, machine>> /\ status' # "compiling"
  BY DEF AllocateVariable, Top
<1>5. a \in ActivationType /\ a.fun = calls[Depth].fun /\ a.BP = calls[Depth].BP /\ a.SP = calls[Depth].SP
  BY <1>2 DEF ActivationType
<1>6. PICK cs, m, i : cs = calls' /\ m = machine' /\ i = interp'
  OBVIOUS
<1>7. numBytes \in Nat
  BY <1>2, <1>3, HasSize
<1> HIDE DEF a, numBytes
<1>8. SameCalls(calls, cs) /\ cs[Depth] = a
  <2>1. Changes(calls, a) /\ cs = [calls EXCEPT ![Len(calls)] = a]
    BY <1>2, <1>4, <1>5, <1>6, EmptySeq DEF Changes
  <2> QED
    BY <1>2, <2>1, ChangedCalls
<1>9. Allocated(interp, i, k, numBytes)
  BY <1>2, <1>3, <1>4, <1>6, <1>7, AllocaEffect
<1>10. Agree(cs, machine, i)
  <2>1. /\ k \in 1..Len(offsets[calls[Depth].fun])
        /\ Forgets(calls[Depth], cs[Depth], k)
    BY <1>2, <1>3, <1>8 DEF a, Forgets
  <2>2. PICK D : D = Depth
    OBVIOUS
  <2>3. /\ Layout /\ calls \in Seq(ActivationType) /\ machine \in Machine /\ interp \in Interp
        /\ Agree(calls, machine, interp) /\ D = Len(calls) /\ k \in 1..Len(offsets[calls[D].fun])
        /\ numBytes \in Nat /\ Allocated(interp, i, k, numBytes) /\ SameCalls(calls, cs)
        /\ Forgets(calls[D], cs[D], k)
    BY <1>2, <1>8, <1>9, <1>7, <2>1, <2>2
  <2> QED
    BY ONLY <2>3, AllocateAgrees
<1>11. Typed(cs, m, i) /\ m = machine
  BY <1>2, <1>4, <1>6, <1>8, <1>9 DEF Typed, SameCalls, Allocated
<1> QED
  BY <1>2, <1>4, <1>6, <1>10, <1>11, StepKeeps

LEMMA StoreKeeps ==
  ASSUME IInv, NEW k \in DOMAIN offsets[Top.fun], StoreVariable(k)
  PROVE  IInv'
<1>1. Running
  BY DEF StoreVariable
<1>2. /\ Layout /\ compiled /\ calls \in Seq(ActivationType) /\ machine \in Machine /\ interp \in Interp
      /\ Agree(calls, machine, interp)
      /\ Depth \in Nat \ {0} /\ Depth = Len(calls) /\ Len(interp.locals) = Depth
      /\ Top = calls[Depth] /\ Top \in ActivationType /\ Top.fun \in Fun
  BY <1>1, RunningParts
<1>3. k \in 1..Len(offsets[Top.fun]) /\ k \in Nat
  BY <1>2, Sizes, LenProperties
<1> DEFINE o == Overwrites(k)
           a == [Top EXCEPT !.stored = @ \cup {k}, !.kept = @ \cup {k}, !.written = @ \cup {k},
                            !.lost = (@ \ {k}) \cup o]
           v == Value("variable", k)
<1>4. /\ calls' = [calls EXCEPT ![Depth] = a] /\ interp' = IL!Store(interp, k, v)
      /\ machine' = ST(machine, Top.fun, k, v)
      /\ UNCHANGED framesVars /\ status' # "compiling"
  BY <1>1 DEF StoreVariable, Top, Running
<1>5. a \in ActivationType /\ a.fun = calls[Depth].fun /\ a.BP = calls[Depth].BP /\ a.SP = calls[Depth].SP
  <2>1. o \subseteq Nat
    BY <1>2 DEF ActivationType, Overwrites
  <2> HIDE DEF o
  <2> QED
    BY <1>2, <1>3, <2>1 DEF ActivationType
<1>6. PICK cs, m, i : cs = calls' /\ m = machine' /\ i = interp'
  OBVIOUS
<1>7. HasAddress(interp, Depth, k)
  BY <1>2 DEF StoreVariable, IL!IsSet, IL!Locals, HasAddress
<1>8. v \in Word /\ v = <<"variable", Depth, k>>
  <2>1. v = <<"variable", Depth, k>> /\ Depth \in Int /\ k \in Int \cup Fun /\ "variable" \in Kinds
    BY <1>2, <1>3 DEF Value, Kinds
  <2> HIDE DEF v
  <2> QED
    BY <2>1, WordsAreWords
<1>9. o = {l \in calls[Depth].stored \ {k} : Overlapping(interp, Depth, k, l)}
  BY <1>2 DEF Overwrites, IL!Overlap, IL!address, IL!memSize, IL!get, IL!Locals, Overlapping, AddressOf
<1> HIDE DEF a, v, o
<1>10. SameCalls(calls, cs) /\ cs[Depth] = a
  <2>1. Changes(calls, a) /\ cs = [calls EXCEPT ![Len(calls)] = a]
    BY <1>2, <1>4, <1>5, <1>6, EmptySeq DEF Changes
  <2> QED
    BY <1>2, <2>1, ChangedCalls
<1>11. m = ST(machine, calls[Depth].fun, k, v) /\ i = IL!Store(interp, k, v)
       /\ k \in 1..Len(offsets[calls[Depth].fun])
       /\ Keeps(calls[Depth], cs[Depth], k, o)
  BY <1>2, <1>3, <1>4, <1>6, <1>10 DEF a, Keeps
<1>12. m \in Machine /\ i \in Interp /\ Agree(cs, m, i)
  <2>1. PICK D : D = Depth
    OBVIOUS
  <2>2. /\ Layout /\ calls \in Seq(ActivationType) /\ machine \in Machine /\ interp \in Interp
        /\ Agree(calls, machine, interp) /\ D = Len(calls) /\ k \in 1..Len(offsets[calls[D].fun])
        /\ HasAddress(interp, D, k) /\ v \in Word /\ v = <<"variable", D, k>>
        /\ o = {l \in calls[D].stored \ {k} : Overlapping(interp, D, k, l)}
        /\ m = ST(machine, calls[D].fun, k, v) /\ i = IL!Store(interp, k, v) /\ SameCalls(calls, cs)
        /\ Keeps(calls[D], cs[D], k, o)
    BY <1>2, <1>7, <1>8, <1>10, <1>11, <1>9, <2>1
  <2> QED
    BY ONLY <2>2, StoreAgrees
<1>13. Typed(cs, m, i)
  BY <1>10, <1>12 DEF Typed, SameCalls
<1> QED
  BY <1>2, <1>4, <1>6, <1>12, <1>13, StepKeeps

LEMMA ComputeKeeps ==
  ASSUME IInv, NEW r \in 1..NumRegs, Compute(r)
  PROVE  IInv'
<1>1. Running
  BY DEF Compute
<1>2. /\ Layout /\ compiled /\ calls \in Seq(ActivationType) /\ machine \in Machine /\ interp \in Interp
      /\ Agree(calls, machine, interp)
      /\ Depth \in Nat \ {0} /\ Depth = Len(calls) /\ interp.locals # <<>>
      /\ Top = calls[Depth] /\ Top \in ActivationType
  BY <1>1, RunningParts
<1> DEFINE a == [Top EXCEPT !.spoiled = @ \ {r}]
           v == Value("register", r)
<1>3. /\ calls' = [calls EXCEPT ![Depth] = a] /\ interp' = IL!set(interp, IL!REG(r), v)
      /\ machine' = [machine EXCEPT !.regs[r] = v]
      /\ UNCHANGED framesVars /\ status' # "compiling" /\ r <= used[Top.fun]
  BY <1>1 DEF Compute, Top, Running
<1>4. a \in ActivationType /\ a.fun = calls[Depth].fun /\ a.BP = calls[Depth].BP /\ a.SP = calls[Depth].SP
  BY <1>2 DEF ActivationType
<1>5. PICK cs, m, i : cs = calls' /\ m = machine' /\ i = interp'
  OBVIOUS
<1>6. v \in Word /\ v = <<"register", Depth, r>> /\ IL!REG(r) \in Keys
  <2>1. v = <<"register", Depth, r>> /\ Depth \in Int /\ r \in Int \cup Fun /\ r \in Nat /\ "register" \in Kinds
    BY <1>2 DEF Value, Kinds
  <2> HIDE DEF v
  <2> QED
    BY <2>1, WordsAreWords, KeysDiffer
<1> HIDE DEF a, v
<1>7. SameCalls(calls, cs) /\ cs[Depth] = a
  <2>1. Changes(calls, a) /\ cs = [calls EXCEPT ![Len(calls)] = a]
    BY <1>2, <1>3, <1>4, <1>5, EmptySeq DEF Changes
  <2> QED
    BY <1>2, <2>1, ChangedCalls
<1>8. RegisterSet(interp, i, IL!REG(r), v)
  BY <1>2, <1>3, <1>5, <1>6, SetEffect
<1>9. Uses(calls, Depth, r) /\ Puts(machine, m, r, v)
      /\ Computes(calls[Depth], cs[Depth], r)
  BY <1>2, <1>3, <1>5, <1>7 DEF Uses, a, Computes, Puts
<1>10. Agree(cs, m, i)
  <2>1. PICK D : D = Depth
    OBVIOUS
  <2>2. /\ Layout /\ calls \in Seq(ActivationType) /\ machine \in Machine /\ interp \in Interp
        /\ Agree(calls, machine, interp) /\ D = Len(calls) /\ r \in 1..NumRegs /\ Uses(calls, D, r)
        /\ v = <<"register", D, r>> /\ Puts(machine, m, r, v)
        /\ RegisterSet(interp, i, IL!REG(r), v) /\ SameCalls(calls, cs)
        /\ Computes(calls[D], cs[D], r)
    BY <1>2, <1>6, <1>7, <1>8, <1>9, <2>1
  <2> QED
    BY ONLY <2>2, ComputeAgrees
<1>11. m \in Machine
  <2>1. machine.regs \in [1..NumRegs -> Word]
    BY <1>2, MachineParts
  <2>2. [machine.regs EXCEPT ![r] = v] \in [1..NumRegs -> Word]
    BY <1>6, <2>1
  <2> QED
    BY <1>2, <1>9, <2>2 DEF Machine, Puts
<1>12. Typed(cs, m, i)
  BY <1>7, <1>8, <1>11 DEF Typed, SameCalls, RegisterSet
<1> QED
  BY <1>2, <1>3, <1>5, <1>10, <1>12, StepKeeps

\* A call, from the program's start or from a function; cs is the caller's side.
Callers(cs) ==
  /\ cs \in Seq(ActivationType) /\ Len(cs) = Depth
  /\ Core(cs, machine, interp) /\ Waits(cs)
  /\ cs = <<>> => machine.BP = 0

LEMMA EnterKeeps ==
  ASSUME IInv, compiled, machine \in Machine, interp \in Interp,
         NEW cs, Callers(cs),
         NEW g \in funVisited, NEW args \in [1..numArgs[g] -> Word],
         \A k \in 1..numArgs[g] : args[k] = <<"argument", Depth, k>>,
         Enter(g, args, cs)
  PROVE  IInv'
<1>1. /\ Layout /\ Fits /\ g \in Fun /\ numArgs[g] \in 0..Len(offsets[g]) /\ Len(offsets[g]) \in Nat
  BY ParametersHaveWords, Sizes DEF IInv
<1>2. /\ cs \in Seq(ActivationType) /\ Core(cs, machine, interp) /\ Waits(cs)
      /\ cs = <<>> => machine.BP = 0
  BY DEF Callers
<1>3. PICK D, n, m, i, c : D = Len(cs) /\ n = numArgs[g] /\ c = calls' /\ m = machine' /\ i = interp'
  OBVIOUS
<1>4. D = Depth /\ D \in Nat /\ D \in Int /\ n \in Nat /\ n <= Len(offsets[g]) /\ args \in [1..n -> Word]
      /\ \A k \in 1..n : args[k] = <<"argument", D, k>>
  BY <1>1, <1>2, <1>3, LenProperties DEF Callers
<1>5. /\ m = Call(machine, g, args, D) /\ i = IL!Enter(interp, args, sizes[g]) /\ c = Append(cs, Activation(g, m))
      /\ UNCHANGED framesVars /\ status' # "compiling"
  BY <1>3, <1>4 DEF Enter
<1>6. Called(machine, m, g, n, args, D)
  <2>1. /\ Layout /\ machine \in Machine /\ g \in Fun /\ n = numArgs[g] /\ n <= Len(offsets[g])
        /\ args \in [1..n -> Word] /\ D \in Int /\ m = Call(machine, g, args, D)
    BY <1>1, <1>3, <1>4, <1>5
  <2> QED
    BY ONLY <2>1, CallEffect
<1>7. Entered(interp, i, n, args)
  <2>1. \A k \in 1..n : k \in 1..Len(offsets[g])
    BY <1>1, <1>4
  <2>2. \A k \in 1..n : sizes[g][k] \in Nat
    BY <1>1, <2>1, HasSize
  <2> QED
    BY <1>4, <1>5, <2>2, EnterEffect
<1>8. c \in Seq(ActivationType) /\ Agree(c, m, i)
  <2>1. /\ Layout /\ cs \in Seq(ActivationType) /\ machine \in Machine /\ interp \in Interp
        /\ Core(cs, machine, interp) /\ Waits(cs) /\ (cs = <<>> => machine.BP = 0)
        /\ g \in Fun /\ g \in funVisited /\ n \in Nat /\ n = numArgs[g] /\ n <= Len(offsets[g])
        /\ args \in [1..n -> Word] /\ (\A k \in 1..n : args[k] = <<"argument", D, k>>)
        /\ D = Len(cs) /\ Called(machine, m, g, n, args, D) /\ Entered(interp, i, n, args)
        /\ c = Append(cs, Activation(g, m))
    BY <1>1, <1>2, <1>3, <1>4, <1>5, <1>6, <1>7
  <2> QED
    BY ONLY <2>1, CallAgrees
<1>9. Typed(c, m, i)
  BY <1>6, <1>7, <1>8 DEF Typed, Called, Entered
<1> QED
  BY <1>3, <1>5, <1>8, <1>9, StepKeeps

LEMMA StartKeeps == ASSUME IInv, StartProgram PROVE IInv'
<1>1. /\ calls = <<>> /\ interp = IL!Start /\ machine \in Machine /\ machine.BP = 0
      /\ compiled /\ Layout /\ Enter(main, <<>>, <<>>) /\ main \in funVisited
  BY DEF IInv, StartProgram, Layout
<1>2. numArgs[main] = 0 /\ <<>> \in [1..0 -> Word] /\ \A k \in 1..0 : FALSE
  BY FramesAssumption
<1>3. interp \in Interp /\ interp.locals = <<>>
  <2>1. <<>> \in Seq(Byte) /\ <<>> \in Seq(Registers)
    OBVIOUS
  <2> QED
    BY <1>1, <2>1, WordsAreWords DEF Interp, IL!Start
<1>4. PICK cs : cs = <<>>
  OBVIOUS
<1>5. cs \in Seq(ActivationType) /\ Len(cs) = 0 /\ Depth = 0 /\ Len(interp.locals) = 0
  BY <1>1, <1>3, <1>4, EmptySeq DEF Depth
<1>6. 1..Len(cs) = {} /\ 1..Len(cs) - 1 = {}
  BY <1>5
<1>7. Core(cs, machine, interp) /\ Waits(cs)
  <2>1. Chain(cs, machine) /\ History(cs) /\ Addresses(cs, interp) /\ Waits(cs)
    BY <1>4, <1>5, <1>6 DEF Chain, History, Addresses, Waits
  <2>2. /\ Variables(cs, machine, interp) /\ Saves(cs, machine) /\ InRegister(cs, machine, interp)
        /\ Saved(cs, machine, interp) /\ Values(cs, interp)
    BY <1>6 DEF Variables, Saves, InRegister, Saved, Values
  <2> QED
    BY <2>1, <2>2 DEF Core
<1>8. Callers(cs)
  BY <1>1, <1>5, <1>7 DEF Callers
<1>9. Enter(main, cs, cs) /\ cs \in [1..numArgs[main] -> Word] /\ \A k \in 1..numArgs[main] : cs[k] = <<"argument", Depth, k>>
  BY <1>1, <1>2, <1>4
<1> QED
  BY <1>1, <1>3, <1>8, <1>9, EnterKeeps

LEMMA CallKeeps == ASSUME IInv, NEW g \in Fun, CallFunction(g) PROVE IInv'
<1>1. Running
  BY DEF CallFunction
<1>2. /\ Layout /\ compiled /\ calls \in Seq(ActivationType) /\ machine \in Machine /\ interp \in Interp
      /\ Agree(calls, machine, interp)
      /\ Depth \in Nat \ {0} /\ Depth = Len(calls)
      /\ Top = calls[Depth] /\ Top \in ActivationType /\ Top.fun \in Fun
  BY <1>1, RunningParts
<1>3. g \in funVisited
  BY <1>2 DEF CallFunction, Layout
<1> DEFINE a == [Top EXCEPT !.kept = {}, !.answered = FALSE]
           args == [k \in 1..numArgs[g] |-> Value("argument", k)]
<1>4. PICK cs : cs = [calls EXCEPT ![Len(calls)] = a]
  OBVIOUS
<1>5. Enter(g, args, cs)
  BY <1>2, <1>4 DEF CallFunction, Top
<1>6. /\ args \in [1..numArgs[g] -> Word]
      /\ \A k \in 1..numArgs[g] : args[k] = <<"argument", Depth, k>>
  <2>1. numArgs[g] \in Nat /\ Depth \in Int /\ "argument" \in Kinds
    BY <1>2, FramesAssumption DEF Kinds
  <2>2. \A k \in 1..numArgs[g] : Value("argument", k) = <<"argument", Depth, k>> /\ k \in Int \cup Fun
    BY <2>1 DEF Value
  <2>3. \A k \in 1..numArgs[g] : Value("argument", k) \in Word
    BY <2>1, <2>2, WordsAreWords
  <2> QED
    BY <2>2, <2>3
<1>7. a \in ActivationType /\ a.fun = Top.fun /\ a.BP = Top.BP /\ a.SP = Top.SP
  BY <1>2 DEF ActivationType
<1>8. SameCalls(calls, cs) /\ cs[Depth] = a
  <2>1. Changes(calls, a)
    BY <1>2, <1>7, EmptySeq DEF Changes
  <2> HIDE DEF a
  <2> QED
    BY <1>2, <1>4, <2>1, ChangedCalls
<1>9. Callers(cs)
  <2>1. PICK D : D = Depth
    OBVIOUS
  <2>2. /\ Layout /\ calls \in Seq(ActivationType) /\ machine \in Machine /\ interp \in Interp
        /\ Agree(calls, machine, interp) /\ D = Len(calls) /\ SameCalls(calls, cs)
        /\ Forsakes(calls[D], cs[D])
    BY <1>2, <1>8, <2>1 DEF Forsakes
  <2>3. Core(cs, machine, interp) /\ Waits(cs)
    BY ONLY <2>2, CallerAgrees
  <2>4. cs \in Seq(ActivationType) /\ Len(cs) = Depth /\ cs # <<>>
    BY <1>2, <2>2, EmptySeq DEF SameCalls
  <2> QED
    BY <2>3, <2>4 DEF Callers
<1> HIDE DEF args
<1> QED
  BY <1>2, <1>3, <1>5, <1>6, <1>9, EnterKeeps

\* A return.
LEMMA CoreOf ==
  ASSUME NEW cs, NEW m, NEW m2, NEW i, NEW i2, Core(cs, m, i),
         m2.ram = m.ram, m2.BP = m.BP, m2.SP = m.SP, m2.regs = m.regs,
         i2.stack = i.stack, i2.locals = i.locals
  PROVE  Core(cs, m2, i2)
<1>1. Chain(cs, m2)
  BY DEF Core, Chain, Linked, Holds
<1>2. Addresses(cs, i2)
  BY DEF Core, Addresses, HasAddress, AddressOf
<1>3. Variables(cs, m2, i2)
  <2>1. \A d, k : VariableAgrees(cs, m, i, d, k) => VariableAgrees(cs, m2, i2, d, k)
    <3>1. \A d, k : SameVariable(cs, cs, m, m2, i, i2, d, k)
      BY DEF SameVariable, SameBytes, AddressOf, Holds
    <3> QED
      BY <3>1, VariableKept
  <2> QED
    BY <2>1 DEF Core, Variables
<1>4. Saves(cs, m2)
  BY DEF Core, Saves
<1>5. InRegister(cs, m2, i2)
  BY DEF Core, InRegister, Computed
<1>6. Saved(cs, m2, i2)
  BY DEF Core, Saved, Computed
<1>7. Values(cs, i2)
  BY DEF Core, Values, Computed
<1> QED
  BY <1>1, <1>2, <1>3, <1>4, <1>5, <1>6, <1>7 DEF Core

LEMMA LeavesKeeps ==
  ASSUME IInv, Running, NEW m \in Machine, NEW i \in Interp, Core(calls, m, i),
         NEW answers \in BOOLEAN, answers => m.EAX = i.retVal,
         Leaves(m, i, answers)
  PROVE  IInv'
<1>1. /\ Layout /\ compiled /\ calls \in Seq(ActivationType)
      /\ Depth \in Nat \ {0} /\ Depth = Len(calls) /\ Top = calls[Depth]
  BY RunningParts
<1>2. UNCHANGED framesVars /\ status' # "compiling" /\ (Running' => Depth # 1)
  BY DEF Leaves, Running
<1>3. PICK D, P, c2, m2, i2 : D = Depth /\ P = Depth - 1 /\ c2 = calls' /\ m2 = machine' /\ i2 = interp'
  OBVIOUS
<1>4. ASSUME Running'
      PROVE  compiled /\ Typed(c2, m2, i2) /\ Agree(c2, m2, i2)
  <2>1. Depth # 1
    BY <1>2, <1>4
  <2>2. D # 0 /\ P = D - 1 /\ P # 0 /\ 1 <= Depth - 1 /\ Depth - 1 \in Nat
    BY <1>1, <1>3, <2>1
  <2>3. m2 = Leave(m, calls[D].fun) /\ i2 = IL!Leave(i)
    BY <1>1, <1>3 DEF Leaves
  <2>4. SubSeq(calls, 1, Depth - 1) # <<>>
    <3>1. Len(SubSeq(calls, 1, Depth - 1)) = Depth - 1
      <4>1. \A d \in 1..Depth - 1 : calls[d] \in ActivationType
        BY <1>1, ElementOfSeq
      <4>2. 1 \in Int /\ Depth - 1 \in Int /\ \A d \in 1..Depth - 1 : d \in 1..Len(calls)
        BY <1>1
      <4>3. Len(SubSeq(calls, 1, Depth - 1)) = IF 1 <= Depth - 1 THEN Depth - 1 - 1 + 1 ELSE 0
        BY <1>1, <4>1, <4>2, SubSeqProperties
      <4> QED
        BY <2>2, <4>3
    <3>2. Depth - 1 # 0
      BY <2>2
    <3>3. \A s : s = <<>> => Len(s) = 0
      BY EmptySeq
    <3> QED
      BY ONLY <3>1, <3>2, <3>3
  <2>5. c2 = Resumed(calls, answers)
    BY <1>1, <1>3, <2>4 DEF Leaves, Resumed
  <2>6. /\ Layout /\ calls \in Seq(ActivationType) /\ m \in Machine /\ i \in Interp
        /\ Core(calls, m, i) /\ D = Len(calls) /\ D # 0 /\ P = D - 1 /\ P # 0
        /\ answers \in BOOLEAN /\ (answers => m.EAX = i.retVal)
        /\ m2 = Leave(m, calls[D].fun) /\ i2 = IL!Leave(i) /\ c2 = Resumed(calls, answers)
    BY <1>1, <1>3, <2>2, <2>3, <2>5
  <2>7. c2 \in Seq(ActivationType) /\ m2 \in Machine /\ i2 \in Interp /\ Agree(c2, m2, i2)
    BY ONLY <2>6, ReturnAgrees
  <2> QED
    BY <1>1, <2>7 DEF Typed
<1>5. status' # "compiling"
  BY <1>2
<1> QED
  BY <1>2, <1>3, <1>4, <1>5, StepKeeps

LEMMA ReturnKeeps == ASSUME IInv, ReturnValue \/ ReturnNothing PROVE IInv'
<1>1. Running
  BY DEF ReturnValue, ReturnNothing
<1>2. /\ machine \in Machine /\ interp \in Interp /\ Core(calls, machine, interp)
      /\ Depth \in Nat /\ Top.fun \in Fun
  BY <1>1, RunningParts
<1>3. CASE ReturnValue
  <2> DEFINE v == Value("result", Top.fun)
  <2>1. PICK m, i : m = [machine EXCEPT !.EAX = v] /\ i = IL!Note(interp, v)
    OBVIOUS
  <2>2. v \in Word
    <3>1. v = <<"result", Depth, Top.fun>> /\ Depth \in Int /\ Top.fun \in Int \cup Fun /\ "result" \in Kinds
      BY <1>2 DEF Value, Kinds
    <3> HIDE DEF v
    <3> QED
      BY <3>1, WordsAreWords
  <2>3. Leaves(m, i, TRUE)
    BY <1>3, <2>1 DEF ReturnValue
  <2> HIDE DEF v
  <2>4. /\ m \in Machine /\ m.EAX = v /\ m.ram = machine.ram /\ m.BP = machine.BP /\ m.SP = machine.SP
        /\ m.regs = machine.regs
    BY <1>2, <2>1, <2>2 DEF Machine
  <2>5. i \in Interp /\ i.retVal = v /\ i.stack = interp.stack /\ i.locals = interp.locals
    BY <1>2, <2>1, <2>2, NoteEffect
  <2>6. Core(calls, m, i)
    BY <1>2, <2>4, <2>5, CoreOf
  <2> QED
    BY <1>1, <2>3, <2>4, <2>5, <2>6, LeavesKeeps
<1>4. CASE ReturnNothing
  <2>1. Leaves(machine, interp, FALSE)
    BY <1>4 DEF ReturnNothing
  <2> QED
    BY <1>1, <1>2, <2>1, LeavesKeeps
<1> QED
  BY <1>3, <1>4
-----------------------------------------------------------------------------
LEMMA Initially == Init => IInv
<1> SUFFICES ASSUME Init PROVE IInv
  OBVIOUS
<1>1. Layout /\ Fits
  BY LayoutInit, FitsInit DEF Init
<1>2. calls = <<>> /\ interp = IL!Start /\ status = "compiling"
  BY DEF Init
<1>3. machine \in Machine /\ machine.SP = 0 /\ machine.BP = 0
  <2>1. IL!Undefined \in Word
    BY WordsAreWords
  <2>2. [a \in {} |-> Address(0)] \in Ram
    <3>1. {} \in SUBSET Int /\ [a \in {} |-> Address(0)] \in [{} -> Word]
      OBVIOUS
    <3> QED
      BY <3>1 DEF Ram
  <2>3. [r \in 1..NumRegs |-> IL!Undefined] \in [1..NumRegs -> Word]
    BY <2>1
  <2>4. 0 \in Int
    OBVIOUS
  <2> QED
    BY <2>1, <2>2, <2>3, <2>4 DEF Init, Machine
<1>4. ~Running
  BY <1>2 DEF Running
<1> QED
  BY <1>1, <1>2, <1>3, <1>4 DEF IInv

(* What holds at every step, of the running call and of those that wait for    *)
(* it: frames do not overlap and are linked; every variable that still has its *)
(* value has it in its word; a register is where its last user, or the first   *)
(* callee that saved it, put it.                                            *)
THEOREM Invariant == Spec => []IInv
<1>1. ASSUME IInv, [Next]_vars PROVE IInv'
  <2>1. CASE Compile
    BY <1>1, <2>1, CompileKeeps
  <2>2. CASE StartProgram
    BY <1>1, <2>2, StartKeeps
  <2>3. ASSUME NEW k \in DOMAIN offsets[Top.fun], AllocateVariable(k) PROVE IInv'
    BY <1>1, <2>3, AllocateKeeps
  <2>4. ASSUME NEW k \in DOMAIN offsets[Top.fun], StoreVariable(k) PROVE IInv'
    BY <1>1, <2>4, StoreKeeps
  <2>5. ASSUME NEW r \in 1..NumRegs, Compute(r) PROVE IInv'
    BY <1>1, <2>5, ComputeKeeps
  <2>6. ASSUME NEW g \in Fun, CallFunction(g) PROVE IInv'
    BY <1>1, <2>6, CallKeeps
  <2>7. CASE ReturnValue \/ ReturnNothing
    BY <1>1, <2>7, ReturnKeeps
  <2>8. CASE UNCHANGED vars
    BY <1>1, <2>8, StutterKeeps
  <2> QED
    BY <1>1, <2>1, <2>2, <2>3, <2>4, <2>5, <2>6, <2>7, <2>8 DEF Next, Run
<1> QED
  BY <1>1, Initially, PTL DEF Spec

(* CallersResume: whatever functions call and however deep, a return finds the *)
(* base pointer of the caller and the address to return to where the call put  *)
(* them, and the pointers are those of the caller again.                     *)
THEOREM CallersAlwaysResume == Spec => []CallersResume
<1>1. ASSUME IInv PROVE CallersResume
  <2> SUFFICES ASSUME Running PROVE /\ machine.BP = Top.BP /\ machine.SP = Top.SP
                                    /\ \A d \in 1..Depth : Linked(calls, machine, d)
    BY DEF CallersResume, Linked, Holds
  <2>1. Chain(calls, machine) /\ Depth = Len(calls) /\ Top = calls[Depth] /\ Depth \in Nat \ {0}
    BY <1>1, RunningParts DEF Core
  <2>2. calls # <<>>
    BY <2>1, EmptySeq
  <2> QED
    BY <2>1, <2>2 DEF Chain
<1> QED
  BY <1>1, Invariant, PTL

(* VariablesAgree: whatever the sizes of variables are, the interpreter can read *)
(* every variable that has a value and reads what is in its word of the frame,  *)
(* exactly if no store to another variable of the call has overwritten it since; *)
(* those of other calls never do.  A variable whose word is not part of what its *)
(* function reserves is excepted once the function has called another.        *)
THEOREM VariablesAlwaysAgree == Spec => []VariablesAgree
<1>1. ASSUME IInv, Running, NEW k \in Top.stored
      PROVE  /\ IL!CanLoad(interp, k)
             /\ Slot(Top.fun, k) <= FrameSize(Top.fun) \/ k \in Top.kept
                  => (IL!Bytes(machine.ram[Top.BP - Slot(Top.fun, k)]) = IL!Load(interp, k)
                        <=> k \notin Top.lost)
  <2> DEFINE D == Depth
             p == AddressOf(interp, D, k)
             word == machine.ram[Top.BP - Slot(Top.fun, k)]
  <2>1. /\ Core(calls, machine, interp) /\ D = Len(calls) /\ D \in 1..D /\ Top = calls[D]
        /\ Len(interp.locals) = D
    BY <1>1, RunningParts
  <2>2. /\ p + 8 <= Len(interp.stack) /\ IL!address(interp, k) = p
    BY <2>1 DEF Core, Addresses, AddressOf, IL!address, IL!get, IL!Locals
  <2>3. IL!CanLoad(interp, k)
    BY <2>2 DEF IL!CanLoad, IL!memSize
  <2>4. IL!Bytes(word) = [j \in 1..8 |-> <<word, j>>] /\ IL!Load(interp, k) = [j \in 1..8 |-> interp.stack[p + j]]
    BY <2>2 DEF IL!Bytes, IL!Load, IL!memSize
  <2>5. ASSUME Slot(Top.fun, k) <= FrameSize(Top.fun) \/ k \in Top.kept
        PROVE  IL!Bytes(word) = IL!Load(interp, k) <=> k \notin Top.lost
    <3>1. VariableAgrees(calls, machine, interp, D, k)
      BY <2>1, <2>5 DEF Core, Variables
    <3>2. PICK w \in Own(D, k) : /\ Holds(machine, Top.BP - Slot(Top.fun, k), w)
                                 /\ IF k \in Top.lost THEN Clobbered(interp, D, k) ELSE Reads(interp, D, k, w)
      BY <2>1, <3>1 DEF VariableAgrees
    <3>3. word = w
      BY <3>2 DEF Holds
    <3> HIDE DEF word, D
    <3>4. CASE k \notin Top.lost
      <4>1. \A j \in 1..8 : interp.stack[p + j] = <<w, j>>
        BY <3>2, <3>4 DEF Reads
      <4> QED
        BY <2>4, <3>3, <3>4, <4>1
    <3>5. CASE k \in Top.lost
      <4>1. PICK j \in 1..8, l \in Nat \ {k}, h \in Nat : interp.stack[p + j] = <<<<"variable", D, l>>, h>>
        BY <3>2, <3>5 DEF Clobbered
      <4>2. <<"variable", D, l>> # w
        <5>1. l # k /\ w \in {<<"variable", D, k>>, <<"argument", D - 1, k>>}
          BY <3>2, <4>1 DEF Own
        <5> QED
          BY ONLY <5>1
      <4>3. interp.stack[p + j] # <<w, j>>
        BY ONLY <4>1, <4>2
      <4>4. IL!Bytes(word)[j] # IL!Load(interp, k)[j]
        BY <2>4, <3>3, <4>3
      <4> QED
        BY <3>5, <4>4
    <3> QED
      BY <3>4, <3>5
  <2> QED
    BY <2>3, <2>5
<1>2. ASSUME IInv PROVE VariablesAgree
  BY <1>1, <1>2 DEF VariablesAgree
<1> QED
  BY <1>2, Invariant, PTL

(* RegistersAgree: after any calls a register has what the function computed in *)
(* it, but for those whose saved value a callee's variable is known to have    *)
(* overwritten; and the result of the last call is in EAX.                    *)
THEOREM RegistersAlwaysAgree == Spec => []RegistersAgree
<1>1. ASSUME IInv PROVE RegistersAgree
  <2> SUFFICES ASSUME Running PROVE RegistersAgree
    BY DEF RegistersAgree
  <2>1. /\ Core(calls, machine, interp) /\ Agree(calls, machine, interp)
        /\ Depth = Len(calls) /\ Depth \in 1..Depth /\ Depth \in Nat /\ Top = calls[Depth]
        /\ Len(interp.locals) = Depth /\ Top.fun \in Fun /\ Layout
    BY <1>1, RunningParts
  <2>2. ASSUME NEW r \in 1..used[Top.fun], IL!IsSet(interp, IL!REG(r))
        PROVE  machine.regs[r] = IL!get(interp, IL!REG(r)) <=> r \notin Top.spoiled
    <3>1. r \in 1..NumRegs /\ r \in Nat /\ r <= used[Top.fun]
      BY <2>1, Sizes
    <3>2. Computed(interp, Depth, r) /\ Uses(calls, Depth, r)
      BY <2>1, <2>2, <3>1 DEF Computed, Uses, IL!IsSet, IL!Locals
    <3>3. Unused(calls, Depth, Depth + 1, r)
      <4>1. \A x \in (Depth + 1)..((Depth + 1) - 1) : FALSE
        BY <2>1
      <4> QED
        BY <4>1 DEF Unused
    <3>4. machine.regs[r] = <<"register", Depth, r>> <=> ~SpoiledIn(calls, Depth, Depth, r)
      BY <2>1, <3>1, <3>2, <3>3 DEF Core, InRegister
    <3>5. SpoiledIn(calls, Depth, Depth, r) <=> r \in Top.spoiled
      <4>1. \A x : x \in Depth..Depth <=> x = Depth
        BY <2>1
      <4> QED
        BY <2>1, <4>1 DEF SpoiledIn
    <3>6. IL!get(interp, IL!REG(r)) = <<"register", Depth, r>>
      BY <2>1, <3>1, <3>2 DEF Core, Values, IL!get, IL!Locals
    <3> QED
      BY <3>4, <3>5, <3>6
  <2>3. Top.answered => machine.EAX = IL!get(interp, IL!CALL)
    BY <2>1 DEF Agree, Answer, IL!get, IL!Locals
  <2> QED
    BY <2>2, <2>3 DEF RegistersAgree
<1> QED
  BY <1>1, Invariant, PTL
=============================================================================
