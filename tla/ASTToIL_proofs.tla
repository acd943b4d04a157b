--------------------------- MODULE ASTToIL_proofs ----------------------------
(***************************************************************************)
(* Proofs about ASTToIL and Lowering, for source programs of any size.      *)
(*                                                                         *)
(* The translator writes to several blocks in turn, and a block stays open *)
(* while some visit() call is still to end it.  The first invariant is an  *)
(* account of the open blocks: each of them is bb_, or one that exactly one*)
(* active visit() is still to fill, or the locals block of exactly one     *)
(* context.  A block that two of them held would be terminated twice; one  *)
(* that none held would never be.                                          *)
(*                                                                         *)
(* The second part is about what the code does.  The simulation Sim relates *)
(* the source program visited so far to the code made so far by two        *)
(* histories: where the translation of each node is (its first spot, the   *)
(* spot after it, ...), and which loop each context has its targets from.  *)
(* Sim says of a node what its visit has already put there (Entered), what *)
(* the code has of it when the visit is over (Left), and of an active visit *)
(* what it still has to do (FrameAt).  This module states it, proves that  *)
(* a complete translation with clean jumps reads like its source           *)
(* (FlowsAgree, StartsAgree), and what the parts of Sim need to survive a  *)
(* step; Compiler_proofs goes through the actions.                         *)
(***************************************************************************)
EXTENDS Lowering, NaturalsInduction, WellFoundedInduction, SequenceTheorems, FiniteSetTheorems, TLAPS

(* the blocks without a terminator *)
OpenBlocks(c) == {b \in 1..Len(c) : ~terminated(c[b])}

(* the blocks a visit() call is still to fill, but for bb_ *)
Pending(fr) == CASE fr.role = "then"              -> {fr.alt, fr.merge}
                 [] fr.role \in {"else", "while"} -> {fr.merge}
                 [] fr.role = "do"                -> {fr.cond, fr.merge}
                 [] fr.role = "for"               -> {fr.alt, fr.merge}
                 [] OTHER                         -> {}

(* the same for all active visit() calls                                   *)
PendingOf(vs) == [i \in 1..Len(vs) |-> Pending(vs[i])]

(* contexts_ keeps the context of every function: the others are of blocks *)
LocalsOf(cs, e) == [k \in 1..(Len(cs) - e) |-> cs[e + k].localsBlock]

(* the positions of the visit(Block) calls on the stack                    *)
BlockVisits(vs) == {i \in 1..Len(vs) : vs[i].role = "block"}

(* The open blocks O are b, those in a set of P and those of L, all different. *)
Balanced(O, P, L, b) ==
  /\ b \in O
  /\ \A i \in 1..Len(P) : P[i] \subseteq O \ {b}
  /\ \A k \in 1..Len(L) : L[k] \in O \ {b}
  /\ \A i, j \in 1..Len(P) : i # j => P[i] \cap P[j] = {}
  /\ \A k, l \in 1..Len(L) : k # l => L[k] # L[l]
  /\ \A i \in 1..Len(P), k \in 1..Len(L) : L[k] \notin P[i]
  /\ \A x \in O : \/ x = b
                  \/ \E i \in 1..Len(P) : x \in P[i]
                  \/ \E k \in 1..Len(L) : x = L[k]

(* Functions follow one another: t is in the function of b. *)
Together(es, b, t) == \A f \in 1..Len(es) : es[f] <= b <=> es[f] <= t

(* the blocks of the function that is being translated, of n so far *)
Current(es, n) == es[Len(es)]..n

\* A call names a function there is.
Calls(i, es) == i.op = "CALL" => i.target1 \in 1..Len(es)
(* Every call of a block names a function there is.                        *)
CallsNamed(block, es) == \A k \in 1..Len(block) : Calls(block[k], es)

(* The blocks there are: at most one terminator each, and that the last    *)
(* instruction; successors that exist and are in the same function; calls  *)
(* of functions there are.                                                 *)
Good(c, es) ==
  /\ c \in Seq(Seq(Insn))
  /\ \A b \in 1..Len(c) : OneTerminatorLast(c[b])
  /\ \A b \in 1..Len(c) : CallsNamed(c[b], es)
  /\ \A b \in 1..Len(c) : \A t \in Successors(c[b]) : t \in 1..Len(c) /\ Together(es, b, t)

(* A visit() call uses blocks of B, and does not get one of them twice. *)
FrameOK(fr, B) ==
  /\ Pending(fr) \subseteq B
  /\ fr.role \in {"while", "do", "for"} => fr.cond \in B
  /\ fr.role = "do" => fr.alt \in B
  /\ fr.role \in {"then", "for"} => fr.alt # fr.merge
  /\ fr.role = "do" => fr.cond # fr.merge

(* The outermost visit is of a function, whose child is a block. *)
VisitsOK(vs, B) ==
  /\ vs \in Seq(FrameType)
  /\ vs # <<>>
  /\ \A i \in 1..Len(vs) : vs[i].role = "fun" <=> i = 1
  /\ Len(vs) >= 2 => vs[2].role = "block"
  /\ \A i \in 1..Len(vs) : FrameOK(vs[i], B)

(* The blocks a context names are in B; only its locals block is always    *)
(* there.                                                                  *)
ContextOK(cx, B) ==
  /\ cx.localsBlock \in B
  /\ cx.firstBB \in B \cup {Null}
  /\ cx.breakBlock \in B \cup {Null}
  /\ cx.continueBlock \in B \cup {Null}

(* After those of e functions come the contexts of m blocks. *)
ContextsOK(cs, e, m, B) ==
  /\ cs \in Seq(ContextType)
  /\ Len(cs) = e + m
  /\ \A k \in 1..Len(cs) : cs[k].firstBB = Null <=> k <= e
  /\ \A k \in e..Len(cs) : ContextOK(cs[k], B)

(* the blocks of function f: those from its entry to the next one *)
InFunction(es, f, b) ==
  /\ es[f] <= b
  /\ f < Len(es) => b < es[f + 1]

(* The entry blocks are in order, the first of them is block 1, and every  *)
(* block is in a function.                                                 *)
Entries ==
  /\ code # <<>> => entries # <<>>
  /\ entries # <<>> => entries[1] = 1
  /\ \A f, g \in 1..Len(entries) : f < g => entries[f] < entries[g]
  /\ \A b \in 1..Len(code) : \E f \in 1..Len(entries) : InFunction(entries, f, b)

(* between two functions *)
Idle ==
  /\ visits = <<>>
  /\ Len(contexts) = Len(entries)
  /\ \A k \in 1..Len(contexts) : contexts[k].firstBB = Null
  /\ OpenBlocks(code) = {}

(* in a function *)
Active ==
  /\ status # "done"
  /\ entries # <<>>
  /\ bb \in Current(entries, Len(code))
  /\ VisitsOK(visits, Current(entries, Len(code)))
  /\ ContextsOK(contexts, Len(entries), Cardinality(BlockVisits(visits)),
                Current(entries, Len(code)))
  /\ Balanced(OpenBlocks(code), PendingOf(visits), LocalsOf(contexts, Len(entries)), bb)

(* The inductive invariant: the types, and the account of the open blocks. *)
IInv == TypeOK /\ Entries /\ Good(code, entries) /\ (Idle \/ Active)
-----------------------------------------------------------------------------
(* The last element of a stack, and the stack without it. *)
LEMMA FrontLast ==
  ASSUME NEW S, NEW s \in Seq(S), s # <<>>
  PROVE  /\ Len(s) \in Nat \ {0}
         /\ Last(s) = s[Len(s)] /\ Last(s) \in S
         /\ Front(s) \in Seq(S)
         /\ Len(Front(s)) = Len(s) - 1
         /\ \A i \in 1..Len(s) - 1 : Front(s)[i] = s[i]
<1>1. Len(s) \in Nat \ {0}
  BY LenProperties, EmptySeq
<1>2. \A i \in 1..Len(s) : s[i] \in S
  BY ElementOfSeq
<1>3. Last(s) = s[Len(s)] /\ Last(s) \in S
  BY <1>1, <1>2 DEF Last
<1> DEFINE m == Len(s) - 1
<1>4. m \in Int /\ 1 \in Int /\ \A i \in 1..m : s[i] \in S
  BY <1>1, <1>2
<1>5. /\ SubSeq(s, 1, m) \in Seq(S)
      /\ Len(SubSeq(s, 1, m)) = IF 1 <= m THEN m - 1 + 1 ELSE 0
      /\ \A i \in 1..m - 1 + 1 : SubSeq(s, 1, m)[i] = s[1 + i - 1]
  BY <1>4, SubSeqProperties
<1>6. Front(s) = SubSeq(s, 1, m)
  BY DEF Front
<1>7. /\ Front(s) \in Seq(S) /\ Len(Front(s)) = Len(s) - 1
      /\ \A i \in 1..Len(s) - 1 : Front(s)[i] = s[1 + i - 1] /\ 1 + i - 1 = i
  <2> HIDE DEF m
  <2>1. m \in Nat
    BY <1>1 DEF m
  <2>2. Front(s) \in Seq(S) /\ Len(Front(s)) = m /\ \A i \in 1..m : Front(s)[i] = s[1 + i - 1]
    BY <1>5, <1>6, <2>1
  <2>3. QED
    BY <2>1, <2>2 DEF m
<1>8. QED
  BY <1>1, <1>3, <1>7

(* A sequence whose elements are all of another set *)
LEMMA SeqRetyped ==
  ASSUME NEW S, NEW T, NEW s \in Seq(S), \A i \in 1..Len(s) : s[i] \in T
  PROVE  s \in Seq(T)
<1>1. Len(s) \in Nat /\ s \in [1..Len(s) -> S]
  BY LenProperties
<1>2. s \in [1..Len(s) -> T]
  BY <1>1
<1>3. QED
  BY <1>1, <1>2, SeqDef

LEMMA FrontAppend ==
  ASSUME NEW S, NEW s \in Seq(S), NEW x \in S
  PROVE  Front(Append(s, x)) = s /\ Last(Append(s, x)) = x
<1> DEFINE t == Append(s, x)
<1>1. /\ t \in Seq(S) /\ t # <<>> /\ Len(t) = Len(s) + 1 /\ Len(s) \in Nat
      /\ \A i \in 1..Len(s) : t[i] = s[i]
      /\ t[Len(s) + 1] = x
  BY AppendProperties, LenProperties
<1> HIDE DEF t
<1>2. /\ Last(t) = t[Len(t)] /\ Front(t) \in Seq(S) /\ Len(Front(t)) = Len(t) - 1
      /\ \A i \in 1..Len(t) - 1 : Front(t)[i] = t[i]
  BY <1>1, FrontLast
<1>3. Len(Front(t)) = Len(s) /\ \A i \in 1..Len(s) : Front(t)[i] = s[i]
  BY <1>1, <1>2
<1>4. Front(t) = s
  BY <1>2, <1>3, SeqEqual
<1>5. QED
  BY <1>1, <1>2, <1>4 DEF t

-----------------------------------------------------------------------------
(* What writing to a block does to it. *)

LEMMA AppendToBlock ==
  ASSUME NEW block \in Seq(Insn), OneTerminatorLast(block), ~terminated(block), NEW i \in Insn
  PROVE  /\ Append(block, i) \in Seq(Insn)
         /\ OneTerminatorLast(Append(block, i))
         /\ terminated(Append(block, i)) <=> IsTerminator(i)
         /\ Successors(Append(block, i)) = IF IsTerminator(i) THEN Targets(i) ELSE {}
<1> DEFINE more == Append(block, i)
<1>1. /\ more \in Seq(Insn) /\ Len(more) = Len(block) + 1 /\ Len(block) \in Nat
      /\ more[Len(more)] = i /\ more # <<>>
      /\ \A k \in 1..Len(block) : more[k] = block[k]
  BY AppendProperties, LenProperties
<1>2. \A k \in 1..Len(block) : ~IsTerminator(block[k])
  <2> SUFFICES ASSUME NEW k \in 1..Len(block), IsTerminator(block[k])
               PROVE  FALSE
    OBVIOUS
  <2>1. k = Len(block)
    BY DEF OneTerminatorLast
  <2>2. block # <<>>
    BY <1>1
  <2>3. QED
    BY <2>1, <2>2 DEF terminated
<1>3. OneTerminatorLast(more)
  BY <1>1, <1>2 DEF OneTerminatorLast
<1>4. terminated(more) <=> IsTerminator(i)
  BY <1>1 DEF terminated
<1>5. Successors(more) = IF IsTerminator(i) THEN Targets(i) ELSE {}
  BY <1>1, <1>4 DEF Successors
<1>6. QED
  BY <1>1, <1>3, <1>4, <1>5

LEMMA AppendedCalls ==
  ASSUME NEW block \in Seq(Insn), NEW es, CallsNamed(block, es), NEW i \in Insn, Calls(i, es)
  PROVE  CallsNamed(Append(block, i), es)
<1>1. /\ Len(Append(block, i)) = Len(block) + 1 /\ Len(block) \in Nat
      /\ Append(block, i)[Len(block) + 1] = i
      /\ \A k \in 1..Len(block) : Append(block, i)[k] = block[k]
  BY AppendProperties, LenProperties
<1>2. \A k \in 1..Len(block) + 1 : k \in 1..Len(block) \/ k = Len(block) + 1
  BY <1>1
<1>3. QED
  BY <1>1, <1>2 DEF CallsNamed

LEMMA EmptyBlock ==
  /\ \A es : CallsNamed(<<>>, es)
  /\ <<>> \in Seq(Insn)
  /\ OneTerminatorLast(<<>>)
  /\ ~terminated(<<>>)
  /\ Successors(<<>>) = {}
BY DEF OneTerminatorLast, terminated, Successors, CallsNamed

(* addBasicBlock: the new blocks are open, and nothing else changes. *)
LEMMA Adding ==
  ASSUME NEW c, NEW es, Good(c, es), NEW n \in Nat
  PROVE  /\ Good(addBasicBlocks(c, n), es)
         /\ Len(addBasicBlocks(c, n)) = Len(c) + n
         /\ OpenBlocks(addBasicBlocks(c, n)) = OpenBlocks(c) \cup (Len(c) + 1)..(Len(c) + n)
<1> DEFINE new == [i \in 1..n |-> <<>>]
           c2  == addBasicBlocks(c, n)
<1>1. c \in Seq(Seq(Insn)) /\ Len(c) \in Nat
  BY LenProperties DEF Good
<1>2. new \in Seq(Seq(Insn)) /\ Len(new) = n
  BY EmptyBlock
<1>3. /\ c2 \in Seq(Seq(Insn)) /\ Len(c2) = Len(c) + n
      /\ \A b \in 1..Len(c) : c2[b] = c[b]
      /\ \A b \in Len(c) + 1..Len(c) + n : c2[b] = new[b - Len(c)]
  BY <1>1, <1>2, ConcatProperties DEF addBasicBlocks
<1>4. \A b \in Len(c) + 1..Len(c) + n : c2[b] = <<>>
  BY <1>1, <1>3
<1> HIDE DEF c2, new
<1>5. \A b \in 1..Len(c2) : OneTerminatorLast(c2[b])
  <2> TAKE b \in 1..Len(c2)
  <2>1. CASE b \in 1..Len(c)
    BY <1>3, <2>1 DEF Good
  <2>2. CASE b \notin 1..Len(c)
    BY <1>1, <1>3, <1>4, <2>2, EmptyBlock
  <2>3. QED
    BY <2>1, <2>2
<1>6. \A b \in 1..Len(c2) : CallsNamed(c2[b], es)
  <2> TAKE b \in 1..Len(c2)
  <2>1. CASE b \in 1..Len(c)
    BY <1>3, <2>1 DEF Good
  <2>2. CASE b \notin 1..Len(c)
    BY <1>1, <1>3, <1>4, <2>2, EmptyBlock
  <2>3. QED
    BY <2>1, <2>2
<1>7. \A b \in 1..Len(c2) : \A t \in Successors(c2[b]) : t \in 1..Len(c2) /\ Together(es, b, t)
  <2> TAKE b \in 1..Len(c2)
  <2>1. CASE b \in 1..Len(c)
    <3>1. \A t \in Successors(c[b]) : t \in 1..Len(c) /\ Together(es, b, t)
      BY <2>1 DEF Good
    <3>2. c2[b] = c[b] /\ 1..Len(c) \subseteq 1..Len(c2)
      BY <1>1, <1>3, <2>1
    <3>3. QED
      BY <3>1, <3>2
  <2>2. CASE b \notin 1..Len(c)
    BY <1>1, <1>3, <1>4, <2>2, EmptyBlock
  <2>3. QED
    BY <2>1, <2>2
<1>8. OpenBlocks(c2) = OpenBlocks(c) \cup (Len(c) + 1)..(Len(c) + n)
  BY <1>1, <1>3, <1>4, EmptyBlock DEF OpenBlocks
<1>9. QED
  BY <1>3, <1>5, <1>6, <1>7, <1>8 DEF Good, c2

(* operator += of an instruction that does not end the block *)
LEMMA Writing ==
  ASSUME NEW c, NEW es, Good(c, es), NEW b \in OpenBlocks(c), NEW i \in Insn, ~IsTerminator(i),
         Calls(i, es)
  PROVE  /\ Good(append(c, b, i), es)
         /\ Len(append(c, b, i)) = Len(c)
         /\ OpenBlocks(append(c, b, i)) = OpenBlocks(c)
<1> DEFINE c2 == append(c, b, i)
<1>1. c \in Seq(Seq(Insn)) /\ b \in 1..Len(c) /\ ~terminated(c[b]) /\ c[b] \in Seq(Insn)
  BY ElementOfSeq DEF Good, OpenBlocks
<1>2. /\ Append(c[b], i) \in Seq(Insn) /\ OneTerminatorLast(Append(c[b], i))
      /\ ~terminated(Append(c[b], i)) /\ Successors(Append(c[b], i)) = {}
  BY <1>1, AppendToBlock DEF Good
<1>3. CallsNamed(Append(c[b], i), es)
  BY <1>1, AppendedCalls DEF Good
<1>4. /\ c2 \in Seq(Seq(Insn)) /\ Len(c2) = Len(c)
      /\ \A x \in 1..Len(c) : c2[x] = IF x = b THEN Append(c[b], i) ELSE c[x]
  BY <1>1, <1>2, ExceptSeq DEF append
<1> HIDE DEF c2
<1>5. QED
  BY <1>1, <1>2, <1>3, <1>4 DEF Good, OpenBlocks, c2

(* operator += of a terminator: it ends the block *)
LEMMA Ending ==
  ASSUME NEW c, NEW es, Good(c, es), NEW b \in OpenBlocks(c), NEW i \in Insn, IsTerminator(i),
         \A t \in Targets(i) : t \in 1..Len(c) /\ Together(es, b, t)
  PROVE  /\ Good(append(c, b, i), es)
         /\ Len(append(c, b, i)) = Len(c)
         /\ OpenBlocks(append(c, b, i)) = OpenBlocks(c) \ {b}
<1> DEFINE c2 == append(c, b, i)
<1>1. c \in Seq(Seq(Insn)) /\ b \in 1..Len(c) /\ ~terminated(c[b]) /\ c[b] \in Seq(Insn)
  BY ElementOfSeq DEF Good, OpenBlocks
<1>2. /\ Append(c[b], i) \in Seq(Insn) /\ OneTerminatorLast(Append(c[b], i))
      /\ terminated(Append(c[b], i)) /\ Successors(Append(c[b], i)) = Targets(i)
  BY <1>1, AppendToBlock DEF Good
<1>3. CallsNamed(Append(c[b], i), es)
  BY <1>1, AppendedCalls DEF Good, Calls, IsTerminator, TerminatorOps
<1>4. /\ c2 \in Seq(Seq(Insn)) /\ Len(c2) = Len(c)
      /\ \A x \in 1..Len(c) : c2[x] = IF x = b THEN Append(c[b], i) ELSE c[x]
  BY <1>1, <1>2, ExceptSeq DEF append
<1> HIDE DEF c2
<1>5. QED
  BY <1>1, <1>2, <1>3, <1>4 DEF Good, OpenBlocks, c2

(* A condition and its branch end the block. *)
LEMMA Branching ==
  ASSUME NEW c, NEW es, Good(c, es), NEW b \in OpenBlocks(c), NEW n \in Nat,
         NEW then \in 1..Len(c), NEW else \in 1..Len(c),
         Together(es, b, then), Together(es, b, else)
  PROVE  /\ Good(branch(c, b, n, then, else), es)
         /\ Len(branch(c, b, n, then, else)) = Len(c)
         /\ OpenBlocks(branch(c, b, n, then, else)) = OpenBlocks(c) \ {b}
<1> DEFINE c1 == append(c, b, INS("COND", n))
           i  == BR(n, then, else)
<1>1. INS("COND", n) \in Insn /\ ~IsTerminator(INS("COND", n)) /\ Calls(INS("COND", n), es)
  BY DEF Calls, INS, Insn, Ops, Visible, IsTerminator, TerminatorOps, Null
<1>2. Good(c1, es) /\ Len(c1) = Len(c) /\ OpenBlocks(c1) = OpenBlocks(c)
  BY <1>1, Writing
<1>3. Len(c) \in Nat
  BY LenProperties DEF Good
<1>4. i \in Insn /\ IsTerminator(i) /\ Targets(i) = {then, else}
  BY <1>3 DEF BR, Insn, Ops, IsTerminator, TerminatorOps, Targets
<1> HIDE DEF c1, i
<1>5. \A t \in Targets(i) : t \in 1..Len(c1) /\ Together(es, b, t)
  BY <1>2, <1>4
<1>6. /\ Good(append(c1, b, i), es) /\ Len(append(c1, b, i)) = Len(c1)
      /\ OpenBlocks(append(c1, b, i)) = OpenBlocks(c1) \ {b}
  BY <1>2, <1>4, <1>5, Ending
<1>7. QED
  BY <1>2, <1>6 DEF branch, c1, i

(* A jump ends the block. *)
LEMMA Jumping ==
  ASSUME NEW c, NEW es, Good(c, es), NEW b \in OpenBlocks(c),
         NEW t \in 1..Len(c), Together(es, b, t)
  PROVE  /\ Good(append(c, b, JMP(t)), es)
         /\ Len(append(c, b, JMP(t))) = Len(c)
         /\ OpenBlocks(append(c, b, JMP(t))) = OpenBlocks(c) \ {b}
<1>1. Len(c) \in Nat
  BY LenProperties DEF Good
<1>2. JMP(t) \in Insn /\ IsTerminator(JMP(t)) /\ Targets(JMP(t)) = {t}
  BY <1>1 DEF JMP, Insn, Ops, IsTerminator, TerminatorOps, Targets, Null
<1>3. QED
  BY <1>2, Ending

(* An instruction that only computes leaves the block open. *)
LEMMA Computing ==
  ASSUME NEW c, NEW es, Good(c, es), NEW b \in OpenBlocks(c), NEW n \in Nat,
         NEW op \in (Visible \ {"CALL"}) \cup {"ALLOCA", "ST"}
  PROVE  /\ Good(append(c, b, INS(op, n)), es)
         /\ Len(append(c, b, INS(op, n))) = Len(c)
         /\ OpenBlocks(append(c, b, INS(op, n))) = OpenBlocks(c)
<1>1. INS(op, n) \in Insn /\ ~IsTerminator(INS(op, n)) /\ Calls(INS(op, n), es)
  BY DEF Calls, INS, Insn, Ops, Visible, IsTerminator, TerminatorOps, Null
<1>2. QED
  BY <1>1, Writing

(* So does a call, and a return ends the block. *)
LEMMA Calling ==
  ASSUME NEW c, NEW es, Good(c, es), NEW b \in OpenBlocks(c), NEW n \in Nat, NEW f \in 1..Len(es), Len(es) \in Nat
  PROVE  /\ Good(append(c, b, CALL(n, f)), es)
         /\ Len(append(c, b, CALL(n, f))) = Len(c)
         /\ OpenBlocks(append(c, b, CALL(n, f))) = OpenBlocks(c)
<1>1. CALL(n, f) \in Insn /\ ~IsTerminator(CALL(n, f)) /\ Calls(CALL(n, f), es)
  BY DEF Calls, CALL, Insn, Ops, Visible, IsTerminator, TerminatorOps, Null
<1>2. QED
  BY <1>1, Writing

LEMMA Returning ==
  ASSUME NEW c, NEW es, Good(c, es), NEW b \in OpenBlocks(c), NEW n \in Nat, NEW op \in {"RET", "RETR"}
  PROVE  /\ Good(append(c, b, INS(op, n)), es)
         /\ Len(append(c, b, INS(op, n))) = Len(c)
         /\ OpenBlocks(append(c, b, INS(op, n))) = OpenBlocks(c) \ {b}
<1>1. INS(op, n) \in Insn /\ IsTerminator(INS(op, n)) /\ Targets(INS(op, n)) = {}
  BY DEF INS, Insn, Ops, IsTerminator, TerminatorOps, Null, Targets
<1>2. QED
  BY <1>1, Ending

(* No entry is between two blocks of the function that is being translated. *)
LEMMA CurrentTogether ==
  ASSUME NEW n \in Nat, NEW es \in Seq(Nat \ {0}), es # <<>>,
         \A f, g \in 1..Len(es) : f < g => es[f] < es[g],
         NEW b \in Current(es, n), NEW t \in Current(es, n)
  PROVE  t \in 1..n /\ Together(es, b, t)
<1>1. Len(es) \in Nat \ {0} /\ \A f \in 1..Len(es) : es[f] \in Nat \ {0}
  BY ElementOfSeq, LenProperties, EmptySeq
<1>2. \A f \in 1..Len(es) : es[f] <= es[Len(es)]
  <2> TAKE f \in 1..Len(es)
  <2>1. f < Len(es) => es[f] < es[Len(es)]
    BY <1>1
  <2>2. QED
    BY <1>1, <2>1
<1>3. QED
  BY <1>1, <1>2 DEF Current, Together
-----------------------------------------------------------------------------
(* What a visit does to the account of open blocks. *)

(* Control goes on in a new block. *)
LEMMA MoveOn ==
  ASSUME NEW O, NEW P \in Seq(SUBSET Nat), NEW L \in Seq(Nat), NEW b, Balanced(O, P, L, b),
         NEW x, x \notin O
  PROVE  Balanced((O \ {b}) \cup {x}, P, L, x)
BY DEF Balanced

(* A visit starts: it holds Q, which is new, and control goes to x. *)
LEMMA Open ==
  ASSUME NEW O, NEW P \in Seq(SUBSET Nat), NEW L \in Seq(Nat), NEW b, Balanced(O, P, L, b),
         NEW Q \in SUBSET Nat, Q \cap O = {}, NEW x, x \notin O, x \notin Q
  PROVE  Balanced((O \ {b}) \cup Q \cup {x}, Append(P, Q), L, x)
<1> DEFINE P2 == Append(P, Q)
           O2 == (O \ {b}) \cup Q \cup {x}
<1>1. /\ Len(P2) = Len(P) + 1 /\ Len(P) \in Nat
      /\ \A i \in 1..Len(P) : P2[i] = P[i]
      /\ P2[Len(P) + 1] = Q
  BY AppendProperties, LenProperties
<1> HIDE DEF P2
<1>2. \A i \in 1..Len(P2) : i \in 1..Len(P) \/ i = Len(P) + 1
  BY <1>1
<1>3. \A i \in 1..Len(P2) : P2[i] \subseteq O2 \ {x}
  BY <1>1, <1>2 DEF Balanced
<1>4. \A k \in 1..Len(L) : L[k] \in O2 \ {x}
  BY DEF Balanced
<1>5. \A i, j \in 1..Len(P2) : i # j => P2[i] \cap P2[j] = {}
  <2> SUFFICES ASSUME NEW i \in 1..Len(P2), NEW j \in 1..Len(P2), i # j
               PROVE  P2[i] \cap P2[j] = {}
    OBVIOUS
  <2>1. CASE i \in 1..Len(P) /\ j \in 1..Len(P)
    BY <1>1, <2>1 DEF Balanced
  <2>2. CASE i \in 1..Len(P) /\ j = Len(P) + 1
    BY <1>1, <2>2 DEF Balanced
  <2>3. CASE j \in 1..Len(P) /\ i = Len(P) + 1
    BY <1>1, <2>3 DEF Balanced
  <2>4. QED
    BY <1>2, <2>1, <2>2, <2>3
<1>6. \A i \in 1..Len(P2), k \in 1..Len(L) : L[k] \notin P2[i]
  BY <1>1, <1>2 DEF Balanced
<1>7. \A y \in O2 : \/ y = x
                    \/ \E i \in 1..Len(P2) : y \in P2[i]
                    \/ \E k \in 1..Len(L) : y = L[k]
  <2> TAKE y \in O2
  <2>1. CASE y \in Q
    BY <1>1, <2>1
  <2>2. CASE \E i \in 1..Len(P) : y \in P[i]
    BY <1>1, <2>2
  <2>3. QED
    BY <2>1, <2>2 DEF Balanced
<1>8. QED
  BY <1>3, <1>4, <1>5, <1>6, <1>7 DEF Balanced, P2

(* A context gets a new block for its variables. *)
LEMMA OpenLocals ==
  ASSUME NEW O, NEW P \in Seq(SUBSET Nat), NEW L \in Seq(Nat), NEW b, Balanced(O, P, L, b),
         NEW x \in Nat, x \notin O
  PROVE  Balanced(O \cup {x}, P, Append(L, x), b)
<1> DEFINE L2 == Append(L, x)
           O2 == O \cup {x}
<1>1. /\ Len(L2) = Len(L) + 1 /\ Len(L) \in Nat
      /\ \A k \in 1..Len(L) : L2[k] = L[k]
      /\ L2[Len(L) + 1] = x
  BY AppendProperties, LenProperties
<1> HIDE DEF L2
<1>2. \A k \in 1..Len(L2) : k \in 1..Len(L) \/ k = Len(L) + 1
  BY <1>1
<1>3. \A k \in 1..Len(L2) : L2[k] \in O2 \ {b}
  BY <1>1, <1>2 DEF Balanced
<1>4. \A k, l \in 1..Len(L2) : k # l => L2[k] # L2[l]
  <2> SUFFICES ASSUME NEW k \in 1..Len(L2), NEW l \in 1..Len(L2), k # l
               PROVE  L2[k] # L2[l]
    OBVIOUS
  <2>1. CASE k \in 1..Len(L) /\ l \in 1..Len(L)
    BY <1>1, <2>1 DEF Balanced
  <2>2. CASE k \in 1..Len(L) /\ l = Len(L) + 1
    BY <1>1, <2>2 DEF Balanced
  <2>3. CASE l \in 1..Len(L) /\ k = Len(L) + 1
    BY <1>1, <2>3 DEF Balanced
  <2>4. QED
    BY <1>2, <2>1, <2>2, <2>3
<1>5. \A i \in 1..Len(P), k \in 1..Len(L2) : L2[k] \notin P[i]
  BY <1>1, <1>2 DEF Balanced
<1>6. \A y \in O2 : \/ y = b
                    \/ \E i \in 1..Len(P) : y \in P[i]
                    \/ \E k \in 1..Len(L2) : y = L2[k]
  <2> TAKE y \in O2
  <2>1. CASE y = x
    BY <1>1, <2>1
  <2>2. CASE \E k \in 1..Len(L) : y = L[k]
    BY <1>1, <2>2
  <2>3. QED
    BY <2>1, <2>2 DEF Balanced
<1>7. QED
  BY <1>3, <1>4, <1>5, <1>6 DEF Balanced, L2

(* A part of a visit ends: control goes to a block it held, and it keeps R. *)
LEMMA Hand ==
  ASSUME NEW O, NEW P \in Seq(SUBSET Nat), NEW L \in Seq(Nat), NEW b, Balanced(O, P, L, b),
         P # <<>>, NEW x \in Last(P), NEW R \in SUBSET Last(P), x \notin R
  PROVE  Balanced((O \ {b}) \ (Last(P) \ (R \cup {x})), Append(Front(P), R), L, x)
<1> DEFINE P2 == Append(Front(P), R)
           O2 == (O \ {b}) \ (Last(P) \ (R \cup {x}))
<1>1. Len(P) \in Nat \ {0} /\ Last(P) = P[Len(P)] /\ Last(P) \in SUBSET Nat
  BY FrontLast
<1>2. /\ Front(P) \in Seq(SUBSET Nat) /\ Len(Front(P)) = Len(P) - 1
      /\ \A i \in 1..Len(P) - 1 : Front(P)[i] = P[i]
  BY FrontLast
<1>3. /\ Len(P2) = Len(P)
      /\ \A i \in 1..Len(P) - 1 : P2[i] = P[i]
      /\ P2[Len(P)] = R
  BY <1>1, <1>2, AppendProperties
<1> HIDE DEF P2
<1>4. \A i \in 1..Len(P) : P2[i] \subseteq P[i]
  BY <1>1, <1>3
<1>5. x \in O \ {b} /\ R \subseteq O \ {b} /\ x \in P[Len(P)]
  BY <1>1 DEF Balanced
<1>6. \A i \in 1..Len(P2) : P2[i] \subseteq O2 \ {x}
  <2> TAKE i \in 1..Len(P2)
  <2>1. CASE i = Len(P)
    BY <1>1, <1>3, <1>5, <2>1
  <2>2. CASE i \in 1..Len(P) - 1
    BY <1>1, <1>3, <1>5, <2>2 DEF Balanced
  <2>3. i = Len(P) \/ i \in 1..Len(P) - 1
    BY <1>1, <1>3
  <2>4. QED
    BY <2>1, <2>2, <2>3
<1>7. \A k \in 1..Len(L) : L[k] \in O2 \ {x}
  BY <1>1, <1>5 DEF Balanced
<1>8. \A i, j \in 1..Len(P2) : i # j => P2[i] \cap P2[j] = {}
  BY <1>3, <1>4 DEF Balanced
<1>9. \A i \in 1..Len(P2), k \in 1..Len(L) : L[k] \notin P2[i]
  BY <1>3, <1>4 DEF Balanced
<1>10. \A y \in O2 : \/ y = x
                     \/ \E i \in 1..Len(P2) : y \in P2[i]
                     \/ \E k \in 1..Len(L) : y = L[k]
  <2> TAKE y \in O2
  <2>1. CASE y \in R
    BY <1>1, <1>3, <2>1
  <2>2. ASSUME NEW i \in 1..Len(P), y \in P[i], y \notin R, y # x
        PROVE  \E j \in 1..Len(P2) : y \in P2[j]
    <3>1. i # Len(P)
      BY <1>1, <2>2
    <3>2. i \in 1..Len(P) - 1 /\ i \in 1..Len(P2)
      BY <1>1, <1>3, <3>1
    <3>3. QED
      BY <1>3, <2>2, <3>2
  <2>3. QED
    BY <2>1, <2>2 DEF Balanced
<1>11. x \in O2
  BY <1>5
<1>12. QED
  BY <1>6, <1>7, <1>8, <1>9, <1>10, <1>11 DEF Balanced, P2

(* A visit that holds nothing any more ends. *)
LEMMA Close ==
  ASSUME NEW O, NEW P \in Seq(SUBSET Nat), NEW L \in Seq(Nat), NEW b, Balanced(O, P, L, b),
         P # <<>>, Last(P) = {}
  PROVE  Balanced(O, Front(P), L, b)
<1>1. Len(P) \in Nat \ {0} /\ P[Len(P)] = {}
  BY FrontLast
<1>2. /\ Len(Front(P)) = Len(P) - 1
      /\ \A i \in 1..Len(P) - 1 : Front(P)[i] = P[i]
  BY FrontLast
<1>3. \A i \in 1..Len(P) : i = Len(P) \/ i \in 1..Len(Front(P))
  BY <1>1, <1>2
<1>4. \A y : (\E i \in 1..Len(P) : y \in P[i]) => \E i \in 1..Len(Front(P)) : y \in Front(P)[i]
  BY <1>1, <1>2, <1>3
<1>5. \A i \in 1..Len(Front(P)) : i \in 1..Len(P) /\ Front(P)[i] = P[i]
  BY <1>1, <1>2
<1>6. QED
  BY <1>4, <1>5 DEF Balanced

(* The locals block of the innermost context gets its jump. *)
LEMMA CloseLocals ==
  ASSUME NEW O, NEW P \in Seq(SUBSET Nat), NEW L \in Seq(Nat), NEW b, Balanced(O, P, L, b), L # <<>>
  PROVE  Balanced(O \ {Last(L)}, P, Front(L), b)
<1>1. Len(L) \in Nat \ {0} /\ Last(L) = L[Len(L)]
  BY FrontLast
<1>2. /\ Len(Front(L)) = Len(L) - 1
      /\ \A k \in 1..Len(L) - 1 : Front(L)[k] = L[k]
  BY FrontLast
<1>3. \A k \in 1..Len(L) : k = Len(L) \/ k \in 1..Len(Front(L))
  BY <1>1, <1>2
<1>4. \A y : (\E k \in 1..Len(L) : y = L[k]) =>
               y = Last(L) \/ \E k \in 1..Len(Front(L)) : y = Front(L)[k]
  BY <1>1, <1>2, <1>3
<1>5. \A k \in 1..Len(Front(L)) : k \in 1..Len(L) /\ Front(L)[k] = L[k] /\ Front(L)[k] # Last(L)
  BY <1>1, <1>2 DEF Balanced
<1>6. Last(L) # b /\ \A i \in 1..Len(P) : Last(L) \notin P[i]
  BY <1>1 DEF Balanced
<1>7. QED
  BY <1>4, <1>5, <1>6 DEF Balanced
-----------------------------------------------------------------------------
(* What an action does to the stacks of visits and of contexts. *)

LEMMA StacksGrow ==
  ASSUME NEW B, NEW B2, B \subseteq B2
  PROVE  /\ \A vs : VisitsOK(vs, B) => VisitsOK(vs, B2)
         /\ \A cs, e, m : ContextsOK(cs, e, m, B) => ContextsOK(cs, e, m, B2)
<1>1. \A fr : FrameOK(fr, B) => FrameOK(fr, B2)
  BY DEF FrameOK
<1>2. \A cx : ContextOK(cx, B) => ContextOK(cx, B2)
  BY DEF ContextOK
<1>3. QED
  BY <1>1, <1>2 DEF VisitsOK, ContextsOK

LEMMA PendingType ==
  ASSUME NEW vs \in Seq(FrameType)
  PROVE  /\ PendingOf(vs) \in Seq(SUBSET Nat)
         /\ Len(PendingOf(vs)) = Len(vs)
         /\ \A i \in 1..Len(vs) : PendingOf(vs)[i] = Pending(vs[i])
<1>1. Len(vs) \in Nat /\ \A i \in 1..Len(vs) : vs[i] \in FrameType
  BY LenProperties, ElementOfSeq
<1>2. \A fr \in FrameType : Pending(fr) \in SUBSET Nat
  BY DEF FrameType, Pending
<1>3. QED
  BY <1>1, <1>2 DEF PendingOf

LEMMA LocalsType ==
  ASSUME NEW cs \in Seq(ContextType), NEW e \in Nat, e <= Len(cs)
  PROVE  /\ LocalsOf(cs, e) \in Seq(Nat)
         /\ Len(LocalsOf(cs, e)) = Len(cs) - e
         /\ \A k \in 1..Len(cs) - e : LocalsOf(cs, e)[k] = cs[e + k].localsBlock
<1>1. Len(cs) \in Nat /\ \A k \in 1..Len(cs) : cs[k] \in ContextType
  BY LenProperties, ElementOfSeq
<1>2. Len(cs) - e \in Nat /\ \A k \in 1..Len(cs) - e : cs[e + k].localsBlock \in Nat
  <2>1. Len(cs) - e \in Nat /\ \A k \in 1..Len(cs) - e : e + k \in 1..Len(cs)
    BY <1>1
  <2>2. QED
    BY <1>1, <2>1 DEF ContextType
<1>3. QED
  BY <1>2 DEF LocalsOf

LEMMA BlockVisitsFinite ==
  ASSUME NEW vs \in Seq(FrameType)
  PROVE  IsFiniteSet(BlockVisits(vs)) /\ Cardinality(BlockVisits(vs)) \in Nat
<1>1. IsFiniteSet(1..Len(vs))
  BY LenProperties, FS_Interval
<1>2. BlockVisits(vs) \subseteq 1..Len(vs)
  BY DEF BlockVisits
<1>3. QED
  BY <1>1, <1>2, FS_Subset, FS_CardinalityType

(* A child is translated: the visit goes on as before. *)
LEMMA ChildTranslated ==
  ASSUME NEW vs, NEW B, VisitsOK(vs, B), NEW d \in BOOLEAN
  PROVE  LET vs2 == [vs EXCEPT ![Len(vs)].done = d]
         IN /\ VisitsOK(vs2, B)
            /\ PendingOf(vs2) = PendingOf(vs)
            /\ BlockVisits(vs2) = BlockVisits(vs)
            /\ Last(vs2).role = Last(vs).role
<1> DEFINE n   == Len(vs)
           fr  == [vs[n] EXCEPT !.done = d]
           vs2 == [vs EXCEPT ![n].done = d]
<1>1. vs \in Seq(FrameType) /\ n \in Nat \ {0} /\ n \in 1..n /\ vs[n] \in FrameType
  BY LenProperties, EmptySeq, ElementOfSeq DEF VisitsOK
<1>2. /\ fr \in FrameType /\ fr.role = vs[n].role /\ fr.cond = vs[n].cond
      /\ fr.alt = vs[n].alt /\ fr.merge = vs[n].merge
  BY <1>1 DEF FrameType
<1> HIDE DEF fr
<1>3. vs2 = [vs EXCEPT ![n] = fr]
  BY DEF fr
<1>4. /\ vs2 \in Seq(FrameType) /\ Len(vs2) = n
      /\ \A i \in 1..n : vs2[i] = IF i = n THEN fr ELSE vs[i]
  BY <1>1, <1>2, <1>3, ExceptSeq
<1> HIDE DEF vs2
<1>5. \A i \in 1..n : /\ vs2[i].role = vs[i].role /\ vs2[i].cond = vs[i].cond
                      /\ vs2[i].alt = vs[i].alt /\ vs2[i].merge = vs[i].merge
  BY <1>2, <1>4
<1>6. \A i \in 1..n : Pending(vs2[i]) = Pending(vs[i])
  BY <1>5 DEF Pending
<1>7. \A i \in 1..n : FrameOK(vs[i], B) => FrameOK(vs2[i], B)
  BY <1>5, <1>6 DEF FrameOK
<1>8. VisitsOK(vs2, B)
  <2>1. vs2 # <<>>
    BY <1>1, <1>4, EmptySeq
  <2>2. \A i \in 1..Len(vs2) : FrameOK(vs2[i], B)
    BY <1>4, <1>7 DEF VisitsOK
  <2>3. \A i \in 1..Len(vs2) : vs2[i].role = "fun" <=> i = 1
    BY <1>4, <1>5 DEF VisitsOK
  <2>4. Len(vs2) >= 2 => vs2[2].role = "block"
    BY <1>1, <1>4, <1>5 DEF VisitsOK
  <2>5. QED
    BY <1>4, <2>1, <2>2, <2>3, <2>4 DEF VisitsOK
<1>9. PendingOf(vs2) = PendingOf(vs) /\ BlockVisits(vs2) = BlockVisits(vs)
  BY <1>4, <1>5, <1>6 DEF PendingOf, BlockVisits
<1>10. Last(vs2).role = Last(vs).role
  BY <1>1, <1>4, <1>5 DEF Last
<1>11. QED
  BY <1>8, <1>9, <1>10 DEF vs2

(* A statement within it is visited. *)
LEMMA VisitStarts ==
  ASSUME NEW vs, NEW B, VisitsOK(vs, B),
         NEW fr \in FrameType, FrameOK(fr, B), fr.role # "fun",
         Last(vs).role = "fun" => fr.role = "block"
  PROVE  LET vs2 == Append(vs, fr)
         IN /\ VisitsOK(vs2, B)
            /\ PendingOf(vs2) = Append(PendingOf(vs), Pending(fr))
            /\ Cardinality(BlockVisits(vs2)) =
                 Cardinality(BlockVisits(vs)) + (IF fr.role = "block" THEN 1 ELSE 0)
<1> DEFINE n   == Len(vs)
           vs2 == Append(vs, fr)
<1>1. vs \in Seq(FrameType) /\ n \in Nat \ {0} /\ n \in 1..n
  BY LenProperties, EmptySeq DEF VisitsOK
<1>2. /\ vs2 \in Seq(FrameType) /\ vs2 # <<>> /\ Len(vs2) = n + 1
      /\ \A i \in 1..n : vs2[i] = vs[i]
      /\ vs2[n + 1] = fr
  BY <1>1, AppendProperties
<1> HIDE DEF vs2
<1>3. \A i \in 1..Len(vs2) : i \in 1..n \/ i = n + 1
  BY <1>1, <1>2
<1>4. VisitsOK(vs2, B)
  <2>1. \A i \in 1..Len(vs2) : FrameOK(vs2[i], B)
    BY <1>2, <1>3 DEF VisitsOK
  <2>2. \A i \in 1..Len(vs2) : vs2[i].role = "fun" <=> i = 1
    BY <1>1, <1>2, <1>3 DEF VisitsOK
  <2>3. vs2[2].role = "block"
    <3>1. CASE n = 1
      BY <1>1, <1>2, <3>1 DEF VisitsOK, Last
    <3>2. CASE n >= 2
      BY <1>1, <1>2, <3>2 DEF VisitsOK
    <3> HIDE DEF n
    <3>3. n = 1 \/ n >= 2
      BY <1>1
    <3>4. QED
      BY <3>1, <3>2, <3>3
  <2>4. QED
    BY <1>2, <2>1, <2>2, <2>3 DEF VisitsOK
<1>5. PendingOf(vs2) = Append(PendingOf(vs), Pending(fr))
  <2> DEFINE P2 == Append(PendingOf(vs), Pending(fr))
  <2>1. /\ PendingOf(vs) \in Seq(SUBSET Nat) /\ Len(PendingOf(vs)) = n
        /\ \A i \in 1..n : PendingOf(vs)[i] = Pending(vs[i])
    BY <1>1, PendingType
  <2>2. Pending(fr) \in SUBSET Nat
    BY DEF Pending, FrameType
  <2>3. /\ P2 \in Seq(SUBSET Nat) /\ Len(P2) = n + 1
        /\ \A i \in 1..n : P2[i] = Pending(vs[i])
        /\ P2[n + 1] = Pending(fr)
    BY <2>1, <2>2, AppendProperties
  <2>4. /\ PendingOf(vs2) \in Seq(SUBSET Nat) /\ Len(PendingOf(vs2)) = n + 1
        /\ \A i \in 1..n + 1 : PendingOf(vs2)[i] = Pending(vs2[i])
    BY <1>2, PendingType
  <2> HIDE DEF P2
  <2>5. \A i \in 1..Len(P2) : P2[i] = PendingOf(vs2)[i]
    BY <1>2, <1>3, <2>3, <2>4
  <2>6. P2 = PendingOf(vs2)
    BY <2>3, <2>4, <2>5, SeqEqual
  <2>7. QED
    BY <2>6 DEF P2
<1>6. Cardinality(BlockVisits(vs2)) =
        Cardinality(BlockVisits(vs)) + (IF fr.role = "block" THEN 1 ELSE 0)
  <2>1. BlockVisits(vs2) = IF fr.role = "block" THEN BlockVisits(vs) \cup {n + 1}
                           ELSE BlockVisits(vs)
    BY <1>1, <1>2, <1>3 DEF BlockVisits
  <2>2. n + 1 \notin BlockVisits(vs)
    BY <1>1 DEF BlockVisits
  <2>3. IsFiniteSet(BlockVisits(vs)) /\ Cardinality(BlockVisits(vs)) \in Nat
    BY <1>1, BlockVisitsFinite
  <2>4. Cardinality(BlockVisits(vs) \cup {n + 1}) = Cardinality(BlockVisits(vs)) + 1
    BY <2>2, <2>3, FS_AddElement
  <2>5. QED
    BY <2>1, <2>3, <2>4
<1>7. QED
  BY <1>4, <1>5, <1>6 DEF vs2

(* It has been. *)
LEMMA VisitEnds ==
  ASSUME NEW vs, NEW B, VisitsOK(vs, B), Last(vs).role # "fun"
  PROVE  LET vs2 == Front(vs)
         IN /\ VisitsOK(vs2, B)
            /\ PendingOf(vs2) = Front(PendingOf(vs))
            /\ PendingOf(vs) # <<>>
            /\ Last(PendingOf(vs)) = Pending(Last(vs))
            /\ Cardinality(BlockVisits(vs)) =
                 Cardinality(BlockVisits(vs2)) + (IF Last(vs).role = "block" THEN 1 ELSE 0)
            /\ Last(vs).role # "block" => Last(vs2).role # "fun"
<1> DEFINE n   == Len(vs)
           vs2 == Front(vs)
<1>1. /\ vs \in Seq(FrameType) /\ n \in Nat \ {0} /\ vs2 \in Seq(FrameType)
      /\ Last(vs) = vs[n] /\ Len(vs2) = n - 1
      /\ \A i \in 1..n - 1 : vs2[i] = vs[i]
  BY FrontLast DEF VisitsOK
<1> HIDE DEF vs2
<1>2. n \in 1..n /\ n >= 2
  BY <1>1 DEF VisitsOK
<1>3. /\ \A i \in 1..Len(vs2) : i \in 1..n /\ vs2[i] = vs[i]
      /\ \A i \in 1..n : i \in 1..Len(vs2) \/ i = n
  BY <1>1
<1>4. VisitsOK(vs2, B)
  <2>1. vs2 # <<>>
    BY <1>1, <1>2, EmptySeq
  <2>2. Len(vs2) >= 2 => vs2[2].role = "block"
    BY <1>1, <1>2 DEF VisitsOK
  <2>3. QED
    BY <1>1, <1>3, <2>1, <2>2 DEF VisitsOK
<1>5. /\ PendingOf(vs2) = Front(PendingOf(vs)) /\ PendingOf(vs) # <<>>
      /\ Last(PendingOf(vs)) = Pending(Last(vs))
  <2> DEFINE P  == PendingOf(vs)
             P2 == PendingOf(vs2)
  <2>1. /\ P \in Seq(SUBSET Nat) /\ Len(P) = n
        /\ \A i \in 1..n : P[i] = Pending(vs[i])
    BY <1>1, PendingType
  <2>2. /\ P2 \in Seq(SUBSET Nat) /\ Len(P2) = n - 1
        /\ \A i \in 1..n - 1 : P2[i] = Pending(vs2[i])
    BY <1>1, PendingType
  <2> HIDE DEF P, P2
  <2>3. P # <<>>
    BY <1>1, <2>1, EmptySeq
  <2>4. /\ Front(P) \in Seq(SUBSET Nat) /\ Len(Front(P)) = n - 1 /\ Last(P) = P[n]
        /\ \A i \in 1..n - 1 : Front(P)[i] = P[i]
    BY <2>1, <2>3, FrontLast
  <2>5. \A i \in 1..Len(P2) : P2[i] = Front(P)[i]
    BY <1>1, <2>1, <2>2, <2>4
  <2>6. P2 = Front(P)
    BY <2>2, <2>4, <2>5, SeqEqual
  <2>7. QED
    BY <1>1, <1>2, <2>1, <2>3, <2>4, <2>6 DEF P, P2
<1>6. Cardinality(BlockVisits(vs)) =
        Cardinality(BlockVisits(vs2)) + (IF Last(vs).role = "block" THEN 1 ELSE 0)
  <2>1. BlockVisits(vs) = IF vs[n].role = "block" THEN BlockVisits(vs2) \cup {n}
                          ELSE BlockVisits(vs2)
    BY <1>1, <1>2, <1>3 DEF BlockVisits
  <2>2. n \notin BlockVisits(vs2)
    BY <1>1 DEF BlockVisits
  <2>3. IsFiniteSet(BlockVisits(vs2)) /\ Cardinality(BlockVisits(vs2)) \in Nat
    BY <1>1, BlockVisitsFinite
  <2>4. Cardinality(BlockVisits(vs2) \cup {n}) = Cardinality(BlockVisits(vs2)) + 1
    BY <2>2, <2>3, FS_AddElement
  <2>5. QED
    BY <1>1, <2>1, <2>3, <2>4
<1>7. Last(vs).role # "block" => Last(vs2).role # "fun"
  <2> SUFFICES ASSUME vs[n].role # "block"
               PROVE  Last(vs2).role # "fun"
    BY <1>1
  <2>1. n - 1 \in 1..n /\ n - 1 # 1
    BY <1>1, <1>2 DEF VisitsOK
  <2>2. Last(vs2) = vs[n - 1]
    BY <1>1, <2>1 DEF Last
  <2>3. QED
    BY <2>1, <2>2 DEF VisitsOK
<1>8. QED
  BY <1>4, <1>5, <1>6, <1>7 DEF vs2

(* enterBlock *)
LEMMA ContextEntered ==
  ASSUME NEW e \in Nat \ {0}, NEW m \in Nat, NEW B, NEW cs, ContextsOK(cs, e, m, B),
         NEW cx \in ContextType, ContextOK(cx, B), cx.firstBB # Null
  PROVE  /\ ContextsOK(Append(cs, cx), e, m + 1, B)
         /\ LocalsOf(Append(cs, cx), e) = Append(LocalsOf(cs, e), cx.localsBlock)
<1> DEFINE n   == Len(cs)
           cs2 == Append(cs, cx)
<1>1. cs \in Seq(ContextType) /\ n = e + m
  BY DEF ContextsOK
<1>2. /\ cs2 \in Seq(ContextType) /\ Len(cs2) = n + 1
      /\ \A k \in 1..n : cs2[k] = cs[k]
      /\ cs2[n + 1] = cx
  BY <1>1, AppendProperties
<1> HIDE DEF cs2
<1>3. ContextsOK(cs2, e, m + 1, B)
  <2>1. Len(cs2) = e + (m + 1)
    BY <1>1, <1>2
  <2>2. ASSUME NEW k \in 1..Len(cs2)
        PROVE  cs2[k].firstBB = Null <=> k <= e
    <3>1. CASE k = n + 1
      BY <1>1, <1>2, <3>1
    <3>2. CASE k \in 1..n
      BY <1>2, <3>2 DEF ContextsOK
    <3>3. QED
      BY <1>1, <1>2, <3>1, <3>2
  <2>3. ASSUME NEW k \in e..Len(cs2)
        PROVE  ContextOK(cs2[k], B)
    <3>1. CASE k = n + 1
      BY <1>2, <3>1
    <3>2. CASE k \in 1..n
      BY <1>2, <3>2 DEF ContextsOK
    <3>3. QED
      BY <1>1, <1>2, <3>1, <3>2
  <2>4. QED
    BY <1>2, <2>1, <2>2, <2>3 DEF ContextsOK
<1>4. LocalsOf(cs2, e) = Append(LocalsOf(cs, e), cx.localsBlock)
  <2> DEFINE L2 == Append(LocalsOf(cs, e), cx.localsBlock)
  <2>1. /\ LocalsOf(cs, e) \in Seq(Nat) /\ Len(LocalsOf(cs, e)) = m
        /\ \A k \in 1..m : LocalsOf(cs, e)[k] = cs[e + k].localsBlock
    <3>1. e <= Len(cs) /\ Len(cs) - e = m
      BY <1>1
    <3>2. QED
      BY <1>1, <3>1, LocalsType
  <2>2. /\ L2 \in Seq(Nat) /\ Len(L2) = m + 1
        /\ \A k \in 1..m : L2[k] = cs[e + k].localsBlock
        /\ L2[m + 1] = cx.localsBlock
    <3>1. cx.localsBlock \in Nat
      BY DEF ContextType
    <3>2. /\ Len(L2) = Len(LocalsOf(cs, e)) + 1 /\ L2 \in Seq(Nat)
          /\ \A k \in 1..Len(LocalsOf(cs, e)) : L2[k] = LocalsOf(cs, e)[k]
          /\ L2[Len(LocalsOf(cs, e)) + 1] = cx.localsBlock
      BY <2>1, <3>1, AppendProperties
    <3> HIDE DEF L2
    <3>3. QED
      BY <2>1, <3>2
  <2>3. /\ LocalsOf(cs2, e) \in Seq(Nat) /\ Len(LocalsOf(cs2, e)) = m + 1
        /\ \A k \in 1..m + 1 : LocalsOf(cs2, e)[k] = cs2[e + k].localsBlock
    <3>1. e <= Len(cs2) /\ Len(cs2) - e = m + 1
      BY <1>1, <1>2
    <3>2. QED
      BY <1>2, <3>1, LocalsType
  <2> HIDE DEF L2
  <2>4. \A k \in 1..m + 1 : L2[k] = LocalsOf(cs2, e)[k]
    <3> TAKE k \in 1..m + 1
    <3>1. CASE k = m + 1
      BY <1>1, <1>2, <2>2, <2>3, <3>1
    <3>2. CASE k \in 1..m
      <4>1. cs2[e + k] = cs[e + k]
        BY <1>1, <1>2, <3>2
      <4>2. QED
        BY <2>2, <2>3, <3>2, <4>1
    <3>3. QED
      BY <3>1, <3>2
  <2>5. L2 = LocalsOf(cs2, e)
    BY <2>2, <2>3, <2>4, SeqEqual
  <2>6. QED
    BY <2>5 DEF L2
<1>5. QED
  BY <1>3, <1>4 DEF cs2

(* leaveBlock *)
LEMMA ContextLeft ==
  ASSUME NEW e \in Nat \ {0}, NEW m \in Nat \ {0}, NEW B, NEW cs, ContextsOK(cs, e, m, B)
  PROVE  /\ ContextsOK(Front(cs), e, m - 1, B)
         /\ LocalsOf(Front(cs), e) = Front(LocalsOf(cs, e))
         /\ LocalsOf(cs, e) # <<>>
         /\ Last(LocalsOf(cs, e)) = Last(cs).localsBlock
<1> DEFINE n   == Len(cs)
           cs2 == Front(cs)
<1>1. cs \in Seq(ContextType) /\ n = e + m /\ cs # <<>>
  BY EmptySeq DEF ContextsOK
<1>2. /\ cs2 \in Seq(ContextType) /\ Len(cs2) = n - 1 /\ Last(cs) = cs[n]
      /\ \A k \in 1..n - 1 : cs2[k] = cs[k]
  BY <1>1, FrontLast
<1> HIDE DEF cs2
<1>3. ContextsOK(cs2, e, m - 1, B)
  <2>1. Len(cs2) = e + (m - 1)
    BY <1>1, <1>2
  <2>2. \A k \in 1..Len(cs2) : k \in 1..n /\ cs2[k] = cs[k]
    BY <1>1, <1>2
  <2>3. \A k \in e..Len(cs2) : k \in e..n /\ k \in 1..Len(cs2)
    BY <1>1, <1>2
  <2>4. QED
    BY <1>2, <2>1, <2>2, <2>3 DEF ContextsOK
<1>4. /\ LocalsOf(cs2, e) = Front(LocalsOf(cs, e))
      /\ LocalsOf(cs, e) # <<>>
      /\ Last(LocalsOf(cs, e)) = Last(cs).localsBlock
  <2> DEFINE L  == LocalsOf(cs, e)
             L2 == LocalsOf(cs2, e)
  <2>1. /\ L \in Seq(Nat) /\ Len(L) = m
        /\ \A k \in 1..m : L[k] = cs[e + k].localsBlock
    <3>1. e <= Len(cs) /\ Len(cs) - e = m
      BY <1>1
    <3>2. QED
      BY <1>1, <3>1, LocalsType
  <2>2. /\ L2 \in Seq(Nat) /\ Len(L2) = m - 1
        /\ \A k \in 1..m - 1 : L2[k] = cs2[e + k].localsBlock
    <3>1. e <= Len(cs2) /\ Len(cs2) - e = m - 1
      BY <1>1, <1>2
    <3>2. QED
      BY <1>2, <3>1, LocalsType
  <2> HIDE DEF L, L2
  <2>3. L # <<>>
    BY <2>1, EmptySeq
  <2>4. /\ Front(L) \in Seq(Nat) /\ Len(Front(L)) = m - 1 /\ Last(L) = L[m]
        /\ \A k \in 1..m - 1 : Front(L)[k] = L[k]
    BY <2>1, <2>3, FrontLast
  <2>5. \A k \in 1..m - 1 : L2[k] = Front(L)[k]
    <3> TAKE k \in 1..m - 1
    <3>1. e + k \in 1..n - 1 /\ k \in 1..m
      BY <1>1
    <3>2. QED
      BY <1>2, <2>1, <2>2, <2>4, <3>1
  <2>6. L2 = Front(L)
    BY <2>2, <2>4, <2>5, SeqEqual
  <2>7. QED
    BY <1>1, <1>2, <2>1, <2>3, <2>4, <2>6 DEF L, L2
<1>5. QED
  BY <1>3, <1>4 DEF cs2

(* enterLoopBasicBlock *)
LEMMA LoopEntered ==
  ASSUME NEW e \in Nat \ {0}, NEW m \in Nat, NEW B \in SUBSET Nat, ContextsOK(contexts, e, m, B),
         NEW cont \in B, NEW brk \in B
  PROVE  /\ ContextsOK(enterLoopBasicBlock(cont, brk), e, m, B)
         /\ LocalsOf(enterLoopBasicBlock(cont, brk), e) = LocalsOf(contexts, e)
<1> DEFINE cs  == contexts
           n   == Len(cs)
           cx  == [cs[n] EXCEPT !.continueBlock = cont, !.breakBlock = brk]
           cs2 == enterLoopBasicBlock(cont, brk)
<1>1. /\ cs \in Seq(ContextType) /\ n = e + m /\ n \in 1..n /\ n \in e..n
      /\ cs[n] \in ContextType /\ ContextOK(cs[n], B)
  BY ElementOfSeq DEF ContextsOK
<1>2. /\ cx \in ContextType /\ cx.localsBlock = cs[n].localsBlock /\ cx.firstBB = cs[n].firstBB
      /\ cx.continueBlock = cont /\ cx.breakBlock = brk
  BY <1>1 DEF ContextType
<1> HIDE DEF cx
<1>3. cs2 = [cs EXCEPT ![n] = cx]
  BY DEF cx, enterLoopBasicBlock
<1>4. /\ cs2 \in Seq(ContextType) /\ Len(cs2) = n
      /\ \A k \in 1..n : cs2[k] = IF k = n THEN cx ELSE cs[k]
  BY <1>1, <1>2, <1>3, ExceptSeq
<1> HIDE DEF cs2
<1>5. \A k \in 1..n : cs2[k].localsBlock = cs[k].localsBlock /\ cs2[k].firstBB = cs[k].firstBB
  BY <1>2, <1>4
<1>6. ContextOK(cx, B)
  BY <1>1, <1>2 DEF ContextOK
<1>7. \A k \in e..n : k \in 1..n /\ ContextOK(cs2[k], B)
  BY <1>1, <1>4, <1>6 DEF ContextsOK
<1>8. ContextsOK(cs2, e, m, B)
  BY <1>1, <1>4, <1>5, <1>7 DEF ContextsOK
<1>9. \A k \in 1..n - e : e + k \in 1..n
  BY <1>1
<1>10. LocalsOf(cs2, e) = LocalsOf(cs, e)
  BY <1>4, <1>5, <1>9 DEF LocalsOf
<1>11. QED
  BY <1>8, <1>10 DEF cs2
-----------------------------------------------------------------------------
(* What a step within a function may rely on, when it has added k blocks. *)
LEMMA Ready ==
  ASSUME IInv, visits # <<>>, NEW k \in Nat
  PROVE  LET n == Len(code)
             e == Len(entries)
             B == Current(entries, n + k)
         IN /\ n \in Nat /\ n + k \in Nat /\ e \in Nat \ {0} /\ ThisNode \in Nat \ {0}
            /\ B \subseteq 1..n + k /\ n + 1..n + k \subseteq B
            /\ \A x, y \in B : y \in 1..n + k /\ Together(entries, x, y)
            /\ bb \in B /\ bb \in OpenBlocks(code) /\ OpenBlocks(code) \subseteq 1..n
            /\ VisitsOK(visits, B)
            /\ Cardinality(BlockVisits(visits)) \in Nat
            /\ ContextsOK(contexts, e, Cardinality(BlockVisits(visits)), B)
            /\ PendingOf(visits) \in Seq(SUBSET Nat) /\ LocalsOf(contexts, e) \in Seq(Nat)
            /\ Balanced(OpenBlocks(code), PendingOf(visits), LocalsOf(contexts, e), bb)
            /\ Top \in FrameType /\ FrameOK(Top, B) /\ Pending(Top) \subseteq OpenBlocks(code) \ {bb}
            /\ contexts # <<>> /\ currentContext \in ContextType /\ ContextOK(currentContext, B)
<1> DEFINE n == Len(code)
           e == Len(entries)
           m == Cardinality(BlockVisits(visits))
           B == Current(entries, n + k)
<1>1. Active /\ TypeOK
  BY DEF IInv, Idle
<1>2. /\ n \in Nat /\ n + k \in Nat /\ e \in Nat \ {0} /\ entries \in Seq(1..n) /\ visits \in Seq(FrameType)
      /\ ThisNode \in Nat \ {0}
  BY <1>1, LenProperties, EmptySeq DEF Active, TypeOK, Good, IInv, ThisNode
<1>3. entries[e] \in 1..n
  BY <1>2, ElementOfSeq
<1>4. /\ Current(entries, n) \subseteq B /\ B \subseteq 1..n + k /\ n + 1..n + k \subseteq B
  BY <1>2, <1>3 DEF Current
<1>5. \A x, y \in B : y \in 1..n + k /\ Together(entries, x, y)
  <2>1. entries \in Seq(Nat \ {0}) /\ entries # <<>>
    <3>1. \A f \in 1..e : entries[f] \in Nat \ {0}
      BY <1>2, ElementOfSeq
    <3>2. entries \in Seq(Nat \ {0})
      BY <1>2, <3>1, SeqRetyped
    <3>3. QED
      BY <1>1, <3>2 DEF Active
  <2>2. \A f, g \in 1..Len(entries) : f < g => entries[f] < entries[g]
    BY DEF IInv, Entries
  <2>3. QED
    BY <1>2, <2>1, <2>2, CurrentTogether
<1>6. VisitsOK(visits, B) /\ ContextsOK(contexts, e, m, B)
  BY <1>1, <1>4, StacksGrow DEF Active
<1>7. m \in Nat /\ PendingOf(visits) \in Seq(SUBSET Nat) /\ Len(PendingOf(visits)) = Len(visits)
      /\ \A i \in 1..Len(visits) : PendingOf(visits)[i] = Pending(visits[i])
  BY <1>2, BlockVisitsFinite, PendingType
<1>8. LocalsOf(contexts, e) \in Seq(Nat)
  <2>1. contexts \in Seq(ContextType) /\ Len(contexts) = e + m
    BY <1>6 DEF ContextsOK
  <2>2. QED
    BY <1>2, <1>7, <2>1, LocalsType
<1>9. Balanced(OpenBlocks(code), PendingOf(visits), LocalsOf(contexts, e), bb)
  BY <1>1 DEF Active
<1>10. bb \in B /\ bb \in OpenBlocks(code) /\ OpenBlocks(code) \subseteq 1..n
  BY <1>1, <1>4, <1>9 DEF Active, Balanced, OpenBlocks
<1>11. /\ Top \in FrameType /\ FrameOK(Top, B) /\ Pending(Top) \subseteq OpenBlocks(code) \ {bb}
  <2>1. Len(visits) \in 1..Len(visits) /\ Top = visits[Len(visits)]
    BY <1>2, LenProperties, EmptySeq DEF Top, Last
  <2>2. Top \in FrameType /\ FrameOK(Top, B)
    BY <1>2, <1>6, <2>1, ElementOfSeq DEF VisitsOK
  <2>3. Pending(Top) \subseteq OpenBlocks(code) \ {bb}
    BY <1>7, <1>9, <2>1 DEF Balanced
  <2>4. QED
    BY <2>2, <2>3
<1>12. contexts # <<>> /\ currentContext \in ContextType /\ ContextOK(currentContext, B)
  <2>1. contexts \in Seq(ContextType) /\ Len(contexts) = e + m
    BY <1>6 DEF ContextsOK
  <2>2. Len(contexts) \in e..Len(contexts) /\ Len(contexts) \in 1..Len(contexts)
    BY <1>2, <1>7, <2>1
  <2>3. QED
    BY <1>6, <2>1, <2>2, ElementOfSeq, EmptySeq DEF ContextsOK, currentContext, Last
<1>13. QED
  BY <1>2, <1>4, <1>5, <1>6, <1>7, <1>8, <1>9, <1>10, <1>11, <1>12

(* ... and what it has to establish *)
LEMMA FunctionStep ==
  ASSUME IInv, visits # <<>>,
         entries' = entries, ast' \in Seq(NodeType), status' \in {"translating", "aborted"},
         Good(code', entries), Len(code') >= Len(code),
         bb' \in Current(entries, Len(code')),
         VisitsOK(visits', Current(entries, Len(code'))),
         ContextsOK(contexts', Len(entries), Cardinality(BlockVisits(visits')),
                    Current(entries, Len(code'))),
         Balanced(OpenBlocks(code'), PendingOf(visits'), LocalsOf(contexts', Len(entries)), bb')
  PROVE  IInv'
<1>1. /\ Len(code) \in Nat /\ Len(code') \in Nat /\ code' \in Seq(Seq(Insn))
      /\ entries \in Seq(1..Len(code)) /\ entries # <<>>
  BY LenProperties DEF IInv, TypeOK, Good, Idle, Active
<1>2. entries' \in Seq(1..Len(code'))
  <2>1. \A f \in 1..Len(entries) : entries[f] \in 1..Len(code')
    BY <1>1, ElementOfSeq
  <2>2. QED
    BY <1>1, <2>1, SeqRetyped
<1>3. bb' \in 0..Len(code')
  <2>1. entries[Len(entries)] \in 1..Len(code)
    BY <1>1, ElementOfSeq, LenProperties, EmptySeq
  <2>2. QED
    BY <1>1, <2>1 DEF Current
<1>4. TypeOK'
  BY <1>1, <1>2, <1>3 DEF TypeOK, VisitsOK, ContextsOK
<1>5. Entries'
  <2>1. ASSUME NEW b \in 1..Len(code')
        PROVE  \E f \in 1..Len(entries) : InFunction(entries, f, b)
    <3>1. CASE b <= Len(code)
      <4>1. b \in 1..Len(code)
        BY <1>1, <3>1
      <4>2. QED
        BY <4>1 DEF IInv, Entries
    <3>2. CASE b > Len(code)
      <4>1. Len(entries) \in 1..Len(entries) /\ ~ Len(entries) < Len(entries)
        BY <1>1, LenProperties, EmptySeq
      <4>2. entries[Len(entries)] \in 1..Len(code)
        BY <1>1, <4>1, ElementOfSeq
      <4>3. InFunction(entries, Len(entries), b)
        BY <1>1, <3>2, <4>1, <4>2 DEF InFunction
      <4>4. QED
        BY <4>1, <4>3
    <3>3. QED
      BY <1>1, <3>1, <3>2
  <2>2. \A b \in 1..Len(code') : \E f \in 1..Len(entries') : InFunction(entries', f, b)
    BY <2>1 DEF InFunction
  <2>3. QED
    BY <1>1, <2>2 DEF IInv, Entries
<1>6. Active'
  BY <1>1 DEF Active
<1>7. Good(code, entries)'
  OBVIOUS
<1>8. QED
  BY <1>4, <1>5, <1>6, <1>7 DEF IInv

(* A block of the function being visited has a context of its own, and a   *)
(* locals block that is open.                                              *)
LEMMA InFunctionBody ==
  ASSUME IInv, visits # <<>>, Top.role # "fun"
  PROVE  /\ Cardinality(BlockVisits(visits)) \in Nat \ {0}
         /\ currentContext.localsBlock \in OpenBlocks(code) \ {bb}
<1> DEFINE m == Cardinality(BlockVisits(visits))
           e == Len(entries)
           L == LocalsOf(contexts, e)
           B == Current(entries, Len(code) + 0)
<1>1. /\ e \in Nat \ {0} /\ VisitsOK(visits, B) /\ m \in Nat /\ ContextsOK(contexts, e, m, B)
      /\ L \in Seq(Nat) /\ Balanced(OpenBlocks(code), PendingOf(visits), L, bb)
  BY Ready
<1>2. visits \in Seq(FrameType) /\ Len(visits) \in Nat \ {0} /\ Top = visits[Len(visits)]
  BY <1>1, FrontLast DEF VisitsOK, Top
<1>3. 2 \in BlockVisits(visits)
  <2>1. Len(visits) # 1
    BY <1>1, <1>2 DEF VisitsOK
  <2>2. QED
    BY <1>1, <1>2, <2>1 DEF VisitsOK, BlockVisits
<1>4. m # 0
  BY <1>2, <1>3, BlockVisitsFinite, FS_EmptySet
<1>5. L # <<>> /\ Last(L) = currentContext.localsBlock
  BY <1>1, <1>4, ContextLeft DEF currentContext
<1> HIDE DEF L
<1>6. Last(L) = L[Len(L)] /\ Len(L) \in 1..Len(L)
  <2>1. L \in Seq(Nat) /\ L # <<>>
    BY <1>1, <1>5
  <2>2. Len(L) \in Nat \ {0} /\ Last(L) = L[Len(L)]
    BY <2>1, FrontLast
  <2>3. QED
    BY <2>2
<1>7. Last(L) \in OpenBlocks(code) \ {bb}
  BY <1>1, <1>6 DEF Balanced
<1>8. QED
  BY <1>1, <1>4, <1>5, <1>7

LEMMA NodeAdded ==
  ASSUME IInv, visits # <<>>, NEW kind \in Statements
  PROVE  Append(ast, Node(kind)) \in Seq(NodeType)
<1>1. Top \in FrameType
  BY Ready, 0 \in Nat
<1>2. Node(kind) \in NodeType
  BY <1>1, StatementsAssumption DEF Node, NodeType, FrameType
<1>3. QED
  BY <1>2, AppendProperties DEF IInv, TypeOK

(* A simple statement is translated. *)
LEMMA SimpleStep ==
  ASSUME IInv, visits # <<>>, NEW kind \in Statements, VisitSimple(kind),
         UNCHANGED <<entries, contexts>>, status' \in {"translating", "aborted"},
         Good(code', entries), NEW k \in Nat, Len(code') = Len(code) + k,
         bb' \in Current(entries, Len(code) + k),
         Balanced(OpenBlocks(code'), PendingOf(visits), LocalsOf(contexts, Len(entries)), bb')
  PROVE  IInv'
<1> DEFINE B == Current(entries, Len(code) + k)
           m == Cardinality(BlockVisits(visits))
<1>1. /\ Len(code) \in Nat /\ VisitsOK(visits, B) /\ ContextsOK(contexts, Len(entries), m, B)
  BY Ready
<1>2. ast' \in Seq(NodeType) /\ visits' = ChildDone
  BY NodeAdded DEF VisitSimple
<1>3. /\ VisitsOK(visits', B) /\ PendingOf(visits') = PendingOf(visits)
      /\ BlockVisits(visits') = BlockVisits(visits)
  BY <1>1, <1>2, ChildTranslated DEF ChildDone
<1>4. Len(code') >= Len(code)
  BY <1>1
<1>5. QED
  BY <1>1, <1>2, <1>3, <1>4, FunctionStep

(* A statement with statements in it is visited. *)
LEMMA CompoundStep ==
  ASSUME IInv, visits # <<>>, Top.role # "fun",
         NEW kind \in Statements, NEW fr \in FrameType, VisitCompound(kind, fr),
         fr.role \notin {"fun", "block"},
         entries' = entries, status' = "translating",
         Good(code', entries), NEW k \in Nat, Len(code') = Len(code) + k,
         bb' \in Len(code) + 1..Len(code) + k,
         Pending(fr) \subseteq Len(code) + 1..Len(code) + k, bb' \notin Pending(fr),
         FrameOK(fr, Current(entries, Len(code) + k)),
         OpenBlocks(code') = (OpenBlocks(code) \ {bb}) \cup Pending(fr) \cup {bb'},
         ContextsOK(contexts', Len(entries), Cardinality(BlockVisits(visits)),
                    Current(entries, Len(code) + k)),
         LocalsOf(contexts', Len(entries)) = LocalsOf(contexts, Len(entries))
  PROVE  IInv'
<1> DEFINE B == Current(entries, Len(code) + k)
           O == OpenBlocks(code)
           P == PendingOf(visits)
           L == LocalsOf(contexts, Len(entries))
           m == Cardinality(BlockVisits(visits))
<1>1. /\ Len(code) \in Nat /\ VisitsOK(visits, B) /\ m \in Nat /\ O \subseteq 1..Len(code)
      /\ P \in Seq(SUBSET Nat) /\ L \in Seq(Nat) /\ Balanced(O, P, L, bb)
      /\ Len(code) + 1..Len(code) + k \subseteq B
  BY Ready
<1>2. ast' \in Seq(NodeType) /\ visits' = Append(ChildDone, fr)
  BY NodeAdded DEF VisitCompound
<1>3. /\ VisitsOK(ChildDone, B) /\ PendingOf(ChildDone) = P
      /\ BlockVisits(ChildDone) = BlockVisits(visits) /\ Last(ChildDone).role = Top.role
  BY <1>1, ChildTranslated DEF ChildDone, Top
<1>4. /\ VisitsOK(visits', B) /\ PendingOf(visits') = Append(P, Pending(fr))
      /\ Cardinality(BlockVisits(visits')) = m + 0
  BY <1>2, <1>3, VisitStarts
<1>5. Balanced(OpenBlocks(code'), Append(P, Pending(fr)), L, bb')
  <2>1. Pending(fr) \cap O = {} /\ bb' \notin O /\ Pending(fr) \in SUBSET Nat
    BY <1>1
  <2> DEFINE Q == Pending(fr)
             x == bb'
  <2>2. /\ P \in Seq(SUBSET Nat) /\ L \in Seq(Nat) /\ Balanced(O, P, L, bb)
        /\ Q \in SUBSET Nat /\ Q \cap O = {} /\ x \notin O /\ x \notin Q
    BY <1>1, <2>1
  <2> HIDE DEF O, P, L, Q, x
  <2>3. Balanced((O \ {bb}) \cup Q \cup {x}, Append(P, Q), L, x)
    BY <2>2, Open
  <2>4. QED
    BY <2>3 DEF O, P, L, Q, x
<1>6. bb' \in B /\ Len(code') >= Len(code) /\ m + 0 = m
  BY <1>1
<1>7. QED
  BY <1>2, <1>4, <1>5, <1>6, FunctionStep

(* It has been: control goes to the block where its paths meet. *)
LEMMA EndStep ==
  ASSUME IInv, visits # <<>>, Top.role \notin {"fun", "block"}, status = "translating",
         visits' = Front(visits), UNCHANGED <<ast, entries, contexts, status>>,
         Good(code', entries), Len(code') = Len(code), bb' = Top.merge,
         OpenBlocks(code') = (OpenBlocks(code) \ {bb}) \ (Pending(Top) \ {Top.merge})
  PROVE  IInv'
<1> DEFINE B == Current(entries, Len(code) + 0)
           O == OpenBlocks(code)
           P == PendingOf(visits)
           L == LocalsOf(contexts, Len(entries))
           m == Cardinality(BlockVisits(visits))
<1>1. /\ Len(code) \in Nat /\ VisitsOK(visits, B) /\ m \in Nat /\ Top \in FrameType
      /\ P \in Seq(SUBSET Nat) /\ L \in Seq(Nat) /\ Balanced(O, P, L, bb)
      /\ FrameOK(Top, B) /\ ContextsOK(contexts, Len(entries), m, B)
  BY Ready
<1>2. /\ VisitsOK(visits', B) /\ PendingOf(visits') = Front(P) /\ P # <<>>
      /\ Last(P) = Pending(Top) /\ m = Cardinality(BlockVisits(visits')) + 0
  BY <1>1, VisitEnds DEF Top
<1>3. Top.merge \in Last(P) /\ Top.merge \in B
  BY <1>1, <1>2 DEF FrameType, Roles, Pending, FrameOK
<1>4. Front(P) \in Seq(SUBSET Nat) /\ Append(Front(P), {}) \in Seq(SUBSET Nat)
      /\ Append(Front(P), {}) # <<>>
  BY <1>1, <1>2, FrontLast, AppendProperties
<1>5. /\ Front(Append(Front(P), {})) = Front(P)
      /\ Last(Append(Front(P), {})) = {}
  BY <1>4, FrontAppend
<1>6. Balanced((O \ {bb}) \ (Last(P) \ ({} \cup {Top.merge})), Append(Front(P), {}), L, Top.merge)
  BY <1>1, <1>2, <1>3, Hand
<1>7. (O \ {bb}) \ (Last(P) \ ({} \cup {Top.merge})) = OpenBlocks(code')
  BY <1>2
<1>8. Balanced(OpenBlocks(code'), Front(P), L, bb')
  BY <1>1, <1>4, <1>5, <1>6, <1>7, Close
<1>9. /\ Len(code') >= Len(code) /\ Cardinality(BlockVisits(visits')) = m
      /\ Current(entries, Len(code')) = B
  <2>1. visits' \in Seq(FrameType)
    BY <1>2 DEF VisitsOK
  <2>2. Cardinality(BlockVisits(visits')) \in Nat
    BY <2>1, BlockVisitsFinite
  <2>3. QED
    BY <1>1, <1>2, <2>2
<1>10. ast' \in Seq(NodeType)
  BY DEF IInv, TypeOK
<1>11. QED
  BY <1>1, <1>2, <1>3, <1>8, <1>9, <1>10, FunctionStep
-----------------------------------------------------------------------------
(* Each action keeps the invariant. *)

LEMMA EnterFunctionStep ==
  ASSUME IInv, NEW args \in BOOLEAN, EnterFunction(args)
  PROVE  IInv'
<1> DEFINE n     == Len(code)
           entry == n + 1
           more  == addBasicBlocks(code, 1)
           fr    == Frame(ThisNode, "fun", FALSE, Null, Null, Null)
           cx    == Context(entry, Null, Null, Null)
<1>1. /\ Idle /\ TypeOK /\ Entries /\ Good(code, entries) /\ n \in Nat /\ status' = "translating"
      /\ code \in Seq(Seq(Insn)) /\ entries \in Seq(1..n) /\ Len(entries) \in Nat
      /\ contexts \in Seq(ContextType) /\ Len(contexts) = Len(entries)
      /\ entries' = Append(entries, entry) /\ bb' = entry /\ contexts' = Append(contexts, cx)
      /\ visits' = <<fr>>
  BY LenProperties DEF IInv, EnterFunction, Active, Idle, VisitsOK, TypeOK, Good
<1>2. /\ entries' \in Seq(Nat \ {0}) /\ Len(entries') = Len(entries) + 1
      /\ \A f \in 1..Len(entries) : entries'[f] = entries[f] /\ entries[f] \in 1..n
      /\ entries'[Len(entries) + 1] = entry
  <2>1. \A f \in 1..Len(entries) : entries[f] \in 1..n
    BY <1>1, ElementOfSeq
  <2>2. \A f \in 1..Len(entries) : entries[f] \in Nat \ {0}
    BY <1>1, <2>1
  <2>3. entries \in Seq(Nat \ {0}) /\ entry \in Nat \ {0}
    BY <1>1, <2>2, SeqRetyped
  <2>4. QED
    BY <1>1, <2>1, <2>3, AppendProperties
<1>3. Good(code, entries')
  <2>1. ASSUME NEW b \in 1..n, NEW t \in Successors(code[b])
        PROVE  t \in 1..n /\ Together(entries', b, t)
    <3>1. t \in 1..n /\ Together(entries, b, t)
      BY <1>1, <2>1 DEF Good
    <3>2. \A f \in 1..Len(entries') : f \in 1..Len(entries) \/ f = Len(entries) + 1
      <4>1. Len(entries) \in Nat /\ Len(entries') = Len(entries) + 1
        BY <1>1, <1>2
      <4>2. QED
        BY <4>1
    <3>3. ~ entry <= b /\ ~ entry <= t
      BY <1>1, <3>1
    <3>4. QED
      BY <1>2, <3>1, <3>2, <3>3 DEF Together
  <2>2. QED
    <3>1. ASSUME NEW b \in 1..n
          PROVE  CallsNamed(code[b], entries')
      <4>1. CallsNamed(code[b], entries)
        BY <1>1, <3>1 DEF Good
      <4>2. 1..Len(entries) \subseteq 1..Len(entries')
        BY <1>1, <1>2
      <4>3. QED
        BY <4>1, <4>2 DEF CallsNamed, Calls
    <3>2. QED
      BY <1>1, <2>1, <3>1 DEF Good
<1>4. /\ Good(more, entries') /\ Len(more) = n + 1
      /\ OpenBlocks(more) = OpenBlocks(code) \cup (n + 1)..(n + 1)
  BY <1>3, Adding
<1>5. Good(code', entries') /\ Len(code') = n + 1 /\ OpenBlocks(code') = {entry}
  <2>1. OpenBlocks(more) = {entry}
    BY <1>1, <1>4 DEF Idle
  <2>2. CASE ~args
    BY <1>4, <2>1, <2>2 DEF EnterFunction
  <2>3. CASE args
    <3> DEFINE c1 == append(more, entry, INS("ALLOCA", 0))
               c2 == append(c1, entry, INS("ST", 0))
    <3> HIDE DEF more
    <3>1. Good(c1, entries') /\ Len(c1) = n + 1 /\ OpenBlocks(c1) = {entry}
      BY <1>4, <2>1, Computing
    <3> HIDE DEF c1
    <3>2. Good(c2, entries') /\ Len(c2) = n + 1 /\ OpenBlocks(c2) = {entry}
      BY <3>1, Computing
    <3>3. code' = c2
      BY <2>3 DEF EnterFunction, c1, more
    <3>4. QED
      BY <3>2, <3>3
  <2>4. QED
    BY <2>2, <2>3
<1> DEFINE B == Current(entries', n + 1)
<1>6. entry \in B /\ B \in SUBSET Nat
  BY <1>1, <1>2 DEF Current
<1>7. VisitsOK(visits', B) /\ PendingOf(visits') = <<{}>> /\ BlockVisits(visits') = {}
  <2>1. /\ fr \in FrameType /\ fr.role = "fun" /\ Pending(fr) = {} /\ FrameOK(fr, B)
    BY <1>1, LenProperties DEF Frame, FrameType, Roles, Pending, FrameOK, Null, ThisNode, TypeOK
  <2> HIDE DEF fr
  <2>2. /\ visits' \in Seq(FrameType) /\ visits' # <<>> /\ Len(visits') = 1 /\ visits'[1] = fr
    BY <1>1, <2>1
  <2>3. QED
    BY <2>1, <2>2 DEF VisitsOK, PendingOf, BlockVisits
<1>8. ContextsOK(contexts', Len(entries'), 0, B) /\ LocalsOf(contexts', Len(entries')) = <<>>
  <2>1. cx \in ContextType /\ ContextOK(cx, B) /\ cx.firstBB = Null
    BY <1>1, <1>6 DEF Context, ContextType, ContextOK, Null
  <2> HIDE DEF cx
  <2>2. /\ contexts' \in Seq(ContextType) /\ Len(contexts') = Len(contexts) + 1
        /\ \A k \in 1..Len(contexts) : contexts'[k] = contexts[k]
        /\ contexts'[Len(contexts) + 1] = cx
    BY <1>1, <2>1, AppendProperties
  <2>3. Len(contexts') = Len(entries') /\ Len(contexts') \in Nat
    BY <1>1, <1>2, <2>2
  <2>4. \A k \in 1..Len(contexts') : contexts'[k].firstBB = Null /\ k <= Len(entries')
    BY <1>1, <2>1, <2>2, <2>3 DEF Idle
  <2>5. \A k \in Len(entries')..Len(contexts') : ContextOK(contexts'[k], B)
    BY <1>1, <2>1, <2>2, <2>3
  <2>6. ContextsOK(contexts', Len(entries'), 0, B)
    BY <2>2, <2>3, <2>4, <2>5 DEF ContextsOK
  <2>7. LocalsOf(contexts', Len(entries')) = <<>>
    <3>1. Len(contexts') - Len(entries') = 0
      BY <2>3
    <3>2. QED
      BY <3>1 DEF LocalsOf
  <2>8. QED
    BY <2>6, <2>7
<1>9. Balanced({entry}, <<{}>>, <<>>, entry)
  BY DEF Balanced
<1>10. Active'
  <2>1. Cardinality(BlockVisits(visits')) = 0
    BY <1>7, FS_EmptySet
  <2>2. entries' # <<>>
    BY <1>1, AppendProperties, entry \in 1..n + 1, 1..n \subseteq 1..n + 1
  <2>3. QED
    BY <1>1, <1>5, <1>6, <1>7, <1>8, <1>9, <2>1, <2>2 DEF Active
<1>11. Entries'
  <2>1. entries'[1] = 1
    <3>1. CASE entries = <<>>
      <4>1. code = <<>> /\ n = 0 /\ Len(entries) = 0
        BY <1>1, <3>1 DEF Entries
      <4>2. QED
        BY <1>2, <4>1
    <3>2. CASE entries # <<>>
      BY <1>1, <1>2, <3>2, EmptySeq DEF Entries
    <3>3. QED
      BY <3>1, <3>2
  <2>2. ASSUME NEW f \in 1..Len(entries'), NEW g \in 1..Len(entries'), f < g
        PROVE  entries'[f] < entries'[g]
    <3>1. f \in 1..Len(entries)
      BY <1>1, <1>2, <2>2
    <3>2. CASE g \in 1..Len(entries)
      BY <1>1, <1>2, <2>2, <3>1, <3>2 DEF Entries
    <3>3. CASE g = Len(entries) + 1
      BY <1>1, <1>2, <3>1, <3>3
    <3>4. QED
      BY <1>1, <1>2, <3>2, <3>3
  <2>3. entries' # <<>>
    BY <1>10 DEF Active
  <2>4. ASSUME NEW b \in 1..Len(code')
        PROVE  \E f \in 1..Len(entries') : InFunction(entries', f, b)
    <3>1. CASE b = entry
      <4>1. Len(entries') \in 1..Len(entries') /\ entries'[Len(entries')] = entry
        BY <1>1, <1>2
      <4>2. InFunction(entries', Len(entries'), b)
        BY <1>1, <3>1, <4>1 DEF InFunction
      <4>3. QED
        BY <4>1, <4>2
    <3>2. CASE b \in 1..n
      <4>1. PICK f \in 1..Len(entries) : InFunction(entries, f, b)
        BY <1>1, <3>2 DEF Entries
      <4>2. f \in 1..Len(entries') /\ entries'[f] = entries[f]
        BY <1>1, <1>2
      <4>3. f < Len(entries') => b < entries'[f + 1]
        <5>1. CASE f = Len(entries)
          BY <1>1, <1>2, <3>2, <5>1
        <5>2. CASE f < Len(entries)
          <6>1. f + 1 \in 1..Len(entries)
            BY <1>1, <5>2
          <6>2. entries'[f + 1] = entries[f + 1]
            BY <1>2, <6>1
          <6>3. QED
            BY <4>1, <5>2, <6>2 DEF InFunction
        <5>3. QED
          BY <1>1, <5>1, <5>2
      <4>4. InFunction(entries', f, b)
        BY <4>1, <4>2, <4>3 DEF InFunction
      <4>5. QED
        BY <4>2, <4>4
    <3>3. QED
      BY <1>1, <1>5, <3>1, <3>2
  <2>5. QED
    BY <2>1, <2>2, <2>3, <2>4 DEF Entries
<1>12. TypeOK'
  <2>1. ast' \in Seq(NodeType)
    <3>1. [kind |-> "fun", parent |-> 0, role |-> "program"] \in NodeType
      BY DEF NodeType
    <3>2. QED
      BY <1>1, <3>1, AppendProperties DEF EnterFunction, TypeOK
  <2>2. entries' \in Seq(1..Len(code'))
    <3>1. \A f \in 1..Len(entries') : entries'[f] \in 1..n + 1
      <4>1. \A f \in 1..Len(entries') : f \in 1..Len(entries) \/ f = Len(entries) + 1
        BY <1>1, <1>2
      <4>2. entry \in 1..n + 1 /\ \A f \in 1..n : f \in 1..n + 1
        BY <1>1
      <4>3. QED
        BY <1>2, <4>1, <4>2
    <3>2. QED
      BY <1>2, <1>5, <3>1, SeqRetyped
  <2>3. code' \in Seq(Seq(Insn)) /\ bb' \in 0..Len(code') /\ status' = "translating"
    BY <1>1, <1>5 DEF Good
  <2>4. visits' \in Seq(FrameType) /\ contexts' \in Seq(ContextType)
    BY <1>7, <1>8 DEF VisitsOK, ContextsOK
  <2>5. QED
    BY <2>1, <2>2, <2>3, <2>4 DEF TypeOK
<1>13. QED
  BY <1>5, <1>10, <1>11, <1>12 DEF IInv

LEMMA LeaveFunctionStep ==
  ASSUME IInv, LeaveFunction
  PROVE  IInv'
<1> DEFINE e == Len(entries)
           B == Current(entries, Len(code) + 0)
           O == OpenBlocks(code)
           P == PendingOf(visits)
           L == LocalsOf(contexts, e)
           m == Cardinality(BlockVisits(visits))
<1>1. /\ visits # <<>> /\ Top.role = "fun" /\ visits' = <<>> /\ status = "translating"
      /\ UNCHANGED <<ast, entries, bb, contexts, status>>
  BY DEF LeaveFunction, Visited
<1>2. /\ Len(code) \in Nat /\ e \in Nat \ {0} /\ VisitsOK(visits, B) /\ bb \in O
      /\ ContextsOK(contexts, e, m, B) /\ Balanced(O, P, L, bb) /\ Good(code, entries)
  BY <1>1, Ready DEF IInv
<1>3. /\ visits \in Seq(FrameType) /\ Len(visits) = 1 /\ visits[1].role = "fun"
  <2>1. visits \in Seq(FrameType) /\ Len(visits) \in 1..Len(visits) /\ Top = visits[Len(visits)]
    <3>1. visits \in Seq(FrameType)
      BY <1>2 DEF VisitsOK
    <3>2. Len(visits) \in Nat \ {0} /\ Top = visits[Len(visits)]
      BY <1>1, <3>1, FrontLast DEF Top
    <3>3. QED
      BY <3>1, <3>2
  <2>2. QED
    BY <1>1, <1>2, <2>1 DEF VisitsOK
<1>4. m = 0 /\ Len(contexts) = e /\ \A k \in 1..Len(contexts) : contexts[k].firstBB = Null
  <2>1. BlockVisits(visits) = {}
    BY <1>3 DEF BlockVisits
  <2>2. m = 0
    BY <2>1, FS_EmptySet
  <2>3. QED
    BY <1>2, <2>2 DEF ContextsOK
<1>5. O = {bb}
  <2>1. Len(L) = 0
    BY <1>2, <1>4, LocalsType DEF ContextsOK
  <2>2. Len(P) = 1 /\ P[1] = {}
    <3>1. Pending(visits[1]) = {}
      BY <1>3 DEF Pending
    <3>2. QED
      BY <1>3, <3>1, PendingType
  <2>3. QED
    BY <1>2, <2>1, <2>2 DEF Balanced
<1>6. code' = append(code, bb, RET)
  BY <1>2 DEF LeaveFunction, OpenBlocks
<1>7. Good(code', entries) /\ Len(code') = Len(code) /\ OpenBlocks(code') = {}
  BY <1>2, <1>5, <1>6, Returning DEF RET
<1>8. Idle'
  BY <1>1, <1>4, <1>7 DEF Idle
<1>9. Entries'
  <2>1. entries # <<>>
    BY <1>2
  <2>2. QED
    BY <1>1, <1>7, <2>1 DEF IInv, Entries
<1>10. TypeOK'
  BY <1>1, <1>7 DEF IInv, TypeOK, Good
<1>11. QED
  BY <1>1, <1>7, <1>8, <1>9, <1>10 DEF IInv

LEMMA FinishStep ==
  ASSUME IInv, Finish
  PROVE  IInv'
<1>1. Idle /\ UNCHANGED <<ast, code, entries, bb, contexts, visits>> /\ status' = "done"
  BY DEF IInv, Finish, Active, VisitsOK
<1>2. TypeOK' /\ Entries' /\ Good(code', entries') /\ Idle'
  BY <1>1 DEF IInv, TypeOK, Entries, Idle, OpenBlocks
<1>3. QED
  BY <1>2 DEF IInv

LEMMA VisitBlockStep ==
  ASSUME IInv, VisitBlock
  PROVE  IInv'
<1> DEFINE n      == Len(code)
           e      == Len(entries)
           B      == Current(entries, n + 2)
           O      == OpenBlocks(code)
           P      == PendingOf(visits)
           L      == LocalsOf(contexts, e)
           m      == Cardinality(BlockVisits(visits))
           locals == n + 1
           first  == n + 2
           more   == addBasicBlocks(code, 2)
           fr     == Frame(ThisNode, "block", FALSE, Null, Null, Null)
           cx     == Context(locals, first, currentContext.breakBlock, currentContext.continueBlock)
<1>1. /\ visits # <<>> /\ "block" \in Statements /\ status = "translating"
      /\ ast' = Append(ast, Node("block")) /\ visits' = Append(ChildDone, fr)
      /\ bb' = first /\ contexts' = Append(contexts, cx) /\ UNCHANGED <<entries, status>>
  BY DEF VisitBlock, Visiting, VisitCompound, enterBlock
<1>2. /\ n \in Nat /\ e \in Nat \ {0} /\ n + 1..n + 2 \subseteq B
      /\ \A x, y \in B : y \in 1..n + 2 /\ Together(entries, x, y)
      /\ bb \in B /\ bb \in O /\ O \subseteq 1..n
      /\ VisitsOK(visits, B) /\ m \in Nat /\ ContextsOK(contexts, e, m, B)
      /\ P \in Seq(SUBSET Nat) /\ L \in Seq(Nat) /\ Balanced(O, P, L, bb)
      /\ currentContext \in ContextType /\ ContextOK(currentContext, B)
      /\ ThisNode \in Nat \ {0} /\ Good(code, entries)
  BY <1>1, Ready DEF IInv
<1>3. locals \in B /\ first \in B
  BY <1>2
<1>4. /\ Good(more, entries) /\ Len(more) = n + 2
      /\ OpenBlocks(more) = O \cup n + 1..n + 2
  BY <1>2, Adding
<1>5. code' = append(more, bb, JMP(locals))
  BY <1>2 DEF VisitBlock, OpenBlocks
<1>6. /\ Good(code', entries) /\ Len(code') = n + 2
      /\ OpenBlocks(code') = (O \cup n + 1..n + 2) \ {bb}
  <2> HIDE DEF more, O
  <2>1. bb \in OpenBlocks(more) /\ locals \in 1..Len(more) /\ Together(entries, bb, locals)
    BY <1>2, <1>3, <1>4
  <2>2. QED
    BY <1>4, <1>5, <2>1, Jumping
<1>7. /\ VisitsOK(visits', B) /\ PendingOf(visits') = Append(P, {})
      /\ Cardinality(BlockVisits(visits')) = m + 1
  <2>1. fr \in FrameType /\ fr.role = "block" /\ Pending(fr) = {} /\ FrameOK(fr, B)
    BY <1>2 DEF Frame, FrameType, Roles, Pending, FrameOK, Null
  <2>2. /\ VisitsOK(ChildDone, B) /\ PendingOf(ChildDone) = P
        /\ BlockVisits(ChildDone) = BlockVisits(visits)
    BY <1>2, ChildTranslated DEF ChildDone
  <2> HIDE DEF fr, P
  <2>3. QED
    BY <1>1, <2>1, <2>2, VisitStarts
<1>8. /\ ContextsOK(contexts', e, m + 1, B) /\ LocalsOf(contexts', e) = Append(L, locals)
  <2>1. /\ cx \in ContextType /\ ContextOK(cx, B) /\ cx.firstBB # Null /\ cx.localsBlock = locals
    BY <1>2, <1>3 DEF Context, ContextType, ContextOK, Null
  <2> HIDE DEF cx, m, B, locals
  <2>2. /\ ContextsOK(Append(contexts, cx), e, m + 1, B)
        /\ LocalsOf(Append(contexts, cx), e) = Append(LocalsOf(contexts, e), cx.localsBlock)
    BY <1>2, <2>1, ContextEntered
  <2>3. QED
    BY <1>1, <2>1, <2>2
<1>9. Balanced(OpenBlocks(code'), Append(P, {}), Append(L, locals), first)
  <2> DEFINE O2 == (O \ {bb}) \cup {} \cup {first}
  <2>1. Balanced(O2, Append(P, {}), L, first)
    BY <1>2, Open
  <2>2. Append(P, {}) \in Seq(SUBSET Nat) /\ locals \in Nat /\ locals \notin O2
    BY <1>2, AppendProperties
  <2> HIDE DEF O2, P, L
  <2>3. Balanced(O2 \cup {locals}, Append(P, {}), Append(L, locals), first)
    BY <1>2, <2>1, <2>2, OpenLocals
  <2>4. O2 \cup {locals} = OpenBlocks(code')
    <3>1. n + 1..n + 2 = {locals, first} /\ bb \notin {locals, first}
      <4>1. n \in Nat /\ bb \in 1..n
        BY <1>2
      <4>2. QED
        BY <4>1
    <3> HIDE DEF O, locals, first
    <3>2. QED
      BY <1>6, <3>1 DEF O2
  <2>5. QED
    BY <2>3, <2>4
<1>10. ast' \in Seq(NodeType) /\ Len(code') >= Len(code) /\ status' \in {"translating", "aborted"}
  BY <1>1, <1>2, <1>6, NodeAdded
<1>11. QED
  BY <1>1, <1>3, <1>6, <1>7, <1>8, <1>9, <1>10, FunctionStep

LEMMA LeaveBlockStep ==
  ASSUME IInv, LeaveBlock
  PROVE  IInv'
<1> DEFINE n == Len(code)
           e == Len(entries)
           B == Current(entries, n + 0)
           O == OpenBlocks(code)
           P == PendingOf(visits)
           L == LocalsOf(contexts, e)
           m == Cardinality(BlockVisits(visits))
           b == currentContext.localsBlock
           t == currentContext.firstBB
<1>1. /\ visits # <<>> /\ Top.role = "block" /\ status = "translating"
      /\ code' = append(code, b, JMP(t)) /\ contexts' = Front(contexts) /\ visits' = Front(visits)
      /\ UNCHANGED <<ast, entries, bb, status>>
  BY DEF LeaveBlock, Visited
<1>2. /\ n \in Nat /\ e \in Nat \ {0}
      /\ \A x, y \in B : y \in 1..n + 0 /\ Together(entries, x, y)
      /\ bb \in B /\ VisitsOK(visits, B) /\ ContextsOK(contexts, e, m, B) /\ contexts # <<>>
      /\ P \in Seq(SUBSET Nat) /\ L \in Seq(Nat) /\ Balanced(O, P, L, bb)
      /\ ContextOK(currentContext, B) /\ Good(code, entries)
  BY <1>1, Ready DEF IInv
<1>3. m \in Nat \ {0} /\ b \in O
  BY <1>1, InFunctionBody
<1>4. t \in B /\ b \in B
  <2>1. contexts \in Seq(ContextType) /\ Len(contexts) = e + m
    BY <1>2 DEF ContextsOK
  <2>2. currentContext = contexts[e + m]
    BY <2>1 DEF currentContext, Last
  <2>3. e + m \in 1..Len(contexts) /\ ~ e + m <= e
    BY <1>2, <1>3, <2>1
  <2>4. t # Null
    BY <1>2, <2>2, <2>3 DEF ContextsOK
  <2>5. QED
    BY <1>2, <2>4 DEF ContextOK
<1>5. Good(code', entries) /\ Len(code') = n /\ OpenBlocks(code') = O \ {b}
  <2>1. t \in 1..Len(code) /\ Together(entries, b, t)
    BY <1>2, <1>4
  <2> HIDE DEF b, t
  <2>2. QED
    BY <1>1, <1>2, <1>3, <2>1, Jumping
<1>6. /\ ContextsOK(contexts', e, m - 1, B) /\ LocalsOf(contexts', e) = Front(L)
      /\ L # <<>> /\ Last(L) = b
  <2> HIDE DEF m, B
  <2>1. /\ ContextsOK(Front(contexts), e, m - 1, B)
        /\ LocalsOf(Front(contexts), e) = Front(LocalsOf(contexts, e))
        /\ LocalsOf(contexts, e) # <<>>
        /\ Last(LocalsOf(contexts, e)) = Last(contexts).localsBlock
    BY <1>2, <1>3, ContextLeft
  <2>2. QED
    BY <1>1, <2>1 DEF currentContext
<1>7. /\ VisitsOK(visits', B) /\ PendingOf(visits') = Front(P) /\ P # <<>> /\ Last(P) = {}
      /\ m = Cardinality(BlockVisits(visits')) + 1
  <2>1. Pending(Top) = {}
    BY <1>1 DEF Pending
  <2>2. QED
    BY <1>1, <1>2, <2>1, VisitEnds DEF Top
<1>8. Cardinality(BlockVisits(visits')) = m - 1
  <2>1. visits' \in Seq(FrameType)
    BY <1>7 DEF VisitsOK
  <2>2. QED
    BY <1>7, <2>1, BlockVisitsFinite
<1>9. Balanced(OpenBlocks(code'), Front(P), Front(L), bb)
  <2>1. Balanced(O \ {Last(L)}, P, Front(L), bb) /\ Front(L) \in Seq(Nat)
    BY <1>2, <1>6, CloseLocals, FrontLast
  <2>2. Balanced(O \ {Last(L)}, Front(P), Front(L), bb)
    BY <1>2, <1>7, <2>1, Close
  <2>3. QED
    BY <1>5, <1>6, <2>2
<1>10. /\ ast' \in Seq(NodeType) /\ Len(code') >= Len(code)
       /\ bb' \in B /\ Current(entries, Len(code')) = B
  BY <1>1, <1>2, <1>5 DEF IInv, TypeOK
<1>11. QED
  BY <1>1, <1>5, <1>6, <1>7, <1>8, <1>9, <1>10, FunctionStep

LEMMA VisitIfStep ==
  ASSUME IInv, VisitIf
  PROVE  IInv'
<1> DEFINE n     == Len(code)
           B     == Current(entries, n + 3)
           O     == OpenBlocks(code)
           then  == n + 1
           else  == n + 2
           merge == n + 3
           more  == addBasicBlocks(code, 3)
           fr    == Frame(ThisNode, "then", FALSE, Null, else, merge)
<1>1. /\ visits # <<>> /\ "if" \in Statements /\ Top.role # "fun"
      /\ code' = branch(more, bb, ThisNode, then, else) /\ bb' = then
      /\ VisitCompound("if", fr) /\ UNCHANGED <<entries, contexts, status>>
      /\ status = "translating"
  BY DEF VisitIf, Visiting
<1>2. /\ n \in Nat /\ n + 1..n + 3 \subseteq B
      /\ \A x, y \in B : y \in 1..n + 3 /\ Together(entries, x, y)
      /\ bb \in B /\ bb \in O /\ O \subseteq 1..n /\ ThisNode \in Nat \ {0}
      /\ ContextsOK(contexts, Len(entries), Cardinality(BlockVisits(visits)), B)
      /\ Good(code, entries)
  BY <1>1, Ready DEF IInv
<1>3. then \in B /\ else \in B /\ merge \in B
  BY <1>2
<1>4. Good(more, entries) /\ Len(more) = n + 3 /\ OpenBlocks(more) = O \cup n + 1..n + 3
  BY <1>2, Adding
<1>5. Good(code', entries) /\ Len(code') = n + 3 /\ OpenBlocks(code') = (O \cup n + 1..n + 3) \ {bb}
  <2>1. /\ bb \in OpenBlocks(more) /\ then \in 1..Len(more) /\ else \in 1..Len(more)
        /\ Together(entries, bb, then) /\ Together(entries, bb, else)
    BY <1>2, <1>3, <1>4
  <2> HIDE DEF more, then, else, O
  <2>2. QED
    BY <1>1, <1>2, <1>4, <2>1, Branching
<1>6. fr \in FrameType /\ fr.role = "then" /\ Pending(fr) = {else, merge} /\ FrameOK(fr, B)
  BY <1>2, <1>3 DEF Frame, FrameType, Roles, Pending, FrameOK, Null
<1> HIDE DEF fr
<1>7. /\ Pending(fr) \subseteq n + 1..n + 3 /\ bb' \in n + 1..n + 3 /\ bb' \notin Pending(fr)
      /\ OpenBlocks(code') = (O \ {bb}) \cup Pending(fr) \cup {bb'}
  BY <1>1, <1>2, <1>5, <1>6
<1>8. QED
  BY <1>1, <1>2, <1>5, <1>6, <1>7, CompoundStep

LEMMA EndThenStep ==
  ASSUME IInv, NEW falseCase \in BOOLEAN, EndThen(falseCase)
  PROVE  IInv'
<1> DEFINE n  == Len(code)
           e  == Len(entries)
           B  == Current(entries, n + 0)
           O  == OpenBlocks(code)
           P  == PendingOf(visits)
           L  == LocalsOf(contexts, e)
           m  == Cardinality(BlockVisits(visits))
           fr == Frame(Top.at, "else", ~falseCase, Null, Null, Top.merge)
<1>1. /\ visits # <<>> /\ Top.role = "then" /\ status = "translating"
      /\ code' = append(code, bb, JMP(Top.merge)) /\ bb' = Top.alt
      /\ visits' = Append(Front(visits), fr) /\ UNCHANGED <<ast, entries, contexts, status>>
  BY DEF EndThen, Visited
<1>2. /\ n \in Nat /\ \A x, y \in B : y \in 1..n + 0 /\ Together(entries, x, y)
      /\ bb \in B /\ bb \in O /\ VisitsOK(visits, B) /\ m \in Nat /\ ContextsOK(contexts, e, m, B)
      /\ P \in Seq(SUBSET Nat) /\ L \in Seq(Nat) /\ Balanced(O, P, L, bb)
      /\ Top \in FrameType /\ FrameOK(Top, B) /\ Good(code, entries)
  BY <1>1, Ready DEF IInv
<1>3. /\ Pending(Top) = {Top.alt, Top.merge} /\ Top.alt # Top.merge
      /\ Top.alt \in B /\ Top.merge \in B
  BY <1>1, <1>2 DEF Pending, FrameOK
<1>4. Good(code', entries) /\ Len(code') = n /\ OpenBlocks(code') = O \ {bb}
  <2>1. Top.merge \in 1..Len(code) /\ Together(entries, bb, Top.merge)
    BY <1>2, <1>3
  <2>2. QED
    BY <1>1, <1>2, <2>1, Jumping
<1>5. /\ VisitsOK(Front(visits), B) /\ PendingOf(Front(visits)) = Front(P) /\ P # <<>>
      /\ Last(P) = Pending(Top) /\ m = Cardinality(BlockVisits(Front(visits))) + 0
      /\ Last(Front(visits)).role # "fun"
  BY <1>1, <1>2, VisitEnds DEF Top
<1>6. /\ fr \in FrameType /\ fr.role = "else" /\ Pending(fr) = {Top.merge} /\ FrameOK(fr, B)
  BY <1>2, <1>3 DEF Frame, FrameType, Roles, Pending, FrameOK, Null
<1> HIDE DEF fr
<1>7. /\ VisitsOK(visits', B) /\ PendingOf(visits') = Append(Front(P), {Top.merge})
      /\ Cardinality(BlockVisits(visits')) = m
  <2>1. /\ VisitsOK(visits', B) /\ PendingOf(visits') = Append(Front(P), {Top.merge})
        /\ Cardinality(BlockVisits(visits')) = Cardinality(BlockVisits(Front(visits))) + 0
    BY <1>1, <1>5, <1>6, VisitStarts
  <2>2. QED
    BY <1>5, <2>1
<1>8. Balanced(OpenBlocks(code'), Append(Front(P), {Top.merge}), L, bb')
  <2> DEFINE R == {Top.merge}
             x == Top.alt
  <2>1. x \in Last(P) /\ R \in SUBSET Last(P) /\ x \notin R
    BY <1>3, <1>5
  <2>2. Last(P) \ (R \cup {x}) = {}
    BY <1>3, <1>5
  <2> HIDE DEF R, x, P, L
  <2>3. Balanced((O \ {bb}) \ (Last(P) \ (R \cup {x})), Append(Front(P), R), L, x)
    BY <1>2, <1>5, <2>1, Hand
  <2>4. QED
    BY <1>1, <1>4, <2>2, <2>3 DEF R, x
<1>9. /\ ast' \in Seq(NodeType) /\ Len(code') >= Len(code) /\ Current(entries, Len(code')) = B
  BY <1>1, <1>2, <1>4 DEF IInv, TypeOK
<1>10. QED
  BY <1>1, <1>2, <1>3, <1>4, <1>7, <1>8, <1>9, FunctionStep

LEMMA EndIfStep ==
  ASSUME IInv, EndIf
  PROVE  IInv'
<1> DEFINE B == Current(entries, Len(code) + 0)
<1>1. /\ visits # <<>> /\ Top.role = "else" /\ status = "translating"
      /\ code' = append(code, bb, JMP(Top.merge)) /\ bb' = Top.merge /\ visits' = Front(visits)
      /\ UNCHANGED <<ast, entries, contexts, status>>
  BY DEF EndIf, Visited
<1>2. /\ Len(code) \in Nat /\ \A x, y \in B : y \in 1..Len(code) + 0 /\ Together(entries, x, y)
      /\ bb \in B /\ bb \in OpenBlocks(code) /\ FrameOK(Top, B) /\ Good(code, entries)
  BY <1>1, Ready DEF IInv
<1>3. Pending(Top) = {Top.merge} /\ Top.merge \in B
  BY <1>1, <1>2 DEF Pending, FrameOK
<1>4. Top.merge \in 1..Len(code) /\ Together(entries, bb, Top.merge)
  BY <1>2, <1>3
<1>5. /\ Good(code', entries) /\ Len(code') = Len(code)
      /\ OpenBlocks(code') = (OpenBlocks(code) \ {bb}) \ (Pending(Top) \ {Top.merge})
  BY <1>1, <1>2, <1>3, <1>4, Jumping
<1>6. QED
  BY <1>1, <1>5, EndStep

LEMMA VisitWhileStep ==
  ASSUME IInv, VisitWhile
  PROVE  IInv'
<1> DEFINE n     == Len(code)
           e     == Len(entries)
           B     == Current(entries, n + 3)
           O     == OpenBlocks(code)
           m     == Cardinality(BlockVisits(visits))
           cond  == n + 1
           body  == n + 2
           merge == n + 3
           c1    == addBasicBlocks(code, 3)
           c2    == append(c1, bb, JMP(cond))
           fr    == Frame(ThisNode, "while", FALSE, cond, Null, merge)
<1>1. /\ visits # <<>> /\ "while" \in Statements /\ Top.role # "fun"
      /\ code' = branch(c2, cond, ThisNode, body, merge) /\ bb' = body
      /\ contexts' = enterLoopBasicBlock(body, merge)
      /\ VisitCompound("while", fr) /\ UNCHANGED <<entries, status>>
      /\ status = "translating"
  BY DEF VisitWhile, Visiting
<1>2. /\ n \in Nat /\ e \in Nat \ {0} /\ n + 1..n + 3 \subseteq B /\ B \subseteq 1..n + 3
      /\ \A x, y \in B : y \in 1..n + 3 /\ Together(entries, x, y)
      /\ bb \in B /\ bb \in O /\ O \subseteq 1..n /\ ThisNode \in Nat \ {0}
      /\ m \in Nat /\ ContextsOK(contexts, e, m, B)
      /\ Good(code, entries)
  BY <1>1, Ready DEF IInv
<1>3. cond \in B /\ body \in B /\ merge \in B
  BY <1>2
<1>4. Good(c1, entries) /\ Len(c1) = n + 3 /\ OpenBlocks(c1) = O \cup n + 1..n + 3
  BY <1>2, Adding
<1>5. Good(c2, entries) /\ Len(c2) = n + 3 /\ OpenBlocks(c2) = (O \cup n + 1..n + 3) \ {bb}
  <2>1. bb \in OpenBlocks(c1) /\ cond \in 1..Len(c1) /\ Together(entries, bb, cond)
    BY <1>2, <1>3, <1>4
  <2> HIDE DEF c1, cond, O
  <2>2. QED
    BY <1>4, <2>1, Jumping
<1>6. /\ Good(code', entries) /\ Len(code') = n + 3
      /\ OpenBlocks(code') = ((O \cup n + 1..n + 3) \ {bb}) \ {cond}
  <2>1. /\ cond \in OpenBlocks(c2) /\ body \in 1..Len(c2) /\ merge \in 1..Len(c2)
        /\ Together(entries, cond, body) /\ Together(entries, cond, merge)
    BY <1>2, <1>3, <1>5
  <2>2. ThisNode \in Nat /\ Good(c2, entries)
    BY <1>2, <1>5
  <2> HIDE DEF c2, cond, body, merge, O
  <2>3. /\ Good(branch(c2, cond, ThisNode, body, merge), entries)
        /\ Len(branch(c2, cond, ThisNode, body, merge)) = Len(c2)
        /\ OpenBlocks(branch(c2, cond, ThisNode, body, merge)) = OpenBlocks(c2) \ {cond}
    BY <2>1, <2>2, Branching
  <2>4. QED
    BY <1>1, <1>5, <2>3
<1>7. fr \in FrameType /\ fr.role = "while" /\ Pending(fr) = {merge} /\ FrameOK(fr, B)
  BY <1>2, <1>3 DEF Frame, FrameType, Roles, Pending, FrameOK, Null
<1> HIDE DEF fr
<1>8. /\ Pending(fr) \subseteq n + 1..n + 3 /\ bb' \in n + 1..n + 3 /\ bb' \notin Pending(fr)
      /\ OpenBlocks(code') = (O \ {bb}) \cup Pending(fr) \cup {bb'}
  BY <1>1, <1>2, <1>6, <1>7
<1>9. ContextsOK(contexts', e, m, B) /\ LocalsOf(contexts', e) = LocalsOf(contexts, e)
  <2>1. B \in SUBSET Nat
    BY <1>2
  <2>2. /\ e \in Nat \ {0} /\ m \in Nat /\ ContextsOK(contexts, e, m, B)
        /\ body \in B /\ merge \in B
    BY <1>2, <1>3
  <2> HIDE DEF B, m, body, merge
  <2>3. /\ ContextsOK(enterLoopBasicBlock(body, merge), e, m, B)
        /\ LocalsOf(enterLoopBasicBlock(body, merge), e) = LocalsOf(contexts, e)
    BY <2>1, <2>2, LoopEntered
  <2>4. QED
    BY <1>1, <2>3
<1>10. QED
  BY <1>1, <1>2, <1>6, <1>7, <1>8, <1>9, CompoundStep

LEMMA EndWhileStep ==
  ASSUME IInv, EndWhile
  PROVE  IInv'
<1> DEFINE B == Current(entries, Len(code) + 0)
<1>1. /\ visits # <<>> /\ Top.role = "while" /\ status = "translating"
      /\ code' = append(code, bb, JMP(Top.cond)) /\ bb' = Top.merge /\ visits' = Front(visits)
      /\ UNCHANGED <<ast, entries, contexts, status>>
  BY DEF EndWhile, Visited
<1>2. /\ Len(code) \in Nat /\ \A x, y \in B : y \in 1..Len(code) + 0 /\ Together(entries, x, y)
      /\ bb \in B /\ bb \in OpenBlocks(code) /\ FrameOK(Top, B) /\ Good(code, entries)
  BY <1>1, Ready DEF IInv
<1>3. Pending(Top) = {Top.merge} /\ Top.cond \in B
  BY <1>1, <1>2 DEF Pending, FrameOK
<1>4. Top.cond \in 1..Len(code) /\ Together(entries, bb, Top.cond)
  BY <1>2, <1>3
<1>5. /\ Good(code', entries) /\ Len(code') = Len(code)
      /\ OpenBlocks(code') = (OpenBlocks(code) \ {bb}) \ (Pending(Top) \ {Top.merge})
  BY <1>1, <1>2, <1>3, <1>4, Jumping
<1>6. QED
  BY <1>1, <1>5, EndStep

LEMMA VisitDoWhileStep ==
  ASSUME IInv, VisitDoWhile
  PROVE  IInv'
<1> DEFINE n     == Len(code)
           e     == Len(entries)
           B     == Current(entries, n + 3)
           O     == OpenBlocks(code)
           m     == Cardinality(BlockVisits(visits))
           body  == n + 1
           cond  == n + 2
           merge == n + 3
           c1    == addBasicBlocks(code, 3)
           fr    == Frame(ThisNode, "do", FALSE, cond, body, merge)
<1>1. /\ visits # <<>> /\ "do" \in Statements /\ Top.role # "fun"
      /\ code' = append(c1, bb, JMP(body)) /\ bb' = body
      /\ contexts' = enterLoopBasicBlock(cond, merge)
      /\ VisitCompound("do", fr) /\ UNCHANGED <<entries, status>>
      /\ status = "translating"
  BY DEF VisitDoWhile, Visiting
<1>2. /\ n \in Nat /\ e \in Nat \ {0} /\ n + 1..n + 3 \subseteq B /\ B \subseteq 1..n + 3
      /\ \A x, y \in B : y \in 1..n + 3 /\ Together(entries, x, y)
      /\ bb \in B /\ bb \in O /\ O \subseteq 1..n /\ ThisNode \in Nat \ {0}
      /\ m \in Nat /\ ContextsOK(contexts, e, m, B)
      /\ Good(code, entries)
  BY <1>1, Ready DEF IInv
<1>3. cond \in B /\ body \in B /\ merge \in B
  BY <1>2
<1>4. Good(c1, entries) /\ Len(c1) = n + 3 /\ OpenBlocks(c1) = O \cup n + 1..n + 3
  BY <1>2, Adding
<1>5. /\ Good(code', entries) /\ Len(code') = n + 3
      /\ OpenBlocks(code') = (O \cup n + 1..n + 3) \ {bb}
  <2>1. bb \in OpenBlocks(c1) /\ body \in 1..Len(c1) /\ Together(entries, bb, body)
    BY <1>2, <1>3, <1>4
  <2> HIDE DEF c1, body, O
  <2>2. QED
    BY <1>1, <1>4, <2>1, Jumping
<1>6. fr \in FrameType /\ fr.role = "do" /\ Pending(fr) = {cond, merge} /\ FrameOK(fr, B)
  BY <1>2, <1>3 DEF Frame, FrameType, Roles, Pending, FrameOK, Null
<1> HIDE DEF fr
<1>7. /\ Pending(fr) \subseteq n + 1..n + 3 /\ bb' \in n + 1..n + 3 /\ bb' \notin Pending(fr)
      /\ OpenBlocks(code') = (O \ {bb}) \cup Pending(fr) \cup {bb'}
  BY <1>1, <1>2, <1>5, <1>6
<1>8. ContextsOK(contexts', e, m, B) /\ LocalsOf(contexts', e) = LocalsOf(contexts, e)
  <2>1. B \in SUBSET Nat
    BY <1>2
  <2>2. /\ e \in Nat \ {0} /\ m \in Nat /\ ContextsOK(contexts, e, m, B)
        /\ cond \in B /\ merge \in B
    BY <1>2, <1>3
  <2> HIDE DEF B, m, cond, merge
  <2>3. /\ ContextsOK(enterLoopBasicBlock(cond, merge), e, m, B)
        /\ LocalsOf(enterLoopBasicBlock(cond, merge), e) = LocalsOf(contexts, e)
    BY <2>1, <2>2, LoopEntered
  <2>4. QED
    BY <1>1, <2>3
<1>9. QED
  BY <1>1, <1>2, <1>5, <1>6, <1>7, <1>8, CompoundStep

LEMMA EndDoWhileStep ==
  ASSUME IInv, EndDoWhile
  PROVE  IInv'
<1> DEFINE B  == Current(entries, Len(code) + 0)
           c1 == append(code, bb, JMP(Top.cond))
<1>1. /\ visits # <<>> /\ Top.role = "do" /\ status = "translating"
      /\ code' = branch(c1, Top.cond, Top.at, Top.alt, Top.merge)
      /\ bb' = Top.merge /\ visits' = Front(visits)
      /\ UNCHANGED <<ast, entries, contexts, status>>
  BY DEF EndDoWhile, Visited
<1>2. /\ Len(code) \in Nat /\ \A x, y \in B : y \in 1..Len(code) + 0 /\ Together(entries, x, y)
      /\ bb \in B /\ bb \in OpenBlocks(code) /\ FrameOK(Top, B) /\ Good(code, entries)
      /\ Top.at \in Nat /\ Pending(Top) \subseteq OpenBlocks(code) \ {bb}
  BY <1>1, Ready DEF IInv, FrameType
<1>3. /\ Pending(Top) = {Top.cond, Top.merge} /\ Top.cond # Top.merge
      /\ Top.cond \in B /\ Top.alt \in B /\ Top.merge \in B
  BY <1>1, <1>2 DEF Pending, FrameOK
<1>4. Good(c1, entries) /\ Len(c1) = Len(code) /\ OpenBlocks(c1) = OpenBlocks(code) \ {bb}
  <2>1. Top.cond \in 1..Len(code) /\ Together(entries, bb, Top.cond)
    BY <1>2, <1>3
  <2>2. QED
    BY <1>2, <2>1, Jumping
<1>5. /\ Good(code', entries) /\ Len(code') = Len(code)
      /\ OpenBlocks(code') = (OpenBlocks(code) \ {bb}) \ {Top.cond}
  <2>1. /\ Top.cond \in OpenBlocks(c1) /\ Top.alt \in 1..Len(c1) /\ Top.merge \in 1..Len(c1)
        /\ Together(entries, Top.cond, Top.alt) /\ Together(entries, Top.cond, Top.merge)
    BY <1>2, <1>3, <1>4
  <2>2. Top.at \in Nat /\ Good(c1, entries)
    BY <1>2, <1>4
  <2> HIDE DEF c1
  <2>3. /\ Good(branch(c1, Top.cond, Top.at, Top.alt, Top.merge), entries)
        /\ Len(branch(c1, Top.cond, Top.at, Top.alt, Top.merge)) = Len(c1)
        /\ OpenBlocks(branch(c1, Top.cond, Top.at, Top.alt, Top.merge)) =
             OpenBlocks(c1) \ {Top.cond}
    BY ONLY <2>1, <2>2, Branching
  <2>4. QED
    BY <1>1, <1>4, <2>3
<1>6. OpenBlocks(code') = (OpenBlocks(code) \ {bb}) \ (Pending(Top) \ {Top.merge})
  BY <1>3, <1>5
<1>7. QED
  BY <1>1, <1>5, <1>6, EndStep

LEMMA VisitForStep ==
  ASSUME IInv, NEW declares \in BOOLEAN, VisitFor(declares)
  PROVE  IInv'
<1> DEFINE n     == Len(code)
           e     == Len(entries)
           B     == Current(entries, n + 4)
           O     == OpenBlocks(code)
           m     == Cardinality(BlockVisits(visits))
           cond  == n + 1
           inc   == n + 2
           body  == n + 3
           merge == n + 4
           alloc == IF declares THEN append(code, currentContext.localsBlock, INS("ALLOCA", ThisNode))
                    ELSE code
           init  == append(alloc, bb, INS("INIT", ThisNode))
           c1    == addBasicBlocks(init, 4)
           c2    == append(c1, bb, JMP(cond))
           fr    == Frame(ThisNode, "for", FALSE, cond, inc, merge)
<1>1. /\ visits # <<>> /\ "for" \in Statements /\ Top.role # "fun"
      /\ code' = branch(c2, cond, ThisNode, body, merge) /\ bb' = body
      /\ contexts' = enterLoopBasicBlock(inc, merge)
      /\ VisitCompound("for", fr) /\ UNCHANGED <<entries, status>>
      /\ status = "translating"
  BY DEF VisitFor, Visiting
<1>2. /\ n \in Nat /\ e \in Nat \ {0} /\ n + 1..n + 4 \subseteq B /\ B \subseteq 1..n + 4
      /\ \A x, y \in B : y \in 1..n + 4 /\ Together(entries, x, y)
      /\ bb \in B /\ bb \in O /\ O \subseteq 1..n /\ ThisNode \in Nat \ {0}
      /\ m \in Nat /\ ContextsOK(contexts, e, m, B)
      /\ Good(code, entries)
  BY <1>1, Ready DEF IInv
<1>3. cond \in B /\ inc \in B /\ body \in B /\ merge \in B
  BY <1>2
<1>4. Good(alloc, entries) /\ Len(alloc) = n /\ OpenBlocks(alloc) = O
  <2>1. currentContext.localsBlock \in O
    BY <1>1, InFunctionBody
  <2>2. QED
    BY <1>2, <2>1, Computing
<1>5. Good(init, entries) /\ Len(init) = n /\ OpenBlocks(init) = O
  <2>1. bb \in OpenBlocks(alloc) /\ ThisNode \in Nat /\ Good(alloc, entries)
    BY <1>2, <1>4
  <2>2. "INIT" \in (Visible \ {"CALL"}) \cup {"ALLOCA", "ST"}
    BY DEF Visible
  <2> HIDE DEF alloc
  <2>3. Good(init, entries) /\ Len(init) = Len(alloc) /\ OpenBlocks(init) = OpenBlocks(alloc)
    BY <2>1, <2>2, Computing
  <2>4. QED
    BY <1>4, <2>3
<1> HIDE DEF alloc, init
<1>6. Good(c1, entries) /\ Len(c1) = n + 4 /\ OpenBlocks(c1) = O \cup n + 1..n + 4
  BY <1>5, Adding
<1>7. Good(c2, entries) /\ Len(c2) = n + 4 /\ OpenBlocks(c2) = (O \cup n + 1..n + 4) \ {bb}
  <2>1. bb \in OpenBlocks(c1) /\ cond \in 1..Len(c1) /\ Together(entries, bb, cond)
    BY <1>2, <1>3, <1>6
  <2> HIDE DEF c1, cond, O
  <2>2. QED
    BY <1>6, <2>1, Jumping
<1>8. /\ Good(code', entries) /\ Len(code') = n + 4
      /\ OpenBlocks(code') = ((O \cup n + 1..n + 4) \ {bb}) \ {cond}
  <2>1. /\ cond \in OpenBlocks(c2) /\ body \in 1..Len(c2) /\ merge \in 1..Len(c2)
        /\ Together(entries, cond, body) /\ Together(entries, cond, merge)
    BY <1>2, <1>3, <1>7
  <2>2. ThisNode \in Nat /\ Good(c2, entries)
    BY <1>2, <1>7
  <2> HIDE DEF c2, cond, body, merge, O
  <2>3. /\ Good(branch(c2, cond, ThisNode, body, merge), entries)
        /\ Len(branch(c2, cond, ThisNode, body, merge)) = Len(c2)
        /\ OpenBlocks(branch(c2, cond, ThisNode, body, merge)) = OpenBlocks(c2) \ {cond}
    BY <2>1, <2>2, Branching
  <2>4. QED
    BY <1>1, <1>7, <2>3
<1>9. fr \in FrameType /\ fr.role = "for" /\ Pending(fr) = {inc, merge} /\ FrameOK(fr, B)
  BY <1>2, <1>3 DEF Frame, FrameType, Roles, Pending, FrameOK, Null
<1> HIDE DEF fr
<1>10. /\ Pending(fr) \subseteq n + 1..n + 4 /\ bb' \in n + 1..n + 4 /\ bb' \notin Pending(fr)
       /\ OpenBlocks(code') = (O \ {bb}) \cup Pending(fr) \cup {bb'}
  BY <1>1, <1>2, <1>8, <1>9
<1>11. ContextsOK(contexts', e, m, B) /\ LocalsOf(contexts', e) = LocalsOf(contexts, e)
  <2>1. B \in SUBSET Nat
    BY <1>2
  <2>2. /\ e \in Nat \ {0} /\ m \in Nat /\ ContextsOK(contexts, e, m, B)
        /\ inc \in B /\ merge \in B
    BY <1>2, <1>3
  <2> HIDE DEF B, m, inc, merge
  <2>3. /\ ContextsOK(enterLoopBasicBlock(inc, merge), e, m, B)
        /\ LocalsOf(enterLoopBasicBlock(inc, merge), e) = LocalsOf(contexts, e)
    BY <2>1, <2>2, LoopEntered
  <2>4. QED
    BY <1>1, <2>3
<1>12. QED
  BY <1>1, <1>2, <1>8, <1>9, <1>10, <1>11, CompoundStep

LEMMA EndForStep ==
  ASSUME IInv, EndFor
  PROVE  IInv'
<1> DEFINE B  == Current(entries, Len(code) + 0)
           c1 == append(code, bb, JMP(Top.alt))
           c2 == append(c1, Top.alt, INS("INC", Top.at))
<1>1. /\ visits # <<>> /\ Top.role = "for" /\ status = "translating"
      /\ code' = append(c2, Top.alt, JMP(Top.cond))
      /\ bb' = Top.merge /\ visits' = Front(visits)
      /\ UNCHANGED <<ast, entries, contexts, status>>
  BY DEF EndFor, Visited
<1>2. /\ Len(code) \in Nat /\ \A x, y \in B : y \in 1..Len(code) + 0 /\ Together(entries, x, y)
      /\ bb \in B /\ bb \in OpenBlocks(code) /\ FrameOK(Top, B) /\ Good(code, entries)
      /\ Top.at \in Nat /\ Pending(Top) \subseteq OpenBlocks(code) \ {bb}
  BY <1>1, Ready DEF IInv, FrameType
<1>3. /\ Pending(Top) = {Top.alt, Top.merge} /\ Top.alt # Top.merge
      /\ Top.cond \in B /\ Top.alt \in B
  BY <1>1, <1>2 DEF Pending, FrameOK
<1>4. Good(c1, entries) /\ Len(c1) = Len(code) /\ OpenBlocks(c1) = OpenBlocks(code) \ {bb}
  <2>1. Top.alt \in 1..Len(code) /\ Together(entries, bb, Top.alt)
    BY <1>2, <1>3
  <2>2. QED
    BY <1>2, <2>1, Jumping
<1>5. Good(c2, entries) /\ Len(c2) = Len(code) /\ OpenBlocks(c2) = OpenBlocks(code) \ {bb}
  <2>1. Top.alt \in OpenBlocks(c1) /\ Top.at \in Nat /\ Good(c1, entries)
    BY <1>2, <1>3, <1>4
  <2>2. "INC" \in (Visible \ {"CALL"}) \cup {"ALLOCA", "ST"}
    BY DEF Visible
  <2> HIDE DEF c1
  <2>3. Good(c2, entries) /\ Len(c2) = Len(c1) /\ OpenBlocks(c2) = OpenBlocks(c1)
    BY <2>1, <2>2, Computing
  <2>4. QED
    BY <1>4, <2>3
<1>6. /\ Good(code', entries) /\ Len(code') = Len(code)
      /\ OpenBlocks(code') = (OpenBlocks(code) \ {bb}) \ {Top.alt}
  <2>1. /\ Top.alt \in OpenBlocks(c2) /\ Top.cond \in 1..Len(c2)
        /\ Together(entries, Top.alt, Top.cond)
    BY <1>2, <1>3, <1>5
  <2> HIDE DEF c2
  <2>2. QED
    BY <1>1, <1>5, <2>1, Jumping
<1>7. OpenBlocks(code') = (OpenBlocks(code) \ {bb}) \ (Pending(Top) \ {Top.merge})
  BY <1>3, <1>6
<1>8. QED
  BY <1>1, <1>6, <1>7, EndStep

(* What break, continue and return have in common: the block ends, and the *)
(* rest of the statements goes to a new one.                               *)
LEMMA FreshBlock ==
  ASSUME IInv, visits # <<>>, NEW O2,
         O2 = (OpenBlocks(code) \cup Len(code) + 1..Len(code) + 1) \ {bb}
  PROVE  Balanced(O2, PendingOf(visits), LocalsOf(contexts, Len(entries)), Len(code) + 1)
<1> DEFINE O == OpenBlocks(code)
           P == PendingOf(visits)
           L == LocalsOf(contexts, Len(entries))
           x == Len(code) + 1
<1>1. /\ Len(code) \in Nat /\ O \subseteq 1..Len(code) /\ bb \in O
      /\ P \in Seq(SUBSET Nat) /\ L \in Seq(Nat) /\ Balanced(O, P, L, bb)
  BY Ready, 0 \in Nat
<1>2. x \notin O /\ x # bb /\ x..x = {x}
  <2>1. Len(code) \in Nat /\ x \notin 1..Len(code)
    BY <1>1
  <2>2. QED
    BY <1>1, <2>1
<1> HIDE DEF O, P, L, x
<1>3. Balanced((O \ {bb}) \cup {x}, P, L, x)
  BY <1>1, <1>2, MoveOn
<1>4. O2 = (O \ {bb}) \cup {x}
  BY <1>2 DEF O, x
<1>5. QED
  BY <1>3, <1>4 DEF P, L, x

LEMMA JumpToStep ==
  ASSUME IInv, NEW kind, NEW target,
         visits # <<>> => target \in Current(entries, Len(code) + 1) \cup {Null},
         JumpTo(kind, target)
  PROVE  IInv'
<1> DEFINE n  == Len(code)
           c1 == addBasicBlocks(code, 1)
           B  == Current(entries, n + 1)
<1>1. /\ visits # <<>> /\ kind \in Statements /\ status = "translating" /\ VisitSimple(kind)
      /\ UNCHANGED <<entries, contexts>>
  BY DEF JumpTo, Visiting
<1>2. CASE target = Null
  <2>1. /\ Balanced(OpenBlocks(code), PendingOf(visits), LocalsOf(contexts, Len(entries)), bb)
        /\ n \in Nat /\ n + 0 = n /\ bb \in Current(entries, n + 0) /\ Good(code, entries)
    BY <1>1, Ready, 0 \in Nat DEF IInv
  <2>2. UNCHANGED <<code, bb>> /\ status' = "aborted"
    BY <1>2 DEF JumpTo
  <2>3. /\ Balanced(OpenBlocks(code'), PendingOf(visits), LocalsOf(contexts, Len(entries)), bb')
        /\ Len(code') = n + 0 /\ bb' \in Current(entries, n + 0) /\ Good(code', entries)
        /\ status' \in {"translating", "aborted"}
    BY <2>1, <2>2
  <2>4. QED
    BY <1>1, <2>3, SimpleStep, 0 \in Nat
<1>3. CASE target # Null
  <2>1. /\ n \in Nat /\ n + 1..n + 1 \subseteq B /\ target \in B
        /\ \A x, y \in B : y \in 1..n + 1 /\ Together(entries, x, y)
        /\ bb \in B /\ bb \in OpenBlocks(code) /\ Good(code, entries)
    BY <1>1, <1>3, Ready, 1 \in Nat DEF IInv
  <2>2. code' = append(c1, bb, JMP(target)) /\ bb' = n + 1 /\ status' \in {"translating", "aborted"}
    BY <1>1, <1>3 DEF JumpTo
  <2>3. /\ Good(c1, entries) /\ Len(c1) = n + 1
        /\ OpenBlocks(c1) = OpenBlocks(code) \cup n + 1..n + 1
    BY <2>1, Adding
  <2>4. bb \in OpenBlocks(c1) /\ target \in 1..Len(c1) /\ Together(entries, bb, target)
    BY <2>1, <2>3
  <2> HIDE DEF c1
  <2>5. /\ Good(code', entries) /\ Len(code') = n + 1
        /\ OpenBlocks(code') = (OpenBlocks(code) \cup n + 1..n + 1) \ {bb}
    BY <2>2, <2>3, <2>4, Jumping
  <2>6. Balanced(OpenBlocks(code'), PendingOf(visits), LocalsOf(contexts, Len(entries)), bb')
    BY <1>1, <2>2, <2>5, FreshBlock
  <2>7. bb' \in B
    BY <2>1, <2>2
  <2>8. QED
    BY <1>1, <2>2, <2>5, <2>6, <2>7, SimpleStep, 1 \in Nat
<1>4. QED
  BY <1>2, <1>3

LEMMA BreakStep ==
  ASSUME IInv, Break \/ Continue
  PROVE  IInv'
<1>1. visits # <<>> =>
        /\ currentContext.breakBlock \in Current(entries, Len(code) + 1) \cup {Null}
        /\ currentContext.continueBlock \in Current(entries, Len(code) + 1) \cup {Null}
  BY Ready, 1 \in Nat DEF ContextOK
<1>2. CASE Break
  BY <1>1, <1>2, JumpToStep DEF Break
<1>3. CASE Continue
  BY <1>1, <1>3, JumpToStep DEF Continue
<1>4. QED
  BY <1>2, <1>3

LEMMA ReturnStep ==
  ASSUME IInv, Return
  PROVE  IInv'
<1> DEFINE n  == Len(code)
           c1 == addBasicBlocks(code, 1)
           c2 == append(c1, bb, INS("EXPR", ThisNode))
           B  == Current(entries, n + 1)
<1>1. /\ visits # <<>> /\ "return" \in Statements /\ status' \in {"translating", "aborted"}
      /\ VisitSimple("return") /\ UNCHANGED <<entries, contexts>>
      /\ code' = append(c2, bb, RETR(ThisNode)) /\ bb' = n + 1
  BY DEF Return, Visiting
<1>2. /\ n \in Nat /\ n + 1..n + 1 \subseteq B /\ bb \in OpenBlocks(code) /\ Good(code, entries)
      /\ ThisNode \in Nat
  BY <1>1, Ready, 1 \in Nat DEF IInv
<1>3. /\ Good(c1, entries) /\ Len(c1) = n + 1 /\ OpenBlocks(c1) = OpenBlocks(code) \cup n + 1..n + 1
  BY <1>2, Adding
<1>4. Good(c2, entries) /\ Len(c2) = Len(c1) /\ OpenBlocks(c2) = OpenBlocks(c1)
  <2>1. bb \in OpenBlocks(c1) /\ "EXPR" \in (Visible \ {"CALL"}) \cup {"ALLOCA", "ST"}
    BY <1>2, <1>3 DEF Visible
  <2> HIDE DEF c1
  <2>2. QED
    BY <1>2, <1>3, <2>1, Computing
<1>5. Good(code', entries) /\ Len(code') = Len(c2) /\ OpenBlocks(code') = OpenBlocks(c2) \ {bb}
  <2>1. bb \in OpenBlocks(c2)
    BY <1>2, <1>3, <1>4
  <2> HIDE DEF c2
  <2>2. QED
    BY <1>1, <1>2, <1>4, <2>1, Returning DEF RETR
<1>6. OpenBlocks(code') = (OpenBlocks(code) \cup n + 1..n + 1) \ {bb} /\ Len(code') = n + 1
  BY <1>3, <1>4, <1>5
<1>7. Balanced(OpenBlocks(code'), PendingOf(visits), LocalsOf(contexts, Len(entries)), bb')
  BY <1>1, <1>6, FreshBlock
<1>8. bb' \in B
  BY <1>1, <1>2
<1>9. QED
  BY <1>1, <1>5, <1>6, <1>7, <1>8, SimpleStep, 1 \in Nat

(* Instructions that only compute go to bb_ and to the locals block. *)
LEMMA ComputingStep ==
  ASSUME IInv, visits # <<>>, NEW kind \in Statements, VisitSimple(kind),
         UNCHANGED <<entries, bb, contexts>>, status' \in {"translating", "aborted"},
         Good(code', entries), Len(code') = Len(code), OpenBlocks(code') = OpenBlocks(code)
  PROVE  IInv'
<1>1. /\ Balanced(OpenBlocks(code), PendingOf(visits), LocalsOf(contexts, Len(entries)), bb)
      /\ Len(code) \in Nat /\ bb \in Current(entries, Len(code) + 0)
  BY Ready, 0 \in Nat
<1>2. /\ Balanced(OpenBlocks(code'), PendingOf(visits), LocalsOf(contexts, Len(entries)), bb')
      /\ Len(code') = Len(code) + 0 /\ bb' \in Current(entries, Len(code) + 0)
  BY <1>1
<1>3. QED
  BY <1>2, SimpleStep, 0 \in Nat

LEMMA ReturnNothingStep ==
  ASSUME IInv, ReturnNothing
  PROVE  IInv'
<1>1. /\ visits # <<>> /\ "return0" \in Statements /\ VisitSimple("return0") /\ status' = "aborted"
      /\ UNCHANGED <<code, entries, bb, contexts>>
  BY DEF ReturnNothing, Visiting
<1>2. Good(code', entries) /\ Len(code') = Len(code) /\ OpenBlocks(code') = OpenBlocks(code)
  BY <1>1 DEF IInv
<1>3. QED
  BY <1>1, <1>2, ComputingStep

(* So does what stops it: it changes none of its blocks.                   *)
LEMMA UnsupportedStep ==
  ASSUME IInv, Unsupported \/ UnsupportedEnd
  PROVE  IInv'
<1>1. /\ visits # <<>> /\ "unsupported" \in Statements /\ VisitSimple("unsupported") /\ status' = "aborted"
      /\ UNCHANGED <<code, entries, bb, contexts>>
  BY DEF Unsupported, UnsupportedEnd, Visiting, Visited
<1>2. Good(code', entries) /\ Len(code') = Len(code) /\ OpenBlocks(code') = OpenBlocks(code)
  BY <1>1 DEF IInv
<1>3. QED
  BY <1>1, <1>2, ComputingStep

LEMMA ExpressionStep ==
  ASSUME IInv, Expression
  PROVE  IInv'
<1>1. /\ visits # <<>> /\ "expr" \in Statements /\ VisitSimple("expr")
      /\ status' \in {"translating", "aborted"}
      /\ UNCHANGED <<entries, bb, contexts>> /\ code' = append(code, bb, INS("EXPR", ThisNode))
  BY DEF Expression, Visiting
<1>2. /\ bb \in OpenBlocks(code) /\ ThisNode \in Nat /\ Good(code, entries)
      /\ "EXPR" \in (Visible \ {"CALL"}) \cup {"ALLOCA", "ST"}
  BY <1>1, Ready, 0 \in Nat DEF IInv, Visible
<1>3. Good(code', entries) /\ Len(code') = Len(code) /\ OpenBlocks(code') = OpenBlocks(code)
  BY <1>1, <1>2, Computing
<1>4. QED
  BY <1>1, <1>3, ComputingStep

LEMMA CallStep ==
  ASSUME IInv, NEW f \in 1..Len(entries), Call(f)
  PROVE  IInv'
<1>1. /\ visits # <<>> /\ "call" \in Statements /\ VisitSimple("call")
      /\ status' \in {"translating", "aborted"}
      /\ UNCHANGED <<entries, bb, contexts>> /\ code' = append(code, bb, CALL(ThisNode, f))
  BY DEF Call, Visiting
<1>2. bb \in OpenBlocks(code) /\ ThisNode \in Nat /\ Good(code, entries)
  BY <1>1, Ready, 0 \in Nat DEF IInv
<1>3. Good(code', entries) /\ Len(code') = Len(code) /\ OpenBlocks(code') = OpenBlocks(code)
  BY <1>1, <1>2, Calling
<1>4. QED
  BY <1>1, <1>3, ComputingStep

LEMMA VarDeclStep ==
  ASSUME IInv, NEW kind \in {"decl", "declinit"}, VarDecl(kind)
  PROVE  IInv'
<1> DEFINE alloc == append(code, currentContext.localsBlock, INS("ALLOCA", ThisNode))
<1>1. /\ visits # <<>> /\ kind \in Statements /\ VisitSimple(kind) /\ Top.role # "fun"
      /\ status' \in {"translating", "aborted"} /\ UNCHANGED <<entries, bb, contexts>>
      /\ code' = IF kind = "declinit" THEN append(alloc, bb, INS("EXPR", ThisNode)) ELSE alloc
  BY DEF VarDecl, Visiting
<1>2. /\ bb \in OpenBlocks(code) /\ ThisNode \in Nat /\ Good(code, entries)
      /\ "EXPR" \in (Visible \ {"CALL"}) \cup {"ALLOCA", "ST"}
      /\ currentContext.localsBlock \in OpenBlocks(code)
  BY <1>1, Ready, InFunctionBody, 0 \in Nat DEF IInv, Visible
<1>3. Good(alloc, entries) /\ Len(alloc) = Len(code) /\ OpenBlocks(alloc) = OpenBlocks(code)
  BY <1>2, Computing
<1> HIDE DEF alloc
<1>4. LET init == append(alloc, bb, INS("EXPR", ThisNode))
      IN Good(init, entries) /\ Len(init) = Len(code) /\ OpenBlocks(init) = OpenBlocks(code)
  BY <1>2, <1>3, Computing
<1>5. Good(code', entries) /\ Len(code') = Len(code) /\ OpenBlocks(code') = OpenBlocks(code)
  BY <1>1, <1>3, <1>4
<1>6. QED
  BY <1>1, <1>5, ComputingStep
-----------------------------------------------------------------------------
LEMMA InitInvariant == Init => IInv
<1> SUFFICES ASSUME Init
             PROVE  IInv
  OBVIOUS
<1>1. TypeOK /\ Entries /\ Good(code, entries)
  BY DEF Init, TypeOK, Entries, Good, Null
<1>2. Idle
  BY DEF Init, Idle, OpenBlocks
<1>3. QED
  BY <1>1, <1>2 DEF IInv

LEMMA NextInvariant == IInv /\ [Next]_vars => IInv'
<1> SUFFICES ASSUME IInv, [Next]_vars
             PROVE  IInv'
  OBVIOUS
<1>1. ASSUME NEW args \in BOOLEAN, EnterFunction(args)
      PROVE  IInv'
  BY <1>1, EnterFunctionStep
<1>2. CASE LeaveFunction
  BY <1>2, LeaveFunctionStep
<1>3. CASE VisitBlock \/ LeaveBlock
  BY <1>3, VisitBlockStep, LeaveBlockStep
<1>4. CASE VisitIf \/ (\E falseCase \in BOOLEAN : EndThen(falseCase)) \/ EndIf
  BY <1>4, VisitIfStep, EndThenStep, EndIfStep
<1>5. CASE VisitWhile \/ EndWhile \/ VisitDoWhile \/ EndDoWhile
  BY <1>5, VisitWhileStep, EndWhileStep, VisitDoWhileStep, EndDoWhileStep
<1>6. CASE (\E declares \in BOOLEAN : VisitFor(declares)) \/ EndFor
  BY <1>6, VisitForStep, EndForStep
<1>7. CASE Break \/ Continue \/ Return \/ ReturnNothing
  BY <1>7, BreakStep, ReturnStep, ReturnNothingStep
<1>8. CASE Unsupported \/ UnsupportedEnd
  BY <1>8, UnsupportedStep
<1>9. CASE Expression \/ (\E f \in 1..Len(entries) : Call(f))
             \/ (\E kind \in {"decl", "declinit"} : VarDecl(kind))
  BY <1>9, ExpressionStep, CallStep, VarDeclStep
<1>10. CASE Finish
  BY <1>10, FinishStep
<1>11. CASE UNCHANGED vars
  BY <1>11 DEF vars, IInv, TypeOK, Entries, Good, Idle, Active, OpenBlocks
<1>12. QED
  BY <1>1, <1>2, <1>3, <1>4, <1>5, <1>6, <1>7, <1>9, <1>10, <1>11, <1>8 DEF Next, Step, Stopped

(* The account of the open blocks holds of every state of the translator:  *)
(* no two holders ever share a block they are to terminate.                *)
THEOREM Invariant == Spec => []IInv
BY InitInvariant, NextInvariant, PTL DEF Spec

(* The stacks of the visitor and the blocks it has made so far have their  *)
(* types: the translator holds no pointer to a block that does not exist.  *)
THEOREM TypeCorrect == Spec => []TypeOK
<1>1. IInv => TypeOK
  BY DEF IInv
<1>2. QED
  BY <1>1, Invariant, PTL

(* However statements are nested, and wherever break, continue and return  *)
(* cut a block short, operator += never meets a terminated block: neither  *)
(* in bb_ nor in the locals block of a context that is still open.         *)
THEOREM WritesAreOpen == Spec => []NeverPastATerminator
<1>1. ASSUME IInv
      PROVE  NeverPastATerminator
  <2>1. \A b \in 1..Len(code) : OneTerminatorLast(code[b])
    BY <1>1 DEF IInv, Good
  <2>2. CASE visits = <<>>
    <3>1. \A i \in 1..Len(contexts) : contexts[i].firstBB = Null
      BY <1>1, <2>2 DEF IInv, Idle, Active, VisitsOK
    <3>2. QED
      BY <2>1, <2>2, <3>1 DEF NeverPastATerminator
  <2>3. CASE visits # <<>>
    <3> DEFINE e == Len(entries)
               m == Cardinality(BlockVisits(visits))
               L == LocalsOf(contexts, e)
               B == Current(entries, Len(code) + 0)
    <3>1. /\ e \in Nat \ {0} /\ m \in Nat /\ ContextsOK(contexts, e, m, B)
          /\ bb \in OpenBlocks(code) /\ Balanced(OpenBlocks(code), PendingOf(visits), L, bb)
      BY <1>1, <2>3, Ready, 0 \in Nat
    <3>2. ASSUME NEW i \in 1..Len(contexts), contexts[i].firstBB # Null
          PROVE  ~terminated(code[contexts[i].localsBlock])
      <4>1. contexts \in Seq(ContextType) /\ Len(contexts) = e + m /\ ~ i <= e
        BY <3>1, <3>2 DEF ContextsOK
      <4>2. i - e \in 1..Len(contexts) - e /\ e + (i - e) = i /\ e <= Len(contexts)
        BY <3>1, <4>1
      <4>3. Len(L) = Len(contexts) - e /\ L[i - e] = contexts[e + (i - e)].localsBlock
        BY <3>1, <4>1, <4>2, LocalsType
      <4>4. contexts[i].localsBlock \in OpenBlocks(code)
        BY <3>1, <4>2, <4>3 DEF Balanced
      <4>5. QED
        BY <4>4 DEF OpenBlocks
    <3>3. ~terminated(code[bb])
      BY <3>1 DEF OpenBlocks
    <3>4. QED
      BY <2>1, <3>2, <3>3 DEF NeverPastATerminator
  <2>4. QED
    BY <2>2, <2>3
<1>2. QED
  BY <1>1, Invariant, PTL

(* At every moment a block is between the entry of its function and the    *)
(* next one: the blocks of two functions are never mixed, although all of  *)
(* them are made by the one visitor.                                       *)
THEOREM BlocksHaveAFunction ==
  Spec => [](\A b \in 1..Len(code) : FunctionOf(b) \in 1..Len(entries) /\ InFunction(entries, FunctionOf(b), b))
<1>1. ASSUME IInv
      PROVE  \A b \in 1..Len(code) :
               FunctionOf(b) \in 1..Len(entries) /\ InFunction(entries, FunctionOf(b), b)
  BY <1>1 DEF IInv, Entries, InFunction, FunctionOf
<1>2. QED
  BY <1>1, Invariant, PTL

\* What the translator leaves when it is done.
LEMMA Finished ==
  ASSUME IInv, status = "done"
  PROVE  /\ WellFormed(code)
         /\ Good(code, entries)
         /\ entries \in Seq(1..Len(code))
         /\ \A f, g \in 1..Len(entries) : f < g => entries[f] < entries[g]
<1>1. Good(code, entries) /\ OpenBlocks(code) = {}
  BY DEF IInv, Idle, Active
<1>2. WellFormed(code)
  BY <1>1 DEF WellFormed, WellFormedBlock, Good, OpenBlocks
<1>3. QED
  BY <1>1, <1>2 DEF IInv, TypeOK, Entries

(* What the translator hands over has exactly one terminator in each block,*)
(* names blocks that exist, and jumps only within a function, for programs *)
(* of any size.                                                            *)
THEOREM Lowered == Spec => []FinishedProgramIsWellFormed
<1>1. ASSUME IInv
      PROVE  FinishedProgramIsWellFormed
  <2> SUFFICES ASSUME status = "done"
               PROVE  /\ WellFormed(code)
                      /\ \A b \in 1..Len(code) : \A t \in Successors(code[b]) :
                           FunctionOf(t) = FunctionOf(b)
    BY DEF FinishedProgramIsWellFormed
  <2>1. Good(code, entries) /\ entries \in Seq(1..Len(code))
    BY <1>1, Finished
  <2>2. WellFormed(code)
    BY <1>1, Finished
  <2>3. ASSUME NEW b \in 1..Len(code), NEW t \in Successors(code[b])
        PROVE  FunctionOf(t) = FunctionOf(b)
    <3>1. Together(entries, b, t) /\ t \in Nat /\ b \in Nat
      <4>1. t \in 1..Len(code) /\ Together(entries, b, t)
        BY <2>1, <2>3 DEF Good
      <4>2. QED
        BY <4>1
    <3>2. ASSUME NEW f \in 1..Len(entries)
          PROVE  (entries[f] <= b /\ (f < Len(entries) => b < entries[f + 1])) <=>
                 (entries[f] <= t /\ (f < Len(entries) => t < entries[f + 1]))
      <4>1. Len(entries) \in Nat /\ (f < Len(entries) => f + 1 \in 1..Len(entries))
        BY <2>1, LenProperties
      <4>2. f < Len(entries) => entries[f + 1] \in Nat
        BY <2>1, <4>1, ElementOfSeq
      <4>3. QED
        BY <3>1, <3>2, <4>1, <4>2 DEF Together
    <3>3. QED
      BY <3>2 DEF FunctionOf
  <2>4. QED
    BY <2>2, <2>3
<1>2. QED
  BY <1>1, Invariant, PTL
-----------------------------------------------------------------------------
(***************************************************************************)
(* What the source program looks like while it is visited, and what the    *)
(* contexts hold of it.                                                    *)
(***************************************************************************)
(* the path of open nodes, from the function to the innermost visit *)
PathOf(vs) == [i \in 1..Len(vs) |-> vs[i].at]
(* the AST nodes with an active visit()                                    *)
OpenNodes(vs) == {vs[i].at : i \in 1..Len(vs)}

(* the roles the parts of a node have                                      *)
RoleOf(kind) == IF kind = "if" THEN {"then", "else"} ELSE {kind}

(* The nodes form a tree, numbered in the order of the visits, whose loops *)
(* are all in blocks.                                                      *)
Tree(a) ==
  \A n \in 1..Len(a) :
    /\ a[n].parent \in 0..(n - 1)
    /\ a[n].parent = 0 <=> a[n].kind = "fun"
    /\ a[n].parent # 0 => /\ Inside(a, n, a[n].parent)
                          /\ a[n].role \in RoleOf(a[a[n].parent].kind)
    /\ a[n].kind \in Loops => \E b \in 1..(n - 1) : a[b].kind = "block" /\ Inside(a, n, b)

(* p goes down the open nodes, each the parent of the next.                *)
Path(a, p) ==
  /\ \A i \in 1..Len(p) : p[i] \in 1..Len(a) /\ Inside(a, Len(a), p[i])
  /\ \A i, j \in 1..Len(p) : i < j => p[i] < p[j]
  /\ \A i \in 1..Len(p) : a[p[i]].parent = IF i = 1 THEN 0 ELSE p[i - 1]

(* For each context: its block, 0 for that of a function, and the loop whose *)
(* blocks break and continue go to, 0 for none.                            *)
HeldType == [block : Nat, loop : Nat]

(* A context without targets holds no loop; that of a function never does. *)
HeldTargets(e, cs, h) ==
  /\ h \in Seq(HeldType)
  /\ Len(h) = Len(cs)
  /\ \A k \in 1..e : h[k].loop = 0
  /\ \A k \in 1..Len(cs) : /\ h[k].loop = 0 <=> cs[k].breakBlock = Null
                           /\ h[k].loop = 0 <=> cs[k].continueBlock = Null

(* The contexts of the open function are those of its open blocks. *)
HeldBlocks(a, p, e, cs, h) ==
  /\ \A k \in (e + 1)..Len(cs) : \E i \in 1..Len(p) : p[i] = h[k].block /\ a[p[i]].kind = "block"
  /\ \A i \in 1..Len(p) : a[p[i]].kind = "block" => \E k \in (e + 1)..Len(cs) : h[k].block = p[i]
  /\ \A k, l \in (e + 1)..Len(cs) : k < l => h[k].block < h[l].block

(* A context knows a loop that is, or was, in a block that is still open ... *)
HeldLoops(a, e, cs, h) ==
  \A k \in (e + 1)..Len(cs) : h[k].loop # 0 =>
    /\ h[k].loop \in 1..Len(a)
    /\ a[h[k].loop].kind \in Loops
    /\ \E j \in (e + 1)..k : EnclosingBlock(a, h[k].loop) = h[j].block

(* ... and that is no older than any open loop outside the next block. *)
HeldInner(a, p, e, cs, h) ==
  \A k \in (e + 1)..Len(cs), i \in 1..Len(p) :
    a[p[i]].kind \in Loops /\ (k = Len(cs) \/ p[i] < h[k + 1].block) => p[i] <= h[k].loop

(* What the contexts hold, h, is what the tree a and its open path p say.  *)
Held(a, p, e, cs, h) ==
  /\ HeldTargets(e, cs, h)
  /\ HeldBlocks(a, p, e, cs, h)
  /\ HeldLoops(a, e, cs, h)
  /\ HeldInner(a, p, e, cs, h)

-----------------------------------------------------------------------------
(***************************************************************************)
(* Where things are in the code, and the simulation.                       *)
(***************************************************************************)
(* Spots in the code: the next in the block, the first of a block, where   *)
(* the next instruction goes; an instruction at a spot, and those that do  *)
(* nothing visible.                                                        *)
Succ(q) == <<q[1], q[2] + 1>>
Start(b) == <<b, 1>>
Here(c, b) == <<b, Len(c[b]) + 1>>
Holds(c, q, i) == q \in Positions(c) /\ InsnAt(c, q) = i
Silent(c) == {q \in Positions(c) : InsnAt(c, q).op \in SilentOps}

(* From q execution comes to r by instructions that do nothing visible: r  *)
(* is in every set with q that these instructions do not leave.  (No       *)
(* number of steps: jumps may be added to the path without counting them   *)
(* again.)                                                                 *)
Leads(c, q, r) ==
  \A S \in SUBSET (Nat \X Nat) :
    q \in S /\ (\A x \in S \cap Silent(c) : StepFrom(c, x) \in S) => r \in S

(* the condition of n at q, and its branch to the starts of two blocks     *)
BranchAt(c, q, n, t, e) ==
  /\ Holds(c, q, INS("COND", n))
  /\ Holds(c, Succ(q), BR(n, t[1], e[1]))
  /\ t = Start(t[1]) /\ e = Start(e[1])

Spot == Nat \X Nat
(* Where the translation of a node is: its first spot, the one after it,   *)
(* its condition, its body and a further spot its kind needs (the else     *)
(* branch, the increment, the locals block).  One such record for each     *)
(* node is the history w.                                                  *)
Where == [first : Spot, after : Spot, cond : Spot, body : Spot, alt : Spot]

(* where the translator lets continue go: in a while loop to the body      *)
ContinueAt(a, w, l) == CASE a[l].kind = "while" -> w[l].body
                         [] a[l].kind = "do"    -> w[l].cond
                         [] OTHER               -> w[l].alt

(* The jump n goes to loop l, its own one or a stale one.                  *)
JumpsTo(a, c, w, n, l) ==
  /\ l \in 1..(n - 1)
  /\ a[l].kind \in Loops
  /\ l = EnclosingLoop(a, n) \/ StaleIn(a, n)
  /\ Leads(c, w[n].first, IF a[n].kind = "break" THEN w[l].after ELSE ContinueAt(a, w, l))

(* What the code has of node n as soon as its visit has begun.             *)
Entered(a, c, w, n) ==
  LET at == w[n]
      kind == a[n].kind
  IN /\ kind \notin Untranslatable
     /\ kind \in {"expr", "declinit"} => Holds(c, at.first, INS("EXPR", n)) /\ at.after = Succ(at.first)
     /\ kind = "call" => /\ \E f \in Nat : Holds(c, at.first, CALL(n, f))
                         /\ at.after = Succ(at.first)
     /\ kind = "decl" => at.after = at.first
     /\ kind = "return" => Holds(c, at.first, INS("EXPR", n)) /\ Holds(c, Succ(at.first), RETR(n))
     /\ kind \in {"break", "continue"} => \E l \in 1..(n - 1) : JumpsTo(a, c, w, n, l)
     /\ kind = "block" => Leads(c, at.first, at.alt)
     /\ kind = "if" => BranchAt(c, at.first, n, at.body, at.alt)
     /\ kind = "while" => Leads(c, at.first, at.cond) /\ BranchAt(c, at.cond, n, at.body, at.after)
     /\ kind = "do" => Leads(c, at.first, at.body)
     /\ kind = "for" => /\ Holds(c, at.first, INS("INIT", n))
                        /\ Leads(c, Succ(at.first), at.cond)
                        /\ BranchAt(c, at.cond, n, at.body, at.after)

(* the last child so far                                                   *)
Latest(S, m) == m \in S /\ \A k \in S : k <= m

(* What the code has of node n once its visit is over: every way out of it *)
(* and of its parts leads to where it must.                                *)
Left(a, c, w, n) ==
  LET at == w[n]
      kind == a[n].kind
      kids(role) == Children(a, n, role)
  IN /\ kind = "fun" => kids("fun") # {} /\ \A m \in kids("fun") : Holds(c, w[m].after, RET)
     /\ kind = "block" => /\ Leads(c, at.alt, at.body)
                          /\ kids("block") = {} => at.after = at.body
                          /\ \A m \in kids("block") : Latest(kids("block"), m) => w[m].after = at.after
     /\ kind = "if" => /\ kids("then") # {}
                       /\ \A m \in kids("then") : Leads(c, w[m].after, at.after)
                       /\ \A m \in kids("else") : Leads(c, w[m].after, at.after)
                       /\ kids("else") = {} => Leads(c, at.alt, at.after)
     /\ kind = "while" => /\ kids("while") # {}
                          /\ \A m \in kids("while") : Leads(c, w[m].after, at.cond)
     /\ kind = "do" => /\ kids("do") # {}
                       /\ \A m \in kids("do") : Leads(c, w[m].after, at.cond)
                       /\ BranchAt(c, at.cond, n, at.body, at.after)
     /\ kind = "for" => /\ kids("for") # {}
                        /\ \A m \in kids("for") : Leads(c, w[m].after, at.alt)
                        /\ Holds(c, at.alt, INS("INC", n))
                        /\ Leads(c, Succ(at.alt), at.cond)

(* where the first part in a role starts                                   *)
StartOf(at, role) == IF role = "else" THEN at.alt ELSE at.body

(* A node starts where its parent lets it, or where the part before it     *)
(* ends.                                                                   *)
Started(a, w, n) ==
  LET p == a[n].parent
      earlier == {m \in Children(a, p, a[n].role) : m < n}
  IN p # 0 => /\ earlier = {} => w[n].first = StartOf(w[p], a[n].role)
              /\ \A m \in earlier : Latest(earlier, m) => w[n].first = w[m].after

(* What an active visit() still knows of its node: the blocks it is to     *)
(* fill are those of the history, and are empty.                           *)
FrameAt(a, c, w, fr) ==
  LET n == fr.at
      at == w[fr.at]
      kids(role) == Children(a, fr.at, role)
  IN /\ fr.role \in RoleOf(a[n].kind)
     /\ fr.role # "block" =>
          /\ ~fr.done => kids(fr.role) = {}
          /\ fr.done /\ fr.role # "else" => kids(fr.role) # {}
          /\ \A l, m \in kids(fr.role) : l = m
     /\ fr.role = "then" => /\ kids("else") = {}
                            /\ at.alt = Start(fr.alt)
     /\ fr.role = "else" => /\ kids("then") # {}
                            /\ \A m \in kids("then") : Leads(c, w[m].after, at.after)
     /\ fr.role \in {"then", "else", "while", "do", "for"} => at.after = Start(fr.merge)
     /\ fr.role \in {"while", "do", "for"} => at.cond = Start(fr.cond)
     /\ fr.role = "do" => at.body = Start(fr.alt)
     /\ fr.role = "for" => at.alt = Start(fr.alt)
     /\ \A x \in Pending(fr) : c[x] = <<>>

(* a block of ALLOCA and ST instructions only                              *)
SilentBlock(c, b) == \A i \in 1..Len(c[b]) : c[b][i].op \in {"ALLOCA", "ST"}

(* A context names the blocks of its block statement and of the loop it    *)
(* holds.                                                                  *)
ContextAt(a, c, w, cx, held) ==
  /\ SilentBlock(c, cx.localsBlock)
  /\ w[held.block].alt = Start(cx.localsBlock)
  /\ w[held.block].body = Start(cx.firstBB)
  /\ held.loop # 0 => /\ w[held.loop].after = Start(cx.breakBlock)
                      /\ ContinueAt(a, w, held.loop) = Start(cx.continueBlock)

(* Control is where the innermost visit has got to. *)
ControlAt(a, c, w, fr, b) ==
  LET kids == Children(a, fr.at, fr.role)
  IN /\ kids = {} => Here(c, b) = StartOf(w[fr.at], fr.role)
     /\ \A m \in kids : Latest(kids, m) => Here(c, b) = w[m].after

(* the visible parts of a node, and the one spot each of them is at        *)
Parts(kind) == CASE kind \in {"expr", "declinit", "return"} -> {"EXPR"}
                 [] kind = "call" -> {"CALL"}
                 [] kind \in {"if", "while", "do"} -> {"COND"}
                 [] kind = "for" -> {"INIT", "COND", "INC"}
                 [] OTHER -> {}

PartAt(a, w, n, op) == CASE op = "INC" -> w[n].alt
                         [] op = "COND" /\ a[n].kind # "if" -> w[n].cond
                         [] OTHER -> w[n].first

(* Instruction i at spot q is a part of the program, at the part's own     *)
(* spot.                                                                   *)
Placed(a, w, i, q) ==
  /\ i.at \in 1..Len(a)
  /\ i.op \in Parts(a[i.at].kind)
  /\ q = PartAt(a, w, i.at, i.op)

(* The code does nothing visible but the parts of the program.             *)
AllPlaced(a, c, w) == \A q \in Positions(c) : InsnAt(c, q).op \in Visible => Placed(a, w, InsnAt(c, q), q)

(* The function that starts with block b is AST node n.                    *)
FunAt(a, c, w, b, n) == n \in 1..Len(a) /\ a[n].kind = "fun" /\ Leads(c, Start(b), w[n].body)

(* The k-th of the functions of a program is its node fn[k].               *)
FunsInOrder(a, fn) ==
  /\ \A f, g \in 1..Len(fn) : f < g => fn[f] < fn[g]
  /\ \A n \in 1..Len(a) : a[n].kind = "fun" => \E f \in 1..Len(fn) : fn[f] = n

(* The entries are those of the functions of the program, in order.         *)
Starts(a, c, w, es) ==
  \E fn \in Seq(Nat) : /\ Len(fn) = Len(es) /\ FunsInOrder(a, fn)
                       /\ \A f \in 1..Len(es) : FunAt(a, c, w, es[f], fn[f])

(* A visit() that called another is past its first part, in the role of    *)
(* that part.                                                              *)
Stacked(a, vs) ==
  \A i \in 1..Len(vs) : i > 1 => /\ a[vs[i].at].role = vs[i - 1].role
                                 /\ vs[i - 1].done

(* Each node is where the history says: entered if it has been visited,    *)
(* left unless its visit is active, and as its visit() call knows it if it *)
(* is.                                                                     *)
Laid(a, c, vs, w) ==
  /\ w \in Seq(Where)
  /\ Len(w) = Len(a)
  /\ \A n \in 1..Len(a) : Entered(a, c, w, n) /\ Started(a, w, n)
  /\ \A n \in 1..Len(a) : n \notin OpenNodes(vs) => Left(a, c, w, n)
  /\ \A i \in 1..Len(vs) : FrameAt(a, c, w, vs[i])

(* The simulation: the tree a that has been visited, the code c it became, *)
(* and the translator's stacks agree on where everything is (w) and on the *)
(* loops the contexts hold (h).                                            *)
Sim(a, c, es, cs, vs, b, h, w) ==
  /\ Tree(a)
  /\ Path(a, PathOf(vs))
  /\ Held(a, PathOf(vs), Len(es), cs, h)
  /\ Stacked(a, vs)
  /\ Laid(a, c, vs, w)
  /\ \A k \in (Len(es) + 1)..Len(cs) : ContextAt(a, c, w, cs[k], h[k])
  /\ vs # <<>> => ControlAt(a, c, w, Last(vs), b)
  /\ AllPlaced(a, c, w)
  /\ Starts(a, c, w, es)
-----------------------------------------------------------------------------
(***************************************************************************)
(* Induction, for sets of numbers.                                         *)
(***************************************************************************)
(* A set of naturals that is not empty has a least element. *)
LEMMA Least ==
  ASSUME NEW B \in SUBSET Nat, B # {}
  PROVE  \E n \in B : \A k \in B : n <= k
<1> DEFINE R == OpToRel(<, Nat)
<1>1. PICK n \in B : \A k \in B : ~(<<k, n>> \in R)
  BY NatLessThanWellFounded, WFMin
<1>2. ASSUME NEW k \in B PROVE n <= k
  <2>1. k \in Nat /\ n \in Nat
    OBVIOUS
  <2>2. ~(k < n)
    BY <1>1, <2>1 DEF OpToRel
  <2> QED
    BY <2>1, <2>2
<1> QED
  BY <1>2

(* What holds of 0, and of n + 1 when it holds of n, holds of all. *)
LEMMA Induction ==
  ASSUME NEW S \in SUBSET Nat, 0 \in S, \A n \in S : n + 1 \in S
  PROVE  S = Nat
<1> DEFINE B == Nat \ S
<1> SUFFICES ASSUME B # {} PROVE FALSE
  OBVIOUS
<1>1. PICK n \in B : \A k \in B : n <= k
  BY Least
<1>2. n # 0 /\ n - 1 \in Nat /\ n - 1 + 1 = n /\ ~(n <= n - 1)
  OBVIOUS
<1>3. n - 1 \in S
  BY <1>1, <1>2
<1>4. QED
  BY <1>2, <1>3

(* What holds of n when it holds of all before n holds of all. *)
LEMMA StrongInduction ==
  ASSUME NEW S \in SUBSET Nat,
         \A n \in Nat : (\A k \in Nat : k < n => k \in S) => n \in S
  PROVE  S = Nat
<1> DEFINE B == Nat \ S
<1> SUFFICES ASSUME B # {} PROVE FALSE
  OBVIOUS
<1>1. PICK n \in B : \A k \in B : n <= k
  BY Least
<1>2. \A k \in Nat : k < n => k \in S
  BY <1>1
<1>3. QED
  BY <1>2

(* ... and from the greatest down *)
LEMMA DownwardInduction ==
  ASSUME NEW N \in Nat, NEW S,
         \A n \in 1..N : (\A m \in 1..N : m > n => m \in S) => n \in S
  PROVE  \A n \in 1..N : n \in S
<1> DEFINE G == {k \in Nat : k < N => N - k \in S}
<1>1. ASSUME NEW k \in Nat, \A j \in Nat : j < k => j \in G
      PROVE  k \in G
  <2> SUFFICES ASSUME k < N PROVE N - k \in S
    OBVIOUS
  <2>1. N - k \in 1..N
    OBVIOUS
  <2>2. ASSUME NEW m \in 1..N, m > N - k PROVE m \in S
    <3>1. N - m \in Nat /\ N - m < k /\ N - m < N /\ N - (N - m) = m
      BY <2>2
    <3>2. QED
      BY <1>1, <3>1
  <2>3. QED
    BY <2>1, <2>2
<1>2. G = Nat
  <2>1. G \in SUBSET Nat
    OBVIOUS
  <2> HIDE DEF G
  <2>2. QED
    BY <1>1, <2>1, StrongInduction
<1>3. ASSUME NEW n \in 1..N PROVE n \in S
  <2>1. N - n \in Nat /\ N - n < N /\ N - (N - n) = n
    OBVIOUS
  <2>2. N - n \in G
    BY <1>2, <2>1
  <2>3. QED
    BY <2>1, <2>2
<1>4. QED
  BY <1>3
-----------------------------------------------------------------------------
(* Walks. *)
IsPath(step, q, n, f) == f = [k \in 0..n |-> IF k = 0 THEN q ELSE Go(step, f[k - 1])]

(* The recursive function that Steps takes its value from exists.          *)
LEMMA PathExists ==
  ASSUME NEW step, NEW q, NEW n \in Nat
  PROVE  \E f : IsPath(step, q, n, f)
<1> DEFINE S == {k \in Nat : \E f : IsPath(step, q, k, f)}
<1>1. 0 \in S
  <2> DEFINE f == [k \in 0..0 |-> q]
  <2>1. f = [k \in 0..0 |-> IF k = 0 THEN q ELSE Go(step, f[k - 1])]
    OBVIOUS
  <2>2. QED
    BY <2>1 DEF IsPath
<1>2. ASSUME NEW k \in S PROVE k + 1 \in S
  <2>1. PICK f : IsPath(step, q, k, f)
    OBVIOUS
  <2> DEFINE g == [j \in 0..(k + 1) |-> IF j <= k THEN f[j] ELSE Go(step, f[k])]
  <2>2. ASSUME NEW j \in 0..(k + 1)
        PROVE  g[j] = IF j = 0 THEN q ELSE Go(step, g[j - 1])
    <3>1. k \in Nat
      OBVIOUS
    <3>2. CASE j = 0
      <4>1. g[j] = f[0]
        BY <3>1, <3>2
      <4>2. f[0] = q
        BY <2>1, <3>1 DEF IsPath
      <4>3. QED
        BY <3>2, <4>1, <4>2
    <3>3. CASE j \in 1..k
      <4>1. g[j] = f[j] /\ g[j - 1] = f[j - 1] /\ j # 0
        BY <3>1, <3>3
      <4>2. f[j] = IF j = 0 THEN q ELSE Go(step, f[j - 1])
        BY <2>1, <3>1, <3>3 DEF IsPath
      <4>3. QED
        BY <4>1, <4>2
    <3>4. CASE j = k + 1
      <4>1. g[j] = Go(step, f[k]) /\ g[j - 1] = f[k] /\ j # 0
        BY <3>1, <3>4
      <4>2. QED
        BY <4>1 DEF Go
    <3>5. QED
      BY <3>1, <3>2, <3>3, <3>4
  <2>3. IsPath(step, q, k + 1, g)
    BY <2>2 DEF IsPath
  <2>4. QED
    BY <2>3
<1>3. S = Nat
  <2>1. S \in SUBSET Nat
    OBVIOUS
  <2> HIDE DEF S
  <2>2. QED
    BY <1>1, <1>2, <2>1, Induction
<1>4. QED
  BY <1>3

(* Steps is the last place of a path.                                      *)
LEMMA StepsPath ==
  ASSUME NEW step, NEW q, NEW n \in Nat
  PROVE  \E f : IsPath(step, q, n, f) /\ Steps(step, q, n) = f[n]
<1> DEFINE P(f) == f = [k \in 0..n |-> IF k = 0 THEN q ELSE Go(step, f[k - 1])]
           path == CHOOSE f : P(f)
<1>1. \A f : P(f) <=> IsPath(step, q, n, f)
  BY DEF IsPath
<1>2. Steps(step, q, n) = path[n]
  BY DEF Steps
<1> HIDE DEF P
<1>3. \E f : P(f)
  BY <1>1, PathExists
<1>4. P(path)
  BY <1>3
<1>5. QED
  BY <1>1, <1>2, <1>4

(* There is one path of each length.                                       *)
LEMMA PathsAgree ==
  ASSUME NEW step, NEW q, NEW m \in Nat, NEW n \in Nat, NEW f, NEW g,
         IsPath(step, q, m, f), IsPath(step, q, n, g)
  PROVE  \A k \in Nat : k <= m /\ k <= n => f[k] = g[k]
<1> DEFINE S == {k \in Nat : k <= m /\ k <= n => f[k] = g[k]}
<1>1. 0 \in S
  BY DEF IsPath
<1>2. ASSUME NEW k \in S PROVE k + 1 \in S
  <2> SUFFICES ASSUME k + 1 <= m, k + 1 <= n PROVE f[k + 1] = g[k + 1]
    OBVIOUS
  <2>1. k \in 0..m /\ k \in 0..n /\ k + 1 \in 0..m /\ k + 1 \in 0..n /\ k + 1 # 0 /\ k + 1 - 1 = k
    OBVIOUS
  <2>2. f[k + 1] = Go(step, f[k])
    BY <2>1 DEF IsPath
  <2>3. g[k + 1] = Go(step, g[k])
    BY <2>1 DEF IsPath
  <2>4. f[k] = g[k]
    BY <2>1
  <2>5. QED
    BY <2>2, <2>3, <2>4
<1>3. S = Nat
  <2>1. S \in SUBSET Nat
    OBVIOUS
  <2> HIDE DEF S
  <2>2. QED
    BY <1>1, <1>2, <2>1, Induction
<1>4. QED
  BY <1>3

(* One step more: Steps as a recursion on n.                               *)
LEMMA StepsUnfold ==
  ASSUME NEW step, NEW q
  PROVE  /\ Steps(step, q, 0) = q
         /\ \A n \in Nat : Steps(step, q, n + 1) = Go(step, Steps(step, q, n))
<1>1. Steps(step, q, 0) = q
  <2>1. PICK f : IsPath(step, q, 0, f) /\ Steps(step, q, 0) = f[0]
    BY StepsPath
  <2>2. QED
    BY <2>1 DEF IsPath
<1>2. ASSUME NEW n \in Nat PROVE Steps(step, q, n + 1) = Go(step, Steps(step, q, n))
  <2>1. PICK f : IsPath(step, q, n, f) /\ Steps(step, q, n) = f[n]
    BY StepsPath
  <2>2. n + 1 \in Nat
    OBVIOUS
  <2>3. PICK g : IsPath(step, q, n + 1, g) /\ Steps(step, q, n + 1) = g[n + 1]
    BY <2>2, StepsPath
  <2>4. g[n + 1] = Go(step, g[n])
    <3>1. n + 1 \in 0..(n + 1) /\ n + 1 # 0 /\ n + 1 - 1 = n
      OBVIOUS
    <3>2. g[n + 1] = Go(step, g[n])
      BY <2>3, <3>1 DEF IsPath
    <3>3. QED
      BY <3>2 DEF Go
  <2>5. g[n] = f[n]
    <3>1. \A k \in Nat : k <= n /\ k <= n + 1 => f[k] = g[k]
      BY <2>1, <2>2, <2>3, PathsAgree
    <3>2. QED
      BY <3>1
  <2>6. QED
    BY <2>1, <2>3, <2>4, <2>5
<1>3. QED
  BY <1>1, <1>2

(* Steps from the place after q are steps from q. *)
LEMMA StepsShift ==
  ASSUME NEW step, NEW q
  PROVE  \A n \in Nat : Steps(step, Go(step, q), n) = Steps(step, q, n + 1)
<1> DEFINE S == {n \in Nat : Steps(step, Go(step, q), n) = Steps(step, q, n + 1)}
<1>1. 0 \in S
  <2>1. Steps(step, q, 0 + 1) = Go(step, Steps(step, q, 0))
    BY StepsUnfold
  <2>2. QED
    BY <2>1, StepsUnfold
<1>2. ASSUME NEW n \in S PROVE n + 1 \in S
  <2>1. n + 1 \in Nat /\ n \in Nat
    OBVIOUS
  <2>2. Steps(step, Go(step, q), n + 1) = Go(step, Steps(step, Go(step, q), n))
    BY <2>1, StepsUnfold
  <2>3. Steps(step, q, n + 1 + 1) = Go(step, Steps(step, q, n + 1))
    BY <2>1, StepsUnfold
  <2>4. QED
    BY <2>1, <2>2, <2>3
<1>3. S = Nat
  <2>1. S \in SUBSET Nat
    OBVIOUS
  <2> HIDE DEF S
  <2>2. QED
    BY <1>1, <1>2, <2>1, Induction
<1>4. QED
  BY <1>3

(* Once there is no step, the walk stays. *)
LEMMA StepsStay ==
  ASSUME NEW step, NEW q, NEW m \in Nat, Steps(step, q, m) \notin DOMAIN step
  PROVE  \A n \in Nat : Steps(step, q, m + n) = Steps(step, q, m)
<1> DEFINE S == {n \in Nat : Steps(step, q, m + n) = Steps(step, q, m)}
<1>1. 0 \in S
  OBVIOUS
<1>2. ASSUME NEW n \in S PROVE n + 1 \in S
  <2>1. m + n \in Nat /\ m + (n + 1) = (m + n) + 1 /\ n + 1 \in Nat
    OBVIOUS
  <2>2. Steps(step, q, (m + n) + 1) = Go(step, Steps(step, q, m + n))
    BY <2>1, StepsUnfold
  <2>3. Steps(step, q, m + n) = Steps(step, q, m)
    OBVIOUS
  <2>4. QED
    BY <2>1, <2>2, <2>3 DEF Go
<1>3. S = Nat
  <2>1. S \in SUBSET Nat
    OBVIOUS
  <2> HIDE DEF S
  <2>2. QED
    BY <1>1, <1>2, <2>1, Induction
<1>4. QED
  BY <1>3

(* Where a place comes back, everything after it does. *)
LEMMA StepsRepeat ==
  ASSUME NEW step, NEW q, NEW i \in Nat, NEW j \in Nat, Steps(step, q, i) = Steps(step, q, j)
  PROVE  \A n \in Nat : Steps(step, q, i + n) = Steps(step, q, j + n)
<1> DEFINE S == {n \in Nat : Steps(step, q, i + n) = Steps(step, q, j + n)}
<1>1. 0 \in S
  OBVIOUS
<1>2. ASSUME NEW n \in S PROVE n + 1 \in S
  <2>1. /\ i + n \in Nat /\ i + (n + 1) = (i + n) + 1 /\ n + 1 \in Nat
        /\ j + n \in Nat /\ j + (n + 1) = (j + n) + 1
    OBVIOUS
  <2>2. Steps(step, q, (i + n) + 1) = Go(step, Steps(step, q, i + n))
    BY <2>1, StepsUnfold
  <2>3. Steps(step, q, (j + n) + 1) = Go(step, Steps(step, q, j + n))
    BY <2>1, StepsUnfold
  <2>4. QED
    BY <2>1, <2>2, <2>3
<1>3. S = Nat
  <2>1. S \in SUBSET Nat
    OBVIOUS
  <2> HIDE DEF S
  <2>2. QED
    BY <1>1, <1>2, <2>1, Induction
<1>4. QED
  BY <1>3

(* A walk that has a step after as many steps as there are places with one  *)
(* always has one: it has come back to a place.                            *)
LEMMA WalkCycles ==
  ASSUME NEW step, IsFiniteSet(DOMAIN step), NEW q, Walk(step, q) \in DOMAIN step
  PROVE  Steps(step, q, Cardinality(DOMAIN step) + 1) \in DOMAIN step
<1> DEFINE N == Cardinality(DOMAIN step)
           D == DOMAIN step
           f == [k \in 0..N |-> Steps(step, q, k)]
<1>1. N \in Nat
  BY FS_CardinalityType
<1>2. ASSUME NEW k \in 0..N PROVE Steps(step, q, k) \in D
  <2> SUFFICES ASSUME Steps(step, q, k) \notin D PROVE FALSE
    OBVIOUS
  <2>1. k \in Nat /\ N - k \in Nat /\ k + (N - k) = N
    BY <1>1
  <2>2. Steps(step, q, k + (N - k)) = Steps(step, q, k)
    BY <2>1, StepsStay
  <2>3. QED
    BY <2>1, <2>2 DEF Walk
<1>3. PICK i \in 0..N, j \in 0..N : i # j /\ Steps(step, q, i) = Steps(step, q, j)
  <2>1. f \in [0..N -> D]
    BY <1>2
  <2>2. IsFiniteSet(0..N) /\ Cardinality(0..N) = N + 1
    BY <1>1, FS_Interval
  <2>3. IsFiniteSet(D) /\ Cardinality(D) < Cardinality(0..N)
    BY <1>1, <2>2
  <2>4. \E x, y \in 0..N : x # y /\ f[x] = f[y]
    <3> HIDE DEF f, D
    <3> DEFINE S == 0..N
    <3>1. IsFiniteSet(S) /\ IsFiniteSet(D) /\ Cardinality(D) < Cardinality(S) /\ f \in [S -> D]
      BY <2>1, <2>2, <2>3
    <3> HIDE DEF S, N
    <3>2. \E x, y \in S : x # y /\ f[x] = f[y]
      BY <3>1, FS_PigeonHole
    <3>3. QED
      BY <3>2 DEF S
  <2>5. QED
    BY <2>4
<1>4. ASSUME NEW a \in 0..N, NEW b \in 0..N, a < b, Steps(step, q, a) = Steps(step, q, b)
      PROVE  Steps(step, q, N + 1) \in D
  <2>1. /\ a \in Nat /\ b \in Nat /\ N + 1 - b \in Nat /\ b + (N + 1 - b) = N + 1
        /\ a + (N + 1 - b) \in 0..N
    BY <1>1, <1>4
  <2>2. Steps(step, q, a + (N + 1 - b)) = Steps(step, q, b + (N + 1 - b))
    BY <1>4, <2>1, StepsRepeat
  <2>3. QED
    BY <1>2, <2>1, <2>2
<1>5. QED
  BY <1>1, <1>3, <1>4

(* The walk from a place is the one from the next place. *)
LEMMA WalkOn ==
  ASSUME NEW step, IsFiniteSet(DOMAIN step), NEW q \in DOMAIN step
  PROVE  \/ Walk(step, q) = Walk(step, step[q])
         \/ Walk(step, q) \in DOMAIN step /\ Walk(step, step[q]) \in DOMAIN step
<1> DEFINE N == Cardinality(DOMAIN step)
<1>1. N \in Nat
  BY FS_CardinalityType
<1>2. Go(step, q) = step[q]
  BY DEF Go
<1>3. Walk(step, step[q]) = Steps(step, q, N + 1)
  BY <1>1, <1>2, StepsShift DEF Walk
<1>4. CASE Walk(step, q) \in DOMAIN step
  BY <1>3, <1>4, WalkCycles
<1>5. CASE Walk(step, q) \notin DOMAIN step
  <2>1. Steps(step, q, N + 1) = Steps(step, q, N)
    BY <1>1, <1>5, StepsStay DEF Walk
  <2>2. QED
    BY <1>3, <2>1 DEF Walk
<1>6. QED
  BY <1>4, <1>5

(* A walk from a place without a step stays there.                         *)
LEMMA WalkEnds ==
  ASSUME NEW step, IsFiniteSet(DOMAIN step), NEW q, q \notin DOMAIN step
  PROVE  Walk(step, q) = q
<1> DEFINE N == Cardinality(DOMAIN step)
<1>1. N \in Nat
  BY FS_CardinalityType
<1>2. Steps(step, q, 0) = q
  BY StepsUnfold
<1>3. Steps(step, q, 0 + N) = Steps(step, q, 0)
  BY <1>1, <1>2, StepsStay
<1>4. QED
  BY <1>1, <1>2, <1>3 DEF Walk
-----------------------------------------------------------------------------
(* Where a silent instruction goes. *)
LEMMA SilentSteps ==
  ASSUME NEW c \in Seq(Seq(Insn)), NEW q \in Silent(c)
  PROVE  q \in Spot /\ q = <<q[1], q[2]>> /\ StepFrom(c, q) \in Spot
<1>1. PICK b \in 1..Len(c) : q \in {b} \X (1..Len(c[b]))
  BY DEF Silent, Positions
<1>2. q = <<q[1], q[2]>> /\ q[1] = b /\ q[2] \in 1..Len(c[b])
  BY <1>1
<1>3. Len(c) \in Nat /\ c[b] \in Seq(Insn) /\ Len(c[b]) \in Nat
  BY LenProperties, ElementOfSeq
<1>4. InsnAt(c, q) \in Insn
  BY <1>2, <1>3, ElementOfSeq DEF InsnAt
<1>5. q[1] \in Nat /\ q[2] \in Nat
  BY <1>2, <1>3
<1>6. InsnAt(c, q).target1 \in Nat
  BY <1>4 DEF Insn
<1>7. StepFrom(c, q) \in Nat \X Nat
  <2>1. 1 \in Nat /\ q[2] + 1 \in Nat
    BY <1>5
  <2>2. QED
    BY <1>5, <1>6, <2>1 DEF StepFrom
<1>8. q \in Nat \X Nat
  BY <1>2, <1>5
<1>9. QED
  BY <1>2, <1>7, <1>8 DEF Spot

(* There are finitely many positions in a code.                            *)
LEMMA PositionsFinite ==
  ASSUME NEW c \in Seq(Seq(Insn))
  PROVE  /\ IsFiniteSet(Positions(c))
         /\ \A q \in Positions(c) : q \in Spot /\ q = <<q[1], q[2]>>
<1>1. Len(c) \in Nat /\ \A b \in 1..Len(c) : c[b] \in Seq(Insn) /\ Len(c[b]) \in Nat
  BY LenProperties, ElementOfSeq
<1> DEFINE Row(b) == {b} \X (1..Len(c[b]))
           Rows == {Row(b) : b \in 1..Len(c)}
<1>2. ASSUME NEW b \in 1..Len(c) PROVE IsFiniteSet(Row(b))
  <2>1. IsFiniteSet({b})
    BY FS_Singleton
  <2>2. 1 \in Int /\ Len(c[b]) \in Int
    BY <1>1
  <2>3. IsFiniteSet(1..Len(c[b]))
    BY <2>2, FS_Interval
  <2>4. QED
    BY <2>1, <2>3, FS_Product
<1>3. IsFiniteSet(Rows)
  <2>1. IsFiniteSet(1..Len(c))
    BY <1>1, FS_Interval
  <2> DEFINE f == [b \in 1..Len(c) |-> Row(b)]
  <2>2. Rows = {f[b] : b \in 1..Len(c)}
    OBVIOUS
  <2>3. f \in Surjection(1..Len(c), Rows)
    BY <2>2 DEF Surjection
  <2> HIDE DEF f, Rows, Row
  <2>4. QED
    BY <2>1, <2>3, FS_Surjection
<1>4. IsFiniteSet(UNION Rows)
  <2>1. \A R \in Rows : IsFiniteSet(R)
    BY <1>2
  <2> HIDE DEF Rows
  <2>2. QED
    BY <1>3, <2>1, FS_UNION
<1>5. ASSUME NEW q \in Positions(c) PROVE q \in Spot /\ q = <<q[1], q[2]>>
  <2>1. PICK b \in 1..Len(c) : q \in {b} \X (1..Len(c[b]))
    BY DEF Positions
  <2>2. q = <<q[1], q[2]>> /\ q[1] = b /\ q[2] \in 1..Len(c[b])
    BY <2>1
  <2>3. QED
    BY <1>1, <2>2 DEF Spot
<1>6. QED
  BY <1>4, <1>5 DEF Positions

(* The steps of a code are a finite function.                              *)
LEMMA CodeSteps ==
  ASSUME NEW c \in Seq(Seq(Insn))
  PROVE  /\ DOMAIN CodeStep(c) = Silent(c) /\ IsFiniteSet(Silent(c))
         /\ \A q \in Silent(c) : CodeStep(c)[q] = StepFrom(c, q)
<1>1. IsFiniteSet(Positions(c))
  BY PositionsFinite
<1>2. Silent(c) \in SUBSET Positions(c)
  BY DEF Silent
<1>3. IsFiniteSet(Silent(c))
  BY <1>1, <1>2, FS_Subset
<1>4. QED
  BY <1>3 DEF CodeStep, Silent

(* What is done from spot q on, as PointAt says of a block and a position. *)
ReadAt(c, q) == PointAt(c, q[1], q[2])

(* A silent instruction is read through.                                   *)
LEMMA ReadOn ==
  ASSUME NEW c \in Seq(Seq(Insn)), NEW q \in Silent(c)
  PROVE  ReadAt(c, q) = ReadAt(c, StepFrom(c, q))
<1> DEFINE r == StepFrom(c, q)
           x == Walk(CodeStep(c), q)
           y == Walk(CodeStep(c), r)
<1>1. q = <<q[1], q[2]>> /\ r = <<r[1], r[2]>>
  BY SilentSteps DEF Spot
<1>2. x = y \/ (x \in Silent(c) /\ y \in Silent(c))
  BY CodeSteps, WalkOn
<1> HIDE DEF r, x, y
<1> DEFINE Read(p) == IF p \notin Positions(c) THEN Stuck
                      ELSE IF InsnAt(c, p).op \in SilentOps THEN Spin
                      ELSE <<InsnAt(c, p).at, InsnAt(c, p).op>>
<1>3. ReadAt(c, q) = Read(x) /\ ReadAt(c, r) = Read(y)
  BY <1>1 DEF ReadAt, PointAt, x, y
<1>4. \A p \in Silent(c) : Read(p) = Spin
  BY DEF Silent
<1> HIDE DEF Read
<1>5. QED
  BY <1>2, <1>3, <1>4 DEF r

(* A visible instruction is read as itself.                                *)
LEMMA ReadHere ==
  ASSUME NEW c \in Seq(Seq(Insn)), NEW q, NEW i, Holds(c, q, i), i.op \notin SilentOps
  PROVE  ReadAt(c, q) = <<i.at, i.op>>
<1>1. q \in Positions(c) /\ q \notin Silent(c) /\ InsnAt(c, q) = i
  BY DEF Holds, Silent
<1>2. Walk(CodeStep(c), q) = q
  BY <1>1, CodeSteps, WalkEnds
<1>3. <<q[1], q[2]>> = q
  BY <1>1, PositionsFinite
<1>4. QED
  BY <1>1, <1>2, <1>3 DEF ReadAt, PointAt

(* Where a spot leads, the same is read.                                   *)
LEMMA LeadsRead ==
  ASSUME NEW c \in Seq(Seq(Insn)), NEW q \in Spot, NEW r, Leads(c, q, r)
  PROVE  ReadAt(c, q) = ReadAt(c, r)
<1> DEFINE S == {x \in Spot : ReadAt(c, x) = ReadAt(c, q)}
<1>1. S \in SUBSET (Nat \X Nat) /\ q \in S
  BY DEF Spot
<1>2. ASSUME NEW x \in S \cap Silent(c) PROVE StepFrom(c, x) \in S
  BY SilentSteps, ReadOn
<1>3. r \in S
  <2> HIDE DEF S
  <2>1. QED
    BY <1>1, <1>2 DEF Leads
<1>4. QED
  BY <1>3
-----------------------------------------------------------------------------
(* Ways through the code. *)
LEMMA LeadsSelf == \A c, q : Leads(c, q, q)
BY DEF Leads

(* Leading is transitive: a spot leads ...                                 *)
LEMMA LeadsOn ==
  ASSUME NEW c, NEW q, NEW r, NEW s, Leads(c, q, r), Leads(c, r, s)
  PROVE  Leads(c, q, s)
BY DEF Leads

(* ... to the next after a silent instruction, ...                         *)
LEMMA LeadsStep ==
  ASSUME NEW c, NEW q \in Silent(c)
  PROVE  Leads(c, q, StepFrom(c, q))
BY DEF Leads

(* ... and to the target after a jump.                                     *)
LEMMA LeadsJump ==
  ASSUME NEW c, NEW q, NEW b, Holds(c, q, JMP(b))
  PROVE  Leads(c, q, Start(b))
<1>1. q \in Silent(c) /\ StepFrom(c, q) = Start(b)
  BY DEF Holds, Silent, SilentOps, StepFrom, Start, JMP
<1>2. QED
  BY <1>1, LeadsStep

(* Code d has all that code c has, where it was.                           *)
Grown(c, d) == \A q \in Positions(c) : q \in Positions(d) /\ InsnAt(d, q) = InsnAt(c, q)

(* What holds of a code, and where spots lead, holds when more is          *)
(* appended.                                                               *)
LEMMA GrownKeeps ==
  ASSUME NEW c, NEW d, Grown(c, d)
  PROVE  /\ \A q, i : Holds(c, q, i) => Holds(d, q, i)
         /\ \A q, r : Leads(c, q, r) => Leads(d, q, r)
         /\ \A q, n, t, e : BranchAt(c, q, n, t, e) => BranchAt(d, q, n, t, e)
<1>1. \A q, i : Holds(c, q, i) => Holds(d, q, i)
  BY DEF Grown, Holds
<1>2. ASSUME NEW q, NEW r, Leads(c, q, r) PROVE Leads(d, q, r)
  <2>1. \A x \in Silent(c) : x \in Silent(d) /\ StepFrom(d, x) = StepFrom(c, x)
    BY DEF Grown, Silent, StepFrom
  <2>2. QED
    BY <1>2, <2>1 DEF Leads
<1>3. \A q, n, t, e : BranchAt(c, q, n, t, e) => BranchAt(d, q, n, t, e)
  BY <1>1 DEF BranchAt
<1>4. QED
  BY <1>1, <1>2, <1>3

(* A block with silent instructions only leads to its end. *)
LEMMA LeadsThrough ==
  ASSUME NEW c \in Seq(Seq(Insn)), NEW b \in 1..Len(c), SilentBlock(c, b)
  PROVE  Leads(c, Start(b), Here(c, b))
<1> DEFINE N == Len(c[b])
           S == {k \in Nat : k <= N => Leads(c, Start(b), <<b, k + 1>>)}
<1>1. N \in Nat /\ c[b] \in Seq(Insn)
  BY ElementOfSeq, LenProperties
<1>2. 0 \in S
  BY LeadsSelf DEF Start
<1>3. ASSUME NEW k \in S PROVE k + 1 \in S
  <2> SUFFICES ASSUME k + 1 <= N PROVE Leads(c, Start(b), <<b, k + 1 + 1>>)
    OBVIOUS
  <2> DEFINE q == <<b, k + 1>>
  <2>1. k \in Nat /\ k <= N /\ k + 1 \in 1..N
    BY <1>1
  <2>2. Leads(c, Start(b), q)
    BY <2>1
  <2>3. q \in Positions(c) /\ InsnAt(c, q) = c[b][k + 1]
    BY <2>1 DEF Positions, InsnAt
  <2>4. c[b][k + 1].op \in {"ALLOCA", "ST"}
    BY <2>1 DEF SilentBlock
  <2>5. q \in Silent(c) /\ StepFrom(c, q) = <<b, k + 1 + 1>>
    BY <2>3, <2>4 DEF Silent, SilentOps, StepFrom
  <2> HIDE DEF q
  <2>6. Leads(c, q, <<b, k + 1 + 1>>)
    BY <2>5, LeadsStep
  <2>7. QED
    BY <2>2, <2>6, LeadsOn
<1>4. S = Nat
  <2>1. S \in SUBSET Nat
    OBVIOUS
  <2> HIDE DEF S
  <2>2. QED
    BY <1>2, <1>3, <2>1, Induction
<1>5. \A k \in Nat : k <= N => Leads(c, Start(b), <<b, k + 1>>)
  BY <1>4
<1>6. Leads(c, Start(b), <<b, N + 1>>)
  <2> HIDE DEF N
  <2>1. QED
    BY <1>1, <1>5
<1>7. QED
  BY <1>6 DEF Here
-----------------------------------------------------------------------------
(* The community module's Max and Min are what their names say.            *)
LEMMA MaxOf ==
  ASSUME NEW N \in Nat, NEW S \in SUBSET (0..N), S # {}
  PROVE  Max(S) \in S /\ \A k \in S : k <= Max(S)
<1> DEFINE B == {N - k : k \in S}
<1>1. B \in SUBSET Nat /\ B # {}
  <2>1. \A k \in S : N - k \in Nat
    OBVIOUS
  <2>2. B \in SUBSET Nat
    BY <2>1
  <2>3. B # {}
    OBVIOUS
  <2>4. QED
    BY <2>2, <2>3
<1>2. PICK n \in B : \A k \in B : n <= k
  BY <1>1, Least
<1>3. PICK m \in S : n = N - m
  OBVIOUS
<1>4. \A k \in S : m >= k
  <2> TAKE k \in S
  <2>1. N - m <= N - k
    BY <1>2, <1>3
  <2>2. QED
    BY <2>1
<1>5. \E x \in S : \A y \in S : x >= y
  BY <1>4
<1>6. Max(S) \in S /\ \A y \in S : Max(S) >= y
  BY <1>5 DEF Max
<1>7. QED
  BY <1>6

LEMMA MinOf ==
  ASSUME NEW N \in Nat, NEW S \in SUBSET (0..N), S # {}
  PROVE  Min(S) \in S /\ \A k \in S : Min(S) <= k
<1>1. S \in SUBSET Nat
  OBVIOUS
<1>2. \E n \in S : \A k \in S : n <= k
  BY <1>1, Least
<1>3. \E x \in S : \A y \in S : x =< y
  BY <1>2
<1>4. QED
  BY <1>3 DEF Min

(* The enclosing loop is a loop around the node, and no other one around   *)
(* it is further in.                                                       *)
LEMMA EnclosingLoopIs ==
  ASSUME NEW a, NEW n \in Nat \ {0}
  PROVE  /\ EnclosingLoop(a, n) \in 0..(n - 1)
         /\ EnclosingLoop(a, n) # 0 => /\ a[EnclosingLoop(a, n)].kind \in Loops
                                       /\ Inside(a, n, EnclosingLoop(a, n))
         /\ \A m \in 1..(n - 1) : a[m].kind \in Loops /\ Inside(a, n, m) => m <= EnclosingLoop(a, n)
<1> DEFINE S == {0} \cup {m \in 1..(n - 1) : a[m].kind \in LoopKinds /\ Inside(a, n, m)}
<1>1. n - 1 \in Nat /\ S \in SUBSET (0..(n - 1)) /\ S # {}
  OBVIOUS
<1>2. EnclosingLoop(a, n) = Max(S)
  BY DEF EnclosingLoop
<1>3. Max(S) \in S /\ \A k \in S : k <= Max(S)
  <2> HIDE DEF S
  <2>1. QED
    BY <1>1, MaxOf
<1>4. QED
  BY <1>1, <1>2, <1>3 DEF LoopKinds, Loops

(* The innermost block around a node is its enclosing block.               *)
LEMMA EnclosingBlockIs ==
  ASSUME NEW a, NEW n \in Nat \ {0}, NEW b \in 1..(n - 1), a[b].kind = "block", Inside(a, n, b),
         \A m \in 1..(n - 1) : a[m].kind = "block" /\ Inside(a, n, m) => m <= b
  PROVE  EnclosingBlock(a, n) = b
<1> DEFINE S == {m \in 1..(n - 1) : a[m].kind = "block" /\ Inside(a, n, m)}
<1>1. n - 1 \in Nat /\ S \in SUBSET (0..(n - 1)) /\ b \in S /\ \A m \in S : m <= b
  OBVIOUS
<1>2. EnclosingBlock(a, n) = Max(S)
  BY DEF EnclosingBlock
<1>3. Max(S) \in S /\ \A k \in S : k <= Max(S)
  <2> HIDE DEF S
  <2>1. QED
    BY <1>1, MaxOf
<1>4. QED
  BY <1>1, <1>2, <1>3
-----------------------------------------------------------------------------
(* The steps of the source program. *)

(* a statement of the program: all nodes but functions                     *)
Statement(a, n) == n \in 1..Len(a) /\ a[n].kind # "fun"

(* Each statement has a step from its start and one from its end.          *)
LEMMA SourceSteps ==
  ASSUME NEW a \in Seq(NodeType)
  PROVE  /\ IsFiniteSet(DOMAIN SourceStep(a))
         /\ \A n : Statement(a, n) => /\ Before(n) \in DOMAIN SourceStep(a)
                                      /\ Behind(n) \in DOMAIN SourceStep(a)
                                      /\ SourceStep(a)[Before(n)] = StepIn(a, n)
                                      /\ SourceStep(a)[Behind(n)] = StepOn(a, n)
         /\ \A n, op : op \notin {"before", "behind"} => <<n, op>> \notin DOMAIN SourceStep(a)
<1> DEFINE N == {n \in 1..Len(a) : a[n].kind # "fun"}
           D == N \X {"before", "behind"}
<1>1. Len(a) \in Nat
  BY LenProperties
<1>2. SourceStep(a) = [q \in D |-> IF q[2] = "before" THEN StepIn(a, q[1]) ELSE StepOn(a, q[1])]
  BY DEF SourceStep
<1>3. IsFiniteSet(D)
  <2>1. 1 \in Int /\ Len(a) \in Int
    BY <1>1
  <2>2. IsFiniteSet(1..Len(a))
    BY <2>1, FS_Interval
  <2>3. IsFiniteSet(N)
    BY <2>2, FS_Subset
  <2>4. IsFiniteSet({"before", "behind"})
    <3>1. IsFiniteSet({"before"}) /\ {"before", "behind"} = {"before"} \cup {"behind"}
      BY FS_Singleton
    <3>2. QED
      BY <3>1, FS_AddElement
  <2> HIDE DEF N
  <2>5. QED
    BY <2>3, <2>4, FS_Product
<1>4. \A n : Statement(a, n) => n \in N
  BY DEF Statement
<1> HIDE DEF N
<1>5. QED
  BY <1>2, <1>3, <1>4 DEF Before, Behind

(* The source goes on from place q as the code does from s. *)
Reads(a, c, q, s) ==
  /\ Walk(SourceStep(a), q) \notin DOMAIN SourceStep(a)
  /\ ReadAt(c, s) = Walk(SourceStep(a), q)

(* Reading the source and the code of a place agree: at a point ...        *)
LEMMA ReadsPoint ==
  ASSUME NEW a \in Seq(NodeType), NEW c \in Seq(Seq(Insn)), NEW n, NEW op, op \notin {"before", "behind"},
         NEW s, NEW i, Holds(c, s, i), i.op \notin SilentOps, <<i.at, i.op>> = <<n, op>>
  PROVE  Reads(a, c, <<n, op>>, s)
<1>1. <<n, op>> \notin DOMAIN SourceStep(a) /\ IsFiniteSet(DOMAIN SourceStep(a))
  BY SourceSteps
<1>2. Walk(SourceStep(a), <<n, op>>) = <<n, op>>
  BY <1>1, WalkEnds
<1>3. ReadAt(c, s) = <<n, op>>
  BY ReadHere
<1>4. QED
  BY <1>1, <1>2, <1>3 DEF Reads

(* ... and after one step of each.                                         *)
LEMMA ReadsOn ==
  ASSUME NEW a \in Seq(NodeType), NEW c \in Seq(Seq(Insn)), NEW q \in DOMAIN SourceStep(a),
         NEW s \in Spot, NEW t, Reads(a, c, SourceStep(a)[q], t), Leads(c, s, t)
  PROVE  Reads(a, c, q, s)
<1>1. IsFiniteSet(DOMAIN SourceStep(a))
  BY SourceSteps
<1>2. Walk(SourceStep(a), q) = Walk(SourceStep(a), SourceStep(a)[q])
  BY <1>1, WalkOn DEF Reads
<1>3. ReadAt(c, s) = ReadAt(c, t)
  BY LeadsRead
<1>4. QED
  BY <1>2, <1>3 DEF Reads

(* Inside is transitive.                                                   *)
LEMMA InsideTrans ==
  ASSUME NEW a \in Seq(NodeType), NEW n \in 1..Len(a), NEW m \in 1..Len(a), NEW p \in 1..Len(a),
         Inside(a, n, m), Inside(a, m, p)
  PROVE  Inside(a, n, p)
<1>1. Len(a) \in Nat /\ \A k \in 1..Len(a) : a[k].parent \in Nat
  <2>1. Len(a) \in Nat /\ \A k \in 1..Len(a) : a[k] \in NodeType
    BY LenProperties, ElementOfSeq
  <2>2. \A x \in NodeType : x.parent \in Nat
    BY DEF NodeType
  <2>3. QED
    BY <2>1, <2>2
<1>2. ASSUME NEW k \in (p + 1)..n PROVE a[k].parent >= p
  <2>1. CASE k <= m
    BY <1>1, <2>1 DEF Inside
  <2>2. CASE k > m
    <3>1. k \in (m + 1)..n /\ k \in 1..Len(a)
      BY <1>1, <2>2
    <3>2. a[k].parent >= m /\ m >= p
      BY <3>1 DEF Inside
    <3>3. QED
      BY <1>1, <3>1, <3>2
  <2>3. QED
    BY <1>1, <2>1, <2>2
<1>3. QED
  BY <1>1, <1>2 DEF Inside

(* What a finished translation is: every node entered, started and left.    *)
Complete(a, c, w) ==
  /\ a \in Seq(NodeType)
  /\ c \in Seq(Seq(Insn))
  /\ Tree(a)
  /\ w \in Seq(Where)
  /\ Len(w) = Len(a)
  /\ \A n \in 1..Len(a) : Entered(a, c, w, n) /\ Started(a, w, n) /\ Left(a, c, w, n)

(* no jump the translator gets wrong                                       *)
CleanIn(a) ==
  \A n \in 1..Len(a) : a[n].kind \in {"break", "continue"} =>
    /\ ~StaleIn(a, n)
    /\ ~(a[n].kind = "continue" /\ EnclosingLoop(a, n) # 0 /\ a[EnclosingLoop(a, n)].kind = "while")

(* The types of a complete translation.                                    *)
LEMMA CompleteTypes ==
  ASSUME NEW a, NEW c, NEW w, Complete(a, c, w)
  PROVE  /\ a \in Seq(NodeType) /\ c \in Seq(Seq(Insn)) /\ Len(a) \in Nat
         /\ \A n \in 1..Len(a) : /\ a[n] \in NodeType
                                 /\ w[n].first \in Spot /\ w[n].after \in Spot /\ w[n].cond \in Spot
                                 /\ w[n].body \in Spot /\ w[n].alt \in Spot
<1>1. a \in Seq(NodeType) /\ c \in Seq(Seq(Insn)) /\ w \in Seq(Where) /\ Len(w) = Len(a)
  BY DEF Complete
<1>2. Len(a) \in Nat /\ \A n \in 1..Len(a) : a[n] \in NodeType /\ w[n] \in Where
  BY <1>1, LenProperties, ElementOfSeq
<1>3. QED
  BY <1>1, <1>2 DEF Where

(* A spot is a pair.                                                       *)
LEMMA SpotFacts == \A q \in Spot : q = <<q[1], q[2]>> /\ Succ(q) \in Spot
BY DEF Spot, Succ

(* A child: where it starts, and the first of the children. *)
LEMMA FirstChild ==
  ASSUME NEW a, NEW c, NEW w, Complete(a, c, w), NEW n \in 1..Len(a), NEW role,
         Children(a, n, role) # {}
  PROVE  /\ Min(Children(a, n, role)) \in Children(a, n, role)
         /\ Statement(a, Min(Children(a, n, role)))
         /\ Min(Children(a, n, role)) > n
         /\ w[Min(Children(a, n, role))].first = StartOf(w[n], role)
<1> DEFINE S == Children(a, n, role)
           m == Min(S)
<1>1. Len(a) \in Nat
  BY CompleteTypes
<1>2. S \in SUBSET (0..Len(a)) /\ S # {}
  BY <1>1 DEF Children
<1>3. m \in S /\ \A k \in S : m <= k
  <2> HIDE DEF S
  <2>1. QED
    BY <1>1, <1>2, MinOf
<1>4. m \in 1..Len(a) /\ a[m].parent = n /\ a[m].role = role
  BY <1>3 DEF Children
<1> HIDE DEF m
<1>5. a[m].kind # "fun" /\ m > n
  BY <1>4 DEF Complete, Tree
<1>6. w[m].first = StartOf(w[n], role)
  <2>1. Started(a, w, m)
    BY <1>4 DEF Complete
  <2>2. {k \in Children(a, n, role) : k < m} = {}
    BY <1>2, <1>3, <1>4
  <2>3. n # 0
    OBVIOUS
  <2> HIDE DEF S
  <2>4. QED
    BY <1>4, <2>1, <2>2, <2>3 DEF Started
<1>7. QED
  BY <1>3, <1>4, <1>5, <1>6 DEF Statement, m
-----------------------------------------------------------------------------
(* where the condition, or the increment, of a loop is                     *)
ContinueSpot(a, w, n) == IF a[n].kind = "for" THEN w[n].alt ELSE w[n].cond

(* The continuation of a loop reads alike in both.                         *)
LEMMA ReadsContinuation ==
  ASSUME NEW a, NEW c, NEW w, Complete(a, c, w), NEW n \in 1..Len(a), a[n].kind \in Loops
  PROVE  Reads(a, c, Continuation(a, n), ContinueSpot(a, w, n))
<1>1. a \in Seq(NodeType) /\ c \in Seq(Seq(Insn))
  BY DEF Complete
<1>2. Entered(a, c, w, n) /\ Left(a, c, w, n)
  BY DEF Complete
<1> DEFINE i == INS(IF a[n].kind = "for" THEN "INC" ELSE "COND", n)
<1>3. Holds(c, ContinueSpot(a, w, n), i)
  <2>1. CASE a[n].kind = "while"
    BY <1>2, <2>1 DEF Entered, BranchAt, ContinueSpot
  <2>2. CASE a[n].kind = "do"
    BY <1>2, <2>2 DEF Left, BranchAt, ContinueSpot
  <2>3. CASE a[n].kind = "for"
    BY <1>2, <2>3 DEF Left, ContinueSpot
  <2>4. QED
    BY <2>1, <2>2, <2>3 DEF Loops
<1>4. CASE a[n].kind = "for"
  <2>1. i = INS("INC", n) /\ Continuation(a, n) = <<n, "INC">>
    BY <1>4 DEF Continuation
  <2>2. i.op \notin SilentOps /\ <<i.at, i.op>> = <<n, "INC">>
    BY <2>1 DEF INS, SilentOps
  <2> HIDE DEF i
  <2>3. QED
    BY <1>1, <1>3, <2>1, <2>2, ReadsPoint
<1>5. CASE a[n].kind # "for"
  <2>1. i = INS("COND", n) /\ Continuation(a, n) = <<n, "COND">>
    BY <1>5 DEF Continuation
  <2>2. i.op \notin SilentOps /\ <<i.at, i.op>> = <<n, "COND">>
    BY <2>1 DEF INS, SilentOps
  <2> HIDE DEF i
  <2>3. QED
    BY <1>1, <1>3, <2>1, <2>2, ReadsPoint
<1>6. QED
  BY <1>4, <1>5

(* What comes after statement n reads alike in source and code; what n     *)
(* starts with does.                                                       *)
ReadsAfter(a, c, w, n) == Reads(a, c, Behind(n), w[n].after)
ReadsFirst(a, c, w, n) == Reads(a, c, Before(n), w[n].first)

(* What follows statement m, when control may be at n inside it and what    *)
(* starts later is known.                                                  *)
LEMMA AfterOf ==
  ASSUME NEW a, NEW c, NEW w, Complete(a, c, w), NEW n \in 1..Len(a),
         \A m \in 1..Len(a) : m > n /\ a[m].kind # "fun" => ReadsFirst(a, c, w, m),
         NEW m \in 1..Len(a), Statement(a, m), m <= n, Inside(a, n, m),
         a[m].parent # 0 /\ a[a[m].parent].kind # "fun" /\ Inside(a, n, a[m].parent)
           => ReadsAfter(a, c, w, a[m].parent)
  PROVE  ReadsAfter(a, c, w, m)
<1> DEFINE p == a[m].parent
           role == a[m].role
<1>1. /\ a \in Seq(NodeType) /\ c \in Seq(Seq(Insn)) /\ Len(a) \in Nat
      /\ a[m] \in NodeType /\ w[m].after \in Spot
  BY CompleteTypes
<1>2. /\ Behind(m) \in DOMAIN SourceStep(a)
      /\ SourceStep(a)[Behind(m)] = StepOn(a, m)
  BY <1>1, SourceSteps
<1>3. p \in 1..(m - 1) /\ p \in 1..Len(a) /\ role \in RoleOf(a[p].kind) /\ Inside(a, m, p)
  <2>1. p # 0 /\ p \in 0..(m - 1)
    BY DEF Complete, Tree, Statement
  <2>2. role \in RoleOf(a[p].kind) /\ Inside(a, m, p)
    BY <2>1 DEF Complete, Tree
  <2>3. QED
    BY <1>1, <2>1, <2>2
<1>4. Left(a, c, w, p)
  BY <1>3 DEF Complete
<1>5. Inside(a, n, p)
  BY <1>1, <1>3, InsideTrans
<1>6. m \in Children(a, p, role)
  BY DEF Children
<1>7. a[p].kind # "fun" => ReadsAfter(a, c, w, p)
  BY <1>3, <1>5
<1>8. role \in Roles \cup {"program"} /\ a[p].kind \in Compound \cup Simple \cup {"fun"}
  <2>1. a[p] \in NodeType
    BY <1>3, CompleteTypes
  <2>2. QED
    BY <1>1, <2>1 DEF NodeType
<1> SUFFICES ASSUME TRUE PROVE \E t : Reads(a, c, StepOn(a, m), t) /\ Leads(c, w[m].after, t)
  BY <1>1, <1>2, ReadsOn DEF ReadsAfter
<1>9. CASE a[p].kind = "fun"
  <2>1. role = "fun"
    BY <1>3, <1>9 DEF RoleOf
  <2>2. StepOn(a, m) = End
    BY <2>1 DEF StepOn, LoopKinds
  <2>3. Holds(c, w[m].after, RET)
    BY <1>4, <1>6, <1>9, <2>1 DEF Left
  <2>4. RET.op \notin SilentOps /\ <<RET.at, RET.op>> = <<0, "RET">>
    BY DEF RET, INS, SilentOps
  <2>5. Reads(a, c, <<0, "RET">>, w[m].after)
    BY <1>1, <2>3, <2>4, ReadsPoint
  <2>6. QED
    BY <2>2, <2>5, LeadsSelf DEF End
<1>10. CASE a[p].kind = "block"
  <2> DEFINE kids == Children(a, p, "block")
             later == {k \in kids : k > m}
  <2>1. role = "block"
    BY <1>3, <1>10 DEF RoleOf
  <2>2. StepOn(a, m) = IF later = {} THEN Behind(p) ELSE Before(Min(later))
    BY <2>1 DEF StepOn, LoopKinds
  <2>3. kids \in SUBSET (0..Len(a)) /\ m \in kids
    BY <1>1, <1>6, <2>1 DEF Children
  <2>4. CASE later = {}
    <3>1. Latest(kids, m)
      <4>1. \A k \in kids : k <= m
        BY <1>1, <2>3, <2>4
      <4>2. QED
        BY <2>3, <4>1 DEF Latest
    <3>2. w[m].after = w[p].after
      BY <1>4, <1>10, <3>1 DEF Left, Latest
    <3>3. Reads(a, c, Behind(p), w[p].after)
      BY <1>7, <1>10 DEF ReadsAfter
    <3>4. QED
      BY <2>2, <2>4, <3>2, <3>3, LeadsSelf
  <2>5. CASE later # {}
    <3> DEFINE k == Min(later)
    <3>1. k \in later /\ \A j \in later : k <= j
      <4>1. later \in SUBSET (0..Len(a))
        BY <2>3
      <4> HIDE DEF later
      <4>2. QED
        BY <1>1, <2>5, <4>1, MinOf
    <3>2. k \in 1..Len(a) /\ a[k].parent = p /\ a[k].role = "block" /\ k > m
      BY <3>1 DEF Children
    <3> HIDE DEF k
    <3>3. Latest({j \in kids : j < k}, m)
      <4>1. \A j \in kids : j < k => j <= m
        BY <1>1, <2>3, <3>1, <3>2
      <4>2. QED
        BY <2>3, <3>2, <4>1 DEF Latest
    <3>4. w[k].first = w[m].after
      <4>1. Started(a, w, k)
        BY <3>2 DEF Complete
      <4>2. m \in {j \in kids : j < k}
        BY <3>3 DEF Latest
      <4>3. p # 0
        BY <1>3
      <4>4. QED
        BY <3>2, <3>3, <4>1, <4>2, <4>3 DEF Started
    <3>5. k > n
      <4> SUFFICES ASSUME k <= n PROVE FALSE
        BY <1>1, <3>2
      <4>1. k \in (m + 1)..n
        BY <1>1, <3>2
      <4>2. p >= m
        BY <3>2, <4>1 DEF Inside
      <4>3. QED
        BY <1>3, <4>2
    <3>6. a[k].kind # "fun"
      BY <1>3, <3>2 DEF Complete, Tree
    <3>7. Reads(a, c, Before(k), w[k].first)
      BY <3>2, <3>5, <3>6 DEF ReadsFirst
    <3>8. StepOn(a, m) = Before(k)
      BY <2>2, <2>5 DEF k
    <3>9. QED
      BY <3>4, <3>7, <3>8, LeadsSelf
  <2>6. QED
    BY <2>4, <2>5
<1>11. CASE a[p].kind = "if"
  <2>1. role \in {"then", "else"}
    BY <1>3, <1>11 DEF RoleOf
  <2>2. StepOn(a, m) = Behind(p)
    BY <2>1 DEF StepOn, LoopKinds
  <2>3. Leads(c, w[m].after, w[p].after)
    BY <1>4, <1>6, <1>11, <2>1 DEF Left
  <2>4. QED
    BY <1>7, <1>11, <2>2, <2>3 DEF ReadsAfter
<1>12. CASE a[p].kind \in Loops
  <2>1. role = a[p].kind /\ role \in LoopKinds
    BY <1>3, <1>12 DEF RoleOf, Loops, LoopKinds
  <2>2. StepOn(a, m) = Continuation(a, p)
    BY <2>1 DEF StepOn, LoopKinds
  <2>3. Leads(c, w[m].after, ContinueSpot(a, w, p))
    BY <1>4, <1>6, <1>12, <2>1 DEF Left, ContinueSpot, Loops
  <2>4. Reads(a, c, Continuation(a, p), ContinueSpot(a, w, p))
    BY <1>3, <1>12, ReadsContinuation
  <2>5. QED
    BY <2>2, <2>3, <2>4
<1>13. a[p].kind \in {"fun", "block", "if"} \cup Loops
  BY <1>3, <1>8 DEF RoleOf, Roles, Compound, Simple, Loops
<1>14. QED
  BY <1>9, <1>10, <1>11, <1>12, <1>13

(* After every statement the code does what the source says: from the      *)
(* outermost statements in, and of the later ones first.                   *)
LEMMA AfterOfAll ==
  ASSUME NEW a, NEW c, NEW w, Complete(a, c, w), NEW n \in 1..Len(a),
         \A m \in 1..Len(a) : m > n /\ a[m].kind # "fun" => ReadsFirst(a, c, w, m)
  PROVE  \A m \in 1..Len(a) : Statement(a, m) /\ m <= n /\ Inside(a, n, m) => ReadsAfter(a, c, w, m)
<1> DEFINE S == {m \in Nat : m \in 1..Len(a) /\ Statement(a, m) /\ m <= n /\ Inside(a, n, m)
                              => ReadsAfter(a, c, w, m)}
<1>1. Len(a) \in Nat
  BY CompleteTypes
<1>2. ASSUME NEW m \in Nat, \A k \in Nat : k < m => k \in S
      PROVE  m \in S
  <2> SUFFICES ASSUME m \in 1..Len(a), Statement(a, m), m <= n, Inside(a, n, m)
               PROVE  ReadsAfter(a, c, w, m)
    OBVIOUS
  <2> DEFINE p == a[m].parent
  <2>1. ASSUME p # 0, a[p].kind # "fun", Inside(a, n, p)
        PROVE  ReadsAfter(a, c, w, p)
    <3>1. p \in 0..(m - 1)
      BY DEF Complete, Tree
    <3>2. p \in Nat /\ p < m /\ p \in 1..Len(a) /\ p <= n
      BY <1>1, <2>1, <3>1
    <3>3. p \in S
      BY <1>2, <3>2
    <3>4. QED
      BY <2>1, <3>2, <3>3 DEF Statement
  <2>2. QED
    BY <2>1, AfterOf
<1>3. S = Nat
  <2>1. S \in SUBSET Nat
    OBVIOUS
  <2> HIDE DEF S
  <2>2. QED
    BY <1>2, <2>1, StrongInduction
<1>4. QED
  BY <1>3

(* Where statement n starts, when what starts later is known. *)
LEMMA FirstOf ==
  ASSUME NEW a, NEW c, NEW w, Complete(a, c, w), CleanIn(a), NEW n \in 1..Len(a), Statement(a, n),
         \A m \in 1..Len(a) : m > n /\ a[m].kind # "fun" => ReadsFirst(a, c, w, m)
  PROVE  ReadsFirst(a, c, w, n)
<1> DEFINE kind == a[n].kind
<1>1. /\ a \in Seq(NodeType) /\ c \in Seq(Seq(Insn)) /\ Len(a) \in Nat
      /\ a[n] \in NodeType /\ w[n].first \in Spot
  BY CompleteTypes
<1>2. /\ Before(n) \in DOMAIN SourceStep(a)
      /\ SourceStep(a)[Before(n)] = StepIn(a, n)
  BY <1>1, SourceSteps
<1>3. Entered(a, c, w, n) /\ Left(a, c, w, n)
  BY DEF Complete
<1>4. \A m \in 1..Len(a) : Statement(a, m) /\ m <= n /\ Inside(a, n, m) => ReadsAfter(a, c, w, m)
  BY AfterOfAll
<1>5. Inside(a, n, n)
  BY DEF Inside
<1>6. ReadsAfter(a, c, w, n)
  BY <1>4, <1>5
<1> SUFFICES ASSUME TRUE PROVE \E t : Reads(a, c, StepIn(a, n), t) /\ Leads(c, w[n].first, t)
  BY <1>1, <1>2, ReadsOn DEF ReadsFirst
<1>7. ASSUME NEW op, op \notin {"before", "behind"}, NEW i, Holds(c, w[n].first, i), i.op \notin SilentOps,
             i.at = n, i.op = op, StepIn(a, n) = <<n, op>>
      PROVE  Reads(a, c, StepIn(a, n), w[n].first) /\ Leads(c, w[n].first, w[n].first)
  <2>1. Reads(a, c, <<n, op>>, w[n].first)
    BY <1>1, <1>7, ReadsPoint
  <2>2. QED
    BY <1>7, <2>1, LeadsSelf
<1>8. CASE kind \in {"expr", "declinit", "return"}
  <2>1. StepIn(a, n) = <<n, "EXPR">>
    BY <1>8 DEF StepIn
  <2>2. Holds(c, w[n].first, INS("EXPR", n))
    BY <1>3, <1>8 DEF Entered
  <2>3. INS("EXPR", n).op \notin SilentOps /\ INS("EXPR", n).at = n /\ INS("EXPR", n).op = "EXPR"
    BY DEF INS, SilentOps
  <2>4. QED
    BY <1>7, <2>1, <2>2, <2>3
<1>9. CASE kind = "call"
  <2>1. StepIn(a, n) = <<n, "CALL">>
    BY <1>9 DEF StepIn
  <2>2. PICK f \in Nat : Holds(c, w[n].first, CALL(n, f))
    BY <1>3, <1>9 DEF Entered
  <2>3. CALL(n, f).op \notin SilentOps /\ CALL(n, f).at = n /\ CALL(n, f).op = "CALL"
    BY DEF CALL, SilentOps
  <2>4. QED
    BY <1>7, <2>1, <2>2, <2>3
<1>10. CASE kind = "decl"
  <2>1. StepIn(a, n) = Behind(n)
    BY <1>10 DEF StepIn
  <2>2. w[n].after = w[n].first
    BY <1>3, <1>10 DEF Entered
  <2>3. QED
    BY <1>6, <2>1, <2>2, LeadsSelf DEF ReadsAfter
<1>11. CASE kind = "block"
  <2> DEFINE kids == Children(a, n, "block")
  <2>1. StepIn(a, n) = IF kids = {} THEN Behind(n) ELSE Before(Min(kids))
    BY <1>11 DEF StepIn
  <2>2. Leads(c, w[n].first, w[n].body)
    BY <1>3, <1>11, LeadsOn DEF Entered, Left
  <2>3. CASE kids = {}
    <3>1. w[n].after = w[n].body
      BY <1>3, <1>11, <2>3 DEF Left
    <3>2. QED
      BY <1>6, <2>1, <2>2, <2>3, <3>1 DEF ReadsAfter
  <2>4. CASE kids # {}
    <3>1. /\ Statement(a, Min(kids)) /\ Min(kids) > n
          /\ w[Min(kids)].first = StartOf(w[n], "block")
      BY <2>4, FirstChild
    <3>2. ReadsFirst(a, c, w, Min(kids)) /\ w[Min(kids)].first = w[n].body
      BY <3>1 DEF Statement, StartOf
    <3>3. QED
      BY <2>1, <2>2, <2>4, <3>2 DEF ReadsFirst
  <2>5. QED
    BY <2>3, <2>4
<1>12. CASE kind = "if"
  <2>1. StepIn(a, n) = <<n, "COND">>
    BY <1>12 DEF StepIn
  <2>2. Holds(c, w[n].first, INS("COND", n))
    BY <1>3, <1>12 DEF Entered, BranchAt
  <2>3. INS("COND", n).op \notin SilentOps /\ INS("COND", n).at = n /\ INS("COND", n).op = "COND"
    BY DEF INS, SilentOps
  <2>4. QED
    BY <1>7, <2>1, <2>2, <2>3
<1>13. CASE kind = "while"
  <2>1. StepIn(a, n) = <<n, "COND">> /\ Continuation(a, n) = <<n, "COND">>
        /\ ContinueSpot(a, w, n) = w[n].cond
    BY <1>13 DEF StepIn, Continuation, ContinueSpot
  <2>2. Leads(c, w[n].first, w[n].cond)
    BY <1>3, <1>13 DEF Entered
  <2>3. Reads(a, c, Continuation(a, n), ContinueSpot(a, w, n))
    BY <1>13, ReadsContinuation DEF Loops
  <2>4. QED
    BY <2>1, <2>2, <2>3
<1>14. CASE kind = "do"
  <2> DEFINE kids == Children(a, n, "do")
  <2>1. StepIn(a, n) = Before(Min(kids))
    BY <1>14 DEF StepIn
  <2>2. Leads(c, w[n].first, w[n].body) /\ kids # {}
    BY <1>3, <1>14 DEF Entered, Left
  <2>3. /\ Statement(a, Min(kids)) /\ Min(kids) > n
        /\ w[Min(kids)].first = StartOf(w[n], "do")
    BY <2>2, FirstChild
  <2>4. ReadsFirst(a, c, w, Min(kids)) /\ w[Min(kids)].first = w[n].body
    BY <2>3 DEF Statement, StartOf
  <2>5. QED
    BY <2>1, <2>2, <2>4 DEF ReadsFirst
<1>15. CASE kind = "for"
  <2>1. StepIn(a, n) = <<n, "INIT">>
    BY <1>15 DEF StepIn
  <2>2. Holds(c, w[n].first, INS("INIT", n))
    BY <1>3, <1>15 DEF Entered, BranchAt
  <2>3. INS("INIT", n).op \notin SilentOps /\ INS("INIT", n).at = n /\ INS("INIT", n).op = "INIT"
    BY DEF INS, SilentOps
  <2>4. QED
    BY <1>7, <2>1, <2>2, <2>3
<1>16. CASE kind \in {"break", "continue"}
  <2>1. PICK l \in 1..(n - 1) : JumpsTo(a, c, w, n, l)
    BY <1>3, <1>16 DEF Entered
  <2>2. /\ l = EnclosingLoop(a, n) /\ a[l].kind \in Loops
        /\ ~(kind = "continue" /\ a[l].kind = "while")
    BY <1>16, <2>1 DEF JumpsTo, CleanIn
  <2>3. l \in 1..Len(a) /\ l <= n /\ Inside(a, n, l)
    BY <1>1, <2>1, <2>2, EnclosingLoopIs
  <2>4. CASE kind = "break"
    <3>1. StepIn(a, n) = Behind(l)
      BY <2>2, <2>4 DEF StepIn
    <3>2. ReadsAfter(a, c, w, l)
      BY <1>4, <2>2, <2>3 DEF Statement, Loops
    <3>3. Leads(c, w[n].first, w[l].after)
      BY <2>1, <2>4 DEF JumpsTo
    <3>4. QED
      BY <3>1, <3>2, <3>3 DEF ReadsAfter
  <2>5. CASE kind = "continue"
    <3>1. StepIn(a, n) = Continuation(a, l)
      BY <2>2, <2>5 DEF StepIn
    <3>2. Reads(a, c, Continuation(a, l), ContinueSpot(a, w, l))
      BY <2>2, <2>3, ReadsContinuation
    <3>3. Leads(c, w[n].first, ContinueAt(a, w, l))
      BY <2>1, <2>5 DEF JumpsTo
    <3>4. ContinueAt(a, w, l) = ContinueSpot(a, w, l)
      BY <2>2, <2>5 DEF ContinueAt, ContinueSpot, Loops
    <3>5. QED
      BY <3>1, <3>2, <3>3, <3>4
  <2>6. QED
    BY <1>16, <2>4, <2>5
<1>17. kind \in (Compound \cup Simple) \ Untranslatable
  BY <1>1, <1>3 DEF NodeType, Entered, Statement, Compound, Simple
<1>18. QED
  BY <1>8, <1>9, <1>10, <1>11, <1>12, <1>13, <1>14, <1>15, <1>16, <1>17 DEF Compound, Simple, Untranslatable
-----------------------------------------------------------------------------
(* So the code starts every statement as the source does.                  *)
LEMMA AllRead ==
  ASSUME NEW a, NEW c, NEW w, Complete(a, c, w), CleanIn(a)
  PROVE  \A n \in 1..Len(a) : Statement(a, n) =>
           /\ First(a, n) = ReadAt(c, w[n].first)
           /\ After(a, n) = ReadAt(c, w[n].after)
<1> DEFINE S == {n \in 1..Len(a) : Statement(a, n) => ReadsFirst(a, c, w, n)}
<1>1. Len(a) \in Nat
  BY CompleteTypes
<1>2. ASSUME NEW n \in 1..Len(a), \A m \in 1..Len(a) : m > n => m \in S
      PROVE  n \in S
  <2>1. \A m \in 1..Len(a) : m > n /\ a[m].kind # "fun" => ReadsFirst(a, c, w, m)
    BY <1>2 DEF Statement
  <2>2. Statement(a, n) => ReadsFirst(a, c, w, n)
    BY <2>1, FirstOf
  <2>3. QED
    BY <2>2
<1>3. \A n \in 1..Len(a) : n \in S
  <2> HIDE DEF S
  <2>1. QED
    BY <1>1, <1>2, DownwardInduction
<1>4. \A m \in 1..Len(a) : a[m].kind # "fun" => ReadsFirst(a, c, w, m)
  BY <1>3 DEF Statement
<1>5. ASSUME NEW n \in 1..Len(a), Statement(a, n) PROVE ReadsAfter(a, c, w, n)
  <2>1. \A m \in 1..Len(a) : Statement(a, m) /\ m <= n /\ Inside(a, n, m) => ReadsAfter(a, c, w, m)
    BY <1>4, AfterOfAll
  <2>2. Inside(a, n, n) /\ n <= n
    BY DEF Inside
  <2>3. QED
    BY <1>5, <2>1, <2>2
<1>6. QED
  BY <1>4, <1>5 DEF Statement, ReadsFirst, ReadsAfter, Reads, First, After

(* The flow at an instruction that is no condition, ...                    *)
LEMMA FlowAtPlain ==
  ASSUME NEW c \in Seq(Seq(Insn)), NEW q, NEW i, Holds(c, q, i), i.op \in Visible \ {"COND"}
  PROVE  CodeFlowAt(c, q[1], q[2]) = {<< <<i.at, i.op>>, "", ReadAt(c, Succ(q))>>}
<1>1. c[q[1]][q[2]] = i
  BY DEF Holds, InsnAt
<1>2. ReadAt(c, Succ(q)) = PointAt(c, q[1], q[2] + 1)
  BY DEF ReadAt, Succ
<1>3. i.op # "COND" /\ i.op \in Visible \ {"COND"}
  OBVIOUS
<1>4. CodeFlowAt(c, q[1], q[2]) = {<< <<i.at, i.op>>, "", PointAt(c, q[1], q[2] + 1)>>}
  BY <1>1, <1>3 DEF CodeFlowAt
<1>5. QED
  BY <1>2, <1>4

LEMMA PlainFlow ==
  ASSUME NEW c \in Seq(Seq(Insn)), NEW q, NEW n, NEW op \in Visible \ {"COND"}, Holds(c, q, INS(op, n))
  PROVE  CodeFlowAt(c, q[1], q[2]) = {<< <<n, op>>, "", ReadAt(c, Succ(q))>>}
<1> DEFINE i == INS(op, n)
<1>1. i.op = op /\ i.at = n /\ Holds(c, q, i) /\ i.op \in Visible \ {"COND"}
  BY DEF INS
<1> HIDE DEF i
<1>2. CodeFlowAt(c, q[1], q[2]) = {<< <<i.at, i.op>>, "", ReadAt(c, Succ(q))>>}
  BY <1>1, FlowAtPlain
<1>3. QED
  BY <1>1, <1>2

(* ... at a condition, ...                                                 *)
LEMMA FlowAtCond ==
  ASSUME NEW c \in Seq(Seq(Insn)), NEW q, NEW n, NEW t, NEW e, BranchAt(c, q, n, t, e)
  PROVE  CodeFlowAt(c, q[1], q[2]) = {<< <<n, "COND">>, "T", ReadAt(c, t)>>,
                                      << <<n, "COND">>, "F", ReadAt(c, e)>>}
<1>1. c[q[1]][q[2]] = INS("COND", n)
  BY DEF BranchAt, Holds, InsnAt
<1>2. c[q[1]][q[2] + 1] = BR(n, t[1], e[1])
  BY DEF BranchAt, Holds, InsnAt, Succ
<1>3. ReadAt(c, t) = BlockStart(c, t[1]) /\ ReadAt(c, e) = BlockStart(c, e[1])
  <2>1. t = <<t[1], 1>> /\ e = <<e[1], 1>>
    BY DEF BranchAt, Start
  <2>2. t[2] = 1 /\ e[2] = 1
    BY <2>1
  <2>3. QED
    BY <2>2 DEF ReadAt, BlockStart
<1>4. INS("COND", n).op = "COND" /\ INS("COND", n).at = n
      /\ BR(n, t[1], e[1]).target1 = t[1] /\ BR(n, t[1], e[1]).target2 = e[1]
  BY DEF INS, BR
<1>5. CodeFlowAt(c, q[1], q[2]) = {<< <<n, "COND">>, "T", BlockStart(c, t[1])>>,
                                   << <<n, "COND">>, "F", BlockStart(c, e[1])>>}
  BY <1>1, <1>2, <1>4 DEF CodeFlowAt
<1>6. QED
  BY <1>3, <1>5

(* ... and at one that does nothing visible.                               *)
LEMMA FlowAtOther ==
  ASSUME NEW c, NEW q, InsnAt(c, q).op \notin Visible
  PROVE  CodeFlowAt(c, q[1], q[2]) = {}
<1>1. c[q[1]][q[2]].op \notin Visible
  BY DEF InsnAt
<1>2. "COND" \in Visible
  BY DEF Visible
<1>3. QED
  BY <1>1, <1>2 DEF CodeFlowAt

(* What the code does at the instructions of node n. *)
FlowOfNode(a, c, w, n) ==
  UNION {CodeFlowAt(c, PartAt(a, w, n, op)[1], PartAt(a, w, n, op)[2]) : op \in Parts(a[n].kind)}

(* The flow of a node of the source is that of its parts in the code.      *)
LEMMA NodeFlow ==
  ASSUME NEW a, NEW c, NEW w, Complete(a, c, w), CleanIn(a), NEW n \in 1..Len(a)
  PROVE  /\ FlowFrom(a, n) = FlowOfNode(a, c, w, n)
         /\ \A op \in Parts(a[n].kind) : PartAt(a, w, n, op) \in Positions(c)
<1> DEFINE kind == a[n].kind
           at == w[n]
<1>1. /\ a \in Seq(NodeType) /\ c \in Seq(Seq(Insn)) /\ Len(a) \in Nat
      /\ a[n] \in NodeType /\ at.first \in Spot /\ at.after \in Spot /\ at.body \in Spot /\ at.alt \in Spot
  BY CompleteTypes
<1>2. Entered(a, c, w, n) /\ Left(a, c, w, n)
  BY DEF Complete
<1>3. kind # "fun" => First(a, n) = ReadAt(c, at.first) /\ After(a, n) = ReadAt(c, at.after)
  BY AllRead DEF Statement
<1>4. ASSUME NEW role, Children(a, n, role) # {}
      PROVE  First(a, Min(Children(a, n, role))) = ReadAt(c, StartOf(at, role))
  <2> DEFINE m == Min(Children(a, n, role))
  <2>1. Statement(a, m) /\ w[m].first = StartOf(at, role)
    BY <1>4, FirstChild
  <2> HIDE DEF m
  <2>2. First(a, m) = ReadAt(c, w[m].first)
    BY <2>1, AllRead DEF Statement
  <2>3. QED
    BY <2>1, <2>2 DEF m
<1>5. \A op : op \notin {"INC", "COND"} => PartAt(a, w, n, op) = at.first
  BY DEF PartAt
<1>6. \A q, i : Holds(c, q, i) => q \in Positions(c)
  BY DEF Holds
<1>7. CASE kind \in {"expr", "declinit", "call"}
  <2> DEFINE op == IF kind = "call" THEN "CALL" ELSE "EXPR"
  <2>1. Parts(kind) = {op} /\ op \in Visible \ {"COND"} /\ op \notin {"INC", "COND"}
    BY <1>7 DEF Parts, Visible
  <2>2. PICK i : Holds(c, at.first, i) /\ i.op = op /\ i.at = n
    <3>1. CASE kind = "call"
      <4>1. PICK f \in Nat : Holds(c, at.first, CALL(n, f))
        BY <1>2, <3>1 DEF Entered
      <4>2. CALL(n, f).op = "CALL" /\ CALL(n, f).at = n
        BY DEF CALL
      <4>3. QED
        BY <3>1, <4>1, <4>2
    <3>2. CASE kind # "call"
      <4>1. Holds(c, at.first, INS("EXPR", n))
        BY <1>2, <1>7, <3>2 DEF Entered
      <4>2. INS("EXPR", n).op = "EXPR" /\ INS("EXPR", n).at = n
        BY DEF INS
      <4>3. QED
        BY <3>2, <4>1, <4>2
    <3>3. QED
      BY <3>1, <3>2
  <2>3. at.after = Succ(at.first)
    BY <1>2, <1>7 DEF Entered
  <2>4. FlowFrom(a, n) = {<< <<n, op>>, "", After(a, n)>>}
    BY <1>7 DEF FlowFrom
  <2> HIDE DEF op
  <2>5. CodeFlowAt(c, at.first[1], at.first[2]) = {<< <<n, op>>, "", ReadAt(c, Succ(at.first))>>}
    BY <1>1, <2>1, <2>2, FlowAtPlain
  <2>6. FlowOfNode(a, c, w, n) = CodeFlowAt(c, at.first[1], at.first[2])
    BY <1>5, <2>1 DEF FlowOfNode
  <2>7. After(a, n) = ReadAt(c, Succ(at.first))
    BY <1>3, <1>7, <2>3
  <2>8. \A o \in Parts(kind) : PartAt(a, w, n, o) \in Positions(c)
    BY <1>5, <1>6, <2>1, <2>2
  <2>9. QED
    BY <2>4, <2>5, <2>6, <2>7, <2>8
<1>8. CASE kind = "return"
  <2>1. Parts(kind) = {"EXPR"} /\ "EXPR" \in Visible \ {"COND"}
    BY <1>8 DEF Parts, Visible
  <2>2. Holds(c, at.first, INS("EXPR", n)) /\ Holds(c, Succ(at.first), RETR(n))
    BY <1>2, <1>8 DEF Entered
  <2>3. INS("EXPR", n).op = "EXPR" /\ INS("EXPR", n).at = n
        /\ RETR(n).op = "RETR" /\ RETR(n).at = n /\ "RETR" \notin SilentOps
    BY DEF INS, RETR, SilentOps
  <2>4. FlowFrom(a, n) = {<< <<n, "EXPR">>, "", <<n, "RETR">> >>}
    BY <1>8 DEF FlowFrom
  <2>5. CodeFlowAt(c, at.first[1], at.first[2]) = {<< <<n, "EXPR">>, "", ReadAt(c, Succ(at.first))>>}
    BY <1>1, <2>1, <2>2, PlainFlow
  <2>6. ReadAt(c, Succ(at.first)) = <<n, "RETR">>
    BY <1>1, <2>2, <2>3, ReadHere
  <2>7. FlowOfNode(a, c, w, n) = CodeFlowAt(c, at.first[1], at.first[2])
    BY <1>5, <2>1 DEF FlowOfNode
  <2>8. \A o \in Parts(kind) : PartAt(a, w, n, o) \in Positions(c)
    BY <1>5, <1>6, <2>1, <2>2
  <2>9. QED
    BY <2>4, <2>5, <2>6, <2>7, <2>8
<1>9. CASE kind = "if"
  <2> DEFINE else == Children(a, n, "else")
             cond == <<n, "COND">>
  <2>1. Parts(kind) = {"COND"} /\ PartAt(a, w, n, "COND") = at.first
    BY <1>9 DEF Parts, PartAt
  <2>2. BranchAt(c, at.first, n, at.body, at.alt)
    BY <1>2, <1>9 DEF Entered
  <2>3. FlowFrom(a, n) =
          {<<cond, "T", First(a, Min(Children(a, n, "then")))>>,
           <<cond, "F", IF else = {} THEN After(a, n) ELSE First(a, Min(else))>>}
    BY <1>9 DEF FlowFrom
  <2>4. First(a, Min(Children(a, n, "then"))) = ReadAt(c, at.body)
    <3>1. Children(a, n, "then") # {}
      BY <1>2, <1>9 DEF Left
    <3>2. QED
      BY <1>4, <3>1 DEF StartOf
  <2>5. (IF else = {} THEN After(a, n) ELSE First(a, Min(else))) = ReadAt(c, at.alt)
    <3>1. CASE else = {}
      <4>1. Leads(c, at.alt, at.after)
        BY <1>2, <1>9, <3>1 DEF Left
      <4>2. ReadAt(c, at.alt) = ReadAt(c, at.after)
        BY <1>1, <4>1, LeadsRead
      <4>3. QED
        BY <1>3, <1>9, <3>1, <4>2
    <3>2. CASE else # {}
      BY <1>4, <3>2 DEF StartOf
    <3>3. QED
      BY <3>1, <3>2
  <2>6. CodeFlowAt(c, at.first[1], at.first[2]) = {<<cond, "T", ReadAt(c, at.body)>>, <<cond, "F", ReadAt(c, at.alt)>>}
    BY <1>1, <2>2, FlowAtCond
  <2>7. FlowOfNode(a, c, w, n) = CodeFlowAt(c, at.first[1], at.first[2])
    BY <2>1 DEF FlowOfNode
  <2>8. \A o \in Parts(kind) : PartAt(a, w, n, o) \in Positions(c)
    BY <1>6, <2>1, <2>2 DEF BranchAt
  <2>9. QED
    BY <2>3, <2>4, <2>5, <2>6, <2>7, <2>8
<1>10. ASSUME kind \in Loops
       PROVE  /\ PartAt(a, w, n, "COND") = at.cond /\ at.cond \in Positions(c)
              /\ CodeFlowAt(c, at.cond[1], at.cond[2]) =
                   {<< <<n, "COND">>, "T", Body(a, n)>>, << <<n, "COND">>, "F", After(a, n)>>}
  <2>1. PartAt(a, w, n, "COND") = at.cond
    BY <1>10 DEF PartAt, Loops
  <2>2. BranchAt(c, at.cond, n, at.body, at.after)
    BY <1>2, <1>10 DEF Entered, Left, Loops
  <2>3. Body(a, n) = ReadAt(c, at.body)
    <3>1. Children(a, n, kind) # {}
      BY <1>2, <1>10 DEF Left, Loops
    <3>2. StartOf(at, kind) = at.body
      BY <1>10 DEF StartOf, Loops
    <3>3. QED
      BY <1>4, <3>1, <3>2 DEF Body
  <2>4. After(a, n) = ReadAt(c, at.after)
    BY <1>3, <1>10 DEF Loops
  <2>5. CodeFlowAt(c, at.cond[1], at.cond[2]) =
          {<< <<n, "COND">>, "T", ReadAt(c, at.body)>>, << <<n, "COND">>, "F", ReadAt(c, at.after)>>}
    BY <1>1, <2>2, FlowAtCond
  <2>6. at.cond \in Positions(c)
    BY <1>6, <2>2 DEF BranchAt
  <2>7. QED
    BY <2>1, <2>3, <2>4, <2>5, <2>6
<1>11. CASE kind \in {"while", "do"}
  <2>1. Parts(kind) = {"COND"}
    BY <1>11 DEF Parts
  <2>2. FlowFrom(a, n) = {<< <<n, "COND">>, "T", Body(a, n)>>, << <<n, "COND">>, "F", After(a, n)>>}
    BY <1>11 DEF FlowFrom
  <2>3. kind \in Loops
    BY <1>11 DEF Loops
  <2>4. FlowOfNode(a, c, w, n) = CodeFlowAt(c, at.cond[1], at.cond[2])
    BY <1>10, <2>1, <2>3 DEF FlowOfNode
  <2>5. QED
    BY <1>10, <2>1, <2>2, <2>3, <2>4
<1>12. CASE kind = "for"
  <2>1. Parts(kind) = {"INIT", "COND", "INC"} /\ kind \in Loops
    BY <1>12 DEF Parts, Loops
  <2>2. PartAt(a, w, n, "INIT") = at.first /\ PartAt(a, w, n, "INC") = at.alt
    BY DEF PartAt
  <2>3. /\ Holds(c, at.first, INS("INIT", n)) /\ Leads(c, Succ(at.first), at.cond)
        /\ Holds(c, at.alt, INS("INC", n)) /\ Leads(c, Succ(at.alt), at.cond)
        /\ Holds(c, at.cond, INS("COND", n))
    BY <1>2, <1>12 DEF Entered, Left, BranchAt
  <2>4. ReadAt(c, at.cond) = <<n, "COND">>
    <3>1. INS("COND", n).op = "COND" /\ INS("COND", n).at = n /\ "COND" \notin SilentOps
      BY DEF INS, SilentOps
    <3>2. QED
      BY <1>1, <2>3, <3>1, ReadHere
  <2>5. ReadAt(c, Succ(at.first)) = <<n, "COND">> /\ ReadAt(c, Succ(at.alt)) = <<n, "COND">>
    <3>1. Succ(at.first) \in Spot /\ Succ(at.alt) \in Spot
      BY <1>1, SpotFacts
    <3>2. QED
      BY <1>1, <2>3, <2>4, <3>1, LeadsRead
  <2>6. /\ INS("INIT", n).op = "INIT" /\ INS("INIT", n).at = n /\ "INIT" \in Visible \ {"COND"}
        /\ INS("INC", n).op = "INC" /\ INS("INC", n).at = n /\ "INC" \in Visible \ {"COND"}
    BY DEF INS, Visible
  <2>7. CodeFlowAt(c, at.first[1], at.first[2]) = {<< <<n, "INIT">>, "", <<n, "COND">> >>}
    <3>1. CodeFlowAt(c, at.first[1], at.first[2]) = {<< <<n, "INIT">>, "", ReadAt(c, Succ(at.first))>>}
      BY <1>1, <2>3, <2>6, PlainFlow
    <3>2. QED
      BY <2>5, <3>1
  <2>8. CodeFlowAt(c, at.alt[1], at.alt[2]) = {<< <<n, "INC">>, "", <<n, "COND">> >>}
    <3>1. CodeFlowAt(c, at.alt[1], at.alt[2]) = {<< <<n, "INC">>, "", ReadAt(c, Succ(at.alt))>>}
      BY <1>1, <2>3, <2>6, PlainFlow
    <3>2. QED
      BY <2>5, <3>1
  <2>9. FlowFrom(a, n) =
          {<< <<n, "COND">>, "T", Body(a, n)>>, << <<n, "COND">>, "F", After(a, n)>>,
           << <<n, "INIT">>, "", <<n, "COND">> >>, << <<n, "INC">>, "", <<n, "COND">> >>}
    BY <1>12 DEF FlowFrom
  <2>10. FlowOfNode(a, c, w, n) = CodeFlowAt(c, at.first[1], at.first[2])
           \cup CodeFlowAt(c, at.cond[1], at.cond[2]) \cup CodeFlowAt(c, at.alt[1], at.alt[2])
    BY <1>10, <2>1, <2>2 DEF FlowOfNode
  <2>11. \A o \in Parts(kind) : PartAt(a, w, n, o) \in Positions(c)
    BY <1>6, <1>10, <2>1, <2>2, <2>3
  <2>12. FlowFrom(a, n) = FlowOfNode(a, c, w, n)
    BY <1>10, <2>1, <2>7, <2>8, <2>9, <2>10
  <2>13. QED
    BY <2>11, <2>12
<1>13. CASE kind \in {"fun", "block", "decl", "break", "continue"}
  <2>1. Parts(kind) = {} /\ FlowFrom(a, n) = {}
    BY <1>13 DEF Parts, FlowFrom
  <2>2. QED
    BY <2>1 DEF FlowOfNode
<1>14. kind \in (Compound \cup Simple \cup {"fun"}) \ Untranslatable
  BY <1>1, <1>2 DEF NodeType, Entered
<1>15. QED
  BY <1>7, <1>8, <1>9, <1>11, <1>12, <1>13, <1>14 DEF Compound, Simple, Untranslatable

(* Complete translations have the flow of the source: every edge of one is *)
(* an edge of the other.                                                   *)
LEMMA FlowsAgree ==
  ASSUME NEW a, NEW c, NEW w, Complete(a, c, w), CleanIn(a), AllPlaced(a, c, w)
  PROVE  CodeFlow(c) = SourceFlow(a)
<1>1. ASSUME NEW q \in Positions(c) PROVE CodeFlowAt(c, q[1], q[2]) \subseteq SourceFlow(a)
  <2>1. CASE InsnAt(c, q).op \notin Visible
    BY <2>1, FlowAtOther
  <2>2. CASE InsnAt(c, q).op \in Visible
    <3> DEFINE n == InsnAt(c, q).at
               op == InsnAt(c, q).op
    <3>1. n \in 1..Len(a) /\ op \in Parts(a[n].kind) /\ q = PartAt(a, w, n, op)
      BY <2>2 DEF AllPlaced, Placed
    <3> HIDE DEF n, op
    <3>2. CodeFlowAt(c, q[1], q[2]) \subseteq FlowOfNode(a, c, w, n)
      BY <3>1 DEF FlowOfNode
    <3>3. FlowFrom(a, n) = FlowOfNode(a, c, w, n)
      BY <3>1, NodeFlow
    <3>4. FlowFrom(a, n) \subseteq SourceFlow(a)
      BY <3>1 DEF SourceFlow
    <3>5. QED
      BY <3>2, <3>3, <3>4
  <2>3. QED
    BY <2>1, <2>2
<1>2. ASSUME NEW n \in 1..Len(a) PROVE FlowFrom(a, n) \subseteq CodeFlow(c)
  <2>1. /\ FlowFrom(a, n) = FlowOfNode(a, c, w, n)
        /\ \A op \in Parts(a[n].kind) : PartAt(a, w, n, op) \in Positions(c)
    BY NodeFlow
  <2>2. FlowOfNode(a, c, w, n) \subseteq CodeFlow(c)
    BY <2>1 DEF FlowOfNode, CodeFlow
  <2>3. QED
    BY <2>1, <2>2
<1>3. CodeFlow(c) \subseteq SourceFlow(a)
  BY <1>1 DEF CodeFlow
<1>4. SourceFlow(a) \subseteq CodeFlow(c)
  BY <1>2 DEF SourceFlow
<1>5. QED
  BY <1>3, <1>4

(* The functions start with the same points.                               *)
LEMMA StartsAgree ==
  ASSUME NEW a, NEW c, NEW w, Complete(a, c, w), CleanIn(a), NEW es \in Seq(Nat), Starts(a, c, w, es)
  PROVE  {BlockStart(c, es[f]) : f \in 1..Len(es)} = SourceStarts(a)
<1> DEFINE funs == {n \in 1..Len(a) : a[n].kind = "fun"}
           first(n) == First(a, Min(Children(a, n, "fun")))
<1>1. ASSUME NEW f \in 1..Len(es), NEW n, FunAt(a, c, w, es[f], n)
      PROVE  n \in funs /\ BlockStart(c, es[f]) = first(n)
  <2>1. n \in 1..Len(a) /\ a[n].kind = "fun" /\ Leads(c, Start(es[f]), w[n].body)
    BY <1>1 DEF FunAt
  <2>2. c \in Seq(Seq(Insn))
    BY DEF Complete
  <2>3. Start(es[f]) \in Spot
    <3>1. es[f] \in Nat
      BY ElementOfSeq
    <3>2. QED
      BY <3>1 DEF Start, Spot
  <2>4. ReadAt(c, Start(es[f])) = ReadAt(c, w[n].body)
    BY <2>1, <2>2, <2>3, LeadsRead
  <2>5. ReadAt(c, Start(es[f])) = BlockStart(c, es[f])
    BY DEF ReadAt, BlockStart, Start
  <2>6. Children(a, n, "fun") # {}
    BY <2>1 DEF Complete, Left
  <2> DEFINE m == Min(Children(a, n, "fun"))
  <2>7. Statement(a, m) /\ w[m].first = StartOf(w[n], "fun")
    BY <2>1, <2>6, FirstChild
  <2> HIDE DEF m
  <2>8. First(a, m) = ReadAt(c, w[n].body)
    BY <2>7, AllRead DEF Statement, StartOf
  <2>9. QED
    BY <2>1, <2>4, <2>5, <2>8 DEF m
<1>2. SourceStarts(a) = {first(n) : n \in funs}
  BY DEF SourceStarts
<1> HIDE DEF first
<1> PICK fn \in Seq(Nat) : /\ Len(fn) = Len(es) /\ FunsInOrder(a, fn)
                          /\ \A f \in 1..Len(es) : FunAt(a, c, w, es[f], fn[f])
  BY DEF Starts
<1>3. \A f \in 1..Len(es) : \E n \in funs : BlockStart(c, es[f]) = first(n)
  BY <1>1
<1>4. \A n \in funs : \E f \in 1..Len(es) : BlockStart(c, es[f]) = first(n)
  BY <1>1 DEF FunsInOrder
<1>5. QED
  BY <1>2, <1>3, <1>4
-----------------------------------------------------------------------------
(* The program goes on from a to a2. *)
Prefix(a, a2) == /\ a2 \in Seq(NodeType)
                 /\ Len(a) <= Len(a2)
                 /\ \A n \in 1..Len(a) : a2[n] = a[n]

(* The types of a node of a tree.                                          *)
LEMMA NodeFacts ==
  ASSUME NEW a \in Seq(NodeType)
  PROVE  /\ Len(a) \in Nat
         /\ \A n \in 1..Len(a) : a[n] \in NodeType
         /\ \A n \in 1..Len(a) : a[n].parent \in Nat
<1>1. Len(a) \in Nat /\ \A n \in 1..Len(a) : a[n] \in NodeType
  BY LenProperties, ElementOfSeq
<1>2. \A x \in NodeType : x.parent \in Nat
  BY DEF NodeType
<1>3. QED
  BY <1>1, <1>2

(* A loop has an enclosing block.                                          *)
LEMMA EnclosingBlockIn ==
  ASSUME NEW a, NEW n \in Nat \ {0}, \E b \in 1..(n - 1) : a[b].kind = "block" /\ Inside(a, n, b)
  PROVE  /\ EnclosingBlock(a, n) \in 1..(n - 1)
         /\ a[EnclosingBlock(a, n)].kind = "block"
         /\ Inside(a, n, EnclosingBlock(a, n))
<1> DEFINE S == {m \in 1..(n - 1) : a[m].kind = "block" /\ Inside(a, n, m)}
<1>1. n - 1 \in Nat /\ S \in SUBSET (0..(n - 1)) /\ S # {}
  OBVIOUS
<1>2. EnclosingBlock(a, n) = Max(S)
  BY DEF EnclosingBlock
<1>3. Max(S) \in S
  <2> HIDE DEF S
  <2>1. QED
    BY <1>1, MaxOf
<1>4. QED
  BY <1>2, <1>3

(* A tree that grows at the end keeps what there was of it.                *)
LEMMA PrefixKeeps ==
  ASSUME NEW a \in Seq(NodeType), Tree(a), NEW a2, Prefix(a, a2)
  PROVE  /\ \A n, m \in 1..Len(a) : Inside(a2, n, m) <=> Inside(a, n, m)
         /\ \A n \in 1..Len(a) : /\ EnclosingLoop(a2, n) = EnclosingLoop(a, n)
                                 /\ EnclosingBlock(a2, n) = EnclosingBlock(a, n)
                                 /\ StaleIn(a2, n) <=> StaleIn(a, n)
<1>1. Len(a) \in Nat /\ \A n \in 1..Len(a) : a2[n] = a[n]
  BY NodeFacts DEF Prefix
<1>2. ASSUME NEW n \in 1..Len(a), NEW m \in 1..Len(a) PROVE Inside(a2, n, m) <=> Inside(a, n, m)
  <2>1. \A k \in (m + 1)..n : a2[k] = a[k]
    <3> TAKE k \in (m + 1)..n
    <3>1. k \in 1..Len(a)
      BY <1>1
    <3>2. QED
      BY <1>1, <3>1
  <2>2. QED
    BY <2>1 DEF Inside
<1>3. ASSUME NEW n \in 1..Len(a)
      PROVE  /\ EnclosingLoop(a2, n) = EnclosingLoop(a, n)
             /\ EnclosingBlock(a2, n) = EnclosingBlock(a, n)
  <2>1. \A m \in 1..(n - 1) : a2[m] = a[m] /\ (Inside(a2, n, m) <=> Inside(a, n, m))
    <3> TAKE m \in 1..(n - 1)
    <3>1. m \in 1..Len(a)
      BY <1>1
    <3>2. QED
      BY <1>1, <1>2, <3>1
  <2>2. {m \in 1..(n - 1) : a2[m].kind \in LoopKinds /\ Inside(a2, n, m)}
        = {m \in 1..(n - 1) : a[m].kind \in LoopKinds /\ Inside(a, n, m)}
    BY <2>1
  <2>3. {m \in 1..(n - 1) : a2[m].kind = "block" /\ Inside(a2, n, m)}
        = {m \in 1..(n - 1) : a[m].kind = "block" /\ Inside(a, n, m)}
    BY <2>1
  <2>4. QED
    BY <2>2, <2>3 DEF EnclosingLoop, EnclosingBlock
<1>4. ASSUME NEW n \in 1..Len(a) PROVE StaleIn(a2, n) <=> StaleIn(a, n)
  <2> DEFINE L == EnclosingLoop(a, n)
  <2>1. EnclosingLoop(a2, n) = L /\ L \in 0..(n - 1)
    BY <1>1, <1>3, EnclosingLoopIs
  <2> HIDE DEF L
  <2>2. \A m \in (L + 1)..(n - 1) : /\ a2[m] = a[m]
                                    /\ Inside(a2, n, m) <=> Inside(a, n, m)
                                    /\ EnclosingBlock(a2, m) = EnclosingBlock(a, m)
    <3> TAKE m \in (L + 1)..(n - 1)
    <3>1. m \in 1..Len(a)
      BY <1>1, <2>1
    <3>2. QED
      BY <1>1, <1>2, <1>3, <3>1
  <2>3. ASSUME NEW m \in (L + 1)..(n - 1), a[m].kind \in Loops
        PROVE  Inside(a2, n, EnclosingBlock(a, m)) <=> Inside(a, n, EnclosingBlock(a, m))
    <3>1. m \in 1..Len(a) /\ m \in Nat \ {0}
      BY <1>1, <2>1
    <3>2. EnclosingBlock(a, m) \in 1..(m - 1)
      BY <2>3, <3>1, EnclosingBlockIn DEF Tree
    <3>3. EnclosingBlock(a, m) \in 1..Len(a)
      BY <1>1, <3>1, <3>2
    <3>4. QED
      BY <1>2, <3>3
  <2>4. QED
    BY <2>1, <2>2, <2>3 DEF StaleIn, L
<1>5. QED
  BY <1>2, <1>3, <1>4
-----------------------------------------------------------------------------
(* c is the blocks of a program                                            *)
Blocks(c) == c \in Seq(Seq(Insn))

(* c2 is c with instructions added, none of them to a block outside T. *)
Kept(c, c2, T) ==
  /\ c2 \in Seq(Seq(Insn))
  /\ Len(c) <= Len(c2)
  /\ Grown(c, c2)
  /\ \A x \in 1..Len(c) : x \notin T => c2[x] = c[x]

(* A position has a block and an index.                                    *)
LEMMA PositionIn ==
  ASSUME NEW c, NEW q
  PROVE  q \in Positions(c) <=> \E x \in 1..Len(c) : \E k \in 1..Len(c[x]) : q = <<x, k>>
BY DEF Positions

(* Keeping blocks is transitive, ...                                       *)
LEMMA KeptOn ==
  ASSUME NEW c \in Seq(Seq(Insn)), NEW d, NEW e, NEW T, NEW U, Kept(c, d, T), Kept(d, e, U)
  PROVE  Kept(c, e, T \cup U)
<1>1. Len(c) \in Nat /\ Len(d) \in Nat /\ Len(e) \in Nat
  BY LenProperties DEF Kept
<1>2. Grown(c, e)
  BY DEF Kept, Grown
<1>3. \A x \in 1..Len(c) : x \in 1..Len(d)
  BY <1>1 DEF Kept
<1>4. QED
  BY <1>1, <1>2, <1>3 DEF Kept

(* ... and reflexive.                                                      *)
LEMMA KeptSelf == ASSUME NEW c \in Seq(Seq(Insn)), NEW T PROVE Kept(c, c, T)
<1>1. Len(c) \in Nat
  BY LenProperties
<1>2. QED
  BY <1>1 DEF Kept, Grown

(* addBasicBlock *)
LEMMA AddingKeeps ==
  ASSUME NEW c \in Seq(Seq(Insn)), NEW k \in Nat, NEW d, d = addBasicBlocks(c, k)
  PROVE  /\ Kept(c, d, {})
         /\ Len(d) = Len(c) + k
         /\ \A x \in (Len(c) + 1)..(Len(c) + k) : d[x] = <<>>
         /\ Positions(d) = Positions(c)
<1> DEFINE new == [i \in 1..k |-> <<>>]
<1>1. Len(c) \in Nat /\ new \in Seq(Seq(Insn)) /\ Len(new) = k /\ d = c \o new
  BY LenProperties, EmptyBlock, SeqDef DEF addBasicBlocks
<1>2. /\ d \in Seq(Seq(Insn)) /\ Len(d) = Len(c) + k
      /\ \A x \in 1..(Len(c) + k) : d[x] = IF x <= Len(c) THEN c[x] ELSE new[x - Len(c)]
  BY <1>1, ConcatProperties
<1>3. \A x \in 1..Len(c) : x \in 1..Len(d) /\ d[x] = c[x]
  BY <1>1, <1>2
<1>4. \A x \in (Len(c) + 1)..(Len(c) + k) : d[x] = <<>>
  <2> TAKE x \in (Len(c) + 1)..(Len(c) + k)
  <2>1. x \in 1..(Len(c) + k) /\ ~ x <= Len(c) /\ x - Len(c) \in 1..k
    BY <1>1
  <2>2. QED
    BY <1>2, <2>1
<1>5. Positions(d) = Positions(c)
  <2>1. ASSUME NEW q \in Positions(d) PROVE q \in Positions(c)
    <3>1. PICK x \in 1..Len(d) : \E m \in 1..Len(d[x]) : q = <<x, m>>
      <4>1. q \in Positions(d)
        OBVIOUS
      <4>2. QED
        BY <4>1 DEF Positions
    <3>2. x \in 1..Len(c)
      <4>1. CASE x > Len(c)
        <5>1. d[x] = <<>>
          BY <1>1, <1>2, <1>4, <4>1
        <5>2. Len(d[x]) = 0
          BY <5>1
        <5>3. QED
          BY <3>1, <5>2
      <4>2. QED
        BY <1>1, <1>2, <4>1
    <3>3. QED
      BY <1>3, <3>1, <3>2, PositionIn
  <2>2. ASSUME NEW q \in Positions(c) PROVE q \in Positions(d)
    BY <1>3, PositionIn
  <2>3. QED
    BY <2>1, <2>2
<1>6. Grown(c, d)
  <2> SUFFICES ASSUME NEW q \in Positions(c) PROVE q \in Positions(d) /\ InsnAt(d, q) = InsnAt(c, q)
    BY DEF Grown
  <2>1. PICK x \in 1..Len(c) : \E m \in 1..Len(c[x]) : q = <<x, m>>
    BY PositionIn
  <2>2. d[q[1]] = c[q[1]]
    BY <1>3, <2>1
  <2>3. QED
    BY <1>5, <2>2 DEF InsnAt
<1>7. Len(c) <= Len(d)
  BY <1>1, <1>2
<1>8. QED
  BY <1>2, <1>3, <1>4, <1>5, <1>6, <1>7 DEF Kept

(* BasicBlock::append *)
LEMMA AppendKeeps ==
  ASSUME NEW c \in Seq(Seq(Insn)), NEW b \in 1..Len(c), NEW i \in Insn, NEW d, d = append(c, b, i)
  PROVE  /\ Kept(c, d, {b})
         /\ Len(d) = Len(c)
         /\ d[b] = Append(c[b], i)
         /\ Holds(d, Here(c, b), i)
         /\ Here(d, b) = Succ(Here(c, b))
         /\ \A q \in Positions(d) : q \in Positions(c) \/ q = Here(c, b)
<1>1. Len(c) \in Nat /\ c[b] \in Seq(Insn) /\ Len(c[b]) \in Nat
  BY LenProperties, ElementOfSeq
<1>2. /\ Append(c[b], i) \in Seq(Insn)
      /\ Len(Append(c[b], i)) = Len(c[b]) + 1
      /\ \A m \in 1..Len(c[b]) : Append(c[b], i)[m] = c[b][m]
      /\ Append(c[b], i)[Len(c[b]) + 1] = i
  BY <1>1, AppendProperties
<1>3. d = [c EXCEPT ![b] = Append(c[b], i)]
  BY DEF append
<1>4. /\ d \in Seq(Seq(Insn)) /\ Len(d) = Len(c) /\ d[b] = Append(c[b], i)
      /\ \A x \in 1..Len(c) : x # b => d[x] = c[x]
  BY <1>1, <1>2, <1>3, ExceptSeq
<1>5. ASSUME NEW q \in Positions(c) PROVE q \in Positions(d) /\ InsnAt(d, q) = InsnAt(c, q)
  <2>1. PICK x \in 1..Len(c) : \E m \in 1..Len(c[x]) : q = <<x, m>>
    BY PositionIn
  <2>2. PICK m \in 1..Len(c[x]) : q = <<x, m>>
    BY <2>1
  <2>3. x \in 1..Len(d) /\ m \in 1..Len(d[x]) /\ d[x][m] = c[x][m]
    <3>1. CASE x = b
      <4> DEFINE more == Append(c[b], i)
      <4>1. Len(more) = Len(c[b]) + 1 /\ d[b] = more /\ \A k \in 1..Len(c[b]) : more[k] = c[b][k]
        BY <1>2, <1>4
      <4> HIDE DEF more
      <4>2. m \in 1..Len(c[b]) /\ m \in 1..(Len(c[b]) + 1)
        BY <1>1, <3>1
      <4>3. QED
        BY <1>4, <3>1, <4>1, <4>2
    <3>2. CASE x # b
      BY <1>4, <3>2
    <3>3. QED
      BY <3>1, <3>2
  <2>4. QED
    BY <2>2, <2>3, PositionIn DEF InsnAt
<1>6. Grown(c, d)
  BY <1>5 DEF Grown
<1>7. ASSUME NEW q \in Positions(d) PROVE q \in Positions(c) \/ q = Here(c, b)
  <2>1. PICK x \in 1..Len(d) : \E m \in 1..Len(d[x]) : q = <<x, m>>
    BY PositionIn
  <2>2. PICK m \in 1..Len(d[x]) : q = <<x, m>>
    BY <2>1
  <2>3. CASE x # b \/ m \in 1..Len(c[b])
    <3>1. x \in 1..Len(c) /\ m \in 1..Len(c[x])
      BY <1>4, <2>3
    <3>2. QED
      BY <2>2, <3>1, PositionIn
  <2>4. CASE x = b /\ m \notin 1..Len(c[b])
    <3>1. m = Len(c[b]) + 1
      BY <1>1, <1>2, <1>4, <2>4
    <3>2. QED
      BY <2>2, <2>4, <3>1 DEF Here
  <2>5. QED
    BY <2>3, <2>4
<1>8. Holds(d, Here(c, b), i)
  <2>1. b \in 1..Len(d) /\ Len(c[b]) + 1 \in 1..Len(d[b]) /\ d[b][Len(c[b]) + 1] = i
    BY <1>1, <1>2, <1>4
  <2>2. <<b, Len(c[b]) + 1>> \in Positions(d)
    BY <2>1, PositionIn
  <2>3. QED
    BY <2>1, <2>2 DEF Holds, Here, InsnAt
<1>9. Here(d, b) = Succ(Here(c, b))
  BY <1>2, <1>4 DEF Here, Succ
<1>10. Kept(c, d, {b})
  BY <1>1, <1>4, <1>6 DEF Kept
<1>11. QED
  BY <1>4, <1>7, <1>8, <1>9, <1>10

(* What instructions are. *)
LEMMA Instructions ==
  /\ \A op \in Ops, n \in Nat : INS(op, n) \in Insn /\ INS(op, n).op = op /\ INS(op, n).at = n
  /\ \A n, f \in Nat : CALL(n, f) \in Insn /\ CALL(n, f).op = "CALL" /\ CALL(n, f).at = n
  /\ \A b \in Nat : JMP(b) \in Insn /\ JMP(b).op = "JMP"
  /\ \A n, b, e \in Nat : BR(n, b, e) \in Insn /\ BR(n, b, e).op = "BR"
  /\ \A n \in Nat : RETR(n) \in Insn /\ RETR(n).op = "RETR"
  /\ RET \in Insn /\ RET.op = "RET"
BY DEF INS, CALL, JMP, BR, RETR, RET, Insn, Ops, Visible, TerminatorOps, Null
-----------------------------------------------------------------------------
(* The places of the nodes stay, but for the one after block z. *)
Agree(a, w, w2, z) ==
  \A n \in 1..Len(a) :
    /\ w2[n].first = w[n].first /\ w2[n].cond = w[n].cond
    /\ w2[n].body = w[n].body /\ w2[n].alt = w[n].alt
    /\ n # z => w2[n].after = w[n].after

(* z is 0 or a block statement: the one node whose end may move            *)
BlockOr0(a, z) == z \in 0..Len(a) /\ (z # 0 => a[z].kind = "block")

(* What Entered, Left and the others say stays so when the tree and the    *)
(* code grow.                                                              *)
LEMMA EnteredStays ==
  ASSUME NEW a \in Seq(NodeType), Tree(a), NEW a2, Prefix(a, a2), NEW c, NEW c2, Grown(c, c2),
         NEW w, NEW w2, NEW z, Agree(a, w, w2, z), BlockOr0(a, z),
         NEW n \in 1..Len(a), Entered(a, c, w, n)
  PROVE  Entered(a2, c2, w2, n)
<1> DEFINE kind == a[n].kind
<1>1. /\ Len(a) \in Nat /\ a2[n] = a[n]
      /\ w2[n].first = w[n].first /\ w2[n].cond = w[n].cond /\ w2[n].body = w[n].body /\ w2[n].alt = w[n].alt
      /\ kind # "block" => w2[n].after = w[n].after
  BY NodeFacts DEF Prefix, Agree, BlockOr0
<1>2. /\ \A q, i : Holds(c, q, i) => Holds(c2, q, i)
      /\ \A q, r : Leads(c, q, r) => Leads(c2, q, r)
      /\ \A q, m, t, e : BranchAt(c, q, m, t, e) => BranchAt(c2, q, m, t, e)
  BY GrownKeeps
<1>3. kind \notin Untranslatable
  BY DEF Entered
<1>4. kind \in {"expr", "declinit"} => Holds(c2, w2[n].first, INS("EXPR", n)) /\ w2[n].after = Succ(w2[n].first)
  BY <1>1, <1>2 DEF Entered
<1>5. kind = "call" => /\ \E f \in Nat : Holds(c2, w2[n].first, CALL(n, f))
                       /\ w2[n].after = Succ(w2[n].first)
  BY <1>1, <1>2 DEF Entered
<1>6. kind = "decl" => w2[n].after = w2[n].first
  BY <1>1 DEF Entered
<1>7. kind = "return" => Holds(c2, w2[n].first, INS("EXPR", n)) /\ Holds(c2, Succ(w2[n].first), RETR(n))
  BY <1>1, <1>2 DEF Entered
<1>8. ASSUME NEW l \in 1..(n - 1), JumpsTo(a, c, w, n, l)
      PROVE  JumpsTo(a2, c2, w2, n, l)
  <2>1. l \in 1..Len(a)
    BY <1>1
  <2>2. a[l].kind \in Loops /\ a2[l] = a[l]
    BY <1>8, <2>1 DEF JumpsTo, Prefix
  <2>3. l # z
    BY <2>1, <2>2 DEF BlockOr0, Loops
  <2>4. w2[l].after = w[l].after /\ ContinueAt(a2, w2, l) = ContinueAt(a, w, l)
    BY <2>1, <2>2, <2>3 DEF Agree, ContinueAt
  <2>5. l = EnclosingLoop(a2, n) \/ StaleIn(a2, n)
    BY <1>8, PrefixKeeps DEF JumpsTo
  <2>6. Leads(c, w[n].first, IF a[n].kind = "break" THEN w[l].after ELSE ContinueAt(a, w, l))
    BY <1>8 DEF JumpsTo
  <2>7. Leads(c2, w2[n].first, IF a2[n].kind = "break" THEN w2[l].after ELSE ContinueAt(a2, w2, l))
    BY <1>1, <1>2, <2>4, <2>6
  <2>8. QED
    BY <2>2, <2>5, <2>7 DEF JumpsTo
<1>9. kind \in {"break", "continue"} => \E l \in 1..(n - 1) : JumpsTo(a2, c2, w2, n, l)
  <2>1. kind \in {"break", "continue"} => \E l \in 1..(n - 1) : JumpsTo(a, c, w, n, l)
    BY DEF Entered
  <2>2. QED
    BY <1>8, <2>1
<1>10. kind = "block" => Leads(c2, w2[n].first, w2[n].alt)
  BY <1>1, <1>2 DEF Entered
<1>11. kind = "if" => BranchAt(c2, w2[n].first, n, w2[n].body, w2[n].alt)
  BY <1>1, <1>2 DEF Entered
<1>12. kind = "while" => Leads(c2, w2[n].first, w2[n].cond) /\ BranchAt(c2, w2[n].cond, n, w2[n].body, w2[n].after)
  BY <1>1, <1>2 DEF Entered
<1>13. kind = "do" => Leads(c2, w2[n].first, w2[n].body)
  BY <1>1, <1>2 DEF Entered
<1>14. kind = "for" => /\ Holds(c2, w2[n].first, INS("INIT", n))
                       /\ Leads(c2, Succ(w2[n].first), w2[n].cond)
                       /\ BranchAt(c2, w2[n].cond, n, w2[n].body, w2[n].after)
  BY <1>1, <1>2 DEF Entered
<1>15. a2[n].kind = kind
  BY <1>1
<1> HIDE DEF kind
<1>16. QED
  BY <1>3, <1>4, <1>5, <1>6, <1>7, <1>9, <1>10, <1>11, <1>12, <1>13, <1>14, <1>15 DEF Entered

(* Nodes in the order of their siblings: one that is still open is the last. *)
LEMMA OpenIsLast ==
  ASSUME NEW a \in Seq(NodeType), Tree(a), NEW m \in 1..Len(a), Inside(a, Len(a), m),
         NEW n \in 1..Len(a), a[n].parent = a[m].parent
  PROVE  n <= m
<1>1. Len(a) \in Nat
  BY NodeFacts
<1>2. a[m].parent < m
  BY DEF Tree
<1>3. SUFFICES ASSUME n > m PROVE FALSE
  BY <1>1
<1>4. n \in (m + 1)..Len(a)
  BY <1>1, <1>3
<1>5. a[n].parent >= m
  BY <1>4 DEF Inside
<1>6. QED
  BY <1>1, <1>2, <1>5 DEF Tree

(* Children are nodes, and come after their parent.                        *)
LEMMA ChildrenOf ==
  ASSUME NEW a \in Seq(NodeType), Tree(a), NEW n, NEW role
  PROVE  Children(a, n, role) \in SUBSET (1..Len(a)) /\ \A m \in Children(a, n, role) : m > n
BY DEF Children, Tree

(* A node opens at the place it did. *)
LEMMA StartedStays ==
  ASSUME NEW a \in Seq(NodeType), Tree(a), NEW a2, Prefix(a, a2),
         NEW w, NEW w2, NEW z, Agree(a, w, w2, z), z # 0 => z \in 1..Len(a) /\ Inside(a, Len(a), z),
         NEW n \in 1..Len(a), Started(a, w, n)
  PROVE  Started(a2, w2, n)
<1> DEFINE p == a[n].parent
           earlier == {m \in Children(a, p, a[n].role) : m < n}
<1>1. Len(a) \in Nat /\ a2[n] = a[n]
  BY NodeFacts DEF Prefix
<1>2. {m \in Children(a2, p, a[n].role) : m < n} = earlier
  <2>1. ASSUME NEW m, m < n PROVE m \in 1..Len(a2) <=> m \in 1..Len(a)
    BY <1>1, <2>1, NodeFacts DEF Prefix
  <2>2. QED
    BY <2>1 DEF Children, Prefix
<1>3. p # 0 => p \in 1..Len(a)
  BY <1>1 DEF Tree
<1>4. \A m \in earlier : w2[m].after = w[m].after
  <2> SUFFICES ASSUME NEW m \in earlier PROVE w2[m].after = w[m].after
    OBVIOUS
  <2>1. m \in 1..Len(a) /\ a[m].parent = p /\ m < n
    BY DEF Children
  <2>2. m # z
    BY <1>1, <2>1, OpenIsLast
  <2>3. QED
    BY <2>1, <2>2 DEF Agree
<1>5. p # 0 => /\ w2[n].first = w[n].first
               /\ StartOf(w2[p], a[n].role) = StartOf(w[p], a[n].role)
  BY <1>3 DEF Agree, StartOf
<1>6. p # 0 => /\ earlier = {} => w[n].first = StartOf(w[p], a[n].role)
               /\ \A m \in earlier : Latest(earlier, m) => w[n].first = w[m].after
  BY DEF Started
<1>7. p # 0 => /\ earlier = {} => w2[n].first = StartOf(w2[p], a[n].role)
               /\ \A m \in earlier : Latest(earlier, m) => w2[n].first = w2[m].after
  BY <1>4, <1>5, <1>6
<1> HIDE DEF earlier
<1>8. QED
  BY <1>1, <1>2, <1>7 DEF Started

(* What is known of a node that has been left. *)
LEMMA LeftStays ==
  ASSUME NEW a \in Seq(NodeType), NEW a2, Prefix(a, a2), NEW c, NEW c2, Grown(c, c2),
         NEW w, NEW w2, NEW z, Agree(a, w, w2, z), NEW n \in 1..Len(a), n # z,
         \A role : Children(a2, n, role) = Children(a, n, role) /\ z \notin Children(a, n, role),
         Left(a, c, w, n)
  PROVE  Left(a2, c2, w2, n)
<1> DEFINE kind == a[n].kind
           kids(role) == Children(a, n, role)
<1>1. /\ a2[n].kind = kind
      /\ w2[n].first = w[n].first /\ w2[n].cond = w[n].cond /\ w2[n].body = w[n].body
      /\ w2[n].alt = w[n].alt /\ w2[n].after = w[n].after
  BY DEF Prefix, Agree
<1>2. /\ \A q, i : Holds(c, q, i) => Holds(c2, q, i)
      /\ \A q, r : Leads(c, q, r) => Leads(c2, q, r)
      /\ \A q, m, t, e : BranchAt(c, q, m, t, e) => BranchAt(c2, q, m, t, e)
  BY GrownKeeps
<1>3. \A role : \A m \in kids(role) : w2[m].after = w[m].after
  <2>1. \A role : \A m \in kids(role) : m \in 1..Len(a) /\ m # z
    BY DEF Children
  <2>2. QED
    BY <2>1 DEF Agree
<1>4. \A role : Children(a2, n, role) = kids(role)
  OBVIOUS
<1> HIDE DEF kids
<1>5. kind = "fun" => kids("fun") # {} /\ \A m \in kids("fun") : Holds(c2, w2[m].after, RET)
  BY <1>1, <1>2, <1>3 DEF Left, kids
<1>6. kind = "block" => /\ Leads(c2, w2[n].alt, w2[n].body)
                        /\ kids("block") = {} => w2[n].after = w2[n].body
                        /\ \A m \in kids("block") : Latest(kids("block"), m) => w2[m].after = w2[n].after
  BY <1>1, <1>2, <1>3 DEF Left, kids
<1>7. kind = "if" => /\ kids("then") # {}
                     /\ \A m \in kids("then") : Leads(c2, w2[m].after, w2[n].after)
                     /\ \A m \in kids("else") : Leads(c2, w2[m].after, w2[n].after)
                     /\ kids("else") = {} => Leads(c2, w2[n].alt, w2[n].after)
  BY <1>1, <1>2, <1>3 DEF Left, kids
<1>8. kind = "while" => /\ kids("while") # {}
                        /\ \A m \in kids("while") : Leads(c2, w2[m].after, w2[n].cond)
  BY <1>1, <1>2, <1>3 DEF Left, kids
<1>9. kind = "do" => /\ kids("do") # {}
                     /\ \A m \in kids("do") : Leads(c2, w2[m].after, w2[n].cond)
                     /\ BranchAt(c2, w2[n].cond, n, w2[n].body, w2[n].after)
  BY <1>1, <1>2, <1>3 DEF Left, kids
<1>10. kind = "for" => /\ kids("for") # {}
                       /\ \A m \in kids("for") : Leads(c2, w2[m].after, w2[n].alt)
                       /\ Holds(c2, w2[n].alt, INS("INC", n))
                       /\ Leads(c2, Succ(w2[n].alt), w2[n].cond)
  BY <1>1, <1>2, <1>3 DEF Left, kids
<1> HIDE DEF kind
<1>11. QED
  BY <1>1, <1>4, <1>5, <1>6, <1>7, <1>8, <1>9, <1>10 DEF Left

(* A visit that goes on. *)
LEMMA FrameStays ==
  ASSUME NEW a \in Seq(NodeType), NEW a2, Prefix(a, a2), NEW c, NEW c2, NEW T, Kept(c, c2, T),
         NEW w, NEW w2, NEW z, Agree(a, w, w2, z), NEW fr, fr.at \in 1..Len(a), fr.at # z,
         \A role : Children(a2, fr.at, role) = Children(a, fr.at, role),
         fr.role = "else" => z \notin Children(a, fr.at, "then"),
         \A x \in Pending(fr) : x \in 1..Len(c) /\ x \notin T,
         FrameAt(a, c, w, fr)
  PROVE  FrameAt(a2, c2, w2, fr)
<1> DEFINE n == fr.at
           kids(role) == Children(a, n, role)
<1>1. /\ a2[n].kind = a[n].kind
      /\ w2[n].first = w[n].first /\ w2[n].cond = w[n].cond /\ w2[n].body = w[n].body
      /\ w2[n].alt = w[n].alt /\ w2[n].after = w[n].after
  BY DEF Prefix, Agree
<1>2. \A q, r : Leads(c, q, r) => Leads(c2, q, r)
  BY GrownKeeps DEF Kept
<1>3. \A x \in Pending(fr) : c2[x] = <<>>
  BY DEF FrameAt, Kept
<1>4. fr.role = "else" => \A m \in kids("then") : Leads(c2, w2[m].after, w2[n].after)
  <2> SUFFICES ASSUME fr.role = "else", NEW m \in kids("then") PROVE Leads(c2, w2[m].after, w2[n].after)
    OBVIOUS
  <2>1. m \in 1..Len(a) /\ m # z
    BY DEF Children
  <2>2. w2[m].after = w[m].after
    BY <2>1 DEF Agree
  <2>3. Leads(c, w[m].after, w[n].after)
    BY DEF FrameAt
  <2>4. QED
    BY <1>1, <1>2, <2>2, <2>3
<1>5. \A role : Children(a2, n, role) = kids(role)
  OBVIOUS
<1> HIDE DEF kids
<1>6. QED
  BY <1>1, <1>3, <1>4, <1>5 DEF FrameAt, kids

LEMMA ContextStays ==
  ASSUME NEW a \in Seq(NodeType), NEW a2, Prefix(a, a2), NEW c, NEW c2,
         NEW w, NEW w2, NEW z, Agree(a, w, w2, z), BlockOr0(a, z),
         NEW cx, NEW held, held.block \in 1..Len(a),
         held.loop # 0 => held.loop \in 1..Len(a) /\ a[held.loop].kind \in Loops,
         SilentBlock(c2, cx.localsBlock),
         ContextAt(a, c, w, cx, held)
  PROVE  ContextAt(a2, c2, w2, cx, held)
<1>1. w2[held.block].alt = w[held.block].alt /\ w2[held.block].body = w[held.block].body
  BY DEF Agree
<1>2. ASSUME held.loop # 0
      PROVE  /\ w2[held.loop].after = w[held.loop].after
             /\ ContinueAt(a2, w2, held.loop) = ContinueAt(a, w, held.loop)
  <2>1. held.loop \in 1..Len(a) /\ a[held.loop].kind \in Loops /\ a2[held.loop] = a[held.loop]
    BY <1>2 DEF Prefix
  <2>2. held.loop # z
    BY <2>1 DEF BlockOr0, Loops
  <2>3. QED
    BY <2>1, <2>2 DEF Agree, ContinueAt
<1>3. QED
  BY <1>1, <1>2 DEF ContextAt

LEMMA PlacedStays ==
  ASSUME NEW a \in Seq(NodeType), NEW a2, Prefix(a, a2), NEW c,
         NEW w, NEW w2, NEW z, Agree(a, w, w2, z), AllPlaced(a, c, w)
  PROVE  AllPlaced(a2, c, w2)
<1>0. Len(a) \in Nat
  BY NodeFacts
<1>1. SUFFICES ASSUME NEW i, NEW q, Placed(a, w, i, q) PROVE Placed(a2, w2, i, q)
  BY DEF AllPlaced
<1>2. i.at \in 1..Len(a) /\ i.op \in Parts(a[i.at].kind) /\ q = PartAt(a, w, i.at, i.op)
  BY <1>1 DEF Placed
<1>3. i.at \in 1..Len(a2) /\ a2[i.at] = a[i.at]
  BY <1>0, <1>2, NodeFacts DEF Prefix
<1>4. PartAt(a2, w2, i.at, i.op) = PartAt(a, w, i.at, i.op)
  BY <1>2, <1>3 DEF PartAt, Agree
<1>5. QED
  BY <1>2, <1>3, <1>4 DEF Placed

(* append of an instruction where its part of a node is *)
LEMMA PlacedOn ==
  ASSUME NEW a, NEW c \in Seq(Seq(Insn)), NEW w, AllPlaced(a, c, w),
         NEW b \in 1..Len(c), NEW i \in Insn, NEW d, d = append(c, b, i),
         i.op \in Visible => Placed(a, w, i, Here(c, b))
  PROVE  AllPlaced(a, d, w)
<1>1. SUFFICES ASSUME NEW q \in Positions(d), InsnAt(d, q).op \in Visible
               PROVE  Placed(a, w, InsnAt(d, q), q)
  BY DEF AllPlaced
<1>2. Kept(c, d, {b}) /\ Holds(d, Here(c, b), i) /\ (q \in Positions(c) \/ q = Here(c, b))
  BY AppendKeeps
<1>3. CASE q \in Positions(c)
  <2>1. InsnAt(d, q) = InsnAt(c, q)
    BY <1>2, <1>3 DEF Kept, Grown
  <2>2. QED
    BY <1>1, <1>3, <2>1 DEF AllPlaced
<1>4. CASE q = Here(c, b)
  BY <1>1, <1>2, <1>4 DEF Holds
<1>5. QED
  BY <1>2, <1>3, <1>4

LEMMA PlacedAdding ==
  ASSUME NEW a, NEW c \in Seq(Seq(Insn)), NEW w, AllPlaced(a, c, w),
         NEW k \in Nat, NEW d, d = addBasicBlocks(c, k)
  PROVE  AllPlaced(a, d, w)
<1>1. Positions(d) = Positions(c) /\ Grown(c, d)
  BY AddingKeeps DEF Kept
<1>2. QED
  BY <1>1 DEF AllPlaced, Grown

LEMMA StartsStay ==
  ASSUME NEW a \in Seq(NodeType), NEW a2, Prefix(a, a2), NEW c, NEW c2, Grown(c, c2),
         NEW w, NEW w2, NEW z, Agree(a, w, w2, z),
         \A n \in 1..Len(a2) : a2[n].kind = "fun" => n \in 1..Len(a),
         NEW es, Starts(a, c, w, es)
  PROVE  Starts(a2, c2, w2, es)
<1>0. Len(a) \in Nat /\ Len(a2) \in Nat /\ Len(a) <= Len(a2)
  BY NodeFacts DEF Prefix
<1>1. ASSUME NEW b, NEW n, FunAt(a, c, w, b, n) PROVE n \in 1..Len(a2) /\ FunAt(a2, c2, w2, b, n)
  <2>1. n \in 1..Len(a) /\ a2[n] = a[n] /\ w2[n].body = w[n].body
    BY <1>1 DEF FunAt, Prefix, Agree
  <2>2. Leads(c2, Start(b), w[n].body)
    BY <1>1, GrownKeeps DEF FunAt
  <2>3. n \in 1..Len(a2)
    BY <1>0, <2>1
  <2>4. QED
    BY <1>1, <2>1, <2>2, <2>3 DEF FunAt
<1>2. PICK fn \in Seq(Nat) : /\ Len(fn) = Len(es) /\ FunsInOrder(a, fn)
                            /\ \A f \in 1..Len(es) : FunAt(a, c, w, es[f], fn[f])
  BY DEF Starts
<1>3. \A f \in 1..Len(es) : FunAt(a2, c2, w2, es[f], fn[f])
  BY <1>1, <1>2
<1>4. FunsInOrder(a2, fn)
  <2>1. ASSUME NEW n \in 1..Len(a2), a2[n].kind = "fun" PROVE n \in 1..Len(a) /\ a[n].kind = "fun"
    BY <2>1 DEF Prefix
  <2>2. QED
    BY <1>2, <2>1 DEF FunsInOrder
<1>5. QED
  BY <1>2, <1>3, <1>4 DEF Starts
-----------------------------------------------------------------------------
(* What IInv says of the state, for the simulation.                        *)
Ground(a, c, es, cs, vs, b) ==
  /\ a \in Seq(NodeType) /\ c \in Seq(Seq(Insn)) /\ es \in Seq(Nat) /\ es # <<>>
  /\ cs \in Seq(ContextType) /\ Len(es) <= Len(cs)
  /\ vs \in Seq(FrameType) /\ vs # <<>>
  /\ \A i \in 1..Len(vs) : vs[i].role = "fun" <=> i = 1
  /\ Len(vs) >= 2 => vs[2].role = "block" /\ Len(cs) > Len(es)
  /\ b \in 1..Len(c)
  /\ \A i \in 1..Len(vs) : \A x \in Pending(vs[i]) : x \in 1..Len(c) /\ x # b
  /\ \A i, j \in 1..Len(vs) : i # j => Pending(vs[i]) \cap Pending(vs[j]) = {}
  /\ \A k \in (Len(es) + 1)..Len(cs) : /\ cs[k].localsBlock \in 1..Len(c) /\ cs[k].localsBlock # b
                                       /\ \A i \in 1..Len(vs) : cs[k].localsBlock \notin Pending(vs[i])
  /\ \A k, l \in (Len(es) + 1)..Len(cs) : k # l => cs[k].localsBlock # cs[l].localsBlock

(* The path has the nodes of the stack.                                    *)
LEMMA PathIs ==
  ASSUME NEW vs \in Seq(FrameType)
  PROVE  /\ PathOf(vs) \in Seq(Nat) /\ Len(PathOf(vs)) = Len(vs) /\ Len(vs) \in Nat
         /\ \A i \in 1..Len(vs) : PathOf(vs)[i] = vs[i].at /\ vs[i] \in FrameType /\ vs[i].at \in Nat
<1>1. Len(vs) \in Nat /\ \A i \in 1..Len(vs) : vs[i] \in FrameType
  BY LenProperties, ElementOfSeq
<1>2. \A fr \in FrameType : fr.at \in Nat
  BY DEF FrameType
<1>3. \A i \in 1..Len(vs) : vs[i].at \in Nat
  BY <1>1, <1>2
<1>4. PathOf(vs) = [i \in 1..Len(vs) |-> vs[i].at]
  BY DEF PathOf
<1>5. PathOf(vs) \in Seq(Nat) /\ Len(PathOf(vs)) = Len(vs)
  BY <1>1, <1>3, <1>4
<1>6. QED
  BY <1>1, <1>3, <1>4, <1>5

(* The top of a stack is the last of it.                                   *)
LEMMA TopIs ==
  ASSUME NEW vs \in Seq(FrameType), vs # <<>>
  PROVE  Len(vs) \in 1..Len(vs) /\ Last(vs) = vs[Len(vs)] /\ Last(vs) \in FrameType
BY FrontLast

(* The invariant of the translator gives the ground.                       *)
LEMMA GroundNow ==
  ASSUME IInv, visits # <<>>
  PROVE  Ground(ast, code, entries, contexts, visits, bb)
<1> DEFINE n == Len(code)
           e == Len(entries)
           m == Cardinality(BlockVisits(visits))
           B == Current(entries, n)
           P == PendingOf(visits)
           L == LocalsOf(contexts, e)
<1>1. TypeOK
  BY DEF IInv
<1>2. /\ n \in Nat /\ e \in Nat \ {0} /\ n + 0 = n
      /\ bb \in OpenBlocks(code) /\ OpenBlocks(code) \subseteq 1..n
      /\ VisitsOK(visits, B) /\ m \in Nat /\ ContextsOK(contexts, e, m, B)
      /\ Balanced(OpenBlocks(code), P, L, bb)
  <2>1. 0 \in Nat
    OBVIOUS
  <2>2. /\ n \in Nat /\ e \in Nat \ {0} /\ bb \in OpenBlocks(code) /\ OpenBlocks(code) \subseteq 1..n
        /\ VisitsOK(visits, Current(entries, n + 0)) /\ m \in Nat
        /\ ContextsOK(contexts, e, m, Current(entries, n + 0))
        /\ Balanced(OpenBlocks(code), P, L, bb)
    BY <2>1, Ready
  <2>3. n + 0 = n
    BY <2>2
  <2>4. QED
    BY <2>2, <2>3
<1>3. /\ ast \in Seq(NodeType) /\ code \in Seq(Seq(Insn)) /\ contexts \in Seq(ContextType) /\ visits \in Seq(FrameType)
      /\ entries \in Seq(Nat)
  <2>1. \A f \in 1..e : entries[f] \in Nat
    <3>1. entries \in Seq(1..n)
      BY <1>1 DEF TypeOK
    <3>2. \A f \in 1..e : entries[f] \in 1..n
      BY <3>1, ElementOfSeq
    <3>3. QED
      BY <1>2, <3>2
  <2>2. entries \in Seq(Nat)
    BY <1>1, <2>1, SeqRetyped DEF TypeOK
  <2>3. QED
    BY <1>1, <2>2 DEF TypeOK
<1>4. entries # <<>>
  BY <1>2
<1>5. Len(contexts) = e + m /\ \A i \in 1..Len(visits) : visits[i].role = "fun" <=> i = 1
  BY <1>2 DEF ContextsOK, VisitsOK
<1>6. Len(visits) >= 2 => visits[2].role = "block" /\ m >= 1
  <2>1. SUFFICES ASSUME Len(visits) >= 2 PROVE visits[2].role = "block" /\ m >= 1
    OBVIOUS
  <2>2. visits[2].role = "block" /\ Len(visits) \in Nat
    BY <1>2, <1>3, <2>1, LenProperties DEF VisitsOK
  <2>3. 2 \in BlockVisits(visits)
    BY <2>1, <2>2 DEF BlockVisits
  <2>4. IsFiniteSet(BlockVisits(visits)) /\ m \in Nat
    <3>1. 1 \in Int /\ Len(visits) \in Int
      BY <2>2
    <3>2. IsFiniteSet(1..Len(visits))
      BY <3>1, FS_Interval
    <3>3. BlockVisits(visits) \subseteq 1..Len(visits)
      BY DEF BlockVisits
    <3>4. QED
      BY <1>2, <3>2, <3>3, FS_Subset
  <2>5. m # 0
    BY <2>3, <2>4, FS_EmptySet
  <2>6. QED
    BY <2>2, <2>4, <2>5
<1>7. P \in Seq(SUBSET Nat) /\ Len(P) = Len(visits) /\ \A i \in 1..Len(visits) : P[i] = Pending(visits[i])
  BY <1>3, PendingType
<1>8. /\ bb \in 1..n
      /\ \A i \in 1..Len(visits) : \A x \in Pending(visits[i]) : x \in 1..n /\ x # bb
      /\ \A i, j \in 1..Len(visits) : i # j => Pending(visits[i]) \cap Pending(visits[j]) = {}
  <2>1. /\ \A i \in 1..Len(P) : P[i] \subseteq OpenBlocks(code) \ {bb}
        /\ \A i, j \in 1..Len(P) : i # j => P[i] \cap P[j] = {}
    BY <1>2 DEF Balanced
  <2>2. \A i \in 1..Len(visits) : Pending(visits[i]) \subseteq OpenBlocks(code) \ {bb}
    BY <1>7, <2>1
  <2>3. \A i, j \in 1..Len(visits) : i # j => Pending(visits[i]) \cap Pending(visits[j]) = {}
    BY <1>7, <2>1
  <2>4. QED
    BY <1>2, <2>2, <2>3
<1>9. Len(L) = m /\ \A k \in (e + 1)..Len(contexts) : k - e \in 1..Len(L) /\ L[k - e] = contexts[k].localsBlock
  <2>1. L = [k \in 1..m |-> contexts[e + k].localsBlock] /\ Len(contexts) - e = m
    BY <1>2, <1>5 DEF LocalsOf
  <2>2. Len(L) = m
    BY <1>2, <2>1
  <2>3. \A k \in (e + 1)..Len(contexts) : k - e \in 1..m /\ e + (k - e) = k
    BY <1>2, <1>5
  <2>4. QED
    BY <2>1, <2>2, <2>3
<1>10. \A k \in 1..Len(L) : L[k] \in OpenBlocks(code) \ {bb} /\ \A i \in 1..Len(P) : L[k] \notin P[i]
  BY <1>2 DEF Balanced
<1>11. \A k, l \in 1..Len(L) : k # l => L[k] # L[l]
  BY <1>2 DEF Balanced
<1>12. \A k \in (e + 1)..Len(contexts) :
         /\ contexts[k].localsBlock \in 1..n /\ contexts[k].localsBlock # bb
         /\ \A i \in 1..Len(visits) : contexts[k].localsBlock \notin Pending(visits[i])
  <2> TAKE k \in (e + 1)..Len(contexts)
  <2>1. k - e \in 1..Len(L) /\ L[k - e] = contexts[k].localsBlock
    BY <1>9
  <2>2. contexts[k].localsBlock \in OpenBlocks(code) \ {bb} /\ \A i \in 1..Len(P) : contexts[k].localsBlock \notin P[i]
    BY <1>10, <2>1
  <2>3. QED
    BY <1>2, <1>7, <2>2
<1>13. \A k, l \in (e + 1)..Len(contexts) : k # l => contexts[k].localsBlock # contexts[l].localsBlock
  <2> TAKE k, l \in (e + 1)..Len(contexts)
  <2>1. k # l => k - e # l - e
    BY <1>2, <1>5
  <2>2. QED
    BY <1>9, <1>11, <2>1
<1>14. e <= Len(contexts) /\ (m >= 1 => Len(contexts) > e)
  BY <1>2, <1>5
<1> HIDE DEF n, e, m, B, P, L
<1>15. QED
  BY <1>3, <1>4, <1>5, <1>6, <1>8, <1>12, <1>13, <1>14 DEF Ground, n, e
-----------------------------------------------------------------------------
(* The path of open nodes *)
LEMMA PathFacts ==
  ASSUME NEW a \in Seq(NodeType), Tree(a), NEW p \in Seq(Nat), Path(a, p)
  PROVE  /\ \A i, j \in 1..Len(p) : i <= j => p[i] <= p[j] /\ Inside(a, p[j], p[i])
         /\ \A i, j \in 1..Len(p) : p[i] = p[j] => i = j
<1>1. Len(p) \in Nat /\ Len(a) \in Nat /\ \A i \in 1..Len(p) : p[i] \in 1..Len(a)
  BY LenProperties, NodeFacts DEF Path
<1>2. ASSUME NEW i \in 1..Len(p), NEW j \in 1..Len(p), i <= j PROVE p[i] <= p[j]
  <2>1. i = j \/ i < j
    BY <1>1, <1>2
  <2>2. QED
    BY <1>1, <2>1 DEF Path
<1>3. ASSUME NEW i \in 1..Len(p), NEW j \in 1..Len(p), i <= j PROVE Inside(a, p[j], p[i])
  <2>1. Inside(a, Len(a), p[i])
    BY DEF Path
  <2>2. \A k \in (p[i] + 1)..p[j] : k \in (p[i] + 1)..Len(a)
    BY <1>1
  <2>3. QED
    BY <1>2, <1>3, <2>1, <2>2 DEF Inside
<1>4. ASSUME NEW i \in 1..Len(p), NEW j \in 1..Len(p), p[i] = p[j] PROVE i = j
  <2>1. i < j \/ j < i \/ i = j
    BY <1>1
  <2>2. QED
    BY <1>1, <1>4, <2>1 DEF Path
<1>5. QED
  BY <1>2, <1>3, <1>4

(* A node is added to the innermost open one. *)
LEMMA TreeGrows ==
  ASSUME NEW a \in Seq(NodeType), Tree(a), NEW p \in Seq(Nat), p # <<>>, Path(a, p),
         NEW x \in NodeType, x.parent = p[Len(p)], x.role \in RoleOf(a[x.parent].kind), x.kind # "fun",
         x.kind \in Loops => \E i \in 1..Len(p) : a[p[i]].kind = "block",
         NEW a2, a2 = Append(a, x)
  PROVE  /\ Prefix(a, a2) /\ Len(a2) = Len(a) + 1 /\ a2[Len(a) + 1] = x
         /\ Tree(a2)
         /\ \A i \in 1..Len(p) : p[i] \in 1..Len(a) /\ Inside(a2, Len(a) + 1, p[i])
         /\ Path(a2, p) /\ Path(a2, Append(p, Len(a) + 1))
<1> DEFINE new == Len(a) + 1
           N == Len(p)
<1>1. N \in Nat \ {0} /\ Len(a) \in Nat /\ \A i \in 1..N : p[i] \in 1..Len(a)
  BY LenProperties, EmptySeq, NodeFacts DEF Path
<1>2. /\ a2 \in Seq(NodeType) /\ Len(a2) = new /\ a2[new] = x
      /\ \A n \in 1..Len(a) : a2[n] = a[n]
  BY AppendProperties
<1>3. Prefix(a, a2)
  BY <1>1, <1>2 DEF Prefix
<1>4. \A n, m \in 1..Len(a) : Inside(a2, n, m) <=> Inside(a, n, m)
  BY <1>3, PrefixKeeps
<1>5. ASSUME NEW i \in 1..N PROVE Inside(a2, new, p[i])
  <2>1. Inside(a, Len(a), p[i]) /\ p[i] \in 1..Len(a)
    BY DEF Path
  <2>2. p[N] >= p[i]
    BY <1>1, PathFacts
  <2>3. ASSUME NEW k \in (p[i] + 1)..new PROVE a2[k].parent >= p[i]
    <3>1. CASE k = new
      BY <1>2, <2>2, <3>1
    <3>2. CASE k # new
      <4>1. k \in (p[i] + 1)..Len(a) /\ k \in 1..Len(a)
        BY <1>1, <2>1, <3>2
      <4>2. QED
        BY <1>2, <2>1, <4>1 DEF Inside
    <3>3. QED
      BY <3>1, <3>2
  <2>4. p[i] <= new
    BY <1>1, <2>1
  <2>5. QED
    BY <2>3, <2>4 DEF Inside
<1>6. Tree(a2)
  <2>1. ASSUME NEW n \in 1..Len(a)
        PROVE  /\ a2[n].parent \in 0..(n - 1)
               /\ a2[n].parent = 0 <=> a2[n].kind = "fun"
               /\ a2[n].parent # 0 => /\ Inside(a2, n, a2[n].parent)
                                      /\ a2[n].role \in RoleOf(a2[a2[n].parent].kind)
               /\ a2[n].kind \in Loops => \E b \in 1..(n - 1) : a2[b].kind = "block" /\ Inside(a2, n, b)
    <3>1. a2[n] = a[n]
      BY <1>2
    <3>2. /\ a[n].parent \in 0..(n - 1)
          /\ a[n].parent = 0 <=> a[n].kind = "fun"
          /\ a[n].parent # 0 => /\ Inside(a, n, a[n].parent)
                                /\ a[n].role \in RoleOf(a[a[n].parent].kind)
          /\ a[n].kind \in Loops => \E b \in 1..(n - 1) : a[b].kind = "block" /\ Inside(a, n, b)
      BY DEF Tree
    <3>3. \A b \in 1..(n - 1) : b \in 1..Len(a) /\ a2[b] = a[b] /\ (Inside(a2, n, b) <=> Inside(a, n, b))
      BY <1>1, <1>2, <1>4
    <3>4. QED
      BY <1>1, <3>1, <3>2, <3>3
  <2>2. /\ a2[new].parent \in 0..(new - 1)
        /\ a2[new].parent = 0 <=> a2[new].kind = "fun"
        /\ a2[new].parent # 0 => /\ Inside(a2, new, a2[new].parent)
                                 /\ a2[new].role \in RoleOf(a2[a2[new].parent].kind)
        /\ a2[new].kind \in Loops => \E b \in 1..(new - 1) : a2[b].kind = "block" /\ Inside(a2, new, b)
    <3>1. p[N] \in 1..Len(a) /\ Inside(a2, new, p[N]) /\ a2[p[N]] = a[p[N]]
      BY <1>1, <1>2, <1>5
    <3>2. \A i \in 1..N : p[i] \in 1..(new - 1) /\ a2[p[i]] = a[p[i]] /\ Inside(a2, new, p[i])
      BY <1>1, <1>2, <1>5
    <3>3. QED
      BY <1>1, <1>2, <3>1, <3>2
  <2>3. \A n \in 1..Len(a2) : n \in 1..Len(a) \/ n = new
    BY <1>1, <1>2
  <2> HIDE DEF new
  <2> SUFFICES ASSUME NEW n \in 1..Len(a2)
               PROVE  /\ a2[n].parent \in 0..(n - 1)
                      /\ a2[n].parent = 0 <=> a2[n].kind = "fun"
                      /\ a2[n].parent # 0 => /\ Inside(a2, n, a2[n].parent)
                                             /\ a2[n].role \in RoleOf(a2[a2[n].parent].kind)
                      /\ a2[n].kind \in Loops => \E b \in 1..(n - 1) : a2[b].kind = "block" /\ Inside(a2, n, b)
    BY DEF Tree
  <2>4. QED
    BY <2>1, <2>2, <2>3
<1>7. Path(a2, p)
  <2>1. \A i \in 1..N : p[i] \in 1..Len(a2) /\ Inside(a2, Len(a2), p[i]) /\ a2[p[i]] = a[p[i]]
    BY <1>1, <1>2, <1>5
  <2>2. QED
    BY <2>1 DEF Path
<1>8. Path(a2, Append(p, new))
  <2> DEFINE q == Append(p, new)
  <2>1. Len(q) = N + 1 /\ q[N + 1] = new /\ \A i \in 1..N : q[i] = p[i]
    BY <1>1, AppendProperties
  <2> HIDE DEF q
  <2>2. \A i \in 1..Len(q) : i \in 1..N \/ i = N + 1
    BY <1>1, <2>1
  <2>3. Inside(a2, new, new) /\ new \in 1..Len(a2)
    BY <1>1, <1>2 DEF Inside
  <2>4. \A i \in 1..Len(q) : q[i] \in 1..Len(a2) /\ Inside(a2, Len(a2), q[i])
    BY <1>2, <1>7, <2>1, <2>2, <2>3 DEF Path
  <2>5. \A i, j \in 1..Len(q) : i < j => q[i] < q[j]
    <3> TAKE i, j \in 1..Len(q)
    <3>1. CASE i \in 1..N /\ j \in 1..N
      BY <2>1, <3>1 DEF Path
    <3>2. CASE i \in 1..N /\ j = N + 1
      BY <1>1, <2>1, <3>2
    <3>3. CASE i = N + 1
      BY <1>1, <2>2, <3>3
    <3>4. QED
      BY <2>2, <3>1, <3>2, <3>3
  <2>6. \A i \in 1..Len(q) : a2[q[i]].parent = IF i = 1 THEN 0 ELSE q[i - 1]
    <3> TAKE i \in 1..Len(q)
    <3>1. CASE i \in 1..N
      <4>1. a2[p[i]].parent = IF i = 1 THEN 0 ELSE p[i - 1]
        BY <1>7, <3>1 DEF Path
      <4>2. i # 1 => i - 1 \in 1..N
        BY <1>1, <3>1
      <4>3. QED
        BY <2>1, <3>1, <4>1, <4>2
    <3>2. CASE i = N + 1
      <4>1. q[i] = new /\ i # 1 /\ i - 1 = N /\ N \in 1..N
        BY <1>1, <2>1, <3>2
      <4>2. QED
        BY <1>2, <2>1, <4>1
    <3>3. QED
      BY <2>2, <3>1, <3>2
  <2>7. QED
    BY <2>4, <2>5, <2>6 DEF Path, q
<1>9. QED
  BY <1>1, <1>2, <1>3, <1>5, <1>6, <1>7, <1>8

(* Contexts hold what they held when the tree grows.                       *)
LEMMA HeldStays ==
  ASSUME NEW a \in Seq(NodeType), Tree(a), NEW p \in Seq(Nat), Path(a, p), NEW a2, Prefix(a, a2),
         NEW e, NEW cs, NEW h, Held(a, p, e, cs, h)
  PROVE  Held(a2, p, e, cs, h)
<1>1. \A i \in 1..Len(p) : a2[p[i]] = a[p[i]]
  BY DEF Path, Prefix
<1>2. \A l \in 1..Len(a) : l \in 1..Len(a2) /\ a2[l] = a[l] /\ EnclosingBlock(a2, l) = EnclosingBlock(a, l)
  <2>1. Len(a) \in Nat /\ Len(a2) \in Nat /\ Len(a) <= Len(a2)
    BY NodeFacts DEF Prefix
  <2>2. \A l \in 1..Len(a) : l \in 1..Len(a2)
    BY <2>1
  <2>3. QED
    BY <2>2, PrefixKeeps DEF Prefix
<1>3. \A k \in (e + 1)..Len(cs) : h[k].loop # 0 =>
         /\ h[k].loop \in 1..Len(a2)
         /\ a2[h[k].loop].kind \in Loops
         /\ \E j \in (e + 1)..k : EnclosingBlock(a2, h[k].loop) = h[j].block
  <2> SUFFICES ASSUME NEW k \in (e + 1)..Len(cs), h[k].loop # 0
               PROVE  /\ h[k].loop \in 1..Len(a2)
                      /\ a2[h[k].loop].kind \in Loops
                      /\ \E j \in (e + 1)..k : EnclosingBlock(a2, h[k].loop) = h[j].block
    OBVIOUS
  <2>1. h[k].loop \in 1..Len(a) /\ a[h[k].loop].kind \in Loops
        /\ \E j \in (e + 1)..k : EnclosingBlock(a, h[k].loop) = h[j].block
    BY DEF Held, HeldTargets, HeldBlocks, HeldLoops, HeldInner
  <2>2. QED
    BY <1>2, <2>1
<1>4. \A k \in (e + 1)..Len(cs) : \E i \in 1..Len(p) : p[i] = h[k].block /\ a2[p[i]].kind = "block"
  <2>1. \A k \in (e + 1)..Len(cs) : \E i \in 1..Len(p) : p[i] = h[k].block /\ a[p[i]].kind = "block"
    BY DEF Held, HeldTargets, HeldBlocks, HeldLoops, HeldInner
  <2>2. QED
    BY <1>1, <2>1
<1>5. \A i \in 1..Len(p) : a2[p[i]].kind = "block" => \E k \in (e + 1)..Len(cs) : h[k].block = p[i]
  <2>1. \A i \in 1..Len(p) : a[p[i]].kind = "block" => \E k \in (e + 1)..Len(cs) : h[k].block = p[i]
    BY DEF Held, HeldTargets, HeldBlocks, HeldLoops, HeldInner
  <2>2. QED
    BY <1>1, <2>1
<1>6. \A k \in (e + 1)..Len(cs), i \in 1..Len(p) :
        a2[p[i]].kind \in Loops /\ (k = Len(cs) \/ p[i] < h[k + 1].block) => p[i] <= h[k].loop
  <2>1. \A k \in (e + 1)..Len(cs), i \in 1..Len(p) :
          a[p[i]].kind \in Loops /\ (k = Len(cs) \/ p[i] < h[k + 1].block) => p[i] <= h[k].loop
    BY DEF Held, HeldTargets, HeldBlocks, HeldLoops, HeldInner
  <2>2. QED
    BY <1>1, <2>1
<1>7. /\ h \in Seq(HeldType) /\ Len(h) = Len(cs)
      /\ \A k \in 1..e : h[k].loop = 0
      /\ \A k \in 1..Len(cs) : /\ h[k].loop = 0 <=> cs[k].breakBlock = Null
                               /\ h[k].loop = 0 <=> cs[k].continueBlock = Null
      /\ \A k, l \in (e + 1)..Len(cs) : k < l => h[k].block < h[l].block
  BY DEF Held, HeldTargets, HeldBlocks, HeldLoops, HeldInner
<1>8. QED
  BY <1>3, <1>4, <1>5, <1>6, <1>7 DEF Held, HeldTargets, HeldBlocks, HeldLoops, HeldInner
-----------------------------------------------------------------------------
(* the stack after the innermost visit() has met one more part             *)
ThisDone(vs) == [vs EXCEPT ![Len(vs)].done = TRUE]

(* what a statement may write to *)
Near(c, e, cs, b, c2, T) ==
  /\ Kept(c, c2, T)
  /\ \A y \in T : y = b \/ (Len(cs) > e /\ y = Last(cs).localsBlock)
  /\ Len(cs) > e /\ SilentBlock(c, Last(cs).localsBlock) => SilentBlock(c2, Last(cs).localsBlock)

(* A node x is added to the innermost visit of vs. *)
NewNode(a, vs, x) ==
  /\ x \in NodeType
  /\ x.kind \in Compound \cup Simple
  /\ x.parent = Last(vs).at
  /\ x.role = Last(vs).role
  /\ Last(vs).role = "fun" => x.kind = "block"
  /\ Last(vs).role = "block" \/ ~Last(vs).done

LEMMA ThisDoneIs ==
  ASSUME NEW vs \in Seq(FrameType), vs # <<>>
  PROVE  /\ ThisDone(vs) \in Seq(FrameType) /\ Len(ThisDone(vs)) = Len(vs) /\ ThisDone(vs) # <<>>
         /\ ThisDone(vs)[Len(vs)] \in FrameType
         /\ ThisDone(vs)[Len(vs)] = [Last(vs) EXCEPT !.done = TRUE]
         /\ ThisDone(vs)[Len(vs)].done = TRUE
         /\ \A i \in 1..Len(vs) : /\ i # Len(vs) => ThisDone(vs)[i] = vs[i]
                                 /\ ThisDone(vs)[i].at = vs[i].at
                                 /\ ThisDone(vs)[i].role = vs[i].role
         /\ PathOf(ThisDone(vs)) = PathOf(vs) /\ OpenNodes(ThisDone(vs)) = OpenNodes(vs)
<1> DEFINE n   == Len(vs)
           fr  == [vs[n] EXCEPT !.done = TRUE]
           vs2 == [vs EXCEPT ![n].done = TRUE]
<1>1. n \in Nat \ {0} /\ n \in 1..n /\ vs[n] \in FrameType /\ Last(vs) = vs[n]
  BY LenProperties, EmptySeq, ElementOfSeq, TopIs
<1>2. /\ fr \in FrameType /\ fr.at = vs[n].at /\ fr.role = vs[n].role /\ fr.done = TRUE
  BY <1>1 DEF FrameType
<1> HIDE DEF fr
<1>3. vs2 = [vs EXCEPT ![n] = fr]
  BY DEF fr
<1>4. /\ vs2 \in Seq(FrameType) /\ Len(vs2) = n
      /\ \A i \in 1..n : vs2[i] = IF i = n THEN fr ELSE vs[i]
  <2>1. vs \in Seq(FrameType) /\ n \in 1..Len(vs) /\ fr \in FrameType
    BY <1>1, <1>2
  <2>2. /\ [vs EXCEPT ![n] = fr] \in Seq(FrameType) /\ Len([vs EXCEPT ![n] = fr]) = Len(vs)
        /\ \A i \in 1..Len(vs) : [vs EXCEPT ![n] = fr][i] = IF i = n THEN fr ELSE vs[i]
    BY <2>1, ExceptSeq
  <2> HIDE DEF vs2
  <2>3. QED
    BY <1>3, <2>2
<1>5. ThisDone(vs) = vs2
  BY DEF ThisDone
<1> HIDE DEF vs2
<1>6. \A i \in 1..n : vs2[i].at = vs[i].at /\ vs2[i].role = vs[i].role
  BY <1>2, <1>4
<1>7. PathOf(vs2) = PathOf(vs) /\ OpenNodes(vs2) = OpenNodes(vs)
  BY <1>4, <1>6 DEF PathOf, OpenNodes
<1>8. vs2 # <<>>
  BY <1>1, <1>4, EmptySeq
<1>9. fr = [Last(vs) EXCEPT !.done = TRUE]
  BY <1>1 DEF fr
<1>10. QED
  BY <1>1, <1>2, <1>4, <1>5, <1>6, <1>7, <1>8, <1>9

LEMMA ContextsStay ==
  ASSUME NEW a, NEW c, NEW es, NEW cs, NEW vs, NEW b, Ground(a, c, es, cs, vs, b),
         NEW h, NEW w, Sim(a, c, es, cs, vs, b, h, w),
         NEW a2, Prefix(a, a2), NEW c2, NEW w2, NEW z, Agree(a, w, w2, z), BlockOr0(a, z),
         NEW k \in (Len(es) + 1)..Len(cs), SilentBlock(c2, cs[k].localsBlock)
  PROVE  ContextAt(a2, c2, w2, cs[k], h[k])
<1>1. a \in Seq(NodeType) /\ Held(a, PathOf(vs), Len(es), cs, h) /\ Path(a, PathOf(vs))
      /\ ContextAt(a, c, w, cs[k], h[k])
  BY DEF Ground, Sim
<1> DEFINE p == PathOf(vs)
           e == Len(es)
           held == h[k]
<1>2. \E i \in 1..Len(p) : p[i] = held.block
  BY <1>1 DEF Held, HeldTargets, HeldBlocks, HeldLoops, HeldInner
<1>3. held.block \in 1..Len(a)
  BY <1>1, <1>2 DEF Path
<1>4. held.loop # 0 => held.loop \in 1..Len(a) /\ a[held.loop].kind \in Loops
  BY <1>1 DEF Held, HeldTargets, HeldBlocks, HeldLoops, HeldInner
<1> HIDE DEF p, held
<1>5. ContextAt(a, c, w, cs[k], held)
  BY <1>1 DEF held
<1>6. ContextAt(a2, c2, w2, cs[k], held)
  BY <1>1, <1>3, <1>4, <1>5, ContextStays
<1>7. QED
  BY <1>6 DEF held

(* What every visit that adds a node x at s has in common.                 *)
AddsNode(a, c, es, cs, vs, b, h, w, x, a2, s, w2, c2) ==
  /\ Ground(a, c, es, cs, vs, b)
  /\ Sim(a, c, es, cs, vs, b, h, w)
  /\ NewNode(a, vs, x)
  /\ a2 = Append(a, x)
  /\ s \in Where
  /\ s.first = Here(c, b)
  /\ w2 = Append(w, s)
  /\ \E T : Near(c, Len(es), cs, b, c2, T)

(* ... and what is so then, whatever the node is *)
NodeIsAdded(a, c, es, cs, vs, h, w, x, a2, s, w2, c2) ==
  /\ Len(a) \in Nat /\ Len(a2) = Len(a) + 1 /\ a2[Len(a) + 1] = x
  /\ Tree(a2) /\ Prefix(a, a2)
  /\ Agree(a, w, w2, 0) /\ w2 \in Seq(Where) /\ Len(w2) = Len(a2) /\ w2[Len(a) + 1] = s
  /\ Path(a2, PathOf(vs)) /\ Path(a2, Append(PathOf(vs), Len(a) + 1))
  /\ Held(a2, PathOf(vs), Len(es), cs, h)
  /\ \A n \in 1..Len(a) : Entered(a2, c2, w2, n) /\ Started(a2, w2, n)
  /\ Started(a2, w2, Len(a) + 1)
  /\ \A n \in 1..Len(a) : n \notin OpenNodes(vs) => Left(a2, c2, w2, n)
  /\ \A i \in 1..Len(vs) : FrameAt(a2, c2, w2, ThisDone(vs)[i])
  /\ \A k \in (Len(es) + 1)..Len(cs) : ContextAt(a2, c2, w2, cs[k], h[k])
  /\ AllPlaced(a2, c, w2)
  /\ Starts(a2, c2, w2, es)
  /\ Len(a) + 1 \in Children(a2, Last(vs).at, Last(vs).role)
  /\ \A m \in Children(a2, Last(vs).at, Last(vs).role) : m <= Len(a) + 1

(* Such a visit keeps the simulation.                                      *)
LEMMA AddSim ==
  ASSUME NEW a, NEW c, NEW es, NEW cs, NEW vs, NEW b, NEW h, NEW w, NEW x, NEW a2, NEW s, NEW w2, NEW c2,
         AddsNode(a, c, es, cs, vs, b, h, w, x, a2, s, w2, c2)
  PROVE  NodeIsAdded(a, c, es, cs, vs, h, w, x, a2, s, w2, c2)
<1>0. PICK T : Near(c, Len(es), cs, b, c2, T)
  BY DEF AddsNode
<1>00. /\ Ground(a, c, es, cs, vs, b)
       /\ Sim(a, c, es, cs, vs, b, h, w)
       /\ NewNode(a, vs, x)
       /\ a2 = Append(a, x)
       /\ s \in Where
       /\ s.first = Here(c, b)
       /\ w2 = Append(w, s)
  BY DEF AddsNode
<1> DEFINE p == PathOf(vs)
           e == Len(es)
           new == Len(a) + 1
           N == Len(vs)
           top == Last(vs)
<1>1. /\ a \in Seq(NodeType) /\ c \in Seq(Seq(Insn)) /\ es \in Seq(Nat) /\ cs \in Seq(ContextType)
      /\ vs \in Seq(FrameType) /\ vs # <<>> /\ b \in 1..Len(c)
  BY <1>0, <1>00 DEF Ground
<1>2. /\ Tree(a) /\ Path(a, p) /\ Held(a, p, e, cs, h) /\ Stacked(a, vs) /\ Laid(a, c, vs, w)
      /\ ControlAt(a, c, w, top, b) /\ AllPlaced(a, c, w) /\ Starts(a, c, w, es)
  BY <1>0, <1>00, <1>1 DEF Sim
<1>3. /\ p \in Seq(Nat) /\ Len(p) = N /\ N \in Nat
      /\ \A i \in 1..N : p[i] = vs[i].at /\ vs[i] \in FrameType /\ vs[i].at \in Nat
  BY <1>1, PathIs
<1>4. N \in 1..N /\ top = vs[N] /\ top \in FrameType /\ p # <<>>
  <2>1. N \in 1..N /\ top = vs[N] /\ top \in FrameType
    BY <1>1, TopIs
  <2>2. p # <<>>
    BY <1>3, <2>1, EmptySeq
  <2>3. QED
    BY <2>1, <2>2
<1>5. x \in NodeType /\ x.parent = p[N] /\ x.role = top.role /\ x.kind # "fun"
      /\ top.role \in RoleOf(a[p[N]].kind)
  <2>1. FrameAt(a, c, w, top)
    BY <1>2, <1>4 DEF Laid
  <2>2. top.at = p[N]
    BY <1>3, <1>4
  <2>3. x \in NodeType /\ x.parent = p[N] /\ x.role = top.role /\ x.kind # "fun"
    BY <1>0, <1>00, <2>2 DEF NewNode, Compound, Simple
  <2>4. QED
    BY <2>1, <2>2, <2>3 DEF FrameAt
<1>6. x.kind \in Loops => \E i \in 1..N : a[p[i]].kind = "block"
  <2> SUFFICES ASSUME x.kind \in Loops PROVE \E i \in 1..N : a[p[i]].kind = "block"
    OBVIOUS
  <2>1. N # 1
    BY <1>0, <1>00, <1>4 DEF NewNode, Loops, Ground
  <2>2. N >= 2 /\ 2 \in 1..N
    BY <1>3, <1>4, <2>1
  <2>3. vs[2].role = "block" /\ FrameAt(a, c, w, vs[2])
    BY <1>0, <1>00, <1>2, <2>2 DEF Ground, Laid
  <2>4. a[vs[2].at].kind = "block"
    BY <2>3 DEF FrameAt, RoleOf
  <2>5. QED
    BY <1>3, <2>2, <2>4
<1>7. /\ Prefix(a, a2) /\ Len(a2) = new /\ a2[new] = x
      /\ Tree(a2)
      /\ \A i \in 1..N : p[i] \in 1..Len(a) /\ Inside(a2, new, p[i])
      /\ Path(a2, p) /\ Path(a2, Append(p, new))
  <2> HIDE DEF p, N
  <2>1. /\ a \in Seq(NodeType) /\ Tree(a) /\ p \in Seq(Nat) /\ p # <<>> /\ Path(a, p)
        /\ x \in NodeType /\ x.parent = p[Len(p)] /\ x.role \in RoleOf(a[x.parent].kind) /\ x.kind # "fun"
        /\ x.kind \in Loops => \E i \in 1..Len(p) : a[p[i]].kind = "block"
        /\ a2 = Append(a, x)
    BY <1>0, <1>00, <1>1, <1>2, <1>3, <1>4, <1>5, <1>6
  <2>2. /\ Prefix(a, a2) /\ Len(a2) = Len(a) + 1 /\ a2[Len(a) + 1] = x
        /\ Tree(a2)
        /\ \A i \in 1..Len(p) : p[i] \in 1..Len(a) /\ Inside(a2, Len(a) + 1, p[i])
        /\ Path(a2, p) /\ Path(a2, Append(p, Len(a) + 1))
    BY <1>0, <1>00, <2>1, TreeGrows
  <2>3. QED
    BY <1>3, <2>2
<1>8. Len(a) \in Nat /\ \A n \in 1..Len(a) : a2[n] = a[n]
  BY <1>1, <1>7, NodeFacts DEF Prefix
<1>9. /\ w2 \in Seq(Where) /\ Len(w2) = new /\ w2[new] = s
      /\ \A n \in 1..Len(a) : w2[n] = w[n]
  <2>1. w \in Seq(Where) /\ Len(w) = Len(a)
    BY <1>2 DEF Laid
  <2>2. QED
    BY <1>0, <1>00, <1>8, <2>1, AppendProperties
<1>10. Agree(a, w, w2, 0) /\ BlockOr0(a, 0)
  BY <1>8, <1>9 DEF Agree, BlockOr0
<1>11. Grown(c, c2) /\ Kept(c, c2, T)
  BY <1>0, <1>00 DEF Near, Kept
<1>12. \A n, role : n # p[N] \/ role # x.role => Children(a2, n, role) = Children(a, n, role)
  <2>1. \A m \in 1..Len(a2) : m \in 1..Len(a) \/ m = new
    BY <1>7, <1>8
  <2>2. \A m \in 1..Len(a) : m \in 1..Len(a2)
    BY <1>7, <1>8
  <2>3. a2[new].parent = p[N] /\ a2[new].role = x.role
    BY <1>5, <1>7
  <2> HIDE DEF new, p, N
  <2>4. QED
    BY <1>8, <2>1, <2>2, <2>3 DEF Children
<1>13. Children(a2, p[N], x.role) = Children(a, p[N], x.role) \cup {new}
  <2>1. \A m \in 1..Len(a2) : m \in 1..Len(a) \/ m = new
    BY <1>7, <1>8
  <2>2. new \in 1..Len(a2) /\ \A m \in 1..Len(a) : m \in 1..Len(a2)
    BY <1>7, <1>8
  <2>3. a2[new].parent = p[N] /\ a2[new].role = x.role
    BY <1>5, <1>7
  <2> HIDE DEF new, p, N
  <2>4. QED
    BY <1>8, <2>1, <2>2, <2>3 DEF Children
<1>14. \A role : Children(a, p[N], role) \subseteq 1..Len(a)
  BY DEF Children
<1>15. ASSUME NEW n \in 1..Len(a) PROVE Entered(a2, c2, w2, n) /\ Started(a2, w2, n)
  <2>1. Entered(a, c, w, n) /\ Started(a, w, n)
    BY <1>2 DEF Laid
  <2>2. Entered(a2, c2, w2, n)
    BY <1>1, <1>2, <1>7, <1>10, <1>11, <2>1, EnteredStays
  <2>3. Started(a2, w2, n)
    BY <1>1, <1>2, <1>7, <1>10, <2>1, StartedStays
  <2>4. QED
    BY <2>2, <2>3
<1>16. Started(a2, w2, new)
  <2> DEFINE kids == Children(a, p[N], x.role)
  <2>1. a2[new].parent = p[N] /\ a2[new].role = x.role /\ w2[new].first = Here(c, b)
    BY <1>0, <1>00, <1>5, <1>7, <1>9
  <2>2. {m \in Children(a2, p[N], x.role) : m < new} = kids
    BY <1>8, <1>13, <1>14
  <2>3. top.at = p[N] /\ top.role = x.role
    BY <1>3, <1>4, <1>5
  <2>4. /\ kids = {} => Here(c, b) = StartOf(w[p[N]], x.role)
        /\ \A m \in kids : Latest(kids, m) => Here(c, b) = w[m].after
    BY <1>2, <2>3 DEF ControlAt
  <2>5. w2[p[N]] = w[p[N]] /\ \A m \in kids : w2[m] = w[m]
    BY <1>4, <1>7, <1>9, <1>14
  <2> HIDE DEF kids, new, p, N
  <2>6. QED
    BY <2>1, <2>2, <2>4, <2>5 DEF Started
<1>17. ASSUME NEW n \in 1..Len(a), n \notin OpenNodes(vs) PROVE Left(a2, c2, w2, n)
  <2>1. Left(a, c, w, n)
    BY <1>2, <1>17 DEF Laid
  <2>2. n # p[N]
    BY <1>3, <1>4, <1>17 DEF OpenNodes
  <2>3. \A role : Children(a2, n, role) = Children(a, n, role) /\ 0 \notin Children(a, n, role)
    <3>1. \A role : Children(a2, n, role) = Children(a, n, role)
      BY <1>12, <2>2
    <3>2. 0 \notin 1..Len(a)
      BY <1>8
    <3>3. QED
      BY <3>1, <3>2 DEF Children
  <2>4. n # 0
    OBVIOUS
  <2>5. QED
    BY <1>1, <1>7, <1>10, <1>11, <2>1, <2>3, <2>4, LeftStays
<1>18. ASSUME NEW i \in 1..N PROVE \A y \in Pending(vs[i]) : y \in 1..Len(c) /\ y \notin T
  <2> SUFFICES ASSUME NEW y \in Pending(vs[i]), y \in T PROVE FALSE
    BY <1>0, <1>00 DEF Ground
  <2>1. y # b
    BY <1>0, <1>00 DEF Ground
  <2>2. Len(cs) > e /\ y = Last(cs).localsBlock
    BY <1>0, <1>00, <2>1 DEF Near
  <2>3. Len(cs) \in (e + 1)..Len(cs) /\ Last(cs) = cs[Len(cs)]
    <3>1. Len(cs) \in Nat /\ e \in Nat
      BY <1>1, LenProperties
    <3>2. QED
      BY <2>2, <3>1 DEF Last
  <2>4. QED
    BY <1>0, <1>00, <2>2, <2>3 DEF Ground
<1>19. ASSUME NEW i \in 1..N PROVE FrameAt(a2, c2, w2, ThisDone(vs)[i])
  <2>1. FrameAt(a, c, w, vs[i])
    BY <1>2 DEF Laid
  <2>2. CASE i # N
    <3>1. vs[i].at \in 1..Len(a) /\ vs[i].at # p[N]
      <4>1. p[i] # p[N]
        BY <1>1, <1>2, <1>3, <1>4, <2>2, PathFacts
      <4>2. QED
        BY <1>3, <1>7, <4>1
    <3>2. \A role : Children(a2, vs[i].at, role) = Children(a, vs[i].at, role)
      BY <1>12, <3>1
    <3>3. 0 \notin Children(a, vs[i].at, "then") /\ vs[i].at # 0
      BY <3>1 DEF Children
    <3>4. FrameAt(a2, c2, w2, vs[i])
      <4> DEFINE fr == vs[i]
      <4>1. /\ fr.at \in 1..Len(a) /\ fr.at # 0
            /\ \A role : Children(a2, fr.at, role) = Children(a, fr.at, role)
            /\ fr.role = "else" => 0 \notin Children(a, fr.at, "then")
            /\ \A y \in Pending(fr) : y \in 1..Len(c) /\ y \notin T
            /\ FrameAt(a, c, w, fr)
        BY <1>18, <2>1, <3>1, <3>2, <3>3
      <4> HIDE DEF fr
      <4>2. FrameAt(a2, c2, w2, fr)
        BY <1>1, <1>7, <1>10, <1>11, <4>1, FrameStays
      <4>3. QED
        BY <4>2 DEF fr
    <3>5. ThisDone(vs)[i] = vs[i]
      BY <1>1, <2>2, ThisDoneIs
    <3>6. QED
      BY <3>4, <3>5
  <2>3. CASE i = N
    <3> DEFINE fr2 == [top EXCEPT !.done = TRUE]
               n == p[N]
    <3>1. ThisDone(vs)[i] = fr2
      BY <1>1, <2>3, ThisDoneIs
    <3>2. /\ fr2.at = n /\ top.at = n /\ fr2.role = top.role /\ fr2.done = TRUE
          /\ fr2.cond = top.cond /\ fr2.alt = top.alt /\ fr2.merge = top.merge
      BY <1>3, <1>4 DEF FrameType
    <3>3. Pending(fr2) = Pending(top)
      BY <3>2 DEF Pending
    <3> HIDE DEF fr2, n
    <3>4. n \in 1..Len(a) /\ a2[n] = a[n] /\ w2[n] = w[n]
      BY <1>4, <1>7, <1>8, <1>9 DEF n
    <3>5. \A y \in Pending(fr2) : c2[y] = <<>>
      <4>1. \A y \in Pending(top) : c[y] = <<>>
        BY <1>4, <2>1, <2>3 DEF FrameAt
      <4>2. \A y \in Pending(top) : y \in 1..Len(c) /\ y \notin T
        BY <1>4, <1>18
      <4>3. QED
        BY <1>11, <3>3, <4>1, <4>2 DEF Kept
    <3>6. FrameAt(a, c, w, top)
      BY <1>4, <2>1, <2>3
    <3>7. top.role # "block" => Children(a2, n, top.role) = {new}
      <4> SUFFICES ASSUME top.role # "block" PROVE Children(a2, n, top.role) = {new}
        OBVIOUS
      <4>1. ~top.done
        BY <1>0, <1>00 DEF NewNode
      <4>2. Children(a, n, top.role) = {}
        BY <3>2, <3>6, <4>1 DEF FrameAt
      <4>3. QED
        BY <1>5, <1>13, <4>2 DEF n
    <3>8. top.role = "then" => Children(a2, n, "else") = {}
      <4> SUFFICES ASSUME top.role = "then" PROVE Children(a2, n, "else") = {}
        OBVIOUS
      <4>1. Children(a, n, "else") = {}
        BY <3>2, <3>6 DEF FrameAt
      <4>2. QED
        BY <1>5, <1>12, <4>1
    <3>9. top.role = "else" => /\ Children(a2, n, "then") # {}
                               /\ \A m \in Children(a2, n, "then") : Leads(c2, w2[m].after, w2[n].after)
      <4> SUFFICES ASSUME top.role = "else"
                   PROVE  /\ Children(a2, n, "then") # {}
                          /\ \A m \in Children(a2, n, "then") : Leads(c2, w2[m].after, w2[n].after)
        OBVIOUS
      <4>1. Children(a2, n, "then") = Children(a, n, "then")
        BY <1>5, <1>12
      <4>2. Children(a, n, "then") # {} /\ \A m \in Children(a, n, "then") : Leads(c, w[m].after, w[n].after)
        BY <3>2, <3>6 DEF FrameAt
      <4>3. \A q, r : Leads(c, q, r) => Leads(c2, q, r)
        BY <1>11, GrownKeeps
      <4>4. \A m \in Children(a, n, "then") : w2[m] = w[m]
        BY <1>9 DEF Children
      <4>5. QED
        BY <3>4, <4>1, <4>2, <4>3, <4>4
    <3>10. fr2.role # "block" => /\ fr2.done /\ Children(a2, n, fr2.role) # {}
                                 /\ \A l, m \in Children(a2, n, fr2.role) : l = m
      <4>1. fr2.done
        BY <3>2
      <4>2. fr2.role # "block" => Children(a2, n, fr2.role) = {new}
        BY <3>2, <3>7
      <4> HIDE DEF new
      <4>3. QED
        BY <4>1, <4>2
    <3>11. /\ top.role = "then" => w2[n].alt = Start(top.alt)
           /\ top.role \in {"then", "else", "while", "do", "for"} => w2[n].after = Start(top.merge)
           /\ top.role \in {"while", "do", "for"} => w2[n].cond = Start(top.cond)
           /\ top.role = "do" => w2[n].body = Start(top.alt)
           /\ top.role = "for" => w2[n].alt = Start(top.alt)
           /\ top.role \in RoleOf(a2[n].kind)
      BY <3>2, <3>4, <3>6 DEF FrameAt
    <3>12. FrameAt(a2, c2, w2, fr2)
      BY <3>2, <3>5, <3>8, <3>9, <3>10, <3>11 DEF FrameAt
    <3>13. QED
      BY <3>1, <3>12
  <2>4. QED
    BY <2>2, <2>3
<1>20. ASSUME NEW k \in (e + 1)..Len(cs) PROVE ContextAt(a2, c2, w2, cs[k], h[k])
  <2>1. SilentBlock(c, cs[k].localsBlock)
    BY <1>0, <1>00 DEF Sim, ContextAt
  <2>2. SilentBlock(c2, cs[k].localsBlock)
    <3>1. Len(cs) \in Nat /\ e \in Nat
      BY <1>1, LenProperties
    <3>2. Len(cs) > e /\ Len(cs) \in (e + 1)..Len(cs) /\ Last(cs) = cs[Len(cs)]
      BY <3>1 DEF Last
    <3>3. CASE k = Len(cs)
      BY <1>0, <1>00, <2>1, <3>2, <3>3 DEF Near
    <3>4. CASE k # Len(cs)
      <4>1. cs[k].localsBlock \in 1..Len(c) /\ cs[k].localsBlock # b /\ cs[k].localsBlock # Last(cs).localsBlock
        BY <1>0, <1>00, <3>2, <3>4 DEF Ground
      <4>2. cs[k].localsBlock \notin T
        BY <1>0, <1>00, <4>1 DEF Near
      <4>3. c2[cs[k].localsBlock] = c[cs[k].localsBlock]
        BY <1>11, <4>1, <4>2 DEF Kept
      <4>4. QED
        BY <2>1, <4>3 DEF SilentBlock
    <3>5. QED
      BY <3>3, <3>4
  <2>3. QED
    BY <1>0, <1>00, <1>7, <1>10, <2>2, ContextsStay
<1>21. AllPlaced(a2, c, w2)
  BY <1>1, <1>2, <1>7, <1>10, PlacedStays
<1>22. Starts(a2, c2, w2, es)
  <2>1. \A n \in 1..Len(a2) : a2[n].kind = "fun" => n \in 1..Len(a)
    <3>1. \A n \in 1..Len(a2) : n \in 1..Len(a) \/ n = new
      BY <1>7, <1>8
    <3>2. QED
      BY <1>5, <1>7, <3>1
  <2>2. QED
    BY <1>1, <1>2, <1>7, <1>10, <1>11, <2>1, StartsStay
<1>23. Held(a2, p, e, cs, h)
  BY <1>1, <1>2, <1>3, <1>7, HeldStays
<1>24. new \in Children(a2, top.at, top.role) /\ \A m \in Children(a2, top.at, top.role) : m <= new
  <2>1. top.at = p[N] /\ top.role = x.role
    BY <1>3, <1>4, <1>5
  <2>2. QED
    BY <1>8, <1>13, <1>14, <2>1
<1>25. QED
  BY <1>7, <1>8, <1>9, <1>10, <1>15, <1>16, <1>17, <1>19, <1>20, <1>21, <1>22, <1>23, <1>24 DEF NodeIsAdded
-----------------------------------------------------------------------------
(* A statement that contains none. *)
LEMMA SimpleSim ==
  ASSUME NEW a, NEW c, NEW es, NEW cs, NEW vs, NEW b, NEW h, NEW w, NEW x, NEW a2, NEW s, NEW w2, NEW c2,
         AddsNode(a, c, es, cs, vs, b, h, w, x, a2, s, w2, c2),
         NEW b2, x.kind \in Simple, s.after = Here(c2, b2),
         Entered(a2, c2, w2, Len(a) + 1), AllPlaced(a2, c2, w2)
  PROVE  Sim(a2, c2, es, cs, ThisDone(vs), b2, h, w2)
<1>0. /\ NodeIsAdded(a, c, es, cs, vs, h, w, x, a2, s, w2, c2)
      /\ Ground(a, c, es, cs, vs, b) /\ Sim(a, c, es, cs, vs, b, h, w) /\ NewNode(a, vs, x)
  BY AddSim DEF AddsNode
<1> DEFINE vs2 == ThisDone(vs)
           new == Len(a) + 1
           N == Len(vs)
           p == PathOf(vs)
<1>1. /\ Len(a) \in Nat /\ Len(a2) = new /\ a2[new] = x
      /\ Tree(a2) /\ Prefix(a, a2)
      /\ w2 \in Seq(Where) /\ Len(w2) = Len(a2) /\ w2[new] = s
      /\ Path(a2, p) /\ Path(a2, Append(p, new))
      /\ Held(a2, p, Len(es), cs, h)
      /\ \A n \in 1..Len(a) : Entered(a2, c2, w2, n) /\ Started(a2, w2, n)
      /\ Started(a2, w2, new)
      /\ \A n \in 1..Len(a) : n \notin OpenNodes(vs) => Left(a2, c2, w2, n)
      /\ \A i \in 1..N : FrameAt(a2, c2, w2, ThisDone(vs)[i])
      /\ \A k \in (Len(es) + 1)..Len(cs) : ContextAt(a2, c2, w2, cs[k], h[k])
      /\ Starts(a2, c2, w2, es)
      /\ new \in Children(a2, Last(vs).at, Last(vs).role)
      /\ \A m \in Children(a2, Last(vs).at, Last(vs).role) : m <= new
  BY <1>0 DEF NodeIsAdded
<1>2. /\ vs \in Seq(FrameType) /\ vs # <<>> /\ Stacked(a, vs) /\ Path(a, p)
      /\ N \in 1..N /\ N \in Nat /\ Last(vs) = vs[N]
  BY <1>0, TopIs, LenProperties DEF Ground, Sim
<1>3. /\ Len(vs2) = N /\ vs2 # <<>> /\ vs2 \in Seq(FrameType)
      /\ \A i \in 1..N : /\ i # N => vs2[i] = vs[i]
                         /\ vs2[i].at = vs[i].at /\ vs2[i].role = vs[i].role
      /\ PathOf(vs2) = p /\ OpenNodes(vs2) = OpenNodes(vs)
  BY <1>2, ThisDoneIs
<1>4. \A i \in 1..N : vs[i].at \in 1..Len(a) /\ a2[vs[i].at] = a[vs[i].at]
  <2>1. \A i \in 1..N : p[i] \in 1..Len(a) /\ p[i] = vs[i].at
    BY <1>2, PathIs DEF Path
  <2>2. QED
    BY <1>1, <2>1 DEF Prefix
<1> HIDE DEF vs2, new, N, p
<1>5. Stacked(a2, vs2)
  <2> SUFFICES ASSUME NEW i \in 1..N, i > 1
               PROVE  a2[vs2[i].at].role = vs2[i - 1].role /\ vs2[i - 1].done
    BY <1>3 DEF Stacked
  <2>1. i - 1 \in 1..N /\ i - 1 # N
    BY <1>2
  <2>2. a[vs[i].at].role = vs[i - 1].role /\ vs[i - 1].done
    BY <1>2 DEF Stacked, N
  <2>3. QED
    BY <1>3, <1>4, <2>1, <2>2
<1>6. \A n \in 1..Len(a2) : n \in 1..Len(a) \/ n = new
  BY <1>1 DEF new
<1>7. Left(a2, c2, w2, new)
  <2>1. a2[new].kind \in Simple
    BY <1>1
  <2>2. QED
    BY <2>1 DEF Left, Simple
<1>8. Laid(a2, c2, vs2, w2)
  <2>1. \A n \in 1..Len(a2) : Entered(a2, c2, w2, n) /\ Started(a2, w2, n)
    BY <1>1, <1>6 DEF new
  <2>2. \A n \in 1..Len(a2) : n \notin OpenNodes(vs2) => Left(a2, c2, w2, n)
    BY <1>1, <1>3, <1>6, <1>7
  <2>3. QED
    BY <1>1, <1>3, <2>1, <2>2 DEF Laid, vs2
<1>9. ControlAt(a2, c2, w2, Last(vs2), b2)
  <2>1. Last(vs2) = vs2[N]
    BY <1>3 DEF Last
  <2>2. Last(vs2).at = Last(vs).at /\ Last(vs2).role = Last(vs).role
    BY <1>2, <1>3, <2>1
  <2> DEFINE kids == Children(a2, Last(vs).at, Last(vs).role)
  <2>3. kids # {}
    BY <1>1
  <2>4. ASSUME NEW m \in kids, Latest(kids, m) PROVE Here(c2, b2) = w2[m].after
    <3>1. new <= m /\ m <= new /\ m \in 1..Len(a2)
      BY <1>1, <2>4 DEF Latest, Children
    <3>2. m = new
      BY <1>1, <3>1 DEF new
    <3>3. QED
      BY <1>1, <3>2
  <2> HIDE DEF kids
  <2>5. QED
    BY <2>2, <2>3, <2>4 DEF ControlAt, kids
<1>10. Path(a2, PathOf(vs2)) /\ Held(a2, PathOf(vs2), Len(es), cs, h)
  BY <1>1, <1>3
<1>11. QED
  BY <1>1, <1>5, <1>8, <1>9, <1>10 DEF Sim, vs2

(* The beginning of one that contains others. *)
LEMMA CompoundSim ==
  ASSUME NEW a, NEW c, NEW es, NEW cs, NEW vs, NEW b, NEW h, NEW w, NEW x, NEW a2, NEW s, NEW w2, NEW c2,
         AddsNode(a, c, es, cs, vs, b, h, w, x, a2, s, w2, c2),
         NEW b2, NEW fr \in FrameType, fr.at = Len(a) + 1,
         NEW cs2, NEW h2, Held(a2, Append(PathOf(vs), Len(a) + 1), Len(es), cs2, h2),
         \A k \in (Len(es) + 1)..Len(cs2) : ContextAt(a2, c2, w2, cs2[k], h2[k]),
         Entered(a2, c2, w2, Len(a) + 1), FrameAt(a2, c2, w2, fr), ControlAt(a2, c2, w2, fr, b2),
         AllPlaced(a2, c2, w2)
  PROVE  Sim(a2, c2, es, cs2, Append(ThisDone(vs), fr), b2, h2, w2)
<1>0. /\ NodeIsAdded(a, c, es, cs, vs, h, w, x, a2, s, w2, c2)
      /\ Ground(a, c, es, cs, vs, b) /\ Sim(a, c, es, cs, vs, b, h, w) /\ NewNode(a, vs, x)
  BY AddSim DEF AddsNode
<1> DEFINE vs1 == ThisDone(vs)
           vs2 == Append(ThisDone(vs), fr)
           new == Len(a) + 1
           N == Len(vs)
           p == PathOf(vs)
<1>1. /\ Len(a) \in Nat /\ Len(a2) = new /\ a2[new] = x
      /\ Tree(a2) /\ Prefix(a, a2)
      /\ w2 \in Seq(Where) /\ Len(w2) = Len(a2) /\ w2[new] = s
      /\ Path(a2, p) /\ Path(a2, Append(p, new))
      /\ Held(a2, p, Len(es), cs, h)
      /\ \A n \in 1..Len(a) : Entered(a2, c2, w2, n) /\ Started(a2, w2, n)
      /\ Started(a2, w2, new)
      /\ \A n \in 1..Len(a) : n \notin OpenNodes(vs) => Left(a2, c2, w2, n)
      /\ \A i \in 1..N : FrameAt(a2, c2, w2, ThisDone(vs)[i])
      /\ \A k \in (Len(es) + 1)..Len(cs) : ContextAt(a2, c2, w2, cs[k], h[k])
      /\ Starts(a2, c2, w2, es)
      /\ new \in Children(a2, Last(vs).at, Last(vs).role)
      /\ \A m \in Children(a2, Last(vs).at, Last(vs).role) : m <= new
  BY <1>0 DEF NodeIsAdded
<1>2. /\ vs \in Seq(FrameType) /\ vs # <<>> /\ Stacked(a, vs) /\ Path(a, p)
      /\ N \in 1..N /\ N \in Nat /\ Last(vs) = vs[N]
  BY <1>0, TopIs, LenProperties DEF Ground, Sim
<1>3. /\ Len(vs1) = N /\ vs1 \in Seq(FrameType)
      /\ \A i \in 1..N : /\ i # N => vs1[i] = vs[i]
                         /\ vs1[i].at = vs[i].at /\ vs1[i].role = vs[i].role
      /\ vs1[N].done = TRUE
  BY <1>2, ThisDoneIs
<1>4. \A i \in 1..N : vs[i].at \in 1..Len(a) /\ a2[vs[i].at] = a[vs[i].at] /\ p[i] = vs[i].at
  <2>1. \A i \in 1..N : p[i] \in 1..Len(a) /\ p[i] = vs[i].at
    BY <1>2, PathIs DEF Path
  <2>2. QED
    BY <1>1, <2>1 DEF Prefix
<1>5. p \in Seq(Nat) /\ Len(p) = N
  BY <1>2, PathIs
<1> HIDE DEF vs1, new, N, p
<1>6. /\ vs2 \in Seq(FrameType) /\ Len(vs2) = N + 1 /\ vs2[N + 1] = fr /\ \A i \in 1..N : vs2[i] = vs1[i]
  BY <1>3, AppendProperties DEF vs1
<1>7. \A i \in 1..(N + 1) : i \in 1..N \/ i = N + 1
  BY <1>2
<1>8. PathOf(vs2) = Append(p, new)
  <2> DEFINE q == Append(p, new)
  <2>1. new \in Nat
    BY <1>1 DEF new
  <2>2. q \in Seq(Nat) /\ Len(q) = N + 1 /\ q[N + 1] = new /\ \A i \in 1..N : q[i] = p[i]
    BY <1>5, <2>1, AppendProperties
  <2> HIDE DEF q
  <2>3. PathOf(vs2) \in Seq(Nat) /\ Len(PathOf(vs2)) = N + 1 /\ \A i \in 1..(N + 1) : PathOf(vs2)[i] = vs2[i].at
    <3> HIDE DEF vs2
    <3>1. QED
      BY <1>6, PathIs
  <2>4. ASSUME NEW i \in 1..(N + 1) PROVE PathOf(vs2)[i] = q[i]
    <3>1. CASE i \in 1..N
      <4>1. vs2[i] = vs1[i] /\ vs1[i].at = vs[i].at
        BY <1>3, <1>6, <3>1
      <4>2. PathOf(vs2)[i] = vs2[i].at
        BY <2>3
      <4>3. q[i] = vs[i].at
        BY <1>4, <2>2, <3>1
      <4>4. QED
        BY <4>1, <4>2, <4>3
    <3>2. CASE i = N + 1
      <4>1. vs2[i] = fr /\ q[i] = new /\ PathOf(vs2)[i] = vs2[i].at
        BY <1>6, <2>2, <2>3, <3>2
      <4>2. QED
        BY <4>1 DEF new
    <3>3. QED
      BY <1>7, <3>1, <3>2
  <2> HIDE DEF vs2
  <2>5. PathOf(vs2) = q
    BY <2>2, <2>3, <2>4, SeqEqual
  <2>6. QED
    BY <2>5 DEF q
<1>9. OpenNodes(vs2) = OpenNodes(vs) \cup {new}
  <2>1. vs2[N + 1].at = new
    BY <1>6 DEF new
  <2>2. \A i \in 1..N : vs2[i].at = vs[i].at
    BY <1>3, <1>6
  <2>3. N + 1 \in 1..(N + 1) /\ \A i \in 1..N : i \in 1..(N + 1)
    BY <1>2
  <2>4. OpenNodes(vs2) = {vs2[i].at : i \in 1..(N + 1)} /\ OpenNodes(vs) = {vs[i].at : i \in 1..N}
    BY <1>6 DEF OpenNodes, N
  <2> HIDE DEF vs2
  <2>5. QED
    BY <1>7, <2>1, <2>2, <2>3, <2>4
<1>10. Stacked(a2, vs2)
  <2> SUFFICES ASSUME NEW i \in 1..(N + 1), i > 1
               PROVE  a2[vs2[i].at].role = vs2[i - 1].role /\ vs2[i - 1].done
    BY <1>6 DEF Stacked
  <2>1. i - 1 \in 1..N
    BY <1>2
  <2> HIDE DEF vs2
  <2>2. CASE i \in 1..N
    <3>1. i - 1 # N
      BY <1>2, <2>2
    <3>2. a[vs[i].at].role = vs[i - 1].role /\ vs[i - 1].done
      BY <1>2, <2>2 DEF Stacked, N
    <3>3. vs2[i - 1] = vs[i - 1] /\ vs2[i].at = vs[i].at
      BY <1>3, <1>6, <2>1, <2>2, <3>1
    <3>4. QED
      BY <1>4, <2>2, <3>2, <3>3
  <2>3. CASE i = N + 1
    <3>1. i - 1 = N
      BY <1>2, <2>3
    <3>2. vs2[i].at = new /\ vs2[i - 1].role = Last(vs).role /\ vs2[i - 1].done
      <4>1. vs2[i] = fr /\ vs2[i - 1] = vs1[N]
        BY <1>2, <1>6, <2>3, <3>1
      <4>2. vs1[N].role = Last(vs).role /\ vs1[N].done
        BY <1>2, <1>3
      <4>3. QED
        BY <4>1, <4>2 DEF new
    <3>3. QED
      BY <1>0, <1>1, <3>2 DEF NewNode
  <2>4. QED
    BY <1>7, <2>2, <2>3
<1>11. \A n \in 1..Len(a2) : n \in 1..Len(a) \/ n = new
  BY <1>1 DEF new
<1> HIDE DEF vs2
<1>12. Laid(a2, c2, vs2, w2)
  <2>1. \A n \in 1..Len(a2) : Entered(a2, c2, w2, n) /\ Started(a2, w2, n)
    BY <1>1, <1>11 DEF new
  <2>2. \A n \in 1..Len(a2) : n \notin OpenNodes(vs2) => Left(a2, c2, w2, n)
    BY <1>1, <1>9, <1>11
  <2>3. \A i \in 1..Len(vs2) : FrameAt(a2, c2, w2, vs2[i])
    BY <1>1, <1>6, <1>7 DEF vs1
  <2>4. QED
    BY <1>1, <2>1, <2>2, <2>3 DEF Laid
<1>13. ControlAt(a2, c2, w2, Last(vs2), b2)
  <2>1. Last(vs2) = fr
    BY <1>6 DEF Last
  <2>2. QED
    BY <2>1
<1>14. Path(a2, PathOf(vs2)) /\ Held(a2, PathOf(vs2), Len(es), cs2, h2)
  BY <1>1, <1>8 DEF new, p
<1>15. QED
  BY <1>1, <1>10, <1>12, <1>13, <1>14 DEF Sim, vs2
-----------------------------------------------------------------------------
(* the stack without its top, and its path                                 *)
LEMMA FrontIs ==
  ASSUME NEW vs \in Seq(FrameType), vs # <<>>
  PROVE  /\ Front(vs) \in Seq(FrameType) /\ Len(Front(vs)) = Len(vs) - 1
         /\ \A i \in 1..(Len(vs) - 1) : Front(vs)[i] = vs[i] /\ PathOf(Front(vs))[i] = PathOf(vs)[i]
         /\ PathOf(Front(vs)) \in Seq(Nat) /\ Len(PathOf(Front(vs))) = Len(vs) - 1
         /\ OpenNodes(vs) = OpenNodes(Front(vs)) \cup {Last(vs).at}
<1> DEFINE N == Len(vs)
<1>1. /\ N \in Nat \ {0} /\ Last(vs) = vs[N] /\ Front(vs) \in Seq(FrameType)
      /\ Len(Front(vs)) = N - 1 /\ \A i \in 1..(N - 1) : Front(vs)[i] = vs[i]
  BY FrontLast
<1>2. PathOf(Front(vs)) \in Seq(Nat) /\ Len(PathOf(Front(vs))) = N - 1
  BY <1>1, PathIs
<1>3. \A i \in 1..(N - 1) : PathOf(Front(vs))[i] = PathOf(vs)[i]
  <2> TAKE i \in 1..(N - 1)
  <2>1. i \in 1..N /\ i \in 1..Len(Front(vs))
    BY <1>1
  <2>2. PathOf(Front(vs))[i] = Front(vs)[i].at /\ PathOf(vs)[i] = vs[i].at
    BY <1>1, <2>1, PathIs
  <2>3. QED
    BY <1>1, <2>2
<1>4. OpenNodes(vs) = OpenNodes(Front(vs)) \cup {Last(vs).at}
  <2>1. OpenNodes(Front(vs)) = {Front(vs)[i].at : i \in 1..(N - 1)}
    BY <1>1 DEF OpenNodes
  <2>2. OpenNodes(Front(vs)) = {vs[i].at : i \in 1..(N - 1)}
    BY <1>1, <2>1
  <2>3. \A i \in 1..N : i \in 1..(N - 1) \/ i = N
    BY <1>1
  <2>4. N \in 1..N /\ \A i \in 1..(N - 1) : i \in 1..N
    BY <1>1
  <2> HIDE DEF N
  <2>5. QED
    BY <1>1, <2>2, <2>3, <2>4 DEF OpenNodes, N
<1>5. QED
  BY <1>1, <1>2, <1>3, <1>4

LEMMA PathFront ==
  ASSUME NEW a \in Seq(NodeType), NEW p \in Seq(Nat), Path(a, p), NEW q \in Seq(Nat),
         Len(q) <= Len(p), \A i \in 1..Len(q) : q[i] = p[i]
  PROVE  Path(a, q)
<1>1. Len(p) \in Nat /\ Len(q) \in Nat /\ \A i \in 1..Len(q) : i \in 1..Len(p)
  <2>1. Len(p) \in Nat /\ Len(q) \in Nat
    BY LenProperties
  <2>2. QED
    BY <2>1
<1>2. \A i \in 1..Len(q) : i # 1 => i - 1 \in 1..Len(q)
  BY <1>1
<1>3. \A i \in 1..Len(q) : q[i] \in 1..Len(a) /\ Inside(a, Len(a), q[i])
  BY <1>1 DEF Path
<1>4. \A i, j \in 1..Len(q) : i < j => q[i] < q[j]
  BY <1>1 DEF Path
<1>5. \A i \in 1..Len(q) : a[q[i]].parent = IF i = 1 THEN 0 ELSE q[i - 1]
  BY <1>1, <1>2 DEF Path
<1>6. QED
  BY <1>3, <1>4, <1>5 DEF Path

(* A tree is a prefix of itself.                                           *)
LEMMA PrefixSelf == ASSUME NEW a \in Seq(NodeType) PROVE Prefix(a, a)
<1>1. Len(a) \in Nat
  BY LenProperties
<1>2. QED
  BY <1>1 DEF Prefix

(* A visit ends: what it may write, and what has to be so of its node. *)
Leaves(a, c, es, cs, vs, b, h, w, c2, cs2, b2, h2, w2, z) ==
  /\ Ground(a, c, es, cs, vs, b)
  /\ Sim(a, c, es, cs, vs, b, h, w)
  /\ Len(vs) >= 2
  /\ \E T : /\ Kept(c, c2, T)
            /\ \A y \in T : \/ y = b
                            \/ y \in Pending(Last(vs))
                            \/ Last(vs).role = "block" /\ y = Last(cs).localsBlock
  /\ Agree(a, w, w2, z) /\ w2 \in Seq(Where) /\ Len(w2) = Len(a)
  /\ z = IF Last(vs).role = "block" THEN Last(vs).at ELSE 0
  /\ Held(a, PathOf(Front(vs)), Len(es), cs2, h2)
  /\ Len(cs2) = IF Last(vs).role = "block" THEN Len(cs) - 1 ELSE Len(cs)
  /\ \A k \in 1..Len(cs2) : cs2[k] = cs[k] /\ h2[k] = h[k]
  /\ Left(a, c2, w2, Last(vs).at)
  /\ Here(c2, b2) = w2[Last(vs).at].after
  /\ AllPlaced(a, c2, w2)

(* The end of a visit keeps the simulation, if its node is complete then.  *)
LEMMA LeaveSim ==
  ASSUME NEW a, NEW c, NEW es, NEW cs, NEW vs, NEW b, NEW h, NEW w, NEW c2, NEW cs2, NEW b2, NEW h2, NEW w2,
         NEW z, Leaves(a, c, es, cs, vs, b, h, w, c2, cs2, b2, h2, w2, z)
  PROVE  Sim(a, c2, es, cs2, Front(vs), b2, h2, w2)
<1> DEFINE p == PathOf(vs)
           e == Len(es)
           N == Len(vs)
           top == Last(vs)
           n == Last(vs).at
           under == vs[N - 1]
           vs2 == Front(vs)
<1>1. /\ a \in Seq(NodeType) /\ c \in Seq(Seq(Insn)) /\ es \in Seq(Nat) /\ cs \in Seq(ContextType)
      /\ vs \in Seq(FrameType) /\ vs # <<>> /\ b \in 1..Len(c)
      /\ Ground(a, c, es, cs, vs, b) /\ Sim(a, c, es, cs, vs, b, h, w)
  BY DEF Leaves, Ground
<1>2. /\ Tree(a) /\ Path(a, p) /\ Held(a, p, e, cs, h) /\ Stacked(a, vs) /\ Laid(a, c, vs, w)
      /\ AllPlaced(a, c, w) /\ Starts(a, c, w, es)
  BY <1>1 DEF Sim
<1>3. PICK T : /\ Kept(c, c2, T)
               /\ \A y \in T : \/ y = b
                               \/ y \in Pending(top)
                               \/ top.role = "block" /\ y = Last(cs).localsBlock
  BY DEF Leaves
<1>4. /\ Agree(a, w, w2, z) /\ w2 \in Seq(Where) /\ Len(w2) = Len(a)
      /\ z = IF top.role = "block" THEN n ELSE 0
      /\ Held(a, PathOf(vs2), e, cs2, h2)
      /\ Len(cs2) = IF top.role = "block" THEN Len(cs) - 1 ELSE Len(cs)
      /\ \A k \in 1..Len(cs2) : cs2[k] = cs[k] /\ h2[k] = h[k]
      /\ Left(a, c2, w2, n)
      /\ Here(c2, b2) = w2[n].after
      /\ AllPlaced(a, c2, w2)
      /\ N >= 2
  BY DEF Leaves
<1>5. /\ N \in Nat /\ N \in 1..N /\ N - 1 \in 1..N /\ N - 1 \in 1..(N - 1) /\ top = vs[N]
      /\ p \in Seq(Nat) /\ Len(p) = N /\ \A i \in 1..N : p[i] = vs[i].at
      /\ Len(a) \in Nat /\ \A i \in 1..N : p[i] \in 1..Len(a)
  <2>1. N \in Nat /\ N \in 1..N /\ top = vs[N]
    BY <1>1, TopIs, LenProperties
  <2>2. p \in Seq(Nat) /\ Len(p) = N /\ \A i \in 1..N : p[i] = vs[i].at
    BY <1>1, PathIs
  <2>3. Len(a) \in Nat /\ \A i \in 1..N : p[i] \in 1..Len(a)
    BY <1>1, <1>2, <2>2, NodeFacts DEF Path
  <2>4. N - 1 \in 1..N /\ N - 1 \in 1..(N - 1)
    BY <1>4, <2>1
  <2>5. QED
    BY <2>1, <2>2, <2>3, <2>4
<1>6. /\ vs2 \in Seq(FrameType) /\ Len(vs2) = N - 1 /\ \A i \in 1..(N - 1) : vs2[i] = vs[i]
      /\ PathOf(vs2) \in Seq(Nat) /\ Len(PathOf(vs2)) = N - 1 /\ \A i \in 1..(N - 1) : PathOf(vs2)[i] = p[i]
      /\ OpenNodes(vs) = OpenNodes(vs2) \cup {n}
  BY <1>1, FrontIs
<1>7. /\ n = p[N] /\ n \in 1..Len(a) /\ Inside(a, Len(a), n)
      /\ a[n].parent = under.at /\ a[n].role = under.role /\ under.at = p[N - 1] /\ under.at # n
      /\ \A i \in 1..(N - 1) : p[i] # n
  <2>1. n = p[N]
    BY <1>5
  <2>2. n \in 1..Len(a) /\ Inside(a, Len(a), n) /\ a[n].parent = p[N - 1]
    BY <1>2, <1>4, <1>5, <2>1 DEF Path
  <2>3. a[n].role = under.role
    <3>1. N > 1 /\ N \in 1..Len(vs)
      BY <1>4, <1>5
    <3>2. a[vs[N].at].role = vs[N - 1].role
      BY <1>2, <3>1 DEF Stacked
    <3>3. vs[N].at = n
      BY <1>5
    <3>4. QED
      BY <3>2, <3>3
  <2>4. under.at = p[N - 1]
    BY <1>5
  <2>5. \A i \in 1..(N - 1) : i \in 1..N /\ i # N
    BY <1>5
  <2>6. \A i \in 1..(N - 1) : p[i] # n
    <3>1. \A i, j \in 1..Len(p) : p[i] = p[j] => i = j
      <4> HIDE DEF p
      <4>1. QED
        BY <1>1, <1>2, <1>5, PathFacts
    <3>2. \A i \in 1..(N - 1) : i \in 1..Len(p) /\ N \in 1..Len(p) /\ i # N
      BY <1>5, <2>5
    <3> HIDE DEF p, N, n
    <3>3. QED
      BY <2>1, <3>1, <3>2
  <2>7. QED
    BY <1>5, <2>1, <2>2, <2>3, <2>4, <2>6
<1>8. BlockOr0(a, z) /\ (z # 0 => z = n)
  <2>1. top.role = "block" => a[n].kind = "block"
    <3>1. FrameAt(a, c, w, top)
      BY <1>2, <1>5 DEF Laid
    <3>2. QED
      BY <3>1 DEF FrameAt, RoleOf
  <2>2. n \in 0..Len(a) /\ 0 \in 0..Len(a)
    BY <1>5, <1>7
  <2>3. QED
    BY <1>4, <2>1, <2>2 DEF BlockOr0
<1>9. Prefix(a, a) /\ Grown(c, c2)
  BY <1>1, <1>3, PrefixSelf DEF Kept
<1> HIDE DEF p, e, N, top, n, under, vs2
<1>10. Path(a, PathOf(vs2))
  <2>1. Len(PathOf(vs2)) <= Len(p) /\ \A i \in 1..Len(PathOf(vs2)) : PathOf(vs2)[i] = p[i]
    BY <1>5, <1>6
  <2>2. QED
    BY <1>1, <1>2, <1>5, <1>6, <2>1, PathFront
<1>11. Stacked(a, vs2)
  <2> SUFFICES ASSUME NEW i \in 1..(N - 1), i > 1
               PROVE  a[vs2[i].at].role = vs2[i - 1].role /\ vs2[i - 1].done
    BY <1>6 DEF Stacked
  <2>1. i \in 1..N /\ i - 1 \in 1..(N - 1)
    BY <1>5
  <2>2. a[vs[i].at].role = vs[i - 1].role /\ vs[i - 1].done
    BY <1>2, <2>1 DEF Stacked, N
  <2>3. QED
    BY <1>6, <2>1, <2>2
<1>12. \A m \in 1..Len(a) : Entered(a, c2, w2, m) /\ Started(a, w2, m)
  <2> TAKE m \in 1..Len(a)
  <2>1. Entered(a, c, w, m) /\ Started(a, w, m)
    BY <1>2 DEF Laid
  <2>2. Entered(a, c2, w2, m)
    BY <1>1, <1>2, <1>4, <1>8, <1>9, <2>1, EnteredStays
  <2>3. z # 0 => z \in 1..Len(a) /\ Inside(a, Len(a), z)
    BY <1>7, <1>8
  <2>4. Started(a, w2, m)
    BY <1>1, <1>2, <1>4, <1>9, <2>1, <2>3, StartedStays
  <2>5. QED
    BY <2>2, <2>4
<1>13. ASSUME NEW m \in 1..Len(a), m \notin OpenNodes(vs2) PROVE Left(a, c2, w2, m)
  <2>1. CASE m = n
    BY <1>4, <2>1
  <2>2. CASE m # n
    <3>1. m \notin OpenNodes(vs)
      BY <1>6, <1>13, <2>2
    <3>2. Left(a, c, w, m)
      BY <1>2, <3>1 DEF Laid
    <3>3. m # under.at
      <4>1. under.at \in OpenNodes(vs)
        BY <1>5 DEF OpenNodes, under, N
      <4>2. QED
        BY <3>1, <4>1
    <3>4. \A role : Children(a, m, role) = Children(a, m, role) /\ z \notin Children(a, m, role)
      <4>1. 0 \notin 1..Len(a)
        BY <1>5
      <4>2. QED
        BY <1>7, <1>8, <3>3, <4>1 DEF Children
    <3>5. m # z
      BY <1>5, <1>8, <2>2
    <3>6. QED
      BY <1>1, <1>4, <1>9, <3>2, <3>4, <3>5, LeftStays
  <2>3. QED
    BY <2>1, <2>2
<1>14. ASSUME NEW i \in 1..(N - 1) PROVE FrameAt(a, c2, w2, vs2[i])
  <2> DEFINE fr == vs[i]
  <2>1. i \in 1..N /\ i # N /\ fr.at = p[i]
    BY <1>5
  <2>2. FrameAt(a, c, w, fr)
    BY <1>2, <2>1 DEF Laid, N
  <2>3. fr.at \in 1..Len(a) /\ fr.at # n /\ fr.at # z
    BY <1>5, <1>7, <1>8, <2>1
  <2>4. fr.role = "else" => z \notin Children(a, fr.at, "then")
    <3> SUFFICES ASSUME fr.role = "else", z \in Children(a, fr.at, "then") PROVE FALSE
      OBVIOUS
    <3>1. z = n /\ a[n].parent = fr.at /\ a[n].role = "then"
      <4>1. z \in 1..Len(a) /\ a[z].parent = fr.at /\ a[z].role = "then"
        BY DEF Children
      <4>2. QED
        BY <1>5, <1>8, <4>1
    <3>2. p[i] = p[N - 1]
      BY <1>7, <2>1, <3>1
    <3>3. i = N - 1
      BY <1>1, <1>2, <1>5, <2>1, <3>2, PathFacts
    <3>4. under.role = "else"
      BY <3>3 DEF under
    <3>5. QED
      BY <1>7, <3>1, <3>4
  <2>5. \A y \in Pending(fr) : y \in 1..Len(c) /\ y \notin T
    <3> SUFFICES ASSUME NEW y \in Pending(fr), y \in T PROVE FALSE
      BY <1>1, <2>1 DEF Ground, N
    <3>1. y # b
      BY <1>1, <2>1 DEF Ground, N
    <3>2. y \notin Pending(top)
      BY <1>1, <1>5, <2>1 DEF Ground, N
    <3>3. top.role = "block" => y # Last(cs).localsBlock
      <4> SUFFICES ASSUME top.role = "block", y = Last(cs).localsBlock PROVE FALSE
        OBVIOUS
      <4>1. Len(cs) \in (e + 1)..Len(cs) /\ Last(cs) = cs[Len(cs)]
        <5>1. Len(cs) > Len(es) /\ Len(cs) \in Nat /\ Len(es) \in Nat
          BY <1>1, <1>4, LenProperties DEF Ground, N
        <5>2. QED
          BY <5>1 DEF Last, e
      <4>2. QED
        BY <1>1, <2>1, <4>1 DEF Ground, N, e
    <3>4. QED
      BY <1>3, <3>1, <3>2, <3>3
  <2> HIDE DEF fr
  <2>6. \A role : Children(a, fr.at, role) = Children(a, fr.at, role)
    OBVIOUS
  <2>7. FrameAt(a, c2, w2, fr)
    BY <1>1, <1>3, <1>4, <1>9, <2>2, <2>3, <2>4, <2>5, <2>6, FrameStays
  <2>8. QED
    BY <1>6, <2>7 DEF fr
<1>15. Laid(a, c2, vs2, w2)
  BY <1>4, <1>6, <1>12, <1>13, <1>14 DEF Laid
<1>16. ASSUME NEW k \in (e + 1)..Len(cs2) PROVE ContextAt(a, c2, w2, cs2[k], h2[k])
  <2>1. Len(cs) \in Nat /\ e \in Nat
    BY <1>1, LenProperties DEF e
  <2>2. k \in 1..Len(cs2) /\ k \in (e + 1)..Len(cs) /\ (top.role = "block" => k # Len(cs) /\ Len(cs) \in (e + 1)..Len(cs))
    BY <1>4, <2>1
  <2>3. cs2[k] = cs[k] /\ h2[k] = h[k]
    BY <1>4, <2>2
  <2>4. /\ cs[k].localsBlock \in 1..Len(c) /\ cs[k].localsBlock # b
        /\ cs[k].localsBlock \notin Pending(top)
        /\ top.role = "block" => cs[k].localsBlock # Last(cs).localsBlock
    BY <1>1, <1>5, <2>2 DEF Ground, N, e, Last
  <2>5. cs[k].localsBlock \notin T
    BY <1>3, <2>4
  <2>6. SilentBlock(c, cs[k].localsBlock)
    BY <1>1, <2>2 DEF Sim, ContextAt, e
  <2>7. SilentBlock(c2, cs[k].localsBlock)
    <3>1. c2[cs[k].localsBlock] = c[cs[k].localsBlock]
      BY <1>3, <2>4, <2>5 DEF Kept
    <3>2. QED
      BY <2>6, <3>1 DEF SilentBlock
  <2>8. ContextAt(a, c2, w2, cs[k], h[k])
    <3>1. k \in (Len(es) + 1)..Len(cs)
      BY <2>2 DEF e
    <3>2. QED
      BY <1>1, <1>4, <1>8, <1>9, <2>7, <3>1, ContextsStay
  <2>9. QED
    BY <2>3, <2>8
<1>17. ControlAt(a, c2, w2, Last(vs2), b2)
  <2>1. Last(vs2) = under
    BY <1>5, <1>6 DEF Last, under
  <2> DEFINE kids == Children(a, under.at, under.role)
  <2>2. n \in kids
    BY <1>7 DEF Children
  <2>3. \A m \in kids : m <= n
    <3> TAKE m \in kids
    <3>1. m \in 1..Len(a) /\ a[m].parent = a[n].parent
      BY <1>7 DEF Children
    <3>2. QED
      BY <1>1, <1>2, <1>7, <3>1, OpenIsLast
  <2>4. ASSUME NEW m \in kids, Latest(kids, m) PROVE Here(c2, b2) = w2[m].after
    <3>1. n <= m /\ m <= n /\ m \in 1..Len(a)
      BY <2>2, <2>3, <2>4 DEF Latest, Children
    <3>2. m = n
      BY <1>5, <1>7, <3>1
    <3>3. QED
      BY <1>4, <3>2
  <2> HIDE DEF kids
  <2>5. QED
    BY <2>1, <2>2, <2>4 DEF ControlAt, kids
<1>18. Starts(a, c2, w2, es)
  <2>1. \A m \in 1..Len(a) : a[m].kind = "fun" => m \in 1..Len(a)
    OBVIOUS
  <2>2. QED
    BY <1>1, <1>2, <1>4, <1>9, <2>1, StartsStay
<1>19. QED
  BY <1>2, <1>4, <1>10, <1>11, <1>15, <1>16, <1>17, <1>18 DEF Sim, vs2, e
-----------------------------------------------------------------------------
(* From the true case of an if to the false one. *)
LEMMA EndThenSim ==
  ASSUME NEW a, NEW c, NEW es, NEW cs, NEW vs, NEW b, Ground(a, c, es, cs, vs, b),
         NEW h, NEW w, Sim(a, c, es, cs, vs, b, h, w),
         Last(vs).role = "then", Last(vs).done,
         NEW c2, c2 = append(c, b, JMP(Last(vs).merge)),
         NEW done \in BOOLEAN,
         NEW fr, fr = Frame(Last(vs).at, "else", done, Null, Null, Last(vs).merge)
  PROVE  Sim(a, c2, es, cs, Append(Front(vs), fr), Last(vs).alt, h, w)
<1> DEFINE p == PathOf(vs)
           e == Len(es)
           N == Len(vs)
           top == Last(vs)
           n == Last(vs).at
           vs2 == Append(Front(vs), fr)
<1>1. /\ a \in Seq(NodeType) /\ c \in Seq(Seq(Insn)) /\ es \in Seq(Nat) /\ cs \in Seq(ContextType)
      /\ vs \in Seq(FrameType) /\ vs # <<>> /\ b \in 1..Len(c)
  BY DEF Ground
<1>2. /\ Tree(a) /\ Path(a, p) /\ Held(a, p, e, cs, h) /\ Stacked(a, vs) /\ Laid(a, c, vs, w)
      /\ AllPlaced(a, c, w) /\ Starts(a, c, w, es) /\ ControlAt(a, c, w, top, b)
  BY <1>1 DEF Sim
<1>3. /\ N \in Nat /\ N \in 1..N /\ top = vs[N] /\ top \in FrameType
      /\ p \in Seq(Nat) /\ Len(p) = N /\ \A i \in 1..N : p[i] = vs[i].at
      /\ Len(a) \in Nat /\ \A i \in 1..N : p[i] \in 1..Len(a)
  <2>1. N \in Nat /\ N \in 1..N /\ top = vs[N] /\ top \in FrameType
    BY <1>1, TopIs, LenProperties
  <2>2. p \in Seq(Nat) /\ Len(p) = N /\ \A i \in 1..N : p[i] = vs[i].at
    BY <1>1, PathIs
  <2>3. Len(a) \in Nat /\ \A i \in 1..N : p[i] \in 1..Len(a)
    BY <1>1, <1>2, <2>2, NodeFacts DEF Path
  <2>4. QED
    BY <2>1, <2>2, <2>3
<1>4. /\ top.alt \in 1..Len(c) /\ top.merge \in 1..Len(c) /\ top.alt # b /\ top.merge # b
      /\ top.alt \in Pending(top) /\ top.merge \in Pending(top) /\ top.merge \in Nat
  <2>1. Pending(top) = {top.alt, top.merge}
    BY DEF Pending
  <2>2. \A y \in Pending(top) : y \in 1..Len(c) /\ y # b
    BY <1>3 DEF Ground
  <2>3. \A f \in FrameType : f.merge \in Nat
    BY DEF FrameType
  <2>4. QED
    BY <1>3, <2>1, <2>2, <2>3
<1>5. /\ fr \in FrameType /\ fr.at = n /\ fr.role = "else" /\ fr.merge = top.merge /\ fr.done = done
  BY <1>3 DEF Frame, FrameType, Roles, Null
<1>6. /\ vs2 \in Seq(FrameType) /\ Len(vs2) = N /\ vs2[N] = fr
      /\ \A i \in 1..N : i # N => vs2[i] = vs[i]
      /\ \A i \in 1..N : vs2[i].at = vs[i].at
  <2>1. /\ Front(vs) \in Seq(FrameType) /\ Len(Front(vs)) = N - 1
        /\ \A i \in 1..(N - 1) : Front(vs)[i] = vs[i]
    BY <1>1, FrontLast
  <2>2. /\ vs2 \in Seq(FrameType) /\ Len(vs2) = Len(Front(vs)) + 1 /\ vs2[Len(Front(vs)) + 1] = fr
        /\ \A i \in 1..Len(Front(vs)) : vs2[i] = Front(vs)[i]
    BY <1>5, <2>1, AppendProperties
  <2> HIDE DEF vs2
  <2>3. Len(vs2) = N /\ vs2[N] = fr
    BY <1>3, <2>1, <2>2
  <2>4. \A i \in 1..N : i # N => vs2[i] = vs[i]
    <3> TAKE i \in 1..N
    <3>1. i # N => i \in 1..(N - 1)
      BY <1>3
    <3>2. QED
      BY <2>1, <2>2, <3>1
  <2>5. \A i \in 1..N : vs2[i].at = vs[i].at
    <3> TAKE i \in 1..N
    <3>1. CASE i = N
      BY <1>3, <1>5, <2>3, <3>1
    <3>2. CASE i # N
      BY <2>4, <3>2
    <3>3. QED
      BY <3>1, <3>2
  <2>6. QED
    BY <2>2, <2>3, <2>4, <2>5
<1> HIDE DEF vs2
<1>7. PathOf(vs2) = p /\ OpenNodes(vs2) = OpenNodes(vs)
  BY <1>6 DEF PathOf, OpenNodes
<1>8. /\ Kept(c, c2, {b}) /\ Grown(c, c2) /\ Holds(c2, Here(c, b), JMP(top.merge))
      /\ Len(c2) = Len(c)
  <2> DEFINE i == JMP(top.merge)
  <2>1. i \in Insn
    BY <1>4, Instructions
  <2>2. c \in Seq(Seq(Insn)) /\ b \in 1..Len(c) /\ c2 = append(c, b, i)
    BY <1>1
  <2> HIDE DEF i
  <2>3. Kept(c, c2, {b}) /\ Len(c2) = Len(c) /\ Holds(c2, Here(c, b), i)
    BY <2>1, <2>2, AppendKeeps
  <2>4. QED
    BY <2>3 DEF Kept, i
<1>9. /\ \A q, r : Leads(c, q, r) => Leads(c2, q, r)
      /\ Leads(c2, Here(c, b), Start(top.merge))
      /\ Prefix(a, a) /\ Agree(a, w, w, 0) /\ BlockOr0(a, 0)
  BY <1>1, <1>3, <1>8, GrownKeeps, LeadsJump, PrefixSelf DEF Agree, BlockOr0
<1>10. FrameAt(a, c, w, top)
  BY <1>2, <1>3 DEF Laid
<1>11. c2[top.alt] = <<>> /\ c2[top.merge] = <<>>
  <2>1. c[top.alt] = <<>> /\ c[top.merge] = <<>>
    BY <1>4, <1>10 DEF FrameAt
  <2>2. QED
    BY <1>4, <1>8, <2>1 DEF Kept
<1>12. /\ Children(a, n, "else") = {} /\ Children(a, n, "then") # {}
       /\ w[n].alt = Start(top.alt) /\ w[n].after = Start(top.merge)
       /\ "else" \in RoleOf(a[n].kind)
       /\ \A l, m \in Children(a, n, "then") : l = m
  <2> DEFINE k == a[n].kind
  <2>1. top.role = "then" /\ top.done
    OBVIOUS
  <2>2. Children(a, n, "else") = {} /\ w[n].alt = Start(top.alt)
    BY <1>10, <2>1 DEF FrameAt
  <2>3. w[n].after = Start(top.merge)
    BY <1>10, <2>1 DEF FrameAt
  <2>4. Children(a, n, "then") # {} /\ \A l, m \in Children(a, n, "then") : l = m
    BY <1>10, <2>1 DEF FrameAt
  <2>5. "then" \in RoleOf(k)
    BY <1>10, <2>1 DEF FrameAt
  <2>9. k # "then"
    <3>1. n \in 1..Len(a)
      BY <1>3
    <3>2. a[n] \in NodeType
      BY <1>1, <3>1, NodeFacts
    <3>3. QED
      BY <3>2 DEF NodeType, Compound, Simple
  <2> HIDE DEF k
  <2>6. k = "if"
    BY <2>5, <2>9 DEF RoleOf
  <2>7. "else" \in RoleOf(k)
    BY <2>6 DEF RoleOf
  <2>8. QED
    BY <2>2, <2>3, <2>4, <2>7 DEF k
<1>13. \A m \in Children(a, n, "then") : Leads(c2, w[m].after, w[n].after)
  <2> TAKE m \in Children(a, n, "then")
  <2>1. Latest(Children(a, n, "then"), m)
    <3>1. \A k \in Children(a, n, "then") : k = m /\ k \in Nat
      BY <1>12 DEF Children
    <3>2. QED
      BY <3>1 DEF Latest
  <2>2. Here(c, b) = w[m].after
    BY <1>2, <2>1 DEF ControlAt
  <2>3. QED
    BY <1>9, <1>12, <2>2
<1>14. FrameAt(a, c2, w, fr)
  <2>1. Pending(fr) = {top.merge}
    BY <1>5 DEF Pending
  <2>2. QED
    BY <1>5, <1>11, <1>12, <1>13, <2>1 DEF FrameAt
<1>15. ASSUME NEW i \in 1..N, i # N PROVE FrameAt(a, c2, w, vs[i])
  <2> DEFINE f == vs[i]
  <2>1. /\ f.at \in 1..Len(a) /\ f.at # 0
        /\ \A role : Children(a, f.at, role) = Children(a, f.at, role)
        /\ f.role = "else" => 0 \notin Children(a, f.at, "then")
        /\ \A y \in Pending(f) : y \in 1..Len(c) /\ y \notin {b}
        /\ FrameAt(a, c, w, f)
    <3>1. f.at = p[i] /\ p[i] \in 1..Len(a)
      BY <1>3
    <3>2. 0 \notin 1..Len(a)
      BY <1>3
    <3>3. QED
      BY <1>2, <3>1, <3>2 DEF Ground, Laid, Children
  <2> HIDE DEF f
  <2>2. FrameAt(a, c2, w, f)
    BY <1>1, <1>8, <1>9, <2>1, FrameStays
  <2>3. QED
    BY <2>2 DEF f
<1>16. Laid(a, c2, vs2, w)
  <2>1. \A m \in 1..Len(a) : Entered(a, c2, w, m) /\ Started(a, w, m)
    <3> TAKE m \in 1..Len(a)
    <3>1. Entered(a, c, w, m) /\ Started(a, w, m)
      BY <1>2 DEF Laid
    <3>2. QED
      BY <1>1, <1>2, <1>8, <1>9, <3>1, EnteredStays
  <2>2. ASSUME NEW m \in 1..Len(a), m \notin OpenNodes(vs2) PROVE Left(a, c2, w, m)
    <3>1. Left(a, c, w, m)
      BY <1>2, <1>7, <2>2 DEF Laid
    <3>2. \A role : Children(a, m, role) = Children(a, m, role) /\ 0 \notin Children(a, m, role)
      <4>1. 0 \notin 1..Len(a)
        BY <1>3
      <4>2. QED
        BY <4>1 DEF Children
    <3>3. m # 0
      BY <1>3
    <3>4. a \in Seq(NodeType) /\ Prefix(a, a) /\ Grown(c, c2) /\ Agree(a, w, w, 0)
      BY <1>1, <1>8, <1>9
    <3>5. QED
      BY <3>1, <3>2, <3>3, <3>4, LeftStays
  <2>3. \A i \in 1..Len(vs2) : FrameAt(a, c2, w, vs2[i])
    BY <1>6, <1>14, <1>15
  <2>4. QED
    BY <1>2, <2>1, <2>2, <2>3 DEF Laid
<1>17. Stacked(a, vs2)
  <2> SUFFICES ASSUME NEW i \in 1..N, i > 1
               PROVE  a[vs2[i].at].role = vs2[i - 1].role /\ vs2[i - 1].done
    BY <1>6 DEF Stacked
  <2>1. i - 1 \in 1..N /\ i - 1 # N
    BY <1>3
  <2>2. a[vs[i].at].role = vs[i - 1].role /\ vs[i - 1].done
    BY <1>2 DEF Stacked
  <2>3. QED
    BY <1>6, <2>1, <2>2
<1>18. ControlAt(a, c2, w, Last(vs2), top.alt)
  <2>1. Last(vs2) = fr
    BY <1>6 DEF Last
  <2>2. Here(c2, top.alt) = Start(top.alt)
    BY <1>11 DEF Here, Start
  <2>3. StartOf(w[fr.at], fr.role) = Start(top.alt)
    BY <1>5, <1>12 DEF StartOf
  <2>4. QED
    BY <1>5, <1>12, <2>1, <2>2, <2>3 DEF ControlAt
<1>19. ASSUME NEW k \in (Len(es) + 1)..Len(cs) PROVE ContextAt(a, c2, w, cs[k], h[k])
  <2>1. SilentBlock(c, cs[k].localsBlock)
    BY DEF Sim, ContextAt
  <2>2. cs[k].localsBlock \in 1..Len(c) /\ cs[k].localsBlock # b
    BY DEF Ground
  <2>3. SilentBlock(c2, cs[k].localsBlock)
    BY <1>8, <2>1, <2>2 DEF Kept, SilentBlock
  <2>4. QED
    BY <1>9, <2>3, ContextsStay
<1>20. AllPlaced(a, c2, w)
  <2>1. JMP(top.merge) \in Insn /\ JMP(top.merge).op \notin Visible
    BY <1>4, Instructions DEF Visible
  <2>2. QED
    BY <1>1, <1>2, <2>1, PlacedOn
<1>21. Starts(a, c2, w, es)
  <2>1. \A m \in 1..Len(a) : a[m].kind = "fun" => m \in 1..Len(a)
    OBVIOUS
  <2>2. /\ a \in Seq(NodeType) /\ Prefix(a, a) /\ Grown(c, c2) /\ Agree(a, w, w, 0)
        /\ Starts(a, c, w, es)
    BY <1>1, <1>2, <1>8, <1>9
  <2>3. QED
    BY <2>1, <2>2, StartsStay
<1>22. QED
  BY <1>2, <1>7, <1>16, <1>17, <1>18, <1>19, <1>20, <1>21 DEF Sim, vs2
-----------------------------------------------------------------------------
(* Blocks kept but for one set are kept but for a greater one.             *)
LEMMA KeptLess ==
  ASSUME NEW c, NEW d, NEW T, Kept(c, d, T), NEW U, \A y \in T : y \in 1..Len(c) => y \in U
  PROVE  Kept(c, d, U)
BY DEF Kept

(* A statement that writes to the current block and to new ones only. *)
LEMMA NearHere ==
  ASSUME NEW a, NEW c, NEW es, NEW cs, NEW vs, NEW b, Ground(a, c, es, cs, vs, b),
         NEW c2, NEW T, Kept(c, c2, T), \A y \in T : y \in 1..Len(c) => y = b
  PROVE  Near(c, Len(es), cs, b, c2, {b})
<1>1. Kept(c, c2, {b})
  BY KeptLess
<1>2. ASSUME Len(cs) > Len(es), SilentBlock(c, Last(cs).localsBlock)
      PROVE  SilentBlock(c2, Last(cs).localsBlock)
  <2>1. Len(cs) \in (Len(es) + 1)..Len(cs) /\ Last(cs) = cs[Len(cs)]
    <3>1. Len(cs) \in Nat /\ Len(es) \in Nat
      BY LenProperties DEF Ground
    <3>2. QED
      BY <1>2, <3>1 DEF Last
  <2>2. Last(cs).localsBlock \in 1..Len(c) /\ Last(cs).localsBlock # b
    BY <2>1 DEF Ground
  <2>3. c2[Last(cs).localsBlock] = c[Last(cs).localsBlock]
    BY <1>1, <2>2 DEF Kept
  <2>4. QED
    BY <1>2, <2>3 DEF SilentBlock
<1>3. QED
  BY <1>1, <1>2 DEF Near

(* ... and one that declares a variable before *)
LEMMA NearLocals ==
  ASSUME NEW a, NEW c, NEW es, NEW cs, NEW vs, NEW b, Ground(a, c, es, cs, vs, b), Len(cs) > Len(es),
         NEW n \in Nat, NEW c1, c1 = append(c, Last(cs).localsBlock, INS("ALLOCA", n)),
         NEW c2, NEW T, Kept(c1, c2, T), \A y \in T : y \in 1..Len(c) => y = b
  PROVE  Near(c, Len(es), cs, b, c2, {b, Last(cs).localsBlock})
<1> DEFINE lb == Last(cs).localsBlock
           i == INS("ALLOCA", n)
<1>1. lb \in 1..Len(c) /\ lb # b /\ c \in Seq(Seq(Insn)) /\ b \in 1..Len(c)
  <2>1. Len(cs) \in (Len(es) + 1)..Len(cs) /\ Last(cs) = cs[Len(cs)]
    <3>1. Len(cs) \in Nat /\ Len(es) \in Nat
      BY LenProperties DEF Ground
    <3>2. QED
      BY <3>1 DEF Last
  <2>2. QED
    BY <2>1 DEF Ground
<1>2. i \in Insn /\ i.op = "ALLOCA"
  BY Instructions DEF Ops
<1> HIDE DEF lb, i
<1>3. Kept(c, c1, {lb}) /\ c1[lb] = Append(c[lb], i) /\ Len(c1) = Len(c)
  <2>1. c1 = append(c, lb, i)
    BY DEF lb, i
  <2>2. QED
    BY <1>1, <1>2, <2>1, AppendKeeps
<1>4. Kept(c, c2, {b, lb})
  <2>1. Kept(c, c2, {lb} \cup T)
    BY <1>1, <1>3, KeptOn
  <2>2. \A y \in {lb} \cup T : y \in 1..Len(c) => y \in {b, lb}
    OBVIOUS
  <2>3. QED
    BY <2>1, <2>2, KeptLess
<1>5. c2[lb] = c1[lb]
  <2>1. lb \notin T /\ lb \in 1..Len(c1)
    BY <1>1, <1>3
  <2>2. QED
    BY <2>1 DEF Kept
<1>6. SilentBlock(c, lb) => SilentBlock(c2, lb)
  <2> SUFFICES ASSUME SilentBlock(c, lb) PROVE SilentBlock(c2, lb)
    OBVIOUS
  <2>1. c[lb] \in Seq(Insn)
    BY <1>1, ElementOfSeq
  <2> DEFINE more == Append(c[lb], i)
  <2>2. /\ Len(more) = Len(c[lb]) + 1 /\ Len(c[lb]) \in Nat /\ more[Len(c[lb]) + 1] = i
        /\ \A m \in 1..Len(c[lb]) : more[m] = c[lb][m]
    BY <1>2, <2>1, AppendProperties, LenProperties
  <2>3. c2[lb] = more
    BY <1>3, <1>5
  <2> HIDE DEF more
  <2>4. \A m \in 1..Len(more) : m \in 1..Len(c[lb]) \/ m = Len(c[lb]) + 1
    BY <2>2
  <2>5. \A m \in 1..Len(more) : more[m].op \in {"ALLOCA", "ST"}
    BY <1>2, <2>2, <2>4 DEF SilentBlock
  <2>6. QED
    BY <2>3, <2>5 DEF SilentBlock
<1>7. QED
  BY <1>4, <1>6 DEF Near, lb
-----------------------------------------------------------------------------
(* Whatever is around the innermost open node is open. *)
LEMMA InsideOpen ==
  ASSUME NEW a \in Seq(NodeType), NEW p \in Seq(Nat), p # <<>>, Path(a, p),
         NEW m \in 1..Len(a), Inside(a, p[Len(p)], m)
  PROVE  \E i \in 1..Len(p) : p[i] = m
<1> DEFINE N == Len(p)
           S == {i \in 1..N : p[i] >= m}
<1>1. N \in Nat /\ N \in 1..N /\ Len(a) \in Nat /\ m \in Nat
  BY LenProperties
<1>2. \A i \in 1..N : p[i] \in 1..Len(a) /\ a[p[i]].parent = IF i = 1 THEN 0 ELSE p[i - 1]
  BY DEF Path
<1>3. \A i \in 1..N : p[i] <= p[N]
  <2> TAKE i \in 1..N
  <2>1. i < N => p[i] < p[N]
    BY <1>1 DEF Path
  <2>2. QED
    BY <1>1, <1>2, <2>1
<1>4. m <= p[N] /\ \A k \in (m + 1)..p[N] : a[k].parent >= m
  BY DEF Inside
<1>5. S \in SUBSET Nat /\ N \in S
  BY <1>1, <1>4
<1>6. PICK i \in S : \A k \in S : i <= k
  BY <1>5, Least
<1>7. CASE p[i] = m
  BY <1>7
<1>8. CASE p[i] # m
  <2>1. p[i] \in (m + 1)..p[N]
    BY <1>1, <1>2, <1>3, <1>8
  <2>2. a[p[i]].parent >= m
    BY <1>4, <2>1
  <2>3. i # 1
    BY <1>1, <1>2, <2>2
  <2>4. i - 1 \in 1..N /\ p[i - 1] >= m
    BY <1>1, <1>2, <2>2, <2>3
  <2>5. i <= i - 1
    BY <1>6, <2>4
  <2>6. QED
    BY <1>1, <2>5
<1>9. QED
  BY <1>7, <1>8

(* The path with the newest node at its end *)
LEMMA PathOn ==
  ASSUME NEW p \in Seq(Nat), NEW n \in Nat, NEW p2, p2 = Append(p, n)
  PROVE  /\ p2 \in Seq(Nat) /\ p2 # <<>> /\ Len(p2) = Len(p) + 1 /\ p2[Len(p2)] = n
         /\ Len(p) \in Nat /\ \A i \in 1..Len(p) : p2[i] = p[i] /\ p[i] \in Nat
         /\ \A i \in 1..Len(p2) : i \in 1..Len(p) \/ i = Len(p) + 1
<1>1. /\ p2 \in Seq(Nat) /\ Len(p2) = Len(p) + 1 /\ p2[Len(p) + 1] = n
      /\ \A i \in 1..Len(p) : p2[i] = p[i]
  BY AppendProperties
<1>2. Len(p) \in Nat
  BY LenProperties
<1>3. \A i \in 1..Len(p) : p[i] \in Nat
  BY ElementOfSeq
<1>4. p2 # <<>>
  BY <1>1, <1>2
<1>5. \A i \in 1..Len(p2) : i \in 1..Len(p) \/ i = Len(p) + 1
  BY <1>1, <1>2
<1>6. QED
  BY <1>1, <1>2, <1>3, <1>4, <1>5

(* L is the loop the jump n goes to: the one around it, or a stale one; 0 if  *)
(* there is none.                                                          *)
GoesTo(a, n, L) ==
  /\ L # 0 => /\ L \in 1..(n - 1)
              /\ a[L].kind \in Loops
              /\ L = EnclosingLoop(a, n) \/ StaleIn(a, n)
  /\ L = 0 => EnclosingLoop(a, n) = 0

(* The loop the context of a new jump knows is the one around the jump, or   *)
(* a stale one.                                                            *)
LEMMA TopLoop ==
  ASSUME NEW a \in Seq(NodeType), Tree(a), NEW p \in Seq(Nat), NEW p2, p2 = Append(p, Len(a)),
         Path(a, p2), NEW e \in Nat, NEW cs, Len(cs) \in Nat, Len(cs) > e, NEW h, Held(a, p, e, cs, h),
         Len(a) > 0, a[Len(a)].kind \notin Loops
  PROVE  GoesTo(a, Len(a), h[Len(cs)].loop)
<1> DEFINE n == Len(a)
           K == Len(cs)
           L == h[K].loop
           E == EnclosingLoop(a, n)
<1>1. n \in Nat /\ n \in Nat \ {0} /\ K \in (e + 1)..K /\ L \in Nat
  <2>1. n \in Nat /\ K \in (e + 1)..K /\ K \in 1..K
    BY LenProperties
  <2>2. h \in Seq(HeldType) /\ Len(h) = K
    BY DEF Held, HeldTargets, HeldBlocks, HeldLoops, HeldInner
  <2>3. h[K] \in HeldType
    BY <2>1, <2>2, ElementOfSeq
  <2>4. QED
    BY <2>1, <2>3 DEF HeldType
<1>2. /\ p2 \in Seq(Nat) /\ p2 # <<>> /\ Len(p2) = Len(p) + 1 /\ p2[Len(p2)] = n /\ Len(p) \in Nat
      /\ \A i \in 1..Len(p) : p2[i] = p[i]
      /\ \A i \in 1..Len(p2) : i \in 1..Len(p) \/ i = Len(p) + 1
  BY <1>1, PathOn
<1>3. \A m \in 1..(n - 1) : Inside(a, n, m) => \E i \in 1..Len(p) : p[i] = m
  <2> SUFFICES ASSUME NEW m \in 1..(n - 1), Inside(a, n, m) PROVE \E i \in 1..Len(p) : p[i] = m
    OBVIOUS
  <2>1. m \in 1..Len(a) /\ Inside(a, p2[Len(p2)], m)
    BY <1>1, <1>2
  <2>2. PICK i \in 1..Len(p2) : p2[i] = m
    BY <1>2, <2>1, InsideOpen
  <2>3. i # Len(p) + 1
    BY <1>1, <1>2, <2>2
  <2>4. QED
    BY <1>2, <2>2, <2>3
<1>4. /\ E \in 0..(n - 1)
      /\ E # 0 => a[E].kind \in Loops /\ Inside(a, n, E)
      /\ \A m \in 1..(n - 1) : a[m].kind \in Loops /\ Inside(a, n, m) => m <= E
  BY <1>1, EnclosingLoopIs
<1>5. \A i \in 1..Len(p) : a[p[i]].kind \in Loops => p[i] <= L
  BY <1>1 DEF Held, HeldTargets, HeldBlocks, HeldLoops, HeldInner
<1>6. E <= L
  <2>1. CASE E = 0
    BY <1>1, <2>1
  <2>2. CASE E # 0
    <3>1. E \in 1..(n - 1)
      BY <1>1, <1>4, <2>2
    <3>2. PICK i \in 1..Len(p) : p[i] = E
      BY <1>3, <1>4, <2>2, <3>1
    <3>3. QED
      BY <1>4, <1>5, <2>2, <3>2
  <2>3. QED
    BY <2>1, <2>2
<1>7. ASSUME L # 0
      PROVE  L \in 1..(n - 1) /\ a[L].kind \in Loops /\ (L = E \/ StaleIn(a, n))
  <2>1. L \in 1..n /\ a[L].kind \in Loops /\ \E j \in (e + 1)..K : EnclosingBlock(a, L) = h[j].block
    BY <1>1, <1>7 DEF Held, HeldTargets, HeldBlocks, HeldLoops, HeldInner
  <2>2. L # n /\ L \in 1..(n - 1)
    BY <1>1, <2>1
  <2>3. PICK i \in 1..Len(p) : p[i] = EnclosingBlock(a, L)
    <3>1. PICK j \in (e + 1)..K : EnclosingBlock(a, L) = h[j].block
      BY <2>1
    <3>2. QED
      BY <3>1 DEF Held, HeldTargets, HeldBlocks, HeldLoops, HeldInner
  <2>4. Inside(a, n, EnclosingBlock(a, L))
    <3>1. i \in 1..Len(p2) /\ p2[i] = EnclosingBlock(a, L)
      BY <1>2, <2>3
    <3>2. QED
      BY <3>1 DEF Path
  <2>5. L # E => StaleIn(a, n)
    <3> SUFFICES ASSUME L # E PROVE StaleIn(a, n)
      OBVIOUS
    <3>1. L \in (E + 1)..(n - 1)
      <4>1. E \in Nat /\ L \in Nat /\ E <= L /\ L \in 1..(n - 1)
        BY <1>1, <1>4, <1>6, <2>2
      <4> HIDE DEF E, L
      <4>2. QED
        BY <1>1, <4>1
    <3>2. ~Inside(a, n, L)
      <4>1. Inside(a, n, L) => L <= E
        BY <1>4, <2>1, <2>2
      <4>2. ~(L <= E)
        BY <1>1, <1>4, <1>6
      <4> HIDE DEF n, E, L
      <4>3. QED
        BY <4>1, <4>2
    <3>3. QED
      BY <2>1, <2>4, <3>1, <3>2 DEF StaleIn
  <2>6. QED
    BY <2>1, <2>2, <2>5
<1>8. L = 0 => E = 0
  BY <1>1, <1>4, <1>6
<1>9. QED
  BY <1>7, <1>8 DEF GoesTo
-----------------------------------------------------------------------------
(* The contexts say the same of a path with one more node that is neither a  *)
(* block nor a loop.                                                       *)
LEMMA HeldPlain ==
  ASSUME NEW a, NEW p \in Seq(Nat), NEW n \in Nat, NEW p2, p2 = Append(p, n),
         a[n].kind # "block", a[n].kind \notin Loops,
         NEW e, NEW cs, NEW h, Held(a, p, e, cs, h)
  PROVE  Held(a, p2, e, cs, h)
<1>1. /\ Len(p2) = Len(p) + 1 /\ p2[Len(p) + 1] = n /\ Len(p) \in Nat
      /\ \A i \in 1..Len(p) : p2[i] = p[i] /\ i \in 1..Len(p2)
      /\ \A i \in 1..Len(p2) : i \in 1..Len(p) \/ i = Len(p) + 1
  <2>1. /\ Len(p2) = Len(p) + 1 /\ p2[Len(p2)] = n /\ Len(p) \in Nat
        /\ \A i \in 1..Len(p) : p2[i] = p[i]
        /\ \A i \in 1..Len(p2) : i \in 1..Len(p) \/ i = Len(p) + 1
    BY PathOn
  <2>2. QED
    BY <2>1
<1>2. \A i \in 1..Len(p2) : a[p2[i]].kind = "block" \/ a[p2[i]].kind \in Loops => i \in 1..Len(p)
  BY <1>1
<1>3. \A k \in (e + 1)..Len(cs) : \E i \in 1..Len(p2) : p2[i] = h[k].block /\ a[p2[i]].kind = "block"
  <2> TAKE k \in (e + 1)..Len(cs)
  <2>1. PICK i \in 1..Len(p) : p[i] = h[k].block /\ a[p[i]].kind = "block"
    BY DEF Held, HeldTargets, HeldBlocks, HeldLoops, HeldInner
  <2>2. QED
    BY <1>1, <2>1
<1>4. \A i \in 1..Len(p2) : a[p2[i]].kind = "block" => \E k \in (e + 1)..Len(cs) : h[k].block = p2[i]
  <2> SUFFICES ASSUME NEW i \in 1..Len(p2), a[p2[i]].kind = "block"
               PROVE  \E k \in (e + 1)..Len(cs) : h[k].block = p2[i]
    OBVIOUS
  <2>1. i \in 1..Len(p) /\ p2[i] = p[i]
    BY <1>1, <1>2
  <2>2. QED
    BY <2>1 DEF Held, HeldTargets, HeldBlocks, HeldLoops, HeldInner
<1>5. \A k \in (e + 1)..Len(cs), i \in 1..Len(p2) :
        a[p2[i]].kind \in Loops /\ (k = Len(cs) \/ p2[i] < h[k + 1].block) => p2[i] <= h[k].loop
  <2> SUFFICES ASSUME NEW k \in (e + 1)..Len(cs), NEW i \in 1..Len(p2),
                      a[p2[i]].kind \in Loops, k = Len(cs) \/ p2[i] < h[k + 1].block
               PROVE  p2[i] <= h[k].loop
    OBVIOUS
  <2>1. i \in 1..Len(p) /\ p2[i] = p[i]
    BY <1>1, <1>2
  <2>2. QED
    BY <2>1 DEF Held, HeldTargets, HeldBlocks, HeldLoops, HeldInner
<1>6. QED
  BY <1>3, <1>4, <1>5 DEF Held, HeldTargets, HeldBlocks, HeldLoops, HeldInner
-----------------------------------------------------------------------------
(* p2 is p with n after it. *)
Onto(p, n, p2) ==
  /\ p2 \in Seq(Nat) /\ p2 # <<>> /\ Len(p2) = Len(p) + 1 /\ p2[Len(p2)] = n
  /\ \A i \in 1..Len(p) : p2[i] = p[i] /\ p[i] \in Nat

(* A path with the new node at its end.                                    *)
LEMMA OntoPath ==
  ASSUME NEW p \in Seq(Nat), NEW n \in Nat
  PROVE  Onto(p, n, Append(p, n))
<1> DEFINE p2 == Append(p, n)
<1>1. p2 = Append(p, n)
  OBVIOUS
<1> HIDE DEF p2
<1>2. QED
  BY <1>1, PathOn DEF Onto

(* enterBlock: cx, the context of the block, is on top of cs2. *)
InBlock(cs, cx, cs2) ==
  /\ cx.breakBlock = Last(cs).breakBlock /\ cx.continueBlock = Last(cs).continueBlock
  /\ Len(cs2) = Len(cs) + 1 /\ cs2[Len(cs) + 1] = cx /\ \A k \in 1..Len(cs) : cs2[k] = cs[k]

(* What the new context is for: block n, and the loop of the context around  *)
HeldOn(h, n) == Append(h, [block |-> n, loop |-> h[Len(h)].loop])
(* the stack with a new call on top                                        *)
OnTop(cs, h, n, h2) ==
  /\ \A k \in 1..Len(cs) : h2[k] = h[k]
  /\ h2[Len(cs) + 1].block = n
  /\ h2[Len(cs) + 1].loop = h[Len(cs)].loop

(* ... with one more block, whose context knows the same loop as the one     *)
(* around it                                                               *)
LEMMA HeldBlock ==
  ASSUME NEW a \in Seq(NodeType), Tree(a), NEW p \in Seq(Nat), p # <<>>, NEW n \in Nat,
         NEW p2, Onto(p, n, p2), Path(a, p2), a[n].kind = "block",
         NEW e \in Nat \ {0}, NEW cs \in Seq(ContextType), Len(cs) >= e, Len(p) >= 2 => Len(cs) > e,
         NEW h, Held(a, p, e, cs, h), NEW cx, NEW cs2, InBlock(cs, cx, cs2)
  PROVE  /\ Held(a, p2, e, cs2, HeldOn(h, n))
         /\ OnTop(cs, h, n, HeldOn(h, n))
<1> DEFINE h2 == HeldOn(h, n)
<1> DEFINE K == Len(cs)
           new == [block |-> n, loop |-> h[K].loop]
<1>1. /\ K \in Nat /\ K \in 1..K /\ K >= e /\ Last(cs) = cs[K]
      /\ h \in Seq(HeldType) /\ Len(h) = K /\ \A k \in 1..K : h[k] \in HeldType
  <2>1. K \in Nat /\ K \in 1..K /\ K >= e /\ Last(cs) = cs[K]
    BY LenProperties DEF Last
  <2>2. h \in Seq(HeldType) /\ Len(h) = K
    BY DEF Held, HeldTargets, HeldBlocks, HeldLoops, HeldInner
  <2>3. \A k \in 1..K : h[k] \in HeldType
    BY <2>2, ElementOfSeq
  <2>4. QED
    BY <2>1, <2>2, <2>3
<1>2. \A k \in 1..K : h[k].block \in Nat /\ h[k].loop \in Nat
  BY <1>1 DEF HeldType
<1>3. new \in HeldType /\ new.block = n /\ new.loop = h[K].loop
  BY <1>1, <1>2 DEF HeldType
<1>4. /\ h2 \in Seq(HeldType) /\ Len(h2) = K + 1 /\ h2[K + 1] = new
      /\ \A k \in 1..K : h2[k] = h[k]
  <2> HIDE DEF new
  <2>1. h2 = Append(h, new)
    BY <1>1 DEF new, HeldOn
  <2>2. QED
    BY <1>1, <1>3, <2>1, AppendProperties
<1>5. /\ p2 \in Seq(Nat) /\ Len(p2) = Len(p) + 1 /\ Len(p) \in Nat /\ Len(p) >= 1
      /\ p2[Len(p) + 1] = n
      /\ \A i \in 1..Len(p) : p2[i] = p[i] /\ p[i] \in Nat /\ i \in 1..Len(p2) /\ p[i] < n
      /\ \A i \in 1..Len(p2) : i \in 1..Len(p) \/ i = Len(p) + 1
  <2>1. /\ p2 \in Seq(Nat) /\ Len(p2) = Len(p) + 1 /\ Len(p) \in Nat
        /\ p2[Len(p2)] = n
        /\ \A i \in 1..Len(p) : p2[i] = p[i] /\ p[i] \in Nat
        /\ \A i \in 1..Len(p2) : i \in 1..Len(p) \/ i = Len(p) + 1
    BY LenProperties DEF Onto
  <2>2. Len(p) # 0
    BY EmptySeq
  <2>3. \A i \in 1..Len(p) : i \in 1..Len(p2) /\ p[i] < n
    <3> TAKE i \in 1..Len(p)
    <3>1. i \in 1..Len(p2) /\ Len(p2) \in 1..Len(p2) /\ i < Len(p2)
      <4>1. Len(p) \in Nat /\ Len(p2) = Len(p) + 1
        BY <2>1
      <4>2. QED
        BY <4>1
    <3>2. p2[i] < p2[Len(p2)]
      BY <3>1 DEF Path
    <3>3. QED
      BY <2>1, <3>1, <3>2
  <2>4. QED
    BY <2>1, <2>2, <2>3
<1> HIDE DEF K, new, h2
<1>6. /\ Len(cs2) = K + 1 /\ cs2[K + 1] = cx /\ \A k \in 1..K : cs2[k] = cs[k]
      /\ \A k \in (e + 1)..(K + 1) : k \in (e + 1)..K \/ k = K + 1
      /\ \A k \in (e + 1)..K : k \in 1..K /\ k \in 1..(K + 1) /\ k \in (e + 1)..(K + 1) /\ k < K + 1
      /\ K + 1 \in (e + 1)..(K + 1)
      /\ \A k \in 1..(K + 1) : k \in 1..K \/ k = K + 1
  BY <1>1 DEF K, InBlock
<1>7. \A k \in 1..e : h2[k].loop = 0
  <2> TAKE k \in 1..e
  <2>1. k \in 1..K
    BY <1>1
  <2>2. h[k].loop = 0
    BY DEF Held, HeldTargets, HeldBlocks, HeldLoops, HeldInner
  <2>3. QED
    BY <1>4, <2>1, <2>2
<1>8. \A k \in 1..(K + 1) : /\ h2[k].loop = 0 <=> cs2[k].breakBlock = Null
                            /\ h2[k].loop = 0 <=> cs2[k].continueBlock = Null
  <2> TAKE k \in 1..(K + 1)
  <2>0. \A j \in 1..K : /\ h[j].loop = 0 <=> cs[j].breakBlock = Null
                        /\ h[j].loop = 0 <=> cs[j].continueBlock = Null
    BY DEF Held, HeldTargets, HeldBlocks, HeldLoops, HeldInner, K
  <2>1. CASE k \in 1..K
    BY <1>4, <1>6, <2>0, <2>1
  <2>2. CASE k = K + 1
    <3>1. cx.breakBlock = cs[K].breakBlock /\ cx.continueBlock = cs[K].continueBlock
      BY <1>1 DEF InBlock
    <3>2. h2[k].loop = h[K].loop /\ cs2[k] = cx
      BY <1>3, <1>4, <1>6, <2>2
    <3>3. QED
      BY <1>1, <2>0, <3>1, <3>2
  <2>3. QED
    BY <1>6, <2>1, <2>2
<1>9. \A k \in (e + 1)..K : \E i \in 1..Len(p) : p[i] = h[k].block /\ a[p[i]].kind = "block"
  BY DEF Held, HeldTargets, HeldBlocks, HeldLoops, HeldInner, K
<1>10. \A k \in (e + 1)..(K + 1) : \E i \in 1..Len(p2) : p2[i] = h2[k].block /\ a[p2[i]].kind = "block"
  <2> TAKE k \in (e + 1)..(K + 1)
  <2>1. CASE k = K + 1
    <3>1. Len(p) + 1 \in 1..Len(p2)
      BY <1>5
    <3>2. QED
      BY <1>3, <1>4, <1>5, <2>1, <3>1
  <2>2. CASE k \in (e + 1)..K
    <3>1. PICK i \in 1..Len(p) : p[i] = h[k].block /\ a[p[i]].kind = "block"
      BY <1>9, <2>2
    <3>2. QED
      BY <1>4, <1>5, <1>6, <2>2, <3>1
  <2>3. QED
    BY <1>6, <2>1, <2>2
<1>11. \A i \in 1..Len(p2) : a[p2[i]].kind = "block" => \E k \in (e + 1)..(K + 1) : h2[k].block = p2[i]
  <2> SUFFICES ASSUME NEW i \in 1..Len(p2), a[p2[i]].kind = "block"
               PROVE  \E k \in (e + 1)..(K + 1) : h2[k].block = p2[i]
    OBVIOUS
  <2>1. CASE i = Len(p) + 1
    BY <1>3, <1>4, <1>5, <1>6, <2>1
  <2>2. CASE i \in 1..Len(p)
    <3>1. p2[i] = p[i]
      BY <1>5, <2>2
    <3>2. PICK k \in (e + 1)..K : h[k].block = p[i]
      BY <2>2, <3>1 DEF Held, HeldTargets, HeldBlocks, HeldLoops, HeldInner, K
    <3>3. QED
      BY <1>4, <1>6, <3>1, <3>2
  <2>3. QED
    BY <1>5, <2>1, <2>2
<1>12. \A k, l \in (e + 1)..(K + 1) : k < l => h2[k].block < h2[l].block
  <2> SUFFICES ASSUME NEW k \in (e + 1)..(K + 1), NEW l \in (e + 1)..(K + 1), k < l
               PROVE  h2[k].block < h2[l].block
    OBVIOUS
  <2>1. k \in (e + 1)..K
    BY <1>1
  <2>2. CASE l \in (e + 1)..K
    <3>1. h[k].block < h[l].block
      BY <2>1, <2>2 DEF Held, HeldTargets, HeldBlocks, HeldLoops, HeldInner, K
    <3>2. QED
      BY <1>4, <1>6, <2>1, <2>2, <3>1
  <2>3. CASE l = K + 1
    <3>1. PICK i \in 1..Len(p) : p[i] = h[k].block
      BY <1>9, <2>1
    <3>2. h2[k].block = h[k].block /\ h2[l].block = n
      BY <1>3, <1>4, <1>6, <2>1, <2>3
    <3>3. p[i] < n
      BY <1>5
    <3>4. QED
      BY <3>1, <3>2, <3>3
  <2>4. QED
    BY <1>6, <2>2, <2>3
<1>13. \A k \in (e + 1)..(K + 1) : h2[k].loop # 0 =>
         /\ h2[k].loop \in 1..Len(a)
         /\ a[h2[k].loop].kind \in Loops
         /\ \E j \in (e + 1)..k : EnclosingBlock(a, h2[k].loop) = h2[j].block
  <2>0. \A k \in (e + 1)..K : h[k].loop # 0 =>
          /\ h[k].loop \in 1..Len(a)
          /\ a[h[k].loop].kind \in Loops
          /\ \E j \in (e + 1)..k : EnclosingBlock(a, h[k].loop) = h[j].block
    BY DEF Held, HeldTargets, HeldBlocks, HeldLoops, HeldInner, K
  <2> SUFFICES ASSUME NEW k \in (e + 1)..(K + 1), h2[k].loop # 0
               PROVE  /\ h2[k].loop \in 1..Len(a)
                      /\ a[h2[k].loop].kind \in Loops
                      /\ \E j \in (e + 1)..k : EnclosingBlock(a, h2[k].loop) = h2[j].block
    OBVIOUS
  <2>1. ASSUME NEW l \in (e + 1)..K, l <= k, h2[k].loop = h[l].loop
        PROVE  /\ h2[k].loop \in 1..Len(a)
               /\ a[h2[k].loop].kind \in Loops
               /\ \E j \in (e + 1)..k : EnclosingBlock(a, h2[k].loop) = h2[j].block
    <3>1. /\ h2[k].loop \in 1..Len(a)
          /\ a[h2[k].loop].kind \in Loops
          /\ \E j \in (e + 1)..l : EnclosingBlock(a, h2[k].loop) = h[j].block
      BY <2>0, <2>1
    <3>2. PICK j \in (e + 1)..l : EnclosingBlock(a, h2[k].loop) = h[j].block
      BY <3>1
    <3>3. j \in (e + 1)..k /\ j \in 1..K
      BY <1>1, <2>1
    <3>4. QED
      BY <1>4, <3>1, <3>2, <3>3
  <2>2. CASE k \in (e + 1)..K
    <3>1. k <= k /\ h2[k].loop = h[k].loop
      BY <1>4, <1>6, <2>2
    <3>2. QED
      BY <2>1, <2>2, <3>1
  <2>3. CASE k = K + 1
    <3>1. h2[k].loop = h[K].loop
      BY <1>3, <1>4, <2>3
    <3>2. K # e
      <4>1. e \in 1..e
        OBVIOUS
      <4>2. h[e].loop = 0
        BY <4>1 DEF Held, HeldTargets, HeldBlocks, HeldLoops, HeldInner
      <4>3. QED
        BY <3>1, <4>2
    <3>3. K \in (e + 1)..K /\ K <= k
      BY <1>1, <2>3, <3>2
    <3>4. QED
      BY <2>1, <3>1, <3>3
  <2>4. QED
    BY <1>6, <2>2, <2>3
<1>14. \A k \in (e + 1)..(K + 1), i \in 1..Len(p2) :
         a[p2[i]].kind \in Loops /\ (k = K + 1 \/ p2[i] < h2[k + 1].block) => p2[i] <= h2[k].loop
  <2> SUFFICES ASSUME NEW k \in (e + 1)..(K + 1), NEW i \in 1..Len(p2),
                      a[p2[i]].kind \in Loops, k = K + 1 \/ p2[i] < h2[k + 1].block
               PROVE  p2[i] <= h2[k].loop
    OBVIOUS
  <2>1. i \in 1..Len(p) /\ p2[i] = p[i]
    <3>1. i # Len(p) + 1
      BY <1>5 DEF Loops
    <3>2. QED
      BY <1>5, <3>1
  <2>2. \A l \in (e + 1)..K : l = K \/ p[i] < h[l + 1].block => p[i] <= h[l].loop
    BY <2>1 DEF Held, HeldTargets, HeldBlocks, HeldLoops, HeldInner, K
  <2>3. CASE k = K + 1
    <3>1. h2[k].loop = h[K].loop
      BY <1>3, <1>4, <2>3
    <3>2. K # e
      <4> SUFFICES ASSUME K = e PROVE FALSE
        OBVIOUS
      <4>1. i = 1
        BY <1>1, <1>5, <2>1 DEF K
      <4>2. 1 \in 1..Len(p2) /\ p2[1] = p[i]
        BY <1>5, <2>1, <4>1
      <4>3. p[i] \in 1..Len(a) /\ a[p[i]].parent = 0
        BY <4>2 DEF Path
      <4>4. a[p[i]].kind = "fun"
        BY <4>3 DEF Tree
      <4>5. QED
        BY <2>1, <4>4 DEF Loops
    <3>3. K \in (e + 1)..K
      BY <1>1, <3>2
    <3>4. QED
      BY <2>1, <2>2, <3>1, <3>3
  <2>4. CASE k \in (e + 1)..K
    <3>1. k = K \/ p[i] < h[k + 1].block
      <4> SUFFICES ASSUME k # K PROVE p[i] < h[k + 1].block
        OBVIOUS
      <4>1. k + 1 \in 1..K /\ k # K + 1
        BY <1>1, <2>4
      <4>2. QED
        BY <1>4, <2>1, <4>1
    <3>2. p[i] <= h[k].loop
      BY <2>2, <2>4, <3>1
    <3>3. QED
      BY <1>4, <1>6, <2>1, <2>4, <3>2
  <2>5. QED
    BY <1>6, <2>3, <2>4
<1>15. Held(a, p2, e, cs2, h2)
  <2>1. Len(cs2) = K + 1 /\ h2 \in Seq(HeldType) /\ Len(h2) = K + 1
    BY <1>4, <1>6
  <2>2. HeldTargets(e, cs2, h2)
    BY <1>7, <1>8, <2>1 DEF HeldTargets
  <2>3. HeldBlocks(a, p2, e, cs2, h2)
    BY <1>10, <1>11, <1>12, <2>1 DEF HeldBlocks
  <2>4. HeldLoops(a, e, cs2, h2)
    BY <1>13, <2>1 DEF HeldLoops
  <2>5. HeldInner(a, p2, e, cs2, h2)
    BY <1>14, <2>1 DEF HeldInner
  <2>6. QED
    BY <2>2, <2>3, <2>4, <2>5 DEF Held
<1>16. OnTop(cs, h, n, h2)
  BY <1>3, <1>4 DEF OnTop, K
<1>17. QED
  BY <1>15, <1>16 DEF h2
-----------------------------------------------------------------------------
(* A loop's blocks become those of the innermost context. *)
InLoop(cs, h, n, cont, brk, cs2, h2) ==
  /\ Len(cs2) = Len(cs) /\ \A k \in 1..Len(cs) : k # Len(cs) => cs2[k] = cs[k]
  /\ cs2[Len(cs)].breakBlock = brk /\ cs2[Len(cs)].continueBlock = cont
  /\ cs2[Len(cs)].localsBlock = cs[Len(cs)].localsBlock
  /\ cs2[Len(cs)].firstBB = cs[Len(cs)].firstBB
  /\ h2 \in Seq(HeldType) /\ Len(h2) = Len(cs) /\ \A k \in 1..Len(cs) : k # Len(cs) => h2[k] = h[k]
  /\ h2[Len(cs)].block = h[Len(cs)].block /\ h2[Len(cs)].loop = n

(* enterLoopBasicBlock, for any contexts *)
LoopIn(cs, cont, brk) == [cs EXCEPT ![Len(cs)].continueBlock = cont, ![Len(cs)].breakBlock = brk]
(* what the contexts hold once loop n has been entered                     *)
HeldIn(h, n) == [h EXCEPT ![Len(h)].loop = n]

(* enterLoopBasicBlock, and what is known of the context after it *)
LEMMA InnerContext ==
  ASSUME NEW cs \in Seq(ContextType), cs # <<>>, NEW h \in Seq(HeldType), Len(h) = Len(cs), NEW n \in Nat,
         NEW cont, NEW brk
  PROVE  InLoop(cs, h, n, cont, brk, LoopIn(cs, cont, brk), HeldIn(h, n))
<1> DEFINE cs2 == [cs EXCEPT ![Len(cs)].continueBlock = cont, ![Len(cs)].breakBlock = brk]
           h2 == [h EXCEPT ![Len(cs)].loop = n]
<1> DEFINE K == Len(cs)
           x == [h[K] EXCEPT !.loop = n]
           y == [cs[K] EXCEPT !.continueBlock = cont, !.breakBlock = brk]
<1>1. K \in Nat /\ K \in 1..K /\ DOMAIN cs = 1..K /\ DOMAIN h = 1..K
  BY LenProperties, EmptySeq
<1>2. h[K] \in HeldType /\ cs[K] \in ContextType
  BY <1>1, ElementOfSeq
<1>3. x \in HeldType /\ x.loop = n /\ x.block = h[K].block
  BY <1>2 DEF HeldType
<1>4. /\ y.breakBlock = brk /\ y.continueBlock = cont
      /\ y.localsBlock = cs[K].localsBlock /\ y.firstBB = cs[K].firstBB
  BY <1>2 DEF ContextType
<1>5. /\ \A k \in 1..K : k # K => cs2[k] = cs[k]
      /\ cs2[K] = y /\ DOMAIN cs2 = 1..K
  BY <1>1
<1>6. Len(cs2) = K
  BY <1>1, <1>5
<1>7. /\ \A k \in 1..K : k # K => h2[k] = h[k]
      /\ h2[K] = x /\ DOMAIN h2 = 1..K
  BY <1>1
<1>8. h2 \in Seq(HeldType) /\ Len(h2) = K
  <2>1. \A k \in 1..K : h[k] \in HeldType
    BY <1>1, ElementOfSeq
  <2>2. \A k \in 1..K : h2[k] \in HeldType
    BY <1>3, <1>7, <2>1
  <2>3. h2 = [k \in 1..K |-> h2[k]]
    BY <1>1, <1>7
  <2> HIDE DEF x, K
  <2>4. h2 \in [1..K -> HeldType]
    BY <2>2, <2>3
  <2>5. QED
    BY <1>1, <2>4
<1>9. h2[K] = x
  BY <1>7
<1>11. \A k \in 1..K : k # K => cs2[k] = cs[k]
  BY <1>5
<1>12. \A k \in 1..K : k # K => h2[k] = h[k]
  BY <1>7
<1>13. cs2[K] = y
  BY <1>5
<1> HIDE DEF cs2, h2, x, y
<1>10. InLoop(cs, h, n, cont, brk, cs2, h2)
  BY <1>3, <1>4, <1>6, <1>8, <1>9, <1>11, <1>12, <1>13 DEF InLoop
<1>14. QED
  BY <1>10 DEF cs2, h2, LoopIn, HeldIn

(* ... with one more loop, whose blocks the innermost context now knows *)
LEMMA HeldLoop ==
  ASSUME NEW a \in Seq(NodeType), Tree(a), NEW p \in Seq(Nat), NEW n \in Nat, n \in 1..Len(a),
         NEW p2, Onto(p, n, p2), Path(a, p2), a[n].kind \in Loops,
         NEW e \in Nat, NEW cs \in Seq(ContextType), Len(cs) > e,
         NEW h, Held(a, p, e, cs, h),
         NEW cont, NEW brk, cont # Null, brk # Null,
         NEW cs2, NEW h2, InLoop(cs, h, n, cont, brk, cs2, h2)
  PROVE  Held(a, p2, e, cs2, h2)
<1> DEFINE K == Len(cs)
<1>1. /\ K \in Nat /\ K \in 1..K /\ K \in (e + 1)..K /\ n \in Nat /\ n # 0
      /\ h \in Seq(HeldType) /\ Len(h) = K
  <2>1. K \in Nat /\ K \in 1..K /\ K \in (e + 1)..K /\ n \in Nat /\ n # 0
    BY LenProperties, NodeFacts
  <2>2. h \in Seq(HeldType) /\ Len(h) = K
    BY DEF Held, HeldTargets
  <2>3. QED
    BY <2>1, <2>2
<1>2. h2 \in Seq(HeldType) /\ Len(h2) = K /\ \A k \in 1..K : k # K => h2[k] = h[k]
  BY DEF InLoop
<1>3. Len(cs2) = K /\ \A k \in 1..K : k # K => cs2[k] = cs[k]
  BY DEF InLoop
<1>4. /\ h2[K].loop = n /\ h2[K].block = h[K].block
      /\ cs2[K].breakBlock # Null /\ cs2[K].continueBlock # Null
  BY DEF InLoop
<1>5. \A k \in 1..K : h2[k].block = h[k].block
  BY <1>2, <1>4
<1>6. /\ p2 \in Seq(Nat) /\ p2 # <<>> /\ Len(p2) = Len(p) + 1 /\ Len(p) \in Nat /\ p2[Len(p2)] = n
      /\ \A i \in 1..Len(p) : p2[i] = p[i] /\ p[i] \in Nat /\ i \in 1..Len(p2) /\ p[i] < n
      /\ \A i \in 1..Len(p2) : i \in 1..Len(p) \/ i = Len(p) + 1
  <2>1. /\ p2 \in Seq(Nat) /\ p2 # <<>> /\ Len(p2) = Len(p) + 1 /\ Len(p) \in Nat
        /\ p2[Len(p2)] = n
        /\ \A i \in 1..Len(p) : p2[i] = p[i] /\ p[i] \in Nat
        /\ \A i \in 1..Len(p2) : i \in 1..Len(p) \/ i = Len(p) + 1
    <3>1. Len(p) \in Nat
      BY LenProperties
    <3>2. QED
      BY <3>1 DEF Onto
  <2>2. \A i \in 1..Len(p) : i \in 1..Len(p2) /\ p[i] < n
    <3> TAKE i \in 1..Len(p)
    <3>1. i \in 1..Len(p2) /\ Len(p2) \in 1..Len(p2) /\ i < Len(p2)
      <4>1. Len(p) \in Nat /\ Len(p2) = Len(p) + 1
        BY <2>1
      <4>2. QED
        BY <4>1
    <3>2. p2[i] < p2[Len(p2)]
      BY <3>1 DEF Path
    <3>3. QED
      BY <2>1, <3>1, <3>2
  <2>3. QED
    BY <2>1, <2>2
<1> HIDE DEF K
<1>7. \A k \in (e + 1)..K : k \in 1..K
  OBVIOUS
<1>8. HeldTargets(e, cs2, h2)
  <2>1. \A k \in 1..e : h2[k].loop = 0
    <3> TAKE k \in 1..e
    <3>1. k \in 1..K /\ k # K
      BY <1>1
    <3>2. h[k].loop = 0
      BY DEF Held, HeldTargets
    <3>3. QED
      BY <1>2, <3>1, <3>2
  <2>2. \A k \in 1..K : /\ h2[k].loop = 0 <=> cs2[k].breakBlock = Null
                        /\ h2[k].loop = 0 <=> cs2[k].continueBlock = Null
    <3> TAKE k \in 1..K
    <3>1. CASE k = K
      BY <1>1, <1>4, <3>1
    <3>2. CASE k # K
      <4>1. /\ h[k].loop = 0 <=> cs[k].breakBlock = Null
            /\ h[k].loop = 0 <=> cs[k].continueBlock = Null
        BY DEF Held, HeldTargets, K
      <4>2. QED
        BY <1>2, <1>3, <3>2, <4>1
    <3>3. QED
      BY <3>1, <3>2
  <2>3. QED
    BY <1>2, <1>3, <2>1, <2>2 DEF HeldTargets
<1>9. \A k \in (e + 1)..K : \E i \in 1..Len(p) : p[i] = h[k].block /\ a[p[i]].kind = "block"
  BY DEF Held, HeldBlocks, K
<1>10. \A i \in 1..Len(p) : a[p[i]].kind = "block" => \E k \in (e + 1)..K : h[k].block = p[i]
  BY DEF Held, HeldBlocks, K
<1>11. HeldBlocks(a, p2, e, cs2, h2)
  <2>1. \A k \in (e + 1)..K : \E i \in 1..Len(p2) : p2[i] = h2[k].block /\ a[p2[i]].kind = "block"
    <3> TAKE k \in (e + 1)..K
    <3>1. PICK i \in 1..Len(p) : p[i] = h[k].block /\ a[p[i]].kind = "block"
      BY <1>9
    <3>2. i \in 1..Len(p2) /\ p2[i] = p[i] /\ h2[k].block = h[k].block
      BY <1>5, <1>6, <1>7
    <3>3. QED
      BY <3>1, <3>2
  <2>2. \A i \in 1..Len(p2) : a[p2[i]].kind = "block" => \E k \in (e + 1)..K : h2[k].block = p2[i]
    <3> SUFFICES ASSUME NEW i \in 1..Len(p2), a[p2[i]].kind = "block"
                 PROVE  \E k \in (e + 1)..K : h2[k].block = p2[i]
      OBVIOUS
    <3>1. i \in 1..Len(p) /\ p2[i] = p[i]
      BY <1>6 DEF Loops
    <3>2. QED
      BY <1>5, <1>7, <1>10, <3>1
  <2>3. \A k, l \in (e + 1)..K : k < l => h2[k].block < h2[l].block
    <3>1. \A k, l \in (e + 1)..K : k < l => h[k].block < h[l].block
      BY DEF Held, HeldBlocks, K
    <3>2. QED
      BY <1>5, <1>7, <3>1
  <2>4. QED
    BY <1>3, <2>1, <2>2, <2>3 DEF HeldBlocks
<1>12. HeldLoops(a, e, cs2, h2)
  <2> SUFFICES ASSUME NEW k \in (e + 1)..K, h2[k].loop # 0
               PROVE  /\ h2[k].loop \in 1..Len(a)
                      /\ a[h2[k].loop].kind \in Loops
                      /\ \E j \in (e + 1)..k : EnclosingBlock(a, h2[k].loop) = h2[j].block
    BY <1>3 DEF HeldLoops
  <2>1. CASE k = K
    <3> DEFINE B == EnclosingBlock(a, n)
    <3>1. B \in 1..(n - 1) /\ a[B].kind = "block" /\ Inside(a, n, B)
      <4>1. \E b \in 1..(n - 1) : a[b].kind = "block" /\ Inside(a, n, b)
        BY DEF Tree
      <4>2. n \in Nat \ {0}
        BY <1>1
      <4>3. QED
        BY <4>1, <4>2, EnclosingBlockIn
    <3> HIDE DEF B
    <3>2. B \in 1..Len(a) /\ Inside(a, p2[Len(p2)], B) /\ B # n
      BY <1>1, <1>6, <3>1, NodeFacts
    <3>3. PICK i \in 1..Len(p2) : p2[i] = B
      BY <1>6, <3>2, InsideOpen
    <3>4. i \in 1..Len(p) /\ p[i] = B
      BY <1>6, <3>2, <3>3
    <3>5. PICK j \in (e + 1)..K : h[j].block = B
      BY <1>10, <3>1, <3>4
    <3>6. h2[j].block = B
      BY <1>5, <1>7, <3>5
    <3>7. h2[k].loop = n
      BY <1>4, <2>1
    <3>8. QED
      BY <2>1, <3>6, <3>7 DEF B
  <2>2. CASE k # K
    <3>1. h2[k] = h[k]
      BY <1>2, <1>7, <2>2
    <3>2. /\ h[k].loop \in 1..Len(a)
          /\ a[h[k].loop].kind \in Loops
          /\ \E j \in (e + 1)..k : EnclosingBlock(a, h[k].loop) = h[j].block
      BY <2>2, <3>1 DEF Held, HeldLoops, K
    <3>3. PICK j \in (e + 1)..k : EnclosingBlock(a, h[k].loop) = h[j].block
      BY <3>2
    <3>4. j \in 1..K
      BY <1>1
    <3>5. QED
      BY <1>5, <3>1, <3>2, <3>3, <3>4
  <2>3. QED
    BY <2>1, <2>2
<1>13. HeldInner(a, p2, e, cs2, h2)
  <2> SUFFICES ASSUME NEW k \in (e + 1)..K, NEW i \in 1..Len(p2),
                      a[p2[i]].kind \in Loops, k = K \/ p2[i] < h2[k + 1].block
               PROVE  p2[i] <= h2[k].loop
    BY <1>3 DEF HeldInner
  <2>1. CASE k = K
    <3>1. h2[k].loop = n
      BY <1>4, <2>1
    <3>2. CASE i \in 1..Len(p)
      <4>1. p2[i] = p[i] /\ p[i] < n /\ p[i] \in Nat
        BY <1>6, <3>2
      <4>2. QED
        BY <1>1, <3>1, <4>1
    <3>3. CASE i = Len(p) + 1
      <4>1. p2[i] = n
        BY <1>6, <3>3
      <4>2. QED
        BY <1>1, <3>1, <4>1
    <3>4. QED
      BY <1>6, <3>2, <3>3
  <2>2. CASE k # K
    <3>1. k + 1 \in (e + 1)..K /\ k + 1 \in 1..K
      BY <1>1, <2>2
    <3>2. p2[i] < h[k + 1].block
      BY <1>5, <2>2, <3>1
    <3>3. i \in 1..Len(p) /\ p2[i] = p[i]
      <4>1. PICK j \in 1..Len(p) : p[j] = h[k + 1].block
        BY <1>9, <3>1
      <4>2. p2[i] < p[j] /\ p[j] < n /\ p[j] \in Nat
        BY <1>6, <3>2, <4>1
      <4> DEFINE u == p2[i]
                 v == p[j]
      <4>5. u < v /\ v < n /\ v \in Nat /\ n \in Nat
        BY <1>1, <4>2
      <4> HIDE DEF u, v
      <4>6. u # n
        BY <4>5
      <4>3. p2[i] # n
        BY <4>6 DEF u
      <4>4. QED
        BY <1>6, <4>3
    <3>4. p[i] <= h[k].loop
      <4>1. a[p[i]].kind \in Loops /\ p[i] < h[k + 1].block
        BY <3>2, <3>3
      <4>2. HeldInner(a, p, e, cs, h) /\ k \in (e + 1)..Len(cs) /\ i \in 1..Len(p)
        BY <3>3 DEF Held, K
      <4>3. QED
        BY <4>1, <4>2 DEF HeldInner
    <3>5. QED
      BY <1>2, <1>7, <2>2, <3>3, <3>4
  <2>3. QED
    BY <2>1, <2>2
<1>14. QED
  BY <1>8, <1>11, <1>12, <1>13 DEF Held
-----------------------------------------------------------------------------
(* ... without the innermost node, when that is no block *)
LEMMA HeldPlainLeft ==
  ASSUME NEW a, NEW p \in Seq(Nat), NEW q \in Seq(Nat), Len(q) + 1 = Len(p),
         \A i \in 1..Len(q) : q[i] = p[i], a[p[Len(p)]].kind # "block",
         NEW e, NEW cs, NEW h, Held(a, p, e, cs, h)
  PROVE  Held(a, q, e, cs, h)
<1>1. Len(p) \in Nat /\ Len(q) \in Nat
  BY LenProperties
<1>2. /\ \A i \in 1..Len(q) : i \in 1..Len(p) /\ q[i] = p[i]
      /\ \A i \in 1..Len(p) : a[p[i]].kind = "block" => i \in 1..Len(q)
  <2>1. \A i \in 1..Len(p) : i # Len(p) => i \in 1..Len(q)
    BY <1>1
  <2>2. \A i \in 1..Len(q) : i \in 1..Len(p)
    BY <1>1
  <2>3. QED
    BY <2>1, <2>2
<1>3. HeldBlocks(a, q, e, cs, h)
  <2>1. HeldBlocks(a, p, e, cs, h)
    BY DEF Held
  <2>2. \A k \in (e + 1)..Len(cs) : \E i \in 1..Len(q) : q[i] = h[k].block /\ a[q[i]].kind = "block"
    <3> TAKE k \in (e + 1)..Len(cs)
    <3>1. PICK i \in 1..Len(p) : p[i] = h[k].block /\ a[p[i]].kind = "block"
      BY <2>1 DEF HeldBlocks
    <3>2. QED
      BY <1>2, <3>1
  <2>3. \A i \in 1..Len(q) : a[q[i]].kind = "block" => \E k \in (e + 1)..Len(cs) : h[k].block = q[i]
    BY <1>2, <2>1 DEF HeldBlocks
  <2>4. \A k, l \in (e + 1)..Len(cs) : k < l => h[k].block < h[l].block
    BY <2>1 DEF HeldBlocks
  <2>5. QED
    BY <2>2, <2>3, <2>4 DEF HeldBlocks
<1>4. HeldInner(a, q, e, cs, h)
  <2>1. HeldInner(a, p, e, cs, h)
    BY DEF Held
  <2>2. QED
    BY <1>2, <2>1 DEF HeldInner
<1>5. QED
  BY <1>3, <1>4 DEF Held

(* cs2 and h2 are cs and h without their last element. *)
Unstacked(cs, h, cs2, h2) ==
  /\ Len(cs2) = Len(cs) - 1 /\ \A k \in 1..(Len(cs) - 1) : cs2[k] = cs[k]
  /\ h2 \in Seq(HeldType) /\ Len(h2) = Len(cs) - 1 /\ \A k \in 1..(Len(cs) - 1) : h2[k] = h[k]

(* q is p without its last element, a block. *)
PathFrontOf(a, p, q) ==
  /\ a[p[Len(p)]].kind = "block"
  /\ p \in Seq(Nat) /\ p # <<>> /\ q \in Seq(Nat) /\ Len(q) + 1 = Len(p)
  /\ \A i \in 1..Len(q) : q[i] = p[i]
  /\ \A i, j \in 1..Len(p) : i < j => p[i] < p[j]

(* A block's context is gone with it. *)
Popped(a, p, q, e, cs, h, cs2, h2) ==
  /\ Len(cs) > e /\ h[Len(cs)].block = p[Len(p)]
  /\ Held(a, q, e, cs2, h2)

(* ... without the innermost block *)
LEMMA HeldBlockLeft ==
  ASSUME NEW a, NEW p, NEW q, PathFrontOf(a, p, q),
         NEW e \in Nat, NEW cs, Len(cs) \in Nat, NEW h, Held(a, p, e, cs, h),
         NEW cs2, NEW h2, Unstacked(cs, h, cs2, h2)
  PROVE  Popped(a, p, q, e, cs, h, cs2, h2)
<1>0. /\ a[p[Len(p)]].kind = "block"
      /\ p \in Seq(Nat) /\ p # <<>> /\ q \in Seq(Nat) /\ Len(q) + 1 = Len(p)
      /\ \A i \in 1..Len(q) : q[i] = p[i]
      /\ \A i, j \in 1..Len(p) : i < j => p[i] < p[j]
  BY DEF PathFrontOf
<1> DEFINE K == Len(cs)
           N == Len(p)
<1>1. /\ N \in Nat /\ N \in 1..N /\ Len(q) = N - 1 /\ K \in Nat
      /\ \A i \in 1..N : p[i] \in Nat
      /\ \A i \in 1..(N - 1) : i \in 1..N /\ q[i] = p[i] /\ p[i] < p[N]
  <2>1. N \in Nat /\ N # 0 /\ Len(q) \in Nat
    BY <1>0, LenProperties, EmptySeq
  <2>2. \A i \in 1..N : p[i] \in Nat
    BY <1>0, ElementOfSeq
  <2>3. Len(q) = N - 1
    BY <1>0, <2>1
  <2>4. \A i \in 1..(N - 1) : i \in 1..N /\ N \in 1..N /\ i < N
    BY <2>1
  <2>6. \A i \in 1..(N - 1) : q[i] = p[i]
    BY <1>0, <2>3
  <2>7. \A i \in 1..(N - 1) : p[i] < p[N]
    BY <1>0, <2>4
  <2>8. N \in 1..N /\ K \in Nat
    BY <2>1
  <2> HIDE DEF N, K
  <2>5. QED
    BY <2>1, <2>2, <2>3, <2>4, <2>6, <2>7, <2>8
<1>2. /\ HeldTargets(e, cs, h) /\ HeldBlocks(a, p, e, cs, h) /\ HeldLoops(a, e, cs, h)
      /\ HeldInner(a, p, e, cs, h)
  BY DEF Held
<1>3. Len(cs2) = K - 1 /\ \A k \in 1..(K - 1) : cs2[k] = cs[k]
  BY DEF Unstacked
<1>4. h2 \in Seq(HeldType) /\ Len(h2) = K - 1 /\ \A k \in 1..(K - 1) : h2[k] = h[k]
  BY DEF Unstacked
<1>5. /\ \A k \in (e + 1)..K : \E i \in 1..N : p[i] = h[k].block /\ a[p[i]].kind = "block"
      /\ \A i \in 1..N : a[p[i]].kind = "block" => \E k \in (e + 1)..K : h[k].block = p[i]
      /\ \A k, l \in (e + 1)..K : k < l => h[k].block < h[l].block
  BY <1>2 DEF HeldBlocks
<1> HIDE DEF K, N
<1>6. \A k \in (e + 1)..K : h[k].block \in Nat /\ h[k].block <= p[N]
  <2> TAKE k \in (e + 1)..K
  <2>1. PICK i \in 1..N : p[i] = h[k].block
    BY <1>5
  <2>2. CASE i = N
    BY <1>1, <2>1, <2>2
  <2>3. CASE i \in 1..(N - 1)
    BY <1>1, <2>1, <2>3
  <2>4. QED
    BY <1>1, <2>2, <2>3
<1>7. PICK l \in (e + 1)..K : h[l].block = p[N]
  BY <1>0, <1>1, <1>5 DEF N
<1>8. l = K
  <2> SUFFICES ASSUME l # K PROVE FALSE
    OBVIOUS
  <2>1. K \in (e + 1)..K /\ l < K
    BY <1>1
  <2>2. h[l].block < h[K].block
    BY <1>5, <2>1
  <2>3. QED
    BY <1>1, <1>6, <1>7, <2>1, <2>2
<1>9. /\ K \in (e + 1)..K /\ h[K].block = p[N]
      /\ \A k \in (e + 1)..(K - 1) : k \in (e + 1)..K /\ k \in 1..(K - 1) /\ k < K
  BY <1>1, <1>7, <1>8
<1>10. \A k \in (e + 1)..(K - 1) : h[k].block < p[N]
  BY <1>5, <1>9
<1>11. HeldTargets(e, cs2, h2)
  <2>1. \A k \in 1..e : h2[k].loop = 0
    <3> TAKE k \in 1..e
    <3>1. k \in 1..(K - 1)
      BY <1>9
    <3>2. QED
      BY <1>2, <1>4, <3>1 DEF HeldTargets
  <2>2. \A k \in 1..(K - 1) : /\ h2[k].loop = 0 <=> cs2[k].breakBlock = Null
                              /\ h2[k].loop = 0 <=> cs2[k].continueBlock = Null
    <3> TAKE k \in 1..(K - 1)
    <3>1. k \in 1..K
      BY <1>1
    <3>2. /\ h[k].loop = 0 <=> cs[k].breakBlock = Null
          /\ h[k].loop = 0 <=> cs[k].continueBlock = Null
      BY <1>2, <3>1 DEF HeldTargets, K
    <3>3. QED
      BY <1>3, <1>4, <3>2
  <2>3. QED
    BY <1>3, <1>4, <2>1, <2>2 DEF HeldTargets
<1>12. HeldBlocks(a, q, e, cs2, h2)
  <2>1. \A k \in (e + 1)..(K - 1) : \E i \in 1..(N - 1) : q[i] = h2[k].block /\ a[q[i]].kind = "block"
    <3> TAKE k \in (e + 1)..(K - 1)
    <3>1. PICK i \in 1..N : p[i] = h[k].block /\ a[p[i]].kind = "block"
      BY <1>5, <1>9
    <3>2. i # N
      BY <1>1, <1>10, <3>1
    <3>3. i \in 1..(N - 1)
      BY <1>1, <3>2
    <3>4. QED
      BY <1>1, <1>4, <1>9, <3>1, <3>3
  <2>2. \A i \in 1..(N - 1) : a[q[i]].kind = "block" => \E k \in (e + 1)..(K - 1) : h2[k].block = q[i]
    <3> SUFFICES ASSUME NEW i \in 1..(N - 1), a[q[i]].kind = "block"
                 PROVE  \E k \in (e + 1)..(K - 1) : h2[k].block = q[i]
      OBVIOUS
    <3>1. i \in 1..N /\ q[i] = p[i] /\ p[i] < p[N] /\ p[i] \in Nat
      BY <1>1
    <3>2. PICK k \in (e + 1)..K : h[k].block = p[i]
      BY <1>5, <3>1
    <3>3. k # K
      <4>1. h[k].block # p[N]
        <5> DEFINE u == p[i]
                   v == p[N]
        <5>1. u < v /\ u \in Nat /\ v \in Nat
          BY <1>1, <3>1
        <5> HIDE DEF u, v
        <5>2. u # v
          BY <5>1
        <5>3. QED
          BY <3>2, <5>2 DEF u, v
      <4>2. QED
        BY <1>9, <4>1
    <3>4. k \in (e + 1)..(K - 1)
      BY <1>1, <3>3
    <3>5. QED
      BY <1>4, <1>9, <3>1, <3>2, <3>4
  <2>3. \A k, m \in (e + 1)..(K - 1) : k < m => h2[k].block < h2[m].block
    BY <1>4, <1>5, <1>9
  <2>4. Len(cs2) = K - 1 /\ Len(q) = N - 1
    BY <1>1, <1>3
  <2>5. \A k \in (e + 1)..Len(cs2) : \E i \in 1..Len(q) : q[i] = h2[k].block /\ a[q[i]].kind = "block"
    <3> TAKE k \in (e + 1)..Len(cs2)
    <3>1. k \in (e + 1)..(K - 1)
      BY <2>4
    <3>2. PICK i \in 1..(N - 1) : q[i] = h2[k].block /\ a[q[i]].kind = "block"
      BY <2>1, <3>1
    <3>3. i \in 1..Len(q)
      BY <2>4
    <3>4. QED
      BY <3>2, <3>3
  <2>6. \A i \in 1..Len(q) : a[q[i]].kind = "block" => \E k \in (e + 1)..Len(cs2) : h2[k].block = q[i]
    BY <2>2, <2>4
  <2>7. \A j, k \in (e + 1)..Len(cs2) : j < k => h2[j].block < h2[k].block
    BY <2>3, <2>4
  <2>8. QED
    BY <2>5, <2>6, <2>7 DEF HeldBlocks
<1>13. HeldLoops(a, e, cs2, h2)
  <2> SUFFICES ASSUME NEW k \in (e + 1)..(K - 1), h2[k].loop # 0
               PROVE  /\ h2[k].loop \in 1..Len(a)
                      /\ a[h2[k].loop].kind \in Loops
                      /\ \E j \in (e + 1)..k : EnclosingBlock(a, h2[k].loop) = h2[j].block
    BY <1>3 DEF HeldLoops
  <2>1. h2[k] = h[k] /\ k \in (e + 1)..K
    BY <1>4, <1>9
  <2>2. /\ h[k].loop \in 1..Len(a)
        /\ a[h[k].loop].kind \in Loops
        /\ \E j \in (e + 1)..k : EnclosingBlock(a, h[k].loop) = h[j].block
    BY <1>2, <2>1 DEF HeldLoops, K
  <2>3. PICK j \in (e + 1)..k : EnclosingBlock(a, h[k].loop) = h[j].block
    BY <2>2
  <2>4. j \in 1..(K - 1)
    BY <1>1
  <2>5. QED
    BY <1>4, <2>1, <2>2, <2>3, <2>4
<1>14. HeldInner(a, q, e, cs2, h2)
  <2> SUFFICES ASSUME NEW k \in (e + 1)..(K - 1), NEW i \in 1..(N - 1),
                      a[q[i]].kind \in Loops, k = K - 1 \/ q[i] < h2[k + 1].block
               PROVE  q[i] <= h2[k].loop
    BY <1>1, <1>3 DEF HeldInner
  <2>1. i \in 1..N /\ q[i] = p[i] /\ p[i] < p[N]
    BY <1>1
  <2>2. k \in (e + 1)..K /\ h2[k] = h[k]
    BY <1>4, <1>9
  <2>3. p[i] < h[k + 1].block
    <3>1. CASE k = K - 1
      <4>1. k + 1 = K
        BY <1>1, <3>1
      <4>2. QED
        BY <1>9, <2>1, <4>1
    <3>2. CASE k # K - 1
      <4>1. k + 1 \in 1..(K - 1)
        BY <1>1, <3>2
      <4>2. QED
        BY <1>4, <2>1, <3>2, <4>1
    <3>3. QED
      BY <3>1, <3>2
  <2>4. p[i] <= h[k].loop
    <3>1. HeldInner(a, p, e, cs, h) /\ k \in (e + 1)..Len(cs) /\ i \in 1..Len(p) /\ a[p[i]].kind \in Loops
      BY <1>2, <2>1, <2>2 DEF K, N
    <3>2. QED
      BY <2>3, <3>1 DEF HeldInner
  <2>5. QED
    BY <2>1, <2>2, <2>4
<1>15. Held(a, q, e, cs2, h2)
  BY <1>11, <1>12, <1>13, <1>14 DEF Held
<1>16. QED
  BY <1>9, <1>15 DEF K, N, Popped
=============================================================================
