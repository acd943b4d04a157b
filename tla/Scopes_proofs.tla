----------------------------- MODULE Scopes_proofs -----------------------------
(***************************************************************************)
(* Proofs about Scopes, for any names and any bounds.                       *)
(*                                                                         *)
(* The typechecker's contexts are those of the program text around it.  The *)
(* translator's are, from the innermost on: the same blocks and, of each    *)
(* function so far, the context of its parameters, for they are never       *)
(* dropped; and the names of all functions are with the parameters of the   *)
(* first.  The invariant says what is in each of them.                      *)
(***************************************************************************)
EXTENDS Scopes, WellFoundedInduction, SequenceTheorems, TLAPS

Kinds == {"builtin", "function", "parameter", "local"}
Declarations == [kind : Kinds, name : Names, op : {"none", "FUN", "ALLOCA", "ARG"}]
Context == UNION {[N -> Nat \ {0}] : N \in SUBSET Names}

FunctionIn(D, d) == Max({f \in 1 .. d : D[f].kind = "function"})

\* How many contexts of the translator belong to functions that were left.
Earlier(C, T) == Len(T) + 1 - Len(C)

(* The declarations D and the function F that is being visited. *)
Program(D, F) ==
  /\ D \in Seq(Declarations) /\ Len(D) >= 1
  /\ \A d \in 1 .. Len(D) : D[d].kind = "builtin" <=> d = 1
  /\ D[1].op = "none" /\ \A d \in 2 .. Len(D) : D[d].op # "none"
  /\ Len(D) >= 2 => D[2].kind = "function"
  /\ F # None => /\ F \in 2 .. Len(D)
                 /\ D[F].kind = "function"
                 /\ \A d \in (F + 1) .. Len(D) : D[d].kind # "function"

(* How the contexts C of the typechecker and T of the translator correspond. *)
Stacks(D, F, C, T) ==
  /\ C \in Seq(Context) /\ T \in Seq(Context)
  /\ Len(C) >= 1 /\ Earlier(C, T) >= 0
  /\ F = None => Len(C) = 1 /\ (Earlier(C, T) = 0 <=> Len(D) = 1)
  /\ F # None => Len(C) >= 2 /\ (Earlier(C, T) = 0 <=> F = 2)
  /\ \A j \in 2 .. Len(C) : (Earlier(C, T) # 0 \/ j # 2) => T[Earlier(C, T) + j - 1] = C[j]

\* d is a declaration of n, of one of these kinds.
Declares(D, d, n, kinds) == d \in 1 .. Len(D) /\ D[d].name = n /\ D[d].kind \in kinds

(* The global context has the built-in name and the functions, the next one  *)
(* the parameters of the current function, the others the variables of its  *)
(* blocks.                                                                 *)
CheckedContexts(D, F, C) ==
  /\ \A n \in DOMAIN C[1] : Declares(D, C[1][n], n, {"builtin", "function"})
  /\ \A d \in 1 .. Len(D) : D[d].kind \in {"builtin", "function"}
       => D[d].name \in DOMAIN C[1] /\ C[1][D[d].name] = d
  /\ \A j \in 2 .. Len(C) : \A n \in DOMAIN C[j] :
       Declares(D, C[j][n], n, {IF j = 2 THEN "parameter" ELSE "local"}) /\ C[j][n] > F
  /\ F # None => \A p \in (F + 1) .. Len(D) : D[p].kind = "parameter"
       => D[p].name \in DOMAIN C[2] /\ C[2][D[p].name] = p

(* The translator's first context: the name of the first function, then its  *)
(* parameters, then the functions of other names.                          *)
FirstContext(D, T) ==
  Len(T) >= 1 =>
    /\ \A n \in DOMAIN T[1] :
         /\ Declares(D, T[1][n], n, {"function", "parameter"})
         /\ D[T[1][n]].kind = "parameter" => FunctionIn(D, T[1][n]) = 2
    /\ \A d \in 2 .. Len(D) : D[d].kind = "function" => D[d].name \in DOMAIN T[1]
    /\ T[1][D[2].name] = 2
    /\ \A p \in 2 .. Len(D) :
         D[p].kind = "parameter" /\ FunctionIn(D, p) = 2 /\ D[p].name # D[2].name
           => D[p].name \in DOMAIN T[1] /\ T[1][D[p].name] = p

(* Between it and those of the current function: the parameters of the       *)
(* functions between the first and the current one.                        *)
LeftContexts(D, F, C, T) ==
  /\ \A k \in 2 .. Earlier(C, T) : \A n \in DOMAIN T[k] :
       /\ Declares(D, T[k][n], n, {"parameter"})
       /\ FunctionIn(D, T[k][n]) # 2
       /\ F # None => FunctionIn(D, T[k][n]) < F
  /\ \A p \in 2 .. Len(D) :
       D[p].kind = "parameter" /\ FunctionIn(D, p) \notin {2, F}
         => \E k \in 2 .. Earlier(C, T) : D[p].name \in DOMAIN T[k]

Contexts(D, F, C, T) ==
  /\ Program(D, F)
  /\ Stacks(D, F, C, T)
  /\ CheckedContexts(D, F, C)
  /\ FirstContext(D, T)
  /\ LeftContexts(D, F, C, T)

\* In the first k contexts, n stands for c.
Means(contexts, k, n, c) ==
  \E j \in 1 .. k : /\ n \in DOMAIN contexts[j] /\ contexts[j][n] = c
                    /\ \A i \in (j + 1) .. k : n \notin DOMAIN contexts[i]

LoopType == [name : Names, checked : Nat \ {0}, contexts : Nat, own : SUBSET Names, over : BOOLEAN]

(* A loop's name keeps its meaning while the body is visited, or the body    *)
(* was a declaration of the same name.                                     *)
Loop(l, C) ==
  /\ l.contexts \in 3 .. Len(C)
  /\ l.over => l.contexts = Len(C)
  /\ ~l.over => l.own = {}
  /\ l.name \notin l.own => Means(C, l.contexts, l.name, l.checked)
  /\ l.name \in l.own => l.name \in DOMAIN C[Len(C)] /\ l.checked < C[Len(C)][l.name]

Loops(L, C) == L \in Seq(LoopType) /\ \A k \in 1 .. Len(L) : Loop(L[k], C)

IInv == Contexts(declared, fun, checked, translated) /\ Loops(loops, checked)
-----------------------------------------------------------------------------
(* A set of numbers has a least one, and below a bound a greatest.           *)
LEMMA HasLeast ==
  ASSUME NEW S, S \subseteq Nat, S # {}
  PROVE  \E x \in S : \A y \in S : x <= y
<1> DEFINE R == OpToRel(<, Nat)
<1>1. \E x \in S : \A y \in S : ~(<<y, x>> \in R)
  BY NatLessThanWellFounded, WFMin
<1>2. \A x, y \in Nat : y < x => <<y, x>> \in R
  BY DEF OpToRel
<1> HIDE DEF R
<1>3. PICK x \in S : \A y \in S : ~(<<y, x>> \in R)
  BY <1>1
<1>4. ASSUME NEW y \in S PROVE x <= y
  <2>1. x \in Nat /\ y \in Nat /\ ~(y < x)
    BY <1>2, <1>3
  <2>2. QED
    BY <2>1
<1>5. QED
  BY <1>3, <1>4

LEMMA MaxOf ==
  ASSUME NEW n \in Nat, NEW S, S \subseteq 1 .. n, S # {}
  PROVE  Max(S) \in S /\ \A x \in S : x <= Max(S)
<1> DEFINE T == {n - x : x \in S}
<1>1. PICK t \in T : \A y \in T : t <= y
  <2>1. \A x \in S : n - x \in Nat
    OBVIOUS
  <2>2. T \subseteq Nat /\ T # {}
    BY <2>1
  <2> HIDE DEF T
  <2>3. QED
    BY <2>2, HasLeast
<1>2. PICK m \in S : t = n - m
  BY <1>1
<1>3. \A x \in S : m >= x
  BY <1>1, <1>2
<1>4. QED
  BY <1>3 DEF Max

LEMMA MaxIs ==
  ASSUME NEW n \in Nat, NEW S, S \subseteq 1 .. n, NEW m \in S, \A x \in S : x <= m
  PROVE  Max(S) = m
<1>1. PICK a : a = Max(S) /\ a \in S /\ \A x \in S : x <= a
  BY MaxOf
<1>2. a \in Nat /\ m \in Nat /\ m <= a /\ a <= m
  BY <1>1
<1>3. a = m
  BY <1>2
<1>4. QED
  BY <1>1, <1>3

-----------------------------------------------------------------------------
(* find(): from the innermost context on.                                    *)
LEMMA MeansWhatIsFound ==
  ASSUME NEW C \in Seq(Context), NEW n, NEW c, Means(C, Len(C), n, c)
  PROVE  getVariable(C, n) = c
<1>1. PICK j \in 1 .. Len(C) : /\ n \in DOMAIN C[j] /\ C[j][n] = c
                               /\ \A i \in (j + 1) .. Len(C) : n \notin DOMAIN C[i]
  BY DEF Means
<1>2. Having(C, n) \subseteq 1 .. Len(C) /\ j \in Having(C, n) /\ Len(C) \in Nat
  BY <1>1 DEF Having
<1>3. ASSUME NEW x \in Having(C, n) PROVE x <= j
  <2>1. x \in 1 .. Len(C) /\ n \in DOMAIN C[x]
    BY DEF Having
  <2>2. QED
    BY <1>1, <2>1
<1>4. Max(Having(C, n)) = j
  BY <1>2, <1>3, MaxIs
<1>5. QED
  BY <1>1, <1>2, <1>4 DEF getVariable

LEMMA FoundMeans ==
  ASSUME NEW C \in Seq(Context), NEW n, getVariable(C, n) # None
  PROVE  Means(C, Len(C), n, getVariable(C, n))
<1> DEFINE j == Max(Having(C, n))
<1>1. Having(C, n) # {} /\ getVariable(C, n) = C[j][n]
  BY DEF getVariable
<1>2. Having(C, n) \subseteq 1 .. Len(C) /\ Len(C) \in Nat
  BY DEF Having
<1>3. j \in Having(C, n) /\ \A x \in Having(C, n) : x <= j
  BY <1>1, <1>2, MaxOf
<1> HIDE DEF j
<1>4. j \in 1 .. Len(C) /\ n \in DOMAIN C[j]
  BY <1>2, <1>3 DEF Having
<1>5. \A i \in (j + 1) .. Len(C) : n \notin DOMAIN C[i]
  <2>1. ASSUME NEW i \in (j + 1) .. Len(C), n \in DOMAIN C[i] PROVE FALSE
    <3>1. i \in DOMAIN C
      BY <1>4
    <3>2. i \in Having(C, n)
      BY <2>1, <3>1 DEF Having
    <3>3. i <= j
      BY <1>3, <3>2
    <3>4. QED
      BY <1>4, <3>3
  <2>2. QED
    BY <2>1
<1>6. QED
  BY <1>1, <1>4, <1>5 DEF Means

LEMMA NotFound ==
  ASSUME NEW C \in Seq(Context), NEW n, getVariable(C, n) = None
  PROVE  \A j \in 1 .. Len(C) : n \notin DOMAIN C[j]
<1> SUFFICES ASSUME NEW k \in 1 .. Len(C), n \in DOMAIN C[k] PROVE FALSE
  OBVIOUS
<1>1. k \in Having(C, n) /\ Having(C, n) \subseteq 1 .. Len(C)
  BY DEF Having
<1> DEFINE j == Max(Having(C, n))
<1>2. j \in Having(C, n)
  BY <1>1, MaxOf
<1> HIDE DEF j
<1>3. j \in 1 .. Len(C) /\ n \in DOMAIN C[j]
  BY <1>1, <1>2 DEF Having
<1>4. C[j] \in Context
  BY <1>3
<1>5. C[j][n] \in Nat \ {0}
  BY <1>3, <1>4 DEF Context
<1>6. QED
  BY <1>1, <1>5 DEF getVariable, None, j

-----------------------------------------------------------------------------
(* The function a declaration is in: the last before it.                     *)
LEMMA FunctionFacts ==
  ASSUME NEW D, NEW F, Program(D, F), NEW d \in 2 .. Len(D)
  PROVE  /\ FunctionIn(D, d) \in 2 .. d
         /\ \A f \in 2 .. Len(D) : D[f].kind = "function" /\ f <= d => f <= FunctionIn(D, d)
         /\ F # None => FunctionIn(D, d) <= F /\ (d >= F => FunctionIn(D, d) = F)
<1> DEFINE S == {f \in 1 .. d : D[f].kind = "function"}
<1>1. D[1].kind # "function" /\ D[2].kind = "function" /\ Len(D) \in Nat
  BY DEF Program
<1>2. 2 \in S /\ S \subseteq 1 .. d /\ d \in Nat /\ 1 \notin S
  BY <1>1
<1>3. FunctionIn(D, d) \in S /\ \A x \in S : x <= FunctionIn(D, d)
  <2> HIDE DEF S
  <2>1. Max(S) \in S /\ \A x \in S : x <= Max(S)
    BY <1>2, MaxOf
  <2>2. QED
    BY <2>1 DEF FunctionIn, S
<1>4. FunctionIn(D, d) \in 2 .. d
  BY <1>2, <1>3
<1>5. \A f \in 2 .. Len(D) : D[f].kind = "function" /\ f <= d => f <= FunctionIn(D, d)
  BY <1>3
<1>6. ASSUME F # None PROVE FunctionIn(D, d) <= F /\ (d >= F => FunctionIn(D, d) = F)
  <2>1. F \in 2 .. Len(D) /\ D[F].kind = "function" /\ \A f \in (F + 1) .. Len(D) : D[f].kind # "function"
    BY <1>6 DEF Program
  <2>2. D[FunctionIn(D, d)].kind = "function"
    BY <1>3
  <2>3. FunctionIn(D, d) \notin (F + 1) .. Len(D)
    BY <2>1, <2>2
  <2> DEFINE g == FunctionIn(D, d)
  <2> HIDE DEF g
  <2>4. g \in 2 .. d /\ g \notin (F + 1) .. Len(D)
    BY <1>4, <2>3 DEF g
  <2>5. g <= F
    BY <1>1, <2>1, <2>4
  <2>6. d >= F => F <= g
    BY <1>5, <2>1 DEF g
  <2>7. QED
    BY <2>1, <2>4, <2>5, <2>6 DEF g
<1>7. QED
  BY <1>4, <1>5, <1>6

LEMMA FunctionStays ==
  ASSUME NEW D \in Seq(Declarations), NEW x \in Declarations, NEW d \in 1 .. Len(D)
  PROVE  FunctionIn(Append(D, x), d) = FunctionIn(D, d)
<1>1. \A f \in 1 .. d : Append(D, x)[f] = D[f]
  OBVIOUS
<1>2. {f \in 1 .. d : Append(D, x)[f].kind = "function"} = {f \in 1 .. d : D[f].kind = "function"}
  BY <1>1
<1>3. QED
  BY <1>2 DEF FunctionIn
-----------------------------------------------------------------------------
(* What the operations on contexts do, index by index.                       *)
LEMMA EmptyContext == Empty \in Context /\ DOMAIN Empty = {}
<1>1. DOMAIN Empty = {} /\ Empty \in [{} -> Nat \ {0}]
  BY DEF Empty
<1>2. {} \in SUBSET Names
  OBVIOUS
<1>3. QED
  BY <1>1, <1>2 DEF Context

LEMMA InsertedContext ==
  ASSUME NEW c \in Context, NEW n \in Names, NEW d \in Nat \ {0}
  PROVE  /\ Insert(c, n, d) \in Context
         /\ DOMAIN Insert(c, n, d) = DOMAIN c \cup {n}
         /\ \A m \in DOMAIN c : Insert(c, n, d)[m] = c[m]
         /\ n \notin DOMAIN c => Insert(c, n, d)[n] = d
<1> DEFINE e == Insert(c, n, d)
<1>1. PICK N \in SUBSET Names : c \in [N -> Nat \ {0}]
  BY DEF Context
<1>2. e = [m \in N \cup {n} |-> IF m \in N THEN c[m] ELSE d]
  BY <1>1 DEF Insert
<1>3. e \in [N \cup {n} -> Nat \ {0}] /\ N \cup {n} \in SUBSET Names
  BY <1>1, <1>2
<1>4. e \in Context
  BY <1>3 DEF Context
<1>5. QED
  BY <1>1, <1>2, <1>4

LEMMA InsertedAt ==
  ASSUME NEW C \in Seq(Context), NEW k \in 1 .. Len(C), NEW n \in Names, NEW d \in Nat \ {0},
         NEW C2, C2 = InsertAt(C, k, n, d)
  PROVE  /\ C2 \in Seq(Context) /\ Len(C2) = Len(C)
         /\ \A j \in 1 .. Len(C) : j # k => C2[j] = C[j]
         /\ C2[k] = Insert(C[k], n, d)
         /\ DOMAIN C2[k] = DOMAIN C[k] \cup {n}
         /\ \A m \in DOMAIN C[k] : C2[k][m] = C[k][m]
         /\ n \notin DOMAIN C[k] => C2[k][n] = d
<1>1. C2 = [C EXCEPT ![k] = Insert(C[k], n, d)]
  BY DEF InsertAt
<1>2. C[k] \in Context
  OBVIOUS
<1>3. /\ Insert(C[k], n, d) \in Context
      /\ DOMAIN Insert(C[k], n, d) = DOMAIN C[k] \cup {n}
      /\ \A m \in DOMAIN C[k] : Insert(C[k], n, d)[m] = C[k][m]
      /\ n \notin DOMAIN C[k] => Insert(C[k], n, d)[n] = d
  BY <1>2, InsertedContext
<1>4. C2 \in Seq(Context) /\ Len(C2) = Len(C) /\ C2[k] = Insert(C[k], n, d)
      /\ \A j \in 1 .. Len(C) : j # k => C2[j] = C[j]
  <2> HIDE DEF Context
  <2>1. QED
    BY <1>1, <1>3
<1>5. QED
  BY <1>3, <1>4

LEMMA Popped ==
  ASSUME NEW S, NEW C \in Seq(S), Len(C) >= 1, NEW C2, C2 = popped(C)
  PROVE  /\ C2 \in Seq(S) /\ Len(C2) = Len(C) - 1
         /\ \A j \in 1 .. Len(C2) : C2[j] = C[j]
<1>1. PICK n \in Nat : n + 1 = Len(C)
  <2>1. Len(C) - 1 \in Nat /\ (Len(C) - 1) + 1 = Len(C)
    OBVIOUS
  <2>2. QED
    BY <2>1
<1>2. C2 = SubSeq(C, 1, n) /\ n \in Int /\ 1 \in Int
  <2>1. Len(C) - 1 = n
    BY <1>1
  <2>2. QED
    BY <2>1 DEF popped
<1>3. \A i \in 1 .. n : C[i] \in S
  BY <1>1
<1>4. /\ C2 \in Seq(S) /\ Len(C2) = IF 1 <= n THEN n - 1 + 1 ELSE 0
      /\ \A i \in 1 .. (n - 1 + 1) : C2[i] = C[1 + i - 1]
  BY <1>2, <1>3, SubSeqProperties
<1>5. Len(C2) = n
  BY <1>4
<1>6. \A i \in 1 .. n : C2[i] = C[i]
  <2>1. ASSUME NEW i \in 1 .. n PROVE C2[i] = C[i]
    <3>1. i \in 1 .. (n - 1 + 1) /\ 1 + i - 1 = i
      OBVIOUS
    <3>2. QED
      BY <1>4, <3>1
  <2>2. QED
    BY <2>1
<1>7. QED
  BY <1>1, <1>4, <1>5, <1>6

LEMMA Appended ==
  ASSUME NEW S, NEW C \in Seq(S), NEW e \in S, NEW C2, C2 = Append(C, e)
  PROVE  /\ C2 \in Seq(S) /\ Len(C2) = Len(C) + 1
         /\ \A j \in 1 .. Len(C) : C2[j] = C[j]
         /\ C2[Len(C) + 1] = e
  OBVIOUS

LEMMA Sizes ==
  ASSUME NEW D, NEW F, NEW C, NEW T, Stacks(D, F, C, T)
  PROVE  /\ Len(C) \in Nat /\ Len(T) \in Nat /\ Earlier(C, T) \in Nat
         /\ Len(T) = Earlier(C, T) + Len(C) - 1
<1>1. C \in Seq(Context) /\ T \in Seq(Context) /\ Earlier(C, T) >= 0
  BY DEF Stacks
<1>2. Len(C) \in Nat /\ Len(T) \in Nat
  BY <1>1
<1>3. QED
  BY <1>1, <1>2 DEF Earlier

(* One more declaration, a function or something in the current one.         *)
LEMMA ProgramGrows ==
  ASSUME NEW D, NEW F, Program(D, F), NEW x \in Declarations, x.op # "none",
         x.kind # "builtin", Len(D) = 1 => x.kind = "function",
         NEW G, G = IF x.kind = "function" THEN Len(D) + 1 ELSE F,
         x.kind = "function" \/ F # None
  PROVE  /\ Program(Append(D, x), G)
         /\ Len(D) \in Nat /\ Len(Append(D, x)) = Len(D) + 1
         /\ \A d \in 1 .. Len(D) : Append(D, x)[d] = D[d]
         /\ Append(D, x)[Len(D) + 1] = x
         /\ \A d \in 1 .. Len(D) : FunctionIn(Append(D, x), d) = FunctionIn(D, d)
         /\ \A n, K : \A d : Declares(D, d, n, K) => Declares(Append(D, x), d, n, K)
<1> DEFINE E == Append(D, x)
<1>1. D \in Seq(Declarations) /\ Len(D) \in Nat
  BY DEF Program
<1>2. E \in Seq(Declarations) /\ Len(E) = Len(D) + 1 /\ E[Len(D) + 1] = x
      /\ \A d \in 1 .. Len(D) : E[d] = D[d]
  BY <1>1
<1>3. \A d \in 1 .. Len(D) : FunctionIn(E, d) = FunctionIn(D, d)
  BY <1>1, FunctionStays
<1> HIDE DEF E
<1>4. Program(E, G)
  <2>1. \A d \in 1 .. Len(E) : d \in 1 .. Len(D) \/ d = Len(D) + 1
    BY <1>1, <1>2
  <2>2. \A d \in 1 .. Len(E) : E[d].kind = "builtin" <=> d = 1
    BY <1>1, <1>2, <2>1 DEF Program
  <2>3. E[1].op = "none" /\ \A d \in 2 .. Len(E) : E[d].op # "none"
    <3>1. 1 \in 1 .. Len(D) /\ D[1].op = "none"
      BY <1>1 DEF Program
    <3>2. \A d \in 2 .. Len(E) : d \in 2 .. Len(D) \/ d = Len(D) + 1
      BY <1>1, <1>2
    <3>3. QED
      BY <1>1, <1>2, <3>1, <3>2 DEF Program
  <2>4. E[2].kind = "function"
    <3>1. CASE Len(D) = 1
      BY <1>2, <3>1
    <3>2. CASE Len(D) # 1
      BY <1>1, <1>2, <3>2 DEF Program
    <3>3. QED
      BY <3>1, <3>2
  <2>5. G \in 2 .. Len(E) /\ E[G].kind = "function" /\ \A d \in (G + 1) .. Len(E) : E[d].kind # "function"
    <3>1. CASE x.kind = "function"
      BY <1>1, <1>2, <3>1 DEF Program
    <3>2. CASE x.kind # "function"
      <4>1. G = F /\ F \in 2 .. Len(D) /\ D[F].kind = "function"
            /\ \A d \in (F + 1) .. Len(D) : D[d].kind # "function"
        BY <3>2 DEF Program
      <4>2. \A d \in (F + 1) .. Len(E) : d \in (F + 1) .. Len(D) \/ d = Len(D) + 1
        BY <1>1, <1>2
      <4>3. QED
        BY <1>1, <1>2, <3>2, <4>1, <4>2
    <3>3. QED
      BY <3>1, <3>2
  <2>6. QED
    BY <1>1, <1>2, <2>2, <2>3, <2>4, <2>5 DEF Program
<1>5. \A n, K : \A d : Declares(D, d, n, K) => Declares(E, d, n, K)
  BY <1>1, <1>2 DEF Declares
<1>6. QED
  BY <1>1, <1>2, <1>3, <1>4, <1>5 DEF E

(* A parameter or a variable goes to the innermost context of both.          *)
LEMMA NameAdded ==
  ASSUME NEW D, NEW F, NEW C, NEW T, Contexts(D, F, C, T), F # None,
         NEW x \in Declarations, x.op # "none", x.name \notin DOMAIN back(C),
         x.kind = IF Len(C) = 2 THEN "parameter" ELSE "local",
         NEW D2, D2 = Append(D, x),
         NEW C2, C2 = InsertLast(C, x.name, Len(D) + 1),
         NEW T2, T2 = InsertLast(T, x.name, Len(D) + 1)
  PROVE  /\ Contexts(D2, F, C2, T2)
         /\ x.name \in DOMAIN C2[Len(C2)] /\ C2[Len(C2)][x.name] = Len(D) + 1
<1>1. PICK e, c, t, d \in Nat : /\ e = Earlier(C, T) /\ c = Len(C) /\ t = Len(T) /\ d = Len(D) + 1
                                /\ c >= 2 /\ t = e + c - 1 /\ (e = 0 <=> F = 2)
                                /\ C \in Seq(Context) /\ T \in Seq(Context)
  <2>1. /\ C \in Seq(Context) /\ T \in Seq(Context) /\ D \in Seq(Declarations)
        /\ Len(C) >= 2 /\ Earlier(C, T) >= 0 /\ (Earlier(C, T) = 0 <=> F = 2)
    BY DEF Contexts, Program, Stacks
  <2>2. /\ Len(C) \in Nat /\ Len(T) \in Nat /\ Len(D) + 1 \in Nat
        /\ Earlier(C, T) \in Nat /\ Len(T) = Earlier(C, T) + Len(C) - 1
    BY <2>1 DEF Earlier
  <2>3. QED
    BY <2>1, <2>2
<1>2. c \in 1 .. Len(C) /\ t \in 1 .. Len(T) /\ d # 0 /\ F \in 2 .. Len(D) /\ F \in Nat
  BY <1>1 DEF Contexts, Program
<1>3. /\ Program(D2, F) /\ Len(D2) = d
      /\ \A i \in 1 .. Len(D) : D2[i] = D[i]
      /\ D2[d] = x
      /\ \A i \in 1 .. Len(D) : FunctionIn(D2, i) = FunctionIn(D, i)
      /\ \A n, K : \A i : Declares(D, i, n, K) => Declares(D2, i, n, K)
  <2>1. /\ Program(D, F) /\ x.kind # "builtin" /\ (Len(D) = 1 => x.kind = "function")
        /\ F = (IF x.kind = "function" THEN Len(D) + 1 ELSE F)
        /\ (x.kind = "function" \/ F # None)
    BY <1>2 DEF Contexts
  <2>2. /\ Program(Append(D, x), F)
        /\ Len(D) \in Nat /\ Len(Append(D, x)) = Len(D) + 1
        /\ \A i \in 1 .. Len(D) : Append(D, x)[i] = D[i]
        /\ Append(D, x)[Len(D) + 1] = x
        /\ \A i \in 1 .. Len(D) : FunctionIn(Append(D, x), i) = FunctionIn(D, i)
        /\ \A n, K : \A i : Declares(D, i, n, K) => Declares(Append(D, x), i, n, K)
    BY <2>1, ProgramGrows
  <2>3. QED
    BY <1>1, <2>2
<1>4. \A i \in 1 .. Len(D2) : i \in 1 .. Len(D) \/ i = d
  BY <1>1, <1>3
<1>5. x.name \in Names /\ x.kind \in {"parameter", "local"}
  BY DEF Declarations
<1>6. /\ C2 \in Seq(Context) /\ Len(C2) = c
      /\ \A j \in 1 .. c : j # c => C2[j] = C[j]
      /\ C2[c] = Insert(C[c], x.name, d)
      /\ DOMAIN C2[c] = DOMAIN C[c] \cup {x.name}
      /\ \A m \in DOMAIN C[c] : C2[c][m] = C[c][m]
      /\ x.name \notin DOMAIN C[c] /\ C2[c][x.name] = d
  <2>1. C2 = InsertAt(C, c, x.name, d) /\ x.name \notin DOMAIN C[c]
    BY <1>1 DEF InsertLast, back
  <2>2. QED
    BY <1>1, <1>2, <1>5, <2>1, InsertedAt
<1>7. /\ T2 \in Seq(Context) /\ Len(T2) = t
      /\ \A j \in 1 .. t : j # t => T2[j] = T[j]
      /\ T2[t] = Insert(T[t], x.name, d)
      /\ DOMAIN T2[t] = DOMAIN T[t] \cup {x.name}
      /\ \A m \in DOMAIN T[t] : T2[t][m] = T[t][m]
      /\ x.name \notin DOMAIN T[t] => T2[t][x.name] = d
  <2>1. T2 = InsertAt(T, t, x.name, d)
    BY <1>1 DEF InsertLast
  <2>2. t \in 1 .. Len(T) /\ T \in Seq(Context) /\ x.name \in Names /\ d \in Nat \ {0}
    BY <1>1, <1>2, <1>5
  <2>3. /\ T2 \in Seq(Context) /\ Len(T2) = Len(T)
        /\ \A j \in 1 .. Len(T) : j # t => T2[j] = T[j]
        /\ T2[t] = Insert(T[t], x.name, d)
        /\ DOMAIN T2[t] = DOMAIN T[t] \cup {x.name}
        /\ \A m \in DOMAIN T[t] : T2[t][m] = T[t][m]
        /\ x.name \notin DOMAIN T[t] => T2[t][x.name] = d
    BY <2>1, <2>2, InsertedAt
  <2>4. QED
    BY <1>1, <2>3
<1>8. Earlier(C2, T2) = e
  BY <1>1, <1>6, <1>7 DEF Earlier
<1>9. Stacks(D2, F, C2, T2)
  <2>1. ASSUME NEW j \in 2 .. c, e # 0 \/ j # 2
        PROVE  T2[e + j - 1] = C2[j]
    <3>1. T[e + j - 1] = C[j]
      BY <1>1, <2>1 DEF Contexts, Stacks
    <3>2. CASE j = c
      BY <1>1, <1>6, <1>7, <3>1, <3>2
    <3>3. CASE j # c
      <4>1. j \in 1 .. c /\ e + j - 1 \in 1 .. t /\ e + j - 1 # t
        BY <1>1, <3>3
      <4>2. QED
        BY <1>6, <1>7, <3>1, <3>3, <4>1
    <3>4. QED
      BY <3>2, <3>3
  <2>2. QED
    BY <1>1, <1>2, <1>6, <1>7, <1>8, <2>1 DEF Stacks, None
<1>10. CheckedContexts(D2, F, C2)
  <2>1. C2[1] = C[1]
    BY <1>1, <1>6
  <2>2. \A n \in DOMAIN C2[1] : Declares(D2, C2[1][n], n, {"builtin", "function"})
    BY <1>3, <2>1 DEF Contexts, CheckedContexts
  <2>3. ASSUME NEW i \in 1 .. Len(D2), D2[i].kind \in {"builtin", "function"}
        PROVE  D2[i].name \in DOMAIN C2[1] /\ C2[1][D2[i].name] = i
    <3>1. i \in 1 .. Len(D)
      BY <1>3, <1>4, <1>5, <2>3
    <3>2. QED
      BY <1>3, <2>1, <2>3, <3>1 DEF Contexts, CheckedContexts
  <2>4. ASSUME NEW j \in 2 .. c, NEW n \in DOMAIN C2[j]
        PROVE  Declares(D2, C2[j][n], n, {IF j = 2 THEN "parameter" ELSE "local"}) /\ C2[j][n] > F
    <3>1. CASE j # c \/ n # x.name
      <4>1. j \in 1 .. c
        BY <1>1
      <4>2. n \in DOMAIN C[j] /\ C2[j][n] = C[j][n]
        BY <1>6, <2>4, <3>1, <4>1
      <4>3. Declares(D, C[j][n], n, {IF j = 2 THEN "parameter" ELSE "local"}) /\ C[j][n] > F
        BY <1>1, <4>2 DEF Contexts, CheckedContexts
      <4>4. QED
        BY <1>3, <4>2, <4>3
    <3>2. CASE j = c /\ n = x.name
      <4>1. C2[j][n] = d /\ D2[d] = x /\ d \in 1 .. Len(D2) /\ d > F
        BY <1>1, <1>2, <1>3, <1>6, <3>2
      <4>2. x.kind = IF j = 2 THEN "parameter" ELSE "local"
        BY <1>1, <3>2
      <4>3. QED
        BY <3>2, <4>1, <4>2 DEF Declares
    <3>3. QED
      BY <3>1, <3>2
  <2>5. ASSUME NEW p \in (F + 1) .. Len(D2), D2[p].kind = "parameter"
        PROVE  D2[p].name \in DOMAIN C2[2] /\ C2[2][D2[p].name] = p
    <3>1. CASE p = d
      <4>1. c = 2
        BY <1>1, <1>3, <2>5, <3>1
      <4>2. QED
        BY <1>3, <1>6, <3>1, <4>1
    <3>2. CASE p # d
      <4>1. p \in (F + 1) .. Len(D) /\ p \in 1 .. Len(D)
        BY <1>1, <1>2, <1>3, <3>2
      <4>2. D[p].name \in DOMAIN C[2] /\ C[2][D[p].name] = p
        BY <1>3, <2>5, <4>1 DEF Contexts, CheckedContexts
      <4>3. 2 \in 1 .. c
        BY <1>1
      <4>4. QED
        BY <1>3, <1>6, <4>1, <4>2, <4>3
    <3>3. QED
      BY <3>1, <3>2
  <2>6. QED
    BY <1>6, <2>2, <2>3, <2>4, <2>5 DEF CheckedContexts
<1>11. FunctionIn(D2, d) = F
  <2>1. d \in 2 .. Len(D2) /\ d >= F
    BY <1>1, <1>2, <1>3
  <2>2. QED
    BY <1>3, <2>1, FunctionFacts
<1>12. FirstContext(D2, T2)
  <2>1. FirstContext(D, T) /\ Len(T) >= 1 /\ 1 \in 1 .. t /\ t \in 1 .. t
    BY <1>2, <1>1 DEF Contexts
  <2>2. ASSUME NEW n \in DOMAIN T[1]
        PROVE  n \in DOMAIN T2[1] /\ T2[1][n] = T[1][n]
    BY <1>7, <2>1
  <2>3. ASSUME NEW n \in DOMAIN T2[1], n \notin DOMAIN T[1]
        PROVE  t = 1 /\ n = x.name /\ T2[1][n] = d
    BY <1>7, <2>1, <2>3
  <2>4. t = 1 => F = 2 /\ c = 2 /\ x.kind = "parameter"
    <3>1. t = 1 => e = 0 /\ c = 2
      BY <1>1
    <3>2. QED
      BY <1>1, <3>1
  <2>5. ASSUME NEW n \in DOMAIN T2[1]
        PROVE  /\ Declares(D2, T2[1][n], n, {"function", "parameter"})
               /\ D2[T2[1][n]].kind = "parameter" => FunctionIn(D2, T2[1][n]) = 2
    <3>1. CASE n \in DOMAIN T[1]
      <4>1. /\ Declares(D, T[1][n], n, {"function", "parameter"})
            /\ D[T[1][n]].kind = "parameter" => FunctionIn(D, T[1][n]) = 2
        BY <2>1, <3>1 DEF FirstContext
      <4>2. T[1][n] \in 1 .. Len(D)
        BY <4>1 DEF Declares
      <4>3. QED
        BY <1>3, <2>2, <3>1, <4>1, <4>2
    <3>2. CASE n \notin DOMAIN T[1]
      <4>1. n = x.name /\ T2[1][n] = d /\ F = 2 /\ x.kind = "parameter"
        BY <2>3, <2>4, <3>2
      <4>2. D2[d] = x /\ d \in 1 .. Len(D2) /\ FunctionIn(D2, d) = 2
        BY <1>1, <1>3, <1>11, <4>1
      <4>3. QED
        BY <4>1, <4>2 DEF Declares
    <3>3. QED
      BY <3>1, <3>2
  <2>6. ASSUME NEW i \in 2 .. Len(D2), D2[i].kind = "function"
        PROVE  D2[i].name \in DOMAIN T2[1]
    <3>1. i \in 2 .. Len(D) /\ i \in 1 .. Len(D)
      BY <1>1, <1>3, <1>4, <1>5, <2>6
    <3>2. QED
      BY <1>3, <2>1, <2>2, <2>6, <3>1 DEF FirstContext
  <2>7. 2 \in 2 .. Len(D) /\ D2[2] = D[2] /\ D[2].kind = "function"
    BY <1>2, <1>3 DEF Contexts, Program
  <2>8. D[2].name \in DOMAIN T[1] /\ T[1][D[2].name] = 2
    BY <2>1, <2>7 DEF FirstContext
  <2>9. ASSUME NEW p \in 2 .. Len(D2), D2[p].kind = "parameter", FunctionIn(D2, p) = 2,
               D2[p].name # D2[2].name
        PROVE  D2[p].name \in DOMAIN T2[1] /\ T2[1][D2[p].name] = p
    <3>1. CASE p # d
      <4>1. p \in 2 .. Len(D) /\ p \in 1 .. Len(D)
        BY <1>1, <1>3, <1>4, <3>1
      <4>2. D[p].name \in DOMAIN T[1] /\ T[1][D[p].name] = p
        BY <1>3, <2>1, <2>7, <2>9, <4>1 DEF FirstContext
      <4>3. QED
        BY <1>3, <2>2, <4>1, <4>2
    <3>2. CASE p = d
      <4>1. F = 2 /\ c = 2 /\ t = 1
        <5>1. F = 2 /\ x.kind = "parameter"
          BY <1>3, <1>11, <2>9, <3>2
        <5>2. e = 0 /\ c = 2
          BY <1>1, <5>1
        <5>3. QED
          BY <1>1, <5>1, <5>2
      <4>2. x.name \notin DOMAIN T[1]
        <5>1. SUFFICES ASSUME x.name \in DOMAIN T[1] PROVE FALSE
          OBVIOUS
        <5>2. PICK i : i = T[1][x.name] /\ i \in 1 .. Len(D) /\ D[i].name = x.name
                       /\ (D[i].kind = "function" \/ (D[i].kind = "parameter" /\ FunctionIn(D, i) = 2))
          BY <2>1, <5>1 DEF FirstContext, Declares
        <5>3. i # 2 /\ i # 1
          <6>1. x.name # D[2].name
            BY <1>3, <2>7, <2>9, <3>2
          <6>2. D[1].kind = "builtin"
            BY DEF Contexts, Program
          <6>3. QED
            BY <5>2, <6>1, <6>2
        <5>4. i \in (F + 1) .. Len(D)
          BY <4>1, <5>2, <5>3
        <5>5. D[i].kind = "parameter"
          BY <5>2, <5>4 DEF Contexts, Program
        <5>6. x.name \in DOMAIN C[2]
          BY <5>2, <5>4, <5>5 DEF Contexts, CheckedContexts
        <5>7. QED
          BY <1>6, <4>1, <5>6
      <4>3. QED
        BY <1>3, <1>7, <3>2, <4>1, <4>2
    <3>3. QED
      BY <3>1, <3>2
  <2>10. QED
    BY <2>2, <2>5, <2>6, <2>7, <2>8, <2>9 DEF FirstContext
<1>13. LeftContexts(D2, F, C2, T2)
  <2>1. LeftContexts(D, F, C, T)
    BY DEF Contexts
  <2>2. \A k \in 2 .. e : T2[k] = T[k]
    <3>1. \A k \in 2 .. e : k \in 1 .. t /\ k # t
      BY <1>1
    <3>2. QED
      BY <1>7, <3>1
  <2>3. ASSUME NEW k \in 2 .. e, NEW n \in DOMAIN T2[k]
        PROVE  /\ Declares(D2, T2[k][n], n, {"parameter"})
               /\ FunctionIn(D2, T2[k][n]) # 2
               /\ FunctionIn(D2, T2[k][n]) < F
    <3>1. T2[k] = T[k]
      BY <2>2
    <3>2. /\ Declares(D, T[k][n], n, {"parameter"})
          /\ FunctionIn(D, T[k][n]) # 2
          /\ FunctionIn(D, T[k][n]) < F
      BY <1>1, <2>1, <3>1 DEF LeftContexts
    <3>3. QED
      BY <1>3, <3>1, <3>2 DEF Declares
  <2>4. ASSUME NEW p \in 2 .. Len(D2), D2[p].kind = "parameter", FunctionIn(D2, p) \notin {2, F}
        PROVE  \E k \in 2 .. e : D2[p].name \in DOMAIN T2[k]
    <3>1. p \in 2 .. Len(D) /\ p \in 1 .. Len(D)
      BY <1>1, <1>3, <1>4, <1>11, <2>4
    <3>2. \E k \in 2 .. e : D[p].name \in DOMAIN T[k]
      BY <1>1, <1>3, <2>1, <2>4, <3>1 DEF LeftContexts
    <3>3. QED
      BY <1>3, <2>2, <3>1, <3>2
  <2>5. QED
    BY <1>8, <2>3, <2>4 DEF LeftContexts
<1>14. QED
  BY <1>1, <1>3, <1>6, <1>9, <1>10, <1>12, <1>13 DEF Contexts

(* Blocks come and go above the contexts of the functions.                   *)
LEMMA BlocksChanged ==
  ASSUME NEW D, NEW F, NEW C, NEW T, Contexts(D, F, C, T), F # None,
         NEW C2 \in Seq(Context), NEW T2 \in Seq(Context),
         Len(C2) >= 2, Len(T2) = Earlier(C, T) + Len(C2) - 1,
         \A j \in 1 .. Len(C2) :
           \/ j \in 1 .. Len(C) /\ C2[j] = C[j]
           \/ j > 2 /\ DOMAIN C2[j] = {} /\ T2[Earlier(C, T) + j - 1] = C2[j],
         \A k \in 1 .. Len(T2) : k \in 1 .. Len(T) => T2[k] = T[k]
  PROVE  Contexts(D, F, C2, T2)
<1>1. /\ C \in Seq(Context) /\ T \in Seq(Context) /\ D \in Seq(Declarations)
      /\ Len(C) >= 2 /\ Earlier(C, T) >= 0 /\ (Earlier(C, T) = 0 <=> F = 2)
  BY DEF Contexts, Program, Stacks
<1>2. PICK e \in Nat : /\ e = Earlier(C, T) /\ Len(T) = e + Len(C) - 1
                       /\ Len(T2) = e + Len(C2) - 1
                       /\ Len(C) \in Nat /\ Len(T) \in Nat /\ Len(C2) \in Nat /\ Len(T2) \in Nat
  <2>1. Len(C) \in Nat /\ Len(T) \in Nat /\ Len(C2) \in Nat /\ Len(T2) \in Nat
    BY <1>1
  <2>2. Earlier(C, T) \in Nat /\ Len(T) = Earlier(C, T) + Len(C) - 1
    BY <1>1, <2>1 DEF Earlier
  <2>3. QED
    BY <2>1, <2>2
<1>3. Earlier(C2, T2) = e
  BY <1>2 DEF Earlier
<1>4. C2[1] = C[1] /\ C2[2] = C[2]
  <2>1. 1 \in 1 .. Len(C2) /\ 2 \in 1 .. Len(C2) /\ ~(1 > 2) /\ ~(2 > 2)
    BY <1>2
  <2>2. QED
    BY <2>1
<1>5. T2[1] = T[1] /\ \A k \in 2 .. e : T2[k] = T[k]
  <2>1. 1 \in 1 .. Len(T) /\ 1 \in 1 .. Len(T2)
    BY <1>1, <1>2
  <2>2. \A k \in 2 .. e : k \in 1 .. Len(T) /\ k \in 1 .. Len(T2)
    BY <1>1, <1>2
  <2>3. QED
    BY <2>1, <2>2
<1>6. Program(D, F)
  BY DEF Contexts
<1>7. Stacks(D, F, C2, T2)
  <2>1. ASSUME NEW j \in 2 .. Len(C2), e # 0 \/ j # 2
        PROVE  T2[e + j - 1] = C2[j]
    <3>1. CASE j \in 1 .. Len(C) /\ C2[j] = C[j]
      <4>1. T[e + j - 1] = C[j]
        BY <1>2, <2>1, <3>1 DEF Contexts, Stacks
      <4>2. e + j - 1 \in 1 .. Len(T) /\ e + j - 1 \in 1 .. Len(T2)
        <5>1. j \in 2 .. Len(C2) /\ j \in 1 .. Len(C)
          BY <3>1
        <5>2. QED
          BY <1>2, <5>1
      <4>3. QED
        BY <3>1, <4>1, <4>2
    <3>2. j \in 1 .. Len(C2)
      BY <1>2
    <3>3. QED
      BY <1>2, <3>1, <3>2
  <2>2. QED
    BY <1>1, <1>2, <1>3, <2>1 DEF Stacks, None
<1>8. CheckedContexts(D, F, C2)
  <2>1. CheckedContexts(D, F, C)
    BY DEF Contexts
  <2>2. ASSUME NEW j \in 2 .. Len(C2), NEW n \in DOMAIN C2[j]
        PROVE  Declares(D, C2[j][n], n, {IF j = 2 THEN "parameter" ELSE "local"}) /\ C2[j][n] > F
    <3>1. j \in 1 .. Len(C2)
      BY <1>2
    <3>2. j \in 2 .. Len(C) /\ C2[j] = C[j]
      BY <1>2, <2>2, <3>1
    <3>3. QED
      BY <2>1, <2>2, <3>2 DEF CheckedContexts
  <2>3. QED
    BY <1>4, <2>1, <2>2 DEF CheckedContexts
<1>9. FirstContext(D, T2)
  <2>1. FirstContext(D, T) /\ Len(T) >= 1
    BY <1>1, <1>2 DEF Contexts
  <2>2. QED
    BY <1>5, <2>1 DEF FirstContext
<1>10. LeftContexts(D, F, C2, T2)
  <2>1. LeftContexts(D, F, C, T)
    BY DEF Contexts
  <2>2. ASSUME NEW k \in 2 .. e, NEW n \in DOMAIN T2[k]
        PROVE  /\ Declares(D, T2[k][n], n, {"parameter"})
               /\ FunctionIn(D, T2[k][n]) # 2
               /\ F # None => FunctionIn(D, T2[k][n]) < F
    <3>1. T2[k] = T[k] /\ n \in DOMAIN T[k] /\ k \in 2 .. Earlier(C, T)
      BY <1>2, <1>5
    <3>2. /\ Declares(D, T[k][n], n, {"parameter"})
          /\ FunctionIn(D, T[k][n]) # 2
          /\ F # None => FunctionIn(D, T[k][n]) < F
      BY <2>1, <3>1 DEF LeftContexts
    <3>3. QED
      BY <3>1, <3>2
  <2>3. ASSUME NEW p \in 2 .. Len(D), D[p].kind = "parameter", FunctionIn(D, p) \notin {2, F}
        PROVE  \E k \in 2 .. e : D[p].name \in DOMAIN T2[k]
    <3>1. PICK k \in 2 .. e : D[p].name \in DOMAIN T[k]
      BY <1>2, <2>1, <2>3 DEF LeftContexts
    <3>2. D[p].name \in DOMAIN T2[k]
      BY <1>5, <3>1
    <3>3. QED
      BY <3>2
  <2>4. QED
    BY <1>3, <2>2, <2>3 DEF LeftContexts
<1>11. QED
  BY <1>6, <1>7, <1>8, <1>9, <1>10 DEF Contexts

LEMMA BlockEntered ==
  ASSUME NEW D, NEW F, NEW C, NEW T, Contexts(D, F, C, T), F # None
  PROVE  Contexts(D, F, Append(C, Empty), Append(T, Empty))
<1>1. /\ C \in Seq(Context) /\ T \in Seq(Context) /\ Len(C) >= 2 /\ Earlier(C, T) >= 0
  BY DEF Contexts, Stacks
<1>2. PICK e, c, t \in Nat : e = Earlier(C, T) /\ c = Len(C) /\ t = Len(T) /\ t = e + c - 1 /\ c >= 2
  <2>1. Len(C) \in Nat /\ Len(T) \in Nat
    BY <1>1
  <2>2. Earlier(C, T) \in Nat /\ Len(T) = Earlier(C, T) + Len(C) - 1
    BY <1>1, <2>1 DEF Earlier
  <2>3. QED
    BY <1>1, <2>1, <2>2
<1>3. PICK C2, T2 : C2 = Append(C, Empty) /\ T2 = Append(T, Empty)
  OBVIOUS
<1>4. /\ C2 \in Seq(Context) /\ Len(C2) = c + 1 /\ C2[c + 1] = Empty
      /\ \A j \in 1 .. c : C2[j] = C[j]
  BY <1>3, <1>1, <1>2, EmptyContext, Appended
<1>5. /\ T2 \in Seq(Context) /\ Len(T2) = t + 1 /\ T2[t + 1] = Empty
      /\ \A j \in 1 .. t : T2[j] = T[j]
  <2>1. T \in Seq(Context) /\ Empty \in Context /\ T2 = Append(T, Empty)
    BY <1>1, <1>3, EmptyContext
  <2>2. /\ T2 \in Seq(Context) /\ Len(T2) = Len(T) + 1 /\ T2[Len(T) + 1] = Empty
        /\ \A j \in 1 .. Len(T) : T2[j] = T[j]
    BY <2>1, Appended
  <2>3. QED
    BY <1>2, <2>2
<1>6. Len(C2) >= 2 /\ Len(T2) = e + Len(C2) - 1
  BY <1>2, <1>4, <1>5
<1>7. ASSUME NEW j \in 1 .. Len(C2)
      PROVE  \/ j \in 1 .. Len(C) /\ C2[j] = C[j]
             \/ j > 2 /\ DOMAIN C2[j] = {} /\ T2[e + j - 1] = C2[j]
  <2>1. CASE j = c + 1
    <3>1. e + j - 1 = t + 1 /\ j > 2
      BY <1>2, <2>1
    <3>2. QED
      BY <1>4, <1>5, <2>1, <3>1, EmptyContext
  <2>2. CASE j # c + 1
    <3>1. j \in 1 .. c
      BY <1>4, <2>2
    <3>2. QED
      BY <1>2, <1>4, <3>1
  <2>3. QED
    BY <2>1, <2>2
<1>8. /\ Len(T2) = Earlier(C, T) + Len(C2) - 1
      /\ \A j \in 1 .. Len(C2) : \/ j \in 1 .. Len(C) /\ C2[j] = C[j]
                                 \/ j > 2 /\ DOMAIN C2[j] = {} /\ T2[Earlier(C, T) + j - 1] = C2[j]
      /\ \A k \in 1 .. Len(T2) : k \in 1 .. Len(T) => T2[k] = T[k]
  BY <1>2, <1>5, <1>6, <1>7
<1>9. Contexts(D, F, C2, T2)
  BY <1>4, <1>5, <1>6, <1>8, BlocksChanged
<1>10. QED
  BY <1>3, <1>9

LEMMA BlockLeft ==
  ASSUME NEW D, NEW F, NEW C, NEW T, Contexts(D, F, C, T), F # None, Len(C) > 2
  PROVE  Contexts(D, F, popped(C), popped(T))
<1>1. /\ C \in Seq(Context) /\ T \in Seq(Context) /\ Earlier(C, T) >= 0
  BY DEF Contexts, Stacks
<1>2. PICK e, c, t \in Nat : /\ e = Earlier(C, T) /\ c = Len(C) /\ t = Len(T)
                             /\ t = e + c - 1 /\ c >= 3 /\ t >= 2
  BY <1>1 DEF Earlier
<1>3. PICK C2 : C2 = popped(C)
  OBVIOUS
<1>4. PICK T2 : T2 = popped(T)
  OBVIOUS
<1>5. C2 \in Seq(Context) /\ Len(C2) = c - 1 /\ \A j \in 1 .. Len(C2) : C2[j] = C[j]
  <2>1. Len(C) >= 1
    BY <1>2
  <2>2. QED
    BY <1>1, <1>2, <1>3, <2>1, Popped
<1>6. T2 \in Seq(Context) /\ Len(T2) = t - 1 /\ \A j \in 1 .. Len(T2) : T2[j] = T[j]
  <2>1. Len(T) >= 1
    BY <1>2
  <2>2. QED
    BY <1>1, <1>2, <1>4, <2>1, Popped
<1>7. Len(C2) >= 2 /\ Len(T2) = e + Len(C2) - 1
  BY <1>2, <1>5, <1>6
<1>8. \A j \in 1 .. Len(C2) : j \in 1 .. Len(C) /\ C2[j] = C[j]
  BY <1>2, <1>5
<1>9. Contexts(D, F, C2, T2)
  BY <1>2, <1>5, <1>6, <1>7, <1>8, BlocksChanged
<1>10. QED
  BY <1>3, <1>4, <1>9

(* The typechecker drops the context of the parameters with the function, the *)
(* translator keeps it: there is one more context of an earlier function.   *)
LEMMA FunctionLeft ==
  ASSUME NEW D, NEW F, NEW C, NEW T, Contexts(D, F, C, T), F # None, Len(C) = 3
  PROVE  Contexts(D, None, popped(popped(C)), popped(T))
<1>1. /\ C \in Seq(Context) /\ T \in Seq(Context) /\ D \in Seq(Declarations)
      /\ Earlier(C, T) >= 0 /\ (Earlier(C, T) = 0 <=> F = 2)
      /\ F \in 2 .. Len(D) /\ Len(D) \in Nat /\ F \in Nat
  BY DEF Contexts, Stacks, Program
<1>2. PICK e \in Nat : e = Earlier(C, T) /\ Len(T) = e + 2
  <2>1. Len(T) \in Nat
    BY <1>1
  <2>2. Earlier(C, T) \in Nat /\ Len(T) = Earlier(C, T) + 2
    BY <1>1, <2>1 DEF Earlier
  <2>3. QED
    BY <2>2
<1>3. PICK B, C2, T2 : B = popped(C) /\ C2 = popped(B) /\ T2 = popped(T)
  OBVIOUS
<1>4. B \in Seq(Context) /\ Len(B) = 2 /\ \A j \in 1 .. 2 : B[j] = C[j]
  <2>1. C \in Seq(Context) /\ Len(C) >= 1 /\ B = popped(C)
    BY <1>1, <1>3
  <2>2. B \in Seq(Context) /\ Len(B) = Len(C) - 1 /\ \A j \in 1 .. Len(B) : B[j] = C[j]
    <3>1. \A S : \A c \in Seq(S) : Len(c) >= 1
            => /\ popped(c) \in Seq(S) /\ Len(popped(c)) = Len(c) - 1
               /\ \A j \in 1 .. Len(popped(c)) : popped(c)[j] = c[j]
      BY Popped
    <3>2. QED
      BY <2>1, <3>1
  <2>3. Len(B) = 2
    BY <2>2
  <2>4. QED
    BY <2>2, <2>3
<1>5. C2 \in Seq(Context) /\ Len(C2) = 1 /\ C2[1] = C[1]
  <2>1. B \in Seq(Context) /\ Len(B) >= 1 /\ C2 = popped(B)
    BY <1>3, <1>4
  <2>2. C2 \in Seq(Context) /\ Len(C2) = Len(B) - 1 /\ \A j \in 1 .. Len(C2) : C2[j] = B[j]
    BY <2>1, Popped
  <2>3. Len(C2) = 1
    BY <1>4, <2>2
  <2>4. 1 \in 1 .. Len(C2) /\ 1 \in 1 .. 2
    BY <2>3
  <2>5. QED
    BY <1>4, <2>2, <2>3, <2>4
<1>6. T2 \in Seq(Context) /\ Len(T2) = e + 1 /\ \A k \in 1 .. (e + 1) : T2[k] = T[k]
  <2>1. Len(T) >= 1
    BY <1>2
  <2>2. T2 \in Seq(Context) /\ Len(T2) = Len(T) - 1 /\ \A j \in 1 .. Len(T2) : T2[j] = T[j]
    BY <1>1, <1>3, <2>1, Popped
  <2>3. Len(T2) = e + 1
    BY <1>2, <2>2
  <2>4. QED
    BY <2>2, <2>3
<1>7. Earlier(C2, T2) = e + 1
  BY <1>5, <1>6 DEF Earlier
<1>8. Program(D, None)
  BY DEF Contexts, Program
<1>9. Stacks(D, None, C2, T2)
  <2>1. e + 1 # 0 /\ e + 1 >= 0 /\ \A j \in 2 .. 1 : FALSE
    OBVIOUS
  <2>2. Len(D) # 1
    <3>1. PICK f, n \in Nat : f = F /\ n = Len(D) /\ f \in 2 .. n
      BY <1>1
    <3>2. n # 1
      BY <3>1
    <3>3. QED
      BY <3>1, <3>2
  <2>3. QED
    BY <1>5, <1>6, <1>7, <2>1, <2>2 DEF Stacks
<1>10. CheckedContexts(D, None, C2)
  <2>1. \A j \in 2 .. 1 : FALSE
    OBVIOUS
  <2>2. QED
    BY <1>5, <2>1 DEF Contexts, CheckedContexts
<1>11. FirstContext(D, T2)
  <2>1. Len(T) >= 1 /\ T2[1] = T[1]
    BY <1>2, <1>6
  <2>2. QED
    BY <2>1 DEF Contexts, FirstContext
<1>12. LeftContexts(D, None, C2, T2)
  <2>1. LeftContexts(D, F, C, T)
    BY DEF Contexts
  <2>2. ASSUME e # 0
        PROVE  T2[e + 1] = C[2] /\ e + 1 \in 2 .. (e + 1)
    <3>1. T[e + 2 - 1] = C[2]
      BY <1>2, <2>2 DEF Contexts, Stacks
    <3>2. e + 2 - 1 = e + 1 /\ e + 1 \in 1 .. (e + 1) /\ e + 1 \in 2 .. (e + 1)
      BY <2>2
    <3>3. QED
      BY <1>6, <3>1, <3>2
  <2>3. ASSUME NEW k \in 2 .. (e + 1), NEW n \in DOMAIN T2[k]
        PROVE  Declares(D, T2[k][n], n, {"parameter"}) /\ FunctionIn(D, T2[k][n]) # 2
    <3>1. CASE k \in 2 .. e
      <4>1. T2[k] = T[k]
        BY <1>6
      <4>2. n \in DOMAIN T[k] /\ k \in 2 .. Earlier(C, T)
        BY <1>2, <2>3, <3>1, <4>1
      <4>3. Declares(D, T[k][n], n, {"parameter"}) /\ FunctionIn(D, T[k][n]) # 2
        BY <2>1, <4>2 DEF LeftContexts
      <4>4. QED
        BY <4>1, <4>3
    <3>2. CASE k = e + 1
      <4>1. e # 0 /\ T2[k] = C[2] /\ n \in DOMAIN C[2]
        BY <2>2, <2>3, <3>2
      <4>2. PICK p : p = C[2][n] /\ Declares(D, p, n, {"parameter"}) /\ p > F
        BY <4>1 DEF Contexts, CheckedContexts
      <4>3. p \in 2 .. Len(D) /\ p >= F /\ F # 2
        BY <1>1, <1>2, <4>1, <4>2 DEF Declares
      <4>4. FunctionIn(D, p) = F
        BY <4>3, FunctionFacts DEF Contexts
      <4>5. QED
        BY <4>1, <4>2, <4>3, <4>4
    <3>3. QED
      BY <3>1, <3>2
  <2>4. ASSUME NEW p \in 2 .. Len(D), D[p].kind = "parameter", FunctionIn(D, p) \notin {2, None}
        PROVE  \E k \in 2 .. (e + 1) : D[p].name \in DOMAIN T2[k]
    <3>1. CASE FunctionIn(D, p) = F
      <4>1. F # 2 /\ e # 0
        BY <1>1, <1>2, <2>4, <3>1
      <4>2. p > F
        <5>1. FunctionIn(D, p) \in 2 .. p /\ D[F].kind = "function"
          BY FunctionFacts DEF Contexts, Program
        <5>2. p # F
          BY <2>4, <5>1
        <5>3. QED
          BY <1>1, <3>1, <5>1, <5>2
      <4>3. p \in (F + 1) .. Len(D)
        BY <1>1, <4>2
      <4>4. D[p].name \in DOMAIN C[2]
        BY <2>4, <4>3 DEF Contexts, CheckedContexts
      <4>5. QED
        BY <2>2, <4>1, <4>4
    <3>2. CASE FunctionIn(D, p) # F
      <4>1. PICK k \in 2 .. e : D[p].name \in DOMAIN T[k]
        BY <1>2, <2>1, <2>4, <3>2 DEF LeftContexts
      <4>2. k \in 2 .. (e + 1) /\ k \in 1 .. (e + 1)
        OBVIOUS
      <4>3. QED
        BY <1>6, <4>1, <4>2
    <3>3. QED
      BY <3>1, <3>2
  <2>5. QED
    BY <1>7, <2>3, <2>4 DEF LeftContexts
<1>13. Contexts(D, None, C2, T2)
  BY <1>8, <1>9, <1>10, <1>11, <1>12 DEF Contexts
<1>14. QED
  BY <1>3, <1>13

(* The name of a function goes to the first context of both, which for the    *)
(* translator is that of the first function, there for a while.            *)
LEMMA FunctionEntered ==
  ASSUME NEW D, NEW C, NEW T, Contexts(D, None, C, T),
         NEW x \in Declarations, x.kind = "function", x.op # "none", x.name \notin DOMAIN C[1]
  PROVE  Contexts(Append(D, x), Len(D) + 1, Append(InsertLast(C, x.name, Len(D) + 1), Empty),
                  InsertAt(Append(T, Empty), 1, x.name, Len(D) + 1))
<1>1. /\ C \in Seq(Context) /\ T \in Seq(Context) /\ D \in Seq(Declarations) /\ Len(D) >= 1
      /\ Len(C) = 1 /\ Earlier(C, T) >= 0 /\ (Earlier(C, T) = 0 <=> Len(D) = 1)
  BY DEF Contexts, Stacks, Program
<1>2. PICK d, e \in Nat : d = Len(D) + 1 /\ d >= 2 /\ e = Len(T) /\ e = Earlier(C, T) /\ Len(D) \in Nat
  <2>1. Len(T) \in Nat /\ Len(D) \in Nat
    BY <1>1
  <2>2. Earlier(C, T) = Len(T)
    BY <1>1, <2>1 DEF Earlier
  <2>3. QED
    BY <1>1, <2>1, <2>2
<1>3. PICK B, C2, S, T2, D2 :
        /\ B = InsertLast(C, x.name, d) /\ C2 = Append(B, Empty)
        /\ S = Append(T, Empty) /\ T2 = InsertAt(S, 1, x.name, d)
        /\ D2 = Append(D, x)
  OBVIOUS
<1>4. /\ Program(D2, d) /\ Len(D2) = d
      /\ \A i \in 1 .. Len(D) : D2[i] = D[i]
      /\ D2[d] = x
      /\ \A i \in 1 .. Len(D) : FunctionIn(D2, i) = FunctionIn(D, i)
      /\ \A n, K : \A i : Declares(D, i, n, K) => Declares(D2, i, n, K)
  <2>1. /\ Program(D, None) /\ x.kind # "builtin" /\ (Len(D) = 1 => x.kind = "function")
        /\ Len(D) + 1 = (IF x.kind = "function" THEN Len(D) + 1 ELSE None)
        /\ (x.kind = "function" \/ None # None)
    BY DEF Contexts
  <2>2. /\ Program(Append(D, x), Len(D) + 1)
        /\ Len(D) \in Nat /\ Len(Append(D, x)) = Len(D) + 1
        /\ \A i \in 1 .. Len(D) : Append(D, x)[i] = D[i]
        /\ Append(D, x)[Len(D) + 1] = x
        /\ \A i \in 1 .. Len(D) : FunctionIn(Append(D, x), i) = FunctionIn(D, i)
        /\ \A n, K : \A i : Declares(D, i, n, K) => Declares(Append(D, x), i, n, K)
    BY <2>1, ProgramGrows
  <2>3. QED
    BY <1>2, <1>3, <2>2
<1>5. \A i \in 1 .. Len(D2) : i \in 1 .. Len(D) \/ i = d
  BY <1>2, <1>4
<1>6. x.name \in Names
  BY DEF Declarations
<1>7. /\ B \in Seq(Context) /\ Len(B) = 1
      /\ DOMAIN B[1] = DOMAIN C[1] \cup {x.name}
      /\ \A m \in DOMAIN C[1] : B[1][m] = C[1][m]
      /\ B[1][x.name] = d
  <2>1. /\ B = InsertAt(C, 1, x.name, d) /\ 1 \in 1 .. Len(C) /\ d \in Nat \ {0}
        /\ C \in Seq(Context) /\ x.name \in Names
    BY <1>1, <1>2, <1>3, <1>6 DEF InsertLast
  <2>2. /\ B \in Seq(Context) /\ Len(B) = Len(C)
        /\ DOMAIN B[1] = DOMAIN C[1] \cup {x.name}
        /\ \A m \in DOMAIN C[1] : B[1][m] = C[1][m]
        /\ x.name \notin DOMAIN C[1] => B[1][x.name] = d
    BY <2>1, InsertedAt
  <2>3. QED
    BY <1>1, <2>2
<1>8. C2 \in Seq(Context) /\ Len(C2) = 2 /\ C2[1] = B[1] /\ C2[2] = Empty
  <2>1. /\ C2 \in Seq(Context) /\ Len(C2) = Len(B) + 1 /\ C2[Len(B) + 1] = Empty
        /\ \A j \in 1 .. Len(B) : C2[j] = B[j]
    BY <1>3, <1>7, EmptyContext, Appended
  <2>2. QED
    BY <1>7, <2>1
<1>9. S \in Seq(Context) /\ Len(S) = e + 1 /\ S[e + 1] = Empty /\ \A k \in 1 .. e : S[k] = T[k]
  <2>1. /\ S \in Seq(Context) /\ Len(S) = Len(T) + 1 /\ S[Len(T) + 1] = Empty
        /\ \A j \in 1 .. Len(T) : S[j] = T[j]
    BY <1>1, <1>3, EmptyContext, Appended
  <2>2. QED
    BY <1>2, <2>1
<1>10. /\ T2 \in Seq(Context) /\ Len(T2) = e + 1
       /\ \A k \in 1 .. (e + 1) : k # 1 => T2[k] = S[k]
       /\ DOMAIN T2[1] = DOMAIN S[1] \cup {x.name}
       /\ \A m \in DOMAIN S[1] : T2[1][m] = S[1][m]
       /\ x.name \notin DOMAIN S[1] => T2[1][x.name] = d
  <2>1. /\ T2 = InsertAt(S, 1, x.name, d) /\ 1 \in 1 .. Len(S) /\ d \in Nat \ {0}
        /\ S \in Seq(Context) /\ x.name \in Names
    BY <1>2, <1>3, <1>6, <1>9
  <2>2. /\ T2 \in Seq(Context) /\ Len(T2) = Len(S)
        /\ \A j \in 1 .. Len(S) : j # 1 => T2[j] = S[j]
        /\ DOMAIN T2[1] = DOMAIN S[1] \cup {x.name}
        /\ \A m \in DOMAIN S[1] : T2[1][m] = S[1][m]
        /\ x.name \notin DOMAIN S[1] => T2[1][x.name] = d
    BY <2>1, InsertedAt
  <2>3. QED
    BY <1>9, <2>2
<1>11. Earlier(C2, T2) = e
  BY <1>2, <1>8, <1>10 DEF Earlier
<1>12. Stacks(D2, d, C2, T2)
  <2>1. e # 0 => T2[e + 2 - 1] = C2[2]
    <3>1. ASSUME e # 0 PROVE T2[e + 2 - 1] = C2[2]
      <4>1. e + 2 - 1 = e + 1 /\ e + 1 \in 1 .. (e + 1) /\ e + 1 # 1
        BY <3>1
      <4>2. QED
        BY <1>8, <1>9, <1>10, <4>1
    <3>2. QED
      BY <3>1
  <2>2. \A j \in 2 .. Len(C2) : j = 2
    BY <1>8
  <2>3. e = 0 <=> d = 2
    <3>1. PICK n \in Nat : n = Len(D)
      BY <1>2
    <3>2. d = n + 1 /\ (e = 0 <=> n = 1)
      BY <1>1, <1>2, <3>1
    <3>3. QED
      BY <3>2
  <2>4. d # None
    BY <1>2 DEF None
  <2>5. QED
    BY <1>8, <1>10, <1>11, <2>1, <2>2, <2>3, <2>4 DEF Stacks
<1>13. CheckedContexts(D2, d, C2)
  <2>1. CheckedContexts(D, None, C)
    BY DEF Contexts
  <2>2. ASSUME NEW n \in DOMAIN C2[1]
        PROVE  Declares(D2, C2[1][n], n, {"builtin", "function"})
    <3>1. CASE n \in DOMAIN C[1]
      <4>1. Declares(D, C[1][n], n, {"builtin", "function"}) /\ C2[1][n] = C[1][n]
        BY <1>7, <1>8, <2>1, <3>1 DEF CheckedContexts
      <4>2. QED
        BY <1>4, <4>1
    <3>2. CASE n = x.name
      <4>1. C2[1][n] = d /\ d \in 1 .. Len(D2)
        BY <1>2, <1>4, <1>7, <1>8, <3>2
      <4>2. QED
        BY <1>4, <3>2, <4>1 DEF Declares
    <3>3. QED
      BY <1>7, <1>8, <3>1, <3>2
  <2>3. ASSUME NEW i \in 1 .. Len(D2), D2[i].kind \in {"builtin", "function"}
        PROVE  D2[i].name \in DOMAIN C2[1] /\ C2[1][D2[i].name] = i
    <3>1. CASE i \in 1 .. Len(D)
      <4>1. D[i].name \in DOMAIN C[1] /\ C[1][D[i].name] = i
        BY <1>4, <2>1, <2>3, <3>1 DEF CheckedContexts
      <4>2. QED
        BY <1>4, <1>7, <1>8, <3>1, <4>1
    <3>2. CASE i = d
      BY <1>4, <1>7, <1>8, <3>2
    <3>3. QED
      BY <1>5, <3>1, <3>2
  <2>4. \A j \in 2 .. Len(C2) : DOMAIN C2[j] = {}
    BY <1>8, EmptyContext
  <2>5. \A p \in (d + 1) .. Len(D2) : FALSE
    BY <1>2, <1>4
  <2>6. QED
    BY <2>2, <2>3, <2>4, <2>5 DEF CheckedContexts
<1>14. \A i \in 2 .. Len(D2) : D2[i].kind = "parameter" => i \in 2 .. Len(D) /\ i \in 1 .. Len(D)
  <2>1. ASSUME NEW i \in 2 .. Len(D2), D2[i].kind = "parameter" PROVE i \in 2 .. Len(D) /\ i \in 1 .. Len(D)
    <3>1. i # d
      BY <1>4, <2>1
    <3>2. QED
      BY <1>2, <1>4, <3>1
  <2>2. QED
    BY <2>1
<1>15. FirstContext(D2, T2)
  <2>1. CASE e = 0
    <3>1. Len(D) = 1 /\ d = 2 /\ S[1] = Empty
      <4>1. Len(D) = 1
        BY <1>1, <1>2, <2>1
      <4>2. S[1] = Empty
        BY <1>9, <2>1
      <4>3. QED
        BY <1>2, <4>1, <4>2
    <3>2. DOMAIN T2[1] = {x.name} /\ T2[1][x.name] = 2 /\ D2[2] = x
      BY <1>4, <1>10, <3>1, EmptyContext
    <3>3. \A i \in 2 .. Len(D2) : i = 2
      BY <1>4, <3>1
    <3>4. Declares(D2, 2, x.name, {"function", "parameter"})
      BY <1>4, <3>1, <3>2 DEF Declares
    <3>5. QED
      BY <3>2, <3>3, <3>4 DEF FirstContext
  <2>2. CASE e # 0
    <3>1. /\ FirstContext(D, T) /\ Len(T) >= 1 /\ S[1] = T[1] /\ Len(D) >= 2
          /\ 2 \in 1 .. Len(D) /\ 2 \in 2 .. Len(D)
      BY <1>1, <1>2, <1>9, <2>2 DEF Contexts
    <3>2. ASSUME NEW n \in DOMAIN T2[1]
          PROVE  /\ Declares(D2, T2[1][n], n, {"function", "parameter"})
                 /\ D2[T2[1][n]].kind = "parameter" => FunctionIn(D2, T2[1][n]) = 2
      <4>1. CASE n \in DOMAIN T[1]
        <5>1. /\ Declares(D, T[1][n], n, {"function", "parameter"}) /\ T2[1][n] = T[1][n]
              /\ D[T[1][n]].kind = "parameter" => FunctionIn(D, T[1][n]) = 2
          BY <1>10, <3>1, <4>1 DEF FirstContext
        <5>2. T[1][n] \in 1 .. Len(D)
          BY <5>1 DEF Declares
        <5>3. QED
          BY <1>4, <5>1, <5>2
      <4>2. CASE n \notin DOMAIN T[1]
        <5>1. n = x.name /\ T2[1][n] = d /\ d \in 1 .. Len(D2)
          BY <1>2, <1>4, <1>10, <3>1, <3>2, <4>2
        <5>2. QED
          BY <1>4, <5>1 DEF Declares
      <4>3. QED
        BY <4>1, <4>2
    <3>3. ASSUME NEW i \in 2 .. Len(D2), D2[i].kind = "function"
          PROVE  D2[i].name \in DOMAIN T2[1]
      <4>1. CASE i = d
        BY <1>4, <1>10, <4>1
      <4>2. CASE i # d
        <5>1. i \in 2 .. Len(D) /\ i \in 1 .. Len(D)
          BY <1>5, <4>2
        <5>2. D[i].name \in DOMAIN T[1]
          BY <1>4, <3>1, <3>3, <5>1 DEF FirstContext
        <5>3. QED
          BY <1>4, <1>10, <3>1, <5>1, <5>2
      <4>3. QED
        BY <4>1, <4>2
    <3>4. D2[2] = D[2] /\ T2[1][D[2].name] = 2
      <4>1. D[2].name \in DOMAIN T[1] /\ T[1][D[2].name] = 2
        BY <3>1 DEF FirstContext, Contexts, Program
      <4>2. QED
        BY <1>4, <1>10, <3>1, <4>1
    <3>5. ASSUME NEW p \in 2 .. Len(D2), D2[p].kind = "parameter", FunctionIn(D2, p) = 2,
                 D2[p].name # D2[2].name
          PROVE  D2[p].name \in DOMAIN T2[1] /\ T2[1][D2[p].name] = p
      <4>1. p \in 2 .. Len(D) /\ p \in 1 .. Len(D)
        BY <1>14, <3>5
      <4>2. D[p].name \in DOMAIN T[1] /\ T[1][D[p].name] = p
        BY <1>4, <3>1, <3>4, <3>5, <4>1 DEF FirstContext
      <4>3. QED
        BY <1>4, <1>10, <3>1, <4>1, <4>2
    <3>6. QED
      BY <3>2, <3>3, <3>4, <3>5 DEF FirstContext
  <2>3. QED
    BY <2>1, <2>2
<1>16. LeftContexts(D2, d, C2, T2)
  <2>1. LeftContexts(D, None, C, T)
    BY DEF Contexts
  <2>2. \A k \in 2 .. e : T2[k] = T[k]
    <3>1. \A k \in 2 .. e : k \in 1 .. (e + 1) /\ k # 1 /\ k \in 1 .. e
      OBVIOUS
    <3>2. QED
      BY <1>9, <1>10, <3>1
  <2>3. ASSUME NEW k \in 2 .. e, NEW n \in DOMAIN T2[k]
        PROVE  /\ Declares(D2, T2[k][n], n, {"parameter"})
               /\ FunctionIn(D2, T2[k][n]) # 2
               /\ FunctionIn(D2, T2[k][n]) < d
    <3>1. T2[k] = T[k] /\ n \in DOMAIN T[k]
      BY <2>2, <2>3
    <3>2. PICK p : p = T[k][n] /\ Declares(D, p, n, {"parameter"}) /\ FunctionIn(D, p) # 2
      BY <1>2, <2>1, <3>1 DEF LeftContexts
    <3>3. p \in 2 .. Len(D) /\ p \in 1 .. Len(D)
      <4>1. D[1].kind = "builtin"
        BY <1>1 DEF Contexts, Program
      <4>2. QED
        BY <3>2, <4>1 DEF Declares
    <3>4. FunctionIn(D, p) \in 2 .. p
      BY <3>3, FunctionFacts DEF Contexts
    <3>5. FunctionIn(D2, p) = FunctionIn(D, p) /\ FunctionIn(D2, p) < d
      BY <1>2, <1>4, <3>3, <3>4
    <3>6. QED
      BY <1>4, <3>1, <3>2, <3>5
  <2>4. ASSUME NEW p \in 2 .. Len(D2), D2[p].kind = "parameter", FunctionIn(D2, p) \notin {2, d}
        PROVE  \E k \in 2 .. e : D2[p].name \in DOMAIN T2[k]
    <3>1. p \in 2 .. Len(D) /\ p \in 1 .. Len(D)
      BY <1>14, <2>4
    <3>2. FunctionIn(D, p) # None
      <4>1. FunctionIn(D, p) \in 2 .. p
        BY <3>1, FunctionFacts DEF Contexts
      <4>2. QED
        BY <4>1 DEF None
    <3>3. PICK k \in 2 .. e : D[p].name \in DOMAIN T[k]
      BY <1>2, <1>4, <2>1, <2>4, <3>1, <3>2 DEF LeftContexts
    <3>4. QED
      BY <1>4, <2>2, <3>1, <3>3
  <2>5. QED
    BY <1>11, <2>3, <2>4 DEF LeftContexts
<1>17. Contexts(D2, d, C2, T2)
  BY <1>4, <1>12, <1>13, <1>15, <1>16 DEF Contexts
<1>18. QED
  BY <1>2, <1>3, <1>17

-----------------------------------------------------------------------------
(* What the translator finds for a name.                                     *)
EarlierIn(D, F, n) ==
  \E p \in DOMAIN D : /\ D[p].kind = "parameter" /\ D[p].name = n
                      /\ FunctionIn(D, p) < F
                      /\ FunctionIn(D, p) = 2 => D[2].name # n

BoundOtherwise(D, F, n, c) ==
  \/ D[c].kind = "builtin"
  \/ D[c].kind = "function" /\ EarlierIn(D, F, n)
  \/ D[c].kind = "parameter" /\ FunctionIn(D, c) = 2 /\ D[2].name = n

LEMMA TranslatedNames ==
  ASSUME NEW D, NEW F, NEW C, NEW T, Contexts(D, F, C, T), F # None,
         NEW k \in 1 .. Len(T), NEW n \in DOMAIN T[k]
  PROVE  T[k][n] \in 2 .. Len(D) /\ D[T[k][n]].name = n
<1>1. /\ C \in Seq(Context) /\ T \in Seq(Context) /\ D \in Seq(Declarations)
      /\ Earlier(C, T) >= 0 /\ Len(C) >= 2 /\ Len(C) \in Nat /\ Len(T) \in Nat
      /\ D[1].kind = "builtin"
  BY DEF Contexts, Stacks, Program
<1>2. PICK e \in Nat : e = Earlier(C, T) /\ Len(T) = e + Len(C) - 1
  <2>1. Stacks(D, F, C, T)
    BY DEF Contexts
  <2>2. Earlier(C, T) \in Nat /\ Len(T) = Earlier(C, T) + Len(C) - 1
    BY <2>1, Sizes
  <2>3. QED
    BY <2>2
<1>3. \A d : Declares(D, d, n, {"function", "parameter"}) \/ Declares(D, d, n, {"parameter"})
             \/ Declares(D, d, n, {"local"}) => d \in 2 .. Len(D) /\ D[d].name = n
  BY <1>1 DEF Declares
<1>4. CASE k = 1
  <2>1. Len(T) >= 1
    BY <1>1
  <2>2. Declares(D, T[k][n], n, {"function", "parameter"})
    BY <1>4, <2>1 DEF Contexts, FirstContext
  <2>3. QED
    BY <1>3, <2>2
<1>5. CASE k \in 2 .. e
  <2>1. Declares(D, T[k][n], n, {"parameter"})
    BY <1>2, <1>5 DEF Contexts, LeftContexts
  <2>2. QED
    BY <1>3, <2>1
<1>6. CASE k # 1 /\ k \notin 2 .. e
  <2>1. PICK j \in 2 .. Len(C) : k = e + j - 1 /\ (e # 0 \/ j # 2)
    <3>1. k - e + 1 \in 2 .. Len(C) /\ k = e + (k - e + 1) - 1 /\ (e # 0 \/ (k - e + 1) # 2)
      BY <1>1, <1>2, <1>6
    <3>2. QED
      BY <3>1
  <2>2. T[k] = C[j]
    BY <1>2, <2>1 DEF Contexts, Stacks
  <2>3. Declares(D, T[k][n], n, {IF j = 2 THEN "parameter" ELSE "local"})
    BY <2>2 DEF Contexts, CheckedContexts
  <2>4. Declares(D, T[k][n], n, {"parameter"}) \/ Declares(D, T[k][n], n, {"local"})
    BY <2>3
  <2>5. QED
    BY <1>3, <2>4
<1>7. QED
  BY <1>4, <1>5, <1>6

LEMMA Binding ==
  ASSUME NEW D, NEW F, NEW C, NEW T, Contexts(D, F, C, T), F # None,
         NEW n, NEW c, Means(C, Len(C), n, c)
  PROVE  /\ c \in 1 .. Len(D) /\ D[c].name = n
         /\ getVariable(T, n) # c <=> BoundOtherwise(D, F, n, c)
         /\ D[c].kind # "builtin" => getVariable(T, n) \in 2 .. Len(D)
<1>1. /\ C \in Seq(Context) /\ T \in Seq(Context) /\ D \in Seq(Declarations)
      /\ Earlier(C, T) >= 0 /\ Len(C) >= 2 /\ Len(C) \in Nat /\ Len(T) \in Nat
      /\ (Earlier(C, T) = 0 <=> F = 2)
      /\ F \in 2 .. Len(D) /\ F \in Nat /\ Len(D) \in Nat
      /\ D[2].kind = "function" /\ Program(D, F)
      /\ \A d \in 1 .. Len(D) : D[d].kind = "builtin" <=> d = 1
  BY DEF Contexts, Stacks, Program
<1>2. PICK e \in Nat : e = Earlier(C, T) /\ Len(T) = e + Len(C) - 1
  <2>1. Stacks(D, F, C, T)
    BY DEF Contexts
  <2>2. Earlier(C, T) \in Nat /\ Len(T) = Earlier(C, T) + Len(C) - 1
    BY <2>1, Sizes
  <2>3. QED
    BY <2>2
<1>3. PICK j \in 1 .. Len(C) : /\ n \in DOMAIN C[j] /\ C[j][n] = c
                               /\ \A i \in (j + 1) .. Len(C) : n \notin DOMAIN C[i]
  BY DEF Means
<1> DEFINE t == getVariable(T, n)
(* Contexts in which the translator cannot find n. *)
<1>4. ASSUME NEW k \in 1 .. Len(T), k > e + j - 1, k > e, k # 1
      PROVE  n \notin DOMAIN T[k]
  <2>1. PICK i \in (j + 1) .. Len(C) : k = e + i - 1 /\ i >= 2 /\ (e # 0 \/ i # 2)
    <3>1. /\ k - e + 1 \in (j + 1) .. Len(C) /\ k = e + (k - e + 1) - 1
          /\ k - e + 1 >= 2 /\ (e # 0 \/ (k - e + 1) # 2)
      <4>1. PICK l, m \in Nat : l = Len(C) /\ m = Len(T) /\ m = e + l - 1 /\ l >= 2
        BY <1>1, <1>2
      <4>2. k \in 1 .. m /\ j \in 1 .. l
        BY <4>1
      <4>3. k - e + 1 \in (j + 1) .. l /\ k = e + (k - e + 1) - 1 /\ k - e + 1 >= 2
        BY <1>4, <4>1, <4>2
      <4>4. e # 0 \/ (k - e + 1) # 2
        BY <1>4, <4>2
      <4>5. QED
        BY <4>1, <4>3, <4>4
    <3>2. QED
      BY <3>1
  <2>2. i \in 2 .. Len(C)
    BY <1>1, <2>1
  <2>3. T[k] = C[i]
    BY <1>2, <2>1, <2>2 DEF Contexts, Stacks
  <2>4. QED
    BY <1>3, <2>1, <2>3
(* Wherever it finds it, that is a declaration of n. *)
<1>5. ASSUME NEW k \in 1 .. Len(T), n \in DOMAIN T[k]
      PROVE  t \in 2 .. Len(D) /\ Means(T, Len(T), n, t)
  <2>1. t # None
    <3>1. t = None => n \notin DOMAIN T[k]
      BY <1>1, NotFound
    <3>2. QED
      BY <1>5, <3>1
  <2>2. Means(T, Len(T), n, t)
    BY <1>1, <2>1, FoundMeans
  <2>3. PICK i \in 1 .. Len(T) : n \in DOMAIN T[i] /\ T[i][n] = t
    BY <2>2 DEF Means
  <2>4. t \in 2 .. Len(D)
    <3> HIDE DEF t
    <3>1. QED
      BY <2>3, TranslatedNames
  <2>5. QED
    BY <2>2, <2>4
<1>6. t \in {None} \cup 2 .. Len(D)
  <2>1. CASE t = None
    BY <2>1
  <2>2. CASE t # None
    <3>1. Means(T, Len(T), n, t)
      BY <1>1, <2>2, FoundMeans
    <3>2. PICK i \in 1 .. Len(T) : n \in DOMAIN T[i]
      BY <3>1 DEF Means
    <3>3. t \in 2 .. Len(D)
      BY <1>5, <3>2
    <3>4. QED
      BY <3>3
  <2>3. QED
    BY <2>1, <2>2
(* A variable or a parameter. *)
<1>7. CASE j \in 2 .. Len(C) /\ (e # 0 \/ j # 2)
  <2>1. Declares(D, c, n, {IF j = 2 THEN "parameter" ELSE "local"}) /\ c > F
    BY <1>3, <1>7 DEF Contexts, CheckedContexts
  <2>2. c \in 2 .. Len(D) /\ c >= F /\ D[c].name = n
    BY <1>1, <2>1 DEF Declares
  <2>3. FunctionIn(D, c) = F
    BY <1>1, <2>2, FunctionFacts
  <2>4. ~BoundOtherwise(D, F, n, c)
    <3>1. CASE j = 2
      <4>1. F # 2 /\ D[c].kind = "parameter"
        BY <1>1, <1>2, <1>7, <2>1, <3>1 DEF Declares
      <4>2. QED
        BY <2>3, <4>1 DEF BoundOtherwise
    <3>2. CASE j # 2
      <4>1. D[c].kind = "local"
        BY <2>1, <3>2 DEF Declares
      <4>2. QED
        BY <4>1 DEF BoundOtherwise
    <3>3. QED
      BY <3>1, <3>2
  <2>5. e + j - 1 \in 1 .. Len(T)
    BY <1>1, <1>2, <1>7
  <2>6. T[e + j - 1] = C[j]
    BY <1>2, <1>7 DEF Contexts, Stacks
  <2>7. \A k \in ((e + j - 1) + 1) .. Len(T) : k \in 1 .. Len(T) /\ k > e + j - 1 /\ k > e /\ k # 1
    BY <1>1, <1>2, <1>7
  <2>8. Means(T, Len(T), n, c)
    BY <1>3, <1>4, <2>5, <2>6, <2>7 DEF Means
  <2>9. t = c
    BY <1>1, <2>8, MeansWhatIsFound
  <2>10. QED
    BY <2>2, <2>4, <2>9
(* A parameter of the first function, while that is visited. *)
<1>8. CASE e = 0 /\ j = 2
  <2>1. Declares(D, c, n, {"parameter"}) /\ c > F /\ F = 2
    <3>1. 2 \in 2 .. Len(C) /\ n \in DOMAIN C[2] /\ C[2][n] = c
      BY <1>1, <1>3, <1>8
    <3>2. Declares(D, c, n, {IF 2 = 2 THEN "parameter" ELSE "local"}) /\ c > F
      BY <3>1 DEF Contexts, CheckedContexts
    <3>3. QED
      BY <1>1, <1>2, <1>8, <3>2
  <2>2. c \in 2 .. Len(D) /\ c >= F /\ D[c].name = n /\ D[c].kind = "parameter"
    BY <1>1, <2>1 DEF Declares
  <2>3. FunctionIn(D, c) = 2
    BY <1>1, <2>1, <2>2, FunctionFacts
  <2>4. BoundOtherwise(D, F, n, c) <=> D[2].name = n
    BY <2>2, <2>3 DEF BoundOtherwise
  <2>5. FirstContext(D, T) /\ Len(T) >= 1
    BY <1>1, <1>2 DEF Contexts
  <2>6. 2 \in 2 .. Len(D)
    BY <1>1
  <2>7. n \in DOMAIN T[1] /\ T[1][n] = IF D[2].name = n THEN 2 ELSE c
    <3>1. CASE D[2].name = n
      BY <1>1, <2>5, <2>6, <3>1 DEF FirstContext
    <3>2. CASE D[2].name # n
      BY <2>2, <2>3, <2>5, <3>2 DEF FirstContext
    <3>3. QED
      BY <3>1, <3>2
  <2>8. \A k \in (1 + 1) .. Len(T) : n \notin DOMAIN T[k]
    <3>1. \A k \in (1 + 1) .. Len(T) : k \in 1 .. Len(T) /\ k > e + j - 1 /\ k > e /\ k # 1
      BY <1>1, <1>8
    <3>2. QED
      BY <1>4, <3>1
  <2>9. Means(T, Len(T), n, T[1][n])
    <3>1. 1 \in 1 .. Len(T)
      BY <1>1, <2>5
    <3>2. QED
      BY <2>7, <2>8, <3>1 DEF Means
  <2>10. t = T[1][n]
    BY <1>1, <2>9, MeansWhatIsFound
  <2>11. c # 2
    BY <1>1, <2>2
  <2>12. 1 \in 1 .. Len(T)
    BY <1>1, <2>5
  <2>13. t \in 2 .. Len(D)
    BY <1>5, <2>7, <2>12
  <2>14. QED
    BY <1>1, <2>2, <2>4, <2>7, <2>10, <2>11, <2>13
(* A function, or a built-in one. *)
<1>9. CASE j = 1
  <2>1. Declares(D, c, n, {"builtin", "function"}) /\ c \in 1 .. Len(D) /\ D[c].name = n
    BY <1>3, <1>9 DEF Contexts, CheckedContexts, Declares
  <2>2. CASE D[c].kind = "builtin"
    <3>1. c = 1 /\ BoundOtherwise(D, F, n, c)
      BY <1>1, <2>1, <2>2 DEF BoundOtherwise
    <3>2. t # 1
      BY <1>6 DEF None
    <3>3. QED
      BY <2>1, <2>2, <3>1, <3>2
  <2>3. CASE D[c].kind # "builtin"
    <3>1. D[c].kind = "function" /\ c \in 2 .. Len(D)
      BY <1>1, <2>1, <2>3 DEF Declares
    <3>2. FirstContext(D, T) /\ Len(T) >= 1 /\ 1 \in 1 .. Len(T)
      BY <1>1, <1>2 DEF Contexts
    <3>3. n \in DOMAIN T[1]
      BY <2>1, <3>1, <3>2 DEF FirstContext
    <3>4. t \in 2 .. Len(D) /\ Means(T, Len(T), n, t)
      BY <1>5, <3>2, <3>3
    <3>5. PICK k \in 1 .. Len(T) : /\ n \in DOMAIN T[k] /\ T[k][n] = t
                                   /\ \A i \in (k + 1) .. Len(T) : n \notin DOMAIN T[i]
      BY <3>4 DEF Means
    <3>6. k = 1 \/ k \in 2 .. e
      <4>1. k > e /\ k # 1 => k > e + j - 1
        BY <1>9
      <4>2. ~(k > e /\ k # 1)
        BY <1>4, <3>5, <4>1
      <4>3. QED
        BY <1>1, <4>2
    <3>7. k \in 2 .. e => /\ Declares(D, t, n, {"parameter"})
                          /\ FunctionIn(D, t) # 2 /\ FunctionIn(D, t) < F
      BY <1>2, <3>5 DEF Contexts, LeftContexts
    <3>8. BoundOtherwise(D, F, n, c) <=> EarlierIn(D, F, n)
      BY <3>1 DEF BoundOtherwise
    <3> HIDE DEF t
    <3>9. ASSUME EarlierIn(D, F, n) PROVE t # c
      <4>1. PICK p \in DOMAIN D : /\ D[p].kind = "parameter" /\ D[p].name = n
                                  /\ FunctionIn(D, p) < F
                                  /\ FunctionIn(D, p) = 2 => D[2].name # n
        BY <3>9 DEF EarlierIn
      <4>2. p \in 2 .. Len(D)
        BY <1>1, <4>1
      <4>3. FunctionIn(D, p) \in 2 .. p /\ FunctionIn(D, p) # F
        BY <1>1, <4>1, <4>2, FunctionFacts
      <4>4. CASE k \in 2 .. e
        BY <3>1, <3>7, <4>4 DEF Declares
      <4>5. CASE k = 1
        <5>1. ASSUME FunctionIn(D, p) # 2 PROVE FALSE
          <6>1. PICK i \in 2 .. e : n \in DOMAIN T[i]
            BY <1>2, <4>1, <4>2, <4>3, <5>1 DEF Contexts, LeftContexts
          <6>2. i \in (k + 1) .. Len(T)
            BY <1>1, <1>2, <4>5
          <6>3. QED
            BY <3>5, <6>1, <6>2
        <5>2. T[1][n] = p
          BY <3>2, <4>1, <4>2, <5>1 DEF FirstContext
        <5>3. QED
          BY <3>1, <3>5, <4>1, <4>5, <5>2
      <4>6. QED
        BY <3>6, <4>4, <4>5
    <3>10. ASSUME ~EarlierIn(D, F, n) PROVE t = c
      <4>1. ASSUME D[t].kind = "parameter", D[t].name = n, t \in 2 .. Len(D),
                   FunctionIn(D, t) < F, FunctionIn(D, t) = 2 => D[2].name # n
            PROVE  FALSE
        <5>1. t \in DOMAIN D
          BY <1>1, <4>1
        <5>2. QED
          BY <3>10, <4>1, <5>1 DEF EarlierIn
      <4>2. k = 1
        BY <3>4, <3>6, <3>7, <4>1 DEF Declares
      <4>3. /\ Declares(D, t, n, {"function", "parameter"})
            /\ D[t].kind = "parameter" => FunctionIn(D, t) = 2
        BY <3>2, <3>5, <4>2 DEF FirstContext
      <4>4. CASE D[t].kind = "function"
        <5>1. t \in 1 .. Len(D) /\ D[t].name = n
          BY <4>3 DEF Declares
        <5>2. C[1][n] = t
          BY <4>4, <5>1 DEF Contexts, CheckedContexts
        <5>3. QED
          BY <1>3, <1>9, <5>2
      <4>5. CASE D[t].kind = "parameter"
        <5>1. FunctionIn(D, t) = 2 /\ D[t].name = n
          BY <4>3, <4>5 DEF Declares
        <5>2. CASE F = 2
          <6>1. t \in (F + 1) .. Len(D)
            BY <1>1, <3>4, <4>5, <5>2
          <6>2. n \in DOMAIN C[2]
            BY <4>5, <5>1, <6>1 DEF Contexts, CheckedContexts
          <6>3. 2 \in (j + 1) .. Len(C)
            BY <1>1, <1>9
          <6>4. QED
            BY <1>3, <6>2, <6>3
        <5>3. CASE F # 2
          <6>1. FunctionIn(D, t) < F
            BY <1>1, <5>1, <5>3
          <6>2. D[2].name = n
            BY <3>4, <4>1, <4>5, <5>1, <6>1
          <6>3. t = 2
            BY <3>2, <3>5, <4>2, <6>2 DEF FirstContext
          <6>4. QED
            BY <1>1, <4>5, <6>3
        <5>4. QED
          BY <5>2, <5>3
      <4>6. QED
        BY <4>3, <4>4, <4>5 DEF Declares
    <3>11. QED
      BY <2>1, <3>4, <3>8, <3>9, <3>10 DEF t
  <2>4. QED
    BY <2>2, <2>3
<1>10. QED
  BY <1>1, <1>7, <1>8, <1>9

-----------------------------------------------------------------------------
(* Loops.                                                                    *)
LEMMA CheckedNames ==
  ASSUME NEW D, NEW F, NEW C, NEW T, Contexts(D, F, C, T), NEW k \in Nat, k <= Len(C),
         NEW n, NEW c, Means(C, k, n, c)
  PROVE  c \in 1 .. Len(D)
<1>1. PICK j \in 1 .. k : n \in DOMAIN C[j] /\ C[j][n] = c
  BY DEF Means
<1>2. j = 1 \/ j \in 2 .. Len(C)
  <2>1. Len(C) \in Nat
    BY Sizes DEF Contexts
  <2>2. QED
    BY <2>1
<1>3. \E K : Declares(D, c, n, K)
  BY <1>1, <1>2 DEF Contexts, CheckedContexts
<1>4. QED
  BY <1>3 DEF Declares

LEMMA MeansKept ==
  ASSUME NEW C, NEW C2, NEW k \in Nat, NEW n, NEW c, Means(C, k, n, c),
         \A j \in 1 .. k : /\ n \in DOMAIN C2[j] <=> n \in DOMAIN C[j]
                           /\ n \in DOMAIN C[j] => C2[j][n] = C[j][n]
  PROVE  Means(C2, k, n, c)
<1>1. PICK j \in 1 .. k : /\ n \in DOMAIN C[j] /\ C[j][n] = c
                          /\ \A i \in (j + 1) .. k : n \notin DOMAIN C[i]
  BY DEF Means
<1>2. n \in DOMAIN C2[j] /\ C2[j][n] = c
  BY <1>1
<1>3. \A i \in (j + 1) .. k : n \notin DOMAIN C2[i]
  <2>1. \A i \in (j + 1) .. k : i \in 1 .. k
    OBVIOUS
  <2>2. QED
    BY <1>1, <2>1
<1>4. QED
  BY <1>2, <1>3 DEF Means

LEMMA NoLoop ==
  ASSUME NEW L, NEW C, Loops(L, C), Len(C) \in Nat, \A k \in 1 .. Len(L) : L[k].contexts # Len(C),
         Len(C) <= 3, NEW C2
  PROVE  Loops(L, C2)
<1>1. \A k \in 1 .. Len(L) : FALSE
  BY DEF Loops, Loop
<1>2. QED
  BY <1>1 DEF Loops

(* A statement is over: the loops around it get the names it declared, if     *)
(* any, in their own.                                                      *)
CompletedLoops(L, m, own) ==
  [k \in DOMAIN L |-> IF L[k].contexts = m THEN [L[k] EXCEPT !.over = TRUE, !.own = own] ELSE L[k]]

\* None is over yet, and they are outside of the m-th context or in it.
Around(L, m) == \A k \in 1 .. Len(L) : ~L[k].over /\ L[k].contexts <= m

\* The m-th context, now the last, has the names own in addition.
Extended(C, C2, m, own) ==
  /\ m = Len(C2)
  /\ \A j \in 1 .. m : j # m => C2[j] = C[j]
  /\ DOMAIN C2[m] = DOMAIN C[m] \cup own
  /\ \A x \in DOMAIN C[m] : C2[m][x] = C[m][x]
  /\ own \cap DOMAIN C[m] = {}

LEMMA LoopsCompleted ==
  ASSUME NEW L, NEW C, NEW C2, NEW m \in Nat, NEW own \in SUBSET Names, NEW L2,
         Loops(L, C), Around(L, m), Extended(C, C2, m, own),
         \A k \in 1 .. Len(L) : \A x \in own : L[k].checked < C2[m][x],
         L2 = CompletedLoops(L, m, own)
  PROVE  Loops(L2, C2)
<1>1. L \in Seq(LoopType) /\ \A k \in 1 .. Len(L) : Loop(L[k], C) /\ L[k] \in LoopType
  BY DEF Loops
<1>2. L2 \in Seq(LoopType) /\ Len(L2) = Len(L)
  <2>1. \A k \in 1 .. Len(L) : [L[k] EXCEPT !.over = TRUE, !.own = own] \in LoopType
    BY <1>1 DEF LoopType
  <2>2. L2 \in [1 .. Len(L) -> LoopType] /\ Len(L) \in Nat
    <3>1. DOMAIN L = 1 .. Len(L) /\ Len(L) \in Nat
      BY <1>1
    <3>2. QED
      BY <1>1, <2>1, <3>1 DEF CompletedLoops
  <2>3. QED
    BY <2>2
<1>3. ASSUME NEW k \in 1 .. Len(L2) PROVE Loop(L2[k], C2)
  <2>1. PICK l \in LoopType : l = L[k] /\ Loop(l, C) /\ ~l.over /\ l.contexts <= m /\ k \in DOMAIN L
    BY <1>1, <1>2 DEF Around
  <2>2. /\ l.contexts \in Nat /\ l.contexts \in 3 .. m /\ l.own = {}
        /\ Means(C, l.contexts, l.name, l.checked)
    BY <2>1 DEF Loop, LoopType
  <2>3. CASE l.contexts # m
    <3>1. L2[k] = l
      BY <2>1, <2>3 DEF CompletedLoops
    <3>2. \A j \in 1 .. l.contexts : C2[j] = C[j]
      BY <2>2, <2>3 DEF Extended
    <3>3. Means(C2, l.contexts, l.name, l.checked)
      BY <2>2, <3>2, MeansKept
    <3>4. QED
      BY <2>1, <2>2, <3>1, <3>3 DEF Loop, Extended
  <2>4. CASE l.contexts = m
    <3>1. L2[k] = [l EXCEPT !.over = TRUE, !.own = own]
      BY <2>1, <2>4 DEF CompletedLoops
    <3>2. PICK r : r = L2[k]
      OBVIOUS
    <3>3. r.over = TRUE /\ r.own = own /\ r.contexts = m /\ r.name = l.name /\ r.checked = l.checked
      BY <2>1, <2>4, <3>1, <3>2 DEF LoopType
    <3>4. CASE l.name \in own
      <4>1. l.checked < C2[m][l.name] /\ l.name \in DOMAIN C2[m] /\ m = Len(C2)
        BY <2>1, <3>4 DEF Extended
      <4>2. QED
        BY <2>2, <2>4, <3>2, <3>3, <3>4, <4>1 DEF Loop
    <3>5. CASE l.name \notin own
      <4>1. \A j \in 1 .. m : /\ l.name \in DOMAIN C2[j] <=> l.name \in DOMAIN C[j]
                              /\ l.name \in DOMAIN C[j] => C2[j][l.name] = C[j][l.name]
        BY <3>5 DEF Extended
      <4>2. Means(C2, m, l.name, l.checked)
        BY <2>2, <2>4, <4>1, MeansKept
      <4>3. QED
        BY <2>2, <2>4, <3>2, <3>3, <3>5, <4>2 DEF Loop, Extended
    <3>6. QED
      BY <3>4, <3>5
  <2>5. QED
    BY <2>3, <2>4
<1>4. QED
  BY <1>2, <1>3 DEF Loops

-----------------------------------------------------------------------------
(* The uses: what a step that sets use has to show.                          *)
Properties == UsesBindAsChecked /\ AcceptedNamesAreFound

LEMMA UseVisited ==
  ASSUME NEW n, NEW c, NEW t, NEW own,
         Program(declared', fun), c \in 1 .. Len(declared'),
         use' = Use(n, c, t, own), status' = Translated(t),
         t # c <=> n \in own \/ BoundOtherwise(declared', fun, n, c),
         declared'[c].kind # "builtin" => t \in 2 .. Len(declared')
  PROVE  Properties'
<1>1. /\ use'.name = n /\ use'.checked = c /\ use'.translated = t /\ use'.own = own /\ use'.in = fun
  BY DEF Use
<1>2. Differs' <=> n \in own \/ BoundOtherwise(declared', fun, n, c)
  <2>1. EarlierParameter(use.name)' <=> EarlierIn(declared', fun, n)
    BY <1>1 DEF EarlierParameter, EarlierIn, FunctionOf, FunctionIn, FirstFunction
  <2>2. FunctionOf(use.checked)' = FunctionIn(declared', c)
    BY <1>1 DEF FunctionOf, FunctionIn
  <2>3. QED
    BY <1>1, <2>1, <2>2 DEF Differs, BoundOtherwise, FirstFunction
<1>3. UsesBindAsChecked'
  BY <1>1, <1>2 DEF UsesBindAsChecked
<1>4. AcceptedNamesAreFound'
  <2>1. SUFFICES ASSUME status' = "aborted", declared'[c].kind # "builtin"
                 PROVE  t # None /\ declared'[t].op = "ARG"
    BY <1>1 DEF AcceptedNamesAreFound
  <2>2. t \in 2 .. Len(declared')
    BY <2>1
  <2>3. t # None /\ declared'[t].op # "none" /\ declared'[t].op \in {"none", "FUN", "ALLOCA", "ARG"}
    <3>1. t # None
      BY <2>2 DEF None
    <3>2. declared' \in Seq(Declarations) /\ t \in 1 .. Len(declared') /\ declared'[t].op # "none"
      BY <2>2 DEF Program
    <3>3. declared'[t] \in Declarations
      BY <3>2
    <3>4. QED
      BY <3>1, <3>2, <3>3 DEF Declarations
  <2>4. declared'[t].op \notin {"ALLOCA", "FUN"}
    BY <2>1, <2>3 DEF Translated, Found
  <2>5. QED
    BY <2>3, <2>4
<1>5. QED
  BY <1>3, <1>4 DEF Properties

LEMMA NothingUsed ==
  ASSUME use' = NoUse, status' # "aborted"
  PROVE  Properties'
  BY DEF Properties, UsesBindAsChecked, AcceptedNamesAreFound, NoUse

-----------------------------------------------------------------------------
LEMMA InitInv == Init => IInv /\ Properties
<1> SUFFICES ASSUME Init PROVE IInv /\ Properties
  OBVIOUS
<1> DEFINE D == <<Declaration("builtin", Builtin, "none")>>
           G == InsertLast(<<Empty>>, Builtin, 1)[1]
<1>1. /\ declared = D /\ fun = None /\ checked = <<G>> /\ translated = <<>> /\ loops = <<>>
      /\ use = NoUse /\ status = "running"
  BY DEF Init
<1>2. Builtin \in Names
  BY NamesAssumption
<1>3. G \in Context /\ DOMAIN G = {Builtin} /\ G[Builtin] = 1
  <2>1. G = Insert(Empty, Builtin, 1)
    BY DEF InsertLast, InsertAt
  <2>2. Empty \in Context /\ DOMAIN Empty = {} /\ Builtin \in Names /\ 1 \in Nat \ {0}
    BY <1>2, EmptyContext
  <2>3. /\ Insert(Empty, Builtin, 1) \in Context
        /\ DOMAIN Insert(Empty, Builtin, 1) = DOMAIN Empty \cup {Builtin}
        /\ Builtin \notin DOMAIN Empty => Insert(Empty, Builtin, 1)[Builtin] = 1
    BY <2>2, InsertedContext
  <2> HIDE DEF G
  <2>4. QED
    BY <2>1, <2>2, <2>3
<1>4. D \in Seq(Declarations) /\ Len(D) = 1 /\ D[1].kind = "builtin" /\ D[1].name = Builtin /\ D[1].op = "none"
  BY <1>2 DEF Declaration, Declarations, Kinds
<1> HIDE DEF D, G
<1>5. /\ <<G>> \in Seq(Context) /\ Len(<<G>>) = 1 /\ <<G>>[1] = G
      /\ <<>> \in Seq(Context) /\ Len(<<>>) = 0
  BY <1>3
<1>6. Earlier(<<G>>, <<>>) = 0
  BY <1>5 DEF Earlier
<1>7. Program(D, None)
  BY <1>4 DEF Program
<1>8. Stacks(D, None, <<G>>, <<>>)
  BY <1>4, <1>5, <1>6 DEF Stacks
<1>9. CheckedContexts(D, None, <<G>>)
  BY <1>3, <1>4, <1>5 DEF CheckedContexts, Declares
<1>10. FirstContext(D, <<>>) /\ LeftContexts(D, None, <<G>>, <<>>)
  BY <1>4, <1>5, <1>6 DEF FirstContext, LeftContexts
<1>11. Contexts(declared, fun, checked, translated)
  BY <1>1, <1>7, <1>8, <1>9, <1>10 DEF Contexts
<1>12. Loops(loops, checked)
  BY <1>1 DEF Loops
<1>13. Properties
  BY <1>1 DEF Properties, UsesBindAsChecked, AcceptedNamesAreFound
<1>14. QED
  BY <1>11, <1>12, <1>13 DEF IInv

LEMMA RejectedInv == IInv /\ Rejected => IInv' /\ Properties'
<1> SUFFICES ASSUME IInv, Rejected PROVE IInv' /\ Properties'
  OBVIOUS
<1>1. use' = NoUse /\ status' = "rejected" /\ UNCHANGED <<declared, fun, checked, translated, loops>>
  BY DEF Rejected
<1>2. QED
  BY <1>1, NothingUsed DEF IInv

\* None of the loops there are is over, while something else is visited.
LEMMA VisitingFacts ==
  ASSUME IInv, Visiting
  PROVE  fun # None /\ Running /\ Around(loops, Len(checked)) /\ Len(checked) \in Nat
<1>1. fun # None /\ Running /\ loops \in Seq(LoopType)
  BY DEF IInv, Visiting, Loops
<1>2. Len(checked) \in Nat
  BY Sizes DEF IInv, Contexts
<1>3. QED
  BY <1>1, <1>2 DEF IInv, Visiting, Loops, Loop, Around

LEMMA EnterFunctionInv == \A n \in Names : IInv /\ EnterFunction(n) => IInv' /\ Properties'
<1> SUFFICES ASSUME NEW n \in Names, IInv, EnterFunction(n) PROVE IInv' /\ Properties'
  OBVIOUS
<1>1. CASE n \in DOMAIN checked[1]
  BY <1>1, RejectedInv DEF EnterFunction
<1>2. CASE n \notin DOMAIN checked[1]
  <2> DEFINE x == Declaration("function", n, "FUN")
             d == Len(declared) + 1
  <2>1. /\ fun = None /\ declared' = Append(declared, x) /\ fun' = d
        /\ checked' = Append(InsertLast(checked, n, d), Empty)
        /\ translated' = InsertAt(Append(translated, Empty), 1, n, d)
        /\ use' = NoUse /\ UNCHANGED <<loops, status>> /\ Running
    BY <1>2 DEF EnterFunction, AddFunction, Next_
  <2>2. x \in Declarations /\ x.kind = "function" /\ x.op # "none" /\ x.name = n
    BY DEF Declaration, Declarations, Kinds
  <2> HIDE DEF x
  <2>3. Contexts(declared, None, checked, translated) /\ x.name \notin DOMAIN checked[1]
    BY <1>2, <2>1, <2>2 DEF IInv
  <2>4. Contexts(Append(declared, x), d, Append(InsertLast(checked, n, d), Empty),
                 InsertAt(Append(translated, Empty), 1, n, d))
    BY <2>2, <2>3, FunctionEntered
  <2>5. Contexts(declared, fun, checked, translated)'
    BY <2>1, <2>4
  <2>6. Loops(loops, checked')
    <3>1. Len(checked) = 1
      BY <2>1 DEF IInv, Contexts, Stacks
    <3>2. \A k \in 1 .. Len(loops) : loops[k].contexts # 1
      BY <3>1 DEF IInv, Loops, Loop
    <3>3. Loops(loops, checked) /\ Len(checked) \in Nat /\ Len(checked) <= 3
          /\ \A k \in 1 .. Len(loops) : loops[k].contexts # Len(checked)
      BY <3>1, <3>2 DEF IInv
    <3>4. QED
      BY <3>3, NoLoop
  <2>7. Properties'
    BY <2>1, NothingUsed DEF Running
  <2>8. QED
    BY <2>1, <2>5, <2>6, <2>7 DEF IInv
<1>3. QED
  BY <1>1, <1>2

LEMMA AddParameterInv ==
  \A n \in Names, op \in {"ALLOCA", "ARG"} : IInv /\ AddParameter(n, op) => IInv' /\ Properties'
<1> SUFFICES ASSUME NEW n \in Names, NEW op \in {"ALLOCA", "ARG"}, IInv, AddParameter(n, op)
             PROVE  IInv' /\ Properties'
  OBVIOUS
<1> DEFINE x == Declaration("parameter", n, op)
           d == Len(declared) + 1
<1>1. /\ Visiting /\ Len(checked) = 2 /\ n \notin DOMAIN back(checked)
      /\ declared' = Append(declared, x)
      /\ checked' = InsertLast(checked, n, d) /\ translated' = InsertLast(translated, n, d)
      /\ use' = NoUse /\ UNCHANGED <<fun, loops, status>> /\ Running
  BY DEF AddParameter, InParameters, Visiting, Next_
<1>2. x \in Declarations /\ x.kind = "parameter" /\ x.op # "none" /\ x.name = n
  BY DEF Declaration, Declarations, Kinds
<1> HIDE DEF x
<1>3. /\ Contexts(declared, fun, checked, translated) /\ fun # None
      /\ x.kind = (IF Len(checked) = 2 THEN "parameter" ELSE "local")
      /\ x.name \notin DOMAIN back(checked)
  BY <1>1, <1>2, VisitingFacts DEF IInv
<1>4. Contexts(Append(declared, x), fun, InsertLast(checked, x.name, d), InsertLast(translated, x.name, d))
  BY <1>2, <1>3, NameAdded
<1>5. Contexts(declared, fun, checked, translated)'
  BY <1>1, <1>2, <1>4
<1>6. Loops(loops, checked')
  <2>1. \A k \in 1 .. Len(loops) : loops[k].contexts # 2
    BY <1>1 DEF IInv, Loops, Loop
  <2>2. Loops(loops, checked) /\ Len(checked) \in Nat /\ Len(checked) <= 3
        /\ \A k \in 1 .. Len(loops) : loops[k].contexts # Len(checked)
    BY <1>1, <2>1 DEF IInv
  <2>3. QED
    BY <2>2, NoLoop
<1>7. Properties'
  BY <1>1, NothingUsed DEF Running
<1>8. QED
  BY <1>1, <1>5, <1>6, <1>7 DEF IInv

LEMMA EnterBlockInv == IInv /\ EnterBlock => IInv' /\ Properties'
<1> SUFFICES ASSUME IInv, EnterBlock PROVE IInv' /\ Properties'
  OBVIOUS
<1>1. /\ Visiting /\ fun # None /\ Running
      /\ checked' = Append(checked, Empty) /\ translated' = Append(translated, Empty)
      /\ use' = NoUse /\ UNCHANGED <<declared, fun, loops, status>>
  BY DEF EnterBlock, Visiting
<1>2. Contexts(declared, fun, checked, translated)'
  <2>1. Contexts(declared, fun, Append(checked, Empty), Append(translated, Empty))
    BY <1>1, BlockEntered DEF IInv
  <2>2. QED
    BY <1>1, <2>1
<1>3. Loops(loops, checked')
  <2>1. /\ checked \in Seq(Context) /\ Len(checked) \in Nat /\ Len(checked') = Len(checked) + 1
        /\ \A j \in 1 .. Len(checked) : checked'[j] = checked[j]
    BY <1>1, EmptyContext, Appended DEF IInv, Contexts, Stacks
  <2>2. ASSUME NEW k \in 1 .. Len(loops) PROVE Loop(loops[k], checked')
    <3>1. PICK l \in LoopType : l = loops[k] /\ Loop(l, checked) /\ ~l.over
      BY VisitingFacts, <1>1 DEF IInv, Loops, Around
    <3>2. /\ l.contexts \in Nat /\ l.contexts \in 3 .. Len(checked) /\ l.own = {}
          /\ Means(checked, l.contexts, l.name, l.checked)
      BY <3>1 DEF Loop, LoopType
    <3>3. \A j \in 1 .. l.contexts : checked'[j] = checked[j]
      BY <2>1, <3>2
    <3>4. Means(checked', l.contexts, l.name, l.checked)
      BY <3>2, <3>3, MeansKept
    <3>5. l.contexts \in 3 .. Len(checked')
      BY <2>1, <3>2
    <3>6. QED
      BY <3>1, <3>2, <3>4, <3>5 DEF Loop
  <2>3. QED
    BY <2>2 DEF IInv, Loops
<1>4. Properties'
  BY <1>1, NothingUsed DEF Running
<1>5. QED
  BY <1>1, <1>2, <1>3, <1>4 DEF IInv

LEMMA LeaveBlockInv == IInv /\ LeaveBlock => IInv' /\ Properties'
<1> SUFFICES ASSUME IInv, LeaveBlock PROVE IInv' /\ Properties'
  OBVIOUS
<1>1. /\ Visiting /\ fun # None /\ Running /\ Len(checked) > 2 /\ Len(checked) \in Nat
      /\ \A k \in DOMAIN loops : loops[k].contexts # Len(checked)
      /\ translated' = popped(translated) /\ use' = NoUse /\ UNCHANGED <<declared, status>>
  BY VisitingFacts DEF LeaveBlock, InBody, WithoutBlock
<1>2. Properties'
  BY <1>1, NothingUsed DEF Running
<1>3. loops \in Seq(LoopType) /\ DOMAIN loops = 1 .. Len(loops)
  BY DEF IInv, Loops
<1>4. CASE Len(checked) = 3
  <2>1. fun' = None /\ checked' = popped(popped(checked)) /\ UNCHANGED loops
    BY <1>4 DEF LeaveBlock
  <2>2. Contexts(declared, None, popped(popped(checked)), popped(translated))
    BY <1>1, <1>4, FunctionLeft DEF IInv
  <2>3. Loops(loops, checked')
    <3>1. Loops(loops, checked) /\ Len(checked) <= 3
          /\ \A k \in 1 .. Len(loops) : loops[k].contexts # Len(checked)
      BY <1>1, <1>3, <1>4 DEF IInv
    <3>2. QED
      BY <1>1, <3>1, NoLoop
  <2>4. QED
    BY <1>1, <1>2, <2>1, <2>2, <2>3 DEF IInv
<1>5. CASE Len(checked) # 3
  <2>1. fun' = fun /\ checked' = popped(checked) /\ loops' = CompletedLoops(loops, Len(checked'), {})
    BY <1>5 DEF LeaveBlock, Completed, CompletedLoops
  <2>2. Contexts(declared, fun, popped(checked), popped(translated))
    BY <1>1, BlockLeft DEF IInv
  <2>3. PICK m \in Nat : /\ m = Len(checked') /\ Len(checked) = m + 1 /\ m >= 3
                         /\ \A j \in 1 .. m : checked'[j] = checked[j]
    <3>1. checked \in Seq(Context) /\ Len(checked) >= 1 /\ checked' = popped(checked)
      BY <1>1, <2>1 DEF IInv, Contexts, Stacks
    <3>2. Len(checked') = Len(checked) - 1 /\ \A j \in 1 .. Len(checked') : checked'[j] = checked[j]
      BY <3>1, Popped
    <3>3. QED
      BY <1>1, <1>5, <3>2
  <2>4. Loops(loops', checked')
    <3>1. Around(loops, m)
      <4>1. ASSUME NEW k \in 1 .. Len(loops) PROVE ~loops[k].over /\ loops[k].contexts <= m
        <5>1. /\ ~loops[k].over /\ loops[k].contexts \in 3 .. Len(checked)
              /\ loops[k].contexts # Len(checked)
          BY <1>1, <1>3, VisitingFacts DEF Around, IInv, Loops, Loop
        <5>2. QED
          BY <2>3, <5>1
      <4>2. QED
        BY <4>1 DEF Around
    <3>2. Extended(checked, checked', m, {})
      <4>1. m \in 1 .. m
        BY <2>3
      <4>2. QED
        BY <2>3, <4>1 DEF Extended
    <3>3. loops' = CompletedLoops(loops, m, {}) /\ Loops(loops, checked)
      BY <2>1, <2>3 DEF IInv
    <3>4. QED
      BY <3>1, <3>2, <3>3, LoopsCompleted
  <2>5. QED
    BY <1>1, <1>2, <2>1, <2>2, <2>4 DEF IInv
<1>6. QED
  BY <1>4, <1>5

\* The loops around a statement that is visited, over with it.
LEMMA StatementCompleted ==
  ASSUME IInv, Visiting, UNCHANGED checked, loops' = Completed({})
  PROVE  Loops(loops', checked')
<1>1. PICK m \in Nat : m = Len(checked) /\ Around(loops, m) /\ m >= 1
  BY VisitingFacts DEF IInv, Contexts, Stacks
<1>2. loops' = CompletedLoops(loops, m, {}) /\ checked' = checked
  BY <1>1 DEF Completed, CompletedLoops
<1>3. Extended(checked, checked', m, {})
  BY <1>1, <1>2 DEF Extended
<1>4. Loops(loops, checked)
  BY DEF IInv
<1>5. QED
  BY <1>1, <1>2, <1>3, <1>4, LoopsCompleted

LEMMA UseNameInv == \A n \in Names : IInv /\ UseName(n) => IInv' /\ Properties'
<1> SUFFICES ASSUME NEW n \in Names, IInv, UseName(n) PROVE IInv' /\ Properties'
  OBVIOUS
<1>1. CASE getVariable(checked, n) = None
  BY <1>1, RejectedInv DEF UseName
<1>2. CASE getVariable(checked, n) # None
  <2>1. PICK c, t : c = getVariable(checked, n) /\ t = getVariable(translated, n)
    OBVIOUS
  <2>2. /\ Visiting /\ UNCHANGED <<declared, fun, checked, translated>>
        /\ use' = Use(n, c, t, {}) /\ loops' = Completed({}) /\ status' = Translated(t)
    BY <1>2, <2>1 DEF UseName, InBody
  <2>3. Contexts(declared, fun, checked, translated) /\ fun # None
    BY <2>2, VisitingFacts DEF IInv
  <2>4. Means(checked, Len(checked), n, c)
    BY <1>2, <2>1, <2>3, FoundMeans DEF Contexts, Stacks
  <2>5. /\ c \in 1 .. Len(declared)
        /\ t # c <=> BoundOtherwise(declared, fun, n, c)
        /\ declared[c].kind # "builtin" => t \in 2 .. Len(declared)
    BY <2>1, <2>3, <2>4, Binding
  <2>6. Properties'
    <3>1. /\ Program(declared', fun) /\ c \in 1 .. Len(declared')
          /\ t # c <=> n \in {} \/ BoundOtherwise(declared', fun, n, c)
          /\ declared'[c].kind # "builtin" => t \in 2 .. Len(declared')
      BY <2>2, <2>3, <2>5 DEF Contexts
    <3>2. QED
      BY <2>2, <3>1, UseVisited
  <2>7. Loops(loops', checked')
    BY <2>2, StatementCompleted
  <2>8. QED
    BY <2>2, <2>3, <2>6, <2>7 DEF IInv
<1>3. QED
  BY <1>1, <1>2

LEMMA EnterLoopInv == \A n \in Names : IInv /\ EnterLoop(n) => IInv' /\ Properties'
<1> SUFFICES ASSUME NEW n \in Names, IInv, EnterLoop(n) PROVE IInv' /\ Properties'
  OBVIOUS
<1>1. CASE getVariable(checked, n) = None
  BY <1>1, RejectedInv DEF EnterLoop
<1>2. CASE getVariable(checked, n) # None
  <2>1. PICK c : c = getVariable(checked, n)
    OBVIOUS
  <2>2. PICK l : l = [name |-> n, checked |-> c, contexts |-> Len(checked), own |-> {}, over |-> FALSE]
    OBVIOUS
  <2>3. /\ Visiting /\ Running /\ loops' = Append(loops, l) /\ use' = NoUse /\ Len(checked) > 2
        /\ UNCHANGED <<declared, fun, checked, translated, status>>
    BY <1>2, <2>1, <2>2 DEF EnterLoop, InBody, Visiting
  <2>4. Contexts(declared, fun, checked, translated) /\ fun # None /\ Len(checked) \in Nat
    BY <2>3, VisitingFacts DEF IInv
  <2>5. Means(checked, Len(checked), n, c)
    BY <1>2, <2>1, <2>4, FoundMeans DEF Contexts, Stacks
  <2>6. c \in 1 .. Len(declared) /\ Len(declared) \in Nat
    BY <2>4, <2>5, Binding DEF Contexts, Program
  <2>7. l \in LoopType /\ Loop(l, checked)
    BY <2>2, <2>3, <2>4, <2>5, <2>6 DEF LoopType, Loop
  <2>8. Loops(loops', checked')
    <3>1. loops \in Seq(LoopType) /\ \A k \in 1 .. Len(loops) : Loop(loops[k], checked)
      BY DEF IInv, Loops
    <3>2. /\ loops' \in Seq(LoopType) /\ Len(loops') = Len(loops) + 1
          /\ loops'[Len(loops) + 1] = l /\ \A k \in 1 .. Len(loops) : loops'[k] = loops[k]
      BY <2>3, <2>7, <3>1, Appended
    <3>3. \A k \in 1 .. Len(loops') : k \in 1 .. Len(loops) \/ k = Len(loops) + 1
      BY <3>1, <3>2
    <3>4. QED
      BY <2>3, <2>7, <3>1, <3>2, <3>3 DEF Loops
  <2>9. Properties'
    BY <2>3, NothingUsed DEF Running
  <2>10. QED
    BY <2>3, <2>4, <2>8, <2>9 DEF IInv
<1>3. QED
  BY <1>1, <1>2

(* A variable of the innermost block, for both walks.                        *)
LEMMA VariableDeclared ==
  ASSUME NEW n \in Names, IInv, InBody, n \notin DOMAIN back(checked),
         declared' = Append(declared, Declaration("local", n, "ALLOCA")),
         checked' = InsertLast(checked, n, Next_), translated' = InsertLast(translated, n, Next_),
         loops' = Completed({n}), fun' = fun
  PROVE  /\ IInv'
         /\ Len(declared) \in Nat /\ Len(declared') = Len(declared) + 1
         /\ declared'[Len(declared) + 1] = Declaration("local", n, "ALLOCA")
         /\ Len(checked) \in Nat /\ Len(checked') = Len(checked)
         /\ \A j \in 1 .. Len(checked) : j # Len(checked) => checked'[j] = checked[j]
         /\ DOMAIN checked'[Len(checked)] = DOMAIN checked[Len(checked)] \cup {n}
         /\ \A m \in DOMAIN checked[Len(checked)] :
              checked'[Len(checked)][m] = checked[Len(checked)][m]
         /\ checked'[Len(checked)][n] = Len(declared) + 1
<1> DEFINE x == Declaration("local", n, "ALLOCA")
<1>1. Visiting /\ Len(checked) > 2
  BY DEF InBody
<1>2. /\ Contexts(declared, fun, checked, translated) /\ Loops(loops, checked) /\ fun # None
      /\ Around(loops, Len(checked)) /\ Len(checked) \in Nat
  BY <1>1, VisitingFacts DEF IInv
<1>3. PICK d, m \in Nat : d = Len(declared) /\ m = Len(checked) /\ m > 2 /\ Next_ = d + 1
  BY <1>1, <1>2 DEF Contexts, Program, Next_
<1>4. checked \in Seq(Context) /\ declared \in Seq(Declarations) /\ loops \in Seq(LoopType)
  BY <1>2 DEF Contexts, Stacks, Program, Loops
<1>5. x \in Declarations /\ x.kind = "local" /\ x.op # "none" /\ x.name = n
  BY DEF Declaration, Declarations, Kinds
<1> HIDE DEF x
<1>6. declared' = Append(declared, x)
  BY DEF x
<1>7. Contexts(declared', fun, checked', translated')
  <2>1. Contexts(Append(declared, x), fun, InsertLast(checked, x.name, Len(declared) + 1),
                 InsertLast(translated, x.name, Len(declared) + 1))
    <3>1. x.kind = (IF Len(checked) = 2 THEN "parameter" ELSE "local") /\ x.name \notin DOMAIN back(checked)
      BY <1>3, <1>5
    <3>2. QED
      BY <1>2, <1>5, <3>1, NameAdded
  <2>2. QED
    BY <1>5, <1>6, <2>1 DEF Next_
<1>8. Len(declared') = d + 1 /\ declared'[d + 1] = x
  BY <1>3, <1>4, <1>5, <1>6
<1>9. /\ Len(checked') = m
      /\ \A j \in 1 .. m : j # m => checked'[j] = checked[j]
      /\ DOMAIN checked'[m] = DOMAIN checked[m] \cup {n}
      /\ \A y \in DOMAIN checked[m] : checked'[m][y] = checked[m][y]
      /\ n \notin DOMAIN checked[m] => checked'[m][n] = d + 1
  <2>1. m \in 1 .. Len(checked) /\ d + 1 \in Nat \ {0} /\ checked' = InsertAt(checked, m, n, d + 1)
    BY <1>3 DEF InsertLast
  <2>2. /\ Len(checked') = Len(checked)
        /\ \A j \in 1 .. Len(checked) : j # m => checked'[j] = checked[j]
        /\ DOMAIN checked'[m] = DOMAIN checked[m] \cup {n}
        /\ \A y \in DOMAIN checked[m] : checked'[m][y] = checked[m][y]
        /\ n \notin DOMAIN checked[m] => checked'[m][n] = d + 1
    BY <1>4, <2>1, InsertedAt
  <2>3. QED
    BY <1>3, <2>2
<1>10. n \notin DOMAIN checked[m]
  BY <1>3 DEF back
<1>11. Loops(loops', checked')
  <2>1. Around(loops, m) /\ loops' = CompletedLoops(loops, m, {n})
    BY <1>2, <1>3, <1>9 DEF Completed, CompletedLoops
  <2>2. Extended(checked, checked', m, {n})
    BY <1>9, <1>10 DEF Extended
  <2>3. ASSUME NEW k \in 1 .. Len(loops) PROVE loops[k].checked < checked'[m][n]
    <3>1. PICK l \in LoopType : l = loops[k] /\ Loop(l, checked) /\ ~l.over
      BY <1>2, <1>4 DEF Loops, Around
    <3>2. /\ l.contexts \in Nat /\ l.contexts <= Len(checked)
          /\ Means(checked, l.contexts, l.name, l.checked)
      BY <3>1 DEF Loop, LoopType
    <3>3. l.checked \in 1 .. Len(declared)
      BY <1>2, <3>2, CheckedNames
    <3>4. QED
      BY <1>3, <1>9, <1>10, <3>1, <3>3
  <2>4. QED
    BY <1>2, <2>1, <2>2, <2>3, LoopsCompleted
<1>12. IInv'
  BY <1>7, <1>11 DEF IInv
<1>13. QED
  BY <1>3, <1>8, <1>9, <1>10, <1>12 DEF x

LEMMA DeclareInv == \A n \in Names : IInv /\ Declare(n) => IInv' /\ Properties'
<1> SUFFICES ASSUME NEW n \in Names, IInv, Declare(n) PROVE IInv' /\ Properties'
  OBVIOUS
<1>1. CASE n \in DOMAIN back(checked)
  BY <1>1, RejectedInv DEF Declare
<1>2. CASE n \notin DOMAIN back(checked)
  <2>1. /\ InBody /\ Running
        /\ declared' = Append(declared, Declaration("local", n, "ALLOCA"))
        /\ checked' = InsertLast(checked, n, Next_) /\ translated' = InsertLast(translated, n, Next_)
        /\ loops' = Completed({n}) /\ use' = NoUse /\ fun' = fun /\ status' = status
    BY <1>2 DEF Declare, InBody, Visiting
  <2>2. IInv'
    BY <1>2, <2>1, VariableDeclared
  <2>3. Properties'
    BY <2>1, NothingUsed DEF Running
  <2>4. QED
    BY <2>2, <2>3
<1>3. QED
  BY <1>1, <1>2

LEMMA DeclareWithValueInv ==
  \A n, m \in Names : IInv /\ DeclareWithValue(n, m) => IInv' /\ Properties'
<1> SUFFICES ASSUME NEW n \in Names, NEW m \in Names, IInv, DeclareWithValue(n, m)
             PROVE  IInv' /\ Properties'
  OBVIOUS
<1>1. CASE getVariable(checked, m) = None \/ n \in DOMAIN back(checked)
  BY <1>1, RejectedInv DEF DeclareWithValue
<1>2. CASE getVariable(checked, m) # None /\ n \notin DOMAIN back(checked)
  <2>1. PICK c, t : c = getVariable(checked, m) /\ t = getVariable(translated', m)
    OBVIOUS
  <2>2. /\ InBody /\ Visiting
        /\ declared' = Append(declared, Declaration("local", n, "ALLOCA"))
        /\ checked' = InsertLast(checked, n, Next_) /\ translated' = InsertLast(translated, n, Next_)
        /\ loops' = Completed({n}) /\ fun' = fun
        /\ use' = Use(m, c, t, {n}) /\ status' = Translated(t)
    BY <1>2, <2>1 DEF DeclareWithValue, InBody
  <2>3. /\ IInv'
        /\ Len(declared) \in Nat /\ Len(declared') = Len(declared) + 1
        /\ declared'[Len(declared) + 1] = Declaration("local", n, "ALLOCA")
        /\ Len(checked) \in Nat /\ Len(checked') = Len(checked)
        /\ \A j \in 1 .. Len(checked) : j # Len(checked) => checked'[j] = checked[j]
        /\ DOMAIN checked'[Len(checked)] = DOMAIN checked[Len(checked)] \cup {n}
        /\ \A y \in DOMAIN checked[Len(checked)] :
             checked'[Len(checked)][y] = checked[Len(checked)][y]
        /\ checked'[Len(checked)][n] = Len(declared) + 1
    BY <1>2, <2>2, VariableDeclared
  <2>4. /\ Contexts(declared, fun, checked, translated) /\ fun # None
        /\ Contexts(declared', fun, checked', translated') /\ Len(checked) > 2
    BY <2>2, <2>3, VisitingFacts DEF IInv, InBody
  <2>5. Means(checked, Len(checked), m, c)
    BY <1>2, <2>1, <2>4, FoundMeans DEF Contexts, Stacks
  <2>6. c \in 1 .. Len(declared)
    BY <2>4, <2>5, Binding
  <2>7. CASE m # n
    <3>1. \A j \in 1 .. Len(checked) : /\ m \in DOMAIN checked'[j] <=> m \in DOMAIN checked[j]
                                       /\ m \in DOMAIN checked[j] => checked'[j][m] = checked[j][m]
      BY <2>3, <2>7
    <3>2. Means(checked', Len(checked'), m, c)
      BY <2>3, <2>5, <3>1, MeansKept
    <3>3. /\ c \in 1 .. Len(declared')
          /\ t # c <=> BoundOtherwise(declared', fun, m, c)
          /\ declared'[c].kind # "builtin" => t \in 2 .. Len(declared')
      BY <2>1, <2>4, <3>2, Binding
    <3>4. t # c <=> m \in {n} \/ BoundOtherwise(declared', fun, m, c)
      BY <2>7, <3>3
    <3>5. Program(declared', fun)
      BY <2>4 DEF Contexts
    <3>6. QED
      BY <2>2, <2>3, <3>3, <3>4, <3>5, UseVisited
  <2>8. CASE m = n
    <3>1. PICK d \in Nat : d = Len(declared) + 1 /\ d = Len(declared') /\ declared'[d].kind = "local"
      BY <2>3 DEF Declaration
    <3>2. Means(checked', Len(checked'), m, d)
      <4>1. /\ Len(checked') \in 1 .. Len(checked') /\ m \in DOMAIN checked'[Len(checked')]
            /\ checked'[Len(checked')][m] = d
            /\ \A i \in (Len(checked') + 1) .. Len(checked') : m \notin DOMAIN checked'[i]
        BY <2>3, <2>4, <2>8, <3>1
      <4>2. QED
        BY <4>1 DEF Means
    <3>3. /\ t # d <=> BoundOtherwise(declared', fun, m, d)
          /\ declared'[d].kind # "builtin" => t \in 2 .. Len(declared')
      BY <2>1, <2>4, <3>2, Binding
    <3>4. t = d
      BY <3>1, <3>3 DEF BoundOtherwise
    <3>5. t # c /\ t \in 2 .. Len(declared') /\ c \in 1 .. Len(declared') /\ m \in {n}
      BY <2>3, <2>6, <2>8, <3>1, <3>3, <3>4
    <3>6. /\ t # c <=> m \in {n} \/ BoundOtherwise(declared', fun, m, c)
          /\ declared'[c].kind # "builtin" => t \in 2 .. Len(declared')
      BY <3>5
    <3>7. Program(declared', fun)
      BY <2>4 DEF Contexts
    <3>8. QED
      BY <2>2, <2>3, <3>5, <3>6, <3>7, UseVisited
  <2>9. QED
    BY <2>7, <2>8
<1>3. QED
  BY <1>1, <1>2

LEMMA LeaveLoopInv == IInv /\ LeaveLoop => IInv' /\ Properties'
<1> SUFFICES ASSUME IInv, LeaveLoop PROVE IInv' /\ Properties'
  OBVIOUS
<1>1. /\ UNCHANGED <<declared, fun, checked, translated>> /\ loops' = popped(loops) /\ loops # <<>>
      /\ Contexts(declared, fun, checked, translated) /\ Loops(loops, checked)
  BY DEF LeaveLoop, IInv
<1>2. /\ loops \in Seq(LoopType) /\ Len(loops) >= 1 /\ back(loops) = loops[Len(loops)]
      /\ \A k \in 1 .. Len(loops) : Loop(loops[k], checked)
  BY <1>1 DEF Loops, back
<1>3. PICK l \in LoopType : l = back(loops) /\ Loop(l, checked)
  BY <1>2
<1>4. PICK t, n, c : t = getVariable(translated, n) /\ n = l.name /\ c = l.checked
  OBVIOUS
<1>5. l.over /\ use' = Use(n, c, t, l.own) /\ status' = Translated(t)
  BY <1>3, <1>4 DEF LeaveLoop
<1>6. /\ Len(checked) \in Nat /\ Len(checked) >= 3 /\ l.contexts = Len(checked) /\ fun # None
      /\ Program(declared, fun)
  <2>1. Len(checked) \in Nat
    BY <1>1, Sizes DEF Contexts
  <2>2. QED
    BY <1>1, <1>3, <1>5, <2>1 DEF Loop, LoopType, Contexts, Stacks
<1>7. Loops(loops', checked')
  <2>1. /\ loops' \in Seq(LoopType) /\ Len(loops') = Len(loops) - 1
        /\ \A k \in 1 .. Len(loops') : loops'[k] = loops[k]
    BY <1>1, <1>2, Popped
  <2>2. \A k \in 1 .. Len(loops') : k \in 1 .. Len(loops)
    BY <1>2, <2>1
  <2>3. QED
    BY <1>1, <1>2, <2>1, <2>2 DEF Loops
<1>8. IInv'
  BY <1>1, <1>7 DEF IInv
<1>9. CASE n \notin l.own
  <2>1. Means(checked, Len(checked), n, c)
    BY <1>3, <1>4, <1>6, <1>9 DEF Loop
  <2>2. /\ c \in 1 .. Len(declared)
        /\ t # c <=> BoundOtherwise(declared, fun, n, c)
        /\ declared[c].kind # "builtin" => t \in 2 .. Len(declared)
    BY <1>1, <1>4, <1>6, <2>1, Binding
  <2>3. /\ Program(declared', fun) /\ c \in 1 .. Len(declared')
        /\ t # c <=> n \in l.own \/ BoundOtherwise(declared', fun, n, c)
        /\ declared'[c].kind # "builtin" => t \in 2 .. Len(declared')
    BY <1>1, <1>6, <1>9, <2>2
  <2>4. QED
    BY <1>5, <1>8, <2>3, UseVisited
(* The body declared the name, behind what the clause meant. *)
<1>10. CASE n \in l.own
  <2>1. PICK d : d = checked[Len(checked)][n] /\ n \in DOMAIN checked[Len(checked)] /\ c < d
    BY <1>3, <1>4, <1>10 DEF Loop
  <2>2. Means(checked, Len(checked), n, d)
    <3>1. Len(checked) \in 1 .. Len(checked) /\ \A i \in (Len(checked) + 1) .. Len(checked) : FALSE
      BY <1>6
    <3>2. QED
      BY <2>1, <3>1 DEF Means
  <2>3. /\ d \in 1 .. Len(declared)
        /\ t # d <=> BoundOtherwise(declared, fun, n, d)
        /\ declared[d].kind # "builtin" => t \in 2 .. Len(declared)
    BY <1>1, <1>4, <1>6, <2>2, Binding
  <2>4. declared[d].kind = "local"
    <3>1. PICK k \in Nat : k = Len(checked) /\ k >= 3
      BY <1>6
    <3>2. Declares(declared, d, n, {IF k = 2 THEN "parameter" ELSE "local"})
      <4>1. \A j \in 2 .. Len(checked) : \A m \in DOMAIN checked[j] :
              Declares(declared, checked[j][m], m, {IF j = 2 THEN "parameter" ELSE "local"})
        BY <1>1 DEF Contexts, CheckedContexts
      <4>2. k \in 2 .. Len(checked) /\ n \in DOMAIN checked[k] /\ checked[k][n] = d
        <5>1. k \in 2 .. k
          BY <3>1
        <5>2. QED
          BY <2>1, <3>1, <5>1
      <4>3. QED
        BY <4>1, <4>2
    <3>3. QED
      BY <3>1, <3>2 DEF Declares
  <2>5. t = d /\ t \in 2 .. Len(declared)
    BY <2>3, <2>4 DEF BoundOtherwise
  <2>6. c \in 1 .. Len(declared) /\ t # c
    <3>1. c \in Nat \ {0} /\ Len(declared) \in Nat
      BY <1>4, <1>6 DEF LoopType, Program
    <3>2. QED
      BY <2>1, <2>5, <3>1
  <2>7. /\ Program(declared', fun) /\ c \in 1 .. Len(declared')
        /\ t # c <=> n \in l.own \/ BoundOtherwise(declared', fun, n, c)
        /\ declared'[c].kind # "builtin" => t \in 2 .. Len(declared')
    BY <1>1, <1>6, <1>10, <2>5, <2>6
  <2>8. QED
    BY <1>5, <1>8, <2>7, UseVisited
<1>11. QED
  BY <1>9, <1>10

LEMMA StutterInv == IInv /\ Properties /\ UNCHANGED vars => IInv' /\ Properties'
<1> SUFFICES ASSUME IInv, Properties, UNCHANGED vars PROVE IInv' /\ Properties'
  OBVIOUS
<1>1. UNCHANGED <<declared, fun, checked, translated, loops, use, status>>
  BY DEF vars
<1>2. IInv'
  BY <1>1 DEF IInv
<1>3. Differs' <=> Differs
  BY <1>1 DEF Differs, EarlierParameter, FunctionOf
<1>4. Properties'
  BY <1>1, <1>3 DEF Properties, UsesBindAsChecked, AcceptedNamesAreFound
<1>5. QED
  BY <1>2, <1>4

LEMMA NextInv == IInv /\ Properties /\ [Next]_vars => IInv' /\ Properties'
<1> SUFFICES ASSUME IInv, Properties, [Next]_vars PROVE IInv' /\ Properties'
  OBVIOUS
<1>1. ASSUME NEW n \in Names, EnterFunction(n) \/ UseName(n) \/ Declare(n) \/ EnterLoop(n)
      PROVE  IInv' /\ Properties'
  BY <1>1, EnterFunctionInv, UseNameInv, DeclareInv, EnterLoopInv
<1>2. ASSUME NEW n \in Names, NEW op \in {"ALLOCA", "ARG"}, AddParameter(n, op)
      PROVE  IInv' /\ Properties'
  BY <1>2, AddParameterInv
<1>3. ASSUME NEW n \in Names, NEW m \in Names, DeclareWithValue(n, m) PROVE IInv' /\ Properties'
  BY <1>3, DeclareWithValueInv
<1>4. CASE EnterBlock \/ LeaveBlock \/ LeaveLoop
  BY <1>4, EnterBlockInv, LeaveBlockInv, LeaveLoopInv
<1>5. CASE Stopped \/ UNCHANGED vars
  BY <1>5, StutterInv DEF Stopped
<1>6. QED
  BY <1>1, <1>2, <1>3, <1>4, <1>5 DEF Next

LEMMA Invariant == Spec => [](IInv /\ Properties)
<1>1. Init => IInv /\ Properties
  BY InitInv
<1>2. (IInv /\ Properties) /\ [Next]_vars => (IInv /\ Properties)'
  BY NextInv
<1>3. QED
  BY <1>1, <1>2, PTL DEF Spec

-----------------------------------------------------------------------------
(* In every program, a name means the same declaration to the typechecker    *)
(* and to the translator, except in the four cases of Differs, in which it    *)
(* never does: getVariable of both, with addVariable, enterFunction and      *)
(* leaveBlock of both as they keep the contexts.                            *)
THEOREM BoundAsChecked == Spec => []UsesBindAsChecked
<1>1. IInv /\ Properties => UsesBindAsChecked
  BY DEF Properties
<1>2. QED
  BY <1>1, Invariant, PTL

(* What the typechecker accepted is found by the translator's getVariable, and *)
(* its assertion holds, for all but the built-in functions and structures that *)
(* are arguments: the translator aborts in no other program.                 *)
THEOREM AcceptedAreFound == Spec => []AcceptedNamesAreFound
<1>1. IInv /\ Properties => AcceptedNamesAreFound
  BY DEF Properties
<1>2. QED
  BY <1>1, Invariant, PTL
================================================================================
