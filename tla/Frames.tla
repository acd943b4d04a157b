------------------------------- MODULE Frames -------------------------------
(***************************************************************************)
(* Where a compiled function keeps its variables, registers and arguments: *)
(* the words that StackAllocator (backend/stack.h) numbers and prologues   *)
(* reserve (backend/il_to_t86.h), the registers that addRegBackup          *)
(* (backend/register_alloc.h) saves, and what calls and returns do with a  *)
(* T86 machine.                                                            *)
(*                                                                         *)
(* The stack grows to lower addresses; one address is one word.            *)
(***************************************************************************)
EXTENDS Integers, Sequences

CONSTANTS
  Fun,           \* the functions of the program
  main,          \* the one that the program starts
  numArgs,       \* the number of parameters of each
  calledBy,      \* the functions that each calls
  declares,      \* what each may declare: sequences of sizes, in bytes, of which
                 \* the first are those of the parameters
  needs,         \* how many registers each may need
  NumRegs        \* general registers: 1 .. NumRegs

None == "none"
T86_WORD_SZ == 8

ASSUME FramesAssumption ==
    /\ None \notin Fun
    /\ main \in Fun
    /\ numArgs \in [Fun -> Nat] /\ numArgs[main] = 0
    /\ calledBy \in [Fun -> SUBSET Fun]
    /\ \A g \in Fun : declares[g] \subseteq
         {d \in Seq(Nat) : Len(d) >= numArgs[g] /\ \A k \in 1..Len(d) : d[k] <= T86_WORD_SZ}
    /\ needs \in [Fun -> SUBSET (0..NumRegs)]
    /\ NumRegs \in Nat

VARIABLES
  funWorklist, funVisited,  \* of the code generator
  f,          \* the function being compiled, or None
  offset,     \* StackAllocator::offset_
  offsets,    \* StackAllocator::offsets_: of the variables of each function, in order
  sizes,      \* the variables that each function declares: parameters, then others
  callees,    \* the functions whose calls were compiled, for each
  used,       \* the number of registers that the code of each names
  aborted     \* whether an assertion failed

framesVars == <<funWorklist, funVisited, f, offset, offsets, sizes, callees, used, aborted>>

-----------------------------------------------------------------------------
(* Compiling.                                                              *)

(* Slip: the first variable goes where the base pointer was saved. *)
NoOffset == 0

SKIP_BP_OFFSET == 1

FramesInit ==
    /\ funWorklist = <<main>>
    /\ funVisited = {main}
    /\ f = None
    /\ offset = SKIP_BP_OFFSET
    /\ offsets = [g \in Fun |-> <<>>]
    /\ sizes = [g \in Fun |-> <<>>]
    /\ callees = [g \in Fun |-> {}]
    /\ used = [g \in Fun |-> 0]
    /\ aborted = FALSE

\* updateLocalsSize adds the sizes up when variables are declared.
Total(s) ==
    LET total[k \in 0..Len(s)] == IF k = 0 THEN 0 ELSE total[k - 1] + s[k]
    IN total[Len(s)]
totalLocalsSize(g) == Total(sizes[g])
getStackSize(g) == totalLocalsSize(g) \div T86_WORD_SZ

\* What the function declares and how many registers it needs is up to the program;
\* the allocator gives out the lowest.  The prologue asks for the size of all variables.
EnterFunction ==
    /\ f = None /\ funWorklist # <<>> /\ ~aborted
    /\ \E g \in {Head(funWorklist)} : \E declared \in declares[g], registers \in needs[g] :
       /\ f' = g
       /\ sizes' = [sizes EXCEPT ![g] = declared]
       /\ used' = [used EXCEPT ![g] = registers]
       /\ aborted' = (Total(declared) % T86_WORD_SZ # 0)
    /\ funWorklist' = Tail(funWorklist)
    /\ UNCHANGED <<funVisited, offset, offsets, callees>>

\* ALLOCA takes the next word; normalize() gives every variable one.
Allocate ==
    /\ f # None /\ ~aborted
    /\ Len(offsets[f]) < Len(sizes[f])
    /\ offsets' = [offsets EXCEPT ![f] = Append(@, offset)]
    /\ offset' = offset + 1
    /\ UNCHANGED <<funWorklist, funVisited, f, sizes, callees, used, aborted>>

addFunToWorklist(g) ==
    /\ funVisited' = funVisited \cup {g}
    /\ funWorklist' = IF g \in funVisited THEN funWorklist ELSE Append(funWorklist, g)

\* Parameters are allocated in the entry block, before any call.
CompileCall(g) ==
    /\ f # None /\ ~aborted
    /\ Len(offsets[f]) >= numArgs[f]
    /\ g \in calledBy[f] \ callees[f]
    /\ addFunToWorklist(g)
    /\ callees' = [callees EXCEPT ![f] = @ \cup {g}]
    /\ UNCHANGED <<f, offset, offsets, sizes, used, aborted>>

\* Variables of blocks that are never reached get no word.
LeaveFunction ==
    /\ f # None /\ ~aborted
    /\ Len(offsets[f]) >= numArgs[f]
    /\ f' = None
    /\ UNCHANGED <<funWorklist, funVisited, offset, offsets, sizes, callees, used, aborted>>

compiled == f = None /\ funWorklist = <<>>

-----------------------------------------------------------------------------
(* The machine: [ram, SP, BP, EAX, regs].  What a word holds is a tuple that *)
(* says what was put there.                                                *)

Address(a) == <<"address", a, 0>>
Return(a)  == <<"return", a, 0>>      \* to the code after a call of the a-th activation

\* the machine after these words were written, a function of their addresses
Written(m, words) ==
    [m EXCEPT !.ram = [x \in DOMAIN @ \cup DOMAIN words |-> IF x \in DOMAIN words THEN words[x] ELSE @[x]]]

\* PUSH of the words of s, one after the other
PUSH(m, s) ==
    [Written(m, [x \in (m.SP - Len(s))..(m.SP - 1) |-> s[m.SP - x]]) EXCEPT !.SP = @ - Len(s)]
POP(m) == [m EXCEPT !.SP = @ + 1]
top(m) == m.ram[m.SP]

\* The registers are saved below the variables, the lowest first.
SavedRegs(m, g) == [r \in 1..used[g] |-> m.regs[r]]
SaveSlot(g, r) == getStackSize(g) + r
FrameSize(g) == getStackSize(g) + used[g]

\* Variable k of the running function g.
Slot(g, k) == offsets[g][k]
ST(m, g, k, c) == Written(m, [x \in {m.BP - Slot(g, k)} |-> c])

\* generateCdeclPrologue, after which the registers are pushed.
Prologue(m, g) ==
    LET linked == [PUSH(m, <<Address(m.BP)>>) EXCEPT !.BP = m.SP - 1]
    IN PUSH([linked EXCEPT !.SP = @ - getStackSize(g)], SavedRegs(m, g))

\* The entry block goes on to copy the arguments to the variables of the parameters,
\* one after the other.  It is one write, because no argument is where a variable is:
\* arguments are above the base pointer, variables below.  Two parameters never share
\* a variable, since Allocate gives each its own word.
Argument(m, i) == m.ram[m.BP + 2 + (i - 1)]
CopyArguments(m, g) ==
    LET place(i) == m.BP - Slot(g, i)
        Parameters == 1..numArgs[g]
    IN Written(m, [x \in {place(i) : i \in Parameters} |-> Argument(m, CHOOSE i \in Parameters : place(i) = x)])

\* CALL pushes the arguments in reverse order and the address to return to.
Reversed(s) == [j \in 1..Len(s) |-> s[Len(s) + 1 - j]]
Call(m, g, args, d) == CopyArguments(Prologue(PUSH(PUSH(m, Reversed(args)), <<Return(d)>>), g), g)

(* Slip: the registers come back in the order in which they were pushed. *)
PopInOrder(m, g) ==
    [m EXCEPT !.SP = @ + used[g],
              !.regs = [r \in DOMAIN @ |-> IF r \in 1..used[g] THEN m.ram[m.SP + r - 1] ELSE @[r]]]

\* The highest register is on top.
PopRegs(m, g) ==
    [m EXCEPT !.SP = @ + used[g],
              !.regs = [r \in DOMAIN @ |-> IF r \in 1..used[g] THEN m.ram[m.SP + used[g] - r] ELSE @[r]]]

\* The epilogue: registers, variables, base pointer, RET.
Epilogue(m, g) ==
    LET popped   == PopRegs(m, g)
        released == [popped EXCEPT !.SP = @ + getStackSize(g)]
        unlinked == [POP(released) EXCEPT !.BP = top(released)[2]]
    IN POP(unlinked)

\* The caller drops the arguments.
Leave(m, g) == [Epilogue(m, g) EXCEPT !.SP = @ + numArgs[g]]
=============================================================================
