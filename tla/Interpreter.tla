---------------------------- MODULE Interpreter ----------------------------
(***************************************************************************)
(* The memory and the registers of ILInterpreter (optimizer/                *)
(* il_interpreter.h), as operators on its state                            *)
(*     [stack, locals, retVal, failed].                                    *)
(* `stack' is Memory::stack, byte by byte: the j-th byte of a value v is   *)
(* <<v, j>>.  `locals' has the registers of each call that is running, as  *)
(* runFunction keeps them; the key of a register is the instruction that   *)
(* sets it.  `failed' says whether an assertion failed or a null pointer   *)
(* was dereferenced.                                                       *)
(***************************************************************************)
EXTENDS Naturals, Sequences

CONSTANT heapStart   \* stack.size() stays below

ALLOCA(k) == <<"ALLOCA", k>>   \* of variable k
REG(r)    == <<"REG", r>>      \* what the code generator keeps in register r
CALL      == <<"CALL", 0>>     \* the last call

Undefined == <<"undefined", 0, 0>>

Start == [stack |-> <<>>, locals |-> <<>>, retVal |-> Undefined, failed |-> FALSE]

Locals(i) == i.locals[Len(i.locals)]

set(i, ins, v) ==
    [i EXCEPT !.locals[Len(i.locals)] =
        [x \in DOMAIN @ \cup {ins} |-> IF x = ins THEN v ELSE @[x]]]
get(i, ins) == Locals(i)[ins]
IsSet(i, ins) == ins \in DOMAIN Locals(i)

-----------------------------------------------------------------------------
(* Memory.  ST writes and LD reads eight bytes, whatever was allocated.    *)

memSize == 8
Bytes(v) == [j \in 1..memSize |-> <<v, j>>]
Zero == <<Undefined, 0>>

\* The address of variable k: the number of bytes before it.
address(i, k) == get(i, ALLOCA(k))[2]

\* stack.resize(n), which never makes it shorter here
resize(s, n) == [x \in 1..n |-> IF x <= Len(s) THEN s[x] ELSE Zero]

\* Memory::alloc with its two assertions; the register gets the address.
Alloca(i, k, numBytes) ==
    LET size == Len(i.stack) + numBytes
    IN [set(i, ALLOCA(k), <<"address", Len(i.stack), 0>>) EXCEPT
           !.stack = resize(@, size),
           !.failed = @ \/ numBytes = 0 \/ size >= heapStart]

(* Slip: the stack does not grow. *)
StoreInPlace(i, k, v) ==
    [i EXCEPT !.stack = [x \in DOMAIN @ |-> IF x - address(i, k) \in 1..memSize
                                            THEN <<v, x - address(i, k)>> ELSE @[x]]]

\* Memory::write, at the address of variable k
Store(i, k, v) ==
    LET a == address(i, k)
        end == IF a + memSize > Len(i.stack) THEN a + memSize ELSE Len(i.stack)
        grown == resize(i.stack, end)
    IN [i EXCEPT !.stack = [x \in 1..end |-> IF x \in (a + 1)..(a + memSize) THEN <<v, x - a>> ELSE grown[x]]]

\* Memory::readInt and readFloat, and their assertion "Say segfault!"
CanLoad(i, k) == address(i, k) + memSize <= Len(i.stack)
Load(i, k) == [j \in 1..memSize |-> i.stack[address(i, k) + j]]

\* A write to one of the two variables writes to the other, too.
Overlap(i, k, l) ==
    /\ address(i, k) < address(i, l) + memSize
    /\ address(i, l) < address(i, k) + memSize

-----------------------------------------------------------------------------
(* Calls.                                                                  *)

\* runFunction: registers of its own.  The entry block allocates its size for each
\* argument and stores the argument there, before the next.
Enter(i, args, sizes) ==
    LET entered[k \in 0..Len(args)] ==
            IF k = 0 THEN [i EXCEPT !.locals = Append(@, [x \in {} |-> Undefined])]
            ELSE Store(Alloca(entered[k - 1], k, sizes[k]), k, args[k])
    IN entered[Len(args)]

\* RETR notes the value; RET leaves what an earlier RETR noted.
Note(i, v) == [i EXCEPT !.retVal = v]

\* CALL sets its own register to what was noted.  run() dereferences the instruction
\* that noted it: there is none if no call has noted anything.
Leave(i) ==
    LET back == [i EXCEPT !.locals = SubSeq(@, 1, Len(@) - 1)]
    IN IF back.locals = <<>> THEN [back EXCEPT !.failed = @ \/ back.retVal = Undefined]
       ELSE set(back, CALL, back.retVal)
=============================================================================
