----------------------------- MODULE Execution -----------------------------
(***************************************************************************)
(* A program is compiled, and then runs twice, step by step: as IL in the  *)
(* interpreter, which is how the compiler's tests know what is right       *)
(* (testIRProgram in main.cpp), and as T86 code on the machine.            *)
(*                                                                         *)
(* What the functions do is up to the program: they store to variables,    *)
(* work in registers, call and return.  Every value that is computed is    *)
(* different: it says who computed it and for which place, so that a value *)
(* in the wrong place shows.                                               *)
(***************************************************************************)
EXTENDS Frames

CONSTANTS heapStart,
          MaxSteps   \* bound: steps of a run

ASSUME BoundsAssumption == heapStart \in Nat /\ MaxSteps \in Nat

VARIABLES
  machine,   \* see Frames
  interp,    \* see Interpreter
  calls,     \* the calls that are running (history)
  steps,     \* the number of steps of the run so far (history)
  status     \* "compiling", "running", "done", "failed": the interpreter stopped

vars == <<framesVars, machine, interp, calls, steps, status>>

IL == INSTANCE Interpreter

Depth == Len(calls)
Top == calls[Depth]

\* History of a call: its frame; its variables with a value, with one since the
\* last call it made, with one before their ALLOCA ran again, and with one that a
\* store to another variable has overwritten in the interpreter; registers that a
\* callee's variables overwrote, and whether its last call returned a value.
Activation(g, m) ==
    [fun |-> g, BP |-> m.BP, SP |-> m.SP, stored |-> 1..numArgs[g], kept |-> 1..numArgs[g],
     written |-> 1..numArgs[g], lost |-> {}, spoiled |-> {}, answered |-> FALSE]

Value(place, n) == <<place, Depth, n>>

Init ==
    /\ FramesInit
    /\ machine = [ram |-> [a \in {} |-> Address(0)], SP |-> 0, BP |-> 0, EAX |-> IL!Undefined,
                  regs |-> [r \in 1..NumRegs |-> IL!Undefined]]
    /\ interp = IL!Start
    /\ calls = <<>>
    /\ steps = 0
    /\ status = "compiling"

-----------------------------------------------------------------------------
Compile ==
    /\ status = "compiling"
    /\ \/ EnterFunction
       \/ Allocate
       \/ \E g \in Fun : CompileCall(g)
       \/ LeaveFunction
    /\ UNCHANGED <<machine, interp, calls, steps, status>>

\* A call by `caller' with these arguments; the caller's side of the history is `before'.
Enter(g, args, before) ==
    LET m == Call(machine, g, args, Depth)
        i == IL!Enter(interp, args, sizes[g])
    IN /\ machine' = m
       /\ interp' = i
       /\ calls' = Append(before, Activation(g, m))
       /\ status' = IF i.failed THEN "failed" ELSE "running"
       /\ UNCHANGED framesVars

StartProgram ==
    /\ status = "compiling" /\ compiled /\ ~aborted
    /\ Enter(main, <<>>, <<>>)

Running == status = "running"

\* In a loop the ALLOCA of a variable runs again; compiled, it is no instruction.
AllocateVariable(k) ==
    /\ Running
    /\ k > numArgs[Top.fun]
    /\ interp' = IL!Alloca(interp, k, sizes[Top.fun][k])
    /\ calls' = [calls EXCEPT ![Depth].stored = @ \ {k}, ![Depth].kept = @ \ {k},
                             ![Depth].lost = @ \ {k}]
    /\ status' = IF interp'.failed THEN "failed" ELSE "running"
    /\ UNCHANGED <<framesVars, machine>>

Overwrites(k) == {l \in Top.stored \ {k} : IL!Overlap(interp, k, l)}

StoreVariable(k) ==
    /\ Running
    /\ IL!IsSet(interp, IL!ALLOCA(k))
    /\ machine' = ST(machine, Top.fun, k, Value("variable", k))
    /\ interp' = IL!Store(interp, k, Value("variable", k))
    /\ calls' = [calls EXCEPT ![Depth].stored = @ \cup {k}, ![Depth].kept = @ \cup {k},
                             ![Depth].written = @ \cup {k},
                             ![Depth].lost = (@ \ {k}) \cup Overwrites(k)]
    /\ UNCHANGED <<framesVars, status>>

\* The function computes something in a register.
Compute(r) ==
    /\ Running
    /\ r <= used[Top.fun]
    /\ machine' = [machine EXCEPT !.regs[r] = Value("register", r)]
    /\ interp' = IL!set(interp, IL!REG(r), Value("register", r))
    /\ calls' = [calls EXCEPT ![Depth].spoiled = @ \ {r}]
    /\ UNCHANGED <<framesVars, status>>

CallFunction(g) ==
    /\ Running
    /\ g \in callees[Top.fun]
    /\ Enter(g, [i \in 1..numArgs[g] |-> Value("argument", i)],
             [calls EXCEPT ![Depth].kept = {}, ![Depth].answered = FALSE])

\* The registers that the running function finds below its variables, where it has
\* put one of these; and those that its callees left wrong and it does not restore.
Overwritten(a) == {r \in 1..used[a.fun] : \E k \in a.written : Slot(a.fun, k) = SaveSlot(a.fun, r)}
Spoils(a) == Overwritten(a) \cup (a.spoiled \ 1..used[a.fun])

Leaves(m, i, answers) ==
    /\ machine' = Leave(m, Top.fun)
    /\ interp' = IL!Leave(i)
    /\ LET rest == SubSeq(calls, 1, Depth - 1) IN
       calls' = IF rest = <<>> THEN rest
                ELSE [rest EXCEPT ![Depth - 1].spoiled = @ \cup Spoils(Top),
                                  ![Depth - 1].answered = answers]
    /\ status' = IF interp'.failed THEN "failed" ELSE IF Depth = 1 THEN "done" ELSE "running"
    /\ UNCHANGED framesVars

\* RETR leaves the value in EAX.
ReturnValue ==
    /\ Running
    /\ Leaves([machine EXCEPT !.EAX = Value("result", Top.fun)], IL!Note(interp, Value("result", Top.fun)), TRUE)

\* RET.
ReturnNothing ==
    /\ Running
    /\ Leaves(machine, interp, FALSE)

Run ==
    \/ StartProgram
    \/ Running /\ \E k \in DOMAIN offsets[Top.fun] : AllocateVariable(k) \/ StoreVariable(k)
    \/ \E r \in 1..NumRegs : Compute(r)
    \/ \E g \in Fun : CallFunction(g)
    \/ ReturnValue
    \/ ReturnNothing

Next ==
    \/ Compile
    \/ steps < MaxSteps /\ Run /\ steps' = steps + 1

Spec == Init /\ [][Next]_vars
-----------------------------------------------------------------------------
(* Properties.                                                             *)

\* The interpreter can read every variable with a value, and reads what is in its
\* word of the frame, although other calls, of the same function too, have come and
\* gone: LD and ST move eight bytes, but those of two calls never overlap, whatever
\* their variables are allocated.  Within a call they do, and a variable that the last
\* store to one of its neighbours has overwritten is different.  A variable whose word
\* is outside of what its function reserves and saves is only as long the same as the
\* function makes no call.
VariablesAgree ==
    Running => \A k \in Top.stored :
        /\ IL!CanLoad(interp, k)
        /\ Slot(Top.fun, k) <= FrameSize(Top.fun) \/ k \in Top.kept
             => (IL!Bytes(machine.ram[Top.BP - Slot(Top.fun, k)]) = IL!Load(interp, k)
                   <=> k \notin Top.lost)

\* What a function computed in a register is still there, whatever it called since;
\* unless a callee, or a callee of one that does not use the register, had a variable
\* where it saved the register: then the value is lost.  The result of the last call
\* is in EAX.
RegistersAgree ==
    Running =>
        /\ \A r \in 1..used[Top.fun] : IL!IsSet(interp, IL!REG(r)) =>
             (machine.regs[r] = IL!get(interp, IL!REG(r)) <=> r \notin Top.spoiled)
        /\ Top.answered => machine.EAX = IL!get(interp, IL!CALL)

\* Every running call can return to the one before: where its base pointer is are
\* the caller's base pointer and the address to return to, and pointers are what
\* they were when the call began.
CallersResume ==
    Running =>
        /\ machine.BP = Top.BP /\ machine.SP = Top.SP
        /\ \A d \in 1..Depth :
             /\ machine.ram[calls[d].BP] = Address(IF d = 1 THEN 0 ELSE calls[d - 1].BP)
             /\ machine.ram[calls[d].BP + 1] = Return(d - 1)

=============================================================================
