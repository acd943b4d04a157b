----------------------------- MODULE MCBackEnd -----------------------------
(***************************************************************************)
(* Functions of one block of up to Longest instructions before the jump,    *)
(* with two registers, the variables x and y, the argument a, and the      *)
(* constants 0 and 1; and a few with a prologue and an epilogue.           *)
(***************************************************************************)
EXTENDS BackEnd

CONSTANT Longest

x == Mem(-1)
y == Mem(-2)
a == Mem(2)
Registers == {Reg(1), Reg(2)}
MOV(t, s) == INSN("MOV", t, s)
JUMP == INSN("JUMP", None, None)

Instructions ==
    {MOV(r, o) : r \in Registers, o \in {x, y, Imm(1)}}
      \cup {MOV(o, r) : r \in Registers, o \in {x, y}}
      \cup {MOV(Reg(1), a), MOV(a, Reg(1)), MOV(Reg(2), Imm(0)), MOV(Reg(2), Reg(1))}
      \cup {MOV(x, EAX), MOV(EAX, Reg(1)), MOV(EAX, EAX), NOP, INSN("CALL", None, None)}
      \cup {INSN("PUSH", None, r) : r \in Registers}
      \cup {INSN(op, Reg(1), Reg(2)) : op \in {"ADD", "MUL"}}
      \cup {INSN(op, Reg(2), Reg(1)) : op \in {"ADD", "CMP"}}

Moved(b, o) == \E k \in DOMAIN b : IsMove(b[k]) /\ b[k].target = o

\* The allocator may emit i behind b.  Registers are set in order and before they are
\* read.  After a return value was moved to EAX, only variables are written; else EAX
\* has the result of a call.
MayFollow(b, i) ==
    /\ \A k \in DOMAIN b : MayPrecede(b[k], i)
    /\ \A r \in Registers : r \in Uses(i) => Moved(b, r)
    /\ i.target = Reg(2) => Moved(b, Reg(1))
    /\ Moved(b, EAX) => i.op = "NOP" \/ IsMem(i.target)
    /\ i.source = EAX => ~Moved(b, EAX) /\ \E k \in DOMAIN b : b[k].op = "CALL"

BlocksUpTo[n \in 0..Longest] ==
    IF n = 0 THEN {<<>>}
    ELSE BlocksUpTo[n - 1] \cup
         {Append(b, i) : <<b, i>> \in {p \in BlocksUpTo[n - 1] \X Instructions : MayFollow(p[1], p[2])}}

\* A function: the prologue saves the registers, the epilogue restores them.
Prologue == <<INSN("PUSH", None, BP), MOV(BP, SP), INSN("ADD", SP, Imm(0)), INSN("PUSH", None, Reg(1))>>
Epilogue == <<INSN("POP", None, Reg(1)), INSN("ADD", SP, Imm(0)), INSN("POP", None, BP), JUMP>>

MCInputs ==
    {<<b \o <<JUMP>>>> : b \in BlocksUpTo[Longest]}
      \cup {<<Prologue \o b \o <<JUMP>>, Epilogue>> : b \in BlocksUpTo[2]}
=============================================================================
