----------------------------- MODULE MCRegAlloc -----------------------------
(***************************************************************************)
(* Blocks of up to three statements of a program with the variables x and y *)
(* and the constant 1, in the T86 code that visit() in il_to_t86.h emits.   *)
(***************************************************************************)
EXTENDS RegAlloc

MOV(t, s) == INSN("MOV", t, s)
OP(t, s)  == INSN("ARITH", t, s)
Vars  == {Mem(1), Mem(2)}
Leafs == Vars \cup {Imm(1)}

(* The statements, with virtual registers from n on: x = l; x = l + m;      *)
(* x = l + (m + 1); x = f(l); x = y = l; a test l < m.                      *)
Statements(n) ==
  LET v == Virtual(n)
      w == Virtual(n + 1)
      u == Virtual(n + 2)
  IN {<<MOV(v, l), MOV(x, v)>> : x \in Vars, l \in Leafs}
     \cup {<<MOV(v, l), MOV(w, m), OP(v, w), MOV(x, v)>> : x \in Vars, l, m \in Leafs}
     \cup {<<MOV(v, l), MOV(w, m), MOV(u, Imm(1)), OP(w, u), OP(v, w), MOV(x, v)>> : x \in Vars, l, m \in Leafs}
     \cup {<<MOV(v, l), INSN("PUSH", None, v), INSN("CALL", None, None), OP(SP, Imm(1)), MOV(x, EAX)>>
             : x \in Vars, l \in Leafs}
     \cup {<<MOV(v, l), MOV(Mem(1), v), MOV(Mem(2), v)>> : l \in Leafs}
     \cup {<<MOV(v, l), MOV(w, m), INSN("CMP", v, w)>> : l, m \in Leafs}

(* y = x; and the like, also from a third variable *)
Copies(n) == {<<MOV(Virtual(n), l), MOV(x, Virtual(n))>> : x \in Vars, l \in Leafs \cup {Mem(3)}}

(* return l;  and the first lines of a function *)
Endings(n) == {<<>>} \cup {<<MOV(Virtual(n), l), MOV(EAX, Virtual(n))>> : l \in Vars}
Prologue == <<INSN("PUSH", None, BP), MOV(BP, SP), OP(SP, Imm(1))>>

JUMP == <<INSN("JUMP", None, None)>>

MCInputs ==
  {s \o e \o JUMP : s \in Statements(1), e \in Endings(10)}
    \cup {s \o t \o e \o JUMP : s \in Statements(1), t \in Statements(4), e \in Endings(10)}
    \cup {s \o t \o u \o JUMP : s \in Copies(1), t \in Copies(4), u \in Copies(7) \cup Statements(7)}
    \cup {Prologue \o s \o JUMP : s \in Statements(1)}
=============================================================================
