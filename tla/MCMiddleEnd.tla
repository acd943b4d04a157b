----------------------------- MODULE MCMiddleEnd -----------------------------
(***************************************************************************)
(* Every well-formed program of N blocks, as far as the pass can tell      *)
(* blocks apart: a bare jump, a jump or a branch after some instruction,   *)
(* and a return.  The two targets of a branch are treated alike, so those  *)
(* of one order are enough.                                                *)
(***************************************************************************)
EXTENDS MiddleEnd

CONSTANT N

Shapes ==
  {<<JMP(b)>> : b \in 1..N}
    \cup {<<INS("EXPR", 0), JMP(b)>> : b \in 1..N}
    \cup {<<INS("COND", 0), BR(0, p[1], p[2])>> : p \in {q \in (1..N) \X (1..N) : q[1] < q[2]}}
    \cup {<<RET>>}

MCInputs == [1..N -> Shapes]
=============================================================================
