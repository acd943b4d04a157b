---------------------------- MODULE MCT86CodeGen ----------------------------
(***************************************************************************)
(* Every well-formed program of two functions, the first with N blocks and *)
(* the second with one.  Blocks that only jump are gone by now.  The blocks *)
(* are numbered as they are first named, which leaves out renamings.       *)
(***************************************************************************)
EXTENDS T86CodeGen

CONSTANT N

Shapes ==
  {<<INS("EXPR", 0), JMP(b)>> : b \in 1..N}
    \cup {<<INS("COND", 0), BR(0, p[1], p[2])>> : p \in {q \in (1..N) \X (1..N) : q[1] # q[2]}}
    \cup {<<INS("ALLOCA", 0), CALL(0, 1), CALL(0, 2), RET>>, <<RETR(0)>>}

NumberedAsNamed(c) ==
  \A b \in 2..(N - 1) : \A a \in 1..N : b + 1 \in Successors(c[a]) =>
    \E d \in 1..a : b \in Successors(c[d])

MCInputs ==
  {[code |-> Append(c, <<CALL(0, 2), RET>>), bbs |-> <<[i \in 1..N |-> i], <<N + 1>>>>]
     : c \in {d \in [1..N -> Shapes] : NumberedAsNamed(d)}}
=============================================================================
