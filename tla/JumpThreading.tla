---------------------------- MODULE JumpThreading ----------------------------
(***************************************************************************)
(* What removing jump-only blocks means, without rounds: in one step, each *)
(* block that does something stays, each block that only jumps is gone, and *)
(* every terminator names the block that execution used to end up in.      *)
(***************************************************************************)
EXTENDS IL

VARIABLES
  program,  \* the blocks of the program: a function from block ids
  threaded  \* has the step been taken?

Kept == {b \in DOMAIN program : ~IsJumpOnly(program[b])}

(* f leads from each block to the kept block that execution gets to. *)
LeadsTo(f) ==
  \A b \in DOMAIN program : f[b] = IF b \in Kept THEN b ELSE f[program[b][1].target1]

Retarget(f, i) ==
  CASE i.op = "JMP" -> [i EXCEPT !.target1 = f[i.target1]]
    [] i.op = "BR"  -> [i EXCEPT !.target1 = f[i.target1], !.target2 = f[i.target2]]
    [] OTHER        -> i

Init == threaded = FALSE

Thread ==
  /\ ~threaded
  /\ ~JumpCycle(program)
  /\ threaded' = TRUE
  /\ \E f \in [DOMAIN program -> Kept] :
       /\ LeadsTo(f)
       /\ program' = [b \in Kept |-> [i \in 1..Len(program[b]) |-> Retarget(f, program[b][i])]]

vars == <<program, threaded>>
Spec == Init /\ [][Thread]_vars
=============================================================================
