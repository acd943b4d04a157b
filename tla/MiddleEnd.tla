------------------------------ MODULE MiddleEnd ------------------------------
(***************************************************************************)
(* MiddleEndOptimizer::removeRedundantJMPBBs (optimizer/optimizer.h): the   *)
(* blocks that only jump are taken out, and whatever jumped to them jumps   *)
(* to where they went.                                                     *)
(*                                                                         *)
(* The pass first collects these blocks with their targets, then redirects  *)
(* the terminators of all blocks, round after round until a round changes   *)
(* nothing, then erases them.  A round touches each terminator once and     *)
(* reads only the collected map, so it is one action.                      *)
(***************************************************************************)
EXTENDS IL

CONSTANT Inputs   \* the programs given to the pass: sequences of blocks

(* What ASTToIL guarantees of a finished program. *)
ASSUME InputsAssumption == \A p \in Inputs : p \in Seq(Seq(Insn)) /\ WellFormed(p)

VARIABLES
  input,            \* the program before the pass (only its properties use it)
  code,             \* the blocks; a pointer to an erased block dangles
  blocks,           \* bbs_ of all functions: the blocks not erased
  redundantBlocks,  \* the jump-only blocks, with the targets they had at first
  changed,
  pass              \* "identify", "redirect", "done"

vars == <<input, code, blocks, redundantBlocks, changed, pass>>

Init ==
  /\ input \in Inputs
  /\ code = input
  /\ blocks = 1..Len(input)
  /\ redundantBlocks = [b \in {} |-> Null]
  /\ changed = FALSE
  /\ pass = "identify"

(* Step 1 *)
Identify ==
  /\ pass = "identify"
  /\ redundantBlocks' = [b \in {c \in blocks : IsJumpOnly(code[c])} |-> code[b][1].target1]
  /\ changed' = TRUE
  /\ pass' = "redirect"
  /\ UNCHANGED <<input, code, blocks>>

redirect(b) == IF b \in DOMAIN redundantBlocks THEN redundantBlocks[b] ELSE b

(* Slip: the second target is the first one. *)
redirectBoth(i) ==
  CASE i.op = "JMP" -> [i EXCEPT !.target1 = redirect(i.target1)]
    [] i.op = "BR"  -> [i EXCEPT !.target1 = redirect(i.target1), !.target2 = redirect(i.target1)]
    [] OTHER        -> i

redirectInsn(i) ==
  CASE i.op = "JMP" -> [i EXCEPT !.target1 = redirect(i.target1)]
    [] i.op = "BR"  -> [i EXCEPT !.target1 = redirect(i.target1), !.target2 = redirect(i.target2)]
    [] OTHER        -> i

(* Slips: jumps do not count, or any target does. *)
BRPointsToRedundant(i) == i.op = "BR" /\ Targets(i) \cap DOMAIN redundantBlocks # {}
PointsAnywhere(i) == Targets(i) # {}

PointsToRedundant(i) == Targets(i) \cap DOMAIN redundantBlocks # {}

(* Step 2: one round of the while loop *)
Redirect ==
  /\ pass = "redirect"
  /\ changed
  /\ code' = [b \in 1..Len(code) |->
                IF b \in blocks THEN [i \in 1..Len(code[b]) |-> redirectInsn(code[b][i])]
                ELSE code[b]]
  /\ changed' = \E b \in blocks : \E i \in 1..Len(code[b]) : PointsToRedundant(code[b][i])
  /\ UNCHANGED <<input, blocks, redundantBlocks, pass>>

(* Step 3 *)
Erase ==
  /\ pass = "redirect"
  /\ ~changed
  /\ blocks' = blocks \ DOMAIN redundantBlocks
  /\ pass' = "done"
  /\ UNCHANGED <<input, code, redundantBlocks, changed>>

Stopped == pass = "done" /\ UNCHANGED vars

Step == Identify \/ Redirect \/ Erase
Next == Step \/ Stopped

(* The pass is one function call: it keeps going until it returns. *)
Spec == Init /\ [][Next]_vars /\ WF_vars(Step)
-----------------------------------------------------------------------------
Block == 1..Len(input)

TypeOK ==
  /\ input \in Inputs
  /\ code \in Seq(Seq(Insn))
  /\ Len(code) = Len(input)
  /\ blocks \in SUBSET Block
  /\ DOMAIN redundantBlocks \in SUBSET Block
  /\ redundantBlocks \in [DOMAIN redundantBlocks -> Block]
  /\ changed \in BOOLEAN
  /\ pass \in {"identify", "redirect", "done"}

(* f sends each block to where execution goes from it: a jump-only block    *)
(* goes where its target goes, and any other block runs itself.            *)
Resolves(f) ==
  \A b \in Block : f[b] = IF IsJumpOnly(input[b]) THEN f[input[b][1].target1] ELSE b

(* At every moment of the pass each terminator leads, through the jump-only  *)
(* blocks of the input, to where it led before the pass.                   *)
SameDestination(f, i, j) ==
  /\ i.op = j.op
  /\ i.op \in {"JMP", "BR"} => f[i.target1] = f[j.target1]
  /\ i.op = "BR" => f[i.target2] = f[j.target2]

DestinationsKept ==
  \A f \in [Block -> Block] : Resolves(f) =>
    \A b \in Block :
      /\ Len(code[b]) = Len(input[b])
      /\ \A i \in 1..Len(code[b]) : SameDestination(f, code[b][i], input[b][i])

(* Once the jump-only blocks are erased no remaining block points to one:   *)
(* the pass frees them, and later passes follow the pointers.              *)
NoDanglingTarget ==
  pass = "done" => \A b \in blocks : Successors(code[b]) \subseteq blocks

(* The pass returns, unless the program has a cycle of nothing but jumps.   *)
ReturnsUnlessJumpCycle == []~JumpCycle(input) => <>(pass = "done")

(* Seen from outside, the pass is the single step of JumpThreading, taken   *)
(* when it erases the blocks: chains of jumps of any length are followed to *)
(* their end, and the pass never returns if there is a cycle of them.       *)
Abstract == INSTANCE JumpThreading WITH
  program  <- IF pass = "done" THEN [b \in blocks |-> code[b]] ELSE input,
  threaded <- pass = "done"

ThreadsJumps == Abstract!Spec
=============================================================================
