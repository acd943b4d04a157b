----------------------------- MODULE ControlFlow -----------------------------
(***************************************************************************)
(* Two readings of the control flow of a tinycc program, in one form.      *)
(*                                                                         *)
(* A point is what the program can be seen to do: <<n, op>> is the part op  *)
(* of AST node n (its expression, condition, loop initialisation or         *)
(* increment), <<n, "RETR">> the return of node n, End the implicit return  *)
(* at the end of a function.  The flow is the set of <<point, label, next>> *)
(* such that next is done right after point; label is "T" or "F" after a    *)
(* condition, "" otherwise.                                                *)
(*                                                                         *)
(* Between two points are places where nothing can be seen: the start and   *)
(* the end of a statement in the source, an instruction such as JMP in the  *)
(* code.  Each place has one next place.                                   *)
(***************************************************************************)
EXTENDS IL, FiniteSetsExt

End == <<0, "RET">>
(* a cycle of jumps that does nothing visible, and an unfinished block *)
Spin == <<0, "SPIN">>
Stuck == <<0, "STUCK">>

(* The place n steps after q, or the one before it that has no step. *)
Go(step, p) == IF p \in DOMAIN step THEN step[p] ELSE p
Steps(step, q, n) ==
  LET path[k \in 0..n] == IF k = 0 THEN q ELSE Go(step, path[k - 1])
  IN path[n]

(* Where the steps from q end; a place that has a step if they never do. *)
Walk(step, q) == Steps(step, q, Cardinality(DOMAIN step))
-----------------------------------------------------------------------------
(***************************************************************************)
(* The source program: the meaning the C statements of LANGUAGE.md have.   *)
(***************************************************************************)
LoopKinds == {"while", "do", "for"}

Children(ast, n, role) == {m \in 1..Len(ast) : ast[m].parent = n /\ ast[m].role = role}

(* Node n is m or inside it.  Nodes are numbered in the order of the visits, *)
(* so those in m are the ones up to the first with a parent before m.      *)
Inside(ast, n, m) == m <= n /\ \A k \in (m + 1)..n : ast[k].parent >= m

(* the innermost loop around node n; 0: none *)
EnclosingLoop(ast, n) ==
  Max({0} \cup {m \in 1..(n - 1) : ast[m].kind \in LoopKinds /\ Inside(ast, n, m)})

(* the innermost block statement around node n, which has one *)
EnclosingBlock(ast, n) == Max({m \in 1..(n - 1) : ast[m].kind = "block" /\ Inside(ast, n, m)})

(* the places before the first point of statement n, and after its last one *)
Before(n) == <<n, "before">>
Behind(n) == <<n, "behind">>

Continuation(ast, n) == IF ast[n].kind = "for" THEN <<n, "INC">> ELSE <<n, "COND">>

(* What comes right after the start of statement n, and after its end. *)
StepIn(ast, n) ==
  LET kind == ast[n].kind
      kids == Children(ast, n, "block")
      loop == EnclosingLoop(ast, n)
  IN CASE kind \in {"expr", "declinit", "return"} -> <<n, "EXPR">>
       [] kind = "call" -> <<n, "CALL">>
       [] kind = "decl" -> Behind(n)
       [] kind = "block" -> IF kids = {} THEN Behind(n) ELSE Before(Min(kids))
       [] kind \in {"if", "while"} -> <<n, "COND">>
       [] kind = "do" -> Before(Min(Children(ast, n, "do")))
       [] kind = "for" -> <<n, "INIT">>
       [] kind = "break" -> Behind(loop)
       [] kind = "continue" -> Continuation(ast, loop)

StepOn(ast, n) ==
  LET p     == ast[n].parent
      later == {m \in Children(ast, p, "block") : m > n}
  IN CASE ast[n].role = "fun" -> End
       [] ast[n].role = "block" -> IF later = {} THEN Behind(p) ELSE Before(Min(later))
       [] ast[n].role \in {"then", "else"} -> Behind(p)
       [] ast[n].role \in LoopKinds -> Continuation(ast, p)

SourceStep(ast) ==
  [q \in {n \in 1..Len(ast) : ast[n].kind # "fun"} \X {"before", "behind"} |->
     IF q[2] = "before" THEN StepIn(ast, q[1]) ELSE StepOn(ast, q[1])]

(* First(ast, n): the first point of statement n; After(ast, n): the point   *)
(* that comes after statement n is complete.                               *)
First(ast, n) == Walk(SourceStep(ast), Before(n))
After(ast, n) == Walk(SourceStep(ast), Behind(n))

Body(ast, n) == First(ast, Min(Children(ast, n, ast[n].kind)))

FlowFrom(ast, n) ==
  LET kind == ast[n].kind
      cond == <<n, "COND">>
      else == Children(ast, n, "else")
  IN CASE kind \in {"expr", "declinit"} -> {<< <<n, "EXPR">>, "", After(ast, n)>>}
       [] kind = "call" -> {<< <<n, "CALL">>, "", After(ast, n)>>}
       [] kind = "return" -> {<< <<n, "EXPR">>, "", <<n, "RETR">> >>}
       [] kind = "if" ->
            {<<cond, "T", First(ast, Min(Children(ast, n, "then")))>>,
             <<cond, "F", IF else = {} THEN After(ast, n) ELSE First(ast, Min(else))>>}
       [] kind \in {"while", "do"} -> {<<cond, "T", Body(ast, n)>>, <<cond, "F", After(ast, n)>>}
       [] kind = "for" -> {<<cond, "T", Body(ast, n)>>, <<cond, "F", After(ast, n)>>,
                           << <<n, "INIT">>, "", cond>>, << <<n, "INC">>, "", cond>>}
       [] OTHER -> {}

SourceFlow(ast) == UNION {FlowFrom(ast, n) : n \in 1..Len(ast)}

(* the first point of each function *)
SourceStarts(ast) ==
  LET funs == {n \in 1..Len(ast) : ast[n].kind = "fun"}
  IN {First(ast, Min(Children(ast, n, "fun"))) : n \in funs}
-----------------------------------------------------------------------------
(***************************************************************************)
(* The basic blocks: what the IL interpreter does from a position on.      *)
(***************************************************************************)
Positions(code) == UNION {{b} \X (1..Len(code[b])) : b \in 1..Len(code)}
InsnAt(code, q) == code[q[1]][q[2]]

(* Nothing can be seen of these instructions. *)
SilentOps == {"ALLOCA", "ST", "JMP"}
StepFrom(code, q) ==
  IF InsnAt(code, q).op = "JMP" THEN <<InsnAt(code, q).target1, 1>> ELSE <<q[1], q[2] + 1>>

CodeStep(code) == [q \in {p \in Positions(code) : InsnAt(code, p).op \in SilentOps} |-> StepFrom(code, q)]

PointAt(code, b, i) ==
  LET q == Walk(CodeStep(code), <<b, i>>)
  IN IF q \notin Positions(code) THEN Stuck
     ELSE IF InsnAt(code, q).op \in SilentOps THEN Spin
     ELSE <<InsnAt(code, q).at, InsnAt(code, q).op>>

BlockStart(code, b) == PointAt(code, b, 1)

CodeFlowAt(code, b, i) ==
  LET insn == code[b][i]
      next == code[b][i + 1]
  IN CASE insn.op = "COND" ->
            {<< <<insn.at, "COND">>, "T", BlockStart(code, next.target1)>>,
             << <<insn.at, "COND">>, "F", BlockStart(code, next.target2)>>}
       [] insn.op \in Visible \ {"COND"} ->
            {<< <<insn.at, insn.op>>, "", PointAt(code, b, i + 1)>>}
       [] OTHER -> {}

CodeFlow(code) == UNION {CodeFlowAt(code, q[1], q[2]) : q \in Positions(code)}
-----------------------------------------------------------------------------
(* The part of a flow that execution from the given points can reach. *)
ReachableFlow(flow, points) ==
  LET next(S) == S \cup {t[3] : t \in {u \in flow : u[1] \in S}}
      reached[k \in 0..Cardinality(flow)] ==
        IF k = 0 THEN points ELSE LET S == reached[k - 1] IN next(S)
  IN {t \in flow : t[1] \in reached[Cardinality(flow)]}
=============================================================================
