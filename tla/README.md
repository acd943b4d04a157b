# tinycc in TLA+

A verification project for **tinycc**, a compiler for the small C-like language
TinyC that ends in code for the T86 machine. The compiler is one sequential
program: `compile()` in `src/tinycc/main.cpp` runs its passes one after another,
and each pass works on the data structure that the pass before left.

```
source -> Lexer -> Parser -> AST -> Typechecker -> ASTToILTranslator -> il::Program
       -> MiddleEndOptimizer -> (ILInterpreter, to compare results)
       -> T86CodeGen -> t86::Program -> BeladyRegAllocator
       -> BackendOptimizer -> Assembler -> external virtual machine
```

There is no concurrency and nothing is persisted. What is hard here is
different: visitors that recurse over the AST while they change shared
pointers ("the current block", "the current context"); passes that free blocks
other blocks point to; worklists whose order decides what falls through to
what; fixpoint loops that have to end; and a promise each pass makes without
checking it and the next one relies on. The repository's tests run small
programs through the whole pipeline, and only one suite of straight-line
arithmetic by default, so few of these are reached.

## Inventory

| Component | State | Operations | Interaction | What makes it correct |
|---|---|---|---|---|
| Lexer (`frontend/lexer.h`) | stream position, tokens | `tokenize`, comments, literals | hands the parser a token vector | every character belongs to one token or is skipped; errors at the right place |
| Parser (`frontend/parser.*`) | position, known type names | one function per rule; `position`/`revertTo` to backtrack | builds the AST; types it registers survive backtracking | accepts the grammar of LANGUAGE.md, a failed attempt leaves no trace |
| Types, Symbols (`common/`) | process-wide tables | interning, aliases, reset | shared by parser, typechecker, tests | one object per type; a reset leaves no dangling pointer |
| Typechecker (`frontend/typechecker.h`) | scopes, `returned_` | one visit per node | annotates the AST with types | a function with a value returns it on all paths; names resolve lexically |
| AST to IL (`optimizer/ast_to_il.h`) | `bb_`, `f_`, `contexts_`, `lastResult_` | one visit per node; enter/leave block, function, loop | appends to the blocks of `il::Program` | the IL is well formed and does what the source says |
| Middle end (`optimizer/optimizer.h`) | map of jump-only blocks | identify, redirect, erase | rewrites and frees blocks of `il::Program` | no jump changes its destination, no pointer dangles, it returns |
| Interpreter (`optimizer/il_interpreter.h`) | registers, memory, `retVal_` | run function, run block | reads `il::Program` | the reference result of a program |
| Code generator (`backend/il_to_t86.h`) | worklists of blocks and functions, register and stack maps | visit per IL instruction | follows block pointers of the IL, fills `t86::Program` | each reachable block once, labels defined, fall-through right |
| Register allocator (`backend/register_alloc.h`) | free registers, operand map, liveness | per instruction of a block; spill, write back, back up | rewrites instructions in place | four registers suffice and no value is lost |
| Stack frames (`backend/stack.h`) | next offset | allocate, offset | used by code generator | variables of a frame lie within it |
| Back-end optimizer (`optimizer/peephole.h`, `reg_optimizer.h`) | a window over the text | rules, until nothing changes | removes instructions, and blocks that become empty | removed instructions had no effect; it returns |
| Assembler (`backend/assembler.h`) | label addresses | two passes | patches jumps | labels are unique and defined |

`PROJECT.json` lists every component with what is modelled of it, and under
"hazards" each thing in this code that is hard to test, at its line.

## Modules

The model follows the program through four questions.

1. **What the text says**: characters to tokens, tokens to a tree, names to
   declarations. `Lexer`, `Parser`, `Scopes`.
2. **What is done in which order**: control flow from the statements of the source to
   the jumps of the T86 code. What expressions compute is abstracted: an instruction
   keeps only its kind and the AST node it was made for, which is enough to ask
   whether two forms of a program do the same things in the same order.
   `ASTToIL`, `MiddleEnd`, `T86CodeGen`, composed in `Compiler`.
3. **Where values live in a block**: `RegAlloc`, and `BackEnd` on what it leaves.
4. **Where values live across calls**: `Frames`, composed with `Interpreter` in
   `Execution`.

* `Lexer`: `tokenize()` and its six loops over one stream. `mode` is the function that
  is active and `pos` the position of the stream; one action is one turn of a loop
  or one case of the dispatch. Places are those that `l_` notes. The stream is that of a
  string (`Tokenize`) or of a file (`TokenizeFile`), which has exceptions: a turn that
  would look at it twice where the text ends is `FailInStream` instead.
* `Lexemes`: what the tokens of a text are, said of the whole text: longest operators,
  names and numbers; where comments and strings end; what escapes stand for; and which
  texts a file cannot have (`FileFails`).
* `Parser`: recursive descent as a machine. `todo` is the C++ call stack: each rule of
  `parser.cpp` is an operator that says what is read, called and built, and a step
  does the first thing to do. `saved` are the live `Position`s with what
  `revertTo()` restores; an exception is a pop to the handler. Only what depends on
  tokens is kept, so trees are terms of their tokens. The text is not an input
  either: a token is chosen when the parser first looks at it, from the vocabulary of
  one of fifteen `Scripts`.
* `Grammar`: the productions of LANGUAGE.md, and whether some tokens begin a sentence.
* `Parsing`: the promises of the parser in terms of the grammar.
* `Scopes`: the contexts of `Typechecker` and `ASTToILTranslator` for the same
  program, side by side, built as in the parser's case by choosing the next
  declaration, use or end of a block. A use is looked up in both.
* `Frames`: `StackAllocator`, the sizes of `il::Function`, the registers that
  `addRegBackup` saves, and the prologue, call and epilogue that result: what is decided
  while the program is compiled (actions), and what these instructions do to a
  machine (operators).
* `Interpreter`: memory, registers and `retVal_` of `ILInterpreter`, as operators. Memory is
  a sequence of bytes, each of which says of which value it is which byte: `Alloca` appends
  the size of the variable, `Store` and `Load` move eight bytes from its address on,
  `Store` past the end of the stack if need be. The parameters of a call are allocated and
  stored one by one, so these stores make room for all of a short parameter.
* `Execution`: a program is compiled by `Frames`, and then runs in the interpreter and
  on the machine in lock step. What a function does is up to the program: any
  sequence of allocations, stores, computations, calls and returns. Each computed
  value is new, and says what it was computed for. `calls` is a history variable; its
  `lost` are the variables that a store to a neighbour has overwritten in the interpreter.
* `BackEnd`: `BackendOptimizer`; one step is one position of the peephole optimizer's
  window with all its rules, or one rule of the register optimizer on one block.
  `Meaning` runs a block on terms.
* `IL`: instructions, terminators and basic blocks of `il.h`. Blocks are numbered
  in order of creation and 0 is the null pointer, so `code[b]` is the block that
  a `BasicBlock *` points to. `WellFormed` is the contract between the passes.
* `ASTToIL`: the translator. The C++ call stack is the variable `visits`, with one
  frame per active `visit()` and the blocks it keeps in locals; `bb`, `contexts`
  and `code` are `bb_`, `contexts_` and the blocks of the program. One action is
  the code of a visit between two visits of child statements (`VisitWhile`: up to
  the body; `EndWhile`: after it). The source program is not an input: wherever
  the visitor looks at a child statement, every statement the grammar allows is
  tried and recorded in `ast`. TLC thus explores all source programs up to a
  number of AST nodes. A failing assertion, a null child (`return0`) and an expression that
  the visitor has no code for are `status = "aborted"`. The last is the kind
  `unsupported`: all that is `NOT_IMPLEMENTED` (unknown operators, post-operators, index,
  members, casts, `print` and `scan`), strings, and the assertions on unary operators and
  on the types of operands. It may be a statement, or be where the visitor looks at it
  only behind a body that is translated already: the condition of a do loop or the
  increment of a for loop (`UnsupportedEnd`).
* `ControlFlow`: two readings of a program's control flow as a set of "after this
  point comes that one": of the AST, by the C meaning of each statement, and of
  the basic blocks, in the order in which the interpreter runs them. Both are graphs of
  places with one next place each, and `Walk` follows one to where it ends, so that
  they can be proved about.
* `Lowering`: the promises of the translation in terms of these readings.
* `ReturnCheck`: the typechecker's flag `returned_`, as a recursive function on the nodes
  of the AST.
* `MiddleEnd`: `removeRedundantJMPBBs`: `Identify`, one `Redirect` per round of its
  while loop, `Erase`. An erased block stays in `code` and leaves `blocks`, so a
  pointer to it is a dangling pointer.
* `JumpThreading`: what the pass promises, as a single step.
* `T86CodeGen`: `generate()` with its worklists; one action per turn of a loop and
  per `visit()` of an IL instruction. `text` is the sequence of labelled T86 blocks
  of all functions in order of creation, which is the order of the program.
  `bbVisited_` and the worklists have their names of the code.
* `Compiler`: composes the three passes. They are instances over one shared `code`,
  as the passes share `il::Program`; an action of a pass is an action of the
  compiler while it is that pass's turn. Between middle end and code generator,
  `bbsOf` is what erasing has left of `Function::bbs_`. `PassesGetWhatTheyAssume`, the
  contract between the passes, is stated here.
* `Compilation`: the end-to-end promises, and a third reading of control flow: of
  the T86 text, with labels resolved as the assembler does.
* `RegAlloc`: `BeladyRegAllocator` on one block, one action per instruction and way
  through the loop of `allocate(BasicBlock *)`. `map` is `operandToRegMap_`. The
  rewritten instructions are run as they are emitted: `store` holds what the machine
  then holds, as terms over what it held before the block, and `intended` what the
  given block would have computed. `liveness` is a function of the given block,
  because an inserted instruction gets the liveness of the one it precedes. Which
  operand is evicted depends on the order of two hash tables; every order is allowed.
  `slips` is a history variable, see the runs.
* `ASTToIL_proofs`, `MiddleEnd_proofs`, `T86CodeGen_proofs`, `Compiler_proofs`,
  `RegAlloc_proofs`, `Scopes_proofs`, `Execution_proofs`, `BackEnd_proofs`: theorems about
  the modules of these names. The proof that the translation keeps the control flow
  is in two of them: `ASTToIL_proofs` has the invariant and what follows from it,
  `Compiler_proofs` one lemma for each action of the translator.
* `MC...`: the instances that TLC checks.

Operators introduced by "Slip:" comments are plausible mistakes in the definition
that follows them. No specification uses them; replacing the definition by the
slip must make TLC report a named property, which shows that the property says
something about the code. `PROJECT.json` pairs each property with its slip.

## Runs that pass

| Run | What it shows | Bound and why it is enough |
|---|---|---|
| `lexer` | `ReadsTheText` (tokens, values and places are those of the text); `CommentsEndAfterAnOddRun`; `Terminates` | all texts of up to 5 characters (comments: 6) over three alphabets of 4 to 6 characters, and all of 3 over the operators, each from a string and from a file. The loops look one character ahead, and 6 characters hold a comment with two stars before its slash. `int` has 8 bits, so that three digits overflow. 260,523 states. |
| `parser` | `TreesAreThoseOfTheGrammar`; `TypesAndVariablesAreApart`; `AcceptsTheGrammar` (it throws at the first token that no program can have there); `Returns` | fifteen vocabularies of 4 to 9 tokens, each for 4 to 7 tokens between a fixed beginning and end, one for each family of rules; type names, casts and declarations share one. A rule looks at one token, or tries a declaration and goes back; the fixed ends let a failed attempt end in any token. 190,326 states. |
| `scopes` | `UsesBindAsChecked`, `AcceptedNamesAreFound` | all programs of 4 names, one of them built in, 5 declarations with that of the built-in one, 4 contexts and 2 loops: two functions with parameters and a block, three functions, and each name declared at every depth. Names are symmetric. 560,781 states. |
| `lowering` | `TypeOK`; `NeverPastATerminator` (what operator += assumes and nothing checks: the block that instructions go to is open, however statements nest); `FinishedProgramIsWellFormed`; `FlowIsPreserved` (the IL has exactly the source's control flow); `AbortsOnlyForStrayJumps`; `AcceptedFunctionsReturn` | 6 AST nodes of all 14 kinds of statement, those that the translator stops at included, one function: two nested loops with a jump in braces, an if-else with a jump in a branch and a statement behind it, a loop inside an if inside a loop. A visit only sees its own frame, the current context and `bb`, so deeper nesting repeats these. 552,811 states. |
| `middle_end` | `DestinationsKept`, `NoDanglingTarget`, `ReturnsUnlessJumpCycle` (under weak fairness), `ThreadsJumps` (refinement of `JumpThreading`) | all programs of 4 blocks: chains of three jump-only blocks, which take three rounds, cycles of one to four, branches with both targets redundant. The proofs cover every size. |
| `codegen` | `EachBlockOnce`, `LabelsAreDefined`, `OnlyReachableBlocks`, `FallsThroughToNewBlocks`, `Terminates` | all programs of two functions with 4 blocks and 1, up to renaming of blocks: self loops, branches to blocks queued or compiled before, branches to a new block while others wait (this takes 4 blocks), unreachable blocks, recursion, a callee queued twice. |
| `compilation` | `PassesGetWhatTheyAssume` (each pass establishes the contract of the next), `CompiledFlowIsSourceFlow` (end to end), `CleanProgramsAreOptimized` | all source programs of 5 nodes and up to two functions with calls, each taken through all three passes. |
| `regalloc` | `OperandsAreWhereExpected`, `AllocationKeepsTheMeaning`, `NoRegisterLeaks`, `FreeRegistersHoldNothing`, `EnoughRegisters`, see below | blocks of one or two statements (assignments of a leaf, a sum, a nested sum or a call, a chained assignment, a comparison) over two variables and a constant, with and without a return, and three statements if two are copies, on three registers: one sum fits, two may not, and a third statement reuses a register that the second freed. 185,888 states. |
| `execution` | `VariablesAgree`, `RegistersAgree`, `CallersResume`, see below | three functions, one recursive, with 0 to 2 arguments and 0 to 2 variables of 4 or 8 bytes, each with one or two registers, in every order of compilation; runs of 7 steps: three calls deep with something stored in each, or two calls one after the other. `main` has two variables of 4 bytes, which overlap in the interpreter; those of `g` and `h` are parameters too. The interpreter's stack ends at 40 bytes, so that recursion reaches its end. 1,478,872 states. |
| `backend` | `OptimizationKeepsTheMeaning`, `EndsWithCleanCode` | all blocks of up to 4 instructions that the allocator may leave, with two registers, two variables, an argument and two constants: a rule looks at two instructions or at the definition and the uses of a register, and removing one brings two others together. Functions with a prologue and an epilogue have 2 instructions more. 519,648 states. |

The lexer differs from the text in one way, which `ReadsTheText` excepts: of two stars
in a row in a comment the second is not looked at, so that a comment closed by an even
number of stars runs on. `CommentsEndAfterAnOddRun` says exactly how far. And not every file
can be read: each `peek()` where it ends but the first throws. `ReadsTheText` says which
files those are: those that end while a token or comment is read that its end, and not a
character of its own, completes (names, numbers, operators that could go on, comments
with `//`), or behind an open string or comment. The tests read strings only.

The parser accepts neither more nor less than LANGUAGE.md but for the following. It has
no rule for `'(' EXPR ')'`, though the comment at `parser.cpp:560` has one. Punctuation of
one character has the kind of identifiers, so it is one where the parser looks for an
identifier before it looks for a symbol; keywords are accepted as names of structs and
members, and a member may be an array. `case 0` behind `default` is taken for a duplicate.

A name means different declarations to the typechecker and the translator in four
cases, which are `Differs`: in the value of its own declaration (`int x = x;`) or in the
clauses of a loop whose body declares it; a built-in function, which the translator
does not know; a function called like a parameter of an earlier function; and a
parameter of the first function called like that function. `UsesBindAsChecked` is an
equivalence: in these cases they do differ. That the context of the first function is
never dropped is also what keeps functions known to later ones.

The stack is not what the prologue makes it. Offsets are never reset, so variables of
every function but the first that has some lie where that function saves registers, or
below the stack pointer. `VariablesAgree` excepts those below the stack pointer, which
calls overwrite; `RegistersAgree` excepts registers whose saved value such a variable
has overwritten, here or in a callee, and says that these are indeed lost. All else
holds: the chain of base pointers and return addresses, and what the interpreter and the
machine return.

Nor is the interpreter's memory what the compiled program's is. `ST` and `LD` move eight
bytes there, whatever `ALLOCA` gave the variable: pointers have four, so those that are
allocated together overlap, where the machine gives each a word. `VariablesAgree` is an
equivalence about this: the interpreter reads what is in the word of the frame exactly if
the last store to a neighbour was not after that to the variable (`lost`). It also says
that nothing else in memory is shared: variables of two calls never overlap, because each
call stores its parameters where it allocates them, and a variable with a value ends
before the stack does. Variables that have no value yet are not read in the model: the
machine's words and the interpreter's bytes differ there.

The back end keeps what a block computes, unless it cuts a cycle `MOV R1, [x];
MOV [x], R1`, as `y = x` leaves it when `NOP`s are gone: the rule takes the load away
instead of the store that its comment names. The history variable `cycles` excepts this.
Nothing else is excepted of the blocks that `IsBlock` admits: it leaves out those where a
general register that was written before is copied to itself, which the allocator only
emits after it has freed a register that was shared (`freed`, below), so that the block is
wrong before it is optimized. If such a copy follows the move to its register,
`removeUnusedMov` would take that move for unused.

The allocator does not keep the meaning of every block. There are four mistakes, each
defined in the action that makes it and recorded in `slips`: arithmetic in a
register that is also that of a variable the block does not read again
(`clobbered`), evicting a virtual register that is still needed (`lost`), freeing a
register when one of several operands leaves it (`freed`), and storing a call's
result past the register that caches the variable (`stale`). The run shows that these
four are all: without them every operand that matters is where the rewritten code
looks for it (`OperandsAreWhereExpected`), memory, `EAX` and everything compared or
pushed come out right (`AllocationKeepsTheMeaning`), and a free register holds nothing
that matters. Assertions fail and registers leak only after `lost`, and nothing is
lost from a block with no more loads and sums than registers.

`FlowIsPreserved` and `CompiledFlowIsSourceFlow` except programs with jumps the
translator gets wrong (below), by conditions stated on the source alone:
`JumpsAreClean` excepts a jump behind a completed loop of the same context and a
`continue` in a `while`; `BranchesAreFresh` excepts conditions whose true target was
compiled before, as in do-while loops. `AcceptedFunctionsReturn` is about functions
without jumps in do loops: the typechecker counts a return in the body of a do loop
as sure, and a break before it gets past it.

Fairness. A pass is a C++ function call with no other thread, so once begun it
keeps executing: `WF_vars(Step)` in `Lexer`, `Parser`, `MiddleEnd` and `T86CodeGen`,
`WF_vars(Peephole \/ RegOptimizer)` in `BackEnd`, and in `Compiler` weak fairness of
starting and running the optimizer and the code generator. Nothing is assumed of
`Translate`, whose source program may stay unfinished.
Deadlock is checked everywhere but in `execution`, where programs end; the step
`Stopped` (or `Done`) stands for the return of the pass and changes nothing.

## Runs that find a violation

Each of these checks one property, stated from a comment or an assertion, which the
code does not have.

| Run | Program | What happens |
|---|---|---|
| `clobbered_variable` | `y = x + 1;` at the end of a block | the sum is computed in the register `x` was loaded to, and that register is written back to `x` |
| `outside_frame` | two functions with a variable each | the second function's first variable is outside of the words that its prologue reserves, because offsets go on counting |

Other disagreements have no run of their own; they are the exceptions of properties that
hold. Besides those above:

* `while (a) { while (b) {} break; }`: `enterLoopBasicBlock` overwrites the jump targets
  of the context and nothing restores them, so the break goes to the end of the inner
  loop (`Stale`, in `JumpsAreClean`). `while (a) {} break;` is translated likewise,
  though `parser.cpp:209` leaves it to the translator to reject.
* `while (a) continue;`: the continue block of a while loop is its body, so the condition
  is skipped (`ContinuesWhile`, in `JumpsAreClean`). Here the body jumps to itself, and
  the middle end never returns: redirecting a jump to where it already goes counts as a
  change (the cycles of `ReturnsUnlessJumpCycle`).
* `do { ... } while (a);`: only the jump to the false target is emitted, and the next
  block is not the true target; and if a function starts with this, its erased
  entry block leaves it starting at the next block in order of creation, the condition
  (`BranchesAreFresh`).
* `x = x + (y + 1);` with three registers: moving `y` out of the way evicts a
  register whose virtual register is needed and has no memory (`lost`).
* `return;` makes the translator visit a null child, and of the expressions that the
  typechecker accepts it has no code for some. `AbortsOnlyForStrayJumps` says that
  besides these only a jump outside any loop stops it.
* Two pointers declared in one block: they have four bytes each, so the second is four
  bytes behind the first in the interpreter, where storing either destroys half of the
  other; in the T86 code each has its word (`lost`, in `VariablesAgree`).
* A file that ends in a name or a number without a line break (`FileFails`).

## Theorems

tlapm proves the following for every value of the constants: all well-formed
programs of any size, not only those the runs enumerate.

`ASTToIL_proofs`, with no assumption but that the number of AST nodes is bounded:

* `TypeCorrect`, `WritesAreOpen`, `Lowered`, `BlocksHaveAFunction`. The inductive
  invariant is an account of the blocks without a terminator. Each active visit still
  owes an instruction to the blocks it keeps in locals, each context to its locals
  block, and `bb` is written next; these debts are pairwise distinct, and a block that
  nobody owes anything has its terminator (`Balanced`). The debts follow the order of creation,
  which is how a block's function is found again: the blocks of an open function are
  those from its entry on. When the last visit returns nothing is owed, so every block
  ends in its one terminator.

`MiddleEnd_proofs`, from `InputsAssumption` (the inputs are well-formed programs,
which `PassesGetWhatTheyAssume` checks of the translator):

* `TypeCorrect`, `NoDangling`. The inductive invariant `IInv` adds to `TypeOK` that
  the map has exactly the jump-only blocks of the input with their first targets,
  that terminators only name existing blocks, and that while `changed` is false no
  terminator of a remaining block names a jump-only block. The last is what makes
  erasing safe: `changed` is computed from the code before the round, so a round
  that reports no change has seen code it did not alter.
* `DestinationsAreKept`: a round moves a target one step along the jump-only blocks,
  and a function that resolves these blocks has the same value before and after.
* `Refinement`: `Spec => JumpThreading!Spec`. `RInv` tracks that each jump-only block
  still agrees with the map up to what redirection made of it; when the pass erases,
  the targets reached are those of `JumpThreading`, and if the jump-only blocks had a
  cycle, a terminator in it would still name a jump-only block.

`T86CodeGen_proofs`, from `InputsAssumption` (functions have disjoint, well-formed
blocks and calls name functions):

* `TypeCorrect`, `BlocksOnce`, `LabelsDefined` from `IInv`: besides the types, that
  blocks wait only while their function is compiled (`Position`, `Ownership`), and that
  each label in the text belongs to a block that was visited, a function that was
  visited, or a block of the text (`Labels`). When both worklists are empty,
  everything visited is compiled, so each label is defined.
* `NewBlocksFallThrough`: after a branch that names its true target first, that target
  is at the head of the worklist, in front of whatever waited (`Falling`), until the
  next turn of the loop appends it to the text directly behind the branch.
* `TextFollowsBlocks`: each block of the text is the code of the block its label names,
  instruction by instruction, as far as the translation is (`Layout`). A return is
  followed by its epilogue; the blocks of a function are together, with the one that
  calls jump to in front; and each block was named before it is there, so that a branch
  to a block that nothing named before finds it directly behind.
* `ReachableOnly`: any set of blocks closed under jumps that has the starts of the
  functions called contains every block queued; by its own induction.

`Compiler_proofs`, from `SourceAssumption` (the bounds are numbers):

* `FlowPreserved`, `AbortsExplained`, from `CodeFollowsSource`. The properties compare
  finished programs, and of an unfinished one neither flow exists. The inductive invariant
  `SInv` says instead that there are two histories which explain the code made so far as
  the source visited so far (`Sim`): `w` has the places in the code where each node
  starts, has its condition, its body, its alternative, and ends; `h` the loop that each
  context's jump targets are from. What the code has at these places is said in three
  parts: what the visit of a node has emitted (`Entered`), where a node starts relative to
  its parent and the part before it (`Started`), and where the ends of its parts lead once
  its visit is over (`Left`); an active visit is in between (`FrameAt`). A place never moves, and
  what is emitted later goes to the ends of blocks, so each action keeps what the others
  said. `h` is needed since nothing in the code says which loop left its targets in a
  context: it is why a jump goes to the enclosing loop exactly if it is not
  `Stale`, and why a jump that aborts had no loop before it. When the last visit is over, a
  walk over the silent instructions of the code and one over the places of the source that
  show nothing proceed in parallel (`FlowsAgree`), one by one or not at all, so they end
  at the same point or both never.
* `OptimizedFlowPreserved`, from `CodeStaysOnTheWay`: the optimized code gets ahead of the
  translated one on its way (`Ahead`). Each silent instruction goes on where it went, or
  where that went after more silent instructions (`Leads`); a round of the optimizer adds
  one jump to what is skipped. Codes of which one is ahead read the same everywhere: where
  the walk through the first ends, the other has fewer steps to go, by induction on
  how many; and were the other to end where the first does not, it would end at something
  the first shows as well. So no cycle of jumps is broken or made.
* `ReturnsAreSure`. A function is accepted by one flag and no path is looked at. The flags
  are the one solution of their recursion, which exists since parts have larger numbers
  than the whole. Then a set is closed under the flow: the points of the body that are
  before every sure return (`Reach`). A live end of a statement means that its flag is
  false and what it is part of is live; going up, the body's flag would be false. So
  the end of an accepted function is not in the set, and nothing reachable is
  outside. The translator's invariant is used for one thing, that a finished tree has
  all its parts.
* `PassesFit`, `CompiledTextIsWhole`. Here the assumptions of the three passes are
  discharged. The invariant is that of each pass while it runs, and between them what was
  handed over: the translator's result satisfies `WellFormed`, and while the optimizer
  redirects and erases, what the code generator needs is carried along. Redirection keeps
  every block together with its targets in one function, since a chain of jumps never
  leaves it. Erasing keeps at least one block of each function, since the targets
  reached are not erased. The k-th block of `bbsOf` is found by counting the smaller
  ones, so that it lists the blocks that are left once each, in order. So for every
  source program the text has each label it names, each block once, and falls through
  where the code generator relies on it.

`RegAlloc_proofs`, from `InputsAssumption` (blocks in the form that the code generator
emits: each virtual register is defined once, before its uses, and only the last
instruction jumps) and `NumRegsAssumption` (there is a register):

* `TypeCorrect`, `OperandsFound`, `FreeRegistersAreFree`, `MeaningKept`,
  `RegistersAccountedFor`, from one invariant. `Shape`: what is mapped, other than EAX,
  SP and BP, is mapped to registers that may be given out; a virtual register is
  mapped only after its definition. `Meaning`: without a slip, an operand that
  matters has its intended value where the map says, and not in a free register.
  `Holding`: as long as no needed virtual register was evicted, those needed are mapped
  and each register is free or in the map. The first is needed because a memory
  operand in a register is written back over its own place only; the last two
  need each other's parts about what is free. What matters after an instruction
  mattered before it or is defined by it (`MattersStep`), which carries `Meaning` from
  one instruction to the next. So the four slips are the only ways in which the
  allocator changes what a block computes: the list is complete for every block
  and every number of registers, not only for those that were enumerated.

* `NothingIsLost`: `spillRegister()` can only evict a needed virtual register when no
  register is free, and a register is taken by a load into a virtual register or by
  arithmetic on one. The invariant bounds the registers that are not free by the number of
  such instructions up to `pos`, a register being put back counting down.

`Scopes_proofs`, without assumptions on the program:

* `BoundAsChecked`, `AcceptedAreFound`. The two compilers' contexts are related position
  by position (`Contexts`): the typechecker's contexts are the suffix of the
  translator's that belongs to the function being read, in front of it the translator
  still has those of all functions before; a name in corresponding contexts has the same
  declaration, except where one of the four cases of `Differs` is about to show.
  `Loops` says that a name in a loop's clauses, which the translator looks up behind the
  body, keeps its meaning unless that body declared it. Since `UsesBindAsChecked` is an
  equivalence, both directions are proved: nothing else can differ, and in these cases the two always do.

`Execution_proofs`, from `FramesAssumption` (the program starts with a function of its own
without parameters, declarations have at least the parameters, and no function needs
more registers than there are) and `BoundsAssumption` (`heapStart` and the bound on steps are
numbers, of any size):

* `CallersAlwaysResume`, `VariablesAlwaysAgree`, `RegistersAlwaysAgree`, from one invariant.
  The properties speak of the call that runs, and a return makes a waiting call the
  running one, so the invariant says of every call what they say of the last.
  `Layout`: the words of a function's variables are different and below its base pointer,
  and its parameters have theirs before anyone can call it. `Chain`: frames lie one below
  the other and each has its two links above it, so that what a function writes, at
  its base pointer minus something positive, cannot reach the links or the frame of a
  caller. `Addresses`: in the interpreter the eight bytes from a variable's address on are on
  the stack once it has a value, and end before those of any variable of a later call;
  so a store only reaches variables of its own call. `Variables`: what `VariablesAgree` says,
  of all calls. Of each variable either all bytes are those of its value, or one is
  that of a neighbour's, which is what `lost` stands for. `InRegister` and `Saved`:
  what a call computed in a register is in the register while no later call uses
  that register, and else in the word where the first such call saved it; and it is lost
  exactly if a call in between found it spoiled or overwrote that word. Nothing is assumed
  of where variables go relative to the reserved words: `RegistersAgree` is an equivalence,
  so the proof shows that variables outside of the frame (run `outside_frame`) are the only
  way in which a call changes what its caller had.

`BackEnd_proofs`, from `InputsAssumption`: blocks end in a jump, and in them an argument is
not read after it was written, `EAX` is not moved to before a call, nor a register before
it is popped, and nothing that was moved to is copied to itself. The comment at `MayPrecede`
gives the lines of the code generator and the allocator that this rests on, and the case
that it leaves out:

* `MeaningIsKept`. The inductive invariant has the shape of blocks, `InputsAssumption`'s
  conditions included since the rules rely on them in every round, and that each block
  means the same (`Same`) as the block it was, until a cycle is cut. Every rule is then one
  of three kinds. It takes away an instruction behind which the states are those that there
  were before it; the states of the rest agree from there on. Or it turns a move to a
  register or argument into `NOP` that nothing behind it reads; the states agree but for
  the places that are dead (`Dead`), and no dead place outlives the block. Or it replaces a
  source by an immediate: along the instructions between the move of the immediate and its
  use nothing changes the register (`Reaches`, `MayPrecede`), so it holds that immediate
  (`SourcesAreRead`), immediates that were propagated themselves included. The inductions
  along a block take the least position where the claim fails.

Only model-checked, for these reasons:

* `CompiledFlowIsSourceFlow` composes `OptimizedFlowPreserved` and `TextFollowsBlocks`,
  which are proved. Not proved is that the two fit: that a branch never falls through
  into a block that was named before, and that a function starts with its first block
  that is not just a jump.
* `ReadsTheText`, `TreesAreThoseOfTheGrammar`, `CommentsEndAfterAnOddRun`,
  `TypesAndVariablesAreApart`, `AcceptsTheGrammar` compare programs or texts by recursive
  definitions: over trees of unbounded depth, or with RECURSIVE operators. The induction
  theorems for trees have operators as parameters, which the provers cannot instantiate.
* `ReturnsUnlessJumpCycle`, `Terminates`, `Returns`, `EndsWithCleanCode` and
  `CleanProgramsAreOptimized` are liveness under fairness, which tlapm cannot treat.

## Not modelled

* The types of expressions: what the typechecker infers and converts, and the tables
  of `types.h` and `symbol.h`, which intern types and names; here both are values.
* The selection of T86 instructions for IL operations; `BackEnd` and `RegAlloc` start
  from blocks of the form that it emits. Two calls in one expression share `EAX`, as the
  result of the first is not moved away; `RegistersAgree` is about the last call only. It is
  also only about calls that returned a value: what the interpreter yields for others
  (`retVal_` of an earlier call) is not used by any program the typechecker accepts.
* What expressions compute: `Compute` in `Execution` is any result, and that `&x` is
  translated like a read of `x`, for instance, shows in no property here. Global
  variables, with which the translator does not get to the end, and function pointers.
* `Reg::operator=` is declared to return a value and returns none; the model takes it to
  assign, as an unoptimized build does.
* Blocks emptied by the peephole optimizer: every block of the model ends in a jump, as
  every one of the code generator does, and no rule removes a jump.
* Collisions of label names, addresses, printing, options and the test runner.

## Plan

Each item is a module with its runs, then its proofs.

1. *done* `IL`, `ASTToIL`, `Lowering`: statements to basic blocks.
2. *done* `MiddleEnd`, `JumpThreading` and the proofs of both.
3. *done* `T86CodeGen` and its proofs; `Compiler`, `Compilation`: the composition.
4. *done* `RegAlloc` and its proofs.
5. *done* `Frames`, `Interpreter`, `Execution`; `BackEnd`; `Scopes`; `Parser`, `Grammar`,
   `Parsing`; `Lexer`, `Lexemes`.
6. *done* Proofs about `ASTToIL`, `Scopes`, `Compiler`, `Execution` and `BackEnd`.
7. *done* `ControlFlow` and `ReturnCheck` without RECURSIVE operators; proofs that the
   translation keeps the control flow and that accepted functions return.
8. `Compilation` likewise, *done*, and `CompiledFlowIsSourceFlow` as a theorem, which
   has to put `OptimizedFlowPreserved` and `TextFollowsBlocks` together.
9. `Selection`: IL instructions of expressions to T86 instructions on virtual registers,
   as the input of `RegAlloc`. `Types`: interning of types, aliases, and their reset.
