--------------------------- MODULE MCCompilation ---------------------------
(* Every small source program, taken through the compiler. *)
EXTENDS Compilation

MCStatements == {"block", "if", "while", "do", "for", "expr", "call", "decl", "break", "continue", "return"}
WhileStatements == {"block", "while", "continue"}
DoStatements == {"block", "do", "expr"}
=============================================================================
