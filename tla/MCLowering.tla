------------------------------ MODULE MCLowering ------------------------------
(* Every small source program, for the translation of statements. *)
EXTENDS ReturnCheck

AllStatements == Compound \cup Simple
LoopStatements == {"block", "while", "if", "break"}
ContinueStatements == {"block", "while", "for", "continue"}
ReturnStatements == {"block", "while", "break", "return", "return0"}
=============================================================================
