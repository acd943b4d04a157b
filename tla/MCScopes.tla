------------------------------ MODULE MCScopes ------------------------------
(* Scopes with a few names; all but the built-in one are alike.            *)
EXTENDS Scopes, TLC

Alike == Permutations(Names \ {Builtin})
=============================================================================
