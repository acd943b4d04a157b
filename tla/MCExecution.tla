---------------------------- MODULE MCExecution ----------------------------
(* Execution of a few programs of three functions: with variables of a     *)
(* word or of half a word, and with one or two registers.                  *)
EXTENDS Execution

NumArgs  == [g \in Fun |-> CASE g = main -> 0 [] g = "g" -> 2 [] g = "h" -> 1]
CalledBy == [g \in Fun |-> CASE g = main -> {"g", "h"} [] g = "g" -> {"h"} [] g = "h" -> {"h"}]
Declares ==
    [g \in Fun |-> CASE g = main -> {<<4, 4>>} [] g = "g" -> {<<8, 8>>, <<4, 4>>} [] g = "h" -> {<<4, 4>>}]
Needs    == [g \in Fun |-> IF g = "g" THEN {1} ELSE {2}]
=============================================================================
