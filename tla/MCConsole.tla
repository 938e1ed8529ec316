----------------------------- MODULE MCConsole -----------------------------
(***************************************************************************)
(* The program of MCHart, run from the prompt: until a hart is at the      *)
(* handler, while it is at the first instruction.                          *)
(***************************************************************************)
EXTENDS Console, MCHart

MCGoals == {[hart |-> 0, pc |-> "c", is |-> TRUE], [hart |-> 1, pc |-> "b", is |-> FALSE]}
============================================================================
