------------------------------ MODULE MCMachine ------------------------------
(***************************************************************************)
(* Machine on small instances, one for each group of requests that can get *)
(* in each other's way; the cfg says what may fail.  MaxTask bounds the    *)
(* commands, MaxTimeout what wait_for gives up, MaxEvent the reports of    *)
(* the at91 and MaxDrop its lost connections.                              *)
(***************************************************************************)
EXTENDS Machine, TLC

Symmetry == Permutations(Worker) \cup Permutations(Reader) \cup Permutations(Request)
=============================================================================
