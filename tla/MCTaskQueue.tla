------------------------------ MODULE MCTaskQueue ------------------------------
(***************************************************************************)
(* Three tasks with any dependencies among them: chains, diamonds, cycles, *)
(* self-loops and dependencies that are never added.                       *)
(***************************************************************************)
EXTENDS TaskQueue, TLC

Symmetric == Permutations(Tasks)
===============================================================================
