-------------------------- MODULE MCThreadContext --------------------------
(***************************************************************************)
(* ThreadContext with a few interchangeable threads and context objects.      *)
(***************************************************************************)
EXTENDS ThreadContext, TLC

Symmetry == Permutations(Threads) \cup Permutations(Contexts)
=============================================================================
