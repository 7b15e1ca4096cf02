---------------------------- MODULE MCLocalAuth ----------------------------
(* Model-checking instance of LocalAuth: slots and accounts are            *)
(* interchangeable (no definition tells one from another).                 *)
EXTENDS LocalAuth, TLC

Symmetry == Permutations(Sessions) \cup Permutations(Subs)
=============================================================================
