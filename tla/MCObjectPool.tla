---------------------------- MODULE MCObjectPool ----------------------------
(* Values for model-checking ObjectPool. *)
EXTENDS ObjectPool, TLC

Symmetry == Permutations(Objs)
=============================================================================
