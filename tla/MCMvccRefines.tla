---------------------------- MODULE MCMvccRefines ----------------------------
(* Model values for MvccRefines. *)
EXTENDS MvccRefines, TLC

Sym == Permutations(TxID)
=============================================================================
