------------------------------- MODULE MCMvcc -------------------------------
(* Model values for Mvcc. *)
EXTENDS Mvcc, TLC

Sym == Permutations(TxID)
=============================================================================
