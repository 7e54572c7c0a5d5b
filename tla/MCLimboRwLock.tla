---------------------------- MODULE MCLimboRwLock ----------------------------
(* Model values for LimboRwLock. *)
EXTENDS LimboRwLock, TLC

Sym == Permutations(Reader) \cup Permutations(Writer)

=============================================================================
