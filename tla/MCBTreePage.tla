----------------------------- MODULE MCBTreePage -----------------------------
(* A small page for BTreePage. *)
EXTENDS BTreePage

=============================================================================
