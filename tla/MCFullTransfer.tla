--------------------------- MODULE MCFullTransfer ---------------------------
(* TLC instances of FullTransfer: two-bit counts, three-bit lengths. *)
EXTENDS FullTransfer
=============================================================================
