---------------------------- MODULE MCOverlapped ----------------------------
(* TLC instances of Overlapped. *)
EXTENDS Overlapped

CONSTANTS a, b

=============================================================================
