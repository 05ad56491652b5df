----------------------------- MODULE MCNtBlock -----------------------------
(* TLC instances of NtBlock. *)
EXTENDS NtBlock, TLC
CONSTANTS b1, b2

\* What map_error makes of the codes the model tells apart, and of
\* ERROR_INVALID_FUNCTION (1), for which it says IO_EISDIR; ERROR_HANDLE_EOF (38)
\* has no case.
MCCases ==
  (2 :> 2) @@ (5 :> 1) @@ (32 :> 16) @@ (80 :> 17) @@ (87 :> 22) @@ (1 :> 21)

=============================================================================
