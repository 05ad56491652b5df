---------------------------- MODULE MCLinuxBlock ----------------------------
(* The TLC instance of LinuxBlock. *)
EXTENDS LinuxBlock
CONSTANTS b1, b2
=============================================================================
