------------------------------ MODULE MCIoRing ------------------------------
(* TLC instances of IoRing. *)
EXTENDS IoRing

CONSTANTS a, b, c

\* An error, and a byte count or a new descriptor.
MCResults == {-104, 7}

=============================================================================
