------------------------------- MODULE Status -------------------------------
(***************************************************************************)
(* Status codes and IOResult, common to both targets. The Status named     *)
(* after errno value e is represented by e itself; IO_OK is 0, as in       *)
(* Status.h, and the two codes without an errno lie beyond the errno       *)
(* range. An IOResult is its one member, the integer mValue.               *)
(***************************************************************************)
EXTENDS Integers

CONSTANT MaxErrno   \* the largest errno value

ASSUME MaxErrnoAssumption == MaxErrno \in Nat \ {0}

IO_OK == 0
IO_UNKNOWN == MaxErrno + 1
IO_EOF == MaxErrno + 2

\* The constructors: from a Status alone, and from a Status and a count.
OfStatus(status) == -status
OfCount(status, result) == IF status = IO_OK THEN result ELSE -status

success(mValue) == mValue >= 0
error(mValue) == IF success(mValue) THEN IO_OK ELSE -mValue

=============================================================================
