------------------------------ MODULE FileData ------------------------------
(***************************************************************************)
(* What a path names, and the flags and requests of Block (Block.h, the    *)
(* same on both targets). A file is the sequence of its units; each        *)
(* transfer moves one unit.                                                *)
(***************************************************************************)
EXTENDS Integers, Sequences, FiniteSetsExt

CONSTANTS
  Calls,      \* coroutines that open the path and use the handle they get
  Offsets,    \* offsets they read and write at
  Absent,     \* the path names nothing
  Directory,  \* the path names a directory
  Zero,       \* the unit a gap is filled with
  NoRequest

ASSUME OffsetsAssumption == Offsets \subseteq Nat
ASSUME UnitsAssumption == Zero \notin Calls

Flag == {"F_READ", "F_WRITE", "F_CREAT", "F_EXCL", "F_TRUNC", "F_EXLOCK"}
Rights == {"F_READ", "F_WRITE"}

Opening == [kind : {"open"}, flags : SUBSET Flag]
Using == [kind : {"read", "write"}, at : Offsets] \cup [kind : {"sync", "close"}]

ASSUME NoRequestAssumption == NoRequest \notin Opening \cup Using

Files == Seq(Calls \cup {Zero})

ASSUME PathAssumption == Absent # Directory /\ \A path \in {Absent, Directory} : path \notin Files

\* The file after u was written at offset `at`, and what a read there returns.
Put(file, at, u) ==
  [i \in 1..Max({Len(file), at + 1}) |->
     IF i = at + 1 THEN u ELSE IF i <= Len(file) THEN file[i] ELSE Zero]
UnitAt(file, at) == IF at < Len(file) THEN <<file[at + 1]>> ELSE <<>>

=============================================================================
