------------------------------ MODULE BlockFile ------------------------------
(***************************************************************************)
(* What Block promises on every target: opening does to the file what the  *)
(* flags say, a transfer reaches the offset it was asked for, with the     *)
(* rights the file was opened with, and a call that fails had no effect.   *)
(* LinuxBlock and NtBlock implement this module.                           *)
(***************************************************************************)
EXTENDS FileData

CONSTANT Failed    \* the outcome of a call that failed

VARIABLES
  file,     \* what the path names
  handle,   \* the rights each call's handle has, none without a handle
  want,     \* the request each call has made and that was not performed yet
  got       \* the outcome of the last one: units transferred, or Failed

vars == <<file, handle, want, got>>

Init ==
  /\ file \in {Absent, Directory, <<>>, <<Zero>>}
  /\ handle = [c \in Calls |-> {}]
  /\ want = [c \in Calls |-> NoRequest]
  /\ got = [c \in Calls |-> <<>>]

Call(c) ==
  /\ want[c] = NoRequest
  /\ \E r \in IF handle[c] = {} THEN Opening ELSE Using : want' = [want EXCEPT ![c] = r]
  /\ UNCHANGED <<file, handle, got>>

Answer(c, outcome) ==
  /\ want' = [want EXCEPT ![c] = NoRequest]
  /\ got' = [got EXCEPT ![c] = outcome]

\* F_CREAT makes the file if need be, and must make it together with F_EXCL;
\* F_TRUNC empties it. Directories can only be looked at.
Open(c, flags) ==
  /\ flags \cap Rights # {}
  /\ file = Absent => "F_CREAT" \in flags
  /\ file # Absent => ~({"F_CREAT", "F_EXCL"} \subseteq flags)
  /\ file = Directory => flags \cap {"F_WRITE", "F_CREAT", "F_TRUNC"} = {}
  /\ file' = IF file = Absent \/ "F_TRUNC" \in flags THEN <<>> ELSE file
  /\ handle' = [handle EXCEPT ![c] = flags \cap Rights]
  /\ Answer(c, <<>>)

Read(c, at) ==
  /\ "F_READ" \in handle[c] /\ file # Directory
  /\ Answer(c, UnitAt(file, at))
  /\ UNCHANGED <<file, handle>>

Write(c, at) ==
  /\ "F_WRITE" \in handle[c]
  /\ file' = Put(file, at, c)
  /\ Answer(c, <<c>>)
  /\ UNCHANGED handle

Sync(c) == Answer(c, <<>>) /\ UNCHANGED <<file, handle>>

Close(c) == Answer(c, <<>>) /\ handle' = [handle EXCEPT ![c] = {}] /\ UNCHANGED file

Fail(c) == Answer(c, Failed) /\ UNCHANGED <<file, handle>>

Perform(c) ==
  LET r == want[c] IN
  /\ r # NoRequest
  /\ \/ r.kind = "open" /\ Open(c, r.flags)
     \/ r.kind = "read" /\ Read(c, r.at)
     \/ r.kind = "write" /\ Write(c, r.at)
     \/ r.kind = "sync" /\ Sync(c)
     \/ r.kind = "close" /\ Close(c)
     \/ Fail(c)

Next == \E c \in Calls : Call(c) \/ Perform(c)

Spec == Init /\ [][Next]_vars

-----------------------------------------------------------------------------
(* What a step may never do. *)

Wants(c, kind) == want[c] # NoRequest /\ want[c].kind = kind

\* The file changes for a call that may write and asked to, or for an open that
\* was asked to make or empty it and hands out a handle.
FileAsked ==
  file' # file =>
    \E c \in Calls :
      \/ Wants(c, "write") /\ "F_WRITE" \in handle[c]
      \/ /\ Wants(c, "open") /\ handle'[c] # {}
         /\ IF file = Absent THEN "F_CREAT" \in want[c].flags ELSE "F_TRUNC" \in want[c].flags

\* A handle gets the rights its open asked for and keeps them until it is closed;
\* with F_CREAT and F_EXCL it is the open that made the file.
HandleAsked ==
  \A c \in Calls : handle'[c] # handle[c] =>
    \/ /\ Wants(c, "open") /\ handle[c] = {} /\ handle'[c] = want[c].flags \cap Rights
       /\ {"F_CREAT", "F_EXCL"} \subseteq want[c].flags => file = Absent
    \/ Wants(c, "close") /\ handle'[c] = {}

\* What the path names is there to stay, so one exclusive open at most makes it.
StepAsked ==
  /\ FileAsked /\ HandleAsked
  /\ file # Absent => file' # Absent

OnlyAsAsked == [][StepAsked]_vars

=============================================================================
