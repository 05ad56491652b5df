------------------------------ MODULE NtBlock ------------------------------
(***************************************************************************)
(* NTOS Block: open is synchronous, CreateFileW and then IOCP::bind; read  *)
(* and write are overlapped calls (Overlapped, AsyncIO) whose OVERLAPPED   *)
(* holds the offset in two DWORDs; sync and close are Await objects, whose *)
(* call returns at once. The system is external: the share modes of the    *)
(* open handles decide whether another one may be opened, and nobody else  *)
(* opens the path. Callers close a handle after its last operation.        *)
(***************************************************************************)
EXTENDS NtErrors, FileData

CONSTANTS
  Word,      \* the number of DWORD values
  Codes,     \* codes any call may fail with
  Failed,
  NoStatus

FILE_NOT_FOUND == 2
ACCESS_DENIED == 5
SHARING_VIOLATION == 32
HANDLE_EOF == 38
FILE_EXISTS == 80
INVALID_PARAMETER == 87
IO_EISDIR == 21
IO_EACCES == 13

ASSUME WordAssumption == Word \in Nat \ {0} /\ Offsets \subseteq 0..(Word * Word - 1)
ASSUME CodesAssumption == Codes \subseteq Nat \ {SUCCESS}
ASSUME NoStatusAssumption == NoStatus \notin 0..MaxErrno + 2

VARIABLES
  file,     \* what the path names
  rights,   \* what each call's handle may do, nothing without one
  share,    \* what each call's handle lets others do
  pc,       \* where each call is, and then its handle
  asked,    \* the request the system has not performed yet
  locked,   \* calls that asked for F_EXLOCK (history)
  call,     \* the system call in progress, with the offset of the OVERLAPPED
  code,     \* what it answered: m_result,
  count,    \* m_transferred,
  unit,     \* and the unit it read or wrote
  shown     \* the Status open threw

handleVars == <<rights, share>>
resultVars == <<code, count, unit>>
vars == <<file, handleVars, pc, asked, locked, call, resultVars, shown>>

Dwords == 0..Word - 1
SystemCalls ==
  [kind : {"read", "write"}, Offset : Dwords, OffsetHigh : Dwords] \cup [kind : {"sync", "close"}]
ASSUME NoCallAssumption == NoRequest \notin SystemCalls

SystemCodes == Codes \cup {SUCCESS, FILE_NOT_FOUND, ACCESS_DENIED, SHARING_VIOLATION,
                           HANDLE_EOF, FILE_EXISTS, INVALID_PARAMETER}

TypeOK ==
  /\ file \in {Absent, Directory} \/ file \in Files
  /\ rights \in [Calls -> SUBSET Rights] /\ share \in [Calls -> SUBSET Rights]
  /\ pc \in [Calls -> {"idle", "create", "bind", "unwinding", "open", "waiting",
                       "closing", "closed", "threw"}]
  /\ asked \in [Calls -> Opening \cup Using \cup {NoRequest}]
  /\ locked \in SUBSET Calls
  /\ call \in [Calls -> SystemCalls \cup {NoRequest}]
  /\ code \in [Calls -> SystemCodes]
  /\ count \in [Calls -> {0, 1}] /\ unit \in [Calls -> Calls \cup {Zero}]
  /\ shown \in [Calls -> Statuses \cup {IO_EISDIR, IO_EACCES, NoStatus}]

Init ==
  /\ file \in {Absent, Directory, <<>>, <<Zero>>}
  /\ rights = [c \in Calls |-> {}] /\ share = [c \in Calls |-> {}]
  /\ pc = [c \in Calls |-> "idle"]
  /\ asked = [c \in Calls |-> NoRequest]
  /\ locked = {}
  /\ call = [c \in Calls |-> NoRequest]
  /\ code = [c \in Calls |-> SUCCESS] /\ count = [c \in Calls |-> 0]
  /\ unit = [c \in Calls |-> Zero]
  /\ shown = [c \in Calls |-> NoStatus]

Go(c, to) == pc' = [pc EXCEPT ![c] = to]
Ask(c, r) == asked' = [asked EXCEPT ![c] = r]
Answer(c, sys, n) ==
  /\ Ask(c, NoRequest)
  /\ code' = [code EXCEPT ![c] = sys] /\ count' = [count EXCEPT ![c] = n]
Throw(c, status, to) == shown' = [shown EXCEPT ![c] = status] /\ Go(c, to)
SetHandle(c, may, let) ==
  rights' = [rights EXCEPT ![c] = may] /\ share' = [share EXCEPT ![c] = let]

-----------------------------------------------------------------------------
(* open. GENERIC_READ and FILE_SHARE_READ, and the same of write, are named after
   the flag they correspond to. *)

\* ntos_file_make_access throws without a right to ask for.
Open(c) ==
  /\ pc[c] = "idle"
  /\ \E flags \in SUBSET Flag :
       IF flags \cap Rights = {}
         THEN Throw(c, IO_EACCES, "threw") /\ UNCHANGED <<asked, locked>>
         ELSE /\ Ask(c, [kind |-> "open", flags |-> flags])
              /\ locked' = IF "F_EXLOCK" \in flags THEN locked \cup {c} ELSE locked
              /\ Go(c, "create") /\ UNCHANGED shown
  /\ UNCHANGED <<file, handleVars, call, resultVars>>

creation_disposition(flags) ==
  CASE flags \cap {"F_CREAT", "F_TRUNC"} = {} -> "OPEN_EXISTING"
    [] {"F_CREAT", "F_EXCL"} \subseteq flags -> "CREATE_NEW"
    [] flags \cap {"F_CREAT", "F_EXCL", "F_TRUNC"} = {"F_CREAT"} -> "OPEN_ALWAYS"
    [] flags \cap {"F_CREAT", "F_EXCL", "F_TRUNC"} = {"F_CREAT", "F_TRUNC"} -> "CREATE_ALWAYS"
    [] OTHER -> "TRUNCATE_EXISTING"

\* Mutant of make_share: a locked file can still be opened by readers.
make_share_read(flags) == IF "F_EXLOCK" \in flags THEN {"F_READ"} ELSE Rights

\* Mutant of make_share: FILE_SHARE_WRITE is forgotten.
make_share_readers(flags) == IF "F_EXLOCK" \in flags THEN {} ELSE {"F_READ"}

make_share(flags) == IF "F_EXLOCK" \in flags THEN {} ELSE Rights

\* Why CreateFileW refuses, with the arguments ntos_create_file passes.
Refusals(c, may, let, disposition) ==
  {e \in {FILE_NOT_FOUND} :
          file = Absent /\ disposition \in {"OPEN_EXISTING", "TRUNCATE_EXISTING"}}
  \cup {e \in {FILE_EXISTS} : file # Absent /\ disposition = "CREATE_NEW"}
  \cup {e \in {FILE_EXISTS} :
          file = Directory /\ disposition \in {"OPEN_ALWAYS", "CREATE_ALWAYS"}}
  \cup {e \in {ACCESS_DENIED} : file = Directory}
  \cup {e \in {INVALID_PARAMETER} : disposition = "TRUNCATE_EXISTING" /\ "F_WRITE" \notin may}
  \cup {e \in {SHARING_VIOLATION} :
          \E d \in Calls \ {c} : rights[d] # {} /\ ~(rights[d] \subseteq let /\ may \subseteq share[d])}

thrown(sys, flags) ==
  IF sys = FILE_EXISTS /\ "F_CREAT" \in flags /\ "F_EXCL" \notin flags
    THEN IO_EISDIR ELSE map_error(sys)

\* ntos_create_file up to the handle.
CreateFile(c) ==
  /\ pc[c] = "create"
  /\ LET flags == asked[c].flags
         may == flags \cap Rights
         let == make_share(flags)
         disposition == creation_disposition(flags)
         refusals == Refusals(c, may, let, disposition)
     IN \/ /\ refusals = {}
           /\ file' = IF file = Absent \/ disposition \in {"CREATE_ALWAYS", "TRUNCATE_EXISTING"}
                        THEN <<>> ELSE file
           /\ SetHandle(c, may, let)
           /\ Answer(c, SUCCESS, 0)
           /\ Go(c, "bind") /\ UNCHANGED shown
        \/ /\ \E sys \in refusals \cup Codes : Answer(c, sys, 0) /\ Throw(c, thrown(sys, flags), "threw")
           /\ UNCHANGED <<file, handleVars>>
  /\ UNCHANGED <<locked, call, unit>>

\* Mutant of Unbound: nothing catches what IOCP::bind throws.
UnboundUncaught(c, status) == Throw(c, status, "threw") /\ UNCHANGED asked

Unbound(c, status) == Ask(c, [kind |-> "close"]) /\ Throw(c, status, "unwinding")

\* IOCP::bind, and the handle when it succeeds.
Bind(c) ==
  /\ pc[c] = "bind"
  /\ \/ Go(c, "open") /\ UNCHANGED <<asked, shown>>
     \/ \E sys \in Codes : Unbound(c, map_error(sys))
  /\ UNCHANGED <<file, handleVars, locked, call, resultVars>>

\* CloseHandle in the handler, which throws again.
Unwind(c) ==
  /\ pc[c] = "unwinding"
  /\ SetHandle(c, {}, {}) /\ Answer(c, SUCCESS, 0)
  /\ Go(c, "threw")
  /\ UNCHANGED <<file, locked, call, unit, shown>>

-----------------------------------------------------------------------------
(* Operations on a handle. *)

\* Mutant of setOverlapped: the upper half of the offset is left out.
setOverlapped_low(r) ==
  IF r \in [kind : {"read", "write"}, at : Offsets]
    THEN [kind |-> r.kind, Offset |-> r.at % Word, OffsetHigh |-> 0] ELSE r

setOverlapped(r) ==
  IF r \in [kind : {"read", "write"}, at : Offsets]
    THEN [kind |-> r.kind, Offset |-> r.at % Word, OffsetHigh |-> r.at \div Word] ELSE r

Use(c) ==
  /\ pc[c] = "open"
  /\ \E r \in Using :
       /\ Go(c, IF r.kind = "close" THEN "closing" ELSE "waiting")
       /\ Ask(c, r) /\ call' = [call EXCEPT ![c] = setOverlapped(r)]
  /\ UNCHANGED <<file, handleVars, locked, resultVars, shown>>

Resume(c) ==
  /\ pc[c] \in {"waiting", "closing"} /\ call[c] = NoRequest
  /\ Go(c, IF pc[c] = "closing" THEN "closed" ELSE "open")
  /\ UNCHANGED <<file, handleVars, asked, locked, call, resultVars, shown>>

At(r) == r.Offset + r.OffsetHigh * Word
Moves(c, u) == Answer(c, SUCCESS, 1) /\ unit' = [unit EXCEPT ![c] = u]

\* The end of the file is an error of ReadFile, which moves nothing.
ReadFile(c, r) ==
  /\ "F_READ" \in rights[c]
  /\ LET units == UnitAt(file, At(r)) IN
     IF units = <<>> THEN Answer(c, HANDLE_EOF, 0) /\ UNCHANGED unit ELSE Moves(c, Head(units))
  /\ UNCHANGED <<file, handleVars>>

WriteFile(c, r) ==
  /\ "F_WRITE" \in rights[c]
  /\ file' = Put(file, At(r), c) /\ Moves(c, c)
  /\ UNCHANGED handleVars

FlushFileBuffers(c) == Answer(c, SUCCESS, 0) /\ UNCHANGED <<file, handleVars, unit>>
CloseHandle(c) == Answer(c, SUCCESS, 0) /\ SetHandle(c, {}, {}) /\ UNCHANGED <<file, unit>>
CallFails(c) == (\E sys \in Codes : Answer(c, sys, 0)) /\ UNCHANGED <<file, handleVars, unit>>

System(c) ==
  LET r == call[c] IN
  /\ r # NoRequest
  /\ \/ r.kind = "read" /\ ReadFile(c, r)
     \/ r.kind = "write" /\ WriteFile(c, r)
     \/ r.kind = "sync" /\ FlushFileBuffers(c)
     \/ r.kind = "close" /\ CloseHandle(c)
     \/ r.kind # "close" /\ CallFails(c)
  /\ call' = [call EXCEPT ![c] = NoRequest]
  /\ UNCHANGED <<pc, locked, shown>>

Next ==
  \E c \in Calls :
    \/ Open(c) \/ CreateFile(c) \/ Bind(c) \/ Unwind(c)
    \/ Use(c) \/ System(c) \/ Resume(c)

Spec == Init /\ [][Next]_vars

-----------------------------------------------------------------------------
\* An open that threw, at whichever step, and a handle that was closed leave no
\* handle behind in the system.
NoHandleLeak ==
  \A c \in Calls : rights[c] # {} => pc[c] \notin {"idle", "create", "threw", "closed"}

\* While a handle opened with F_EXLOCK exists, no other one does, whichever of the
\* two was opened first and with whatever flags.
ExlockExcludes ==
  \A c, d \in Calls : c \in locked /\ rights[c] # {} /\ c # d => rights[d] = {}

\* An open is refused on account of another call's handle just if one of the two
\* asked for F_EXLOCK: ordinary opens let each other in, whatever each may do and
\* in whichever order they come, and a lock shuts out and is shut out by all.
LocksDecide ==
  \A c \in Calls : pc[c] = "create" =>
    LET flags == asked[c].flags
        refusals == Refusals(c, flags \cap Rights, make_share(flags), creation_disposition(flags))
    IN SHARING_VIOLATION \in refusals <=>
         \E d \in Calls \ {c} : rights[d] # {} /\ {c, d} \cap locked # {}

(* The inductive invariant. *)

HasHandle(c) == rights[c] # {}
Closing == [kind |-> "close"]

\* Where a call is, what it asked for, the system call it made for that and the
\* handle the system holds for it agree.
StageInv ==
  \A c \in Calls :
    /\ pc[c] \in {"idle", "threw", "closed"} => asked[c] = NoRequest /\ ~HasHandle(c)
    /\ pc[c] = "create" =>
         asked[c] \in Opening /\ asked[c].flags \cap Rights # {} /\ ~HasHandle(c)
    /\ pc[c] \in {"bind", "open"} => asked[c] = NoRequest /\ HasHandle(c)
    /\ pc[c] = "unwinding" => asked[c] = Closing /\ HasHandle(c)
    /\ pc[c] = "waiting" =>
         HasHandle(c) /\ (asked[c] # NoRequest => asked[c] \in Using \ {Closing})
    /\ pc[c] = "closing" =>
         IF asked[c] = NoRequest THEN ~HasHandle(c) ELSE asked[c] = Closing /\ HasHandle(c)

\* The system call in progress is the one that was asked for.
CallInv ==
  \A c \in Calls :
    call[c] = IF pc[c] \in {"waiting", "closing"} /\ asked[c] # NoRequest
                THEN setOverlapped(asked[c]) ELSE NoRequest

\* A handle shares everything or, locked, nothing, and what handles may do was shared
\* by every other one.
ShareInv ==
  /\ \A c \in Calls :
       /\ c \in locked => pc[c] # "idle"
       /\ pc[c] = "create" => (c \in locked <=> "F_EXLOCK" \in asked[c].flags)
       /\ HasHandle(c) => share[c] = IF c \in locked THEN {} ELSE Rights
  /\ \A c, d \in Calls : c # d /\ HasHandle(c) => rights[c] \subseteq share[d] \/ ~HasHandle(d)

\* Only files are opened.
PathInv == \A c \in Calls : HasHandle(c) => file \in Files

\* What open throws is a failure.
ToldInv == \A c \in Calls : pc[c] \in {"unwinding", "threw"} => shown[c] # IO_OK

IInv == TypeOK /\ StageInv /\ CallInv /\ ShareInv /\ PathInv /\ ToldInv

\* What await_resume makes an IOResult of.
Result(c) == OfCount(map_error(code[c]), count[c])

(* What the caller of an operation makes of the system's answer. *)
Outcome(c) ==
  IF ~success(Result(c)) THEN Failed ELSE IF Result(c) = 0 THEN <<>> ELSE <<unit[c]>>

Abstract == INSTANCE BlockFile WITH
  handle <- rights,
  want <- asked,
  got <- [c \in Calls |-> Outcome(c)]

\* The file, every handle and every outcome are what the flags and offsets the
\* callers passed ask for; a file that could not be bound was opened and closed.
ImplementsBlockFile == Abstract!Spec

\* No step changes the file or a handle's rights that nobody asked to change it.
ChangesOnlyAsAsked == Abstract!OnlyAsAsked

=============================================================================
