----------------------------- MODULE LinuxBlock -----------------------------
(***************************************************************************)
(* Linux5 Block: open, read, write, sync and close are each one operation  *)
(* of the ring (IoRing, AsyncIO). Several coroutines open the same path,   *)
(* and each uses the handle it gets. The kernel is external; it performs   *)
(* an operation between its submission and the resumption of its caller.   *)
(***************************************************************************)
EXTENDS LinuxErrors, FileData

CONSTANTS Errnos, Failed

ASSUME ErrnosAssumption == Errnos \subseteq 1..MaxErrno

VARIABLES
  file,    \* what the path names
  fds,     \* the rights of each call's descriptor in the kernel
  pc,      \* where each call is, and then its handle
  asked,   \* what the caller asked for and the kernel did not answer (history)
  sqe,     \* the operation in the ring, NoRequest when it was answered
  ret,     \* the ring's answer
  unit     \* the unit the operation read or wrote

vars == <<file, fds, pc, asked, sqe, ret, unit>>

OFlags == {"O_RDWR", "O_WRONLY", "O_CREAT", "O_EXCL", "O_TRUNC"}
RingOpening == [kind : {"open"}, flags : SUBSET OFlags]

ASSUME NoSqeAssumption == NoRequest \notin RingOpening

TypeOK ==
  /\ file \in {Absent, Directory} \/ file \in Files
  /\ fds \in [Calls -> SUBSET Rights]
  /\ pc \in [Calls -> {"idle", "opening", "open", "waiting", "closing", "closed", "threw"}]
  /\ asked \in [Calls -> Opening \cup Using \cup {NoRequest}]
  /\ sqe \in [Calls -> RingOpening \cup Using \cup {NoRequest}]
  /\ ret \in [Calls -> {0, 1} \cup {-e : e \in Errnos}]
  /\ unit \in [Calls -> Calls \cup {Zero}]

Init ==
  /\ file \in {Absent, Directory, <<>>, <<Zero>>}
  /\ fds = [c \in Calls |-> {}]
  /\ pc = [c \in Calls |-> "idle"]
  /\ asked = [c \in Calls |-> NoRequest]
  /\ sqe = [c \in Calls |-> NoRequest]
  /\ ret = [c \in Calls |-> 0]
  /\ unit = [c \in Calls |-> Zero]

Go(c, to) == pc' = [pc EXCEPT ![c] = to]

-----------------------------------------------------------------------------
\* Mutant of flag_conv: the access modes are or-ed together, and O_RDONLY is 0.
flag_conv_ors(flags) ==
  {o \in {"O_WRONLY"} : "F_WRITE" \in flags}
  \cup {o \in {"O_CREAT"} : "F_CREAT" \in flags} \cup {o \in {"O_EXCL"} : "F_EXCL" \in flags}
  \cup {o \in {"O_TRUNC"} : "F_TRUNC" \in flags}

\* O_RDONLY is 0, the absence of the others; F_EXLOCK is not looked at.
flag_conv(flags) ==
  {o \in {"O_RDWR"} : Rights \subseteq flags}
  \cup {o \in {"O_WRONLY"} : flags \cap Rights = {"F_WRITE"}}
  \cup {o \in {"O_CREAT"} : "F_CREAT" \in flags} \cup {o \in {"O_EXCL"} : "F_EXCL" \in flags}
  \cup {o \in {"O_TRUNC"} : "F_TRUNC" \in flags}

\* Block::open up to its co_await; flag_conv throws without a right to ask for.
Open(c) ==
  /\ pc[c] = "idle"
  /\ \E flags \in SUBSET Flag :
       IF flags \cap Rights = {}
         THEN Go(c, "threw") /\ UNCHANGED <<asked, sqe>>
         ELSE /\ Go(c, "opening")
              /\ asked' = [asked EXCEPT ![c] = [kind |-> "open", flags |-> flags]]
              /\ sqe' = [sqe EXCEPT ![c] = [kind |-> "open", flags |-> flag_conv(flags)]]
  /\ UNCHANGED <<file, fds, ret, unit>>

\* Mutant of Opened: descriptor 0 is taken for a failure.
OpenedPositive(c) == ret[c] > 0

Opened(c) == success(map_result(ret[c]))

\* The rest of open: a handle, or an exception.
ResumeOpen(c) ==
  /\ pc[c] = "opening" /\ sqe[c] = NoRequest
  /\ Go(c, IF Opened(c) THEN "open" ELSE "threw")
  /\ UNCHANGED <<file, fds, asked, sqe, ret, unit>>

\* read, write, sync and close pass descriptor and offset on as they are.
Use(c) ==
  /\ pc[c] = "open"
  /\ \E r \in Using :
       /\ Go(c, IF r.kind = "close" THEN "closing" ELSE "waiting")
       /\ asked' = [asked EXCEPT ![c] = r] /\ sqe' = [sqe EXCEPT ![c] = r]
  /\ UNCHANGED <<file, fds, ret, unit>>

Resume(c) ==
  /\ pc[c] \in {"waiting", "closing"} /\ sqe[c] = NoRequest
  /\ Go(c, IF pc[c] = "closing" THEN "closed" ELSE "open")
  /\ UNCHANGED <<file, fds, asked, sqe, ret, unit>>

-----------------------------------------------------------------------------
(* The kernel. *)

Answer(c, res) ==
  /\ asked' = [asked EXCEPT ![c] = NoRequest] /\ sqe' = [sqe EXCEPT ![c] = NoRequest]
  /\ ret' = [ret EXCEPT ![c] = res]

KernelOpen(c, o) ==
  /\ file = Absent => "O_CREAT" \in o
  /\ file # Absent => ~({"O_CREAT", "O_EXCL"} \subseteq o)
  /\ file = Directory => o \subseteq {"O_EXCL"}
  /\ file' = IF file = Absent \/ "O_TRUNC" \in o THEN <<>> ELSE file
  /\ fds' = [fds EXCEPT ![c] = IF "O_RDWR" \in o THEN Rights
                               ELSE IF "O_WRONLY" \in o THEN {"F_WRITE"} ELSE {"F_READ"}]
  /\ Answer(c, 0)
  /\ UNCHANGED unit

KernelRead(c, at) ==
  /\ "F_READ" \in fds[c] /\ file # Directory
  /\ LET units == UnitAt(file, at) IN
       /\ Answer(c, Len(units))
       /\ unit' = [unit EXCEPT ![c] = IF units = <<>> THEN Zero ELSE Head(units)]
  /\ UNCHANGED <<file, fds>>

KernelWrite(c, at) ==
  /\ "F_WRITE" \in fds[c]
  /\ file' = Put(file, at, c)
  /\ unit' = [unit EXCEPT ![c] = c]
  /\ Answer(c, 1)
  /\ UNCHANGED fds

KernelSync(c) == Answer(c, 0) /\ UNCHANGED <<file, fds, unit>>
KernelClose(c) == Answer(c, 0) /\ fds' = [fds EXCEPT ![c] = {}] /\ UNCHANGED <<file, unit>>
KernelFail(c) == (\E e \in Errnos : Answer(c, -e)) /\ UNCHANGED <<file, fds, unit>>

Kernel(c) ==
  LET r == sqe[c] IN
  /\ r # NoRequest
  /\ \/ r.kind = "open" /\ KernelOpen(c, r.flags)
     \/ r.kind = "read" /\ KernelRead(c, r.at)
     \/ r.kind = "write" /\ KernelWrite(c, r.at)
     \/ r.kind = "sync" /\ KernelSync(c)
     \/ r.kind = "close" /\ KernelClose(c)
     \/ r.kind # "close" /\ KernelFail(c)
  /\ UNCHANGED pc

Next == \E c \in Calls : Open(c) \/ ResumeOpen(c) \/ Use(c) \/ Resume(c) \/ Kernel(c)

Spec == Init /\ [][Next]_vars

-----------------------------------------------------------------------------
\* A descriptor in the kernel belongs to an open in progress or to a handle: an
\* open that threw and a handle that was closed leave none behind.
NoFdLeak == \A c \in Calls : fds[c] # {} => pc[c] \notin {"idle", "threw", "closed"}

(* The inductive invariant. *)

\* Where a call is, what it waits for and what descriptor the kernel holds for it
\* agree; an open whose answer waits has a descriptor just if it will succeed.
StageInv ==
  \A c \in Calls :
    /\ pc[c] \in {"idle", "threw", "closed"} => asked[c] = NoRequest /\ fds[c] = {}
    /\ pc[c] = "open" => asked[c] = NoRequest /\ fds[c] # {}
    /\ pc[c] = "opening" =>
         IF asked[c] = NoRequest THEN fds[c] # {} <=> Opened(c)
                                 ELSE asked[c] \in Opening /\ fds[c] = {}
    /\ pc[c] = "waiting" =>
         fds[c] # {} /\ (asked[c] # NoRequest => asked[c] \in Using /\ asked[c].kind # "close")
    /\ pc[c] = "closing" =>
         IF asked[c] = NoRequest THEN fds[c] = {}
                                 ELSE asked[c] = [kind |-> "close"] /\ fds[c] # {}

\* The ring holds what the caller asked for, in the kernel's terms.
RingInv ==
  \A c \in Calls :
    IF asked[c] \in Opening
      THEN /\ asked[c].flags \cap Rights # {}
           /\ sqe[c] = [kind |-> "open", flags |-> flag_conv(asked[c].flags)]
      ELSE sqe[c] = asked[c]

\* A descriptor stands for something, and one to write with for a file.
FileInv ==
  \A c \in Calls :
    /\ fds[c] # {} => file = Directory \/ file \in Files
    /\ "F_WRITE" \in fds[c] => file \in Files

IInv == TypeOK /\ StageInv /\ RingInv /\ FileInv

(* What the caller of an operation makes of the ring's answer. *)
Outcome(c) ==
  LET res == map_result(ret[c]) IN
  IF ~success(res) THEN Failed ELSE IF res = 0 THEN <<>> ELSE <<unit[c]>>

Abstract == INSTANCE BlockFile WITH
  handle <- fds,
  want <- asked,
  got <- [c \in Calls |-> Outcome(c)]

\* The file, every handle and every outcome are what the flags and offsets the
\* callers passed ask for, whichever order the kernel performs the operations in.
ImplementsBlockFile == Abstract!Spec

\* No step changes the file or a handle's rights that nobody asked to change it.
ChangesOnlyAsAsked == Abstract!OnlyAsAsked

=============================================================================
