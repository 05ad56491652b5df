------------------------------ MODULE LinuxTCP ------------------------------
(***************************************************************************)
(* The Linux5 TCP calls: acceptor_tcp, connect, AcceptorTCP::once, the     *)
(* transfers and close of a socket handle. Each call of acceptor_tcp,      *)
(* connect or once owns at most one descriptor and, if it succeeds, hands  *)
(* it to its caller in a handle. Calls run on different threads; the ring  *)
(* executes their operations asynchronously (AsyncIO is what it promises). *)
(*                                                                         *)
(* The socket a descriptor stands for is named by the call that created    *)
(* it. The kernel is external: descriptors are the lowest free numbers, an *)
(* operation keeps the socket it was issued on, and an operation waiting   *)
(* on a socket that is shut down ends.                                     *)
(*                                                                         *)
(* Callers obey what the interface asks: a handle's close is called once,  *)
(* no operation is started on it afterwards, and at most one transfer is   *)
(* in progress at a time.                                                  *)
(***************************************************************************)
EXTENDS LinuxErrors, Addresses, FiniteSets

CONSTANTS
  Listener,   \* the call of acceptor_tcp
  Connects,   \* calls of connect
  Accepts,    \* calls of once on the acceptor
  Fds,        \* descriptor numbers
  NoFd,
  Free,       \* the table entry of an unused descriptor
  Errnos,     \* errors system calls and ring operations fail with
  Asked,      \* the address and port acceptor_tcp and each connect are given
  Remotes,    \* socket addresses of the processes that connect to the acceptor
  NoAddr,
  NoPeer,
  NoStatus    \* nothing reported

EINVAL == 22

Calls == {Listener} \cup Connects \cup Accepts

ASSUME CallsAssumption ==
  /\ Listener \notin Connects \cup Accepts /\ Connects \cap Accepts = {}
  /\ Free \notin Calls
ASSUME FdsAssumption == Fds \subseteq Nat /\ NoFd \notin Fds
ASSUME ErrnosAssumption == Errnos \subseteq 1..MaxErrno /\ EINVAL \in Errnos
ASSUME AskedAssumption ==
  /\ Asked \in [{Listener} \cup Connects -> [ip : Address, port : Int]]
  /\ \A c \in {Listener} \cup Connects : Created(Asked[c].ip)
ASSUME RemotesAssumption == Remotes \subseteq SockAddr
ASSUME NoPeerAssumption == NoPeer \notin Endpoint
ASSUME NoStatusAssumption == NoStatus \notin 0..MaxErrno + 2

VARIABLES
  pc,        \* where each call, and then its handle, is
  fd,        \* `sock`, `res` or the handle's value
  errno,     \* errno of the thread the call's code runs on
  addr,      \* the socket address in each call's frame: `target`, `in` or `peer`
  peer,      \* Result.peer of each once
  fdtab,     \* the kernel's descriptor table
  shut,      \* sockets that were shut down
  far,       \* the endpoint each socket is bound (listener) or connected to
  inflight,  \* ring operations in the kernel
  answered,  \* completed ring operations their coroutine has not resumed from
  cause,     \* what really went wrong with each call, 0 for nothing (history)
  shown      \* the Status its caller got: thrown, or returned by close

addrVars == <<addr, peer, far>>
kernelVars == <<fdtab, shut>>
ringVars == <<inflight, answered>>
reportVars == <<errno, cause, shown>>
vars == <<pc, fd, addrVars, kernelVars, ringVars, reportVars>>

Kinds == {"connect", "accept", "transfer", "close"}
Stages == {"idle", "setsockopt", "bind", "listen", "error", "connect", "waiting",
           "open", "closing", "closed", "threw"}
Answers == {-e : e \in Errnos} \cup Fds \cup {0}

TypeOK ==
  /\ pc \in [Calls -> Stages]
  /\ fd \in [Calls -> Fds \cup {NoFd}]
  /\ errno \in [Calls -> Errnos \cup {0}]
  /\ addr \in [Calls -> SockAddr \cup {NoAddr}]
  /\ peer \in [Calls -> Endpoint \cup {NoPeer}] /\ far \in [Calls -> Endpoint \cup {NoPeer}]
  /\ fdtab \in [Fds -> Calls \cup {Free}]
  /\ shut \in SUBSET Calls
  /\ inflight \in SUBSET [by : Calls, kind : Kinds, file : Calls]
  /\ answered \in SUBSET [by : Calls, kind : Kinds, ret : Answers]
  /\ cause \in [Calls -> Errnos \cup {0}]
  /\ shown \in [Calls -> Statuses \cup {NoStatus}]

Init ==
  /\ pc = [c \in Calls |-> "idle"]
  /\ fd = [c \in Calls |-> NoFd]
  /\ errno = [c \in Calls |-> 0]
  /\ addr = [c \in Calls |-> NoAddr]
  /\ peer = [c \in Calls |-> NoPeer] /\ far = [c \in Calls |-> NoPeer]
  /\ fdtab = [f \in Fds |-> Free]
  /\ shut = {}
  /\ inflight = {}
  /\ answered = {}
  /\ cause = [c \in Calls |-> 0]
  /\ shown = [c \in Calls |-> NoStatus]

Go(c, to) == pc' = [pc EXCEPT ![c] = to]
Place(c, in) == addr' = [addr EXCEPT ![c] = in]
Reach(c, endpoint) == far' = [far EXCEPT ![c] = endpoint]
Unused == {f \in Fds : fdtab[f] = Free}
LowestUnused == CHOOSE f \in Unused : \A g \in Unused : f <= g
Issue(c, kind, file) ==
  inflight' = inflight \cup {[by |-> c, kind |-> kind, file |-> file]}
\* Resuming from an operation consumes its answer.
Take(c, kind, ret) ==
  /\ [by |-> c, kind |-> kind, ret |-> ret] \in answered
  /\ answered' = answered \ {[by |-> c, kind |-> kind, ret |-> ret]}
\* A system call of c fails, or throws what map_error makes of sys.
Fail(c, e) == errno' = [errno EXCEPT ![c] = e] /\ cause' = [cause EXCEPT ![c] = e]
Throw(c, status) == shown' = [shown EXCEPT ![c] = status] /\ Go(c, "threw")

-----------------------------------------------------------------------------
(* acceptor4, acceptor6, connect4 and connect6. *)

\* socket(2), the first thing each of them does.
Socket(c) ==
  /\ c \in {Listener} \cup Connects
  /\ pc[c] = "idle"
  /\ \/ /\ Unused # {}
        /\ fdtab' = [fdtab EXCEPT ![LowestUnused] = c]
        /\ fd' = [fd EXCEPT ![c] = LowestUnused]
        /\ IF c = Listener
             THEN Go(c, "setsockopt") /\ Place(c, to_os_ip(Asked[c].ip, Asked[c].port))
             ELSE Go(c, "connect") /\ UNCHANGED addr
        /\ UNCHANGED reportVars
     \/ /\ \E e \in Errnos : Fail(c, e) /\ Throw(c, map_error(e))
        /\ UNCHANGED <<fd, fdtab, addr>>
  /\ UNCHANGED <<peer, far, shut, ringVars>>

\* setsockopt, bind and listen, in this order; a failure goes to `error:`.
Following == [setsockopt |-> "bind", bind |-> "listen", listen |-> "open"]
Configure ==
  /\ pc[Listener] \in DOMAIN Following
  /\ \/ /\ Go(Listener, Following[pc[Listener]])
        /\ IF pc[Listener] = "bind" THEN Reach(Listener, Denotes(addr[Listener])) ELSE UNCHANGED far
        /\ UNCHANGED <<errno, cause>>
     \/ /\ Go(Listener, "error") /\ \E e \in Errnos : Fail(Listener, e)
        /\ UNCHANGED far
  /\ UNCHANGED <<fd, addr, peer, kernelVars, ringVars, shown>>

\* Mutant of CloseOnError: the sign the ring's results have is used for errno.
CloseOnErrorNegates ==
  /\ pc[Listener] = "error"
  /\ fdtab' = [fdtab EXCEPT ![fd[Listener]] = Free]
  /\ Throw(Listener, map_error(-errno[Listener]))
  /\ UNCHANGED <<fd, addrVars, shut, ringVars, errno, cause>>

\* close(sock), which leaves errno alone, and the throw at the end.
CloseOnError ==
  /\ pc[Listener] = "error"
  /\ fdtab' = [fdtab EXCEPT ![fd[Listener]] = Free]
  /\ Throw(Listener, map_error(errno[Listener]))
  /\ UNCHANGED <<fd, addrVars, shut, ringVars, errno, cause>>

StartConnect(c) ==
  /\ c \in Connects
  /\ pc[c] = "connect"
  /\ Place(c, to_os_ip(Asked[c].ip, Asked[c].port))
  /\ Issue(c, "connect", c)
  /\ Go(c, "waiting")
  /\ UNCHANGED <<fd, peer, far, kernelVars, answered, reportVars>>

\* Mutant of ResumeConnect: it throws without closing the descriptor.
ResumeConnectLeaks(c) ==
  /\ c \in Connects
  /\ pc[c] = "waiting"
  /\ \E ret \in Answers, stale \in Errnos \cup {0} :
       /\ Take(c, "connect", ret)
       /\ errno' = [errno EXCEPT ![c] = stale]
       /\ IF success(map_result(ret))
            THEN Go(c, "open") /\ UNCHANGED <<cause, shown>>
            ELSE cause' = [cause EXCEPT ![c] = -ret] /\ Throw(c, map_error(stale))
  /\ UNCHANGED <<fd, addrVars, fdtab, shut, inflight>>

\* Mutant of ResumeConnect: close(sock) runs on the way of success too.
ResumeConnectCloses(c) ==
  /\ c \in Connects
  /\ pc[c] = "waiting"
  /\ \E ret \in Answers, stale \in Errnos \cup {0} :
       /\ Take(c, "connect", ret)
       /\ errno' = [errno EXCEPT ![c] = stale]
       /\ IF success(map_result(ret))
            THEN Go(c, "open") /\ UNCHANGED <<cause, shown>>
            ELSE cause' = [cause EXCEPT ![c] = -ret] /\ Throw(c, map_error(stale))
  /\ fdtab' = [fdtab EXCEPT ![fd[c]] = Free]
  /\ UNCHANGED <<fd, addrVars, shut, inflight>>

\* The coroutine resumes on an executor thread, whose errno is whatever that
\* thread last left there; the ring reports no error through errno.
ResumeConnect(c) ==
  /\ c \in Connects
  /\ pc[c] = "waiting"
  /\ \E ret \in Answers, stale \in Errnos \cup {0} :
       /\ Take(c, "connect", ret)
       /\ errno' = [errno EXCEPT ![c] = stale]
       /\ IF success(map_result(ret))
            THEN Go(c, "open") /\ UNCHANGED <<fdtab, cause, shown>>
            ELSE /\ fdtab' = [fdtab EXCEPT ![fd[c]] = Free]
                 /\ cause' = [cause EXCEPT ![c] = -ret]
                 /\ Throw(c, map_error(stale))
  /\ UNCHANGED <<fd, addrVars, shut, inflight>>

-----------------------------------------------------------------------------
(* AcceptImpl4::once and AcceptImpl6::once. *)

StartAccept(a) ==
  /\ a \in Accepts
  /\ pc[a] = "idle" /\ pc[Listener] = "open"
  /\ Place(a, ZeroAddr(Asked[Listener].ip.mFamily))
  /\ Issue(a, "accept", fdtab[fd[Listener]])
  /\ Go(a, "waiting")
  /\ UNCHANGED <<fd, peer, far, kernelVars, answered, reportVars>>

\* Mutant of ResumeAccept: result() instead of get_result(), which throws.
ResumeAcceptUnchecked(a) ==
  /\ a \in Accepts
  /\ pc[a] = "waiting"
  /\ \E ret \in Answers :
       Take(a, "accept", ret) /\ fd' = [fd EXCEPT ![a] = map_result(ret)]
  /\ Go(a, "open")
  /\ UNCHANGED <<addrVars, kernelVars, inflight, reportVars>>

\* get_result throws the Status of a failed accept.
ResumeAccept(a) ==
  /\ a \in Accepts
  /\ pc[a] = "waiting"
  /\ \E ret \in Answers :
       /\ Take(a, "accept", ret)
       /\ IF success(map_result(ret))
            THEN /\ fd' = [fd EXCEPT ![a] = ret]
                 /\ peer' = [peer EXCEPT ![a] = from_os_ip(addr[a])]
                 /\ Go(a, "open")
                 /\ UNCHANGED <<cause, shown>>
            ELSE /\ cause' = [cause EXCEPT ![a] = -ret]
                 /\ Throw(a, error(map_result(ret)))
                 /\ UNCHANGED <<fd, peer>>
  /\ UNCHANGED <<addr, far, kernelVars, inflight, errno>>

-----------------------------------------------------------------------------
(* Transfers and close on an open handle. *)

Transferring(c) ==
  \/ \E r \in inflight : r.by = c /\ r.kind = "transfer"
  \/ \E r \in answered : r.by = c /\ r.kind = "transfer"

\* SocketTCP::read, write, readv or writev.
StartTransfer(c) ==
  /\ c \in Connects \cup Accepts
  /\ pc[c] = "open" /\ ~Transferring(c)
  /\ Issue(c, "transfer", fdtab[fd[c]])
  /\ UNCHANGED <<pc, fd, addrVars, kernelVars, answered, reportVars>>

\* The caller gets the IOResult, perhaps after it closed the handle.
ResumeTransfer(c) ==
  /\ \E ret \in Answers : Take(c, "transfer", ret)
  /\ UNCHANGED <<pc, fd, addrVars, kernelVars, inflight, reportVars>>

\* Mutant of Close: the descriptor is closed without a shutdown.
CloseOnly(c) ==
  /\ pc[c] = "open"
  /\ Issue(c, "close", c)
  /\ Go(c, "closing")
  /\ UNCHANGED <<fd, addrVars, fdtab, shut, answered, reportVars>>

\* SocketTCP::close and AcceptImpl::close: shut the socket down at once, then
\* leave closing the descriptor to the ring.
Close(c) ==
  /\ pc[c] = "open"
  /\ shut' = shut \cup {fdtab[fd[c]]}
  /\ Issue(c, "close", c)
  /\ Go(c, "closing")
  /\ UNCHANGED <<fd, addrVars, fdtab, answered, reportVars>>

\* The Status of a close is map_error of the ring's result.
ResumeClose(c) ==
  /\ pc[c] = "closing"
  /\ \E ret \in Answers :
       /\ Take(c, "close", ret)
       /\ shown' = [shown EXCEPT ![c] = map_error(ret)]
  /\ Go(c, "closed")
  /\ UNCHANGED <<fd, addrVars, kernelVars, inflight, errno, cause>>

-----------------------------------------------------------------------------
(* The kernel. *)

Answer(r, ret) ==
  /\ inflight' = inflight \ {r}
  /\ answered' = answered \cup {[by |-> r.by, kind |-> r.kind, ret |-> ret]}

KernelConnect(r) ==
  /\ r.kind = "connect"
  /\ \/ Answer(r, 0) /\ Reach(r.by, Denotes(addr[r.by]))
     \/ (\E e \in Errnos : Answer(r, -e)) /\ UNCHANGED far
  /\ UNCHANGED <<pc, fd, addr, peer, kernelVars, reportVars>>

\* A process of the acceptor's family may connect, whose socket address is written
\* where the operation says; a listener that is shut down refuses with EINVAL.
KernelAccept(r) ==
  /\ r.kind = "accept"
  /\ \/ /\ r.file \notin shut /\ Unused # {}
        /\ fdtab' = [fdtab EXCEPT ![LowestUnused] = r.by]
        /\ \E in \in {in \in Remotes : in.family = addr[r.by].family} :
             Place(r.by, in) /\ Reach(r.by, Denotes(in))
        /\ Answer(r, LowestUnused)
     \/ /\ \E e \in IF r.file \in shut THEN {EINVAL} ELSE Errnos : Answer(r, -e)
        /\ UNCHANGED <<fdtab, addr, far>>
  /\ UNCHANGED <<pc, fd, peer, shut, reportVars>>

\* A transfer ends with a count, of which only 0 is told apart here, or an error.
KernelTransfer(r) ==
  /\ r.kind = "transfer"
  /\ \E ret \in {0} \cup {-e : e \in Errnos} : Answer(r, ret)
  /\ UNCHANGED <<pc, fd, addrVars, kernelVars, reportVars>>

\* Closing frees the descriptor; a socket some operation still holds lives on.
KernelClose(r) ==
  /\ r.kind = "close"
  /\ fdtab' = [fdtab EXCEPT ![fd[r.by]] = Free]
  /\ Answer(r, 0)
  /\ UNCHANGED <<pc, fd, addrVars, shut, reportVars>>

Kernel(r) == KernelConnect(r) \/ KernelAccept(r) \/ KernelTransfer(r) \/ KernelClose(r)

-----------------------------------------------------------------------------
Start(c) ==
  Socket(c) \/ StartConnect(c) \/ StartAccept(c) \/ StartTransfer(c) \/ Close(c)
Resume(c) == ResumeConnect(c) \/ ResumeAccept(c) \/ ResumeTransfer(c) \/ ResumeClose(c)

Next ==
  \/ Configure \/ CloseOnError
  \/ \E c \in Calls : Start(c) \/ Resume(c)
  \/ \E r \in inflight : Kernel(r)

\* Executors resume coroutines whose operation completed. The kernel must carry
\* out a close and end what waits on a socket that is shut down, nothing else.
KernelEnds(c) ==
  \E r \in inflight : r.by = c /\ (r.kind = "close" \/ r.file \in shut) /\ Kernel(r)
Fairness == \A c \in Calls : WF_vars(Resume(c)) /\ WF_vars(KernelEnds(c))

Spec == Init /\ [][Next]_vars /\ Fairness

-----------------------------------------------------------------------------
(* Safety *)

\* Every open descriptor belongs to a call in progress or to a handle: a call
\* that threw, at whatever step, and a handle that was closed leave none behind.
NoFdLeak ==
  \A f \in Fds : fdtab[f] # Free =>
    LET c == fdtab[f] IN
    \/ fd[c] = f /\ pc[c] \notin {"idle", "closed", "threw"}
    \/ [by |-> c, kind |-> "accept", ret |-> f] \in answered

\* c's handle is usable, or its close has not been carried out yet.
HoldsFd(c) ==
  \/ pc[c] = "open"
  \/ pc[c] = "closing" /\ [by |-> c, kind |-> "close", file |-> c] \in inflight

\* Until the ring closes it, a handle's descriptor stands for the socket that was
\* made for it, although numbers are reused; no operation is issued on another.
OwnSocket ==
  /\ \A c \in Calls : HoldsFd(c) => fdtab[fd[c]] = c
  /\ \A r \in inflight : r.file = IF r.kind = "accept" THEN Listener ELSE r.by

\* acceptor_tcp throws the error of the step that failed, although it closes the
\* socket before it reads errno; and no call that failed throws IO_OK, whatever
\* errno its thread was left with.
FailureIsReported ==
  /\ pc[Listener] = "threw" => shown[Listener] = map_error(cause[Listener])
  /\ \A c \in Calls : pc[c] = "threw" => shown[c] \notin {IO_OK, NoStatus}

\* A once returns the endpoint of the very process its socket is connected to, and
\* connect and acceptor_tcp reach the one they were given, as far as 16 bits of
\* the port express it, whatever operations run meanwhile.
PeersAreTrue ==
  /\ \A a \in Accepts : pc[a] \in {"open", "closing", "closed"} => peer[a] = far[a]
  /\ \A c \in {Listener} \cup Connects :
       pc[c] = "open" => far[c] = [Asked[c] EXCEPT !.port = @ % 65536]

(* The inductive invariant. *)

\* An operation is the one its call's stage issues.
Belongs(o) ==
  /\ o.kind = "connect" => o.by \in Connects /\ pc[o.by] = "waiting"
  /\ o.kind = "accept" => o.by \in Accepts /\ pc[o.by] = "waiting"
  /\ o.kind = "transfer" => o.by \in Connects \cup Accepts /\ pc[o.by] \in {"open", "closing", "closed"}
  /\ o.kind = "close" => pc[o.by] = "closing"

\* A call has at most one operation of a kind.
SameOp(o, p) == o.by = p.by /\ o.kind = p.kind
OneOfAKind ==
  /\ \A o, p \in inflight : SameOp(o, p) => o = p
  /\ \A o, p \in answered : SameOp(o, p) => o = p
  /\ \A o \in inflight, p \in answered : ~SameOp(o, p)
OpInv ==
  /\ \A o \in inflight \cup answered : Belongs(o)
  /\ OneOfAKind
  /\ \A p \in answered : p.kind = "accept" /\ p.ret >= 0 => p.ret \in Fds

StageInv ==
  /\ \A c \in Connects \cup Accepts : pc[c] \notin {"setsockopt", "bind", "listen", "error"}
  /\ \A c \in {Listener} \cup Accepts : pc[c] # "connect"
  /\ pc[Listener] # "waiting"

\* The call has a descriptor of its own that nobody closed.
Holds(c) ==
  \/ pc[c] \in {"setsockopt", "bind", "listen", "error", "connect", "open"}
  \/ pc[c] = "waiting" /\ c \in Connects
  \/ HoldsFd(c)

\* The descriptor table holds those, and what the kernel accepted for a once that
\* did not resume yet.
FdInv ==
  /\ \A c \in Calls : Holds(c) => fd[c] \in Fds
  /\ \A f \in Fds, c \in Calls :
       fdtab[f] = c <=> \/ Holds(c) /\ fd[c] = f
                       \/ [by |-> c, kind |-> "accept", ret |-> f] \in answered

\* What each socket is bound or connected to, at every stage.
Target(c) == to_os_ip(Asked[c].ip, Asked[c].port)
AddrInv ==
  /\ pc[Listener] \in {"setsockopt", "bind"} => addr[Listener] = Target(Listener)
  /\ pc[Listener] \in {"listen", "open"} => far[Listener] = Denotes(Target(Listener))
  /\ \A c \in Connects :
       /\ pc[c] = "waiting" => addr[c] = Target(c)
       /\ pc[c] = "open" => far[c] = Denotes(Target(c))
  /\ \A p \in answered :
       p.kind \in {"connect", "accept"} /\ p.ret >= 0 => far[p.by] = Denotes(addr[p.by])
  /\ \A a \in Accepts : pc[a] \in {"open", "closing", "closed"} => peer[a] = far[a]

\* errno of the listener's thread survives until it is thrown.
ErrnoInv ==
  pc[Listener] = "error" => errno[Listener] = cause[Listener] /\ cause[Listener] # 0

IInv ==
  TypeOK /\ OpInv /\ StageInv /\ FdInv /\ OwnSocket /\ AddrInv /\ ErrnoInv /\ FailureIsReported

-----------------------------------------------------------------------------
(* The calls implement TCPCalls. *)

Pending == {"setsockopt", "bind", "listen", "error", "connect", "waiting"}
StageOf(c) == IF pc[c] \in Pending THEN "pending" ELSE pc[c]
Places == [c \in {Listener} \cup Connects |-> [Asked[c] EXCEPT !.port = @ % 65536]]
Visitors == {Denotes(in) : in \in {in \in Remotes : in.family = Asked[Listener].ip.mFamily}}
TCP == INSTANCE TCPCalls WITH
  Failures <- Statuses \ {IO_OK},
  stage <- [c \in Calls |-> StageOf(c)],
  told <- shown,
  busy <- {c \in Calls : Transferring(c)}

\* Descriptor numbers, frames, errno and operations that pend together do not show
\* to callers: each call reaches what it was to reach once, a success hands out a
\* socket that got there and a once names its far end, and a failure says it failed.
ImplementsTCPCalls == TCP!Spec

\* No socket is bound or connected before its call's operation is carried out, and a
\* pending once waits for processes of the acceptor's family.
ReachInv ==
  /\ \A c \in Calls : pc[c] \in {"idle", "setsockopt", "bind", "connect"} => far[c] = NoPeer
  /\ \A o \in inflight : o.kind \in {"connect", "accept"} => far[o.by] = NoPeer
  /\ \A a \in Accepts :
       pc[a] = "waiting" => addr[a] \in SockAddr /\ addr[a].family = Asked[Listener].ip.mFamily

-----------------------------------------------------------------------------
(* Liveness *)

\* Closing a handle ends what other coroutines wait for on it: a pending once
\* and a pending transfer return, and close itself does.
CloseEndsPending ==
  /\ \A a \in Accepts : (pc[Listener] = "closing" /\ pc[a] = "waiting") ~> pc[a] # "waiting"
  /\ \A c \in Connects \cup Accepts : (pc[c] = "closing") ~> ~Transferring(c)
  /\ \A c \in Calls : (pc[c] = "closing") ~> (pc[c] = "closed")

(* What Status.h and Status.cpp say of the codes, which this code does not do. *)

ECONNREFUSED == 111

\* Status.h on IO_ECONNREFUSED: a refused connect reports that code.
RefusedIsReported ==
  \A c \in Connects :
    pc[c] = "threw" /\ cause[c] = ECONNREFUSED => shown[c] = ECONNREFUSED

\* Status.h on IO_EINVAL: a failed once reports the code of its failure.
AcceptFailureIsReported ==
  \A a \in Accepts : pc[a] = "threw" /\ cause[a] = EINVAL => shown[a] = EINVAL

\* What it does instead: the ring's results are negative where map_error's cases are
\* positive, so no once tells which error it met, and every close that worked reports
\* an unknown failure.
ResultsLoseTheirCode ==
  /\ \A a \in Accepts : pc[a] = "threw" => shown[a] \in {IO_UNKNOWN, IO_EOF}
  /\ \A c \in Calls : pc[c] = "closed" => shown[c] = IO_UNKNOWN
CloseAnswers == \A p \in answered : p.kind = "close" => p.ret = 0

=============================================================================
