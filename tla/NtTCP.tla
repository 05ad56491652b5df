------------------------------- MODULE NtTCP -------------------------------
(***************************************************************************)
(* The NTOS TCP calls: acceptor_tcp, connect, AcceptorTCP::once, transfers *)
(* and close. Each call of acceptor_tcp, connect or once creates a socket, *)
(* guards it with RAII, and releases the guard when the socket goes to an  *)
(* AcceptImpl or a handle.                                                 *)
(*                                                                         *)
(* A socket is named by the call that created it. The system is external.  *)
(* How an overlapped call is answered, at once or by await_release, is     *)
(* Overlapped's matter: here it is issued and answered later with a code.  *)
(* Callers close a handle once and do not use it afterwards.               *)
(***************************************************************************)
EXTENDS NtErrors, Addresses

CONSTANTS
  Listener,   \* the call of acceptor_tcp
  Connects,   \* calls of connect
  Accepts,    \* calls of once on the acceptor
  Codes,      \* codes that system calls fail with
  Asked,      \* the address and port acceptor_tcp and each connect are given
  Remotes,    \* socket addresses of the processes that connect to the acceptor
  NoAddr,
  NoPeer,
  NoStatus    \* nothing reported

Calls == {Listener} \cup Connects \cup Accepts

ASSUME CallsAssumption ==
  Listener \notin Connects \cup Accepts /\ Connects \cap Accepts = {}
ASSUME CodesAssumption == Codes \subseteq Nat \ {SUCCESS}
ASSUME AskedAssumption ==
  /\ Asked \in [{Listener} \cup Connects -> [ip : Address, port : Int]]
  /\ \A c \in {Listener} \cup Connects : Created(Asked[c].ip)
ASSUME RemotesAssumption == Remotes \subseteq SockAddr
ASSUME NoPeerAssumption == NoPeer \notin Endpoint
ASSUME NoStatusAssumption == NoStatus \notin 0..MaxErrno + 2

VARIABLES
  pc,        \* where each call, and then its handle, is
  open,      \* sockets that exist
  armed,     \* sockets an RAII guard would close
  bound,     \* sockets whose completions run await_release
  addr,      \* the remote address of each call: `remote`, or what AcceptEx writes
  peer,      \* Result.peer of each once
  far,       \* the endpoint each socket is bound (listener) or connected to
  inflight,  \* overlapped calls the system has not answered
  answered,  \* answered ones their coroutine has not resumed from
  cause,     \* the code each call failed with (history)
  shown      \* the Status its caller got: thrown, or returned by close

socketVars == <<open, armed, bound>>
addrVars == <<addr, peer, far>>
callVars == <<inflight, answered>>
vars == <<pc, socketVars, addrVars, callVars, cause, shown>>

TypeOK ==
  /\ pc \in [Calls -> {"idle", "port", "bind", "listen", "extension", "call", "waiting",
                       "context", "open", "closing", "closed", "unwinding", "threw"}]
  /\ open \in SUBSET Calls /\ armed \in SUBSET Calls /\ bound \in SUBSET Calls
  /\ addr \in [Calls -> SockAddr \cup {NoAddr}]
  /\ peer \in [Calls -> Endpoint \cup {NoPeer}] /\ far \in [Calls -> Endpoint \cup {NoPeer}]
  /\ inflight \in SUBSET [by : Calls, on : Calls, kind : {"call", "transfer", "close"}]
  /\ answered \in SUBSET [by : Calls, kind : {"call", "transfer", "close"},
                          code : Codes \cup {SUCCESS}]
  /\ cause \in [Calls -> Codes \cup {SUCCESS}]
  /\ shown \in [Calls -> Statuses \cup {NoStatus}]

Init ==
  /\ pc = [c \in Calls |-> "idle"]
  /\ open = {} /\ armed = {} /\ bound = {}
  /\ addr = [c \in Calls |-> NoAddr]
  /\ peer = [c \in Calls |-> NoPeer] /\ far = [c \in Calls |-> NoPeer]
  /\ inflight = {} /\ answered = {}
  /\ cause = [c \in Calls |-> SUCCESS]
  /\ shown = [c \in Calls |-> NoStatus]

Target(c) == to_os_ip(Asked[c].ip, Asked[c].port)
Go(c, to) == pc' = [pc EXCEPT ![c] = to]
Proceed(c, to) == Go(c, to) /\ UNCHANGED <<cause, shown>>

\* Throwing exception_errc: the Status is computed, then the stack unwinds.
Throw(c, code) ==
  /\ cause' = [cause EXCEPT ![c] = code]
  /\ shown' = [shown EXCEPT ![c] = map_error(code)]
  /\ Go(c, "unwinding")

Issue(c, on, kind) == inflight' = inflight \cup {[by |-> c, on |-> on, kind |-> kind]}
Take(c, kind, code) ==
  /\ [by |-> c, kind |-> kind, code |-> code] \in answered
  /\ answered' = answered \ {[by |-> c, kind |-> kind, code |-> code]}

-----------------------------------------------------------------------------
(* acceptor_tcp, connect and once up to their overlapped call. *)

\* createSocket: WSASocketW and the guard. once needs an acceptor.
CreateSocket(c) ==
  /\ pc[c] = "idle"
  /\ c \in Accepts => pc[Listener] = "open"
  /\ \/ /\ open' = open \cup {c} /\ armed' = armed \cup {c}
        /\ Proceed(c, "port")
     \/ /\ \E code \in Codes : Throw(c, code)
        /\ UNCHANGED <<open, armed>>
  /\ UNCHANGED <<bound, addrVars, callVars>>

\* Mutant of Associate: the socket once accepts into is not bound.
AssociateNoAccept(c) ==
  /\ pc[c] = "port"
  /\ \/ /\ bound' = IF c \in Accepts THEN bound ELSE bound \cup {c}
        /\ Proceed(c, IF c \in Accepts THEN "call" ELSE "bind")
     \/ (\E code \in Codes : Throw(c, code)) /\ UNCHANGED bound
  /\ UNCHANGED <<open, armed, addrVars, callVars>>

\* IOCP::bind.
Associate(c) ==
  /\ pc[c] = "port"
  /\ \/ /\ bound' = bound \cup {c}
        /\ Proceed(c, IF c \in Accepts THEN "call" ELSE "bind")
     \/ (\E code \in Codes : Throw(c, code)) /\ UNCHANGED bound
  /\ UNCHANGED <<open, armed, addrVars, callVars>>

\* bind, to the listening address or to any. A failure in connectAdapt is the
\* immediate answer of the awaited call, which connect throws.
Bind(c) ==
  /\ pc[c] = "bind"
  /\ \/ IF c = Listener
          THEN far' = [far EXCEPT ![c] = Denotes(Target(c))] /\ Proceed(c, "listen")
          ELSE Proceed(c, "call") /\ UNCHANGED far
     \/ (\E code \in Codes : Throw(c, code)) /\ UNCHANGED far
  /\ UNCHANGED <<socketVars, addr, peer, callVars>>

\* listen; when it succeeds the AcceptImpl takes the socket from the guard.
Listen ==
  /\ pc[Listener] = "listen"
  /\ \/ armed' = armed \ {Listener} /\ Proceed(Listener, "extension")
     \/ (\E code \in Codes : Throw(Listener, code)) /\ UNCHANGED armed
  /\ UNCHANGED <<open, bound, addrVars, callVars>>

\* AcceptImpl::initialize: both WSAGetExtFn.
Initialize ==
  /\ pc[Listener] = "extension"
  /\ Proceed(Listener, "open") \/ \E code \in Codes : Throw(Listener, code)
  /\ UNCHANGED <<socketVars, addrVars, callVars>>

\* Leaving the function by an exception destroys the guard, if it is armed.
\* AcceptImpl has no destructor, and unique_ptr destroys only the object.
Unwind(c) ==
  /\ pc[c] = "unwinding"
  /\ open' = open \ (armed \cap {c}) /\ armed' = armed \ {c}
  /\ Proceed(c, "threw")
  /\ UNCHANGED <<bound, addrVars, callVars>>

-----------------------------------------------------------------------------
(* The overlapped calls: ConnectEx, AcceptEx, transfers and DisconnectEx. *)

\* ConnectEx is issued on the new socket, AcceptEx on the listening one with a
\* buffer in the coroutine's frame.
Call(c) ==
  /\ pc[c] = "call"
  /\ IF c \in Accepts
       THEN Issue(c, Listener, "call") /\ UNCHANGED addr
       ELSE Issue(c, c, "call") /\ addr' = [addr EXCEPT ![c] = Target(c)]
  /\ Proceed(c, "waiting")
  /\ UNCHANGED <<socketVars, peer, far, answered>>

\* Mutant of ResumeCall: the result of the awaited call is not looked at.
ResumeCallUnchecked(c) ==
  /\ pc[c] = "waiting"
  /\ \E code \in Codes \cup {SUCCESS} : Take(c, "call", code)
  /\ Proceed(c, "context")
  /\ UNCHANGED <<socketVars, addrVars, inflight>>

\* Mutant of ResumeCall: the thread's last error is thrown, not the result.
ResumeCallStale(c) ==
  /\ pc[c] = "waiting"
  /\ \E code, stale \in Codes \cup {SUCCESS} :
       /\ Take(c, "call", code)
       /\ IF map_error(code) = IO_OK
            THEN Proceed(c, "context")
            ELSE /\ cause' = [cause EXCEPT ![c] = code]
                 /\ shown' = [shown EXCEPT ![c] = map_error(stale)]
                 /\ Go(c, "unwinding")
  /\ UNCHANGED <<socketVars, addrVars, inflight>>

\* connect and once throw the Status they awaited unless it is IO_OK.
ResumeCall(c) ==
  /\ pc[c] = "waiting"
  /\ \E code \in Codes \cup {SUCCESS} :
       /\ Take(c, "call", code)
       /\ IF map_error(code) = IO_OK THEN Proceed(c, "context") ELSE Throw(c, code)
  /\ UNCHANGED <<socketVars, addrVars, inflight>>

\* Mutant of UpdateContext: get instead of reset, so that the guard closes the
\* socket when the function returns it.
UpdateContextGet(c) ==
  /\ pc[c] = "context"
  /\ \/ armed' = armed \ {c} /\ open' = open \ {c} /\ Proceed(c, "open")
     \/ (\E code \in Codes : Throw(c, code)) /\ UNCHANGED <<armed, open>>
  /\ UNCHANGED <<bound, addrVars, callVars>>

\* Mutant of UpdateContext: localAdr is copied in place of remoteAdr.
UpdateContextLocal(c) ==
  /\ pc[c] = "context"
  /\ \/ /\ armed' = armed \ {c}
        /\ peer' = IF c \in Accepts THEN [peer EXCEPT ![c] = far[Listener]] ELSE peer
        /\ Proceed(c, "open")
     \/ (\E code \in Codes : Throw(c, code)) /\ UNCHANGED <<armed, peer>>
  /\ UNCHANGED <<open, bound, addr, far, callVars>>

\* setsockopt SO_UPDATE_..._CONTEXT, then the handle takes the socket over; once
\* returns it with the address it copied out of the buffer.
UpdateContext(c) ==
  /\ pc[c] = "context"
  /\ \/ /\ armed' = armed \ {c}
        /\ peer' = IF c \in Accepts THEN [peer EXCEPT ![c] = from_os_ip(addr[c])] ELSE peer
        /\ Proceed(c, "open")
     \/ (\E code \in Codes : Throw(c, code)) /\ UNCHANGED <<armed, peer>>
  /\ UNCHANGED <<open, bound, addr, far, callVars>>

Transferring(c) == \E r \in inflight \cup answered : r.by = c /\ r.kind = "transfer"

\* SocketTCP::read, write, readv or writev; one at a time for each handle.
StartTransfer(c) ==
  /\ c \in Connects \cup Accepts
  /\ pc[c] = "open" /\ ~Transferring(c)
  /\ Issue(c, c, "transfer")
  /\ UNCHANGED <<pc, socketVars, addrVars, answered, cause, shown>>

ResumeTransfer(c) ==
  /\ \E code \in Codes \cup {SUCCESS} : Take(c, "transfer", code)
  /\ UNCHANGED <<pc, socketVars, addrVars, inflight, cause, shown>>

\* close of a handle or of the acceptor: shutdown, then DisconnectEx. Nothing
\* here or later calls closesocket.
Close(c) ==
  /\ pc[c] = "open"
  /\ Issue(c, c, "close")
  /\ Proceed(c, "closing")
  /\ UNCHANGED <<socketVars, addrVars, answered>>

ResumeClose(c) ==
  /\ pc[c] = "closing"
  /\ \E code \in Codes \cup {SUCCESS} :
       /\ Take(c, "close", code)
       /\ cause' = [cause EXCEPT ![c] = code]
       /\ shown' = [shown EXCEPT ![c] = map_error(code)]
  /\ Go(c, "closed")
  /\ UNCHANGED <<socketVars, addrVars, inflight>>

-----------------------------------------------------------------------------
\* The system answers with any code, but only a socket that is bound to the
\* completion callback ever delivers an answer.
Reply(r, code) ==
  /\ inflight' = inflight \ {r}
  /\ answered' = answered \cup {[by |-> r.by, kind |-> r.kind, code |-> code]}

\* ConnectEx reaches the address it was given; AcceptEx, a process of the
\* acceptor's family, whose socket address it writes to the buffer.
Reached(r) ==
  \/ r.kind # "call" /\ UNCHANGED <<addr, far>>
  \/ /\ r.kind = "call" /\ r.by \notin Accepts
     /\ far' = [far EXCEPT ![r.by] = Denotes(addr[r.by])] /\ UNCHANGED addr
  \/ /\ r.kind = "call" /\ r.by \in Accepts
     /\ \E in \in {in \in Remotes : in.family = Asked[Listener].ip.mFamily} :
          addr' = [addr EXCEPT ![r.by] = in] /\ far' = [far EXCEPT ![r.by] = Denotes(in)]

Answer(r) ==
  /\ r.on \in bound
  /\ \/ Reply(r, SUCCESS) /\ Reached(r)
     \/ (\E code \in Codes : Reply(r, code)) /\ UNCHANGED <<addr, far>>
  /\ UNCHANGED <<pc, socketVars, peer, cause, shown>>

-----------------------------------------------------------------------------
acceptor_tcp == Listen \/ Initialize
Start(c) == CreateSocket(c) \/ Associate(c) \/ Bind(c) \/ Call(c) \/ StartTransfer(c) \/ Close(c)
Resume(c) ==
  ResumeCall(c) \/ UpdateContext(c) \/ ResumeTransfer(c) \/ ResumeClose(c) \/ Unwind(c)

Next ==
  \/ acceptor_tcp
  \/ \E c \in Calls : Start(c) \/ Resume(c)
  \/ \E r \in inflight : Answer(r)

Spec == Init /\ [][Next]_vars

-----------------------------------------------------------------------------
(* Safety *)

Held == {"open", "closing", "closed"}

\* A connect or once that throws, at whichever step, leaves no socket behind. The
\* sockets without an owner are those the code never closes: of handles after
\* close, and of an acceptor whose initialize threw. And what a handle or an
\* acceptor holds is a socket that exists, with no guard left that would close it.
SocketsAreOwned ==
  /\ \A c \in open :
       \/ c \in armed /\ pc[c] # "threw"
       \/ pc[c] \in {"open", "closing", "closed"}
       \/ c = Listener /\ pc[c] \in {"extension", "unwinding", "threw"}
  /\ \A c \in Calls : pc[c] \in {"open", "closing"} => c \in open \ armed

\* Every overlapped call is on a socket that delivers completions: otherwise its
\* coroutine would wait for ever.
CompletionsAreDelivered ==
  /\ \A r \in inflight : r.on \in bound
  /\ \A c \in Calls : pc[c] \in {"open", "closing"} => c \in bound

\* Every call throws the Status of the failure that made it throw, and close
\* returns the Status of the DisconnectEx it awaited.
CauseIsShown ==
  \A c \in Calls :
    pc[c] \in {"threw", "closed"} => shown[c] = map_error(cause[c])

\* A once returns the endpoint of the very process its socket is connected to,
\* although several pend on one acceptor, and connect and acceptor_tcp reach the
\* one they were given, as far as 16 bits of the port express it.
PeersAreTrue ==
  /\ \A a \in Accepts : pc[a] \in Held => peer[a] = far[a]
  /\ \A c \in {Listener} \cup Connects :
       pc[c] \in Held => far[c] = [Asked[c] EXCEPT !.port = @ % 65536]

(* The inductive strengthening. *)

Guarded == {"port", "bind", "listen", "call", "waiting", "context"}
\* Where each call is tells who is responsible for its socket.
SocketInv ==
  \A c \in Calls :
    /\ pc[c] = "idle" => c \notin open
    /\ pc[c] \in Guarded => c \in armed
    /\ pc[c] \in {"extension"} \cup Held => c \in open \ armed
    /\ c \in armed => c \in open /\ pc[c] # "threw"
    /\ pc[c] \in {"unwinding", "threw"} /\ c \in open \ armed => c = Listener
    /\ pc[c] = "extension" => c = Listener

\* Every call past Associate has a bound socket, and a once has an acceptor.
BoundInv ==
  /\ \A c \in Calls :
       pc[c] \in (Guarded \ {"port"}) \cup {"extension"} \cup Held => c \in bound
  /\ \A a \in Accepts : pc[a] # "idle" => pc[Listener] \in Held

\* The Status is known from the throw on.
ShownInv ==
  \A c \in Calls :
    pc[c] \in {"unwinding", "threw", "closed"} => shown[c] = map_error(cause[c])

\* A call of ConnectEx or AcceptEx is the only one of its coroutine, which waits
\* for it.
WaitInv ==
  /\ pc[Listener] \notin {"call", "waiting", "context"}
  /\ \A r \in inflight : r.kind = "call" =>
       r.by # Listener /\ pc[r.by] = "waiting" /\ r.on = IF r.by \in Accepts THEN Listener ELSE r.by
  /\ \A p \in answered : p.kind = "call" => p.by # Listener /\ pc[p.by] = "waiting"
  /\ \A p, q \in answered : p.kind = "call" /\ q.kind = "call" /\ p.by = q.by => p = q
  /\ \A r \in inflight, p \in answered : r.kind = "call" /\ p.kind = "call" => r.by # p.by

\* What each socket is bound or connected to, at every stage.
AddrInv ==
  /\ pc[Listener] \in {"listen", "extension"} \cup Held => far[Listener] = Denotes(Target(Listener))
  /\ \A c \in Connects :
       /\ pc[c] = "waiting" => addr[c] = Target(c)
       /\ pc[c] \in {"context"} \cup Held => far[c] = Denotes(Target(c))
  /\ \A p \in answered : p.kind = "call" /\ p.code = SUCCESS => far[p.by] = Denotes(addr[p.by])
  /\ \A a \in Accepts :
       /\ pc[a] = "context" => far[a] = Denotes(addr[a])
       /\ pc[a] \in Held => peer[a] = far[a]

IInv ==
  TypeOK /\ SocketInv /\ BoundInv /\ CompletionsAreDelivered /\ ShownInv /\ WaitInv /\ AddrInv

-----------------------------------------------------------------------------
(* The calls implement TCPCalls. *)

Pending == Guarded \cup {"extension", "unwinding"}
StageOf(c) == IF pc[c] \in Pending THEN "pending" ELSE pc[c]
ToldOf(c) == IF pc[c] \in {"threw", "closed"} THEN shown[c] ELSE NoStatus
Places == [c \in {Listener} \cup Connects |-> [Asked[c] EXCEPT !.port = @ % 65536]]
Visitors == {Denotes(in) : in \in {in \in Remotes : in.family = Asked[Listener].ip.mFamily}}
TCP == INSTANCE TCPCalls WITH
  Failures <- Statuses \ {IO_OK},
  stage <- [c \in Calls |-> StageOf(c)],
  told <- [c \in Calls |-> ToldOf(c)],
  busy <- {c \in Calls : Transferring(c)}

\* Guards, extension functions and contexts do not show to callers: each call reaches
\* what it was to reach once, a success hands out a socket that got there and a once
\* names its far end, and a failure says it failed when the stack has unwound.
ImplementsTCPCalls == TCP!Spec

\* No socket is bound or connected before its call's operation is carried out; a call
\* unwinds because of a failure; and a handle has one transfer at a time, on itself.
ReachInv ==
  /\ \A c \in Calls : pc[c] \in {"idle", "port", "bind", "call"} => far[c] = NoPeer
  /\ \A r \in inflight : r.kind = "call" => far[r.by] = NoPeer
  /\ \A p \in answered : p.kind = "call" /\ p.code = SUCCESS => far[p.by] # NoPeer
  /\ \A c \in Calls : pc[c] = "context" => far[c] # NoPeer
  /\ \A c \in Calls : pc[c] = "unwinding" => cause[c] # SUCCESS
TransferInv ==
  /\ \A r \in inflight : r.kind = "transfer" => r.on = r.by
  /\ \A p, q \in answered : p.kind = "transfer" /\ q.kind = "transfer" /\ p.by = q.by => p = q
  /\ \A r \in inflight, p \in answered : r.kind = "transfer" /\ p.kind = "transfer" => r.by # p.by

=============================================================================
