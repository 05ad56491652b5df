---------------------------- MODULE NtTCPProofs ----------------------------
(* Proofs about NtTCP, for any number of calls of each kind and any codes. *)
EXTENDS NtTCP, TLAPS

USE DEF Go, Proceed, Throw, Issue, Take, socketVars, addrVars, callVars, Guarded, Held

(***************************************************************************)
(* Values.                                                                 *)
(***************************************************************************)

\* map_error answers one of the Statuses a caller can get, for every code, and
\* IO_OK for success alone.
LEMMA MapErrorType == \A sys : map_error(sys) \in Statuses
BY DEF map_error, Statuses

LEMMA OnlySuccessIsOk == \A sys : map_error(sys) = IO_OK <=> sys = SUCCESS
<1>1. \A sys \in DOMAIN Cases : Cases[sys] # IO_OK
  BY CasesAssumption, MaxErrnoAssumption DEF IO_OK, IO_EOF
<1> QED BY <1>1, MaxErrnoAssumption DEF map_error, IO_OK, IO_UNKNOWN

\* Swapping the octets of a port twice gives it back.
LEMMA SwapTwice ==
  ASSUME NEW n \in Uint16
  PROVE  Swap16(n) \in Uint16 /\ Swap16(Swap16(n)) = n
<1> USE DEF Uint16
<1> DEFINE q == n \div 256
           r == n % 256
           m == r * 256 + q
<1>1. q \in Byte /\ r \in Byte /\ n = q * 256 + r
  BY DEF Byte
<1>2. Swap16(n) = m
  BY DEF Swap16
<1> HIDE DEF q, r
<1>3. m \in Uint16 /\ m % 256 = q /\ m \div 256 = r
  BY <1>1 DEF Byte
<1> HIDE DEF m
<1>4. Swap16(m) = q * 256 + r
  BY <1>3 DEF Swap16
<1> QED BY <1>1, <1>2, <1>3, <1>4

\* The socket address made of an Address and a port denotes both, the port narrowed.
LEMMA ToDenotes ==
  ASSUME NEW ip, Created(ip), NEW port \in Int
  PROVE  /\ to_os_ip(ip, port) \in SockAddr
         /\ Denotes(to_os_ip(ip, port)) = [ip |-> ip, port |-> port % 65536]
<1> DEFINE n == port % 65536
<1>1. n \in Uint16
  BY DEF Uint16
<1>2. to_os_ip(ip, port) = [family |-> ip.mFamily, port |-> Swap16(n), addr |-> ip.mStorage]
  <2>1. ip \in Address /\ ip.mStorage = Create(ip.mFamily, ip.mStorage).mStorage
    BY DEF Created
  <2>2. ip.mStorage = [i \in 0..15 |-> IF i < Octets(ip.mFamily) THEN ip.mStorage[i] ELSE 0]
    BY <2>1 DEF Create
  <2> QED BY <2>2 DEF to_os_ip, htons
<1> HIDE DEF n
<1>3. Swap16(n) \in Uint16 /\ Swap16(Swap16(n)) = n
  BY <1>1, SwapTwice
<1>4. ip.mFamily \in Family /\ ip.mStorage \in [0..15 -> Byte] /\ Create(ip.mFamily, ip.mStorage) = ip
  BY DEF Created, Address
<1>5. Denotes(to_os_ip(ip, port)) = [ip |-> ip, port |-> Swap16(Swap16(n))]
  BY <1>2, <1>4 DEF Denotes, Swap16
<1> QED BY <1>2, <1>3, <1>4, <1>5 DEF SockAddr, n

\* What a peer's socket address denotes is the endpoint once makes of it.
LEMMA FromDenotes ==
  ASSUME NEW s \in SockAddr
  PROVE  from_os_ip(s) = Denotes(s) /\ Denotes(s) \in Endpoint
<1>1. from_os_ip(s) = Denotes(s)
  BY DEF from_os_ip, Denotes, ntohs, Swap16
<1>2. s.port \in Uint16 /\ s.family \in Family /\ s.addr \in [0..15 -> Byte]
  BY DEF SockAddr
<1>3. Create(s.family, s.addr) \in Address
  BY <1>2 DEF Create, Address, Byte
<1>4. Swap16(s.port) \in Uint16
  BY <1>2, SwapTwice
<1> QED BY <1>1, <1>3, <1>4 DEF Denotes, Endpoint, Swap16

\* What each call asks for is a socket address, which denotes what it was given.
LEMMA Targets ==
  ASSUME NEW c \in {Listener} \cup Connects
  PROVE  /\ Target(c) \in SockAddr /\ Denotes(Target(c)) \in Endpoint
         /\ Denotes(Target(c)) = [Asked[c] EXCEPT !.port = @ % 65536]
<1>1. Asked[c] \in [ip : Address, port : Int] /\ Created(Asked[c].ip)
  BY AskedAssumption
<1>2. Asked[c].port \in Int /\ Asked[c] = [ip |-> Asked[c].ip, port |-> Asked[c].port]
  BY <1>1
<1>3. Target(c) \in SockAddr /\ Denotes(Target(c)) = [ip |-> Asked[c].ip, port |-> Asked[c].port % 65536]
  BY <1>1, <1>2, ToDenotes DEF Target
<1>4. [Asked[c] EXCEPT !.port = @ % 65536] = [ip |-> Asked[c].ip, port |-> Asked[c].port % 65536]
  BY <1>2
<1> QED BY <1>3, <1>4, FromDenotes

(***************************************************************************)
(* IInv is inductive: one lemma per action, one step per conjunct.         *)
(***************************************************************************)

\* Creating a socket preserves the invariant.
LEMMA CreateSocketInv ==
  ASSUME IInv, NEW c \in Calls, CreateSocket(c)
  PROVE  IInv'
<1> USE DEF IInv, CreateSocket
<1>1. TypeOK'
  BY MapErrorType DEF TypeOK, Calls
<1>2. SocketInv'
  BY CallsAssumption DEF TypeOK, SocketInv, Calls
<1>3. BoundInv'
  BY CallsAssumption DEF TypeOK, BoundInv, Calls
<1>4. CompletionsAreDelivered'
  BY CallsAssumption DEF TypeOK, BoundInv, CompletionsAreDelivered, Calls
<1>5. ShownInv'
  BY DEF TypeOK, ShownInv, Calls
<1>6. WaitInv'
  BY CallsAssumption DEF TypeOK, WaitInv, Calls
<1>7. AddrInv'
  BY CallsAssumption DEF TypeOK, AddrInv, Calls
<1> QED BY <1>1, <1>2, <1>3, <1>4, <1>5, <1>6, <1>7

\* Binding to the completion callback preserves the invariant.
LEMMA AssociateInv ==
  ASSUME IInv, NEW c \in Calls, Associate(c)
  PROVE  IInv'
<1> USE DEF IInv, Associate
<1>1. TypeOK'
  BY MapErrorType DEF TypeOK, Calls
<1>2. SocketInv'
  BY CallsAssumption DEF TypeOK, SocketInv, Calls
<1>3. BoundInv'
  BY CallsAssumption DEF TypeOK, BoundInv, Calls
<1>4. CompletionsAreDelivered'
  BY CallsAssumption DEF TypeOK, BoundInv, CompletionsAreDelivered, Calls
<1>5. ShownInv'
  BY DEF TypeOK, ShownInv, Calls
<1>6. WaitInv'
  BY CallsAssumption DEF TypeOK, WaitInv, Calls
<1>7. AddrInv'
  BY CallsAssumption DEF TypeOK, AddrInv, Calls
<1> QED BY <1>1, <1>2, <1>3, <1>4, <1>5, <1>6, <1>7

\* Binding an address preserves the invariant.
LEMMA BindInv ==
  ASSUME IInv, NEW c \in Calls, Bind(c)
  PROVE  IInv'
<1> USE DEF IInv, Bind
<1>1. TypeOK'
  <2>1. Denotes(Target(Listener)) \in Endpoint
    BY Targets
  <2> QED BY <2>1, MapErrorType DEF TypeOK, Calls
<1>2. SocketInv'
  BY CallsAssumption DEF TypeOK, SocketInv, Calls
<1>3. BoundInv'
  BY CallsAssumption DEF TypeOK, BoundInv, Calls
<1>4. CompletionsAreDelivered'
  BY CallsAssumption DEF TypeOK, BoundInv, CompletionsAreDelivered, Calls
<1>5. ShownInv'
  BY DEF TypeOK, ShownInv, Calls
<1>6. WaitInv'
  BY CallsAssumption DEF TypeOK, WaitInv, Calls
<1>7. AddrInv'
  <2>1. /\ \A d \in Calls : d # Listener => far'[d] = far[d]
        /\ UNCHANGED <<addr, peer, answered>>
        /\ DOMAIN pc = Calls /\ DOMAIN far = Calls /\ Listener \in Calls
    BY DEF TypeOK, Calls
  <2>0. pc'[Listener] \in {"listen", "extension"} \cup Held => far'[Listener] = Denotes(Target(Listener))
    <3>1. CASE c = Listener
      BY <2>1, <3>1
    <3>2. CASE c # Listener
      BY <2>1, <3>2 DEF AddrInv
    <3> QED BY <3>1, <3>2
  <2>2. \A d \in Connects \cup Accepts : pc'[d] = pc[d] \/ pc'[d] \in {"listen", "call", "unwinding"}
    BY DEF TypeOK, Calls
  <2>3. \A p \in answered : p.kind = "call" => p.by \in Calls /\ p.by # Listener
    BY DEF TypeOK, WaitInv
  <2>4. \A p \in answered' : p.kind = "call" /\ p.code = SUCCESS => far'[p.by] = Denotes(addr'[p.by])
    BY <2>1, <2>3 DEF AddrInv
  <2>5. \A d \in Connects \cup Accepts : d \in Calls /\ d # Listener
    BY CallsAssumption DEF Calls
  <2> HIDE DEF Bind
  <2> QED BY <2>0, <2>1, <2>2, <2>4, <2>5 DEF AddrInv, Target
<1> QED BY <1>1, <1>2, <1>3, <1>4, <1>5, <1>6, <1>7

\* Listening preserves the invariant.
LEMMA ListenInv ==
  ASSUME IInv, Listen
  PROVE  IInv'
<1> USE DEF IInv, Listen
<1>1. TypeOK'
  BY MapErrorType DEF TypeOK, Calls
<1>2. SocketInv'
  BY CallsAssumption DEF TypeOK, SocketInv, Calls
<1>3. BoundInv'
  BY CallsAssumption DEF TypeOK, BoundInv, Calls
<1>4. CompletionsAreDelivered'
  BY CallsAssumption DEF TypeOK, BoundInv, CompletionsAreDelivered, Calls
<1>5. ShownInv'
  BY DEF TypeOK, ShownInv, Calls
<1>6. WaitInv'
  BY CallsAssumption DEF TypeOK, WaitInv, Calls
<1>7. AddrInv'
  BY CallsAssumption DEF TypeOK, AddrInv, Calls
<1> QED BY <1>1, <1>2, <1>3, <1>4, <1>5, <1>6, <1>7

\* Initialising the acceptor preserves the invariant.
LEMMA InitializeInv ==
  ASSUME IInv, Initialize
  PROVE  IInv'
<1> USE DEF IInv, Initialize
<1>1. TypeOK'
  BY MapErrorType DEF TypeOK, Calls
<1>2. SocketInv'
  BY CallsAssumption DEF TypeOK, SocketInv, Calls
<1>3. BoundInv'
  BY CallsAssumption DEF TypeOK, BoundInv, Calls
<1>4. CompletionsAreDelivered'
  BY CallsAssumption DEF TypeOK, BoundInv, CompletionsAreDelivered, Calls
<1>5. ShownInv'
  BY DEF TypeOK, ShownInv, Calls
<1>6. WaitInv'
  BY CallsAssumption DEF TypeOK, WaitInv, Calls
<1>7. AddrInv'
  BY CallsAssumption DEF TypeOK, AddrInv, Calls
<1> QED BY <1>1, <1>2, <1>3, <1>4, <1>5, <1>6, <1>7

\* Unwinding preserves the invariant.
LEMMA UnwindInv ==
  ASSUME IInv, NEW c \in Calls, Unwind(c)
  PROVE  IInv'
<1> USE DEF IInv, Unwind
<1>1. TypeOK'
  BY MapErrorType DEF TypeOK, Calls
<1>2. SocketInv'
  BY CallsAssumption DEF TypeOK, SocketInv, Calls
<1>3. BoundInv'
  BY CallsAssumption DEF TypeOK, BoundInv, Calls
<1>4. CompletionsAreDelivered'
  BY CallsAssumption DEF TypeOK, BoundInv, CompletionsAreDelivered, Calls
<1>5. ShownInv'
  BY DEF TypeOK, ShownInv, Calls
<1>6. WaitInv'
  BY CallsAssumption DEF TypeOK, WaitInv, Calls
<1>7. AddrInv'
  BY CallsAssumption DEF TypeOK, AddrInv, Calls
<1> QED BY <1>1, <1>2, <1>3, <1>4, <1>5, <1>6, <1>7

\* Issuing ConnectEx or AcceptEx preserves the invariant.
LEMMA CallInv ==
  ASSUME IInv, NEW c \in Calls, Call(c)
  PROVE  IInv'
<1> USE DEF IInv, Call
<1>0. c \in Connects \cup Accepts /\ c # Listener /\ pc[c] = "call"
  BY CallsAssumption DEF WaitInv, Calls
<1>1. TypeOK'
  <2>1. c \notin Accepts => Target(c) \in SockAddr
    BY <1>0, Targets
  <2> QED BY <1>0, <2>1, MapErrorType DEF TypeOK, Calls
<1>2. SocketInv'
  BY CallsAssumption DEF TypeOK, SocketInv, Calls
<1>3. BoundInv'
  BY CallsAssumption DEF TypeOK, BoundInv, Calls
<1>4. CompletionsAreDelivered'
  BY CallsAssumption DEF TypeOK, BoundInv, CompletionsAreDelivered, Calls
<1>5. ShownInv'
  BY DEF TypeOK, ShownInv, Calls
<1>6. WaitInv'
  <2>1. \A o \in inflight \cup answered : o.kind = "call" => o.by # c
    BY <1>0 DEF WaitInv
  <2>2. \A r \in inflight' : r \in inflight
                            \/ (r.by = c /\ r.kind = "call" /\ r.on = IF c \in Accepts THEN Listener ELSE c)
    <3> DEFINE n == [by |-> c, on |-> IF c \in Accepts THEN Listener ELSE c, kind |-> "call"]
    <3>1. inflight' = inflight \cup {n} /\ n.by = c /\ n.kind = "call"
          /\ n.on = IF c \in Accepts THEN Listener ELSE c
      OBVIOUS
    <3> HIDE DEF n
    <3> QED BY <3>1
  <2>3. /\ pc' = [pc EXCEPT ![c] = "waiting"] /\ UNCHANGED answered
        /\ \A o \in inflight \cup answered : o.by \in Calls
        /\ DOMAIN pc = Calls /\ Listener \in Calls
    BY DEF TypeOK, Calls
  <2> HIDE DEF Call
  <2> QED BY <1>0, <2>1, <2>2, <2>3 DEF WaitInv
<1>7. AddrInv'
  <2>1. /\ pc' = [pc EXCEPT ![c] = "waiting"] /\ UNCHANGED <<answered, peer, far>>
        /\ DOMAIN pc = Calls /\ DOMAIN addr = Calls /\ Connects \cup Accepts \cup {Listener} \subseteq Calls
        /\ addr' = IF c \in Accepts THEN addr ELSE [addr EXCEPT ![c] = Target(c)]
    BY DEF TypeOK, Calls
  <2>2. \A p \in answered : p.kind = "call" => p.by # c /\ p.by \in Calls
    BY <1>0 DEF WaitInv, TypeOK
  <2>3. \A p \in answered : p.kind = "call" => addr'[p.by] = addr[p.by]
    BY <2>1, <2>2
  <2> HIDE DEF Call
  <2> QED BY <1>0, <2>1, <2>3, CallsAssumption DEF AddrInv, Target
<1> QED BY <1>1, <1>2, <1>3, <1>4, <1>5, <1>6, <1>7

\* Resuming from ConnectEx or AcceptEx preserves the invariant.
LEMMA ResumeCallInv ==
  ASSUME IInv, NEW c \in Calls, ResumeCall(c)
  PROVE  IInv'
<1> USE DEF IInv, ResumeCall
<1>1. TypeOK'
  BY MapErrorType DEF TypeOK, Calls
<1>2. SocketInv'
  BY CallsAssumption DEF TypeOK, SocketInv, Calls
<1>3. BoundInv'
  BY CallsAssumption DEF TypeOK, BoundInv, Calls
<1>4. CompletionsAreDelivered'
  BY CallsAssumption DEF TypeOK, BoundInv, CompletionsAreDelivered, Calls
<1>5. ShownInv'
  BY DEF TypeOK, ShownInv, Calls
<1>6. WaitInv'
  BY CallsAssumption DEF TypeOK, WaitInv, Calls
<1>7. AddrInv'
  <2>1. PICK code \in Codes \cup {SUCCESS} :
          /\ Take(c, "call", code)
          /\ IF map_error(code) = IO_OK THEN Proceed(c, "context") ELSE Throw(c, code)
    OBVIOUS
  <2>2. /\ pc[c] = "waiting" /\ UNCHANGED <<addr, peer, far>> /\ answered' \subseteq answered
        /\ DOMAIN pc = Calls /\ Connects \cup Accepts \cup {Listener} \subseteq Calls
        /\ c # Listener
    BY <2>1 DEF TypeOK, Calls, WaitInv
  <2>3. map_error(code) = IO_OK => far[c] = Denotes(addr[c])
    <3> DEFINE p == [by |-> c, kind |-> "call", code |-> code]
    <3>1. p \in answered /\ p.by = c /\ p.kind = "call" /\ p.code = code
      BY <2>1
    <3> HIDE DEF p
    <3> QED BY <3>1, OnlySuccessIsOk DEF AddrInv
  <2>4. c \in Connects => addr[c] = Target(c)
    BY <2>2 DEF AddrInv
  <2>5. pc' = [pc EXCEPT ![c] = "unwinding"] \/ (pc' = [pc EXCEPT ![c] = "context"] /\ far[c] = Denotes(addr[c]))
    BY <2>1, <2>3
  <2> HIDE DEF ResumeCall
  <2> QED BY <2>2, <2>4, <2>5 DEF AddrInv, Target
<1> QED BY <1>1, <1>2, <1>3, <1>4, <1>5, <1>6, <1>7

\* Handing the socket over preserves the invariant.
LEMMA UpdateContextInv ==
  ASSUME IInv, NEW c \in Calls, UpdateContext(c)
  PROVE  IInv'
<1> USE DEF IInv, UpdateContext
<1>0. c \in Accepts => from_os_ip(addr[c]) = far[c]
  BY DEF AddrInv, from_os_ip, Denotes, ntohs, Swap16
<1>1. TypeOK'
  BY <1>0, MapErrorType DEF TypeOK, Calls
<1>2. SocketInv'
  BY CallsAssumption DEF TypeOK, SocketInv, Calls
<1>3. BoundInv'
  BY CallsAssumption DEF TypeOK, BoundInv, Calls
<1>4. CompletionsAreDelivered'
  BY CallsAssumption DEF TypeOK, BoundInv, CompletionsAreDelivered, Calls
<1>5. ShownInv'
  BY DEF TypeOK, ShownInv, Calls
<1>6. WaitInv'
  BY CallsAssumption DEF TypeOK, WaitInv, Calls
<1>7. AddrInv'
  <2>1. /\ pc[c] = "context" /\ UNCHANGED <<addr, far, answered>> /\ c # Listener
        /\ DOMAIN pc = Calls /\ DOMAIN peer = Calls /\ Connects \cup Accepts \cup {Listener} \subseteq Calls
    BY DEF TypeOK, Calls, WaitInv
  <2>2. \/ pc' = [pc EXCEPT ![c] = "unwinding"] /\ UNCHANGED peer
        \/ /\ pc' = [pc EXCEPT ![c] = "open"]
           /\ peer' = IF c \in Accepts THEN [peer EXCEPT ![c] = far[c]] ELSE peer
    BY <1>0
  <2>3. \A d \in Calls : d # c => pc'[d] = pc[d] /\ peer'[d] = peer[d]
    BY <2>1, <2>2
  <2>4. pc'[c] = "unwinding" \/ (pc'[c] = "open" /\ (c \in Accepts => peer'[c] = far[c]))
    BY <2>1, <2>2
  <2> HIDE DEF UpdateContext
  <2> QED BY <2>1, <2>3, <2>4, CallsAssumption DEF AddrInv, Target
<1> QED BY <1>1, <1>2, <1>3, <1>4, <1>5, <1>6, <1>7

\* Starting a transfer preserves the invariant.
LEMMA StartTransferInv ==
  ASSUME IInv, NEW c \in Calls, StartTransfer(c)
  PROVE  IInv'
<1> USE DEF IInv, StartTransfer
<1>1. TypeOK'
  BY MapErrorType DEF TypeOK, Calls
<1>2. SocketInv'
  BY CallsAssumption DEF TypeOK, SocketInv, Calls
<1>3. BoundInv'
  BY CallsAssumption DEF TypeOK, BoundInv, Calls
<1>4. CompletionsAreDelivered'
  BY CallsAssumption DEF TypeOK, BoundInv, CompletionsAreDelivered, Calls
<1>5. ShownInv'
  BY DEF TypeOK, ShownInv, Calls
<1>6. WaitInv'
  BY CallsAssumption DEF TypeOK, WaitInv, Calls
<1>7. AddrInv'
  BY CallsAssumption DEF TypeOK, AddrInv, Calls
<1> QED BY <1>1, <1>2, <1>3, <1>4, <1>5, <1>6, <1>7

\* Resuming from a transfer preserves the invariant.
LEMMA ResumeTransferInv ==
  ASSUME IInv, NEW c \in Calls, ResumeTransfer(c)
  PROVE  IInv'
<1> USE DEF IInv, ResumeTransfer
<1>1. TypeOK'
  BY MapErrorType DEF TypeOK, Calls
<1>2. SocketInv'
  BY CallsAssumption DEF TypeOK, SocketInv, Calls
<1>3. BoundInv'
  BY CallsAssumption DEF TypeOK, BoundInv, Calls
<1>4. CompletionsAreDelivered'
  BY CallsAssumption DEF TypeOK, BoundInv, CompletionsAreDelivered, Calls
<1>5. ShownInv'
  BY DEF TypeOK, ShownInv, Calls
<1>6. WaitInv'
  BY CallsAssumption DEF TypeOK, WaitInv, Calls
<1>7. AddrInv'
  BY CallsAssumption DEF TypeOK, AddrInv, Calls
<1> QED BY <1>1, <1>2, <1>3, <1>4, <1>5, <1>6, <1>7

\* Closing preserves the invariant.
LEMMA CloseInv ==
  ASSUME IInv, NEW c \in Calls, Close(c)
  PROVE  IInv'
<1> USE DEF IInv, Close
<1>1. TypeOK'
  BY MapErrorType DEF TypeOK, Calls
<1>2. SocketInv'
  BY CallsAssumption DEF TypeOK, SocketInv, Calls
<1>3. BoundInv'
  BY CallsAssumption DEF TypeOK, BoundInv, Calls
<1>4. CompletionsAreDelivered'
  BY CallsAssumption DEF TypeOK, BoundInv, CompletionsAreDelivered, Calls
<1>5. ShownInv'
  BY DEF TypeOK, ShownInv, Calls
<1>6. WaitInv'
  BY CallsAssumption DEF TypeOK, WaitInv, Calls
<1>7. AddrInv'
  BY CallsAssumption DEF TypeOK, AddrInv, Calls
<1> QED BY <1>1, <1>2, <1>3, <1>4, <1>5, <1>6, <1>7

\* Resuming from DisconnectEx preserves the invariant.
LEMMA ResumeCloseInv ==
  ASSUME IInv, NEW c \in Calls, ResumeClose(c)
  PROVE  IInv'
<1> USE DEF IInv, ResumeClose
<1>1. TypeOK'
  BY MapErrorType DEF TypeOK, Calls
<1>2. SocketInv'
  BY CallsAssumption DEF TypeOK, SocketInv, Calls
<1>3. BoundInv'
  BY CallsAssumption DEF TypeOK, BoundInv, Calls
<1>4. CompletionsAreDelivered'
  BY CallsAssumption DEF TypeOK, BoundInv, CompletionsAreDelivered, Calls
<1>5. ShownInv'
  BY DEF TypeOK, ShownInv, Calls
<1>6. WaitInv'
  BY CallsAssumption DEF TypeOK, WaitInv, Calls
<1>7. AddrInv'
  BY CallsAssumption DEF TypeOK, AddrInv, Calls
<1> QED BY <1>1, <1>2, <1>3, <1>4, <1>5, <1>6, <1>7

\* The system's answer preserves the invariant.
LEMMA AnswerInv ==
  ASSUME IInv, NEW r \in inflight, Answer(r)
  PROVE  IInv'
<1> USE DEF IInv
<1> DEFINE c == r.by
<1>0. /\ UNCHANGED <<pc, open, armed, bound, peer, cause, shown>>
      /\ c \in Calls /\ r.kind \in {"call", "transfer", "close"}
      /\ r.kind = "call" => c \in Connects \cup Accepts /\ c # Listener /\ pc[c] = "waiting"
      /\ DOMAIN addr = Calls /\ DOMAIN far = Calls /\ Connects \cup Accepts \cup {Listener} \subseteq Calls
  BY DEF Answer, TypeOK, WaitInv, Calls
<1>1. PICK code \in Codes \cup {SUCCESS} :
        /\ Reply(r, code)
        /\ \/ code = SUCCESS /\ Reached(r)
           \/ code # SUCCESS /\ UNCHANGED <<addr, far>>
  BY CodesAssumption DEF Answer
<1> DEFINE n == [by |-> c, kind |-> r.kind, code |-> code]
<1>2. /\ inflight' = inflight \ {r} /\ answered' = answered \cup {n}
      /\ n \in [by : Calls, kind : {"call", "transfer", "close"}, code : Codes \cup {SUCCESS}]
      /\ n.by = c /\ n.kind = r.kind /\ n.code = code
  BY <1>0, <1>1 DEF Reply
<1> HIDE DEF n
<1>3. /\ r.kind # "call" => UNCHANGED <<addr, far>>
      /\ \A d \in Calls : d # c => addr'[d] = addr[d] /\ far'[d] = far[d]
      /\ r.kind = "call" /\ code = SUCCESS => far'[c] = Denotes(addr'[c])
      /\ c \notin Accepts => addr' = addr
      /\ addr' \in [Calls -> SockAddr \cup {NoAddr}] /\ far' \in [Calls -> Endpoint \cup {NoPeer}]
  <2>1. CASE UNCHANGED <<addr, far>> /\ (r.kind = "call" => code # SUCCESS)
    BY <2>1 DEF TypeOK
  <2>2. CASE r.kind = "call" /\ c \notin Accepts /\ far' = [far EXCEPT ![c] = Denotes(addr[c])] /\ UNCHANGED addr
    <3>1. c \in Connects
      BY <1>0, <2>2
    <3>2. addr[c] = Target(c)
      BY <1>0, <2>2, <3>1 DEF AddrInv
    <3>3. Denotes(addr[c]) \in Endpoint
      BY <3>1, <3>2, Targets
    <3> QED BY <1>0, <2>2, <3>3 DEF TypeOK
  <2>3. ASSUME r.kind = "call", c \in Accepts, NEW s \in Remotes,
               addr' = [addr EXCEPT ![c] = s], far' = [far EXCEPT ![c] = Denotes(s)]
        PROVE  /\ \A d \in Calls : d # c => addr'[d] = addr[d] /\ far'[d] = far[d]
               /\ far'[c] = Denotes(addr'[c])
               /\ addr' \in [Calls -> SockAddr \cup {NoAddr}] /\ far' \in [Calls -> Endpoint \cup {NoPeer}]
    <3>1. s \in SockAddr /\ Denotes(s) \in Endpoint
      BY RemotesAssumption, FromDenotes
    <3> QED BY <1>0, <2>3, <3>1 DEF TypeOK
  <2> QED BY <1>1, <2>1, <2>2, <2>3 DEF Reached
<1> HIDE DEF c
<1>4. TypeOK'
  BY <1>0, <1>2, <1>3 DEF TypeOK
<1>5. SocketInv' /\ BoundInv' /\ ShownInv'
  BY <1>0 DEF SocketInv, BoundInv, ShownInv
<1>6. CompletionsAreDelivered'
  BY <1>0, <1>2 DEF CompletionsAreDelivered
<1>7. \A p \in answered : r.kind = "call" /\ p.kind = "call" => p.by # c
  BY DEF WaitInv, c
<1>8. \A o \in inflight' : r.kind = "call" /\ o.kind = "call" => o.by # c
  <2> SUFFICES ASSUME NEW o \in inflight', r.kind = "call", o.kind = "call", o.by = c PROVE FALSE
    OBVIOUS
  <2>1. o \in inflight /\ o # r /\ o.on = r.on
    BY <1>2 DEF WaitInv, c
  <2> QED BY <2>1 DEF TypeOK, c
<1>9. WaitInv'
  BY <1>0, <1>2, <1>7, <1>8 DEF WaitInv
<1>10. AddrInv'
  <2>1. \A p \in answered' : p.kind = "call" /\ p.code = SUCCESS => far'[p.by] = Denotes(addr'[p.by])
    <3> SUFFICES ASSUME NEW p \in answered', p.kind = "call", p.code = SUCCESS
                 PROVE  far'[p.by] = Denotes(addr'[p.by])
      OBVIOUS
    <3>1. CASE p = n
      BY <1>2, <1>3, <3>1
    <3>2. CASE p \in answered
      <4>1. p.by \in Calls /\ far[p.by] = Denotes(addr[p.by])
        BY <3>2 DEF AddrInv, TypeOK
      <4>2. CASE r.kind = "call"
        BY <1>3, <1>7, <3>2, <4>1, <4>2
      <4>3. CASE r.kind # "call"
        BY <1>3, <4>1, <4>3
      <4> QED BY <4>2, <4>3
    <3> QED BY <1>2, <3>1, <3>2
  <2>2. \A d \in Calls : pc[d] # "waiting" => far'[d] = far[d] /\ addr'[d] = addr[d]
    BY <1>0, <1>3
  <2>3. \A d \in Connects : addr'[d] = addr[d]
    BY <1>0, <1>3, CallsAssumption
  <2> QED BY <1>0, <2>1, <2>2, <2>3 DEF AddrInv, Target
<1> QED BY <1>4, <1>5, <1>6, <1>9, <1>10

\* The initial states satisfy the invariant.
LEMMA InitIInv == Init => IInv
BY CodesAssumption, NoStatusAssumption
DEF Init, IInv, TypeOK, SocketInv, BoundInv, CompletionsAreDelivered, ShownInv, WaitInv, AddrInv, Calls

\* Every step preserves the invariant.
LEMMA NextIInv == IInv /\ [Next]_vars => IInv'
<1> SUFFICES ASSUME IInv, [Next]_vars PROVE IInv'
  OBVIOUS
<1>1. CASE acceptor_tcp
  BY <1>1, ListenInv, InitializeInv DEF acceptor_tcp
<1>2. CASE \E c \in Calls : Start(c)
  BY <1>2, CreateSocketInv, AssociateInv, BindInv, CallInv, StartTransferInv, CloseInv DEF Start
<1>3. CASE \E c \in Calls : Resume(c)
  BY <1>3, ResumeCallInv, UpdateContextInv, ResumeTransferInv, ResumeCloseInv, UnwindInv DEF Resume
<1>4. CASE \E r \in inflight : Answer(r)
  BY <1>4, AnswerInv
<1>5. CASE UNCHANGED vars
  BY <1>5 DEF vars, IInv, TypeOK, SocketInv, BoundInv, CompletionsAreDelivered, ShownInv, WaitInv, AddrInv, Target
<1> QED BY <1>1, <1>2, <1>3, <1>4, <1>5 DEF Next

(***************************************************************************)
(* ReachInv and TransferInv: what the refinement of TCPCalls needs beyond  *)
(* IInv.                                                                   *)
(***************************************************************************)

LEMMA ReachStep ==
  ASSUME IInv, ReachInv, [Next]_vars
  PROVE  ReachInv'
<1> USE DEF IInv
<1>0. /\ DOMAIN pc = Calls /\ DOMAIN far = Calls /\ DOMAIN cause = Calls /\ Listener \in Calls
      /\ \A o \in inflight \cup answered : o.by \in Calls
  BY DEF TypeOK, Calls
<1>1. \A code \in Codes : code # SUCCESS
  BY CodesAssumption
<1>2. CASE UNCHANGED vars
  BY <1>2 DEF vars, ReachInv
<1>3. ASSUME NEW c \in Calls, CreateSocket(c) \/ Associate(c) \/ Bind(c)
      PROVE  ReachInv'
  <2>1. /\ UNCHANGED <<inflight, answered>>
        /\ \A d \in Calls : d # c => pc'[d] = pc[d] /\ far'[d] = far[d] /\ cause'[d] = cause[d]
        /\ pc[c] \in {"idle", "port", "bind"}
        /\ pc'[c] = "unwinding" => cause'[c] # SUCCESS
        /\ pc'[c] \in {"idle", "port", "bind", "call"} => far'[c] = far[c]
        /\ pc'[c] # "context"
    BY <1>0, <1>1, <1>3 DEF CreateSocket, Associate, Bind
  <2>2. \A o \in inflight \cup answered : o.kind = "call" => o.by # c
    BY <2>1 DEF WaitInv
  <2> QED BY <1>0, <2>1, <2>2 DEF ReachInv
<1>4. ASSUME NEW c \in Calls, Call(c)
      PROVE  ReachInv'
  <2>1. /\ pc[c] = "call" /\ pc'[c] = "waiting" /\ UNCHANGED <<far, cause, answered>>
        /\ \A d \in Calls : d # c => pc'[d] = pc[d]
        /\ \A r \in inflight' : r \in inflight \/ r.by = c
    BY <1>0, <1>4 DEF Call
  <2> QED BY <1>0, <2>1 DEF ReachInv
<1>5. ASSUME NEW c \in Calls,
             \/ Resume(c) \/ StartTransfer(c) \/ Close(c)
             \/ c = Listener /\ acceptor_tcp
      PROVE  ReachInv'
  <2>1. /\ UNCHANGED far /\ \A r \in inflight' : r \in inflight \/ r.kind # "call"
        /\ \A d \in Calls : d # c => pc'[d] = pc[d] /\ cause'[d] = cause[d]
        /\ pc'[c] \notin {"idle", "port", "bind", "call"} \/ pc'[c] = pc[c]
        /\ pc'[c] = "unwinding" => cause'[c] # SUCCESS \/ UNCHANGED <<pc, cause>>
        /\ answered' \subseteq answered
        /\ pc'[c] = "context" => UNCHANGED pc \/ \E p \in answered : p.kind = "call" /\ p.code = SUCCESS /\ p.by = c
    <3>0. CASE ResumeCall(c)
      BY <1>0, <1>1, <3>0, OnlySuccessIsOk DEF ResumeCall
    <3>1. CASE Resume(c) /\ ~ResumeCall(c)
      BY <1>0, <1>1, <3>1
      DEF Resume, UpdateContext, ResumeTransfer, ResumeClose, Unwind
    <3>2. CASE StartTransfer(c) \/ Close(c)
      BY <1>0, <3>2 DEF StartTransfer, Close
    <3>3. CASE c = Listener /\ acceptor_tcp
      BY <1>0, <1>1, <3>3 DEF acceptor_tcp, Listen, Initialize
    <3> QED BY <1>5, <3>0, <3>1, <3>2, <3>3 DEF Resume
  <2> QED BY <1>0, <2>1 DEF ReachInv
<1>6. ASSUME NEW r \in inflight, Answer(r)
      PROVE  ReachInv'
  <2>1. /\ UNCHANGED <<pc, cause>> /\ inflight' = inflight \ {r}
        /\ r.kind # "call" => UNCHANGED far
        /\ \A d \in Calls : d # r.by => far'[d] = far[d]
    BY <1>0, <1>6 DEF Answer, Reply, Reached
  <2>2. r.kind = "call" => pc[r.by] = "waiting"
    BY DEF WaitInv
  <2>3. \A o \in inflight' : r.kind = "call" /\ o.kind = "call" => o.by # r.by
    <3> SUFFICES ASSUME NEW o \in inflight', r.kind = "call", o.kind = "call", o.by = r.by PROVE FALSE
      OBVIOUS
    <3>1. o \in inflight /\ o # r /\ o.on = r.on
      BY <2>1 DEF WaitInv
    <3> QED BY <3>1 DEF TypeOK
  <2>4. \A p \in answered' : p.kind = "call" /\ p.code = SUCCESS => far'[p.by] # NoPeer
    <3>1. \A p \in answered : p.kind = "call" => p.by # r.by \/ r.kind # "call"
      BY DEF WaitInv
    <3>2. ASSUME r.kind = "call", Reply(r, SUCCESS), Reached(r)
          PROVE  far'[r.by] # NoPeer
      <4>1. CASE r.by \notin Accepts
        <5>1. r.by \in Connects /\ addr[r.by] = Target(r.by)
          BY <1>0, <2>2, <3>2, <4>1 DEF WaitInv, AddrInv, Calls
        <5>2. far'[r.by] = Denotes(Target(r.by))
          BY <1>0, <3>2, <4>1, <5>1 DEF Reached
        <5> QED BY <5>1, <5>2, Targets, NoPeerAssumption
      <4>2. CASE r.by \in Accepts
        <5>1. \E in \in Remotes : far'[r.by] = Denotes(in)
          BY <1>0, <3>2, <4>2 DEF Reached
        <5> QED BY <5>1, RemotesAssumption, FromDenotes, NoPeerAssumption
      <4> QED BY <4>1, <4>2
    <3>3. PICK code \in Codes \cup {SUCCESS} :
            Reply(r, code) /\ (code = SUCCESS => Reached(r))
      BY <1>1, <1>6 DEF Answer
    <3> DEFINE n == [by |-> r.by, kind |-> r.kind, code |-> code]
    <3>4. answered' = answered \cup {n} /\ n.by = r.by /\ n.kind = r.kind /\ n.code = code
      BY <3>3 DEF Reply
    <3> HIDE DEF n
    <3> QED BY <1>0, <2>1, <3>1, <3>2, <3>3, <3>4 DEF ReachInv
  <2> QED BY <1>0, <2>1, <2>2, <2>3, <2>4 DEF ReachInv
<1> QED BY <1>0, <1>2, <1>3, <1>4, <1>5, <1>6 DEF Next, Start

\* Answering an operation other than a transfer, and not resuming from one.
LEMMA TransferStep ==
  ASSUME IInv, TransferInv, [Next]_vars
  PROVE  TransferInv'
<1> USE DEF IInv
<1>1. ASSUME \A r \in inflight' : r \in inflight \/ r.kind # "transfer", answered' \subseteq answered
      PROVE  TransferInv'
  BY <1>1 DEF TransferInv
<1>2. CASE UNCHANGED vars
  BY <1>1, <1>2 DEF vars
<1>3. CASE acceptor_tcp
  BY <1>1, <1>3 DEF acceptor_tcp, Listen, Initialize
<1>4. ASSUME NEW c \in Calls, Resume(c)
      PROVE  TransferInv'
  BY <1>1, <1>4 DEF Resume, ResumeCall, UpdateContext, ResumeTransfer, ResumeClose, Unwind
<1>5. ASSUME NEW c \in Calls, Start(c), ~StartTransfer(c)
      PROVE  TransferInv'
  <2>1. \A on, kind : [by |-> c, on |-> on, kind |-> kind].kind = kind
    OBVIOUS
  <2> QED BY <1>1, <1>5, <2>1 DEF Start, CreateSocket, Associate, Bind, Call, Close
<1>6. ASSUME NEW c \in Calls, StartTransfer(c)
      PROVE  TransferInv'
  <2> DEFINE n == [by |-> c, on |-> c, kind |-> "transfer"]
  <2>1. inflight' = inflight \cup {n} /\ n.on = n.by /\ n.by = c /\ UNCHANGED answered /\ ~Transferring(c)
    BY <1>6 DEF StartTransfer
  <2> HIDE DEF n
  <2> QED BY <2>1 DEF TransferInv, Transferring
<1>7. ASSUME NEW r \in inflight, Answer(r)
      PROVE  TransferInv'
  <2>1. PICK code \in Codes \cup {SUCCESS} : Reply(r, code)
    BY <1>7 DEF Answer
  <2> DEFINE n == [by |-> r.by, kind |-> r.kind, code |-> code]
  <2>2. inflight' = inflight \ {r} /\ answered' = answered \cup {n} /\ n.by = r.by /\ n.kind = r.kind
    BY <2>1 DEF Reply
  <2> HIDE DEF n
  <2>3. \A o \in inflight : o.kind = "transfer" /\ r.kind = "transfer" /\ o.by = r.by => o = r
    BY DEF TransferInv, TypeOK
  <2> QED BY <2>2, <2>3 DEF TransferInv
<1> QED BY <1>2, <1>3, <1>4, <1>5, <1>6, <1>7 DEF Next

(***************************************************************************)
(* Every step is a step of TCPCalls or changes nothing a caller sees.      *)
(***************************************************************************)

\* What a call's step does to what TCPCalls sees of it.
LEMMA StageStep ==
  ASSUME TypeOK, NEW c \in Calls, NEW to, pc' = [pc EXCEPT ![c] = to], to \notin {"threw", "closed"},
         \A d \in Calls : d # c => shown'[d] = shown[d],
         pc[c] \notin {"threw", "closed"}
  PROVE  /\ [d \in Calls |-> StageOf(d)]'
               = [[d \in Calls |-> StageOf(d)] EXCEPT ![c] = IF to \in Pending THEN "pending" ELSE to]
         /\ [d \in Calls |-> ToldOf(d)]' = [d \in Calls |-> ToldOf(d)]
<1>1. \A d \in Calls : pc'[d] = IF d = c THEN to ELSE pc[d]
  BY DEF TypeOK
<1> QED BY <1>1 DEF StageOf, ToldOf

\* The end of a call that throws, or of a close.
LEMMA EndStep ==
  ASSUME TypeOK, NEW c \in Calls, NEW to \in {"threw", "closed"}, pc' = [pc EXCEPT ![c] = to],
         \A d \in Calls : d # c => shown'[d] = shown[d]
  PROVE  /\ [d \in Calls |-> StageOf(d)]' = [[d \in Calls |-> StageOf(d)] EXCEPT ![c] = to]
         /\ [d \in Calls |-> ToldOf(d)]' = [[d \in Calls |-> ToldOf(d)] EXCEPT ![c] = shown'[c]]
<1>1. \A d \in Calls : pc'[d] = IF d = c THEN to ELSE pc[d]
  BY DEF TypeOK
<1> QED BY <1>1 DEF StageOf, ToldOf, Pending

\* The first step of a call, and steps callers do not see.
LEMMA BeginRefines ==
  ASSUME TypeOK, NEW c \in Calls, NEW to \in Pending, pc' = [pc EXCEPT ![c] = to],
         pc[c] \in {"idle"} \cup Pending, pc[c] = "idle" /\ c \in Accepts => pc[Listener] = "open",
         \A d \in Calls : d # c => shown'[d] = shown[d],
         UNCHANGED <<far, peer>>, \A d \in Calls : Transferring(d)' <=> Transferring(d)
  PROVE  [TCP!Next]_(TCP!vars)
<1> DEFINE st == [d \in Calls |-> StageOf(d)]
           tl == [d \in Calls |-> ToldOf(d)]
           bs == {d \in Calls : Transferring(d)}
<1>1. st' = [st EXCEPT ![c] = "pending"] /\ tl' = tl /\ bs' = bs
  BY StageStep DEF Pending
<1>2. CASE pc[c] = "idle"
  <2>1. st[c] = "idle" /\ (c \in Accepts => st[Listener] = "open")
    BY <1>2 DEF StageOf, Pending, Calls
  <2>2. TCP!Begin(c)
    BY <1>1, <2>1 DEF TCP!Begin, TCP!Ready, TCP!Go
  <2> QED BY <2>2 DEF TCP!Next, TCP!Calls, Calls
<1>3. CASE pc[c] \in Pending
  <2>1. st' = st
    BY <1>1, <1>3 DEF StageOf
  <2> QED BY <1>1, <2>1 DEF TCP!vars
<1> QED BY <1>2, <1>3

\* A call that hands out its socket.
LEMMA SucceedRefines ==
  ASSUME TypeOK, NEW c \in Calls, pc' = [pc EXCEPT ![c] = "open"], pc[c] \in Pending,
         far[c] \in Endpoint, UNCHANGED <<far, shown>>,
         peer' = IF c \in Accepts THEN [peer EXCEPT ![c] = far[c]] ELSE peer,
         \A d \in Calls : Transferring(d)' <=> Transferring(d)
  PROVE  TCP!Next
<1> DEFINE st == [d \in Calls |-> StageOf(d)]
           tl == [d \in Calls |-> ToldOf(d)]
           bs == {d \in Calls : Transferring(d)}
<1>1. st' = [st EXCEPT ![c] = "open"] /\ tl' = tl /\ bs' = bs
  BY StageStep DEF Pending
<1>2. st[c] = "pending" /\ far[c] # NoPeer
  BY NoPeerAssumption DEF StageOf
<1>3. TCP!Succeed(c)
  BY <1>1, <1>2 DEF TCP!Succeed, TCP!Go
<1> QED BY <1>3 DEF TCP!Next, TCP!Calls, Calls

\* The socket of a pending call gets where it was to get.
LEMMA EstablishRefines ==
  ASSUME NEW c \in Calls, pc[c] \in Pending, pc'[c] \in Pending, far[c] = NoPeer,
         \A d \in Calls : d # c => pc'[d] = pc[d],
         far' = [far EXCEPT ![c] = far'[c]], UNCHANGED <<peer, shown>>,
         far'[c] \in IF c \in Accepts THEN Visitors ELSE {Places[c]},
         \A d \in Calls : Transferring(d)' <=> Transferring(d)
  PROVE  TCP!Next
<1> DEFINE st == [d \in Calls |-> StageOf(d)]
           tl == [d \in Calls |-> ToldOf(d)]
           bs == {d \in Calls : Transferring(d)}
<1>1. st' = st /\ tl' = tl /\ bs' = bs /\ st[c] = "pending"
  BY DEF StageOf, ToldOf, Pending
<1>2. \E e \in IF c \in Accepts THEN Visitors ELSE {Places[c]} : far' = [far EXCEPT ![c] = e]
  <2> WITNESS far'[c] \in IF c \in Accepts THEN Visitors ELSE {Places[c]}
  <2> QED OBVIOUS
<1>3. TCP!Establish(c)
  BY <1>1, <1>2 DEF TCP!Establish
<1> QED BY <1>3 DEF TCP!Next, TCP!Calls, Calls

\* Steps of a call up to its overlapped call, and those of a handle.
LEMMA StartRefines ==
  ASSUME IInv, ReachInv, NEW c \in Calls, Start(c) \/ (c = Listener /\ acceptor_tcp)
  PROVE  [TCP!Next]_(TCP!vars)
<1> USE DEF IInv
<1> DEFINE st == [d \in Calls |-> StageOf(d)]
           tl == [d \in Calls |-> ToldOf(d)]
           bs == {d \in Calls : Transferring(d)}
<1>0. UNCHANGED <<inflight, answered>> => \A d \in Calls : Transferring(d)' <=> Transferring(d)
  BY DEF Transferring
<1>1. CASE CreateSocket(c) \/ Associate(c)
  <2>1. /\ (pc[c] = "idle" /\ (c \in Accepts => pc[Listener] = "open")) \/ pc[c] = "port"
        /\ UNCHANGED <<far, peer, inflight, answered>>
        /\ \A d \in Calls : d # c => shown'[d] = shown[d]
        /\ \E to \in {"port", "call", "bind", "unwinding"} : pc' = [pc EXCEPT ![c] = to]
    BY <1>1 DEF CreateSocket, Associate, TypeOK
  <2> QED BY <1>0, <2>1, BeginRefines DEF Pending
<1>2. CASE Bind(c)
  <2>1. /\ pc[c] = "bind" /\ UNCHANGED <<peer, inflight, answered>>
        /\ \A d \in Calls : d # c => shown'[d] = shown[d]
    BY <1>2 DEF Bind, TypeOK
  <2>2. CASE UNCHANGED far
    <3>1. \E to \in {"call", "listen", "unwinding"} : pc' = [pc EXCEPT ![c] = to]
      BY <1>2 DEF Bind
    <3> QED BY <1>0, <2>1, <2>2, <3>1, BeginRefines DEF Pending
  <2>3. CASE c = Listener /\ far' = [far EXCEPT ![c] = Denotes(Target(c))] /\ Proceed(c, "listen")
    <3>1. pc'[c] = "listen" /\ (\A d \in Calls : d # c => pc'[d] = pc[d]) /\ far'[c] = Denotes(Target(c))
      BY <2>3 DEF TypeOK
    <3>2. c \notin Accepts /\ Denotes(Target(c)) = Places[c]
      BY <2>3, CallsAssumption, Targets DEF Places
    <3>3. far[c] = NoPeer
      BY <2>1 DEF ReachInv
    <3>4. far' = [far EXCEPT ![c] = far'[c]] /\ UNCHANGED shown
      BY <2>3, <3>1
    <3> QED BY <1>0, <2>1, <3>1, <3>2, <3>3, <3>4, EstablishRefines DEF Pending
  <2> QED BY <1>2, <2>2, <2>3 DEF Bind
<1>3. CASE Call(c)
  <2>1. /\ pc[c] = "call" /\ UNCHANGED <<far, peer, shown>> /\ pc' = [pc EXCEPT ![c] = "waiting"]
        /\ UNCHANGED answered
        /\ \E on \in Calls : inflight' = inflight \cup {[by |-> c, on |-> on, kind |-> "call"]}
    BY <1>3 DEF Call, Calls
  <2>2. \A d \in Calls : Transferring(d)' <=> Transferring(d)
    BY <2>1 DEF Transferring
  <2> QED BY <2>1, <2>2, BeginRefines DEF Pending
<1>4. CASE c = Listener /\ acceptor_tcp
  <2>1. /\ UNCHANGED <<far, peer, inflight, answered>> /\ pc[c] \in {"listen", "extension"} /\ c \notin Accepts
        /\ \A d \in Calls : d # c => shown'[d] = shown[d]
        /\ \/ \E to \in {"extension", "unwinding"} : pc' = [pc EXCEPT ![c] = to]
           \/ pc' = [pc EXCEPT ![c] = "open"] /\ UNCHANGED shown
    BY <1>4, CallsAssumption DEF acceptor_tcp, Listen, Initialize, TypeOK
  <2>2. far[c] \in Endpoint
    BY <1>4, <2>1, Targets DEF AddrInv
  <2> QED BY <1>0, <2>1, <2>2, BeginRefines, SucceedRefines DEF Pending
<1>5. CASE StartTransfer(c)
  <2>1. UNCHANGED answered /\ inflight' = inflight \cup {[by |-> c, on |-> c, kind |-> "transfer"]}
    BY <1>5 DEF StartTransfer
  <2>2. \A d \in Calls : Transferring(d)' <=> Transferring(d) \/ d = c
    <3> DEFINE n == [by |-> c, on |-> c, kind |-> "transfer"]
    <3>1. inflight' = inflight \cup {n} /\ n.by = c /\ n.kind = "transfer"
      BY <2>1
    <3> HIDE DEF n
    <3> QED BY <2>1, <3>1 DEF Transferring
  <2>3. st' = st /\ tl' = tl /\ bs' = bs \cup {c}
    BY <1>5, <2>2 DEF StartTransfer, StageOf, ToldOf
  <2>4. st[c] = "open" /\ c \notin bs /\ c # Listener /\ UNCHANGED <<far, peer>>
    BY <1>5, CallsAssumption DEF StartTransfer, StageOf, Pending
  <2>5. TCP!StartTransfer(c)
    BY <2>3, <2>4 DEF TCP!StartTransfer
  <2> QED BY <2>5 DEF TCP!Next, TCP!Calls, Calls
<1>6. CASE Close(c)
  <2>1. UNCHANGED answered /\ inflight' = inflight \cup {[by |-> c, on |-> c, kind |-> "close"]}
    BY <1>6 DEF Close
  <2>2. \A d \in Calls : Transferring(d)' <=> Transferring(d)
    BY <2>1 DEF Transferring
  <2>3. st' = [st EXCEPT ![c] = "closing"] /\ tl' = tl /\ bs' = bs
    BY <1>6, <2>2, StageStep DEF Close, Pending
  <2>4. st[c] = "open" /\ UNCHANGED <<far, peer>>
    BY <1>6 DEF Close, StageOf, Pending
  <2>5. TCP!StartClose(c)
    BY <2>3, <2>4 DEF TCP!StartClose, TCP!Go
  <2> QED BY <2>5 DEF TCP!Next, TCP!Calls, Calls
<1> QED BY <1>1, <1>2, <1>3, <1>4, <1>5, <1>6 DEF Start

\* Steps of a resumed coroutine, and the end of the unwinding.
LEMMA ResumeRefines ==
  ASSUME IInv, ReachInv, TransferInv, NEW c \in Calls, Resume(c)
  PROVE  [TCP!Next]_(TCP!vars)
<1> USE DEF IInv
<1> DEFINE st == [d \in Calls |-> StageOf(d)]
           tl == [d \in Calls |-> ToldOf(d)]
           bs == {d \in Calls : Transferring(d)}
<1>0. ASSUME NEW kind \in {"call", "close"}, NEW code, Take(c, kind, code), UNCHANGED inflight
      PROVE  \A d \in Calls : Transferring(d)' <=> Transferring(d)
  <2> DEFINE n == [by |-> c, kind |-> kind, code |-> code]
  <2>1. answered' = answered \ {n} /\ n.kind # "transfer"
    BY <1>0
  <2> HIDE DEF n
  <2> QED BY <1>0, <2>1 DEF Transferring
<1>1. CASE ResumeCall(c)
  <2>1. PICK code \in Codes \cup {SUCCESS} :
          /\ Take(c, "call", code)
          /\ IF map_error(code) = IO_OK THEN Proceed(c, "context") ELSE Throw(c, code)
    BY <1>1 DEF ResumeCall
  <2>2. pc[c] = "waiting" /\ UNCHANGED <<far, peer, inflight>>
    BY <1>1 DEF ResumeCall
  <2>3. \A d \in Calls : Transferring(d)' <=> Transferring(d)
    BY <1>0, <2>1, <2>2
  <2>4. /\ \A d \in Calls : d # c => shown'[d] = shown[d]
        /\ \E to \in {"context", "unwinding"} : pc' = [pc EXCEPT ![c] = to]
    BY <2>1 DEF TypeOK
  <2> QED BY <2>2, <2>3, <2>4, BeginRefines DEF Pending
<1>2. CASE UpdateContext(c)
  <2>1. pc[c] = "context" /\ UNCHANGED <<far, inflight, answered>>
    BY <1>2 DEF UpdateContext
  <2>2. \A d \in Calls : Transferring(d)' <=> Transferring(d)
    BY <2>1 DEF Transferring
  <2>3. CASE \E code \in Codes : Throw(c, code) /\ UNCHANGED peer
    <3>1. (\A d \in Calls : d # c => shown'[d] = shown[d]) /\ pc' = [pc EXCEPT ![c] = "unwinding"]
      BY <2>3 DEF TypeOK
    <3> QED BY <2>1, <2>2, <2>3, <3>1, BeginRefines DEF Pending
  <2>4. CASE /\ peer' = IF c \in Accepts THEN [peer EXCEPT ![c] = from_os_ip(addr[c])] ELSE peer
             /\ Proceed(c, "open")
    <3>1. c \in Accepts => from_os_ip(addr[c]) = far[c]
      BY <2>1 DEF AddrInv, from_os_ip, Denotes, ntohs, Swap16
    <3>2. far[c] \in Endpoint
      <4>1. c \in Connects \cup Accepts
        BY <2>1 DEF WaitInv, Calls
      <4>2. c \in Connects => far[c] \in Endpoint
        BY <2>1, Targets DEF AddrInv
      <4>3. c \in Accepts => far[c] \in Endpoint
        BY <2>1 DEF ReachInv, TypeOK
      <4> QED BY <4>1, <4>2, <4>3
    <3> QED BY <2>1, <2>2, <2>4, <3>1, <3>2, SucceedRefines DEF Pending
  <2> QED BY <1>2, <2>3, <2>4 DEF UpdateContext
<1>3. CASE ResumeTransfer(c)
  <2>1. PICK code \in Codes \cup {SUCCESS} : Take(c, "transfer", code)
    BY <1>3 DEF ResumeTransfer
  <2> DEFINE n == [by |-> c, kind |-> "transfer", code |-> code]
  <2>2. /\ n \in answered /\ answered' = answered \ {n} /\ n.by = c /\ n.kind = "transfer"
        /\ UNCHANGED <<pc, far, peer, inflight, shown>>
    BY <1>3, <2>1 DEF ResumeTransfer
  <2> HIDE DEF n
  <2>3. (\A d \in Calls : Transferring(d)' <=> Transferring(d) /\ d # c) /\ Transferring(c)
    BY <2>2 DEF Transferring, TransferInv
  <2>4. st' = st /\ tl' = tl /\ bs' = bs \ {c} /\ c \in bs
    BY <2>2, <2>3 DEF StageOf, ToldOf
  <2>5. TCP!EndTransfer(c)
    BY <2>2, <2>4 DEF TCP!EndTransfer
  <2> QED BY <2>5 DEF TCP!Next, TCP!Calls, Calls
<1>4. CASE ResumeClose(c)
  <2>1. PICK code \in Codes \cup {SUCCESS} :
          Take(c, "close", code) /\ shown' = [shown EXCEPT ![c] = map_error(code)]
    BY <1>4 DEF ResumeClose
  <2>2. pc[c] = "closing" /\ pc' = [pc EXCEPT ![c] = "closed"] /\ UNCHANGED <<far, peer, inflight>>
    BY <1>4 DEF ResumeClose
  <2>3. shown'[c] \in Statuses /\ \A d \in Calls : d # c => shown'[d] = shown[d]
    BY <2>1, MapErrorType DEF TypeOK
  <2>4. st' = [st EXCEPT ![c] = "closed"] /\ tl' = [tl EXCEPT ![c] = shown'[c]] /\ bs' = bs
    BY <1>0, <2>1, <2>2, <2>3, EndStep
  <2>5. st[c] = "closing"
    BY <2>2 DEF StageOf, Pending
  <2>6. TCP!EndClose(c)
    BY <2>2, <2>3, <2>4, <2>5 DEF TCP!EndClose, TCP!Go
  <2> QED BY <2>6 DEF TCP!Next, TCP!Calls, Calls
<1>5. CASE Unwind(c)
  <2>1. /\ pc[c] = "unwinding" /\ pc' = [pc EXCEPT ![c] = "threw"]
        /\ UNCHANGED <<far, peer, inflight, answered, shown>>
    BY <1>5 DEF Unwind
  <2>2. shown[c] \in Statuses \ {IO_OK}
    <3>1. shown[c] = map_error(cause[c]) /\ cause[c] # SUCCESS
      BY <2>1 DEF ShownInv, ReachInv
    <3> QED BY <3>1, MapErrorType, OnlySuccessIsOk
  <2>3. st' = [st EXCEPT ![c] = "threw"] /\ tl' = [tl EXCEPT ![c] = shown[c]]
    BY <2>1, EndStep
  <2>4. bs' = bs /\ st[c] = "pending"
    BY <2>1 DEF Transferring, StageOf, Pending
  <2>5. TCP!Throw(c)
    BY <2>1, <2>2, <2>3, <2>4 DEF TCP!Throw, TCP!Go
  <2> QED BY <2>5 DEF TCP!Next, TCP!Calls, Calls
<1> QED BY <1>1, <1>2, <1>3, <1>4, <1>5 DEF Resume

\* Steps of the system.
LEMMA AnswerRefines ==
  ASSUME IInv, ReachInv, NEW r \in inflight, Answer(r)
  PROVE  [TCP!Next]_(TCP!vars)
<1> USE DEF IInv
<1> DEFINE c == r.by
<1>1. c \in Calls /\ UNCHANGED <<pc, peer, shown>>
  BY DEF Answer, TypeOK
<1>2. PICK code \in Codes \cup {SUCCESS} :
        Reply(r, code) /\ (Reached(r) \/ UNCHANGED <<addr, far>>)
  BY DEF Answer
<1>3. \A d \in Calls : Transferring(d)' <=> Transferring(d)
  <2> DEFINE n == [by |-> r.by, kind |-> r.kind, code |-> code]
  <2>1. inflight' = inflight \ {r} /\ answered' = answered \cup {n} /\ n.by = r.by /\ n.kind = r.kind
    BY <1>2 DEF Reply
  <2> HIDE DEF n
  <2> QED BY <2>1 DEF Transferring
<1>4. CASE UNCHANGED far
  <2>1. /\ [d \in Calls |-> StageOf(d)]' = [d \in Calls |-> StageOf(d)]
        /\ [d \in Calls |-> ToldOf(d)]' = [d \in Calls |-> ToldOf(d)]
        /\ {d \in Calls : Transferring(d)}' = {d \in Calls : Transferring(d)}
    BY <1>1, <1>3 DEF StageOf, ToldOf
  <2> QED BY <1>1, <1>4, <2>1 DEF TCP!vars
<1>5. CASE r.kind = "call" /\ ~UNCHANGED far
  <2>1. pc[c] = "waiting" /\ far[c] = NoPeer /\ (c \notin Accepts => c \in Connects /\ addr[c] = Target(c))
    BY <1>1, <1>5 DEF WaitInv, ReachInv, AddrInv, Calls
  <2>2. far' = [far EXCEPT ![c] = far'[c]] /\ far'[c] \in IF c \in Accepts THEN Visitors ELSE {Places[c]}
    <3>1. CASE c \notin Accepts
      <4>1. far' = [far EXCEPT ![c] = Denotes(Target(c))] /\ Denotes(Target(c)) = Places[c]
        BY <1>2, <1>5, <2>1, <3>1, Targets DEF Reached, Places
      <4> QED BY <1>1, <3>1, <4>1 DEF TypeOK
    <3>2. CASE c \in Accepts
      <4>1. PICK in \in {in \in Remotes : in.family = Asked[Listener].ip.mFamily} :
              far' = [far EXCEPT ![c] = Denotes(in)]
        BY <1>2, <1>5, <3>2 DEF Reached
      <4>2. Denotes(in) \in Visitors
        BY DEF Visitors
      <4> QED BY <1>1, <3>2, <4>1, <4>2 DEF TypeOK
    <3> QED BY <3>1, <3>2
  <2> QED BY <1>1, <1>3, <2>1, <2>2, EstablishRefines DEF Pending
<1> QED BY <1>2, <1>4, <1>5 DEF Reached

LEMMA StepRefines ==
  ASSUME IInv, ReachInv, TransferInv, [Next]_vars
  PROVE  [TCP!Next]_(TCP!vars)
<1>1. CASE UNCHANGED vars
  <2>1. UNCHANGED <<pc, peer, far, inflight, answered, shown>>
    BY <1>1 DEF vars
  <2>2. /\ [d \in Calls |-> StageOf(d)]' = [d \in Calls |-> StageOf(d)]
        /\ [d \in Calls |-> ToldOf(d)]' = [d \in Calls |-> ToldOf(d)]
        /\ {d \in Calls : Transferring(d)}' = {d \in Calls : Transferring(d)}
    BY <2>1 DEF StageOf, ToldOf, Transferring
  <2> QED BY <2>1, <2>2 DEF TCP!vars
<1>2. Listener \in Calls
  BY DEF Calls
<1> QED BY <1>1, <1>2, StartRefines, ResumeRefines, AnswerRefines DEF Next

(***************************************************************************)
(* Theorems.                                                               *)
(***************************************************************************)

\* The inductive invariant holds in every reachable state.
THEOREM Invariance == Spec => []IInv
BY InitIInv, NextIInv, PTL DEF Spec

\* Type correctness.
THEOREM TypeCorrect == Spec => []TypeOK
<1>1. IInv => TypeOK
  BY DEF IInv
<1> QED BY <1>1, Invariance, PTL

\* SocketsAreOwned: a connect or once that throws leaves no socket behind, the only
\* sockets without an owner are of closed handles and of an acceptor that failed to
\* initialize, and a handle's socket exists with no guard left that would close it.
THEOREM SocketsAccountedFor == Spec => []SocketsAreOwned
<1>1. IInv => SocketsAreOwned
  BY DEF IInv, TypeOK, SocketInv, SocketsAreOwned, Calls
<1> QED BY <1>1, Invariance, PTL

\* No overlapped call is issued on a socket that delivers no completion.
THEOREM CallsComplete == Spec => []CompletionsAreDelivered
<1>1. IInv => CompletionsAreDelivered
  BY DEF IInv
<1> QED BY <1>1, Invariance, PTL

\* What a call throws, or close returns, is the translation of its own failure.
THEOREM CausesAreShown == Spec => []CauseIsShown
<1>1. IInv => CauseIsShown
  BY DEF IInv, ShownInv, CauseIsShown
<1> QED BY <1>1, Invariance, PTL

\* PeersAreTrue: a once's Peer is the process its socket is connected to, however
\* many pend on the acceptor, and a socket is bound or connected to the endpoint asked
\* for, the port narrowed to 16 bits.
THEOREM PeersAreConnected == Spec => []PeersAreTrue
<1>1. IInv => PeersAreTrue
  BY Targets DEF IInv, AddrInv, PeersAreTrue
<1> QED BY <1>1, Invariance, PTL

\* ImplementsTCPCalls: to their callers the TCP calls of NTOS do what TCPCalls says,
\* the very promises Linux5 keeps, for any calls, codes and addresses.
THEOREM Implements == Spec => ImplementsTCPCalls
<1>1. Init => ReachInv /\ TransferInv /\ TCP!Init
  <2> SUFFICES ASSUME Init PROVE ReachInv /\ TransferInv /\ TCP!Init
    OBVIOUS
  <2>1. ReachInv /\ TransferInv
    BY DEF Init, ReachInv, TransferInv
  <2>2. \A d \in Calls : StageOf(d) = "idle" /\ ToldOf(d) = NoStatus /\ ~Transferring(d)
    BY DEF Init, StageOf, ToldOf, Pending, Transferring
  <2> QED BY <2>1, <2>2 DEF Init, TCP!Init, TCP!Calls, Calls
<1>2. IInv /\ ReachInv /\ TransferInv /\ [Next]_vars => ReachInv' /\ TransferInv'
  BY ReachStep, TransferStep
<1>3. IInv /\ ReachInv /\ TransferInv /\ [Next]_vars => [TCP!Next]_(TCP!vars)
  BY StepRefines
<1> QED BY <1>1, <1>2, <1>3, Invariance, PTL DEF Spec, ImplementsTCPCalls, TCP!Spec

\* AnswersAreFinal: what a caller was told, where its socket got and the peer it was named
\* never change afterwards, whatever completes or is closed later.
THEOREM AnswersStand == Spec => TCP!AnswersAreFinal
<1>1. ASSUME TypeOK, TCP!Next, NEW d \in Calls
      PROVE  TCP!AnswerStands(d)
  <2> DEFINE st == [x \in Calls |-> StageOf(x)]
             tl == [x \in Calls |-> ToldOf(x)]
  <2>1. PICK c \in Calls :
          \/ TCP!Begin(c) \/ TCP!Establish(c) \/ TCP!Succeed(c) \/ TCP!Throw(c)
          \/ TCP!StartTransfer(c) \/ TCP!EndTransfer(c) \/ TCP!StartClose(c) \/ TCP!EndClose(c)
    BY <1>1 DEF TCP!Next, TCP!Calls, Calls
  <2>2. /\ far[c] = NoPeer \/ far' = far
        /\ \A x \in Calls : x # c => far'[x] = far[x] /\ peer'[x] = peer[x] /\ st'[x] = st[x] /\ tl'[x] = tl[x]
        /\ st[c] # "pending" => peer' = peer
        /\ st[c] \in {"threw", "closed"} => st' = st /\ tl' = tl
        /\ st[c] \in {"open", "closing"} => st'[c] \in {"open", "closing", "closed"}
    BY <1>1, <2>1 DEF TypeOK, TCP!Begin, TCP!Establish, TCP!Succeed, TCP!Throw, TCP!StartTransfer,
       TCP!EndTransfer, TCP!StartClose, TCP!EndClose, TCP!Go, TCP!Ready
  <2> HIDE DEF st, tl
  <2>3. /\ far[d] # NoPeer => far'[d] = far[d]
        /\ st[d] # "pending" => peer'[d] = peer[d]
        /\ st[d] \in {"threw", "closed"} => st'[d] = st[d] /\ tl'[d] = tl[d]
        /\ st[d] \in {"open", "closing"} => st'[d] \in {"open", "closing", "closed"}
    BY <1>1, <2>2
  <2> QED BY <2>3 DEF TCP!AnswerStands, st, tl
<1>2. TypeOK /\ [TCP!Next]_(TCP!vars) => [TCP!AnswersStand]_(TCP!vars)
  BY <1>1 DEF TCP!AnswersStand, TCP!Calls, Calls
<1> QED BY <1>2, TypeCorrect, Implements, PTL DEF ImplementsTCPCalls, TCP!Spec, TCP!AnswersAreFinal

=============================================================================
