--------------------------- MODULE LinuxTCPProofs ---------------------------
(* Proofs about LinuxTCP, for any calls, descriptors, errors and addresses. *)
EXTENDS LinuxTCP, WellFoundedInduction, TLAPS

(***************************************************************************)
(* Values.                                                                 *)
(***************************************************************************)

\* No error of the system is reported as IO_OK, 0 and the negated ones included.
LEMMA MapError ==
  \A sys \in Int : map_error(sys) \in Statuses /\ map_error(sys) # IO_OK /\ map_error(sys) # NoStatus
<1>1. Statuses \subseteq 0..MaxErrno + 2
  BY MappedAssumption, MaxErrnoAssumption DEF Statuses, IO_OK, IO_UNKNOWN, IO_EOF
<1>2. \A sys \in Int : map_error(sys) \in Statuses /\ map_error(sys) # IO_OK
  BY MappedAssumption, MaxErrnoAssumption DEF map_error, Statuses, EOF, IO_OK, IO_UNKNOWN, IO_EOF
<1> QED BY <1>1, <1>2, NoStatusAssumption

\* A close that succeeds reports an unknown failure: 0 is no case of map_error.
THEOREM CloseNeverReportsOk ==
  map_error(0) = IO_UNKNOWN /\ IO_UNKNOWN # IO_OK
BY MappedAssumption, MaxErrnoAssumption DEF map_error, EOF, IO_OK, IO_UNKNOWN

\* The ring's answers: a count is a success, a negated errno value its error.
LEMMA MapResult ==
  ASSUME NEW ret \in Answers
  PROVE  /\ ret \in Int
         /\ success(map_result(ret)) <=> ret >= 0
         /\ ret < 0 => -ret \in Errnos /\ error(map_result(ret)) = map_error(ret)
<1>1. ret \in Int /\ (ret < 0 => -ret \in Errnos)
  <2>1. ASSUME NEW e \in Errnos PROVE -e \in Int /\ -(-e) = e
    BY ErrnosAssumption, MaxErrnoAssumption
  <2>2. CASE ret \in {-e : e \in Errnos}
    BY <2>1, <2>2
  <2>3. CASE ret \in Fds \cup {0}
    BY <2>3, FdsAssumption
  <2> QED BY <2>2, <2>3 DEF Answers
<1>2. CASE ret >= 0
  BY <1>1, <1>2 DEF map_result, success, OfCount
<1>3. CASE ret < 0
  <2>1. map_error(ret) \in Int /\ map_error(ret) > 0
    BY <1>1, <1>3, MappedAssumption, MaxErrnoAssumption DEF map_error, EOF, IO_EOF, IO_UNKNOWN
  <2> DEFINE e == map_error(ret)
  <2>2. e \in Int /\ e > 0
    BY <2>1
  <2>3. map_result(ret) = -e
    BY <1>1, <1>3 DEF map_result, OfStatus
  <2> HIDE DEF e
  <2>4. ~success(map_result(ret)) /\ error(map_result(ret)) = e
    BY <2>2, <2>3 DEF success, error
  <2> QED BY <1>1, <1>3, <2>4 DEF e
<1> QED BY <1>1, <1>2, <1>3

\* The kernel's choice of a descriptor is one that is not in use.
LEMMA LowestIsUnused ==
  ASSUME Unused # {}
  PROVE  LowestUnused \in Fds /\ fdtab[LowestUnused] = Free
<1> DEFINE R == {p \in Nat \X Nat : p[1] < p[2]}
<1>1. IsWellFoundedOn(R, Nat)
  <2>1. R = OpToRel(<, Nat)
    BY Zenon DEF OpToRel
  <2> QED BY <2>1, NatLessThanWellFounded
<1>2. PICK f \in Unused : \A g \in Unused : <<g, f>> \notin R
  <2>1. Unused \subseteq Nat
    BY FdsAssumption DEF Unused
  <2> HIDE DEF R
  <2> QED BY <1>1, <2>1, WFMin
<1>3. \A g \in Unused : f <= g
  <2> SUFFICES ASSUME NEW g \in Unused, g < f PROVE FALSE
    BY FdsAssumption DEF Unused
  <2>1. <<g, f>> \in Nat \X Nat /\ <<g, f>>[1] < <<g, f>>[2]
    BY FdsAssumption DEF Unused
  <2> QED BY <1>2, <2>1
<1>4. LowestUnused \in Unused
  BY <1>2, <1>3 DEF LowestUnused
<1> QED BY <1>4 DEF Unused

\* Swapping the octets of a port twice gives it back.
LEMMA SwapTwice ==
  ASSUME NEW n \in Uint16
  PROVE  Swap16(n) \in Uint16 /\ Swap16(Swap16(n)) = n
<1> USE DEF Uint16
<1> DEFINE q == n \div 256
           r == n % 256
           m == r * 256 + q
<1>1. q \in Byte /\ r \in Byte /\ n = q * 256 + r
  BY DEF Byte
<1>2. Swap16(n) = m
  BY DEF Swap16
<1> HIDE DEF q, r
<1>3. m \in Uint16 /\ m % 256 = q /\ m \div 256 = r
  BY <1>1 DEF Byte
<1> HIDE DEF m
<1>4. Swap16(m) = q * 256 + r
  BY <1>3 DEF Swap16
<1> QED BY <1>1, <1>2, <1>3, <1>4

\* The socket address made of an Address and a port denotes both, the port narrowed.
LEMMA ToDenotes ==
  ASSUME NEW ip, Created(ip), NEW port \in Int
  PROVE  /\ to_os_ip(ip, port) \in SockAddr
         /\ Denotes(to_os_ip(ip, port)) = [ip |-> ip, port |-> port % 65536]
<1> DEFINE n == port % 65536
<1>1. n \in Uint16
  BY DEF Uint16
<1>2. to_os_ip(ip, port) = [family |-> ip.mFamily, port |-> Swap16(n), addr |-> ip.mStorage]
  <2>1. ip \in Address /\ ip.mStorage = Create(ip.mFamily, ip.mStorage).mStorage
    BY DEF Created
  <2>2. ip.mStorage = [i \in 0..15 |-> IF i < Octets(ip.mFamily) THEN ip.mStorage[i] ELSE 0]
    BY <2>1 DEF Create
  <2> QED BY <2>2 DEF to_os_ip, htons
<1> HIDE DEF n
<1>3. Swap16(n) \in Uint16 /\ Swap16(Swap16(n)) = n
  BY <1>1, SwapTwice
<1>4. ip.mFamily \in Family /\ ip.mStorage \in [0..15 -> Byte] /\ Create(ip.mFamily, ip.mStorage) = ip
  BY DEF Created, Address
<1>5. Denotes(to_os_ip(ip, port)) = [ip |-> ip, port |-> Swap16(Swap16(n))]
  BY <1>2, <1>4 DEF Denotes, Swap16
<1> QED BY <1>2, <1>3, <1>4, <1>5 DEF SockAddr, n

\* What a peer's socket address denotes is the endpoint once makes of it.
LEMMA FromDenotes ==
  ASSUME NEW s \in SockAddr
  PROVE  from_os_ip(s) = Denotes(s) /\ Denotes(s) \in Endpoint
<1>1. from_os_ip(s) = Denotes(s)
  BY DEF from_os_ip, Denotes, ntohs, Swap16
<1>2. s.port \in Uint16 /\ s.family \in Family /\ s.addr \in [0..15 -> Byte]
  BY DEF SockAddr
<1>3. Create(s.family, s.addr) \in Address
  BY <1>2 DEF Create, Address, Byte
<1>4. Swap16(s.port) \in Uint16
  BY <1>2, SwapTwice
<1> QED BY <1>1, <1>3, <1>4 DEF Denotes, Endpoint, Swap16

LEMMA ZeroAddrType ==
  ASSUME NEW family \in Family
  PROVE  ZeroAddr(family) \in SockAddr
BY DEF ZeroAddr, SockAddr, Byte, Uint16

\* An address and a port given to acceptor_tcp or connect come back from a socket
\* address as they were, the port narrowed to 16 bits.
THEOREM RoundTrip ==
  ASSUME NEW ip, Created(ip), NEW port \in Int
  PROVE  from_os_ip(to_os_ip(ip, port)) = [ip |-> ip, port |-> port % 65536]
BY ToDenotes, FromDenotes

\* What each call asks for is a socket address, which denotes what it was given.
LEMMA Targets ==
  ASSUME NEW c \in {Listener} \cup Connects
  PROVE  /\ Target(c) \in SockAddr /\ Denotes(Target(c)) \in Endpoint
         /\ Denotes(Target(c)) = [Asked[c] EXCEPT !.port = @ % 65536]
<1>1. Asked[c] \in [ip : Address, port : Int] /\ Created(Asked[c].ip)
  BY AskedAssumption
<1>2. Asked[c].port \in Int /\ Asked[c] = [ip |-> Asked[c].ip, port |-> Asked[c].port]
  BY <1>1
<1>3. Target(c) \in SockAddr /\ Denotes(Target(c)) = [ip |-> Asked[c].ip, port |-> Asked[c].port % 65536]
  BY <1>1, <1>2, ToDenotes DEF Target
<1>4. [Asked[c] EXCEPT !.port = @ % 65536] = [ip |-> Asked[c].ip, port |-> Asked[c].port % 65536]
  BY <1>2
<1> QED BY <1>3, <1>4, FromDenotes

(***************************************************************************)
(* Operations.                                                             *)
(***************************************************************************)

LEMMA OpTypes ==
  ASSUME TypeOK
  PROVE  /\ \A o \in inflight : /\ o.by \in Calls /\ o.kind \in Kinds /\ o.file \in Calls
                                /\ o = [by |-> o.by, kind |-> o.kind, file |-> o.file]
         /\ \A p \in answered : /\ p.by \in Calls /\ p.kind \in Kinds /\ p.ret \in Answers
                                /\ p = [by |-> p.by, kind |-> p.kind, ret |-> p.ret]
BY DEF TypeOK

\* Issuing an operation of which the call has no other.
LEMMA Issued ==
  ASSUME TypeOK, OneOfAKind, NEW c \in Calls, NEW kind \in Kinds, NEW file \in Calls,
         Issue(c, kind, file), UNCHANGED answered,
         \A o \in inflight \cup answered : o.by = c => o.kind # kind
  PROVE  /\ inflight' \in SUBSET [by : Calls, kind : Kinds, file : Calls]
         /\ OneOfAKind'
         /\ \A o \in inflight' : o \in inflight \/ (o.by = c /\ o.kind = kind /\ o.file = file)
         /\ inflight \subseteq inflight'
<1> DEFINE n == [by |-> c, kind |-> kind, file |-> file]
<1>1. n \in [by : Calls, kind : Kinds, file : Calls] /\ n.by = c /\ n.kind = kind /\ n.file = file
  OBVIOUS
<1>2. inflight' = inflight \cup {n}
  BY DEF Issue
<1> HIDE DEF n
<1>3. inflight' \in SUBSET [by : Calls, kind : Kinds, file : Calls]
  BY <1>1, <1>2 DEF TypeOK
<1>4. OneOfAKind'
  BY <1>1, <1>2 DEF OneOfAKind, SameOp
<1> QED BY <1>1, <1>2, <1>3, <1>4

\* Resuming from an operation.
LEMMA Taken ==
  ASSUME TypeOK, OneOfAKind, NEW c \in Calls, NEW kind \in Kinds, NEW ret \in Answers,
         Take(c, kind, ret), UNCHANGED inflight
  PROVE  /\ answered' \in SUBSET [by : Calls, kind : Kinds, ret : Answers]
         /\ OneOfAKind'
         /\ answered' \subseteq answered
         /\ \A o \in inflight' \cup answered' : o.by = c => o.kind # kind
         /\ \E p \in answered : p.by = c /\ p.kind = kind /\ p.ret = ret
         /\ \A p \in answered : p.by = c /\ p.kind = kind => p.ret = ret
         /\ \A p \in answered : p.by # c \/ p.kind # kind => p \in answered'
<1> DEFINE n == [by |-> c, kind |-> kind, ret |-> ret]
<1>1. n \in answered /\ n.by = c /\ n.kind = kind /\ n.ret = ret
  BY DEF Take
<1>2. answered' = answered \ {n}
  BY DEF Take
<1> HIDE DEF n
<1>3. answered' \in SUBSET [by : Calls, kind : Kinds, ret : Answers]
  BY <1>1, <1>2 DEF TypeOK
<1>4. OneOfAKind'
  BY <1>1, <1>2 DEF OneOfAKind, SameOp
<1>5. \A p \in answered : p.by = c /\ p.kind = kind => p = n
  BY <1>1 DEF OneOfAKind, SameOp
<1>6. \A o \in inflight' \cup answered' : o.by = c => o.kind # kind
  BY <1>1, <1>2, <1>5 DEF OneOfAKind, SameOp
<1> QED BY <1>1, <1>2, <1>3, <1>4, <1>5, <1>6

\* The kernel answers an operation.
LEMMA Answered ==
  ASSUME TypeOK, OneOfAKind, NEW r \in inflight, NEW ret \in Answers, Answer(r, ret)
  PROVE  /\ inflight' \in SUBSET [by : Calls, kind : Kinds, file : Calls]
         /\ answered' \in SUBSET [by : Calls, kind : Kinds, ret : Answers]
         /\ OneOfAKind'
         /\ inflight' \subseteq inflight /\ answered \subseteq answered'
         /\ \A o \in inflight' : ~SameOp(o, r)
         /\ \A o \in inflight : ~SameOp(o, r) => o \in inflight'
         /\ \A p \in answered : ~SameOp(p, r)
         /\ \A p \in answered' : p \in answered \/ (p.by = r.by /\ p.kind = r.kind /\ p.ret = ret)
         /\ [by |-> r.by, kind |-> r.kind, ret |-> ret] \in answered'
<1> DEFINE n == [by |-> r.by, kind |-> r.kind, ret |-> ret]
<1>1. n \in [by : Calls, kind : Kinds, ret : Answers] /\ n.by = r.by /\ n.kind = r.kind /\ n.ret = ret
  BY OpTypes
<1>2. inflight' = inflight \ {r} /\ answered' = answered \cup {n}
  BY DEF Answer
<1> HIDE DEF n
<1>3. /\ inflight' \in SUBSET [by : Calls, kind : Kinds, file : Calls]
      /\ answered' \in SUBSET [by : Calls, kind : Kinds, ret : Answers]
  BY <1>1, <1>2 DEF TypeOK
<1>4. OneOfAKind'
  BY <1>1, <1>2 DEF OneOfAKind, SameOp
<1>5. /\ \A o \in inflight' : ~SameOp(o, r)
      /\ \A p \in answered : ~SameOp(p, r)
  BY <1>2 DEF OneOfAKind, SameOp
<1>6. n = [by |-> r.by, kind |-> r.kind, ret |-> ret] /\ SameOp(r, r)
  BY DEF n, SameOp
<1> QED BY <1>1, <1>2, <1>3, <1>4, <1>5, <1>6

\* The stage of a call tells which operations it can have.
LEMMA StagesOfOps ==
  ASSUME TypeOK, OpInv, NEW o \in inflight \cup answered
  PROVE  /\ o.by \in Calls /\ o.kind \in Kinds
         /\ pc[o.by] \in {"waiting", "open", "closing", "closed"}
         /\ pc[o.by] \in {"open", "closed"} => o.kind = "transfer"
         /\ pc[o.by] = "waiting" => o.kind = IF o.by \in Accepts THEN "accept" ELSE "connect"
         /\ pc[o.by] = "closing" => o.kind \in {"transfer", "close"}
         /\ o.by = Listener => o.kind = "close"
<1>1. o.by \in Calls /\ o.kind \in Kinds /\ Belongs(o)
  BY OpTypes DEF OpInv
<1> QED BY <1>1, CallsAssumption DEF Belongs, Kinds

\* A call's step leaves the other calls' operations where they belong.
LEMMA OthersBelong ==
  ASSUME NEW c \in Calls, NEW to, TypeOK, pc' = [pc EXCEPT ![c] = to],
         NEW o, o.by \in Calls, o.by # c, Belongs(o)
  PROVE  Belongs(o)'
BY DEF TypeOK, Belongs

(***************************************************************************)
(* IInv is inductive.                                                      *)
(***************************************************************************)

LEMMA InitInv ==
  ASSUME Init
  PROVE  IInv
<1>1. TypeOK
  BY DEF Init, TypeOK, Stages, Statuses
<1>2. OpInv
  BY DEF Init, OpInv, OneOfAKind
<1>3. StageInv
  BY DEF Init, StageInv, Calls
<1>4. FdInv
  BY CallsAssumption DEF Init, FdInv, Holds, HoldsFd
<1>5. OwnSocket
  BY DEF Init, OwnSocket, HoldsFd
<1>6. AddrInv
  BY DEF Init, AddrInv, Calls
<1>7. ErrnoInv /\ FailureIsReported
  BY DEF Init, ErrnoInv, FailureIsReported, Calls
<1> QED BY <1>1, <1>2, <1>3, <1>4, <1>5, <1>6, <1>7 DEF IInv

\* socket(2) preserves the invariant.
LEMMA SocketInv ==
  ASSUME IInv, NEW c \in Calls, Socket(c)
  PROVE  IInv'
<1> USE DEF IInv
<1>0. /\ c \in {Listener} \cup Connects /\ c \notin Accepts /\ pc[c] = "idle"
      /\ UNCHANGED <<peer, far, shut, inflight, answered>>
      /\ \A o \in inflight \cup answered : o.by # c
  BY StagesOfOps, CallsAssumption DEF Socket, ringVars
<1>1. CASE /\ Unused # {}
           /\ fdtab' = [fdtab EXCEPT ![LowestUnused] = c]
           /\ fd' = [fd EXCEPT ![c] = LowestUnused]
           /\ IF c = Listener
                THEN Go(c, "setsockopt") /\ Place(c, to_os_ip(Asked[c].ip, Asked[c].port))
                ELSE Go(c, "connect") /\ UNCHANGED addr
           /\ UNCHANGED reportVars
  <2> DEFINE f == LowestUnused
             to == IF c = Listener THEN "setsockopt" ELSE "connect"
  <2>1. f \in Fds /\ fdtab[f] = Free
    BY <1>1, LowestIsUnused
  <2>2. /\ fdtab' = [fdtab EXCEPT ![f] = c] /\ fd' = [fd EXCEPT ![c] = f]
        /\ pc' = [pc EXCEPT ![c] = to] /\ UNCHANGED <<errno, cause, shown>>
        /\ addr' = IF c = Listener THEN [addr EXCEPT ![c] = Target(c)] ELSE addr
    BY <1>1 DEF Go, Place, reportVars, Target
  <2>3. Target(c) \in SockAddr
    BY <1>0, Targets
  <2> HIDE DEF f
  <2>4. TypeOK'
    BY <1>0, <2>1, <2>2, <2>3 DEF TypeOK, Stages
  <2>5. OpInv'
    BY <1>0, <2>2, OthersBelong, StagesOfOps DEF OpInv, OneOfAKind
  <2>6. StageInv'
    BY <1>0, <2>2, CallsAssumption DEF StageInv, TypeOK, Calls
  <2>7. FdInv'
    <3>1. \A d \in Calls : Holds(d)' <=> (Holds(d) \/ d = c)
      BY <1>0, <2>2 DEF Holds, HoldsFd, TypeOK
    <3>2. ~Holds(c) /\ \A g \in Fds : [by |-> c, kind |-> "accept", ret |-> g] \notin answered
      BY <1>0 DEF Holds, HoldsFd
    <3>3. \A d \in Calls : fdtab[f] # d
      BY <2>1, CallsAssumption
    <3> QED BY <1>0, <2>1, <2>2, <3>1, <3>2, <3>3 DEF FdInv, TypeOK
  <2>8. OwnSocket'
    BY <1>0, <2>1, <2>2, CallsAssumption DEF OwnSocket, HoldsFd, TypeOK
  <2>9. AddrInv'
    BY <1>0, <2>2, CallsAssumption DEF AddrInv, TypeOK, Calls, Target
  <2>10. ErrnoInv' /\ FailureIsReported'
    BY <1>0, <2>2 DEF ErrnoInv, FailureIsReported, TypeOK, Calls
  <2> QED BY <2>4, <2>5, <2>6, <2>7, <2>8, <2>9, <2>10
<1>2. ASSUME NEW e \in Errnos, Fail(c, e), Throw(c, map_error(e)), UNCHANGED <<fd, fdtab, addr>>
      PROVE  IInv'
  <2>1. e \in Int /\ map_error(e) \in Statuses /\ map_error(e) # IO_OK /\ map_error(e) # NoStatus
    BY ErrnosAssumption, MapError
  <2>2. /\ pc' = [pc EXCEPT ![c] = "threw"] /\ shown' = [shown EXCEPT ![c] = map_error(e)]
        /\ errno' = [errno EXCEPT ![c] = e] /\ cause' = [cause EXCEPT ![c] = e]
    BY <1>2 DEF Fail, Throw, Go
  <2>4. TypeOK'
    BY <1>0, <1>2, <2>1, <2>2 DEF TypeOK, Stages
  <2>5. OpInv'
    BY <1>0, <2>2, OthersBelong, StagesOfOps DEF OpInv, OneOfAKind
  <2>6. StageInv'
    BY <1>0, <2>2, CallsAssumption DEF StageInv, TypeOK, Calls
  <2>7. FdInv'
    <3>1. \A d \in Calls : Holds(d)' <=> Holds(d)
      BY <1>0, <2>2 DEF Holds, HoldsFd, TypeOK
    <3> QED BY <1>0, <1>2, <3>1 DEF FdInv
  <2>8. OwnSocket'
    BY <1>0, <1>2, <2>2, CallsAssumption DEF OwnSocket, HoldsFd, TypeOK
  <2>9. AddrInv'
    BY <1>0, <1>2, <2>2, CallsAssumption DEF AddrInv, TypeOK, Calls, Target
  <2>10. ErrnoInv' /\ FailureIsReported'
    BY <1>0, <2>1, <2>2 DEF ErrnoInv, FailureIsReported, TypeOK, Calls
  <2> QED BY <2>4, <2>5, <2>6, <2>7, <2>8, <2>9, <2>10
<1> QED BY <1>0, <1>1, <1>2 DEF Socket

\* setsockopt, bind and listen preserve the invariant.
LEMMA ConfigureInv ==
  ASSUME IInv, Configure
  PROVE  IInv'
<1> USE DEF IInv
<1> DEFINE c == Listener
<1>0. /\ c \in Calls /\ c \notin Connects \cup Accepts /\ pc[c] \in {"setsockopt", "bind", "listen"}
      /\ UNCHANGED <<fd, addr, peer, fdtab, shut, inflight, answered, shown>>
      /\ \A o \in inflight \cup answered : o.by # c
  BY StagesOfOps, CallsAssumption DEF Configure, Following, Calls, kernelVars, ringVars
<1>1. CASE /\ Go(c, Following[pc[c]])
           /\ IF pc[c] = "bind" THEN Reach(c, Denotes(addr[c])) ELSE UNCHANGED far
           /\ UNCHANGED <<errno, cause>>
  <2> DEFINE to == Following[pc[c]]
  <2>0. /\ to \in {"bind", "listen", "open"}
        /\ to = "bind" <=> pc[c] = "setsockopt"
        /\ to = "listen" <=> pc[c] = "bind"
    BY <1>0 DEF Following
  <2> HIDE DEF to
  <2>1. /\ pc' = [pc EXCEPT ![c] = to] /\ to \in {"bind", "listen", "open"}
        /\ to = "bind" <=> pc[c] = "setsockopt"
        /\ to = "listen" <=> pc[c] = "bind"
    BY <1>1, <2>0 DEF Go, to
  <2>2. addr[c] = Target(c) => Denotes(addr[c]) \in Endpoint
    BY Targets
  <2>3. far' = IF pc[c] = "bind" THEN [far EXCEPT ![c] = Denotes(Target(c))] ELSE far
    BY <1>1 DEF Reach, AddrInv
  <2>4. TypeOK'
    <3>1. pc[c] = "bind" => Denotes(Target(c)) \in Endpoint
      BY <2>2 DEF AddrInv
    <3> QED BY <1>0, <1>1, <2>1, <2>3, <3>1 DEF TypeOK, Stages
  <2>5. OpInv'
    BY <1>0, <2>1, OthersBelong, StagesOfOps DEF OpInv, OneOfAKind
  <2>6. StageInv'
    BY <1>0, <2>1 DEF StageInv, TypeOK, Calls
  <2>7. FdInv'
    <3>1. \A d \in Calls : Holds(d)' <=> Holds(d)
      BY <1>0, <2>1 DEF Holds, HoldsFd, TypeOK
    <3> QED BY <1>0, <3>1 DEF FdInv
  <2>8. OwnSocket'
    <3>1. fdtab[fd[c]] = c
      BY <1>0 DEF FdInv, Holds
    <3> QED BY <1>0, <2>1, <3>1 DEF OwnSocket, HoldsFd, TypeOK
  <2>9. AddrInv'
    BY <1>0, <2>1, <2>3 DEF AddrInv, TypeOK, Calls, Target
  <2>10. ErrnoInv' /\ FailureIsReported'
    BY <1>0, <1>1, <2>1 DEF ErrnoInv, FailureIsReported, TypeOK, Calls
  <2> QED BY <2>4, <2>5, <2>6, <2>7, <2>8, <2>9, <2>10
<1>2. ASSUME NEW e \in Errnos, Go(c, "error"), Fail(c, e), UNCHANGED far
      PROVE  IInv'
  <2>1. e \in Int /\ e # 0
    BY ErrnosAssumption
  <2>2. /\ pc' = [pc EXCEPT ![c] = "error"]
        /\ errno' = [errno EXCEPT ![c] = e] /\ cause' = [cause EXCEPT ![c] = e]
    BY <1>2 DEF Fail, Go
  <2>4. TypeOK'
    BY <1>0, <1>2, <2>2 DEF TypeOK, Stages
  <2>5. OpInv'
    BY <1>0, <2>2, OthersBelong, StagesOfOps DEF OpInv, OneOfAKind
  <2>6. StageInv'
    BY <1>0, <2>2 DEF StageInv, TypeOK, Calls
  <2>7. FdInv'
    <3>1. \A d \in Calls : Holds(d)' <=> Holds(d)
      BY <1>0, <2>2 DEF Holds, HoldsFd, TypeOK
    <3> QED BY <1>0, <1>2, <3>1 DEF FdInv
  <2>8. OwnSocket'
    BY <1>0, <1>2, <2>2 DEF OwnSocket, HoldsFd, TypeOK
  <2>9. AddrInv'
    BY <1>0, <1>2, <2>2 DEF AddrInv, TypeOK, Calls, Target
  <2>10. ErrnoInv' /\ FailureIsReported'
    BY <1>0, <2>1, <2>2 DEF ErrnoInv, FailureIsReported, TypeOK, Calls
  <2> QED BY <2>4, <2>5, <2>6, <2>7, <2>8, <2>9, <2>10
<1> QED BY <1>1, <1>2 DEF Configure

\* What `error:` does preserves the invariant.
LEMMA CloseOnErrorInv ==
  ASSUME IInv, CloseOnError
  PROVE  IInv'
<1> USE DEF IInv
<1> DEFINE c == Listener
<1>0. /\ c \in Calls /\ c \notin Connects \cup Accepts /\ pc[c] = "error" /\ fd[c] \in Fds
      /\ UNCHANGED <<fd, addr, peer, far, shut, inflight, answered, errno, cause>>
      /\ \A o \in inflight \cup answered : o.by # c
  BY StagesOfOps, CallsAssumption DEF CloseOnError, Calls, addrVars, ringVars, FdInv, Holds
<1>1. errno[c] \in Int /\ errno[c] = cause[c]
  <2>1. errno[c] \in Errnos \cup {0}
    BY <1>0 DEF TypeOK
  <2>2. \A e \in Errnos \cup {0} : e \in Int
    BY ErrnosAssumption
  <2>3. errno[c] = cause[c]
    BY <1>0 DEF ErrnoInv
  <2> QED BY <2>1, <2>2, <2>3
<1>2. map_error(errno[c]) \in Statuses /\ map_error(errno[c]) # IO_OK /\ map_error(errno[c]) # NoStatus
  BY <1>1, MapError
<1>3. /\ pc' = [pc EXCEPT ![c] = "threw"] /\ shown' = [shown EXCEPT ![c] = map_error(errno[c])]
      /\ fdtab' = [fdtab EXCEPT ![fd[c]] = Free]
  BY DEF CloseOnError, Throw, Go
<1>4. TypeOK'
  BY <1>0, <1>2, <1>3 DEF TypeOK, Stages
<1>5. OpInv'
  BY <1>0, <1>3, OthersBelong, StagesOfOps DEF OpInv, OneOfAKind
<1>6. StageInv'
  BY <1>0, <1>3 DEF StageInv, TypeOK, Calls
<1>7. FdInv'
  <2>1. \A d \in Calls : Holds(d)' <=> (Holds(d) /\ d # c)
    BY <1>0, <1>3 DEF Holds, HoldsFd, TypeOK
  <2>2. fdtab[fd[c]] = c /\ \A d \in Calls : Free # d
    BY <1>0, CallsAssumption DEF FdInv, Holds
  <2>3. \A g \in Fds : [by |-> c, kind |-> "accept", ret |-> g] \notin answered
    BY <1>0
  <2> QED BY <1>0, <1>3, <2>1, <2>2, <2>3 DEF FdInv, TypeOK
<1>8. OwnSocket'
  <2>1. fdtab[fd[c]] = c
    BY <1>0 DEF FdInv, Holds
  <2> QED BY <1>0, <1>3, <2>1 DEF OwnSocket, HoldsFd, TypeOK
<1>9. AddrInv'
  BY <1>0, <1>3 DEF AddrInv, TypeOK, Calls, Target
<1>10. ErrnoInv' /\ FailureIsReported'
  BY <1>0, <1>1, <1>2, <1>3 DEF ErrnoInv, FailureIsReported, TypeOK, Calls
<1> QED BY <1>4, <1>5, <1>6, <1>7, <1>8, <1>9, <1>10

\* Issuing a connect preserves the invariant.
LEMMA StartConnectInv ==
  ASSUME IInv, NEW c \in Calls, StartConnect(c)
  PROVE  IInv'
<1> USE DEF IInv
<1>0. /\ c \in Connects /\ c \notin Accepts \cup {Listener} /\ pc[c] = "connect"
      /\ UNCHANGED <<fd, peer, far, fdtab, shut, answered, errno, cause, shown>>
      /\ pc' = [pc EXCEPT ![c] = "waiting"] /\ addr' = [addr EXCEPT ![c] = Target(c)]
      /\ Issue(c, "connect", c)
      /\ \A o \in inflight \cup answered : o.by # c
  BY StagesOfOps, CallsAssumption DEF StartConnect, Go, Place, Target, kernelVars, reportVars
<1>1. /\ inflight' \in SUBSET [by : Calls, kind : Kinds, file : Calls]
      /\ OneOfAKind'
      /\ \A o \in inflight' : o \in inflight \/ (o.by = c /\ o.kind = "connect" /\ o.file = c)
      /\ inflight \subseteq inflight'
  <2>1. OneOfAKind /\ "connect" \in Kinds
    BY DEF OpInv, Kinds
  <2> QED BY <1>0, <2>1, Issued
<1>2. Target(c) \in SockAddr
  BY <1>0, Targets
<1>3. DOMAIN pc = Calls /\ DOMAIN addr = Calls
  BY DEF TypeOK
<1>4. TypeOK'
  BY <1>0, <1>1, <1>2 DEF TypeOK, Stages
<1>5. OpInv'
  <2>1. \A o \in inflight' \cup answered' : o.by = c => o.kind = "connect"
    BY <1>0, <1>1
  <2>2. \A o \in inflight' \cup answered' : o.by # c => o \in inflight \cup answered
    BY <1>0, <1>1
  <2>3. \A o \in inflight' \cup answered' : o.by = c => Belongs(o)'
    BY <1>0, <1>3, <2>1 DEF Belongs
  <2>4. \A o \in inflight' \cup answered' : o.by # c => Belongs(o)'
    BY <1>0, <2>2, OthersBelong, StagesOfOps DEF OpInv
  <2> QED BY <1>0, <1>1, <2>3, <2>4 DEF OpInv
<1>6. StageInv'
  BY <1>0, <1>3 DEF StageInv
<1>7. \A d \in Calls : (Holds(d)' <=> Holds(d)) /\ (HoldsFd(d)' => HoldsFd(d))
  BY <1>0, <1>1, <1>3 DEF Holds, HoldsFd
<1>8. FdInv'
  BY <1>0, <1>7 DEF FdInv
<1>9. OwnSocket'
  BY <1>0, <1>1, <1>7 DEF OwnSocket
<1>10. AddrInv'
  BY <1>0, <1>3 DEF AddrInv, Target
<1>11. ErrnoInv' /\ FailureIsReported'
  BY <1>0, <1>3 DEF ErrnoInv, FailureIsReported
<1> QED BY <1>4, <1>5, <1>6, <1>8, <1>9, <1>10, <1>11

\* Resuming from a connect preserves the invariant.
LEMMA ResumeConnectInv ==
  ASSUME IInv, NEW c \in Calls, ResumeConnect(c)
  PROVE  IInv'
<1> USE DEF IInv
<1>0. /\ c \in Connects /\ c \notin Accepts \cup {Listener} /\ pc[c] = "waiting"
      /\ UNCHANGED <<fd, addr, peer, far, shut, inflight>>
      /\ fd[c] \in Fds /\ fdtab[fd[c]] = c /\ Free \notin Calls
      /\ DOMAIN pc = Calls
  <2>1. /\ c \in Connects /\ c \notin Accepts \cup {Listener} /\ pc[c] = "waiting"
        /\ UNCHANGED <<fd, addr, peer, far, shut, inflight>>
        /\ DOMAIN pc = Calls /\ Free \notin Calls
    BY CallsAssumption DEF ResumeConnect, addrVars, TypeOK
  <2>2. Holds(c)
    BY <2>1 DEF Holds
  <2> QED BY <2>1, <2>2 DEF FdInv
<1>1. PICK ret \in Answers, stale \in Errnos \cup {0} :
        /\ Take(c, "connect", ret)
        /\ errno' = [errno EXCEPT ![c] = stale]
        /\ IF success(map_result(ret))
             THEN Go(c, "open") /\ UNCHANGED <<fdtab, cause, shown>>
             ELSE /\ fdtab' = [fdtab EXCEPT ![fd[c]] = Free]
                  /\ cause' = [cause EXCEPT ![c] = -ret]
                  /\ Throw(c, map_error(stale))
  BY DEF ResumeConnect
<1>2. /\ answered' \in SUBSET [by : Calls, kind : Kinds, ret : Answers]
      /\ OneOfAKind'
      /\ answered' \subseteq answered
      /\ \A o \in inflight' \cup answered' : o.by = c => o.kind # "connect"
      /\ \E p \in answered : p.by = c /\ p.kind = "connect" /\ p.ret = ret
      /\ \A p \in answered : p.by # c \/ p.kind # "connect" => p \in answered'
  <2>1. OneOfAKind /\ "connect" \in Kinds
    BY DEF OpInv, Kinds
  <2> QED BY <1>0, <1>1, <2>1, Taken
<1>3. \A o \in inflight' \cup answered' : o.by # c /\ o \in inflight \cup answered
  BY <1>0, <1>2, StagesOfOps DEF OpInv
<1>4. /\ \A g \in Fds, d \in Calls :
           [by |-> d, kind |-> "accept", ret |-> g] \in answered'
             <=> [by |-> d, kind |-> "accept", ret |-> g] \in answered
  BY <1>2
<1>5. /\ success(map_result(ret)) <=> ret >= 0
      /\ ret < 0 => -ret \in Errnos
      /\ ret \in Int
  BY MapResult
<1>6. ret >= 0 => far[c] = Denotes(addr[c])
  BY <1>2 DEF AddrInv
<1>7. \A g \in Fds : [by |-> c, kind |-> "accept", ret |-> g] \notin answered
  <2> SUFFICES ASSUME NEW g \in Fds, [by |-> c, kind |-> "accept", ret |-> g] \in answered PROVE FALSE
    OBVIOUS
  <2> DEFINE p == [by |-> c, kind |-> "accept", ret |-> g]
  <2>1. p.kind = "accept" /\ p.by = c /\ p \in answered
    OBVIOUS
  <2> HIDE DEF p
  <2> QED BY <1>0, <2>1 DEF OpInv, Belongs
<1>8. ASSUME NEW to \in {"open", "threw"}, pc' = [pc EXCEPT ![c] = to]
      PROVE  OpInv' /\ StageInv' /\ ErrnoInv'
  <2>1. OpInv'
    BY <1>0, <1>2, <1>3, <1>8, OthersBelong, StagesOfOps DEF OpInv
  <2>2. StageInv'
    BY <1>0, <1>8 DEF StageInv
  <2>3. pc'[Listener] = pc[Listener] /\ errno'[Listener] = errno[Listener] /\ cause'[Listener] = cause[Listener]
    <3>1. Listener \in Calls /\ Listener # c
      BY <1>0 DEF Calls
    <3> QED BY <1>1, <1>8, <3>1 DEF TypeOK
  <2> QED BY <2>1, <2>2, <2>3 DEF ErrnoInv
<1>9. CASE ret >= 0
  <2>1. pc' = [pc EXCEPT ![c] = "open"] /\ UNCHANGED <<fdtab, cause, shown>>
    BY <1>1, <1>5, <1>9 DEF Go
  <2>2. TypeOK'
    BY <1>0, <1>1, <1>2, <2>1 DEF TypeOK, Stages
  <2>3. OpInv' /\ StageInv' /\ ErrnoInv'
    BY <1>8, <2>1
  <2>4. \A d \in Calls : (Holds(d)' <=> Holds(d)) /\ (HoldsFd(d)' => HoldsFd(d) \/ d = c)
    BY <1>0, <2>1 DEF Holds, HoldsFd
  <2>5. FdInv'
    BY <1>0, <1>4, <2>1, <2>4 DEF FdInv
  <2>6. OwnSocket'
    BY <1>0, <2>1, <2>4 DEF OwnSocket
  <2>7. AddrInv'
    BY <1>0, <1>2, <1>6, <1>9, <2>1 DEF AddrInv, Target
  <2>8. FailureIsReported'
    BY <1>0, <2>1 DEF FailureIsReported
  <2> QED BY <2>2, <2>3, <2>5, <2>6, <2>7, <2>8
<1>10. CASE ret < 0
  <2>1. /\ pc' = [pc EXCEPT ![c] = "threw"] /\ shown' = [shown EXCEPT ![c] = map_error(stale)]
        /\ fdtab' = [fdtab EXCEPT ![fd[c]] = Free] /\ cause' = [cause EXCEPT ![c] = -ret]
    BY <1>1, <1>5, <1>10 DEF Go, Throw
  <2>2. stale \in Int /\ map_error(stale) \in Statuses /\ map_error(stale) # IO_OK /\ map_error(stale) # NoStatus
    <3>1. \A e \in Errnos \cup {0} : e \in Int
      BY ErrnosAssumption
    <3> QED BY <3>1, MapError
  <2>3. TypeOK'
    BY <1>0, <1>1, <1>2, <1>5, <1>10, <2>1, <2>2 DEF TypeOK, Stages
  <2>4. OpInv' /\ StageInv' /\ ErrnoInv'
    BY <1>8, <2>1
  <2>5. \A d \in Calls : (Holds(d)' <=> Holds(d) /\ d # c) /\ (HoldsFd(d)' => HoldsFd(d) /\ d # c)
    BY <1>0, <2>1 DEF Holds, HoldsFd
  <2>6. FdInv'
    BY <1>0, <1>4, <1>7, <2>1, <2>5 DEF FdInv, TypeOK
  <2>7. OwnSocket'
    BY <1>0, <2>1, <2>5 DEF OwnSocket, TypeOK
  <2>8. AddrInv'
    BY <1>0, <1>2, <2>1 DEF AddrInv, Target
  <2>9. FailureIsReported'
    BY <1>0, <2>1, <2>2 DEF FailureIsReported, TypeOK
  <2> QED BY <2>3, <2>4, <2>6, <2>7, <2>8, <2>9
<1> QED BY <1>5, <1>9, <1>10

\* Issuing an accept preserves the invariant.
LEMMA StartAcceptInv ==
  ASSUME IInv, NEW c \in Calls, StartAccept(c)
  PROVE  IInv'
<1> USE DEF IInv
<1> DEFINE in0 == ZeroAddr(Asked[Listener].ip.mFamily)
<1>0. /\ c \in Accepts /\ c \notin Connects \cup {Listener} /\ pc[c] = "idle"
      /\ UNCHANGED <<fd, peer, far, fdtab, shut, answered, errno, cause, shown>>
      /\ pc' = [pc EXCEPT ![c] = "waiting"] /\ addr' = [addr EXCEPT ![c] = in0]
      /\ Issue(c, "accept", Listener)
      /\ \A o \in inflight \cup answered : o.by # c
  <2>1. fdtab[fd[Listener]] = Listener
    BY DEF StartAccept, OwnSocket, HoldsFd, Calls
  <2> QED BY <2>1, StagesOfOps, CallsAssumption DEF StartAccept, Go, Place, kernelVars, reportVars
<1>1. /\ inflight' \in SUBSET [by : Calls, kind : Kinds, file : Calls]
      /\ OneOfAKind'
      /\ \A o \in inflight' : o \in inflight \/ (o.by = c /\ o.kind = "accept" /\ o.file = Listener)
      /\ inflight \subseteq inflight'
  <2>1. OneOfAKind /\ "accept" \in Kinds /\ Listener \in Calls
    BY DEF OpInv, Kinds, Calls
  <2> QED BY <1>0, <2>1, Issued
<1>2. in0 \in SockAddr
  BY AskedAssumption, ZeroAddrType DEF Address
<1> HIDE DEF in0
<1>3. DOMAIN pc = Calls /\ DOMAIN addr = Calls
  BY DEF TypeOK
<1>4. TypeOK'
  BY <1>0, <1>1, <1>2 DEF TypeOK, Stages
<1>5. OpInv'
  <2>1. \A o \in inflight' \cup answered' : o.by = c => o.kind = "accept"
    BY <1>0, <1>1
  <2>2. \A o \in inflight' \cup answered' : o.by # c => o \in inflight \cup answered
    BY <1>0, <1>1
  <2>3. \A o \in inflight' \cup answered' : o.by = c => Belongs(o)'
    BY <1>0, <1>3, <2>1 DEF Belongs
  <2>4. \A o \in inflight' \cup answered' : o.by # c => Belongs(o)'
    BY <1>0, <2>2, OthersBelong, StagesOfOps DEF OpInv
  <2> QED BY <1>0, <1>1, <2>3, <2>4 DEF OpInv
<1>6. StageInv'
  BY <1>0, <1>3 DEF StageInv
<1>7. \A d \in Calls : (Holds(d)' <=> Holds(d)) /\ (HoldsFd(d)' => HoldsFd(d))
  BY <1>0, <1>1, <1>3 DEF Holds, HoldsFd
<1>8. FdInv'
  BY <1>0, <1>7 DEF FdInv
<1>9. OwnSocket'
  BY <1>0, <1>1, <1>7 DEF OwnSocket
<1>10. AddrInv'
  BY <1>0, <1>3 DEF AddrInv, Target
<1>11. ErrnoInv' /\ FailureIsReported'
  BY <1>0, <1>3 DEF ErrnoInv, FailureIsReported
<1> QED BY <1>4, <1>5, <1>6, <1>8, <1>9, <1>10, <1>11

\* Resuming from an accept preserves the invariant.
LEMMA ResumeAcceptInv ==
  ASSUME IInv, NEW c \in Calls, ResumeAccept(c)
  PROVE  IInv'
<1> USE DEF IInv
<1>0. /\ c \in Accepts /\ c \notin Connects \cup {Listener} /\ pc[c] = "waiting"
      /\ UNCHANGED <<addr, far, fdtab, shut, inflight, errno>>
      /\ DOMAIN pc = Calls /\ DOMAIN fd = Calls /\ DOMAIN peer = Calls
  BY CallsAssumption DEF ResumeAccept, kernelVars, TypeOK
<1>1. PICK ret \in Answers :
        /\ Take(c, "accept", ret)
        /\ IF success(map_result(ret))
             THEN /\ fd' = [fd EXCEPT ![c] = ret]
                  /\ peer' = [peer EXCEPT ![c] = from_os_ip(addr[c])]
                  /\ Go(c, "open")
                  /\ UNCHANGED <<cause, shown>>
             ELSE /\ cause' = [cause EXCEPT ![c] = -ret]
                  /\ Throw(c, error(map_result(ret)))
                  /\ UNCHANGED <<fd, peer>>
  BY DEF ResumeAccept
<1>2. /\ answered' \in SUBSET [by : Calls, kind : Kinds, ret : Answers]
      /\ OneOfAKind'
      /\ answered' \subseteq answered
      /\ \A o \in inflight' \cup answered' : o.by = c => o.kind # "accept"
      /\ \E p \in answered : p.by = c /\ p.kind = "accept" /\ p.ret = ret
      /\ \A p \in answered : p.by = c /\ p.kind = "accept" => p.ret = ret
      /\ \A p \in answered : p.by # c \/ p.kind # "accept" => p \in answered'
  <2>1. OneOfAKind /\ "accept" \in Kinds
    BY DEF OpInv, Kinds
  <2> QED BY <1>0, <1>1, <2>1, Taken
<1>3. \A o \in inflight' \cup answered' : o.by # c /\ o \in inflight \cup answered
  BY <1>0, <1>2, StagesOfOps DEF OpInv
<1>4. \A g \in Fds, d \in Calls :
        /\ d # c => ([by |-> d, kind |-> "accept", ret |-> g] \in answered'
                       <=> [by |-> d, kind |-> "accept", ret |-> g] \in answered)
        /\ [by |-> c, kind |-> "accept", ret |-> g] \notin answered'
        /\ [by |-> c, kind |-> "accept", ret |-> g] \in answered => g = ret
  BY <1>2
<1>5. /\ success(map_result(ret)) <=> ret >= 0
      /\ ret < 0 => -ret \in Errnos /\ error(map_result(ret)) = map_error(ret)
      /\ ret \in Int
  BY MapResult
<1>6. ret >= 0 => far[c] = Denotes(addr[c]) /\ ret \in Fds /\ fdtab[ret] = c
  <2> SUFFICES ASSUME ret >= 0 PROVE far[c] = Denotes(addr[c]) /\ ret \in Fds /\ fdtab[ret] = c
    OBVIOUS
  <2>1. far[c] = Denotes(addr[c]) /\ ret \in Fds
    BY <1>2 DEF AddrInv, OpInv
  <2>2. [by |-> c, kind |-> "accept", ret |-> ret] \in answered
    BY <1>1 DEF Take
  <2> QED BY <2>1, <2>2 DEF FdInv
<1>8. ASSUME NEW to \in {"open", "threw"}, pc' = [pc EXCEPT ![c] = to]
      PROVE  OpInv' /\ StageInv' /\ ErrnoInv'
  <2>1. OpInv'
    BY <1>0, <1>2, <1>3, <1>8, OthersBelong, StagesOfOps DEF OpInv
  <2>2. StageInv'
    BY <1>0, <1>8 DEF StageInv
  <2>3. pc'[Listener] = pc[Listener] /\ errno'[Listener] = errno[Listener] /\ cause'[Listener] = cause[Listener]
    <3>1. Listener \in Calls /\ Listener # c
      BY <1>0 DEF Calls
    <3> QED BY <1>0, <1>1, <1>8, <3>1 DEF TypeOK
  <2> QED BY <2>1, <2>2, <2>3 DEF ErrnoInv
<1>9. CASE ret >= 0
  <2>1. /\ pc' = [pc EXCEPT ![c] = "open"] /\ UNCHANGED <<cause, shown>>
        /\ fd' = [fd EXCEPT ![c] = ret] /\ peer' = [peer EXCEPT ![c] = from_os_ip(addr[c])]
    BY <1>1, <1>5, <1>9 DEF Go
  <2>2. peer'[c] = far[c]
    <3>1. from_os_ip(addr[c]) = Denotes(addr[c])
      BY DEF from_os_ip, Denotes, ntohs, Swap16
    <3> QED BY <1>0, <1>6, <1>9, <2>1, <3>1
  <2>3. far[c] \in Endpoint \cup {NoPeer} /\ peer' = [peer EXCEPT ![c] = far[c]]
    BY <1>0, <2>1, <2>2 DEF TypeOK
  <2>4. TypeOK'
    BY <1>0, <1>2, <1>6, <1>9, <2>1, <2>3 DEF TypeOK, Stages
  <2>5. OpInv' /\ StageInv' /\ ErrnoInv'
    BY <1>8, <2>1
  <2>6. ~Holds(c) /\ Holds(c)' /\ HoldsFd(c)'
    BY <1>0, <2>1 DEF Holds, HoldsFd
  <2>7. \A d \in Calls : d # c => /\ (Holds(d)' <=> Holds(d)) /\ (HoldsFd(d)' <=> HoldsFd(d))
                                  /\ fd'[d] = fd[d]
    BY <1>0, <2>1 DEF Holds, HoldsFd
  <2>8. fd'[c] = ret
    BY <1>0, <2>1
  <2>9. FdInv'
    <3>1. \A g \in Fds : fdtab[g] = c => g = ret
      BY <1>4, <2>6 DEF FdInv
    <3>2. \A g \in Fds : fdtab'[g] = c <=> \/ Holds(c)' /\ fd'[c] = g
                                           \/ [by |-> c, kind |-> "accept", ret |-> g] \in answered'
      BY <1>0, <1>4, <1>6, <1>9, <2>6, <2>8, <3>1
    <3>3. \A g \in Fds, d \in Calls : d # c =>
            (fdtab'[g] = d <=> \/ Holds(d)' /\ fd'[d] = g
                               \/ [by |-> d, kind |-> "accept", ret |-> g] \in answered')
      <4> SUFFICES ASSUME NEW g \in Fds, NEW d \in Calls, d # c
                   PROVE  fdtab'[g] = d <=> \/ Holds(d)' /\ fd'[d] = g
                                            \/ [by |-> d, kind |-> "accept", ret |-> g] \in answered'
        OBVIOUS
      <4> DEFINE p == [by |-> d, kind |-> "accept", ret |-> g]
      <4>1. fdtab[g] = d <=> (Holds(d) /\ fd[d] = g) \/ p \in answered
        BY DEF FdInv
      <4>2. p \in answered' <=> p \in answered
        BY <1>4
      <4> HIDE DEF p
      <4>3. fdtab'[g] = d <=> (Holds(d)' /\ fd'[d] = g) \/ p \in answered'
        BY <1>0, <2>7, <4>1, <4>2
      <4> QED BY <4>3 DEF p
    <3>4. \A d \in Calls : Holds(d)' => fd'[d] \in Fds
      BY <1>6, <1>9, <2>7, <2>8 DEF FdInv
    <3> QED BY <3>2, <3>3, <3>4 DEF FdInv
  <2>10. OwnSocket'
    BY <1>0, <1>6, <1>9, <2>7, <2>8 DEF OwnSocket
  <2>11. AddrInv'
    BY <1>0, <1>2, <1>3, <2>1, <2>3 DEF AddrInv, Target
  <2>12. FailureIsReported'
    BY <1>0, <2>1 DEF FailureIsReported
  <2> QED BY <2>4, <2>5, <2>9, <2>10, <2>11, <2>12
<1>10. CASE ret < 0
  <2>1. /\ pc' = [pc EXCEPT ![c] = "threw"] /\ shown' = [shown EXCEPT ![c] = map_error(ret)]
        /\ cause' = [cause EXCEPT ![c] = -ret] /\ UNCHANGED <<fd, peer>>
    BY <1>1, <1>5, <1>10 DEF Go, Throw
  <2>2. map_error(ret) \in Statuses /\ map_error(ret) # IO_OK /\ map_error(ret) # NoStatus
    BY <1>5, MapError
  <2>3. TypeOK'
    BY <1>0, <1>2, <1>5, <1>10, <2>1, <2>2 DEF TypeOK, Stages
  <2>4. OpInv' /\ StageInv' /\ ErrnoInv'
    BY <1>8, <2>1
  <2>5. \A d \in Calls : (Holds(d)' <=> Holds(d)) /\ (HoldsFd(d)' => HoldsFd(d))
    BY <1>0, <2>1 DEF Holds, HoldsFd
  <2>6. \A g \in Fds : [by |-> c, kind |-> "accept", ret |-> g] \notin answered
    BY <1>4, <1>5, <1>10, FdsAssumption
  <2>7. FdInv'
    BY <1>0, <1>4, <2>1, <2>5, <2>6 DEF FdInv
  <2>8. OwnSocket'
    BY <1>0, <2>1, <2>5 DEF OwnSocket
  <2>9. AddrInv'
    BY <1>0, <1>2, <2>1 DEF AddrInv, Target
  <2>10. FailureIsReported'
    BY <1>0, <2>1, <2>2 DEF FailureIsReported, TypeOK
  <2> QED BY <2>3, <2>4, <2>7, <2>8, <2>9, <2>10
<1> QED BY <1>5, <1>9, <1>10

\* Starting a transfer preserves the invariant.
LEMMA StartTransferInv ==
  ASSUME IInv, NEW c \in Calls, StartTransfer(c)
  PROVE  IInv'
<1> USE DEF IInv
<1>0. /\ c \in Connects \cup Accepts /\ c # Listener /\ pc[c] = "open"
      /\ UNCHANGED <<pc, fd, addr, peer, far, fdtab, shut, answered, errno, cause, shown>>
      /\ Issue(c, "transfer", c)
      /\ \A o \in inflight \cup answered : o.by = c => o.kind # "transfer"
  <2>1. fdtab[fd[c]] = c
    BY DEF StartTransfer, OwnSocket, HoldsFd
  <2> QED BY <2>1, CallsAssumption DEF StartTransfer, Transferring, kernelVars, reportVars, addrVars
<1>1. /\ inflight' \in SUBSET [by : Calls, kind : Kinds, file : Calls]
      /\ OneOfAKind'
      /\ \A o \in inflight' : o \in inflight \/ (o.by = c /\ o.kind = "transfer" /\ o.file = c)
      /\ inflight \subseteq inflight'
  <2>1. OneOfAKind /\ "transfer" \in Kinds
    BY DEF OpInv, Kinds
  <2> QED BY <1>0, <2>1, Issued
<1>2. TypeOK'
  BY <1>0, <1>1 DEF TypeOK
<1>3. OpInv'
  BY <1>0, <1>1 DEF OpInv, Belongs
<1>4. StageInv' /\ AddrInv' /\ ErrnoInv' /\ FailureIsReported'
  BY <1>0 DEF StageInv, AddrInv, ErrnoInv, FailureIsReported, Target
<1>5. \A d \in Calls : (Holds(d)' <=> Holds(d)) /\ (HoldsFd(d)' <=> HoldsFd(d))
  BY <1>0, <1>1 DEF Holds, HoldsFd
<1>6. FdInv' /\ OwnSocket'
  BY <1>0, <1>1, <1>5 DEF FdInv, OwnSocket
<1> QED BY <1>2, <1>3, <1>4, <1>6

\* Resuming from a transfer preserves the invariant.
LEMMA ResumeTransferInv ==
  ASSUME IInv, NEW c \in Calls, ResumeTransfer(c)
  PROVE  IInv'
<1> USE DEF IInv
<1>0. UNCHANGED <<pc, fd, addr, peer, far, fdtab, shut, inflight, errno, cause, shown>>
  BY DEF ResumeTransfer, kernelVars, reportVars, addrVars
<1>1. PICK ret \in Answers : Take(c, "transfer", ret)
  BY DEF ResumeTransfer
<1>2. /\ answered' \in SUBSET [by : Calls, kind : Kinds, ret : Answers]
      /\ OneOfAKind'
      /\ answered' \subseteq answered
      /\ \A p \in answered : p.by # c \/ p.kind # "transfer" => p \in answered'
  <2>1. OneOfAKind /\ "transfer" \in Kinds
    BY DEF OpInv, Kinds
  <2> QED BY <1>0, <1>1, <2>1, Taken
<1>3. \A g, d : [by |-> d, kind |-> "accept", ret |-> g] \in answered'
                  <=> [by |-> d, kind |-> "accept", ret |-> g] \in answered
  BY <1>2
<1>4. TypeOK'
  BY <1>0, <1>2 DEF TypeOK
<1>5. OpInv'
  BY <1>0, <1>2 DEF OpInv, Belongs
<1>6. StageInv' /\ ErrnoInv' /\ FailureIsReported' /\ OwnSocket'
  BY <1>0 DEF StageInv, ErrnoInv, FailureIsReported, OwnSocket, HoldsFd
<1>7. AddrInv'
  BY <1>0, <1>2 DEF AddrInv, Target
<1>8. FdInv'
  BY <1>0, <1>3 DEF FdInv, Holds, HoldsFd
<1> QED BY <1>4, <1>5, <1>6, <1>7, <1>8

\* Close preserves the invariant.
LEMMA CloseInv ==
  ASSUME IInv, NEW c \in Calls, Close(c)
  PROVE  IInv'
<1> USE DEF IInv
<1>0. /\ pc[c] = "open" /\ DOMAIN pc = Calls
      /\ UNCHANGED <<fd, addr, peer, far, fdtab, answered, errno, cause, shown>>
      /\ pc' = [pc EXCEPT ![c] = "closing"] /\ shut' = shut \cup {c}
      /\ Issue(c, "close", c)
      /\ \A o \in inflight \cup answered : o.by = c => o.kind = "transfer" /\ c # Listener
  <2>1. fdtab[fd[c]] = c
    BY DEF Close, OwnSocket, HoldsFd
  <2> QED BY <2>1, StagesOfOps DEF Close, Go, reportVars, addrVars, TypeOK
<1>1. /\ inflight' \in SUBSET [by : Calls, kind : Kinds, file : Calls]
      /\ OneOfAKind'
      /\ \A o \in inflight' : o \in inflight \/ (o.by = c /\ o.kind = "close" /\ o.file = c)
      /\ inflight \subseteq inflight'
  <2>1. OneOfAKind /\ "close" \in Kinds
    BY DEF OpInv, Kinds
  <2> QED BY <1>0, <2>1, Issued
<1>2. TypeOK'
  BY <1>0, <1>1 DEF TypeOK, Stages
<1>3. OpInv'
  <2>1. ASSUME NEW o \in inflight' \cup answered' PROVE Belongs(o)'
    <3>1. CASE o.by # c
      BY <1>0, <1>1, <3>1, OthersBelong, StagesOfOps DEF OpInv
    <3>2. CASE o.by = c /\ o \in inflight \cup answered
      BY <1>0, <3>2 DEF OpInv, Belongs
    <3>3. CASE o.by = c /\ o.kind = "close"
      BY <1>0, <3>3 DEF Belongs
    <3> QED BY <1>0, <1>1, <3>1, <3>2, <3>3
  <2> QED BY <1>0, <1>1, <2>1 DEF OpInv
<1>4. StageInv' /\ AddrInv' /\ ErrnoInv' /\ FailureIsReported'
  BY <1>0 DEF StageInv, AddrInv, ErrnoInv, FailureIsReported, Target
<1>5. \A d \in Calls : (Holds(d)' <=> Holds(d)) /\ (HoldsFd(d)' <=> HoldsFd(d))
  <2>1. [by |-> c, kind |-> "close", file |-> c] \in inflight'
    BY <1>0 DEF Issue
  <2>2. HoldsFd(c) /\ HoldsFd(c)' /\ Holds(c) /\ Holds(c)'
    BY <1>0, <2>1 DEF Holds, HoldsFd
  <2>3. \A d \in Calls : d # c => (Holds(d)' <=> Holds(d)) /\ (HoldsFd(d)' <=> HoldsFd(d))
    BY <1>0, <1>1 DEF Holds, HoldsFd
  <2> QED BY <2>2, <2>3
<1>6. FdInv' /\ OwnSocket'
  BY <1>0, <1>1, <1>5 DEF FdInv, OwnSocket
<1> QED BY <1>2, <1>3, <1>4, <1>6

\* Resuming from a close preserves the invariant.
LEMMA ResumeCloseInv ==
  ASSUME IInv, NEW c \in Calls, ResumeClose(c)
  PROVE  IInv'
<1> USE DEF IInv
<1>0. /\ pc[c] = "closing" /\ DOMAIN pc = Calls
      /\ UNCHANGED <<fd, addr, peer, far, fdtab, shut, inflight, errno, cause>>
      /\ pc' = [pc EXCEPT ![c] = "closed"]
  BY DEF ResumeClose, Go, kernelVars, addrVars, TypeOK
<1>1. PICK ret \in Answers : Take(c, "close", ret) /\ shown' = [shown EXCEPT ![c] = map_error(ret)]
  BY DEF ResumeClose
<1>2. /\ answered' \in SUBSET [by : Calls, kind : Kinds, ret : Answers]
      /\ OneOfAKind'
      /\ answered' \subseteq answered
      /\ \A o \in inflight' \cup answered' : o.by = c => o.kind # "close"
      /\ \E p \in answered : p.by = c /\ p.kind = "close"
      /\ \A p \in answered : p.by # c \/ p.kind # "close" => p \in answered'
  <2>1. OneOfAKind /\ "close" \in Kinds
    BY DEF OpInv, Kinds
  <2> QED BY <1>0, <1>1, <2>1, Taken
<1>3. \A g, d : [by |-> d, kind |-> "accept", ret |-> g] \in answered'
                  <=> [by |-> d, kind |-> "accept", ret |-> g] \in answered
  BY <1>2
<1>4. map_error(ret) \in Statuses
  BY MapError, MapResult
<1>5. TypeOK'
  BY <1>0, <1>1, <1>2, <1>4 DEF TypeOK, Stages
<1>6. OpInv'
  <2>1. ASSUME NEW o \in inflight' \cup answered' PROVE Belongs(o)'
    <3>1. CASE o.by # c
      BY <1>0, <1>2, <3>1, OthersBelong, StagesOfOps DEF OpInv
    <3>2. CASE o.by = c
      <4>1. o \in inflight \cup answered /\ o.kind # "close"
        BY <1>0, <1>2, <3>2
      <4>2. o.kind = "transfer" /\ Belongs(o)
        BY <1>0, <3>2, <4>1, StagesOfOps DEF OpInv
      <4> QED BY <1>0, <3>2, <4>2 DEF Belongs
    <3> QED BY <3>1, <3>2
  <2> QED BY <1>0, <1>2, <2>1 DEF OpInv
<1>7. StageInv' /\ ErrnoInv' /\ FailureIsReported'
  BY <1>0, <1>1 DEF StageInv, ErrnoInv, FailureIsReported, TypeOK
<1>8. AddrInv'
  BY <1>0, <1>2 DEF AddrInv, Target
<1>9. \A d \in Calls : (Holds(d)' <=> Holds(d)) /\ (HoldsFd(d)' <=> HoldsFd(d))
  <2>1. [by |-> c, kind |-> "close", file |-> c] \notin inflight
    <3> SUFFICES ASSUME [by |-> c, kind |-> "close", file |-> c] \in inflight PROVE FALSE
      OBVIOUS
    <3> DEFINE o == [by |-> c, kind |-> "close", file |-> c]
    <3>1. o \in inflight' /\ o.by = c /\ o.kind = "close"
      BY <1>0
    <3> HIDE DEF o
    <3> QED BY <1>2, <3>1
  <2>2. ~HoldsFd(c) /\ ~HoldsFd(c)' /\ ~Holds(c) /\ ~Holds(c)'
    BY <1>0, <2>1 DEF Holds, HoldsFd
  <2>3. \A d \in Calls : d # c => (Holds(d)' <=> Holds(d)) /\ (HoldsFd(d)' <=> HoldsFd(d))
    BY <1>0 DEF Holds, HoldsFd
  <2> QED BY <2>2, <2>3
<1>10. FdInv' /\ OwnSocket'
  BY <1>0, <1>3, <1>9 DEF FdInv, OwnSocket
<1> QED BY <1>5, <1>6, <1>7, <1>8, <1>10

\* The kernel's answer to a connect preserves the invariant.
LEMMA KernelConnectInv ==
  ASSUME IInv, NEW r \in inflight, KernelConnect(r)
  PROVE  IInv'
<1> USE DEF IInv
<1> DEFINE c == r.by
<1>0. /\ r.kind = "connect" /\ c \in Connects /\ c \notin Accepts \cup {Listener} /\ pc[c] = "waiting"
      /\ UNCHANGED <<pc, fd, addr, peer, fdtab, shut, errno, cause, shown>>
      /\ addr[c] = Target(c) /\ Denotes(addr[c]) \in Endpoint
      /\ DOMAIN far = Calls /\ c \in Calls
  <2>1. r.kind = "connect" /\ c \in Connects /\ pc[c] = "waiting"
    BY DEF KernelConnect, OpInv, Belongs
  <2>2. addr[c] = Target(c)
    BY <2>1 DEF AddrInv
  <2> QED BY <2>1, <2>2, Targets, CallsAssumption DEF KernelConnect, kernelVars, reportVars, Calls, TypeOK
<1>1. PICK ret \in {0} \cup {-e : e \in Errnos} :
        /\ Answer(r, ret)
        /\ far' = [far EXCEPT ![c] = Denotes(addr[c])] \/ (UNCHANGED far /\ ret < 0)
  BY ErrnosAssumption DEF KernelConnect, Reach
<1>2. ret \in Answers
  BY DEF Answers
<1>3. /\ inflight' \in SUBSET [by : Calls, kind : Kinds, file : Calls]
      /\ answered' \in SUBSET [by : Calls, kind : Kinds, ret : Answers]
      /\ OneOfAKind'
      /\ inflight' \subseteq inflight /\ answered \subseteq answered'
      /\ \A o \in inflight : ~SameOp(o, r) => o \in inflight'
      /\ \A p \in answered : ~SameOp(p, r)
      /\ \A p \in answered' : p \in answered \/ (p.by = c /\ p.kind = "connect" /\ p.ret = ret)
  <2>1. OneOfAKind /\ TypeOK
    BY DEF OpInv
  <2>2. Answer(r, ret) /\ r.kind = "connect"
    BY <1>0, <1>1
  <2> QED BY <1>2, <2>1, <2>2, Answered
<1>4. TypeOK'
  BY <1>0, <1>1, <1>3 DEF TypeOK
<1>5. OpInv'
  BY <1>0, <1>3 DEF OpInv, Belongs
<1>6. StageInv' /\ ErrnoInv' /\ FailureIsReported'
  BY <1>0 DEF StageInv, ErrnoInv, FailureIsReported
<1>7. AddrInv'
  <2>1. \A d \in Calls : d # c => far'[d] = far[d]
    BY <1>0, <1>1
  <2>2. ret >= 0 => far'[c] = Denotes(addr[c])
    BY <1>0, <1>1
  <2>3. \A p \in answered : p.kind \in {"connect", "accept"} => p.by \in Calls /\ p.by # c
    BY <1>0, <1>3, StagesOfOps DEF SameOp, OpInv, Belongs
  <2>4. \A p \in answered' : p.kind \in {"connect", "accept"} /\ p.ret >= 0 => far'[p.by] = Denotes(addr[p.by])
    BY <1>3, <2>1, <2>2, <2>3 DEF AddrInv
  <2> QED BY <1>0, <2>1, <2>4 DEF AddrInv, Target, Calls
<1>8. \A d \in Calls : (Holds(d)' <=> Holds(d)) /\ (HoldsFd(d)' <=> HoldsFd(d))
  BY <1>0, <1>3 DEF Holds, HoldsFd, SameOp
<1>9. \A g, d : [by |-> d, kind |-> "accept", ret |-> g] \in answered'
                  <=> [by |-> d, kind |-> "accept", ret |-> g] \in answered
  BY <1>3
<1>10. FdInv' /\ OwnSocket'
  BY <1>0, <1>3, <1>8, <1>9 DEF FdInv, OwnSocket
<1> QED BY <1>4, <1>5, <1>6, <1>7, <1>10

\* The kernel's answer to an accept preserves the invariant.
LEMMA KernelAcceptInv ==
  ASSUME IInv, NEW r \in inflight, KernelAccept(r)
  PROVE  IInv'
<1> USE DEF IInv
<1> DEFINE c == r.by
<1>0. /\ r.kind = "accept" /\ c \in Accepts /\ c \notin Connects \cup {Listener} /\ pc[c] = "waiting"
      /\ UNCHANGED <<pc, fd, peer, shut, errno, cause, shown>>
      /\ DOMAIN far = Calls /\ DOMAIN addr = Calls /\ DOMAIN fdtab = Fds /\ c \in Calls
  <2>1. r.kind = "accept" /\ c \in Accepts /\ pc[c] = "waiting"
    BY DEF KernelAccept, OpInv, Belongs
  <2> QED BY <2>1, CallsAssumption DEF KernelAccept, reportVars, Calls, TypeOK
<1>1. \A p \in answered : p.kind \in {"connect", "accept"} => p.by \in Calls /\ p.by # c
  <2>1. \A p \in answered : ~SameOp(r, p)
    BY DEF OpInv, OneOfAKind
  <2> QED BY <1>0, <2>1, StagesOfOps DEF SameOp, OpInv, Belongs
<1>2. ASSUME NEW ret \in Answers, Answer(r, ret),
             ret >= 0 => ret \in Fds,
             far' \in [Calls -> Endpoint \cup {NoPeer}], addr' \in [Calls -> SockAddr \cup {NoAddr}],
             \A d \in Calls : d # c => far'[d] = far[d] /\ addr'[d] = addr[d],
             ret >= 0 => far'[c] = Denotes(addr'[c]),
             fdtab' = IF ret >= 0 THEN [fdtab EXCEPT ![ret] = c] ELSE fdtab,
             ret >= 0 => fdtab[ret] = Free
      PROVE  IInv'
  <2>1. /\ inflight' \in SUBSET [by : Calls, kind : Kinds, file : Calls]
        /\ answered' \in SUBSET [by : Calls, kind : Kinds, ret : Answers]
        /\ OneOfAKind'
        /\ inflight' \subseteq inflight /\ answered \subseteq answered'
        /\ \A o \in inflight : ~SameOp(o, r) => o \in inflight'
        /\ \A p \in answered' : p \in answered \/ (p.by = c /\ p.kind = "accept" /\ p.ret = ret)
        /\ [by |-> c, kind |-> "accept", ret |-> ret] \in answered'
    <3>1. OneOfAKind
      BY DEF OpInv
    <3> QED BY <1>0, <1>2, <3>1, Answered
  <2>2. TypeOK'
    BY <1>0, <1>2, <2>1 DEF TypeOK
  <2>3. OpInv'
    BY <1>0, <1>2, <2>1 DEF OpInv, Belongs
  <2>4. StageInv' /\ ErrnoInv' /\ FailureIsReported'
    BY <1>0 DEF StageInv, ErrnoInv, FailureIsReported
  <2>5. AddrInv'
    <3>1. \A p \in answered' : p.kind \in {"connect", "accept"} /\ p.ret >= 0 => far'[p.by] = Denotes(addr'[p.by])
      BY <1>1, <1>2, <2>1 DEF AddrInv
    <3> QED BY <1>0, <1>2, <3>1 DEF AddrInv, Target, Calls
  <2>6. \A d \in Calls : (Holds(d)' <=> Holds(d)) /\ (HoldsFd(d)' <=> HoldsFd(d))
    BY <1>0, <2>1 DEF Holds, HoldsFd, SameOp
  <2>7. ~Holds(c) /\ \A g : [by |-> c, kind |-> "accept", ret |-> g] \notin answered
    BY <1>0, <1>1 DEF Holds, HoldsFd
  <2>8. \A d \in Calls : Free # d
    BY CallsAssumption
  <2>9. \A g, d : d # c => ([by |-> d, kind |-> "accept", ret |-> g] \in answered'
                             <=> [by |-> d, kind |-> "accept", ret |-> g] \in answered)
    BY <2>1
  <2>10. \A g : [by |-> c, kind |-> "accept", ret |-> g] \in answered' <=> g = ret
    <3>1. \A g : [by |-> c, kind |-> "accept", ret |-> g] \in answered' => g = ret
      BY <2>1, <2>7
    <3> QED BY <2>1, <3>1
  <2>11. FdInv'
    <3> SUFFICES ASSUME NEW g \in Fds, NEW d \in Calls
                 PROVE  fdtab'[g] = d <=> \/ Holds(d)' /\ fd'[d] = g
                                          \/ [by |-> d, kind |-> "accept", ret |-> g] \in answered'
      BY <1>0, <2>6 DEF FdInv
    <3> DEFINE p == [by |-> d, kind |-> "accept", ret |-> g]
    <3>1. fdtab[g] = d <=> (Holds(d) /\ fd[d] = g) \/ p \in answered
      BY DEF FdInv
    <3>2. CASE d # c
      <4>1. p \in answered' <=> p \in answered
        BY <2>9, <3>2
      <4>2. fdtab'[g] = d <=> fdtab[g] = d
        BY <1>0, <1>2, <2>8, <3>2
      <4> HIDE DEF p
      <4>3. fdtab'[g] = d <=> (Holds(d)' /\ fd'[d] = g) \/ p \in answered'
        BY <1>0, <2>6, <3>1, <4>1, <4>2
      <4> QED BY <4>3 DEF p
    <3>3. CASE d = c
      <4>1. p \in answered' <=> g = ret
        BY <2>10, <3>3
      <4>2. p \notin answered /\ ~Holds(d) /\ ~Holds(d)'
        BY <2>6, <2>7, <3>3
      <4> HIDE DEF p
      <4>3. ret >= 0 => (fdtab'[g] = d <=> g = ret)
        BY <1>0, <1>2, <3>1, <3>3, <4>2
      <4>4. ret < 0 => fdtab'[g] # d /\ g # ret
        BY <1>2, <3>1, <4>2, FdsAssumption
      <4>5. ret \in Int
        BY MapResult
      <4>6. fdtab'[g] = d <=> (Holds(d)' /\ fd'[d] = g) \/ p \in answered'
        BY <4>1, <4>2, <4>3, <4>4, <4>5
      <4> QED BY <4>6 DEF p
    <3> QED BY <3>2, <3>3
  <2>12. OwnSocket'
    <3>1. \A d \in Calls : HoldsFd(d) => d # c /\ fd[d] \in Fds /\ fdtab[fd[d]] = d
      BY <1>0 DEF HoldsFd, OwnSocket, FdInv, Holds
    <3>2. \A d \in Calls : HoldsFd(d) => fdtab'[fd[d]] = d
      BY <1>0, <1>2, <2>8, <3>1
    <3> QED BY <1>0, <2>1, <2>6, <3>2 DEF OwnSocket
  <2> QED BY <2>2, <2>3, <2>4, <2>5, <2>11, <2>12
<1>3. CASE /\ Unused # {}
           /\ fdtab' = [fdtab EXCEPT ![LowestUnused] = c]
           /\ \E in \in {in \in Remotes : in.family = addr[c].family} :
                Place(c, in) /\ Reach(c, Denotes(in))
           /\ Answer(r, LowestUnused)
  <2> DEFINE f == LowestUnused
  <2>1. f \in Fds /\ fdtab[f] = Free
    BY <1>3, LowestIsUnused
  <2>2. fdtab' = [fdtab EXCEPT ![f] = c] /\ Answer(r, f)
    BY <1>3
  <2> HIDE DEF f
  <2>3. PICK s \in Remotes : Place(c, s) /\ Reach(c, Denotes(s))
    BY <1>3
  <2>4. s \in SockAddr /\ Denotes(s) \in Endpoint
    BY RemotesAssumption, FromDenotes
  <2>5. addr' = [addr EXCEPT ![c] = s] /\ far' = [far EXCEPT ![c] = Denotes(s)]
    BY <2>3 DEF Place, Reach
  <2>6. /\ far' \in [Calls -> Endpoint \cup {NoPeer}] /\ addr' \in [Calls -> SockAddr \cup {NoAddr}]
        /\ \A d \in Calls : d # c => far'[d] = far[d] /\ addr'[d] = addr[d]
        /\ far'[c] = Denotes(addr'[c])
    BY <1>0, <2>4, <2>5 DEF TypeOK
  <2>7. f \in Answers /\ f >= 0
    BY <2>1, FdsAssumption DEF Answers
  <2> QED BY <1>2, <2>1, <2>2, <2>6, <2>7
<1>4. ASSUME NEW e \in Errnos, Answer(r, -e), UNCHANGED <<fdtab, addr, far>>
      PROVE  IInv'
  <2>1. -e \in Answers /\ ~(-e >= 0)
    BY ErrnosAssumption DEF Answers
  <2>2. far' \in [Calls -> Endpoint \cup {NoPeer}] /\ addr' \in [Calls -> SockAddr \cup {NoAddr}]
    BY <1>4 DEF TypeOK
  <2> QED BY <1>2, <1>4, <2>1, <2>2
<1>5. EINVAL \in Errnos
  BY ErrnosAssumption
<1> QED BY <1>3, <1>4, <1>5 DEF KernelAccept

\* The kernel's answer to a transfer preserves the invariant.
LEMMA KernelTransferInv ==
  ASSUME IInv, NEW r \in inflight, KernelTransfer(r)
  PROVE  IInv'
<1> USE DEF IInv
<1>0. /\ r.kind = "transfer" /\ Belongs(r) /\ r.by \in Calls
      /\ UNCHANGED <<pc, fd, addr, peer, far, fdtab, shut, errno, cause, shown>>
  BY OpTypes DEF KernelTransfer, OpInv, kernelVars, addrVars, reportVars
<1>1. PICK ret \in {0} \cup {-e : e \in Errnos} : Answer(r, ret)
  BY DEF KernelTransfer
<1>2. ret \in Answers
  BY DEF Answers
<1>3. /\ inflight' \in SUBSET [by : Calls, kind : Kinds, file : Calls]
      /\ answered' \in SUBSET [by : Calls, kind : Kinds, ret : Answers]
      /\ OneOfAKind'
      /\ inflight' \subseteq inflight /\ answered \subseteq answered'
      /\ \A o \in inflight : ~SameOp(o, r) => o \in inflight'
      /\ \A p \in answered' : p \in answered \/ (p.by = r.by /\ p.kind = "transfer")
  <2>1. OneOfAKind /\ TypeOK /\ r.kind = "transfer"
    BY <1>0 DEF OpInv
  <2> QED BY <1>1, <1>2, <2>1, Answered
<1>4. TypeOK'
  BY <1>0, <1>3 DEF TypeOK
<1>5. OpInv'
  BY <1>0, <1>3 DEF OpInv, Belongs
<1>6. StageInv' /\ ErrnoInv' /\ FailureIsReported'
  BY <1>0 DEF StageInv, ErrnoInv, FailureIsReported
<1>7. AddrInv'
  BY <1>0, <1>3 DEF AddrInv, Target
<1>8. \A d \in Calls : (Holds(d)' <=> Holds(d)) /\ (HoldsFd(d)' <=> HoldsFd(d))
  BY <1>0, <1>3 DEF Holds, HoldsFd, SameOp
<1>9. \A g, d : [by |-> d, kind |-> "accept", ret |-> g] \in answered'
                  <=> [by |-> d, kind |-> "accept", ret |-> g] \in answered
  BY <1>3
<1>10. FdInv' /\ OwnSocket'
  BY <1>0, <1>3, <1>8, <1>9 DEF FdInv, OwnSocket
<1> QED BY <1>4, <1>5, <1>6, <1>7, <1>10

\* The kernel's answer to a close preserves the invariant.
LEMMA KernelCloseInv ==
  ASSUME IInv, NEW r \in inflight, KernelClose(r)
  PROVE  IInv'
<1> USE DEF IInv
<1> DEFINE c == r.by
<1>0. /\ r.kind = "close" /\ pc[c] = "closing" /\ c \in Calls
      /\ r = [by |-> c, kind |-> "close", file |-> c]
      /\ UNCHANGED <<pc, fd, addr, peer, far, shut, errno, cause, shown>>
      /\ fdtab' = [fdtab EXCEPT ![fd[c]] = Free] /\ Answer(r, 0)
  <2>1. r.kind = "close" /\ pc[c] = "closing" /\ c \in Calls
    BY OpTypes DEF KernelClose, OpInv, Belongs
  <2>2. r.file = c
    BY <2>1 DEF OwnSocket
  <2> QED BY <2>1, <2>2, OpTypes DEF KernelClose, addrVars, reportVars
<1>1. /\ inflight' \in SUBSET [by : Calls, kind : Kinds, file : Calls]
      /\ answered' \in SUBSET [by : Calls, kind : Kinds, ret : Answers]
      /\ OneOfAKind'
      /\ inflight' \subseteq inflight /\ answered \subseteq answered'
      /\ \A o \in inflight' : ~SameOp(o, r)
      /\ \A o \in inflight : ~SameOp(o, r) => o \in inflight'
      /\ \A p \in answered' : p \in answered \/ (p.by = c /\ p.kind = "close")
  <2>1. OneOfAKind /\ TypeOK /\ Answer(r, 0) /\ 0 \in Answers /\ r.kind = "close"
    BY <1>0 DEF OpInv, Answers
  <2> QED BY <2>1, Answered
<1>2. HoldsFd(c) /\ Holds(c) /\ fd[c] \in Fds /\ fdtab[fd[c]] = c
  <2>1. [by |-> c, kind |-> "close", file |-> c] \in inflight
    BY <1>0
  <2> HIDE DEF c
  <2>2. HoldsFd(c) /\ Holds(c)
    BY <1>0, <2>1 DEF HoldsFd, Holds
  <2> QED BY <1>0, <2>2 DEF FdInv
<1>3. \A g : [by |-> c, kind |-> "accept", ret |-> g] \notin answered
  <2> SUFFICES ASSUME NEW g, [by |-> c, kind |-> "accept", ret |-> g] \in answered PROVE FALSE
    OBVIOUS
  <2> DEFINE p == [by |-> c, kind |-> "accept", ret |-> g]
  <2>1. p \in answered /\ p.by = c /\ p.kind = "accept"
    OBVIOUS
  <2> HIDE DEF p
  <2> QED BY <1>0, <2>1 DEF OpInv, Belongs
<1>4. [by |-> c, kind |-> "close", file |-> c] \notin inflight'
  BY <1>0, <1>1 DEF SameOp
<1>5. \A g, d : [by |-> d, kind |-> "accept", ret |-> g] \in answered'
                  <=> [by |-> d, kind |-> "accept", ret |-> g] \in answered
  BY <1>1
<1> HIDE DEF c
<1>6. ~HoldsFd(c)' /\ ~Holds(c)'
  BY <1>0, <1>4 DEF HoldsFd, Holds
<1>7. \A d \in Calls : d # c => (Holds(d)' <=> Holds(d)) /\ (HoldsFd(d)' <=> HoldsFd(d))
  <2>1. \A o \in inflight : o.by # c => o \in inflight'
    BY <1>1 DEF SameOp, c
  <2> QED BY <1>0, <1>1, <2>1 DEF Holds, HoldsFd
<1>8. TypeOK'
  BY <1>0, <1>1 DEF TypeOK
<1>9. OpInv'
  BY <1>0, <1>1 DEF OpInv, Belongs
<1>10. StageInv' /\ ErrnoInv' /\ FailureIsReported'
  BY <1>0 DEF StageInv, ErrnoInv, FailureIsReported
<1>11. AddrInv'
  BY <1>0, <1>1 DEF AddrInv, Target
<1>12. \A d \in Calls : Free # d
  BY CallsAssumption
<1>13. DOMAIN fdtab = Fds
  BY DEF TypeOK
<1>14. FdInv'
  <2> SUFFICES ASSUME NEW g \in Fds, NEW d \in Calls
               PROVE  fdtab'[g] = d <=> \/ Holds(d)' /\ fd'[d] = g
                                        \/ [by |-> d, kind |-> "accept", ret |-> g] \in answered'
    BY <1>0, <1>6, <1>7 DEF FdInv
  <2> DEFINE p == [by |-> d, kind |-> "accept", ret |-> g]
  <2>1. fdtab[g] = d <=> (Holds(d) /\ fd[d] = g) \/ p \in answered
    BY DEF FdInv
  <2>2. p \in answered' <=> p \in answered
    BY <1>5
  <2>3. d = c => p \notin answered
    BY <1>3
  <2> HIDE DEF p
  <2>4. fdtab'[g] = d <=> (Holds(d)' /\ fd'[d] = g) \/ p \in answered'
    BY <1>0, <1>2, <1>6, <1>7, <1>12, <1>13, <2>1, <2>2, <2>3
  <2> QED BY <2>4 DEF p
<1>15. OwnSocket'
  <2>1. \A d \in Calls : HoldsFd(d) => fdtab[fd[d]] = d
    BY DEF OwnSocket
  <2>2. \A d \in Calls : HoldsFd(d)' => fdtab'[fd'[d]] = d
    <3> SUFFICES ASSUME NEW d \in Calls, HoldsFd(d)' PROVE fdtab'[fd[d]] = d
      BY <1>0
    <3>1. d # c /\ HoldsFd(d) /\ fd[d] \in Fds /\ fdtab[fd[d]] = d
      BY <1>6, <1>7, <2>1 DEF FdInv, Holds
    <3> QED BY <1>0, <1>2, <1>13, <3>1
  <2> QED BY <1>1, <2>2 DEF OwnSocket
<1> QED BY <1>8, <1>9, <1>10, <1>11, <1>14, <1>15

LEMMA StutterInv ==
  ASSUME IInv, UNCHANGED vars
  PROVE  IInv'
BY DEF IInv, vars, addrVars, kernelVars, ringVars, reportVars, TypeOK, OpInv, OneOfAKind, Belongs,
       StageInv, FdInv, Holds, HoldsFd, OwnSocket, AddrInv, Target, ErrnoInv, FailureIsReported

LEMMA NextInv ==
  ASSUME IInv, [Next]_vars
  PROVE  IInv'
<1>1. CASE Configure \/ CloseOnError
  BY <1>1, ConfigureInv, CloseOnErrorInv
<1>2. ASSUME NEW c \in Calls, Start(c)
      PROVE  IInv'
  BY <1>2, SocketInv, StartConnectInv, StartAcceptInv, StartTransferInv, CloseInv DEF Start
<1>3. ASSUME NEW c \in Calls, Resume(c)
      PROVE  IInv'
  BY <1>3, ResumeConnectInv, ResumeAcceptInv, ResumeTransferInv, ResumeCloseInv DEF Resume
<1>4. ASSUME NEW r \in inflight, Kernel(r)
      PROVE  IInv'
  BY <1>4, KernelConnectInv, KernelAcceptInv, KernelTransferInv, KernelCloseInv DEF Kernel
<1> QED BY <1>1, <1>2, <1>3, <1>4, StutterInv DEF Next

(***************************************************************************)
(* ReachInv: what the refinement of TCPCalls needs beyond IInv.            *)
(***************************************************************************)

\* A step that neither reaches anything nor issues a connect or an accept.
LEMMA ReachKept ==
  ASSUME TypeOK, ReachInv, NEW c \in Calls, NEW to, pc' = [pc EXCEPT ![c] = to] \/ pc' = pc,
         to \notin {"idle", "setsockopt", "bind", "connect", "waiting"}, UNCHANGED <<addr, far>>,
         \A o \in inflight' : o \in inflight \/ o.kind \notin {"connect", "accept"}
  PROVE  ReachInv'
BY DEF ReachInv, TypeOK, Calls

LEMMA ReachStep ==
  ASSUME IInv, ReachInv, [Next]_vars
  PROVE  ReachInv'
<1> USE DEF IInv
<1>0. /\ DOMAIN pc = Calls /\ DOMAIN far = Calls /\ DOMAIN addr = Calls
      /\ Listener \in Calls /\ Accepts \subseteq Calls /\ Listener \notin Accepts
  BY CallsAssumption DEF TypeOK, Calls
<1>1. CASE UNCHANGED vars
  BY <1>1 DEF vars, addrVars, ringVars, ReachInv
<1>2. CASE Configure
  <2>1. \A o \in inflight : o.kind \in {"connect", "accept"} => o.by # Listener /\ o.by \in Calls
    BY StagesOfOps
  <2>2. UNCHANGED <<addr, inflight>> /\ \A d \in Calls : d # Listener => pc'[d] = pc[d] /\ far'[d] = far[d]
    BY <1>0, <1>2 DEF Configure, Go, Reach, ringVars
  <2>3. pc'[Listener] \in {"idle", "setsockopt", "bind", "connect"} => far'[Listener] = NoPeer
    BY <1>0, <1>2 DEF Configure, Go, Reach, Following, ReachInv
  <2> QED BY <1>0, <2>1, <2>2, <2>3 DEF ReachInv
<1>3. CASE CloseOnError
  BY <1>0, <1>3, ReachKept DEF CloseOnError, Throw, Go, addrVars, ringVars
<1>4. ASSUME NEW c \in Calls, Socket(c)
      PROVE  ReachInv'
  <2>1. /\ pc[c] = "idle" /\ c \notin Accepts /\ UNCHANGED <<far, inflight>>
        /\ \A d \in Calls : d # c => pc'[d] = pc[d] /\ addr'[d] = addr[d]
    BY <1>0, <1>4, CallsAssumption DEF Socket, Throw, Go, Place, ringVars
  <2>2. \A o \in inflight : o.by # c /\ o.by \in Calls
    BY <2>1, StagesOfOps
  <2> QED BY <1>0, <2>1, <2>2 DEF ReachInv
<1>5. ASSUME NEW c \in Calls, StartConnect(c)
      PROVE  ReachInv'
  <2>1. /\ pc[c] = "connect" /\ c \in Connects /\ UNCHANGED far
        /\ \A d \in Calls : d # c => pc'[d] = pc[d] /\ addr'[d] = addr[d]
        /\ pc'[c] = "waiting"
        /\ inflight' = inflight \cup {[by |-> c, kind |-> "connect", file |-> c]}
    BY <1>0, <1>5 DEF StartConnect, Go, Place, Issue
  <2>2. c \notin Accepts /\ \A o \in inflight : o.by # c /\ o.by \in Calls
    BY <2>1, StagesOfOps, CallsAssumption
  <2> QED BY <1>0, <2>1, <2>2 DEF ReachInv
<1>6. ASSUME NEW c \in Calls, StartAccept(c)
      PROVE  ReachInv'
  <2>1. /\ pc[c] = "idle" /\ UNCHANGED far
        /\ \A d \in Calls : d # c => pc'[d] = pc[d] /\ addr'[d] = addr[d]
        /\ pc'[c] = "waiting" /\ addr'[c] = ZeroAddr(Asked[Listener].ip.mFamily)
        /\ inflight' = inflight \cup {[by |-> c, kind |-> "accept", file |-> fdtab[fd[Listener]]]}
    BY <1>0, <1>6 DEF StartAccept, Go, Place, Issue
  <2>2. \A o \in inflight : o.by # c /\ o.by \in Calls
    BY <2>1, StagesOfOps
  <2>3. addr'[c] \in SockAddr /\ addr'[c].family = Asked[Listener].ip.mFamily
    <3>1. Asked[Listener].ip.mFamily \in Family
      BY AskedAssumption DEF Address
    <3> QED BY <2>1, <3>1, ZeroAddrType DEF ZeroAddr
  <2> QED BY <1>0, <2>1, <2>2, <2>3 DEF ReachInv
<1>7. ASSUME NEW c \in Calls, StartTransfer(c) \/ Close(c)
      PROVE  ReachInv'
  BY <1>0, <1>7, ReachKept DEF StartTransfer, Close, Issue, Go, addrVars
<1>8. ASSUME NEW c \in Calls, Resume(c)
      PROVE  ReachInv'
  <2>1. UNCHANGED <<addr, far, inflight>> /\ (pc' = pc \/ \E to \in {"open", "closed", "threw"} : pc' = [pc EXCEPT ![c] = to])
    BY <1>8 DEF Resume, ResumeConnect, ResumeAccept, ResumeTransfer, ResumeClose, Throw, Go, addrVars
  <2> QED BY <2>1, ReachKept
<1>9. ASSUME NEW r \in inflight, KernelTransfer(r) \/ KernelClose(r)
      PROVE  ReachInv'
  <2>1. UNCHANGED <<pc, addr, far>> /\ inflight' \subseteq inflight
    BY <1>9 DEF KernelTransfer, KernelClose, Answer, addrVars
  <2> QED BY <2>1 DEF ReachInv
<1>10. ASSUME NEW r \in inflight, KernelConnect(r) \/ KernelAccept(r)
       PROVE  ReachInv'
  <2>1. /\ UNCHANGED pc /\ inflight' = inflight \ {r}
        /\ \A d \in Calls : d # r.by => far'[d] = far[d] /\ addr'[d] = addr[d]
    BY <1>0, <1>10 DEF KernelConnect, KernelAccept, Answer, Reach, Place
  <2>4. addr' = addr \/ \E in \in Remotes : in.family = addr[r.by].family /\ addr'[r.by] = in
    BY <1>0, <1>10, OpTypes DEF KernelConnect, KernelAccept, Place
  <2>2. r.by \in Calls /\ pc[r.by] = "waiting"
    BY <1>10, OpTypes DEF KernelConnect, KernelAccept, OpInv, Belongs
  <2>3. \A o \in inflight' : o.kind \in {"connect", "accept"} => o.by \in Calls /\ o.by # r.by
    <3> SUFFICES ASSUME NEW o \in inflight', o.kind \in {"connect", "accept"}, o.by = r.by
                 PROVE  FALSE
      BY <2>1, OpTypes
    <3>1. o \in inflight /\ o # r
      BY <2>1
    <3>2. o.kind = r.kind
      BY <1>10, <3>1, <2>2, StagesOfOps
    <3> QED BY <3>1, <3>2 DEF OpInv, OneOfAKind, SameOp
  <2>5. \A a \in Accepts : pc[a] = "waiting" =>
          addr'[a] \in SockAddr /\ addr'[a].family = Asked[Listener].ip.mFamily
    BY <1>0, <2>1, <2>2, <2>4, RemotesAssumption DEF ReachInv
  <2> QED BY <2>1, <2>2, <2>3, <2>5 DEF ReachInv
<1> QED BY <1>1, <1>2, <1>3, <1>4, <1>5, <1>6, <1>7, <1>8, <1>9, <1>10 DEF Next, Start, Kernel

(***************************************************************************)
(* Every step is a step of TCPCalls or changes nothing a caller sees.      *)
(***************************************************************************)

\* What a call's step does to the stages, and what it does to the transfers.
LEMMA StageStep ==
  ASSUME TypeOK, NEW c \in Calls, NEW to, pc' = [pc EXCEPT ![c] = to]
  PROVE  [d \in Calls |-> StageOf(d)]'
           = [[d \in Calls |-> StageOf(d)] EXCEPT ![c] = IF to \in Pending THEN "pending" ELSE to]
BY DEF TypeOK, StageOf

LEMMA IssuedTransfer ==
  ASSUME NEW c \in Calls, NEW kind \in Kinds, NEW file, Issue(c, kind, file), UNCHANGED answered
  PROVE  \A d \in Calls : Transferring(d)' <=> Transferring(d) \/ (d = c /\ kind = "transfer")
<1> DEFINE n == [by |-> c, kind |-> kind, file |-> file]
<1>1. inflight' = inflight \cup {n} /\ n.by = c /\ n.kind = kind
  BY DEF Issue
<1> HIDE DEF n
<1> QED BY <1>1 DEF Transferring

LEMMA TakenTransfer ==
  ASSUME IInv, NEW c \in Calls, NEW kind \in Kinds, NEW ret \in Answers,
         Take(c, kind, ret), UNCHANGED inflight
  PROVE  /\ \A d \in Calls : Transferring(d)' <=> Transferring(d) /\ ~(d = c /\ kind = "transfer")
         /\ kind = "transfer" => Transferring(c)
<1>1. TypeOK /\ OneOfAKind
  BY DEF IInv, OpInv
<1>2. /\ answered' \subseteq answered
      /\ \A o \in inflight' \cup answered' : o.by = c => o.kind # kind
      /\ \E p \in answered : p.by = c /\ p.kind = kind /\ p.ret = ret
      /\ \A p \in answered : p.by # c \/ p.kind # kind => p \in answered'
  BY <1>1, Taken
<1> QED BY <1>2 DEF Transferring

LEMMA AnsweredTransfer ==
  ASSUME IInv, NEW r \in inflight, NEW ret \in Answers, Answer(r, ret)
  PROVE  \A d \in Calls : Transferring(d)' <=> Transferring(d)
<1>1. TypeOK /\ OneOfAKind
  BY DEF IInv, OpInv
<1>2. /\ inflight' \subseteq inflight /\ answered \subseteq answered'
      /\ \A o \in inflight : ~SameOp(o, r) => o \in inflight'
      /\ \A p \in answered' : p \in answered \/ (p.by = r.by /\ p.kind = r.kind /\ p.ret = ret)
      /\ [by |-> r.by, kind |-> r.kind, ret |-> ret] \in answered'
  BY <1>1, Answered
<1>3. \E p \in answered' : p.by = r.by /\ p.kind = r.kind
  BY <1>2
<1> QED BY <1>2, <1>3 DEF Transferring, SameOp

\* The first step of a call, and steps callers do not see.
LEMMA BeginRefines ==
  ASSUME TypeOK, NEW c \in Calls, NEW to \in Pending, pc' = [pc EXCEPT ![c] = to],
         pc[c] \in {"idle"} \cup Pending, c \in Accepts => pc[c] # "idle" \/ pc[Listener] = "open",
         UNCHANGED <<far, peer, shown>>, \A d \in Calls : Transferring(d)' <=> Transferring(d)
  PROVE  [TCP!Next]_(TCP!vars)
<1> DEFINE st == [d \in Calls |-> StageOf(d)]
           bs == {d \in Calls : Transferring(d)}
<1>1. st' = [st EXCEPT ![c] = "pending"] /\ bs' = bs
  BY StageStep
<1>2. CASE pc[c] = "idle"
  <2>1. st[c] = "idle" /\ (c \in Accepts => st[Listener] = "open")
    BY <1>2 DEF StageOf, Pending, Calls
  <2>2. TCP!Begin(c)
    BY <1>1, <2>1 DEF TCP!Begin, TCP!Ready, TCP!Go
  <2> QED BY <2>2 DEF TCP!Next, TCP!Calls, Calls
<1>3. CASE pc[c] \in Pending
  <2>1. st' = st
    BY <1>1, <1>3 DEF StageOf
  <2> QED BY <1>1, <2>1 DEF TCP!vars
<1> QED BY <1>2, <1>3

\* A call that throws a Status other than IO_OK.
LEMMA ThrowRefines ==
  ASSUME TypeOK, NEW c \in Calls, pc' = [pc EXCEPT ![c] = "threw"],
         pc[c] \in {"idle"} \cup Pending, c \notin Accepts \/ pc[c] # "idle",
         NEW status \in Statuses \ {IO_OK}, shown' = [shown EXCEPT ![c] = status],
         UNCHANGED <<far, peer>>, \A d \in Calls : Transferring(d)' <=> Transferring(d)
  PROVE  TCP!Next
<1> DEFINE st == [d \in Calls |-> StageOf(d)]
           bs == {d \in Calls : Transferring(d)}
<1>1. st' = [st EXCEPT ![c] = "threw"] /\ bs' = bs
  BY StageStep DEF Pending
<1>2. st[c] = "pending" \/ (st[c] = "idle" /\ c \notin Accepts)
  BY DEF StageOf, Pending
<1>3. TCP!Throw(c)
  BY <1>1, <1>2 DEF TCP!Throw, TCP!Ready, TCP!Go
<1> QED BY <1>3 DEF TCP!Next, TCP!Calls, Calls

\* A call that hands out its socket.
LEMMA SucceedRefines ==
  ASSUME TypeOK, NEW c \in Calls, pc' = [pc EXCEPT ![c] = "open"], pc[c] \in Pending,
         far[c] \in Endpoint, UNCHANGED <<far, shown>>,
         peer' = IF c \in Accepts THEN [peer EXCEPT ![c] = far[c]] ELSE peer,
         \A d \in Calls : Transferring(d)' <=> Transferring(d)
  PROVE  TCP!Next
<1> DEFINE st == [d \in Calls |-> StageOf(d)]
           bs == {d \in Calls : Transferring(d)}
<1>1. st' = [st EXCEPT ![c] = "open"] /\ bs' = bs
  BY StageStep DEF Pending
<1>2. st[c] = "pending" /\ far[c] # NoPeer
  BY NoPeerAssumption DEF StageOf
<1>3. TCP!Succeed(c)
  BY <1>1, <1>2 DEF TCP!Succeed, TCP!Go
<1> QED BY <1>3 DEF TCP!Next, TCP!Calls, Calls

\* The socket of a pending call gets where it was to get.
LEMMA EstablishRefines ==
  ASSUME NEW c \in Calls, pc[c] \in Pending, pc'[c] \in Pending, far[c] = NoPeer,
         \A d \in Calls : d # c => pc'[d] = pc[d],
         far' = [far EXCEPT ![c] = far'[c]], UNCHANGED <<peer, shown>>,
         far'[c] \in IF c \in Accepts THEN Visitors ELSE {Places[c]},
         \A d \in Calls : Transferring(d)' <=> Transferring(d)
  PROVE  TCP!Next
<1> DEFINE st == [d \in Calls |-> StageOf(d)]
           bs == {d \in Calls : Transferring(d)}
<1>1. st' = st /\ bs' = bs /\ st[c] = "pending"
  BY DEF StageOf
<1>2. \E e \in IF c \in Accepts THEN Visitors ELSE {Places[c]} : far' = [far EXCEPT ![c] = e]
  <2> WITNESS far'[c] \in IF c \in Accepts THEN Visitors ELSE {Places[c]}
  <2> QED OBVIOUS
<1>3. TCP!Establish(c)
  BY <1>1, <1>2 DEF TCP!Establish
<1> QED BY <1>3 DEF TCP!Next, TCP!Calls, Calls

\* Steps of coroutines.
LEMMA StartRefines ==
  ASSUME IInv, ReachInv, NEW c \in Calls, Start(c)
  PROVE  [TCP!Next]_(TCP!vars)
<1> USE DEF IInv
<1>1. CASE Socket(c)
  <2>1. pc[c] = "idle" /\ c \notin Accepts /\ UNCHANGED <<far, peer, inflight, answered>>
    BY <1>1, CallsAssumption DEF Socket, ringVars
  <2>2. \A d \in Calls : Transferring(d)' <=> Transferring(d)
    BY <2>1 DEF Transferring
  <2>3. ASSUME NEW e \in Errnos, Throw(c, map_error(e))
        PROVE  TCP!Next
    <3>1. map_error(e) \in Statuses \ {IO_OK}
      BY MapError, ErrnosAssumption
    <3> QED BY <2>1, <2>2, <2>3, <3>1, ThrowRefines DEF Throw, Go
  <2>4. ASSUME Go(c, "setsockopt") \/ Go(c, "connect"), UNCHANGED reportVars
        PROVE  [TCP!Next]_(TCP!vars)
    <3>1. UNCHANGED shown
      BY <2>4 DEF reportVars
    <3> QED BY <2>1, <2>2, <2>4, <3>1, BeginRefines DEF Go, Pending
  <2> QED BY <1>1, <2>3, <2>4 DEF Socket
<1>2. CASE StartConnect(c)
  <2>1. /\ pc[c] = "connect" /\ c \notin Accepts /\ UNCHANGED <<far, peer, shown>>
        /\ pc' = [pc EXCEPT ![c] = "waiting"]
    BY <1>2, CallsAssumption DEF StartConnect, reportVars, Go
  <2>2. \A d \in Calls : Transferring(d)' <=> Transferring(d)
    BY <1>2, IssuedTransfer DEF StartConnect, Kinds
  <2> QED BY <2>1, <2>2, BeginRefines DEF Pending
<1>3. CASE StartAccept(c)
  <2>1. /\ pc[c] = "idle" /\ pc[Listener] = "open" /\ UNCHANGED <<far, peer, shown>>
        /\ pc' = [pc EXCEPT ![c] = "waiting"]
    BY <1>3 DEF StartAccept, reportVars, Go
  <2>2. \A d \in Calls : Transferring(d)' <=> Transferring(d)
    BY <1>3, IssuedTransfer DEF StartAccept, Kinds
  <2> QED BY <2>1, <2>2, BeginRefines DEF Pending
<1> DEFINE st == [d \in Calls |-> StageOf(d)]
           bs == {d \in Calls : Transferring(d)}
<1>4. CASE StartTransfer(c)
  <2>1. \A d \in Calls : Transferring(d)' <=> Transferring(d) \/ d = c
    BY <1>4, IssuedTransfer DEF StartTransfer, Kinds
  <2>2. st' = st /\ bs' = bs \cup {c}
    BY <1>4, <2>1 DEF StartTransfer, StageOf
  <2>3. st[c] = "open" /\ c \notin bs /\ c # Listener /\ UNCHANGED <<far, peer, shown>>
    BY <1>4, CallsAssumption DEF StartTransfer, StageOf, Pending, addrVars, reportVars
  <2>4. TCP!StartTransfer(c)
    BY <2>2, <2>3 DEF TCP!StartTransfer
  <2> QED BY <2>4 DEF TCP!Next, TCP!Calls, Calls
<1>5. CASE Close(c)
  <2>1. \A d \in Calls : Transferring(d)' <=> Transferring(d)
    BY <1>5, IssuedTransfer DEF Close, Kinds
  <2>2. st' = [st EXCEPT ![c] = "closing"] /\ bs' = bs
    BY <1>5, <2>1, StageStep DEF Close, Go, Pending
  <2>3. st[c] = "open" /\ UNCHANGED <<far, peer, shown>>
    BY <1>5 DEF Close, StageOf, Pending, addrVars, reportVars
  <2>4. TCP!StartClose(c)
    BY <2>2, <2>3 DEF TCP!StartClose, TCP!Go
  <2> QED BY <2>4 DEF TCP!Next, TCP!Calls, Calls
<1> QED BY <1>1, <1>2, <1>3, <1>4, <1>5 DEF Start

LEMMA ResumeRefines ==
  ASSUME IInv, ReachInv, NEW c \in Calls, Resume(c)
  PROVE  TCP!Next
<1> USE DEF IInv
<1> DEFINE st == [d \in Calls |-> StageOf(d)]
           bs == {d \in Calls : Transferring(d)}
<1>1. CASE ResumeConnect(c)
  <2>1. PICK ret \in Answers, stale \in Errnos \cup {0} :
          /\ Take(c, "connect", ret)
          /\ IF success(map_result(ret))
               THEN Go(c, "open") /\ UNCHANGED shown
               ELSE Throw(c, map_error(stale))
    BY <1>1 DEF ResumeConnect
  <2>2. pc[c] = "waiting" /\ c \in Connects /\ c \notin Accepts /\ UNCHANGED <<far, peer, inflight>>
    BY <1>1, CallsAssumption DEF ResumeConnect, addrVars
  <2>3. \A d \in Calls : Transferring(d)' <=> Transferring(d)
    BY <2>1, <2>2, TakenTransfer DEF Kinds
  <2>4. CASE ret >= 0
    <3>1. far[c] = Denotes(addr[c]) /\ addr[c] = Target(c)
      <4> DEFINE p == [by |-> c, kind |-> "connect", ret |-> ret]
      <4>1. p \in answered /\ p.by = c /\ p.kind = "connect" /\ p.ret = ret
        BY <2>1 DEF Take
      <4> HIDE DEF p
      <4> QED BY <2>2, <2>4, <4>1 DEF AddrInv
    <3>2. far[c] \in Endpoint
      BY <2>2, <3>1, Targets
    <3> QED BY <2>1, <2>2, <2>3, <2>4, <3>2, MapResult, SucceedRefines DEF Go, Pending
  <2>5. CASE ~(ret >= 0)
    <3>1. map_error(stale) \in Statuses \ {IO_OK}
      BY MapError, ErrnosAssumption
    <3> QED BY <2>1, <2>2, <2>3, <2>5, <3>1, MapResult, ThrowRefines DEF Throw, Go, Pending
  <2> QED BY <2>4, <2>5
<1>2. CASE ResumeAccept(c)
  <2>1. PICK ret \in Answers :
          /\ Take(c, "accept", ret)
          /\ IF success(map_result(ret))
               THEN Go(c, "open") /\ UNCHANGED shown /\ peer' = [peer EXCEPT ![c] = from_os_ip(addr[c])]
               ELSE Throw(c, error(map_result(ret))) /\ UNCHANGED peer
    BY <1>2 DEF ResumeAccept
  <2>2. pc[c] = "waiting" /\ c \in Accepts /\ UNCHANGED <<far, inflight>>
    BY <1>2 DEF ResumeAccept
  <2>3. \A d \in Calls : Transferring(d)' <=> Transferring(d)
    BY <2>1, <2>2, TakenTransfer DEF Kinds
  <2>4. CASE ret >= 0
    <3>1. far[c] = Denotes(addr[c])
      <4> DEFINE p == [by |-> c, kind |-> "accept", ret |-> ret]
      <4>1. p \in answered /\ p.by = c /\ p.kind = "accept" /\ p.ret = ret
        BY <2>1 DEF Take
      <4> HIDE DEF p
      <4> QED BY <2>2, <2>4, <4>1 DEF AddrInv
    <3>2. from_os_ip(addr[c]) = far[c]
      BY <3>1 DEF from_os_ip, Denotes, ntohs, Swap16
    <3>3. far[c] \in Endpoint
      BY <2>2, <3>1, FromDenotes DEF ReachInv
    <3> QED BY <2>1, <2>2, <2>3, <2>4, <3>2, <3>3, MapResult, SucceedRefines DEF Go, Pending
  <2>5. CASE ~(ret >= 0)
    <3>1. ret \in Int /\ ret < 0 /\ error(map_result(ret)) = map_error(ret)
      BY <2>5, MapResult
    <3>2. map_error(ret) \in Statuses \ {IO_OK}
      BY <3>1, MapError
    <3> QED BY <2>1, <2>2, <2>3, <3>1, <3>2, MapResult, ThrowRefines DEF Throw, Go, Pending
  <2> QED BY <2>4, <2>5
<1>3. CASE ResumeTransfer(c)
  <2>1. PICK ret \in Answers : Take(c, "transfer", ret)
    BY <1>3 DEF ResumeTransfer
  <2>2. UNCHANGED <<pc, far, peer, inflight, shown>>
    BY <1>3 DEF ResumeTransfer, addrVars, reportVars
  <2>3. (\A d \in Calls : Transferring(d)' <=> Transferring(d) /\ d # c) /\ Transferring(c)
    BY <2>1, <2>2, TakenTransfer DEF Kinds
  <2>4. st' = st /\ bs' = bs \ {c} /\ c \in bs
    BY <2>2, <2>3 DEF StageOf
  <2>5. TCP!EndTransfer(c)
    BY <2>2, <2>4 DEF TCP!EndTransfer
  <2> QED BY <2>5 DEF TCP!Next, TCP!Calls, Calls
<1>4. CASE ResumeClose(c)
  <2>1. PICK ret \in Answers :
          Take(c, "close", ret) /\ shown' = [shown EXCEPT ![c] = map_error(ret)]
    BY <1>4 DEF ResumeClose
  <2>2. /\ UNCHANGED <<far, peer, inflight>> /\ pc[c] = "closing"
        /\ pc' = [pc EXCEPT ![c] = "closed"]
    BY <1>4 DEF ResumeClose, addrVars, Go
  <2>3. \A d \in Calls : Transferring(d)' <=> Transferring(d)
    BY <2>1, <2>2, TakenTransfer DEF Kinds
  <2>4. st' = [st EXCEPT ![c] = "closed"] /\ bs' = bs /\ st[c] = "closing"
    BY <2>2, <2>3, StageStep DEF StageOf, Pending
  <2>5. map_error(ret) \in Statuses
    BY MapError, MapResult
  <2>6. TCP!EndClose(c)
    BY <2>1, <2>2, <2>4, <2>5 DEF TCP!EndClose, TCP!Go
  <2> QED BY <2>6 DEF TCP!Next, TCP!Calls, Calls
<1> QED BY <1>1, <1>2, <1>3, <1>4 DEF Resume

\* Steps of the kernel.
LEMMA KernelRefines ==
  ASSUME IInv, ReachInv, NEW r \in inflight, Kernel(r)
  PROVE  [TCP!Next]_(TCP!vars)
<1> USE DEF IInv
<1>0. r.by \in Calls
  BY OpTypes
<1>1. ASSUME UNCHANGED <<pc, peer, far, shown>>, NEW ret \in Answers, Answer(r, ret)
      PROVE  UNCHANGED TCP!vars
  <2>1. \A d \in Calls : Transferring(d)' <=> Transferring(d)
    BY <1>1, AnsweredTransfer
  <2>2. [d \in Calls |-> StageOf(d)]' = [d \in Calls |-> StageOf(d)]
        /\ {d \in Calls : Transferring(d)}' = {d \in Calls : Transferring(d)}
    BY <1>1, <2>1 DEF StageOf
  <2> QED BY <1>1, <2>2 DEF TCP!vars
<1>2. /\ \A e \in Errnos : -e \in Answers
      /\ 0 \in Answers /\ \A f \in Fds : f \in Answers
      /\ EINVAL \in Errnos
  BY ErrnosAssumption DEF Answers
<1>3. CASE KernelConnect(r)
  <2>1. /\ r.kind = "connect" /\ UNCHANGED <<pc, peer, shown>> /\ r.by \in Connects /\ r.by \notin Accepts
        /\ pc[r.by] = "waiting" /\ far[r.by] = NoPeer /\ addr[r.by] = Target(r.by)
    BY <1>3, CallsAssumption DEF KernelConnect, reportVars, OpInv, Belongs, ReachInv, AddrInv
  <2>2. CASE Answer(r, 0) /\ Reach(r.by, Denotes(addr[r.by]))
    <3>1. \A d \in Calls : Transferring(d)' <=> Transferring(d)
      BY <1>2, <2>2, AnsweredTransfer
    <3>2. Denotes(addr[r.by]) = Places[r.by]
      BY <2>1, Targets DEF Places
    <3>3. far' = [far EXCEPT ![r.by] = far'[r.by]] /\ far'[r.by] = Denotes(addr[r.by])
      BY <1>0, <2>2 DEF Reach, TypeOK
    <3> QED BY <1>0, <2>1, <3>1, <3>2, <3>3, EstablishRefines DEF Pending
  <2>3. CASE (\E e \in Errnos : Answer(r, -e)) /\ UNCHANGED far
    BY <1>1, <1>2, <2>1, <2>3
  <2> QED BY <1>3, <2>2, <2>3 DEF KernelConnect
<1>4. CASE KernelAccept(r)
  <2>1. /\ r.kind = "accept" /\ UNCHANGED <<pc, peer, shown>> /\ r.by \in Accepts
        /\ pc[r.by] = "waiting" /\ far[r.by] = NoPeer /\ addr[r.by].family = Asked[Listener].ip.mFamily
    BY <1>4 DEF KernelAccept, reportVars, OpInv, Belongs, ReachInv
  <2>2. ASSUME Unused # {}, NEW in \in Remotes, in.family = addr[r.by].family,
               Reach(r.by, Denotes(in)), Answer(r, LowestUnused)
        PROVE  TCP!Next
    <3>1. LowestUnused \in Answers
      BY <1>2, <2>2, LowestIsUnused
    <3>2. \A d \in Calls : Transferring(d)' <=> Transferring(d)
      BY <2>2, <3>1, AnsweredTransfer
    <3>3. far' = [far EXCEPT ![r.by] = far'[r.by]] /\ far'[r.by] = Denotes(in)
      BY <1>0, <2>2 DEF Reach, TypeOK
    <3>4. Denotes(in) \in Visitors
      BY <2>1, <2>2 DEF Visitors
    <3> QED BY <1>0, <2>1, <2>2, <3>2, <3>3, <3>4, EstablishRefines DEF Pending
  <2>3. ASSUME NEW e \in Errnos, Answer(r, -e), UNCHANGED far
        PROVE  UNCHANGED TCP!vars
    BY <1>1, <1>2, <2>1, <2>3
  <2> QED BY <1>2, <1>4, <2>2, <2>3 DEF KernelAccept
<1>5. CASE KernelTransfer(r)
  <2>1. PICK ret \in {0} \cup {-e : e \in Errnos} : Answer(r, ret)
    BY <1>5 DEF KernelTransfer
  <2>2. ret \in Answers
    BY DEF Answers
  <2> QED BY <1>1, <1>5, <2>1, <2>2 DEF KernelTransfer, addrVars, reportVars
<1>6. CASE KernelClose(r)
  BY <1>1, <1>2, <1>6 DEF KernelClose, addrVars, reportVars
<1> QED BY <1>3, <1>4, <1>5, <1>6 DEF Kernel

\* Steps of acceptor_tcp.
LEMMA ConfigureRefines ==
  ASSUME IInv, ReachInv, Configure \/ CloseOnError
  PROVE  [TCP!Next]_(TCP!vars)
<1> USE DEF IInv
<1> DEFINE c == Listener
<1>0. c \in Calls /\ c \notin Accepts /\ UNCHANGED <<peer, inflight, answered>>
  BY CallsAssumption DEF Configure, CloseOnError, Calls, ringVars, addrVars
<1>1. \A d \in Calls : Transferring(d)' <=> Transferring(d)
  BY <1>0 DEF Transferring
<1>2. CASE Configure
  <2>0. pc[c] \in {"setsockopt", "bind", "listen"} /\ UNCHANGED shown
    BY <1>2 DEF Configure, Following
  <2>1. CASE UNCHANGED far /\ (Go(c, "error") \/ Go(c, "bind"))
    BY <1>0, <1>1, <2>0, <2>1, BeginRefines DEF Go, Pending
  <2>2. CASE pc[c] = "bind" /\ Go(c, "listen") /\ Reach(c, Denotes(addr[c]))
    <3>1. far[c] = NoPeer /\ Denotes(addr[c]) = Places[c]
      BY <1>0, <2>2, Targets DEF ReachInv, AddrInv, Places
    <3>2. pc'[c] = "listen" /\ \A d \in Calls : d # c => pc'[d] = pc[d]
      BY <1>0, <2>2 DEF Go, TypeOK
    <3>3. far' = [far EXCEPT ![c] = far'[c]] /\ far'[c] = Denotes(addr[c])
      BY <1>0, <2>2 DEF Reach, TypeOK
    <3> QED BY <1>0, <1>1, <2>0, <2>2, <3>1, <3>2, <3>3, EstablishRefines DEF Pending
  <2>3. CASE pc[c] = "listen" /\ Go(c, "open") /\ UNCHANGED far
    <3>1. far[c] \in Endpoint
      BY <2>3, Targets DEF AddrInv
    <3> QED BY <1>0, <1>1, <2>0, <2>3, <3>1, SucceedRefines DEF Go, Pending
  <2> QED BY <1>2, <2>0, <2>1, <2>2, <2>3 DEF Configure, Following
<1>3. CASE CloseOnError
  <2>1. errno[c] \in Int
    <3>1. errno[c] \in Errnos \cup {0}
      BY <1>0 DEF TypeOK
    <3>2. \A e \in Errnos : e \in Int
      BY ErrnosAssumption
    <3> QED BY <3>1, <3>2
  <2>2. map_error(errno[c]) \in Statuses \ {IO_OK}
    BY <2>1, MapError
  <2> QED BY <1>0, <1>1, <1>3, <2>2, ThrowRefines DEF CloseOnError, Throw, Go, Pending, addrVars
<1> QED BY <1>2, <1>3

LEMMA StepRefines ==
  ASSUME IInv, ReachInv, [Next]_vars
  PROVE  [TCP!Next]_(TCP!vars)
<1>1. CASE UNCHANGED vars
  <2>1. UNCHANGED <<pc, peer, far, inflight, answered, shown>>
    BY <1>1 DEF vars, addrVars, ringVars, reportVars
  <2>2. [d \in Calls |-> StageOf(d)]' = [d \in Calls |-> StageOf(d)]
        /\ {d \in Calls : Transferring(d)}' = {d \in Calls : Transferring(d)}
    BY <2>1 DEF StageOf, Transferring
  <2> QED BY <2>1, <2>2 DEF TCP!vars
<1> QED BY <1>1, ConfigureRefines, StartRefines, ResumeRefines, KernelRefines DEF Next

\* What once throws and what close reports, after every step.
LEMMA ReportStep ==
  ASSUME IInv, CloseAnswers, ResultsLoseTheirCode, [Next]_vars
  PROVE  CloseAnswers' /\ ResultsLoseTheirCode'
<1> USE DEF IInv
<1>0. /\ DOMAIN pc = Calls /\ DOMAIN shown = Calls /\ Accepts \subseteq Calls
      /\ Listener \notin Accepts /\ Connects \cap Accepts = {} /\ 0 \in Answers
  BY CallsAssumption DEF TypeOK, Calls, Answers
<1>1. ASSUME answered' \subseteq answered
      PROVE  CloseAnswers'
  BY <1>1 DEF CloseAnswers
<1>2. ASSUME NEW c \in Calls, \A d \in Calls : d # c => pc'[d] = pc[d] /\ shown'[d] = shown[d],
             \/ pc'[c] \notin {"threw", "closed"}
             \/ pc'[c] = pc[c] /\ shown'[c] = shown[c]
             \/ pc'[c] = "threw" /\ (c \in Accepts => shown'[c] \in {IO_UNKNOWN, IO_EOF})
             \/ pc'[c] = "closed" /\ shown'[c] = IO_UNKNOWN
      PROVE  ResultsLoseTheirCode'
  BY <1>0, <1>2 DEF ResultsLoseTheirCode
<1>3. CASE UNCHANGED vars
  BY <1>3 DEF vars, ringVars, reportVars, CloseAnswers, ResultsLoseTheirCode
<1>4. CASE Configure \/ CloseOnError
  <2>1. UNCHANGED answered /\ Listener \in Calls
    BY <1>4 DEF Configure, CloseOnError, ringVars, Calls
  <2>2. /\ \A d \in Calls : d # Listener => pc'[d] = pc[d] /\ shown'[d] = shown[d]
        /\ pc'[Listener] # "closed"
    BY <1>0, <1>4, <2>1 DEF Configure, CloseOnError, Go, Throw, Following
  <2> QED BY <1>0, <1>1, <1>2, <2>1, <2>2
<1>5. ASSUME NEW c \in Calls, Start(c)
      PROVE  CloseAnswers' /\ ResultsLoseTheirCode'
  <2>1. UNCHANGED answered
    BY <1>5 DEF Start, Socket, StartConnect, StartAccept, StartTransfer, Close, ringVars
  <2>2. /\ \A d \in Calls : d # c => pc'[d] = pc[d] /\ shown'[d] = shown[d]
        /\ \/ pc'[c] \notin {"threw", "closed"}
           \/ pc'[c] = "threw" /\ c \notin Accepts
           \/ pc'[c] = pc[c] /\ shown'[c] = shown[c]
    BY <1>0, <1>5 DEF Start, Socket, StartConnect, StartAccept, StartTransfer, Close, Go, Throw, reportVars
  <2> QED BY <1>1, <1>2, <2>1, <2>2
<1>6. ASSUME NEW c \in Calls, ResumeConnect(c) \/ ResumeTransfer(c)
      PROVE  CloseAnswers' /\ ResultsLoseTheirCode'
  <2>1. answered' \subseteq answered
    BY <1>6 DEF ResumeConnect, ResumeTransfer, Take
  <2>2. /\ \A d \in Calls : d # c => pc'[d] = pc[d] /\ shown'[d] = shown[d]
        /\ \/ pc'[c] = "open"
           \/ pc'[c] = "threw" /\ c \notin Accepts
           \/ pc'[c] = pc[c] /\ shown'[c] = shown[c]
    BY <1>0, <1>6 DEF ResumeConnect, ResumeTransfer, Go, Throw, reportVars
  <2> QED BY <1>1, <1>2, <2>1, <2>2
<1>7. ASSUME NEW c \in Calls, ResumeAccept(c)
      PROVE  CloseAnswers' /\ ResultsLoseTheirCode'
  <2>1. PICK ret \in Answers :
          /\ Take(c, "accept", ret)
          /\ IF success(map_result(ret))
               THEN Go(c, "open") /\ UNCHANGED shown
               ELSE Throw(c, error(map_result(ret)))
    BY <1>7 DEF ResumeAccept
  <2>2. ~success(map_result(ret)) => error(map_result(ret)) \in {IO_UNKNOWN, IO_EOF}
    <3>1. ASSUME ret < 0, ret \in Int
          PROVE  map_error(ret) \in {IO_UNKNOWN, IO_EOF}
      BY <3>1, MappedAssumption, MaxErrnoAssumption DEF map_error
    <3> QED BY <3>1, MapResult
  <2>3. /\ \A d \in Calls : d # c => pc'[d] = pc[d] /\ shown'[d] = shown[d]
        /\ pc'[c] = "open" \/ (pc'[c] = "threw" /\ shown'[c] \in {IO_UNKNOWN, IO_EOF})
    BY <1>0, <2>1, <2>2 DEF Go, Throw
  <2>4. answered' \subseteq answered
    BY <2>1 DEF Take
  <2> QED BY <1>1, <1>2, <2>3, <2>4
<1>8. ASSUME NEW c \in Calls, ResumeClose(c)
      PROVE  CloseAnswers' /\ ResultsLoseTheirCode'
  <2>1. PICK ret \in Answers :
          Take(c, "close", ret) /\ shown' = [shown EXCEPT ![c] = map_error(ret)]
    BY <1>8 DEF ResumeClose
  <2> DEFINE p == [by |-> c, kind |-> "close", ret |-> ret]
  <2>2. p \in answered /\ p.kind = "close" /\ p.ret = ret /\ answered' \subseteq answered
    BY <2>1 DEF Take
  <2> HIDE DEF p
  <2>3. ret = 0
    BY <2>2 DEF CloseAnswers
  <2>4. /\ \A d \in Calls : d # c => pc'[d] = pc[d] /\ shown'[d] = shown[d]
        /\ pc'[c] = "closed" /\ shown'[c] = IO_UNKNOWN
    BY <1>0, <1>8, <2>1, <2>3, CloseNeverReportsOk DEF ResumeClose, Go
  <2> QED BY <1>1, <1>2, <2>2, <2>4
<1>9. ASSUME NEW r \in inflight, Kernel(r)
      PROVE  CloseAnswers' /\ ResultsLoseTheirCode'
  <2>1. UNCHANGED <<pc, shown>>
    BY <1>9 DEF Kernel, KernelConnect, KernelAccept, KernelTransfer, KernelClose, reportVars
  <2>2. PICK ret : Answer(r, ret) /\ (r.kind = "close" => ret = 0)
    BY <1>9 DEF Kernel, KernelConnect, KernelAccept, KernelTransfer, KernelClose
  <2> DEFINE n == [by |-> r.by, kind |-> r.kind, ret |-> ret]
  <2>3. answered' = answered \cup {n} /\ n.kind = r.kind /\ n.ret = ret
    BY <2>2 DEF Answer
  <2> HIDE DEF n
  <2> QED BY <2>1, <2>2, <2>3 DEF CloseAnswers, ResultsLoseTheirCode
<1> QED BY <1>3, <1>4, <1>5, <1>6, <1>7, <1>8, <1>9 DEF Next, Resume

(***************************************************************************)
(* The results.                                                            *)
(***************************************************************************)

\* The inductive invariant holds of every behaviour.
THEOREM Invariance == Spec => []IInv
BY InitInv, NextInv, PTL DEF Spec

\* TypeOK: the variables of the TCP calls stay within their types.
THEOREM TypeCorrect == Spec => []TypeOK
<1>1. IInv => TypeOK
  BY DEF IInv
<1> QED BY <1>1, Invariance, PTL

\* NoFdLeak: whatever step of acceptor_tcp, connect or once fails, and in whatever
\* order handles are closed, no descriptor outlives the call or handle it belongs to.
THEOREM DescriptorsReturned == Spec => []NoFdLeak
<1>1. ASSUME IInv
      PROVE  NoFdLeak
  <2> SUFFICES ASSUME NEW f \in Fds, fdtab[f] # Free
               PROVE  \/ fd[fdtab[f]] = f /\ pc[fdtab[f]] \notin {"idle", "closed", "threw"}
                      \/ [by |-> fdtab[f], kind |-> "accept", ret |-> f] \in answered
    BY DEF NoFdLeak
  <2>1. PICK c \in Calls : fdtab[f] = c
    BY <1>1 DEF IInv, TypeOK
  <2>2. Holds(c) => pc[c] \notin {"idle", "closed", "threw"}
    BY DEF Holds, HoldsFd
  <2> QED BY <1>1, <2>1, <2>2 DEF IInv, FdInv
<1> QED BY <1>1, Invariance, PTL

\* OwnSocket: a handle's descriptor stands for the socket made for it until its close
\* is carried out, and every operation is issued on the socket it is meant for.
THEOREM HandlesKeepSockets == Spec => []OwnSocket
<1>1. IInv => OwnSocket
  BY DEF IInv
<1> QED BY <1>1, Invariance, PTL

\* FailureIsReported: acceptor_tcp throws the Status of the step that failed, and no
\* call that failed throws IO_OK, whatever is left in errno.
THEOREM FailuresAreTold == Spec => []FailureIsReported
<1>1. IInv => FailureIsReported
  BY DEF IInv
<1> QED BY <1>1, Invariance, PTL

\* PeersAreTrue: a once's Peer is the process its socket is connected to, and a socket
\* is bound or connected to the endpoint asked for, the port narrowed to 16 bits.
THEOREM PeersAreConnected == Spec => []PeersAreTrue
<1>1. IInv => PeersAreTrue
  BY Targets DEF IInv, AddrInv, PeersAreTrue
<1> QED BY <1>1, Invariance, PTL

\* ImplementsTCPCalls: to their callers the TCP calls of Linux5 do what TCPCalls says,
\* for any calls, descriptors, errors and addresses, in any interleaving.
THEOREM Implements == Spec => ImplementsTCPCalls
<1>1. Init => ReachInv /\ TCP!Init
  <2> SUFFICES ASSUME Init PROVE ReachInv /\ TCP!Init
    OBVIOUS
  <2>1. ReachInv
    BY DEF Init, ReachInv, Calls
  <2>2. \A d \in Calls : StageOf(d) = "idle" /\ ~Transferring(d)
    BY DEF Init, StageOf, Pending, Transferring
  <2> QED BY <2>1, <2>2 DEF Init, TCP!Init, TCP!Calls, Calls
<1>2. IInv /\ ReachInv /\ [Next]_vars => ReachInv'
  BY ReachStep
<1>3. IInv /\ ReachInv /\ [Next]_vars => [TCP!Next]_(TCP!vars)
  BY StepRefines
<1> QED BY <1>1, <1>2, <1>3, Invariance, PTL DEF Spec, ImplementsTCPCalls, TCP!Spec

\* AnswersAreFinal: what a caller was told, where its socket got and the peer it was named
\* never change afterwards, whatever completes or is closed later.
THEOREM AnswersStand == Spec => TCP!AnswersAreFinal
<1>1. ASSUME TypeOK, TCP!Next, NEW d \in Calls
      PROVE  TCP!AnswerStands(d)
  <2> DEFINE st == [x \in Calls |-> StageOf(x)]
             tl == shown
  <2>1. PICK c \in Calls :
          \/ TCP!Begin(c) \/ TCP!Establish(c) \/ TCP!Succeed(c) \/ TCP!Throw(c)
          \/ TCP!StartTransfer(c) \/ TCP!EndTransfer(c) \/ TCP!StartClose(c) \/ TCP!EndClose(c)
    BY <1>1 DEF TCP!Next, TCP!Calls, Calls
  <2>2. /\ far[c] = NoPeer \/ far' = far
        /\ \A x \in Calls : x # c => far'[x] = far[x] /\ peer'[x] = peer[x] /\ st'[x] = st[x] /\ tl'[x] = tl[x]
        /\ st[c] # "pending" => peer' = peer
        /\ st[c] \in {"threw", "closed"} => st' = st /\ tl' = tl
        /\ st[c] \in {"open", "closing"} => st'[c] \in {"open", "closing", "closed"}
    BY <1>1, <2>1 DEF TypeOK, TCP!Begin, TCP!Establish, TCP!Succeed, TCP!Throw, TCP!StartTransfer,
       TCP!EndTransfer, TCP!StartClose, TCP!EndClose, TCP!Go, TCP!Ready
  <2> HIDE DEF st, tl
  <2>3. /\ far[d] # NoPeer => far'[d] = far[d]
        /\ st[d] # "pending" => peer'[d] = peer[d]
        /\ st[d] \in {"threw", "closed"} => st'[d] = st[d] /\ tl'[d] = tl[d]
        /\ st[d] \in {"open", "closing"} => st'[d] \in {"open", "closing", "closed"}
    BY <1>1, <2>2
  <2> QED BY <2>3 DEF TCP!AnswerStands, st, tl
<1>2. TypeOK /\ [TCP!Next]_(TCP!vars) => [TCP!AnswersStand]_(TCP!vars)
  BY <1>1 DEF TCP!AnswersStand, TCP!Calls, Calls
<1> QED BY <1>2, TypeCorrect, Implements, PTL DEF ImplementsTCPCalls, TCP!Spec, TCP!AnswersAreFinal

\* ResultsLoseTheirCode: the findings about once and close for any errors, not for the
\* ones a run tries: no once that fails tells which error it met, and no close that
\* worked says so.
THEOREM CodesAreLost == Spec => []ResultsLoseTheirCode
<1>1. Init => CloseAnswers /\ ResultsLoseTheirCode
  BY DEF Init, CloseAnswers, ResultsLoseTheirCode, Calls
<1>2. IInv /\ CloseAnswers /\ ResultsLoseTheirCode /\ [Next]_vars => CloseAnswers' /\ ResultsLoseTheirCode'
  BY ReportStep
<1> QED BY <1>1, <1>2, Invariance, PTL DEF Spec

=============================================================================
