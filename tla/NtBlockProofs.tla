---------------------------- MODULE NtBlockProofs ----------------------------
(* Proofs about NtBlock, for any callers, offsets, DWORD width and error codes. *)
EXTENDS NtBlock, SequenceTheorems, TLAPS

(***************************************************************************)
(* Values.                                                                 *)
(***************************************************************************)

\* The greater of two numbers, which Max chooses.
LEMMA MaxOfTwo ==
  ASSUME NEW m \in Nat, NEW n \in Nat
  PROVE  Max({m, n}) \in {m, n} /\ Max({m, n}) >= m /\ Max({m, n}) >= n
<1>1. \E x \in {m, n} : \A y \in {m, n} : x >= y
  OBVIOUS
<1>2. Max({m, n}) \in {m, n} /\ \A y \in {m, n} : Max({m, n}) >= y
  BY <1>1 DEF Max
<1> QED BY <1>2

\* A file that was written is a file.
LEMMA PutIsFile ==
  ASSUME NEW f \in Files, NEW at \in Nat, NEW u \in Calls
  PROVE  Put(f, at, u) \in Files
<1> DEFINE n == Max({Len(f), at + 1})
<1>1. n \in Nat
  BY MaxOfTwo, LenProperties DEF Files
<1>2. ASSUME NEW i \in 1..n
      PROVE  (IF i = at + 1 THEN u ELSE IF i <= Len(f) THEN f[i] ELSE Zero) \in Calls \cup {Zero}
  BY <1>1, ElementOfSeq, LenProperties DEF Files
<1> HIDE DEF n
<1>3. [i \in 1..n |-> IF i = at + 1 THEN u ELSE IF i <= Len(f) THEN f[i] ELSE Zero] \in Files
  BY <1>1, <1>2 DEF Files
<1> QED BY <1>3 DEF Put, n

\* A read returns one unit of the file, or none.
LEMMA UnitAtValue ==
  ASSUME NEW f \in Files, NEW at \in Nat
  PROVE  \/ UnitAt(f, at) = <<>>
         \/ \E u \in Calls \cup {Zero} : UnitAt(f, at) = <<u>>
BY ElementOfSeq, LenProperties DEF Files, UnitAt

\* Only ERROR_SUCCESS becomes IO_OK; every other code a failed IOResult.
LEMMA MapError ==
  /\ map_error(SUCCESS) = IO_OK /\ \A n \in Int : OfCount(map_error(SUCCESS), n) = n
  /\ \A sys \in SystemCodes : map_error(sys) \in Statuses
  /\ \A sys \in SystemCodes \ {SUCCESS} :
       map_error(sys) # IO_OK /\ \A n : ~success(OfCount(map_error(sys), n))
<1>1. \A sys : sys # SUCCESS => map_error(sys) \in Int /\ map_error(sys) > 0
  BY CasesAssumption, MaxErrnoAssumption DEF map_error, IO_UNKNOWN, IO_EOF
<1>2. \A sys : sys # SUCCESS => map_error(sys) # IO_OK
  BY <1>1 DEF IO_OK
<1>3. \A sys, n : sys # SUCCESS => ~success(OfCount(map_error(sys), n))
  BY <1>1, <1>2 DEF OfCount, success
<1>4. \A sys : map_error(sys) \in Statuses
  BY DEF map_error, Statuses
<1> QED BY <1>2, <1>3, <1>4 DEF map_error, OfCount, IO_OK

\* The kinds of requests are told apart.
LEMMA Kinds ==
  /\ \A r \in Opening : r \notin Using /\ r.kind = "open" /\ r.flags \in SUBSET Flag /\ r # NoRequest
  /\ \A r \in Using : r.kind \in {"read", "write", "sync", "close"} /\ r # NoRequest
  /\ \A r \in Using \ {Closing} : r.kind # "close"
  /\ Closing \in Using /\ Closing.kind = "close"
BY NoRequestAssumption DEF Opening, Using, Closing

\* The two DWORDs hold the whole offset.
LEMMA WholeOffset ==
  ASSUME NEW at \in Offsets
  PROVE  /\ at \in Nat /\ at % Word \in Dwords /\ at \div Word \in Dwords
         /\ (at % Word) + (at \div Word) * Word = at
<1>1. Word \in Nat \ {0} /\ at \in 0..(Word * Word - 1)
  BY WordAssumption
<1>2. at \in Nat /\ at % Word \in 0..(Word - 1) /\ (at % Word) + (at \div Word) * Word = at
  BY <1>1
<1>3. at \div Word \in 0..(Word - 1)
  BY <1>1
<1> QED BY <1>2, <1>3 DEF Dwords

\* The system call of a request reaches the offset of that request.
LEMMA OverlappedRequest ==
  ASSUME NEW r \in Using
  PROVE  LET q == setOverlapped(r) IN
         /\ q \in SystemCalls /\ q # NoRequest /\ q.kind = r.kind
         /\ r.kind \in {"read", "write"} => r.at \in Offsets /\ At(q) = r.at
<1>1. CASE r \in [kind : {"read", "write"}, at : Offsets]
  <2>1. setOverlapped(r) = [kind |-> r.kind, Offset |-> r.at % Word, OffsetHigh |-> r.at \div Word]
    BY <1>1 DEF setOverlapped
  <2>2. r.at \in Offsets /\ r.kind \in {"read", "write"}
    BY <1>1
  <2>3. setOverlapped(r) \in SystemCalls
    BY <2>1, <2>2, WholeOffset DEF SystemCalls
  <2> QED BY <2>1, <2>2, <2>3, WholeOffset, NoCallAssumption DEF At
<1>2. CASE r \notin [kind : {"read", "write"}, at : Offsets]
  BY <1>2, NoCallAssumption DEF setOverlapped, Using, SystemCalls
<1> QED BY <1>1, <1>2

(***************************************************************************)
(* IInv is inductive.                                                      *)
(***************************************************************************)

LEMMA InitInv ==
  ASSUME Init
  PROVE  IInv
<1>1. <<>> \in Files /\ <<Zero>> \in Files
  BY DEF Files
<1>2. TypeOK
  BY <1>1 DEF Init, TypeOK, SystemCodes
<1>3. StageInv /\ CallInv
  BY DEF Init, StageInv, CallInv, HasHandle
<1>4. ShareInv /\ PathInv /\ ToldInv
  BY DEF Init, ShareInv, PathInv, ToldInv, HasHandle
<1> QED BY <1>2, <1>3, <1>4 DEF IInv

\* The steps that leave the system alone: what remains to be shown of each.
LEMMA CallerStep ==
  ASSUME IInv, NEW c \in Calls, UNCHANGED <<file, handleVars>>,
         TypeOK', StageInv!(c)', CallInv!(c)',
         \A d \in Calls \ {c} :
           /\ pc'[d] = pc[d] /\ asked'[d] = asked[d] /\ call'[d] = call[d] /\ shown'[d] = shown[d]
           /\ d \in locked' <=> d \in locked,
         c \in locked' => pc'[c] # "idle",
         HasHandle(c) => (c \in locked' <=> c \in locked),
         pc'[c] = "create" => (c \in locked' <=> "F_EXLOCK" \in asked'[c].flags),
         pc'[c] \in {"unwinding", "threw"} => shown'[c] # IO_OK
  PROVE  IInv'
<1> USE DEF IInv, HasHandle, handleVars
<1>1. StageInv'
  <2> SUFFICES ASSUME NEW d \in Calls, d # c PROVE StageInv!(d)'
    BY DEF StageInv
  <2> QED BY DEF StageInv
<1>2. CallInv'
  <2> SUFFICES ASSUME NEW d \in Calls, d # c PROVE CallInv!(d)'
    BY DEF CallInv
  <2> QED BY DEF CallInv
<1>3. ShareInv'
  BY DEF ShareInv
<1>4. PathInv'
  BY DEF PathInv
<1>5. ToldInv'
  BY DEF ToldInv
<1> QED BY <1>1, <1>2, <1>3, <1>4, <1>5

\* Asking to open preserves the invariant.
LEMMA OpenInv ==
  ASSUME IInv, NEW c \in Calls, Open(c)
  PROVE  IInv'
<1> USE DEF Open, Go, Ask, handleVars, resultVars
<1>1. pc[c] = "idle" /\ asked[c] = NoRequest /\ ~HasHandle(c) /\ call[c] = NoRequest /\ c \notin locked
  BY DEF IInv, StageInv, CallInv, ShareInv
<1>2. CASE \E flags \in SUBSET Flag :
             flags \cap Rights = {} /\ Throw(c, IO_EACCES, "threw") /\ UNCHANGED <<asked, locked>>
  <2>1. /\ pc' = [pc EXCEPT ![c] = "threw"] /\ shown' = [shown EXCEPT ![c] = IO_EACCES]
        /\ UNCHANGED <<file, handleVars, asked, locked, call, resultVars>>
    BY <1>2 DEF Throw
  <2>2. TypeOK'
    BY <2>1 DEF IInv, TypeOK
  <2>3. StageInv!(c)' /\ CallInv!(c)'
    BY <1>1, <2>1 DEF IInv, TypeOK, HasHandle
  <2> QED BY <1>1, <2>1, <2>2, <2>3, CallerStep DEF IInv, TypeOK, IO_EACCES, IO_OK
<1>3. ASSUME NEW flags \in SUBSET Flag, flags \cap Rights # {},
             asked' = [asked EXCEPT ![c] = [kind |-> "open", flags |-> flags]],
             locked' = IF "F_EXLOCK" \in flags THEN locked \cup {c} ELSE locked,
             pc' = [pc EXCEPT ![c] = "create"], UNCHANGED shown
      PROVE  IInv'
  <2> DEFINE r == [kind |-> "open", flags |-> flags]
  <2>1. r \in Opening /\ r.flags = flags
    BY DEF Opening
  <2> HIDE DEF r
  <2>2. asked' = [asked EXCEPT ![c] = r]
    BY <1>3 DEF r
  <2>3. TypeOK'
    BY <1>3, <2>1, <2>2 DEF IInv, TypeOK
  <2>4. StageInv!(c)' /\ CallInv!(c)'
    BY <1>1, <1>3, <2>1, <2>2 DEF IInv, TypeOK, HasHandle
  <2> QED BY <1>1, <1>3, <2>1, <2>2, <2>3, <2>4, CallerStep DEF IInv, TypeOK
<1> QED BY <1>2, <1>3
\* Resuming from an operation preserves the invariant.
LEMMA ResumeInv ==
  ASSUME IInv, NEW c \in Calls, Resume(c)
  PROVE  IInv'
<1> USE DEF Resume, Go, Ask, handleVars, resultVars
<1>1. asked[c] = NoRequest
  BY OverlappedRequest, Kinds DEF IInv, TypeOK, StageInv, CallInv
<1>2. TypeOK'
  BY DEF IInv, TypeOK
<1>3. StageInv!(c)' /\ CallInv!(c)'
  BY <1>1 DEF IInv, TypeOK, StageInv, CallInv, HasHandle
<1> QED BY <1>2, <1>3, CallerStep DEF IInv, TypeOK, ShareInv
\* Using a handle preserves the invariant.
LEMMA UseInv ==
  ASSUME IInv, NEW c \in Calls, Use(c)
  PROVE  IInv'
<1> USE DEF Use, Go, Ask, handleVars, resultVars
<1>1. PICK r \in Using :
        /\ pc' = [pc EXCEPT ![c] = IF r.kind = "close" THEN "closing" ELSE "waiting"]
        /\ asked' = [asked EXCEPT ![c] = r] /\ call' = [call EXCEPT ![c] = setOverlapped(r)]
  OBVIOUS
<1>2. HasHandle(c) /\ (r.kind = "close" <=> r = Closing) /\ r # NoRequest
  BY Kinds DEF IInv, StageInv
<1>3. TypeOK'
  BY <1>1, OverlappedRequest DEF IInv, TypeOK
<1>4. StageInv!(c)' /\ CallInv!(c)'
  BY <1>1, <1>2 DEF IInv, TypeOK, HasHandle
<1> QED BY <1>1, <1>3, <1>4, CallerStep DEF IInv, TypeOK, ShareInv
\* Binding a handle to the completion port, or not, preserves the invariant.
LEMMA BindInv ==
  ASSUME IInv, NEW c \in Calls, Bind(c)
  PROVE  IInv'
<1> USE DEF Bind, Go, Ask, handleVars, resultVars
<1>1. asked[c] = NoRequest /\ HasHandle(c) /\ call[c] = NoRequest
  BY DEF IInv, StageInv, CallInv
<1>2. CASE Go(c, "open") /\ UNCHANGED <<asked, shown>>
  <2>1. TypeOK' /\ StageInv!(c)' /\ CallInv!(c)'
    BY <1>1, <1>2 DEF IInv, TypeOK, HasHandle
  <2> QED BY <1>2, <2>1, CallerStep DEF IInv, TypeOK, ShareInv
<1>3. ASSUME NEW sys \in Codes, Unbound(c, map_error(sys))
      PROVE  IInv'
  <2>1. /\ pc' = [pc EXCEPT ![c] = "unwinding"] /\ asked' = [asked EXCEPT ![c] = Closing]
        /\ shown' = [shown EXCEPT ![c] = map_error(sys)]
    BY <1>3 DEF Unbound, Throw, Closing
  <2>2. sys \in SystemCodes \ {SUCCESS}
    BY CodesAssumption DEF SystemCodes
  <2>3. map_error(sys) \in Statuses /\ map_error(sys) # IO_OK
    BY <2>2, MapError
  <2>4. TypeOK'
    BY <2>1, <2>3, Kinds DEF IInv, TypeOK
  <2>5. StageInv!(c)' /\ CallInv!(c)'
    BY <1>1, <2>1, Kinds DEF IInv, TypeOK, HasHandle
  <2> QED BY <2>1, <2>2, <2>3, <2>4, <2>5, CallerStep DEF IInv, TypeOK, ShareInv
<1> QED BY <1>2, <1>3

\* The steps after which the system holds a handle as before or no longer.
LEMMA SystemStep ==
  ASSUME IInv, NEW c \in Calls, HasHandle(c), UNCHANGED <<locked, shown>>,
         TypeOK', StageInv!(c)', CallInv!(c)',
         \A d \in Calls \ {c} :
           /\ pc'[d] = pc[d] /\ asked'[d] = asked[d] /\ call'[d] = call[d]
           /\ rights'[d] = rights[d] /\ share'[d] = share[d],
         rights'[c] = {} \/ UNCHANGED handleVars,
         file' = file \/ file' \in Files,
         pc'[c] \notin {"idle", "create", "unwinding"},
         pc'[c] = "threw" => pc[c] = "unwinding"
  PROVE  IInv'
<1> USE DEF IInv, HasHandle, handleVars
<1>0. file \in Files
  BY DEF PathInv
<1>1. StageInv'
  <2> SUFFICES ASSUME NEW d \in Calls, d # c PROVE StageInv!(d)'
    BY DEF StageInv
  <2> QED BY DEF StageInv
<1>2. CallInv'
  <2> SUFFICES ASSUME NEW d \in Calls, d # c PROVE CallInv!(d)'
    BY DEF CallInv
  <2> QED BY DEF CallInv
<1>3. ShareInv'
  BY DEF ShareInv
<1>4. PathInv'
  BY <1>0 DEF PathInv
<1>5. ToldInv'
  BY DEF ToldInv
<1> QED BY <1>1, <1>2, <1>3, <1>4, <1>5

\* Closing a handle that could not be bound preserves the invariant.
LEMMA UnwindInv ==
  ASSUME IInv, NEW c \in Calls, Unwind(c)
  PROVE  IInv'
<1> USE DEF Unwind, Go, Ask, Answer, SetHandle
<1>1. asked[c] = Closing /\ HasHandle(c) /\ call[c] = NoRequest
  BY DEF IInv, StageInv, CallInv
<1>2. TypeOK'
  BY DEF IInv, TypeOK, SystemCodes
<1>3. StageInv!(c)' /\ CallInv!(c)'
  BY <1>1 DEF IInv, TypeOK, HasHandle
<1> QED BY <1>1, <1>2, <1>3, SystemStep DEF IInv, TypeOK

\* A system call of c, by the kind of what c asked for.
LEMMA CallKinds ==
  ASSUME IInv, NEW c \in Calls, call[c] # NoRequest
  PROVE  /\ asked[c] \in Using /\ call[c] = setOverlapped(asked[c]) /\ call[c].kind = asked[c].kind
         /\ HasHandle(c) /\ pc[c] \in {"waiting", "closing"}
         /\ pc[c] = "closing" <=> call[c].kind = "close"
         /\ call[c].kind \in {"read", "write"} => asked[c].at \in Offsets /\ At(call[c]) = asked[c].at
<1> USE DEF IInv
<1>1. /\ pc[c] \in {"waiting", "closing"} /\ asked[c] # NoRequest
      /\ call[c] = setOverlapped(asked[c])
  BY DEF CallInv
<1>2. asked[c] \in Using /\ HasHandle(c) /\ (pc[c] = "closing" <=> asked[c] = Closing)
  BY <1>1, Kinds DEF StageInv
<1>3. pc[c] = "closing" <=> asked[c].kind = "close"
  BY <1>2, Kinds
<1>4. /\ call[c].kind = asked[c].kind
      /\ asked[c].kind \in {"read", "write"} => asked[c].at \in Offsets /\ At(call[c]) = asked[c].at
  BY <1>1, <1>2, OverlappedRequest
<1> QED BY <1>1, <1>2, <1>3, <1>4

\* The system performing a call preserves the invariant.
LEMMA SystemInv ==
  ASSUME IInv, NEW c \in Calls, System(c)
  PROVE  IInv'
<1>0. /\ call[c] # NoRequest /\ call' = [call EXCEPT ![c] = NoRequest]
      /\ UNCHANGED <<pc, locked, shown>>
  BY DEF System
<1>1. /\ asked[c] \in Using /\ HasHandle(c) /\ pc[c] \in {"waiting", "closing"}
      /\ pc[c] = "closing" <=> call[c].kind = "close"
  BY <1>0, CallKinds
<1>2. ASSUME NEW sys \in SystemCodes, NEW n \in {0, 1}, Answer(c, sys, n),
             unit' \in [Calls -> Calls \cup {Zero}], file' = file \/ file' \in Files,
             IF call[c].kind = "close" THEN SetHandle(c, {}, {}) ELSE UNCHANGED handleVars
      PROVE  IInv'
  <2>1. asked' = [asked EXCEPT ![c] = NoRequest]
    BY <1>2 DEF Answer, Ask
  <2>2. TypeOK'
    BY <1>0, <1>2, <2>1 DEF IInv, TypeOK, Answer, SetHandle, handleVars
  <2>3. StageInv!(c)' /\ CallInv!(c)'
    BY <1>0, <1>1, <1>2, <2>1 DEF IInv, TypeOK, HasHandle, SetHandle, handleVars
  <2> QED BY <1>0, <1>1, <1>2, <2>1, <2>2, <2>3, SystemStep DEF IInv, TypeOK, SetHandle, handleVars
<1>3. CASE call[c].kind = "read" /\ ReadFile(c, call[c])
  <2>1. file \in Files /\ At(call[c]) \in Nat
    BY <1>0, <1>1, <1>3, CallKinds, WholeOffset DEF IInv, PathInv
  <2>2. CASE UnitAt(file, At(call[c])) = <<>>
    BY <1>2, <1>3, <2>2 DEF ReadFile, SystemCodes, IInv, TypeOK
  <2>3. ASSUME NEW u \in Calls \cup {Zero}, UnitAt(file, At(call[c])) = <<u>>
        PROVE  IInv'
    <3>1. Moves(c, u) /\ UNCHANGED <<file, handleVars>>
      BY <1>3, <2>3 DEF ReadFile
    <3>2. unit' \in [Calls -> Calls \cup {Zero}] /\ SUCCESS \in SystemCodes
      BY <3>1 DEF IInv, TypeOK, Moves, SystemCodes
    <3> QED BY <1>2, <1>3, <3>1, <3>2 DEF Moves
  <2> QED BY <2>1, <2>2, <2>3, UnitAtValue
<1>4. CASE call[c].kind = "write" /\ WriteFile(c, call[c])
  <2>1. file \in Files /\ At(call[c]) \in Nat
    BY <1>0, <1>1, <1>4, CallKinds, WholeOffset DEF IInv, PathInv
  <2>2. file' \in Files
    BY <1>4, <2>1, PutIsFile DEF WriteFile
  <2>3. unit' \in [Calls -> Calls \cup {Zero}] /\ SUCCESS \in SystemCodes
    BY <1>4 DEF WriteFile, IInv, TypeOK, Moves, SystemCodes
  <2> QED BY <1>2, <1>4, <2>2, <2>3 DEF WriteFile, Moves
<1>5. CASE call[c].kind = "sync" /\ FlushFileBuffers(c)
  BY <1>2, <1>5 DEF FlushFileBuffers, SystemCodes, IInv, TypeOK
<1>6. CASE call[c].kind = "close" /\ CloseHandle(c)
  BY <1>2, <1>6 DEF CloseHandle, SystemCodes, IInv, TypeOK
<1>7. CASE call[c].kind # "close" /\ CallFails(c)
  BY <1>2, <1>7 DEF CallFails, SystemCodes, IInv, TypeOK
<1> QED BY <1>3, <1>4, <1>5, <1>6, <1>7 DEF System

\* CreateFileW preserves the invariant.
LEMMA CreateFileInv ==
  ASSUME IInv, NEW c \in Calls, CreateFile(c)
  PROVE  IInv'
<1> DEFINE flags == asked[c].flags
           may == flags \cap Rights
           let == make_share(flags)
           disposition == creation_disposition(flags)
           refusals == Refusals(c, may, let, disposition)
<1>1. /\ pc[c] = "create" /\ asked[c] \in Opening /\ may # {} /\ ~HasHandle(c)
      /\ call[c] = NoRequest /\ flags \in SUBSET Flag
      /\ let = IF c \in locked THEN {} ELSE Rights
  BY Kinds DEF IInv, StageInv, CallInv, ShareInv, CreateFile, make_share
<1>2. may \in SUBSET Rights /\ let \in SUBSET Rights
  BY DEF make_share
<1>3. UNCHANGED <<locked, call, unit>>
  BY DEF CreateFile
<1>4. ASSUME NEW sys \in refusals \cup Codes, Answer(c, sys, 0), Throw(c, thrown(sys, flags), "threw"),
             UNCHANGED <<file, handleVars>>
      PROVE  IInv'
  <2>1. sys \in SystemCodes \ {SUCCESS}
    BY <1>4, CodesAssumption
    DEF Refusals, SystemCodes, FILE_NOT_FOUND, FILE_EXISTS, ACCESS_DENIED, INVALID_PARAMETER,
        SHARING_VIOLATION, SUCCESS
  <2>3. thrown(sys, flags) \in Statuses \cup {IO_EISDIR} /\ thrown(sys, flags) # IO_OK
    BY <2>1, MapError DEF thrown, IO_EISDIR, IO_OK
  <2>5. /\ pc' = [pc EXCEPT ![c] = "threw"] /\ asked' = [asked EXCEPT ![c] = NoRequest]
        /\ shown' = [shown EXCEPT ![c] = thrown(sys, flags)]
        /\ code' = [code EXCEPT ![c] = sys] /\ count' = [count EXCEPT ![c] = 0]
    BY <1>4 DEF Answer, Throw, Go, Ask
  <2> HIDE DEF flags, refusals
  <2>6. TypeOK'
    BY <1>3, <1>4, <2>1, <2>3, <2>5 DEF IInv, TypeOK, handleVars
  <2>7. StageInv!(c)' /\ CallInv!(c)'
    BY <1>1, <1>3, <1>4, <2>5 DEF IInv, TypeOK, HasHandle, handleVars
  <2> QED BY <1>1, <1>3, <1>4, <2>3, <2>5, <2>6, <2>7, CallerStep DEF IInv, TypeOK
<1>5. ASSUME refusals = {}, SetHandle(c, may, let), Answer(c, SUCCESS, 0), Go(c, "bind"), UNCHANGED shown,
             file' = IF file = Absent \/ disposition \in {"CREATE_ALWAYS", "TRUNCATE_EXISTING"}
                       THEN <<>> ELSE file
      PROVE  IInv'
  <2>1. /\ pc' = [pc EXCEPT ![c] = "bind"] /\ asked' = [asked EXCEPT ![c] = NoRequest]
        /\ code' = [code EXCEPT ![c] = SUCCESS] /\ count' = [count EXCEPT ![c] = 0]
        /\ rights' = [rights EXCEPT ![c] = may] /\ share' = [share EXCEPT ![c] = let]
    BY <1>5 DEF Answer, Go, Ask, SetHandle
  <2>2. file # Directory
    BY <1>5 DEF Refusals
  <2>3. \A d \in Calls \ {c} : HasHandle(d) => rights[d] \subseteq let /\ may \subseteq share[d]
    BY <1>5 DEF Refusals, HasHandle
  <2>4. file' \in Files
    BY <1>5, <2>2 DEF IInv, TypeOK, Files
  <2> HIDE DEF flags, may, let, refusals, disposition
  <2>5. TypeOK'
    BY <1>2, <1>3, <1>5, <2>1, <2>4 DEF IInv, TypeOK, SystemCodes
  <2>6. StageInv'
    <3> SUFFICES ASSUME NEW d \in Calls PROVE StageInv!(d)'
      BY DEF StageInv
    <3>1. CASE d # c
      BY <2>1, <3>1 DEF IInv, TypeOK, StageInv, HasHandle
    <3>2. CASE d = c
      BY <1>1, <2>1, <3>2 DEF IInv, TypeOK, HasHandle
    <3> QED BY <3>1, <3>2
  <2>7. CallInv'
    BY <1>1, <1>3, <2>1 DEF IInv, TypeOK, CallInv
  <2>8. ShareInv'
    <3>1. \A d \in Calls :
            /\ d \in locked => pc'[d] # "idle"
            /\ pc'[d] = "create" => (d \in locked <=> "F_EXLOCK" \in asked'[d].flags)
            /\ rights'[d] # {} => share'[d] = IF d \in locked THEN {} ELSE Rights
      BY <1>1, <2>1 DEF IInv, TypeOK, ShareInv, HasHandle
    <3>2. \A d, e \in Calls : d # e /\ rights'[d] # {} =>
            rights'[d] \subseteq share'[e] \/ rights'[e] = {}
      <4> SUFFICES ASSUME NEW d \in Calls, NEW e \in Calls, d # e, rights'[d] # {}, rights'[e] # {}
                   PROVE  rights'[d] \subseteq share'[e]
        OBVIOUS
      <4>1. CASE d = c
        BY <2>1, <2>3, <4>1 DEF IInv, TypeOK, HasHandle
      <4>2. CASE e = c
        BY <2>1, <2>3, <4>2 DEF IInv, TypeOK, HasHandle
      <4>3. CASE d # c /\ e # c
        BY <2>1, <4>3 DEF IInv, TypeOK, ShareInv, HasHandle
      <4> QED BY <4>1, <4>2, <4>3
    <3> QED BY <1>3, <3>1, <3>2 DEF ShareInv, HasHandle
  <2>9. PathInv'
    BY <1>5, <2>1, <2>4 DEF IInv, TypeOK, PathInv
  <2>10. ToldInv'
    BY <1>5, <2>1 DEF IInv, TypeOK, ToldInv
  <2> QED BY <2>5, <2>6, <2>7, <2>8, <2>9, <2>10 DEF IInv
<1> HIDE DEF flags, may, let, disposition, refusals
<1>6. \/ /\ refusals = {} /\ SetHandle(c, may, let) /\ Answer(c, SUCCESS, 0)
         /\ Go(c, "bind") /\ UNCHANGED shown
         /\ file' = IF file = Absent \/ disposition \in {"CREATE_ALWAYS", "TRUNCATE_EXISTING"}
                      THEN <<>> ELSE file
      \/ /\ \E sys \in refusals \cup Codes :
              Answer(c, sys, 0) /\ Throw(c, thrown(sys, flags), "threw")
         /\ UNCHANGED <<file, handleVars>>
  BY DEF CreateFile, flags, may, let, disposition, refusals
<1> QED BY <1>4, <1>5, <1>6

(***************************************************************************)
(* The refinement.                                                         *)
(***************************************************************************)

\* The two modules mean the same by flags, requests and transfers.
LEMMA SameData ==
  /\ Abstract!Rights = Rights /\ Abstract!Opening = Opening /\ Abstract!Using = Using
  /\ \A at \in Nat : Abstract!UnitAt(file, at) = UnitAt(file, at)
  /\ \A at, u : Abstract!Put(file, at, u) = Put(file, at, u)
BY DEF Abstract!Rights, Rights, Abstract!Opening, Opening, Abstract!Flag, Flag, Abstract!Using, Using,
       Abstract!UnitAt, UnitAt, Abstract!Put, Put, Abstract!Max, Max

\* What the caller makes of one answer.
OutcomeOf(sys, n, u) ==
  IF ~success(OfCount(map_error(sys), n)) THEN Failed
  ELSE IF OfCount(map_error(sys), n) = 0 THEN <<>> ELSE <<u>>

LEMMA OutcomeValues ==
  /\ \A u : OutcomeOf(SUCCESS, 0, u) = <<>> /\ OutcomeOf(SUCCESS, 1, u) = <<u>>
  /\ \A sys \in SystemCodes \ {SUCCESS} : \A n, u : OutcomeOf(sys, n, u) = Failed
BY MapError DEF OutcomeOf, success

\* Answering c's system call is BlockFile's answer.
LEMMA AnswerRefines ==
  ASSUME TypeOK, NEW c \in Calls, NEW sys, NEW n, NEW u,
         Answer(c, sys, n), unit' = [unit EXCEPT ![c] = u]
  PROVE  Abstract!Answer(c, OutcomeOf(sys, n, u))
<1>1. [d \in Calls |-> Outcome(d)]' =
        [[d \in Calls |-> Outcome(d)] EXCEPT ![c] = OutcomeOf(sys, n, u)]
  BY DEF Answer, Outcome, Result, OutcomeOf, TypeOK
<1> QED BY <1>1 DEF Abstract!Answer, Answer, Ask

LEMMA UnitKept ==
  ASSUME TypeOK, NEW c \in Calls, UNCHANGED unit
  PROVE  unit' = [unit EXCEPT ![c] = unit[c]]
BY DEF TypeOK

\* A request is BlockFile's call.
LEMMA CallRefines ==
  ASSUME IInv, NEW c \in Calls, NEW r, asked' = [asked EXCEPT ![c] = r],
         asked[c] = NoRequest, r \in IF rights[c] = {} THEN Opening ELSE Using,
         UNCHANGED <<file, handleVars, resultVars>>
  PROVE  Abstract!Call(c)
<1>1. [d \in Calls |-> Outcome(d)]' = [d \in Calls |-> Outcome(d)]
  BY DEF Outcome, Result, resultVars
<1>2. \E q \in IF rights[c] = {} THEN Opening ELSE Using : asked' = [asked EXCEPT ![c] = q]
  OBVIOUS
<1> QED BY <1>1, <1>2, SameData DEF Abstract!Call, handleVars

\* CreateFileW, with the arguments ntos_create_file makes of the flags, opens what
\* BlockFile says the flags open, or fails.
LEMMA CreateFileRefines ==
  ASSUME IInv, NEW c \in Calls, CreateFile(c)
  PROVE  Abstract!Perform(c)
<1> DEFINE flags == asked[c].flags
           may == flags \cap Rights
           let == make_share(flags)
           disposition == creation_disposition(flags)
           refusals == Refusals(c, may, let, disposition)
<1>1. /\ asked[c] # NoRequest /\ asked[c].kind = "open" /\ may # {} /\ flags \in SUBSET Flag
  BY Kinds DEF IInv, StageInv, CreateFile
<1>2. unit' = [unit EXCEPT ![c] = unit[c]]
  BY UnitKept DEF IInv, CreateFile
<1>3. ASSUME NEW sys \in refusals \cup Codes, Answer(c, sys, 0), UNCHANGED <<file, handleVars>>
      PROVE  Abstract!Perform(c)
  <2>1. sys \in SystemCodes \ {SUCCESS}
    BY <1>3, CodesAssumption
    DEF Refusals, SystemCodes, FILE_NOT_FOUND, FILE_EXISTS, ACCESS_DENIED, INVALID_PARAMETER,
        SHARING_VIOLATION, SUCCESS
  <2>2. Abstract!Answer(c, Failed)
    <3>1. Abstract!Answer(c, OutcomeOf(sys, 0, unit[c]))
      BY <1>2, <1>3, AnswerRefines DEF IInv
    <3> QED BY <2>1, <3>1, OutcomeValues
  <2> QED BY <1>1, <1>3, <2>2 DEF Abstract!Perform, Abstract!Fail, handleVars
<1>4. ASSUME refusals = {}, SetHandle(c, may, let), Answer(c, SUCCESS, 0),
             file' = IF file = Absent \/ disposition \in {"CREATE_ALWAYS", "TRUNCATE_EXISTING"}
                       THEN <<>> ELSE file
      PROVE  Abstract!Perform(c)
  <2>1. Abstract!Answer(c, <<>>)
    BY <1>2, <1>4, AnswerRefines, OutcomeValues DEF IInv
  <2>2. /\ file # Directory
        /\ file = Absent => disposition \notin {"OPEN_EXISTING", "TRUNCATE_EXISTING"}
        /\ file # Absent => disposition # "CREATE_NEW"
    BY <1>4 DEF Refusals
  <2>3. /\ disposition \in {"OPEN_EXISTING", "TRUNCATE_EXISTING"} <=> "F_CREAT" \notin flags
        /\ disposition = "CREATE_NEW" <=> {"F_CREAT", "F_EXCL"} \subseteq flags
        /\ disposition \in {"CREATE_ALWAYS", "TRUNCATE_EXISTING"} => "F_TRUNC" \in flags
        /\ "F_TRUNC" \in flags /\ disposition # "CREATE_NEW" =>
             disposition \in {"CREATE_ALWAYS", "TRUNCATE_EXISTING"}
    BY <1>1 DEF creation_disposition
  <2>4. /\ file = Absent => "F_CREAT" \in flags
        /\ file # Absent => ~({"F_CREAT", "F_EXCL"} \subseteq flags)
        /\ file' = IF file = Absent \/ "F_TRUNC" \in flags THEN <<>> ELSE file
    BY <1>4, <2>2, <2>3
  <2>5. Abstract!Open(c, flags)
    BY <1>1, <1>4, <2>1, <2>2, <2>4, SameData DEF Abstract!Open, SetHandle
  <2> QED BY <1>1, <2>5 DEF Abstract!Perform
<1> HIDE DEF flags, may, let, disposition, refusals
<1>5. \/ /\ refusals = {} /\ SetHandle(c, may, let) /\ Answer(c, SUCCESS, 0)
         /\ file' = IF file = Absent \/ disposition \in {"CREATE_ALWAYS", "TRUNCATE_EXISTING"}
                      THEN <<>> ELSE file
      \/ (\E sys \in refusals \cup Codes : Answer(c, sys, 0)) /\ UNCHANGED <<file, handleVars>>
  BY DEF CreateFile, flags, may, let, disposition, refusals
<1> QED BY <1>3, <1>4, <1>5

\* A system call performs what was asked for.
LEMMA SystemRefines ==
  ASSUME IInv, NEW c \in Calls, System(c)
  PROVE  Abstract!Perform(c)
<1> USE DEF IInv
<1>0. call[c] # NoRequest /\ asked[c] # NoRequest /\ asked[c].kind = call[c].kind
  BY CallKinds, Kinds DEF System
<1>1. CASE call[c].kind = "read" /\ ReadFile(c, call[c])
  <2>1. At(call[c]) = asked[c].at /\ asked[c].at \in Nat /\ file \in Files /\ file # Directory
    BY <1>0, <1>1, CallKinds, WholeOffset, PathAssumption DEF PathInv
  <2> DEFINE units == UnitAt(file, asked[c].at)
  <2>2. /\ "F_READ" \in rights[c] /\ UNCHANGED <<file, rights>>
        /\ IF units = <<>> THEN Answer(c, HANDLE_EOF, 0) /\ UNCHANGED unit ELSE Moves(c, Head(units))
    BY <1>1, <2>1 DEF ReadFile, handleVars
  <2>3. units = <<>> \/ \E u \in Calls \cup {Zero} : units = <<u>>
    BY <2>1, UnitAtValue
  <2>4. units = Abstract!UnitAt(file, asked[c].at)
    BY <2>1, SameData
  <2> HIDE DEF units
  <2>5. CASE units = <<>>
    <3>1. HANDLE_EOF \in SystemCodes \ {SUCCESS}
      BY DEF SystemCodes, HANDLE_EOF, SUCCESS
    <3>2. Abstract!Answer(c, Failed)
      BY <2>2, <2>5, <3>1, UnitKept, AnswerRefines, OutcomeValues
    <3> QED BY <1>0, <2>2, <3>2 DEF Abstract!Perform, Abstract!Fail
  <2>6. ASSUME NEW u \in Calls \cup {Zero}, units = <<u>>
        PROVE  Abstract!Perform(c)
    <3>1. Moves(c, u)
      BY <2>2, <2>6
    <3>2. Abstract!Answer(c, units)
      BY <2>6, <3>1, AnswerRefines, OutcomeValues DEF Moves
    <3>3. Abstract!Read(c, asked[c].at)
      BY <2>1, <2>2, <2>4, <3>2 DEF Abstract!Read
    <3> QED BY <1>0, <1>1, <3>3 DEF Abstract!Perform
  <2> QED BY <2>3, <2>5, <2>6
<1>2. CASE call[c].kind = "write" /\ WriteFile(c, call[c])
  <2>1. At(call[c]) = asked[c].at
    BY <1>0, <1>2, CallKinds
  <2>2. Abstract!Answer(c, <<c>>)
    BY <1>2, AnswerRefines, OutcomeValues DEF WriteFile, Moves
  <2>3. Abstract!Write(c, asked[c].at)
    BY <1>2, <2>1, <2>2, SameData DEF WriteFile, handleVars, Abstract!Write
  <2> QED BY <1>0, <1>2, <2>3 DEF Abstract!Perform
<1>3. CASE call[c].kind = "sync" /\ FlushFileBuffers(c)
  <2>1. Abstract!Answer(c, <<>>)
    BY <1>3, UnitKept, AnswerRefines, OutcomeValues DEF FlushFileBuffers
  <2> QED BY <1>0, <1>3, <2>1 DEF FlushFileBuffers, handleVars, Abstract!Perform, Abstract!Sync
<1>4. CASE call[c].kind = "close" /\ CloseHandle(c)
  <2>1. Abstract!Answer(c, <<>>)
    BY <1>4, UnitKept, AnswerRefines, OutcomeValues DEF CloseHandle
  <2> QED BY <1>0, <1>4, <2>1 DEF CloseHandle, SetHandle, Abstract!Perform, Abstract!Close
<1>5. CASE CallFails(c)
  <2>1. PICK sys \in Codes : Answer(c, sys, 0)
    BY <1>5 DEF CallFails
  <2>2. sys \in SystemCodes \ {SUCCESS}
    BY CodesAssumption DEF SystemCodes
  <2>3. Abstract!Answer(c, Failed)
    BY <1>5, <2>1, <2>2, UnitKept, AnswerRefines, OutcomeValues DEF CallFails
  <2> QED BY <1>0, <1>5, <2>3 DEF CallFails, handleVars, Abstract!Perform, Abstract!Fail
<1> QED BY <1>1, <1>2, <1>3, <1>4, <1>5 DEF System

\* Every step of NtBlock is one of BlockFile or changes nothing there.
LEMMA StepRefines ==
  ASSUME IInv, [Next]_vars
  PROVE  [Abstract!Next]_(Abstract!vars)
<1> SUFFICES ASSUME ~(UNCHANGED Abstract!vars)
             PROVE  \E c \in Calls : Abstract!Call(c) \/ Abstract!Perform(c)
  BY DEF Abstract!Next
<1>1. UNCHANGED <<file, rights, asked, resultVars>> => UNCHANGED Abstract!vars
  <2> SUFFICES ASSUME UNCHANGED <<file, rights, asked, resultVars>> PROVE UNCHANGED Abstract!vars
    OBVIOUS
  <2>1. [d \in Calls |-> Outcome(d)]' = [d \in Calls |-> Outcome(d)]
    BY DEF Outcome, Result, resultVars
  <2> QED BY <2>1 DEF Abstract!vars
<1>2. PICK c \in Calls :
        \/ Open(c) \/ CreateFile(c) \/ Bind(c) \/ Unwind(c)
        \/ Use(c) \/ System(c) \/ Resume(c)
  BY <1>1 DEF Next, vars, handleVars
<1>3. CASE Open(c)
  <2>1. /\ asked[c] = NoRequest /\ rights[c] = {} /\ UNCHANGED <<file, handleVars, resultVars>>
    BY <1>3 DEF Open, IInv, StageInv, HasHandle
  <2>2. PICK flags \in SUBSET Flag : asked' = [asked EXCEPT ![c] = [kind |-> "open", flags |-> flags]]
    BY <1>1, <1>3, <2>1 DEF Open, Ask, handleVars
  <2> DEFINE r == [kind |-> "open", flags |-> flags]
  <2>3. r \in Opening /\ asked' = [asked EXCEPT ![c] = r]
    BY <2>2 DEF Opening
  <2> HIDE DEF r
  <2> QED BY <2>1, <2>3, CallRefines
<1>4. CASE Bind(c)
  <2>1. /\ asked[c] = NoRequest /\ rights[c] # {} /\ UNCHANGED <<file, handleVars, resultVars>>
    BY <1>4 DEF Bind, IInv, StageInv, HasHandle
  <2>2. asked' = [asked EXCEPT ![c] = Closing]
    BY <1>1, <1>4, <2>1 DEF Bind, Unbound, Ask, Closing, handleVars
  <2> QED BY <2>1, <2>2, Kinds, CallRefines
<1>5. CASE Unwind(c)
  <2>1. asked[c] # NoRequest /\ asked[c].kind = "close"
    BY <1>5, Kinds DEF Unwind, IInv, StageInv
  <2>2. Abstract!Answer(c, <<>>)
    BY <1>5, UnitKept, AnswerRefines, OutcomeValues DEF Unwind, IInv
  <2> QED BY <1>5, <2>1, <2>2 DEF Unwind, SetHandle, Abstract!Perform, Abstract!Close
<1>6. CASE Use(c)
  <2>1. asked[c] = NoRequest /\ rights[c] # {} /\ UNCHANGED <<file, handleVars, resultVars>>
    BY <1>6 DEF Use, IInv, StageInv, HasHandle
  <2>2. PICK r \in Using : asked' = [asked EXCEPT ![c] = r]
    BY <1>6 DEF Use, Ask
  <2> QED BY <2>1, <2>2, CallRefines
<1>7. CASE Resume(c)
  BY <1>1, <1>7 DEF Resume, handleVars
<1> QED BY <1>2, <1>3, <1>4, <1>5, <1>6, <1>7, CreateFileRefines, SystemRefines

\* What the abstract handles hand out and take away was asked for, and so is what
\* becomes of the file.
LEMMA AskedStep ==
  ASSUME IInv, [Next]_vars
  PROVE  [Abstract!StepAsked]_(Abstract!vars)
<1> SUFFICES ASSUME ~(UNCHANGED Abstract!vars)
             PROVE  Abstract!StepAsked
  OBVIOUS
<1>1. PICK c \in Calls : Abstract!Call(c) \/ Abstract!Perform(c)
  BY StepRefines DEF Abstract!Next
<1>2. <<>> # Absent /\ \A f \in Files : f # Absent
  <2>1. <<>> \in Files
    BY DEF Files
  <2> QED BY <2>1, PathAssumption
<1>3. CASE Abstract!Call(c)
  BY <1>3 DEF Abstract!Call, Abstract!StepAsked, Abstract!FileAsked, Abstract!HandleAsked
<1>4. CASE Abstract!Perform(c)
  <2> DEFINE r == asked[c]
  <2>0. /\ r # NoRequest /\ rights \in [Calls -> SUBSET Rights]
        /\ r.kind = "open" => rights[c] = {}
    BY <1>4, Kinds DEF Abstract!Perform, IInv, TypeOK, StageInv, HasHandle, Closing
  <2>1. ASSUME UNCHANGED <<file, rights>>
        PROVE  Abstract!StepAsked
    BY <2>1 DEF Abstract!StepAsked, Abstract!FileAsked, Abstract!HandleAsked
  <2>2. CASE r.kind = "open" /\ Abstract!Open(c, r.flags)
    BY <1>2, <2>0, <2>2
    DEF Abstract!Open, Abstract!StepAsked, Abstract!FileAsked, Abstract!HandleAsked, Abstract!Wants
  <2>3. CASE r.kind = "write" /\ Abstract!Write(c, r.at)
    <3>1. "F_WRITE" \in rights[c] /\ file' = Put(file, r.at, c) /\ UNCHANGED rights
      BY <2>3, SameData DEF Abstract!Write
    <3>2. file \in Files
      BY <3>1 DEF IInv, PathInv, HasHandle
    <3>3. r.at \in Nat
      BY <2>0, <2>3, Kinds, OffsetsAssumption DEF IInv, TypeOK, Using, Opening
    <3>4. file' \in Files
      BY <3>1, <3>2, <3>3, PutIsFile
    <3> QED BY <1>2, <2>0, <2>3, <3>1, <3>4
        DEF Abstract!StepAsked, Abstract!FileAsked, Abstract!HandleAsked, Abstract!Wants
  <2>4. CASE r.kind = "close" /\ Abstract!Close(c)
    BY <2>0, <2>4
    DEF Abstract!Close, Abstract!StepAsked, Abstract!FileAsked, Abstract!HandleAsked, Abstract!Wants
  <2> QED BY <1>4, <2>1, <2>2, <2>3, <2>4
      DEF Abstract!Perform, Abstract!Read, Abstract!Sync, Abstract!Fail
<1> QED BY <1>1, <1>3, <1>4

(***************************************************************************)
(* The theorems.                                                           *)
(***************************************************************************)

\* IInv holds in every state of every execution.
THEOREM Invariance == Spec => []IInv
<1>1. ASSUME IInv, UNCHANGED vars
      PROVE  IInv'
  BY <1>1 DEF vars, handleVars, resultVars, IInv, TypeOK, StageInv, CallInv, ShareInv, PathInv,
              ToldInv, HasHandle
<1>2. IInv /\ [Next]_vars => IInv'
  BY <1>1, OpenInv, CreateFileInv, BindInv, UnwindInv, UseInv, SystemInv, ResumeInv DEF Next
<1> QED BY <1>2, InitInv, PTL DEF Spec

\* The variables keep their types; offsets fit in the two DWORDs.
THEOREM TypeCorrect == Spec => []TypeOK
BY Invariance, PTL DEF IInv

\* No open that threw, IOCP::bind's failure included, and no closed handle leaves a
\* handle in the system.
THEOREM HandlesReturned == Spec => []NoHandleLeak
<1>1. IInv => NoHandleLeak
  BY DEF IInv, StageInv, NoHandleLeak, HasHandle
<1> QED BY <1>1, Invariance, PTL

\* A handle opened with F_EXLOCK is the only one, whoever came first.
THEOREM LocksExclude == Spec => []ExlockExcludes
<1>1. IInv => ExlockExcludes
  BY DEF IInv, TypeOK, ShareInv, ExlockExcludes, HasHandle
<1> QED BY <1>1, Invariance, PTL

\* Whether an open is refused for another handle's sake depends on F_EXLOCK alone:
\* not on the rights of the two, nor on which of them came first.
THEOREM LocksAloneRefuse == Spec => []LocksDecide
<1>1. IInv => LocksDecide
  <2> SUFFICES ASSUME IInv, NEW c \in Calls, pc[c] = "create"
               PROVE  LET flags == asked[c].flags
                          refusals == Refusals(c, flags \cap Rights, make_share(flags),
                                               creation_disposition(flags))
                      IN SHARING_VIOLATION \in refusals <=>
                           \E d \in Calls \ {c} : rights[d] # {} /\ {c, d} \cap locked # {}
    BY DEF LocksDecide
  <2> DEFINE flags == asked[c].flags
             may == flags \cap Rights
             let == make_share(flags)
             Compatible(d) == rights[d] \subseteq let /\ may \subseteq share[d]
  <2>1. /\ may # {} /\ may \subseteq Rights
        /\ let = IF c \in locked THEN {} ELSE Rights
    BY DEF IInv, StageInv, ShareInv, make_share
  <2>2. ASSUME NEW d \in Calls, rights[d] # {}
        PROVE  Compatible(d) <=> c \notin locked /\ d \notin locked
    <3>1. rights[d] \subseteq Rights /\ share[d] = IF d \in locked THEN {} ELSE Rights
      BY <2>2 DEF IInv, TypeOK, ShareInv, HasHandle
    <3> QED BY <2>1, <2>2, <3>1
  <2> HIDE DEF may, let
  <2>3. SHARING_VIOLATION \in Refusals(c, may, let, creation_disposition(flags)) <=>
          \E d \in Calls \ {c} : rights[d] # {} /\ ~Compatible(d)
    BY DEF Refusals, FILE_NOT_FOUND, FILE_EXISTS, ACCESS_DENIED, INVALID_PARAMETER, SHARING_VIOLATION
  <2> QED BY <2>2, <2>3 DEF may, let
<1> QED BY <1>1, Invariance, PTL

\* NTOS Block does to the file what the flags and offsets its callers pass ask for:
\* the same promise as on Linux5.
THEOREM Implements == Spec => ImplementsBlockFile
<1>1. Init => Abstract!Init
  <2> SUFFICES ASSUME Init PROVE Abstract!Init
    OBVIOUS
  <2>1. \A c \in Calls : Outcome(c) = <<>>
    BY MapError DEF Init, Outcome, Result, success
  <2> QED BY <2>1 DEF Init, Abstract!Init
<1> QED BY <1>1, StepRefines, Invariance, PTL DEF Spec, ImplementsBlockFile, Abstract!Spec

\* On NTOS, the file changes only for a write through a handle that may write, or
\* for an open that was asked to make or empty it; handles keep the rights they were
\* opened with; and of the opens that insist on making the file one at most does.
THEOREM ChangesAsAsked == Spec => ChangesOnlyAsAsked
<1>1. IInv /\ [Next]_vars => [Abstract!StepAsked]_(Abstract!vars)
  BY AskedStep
<1> QED BY <1>1, Invariance, PTL DEF Spec, ChangesOnlyAsAsked, Abstract!OnlyAsAsked

=============================================================================
