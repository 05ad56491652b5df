-------------------------- MODULE LinuxBlockProofs --------------------------
(* Proofs about LinuxBlock, for any callers, offsets and errors. *)
EXTENDS LinuxBlock, SequenceTheorems, TLAPS

(***************************************************************************)
(* Values.                                                                 *)
(***************************************************************************)

\* The greater of two numbers, which Max chooses.
LEMMA MaxOfTwo ==
  ASSUME NEW m \in Nat, NEW n \in Nat
  PROVE  Max({m, n}) \in {m, n} /\ Max({m, n}) >= m /\ Max({m, n}) >= n
<1>1. \E x \in {m, n} : \A y \in {m, n} : x >= y
  OBVIOUS
<1>2. Max({m, n}) \in {m, n} /\ \A y \in {m, n} : Max({m, n}) >= y
  BY <1>1 DEF Max
<1> QED BY <1>2

\* A file that was written is a file.
LEMMA PutIsFile ==
  ASSUME NEW f \in Files, NEW at \in Nat, NEW u \in Calls
  PROVE  Put(f, at, u) \in Files
<1> DEFINE n == Max({Len(f), at + 1})
<1>1. n \in Nat
  BY MaxOfTwo, LenProperties DEF Files
<1>2. ASSUME NEW i \in 1..n
      PROVE  (IF i = at + 1 THEN u ELSE IF i <= Len(f) THEN f[i] ELSE Zero) \in Calls \cup {Zero}
  BY <1>1, ElementOfSeq, LenProperties DEF Files
<1> HIDE DEF n
<1>3. [i \in 1..n |-> IF i = at + 1 THEN u ELSE IF i <= Len(f) THEN f[i] ELSE Zero] \in Files
  BY <1>1, <1>2 DEF Files
<1> QED BY <1>3 DEF Put, n

\* A read returns one unit of the file, or none.
LEMMA UnitAtValue ==
  ASSUME NEW f \in Files, NEW at \in Nat
  PROVE  \/ UnitAt(f, at) = <<>>
         \/ \E u \in Calls \cup {Zero} : UnitAt(f, at) = <<u>>
BY ElementOfSeq, LenProperties DEF Files, UnitAt

\* What flag_conv makes of flags that ask for a right, as the kernel reads it.
LEMMA FlagConv ==
  ASSUME NEW flags \in SUBSET Flag, flags \cap Rights # {}
  PROVE  LET o == flag_conv(flags) IN
         /\ o \in SUBSET OFlags
         /\ "O_CREAT" \in o <=> "F_CREAT" \in flags
         /\ "O_EXCL" \in o <=> "F_EXCL" \in flags
         /\ "O_TRUNC" \in o <=> "F_TRUNC" \in flags
         /\ o \subseteq {"O_EXCL"} <=> flags \cap {"F_WRITE", "F_CREAT", "F_TRUNC"} = {}
         /\ (IF "O_RDWR" \in o THEN Rights
             ELSE IF "O_WRONLY" \in o THEN {"F_WRITE"} ELSE {"F_READ"}) = flags \cap Rights
BY DEF flag_conv, OFlags, Flag, Rights

\* The ring's answers: a count is a success, an error is not.
LEMMA MapResult ==
  /\ map_result(0) = 0 /\ success(map_result(0))
  /\ map_result(1) = 1 /\ success(map_result(1))
  /\ \A e \in Errnos : ~success(map_result(-e)) /\ -e \in Int /\ -e < 0
<1>1. \A e \in Errnos : -e \in Int /\ -e < 0
  BY ErrnosAssumption
<1>2. \A sys \in Int : sys < 0 => map_error(sys) \in Int /\ map_error(sys) > 0
  BY MappedAssumption, MaxErrnoAssumption DEF map_error, EOF, IO_EOF, IO_UNKNOWN
<1>3. \A sys \in Int : sys < 0 => ~success(map_result(sys))
  BY <1>2 DEF map_result, OfStatus, success
<1>4. map_result(0) = 0 /\ map_result(1) = 1
  BY DEF map_result, OfCount
<1> QED BY <1>1, <1>3, <1>4 DEF success

\* The kinds of requests are told apart.
LEMMA Kinds ==
  /\ \A r \in Opening : r \notin Using /\ r.kind = "open" /\ r.flags \in SUBSET Flag /\ r # NoRequest
  /\ \A r \in Using : /\ r.kind \in {"read", "write", "sync", "close"} /\ r # NoRequest
                      /\ r.kind = "close" => r = [kind |-> "close"]
                      /\ r.kind = "sync" => r = [kind |-> "sync"]
                      /\ r.kind \in {"read", "write"} => r.at \in Offsets
BY NoRequestAssumption DEF Opening, Using

(***************************************************************************)
(* IInv is inductive.                                                      *)
(***************************************************************************)

LEMMA InitInv ==
  ASSUME Init
  PROVE  IInv
<1>1. <<>> \in Files /\ <<Zero>> \in Files
  BY DEF Files
<1>2. TypeOK
  BY <1>1 DEF Init, TypeOK
<1>3. StageInv
  BY DEF Init, StageInv
<1>4. RingInv
  BY Kinds DEF Init, RingInv
<1>5. FileInv
  BY DEF Init, FileInv
<1> QED BY <1>2, <1>3, <1>4, <1>5 DEF IInv

\* The ring holds nothing for a call just if the kernel answered it.
LEMMA AnsweredMeansDone ==
  ASSUME IInv, NEW c \in Calls, sqe[c] = NoRequest
  PROVE  asked[c] = NoRequest
<1>1. asked[c] \in Opening => sqe[c] \in RingOpening
  <2> SUFFICES ASSUME asked[c] \in Opening PROVE sqe[c] \in RingOpening
    OBVIOUS
  <2>1. flag_conv(asked[c].flags) \in SUBSET OFlags
    BY FlagConv, Kinds DEF IInv, RingInv
  <2> DEFINE o == flag_conv(asked[c].flags)
  <2>2. sqe[c] = [kind |-> "open", flags |-> o] /\ o \in SUBSET OFlags
    BY <2>1 DEF IInv, RingInv
  <2> HIDE DEF o
  <2> QED BY <2>2 DEF RingOpening
<1> QED BY <1>1, NoSqeAssumption DEF IInv, RingInv

\* Asking to open preserves the invariant.
LEMMA OpenInv ==
  ASSUME IInv, NEW c \in Calls, Open(c)
  PROVE  IInv'
<1> USE DEF IInv, Open, Go
<1>1. TypeOK'
  BY FlagConv, Kinds DEF TypeOK, Opening, RingOpening
<1>2. StageInv'
  <2> SUFFICES ASSUME NEW d \in Calls PROVE StageInv!(d)'
    BY DEF StageInv
  <2>1. CASE d # c
    BY <2>1 DEF TypeOK, StageInv, Opened
  <2>2. CASE d = c
    <3>0. fds'[c] = {} /\ asked[c] = NoRequest /\ DOMAIN pc = Calls
      BY DEF TypeOK, StageInv
    <3>1. CASE pc' = [pc EXCEPT ![c] = "threw"] /\ UNCHANGED asked
      BY <2>2, <3>0, <3>1
    <3>2. CASE pc' = [pc EXCEPT ![c] = "opening"] /\ asked'[c] \in Opening
      BY <2>2, <3>0, <3>2, Kinds
    <3>3. ASSUME NEW flags \in SUBSET Flag, asked' = [asked EXCEPT ![c] = [kind |-> "open", flags |-> flags]]
          PROVE  asked'[c] \in Opening
      BY <3>3 DEF TypeOK, Opening
    <3> QED BY <3>1, <3>2, <3>3
  <2> QED BY <2>1, <2>2
<1>3. RingInv'
  BY Kinds DEF TypeOK, RingInv, StageInv, Opening
<1>4. FileInv'
  BY DEF FileInv
<1> QED BY <1>1, <1>2, <1>3, <1>4

\* Resuming from an open preserves the invariant.
LEMMA ResumeOpenInv ==
  ASSUME IInv, NEW c \in Calls, ResumeOpen(c)
  PROVE  IInv'
<1> USE DEF IInv, ResumeOpen, Go
<1>1. TypeOK'
  BY FlagConv, Kinds DEF TypeOK, Opening, RingOpening
<1>2. StageInv'
  <2> SUFFICES ASSUME NEW d \in Calls PROVE StageInv!(d)'
    BY DEF StageInv
  <2>1. CASE d # c
    BY <2>1 DEF TypeOK, StageInv, Opened
  <2>2. CASE d = c
    BY <2>2, AnsweredMeansDone DEF TypeOK, StageInv, Opened
  <2> QED BY <2>1, <2>2
<1>3. RingInv'
  BY Kinds DEF TypeOK, RingInv, StageInv, Opening
<1>4. FileInv'
  BY DEF FileInv
<1> QED BY <1>1, <1>2, <1>3, <1>4

\* Using a handle preserves the invariant.
LEMMA UseInv ==
  ASSUME IInv, NEW c \in Calls, Use(c)
  PROVE  IInv'
<1> USE DEF IInv, Use, Go
<1>1. TypeOK'
  BY FlagConv, Kinds DEF TypeOK, Opening, RingOpening
<1>2. StageInv'
  <2> SUFFICES ASSUME NEW d \in Calls PROVE StageInv!(d)'
    BY DEF StageInv
  <2>1. CASE d # c
    BY <2>1 DEF TypeOK, StageInv, Opened
  <2>2. CASE d = c
    <3>1. PICK r \in Using :
            /\ pc' = [pc EXCEPT ![c] = IF r.kind = "close" THEN "closing" ELSE "waiting"]
            /\ asked' = [asked EXCEPT ![c] = r]
      OBVIOUS
    <3>2. /\ asked'[c] = r /\ r # NoRequest /\ fds'[c] # {}
          /\ pc'[c] = IF r.kind = "close" THEN "closing" ELSE "waiting"
          /\ r.kind = "close" => r = [kind |-> "close"]
      BY <3>1, Kinds DEF TypeOK, StageInv
    <3> QED BY <2>2, <3>2
  <2> QED BY <2>1, <2>2
<1>3. RingInv'
  BY Kinds DEF TypeOK, RingInv, StageInv, Opening
<1>4. FileInv'
  BY DEF FileInv
<1> QED BY <1>1, <1>2, <1>3, <1>4

\* Resuming from a use preserves the invariant.
LEMMA ResumeInv ==
  ASSUME IInv, NEW c \in Calls, Resume(c)
  PROVE  IInv'
<1> USE DEF IInv, Resume, Go
<1>1. TypeOK'
  BY FlagConv, Kinds DEF TypeOK, Opening, RingOpening
<1>2. StageInv'
  <2> SUFFICES ASSUME NEW d \in Calls PROVE StageInv!(d)'
    BY DEF StageInv
  <2>1. CASE d # c
    BY <2>1 DEF TypeOK, StageInv, Opened
  <2>2. CASE d = c
    BY <2>2, AnsweredMeansDone DEF TypeOK, StageInv, Opened
  <2> QED BY <2>1, <2>2
<1>3. RingInv'
  BY Kinds DEF TypeOK, RingInv, StageInv, Opening
<1>4. FileInv'
  BY DEF FileInv
<1> QED BY <1>1, <1>2, <1>3, <1>4

\* The request the ring holds, by the kind of what the caller asked for.
LEMMA RequestKinds ==
  ASSUME IInv, NEW c \in Calls, sqe[c] # NoRequest
  PROVE  /\ asked[c] # NoRequest
         /\ pc[c] \in {"opening", "waiting", "closing"}
         /\ asked[c] \in Opening =>
              /\ pc[c] = "opening" /\ fds[c] = {}
              /\ asked[c].flags \in SUBSET Flag /\ asked[c].flags \cap Rights # {}
              /\ sqe[c].kind = "open" /\ sqe[c].flags = flag_conv(asked[c].flags)
         /\ asked[c] \notin Opening =>
              /\ asked[c] \in Using /\ sqe[c] = asked[c] /\ fds[c] # {}
              /\ sqe[c].kind \in {"read", "write", "sync", "close"}
              /\ pc[c] = "closing" <=> sqe[c].kind = "close"
<1> USE DEF IInv
<1>1. asked[c] # NoRequest
  BY Kinds DEF RingInv
<1>2. asked[c] \in Opening \cup Using
  BY <1>1 DEF TypeOK
<1>3. pc[c] \in {"opening", "waiting", "closing"}
  BY <1>1 DEF TypeOK, StageInv
<1>4. CASE asked[c] \in Opening
  <2>1. asked[c] \notin Using /\ asked[c].kind = "open" /\ asked[c].flags \in SUBSET Flag
    BY <1>4, Kinds
  <2>2. pc[c] = "opening" /\ fds[c] = {}
    BY <1>1, <1>3, <2>1, Kinds DEF StageInv
  <2>3. /\ asked[c].flags \cap Rights # {}
        /\ sqe[c] = [kind |-> "open", flags |-> flag_conv(asked[c].flags)]
    BY <1>4 DEF RingInv
  <2> QED BY <1>1, <1>4, <2>1, <2>2, <2>3
<1>5. CASE asked[c] \notin Opening
  <2>1. asked[c] \in Using /\ sqe[c] = asked[c]
    BY <1>2, <1>5 DEF RingInv
  <2>2. pc[c] \in {"waiting", "closing"} /\ fds[c] # {}
    BY <1>1, <1>3, <1>5 DEF StageInv
  <2>3. pc[c] = "closing" <=> asked[c].kind = "close"
    BY <1>1, <2>2, Kinds DEF StageInv
  <2> QED BY <1>1, <1>3, <1>5, <2>1, <2>2, <2>3, Kinds
<1> QED BY <1>4, <1>5

\* What every answer of the kernel has in common: the request is gone, an open got
\* a descriptor just if it succeeded, a close gave it back, and nothing else did.
KernelStep(c, may, res) ==
  /\ may \in SUBSET Rights /\ fds' = [fds EXCEPT ![c] = may]
  /\ res \in {0, 1} \cup {-e : e \in Errnos} /\ ret' = [ret EXCEPT ![c] = res]
  /\ asked' = [asked EXCEPT ![c] = NoRequest] /\ sqe' = [sqe EXCEPT ![c] = NoRequest]
  /\ unit' \in [Calls -> Calls \cup {Zero}] /\ UNCHANGED pc
  /\ asked[c] \in Opening => (may # {} <=> success(map_result(res)))
  /\ asked[c] \notin Opening => may = IF sqe[c].kind = "close" THEN {} ELSE fds[c]
  /\ file' = file \/ file' \in Files
  /\ may # {} => file' = Directory \/ file' \in Files
  /\ "F_WRITE" \in may => file' \in Files

LEMMA KernelStepInv ==
  ASSUME IInv, NEW c \in Calls, sqe[c] # NoRequest,
         NEW may, NEW res, KernelStep(c, may, res)
  PROVE  IInv'
<1> USE DEF IInv, KernelStep
<1>0. pc[c] \in {"opening", "waiting", "closing"} /\ (asked[c] \in Opening => pc[c] = "opening")
      /\ (asked[c] \notin Opening => (pc[c] = "closing" <=> sqe[c].kind = "close"))
      /\ (asked[c] \notin Opening => fds[c] # {} /\ asked[c] \in Using /\ pc[c] # "opening")
  BY RequestKinds, Kinds DEF StageInv
<1>1. TypeOK'
  BY DEF TypeOK
<1>2. StageInv'
  <2> SUFFICES ASSUME NEW d \in Calls PROVE StageInv!(d)'
    BY DEF StageInv
  <2>1. CASE d # c
    BY <2>1 DEF TypeOK, StageInv, Opened
  <2>2. CASE d = c
    BY <1>0, <2>2 DEF TypeOK, Opened
  <2> QED BY <2>1, <2>2
<1>3. RingInv'
  BY Kinds DEF TypeOK, RingInv
<1>4. FileInv'
  BY DEF TypeOK, FileInv
<1> QED BY <1>1, <1>2, <1>3, <1>4

\* Every answer of the kernel is such a step.
LEMMA KernelSteps ==
  ASSUME IInv, NEW c \in Calls, Kernel(c)
  PROVE  sqe[c] # NoRequest /\ \E may, res : KernelStep(c, may, res)
<1> USE DEF IInv
<1>0. sqe[c] # NoRequest /\ UNCHANGED pc
  BY DEF Kernel
<1>1. CASE sqe[c].kind = "open" /\ KernelOpen(c, sqe[c].flags)
  <2>1. /\ asked[c] \in Opening /\ asked[c].flags \in SUBSET Flag /\ asked[c].flags \cap Rights # {}
        /\ sqe[c].flags = flag_conv(asked[c].flags)
    BY <1>0, <1>1, RequestKinds
  <2>2. KernelStep(c, asked[c].flags \cap Rights, 0)
    <3>1. fds' = [fds EXCEPT ![c] = asked[c].flags \cap Rights]
      <4> DEFINE o == flag_conv(asked[c].flags)
      <4>1. (IF "O_RDWR" \in o THEN Rights
             ELSE IF "O_WRONLY" \in o THEN {"F_WRITE"} ELSE {"F_READ"})
              = asked[c].flags \cap Rights
        BY <2>1, FlagConv
      <4>2. sqe[c].flags = o
        BY <2>1
      <4> HIDE DEF o
      <4> QED BY <1>1, <4>1, <4>2 DEF KernelOpen
    <3>2. file' = file \/ file' \in Files
      BY <1>1 DEF KernelOpen, Files
    <3>3. file' = Directory \/ file' \in Files
      BY <1>1 DEF KernelOpen, TypeOK, Files
    <3>4. "F_WRITE" \in asked[c].flags => file' \in Files
      BY <1>1, <2>1, <3>3, FlagConv DEF KernelOpen, TypeOK, Files
    <3> QED BY <1>0, <1>1, <2>1, <3>1, <3>2, <3>3, <3>4, MapResult DEF KernelStep, KernelOpen, Answer, TypeOK
  <2> QED BY <1>0, <2>2
<1>2. ASSUME NEW res \in {0, 1} \cup {-e : e \in Errnos},
             UNCHANGED fds, Answer(c, res), unit' \in [Calls -> Calls \cup {Zero}],
             file' = file \/ ("F_WRITE" \in fds[c] /\ file' \in Files),
             sqe[c].kind # "close",
             asked[c] \in Opening => ~success(map_result(res))
      PROVE  KernelStep(c, fds[c], res)
  <2>1. fds' = [fds EXCEPT ![c] = fds[c]] /\ fds[c] \in SUBSET Rights
    BY <1>2 DEF TypeOK
  <2>2. asked[c] \in Opening => fds[c] = {}
    BY <1>0, RequestKinds
  <2>3. /\ file' = file \/ file' \in Files
        /\ fds[c] # {} => file' = Directory \/ file' \in Files
        /\ "F_WRITE" \in fds[c] => file' \in Files
    BY <1>2 DEF FileInv
  <2> QED BY <1>0, <1>2, <2>1, <2>2, <2>3 DEF KernelStep, Answer
<1>3. CASE sqe[c].kind = "read" /\ KernelRead(c, sqe[c].at)
  <2>1. asked[c] \notin Opening /\ sqe[c].at \in Nat /\ file \in Files
    BY <1>0, <1>3, RequestKinds, Kinds, OffsetsAssumption DEF KernelRead, FileInv
  <2>2. /\ unit' \in [Calls -> Calls \cup {Zero}]
        /\ Len(UnitAt(file, sqe[c].at)) \in {0, 1}
    BY <1>3, <2>1, UnitAtValue DEF KernelRead, TypeOK
  <2> QED BY <1>0, <1>2, <1>3, <2>1, <2>2 DEF KernelRead
<1>4. CASE sqe[c].kind = "write" /\ KernelWrite(c, sqe[c].at)
  <2>1. asked[c] \notin Opening /\ sqe[c].at \in Nat /\ file \in Files /\ "F_WRITE" \in fds[c]
    BY <1>0, <1>4, RequestKinds, Kinds, OffsetsAssumption DEF KernelWrite, FileInv
  <2>2. file' \in Files /\ unit' \in [Calls -> Calls \cup {Zero}]
    BY <1>4, <2>1, PutIsFile DEF KernelWrite, TypeOK
  <2> QED BY <1>0, <1>2, <1>4, <2>1, <2>2 DEF KernelWrite
<1>5. CASE sqe[c].kind = "sync" /\ KernelSync(c)
  BY <1>0, <1>2, <1>5, RequestKinds DEF KernelSync, TypeOK
<1>6. CASE sqe[c].kind = "close" /\ KernelClose(c)
  <2>1. asked[c] \notin Opening /\ sqe[c].kind = "close"
    BY <1>0, <1>6, RequestKinds
  <2>2. KernelStep(c, {}, 0)
    BY <1>0, <1>6, <2>1 DEF KernelClose, KernelStep, Answer, TypeOK
  <2> QED BY <1>0, <2>2
<1>7. CASE sqe[c].kind # "close" /\ KernelFail(c)
  BY <1>0, <1>2, <1>7, MapResult DEF KernelFail, TypeOK
<1> QED BY <1>0, <1>1, <1>3, <1>4, <1>5, <1>6, <1>7 DEF Kernel

(***************************************************************************)
(* The refinement.                                                         *)
(***************************************************************************)

\* The two modules mean the same by flags, requests and transfers.
LEMMA SameData ==
  /\ Abstract!Rights = Rights /\ Abstract!Opening = Opening /\ Abstract!Using = Using
  /\ \A at \in Nat : Abstract!UnitAt(file, at) = UnitAt(file, at)
  /\ \A at, u : Abstract!Put(file, at, u) = Put(file, at, u)
BY DEF Abstract!Rights, Rights, Abstract!Opening, Opening, Abstract!Flag, Flag, Abstract!Using, Using,
       Abstract!UnitAt, UnitAt, Abstract!Put, Put, Abstract!Max, Max

\* How one answer changes what the callers make of the answers.
LEMMA OutcomeOfAnswer ==
  ASSUME TypeOK, NEW c \in Calls, NEW res, NEW u,
         ret' = [ret EXCEPT ![c] = res], unit' = [unit EXCEPT ![c] = u]
  PROVE  [d \in Calls |-> Outcome(d)]' =
           [[d \in Calls |-> Outcome(d)] EXCEPT ![c] =
              IF ~success(map_result(res)) THEN Failed
              ELSE IF map_result(res) = 0 THEN <<>> ELSE <<u>>]
BY DEF Outcome, TypeOK

LEMMA KernelRefines ==
  ASSUME IInv, NEW c \in Calls, Kernel(c)
  PROVE  Abstract!Perform(c)
<1> USE DEF IInv
<1> DEFINE got == [d \in Calls |-> Outcome(d)]
<1>0. sqe[c] # NoRequest /\ asked[c] # NoRequest
  BY RequestKinds DEF Kernel
<1>1. ASSUME NEW res, NEW u, NEW outcome, Answer(c, res), unit' = [unit EXCEPT ![c] = u],
             outcome = IF ~success(map_result(res)) THEN Failed
                       ELSE IF map_result(res) = 0 THEN <<>> ELSE <<u>>
      PROVE  Abstract!Answer(c, outcome)
  BY <1>1, OutcomeOfAnswer DEF Answer, Abstract!Answer
<1>2. unit = [unit EXCEPT ![c] = unit[c]]
  BY DEF TypeOK
<1>3. CASE sqe[c].kind = "open" /\ KernelOpen(c, sqe[c].flags)
  <2>1. /\ asked[c].kind = "open" /\ asked[c].flags \in SUBSET Flag /\ asked[c].flags \cap Rights # {}
        /\ sqe[c].flags = flag_conv(asked[c].flags)
    BY <1>0, <1>3, RequestKinds, Kinds
  <2>2. Abstract!Answer(c, <<>>)
    BY <1>1, <1>2, <1>3, MapResult DEF KernelOpen
  <2> DEFINE flags == asked[c].flags
             o == flag_conv(flags)
  <2>3. /\ "O_CREAT" \in o <=> "F_CREAT" \in flags
        /\ "O_EXCL" \in o <=> "F_EXCL" \in flags
        /\ "O_TRUNC" \in o <=> "F_TRUNC" \in flags
        /\ o \subseteq {"O_EXCL"} <=> flags \cap {"F_WRITE", "F_CREAT", "F_TRUNC"} = {}
        /\ (IF "O_RDWR" \in o THEN Rights
             ELSE IF "O_WRONLY" \in o THEN {"F_WRITE"} ELSE {"F_READ"}) = flags \cap Rights
    BY <2>1, FlagConv
  <2>4. KernelOpen(c, o)
    BY <1>3, <2>1
  <2>5. flags = asked[c].flags /\ flags \cap Rights # {} /\ asked[c].kind = "open"
    BY <2>1
  <2> HIDE DEF flags, o
  <2>6. fds' = [fds EXCEPT ![c] = flags \cap Rights]
    BY <2>3, <2>4 DEF KernelOpen
  <2>7. /\ file = Absent => "F_CREAT" \in flags
        /\ file # Absent => ~({"F_CREAT", "F_EXCL"} \subseteq flags)
        /\ file = Directory => flags \cap {"F_WRITE", "F_CREAT", "F_TRUNC"} = {}
        /\ file' = IF file = Absent \/ "F_TRUNC" \in flags THEN <<>> ELSE file
    BY <2>3, <2>4 DEF KernelOpen
  <2>8. Abstract!Open(c, flags)
    BY <2>2, <2>5, <2>6, <2>7, SameData DEF Abstract!Open
  <2> QED BY <1>0, <2>5, <2>8 DEF Abstract!Perform, flags
<1>4. CASE sqe[c].kind = "read" /\ KernelRead(c, sqe[c].at)
  <2>1. sqe[c] = asked[c] /\ asked[c].kind = "read" /\ sqe[c].at \in Nat /\ file \in Files
    BY <1>0, <1>4, RequestKinds, Kinds, OffsetsAssumption DEF KernelRead, FileInv
  <2> DEFINE units == UnitAt(file, asked[c].at)
  <2>2. units = <<>> \/ \E u \in Calls \cup {Zero} : units = <<u>>
    BY <2>1, UnitAtValue
  <2>3. /\ Answer(c, Len(units))
        /\ unit' = [unit EXCEPT ![c] = IF units = <<>> THEN Zero ELSE Head(units)]
    BY <1>4, <2>1 DEF KernelRead
  <2> HIDE DEF units
  <2>4. Abstract!Answer(c, units)
    <3>1. CASE units = <<>>
      <4>1. Answer(c, 0) /\ unit' = [unit EXCEPT ![c] = Zero]
        BY <2>3, <3>1
      <4> QED BY <1>1, <3>1, <4>1, MapResult
    <3>2. ASSUME NEW u \in Calls \cup {Zero}, units = <<u>>
          PROVE  Abstract!Answer(c, units)
      <4>1. Answer(c, 1) /\ unit' = [unit EXCEPT ![c] = u]
        BY <2>3, <3>2
      <4>2. units = IF ~success(map_result(1)) THEN Failed ELSE IF map_result(1) = 0 THEN <<>> ELSE <<u>>
        BY <3>2, MapResult
      <4> QED BY <1>1, <4>1, <4>2
    <3> QED BY <2>2, <3>1, <3>2
  <2>5. Abstract!Read(c, asked[c].at)
    BY <1>4, <2>1, <2>4, SameData DEF KernelRead, units, Abstract!Read
  <2> QED BY <1>0, <2>1, <2>5 DEF Abstract!Perform
<1>5. CASE sqe[c].kind = "write" /\ KernelWrite(c, sqe[c].at)
  <2>1. sqe[c] = asked[c] /\ asked[c].kind = "write"
    BY <1>0, <1>5, RequestKinds, Kinds
  <2>2. Abstract!Answer(c, <<c>>)
    <3>1. <<c>> = IF ~success(map_result(1)) THEN Failed ELSE IF map_result(1) = 0 THEN <<>> ELSE <<c>>
      BY MapResult
    <3> QED BY <1>1, <1>5, <3>1 DEF KernelWrite
  <2>3. Abstract!Write(c, asked[c].at)
    BY <1>5, <2>1, <2>2, SameData DEF KernelWrite, Abstract!Write
  <2> QED BY <1>0, <2>1, <2>3 DEF Abstract!Perform
<1>6. CASE sqe[c].kind = "sync" /\ KernelSync(c)
  <2>1. asked[c].kind = "sync"
    BY <1>0, <1>6, RequestKinds, Kinds
  <2>2. Abstract!Answer(c, <<>>)
    BY <1>1, <1>2, <1>6, MapResult DEF KernelSync
  <2> QED BY <1>0, <1>6, <2>1, <2>2 DEF KernelSync, Abstract!Perform, Abstract!Sync
<1>7. CASE sqe[c].kind = "close" /\ KernelClose(c)
  <2>1. asked[c].kind = "close"
    BY <1>0, <1>7, RequestKinds, Kinds
  <2>2. Abstract!Answer(c, <<>>)
    BY <1>1, <1>2, <1>7, MapResult DEF KernelClose
  <2> QED BY <1>0, <1>7, <2>1, <2>2 DEF KernelClose, Abstract!Perform, Abstract!Close
<1>8. CASE KernelFail(c)
  <2>1. PICK e \in Errnos : Answer(c, -e)
    BY <1>8 DEF KernelFail
  <2>2. Abstract!Answer(c, Failed)
    BY <1>1, <1>2, <1>8, <2>1, MapResult DEF KernelFail
  <2> QED BY <1>0, <1>8, <2>2 DEF KernelFail, Abstract!Perform, Abstract!Fail
<1> QED BY <1>3, <1>4, <1>5, <1>6, <1>7, <1>8 DEF Kernel

LEMMA CallRefines ==
  ASSUME IInv, NEW c \in Calls, NEW r, asked' = [asked EXCEPT ![c] = r],
         (pc[c] = "idle" /\ r \in Opening) \/ (pc[c] = "open" /\ r \in Using),
         UNCHANGED <<file, fds, ret, unit>>
  PROVE  Abstract!Call(c)
<1>1. asked[c] = NoRequest /\ r \in IF fds[c] = {} THEN Opening ELSE Using
  BY DEF IInv, StageInv
<1>2. [d \in Calls |-> Outcome(d)]' = [d \in Calls |-> Outcome(d)]
  BY DEF Outcome
<1>3. \E q \in IF fds[c] = {} THEN Opening ELSE Using : asked' = [asked EXCEPT ![c] = q]
  BY <1>1
<1> QED BY <1>1, <1>2, <1>3, SameData DEF Abstract!Call

\* Every step of LinuxBlock is one of BlockFile or changes nothing there.
LEMMA StepRefines ==
  ASSUME IInv, [Next]_vars
  PROVE  [Abstract!Next]_(Abstract!vars)
<1> SUFFICES ASSUME ~(UNCHANGED Abstract!vars)
             PROVE  \E c \in Calls : Abstract!Call(c) \/ Abstract!Perform(c)
  BY DEF Abstract!Next
<1>1. UNCHANGED <<file, fds, asked, ret, unit>> => UNCHANGED Abstract!vars
  <2> SUFFICES ASSUME UNCHANGED <<file, fds, asked, ret, unit>> PROVE UNCHANGED Abstract!vars
    OBVIOUS
  <2>1. [d \in Calls |-> Outcome(d)]' = [d \in Calls |-> Outcome(d)]
    BY DEF Outcome
  <2> QED BY <2>1 DEF Abstract!vars
<1>2. PICK c \in Calls : Open(c) \/ ResumeOpen(c) \/ Use(c) \/ Resume(c) \/ Kernel(c)
  BY <1>1 DEF Next, vars
<1>3. CASE Open(c)
  <2>1. PICK flags \in SUBSET Flag : asked' = [asked EXCEPT ![c] = [kind |-> "open", flags |-> flags]]
    BY <1>1, <1>3 DEF Open
  <2>2. [kind |-> "open", flags |-> flags] \in Opening
    BY DEF Opening
  <2>3. pc[c] = "idle" /\ UNCHANGED <<file, fds, ret, unit>>
    BY <1>3 DEF Open
  <2> DEFINE r == [kind |-> "open", flags |-> flags]
  <2>4. r \in Opening /\ asked' = [asked EXCEPT ![c] = r]
    BY <2>1, <2>2
  <2> HIDE DEF r
  <2> QED BY <2>3, <2>4, CallRefines
<1>4. CASE ResumeOpen(c) \/ Resume(c)
  BY <1>1, <1>4 DEF ResumeOpen, Resume
<1>5. CASE Use(c)
  <2>1. PICK r \in Using : asked' = [asked EXCEPT ![c] = r]
    BY <1>5 DEF Use
  <2> QED BY <1>5, <2>1, CallRefines DEF Use
<1>6. CASE Kernel(c)
  BY <1>6, KernelRefines
<1> QED BY <1>2, <1>3, <1>4, <1>5, <1>6

\* What the abstract handles hand out and take away was asked for, and so is what
\* becomes of the file.
LEMMA AskedStep ==
  ASSUME IInv, [Next]_vars
  PROVE  [Abstract!StepAsked]_(Abstract!vars)
<1> SUFFICES ASSUME ~(UNCHANGED Abstract!vars)
             PROVE  Abstract!StepAsked
  OBVIOUS
<1>1. PICK c \in Calls : Abstract!Call(c) \/ Abstract!Perform(c)
  BY StepRefines DEF Abstract!Next
<1>2. <<>> # Absent /\ \A f \in Files : f # Absent
  <2>1. <<>> \in Files
    BY DEF Files
  <2> QED BY <2>1, PathAssumption
<1>3. CASE Abstract!Call(c)
  BY <1>3 DEF Abstract!Call, Abstract!StepAsked, Abstract!FileAsked, Abstract!HandleAsked
<1>4. CASE Abstract!Perform(c)
  <2> DEFINE r == asked[c]
  <2>0. /\ r # NoRequest /\ fds \in [Calls -> SUBSET Rights]
        /\ r.kind = "open" => fds[c] = {}
    BY <1>4, Kinds DEF Abstract!Perform, IInv, TypeOK, StageInv
  <2>1. ASSUME UNCHANGED <<file, fds>>
        PROVE  Abstract!StepAsked
    BY <2>1 DEF Abstract!StepAsked, Abstract!FileAsked, Abstract!HandleAsked
  <2>2. CASE r.kind = "open" /\ Abstract!Open(c, r.flags)
    BY <1>2, <2>0, <2>2
    DEF Abstract!Open, Abstract!StepAsked, Abstract!FileAsked, Abstract!HandleAsked, Abstract!Wants
  <2>3. CASE r.kind = "write" /\ Abstract!Write(c, r.at)
    <3>1. "F_WRITE" \in fds[c] /\ file' = Put(file, r.at, c) /\ UNCHANGED fds
      BY <2>3, SameData DEF Abstract!Write
    <3>2. file \in Files
      BY <3>1 DEF IInv, FileInv
    <3>3. r.at \in Nat
      BY <2>0, <2>3, Kinds, OffsetsAssumption DEF IInv, TypeOK, Using, Opening
    <3>4. file' \in Files
      BY <3>1, <3>2, <3>3, PutIsFile
    <3> QED BY <1>2, <2>0, <2>3, <3>1, <3>4
        DEF Abstract!StepAsked, Abstract!FileAsked, Abstract!HandleAsked, Abstract!Wants
  <2>4. CASE r.kind = "close" /\ Abstract!Close(c)
    BY <2>0, <2>4
    DEF Abstract!Close, Abstract!StepAsked, Abstract!FileAsked, Abstract!HandleAsked, Abstract!Wants
  <2> QED BY <1>4, <2>1, <2>2, <2>3, <2>4
      DEF Abstract!Perform, Abstract!Read, Abstract!Sync, Abstract!Fail
<1> QED BY <1>1, <1>3, <1>4

(***************************************************************************)
(* The theorems.                                                           *)
(***************************************************************************)

\* IInv holds in every state of every execution.
THEOREM Invariance == Spec => []IInv
<1>1. ASSUME IInv, UNCHANGED vars
      PROVE  IInv'
  BY <1>1 DEF vars, IInv, TypeOK, StageInv, RingInv, FileInv, Opened
<1>2. ASSUME IInv, NEW c \in Calls, Kernel(c)
      PROVE  IInv'
  BY <1>2, KernelSteps, KernelStepInv
<1>3. IInv /\ [Next]_vars => IInv'
  BY <1>1, <1>2, OpenInv, ResumeOpenInv, UseInv, ResumeInv DEF Next
<1> QED BY <1>3, InitInv, PTL DEF Spec

\* The variables keep their types; a file stays a sequence of units.
THEOREM TypeCorrect == Spec => []TypeOK
BY Invariance, PTL DEF IInv

\* No open that threw and no closed handle leaves a descriptor in the kernel.
THEOREM DescriptorsReturned == Spec => []NoFdLeak
<1>1. IInv => NoFdLeak
  BY DEF IInv, StageInv, NoFdLeak
<1> QED BY <1>1, Invariance, PTL

\* Linux5 Block does to the file, whatever the order the kernel performs operations
\* in, what the flags and offsets its callers pass ask for.
THEOREM Implements == Spec => ImplementsBlockFile
<1>1. Init => Abstract!Init
  <2> SUFFICES ASSUME Init PROVE Abstract!Init
    OBVIOUS
  <2>1. \A c \in Calls : Outcome(c) = <<>>
    BY MapResult DEF Init, Outcome
  <2> QED BY <2>1 DEF Init, Abstract!Init
<1> QED BY <1>1, StepRefines, Invariance, PTL DEF Spec, ImplementsBlockFile, Abstract!Spec

\* On Linux5, the file changes only for a write through a handle that may write, or
\* for an open that was asked to make or empty it; handles keep the rights they were
\* opened with; and of the opens that insist on making the file one at most does.
THEOREM ChangesAsAsked == Spec => ChangesOnlyAsAsked
<1>1. IInv /\ [Next]_vars => [Abstract!StepAsked]_(Abstract!vars)
  BY AskedStep
<1> QED BY <1>1, Invariance, PTL DEF Spec, ChangesOnlyAsAsked, Abstract!OnlyAsAsked

=============================================================================
