------------------------- MODULE FullTransferProofs -------------------------
(* Proofs about FullTransfer, for any widths, sizes and capacity. *)
EXTENDS FullTransfer, SequenceTheorems, TLAPS

(***************************************************************************)
(* The arithmetic of lengths and counts.                                   *)
(***************************************************************************)

LEMMA Widths ==
  /\ IntMax \in Nat /\ IntMax > 0 /\ LenMod \in Nat \ {0}
  /\ LenMod = 2 * IntMax + 2
BY WidthAssumption DEF LenMod

\* int32_t keeps what it can count and makes the rest of the first turn negative.
LEMMA ToInt32Value ==
  ASSUME NEW n \in Nat
  PROVE  /\ ToInt32(n) \in Int32
         /\ n <= IntMax => ToInt32(n) = n
         /\ n > IntMax /\ n < LenMod => ToInt32(n) < 0
<1> DEFINE k == n + IntMax + 1
<1>1. k \in Int /\ k = n + IntMax + 1
  BY Widths
<1>2. ToInt32(n) = (k % LenMod) - (IntMax + 1)
  BY DEF ToInt32
<1> HIDE DEF k
<1>3. LenMod \in Nat \ {0}
  BY Widths
<1>4. /\ k % LenMod \in 0..(LenMod - 1)
      /\ k \in 0..(LenMod - 1) => k % LenMod = k
      /\ k \in LenMod..(2 * LenMod - 1) => k % LenMod = k - LenMod
  BY <1>1, <1>3
<1> QED BY <1>1, <1>2, <1>4, Widths DEF Int32

\* The length given to an operation: the span's, below LenMod.
LEMMA LengthValue ==
  ASSUME NEW s \in Sides, left[s] \in Nat
  PROVE  /\ Length(s) \in 0..left[s]
         /\ left[s] < LenMod => Length(s) = left[s]
         /\ left[s] >= LenMod => left[s] - Length(s) >= LenMod
<1> DEFINE n == left[s]
<1>1. n \in Nat /\ Length(s) = n % LenMod
  BY DEF Length
<1> HIDE DEF n
<1>2. LenMod \in Nat \ {0}
  BY Widths
<1>3. /\ n % LenMod \in 0..(LenMod - 1)
      /\ n \in 0..(LenMod - 1) => n % LenMod = n
      /\ n >= LenMod => n - (n % LenMod) >= LenMod
  BY <1>1, <1>2
<1>4. /\ Length(s) \in 0..n
      /\ n < LenMod => Length(s) = n
      /\ n >= LenMod => n - Length(s) >= LenMod
  BY <1>1, <1>2, <1>3
<1> QED BY <1>4 DEF n

LEMMA SideValues ==
  /\ Write \in Sides /\ Read \in Sides /\ Write # Read
  /\ \A s \in Sides : Peer(s) \in Sides /\ Peer(s) # s /\ (s = Write \/ s = Read)
BY DEF Sides, Write, Read, Peer

\* The codes are negative counts and not those of success.
LEMMA Codes ==
  /\ 0 \in Answers /\ 0..IntMax \subseteq Answers /\ -IO_UNKNOWN \in Answers
  /\ Answers \subseteq Outcomes /\ -IO_EOF \in Outcomes /\ Int32 \subseteq Outcomes
  /\ \A n \in Answers : n \in Int /\ n <= IntMax
  /\ IO_UNKNOWN > 0 /\ IO_EOF > 0 /\ -IO_UNKNOWN < 0 /\ -IO_EOF < 0
  /\ OfStatus(IO_EOF) = -IO_EOF /\ OfStatus(IO_UNKNOWN) = -IO_UNKNOWN
  /\ OfCount(IO_OK, 0) = 0 /\ \A n \in Int : OfCount(IO_OK, n) = n
<1>1. IO_UNKNOWN \in Nat /\ IO_UNKNOWN > 0 /\ IO_EOF \in Nat /\ IO_EOF > 0
  BY MaxErrnoAssumption DEF IO_UNKNOWN, IO_EOF
<1>2. /\ OfStatus(IO_EOF) = -IO_EOF /\ OfStatus(IO_UNKNOWN) = -IO_UNKNOWN
      /\ OfCount(IO_OK, 0) = 0 /\ \A n \in Int : OfCount(IO_OK, n) = n
  BY DEF OfStatus, OfCount
<1> HIDE DEF IO_UNKNOWN, IO_EOF
<1> QED BY <1>1, <1>2, Widths DEF Answers, Outcomes, Int32

\* What the type invariant says of the values the loops compute with.
Values ==
  /\ \A s \in Sides : size[s] \in Nat /\ left[s] \in Nat /\ left[s] <= size[s] /\ op[s] \in Int
  /\ Len(stream) \in Nat /\ Len(memory) \in Nat

LEMMA Typed ==
  ASSUME TypeOK
  PROVE  Values
<1>1. \A s \in Sides : size[s] \in Nat
  <2>1. size \in [Sides -> Sizes]
    BY DEF TypeOK
  <2> QED BY <2>1, SizesAssumption
<1>2. \A s \in Sides : op[s] \in Int
  <2>1. op \in [Sides -> Answers]
    BY DEF TypeOK
  <2> QED BY <2>1, Codes
<1>3. \A s \in Sides : left[s] \in Nat /\ left[s] <= size[s]
  BY DEF TypeOK
<1>4. Len(stream) \in Nat /\ Len(memory) \in Nat
  BY LenProperties DEF TypeOK
<1> QED BY <1>1, <1>2, <1>3, <1>4 DEF Values

(***************************************************************************)
(* IInv is inductive: one lemma per action.                                *)
(***************************************************************************)

LEMMA InitInv ==
  ASSUME Init
  PROVE  IInv
<1>1. stream \in Seq(Nat) /\ memory \in Seq(Nat) /\ Len(stream) = 0 /\ Len(memory) = 0
  BY EmptySeq DEF Init
<1>2. \A s \in Sides : size[s] \in Nat /\ left[s] = size[s] /\ op[s] = 0 /\ pc[s] = "enter"
  BY SizesAssumption DEF Init
<1>3. TypeOK
  <2>1. left \in [Sides -> Nat] /\ Len(stream) <= Capacity /\ Len(memory) <= size[Read]
    BY <1>1, <1>2, SideValues, SizesAssumption DEF Init
  <2>2. op \in [Sides -> Answers] /\ out \in [Sides -> Outcomes]
    BY Codes DEF Init
  <2>3. size \in [Sides -> Sizes] /\ \A s \in Sides : left[s] <= size[s]
    BY <1>2 DEF Init
  <2>4. broken \in BOOLEAN /\ pc \in [Sides -> {"enter", "call", "wait", "check", "returned", "closed"}]
    BY DEF Init
  <2> QED BY <1>1, <2>1, <2>2, <2>3, <2>4 DEF TypeOK
<1>4. SpanInv
  BY <1>2 DEF SpanInv, Counted
<1>5. MovedInv
  BY <1>1, <1>2, SideValues DEF MovedInv, Position, Counted
<1>6. ReasonInv /\ FullInv /\ FailureIsReal
  BY <1>2 DEF ReasonInv, FullInv, FailureIsReal, Returned
<1>7. PrefixInv
  BY <1>1 DEF PrefixInv
<1> QED BY <1>3, <1>4, <1>5, <1>6, <1>7 DEF IInv

\* Entering a loop, issuing an operation and closing a socket preserve the invariant.
LEMMA PassInv ==
  ASSUME IInv, NEW s \in Sides, Enter(s) \/ Call(s) \/ Close(s)
  PROVE  IInv'
<1> USE DEF IInv, Enter, Call, Close
<1>0. Values
  BY Typed
<1>1. TypeOK'
  BY Codes DEF TypeOK, Go, Return
<1>2. SpanInv'
  BY <1>0, SideValues DEF Values, TypeOK, SpanInv, Counted, Go, Return, success
<1>3. MovedInv'
  BY <1>0, SideValues DEF Values, TypeOK, MovedInv, Counted, Position, Returned, Go, Return
<1>4. ReasonInv'
  BY <1>0, SideValues DEF Values, TypeOK, ReasonInv, Returned, Go, Return
<1>5. FullInv'
  <2> SUFFICES ASSUME NEW t \in Sides, Returned(t)', success(out[t])'
               PROVE  (out[t] = size[t] /\ (t = Read => Len(memory) = size[t]))'
    BY DEF FullInv
  <2>1. CASE Returned(t) /\ out'[t] = out[t]
    BY <2>1 DEF FullInv, success
  <2>2. CASE ~(Returned(t) /\ out'[t] = out[t])
    BY <2>2, <1>0, SideValues, Codes
    DEF Values, TypeOK, SpanInv, MovedInv, Returned, Position, Counted, Go, Return, success
  <2> QED BY <2>1, <2>2
<1>6. PrefixInv'
  BY DEF PrefixInv
<1>7. FailureIsReal'
  <2> SUFFICES ASSUME NEW t \in Sides, Returned(t)', ~success(out[t])', size[t]' <= IntMax
               PROVE  broken' \/ Returned(Peer(t))'
    BY DEF FailureIsReal
  <2>1. Returned(Peer(t)) => Returned(Peer(t))'
    BY SideValues DEF TypeOK, Returned, Go, Return
  <2>2. CASE Returned(t) /\ out'[t] = out[t]
    BY <2>1, <2>2 DEF FailureIsReal, TypeOK, success
  <2>3. CASE ~(Returned(t) /\ out'[t] = out[t])
    BY <2>1, <2>3, Codes DEF TypeOK, Returned, Go, Return, success
  <2> QED BY <2>2, <2>3
<1> QED BY <1>1, <1>2, <1>3, <1>4, <1>5, <1>6, <1>7

\* A failed operation preserves the invariant.
LEMMA RefuseInv ==
  ASSUME IInv, NEW s \in Sides, Refuse(s)
  PROVE  IInv'
<1> USE DEF IInv, Refuse
<1>0. Values
  BY Typed
<1>1. TypeOK'
  BY Codes DEF TypeOK, Go, Answer
<1>2. SpanInv'
  BY <1>0, SideValues, Codes DEF Values, TypeOK, SpanInv, Counted, Go, Answer, success
<1>3. MovedInv'
  BY <1>0, SideValues, Codes DEF Values, success, TypeOK, MovedInv, Counted, Position, Returned, Go, Answer
<1>4. ReasonInv'
  BY <1>0, SideValues DEF Values, TypeOK, ReasonInv, Returned, Go, Answer
<1>5. FullInv'
  BY DEF TypeOK, FullInv, Returned, Go, Answer
<1>6. PrefixInv'
  BY DEF PrefixInv
<1>7. FailureIsReal'
  <2> SUFFICES ASSUME NEW t \in Sides, Returned(t)', ~success(out[t])', size[t]' <= IntMax
               PROVE  broken' \/ Returned(Peer(t))'
    BY DEF FailureIsReal
  <2>1. Returned(Peer(t)) => Returned(Peer(t))'
    BY SideValues DEF TypeOK, Returned, Go, Answer
  <2>2. CASE Returned(t) /\ out'[t] = out[t]
    BY <2>1, <2>2 DEF FailureIsReal, TypeOK, success
  <2>3. CASE ~(Returned(t) /\ out'[t] = out[t])
    BY <2>1, <2>3, Codes DEF TypeOK, Returned, Go, Answer, success
  <2> QED BY <2>2, <2>3
<1> QED BY <1>1, <1>2, <1>3, <1>4, <1>5, <1>6, <1>7

\* A reset preserves the invariant.
LEMMA BreakInv ==
  ASSUME IInv, Break
  PROVE  IInv'
<1> USE DEF IInv, Break
<1>0. Values
  BY Typed
<1>1. TypeOK'
  BY EmptySeq, SizesAssumption DEF TypeOK
<1>2. SpanInv'
  BY <1>0, SideValues DEF Values, TypeOK, SpanInv, Counted, Go, Return, success
<1>3. MovedInv'
  BY <1>0, SideValues DEF Values, TypeOK, MovedInv, Counted, Position, Returned, Go, Return
<1>4. ReasonInv'
  BY <1>0, SideValues DEF Values, TypeOK, ReasonInv, Returned, Go, Return
<1>5. FullInv'
  <2> SUFFICES ASSUME NEW t \in Sides, Returned(t)', success(out[t])'
               PROVE  (out[t] = size[t] /\ (t = Read => Len(memory) = size[t]))'
    BY DEF FullInv
  <2>1. CASE Returned(t) /\ out'[t] = out[t]
    BY <2>1 DEF FullInv, success
  <2>2. CASE ~(Returned(t) /\ out'[t] = out[t])
    BY <2>2, <1>0, SideValues, Codes
    DEF Values, TypeOK, SpanInv, MovedInv, Returned, Position, Counted, Go, Return, success
  <2> QED BY <2>1, <2>2
<1>6. PrefixInv'
  BY DEF PrefixInv
<1>7. FailureIsReal'
  <2> SUFFICES ASSUME NEW t \in Sides, Returned(t)', ~success(out[t])', size[t]' <= IntMax
               PROVE  broken' \/ Returned(Peer(t))'
    BY DEF FailureIsReal
  <2>1. Returned(Peer(t)) => Returned(Peer(t))'
    BY SideValues DEF TypeOK, Returned, Go, Return
  <2>2. CASE Returned(t) /\ out'[t] = out[t]
    BY <2>1, <2>2 DEF FailureIsReal, TypeOK, success
  <2>3. CASE ~(Returned(t) /\ out'[t] = out[t])
    BY <2>1, <2>3, Codes DEF TypeOK, Returned, Go, Return, success
  <2> QED BY <2>2, <2>3
<1> QED BY <1>1, <1>2, <1>3, <1>4, <1>5, <1>6, <1>7

\* Looking at an answer preserves the invariant.
LEMMA CheckInv ==
  ASSUME IInv, NEW s \in Sides, Check(s)
  PROVE  IInv'
<1> USE DEF IInv
<1>0. Values
  BY Typed
<1>1. /\ pc[s] = "check" /\ op[s] \in Int /\ left[s] \in Nat /\ left[s] > 0 /\ left[s] <= size[s]
      /\ size[s] \in Nat /\ (op[s] >= 0 => op[s] <= left[s])
      /\ op[s] >= 0 /\ size[s] >= LenMod => left[s] - op[s] >= LenMod
  BY <1>0 DEF Check, Values, SpanInv, Counted, success
<1>2. UNCHANGED <<size, op, stream, memory, broken>>
  BY DEF Check
<1>3. CASE success(op[s]) /\ op[s] \notin {0, left[s]} /\ Trim(s)
  <2>0. op[s] > 0 /\ op[s] < left[s] /\ left[s] - op[s] \in Nat
    BY <1>1, <1>3 DEF success
  <2>1. /\ pc' = [pc EXCEPT ![s] = "call"] /\ left' = [left EXCEPT ![s] = @ - op[s]]
        /\ UNCHANGED out
    BY <1>3 DEF Trim, Go
  <2>2. TypeOK'
    BY <1>0, <1>2, <2>0, <2>1 DEF TypeOK, Values
  <2>3. SpanInv'
    BY <1>0, <1>1, <1>2, <2>0, <2>1 DEF TypeOK, Values, SpanInv, Counted
  <2>4. MovedInv'
    <3>1. ASSUME NEW t \in Sides
          PROVE  (Position(t) + Counted(t))' = Position(t) + Counted(t)
      <4>1. CASE t = s
        <5>1. /\ Position(s)' = size[s] - (left[s] - op[s]) /\ Counted(s)' = 0
              /\ Position(s) = size[s] - left[s] /\ Counted(s) = op[s]
          BY <1>1, <1>2, <2>0, <2>1 DEF TypeOK, Position, Counted, success
        <5> QED BY <1>1, <4>1, <5>1
      <4>2. CASE t # s
        <5>1. Position(t)' = Position(t) /\ Counted(t)' = Counted(t)
          BY <1>2, <2>1, <4>2 DEF TypeOK, Position, Counted
        <5> QED BY <5>1
      <4> QED BY <4>1, <4>2
    <3>2. \A t \in Sides : Returned(t)' <=> Returned(t)
      BY <1>1, <2>1 DEF TypeOK, Returned
    <3> QED BY <1>2, <3>1, <3>2, SideValues DEF MovedInv
  <2>5. ReasonInv' /\ FullInv' /\ FailureIsReal'
    BY <1>1, <1>2, <2>1, SideValues
    DEF TypeOK, ReasonInv, FullInv, FailureIsReal, Returned
  <2> QED BY <1>2, <2>2, <2>3, <2>4, <2>5 DEF PrefixInv
<1>4. ASSUME NEW result \in Outcomes, Done(s, result),
             success(result) => result = size[s] /\ op[s] = left[s],
             ~success(result) /\ size[s] <= IntMax => broken \/ Returned(Peer(s))
      PROVE  IInv'
  <2>1. /\ pc' = [pc EXCEPT ![s] = "returned"] /\ out' = [out EXCEPT ![s] = result]
        /\ UNCHANGED left
    BY <1>4 DEF Done, Return, Go
  <2>2. TypeOK'
    BY <1>2, <2>1 DEF TypeOK
  <2>3. SpanInv'
    BY <1>0, <1>1, <1>2, <2>1, Widths DEF TypeOK, Values, SpanInv, Counted, success
  <2>4. MovedInv'
    BY <1>0, <1>1, <1>2, <2>1, SideValues
    DEF TypeOK, Values, MovedInv, Returned, Position, Counted, success
  <2>5. ReasonInv'
    BY <1>2, <2>1, SideValues DEF TypeOK, ReasonInv, Returned
  <2>6. FullInv'
    <3>1. success(result) /\ s = Read => Len(memory) = size[Read]
      BY <1>0, <1>1, <1>4, SideValues DEF Values, MovedInv, Returned, Position, Counted, success
    <3> QED BY <1>2, <1>4, <2>1, <3>1, SideValues DEF TypeOK, FullInv, Returned, success
  <2>7. FailureIsReal'
    BY <1>2, <1>4, <2>1, SideValues DEF TypeOK, FailureIsReal, Returned, success
  <2> QED BY <1>2, <2>2, <2>3, <2>4, <2>5, <2>6, <2>7 DEF PrefixInv
<1>5. CASE op[s] = 0 /\ Done(s, OfStatus(IO_EOF))
  <2>1. -IO_EOF \in Outcomes /\ -IO_EOF < 0 /\ OfStatus(IO_EOF) = -IO_EOF
    BY Codes
  <2>2. ~success(OfStatus(IO_EOF))
    BY <2>1, MaxErrnoAssumption DEF success, IO_EOF
  <2>3. size[s] <= IntMax => broken \/ Returned(Peer(s))
    BY <1>1, <1>5 DEF ReasonInv
  <2> QED BY <1>4, <1>5, <2>1, <2>2, <2>3
<1>6. CASE op[s] # 0 /\ op[s] = left[s] /\ Done(s, Whole(s))
  <2>1. Whole(s) = ToInt32(size[s]) /\ Whole(s) \in Outcomes
    BY <1>1, ToInt32Value, Codes DEF Whole, Int32, OfCount, IO_OK
  <2>2. size[s] < LenMod
    BY <1>1, <1>6, Widths
  <2>3. success(Whole(s)) => Whole(s) = size[s]
    <3>1. /\ ToInt32(size[s]) \in Int /\ size[s] \in Nat
          /\ size[s] <= IntMax => ToInt32(size[s]) = size[s]
          /\ size[s] > IntMax => ToInt32(size[s]) < 0
      BY <1>1, <2>2, ToInt32Value, Widths DEF Int32
    <3> QED BY <2>1, <3>1, Widths DEF success
  <2>4. ~success(Whole(s)) => size[s] > IntMax
    BY <1>1, <2>1, ToInt32Value, Widths DEF success
  <2> QED BY <1>1, <1>4, <1>6, <2>1, <2>3, <2>4, Widths
<1>7. CASE ~success(op[s]) /\ Done(s, op[s])
  BY <1>1, <1>4, <1>7, Codes DEF TypeOK, ReasonInv, success
<1> QED BY <1>3, <1>5, <1>6, <1>7 DEF Check

\* Sending preserves the invariant.
LEMMA SendInv ==
  ASSUME IInv, Send
  PROVE  IInv'
<1> USE DEF IInv
<1>0. Values
  BY Typed
<1>1. PICK n \in 0..Length(Write) :
        /\ n <= IntMax /\ Len(stream) + n <= Capacity
        /\ n = 0 => Length(Write) = 0
        /\ stream' = stream \o [i \in 1..n |-> Position(Write) + i]
        /\ Answer(Write, n)
  BY DEF Send
<1>2. /\ pc[Write] = "wait" /\ ~broken /\ UNCHANGED <<size, left, out, memory, broken>>
      /\ pc' = [pc EXCEPT ![Write] = "check"] /\ op' = [op EXCEPT ![Write] = n]
  BY <1>1 DEF Send, Answer, Go
<1>3. /\ n \in Nat /\ n \in Answers /\ n <= left[Write]
      /\ left[Write] >= LenMod => left[Write] - n >= LenMod
      /\ n = 0 => left[Write] >= LenMod
      /\ left[Write] \in Nat /\ left[Write] <= size[Write] /\ size[Write] \in Nat /\ left[Write] > 0
  <2>1. left[Write] \in Nat /\ left[Write] <= size[Write] /\ size[Write] \in Nat /\ left[Write] > 0
    BY <1>0, <1>2, SideValues DEF Values, SpanInv
  <2>2. /\ Length(Write) \in 0..left[Write]
        /\ left[Write] < LenMod => Length(Write) = left[Write]
        /\ left[Write] >= LenMod => left[Write] - Length(Write) >= LenMod
    BY <2>1, SideValues, LengthValue
  <2>3. n \in Answers
    BY <1>1, <2>1, <2>2, Widths, Codes
  <2> QED BY <1>1, <2>1, <2>2, <2>3, Widths
<1>4. /\ stream' \in Seq(Nat) /\ Len(stream') = Len(stream) + n
      /\ \A i \in 1..Len(stream) : stream'[i] = stream[i]
      /\ \A i \in (Len(stream) + 1)..Len(stream') : stream'[i] = Position(Write) + i - Len(stream)
  <2> DEFINE sent == [i \in 1..n |-> Position(Write) + i]
  <2>1. sent \in Seq(Nat) /\ Len(sent) = n
    BY <1>3 DEF Position
  <2>2. \A i \in 1..n : sent[i] = Position(Write) + i
    OBVIOUS
  <2>3. stream' = stream \o sent /\ stream \in Seq(Nat)
    BY <1>1 DEF TypeOK
  <2> HIDE DEF sent
  <2>4. /\ stream' \in Seq(Nat) /\ Len(stream') = Len(stream) + n
        /\ \A i \in 1..Len(stream) + n :
             stream'[i] = IF i <= Len(stream) THEN stream[i] ELSE sent[i - Len(stream)]
    BY <2>1, <2>3, ConcatProperties
  <2>5. Position(Write) \in Int
    BY <1>3 DEF Position
  <2>6. \A i \in (Len(stream) + 1)..(Len(stream) + n) :
           i - Len(stream) \in 1..n /\ stream'[i] = sent[i - Len(stream)]
    BY <1>0, <1>3, <2>4 DEF Values
  <2>7. \A i \in (Len(stream) + 1)..(Len(stream) + n) :
           stream'[i] = Position(Write) + (i - Len(stream))
    BY <2>2, <2>6
  <2> QED BY <1>0, <1>3, <2>4, <2>5, <2>7 DEF Values
<1>5. Len(memory) + Len(stream) = Position(Write)
  BY <1>0, <1>2, <1>3, SideValues DEF MovedInv, Values, Returned, Position, Counted
<1>6. TypeOK'
  BY <1>1, <1>2, <1>3, <1>4 DEF TypeOK
<1>7. SpanInv'
  BY <1>0, <1>2, <1>3, SideValues DEF TypeOK, Values, SpanInv, Counted, success
<1>8. MovedInv'
  <2>1. ~Returned(Read)' => (Len(memory) = Position(Read) + Counted(Read))'
    BY <1>0, <1>2, SideValues DEF TypeOK, Values, MovedInv, Returned, Position, Counted
  <2>2. (Len(memory) + Len(stream) = Position(Write) + Counted(Write))'
    BY <1>0, <1>2, <1>3, <1>4, <1>5, SideValues DEF TypeOK, Values, Position, Counted, success
  <2>3. \A i \in 1..Len(stream') : stream'[i] = Len(memory) + i
    <3>1. \A i \in 1..Len(stream) : stream[i] = Len(memory) + i
      BY DEF MovedInv
    <3>2. Position(Write) \in Int
      BY <1>3 DEF Position
    <3>3. \A i \in 1..Len(stream') :
             i \in 1..Len(stream) \/ i \in (Len(stream) + 1)..Len(stream')
      BY <1>0, <1>3, <1>4 DEF Values
    <3>4. \A i \in (Len(stream) + 1)..Len(stream') : stream'[i] = Len(memory) + i
      BY <1>0, <1>3, <1>4, <1>5, <3>2 DEF Values
    <3> QED BY <1>4, <3>1, <3>3, <3>4
  <2> QED BY <1>2, <2>1, <2>2, <2>3 DEF MovedInv
<1>9. ReasonInv'
  BY <1>1, <1>2, <1>3, SideValues, Widths DEF TypeOK, ReasonInv, Returned
<1>10. FullInv' /\ FailureIsReal'
  BY <1>2, SideValues DEF TypeOK, FullInv, FailureIsReal, Returned
<1> QED BY <1>2, <1>6, <1>7, <1>8, <1>9, <1>10 DEF PrefixInv

\* What receiving n bytes does: they move from the start of the stream to the end
\* of what is in memory, and fit in the span.
RecvMoved(n) ==
  /\ pc[Read] = "wait" /\ ~broken /\ UNCHANGED <<size, left, out, broken>>
  /\ pc' = [pc EXCEPT ![Read] = "check"] /\ op' = [op EXCEPT ![Read] = n]
  /\ n \in Answers /\ n <= IntMax /\ n <= Len(stream) /\ n <= left[Read]
  /\ left[Read] >= LenMod => left[Read] - n >= LenMod
  /\ n = 0 => left[Read] >= LenMod \/ pc[Write] = "closed"
  /\ left[Read] \in Nat /\ left[Read] <= size[Read] /\ size[Read] \in Nat /\ left[Read] > 0
  /\ Len(memory) = Position(Read)
  /\ stream' \in Seq(Nat) /\ Len(stream') = Len(stream) - n
  /\ \A i \in 1..Len(stream') : stream'[i] = stream[n + i]
  /\ memory' \in Seq(Nat) /\ Len(memory') = Len(memory) + n
  /\ \A i \in 1..Len(memory) : memory'[i] = memory[i]
  /\ \A i \in 1..n : memory'[Len(memory) + i] = stream[i]

LEMMA RecvMoves ==
  ASSUME IInv, Recv
  PROVE  \E n \in Nat : RecvMoved(n)
<1> USE DEF IInv
<1>0. Values
  BY Typed
<1>1. PICK n \in 0..Length(Read) :
        /\ n <= IntMax /\ n <= Len(stream)
        /\ n = 0 => Length(Read) = 0 \/ (stream = <<>> /\ pc[Write] = "closed")
        /\ stream' = SubSeq(stream, n + 1, Len(stream))
        /\ memory' = SubSeq(memory, 1, Position(Read)) \o SubSeq(stream, 1, n)
        /\ Answer(Read, n)
  BY DEF Recv
<1>2. /\ pc[Read] = "wait" /\ ~broken /\ UNCHANGED <<size, left, out, broken>>
      /\ pc' = [pc EXCEPT ![Read] = "check"] /\ op' = [op EXCEPT ![Read] = n]
  BY <1>1 DEF Recv, Answer, Go
<1>3. /\ n \in Nat /\ n <= IntMax /\ n <= Len(stream) /\ n \in Answers /\ n <= left[Read]
      /\ left[Read] >= LenMod => left[Read] - n >= LenMod
      /\ n = 0 => left[Read] >= LenMod \/ pc[Write] = "closed"
      /\ left[Read] \in Nat /\ left[Read] <= size[Read] /\ size[Read] \in Nat /\ left[Read] > 0
  <2>1. left[Read] \in Nat /\ left[Read] <= size[Read] /\ size[Read] \in Nat /\ left[Read] > 0
    BY <1>0, <1>2, SideValues DEF Values, SpanInv
  <2>2. /\ Length(Read) \in 0..left[Read]
        /\ left[Read] < LenMod => Length(Read) = left[Read]
        /\ left[Read] >= LenMod => left[Read] - Length(Read) >= LenMod
    BY <2>1, SideValues, LengthValue
  <2>3. n \in Answers
    BY <1>1, <2>1, <2>2, Widths, Codes
  <2> QED BY <1>1, <2>1, <2>2, <2>3, Widths
<1>4. Len(memory) = Position(Read)
  BY <1>0, <1>2, <1>3, SideValues DEF MovedInv, Values, Returned, Position, Counted
<1>5. /\ stream' \in Seq(Nat) /\ Len(stream') = Len(stream) - n
      /\ \A i \in 1..Len(stream') : stream'[i] = stream[n + i]
  <2>1. \A i \in (n + 1)..Len(stream) : stream[i] \in Nat
    BY <1>0, <1>3, ElementOfSeq DEF TypeOK, Values
  <2>2. /\ SubSeq(stream, n + 1, Len(stream)) \in Seq(Nat)
        /\ Len(SubSeq(stream, n + 1, Len(stream)))
             = IF n + 1 <= Len(stream) THEN Len(stream) - (n + 1) + 1 ELSE 0
        /\ \A i \in 1..(Len(stream) - (n + 1) + 1) :
             SubSeq(stream, n + 1, Len(stream))[i] = stream[n + 1 + i - 1]
    BY <1>0, <1>3, <2>1, SubSeqProperties DEF Values
  <2>3. Len(stream) - (n + 1) + 1 = Len(stream) - n /\ Len(stream) - n >= 0
    BY <1>0, <1>1, <1>3 DEF Values
  <2>4. stream' \in Seq(Nat) /\ Len(stream') = Len(stream) - n
    <3>1. stream' \in Seq(Nat)
      BY <1>1, <2>2
    <3>2. Len(stream') = IF n + 1 <= Len(stream) THEN Len(stream) - n ELSE 0
      BY <1>1, <2>2, <2>3
    <3>3. n + 1 <= Len(stream) \/ Len(stream) - n = 0
      BY <1>0, <1>1, <1>3 DEF Values
    <3> QED BY <3>1, <3>2, <3>3
  <2>5. \A i \in 1..(Len(stream) - n) : stream'[i] = stream[n + 1 + i - 1]
    BY <1>1, <2>2, <2>3
  <2>6. \A i \in 1..(Len(stream) - n) : n + 1 + i - 1 = n + i
    BY <1>3
  <2> QED BY <2>4, <2>5, <2>6
<1>6. /\ memory' \in Seq(Nat) /\ Len(memory') = Len(memory) + n
      /\ \A i \in 1..Len(memory) : memory'[i] = memory[i]
      /\ \A i \in 1..n : memory'[Len(memory) + i] = stream[i]
  <2> DEFINE got == SubSeq(stream, 1, n)
  <2>1. \A i \in 1..n : stream[i] \in Nat
    BY <1>0, <1>1, <1>3, ElementOfSeq DEF TypeOK, Values
  <2>2. got \in Seq(Nat) /\ Len(got) = n /\ \A i \in 1..n : got[i] = stream[i]
    <3>1. /\ got \in Seq(Nat) /\ Len(got) = IF 1 <= n THEN n - 1 + 1 ELSE 0
          /\ \A i \in 1..(n - 1 + 1) : got[i] = stream[1 + i - 1]
      BY <1>3, <2>1, SubSeqProperties
    <3> HIDE DEF got
    <3>2. n \in Nat /\ n - 1 + 1 = n /\ \A i \in 1..n : 1 + i - 1 = i
      BY <1>3
    <3> QED BY <3>1, <3>2
  <2>3. memory' = memory \o got /\ memory \in Seq(Nat)
    BY <1>1, <1>4, SubSeqFull DEF TypeOK
  <2> HIDE DEF got
  <2>4. /\ memory' \in Seq(Nat) /\ Len(memory') = Len(memory) + n
        /\ \A i \in 1..Len(memory) + n :
             memory'[i] = IF i <= Len(memory) THEN memory[i] ELSE got[i - Len(memory)]
    <3> DEFINE held == memory
    <3>1. held \in Seq(Nat) /\ held = memory
      BY <2>3
    <3> HIDE DEF held
    <3>2. /\ held \o got \in Seq(Nat) /\ Len(held \o got) = Len(held) + Len(got)
          /\ \A i \in 1..Len(held) + Len(got) :
               (held \o got)[i] = IF i <= Len(held) THEN held[i] ELSE got[i - Len(held)]
      BY <2>2, <3>1, ConcatProperties
    <3> QED BY <2>2, <2>3, <3>1, <3>2
  <2>5. \A i \in 1..n : /\ Len(memory) + i \in 1..Len(memory) + n /\ ~(Len(memory) + i <= Len(memory))
                        /\ (Len(memory) + i) - Len(memory) = i
    BY <1>0, <1>3 DEF Values
  <2>6. \A i \in 1..n : memory'[Len(memory) + i] = stream[i]
    BY <2>2, <2>4, <2>5
  <2> QED BY <1>0, <1>3, <2>4, <2>6 DEF Values
<1> QED BY <1>1, <1>2, <1>3, <1>4, <1>5, <1>6 DEF RecvMoved

\* Receiving preserves the invariant.
LEMMA RecvInv ==
  ASSUME IInv, Recv
  PROVE  IInv'
<1> USE DEF IInv
<1>0. Values
  BY Typed
<1>1. PICK n \in Nat : RecvMoved(n)
  BY RecvMoves
<1>2. /\ pc[Read] = "wait" /\ ~broken /\ UNCHANGED <<size, left, out, broken>>
      /\ pc' = [pc EXCEPT ![Read] = "check"] /\ op' = [op EXCEPT ![Read] = n]
  BY <1>1 DEF RecvMoved
<1>3. /\ n \in Nat /\ n <= IntMax /\ n <= Len(stream) /\ n \in Answers /\ n <= left[Read]
      /\ left[Read] >= LenMod => left[Read] - n >= LenMod
      /\ n = 0 => left[Read] >= LenMod \/ pc[Write] = "closed"
      /\ left[Read] \in Nat /\ left[Read] <= size[Read] /\ size[Read] \in Nat /\ left[Read] > 0
  BY <1>1 DEF RecvMoved
<1>4. Len(memory) = Position(Read)
  BY <1>1 DEF RecvMoved
<1>5. /\ stream' \in Seq(Nat) /\ Len(stream') = Len(stream) - n
      /\ \A i \in 1..Len(stream') : stream'[i] = stream[n + i]
  BY <1>1 DEF RecvMoved
<1>6. /\ memory' \in Seq(Nat) /\ Len(memory') = Len(memory) + n
      /\ \A i \in 1..Len(memory) : memory'[i] = memory[i]
      /\ \A i \in 1..n : memory'[Len(memory) + i] = stream[i]
  BY <1>1 DEF RecvMoved
<1>7. TypeOK'
  <2>1. Len(stream') <= Capacity /\ Len(memory') <= size[Read]
    BY <1>0, <1>3, <1>4, <1>5, <1>6, SizesAssumption DEF TypeOK, Values, Position
  <2> QED BY <1>2, <1>3, <1>5, <1>6, <2>1 DEF TypeOK
<1>8. SpanInv'
  BY <1>0, <1>2, <1>3, SideValues DEF TypeOK, Values, SpanInv, Counted, success
<1>9. MovedInv'
  <2>1. (Len(memory) = Position(Read) + Counted(Read))'
    BY <1>2, <1>3, <1>4, <1>6, SideValues DEF TypeOK, Position, Counted, success
  <2>2. (~Returned(Write) => Len(memory) + Len(stream) = Position(Write) + Counted(Write))'
    <3>1. Position(Write)' = Position(Write) /\ Counted(Write)' = Counted(Write)
          /\ (Returned(Write)' <=> Returned(Write))
      BY <1>2, SideValues DEF TypeOK, Position, Counted, Returned
    <3>2. Len(memory') + Len(stream') = Len(memory) + Len(stream)
      BY <1>0, <1>3, <1>5, <1>6 DEF Values
    <3> QED BY <1>2, <3>1, <3>2 DEF MovedInv
  <2>3. \A i \in 1..Len(stream') : stream'[i] = Len(memory') + i
    BY <1>0, <1>3, <1>5, <1>6 DEF MovedInv, Values
  <2> QED BY <1>2, <2>1, <2>2, <2>3 DEF MovedInv
<1>10. ReasonInv'
  BY <1>2, <1>3, SideValues, Widths DEF TypeOK, ReasonInv, Returned, Peer
<1>11. FullInv' /\ FailureIsReal'
  BY <1>2, SideValues DEF TypeOK, FullInv, FailureIsReal, Returned
<1>12. PrefixInv'
  <2>1. \A i \in 1..Len(memory') :
          i \in 1..Len(memory) \/ (i - Len(memory) \in 1..n /\ Len(memory) + (i - Len(memory)) = i)
    BY <1>0, <1>3, <1>6 DEF Values
  <2>2. \A i \in 1..n : memory'[Len(memory) + i] = Len(memory) + i
    <3>1. \A i \in 1..n : i \in 1..Len(stream)
      BY <1>0, <1>3 DEF Values
    <3> QED BY <1>6, <3>1 DEF MovedInv
  <2>3. \A i \in 1..Len(memory) : memory'[i] = i
    BY <1>6 DEF PrefixInv
  <2> QED BY <2>1, <2>2, <2>3 DEF PrefixInv
<1> QED BY <1>7, <1>8, <1>9, <1>10, <1>11, <1>12

\* A step that changes nothing preserves the invariant.
LEMMA StutterInv ==
  ASSUME IInv, UNCHANGED vars
  PROVE  IInv'
BY DEF IInv, vars, TypeOK, SpanInv, MovedInv, ReasonInv, FullInv, PrefixInv, FailureIsReal,
       Counted, Position, Returned

(***************************************************************************)
(* The account of the two sides: AccountInv is inductive under IInv.       *)
(***************************************************************************)

\* What a side has moved is where its span starts, and what was answered since.
LEMMA MovedValue ==
  ASSUME IInv, NEW s \in Sides
  PROVE  /\ Position(s) \in Nat /\ Moved(s) \in Nat
         /\ pc[s] \in {"enter", "call", "wait"} => Moved(s) = Position(s)
         /\ pc[s] = "check" => Moved(s) = Position(s) + Counted(s)
<1>1. Values
  BY Typed DEF IInv
<1> QED BY <1>1 DEF Values, Moved, Position, Counted, success

LEMMA InitAccount ==
  ASSUME Init
  PROVE  AccountInv
<1>1. Len(stream) = 0 /\ Len(memory) = 0
  BY EmptySeq DEF Init
<1>2. \A s \in Sides : size[s] \in Nat /\ left[s] = size[s] /\ op[s] = 0 /\ pc[s] = "enter"
  BY SizesAssumption DEF Init
<1>3. \A s \in Sides : size[s] \in Nat /\ Moved(s) = 0 /\ ~Returned(s) /\ op[s] = 0
  BY <1>2 DEF Moved, Position, Returned
<1> QED BY <1>1, <1>3, SideValues DEF AccountInv

\* What the loop decides when it looks at an answer: it goes on after a part of
\* the span, or returns, with success only after the whole span.
LEMMA CheckDecides ==
  ASSUME IInv, NEW s \in Sides, Check(s)
  PROVE  \/ op[s] > 0 /\ left'[s] = left[s] - op[s] /\ pc'[s] = "call"
         \/ left'[s] = left[s] /\ pc'[s] = "returned" /\ (success(out'[s]) => op[s] = left[s])
<1>1. op[s] \in Int /\ left[s] \in Nat /\ pc[s] = "check"
  BY Typed DEF IInv, Values, Check
<1>2. CASE success(op[s]) /\ op[s] \notin {0, left[s]} /\ Trim(s)
  BY <1>1, <1>2 DEF IInv, TypeOK, Trim, Go, success
<1>3. ASSUME NEW result, Done(s, result), success(result) => op[s] = left[s]
      PROVE  left'[s] = left[s] /\ pc'[s] = "returned" /\ (success(out'[s]) => op[s] = left[s])
  BY <1>3 DEF IInv, TypeOK, Done, Return, Go
<1>4. CASE op[s] = 0 /\ Done(s, OfStatus(IO_EOF))
  <2>1. OfStatus(IO_EOF) = -IO_EOF /\ -IO_EOF < 0 /\ -IO_EOF \in Outcomes
    BY Codes
  <2>2. ~success(OfStatus(IO_EOF))
    BY <2>1, MaxErrnoAssumption DEF success, IO_EOF
  <2> QED BY <1>3, <1>4, <2>2
<1>5. CASE op[s] # 0 /\ op[s] = left[s] /\ Done(s, Whole(s))
  BY <1>3, <1>5
<1>6. CASE ~success(op[s]) /\ Done(s, op[s])
  BY <1>3, <1>6
<1> QED BY <1>2, <1>4, <1>5, <1>6 DEF Check

\* A step of a coroutine moves no bytes: a trimmed span starts where the operation
\* ended, and a transfer that returns success has moved its buffer.
LEMMA CodeAccount ==
  ASSUME IInv, AccountInv, NEW s \in Sides, Code(s)
  PROVE  AccountInv'
<1> USE DEF IInv
<1>1. Values
  BY Typed
<1>2. UNCHANGED <<size, op, stream, memory, broken>>
  BY DEF Code, Enter, Call, Check, Close
<1>3. ASSUME NEW t \in Sides, t # s
      PROVE  /\ Moved(t)' = Moved(t) /\ (Returned(t)' <=> Returned(t))
             /\ out'[t] = out[t] /\ pc'[t] = pc[t]
  <2>1. left'[t] = left[t] /\ out'[t] = out[t] /\ pc'[t] = pc[t]
    BY <1>3 DEF TypeOK, Code, Enter, Call, Check, Close, Trim, Done, Return, Go
  <2> QED BY <1>2, <2>1 DEF Moved, Position, Returned
<1>4. /\ Moved(s)' = Moved(s) /\ pc'[s] # "enter"
      /\ Returned(s)' /\ success(out'[s]) => Moved(s) = size[s]
  <2>1. CASE Enter(s)
    BY <1>1, <1>2, <2>1, Codes
    DEF TypeOK, Values, SpanInv, AccountInv, Enter, Return, Go, Moved, Position, Returned, success
  <2>2. CASE Call(s)
    BY <1>2, <2>2 DEF TypeOK, Call, Go, Moved, Position, Returned
  <2>3. CASE Close(s)
    BY <1>2, <2>3 DEF TypeOK, AccountInv, Close, Go, Moved, Position, Returned
  <2>4. CASE Check(s)
    <3>1. pc[s] = "check"
      BY <2>4 DEF Check
    <3>2. CASE op[s] > 0 /\ left'[s] = left[s] - op[s] /\ pc'[s] = "call"
      BY <1>1, <1>2, <3>1, <3>2 DEF Values, Moved, Position, Returned, success
    <3>3. CASE /\ left'[s] = left[s] /\ pc'[s] = "returned"
               /\ success(out'[s]) => op[s] = left[s]
      <4>1. Moved(s)' = Moved(s)
        BY <1>2, <3>1, <3>3 DEF Moved, Position
      <4>2. success(out'[s]) => Moved(s) = size[s]
        BY <1>1, <3>1, <3>3 DEF Values, Moved, Position, success
      <4> QED BY <3>3, <4>1, <4>2
    <3> QED BY <2>4, <3>2, <3>3, CheckDecides
  <2> QED BY <2>1, <2>2, <2>3, <2>4 DEF Code
<1> QED BY <1>2, <1>3, <1>4, SideValues DEF AccountInv

\* A failed operation has moved nothing.
LEMMA RefuseAccount ==
  ASSUME IInv, AccountInv, NEW s \in Sides, Refuse(s)
  PROVE  AccountInv'
<1> USE DEF IInv
<1>1. UNCHANGED <<size, left, out, stream, memory, broken>>
  BY DEF Refuse
<1>2. /\ pc[s] = "wait" /\ pc' = [pc EXCEPT ![s] = "check"]
      /\ op' = [op EXCEPT ![s] = -IO_UNKNOWN]
  BY Codes DEF Refuse, Answer, Go
<1>3. \A t \in Sides : Moved(t)' = Moved(t)
  BY <1>1, <1>2, Codes DEF TypeOK, Moved, Position, success
<1>4. \A t \in Sides : /\ Returned(t)' <=> Returned(t)
                       /\ pc'[t] = "enter" => pc[t] = "enter" /\ op'[t] = op[t]
  BY <1>2 DEF TypeOK, Returned
<1> QED BY <1>1, <1>3, <1>4, SideValues DEF AccountInv

\* A reset takes what the stream holds out of the account.
LEMMA BreakAccount ==
  ASSUME IInv, AccountInv, Break
  PROVE  AccountInv'
<1>1. UNCHANGED <<size, pc, left, op, out, memory>> /\ broken' = TRUE /\ Len(stream') = 0
  BY EmptySeq DEF Break
<1>2. \A t \in Sides : Moved(t)' = Moved(t) /\ (Returned(t)' <=> Returned(t))
  BY <1>1 DEF Moved, Position, Returned
<1>3. Len(memory) \in Nat /\ Len(stream) \in Nat /\ Moved(Write) \in Nat
  BY Typed, MovedValue, SideValues DEF IInv, Values
<1> QED BY <1>1, <1>2, <1>3, SideValues DEF AccountInv

\* While the connection holds, MovedInv gives the account of a side that has not
\* returned; a byte sent or received changes it on both sides of the equation.
LEMMA SendAccount ==
  ASSUME IInv, IInv', AccountInv, Send
  PROVE  AccountInv'
<1> USE DEF IInv
<1>1. UNCHANGED <<size, left, out, memory, broken>> /\ pc[Write] = "wait" /\ ~broken
  BY DEF Send
<1>2. PICK n \in 0..Length(Write) :
        pc' = [pc EXCEPT ![Write] = "check"] /\ op' = [op EXCEPT ![Write] = n]
  BY DEF Send, Answer, Go
<1>3. /\ Moved(Read)' = Moved(Read) /\ (Returned(Read)' <=> Returned(Read))
      /\ pc'[Read] = pc[Read] /\ op'[Read] = op[Read]
  BY <1>1, <1>2, SideValues DEF TypeOK, Moved, Position, Returned
<1>4. /\ pc'[Write] = "check" /\ ~Returned(Write)'
      /\ Position(Write)' + Counted(Write)' = Moved(Write)'
  <2>1. pc'[Write] = "check" /\ op'[Write] = n /\ Position(Write)' = Position(Write)
    BY <1>1, <1>2, SideValues DEF TypeOK, Position
  <2> QED BY <2>1 DEF Returned, Moved, Counted
<1>5. Len(memory') + Len(stream') = Moved(Write)'
  BY <1>1, <1>4 DEF MovedInv
<1>6. Counted(Write)' <= left[Write] /\ Moved(Write)' <= size[Write]
  <2>1. Values /\ Counted(Write)' <= left[Write]
    BY <1>1, Typed, SideValues DEF SpanInv
  <2>2. Position(Write)' = size[Write] - left[Write]
    BY <1>1 DEF Position
  <2>3. op'[Write] = n /\ Counted(Write)' \in Int
    <3>1. op'[Write] = n /\ n \in Int
      BY <1>2, SideValues, Typed, LengthValue DEF TypeOK, Values
    <3> QED BY <3>1 DEF Counted
  <2> QED BY <1>4, <2>1, <2>2, <2>3, SideValues DEF Values
<1>7. Len(memory') + Len(stream') <= Moved(Write)'
  <2>1. Len(memory') + Len(stream') \in Int
    BY LenProperties DEF TypeOK
  <2> QED BY <1>5, <2>1
<1> QED BY <1>1, <1>3, <1>4, <1>5, <1>6, <1>7, SideValues DEF AccountInv

\* Receiving moves bytes from the stream to the reader's buffer.
LEMMA RecvAccount ==
  ASSUME IInv, AccountInv, Recv
  PROVE  AccountInv'
<1> USE DEF IInv
<1>0. Values
  BY Typed
<1>1. PICK n \in Nat : RecvMoved(n)
  BY RecvMoves
<1>2. UNCHANGED <<size, left, out, broken>> /\ pc[Read] = "wait"
      /\ pc' = [pc EXCEPT ![Read] = "check"] /\ op' = [op EXCEPT ![Read] = n]
  BY <1>1 DEF RecvMoved
<1>3. /\ Moved(Write)' = Moved(Write) /\ (Returned(Write)' <=> Returned(Write))
      /\ pc'[Write] = pc[Write] /\ op'[Write] = op[Write]
  BY <1>2, SideValues DEF TypeOK, Moved, Position, Returned
<1>4. pc'[Read] = "check" /\ ~Returned(Read)' /\ Moved(Read)' = Position(Read) + n
  BY <1>2, SideValues DEF TypeOK, Moved, Position, Returned, success
<1>5. /\ Len(memory') = Len(memory) + n /\ Len(stream') = Len(stream) - n
      /\ n <= left[Read] /\ Len(memory) = Position(Read)
  BY <1>1 DEF RecvMoved
<1>6. Moved(Read)' = Len(memory') /\ Moved(Read)' <= size[Read]
  BY <1>0, <1>4, <1>5, SideValues DEF Values, Position
<1>7. Len(memory') + Len(stream') = Len(memory) + Len(stream)
  BY <1>0, <1>5 DEF Values
<1> QED BY <1>2, <1>3, <1>4, <1>6, <1>7, SideValues DEF AccountInv

\* The account gives the other halves of SuccessIsExact and InOrder.
LEMMA AccountGives ==
  ASSUME IInv, AccountInv
  PROVE  SuccessIsExact /\ InOrder
<1>1. SuccessIsExact
  BY SideValues DEF IInv, FullInv, AccountInv, SuccessIsExact
<1>2. Len(memory) \in Nat /\ Len(stream) \in Nat /\ Moved(Write) \in Nat /\ size[Write] \in Nat
  BY Typed, MovedValue, SideValues DEF IInv, Values
<1>3. InOrder
  BY <1>2, SideValues DEF IInv, PrefixInv, AccountInv, InOrder
<1> QED BY <1>1, <1>3

\* No step takes back a byte received or an outcome told.
LEMMA KeepsStep ==
  ASSUME IInv, Next
  PROVE  StepKeeps
<1> USE DEF IInv
<1>1. Len(memory) \in Nat
  BY Typed DEF Values
<1>2. CASE \E s \in Sides : Code(s)
  <2>1. PICK s \in Sides : Code(s)
    BY <1>2
  <2>2. memory' = memory /\ \A t \in Sides : t # s => pc'[t] = pc[t] /\ out'[t] = out[t]
    BY <2>1 DEF TypeOK, Code, Enter, Call, Check, Close, Trim, Done, Return, Go
  <2>3. Returned(s) => Returned(s)' /\ out'[s] = out[s]
    BY <2>1 DEF TypeOK, Code, Enter, Call, Check, Close, Go, Returned
  <2> QED BY <1>1, <2>2, <2>3 DEF StepKeeps, Returned
<1>3. CASE Send \/ Break \/ \E s \in Sides : Refuse(s)
  BY <1>1, <1>3, SideValues DEF TypeOK, Send, Break, Refuse, Answer, Go, StepKeeps, Returned
<1>4. CASE Recv
  <2>1. PICK n \in Nat : RecvMoved(n)
    BY <1>4, RecvMoves
  <2> QED BY <1>1, <2>1, SideValues DEF TypeOK, RecvMoved, StepKeeps, Returned
<1> QED BY <1>2, <1>3, <1>4 DEF Next

\* The loop goes on only after an operation that moved something.
LEMMA ShrinkStep ==
  ASSUME IInv, Next
  PROVE  SpanShrinks
<1>1. \A s \in Sides : left[s] \in Nat /\ pc[s] \in {"enter", "call", "wait", "check", "returned", "closed"}
  BY Typed DEF Values, IInv, TypeOK
<1>2. CASE \E s \in Sides : Code(s)
  <2>1. PICK s \in Sides : Code(s)
    BY <1>2
  <2>2. \A t \in Sides : t # s => left'[t] = left[t] /\ pc'[t] = pc[t]
    BY <2>1 DEF IInv, TypeOK, Code, Enter, Call, Check, Close, Trim, Done, Return, Go
  <2>3. CASE Check(s)
    <3>1. op[s] \in Int
      BY Typed DEF IInv, Values
    <3>2. /\ left'[s] <= left[s]
          /\ pc'[s] = "call" => left'[s] < left[s]
      BY <1>1, <2>3, <3>1, CheckDecides
    <3> QED BY <1>1, <2>2, <3>2 DEF SpanShrinks
  <2>4. CASE ~Check(s)
    <3>1. left' = left /\ pc[s] # "check"
      BY <2>1, <2>4 DEF Code, Enter, Call, Close
    <3> QED BY <1>1, <2>2, <3>1 DEF SpanShrinks
  <2> QED BY <2>3, <2>4
<1>3. CASE Send \/ Recv \/ Break \/ \E s \in Sides : Refuse(s)
  <2>1. left' = left /\ \A s \in Sides : pc'[s] = "call" => pc[s] = "call"
    BY <1>1, <1>3, SideValues DEF IInv, TypeOK, Send, Recv, Break, Refuse, Answer, Go
  <2> QED BY <1>1, <2>1 DEF SpanShrinks
<1> QED BY <1>2, <1>3 DEF Next

(***************************************************************************)
(* The theorems.                                                           *)
(***************************************************************************)

\* IInv and the account hold in every state of every execution.
THEOREM Invariance == Spec => [](IInv /\ AccountInv)
<1>1. IInv /\ [Next]_vars => IInv'
  BY PassInv, CheckInv, RefuseInv, SendInv, RecvInv, BreakInv, StutterInv
  DEF Next, Code
<1>2. IInv /\ IInv' /\ AccountInv /\ [Next]_vars => AccountInv'
  <2>1. CASE UNCHANGED vars
    BY <2>1 DEF vars, AccountInv, Moved, Position, Returned
  <2> QED BY <2>1, CodeAccount, RefuseAccount, SendAccount, RecvAccount, BreakAccount DEF Next
<1> QED BY <1>1, <1>2, InitInv, InitAccount, PTL DEF Spec

\* The variables keep their types: every count fits in the width the code gives it.
THEOREM TypeCorrect == Spec => []TypeOK
BY Invariance, PTL DEF IInv

\* A read_fully or write_fully that reports success moved exactly its buffer, for
\* buffers of every size, those beyond 2^31 and 2^32 bytes included; what the
\* writer moved is received or under way, as long as the connection holds.
THEOREM SuccessIsExactHolds == Spec => []SuccessIsExact
<1>1. IInv /\ AccountInv => SuccessIsExact
  BY AccountGives
<1> QED BY <1>1, Invariance, PTL

\* The other side of it, whole transfers included: for a buffer an int32_t cannot count
\* no loop reports success. Its caller is told a failure although all may have moved.
THEOREM OversizeNeverSucceeds ==
  Spec => [](\A s \in Sides : Returned(s) /\ size[s] > IntMax => ~success(out[s]))
<1>1. IInv => \A s \in Sides : Returned(s) /\ size[s] > IntMax => ~success(out[s])
  <2> SUFFICES ASSUME IInv, NEW s \in Sides, Returned(s), size[s] > IntMax, success(out[s])
               PROVE  FALSE
    OBVIOUS
  <2>1. out[s] = size[s]
    BY DEF IInv, FullInv
  <2>2. out[s] \in Outcomes
    BY DEF IInv, TypeOK
  <2>3. out[s] <= IntMax
    BY <2>2, Widths, WidthAssumption, MaxErrnoAssumption
    DEF Outcomes, Int32, success, IO_UNKNOWN, IO_EOF
  <2>4. size[s] \in Nat
    BY SizesAssumption DEF IInv, TypeOK
  <2> QED BY <2>1, <2>3, <2>4, WidthAssumption
<1> QED BY <1>1, Invariance, PTL

\* However transfers are split and refused, the reader holds a prefix of what the
\* writer's buffer holds, and no byte is under way that the buffer does not hold.
THEOREM InOrderHolds == Spec => []InOrder
<1>1. IInv /\ AccountInv => InOrder
  BY AccountGives
<1> QED BY <1>1, Invariance, PTL

\* A transfer an int32_t can count fails only when the peer stopped or the
\* connection broke.
THEOREM FailureIsRealHolds == Spec => []FailureIsReal
<1>1. IInv => FailureIsReal
  BY DEF IInv
<1> QED BY <1>1, Invariance, PTL

\* No step overwrites a byte read_fully has stored or changes an outcome told.
THEOREM NothingIsUndone == Spec => NothingUndone
<1>1. IInv /\ [Next]_vars => [StepKeeps]_vars
  BY KeepsStep
<1> QED BY <1>1, Invariance, PTL DEF Spec, NothingUndone

\* Every turn of a loop leaves less to move, on a connection of any behaviour: what
\* keeps a transfer from returning is an operation that never ends, not the loop.
THEOREM LoopsAdvance == Spec => TurnsAdvance
<1>1. IInv /\ [Next]_vars => [SpanShrinks]_vars
  BY ShrinkStep
<1> QED BY <1>1, Invariance, PTL DEF Spec, TurnsAdvance

=============================================================================
