---------------------------- MODULE FullTransfer ----------------------------
(***************************************************************************)
(* write_fully on one end of a connection and read_fully on the other, as  *)
(* in the echo test: each loops over partial transfers until its buffer is *)
(* done, the peer is gone or an operation fails, and its caller then       *)
(* closes the socket. Integers have their widths: an operation's length is *)
(* 32 bits wide and its result an int32_t, while buffer sizes are size_t;  *)
(* IntMax stands for the largest int32_t. The connection is external.      *)
(***************************************************************************)
EXTENDS Status, Sequences

CONSTANTS
  IntMax,     \* largest int32_t
  Sizes,      \* buffer sizes of the two callers
  Capacity    \* bytes the connection buffers

Write == "write_fully"
Read == "read_fully"
Sides == {Write, Read}
Peer(s) == IF s = Write THEN Read ELSE Write

ASSUME WidthAssumption == IntMax \in Nat \ {0}
ASSUME SizesAssumption == Sizes \subseteq Nat /\ Capacity \in Nat \ {0}

LenMod == 2 * (IntMax + 1)
\* int32_t(n) for a size_t n.
ToInt32(n) == ((n + IntMax + 1) % LenMod) - (IntMax + 1)
Int32 == -(IntMax + 1)..IntMax

VARIABLES
  size,    \* buffer.size() of each caller
  pc,      \* where each of the two coroutines is
  left,    \* bytes.size(): what remains of the span
  op,      \* the IOResult of the operation just awaited
  out,     \* the IOResult returned to the caller
  stream,  \* bytes in the connection, by their position in the writer's buffer
  memory,  \* what read_fully's buffer holds so far, in the order of its addresses
  broken   \* the connection was reset

vars == <<size, pc, left, op, out, stream, memory, broken>>

Position(s) == size[s] - left[s]

\* What an operation and what a transfer may return.
Answers == (0..IntMax) \cup {-IO_UNKNOWN}
Outcomes == Int32 \cup {-IO_UNKNOWN, -IO_EOF}

TypeOK ==
  /\ size \in [Sides -> Sizes]
  /\ pc \in [Sides -> {"enter", "call", "wait", "check", "returned", "closed"}]
  /\ left \in [Sides -> Nat] /\ \A s \in Sides : left[s] <= size[s]
  /\ op \in [Sides -> Answers]
  /\ out \in [Sides -> Outcomes]
  /\ stream \in Seq(Nat) /\ Len(stream) <= Capacity
  /\ memory \in Seq(Nat) /\ Len(memory) <= size[Read]
  /\ broken \in BOOLEAN

Init ==
  /\ size \in [Sides -> Sizes]
  /\ pc = [s \in Sides |-> "enter"]
  /\ left = size
  /\ op = [s \in Sides |-> 0]
  /\ out = [s \in Sides |-> 0]
  /\ stream = <<>>
  /\ memory = <<>>
  /\ broken = FALSE

Go(s, to) == pc' = [pc EXCEPT ![s] = to]

-----------------------------------------------------------------------------
(* read_fully and write_fully. *)

Return(s, result) == out' = [out EXCEPT ![s] = result] /\ Go(s, "returned")

\* An empty buffer needs no operation.
Enter(s) ==
  /\ pc[s] = "enter"
  /\ IF size[s] = 0 THEN Return(s, OfCount(IO_OK, 0)) ELSE Go(s, "call") /\ UNCHANGED out
  /\ UNCHANGED <<size, left, op, stream, memory, broken>>

\* co_await s.read(bytes) or s.write(bytes).
Call(s) ==
  /\ pc[s] = "call"
  /\ Go(s, "wait")
  /\ UNCHANGED <<size, left, op, out, stream, memory, broken>>

\* The span is trimmed and the loop goes on, or the loop ends.
Trim(s) == left' = [left EXCEPT ![s] = @ - op[s]] /\ Go(s, "call") /\ UNCHANGED out
Done(s, result) == Return(s, result) /\ UNCHANGED left
Whole(s) == OfCount(IO_OK, ToInt32(size[s]))

\* Mutant of Check: the count of the last operation is returned.
CheckLastCount(s) ==
  /\ pc[s] = "check"
  /\ \/ success(op[s]) /\ op[s] \notin {0, left[s]} /\ Trim(s)
     \/ op[s] = 0 /\ Done(s, OfStatus(IO_EOF))
     \/ op[s] # 0 /\ op[s] = left[s] /\ Done(s, op[s])
     \/ ~success(op[s]) /\ Done(s, op[s])
  /\ UNCHANGED <<size, op, stream, memory, broken>>

\* Mutant of Check: the span is not trimmed before the next operation.
CheckUntrimmed(s) ==
  /\ pc[s] = "check"
  /\ \/ success(op[s]) /\ op[s] \notin {0, left[s]} /\ Go(s, "call") /\ UNCHANGED <<out, left>>
     \/ op[s] = 0 /\ Done(s, OfStatus(IO_EOF))
     \/ op[s] # 0 /\ op[s] = left[s] /\ Done(s, Whole(s))
     \/ ~success(op[s]) /\ Done(s, op[s])
  /\ UNCHANGED <<size, op, stream, memory, broken>>

\* Mutant of Check: a short transfer is taken for the end of the stream.
CheckShortIsEof(s) ==
  /\ pc[s] = "check"
  /\ \/ success(op[s]) /\ op[s] # left[s] /\ Done(s, OfStatus(IO_EOF))
     \/ op[s] = left[s] /\ Done(s, Whole(s))
     \/ ~success(op[s]) /\ Done(s, op[s])
  /\ UNCHANGED <<size, op, stream, memory, broken>>

\* Mutant of Check: the case of zero bytes is missing.
CheckNoEof(s) ==
  /\ pc[s] = "check"
  /\ \/ success(op[s]) /\ op[s] # left[s] /\ Trim(s)
     \/ op[s] = left[s] /\ Done(s, Whole(s))
     \/ ~success(op[s]) /\ Done(s, op[s])
  /\ UNCHANGED <<size, op, stream, memory, broken>>

\* The body of the loop after the operation: the span is trimmed, the peer is
\* gone, the buffer is done, or the failed IOResult is passed on.
Check(s) ==
  /\ pc[s] = "check"
  /\ \/ success(op[s]) /\ op[s] \notin {0, left[s]} /\ Trim(s)
     \/ op[s] = 0 /\ Done(s, OfStatus(IO_EOF))
     \/ op[s] # 0 /\ op[s] = left[s] /\ Done(s, Whole(s))
     \/ ~success(op[s]) /\ Done(s, op[s])
  /\ UNCHANGED <<size, op, stream, memory, broken>>

\* The caller closes the socket when the transfer returned.
Close(s) ==
  /\ pc[s] = "returned"
  /\ Go(s, "closed")
  /\ UNCHANGED <<size, left, op, out, stream, memory, broken>>

-----------------------------------------------------------------------------
(* The connection. An operation moves at most the length it was given, which *)
(* is the span's size modulo 2^32, and at most what an int32_t can count.    *)

Length(s) == left[s] % LenMod
Answer(s, result) == op' = [op EXCEPT ![s] = result] /\ Go(s, "check")

Send ==
  /\ pc[Write] = "wait" /\ pc[Read] # "closed" /\ ~broken
  /\ \E n \in 0..Length(Write) :
       /\ n <= IntMax /\ Len(stream) + n <= Capacity
       /\ n = 0 => Length(Write) = 0
       /\ stream' = stream \o [i \in 1..n |-> Position(Write) + i]
       /\ Answer(Write, n)
  /\ UNCHANGED <<size, left, out, memory, broken>>

\* Receiving stores at the position of the trimmed span, whatever was there.
Recv ==
  /\ pc[Read] = "wait" /\ ~broken
  /\ \E n \in 0..Length(Read) :
       /\ n <= IntMax /\ n <= Len(stream)
       /\ n = 0 => Length(Read) = 0 \/ (stream = <<>> /\ pc[Write] = "closed")
       /\ stream' = SubSeq(stream, n + 1, Len(stream))
       /\ memory' = SubSeq(memory, 1, Position(Read)) \o SubSeq(stream, 1, n)
       /\ Answer(Read, n)
  /\ UNCHANGED <<size, left, out, broken>>

\* Sending to a closed peer, or anything on a broken connection, fails; the
\* connection may break at any time.
Refuse(s) ==
  /\ pc[s] = "wait"
  /\ broken \/ (s = Write /\ pc[Read] = "closed")
  /\ Answer(s, OfStatus(IO_UNKNOWN))
  /\ UNCHANGED <<size, left, out, stream, memory, broken>>

Break ==
  /\ ~broken
  /\ broken' = TRUE
  /\ stream' = <<>>
  /\ UNCHANGED <<size, pc, left, op, out, memory>>

-----------------------------------------------------------------------------
Code(s) == Enter(s) \/ Call(s) \/ Check(s) \/ Close(s)

Next == (\E s \in Sides : Code(s) \/ Refuse(s)) \/ Send \/ Recv \/ Break

\* Both coroutines are scheduled and the connection moves bytes when it can.
Fairness ==
  /\ \A s \in Sides : WF_vars(Code(s)) /\ WF_vars(Refuse(s))
  /\ WF_vars(Send) /\ WF_vars(Recv)

Spec == Init /\ [][Next]_vars /\ Fairness

-----------------------------------------------------------------------------
(* Safety *)

Returned(s) == pc[s] \in {"returned", "closed"}

\* A transfer that reports success moved the whole buffer and reports its size,
\* for every buffer size, those an int32_t cannot count included: the reader's
\* buffer is full, and all the writer sent is received or under way.
SuccessIsExact ==
  \A s \in Sides : Returned(s) /\ success(out[s]) =>
    /\ out[s] = size[s]
    /\ s = Read => Len(memory) = size[s]
    /\ s = Write /\ ~broken => Len(memory) + Len(stream) = size[s]

\* Whatever the reader holds is what the writer's buffer holds from its start:
\* partial transfers on either side lose, repeat, reorder and invent nothing.
InOrder ==
  /\ \A i \in 1..Len(memory) : memory[i] = i
  /\ Len(memory) + Len(stream) <= size[Write]

\* A buffer an int32_t can count fails only if the peer stopped or the connection
\* broke: every partial transfer is carried on with. A larger one also fails when all
\* was moved (int32_t(size) is negative) or when its 32-bit length wraps to zero.
FailureIsReal ==
  \A s \in Sides : Returned(s) /\ ~success(out[s]) /\ size[s] <= IntMax =>
    broken \/ Returned(Peer(s))

(* The inductive invariant. *)

\* What an operation that was answered and not looked at yet has moved.
Counted(s) == IF pc[s] = "check" /\ success(op[s]) THEN op[s] ELSE 0

\* An operation is issued for a span that is not empty, and never moves more than
\* the span holds; a span of LenMod bytes or more never gets shorter than that.
SpanInv ==
  \A s \in Sides :
    /\ pc[s] = "enter" => left[s] = size[s]
    /\ pc[s] \in {"call", "wait", "check"} => left[s] > 0
    /\ Counted(s) <= left[s]
    /\ size[s] >= LenMod => left[s] - Counted(s) >= LenMod

\* Until a side returns, what it has moved is where its span starts; the stream
\* holds the bytes between the two positions, unless they were lost.
MovedInv ==
  /\ ~Returned(Read) => Len(memory) = Position(Read) + Counted(Read)
  /\ ~Returned(Write) /\ ~broken =>
       Len(memory) + Len(stream) = Position(Write) + Counted(Write)
  /\ \A i \in 1..Len(stream) : stream[i] = Len(memory) + i

\* An answer that makes a loop fail has its reason.
ReasonInv ==
  \A s \in Sides : pc[s] = "check" /\ op[s] <= 0 /\ size[s] <= IntMax =>
    broken \/ Returned(Peer(s))

\* The reader's part of SuccessIsExact and of InOrder.
FullInv ==
  \A s \in Sides : Returned(s) /\ success(out[s]) =>
    out[s] = size[s] /\ (s = Read => Len(memory) = size[s])
PrefixInv == \A i \in 1..Len(memory) : memory[i] = i

IInv ==
  /\ TypeOK /\ SpanInv /\ MovedInv /\ ReasonInv
  /\ FullInv /\ PrefixInv /\ FailureIsReal

\* What a side has moved, also once it has returned: its span is not trimmed for
\* the last operation.
Moved(s) ==
  Position(s) + IF pc[s] \in {"check", "returned", "closed"} /\ success(op[s]) THEN op[s] ELSE 0

\* What the two sides have moved differs by what the stream holds; only a reset
\* takes bytes out of this account, and nothing puts any in. Inductive under IInv.
AccountInv ==
  /\ \A s \in Sides : Moved(s) <= size[s] /\ (pc[s] = "enter" => op[s] = 0)
  /\ \A s \in Sides : Returned(s) /\ success(out[s]) => Moved(s) = size[s]
  /\ Len(memory) = Moved(Read)
  /\ Len(memory) + Len(stream) <= Moved(Write)
  /\ ~broken => Len(memory) + Len(stream) = Moved(Write)

(* What a step may never do. *)

\* What read_fully has stored is never overwritten or given up, and an outcome its
\* caller was told stands.
StepKeeps ==
  /\ Len(memory) <= Len(memory') /\ \A i \in 1..Len(memory) : memory'[i] = memory[i]
  /\ \A s \in Sides : Returned(s) => Returned(s)' /\ out'[s] = out[s]
NothingUndone == [][StepKeeps]_vars

\* A span never grows, and each turn of a loop makes it shorter: the number of
\* operations a transfer issues is bounded by its size.
SpanShrinks ==
  \A s \in Sides :
    /\ left'[s] <= left[s]
    /\ pc[s] = "check" /\ pc'[s] = "call" => left'[s] < left[s]
TurnsAdvance == [][SpanShrinks]_vars

(* Liveness *)

\* Neither loop runs or waits for ever, however the two sizes relate.
BothReturn == \A s \in Sides : <>Returned(s)

=============================================================================
