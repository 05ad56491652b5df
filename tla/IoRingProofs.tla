---------------------------- MODULE IoRingProofs ----------------------------
(* Proofs about IoRing, for any set of operations and any ring depth. *)
EXTENDS IoRing, SequenceTheorems, TLAPS

(***************************************************************************)
(* The two rings as sequences.                                             *)
(***************************************************************************)

\* ToSet read through positions.
LEMMA InToSet ==
  ASSUME NEW S, NEW s \in Seq(S)
  PROVE  /\ ToSet(s) \subseteq S
         /\ \A x : x \in ToSet(s) <=> \E i \in 1..Len(s) : s[i] = x
BY LenProperties, ElementOfSeq DEF ToSet

\* Injectivity read through positions.
LEMMA InjectiveSeq ==
  ASSUME NEW S, NEW s \in Seq(S)
  PROVE  IsInjective(s) <=> \A i, j \in 1..Len(s) : s[i] = s[j] => i = j
BY LenProperties DEF IsInjective

\* get_sqe adds one entry at the tail of the submission ring.
LEMMA AppendSqe ==
  ASSUME NEW S, NEW s \in Seq(S), NEW x \in S
  PROVE  /\ Append(s, x) \in Seq(S)
         /\ Len(Append(s, x)) = Len(s) + 1
         /\ ToSet(Append(s, x)) = ToSet(s) \cup {x}
         /\ IsInjective(s) /\ x \notin ToSet(s) => IsInjective(Append(s, x))
<1> DEFINE t == Append(s, x)
<1>1. t \in Seq(S) /\ Len(t) = Len(s) + 1 /\ Len(s) \in Nat
  BY AppendProperties, LenProperties
<1>2. \A i \in 1..Len(s) : t[i] = s[i]
  BY AppendProperties
<1>3. t[Len(s) + 1] = x
  BY AppendProperties
<1> HIDE DEF t
<1>4. \A y : y \in ToSet(t) <=> y \in ToSet(s) \cup {x}
  BY <1>1, <1>2, <1>3, InToSet
<1>5. ASSUME IsInjective(s), x \notin ToSet(s) PROVE IsInjective(t)
  <2>1. \A i \in 1..Len(s) : s[i] # x
    BY <1>5, InToSet
  <2>2. \A i, j \in 1..Len(s) : s[i] = s[j] => i = j
    BY <1>5, InjectiveSeq
  <2> QED
    BY <1>1, <1>2, <1>3, <2>1, <2>2, InjectiveSeq
<1> QED
  BY <1>1, <1>4, <1>5 DEF t

\* A submission splits the ring into what the kernel took and what stays.
LEMMA SplitSq ==
  ASSUME NEW S, NEW s \in Seq(S), IsInjective(s), NEW k \in 0..Len(s)
  PROVE  LET taken == SubSeq(s, 1, k)
             left  == SubSeq(s, k + 1, Len(s))
         IN  /\ left \in Seq(S) /\ IsInjective(left)
             /\ Len(left) = Len(s) - k
             /\ ToSet(s) = ToSet(taken) \cup ToSet(left)
             /\ ToSet(taken) \cap ToSet(left) = {}
<1> DEFINE taken == SubSeq(s, 1, k)
           left  == SubSeq(s, k + 1, Len(s))
<1>0. Len(s) \in Nat /\ k \in Nat /\ k <= Len(s)
  BY LenProperties
<1>1. taken \in Seq(S) /\ Len(taken) = k /\ \A i \in 1..k : taken[i] = s[i]
  BY <1>0
<1>2. /\ left \in Seq(S) /\ Len(left) = Len(s) - k
      /\ \A i \in 1..Len(s) - k : left[i] = s[k + i]
  BY <1>0
<1> HIDE DEF taken, left
<1>3. \A i, j \in 1..Len(s) : s[i] = s[j] => i = j
  BY InjectiveSeq
<1>4. IsInjective(left)
  BY <1>0, <1>2, <1>3, InjectiveSeq
<1>5. ASSUME NEW x PROVE x \in ToSet(s) <=> x \in ToSet(taken) \cup ToSet(left)
  <2>1. ASSUME x \in ToSet(s) PROVE x \in ToSet(taken) \cup ToSet(left)
    <3>1. PICK i \in 1..Len(s) : s[i] = x
      BY <2>1, InToSet
    <3>2. CASE i <= k
      BY <1>0, <1>1, <3>1, <3>2, InToSet
    <3>3. CASE i > k
      <4>1. i - k \in 1..Len(left) /\ left[i - k] = x
        BY <1>0, <1>2, <3>1, <3>3
      <4> QED BY <4>1, <1>2, InToSet
    <3> QED BY <1>0, <3>1, <3>2, <3>3
  <2>2. ASSUME x \in ToSet(taken) PROVE x \in ToSet(s)
    BY <1>0, <1>1, <2>2, InToSet
  <2>3. ASSUME x \in ToSet(left) PROVE x \in ToSet(s)
    <3>1. PICK i \in 1..Len(left) : left[i] = x
      BY <1>2, <2>3, InToSet
    <3>2. k + i \in 1..Len(s) /\ s[k + i] = x
      BY <1>0, <1>2, <3>1
    <3> QED BY <3>2, InToSet
  <2> QED BY <2>1, <2>2, <2>3
<1>6. ASSUME NEW x, x \in ToSet(taken), x \in ToSet(left) PROVE FALSE
  <2>1. PICK i \in 1..k : s[i] = x
    BY <1>1, <1>6, InToSet
  <2>2. PICK j \in 1..Len(s) - k : s[k + j] = x
    BY <1>2, <1>6, InToSet
  <2> QED BY <1>0, <1>3, <2>1, <2>2
<1> QED
  BY <1>2, <1>4, <1>5, <1>6 DEF taken, left

\* wait_one works on the head of the completion ring.
LEMMA HeadCqe ==
  ASSUME NEW S, NEW q \in Seq(S), q # <<>>
  PROVE  /\ Head(q) \in S /\ Head(q) = q[1] /\ Len(q) \in Nat \ {0}
         /\ Tail(q) \in Seq(S) /\ Len(Tail(q)) = Len(q) - 1
         /\ \A i \in 1..Len(q) - 1 : Tail(q)[i] = q[i + 1]
         /\ OpsOf(q) = {Head(q).op} \cup OpsOf(Tail(q))
         /\ OneCqePerOp(q) =>
              OneCqePerOp(Tail(q)) /\ Head(q).op \notin OpsOf(Tail(q))
<1> DEFINE h == Head(q)
           t == Tail(q)
<1>1. h \in S /\ h = q[1] /\ Len(q) \in Nat \ {0}
  BY HeadTailProperties, EmptySeq, LenProperties, ElementOfSeq
<1>2. /\ t \in Seq(S) /\ Len(t) = Len(q) - 1
      /\ \A i \in 1..Len(q) - 1 : t[i] = q[i + 1]
  BY HeadTailProperties
<1> HIDE DEF h, t
<1>3. ASSUME NEW x PROVE x \in OpsOf(q) <=> x \in {h.op} \cup OpsOf(t)
  <2>1. ASSUME NEW i \in 1..Len(q), q[i].op = x PROVE x \in {h.op} \cup OpsOf(t)
    <3>1. CASE i = 1
      BY <1>1, <2>1, <3>1
    <3>2. CASE i > 1
      <4>1. i - 1 \in 1..Len(t) /\ t[i - 1] = q[i]
        BY <1>1, <1>2, <3>2
      <4> QED BY <2>1, <4>1 DEF OpsOf
    <3> QED BY <3>1, <3>2
  <2>2. ASSUME NEW i \in 1..Len(t), t[i].op = x PROVE x \in OpsOf(q)
    <3>1. i + 1 \in 1..Len(q) /\ q[i + 1] = t[i]
      BY <1>1, <1>2
    <3> QED BY <2>2, <3>1 DEF OpsOf
  <2>3. h.op \in OpsOf(q)
    BY <1>1 DEF OpsOf
  <2> QED BY <2>1, <2>2, <2>3 DEF OpsOf
<1>4. ASSUME OneCqePerOp(q) PROVE OneCqePerOp(t) /\ h.op \notin OpsOf(t)
  BY <1>1, <1>2, <1>4 DEF OneCqePerOp, OpsOf
<1> QED BY <1>1, <1>2, <1>3, <1>4 DEF h, t

\* The completion ring names operations only.
LEMMA OpsOfSubset ==
  ASSUME NEW S, NEW R, NEW q \in Seq([op : S, res : R])
  PROVE  OpsOf(q) \subseteq S
<1> \A i \in 1..Len(q) : q[i] \in [op : S, res : R]
  BY ElementOfSeq
<1> QED BY DEF OpsOf

\* The kernel posts at the tail of the completion ring.
LEMMA AppendCqe ==
  ASSUME NEW S, NEW q \in Seq(S), NEW e \in S
  PROVE  /\ Append(q, e) \in Seq(S)
         /\ Len(q) \in Nat /\ Len(Append(q, e)) = Len(q) + 1
         /\ \A i \in 1..Len(q) : Append(q, e)[i] = q[i]
         /\ Append(q, e)[Len(q) + 1] = e /\ Append(q, e) # <<>>
         /\ \A i \in 1..Len(q) : q[i].op \in OpsOf(q)
         /\ OpsOf(Append(q, e)) = OpsOf(q) \cup {e.op}
         /\ OneCqePerOp(q) /\ e.op \notin OpsOf(q) => OneCqePerOp(Append(q, e))
         /\ q # <<>> => /\ Head(Append(q, e)) = Head(q)
                        /\ OpsOf(Tail(Append(q, e))) = OpsOf(Tail(q)) \cup {e.op}
<1> DEFINE p == Append(q, e)
<1>1. /\ p \in Seq(S) /\ Len(q) \in Nat /\ Len(p) = Len(q) + 1
      /\ \A i \in 1..Len(q) : p[i] = q[i]
      /\ p[Len(q) + 1] = e /\ p # <<>>
  BY AppendProperties, LenProperties
<1> HIDE DEF p
<1>2. \A i \in 1..Len(q) : q[i].op \in OpsOf(q)
  BY DEF OpsOf
<1>3. OpsOf(p) = OpsOf(q) \cup {e.op}
  <2>1. OpsOf(p) \subseteq OpsOf(q) \cup {e.op}
    BY <1>1 DEF OpsOf
  <2>2. OpsOf(q) \subseteq OpsOf(p)
    <3> SUFFICES ASSUME NEW i \in 1..Len(q) PROVE q[i].op \in OpsOf(p)
      BY DEF OpsOf
    <3> i \in 1..Len(p) /\ p[i] = q[i]
      BY <1>1
    <3> QED BY DEF OpsOf
  <2>3. e.op \in OpsOf(p)
    <3> Len(q) + 1 \in 1..Len(p)
      BY <1>1
    <3> QED BY <1>1 DEF OpsOf
  <2> QED BY <2>1, <2>2, <2>3
<1>4. ASSUME OneCqePerOp(q), e.op \notin OpsOf(q) PROVE OneCqePerOp(p)
  BY <1>1, <1>2, <1>4 DEF OneCqePerOp
<1>5. ASSUME q # <<>>
      PROVE  Head(p) = Head(q) /\ OpsOf(Tail(p)) = OpsOf(Tail(q)) \cup {e.op}
  <2>1. /\ Head(q) = q[1] /\ Len(q) \in Nat \ {0} /\ Len(Tail(q)) = Len(q) - 1
        /\ \A i \in 1..Len(q) - 1 : Tail(q)[i] = q[i + 1]
    BY <1>5, HeadCqe
  <2>2. /\ Head(p) = p[1] /\ Len(Tail(p)) = Len(q)
        /\ \A i \in 1..Len(q) : Tail(p)[i] = p[i + 1]
    BY <1>1, HeadCqe
  <2>3. Head(p) = Head(q)
    BY <1>1, <2>1, <2>2
  <2>4. OpsOf(Tail(p)) \subseteq OpsOf(Tail(q)) \cup {e.op}
    <3> SUFFICES ASSUME NEW i \in 1..Len(q)
                 PROVE Tail(p)[i].op \in OpsOf(Tail(q)) \cup {e.op}
      BY <2>2 DEF OpsOf
    <3>1. CASE i = Len(q)
      BY <1>1, <2>2, <3>1
    <3>2. CASE i < Len(q)
      <4>1. i \in 1..Len(Tail(q)) /\ Tail(p)[i] = Tail(q)[i]
        BY <1>1, <2>1, <2>2, <3>2
      <4> QED BY <4>1 DEF OpsOf
    <3> QED BY <1>1, <3>1, <3>2
  <2>5. OpsOf(Tail(q)) \subseteq OpsOf(Tail(p))
    <3> SUFFICES ASSUME NEW i \in 1..Len(q) - 1
                 PROVE Tail(q)[i].op \in OpsOf(Tail(p))
      BY <2>1 DEF OpsOf
    <3>1. i \in 1..Len(Tail(p)) /\ Tail(p)[i] = Tail(q)[i]
      BY <1>1, <2>1, <2>2
    <3> QED BY <3>1 DEF OpsOf
  <2>6. e.op \in OpsOf(Tail(p))
    <3>1. Len(q) \in 1..Len(Tail(p)) /\ Tail(p)[Len(q)] = e
      BY <1>1, <2>1, <2>2
    <3> QED BY <3>1 DEF OpsOf
  <2> QED BY <2>3, <2>4, <2>5, <2>6
<1> QED BY <1>1, <1>2, <1>3, <1>4, <1>5 DEF p

(***************************************************************************)
(* IInv is inductive: one lemma per action, one step per conjunct.         *)
(***************************************************************************)

USE DEF Go, submitVars, kernelVars, awaitVars

\* An answered operation is neither in the submission ring nor in the kernel.
LEMMA CqeAnswered ==
  ASSUME IInv
  PROVE  /\ OpsOf(cq) \subseteq Ops
         /\ \A o \in OpsOf(cq) :
              res[o] \in Results /\ res[o] # NoResult
              /\ o \notin inflight /\ o \notin ToSet(sq)
<1>1. OpsOf(cq) \subseteq Ops
  BY OpsOfSubset DEF IInv, TypeOK
<1>2. \A i \in 1..Len(cq) : cq[i] \in [op : Ops, res : Results]
  BY ElementOfSeq DEF IInv, TypeOK
<1>3. ASSUME NEW o \in OpsOf(cq) PROVE res[o] \in Results
  BY <1>2, <1>3 DEF OpsOf, IInv, CqInv
<1> QED
  BY <1>1, <1>3, ResultsAssumption DEF IInv, SqInv, InflightInv

\* Both rings name operations only.
LEMMA RingOps ==
  ASSUME IInv
  PROVE  ToSet(sq) \subseteq Ops /\ Unreleased \subseteq Ops
<1>1. ToSet(sq) \subseteq Ops
  BY InToSet DEF IInv, TypeOK
<1>2. OpsOf(cq) \subseteq Ops
  BY OpsOfSubset DEF IInv, TypeOK
<1>3. ASSUME cq # <<>> PROVE OpsOf(Tail(cq)) \subseteq Ops
  <2> DEFINE Cqes == [op : Ops, res : Results]
  <2>1. cq \in Seq(Cqes)
    BY DEF IInv, TypeOK
  <2> HIDE DEF Cqes
  <2>2. OpsOf(cq) = {Head(cq).op} \cup OpsOf(Tail(cq))
    BY <1>3, <2>1, HeadCqe
  <2> QED BY <1>2, <2>2
<1> QED
  BY <1>1, <1>2, <1>3 DEF IInv, CqInv, Unreleased

\* Until its pull, the CQE wait_one works on belongs to a waiting operation.
LEMMA HeadUnreleased ==
  ASSUME IInv, cq # <<>>
  PROVE  /\ Head(cq) \in [op : Ops, res : Results] /\ Head(cq).op \in OpsOf(cq)
         /\ Head(cq).res = res[Head(cq).op] /\ Head(cq).op \notin OpsOf(Tail(cq))
         /\ wpc # "seen" => /\ Unreleased = {Head(cq).op} \cup OpsOf(Tail(cq))
                            /\ phase[Head(cq).op] \in {"unlock", "issued", "suspended"}
                            /\ trig[Head(cq).op] # "pulled"
<1> DEFINE Cqes == [op : Ops, res : Results]
<1>1. cq \in Seq(Cqes) /\ OneCqePerOp(cq)
  BY DEF IInv, TypeOK, CqInv
<1> HIDE DEF Cqes
<1>2. /\ Head(cq) \in Cqes /\ Head(cq) = cq[1]
      /\ Len(cq) \in Nat \ {0} /\ OpsOf(cq) = {Head(cq).op} \cup OpsOf(Tail(cq))
      /\ Head(cq).op \notin OpsOf(Tail(cq))
  BY <1>1, HeadCqe
<1>3. Head(cq).res = res[Head(cq).op]
  BY <1>2 DEF IInv, CqInv
<1> QED
  BY <1>2, <1>3 DEF IInv, CqInv, Unreleased, Cqes

\* Taking the lock preserves the invariant.
LEMMA AcquireInv ==
  ASSUME IInv, NEW o \in Ops, Acquire(o)
  PROVE  IInv'
<1> USE DEF IInv, Acquire
<1>1. TypeOK'
  BY DEF TypeOK, Phases
<1>2. LockInv'
  BY OpsAssumption DEF TypeOK, LockInv, Critical
<1>3. SqInv'
  BY DEF TypeOK, SqInv
<1>4. ShortInv'
  BY DEF TypeOK, ShortInv
<1>5. InflightInv'
  BY DEF TypeOK, InflightInv
<1>6. CqInv'
  BY DEF TypeOK, CqInv, Unreleased
<1>7. TrigInv'
  BY DEF TypeOK, TrigInv
<1>8. PendingInv'
  BY DEF TypeOK, PendingInv, Unreleased
<1>9. FreshInv'
  BY DEF TypeOK, FreshInv
<1> QED BY <1>1, <1>2, <1>3, <1>4, <1>5, <1>6, <1>7, <1>8, <1>9

\* Acquiring an SQE preserves the invariant.
LEMMA GetSqeInv ==
  ASSUME IInv, NEW o \in Ops, GetSqe(o)
  PROVE  IInv'
<1> USE DEF IInv, GetSqe
<1>a. o \notin ToSet(sq)
  BY DEF SqInv
<1>b. /\ Append(sq, o) \in Seq(Ops) /\ Len(Append(sq, o)) = Len(sq) + 1
      /\ ToSet(Append(sq, o)) = ToSet(sq) \cup {o} /\ IsInjective(Append(sq, o))
      /\ Len(sq) \in Nat
  BY <1>a, AppendSqe, LenProperties DEF TypeOK, SqInv
<1>1. TypeOK'
  BY <1>b DEF TypeOK, Phases
<1>2. LockInv'
  BY DEF TypeOK, LockInv, Critical
<1>3. SqInv'
  BY <1>a, <1>b DEF TypeOK, SqInv, InflightInv, FreshInv, TrigInv
<1>4. ShortInv'
  BY <1>b DEF TypeOK, ShortInv, LockInv, Critical
<1>5. InflightInv'
  BY DEF TypeOK, InflightInv
<1>6. CqInv'
  BY DEF TypeOK, CqInv, Unreleased
<1>7. TrigInv'
  BY DEF TypeOK, TrigInv
<1>8. PendingInv'
  BY <1>b DEF TypeOK, PendingInv, Unreleased
<1>9. FreshInv'
  BY DEF TypeOK, FreshInv
<1> QED BY <1>1, <1>2, <1>3, <1>4, <1>5, <1>6, <1>7, <1>8, <1>9

\* Filling the SQE preserves the invariant.
LEMMA PackArgsInv ==
  ASSUME IInv, NEW o \in Ops, PackArgs(o)
  PROVE  IInv'
<1> USE DEF IInv, PackArgs
<1>1. TypeOK'
  BY DEF TypeOK, Phases, ArgStorage
<1>2. LockInv'
  BY DEF TypeOK, LockInv, Critical
<1>3. SqInv'
  BY DEF TypeOK, SqInv
<1>4. ShortInv'
  BY DEF TypeOK, ShortInv
<1>5. InflightInv'
  BY DEF TypeOK, InflightInv
<1>6. CqInv'
  BY DEF TypeOK, CqInv, Unreleased
<1>7. TrigInv'
  BY DEF TypeOK, TrigInv
<1>8. PendingInv'
  BY DEF TypeOK, PendingInv, Unreleased
<1>9. FreshInv'
  BY DEF TypeOK, FreshInv
<1> QED BY <1>1, <1>2, <1>3, <1>4, <1>5, <1>6, <1>7, <1>8, <1>9

\* Submitting preserves the invariant.
LEMMA SubmitInv ==
  ASSUME IInv, NEW o \in Ops, Submit(o)
  PROVE  IInv'
<1> USE DEF IInv, Submit
<1>a. \A p \in Ops : phase[p] \in {"prep", "submit"} => p = o
  BY DEF LockInv, Critical
<1>b. PICK k \in 0..Len(sq) :
        /\ k < Len(sq) => short < MaxShort
        /\ inflight' = inflight \cup ToSet(SubSeq(sq, 1, k))
        /\ sq' = SubSeq(sq, k + 1, Len(sq))
        /\ short' = IF k = Len(sq) THEN 0 ELSE short + 1
  OBVIOUS
<1>c. /\ sq' \in Seq(Ops) /\ IsInjective(sq') /\ Len(sq') = Len(sq) - k
      /\ ToSet(sq) = ToSet(SubSeq(sq, 1, k)) \cup ToSet(sq')
      /\ ToSet(SubSeq(sq, 1, k)) \cap ToSet(sq') = {}
      /\ ToSet(sq) \subseteq Ops
  <2>1. sq \in Seq(Ops) /\ IsInjective(sq)
    BY DEF TypeOK, SqInv
  <2>2. sq' = SubSeq(sq, k + 1, Len(sq))
    BY <1>b
  <2> QED BY <2>1, <2>2, SplitSq, InToSet
<1>d. Len(sq) \in Nat /\ k \in 0..Len(sq)
  BY <1>b, LenProperties DEF TypeOK
<1>1. TypeOK'
  BY <1>b, <1>c, <1>d, DepthAssumption DEF TypeOK, Phases
<1>2. LockInv'
  BY DEF TypeOK, LockInv, Critical
<1>3. SqInv'
  BY <1>a, <1>b, <1>c DEF TypeOK, SqInv, LockInv, Critical
<1>4. ShortInv'
  BY <1>b, <1>c, <1>d DEF TypeOK, ShortInv
<1>5. InflightInv'
  BY <1>a, <1>b, <1>c DEF TypeOK, InflightInv, SqInv, LockInv, Critical
<1>6. CqInv'
  BY DEF TypeOK, CqInv, Unreleased
<1>7. TrigInv'
  BY DEF TypeOK, TrigInv
<1>8. PendingInv'
  BY <1>b, <1>c DEF TypeOK, PendingInv, SqInv, Unreleased
<1>9. FreshInv'
  BY DEF TypeOK, FreshInv
<1> QED BY <1>1, <1>2, <1>3, <1>4, <1>5, <1>6, <1>7, <1>8, <1>9

\* Releasing the lock preserves the invariant.
LEMMA UnlockInv ==
  ASSUME IInv, NEW o \in Ops, Unlock(o)
  PROVE  IInv'
<1> USE DEF IInv, Unlock
<1>1. TypeOK'
  BY DEF TypeOK, Phases
<1>2. LockInv'
  BY OpsAssumption DEF TypeOK, LockInv, Critical
<1>3. SqInv'
  BY DEF TypeOK, SqInv
<1>4. ShortInv'
  BY DEF TypeOK, ShortInv
<1>5. InflightInv'
  BY DEF TypeOK, InflightInv
<1>6. CqInv'
  BY DEF TypeOK, CqInv, Unreleased
<1>7. TrigInv'
  BY DEF TypeOK, TrigInv
<1>8. PendingInv'
  BY DEF TypeOK, PendingInv, Unreleased
<1>9. FreshInv'
  BY DEF TypeOK, FreshInv
<1> QED BY <1>1, <1>2, <1>3, <1>4, <1>5, <1>6, <1>7, <1>8, <1>9

\* Suspending, or going on at once, preserves the invariant.
LEMMA AwaitInv ==
  ASSUME IInv, NEW o \in Ops, Await(o)
  PROVE  IInv'
<1> USE DEF IInv, Await
<1>1. TypeOK'
  BY DEF TypeOK, Phases
<1>2. LockInv'
  BY DEF TypeOK, LockInv, Critical
<1>3. SqInv'
  BY RingOps DEF TypeOK, SqInv
<1>4. ShortInv'
  BY DEF TypeOK, ShortInv
<1>5. InflightInv'
  BY DEF TypeOK, InflightInv
<1>6. CqInv'
  <2>1. Unreleased' = Unreleased /\ Unreleased \subseteq Ops
    BY RingOps DEF Unreleased
  <2>2. wpc # "store" => cq # <<>> /\ Head(cq).op \in Ops
    BY HeadUnreleased DEF CqInv
  <2> QED BY <2>1, <2>2 DEF TypeOK, CqInv
<1>7. TrigInv'
  BY DEF TypeOK, TrigInv
<1>8. PendingInv'
  BY DEF TypeOK, PendingInv, Unreleased
<1>9. FreshInv'
  BY DEF TypeOK, FreshInv
<1> QED BY <1>1, <1>2, <1>3, <1>4, <1>5, <1>6, <1>7, <1>8, <1>9

\* Resuming the coroutine preserves the invariant.
LEMMA ResumeInv ==
  ASSUME IInv, NEW o \in Ops, Resume(o)
  PROVE  IInv'
<1> USE DEF IInv, Resume
<1>1. TypeOK'
  BY DEF TypeOK, Phases
<1>2. LockInv'
  BY DEF TypeOK, LockInv, Critical
<1>3. SqInv'
  BY DEF TypeOK, SqInv
<1>4. ShortInv'
  BY DEF TypeOK, ShortInv
<1>5. InflightInv'
  BY DEF TypeOK, InflightInv
<1>6. CqInv'
  BY DEF TypeOK, CqInv, Unreleased
<1>7. TrigInv'
  BY DEF TypeOK, TrigInv
<1>8. PendingInv'
  BY DEF TypeOK, PendingInv, Unreleased
<1>9. FreshInv'
  BY DEF TypeOK, FreshInv
<1> QED BY <1>1, <1>2, <1>3, <1>4, <1>5, <1>6, <1>7, <1>8, <1>9

\* A completion preserves the invariant.
LEMMA CompleteInv ==
  ASSUME IInv, NEW o \in Ops, Complete(o)
  PROVE  IInv'
<1> USE DEF IInv, Complete
<1>a. /\ phase[o] \in {"unlock", "issued", "suspended"} /\ trig[o] # "pulled"
      /\ o \notin OpsOf(cq)
  BY CqeAnswered DEF InflightInv
<1>b. PICK r \in Results :
        res' = [res EXCEPT ![o] = r] /\ cq' = Append(cq, [op |-> o, res |-> r])
  OBVIOUS
<1> DEFINE e == [op |-> o, res |-> r]
<1>c. /\ cq' \in Seq([op : Ops, res : Results]) /\ Len(cq) \in Nat
      /\ Len(cq') = Len(cq) + 1 /\ cq'[Len(cq) + 1] = e
      /\ \A i \in 1..Len(cq) : cq'[i] = cq[i] /\ cq[i].op \in OpsOf(cq)
      /\ cq' # <<>> /\ OpsOf(cq') = OpsOf(cq) \cup {o}
      /\ OneCqePerOp(cq) /\ o \notin OpsOf(cq) => OneCqePerOp(cq')
      /\ cq # <<>> => /\ Head(cq') = Head(cq)
                      /\ OpsOf(Tail(cq')) = OpsOf(Tail(cq)) \cup {o}
  <2> DEFINE Cqes == [op : Ops, res : Results]
  <2>1. cq \in Seq(Cqes) /\ e \in Cqes /\ cq' = Append(cq, e) /\ e.op = o
    BY <1>b DEF TypeOK
  <2> HIDE DEF e, Cqes
  <2>2. /\ cq' \in Seq(Cqes) /\ Len(cq) \in Nat
        /\ Len(cq') = Len(cq) + 1 /\ cq'[Len(cq) + 1] = e
        /\ \A i \in 1..Len(cq) : cq'[i] = cq[i] /\ cq[i].op \in OpsOf(cq)
        /\ cq' # <<>> /\ OpsOf(cq') = OpsOf(cq) \cup {e.op}
        /\ OneCqePerOp(cq) /\ e.op \notin OpsOf(cq) => OneCqePerOp(cq')
        /\ cq # <<>> => /\ Head(cq') = Head(cq)
                        /\ OpsOf(Tail(cq')) = OpsOf(Tail(cq)) \cup {e.op}
    BY <2>1, AppendCqe
  <2> QED BY <2>1, <2>2 DEF Cqes
<1>d. Unreleased' = Unreleased \cup {o}
  BY <1>c DEF CqInv, Unreleased
<1>1. TypeOK'
  BY <1>b DEF TypeOK, Phases
<1>2. LockInv'
  BY DEF TypeOK, LockInv, Critical
<1>3. SqInv'
  BY <1>a, <1>b DEF TypeOK, SqInv
<1>4. ShortInv'
  BY DEF TypeOK, ShortInv
<1>5. InflightInv'
  BY <1>a, <1>b DEF TypeOK, InflightInv
<1>6. CqInv'
  <2>1. OneCqePerOp(cq')
    BY <1>a, <1>b, <1>c DEF CqInv
  <2>2. ASSUME NEW i \in 1..Len(cq') PROVE cq'[i].res = res'[cq'[i].op]
    BY <1>a, <1>b, <1>c DEF CqInv, TypeOK
  <2>3. ASSUME NEW p \in Unreleased'
        PROVE  phase'[p] \in {"unlock", "issued", "suspended"} /\ trig'[p] # "pulled"
    BY <1>a, <1>d DEF CqInv
  <2>4. /\ wpc' # "store" => cq' # <<>> /\ mresult'[Head(cq').op] = Head(cq').res
        /\ wpc' = "seen" => trig'[Head(cq').op] = "pulled"
    BY <1>c DEF CqInv
  <2> QED BY <2>1, <2>2, <2>3, <2>4 DEF CqInv
<1>7. TrigInv'
  BY <1>a, <1>b DEF TypeOK, TrigInv
<1>8. PendingInv'
  BY <1>d DEF TypeOK, PendingInv, Unreleased
<1>9. FreshInv'
  BY <1>a, <1>b DEF TypeOK, FreshInv
<1> QED BY <1>1, <1>2, <1>3, <1>4, <1>5, <1>6, <1>7, <1>8, <1>9

\* Storing the result preserves the invariant.
LEMMA StoreResultInv ==
  ASSUME IInv, StoreResult
  PROVE  IInv'
<1> USE DEF IInv, StoreResult
<1>1. TypeOK'
  BY HeadUnreleased DEF TypeOK, Phases
<1>2. LockInv'
  BY DEF TypeOK, LockInv, Critical
<1>3. SqInv'
  BY DEF TypeOK, SqInv
<1>4. ShortInv'
  BY DEF TypeOK, ShortInv
<1>5. InflightInv'
  BY DEF TypeOK, InflightInv
<1>6. CqInv'
  BY HeadUnreleased DEF TypeOK, CqInv, Unreleased
<1>7. TrigInv'
  BY HeadUnreleased DEF TypeOK, TrigInv
<1>8. PendingInv'
  BY DEF TypeOK, PendingInv, Unreleased
<1>9. FreshInv'
  BY DEF TypeOK, FreshInv
<1> QED BY <1>1, <1>2, <1>3, <1>4, <1>5, <1>6, <1>7, <1>8, <1>9

\* Pulling the trigger preserves the invariant.
LEMMA PullInv ==
  ASSUME IInv, Pull
  PROVE  IInv'
<1> USE DEF IInv, Pull, PullTrigger
<1> DEFINE h == Head(cq).op
<1>a. cq # <<>> /\ mresult[h] = Head(cq).res
  BY DEF CqInv
<1>b. /\ h \in Ops /\ res[h] # NoResult /\ Head(cq).res = res[h]
      /\ h \notin inflight /\ h \notin ToSet(sq) /\ mresult[h] = res[h]
      /\ phase[h] \in {"unlock", "issued", "suspended"} /\ trig[h] # "pulled"
      /\ Unreleased = {h} \cup Unreleased' /\ h \notin Unreleased'
  BY <1>a, HeadUnreleased, CqeAnswered DEF Unreleased
<1>c. /\ trig' = [trig EXCEPT ![h] = "pulled"] /\ wpc' = "seen"
      /\ IF trig[h] = "trapped" THEN phase' = [phase EXCEPT ![h] = "ready"]
                                ELSE phase' = phase
      /\ UNCHANGED <<sq, arg, lock, short, inflight, res, cq, mresult, seen>>
  OBVIOUS
<1> HIDE DEF h
<1>1. TypeOK'
  BY <1>b, <1>c DEF TypeOK, Phases
<1>2. LockInv'
  BY <1>b, <1>c DEF TypeOK, LockInv, TrigInv, Critical
<1>3. SqInv'
  BY <1>b, <1>c, RingOps DEF TypeOK, SqInv, TrigInv
<1>4. ShortInv'
  BY <1>b, <1>c DEF TypeOK, ShortInv, TrigInv
<1>5. InflightInv'
  BY <1>b, <1>c DEF TypeOK, InflightInv, TrigInv
<1>6. CqInv'
  BY <1>a, <1>b, <1>c, RingOps DEF TypeOK, CqInv, TrigInv, h, Unreleased
<1>7. TrigInv'
  BY <1>b, <1>c DEF TypeOK, TrigInv, CqInv
<1>8. PendingInv'
  BY <1>b, <1>c DEF TypeOK, PendingInv, Unreleased
<1>9. FreshInv'
  BY <1>b, <1>c DEF TypeOK, FreshInv
<1> QED BY <1>1, <1>2, <1>3, <1>4, <1>5, <1>6, <1>7, <1>8, <1>9

\* Releasing the CQE preserves the invariant.
LEMMA SeenInv ==
  ASSUME IInv, Seen
  PROVE  IInv'
<1> USE DEF IInv, Seen
<1>a. /\ cq # <<>> /\ cq' \in Seq([op : Ops, res : Results])
      /\ Len(cq) \in Nat /\ Len(cq') = Len(cq) - 1 /\ OneCqePerOp(cq')
      /\ \A i \in 1..Len(cq') : cq'[i] = cq[i + 1] /\ i + 1 \in 1..Len(cq)
  BY HeadCqe, LenProperties DEF TypeOK, CqInv
<1>1. TypeOK'
  BY <1>a DEF TypeOK, Phases
<1>2. LockInv'
  BY DEF TypeOK, LockInv, Critical
<1>3. SqInv'
  BY DEF TypeOK, SqInv
<1>4. ShortInv'
  BY DEF TypeOK, ShortInv
<1>5. InflightInv'
  BY DEF TypeOK, InflightInv
<1>6. CqInv'
  BY <1>a DEF TypeOK, CqInv, Unreleased
<1>7. TrigInv'
  BY DEF TypeOK, TrigInv
<1>8. PendingInv'
  BY DEF TypeOK, PendingInv, Unreleased
<1>9. FreshInv'
  BY DEF TypeOK, FreshInv
<1> QED BY <1>1, <1>2, <1>3, <1>4, <1>5, <1>6, <1>7, <1>8, <1>9

(***************************************************************************)
(* The invariant and what follows from it, for every behaviour of Spec.    *)
(***************************************************************************)

\* The empty ring satisfies the invariant.
LEMMA InitIInv == Init => IInv
<1> SUFFICES ASSUME Init PROVE IInv
  OBVIOUS
<1> USE DEF Init
<1>1. ToSet(sq) = {} /\ IsInjective(sq) /\ Len(sq) = 0 /\ sq \in Seq(Ops)
  BY DEF ToSet, IsInjective
<1>2. Unreleased = {} /\ OneCqePerOp(cq)
  BY DEF Unreleased, OpsOf, OneCqePerOp
<1>3. cq \in Seq([op : Ops, res : Results])
  OBVIOUS
<1>4. TypeOK
  BY <1>1, <1>3, DepthAssumption DEF TypeOK, Phases
<1>5. LockInv
  BY OpsAssumption DEF LockInv, Critical
<1>6. SqInv /\ ShortInv /\ InflightInv
  BY <1>1 DEF SqInv, ShortInv, InflightInv
<1>7. CqInv
  BY <1>2 DEF CqInv
<1>8. TrigInv /\ PendingInv /\ FreshInv
  BY DEF TrigInv, PendingInv, FreshInv
<1> QED BY <1>4, <1>5, <1>6, <1>7, <1>8 DEF IInv

\* Every step preserves the invariant.
LEMMA NextIInv == IInv /\ [Next]_vars => IInv'
<1> SUFFICES ASSUME IInv, [Next]_vars PROVE IInv'
  OBVIOUS
<1>1. ASSUME NEW o \in Ops, IoPlain(o) PROVE IInv'
  BY <1>1, AcquireInv, GetSqeInv, PackArgsInv, SubmitInv, UnlockInv DEF IoPlain
<1>2. ASSUME NEW o \in Ops, Await(o) \/ Resume(o) \/ Complete(o) PROVE IInv'
  BY <1>2, AwaitInv, ResumeInv, CompleteInv
<1>3. ASSUME WaitOne PROVE IInv'
  BY <1>3, StoreResultInv, PullInv, SeenInv DEF WaitOne
<1>4. ASSUME UNCHANGED vars PROVE IInv'
  BY <1>4 DEF vars, IInv, TypeOK, LockInv, SqInv, ShortInv, InflightInv, CqInv,
              TrigInv, PendingInv, FreshInv, Unreleased
<1> QED BY <1>1, <1>2, <1>3, <1>4 DEF Next

\* The inductive invariant holds in every reachable state: the two rings, the
\* kernel and the await objects agree on where each operation is.
THEOREM Invariance == Spec => []IInv
BY InitIInv, NextIInv, PTL DEF Spec

\* Every variable keeps its type; in particular m_result holds a kernel result.
THEOREM TypeCorrect == Spec => []TypeOK
<1>1. IInv => TypeOK
  BY DEF IInv
<1> QED BY <1>1, Invariance, PTL

\* io_plain and io_message never let the kernel see an SQE another thread is
\* still filling, for any number of submitters and any pattern of short submits.
THEOREM WholeSubmissions == Spec => []NoTornSubmit
<1>1. IInv => NoTornSubmit
  <2> SUFFICES ASSUME IInv, NEW o \in inflight \cup OpsOf(cq)
               PROVE  phase[o] \notin {"new", "get", "prep"}
    BY DEF NoTornSubmit
  <2>1. CASE o \in inflight
    BY <2>1 DEF IInv, InflightInv
  <2>2. CASE o \in OpsOf(cq)
    BY <2>2, CqeAnswered, OpsAssumption DEF IInv, FreshInv
  <2> QED BY <2>1, <2>2
<1> QED BY <1>1, Invariance, PTL

\* get_sqe never spins on a full ring as long as fewer consecutive submissions
\* are short than the ring has entries.
THEOREM RingHasRoom == ASSUME MaxShort < QueueDepth PROVE Spec => []SqeAvailable
<1>1. IInv => SqeAvailable
  <2> SUFFICES ASSUME IInv, NEW o \in Ops, phase[o] = "get" PROVE Len(sq) < QueueDepth
    BY DEF SqeAvailable
  <2>1. \A p \in Ops : phase[p] \notin {"prep", "submit"}
    BY DEF IInv, LockInv, Critical
  <2>2. Len(sq) <= short /\ Len(sq) \in Nat
    BY <2>1, LenProperties DEF IInv, ShortInv, TypeOK
  <2> QED BY <2>2, DepthAssumption DEF IInv, TypeOK
<1> QED BY <1>1, Invariance, PTL

\* Dropping the result of io_uring_submit leaves no more operations in the ring than
\* submissions in a row fell short; a complete one takes all of them along.
THEOREM LeftByShortSubmissions == Spec => []OnlyShortLeavesSqes
<1>1. IInv => OnlyShortLeavesSqes
  <2> SUFFICES ASSUME IInv, lock = NoOp PROVE Len(sq) <= short
    BY DEF OnlyShortLeavesSqes
  <2>1. \A o \in Ops : phase[o] \notin {"prep", "submit"}
    BY OpsAssumption DEF IInv, LockInv, Critical
  <2> QED BY <2>1 DEF IInv, ShortInv
<1> QED BY <1>1, Invariance, PTL

\* Whatever an SQE left in the ring points to is still there when a later
\* submission hands it to the kernel.
THEOREM ArgumentsSurvive == Spec => []ArgsOutliveQueue
<1>1. IInv => ArgsOutliveQueue
  BY DEF IInv, SqInv, ArgsOutliveQueue, Alive, ArgStorage, Critical
<1> QED BY <1>1, Invariance, PTL

\* The coroutine reads the kernel's answer to its own operation.
THEOREM ResultsDelivered == Spec => []ResultIsKernels
<1>1. IInv => ResultIsKernels
  BY DEF IInv, TrigInv, ResultIsKernels
<1> QED BY <1>1, Invariance, PTL

\* The completion thread never touches a destroyed await object.
THEOREM AwaitOutlivesCqe == Spec => []NoUseAfterFree
<1>1. IInv => NoUseAfterFree
  BY DEF IInv, CqInv, NoUseAfterFree
<1> QED BY <1>1, Invariance, PTL

\* No parked coroutine is forgotten, in whatever order trap and pull happen.
THEOREM NoLostWakeup == Spec => []SuspendedIsPending
<1>1. IInv => SuspendedIsPending
  BY DEF IInv, PendingInv, TrigInv, SuspendedIsPending
<1> QED BY <1>1, Invariance, PTL

(***************************************************************************)
(* Refinement of AsyncIO, safety part.                                     *)
(***************************************************************************)

\* A step either starts, finishes or delivers one operation, or is hidden.
LEMMA StepRefines == IInv /\ [Next]_vars => [Async!Next]_(Async!vars)
<1> SUFFICES ASSUME IInv, [Next]_vars PROVE [Async!Next]_(Async!vars)
  OBVIOUS
<1> DEFINE stages == [o \in Ops |-> StageOf(o)]
<1> USE DEF IInv
<1>1. ASSUME NEW o \in Ops, Acquire(o) PROVE Async!Start(o)
  <2>1. phase[o] = "new" /\ res[o] = NoResult
    BY <1>1 DEF Acquire, FreshInv
  <2>2. phase' = [phase EXCEPT ![o] = "get"] /\ UNCHANGED <<res, seen>>
    BY <1>1 DEF Acquire
  <2>3. stages' = [stages EXCEPT ![o] = "pending"]
    BY <2>1, <2>2 DEF StageOf, TypeOK
  <2> QED BY <2>1, <2>2, <2>3 DEF Async!Start, StageOf
<1>2. ASSUME NEW o \in Ops,
             \/ GetSqe(o) \/ PackArgs(o) \/ Submit(o) \/ Unlock(o) \/ Await(o)
      PROVE  UNCHANGED Async!vars
  <2>1. phase[o] \notin {"new", "done"} /\ UNCHANGED <<res, seen>>
    BY <1>2 DEF GetSqe, PackArgs, Submit, Unlock, Await
  <2>2. PICK to \in Phases \ {"new", "done"} : phase' = [phase EXCEPT ![o] = to]
    BY <1>2 DEF GetSqe, PackArgs, Submit, Unlock, Await, Phases
  <2>3. stages' = stages
    BY <2>1, <2>2 DEF StageOf, TypeOK
  <2> QED BY <2>1, <2>3 DEF Async!vars
<1>3. ASSUME NEW o \in Ops, Resume(o) PROVE Async!Deliver(o)
  <2>1. phase[o] = "ready" /\ res[o] # NoResult /\ mresult[o] = res[o]
    BY <1>3 DEF Resume, TrigInv
  <2>2. /\ phase' = [phase EXCEPT ![o] = "done"] /\ res' = res
        /\ seen' = [seen EXCEPT ![o] = res[o]]
    BY <1>3, <2>1 DEF Resume
  <2>3. stages' = [stages EXCEPT ![o] = "delivered"]
    BY <2>1, <2>2 DEF StageOf, TypeOK
  <2> QED BY <2>1, <2>2, <2>3 DEF Async!Deliver, StageOf
<1>4. ASSUME NEW o \in Ops, Complete(o) PROVE Async!Finish(o)
  <2>1. phase[o] \in {"unlock", "issued", "suspended"} /\ res[o] = NoResult
    BY <1>4 DEF Complete, InflightInv
  <2>2. PICK r \in Results : res' = [res EXCEPT ![o] = r]
    BY <1>4 DEF Complete
  <2>3. UNCHANGED <<phase, seen>>
    BY <1>4 DEF Complete
  <2>4. stages' = [stages EXCEPT ![o] = "completed"]
    BY <2>1, <2>2, <2>3, ResultsAssumption DEF StageOf, TypeOK
  <2> QED BY <2>1, <2>2, <2>3, <2>4 DEF Async!Finish, StageOf
<1>5. ASSUME StoreResult \/ Seen \/ UNCHANGED vars PROVE UNCHANGED Async!vars
  <2>1. UNCHANGED <<phase, res, seen>>
    BY <1>5 DEF StoreResult, Seen, vars
  <2> QED BY <2>1 DEF Async!vars, StageOf
<1>6. ASSUME Pull PROVE UNCHANGED Async!vars
  <2> DEFINE h == Head(cq).op
  <2>1. UNCHANGED <<res, seen>>
    BY <1>6 DEF Pull
  <2>2. \/ phase' = phase
        \/ phase[h] = "suspended" /\ phase' = [phase EXCEPT ![h] = "ready"]
    BY <1>6, HeadUnreleased DEF Pull, PullTrigger, CqInv, TrigInv
  <2>3. stages' = stages
    BY <2>1, <2>2 DEF StageOf, TypeOK
  <2> QED BY <2>1, <2>3 DEF Async!vars
<1> QED
  BY <1>1, <1>2, <1>3, <1>4, <1>5, <1>6 DEF Next, IoPlain, WaitOne, Async!Next

\* IoRing implements the await protocol: one outcome for each operation, and one
\* delivery of exactly that outcome after it.
THEOREM RefinesAsyncIO == Spec => Async!SafeSpec
<1>1. Init => Async!Init
  BY DEF Init, Async!Init, StageOf
<1> QED BY <1>1, StepRefines, Invariance, PTL DEF Spec, Async!SafeSpec

\* No step of the promised protocol changes an answer or repeats a delivery.
LEMMA OutcomeStep ==
  ASSUME IInv, [Next]_vars
  PROVE  [Async!OutcomeStands]_(Async!vars)
<1> SUFFICES ASSUME ~(UNCHANGED Async!vars)
             PROVE  Async!OutcomeStands
  OBVIOUS
<1>1. PICK o \in Ops : Async!Start(o) \/ Async!Finish(o) \/ Async!Deliver(o)
  BY StepRefines DEF Async!Next
<1>2. /\ DOMAIN res = Ops /\ DOMAIN seen = Ops
      /\ res = [p \in Ops |-> res[p]] /\ seen = [p \in Ops |-> seen[p]]
  BY DEF IInv, TypeOK
<1>3. CASE Async!Start(o)
  BY <1>3 DEF Async!Start, Async!OutcomeStands
<1>4. CASE Async!Finish(o)
  BY <1>2, <1>4 DEF Async!Finish, Async!OutcomeStands
<1>5. CASE Async!Deliver(o)
  BY <1>2, <1>5 DEF Async!Deliver, Async!OutcomeStands
<1> QED BY <1>1, <1>3, <1>4, <1>5

\* Through the ring an operation's answer is given once and stands, and its coroutine is told
\* that answer once.
THEOREM AnswersStand == Spec => Async!DeliveredOnce
<1>1. IInv /\ [Next]_vars => [Async!OutcomeStands]_(Async!vars)
  BY OutcomeStep
<1> QED BY <1>1, Invariance, PTL DEF Spec, Async!DeliveredOnce

=============================================================================
