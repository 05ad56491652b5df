-------------------------- MODULE OverlappedProofs --------------------------
(* Proofs about Overlapped, for any number of operations in any interleaving. *)
EXTENDS Overlapped, TLAPS

USE DEF Go, awaitVars, systemVars

(***************************************************************************)
(* IInv is inductive: one lemma per action, one step per conjunct.         *)
(***************************************************************************)

\* Entering the constructor preserves the invariant.
LEMMA ConstructInv ==
  ASSUME IInv, NEW o \in Ops, Construct(o)
  PROVE  IInv'
<1> USE DEF IInv, Construct
<1>1. TypeOK'
  BY CodesAssumption, CountsAssumption, NoResultAssumption DEF TypeOK, Results
<1>2. KernelInv'
  BY DEF TypeOK, KernelInv
<1>3. AnswerInv'
  BY CodesAssumption, CountsAssumption, NoResultAssumption DEF TypeOK, KernelInv, AnswerInv, Results
<1>4. TrigInv'
  BY DEF TypeOK, KernelInv, AnswerInv, TrigInv
<1> QED BY <1>1, <1>2, <1>3, <1>4

\* An accepted call preserves the invariant.
LEMMA CallAcceptedInv ==
  ASSUME IInv, NEW o \in Ops, CallAccepted(o)
  PROVE  IInv'
<1> USE DEF IInv, CallAccepted
<1>1. TypeOK'
  BY CodesAssumption, CountsAssumption, NoResultAssumption DEF TypeOK, Results
<1>2. KernelInv'
  BY DEF TypeOK, KernelInv
<1>3. AnswerInv'
  BY CodesAssumption, CountsAssumption, NoResultAssumption DEF TypeOK, KernelInv, AnswerInv, Results
<1>4. TrigInv'
  BY DEF TypeOK, KernelInv, AnswerInv, TrigInv
<1> QED BY <1>1, <1>2, <1>3, <1>4

\* Leaving the constructor preserves the invariant.
LEMMA ReturnInv ==
  ASSUME IInv, NEW o \in Ops, Return(o)
  PROVE  IInv'
<1> USE DEF IInv, Return
<1>1. TypeOK'
  BY CodesAssumption, CountsAssumption, NoResultAssumption DEF TypeOK, Results
<1>2. KernelInv'
  BY DEF TypeOK, KernelInv
<1>3. AnswerInv'
  BY CodesAssumption, CountsAssumption, NoResultAssumption DEF TypeOK, KernelInv, AnswerInv, Results
<1>4. TrigInv'
  BY DEF TypeOK, KernelInv, AnswerInv, TrigInv
<1> QED BY <1>1, <1>2, <1>3, <1>4

\* A rejected call preserves the invariant.
LEMMA CallRejectedInv ==
  ASSUME IInv, NEW o \in Ops, CallRejected(o)
  PROVE  IInv'
<1> USE DEF IInv, CallRejected
<1>1. TypeOK'
  BY CodesAssumption, CountsAssumption, NoResultAssumption DEF TypeOK, Results
<1>2. KernelInv'
  BY DEF TypeOK, KernelInv
<1>3. AnswerInv'
  BY CodesAssumption, CountsAssumption, NoResultAssumption DEF TypeOK, KernelInv, AnswerInv, Results
<1>4. TrigInv'
  BY DEF TypeOK, KernelInv, AnswerInv, TrigInv
<1> QED BY <1>1, <1>2, <1>3, <1>4

\* Awaiting preserves the invariant.
LEMMA AwaitInv ==
  ASSUME IInv, NEW o \in Ops, Await(o)
  PROVE  IInv'
<1> USE DEF IInv, Await
<1>1. TypeOK'
  BY CodesAssumption, CountsAssumption, NoResultAssumption DEF TypeOK, Results
<1>2. KernelInv'
  BY DEF TypeOK, KernelInv
<1>3. AnswerInv'
  BY CodesAssumption, CountsAssumption, NoResultAssumption DEF TypeOK, KernelInv, AnswerInv, Results
<1>4. TrigInv'
  BY DEF TypeOK, KernelInv, AnswerInv, TrigInv
<1> QED BY <1>1, <1>2, <1>3, <1>4

\* Resuming the coroutine preserves the invariant.
LEMMA ResumeInv ==
  ASSUME IInv, NEW o \in Ops, Resume(o)
  PROVE  IInv'
<1> USE DEF IInv, Resume
<1>1. TypeOK'
  BY CodesAssumption, CountsAssumption, NoResultAssumption DEF TypeOK, Results
<1>2. KernelInv'
  BY DEF TypeOK, KernelInv
<1>3. AnswerInv'
  BY CodesAssumption, CountsAssumption, NoResultAssumption DEF TypeOK, KernelInv, AnswerInv, Results
<1>4. TrigInv'
  BY DEF TypeOK, KernelInv, AnswerInv, TrigInv
<1> QED BY <1>1, <1>2, <1>3, <1>4

\* A completion packet preserves the invariant.
LEMMA CompleteInv ==
  ASSUME IInv, NEW o \in Ops, Complete(o)
  PROVE  IInv'
<1> USE DEF IInv, Complete
<1>1. TypeOK'
  BY CodesAssumption, CountsAssumption, NoResultAssumption DEF TypeOK, Results
<1>2. KernelInv'
  BY DEF TypeOK, KernelInv
<1>3. AnswerInv'
  BY CodesAssumption, CountsAssumption, NoResultAssumption DEF TypeOK, KernelInv, AnswerInv, Results
<1>4. TrigInv'
  BY DEF TypeOK, KernelInv, AnswerInv, TrigInv
<1> QED BY <1>1, <1>2, <1>3, <1>4

\* Starting the callback preserves the invariant.
LEMMA EnterInv ==
  ASSUME IInv, NEW o \in Ops, Enter(o)
  PROVE  IInv'
<1> USE DEF IInv, Enter
<1>1. TypeOK'
  BY CodesAssumption, CountsAssumption, NoResultAssumption DEF TypeOK, Results
<1>2. KernelInv'
  BY DEF TypeOK, KernelInv
<1>3. AnswerInv'
  BY CodesAssumption, CountsAssumption, NoResultAssumption DEF TypeOK, KernelInv, AnswerInv, Results
<1>4. TrigInv'
  BY DEF TypeOK, KernelInv, AnswerInv, TrigInv
<1> QED BY <1>1, <1>2, <1>3, <1>4

\* Storing the count preserves the invariant.
LEMMA SetTransferredInv ==
  ASSUME IInv, NEW o \in Ops, SetTransferred(o)
  PROVE  IInv'
<1> USE DEF IInv, SetTransferred
<1>a. res[o] \in Results
  BY DEF TypeOK, KernelInv, AnswerInv
<1>1. TypeOK'
  BY <1>a DEF TypeOK, Results
<1>2. KernelInv'
  BY DEF TypeOK, KernelInv
<1>3. AnswerInv'
  BY CodesAssumption, CountsAssumption, NoResultAssumption DEF TypeOK, KernelInv, AnswerInv, Results
<1>4. TrigInv'
  BY DEF TypeOK, KernelInv, AnswerInv, TrigInv
<1> QED BY <1>1, <1>2, <1>3, <1>4

\* Storing the code preserves the invariant.
LEMMA SetResultInv ==
  ASSUME IInv, NEW o \in Ops, SetResult(o)
  PROVE  IInv'
<1> USE DEF IInv, SetResult
<1>a. res[o] \in Results
  BY DEF TypeOK, KernelInv, AnswerInv
<1>1. TypeOK'
  BY <1>a DEF TypeOK, Results
<1>2. KernelInv'
  BY DEF TypeOK, KernelInv
<1>3. AnswerInv'
  BY CodesAssumption, CountsAssumption, NoResultAssumption DEF TypeOK, KernelInv, AnswerInv, Results
<1>4. TrigInv'
  BY DEF TypeOK, KernelInv, AnswerInv, TrigInv
<1> QED BY <1>1, <1>2, <1>3, <1>4

\* Pulling the trigger preserves the invariant.
LEMMA PullInv ==
  ASSUME IInv, NEW o \in Ops, Pull(o)
  PROVE  IInv'
<1> USE DEF IInv, Pull
<1>1. TypeOK'
  BY CodesAssumption, CountsAssumption, NoResultAssumption DEF TypeOK, Results
<1>2. KernelInv'
  BY DEF TypeOK, KernelInv
<1>3. AnswerInv'
  BY CodesAssumption, CountsAssumption, NoResultAssumption DEF TypeOK, KernelInv, AnswerInv, Results
<1>4. TrigInv'
  BY DEF TypeOK, KernelInv, AnswerInv, TrigInv
<1> QED BY <1>1, <1>2, <1>3, <1>4

\* Objects not yet constructed satisfy the invariant.
LEMMA InitIInv == Init => IInv
BY CodesAssumption, CountsAssumption, NoResultAssumption
   DEF Init, IInv, TypeOK, KernelInv, AnswerInv, TrigInv, Results

\* Every step preserves the invariant.
LEMMA NextIInv == IInv /\ [Next]_vars => IInv'
<1> SUFFICES ASSUME IInv, [Next]_vars PROVE IInv'
  OBVIOUS
<1>1. ASSUME NEW o \in Ops, Step(o) PROVE IInv'
  BY <1>1, ConstructInv, CallAcceptedInv, CallRejectedInv, ReturnInv, AwaitInv, ResumeInv
     DEF Step
<1>2. ASSUME NEW o \in Ops, Complete(o) PROVE IInv'
  BY <1>2, CompleteInv
<1>3. ASSUME NEW o \in Ops, AwaitRelease(o) PROVE IInv'
  BY <1>3, EnterInv, SetTransferredInv, SetResultInv, PullInv DEF AwaitRelease
<1>4. ASSUME UNCHANGED vars PROVE IInv'
  BY <1>4 DEF vars, IInv, TypeOK, KernelInv, AnswerInv, TrigInv
<1> QED BY <1>1, <1>2, <1>3, <1>4 DEF Next

\* The inductive invariant holds in every reachable state: system, callback and
\* coroutine agree on who may touch the await object.
THEOREM Invariance == Spec => []IInv
BY InitIInv, NextIInv, PTL DEF Spec

\* The OVERLAPPED is not destroyed under a pending call or a running callback.
THEOREM OverlappedSafe == Spec => []OverlappedOutlivesCall
<1>1. IInv => OverlappedOutlivesCall
  BY DEF IInv, KernelInv, TrigInv, OverlappedOutlivesCall
<1> QED BY <1>1, Invariance, PTL

\* Once pulled, or answered at once, both members hold the operation's answer.
LEMMA StoredIsAnswer ==
  ASSUME IInv, NEW o \in Ops, immediate[o] \/ callback[o] = "pulled"
  PROVE  stored[o] = res[o]
<1>1. CASE immediate[o]
  BY <1>1 DEF IInv, AnswerInv
<1>2. CASE callback[o] = "pulled"
  <2>1. stored[o].bytes = res[o].bytes /\ stored[o].code = res[o].code
    BY <1>2 DEF IInv, AnswerInv
  <2>2. res[o] \in Results /\ stored[o] \in Results
    BY <1>2 DEF IInv, TypeOK, KernelInv, AnswerInv
  <2> QED BY <2>1, <2>2 DEF Results
<1> QED BY <1>1, <1>2

\* The coroutine reads code and count of its own answer, never a torn pair.
THEOREM WholeResults == Spec => []ResultIsWhole
<1>1. IInv => ResultIsWhole
  BY StoredIsAnswer DEF IInv, TrigInv, ResultIsWhole
<1> QED BY <1>1, Invariance, PTL

\* No parked coroutine is forgotten.
THEOREM NoLostWakeup == Spec => []SuspendedIsPending
<1>1. IInv => SuspendedIsPending
  BY DEF IInv, KernelInv, TrigInv, SuspendedIsPending
<1> QED BY <1>1, Invariance, PTL

(***************************************************************************)
(* Refinement of AsyncIO, safety part.                                     *)
(***************************************************************************)

\* A step either starts, finishes or delivers one operation, or is hidden.
LEMMA StepRefines == IInv /\ [Next]_vars => [Async!Next]_(Async!vars)
<1> SUFFICES ASSUME IInv, [Next]_vars PROVE [Async!Next]_(Async!vars)
  OBVIOUS
<1> DEFINE stages == [o \in Ops |-> StageOf(o)]
<1> USE DEF IInv
<1>1. ASSUME NEW o \in Ops, Construct(o) PROVE Async!Start(o)
  <2>1. phase[o] = "new" /\ res[o] = NoResult
    BY <1>1 DEF Construct, KernelInv, AnswerInv
  <2>2. phase' = [phase EXCEPT ![o] = "calling"] /\ UNCHANGED <<res, seen>>
    BY <1>1 DEF Construct
  <2>3. stages' = [stages EXCEPT ![o] = "pending"] /\ stages[o] = "idle"
    BY <2>1, <2>2 DEF StageOf, TypeOK
  <2> QED BY <2>2, <2>3 DEF Async!Start
<1>2. ASSUME NEW o \in Ops, CallAccepted(o) \/ Return(o) \/ Await(o)
      PROVE  UNCHANGED Async!vars
  <2>1. phase[o] \notin {"new", "done"} /\ UNCHANGED <<res, seen>>
    BY <1>2 DEF CallAccepted, Return, Await
  <2>2. PICK to \in {"accepted", "built", "suspended", "ready"} :
          phase' = [phase EXCEPT ![o] = to]
    BY <1>2 DEF CallAccepted, Return, Await
  <2>3. stages' = stages
    BY <2>1, <2>2 DEF StageOf, TypeOK
  <2> QED BY <2>1, <2>3 DEF Async!vars
<1>3. ASSUME NEW o \in Ops, CallRejected(o) PROVE Async!Finish(o)
  <2>1. phase[o] = "calling" /\ res[o] = NoResult
    BY <1>3 DEF CallRejected, KernelInv, AnswerInv
  <2>2. PICK r \in Results : res' = [res EXCEPT ![o] = r]
    BY <1>3, CountsAssumption DEF CallRejected, Results
  <2>3. phase' = [phase EXCEPT ![o] = "built"] /\ seen' = seen
    BY <1>3 DEF CallRejected
  <2>4. stages' = [stages EXCEPT ![o] = "completed"] /\ stages[o] = "pending"
    BY <2>1, <2>2, <2>3, NoResultAssumption DEF StageOf, TypeOK
  <2> QED BY <2>2, <2>3, <2>4 DEF Async!Finish
<1>4. ASSUME NEW o \in Ops, Complete(o) PROVE Async!Finish(o)
  <2>1. phase[o] \notin {"new", "done"} /\ res[o] = NoResult
    BY <1>4 DEF Complete, KernelInv, AnswerInv, TrigInv
  <2>2. PICK r \in Results : res' = [res EXCEPT ![o] = r]
    BY <1>4 DEF Complete
  <2>3. UNCHANGED <<phase, seen>>
    BY <1>4 DEF Complete
  <2>4. stages' = [stages EXCEPT ![o] = "completed"] /\ stages[o] = "pending"
    BY <2>1, <2>2, <2>3, NoResultAssumption DEF StageOf, TypeOK
  <2> QED BY <2>2, <2>3, <2>4 DEF Async!Finish
<1>5. ASSUME NEW o \in Ops, Resume(o) PROVE Async!Deliver(o)
  <2>1. phase[o] = "ready" /\ (immediate[o] \/ callback[o] = "pulled")
    BY <1>5 DEF Resume, TrigInv
  <2>2. /\ phase' = [phase EXCEPT ![o] = "done"] /\ res' = res
        /\ seen' = [seen EXCEPT ![o] = stored[o]]
    BY <1>5 DEF Resume
  <2>3. res[o] # NoResult
    BY <2>1 DEF KernelInv, AnswerInv
  <2>4. stages' = [stages EXCEPT ![o] = "delivered"] /\ stages[o] = "completed"
    BY <2>1, <2>2, <2>3 DEF StageOf, TypeOK
  <2>5. stored[o] = res[o]
    BY <2>1, StoredIsAnswer
  <2> QED BY <2>2, <2>4, <2>5 DEF Async!Deliver
<1>6. ASSUME NEW o \in Ops,
             \/ Enter(o) \/ SetTransferred(o) \/ SetResult(o) \/ Pull(o)
             \/ UNCHANGED vars
      PROVE  UNCHANGED Async!vars
  <2>1. UNCHANGED <<res, seen>>
    BY <1>6 DEF Enter, SetTransferred, SetResult, Pull, vars
  <2>2. \/ phase' = phase
        \/ phase[o] = "suspended" /\ phase' = [phase EXCEPT ![o] = "ready"]
    BY <1>6 DEF Enter, SetTransferred, SetResult, Pull, vars, TrigInv
  <2>3. stages' = stages
    BY <2>1, <2>2 DEF StageOf, TypeOK
  <2> QED BY <2>1, <2>3 DEF Async!vars
<1>7. ASSUME UNCHANGED vars PROVE UNCHANGED Async!vars
  BY <1>7 DEF vars, Async!vars, StageOf
<1> QED
  BY <1>1, <1>2, <1>3, <1>4, <1>5, <1>6, <1>7
     DEF Next, Step, AwaitRelease, Async!Next

\* Every await object, its callback and its answer stay of their types, whatever
\* operations there are.
THEOREM TypeCorrect == Spec => []TypeOK
<1>1. IInv => TypeOK
  BY DEF IInv
<1> QED BY <1>1, Invariance, PTL

\* Overlapped implements the await protocol: one answer for each operation, and
\* one delivery of exactly that answer after it.
THEOREM RefinesAsyncIO == Spec => Async!SafeSpec
<1>1. Init => Async!Init
  BY DEF Init, Async!Init, StageOf
<1> QED BY <1>1, StepRefines, Invariance, PTL DEF Spec, Async!SafeSpec

\* No step of the promised protocol changes an answer or repeats a delivery.
LEMMA OutcomeStep ==
  ASSUME IInv, [Next]_vars
  PROVE  [Async!OutcomeStands]_(Async!vars)
<1> SUFFICES ASSUME ~(UNCHANGED Async!vars)
             PROVE  Async!OutcomeStands
  OBVIOUS
<1>1. PICK o \in Ops : Async!Start(o) \/ Async!Finish(o) \/ Async!Deliver(o)
  BY StepRefines DEF Async!Next
<1>2. /\ DOMAIN res = Ops /\ DOMAIN seen = Ops
      /\ res = [p \in Ops |-> res[p]] /\ seen = [p \in Ops |-> seen[p]]
  BY DEF IInv, TypeOK
<1>3. CASE Async!Start(o)
  BY <1>3 DEF Async!Start, Async!OutcomeStands
<1>4. CASE Async!Finish(o)
  BY <1>2, <1>4 DEF Async!Finish, Async!OutcomeStands
<1>5. CASE Async!Deliver(o)
  BY <1>2, <1>5 DEF Async!Deliver, Async!OutcomeStands
<1> QED BY <1>1, <1>3, <1>4, <1>5

\* With Overlapped an operation's answer is given once and stands, and its coroutine is told
\* that answer once.
THEOREM AnswersStand == Spec => Async!DeliveredOnce
<1>1. IInv /\ [Next]_vars => [Async!OutcomeStands]_(Async!vars)
  BY OutcomeStep
<1> QED BY <1>1, Invariance, PTL DEF Spec, Async!DeliveredOnce

=============================================================================
