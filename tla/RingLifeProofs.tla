--------------------------- MODULE RingLifeProofs ---------------------------
(* Proofs about RingLife, for any users and whatever io_uring_queue_init does. *)
EXTENDS RingLife, SequenceTheorems, TLAPS

USE DEF Go, Operate, Constructs, ringVars, workerVars

\* What the worker does to the CQ keeps it a sequence of users.
LEMMA HeadTailType ==
  ASSUME NEW q \in Seq(Users)
  PROVE  /\ \A u \in Users : Append(q, u) \in Seq(Users) /\ Append(q, u) # <<>>
         /\ q # <<>> => Head(q) \in Users /\ Tail(q) \in Seq(Users)
BY AppendProperties, HeadTailProperties

(***************************************************************************)
(* IInv is inductive: one lemma per action, one step per conjunct.         *)
(***************************************************************************)

\* The first thread starts to construct the ring preserves the invariant.
LEMMA MakeInv ==
  ASSUME IInv, NEW u \in Users, Make(u)
  PROVE  IInv'
<1> USE DEF IInv, Make
<1>1. TypeOK'
  BY DEF TypeOK
<1>2. HolderInv'
  BY StaticAssumption DEF TypeOK, HolderInv, RingInv, MakerInv
<1>3. RingInv'
  BY StaticAssumption DEF TypeOK, HolderInv, RingInv, MakerInv
<1>4. OperationInv'
  BY StaticAssumption DEF TypeOK, HolderInv, OperationInv, RingInv
<1>5. MakerInv'
  BY DEF TypeOK, MakerInv
<1>6. RingEndsWithLastReference'
  BY StaticAssumption DEF TypeOK, HolderInv, RingInv, MakerInv, RingEndsWithLastReference
<1> QED BY <1>1, <1>2, <1>3, <1>4, <1>5, <1>6

\* Initialising the ring, successfully or not preserves the invariant.
LEMMA QueueInitInv ==
  ASSUME IInv, NEW u \in Users, QueueInit(u)
  PROVE  IInv'
<1> USE DEF IInv, QueueInit
<1>1. TypeOK'
  BY DEF TypeOK
<1>2. HolderInv'
  BY StaticAssumption DEF TypeOK, HolderInv, RingInv, MakerInv
<1>3. RingInv'
  BY StaticAssumption DEF TypeOK, HolderInv, RingInv, MakerInv
<1>4. OperationInv'
  BY StaticAssumption DEF TypeOK, HolderInv, OperationInv, RingInv
<1>5. MakerInv'
  BY DEF TypeOK, MakerInv
<1>6. RingEndsWithLastReference'
  BY StaticAssumption DEF TypeOK, HolderInv, RingInv, MakerInv, RingEndsWithLastReference
<1> QED BY <1>1, <1>2, <1>3, <1>4, <1>5, <1>6

\* Completing the static and taking the first copy preserves the invariant.
LEMMA MadeInv ==
  ASSUME IInv, NEW u \in Users, Made(u)
  PROVE  IInv'
<1> USE DEF IInv, Made
<1>1. TypeOK'
  BY DEF TypeOK
<1>2. HolderInv'
  BY StaticAssumption DEF TypeOK, HolderInv, RingInv, MakerInv
<1>3. RingInv'
  BY StaticAssumption DEF TypeOK, HolderInv, RingInv, MakerInv
<1>4. OperationInv'
  BY StaticAssumption DEF TypeOK, HolderInv, OperationInv, RingInv
<1>5. MakerInv'
  BY DEF TypeOK, MakerInv
<1>6. RingEndsWithLastReference'
  BY StaticAssumption DEF TypeOK, HolderInv, RingInv, MakerInv, RingEndsWithLastReference
<1> QED BY <1>1, <1>2, <1>3, <1>4, <1>5, <1>6

\* Copying the static preserves the invariant.
LEMMA GetInv ==
  ASSUME IInv, NEW u \in Users, Get(u)
  PROVE  IInv'
<1> USE DEF IInv, Get
<1>1. TypeOK'
  BY DEF TypeOK
<1>2. HolderInv'
  BY StaticAssumption DEF TypeOK, HolderInv, RingInv, MakerInv
<1>3. RingInv'
  BY StaticAssumption DEF TypeOK, HolderInv, RingInv, MakerInv
<1>4. OperationInv'
  BY StaticAssumption DEF TypeOK, HolderInv, OperationInv, RingInv
<1>5. MakerInv'
  BY DEF TypeOK, MakerInv
<1>6. RingEndsWithLastReference'
  BY StaticAssumption DEF TypeOK, HolderInv, RingInv, MakerInv, RingEndsWithLastReference
<1> QED BY <1>1, <1>2, <1>3, <1>4, <1>5, <1>6

\* Keeping the reference in an acceptor preserves the invariant.
LEMMA AcceptorInv ==
  ASSUME IInv, NEW u \in Users, Acceptor(u)
  PROVE  IInv'
<1> USE DEF IInv, Acceptor
<1>1. TypeOK'
  BY DEF TypeOK
<1>2. HolderInv'
  BY StaticAssumption DEF TypeOK, HolderInv, RingInv, MakerInv
<1>3. RingInv'
  BY StaticAssumption DEF TypeOK, HolderInv, RingInv, MakerInv
<1>4. OperationInv'
  BY StaticAssumption DEF TypeOK, HolderInv, OperationInv, RingInv
<1>5. MakerInv'
  BY DEF TypeOK, MakerInv
<1>6. RingEndsWithLastReference'
  BY StaticAssumption DEF TypeOK, HolderInv, RingInv, MakerInv, RingEndsWithLastReference
<1> QED BY <1>1, <1>2, <1>3, <1>4, <1>5, <1>6

\* Submitting an operation preserves the invariant.
LEMMA SubmitInv ==
  ASSUME IInv, NEW u \in Users, Submit(u)
  PROVE  IInv'
<1> USE DEF IInv, Submit, Suspend
<1>1. TypeOK'
  BY DEF TypeOK
<1>2. HolderInv'
  BY StaticAssumption DEF TypeOK, HolderInv, RingInv, MakerInv
<1>3. RingInv'
  BY StaticAssumption DEF TypeOK, HolderInv, RingInv, MakerInv
<1>4. OperationInv'
  BY StaticAssumption DEF TypeOK, HolderInv, OperationInv, RingInv
<1>5. MakerInv'
  BY DEF TypeOK, MakerInv
<1>6. RingEndsWithLastReference'
  BY StaticAssumption DEF TypeOK, HolderInv, RingInv, MakerInv, RingEndsWithLastReference
<1> QED BY <1>1, <1>2, <1>3, <1>4, <1>5, <1>6

\* Handing out a handle preserves the invariant.
LEMMA ResumeOpenedInv ==
  ASSUME IInv, NEW u \in Users, ResumeOpened(u)
  PROVE  IInv'
<1> USE DEF IInv, ResumeOpened
<1>1. TypeOK'
  BY DEF TypeOK
<1>2. HolderInv'
  BY StaticAssumption DEF TypeOK, HolderInv, RingInv, MakerInv
<1>3. RingInv'
  BY StaticAssumption DEF TypeOK, HolderInv, RingInv, MakerInv
<1>4. OperationInv'
  BY StaticAssumption DEF TypeOK, HolderInv, OperationInv, RingInv
<1>5. MakerInv'
  BY DEF TypeOK, MakerInv
<1>6. RingEndsWithLastReference'
  BY StaticAssumption DEF TypeOK, HolderInv, RingInv, MakerInv, RingEndsWithLastReference
<1> QED BY <1>1, <1>2, <1>3, <1>4, <1>5, <1>6

\* Throwing and dropping `core` preserves the invariant.
LEMMA ResumeFailedInv ==
  ASSUME IInv, NEW u \in Users, ResumeFailed(u)
  PROVE  IInv'
<1> USE DEF IInv, ResumeFailed, Release
<1>1. TypeOK'
  BY DEF TypeOK
<1>2. HolderInv'
  BY StaticAssumption DEF TypeOK, HolderInv, RingInv, MakerInv
<1>3. RingInv'
  BY StaticAssumption DEF TypeOK, HolderInv, RingInv, MakerInv
<1>4. OperationInv'
  BY StaticAssumption DEF TypeOK, HolderInv, OperationInv, RingInv
<1>5. MakerInv'
  BY DEF TypeOK, MakerInv
<1>6. RingEndsWithLastReference'
  BY StaticAssumption DEF TypeOK, HolderInv, RingInv, MakerInv, RingEndsWithLastReference
<1> QED BY <1>1, <1>2, <1>3, <1>4, <1>5, <1>6

\* Finishing an operation, perhaps with a new handle preserves the invariant.
LEMMA ResumeOperationInv ==
  ASSUME IInv, NEW u \in Users, ResumeOperation(u)
  PROVE  IInv'
<1> USE DEF IInv, ResumeOperation
<1>1. TypeOK'
  BY DEF TypeOK
<1>2. HolderInv'
  BY StaticAssumption DEF TypeOK, HolderInv, RingInv, MakerInv
<1>3. RingInv'
  BY StaticAssumption DEF TypeOK, HolderInv, RingInv, MakerInv
<1>4. OperationInv'
  BY StaticAssumption DEF TypeOK, HolderInv, OperationInv, RingInv
<1>5. MakerInv'
  BY DEF TypeOK, MakerInv
<1>6. RingEndsWithLastReference'
  BY StaticAssumption DEF TypeOK, HolderInv, RingInv, MakerInv, RingEndsWithLastReference
<1> QED BY <1>1, <1>2, <1>3, <1>4, <1>5, <1>6

\* Dropping a handle preserves the invariant.
LEMMA DropInv ==
  ASSUME IInv, NEW u \in Users, Drop(u)
  PROVE  IInv'
<1> USE DEF IInv, Drop, Release
<1>1. TypeOK'
  BY DEF TypeOK
<1>2. HolderInv'
  BY StaticAssumption DEF TypeOK, HolderInv, RingInv, MakerInv
<1>3. RingInv'
  BY StaticAssumption DEF TypeOK, HolderInv, RingInv, MakerInv
<1>4. OperationInv'
  BY StaticAssumption DEF TypeOK, HolderInv, OperationInv, RingInv
<1>5. MakerInv'
  BY DEF TypeOK, MakerInv
<1>6. RingEndsWithLastReference'
  BY StaticAssumption DEF TypeOK, HolderInv, RingInv, MakerInv, RingEndsWithLastReference
<1> QED BY <1>1, <1>2, <1>3, <1>4, <1>5, <1>6

\* The end of the program preserves the invariant.
LEMMA ExitInv ==
  ASSUME IInv, Exit
  PROVE  IInv'
<1> USE DEF IInv, Exit, Release
<1>1. TypeOK'
  BY DEF TypeOK
<1>2. HolderInv'
  BY StaticAssumption DEF TypeOK, HolderInv, RingInv, MakerInv
<1>3. RingInv'
  BY StaticAssumption DEF TypeOK, HolderInv, RingInv, MakerInv
<1>4. OperationInv'
  BY StaticAssumption DEF TypeOK, HolderInv, OperationInv, RingInv
<1>5. MakerInv'
  BY DEF TypeOK, MakerInv
<1>6. RingEndsWithLastReference'
  BY StaticAssumption DEF TypeOK, HolderInv, RingInv, MakerInv, RingEndsWithLastReference
<1> QED BY <1>1, <1>2, <1>3, <1>4, <1>5, <1>6

\* Posting a completion preserves the invariant.
LEMMA CompleteInv ==
  ASSUME IInv, NEW u \in Users, Complete(u)
  PROVE  IInv'
<1> USE DEF IInv, Complete
<1>1. TypeOK'
  BY HeadTailType DEF TypeOK, OperationInv
<1>2. HolderInv'
  BY StaticAssumption DEF TypeOK, HolderInv, RingInv, MakerInv
<1>3. RingInv'
  BY StaticAssumption DEF TypeOK, HolderInv, RingInv, MakerInv
<1>4. OperationInv'
  BY HeadTailType DEF TypeOK, HolderInv, OperationInv, RingInv
<1>5. MakerInv'
  BY DEF TypeOK, MakerInv
<1>6. RingEndsWithLastReference'
  BY StaticAssumption DEF TypeOK, HolderInv, RingInv, MakerInv, RingEndsWithLastReference
<1> QED BY <1>1, <1>2, <1>3, <1>4, <1>5, <1>6

\* A wait that returns a completion preserves the invariant.
LEMMA GotInv ==
  ASSUME IInv, Got
  PROVE  IInv'
<1> USE DEF IInv, Got
<1>1. TypeOK'
  BY DEF TypeOK
<1>2. HolderInv'
  BY StaticAssumption DEF TypeOK, HolderInv, RingInv, MakerInv
<1>3. RingInv'
  BY StaticAssumption DEF TypeOK, HolderInv, RingInv, MakerInv
<1>4. OperationInv'
  BY StaticAssumption DEF TypeOK, HolderInv, OperationInv, RingInv
<1>5. MakerInv'
  BY DEF TypeOK, MakerInv
<1>6. RingEndsWithLastReference'
  BY StaticAssumption DEF TypeOK, HolderInv, RingInv, MakerInv, RingEndsWithLastReference
<1> QED BY <1>1, <1>2, <1>3, <1>4, <1>5, <1>6

\* Releasing a completion preserves the invariant.
LEMMA PullInv ==
  ASSUME IInv, Pull
  PROVE  IInv'
<1> USE DEF IInv, Pull
<1>1. TypeOK'
  BY HeadTailType DEF TypeOK, OperationInv
<1>2. HolderInv'
  BY StaticAssumption DEF TypeOK, HolderInv, RingInv, MakerInv
<1>3. RingInv'
  BY StaticAssumption DEF TypeOK, HolderInv, RingInv, MakerInv
<1>4. OperationInv'
  BY HeadTailType DEF TypeOK, HolderInv, OperationInv, RingInv
<1>5. MakerInv'
  BY DEF TypeOK, MakerInv
<1>6. RingEndsWithLastReference'
  BY StaticAssumption DEF TypeOK, HolderInv, RingInv, MakerInv, RingEndsWithLastReference
<1> QED BY <1>1, <1>2, <1>3, <1>4, <1>5, <1>6

\* Marking a completion seen preserves the invariant.
LEMMA SeenInv ==
  ASSUME IInv, Seen
  PROVE  IInv'
<1> USE DEF IInv, Seen
<1>1. TypeOK'
  BY HeadTailType DEF TypeOK, OperationInv
<1>2. HolderInv'
  BY StaticAssumption DEF TypeOK, HolderInv, RingInv, MakerInv
<1>3. RingInv'
  BY StaticAssumption DEF TypeOK, HolderInv, RingInv, MakerInv
<1>4. OperationInv'
  BY HeadTailType DEF TypeOK, HolderInv, OperationInv, RingInv
<1>5. MakerInv'
  BY DEF TypeOK, MakerInv
<1>6. RingEndsWithLastReference'
  BY StaticAssumption DEF TypeOK, HolderInv, RingInv, MakerInv, RingEndsWithLastReference
<1> QED BY <1>1, <1>2, <1>3, <1>4, <1>5, <1>6

\* A wait that fails preserves the invariant.
LEMMA WaitFailsInv ==
  ASSUME IInv, WaitFails
  PROVE  IInv'
<1> USE DEF IInv, WaitFails
<1>1. TypeOK'
  BY ErrnosAssumption DEF TypeOK, ENXIO
<1>2. HolderInv'
  BY StaticAssumption DEF TypeOK, HolderInv, RingInv, MakerInv
<1>3. RingInv'
  BY StaticAssumption DEF TypeOK, HolderInv, RingInv, MakerInv
<1>4. OperationInv'
  BY StaticAssumption DEF TypeOK, HolderInv, OperationInv, RingInv
<1>5. MakerInv'
  BY DEF TypeOK, MakerInv
<1>6. RingEndsWithLastReference'
  BY StaticAssumption DEF TypeOK, HolderInv, RingInv, MakerInv, RingEndsWithLastReference
<1> QED BY <1>1, <1>2, <1>3, <1>4, <1>5, <1>6

\* The exit test of the loop preserves the invariant.
LEMMA BreakInv ==
  ASSUME IInv, Break
  PROVE  IInv'
<1> USE DEF IInv, Break
<1>1. TypeOK'
  BY DEF TypeOK, Continues
<1>2. HolderInv'
  BY StaticAssumption DEF TypeOK, HolderInv, RingInv, MakerInv
<1>3. RingInv'
  BY StaticAssumption DEF TypeOK, HolderInv, RingInv, MakerInv
<1>4. OperationInv'
  BY StaticAssumption DEF TypeOK, HolderInv, OperationInv, RingInv
<1>5. MakerInv'
  BY DEF TypeOK, MakerInv
<1>6. RingEndsWithLastReference'
  BY StaticAssumption DEF TypeOK, HolderInv, RingInv, MakerInv, RingEndsWithLastReference
<1> QED BY <1>1, <1>2, <1>3, <1>4, <1>5, <1>6

\* The initial state satisfies the invariant.
LEMMA InitIInv == Init => IInv
BY StaticAssumption
DEF Init, IInv, TypeOK, HolderInv, RingInv, OperationInv, MakerInv, RingEndsWithLastReference

\* Every step preserves the invariant.
LEMMA NextIInv == IInv /\ [Next]_vars => IInv'
<1> SUFFICES ASSUME IInv, [Next]_vars PROVE IInv'
  OBVIOUS
<1>1. CASE \E u \in Users : Hold(u)
  BY <1>1, MakeInv, QueueInitInv, MadeInv, GetInv, AcceptorInv, SubmitInv DEF Hold
<1>2. CASE \E u \in Users : Resume(u)
  BY <1>2, ResumeOpenedInv, ResumeFailedInv, ResumeOperationInv DEF Resume
<1>3. CASE \E u \in Users : Drop(u) \/ Complete(u)
  BY <1>3, DropInv, CompleteInv
<1>4. CASE Exit
  BY <1>4, ExitInv
<1>5. CASE Worker
  BY <1>5, GotInv, PullInv, SeenInv, WaitFailsInv, BreakInv DEF Worker
<1>6. CASE UNCHANGED vars
  BY <1>6
  DEF vars, IInv, TypeOK, HolderInv, RingInv, OperationInv, MakerInv, RingEndsWithLastReference
<1> QED BY <1>1, <1>2, <1>3, <1>4, <1>5, <1>6 DEF Next

\* No step makes a ring again or takes it from an operation in the kernel.
LEMMA KeptStep ==
  ASSUME IInv, Next
  PROVE  RingKept
<1> USE StaticAssumption
    DEF IInv, TypeOK, HolderInv, RingInv, OperationInv, MakerInv, RingEndsWithLastReference, RingKept
<1>1. CASE \E u \in Users : Hold(u)
  <2>1. PICK u \in Users : Hold(u)
    BY <1>1
  <2>2. CASE Make(u) \/ QueueInit(u)
    BY <2>2 DEF Make, QueueInit
  <2>3. CASE Made(u)
    BY <2>3 DEF Made
  <2>4. CASE Get(u) \/ Acceptor(u)
    BY <2>4 DEF Get, Acceptor
  <2>5. CASE Submit(u)
    BY <2>5 DEF Submit, Suspend
  <2> QED BY <2>1, <2>2, <2>3, <2>4, <2>5 DEF Hold
<1>2. CASE \E u \in Users : Resume(u)
  <2>1. PICK u \in Users : Resume(u)
    BY <1>2
  <2>2. CASE ResumeOpened(u) \/ ResumeOperation(u)
    BY <2>2 DEF ResumeOpened, ResumeOperation
  <2>3. CASE ResumeFailed(u)
    BY <2>3 DEF ResumeFailed, Release
  <2> QED BY <2>1, <2>2, <2>3 DEF Resume
<1>3. CASE \E u \in Users : Drop(u) \/ Complete(u)
  BY <1>3 DEF Drop, Release, Complete
<1>4. CASE Exit
  BY <1>4 DEF Exit, Release
<1>5. CASE Worker
  BY <1>5 DEF Worker, Got, Pull, Seen, WaitFails, Break
<1> QED BY <1>1, <1>2, <1>3, <1>4, <1>5 DEF Next

\* Break is the only step that stops the worker, and never sees the positive ENXIO.
LEMMA RunsOnStep ==
  ASSUME IInv, WorkerRunsOn, [Next]_vars
  PROVE  WorkerRunsOn'
<1> USE DEF WorkerRunsOn
<1>1. ret # ENXIO
  BY ErrnosAssumption DEF IInv, TypeOK, ENXIO
<1>2. CASE Break
  BY <1>1, <1>2 DEF Break, Continues
<1>3. CASE ~Break
  BY <1>3
  DEF Next, vars, workerVars, Hold, Make, QueueInit, Made, Get, Acceptor, Submit, Resume,
      ResumeOpened, ResumeFailed, ResumeOperation, Drop, Complete, Exit, Worker, Got, Pull, Seen,
      WaitFails
<1> QED BY <1>2, <1>3

(***************************************************************************)
(* Theorems.                                                               *)
(***************************************************************************)

\* The inductive invariant holds in every reachable state.
THEOREM Invariance == Spec => []IInv
BY InitIInv, NextIInv, PTL DEF Spec

\* Type correctness.
THEOREM TypeCorrect == Spec => []TypeOK
<1>1. IInv => TypeOK
  BY DEF IInv
<1> QED BY <1>1, Invariance, PTL

\* An operation in progress has a ring, whoever drops its reference meanwhile and
\* even after the static is destroyed.
THEOREM RingOutlivesOperations == Spec => []OperationHasRing
<1>1. IInv => OperationHasRing
  BY DEF IInv, OperationInv, OperationHasRing
<1> QED BY <1>1, Invariance, PTL

\* Nobody gets a ring that is not complete, and one thread constructs it.
THEOREM RingMadeOnce == Spec => []NobodySeesHalfRing
<1>1. IInv => NobodySeesHalfRing
  BY DEF IInv, TypeOK, RingInv, MakerInv, NobodySeesHalfRing
<1> QED BY <1>1, Invariance, PTL

\* The ring is destroyed by whoever drops the last reference, and then only.
THEOREM LastReferenceEndsRing == Spec => []RingEndsWithLastReference
<1>1. IInv => RingEndsWithLastReference
  BY DEF IInv
<1> QED BY <1>1, Invariance, PTL

\* The ring is initialised once and destroyed once, and no step takes it from an
\* operation in progress or hands it out again.
THEOREM RingMadeAndEndedOnce == Spec => RingIsNeverRemade
<1>1. IInv /\ [Next]_vars => [RingKept]_vars
  BY KeptStep
<1> QED BY <1>1, Invariance, PTL DEF Spec, RingIsNeverRemade

\* The completion thread never leaves its loop, whatever its waits fail with.
THEOREM WorkerNeverStops == Spec => []WorkerRunsOn
<1>1. Init => WorkerRunsOn
  BY DEF Init, WorkerRunsOn
<1> QED BY <1>1, RunsOnStep, Invariance, PTL DEF Spec

\* So no execution that destroys the ring has the thread end after it, as the
\* comment in Uring.cpp says it does: what one run finds for two users holds of all.
THEOREM ShutdownIsNeverSeen == Spec /\ <>(ring = "exited") => ~WorkerEndsAfterShutdown
<1>1. WorkerRunsOn => ~(worker = "stopped")
  BY DEF WorkerRunsOn
<1> QED BY <1>1, WorkerNeverStops, PTL DEF WorkerEndsAfterShutdown

=============================================================================
