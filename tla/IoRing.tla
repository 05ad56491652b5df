------------------------------- MODULE IoRing -------------------------------
(***************************************************************************)
(* The Linux5 submission and completion path: io_plain / io_message fill   *)
(* an SQE under IoRing::m_lock and submit it, the detached thread runs     *)
(* wait_one, and AwaitCore hands the result to the awaiting coroutine.     *)
(*                                                                         *)
(* Each operation is one IOAwait/VecAwait object, named by the user_data   *)
(* pointer of its SQE. Every operation runs its own submission steps, so   *)
(* two operations in those steps are two submitting threads. The kernel's  *)
(* side of the ring and coroutine::SingleExecutorTrigger are external.     *)
(***************************************************************************)
EXTENDS Integers, SequencesExt

CONSTANTS
  Ops,         \* await objects
  VecOps,      \* those made by io_message (VecAwait); the rest by io_plain
  Results,     \* values of cqe->res
  NoResult,    \* the kernel has not answered
  NoOp,        \* m_lock is free
  QueueDepth,  \* IoRing::QUEUE_DEPTH
  MaxShort     \* bound on consecutive io_uring_submit calls that leave SQEs

ASSUME OpsAssumption == VecOps \subseteq Ops /\ NoOp \notin Ops
ASSUME ResultsAssumption == Results \subseteq Int /\ NoResult \notin Results \cup {0}
ASSUME DepthAssumption == QueueDepth \in Nat \ {0} /\ MaxShort \in Nat

VARIABLES
  phase,     \* where the code that owns each operation is
  lock,      \* m_lock: the operation whose submitter holds it, or NoOp
  sq,        \* m_ring.sq: acquired SQEs the kernel has not taken, by operation
  arg,       \* the storage the SQE's pointers refer to
  short,     \* consecutive submissions that left SQEs in the ring
  inflight,  \* operations the kernel is executing
  res,       \* what the kernel answered (history)
  cq,        \* m_ring.cq: posted CQEs not yet marked seen
  wpc,       \* program counter of the thread that loops on wait_one
  mresult,   \* AwaitCore::m_result
  trig,      \* AwaitCore's SingleExecutorTrigger
  seen       \* what await_resume returned (history)

submitVars == <<lock, sq, arg, short>>
kernelVars == <<inflight, res>>
awaitVars == <<mresult, trig, seen>>
vars == <<phase, submitVars, kernelVars, cq, wpc, awaitVars>>

Phases == {"new", "get", "prep", "submit", "unlock",
           "issued", "suspended", "ready", "done"}
Critical == {"get", "prep", "submit", "unlock"}   \* between lock and unlock
CqDepth == 2 * QueueDepth      \* what io_uring_queue_init allocates
OpsOf(cqes) == {cqes[i].op : i \in 1..Len(cqes)}
OneCqePerOp(cqes) == \A i, j \in 1..Len(cqes) : cqes[i].op = cqes[j].op => i = j
\* Operations whose CQE the completion thread has still to release.
Unreleased == OpsOf(IF wpc = "seen" THEN Tail(cq) ELSE cq)

TypeOK ==
  /\ phase \in [Ops -> Phases]
  /\ lock \in Ops \cup {NoOp}
  /\ sq \in Seq(Ops)
  /\ arg \in [Ops -> {"none", "frame", "await", "call"}]
  /\ short \in 0..MaxShort
  /\ inflight \in SUBSET Ops
  /\ res \in [Ops -> Results \cup {NoResult}]
  /\ cq \in Seq([op : Ops, res : Results])
  /\ wpc \in {"store", "pull", "seen"}
  /\ mresult \in [Ops -> Results \cup {0}]
  /\ trig \in [Ops -> {"open", "trapped", "pulled"}]
  /\ seen \in [Ops -> Results \cup {0, NoResult}]

Init ==
  /\ phase = [o \in Ops |-> "new"]
  /\ lock = NoOp
  /\ sq = <<>>
  /\ arg = [o \in Ops |-> "none"]
  /\ short = 0
  /\ inflight = {}
  /\ res = [o \in Ops |-> NoResult]
  /\ cq = <<>>
  /\ wpc = "store"
  /\ mresult = [o \in Ops |-> 0]
  /\ trig = [o \in Ops |-> "open"]
  /\ seen = [o \in Ops |-> NoResult]

Go(o, to) == phase' = [phase EXCEPT ![o] = to]

-----------------------------------------------------------------------------
(* Submission: the body of io_plain and io_message. *)

\* Mutant of Acquire: the ring lock is not awaited.
AcquireUnguarded(o) ==
  /\ phase[o] = "new"
  /\ lock' = o
  /\ Go(o, "get")
  /\ UNCHANGED <<sq, arg, short, kernelVars, cq, wpc, awaitVars>>

\* std::lock_guard on the ring's spin lock.
Acquire(o) ==
  /\ phase[o] = "new"
  /\ lock = NoOp
  /\ lock' = o
  /\ Go(o, "get")
  /\ UNCHANGED <<sq, arg, short, kernelVars, cq, wpc, awaitVars>>

\* IoRing::get_sqe; while the ring is full it spins, still holding the lock.
GetSqe(o) ==
  /\ phase[o] = "get"
  /\ Len(sq) < QueueDepth
  /\ sq' = Append(sq, o)
  /\ Go(o, "prep")
  /\ UNCHANGED <<lock, arg, short, kernelVars, cq, wpc, awaitVars>>

\* Mutant of ArgStorage: the msghdr stays the local variable of the caller.
ArgInCallFrame(o) == IF o \in VecOps THEN "call" ELSE "frame"

\* Buffers, paths and socket addresses live in the calling coroutine's frame;
\* the msghdr of a vectored operation is copied into the VecAwait.
ArgStorage(o) == IF o \in VecOps THEN "await" ELSE "frame"

\* Mutant of PackArgs: submission is left to whoever submits next.
PackBatched(o) ==
  /\ phase[o] = "prep"
  /\ arg' = [arg EXCEPT ![o] = ArgStorage(o)]
  /\ Go(o, "unlock")
  /\ UNCHANGED <<lock, sq, short, kernelVars, cq, wpc, awaitVars>>

\* io_pack_args or io_vec_pack_args, then io_uring_sqe_set_data.
PackArgs(o) ==
  /\ phase[o] = "prep"
  /\ arg' = [arg EXCEPT ![o] = ArgStorage(o)]
  /\ Go(o, "submit")
  /\ UNCHANGED <<lock, sq, short, kernelVars, cq, wpc, awaitVars>>

\* io_uring_submit publishes every acquired SQE and the kernel takes a prefix
\* of them: all when it succeeds, fewer when it returns short or an error. The
\* caller drops the return value.
Submit(o) ==
  /\ phase[o] = "submit"
  /\ \E k \in 0..Len(sq) :
       /\ k < Len(sq) => short < MaxShort
       /\ inflight' = inflight \cup ToSet(SubSeq(sq, 1, k))
       /\ sq' = SubSeq(sq, k + 1, Len(sq))
       /\ short' = IF k = Len(sq) THEN 0 ELSE short + 1
  /\ Go(o, "unlock")
  /\ UNCHANGED <<lock, arg, res, cq, wpc, awaitVars>>

\* The guard is destroyed after the await object was built in place.
Unlock(o) ==
  /\ phase[o] = "unlock"
  /\ lock' = NoOp
  /\ Go(o, "issued")
  /\ UNCHANGED <<sq, arg, short, kernelVars, cq, wpc, awaitVars>>

-----------------------------------------------------------------------------
(* AwaitCore: await_suspend and await_resume. *)

\* Mutant of Await: await_ready answers true.
AwaitNeverParks(o) ==
  /\ phase[o] = "issued"
  /\ Go(o, "ready")
  /\ UNCHANGED <<submitVars, kernelVars, cq, wpc, awaitVars>>

\* Mutant of Await: trap overlooks a pull that came first.
AwaitAlwaysParks(o) ==
  /\ phase[o] = "issued"
  /\ trig' = [trig EXCEPT ![o] = "trapped"]
  /\ Go(o, "suspended")
  /\ UNCHANGED <<submitVars, kernelVars, cq, wpc, mresult, seen>>

\* await_suspend: trap parks the coroutine unless pull already happened, in
\* which case it returns false and the coroutine goes on by itself.
Await(o) ==
  /\ phase[o] = "issued"
  /\ \/ /\ trig[o] = "open"
        /\ trig' = [trig EXCEPT ![o] = "trapped"]
        /\ Go(o, "suspended")
     \/ /\ trig[o] = "pulled"
        /\ Go(o, "ready")
        /\ UNCHANGED trig
  /\ UNCHANGED <<submitVars, kernelVars, cq, wpc, mresult, seen>>

\* The executor runs the coroutine: await_resume reads m_result and the await
\* object is destroyed at the end of the co_await expression.
Resume(o) ==
  /\ phase[o] = "ready"
  /\ seen' = [seen EXCEPT ![o] = mresult[o]]
  /\ Go(o, "done")
  /\ UNCHANGED <<submitVars, kernelVars, cq, wpc, mresult, trig>>

-----------------------------------------------------------------------------
(* The kernel finishes operations in any order and posts their CQEs; with    *)
(* IORING_FEAT_NODROP a completion waits in the kernel while the CQ is full. *)
Complete(o) ==
  /\ o \in inflight
  /\ Len(cq) < CqDepth
  /\ \E r \in Results :
       /\ res' = [res EXCEPT ![o] = r]
       /\ cq' = Append(cq, [op |-> o, res |-> r])
  /\ inflight' = inflight \ {o}
  /\ UNCHANGED <<phase, submitVars, wpc, awaitVars>>

-----------------------------------------------------------------------------
(* wait_one on the completion thread. A failed io_uring_wait_cqe changes no  *)
(* state and the loop goes on, which is a stuttering step here.              *)

\* io_uring_wait_cqe returned a CQE; release first stores its result.
StoreResult ==
  /\ wpc = "store"
  /\ cq # <<>>
  /\ mresult' = [mresult EXCEPT ![Head(cq).op] = Head(cq).res]
  /\ wpc' = "pull"
  /\ UNCHANGED <<phase, submitVars, kernelVars, cq, trig, seen>>

\* The trigger hands a parked coroutine to its executor, or stays pulled for
\* the await_suspend still to come.
PullTrigger(o) ==
  /\ trig' = [trig EXCEPT ![o] = "pulled"]
  /\ IF trig[o] = "trapped" THEN Go(o, "ready") ELSE UNCHANGED phase

\* Mutant of Pull: only a success wakes the coroutine.
PullOnSuccess ==
  /\ wpc = "pull"
  /\ IF Head(cq).res >= 0 THEN PullTrigger(Head(cq).op) ELSE UNCHANGED <<phase, trig>>
  /\ wpc' = "seen"
  /\ UNCHANGED <<submitVars, kernelVars, cq, mresult, seen>>

\* release, second half: SingleExecutorTrigger::pull.
Pull ==
  /\ wpc = "pull"
  /\ PullTrigger(Head(cq).op)
  /\ wpc' = "seen"
  /\ UNCHANGED <<submitVars, kernelVars, cq, mresult, seen>>

\* io_uring_cqe_seen frees the CQ slot.
Seen ==
  /\ wpc = "seen"
  /\ cq' = Tail(cq)
  /\ wpc' = "store"
  /\ UNCHANGED <<phase, submitVars, kernelVars, awaitVars>>

\* Mutant of WaitOne: release pulls before it stores.
PullFirst ==
  /\ wpc = "store"
  /\ cq # <<>>
  /\ PullTrigger(Head(cq).op)
  /\ wpc' = "pull"
  /\ UNCHANGED <<submitVars, kernelVars, cq, mresult, seen>>
StoreSecond ==
  /\ wpc = "pull"
  /\ mresult' = [mresult EXCEPT ![Head(cq).op] = Head(cq).res]
  /\ wpc' = "seen"
  /\ UNCHANGED <<phase, submitVars, kernelVars, cq, trig, seen>>
WaitOneSwapped == PullFirst \/ StoreSecond \/ Seen

WaitOne == StoreResult \/ Pull \/ Seen

-----------------------------------------------------------------------------
IoPlain(o) == Acquire(o) \/ GetSqe(o) \/ PackArgs(o) \/ Submit(o) \/ Unlock(o)

Next ==
  \/ \E o \in Ops : IoPlain(o) \/ Await(o) \/ Resume(o) \/ Complete(o)
  \/ WaitOne

\* Submitting threads, executors and the completion thread keep running; the
\* kernel may leave an operation unanswered for ever.
Fairness ==
  /\ \A o \in Ops : WF_vars(IoPlain(o)) /\ WF_vars(Await(o)) /\ WF_vars(Resume(o))
  /\ WF_vars(WaitOne)

Spec == Init /\ [][Next]_vars /\ Fairness

-----------------------------------------------------------------------------
(* Safety *)

\* The lock keeps io_uring_submit from publishing another thread's SQE while
\* that thread is still filling it (Uring.h, "a large lock around the ring"):
\* whatever the kernel took had its arguments and user_data written.
NoTornSubmit ==
  \A o \in inflight \cup OpsOf(cq) : phase[o] \notin {"new", "get", "prep"}

\* get_sqe spins holding the lock and only a submission empties the ring, so a
\* full ring there stops every thread for good. Whoever enters get_sqe finds
\* room although earlier submissions were short and their result dropped.
SqeAvailable == \A o \in Ops : phase[o] = "get" => Len(sq) < QueueDepth

\* What a submission leaves in the ring stays there until somebody submits again,
\* and its coroutine waits as long: with nobody in io_plain or io_message, that
\* befalls one operation at most for each submission that was short since the last
\* one that was not, and none when that one was the last.
OnlyShortLeavesSqes == lock = NoOp => Len(sq) <= short

\* A storage duration has not ended at operation o's current phase.
Alive(o, storage) ==
  /\ storage = "call" => phase[o] \in Critical
  /\ storage = "await" => phase[o] # "done"

\* An SQE may wait in the ring long after io_plain or io_message returned; what
\* it points to must still exist when a later submission hands it over.
ArgsOutliveQueue == \A o \in ToSet(sq) : Alive(o, arg[o])

\* await_resume returns the result the kernel gave this very operation, not
\* the zero m_result starts with and not another operation's result.
ResultIsKernels == \A o \in Ops : phase[o] = "done" => seen[o] = res[o]

\* The completion thread dereferences the user_data pointer of each CQE not yet
\* released: the await object behind it must not have been destroyed.
NoUseAfterFree == \A o \in Unreleased : phase[o] # "done"

\* No wake-up is lost between trap and pull: behind every parked coroutine there
\* is an SQE, a running operation or a CQE whose pull is still to come.
SuspendedIsPending ==
  \A o \in Ops :
    phase[o] = "suspended" => o \in ToSet(sq) \cup inflight \cup Unreleased

(* The inductive strengthening of the invariants above. *)

\* The operation that holds the ring lock is the one in the locked section.
LockInv == \A o \in Ops : phase[o] \in Critical <=> lock = o

\* The ring holds no operation twice, and only unanswered ones.
SqInv ==
  /\ IsInjective(sq)
  /\ \A o \in ToSet(sq) :
       /\ phase[o] \in {"prep", "submit", "unlock", "issued", "suspended"}
       /\ phase[o] # "prep" => arg[o] = ArgStorage(o)
       /\ o \notin inflight /\ res[o] = NoResult /\ trig[o] # "pulled"
  /\ \A o \in Ops : phase[o] \in {"prep", "submit"} => o \in ToSet(sq)

\* Short submissions leave at most one SQE each, plus the holder's own.
ShortInv ==
  /\ Len(sq) <= short + 1
  /\ (\A o \in Ops : phase[o] \notin {"prep", "submit"}) => Len(sq) <= short

InflightInv ==
  \A o \in inflight :
    /\ phase[o] \in {"unlock", "issued", "suspended"}
    /\ res[o] = NoResult /\ trig[o] # "pulled"

\* A CQE carries its operation's answer; until pull the await object is intact.
CqInv ==
  /\ OneCqePerOp(cq)
  /\ \A i \in 1..Len(cq) : cq[i].res = res[cq[i].op]
  /\ \A o \in Unreleased :
       phase[o] \in {"unlock", "issued", "suspended"} /\ trig[o] # "pulled"
  /\ wpc # "store" => cq # <<>> /\ mresult[Head(cq).op] = Head(cq).res
  /\ wpc = "seen" => trig[Head(cq).op] = "pulled"

\* The trigger and the coroutine agree, and a pulled trigger has its result.
TrigInv ==
  \A o \in Ops :
    /\ trig[o] = "trapped" <=> phase[o] = "suspended"
    /\ phase[o] \in {"ready", "done"} => trig[o] = "pulled"
    /\ trig[o] = "pulled" =>
         /\ phase[o] \in {"unlock", "issued", "ready", "done"}
         /\ res[o] # NoResult /\ mresult[o] = res[o]
    /\ phase[o] = "done" => seen[o] = res[o]
    /\ phase[o] # "done" => seen[o] = NoResult

\* Every submitted operation is somewhere, until its trigger is pulled.
PendingInv ==
  \A o \in Ops :
    phase[o] \in {"unlock", "issued", "suspended"} /\ trig[o] # "pulled"
      => o \in ToSet(sq) \cup inflight \cup Unreleased

\* Nothing is known of an operation before it enters the ring.
FreshInv == \A o \in Ops : phase[o] \in {"new", "get", "prep", "submit"} => res[o] = NoResult

IInv ==
  /\ TypeOK /\ LockInv /\ SqInv /\ ShortInv /\ InflightInv
  /\ CqInv /\ TrigInv /\ PendingInv /\ FreshInv

(* Liveness *)

\* A submission that is not short hands the operation to the kernel: once its
\* submitter has the lock, an operation gets an SQE and does not stay in the ring.
EverySubmissionReachesKernel ==
  \A o \in Ops : (phase[o] # "new") ~> (o \in inflight \/ res[o] # NoResult)

(* Refinement: the await protocol that both targets promise. *)

StageOf(o) ==
  CASE phase[o] = "done" -> "delivered"
    [] phase[o] # "done" /\ res[o] # NoResult -> "completed"
    [] phase[o] # "new" /\ phase[o] # "done" /\ res[o] = NoResult -> "pending"
    [] OTHER -> "idle"

Async == INSTANCE AsyncIO WITH
  stage <- [o \in Ops |-> StageOf(o)], outcome <- res, got <- seen

\* IoRing implements AsyncIO: each operation gets one outcome, its coroutine is
\* resumed once, after it, with it, and is resumed whenever the kernel answered.
ImplementsAsyncIO == Async!Spec

=============================================================================
