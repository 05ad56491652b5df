------------------------------ MODULE RingLife ------------------------------
(***************************************************************************)
(* The life of the Linux5 ring: Uring::get with its function-local static, *)
(* the references that calls and handles keep, the destruction of the ring *)
(* by the last of them, and the detached completion thread.                *)
(*                                                                         *)
(* A user is a call of connect or Block::open, which holds `core` across   *)
(* its suspension, then the handle it hands out; or an acceptor, whose     *)
(* member m_core is initialised by get. Submission and the CQ ring are     *)
(* IoRing's matter; here an operation of a user is in the kernel, in the   *)
(* CQ or answered.                                                         *)
(*                                                                         *)
(* Handles outlive the operations on them. Nobody calls Uring::get once    *)
(* static destruction began: the static it would return is destroyed.      *)
(***************************************************************************)
EXTENDS Integers, Sequences

CONSTANTS
  Users,       \* calls, then the handles they hand out
  Static,      \* the function-local `instance`, as a holder of a reference
  InitMayFail, \* whether io_uring_queue_init can fail
  Errnos       \* errors a wait on a live ring fails with

ENXIO == 6

ASSUME StaticAssumption == Static \notin Users
ASSUME InitAssumption == InitMayFail \in BOOLEAN
ASSUME ErrnosAssumption == Errnos \subseteq Nat \ {0, ENXIO}

VARIABLES
  static,  \* the guard of `instance` and its life
  ring,    \* gIoRing
  refs,    \* who holds a SafeHandle<Uring>
  pc,      \* where each user is
  op,      \* the user's operation
  cq,      \* completions the worker has not yet marked seen
  worker,  \* where the detached thread is in wait_one
  ret      \* what its io_uring_wait_cqe returned

ringVars == <<static, ring, refs>>
workerVars == <<worker, ret>>
vars == <<ringVars, pc, op, cq, workerVars>>

TypeOK ==
  /\ static \in {"none", "making", "live", "gone"}
  /\ ring \in {"none", "up", "failed", "exited"}
  /\ refs \in SUBSET (Users \cup {Static})
  /\ pc \in [Users -> {"idle", "making", "core", "waiting", "open", "done"}]
  /\ op \in [Users -> {"none", "kernel", "answered"}]
  /\ cq \in Seq(Users)
  /\ worker \in {"none", "waiting", "got", "pulled", "failed", "stopped"}
  /\ ret \in {0} \cup {-e : e \in Errnos \cup {ENXIO}}

Init ==
  /\ static = "none" /\ ring = "none" /\ refs = {}
  /\ pc = [u \in Users |-> "idle"]
  /\ op = [u \in Users |-> "none"]
  /\ cq = <<>>
  /\ worker = "none" /\ ret = 0

Go(u, to) == pc' = [pc EXCEPT ![u] = to]
Operate(u, to) == op' = [op EXCEPT ![u] = to]

\* Mutant of Release: whoever lets go of its reference destroys the ring.
ReleaseAlways(holder) == refs' = refs \ {holder} /\ ring' = "exited"

\* The last reference that goes runs destroy_at, and io_uring_queue_exit with it.
Release(holder) ==
  /\ refs' = refs \ {holder}
  /\ ring' = IF refs' = {} THEN "exited" ELSE ring

-----------------------------------------------------------------------------
(* Uring::get, by the first user and by the others. *)

\* Mutant of Constructs: nothing keeps a second thread from constructing it too.
ConstructsUnguarded == static \in {"none", "making"}

\* The first thread constructs `instance`; those that come meanwhile wait.
Constructs == static = "none"
Make(u) ==
  /\ Constructs
  /\ pc[u] = "idle"
  /\ static' = "making" /\ Go(u, "making")
  /\ UNCHANGED <<ring, refs, op, cq, workerVars>>

\* IoRing(): the result of io_uring_queue_init is dropped.
QueueInit(u) ==
  /\ pc[u] = "making" /\ ring = "none"
  /\ ring' \in IF InitMayFail THEN {"up", "failed"} ELSE {"up"}
  /\ UNCHANGED <<static, refs, pc, op, cq, workerVars>>

\* The thread is started, `instance` is complete, and u gets a copy of it.
Made(u) ==
  /\ pc[u] = "making" /\ ring # "none"
  /\ worker' = "waiting"
  /\ static' = "live" /\ refs' = refs \cup {Static, u}
  /\ Go(u, "core")
  /\ UNCHANGED <<ring, op, cq, ret>>

\* Mutant of Get: the caller gets the static itself, not a copy.
GetShared(u) ==
  /\ static = "live"
  /\ pc[u] = "idle"
  /\ Go(u, "core")
  /\ UNCHANGED <<ringVars, op, cq, workerVars>>

Get(u) ==
  /\ static = "live"
  /\ pc[u] = "idle"
  /\ refs' = refs \cup {u}
  /\ Go(u, "core")
  /\ UNCHANGED <<static, ring, op, cq, workerVars>>

-----------------------------------------------------------------------------
(* What holds a reference, and how long. *)

\* AcceptImpl keeps its reference as a member.
Acceptor(u) ==
  /\ pc[u] = "core"
  /\ Go(u, "open")
  /\ UNCHANGED <<ringVars, op, cq, workerVars>>

\* Mutant of Suspend: connect and open do not hold `core` across the co_await.
SuspendUnheld(u) == Go(u, "waiting") /\ Release(u)

Suspend(u) == Go(u, "waiting") /\ UNCHANGED <<ring, refs>>

\* connect or open suspends; or an operation is started on a handle or acceptor.
\* A ring whose initialisation failed has no entry to give: get_sqe spins.
Submit(u) ==
  /\ ring = "up"
  /\ \/ pc[u] = "core" /\ Suspend(u)
     \/ pc[u] = "open" /\ op[u] = "none" /\ UNCHANGED <<pc, ring, refs>>
  /\ Operate(u, "kernel")
  /\ UNCHANGED <<static, cq, workerVars>>

\* connect or open succeeded: the handle's cleanup captures another get, and
\* `core` goes with the frame, which leaves u one reference.
ResumeOpened(u) ==
  /\ pc[u] = "waiting" /\ op[u] = "answered" /\ static = "live"
  /\ Go(u, "open") /\ Operate(u, "none")
  /\ UNCHANGED <<ringVars, cq, workerVars>>

\* It failed, and `core` goes as the exception leaves the frame.
ResumeFailed(u) ==
  /\ pc[u] = "waiting" /\ op[u] = "answered"
  /\ Go(u, "done") /\ Operate(u, "none") /\ Release(u)
  /\ UNCHANGED <<static, cq, workerVars>>

\* An operation on a handle ends. A once may hand out a handle h, which gets a
\* reference of its own.
ResumeOperation(u) ==
  /\ pc[u] = "open" /\ op[u] = "answered"
  /\ Operate(u, "none")
  /\ \/ UNCHANGED <<pc, refs>>
     \/ \E h \in Users :
          /\ pc[h] = "idle" /\ static = "live"
          /\ Go(h, "open") /\ refs' = refs \cup {h}
  /\ UNCHANGED <<static, ring, cq, workerVars>>

\* A handle or acceptor is destroyed, after its operations; or a call throws
\* before it suspends.
Drop(u) ==
  /\ pc[u] \in {"core", "open"} /\ op[u] = "none"
  /\ Go(u, "done") /\ Release(u)
  /\ UNCHANGED <<static, op, cq, workerVars>>

\* main has returned: statics are destroyed, other threads may still be running.
Exit ==
  /\ static = "live"
  /\ static' = "gone" /\ Release(Static)
  /\ UNCHANGED <<pc, op, cq, workerVars>>

-----------------------------------------------------------------------------
(* The kernel, and the thread that runs `while (wait_one());`. *)

\* u's completion is in the CQ, and not only the entry of one already delivered.
Posted(u) == \E i \in DOMAIN cq : cq[i] = u /\ ~(i = 1 /\ worker = "pulled")

Complete(u) ==
  /\ op[u] = "kernel" /\ ~Posted(u)
  /\ cq' = Append(cq, u)
  /\ UNCHANGED <<ringVars, pc, op, workerVars>>

\* io_uring_wait_cqe returns 0 and the first completion.
Got ==
  /\ worker = "waiting" /\ cq # <<>> /\ ring = "up"
  /\ worker' = "got" /\ ret' = 0
  /\ UNCHANGED <<ringVars, pc, op, cq>>

\* AwaitCore::release: from here on the coroutine may resume.
Pull ==
  /\ worker = "got"
  /\ Operate(Head(cq), "answered")
  /\ worker' = "pulled"
  /\ UNCHANGED <<ringVars, pc, cq, ret>>

\* io_uring_cqe_seen, perhaps after the ring was destroyed.
Seen ==
  /\ worker = "pulled"
  /\ cq' = Tail(cq)
  /\ worker' = "waiting"
  /\ UNCHANGED <<ringVars, pc, op, ret>>

\* Without a completion to return, the wait may fail; on a ring that exited it is
\* granted to fail with the ENXIO the code looks for.
WaitFails ==
  /\ worker = "waiting" /\ (cq = <<>> \/ ring # "up")
  /\ worker' = "failed"
  /\ ret' \in IF ring = "exited" THEN {-ENXIO} ELSE {-e : e \in Errnos}
  /\ UNCHANGED <<ringVars, pc, op, cq>>

\* Mutant of Continues: any failed wait ends the thread.
ContinuesNever == FALSE

\* `return (ret != ENXIO)`: liburing returns a negated errno.
Continues == ret # ENXIO
Break ==
  /\ worker = "failed"
  /\ worker' = IF Continues THEN "waiting" ELSE "stopped"
  /\ UNCHANGED <<ringVars, pc, op, cq, ret>>

-----------------------------------------------------------------------------
Worker == Got \/ Pull \/ Seen \/ WaitFails \/ Break
Hold(u) == Make(u) \/ QueueInit(u) \/ Made(u) \/ Get(u) \/ Acceptor(u) \/ Submit(u)
Resume(u) == ResumeOpened(u) \/ ResumeFailed(u) \/ ResumeOperation(u)

Next ==
  \/ \E u \in Users : Hold(u) \/ Resume(u) \/ Drop(u) \/ Complete(u)
  \/ Exit
  \/ Worker

\* The detached thread goes on running, and waits return when they can.
Spec == Init /\ [][Next]_vars /\ WF_vars(Worker)

-----------------------------------------------------------------------------
(* Safety *)

\* The ring an operation was submitted to exists until its coroutine can resume,
\* although other threads drop their references and the program exits.
OperationHasRing ==
  \A u \in Users : op[u] = "kernel" => ring = "up"

\* Uring::get never returns a ring another thread is still constructing, and only
\* one thread constructs it.
NobodySeesHalfRing ==
  /\ refs # {} => ring # "none" /\ worker # "none"
  /\ \A u, w \in Users : pc[u] = "making" /\ pc[w] = "making" => u = w

\* The ring is destroyed with its last reference, whether that is the static's or
\* a handle's that outlived it, and not before.
RingEndsWithLastReference ==
  static \in {"live", "gone"} => (ring = "exited" <=> refs = {})

(* The inductive strengthening. *)

\* Who holds a reference is known from where everybody is.
HolderInv ==
  /\ \A u \in Users : u \in refs <=> pc[u] \in {"core", "waiting", "open"}
  /\ Static \in refs <=> static = "live"

\* The ring exists exactly while someone constructs or holds it.
RingInv ==
  /\ static = "none" => ring = "none"
  /\ static \in {"none", "making"} => refs = {} /\ ring # "exited"
  /\ static \in {"live", "gone"} => ring # "none" /\ worker # "none"

\* Operations belong to holders, and only a ring that is up takes them; the worker
\* works on a completion that is there.
OperationInv ==
  /\ \A u \in Users : op[u] = "kernel" => u \in refs /\ ring = "up"
  /\ worker \in {"got", "pulled"} => cq # <<>>

MakerInv ==
  /\ \A u \in Users : pc[u] = "making" => static = "making"
  /\ \A u, w \in Users : pc[u] = "making" /\ pc[w] = "making" => u = w

IInv ==
  TypeOK /\ HolderInv /\ RingInv /\ OperationInv /\ MakerInv /\ RingEndsWithLastReference

(* What a step may never do. *)

\* A ring is initialised once and destroyed once; nobody gets hold of it after
\* that, and no step takes it from an operation the kernel works on.
RingKept ==
  /\ ring # "none" => ring' \in {ring, "exited"}
  /\ ring = "exited" => refs' = {}
  /\ \A u \in Users : op[u] = "kernel" => ring' = "up" /\ u \in refs'
RingIsNeverRemade == [][RingKept]_vars

\* No wait returns what the loop takes for the ring's end: errors are negative, and
\* the test is for the positive ENXIO.
WorkerRunsOn == worker # "stopped"

(* Liveness *)

\* Interrupted waits do not end the completion thread while the ring lives: what
\* is in the CQ is delivered.
PostedIsDelivered == \A u \in Users : Posted(u) ~> (op[u] = "answered")

\* Uring.cpp, "break if instance shutdown": the detached thread ends after the
\* ring did.
WorkerEndsAfterShutdown == (ring = "exited") ~> (worker = "stopped")

=============================================================================
