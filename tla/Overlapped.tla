----------------------------- MODULE Overlapped -----------------------------
(***************************************************************************)
(* The NTOS await path: an IOAwait issues its overlapped call from its own *)
(* constructor, the system's thread pool runs IOCP::await_release on any   *)
(* thread (possibly before the constructor returned), and the awaiting     *)
(* coroutine reads code and byte count from the object.                    *)
(*                                                                         *)
(* Each operation is one IOAwait, named by the OVERLAPPED it starts with.  *)
(* The system and coroutine::SingleExecutorTrigger are external.           *)
(***************************************************************************)
EXTENDS Integers

CONSTANTS
  Ops,        \* await objects
  Codes,      \* system error codes a call fails or completes with
  Counts,     \* byte counts of completions
  NoResult    \* the system has not answered

SUCCESS == 0  \* ERROR_SUCCESS

ASSUME CodesAssumption == Codes \subseteq Int /\ SUCCESS \in Codes
ASSUME CountsAssumption == Counts \subseteq Int /\ 0 \in Counts

Results == [code : Codes, bytes : Counts]

ASSUME NoResultAssumption == NoResult \notin Results

VARIABLES
  phase,      \* where the code that owns each operation is
  immediate,  \* m_immediate_completion
  stored,     \* m_result and m_transferred
  trig,       \* m_trigger
  kernel,     \* the system's side of each operation
  callback,   \* progress of await_release for each operation
  res,        \* what the system answered (history)
  seen        \* what await_resume read (history)

awaitVars == <<immediate, trig, seen>>
systemVars == <<kernel, res>>
vars == <<phase, awaitVars, stored, systemVars, callback>>

TypeOK ==
  /\ phase \in [Ops -> {"new", "calling", "accepted", "built", "suspended", "ready", "done"}]
  /\ immediate \in [Ops -> BOOLEAN]
  /\ stored \in [Ops -> Results]
  /\ trig \in [Ops -> {"open", "trapped", "pulled"}]
  /\ kernel \in [Ops -> {"none", "pending", "posted"}]
  /\ callback \in [Ops -> {"none", "entered", "counted", "stored", "pulled"}]
  /\ res \in [Ops -> Results \cup {NoResult}]
  /\ seen \in [Ops -> Results \cup {NoResult}]

Init ==
  /\ phase = [o \in Ops |-> "new"]
  /\ immediate = [o \in Ops |-> FALSE]
  /\ stored = [o \in Ops |-> [code |-> SUCCESS, bytes |-> 0]]
  /\ trig = [o \in Ops |-> "open"]
  /\ kernel = [o \in Ops |-> "none"]
  /\ callback = [o \in Ops |-> "none"]
  /\ res = [o \in Ops |-> NoResult]
  /\ seen = [o \in Ops |-> NoResult]

Go(o, to) == phase' = [phase EXCEPT ![o] = to]

-----------------------------------------------------------------------------
(* The constructor of IOAwait. *)

\* The members are initialized, then fn is called with the OVERLAPPED.
Construct(o) ==
  /\ phase[o] = "new"
  /\ Go(o, "calling")
  /\ UNCHANGED <<awaitVars, stored, systemVars, callback>>

\* Mutant of CallAccepted: a call that succeeded at once is taken for complete.
AcceptedAsComplete(o) ==
  /\ phase[o] = "calling"
  /\ kernel' = [kernel EXCEPT ![o] = "pending"]
  /\ immediate' = [immediate EXCEPT ![o] = TRUE]
  /\ Go(o, "accepted")
  /\ UNCHANGED <<trig, seen, stored, callback, res>>

\* WSAO and the ReadFile/WriteFile wrappers answer "pending" both for a call
\* that is pending and for one that succeeded at once: either way the system
\* posts a completion, which may run before the constructor goes on.
CallAccepted(o) ==
  /\ phase[o] = "calling"
  /\ kernel' = [kernel EXCEPT ![o] = "pending"]
  /\ Go(o, "accepted")
  /\ UNCHANGED <<awaitVars, stored, callback, res>>

\* Mutant of Return: the result members are reset once the call was made.
ReturnResets(o) ==
  /\ phase[o] = "accepted"
  /\ stored' = [stored EXCEPT ![o] = [code |-> SUCCESS, bytes |-> 0]]
  /\ Go(o, "built")
  /\ UNCHANGED <<awaitVars, systemVars, callback>>

\* The constructor leaves the members alone after a pending call.
Return(o) ==
  /\ phase[o] = "accepted"
  /\ Go(o, "built")
  /\ UNCHANGED <<awaitVars, stored, systemVars, callback>>

\* Any other code is the final answer and no completion will be posted.
CallRejected(o) ==
  /\ phase[o] = "calling"
  /\ \E code \in Codes \ {SUCCESS} :
       LET answer == [code |-> code, bytes |-> 0] IN
       /\ stored' = [stored EXCEPT ![o] = answer]
       /\ res' = [res EXCEPT ![o] = answer]
  /\ immediate' = [immediate EXCEPT ![o] = TRUE]
  /\ Go(o, "built")
  /\ UNCHANGED <<trig, seen, kernel, callback>>

-----------------------------------------------------------------------------
(* await_ready, await_suspend and await_resume. *)

\* Mutant of Await: the immediate answer is not looked at.
AwaitIgnoresImmediate(o) ==
  /\ phase[o] = "built"
  /\ \/ /\ trig[o] = "open"
        /\ trig' = [trig EXCEPT ![o] = "trapped"]
        /\ Go(o, "suspended")
     \/ /\ trig[o] = "pulled"
        /\ Go(o, "ready")
        /\ UNCHANGED trig
  /\ UNCHANGED <<immediate, seen, stored, systemVars, callback>>

\* Nothing is awaited after an immediate answer; otherwise trap parks the
\* coroutine unless the completion was already pulled.
Await(o) ==
  /\ phase[o] = "built"
  /\ \/ /\ ~immediate[o] /\ trig[o] = "open"
        /\ trig' = [trig EXCEPT ![o] = "trapped"]
        /\ Go(o, "suspended")
     \/ /\ immediate[o] \/ trig[o] = "pulled"
        /\ Go(o, "ready")
        /\ UNCHANGED trig
  /\ UNCHANGED <<immediate, seen, stored, systemVars, callback>>

\* await_resume; the object dies at the end of the co_await expression.
Resume(o) ==
  /\ phase[o] = "ready"
  /\ seen' = [seen EXCEPT ![o] = stored[o]]
  /\ Go(o, "done")
  /\ UNCHANGED <<immediate, trig, stored, systemVars, callback>>

-----------------------------------------------------------------------------
(* The system finishes an accepted call and queues its completion packet.    *)
Complete(o) ==
  /\ kernel[o] = "pending"
  /\ kernel' = [kernel EXCEPT ![o] = "posted"]
  /\ \E r \in Results : res' = [res EXCEPT ![o] = r]
  /\ UNCHANGED <<phase, awaitVars, stored, callback>>

-----------------------------------------------------------------------------
(* await_release on a thread of the pool; several run at once.               *)

Enter(o) ==
  /\ kernel[o] = "posted"
  /\ callback[o] = "none"
  /\ callback' = [callback EXCEPT ![o] = "entered"]
  /\ UNCHANGED <<phase, awaitVars, stored, systemVars>>

\* setResult writes the count, then the code.
SetTransferred(o) ==
  /\ callback[o] = "entered"
  /\ stored' = [stored EXCEPT ![o].bytes = res[o].bytes]
  /\ callback' = [callback EXCEPT ![o] = "counted"]
  /\ UNCHANGED <<phase, awaitVars, systemVars>>

SetResult(o) ==
  /\ callback[o] = "counted"
  /\ stored' = [stored EXCEPT ![o].code = res[o].code]
  /\ callback' = [callback EXCEPT ![o] = "stored"]
  /\ UNCHANGED <<phase, awaitVars, systemVars>>

\* Mutant of Pull: the coroutine is woken between the two writes.
PullBetweenWrites(o) ==
  /\ callback[o] = "counted"
  /\ trig' = [trig EXCEPT ![o] = "pulled"]
  /\ IF trig[o] = "trapped" THEN Go(o, "ready") ELSE UNCHANGED phase
  /\ callback' = [callback EXCEPT ![o] = "pulled"]
  /\ UNCHANGED <<immediate, seen, stored, systemVars>>

\* Mutant of Pull: a pull with nobody parked is not remembered.
PullForgets(o) ==
  /\ callback[o] = "stored"
  /\ IF trig[o] = "trapped"
       THEN trig' = [trig EXCEPT ![o] = "pulled"] /\ Go(o, "ready")
       ELSE UNCHANGED <<trig, phase>>
  /\ callback' = [callback EXCEPT ![o] = "pulled"]
  /\ UNCHANGED <<immediate, seen, stored, systemVars>>

\* m_trigger.pull: a parked coroutine is handed to its executor.
Pull(o) ==
  /\ callback[o] = "stored"
  /\ trig' = [trig EXCEPT ![o] = "pulled"]
  /\ IF trig[o] = "trapped" THEN Go(o, "ready") ELSE UNCHANGED phase
  /\ callback' = [callback EXCEPT ![o] = "pulled"]
  /\ UNCHANGED <<immediate, seen, stored, systemVars>>

AwaitRelease(o) == Enter(o) \/ SetTransferred(o) \/ SetResult(o) \/ Pull(o)

-----------------------------------------------------------------------------
Step(o) ==
  \/ Construct(o) \/ CallAccepted(o) \/ CallRejected(o) \/ Return(o)
  \/ Await(o) \/ Resume(o)

Next == \E o \in Ops : Step(o) \/ Complete(o) \/ AwaitRelease(o)

\* The calling thread, the pool and the executor go on; the system may leave a
\* call pending for ever, so Complete has no fairness.
Fairness == \A o \in Ops : WF_vars(Step(o)) /\ WF_vars(AwaitRelease(o))

Spec == Init /\ [][Next]_vars /\ Fairness

-----------------------------------------------------------------------------
(* Safety *)

\* The system owns the OVERLAPPED until await_release has pulled: neither it nor
\* the callback may find the await object destroyed.
OverlappedOutlivesCall ==
  \A o \in Ops :
    kernel[o] # "none" /\ callback[o] # "pulled" => phase[o] # "done"

\* await_resume sees code and count of one and the same answer, its own, wherever
\* the callback ran relative to the constructor and to await_suspend.
ResultIsWhole == \A o \in Ops : phase[o] = "done" => seen[o] = res[o]

\* A coroutine that parked has a call pending or a callback still to pull.
SuspendedIsPending ==
  \A o \in Ops :
    phase[o] = "suspended" => kernel[o] # "none" /\ callback[o] # "pulled"

(* The inductive strengthening. *)

\* A call was handed to the system exactly when it was accepted.
KernelInv ==
  \A o \in Ops :
    /\ kernel[o] = "none" <=> (phase[o] \in {"new", "calling"} \/ immediate[o])
    /\ immediate[o] => phase[o] \in {"built", "ready", "done"}
    /\ kernel[o] # "posted" => callback[o] = "none"

\* The answer exists from the rejection or the completion packet on.
AnswerInv ==
  \A o \in Ops :
    /\ res[o] # NoResult <=> (kernel[o] = "posted" \/ immediate[o])
    /\ immediate[o] => stored[o] = res[o]
    /\ callback[o] \in {"counted", "stored", "pulled"} => stored[o].bytes = res[o].bytes
    /\ callback[o] \in {"stored", "pulled"} => stored[o].code = res[o].code

\* Trigger, callback and coroutine agree.
TrigInv ==
  \A o \in Ops :
    /\ trig[o] = "pulled" <=> callback[o] = "pulled"
    /\ trig[o] = "trapped" <=> phase[o] = "suspended"
    /\ phase[o] \in {"ready", "done"} => (immediate[o] \/ callback[o] = "pulled")
    /\ phase[o] = "done" => seen[o] = stored[o]
    /\ phase[o] # "done" => seen[o] = NoResult

IInv == TypeOK /\ KernelInv /\ AnswerInv /\ TrigInv

(* Refinement: the await protocol that both targets promise. *)

StageOf(o) ==
  IF phase[o] = "done" THEN "delivered"
  ELSE IF res[o] # NoResult THEN "completed"
  ELSE IF phase[o] # "new" THEN "pending"
  ELSE "idle"

Async == INSTANCE AsyncIO WITH
  stage <- [o \in Ops |-> StageOf(o)], outcome <- res, got <- seen

\* Overlapped implements AsyncIO: one answer for each operation, rejected at once
\* or delivered by the pool, and one delivery of it.
ImplementsAsyncIO == Async!Spec

=============================================================================
