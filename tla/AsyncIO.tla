------------------------------ MODULE AsyncIO ------------------------------
(***************************************************************************)
(* What `co_await`ing an IOAwait promises on every target: an operation    *)
(* that was started produces one outcome, and the coroutine that awaits it *)
(* is resumed once, after that outcome exists, and reads exactly it.       *)
(* Linux5 (IoRing) and NTOS (Overlapped) each implement this module.       *)
(***************************************************************************)
CONSTANTS
  Ops,       \* the await objects, one per I/O operation
  Results,   \* the outcomes an operation can have
  NoResult   \* "no outcome yet"

VARIABLES
  stage,     \* how far each operation has got
  outcome,   \* what the operating system answered
  got        \* what await_resume returned to the coroutine

vars == <<stage, outcome, got>>

TypeOK ==
  /\ stage \in [Ops -> {"idle", "pending", "completed", "delivered"}]
  /\ outcome \in [Ops -> Results \cup {NoResult}]
  /\ got \in [Ops -> Results \cup {NoResult}]

Init ==
  /\ stage = [o \in Ops |-> "idle"]
  /\ outcome = [o \in Ops |-> NoResult]
  /\ got = [o \in Ops |-> NoResult]

\* The call that constructs the await object.
Start(o) ==
  /\ stage[o] = "idle"
  /\ stage' = [stage EXCEPT ![o] = "pending"]
  /\ UNCHANGED <<outcome, got>>

\* The operating system finishes the operation, whether awaited yet or not.
Finish(o) ==
  /\ stage[o] = "pending"
  /\ stage' = [stage EXCEPT ![o] = "completed"]
  /\ \E r \in Results : outcome' = [outcome EXCEPT ![o] = r]
  /\ UNCHANGED got

\* The coroutine runs await_resume; the await object dies with this step.
Deliver(o) ==
  /\ stage[o] = "completed"
  /\ stage' = [stage EXCEPT ![o] = "delivered"]
  /\ got' = [got EXCEPT ![o] = outcome[o]]
  /\ UNCHANGED outcome

Next == \E o \in Ops : Start(o) \/ Finish(o) \/ Deliver(o)

\* The safety half, the part a proof of an implementation covers.
SafeSpec == Init /\ [][Next]_vars

\* Nothing obliges a peer or a disk to answer, so Finish has no fairness.
Spec == SafeSpec /\ \A o \in Ops : WF_vars(Deliver(o))

\* What a step may never do: change an answer that was given, deliver another one
\* or one that is not there, or take back or repeat a delivery.
OutcomeStands ==
  \A o \in Ops :
    /\ stage[o] \in {"completed", "delivered"} =>
         stage'[o] \in {stage[o], "delivered"} /\ outcome'[o] = outcome[o]
    /\ got'[o] # got[o] => stage[o] = "completed" /\ got'[o] = outcome[o]

DeliveredOnce == [][OutcomeStands]_vars

=============================================================================
