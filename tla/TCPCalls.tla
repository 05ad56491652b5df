------------------------------ MODULE TCPCalls ------------------------------
(***************************************************************************)
(* What acceptor_tcp, connect, AcceptorTCP::once and the handles they hand *)
(* out promise on every target: a call that succeeds hands out a socket    *)
(* that is bound or connected to where it was asked to be, a once tells    *)
(* the caller who its socket is connected to, a call that fails says so    *)
(* and hands out nothing, and a handle is closed once. LinuxTCP and NtTCP  *)
(* implement this module.                                                  *)
(***************************************************************************)
CONSTANTS
  Listener,   \* the call of acceptor_tcp
  Connects,   \* calls of connect
  Accepts,    \* calls of once on the acceptor
  Places,     \* the endpoint acceptor_tcp and each connect are to reach
  Visitors,   \* the endpoints of the processes that connect to the acceptor
  Failures,   \* the Status values that tell of a failure
  Statuses,   \* these and IO_OK
  NoPeer,
  NoStatus    \* nothing told

Calls == {Listener} \cup Connects \cup Accepts

VARIABLES
  stage,   \* how far each call, and then its handle, has got
  far,     \* the endpoint each call's socket is bound or connected to
  peer,    \* the Result.peer each once returned
  told,    \* the Status each caller got: thrown, or returned by close
  busy     \* handles on which a transfer is in progress

vars == <<stage, far, peer, told, busy>>

Init ==
  /\ stage = [c \in Calls |-> "idle"]
  /\ far = [c \in Calls |-> NoPeer]
  /\ peer = [c \in Calls |-> NoPeer]
  /\ told = [c \in Calls |-> NoStatus]
  /\ busy = {}

Go(c, to) == stage' = [stage EXCEPT ![c] = to]

\* once needs an acceptor that is open.
Ready(c) == stage[c] = "idle" /\ (c \in Accepts => stage[Listener] = "open")

Begin(c) == Ready(c) /\ Go(c, "pending") /\ UNCHANGED <<far, peer, told, busy>>

\* The socket is bound or connected, once, whether the caller ever learns of it or not.
Establish(c) ==
  /\ stage[c] = "pending" /\ far[c] = NoPeer
  /\ \E e \in IF c \in Accepts THEN Visitors ELSE {Places[c]} : far' = [far EXCEPT ![c] = e]
  /\ UNCHANGED <<stage, peer, told, busy>>

Succeed(c) ==
  /\ stage[c] = "pending" /\ far[c] # NoPeer
  /\ Go(c, "open")
  /\ peer' = IF c \in Accepts THEN [peer EXCEPT ![c] = far[c]] ELSE peer
  /\ UNCHANGED <<far, told, busy>>

Throw(c) ==
  /\ Ready(c) \/ stage[c] = "pending"
  /\ Go(c, "threw")
  /\ \E status \in Failures : told' = [told EXCEPT ![c] = status]
  /\ UNCHANGED <<far, peer, busy>>

\* Handles have one transfer at a time, which may outlive the close.
StartTransfer(c) ==
  /\ c # Listener /\ stage[c] = "open" /\ c \notin busy
  /\ busy' = busy \cup {c}
  /\ UNCHANGED <<stage, far, peer, told>>

EndTransfer(c) ==
  /\ c \in busy
  /\ busy' = busy \ {c}
  /\ UNCHANGED <<stage, far, peer, told>>

StartClose(c) ==
  /\ stage[c] = "open" /\ Go(c, "closing")
  /\ UNCHANGED <<far, peer, told, busy>>

EndClose(c) ==
  /\ stage[c] = "closing" /\ Go(c, "closed")
  /\ \E status \in Statuses : told' = [told EXCEPT ![c] = status]
  /\ UNCHANGED <<far, peer, busy>>

Next ==
  \E c \in Calls :
    \/ Begin(c) \/ Establish(c) \/ Succeed(c) \/ Throw(c)
    \/ StartTransfer(c) \/ EndTransfer(c) \/ StartClose(c) \/ EndClose(c)

Spec == Init /\ [][Next]_vars

\* What a caller was given stands: no later step, of whichever call, changes what it was
\* told, where its socket got or the peer it was named, and no handle is opened again.
AnswerStands(c) ==
  /\ far[c] # NoPeer => far'[c] = far[c]
  /\ stage[c] # "pending" => peer'[c] = peer[c]
  /\ stage[c] \in {"threw", "closed"} => stage'[c] = stage[c] /\ told'[c] = told[c]
  /\ stage[c] \in {"open", "closing"} => stage'[c] \in {"open", "closing", "closed"}
AnswersStand == \A c \in Calls : AnswerStands(c)
AnswersAreFinal == [][AnswersStand]_vars

=============================================================================
