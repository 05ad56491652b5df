------------------------------ MODULE MCNtTCP ------------------------------
(* TLC instances of NtTCP. *)
EXTENDS NtTCP, TLC

CONSTANTS listener, c1, a1, a2

\* WSAECONNREFUSED and ERROR_CONNECTION_REFUSED are both IO_ECONNREFUSED;
\* ERROR_OPERATION_ABORTED is IO_ECANCELED.
MCCases == (10061 :> 111) @@ (1225 :> 111) @@ (995 :> 125)

\* 127.0.0.1, and ::1; port 30080, and the same one given as an int beyond 16 bits.
Loopback4 == Create("AF_IPv4", [i \in 0..15 |-> CASE i = 0 -> 127 [] i = 3 -> 1 [] OTHER -> 0])
Loopback6 == Create("AF_IPv6", [i \in 0..15 |-> IF i = 15 THEN 1 ELSE 0])
MCAsked == [c \in {listener, c1} |->
  IF c = listener THEN [ip |-> Loopback4, port |-> 30080]
                  ELSE [ip |-> Loopback6, port |-> 30080 + 65536]]

\* Two processes, at ports whose octets differ.
MCRemotes ==
  {[family |-> "AF_IPv4", port |-> p, addr |-> Loopback4.mStorage] : p \in {258, 1}}

AcceptSymmetry == Permutations(Accepts)

=============================================================================
