----------------------------- MODULE Addresses -----------------------------
(***************************************************************************)
(* Address and its conversion to and from the socket addresses of the      *)
(* system, the same on both targets. An Address and a socket address hold  *)
(* the octets as they travel; a port is an int in the interface and a      *)
(* 16-bit field in network byte order below it, on a little-endian host.   *)
(* The text that inet_pton parses is left out: addresses are octets here.  *)
(***************************************************************************)
EXTENDS Integers

Byte == {b \in Nat : b < 256}
Uint16 == {n \in Nat : n < 65536}
Family == {"AF_IPv4", "AF_IPv6"}
Octets(family) == IF family = "AF_IPv4" THEN 4 ELSE 16

Address == [mFamily : Family, mStorage : [0..15 -> Byte]]

\* Both factories start from Address{}: what the octets leave of the storage is 0.
Create(family, data) ==
  [mFamily |-> family,
   mStorage |-> [i \in 0..15 |-> IF i < Octets(family) THEN data[i] ELSE 0]]
Created(ip) == ip \in Address /\ ip = Create(ip.mFamily, ip.mStorage)

\* An Address and a port, as once returns them in a Peer.
Endpoint == [ip : Address, port : Uint16]

\* sockaddr_in and sockaddr_in6: the first octets of `addr` are the ones in use.
SockAddr == [family : Family, port : Uint16, addr : [0..15 -> Byte]]

Swap16(n) == (n % 256) * 256 + n \div 256

\* The int is narrowed to the uint16_t of the parameter.
htons(port) == Swap16(port % 65536)
ntohs(field) == Swap16(field)

\* to_os_ipv4, to_os_ipv6: memcpy of 4 or 16 octets into a zeroed structure.
to_os_ip(ip, port) ==
  [family |-> ip.mFamily, port |-> htons(port),
   addr |-> [i \in 0..15 |-> IF i < Octets(ip.mFamily) THEN ip.mStorage[i] ELSE 0]]

\* sockaddr_in{}, sockaddr_in6{}
ZeroAddr(family) == [family |-> family, port |-> 0, addr |-> [i \in 0..15 |-> 0]]

\* Mutant of from_os_ip: the port stays in network byte order.
from_os_ip_raw(in) == [ip |-> Create(in.family, in.addr), port |-> in.port]

from_os_ip(in) == [ip |-> Create(in.family, in.addr), port |-> ntohs(in.port)]

\* The endpoint a socket address means to the kernel, which reads the port's octet
\* at the lower address as the higher one.
Denotes(in) ==
  [ip |-> Create(in.family, in.addr), port |-> (in.port % 256) * 256 + in.port \div 256]

=============================================================================
