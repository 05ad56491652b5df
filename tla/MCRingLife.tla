---- MODULE MCRingLife ----
EXTENDS RingLife
CONSTANTS u1, u2, u3
Three == {u1, u2, u3}
Two == {u1, u2}
Interrupted == {4}     \* EINTR
====
