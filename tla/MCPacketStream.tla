--------------------------- MODULE MCPacketStream ---------------------------
(* Instances of PacketStream for TLC. *)
EXTENDS PacketStream

\* Two packets of 3 go to a send buffer of 8; one of 4 that follows has room for
\* itself but not for a header more; 9 is larger than the buffer, 10 larger than
\* what the peer accepts.
MCSizes == {3, 4, 9, 10}

\* Packets that a send buffer of 7 has room for, but not for a header more.
TightSizes == {2, 5, 9}

None == {}
Third == {3}
=============================================================================
