---------------------------- MODULE MCMPSCQueue ----------------------------
(* Instances of MPSCQueue for TLC. *)
EXTENDS MPSCQueue, TLC

CONSTANTS p1, p2, p3, n0, n1, n2, n3, n4

MCProducers == {p1, p2, p3}
MCNodes == {n0, n1, n2, n3, n4}
=============================================================================
