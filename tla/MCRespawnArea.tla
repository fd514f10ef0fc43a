---------------------------- MODULE MCRespawnArea ----------------------------
(* Instances of RespawnArea for TLC: two players. *)
EXTENDS RespawnArea, TLC

CONSTANTS p1, p2 \* players

MCPlayer == {p1, p2}
Symmetry == Permutations(MCPlayer)
=============================================================================
