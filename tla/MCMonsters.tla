----------------------------- MODULE MCMonsters -----------------------------
(* Instances of Monsters for TLC: two players. *)
EXTENDS Monsters

CONSTANTS p1, p2 \* players

MCPlayer == {p1, p2}
=============================================================================
