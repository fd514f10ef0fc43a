-------------------------- MODULE MCGroupManager --------------------------
(* Instances of GroupManager for TLC: two or three characters. *)
EXTENDS GroupManager, TLC

CONSTANTS c1, c2, c3 \* characters

MCCharacter == {c1, c2, c3}
MCPair == {c1, c2}
=============================================================================
