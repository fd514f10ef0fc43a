------------------------------ MODULE MCTrade ------------------------------
(* An instance of Trade for TLC: who is in the world, who has what. *)
EXTENDS Trade, TLC

CONSTANTS p1, p2, p3, p4, \* characters
          k1              \* a kind of item

MCPlayer == {p1, p2, p3, p4}
MCThird == {p3}
MCFourth == {p4}
MCKind == {k1}

(* Either the first trades with the second, in front of a third who has    *)
(* nothing yet, or with the fourth alone.                                  *)
MCInit ==
    /\ Init
    /\ \E S \in {{p1, p2, p3}, {p1, p4}} :
           place = [p \in Player |-> IF p \in S THEN "in" ELSE "out"]
    /\ gold = [p \in Player |-> IF p \in {p2, p4} THEN 1 ELSE 0]
    /\ bag = [p \in Player |-> [k \in Kind |-> IF p \in {p1, p4} THEN 1 ELSE 0]]

MCSpec == MCInit /\ [][Next]_vars

(* The fourth stays away from the others but the first; the third offers  *)
(* no gold.                                                                *)
MCBound == "out" \in {place[p3], place[p4]} /\ tradeGold[p3] = 0
=============================================================================
