------------------------------ MODULE MCItems ------------------------------
(* Two players, three potions, which may be joined, and one sword.          *)
EXTENDS Items

CONSTANTS ann, ben, p1, p2, p3, sword

Two == {ann, ben}
Potions == {p1, p2, p3}
FourItems == Potions \cup {sword}
FourKindOf == [i \in FourItems |-> IF i = sword THEN "sword" ELSE "potion"]
OnlyPotions == {"potion"}
Symmetric == Permutations(Potions) \cup Permutations(Two)

\* Bound: the sword and three units of the potion are not there together.
FewUnits == due["sword"] + due["potion"] <= MaxUnits
============================================================================
